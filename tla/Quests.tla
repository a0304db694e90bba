------------------------------- MODULE Quests -------------------------------
(***************************************************************************)
(* The daily quests of backend/internal/quests: a user's progress rows,    *)
(* advanced by the handlers of trade requests, by the job that looks for   *)
(* cards held long enough and by the job that reads the leaderboard's      *)
(* cache, and reset once a day by a bulk update or by whoever finds the    *)
(* day over.  A step is a statement, or what a call does between two.      *)
(*                                                                         *)
(* The trade itself is one step here (module LedgerTx opens it up); of the *)
(* ledger's rows only the position in one card is kept.                    *)
(***************************************************************************)
EXTENDS Integers, Sequences, FiniteSets

CONSTANTS Users,
          Handlers,        \* requests to trade, one handler each
          Ask,             \* Ask[h]: [user, type, key]
          HoldJob, RankJob,
          Position,        \* Position[u]: shares u has held since time 0
          TradesTarget,    \* target_value of the MAKE_TRADES quest
          HoldTime,        \* holdCardQuestDuration
          DayLength,       \* clock ticks in a day
          Boards,          \* sets of users the cached leaderboard may rank well
          Loads,           \* the sets of workers a behaviour may be about
          MaxNow,          \* last tick of the clock
          MaxFailures      \* calls and servers that may fail

Jobs    == {HoldJob, RankJob}
Workers == Handlers \cup Jobs
Quests  == {"MAKE_TRADES", "HOLD_CARD", "REACH_RANK"}

ASSUME QuestsAssumption ==
    /\ HoldJob # RankJob /\ Jobs \cap Handlers = {} /\ IsFiniteSet(Handlers)
    /\ \A h \in Handlers : /\ Ask[h].user \in Users
                           /\ Ask[h].type \in {"BUY", "SELL"}
    /\ Position \in [Users -> Nat]
    /\ TradesTarget \in Nat \ {0} /\ HoldTime \in Nat /\ DayLength \in Nat \ {0}
    /\ Boards \subseteq SUBSET Users /\ Loads \subseteq SUBSET Workers
    /\ MaxNow \in Nat /\ MaxFailures \in Nat

Never == -1
NoRow == [progress |-> 0, completedAt |-> Never, resetAt |-> Never]

TargetOf(q) == IF q = "MAKE_TRADES" THEN TradesTarget ELSE 1

QuestOf(w) ==
    CASE w = HoldJob -> "HOLD_CARD"
      [] w = RankJob -> "REACH_RANK"
      [] OTHER       -> "MAKE_TRADES"

VARIABLES
    now,          \* the clock
    holdings,     \* holdings[u]: [shares, firstBought]
    trades,       \* the trades executed, each [user, key]
    board,        \* the users ranked well by the cached leaderboard
    userQuests,   \* userQuests[u][q]: a progress row, or NoRow
    rewards,      \* the QUEST_REWARD rows, by their key: [user, quest, period]
    stage,        \* stage[w]: the step worker w takes next
    tx,           \* tx[w]: its transaction
    todo,         \* todo[j]: users of the job's list it has not come to yet
    sweep,        \* the bulk reset: [stage, at, due, locked]
    countedFor,   \* countedFor[h]: the period h's trade was counted in (auxiliary)
    failures      \* failures so far

data == <<holdings, trades, board, userQuests, rewards, countedFor>>
vars == <<now, data, stage, tx, todo, sweep, failures>>

NoTx    == [user |-> "nobody", at |-> 0, row |-> NoRow, created |-> FALSE]
NoSweep == [stage |-> "idle", at |-> 0, due |-> {}, locked |-> {}]

Init ==
    /\ now = 0
    /\ holdings = [u \in Users |->
                      [shares      |-> Position[u],
                       firstBought |-> IF Position[u] > 0 THEN 0 ELSE Never]]
    /\ trades = <<>>
    /\ board = {}
    /\ userQuests = [u \in Users |-> [q \in Quests |-> NoRow]]
    /\ rewards = <<>>
    /\ \E load \in Loads :
          stage = [w \in Workers |-> IF w \notin load THEN "done"
                                    ELSE IF w \in Jobs THEN "idle" ELSE "post"]
    /\ tx = [w \in Workers |-> NoTx]
    /\ todo = [j \in Jobs |-> {}]
    /\ sweep = NoSweep
    /\ countedFor = [h \in Handlers |-> Never]
    /\ failures = 0

-----------------------------------------------------------------------------
(* Progress rows.                                                          *)

NextMidnight(t) == (t \div DayLength + 1) * DayLength

\* Mutant of Elapsed: a period includes its reset time.
ElapsedAfter(row, at) == row.resetAt < at

\* The period of the row is over: ~resetAt.After(at).
Elapsed(row, at) == row.resetAt <= at

FreshRow(at) == [progress |-> 0, completedAt |-> Never, resetAt |-> NextMidnight(at)]

\* The row as a call that read the clock at this time goes on with it.
Current(row, at) == IF Elapsed(row, at) THEN FreshRow(at) ELSE row

Completed(row) == row.completedAt # Never

\* One more, up to the target; reaching it completes the quest.
Advance(row, q, at) ==
    LET reached == row.progress + 1 >= TargetOf(q)
    IN  [progress    |-> IF reached THEN TargetOf(q) ELSE row.progress + 1,
         completedAt |-> IF reached THEN at ELSE Never,
         resetAt     |-> row.resetAt]

RewardKey(u, q, row) == [user |-> u, quest |-> q, period |-> row.resetAt]

Rewarded(key) == \E i \in DOMAIN rewards : rewards[i] = key

-----------------------------------------------------------------------------
(* Row locks, told from what the transactions have done.                   *)

OpenStages == {"key share", "user", "commit"}

\* Mutant of HoldsRow: the progress row is read without being locked.
NeverHoldsRow(w, u, q) == FALSE

\* The upsert locks the progress row, whether it inserts or finds it.
HoldsRow(w, u, q) ==
    stage[w] \in OpenStages /\ tx[w].user = u /\ QuestOf(w) = q

\* An inserted row references its user: a key share lock of the user's row.
SharesUser(w, u) ==
    stage[w] \in {"user", "commit"} /\ tx[w].user = u /\ tx[w].created

\* grantReward locks the user's row.
HoldsUser(w, u) ==
    stage[w] = "commit" /\ tx[w].user = u /\ Completed(tx[w].row)

RowFree(w, u, q) ==
    /\ \A v \in Workers \ {w} : ~HoldsRow(v, u, q)
    /\ <<u, q>> \notin sweep.locked

-----------------------------------------------------------------------------
(* applyProgress.                                                          *)

Goto(w, s) == stage' = [stage EXCEPT ![w] = s]

\* The call returns, committed or rolled back; a job goes on with its list.
Return(w) ==
    /\ Goto(w, IF w \in Handlers THEN "done" ELSE IF todo[w] = {} THEN "idle" ELSE "next")
    /\ tx' = [tx EXCEPT ![w] = NoTx]

\* The clock is read, and the transaction begins.
Begin(w, u) ==
    /\ tx' = [tx EXCEPT ![w] = [NoTx EXCEPT !.user = u, !.at = now]]
    /\ Goto(w, "row")

\* What the call makes of the locked row.  A quest already completed in this
\* period is left alone.
Apply(w, row, created) ==
    LET current == Current(row, tx[w].at)
        next    == Advance(current, QuestOf(w), tx[w].at)
    IN  IF Completed(current)
        THEN Return(w)
        ELSE /\ tx' = [tx EXCEPT ![w].row = next, ![w].created = created]
             /\ Goto(w, IF Completed(next) THEN "user" ELSE "commit")

\* GetOrCreateUserQuestForUpdate: the row, if it exists, is locked and read.
LockRow(w) ==
    LET u == tx[w].user
        q == QuestOf(w)
    IN  /\ stage[w] = "row"
        /\ RowFree(w, u, q)
        /\ IF userQuests[u][q] = NoRow
           THEN Goto(w, "key share") /\ UNCHANGED tx
           ELSE Apply(w, userQuests[u][q], FALSE)
        /\ UNCHANGED <<now, data, todo, sweep, failures>>

\* If not, it is inserted, and waits for whoever has locked the user's row.
ShareUser(w) ==
    /\ stage[w] = "key share"
    /\ \A v \in Workers \ {w} : ~HoldsUser(v, tx[w].user)
    /\ Apply(w, FreshRow(tx[w].at), TRUE)
    /\ UNCHANGED <<now, data, todo, sweep, failures>>

\* grantReward: the user's row is locked, the balance raised and the reward
\* inserted.  A duplicate key aborts the transaction, and its commit fails.
GrantReward(w) ==
    LET u == tx[w].user
    IN  /\ stage[w] = "user"
        /\ \A v \in Workers \ {w} : ~HoldsUser(v, u) /\ ~SharesUser(v, u)
        /\ IF Rewarded(RewardKey(u, QuestOf(w), tx[w].row))
           THEN Return(w)
           ELSE Goto(w, "commit") /\ UNCHANGED tx
        /\ UNCHANGED <<now, data, todo, sweep, failures>>

\* Mutant of NewRewards: the reward is not part of the transaction.
NoNewRewards(w) == <<>>

NewRewards(w) ==
    IF Completed(tx[w].row)
    THEN <<RewardKey(tx[w].user, QuestOf(w), tx[w].row)>> ELSE <<>>

Commit(w) ==
    /\ stage[w] = "commit"
    /\ userQuests' = [userQuests EXCEPT ![tx[w].user][QuestOf(w)] = tx[w].row]
    /\ rewards' = rewards \o NewRewards(w)
    /\ countedFor' = IF w \in Handlers
                     THEN [countedFor EXCEPT ![w] = tx[w].row.resetAt]
                     ELSE countedFor
    /\ Return(w)
    /\ UNCHANGED <<now, holdings, trades, board, todo, sweep, failures>>

-----------------------------------------------------------------------------
(* Callers of applyProgress.                                               *)

Executed(k) == \E i \in DOMAIN trades : trades[i].key = k

MayTrade(u, type) == type = "SELL" => holdings[u].shares > 0

\* What the trade makes of the position; first_bought_at is set once.
HoldingAfter(held, type) ==
    IF type = "SELL" THEN [held EXCEPT !.shares = @ - 1]
    ELSE [shares      |-> held.shares + 1,
          firstBought |-> IF held.firstBought = Never THEN now ELSE held.firstBought]

\* POST /api/trades, up to the quest hook: the trade is executed, or answered
\* from the row of its key, or rejected.
PostTrade(h) ==
    LET u    == Ask[h].user
        type == Ask[h].type
    IN  /\ stage[h] = "post"
        /\ \/ /\ Executed(Ask[h].key)
              /\ Goto(h, "begin")
              /\ UNCHANGED <<holdings, trades>>
           \/ /\ ~Executed(Ask[h].key)
              /\ MayTrade(u, type)
              /\ holdings' = [holdings EXCEPT ![u] = HoldingAfter(@, type)]
              /\ trades' = Append(trades, [user |-> u, key |-> Ask[h].key])
              /\ Goto(h, "begin")
           \/ /\ ~Executed(Ask[h].key)
              /\ Goto(h, "done")
              /\ UNCHANGED <<holdings, trades>>
        /\ UNCHANGED <<now, board, userQuests, rewards, countedFor, tx, todo, sweep, failures>>

\* The hook counts whatever ExecuteTrade answered with success.
RecordTrade(h) ==
    /\ stage[h] = "begin"
    /\ Begin(h, Ask[h].user)
    /\ UNCHANGED <<now, data, todo, sweep, failures>>

\* ListHumanUsersWithQualifyingHolding.
HeldLongEnough(u) ==
    /\ holdings[u].shares > 0
    /\ holdings[u].firstBought # Never
    /\ holdings[u].firstBought <= now - HoldTime

\* The list a job goes through, as it is when the job starts on it.
List(j) == IF j = HoldJob THEN {u \in Users : HeldLongEnough(u)} ELSE board

ReadList(j) ==
    /\ stage[j] = "idle"
    /\ List(j) # {}
    /\ todo' = [todo EXCEPT ![j] = List(j)]
    /\ Goto(j, "next")
    /\ UNCHANGED <<now, data, tx, sweep, failures>>

\* completeIfConditionMet, for the next user of the list.
NextUser(j) ==
    /\ stage[j] = "next"
    /\ \E u \in todo[j] :
          /\ todo' = [todo EXCEPT ![j] = @ \ {u}]
          /\ Begin(j, u)
    /\ UNCHANGED <<now, data, sweep, failures>>

\* The leaderboard's job replaces the cache.
Refresh ==
    /\ board' \in Boards
    /\ UNCHANGED <<now, holdings, trades, userQuests, rewards, countedFor,
                   stage, tx, todo, sweep, failures>>

-----------------------------------------------------------------------------
(* ResetDueQuests: one UPDATE, which waits for locked rows and then looks   *)
(* again whether they are due.                                             *)

Due(row, at) == row # NoRow /\ Elapsed(row, at)

\* The statement finds the rows that are due, by a clock read before it began.
ScanDue(at) ==
    LET due == {uq \in Users \X Quests : Due(userQuests[uq[1]][uq[2]], at)}
    IN  /\ sweep.stage = "idle"
        /\ due # {}
        /\ sweep' = [stage |-> "lock", at |-> at, due |-> due, locked |-> {}]
        /\ UNCHANGED <<now, data, stage, tx, todo, failures>>

\* Mutant of StillDue: a row found by the scan is reset whatever it is by now.
DueOnce(u, q) == TRUE

StillDue(u, q) == Due(userQuests[u][q], sweep.at)

ResetRow(u, q) ==
    /\ sweep.stage = "lock"
    /\ <<u, q>> \in sweep.due
    /\ \A w \in Workers : ~HoldsRow(w, u, q)
    /\ sweep' = [sweep EXCEPT
                    !.due    = @ \ {<<u, q>>},
                    !.locked = IF StillDue(u, q) THEN @ \cup {<<u, q>>} ELSE @]
    /\ UNCHANGED <<now, data, stage, tx, todo, failures>>

CommitReset ==
    /\ sweep.stage = "lock" /\ sweep.due = {}
    /\ userQuests' = [u \in Users |-> [q \in Quests |->
                         IF <<u, q>> \in sweep.locked THEN FreshRow(sweep.at)
                         ELSE userQuests[u][q]]]
    /\ sweep' = NoSweep
    /\ UNCHANGED <<now, holdings, trades, board, rewards, countedFor,
                   stage, tx, todo, failures>>

-----------------------------------------------------------------------------
(* Failures.                                                               *)

MayFail == failures < MaxFailures /\ failures' = failures + 1

\* A statement fails: rolled back, logged, and the worker goes on.
Fail(w) ==
    /\ stage[w] \in {"row"} \cup OpenStages
    /\ MayFail
    /\ Return(w)
    /\ UNCHANGED <<now, data, todo, sweep>>

\* Two calls that inserted rows of one user both want the user's row.
Deadlocked(w) ==
    \E v \in Workers \ {w} :
        /\ stage[w] = "user" /\ stage[v] = "user"
        /\ SharesUser(w, tx[w].user) /\ SharesUser(v, tx[w].user)

\* Postgres ends one of them.
BreakDeadlock(w) ==
    /\ Deadlocked(w)
    /\ Return(w)
    /\ UNCHANGED <<now, data, todo, sweep, failures>>

\* The server goes down, and comes back with its jobs.
Crash ==
    /\ MayFail
    /\ stage' = [w \in Workers |->
                    IF stage[w] \in {"post", "done"} THEN stage[w]
                    ELSE IF w \in Jobs THEN "idle" ELSE "done"]
    /\ tx' = [w \in Workers |-> NoTx]
    /\ todo' = [j \in Jobs |-> {}]
    /\ sweep' = NoSweep
    /\ UNCHANGED <<now, data>>

-----------------------------------------------------------------------------
Tick ==
    /\ now < MaxNow
    /\ now' = now + 1
    /\ UNCHANGED <<data, stage, tx, todo, sweep, failures>>

\* What a call does by itself, sooner or later.
Step(w) ==
    \/ w \in Handlers /\ RecordTrade(w)
    \/ w \in Jobs /\ (ReadList(w) \/ NextUser(w))
    \/ LockRow(w) \/ ShareUser(w) \/ GrantReward(w) \/ Commit(w)
    \/ BreakDeadlock(w)

ResetStep ==
    \/ CommitReset
    \/ \E at \in 0..now : ScanDue(at)
    \/ \E u \in Users, q \in Quests : ResetRow(u, q)

Next ==
    \/ Tick
    \/ \E h \in Handlers : PostTrade(h)
    \/ \E w \in Workers : Step(w) \/ Fail(w)
    \/ ResetStep
    \/ Refresh
    \/ Crash

Spec == Init /\ [][Next]_vars

\* Goroutines run on and their tickers fire again.  Postgres ends deadlocks, and
\* grants a lock in the order it was asked for: nobody waits for one that is free
\* again and again.
FairSpec ==
    /\ Spec
    /\ \A w \in Workers : WF_vars(Step(w)) /\ SF_vars(GrantReward(w))
    /\ WF_vars(ResetStep)

-----------------------------------------------------------------------------
(* Correctness.                                                            *)

ProgressRow ==
    [progress : Nat, completedAt : Nat \cup {Never}, resetAt : Nat \cup {Never}]

TypeOK ==
    /\ now \in Nat
    /\ holdings \in [Users -> [shares : Nat, firstBought : Nat \cup {Never}]]
    /\ trades \in Seq([user : Users, key : {Ask[h].key : h \in Handlers}])
    /\ board \subseteq Users
    /\ userQuests \in [Users -> [Quests -> ProgressRow]]
    /\ rewards \in Seq([user : Users, quest : Quests, period : Nat])
    /\ stage \in [Workers -> {"idle", "next", "post", "begin", "row", "done"} \cup OpenStages]
    /\ todo \in [Jobs -> SUBSET Users]
    /\ sweep.due \cup sweep.locked \subseteq Users \X Quests

\* The key of a reward is never taken when the reward is inserted: the branch
\* of grantReward for a duplicate, whose commit would fail, is never reached.
NoDuplicateReward ==
    \A w \in Workers :
        stage[w] = "user" =>
            ~Rewarded(RewardKey(tx[w].user, QuestOf(w), tx[w].row))

\* No trade is lost: the progress of a period is the number of trades counted
\* in it, up to the target, however handlers and resets interleave.
TradesAreCounted ==
    \A u \in Users :
        LET row     == userQuests[u]["MAKE_TRADES"]
            counted == {h \in Handlers : /\ Ask[h].user = u
                                         /\ countedFor[h] = row.resetAt}
        IN  row # NoRow =>
                row.progress = (IF Cardinality(counted) < TradesTarget
                                THEN Cardinality(counted) ELSE TradesTarget)

\* What ListUserQuests shows of a row.
View(row) ==
    IF row # NoRow /\ row.resetAt > now
    THEN [progress |-> row.progress, completed |-> Completed(row), resetAt |-> row.resetAt]
    ELSE [progress |-> 0, completed |-> FALSE, resetAt |-> NextMidnight(now)]

\* The day a period that ends then is.
DayOf(resetAt) == resetAt \div DayLength - 1

\* What users are shown, and what they have been paid for.
Standing ==
    [u \in Users |-> [q \in Quests |->
        [progress  |-> View(userQuests[u][q]).progress,
         completed |-> View(userQuests[u][q]).completed]]]

Paid ==
    {[user |-> rewards[i].user, quest |-> rewards[i].quest, day |-> DayOf(rewards[i].period)]
        : i \in DOMAIN rewards}

Book == INSTANCE QuestBook WITH
    Target   <- [q \in Quests |-> TargetOf(q)],
    day      <- now \div DayLength,
    standing <- Standing,
    paid     <- Paid,
    payments <- Len(rewards)

\* Rows, transactions, jobs and resets amount to the book of module QuestBook:
\* what users are shown starts afresh at midnight and not when the bulk reset
\* comes to a row, the reset takes nothing back, and a completed quest is paid
\* exactly once for its day, whatever fails between.
ImplementsQuestBook == Book!Spec

\* Who goes on holding a card long enough has the quest of the day completed in
\* the end, whatever else the user's quests do meanwhile.
HoldersAreRewarded ==
    \A u \in Users :
        stage[HoldJob] = "idle" /\ <>[]HeldLongEnough(u) =>
            <>[]View(userQuests[u]["HOLD_CARD"]).completed

\* A trade counts once: not more trades are counted than were executed.
TradesCountOnce ==
    \A u \in Users :
        Cardinality({h \in Handlers : Ask[h].user = u /\ countedFor[h] # Never})
            <= Cardinality({i \in DOMAIN trades : trades[i].user = u})
=============================================================================
