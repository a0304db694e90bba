---------------------------- MODULE QuestsProofs ----------------------------
(***************************************************************************)
(* Proofs about module Quests: however many users, requests, days, resets  *)
(* and failures there are, no reward is paid twice; it implements module   *)
(* QuestBook; and the daily progress counts the trades: none is lost and   *)
(* none is counted in two periods, however requests, jobs and resets       *)
(* interleave.                                                             *)
(***************************************************************************)
EXTENDS Quests, FiniteSetTheorems, TLAPS

-----------------------------------------------------------------------------
(* Periods.                                                                *)

\* Days have a length.
LEMMA DaysHaveLength == DayLength \in Nat /\ DayLength > 0
BY QuestsAssumption DEF QuestsAssumption

\* A time lies between the beginning of its day and its midnight.
LEMMA DayBounds ==
    ASSUME NEW t \in Nat
    PROVE  /\ t \div DayLength \in Nat /\ (t \div DayLength) * DayLength \in Nat
           /\ (t \div DayLength) * DayLength <= t
           /\ NextMidnight(t) \in Nat /\ t < NextMidnight(t)
           /\ NextMidnight(t) = (t \div DayLength) * DayLength + DayLength
<1>1. t \div DayLength \in Nat
    BY DaysHaveLength
<1>2. (t \div DayLength) * DayLength <= t /\ t < (t \div DayLength + 1) * DayLength
    BY DaysHaveLength
<1>3. /\ (t \div DayLength + 1) * DayLength = (t \div DayLength) * DayLength + DayLength
      /\ (t \div DayLength) * DayLength \in Nat
    BY <1>1, DaysHaveLength
<1>. QED
    BY <1>1, <1>2, <1>3, DaysHaveLength DEF NextMidnight

\* A period ends after the time it is taken at.
LEMMA MidnightIsAhead ==
    ASSUME NEW t \in Nat
    PROVE  NextMidnight(t) \in Nat /\ t < NextMidnight(t)
BY DayBounds

\* The multiples of a day's length grow.
LEMMA DaysGrow ==
    ASSUME NEW a \in Nat, NEW b \in Nat
    PROVE  /\ a <= b => a * DayLength <= b * DayLength
           /\ a < b => a * DayLength + DayLength <= b * DayLength
           /\ a * DayLength = b * DayLength => a = b
<1> DEFINE d == DayLength
<1>1. d \in Nat /\ d > 0
    BY DaysHaveLength
<1>. HIDE DEF d
<1>2. a <= b => a * d <= b * d
    BY <1>1
<1>3. a < b => (a + 1) * d <= b * d
    BY <1>1
<1>4. (a + 1) * d = a * d + d
    BY <1>1
<1>5. a * d = b * d => a = b
    BY <1>1
<1>. QED
    BY <1>2, <1>3, <1>4, <1>5 DEF d

\* The row of a period that is over is replaced by one of a later period.
LEMMA CurrentIsNewer ==
    ASSUME NEW row \in ProgressRow, NEW at \in Nat
    PROVE  /\ Current(row, at) \in ProgressRow /\ Current(row, at).resetAt \in Nat
           /\ row.resetAt < Current(row, at).resetAt \/ Current(row, at) = row
<1>1. row.resetAt \in Nat \cup {-1}
    BY DEF ProgressRow, Never
<1>2. CASE Elapsed(row, at)
    <2>1. Current(row, at) = [progress |-> 0, completedAt |-> Never, resetAt |-> NextMidnight(at)]
        BY <1>2 DEF Current, FreshRow
    <2>2. Current(row, at) \in ProgressRow /\ Current(row, at).resetAt = NextMidnight(at)
        BY <2>1, MidnightIsAhead DEF ProgressRow
    <2>3. NextMidnight(at) \in Nat /\ row.resetAt < NextMidnight(at)
        BY <1>1, <1>2, MidnightIsAhead DEF Elapsed
    <2>. QED
        BY <1>1, <2>2, <2>3
<1>3. CASE ~Elapsed(row, at)
    BY <1>1, <1>3 DEF Current, Elapsed
<1>. QED
    BY <1>2, <1>3

\* Progress stays in its period.
LEMMA AdvanceStays ==
    ASSUME NEW row \in ProgressRow, NEW q, NEW at \in Nat
    PROVE  Advance(row, q, at) \in ProgressRow /\ Advance(row, q, at).resetAt = row.resetAt
<1>1. TargetOf(q) \in Nat
    BY QuestsAssumption DEF QuestsAssumption, TargetOf
<1>. QED
    BY <1>1 DEF Advance, ProgressRow

-----------------------------------------------------------------------------
(* The inductive invariant.                                                *)

\* Stages in which a worker has no transaction open.
Closed == {"idle", "next", "post", "begin", "done"}

\* A transaction.
TxRecord ==
    [user : Users \cup {"nobody"}, at : Nat, row : ProgressRow, created : {TRUE, FALSE}]

\* The types, with the clock ahead of every time that was read from it.
Types ==
    /\ now \in Nat
    /\ board \subseteq Users
    /\ userQuests \in [Users -> [Quests -> ProgressRow]]
    /\ rewards \in Seq([user : Users, quest : Quests, period : Nat])
    /\ stage \in [Workers -> Closed \cup {"row"} \cup OpenStages]
    /\ tx \in [Workers -> TxRecord]
    /\ todo \in [Jobs -> SUBSET Users]
    /\ sweep.at \in Nat /\ sweep.at <= now
    /\ \A w \in Workers : tx[w].at <= now
    /\ sweep.due \subseteq Users \X Quests /\ sweep.locked \subseteq Users \X Quests
    /\ \A w \in Workers : stage[w] \in {"row"} \cup OpenStages => tx[w].user \in Users

\* A progress row is held by one worker, and a row the bulk reset holds by none.
LockInv ==
    /\ \A v, w \in Workers :
          /\ v # w /\ stage[v] \in OpenStages /\ stage[w] \in OpenStages
          /\ tx[v].user = tx[w].user
          => QuestOf(v) # QuestOf(w)
    /\ \A w \in Workers :
          stage[w] \in OpenStages => <<tx[w].user, QuestOf(w)>> \notin sweep.locked

\* The rows it holds stay due.
ResetInv ==
    \A u \in Users, q \in Quests :
        <<u, q>> \in sweep.locked => Elapsed(userQuests[u][q], sweep.at)

\* A quest that was rewarded is completed, as long as its period goes on.
RewardInv ==
    \A i \in DOMAIN rewards :
        LET row == userQuests[rewards[i].user][rewards[i].quest]
        IN  \/ rewards[i].period < row.resetAt
            \/ rewards[i].period = row.resetAt /\ Completed(row)

\* What a transaction is about to write is the row it holds, or a fresh one if the
\* period of that is over, with one more step of progress.
TxInv ==
    \A w \in Workers :
        stage[w] \in {"user", "commit"} =>
            LET row == Current(userQuests[tx[w].user][QuestOf(w)], tx[w].at)
            IN  /\ ~Completed(row)
                /\ tx[w].row = Advance(row, QuestOf(w), tx[w].at)
                /\ stage[w] = "user" => Completed(tx[w].row)

\* The row that is about to be inserted is not there yet.
InsertInv ==
    \A w \in Workers :
        stage[w] = "key share" => userQuests[tx[w].user][QuestOf(w)] = NoRow

\* All of it.
Inv == Types /\ LockInv /\ ResetInv /\ RewardInv /\ TxInv /\ InsertInv

\* Every worker works on a quest.
LEMMA QuestOfType == \A w \in Workers : QuestOf(w) \in Quests
BY DEF QuestOf, Quests

\* What a reward is of.
LEMMA RewardType ==
    ASSUME Types, NEW i \in DOMAIN rewards
    PROVE  /\ rewards[i].user \in Users /\ rewards[i].quest \in Quests
           /\ rewards[i].period \in Nat
<1> DEFINE Reward == [user : Users, quest : Quests, period : Nat]
<1>1. rewards \in Seq(Reward)
    BY DEF Types
<1>2. rewards[i] \in Reward
    <2>. HIDE DEF Reward
    <2>. QED
        BY <1>1
<1>. QED
    BY <1>2

\* It is newer than the row it replaces, or of a period in which that row is not
\* completed.
LEMMA TxIsNewer ==
    ASSUME Inv, NEW w \in Workers, stage[w] \in {"user", "commit"}
    PROVE  LET row == userQuests[tx[w].user][QuestOf(w)]
           IN  /\ tx[w].user \in Users /\ tx[w].at \in Nat /\ row \in ProgressRow
               /\ tx[w].row \in ProgressRow /\ tx[w].row.resetAt \in Nat
               /\ \/ row.resetAt < tx[w].row.resetAt
                  \/ row.resetAt = tx[w].row.resetAt /\ ~Completed(row)
<1> DEFINE row     == userQuests[tx[w].user][QuestOf(w)]
           current == Current(row, tx[w].at)
<1>1. tx[w].user \in Users /\ tx[w].at \in Nat /\ row \in ProgressRow
    BY QuestOfType DEF Inv, Types, TxRecord, OpenStages
<1>2. /\ current \in ProgressRow /\ current.resetAt \in Nat
      /\ row.resetAt < current.resetAt \/ current = row
    BY <1>1, CurrentIsNewer
<1>3. ~Completed(current) /\ tx[w].row = Advance(current, QuestOf(w), tx[w].at)
    BY DEF Inv, TxInv
<1>4. tx[w].row \in ProgressRow /\ tx[w].row.resetAt = current.resetAt
    BY <1>1, <1>2, <1>3, AdvanceStays
<1>5. CASE current = row
    BY <1>1, <1>2, <1>3, <1>4, <1>5
<1>6. CASE row.resetAt < current.resetAt
    BY <1>1, <1>2, <1>4, <1>6
<1>. QED
    BY <1>2, <1>5, <1>6

-----------------------------------------------------------------------------
(* What locks do.                                                          *)

\* A step by which nobody comes to hold a row, and nothing is committed.
NobodyLocks ==
    /\ \A w \in Workers : stage'[w] \in OpenStages =>
          /\ stage[w] \in OpenStages
          /\ stage'[w] \in {"user", "commit"} => stage[w] \in {"user", "commit"}
          /\ stage'[w] = "user" => stage[w] = "user"
          /\ stage'[w] = "key share" => stage[w] = "key share"
          /\ tx'[w] = tx[w]
    /\ sweep'.locked = {} \/ (sweep'.locked = sweep.locked /\ sweep'.at = sweep.at)
    /\ UNCHANGED <<userQuests, rewards>>

\* It leaves all of the invariant as it is.
LEMMA LocksKept ==
    ASSUME Types, LockInv, ResetInv, RewardInv, TxInv, InsertInv, NobodyLocks
    PROVE  LockInv' /\ ResetInv' /\ RewardInv' /\ TxInv' /\ InsertInv'
<1>1. LockInv'
    BY DEF NobodyLocks, LockInv
<1>2. ResetInv'
    BY DEF NobodyLocks, ResetInv, Elapsed
<1>3. RewardInv'
    BY DEF NobodyLocks, RewardInv, Completed
<1>4. TxInv'
    BY DEF NobodyLocks, TxInv, OpenStages
<1>5. InsertInv'
    BY DEF NobodyLocks, InsertInv, OpenStages
<1>. QED
    BY <1>1, <1>2, <1>3, <1>4, <1>5

\* A call that returns gives its row back.
LEMMA ReturnUnlocks ==
    ASSUME Types, NEW w \in Workers, Return(w), UNCHANGED <<now, data, todo, sweep>>
    PROVE  Types' /\ NobodyLocks
<1>1. NoTx \in TxRecord /\ NoTx.at = 0
    BY DEF NoTx, TxRecord, NoRow, ProgressRow
<1>2. Types'
    <2>1. /\ tx' = [tx EXCEPT ![w] = NoTx] /\ UNCHANGED <<now, data, todo, sweep>>
          /\ stage' \in [Workers -> Closed \cup {"row"} \cup OpenStages]
          /\ stage'[w] \in {"done", "idle", "next"}
          /\ \A v \in Workers \ {w} : stage'[v] = stage[v]
        BY DEF Types, Return, Goto, Closed
    <2>2. \A v \in Workers : tx'[v] = (IF v = w THEN NoTx ELSE tx[v])
        BY <2>1 DEF Types
    <2>3. \A v \in Workers : tx'[v].at <= now'
        BY <1>1, <2>1, <2>2 DEF Types
    <2>. QED
        BY <1>1, <2>1, <2>2, <2>3 DEF Types, data, OpenStages
<1>3. NobodyLocks
    BY DEF Types, Return, Goto, data, NobodyLocks, OpenStages
<1>. QED
    BY <1>2, <1>3

\* What a call makes of a row it has locked, and that has been free of others.
LEMMA ApplyLocks ==
    ASSUME Inv, NEW w \in Workers, NEW row \in ProgressRow, NEW created \in {TRUE, FALSE},
           stage[w] \in {"row", "key share"},
           RowFree(w, tx[w].user, QuestOf(w)),
           Current(row, tx[w].at) = Current(userQuests[tx[w].user][QuestOf(w)], tx[w].at),
           Apply(w, row, created), UNCHANGED <<now, data, todo, sweep>>
    PROVE  Inv'
<1> DEFINE current == Current(userQuests[tx[w].user][QuestOf(w)], tx[w].at)
           next    == Advance(current, QuestOf(w), tx[w].at)
           held    == userQuests[tx[w].user][QuestOf(w)]
<1>1. tx[w] \in TxRecord /\ tx[w].at \in Nat /\ tx[w].user \in Users /\ held \in ProgressRow
    BY QuestOfType DEF Inv, Types, TxRecord, OpenStages
<1>2. current \in ProgressRow /\ Current(row, tx[w].at) = current
    BY <1>1, CurrentIsNewer
<1>3. CASE Completed(current)
    BY <1>2, <1>3, ReturnUnlocks, LocksKept DEF Inv, Apply
<1>4. CASE ~Completed(current)
    <2>1. next \in ProgressRow
        BY <1>1, <1>2, AdvanceStays
    <2>2. /\ tx' = [tx EXCEPT ![w].row = next, ![w].created = created]
          /\ stage' = [stage EXCEPT ![w] = IF Completed(next) THEN "user" ELSE "commit"]
        BY <1>2, <1>4 DEF Apply, Goto
    <2>3. Types'
        BY <1>1, <2>1, <2>2 DEF Inv, Types, TxRecord, data, OpenStages, Workers, Closed
    <2>4. LockInv'
        <3>1. ASSUME NEW v \in Workers, v # w
              PROVE  stage'[v] = stage[v] /\ tx'[v] = tx[v]
            BY <2>2, <3>1 DEF Inv, Types
        <3>2. tx'[w].user = tx[w].user
            BY <1>1, <2>2 DEF Inv, Types, TxRecord
        <3>3. sweep' = sweep
            OBVIOUS
        <3>4. <<tx[w].user, QuestOf(w)>> \notin sweep.locked
            BY DEF RowFree
        <3>5. ASSUME NEW v \in Workers, v # w, stage[v] \in OpenStages,
                     tx[v].user = tx[w].user
              PROVE  QuestOf(v) # QuestOf(w)
            BY <3>5 DEF RowFree, HoldsRow
        <3>. QED
            BY <3>1, <3>2, <3>3, <3>4, <3>5 DEF Inv, LockInv
    <2>5. ResetInv' /\ RewardInv'
        BY DEF Inv, ResetInv, RewardInv, Elapsed, Completed, data
    <2>6. TxInv'
        <3>1. /\ stage'[w] = (IF Completed(next) THEN "user" ELSE "commit")
              /\ tx'[w].row = next /\ tx'[w].user = tx[w].user /\ tx'[w].at = tx[w].at
            BY <1>1, <2>2 DEF Inv, Types, TxRecord
        <3>2. ASSUME NEW v \in Workers, v # w
              PROVE  stage'[v] = stage[v] /\ tx'[v] = tx[v]
            BY <2>2, <3>2 DEF Inv, Types
        <3>3. userQuests' = userQuests
            BY DEF data
        <3>. QED
            BY <1>4, <3>1, <3>2, <3>3 DEF Inv, TxInv
    <2>7. InsertInv'
        BY <1>1, <2>2 DEF Inv, Types, InsertInv, data
    <2>. QED
        BY <2>3, <2>4, <2>5, <2>6, <2>7 DEF Inv
<1>. QED
    BY <1>3, <1>4

-----------------------------------------------------------------------------
(* Every step keeps the invariant.                                         *)

\* Steps by which nobody comes to hold a row.
LEMMA QuietStep ==
    ASSUME Inv, Types', NobodyLocks
    PROVE  Inv'
BY LocksKept DEF Inv

\* The row is locked: whoever held it before has returned.
LEMMA LockRowStep == ASSUME Inv, NEW w \in Workers, LockRow(w) PROVE Inv'
<1> DEFINE held == userQuests[tx[w].user][QuestOf(w)]
<1>1. held \in ProgressRow /\ tx[w].user \in Users /\ tx[w] \in TxRecord
    BY QuestOfType DEF Inv, Types, LockRow
<1>2. CASE held = NoRow
    <2>1. stage' = [stage EXCEPT ![w] = "key share"] /\ tx' = tx
        BY <1>2 DEF LockRow, Goto
    <2>2. /\ UNCHANGED <<now, data, todo, sweep>>
          /\ RowFree(w, tx[w].user, QuestOf(w))
          /\ stage[w] = "row"
        BY DEF LockRow
    <2>3. Types'
        BY <1>1, <2>1, <2>2 DEF Inv, Types, data, OpenStages, Workers
    <2>4. LockInv'
        BY <2>1, <2>2 DEF Inv, Types, LockInv, RowFree, HoldsRow, OpenStages
    <2>5. ResetInv' /\ RewardInv'
        BY <2>2 DEF Inv, ResetInv, RewardInv, Elapsed, Completed, data
    <2>6. TxInv'
        BY <2>1, <2>2 DEF Inv, Types, TxInv, data
    <2>7. InsertInv'
        BY <1>2, <2>1, <2>2 DEF Inv, Types, InsertInv, data
    <2>. QED
        BY <2>3, <2>4, <2>5, <2>6, <2>7 DEF Inv
<1>3. CASE held # NoRow
    BY <1>1, <1>3, ApplyLocks DEF LockRow
<1>. QED
    BY <1>2, <1>3

\* The row is inserted, still held since it was looked for.
LEMMA ShareUserStep == ASSUME Inv, NEW w \in Workers, ShareUser(w) PROVE Inv'
<1>1. tx[w].at \in Nat
    BY DEF Inv, Types, TxRecord
<1>2. /\ FreshRow(tx[w].at) \in ProgressRow
      /\ Current(FreshRow(tx[w].at), tx[w].at) = Current(NoRow, tx[w].at)
    <2>1. ~Elapsed(FreshRow(tx[w].at), tx[w].at) /\ Elapsed(NoRow, tx[w].at)
        BY <1>1, MidnightIsAhead DEF FreshRow, Elapsed, NoRow, Never
    <2>. QED
        BY <1>1, <2>1, MidnightIsAhead DEF FreshRow, ProgressRow, Current
<1>3. userQuests[tx[w].user][QuestOf(w)] = NoRow
    BY DEF Inv, InsertInv, ShareUser
<1>4. RowFree(w, tx[w].user, QuestOf(w))
    BY DEF Inv, LockInv, RowFree, HoldsRow, ShareUser, OpenStages
<1>. QED
    BY <1>2, <1>3, <1>4, ApplyLocks DEF ShareUser

\* The reward is tried; the row goes on being held.
LEMMA GrantRewardStep == ASSUME Inv, NEW w \in Workers, GrantReward(w) PROVE Inv'
<1>1. CASE Return(w)
    BY <1>1, ReturnUnlocks, QuietStep DEF GrantReward, Inv
<1>2. CASE ~Return(w)
    <2>1. stage' = [stage EXCEPT ![w] = "commit"] /\ tx' = tx /\ stage[w] = "user"
          /\ UNCHANGED <<now, data, todo, sweep>>
        BY <1>2 DEF GrantReward, Goto
    <2>2. Types'
        BY <2>1 DEF Inv, Types, data, OpenStages, Workers
    <2>3. NobodyLocks
        BY <2>1 DEF Inv, Types, NobodyLocks, data, OpenStages
    <2>. QED
        BY <2>2, <2>3, QuietStep
<1>. QED
    BY <1>1, <1>2

\* The bulk reset commits: the rows it holds were due, so they move on.
LEMMA CommitResetStep == ASSUME Inv, CommitReset PROVE Inv'
<1>1. ASSUME NEW u \in Users, NEW q \in Quests
      PROVE  /\ <<u, q>> \in sweep.locked =>
                    /\ userQuests'[u][q] \in ProgressRow
                    /\ userQuests[u][q].resetAt < userQuests'[u][q].resetAt
             /\ <<u, q>> \notin sweep.locked => userQuests'[u][q] = userQuests[u][q]
    <2>1. CASE <<u, q>> \in sweep.locked
        <3>1. /\ sweep.at \in Nat
              /\ userQuests[u][q].resetAt <= sweep.at
              /\ userQuests[u][q] \in ProgressRow
            BY <2>1 DEF Inv, Types, ResetInv, Elapsed
        <3>2. userQuests'[u][q] = FreshRow(sweep.at)
            BY <2>1 DEF CommitReset
        <3>3. FreshRow(sweep.at) \in ProgressRow /\ FreshRow(sweep.at).resetAt > sweep.at
              /\ FreshRow(sweep.at).resetAt \in Nat
            BY <3>1, MidnightIsAhead DEF FreshRow, ProgressRow
        <3>4. userQuests[u][q].resetAt \in Int
            BY <3>1 DEF ProgressRow, Never
        <3>. QED
            BY <2>1, <3>1, <3>2, <3>3, <3>4
    <2>2. CASE <<u, q>> \notin sweep.locked
        BY <2>2 DEF CommitReset
    <2>. QED
        BY <2>1, <2>2
<1>2. /\ UNCHANGED <<now, holdings, trades, board, rewards, countedFor, stage, tx, todo>>
      /\ sweep'.at = 0 /\ sweep'.due = {} /\ sweep'.locked = {}
    BY DEF CommitReset, NoSweep
<1>3. Types'
    <2>1. \A u \in Users, q \in Quests : userQuests'[u][q] \in ProgressRow
        BY <1>1 DEF Inv, Types
    <2>2. userQuests' \in [Users -> [Quests -> ProgressRow]]
        BY <2>1 DEF CommitReset
    <2>. QED
        BY <1>2, <2>2 DEF Inv, Types
<1>4. LockInv' /\ ResetInv'
    BY <1>2 DEF Inv, LockInv, ResetInv
<1>5. RewardInv'
    <2>. SUFFICES ASSUME NEW i \in DOMAIN rewards
                  PROVE  LET row == userQuests'[rewards[i].user][rewards[i].quest]
                         IN  \/ rewards[i].period < row.resetAt
                             \/ rewards[i].period = row.resetAt /\ Completed(row)
        BY <1>2 DEF RewardInv, Completed
    <2>. DEFINE u == rewards[i].user
                q == rewards[i].quest
    <2>1. u \in Users /\ q \in Quests /\ rewards[i].period \in Nat
        BY RewardType DEF Inv
    <2>2. \/ rewards[i].period < userQuests[u][q].resetAt
          \/ rewards[i].period = userQuests[u][q].resetAt /\ Completed(userQuests[u][q])
        BY DEF Inv, RewardInv
    <2>3. userQuests[u][q].resetAt \in Int /\ userQuests'[u][q].resetAt \in Int
        <3>1. userQuests[u][q] \in ProgressRow /\ userQuests'[u][q] \in ProgressRow
            BY <1>3, <2>1 DEF Inv, Types
        <3>. QED
            BY <3>1 DEF ProgressRow, Never
    <2>4. CASE <<u, q>> \in sweep.locked
        BY <1>1, <2>1, <2>2, <2>3, <2>4
    <2>5. CASE <<u, q>> \notin sweep.locked
        BY <1>1, <2>1, <2>2, <2>5
    <2>. QED
        BY <2>4, <2>5
<1>6. \A w \in Workers : stage[w] \in OpenStages =>
          userQuests'[tx[w].user][QuestOf(w)] = userQuests[tx[w].user][QuestOf(w)]
    BY <1>1, QuestOfType DEF Inv, Types, LockInv
<1>7. TxInv' /\ InsertInv'
    BY <1>2, <1>6 DEF Inv, TxInv, InsertInv, OpenStages
<1>. QED
    BY <1>3, <1>4, <1>5, <1>7 DEF Inv

\* A call commits: the row is the one it holds, so rewards stay completed.
LEMMA CommitStep == ASSUME Inv, NEW w \in Workers, Commit(w) PROVE Inv'
<1> DEFINE u == tx[w].user
           q == QuestOf(w)
<1>1. /\ u \in Users /\ q \in Quests /\ tx[w] \in TxRecord
      /\ tx[w].row \in ProgressRow /\ tx[w].row.resetAt \in Nat
    BY QuestOfType, TxIsNewer DEF Inv, Types, Commit
<1>2. /\ userQuests'[u][q] = tx[w].row
      /\ \A v \in Users, p \in Quests :
            <<v, p>> # <<u, q>> => userQuests'[v][p] = userQuests[v][p]
      /\ userQuests' \in [Users -> [Quests -> ProgressRow]]
    BY <1>1 DEF Inv, Types, Commit
<1>3. /\ \A v \in Workers \ {w} : stage'[v] = stage[v] /\ tx'[v] = tx[v]
      /\ stage'[w] \in {"done", "idle", "next"} /\ tx' \in [Workers -> TxRecord]
      /\ stage' \in [Workers -> Closed \cup {"row"} \cup OpenStages]
      /\ tx'[w].at = 0
    <2>1. NoTx \in TxRecord /\ NoTx.at = 0
        BY DEF NoTx, TxRecord, NoRow, ProgressRow
    <2>. QED
        BY <2>1 DEF Inv, Types, Commit, Return, Goto, Closed
<1>4. UNCHANGED <<now, board, todo, sweep>>
    BY DEF Commit
<1>5. \/ rewards' = rewards /\ ~Completed(tx[w].row)
      \/ rewards' = Append(rewards, RewardKey(u, q, tx[w].row)) /\ Completed(tx[w].row)
    BY <1>1 DEF Inv, Types, Commit, NewRewards
<1>6. rewards' \in Seq([user : Users, quest : Quests, period : Nat])
    <2> DEFINE Reward == [user : Users, quest : Quests, period : Nat]
    <2>1. rewards \in Seq(Reward)
        BY DEF Inv, Types
    <2>2. RewardKey(u, q, tx[w].row) \in Reward
        BY <1>1 DEF RewardKey
    <2>3. rewards' \in Seq(Reward)
        <3>. HIDE DEF Reward
        <3>. QED
            BY <1>5, <2>1, <2>2
    <2>. QED
        BY <2>3
<1>7. Types'
    <2>1. \A v \in Workers : tx'[v].at <= now'
        BY <1>3, <1>4 DEF Inv, Types
    <2>. QED
        BY <1>2, <1>3, <1>4, <1>6, <2>1 DEF Inv, Types, OpenStages
<1>8. LockInv' /\ ResetInv'
    <2>1. LockInv'
        BY <1>3, <1>4 DEF Inv, LockInv, OpenStages
    <2>2. <<u, q>> \notin sweep.locked
        BY DEF Inv, LockInv, Commit, OpenStages
    <2>3. ResetInv'
        BY <1>2, <1>4, <2>2 DEF Inv, ResetInv, Elapsed
    <2>. QED
        BY <2>1, <2>3
<1>9. ASSUME NEW i \in DOMAIN rewards
      PROVE  LET row == userQuests'[rewards[i].user][rewards[i].quest]
             IN  \/ rewards[i].period < row.resetAt
                 \/ rewards[i].period = row.resetAt /\ Completed(row)
    <2> DEFINE v == rewards[i].user
               p == rewards[i].quest
    <2>1. v \in Users /\ p \in Quests /\ rewards[i].period \in Nat
        BY RewardType DEF Inv
    <2>2. \/ rewards[i].period < userQuests[v][p].resetAt
          \/ rewards[i].period = userQuests[v][p].resetAt /\ Completed(userQuests[v][p])
        BY DEF Inv, RewardInv
    <2>3. CASE <<v, p>> = <<u, q>>
        <3>1. \/ userQuests[u][q].resetAt < tx[w].row.resetAt
              \/ userQuests[u][q].resetAt = tx[w].row.resetAt /\ ~Completed(userQuests[u][q])
            BY TxIsNewer DEF Commit
        <3>2. userQuests[u][q].resetAt \in Int
            <4>1. userQuests[u][q] \in ProgressRow
                BY <1>1 DEF Inv, Types
            <4>. QED
                BY <4>1 DEF ProgressRow, Never
        <3>3. rewards[i].period < tx[w].row.resetAt
            BY <1>1, <2>1, <2>2, <2>3, <3>1, <3>2
        <3>. QED
            BY <1>2, <2>3, <3>3
    <2>4. CASE <<v, p>> # <<u, q>>
        BY <1>2, <2>1, <2>2, <2>4
    <2>. QED
        BY <2>3, <2>4
<1>10. RewardInv'
    <2>1. CASE rewards' = rewards
        BY <1>9, <2>1 DEF RewardInv, Completed
    <2>2. CASE rewards' = Append(rewards, RewardKey(u, q, tx[w].row)) /\ Completed(tx[w].row)
        <3>1. ASSUME NEW i \in DOMAIN rewards'
              PROVE  \/ i \in DOMAIN rewards /\ rewards'[i] = rewards[i]
                     \/ rewards'[i] = RewardKey(u, q, tx[w].row)
            BY <2>2, <3>1 DEF Inv, Types
        <3>2. ASSUME NEW i \in DOMAIN rewards', rewards'[i] = RewardKey(u, q, tx[w].row)
              PROVE  /\ rewards'[i].period = userQuests'[rewards'[i].user][rewards'[i].quest].resetAt
                     /\ Completed(userQuests'[rewards'[i].user][rewards'[i].quest])
            BY <1>2, <2>2, <3>2 DEF RewardKey
        <3>. QED
            BY <1>9, <3>1, <3>2 DEF RewardInv, Completed
    <2>. QED
        BY <1>5, <2>1, <2>2
<1>11. ASSUME NEW v \in Workers, stage'[v] \in OpenStages
       PROVE  /\ stage'[v] = stage[v] /\ tx'[v] = tx[v]
              /\ userQuests'[tx[v].user][QuestOf(v)] = userQuests[tx[v].user][QuestOf(v)]
    <2>1. v # w /\ stage'[v] = stage[v] /\ tx'[v] = tx[v]
        BY <1>3, <1>11 DEF OpenStages
    <2>2. <<tx[v].user, QuestOf(v)>> # <<u, q>>
        BY <1>11, <2>1 DEF Inv, LockInv, Commit, OpenStages
    <2>3. tx[v].user \in Users /\ QuestOf(v) \in Quests
        BY <1>11, <2>1, QuestOfType DEF Inv, Types
    <2>. QED
        BY <1>2, <2>1, <2>2, <2>3
<1>12. TxInv' /\ InsertInv'
    BY <1>11 DEF Inv, TxInv, InsertInv, OpenStages
<1>. QED
    BY <1>7, <1>8, <1>10, <1>12 DEF Inv

\* The bulk reset takes a row that nobody holds.
LEMMA ResetRowStep ==
    ASSUME Inv, NEW u \in Users, NEW q \in Quests, ResetRow(u, q)
    PROVE  Inv'
<1>1. /\ UNCHANGED <<now, data, stage, tx, todo>>
      /\ sweep'.at = sweep.at /\ sweep'.due \subseteq sweep.due
      /\ \/ sweep'.locked = sweep.locked
         \/ sweep'.locked = sweep.locked \cup {<<u, q>>} /\ Elapsed(userQuests[u][q], sweep.at)
    BY DEF Inv, Types, ResetRow, StillDue, Due
<1>2. Types'
    BY <1>1 DEF Inv, Types, data
<1>3. LockInv'
    BY <1>1 DEF Inv, LockInv, ResetRow, HoldsRow
<1>4. ResetInv'
    BY <1>1 DEF Inv, ResetInv, Elapsed, data
<1>5. RewardInv' /\ TxInv' /\ InsertInv'
    BY <1>1 DEF Inv, RewardInv, TxInv, InsertInv, data
<1>. QED
    BY <1>2, <1>3, <1>4, <1>5 DEF Inv

\* A call reads the clock, and begins.
LEMMA BeginTypes ==
    ASSUME Types, NEW w \in Workers, NEW u \in Users, Begin(w, u),
           UNCHANGED <<now, data, sweep>>,
           todo' \in [Jobs -> SUBSET Users]
    PROVE  Types' /\ NobodyLocks
<1>1. [NoTx EXCEPT !.user = u, !.at = now] \in TxRecord
    BY DEF Types, NoTx, TxRecord, NoRow, ProgressRow
<1>2. /\ tx' = [tx EXCEPT ![w] = [NoTx EXCEPT !.user = u, !.at = now]]
      /\ stage' = [stage EXCEPT ![w] = "row"]
    BY DEF Begin, Goto
<1>3. /\ tx'[w].at = now /\ tx'[w].user = u
      /\ \A v \in Workers \ {w} : tx'[v] = tx[v] /\ stage'[v] = stage[v]
    BY <1>2 DEF Types, NoTx
<1>4. \A v \in Workers : tx'[v].at <= now'
    BY <1>3 DEF Types
<1>5. Types'
    BY <1>1, <1>2, <1>3, <1>4 DEF Types, data
<1>6. NobodyLocks
    BY <1>2 DEF Types, NobodyLocks, OpenStages, data
<1>. QED
    BY <1>5, <1>6

\* The steps that lock and commit nothing.
LEMMA OtherSteps ==
    ASSUME Inv,
           \/ Tick \/ Refresh \/ Crash \/ UNCHANGED vars
           \/ \E h \in Handlers : PostTrade(h) \/ RecordTrade(h)
           \/ \E j \in Jobs : ReadList(j) \/ NextUser(j)
           \/ \E w \in Workers : Fail(w) \/ BreakDeadlock(w)
           \/ \E at \in 0..now : ScanDue(at)
    PROVE  Inv'
<1>. USE DEF Inv
<1>1. NoTx \in TxRecord /\ NoTx.at = 0 /\ NoRow \in ProgressRow
    BY DEF NoTx, TxRecord, NoRow, ProgressRow
<1>2. CASE Tick
    <2>1. /\ now' = now + 1
          /\ UNCHANGED <<board, userQuests, rewards, stage, tx, todo, sweep>>
        BY <1>2 DEF Tick, data
    <2>2. \A w \in Workers : tx[w].at \in Nat
        BY DEF Types, TxRecord
    <2>3. (\A w \in Workers : tx[w].at <= now)' /\ sweep'.at <= now'
        BY <2>1, <2>2 DEF Types
    <2>4. Types'
        BY <2>1, <2>3 DEF Types
    <2>5. NobodyLocks
        BY <2>1 DEF NobodyLocks
    <2>. QED
        BY <2>4, <2>5, QuietStep
<1>3. CASE Refresh
    BY <1>3, QuietStep, QuestsAssumption DEF QuestsAssumption, Refresh, Types, NobodyLocks
<1>4. CASE Crash
    <2>1. Types'
        <3>1. (\A w \in Workers : tx[w].at <= now)'
            BY <1>1, <1>4 DEF Crash, Types
        <3>2. /\ stage' \in [Workers -> {"post", "done", "idle"}]
              /\ \A w \in Workers : stage'[w] \notin {"row"} \cup OpenStages
            BY <1>4 DEF Crash, OpenStages
        <3>3. tx' \in [Workers -> TxRecord] /\ todo' \in [Jobs -> SUBSET Users]
            BY <1>1, <1>4 DEF Crash
        <3>4. sweep'.at = 0 /\ sweep'.due = {} /\ sweep'.locked = {}
            BY <1>4 DEF Crash, NoSweep
        <3>5. UNCHANGED <<now, board, userQuests, rewards>>
            BY <1>4 DEF Crash, data
        <3>. QED
            BY <3>1, <3>2, <3>3, <3>4, <3>5 DEF Types, Closed
    <2>2. NobodyLocks
        BY <1>4 DEF Crash, Types, NobodyLocks, data, NoSweep, Closed, OpenStages
    <2>. QED
        BY <2>1, <2>2, QuietStep
<1>5. CASE UNCHANGED vars
    BY <1>5, QuietStep DEF vars, data, Types, NobodyLocks
<1>6. ASSUME NEW h \in Handlers, PostTrade(h) PROVE Inv'
    <2>1. Types'
        BY <1>6 DEF PostTrade, Types, Goto, Closed, Workers, OpenStages
    <2>2. NobodyLocks
        BY <1>6 DEF PostTrade, Types, NobodyLocks, Goto, OpenStages, Workers
    <2>. QED
        BY <2>1, <2>2, QuietStep
<1>7. ASSUME NEW h \in Handlers, RecordTrade(h) PROVE Inv'
    <2>1. /\ Begin(h, Ask[h].user) /\ UNCHANGED <<now, data, todo, sweep>>
          /\ Ask[h].user \in Users /\ h \in Workers
        BY <1>7, QuestsAssumption DEF QuestsAssumption, RecordTrade, Workers
    <2>2. todo' \in [Jobs -> SUBSET Users]
        BY <2>1 DEF Types
    <2>. QED
        BY <2>1, <2>2, BeginTypes, QuietStep
<1>8. ASSUME NEW j \in Jobs, ReadList(j) PROVE Inv'
    <2>1. List(j) \subseteq Users
        BY DEF List, Types
    <2>2. Types'
        BY <1>8, <2>1 DEF ReadList, Goto, Types, Closed, OpenStages, Workers, data
    <2>3. NobodyLocks
        BY <1>8 DEF ReadList, Goto, Types, NobodyLocks, OpenStages, Workers, data
    <2>. QED
        BY <2>2, <2>3, QuietStep
<1>9. ASSUME NEW j \in Jobs, NextUser(j) PROVE Inv'
    <2>1. PICK u \in todo[j] : Begin(j, u)
        BY <1>9 DEF NextUser
    <2>2. u \in Users /\ todo' \in [Jobs -> SUBSET Users]
        BY <1>9, <2>1 DEF NextUser, Types
    <2>3. j \in Workers /\ UNCHANGED <<now, data, sweep>>
        BY <1>9 DEF NextUser, Workers
    <2>. QED
        BY <2>1, <2>2, <2>3, BeginTypes, QuietStep
<1>10. ASSUME NEW w \in Workers, Fail(w) \/ BreakDeadlock(w) PROVE Inv'
    BY <1>10, ReturnUnlocks, QuietStep DEF Fail, BreakDeadlock
<1>11. ASSUME NEW at \in 0..now, ScanDue(at) PROVE Inv'
    <2>1. Types'
        BY <1>11 DEF ScanDue, Types, data
    <2>2. NobodyLocks
        BY <1>11 DEF ScanDue, NobodyLocks, data
    <2>. QED
        BY <2>1, <2>2, QuietStep
<1>. QED
    BY <1>2, <1>3, <1>4, <1>5, <1>6, <1>7, <1>8, <1>9, <1>10, <1>11

\* It holds to begin with.
LEMMA InitInv == Init => Inv
<1>. SUFFICES ASSUME Init PROVE Inv
    OBVIOUS
<1>1. NoTx \in TxRecord /\ NoTx.at = 0 /\ NoRow \in ProgressRow
    BY DEF NoTx, TxRecord, NoRow, ProgressRow
<1>2. Types
    BY <1>1 DEF Init, Types, NoSweep, Closed, OpenStages
<1>3. \A w \in Workers : stage[w] \notin OpenStages
    BY DEF Init, OpenStages
<1>4. LockInv /\ ResetInv /\ RewardInv /\ TxInv /\ InsertInv
    BY <1>3 DEF Init, LockInv, ResetInv, RewardInv, TxInv, InsertInv, NoSweep, OpenStages
<1>. QED
    BY <1>2, <1>4 DEF Inv

\* Every step keeps it.
LEMMA InvStep == ASSUME Inv, [Next]_vars PROVE Inv'
<1>. USE LockRowStep, ShareUserStep, GrantRewardStep, CommitStep, CommitResetStep,
         ResetRowStep,
         OtherSteps
<1>. QED
    BY DEF Next, Step, ResetStep

\* And so it holds of every state.
LEMMA Invariance == Spec => []Inv
BY InitInv, InvStep, PTL DEF Spec

\* The ledger's part of the types.
LedgerTypes ==
    /\ holdings \in [Users -> [shares : Nat, firstBought : Nat \cup {Never}]]
    /\ trades \in Seq([user : Users, key : {Ask[h].key : h \in Handlers}])

\* Only trades change it, and none sells what is not there.
LEMMA LedgerTypesStep == ASSUME Inv, LedgerTypes, [Next]_vars PROVE LedgerTypes'
<1>1. ASSUME NEW h \in Handlers, PostTrade(h) PROVE LedgerTypes'
    <2> DEFINE u    == Ask[h].user
               held == holdings[u]
               type == Ask[h].type
    <2>1. /\ u \in Users
          /\ held \in [shares : Nat, firstBought : Nat \cup {Never}]
          /\ now \in Nat
        BY QuestsAssumption DEF QuestsAssumption, LedgerTypes, Inv, Types
    <2>2. MayTrade(u, type) =>
              HoldingAfter(held, type) \in [shares : Nat, firstBought : Nat \cup {Never}]
        BY <2>1 DEF MayTrade, HoldingAfter
    <2>3. holdings' \in [Users -> [shares : Nat, firstBought : Nat \cup {Never}]]
        BY <1>1, <2>1, <2>2 DEF PostTrade, LedgerTypes
    <2>4. trades' \in Seq([user : Users, key : {Ask[g].key : g \in Handlers}])
        <3> DEFINE Trade == [user : Users, key : {Ask[g].key : g \in Handlers}]
        <3>1. trades \in Seq(Trade) /\ [user |-> u, key |-> Ask[h].key] \in Trade
            BY <2>1 DEF LedgerTypes
        <3>2. trades' = trades \/ trades' = Append(trades, [user |-> u, key |-> Ask[h].key])
            BY <1>1 DEF PostTrade
        <3>. HIDE DEF Trade
        <3>3. trades' \in Seq(Trade)
            BY <3>1, <3>2
        <3>. QED
            BY <3>3 DEF Trade
    <2>. QED
        BY <2>3, <2>4 DEF LedgerTypes
<1>2. CASE UNCHANGED <<holdings, trades>>
    BY <1>2 DEF LedgerTypes
<1>3. CASE \E w \in Workers : Step(w) \/ Fail(w)
    BY <1>2, <1>3
       DEF Step, RecordTrade, ReadList, NextUser, LockRow, ShareUser, GrantReward,
       Commit, BreakDeadlock, Fail, data
<1>4. CASE Tick \/ ResetStep \/ Refresh \/ Crash \/ UNCHANGED vars
    BY <1>2, <1>4
       DEF Tick, ResetStep, CommitReset, ScanDue, ResetRow, Refresh, Crash, vars, data
<1>. QED
    BY <1>1, <1>3, <1>4 DEF Next

\* Types: no sequence of trades, jobs, resets and failures leads to a row, a
\* position or a worker the code has no place for.
THEOREM QuestsTypeCorrect == Spec => []TypeOK
<1>1. Init => LedgerTypes
    BY QuestsAssumption DEF QuestsAssumption, Init, LedgerTypes, Never
<1>2. Inv /\ LedgerTypes => TypeOK
    BY DEF Inv, Types, LedgerTypes, TypeOK, Closed
<1>. QED
    BY <1>1, <1>2, LedgerTypesStep, Invariance, PTL DEF Spec

\* What a call is about to pay has not been paid.
LEMMA NotPaidYet ==
    ASSUME Inv, NEW w \in Workers, stage[w] \in {"user", "commit"},
           NEW i \in DOMAIN rewards,
           rewards[i].user = tx[w].user, rewards[i].quest = QuestOf(w),
           rewards[i].period = tx[w].row.resetAt
    PROVE  FALSE
<1> DEFINE row == userQuests[tx[w].user][QuestOf(w)]
<1>1. \/ row.resetAt < tx[w].row.resetAt
      \/ row.resetAt = tx[w].row.resetAt /\ ~Completed(row)
    BY TxIsNewer
<1>2. \/ tx[w].row.resetAt < row.resetAt
      \/ tx[w].row.resetAt = row.resetAt /\ Completed(row)
    BY DEF Inv, RewardInv
<1>3. row.resetAt \in Int /\ tx[w].row.resetAt \in Int
    <2>1. row \in ProgressRow /\ tx[w].row \in ProgressRow
        BY TxIsNewer
    <2>. QED
        BY <2>1 DEF ProgressRow, Never
<1>. QED
    BY <1>1, <1>2, <1>3

\* However handlers, jobs and resets interleave, whatever fails and whoever is
\* asked for a lock: when a call comes to pay a reward, that reward has not been
\* paid.  The key grantReward inserts is never taken, and its transaction never
\* aborted by it (quests/service.go, one_quest_reward_per_user_per_period).
THEOREM NoRewardTwice == Spec => []NoDuplicateReward
<1>1. Inv => NoDuplicateReward
    BY NotPaidYet DEF NoDuplicateReward, Rewarded, RewardKey
<1>. QED
    BY <1>1, Invariance, PTL

-----------------------------------------------------------------------------
(* Days and periods.                                                       *)

\* The midnights at which the periods end that have begun by then.
Periods(n) == {NextMidnight(t) : t \in 0..n}

\* A multiple of a day's length, divided by it.
LEMMA DayExact ==
    ASSUME NEW k \in Nat
    PROVE  (k * DayLength) \div DayLength = k
BY DaysHaveLength

\* Days do not run backwards.
LEMMA DayMonotone ==
    ASSUME NEW a \in Nat, NEW b \in Nat, a <= b
    PROVE  a \div DayLength <= b \div DayLength
<1> DEFINE x == a \div DayLength
           y == b \div DayLength
<1>1. /\ x \in Nat /\ x * DayLength \in Nat /\ x * DayLength <= a
      /\ y \in Nat /\ y * DayLength \in Nat /\ b < y * DayLength + DayLength
    BY DayBounds
<1>2. DayLength \in Nat
    BY DaysHaveLength
<1>. HIDE DEF x, y
<1>3. y < x => y * DayLength + DayLength <= x * DayLength
    BY <1>1, DaysGrow
<1>4. ~(y < x)
    BY <1>1, <1>2, <1>3
<1>. QED
    BY <1>1, <1>4 DEF x, y

\* A period that has begun by n is the day's, or of a day that is over.
LEMMA PeriodFacts ==
    ASSUME NEW n \in Nat, NEW p \in Periods(n)
    PROVE  /\ p \in Nat /\ DayOf(p) \in Nat
           /\ p = DayOf(p) * DayLength + DayLength
           /\ DayOf(p) <= n \div DayLength
<1>1. PICK t \in 0..n : p = NextMidnight(t)
    BY DEF Periods
<1>2. t \div DayLength \in Nat /\ p \in Nat
      /\ p = (t \div DayLength) * DayLength + DayLength
    BY <1>1, DayBounds
<1>3. DayOf(p) = t \div DayLength
    <2> DEFINE k == t \div DayLength + 1
    <2>1. k \in Nat /\ p = k * DayLength
        BY <1>1, <1>2 DEF NextMidnight
    <2>. HIDE DEF k
    <2>2. p \div DayLength = k
        BY <2>1, DayExact
    <2>. QED
        BY <1>2, <2>1, <2>2 DEF DayOf, k
<1>4. t \div DayLength <= n \div DayLength
    BY DayMonotone
<1>. QED
    BY <1>2, <1>3, <1>4

\* A period that is not over is that of today.
LEMMA PeriodOfToday ==
    ASSUME NEW n \in Nat, NEW p \in Periods(n)
    PROVE  /\ p > n  => DayOf(p) = n \div DayLength /\ p = NextMidnight(n)
           /\ p <= n => DayOf(p) < n \div DayLength
<1> DEFINE d == n \div DayLength
           e == DayOf(p)
<1>1. p \in Nat /\ e \in Nat /\ p = e * DayLength + DayLength /\ e <= d
    BY PeriodFacts
<1>2. /\ d \in Nat /\ d * DayLength \in Nat /\ d * DayLength <= n
      /\ n < d * DayLength + DayLength /\ NextMidnight(n) = d * DayLength + DayLength
    BY DayBounds
<1>3. e * DayLength \in Nat /\ DayLength \in Nat
    BY <1>1, DaysHaveLength
<1>. HIDE DEF d, e
<1>4. e < d => e * DayLength + DayLength <= d * DayLength
    BY <1>1, <1>2, DaysGrow
<1>5. p > n => e = d
    BY <1>1, <1>2, <1>3, <1>4
<1>6. p <= n => e < d
    BY <1>1, <1>2, <1>3, <1>4
<1>. QED
    BY <1>1, <1>2, <1>5, <1>6 DEF d, e

\* Two periods are of one day only if they are one.
LEMMA PeriodOfDay ==
    ASSUME NEW n \in Nat, NEW p \in Periods(n), NEW s \in Periods(n), DayOf(p) = DayOf(s)
    PROVE  p = s
BY PeriodFacts

\* What happens to periods when the clock ticks.
LEMMA PeriodsTick ==
    ASSUME NEW n \in Nat, NEW p \in Periods(n)
    PROVE  /\ p \in Periods(n + 1)
           /\ (n + 1) \div DayLength = n \div DayLength => (p > n <=> p > n + 1)
           /\ (n + 1) \div DayLength # n \div DayLength =>
                  (n + 1) \div DayLength = n \div DayLength + 1 /\ p <= n + 1
<1>1. p \in Periods(n + 1)
    BY DEF Periods
<1>2. /\ p \in Nat
      /\ DayOf(p) \in Nat
      /\ n \div DayLength \in Nat
      /\ (n + 1) \div DayLength \in Nat
    BY PeriodFacts, DayBounds
<1>3. ASSUME (n + 1) \div DayLength = n \div DayLength
      PROVE  p > n <=> p > n + 1
    BY <1>1, <1>2, <1>3, PeriodOfToday
<1>4. ASSUME (n + 1) \div DayLength # n \div DayLength
      PROVE  (n + 1) \div DayLength = n \div DayLength + 1 /\ p <= n + 1
    <2>1. n \div DayLength <= (n + 1) \div DayLength
        BY DayMonotone
    <2>2. p <= n + 1
        <3>1. DayOf(p) <= n \div DayLength
            BY PeriodFacts
        <3>2. DayOf(p) < (n + 1) \div DayLength
            BY <1>2, <1>4, <2>1, <3>1
        <3>. QED
            BY <1>1, <1>2, <3>2, PeriodOfToday
    <2>3. (n + 1) \div DayLength <= n \div DayLength + 1
        <3> DEFINE d == n \div DayLength
                   e == (n + 1) \div DayLength
        <3>1. /\ d \in Nat /\ d * DayLength \in Nat /\ n < d * DayLength + DayLength
              /\ e \in Nat /\ e * DayLength \in Nat /\ e * DayLength <= n + 1
            BY DayBounds
        <3>. HIDE DEF d, e
        <3>2. (d + 1) * DayLength = d * DayLength + DayLength
            BY <3>1, DaysHaveLength
        <3>3. d + 1 < e => (d + 1) * DayLength + DayLength <= e * DayLength
            BY <3>1, DaysGrow
        <3>4. ~(d + 1 < e)
            BY <3>1, <3>2, <3>3, DaysHaveLength
        <3>. QED
            BY <3>1, <3>4 DEF d, e
    <2>. QED
        BY <1>2, <1>4, <2>1, <2>2, <2>3
<1>. QED
    BY <1>1, <1>3, <1>4

-----------------------------------------------------------------------------
(* What the book needs to know of the rows.                                *)

\* A row is of a period that has begun, and short of its target until completed.
RowOK(row, q, n) ==
    /\ row.resetAt \in Periods(n) \cup {Never}
    /\ ~Completed(row) => row.progress < TargetOf(q)

\* So is every row, and every reward is of a period that has begun.
BookInv ==
    /\ \A u \in Users, q \in Quests : RowOK(userQuests[u][q], q, now)
    /\ \A i \in DOMAIN rewards : rewards[i].period \in Periods(now)

\* A period taken at a time that has come has begun.
LEMMA NowIsAPeriod ==
    ASSUME NEW n \in Nat, NEW t \in Nat, t <= n
    PROVE  NextMidnight(t) \in Periods(n)
BY DEF Periods

\* A quest takes at least one step.
LEMMA TargetType == ASSUME NEW q PROVE TargetOf(q) \in Nat /\ TargetOf(q) > 0
BY QuestsAssumption DEF QuestsAssumption, TargetOf

\* A row made afresh.
LEMMA FreshOK ==
    ASSUME NEW n \in Nat, NEW t \in Nat, t <= n, NEW q
    PROVE  FreshRow(t) \in ProgressRow /\ RowOK(FreshRow(t), q, n)
<1>1. NextMidnight(t) \in Nat /\ NextMidnight(t) \in Periods(n)
    BY MidnightIsAhead, NowIsAPeriod
<1>. QED
    BY <1>1, TargetType DEF FreshRow, RowOK, ProgressRow

\* The row a call goes on with, and what it makes of it.
LEMMA CurrentOK ==
    ASSUME NEW n \in Nat, NEW at \in Nat,
           at <= n, NEW q, NEW row \in ProgressRow, RowOK(row, q, n)
    PROVE  /\ Current(row, at) \in ProgressRow /\ RowOK(Current(row, at), q, n)
           /\ Current(row, at).resetAt \in Periods(n)
<1>1. CASE Elapsed(row, at)
    <2>1. Current(row, at) = FreshRow(at) /\ FreshRow(at).resetAt = NextMidnight(at)
        BY <1>1 DEF Current, FreshRow
    <2>. QED
        BY <2>1, FreshOK, NowIsAPeriod
<1>2. CASE ~Elapsed(row, at)
    BY <1>2 DEF Current, Elapsed, RowOK, Never
<1>. QED
    BY <1>1, <1>2

\* One more step of progress; the last of them completes the quest.
LEMMA AdvanceOK ==
    ASSUME NEW n \in Nat, NEW at \in Nat, NEW q, NEW row \in ProgressRow, RowOK(row, q, n),
           row.resetAt \in Periods(n), ~Completed(row)
    PROVE  LET next == Advance(row, q, at)
           IN  /\ RowOK(next, q, n) /\ next.resetAt = row.resetAt
               /\ next.progress = row.progress + 1
               /\ Completed(next) <=> row.progress + 1 = TargetOf(q)
<1>1. row.progress \in Nat /\ TargetOf(q) \in Nat /\ row.progress < TargetOf(q)
    BY TargetType DEF ProgressRow, RowOK
<1>2. CASE row.progress + 1 = TargetOf(q)
    BY <1>1, <1>2 DEF Advance, RowOK, Completed, Never
<1>3. CASE row.progress + 1 # TargetOf(q)
    BY <1>1, <1>3 DEF Advance, RowOK, Completed, Never
<1>. QED
    BY <1>2, <1>3

\* Rows and rewards stay what they are when the clock goes on.
LEMMA BookTick ==
    ASSUME now \in Nat, BookInv, UNCHANGED <<userQuests, rewards>>,
           now' = now \/ now' = now + 1
    PROVE  BookInv'
<1>1. \A p \in Periods(now) : p \in Periods(now')
    BY PeriodsTick
<1>. QED
    BY <1>1 DEF BookInv, RowOK, Completed

\* A call commits what it made of the row.
LEMMA BookCommit == ASSUME Inv, BookInv, NEW w \in Workers, Commit(w) PROVE BookInv'
<1> DEFINE u == tx[w].user
           q == QuestOf(w)
           held == userQuests[u][q]
           row  == Current(held, tx[w].at)
<1>1. /\ u \in Users /\ q \in Quests /\ held \in ProgressRow /\ now \in Nat
      /\ tx[w].at \in Nat /\ tx[w].at <= now
    BY QuestOfType, TxIsNewer DEF Inv, Types, Commit
<1>2. row \in ProgressRow /\ RowOK(row, q, now) /\ row.resetAt \in Periods(now)
    BY <1>1, CurrentOK DEF BookInv
<1>3. ~Completed(row) /\ tx[w].row = Advance(row, q, tx[w].at)
    BY DEF Inv, TxInv, Commit
<1>4. RowOK(tx[w].row, q, now) /\ tx[w].row.resetAt \in Periods(now)
    BY <1>1, <1>2, <1>3, AdvanceOK
<1>5. now' = now /\ \A v \in Users, p \in Quests :
          userQuests'[v][p] = IF v = u /\ p = q THEN tx[w].row ELSE userQuests[v][p]
    BY <1>1 DEF Inv, Types, Commit
<1>6. \A v \in Users, p \in Quests : RowOK(userQuests'[v][p], p, now)
    BY <1>4, <1>5 DEF BookInv
<1>7. \A i \in DOMAIN rewards' : rewards'[i].period \in Periods(now)
    <2>1. \/ rewards' = rewards
          \/ rewards' = Append(rewards, RewardKey(u, q, tx[w].row))
        BY DEF Inv, Types, Commit, NewRewards
    <2>2. RewardKey(u, q, tx[w].row).period = tx[w].row.resetAt
        BY DEF RewardKey
    <2>3. \A i \in DOMAIN rewards' :
              \/ i \in DOMAIN rewards /\ rewards'[i] = rewards[i]
              \/ rewards'[i] = RewardKey(u, q, tx[w].row)
        BY <2>1 DEF Inv, Types
    <2>. QED
        BY <1>4, <2>2, <2>3 DEF BookInv
<1>. QED
    BY <1>5, <1>6, <1>7 DEF BookInv, RowOK, Completed

\* The bulk reset commits fresh rows.
LEMMA BookReset == ASSUME Inv, BookInv, CommitReset PROVE BookInv'
<1>1. sweep.at \in Nat /\ sweep.at <= now /\ now \in Nat
    BY DEF Inv, Types
<1>2. \A u \in Users, q \in Quests : RowOK(userQuests'[u][q], q, now)
    BY <1>1, FreshOK DEF CommitReset, BookInv
<1>. QED
    BY <1>2 DEF CommitReset, BookInv, RowOK, Completed

\* The other steps leave rows and rewards alone.
OtherStep ==
    \/ Tick \/ Refresh \/ Crash \/ UNCHANGED vars
    \/ \E h \in Handlers : PostTrade(h) \/ RecordTrade(h)
    \/ \E j \in Jobs : ReadList(j) \/ NextUser(j)
    \/ \E w \in Workers :
          LockRow(w) \/ ShareUser(w) \/ GrantReward(w) \/ Fail(w) \/ BreakDeadlock(w)
    \/ \E at \in 0..now : ScanDue(at)
    \/ \E u \in Users, q \in Quests : ResetRow(u, q)

\* They write no row and pay nothing.
LEMMA OtherStepsLeaveRows ==
    ASSUME OtherStep
    PROVE  UNCHANGED <<userQuests, rewards>> /\ (UNCHANGED now \/ (Tick /\ now' = now + 1))
<1>1. CASE Tick \/ Refresh \/ Crash \/ UNCHANGED vars
    BY <1>1 DEF Tick, Refresh, Crash, vars, data
<1>2. ASSUME NEW h \in Handlers, PostTrade(h) \/ RecordTrade(h)
      PROVE  UNCHANGED <<now, userQuests, rewards>>
    BY <1>2 DEF PostTrade, RecordTrade, data
<1>3. ASSUME NEW j \in Jobs, ReadList(j) \/ NextUser(j)
      PROVE  UNCHANGED <<now, userQuests, rewards>>
    BY <1>3 DEF ReadList, NextUser, data
<1>4. ASSUME NEW w \in Workers,
             LockRow(w) \/ ShareUser(w) \/ GrantReward(w) \/ Fail(w) \/ BreakDeadlock(w)
      PROVE  UNCHANGED <<now, userQuests, rewards>>
    BY <1>4 DEF LockRow, ShareUser, GrantReward, Fail, BreakDeadlock, data
<1>5. ASSUME NEW at \in 0..now, ScanDue(at)
      PROVE  UNCHANGED <<now, userQuests, rewards>>
    BY <1>5 DEF ScanDue, data
<1>6. ASSUME NEW u \in Users, NEW q \in Quests, ResetRow(u, q)
      PROVE  UNCHANGED <<now, userQuests, rewards>>
    BY <1>6 DEF ResetRow, data
<1>. QED
    BY <1>1, <1>2, <1>3, <1>4, <1>5, <1>6 DEF OtherStep

\* There are no other steps.
LEMMA NextCases ==
    ASSUME [Next]_vars
    PROVE  OtherStep \/ CommitReset \/ \E w \in Workers : Commit(w)
BY DEF Next, Step, ResetStep, OtherStep

\* Every step keeps the rows and rewards what they are.
LEMMA BookStep == ASSUME Inv, BookInv, [Next]_vars PROVE BookInv'
<1>1. CASE OtherStep
    BY <1>1, OtherStepsLeaveRows, BookTick DEF Inv, Types
<1>. QED
    BY <1>1, NextCases, BookCommit, BookReset

\* At first there are none.
LEMMA BookInit == Init => BookInv
BY TargetType DEF Init, BookInv, RowOK, NoRow, Completed, Never

-----------------------------------------------------------------------------
(* The refinement.                                                         *)

\* What users are shown of a row: its state while its period goes on.
Show(row, n) ==
    IF row.resetAt > n
    THEN [progress |-> row.progress, completed |-> Completed(row)]
    ELSE Book!Fresh

\* What users are shown of all rows.
ShowAll(rows, n) == [u \in Users |-> [q \in Quests |-> Show(rows[u][q], n)]]

\* What is shown of a row that a call may go on with.
LEMMA ShowUncompleted ==
    ASSUME NEW row, NEW n, row.resetAt > n, ~Completed(row)
    PROVE  Show(row, n) = [progress |-> row.progress, completed |-> FALSE]
<1>1. Completed(row) = FALSE
    BY DEF Completed
<1>. QED
    BY <1>1 DEF Show

\* View, of any row at any time.
ViewAt(row, n) ==
    IF row # NoRow /\ row.resetAt > n
    THEN [progress |-> row.progress, completed |-> Completed(row), resetAt |-> row.resetAt]
    ELSE [progress |-> 0, completed |-> FALSE, resetAt |-> NextMidnight(n)]

\* Standing, of any rows at any time.
StandingAt(rows, n) ==
    [u \in Users |-> [q \in Quests |->
        [progress  |-> ViewAt(rows[u][q], n).progress,
         completed |-> ViewAt(rows[u][q], n).completed]]]

\* What ListUserQuests shows is that.
LEMMA ViewIsShow ==
    ASSUME NEW n \in Nat, NEW row \in ProgressRow
    PROVE  [progress |-> ViewAt(row, n).progress, completed |-> ViewAt(row, n).completed]
               = Show(row, n)
<1>1. row.resetAt > n => row # NoRow
    BY DEF NoRow, Never
<1>2. CASE row.resetAt > n
    <2>1. ViewAt(row, n) = [progress |-> row.progress, completed |-> Completed(row), resetAt |-> row.resetAt]
        BY <1>1, <1>2 DEF ViewAt
    <2>. QED
        BY <1>2, <2>1 DEF Show
<1>3. CASE ~(row.resetAt > n)
    <2>1. ViewAt(row, n) = [progress |-> 0, completed |-> FALSE, resetAt |-> NextMidnight(n)]
        BY <1>3 DEF ViewAt
    <2>. QED
        BY <1>3, <2>1 DEF Show, Book!Fresh
<1>. QED
    BY <1>2, <1>3

\* So is what module QuestBook calls the standing.
LEMMA StandingIsShown ==
    ASSUME NEW n \in Nat, NEW rows \in [Users -> [Quests -> ProgressRow]]
    PROVE  StandingAt(rows, n) = ShowAll(rows, n)
<1>1. ASSUME NEW u \in Users, NEW q \in Quests
      PROVE  [progress  |-> ViewAt(rows[u][q], n).progress,
              completed |-> ViewAt(rows[u][q], n).completed] = Show(rows[u][q], n)
    BY ViewIsShow
<1>. QED
    BY <1>1, Zenon DEF StandingAt, ShowAll

\* Before and after a step.
LEMMA StandingShown ==
    ASSUME now \in Nat, now' \in Nat,
           userQuests \in [Users -> [Quests -> ProgressRow]],
           userQuests' \in [Users -> [Quests -> ProgressRow]]
    PROVE  Standing = ShowAll(userQuests, now) /\ Standing' = ShowAll(userQuests', now')
<1>1. Standing = StandingAt(userQuests, now) /\ Standing' = StandingAt(userQuests', now')
    BY Zenon DEF Standing, StandingAt, View, ViewAt
<1>. QED
    BY <1>1, StandingIsShown

\* Steps that change nothing the book shows.
LEMMA Stutter ==
    ASSUME Inv, Inv', UNCHANGED rewards, now' \div DayLength = now \div DayLength,
           \A u \in Users, q \in Quests :
              Show(userQuests'[u][q], now') = Show(userQuests[u][q], now)
    PROVE  UNCHANGED Book!vars
<1>1. Standing = ShowAll(userQuests, now) /\ Standing' = ShowAll(userQuests', now')
    BY StandingShown DEF Inv, Types
<1>2. Standing' = Standing
    BY <1>1 DEF ShowAll
<1>3. Paid' = Paid
    BY DEF Paid
<1>. QED
    BY <1>2, <1>3 DEF Book!vars

\* Midnight is a new day of the book; other ticks of the clock are not seen.
LEMMA TickImplements ==
    ASSUME Inv, BookInv, Inv', Tick
    PROVE  Book!NewDay \/ UNCHANGED Book!vars
<1>1. /\ now \in Nat /\ now' = now + 1 /\ UNCHANGED <<userQuests, rewards>>
      /\ userQuests \in [Users -> [Quests -> ProgressRow]]
    BY DEF Tick, data, Inv, Types
<1>2. ASSUME NEW u \in Users, NEW q \in Quests
      PROVE  userQuests[u][q].resetAt \in Periods(now) \cup {-1}
    BY DEF BookInv, RowOK, Never
<1>3. CASE (now + 1) \div DayLength = now \div DayLength
    <2>1. ASSUME NEW u \in Users, NEW q \in Quests
          PROVE  Show(userQuests'[u][q], now') = Show(userQuests[u][q], now)
        <3>1. userQuests[u][q].resetAt > now <=> userQuests[u][q].resetAt > now + 1
            BY <1>1, <1>2, <1>3, PeriodsTick
        <3>. QED
            BY <1>1, <3>1 DEF Show
    <2>. QED
        BY <1>1, <1>3, <2>1, Stutter
<1>4. CASE (now + 1) \div DayLength # now \div DayLength
    <2>1. now' \div DayLength = now \div DayLength + 1
        <3>1. NextMidnight(now) \in Periods(now)
            BY <1>1, NowIsAPeriod
        <3>. QED
            BY <1>1, <1>4, <3>1, PeriodsTick
    <2>2. ASSUME NEW u \in Users, NEW q \in Quests
          PROVE  Show(userQuests'[u][q], now') = Book!Fresh
        <3>1. ~(userQuests[u][q].resetAt > now + 1)
            <4>1. CASE userQuests[u][q].resetAt \in Periods(now)
                <5>1. /\ userQuests[u][q].resetAt \in Nat
                      /\ userQuests[u][q].resetAt <= now + 1
                    BY <1>1, <1>4, <4>1, PeriodsTick, PeriodFacts
                <5>. QED
                    BY <1>1, <5>1
            <4>2. CASE userQuests[u][q].resetAt = -1
                BY <1>1, <4>2
            <4>. QED
                BY <1>2, <4>1, <4>2
        <3>. QED
            BY <1>1, <3>1 DEF Show
    <2>3. Standing' = ShowAll(userQuests', now')
        BY StandingShown DEF Inv, Types
    <2>4. Standing' = [u \in Users |-> [q \in Quests |-> Book!Fresh]]
        BY <2>2, <2>3 DEF ShowAll
    <2>5. Paid' = Paid /\ Len(rewards)' = Len(rewards)
        BY <1>1 DEF Paid
    <2>. QED
        BY <2>1, <2>4, <2>5 DEF Book!NewDay
<1>. QED
    BY <1>3, <1>4

\* What the bulk reset takes back is not shown any more.
LEMMA ResetImplements ==
    ASSUME Inv, BookInv, Inv', CommitReset
    PROVE  UNCHANGED Book!vars
<1>1. ASSUME NEW u \in Users, NEW q \in Quests
      PROVE  Show(userQuests'[u][q], now') = Show(userQuests[u][q], now)
    <2>1. CASE <<u, q>> \in sweep.locked
        <3>1. /\ sweep.at \in Nat /\ sweep.at <= now /\ now \in Nat
              /\ userQuests[u][q].resetAt <= sweep.at /\ userQuests[u][q] \in ProgressRow
            BY <2>1 DEF Inv, Types, ResetInv, Elapsed
        <3>2. userQuests'[u][q] = FreshRow(sweep.at) /\ now' = now
            BY <2>1 DEF CommitReset
        <3>3. userQuests[u][q].resetAt \in Int
            BY <3>1 DEF ProgressRow, Never
        <3>4. Show(userQuests[u][q], now) = Book!Fresh
            BY <3>1, <3>3 DEF Show
        <3>5. Show(FreshRow(sweep.at), now) = Book!Fresh
            BY DEF Show, FreshRow, Completed, Book!Fresh
        <3>. QED
            BY <3>2, <3>4, <3>5
    <2>2. CASE <<u, q>> \notin sweep.locked
        BY <2>2 DEF CommitReset
    <2>. QED
        BY <2>1, <2>2
<1>2. UNCHANGED <<now, rewards>>
    BY DEF CommitReset
<1>. QED
    BY <1>1, <1>2, Stutter

\* A payment of the book.
Payment(u, q, d) == [user |-> u, quest |-> q, day |-> d]

\* A step of the book, told from the row before and after.
LEMMA BookAdvances ==
    ASSUME NEW u \in Users, NEW q \in Quests, NEW row \in ProgressRow, NEW next,
           next.progress = row.progress + 1,
           Completed(next) <=> row.progress + 1 = TargetOf(q),
           Standing[u][q] = [progress |-> row.progress, completed |-> FALSE],
           Standing' = [Standing EXCEPT ![u][q] =
                           [progress |-> next.progress, completed |-> Completed(next)]],
           UNCHANGED now,
           ~Completed(next) => Paid' = Paid /\ Len(rewards') = Len(rewards),
           Completed(next) =>
              /\ Payment(u, q, now \div DayLength) \notin Paid
              /\ Paid' = Paid \cup {Payment(u, q, now \div DayLength)}
              /\ Len(rewards') = Len(rewards) + 1
    PROVE  Book!Advance(u, q)
<1>1. Standing[u][q].progress = row.progress /\ ~Standing[u][q].completed
    OBVIOUS
<1>2. Completed(next) = (row.progress + 1 = TargetOf(q))
    BY Zenon DEF Completed
<1>3. Standing' = [Standing EXCEPT ![u][q] =
                      [progress |-> row.progress + 1, completed |-> row.progress + 1 = TargetOf(q)]]
    BY <1>2, Zenon
<1>4. CASE Completed(next)
    BY <1>1, <1>3, <1>4 DEF Book!Advance, Book!Pay, Payment
<1>5. CASE ~Completed(next)
    BY <1>1, <1>3, <1>5 DEF Book!Advance
<1>. QED
    BY <1>4, <1>5

\* What a call commits is a step of today's quest, or pays for a day that is over,
\* or comes too late to be seen.
LEMMA CommitImplements ==
    ASSUME Inv, BookInv, Inv', NEW w \in Workers, Commit(w)
    PROVE  Book!Next \/ UNCHANGED Book!vars
<1> DEFINE u    == tx[w].user
           q    == QuestOf(w)
           held == userQuests[u][q]
           row  == Current(held, tx[w].at)
           next == tx[w].row
           day  == now \div DayLength
           pay  == [user |-> u, quest |-> q, day |-> DayOf(next.resetAt)]
<1>1. /\ u \in Users /\ q \in Quests /\ held \in ProgressRow /\ now \in Nat
      /\ tx[w].at \in Nat /\ tx[w].at <= now /\ RowOK(held, q, now)
      /\ held.resetAt < next.resetAt \/ held.resetAt = next.resetAt
    BY QuestOfType, TxIsNewer DEF Inv, Types, BookInv, Commit
<1>2. row \in ProgressRow /\ RowOK(row, q, now) /\ row.resetAt \in Periods(now)
    BY <1>1, CurrentOK
<1>3. ~Completed(row) /\ next = Advance(row, q, tx[w].at)
    BY DEF Inv, TxInv, Commit
<1>4. /\ next.resetAt = row.resetAt /\ next.progress = row.progress + 1
      /\ Completed(next) <=> row.progress + 1 = TargetOf(q)
    BY <1>1, <1>2, <1>3, AdvanceOK
<1>5. next.resetAt \in Periods(now) /\ next.resetAt \in Nat /\ DayOf(next.resetAt) \in Nat
    BY <1>1, <1>2, <1>4, PeriodFacts
<1>6. now' = now /\ userQuests' = [userQuests EXCEPT ![u][q] = next]
    BY DEF Commit
<1>7. /\ Standing = ShowAll(userQuests, now) /\ Standing' = ShowAll(userQuests', now)
    BY <1>6, StandingShown DEF Inv, Types
<1>8. Standing' = [Standing EXCEPT ![u][q] = Show(next, now)]
    BY <1>1, <1>6, <1>7 DEF ShowAll, Inv, Types
<1>9. ASSUME ~Completed(next) PROVE Paid' = Paid /\ Len(rewards') = Len(rewards)
    <2>1. rewards' = rewards
        BY <1>9 DEF Commit, NewRewards, Inv, Types
    <2>. QED
        BY <2>1 DEF Paid
<1>10. ASSUME Completed(next)
       PROVE  pay \notin Paid /\ Paid' = Paid \cup {pay} /\ Len(rewards') = Len(rewards) + 1
    <2>1. rewards' = Append(rewards, RewardKey(u, q, next))
        BY <1>10 DEF Commit, NewRewards, Inv, Types
    <2>2. /\ Len(rewards') = Len(rewards) + 1 /\ Len(rewards) \in Nat
          /\ \A i \in DOMAIN rewards : i \in DOMAIN rewards' /\ rewards'[i] = rewards[i]
          /\ Len(rewards') \in DOMAIN rewards' /\ rewards'[Len(rewards')] = RewardKey(u, q, next)
          /\ \A i \in DOMAIN rewards' : i \in DOMAIN rewards \/ i = Len(rewards')
        BY <2>1 DEF Inv, Types
    <2>3. Paid' = Paid \cup {pay}
        BY <2>2 DEF Paid, RewardKey
    <2>4. ASSUME NEW i \in DOMAIN rewards, rewards[i].user = u, rewards[i].quest = q,
                 DayOf(rewards[i].period) = DayOf(next.resetAt)
          PROVE  FALSE
        <3>1. rewards[i].period \in Periods(now)
            BY DEF BookInv
        <3>2. rewards[i].period = next.resetAt
            BY <1>1, <1>5, <2>4, <3>1, PeriodOfDay
        <3>. QED
            BY <2>4, <3>2, NotPaidYet DEF Commit
    <2>5. pay \notin Paid
        BY <2>4 DEF Paid
    <2>. QED
        BY <2>2, <2>3, <2>5
<1>11. UNCHANGED now /\ pay = Payment(u, q, DayOf(next.resetAt))
    BY <1>6 DEF Payment
<1>12. CASE next.resetAt > now
    <2>1. Show(next, now) = [progress |-> next.progress, completed |-> Completed(next)]
        BY <1>12 DEF Show
    <2>2. Standing[u][q] = [progress |-> row.progress, completed |-> FALSE]
        <3>1. Standing[u][q] = Show(held, now)
            BY <1>1, <1>7 DEF ShowAll
        <3>2. CASE held.resetAt > now
            <4>1. row = held
                BY <1>1, <3>2 DEF Current, Elapsed, ProgressRow, Never
            <4>. QED
                BY <1>3, <3>1, <3>2, <4>1, ShowUncompleted
        <3>3. CASE ~(held.resetAt > now)
            <4>1. row # held
                BY <1>4, <1>12, <3>3
            <4>2. row = FreshRow(tx[w].at)
                BY <4>1 DEF Current
            <4>. QED
                BY <3>1, <3>3, <4>2 DEF Show, FreshRow, Book!Fresh
        <3>. QED
            BY <3>2, <3>3
    <2>3. DayOf(next.resetAt) = day
        BY <1>1, <1>5, <1>12, PeriodOfToday
    <2>4. Book!Advance(u, q)
        BY <1>1, <1>2, <1>4, <1>8, <1>9, <1>10, <1>11, <2>1, <2>2, <2>3, BookAdvances
    <2>. QED
        BY <1>1, <2>4 DEF Book!Next
<1>13. CASE ~(next.resetAt > now)
    <2>1. Show(next, now) = Book!Fresh /\ Show(held, now) = Book!Fresh
        <3>1. ~(held.resetAt > now)
            <4>1. held.resetAt \in Int
                BY <1>1 DEF ProgressRow, Never
            <4>. QED
                BY <1>1, <1>5, <1>13, <4>1
        <3>. QED
            BY <1>13, <3>1 DEF Show
    <2>2. Standing' = Standing
        BY <1>1, <1>7, <1>8, <2>1 DEF ShowAll
    <2>3. DayOf(next.resetAt) \in 0..day /\ DayOf(next.resetAt) < day
        BY <1>1, <1>5, <1>13, PeriodOfToday, DayBounds
    <2>4. CASE Completed(next)
        <3>1. Book!PayLate(u, q, DayOf(next.resetAt))
            BY <1>10, <1>11, <2>2, <2>3, <2>4 DEF Book!PayLate, Book!Pay, Payment
        <3>. QED
            BY <1>1, <2>3, <3>1 DEF Book!Next
    <2>5. CASE ~Completed(next)
        BY <1>9, <1>11, <2>2, <2>5 DEF Book!vars
    <2>. QED
        BY <2>4, <2>5
<1>. QED
    BY <1>12, <1>13

\* Module Quests implements the book: what users are shown and paid for, whatever
\* the number of users and requests, the length of a day, the target of a quest
\* and the time that has passed since any row was touched, starts afresh at
\* midnight, advances step by step, and is paid once for each day it is completed
\* on; statements that fail, deadlocks, crashes and the bulk reset do not show.
THEOREM ImplementsTheBook == Spec => ImplementsQuestBook
<1>1. Init => Book!Init
    <2>. SUFFICES ASSUME Init PROVE Book!Init
        OBVIOUS
    <2>1. now = 0 /\ 0 \div DayLength = 0
        BY DaysHaveLength DEF Init
    <2>2. Standing = [u \in Users |-> [q \in Quests |-> Book!Fresh]]
        BY Zenon DEF Init, Standing, View, Book!Fresh
    <2>3. Paid = {} /\ Len(rewards) = 0
        BY DEF Init, Paid
    <2>. QED
        BY <2>1, <2>2, <2>3 DEF Book!Init
<1>2. ASSUME Inv, BookInv, Inv', [Next]_vars PROVE [Book!Next]_(Book!vars)
    <2>1. CASE OtherStep
        <3>1. CASE Tick
            BY <1>2, <3>1, TickImplements DEF Book!Next
        <3>2. CASE UNCHANGED <<now, userQuests, rewards>>
            <4>1. Standing' = Standing /\ Paid' = Paid
                BY <3>2 DEF Standing, View, Paid
            <4>. QED
                BY <3>2, <4>1 DEF Book!vars
        <3>. QED
            BY <2>1, <3>1, <3>2, OtherStepsLeaveRows
    <2>2. CASE CommitReset
        BY <1>2, <2>2, ResetImplements
    <2>3. ASSUME NEW w \in Workers, Commit(w) PROVE [Book!Next]_(Book!vars)
        BY <1>2, <2>3, CommitImplements
    <2>. QED
        BY <1>2, <2>1, <2>2, <2>3, NextCases
<1>3. Spec => []BookInv
    BY Invariance, BookInit, BookStep, PTL DEF Spec
<1>. QED
    BY <1>1, <1>2, <1>3, Invariance, PTL DEF Spec, ImplementsQuestBook, Book!Spec

-----------------------------------------------------------------------------
(* The counts: the inductive invariant.                                    *)

\* The row of the quest that counts trades.
TradesRow(u) == userQuests[u]["MAKE_TRADES"]

\* Handlers that have not counted their trade yet.
Before == {"post", "begin", "row"} \cup OpenStages

\* A handler counts its trade, for the user who asked for it, when it is done.
HandlerInv ==
    /\ countedFor \in [Handlers -> Nat \cup {Never}]
    /\ \A h \in Handlers :
          /\ stage[h] \in Before => countedFor[h] = Never
          /\ stage[h] \in {"row"} \cup OpenStages => tx[h].user = Ask[h].user

\* No trade is counted in a period later than the row's.
LastInv == \A h \in Handlers : countedFor[h] <= TradesRow(Ask[h].user).resetAt

\* The handlers whose trade was counted for the user in a period.
CountedIn(u, p) == {h \in Handlers : Ask[h].user = u /\ countedFor[h] = p}

\* The smaller of the two.
AtMost(n, m) == IF n < m THEN n ELSE m

\* The progress of a row is the number of trades counted in its period.
CountInv ==
    \A u \in Users :
        TradesRow(u).resetAt # Never =>
            TradesRow(u).progress =
                AtMost(Cardinality(CountedIn(u, TradesRow(u).resetAt)), TradesTarget)

\* A row without a period is none.
RowInv == \A u \in Users : TradesRow(u).resetAt = Never => TradesRow(u) = NoRow

\* All of it.
TradeInv == HandlerInv /\ LastInv /\ CountInv /\ RowInv

-----------------------------------------------------------------------------
(* Every step keeps it.                                                    *)

\* Counting trades is a quest.
LEMMA TradesIsQuest == "MAKE_TRADES" \in Quests
BY DEF Quests

\* Handlers, and only they, work on it.
LEMMA HandlerQuest ==
    /\ \A h \in Handlers : QuestOf(h) = "MAKE_TRADES" /\ h \in Workers
    /\ \A w \in Workers : QuestOf(w) = "MAKE_TRADES" => w \in Handlers
BY QuestsAssumption DEF QuestsAssumption, QuestOf, Workers, Jobs

\* Who returns is through.
LEMMA ReturnHandler ==
    ASSUME Types, HandlerInv, NEW w \in Workers, Return(w),
           \A h \in Handlers \ {w} : countedFor'[h] = countedFor[h],
           countedFor' \in [Handlers -> Nat \cup {Never}]
    PROVE  HandlerInv'
<1>1. /\ \A v \in Workers \ {w} : stage'[v] = stage[v] /\ tx'[v] = tx[v]
      /\ w \in Handlers => stage'[w] = "done"
    BY DEF Types, Return, Goto
<1>. QED
    BY <1>1, HandlerQuest DEF HandlerInv, Before, OpenStages

\* Every step keeps what is known of handlers.
LEMMA HandlerStep == ASSUME Inv, HandlerInv, [Next]_vars PROVE HandlerInv'
<1>. USE HandlerQuest DEF Inv
<1>1. ASSUME NEW h \in Handlers, PostTrade(h) PROVE HandlerInv'
    BY <1>1 DEF PostTrade, Goto, Types, HandlerInv, Before, OpenStages
<1>2. ASSUME NEW h \in Handlers, RecordTrade(h) PROVE HandlerInv'
    BY <1>2 DEF RecordTrade, Begin, Goto, NoTx, Types, HandlerInv, Before, OpenStages, data
<1>3. ASSUME NEW j \in Jobs, ReadList(j) \/ NextUser(j) PROVE HandlerInv'
    <2>1. \A h \in Handlers : stage'[h] = stage[h] /\ tx'[h] = tx[h]
        BY <1>3, QuestsAssumption
           DEF QuestsAssumption, ReadList, NextUser, Begin, Goto, Types, Workers
    <2>2. countedFor' = countedFor
        BY <1>3 DEF ReadList, NextUser, data
    <2>. QED
        BY <2>1, <2>2 DEF HandlerInv
<1>4. ASSUME NEW w \in Workers,
             LockRow(w) \/ ShareUser(w) \/ GrantReward(w) \/ Fail(w) \/ BreakDeadlock(w)
      PROVE  HandlerInv'
    <2>1. countedFor' = countedFor
        BY <1>4 DEF LockRow, ShareUser, GrantReward, Fail, BreakDeadlock, data
    <2>2. CASE Return(w)
        BY <2>1, <2>2, ReturnHandler DEF HandlerInv
    <2>3. CASE ~Return(w)
        <3>1. stage[w] \in {"row"} \cup OpenStages
            BY <1>4, <2>3
               DEF LockRow, ShareUser, GrantReward, Fail, BreakDeadlock, OpenStages
        <3>2. PICK s : stage' = [stage EXCEPT ![w] = s]
            BY <1>4, <2>3
               DEF LockRow, ShareUser, GrantReward, Fail, BreakDeadlock, Apply, Goto
        <3>3. \/ tx' = tx
              \/ \E row, created :
                    tx' = [tx EXCEPT ![w].row = row, ![w].created = created]
            <4>1. CASE LockRow(w) \/ ShareUser(w) \/ GrantReward(w)
                BY <2>3, <4>1 DEF LockRow, ShareUser, GrantReward, Apply
            <4>. QED
                BY <1>4, <2>3, <4>1 DEF Fail, BreakDeadlock
        <3>4. /\ tx'[w].user = tx[w].user
              /\ \A v \in Workers \ {w} : tx'[v] = tx[v]
            <4>1. tx[w] \in TxRecord /\ tx \in [Workers -> TxRecord]
                BY DEF Types
            <4>2. ASSUME NEW row, NEW created,
                         tx' = [tx EXCEPT ![w].row = row, ![w].created = created]
                  PROVE  /\ tx'[w].user = tx[w].user
                         /\ \A v \in Workers \ {w} : tx'[v] = tx[v]
                BY <4>1, <4>2 DEF TxRecord
            <4>. QED
                BY <3>3, <4>2
        <3>. QED
            BY <2>1, <3>1, <3>2, <3>4 DEF Types, HandlerInv, Before
    <2>. QED
        BY <2>2, <2>3
<1>5. ASSUME NEW w \in Workers, Commit(w) PROVE HandlerInv'
    <2>1. tx[w].row.resetAt \in Nat
        BY <1>5, TxIsNewer DEF Commit
    <2>2. /\ countedFor' \in [Handlers -> Nat \cup {Never}]
          /\ \A h \in Handlers \ {w} : countedFor'[h] = countedFor[h]
        BY <1>5, <2>1 DEF Commit, HandlerInv
    <2>. QED
        BY <1>5, <2>2, ReturnHandler DEF Commit
<1>6. CASE Crash
    BY <1>6 DEF Crash, HandlerInv, Before, OpenStages, data
<1>7. CASE Tick \/ Refresh \/ ResetStep \/ UNCHANGED vars
    BY <1>7
       DEF Tick, Refresh, ResetStep, CommitReset, ScanDue, ResetRow, HandlerInv, vars, data
<1>. QED
    BY <1>1, <1>2, <1>3, <1>4, <1>5, <1>6, <1>7 DEF Next, Step

\* Rows and counts that stay as they are.
LEMMA SameCount ==
    ASSUME LastInv, CountInv, RowInv, UNCHANGED <<userQuests, countedFor>>
    PROVE  LastInv' /\ CountInv' /\ RowInv'
<1>1. \A u \in Users : TradesRow(u)' = TradesRow(u)
    BY DEF TradesRow
<1>2. LastInv'
    BY QuestsAssumption, <1>1 DEF QuestsAssumption, LastInv
<1>3. CountInv'
    <2>1. \A u, p : CountedIn(u, p)' = CountedIn(u, p)
        BY DEF CountedIn
    <2>. QED
        BY <1>1, <2>1 DEF CountInv
<1>4. RowInv'
    BY <1>1 DEF RowInv
<1>. QED
    BY <1>2, <1>3, <1>4

\* Sets of handlers are finite.
LEMMA CountedFinite ==
    \A u, p : IsFiniteSet(CountedIn(u, p)) /\ CountedIn(u, p) \subseteq Handlers
<1>. TAKE u, p
<1>1. CountedIn(u, p) \in SUBSET Handlers
    BY DEF CountedIn
<1>. QED
    BY <1>1, FS_Subset, QuestsAssumption DEF QuestsAssumption

\* The type of the rows that count trades.
LEMMA TradesRowType ==
    ASSUME Types, NEW u \in Users
    PROVE  TradesRow(u) \in ProgressRow /\ TradesRow(u).resetAt \in Int
BY TradesIsQuest DEF Types, TradesRow, ProgressRow, Never

\* A row that moves on to a later period has no trades counted in it.
LEMMA NothingCountedAhead ==
    ASSUME Types, HandlerInv, LastInv, NEW u \in Users,
           NEW p \in Int, TradesRow(u).resetAt < p
    PROVE  CountedIn(u, p) = {}
<1>1. \A h \in Handlers : Ask[h].user = u => countedFor[h] # p
    BY TradesRowType DEF HandlerInv, LastInv, Never
<1>. QED
    BY <1>1 DEF CountedIn

\* Counting one more.
LEMMA AtMostGrows ==
    ASSUME NEW row \in ProgressRow, NEW n \in Nat, NEW at,
           row.progress = AtMost(n, TradesTarget)
    PROVE  Advance(row, "MAKE_TRADES", at).progress = AtMost(n + 1, TradesTarget)
BY QuestsAssumption DEF QuestsAssumption, AtMost, Advance, TargetOf

\* What a handler commits counts its trade in the period of the row it writes, and
\* every trade counted in that period before.
LEMMA CommitCounts ==
    ASSUME Inv, TradeInv, NEW w \in Handlers, stage[w] = "commit",
           NEW u, u = tx[w].user
    PROVE  /\ u \in Users /\ Ask[w].user = u /\ countedFor[w] = Never
           /\ tx[w].row.resetAt \in Nat /\ TradesRow(u).resetAt <= tx[w].row.resetAt
           /\ w \notin CountedIn(u, tx[w].row.resetAt)
           /\ tx[w].row.progress =
                  AtMost(Cardinality(CountedIn(u, tx[w].row.resetAt)) + 1, TradesTarget)
<1> DEFINE held    == TradesRow(u)
           current == Current(held, tx[w].at)
           counted == CountedIn(u, tx[w].row.resetAt)
<1>1. u \in Users /\ Ask[w].user = u /\ countedFor[w] = Never /\ QuestOf(w) = "MAKE_TRADES"
    BY HandlerQuest, QuestsAssumption
       DEF QuestsAssumption, TradeInv, HandlerInv, Before, OpenStages
<1>2. w \in Workers /\ tx[w].at \in Nat /\ held \in ProgressRow /\ held.resetAt \in Int
    BY <1>1, HandlerQuest, TradesRowType DEF Inv, Types, TxRecord
<1>3. /\ current \in ProgressRow /\ current.resetAt \in Nat
      /\ held.resetAt < current.resetAt \/ current = held
    BY <1>2, CurrentIsNewer
<1>4. tx[w].row = Advance(current, "MAKE_TRADES", tx[w].at)
    BY <1>1, <1>2 DEF Inv, TxInv, TradesRow
<1>5. tx[w].row.resetAt = current.resetAt
    BY <1>2, <1>3, <1>4, AdvanceStays
<1>6. held.resetAt <= tx[w].row.resetAt /\ tx[w].row.resetAt \in Nat
    BY <1>2, <1>3, <1>5
<1>7. w \notin counted
    BY <1>1, <1>6 DEF CountedIn, Never
<1>8. /\ Cardinality(counted) \in Nat
      /\ current.progress = AtMost(Cardinality(counted), TradesTarget)
    <2>1. Cardinality(counted) \in Nat
        BY CountedFinite, FS_CardinalityType
    <2>2. CASE Elapsed(held, tx[w].at)
        <3>1. current.progress = 0 /\ held.resetAt < current.resetAt
            BY <1>2, <2>2, MidnightIsAhead DEF Current, FreshRow, Elapsed
        <3>2. counted = {}
            BY <1>1, <1>3, <1>5, <3>1, NothingCountedAhead DEF Inv, TradeInv
        <3>. QED
            BY <2>1, <3>1, <3>2, FS_EmptySet, QuestsAssumption DEF QuestsAssumption, AtMost
    <2>3. CASE ~Elapsed(held, tx[w].at)
        <3>1. current = held /\ held.resetAt # Never
            BY <1>3, <2>3 DEF Current, Never
        <3>. QED
            BY <1>1, <1>5, <2>1, <3>1 DEF TradeInv, CountInv
    <2>. QED
        BY <2>2, <2>3
<1>. QED
    BY <1>1, <1>3, <1>4, <1>6, <1>7, <1>8, AtMostGrows

\* The commit of a job leaves the rows that count trades alone.
LEMMA JobCommits ==
    ASSUME Inv, TradeInv, NEW w \in Workers \ Handlers, Commit(w)
    PROVE  LastInv' /\ CountInv' /\ RowInv'
<1>1. QuestOf(w) # "MAKE_TRADES"
    BY HandlerQuest
<1>2. countedFor' = countedFor
    BY DEF Commit
<1>3. \A u \in Users : TradesRow(u)' = TradesRow(u)
    BY <1>1, TradesIsQuest DEF Commit, TradesRow, Inv, Types
<1>4. LastInv'
    BY QuestsAssumption, <1>2, <1>3 DEF QuestsAssumption, TradeInv, LastInv
<1>5. CountInv'
    <2>1. \A u, p : CountedIn(u, p)' = CountedIn(u, p)
        BY <1>2 DEF CountedIn
    <2>. QED
        BY <1>3, <2>1 DEF TradeInv, CountInv
<1>6. RowInv'
    BY <1>3 DEF TradeInv, RowInv
<1>. QED
    BY <1>4, <1>5, <1>6

\* The commit of a handler counts its trade.
LEMMA HandlerCommits ==
    ASSUME Inv, TradeInv, NEW w \in Handlers, Commit(w),
           NEW u, u = tx[w].user, NEW p, p = tx[w].row.resetAt
    PROVE  LastInv' /\ CountInv' /\ RowInv'
<1>1. /\ u \in Users /\ Ask[w].user = u /\ countedFor[w] = Never
      /\ p \in Nat /\ TradesRow(u).resetAt <= p /\ w \notin CountedIn(u, p)
      /\ tx[w].row.progress = AtMost(Cardinality(CountedIn(u, p)) + 1, TradesTarget)
    BY CommitCounts DEF Commit
<1>2. QuestOf(w) = "MAKE_TRADES"
    BY HandlerQuest
<1>3. /\ TradesRow(u)' = tx[w].row
      /\ \A v \in Users \ {u} : TradesRow(v)' = TradesRow(v)
    BY <1>1, <1>2, TradesIsQuest DEF Commit, TradesRow, Inv, Types
<1>4. /\ countedFor'[w] = p
      /\ \A h \in Handlers \ {w} : countedFor'[h] = countedFor[h]
    BY DEF Commit, TradeInv, HandlerInv
<1>5. LastInv'
    <2>. SUFFICES ASSUME NEW h \in Handlers
                  PROVE  countedFor'[h] <= TradesRow(Ask[h].user)'.resetAt
        BY DEF LastInv
    <2>1. /\ Ask[h].user \in Users
          /\ countedFor[h] \in Int
          /\ countedFor[h] <= TradesRow(Ask[h].user).resetAt
        BY QuestsAssumption DEF QuestsAssumption, TradeInv, HandlerInv, LastInv, Never
    <2>2. TradesRow(u).resetAt \in Int
        BY <1>1, TradesRowType DEF Inv
    <2>. QED
        BY <1>1, <1>3, <1>4, <2>1, <2>2
<1>6. CountInv'
    <2>. SUFFICES ASSUME NEW v \in Users, TradesRow(v)'.resetAt # Never
                  PROVE  TradesRow(v)'.progress =
                            AtMost(Cardinality(CountedIn(v, TradesRow(v).resetAt)'), TradesTarget)
        BY DEF CountInv
    <2>1. CASE v = u
        <3>1. CountedIn(u, p)' = CountedIn(u, p) \cup {w}
            BY <1>1, <1>4 DEF CountedIn
        <3>2. Cardinality(CountedIn(u, p) \cup {w}) = Cardinality(CountedIn(u, p)) + 1
            BY <1>1, CountedFinite, FS_AddElement
        <3>. QED
            BY <1>1, <1>3, <2>1, <3>1, <3>2
    <2>2. CASE v # u
        <3>1. \A r : CountedIn(v, r)' = CountedIn(v, r)
            BY <1>1, <1>4, <2>2 DEF CountedIn
        <3>. QED
            BY <1>3, <2>2, <3>1 DEF TradeInv, CountInv
    <2>. QED
        BY <2>1, <2>2
<1>7. RowInv'
    BY <1>1, <1>3 DEF TradeInv, RowInv, Never
<1>. QED
    BY <1>5, <1>6, <1>7

\* The bulk reset opens a period nothing has been counted in.
LEMMA ResetCounts ==
    ASSUME Inv, TradeInv, CommitReset
    PROVE  LastInv' /\ CountInv' /\ RowInv'
<1>1. countedFor' = countedFor
    BY DEF CommitReset
<1>2. ASSUME NEW u \in Users
      PROVE  \/ TradesRow(u)' = TradesRow(u)
             \/ /\ TradesRow(u).resetAt < TradesRow(u)'.resetAt
                /\ TradesRow(u)'.resetAt \in Nat /\ TradesRow(u)'.progress = 0
    <2>1. CASE <<u, "MAKE_TRADES">> \in sweep.locked
        <3>1. TradesRow(u)' = FreshRow(sweep.at)
            BY <2>1, TradesIsQuest DEF CommitReset, TradesRow
        <3>2. sweep.at \in Nat /\ TradesRow(u).resetAt <= sweep.at
            BY <2>1, TradesIsQuest DEF Inv, Types, ResetInv, Elapsed, TradesRow
        <3>3. TradesRow(u).resetAt \in Int
            BY TradesRowType DEF Inv
        <3>4. /\ FreshRow(sweep.at).progress = 0
              /\ FreshRow(sweep.at).resetAt = NextMidnight(sweep.at)
            BY DEF FreshRow
        <3>. QED
            BY <3>1, <3>2, <3>3, <3>4, MidnightIsAhead
    <2>2. CASE <<u, "MAKE_TRADES">> \notin sweep.locked
        BY <2>2, TradesIsQuest DEF CommitReset, TradesRow
    <2>. QED
        BY <2>1, <2>2
<1>3. LastInv'
    <2>. SUFFICES ASSUME NEW h \in Handlers
                  PROVE  countedFor[h] <= TradesRow(Ask[h].user)'.resetAt
        BY <1>1 DEF LastInv
    <2>1. /\ Ask[h].user \in Users
          /\ countedFor[h] \in Int
          /\ countedFor[h] <= TradesRow(Ask[h].user).resetAt
        BY QuestsAssumption DEF QuestsAssumption, TradeInv, HandlerInv, LastInv, Never
    <2>2. TradesRow(Ask[h].user).resetAt \in Int
        BY <2>1, TradesRowType DEF Inv
    <2>. QED
        BY <1>2, <2>1, <2>2
<1>4. CountInv'
    <2>. SUFFICES ASSUME NEW u \in Users, TradesRow(u)'.resetAt # Never
                  PROVE  TradesRow(u)'.progress =
                            AtMost(Cardinality(CountedIn(u, TradesRow(u)'.resetAt)), TradesTarget)
        <3>1. \A u, p : CountedIn(u, p)' = CountedIn(u, p)
            BY <1>1 DEF CountedIn
        <3>. QED
            BY <3>1 DEF CountInv
    <2>1. CASE TradesRow(u)' = TradesRow(u)
        BY <2>1 DEF TradeInv, CountInv
    <2>2. CASE /\ TradesRow(u).resetAt < TradesRow(u)'.resetAt
               /\ TradesRow(u)'.resetAt \in Nat /\ TradesRow(u)'.progress = 0
        <3>1. CountedIn(u, TradesRow(u)'.resetAt) = {}
            BY <2>2, NothingCountedAhead DEF Inv, TradeInv
        <3>. QED
            BY <2>2, <3>1, FS_EmptySet, QuestsAssumption DEF QuestsAssumption, AtMost
    <2>. QED
        BY <1>2, <2>1, <2>2
<1>5. RowInv'
    BY <1>2 DEF TradeInv, RowInv, Never
<1>. QED
    BY <1>3, <1>4, <1>5

\* The other steps count nothing.
LEMMA OthersCountNothing == ASSUME OtherStep PROVE countedFor' = countedFor
<1>1. CASE Tick \/ Refresh \/ Crash \/ UNCHANGED vars
    BY <1>1 DEF Tick, Refresh, Crash, vars, data
<1>2. ASSUME NEW h \in Handlers, PostTrade(h) \/ RecordTrade(h)
      PROVE  countedFor' = countedFor
    BY <1>2 DEF PostTrade, RecordTrade, data
<1>3. ASSUME NEW j \in Jobs, ReadList(j) \/ NextUser(j) PROVE countedFor' = countedFor
    BY <1>3 DEF ReadList, NextUser, data
<1>4. ASSUME NEW w \in Workers,
             LockRow(w) \/ ShareUser(w) \/ GrantReward(w) \/ Fail(w) \/ BreakDeadlock(w)
      PROVE  countedFor' = countedFor
    BY <1>4 DEF LockRow, ShareUser, GrantReward, Fail, BreakDeadlock, data
<1>5. ASSUME NEW at \in 0..now, ScanDue(at) PROVE countedFor' = countedFor
    BY <1>5 DEF ScanDue, data
<1>6. ASSUME NEW u \in Users, NEW q \in Quests, ResetRow(u, q)
      PROVE  countedFor' = countedFor
    BY <1>6 DEF ResetRow, data
<1>. QED
    BY <1>1, <1>2, <1>3, <1>4, <1>5, <1>6 DEF OtherStep

\* Every step keeps all of it.
LEMMA TradeStep == ASSUME Inv, TradeInv, [Next]_vars PROVE TradeInv'
<1>1. HandlerInv'
    BY HandlerStep DEF TradeInv
<1>2. CASE OtherStep
    <2>1. UNCHANGED <<userQuests, countedFor>>
        BY <1>2, OtherStepsLeaveRows, OthersCountNothing
    <2>. QED
        BY <1>1, <2>1, SameCount DEF TradeInv
<1>3. ASSUME NEW w \in Workers, Commit(w) PROVE TradeInv'
    BY <1>1, <1>3, HandlerCommits, JobCommits DEF TradeInv
<1>4. CASE CommitReset
    BY <1>1, <1>4, ResetCounts DEF TradeInv
<1>. QED
    BY <1>2, <1>3, <1>4, NextCases

\* At first nothing is counted.
LEMMA TradeInit == Init => TradeInv
<1>. SUFFICES ASSUME Init PROVE TradeInv
    OBVIOUS
<1>1. \A u \in Users : TradesRow(u) = NoRow /\ TradesRow(u).resetAt = Never
    BY TradesIsQuest DEF Init, TradesRow, NoRow
<1>2. \A h \in Handlers : countedFor[h] = Never /\ stage[h] \in {"done", "post"}
    BY HandlerQuest, QuestsAssumption DEF QuestsAssumption, Init, Workers
<1>3. HandlerInv
    BY <1>2 DEF Init, HandlerInv, OpenStages
<1>4. LastInv
    BY <1>1, <1>2, QuestsAssumption DEF QuestsAssumption, LastInv, Never
<1>5. CountInv /\ RowInv
    BY <1>1 DEF CountInv, RowInv
<1>. QED
    BY <1>3, <1>4, <1>5 DEF TradeInv

\* However many requests, jobs and resets meet on a progress row, and whatever
\* fails: its progress is the number of trades counted in its period, up to the
\* target. None is overwritten by a reader of an older row, and none is counted
\* again (quests/service.go, GetOrCreateUserQuestForUpdate).
THEOREM NoTradeLost == Spec => []TradesAreCounted
<1>1. Init => TradeInv
    BY TradeInit
<1>2. Inv /\ TradeInv /\ [Next]_vars => TradeInv'
    BY TradeStep
<1>3. RowInv /\ CountInv => TradesAreCounted
    BY DEF RowInv, CountInv, TradesAreCounted, CountedIn, TradesRow, AtMost
<1>. QED
    BY <1>1, <1>2, <1>3, Invariance, PTL DEF Spec, TradeInv
=============================================================================
