------------------------------ MODULE LedgerTx ------------------------------
(***************************************************************************)
(* The calls of the ledger, one statement at a time: ExecuteTrade,         *)
(* LaunchCard, GrantDailyReward and RebalanceBotBalance as concurrent      *)
(* transactions that lock rows, work on what they read under the locks,    *)
(* meet the unique indexes, commit, roll back and answer.                  *)
(*                                                                         *)
(* A call is a request of the constant set Requests; a retry is another    *)
(* request with the same key, which may run at the same time.  The rows    *)
(* (users, cards, holdings, transactions, keys) are the committed database *)
(* and the variables of module Ledger keep their meaning: the calls refine *)
(* its atomic operations without a mapping.                                *)
(***************************************************************************)
EXTENDS Ledger, FiniteSets

CONSTANTS Requests,
          Ask,          \* Ask[r]: [kind, user, card, type, shares, total, percent, key]
          Loads,        \* the sets of requests a behaviour may be about
          MaxFailures   \* calls and servers that may fail

Kinds == {"TRADE", "LAUNCH", "REWARD", "REBALANCE"}
Nobody == "nobody"
NoKey == <<>>

ASSUME LedgerTxAssumption ==
    /\ \A r \in Requests :
          /\ Ask[r].kind \in Kinds
          /\ Ask[r].user \in (CASE Ask[r].kind = "TRADE"     -> Users
                               [] Ask[r].kind = "REBALANCE" -> Bots
                               [] OTHER                     -> Humans)
          \* The arguments have passed validation.
          /\ Ask[r].kind = "TRADE" =>
                /\ Ask[r].card \in Cards
                /\ Ask[r].type \in TradeTypes /\ Ask[r].shares \in TradeSizes
          /\ Ask[r].kind = "LAUNCH" =>
                /\ Ask[r].card \in Launchable
                /\ Ask[r].total \in LaunchTotals
                /\ Ask[r].percent \in LaunchPercents
                /\ Ask[r].percent <= MaxRetainedPercent
    /\ Loads \subseteq SUBSET Requests
    /\ Nobody \notin Requests
    /\ MaxFailures \in Nat
    /\ MaxLag >= MaxNow     \* a transaction may stay open as long as it likes

VARIABLES
    stage,      \* stage[r]: the step the call takes next
    tx,         \* tx[r]: what its transaction has read
    owner,      \* owner[row]: the request whose transaction locked the row
    keys,       \* keys[i]: the idempotency key of row i of transactions
    answer,     \* answer[r]: what the caller was told
    ticks,      \* the events the observer was handed
    failures    \* failures so far

db     == <<users, cards, holdings, transactions, keys, sunk, events>>
txVars == <<now, db, ticks, stage, tx, owner, answer, failures>>

\* The rows that calls contend for.  A holding is locked as well, but never
\* contended for: whoever wants it has locked its card already.  The name of a
\* launched card stands for its entry in the unique index on symbols, too.
LockRows == Cards \cup Users

Unread == <<>>
NoTx   == [at |-> 0, card |-> Unread, user |-> Unread, held |-> Unread, last |-> NoTrade]

NoAnswer      == [says |-> "nothing", row |-> 0]
Ok(i)         == [says |-> "ok", row |-> i]
Error(name)   == [says |-> name, row |-> 0]

\* The first step of a call: only trades and launches look their key up first.
FirstStage(r) == IF Ask[r].kind \in {"TRADE", "LAUNCH"} THEN "lookup" ELSE "begin"

\* The lock order: a card before a user.
FirstLock(r) == IF Ask[r].kind = "TRADE" THEN "card" ELSE "user"

TxInit ==
    /\ Init
    /\ \E load \in Loads :
          stage = [r \in Requests |-> IF r \in load THEN FirstStage(r) ELSE "done"]
    /\ tx = [r \in Requests |-> NoTx]
    /\ owner = [row \in LockRows |-> Nobody]
    /\ keys = <<>>
    /\ answer = [r \in Requests |-> NoAnswer]
    /\ ticks = <<>>
    /\ failures = 0

-----------------------------------------------------------------------------
(* Keys and answers.                                                       *)

\* The client's key; a reward's names its user and day, a rebalancing's its
\* instant, which no other has.
KeyOf(r) ==
    CASE Ask[r].kind = "REWARD"    -> <<"daily_reward", Ask[r].user, DayOf(tx[r].at)>>
      [] Ask[r].kind = "REBALANCE" -> <<"bot_rebalance", r>>
      [] OTHER                     -> <<"client", Ask[r].key>>

KeyTaken(k) == \E i \in DOMAIN keys : keys[i] = k

RowOf(k) == CHOOSE i \in DOMAIN keys : keys[i] = k

\* Mutant of SameTrade: any row of the key will do.
AnyTrade(r, t) == TRUE

\* buildReplayResult refuses a row of another trade.
SameTrade(r, t) ==
    t.card = Ask[r].card /\ t.shares = Ask[r].shares /\ t.type = Ask[r].type

\* The answer made from the committed row of the key.  buildLaunchReplayResult
\* only asks that the row names a card.
Replay(r) ==
    LET i == RowOf(KeyOf(r))
        t == transactions[i]
    IN  CASE Ask[r].kind = "TRADE" ->
                 IF SameTrade(r, t) THEN Ok(i) ELSE Error("mismatch")
          [] Ask[r].kind = "LAUNCH" ->
                 IF t.card # NoCard THEN Ok(i) ELSE Error("failed")
          [] OTHER -> Ok(i)

Goto(r, s) == stage' = [stage EXCEPT ![r] = s]

Unlocked(r) == [row \in LockRows |-> IF owner[row] = r THEN Nobody ELSE owner[row]]

\* The transaction ends, committed or rolled back: its locks are free, and the
\* call goes on at stage s.
Release(r, s) ==
    /\ owner' = Unlocked(r)
    /\ Goto(r, s)

\* The call returns.  Whatever its transaction did is rolled back.
Return(r, a) ==
    /\ Release(r, "done")
    /\ answer' = [answer EXCEPT ![r] = a]
    /\ tx' = [tx EXCEPT ![r] = NoTx]

-----------------------------------------------------------------------------
(* The steps of a call.                                                    *)

\* The fast path, outside of any transaction.
LookUpKey(r) ==
    /\ stage[r] = "lookup"
    /\ IF KeyTaken(KeyOf(r))
       THEN Return(r, Replay(r))
       ELSE Goto(r, "begin") /\ UNCHANGED <<tx, owner, answer>>
    /\ UNCHANGED <<now, db, ticks, failures>>

\* A transaction begins, and with it the call reads the clock.
Begin(r) ==
    /\ stage[r] = "begin"
    /\ tx' = [tx EXCEPT ![r].at = now]
    /\ Goto(r, FirstLock(r))
    /\ UNCHANGED <<now, db, ticks, owner, answer, failures>>

\* Mutant of Free: a SELECT without FOR UPDATE does not wait.
NeverWaits(row) == TRUE

Free(row) == owner[row] = Nobody

\* SELECT ... FOR UPDATE of the card: wait for its lock, then read it.
LockCard(r) ==
    LET c == Ask[r].card
    IN  /\ stage[r] = "card"
        /\ IF c \notin DOMAIN cards THEN Return(r, Error("rejected"))
           ELSE /\ Free(c)
                /\ IF TradeOpen(cards[c], Ask[r].type, tx[r].at)
                   THEN /\ owner' = [owner EXCEPT ![c] = r]
                        /\ tx' = [tx EXCEPT ![r].card = cards[c]]
                        /\ Goto(r, "user")
                        /\ UNCHANGED answer
                   ELSE Return(r, Error("rejected"))
        /\ UNCHANGED <<now, db, ticks, failures>>

\* What a call checks with the user's row locked, and where it goes then.
UserAllows(r, user) ==
    CASE Ask[r].kind = "TRADE" ->
             WithinTotalSupply(tx[r].card, Ask[r].type, Ask[r].shares)
      [] Ask[r].kind = "LAUNCH" ->
             /\ user.balance >= LaunchThreshold
             /\ user.balance - LaunchCost >= 0
             /\ ValidSupply(RetainedShares(Ask[r].total, Ask[r].percent))
      [] Ask[r].kind = "REWARD"    -> ~AlreadyGranted(user.lastLogin, tx[r].at)
      [] Ask[r].kind = "REBALANCE" -> user.balance # BotStartingBalance

AfterUser(r) ==
    CASE Ask[r].kind = "TRADE" -> "holding" [] Ask[r].kind = "LAUNCH" -> "symbol"
      [] OTHER -> "insert"

\* A reward granted before and a balance on target are answered with success.
Declined(r) ==
    IF Ask[r].kind \in {"REWARD", "REBALANCE"} THEN Ok(0) ELSE Error("rejected")

\* SELECT ... FOR UPDATE of the user.
LockUser(r) ==
    LET u == Ask[r].user
    IN  /\ stage[r] = "user"
        /\ Free(u)
        /\ IF UserAllows(r, users[u])
           THEN /\ owner' = [owner EXCEPT ![u] = r]
                /\ tx' = [tx EXCEPT ![r].user = users[u]]
                /\ Goto(r, AfterUser(r))
                /\ UNCHANGED answer
           ELSE Return(r, Declined(r))
        /\ UNCHANGED <<now, db, ticks, failures>>

\* The holding and the last trade are read, and the trade is decided on.
ReadHolding(r) ==
    LET u    == Ask[r].user
        c    == Ask[r].card
        last == LastTrade(u, c)
    IN  /\ stage[r] = "holding"
        /\ IF TradeAllowed(tx[r].card, u, tx[r].user.balance, holdings[u][c], last,
                           Ask[r].type, Ask[r].shares, tx[r].at)
           THEN /\ tx' = [tx EXCEPT ![r] = [@ EXCEPT !.held = holdings[u][c], !.last = last]]
                /\ Goto(r, "insert")
                /\ UNCHANGED <<owner, answer>>
           ELSE Return(r, Error("rejected"))
        /\ UNCHANGED <<now, db, ticks, failures>>

\* A launch inserts its card, and waits if an open launch inserted the symbol.
InsertCard(r) ==
    LET c == Ask[r].card
    IN  /\ stage[r] = "symbol"
        /\ Free(c)
        /\ IF c \in DOMAIN cards
           THEN Return(r, Error("symbol taken"))
           ELSE /\ owner' = [owner EXCEPT ![c] = r]
                /\ Goto(r, "insert")
                /\ UNCHANGED <<tx, answer>>
        /\ UNCHANGED <<now, db, ticks, failures>>

\* Mutant of KeyPending: nobody waits for an open transaction with the key.
NothingPending(r) == FALSE

\* An open transaction has inserted the key: who inserts it now has to wait.
KeyPending(r) ==
    \E q \in Requests \ {r} : stage[q] = "commit" /\ KeyOf(q) = KeyOf(r)

\* The row with the key is inserted.  A duplicate ends the transaction; a trade
\* or a launch then reads the row that came first.
InsertRow(r) ==
    /\ stage[r] = "insert"
    /\ ~KeyPending(r)
    /\ IF ~KeyTaken(KeyOf(r))
       THEN Goto(r, "commit") /\ UNCHANGED <<tx, owner, answer>>
       ELSE IF Ask[r].kind \in {"TRADE", "LAUNCH"}
       THEN Release(r, "conflict") /\ UNCHANGED <<tx, answer>>
       ELSE Return(r, Declined(r))
    /\ UNCHANGED <<now, db, ticks, failures>>

\* Mutant of ReadConflict: the transaction is tried again, which fails again.
RetryAfterConflict(r) ==
    /\ stage[r] = "conflict"
    /\ Goto(r, "begin")
    /\ UNCHANGED <<now, db, tx, owner, answer, ticks, failures>>

ReadConflict(r) ==
    /\ stage[r] = "conflict"
    /\ Return(r, Replay(r))
    /\ UNCHANGED <<now, db, ticks, failures>>

-----------------------------------------------------------------------------
(* Commit.  What the transaction wrote, computed from what it had read,    *)
(* becomes visible at once.  The bound MaxLog is meant not to bind here: a *)
(* model sets it above twice the number of its requests.                   *)

Row(r, type, shares, delta, resulting) ==
    Txn(Ask[r].user, IF Ask[r].kind \in {"TRADE", "LAUNCH"} THEN Ask[r].card ELSE NoCard,
        type, shares, delta, resulting, tx[r].at)

CommitTrade(r) ==
    LET u       == Ask[r].user
        c       == Ask[r].card
        type    == Ask[r].type
        n       == Ask[r].shares
        at      == tx[r].at
        card    == tx[r].card
        balance == tx[r].user.balance
        cost    == TradeCost(card, type, n)
        charge  == TradeCharge(card, type, n, tx[r].last, at)
        next    == CardAfterTrade(card, u, type, n, at)
    IN  /\ cards' = [cards EXCEPT ![c] = [next EXCEPT
                        !.retainedSold = cards[c].retainedSold
                                         + RetainedSoldBy(card, u, type, n, at)]]
        /\ users' = Credit(u, -charge)
        /\ holdings' = [holdings EXCEPT ![u][c] =
                           HoldingAfterTrade(tx[r].held, type, n, charge, at)]
        /\ transactions' = transactions \o
              << Row(r, type, n, -cost, balance - cost),
                 Row(r, "FEE", 0, cost - charge, balance - charge) >>
        /\ keys' = keys \o <<KeyOf(r), NoKey>>
        /\ sunk' = [sunk EXCEPT ![c] = @ + charge]
        /\ events' = Append(events,
              [card |-> c, price |-> next.price, previous |-> card.price,
               volume |-> n, type |-> type, at |-> at])

CommitLaunch(r) ==
    LET u      == Ask[r].user
        c      == Ask[r].card
        minted == RetainedShares(Ask[r].total, Ask[r].percent)
    IN  /\ cards' = WithCard(c, LaunchedRow(u, Ask[r].total, Ask[r].percent, tx[r].at))
        /\ users' = Credit(u, -LaunchCost)
        /\ holdings' = [holdings EXCEPT ![u][c] =
              [shares      |-> minted,
               avgCost     |-> 0,
               firstBought |-> FirstBoughtAfter(@, minted, tx[r].at)]]
        /\ transactions' = Append(transactions,
              Row(r, "CARD_LAUNCH", minted, -LaunchCost, tx[r].user.balance - LaunchCost))
        /\ keys' = Append(keys, KeyOf(r))
        /\ UNCHANGED <<sunk, events>>

CommitReward(r) ==
    LET u    == Ask[r].user
        user == tx[r].user
    IN  /\ users' = [users EXCEPT ![u] =
              [balance   |-> @.balance + DailyRewardAmount,
               lastLogin |-> tx[r].at,
               streak    |-> NextStreak(user.lastLogin, user.streak, tx[r].at)]]
        /\ transactions' = Append(transactions,
              Row(r, "DAILY_REWARD", 0, DailyRewardAmount, users'[u].balance))
        /\ keys' = Append(keys, KeyOf(r))
        /\ UNCHANGED <<cards, holdings, sunk, events>>

CommitRebalance(r) ==
    LET u     == Ask[r].user
        delta == BotStartingBalance - tx[r].user.balance
    IN  /\ users' = Credit(u, delta)
        /\ transactions' = Append(transactions,
              Row(r, "REBALANCE", 0, delta, users'[u].balance))
        /\ keys' = Append(keys, KeyOf(r))
        /\ UNCHANGED <<cards, holdings, sunk, events>>

\* Mutant of AfterCommit: sales are not pushed.
OnlyBuysArePushed(r) ==
    IF Ask[r].kind = "TRADE" /\ Ask[r].type = "BUY" THEN "observe" ELSE "done"

\* Only a trade has something left to do: to hand its event to the observer.
AfterCommit(r) == IF Ask[r].kind = "TRADE" THEN "observe" ELSE "done"

\* The row the call wrote under its key.
NewRow == Ok(Len(transactions) + 1)

CommitWrites(r) ==
    CASE Ask[r].kind = "TRADE"     -> CommitTrade(r)
      [] Ask[r].kind = "LAUNCH"    -> CommitLaunch(r)
      [] Ask[r].kind = "REWARD"    -> CommitReward(r)
      [] Ask[r].kind = "REBALANCE" -> CommitRebalance(r)

\* The locks go with the commit; the answer follows, for a trade after its tick.
Commit(r) ==
    /\ stage[r] = "commit"
    /\ LogHasRoom
    /\ CommitWrites(r)
    /\ Release(r, AfterCommit(r))
    /\ answer' = [answer EXCEPT ![r] = NewRow]
    /\ UNCHANGED <<now, ticks, tx, failures>>

\* The observer gets the event of a committed trade, with no lock held.
Observe(r) ==
    LET card == tx[r].card
        next == CardAfterTrade(card, Ask[r].user, Ask[r].type, Ask[r].shares, tx[r].at)
    IN  /\ stage[r] = "observe"
        /\ ticks' = Append(ticks,
              [card |-> Ask[r].card, price |-> next.price, previous |-> card.price,
               volume |-> Ask[r].shares, type |-> Ask[r].type, at |-> tx[r].at])
        /\ Goto(r, "done")
        /\ UNCHANGED <<now, db, tx, owner, answer, failures>>

-----------------------------------------------------------------------------
(* Failures.                                                               *)

MayFail == failures < MaxFailures /\ failures' = failures + 1

\* A cancelled context or a lost connection before the commit: rolled back.
Fail(r) ==
    /\ stage[r] \notin {"observe", "done"}
    /\ MayFail
    /\ Return(r, Error("failed"))
    /\ UNCHANGED <<now, db, ticks>>

\* The commit succeeds but its acknowledgement is lost: the call returns an
\* error, and the observer hears nothing.
CommitUnseen(r) ==
    /\ stage[r] = "commit"
    /\ LogHasRoom
    /\ MayFail
    /\ CommitWrites(r)
    /\ Return(r, Error("failed"))
    /\ UNCHANGED <<now, ticks>>

\* The server goes down with the calls it was serving.
Crash ==
    /\ \E r \in Requests : stage[r] \notin {"done", FirstStage(r)}
    /\ MayFail
    /\ LET served == {r \in Requests : stage[r] \notin {"done", FirstStage(r)}}
       IN  /\ stage' = [r \in Requests |-> IF r \in served THEN "done" ELSE stage[r]]
           /\ tx' = [r \in Requests |-> IF r \in served THEN NoTx ELSE tx[r]]
           /\ answer' = [r \in Requests |->
                            IF r \in served THEN Error("failed") ELSE answer[r]]
    /\ owner' = [row \in LockRows |-> Nobody]
    /\ UNCHANGED <<now, db, ticks>>

-----------------------------------------------------------------------------
\* What a call does by itself, sooner or later.
Step(r) ==
    \/ LookUpKey(r) \/ Begin(r) \/ LockCard(r) \/ LockUser(r) \/ ReadHolding(r)
    \/ InsertCard(r) \/ InsertRow(r) \/ ReadConflict(r) \/ Commit(r) \/ Observe(r)

TxTick ==
    /\ Tick
    /\ UNCHANGED <<keys, ticks, stage, tx, owner, answer, failures>>

\* Every call has returned.
Finished ==
    /\ \A r \in Requests : stage[r] = "done"
    /\ UNCHANGED txVars

TxNext ==
    \/ TxTick
    \/ \E r \in Requests : Step(r) \/ Fail(r) \/ CommitUnseen(r)
    \/ Crash
    \/ Finished

TxSpec == TxInit /\ [][TxNext]_txVars

\* A goroutine runs on, and Postgres hands a free lock to a waiter.
FairTxSpec == TxSpec /\ \A r \in Requests : WF_txVars(Step(r))

-----------------------------------------------------------------------------
(* Correctness.                                                            *)

\* The interleaved transactions amount to the atomic operations of module
\* Ledger, in the order of their commits: what a call read under its locks is
\* still so when it commits.
ImplementsLedger == Spec

\* A key is good for one row, whichever calls race for it and whatever fails
\* (uniqueness of idempotency_key).
OneRowPerKey ==
    \A i, j \in DOMAIN keys : keys[i] = keys[j] /\ keys[i] # NoKey => i = j

\* A trade answered with success is a trade of the log with the card, the type
\* and the shares asked for, under the key asked with, be it this call's or the
\* one it replays.
TradeAnswerIsTrade ==
    \A r \in Requests :
        Ask[r].kind = "TRADE" /\ answer[r].says = "ok" =>
            LET t == transactions[answer[r].row]
            IN  /\ t.card = Ask[r].card /\ t.type = Ask[r].type
                /\ t.shares = Ask[r].shares
                /\ keys[answer[r].row] = KeyOf(r)

\* Every trade that commits is pushed once, replays push nothing, and only a
\* failure loses a tick.
TicksMatchCommits ==
    LET Count(s, e) == Cardinality({i \in DOMAIN s : s[i] = e})
        traded == {events[i] : i \in DOMAIN events}
    IN  /\ \A i \in DOMAIN ticks : ticks[i] \in traded
        /\ \A e \in traded :
              /\ Count(ticks, e) <= Count(events, e)
              /\ (\A r \in Requests : stage[r] = "done") /\ failures = 0
                    => Count(ticks, e) = Count(events, e)

\* Every call returns: no lock is waited for in a cycle or kept for good, and no
\* call meets the same conflict again and again.  (A call that has returned stays
\* so: this says the same as "each of them returns", with less to check.)
EveryCallReturns == <>(\A r \in Requests : stage[r] = "done")

\* The answer to a retry that lost the race is a replay, and not the verdict of
\* checks made after the key's own trade went through.
TradeRetryIsReplayed ==
    \A r \in Requests :
        Ask[r].kind = "TRADE" /\ answer[r].says = "rejected" =>
            ~\E i \in DOMAIN keys : keys[i] = KeyOf(r) /\ SameTrade(r, transactions[i])

=============================================================================
