--------------------------- MODULE LedgerTxProofs ---------------------------
(***************************************************************************)
(* Proofs about module LedgerTx: the interleaved calls implement the       *)
(* atomic operations of module Ledger, no key is written twice, an answer  *)
(* names the trade that has its request's key, and the ticks are those of  *)
(* the commits; for any requests, any number of failures and any           *)
(* interleaving.                                                           *)
(***************************************************************************)
EXTENDS LedgerTx, LedgerProofs

-----------------------------------------------------------------------------
(* The inductive invariant.                                                *)

Stages == {"lookup", "begin", "card", "user", "holding", "symbol", "insert",
           "conflict", "commit", "observe", "done"}

Kind(r)   == Ask[r].kind
UserOf(r) == Ask[r].user
CardOf(r) == Ask[r].card

TxShape ==
    /\ now <= MaxNow
    /\ stage \in [Requests -> Stages]
    /\ owner \in [LockRows -> Requests \cup {Nobody}]
    /\ DOMAIN tx = Requests
    /\ tx = [r \in Requests |-> tx[r]]
    /\ \A r \in Requests :
          /\ tx[r] = [at |-> tx[r].at, card |-> tx[r].card, user |-> tx[r].user,
                      held |-> tx[r].held, last |-> tx[r].last]
          /\ tx[r].at \in 0..now

KeyValues ==
    {NoKey} \cup {<<"client", Ask[r].key>> : r \in Requests}
            \cup {<<"bot_rebalance", r>> : r \in Requests}
            \cup {<<"daily_reward", u, d>> : u \in Users, d \in Nat}

\* Every row has its key, and a reward's key names its user and day.
KeyLog ==
    /\ keys \in Seq(KeyValues)
    /\ Len(keys) = Len(transactions)
    /\ \A i \in DOMAIN transactions :
          transactions[i].type = "DAILY_REWARD" =>
              keys[i] = <<"daily_reward", transactions[i].user, DayOf(transactions[i].at)>>

\* Only trades and launches get to the stages that are theirs.
StageFits(r) ==
    /\ stage[r] \in {"card", "holding", "observe"} => Kind(r) = "TRADE"
    /\ stage[r] = "symbol" => Kind(r) = "LAUNCH"

\* What a call has read stays so until it commits: it holds the locks.
CardIsRead(r) ==
    Kind(r) = "TRADE" /\ stage[r] \in {"user", "holding", "insert", "commit"} =>
        /\ CardOf(r) \in DOMAIN cards
        /\ owner[CardOf(r)] = r
        /\ tx[r].card = cards[CardOf(r)]

UserIsRead(r) ==
    stage[r] \in {"holding", "symbol", "insert", "commit"} =>
        /\ owner[UserOf(r)] = r
        /\ tx[r].user = users[UserOf(r)]
        /\ UserAllows(r, tx[r].user)

HoldingIsRead(r) ==
    Kind(r) = "TRADE" /\ stage[r] \in {"insert", "commit"} =>
        /\ tx[r].held = holdings[UserOf(r)][CardOf(r)]
        /\ tx[r].last = LastTrade(UserOf(r), CardOf(r))
        /\ TradeAllowed(tx[r].card, UserOf(r), tx[r].user.balance, tx[r].held,
                        tx[r].last, Ask[r].type, Ask[r].shares, tx[r].at)

SymbolIsFree(r) ==
    Kind(r) = "LAUNCH" /\ stage[r] \in {"insert", "commit"} =>
        /\ CardOf(r) \notin DOMAIN cards
        /\ owner[CardOf(r)] = r

ReadsHold(r) ==
    StageFits(r) /\ CardIsRead(r) /\ UserIsRead(r) /\ HoldingIsRead(r) /\ SymbolIsFree(r)

\* Who is about to commit has the key for itself.
KeysAreFree ==
    \A r \in Requests :
        stage[r] = "commit" =>
            /\ ~KeyTaken(KeyOf(r))
            /\ \A q \in Requests \ {r} : stage[q] = "commit" => KeyOf(q) # KeyOf(r)

TxInv ==
    /\ TxShape
    /\ KeyLog
    /\ OneRowPerKey
    /\ \A r \in Requests : ReadsHold(r)
    /\ KeysAreFree

-----------------------------------------------------------------------------
(* What a request asks for.                                                *)

\* The arguments of a request are inputs of the operation it calls.
LEMMA AskTypes ==
  ASSUME NEW r \in Requests
  PROVE  /\ Kind(r) \in Kinds
         /\ UserOf(r) \in Users
         /\ Kind(r) \in {"LAUNCH", "REWARD"} => UserOf(r) \in Humans
         /\ Kind(r) = "REBALANCE" => UserOf(r) \in Bots
         /\ Kind(r) \in {"TRADE", "LAUNCH"} => CardOf(r) \in Cards
         /\ Kind(r) = "TRADE" => Ask[r].type \in TradeTypes /\ Ask[r].shares \in TradeSizes
         /\ Kind(r) = "LAUNCH" => /\ CardOf(r) \in Launchable
                                  /\ Ask[r].total \in LaunchTotals
                                  /\ Ask[r].percent \in LaunchPercents
                                  /\ Ask[r].percent <= MaxRetainedPercent
<1>1. /\ Kind(r) \in Kinds
      /\ Kind(r) = "TRADE" => UserOf(r) \in Users
      /\ Kind(r) = "REBALANCE" => UserOf(r) \in Bots
      /\ Kind(r) \in {"LAUNCH", "REWARD"} => UserOf(r) \in Humans
  BY LedgerTxAssumption DEF Kind, UserOf, Kinds
<1> QED
  BY <1>1, LedgerTxAssumption DEF Kind, UserOf, CardOf, Kinds, Users, Cards

\* Days are numbered from 0.
LEMMA DayOfType ==
  ASSUME NEW t \in Nat
  PROVE  DayOf(t) \in Nat
<1>1. DayLength \in Nat \ {0}
  BY LedgerAssumption
<1>2. t \div DayLength \in Int
  BY <1>1
<1>3. 0 \div DayLength <= t \div DayLength /\ 0 \div DayLength = 0
  BY <1>1, DivMonotone
<1> QED
  BY <1>2, <1>3 DEF DayOf

\* A key is a value keys may hold, and is not the absence of one.
LEMMA KeyOfType ==
  ASSUME NEW r \in Requests, tx[r].at \in Nat
  PROVE  KeyOf(r) \in KeyValues /\ KeyOf(r) # NoKey
<1>1. DayOf(tx[r].at) \in Nat
  BY DayOfType
<1>2. CASE Kind(r) = "REWARD"
  <2>1. KeyOf(r) = <<"daily_reward", UserOf(r), DayOf(tx[r].at)>>
    BY <1>2 DEF KeyOf, Kind, UserOf
  <2> QED
    BY <1>1, <2>1, AskTypes DEF KeyValues, NoKey
<1>3. CASE Kind(r) = "REBALANCE"
  <2>1. KeyOf(r) = <<"bot_rebalance", r>>
    BY <1>3 DEF KeyOf, Kind
  <2> QED
    BY <2>1 DEF KeyValues, NoKey
<1>4. CASE Kind(r) \notin {"REWARD", "REBALANCE"}
  <2>1. KeyOf(r) = <<"client", Ask[r].key>>
    BY <1>4 DEF KeyOf, Kind
  <2> QED
    BY <2>1 DEF KeyValues, NoKey
<1> QED
  BY <1>2, <1>3, <1>4

-----------------------------------------------------------------------------
(* A step of one call and the others.                                      *)

\* Nothing that call q relies on changes: not its own state, and not the rows
\* it has locked.
Undisturbed(q) ==
    /\ stage'[q] = stage[q]
    /\ tx'[q] = tx[q]
    /\ \A row \in LockRows : owner[row] = q => owner'[row] = q
    /\ \A c \in Cards : owner[c] = q =>
          /\ c \in DOMAIN cards' <=> c \in DOMAIN cards
          /\ c \in DOMAIN cards => cards'[c] = cards[c]
    /\ \A u \in Users : owner[u] = q =>
          /\ users'[u] = users[u]
          /\ holdings'[u] = holdings[u]
          /\ \A c \in Cards : TradesOf(u, c)' = TradesOf(u, c)

\* What an undisturbed call has read stays so.
LEMMA UndisturbedReads ==
  ASSUME NEW q \in Requests, ReadsHold(q), Undisturbed(q)
  PROVE  ReadsHold(q)'
<1> USE AskTypes
<1>1. StageFits(q)'
  BY DEF ReadsHold, StageFits, Undisturbed
<1>2. CardIsRead(q)'
  BY DEF ReadsHold, CardIsRead, Undisturbed, LockRows
<1>3. UserIsRead(q)'
  BY DEF ReadsHold, UserIsRead, Undisturbed, LockRows, UserAllows, Kind, UserOf
<1>4. HoldingIsRead(q)'
  <2> SUFFICES ASSUME Kind(q) = "TRADE", stage[q] \in {"insert", "commit"}
               PROVE  HoldingIsRead(q)'
    BY DEF HoldingIsRead, Undisturbed
  <2>1. owner[UserOf(q)] = q /\ HoldingIsRead(q)
    BY DEF ReadsHold, UserIsRead
  <2>2. LastTrade(UserOf(q), CardOf(q))' = LastTrade(UserOf(q), CardOf(q))
    BY <2>1 DEF Undisturbed, LastTrade
  <2> QED
    BY <2>1, <2>2 DEF HoldingIsRead, Undisturbed
<1>5. SymbolIsFree(q)'
  BY DEF ReadsHold, SymbolIsFree, Undisturbed, LockRows
<1> QED
  BY <1>1, <1>2, <1>3, <1>4, <1>5 DEF ReadsHold

-----------------------------------------------------------------------------
(* Steps that leave the database alone.                                    *)

\* The step leaves the states of the other calls, and their locks, alone.
OthersKept(r) ==
    \A q \in Requests \ {r} :
        /\ stage'[q] = stage[q] /\ tx'[q] = tx[q]
        /\ \A row \in LockRows : owner[row] = q => owner'[row] = q

\* A call that reads, waits or returns preserves the invariant if what it has
\* read itself is right and it has its key for itself when it gets to commit.
LEMMA QuietStep ==
  ASSUME TxInv, TxShape', NEW r \in Requests,
         UNCHANGED <<now, db>>,
         OthersKept(r), ReadsHold(r)',
         stage'[r] = "commit" =>
             tx'[r] = tx[r] /\ ~KeyTaken(KeyOf(r)) /\ ~KeyPending(r)
  PROVE  TxInv'
<1>1. \A q \in Requests \ {r} : Undisturbed(q)
  BY DEF OthersKept, Undisturbed, db, TradesOf, TradeRows
<1>2. \A q \in Requests : ReadsHold(q)'
  <2>1. ASSUME NEW q \in Requests \ {r} PROVE ReadsHold(q)'
    BY <1>1, UndisturbedReads DEF TxInv
  <2> QED
    BY <2>1
<1>3. KeyLog' /\ OneRowPerKey'
  BY DEF TxInv, KeyLog, OneRowPerKey, db
<1>4. KeysAreFree'
  <2>1. \A q \in Requests : stage'[q] = "commit" =>
            /\ q # r => stage[q] = "commit"
            /\ KeyOf(q)' = KeyOf(q)
    BY DEF OthersKept, KeyOf
  <2>2. keys' = keys
    BY DEF db
  <2>3. ASSUME NEW q \in Requests, stage'[q] = "commit" PROVE ~KeyTaken(KeyOf(q))'
    BY <2>1, <2>2, <2>3 DEF TxInv, KeysAreFree, KeyTaken
  <2>4. ASSUME NEW p \in Requests, NEW q \in Requests, p # q,
               stage'[p] = "commit", stage'[q] = "commit"
        PROVE  KeyOf(p)' # KeyOf(q)'
    BY <2>1, <2>4 DEF TxInv, KeysAreFree, KeyPending
  <2> QED
    BY <2>3, <2>4 DEF KeysAreFree
<1> QED
  BY <1>2, <1>3, <1>4 DEF TxInv

\* A transaction that ends keeps the shape of the state, and disturbs nobody.
LEMMA ReleaseFrame ==
  ASSUME TxShape, NEW r \in Requests, NEW s \in Stages, Release(r, s)
  PROVE  /\ stage' \in [Requests -> Stages] /\ stage'[r] = s
         /\ owner' \in [LockRows -> Requests \cup {Nobody}]
         /\ \A q \in Requests \ {r} :
               /\ stage'[q] = stage[q]
               /\ \A row \in LockRows : owner[row] = q => owner'[row] = q
  BY LedgerTxAssumption DEF TxShape, Release, Goto, Unlocked

\* Answering a request ends it, and touches no other one's.
LEMMA ReturnFrame ==
  ASSUME TxShape, NEW r \in Requests, NEW a, Return(r, a), UNCHANGED now, now \in Nat
  PROVE  TxShape' /\ OthersKept(r) /\ stage'[r] = "done"
<1>1. "done" \in Stages
  BY DEF Stages
<1>2. /\ stage' \in [Requests -> Stages] /\ stage'[r] = "done"
      /\ owner' \in [LockRows -> Requests \cup {Nobody}]
      /\ \A q \in Requests \ {r} :
            /\ stage'[q] = stage[q]
            /\ \A row \in LockRows : owner[row] = q => owner'[row] = q
  BY <1>1, ReleaseFrame DEF Return
<1>3. tx' = [tx EXCEPT ![r] = NoTx]
  BY DEF Return
<1> QED
  BY <1>2, <1>3 DEF TxShape, OthersKept, NoTx

\* A call that returns has nothing to keep.
LEMMA ReturnReads ==
  ASSUME NEW r \in Requests,
         stage'[r] \in {"done", "lookup", "begin", "conflict"}
  PROVE  ReadsHold(r)'
  BY DEF ReadsHold, StageFits, CardIsRead, UserIsRead, HoldingIsRead, SymbolIsFree

\* Answering a request, with whatever answer, keeps the invariant.
LEMMA ReturnStep ==
  ASSUME TxInv, now \in Nat, NEW r \in Requests, NEW a, Return(r, a), UNCHANGED <<now, db>>
  PROVE  TxInv'
<1>1. TxShape' /\ OthersKept(r) /\ stage'[r] = "done"
  BY ReturnFrame DEF TxInv
<1> QED
  BY <1>1, ReturnReads, QuietStep

-----------------------------------------------------------------------------
(* One lemma per step of a call before its commit.                         *)

\* The stage of one call changes, and nothing else does.
LEMMA GotoStep ==
  ASSUME TxInv, NEW r \in Requests, NEW s \in Stages, Goto(r, s),
         UNCHANGED <<now, db, tx, owner>>, ReadsHold(r)',
         s = "commit" => ~KeyTaken(KeyOf(r)) /\ ~KeyPending(r)
  PROVE  TxInv'
<1>1. stage' \in [Requests -> Stages] /\ stage'[r] = s /\ OthersKept(r)
  BY DEF TxInv, TxShape, Goto, OthersKept
<1>2. TxShape'
  BY <1>1 DEF TxInv, TxShape
<1> QED
  BY <1>1, <1>2, QuietStep

\* One lemma per step of a call, up to its commit, in the order of the code.
LEMMA LookUpKeyStep ==
  ASSUME TxInv, now \in Nat, NEW r \in Requests, LookUpKey(r)
  PROVE  TxInv'
<1>1. CASE KeyTaken(KeyOf(r))
  BY <1>1, ReturnStep DEF LookUpKey
<1>2. CASE ~KeyTaken(KeyOf(r))
  <2>1. Goto(r, "begin") /\ stage'[r] = "begin" /\ "begin" \in Stages
    BY <1>2 DEF LookUpKey, Goto, TxInv, TxShape, Stages
  <2> QED
    BY <1>2, <2>1, ReturnReads, GotoStep DEF LookUpKey
<1> QED
  BY <1>1, <1>2

\* The transaction opens: nothing is read or written.
LEMMA BeginStep ==
  ASSUME TxInv, now \in Nat, NEW r \in Requests, Begin(r)
  PROVE  TxInv'
<1>1. /\ stage' \in [Requests -> Stages]
      /\ stage'[r] = FirstLock(r) /\ FirstLock(r) \in {"card", "user"}
      /\ FirstLock(r) = "card" => Kind(r) = "TRADE"
      /\ FirstLock(r) = "user" => Kind(r) # "TRADE"
  BY DEF Begin, Goto, FirstLock, TxInv, TxShape, Stages, Kind
<1>2. OthersKept(r)
  BY DEF Begin, Goto, OthersKept, TxInv, TxShape
<1>3. TxShape'
  BY <1>1 DEF TxInv, TxShape, Begin
<1>4. ReadsHold(r)'
  BY <1>1 DEF ReadsHold, StageFits, CardIsRead, UserIsRead, HoldingIsRead, SymbolIsFree
<1> QED
  BY <1>1, <1>2, <1>3, <1>4, QuietStep DEF Begin

\* A call that locks a free row and reads on.
LEMMA LockFrame ==
  ASSUME TxInv, NEW r \in Requests, NEW s \in Stages, NEW row \in LockRows,
         Free(row), owner' = [owner EXCEPT ![row] = r], Goto(r, s),
         UNCHANGED now,
         \/ UNCHANGED tx
         \/ \E card : tx' = [tx EXCEPT ![r].card = card]
         \/ \E user : tx' = [tx EXCEPT ![r].user = user]
  PROVE  TxShape' /\ OthersKept(r) /\ stage'[r] = s /\ owner'[row] = r
<1>1. /\ stage' \in [Requests -> Stages] /\ stage'[r] = s
      /\ owner' \in [LockRows -> Requests \cup {Nobody}] /\ owner'[row] = r
  BY DEF TxInv, TxShape, Goto
<1>2. OthersKept(r)
  BY LedgerTxAssumption DEF OthersKept, TxInv, TxShape, Goto, Free
<1>3. TxShape'
  <2>1. CASE UNCHANGED tx
    BY <1>1, <2>1 DEF TxInv, TxShape
  <2>2. CASE \E card : tx' = [tx EXCEPT ![r].card = card]
    BY <1>1, <2>2 DEF TxInv, TxShape
  <2>3. CASE \E user : tx' = [tx EXCEPT ![r].user = user]
    BY <1>1, <2>3 DEF TxInv, TxShape
  <2> QED
    BY <2>1, <2>2, <2>3
<1> QED
  BY <1>1, <1>2, <1>3

\* The card's row is locked and read.
LEMMA LockCardStep ==
  ASSUME TxInv, now \in Nat, NEW r \in Requests, LockCard(r)
  PROVE  TxInv'
<1> DEFINE c == CardOf(r)
<1>1. Kind(r) = "TRADE" /\ c \in LockRows
  BY AskTypes DEF LockCard, TxInv, ReadsHold, StageFits, LockRows
<1>2. CASE c \notin DOMAIN cards \/ ~TradeOpen(cards[c], Ask[r].type, tx[r].at)
  BY <1>2, ReturnStep DEF LockCard, CardOf
<1>3. CASE c \in DOMAIN cards /\ TradeOpen(cards[c], Ask[r].type, tx[r].at)
  <2>1. /\ Free(c) /\ owner' = [owner EXCEPT ![c] = r] /\ Goto(r, "user")
        /\ tx' = [tx EXCEPT ![r].card = cards[c]]
        /\ UNCHANGED <<now, db>>
    BY <1>3 DEF LockCard, CardOf
  <2>2. "user" \in Stages
    BY DEF Stages
  <2>3. TxShape' /\ OthersKept(r) /\ stage'[r] = "user" /\ owner'[c] = r
    BY <1>1, <2>1, <2>2, LockFrame
  <2>4. tx'[r].card = cards[c] /\ cards' = cards
    BY <2>1 DEF TxInv, TxShape, db
  <2>5. ReadsHold(r)'
    BY <1>1, <1>3, <2>3, <2>4
       DEF ReadsHold, StageFits, CardIsRead, UserIsRead, HoldingIsRead, SymbolIsFree
  <2> QED
    BY <2>1, <2>3, <2>5, QuietStep
<1> QED
  BY <1>2, <1>3

\* The user's row is locked and read.
LEMMA LockUserStep ==
  ASSUME TxInv, now \in Nat, NEW r \in Requests, LockUser(r)
  PROVE  TxInv'
<1> DEFINE u == UserOf(r)
<1>1. CASE ~UserAllows(r, users[u])
  BY <1>1, ReturnStep DEF LockUser, UserOf
<1>2. CASE UserAllows(r, users[u])
  <2>1. /\ stage[r] = "user"
        /\ Free(u) /\ owner' = [owner EXCEPT ![u] = r] /\ Goto(r, AfterUser(r))
        /\ tx' = [tx EXCEPT ![r].user = users[u]]
        /\ UNCHANGED <<now, db>>
    BY <1>2 DEF LockUser, UserOf
  <2>2. /\ AfterUser(r) \in {"holding", "symbol", "insert"}
        /\ AfterUser(r) = "holding" => Kind(r) = "TRADE"
        /\ AfterUser(r) = "symbol" => Kind(r) = "LAUNCH"
        /\ AfterUser(r) = "insert" => Kind(r) \in {"REWARD", "REBALANCE"}
    BY AskTypes DEF AfterUser, Kind, Kinds
  <2>3. u \in LockRows /\ AfterUser(r) \in Stages
    BY <2>2, AskTypes DEF LockRows, Stages
  <2>4. TxShape' /\ OthersKept(r) /\ stage'[r] = AfterUser(r) /\ owner'[u] = r
    BY <2>1, <2>3, LockFrame
  <2>5. /\ tx'[r].user = users[u] /\ tx'[r].card = tx[r].card /\ tx'[r].at = tx[r].at
        /\ cards' = cards /\ users' = users
    BY <2>1 DEF TxInv, TxShape, db
  <2>6. UserAllows(r, tx[r].user)'
    BY <1>2, <2>5 DEF UserAllows
  <2>7. Kind(r) = "TRADE" => /\ CardOf(r) \in DOMAIN cards
                             /\ owner'[CardOf(r)] = r
                             /\ tx'[r].card = cards[CardOf(r)]
    <3>1. ASSUME Kind(r) = "TRADE"
          PROVE  /\ CardOf(r) \in DOMAIN cards /\ CardOf(r) \in LockRows
                 /\ owner[CardOf(r)] = r
                 /\ tx[r].card = cards[CardOf(r)]
      BY <2>1, <3>1, AskTypes DEF TxInv, ReadsHold, CardIsRead, LockRows
    <3> QED
      BY <2>1, <2>5, <3>1 DEF TxInv, TxShape
  <2>8. ReadsHold(r)'
    BY <2>2, <2>4, <2>5, <2>6, <2>7
       DEF ReadsHold, StageFits, CardIsRead, UserIsRead, HoldingIsRead, SymbolIsFree
  <2> QED
    BY <2>1, <2>2, <2>4, <2>8, QuietStep
<1> QED
  BY <1>1, <1>2

\* The position is read under the user's lock.
LEMMA ReadHoldingStep ==
  ASSUME TxInv, now \in Nat, NEW r \in Requests, ReadHolding(r)
  PROVE  TxInv'
<1> DEFINE u == UserOf(r)
           c == CardOf(r)
           Allowed == TradeAllowed(tx[r].card, u, tx[r].user.balance, holdings[u][c],
                                   LastTrade(u, c), Ask[r].type, Ask[r].shares, tx[r].at)
<1>1. CASE ~Allowed
  BY <1>1, ReturnStep DEF ReadHolding, UserOf, CardOf
<1>2. CASE Allowed
  <2>1. /\ stage[r] = "holding" /\ Goto(r, "insert")
        /\ tx' = [tx EXCEPT ![r] = [@ EXCEPT !.held = holdings[u][c], !.last = LastTrade(u, c)]]
        /\ owner' = owner /\ UNCHANGED <<now, db>>
    BY <1>2 DEF ReadHolding, UserOf, CardOf
  <2>2. /\ stage' \in [Requests -> Stages] /\ stage'[r] = "insert"
    BY <2>1 DEF Goto, TxInv, TxShape, Stages
  <2>3. /\ DOMAIN tx' = Requests /\ tx' = [q \in Requests |-> tx'[q]]
        /\ \A q \in Requests \ {r} : tx'[q] = tx[q]
        /\ tx'[r] = [at |-> tx[r].at, card |-> tx[r].card, user |-> tx[r].user,
                     held |-> holdings[u][c], last |-> LastTrade(u, c)]
    <3> DEFINE row == [tx[r] EXCEPT !.held = holdings[u][c], !.last = LastTrade(u, c)]
    <3>1. row = [at |-> tx[r].at, card |-> tx[r].card, user |-> tx[r].user,
                 held |-> holdings[u][c], last |-> LastTrade(u, c)]
      <4> DEFINE half == [tx[r] EXCEPT !.held = holdings[u][c]]
      <4>1. half = [at |-> tx[r].at, card |-> tx[r].card, user |-> tx[r].user,
                    held |-> holdings[u][c], last |-> tx[r].last]
        BY DEF TxInv, TxShape
      <4>2. row = [half EXCEPT !.last = LastTrade(u, c)]
        OBVIOUS
      <4> HIDE DEF half, row
      <4> QED
        BY <4>1, <4>2
    <3>2. tx' = [tx EXCEPT ![r] = row]
      BY <2>1
    <3> HIDE DEF row
    <3>3. /\ DOMAIN tx' = Requests /\ tx' = [q \in Requests |-> tx'[q]]
          /\ tx'[r] = row /\ \A q \in Requests \ {r} : tx'[q] = tx[q]
      BY <3>2 DEF TxInv, TxShape
    <3> QED
      BY <3>1, <3>3
  <2>4. TxShape' /\ OthersKept(r)
    <3>1. OthersKept(r)
      BY <2>1, <2>3 DEF TxInv, TxShape, OthersKept, Goto
    <3> QED
      BY <2>1, <2>2, <2>3, <3>1 DEF TxInv, TxShape
  <2>5. Kind(r) = "TRADE" /\ CardIsRead(r) /\ UserIsRead(r)
    BY <2>1 DEF TxInv, ReadsHold, StageFits
  <2>6. CardIsRead(r)' /\ UserIsRead(r)'
    BY <2>1, <2>2, <2>3, <2>5 DEF CardIsRead, UserIsRead, UserAllows, db, Kind
  <2>7. LastTrade(u, c)' = LastTrade(u, c)
    BY <2>1 DEF LastTrade, TradesOf, TradeRows, db
  <2>8. HoldingIsRead(r)'
    BY <1>2, <2>1, <2>3, <2>7 DEF HoldingIsRead, db, TxInv, TxShape
  <2>9. ReadsHold(r)'
    BY <2>2, <2>5, <2>6, <2>8 DEF ReadsHold, StageFits, SymbolIsFree
  <2> QED
    BY <2>1, <2>2, <2>4, <2>9, QuietStep
<1> QED
  BY <1>1, <1>2

\* A launch inserts its card, unseen by the others.
LEMMA InsertCardStep ==
  ASSUME TxInv, now \in Nat, NEW r \in Requests, InsertCard(r)
  PROVE  TxInv'
<1> DEFINE c == CardOf(r)
<1>1. stage[r] = "symbol" /\ Kind(r) = "LAUNCH" /\ c \in LockRows
  BY AskTypes DEF InsertCard, TxInv, ReadsHold, StageFits, LockRows
<1>2. CASE c \in DOMAIN cards
  BY <1>2, ReturnStep DEF InsertCard, CardOf
<1>3. CASE c \notin DOMAIN cards
  <2>1. /\ Free(c) /\ owner' = [owner EXCEPT ![c] = r] /\ Goto(r, "insert")
        /\ UNCHANGED tx /\ UNCHANGED <<now, db>>
    BY <1>3 DEF InsertCard, CardOf
  <2>2. "insert" \in Stages
    BY DEF Stages
  <2>3. TxShape' /\ OthersKept(r) /\ stage'[r] = "insert" /\ owner'[c] = r
    BY <1>1, <2>1, <2>2, LockFrame
  <2>4. UserOf(r) \in LockRows /\ owner[UserOf(r)] = r /\ UserIsRead(r)
    BY <1>1, AskTypes DEF TxInv, ReadsHold, UserIsRead, LockRows
  <2>5. owner'[UserOf(r)] = r
    BY <2>1, <2>4 DEF TxInv, TxShape
  <2>6. UserIsRead(r)'
    BY <1>1, <2>1, <2>4, <2>5 DEF UserIsRead, UserAllows, db
  <2>7. ReadsHold(r)'
    BY <1>1, <1>3, <2>1, <2>3, <2>6
       DEF ReadsHold, StageFits, CardIsRead, HoldingIsRead, SymbolIsFree, db
  <2> QED
    BY <2>1, <2>3, <2>7, QuietStep
<1> QED
  BY <1>2, <1>3

\* The row with the key is inserted, unseen by the others.
LEMMA InsertRowStep ==
  ASSUME TxInv, now \in Nat, NEW r \in Requests, InsertRow(r)
  PROVE  TxInv'
<1>1. CASE ~KeyTaken(KeyOf(r))
  <2>1. /\ stage[r] = "insert" /\ Goto(r, "commit") /\ ~KeyPending(r)
        /\ UNCHANGED <<now, db, tx, owner>>
    BY <1>1 DEF InsertRow
  <2>2. "commit" \in Stages /\ stage'[r] = "commit"
    BY <2>1 DEF Goto, TxInv, TxShape, Stages
  <2>3. LastTrade(UserOf(r), CardOf(r))' = LastTrade(UserOf(r), CardOf(r))
    BY <2>1 DEF LastTrade, TradesOf, TradeRows, db
  <2>4. ReadsHold(r)
    BY DEF TxInv
  <2>5. CardIsRead(r)' /\ UserIsRead(r)' /\ SymbolIsFree(r)'
    BY <2>1, <2>2, <2>4 DEF ReadsHold, CardIsRead, UserIsRead, SymbolIsFree, UserAllows, db
  <2>6. HoldingIsRead(r)'
    BY <2>1, <2>2, <2>3, <2>4 DEF ReadsHold, HoldingIsRead, db
  <2>7. ReadsHold(r)'
    BY <2>2, <2>5, <2>6 DEF ReadsHold, StageFits
  <2> QED
    BY <1>1, <2>1, <2>2, <2>7, GotoStep
<1>2. CASE KeyTaken(KeyOf(r)) /\ Kind(r) \in {"TRADE", "LAUNCH"}
  <2>1. Release(r, "conflict") /\ UNCHANGED <<now, db, tx>>
    BY <1>2 DEF InsertRow, Kind
  <2>2. "conflict" \in Stages
    BY DEF Stages
  <2>3. /\ stage' \in [Requests -> Stages] /\ stage'[r] = "conflict"
        /\ owner' \in [LockRows -> Requests \cup {Nobody}]
        /\ OthersKept(r)
    BY <2>1, <2>2, ReleaseFrame DEF TxInv, OthersKept
  <2>4. TxShape'
    BY <2>1, <2>3 DEF TxInv, TxShape
  <2> QED
    BY <2>1, <2>3, <2>4, ReturnReads, QuietStep
<1>3. CASE KeyTaken(KeyOf(r)) /\ Kind(r) \notin {"TRADE", "LAUNCH"}
  BY <1>3, ReturnStep DEF InsertRow, Kind
<1> QED
  BY <1>1, <1>2, <1>3

\* The observer runs after the commit: the database is left alone.
LEMMA ObserveStep ==
  ASSUME TxInv, now \in Nat, NEW r \in Requests, Observe(r)
  PROVE  TxInv'
<1>1. "done" \in Stages /\ stage'[r] = "done" /\ Goto(r, "done")
  BY DEF Observe, Goto, TxInv, TxShape, Stages
<1> QED
  BY <1>1, ReturnReads, GotoStep DEF Observe

\* A server that goes down frees every lock; the calls that wait to be served
\* hold none.
LEMMA CrashStep ==
  ASSUME TxInv, now \in Nat, Crash
  PROVE  TxInv'
<1>1. /\ stage' \in [Requests -> Stages]
      /\ \A r \in Requests : stage'[r] \in {"done", "lookup", "begin"}
      /\ \A r \in Requests : stage'[r] # "done" => stage'[r] = stage[r] /\ tx'[r] = tx[r]
  BY DEF Crash, TxInv, TxShape, FirstStage, Stages
<1>2. TxShape'
  BY <1>1 DEF Crash, TxInv, TxShape, NoTx
<1>3. \A r \in Requests : ReadsHold(r)'
  BY <1>1 DEF ReadsHold, StageFits, CardIsRead, UserIsRead, HoldingIsRead, SymbolIsFree
<1>4. KeyLog' /\ OneRowPerKey'
  BY DEF Crash, TxInv, KeyLog, OneRowPerKey, db
<1> QED
  BY <1>1, <1>2, <1>3, <1>4 DEF TxInv, KeysAreFree

-----------------------------------------------------------------------------
(* A commit is the atomic operation of module Ledger.                      *)

\* The rows ws, one under each of the keys ks, are appended to the log.
Writes(r, ws, ks) ==
    /\ transactions' = transactions \o ws
    /\ keys' = keys \o ks
    /\ ws \in Seq(TxnRow)
    /\ \/ ks = <<KeyOf(r)>> /\ Len(ws) = 1
       \/ ks = <<KeyOf(r), NoKey>> /\ Len(ws) = 2
    /\ \A i \in DOMAIN ws :
          /\ ws[i].user = UserOf(r)
          /\ ws[i].type = "DAILY_REWARD" =>
                ks[i] = <<"daily_reward", ws[i].user, DayOf(ws[i].at)>>

\* The tables change in rows that r has locked.
OwnRowsOnly(r) ==
    /\ \A c \in Cards : owner[c] # r =>
          /\ c \in DOMAIN cards' <=> c \in DOMAIN cards
          /\ c \in DOMAIN cards => cards'[c] = cards[c]
    /\ \A u \in Users : owner[u] # r => users'[u] = users[u] /\ holdings'[u] = holdings[u]

\* The clock reading of an open transaction is one the ledger may work with.
LEMMA ReadingIsRecent ==
  ASSUME TypeOK, TxInv, NEW r \in Requests
  PROVE  tx[r].at \in ClockReadings /\ tx[r].at \in Nat
  BY LedgerAssumption, LedgerTxAssumption DEF TypeOK, TxInv, TxShape, ClockReadings

\* A trade commits: that is ExecuteTrade of the ledger, with what was read and
\* locked still true of the database.
LEMMA CommitTradeStep ==
  ASSUME TypeOK, TxInv, NEW r \in Requests, Kind(r) = "TRADE", stage[r] = "commit",
         LogHasRoom, CommitTrade(r), UNCHANGED now
  PROVE  /\ ExecuteTrade(UserOf(r), CardOf(r), Ask[r].type, Ask[r].shares, tx[r].at)
         /\ OwnRowsOnly(r)
         /\ \E ws, ks : Writes(r, ws, ks)
<1> DEFINE u      == UserOf(r)
           c      == CardOf(r)
           type   == Ask[r].type
           n      == Ask[r].shares
           at     == tx[r].at
           last   == LastTrade(u, c)
           cost   == TradeCost(cards[c], type, n)
           charge == TradeCharge(cards[c], type, n, last, at)
           next   == CardAfterTrade(cards[c], u, type, n, at)
           trade  == Txn(u, c, type, n, -cost, users[u].balance - cost, at)
           fee    == Txn(u, c, "FEE", 0, cost - charge, users[u].balance - charge, at)
<1>1. /\ u \in Users /\ c \in Cards /\ type \in TradeTypes /\ n \in TradeSizes
      /\ n \in Nat \ {0} /\ at \in Nat
  BY AskTypes, ReadingIsRecent, LedgerAssumption
<1>2. /\ c \in DOMAIN cards /\ owner[c] = r /\ owner[u] = r
      /\ tx[r].card = cards[c] /\ tx[r].user = users[u]
      /\ tx[r].held = holdings[u][c] /\ tx[r].last = last
      /\ TradeAllowed(cards[c], u, users[u].balance, holdings[u][c], last, type, n, at)
  BY DEF TxInv, ReadsHold, CardIsRead, UserIsRead, HoldingIsRead
<1>3. TradeArgs(cards[c], u, type, n, at) /\ ValidSupply(NewSupply(cards[c], type, n))
  BY <1>1, <1>2 DEF TypeOK, TradeArgs, TradeAllowed
<1>4. /\ next \in CardRow
      /\ next.retainedSold = cards[c].retainedSold
                             + RetainedSoldBy(cards[c], u, type, n, at)
  BY <1>3, CardAfterTradeFacts
<1>5. cost \in Int /\ charge \in Int
  BY <1>3, ChargeFacts
<1>6. /\ cards' = [cards EXCEPT ![c] = [next EXCEPT
              !.retainedSold = cards[c].retainedSold
                               + RetainedSoldBy(cards[c], u, type, n, at)]]
      /\ users' = Credit(u, -charge)
      /\ holdings' = [holdings EXCEPT ![u][c] =
                         HoldingAfterTrade(holdings[u][c], type, n, charge, at)]
      /\ transactions' = transactions \o <<trade, fee>>
      /\ keys' = keys \o <<KeyOf(r), NoKey>>
      /\ sunk' = [sunk EXCEPT ![c] = @ + charge]
      /\ events' = Append(events,
            [card |-> c, price |-> next.price, previous |-> cards[c].price,
             volume |-> n, type |-> type, at |-> at])
  BY <1>2 DEF CommitTrade, Row, UserOf, CardOf, Kind
<1> HIDE DEF next, cost, charge, last
<1>7. [next EXCEPT !.retainedSold = cards[c].retainedSold
                                    + RetainedSoldBy(cards[c], u, type, n, at)] = next
  BY <1>4 DEF CardRow
<1>8. cards' = [cards EXCEPT ![c] = next] /\ cards'[c] = next
  BY <1>2, <1>6, <1>7 DEF TypeOK
<1>9. ExecuteTrade(u, c, type, n, at)
  BY <1>2, <1>6, <1>8 DEF ExecuteTrade, TradeEvent, next, cost, charge, last
<1>10. OwnRowsOnly(r)
  BY <1>1, <1>2, <1>6, <1>8 DEF OwnRowsOnly, TypeOK, Credit
<1>11. Writes(r, <<trade, fee>>, <<KeyOf(r), NoKey>>)
  <2>1. users[u].balance \in Int
    BY <1>1 DEF TypeOK, UserRow
  <2>2. trade \in TxnRow /\ fee \in TxnRow
    BY <1>1, <1>5, <2>1 DEF Txn, TxnRow
  <2>3. /\ trade.user = u /\ trade.type # "DAILY_REWARD"
        /\ fee.user = u /\ fee.type # "DAILY_REWARD"
    BY <1>1 DEF Txn, TradeTypes
  <2> HIDE DEF trade, fee
  <2>4. /\ <<trade, fee>> \in Seq(TxnRow) /\ Len(<<trade, fee>>) = 2
        /\ \A i \in DOMAIN <<trade, fee>> : <<trade, fee>>[i] \in {trade, fee}
    BY <2>2
  <2> QED
    BY <1>6, <2>3, <2>4 DEF Writes
<1> QED
  BY <1>9, <1>10, <1>11

\* A single row is appended under the call's key.
LEMMA OneRowWritten ==
  ASSUME TypeOK, TxInv, NEW r \in Requests, NEW row \in TxnRow, row.user = UserOf(r),
         row.type = "DAILY_REWARD" =>
             KeyOf(r) = <<"daily_reward", row.user, DayOf(row.at)>>,
         transactions' = Append(transactions, row), keys' = Append(keys, KeyOf(r))
  PROVE  \E ws, ks : Writes(r, ws, ks)
<1>1. KeyOf(r) \in KeyValues
  BY ReadingIsRecent, KeyOfType
<1>2. /\ transactions' = transactions \o <<row>>
      /\ keys' = keys \o <<KeyOf(r)>>
  BY <1>1 DEF TypeOK, TxInv, KeyLog
<1>3. Writes(r, <<row>>, <<KeyOf(r)>>)
  <2>1. <<row>> \in Seq(TxnRow) /\ Len(<<row>>) = 1 /\ DOMAIN <<row>> = {1}
    OBVIOUS
  <2>2. <<row>>[1] = row /\ <<KeyOf(r)>>[1] = KeyOf(r)
    OBVIOUS
  <2> QED
    BY <1>2, <2>1, <2>2 DEF Writes
<1> QED
  BY <1>3

\* A launch commits: that is LaunchCard.
LEMMA CommitLaunchStep ==
  ASSUME TypeOK, TxInv, NEW r \in Requests, Kind(r) = "LAUNCH", stage[r] = "commit",
         LogHasRoom, CommitLaunch(r), UNCHANGED now
  PROVE  /\ LaunchCard(UserOf(r), CardOf(r), Ask[r].total, Ask[r].percent, tx[r].at)
         /\ OwnRowsOnly(r)
         /\ \E ws, ks : Writes(r, ws, ks)
<1> DEFINE u      == UserOf(r)
           c      == CardOf(r)
           at     == tx[r].at
           minted == RetainedShares(Ask[r].total, Ask[r].percent)
           row    == Txn(u, c, "CARD_LAUNCH", minted, -LaunchCost,
                         users[u].balance - LaunchCost, at)
<1>1. /\ u \in Users /\ c \in Cards /\ Ask[r].percent <= MaxRetainedPercent
      /\ at \in Nat
  BY AskTypes, ReadingIsRecent
<1>2. /\ c \notin DOMAIN cards /\ owner[c] = r /\ owner[u] = r
      /\ tx[r].user = users[u] /\ UserAllows(r, users[u])
  BY DEF TxInv, ReadsHold, UserIsRead, SymbolIsFree
<1>3. /\ users[u].balance >= LaunchThreshold
      /\ users[u].balance - LaunchCost >= 0
      /\ ValidSupply(minted)
  BY <1>2 DEF UserAllows, Kind
<1>4. /\ cards' = WithCard(c, LaunchedRow(u, Ask[r].total, Ask[r].percent, at))
      /\ users' = Credit(u, -LaunchCost)
      /\ holdings' = [holdings EXCEPT ![u][c] =
            [shares      |-> minted,
             avgCost     |-> 0,
             firstBought |-> FirstBoughtAfter(@, minted, at)]]
      /\ transactions' = Append(transactions, row)
      /\ keys' = Append(keys, KeyOf(r))
      /\ UNCHANGED <<sunk, events>>
  BY <1>2 DEF CommitLaunch, Row, UserOf, CardOf, Kind
<1>5. LaunchCard(u, c, Ask[r].total, Ask[r].percent, at)
  BY <1>1, <1>2, <1>3, <1>4 DEF LaunchCard
<1>6. OwnRowsOnly(r)
  <2>1. ASSUME NEW d \in Cards, owner[d] # r
        PROVE  /\ d \in DOMAIN cards' <=> d \in DOMAIN cards
               /\ d \in DOMAIN cards => cards'[d] = cards[d]
    <3>1. d # c
      BY <1>2, <2>1
    <3>2. DOMAIN cards' = DOMAIN cards \cup {c}
      BY <1>4 DEF WithCard
    <3>3. CASE d \in DOMAIN cards
      BY <1>4, <3>1, <3>2, <3>3 DEF WithCard
    <3>4. CASE d \notin DOMAIN cards
      BY <3>1, <3>2, <3>4
    <3> QED
      BY <3>3, <3>4
  <2>2. ASSUME NEW v \in Users, owner[v] # r
        PROVE  users'[v] = users[v] /\ holdings'[v] = holdings[v]
    <3>1. v # u
      BY <1>2, <2>2
    <3>2. users'[v] = users[v]
      BY <1>4, <3>1 DEF TypeOK, Credit
    <3>3. holdings'[v] = holdings[v]
      BY <1>4, <3>1 DEF TypeOK
    <3> QED
      BY <3>2, <3>3
  <2> QED
    BY <2>1, <2>2 DEF OwnRowsOnly
<1>7. \E ws, ks : Writes(r, ws, ks)
  <2>1. row \in TxnRow /\ row.user = u /\ row.type # "DAILY_REWARD"
    BY SMTT(30), <1>1, <1>3, LedgerAssumption DEF Txn, TxnRow, ValidSupply, TypeOK, UserRow
  <2> QED
    BY <1>4, <2>1, OneRowWritten
<1> QED
  BY <1>5, <1>6, <1>7

\* A reward whose key is free is the first of its day.
LEMMA CommitRewardStep ==
  ASSUME TypeOK, TxInv, NEW r \in Requests, Kind(r) = "REWARD", stage[r] = "commit",
         LogHasRoom, CommitReward(r), UNCHANGED now
  PROVE  /\ GrantDailyReward(UserOf(r), tx[r].at)
         /\ OwnRowsOnly(r)
         /\ \E ws, ks : Writes(r, ws, ks)
<1> DEFINE u   == UserOf(r)
           at  == tx[r].at
           row == Txn(u, NoCard, "DAILY_REWARD", 0, DailyRewardAmount,
                      users[u].balance + DailyRewardAmount, at)
<1>1. u \in Users /\ at \in Nat /\ users[u].balance \in Nat
  BY AskTypes, ReadingIsRecent DEF TypeOK, UserRow
<1>2. /\ owner[u] = r /\ tx[r].user = users[u]
      /\ ~AlreadyGranted(users[u].lastLogin, at)
  <2>1. owner[u] = r /\ tx[r].user = users[u] /\ UserAllows(r, users[u])
    BY DEF TxInv, ReadsHold, UserIsRead
  <2> QED
    BY <2>1 DEF UserAllows, Kind
<1>3. KeyOf(r) = <<"daily_reward", u, DayOf(at)>>
  BY DEF KeyOf, Kind, UserOf
<1>4. DayOf(at) \notin RewardedDays(u)
  <2>1. SUFFICES ASSUME NEW i \in DOMAIN transactions, transactions[i].user = u,
                        transactions[i].type = "DAILY_REWARD",
                        DayOf(transactions[i].at) = DayOf(at)
                 PROVE  FALSE
    BY DEF RewardedDays
  <2>2. i \in DOMAIN keys /\ keys[i] = KeyOf(r)
    BY <1>3, <2>1 DEF TxInv, KeyLog, TypeOK
  <2> QED
    BY <2>2 DEF TxInv, KeysAreFree, KeyTaken
<1>5. /\ users' = [users EXCEPT ![u] =
            [balance   |-> @.balance + DailyRewardAmount,
             lastLogin |-> at,
             streak    |-> NextStreak(@.lastLogin, @.streak, at)]]
      /\ UNCHANGED <<cards, holdings, sunk, events>>
      /\ keys' = Append(keys, KeyOf(r))
  BY <1>2 DEF CommitReward, UserOf
<1>6. users'[u].balance = users[u].balance + DailyRewardAmount
  BY <1>1, <1>5 DEF TypeOK
<1>7. transactions' = Append(transactions, row)
  BY <1>6 DEF CommitReward, Row, UserOf, Kind
<1>8. GrantDailyReward(u, at)
  BY <1>2, <1>4, <1>5, <1>7 DEF GrantDailyReward
<1>9. OwnRowsOnly(r)
  BY <1>1, <1>2, <1>5 DEF OwnRowsOnly, TypeOK
<1>10. \E ws, ks : Writes(r, ws, ks)
  <2>1. row \in TxnRow /\ row.user = u /\ row.at = at
    BY <1>1, LedgerAssumption DEF Txn, TxnRow
  <2> QED
    BY <1>3, <1>5, <1>7, <2>1, OneRowWritten
<1> QED
  BY <1>8, <1>9, <1>10

\* A rebalancing commits: that is RebalanceBotBalance.
LEMMA CommitRebalanceStep ==
  ASSUME TypeOK, TxInv, NEW r \in Requests, Kind(r) = "REBALANCE", stage[r] = "commit",
         LogHasRoom, CommitRebalance(r), UNCHANGED now
  PROVE  /\ RebalanceBotBalance(UserOf(r), tx[r].at)
         /\ OwnRowsOnly(r)
         /\ \E ws, ks : Writes(r, ws, ks)
<1> DEFINE u     == UserOf(r)
           at    == tx[r].at
           delta == BotStartingBalance - users[u].balance
           row   == Txn(u, NoCard, "REBALANCE", 0, delta, users[u].balance + delta, at)
<1>1. /\ u \in Users /\ at \in Nat /\ users[u].balance \in Nat
      /\ BotStartingBalance \in Nat
  BY AskTypes, ReadingIsRecent, LedgerAssumption DEF TypeOK, UserRow
<1>2. /\ owner[u] = r /\ tx[r].user = users[u]
      /\ users[u].balance # BotStartingBalance
  <2>1. owner[u] = r /\ tx[r].user = users[u] /\ UserAllows(r, users[u])
    BY DEF TxInv, ReadsHold, UserIsRead
  <2> QED
    BY <2>1 DEF UserAllows, Kind
<1>3. delta \in Int /\ delta # 0
  BY <1>1, <1>2
<1>4. /\ users' = Credit(u, delta)
      /\ UNCHANGED <<cards, holdings, sunk, events>>
      /\ keys' = Append(keys, KeyOf(r))
  BY <1>2 DEF CommitRebalance, UserOf
<1> HIDE DEF delta
<1>5. users'[u].balance = users[u].balance + delta
  BY <1>1, <1>3, <1>4 DEF TypeOK, UserRow, Credit
<1>6. transactions' = Append(transactions, row)
  BY <1>2, <1>5 DEF CommitRebalance, Row, UserOf, Kind, delta
<1>7. RebalanceBotBalance(u, at)
  BY <1>3, <1>4, <1>6 DEF RebalanceBotBalance, delta
<1>8. OwnRowsOnly(r)
  BY <1>1, <1>2, <1>4 DEF OwnRowsOnly, TypeOK, Credit
<1>9. \E ws, ks : Writes(r, ws, ks)
  <2>1. row \in TxnRow /\ row.user = u /\ row.type # "DAILY_REWARD"
    BY <1>1, <1>3 DEF Txn, TxnRow
  <2> QED
    BY <1>4, <1>6, <2>1, OneRowWritten
<1> QED
  BY <1>7, <1>8, <1>9

\* A sequence with another one after it.
LEMMA Concatenation ==
  ASSUME NEW S, NEW s \in Seq(S), NEW t \in Seq(S)
  PROVE  /\ s \o t \in Seq(S) /\ Len(s \o t) = Len(s) + Len(t)
         /\ DOMAIN (s \o t) = 1..(Len(s) + Len(t))
         /\ \A i \in 1..Len(s) : (s \o t)[i] = s[i]
         /\ \A i \in 1..(Len(s) + Len(t)) :
               i > Len(s) => i - Len(s) \in DOMAIN t /\ (s \o t)[i] = t[i - Len(s)]
  OBVIOUS

\* The log and its keys after a commit.
LEMMA LogAfterWrites ==
  ASSUME TypeOK, TxInv, NEW r \in Requests, stage[r] = "commit",
         NEW ws, NEW ks, Writes(r, ws, ks)
  PROVE  /\ KeyLog' /\ OneRowPerKey'
         /\ \A i \in DOMAIN keys' : keys'[i] = NoKey \/ keys'[i] = KeyOf(r)
                                   \/ \E j \in DOMAIN keys : keys[j] = keys'[i]
         /\ \A u \in Users \ {UserOf(r)}, c \in Cards : TradesOf(u, c)' = TradesOf(u, c)
<1> DEFINE n == Len(transactions)
           m == Len(ks)
<1>1. /\ KeyOf(r) \in KeyValues /\ KeyOf(r) # NoKey /\ NoKey \in KeyValues
      /\ ~KeyTaken(KeyOf(r))
  BY ReadingIsRecent, KeyOfType DEF TxInv, KeysAreFree, KeyValues
<1>2. /\ ks \in Seq(KeyValues) /\ Len(ks) = m /\ ks[1] = KeyOf(r)
      /\ \/ m = 1 /\ Len(ws) = m
         \/ m = 2 /\ Len(ws) = m /\ ks[2] = NoKey
  <2>1. CASE ks = <<KeyOf(r)>> /\ Len(ws) = 1
    BY <1>1, <2>1
  <2>2. CASE ks = <<KeyOf(r), NoKey>> /\ Len(ws) = 2
    BY <1>1, <2>2
  <2> QED
    BY <2>1, <2>2 DEF Writes
<1>3. /\ transactions \in Seq(TxnRow) /\ keys \in Seq(KeyValues)
      /\ n \in Nat /\ Len(keys) = n /\ ws \in Seq(TxnRow)
      /\ transactions' = transactions \o ws /\ keys' = keys \o ks
      /\ DOMAIN transactions = 1..n /\ DOMAIN keys = 1..n
      /\ DOMAIN ws = 1..m /\ DOMAIN ks = 1..m
  BY <1>2 DEF TypeOK, TxInv, KeyLog, Writes
<1> HIDE DEF n, m
<1>4. /\ keys' \in Seq(KeyValues) /\ Len(keys') = n + m /\ Len(transactions') = n + m
      /\ DOMAIN transactions' = 1..(n + m) /\ DOMAIN keys' = 1..(n + m)
  <2>1. Len(ws) = m /\ Len(ks) = m /\ Len(transactions) = n
    BY <1>2 DEF n, m
  <2>2. /\ transactions \o ws \in Seq(TxnRow) /\ Len(transactions \o ws) = n + m
        /\ DOMAIN (transactions \o ws) = 1..(n + m)
    BY <1>3, <2>1, Concatenation
  <2>3. /\ keys \o ks \in Seq(KeyValues) /\ Len(keys \o ks) = n + m
        /\ DOMAIN (keys \o ks) = 1..(n + m)
    BY <1>2, <1>3, <2>1, Concatenation
  <2> QED
    BY <1>3, <2>2, <2>3
<1>5. \A i \in 1..n : transactions'[i] = transactions[i] /\ keys'[i] = keys[i]
  BY SMTT(30), <1>2, <1>3, Concatenation DEF n, m
<1>6. \A i \in 1..(n + m) : i > n =>
          /\ i - n \in DOMAIN ws
          /\ transactions'[i] = ws[i - n] /\ keys'[i] = ks[i - n]
  BY SMTT(30), <1>2, <1>3, Concatenation DEF n, m
<1>7. keys'[n + 1] = KeyOf(r) /\ (m = 2 => keys'[n + 2] = NoKey)
  BY <1>2, <1>3, <1>6
<1>8. \A i \in DOMAIN keys' : \/ i \in DOMAIN keys /\ keys'[i] = keys[i]
                              \/ i = n + 1 /\ keys'[i] = KeyOf(r)
                              \/ i = n + 2 /\ keys'[i] = NoKey
  <2>1. \A i \in 1..(n + m) : i \in 1..n \/ i = n + 1 \/ (i = n + 2 /\ m = 2)
    BY <1>2, <1>3
  <2> QED
    BY <1>3, <1>4, <1>5, <1>7, <2>1
<1>9. KeyLog'
  <2>1. ASSUME NEW i \in DOMAIN transactions', transactions'[i].type = "DAILY_REWARD"
        PROVE  keys'[i] = <<"daily_reward", transactions'[i].user,
                            DayOf(transactions'[i].at)>>
    <3>1. CASE i \in 1..n
      BY <1>3, <1>5, <2>1, <3>1 DEF TxInv, KeyLog
    <3>2. CASE i > n
      <4>1. i - n \in DOMAIN ws /\ transactions'[i] = ws[i - n] /\ keys'[i] = ks[i - n]
        BY <1>4, <1>6, <2>1, <3>2
      <4> QED
        BY <2>1, <4>1 DEF Writes
    <3>3. i \in Int /\ n \in Int
      BY <1>2, <1>3, <1>4, <2>1
    <3> QED
      BY <3>1, <3>2, <3>3, <1>3, <1>4, <2>1
  <2> QED
    BY <1>4, <2>1 DEF KeyLog
<1>10. OneRowPerKey'
  <2>1. \A i \in DOMAIN keys : keys[i] # KeyOf(r)
    BY <1>1 DEF KeyTaken
  <2> QED
    BY <1>1, <1>8, <2>1 DEF TxInv, OneRowPerKey
<1>11. ASSUME NEW u \in Users \ {UserOf(r)}, NEW c \in Cards
       PROVE  TradesOf(u, c)' = TradesOf(u, c)
  <2>1. \A i \in DOMAIN transactions' : i \notin DOMAIN transactions =>
            transactions'[i].user # u
    BY <1>3, <1>4, <1>6, <1>11 DEF Writes
  <2>2. TradeRows(u, c)' = TradeRows(u, c)
    BY <1>2, <1>3, <1>4, <1>5, <2>1 DEF TradeRows
  <2>3. \A i \in TradeRows(u, c) : transactions'[i] = transactions[i]
    BY <1>3, <1>5 DEF TradeRows
  <2> QED
    BY <2>2, <2>3 DEF TradesOf
<1> QED
  BY <1>8, <1>9, <1>10, <1>11

\* What a call writes it writes as one operation of the ledger.
LEMMA CommitWritesStep ==
  ASSUME TypeOK, TxInv, NEW r \in Requests, stage[r] = "commit",
         LogHasRoom, CommitWrites(r), UNCHANGED now
  PROVE  Next /\ OwnRowsOnly(r) /\ \E ws, ks : Writes(r, ws, ks)
<1> USE AskTypes, ReadingIsRecent DEF Kinds
<1>1. CASE Kind(r) = "TRADE"
  <2>1. CommitTrade(r)
    BY <1>1 DEF CommitWrites, Kind
  <2> QED
    BY <1>1, <2>1, CommitTradeStep DEF Next
<1>2. CASE Kind(r) = "LAUNCH"
  <2>1. CommitLaunch(r)
    BY <1>2 DEF CommitWrites, Kind
  <2> QED
    BY <1>2, <2>1, CommitLaunchStep DEF Next
<1>3. CASE Kind(r) = "REWARD"
  <2>1. CommitReward(r)
    BY <1>3 DEF CommitWrites, Kind
  <2> QED
    BY <1>3, <2>1, CommitRewardStep DEF Next
<1>4. CASE Kind(r) = "REBALANCE"
  <2>1. CommitRebalance(r)
    BY <1>4 DEF CommitWrites, Kind
  <2> QED
    BY <1>4, <2>1, CommitRebalanceStep DEF Next
<1> QED
  BY <1>1, <1>2, <1>3, <1>4

\* A commit takes the key, and leaves to the others what they have locked.
LEMMA CommitKeepsInv ==
  ASSUME TypeOK, TxInv, NEW r \in Requests, stage[r] = "commit",
         LogHasRoom, CommitWrites(r), UNCHANGED now,
         TxShape', OthersKept(r), stage'[r] \in {"observe", "done"},
         stage'[r] = "observe" => Kind(r) = "TRADE"
  PROVE  TxInv'
<1>1. OwnRowsOnly(r) /\ \E ws, ks : Writes(r, ws, ks)
  BY CommitWritesStep
<1>2. PICK ws, ks : Writes(r, ws, ks)
  BY <1>1
<1>3. /\ KeyLog' /\ OneRowPerKey'
      /\ \A i \in DOMAIN keys' : keys'[i] = NoKey \/ keys'[i] = KeyOf(r)
                                \/ \E j \in DOMAIN keys : keys[j] = keys'[i]
      /\ \A u \in Users \ {UserOf(r)}, c \in Cards : TradesOf(u, c)' = TradesOf(u, c)
  BY <1>2, LogAfterWrites
<1>4. owner[UserOf(r)] = r
  BY DEF TxInv, ReadsHold, UserIsRead
<1>5. \A q \in Requests \ {r} : Undisturbed(q)
  BY <1>1, <1>3, <1>4 DEF OthersKept, OwnRowsOnly, Undisturbed
<1>6. \A q \in Requests : ReadsHold(q)'
  <2>1. ASSUME NEW q \in Requests \ {r} PROVE ReadsHold(q)'
    BY <1>5, UndisturbedReads DEF TxInv
  <2>2. ReadsHold(r)'
    BY DEF ReadsHold, StageFits, CardIsRead, UserIsRead, HoldingIsRead, SymbolIsFree
  <2> QED
    BY <2>1, <2>2
<1>7. KeysAreFree'
  <2>1. \A q \in Requests : stage'[q] = "commit" =>
            q # r /\ stage[q] = "commit" /\ KeyOf(q)' = KeyOf(q)
    BY DEF OthersKept, KeyOf
  <2>2. ASSUME NEW q \in Requests, stage'[q] = "commit" PROVE ~KeyTaken(KeyOf(q))'
    <3>1. /\ KeyOf(q) # NoKey /\ KeyOf(q) # KeyOf(r) /\ ~KeyTaken(KeyOf(q))
          /\ KeyOf(q)' = KeyOf(q)
      BY <2>1, <2>2, ReadingIsRecent, KeyOfType DEF TxInv, KeysAreFree
    <3> QED
      BY <1>3, <3>1 DEF KeyTaken
  <2>3. ASSUME NEW p \in Requests, NEW q \in Requests, p # q,
               stage'[p] = "commit", stage'[q] = "commit"
        PROVE  KeyOf(p)' # KeyOf(q)'
    BY <2>1, <2>3 DEF TxInv, KeysAreFree
  <2> QED
    BY <2>2, <2>3 DEF KeysAreFree
<1> QED
  BY <1>3, <1>6, <1>7 DEF TxInv

-----------------------------------------------------------------------------
(* The steps of the specification.                                         *)

\* The invariant holds initially.
LEMMA TxInitInv == TxInit => Init /\ TxInv
<1> SUFFICES ASSUME TxInit PROVE Init /\ TxInv
  OBVIOUS
<1>1. /\ Init /\ now = 0 /\ transactions = <<>> /\ keys = <<>>
      /\ tx = [r \in Requests |-> NoTx] /\ owner = [row \in LockRows |-> Nobody]
      /\ \A r \in Requests : stage[r] \in {"lookup", "begin", "done"}
      /\ stage \in [Requests -> Stages]
  BY DEF TxInit, Init, FirstStage, Stages
<1>2. TxShape
  BY <1>1, LedgerAssumption DEF TxShape, NoTx
<1>3. KeyLog /\ OneRowPerKey
  BY <1>1 DEF KeyLog, OneRowPerKey
<1>4. \A r \in Requests : ReadsHold(r)
  BY <1>1 DEF ReadsHold, StageFits, CardIsRead, UserIsRead, HoldingIsRead, SymbolIsFree
<1>5. KeysAreFree
  BY <1>1 DEF KeysAreFree
<1> QED
  BY <1>1, <1>2, <1>3, <1>4, <1>5 DEF TxInv

\* A step that leaves the clock and the database alone is no step of the ledger.
LEMMA QuietIsStutter == UNCHANGED <<now, db>> => UNCHANGED vars
  BY DEF db, vars

\* Time passes for the open transactions, too.
LEMMA TxTickStep ==
  ASSUME TypeOK, TxInv, TxTick
  PROVE  TxInv'
<1>1. /\ now' = now + 1 /\ now' <= MaxNow /\ now \in Nat
      /\ UNCHANGED <<users, cards, holdings, transactions, keys, stage, tx, owner>>
  BY LedgerAssumption DEF TxTick, Tick, TypeOK
<1>2. TxShape'
  BY <1>1 DEF TxInv, TxShape
<1>3. \A r \in Requests : Undisturbed(r)
  BY <1>1 DEF Undisturbed, TradesOf, TradeRows
<1>4. \A r \in Requests : ReadsHold(r)'
  BY <1>3, UndisturbedReads DEF TxInv
<1>5. KeyLog' /\ OneRowPerKey' /\ KeysAreFree'
  BY <1>1 DEF TxInv, KeyLog, OneRowPerKey, KeysAreFree, KeyTaken, KeyOf
<1> QED
  BY <1>2, <1>4, <1>5 DEF TxInv

\* A commit, whatever the call: a step of the ledger, and the invariant stays.
LEMMA CommitStep ==
  ASSUME TypeOK, TxInv, NEW r \in Requests, Commit(r)
  PROVE  Next /\ TxInv'
<1>1. /\ AfterCommit(r) \in {"observe", "done"} /\ AfterCommit(r) \in Stages
      /\ AfterCommit(r) = "observe" => Kind(r) = "TRADE"
  BY DEF AfterCommit, Stages, Kind
<1>2. /\ stage[r] = "commit" /\ LogHasRoom /\ CommitWrites(r)
      /\ Release(r, AfterCommit(r)) /\ UNCHANGED <<now, tx>>
  BY DEF Commit
<1>3. /\ stage' \in [Requests -> Stages] /\ stage'[r] = AfterCommit(r)
      /\ owner' \in [LockRows -> Requests \cup {Nobody}]
      /\ OthersKept(r)
  BY <1>1, <1>2, ReleaseFrame DEF TxInv, OthersKept
<1>4. TxShape'
  BY <1>2, <1>3 DEF TxInv, TxShape
<1> QED
  BY <1>1, <1>2, <1>3, <1>4, CommitWritesStep, CommitKeepsInv

\* A commit whose answer is lost is one too.
LEMMA CommitUnseenStep ==
  ASSUME TypeOK, TxInv, NEW r \in Requests, CommitUnseen(r)
  PROVE  Next /\ TxInv'
<1>1. /\ stage[r] = "commit" /\ LogHasRoom /\ CommitWrites(r)
      /\ Return(r, Error("failed")) /\ UNCHANGED now
  BY DEF CommitUnseen
<1>2. TxShape' /\ OthersKept(r) /\ stage'[r] = "done"
  BY <1>1, ReturnFrame DEF TxInv, TypeOK
<1> QED
  BY <1>1, <1>2, CommitWritesStep, CommitKeepsInv

\* Every step of the calls is an operation of the ledger or leaves the ledger
\* alone.
LEMMA TxNextStep ==
  ASSUME TypeOK, TxInv, [TxNext]_txVars
  PROVE  [Next]_vars /\ TxInv'
<1> USE QuietIsStutter
<1>0. now \in Nat
  BY DEF TypeOK
<1>1. CASE TxTick
  BY <1>1, TxTickStep DEF TxTick, Next
<1>2. ASSUME NEW r \in Requests, Step(r) PROVE [Next]_vars /\ TxInv'
  <2>1. CASE LookUpKey(r)
    BY <1>0, <2>1, LookUpKeyStep DEF LookUpKey
  <2>2. CASE Begin(r)
    BY <1>0, <2>2, BeginStep DEF Begin
  <2>3. CASE LockCard(r)
    BY <1>0, <2>3, LockCardStep DEF LockCard
  <2>4. CASE LockUser(r)
    BY <1>0, <2>4, LockUserStep DEF LockUser
  <2>5. CASE ReadHolding(r)
    BY <1>0, <2>5, ReadHoldingStep DEF ReadHolding
  <2>6. CASE InsertCard(r)
    BY <1>0, <2>6, InsertCardStep DEF InsertCard
  <2>7. CASE InsertRow(r)
    BY <1>0, <2>7, InsertRowStep DEF InsertRow
  <2>8. CASE ReadConflict(r)
    BY <1>0, <2>8, ReturnStep DEF ReadConflict
  <2>9. CASE Commit(r)
    BY <2>9, CommitStep
  <2>10. CASE Observe(r)
    BY <1>0, <2>10, ObserveStep DEF Observe
  <2> QED
    BY <1>2, <2>1, <2>2, <2>3, <2>4, <2>5, <2>6, <2>7, <2>8, <2>9, <2>10 DEF Step
<1>3. ASSUME NEW r \in Requests, Fail(r) PROVE [Next]_vars /\ TxInv'
  BY <1>0, <1>3, ReturnStep DEF Fail
<1>4. ASSUME NEW r \in Requests, CommitUnseen(r) PROVE [Next]_vars /\ TxInv'
  BY <1>4, CommitUnseenStep
<1>5. CASE Crash
  BY <1>0, <1>5, CrashStep DEF Crash
<1>6. CASE UNCHANGED txVars
  <2>1. UNCHANGED <<now, db, stage, tx, owner>>
    BY <1>6 DEF txVars
  <2>2. UNCHANGED <<now, users, cards, holdings, transactions, keys, stage, tx, owner>>
    BY <2>1 DEF db
  <2>3. TxShape' /\ KeyLog' /\ OneRowPerKey'
    BY <2>2 DEF TxInv, TxShape, KeyLog, OneRowPerKey
  <2>4. \A r \in Requests : Undisturbed(r)
    BY <2>2 DEF Undisturbed, TradesOf, TradeRows
  <2>5. \A r \in Requests : ReadsHold(r)'
    BY <2>4, UndisturbedReads DEF TxInv
  <2>6. KeysAreFree'
    BY <2>2 DEF TxInv, KeysAreFree, KeyTaken, KeyOf
  <2> QED
    BY <2>1, <2>3, <2>5, <2>6 DEF TxInv
<1> QED
  BY <1>1, <1>2, <1>3, <1>4, <1>5, <1>6 DEF TxNext, Finished

\* The inductive invariant of the interleaved calls, with the ledger's types.
LEMMA TxTypeAndInv == TxSpec => [](TypeOK /\ TxInv)
<1>1. TxInit => TypeOK /\ TxInv
  BY TxInitInv, InitType
<1>2. TypeOK /\ TxInv /\ [TxNext]_txVars => (TypeOK /\ TxInv)'
  BY TxNextStep, StepIsAnySize, NextType
<1> QED
  BY <1>1, <1>2, PTL DEF TxSpec

-----------------------------------------------------------------------------
(* Answers and keys.                                                       *)

\* a names a row of the log with the trade r asked for, under the key of r.
IsAnswerOf(r, a) ==
    /\ a.row \in DOMAIN transactions
    /\ SameTrade(r, transactions[a.row])
    /\ keys[a.row] = KeyOf(r)

\* A trade answered with success is in the log, and one that met a conflict has
\* its key in it.
TradeIsInLog(r) ==
    Kind(r) = "TRADE" =>
        /\ answer[r].says = "ok" => IsAnswerOf(r, answer[r])
        /\ stage[r] = "conflict" => KeyTaken(KeyOf(r))

AnswerInv ==
    /\ answer = [r \in Requests |-> answer[r]]
    /\ \A r \in Requests : TradeIsInLog(r)

\* The log only grows.
LogKept ==
    /\ \A i \in DOMAIN transactions :
          i \in DOMAIN transactions' /\ transactions'[i] = transactions[i]
    /\ \A i \in DOMAIN keys : i \in DOMAIN keys' /\ keys'[i] = keys[i]

\* The key of a trade is the client's.
LEMMA TradeKey ==
  ASSUME NEW r \in Requests, Kind(r) = "TRADE"
  PROVE  KeyOf(r) = <<"client", Ask[r].key>> /\ KeyOf(r)' = KeyOf(r)
  BY DEF KeyOf, Kind

\* A step that writes no row keeps the log.
LEMMA SameLogKept ==
  ASSUME UNCHANGED <<transactions, keys>>
  PROVE  LogKept
  BY DEF LogKept

\* Answers and conflicts of before stay right.
LEMMA AnswerStays ==
  ASSUME KeyLog, LogKept, NEW r \in Requests, TradeIsInLog(r),
         answer'[r] = answer[r],
         stage'[r] = "conflict" => stage[r] = "conflict"
  PROVE  TradeIsInLog(r)'
<1> SUFFICES ASSUME Kind(r) = "TRADE" PROVE TradeIsInLog(r)'
  BY DEF TradeIsInLog, Kind
<1>1. KeyOf(r)' = KeyOf(r)
  BY TradeKey
<1>2. stage'[r] = "conflict" => KeyTaken(KeyOf(r))'
  BY <1>1 DEF TradeIsInLog, KeyTaken, LogKept
<1>3. ASSUME answer'[r].says = "ok" PROVE IsAnswerOf(r, answer[r])'
  <2>1. IsAnswerOf(r, answer[r]) /\ answer[r].row \in DOMAIN keys
    BY <1>3 DEF TradeIsInLog, IsAnswerOf, KeyLog
  <2>2. PICK i \in DOMAIN transactions : i = answer[r].row
    BY <2>1 DEF IsAnswerOf
  <2>3. answer'[r].row = i
    BY <2>2
  <2> QED
    BY <1>1, <2>1, <2>2, <2>3 DEF IsAnswerOf, LogKept, SameTrade
<1> QED
  BY <1>2, <1>3 DEF TradeIsInLog, IsAnswerOf

\* A step of one call, in which its answer and its stage are right.
LEMMA AnswerStep ==
  ASSUME KeyLog, AnswerInv, LogKept, NEW r \in Requests, TradeIsInLog(r)',
         \/ UNCHANGED answer
         \/ \E a : answer' = [answer EXCEPT ![r] = a],
         \A q \in Requests \ {r} : stage'[q] = stage[q]
  PROVE  AnswerInv'
<1>1. /\ answer' = [q \in Requests |-> answer'[q]]
      /\ \A q \in Requests \ {r} : answer'[q] = answer[q]
  BY DEF AnswerInv
<1>2. ASSUME NEW q \in Requests \ {r} PROVE TradeIsInLog(q)'
  BY <1>1, AnswerStays DEF AnswerInv
<1> QED
  BY <1>1, <1>2 DEF AnswerInv

\* The committed row of the key is an answer, if it is of the same trade.
LEMMA ReplayIsAnswer ==
  ASSUME KeyLog, NEW r \in Requests, Kind(r) = "TRADE", KeyTaken(KeyOf(r)),
         Replay(r).says = "ok"
  PROVE  IsAnswerOf(r, Replay(r))
<1> DEFINE i == RowOf(KeyOf(r))
<1>1. i \in DOMAIN keys /\ keys[i] = KeyOf(r)
  BY DEF KeyTaken, RowOf
<1>2. i \in DOMAIN transactions
  BY <1>1 DEF KeyLog
<1> HIDE DEF i
<1>3. Replay(r) = IF SameTrade(r, transactions[i]) THEN Ok(i) ELSE Error("mismatch")
  BY DEF Replay, Kind, i
<1>4. SameTrade(r, transactions[i]) /\ Replay(r) = Ok(i)
  BY <1>3 DEF Error, Ok
<1>5. Replay(r).row = i
  BY <1>4 DEF Ok
<1> QED
  BY <1>1, <1>2, <1>4, <1>5 DEF IsAnswerOf

\* A call returns what is so, and an error is always so.
LEMMA ReturnAnswers ==
  ASSUME KeyLog, AnswerInv, TxShape, now \in Nat, NEW r \in Requests, NEW a, Return(r, a),
         UNCHANGED <<now, db>>,
         Kind(r) = "TRADE" /\ a.says = "ok" => IsAnswerOf(r, a)
  PROVE  AnswerInv'
<1>1. stage'[r] = "done" /\ OthersKept(r)
  BY ReturnFrame
<1>2. UNCHANGED <<transactions, keys>> /\ answer' = [answer EXCEPT ![r] = a]
  BY DEF db, Return
<1>3. answer'[r] = a
  BY <1>2 DEF AnswerInv
<1>4. TradeIsInLog(r)'
  <2> SUFFICES ASSUME Kind(r) = "TRADE", a.says = "ok" PROVE IsAnswerOf(r, a)'
    BY <1>1, <1>3 DEF TradeIsInLog, Kind, IsAnswerOf
  <2>1. KeyOf(r)' = KeyOf(r)
    BY TradeKey
  <2> QED
    BY <1>2, <2>1 DEF IsAnswerOf, SameTrade
<1> QED
  BY <1>1, <1>2, <1>4, SameLogKept, AnswerStep DEF OthersKept

\* An error names no trade.
LEMMA ErrorAnswers ==
  ASSUME KeyLog, AnswerInv, TxShape, now \in Nat, NEW r \in Requests, NEW a, Return(r, a),
         UNCHANGED <<now, db>>, a.says # "ok"
  PROVE  AnswerInv'
  BY ReturnAnswers

\* A replay answers with the row that has the request's key.
LEMMA ReplayAnswers ==
  ASSUME KeyLog, AnswerInv, TxShape, now \in Nat, NEW r \in Requests,
         Return(r, Replay(r)), UNCHANGED <<now, db>>,
         Kind(r) = "TRADE" => KeyTaken(KeyOf(r))
  PROVE  AnswerInv'
<1>1. PICK a : a = Replay(r)
  OBVIOUS
<1>2. Kind(r) = "TRADE" /\ a.says = "ok" => IsAnswerOf(r, a)
  BY <1>1, ReplayIsAnswer
<1> QED
  BY <1>1, <1>2, ReturnAnswers

\* A call that goes on has not answered.
LEMMA GotoAnswers ==
  ASSUME KeyLog, AnswerInv, TxShape, NEW r \in Requests, NEW s, Goto(r, s),
         UNCHANGED <<transactions, keys, answer>>,
         Kind(r) = "TRADE" /\ s = "conflict" => KeyTaken(KeyOf(r))
  PROVE  AnswerInv'
<1>1. stage'[r] = s /\ \A q \in Requests \ {r} : stage'[q] = stage[q]
  BY DEF Goto, TxShape
<1>2. LogKept
  BY SameLogKept
<1>3. TradeIsInLog(r)'
  <2> SUFFICES ASSUME Kind(r) = "TRADE" PROVE TradeIsInLog(r)'
    BY DEF TradeIsInLog, Kind
  <2>1. KeyOf(r)' = KeyOf(r)
    BY TradeKey
  <2> QED
    BY <1>1, <2>1 DEF AnswerInv, TradeIsInLog, KeyTaken, IsAnswerOf, SameTrade
<1> QED
  BY <1>1, <1>2, <1>3, AnswerStep

\* The log after a commit starts with the log before it.
LEMMA CommitKeepsLog ==
  ASSUME TypeOK, KeyLog, NEW r \in Requests, NEW ws, NEW ks, Writes(r, ws, ks)
  PROVE  LogKept
<1>1. /\ transactions \in Seq(TxnRow) /\ keys \in Seq(KeyValues)
      /\ ws \in Seq(TxnRow) /\ transactions' = transactions \o ws
      /\ keys' = keys \o ks
  BY DEF TypeOK, KeyLog, Writes
<1>2. ks \in Seq({KeyOf(r), NoKey})
  <2>1. CASE ks = <<KeyOf(r)>>
    BY <2>1
  <2>2. CASE ks = <<KeyOf(r), NoKey>>
    BY <2>2
  <2> QED
    BY <2>1, <2>2 DEF Writes
<1>3. ASSUME NEW i \in DOMAIN transactions
      PROVE  i \in DOMAIN transactions' /\ transactions'[i] = transactions[i]
  BY <1>1
<1>4. ASSUME NEW i \in DOMAIN keys
      PROVE  i \in DOMAIN keys' /\ keys'[i] = keys[i]
  <2> DEFINE S == KeyValues \cup {KeyOf(r), NoKey}
  <2>1. keys \in Seq(S) /\ ks \in Seq(S)
    BY <1>1, <1>2
  <2> HIDE DEF S
  <2> QED
    BY <1>1, <2>1
<1> QED
  BY <1>3, <1>4 DEF LogKept

\* The answer to a commit is the row the call wrote under its key.
LEMMA CommitAnswers ==
  ASSUME TypeOK, TxInv, AnswerInv, NEW r \in Requests, stage[r] = "commit",
         LogHasRoom, CommitWrites(r), UNCHANGED now,
         \A q \in Requests \ {r} : stage'[q] = stage[q],
         stage'[r] # "conflict",
         \/ answer' = [answer EXCEPT ![r] = NewRow]
         \/ answer' = [answer EXCEPT ![r] = Error("failed")]
  PROVE  AnswerInv'
<1>1. PICK ws, ks : Writes(r, ws, ks)
  BY CommitWritesStep
<1>2. LogKept /\ KeyLog
  BY <1>1, CommitKeepsLog DEF TxInv
<1>3. CASE answer' = [answer EXCEPT ![r] = Error("failed")]
  <2>1. TradeIsInLog(r)'
    <3>1. answer'[r].says = "failed"
      BY <1>3 DEF AnswerInv, Error
    <3> QED
      BY <3>1 DEF TradeIsInLog
  <2> QED
    BY <1>2, <1>3, <2>1, AnswerStep
<1>4. CASE answer' = [answer EXCEPT ![r] = NewRow]
  <2> DEFINE n == Len(transactions) + 1
  <2>1. answer'[r].row = n
    BY <1>4 DEF AnswerInv, NewRow, Ok
  <2>2. ASSUME Kind(r) = "TRADE" PROVE IsAnswerOf(r, answer[r])'
    <3> DEFINE type == Ask[r].type
               m    == Ask[r].shares
               cost == TradeCost(tx[r].card, type, m)
               charge == TradeCharge(tx[r].card, type, m, tx[r].last, tx[r].at)
               trade == Row(r, type, m, -cost, tx[r].user.balance - cost)
               fee   == Row(r, "FEE", 0, cost - charge, tx[r].user.balance - charge)
    <3>1. CommitTrade(r)
      BY <2>2 DEF CommitWrites, Kind
    <3>2. /\ transactions' = transactions \o <<trade, fee>>
          /\ keys' = keys \o <<KeyOf(r), NoKey>>
      BY <3>1 DEF CommitTrade
    <3>3. trade.card = Ask[r].card /\ trade.type = type /\ trade.shares = m
      BY <2>2 DEF Row, Txn, Kind
    <3> HIDE DEF trade, fee
    <3>4. /\ transactions \in Seq(TxnRow) /\ keys \in Seq(KeyValues)
          /\ Len(keys) = Len(transactions)
      BY DEF TypeOK, TxInv, KeyLog
    <3>5. /\ n \in DOMAIN transactions' /\ transactions'[n] = trade
      BY <3>2, <3>4
    <3>6. n \in DOMAIN keys' /\ keys'[n] = KeyOf(r)
      <4> DEFINE S == KeyValues \cup {KeyOf(r), NoKey}
      <4>1. PICK ps \in Seq(S) : ps = keys
        BY <3>4
      <4>2. PICK k \in S, none \in S : k = KeyOf(r) /\ none = NoKey
        OBVIOUS
      <4>3. n = Len(ps) + 1
        BY <3>4, <4>1
      <4> HIDE DEF S, n
      <4>4. keys' = ps \o <<k, none>>
        BY <3>2, <4>1, <4>2
      <4> QED
        BY <4>2, <4>3, <4>4
    <3>7. KeyOf(r)' = KeyOf(r)
      BY <2>2, TradeKey
    <3> HIDE DEF n
    <3>8. SameTrade(r, transactions[answer[r].row])'
      BY <2>1, <3>3, <3>5 DEF SameTrade
    <3> QED
      BY <2>1, <3>5, <3>6, <3>7, <3>8 DEF IsAnswerOf
  <2>3. TradeIsInLog(r)'
    BY <2>2 DEF TradeIsInLog, Kind
  <2> QED
    BY <1>2, <1>4, <2>3, AnswerStep
<1> QED
  BY <1>3, <1>4

\* Every step of the calls leaves right answers.
LEMMA AnswerNextStep ==
  ASSUME TypeOK, TxInv, AnswerInv, [TxNext]_txVars
  PROVE  AnswerInv'
<1>0. now \in Nat /\ KeyLog /\ TxShape
  BY DEF TypeOK, TxInv
<1>1. ASSUME UNCHANGED <<transactions, keys, stage, answer>> PROVE AnswerInv'
  <2>1. ASSUME NEW r \in Requests PROVE TradeIsInLog(r)'
    BY <1>0, <1>1, SameLogKept, AnswerStays DEF AnswerInv
  <2> QED
    BY <1>1, <2>1 DEF AnswerInv
<1>2. ASSUME NEW r \in Requests, Step(r) PROVE AnswerInv'
  <2>0. "ok" \notin {"rejected", "symbol taken"}
    OBVIOUS
  <2>1. CASE LookUpKey(r)
    <3>1. CASE KeyTaken(KeyOf(r))
      BY <1>0, <2>1, <3>1, ReplayAnswers DEF LookUpKey
    <3>2. CASE ~KeyTaken(KeyOf(r))
      BY <1>0, <2>1, <3>2, GotoAnswers DEF LookUpKey, db
    <3> QED
      BY <3>1, <3>2
  <2>2. CASE Begin(r)
    <3>1. FirstLock(r) # "conflict"
      BY DEF FirstLock
    <3> QED
      BY <1>0, <2>2, <3>1, GotoAnswers DEF Begin, db
  <2>3. CASE LockCard(r)
    <3>1. CASE Return(r, Error("rejected"))
      BY <1>0, <2>3, <3>1, ErrorAnswers DEF LockCard, Error
    <3>2. CASE Goto(r, "user") /\ UNCHANGED answer
      BY <1>0, <2>3, <3>2, GotoAnswers DEF LockCard, db
    <3> QED
      BY <2>3, <3>1, <3>2 DEF LockCard
  <2>4. CASE LockUser(r)
    <3>1. CASE Return(r, Declined(r))
      <4>1. Kind(r) = "TRADE" => Declined(r).says # "ok"
        BY DEF Declined, Error, Kind
      <4> QED
        BY <1>0, <2>4, <3>1, <4>1, ReturnAnswers DEF LockUser
    <3>2. CASE Goto(r, AfterUser(r)) /\ UNCHANGED answer
      <4>1. AfterUser(r) # "conflict"
        BY DEF AfterUser
      <4> QED
        BY <1>0, <2>4, <3>2, <4>1, GotoAnswers DEF LockUser, db
    <3> QED
      BY <2>4, <3>1, <3>2 DEF LockUser
  <2>5. CASE ReadHolding(r)
    <3>1. CASE Return(r, Error("rejected"))
      BY <1>0, <2>5, <3>1, ErrorAnswers DEF ReadHolding, Error
    <3>2. CASE Goto(r, "insert") /\ UNCHANGED answer
      BY <1>0, <2>5, <3>2, GotoAnswers DEF ReadHolding, db
    <3> QED
      BY <2>5, <3>1, <3>2 DEF ReadHolding
  <2>6. CASE InsertCard(r)
    <3>1. CASE Return(r, Error("symbol taken"))
      BY <1>0, <2>6, <3>1, ErrorAnswers DEF InsertCard, Error
    <3>2. CASE Goto(r, "insert") /\ UNCHANGED answer
      BY <1>0, <2>6, <3>2, GotoAnswers DEF InsertCard, db
    <3> QED
      BY <2>6, <3>1, <3>2 DEF InsertCard
  <2>7. CASE InsertRow(r)
    <3>1. CASE ~KeyTaken(KeyOf(r))
      BY <1>0, <2>7, <3>1, GotoAnswers DEF InsertRow, db
    <3>2. CASE KeyTaken(KeyOf(r)) /\ Kind(r) \in {"TRADE", "LAUNCH"}
      BY <1>0, <2>7, <3>2, GotoAnswers DEF InsertRow, Release, db, Kind
    <3>3. CASE KeyTaken(KeyOf(r)) /\ Kind(r) \notin {"TRADE", "LAUNCH"}
      BY <1>0, <2>7, <3>3, ReturnAnswers DEF InsertRow, Kind
    <3> QED
      BY <3>1, <3>2, <3>3
  <2>8. CASE ReadConflict(r)
    <3>1. Kind(r) = "TRADE" => KeyTaken(KeyOf(r))
      BY <2>8 DEF ReadConflict, AnswerInv, TradeIsInLog
    <3> QED
      BY <1>0, <2>8, <3>1, ReplayAnswers DEF ReadConflict
  <2>9. CASE Commit(r)
    <3>1. AfterCommit(r) # "conflict" /\ AfterCommit(r) \in Stages
      BY DEF AfterCommit, Stages
    <3>2. stage'[r] = AfterCommit(r) /\ \A q \in Requests \ {r} : stage'[q] = stage[q]
      BY <1>0, <2>9, <3>1, ReleaseFrame DEF Commit
    <3> QED
      BY <2>9, <3>1, <3>2, CommitAnswers DEF Commit
  <2>10. CASE Observe(r)
    BY <1>0, <2>10, GotoAnswers DEF Observe, db
  <2> QED
    BY <1>2, <2>1, <2>2, <2>3, <2>4, <2>5, <2>6, <2>7, <2>8, <2>9, <2>10 DEF Step
<1>3. ASSUME NEW r \in Requests, Fail(r) PROVE AnswerInv'
  BY <1>0, <1>3, ErrorAnswers DEF Fail, Error
<1>4. ASSUME NEW r \in Requests, CommitUnseen(r) PROVE AnswerInv'
  <2>1. stage'[r] = "done" /\ OthersKept(r)
    BY <1>0, <1>4, ReturnFrame DEF CommitUnseen
  <2> QED
    BY <1>4, <2>1, CommitAnswers DEF CommitUnseen, Return, OthersKept
<1>5. CASE Crash
  <2>1. /\ UNCHANGED <<transactions, keys>>
        /\ \A r \in Requests : \/ answer'[r] = answer[r] /\ stage'[r] = stage[r]
                               \/ answer'[r].says = "failed" /\ stage'[r] = "done"
        /\ answer' = [r \in Requests |-> answer'[r]]
    BY <1>5 DEF Crash, Error, db
  <2>2. ASSUME NEW r \in Requests PROVE TradeIsInLog(r)'
    <3>1. CASE answer'[r] = answer[r] /\ stage'[r] = stage[r]
      BY <1>0, <2>1, <3>1, SameLogKept, AnswerStays DEF AnswerInv
    <3>2. CASE answer'[r].says = "failed" /\ stage'[r] = "done"
      BY <3>2 DEF TradeIsInLog
    <3> QED
      BY <2>1, <3>1, <3>2
  <2> QED
    BY <2>1, <2>2 DEF AnswerInv
<1>6. CASE TxTick
  BY <1>1, <1>6 DEF TxTick, Tick
<1>7. CASE UNCHANGED txVars
  BY <1>1, <1>7 DEF txVars, db
<1> QED
  BY <1>2, <1>3, <1>4, <1>5, <1>6, <1>7 DEF TxNext, Finished

\* Nothing is answered initially.
LEMMA AnswerInitInv == TxInit => AnswerInv
  BY DEF TxInit, AnswerInv, TradeIsInLog, NoAnswer, FirstStage

-----------------------------------------------------------------------------
(* Events and ticks.                                                       *)

\* The event of a trade that r has committed and not yet handed over.
EventOf(r) ==
    LET card == tx[r].card
    IN  [card |-> Ask[r].card,
         price |-> CardAfterTrade(card, Ask[r].user, Ask[r].type, Ask[r].shares,
                                  tx[r].at).price,
         previous |-> card.price, volume |-> Ask[r].shares,
         type |-> Ask[r].type, at |-> tx[r].at]

Traded == {events[i] : i \in DOMAIN events}

Places(s, e)  == {i \in DOMAIN s : s[i] = e}
CountOf(s, e) == Cardinality(Places(s, e))
Unpushed(e)   == {r \in Requests : stage[r] = "observe" /\ EventOf(r) = e}

\* Of the trades with event e, those pushed and those about to be are as many
\* as committed, but for the failures.
IsBooked(e) ==
    LET pushed == CountOf(ticks, e) + Cardinality(Unpushed(e))
    IN  /\ IsFiniteSet(Unpushed(e))
        /\ pushed <= CountOf(events, e)
        /\ failures = 0 => pushed = CountOf(events, e)

PushInv ==
    /\ failures \in Nat
    /\ events \in Seq(Traded) /\ ticks \in Seq(Traded)
    /\ \A r \in Requests : stage[r] = "observe" => EventOf(r) \in Traded
    /\ \A e \in Traded : IsBooked(e)

\* How often an element is in a sequence is a number.
LEMMA CountType ==
  ASSUME NEW S, NEW s \in Seq(S), NEW e
  PROVE  IsFiniteSet(Places(s, e)) /\ CountOf(s, e) \in Nat
<1>1. Places(s, e) \in SUBSET (1..Len(s)) /\ Len(s) \in Nat
  BY DEF Places
<1>2. IsFiniteSet(1..Len(s))
  BY <1>1, FS_Interval
<1>3. IsFiniteSet(Places(s, e))
  BY <1>1, <1>2, FS_Subset
<1> QED
  BY <1>3, FS_CardinalityType DEF CountOf

\* One more entry counts once.
LEMMA CountAppend ==
  ASSUME NEW S, NEW s \in Seq(S), NEW x \in S, NEW e
  PROVE  CountOf(Append(s, x), e) = IF x = e THEN CountOf(s, e) + 1 ELSE CountOf(s, e)
<1>1. PICK t : t = Append(s, x)
  OBVIOUS
<1>2. PICK n \in Nat : n = Len(s)
  OBVIOUS
<1>3. /\ DOMAIN t = 1..(n + 1) /\ DOMAIN s = 1..n
      /\ t[n + 1] = x /\ \A i \in 1..n : t[i] = s[i]
  BY <1>1, <1>2
<1>4. n + 1 \notin Places(s, e)
  BY <1>3 DEF Places
<1>5. CASE x = e
  <2>1. Places(t, e) = Places(s, e) \cup {n + 1}
    BY <1>3, <1>5 DEF Places
  <2>2. Cardinality(Places(s, e) \cup {n + 1}) = Cardinality(Places(s, e)) + 1
    BY <1>4, CountType, FS_AddElement
  <2> QED
    BY <1>1, <1>5, <2>1, <2>2 DEF CountOf
<1>6. CASE x # e
  <2>1. Places(t, e) = Places(s, e)
    BY <1>3, <1>6 DEF Places
  <2> QED
    BY <1>1, <1>6, <2>1 DEF CountOf
<1> QED
  BY <1>5, <1>6

\* What has not been traded has not been pushed either.
LEMMA EveryEventBooked ==
  ASSUME PushInv, NEW e
  PROVE  IsBooked(e) /\ CountOf(ticks, e) \in Nat /\ CountOf(events, e) \in Nat
         /\ Cardinality(Unpushed(e)) \in Nat
<1>1. CountOf(ticks, e) \in Nat /\ CountOf(events, e) \in Nat
  BY CountType DEF PushInv
<1>2. IsBooked(e)
  <2>1. CASE e \notin Traded
    <3>1. Places(ticks, e) = {} /\ Places(events, e) = {} /\ Unpushed(e) = {}
      <4>1. /\ \A i \in DOMAIN ticks : ticks[i] \in Traded
            /\ \A i \in DOMAIN events : events[i] \in Traded
        BY DEF PushInv
      <4> QED
        BY <2>1, <4>1 DEF PushInv, Places, Unpushed
    <3> QED
      BY <3>1, FS_EmptySet DEF IsBooked, CountOf
  <2> QED
    BY <2>1 DEF PushInv
<1>3. Cardinality(Unpushed(e)) \in Nat
  BY <1>2, FS_CardinalityType DEF IsBooked
<1> QED
  BY <1>1, <1>2, <1>3

\* A step that neither commits a trade nor hands an event over.
LEMMA PushStays ==
  ASSUME PushInv, UNCHANGED <<events, ticks>>, failures' \in Nat,
         failures' = 0 => failures = 0,
         \A r \in Requests : stage'[r] = "observe" <=> stage[r] = "observe",
         \A r \in Requests : stage[r] = "observe" => tx'[r] = tx[r]
  PROVE  PushInv'
<1>1. \A r \in Requests : stage[r] = "observe" => EventOf(r)' = EventOf(r)
  BY DEF EventOf
<1>2. Traded' = Traded
  BY DEF Traded
<1>3. \A e : Unpushed(e)' = Unpushed(e)
  BY <1>1 DEF Unpushed
<1>4. ASSUME NEW e \in Traded PROVE IsBooked(e)'
  BY <1>3 DEF PushInv, IsBooked
<1> QED
  BY <1>1, <1>2, <1>4 DEF PushInv

\* One more trade is committed.
LEMMA TradedAppend ==
  ASSUME PushInv, NEW x, events' = Append(events, x)
  PROVE  /\ Traded' = Traded \cup {x} /\ events' \in Seq(Traded')
         /\ ticks \in Seq(Traded')
         /\ \A e : CountOf(events, e)' = IF x = e THEN CountOf(events, e) + 1
                                         ELSE CountOf(events, e)
<1> DEFINE S == Traded \cup {x}
<1>1. /\ \A i \in DOMAIN events : events[i] \in Traded
      /\ events \in Seq(Traded) /\ ticks \in Seq(Traded) /\ x \in S /\ Traded \subseteq S
  BY DEF PushInv
<1>2. Traded' = S
  <2>1. PICK n \in Nat : n = Len(events)
    BY <1>1
  <2>2. /\ DOMAIN events = 1..n /\ DOMAIN events' = 1..(n + 1)
        /\ events'[n + 1] = x /\ \A i \in 1..n : events'[i] = events[i]
    BY <1>1, <2>1
  <2> QED
    BY <2>2 DEF Traded
<1> HIDE DEF S
<1>3. events \in Seq(S) /\ ticks \in Seq(S)
  BY <1>1
<1>4. ASSUME NEW e
      PROVE  CountOf(events, e)' = IF x = e THEN CountOf(events, e) + 1
                                   ELSE CountOf(events, e)
  BY <1>1, <1>3, CountAppend DEF CountOf
<1>5. Append(events, x) \in Seq(S)
  BY <1>1, <1>3
<1> QED
  BY <1>2, <1>3, <1>4, <1>5 DEF S

\* A trade that commits is left to be pushed.
LEMMA TradePush ==
  ASSUME PushInv, NEW r \in Requests, stage[r] = "commit", stage'[r] = "observe",
         \A q \in Requests \ {r} : stage'[q] = stage[q],
         UNCHANGED <<tx, ticks, failures>>, events' = Append(events, EventOf(r))
  PROVE  PushInv'
<1>1. PICK x : x = EventOf(r)
  OBVIOUS
<1>2. \A q : EventOf(q)' = EventOf(q)
  BY DEF EventOf
<1>3. /\ Traded' = Traded \cup {x} /\ events' \in Seq(Traded')
      /\ ticks \in Seq(Traded')
      /\ \A e : CountOf(events, e)' = IF x = e THEN CountOf(events, e) + 1
                                      ELSE CountOf(events, e)
  BY <1>1, TradedAppend
<1>4. r \notin Unpushed(x)
  BY DEF Unpushed
<1>5. Unpushed(x)' = Unpushed(x) \cup {r}
  BY <1>1, <1>2 DEF Unpushed
<1>6. \A e : e # x => Unpushed(e)' = Unpushed(e)
  BY <1>1, <1>2 DEF Unpushed
<1>7. IsBooked(x)'
  <2>1. /\ IsFiniteSet(Unpushed(x))'
        /\ Cardinality(Unpushed(x))' = Cardinality(Unpushed(x)) + 1
    BY <1>4, <1>5, EveryEventBooked, FS_AddElement DEF IsBooked
  <2>2. /\ CountOf(events, x)' = CountOf(events, x) + 1
        /\ CountOf(ticks, x)' = CountOf(ticks, x)
    BY <1>3 DEF CountOf
  <2> HIDE DEF CountOf
  <2> QED
    BY <2>1, <2>2, EveryEventBooked DEF IsBooked
<1>8. ASSUME NEW e, e # x PROVE IsBooked(e)'
  <2>1. CountOf(events, e)' = CountOf(events, e) /\ CountOf(ticks, e)' = CountOf(ticks, e)
    BY <1>3, <1>8 DEF CountOf
  <2> QED
    BY <1>6, <1>8, <2>1, EveryEventBooked DEF IsBooked
<1>9. \A q \in Requests : stage'[q] = "observe" => EventOf(q)' \in Traded'
  BY <1>1, <1>2, <1>3 DEF PushInv
<1> QED
  BY <1>3, <1>7, <1>8, <1>9 DEF PushInv

\* A trade whose commit nobody saw is never pushed.
LEMMA LostPush ==
  ASSUME PushInv, NEW r \in Requests, stage[r] = "commit", stage'[r] = "done",
         \A q \in Requests \ {r} : stage'[q] = stage[q] /\ tx'[q] = tx[q],
         UNCHANGED ticks, failures' \in Nat \ {0},
         NEW x, events' = Append(events, x)
  PROVE  PushInv'
<1>1. /\ Traded' = Traded \cup {x} /\ events' \in Seq(Traded')
      /\ ticks \in Seq(Traded')
      /\ \A e : CountOf(events, e)' = IF x = e THEN CountOf(events, e) + 1
                                      ELSE CountOf(events, e)
  BY TradedAppend
<1>2. \A q \in Requests : stage'[q] = "observe" =>
          stage[q] = "observe" /\ EventOf(q)' = EventOf(q)
  BY DEF EventOf
<1>3. \A e : Unpushed(e)' = Unpushed(e)
  BY <1>2 DEF Unpushed, EventOf
<1>4. ASSUME NEW e PROVE IsBooked(e)'
  <2>1. CountOf(ticks, e)' = CountOf(ticks, e)
    BY DEF CountOf
  <2>2. CountOf(events, e)' \in Nat /\ CountOf(events, e)' >= CountOf(events, e)
    <3>1. CASE x = e
      BY <1>1, <3>1, EveryEventBooked
    <3>2. CASE x # e
      BY <1>1, <3>2, EveryEventBooked
    <3> QED
      BY <3>1, <3>2
  <2>3. failures' # 0
    OBVIOUS
  <2> QED
    BY <1>3, <2>1, <2>2, <2>3, EveryEventBooked DEF IsBooked
<1> QED
  BY <1>1, <1>2, <1>4 DEF PushInv

\* The observer gets the event: one tick more, one trade less to be pushed.
LEMMA ObservePush ==
  ASSUME PushInv, TxShape, NEW r \in Requests, Observe(r)
  PROVE  PushInv'
<1>1. PICK x : x = EventOf(r)
  OBVIOUS
<1>2. /\ stage[r] = "observe" /\ stage'[r] = "done"
      /\ \A q \in Requests \ {r} : stage'[q] = stage[q]
      /\ UNCHANGED <<tx, events, failures>>
      /\ ticks' = Append(ticks, x)
  BY <1>1 DEF Observe, EventOf, Goto, TxShape, db
<1>3. x \in Traded /\ ticks \in Seq(Traded) /\ Traded' = Traded
  BY <1>1, <1>2 DEF PushInv, Traded
<1>4. \A q : EventOf(q)' = EventOf(q)
  BY <1>2 DEF EventOf
<1>5. /\ \A e : CountOf(ticks, e)' = IF x = e THEN CountOf(ticks, e) + 1
                                     ELSE CountOf(ticks, e)
      /\ \A e : CountOf(events, e)' = CountOf(events, e)
  BY <1>2, <1>3, CountAppend DEF CountOf
<1>6. r \in Unpushed(x) /\ Unpushed(x)' = Unpushed(x) \ {r}
  BY <1>1, <1>2, <1>4 DEF Unpushed
<1>7. \A e : e # x => Unpushed(e)' = Unpushed(e)
  BY <1>1, <1>2, <1>4 DEF Unpushed
<1>8. IsBooked(x)'
  <2>1. /\ IsFiniteSet(Unpushed(x))'
        /\ Cardinality(Unpushed(x))' = Cardinality(Unpushed(x)) - 1
    BY <1>6, EveryEventBooked, FS_RemoveElement DEF IsBooked
  <2> QED
    BY <1>2, <1>5, <2>1, EveryEventBooked DEF IsBooked
<1>9. ASSUME NEW e, e # x PROVE IsBooked(e)'
  BY <1>2, <1>5, <1>7, <1>9, EveryEventBooked DEF IsBooked
<1>10. ticks' \in Seq(Traded)
  BY <1>2, <1>3
<1>11. \A q \in Requests : stage'[q] = "observe" => EventOf(q)' \in Traded
  BY <1>2, <1>4 DEF PushInv
<1> QED
  BY <1>2, <1>3, <1>8, <1>9, <1>10, <1>11 DEF PushInv

\* A crash takes what was to be pushed with it.
LEMMA CrashPush ==
  ASSUME PushInv, Crash
  PROVE  PushInv'
<1>1. /\ \A r \in Requests : stage'[r] # "observe"
      /\ UNCHANGED <<events, ticks>> /\ failures' \in Nat \ {0}
  BY DEF Crash, MayFail, FirstStage, PushInv, db
<1>2. Traded' = Traded
  BY <1>1 DEF Traded
<1>3. ASSUME NEW e PROVE IsBooked(e)'
  <2>1. Unpushed(e)' = {}
    BY <1>1 DEF Unpushed
  <2>2. CountOf(ticks, e)' = CountOf(ticks, e) /\ CountOf(events, e)' = CountOf(events, e)
    BY <1>1 DEF CountOf
  <2>3. CountOf(ticks, e) <= CountOf(events, e)
    BY EveryEventBooked DEF IsBooked
  <2>4. IsFiniteSet({}) /\ Cardinality({}) = 0
    BY FS_EmptySet
  <2> QED
    BY <1>1, <2>1, <2>2, <2>3, <2>4, EveryEventBooked DEF IsBooked
<1> QED
  BY <1>1, <1>2, <1>3 DEF PushInv

\* Calls that do not commit have nothing to push.
LEMMA GotoPush ==
  ASSUME PushInv, TxShape, NEW r \in Requests, NEW s, Goto(r, s), s # "observe",
         stage[r] # "observe", UNCHANGED <<events, ticks, failures>>,
         \A q \in Requests \ {r} : tx'[q] = tx[q]
  PROVE  PushInv'
<1>1. \A q \in Requests : stage'[q] = "observe" <=> stage[q] = "observe"
  BY DEF Goto, TxShape
<1> QED
  BY <1>1, PushStays DEF PushInv

\* A request that owes no tick is answered.
LEMMA ReturnPush ==
  ASSUME PushInv, TxShape, NEW r \in Requests, NEW a, Return(r, a), stage[r] # "observe",
         UNCHANGED <<events, ticks>>, failures' \in Nat, failures' = 0 => failures = 0
  PROVE  PushInv'
<1>1. Goto(r, "done") /\ tx' = [tx EXCEPT ![r] = NoTx]
  BY DEF Return, Release
<1>2. \A q \in Requests : stage'[q] = "observe" <=> stage[q] = "observe"
  BY <1>1 DEF Goto, TxShape
<1>3. \A q \in Requests : stage[q] = "observe" => tx'[q] = tx[q]
  BY <1>1 DEF TxShape
<1> QED
  BY <1>2, <1>3, PushStays

\* What is committed of a trade is its event.
LEMMA CommitEvent ==
  ASSUME NEW r \in Requests, CommitWrites(r)
  PROVE  /\ Kind(r) = "TRADE" => events' = Append(events, EventOf(r))
         /\ Kind(r) # "TRADE" => events' = events
<1>1. CASE Kind(r) = "TRADE"
  <2>1. CommitTrade(r)
    BY <1>1 DEF CommitWrites, Kind
  <2> QED
    BY <1>1, <2>1 DEF CommitTrade, EventOf
<1>2. CASE Kind(r) = "LAUNCH"
  <2>1. CommitLaunch(r)
    BY <1>2 DEF CommitWrites, Kind
  <2> QED
    BY <1>2, <2>1 DEF CommitLaunch
<1>3. CASE Kind(r) = "REWARD"
  <2>1. CommitReward(r)
    BY <1>3 DEF CommitWrites, Kind
  <2> QED
    BY <1>3, <2>1 DEF CommitReward
<1>4. CASE Kind(r) = "REBALANCE"
  <2>1. CommitRebalance(r)
    BY <1>4 DEF CommitWrites, Kind
  <2> QED
    BY <1>4, <2>1 DEF CommitRebalance
<1> QED
  BY <1>1, <1>2, <1>3, <1>4, AskTypes DEF Kinds

\* A commit adds the request to the ticks that are due.
LEMMA CommitPush ==
  ASSUME PushInv, TxShape, NEW r \in Requests, Commit(r)
  PROVE  PushInv'
<1>1. /\ stage[r] = "commit" /\ CommitWrites(r) /\ Goto(r, AfterCommit(r))
      /\ UNCHANGED <<ticks, tx, failures>>
  BY DEF Commit, Release
<1>2. CASE Kind(r) = "TRADE"
  <2>1. stage'[r] = "observe" /\ \A q \in Requests \ {r} : stage'[q] = stage[q]
    BY <1>1, <1>2 DEF AfterCommit, Kind, Goto, TxShape
  <2> QED
    BY <1>1, <1>2, <2>1, CommitEvent, TradePush
<1>3. CASE Kind(r) # "TRADE"
  <2>1. AfterCommit(r) # "observe"
    BY <1>3 DEF AfterCommit, Kind
  <2> QED
    BY <1>1, <1>3, <2>1, CommitEvent, GotoPush
<1> QED
  BY <1>2, <1>3

\* A commit whose answer is lost is a failure: its tick is never due.
LEMMA CommitUnseenPush ==
  ASSUME PushInv, TxShape, NEW r \in Requests, CommitUnseen(r)
  PROVE  PushInv'
<1>1. /\ stage[r] = "commit" /\ CommitWrites(r) /\ Return(r, Error("failed"))
      /\ UNCHANGED ticks /\ failures' \in Nat \ {0}
  BY DEF CommitUnseen, MayFail, PushInv
<1>2. CASE Kind(r) = "TRADE"
  <2>1. /\ stage'[r] = "done"
        /\ \A q \in Requests \ {r} : stage'[q] = stage[q] /\ tx'[q] = tx[q]
    BY <1>1 DEF Return, Release, Goto, TxShape
  <2> QED
    BY <1>1, <1>2, <2>1, CommitEvent, LostPush
<1>3. CASE Kind(r) # "TRADE"
  BY <1>1, <1>3, CommitEvent, ReturnPush
<1> QED
  BY <1>2, <1>3

\* Every step of the calls keeps the books.
LEMMA PushNextStep ==
  ASSUME TxInv, PushInv, [TxNext]_txVars
  PROVE  PushInv'
<1>0. TxShape /\ failures \in Nat
  BY DEF TxInv, PushInv
<1>1. ASSUME NEW r \in Requests, Step(r) PROVE PushInv'
  <2>1. CASE LookUpKey(r)
    BY <1>0, <2>1, GotoPush, ReturnPush DEF LookUpKey, db
  <2>2. CASE Begin(r)
    <3>1. FirstLock(r) # "observe" /\ \A q \in Requests \ {r} : tx'[q] = tx[q]
      BY <2>2 DEF FirstLock, Begin
    <3> QED
      BY <1>0, <2>2, <3>1, GotoPush DEF Begin, db
  <2>3. CASE LockCard(r)
    <3>1. CASE Return(r, Error("rejected"))
      BY <1>0, <2>3, <3>1, ReturnPush DEF LockCard, db
    <3>2. CASE Goto(r, "user") /\ tx' = [tx EXCEPT ![r].card = cards[Ask[r].card]]
      BY <1>0, <2>3, <3>2, GotoPush DEF LockCard, db
    <3> QED
      BY <2>3, <3>1, <3>2 DEF LockCard
  <2>4. CASE LockUser(r)
    <3>1. CASE Return(r, Declined(r))
      BY <1>0, <2>4, <3>1, ReturnPush DEF LockUser, db
    <3>2. CASE Goto(r, AfterUser(r)) /\ tx' = [tx EXCEPT ![r].user = users[Ask[r].user]]
      <4>1. AfterUser(r) # "observe"
        BY DEF AfterUser
      <4> QED
        BY <1>0, <2>4, <3>2, <4>1, GotoPush DEF LockUser, db
    <3> QED
      BY <2>4, <3>1, <3>2 DEF LockUser
  <2>5. CASE ReadHolding(r)
    <3>1. CASE Return(r, Error("rejected"))
      BY <1>0, <2>5, <3>1, ReturnPush DEF ReadHolding, db
    <3>2. CASE Goto(r, "insert") /\ \E row : tx' = [tx EXCEPT ![r] = row]
      BY <1>0, <2>5, <3>2, GotoPush DEF ReadHolding, db
    <3> QED
      BY <2>5, <3>1, <3>2 DEF ReadHolding
  <2>6. CASE InsertCard(r)
    BY <1>0, <2>6, GotoPush, ReturnPush DEF InsertCard, db
  <2>7. CASE InsertRow(r)
    BY <1>0, <2>7, GotoPush, ReturnPush DEF InsertRow, Release, db
  <2>8. CASE ReadConflict(r)
    BY <1>0, <2>8, ReturnPush DEF ReadConflict, db
  <2>9. CASE Commit(r)
    BY <1>0, <2>9, CommitPush
  <2>10. CASE Observe(r)
    BY <1>0, <2>10, ObservePush
  <2> QED
    BY <1>1, <2>1, <2>2, <2>3, <2>4, <2>5, <2>6, <2>7, <2>8, <2>9, <2>10 DEF Step
<1>2. ASSUME NEW r \in Requests, Fail(r) PROVE PushInv'
  <2>1. failures' \in Nat /\ (failures' = 0 => failures = 0)
    BY <1>0, <1>2 DEF Fail, MayFail
  <2> QED
    BY <1>0, <1>2, <2>1, ReturnPush DEF Fail, db
<1>3. ASSUME NEW r \in Requests, CommitUnseen(r) PROVE PushInv'
  BY <1>0, <1>3, CommitUnseenPush
<1>4. CASE Crash
  BY <1>4, CrashPush
<1>5. CASE TxTick
  BY <1>0, <1>5, PushStays DEF TxTick, Tick
<1>6. CASE UNCHANGED txVars
  BY <1>0, <1>6, PushStays DEF txVars, db
<1> QED
  BY <1>1, <1>2, <1>3, <1>4, <1>5, <1>6 DEF TxNext, Finished

\* No tick is due initially.
LEMMA PushInitInv == TxInit => PushInv
<1> SUFFICES ASSUME TxInit PROVE PushInv
  OBVIOUS
<1>1. /\ events = <<>> /\ ticks = <<>> /\ failures = 0
      /\ \A r \in Requests : stage[r] # "observe"
  BY DEF TxInit, Init, FirstStage
<1>2. Traded = {}
  BY <1>1 DEF Traded
<1> QED
  BY <1>1, <1>2 DEF PushInv

-----------------------------------------------------------------------------
(* The theorems.                                                           *)

\* The interleaved transactions of ExecuteTrade, LaunchCard, GrantDailyReward
\* and RebalanceBotBalance are serialised by their locks and unique keys in the
\* order of their commits, whatever fails in between.
THEOREM CallsImplementLedger == TxSpec => ImplementsLedger
<1>1. TxInit => Init
  BY TxInitInv
<1>2. TypeOK /\ TxInv /\ [TxNext]_txVars => [Next]_vars
  BY TxNextStep
<1> QED
  BY <1>1, <1>2, TxTypeAndInv, PTL DEF TxSpec, ImplementsLedger, Spec

\* An idempotency key is good for one row of the log, whichever calls race for it.
THEOREM KeysAreUnique == TxSpec => []OneRowPerKey
<1>1. TxInv => OneRowPerKey
  BY DEF TxInv
<1> QED
  BY <1>1, TxTypeAndInv, PTL

\* What is proved of the ledger holds of the committed state at every moment of
\* the interleaved calls: no money from nothing, prices on their curves, and the
\* unvested shares of every creator in place.
THEOREM CallsKeepLedgerSafe ==
  TxSpec => [](TypeOK /\ PriceIsSpot /\ PriceWithinBand /\ CreatorHoldsUnvested /\ NoFreeLunch)
<1> QED
  BY CallsImplementLedger, TypeCorrect, PricesCorrect, VestingCorrect, NoFreeLunchEver, PTL
     DEF ImplementsLedger

\* What is committed adds up at every moment of the interleaved calls, whatever
\* fails in between.
THEOREM CallsKeepBooks ==
  TxSpec => [](BalancesReconcile /\ SharesConserved /\ CostBasisTracksSpending)
<1> QED
  BY CallsImplementLedger, BooksAreKept, SharesAreKept, CostBasisIsTrue, PTL
     DEF ImplementsLedger

\* A success is reported of a trade that is in the log.
THEOREM TradeAnswersAreTrades == TxSpec => []TradeAnswerIsTrade
<1>1. AnswerInv => TradeAnswerIsTrade
  BY DEF AnswerInv, TradeIsInLog, IsAnswerOf, SameTrade, TradeAnswerIsTrade, Kind
<1>2. TypeOK /\ TxInv /\ AnswerInv /\ [TxNext]_txVars => AnswerInv'
  BY AnswerNextStep
<1> QED
  BY <1>1, <1>2, AnswerInitInv, TxTypeAndInv, PTL DEF TxSpec

\* Every committed trade is pushed once, replays push nothing, and as long as
\* nothing fails the push follows.
THEOREM TicksAreTrades == TxSpec => []TicksMatchCommits
<1>1. ASSUME PushInv PROVE TicksMatchCommits
  <2>1. \A i \in DOMAIN ticks : ticks[i] \in Traded
    BY <1>1 DEF PushInv
  <2>2. ASSUME NEW e \in Traded
        PROVE  /\ CountOf(ticks, e) <= CountOf(events, e)
               /\ (\A r \in Requests : stage[r] = "done") /\ failures = 0
                     => CountOf(ticks, e) = CountOf(events, e)
    <3>1. (\A r \in Requests : stage[r] = "done") => Cardinality(Unpushed(e)) = 0
      <4>1. (\A r \in Requests : stage[r] = "done") => Unpushed(e) = {}
        BY DEF Unpushed
      <4> QED
        BY <4>1, FS_EmptySet
    <3> QED
      BY <1>1, <3>1, EveryEventBooked DEF IsBooked
  <2> QED
    BY <2>1, <2>2 DEF TicksMatchCommits, Traded, CountOf, Places
<1>2. TxInv /\ PushInv /\ [TxNext]_txVars => PushInv'
  BY PushNextStep
<1> QED
  BY <1>1, <1>2, PushInitInv, TxTypeAndInv, PTL DEF TxSpec
=============================================================================
