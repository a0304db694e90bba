----------------------------- MODULE QuestBook -----------------------------
(***************************************************************************)
(* What the daily quests promise, without rows, locks, transactions, jobs  *)
(* or resets: every day each user stands at nothing on every quest; what   *)
(* the user does advances a quest until its target is reached; reaching it *)
(* completes the quest and is paid, once for the day.  A payment that was  *)
(* under way at midnight may arrive on a later day, and is then for the    *)
(* day it was earned on.  Module Quests implements it.                     *)
(***************************************************************************)
EXTENDS Integers

CONSTANTS Users, Quests,
          Target      \* Target[q] > 0: what completes quest q

VARIABLES
    day,
    standing,   \* standing[u][q]: [progress, completed], as it is today
    paid,       \* the days of quests that have been paid: [user, quest, day]
    payments    \* how many payments there were

vars == <<day, standing, paid, payments>>

Fresh == [progress |-> 0, completed |-> FALSE]

Init ==
    /\ day = 0
    /\ standing = [u \in Users |-> [q \in Quests |-> Fresh]]
    /\ paid = {}
    /\ payments = 0

Pay(u, q, d) ==
    LET payment == [user |-> u, quest |-> q, day |-> d]
    IN  /\ payment \notin paid
        /\ paid' = paid \cup {payment}
        /\ payments' = payments + 1

\* The user does something that counts, short of the target or reaching it.
Advance(u, q) ==
    LET next == standing[u][q].progress + 1
    IN  /\ ~standing[u][q].completed
        /\ standing' = [standing EXCEPT ![u][q] =
                           [progress |-> next, completed |-> next = Target[q]]]
        /\ IF next = Target[q] THEN Pay(u, q, day) ELSE UNCHANGED <<paid, payments>>
        /\ UNCHANGED day

\* A payment of a day that is over.
PayLate(u, q, d) ==
    /\ d < day
    /\ Pay(u, q, d)
    /\ UNCHANGED <<day, standing>>

NewDay ==
    /\ day' = day + 1
    /\ standing' = [u \in Users |-> [q \in Quests |-> Fresh]]
    /\ UNCHANGED <<paid, payments>>

Next ==
    \/ NewDay
    \/ \E u \in Users, q \in Quests :
          Advance(u, q) \/ \E d \in 0..day : PayLate(u, q, d)

Spec == Init /\ [][Next]_vars
=============================================================================
