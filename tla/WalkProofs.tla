----------------------------- MODULE WalkProofs -----------------------------
(***************************************************************************)
(* Proofs about module Walk: rounding neither adds up along the way nor    *)
(* pays for a round trip, on any curve and for any number of trades.       *)
(***************************************************************************)
EXTENDS Walk, TLAPS

-----------------------------------------------------------------------------
(* Arithmetic.                                                             *)

\* Rounding hundredths moves a value by at most half a unit.
LEMMA RoundingMovesHalf ==
  ASSUME NEW a \in Int
  PROVE  /\ RoundDiv(a, 100) \in Int
         /\ 200 * RoundDiv(a, 100) >= 2 * a - 100
         /\ 200 * RoundDiv(a, 100) <= 2 * a + 100
  BY DEF RoundDiv

\* What a leg costs is the area below it, up to half a unit.
LEMMA CostIsArea ==
  ASSUME NEW k \in Curves, NEW s \in 0..MaxSupply, NEW e \in 0..MaxSupply
  PROVE  /\ Area[k][s] \in Int /\ Area[k][e] \in Int
         /\ ExecutionCost(k, s, e) \in Int
         /\ 200 * ExecutionCost(k, s, e) >= 2 * (Area[k][e] - Area[k][s]) - 100
         /\ 200 * ExecutionCost(k, s, e) <= 2 * (Area[k][e] - Area[k][s]) + 100
<1>1. Area[k][s] \in Int /\ Area[k][e] \in Int
  BY PricingAssumption
<1>2. Area[k][e] - Area[k][s] \in Int
  BY <1>1
<1> QED
  BY <1>1, <1>2, RoundingMovesHalf DEF ExecutionCost

\* A fee is at least one unit (computeFee).
LEMMA FeeAtLeastOne ==
  ASSUME NEW cost \in Int
  PROVE  ComputeFee(cost) \in Int /\ ComputeFee(cost) >= 1
<1>1. Abs(cost) \in Int
  BY DEF Abs
<1> QED
  BY <1>1, RoundingMovesHalf DEF ComputeFee, MinFee

-----------------------------------------------------------------------------
(* The inductive invariant.                                                *)

\* What was paid differs from the area between the two ends by at most half a
\* unit for each trade, and each trade paid a fee.  (PathIndependent compares with
\* a cost that is rounded itself, and says nothing of the next leg.)
WalkInv ==
    /\ curve \in Curves
    /\ opening \in 0..MaxSupply /\ supply \in 0..MaxSupply
    /\ paid \in Int /\ fees \in Int /\ trades \in Nat
    /\ 200 * paid >= 2 * (Area[curve][supply] - Area[curve][opening]) - 100 * trades
    /\ 200 * paid <= 2 * (Area[curve][supply] - Area[curve][opening]) + 100 * trades
    /\ fees >= trades

\* A walk begins with nothing paid.
LEMMA WalkInitInv == Init => WalkInv
<1> SUFFICES ASSUME Init PROVE WalkInv
  OBVIOUS
<1>1. Area[curve][supply] \in Int
  BY CostIsArea DEF Init
<1>2. Area[curve][supply] - Area[curve][opening] = 0
  BY <1>1 DEF Init
<1> QED
  BY <1>2 DEF Init, WalkInv

\* Each leg adds its own area, its own rounding and a fee.
LEMMA MoveKeepsInv ==
  ASSUME WalkInv, NEW type \in {"BUY", "SELL"}, NEW n \in Nat, Move(type, n)
  PROVE  WalkInv'
<1> DEFINE next == supply + DeltaSharesFor(type, n)
<1>1. /\ next \in 0..MaxSupply
      /\ supply' = next /\ trades' = trades + 1
      /\ curve' = curve /\ opening' = opening
      /\ paid' = paid + ExecutionCost(curve, supply, next)
      /\ fees' = fees + ComputeFee(ExecutionCost(curve, supply, next))
  BY DEF Move, Quote, ValidSupply
<1> HIDE DEF next
<1>2. /\ curve \in Curves /\ supply \in 0..MaxSupply /\ opening \in 0..MaxSupply
      /\ trades \in Nat /\ paid \in Int /\ fees \in Int
  BY DEF WalkInv
<1>3. PICK a \in Int, b \in Int, o \in Int, cost \in Int :
        /\ a = Area[curve][supply] /\ b = Area[curve][next] /\ o = Area[curve][opening]
        /\ cost = ExecutionCost(curve, supply, next)
        /\ 200 * cost >= 2 * (b - a) - 100 /\ 200 * cost <= 2 * (b - a) + 100
  <2>1. /\ Area[curve][supply] \in Int /\ Area[curve][next] \in Int
        /\ Area[curve][opening] \in Int
        /\ ExecutionCost(curve, supply, next) \in Int
    BY <1>1, <1>2, CostIsArea
  <2>2. PICK a \in Int, b \in Int, o \in Int, cost \in Int :
          /\ a = Area[curve][supply] /\ b = Area[curve][next] /\ o = Area[curve][opening]
          /\ cost = ExecutionCost(curve, supply, next)
    BY <2>1
  <2>3. 200 * cost >= 2 * (b - a) - 100 /\ 200 * cost <= 2 * (b - a) + 100
    BY <1>1, <1>2, <2>2, CostIsArea
  <2> QED
    BY <2>2, <2>3
<1>4. PICK fee \in Int : fee = ComputeFee(cost) /\ fee >= 1
  BY FeeAtLeastOne
<1>5. paid' = paid + cost /\ fees' = fees + fee
  BY <1>1, <1>3, <1>4
<1>6. /\ 200 * paid >= 2 * (a - o) - 100 * trades
      /\ 200 * paid <= 2 * (a - o) + 100 * trades
      /\ fees >= trades
  BY <1>3 DEF WalkInv
<1>7. /\ 200 * paid' >= 2 * (b - o) - 100 * trades'
      /\ 200 * paid' <= 2 * (b - o) + 100 * trades'
      /\ fees' >= trades'
  BY <1>1, <1>2, <1>3, <1>4, <1>5, <1>6
<1>8. b = Area[curve'][supply'] /\ o = Area[curve'][opening']
  BY <1>1, <1>3
<1> QED
  BY <1>1, <1>2, <1>4, <1>5, <1>7, <1>8 DEF WalkInv

\* The invariant of every walk.
LEMMA WalkHasInv == Spec => []WalkInv
<1>1. WalkInv /\ [Next]_vars => WalkInv'
  <2> SUFFICES ASSUME WalkInv, [Next]_vars PROVE WalkInv'
    OBVIOUS
  <2>1. CASE UNCHANGED vars
    BY <2>1 DEF WalkInv, vars
  <2>2. CASE Next
    <3>1. 1..MaxTrade \subseteq Nat
      BY WalkAssumption
    <3> QED
      BY <2>2, <3>1, MoveKeepsInv DEF Next
  <2> QED
    BY <2>1, <2>2
<1> QED
  BY <1>1, WalkInitInv, PTL DEF Spec

-----------------------------------------------------------------------------
\* On any curve: the legs of a walk cost together what going there in one trade
\* costs, up to half a unit for each.
THEOREM RoundingDoesNotAddUp == Spec => []PathIndependent
<1>1. WalkInv => PathIndependent
  <2> SUFFICES ASSUME WalkInv PROVE PathIndependent
    OBVIOUS
  <2>1. /\ Area[curve][supply] \in Int /\ Area[curve][opening] \in Int
        /\ ExecutionCost(curve, opening, supply) \in Int
    BY CostIsArea DEF WalkInv
  <2>2. PICK a \in Int, o \in Int, cost \in Int :
          /\ a = Area[curve][supply] /\ o = Area[curve][opening]
          /\ cost = ExecutionCost(curve, opening, supply)
    BY <2>1
  <2>3. 200 * cost >= 2 * (a - o) - 100 /\ 200 * cost <= 2 * (a - o) + 100
    BY <2>2, CostIsArea DEF WalkInv
  <2>4. /\ 200 * paid >= 2 * (a - o) - 100 * trades
        /\ 200 * paid <= 2 * (a - o) + 100 * trades
        /\ paid \in Int /\ trades \in Nat
    BY <2>2 DEF WalkInv
  <2>5. 2 * (paid - cost) <= trades + 1 /\ 2 * (cost - paid) <= trades + 1
    BY <2>2, <2>4, <2>3
  <2>6. 2 * Abs(paid - cost) <= trades + 1
    BY <2>4, <2>5 DEF Abs
  <2> QED
    BY <2>2, <2>6 DEF PathIndependent
<1> QED
  BY <1>1, WalkHasInv, PTL

\* On any curve: who comes back to the supply of departure has lost by it.
THEOREM RoundTripsAlwaysLose == Spec => []RoundTripsLose
<1>1. WalkInv => RoundTripsLose
  <2> SUFFICES ASSUME WalkInv, trades > 0, supply = opening PROVE paid + fees > 0
    BY DEF RoundTripsLose
  <2>1. Area[curve][supply] - Area[curve][opening] = 0
    BY CostIsArea DEF WalkInv
  <2>2. 200 * paid >= 0 - 100 * trades
    BY <2>1 DEF WalkInv
  <2> QED
    BY <2>2 DEF WalkInv
<1> QED
  BY <1>1, WalkHasInv, PTL
=============================================================================
