------------------------------ MODULE MCCurve ------------------------------
(***************************************************************************)
(* Instances of the walks for TLC: the price tables are those of the       *)
(* square-root curves of module Curve.                                     *)
(***************************************************************************)
EXTENDS Curve, Walk

MCCurves == {[base |-> 10, scale |-> 10], [base |-> 20, scale |-> 16],
             [base |-> 3, scale |-> 2]}
\* The tables.  TLC keeps the value of a constant definition, but evaluates what
\* a configuration puts for a constant every time.
SpotTable == [k \in MCCurves |-> [s \in 0..MaxSupply |-> SpotPriceOf(k, s)]]
AreaTable == [k \in MCCurves |-> [s \in 0..MaxSupply |-> AreaOf(k, s)]]
MCSpot == SpotTable
MCArea == AreaTable
=============================================================================
