----------------------------- MODULE MCBrowser -----------------------------
(* A browser that trades, and one that logs in and out.                    *)
EXTENDS Browser

MCNames     == {"ann", "bo", "bambani"}
MCPasswords == {"pa", "pb"}
MCSeeded    == [n \in {"ann", "bambani"} |-> IF n = "ann" THEN "pa" ELSE NoPassword]

MCBuy    == [type |-> "BUY", shares |-> 1]
MCSell   == [type |-> "SELL", shares |-> 1]
MCOrders == {MCBuy, MCSell}

MCFirst == [user |-> "ann", serial |-> 1]
AnnIn   == [name |-> "ann", password |-> "pa"]
BoIn    == [name |-> "bo", password |-> "pb"]
BoElse  == [name |-> "bo", password |-> "pa"]
SeedIn  == [name |-> "bambani", password |-> "pa"]

\* Quotes; trades; trades across sessions; sign-ups.
MCLoads ==
    {[in |-> TRUE,  orders |-> MCOrders, credentials |-> {},
      presses |-> 1, forms |-> 0, disturbances |-> 1],
     [in |-> TRUE,  orders |-> {MCBuy},  credentials |-> {},
      presses |-> 2, forms |-> 0, disturbances |-> 2],
     [in |-> TRUE,  orders |-> {MCBuy},  credentials |-> {AnnIn, BoIn},
      presses |-> 1, forms |-> 1, disturbances |-> 0],
     [in |-> FALSE, orders |-> {},       credentials |-> {AnnIn, BoIn, BoElse, SeedIn},
      presses |-> 0, forms |-> 3, disturbances |-> 0]}
=============================================================================
