----------------------------- MODULE MCGiftCard -----------------------------
(* Payments of 2 and 1, and one bill of 1.                                 *)
EXTENDS GiftCard, TLC

CONSTANTS p1, p2, b1, h1, h2

MCPrice == [p \in Payment |-> IF p = p1 THEN 2 ELSE 1]
MCLoad == ("SINGLE" :> 3) @@ ("CROWDFUNDED" :> 2)
MCDelivery == ("SINGLE" :> {h1, h2}) @@ ("CROWDFUNDED" :> {h1})
MCTotal == (b1 :> 1)
=============================================================================
