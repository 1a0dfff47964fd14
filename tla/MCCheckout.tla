------------------------------ MODULE MCCheckout ------------------------------
(* Instances of Checkout: a customer who presses twice with one key, and a   *)
(* second customer who wants the same two goods.                             *)
EXTENDS Checkout, TLC

CONSTANTS c1, c2, s1, s2, s3, key, other

AllOwners == s1 :> c1 @@ s2 :> c1 @@ s3 :> c2
AllKeys == s1 :> {key} @@ s2 :> {key, other} @@ s3 :> {NoKey}
OneOwner == [s \in Submits |-> c1]
TwoKeys == s1 :> {key} @@ s2 :> {key} @@ s3 :> {other}

Ask(wants, pay, coupon) == [wants |-> wants, pay |-> pay, coupon |-> coupon]
AllRequests == {Ask({1, 2}, {"POINTS"}, TRUE), Ask({2}, {"WALLET"}, FALSE)}
CartRequests == {Ask({1}, {}, FALSE)}
FullLine(n) == [id |-> n, quantity |-> 1]
FirstCarts == c1 :> << FullLine(1), FullLine(2) >> @@ c2 :> << NoLine, FullLine(3) >>
Scarce == [r \in Resources |-> IF r = Goods(2) THEN 2 ELSE 1]
OneLineCarts == c1 :> << FullLine(1) >>
Plenty == [r \in Resources |-> 3]
=============================================================================
