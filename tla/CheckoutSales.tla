---------------------------- MODULE CheckoutSales ----------------------------
(***************************************************************************)
(* What placing and cancelling orders promises, with nothing in between:   *)
(* an order is sold, and taken back, in one step, and what it is judged by  *)
(* is what holds at that step.  There are no prices read earlier, no locks, *)
(* no second presses and no crashes here; Checkout is shown to implement it.*)
(***************************************************************************)
EXTENDS Integers

CONSTANTS Customers, Submits, Owner, Variations, NoKey,
          Resources, Limit,    \* what an order may take, and how often each can be taken
          NoLine, FirstCart

VARIABLES cart, taken,
          order,     \* of each submit: its order
          sale       \* what that order took: resources, lines of the cart, its key
vars == << cart, taken, order, sale >>

Nothing == [uses |-> {}, lines |-> {}, key |-> NoKey]
Init == /\ cart = FirstCart
        /\ taken = [r \in Resources |-> 0]
        /\ order = [s \in Submits |-> "NONE"]
        /\ sale = [s \in Submits |-> Nothing]

Sold(p) == order[p] # "NONE"
Gone(c) == UNION {sale[p].lines : p \in {p \in Submits : Owner[p] = c}}

(* A cart changes as its customer likes, but no line in it comes back that  *)
(* was sold.                                                                *)
Edit(c) ==
  /\ \A d \in Customers \ {c} : cart'[d] = cart[d]
  /\ \A v \in Variations : <<v, cart'[c][v].id>> \notin Gone(c)
  /\ UNCHANGED << taken, order, sale >>

(* All or nothing: the order takes resources that are left in this very     *)
(* step and lines nobody bought, under a key no order has, and its lines    *)
(* leave the cart.                                                          *)
Sell(s) ==
  LET got == sale'[s]
  IN  /\ ~ Sold(s)
      /\ order' = [order EXCEPT ![s] = "OPEN"]
      /\ sale' = [sale EXCEPT ![s] = got]
      /\ got.lines # {} /\ got.lines \cap Gone(Owner[s]) = {}
      /\ got.key # NoKey => \A p \in Submits : Sold(p) => sale[p].key # got.key
      /\ \A r \in got.uses : taken[r] < Limit[r]
      /\ taken' = [r \in Resources |-> IF r \in got.uses THEN taken[r] + 1 ELSE taken[r]]
      /\ cart' = [cart EXCEPT ![Owner[s]] =
                    [v \in Variations |-> IF <<v, @[v].id>> \in got.lines THEN NoLine ELSE @[v]]]

(* The order is taken back, once, with all it took and nothing else.        *)
TakeBack(s) ==
  /\ order[s] = "OPEN"
  /\ order' = [order EXCEPT ![s] = "CANCELLED"]
  /\ taken' = [r \in Resources |-> IF r \in sale[s].uses THEN taken[r] - 1 ELSE taken[r]]
  /\ UNCHANGED << cart, sale >>

Next == (\E c \in Customers : Edit(c)) \/ (\E s \in Submits : Sell(s) \/ TakeBack(s))
Spec == Init /\ [][Next]_vars
=============================================================================
