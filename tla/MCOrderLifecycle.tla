--------------------------- MODULE MCOrderLifecycle ---------------------------
(***************************************************************************)
(* Small instances of OrderLifecycle: one order of a given kind, the worker *)
(* of the cron and one or two handlers, and the callers a run is about.     *)
(***************************************************************************)
EXTENDS OrderLifecycle, TLC

Retail(method) ==
  [paymentMethod |-> method, type |-> "RETAIL", onCredit |-> FALSE,
   placedForCustomer |-> FALSE, fulfiller |-> "TUBU", recycling |-> FALSE]
Shop(method) == [Retail(method) EXCEPT !.fulfiller = "MERCHANT"]
Recycling(method) == [Retail(method) EXCEPT !.recycling = TRUE]
Assisted(method) == [Retail(method) EXCEPT !.placedForCustomer = TRUE]
Dealer(credit) == [Retail("BANK_TRANSFER") EXCEPT !.type = "DEALER", !.onCredit = credit]

TransferOrders == {Retail("BANK_TRANSFER"), Assisted("BANK_TRANSFER"), Dealer(FALSE), Dealer(TRUE)}
ShopOrders == {Shop("ZALOPAY"), Shop("COD")}
PickUpOrders == {Recycling("COD"), Recycling("WALLET")}
ReturnedOrders == {Retail("COD"), Retail("WALLET")}

StatusOrders == TransferOrders \cup ShopOrders \cup PickUpOrders \cup ReturnedOrders

StatusCallers(o) ==
  CASE o.paymentMethod = "BANK_TRANSFER" -> {"staff", "bank", "customer", "pancake"}
    [] o.fulfiller = "MERCHANT"          -> {"gateway", "merchant", "customer"}
    [] o.recycling                       -> {"gomdon", "waybill", "staff", "pancake"}
    [] OTHER                             -> {"pancake", "returns", "partialReturn"}

Symmetric == Permutations(Handlers)
=============================================================================
