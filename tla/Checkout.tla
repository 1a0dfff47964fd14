------------------------------- MODULE Checkout -------------------------------
(***************************************************************************)
(* Placing an order and cancelling it again, as transactions that lock one  *)
(* row after the other.  A checkout takes stock, a flash-sale quota, money  *)
(* or points and a use of a coupon; a cancellation gives all of it back.    *)
(* Nothing a transaction writes is seen before it commits, and what it has  *)
(* locked stays as it found it; so a lock is taken and its condition judged *)
(* in one step, and all writes are made in the step of the commit.  Of each *)
(* resource an order takes one unit, whatever the quantity of the line.     *)
(***************************************************************************)
EXTENDS Integers, FiniteSets, Sequences

CONSTANTS Customers, Submits,     \* a submit is one press of "place the order"
          Owner, KeysOf,          \* of each submit: the customer, the Idempotency-Keys it may carry
          NoKey, Nobody, Refused,
          Variations,             \* numbered in the order of their ids
          FlashItems,             \* those on sale: a flash-sale item has its variation's number
          Requests,               \* what a submit may ask for
          Limit,                  \* of each resource: how often it can be taken
          FirstCart, FirstLines,  \* the carts at first, and the lines in them
          MaxChanges              \* edits of carts (a bound for TLC)

Purses == {"POINTS", "WALLET"}    \* Green Points, Tubu wallet
Resource(kind, item, by) == [kind |-> kind, item |-> item, by |-> by]
Goods(v) == Resource("VARIATION", v, Nobody)
FlashUse(c, f) == {Resource("FLASH", f, Nobody), Resource("PURCHASE", f, c)}
CouponUse(c) == {Resource("COUPON_USER", 0, c), Resource("COUPON", 0, Nobody)}
Money(c, pay) == {Resource(p, 0, c) : p \in pay}
Resources == {Goods(v) : v \in Variations}
               \cup (UNION {FlashUse(c, f) : c \in Customers, f \in FlashItems})
               \cup (UNION {Money(c, Purses) \cup CouponUse(c) : c \in Customers})

ASSUME SubmitsAssumption ==
  /\ IsFiniteSet(Submits) /\ Owner \in [Submits -> Customers]
  /\ {Nobody, Refused} \cap (Submits \cup Customers) = {} /\ Nobody # Refused
ASSUME RequestsAssumption ==
  /\ Variations \subseteq Nat \ {0} /\ FlashItems \subseteq Variations
  /\ Requests \subseteq [wants : SUBSET Variations, pay : SUBSET Purses, coupon : BOOLEAN]
ASSUME BoundsAssumption ==
  Limit \in [Resources -> Nat] /\ MaxChanges \in Nat /\ FirstLines \in Nat

NoLine == [id |-> 0, quantity |-> 0]
Lines == {NoLine} \cup [id : 1 .. FirstLines + MaxChanges, quantity : 1 .. 2]
Carts == [Variations -> Lines]
ASSUME CartsAssumption ==
  /\ FirstCart \in [Customers -> Carts]
  /\ \A c, d \in Customers, v, w \in Variations :
       FirstCart[c][v] # NoLine =>
         FirstCart[c][v].id <= FirstLines /\ (<<c, v>> # <<d, w>> => FirstCart[c][v].id # FirstCart[d][w].id)

VARIABLES cart,      \* of each customer: the line of each variation
          lines,     \* cart lines made so far: their ids
          changes,   \* edits so far
          taken,     \* of each resource: how often it is taken
          order,     \* the order (group) a submit placed, by its submit
          submit,    \* a submit's progress, what it read and how it was answered
          closing,   \* the cancellation of an order
          held, todo, \* of each transaction: the locks it has, and those it will need
          placed     \* the orders as they were placed, oldest first
vars == << cart, lines, changes, taken, order, submit, closing, held, todo, placed >>

Txs == {"PLACE", "CANCEL"} \X Submits
Own(s) == Owner[s]
Bought(s) == {v \in Variations : Goods(v) \in submit[s].uses}

-----------------------------------------------------------------------------
(* Locks.                                                                   *)
Row(r) == IF r.kind \in Purses \cup {"USER"} THEN Resource("USER", 0, r.by) ELSE r
Lock(r, mode) == [row |-> r, mode |-> mode]
ModesConflict(m, n) ==
  IF "KEY SHARE" \in {m, n} THEN "UPDATE" \in {m, n} /\ m # n ELSE TRUE
Conflict(l, m) == Row(l.row) = Row(m.row) /\ ModesConflict(l.mode, m.mode)

Kinds == Purses \cup {"CART", "VARIATION", "FLASH", "PURCHASE", "KEY", "USER", "COUPON_USER", "COUPON"}
Locks == [row : [kind : Kinds, item : Variations \cup {0}, by : Customers \cup {Nobody} \cup UNION {KeysOf[s] : s \in Submits}],
          mode : {"KEY SHARE", "NO KEY UPDATE", "UPDATE"}]
WriteMode(r) == IF r.kind = "POINTS" THEN "UPDATE" ELSE "NO KEY UPDATE"
KeyRow(s) == Resource("KEY", 0, submit[s].key)
PlaceLocks(s, uses) ==
  {Lock(Resource("CART", 0, Own(s)), "NO KEY UPDATE"), Lock(Resource("USER", 0, Own(s)), "KEY SHARE")}
    \cup (IF submit[s].key = NoKey THEN {} ELSE {Lock(KeyRow(s), "UPDATE")})
    \cup {Lock(r, WriteMode(r)) : r \in uses}
CancelLocks(s) == {Lock(r, "NO KEY UPDATE") : r \in {u \in submit[s].uses : u.kind # "COUPON_USER"}}

(* The order in which the two take their locks: a checkout first all quotas, *)
(* then all purchases; a cancellation restores item by item.                 *)
PlaceRank == [CART |-> 0, VARIATION |-> 1, FLASH |-> 2, PURCHASE |-> 3, KEY |-> 4, USER |-> 5,
              POINTS |-> 6, WALLET |-> 7, COUPON_USER |-> 8, COUPON |-> 9]
(* Mutant: the money goes back before the goods.                           *)
MoneyFirstRank == [PlaceRank EXCEPT !.PURCHASE = 2, !.POINTS = 0, !.WALLET = 0]
CancelRank == [PlaceRank EXCEPT !.PURCHASE = 2]
RankOf(t) == IF t[1] = "PLACE" THEN PlaceRank ELSE CancelRank
Earlier(rank, l, m) ==
  \/ rank[l.row.kind] < rank[m.row.kind]
  \/ rank[l.row.kind] = rank[m.row.kind]
     /\ \/ l.row.item < m.row.item
        \/ l.row.item = m.row.item /\ l.row.kind = "FLASH" /\ m.row.kind = "PURCHASE"
NextLock(t, l) == l \in todo[t] /\ \A m \in todo[t] : ~ Earlier(RankOf(t), m, l)
Blocks(u, l) == \E m \in held[u] : Conflict(l, m)
Free(t, l) == \A u \in Txs \ {t} : ~ Blocks(u, l)
Got(t, l) == /\ held' = [held EXCEPT ![t] = @ \cup {l}]
             /\ todo' = [todo EXCEPT ![t] = @ \ {l}]
(* Mutant: what a finished transaction had locked stays locked.             *)
EndWithoutRelease(t) == todo' = [todo EXCEPT ![t] = {}] /\ UNCHANGED held
End(t) == /\ held' = [held EXCEPT ![t] = {}]
          /\ todo' = [todo EXCEPT ![t] = {}]

-----------------------------------------------------------------------------
Fresh == [at |-> "NEW", why |-> "", seen |-> [v \in Variations |-> NoLine], uses |-> {},
          key |-> NoKey, answer |-> Nobody]
Init == /\ cart = FirstCart /\ lines = FirstLines /\ changes = 0
        /\ taken = [r \in Resources |-> 0]
        /\ order = [s \in Submits |-> "NONE"]
        /\ submit = [s \in Submits |-> Fresh]
        /\ closing = [s \in Submits |-> "NONE"]
        /\ held = [t \in Txs |-> {}] /\ todo = [t \in Txs |-> {}]
        /\ placed = << >>

(* The customer's cart; an edit does not take the lock of the cart.         *)
AddLine(c, v) ==
  /\ cart[c][v] = NoLine /\ changes < MaxChanges
  /\ lines' = lines + 1 /\ changes' = changes + 1
  /\ cart' = [cart EXCEPT ![c][v] = [id |-> lines', quantity |-> 1]]
  /\ UNCHANGED << taken, order, submit, closing, held, todo, placed >>
EditLine(c, v, line) ==
  /\ cart[c][v] # NoLine /\ cart[c][v] # line /\ changes < MaxChanges
  /\ changes' = changes + 1
  /\ cart' = [cart EXCEPT ![c][v] = line]
  /\ UNCHANGED << lines, taken, order, submit, closing, held, todo, placed >>
ChangeLine(c, v) == EditLine(c, v, [cart[c][v] EXCEPT !.quantity = 3 - @])
RemoveLine(c, v) == EditLine(c, v, NoLine)

-----------------------------------------------------------------------------
(* Answers.                                                                 *)
WithKey(k) == {p \in Submits : order[p] # "NONE" /\ submit[p].key = k /\ k # NoKey}
AnsweredTo(s, k, a) == submit' = [submit EXCEPT ![s] = [Fresh EXCEPT !.at = "DONE", !.key = k, !.answer = a]]
Answered(s, a) == AnsweredTo(s, submit[s].key, a)
(* The same key of another customer, or for another request, is refused.    *)
Replay(s, k) ==
  \E p \in WithKey(k) : \E a \in (IF Owner[p] = Own(s) THEN {p, Refused} ELSE {Refused}) : AnsweredTo(s, k, a)
(* The latest order of the customer that is not cancelled, if it is recent  *)
(* and of the same request.                                                 *)
IsLatest(s, p) ==
  LET own(q) == Owner[q] = Own(s) /\ order[q] # "CANCELLED"
  IN  \E i \in DOMAIN placed : /\ placed[i] = p /\ own(p)
                               /\ \A j \in DOMAIN placed : j > i => ~ own(placed[j])
RecentOrRefused(s) == \E a \in {Refused} \cup {p \in Submits : IsLatest(s, p)} : Answered(s, a)
Stays == UNCHANGED << cart, lines, changes, taken, order, closing, held, todo, placed >>

KeyLookup(s) ==
  /\ submit[s].at = "NEW"
  /\ \E k \in KeysOf[s] :
       \/ WithKey(k) # {} /\ Replay(s, k)
       \/ WithKey(k) = {} /\ submit' = [submit EXCEPT ![s].at = "LOOKED", ![s].key = k]
  /\ Stays

(* What the prices are computed from: lines still in the cart, sales with a *)
(* quota left, a coupon with a use left, a purse with enough.               *)
Left(r) == taken[r] < Limit[r]
AllLeft(R) == \A r \in R : Left(r)
UsesOf(c, q, wants) ==
  {Goods(v) : v \in wants}
    \cup (UNION {FlashUse(c, f) : f \in {f \in wants \cap FlashItems : Left(Resource("FLASH", f, Nobody))}})
    \cup Money(c, q.pay) \cup (IF q.coupon /\ AllLeft(CouponUse(c)) THEN CouponUse(c) ELSE {})
ReadCart(s) ==
  /\ submit[s].at = "LOOKED"
  /\ \E q \in Requests :
       LET c == Own(s)
           wants == {v \in q.wants : cart[c][v] # NoLine}
       IN  \/ wants = {} /\ RecentOrRefused(s) /\ Stays
           \/ wants # {} /\ ~ AllLeft(Money(c, q.pay)) /\ Answered(s, Refused) /\ Stays
           \/ /\ wants # {} /\ AllLeft(Money(c, q.pay))
              /\ submit' = [submit EXCEPT ![s].at = "TX", ![s].seen = cart[c], ![s].uses = UsesOf(c, q, wants)]
              /\ todo' = [todo EXCEPT ![<<"PLACE", s>>] = PlaceLocks(s, UsesOf(c, q, wants))]
              /\ UNCHANGED << cart, lines, changes, taken, order, closing, held, placed >>

-----------------------------------------------------------------------------
(* The transaction of a checkout.                                           *)
Consumed(s) == \E v \in Bought(s) : cart[Own(s)][v].id # submit[s].seen[v].id
CartAsSeen(s) == \A v \in Bought(s) : cart[Own(s)][v] = submit[s].seen[v]
(* Mutant: the cart is not read again under its lock.                      *)
EnoughWithoutCart(s, r) ==
  \/ r.kind = "KEY" /\ WithKey(submit[s].key) = {}
  \/ r.kind \in {"CART", "USER"}
  \/ r \in Resources /\ Left(r)
(* Mutant: the key of an order is not unique.                              *)
EnoughWithoutKey(s, r) ==
  \/ r.kind = "CART" /\ CartAsSeen(s)
  \/ r.kind \in {"KEY", "USER"}
  \/ r \in Resources /\ Left(r)
(* Mutant: the last use of a coupon is checked before the lock only.       *)
EnoughAsRead(s, r) ==
  \/ r.kind = "CART" /\ CartAsSeen(s)
  \/ r.kind = "KEY" /\ WithKey(submit[s].key) = {}
  \/ r.kind \in {"USER", "COUPON"}
  \/ r \in Resources /\ Left(r)
Enough(s, r) ==
  \/ r.kind = "CART" /\ CartAsSeen(s)
  \/ r.kind = "KEY" /\ WithKey(submit[s].key) = {}
  \/ r.kind = "USER"
  \/ r \in Resources /\ Left(r)

TakeLock(s) ==
  /\ submit[s].at = "TX"
  /\ \E l \in todo[<<"PLACE", s>>] :
       /\ NextLock(<<"PLACE", s>>, l) /\ Free(<<"PLACE", s>>, l)
       /\ \/ Enough(s, l.row) /\ Got(<<"PLACE", s>>, l) /\ UNCHANGED submit
          \/ /\ ~ Enough(s, l.row) /\ End(<<"PLACE", s>>)
             /\ submit' = [submit EXCEPT ![s].at = "FAILED",
                              ![s].why = IF l.row.kind = "CART" /\ Consumed(s) THEN "CONSUMED" ELSE l.row.kind]
  /\ UNCHANGED << cart, lines, changes, taken, order, closing, placed >>

Place(s) ==
  /\ submit[s].at = "TX" /\ todo[<<"PLACE", s>>] = {}
  /\ order' = [order EXCEPT ![s] = "OPEN"]
  /\ placed' = Append(placed, s)
  /\ taken' = [r \in Resources |-> taken[r] + (IF r \in submit[s].uses THEN 1 ELSE 0)]
  /\ cart' = [cart EXCEPT ![Own(s)] =
                [v \in Variations |-> IF v \in Bought(s) /\ @[v].id = submit[s].seen[v].id THEN NoLine ELSE @[v]]]
  /\ submit' = [submit EXCEPT ![s].at = "DONE", ![s].answer = s]
  /\ End(<<"PLACE", s>>)
  /\ UNCHANGED << lines, changes, closing >>

(* A lost race of the same key answers with the winner's order; a cart that *)
(* became an order with the latest one; else the customer is told.          *)
AfterFailure(s) ==
  /\ submit[s].at = "FAILED"
  /\ \/ submit[s].why \in {"KEY", "CART", "CONSUMED"} /\ WithKey(submit[s].key) # {} /\ Replay(s, submit[s].key)
     \/ ~ (submit[s].why \in {"KEY", "CART", "CONSUMED"} /\ WithKey(submit[s].key) # {})
        /\ IF submit[s].why = "CONSUMED" THEN RecentOrRefused(s) ELSE Answered(s, Refused)
  /\ Stays

(* The process dies or the connection breaks: the transaction is rolled back *)
(* and nobody is answered.                                                   *)
CrashPlace(s) ==
  /\ submit[s].at = "TX"
  /\ Answered(s, Nobody)
  /\ End(<<"PLACE", s>>)
  /\ UNCHANGED << cart, lines, changes, taken, order, closing, placed >>

-----------------------------------------------------------------------------
(* The cancellation of an order that was not delivered, after it won the    *)
(* flip of the status (OrderLifecycle).                                     *)
StartCancel(s) ==
  /\ order[s] = "OPEN" /\ closing[s] = "NONE"
  /\ closing' = [closing EXCEPT ![s] = "TX"]
  /\ todo' = [todo EXCEPT ![<<"CANCEL", s>>] = CancelLocks(s)]
  /\ UNCHANGED << cart, lines, changes, taken, order, submit, held, placed >>
TakeCancelLock(s) ==
  /\ closing[s] = "TX"
  /\ \E l \in todo[<<"CANCEL", s>>] :
       NextLock(<<"CANCEL", s>>, l) /\ Free(<<"CANCEL", s>>, l) /\ Got(<<"CANCEL", s>>, l)
  /\ UNCHANGED << cart, lines, changes, taken, order, submit, closing, placed >>
GiveBack(n) == IF n > 0 THEN n - 1 ELSE n
Cancel(s) ==
  /\ closing[s] = "TX" /\ todo[<<"CANCEL", s>>] = {}
  /\ closing' = [closing EXCEPT ![s] = "DONE"]
  /\ order' = [order EXCEPT ![s] = "CANCELLED"]
  /\ taken' = [r \in Resources |-> IF r \in submit[s].uses THEN GiveBack(taken[r]) ELSE taken[r]]
  /\ End(<<"CANCEL", s>>)
  /\ UNCHANGED << cart, lines, changes, submit, placed >>
CrashCancel(s) ==
  /\ closing[s] = "TX"
  /\ closing' = [closing EXCEPT ![s] = "DEAD"]
  /\ End(<<"CANCEL", s>>)
  /\ UNCHANGED << cart, lines, changes, taken, order, submit, placed >>

-----------------------------------------------------------------------------
CustomerStep == \E c \in Customers, v \in Variations : AddLine(c, v) \/ ChangeLine(c, v) \/ RemoveLine(c, v)
Proceeds(s) == \/ KeyLookup(s) \/ ReadCart(s) \/ TakeLock(s) \/ Place(s) \/ AfterFailure(s)
               \/ TakeCancelLock(s) \/ Cancel(s)
Fault(s) == CrashPlace(s) \/ CrashCancel(s)
Next == CustomerStep \/ \E s \in Submits : Proceeds(s) \/ StartCancel(s) \/ Fault(s)
Spec == Init /\ [][Next]_vars

-----------------------------------------------------------------------------
Running(t) == IF t[1] = "PLACE" THEN submit[t[2]].at = "TX" ELSE closing[t[2]] = "TX"
Steps == {"NEW", "LOOKED", "TX", "FAILED", "DONE"}
TypeOK ==
  /\ cart \in [Customers -> Carts]
  /\ lines \in FirstLines .. FirstLines + changes /\ changes \in 0 .. MaxChanges
  /\ taken \in [Resources -> Nat]
  /\ order \in [Submits -> {"NONE", "OPEN", "CANCELLED"}]
  /\ closing \in [Submits -> {"NONE", "TX", "DONE", "DEAD"}]
  /\ \A s \in Submits : /\ submit[s].at \in Steps /\ submit[s].seen \in Carts
                        /\ submit[s].uses \subseteq Resources
                        /\ submit[s].answer \in Submits \cup {Nobody, Refused}
                        /\ submit[s].key \in KeysOf[s] \cup {NoKey}
  /\ placed \in Seq(Submits)
  /\ \A t \in Txs : held[t] \subseteq Locks /\ todo[t] \subseteq Locks
  /\ \A t \in Txs : ~ Running(t) => held[t] = {} /\ todo[t] = {}

(* Every counter is exactly what the orders that are not cancelled took, and *)
(* none is above its limit: no piece, quota, purse or coupon use is sold     *)
(* twice, and a cancellation gives back all that its order took.             *)
Takers(r) == {s \in Submits : order[s] = "OPEN" /\ r \in submit[s].uses}
BooksBalance == \A r \in Resources : taken[r] = Cardinality(Takers(r)) /\ taken[r] <= Limit[r]

(* A line of a cart becomes at most one order, however often it is sent.     *)
CartBoughtOnce ==
  \A s, p \in Submits : s # p /\ order[s] # "NONE" /\ order[p] # "NONE" =>
    \A v \in Bought(s) \cap Bought(p) : submit[s].seen[v].id # submit[p].seen[v].id

(* One Idempotency-Key places at most one order, also when the cart was     *)
(* filled again between two submits with that key.                          *)
KeyPlacesOnce ==
  \A s, p \in Submits : s # p /\ order[s] # "NONE" /\ order[p] # "NONE" =>
    submit[s].key = NoKey \/ submit[s].key # submit[p].key

(* No transactions wait for each other in a circle: checkouts lock in one   *)
(* order and cancellations in another (CancelRank), and the two together    *)
(* never close a circle, so the database never kills a transaction (40P01). *)
WaitsFor(t, u) == t # u /\ \E l \in todo[t] : NextLock(t, l) /\ Blocks(u, l)
Waiting == {t \in Txs : todo[t] # {} /\ \E u \in Txs : WaitsFor(t, u)}
NoWaitCycle == \A S \in SUBSET Waiting : S # {} => \E t \in S : \A u \in S : ~ WaitsFor(t, u)

(* A submit whose key has placed an order is answered with that order       *)
(* (checkout.service.ts:712-713: overlapping submits of one key are given    *)
(* the winner's order).                                                     *)
SameKeySameAnswer ==
  [][\A s \in Submits :
       submit'[s].answer \in Submits /\ submit[s].answer = Nobody /\ WithKey(submit'[s].key) # {}
         => submit'[s].answer \in WithKey(submit'[s].key)]_vars
-----------------------------------------------------------------------------
(* For all that anybody can see, a checkout that reads, locks row after row, *)
(* fails, dies or is sent again is a sale in the one step of its commit      *)
(* (CheckoutSales), and all it takes is there for it in that step, however   *)
(* old what it read.                                                         *)
LinesOf(s) == {<<v, submit[s].seen[v].id>> : v \in Bought(s)}
SaleOf(s) ==
  IF order[s] = "NONE" THEN [uses |-> {}, lines |-> {}, key |-> NoKey]
  ELSE [uses |-> submit[s].uses, lines |-> LinesOf(s), key |-> submit[s].key]
Sales == INSTANCE CheckoutSales WITH sale <- [s \in Submits |-> SaleOf(s)]
SalesSpec == Sales!Spec
=============================================================================
