--------------------------- MODULE Checkout_proofs ---------------------------
(***************************************************************************)
(* Proofs about Checkout for any customers and submits, any goods, limits, *)
(* requests and keys, and any first carts.                                 *)
(***************************************************************************)
EXTENDS Checkout, FiniteSetTheorems, WellFoundedInduction, TLAPS

-----------------------------------------------------------------------------
(* The inductive invariant.                                                *)

Buyer(s) == <<"PLACE", s>>
Closer(s) == <<"CANCEL", s>>
InTx(s) == submit[s].at = "TX"
Placed(s) == order[s] # "NONE"
CartLock(s) == Lock(Resource("CART", 0, Own(s)), "NO KEY UPDATE")
KeyLock(s) == Lock(KeyRow(s), "UPDATE")
UseLock(r) == Lock(r, WriteMode(r))

SubmitRow == [at : Steps, why : Kinds \cup {"", "CONSUMED"}, seen : Carts, uses : SUBSET Resources,
              key : (UNION {KeysOf[s] : s \in Submits}) \cup {NoKey}, answer : Submits \cup {Nobody, Refused}]
Typed ==
  /\ submit \in [Submits -> SubmitRow]
  /\ held \in [Txs -> SUBSET Locks] /\ todo \in [Txs -> SUBSET Locks]

(* A submit that placed an order is over; only such an order is cancelled. *)
Lifecycle ==
  \A s \in Submits :
    /\ Placed(s) => submit[s].at = "DONE"
    /\ closing[s] = "NONE" => order[s] # "CANCELLED"
    /\ closing[s] \in {"TX", "DEAD"} => order[s] = "OPEN"

(* A checkout has or still needs every lock of what it will write, no two  *)
(* have locks that conflict, and what one has locked is still enough.      *)
LocksKept == \A s \in Submits : InTx(s) => held[Buyer(s)] \cup todo[Buyer(s)] = PlaceLocks(s, submit[s].uses)
NoTwoHold ==
  \A s, p \in Submits : s # p => \A l \in held[Buyer(s)], m \in held[Buyer(p)] : ~ Conflict(l, m)
LockedIsEnough ==
  \A s \in Submits : InTx(s) =>
    /\ \A r \in submit[s].uses : UseLock(r) \in held[Buyer(s)] => Left(r)
    /\ submit[s].key # NoKey /\ KeyLock(s) \in held[Buyer(s)] => WithKey(submit[s].key) = {}

(* No line is in two carts, what a submit saw of its cart is in no other   *)
(* customer's hands, and ids are never used again.                         *)
LinesApart ==
  \A c, d \in Customers, v, w \in Variations :
    cart[c][v] # NoLine =>
      cart[c][v].id \in 1 .. lines /\ (<<c, v>> # <<d, w>> => cart[c][v].id # cart[d][w].id)
SeenIsOwn ==
  \A s \in Submits : \A v \in Bought(s) :
    /\ submit[s].seen[v].id \in 1 .. lines
    /\ \A d \in Customers, w \in Variations : d # Own(s) => cart[d][w].id # submit[s].seen[v].id
    /\ \A p \in Submits : Own(p) # Own(s) => \A w \in Bought(p) : submit[p].seen[w].id # submit[s].seen[v].id

(* What was bought is in no cart, nor in one that a checkout has locked.   *)
BoughtIsGone ==
  \A p \in Submits : Placed(p) => \A v \in Bought(p) :
    /\ cart[Own(p)][v].id # submit[p].seen[v].id
    /\ \A s \in Submits : InTx(s) /\ CartLock(s) \in held[Buyer(s)] /\ v \in Bought(s) =>
         submit[s].seen[v].id # submit[p].seen[v].id

IInv ==
  /\ TypeOK /\ Typed /\ Lifecycle
  /\ LocksKept /\ NoTwoHold /\ LockedIsEnough
  /\ LinesApart /\ SeenIsOwn /\ BoughtIsGone
  /\ BooksBalance /\ CartBoughtOnce /\ KeyPlacesOnce

-----------------------------------------------------------------------------
(* Rows and locks.                                                         *)

LEMMA ResourceShape ==
  \A r \in Resources :
    r \in [kind : Purses \cup {"VARIATION", "FLASH", "PURCHASE", "COUPON_USER", "COUPON"},
           item : Variations \cup {0}, by : Customers \cup {Nobody}]
<1> DEFINE Shape == [kind : Purses \cup {"VARIATION", "FLASH", "PURCHASE", "COUPON_USER", "COUPON"},
                     item : Variations \cup {0}, by : Customers \cup {Nobody}]
<1>1. \A v \in Variations : Goods(v) \in Shape
  BY DEF Goods, Resource
<1>2. \A c \in Customers, f \in FlashItems : FlashUse(c, f) \subseteq Shape
  BY RequestsAssumption DEF FlashUse, Resource
<1>3. \A c \in Customers : CouponUse(c) \subseteq Shape
  BY DEF CouponUse, Resource
<1>4. \A c \in Customers : Money(c, Purses) \subseteq Shape
  BY DEF Money, Resource
<1>5. UNION {FlashUse(c, f) : c \in Customers, f \in FlashItems} \subseteq Shape
  BY <1>2
<1>6. UNION {Money(c, Purses) \cup CouponUse(c) : c \in Customers} \subseteq Shape
  BY <1>3, <1>4
<1> HIDE DEF Shape
<1>7. Resources \subseteq Shape
  BY <1>1, <1>5, <1>6 DEF Resources
<1>8. QED BY <1>7 DEF Shape

LEMMA UseLockType ==
  ASSUME NEW r \in Resources
  PROVE  UseLock(r) \in Locks /\ Lock(r, "NO KEY UPDATE") \in Locks
BY ResourceShape DEF UseLock, Lock, WriteMode, Locks, Kinds, Purses

LEMMA OwnIsCustomer == \A s \in Submits : Own(s) \in Customers
BY SubmitsAssumption DEF Own

LEMMA PlaceLocksType ==
  ASSUME NEW s \in Submits, NEW uses \in SUBSET Resources, submit[s].key \in KeysOf[s] \cup {NoKey}
  PROVE  PlaceLocks(s, uses) \subseteq Locks
<1>1. CartLock(s) \in Locks /\ Lock(Resource("USER", 0, Own(s)), "KEY SHARE") \in Locks
  BY OwnIsCustomer DEF CartLock, Lock, Resource, Locks, Kinds
<1>2. submit[s].key # NoKey => KeyLock(s) \in Locks
  BY DEF KeyLock, KeyRow, Lock, Resource, Locks, Kinds
<1>3. \A r \in uses : UseLock(r) \in Locks
  BY UseLockType
<1>4. QED BY <1>1, <1>2, <1>3 DEF PlaceLocks, CartLock, KeyLock, UseLock

LEMMA CancelLocksType ==
  ASSUME NEW s \in Submits, submit[s].uses \subseteq Resources
  PROVE  CancelLocks(s) \subseteq Locks
BY UseLockType DEF CancelLocks

(* Two checkouts cannot both have the lock of the same cart, key or        *)
(* resource.                                                               *)
LEMMA SameLockConflicts ==
  /\ \A s, p \in Submits : Own(s) = Own(p) => Conflict(CartLock(s), CartLock(p))
  /\ \A s, p \in Submits : submit[s].key = submit[p].key => Conflict(KeyLock(s), KeyLock(p))
  /\ \A r \in Resources : Conflict(UseLock(r), UseLock(r))
BY DEF Conflict, ModesConflict, CartLock, KeyLock, KeyRow, UseLock, Lock, WriteMode

LEMMA TxsHave == \A s \in Submits : Buyer(s) \in Txs /\ Closer(s) \in Txs
BY DEF Buyer, Closer, Txs

LEMMA TxIsOne == \A t \in Txs : \E s \in Submits : t = Buyer(s) \/ t = Closer(s)
BY DEF Buyer, Closer, Txs

LEMMA TxsDiffer ==
  \A s, p \in Submits : Buyer(s) # Closer(p) /\ (s # p => Buyer(s) # Buyer(p) /\ Closer(s) # Closer(p))
BY DEF Buyer, Closer

(* Whether a transaction runs, without the pair.                           *)
LEMMA RunningIs ==
  \A s \in Submits : (Running(Buyer(s)) <=> submit[s].at = "TX") /\ (Running(Closer(s)) <=> closing[s] = "TX")
BY DEF Running, Buyer, Closer

LEMMA TakersFinite == \A r \in Resources : IsFiniteSet(Takers(r))
<1>1. \A r \in Resources : Takers(r) \subseteq Submits
  BY DEF Takers
<1>2. QED BY <1>1, SubmitsAssumption, FS_Subset

LEMMA FreshType == NoLine \in Lines /\ Fresh \in SubmitRow
<1>1. NoLine \in Lines
  BY DEF Lines
<1>2. [v \in Variations |-> NoLine] \in Carts
  BY <1>1 DEF Carts
<1>3. QED BY <1>1, <1>2 DEF Fresh, SubmitRow, Steps

LEMMA FreshFields == Fresh.at = "NEW" /\ Fresh.key = NoKey /\ Fresh.uses = {} /\ Fresh.answer = Nobody
BY DEF Fresh

LEMMA InitInv == Init => IInv
<1> SUFFICES ASSUME Init PROVE IInv
  OBVIOUS
<1>1. Typed
  BY FreshType DEF Init, Typed
<1>2. \A s \in Submits : submit[s] = Fresh /\ order[s] = "NONE" /\ closing[s] = "NONE" /\ Bought(s) = {}
  BY DEF Init, Bought, Fresh
<1>3. \A t \in Txs : held[t] = {} /\ todo[t] = {}
  BY DEF Init
<1>4. TypeOK
  <2>1. \A s \in Submits : /\ submit[s].at \in Steps /\ submit[s].seen \in Carts
                           /\ submit[s].uses \subseteq Resources
                           /\ submit[s].answer \in Submits \cup {Nobody, Refused}
                           /\ submit[s].key \in KeysOf[s] \cup {NoKey}
    <3>1. \A s \in Submits : submit[s].key = NoKey
      BY <1>2, FreshFields
    <3>2. \A s \in Submits : submit[s] \in SubmitRow
      BY <1>2, FreshType
    <3>3. QED BY <3>1, <3>2 DEF SubmitRow
  <2>2. lines \in FirstLines .. FirstLines + changes /\ changes \in 0 .. MaxChanges
    BY BoundsAssumption DEF Init
  <2>3. cart \in [Customers -> Carts] /\ taken \in [Resources -> Nat]
    BY CartsAssumption DEF Init
  <2>4. placed \in Seq(Submits)
    BY DEF Init
  <2>5. order \in [Submits -> {"NONE", "OPEN", "CANCELLED"}] /\ closing \in [Submits -> {"NONE", "TX", "DONE", "DEAD"}]
    BY DEF Init
  <2>6. QED BY <1>3, <2>1, <2>2, <2>3, <2>4, <2>5 DEF TypeOK
<1>5. Lifecycle /\ CartBoughtOnce /\ KeyPlacesOnce
  BY <1>2 DEF Lifecycle, Placed, CartBoughtOnce, KeyPlacesOnce
<1>6. LocksKept /\ NoTwoHold /\ LockedIsEnough
  <2>1. \A s \in Submits : ~ InTx(s) /\ held[Buyer(s)] = {}
    BY <1>2, <1>3, TxsHave, FreshFields DEF InTx
  <2>2. QED BY <2>1 DEF LocksKept, NoTwoHold, LockedIsEnough
<1>7. LinesApart
  <2>1. cart = FirstCart /\ lines = FirstLines
    BY DEF Init
  <2>2. \A c \in Customers, v \in Variations :
          FirstCart[c][v] \in Lines /\ (FirstCart[c][v] # NoLine => FirstCart[c][v].id \in 1 .. FirstLines + MaxChanges)
    BY CartsAssumption DEF Carts, Lines
  <2>3. QED BY <2>1, <2>2, CartsAssumption, BoundsAssumption DEF LinesApart
<1>8. SeenIsOwn /\ BoughtIsGone
  BY <1>2 DEF SeenIsOwn, BoughtIsGone, Placed
<1>9. BooksBalance
  <2>1. \A r \in Resources : Takers(r) = {} /\ taken[r] = 0
    BY <1>2 DEF Takers, Init
  <2>2. QED BY <2>1, FS_EmptySet, BoundsAssumption DEF BooksBalance
<1>10. QED BY <1>1, <1>4, <1>5, <1>6, <1>7, <1>8, <1>9 DEF IInv

-----------------------------------------------------------------------------
(* Edits of a cart: what is written there is nothing, a line with the id   *)
(* that was there, or a line with an id that nobody has seen.              *)
LEMMA CartEdit ==
  ASSUME IInv, NEW c \in Customers, NEW v \in Variations, NEW line \in Lines,
         cart' = [cart EXCEPT ![c][v] = line],
         lines' \in Nat, lines' >= lines, lines' <= FirstLines + changes', changes' \in 0 .. MaxChanges,
         \/ line = NoLine
         \/ cart[c][v] # NoLine /\ line.id = cart[c][v].id
         \/ line.id = lines + 1 /\ lines' = lines + 1,
         UNCHANGED << taken, order, submit, closing, held, todo, placed >>
  PROVE  IInv'
<1>1. cart \in [Customers -> [Variations -> Lines]] /\ lines \in Nat /\ lines >= FirstLines
  BY BoundsAssumption DEF IInv, TypeOK, Carts
<1>2. cart' \in [Customers -> Carts]
  BY <1>1 DEF Carts
<1>3. /\ \A d \in Customers, w \in Variations : cart[d][w] \in Lines /\ (<<d, w>> # <<c, v>> => cart'[d][w] = cart[d][w])
      /\ cart'[c][v] = line
  BY <1>1
<1>4. \A l \in Lines : l.id \in Nat /\ (l # NoLine => l.id > 0)
  BY BoundsAssumption DEF Lines, NoLine
<1>5. NoLine.id = 0
  BY DEF NoLine
<1>6. TypeOK' /\ Typed'
  <2>1. lines' \in FirstLines .. FirstLines + changes'
    <3>1. FirstLines \in Nat /\ changes' \in Nat /\ lines' >= FirstLines
      BY <1>1, BoundsAssumption
    <3>2. QED BY <3>1
  <2>2. \A t \in Txs : Running(t)' <=> Running(t)
    BY DEF Running
  <2>3. QED BY <1>2, <2>1, <2>2 DEF IInv, TypeOK, Typed
<1>7. LinesApart'
  <2>1. SUFFICES ASSUME NEW d \in Customers, NEW e \in Customers, NEW w \in Variations, NEW x \in Variations,
                        cart'[d][w] # NoLine
                 PROVE  cart'[d][w].id \in 1 .. lines' /\ (<<d, w>> # <<e, x>> => cart'[d][w].id # cart'[e][x].id)
    BY DEF LinesApart
  <2>2. \A f \in Customers, y \in Variations : cart[f][y].id <= lines
    BY <1>1, <1>3, <1>5 DEF IInv, LinesApart
  <2>3. cart'[d][w].id \in 1 .. lines'
    BY <1>1, <1>3, <1>4, <2>1, <2>2
  <2>4. ASSUME <<d, w>> # <<e, x>> PROVE cart'[d][w].id # cart'[e][x].id
    <3>1. CASE cart'[e][x] = NoLine
      BY <1>5, <2>3, <3>1
    <3>2. CASE cart'[e][x] # NoLine /\ <<d, w>> # <<c, v>> /\ <<e, x>> # <<c, v>>
      BY <1>3, <2>1, <2>4, <3>2 DEF IInv, LinesApart
    <3>3. CASE cart'[e][x] # NoLine /\ <<d, w>> = <<c, v>>
      <4>1. d = c /\ w = v /\ cart'[e][x] = cart[e][x] /\ cart'[d][w] = line
        BY <1>3, <2>4, <3>3
      <4>2. cart[c][v] # NoLine => cart[c][v].id # cart[e][x].id
        BY <2>4, <4>1 DEF IInv, LinesApart
      <4>3. cart[e][x].id < lines + 1
        BY <1>1, <1>3, <1>4, <2>2
      <4>4. QED BY <2>1, <4>1, <4>2, <4>3
    <3>4. CASE cart'[e][x] # NoLine /\ <<e, x>> = <<c, v>>
      <4>1. e = c /\ x = v /\ cart'[d][w] = cart[d][w] /\ cart'[e][x] = line
        BY <1>3, <2>4, <3>4
      <4>2. cart[d][w] # NoLine /\ cart[d][w].id # cart[c][v].id
        BY <2>1, <2>4, <4>1 DEF IInv, LinesApart
      <4>3. cart[d][w].id < lines + 1
        BY <1>1, <1>3, <1>4, <2>2
      <4>4. QED BY <3>4, <4>1, <4>2, <4>3
    <3>5. QED BY <3>1, <3>2, <3>3, <3>4
  <2>5. QED BY <2>3, <2>4
<1>8. SeenIsOwn'
  <2>1. \A s \in Submits : \A w \in Bought(s) : submit[s].seen[w].id \in 1 .. lines /\ submit[s].seen[w].id # 0
    BY DEF IInv, SeenIsOwn
  <2>2. \A s \in Submits : \A w \in Bought(s) : \A d \in Customers, x \in Variations :
          d # Own(s) => cart'[d][x].id # submit[s].seen[w].id
    <3>1. SUFFICES ASSUME NEW s \in Submits, NEW w \in Bought(s), NEW d \in Customers, NEW x \in Variations, d # Own(s)
                   PROVE  cart'[d][x].id # submit[s].seen[w].id
      OBVIOUS
    <3>2. cart[d][x].id # submit[s].seen[w].id
      BY <3>1 DEF IInv, SeenIsOwn
    <3>3. submit[s].seen[w].id # 0 /\ submit[s].seen[w].id < lines + 1
      BY <1>1, <2>1
    <3>4. QED BY <1>3, <1>5, <3>2, <3>3
  <2>3. QED BY <1>1, <2>1, <2>2 DEF IInv, SeenIsOwn, Bought, Own
<1>9. BoughtIsGone'
  <2>1. \A p \in Submits : Placed(p) => \A w \in Bought(p) : cart'[Own(p)][w].id # submit[p].seen[w].id
    <3>1. SUFFICES ASSUME NEW p \in Submits, Placed(p), NEW w \in Bought(p)
                   PROVE  cart'[Own(p)][w].id # submit[p].seen[w].id
      OBVIOUS
    <3>2. cart[Own(p)][w].id # submit[p].seen[w].id /\ w \in Variations /\ Own(p) \in Customers
      BY <3>1, OwnIsCustomer DEF IInv, BoughtIsGone, Bought
    <3>3. submit[p].seen[w].id \in 1 .. lines
      BY DEF IInv, SeenIsOwn
    <3>4. submit[p].seen[w].id # 0 /\ submit[p].seen[w].id < lines + 1
      BY <1>1, <3>3
    <3>5. QED BY <1>3, <1>5, <3>2, <3>4
  <2>2. QED BY <2>1 DEF IInv, BoughtIsGone, Bought, Placed, Own, InTx, CartLock
<1>10. (Lifecycle /\ LocksKept /\ NoTwoHold /\ LockedIsEnough)'
  BY DEF IInv, Lifecycle, LocksKept, NoTwoHold, LockedIsEnough, Placed, InTx, PlaceLocks, KeyRow, KeyLock, Left, WithKey
<1>11. (BooksBalance /\ CartBoughtOnce /\ KeyPlacesOnce)'
  BY DEF IInv, BooksBalance, CartBoughtOnce, KeyPlacesOnce, Takers, Bought
<1>12. QED BY <1>6, <1>7, <1>8, <1>9, <1>10, <1>11 DEF IInv

LEMMA CustomerStepInv ==
  ASSUME IInv, CustomerStep
  PROVE  IInv'
<1>1. PICK c \in Customers, v \in Variations : AddLine(c, v) \/ ChangeLine(c, v) \/ RemoveLine(c, v)
  BY DEF CustomerStep
<1>2. cart[c][v] \in Lines /\ lines \in Nat /\ changes \in Nat /\ lines <= FirstLines + changes /\ changes <= MaxChanges
  BY BoundsAssumption DEF IInv, TypeOK, Carts
<1>3. CASE AddLine(c, v)
  <2>1. [id |-> lines + 1, quantity |-> 1] \in Lines
    BY <1>2, <1>3, BoundsAssumption DEF AddLine, Lines
  <2> DEFINE line == [id |-> lines + 1, quantity |-> 1]
  <2>2. cart' = [cart EXCEPT ![c][v] = line] /\ line.id = lines + 1
    BY <1>3 DEF AddLine
  <2>3. /\ lines' = lines + 1 /\ lines' \in Nat /\ lines' >= lines
        /\ lines' <= FirstLines + changes' /\ changes' \in 0 .. MaxChanges
    BY <1>2, <1>3, BoundsAssumption DEF AddLine
  <2>4. UNCHANGED << taken, order, submit, closing, held, todo, placed >>
    BY <1>3 DEF AddLine
  <2> HIDE DEF line
  <2>5. QED BY <2>1, <2>2, <2>3, <2>4, CartEdit DEF line
<1>4. ASSUME NEW line \in Lines, EditLine(c, v, line), line = NoLine \/ line.id = cart[c][v].id
      PROVE  IInv'
  <2>1. /\ lines' \in Nat /\ lines' >= lines
        /\ lines' <= FirstLines + changes' /\ changes' \in 0 .. MaxChanges
    BY <1>2, <1>4, BoundsAssumption DEF EditLine
  <2>2. cart' = [cart EXCEPT ![c][v] = line] /\ cart[c][v] # NoLine
    BY <1>4 DEF EditLine
  <2>3. UNCHANGED << taken, order, submit, closing, held, todo, placed >>
    BY <1>4 DEF EditLine
  <2>4. line = NoLine \/ (cart[c][v] # NoLine /\ line.id = cart[c][v].id)
    BY <1>4, <2>2
  <2>5. QED BY <2>1, <2>2, <2>3, <2>4, CartEdit
<1>5. CASE ChangeLine(c, v)
  <2>1. cart[c][v] \in [id : 1 .. FirstLines + MaxChanges, quantity : 1 .. 2]
    BY <1>2, <1>5 DEF ChangeLine, EditLine, Lines
  <2>2. [cart[c][v] EXCEPT !.quantity = 3 - @] \in Lines /\ [cart[c][v] EXCEPT !.quantity = 3 - @].id = cart[c][v].id
    BY <2>1 DEF Lines
  <2>3. QED BY <1>4, <1>5, <2>2 DEF ChangeLine
<1>6. CASE RemoveLine(c, v)
  BY <1>4, <1>6, FreshType DEF RemoveLine
<1>7. QED BY <1>1, <1>3, <1>5, <1>6

-----------------------------------------------------------------------------
(* A submit that has placed no order moves on without writing anything and *)
(* holds nothing: an answer, a failure, the lookup of its key.             *)
LEMMA MoveOn ==
  ASSUME IInv, NEW s \in Submits, ~ Placed(s), NEW j \in SubmitRow, j.key \in KeysOf[s] \cup {NoKey}, j.at # "TX",
         j.uses = {} \/ (j.uses = submit[s].uses /\ j.seen = submit[s].seen),
         submit' = [submit EXCEPT ![s] = j],
         held' = [held EXCEPT ![Buyer(s)] = {}], todo' = [todo EXCEPT ![Buyer(s)] = {}],
         UNCHANGED << cart, lines, changes, taken, order, closing, placed >>
  PROVE  IInv'
<1>1. Typed'
  BY DEF IInv, Typed
<1>2. \A p \in Submits : p # s => submit'[p] = submit[p]
  BY DEF IInv, Typed
<1>3. submit'[s] = j
  BY DEF IInv, Typed
<1>4. Buyer(s) \in Txs /\ held'[Buyer(s)] = {} /\ todo'[Buyer(s)] = {}
  BY TxsHave DEF IInv, Typed
<1>5. \A t \in Txs : t # Buyer(s) => held'[t] = held[t] /\ todo'[t] = todo[t]
  BY DEF IInv, Typed
<1>6. \A p \in Submits : p # s => held'[Buyer(p)] = held[Buyer(p)] /\ todo'[Buyer(p)] = todo[Buyer(p)]
  BY <1>5, TxsHave, TxsDiffer
<1>7. \A p \in Submits : Bought(p)' \subseteq Bought(p) /\ \A v \in Bought(p)' : submit'[p].seen[v] = submit[p].seen[v]
  BY <1>2, <1>3 DEF Bought
<1>8. \A p \in Submits : p # s => Bought(p)' = Bought(p)
  BY <1>2 DEF Bought
<1>9. \A p \in Submits : Placed(p)' = Placed(p) /\ Own(p)' = Own(p) /\ (Placed(p) => p # s)
  BY DEF Placed, Own
<1>10. \A p \in Submits : InTx(p)' => InTx(p) /\ p # s
  BY <1>2, <1>3 DEF InTx
<1>11. \A k : WithKey(k)' = WithKey(k)
  BY <1>2, <1>9 DEF WithKey, Placed
<1>12. TypeOK'
  <2>1. \A p \in Submits : /\ submit'[p].at \in Steps /\ submit'[p].seen \in Carts
                           /\ submit'[p].uses \subseteq Resources
                           /\ submit'[p].answer \in Submits \cup {Nobody, Refused}
                           /\ submit'[p].key \in KeysOf[p] \cup {NoKey}
    BY <1>2, <1>3 DEF IInv, TypeOK, SubmitRow
  <2>2. \A t \in Txs : ~ Running(t)' => held'[t] = {} /\ todo'[t] = {}
    <3>1. \A t \in Txs : t # Buyer(s) => Running(t)' = Running(t)
      <4>1. SUFFICES ASSUME NEW p \in Submits
                     PROVE  /\ p # s => Running(Buyer(p))' = Running(Buyer(p))
                            /\ Running(Closer(p))' = Running(Closer(p))
        BY TxIsOne
      <4>2. QED BY <1>2 DEF Running, Buyer, Closer
    <3>2. QED BY <1>4, <1>5, <3>1 DEF IInv, TypeOK
  <2>3. QED BY <1>1, <2>1, <2>2 DEF IInv, TypeOK, Typed
<1>13. (Lifecycle /\ LocksKept)'
  <2>1. Lifecycle'
    BY <1>2, <1>9 DEF IInv, Lifecycle, Placed
  <2>2. \A p \in Submits : p # s => PlaceLocks(p, submit[p].uses)' = PlaceLocks(p, submit[p].uses)
    BY <1>2 DEF PlaceLocks, KeyRow, Own
  <2>3. QED BY <1>2, <1>6, <1>10, <2>1, <2>2 DEF IInv, LocksKept
<1>14. (NoTwoHold /\ LockedIsEnough)'
  <2>1. NoTwoHold'
    BY <1>4, <1>6 DEF IInv, NoTwoHold
  <2>2. \A p \in Submits : p # s => KeyLock(p)' = KeyLock(p)
    BY <1>2 DEF KeyLock, KeyRow
  <2>3. QED BY <1>2, <1>6, <1>10, <1>11, <2>1, <2>2 DEF IInv, LockedIsEnough, Left
<1>15. (LinesApart /\ SeenIsOwn)'
  BY <1>7, <1>9 DEF IInv, LinesApart, SeenIsOwn
<1>16. BoughtIsGone'
  <2>1. SUFFICES ASSUME NEW p \in Submits, Placed(p)', NEW v \in Bought(p)'
                 PROVE  /\ cart'[Own(p)'][v].id # submit'[p].seen[v].id
                        /\ \A q \in Submits : InTx(q)' /\ CartLock(q)' \in held'[Buyer(q)] /\ v \in Bought(q)' =>
                             submit'[q].seen[v].id # submit'[p].seen[v].id
    BY DEF BoughtIsGone, Buyer
  <2>2. Placed(p) /\ v \in Bought(p) /\ submit'[p] = submit[p]
    BY <1>2, <1>8, <1>9, <2>1
  <2>3. \A q \in Submits : InTx(q)' => InTx(q) /\ CartLock(q)' = CartLock(q) /\ held'[Buyer(q)] = held[Buyer(q)]
                                       /\ Bought(q)' = Bought(q) /\ submit'[q] = submit[q]
    BY <1>2, <1>6, <1>8, <1>10 DEF CartLock, Own
  <2>4. QED BY <1>9, <2>2, <2>3 DEF IInv, BoughtIsGone
<1>17. BooksBalance'
  <2>1. \A r \in Resources : Takers(r)' = Takers(r)
    BY <1>2, <1>9 DEF Takers, Placed
  <2>2. QED BY <2>1 DEF IInv, BooksBalance
<1>18. (CartBoughtOnce /\ KeyPlacesOnce)'
  BY <1>2, <1>8, <1>9 DEF IInv, CartBoughtOnce, KeyPlacesOnce, Placed
<1>19. QED BY <1>1, <1>12, <1>13, <1>14, <1>15, <1>16, <1>17, <1>18 DEF IInv

(* An idle checkout has no locks to give back.                             *)
LEMMA NothingHeld ==
  ASSUME IInv, NEW s \in Submits, ~ InTx(s)
  PROVE  held = [held EXCEPT ![Buyer(s)] = {}] /\ todo = [todo EXCEPT ![Buyer(s)] = {}]
<1>1. held[Buyer(s)] = {} /\ todo[Buyer(s)] = {}
  BY TxsHave, RunningIs DEF IInv, TypeOK, InTx
<1>2. QED BY <1>1, TxsHave DEF IInv, Typed

LEMMA EndsBuyer ==
  ASSUME NEW s \in Submits, End(Buyer(s))
  PROVE  held' = [held EXCEPT ![Buyer(s)] = {}] /\ todo' = [todo EXCEPT ![Buyer(s)] = {}]
BY DEF End

(* Any answer to a submit that has placed no order.                        *)
LEMMA AnsweredInv ==
  ASSUME IInv, NEW s \in Submits, ~ Placed(s), NEW k \in KeysOf[s] \cup {NoKey},
         NEW a \in Submits \cup {Nobody, Refused}, AnsweredTo(s, k, a),
         held' = [held EXCEPT ![Buyer(s)] = {}], todo' = [todo EXCEPT ![Buyer(s)] = {}],
         UNCHANGED << cart, lines, changes, taken, order, closing, placed >>
  PROVE  IInv'
<1> DEFINE j == [Fresh EXCEPT !.at = "DONE", !.key = k, !.answer = a]
<1>1. j \in SubmitRow
  <2>1. "DONE" \in Steps /\ k \in (UNION {KeysOf[p] : p \in Submits}) \cup {NoKey}
    BY DEF Steps
  <2>2. QED BY <2>1, FreshType DEF SubmitRow
<1>2. j.key = k /\ j.at # "TX" /\ j.uses = {}
  BY FreshType, FreshFields DEF SubmitRow
<1>3. submit' = [submit EXCEPT ![s] = j]
  BY DEF AnsweredTo
<1> HIDE DEF j
<1>4. QED BY <1>1, <1>2, <1>3, MoveOn

LEMMA RowOf ==
  ASSUME IInv, NEW s \in Submits
  PROVE  submit[s] \in SubmitRow /\ submit[s].key \in KeysOf[s] \cup {NoKey} /\ submit[s].uses \subseteq Resources
BY DEF IInv, Typed, TypeOK

LEMMA NotPlaced ==
  ASSUME IInv, NEW s \in Submits, submit[s].at # "DONE"
  PROVE  ~ Placed(s)
BY DEF IInv, Lifecycle

LEMMA ReplayInv ==
  ASSUME IInv, NEW s \in Submits, ~ Placed(s), ~ InTx(s), NEW k \in KeysOf[s] \cup {NoKey}, Replay(s, k), Stays
  PROVE  IInv'
<1>1. PICK a \in Submits \cup {Nobody, Refused} : AnsweredTo(s, k, a)
  BY DEF Replay, WithKey
<1>2. QED BY <1>1, AnsweredInv, NothingHeld DEF Stays

LEMMA RecentOrRefusedInv ==
  ASSUME IInv, NEW s \in Submits, ~ Placed(s), ~ InTx(s), RecentOrRefused(s), Stays
  PROVE  IInv'
<1>1. PICK a \in Submits \cup {Nobody, Refused} : AnsweredTo(s, submit[s].key, a)
  BY DEF RecentOrRefused, Answered
<1>2. QED BY <1>1, AnsweredInv, NothingHeld, RowOf DEF Stays

LEMMA RefusedInv ==
  ASSUME IInv, NEW s \in Submits, ~ Placed(s), ~ InTx(s), Answered(s, Refused), Stays
  PROVE  IInv'
BY AnsweredInv, NothingHeld, RowOf DEF Stays, Answered

LEMMA KeyLookupInv ==
  ASSUME IInv, NEW s \in Submits, KeyLookup(s)
  PROVE  IInv'
<1>1. ~ Placed(s) /\ ~ InTx(s)
  BY NotPlaced DEF KeyLookup, InTx
<1>2. PICK k \in KeysOf[s] : Replay(s, k) \/ submit' = [submit EXCEPT ![s].at = "LOOKED", ![s].key = k]
  BY DEF KeyLookup
<1>3. CASE Replay(s, k)
  BY <1>1, <1>3, ReplayInv DEF KeyLookup
<1>4. CASE submit' = [submit EXCEPT ![s].at = "LOOKED", ![s].key = k]
  <2> DEFINE j == [submit[s] EXCEPT !.at = "LOOKED", !.key = k]
  <2>1. "LOOKED" \in Steps /\ k \in (UNION {KeysOf[p] : p \in Submits}) \cup {NoKey}
    BY DEF Steps
  <2>2. j \in SubmitRow /\ j.key = k /\ j.at # "TX" /\ j.uses = submit[s].uses /\ j.seen = submit[s].seen
    BY <2>1, RowOf DEF SubmitRow
  <2>3. submit' = [submit EXCEPT ![s] = j]
    BY <1>4 DEF IInv, Typed
  <2> HIDE DEF j
  <2>4. QED BY <1>1, <2>2, <2>3, MoveOn, NothingHeld DEF KeyLookup, Stays
<1>5. QED BY <1>2, <1>3, <1>4

LEMMA AfterFailureInv ==
  ASSUME IInv, NEW s \in Submits, AfterFailure(s)
  PROVE  IInv'
<1>1. ~ Placed(s) /\ ~ InTx(s) /\ Stays
  BY NotPlaced DEF AfterFailure, InTx
<1>2. Replay(s, submit[s].key) \/ RecentOrRefused(s) \/ Answered(s, Refused)
  BY DEF AfterFailure
<1>3. QED BY <1>1, <1>2, ReplayInv, RecentOrRefusedInv, RefusedInv, RowOf

LEMMA CrashPlaceInv ==
  ASSUME IInv, NEW s \in Submits, CrashPlace(s)
  PROVE  IInv'
<1>1. ~ Placed(s) /\ AnsweredTo(s, submit[s].key, Nobody) /\ End(Buyer(s))
  BY NotPlaced DEF CrashPlace, Answered, Buyer
<1>2. QED BY <1>1, AnsweredInv, EndsBuyer, RowOf DEF CrashPlace

-----------------------------------------------------------------------------
(* The transaction of a checkout.                                          *)

LEMMA UsesType ==
  ASSUME NEW c \in Customers, NEW q \in Requests, NEW wants \in SUBSET Variations
  PROVE  /\ UsesOf(c, q, wants) \subseteq Resources
         /\ \A v \in Variations : Goods(v) \in UsesOf(c, q, wants) => v \in wants
<1> DEFINE sales == {f \in wants \cap FlashItems : Left(Resource("FLASH", f, Nobody))}
           coupon == IF q.coupon /\ AllLeft(CouponUse(c)) THEN CouponUse(c) ELSE {}
<1>1. UsesOf(c, q, wants) = {Goods(v) : v \in wants} \cup (UNION {FlashUse(c, f) : f \in sales}) \cup Money(c, q.pay) \cup coupon
  BY DEF UsesOf
<1>2. q.pay \subseteq Purses
  BY RequestsAssumption
<1>3. Money(c, q.pay) \subseteq Money(c, Purses) /\ coupon \subseteq CouponUse(c)
  BY <1>2 DEF Money
<1>4. Money(c, Purses) \cup CouponUse(c) \subseteq Resources
  <2> DEFINE own(d) == Money(d, Purses) \cup CouponUse(d)
  <2>1. UNION {own(d) : d \in Customers} \subseteq Resources
    BY DEF Resources
  <2> HIDE DEF own
  <2>2. own(c) \subseteq Resources
    BY <2>1
  <2>3. QED BY <2>2 DEF own
<1>5. \A f \in FlashItems : FlashUse(c, f) \subseteq Resources
  <2>1. UNION {FlashUse(d, f) : d \in Customers, f \in FlashItems} \subseteq Resources
    BY DEF Resources
  <2>2. QED BY <2>1
<1>6. \A v \in wants : Goods(v) \in Resources
  BY DEF Resources
<1>7. \A r \in (UNION {FlashUse(c, f) : f \in sales}) \cup Money(c, q.pay) \cup coupon : r.kind # "VARIATION"
  <2>1. \A f \in FlashItems : \A r \in FlashUse(c, f) : r.kind # "VARIATION"
    BY DEF FlashUse, Resource
  <2>2. \A r \in UNION {FlashUse(c, f) : f \in sales} : r.kind # "VARIATION"
    BY <2>1
  <2>3. \A r \in Money(c, q.pay) : r.kind # "VARIATION"
    BY <1>2 DEF Money, Resource, Purses
  <2>4. \A r \in coupon : r.kind # "VARIATION"
    BY <1>3 DEF CouponUse, Resource
  <2> HIDE DEF sales, coupon
  <2>5. QED BY <2>2, <2>3, <2>4
<1>8. \A v, w \in Variations : Goods(v).kind = "VARIATION" /\ (Goods(v) = Goods(w) => v = w)
  BY DEF Goods, Resource
<1> HIDE DEF sales, coupon
<1>9. ASSUME NEW v \in Variations, Goods(v) \in UsesOf(c, q, wants)
      PROVE  v \in wants
  <2>1. Goods(v) \in {Goods(w) : w \in wants}
    BY <1>1, <1>7, <1>8, <1>9
  <2>2. QED BY <1>8, <2>1
<1>10. UNION {FlashUse(c, f) : f \in sales} \subseteq Resources
  BY <1>5 DEF sales
<1>11. QED BY <1>1, <1>3, <1>4, <1>6, <1>9, <1>10

(* The facts a submit that reads its cart needs.                           *)
LEMMA StartTx ==
  ASSUME IInv, NEW s \in Submits, submit[s].at = "LOOKED", NEW uses \in SUBSET Resources,
         \A v \in Variations : Goods(v) \in uses => cart[Own(s)][v] # NoLine,
         submit' = [submit EXCEPT ![s].at = "TX", ![s].seen = cart[Own(s)], ![s].uses = uses],
         todo' = [todo EXCEPT ![Buyer(s)] = PlaceLocks(s, uses)],
         UNCHANGED << cart, lines, changes, taken, order, closing, held, placed >>
  PROVE  IInv'
<1> DEFINE j == [submit[s] EXCEPT !.at = "TX", !.seen = cart[Own(s)], !.uses = uses]
<1>1. ~ Placed(s) /\ ~ InTx(s) /\ held[Buyer(s)] = {} /\ Own(s) \in Customers
  BY NotPlaced, TxsHave, RunningIs, OwnIsCustomer DEF InTx, IInv, TypeOK
<1>2. j \in SubmitRow /\ j.at = "TX" /\ j.key = submit[s].key /\ j.seen = cart[Own(s)] /\ j.uses = uses
  <2>1. "TX" \in Steps /\ cart[Own(s)] \in Carts
    BY <1>1 DEF Steps, IInv, TypeOK
  <2>2. QED BY <2>1, RowOf DEF SubmitRow
<1>3. submit' = [submit EXCEPT ![s] = j]
  BY DEF IInv, Typed
<1> HIDE DEF j
<1>4. PlaceLocks(s, uses) \subseteq Locks
  BY PlaceLocksType, RowOf
<1>5. Typed' /\ submit'[s] = j /\ \A p \in Submits : p # s => submit'[p] = submit[p]
  BY <1>2, <1>3, <1>4 DEF IInv, Typed
<1>6. /\ todo'[Buyer(s)] = PlaceLocks(s, uses)
      /\ \A t \in Txs : t # Buyer(s) => todo'[t] = todo[t]
      /\ held' = held
  BY TxsHave DEF IInv, Typed
<1>7. \A p \in Submits : Placed(p)' = Placed(p) /\ Own(p)' = Own(p) /\ (Placed(p) => p # s)
  BY <1>1 DEF Placed, Own
<1>8. \A p \in Submits : p # s => Bought(p)' = Bought(p) /\ InTx(p)' = InTx(p) /\ KeyLock(p)' = KeyLock(p)
                                  /\ PlaceLocks(p, submit[p].uses)' = PlaceLocks(p, submit[p].uses)
  BY <1>5 DEF Bought, InTx, KeyLock, KeyRow, PlaceLocks, Own
<1>9. \A k : WithKey(k)' = WithKey(k)
  BY <1>5, <1>7 DEF WithKey, Placed
<1>10. TypeOK'
  <2>1. \A p \in Submits : /\ submit'[p].at \in Steps /\ submit'[p].seen \in Carts
                           /\ submit'[p].uses \subseteq Resources
                           /\ submit'[p].answer \in Submits \cup {Nobody, Refused}
                           /\ submit'[p].key \in KeysOf[p] \cup {NoKey}
    BY <1>2, <1>5, RowOf DEF IInv, TypeOK, SubmitRow
  <2>2. \A t \in Txs : ~ Running(t)' => held'[t] = {} /\ todo'[t] = {}
    <3>1. \A t \in Txs : t # Buyer(s) => Running(t)' = Running(t)
      <4>1. SUFFICES ASSUME NEW p \in Submits
                     PROVE  /\ p # s => Running(Buyer(p))' = Running(Buyer(p))
                            /\ Running(Closer(p))' = Running(Closer(p))
        BY TxIsOne
      <4>2. QED BY <1>5 DEF Running, Buyer, Closer
    <3>2. Running(Buyer(s))'
      BY <1>2, <1>5 DEF Running, Buyer
    <3>3. QED BY <1>6, <3>1, <3>2 DEF IInv, TypeOK
  <2>3. QED BY <1>5, <2>1, <2>2 DEF IInv, TypeOK, Typed
<1>11. Lifecycle'
  BY <1>5, <1>7 DEF IInv, Lifecycle, Placed
<1>12. LocksKept'
  <2>1. PlaceLocks(s, submit[s].uses)' = PlaceLocks(s, uses)
    BY <1>2, <1>5 DEF PlaceLocks, KeyRow, Own
  <2>2. held'[Buyer(s)] \cup todo'[Buyer(s)] = PlaceLocks(s, uses)
    BY <1>1, <1>6
  <2>3. \A p \in Submits : p # s => todo'[Buyer(p)] = todo[Buyer(p)]
    BY <1>6, TxsHave, TxsDiffer
  <2>4. QED BY <1>6, <1>8, <1>5, <2>1, <2>2, <2>3 DEF IInv, LocksKept
<1>13. NoTwoHold'
  BY <1>6 DEF IInv, NoTwoHold
<1>14. LockedIsEnough'
  <2>1. held'[Buyer(s)] = {}
    BY <1>1, <1>6
  <2>2. QED BY <1>5, <1>6, <1>8, <1>9, <2>1 DEF IInv, LockedIsEnough, Left
<1>15. LinesApart'
  BY DEF IInv, LinesApart
<1>16. SeenIsOwn'
  <2>1. \A v \in Bought(s)' : v \in Variations /\ submit'[s].seen[v] = cart[Own(s)][v] /\ cart[Own(s)][v] # NoLine
    BY <1>2, <1>5 DEF Bought
  <2>a. \A p \in Submits : \A v \in Bought(p) : \A d \in Customers, w \in Variations :
          d # Own(p) => cart[d][w].id # submit[p].seen[v].id
    BY DEF IInv, SeenIsOwn
  <2>b. \A p, q \in Submits : \A v \in Bought(p), w \in Bought(q) :
          Own(q) # Own(p) => submit[q].seen[w].id # submit[p].seen[v].id
    BY DEF IInv, SeenIsOwn
  <2>c. \A c, d \in Customers, v, w \in Variations : c # d /\ cart[c][v] # NoLine => cart[c][v].id # cart[d][w].id
    BY DEF IInv, LinesApart
  <2>2. SUFFICES ASSUME NEW p \in Submits, NEW v \in Bought(p)'
                 PROVE  /\ submit'[p].seen[v].id \in 1 .. lines
                        /\ \A d \in Customers, w \in Variations : d # Own(p) => cart[d][w].id # submit'[p].seen[v].id
                        /\ \A q \in Submits : Own(q) # Own(p) =>
                             \A w \in Bought(q)' : submit'[q].seen[w].id # submit'[p].seen[v].id
    BY DEF SeenIsOwn, Own
  <2>3. CASE p = s
    <3>a. v \in Variations /\ submit'[p].seen[v] = cart[Own(s)][v] /\ cart[Own(s)][v] # NoLine /\ Own(p) = Own(s)
      <4>1. v \in Bought(s)'
        BY <2>3 DEF Bought
      <4>2. QED BY <2>1, <2>3, <4>1
    <3>1. submit'[p].seen[v].id \in 1 .. lines
      BY <1>1, <3>a DEF IInv, LinesApart
    <3>2. \A d \in Customers, w \in Variations : d # Own(p) => cart[d][w].id # submit'[p].seen[v].id
      BY <1>1, <2>c, <3>a
    <3>3. ASSUME NEW q \in Submits, Own(q) # Own(p), NEW w \in Bought(q)'
          PROVE  submit'[q].seen[w].id # submit'[p].seen[v].id
      <4>1. w \in Bought(q) /\ submit'[q] = submit[q]
        BY <1>5, <1>8, <2>3, <3>3
      <4>2. QED BY <1>1, <2>a, <3>a, <3>3, <4>1
    <3>4. QED BY <3>1, <3>2, <3>3
  <2>4. CASE p # s
    <3>1. v \in Bought(p) /\ submit'[p] = submit[p]
      BY <1>5, <1>8, <2>4
    <3>2. ASSUME NEW q \in Submits, Own(q) # Own(p), NEW w \in Bought(q)'
          PROVE  submit'[q].seen[w].id # submit'[p].seen[v].id
      <4>1. CASE q = s
        <5>1. w \in Bought(s)'
          BY <3>2, <4>1 DEF Bought
        <5>2. w \in Variations /\ submit'[q].seen[w] = cart[Own(s)][w] /\ Own(s) # Own(p)
          BY <2>1, <3>2, <4>1, <5>1
        <5>3. QED BY <1>1, <2>a, <3>1, <5>2
      <4>2. CASE q # s
        <5>1. w \in Bought(q) /\ submit'[q] = submit[q]
          BY <1>5, <1>8, <3>2, <4>2
        <5>2. QED BY <2>b, <3>1, <3>2, <5>1
      <4>3. QED BY <4>1, <4>2
    <3>3. QED BY <3>1, <3>2 DEF IInv, SeenIsOwn
  <2>5. QED BY <2>3, <2>4
<1>17. BoughtIsGone'
  <2>1. SUFFICES ASSUME NEW p \in Submits, Placed(p)', NEW v \in Bought(p)'
                 PROVE  /\ cart'[Own(p)'][v].id # submit'[p].seen[v].id
                        /\ \A q \in Submits : InTx(q)' /\ CartLock(q)' \in held'[Buyer(q)] /\ v \in Bought(q)' =>
                             submit'[q].seen[v].id # submit'[p].seen[v].id
    BY DEF BoughtIsGone, Buyer
  <2>2. Placed(p) /\ v \in Bought(p) /\ submit'[p] = submit[p]
    BY <1>5, <1>7, <1>8, <2>1
  <2>3. held'[Buyer(s)] = {}
    BY <1>1, <1>6
  <2>4. \A q \in Submits : q # s => InTx(q)' = InTx(q) /\ CartLock(q)' = CartLock(q)
                                    /\ Bought(q)' = Bought(q) /\ submit'[q] = submit[q]
    BY <1>5, <1>8 DEF CartLock, Own
  <2>5. cart'[Own(p)'][v].id # submit'[p].seen[v].id
    BY <1>7, <2>2 DEF IInv, BoughtIsGone
  <2>6. ASSUME NEW q \in Submits, InTx(q)', CartLock(q)' \in held'[Buyer(q)], v \in Bought(q)'
        PROVE  submit'[q].seen[v].id # submit'[p].seen[v].id
    <3>1. q # s
      BY <1>6, <2>3, <2>6
    <3>2. InTx(q) /\ CartLock(q) \in held[Buyer(q)] /\ v \in Bought(q) /\ submit'[q] = submit[q]
      BY <1>6, <2>4, <2>6, <3>1
    <3>3. QED BY <2>2, <3>2 DEF IInv, BoughtIsGone
  <2>7. QED BY <2>5, <2>6
<1>18. BooksBalance'
  <2>1. \A r \in Resources : Takers(r)' = Takers(r)
    BY <1>5, <1>7 DEF Takers, Placed
  <2>2. QED BY <2>1 DEF IInv, BooksBalance
<1>19. (CartBoughtOnce /\ KeyPlacesOnce)'
  <2>1. \A p \in Submits : Placed(p)' => Placed(p) /\ Bought(p)' = Bought(p) /\ submit'[p] = submit[p]
    BY <1>5, <1>7, <1>8
  <2>2. KeyPlacesOnce'
    BY <2>1 DEF IInv, KeyPlacesOnce, Placed
  <2>3. CartBoughtOnce'
    <3>1. SUFFICES ASSUME NEW p \in Submits, NEW q \in Submits, p # q, Placed(p)', Placed(q)',
                          NEW v \in Bought(p)' \cap Bought(q)'
                   PROVE  submit'[p].seen[v].id # submit'[q].seen[v].id
      BY DEF CartBoughtOnce, Placed
    <3>2. Placed(p) /\ Placed(q) /\ v \in Bought(p) /\ v \in Bought(q) /\ submit'[p] = submit[p] /\ submit'[q] = submit[q]
      BY <2>1, <3>1
    <3>3. QED BY <3>1, <3>2 DEF IInv, CartBoughtOnce, Placed
  <2>4. QED BY <2>2, <2>3
<1>20. QED BY <1>5, <1>10, <1>11, <1>12, <1>13, <1>14, <1>15, <1>16, <1>17, <1>18, <1>19 DEF IInv

LEMMA ReadCartInv ==
  ASSUME IInv, NEW s \in Submits, ReadCart(s)
  PROVE  IInv'
<1>1. ~ Placed(s) /\ ~ InTx(s) /\ submit[s].at = "LOOKED" /\ Own(s) \in Customers
  BY NotPlaced, OwnIsCustomer DEF ReadCart, InTx
<1>2. PICK q \in Requests :
        LET c == Own(s)
            wants == {v \in q.wants : cart[c][v] # NoLine}
        IN  \/ RecentOrRefused(s) /\ Stays
            \/ Answered(s, Refused) /\ Stays
            \/ /\ submit' = [submit EXCEPT ![s].at = "TX", ![s].seen = cart[c], ![s].uses = UsesOf(c, q, wants)]
               /\ todo' = [todo EXCEPT ![<<"PLACE", s>>] = PlaceLocks(s, UsesOf(c, q, wants))]
               /\ UNCHANGED << cart, lines, changes, taken, order, closing, held, placed >>
  BY DEF ReadCart
<1> DEFINE wants == {v \in q.wants : cart[Own(s)][v] # NoLine}
           uses == UsesOf(Own(s), q, wants)
<1>3. wants \subseteq Variations
  BY RequestsAssumption
<1>4. uses \subseteq Resources /\ \A v \in Variations : Goods(v) \in uses => cart[Own(s)][v] # NoLine
  BY <1>1, <1>3, UsesType
<1>5. CASE RecentOrRefused(s) /\ Stays
  BY <1>1, <1>5, RecentOrRefusedInv
<1>6. CASE Answered(s, Refused) /\ Stays
  BY <1>1, <1>6, RefusedInv
<1>7. CASE /\ submit' = [submit EXCEPT ![s].at = "TX", ![s].seen = cart[Own(s)], ![s].uses = uses]
           /\ todo' = [todo EXCEPT ![Buyer(s)] = PlaceLocks(s, uses)]
           /\ UNCHANGED << cart, lines, changes, taken, order, closing, held, placed >>
  <2> HIDE DEF uses
  <2>1. QED BY <1>1, <1>4, <1>7, StartTx
<1>8. QED BY <1>2, <1>5, <1>6, <1>7 DEF Buyer

LEMMA ConflictIsMutual == \A l, m : Conflict(l, m) => Conflict(m, l)
BY DEF Conflict, ModesConflict

LEMMA TakeLockInv ==
  ASSUME IInv, NEW s \in Submits, TakeLock(s)
  PROVE  IInv'
<1>1. PICK l \in todo[Buyer(s)] :
        /\ Free(Buyer(s), l)
        /\ \/ Enough(s, l.row) /\ Got(Buyer(s), l) /\ UNCHANGED submit
           \/ /\ End(Buyer(s))
              /\ submit' = [submit EXCEPT ![s].at = "FAILED",
                               ![s].why = IF l.row.kind = "CART" /\ Consumed(s) THEN "CONSUMED" ELSE l.row.kind]
  BY DEF TakeLock, Buyer
<1>2. InTx(s) /\ ~ Placed(s) /\ UNCHANGED << cart, lines, changes, taken, order, closing, placed >>
  BY NotPlaced DEF TakeLock, InTx
<1>3. l \in Locks /\ Buyer(s) \in Txs
  BY TxsHave DEF IInv, Typed
<1>4. CASE /\ End(Buyer(s))
           /\ submit' = [submit EXCEPT ![s].at = "FAILED",
                            ![s].why = IF l.row.kind = "CART" /\ Consumed(s) THEN "CONSUMED" ELSE l.row.kind]
  <2> DEFINE why == IF l.row.kind = "CART" /\ Consumed(s) THEN "CONSUMED" ELSE l.row.kind
             j == [submit[s] EXCEPT !.at = "FAILED", !.why = why]
  <2>1. "FAILED" \in Steps /\ why \in Kinds \cup {"", "CONSUMED"}
    BY <1>3 DEF Steps, Locks
  <2>2. submit' = [submit EXCEPT ![s] = j]
    BY <1>4 DEF IInv, Typed
  <2> HIDE DEF why
  <2>3. j \in SubmitRow /\ j.key = submit[s].key /\ j.at # "TX" /\ j.uses = submit[s].uses /\ j.seen = submit[s].seen
    BY <2>1, RowOf DEF SubmitRow
  <2> HIDE DEF j
  <2>4. QED BY <1>2, <1>4, <2>2, <2>3, MoveOn, EndsBuyer, RowOf
<1>5. CASE Enough(s, l.row) /\ Got(Buyer(s), l) /\ UNCHANGED submit
  <2>1. held'[Buyer(s)] = held[Buyer(s)] \cup {l} /\ todo'[Buyer(s)] = todo[Buyer(s)] \ {l}
    BY <1>3, <1>5 DEF Got, IInv, Typed
  <2>2. \A t \in Txs : t # Buyer(s) => held'[t] = held[t] /\ todo'[t] = todo[t]
    BY <1>5 DEF Got, IInv, Typed
  <2>3. \A p \in Submits : p # s => held'[Buyer(p)] = held[Buyer(p)] /\ todo'[Buyer(p)] = todo[Buyer(p)]
    BY <2>2, TxsHave, TxsDiffer
  <2>4. Typed'
    BY <1>3, <1>5 DEF Got, IInv, Typed
  <2>5. TypeOK'
    <3>1. \A t \in Txs : ~ Running(t)' => held'[t] = {} /\ todo'[t] = {}
      <4>1. \A t \in Txs : Running(t)' = Running(t)
        BY <1>2, <1>5 DEF Running
      <4>2. Running(Buyer(s))
        BY <1>2, RunningIs DEF InTx
      <4>3. QED BY <2>2, <4>1, <4>2 DEF IInv, TypeOK
    <3>2. QED BY <1>2, <1>5, <2>4, <3>1 DEF IInv, TypeOK, Typed
  <2>6. LocksKept'
    <3>1. held'[Buyer(s)] \cup todo'[Buyer(s)] = held[Buyer(s)] \cup todo[Buyer(s)]
      BY <2>1
    <3>2. QED BY <1>2, <1>5, <2>3, <3>1 DEF IInv, LocksKept, InTx, PlaceLocks, KeyRow
  <2>7. NoTwoHold'
    <3>1. \A p \in Submits : p # s => \A m \in held[Buyer(p)] : ~ Conflict(l, m) /\ ~ Conflict(m, l)
      BY <1>1, TxsHave, TxsDiffer, ConflictIsMutual DEF Free, Blocks
    <3>2. QED BY <2>1, <2>3, <3>1 DEF IInv, NoTwoHold
  <2>8. LockedIsEnough'
    <3>1. \A r \in submit[s].uses : UseLock(r) = l => Left(r)
      <4>1. SUFFICES ASSUME NEW r \in submit[s].uses, UseLock(r) = l PROVE Left(r)
        OBVIOUS
      <4>2. r \in Resources /\ l.row = r
        BY <4>1, RowOf DEF UseLock, Lock
      <4>3. r.kind \notin {"CART", "KEY", "USER"}
        BY <4>2, ResourceShape DEF Purses
      <4>4. QED BY <1>5, <4>2, <4>3 DEF Enough
    <3>2. KeyLock(s) = l => WithKey(submit[s].key) = {}
      <4>1. SUFFICES ASSUME KeyLock(s) = l PROVE WithKey(submit[s].key) = {}
        OBVIOUS
      <4>2. l.row.kind = "KEY"
        BY <4>1 DEF KeyLock, KeyRow, Lock, Resource
      <4>3. l.row \notin Resources
        BY <4>2, ResourceShape DEF Purses
      <4>4. QED BY <1>5, <4>2, <4>3 DEF Enough
    <3>3. QED BY <1>2, <1>5, <2>1, <2>3, <3>1, <3>2 DEF IInv, LockedIsEnough, InTx, Left, WithKey, KeyLock, KeyRow
  <2>9. BoughtIsGone'
    <3>1. SUFFICES ASSUME NEW p \in Submits, Placed(p), NEW v \in Bought(p)
                   PROVE  /\ cart[Own(p)][v].id # submit[p].seen[v].id
                          /\ \A q \in Submits : InTx(q) /\ CartLock(q) \in held'[Buyer(q)] /\ v \in Bought(q) =>
                               submit[q].seen[v].id # submit[p].seen[v].id
      BY <1>2, <1>5 DEF BoughtIsGone, Placed, Bought, Own, InTx, CartLock
    <3>2. cart[Own(p)][v].id # submit[p].seen[v].id
      BY <3>1 DEF IInv, BoughtIsGone
    <3>3. ASSUME NEW q \in Submits, InTx(q), CartLock(q) \in held'[Buyer(q)], v \in Bought(q)
          PROVE  submit[q].seen[v].id # submit[p].seen[v].id
      <4>1. CASE q # s \/ CartLock(q) \in held[Buyer(q)]
        BY <2>3, <3>1, <3>3, <4>1 DEF IInv, BoughtIsGone
      <4>2. CASE q = s /\ CartLock(s) = l
        <5>1. l.row.kind = "CART"
          BY <4>2 DEF CartLock, Lock, Resource
        <5>2. l.row \notin Resources
          BY <5>1, ResourceShape DEF Purses
        <5>3. cart[Own(s)][v] = submit[s].seen[v]
          BY <1>5, <3>3, <4>2, <5>1, <5>2 DEF Enough, CartAsSeen
        <5>4. CASE Own(p) = Own(s)
          BY <3>2, <4>2, <5>3, <5>4
        <5>5. CASE Own(p) # Own(s)
          BY <3>1, <3>3, <4>2, <5>5 DEF IInv, SeenIsOwn
        <5>6. QED BY <5>4, <5>5
      <4>3. QED BY <2>1, <3>3, <4>1, <4>2
    <3>4. QED BY <3>2, <3>3
  <2>10. (Lifecycle /\ LinesApart /\ SeenIsOwn)'
    BY <1>2, <1>5 DEF IInv, Lifecycle, Placed, LinesApart, SeenIsOwn, Bought, Own
  <2>11. (BooksBalance /\ CartBoughtOnce /\ KeyPlacesOnce)'
    BY <1>2, <1>5 DEF IInv, BooksBalance, CartBoughtOnce, KeyPlacesOnce, Takers, Bought
  <2>12. QED BY <2>4, <2>5, <2>6, <2>7, <2>8, <2>9, <2>10, <2>11 DEF IInv
<1>6. QED BY <1>1, <1>4, <1>5

(* A checkout that commits has all its locks, so nobody else has one that  *)
(* conflicts, and all it locked is still enough.                           *)
LEMMA AllLocked ==
  ASSUME IInv, NEW s \in Submits, InTx(s), todo[Buyer(s)] = {}
  PROVE  /\ CartLock(s) \in held[Buyer(s)]
         /\ \A r \in submit[s].uses : r \in Resources /\ UseLock(r) \in held[Buyer(s)] /\ Left(r)
         /\ submit[s].key # NoKey => KeyLock(s) \in held[Buyer(s)] /\ WithKey(submit[s].key) = {}
         /\ \A p \in Submits : p # s =>
              /\ Own(p) = Own(s) => CartLock(p) \notin held[Buyer(p)]
              /\ \A r \in submit[s].uses : UseLock(r) \notin held[Buyer(p)]
              /\ submit[s].key # NoKey /\ submit[p].key = submit[s].key => KeyLock(p) \notin held[Buyer(p)]
<1>1. held[Buyer(s)] = PlaceLocks(s, submit[s].uses)
  BY DEF IInv, LocksKept
<1>2. CartLock(s) \in held[Buyer(s)]
  BY <1>1 DEF PlaceLocks, CartLock
<1>3. \A r \in submit[s].uses : r \in Resources /\ UseLock(r) \in held[Buyer(s)]
  BY <1>1, RowOf DEF PlaceLocks, UseLock
<1>4. submit[s].key # NoKey => KeyLock(s) \in held[Buyer(s)]
  BY <1>1 DEF PlaceLocks, KeyLock
<1>5. /\ \A r \in submit[s].uses : Left(r)
      /\ submit[s].key # NoKey => WithKey(submit[s].key) = {}
  BY <1>3, <1>4 DEF IInv, LockedIsEnough
<1>6. \A p \in Submits : p # s =>
         /\ Own(p) = Own(s) => CartLock(p) \notin held[Buyer(p)]
         /\ \A r \in submit[s].uses : UseLock(r) \notin held[Buyer(p)]
         /\ submit[s].key # NoKey /\ submit[p].key = submit[s].key => KeyLock(p) \notin held[Buyer(p)]
  BY <1>2, <1>3, <1>4, SameLockConflicts DEF IInv, NoTwoHold
<1>7. QED BY <1>2, <1>3, <1>4, <1>5, <1>6

LEMMA PlaceInv ==
  ASSUME IInv, NEW s \in Submits, Place(s)
  PROVE  IInv'
<1> DEFINE uses == submit[s].uses
           j == [submit[s] EXCEPT !.at = "DONE", !.answer = s]
<1>1. InTx(s) /\ ~ Placed(s) /\ todo[Buyer(s)] = {} /\ UNCHANGED << lines, changes, closing >>
  BY NotPlaced DEF Place, InTx, Buyer
<1>2. /\ CartLock(s) \in held[Buyer(s)]
      /\ \A r \in uses : r \in Resources /\ UseLock(r) \in held[Buyer(s)] /\ Left(r)
      /\ submit[s].key # NoKey => WithKey(submit[s].key) = {}
      /\ \A p \in Submits : p # s =>
           /\ Own(p) = Own(s) => CartLock(p) \notin held[Buyer(p)]
           /\ \A r \in uses : UseLock(r) \notin held[Buyer(p)]
           /\ submit[s].key # NoKey /\ submit[p].key = submit[s].key => KeyLock(p) \notin held[Buyer(p)]
  BY <1>1, AllLocked
<1>3. submit' = [submit EXCEPT ![s] = j]
  BY DEF Place, IInv, Typed
<1>4. j \in SubmitRow /\ j.at = "DONE" /\ j.key = submit[s].key /\ j.uses = uses /\ j.seen = submit[s].seen
  <2>1. "DONE" \in Steps
    BY DEF Steps
  <2>2. QED BY <2>1, RowOf DEF SubmitRow
<1> HIDE DEF j
<1>5. submit'[s] = j /\ (\A p \in Submits : p # s => submit'[p] = submit[p]) /\ submit' \in [Submits -> SubmitRow]
  BY <1>3, <1>4 DEF IInv, Typed
<1>6. order'[s] = "OPEN" /\ (\A p \in Submits : p # s => order'[p] = order[p])
      /\ order' \in [Submits -> {"NONE", "OPEN", "CANCELLED"}]
  BY DEF Place, IInv, TypeOK
<1>7. /\ held'[Buyer(s)] = {} /\ todo'[Buyer(s)] = {}
      /\ \A t \in Txs : t # Buyer(s) => held'[t] = held[t] /\ todo'[t] = todo[t]
      /\ held' \in [Txs -> SUBSET Locks] /\ todo' \in [Txs -> SUBSET Locks]
  BY TxsHave DEF Place, End, IInv, Typed, Buyer
<1>8. \A p \in Submits : p # s => held'[Buyer(p)] = held[Buyer(p)] /\ todo'[Buyer(p)] = todo[Buyer(p)]
  BY <1>7, TxsHave, TxsDiffer
<1>9. \A p \in Submits : Bought(p)' = Bought(p) /\ submit'[p].seen = submit[p].seen /\ submit'[p].key = submit[p].key
                         /\ submit'[p].uses = submit[p].uses
  <2>1. \A p \in Submits : submit'[p].seen = submit[p].seen /\ submit'[p].key = submit[p].key /\ submit'[p].uses = submit[p].uses
    BY <1>4, <1>5
  <2>2. QED BY <2>1 DEF Bought
<1>10. Own(s) \in Customers /\ \A p \in Submits : Own(p) \in Customers /\ Own(p)' = Own(p)
  BY OwnIsCustomer DEF Own
<1>11. /\ cart' \in [Customers -> Carts]
       /\ \A d \in Customers, w \in Variations : cart'[d][w] = cart[d][w] \/ cart'[d][w] = NoLine
       /\ \A v \in Bought(s) : cart'[Own(s)][v] = NoLine \/ cart'[Own(s)][v].id # submit[s].seen[v].id
  <2> DEFINE new == [v \in Variations |-> IF v \in Bought(s) /\ cart[Own(s)][v].id = submit[s].seen[v].id
                                          THEN NoLine ELSE cart[Own(s)][v]]
  <2>1. cart' = [cart EXCEPT ![Own(s)] = new]
    BY DEF Place
  <2>2. cart \in [Customers -> [Variations -> Lines]]
    BY DEF IInv, TypeOK, Carts
  <2>3. new \in [Variations -> Lines]
    BY <1>10, <2>2, FreshType
  <2>4. \A v \in Bought(s) : v \in Variations
    BY DEF Bought
  <2>5. QED BY <1>10, <2>1, <2>2, <2>3, <2>4 DEF Carts
<1>12. NoLine.id = 0 /\ \A p \in Submits : \A v \in Bought(p) : submit[p].seen[v].id \in 1 .. lines /\ submit[p].seen[v].id # 0
  BY DEF NoLine, IInv, SeenIsOwn
<1>13. /\ taken' \in [Resources -> Nat]
       /\ \A r \in Resources : taken'[r] = taken[r] + (IF r \in uses THEN 1 ELSE 0)
  <2>1. taken' = [r \in Resources |-> taken[r] + (IF r \in uses THEN 1 ELSE 0)]
    BY DEF Place
  <2>2. taken \in [Resources -> Nat]
    BY DEF IInv, TypeOK
  <2>3. QED BY <2>1, <2>2
<1>14. \A p \in Submits : InTx(p)' => InTx(p) /\ p # s /\ submit'[p] = submit[p] /\ CartLock(p)' = CartLock(p)
                                      /\ KeyLock(p)' = KeyLock(p)
  BY <1>4, <1>5 DEF InTx, CartLock, KeyLock, KeyRow, Own
<1>15. Typed'
  BY <1>5, <1>7 DEF Typed
<1>16. TypeOK'
  <2>1. \A p \in Submits : /\ submit'[p].at \in Steps /\ submit'[p].seen \in Carts
                           /\ submit'[p].uses \subseteq Resources
                           /\ submit'[p].answer \in Submits \cup {Nobody, Refused}
                           /\ submit'[p].key \in KeysOf[p] \cup {NoKey}
    BY <1>5, <1>9, RowOf DEF SubmitRow
  <2>2. \A t \in Txs : ~ Running(t)' => held'[t] = {} /\ todo'[t] = {}
    <3>1. \A t \in Txs : t # Buyer(s) => Running(t)' = Running(t)
      <4>1. SUFFICES ASSUME NEW p \in Submits
                     PROVE  /\ p # s => Running(Buyer(p))' = Running(Buyer(p))
                            /\ Running(Closer(p))' = Running(Closer(p))
        BY TxIsOne
      <4>2. QED BY <1>1, <1>5 DEF Running, Buyer, Closer
    <3>2. QED BY <1>7, <3>1 DEF IInv, TypeOK
  <2>3. placed' \in Seq(Submits)
    BY DEF Place, IInv, TypeOK
  <2>4. QED BY <1>1, <1>6, <1>7, <1>11, <1>13, <2>1, <2>2, <2>3 DEF IInv, TypeOK
<1>17. Lifecycle'
  BY <1>1, <1>4, <1>5, <1>6 DEF IInv, Lifecycle, Placed
<1>18. LocksKept'
  <2>1. \A p \in Submits : p # s => PlaceLocks(p, submit[p].uses)' = PlaceLocks(p, submit[p].uses)
    BY <1>5 DEF PlaceLocks, KeyRow, Own
  <2>2. QED BY <1>5, <1>8, <1>14, <2>1 DEF IInv, LocksKept
<1>19. NoTwoHold'
  BY <1>7, <1>8 DEF IInv, NoTwoHold
<1>20. LockedIsEnough'
  <2>1. SUFFICES ASSUME NEW p \in Submits, InTx(p), p # s
                 PROVE  /\ \A r \in submit[p].uses : UseLock(r) \in held[Buyer(p)] => Left(r)'
                        /\ submit[p].key # NoKey /\ KeyLock(p) \in held[Buyer(p)] => WithKey(submit[p].key)' = {}
    BY <1>8, <1>14 DEF LockedIsEnough
  <2>2. ASSUME NEW r \in submit[p].uses, UseLock(r) \in held[Buyer(p)]
        PROVE  Left(r)'
    <3>1. Left(r) /\ r \in Resources
      BY <2>1, <2>2, RowOf DEF IInv, LockedIsEnough
    <3>2. r \notin uses
      BY <1>2, <2>1, <2>2
    <3>3. taken'[r] = taken[r] /\ taken[r] \in Nat
      BY <1>13, <3>1, <3>2 DEF IInv, TypeOK
    <3>4. QED BY <3>1, <3>3 DEF Left
  <2>3. ASSUME submit[p].key # NoKey, KeyLock(p) \in held[Buyer(p)]
        PROVE  WithKey(submit[p].key)' = {}
    <3>1. WithKey(submit[p].key) = {}
      BY <2>1, <2>3 DEF IInv, LockedIsEnough
    <3>2. submit[s].key # submit[p].key
      BY <1>2, <2>1, <2>3
    <3>3. \A q \in Submits : order'[q] # "NONE" /\ submit'[q].key = submit[p].key => order[q] # "NONE" /\ submit[q].key = submit[p].key
      BY <1>6, <1>9, <3>2
    <3>4. submit'[p].key = submit[p].key
      BY <1>9
    <3>5. QED BY <2>1, <2>3, <3>1, <3>3, <3>4 DEF WithKey
  <2>4. QED BY <2>2, <2>3
<1>21. LinesApart'
  <2>1. SUFFICES ASSUME NEW c \in Customers, NEW d \in Customers, NEW v \in Variations, NEW w \in Variations,
                        cart'[c][v] # NoLine
                 PROVE  cart'[c][v].id \in 1 .. lines /\ (<<c, v>> # <<d, w>> => cart'[c][v].id # cart'[d][w].id)
    BY <1>1 DEF LinesApart
  <2>2. cart'[c][v] = cart[c][v] /\ cart[c][v] # NoLine
    BY <1>11, <2>1
  <2>3. cart[c][v].id \in 1 .. lines /\ (<<c, v>> # <<d, w>> => cart[c][v].id # cart[d][w].id)
    BY <2>2 DEF IInv, LinesApart
  <2>4. cart'[d][w] = cart[d][w] \/ cart'[d][w].id = 0
    BY <1>11, <1>12
  <2>5. QED BY <2>2, <2>3, <2>4
<1>22. SeenIsOwn'
  <2>1. SUFFICES ASSUME NEW p \in Submits, NEW v \in Bought(p)
                 PROVE  /\ submit[p].seen[v].id \in 1 .. lines
                        /\ \A d \in Customers, w \in Variations : d # Own(p) => cart'[d][w].id # submit[p].seen[v].id
                        /\ \A q \in Submits : Own(q) # Own(p) => \A w \in Bought(q) : submit[q].seen[w].id # submit[p].seen[v].id
    BY <1>1, <1>9, <1>10 DEF SeenIsOwn
  <2>2. \A d \in Customers, w \in Variations : d # Own(p) => cart[d][w].id # submit[p].seen[v].id
    BY DEF IInv, SeenIsOwn
  <2>3. \A d \in Customers, w \in Variations : d # Own(p) => cart'[d][w].id # submit[p].seen[v].id
    BY <1>11, <1>12, <2>2
  <2>4. QED BY <1>12, <2>3 DEF IInv, SeenIsOwn
<1>23. BoughtIsGone'
  <2>1. SUFFICES ASSUME NEW p \in Submits, Placed(p)', NEW v \in Bought(p)
                 PROVE  /\ cart'[Own(p)][v].id # submit[p].seen[v].id
                        /\ \A q \in Submits : InTx(q)' /\ CartLock(q)' \in held'[Buyer(q)] /\ v \in Bought(q) =>
                             submit[q].seen[v].id # submit[p].seen[v].id
    BY <1>9, <1>10 DEF BoughtIsGone, Buyer
  <2>2. v \in Variations /\ submit[p].seen[v].id # 0
    BY <1>12 DEF Bought
  <2>3. CASE p = s
    <3>1. cart'[Own(p)][v].id # submit[p].seen[v].id
      BY <1>11, <1>12, <2>2, <2>3
    <3>2. ASSUME NEW q \in Submits, InTx(q)', CartLock(q)' \in held'[Buyer(q)], v \in Bought(q)
          PROVE  submit[q].seen[v].id # submit[p].seen[v].id
      <4>1. q # s /\ CartLock(q) \in held[Buyer(q)]
        BY <1>8, <1>14, <3>2
      <4>2. Own(q) # Own(s)
        BY <1>2, <4>1
      <4>3. QED BY <2>3, <3>2, <4>2 DEF IInv, SeenIsOwn
    <3>3. QED BY <3>1, <3>2
  <2>4. CASE p # s
    <3>1. Placed(p)
      BY <1>6, <2>1, <2>4 DEF Placed
    <3>2. cart[Own(p)][v].id # submit[p].seen[v].id
      BY <3>1 DEF IInv, BoughtIsGone
    <3>3. cart'[Own(p)][v].id # submit[p].seen[v].id
      BY <1>10, <1>11, <1>12, <2>2, <3>2
    <3>4. ASSUME NEW q \in Submits, InTx(q)', CartLock(q)' \in held'[Buyer(q)], v \in Bought(q)
          PROVE  submit[q].seen[v].id # submit[p].seen[v].id
      <4>1. InTx(q) /\ CartLock(q) \in held[Buyer(q)]
        BY <1>8, <1>14, <3>4
      <4>2. QED BY <3>1, <3>4, <4>1 DEF IInv, BoughtIsGone
    <3>5. QED BY <3>3, <3>4
  <2>5. QED BY <2>3, <2>4
<1>24. BooksBalance'
  <2>1. SUFFICES ASSUME NEW r \in Resources
                 PROVE  taken'[r] = Cardinality(Takers(r)') /\ taken'[r] <= Limit[r]
    BY DEF BooksBalance, Takers
  <2>2. taken[r] = Cardinality(Takers(r)) /\ taken[r] <= Limit[r] /\ taken[r] \in Nat /\ Limit[r] \in Nat
    BY BoundsAssumption DEF IInv, BooksBalance, TypeOK
  <2>3. CASE r \in uses
    <3>1. Takers(r)' = Takers(r) \cup {s}
      BY <1>6, <1>9, <2>3 DEF Takers
    <3>2. s \notin Takers(r)
      BY <1>1 DEF Takers, Placed
    <3>3. Cardinality(Takers(r) \cup {s}) = Cardinality(Takers(r)) + 1
      BY <3>2, TakersFinite, FS_AddElement
    <3>4. taken[r] < Limit[r]
      BY <1>2, <2>3 DEF Left
    <3>5. QED BY <1>13, <2>2, <2>3, <3>1, <3>3, <3>4
  <2>4. CASE r \notin uses
    <3>1. Takers(r)' = Takers(r)
      BY <1>1, <1>6, <1>9, <2>4 DEF Takers, Placed
    <3>2. QED BY <1>13, <2>2, <2>4, <3>1
  <2>5. QED BY <2>3, <2>4
<1>25. CartBoughtOnce'
  <2>1. ASSUME NEW p \in Submits, p # s, Placed(p), NEW v \in Bought(s), v \in Bought(p)
        PROVE  submit[s].seen[v].id # submit[p].seen[v].id
    BY <1>1, <1>2, <2>1 DEF IInv, BoughtIsGone
  <2>2. SUFFICES ASSUME NEW p \in Submits, NEW q \in Submits, p # q, order'[p] # "NONE", order'[q] # "NONE",
                        NEW v \in Bought(p), v \in Bought(q)
                 PROVE  submit[p].seen[v].id # submit[q].seen[v].id
    BY <1>9 DEF CartBoughtOnce
  <2>3. CASE p = s
    BY <1>6, <2>1, <2>2, <2>3 DEF Placed
  <2>4. CASE q = s
    BY <1>6, <2>1, <2>2, <2>4 DEF Placed
  <2>5. CASE p # s /\ q # s
    BY <1>6, <2>2, <2>5 DEF IInv, CartBoughtOnce
  <2>6. QED BY <2>3, <2>4, <2>5
<1>26. KeyPlacesOnce'
  <2>1. \A p \in Submits : p # s /\ order[p] # "NONE" => submit[s].key = NoKey \/ submit[p].key # submit[s].key
    BY <1>2 DEF WithKey
  <2>2. QED BY <1>6, <1>9, <2>1 DEF IInv, KeyPlacesOnce
<1>27. QED BY <1>15, <1>16, <1>17, <1>18, <1>19, <1>20, <1>21, <1>22, <1>23, <1>24, <1>25, <1>26 DEF IInv

-----------------------------------------------------------------------------
(* The cancellation.                                                       *)

(* A step of a cancellation that is over or has not written yet touches    *)
(* only its own locks.                                                     *)
LEMMA CloserMoves ==
  ASSUME IInv, NEW s \in Submits, order[s] = "OPEN",
         NEW c \in {"NONE", "TX", "DEAD"}, closing' = [closing EXCEPT ![s] = c],
         NEW H \in SUBSET Locks, NEW T \in SUBSET Locks, c # "TX" => H = {} /\ T = {},
         held' = [held EXCEPT ![Closer(s)] = H], todo' = [todo EXCEPT ![Closer(s)] = T],
         UNCHANGED << cart, lines, changes, taken, order, submit, placed >>
  PROVE  IInv'
<1>1. Closer(s) \in Txs /\ held'[Closer(s)] = H /\ todo'[Closer(s)] = T
  BY TxsHave DEF IInv, Typed
<1>2. \A t \in Txs : t # Closer(s) => held'[t] = held[t] /\ todo'[t] = todo[t]
  BY DEF IInv, Typed
<1>3. \A p \in Submits : held'[Buyer(p)] = held[Buyer(p)] /\ todo'[Buyer(p)] = todo[Buyer(p)]
  BY <1>2, TxsHave, TxsDiffer
<1>4. Typed'
  BY DEF IInv, Typed
<1>5. closing'[s] = c /\ (\A p \in Submits : p # s => closing'[p] = closing[p])
      /\ closing' \in [Submits -> {"NONE", "TX", "DONE", "DEAD"}]
  BY DEF IInv, TypeOK
<1>6. TypeOK'
  <2>1. \A t \in Txs : ~ Running(t)' => held'[t] = {} /\ todo'[t] = {}
    <3>1. \A t \in Txs : t # Closer(s) => Running(t)' = Running(t)
      <4>1. SUFFICES ASSUME NEW p \in Submits
                     PROVE  /\ Running(Buyer(p))' = Running(Buyer(p))
                            /\ p # s => Running(Closer(p))' = Running(Closer(p))
        BY TxIsOne
      <4>2. QED BY <1>5 DEF Running, Buyer, Closer
    <3>2. Running(Closer(s))' <=> c = "TX"
      BY <1>5 DEF Running, Closer
    <3>3. QED BY <1>1, <1>2, <3>1, <3>2 DEF IInv, TypeOK
  <2>2. QED BY <1>4, <1>5, <2>1 DEF IInv, TypeOK, Typed
<1>7. Lifecycle'
  BY <1>5 DEF IInv, Lifecycle, Placed
<1>8. (LocksKept /\ NoTwoHold /\ LockedIsEnough)'
  BY <1>3 DEF IInv, LocksKept, NoTwoHold, LockedIsEnough, InTx, PlaceLocks, KeyRow, KeyLock, Left, WithKey
<1>9. (LinesApart /\ SeenIsOwn)'
  BY DEF IInv, LinesApart, SeenIsOwn, Bought, Own
<1>10. BoughtIsGone'
  BY <1>3 DEF IInv, BoughtIsGone, Bought, Own, Placed, InTx, CartLock
<1>11. (BooksBalance /\ CartBoughtOnce /\ KeyPlacesOnce)'
  BY DEF IInv, BooksBalance, CartBoughtOnce, KeyPlacesOnce, Takers, Bought
<1>12. QED BY <1>4, <1>6, <1>7, <1>8, <1>9, <1>10, <1>11 DEF IInv

LEMMA StartCancelInv ==
  ASSUME IInv, NEW s \in Submits, StartCancel(s)
  PROVE  IInv'
<1>1. held[Closer(s)] = {} /\ Closer(s) \in Txs
  BY TxsHave, RunningIs DEF StartCancel, IInv, TypeOK
<1>2. held' = [held EXCEPT ![Closer(s)] = {}] /\ todo' = [todo EXCEPT ![Closer(s)] = CancelLocks(s)]
  BY <1>1 DEF StartCancel, Closer, IInv, Typed
<1>3. CancelLocks(s) \in SUBSET Locks
  BY CancelLocksType, RowOf
<1>4. QED BY <1>2, <1>3, CloserMoves DEF StartCancel

LEMMA TakeCancelLockInv ==
  ASSUME IInv, NEW s \in Submits, TakeCancelLock(s)
  PROVE  IInv'
<1>1. PICK l \in todo[Closer(s)] : Got(Closer(s), l)
  BY DEF TakeCancelLock, Closer
<1>2. held[Closer(s)] \cup {l} \in SUBSET Locks /\ todo[Closer(s)] \ {l} \in SUBSET Locks
  BY TxsHave DEF IInv, Typed
<1>3. /\ held' = [held EXCEPT ![Closer(s)] = held[Closer(s)] \cup {l}]
      /\ todo' = [todo EXCEPT ![Closer(s)] = todo[Closer(s)] \ {l}]
  BY <1>1 DEF Got
<1>4. order[s] = "OPEN" /\ closing[s] = "TX" /\ closing' = [closing EXCEPT ![s] = "TX"]
  BY DEF TakeCancelLock, IInv, Lifecycle, TypeOK
<1>5. QED BY <1>2, <1>3, <1>4, CloserMoves DEF TakeCancelLock

LEMMA CrashCancelInv ==
  ASSUME IInv, NEW s \in Submits, CrashCancel(s)
  PROVE  IInv'
<1>1. held' = [held EXCEPT ![Closer(s)] = {}] /\ todo' = [todo EXCEPT ![Closer(s)] = {}]
  BY DEF CrashCancel, End, Closer
<1>2. order[s] = "OPEN"
  BY DEF CrashCancel, IInv, Lifecycle
<1>3. {} \in SUBSET Locks
  OBVIOUS
<1>4. QED BY <1>1, <1>2, <1>3, CloserMoves DEF CrashCancel

(* All that the order took, and nothing else, goes back once.              *)
LEMMA CancelInv ==
  ASSUME IInv, NEW s \in Submits, Cancel(s)
  PROVE  IInv'
<1> DEFINE uses == submit[s].uses
<1>1. order[s] = "OPEN" /\ closing[s] = "TX" /\ UNCHANGED << cart, lines, changes, submit, placed >>
  BY DEF Cancel, IInv, Lifecycle
<1>2. /\ held' = [held EXCEPT ![Closer(s)] = {}] /\ todo' = [todo EXCEPT ![Closer(s)] = {}]
      /\ Closer(s) \in Txs
  BY TxsHave DEF Cancel, End, Closer
<1>3. \A t \in Txs : held'[t] = (IF t = Closer(s) THEN {} ELSE held[t]) /\ todo'[t] = (IF t = Closer(s) THEN {} ELSE todo[t])
  BY <1>2 DEF IInv, Typed
<1>4. \A p \in Submits : held'[Buyer(p)] = held[Buyer(p)] /\ todo'[Buyer(p)] = todo[Buyer(p)]
  BY <1>3, TxsHave, TxsDiffer
<1>5. Typed'
  BY <1>1, <1>2 DEF IInv, Typed
<1>6. /\ closing'[s] = "DONE" /\ (\A p \in Submits : p # s => closing'[p] = closing[p])
      /\ closing' \in [Submits -> {"NONE", "TX", "DONE", "DEAD"}]
      /\ order'[s] = "CANCELLED" /\ (\A p \in Submits : p # s => order'[p] = order[p])
      /\ order' \in [Submits -> {"NONE", "OPEN", "CANCELLED"}]
  BY DEF Cancel, IInv, TypeOK
<1>7. \A p \in Submits : Placed(p)' = Placed(p)
  BY <1>1, <1>6 DEF Placed
<1>8. \A r \in Resources : taken'[r] = IF r \in uses THEN GiveBack(taken[r]) ELSE taken[r]
  BY DEF Cancel
<1>9. taken' \in [Resources -> Nat] /\ \A r \in Resources : taken'[r] <= taken[r]
  <2>1. taken' = [r \in Resources |-> IF r \in uses THEN GiveBack(taken[r]) ELSE taken[r]]
    BY DEF Cancel
  <2>2. \A r \in Resources : taken[r] \in Nat
    BY DEF IInv, TypeOK
  <2>3. \A n \in Nat : GiveBack(n) \in Nat /\ GiveBack(n) <= n
    BY DEF GiveBack
  <2> HIDE DEF uses
  <2>4. QED BY <2>1, <2>2, <2>3
<1>10. TypeOK'
  <2>1. \A t \in Txs : ~ Running(t)' => held'[t] = {} /\ todo'[t] = {}
    <3>1. \A t \in Txs : t # Closer(s) => Running(t)' = Running(t)
      <4>1. SUFFICES ASSUME NEW p \in Submits
                     PROVE  /\ Running(Buyer(p))' = Running(Buyer(p))
                            /\ p # s => Running(Closer(p))' = Running(Closer(p))
        BY TxIsOne
      <4>2. QED BY <1>1, <1>6 DEF Running, Buyer, Closer
    <3>2. QED BY <1>3, <3>1 DEF IInv, TypeOK
  <2>2. QED BY <1>1, <1>5, <1>6, <1>9, <2>1 DEF IInv, TypeOK, Typed
<1>11. Lifecycle'
  BY <1>1, <1>6, <1>7 DEF IInv, Lifecycle, Placed
<1>12. (LocksKept /\ NoTwoHold)'
  BY <1>1, <1>4 DEF IInv, LocksKept, NoTwoHold, InTx, PlaceLocks, KeyRow
<1>13. LockedIsEnough'
  <2>1. \A r \in Resources : Left(r) => Left(r)'
    BY <1>9, BoundsAssumption DEF Left, IInv, TypeOK
  <2>2. \A k : WithKey(k)' = WithKey(k)
    BY <1>1, <1>7 DEF WithKey, Placed
  <2>3. \A p \in Submits : submit[p].uses \subseteq Resources
    BY RowOf
  <2>4. QED BY <1>1, <1>4, <2>1, <2>2, <2>3 DEF IInv, LockedIsEnough, InTx, KeyLock, KeyRow
<1>14. (LinesApart /\ SeenIsOwn)'
  BY <1>1 DEF IInv, LinesApart, SeenIsOwn, Bought, Own
<1>15. BoughtIsGone'
  BY <1>1, <1>4, <1>7 DEF IInv, BoughtIsGone, Bought, Own, InTx, CartLock
<1>16. BooksBalance'
  <2>1. SUFFICES ASSUME NEW r \in Resources
                 PROVE  taken'[r] = Cardinality(Takers(r)') /\ taken'[r] <= Limit[r]
    BY DEF BooksBalance, Takers
  <2>2. taken[r] = Cardinality(Takers(r)) /\ taken[r] <= Limit[r] /\ taken[r] \in Nat /\ Limit[r] \in Nat
    BY BoundsAssumption DEF IInv, BooksBalance, TypeOK
  <2>3. CASE r \in uses
    <3>1. Takers(r)' = Takers(r) \ {s} /\ s \in Takers(r)
      BY <1>1, <1>6, <2>3 DEF Takers
    <3>2. Cardinality(Takers(r) \ {s}) = Cardinality(Takers(r)) - 1
      BY <3>1, TakersFinite, FS_RemoveElement
    <3>3. Cardinality(Takers(r)) # 0
      BY <3>1, TakersFinite, FS_EmptySet
    <3>4. taken'[r] = taken[r] - 1
      BY <1>8, <2>2, <2>3, <3>3 DEF GiveBack
    <3>5. QED BY <2>2, <3>1, <3>2, <3>4
  <2>4. CASE r \notin uses
    <3>1. Takers(r)' = Takers(r)
      BY <1>1, <1>6, <2>4 DEF Takers
    <3>2. QED BY <1>8, <2>2, <2>4, <3>1
  <2>5. QED BY <2>3, <2>4
<1>17. (CartBoughtOnce /\ KeyPlacesOnce)'
  BY <1>1, <1>7 DEF IInv, CartBoughtOnce, KeyPlacesOnce, Bought, Placed
<1>18. QED BY <1>5, <1>10, <1>11, <1>12, <1>13, <1>14, <1>15, <1>16, <1>17 DEF IInv

LEMMA NextInv ==
  ASSUME IInv, [Next]_vars
  PROVE  IInv'
<1>1. CASE CustomerStep
  BY <1>1, CustomerStepInv
<1>2. ASSUME NEW s \in Submits, Proceeds(s)
      PROVE  IInv'
  BY <1>2, KeyLookupInv, ReadCartInv, TakeLockInv, PlaceInv, AfterFailureInv, TakeCancelLockInv, CancelInv DEF Proceeds
<1>3. ASSUME NEW s \in Submits, StartCancel(s)
      PROVE  IInv'
  BY <1>3, StartCancelInv
<1>4. ASSUME NEW s \in Submits, Fault(s)
      PROVE  IInv'
  BY <1>4, CrashPlaceInv, CrashCancelInv DEF Fault
<1>5. CASE UNCHANGED vars
  <2> USE <1>5 DEF vars
  <2>1. (TypeOK /\ Typed /\ Lifecycle)'
    <3>1. \A t \in Txs : Running(t)' = Running(t)
      BY DEF Running
    <3>2. TypeOK'
      BY <3>1 DEF IInv, TypeOK
    <3>3. QED BY <3>2 DEF IInv, Typed, Lifecycle, Placed
  <2>2. (LocksKept /\ NoTwoHold)'
    BY DEF IInv, LocksKept, NoTwoHold, InTx, PlaceLocks, KeyRow, Own
  <2>5. LockedIsEnough'
    <3>1. \A k : WithKey(k)' = WithKey(k)
      BY DEF WithKey
    <3>2. \A s \in Submits : KeyLock(s)' = KeyLock(s) /\ InTx(s)' = InTx(s)
      BY DEF KeyLock, KeyRow, InTx
    <3>3. \A r : Left(r)' = Left(r)
      BY DEF Left
    <3>4. held' = held /\ submit' = submit
      OBVIOUS
    <3>5. QED BY <3>1, <3>2, <3>3, <3>4 DEF IInv, LockedIsEnough
  <2>3. (LinesApart /\ SeenIsOwn /\ BoughtIsGone)'
    <3>1. \A s \in Submits : /\ Bought(s)' = Bought(s) /\ Own(s)' = Own(s) /\ Placed(s)' = Placed(s)
                              /\ InTx(s)' = InTx(s) /\ CartLock(s)' = CartLock(s)
      BY DEF Bought, Own, Placed, InTx, CartLock
    <3>2. held' = held /\ submit' = submit /\ cart' = cart /\ lines' = lines
      OBVIOUS
    <3>3. LinesApart'
      BY <3>2 DEF IInv, LinesApart
    <3>4. SeenIsOwn'
      BY <3>1, <3>2 DEF IInv, SeenIsOwn
    <3>5. BoughtIsGone'
      BY <3>1, <3>2 DEF IInv, BoughtIsGone
    <3>6. QED BY <3>3, <3>4, <3>5
  <2>4. (BooksBalance /\ CartBoughtOnce /\ KeyPlacesOnce)'
    BY DEF IInv, BooksBalance, CartBoughtOnce, KeyPlacesOnce, Takers, Bought
  <2>6. QED BY <2>1, <2>2, <2>3, <2>4, <2>5 DEF IInv
<1>6. QED BY <1>1, <1>2, <1>3, <1>4, <1>5 DEF Next

-----------------------------------------------------------------------------
(* The invariant holds in every reachable state.                           *)
THEOREM Inductive == Spec => []IInv
<1>1. IInv /\ [Next]_vars => IInv'
  BY NextInv
<1>2. QED BY <1>1, InitInv, PTL DEF Spec

(* Every variable has its type and a transaction that is over holds no     *)
(* lock, for any customers, goods and requests.                            *)
THEOREM TypeCorrect == Spec => []TypeOK
<1>1. IInv => TypeOK
  BY DEF IInv
<1>2. QED BY <1>1, Inductive, PTL

(* However many checkouts and cancellations interleave, stock, quotas,     *)
(* purses and coupon uses count the orders that stand and stay in bounds.  *)
THEOREM BooksAlwaysBalance == Spec => []BooksBalance
<1>1. IInv => BooksBalance
  BY DEF IInv
<1>2. QED BY <1>1, Inductive, PTL

(* However often and whenever a cart is sent or edited, one line of it     *)
(* becomes one order.                                                      *)
THEOREM NoLineBoughtTwice == Spec => []CartBoughtOnce
<1>1. IInv => CartBoughtOnce
  BY DEF IInv
<1>2. QED BY <1>1, Inductive, PTL

(* However many submits carry one Idempotency-Key, one of them places.     *)
THEOREM OneOrderPerKey == Spec => []KeyPlacesOnce
<1>1. IInv => KeyPlacesOnce
  BY DEF IInv
<1>2. QED BY <1>1, Inductive, PTL

-----------------------------------------------------------------------------
(* No circle of waits: what a transaction has and still needs, whatever it *)
(* does, and the order in which it takes them.                             *)
LocksOf(t) == IF t[1] = "PLACE" THEN PlaceLocks(t[2], submit[t[2]].uses) ELSE CancelLocks(t[2])
AllTheirs == \A t \in Txs : Running(t) => held[t] \cup todo[t] = LocksOf(t)
Once == \A t \in Txs : held[t] \cap todo[t] = {}
InOrder == \A t \in Txs : \A m \in held[t], n \in todo[t] : ~ Earlier(RankOf(t), n, m)
Apart == \A t, u \in Txs : t # u => \A l \in held[t], m \in held[u] : ~ Conflict(l, m)

(* What an order takes is its customer's or everybody's, and a flash-sale  *)
(* purchase comes with the quota of its item.                              *)
OwnUses(s, uses) ==
  \A r \in uses :
    r.by \in {Own(s), Nobody} /\ (r.kind = "PURCHASE" => Resource("FLASH", r.item, Nobody) \in uses)
UsesOwn == \A s \in Submits : OwnUses(s, submit[s].uses)

(* A step that leaves transaction t with locks H and still to take T.      *)
Moves(t, H, T) == held' = [held EXCEPT ![t] = H] /\ todo' = [todo EXCEPT ![t] = T]
Orderly(t, H, T) ==
  /\ H \subseteq Locks /\ T \subseteq Locks /\ H \cap T = {}
  /\ \A m \in H, n \in T : ~ Earlier(RankOf(t), n, m)
  /\ \A u \in Txs \ {t} : \A l \in H, m \in held[u] : ~ Conflict(l, m)
WInv == AllTheirs /\ Once /\ InOrder /\ Apart /\ UsesOwn

LEMMA InitWaits == Init => WInv
<1> SUFFICES ASSUME Init PROVE WInv
  OBVIOUS
<1>1. \A s \in Submits : submit[s] = Fresh /\ closing[s] = "NONE"
  BY DEF Init
<1>2. \A t \in Txs : held[t] = {} /\ todo[t] = {} /\ ~ Running(t)
  <2>1. \A s \in Submits : ~ Running(Buyer(s)) /\ ~ Running(Closer(s))
    BY <1>1, FreshFields, RunningIs
  <2>2. QED BY <2>1, TxIsOne DEF Init
<1>3. UsesOwn
  BY <1>1, FreshFields DEF UsesOwn, OwnUses
<1>4. QED BY <1>2, <1>3 DEF WInv, AllTheirs, Once, InOrder, Apart

(* The locks of a submit's two transactions, and when they stay the same.  *)
LEMMA LocksAre ==
  \A s \in Submits : LocksOf(Buyer(s)) = PlaceLocks(s, submit[s].uses) /\ LocksOf(Closer(s)) = CancelLocks(s)
BY DEF LocksOf, Buyer, Closer

LEMMA LocksStay ==
  ASSUME NEW s \in Submits, submit'[s] = submit[s]
  PROVE  LocksOf(Buyer(s))' = LocksOf(Buyer(s)) /\ LocksOf(Closer(s))' = LocksOf(Closer(s))
<1>1. LocksOf(Buyer(s))' = PlaceLocks(s, submit[s].uses)' /\ LocksOf(Closer(s))' = CancelLocks(s)'
  BY DEF LocksOf, Buyer, Closer
<1>2. PlaceLocks(s, submit[s].uses)' = PlaceLocks(s, submit[s].uses)
  BY DEF PlaceLocks, KeyRow, Own
<1>3. CancelLocks(s)' = CancelLocks(s)
  BY DEF CancelLocks
<1>4. QED BY <1>1, <1>2, <1>3, LocksAre

(* A step of one transaction.                                              *)
LEMMA OneMoves ==
  ASSUME IInv, WInv, NEW t \in Txs, NEW H, NEW T, Moves(t, H, T), Orderly(t, H, T),
         \A u \in Txs \ {t} : Running(u)' => Running(u) /\ LocksOf(u)' = LocksOf(u),
         Running(t)' => H \cup T = LocksOf(t)',
         UsesOwn'
  PROVE  WInv'
<1>1. \A u \in Txs : /\ held'[u] = (IF u = t THEN H ELSE held[u])
                     /\ todo'[u] = (IF u = t THEN T ELSE todo[u])
  BY DEF IInv, Typed, Moves
<1>2. AllTheirs'
  <2>1. SUFFICES ASSUME NEW u \in Txs, Running(u)' PROVE held'[u] \cup todo'[u] = LocksOf(u)'
    BY DEF AllTheirs
  <2>2. CASE u = t
    BY <1>1, <2>1, <2>2
  <2>3. CASE u # t
    <3>1. Running(u) /\ LocksOf(u)' = LocksOf(u)
      BY <2>1, <2>3
    <3>2. held[u] \cup todo[u] = LocksOf(u)
      BY <3>1 DEF WInv, AllTheirs
    <3>3. QED BY <1>1, <2>3, <3>1, <3>2
  <2>4. QED BY <2>2, <2>3
<1>3. Once'
  BY <1>1 DEF WInv, Once, Orderly
<1>4. InOrder'
  BY <1>1 DEF WInv, InOrder, RankOf, PlaceRank, CancelRank, Earlier, Orderly
<1>5. Apart'
  BY <1>1, ConflictIsMutual DEF WInv, Apart, Orderly
<1>6. QED BY <1>2, <1>3, <1>4, <1>5 DEF WInv

(* A submit is in its checkout or in its cancellation, never in both.      *)
LEMMA NotClosing == \A s \in Submits : IInv /\ ~ Placed(s) => closing[s] # "TX"
BY DEF IInv, Lifecycle, Placed

(* A step of a checkout.                                                   *)
LEMMA BuyerWaits ==
  ASSUME IInv, WInv, NEW s \in Submits, closing[s] # "TX", closing' = closing,
         NEW j, submit' = [submit EXCEPT ![s] = j], OwnUses(s, j.uses),
         NEW H, NEW T, Moves(Buyer(s), H, T), Orderly(Buyer(s), H, T),
         j.at = "TX" => H \cup T = LocksOf(Buyer(s))'
  PROVE  WInv'
<1>1. submit'[s] = j /\ \A p \in Submits : p # s => submit'[p] = submit[p]
  BY DEF IInv, Typed
<1>2. UsesOwn'
  BY <1>1 DEF WInv, UsesOwn, OwnUses, Own
<1>3. \A u \in Txs \ {Buyer(s)} : Running(u)' => Running(u) /\ LocksOf(u)' = LocksOf(u)
  <2>1. ASSUME NEW p \in Submits, p # s
        PROVE  Running(Buyer(p))' = Running(Buyer(p)) /\ LocksOf(Buyer(p))' = LocksOf(Buyer(p))
    BY <1>1, <2>1, LocksStay DEF Running, Buyer
  <2>2. ASSUME NEW p \in Submits, Running(Closer(p))'
        PROVE  Running(Closer(p)) /\ LocksOf(Closer(p))' = LocksOf(Closer(p))
    <3>1. closing[p] = "TX"
      BY <2>2 DEF Running, Closer
    <3>2. p # s /\ submit'[p] = submit[p]
      BY <1>1, <3>1
    <3>3. QED BY <3>1, <3>2, LocksStay DEF Running, Closer
  <2>3. QED BY <2>1, <2>2, TxIsOne
<1>4. Running(Buyer(s))' => H \cup T = LocksOf(Buyer(s))'
  <2>1. Running(Buyer(s))' <=> j.at = "TX"
    BY <1>1 DEF Running, Buyer
  <2>2. QED BY <2>1
<1>5. Buyer(s) \in Txs
  BY TxsHave
<1>6. QED BY <1>2, <1>3, <1>4, <1>5, OneMoves

(* A step of a cancellation.                                               *)
LEMMA CloserWaits ==
  ASSUME IInv, WInv, NEW s \in Submits, submit' = submit, NEW c, closing' = [closing EXCEPT ![s] = c],
         NEW H, NEW T, Moves(Closer(s), H, T), Orderly(Closer(s), H, T),
         c = "TX" => H \cup T = CancelLocks(s)
  PROVE  WInv'
<1>1. closing'[s] = c /\ \A p \in Submits : p # s => closing'[p] = closing[p]
  BY DEF IInv, TypeOK
<1>2. UsesOwn'
  BY DEF WInv, UsesOwn, OwnUses, Own
<1>3. \A u \in Txs \ {Closer(s)} : Running(u)' => Running(u) /\ LocksOf(u)' = LocksOf(u)
  <2>1. ASSUME NEW p \in Submits
        PROVE  Running(Buyer(p))' = Running(Buyer(p)) /\ LocksOf(Buyer(p))' = LocksOf(Buyer(p))
    BY LocksStay DEF Running, Buyer
  <2>2. ASSUME NEW p \in Submits, p # s
        PROVE  Running(Closer(p))' = Running(Closer(p)) /\ LocksOf(Closer(p))' = LocksOf(Closer(p))
    BY <1>1, <2>2, LocksStay DEF Running, Closer
  <2>3. QED BY <2>1, <2>2, TxIsOne
<1>4. Running(Closer(s))' => H \cup T = LocksOf(Closer(s))'
  BY <1>1, LocksStay, LocksAre DEF Running, Closer
<1>5. Closer(s) \in Txs
  BY TxsHave
<1>6. QED BY <1>2, <1>3, <1>4, <1>5, OneMoves
(* What an update of a submit leaves of its other fields.                  *)
LEMMA RowChanges ==
  ASSUME IInv, NEW s \in Submits, NEW k, NEW v, NEW u
  PROVE  /\ [submit[s] EXCEPT !.at = "LOOKED", !.key = k].at # "TX"
         /\ [submit[s] EXCEPT !.at = "LOOKED", !.key = k].uses = submit[s].uses
         /\ [submit[s] EXCEPT !.at = "TX", !.seen = v, !.uses = u].at = "TX"
         /\ [submit[s] EXCEPT !.at = "TX", !.seen = v, !.uses = u].key = submit[s].key
         /\ [submit[s] EXCEPT !.at = "TX", !.seen = v, !.uses = u].uses = u
         /\ [submit[s] EXCEPT !.at = "FAILED", !.why = v].at # "TX"
         /\ [submit[s] EXCEPT !.at = "FAILED", !.why = v].uses = submit[s].uses
         /\ [submit[s] EXCEPT !.at = "DONE", !.answer = v].at # "TX"
         /\ [submit[s] EXCEPT !.at = "DONE", !.answer = v].uses = submit[s].uses
         /\ [submit[s] EXCEPT !.at = "DONE", !.answer = v].seen = submit[s].seen
         /\ [submit[s] EXCEPT !.at = "DONE", !.answer = v].key = submit[s].key
<1>1. PICK W, K, A : submit[s] \in [at : Steps, why : W, seen : Carts, uses : SUBSET Resources, key : K, answer : A]
  <2>1. \E W, K, A : SubmitRow = [at : Steps, why : W, seen : Carts, uses : SUBSET Resources, key : K, answer : A]
    BY Zenon DEF SubmitRow
  <2>2. QED BY <2>1, RowOf
<1>2. QED BY <1>1

LEMMA NothingUsed == \A s \in Submits : \A uses : uses = {} => OwnUses(s, uses)
BY DEF OwnUses

(* A checkout that ends, or that has not started.                          *)
LEMMA NoLocks == \A t, T : T \subseteq Locks => Orderly(t, {}, T)
BY DEF Orderly

LEMMA QuietBuyer ==
  ASSUME IInv, WInv, NEW s \in Submits, ~ Placed(s), closing' = closing,
         NEW j, submit' = [submit EXCEPT ![s] = j], OwnUses(s, j.uses), j.at # "TX",
         Moves(Buyer(s), {}, {})
  PROVE  WInv'
<1>1. closing[s] # "TX"
  BY NotClosing
<1>2. Orderly(Buyer(s), {}, {})
  BY NoLocks
<1>3. QED BY <1>1, <1>2, BuyerWaits

LEMMA NothingMoves ==
  ASSUME IInv, NEW s \in Submits, ~ InTx(s), held' = held, todo' = todo
  PROVE  Moves(Buyer(s), {}, {})
BY NothingHeld DEF Moves

LEMMA AnsweredWaits ==
  ASSUME IInv, WInv, NEW s \in Submits, ~ Placed(s), NEW k, NEW a, AnsweredTo(s, k, a), closing' = closing,
         Moves(Buyer(s), {}, {})
  PROVE  WInv'
<1> DEFINE j == [Fresh EXCEPT !.at = "DONE", !.key = k, !.answer = a]
<1>1. submit' = [submit EXCEPT ![s] = j]
  BY DEF AnsweredTo
<1>2. j.uses = {} /\ j.at # "TX"
  BY DEF Fresh
<1> HIDE DEF j
<1>3. QED BY <1>1, <1>2, NothingUsed, QuietBuyer

LEMMA KeyLookupWaits ==
  ASSUME IInv, WInv, NEW s \in Submits, KeyLookup(s)
  PROVE  WInv'
<1>1. ~ Placed(s) /\ closing' = closing /\ Moves(Buyer(s), {}, {})
  BY NotPlaced, NothingMoves DEF KeyLookup, Stays, InTx
<1>2. PICK k \in KeysOf[s] : \/ Replay(s, k)
                             \/ submit' = [submit EXCEPT ![s].at = "LOOKED", ![s].key = k]
  BY DEF KeyLookup
<1>3. CASE Replay(s, k)
  <2>1. \E a : AnsweredTo(s, k, a)
    BY <1>3 DEF Replay
  <2>2. QED BY <1>1, <2>1, AnsweredWaits
<1>4. CASE submit' = [submit EXCEPT ![s].at = "LOOKED", ![s].key = k]
  <2> DEFINE j == [submit[s] EXCEPT !.at = "LOOKED", !.key = k]
  <2>1. submit' = [submit EXCEPT ![s] = j]
    BY <1>4 DEF IInv, Typed
  <2>2. j.at # "TX" /\ j.uses = submit[s].uses
    BY RowChanges
  <2> HIDE DEF j
  <2>3. OwnUses(s, j.uses)
    BY <2>2 DEF WInv, UsesOwn
  <2>4. QED BY <1>1, <2>1, <2>2, <2>3, QuietBuyer
<1>5. QED BY <1>2, <1>3, <1>4
LEMMA AfterFailureWaits ==
  ASSUME IInv, WInv, NEW s \in Submits, AfterFailure(s)
  PROVE  WInv'
<1>1. ~ Placed(s) /\ closing' = closing /\ Moves(Buyer(s), {}, {})
  BY NotPlaced, NothingMoves DEF AfterFailure, Stays, InTx
<1>2. \E k, a : AnsweredTo(s, k, a)
  BY DEF AfterFailure, Replay, RecentOrRefused, Answered
<1>3. QED BY <1>1, <1>2, AnsweredWaits

LEMMA CrashPlaceWaits ==
  ASSUME IInv, WInv, NEW s \in Submits, CrashPlace(s)
  PROVE  WInv'
<1>1. ~ Placed(s) /\ AnsweredTo(s, submit[s].key, Nobody) /\ End(Buyer(s)) /\ closing' = closing
  BY NotPlaced DEF CrashPlace, Answered, Buyer
<1>2. QED BY <1>1, EndsBuyer, AnsweredWaits DEF Moves

(* What a checkout is going to take is its customer's own.                 *)
LEMMA UsesOfOwn ==
  ASSUME NEW s \in Submits, NEW q \in Requests, NEW wants
  PROVE  OwnUses(s, UsesOf(Own(s), q, wants))
<1> DEFINE c == Own(s)
           sales == {f \in wants \cap FlashItems : Left(Resource("FLASH", f, Nobody))}
           flash == UNION {FlashUse(c, f) : f \in sales}
           coupon == IF q.coupon /\ AllLeft(CouponUse(c)) THEN CouponUse(c) ELSE {}
           uses == {Goods(v) : v \in wants} \cup flash \cup Money(c, q.pay) \cup coupon
<1>1. UsesOf(c, q, wants) = uses
  BY DEF UsesOf
<1>2. \A v \in wants : Goods(v).by = Nobody /\ Goods(v).kind # "PURCHASE"
  BY DEF Goods, Resource
<1>3. \A r \in flash : r.by \in {c, Nobody} /\ (r.kind = "PURCHASE" => Resource("FLASH", r.item, Nobody) \in flash)
  <2>1. ASSUME NEW f \in sales, NEW r \in FlashUse(c, f)
        PROVE  r.by \in {c, Nobody} /\ (r.kind = "PURCHASE" => Resource("FLASH", r.item, Nobody) \in FlashUse(c, f))
    BY <2>1 DEF FlashUse, Resource
  <2> HIDE DEF sales
  <2>2. QED BY <2>1
<1>4. \A r \in Money(c, q.pay) : r.by = c /\ r.kind # "PURCHASE"
  BY RequestsAssumption DEF Money, Resource, Purses
<1>5. \A r \in coupon : r.by \in {c, Nobody} /\ r.kind # "PURCHASE"
  BY DEF CouponUse, Resource
<1> HIDE DEF flash, coupon
<1>6. \A r \in uses : r.by \in {c, Nobody} /\ (r.kind = "PURCHASE" => Resource("FLASH", r.item, Nobody) \in flash)
  BY <1>2, <1>3, <1>4, <1>5
<1>7. flash \subseteq uses
  OBVIOUS
<1> HIDE DEF uses
<1>8. QED BY <1>1, <1>6, <1>7 DEF OwnUses

LEMMA StartWaits ==
  ASSUME IInv, WInv, NEW s \in Submits, submit[s].at = "LOOKED", NEW uses \in SUBSET Resources, OwnUses(s, uses),
         NEW j, submit' = [submit EXCEPT ![s] = j], j.at = "TX", j.key = submit[s].key, j.uses = uses,
         todo' = [todo EXCEPT ![Buyer(s)] = PlaceLocks(s, uses)], closing' = closing, held' = held
  PROVE  WInv'
<1> DEFINE T == PlaceLocks(s, uses)
<1>1. ~ Placed(s) /\ ~ InTx(s) /\ closing[s] # "TX"
  BY NotPlaced, NotClosing DEF InTx
<1>2. Moves(Buyer(s), {}, T)
  BY <1>1, NothingHeld DEF Moves
<1>3. {} \cup T = LocksOf(Buyer(s))'
  <2> DEFINE P(k, u) == {Lock(Resource("CART", 0, Owner[s]), "NO KEY UPDATE"), Lock(Resource("USER", 0, Owner[s]), "KEY SHARE")}
                          \cup (IF k = NoKey THEN {} ELSE {Lock(Resource("KEY", 0, k), "UPDATE")})
                          \cup {Lock(r, WriteMode(r)) : r \in u}
  <2>1. LocksOf(Buyer(s))' = P(submit'[s].key, submit'[s].uses)
    BY Zenon DEF LocksOf, Buyer, PlaceLocks, KeyRow, Own
  <2>2. T = P(submit[s].key, uses)
    BY Zenon DEF PlaceLocks, KeyRow, Own
  <2> HIDE DEF P, T
  <2>3. submit'[s] = j
    BY DEF IInv, Typed
  <2>4. {} \cup T = T
    OBVIOUS
  <2>5. QED BY <2>1, <2>2, <2>3, <2>4
<1>4. Orderly(Buyer(s), {}, T)
  BY PlaceLocksType, RowOf, NoLocks
<1> HIDE DEF T
<1>5. QED BY <1>1, <1>2, <1>3, <1>4, BuyerWaits

LEMMA ReadCartWaits ==
  ASSUME IInv, WInv, NEW s \in Submits, ReadCart(s)
  PROVE  WInv'
<1> DEFINE wants(q) == {v \in q.wants : cart[Own(s)][v] # NoLine}
           uses(q) == UsesOf(Own(s), q, wants(q))
           j(q) == [submit[s] EXCEPT !.at = "TX", !.seen = cart[Own(s)], !.uses = uses(q)]
<1>1. ~ Placed(s) /\ ~ InTx(s) /\ submit[s].at = "LOOKED" /\ Own(s) \in Customers /\ closing' = closing
  BY NotPlaced, OwnIsCustomer DEF ReadCart, InTx, Stays
<1>2. \E q \in Requests :
        \/ (RecentOrRefused(s) \/ Answered(s, Refused)) /\ Stays
        \/ /\ submit' = [submit EXCEPT ![s] = j(q)]
           /\ todo' = [todo EXCEPT ![Buyer(s)] = PlaceLocks(s, uses(q))]
           /\ held' = held
  <2>1. PICK q \in Requests :
          \/ RecentOrRefused(s) /\ Stays
          \/ Answered(s, Refused) /\ Stays
          \/ /\ submit' = [submit EXCEPT ![s].at = "TX", ![s].seen = cart[Own(s)], ![s].uses = uses(q)]
             /\ todo' = [todo EXCEPT ![Buyer(s)] = PlaceLocks(s, uses(q))]
             /\ held' = held
    BY DEF ReadCart, Buyer
  <2>2. CASE submit' = [submit EXCEPT ![s].at = "TX", ![s].seen = cart[Own(s)], ![s].uses = uses(q)]
    <3> HIDE DEF uses
    <3>1. submit' = [submit EXCEPT ![s] = j(q)]
      BY <2>2 DEF IInv, Typed
    <3> HIDE DEF j
    <3>2. QED BY <2>1, <3>1
  <2> HIDE DEF j, uses
  <2>3. QED BY <2>1, <2>2
<1> HIDE DEF j, uses
<1>3. PICK q \in Requests :
        \/ (RecentOrRefused(s) \/ Answered(s, Refused)) /\ Stays
        \/ /\ submit' = [submit EXCEPT ![s] = j(q)]
           /\ todo' = [todo EXCEPT ![Buyer(s)] = PlaceLocks(s, uses(q))]
           /\ held' = held
  BY <1>2
<1>4. CASE (RecentOrRefused(s) \/ Answered(s, Refused)) /\ Stays
  <2>1. \E k, a : AnsweredTo(s, k, a)
    BY <1>4 DEF RecentOrRefused, Answered
  <2>2. Moves(Buyer(s), {}, {})
    BY <1>1, <1>4, NothingMoves DEF Stays
  <2>3. QED BY <1>1, <2>1, <2>2, AnsweredWaits
<1>5. CASE /\ submit' = [submit EXCEPT ![s] = j(q)]
           /\ todo' = [todo EXCEPT ![Buyer(s)] = PlaceLocks(s, uses(q))]
           /\ held' = held
  <2>1. wants(q) \subseteq Variations
    BY RequestsAssumption
  <2>2. uses(q) \in SUBSET Resources /\ OwnUses(s, uses(q))
    BY <1>1, <2>1, UsesType, UsesOfOwn DEF uses
  <2>3. j(q).at = "TX" /\ j(q).key = submit[s].key /\ j(q).uses = uses(q)
    BY RowChanges DEF j
  <2>4. QED BY <1>1, <1>5, <2>2, <2>3, StartWaits
<1>6. QED BY <1>3, <1>4, <1>5
(* A lock is taken when it is the next one and nobody has one against it.  *)
LEMMA GotIsOrderly ==
  ASSUME IInv, WInv, NEW t \in Txs, NEW l \in todo[t], NextLock(t, l), Free(t, l), Got(t, l)
  PROVE  /\ Moves(t, held[t] \cup {l}, todo[t] \ {l}) /\ Orderly(t, held[t] \cup {l}, todo[t] \ {l})
         /\ (held[t] \cup {l}) \cup (todo[t] \ {l}) = held[t] \cup todo[t]
<1>1. held[t] \subseteq Locks /\ todo[t] \subseteq Locks
  BY DEF IInv, Typed
<1>2. (held[t] \cup {l}) \cap (todo[t] \ {l}) = {}
  BY DEF WInv, Once
<1>3. \A m \in held[t] \cup {l}, n \in todo[t] \ {l} : ~ Earlier(RankOf(t), n, m)
  BY DEF WInv, InOrder, NextLock
<1>4. \A u \in Txs \ {t} : \A k \in held[t] \cup {l}, m \in held[u] : ~ Conflict(k, m)
  BY ConflictIsMutual DEF WInv, Apart, Free, Blocks
<1>5. QED BY <1>1, <1>2, <1>3, <1>4 DEF Moves, Orderly, Got

LEMMA TakeLockWaits ==
  ASSUME IInv, WInv, NEW s \in Submits, TakeLock(s)
  PROVE  WInv'
<1> DEFINE j(why) == [submit[s] EXCEPT !.at = "FAILED", !.why = why]
<1>1. InTx(s) /\ ~ Placed(s) /\ closing' = closing /\ closing[s] # "TX" /\ Buyer(s) \in Txs
  BY NotPlaced, NotClosing, TxsHave DEF TakeLock, InTx
<1>2. PICK l \in todo[Buyer(s)] :
        /\ NextLock(Buyer(s), l) /\ Free(Buyer(s), l)
        /\ \/ Got(Buyer(s), l) /\ submit' = submit
           \/ End(Buyer(s)) /\ \E why : submit' = [submit EXCEPT ![s] = j(why)]
  <2>1. \A why : [submit EXCEPT ![s].at = "FAILED", ![s].why = why] = [submit EXCEPT ![s] = j(why)]
    BY DEF IInv, Typed
  <2> HIDE DEF j
  <2>2. QED BY <2>1 DEF TakeLock, Buyer
<1> HIDE DEF j
<1>3. CASE Got(Buyer(s), l) /\ submit' = submit
  <2> DEFINE H == held[Buyer(s)] \cup {l}
             T == todo[Buyer(s)] \ {l}
  <2>1. Moves(Buyer(s), H, T) /\ Orderly(Buyer(s), H, T) /\ H \cup T = held[Buyer(s)] \cup todo[Buyer(s)]
    BY <1>1, <1>2, <1>3, GotIsOrderly
  <2>2. held[Buyer(s)] \cup todo[Buyer(s)] = LocksOf(Buyer(s))
    BY <1>1, RunningIs DEF WInv, AllTheirs, InTx
  <2>3. LocksOf(Buyer(s))' = LocksOf(Buyer(s))
    BY <1>3, LocksStay
  <2>4. submit' = [submit EXCEPT ![s] = submit[s]] /\ OwnUses(s, submit[s].uses)
    BY <1>3 DEF IInv, Typed, WInv, UsesOwn
  <2> HIDE DEF H, T
  <2>5. QED BY <1>1, <2>1, <2>2, <2>3, <2>4, BuyerWaits
<1>4. ASSUME NEW why, End(Buyer(s)), submit' = [submit EXCEPT ![s] = j(why)]
      PROVE  WInv'
  <2>1. j(why).at # "TX" /\ j(why).uses = submit[s].uses
    BY RowChanges DEF j
  <2>2. OwnUses(s, j(why).uses)
    BY <2>1 DEF WInv, UsesOwn
  <2>3. Moves(Buyer(s), {}, {})
    BY <1>4, EndsBuyer DEF Moves
  <2>4. QED BY <1>1, <1>4, <2>1, <2>2, <2>3, QuietBuyer
<1>5. QED BY <1>2, <1>3, <1>4

LEMMA PlaceWaits ==
  ASSUME IInv, WInv, NEW s \in Submits, Place(s)
  PROVE  WInv'
<1> DEFINE j == [submit[s] EXCEPT !.at = "DONE", !.answer = s]
<1>1. ~ Placed(s) /\ closing' = closing /\ End(Buyer(s))
  BY NotPlaced DEF Place, Buyer
<1>2. submit' = [submit EXCEPT ![s] = j]
  BY DEF Place, IInv, Typed
<1>3. j.at # "TX" /\ j.uses = submit[s].uses
  BY RowChanges
<1> HIDE DEF j
<1>4. OwnUses(s, j.uses) /\ Moves(Buyer(s), {}, {})
  BY <1>1, <1>3, EndsBuyer DEF WInv, UsesOwn, Moves
<1>5. QED BY <1>1, <1>2, <1>3, <1>4, QuietBuyer

LEMMA StartCancelWaits ==
  ASSUME IInv, WInv, NEW s \in Submits, StartCancel(s)
  PROVE  WInv'
<1> DEFINE T == CancelLocks(s)
<1>1. submit' = submit /\ closing' = [closing EXCEPT ![s] = "TX"]
  BY DEF StartCancel
<1>2. held[Closer(s)] = {} /\ Closer(s) \in Txs
  BY TxsHave, RunningIs DEF StartCancel, IInv, TypeOK
<1>3. Moves(Closer(s), {}, T)
  BY <1>2 DEF StartCancel, Moves, Closer, IInv, Typed
<1>4. Orderly(Closer(s), {}, T)
  BY CancelLocksType, RowOf, NoLocks
<1>5. {} \cup T = CancelLocks(s)
  OBVIOUS
<1> HIDE DEF T
<1>6. QED BY <1>1, <1>3, <1>4, <1>5, CloserWaits

LEMMA TakeCancelLockWaits ==
  ASSUME IInv, WInv, NEW s \in Submits, TakeCancelLock(s)
  PROVE  WInv'
<1>1. PICK l \in todo[Closer(s)] : NextLock(Closer(s), l) /\ Free(Closer(s), l) /\ Got(Closer(s), l)
  BY DEF TakeCancelLock, Closer
<1> DEFINE H == held[Closer(s)] \cup {l}
           T == todo[Closer(s)] \ {l}
<1>2. Moves(Closer(s), H, T) /\ Orderly(Closer(s), H, T) /\ H \cup T = held[Closer(s)] \cup todo[Closer(s)]
  BY <1>1, TxsHave, GotIsOrderly
<1>3. held[Closer(s)] \cup todo[Closer(s)] = CancelLocks(s)
  BY RunningIs, TxsHave, LocksAre DEF TakeCancelLock, WInv, AllTheirs
<1>4. submit' = submit /\ closing' = [closing EXCEPT ![s] = "TX"]
  BY DEF TakeCancelLock, IInv, TypeOK
<1> HIDE DEF H, T
<1>5. QED BY <1>2, <1>3, <1>4, CloserWaits

LEMMA CancelEndWaits ==
  ASSUME IInv, WInv, NEW s \in Submits, Cancel(s) \/ CrashCancel(s)
  PROVE  WInv'
<1>1. /\ submit' = submit /\ Moves(Closer(s), {}, {})
      /\ \E c \in {"DONE", "DEAD"} : closing' = [closing EXCEPT ![s] = c]
  BY DEF Cancel, CrashCancel, End, Moves, Closer
<1>2. Orderly(Closer(s), {}, {})
  BY NoLocks
<1>3. QED BY <1>1, <1>2, CloserWaits

LEMMA NextWaits ==
  ASSUME IInv, WInv, [Next]_vars
  PROVE  WInv'
<1>1. ASSUME NEW s \in Submits, Proceeds(s) PROVE WInv'
  BY <1>1, KeyLookupWaits, ReadCartWaits, TakeLockWaits, PlaceWaits, AfterFailureWaits, TakeCancelLockWaits,
     CancelEndWaits DEF Proceeds
<1>2. ASSUME NEW s \in Submits, StartCancel(s) PROVE WInv'
  BY <1>2, StartCancelWaits
<1>3. ASSUME NEW s \in Submits, Fault(s) PROVE WInv'
  BY <1>3, CrashPlaceWaits, CancelEndWaits DEF Fault
<1>4. ASSUME UNCHANGED << submit, closing, held, todo >> PROVE WInv'
  <2>1. \A t \in Txs : Running(t)' = Running(t) /\ LocksOf(t)' = LocksOf(t)
    <3>1. \A s \in Submits : /\ Running(Buyer(s))' = Running(Buyer(s)) /\ LocksOf(Buyer(s))' = LocksOf(Buyer(s))
                             /\ Running(Closer(s))' = Running(Closer(s)) /\ LocksOf(Closer(s))' = LocksOf(Closer(s))
      BY <1>4, LocksStay DEF Running
    <3>2. QED BY <3>1, TxIsOne
  <2>2. (AllTheirs /\ Once /\ Apart)'
    BY <1>4, <2>1 DEF WInv, AllTheirs, Once, Apart
  <2>3. (InOrder /\ UsesOwn)'
    BY <1>4 DEF WInv, InOrder, UsesOwn, OwnUses, Own, RankOf, PlaceRank, CancelRank, Earlier
  <2>4. QED BY <2>2, <2>3 DEF WInv
<1>5. CustomerStep => UNCHANGED << submit, closing, held, todo >>
  BY DEF CustomerStep, AddLine, ChangeLine, RemoveLine, EditLine
<1>6. QED BY <1>1, <1>2, <1>3, <1>4, <1>5 DEF Next, vars
-----------------------------------------------------------------------------
(* What the locks of one transaction look like.                            *)
LEMMA ResourceKinds ==
  \A r \in Resources :
    /\ r.kind \in {"VARIATION", "FLASH", "COUPON"} => r.by = Nobody
    /\ r.kind \in {"POINTS", "WALLET", "PURCHASE", "COUPON_USER"} => r.by \in Customers
    /\ r.kind \notin {"VARIATION", "FLASH", "PURCHASE"} => r.item = 0
<1> DEFINE Fits(r) == /\ r.kind \in {"VARIATION", "FLASH", "COUPON"} => r.by = Nobody
                      /\ r.kind \in {"POINTS", "WALLET", "PURCHASE", "COUPON_USER"} => r.by \in Customers
                      /\ r.kind \notin {"VARIATION", "FLASH", "PURCHASE"} => r.item = 0
<1>1. \A v \in Variations : Fits(Goods(v))
  BY DEF Goods, Resource
<1>2. \A c \in Customers, f \in FlashItems : \A r \in FlashUse(c, f) : Fits(r)
  BY DEF FlashUse, Resource
<1>3. \A c \in Customers : \A r \in Money(c, Purses) \cup CouponUse(c) : Fits(r)
  BY DEF Money, CouponUse, Resource, Purses
<1> HIDE DEF Fits
<1>4. \A r \in UNION {FlashUse(c, f) : c \in Customers, f \in FlashItems} : Fits(r)
  BY <1>2
<1>5. \A r \in UNION {Money(c, Purses) \cup CouponUse(c) : c \in Customers} : Fits(r)
  BY <1>3
<1>6. \A r \in Resources : Fits(r)
  BY <1>1, <1>4, <1>5 DEF Resources
<1>7. QED BY <1>6 DEF Fits

Shares(l) == l.mode = "KEY SHARE"
Alone(l) == l.mode = "UPDATE"
ShareLock(r) == Lock(r, "KEY SHARE")
KeepLock(r) == Lock(r, "NO KEY UPDATE")
SoleLock(r) == Lock(r, "UPDATE")

(* A lock that is not shared stands against every other such lock, and a   *)
(* shared one only against one that wants the row alone.                   *)
LEMMA Modes ==
  /\ \A l, m : ~ Shares(l) /\ ~ Shares(m) => ModesConflict(l.mode, m.mode)
  /\ \A l, m : Shares(m) /\ ModesConflict(l.mode, m.mode) => Alone(l)
BY Zenon DEF Shares, Alone, ModesConflict

LEMMA LockFields ==
  \A r :
    /\ KeepLock(r).row = r /\ ~ Shares(KeepLock(r)) /\ ~ Alone(KeepLock(r))
    /\ SoleLock(r).row = r /\ ~ Shares(SoleLock(r))
    /\ ShareLock(r).row = r /\ Shares(ShareLock(r)) /\ ~ Alone(ShareLock(r))
    /\ UseLock(r).row = r /\ ~ Shares(UseLock(r)) /\ (Alone(UseLock(r)) => r.kind = "POINTS")
<1>1. \A r, mode : Lock(r, mode).row = r /\ Lock(r, mode).mode = mode
  BY DEF Lock
<1>2. "NO KEY UPDATE" # "KEY SHARE" /\ "NO KEY UPDATE" # "UPDATE" /\ "UPDATE" # "KEY SHARE"
  BY Zenon
<1>3. \A r : WriteMode(r) \in {"UPDATE", "NO KEY UPDATE"} /\ (WriteMode(r) = "UPDATE" => r.kind = "POINTS")
  BY <1>2, Zenon DEF WriteMode
<1>4. QED BY <1>1, <1>2, <1>3, Zenon DEF Shares, Alone, UseLock, ShareLock, KeepLock, SoleLock

(* A lock of a checkout or a cancellation of submit s.                     *)
Fits(s, l) ==
  /\ l.row.kind \in Kinds /\ l.row.item \in Nat
  /\ Shares(l) <=> l.row.kind = "USER"
  /\ Alone(l) => l.row.kind \in {"POINTS", "KEY"}
  /\ l.row.kind \in {"CART", "USER", "POINTS", "WALLET", "PURCHASE", "COUPON_USER"} => l.row.by = Own(s)
  /\ l.row.kind \in {"VARIATION", "FLASH", "COUPON"} => l.row.by = Nobody
  /\ l.row.kind \notin {"VARIATION", "FLASH", "PURCHASE"} => l.row.item = 0

LEMMA UseFits ==
  ASSUME IInv, WInv, NEW s \in Submits, NEW r \in submit[s].uses
  PROVE  /\ r \in Resources /\ r.kind \in Purses \cup {"VARIATION", "FLASH", "PURCHASE", "COUPON_USER", "COUPON"}
         /\ Fits(s, UseLock(r)) /\ Fits(s, KeepLock(r))
<1>1. r \in Resources
  BY RowOf
<1>2. r.kind \in Purses \cup {"VARIATION", "FLASH", "PURCHASE", "COUPON_USER", "COUPON"} /\ r.item \in Nat
  <2>1. r \in [kind : Purses \cup {"VARIATION", "FLASH", "PURCHASE", "COUPON_USER", "COUPON"},
               item : Variations \cup {0}, by : Customers \cup {Nobody}]
    BY <1>1, ResourceShape
  <2>2. r.kind \in Purses \cup {"VARIATION", "FLASH", "PURCHASE", "COUPON_USER", "COUPON"} /\ r.item \in Variations \cup {0}
    BY <2>1
  <2>3. \A v \in Variations \cup {0} : v \in Nat
    BY RequestsAssumption
  <2>4. QED BY <2>2, <2>3
<1>3. r.by \in {Own(s), Nobody}
  BY DEF WInv, UsesOwn, OwnUses
<1>4. Nobody \notin Customers
  BY SubmitsAssumption
<1>5. r.kind \in {"POINTS", "WALLET", "PURCHASE", "COUPON_USER"} => r.by = Own(s)
  BY <1>1, <1>3, <1>4, ResourceKinds
<1>6. ASSUME NEW l, l.row = r, ~ Shares(l), Alone(l) => r.kind = "POINTS"
      PROVE  Fits(s, l)
  <2>1. r.kind \in Kinds /\ r.kind # "USER"
    BY <1>2 DEF Kinds, Purses
  <2>2. /\ r.kind \in {"CART", "USER", "POINTS", "WALLET", "PURCHASE", "COUPON_USER"} => r.by = Own(s)
        /\ r.kind \in {"VARIATION", "FLASH", "COUPON"} => r.by = Nobody
        /\ r.kind \notin {"VARIATION", "FLASH", "PURCHASE"} => r.item = 0
    BY <1>1, <1>2, <1>5, ResourceKinds DEF Purses
  <2>3. QED BY <1>2, <1>6, <2>1, <2>2 DEF Fits
<1>7. QED BY <1>1, <1>2, <1>6, LockFields
LEMMA SameUse ==
  ASSUME IInv, WInv, NEW s \in Submits, NEW q \in submit[s].uses, NEW r \in submit[s].uses,
         q.kind = r.kind, q.item = r.item
  PROVE  q = r
<1> DEFINE Shape == [kind : Purses \cup {"VARIATION", "FLASH", "PURCHASE", "COUPON_USER", "COUPON"},
                     item : Variations \cup {0}, by : Customers \cup {Nobody}]
<1>1. q \in Shape /\ r \in Shape
  BY UseFits, ResourceShape
<1>2. \A u \in submit[s].uses : u.by = IF u.kind \in {"VARIATION", "FLASH", "COUPON"} THEN Nobody ELSE Own(s)
  <2>1. ASSUME NEW u \in submit[s].uses
        PROVE  u.by = IF u.kind \in {"VARIATION", "FLASH", "COUPON"} THEN Nobody ELSE Own(s)
    <3>1. Fits(s, UseLock(u)) /\ UseLock(u).row = u
      BY UseFits, LockFields
    <3>2. u.kind \in Purses \cup {"VARIATION", "FLASH", "PURCHASE", "COUPON_USER", "COUPON"}
      BY UseFits
    <3>3. QED BY <3>1, <3>2 DEF Fits, Purses
  <2>2. QED BY <2>1
<1>3. q.by = r.by
  BY <1>2
<1>4. QED BY <1>1, <1>3

LEMMA NamedLocks ==
  ASSUME NEW s \in Submits
  PROVE  CartLock(s) = KeepLock(Resource("CART", 0, Own(s))) /\ KeyLock(s) = SoleLock(Resource("KEY", 0, submit[s].key))
BY Zenon DEF CartLock, KeyLock, KeyRow, KeepLock, SoleLock

LEMMA PlaceLocksAre ==
  ASSUME NEW s \in Submits, NEW l \in PlaceLocks(s, submit[s].uses)
  PROVE  \/ l = CartLock(s)
         \/ l = ShareLock(Resource("USER", 0, Own(s)))
         \/ l = KeyLock(s)
         \/ \E r \in submit[s].uses : l = UseLock(r)
BY Zenon DEF PlaceLocks, CartLock, KeyLock, UseLock, ShareLock

LEMMA ResourceFields ==
  \A kind, item, by : /\ Resource(kind, item, by).kind = kind /\ Resource(kind, item, by).item = item
                      /\ Resource(kind, item, by).by = by
BY DEF Resource

LEMMA NamedRows ==
  /\ \A s \in Submits : /\ CartLock(s).row.kind = "CART" /\ KeyLock(s).row.kind = "KEY"
                        /\ ShareLock(Resource("USER", 0, Own(s))).row.kind = "USER"
  /\ \A r : UseLock(r).row = r /\ KeepLock(r).row = r
<1>1. \A r : KeepLock(r).row = r /\ SoleLock(r).row = r /\ ShareLock(r).row = r /\ UseLock(r).row = r
  BY LockFields
<1>2. QED BY <1>1, ResourceFields, NamedLocks

LEMMA LocksFit ==
  ASSUME IInv, WInv, NEW t \in Txs, NEW l \in LocksOf(t)
  PROVE  /\ t[2] \in Submits /\ Fits(t[2], l)
         /\ t[1] # "PLACE" => l.row.kind \notin {"CART", "KEY", "USER", "COUPON_USER"} /\ ~ Alone(l)
<1>1. CASE t[1] = "PLACE"
  <2> DEFINE s == t[2]
  <2>1. s \in Submits /\ l \in PlaceLocks(s, submit[s].uses)
    BY <1>1 DEF LocksOf, Txs
  <2> HIDE DEF s
  <2>2. ASSUME l = CartLock(s) PROVE Fits(s, l)
    <3>1. l.row = Resource("CART", 0, Own(s)) /\ ~ Shares(l) /\ ~ Alone(l)
      BY <2>1, <2>2, LockFields, NamedLocks
    <3>2. l.row.kind = "CART" /\ l.row.item = 0 /\ l.row.by = Own(s)
      BY <3>1, ResourceFields
    <3>3. QED BY <3>1, <3>2 DEF Fits, Kinds
  <2>3. ASSUME l = ShareLock(Resource("USER", 0, Own(s))) PROVE Fits(s, l)
    <3>1. l.row = Resource("USER", 0, Own(s)) /\ Shares(l) /\ ~ Alone(l)
      BY <2>3, LockFields
    <3>2. l.row.kind = "USER" /\ l.row.item = 0 /\ l.row.by = Own(s)
      BY <3>1, ResourceFields
    <3>3. QED BY <3>1, <3>2 DEF Fits, Kinds
  <2>4. ASSUME l = KeyLock(s) PROVE Fits(s, l)
    <3>1. l.row = Resource("KEY", 0, submit[s].key) /\ ~ Shares(l)
      BY <2>1, <2>4, LockFields, NamedLocks
    <3>2. l.row.kind = "KEY" /\ l.row.item = 0 /\ l.row.by = submit[s].key
      BY <3>1, ResourceFields
    <3>3. QED BY <3>1, <3>2 DEF Fits, Kinds
  <2>5. ASSUME \E r \in submit[s].uses : l = UseLock(r) PROVE Fits(s, l)
    <3>1. PICK r \in submit[s].uses : l = UseLock(r)
      BY <2>5
    <3>2. QED BY <2>1, <3>1, UseFits
  <2>6. s \in Submits /\ Fits(s, l)
    BY <2>1, <2>2, <2>3, <2>4, <2>5, PlaceLocksAre
  <2>7. QED BY <1>1, <2>6 DEF s
<1>2. CASE t[1] # "PLACE"
  <2> DEFINE s == t[2]
  <2>1. s \in Submits /\ l \in CancelLocks(s)
    BY <1>2 DEF LocksOf, Txs
  <2>2. PICK r \in submit[s].uses : r.kind # "COUPON_USER" /\ l = KeepLock(r)
    BY <2>1, Zenon DEF CancelLocks, KeepLock
  <2>3. Fits(s, l) /\ l.row = r /\ ~ Alone(l)
    BY <2>1, <2>2, UseFits, LockFields
  <2>4. r.kind \notin {"CART", "KEY", "USER", "COUPON_USER"}
    BY <2>1, <2>2, UseFits DEF Purses
  <2>5. QED BY <2>1, <2>3, <2>4
<1>3. QED BY <1>1, <1>2

(* One transaction locks a row of a kind, of an item, once.                *)
LEMMA OnceByKind ==
  ASSUME IInv, WInv, NEW t \in Txs, NEW l \in LocksOf(t), NEW m \in LocksOf(t),
         l.row.kind = m.row.kind, l.row.item = m.row.item
  PROVE  l = m
<1> DEFINE s == t[2]
<1>1. s \in Submits
  BY DEF Txs
<1>2. CASE t[1] = "PLACE"
  <2> DEFINE Named(k) == \/ k = CartLock(s) /\ k.row.kind = "CART"
                         \/ k = ShareLock(Resource("USER", 0, Own(s))) /\ k.row.kind = "USER"
                         \/ k = KeyLock(s) /\ k.row.kind = "KEY"
                         \/ \E r \in submit[s].uses :
                              k = UseLock(r) /\ k.row = r /\ k.row.kind \notin {"CART", "USER", "KEY"}
  <2>1. ASSUME NEW k \in LocksOf(t) PROVE Named(k)
    <3>1. k \in PlaceLocks(s, submit[s].uses)
      BY <1>2 DEF LocksOf
    <3>2. \A r \in submit[s].uses : UseLock(r).row = r /\ r.kind \notin {"CART", "USER", "KEY"}
      BY <1>1, UseFits, LockFields DEF Purses
    <3>3. /\ CartLock(s).row.kind = "CART" /\ KeyLock(s).row.kind = "KEY"
          /\ ShareLock(Resource("USER", 0, Own(s))).row.kind = "USER"
      BY <1>1, NamedRows
    <3>4. QED BY <1>1, <3>1, <3>2, <3>3, PlaceLocksAre, Zenon
  <2>2. Named(l) /\ Named(m)
    BY <2>1
  <2>3. CASE l.row.kind \in {"CART", "USER", "KEY"}
    BY <2>2, <2>3
  <2>4. CASE l.row.kind \notin {"CART", "USER", "KEY"}
    <3>1. PICK q \in submit[s].uses, r \in submit[s].uses : l = UseLock(q) /\ l.row = q /\ m = UseLock(r) /\ m.row = r
      BY <2>2, <2>4
    <3>2. q = r
      BY <1>1, <3>1, SameUse
    <3>3. QED BY <3>1, <3>2
  <2>5. QED BY <2>3, <2>4
<1>3. CASE t[1] # "PLACE"
  <2>1. PICK q \in submit[s].uses, r \in submit[s].uses : l = KeepLock(q) /\ m = KeepLock(r)
    BY <1>3, Zenon DEF LocksOf, CancelLocks, KeepLock
  <2>2. l.row = q /\ m.row = r
    BY <2>1, LockFields
  <2>3. q = r
    BY <1>1, <2>2, SameUse
  <2>4. QED BY <2>1, <2>3
<1>4. QED BY <1>2, <1>3
-----------------------------------------------------------------------------
(* Whom a transaction waits for, and where.                                *)
WaitsAt(t, l, u) == t # u /\ l \in todo[t] /\ NextLock(t, l) /\ Blocks(u, l)

LEMMA Ranks ==
  ASSUME NEW t
  PROVE  /\ RankOf(t)["CART"] = 0 /\ RankOf(t)["VARIATION"] = 1 /\ RankOf(t)["FLASH"] = 2
         /\ RankOf(t)["PURCHASE"] \in {2, 3} /\ RankOf(t)["KEY"] = 4 /\ RankOf(t)["USER"] = 5
         /\ RankOf(t)["POINTS"] = 6 /\ RankOf(t)["WALLET"] = 7
         /\ RankOf(t)["COUPON_USER"] = 8 /\ RankOf(t)["COUPON"] = 9
BY DEF RankOf, PlaceRank, CancelRank

LEMMA RanksAreNumbers == \A t : \A k \in Kinds : RankOf(t)[k] \in 0 .. 9
BY Ranks DEF Kinds, Purses

LEMMA Holder ==
  ASSUME IInv, WInv, NEW t \in Txs, held[t] # {} \/ todo[t] # {}
  PROVE  held[t] \cup todo[t] = LocksOf(t) /\ held[t] \cap todo[t] = {}
BY DEF IInv, TypeOK, WInv, AllTheirs, Once

(* What comes before a lock one has, or before the next one, one has.      *)
LEMMA HadBefore ==
  ASSUME IInv, WInv, NEW t \in Txs, NEW k \in LocksOf(t), NEW l, Earlier(RankOf(t), k, l),
         l \in held[t] \/ NextLock(t, l)
  PROVE  k \in held[t]
<1>1. held[t] \cup todo[t] = LocksOf(t)
  BY Holder DEF NextLock
<1>2. k \notin todo[t]
  BY DEF WInv, InOrder, NextLock
<1>3. QED BY <1>1, <1>2

LEMMA Apartness ==
  ASSUME IInv, WInv, NEW t \in Txs, NEW u \in Txs, t # u, NEW l \in held[t], NEW m \in held[u],
         Row(l.row) = Row(m.row), ~ Shares(l), ~ Shares(m)
  PROVE  FALSE
<1>1. Conflict(l, m)
  BY Modes DEF Conflict
<1>2. QED BY <1>1 DEF WInv, Apart

(* The rows of users apart, a row is one resource.                         *)
LEMMA SameRow ==
  ASSUME NEW q, NEW r, Row(q) = Row(r)
  PROVE  \/ q.kind \notin {"USER", "POINTS", "WALLET"} /\ q = r
         \/ q.kind \in {"USER", "POINTS", "WALLET"} /\ r.kind \in {"USER", "POINTS", "WALLET"} /\ q.by = r.by
BY DEF Row, Resource, Purses

LEMMA SameUser ==
  ASSUME NEW q, NEW r, q.kind \in {"USER", "POINTS", "WALLET"}, r.kind \in {"USER", "POINTS", "WALLET"}, q.by = r.by
  PROVE  Row(q) = Row(r)
BY DEF Row, Resource, Purses

(* The lock one waits for and the one that stands against it.              *)
LEMMA Standing ==
  ASSUME IInv, WInv, NEW t \in Txs, NEW u \in Txs, NEW l, WaitsAt(t, l, u)
  PROVE  /\ l \in LocksOf(t) /\ t[2] \in Submits /\ u[2] \in Submits /\ Fits(t[2], l)
         /\ \E m \in held[u] : m \in LocksOf(u) /\ Fits(u[2], m) /\ Row(l.row) = Row(m.row) /\ ModesConflict(l.mode, m.mode)
<1>1. l \in LocksOf(t)
  BY Holder DEF WaitsAt
<1>2. PICK m \in held[u] : Conflict(l, m)
  BY DEF WaitsAt, Blocks
<1>3. m \in LocksOf(u)
  BY <1>2, Holder
<1>4. QED BY <1>1, <1>2, <1>3, LocksFit DEF Conflict

(* Nobody waits for a purchase row of a customer: who has it has the quota *)
(* of its item, and who waits has that too.                                *)
LEMMA FlashOf ==
  ASSUME IInv, WInv, NEW t \in Txs, NEW l \in LocksOf(t), l.row.kind = "PURCHASE"
  PROVE  \E k \in LocksOf(t) : k.row = Resource("FLASH", l.row.item, Nobody) /\ ~ Shares(k) /\ Earlier(RankOf(t), k, l)
<1> DEFINE s == t[2]
           f == Resource("FLASH", l.row.item, Nobody)
<1>1. s \in Submits
  BY DEF Txs
<1>2. PICK r \in submit[s].uses : l.row = r
  <2>1. CASE t[1] = "PLACE"
    <3>1. l \in PlaceLocks(s, submit[s].uses)
      BY <2>1 DEF LocksOf
    <3>2. /\ CartLock(s).row.kind # "PURCHASE" /\ KeyLock(s).row.kind # "PURCHASE"
          /\ ShareLock(Resource("USER", 0, Own(s))).row.kind # "PURCHASE"
      BY <1>1, NamedRows
    <3>3. PICK r \in submit[s].uses : l = UseLock(r)
      BY <1>1, <3>1, <3>2, PlaceLocksAre
    <3>4. QED BY <3>3, NamedRows
  <2>2. CASE t[1] # "PLACE"
    <3>1. PICK r \in submit[s].uses : l = KeepLock(r)
      BY <2>2, Zenon DEF LocksOf, CancelLocks, KeepLock
    <3>2. QED BY <3>1, NamedRows
  <2>3. QED BY <2>1, <2>2
<1>3. f \in submit[s].uses
  BY <1>1, <1>2 DEF WInv, UsesOwn, OwnUses
<1>4. f.kind = "FLASH" /\ f.item = l.row.item
  BY ResourceFields
<1> HIDE DEF f
<1>5. \E k \in LocksOf(t) : k.row = f /\ ~ Shares(k)
  <2>1. CASE t[1] = "PLACE"
    <3>1. UseLock(f) \in LocksOf(t)
      BY <1>3, <2>1, Zenon DEF LocksOf, PlaceLocks, UseLock
    <3>2. QED BY <3>1, LockFields
  <2>2. CASE t[1] # "PLACE"
    <3>1. KeepLock(f) \in LocksOf(t)
      BY <1>3, <1>4, <2>2, Zenon DEF LocksOf, CancelLocks, KeepLock
    <3>2. QED BY <3>1, LockFields
  <2>3. QED BY <2>1, <2>2
<1>6. PICK k \in LocksOf(t) : k.row = f /\ ~ Shares(k)
  BY <1>5
<1>7. Earlier(RankOf(t), k, l)
  <2>1. k.row.kind = "FLASH" /\ k.row.item = l.row.item
    BY <1>4, <1>6
  <2>2. QED BY <2>1, Ranks DEF Earlier
<1>8. QED BY <1>6, <1>7 DEF f

LEMMA NoWaitOnPurchase ==
  ASSUME IInv, WInv, NEW t \in Txs, NEW u \in Txs, NEW l, WaitsAt(t, l, u)
  PROVE  l.row.kind # "PURCHASE"
<1> SUFFICES ASSUME l.row.kind = "PURCHASE" PROVE FALSE
  OBVIOUS
<1>1. PICK m \in held[u] : m \in LocksOf(u) /\ Row(l.row) = Row(m.row)
  BY Standing
<1>2. l \in LocksOf(t) /\ m.row = l.row
  BY <1>1, Standing, SameRow
<1>3. PICK k \in LocksOf(t) : k.row = Resource("FLASH", l.row.item, Nobody) /\ ~ Shares(k) /\ Earlier(RankOf(t), k, l)
  BY <1>2, FlashOf
<1>4. PICK n \in LocksOf(u) : n.row = Resource("FLASH", l.row.item, Nobody) /\ ~ Shares(n) /\ Earlier(RankOf(u), n, m)
  BY <1>1, <1>2, FlashOf
<1>5. k \in held[t] /\ n \in held[u] /\ t # u
  BY <1>1, <1>3, <1>4, HadBefore DEF WaitsAt
<1>6. QED BY <1>3, <1>4, <1>5, Apartness
(* Who stands against a lock on a customer's row has taken points or money *)
(* there: a checkout that shares it has the cart, and so has any other     *)
(* checkout that comes that far.                                           *)
LEMMA AgainstUser ==
  ASSUME IInv, WInv, NEW t \in Txs, NEW u \in Txs, t # u, NEW l \in LocksOf(t), l \in held[t] \/ NextLock(t, l),
         NEW m \in held[u], l.row.kind \in {"USER", "POINTS", "WALLET"},
         Row(l.row) = Row(m.row), ModesConflict(l.mode, m.mode)
  PROVE  m.row.kind \in {"POINTS", "WALLET"} /\ ~ Shares(m)
<1>1. m \in LocksOf(u)
  BY Holder
<1>2. /\ t[2] \in Submits /\ Fits(t[2], l) /\ (t[1] # "PLACE" => ~ Alone(l))
      /\ u[2] \in Submits /\ Fits(u[2], m) /\ (u[1] # "PLACE" => m.row.kind # "USER")
  BY <1>1, LocksFit
<1>3. m.row.kind \in {"USER", "POINTS", "WALLET"} /\ l.row.by = m.row.by
  BY SameRow
<1>4. ASSUME m.row.kind = "USER" PROVE FALSE
  <2>1. Shares(m) /\ Alone(l)
    BY <1>2, <1>4, Modes DEF Fits
  <2>2. t[1] = "PLACE" /\ u[1] = "PLACE" /\ Own(t[2]) = Own(u[2])
    BY <1>2, <1>3, <1>4, <2>1 DEF Fits
  <2>3. CartLock(t[2]) \in LocksOf(t) /\ CartLock(u[2]) \in LocksOf(u)
    BY <2>2, Zenon DEF LocksOf, PlaceLocks, CartLock
  <2>4. /\ CartLock(t[2]) = KeepLock(Resource("CART", 0, Own(t[2])))
        /\ CartLock(u[2]) = KeepLock(Resource("CART", 0, Own(t[2])))
    BY <1>2, <2>2, NamedLocks
  <2>5. CartLock(t[2]) = CartLock(u[2]) /\ ~ Shares(CartLock(t[2])) /\ CartLock(t[2]).row.kind = "CART"
    <3>1. \A r : ~ Shares(KeepLock(r))
      BY LockFields
    <3>2. CartLock(t[2]).row.kind = "CART"
      BY <1>2, NamedRows
    <3>3. QED BY <2>4, <3>1, <3>2
  <2>6. Earlier(RankOf(t), CartLock(t[2]), l) /\ Earlier(RankOf(u), CartLock(u[2]), m)
    BY <1>3, <2>5, Ranks DEF Earlier
  <2>7. CartLock(t[2]) \in held[t] /\ CartLock(u[2]) \in held[u]
    BY <2>3, <2>6, HadBefore
  <2>8. QED BY <2>5, <2>7, Apartness
<1>5. QED BY <1>2, <1>3, <1>4 DEF Fits

(* Where the rows of a customer are one level.                             *)
Level == [CART |-> 0, VARIATION |-> 1, FLASH |-> 2, PURCHASE |-> 3, KEY |-> 4, USER |-> 5,
          POINTS |-> 5, WALLET |-> 5, COUPON_USER |-> 8, COUPON |-> 9]
Below(l, m) ==
  \/ Level[l.row.kind] < Level[m.row.kind]
  \/ Level[l.row.kind] = Level[m.row.kind] /\ l.row.item < m.row.item

(* Who stands in the way waits for nobody below: the one waited for, if it *)
(* waits too, waits further up.                                            *)
LEMMA WaitsClimb ==
  ASSUME IInv, WInv, NEW t \in Txs, NEW u \in Txs, NEW w \in Txs, NEW l, NEW n, WaitsAt(t, l, u), WaitsAt(u, n, w)
  PROVE  Below(l, n)
<1>1. PICK m \in held[u] : m \in LocksOf(u) /\ Fits(u[2], m) /\ Row(l.row) = Row(m.row) /\ ModesConflict(l.mode, m.mode)
  BY Standing
<1>2. l \in LocksOf(t) /\ n \in LocksOf(u) /\ n \in todo[u] /\ Fits(t[2], l) /\ Fits(u[2], n) /\ u[2] \in Submits
  BY Standing DEF WaitsAt
<1>3. l.row.kind # "PURCHASE" /\ n.row.kind # "PURCHASE"
  BY NoWaitOnPurchase
<1>4. n # m
  BY <1>1, <1>2, Holder
<1>5. ~ Earlier(RankOf(u), n, m) /\ (n.row.kind = m.row.kind => n.row.item # m.row.item)
  BY <1>1, <1>2, <1>4, OnceByKind DEF WInv, InOrder
<1>6. /\ m.row.kind \in Kinds /\ n.row.kind \in Kinds /\ m.row.item \in Nat /\ n.row.item \in Nat
      /\ (m.row.kind \notin {"VARIATION", "FLASH", "PURCHASE"} => m.row.item = 0)
      /\ (n.row.kind \notin {"VARIATION", "FLASH", "PURCHASE"} => n.row.item = 0)
  BY <1>1, <1>2 DEF Fits
<1>7. CASE l.row.kind \in {"USER", "POINTS", "WALLET"}
  <2>1. m.row.kind \in {"POINTS", "WALLET"} /\ ~ Shares(m)
    BY <1>1, <1>2, <1>7, AgainstUser DEF WaitsAt
  <2>2. n.row.kind \in {"POINTS", "WALLET", "COUPON_USER", "COUPON"}
    BY <1>3, <1>5, <1>6, <2>1, Ranks DEF Earlier, Kinds, Purses
  <2>3. ASSUME n.row.kind \in {"POINTS", "WALLET"} PROVE FALSE
    <3>1. PICK k \in held[w] : k \in LocksOf(w) /\ Row(n.row) = Row(k.row) /\ ModesConflict(n.mode, k.mode)
      BY Standing
    <3>2. k.row.kind \in {"POINTS", "WALLET"} /\ ~ Shares(k)
      BY <1>2, <2>3, <3>1, AgainstUser DEF WaitsAt
    <3>3. m.row.by = Own(u[2]) /\ n.row.by = Own(u[2])
      BY <1>1, <1>2, <2>1, <2>3 DEF Fits
    <3>4. Row(m.row) = Row(n.row)
      BY <2>1, <2>3, <3>3, SameUser
    <3>5. u # w
      BY DEF WaitsAt
    <3>6. QED BY <2>1, <3>1, <3>2, <3>4, <3>5, Apartness
  <2>4. n.row.kind \in {"COUPON_USER", "COUPON"}
    BY <2>2, <2>3
  <2>5. QED BY <1>7, <2>4 DEF Below, Level
<1>8. CASE l.row.kind \notin {"USER", "POINTS", "WALLET"}
  <2>1. m.row = l.row
    BY <1>1, <1>8, SameRow
  <2>2. QED BY <1>3, <1>5, <1>6, <1>8, <2>1, Ranks DEF Earlier, Kinds, Purses, Below, Level
<1>9. QED BY <1>7, <1>8
-----------------------------------------------------------------------------
(* So of any set of waiting transactions, the one with the fewest above it *)
(* waits for none of them.                                                 *)
Waits(t, l) == \E u \in Txs : WaitsAt(t, l, u)
Above(t) == {u \in Txs : \E l \in todo[t], n \in todo[u] : Waits(t, l) /\ Waits(u, n) /\ Below(l, n)}

LEMMA LevelsAreNumbers == \A k \in Kinds : Level[k] \in Nat
BY DEF Level, Kinds, Purses

LEMMA BelowIsAnOrder ==
  ASSUME NEW l, NEW m, NEW n, l.row.kind \in Kinds, m.row.kind \in Kinds, n.row.kind \in Kinds,
         l.row.item \in Nat, m.row.item \in Nat, n.row.item \in Nat, Below(l, m), Below(m, n)
  PROVE  Below(l, n)
<1>1. Level[l.row.kind] \in Nat /\ Level[m.row.kind] \in Nat /\ Level[n.row.kind] \in Nat
  BY LevelsAreNumbers
<1>2. QED BY <1>1 DEF Below

LEMMA WaitFits ==
  ASSUME IInv, WInv, NEW t \in Txs, NEW l, Waits(t, l)
  PROVE  l.row.kind \in Kinds /\ l.row.item \in Nat /\ l.row.kind # "PURCHASE" /\ l \in todo[t] /\ NextLock(t, l)
<1>1. PICK u \in Txs : WaitsAt(t, l, u)
  BY DEF Waits
<1>2. QED BY <1>1, Standing, NoWaitOnPurchase DEF Fits, WaitsAt

(* All locks a transaction waits for are of one level.                     *)
LEMMA OneLevel ==
  ASSUME IInv, WInv, NEW t \in Txs, NEW l, NEW n, Waits(t, l), Waits(t, n)
  PROVE  ~ Below(l, n)
<1>1. /\ ~ Earlier(RankOf(t), l, n) /\ ~ Earlier(RankOf(t), n, l)
      /\ l.row.kind \in Kinds /\ n.row.kind \in Kinds /\ l.row.item \in Nat /\ n.row.item \in Nat
      /\ l.row.kind # "PURCHASE" /\ n.row.kind # "PURCHASE"
  BY WaitFits DEF NextLock
<1>2. RankOf(t)[l.row.kind] = RankOf(t)[n.row.kind] /\ ~ (l.row.item < n.row.item)
  BY <1>1, RanksAreNumbers DEF Earlier
<1>3. l.row.kind = n.row.kind
  BY <1>1, <1>2, Ranks DEF Kinds, Purses
<1>4. QED BY <1>1, <1>2, <1>3, LevelsAreNumbers DEF Below

LEMMA FewerAbove ==
  ASSUME IInv, WInv, NEW t \in Txs, NEW u \in Txs, WaitsFor(t, u), u \in Waiting
  PROVE  Above(u) \subseteq Above(t) /\ Above(u) # Above(t)
<1>1. PICK l \in todo[t] : WaitsAt(t, l, u)
  BY DEF WaitsFor, WaitsAt
<1>2. PICK w \in Txs, n \in todo[u] : WaitsAt(u, n, w)
  BY DEF Waiting, WaitsFor, WaitsAt
<1>3. Waits(t, l) /\ Waits(u, n)
  BY <1>1, <1>2 DEF Waits
<1>4. \A k \in todo[u] : Waits(u, k) => Below(l, k)
  BY <1>1, WaitsClimb DEF Waits
<1>5. Above(u) \subseteq Above(t)
  <2>1. SUFFICES ASSUME NEW x \in Above(u) PROVE x \in Above(t)
    OBVIOUS
  <2>2. PICK k \in todo[u], m \in todo[x] : Waits(u, k) /\ Waits(x, m) /\ Below(k, m)
    BY <2>1 DEF Above
  <2>3. x \in Txs
    BY <2>1 DEF Above
  <2>4. Below(l, k)
    BY <1>4, <2>2
  <2>5. Below(l, m)
    BY <1>3, <2>2, <2>3, <2>4, WaitFits, BelowIsAnOrder
  <2>6. QED BY <1>3, <2>2, <2>3, <2>5 DEF Above
<1>6. u \in Above(t)
  BY <1>3, <1>4 DEF Above
<1>7. u \notin Above(u)
  BY OneLevel DEF Above
<1>8. QED BY <1>5, <1>6, <1>7

LEMMA TxsFinite == IsFiniteSet(Txs)
<1>1. IsFiniteSet({"PLACE"})
  BY FS_Singleton
<1>2. IsFiniteSet({"PLACE"} \cup {"CANCEL"})
  BY <1>1, FS_AddElement
<1>3. {"PLACE"} \cup {"CANCEL"} = {"PLACE", "CANCEL"}
  OBVIOUS
<1>4. QED BY <1>2, <1>3, SubmitsAssumption, FS_Product DEF Txs

LEMMA NoCircle ==
  ASSUME IInv, WInv
  PROVE  NoWaitCycle
<1>1. SUFFICES ASSUME NEW S \in SUBSET Waiting, S # {}
               PROVE  \E t \in S : \A u \in S : ~ WaitsFor(t, u)
  BY DEF NoWaitCycle
<1> DEFINE Aboves == {Above(t) : t \in S}
<1>2. S \subseteq Txs
  BY DEF Waiting
<1>3. Aboves \subseteq FiniteSubsetsOf(Txs)
  <2>1. ASSUME NEW t \in S PROVE Above(t) \in FiniteSubsetsOf(Txs)
    <3>1. Above(t) \subseteq Txs
      BY DEF Above
    <3>2. QED BY <3>1, TxsFinite, FS_Subset DEF FiniteSubsetsOf
  <2>2. QED BY <2>1
<1>4. Aboves # {}
  BY <1>1
<1>5. PICK A \in Aboves : \A B \in Aboves : <<B, A>> \notin StrictSubsetOrdering(Txs)
  <2> HIDE DEF Aboves
  <2>1. IsWellFoundedOn(StrictSubsetOrdering(Txs), FiniteSubsetsOf(Txs))
    BY FS_StrictSubsetOrderingWellFounded
  <2>2. \E A \in Aboves : \A B \in Aboves : ~ (<<B, A>> \in StrictSubsetOrdering(Txs))
    BY <1>3, <1>4, <2>1, WFMin
  <2>3. QED BY <2>2
<1>6. PICK t \in S : A = Above(t)
  BY <1>5
<1>7. ASSUME NEW u \in S, WaitsFor(t, u) PROVE FALSE
  <2>1. Above(u) \subseteq Above(t) /\ Above(u) # Above(t)
    BY <1>1, <1>2, <1>7, FewerAbove
  <2>2. Above(u) \in SUBSET Txs /\ Above(t) \in SUBSET Txs
    BY DEF Above
  <2>3. <<Above(u), A>> \in StrictSubsetOrdering(Txs)
    BY <1>6, <2>1, <2>2 DEF StrictSubsetOrdering
  <2>4. QED BY <1>5, <2>3
<1>8. QED BY <1>7

(* Checkouts and cancellations of any number never wait for each other in  *)
(* a circle.                                                               *)
THEOREM NobodyWaitsInACircle == Spec => []NoWaitCycle
<1>1. Init => WInv
  BY InitWaits
<1>2. IInv /\ WInv /\ [Next]_vars => WInv'
  BY NextWaits
<1>3. IInv /\ WInv => NoWaitCycle
  BY NoCircle
<1>4. QED BY <1>1, <1>2, <1>3, Inductive, PTL DEF Spec
-----------------------------------------------------------------------------
(* Checkout implements CheckoutSales.                                      *)

(* A checkout buys something.                                              *)
Buys == \A s \in Submits : InTx(s) => Bought(s) # {}

LEMMA InitBuys == Init => Buys
BY FreshFields DEF Init, Buys, InTx

LEMMA BuysStep ==
  ASSUME IInv, Buys, [Next]_vars
  PROVE  Buys'
<1> SUFFICES ASSUME NEW p \in Submits, InTx(p)'
             PROVE  Bought(p)' # {}
  BY DEF Buys
<1>1. ASSUME submit'[p] = submit[p]
      PROVE  Bought(p)' # {}
  BY <1>1 DEF Buys, InTx, Bought
<1>2. ASSUME NEW s \in Submits, NEW x, submit' = [submit EXCEPT ![s] = x], x.at # "TX"
      PROVE  Bought(p)' # {}
  BY <1>1, <1>2 DEF InTx, IInv, Typed
<1>3. ASSUME NEW s \in Submits, NEW k, NEW a, AnsweredTo(s, k, a)
      PROVE  Bought(p)' # {}
  <2>1. [Fresh EXCEPT !.at = "DONE", !.key = k, !.answer = a].at # "TX"
    BY DEF Fresh
  <2>2. QED BY <1>2, <1>3, <2>1 DEF AnsweredTo
<1>4. ASSUME NEW s \in Submits, NEW k, Replay(s, k)
      PROVE  Bought(p)' # {}
  BY <1>3, <1>4 DEF Replay
<1>5. ASSUME NEW s \in Submits, NEW a, Answered(s, a)
      PROVE  Bought(p)' # {}
  BY <1>3, <1>5 DEF Answered
<1>6. ASSUME NEW s \in Submits, RecentOrRefused(s)
      PROVE  Bought(p)' # {}
  BY <1>5, <1>6 DEF RecentOrRefused
<1>7. ASSUME NEW s \in Submits, KeyLookup(s)
      PROVE  Bought(p)' # {}
  <2>1. PICK k \in KeysOf[s] :
           Replay(s, k) \/ submit' = [submit EXCEPT ![s].at = "LOOKED", ![s].key = k]
    BY <1>7 DEF KeyLookup
  <2>2. CASE submit' = [submit EXCEPT ![s].at = "LOOKED", ![s].key = k]
    <3>1. submit' = [submit EXCEPT ![s] = [submit[s] EXCEPT !.at = "LOOKED", !.key = k]]
      BY <2>2 DEF IInv, Typed
    <3>2. [submit[s] EXCEPT !.at = "LOOKED", !.key = k].at # "TX"
      BY RowChanges
    <3>3. QED BY <1>2, <3>1, <3>2
  <2>3. QED BY <1>4, <2>1, <2>2
<1>8. ASSUME NEW s \in Submits, ReadCart(s)
      PROVE  Bought(p)' # {}
  <2>1. PICK q \in Requests :
           LET wants == {v \in q.wants : cart[Own(s)][v] # NoLine}
           IN  \/ RecentOrRefused(s) \/ Answered(s, Refused)
               \/ /\ wants # {}
                  /\ submit' = [submit EXCEPT ![s].at = "TX", ![s].seen = cart[Own(s)],
                                  ![s].uses = UsesOf(Own(s), q, wants)]
    BY <1>8 DEF ReadCart
  <2> DEFINE wants == {v \in q.wants : cart[Own(s)][v] # NoLine}
  <2>2. ASSUME wants # {}, p = s,
               submit' = [submit EXCEPT ![s].at = "TX", ![s].seen = cart[Own(s)], ![s].uses = UsesOf(Own(s), q, wants)]
        PROVE  Bought(p)' # {}
    <3> DEFINE uses == UsesOf(Own(s), q, wants)
    <3>1. submit'[p].uses = uses
      <4> HIDE DEF uses
      <4>1. submit'[s] = [submit[s] EXCEPT !.at = "TX", !.seen = cart[Own(s)], !.uses = uses]
        BY <2>2 DEF IInv, Typed, uses
      <4>2. [submit[s] EXCEPT !.at = "TX", !.seen = cart[Own(s)], !.uses = uses].uses = uses
        BY RowChanges
      <4>3. QED BY <2>2, <4>1, <4>2
    <3>2. PICK v \in wants : TRUE
      BY <2>2
    <3>3. v \in Variations
      BY RequestsAssumption
    <3>4. Goods(v) \in UsesOf(Own(s), q, wants)
      BY DEF UsesOf
    <3>5. QED BY <3>1, <3>3, <3>4 DEF Bought
  <2>3. ASSUME p # s,
               submit' = [submit EXCEPT ![s].at = "TX", ![s].seen = cart[Own(s)], ![s].uses = UsesOf(Own(s), q, wants)]
        PROVE  Bought(p)' # {}
    BY <1>1, <2>3 DEF IInv, Typed
  <2>4. QED BY <1>5, <1>6, <2>1, <2>2, <2>3
<1>9. ASSUME NEW s \in Submits, TakeLock(s)
      PROVE  Bought(p)' # {}
  <2>1. CASE UNCHANGED submit
    BY <1>1, <2>1
  <2>2. CASE ~ UNCHANGED submit
    <3>1. PICK w : submit' = [submit EXCEPT ![s].at = "FAILED", ![s].why = w]
      BY <1>9, <2>2 DEF TakeLock
    <3>2. submit' = [submit EXCEPT ![s] = [submit[s] EXCEPT !.at = "FAILED", !.why = w]]
      BY <3>1 DEF IInv, Typed
    <3>3. [submit[s] EXCEPT !.at = "FAILED", !.why = w].at # "TX"
      BY RowChanges
    <3>4. QED BY <1>2, <3>2, <3>3
  <2>3. QED BY <2>1, <2>2
<1>10. ASSUME NEW s \in Submits, Place(s)
       PROVE  Bought(p)' # {}
  <2>1. submit' = [submit EXCEPT ![s] = [submit[s] EXCEPT !.at = "DONE", !.answer = s]]
    BY <1>10 DEF Place, IInv, Typed
  <2>2. [submit[s] EXCEPT !.at = "DONE", !.answer = s].at # "TX"
    BY RowChanges
  <2>3. QED BY <1>2, <2>1, <2>2
<1>11. ASSUME NEW s \in Submits, AfterFailure(s)
       PROVE  Bought(p)' # {}
  BY <1>4, <1>5, <1>6, <1>11 DEF AfterFailure
<1>12. ASSUME NEW s \in Submits, CrashPlace(s)
       PROVE  Bought(p)' # {}
  BY <1>5, <1>12 DEF CrashPlace
<1>13. CASE UNCHANGED submit
  BY <1>1, <1>13
<1>14. ASSUME CustomerStep
       PROVE  UNCHANGED submit
  BY <1>14 DEF CustomerStep, AddLine, ChangeLine, RemoveLine, EditLine
<1>15. ASSUME NEW s \in Submits, TakeCancelLock(s) \/ Cancel(s) \/ StartCancel(s) \/ CrashCancel(s)
       PROVE  UNCHANGED submit
  BY <1>15 DEF TakeCancelLock, Cancel, StartCancel, CrashCancel
<1>16. QED
  BY <1>7, <1>8, <1>9, <1>10, <1>11, <1>12, <1>13, <1>14, <1>15 DEF Next, Proceeds, Fault, vars

LEMMA InitSells == Init => Sales!Init
<1> SUFFICES ASSUME Init PROVE Sales!Init
  OBVIOUS
<1>1. \A s \in Submits : SaleOf(s) = Sales!Nothing
  BY DEF Init, SaleOf, Sales!Nothing
<1>2. QED BY <1>1 DEF Init, Sales!Init

(* The lines that were sold out of a customer's cart.                      *)
LEMMA GoneIs ==
  \A c, x : x \in Sales!Gone(c) <=> \E p \in Submits : Own(p) = c /\ Placed(p) /\ x \in LinesOf(p)
BY DEF Sales!Gone, SaleOf, Placed, Own

LEMMA LinesAre ==
  \A s, v, i : <<v, i>> \in LinesOf(s) <=> v \in Bought(s) /\ i = submit[s].seen[v].id
BY DEF LinesOf

(* A sale is what it was as long as its submit, once placed, is.           *)
LEMMA SaleStays ==
  ASSUME NEW p \in Submits, Placed(p)' <=> Placed(p), Placed(p) => submit'[p] = submit[p]
  PROVE  SaleOf(p)' = SaleOf(p)
<1>1. CASE ~ Placed(p)
  BY <1>1 DEF SaleOf, Placed
<1>2. CASE Placed(p)
  <2>1. LinesOf(p)' = LinesOf(p)
    BY <1>2 DEF LinesOf, Bought
  <2>2. QED BY <1>2, <2>1 DEF SaleOf, Placed
<1>3. QED BY <1>1, <1>2

(* Until its commit, a checkout is not seen.                               *)
LEMMA NotSeen ==
  ASSUME IInv, NEW s \in Submits, submit[s].at # "DONE", NEW x, submit' = [submit EXCEPT ![s] = x],
         UNCHANGED << cart, taken, order >>
  PROVE  UNCHANGED Sales!vars
<1>1. \A p \in Submits : Placed(p) => submit'[p] = submit[p]
  BY NotPlaced DEF IInv, Typed
<1>2. \A p \in Submits : Placed(p)' <=> Placed(p)
  BY DEF Placed
<1>3. \A p \in Submits : SaleOf(p)' = SaleOf(p)
  BY <1>1, <1>2, SaleStays
<1>4. QED BY <1>3 DEF Sales!vars

(* An edit: nothing that was sold comes back.                              *)
LEMMA EditSells ==
  ASSUME IInv, CustomerStep
  PROVE  Sales!Next
<1>1. PICK c \in Customers : \E v \in Variations : \E line : cart' = [cart EXCEPT ![c][v] = line]
  BY DEF CustomerStep, AddLine, ChangeLine, RemoveLine, EditLine
<1>2. UNCHANGED << submit, taken, order >>
  BY DEF CustomerStep, AddLine, ChangeLine, RemoveLine, EditLine
<1>3. \A d \in Customers \ {c} : cart'[d] = cart[d]
  BY <1>1 DEF IInv, TypeOK
<1>4. \A p \in Submits : SaleOf(p)' = SaleOf(p)
  BY <1>2, SaleStays DEF Placed
<1>5. ASSUME NEW w \in Variations, <<w, cart'[c][w].id>> \in Sales!Gone(c)
      PROVE  FALSE
  <2>1. PICK p \in Submits : Own(p) = c /\ Placed(p) /\ <<w, cart'[c][w].id>> \in LinesOf(p)
    BY <1>5, GoneIs
  <2>2. w \in Bought(p) /\ cart'[c][w].id = submit[p].seen[w].id
    BY <2>1, LinesAre
  <2>3. BoughtIsGone'
    BY CustomerStepInv DEF IInv
  <2>4. w \in Bought(p)' /\ Placed(p)'
    BY <1>2, <2>1, <2>2 DEF Bought, Placed
  <2>5. cart'[Own(p)][w].id # submit'[p].seen[w].id
    BY <2>3, <2>4 DEF BoughtIsGone, Own
  <2>6. QED BY <1>2, <2>1, <2>2, <2>5
<1>6. Sales!Edit(c)
  BY <1>2, <1>3, <1>4, <1>5 DEF Sales!Edit
<1>7. QED BY <1>6 DEF Sales!Next

(* The commit of a checkout is the sale.                                   *)
LEMMA PlaceSells ==
  ASSUME IInv, Buys, NEW s \in Submits, Place(s)
  PROVE  Sales!Sell(s)
<1> DEFINE got == [uses |-> submit[s].uses, lines |-> LinesOf(s), key |-> submit[s].key]
<1>1. InTx(s) /\ ~ Placed(s) /\ todo[Buyer(s)] = {}
  BY NotPlaced DEF Place, InTx, Buyer
<1>2. /\ \A r \in submit[s].uses : r \in Resources /\ Left(r)
      /\ submit[s].key # NoKey => WithKey(submit[s].key) = {}
  BY <1>1, AllLocked
<1>3. order' = [order EXCEPT ![s] = "OPEN"] /\ order'[s] = "OPEN" /\ \A p \in Submits : p # s => order'[p] = order[p]
  BY DEF Place, IInv, TypeOK
<1>4. submit' = [submit EXCEPT ![s] = [submit[s] EXCEPT !.at = "DONE", !.answer = s]]
  BY DEF Place, IInv, Typed
<1>5. /\ submit'[s].uses = submit[s].uses /\ submit'[s].seen = submit[s].seen /\ submit'[s].key = submit[s].key
      /\ \A p \in Submits : p # s => submit'[p] = submit[p]
  <2> DEFINE j == [submit[s] EXCEPT !.at = "DONE", !.answer = s]
  <2>1. j.uses = submit[s].uses /\ j.seen = submit[s].seen /\ j.key = submit[s].key
    BY RowChanges
  <2>2. submit' = [submit EXCEPT ![s] = j]
    BY <1>4
  <2> HIDE DEF j
  <2>3. QED BY <2>1, <2>2 DEF IInv, Typed
<1>6. SaleOf(s)' = got /\ \A p \in Submits : p # s => SaleOf(p)' = SaleOf(p)
  <2>1. LinesOf(s)' = LinesOf(s)
    BY <1>5 DEF LinesOf, Bought
  <2>2. SaleOf(s)' = got
    BY <1>3, <1>5, <2>1 DEF SaleOf
  <2>3. \A p \in Submits : p # s => (Placed(p)' <=> Placed(p))
    BY <1>3 DEF Placed
  <2>4. QED BY <1>5, <2>2, <2>3, SaleStays
<1>7. LinesOf(s) # {}
  BY <1>1 DEF Buys, LinesOf
<1>8. LinesOf(s) \cap Sales!Gone(Own(s)) = {}
  <2>1. SUFFICES ASSUME NEW x \in LinesOf(s), x \in Sales!Gone(Own(s)) PROVE FALSE
    OBVIOUS
  <2>2. PICK p \in Submits : Placed(p) /\ x \in LinesOf(p)
    BY <2>1, GoneIs
  <2>3. PICK v \in Bought(s) : x = <<v, submit[s].seen[v].id>>
    BY <2>1 DEF LinesOf
  <2>4. v \in Bought(p) /\ submit[p].seen[v].id = submit[s].seen[v].id
    BY <2>2, <2>3, LinesAre
  <2>5. p # s /\ order'[s] # "NONE" /\ order'[p] # "NONE"
    BY <1>1, <1>3, <2>2 DEF Placed
  <2>6. CartBoughtOnce' /\ v \in Bought(s)' \cap Bought(p)'
    BY <1>5, <2>3, <2>4, <2>5, PlaceInv DEF IInv, Bought
  <2>7. submit'[s].seen[v].id # submit'[p].seen[v].id
    BY <2>5, <2>6 DEF CartBoughtOnce
  <2>8. QED BY <1>5, <2>4, <2>5, <2>7
<1>9. submit[s].key # NoKey => \A p \in Submits : Placed(p) => SaleOf(p).key # submit[s].key
  BY <1>2 DEF WithKey, Placed, SaleOf
<1>10. taken' = [r \in Resources |-> IF r \in submit[s].uses THEN taken[r] + 1 ELSE taken[r]]
  <2>1. \A r \in Resources : taken[r] \in Nat
    BY DEF IInv, TypeOK
  <2>2. taken' = [r \in Resources |-> taken[r] + (IF r \in submit[s].uses THEN 1 ELSE 0)]
    BY DEF Place
  <2>3. QED BY <2>1, <2>2
<1>11. cart' = [cart EXCEPT ![Own(s)] =
                  [v \in Variations |-> IF <<v, @[v].id>> \in LinesOf(s) THEN NoLine ELSE @[v]]]
  <2>1. \A v : (v \in Bought(s) /\ cart[Own(s)][v].id = submit[s].seen[v].id)
                <=> <<v, cart[Own(s)][v].id>> \in LinesOf(s)
    BY LinesAre
  <2>2. QED BY <2>1 DEF Place
<1> DEFINE sale == [p \in Submits |-> SaleOf(p)]
<1>12. sale'[s] = got /\ sale' = [sale EXCEPT ![s] = got] /\ \A p \in Submits : sale[p] = SaleOf(p)
  BY <1>6
<1>13. got.uses = submit[s].uses /\ got.lines = LinesOf(s) /\ got.key = submit[s].key
  OBVIOUS
<1>14. ~ Sales!Sold(s) /\ \A p \in Submits : Sales!Sold(p) <=> Placed(p)
  BY <1>1 DEF Sales!Sold, Placed
<1> HIDE DEF got
<1>15. got.key # NoKey => \A p \in Submits : Sales!Sold(p) => sale[p].key # got.key
  BY <1>9, <1>12, <1>13, <1>14
<1>16. \A r \in got.uses : taken[r] < Limit[r]
  BY <1>2, <1>13 DEF Left
<1>17. got.lines # {} /\ got.lines \cap Sales!Gone(Owner[s]) = {}
  BY <1>7, <1>8, <1>13 DEF Own
<1>18. /\ taken' = [r \in Resources |-> IF r \in got.uses THEN taken[r] + 1 ELSE taken[r]]
       /\ cart' = [cart EXCEPT ![Owner[s]] =
                     [v \in Variations |-> IF <<v, @[v].id>> \in got.lines THEN NoLine ELSE @[v]]]
  BY <1>10, <1>11, <1>13 DEF Own
<1>19. QED
  BY <1>3, <1>12, <1>14, <1>15, <1>16, <1>17, <1>18 DEF Sales!Sell

(* The commit of a cancellation takes the order back.                      *)
LEMMA CancelTakesBack ==
  ASSUME IInv, NEW s \in Submits, Cancel(s)
  PROVE  Sales!TakeBack(s)
<1>1. order[s] = "OPEN" /\ UNCHANGED << cart, submit >> /\ order' = [order EXCEPT ![s] = "CANCELLED"]
  BY DEF Cancel, IInv, Lifecycle
<1>2. \A p \in Submits : Placed(p)' <=> Placed(p)
  BY <1>1 DEF Placed, IInv, TypeOK
<1>3. \A p \in Submits : SaleOf(p)' = SaleOf(p)
  BY <1>1, <1>2, SaleStays
<1>4. SaleOf(s).uses = submit[s].uses
  BY <1>1 DEF SaleOf
<1>5. taken' = [r \in Resources |-> IF r \in submit[s].uses THEN taken[r] - 1 ELSE taken[r]]
  <2>1. ASSUME NEW r \in Resources, r \in submit[s].uses
        PROVE  GiveBack(taken[r]) = taken[r] - 1
    <3>1. s \in Takers(r)
      BY <1>1, <2>1 DEF Takers
    <3>2. Cardinality(Takers(r)) # 0
      BY <3>1, TakersFinite, FS_EmptySet
    <3>3. QED BY <3>2 DEF GiveBack, IInv, BooksBalance, TypeOK
  <2>2. QED BY <2>1 DEF Cancel
<1>6. QED BY <1>1, <1>3, <1>4, <1>5 DEF Sales!TakeBack

(* Every step of Checkout is a step of CheckoutSales or not seen there.    *)
LEMMA NextSells ==
  ASSUME IInv, Buys, [Next]_vars
  PROVE  Sales!Next \/ UNCHANGED Sales!vars
<1>1. ASSUME NEW s \in Submits, KeyLookup(s) \/ ReadCart(s) \/ TakeLock(s) \/ AfterFailure(s) \/ CrashPlace(s)
      PROVE  UNCHANGED Sales!vars
  <2>1. submit[s].at # "DONE" /\ UNCHANGED << cart, taken, order >>
    BY <1>1 DEF KeyLookup, ReadCart, TakeLock, AfterFailure, CrashPlace, Stays
  <2>2. \A k, a : AnsweredTo(s, k, a) => \E x : submit' = [submit EXCEPT ![s] = x]
    BY DEF AnsweredTo
  <2>3. \A k : Replay(s, k) => \E x : submit' = [submit EXCEPT ![s] = x]
    BY <2>2 DEF Replay
  <2>4. RecentOrRefused(s) \/ (\E a : Answered(s, a)) => \E x : submit' = [submit EXCEPT ![s] = x]
    BY <2>2 DEF RecentOrRefused, Answered
  <2>5. \E x : submit' = [submit EXCEPT ![s] = x]
    <3>1. CASE KeyLookup(s)
      BY <3>1, <2>3 DEF KeyLookup
    <3>2. CASE ReadCart(s)
      BY <3>2, <2>4 DEF ReadCart
    <3>3. CASE TakeLock(s)
      <4>1. UNCHANGED submit => submit' = [submit EXCEPT ![s] = submit[s]]
        BY DEF IInv, Typed
      <4>2. QED BY <3>3, <4>1 DEF TakeLock
    <3>4. CASE AfterFailure(s)
      BY <3>4, <2>3, <2>4 DEF AfterFailure
    <3>5. CASE CrashPlace(s)
      BY <3>5, <2>4 DEF CrashPlace
    <3>6. QED BY <1>1, <3>1, <3>2, <3>3, <3>4, <3>5
  <2>6. QED BY <2>1, <2>5, NotSeen
<1>2. ASSUME UNCHANGED << cart, taken, order, submit >>
      PROVE  UNCHANGED Sales!vars
  <2>1. \A p \in Submits : SaleOf(p)' = SaleOf(p)
    BY <1>2, SaleStays DEF Placed
  <2>2. QED BY <1>2, <2>1 DEF Sales!vars
<1>3. ASSUME NEW s \in Submits, StartCancel(s) \/ TakeCancelLock(s) \/ CrashCancel(s)
      PROVE  UNCHANGED Sales!vars
  BY <1>2, <1>3 DEF StartCancel, TakeCancelLock, CrashCancel
<1>4. CASE UNCHANGED vars
  BY <1>2, <1>4 DEF vars
<1>5. ASSUME NEW s \in Submits, Place(s) \/ Cancel(s)
      PROVE  Sales!Next
  BY <1>5, PlaceSells, CancelTakesBack DEF Sales!Next
<1>6. QED BY <1>1, <1>3, <1>4, <1>5, EditSells DEF Next, Proceeds, Fault

(* However checkouts, cancellations, edits and crashes interleave, each     *)
(* order is sold and taken back in one step, judged by what holds then.     *)
THEOREM SoldInOneStep == Spec => SalesSpec
<1>1. Buys /\ IInv /\ [Next]_vars => Buys'
  BY BuysStep
<1>2. Spec => []Buys
  BY <1>1, Inductive, InitBuys, PTL DEF Spec
<1>3. IInv /\ Buys /\ [Next]_vars => [Sales!Next]_(Sales!vars)
  BY NextSells
<1>4. QED BY <1>2, <1>3, Inductive, InitSells, PTL DEF Spec, SalesSpec, Sales!Spec
=============================================================================
