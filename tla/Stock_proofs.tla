--------------------------- MODULE Stock_proofs ----------------------------
(***************************************************************************)
(* For any products, orders, calls and administrators: the rows that a     *)
(* reservation refers to never disappear.  The check of the products and   *)
(* the insert of the rows are separate steps with deletions in between;    *)
(* what carries the property across is that a checked reservation found a  *)
(* stock row for every item, and a stock row keeps its product.            *)
(*                                                                         *)
(* For the clients that the order service is, Stock implements StockLedger:*)
(* what a call found is still so when it writes.  The ledger counts what   *)
(* is reserved, a sum over all orders, so sums come first.                 *)
(***************************************************************************)
EXTENDS Stock, FiniteSetTheorems, TLAPS

-----------------------------------------------------------------------------
(* Sums over finite sets.  MapThenSumSet folds with a recursive function   *)
(* on the subsets of its set, that is, some function which solves an       *)
(* equation.  It is shown to have a solution on every finite set, by the   *)
(* smallest number of elements without one; from the equation, what one    *)
(* more element adds, by a smallest set that differs.                      *)
Total(f, p, S) == MapThenSumSet(LAMBDA x : f[x][p], S)

Pick(s) == CHOOSE x \in s : TRUE

Summand(g, f, p, s) == IF s = {} THEN 0 ELSE f[Pick(s)][p] + g[s \ {Pick(s)}]

Sums(f, p, S) == CHOOSE g : g = [s \in SUBSET S |-> Summand(g, f, p, s)]

LEMMA Picked == \A s : s # {} => Pick(s) \in s
BY DEF Pick

LEMMA Unfolded == ASSUME NEW f, NEW p, NEW S PROVE Total(f, p, S) = Sums(f, p, S)[S]
BY DEF Total, Sums, Summand, Pick, MapThenSumSet, MapThenFoldSet

(* g solves the equation on the sets of up to n elements.                  *)
SummedUpTo(g, f, p, S, n) ==
    /\ DOMAIN g = SUBSET S
    /\ \A s \in SUBSET S : Cardinality(s) <= n => g[s] = Summand(g, f, p, s)

LEMMA SmallestNat ==
    ASSUME NEW T \in SUBSET Nat, T # {}
    PROVE  \E n \in T : \A m \in T : n <= m
<1>1. OpToRel(<, Nat) = {pair \in Nat \X Nat : pair[1] < pair[2]}
    BY DEF OpToRel
<1>2. PICK n \in T : \A m \in T : ~ (<<m, n>> \in OpToRel(<, Nat))
    BY WFMin, NatLessThanWellFounded
<1>3. ASSUME NEW m \in T PROVE n <= m
    <2>1. <<m, n>> \notin {pair \in Nat \X Nat : pair[1] < pair[2]}
        BY <1>1, <1>2
    <2>2. QED
        BY <2>1
<1>4. QED
    BY <1>3

LEMMA SummedNext ==
    ASSUME NEW f, NEW p, NEW S, IsFiniteSet(S), NEW n \in Nat, NEW g, SummedUpTo(g, f, p, S, n)
    PROVE  \E h : SummedUpTo(h, f, p, S, n + 1)
<1> DEFINE h == [s \in SUBSET S |-> Summand(g, f, p, s)]
<1>1. ASSUME NEW s \in SUBSET S, Cardinality(s) <= n + 1 PROVE h[s] = Summand(h, f, p, s)
    <2>1. CASE s = {}
        BY <2>1 DEF Summand
    <2>2. CASE s # {}
        <3> DEFINE t == s \ {Pick(s)}
        <3>1. Pick(s) \in s /\ t \in SUBSET S
            BY <2>2, Picked
        <3>2. IsFiniteSet(s)
            BY FS_Subset
        <3>3. Cardinality(t) = Cardinality(s) - 1 /\ Cardinality(s) \in Nat
            BY <3>1, <3>2, FS_RemoveElement, FS_CardinalityType
        <3>4. g[t] = Summand(g, f, p, t)
            BY <1>1, <3>1, <3>3 DEF SummedUpTo
        <3>5. h[t] = g[t]
            BY <3>1, <3>4
        <3>6. h[s] = f[Pick(s)][p] + g[t] /\ Summand(h, f, p, s) = f[Pick(s)][p] + h[t]
            BY <2>2 DEF Summand
        <3>7. QED
            BY <3>5, <3>6
    <2>3. QED
        BY <2>1, <2>2
<1>2. SummedUpTo(h, f, p, S, n + 1)
    BY <1>1 DEF SummedUpTo
<1>3. QED
    BY <1>2

LEMMA SumsExist ==
    ASSUME NEW f, NEW p, NEW S, IsFiniteSet(S)
    PROVE  \E g : g = [s \in SUBSET S |-> Summand(g, f, p, s)]
<1> DEFINE Unsolved == {n \in Nat : ~ \E g : SummedUpTo(g, f, p, S, n)}
<1>1. Unsolved = {}
    <2>1. SUFFICES ASSUME Unsolved # {} PROVE FALSE
        OBVIOUS
    <2>2. PICK n \in Unsolved : \A m \in Unsolved : n <= m
        BY <2>1, SmallestNat
    <2>3. ~ \E g : SummedUpTo(g, f, p, S, n)
        BY <2>2
    <2>4. n # 0
        <3> DEFINE z == [s \in SUBSET S |-> 0]
        <3>1. ASSUME NEW s \in SUBSET S, Cardinality(s) <= 0 PROVE s = {}
            <4>1. IsFiniteSet(s)
                BY FS_Subset
            <4>2. QED
                BY <3>1, <4>1, FS_CardinalityType, FS_EmptySet
        <3>2. SummedUpTo(z, f, p, S, 0)
            BY <3>1 DEF SummedUpTo, Summand
        <3>3. QED
            BY <3>2, <2>3
    <2>5. n - 1 \in Nat /\ n - 1 \notin Unsolved
        BY <2>2, <2>4
    <2>6. PICK g : SummedUpTo(g, f, p, S, n - 1)
        BY <2>5
    <2>7. \E h : SummedUpTo(h, f, p, S, (n - 1) + 1)
        BY <2>5, <2>6, SummedNext
    <2>8. QED
        BY <2>2, <2>3, <2>7
<1>2. Cardinality(S) \in Nat
    BY FS_CardinalityType
<1>3. PICK g : SummedUpTo(g, f, p, S, Cardinality(S))
    BY <1>1, <1>2
<1>4. ASSUME NEW s \in SUBSET S PROVE Cardinality(s) <= Cardinality(S)
    BY FS_Subset
<1>5. [s \in SUBSET S |-> g[s]] = [s \in SUBSET S |-> Summand(g, f, p, s)]
    BY <1>3, <1>4 DEF SummedUpTo
<1>6. DEFINE h == [s \in SUBSET S |-> g[s]]
<1>7. ASSUME NEW s \in SUBSET S PROVE Summand(h, f, p, s) = Summand(g, f, p, s)
    BY Picked DEF Summand
<1>8. h = [s \in SUBSET S |-> Summand(h, f, p, s)]
    BY <1>5, <1>7
<1>9. QED
    BY <1>8

LEMMA SumsEquation ==
    ASSUME NEW f, NEW p, NEW S, IsFiniteSet(S)
    PROVE  \A s \in SUBSET S : Sums(f, p, S)[s] = Summand(Sums(f, p, S), f, p, s)
<1>1. Sums(f, p, S) = [s \in SUBSET S |-> Summand(Sums(f, p, S), f, p, s)]
    BY SumsExist DEF Sums
<1>2. QED
    BY <1>1

LEMMA SmallestSet ==
    ASSUME NEW S, IsFiniteSet(S), NEW D \in SUBSET (SUBSET S), D # {}
    PROVE  \E t \in D : \A u \in SUBSET t : u # t => u \notin D
<1>1. D \subseteq FiniteSubsetsOf(S)
    BY FS_FiniteSubsetsOfFinite
<1>2. PICK t \in D : \A u \in D : ~ (<<u, t>> \in StrictSubsetOrdering(S))
    BY <1>1, WFMin, FS_StrictSubsetOrderingWellFounded
<1>3. QED
    BY <1>2 DEF StrictSubsetOrdering

LEMMA SumsAgree ==
    ASSUME NEW f, NEW p, NEW S, IsFiniteSet(S), NEW T \in SUBSET S
    PROVE  Sums(f, p, S)[T] = Sums(f, p, T)[T]
<1> DEFINE g == Sums(f, p, S)
           h == Sums(f, p, T)
           D == {s \in SUBSET T : g[s] # h[s]}
<1>1. IsFiniteSet(T)
    BY FS_Subset
<1>2. /\ \A s \in SUBSET S : g[s] = Summand(g, f, p, s)
      /\ \A s \in SUBSET T : h[s] = Summand(h, f, p, s)
    BY <1>1, SumsEquation
<1> HIDE DEF g, h
<1>3. SUFFICES ASSUME D # {} PROVE FALSE
    BY DEF g, h
<1>4. PICK s \in D : \A u \in SUBSET s : u # s => u \notin D
    <2>1. D \in SUBSET (SUBSET T)
        OBVIOUS
    <2> HIDE DEF D
    <2>2. QED
        BY <1>1, <1>3, <2>1, SmallestSet
<1>5. g[s] = Summand(g, f, p, s) /\ h[s] = Summand(h, f, p, s)
    BY <1>2
<1>6. s # {} => g[s \ {Pick(s)}] = h[s \ {Pick(s)}]
    BY <1>4, Picked
<1>7. QED
    BY <1>4, <1>5, <1>6 DEF Summand

LEMMA TotalOfNone == ASSUME NEW f, NEW p PROVE Total(f, p, {}) = 0
<1>1. Sums(f, p, {})[{}] = Summand(Sums(f, p, {}), f, p, {})
    BY SumsEquation, FS_EmptySet
<1>2. QED
    BY <1>1, Unfolded DEF Summand

LEMMA TotalPick ==
    ASSUME NEW f, NEW p, NEW S, IsFiniteSet(S), S # {}
    PROVE  Total(f, p, S) = f[Pick(S)][p] + Total(f, p, S \ {Pick(S)})
<1> DEFINE T == S \ {Pick(S)}
<1>1. Sums(f, p, S)[S] = Summand(Sums(f, p, S), f, p, S)
    BY SumsEquation
<1>2. Sums(f, p, S)[S] = f[Pick(S)][p] + Sums(f, p, S)[T]
    BY <1>1 DEF Summand
<1>3. Sums(f, p, S)[T] = Sums(f, p, T)[T]
    BY SumsAgree
<1>4. QED
    BY <1>2, <1>3, Unfolded

LEMMA TotalIsNat ==
    ASSUME NEW p, NEW S, IsFiniteSet(S), NEW f, \A x \in S : f[x][p] \in Nat
    PROVE  Total(f, p, S) \in Nat
<1> DEFINE D == {s \in SUBSET S : Total(f, p, s) \notin Nat}
<1>1. SUFFICES ASSUME D # {} PROVE FALSE
    OBVIOUS
<1>2. PICK s \in D : \A u \in SUBSET s : u # s => u \notin D
    <2>1. D \in SUBSET (SUBSET S)
        OBVIOUS
    <2> HIDE DEF D
    <2>2. QED
        BY <1>1, <2>1, SmallestSet
<1>3. IsFiniteSet(s)
    BY FS_Subset
<1>4. s # {}
    <2>1. Total(f, p, {}) \in Nat
        BY TotalOfNone
    <2>2. QED
        BY <2>1
<1>5. Pick(s) \in s /\ s \ {Pick(s)} \notin D
    BY <1>2, <1>4, Picked
<1>6. Total(f, p, s) = f[Pick(s)][p] + Total(f, p, s \ {Pick(s)})
    BY <1>3, <1>4, TotalPick
<1>7. f[Pick(s)][p] \in Nat /\ Total(f, p, s \ {Pick(s)}) \in Nat
    BY <1>5
<1>8. QED
    BY <1>2, <1>6, <1>7

LEMMA TotalSplits ==
    ASSUME NEW p, NEW S, IsFiniteSet(S), NEW f, \A x \in S : f[x][p] \in Nat, NEW x \in S
    PROVE  Total(f, p, S) = f[x][p] + Total(f, p, S \ {x})
<1> DEFINE D == {s \in SUBSET S : \E y \in s : Total(f, p, s) # f[y][p] + Total(f, p, s \ {y})}
<1>1. SUFFICES ASSUME D # {} PROVE FALSE
    OBVIOUS
<1>2. PICK s \in D : \A u \in SUBSET s : u # s => u \notin D
    <2>1. D \in SUBSET (SUBSET S)
        OBVIOUS
    <2> HIDE DEF D
    <2>2. QED
        BY <1>1, <2>1, SmallestSet
<1>3. PICK y \in s : Total(f, p, s) # f[y][p] + Total(f, p, s \ {y})
    BY <1>2
<1> DEFINE z == Pick(s)
           r == (s \ {y}) \ {z}
<1>4. z \in s
    BY <1>3, Picked
<1>5. Total(f, p, s) = f[z][p] + Total(f, p, s \ {z})
    BY <1>3, TotalPick, FS_Subset
<1> HIDE DEF z
<1>6. z # y
    BY <1>3, <1>5
<1>7. s \ {z} \notin D /\ s \ {y} \notin D
    BY <1>2, <1>4
<1>8. (s \ {z}) \ {y} = r
    OBVIOUS
<1>9. Total(f, p, s \ {z}) = f[y][p] + Total(f, p, r)
    <2>1. y \in s \ {z} /\ s \ {z} \in SUBSET S
        BY <1>6
    <2>2. QED
        BY <1>7, <1>8, <2>1
<1>10. Total(f, p, s \ {y}) = f[z][p] + Total(f, p, r)
    BY <1>4, <1>6, <1>7
<1>11. f[y][p] \in Nat /\ f[z][p] \in Nat /\ Total(f, p, r) \in Nat
    BY <1>4, TotalIsNat, FS_Subset
<1>12. QED
    BY <1>3, <1>5, <1>9, <1>10, <1>11

-----------------------------------------------------------------------------
(* Rows refer to what exists, for any clients.                             *)
StockedExist == stocked \subseteq catalog

CheckedIsStocked ==
    \A c \in Calls : at[c] = "checked" => Items(c.order) \subseteq stocked

(* Rows that a confirm or a restore found are never removed.               *)
FoundHasRows == \A c \in Calls : at[c] = "found" => resv[c.order] # "NONE"

IInv ==
    TypeOK /\ StockedExist /\ CheckedIsStocked /\ FoundHasRows /\ ReservedRowsHaveStock

LEMMA InitInv == Init => IInv
<1> SUFFICES ASSUME Init PROVE IInv
    OBVIOUS
<1> USE OrderItems, CallsAssumption DEF Init
<1>1. TypeOK
    BY DEF TypeOK, Statuses, Running
<1>2. StockedExist /\ CheckedIsStocked /\ FoundHasRows /\ ReservedRowsHaveStock
    BY DEF StockedExist, CheckedIsStocked, FoundHasRows, ReservedRowsHaveStock, Running
<1>3. QED
    BY <1>1, <1>2 DEF IInv

LEMMA DeductTyped ==
    ASSUME TypeOK, NEW o \in Orders
    PROVE  Deduct(o) \in [Products -> Int] /\ PutBack(o) \in [Products -> Int]
BY OrderItems DEF TypeOK, Deduct, PutBack

LEMMA StepInv == IInv /\ [Next]_vars => IInv'
<1> SUFFICES ASSUME IInv, [Next]_vars PROVE IInv'
    OBVIOUS
<1> USE OrderItems, CallsAssumption, QuantitiesAssumption
    DEF IInv, TypeOK, StockedExist, CheckedIsStocked, FoundHasRows, ReservedRowsHaveStock,
        Statuses, Running, Items, Goto, SetResv
<1>1. ASSUME NEW c \in Calls, Begin(c) \/ CreateCheckProducts(c) \/ Abort(c) PROVE IInv'
    BY <1>1 DEF Begin, CreateCheckProducts, Abort
<1>2. ASSUME NEW c \in Calls, CreateCheckStock(c) PROVE IInv'
    BY <1>2 DEF CreateCheckStock, Available
<1>3. ASSUME NEW c \in Calls, CreateInsert(c) PROVE IInv'
    BY <1>3 DEF CreateInsert
<1>4. ASSUME NEW c \in Calls, ConfirmFind(c) \/ RestoreFind(c) PROVE IInv'
    BY <1>4 DEF ConfirmFind, RestoreFind
<1>5. ASSUME NEW c \in Calls, ConfirmWrite(c) PROVE IInv'
    BY <1>5, DeductTyped DEF ConfirmWrite
<1>6. ASSUME NEW c \in Calls, RestoreWrite(c) PROVE IInv'
    BY <1>6, DeductTyped DEF RestoreWrite
<1>7. ASSUME NEW o \in Orders, Expire(o) PROVE IInv'
    BY <1>7 DEF Expire
<1>8. ASSUME NEW p \in Products, DeleteProduct(p) PROVE IInv'
    BY <1>8 DEF DeleteProduct
<1>9. ASSUME NEW p \in Products, NEW q \in Quantities, UpsertStock(p, q) PROVE IInv'
    BY <1>9 DEF UpsertStock
<1>10. CASE UNCHANGED vars
    BY <1>10 DEF vars
<1>11. QED
    BY <1>1, <1>2, <1>3, <1>4, <1>5, <1>6, <1>7, <1>8, <1>9, <1>10 DEF Next, CallStep, Admin

LEMMA Invariance == Spec => []IInv
BY InitInv, StepInv, PTL DEF Spec

(* Tables and calls keep their types.                                      *)
THEOREM StockTyping == Spec => []TypeOK
<1>1. IInv => TypeOK
    BY DEF IInv
<1>2. QED
    BY <1>1, Invariance, PTL

(* No deletion takes away the product or the stock row of a reservation    *)
(* (createStockReservation, deleteProduct).                                *)
THEOREM ReservedRowsKept == Spec => []ReservedRowsHaveStock
<1>1. IInv => ReservedRowsHaveStock
    BY DEF IInv
<1>2. QED
    BY <1>1, Invariance, PTL

-----------------------------------------------------------------------------
(* Serial clients and the ledger.                                          *)

(* What the orders of a set take of a product, and the set without one.    *)
LEMMA ItemsAdd ==
    ASSUME NEW A \in SUBSET Orders, IsFiniteSet(A), NEW o \in A, NEW p \in Products
    PROVE  /\ Total(Qty, p, A \ {o}) \in Nat
           /\ Total(Qty, p, A) = Qty[o][p] + Total(Qty, p, A \ {o})
<1>1. IsFiniteSet(A \ {o})
    BY FS_RemoveElement
<1>2. \A q \in A : Qty[q][p] \in Nat
    BY OrderItems
<1>3. Total(Qty, p, A) = Qty[o][p] + Total(Qty, p, A \ {o})
    BY <1>2, TotalSplits, OrderItems
<1>4. QED
    BY <1>1, <1>2, <1>3, TotalIsNat

LEMMA ReservedIsTotal ==
    ASSUME NEW p
    PROVE  /\ Reserved(p) = Total(Qty, p, {o \in Orders : Live(o)})
           /\ Reserved(p)' = Total(Qty, p, {o \in Orders : Live(o)'})
BY DEF Reserved, Total, MapThenSumSet, MapThenFoldSet

(* Finitely many reservations have been made.                              *)
FinitelyMany == IsFiniteSet({o \in Orders : resv[o] # "NONE"})

(* Calls that the order service keeps apart do not overlap.                *)
Apart ==
    \A c, d \in Calls : c # d /\ Conflict(c, d) => at[c] \notin Running \/ at[d] \notin Running

Stages ==
    /\ \A c \in Calls : at[c] \in {"known", "checked"} => c.op = "create"
    /\ \A c \in Calls : at[c] = "found" => c.op \in {"confirm", "restore"}

NotYetCreated ==
    \A c \in Calls : c.op = "create" /\ at[c] # "ok" => resv[c.order] = "NONE"

(* What a call found is still so when it writes.                           *)
FoundIsStill ==
    \A c \in Calls :
        at[c] = "found" => resv[c.order] = IF c.op = "confirm" THEN "PENDING" ELSE "CONFIRMED"

ConfirmedInTime ==
    \A c \in Calls : c.op = "confirm" /\ at[c] \in Running => c.order \notin expired

(* What a reservation found to be available is so until its rows are there. *)
CheckedFits ==
    \A c \in Calls : at[c] = "checked" =>
        \A p \in Items(c.order) : Reserved(p) + Qty[c.order][p] <= stock[p]

SInv ==
    /\ IInv
    /\ FinitelyMany
    /\ Apart
    /\ Stages
    /\ NotYetCreated
    /\ FoundIsStill
    /\ ConfirmedInTime
    /\ CheckedFits

LEMMA SerialIsNext == [SerialNext]_vars => [Next]_vars
BY DEF SerialNext, Next, BeginSerial, ExpireUnpaid, UpsertBetween, Admin

LEMMA LiveIsFinite == ASSUME FinitelyMany PROVE IsFiniteSet({o \in Orders : Live(o)})
<1>1. {o \in Orders : Live(o)} \subseteq {o \in Orders : resv[o] # "NONE"}
    BY DEF Live
<1>2. QED
    BY <1>1, FS_Subset DEF FinitelyMany

LEMMA ReservedTyped == ASSUME FinitelyMany, NEW p \in Products PROVE Reserved(p) \in Nat
<1> DEFINE L == {o \in Orders : Live(o)}
<1>1. IsFiniteSet(L)
    BY LiveIsFinite
<1>2. Total(Qty, p, L) \in Nat
    BY <1>1, TotalIsNat, OrderItems
<1>3. QED
    BY <1>2, ReservedIsTotal

LEMMA InitSerial == Init => SInv
<1> SUFFICES ASSUME Init PROVE SInv
    OBVIOUS
<1>1. {o \in Orders : resv[o] # "NONE"} = {}
    BY DEF Init
<1>2. FinitelyMany
    BY <1>1, FS_EmptySet DEF FinitelyMany
<1>3. /\ \A c \in Calls : at[c] = "idle"
      /\ \A c \in Calls : resv[c.order] = "NONE"
    BY CallsAssumption DEF Init
<1>4. QED
    BY <1>2, <1>3, InitInv DEF SInv, Apart, Stages, NotYetCreated, FoundIsStill, ConfirmedInTime,
       CheckedFits, Running

(* Every step but a reservation's insert makes no rows.                    *)
LEMMA StillFinitelyMany ==
    ASSUME FinitelyMany, NEW o, \A q \in Orders : resv'[q] # "NONE" => resv[q] # "NONE" \/ q = o
    PROVE  FinitelyMany'
<1> DEFINE R == {q \in Orders : resv[q] # "NONE"}
           T == {q \in Orders : resv'[q] # "NONE"}
<1>1. IsFiniteSet(R \cup {o})
    BY FS_AddElement DEF FinitelyMany
<1>2. T \in SUBSET (R \cup {o})
    OBVIOUS
<1>3. IsFiniteSet(T)
    BY <1>1, <1>2, FS_Subset
<1>4. QED
    BY <1>3 DEF FinitelyMany

LEMMA SameReserved ==
    ASSUME \A o \in Orders : Live(o)' <=> Live(o), NEW p
    PROVE  Reserved(p)' = Reserved(p)
<1>1. {o \in Orders : Live(o)'} = {o \in Orders : Live(o)}
    OBVIOUS
<1>2. QED
    BY <1>1, ReservedIsTotal

(* What is reserved when the reservation of one order ends.                *)
LEMMA ReservedWithout ==
    ASSUME FinitelyMany, NEW o \in Orders, Live(o), NEW p \in Products,
           \A q \in Orders : Live(q)' <=> Live(q) /\ q # o
    PROVE  Reserved(p)' \in Nat /\ Reserved(p) = Qty[o][p] + Reserved(p)'
<1> DEFINE L == {q \in Orders : Live(q)}
<1>1. o \in L /\ {q \in Orders : Live(q)'} = L \ {o}
    OBVIOUS
<1>2. IsFiniteSet(L) /\ IsFiniteSet(L \ {o})
    BY LiveIsFinite, FS_RemoveElement
<1>3. Reserved(p) = Total(Qty, p, L) /\ Reserved(p)' = Total(Qty, p, L \ {o})
    BY <1>1, ReservedIsTotal
<1>4. Total(Qty, p, L \ {o}) \in Nat /\ Total(Qty, p, L) = Qty[o][p] + Total(Qty, p, L \ {o})
    BY <1>1, <1>2, ItemsAdd
<1>5. QED
    BY <1>3, <1>4

LEMMA SerialStep ==
    ASSUME SInv, SerialNext
    PROVE  SInv'
<1> USE OrderItems, CallsAssumption, QuantitiesAssumption
<1>1. IInv'
    BY SerialIsNext, StepInv DEF SInv
<1> USE DEF SInv, Apart, Stages, NotYetCreated, FoundIsStill, ConfirmedInTime, Goto
<1>2. TypeOK
    BY DEF IInv
<1>3. ASSUME NEW c \in Calls, BeginSerial(c)
      PROVE  SInv'
    <2>1. FinitelyMany' /\ CheckedFits'
        BY <1>2, <1>3, StillFinitelyMany, SameReserved
           DEF BeginSerial, Begin, TypeOK, CheckedFits, Items, Live
    <2>2. Apart'
        BY <1>2, <1>3 DEF BeginSerial, Begin, TypeOK, Conflict
    <2>3. QED
        BY <1>1, <1>2, <1>3, <2>1, <2>2 DEF BeginSerial, Begin, TypeOK, Running
<1>4. ASSUME NEW c \in Calls,
             CreateCheckProducts(c) \/ CreateCheckStock(c) \/ ConfirmFind(c) \/ RestoreFind(c)
             \/ Abort(c)
      PROVE  SInv'
    <2>1. UNCHANGED <<stock, resv, expired>> /\ at[c] \in Running
          /\ \A d \in Calls : d # c => at'[d] = at[d]
        BY <1>2, <1>4 DEF CreateCheckProducts, CreateCheckStock, ConfirmFind, RestoreFind, Abort,
           TypeOK, Running
    <2>2. FinitelyMany'
        BY <2>1, StillFinitelyMany
    <2>3. Apart'
        BY <2>1
    <2>4. Stages' /\ NotYetCreated' /\ FoundIsStill' /\ ConfirmedInTime'
        BY <1>2, <1>4, <2>1 DEF CreateCheckProducts, CreateCheckStock, ConfirmFind, RestoreFind,
           Abort, TypeOK, Running
    <2>5. CheckedFits'
        <3> SUFFICES ASSUME NEW d \in Calls, at'[d] = "checked", NEW p \in Items(d.order)
                     PROVE  Reserved(p) + Qty[d.order][p] <= stock[p]
            BY <2>1, SameReserved DEF CheckedFits, Items, Live
        <3>1. CASE d # c
            BY <2>1, <3>1 DEF CheckedFits
        <3>2. CASE d = c
            <4>1. Available(d.order)
                BY <1>2, <1>4, <3>2 DEF CreateCheckProducts, CreateCheckStock, ConfirmFind,
                   RestoreFind, Abort, TypeOK
            <4>2. Reserved(p) \in Nat /\ stock[p] \in Int /\ Qty[d.order][p] \in Nat
                BY <1>2, ReservedTyped DEF TypeOK, Items
            <4>3. QED
                BY <4>1, <4>2 DEF Available
        <3>3. QED
            BY <3>1, <3>2
    <2>6. QED
        BY <1>1, <2>2, <2>3, <2>4, <2>5
<1>5. ASSUME NEW c \in Calls, CreateInsert(c)
      PROVE  SInv'
    <2>1. /\ at[c] \in Running /\ at'[c] \in {"ok", "err"} /\ c.op = "create"
          /\ \A d \in Calls : d # c => at'[d] = at[d]
          /\ UNCHANGED <<stock, expired>>
          /\ \A o \in Orders : o # c.order => resv'[o] = resv[o]
        BY <1>2, <1>5 DEF CreateInsert, SetResv, TypeOK, Running
    <2>2. FinitelyMany'
        BY <2>1, StillFinitelyMany
    <2>3. resv[c.order] = "NONE" /\ (at'[c] = "err" => resv' = resv)
        BY <1>2, <1>5 DEF CreateInsert, TypeOK
    <2>4. Apart' /\ Stages' /\ ConfirmedInTime' /\ NotYetCreated'
        BY <2>1, <2>3 DEF Running
    <2>5. FoundIsStill'
        BY <2>1, <2>3
    <2>6. CheckedFits'
        <3>1. \A d \in Calls : at'[d] # "checked"
            BY <2>1 DEF Conflict, Running
        <3>2. QED
            BY <3>1 DEF CheckedFits
    <2>7. QED
        BY <1>1, <2>2, <2>4, <2>5, <2>6
<1>6. ASSUME NEW c \in Calls, ConfirmWrite(c) \/ RestoreWrite(c)
      PROVE  SInv'
    <2>1. /\ at[c] \in Running /\ at'[c] = "ok" /\ c.op \in {"confirm", "restore"}
          /\ \A d \in Calls : d # c => at'[d] = at[d]
          /\ UNCHANGED <<expired, stocked>>
          /\ \A o \in Orders : o # c.order => resv'[o] = resv[o]
          /\ resv[c.order] # "NONE"
        BY <1>2, <1>6 DEF ConfirmWrite, RestoreWrite, SetResv, TypeOK, Running
    <2>2. FinitelyMany'
        BY <2>1, StillFinitelyMany
    <2>3. Apart' /\ Stages' /\ ConfirmedInTime' /\ NotYetCreated'
        BY <2>1 DEF Running
    <2>4. FoundIsStill'
        BY <2>1 DEF Conflict, Running
    <2>5. CheckedFits'
        <3> SUFFICES ASSUME NEW d \in Calls, at'[d] = "checked", NEW p \in Items(d.order)
                     PROVE  Reserved(p)' + Qty[d.order][p] <= stock'[p]
            BY DEF CheckedFits, Items
        <3>1. Reserved(p) + Qty[d.order][p] <= stock[p]
            BY <2>1 DEF CheckedFits
        <3>2. /\ Qty[d.order][p] \in Nat /\ Qty[c.order][p] \in Nat /\ stock[p] \in Int
              /\ p \in Products
            BY <1>2 DEF TypeOK, Items
        <3>3. Reserved(p) \in Nat
            BY <3>2, ReservedTyped
        <3>4. p \in stocked
            BY <2>1 DEF IInv, CheckedIsStocked
        <3>5. CASE ConfirmWrite(c)
            <4>1. Live(c.order)
                BY <3>5 DEF ConfirmWrite, Running, Live
            <4>2. \A q \in Orders : Live(q)' <=> Live(q) /\ q # c.order
                BY <1>2, <3>5 DEF ConfirmWrite, SetResv, TypeOK, Live
            <4>3. Reserved(p)' \in Nat /\ Reserved(p) = Qty[c.order][p] + Reserved(p)'
                BY <3>2, <4>1, <4>2, ReservedWithout
            <4>4. stock'[p] = stock[p] - Qty[c.order][p]
                BY <3>2, <3>4, <3>5 DEF ConfirmWrite, Deduct
            <4>5. QED
                BY <3>1, <3>2, <3>3, <4>3, <4>4
        <3>6. CASE RestoreWrite(c)
            <4>1. \A o \in Orders : Live(o)' <=> Live(o)
                BY <1>2, <3>6 DEF RestoreWrite, SetResv, TypeOK, Live
            <4>2. Reserved(p)' = Reserved(p)
                BY <4>1, SameReserved
            <4>3. stock'[p] = stock[p] + Qty[c.order][p]
                BY <3>2, <3>4, <3>6 DEF RestoreWrite, PutBack
            <4>4. QED
                BY <3>1, <3>2, <3>3, <4>2, <4>3
        <3>7. QED
            BY <1>6, <3>5, <3>6
    <2>6. QED
        BY <1>1, <2>2, <2>3, <2>4, <2>5
<1>7. ASSUME NEW o \in Orders, ExpireUnpaid(o)
      PROVE  SInv'
    <2>1. UNCHANGED <<stock, resv, at>> /\ expired' = expired \cup {o}
        BY <1>7 DEF ExpireUnpaid, Expire
    <2>2. FinitelyMany'
        BY <2>1, StillFinitelyMany
    <2>3. Apart' /\ Stages' /\ NotYetCreated' /\ FoundIsStill' /\ ConfirmedInTime'
        BY <1>7, <2>1 DEF ExpireUnpaid
    <2>4. CheckedFits'
        <3> SUFFICES ASSUME NEW d \in Calls, at[d] = "checked", NEW p \in Items(d.order)
                     PROVE  Reserved(p)' + Qty[d.order][p] <= stock[p]
            BY <2>1 DEF CheckedFits, Items
        <3>1. p \in Products /\ stock[p] \in Int /\ Qty[d.order][p] \in Nat
            BY <1>2 DEF TypeOK, Items
        <3>2. Live(o) /\ \A q \in Orders : Live(q)' <=> Live(q) /\ q # o
            BY <1>7, <2>1 DEF Live, ExpireUnpaid, Expire
        <3>3. Reserved(p)' \in Nat /\ Reserved(p) = Qty[o][p] + Reserved(p)' /\ Qty[o][p] \in Nat
            BY <3>1, <3>2, ReservedWithout
        <3>4. QED
            BY <3>1, <3>3 DEF CheckedFits
    <2>5. QED
        BY <1>1, <2>2, <2>3, <2>4
<1>8. ASSUME NEW p \in Products, DeleteProduct(p)
      PROVE  SInv'
    <2>1. UNCHANGED <<stock, resv, expired, at>>
        BY <1>8 DEF DeleteProduct
    <2>2. FinitelyMany' /\ CheckedFits'
        BY <2>1, StillFinitelyMany, SameReserved DEF CheckedFits, Items, Live
    <2>3. QED
        BY <1>1, <2>1, <2>2
<1>9. ASSUME NEW p \in Products, NEW q \in Quantities, UpsertBetween(p, q)
      PROVE  SInv'
    <2>1. UNCHANGED <<resv, expired, at>> /\ \A c \in Calls : at[c] # "checked"
        BY <1>9 DEF UpsertBetween, UpsertStock, Running
    <2>2. FinitelyMany' /\ CheckedFits'
        BY <2>1, StillFinitelyMany DEF CheckedFits
    <2>3. QED
        BY <1>1, <2>1, <2>2
<1>10. QED
    BY <1>3, <1>4, <1>5, <1>6, <1>7, <1>8, <1>9 DEF SerialNext, CallStep

LEMMA HeldIsReserved == ASSUME NEW p PROVE Ledger!Held(p) = Reserved(p)
<1>1. {o \in Orders : Live(o)} = {o \in Orders : resv[o] = "PENDING" /\ o \notin expired}
    BY DEF Live
<1>2. Ledger!Held(p) = Total(Qty, p, {o \in Orders : resv[o] = "PENDING" /\ o \notin expired})
    BY DEF Ledger!Held, Total, MapThenSumSet, MapThenFoldSet, Ledger!MapThenSumSet, Ledger!MapThenFoldSet
<1>3. QED
    BY <1>1, <1>2, ReservedIsTotal

LEMMA LedgerInit == Init => Ledger!Init
BY OrderItems DEF Init, Ledger!Init

LEMMA LedgerStep == SInv /\ [SerialNext]_vars => [Ledger!Next]_(Ledger!vars)
<1> SUFFICES ASSUME SInv, [SerialNext]_vars PROVE [Ledger!Next]_(Ledger!vars)
    OBVIOUS
<1> USE OrderItems, CallsAssumption, QuantitiesAssumption
<1>1. /\ TypeOK /\ CheckedIsStocked /\ ReservedRowsHaveStock /\ FinitelyMany /\ Stages
      /\ NotYetCreated /\ FoundIsStill /\ CheckedFits
    BY DEF SInv, IInv
<1>2. ASSUME NEW c \in Calls, CreateInsert(c)
      PROVE  Ledger!Reserve(c.order) \/ UNCHANGED Ledger!vars
    <2>1. CASE UNCHANGED resv
        BY <1>2, <2>1 DEF CreateInsert, Ledger!vars
    <2>2. CASE SetResv(c.order, "PENDING")
        <3>1. c.op = "create" /\ at[c] = "checked" /\ UNCHANGED <<stock, expired>>
            BY <1>2 DEF CreateInsert
        <3>2. Ledger!Move(c.order, "NONE", "PENDING")
            BY <1>1, <2>2, <3>1 DEF NotYetCreated, SetResv, Ledger!Move
        <3>3. \A p \in Products : Qty[c.order][p] > 0 =>
                  Ledger!Held(p) + Qty[c.order][p] <= stock[p]
            BY <1>1, <3>1, HeldIsReserved DEF CheckedFits, Items
        <3>4. QED
            BY <3>1, <3>2, <3>3 DEF Ledger!Reserve
    <2>3. QED
        BY <1>2, <2>1, <2>2 DEF CreateInsert
<1>3. \A o \in Orders : resv[o] # "NONE" =>
          /\ Deduct(o) = [p \in Products |-> stock[p] - Qty[o][p]]
          /\ PutBack(o) = [p \in Products |-> stock[p] + Qty[o][p]]
    <2> SUFFICES ASSUME NEW o \in Orders, resv[o] # "NONE"
                 PROVE  /\ Deduct(o) = [p \in Products |-> stock[p] - Qty[o][p]]
                        /\ PutBack(o) = [p \in Products |-> stock[p] + Qty[o][p]]
        OBVIOUS
    <2>1. \A p \in Products : p \notin stocked => Qty[o][p] = 0 /\ stock[p] \in Int
        BY <1>1 DEF ReservedRowsHaveStock, Items, TypeOK
    <2>2. QED
        BY <2>1 DEF Deduct, PutBack
<1>4. ASSUME NEW c \in Calls, ConfirmWrite(c)
      PROVE  Ledger!Confirm(c.order)
    BY <1>1, <1>3, <1>4 DEF ConfirmWrite, SetResv, FoundIsStill, Ledger!Confirm, Ledger!Move
<1>5. ASSUME NEW c \in Calls, RestoreWrite(c)
      PROVE  Ledger!Restore(c.order)
    BY <1>1, <1>3, <1>5 DEF RestoreWrite, SetResv, FoundIsStill, Ledger!Restore, Ledger!Move
<1>6. ASSUME NEW o \in Orders, ExpireUnpaid(o)
      PROVE  Ledger!Lapse(o)
    BY <1>6 DEF ExpireUnpaid, Expire, Live, Ledger!Lapse
<1>7. ASSUME NEW p \in Products, NEW q \in Quantities, UpsertBetween(p, q)
      PROVE  Ledger!Adjust(p)
    BY <1>1, <1>7 DEF UpsertBetween, UpsertStock, TypeOK, Ledger!Adjust
<1>8. ASSUME NEW c \in Calls,
             BeginSerial(c) \/ CreateCheckProducts(c) \/ CreateCheckStock(c) \/ ConfirmFind(c)
             \/ RestoreFind(c) \/ Abort(c)
      PROVE  UNCHANGED Ledger!vars
    BY <1>8 DEF BeginSerial, Begin, CreateCheckProducts, CreateCheckStock, ConfirmFind,
       RestoreFind, Abort, Ledger!vars
<1>9. ASSUME NEW p \in Products, DeleteProduct(p)
      PROVE  UNCHANGED Ledger!vars
    BY <1>9 DEF DeleteProduct, Ledger!vars
<1>10. CASE UNCHANGED vars
    BY <1>10 DEF vars, Ledger!vars
<1>11. QED
    BY <1>2, <1>4, <1>5, <1>6, <1>7, <1>8, <1>9, <1>10 DEF SerialNext, CallStep, Ledger!Next

LEMMA SerialStutter == SInv /\ UNCHANGED vars => SInv'
<1> SUFFICES ASSUME SInv, UNCHANGED vars PROVE SInv'
    OBVIOUS
<1>1. IInv'
    BY StepInv DEF SInv
<1>2. FinitelyMany'
    BY StillFinitelyMany DEF SInv, vars
<1>3. QED
    BY <1>1, <1>2, SameReserved DEF vars, SInv, Apart, Stages, NotYetCreated, FoundIsStill,
       ConfirmedInTime, CheckedFits, Items, Live

(* The calls of serial clients have the effects of atomic operations: an   *)
(* order is reserved only from what nobody holds, and a quantity moves out *)
(* once and back once (createStockReservation, confirmStockReservation,    *)
(* restoreStockReservation), whatever administrators delete, and set       *)
(* between reservations.                                                   *)
THEOREM ImplementsLedger == SerialSpec => LedgerSpec
<1>1. SInv /\ [SerialNext]_vars => SInv'
    BY SerialStep, SerialStutter
<1>2. QED
    BY <1>1, InitSerial, LedgerInit, LedgerStep, PTL DEF SerialSpec, LedgerSpec, Ledger!Spec
=============================================================================
