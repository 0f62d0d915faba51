------------------------------- MODULE Stock -------------------------------
(***************************************************************************)
(* The stock module of the product service (StockService of apps/product): *)
(* the quantity of every product, the reservation rows of every order, and *)
(* the three gRPC calls that move stock between them.                      *)
(*                                                                         *)
(* Each call is one MySQL transaction at the default isolation level,      *)
(* REPEATABLE READ.  Its finds see the committed state at its first read   *)
(* and take no lock; its UPDATEs and INSERTs act on the current rows and   *)
(* keep them locked until the commit.  The first UPDATE of a confirm or a  *)
(* restore, WHERE orderId = ?, scans the unindexed reservation table and   *)
(* so excludes every other writer of it until the commit.  A transaction   *)
(* is therefore two or more steps: what it reads, and, in one step at its  *)
(* commit, what it writes.  Other transactions may run in between.         *)
(*                                                                         *)
(* All the rows of an order are inserted together and updated together,    *)
(* so one status per order stands for them; Qty[o][p] is the reservedQty   *)
(* of the row of order o for product p, 0 when there is none.              *)
(***************************************************************************)
EXTENDS Integers, FiniteSets, FiniteSetsExt

CONSTANTS
    Products,       \* product ids
    Orders,         \* order ids, generated by the order service
    Qty,            \* the items of every order
    InitialStock,   \* quantity of the products that have a stock row at first
    Calls,          \* the gRPC calls that clients may make
    Quantities      \* bound: the quantities an administrator may set

(* The gateway refuses an order without items (ArrayNotEmpty, order.dto.ts) *)
(* but lets any number pass as a quantity (IsNumber, order.item.dto.ts);    *)
(* that it is whole and positive is assumed here.                           *)
ASSUME OrderItems ==
    /\ Qty \in [Orders -> [Products -> Nat]]
    /\ \A o \in Orders : \E p \in Products : Qty[o][p] > 0
    /\ DOMAIN InitialStock \subseteq Products
    /\ \A p \in DOMAIN InitialStock : InitialStock[p] \in Nat

ASSUME QuantitiesAssumption == Quantities \subseteq Nat

(* processInitiateOrder makes one reservation call for the id it generated. *)
ASSUME CallsAssumption ==
    /\ \A c \in Calls : c.op \in {"create", "confirm", "restore"} /\ c.order \in Orders
    /\ \A c, d \in Calls :
          c.op = "create" /\ d.op = "create" /\ c.order = d.order => c = d

VARIABLES
    catalog,    \* the products that exist
    stocked,    \* the products that have a row in product_stock
    stock,      \* quantity of that row
    resv,       \* status of the reservation rows of an order, NONE without rows
    expired,    \* the orders whose reservation rows have expiresAt <= now
    at          \* how far each call has come

vars == <<catalog, stocked, stock, resv, expired, at>>

Statuses == {"NONE", "PENDING", "CONFIRMED", "RELEASED"}
Running == {"begun", "known", "checked", "found"}

TypeOK ==
    /\ catalog \subseteq Products
    /\ stocked \subseteq Products
    /\ stock \in [Products -> Int]
    /\ resv \in [Orders -> Statuses]
    /\ expired \subseteq Orders
    /\ at \in [Calls -> Running \cup {"idle", "ok", "err"}]

Init ==
    /\ catalog \in {C \in SUBSET Products : DOMAIN InitialStock \subseteq C}
    /\ stocked = DOMAIN InitialStock
    /\ stock = [p \in Products |-> IF p \in stocked THEN InitialStock[p] ELSE 0]
    /\ resv = [o \in Orders |-> "NONE"]
    /\ expired = {}
    /\ at = [c \in Calls |-> "idle"]

-----------------------------------------------------------------------------
Items(o) == {p \in Products : Qty[o][p] > 0}

Live(o) == resv[o] = "PENDING" /\ o \notin expired

(* What the reservation query sums for product p: pending and not expired. *)
Reserved(p) == MapThenSumSet(LAMBDA o : Qty[o][p], {o \in Orders : Live(o)})

(* Mutant of Available: what is reserved already is not subtracted.        *)
AvailableUnreserved(o) ==
    \A p \in Items(o) : p \in stocked /\ stock[p] # 0 /\ stock[p] >= Qty[o][p]

(* A product without a stock row or with quantity 0 is refused as such.    *)
Available(o) ==
    \A p \in Items(o) :
        /\ p \in stocked /\ stock[p] # 0
        /\ stock[p] - Reserved(p) >= Qty[o][p]

Deduct(o) == [p \in Products |-> IF p \in stocked THEN stock[p] - Qty[o][p] ELSE stock[p]]
PutBack(o) == [p \in Products |-> IF p \in stocked THEN stock[p] + Qty[o][p] ELSE stock[p]]

Goto(c, a) == at' = [at EXCEPT ![c] = a]

SetResv(o, s) == resv' = [resv EXCEPT ![o] = s]

-----------------------------------------------------------------------------
Begin(c) ==
    /\ at[c] = "idle"
    /\ Goto(c, "begun")
    /\ UNCHANGED <<catalog, stocked, stock, resv, expired>>

(* getProductsByIds, on a connection of its own: every product exists.     *)
CreateCheckProducts(c) ==
    /\ c.op = "create" /\ at[c] = "begun"
    /\ Goto(c, IF Items(c.order) \subseteq catalog THEN "known" ELSE "err")
    /\ UNCHANGED <<catalog, stocked, stock, resv, expired>>

(* The two queries read one snapshot; the loop over the items follows.     *)
CreateCheckStock(c) ==
    /\ c.op = "create" /\ at[c] = "known"
    /\ Goto(c, IF Available(c.order) THEN "checked" ELSE "err")
    /\ UNCHANGED <<catalog, stocked, stock, resv, expired>>

(* Rows with expiresAt in five minutes.  The foreign key needs the product. *)
CreateInsert(c) ==
    /\ c.op = "create" /\ at[c] = "checked"
    /\ \/ /\ Items(c.order) \subseteq catalog
          /\ SetResv(c.order, "PENDING")
          /\ Goto(c, "ok")
       \/ /\ ~ (Items(c.order) \subseteq catalog)
          /\ UNCHANGED resv
          /\ Goto(c, "err")
    /\ UNCHANGED <<catalog, stocked, stock, expired>>

(* Mutant of ConfirmFind: the find names the order only, not the status.   *)
ConfirmFindAnyStatus(c) ==
    /\ c.op = "confirm" /\ at[c] = "begun"
    /\ Goto(c, IF resv[c.order] # "NONE" THEN "found" ELSE "err")
    /\ UNCHANGED <<catalog, stocked, stock, resv, expired>>

(* Neither this find nor anything after it looks at expiresAt.             *)
ConfirmFind(c) ==
    /\ c.op = "confirm" /\ at[c] = "begun"
    /\ Goto(c, IF resv[c.order] = "PENDING" THEN "found" ELSE "err")
    /\ UNCHANGED <<catalog, stocked, stock, resv, expired>>

(* UPDATE ... WHERE orderId = ?, whatever the status has become; then the  *)
(* quantities of the rows found earlier.                                   *)
ConfirmWrite(c) ==
    /\ c.op = "confirm" /\ at[c] = "found"
    /\ SetResv(c.order, "CONFIRMED")
    /\ stock' = Deduct(c.order)
    /\ Goto(c, "ok")
    /\ UNCHANGED <<catalog, stocked, expired>>

RestoreFind(c) ==
    /\ c.op = "restore" /\ at[c] = "begun"
    /\ Goto(c, IF resv[c.order] = "CONFIRMED" THEN "found" ELSE "err")
    /\ UNCHANGED <<catalog, stocked, stock, resv, expired>>

RestoreWrite(c) ==
    /\ c.op = "restore" /\ at[c] = "found"
    /\ SetResv(c.order, "RELEASED")
    /\ stock' = PutBack(c.order)
    /\ Goto(c, "ok")
    /\ UNCHANGED <<catalog, stocked, expired>>

(* A query of the transaction fails: rollbackTransaction and an error reply. *)
Abort(c) ==
    /\ at[c] \in Running
    /\ Goto(c, "err")
    /\ UNCHANGED <<catalog, stocked, stock, resv, expired>>

CallStep(c) ==
    \/ CreateCheckProducts(c) \/ CreateCheckStock(c) \/ CreateInsert(c)
    \/ ConfirmFind(c) \/ ConfirmWrite(c)
    \/ RestoreFind(c) \/ RestoreWrite(c)

-----------------------------------------------------------------------------
(* Five minutes after the insert the reservation query skips the rows.     *)
Expire(o) ==
    /\ Live(o)
    /\ expired' = expired \cup {o}
    /\ UNCHANGED <<catalog, stocked, stock, resv, at>>

(* The quantity is set, not added; it answers an error without a product.  *)
UpsertStock(p, q) ==
    /\ p \in catalog
    /\ stocked' = stocked \cup {p}
    /\ stock' = [stock EXCEPT ![p] = q]
    /\ UNCHANGED <<catalog, resv, expired, at>>

(* Mutant of DeleteProduct: the stock row goes with its product.           *)
DeleteWithStock(p) ==
    /\ p \in catalog
    /\ catalog' = catalog \ {p}
    /\ stocked' = stocked \ {p}
    /\ UNCHANGED <<stock, resv, expired, at>>

(* The foreign key of product_stock has no ON DELETE: a product that has a *)
(* stock row cannot be deleted.  That of the reservations has CASCADE, but *)
(* a product without a stock row has none (ReservedRowsHaveStock).         *)
DeleteProduct(p) ==
    /\ p \in catalog \ stocked
    /\ catalog' = catalog \ {p}
    /\ UNCHANGED <<stocked, stock, resv, expired, at>>

Admin == \E p \in Products : DeleteProduct(p) \/ \E q \in Quantities : UpsertStock(p, q)

(* Any clients: any calls at any time, whatever else is in progress.       *)
Next ==
    \/ \E c \in Calls : Begin(c) \/ CallStep(c) \/ Abort(c)
    \/ \E o \in Orders : Expire(o)
    \/ Admin

Spec == Init /\ [][Next]_vars

-----------------------------------------------------------------------------
(* The clients that the order service is when nothing fails and customers  *)
(* pay in time: one reader of the order queue makes the reservations one   *)
(* at a time, the row lock of an order keeps its confirms and restores     *)
(* apart, no complete comes too late and restores in its catch block, and  *)
(* an expired reservation is never confirmed.  Administrators delete       *)
(* products at any time and set a quantity between reservations.           *)
Conflict(c, d) ==
    \/ c.op = "create" /\ d.op = "create"
    \/ c.op # "create" /\ d.op # "create" /\ c.order = d.order

BeginSerial(c) ==
    /\ \A d \in Calls \ {c} : Conflict(c, d) => at[d] \notin Running
    /\ c.op = "confirm" => c.order \notin expired
    /\ Begin(c)

ExpireUnpaid(o) ==
    /\ \A c \in Calls : c.op = "confirm" /\ c.order = o => at[c] \notin Running
    /\ Expire(o)

UpsertBetween(p, q) ==
    /\ \A c \in Calls : c.op = "create" => at[c] \notin Running
    /\ UpsertStock(p, q)

SerialNext ==
    \/ \E c \in Calls : BeginSerial(c) \/ CallStep(c) \/ Abort(c)
    \/ \E o \in Orders : ExpireUnpaid(o)
    \/ \E p \in Products : DeleteProduct(p) \/ \E q \in Quantities : UpsertBetween(p, q)

SerialSpec == Init /\ [][SerialNext]_vars

-----------------------------------------------------------------------------
(* A reservation row always has the stock row that a confirm deducts from  *)
(* and a restore adds to, so neither UPDATE can match nothing and lose the *)
(* quantity, however deletions race with the reservation that checked the  *)
(* product (createStockReservation, deleteProduct).                        *)
ReservedRowsHaveStock ==
    \A o \in Orders : resv[o] # "NONE" => Items(o) \subseteq stocked \cap catalog

-----------------------------------------------------------------------------
(* The calls of these clients have the effects of the atomic operations of *)
(* the ledger, one for one: nothing is reserved that another order holds,  *)
(* and a quantity moves out once and back once, although every call reads  *)
(* first and writes later (createStockReservation, confirmStockReservation *)
(* and restoreStockReservation).                                           *)
Ledger == INSTANCE StockLedger
LedgerSpec == Ledger!Spec
=============================================================================
