------------------------------- MODULE Catalog -------------------------------
(***************************************************************************)
(* The catalog of the product service: CategoryService, ProductService and *)
(* the controllers in front of them, over one MySQL database and one pool  *)
(* of connections.                                                         *)
(*                                                                         *)
(* A call is a sequence of queries with an await at each; other calls run  *)
(* in between.  A query outside a transaction takes a connection for as    *)
(* long as it runs; a transaction keeps one until it is released.  What a  *)
(* transaction writes is seen when it commits; from its write on it holds  *)
(* the row of the product it changes, and the category it refers to stays. *)
(* An update that changes no column writes no row of the product, but new  *)
(* images hold the product they refer to.                                  *)
(*                                                                         *)
(* The controllers do not await a deletion: the caller is told it worked,  *)
(* and when it then fails, the rejection is handled by nobody, the process *)
(* exits and takes all the calls it was serving with it.                   *)
(*                                                                         *)
(* Of the tables there are the ids and what refers to what; names, prices  *)
(* and listings carry no protocol.  Ids count up and are not used again.   *)
(***************************************************************************)
EXTENDS Naturals, FiniteSets

CONSTANTS
    Calls,          \* gRPC calls: op, the row id, the row ref referred to
                    \* (0: none), and how many images
    Categories,     \* parent of each category there is at first, 0 for none
    Items,          \* category of each product there is at first
    LastId,         \* the last id given to them
    Pool,           \* connections of the pool
    MaxCalls,       \* bound: how many of the calls are made
    MaxCrashes      \* bound: times that the process dies for other reasons

Ops == {"createCategory", "updateCategory", "deleteCategory",
        "createProduct", "updateProduct", "deleteProduct", "upsertStock", "reserve"}

ASSUME CallsAssumption ==
    \A c \in Calls :
        /\ c.op \in Ops /\ c.id \in Nat /\ c.ref \in Nat /\ c.images \in Nat
        /\ c.op = "createProduct" => c.ref # 0

ASSUME TablesAssumption ==
    /\ LastId \in Nat /\ DOMAIN Categories \cup DOMAIN Items \subseteq 1 .. LastId
    /\ Categories \in [DOMAIN Categories -> DOMAIN Categories \cup {0}]
    /\ Items \in [DOMAIN Items -> DOMAIN Categories]

ASSUME BoundsAssumption == Pool \in Nat \ {0} /\ MaxCalls \in Nat /\ MaxCrashes \in Nat

VARIABLES
    parent,     \* parent of each category there is
    category,   \* category of each product there is
    images,     \* the image rows: the product, and which image of which call
    stocked,    \* the products with a row in product_stock
    lastId,     \* the last id given to a category or product
    made,       \* the id of the row a call inserted
    seen,       \* the categories there were when a call last looked, or the
                \* one of the product it found
    pc,         \* where each call is, or how it ended
    crashes     \* crashes so far

vars == <<parent, category, images, stocked, lastId, made, seen, pc, crashes>>

Ended == {"ok", "failed"}
Inside == {"begun", "seen", "known", "written", "imaged", "kept", "replaced", "failing",
            "updating", "inserting"}

TypeOK ==
    /\ parent \in [DOMAIN parent -> Nat] /\ DOMAIN parent \subseteq 1 .. lastId
    /\ category \in [DOMAIN category -> Nat] /\ DOMAIN category \subseteq 1 .. lastId
    /\ images \subseteq Nat \X Calls \X Nat
    /\ stocked \subseteq 1 .. lastId
    /\ lastId \in Nat
    /\ made \in [Calls -> 0 .. lastId]
    /\ seen \in [Calls -> SUBSET Nat]
    /\ pc \in [Calls -> Ended \cup Inside \cup {"idle", "ready", "found", "saved", "told"}]
    /\ crashes \in 0 .. MaxCrashes

Init ==
    /\ parent = Categories /\ category = Items
    /\ images = {} /\ stocked = {}
    /\ lastId = LastId
    /\ made = [c \in Calls |-> 0]
    /\ seen = [c \in Calls |-> {}]
    /\ pc = [c \in Calls |-> "idle"]
    /\ crashes = 0

-----------------------------------------------------------------------------
Goto(c, l) == pc' = [pc EXCEPT ![c] = l]

Free == Cardinality({c \in Calls : pc[c] \in Inside}) < Pool

Tables == <<parent, category, images, stocked, lastId, made>>

Set(f, i, v) == [j \in DOMAIN f \cup {i} |-> IF j = i THEN v ELSE f[j]]
Drop(f, i) == [j \in DOMAIN f \ {i} |-> f[j]]

Row(c) == IF c.op = "createProduct" THEN made[c] ELSE c.id

Writing(c) == c.op \in {"createProduct", "updateProduct"} /\ pc[c] \in {"written", "imaged"}

(* Rows that a transaction in progress keeps others from changing.         *)
ProductLocked(p) == \E c \in Calls : c.op = "updateProduct" /\ c.id = p /\ Writing(c)
ProductHeld(p) ==
    ProductLocked(p) \/ \E c \in Calls : pc[c] = "replaced" /\ c.images > 0 /\ c.id = p
CategoryHeld(i) == \E c \in Calls : c.ref = i /\ Writing(c)

(* Mutant of CategoryUsed: no foreign key from a category to its parent.   *)
CategoryUsedByProduct(i) == \E p \in DOMAIN category : category[p] = i

(* No row goes while another row refers to it.                             *)
CategoryUsed(i) ==
    (\E j \in DOMAIN parent : parent[j] = i) \/ \E p \in DOMAIN category : category[p] = i
ProductUsed(p) == p \in stocked \/ \E row \in images : row[1] = p

-----------------------------------------------------------------------------
(* createCategory and updateCategory look for the parent when one is named. *)
FindParent(c) ==
    /\ c.op \in {"createCategory", "updateCategory"} /\ pc[c] = "idle" /\ Free
    /\ Goto(c, IF c.ref \in DOMAIN parent \cup {0} THEN "ready" ELSE "failed")
    /\ UNCHANGED <<Tables, seen, crashes>>

InsertCategory(c) ==
    /\ c.op = "createCategory" /\ pc[c] = "ready" /\ Free
    /\ IF c.ref \in DOMAIN parent \cup {0}
       THEN /\ lastId' = lastId + 1
            /\ made' = [made EXCEPT ![c] = lastId + 1]
            /\ parent' = Set(parent, lastId + 1, c.ref)
            /\ Goto(c, "saved")
       ELSE Goto(c, "failed") /\ UNCHANGED <<parent, lastId, made>>
    /\ UNCHANGED <<category, images, stocked, seen, crashes>>

(* Mutant of FindCategory: the row is saved by its id, without a look.     *)
FindNothing(c) ==
    /\ c.op = "updateCategory" /\ pc[c] = "ready" /\ Free
    /\ seen' = [seen EXCEPT ![c] = DOMAIN parent]
    /\ Goto(c, "found")
    /\ UNCHANGED <<Tables, crashes>>

FindCategory(c) ==
    /\ c.op = "updateCategory" /\ pc[c] = "ready" /\ Free
    /\ seen' = [seen EXCEPT ![c] = DOMAIN parent]
    /\ Goto(c, IF c.id \in DOMAIN parent THEN "found" ELSE "failed")
    /\ UNCHANGED <<Tables, crashes>>

(* save looks for the row itself, in a transaction of its own, and inserts *)
(* it with its old id when it has gone since.                              *)
SaveReads(c) ==
    /\ c.op = "updateCategory" /\ pc[c] = "found" /\ Free
    /\ Goto(c, IF c.id \in DOMAIN parent THEN "updating" ELSE "inserting")
    /\ UNCHANGED <<Tables, seen, crashes>>

(* An UPDATE of a row that has gone changes nothing and reports no error.  *)
SaveUpdates(c) ==
    /\ pc[c] = "updating" /\ ~ CategoryHeld(c.id)
    /\ IF c.id \in DOMAIN parent /\ c.ref \notin DOMAIN parent \cup {0}
       THEN Goto(c, "failed") /\ UNCHANGED parent
       ELSE /\ Goto(c, "saved")
            /\ parent' = IF c.id \in DOMAIN parent /\ c.ref # 0
                         THEN [parent EXCEPT ![c.id] = c.ref] ELSE parent
    /\ UNCHANGED <<category, images, stocked, lastId, made, seen, crashes>>

SaveInserts(c) ==
    /\ pc[c] = "inserting"
    /\ IF c.id \notin DOMAIN parent /\ c.ref \in DOMAIN parent \cup {0, c.id}
       THEN Goto(c, "saved") /\ parent' = Set(parent, c.id, c.ref)
       ELSE Goto(c, "failed") /\ UNCHANGED parent
    /\ UNCHANGED <<category, images, stocked, lastId, made, seen, crashes>>

(* Both answer with getCategoryById; its null is an error to the mapper.   *)
ReadCategory(c) ==
    /\ pc[c] = "saved" /\ Free
    /\ Goto(c, IF (IF c.op = "createCategory" THEN made[c] ELSE c.id) \in DOMAIN parent
               THEN "ok" ELSE "failed")
    /\ UNCHANGED <<Tables, seen, crashes>>

-----------------------------------------------------------------------------
(* createProduct, updateProduct and createStockReservation.                *)
Transactional == {"createProduct", "updateProduct", "reserve"}

Begin(c) ==
    /\ c.op \in Transactional /\ pc[c] = "idle" /\ Free
    /\ Goto(c, "begun")
    /\ UNCHANGED <<Tables, seen, crashes>>

FindItsCategory(c) ==
    /\ c.op = "createProduct" /\ pc[c] = "begun"
    /\ Goto(c, IF c.ref \in DOMAIN parent THEN "known" ELSE "failing")
    /\ UNCHANGED <<Tables, seen, crashes>>

InsertProduct(c) ==
    /\ c.op = "createProduct" /\ pc[c] = "known"
    /\ IF c.ref \in DOMAIN parent
       THEN /\ lastId' = lastId + 1
            /\ made' = [made EXCEPT ![c] = lastId + 1]
            /\ Goto(c, "written")
       ELSE Goto(c, "failing") /\ UNCHANGED <<lastId, made>>
    /\ UNCHANGED <<parent, category, images, stocked, seen, crashes>>

FindProduct(c) ==
    /\ c.op = "updateProduct" /\ pc[c] = "begun"
    /\ Goto(c, CASE c.id \notin DOMAIN category -> "failing"
                 [] c.ref = 0 -> "known"
                 [] OTHER -> "seen")
    /\ seen' = [seen EXCEPT ![c] = IF c.ref # 0 /\ c.id \in DOMAIN category
                                   THEN {category[c.id]} ELSE {}]
    /\ UNCHANGED <<Tables, crashes>>

(* These look things up outside their transaction, with a connection more. *)
Asks(c) == (c.op = "updateProduct" /\ pc[c] = "seen") \/ (c.op = "reserve" /\ pc[c] = "begun")

LookUp(c) ==
    /\ Asks(c) /\ Free
    /\ Goto(c, IF (IF c.op = "reserve" THEN c.id \in DOMAIN category ELSE c.ref \in DOMAIN parent)
               THEN "known" ELSE "failing")
    /\ UNCHANGED <<Tables, seen, crashes>>

(* The UPDATE waits for the row and takes it, or finds that it has gone.   *)
SaveProduct(c) ==
    /\ c.op = "updateProduct" /\ pc[c] = "known" /\ ~ ProductHeld(c.id)
    /\ Goto(c, IF c.ref \in DOMAIN parent \cup {0} THEN "written" ELSE "failing")
    /\ UNCHANGED <<Tables, seen, crashes>>

(* save issues no UPDATE when no column differs from what it finds.        *)
SaveNothing(c) ==
    /\ c.op = "updateProduct" /\ pc[c] = "known"
    /\ c.ref = 0 \/ seen[c] = {c.ref}
    /\ Goto(c, "kept")
    /\ UNCHANGED <<Tables, seen, crashes>>

(* upsertProductImage: an image needs its product.                         *)
WriteImages(c) ==
    /\ Writing(c) /\ pc[c] = "written"
    /\ Goto(c, IF c.op = "updateProduct" /\ c.images > 0 /\ c.id \notin DOMAIN category
               THEN "failing" ELSE "imaged")
    /\ UNCHANGED <<Tables, seen, crashes>>

(* Without the row lock of an UPDATE, the new images take a shared one.    *)
ReplaceImages(c) ==
    /\ pc[c] = "kept" /\ (c.images > 0 => ~ ProductHeld(c.id))
    /\ Goto(c, IF c.images > 0 /\ c.id \notin DOMAIN category THEN "failing" ELSE "replaced")
    /\ UNCHANGED <<Tables, seen, crashes>>

(* The DELETE of one call and the INSERT of the other wait for each other, *)
(* and MySQL fails one of the two.                                         *)
Replaces(c) == c.op = "updateProduct" /\ pc[c] \in {"kept", "written"} /\ c.images > 0

Deadlock(c) ==
    /\ Replaces(c) /\ \E d \in Calls \ {c} : Replaces(d) /\ d.id = c.id
    /\ Goto(c, "failing")
    /\ UNCHANGED <<Tables, seen, crashes>>

ImagesOf(c) == {<<Row(c), c, n>> : n \in 1 .. c.images}

(* Mutant of NewImages: the old images are not deleted.                    *)
MoreImages(c) == images \cup ImagesOf(c)

(* The images of a call replace those there were, if it brings any.        *)
NewImages(c) ==
    IF c.images = 0 THEN images
    ELSE {row \in images : row[1] # Row(c)} \cup ImagesOf(c)

CommitNew(c) ==
    /\ c.op = "createProduct" /\ pc[c] = "imaged"
    /\ category' = Set(category, made[c], c.ref)
    /\ images' = NewImages(c)
    /\ Goto(c, "ok")
    /\ UNCHANGED <<parent, stocked, lastId, made, seen, crashes>>

(* The product may have been deleted after it was found.                   *)
CommitChanged(c) ==
    /\ c.op = "updateProduct" /\ pc[c] = "imaged"
    /\ category' = IF c.ref # 0 /\ c.id \in DOMAIN category
                   THEN [category EXCEPT ![c.id] = c.ref] ELSE category
    /\ images' = NewImages(c)
    /\ Goto(c, "ok")
    /\ UNCHANGED <<parent, stocked, lastId, made, seen, crashes>>

CommitKept(c) ==
    /\ c.op = "updateProduct" /\ pc[c] = "replaced"
    /\ images' = NewImages(c)
    /\ Goto(c, "ok")
    /\ UNCHANGED <<parent, category, stocked, lastId, made, seen, crashes>>

CommitProduct(c) == CommitNew(c) \/ CommitChanged(c) \/ CommitKept(c)

(* What a reservation writes is in Stock; here it gives back connections.  *)
CommitReservation(c) ==
    /\ c.op = "reserve" /\ pc[c] = "known"
    /\ Goto(c, "ok")
    /\ UNCHANGED <<Tables, seen, crashes>>

(* Mutant of Rollback: the connection is not released.                     *)
RollbackOnly(c) ==
    /\ pc[c] = "failing"
    /\ UNCHANGED vars

Rollback(c) ==
    /\ pc[c] = "failing"
    /\ Goto(c, "failed")
    /\ UNCHANGED <<Tables, seen, crashes>>

(* upsertStock gives a product its row in product_stock.                   *)
FindToStock(c) ==
    /\ c.op = "upsertStock" /\ pc[c] = "idle" /\ Free
    /\ Goto(c, IF c.id \in DOMAIN category THEN "ready" ELSE "failed")
    /\ UNCHANGED <<Tables, seen, crashes>>

StockProduct(c) ==
    /\ c.op = "upsertStock" /\ pc[c] = "ready" /\ Free /\ ~ ProductLocked(c.id)
    /\ IF c.id \in DOMAIN category
       THEN stocked' = stocked \cup {c.id} /\ Goto(c, "ok")
       ELSE Goto(c, "failed") /\ UNCHANGED stocked
    /\ UNCHANGED <<parent, category, images, lastId, made, seen, crashes>>

-----------------------------------------------------------------------------
(* The process exits: its transactions are rolled back, its calls fail.    *)
Exit == pc' = [c \in Calls |-> IF pc[c] \in Ended \cup {"idle"} THEN pc[c] ELSE "failed"]

(* The controller answers before the deletion has begun.                   *)
Promise(c) ==
    /\ c.op \in {"deleteCategory", "deleteProduct"} /\ pc[c] = "idle"
    /\ Goto(c, IF c.op = "deleteCategory" THEN "told" ELSE "ready")
    /\ UNCHANGED <<Tables, seen, crashes>>

(* The NotFound that deleteCategory throws is a rejection without handler. *)
FindToDelete(c) ==
    /\ c.op = "deleteCategory" /\ pc[c] = "told" /\ Free
    /\ IF c.id \in DOMAIN parent THEN Goto(c, "ready") ELSE Exit
    /\ UNCHANGED <<Tables, seen, crashes>>

(* So is the refusal of a foreign key; a row that has gone is none.        *)
DeleteCategory(c) ==
    /\ c.op = "deleteCategory" /\ pc[c] = "ready" /\ Free /\ ~ CategoryHeld(c.id)
    /\ IF CategoryUsed(c.id) /\ c.id \in DOMAIN parent
       THEN Exit /\ UNCHANGED parent
       ELSE Goto(c, "ok") /\ parent' = Drop(parent, c.id)
    /\ UNCHANGED <<category, images, stocked, lastId, made, seen, crashes>>

DeleteProduct(c) ==
    /\ c.op = "deleteProduct" /\ pc[c] = "ready" /\ Free /\ ~ ProductHeld(c.id)
    /\ IF ProductUsed(c.id) THEN Exit /\ UNCHANGED category
       ELSE Goto(c, "ok") /\ category' = Drop(category, c.id)
    /\ UNCHANGED <<parent, images, stocked, lastId, made, seen, crashes>>

Crash ==
    /\ crashes < MaxCrashes /\ crashes' = crashes + 1
    /\ Exit
    /\ UNCHANGED <<Tables, seen>>

-----------------------------------------------------------------------------
Step(c) ==
    \/ FindParent(c) \/ InsertCategory(c) \/ FindCategory(c) \/ SaveReads(c)
    \/ SaveUpdates(c) \/ SaveInserts(c) \/ ReadCategory(c)
    \/ Begin(c) \/ FindItsCategory(c) \/ InsertProduct(c) \/ FindProduct(c) \/ LookUp(c)
    \/ SaveProduct(c) \/ WriteImages(c) \/ SaveNothing(c) \/ ReplaceImages(c) \/ Deadlock(c)
    \/ CommitProduct(c) \/ CommitReservation(c) \/ Rollback(c)
    \/ FindToStock(c) \/ StockProduct(c)
    \/ Promise(c) \/ FindToDelete(c) \/ DeleteCategory(c) \/ DeleteProduct(c)

Admitted(c) == pc[c] # "idle" \/ Cardinality({d \in Calls : pc[d] # "idle"}) < MaxCalls

Next == Crash \/ \E c \in Calls : Admitted(c) /\ Step(c)

Spec == Init /\ [][Next]_vars

(* Queries are answered, and a free connection goes to a call that waits.  *)
FairSpec == Spec /\ \A c \in Calls : WF_vars(Admitted(c) /\ Step(c))

-----------------------------------------------------------------------------
(* Whatever is deleted, moved and brought back meanwhile, no row refers to *)
(* one that is not there.                                                  *)
RefsIntact ==
    /\ \A i \in DOMAIN parent : parent[i] \in DOMAIN parent \cup {0}
    /\ \A p \in DOMAIN category : category[p] \in DOMAIN parent
    /\ \A row \in images : row[1] \in DOMAIN category
    /\ stocked \subseteq DOMAIN category

(* The images of a product are those of one call, all of them, however     *)
(* calls overlap and wherever the process exits (242-255).                 *)
ImagesOfOneCall ==
    \A r, s \in images :
        r[1] = s[1] => r[2] = s[2] /\ \A n \in 1 .. r[2].images : <<r[1], r[2], n>> \in images

(* A category that was deleted comes back only by an update that found it  *)
(* before it was deleted (94-101).                                         *)
BackOnlyByOverlap ==
    [][\A i \in DOMAIN parent' \ DOMAIN parent :
          i <= lastId => \E c \in Calls : c.op = "updateCategory" /\ c.id = i /\ i \in seen[c]]_vars

(* All connections are held by calls each of which waits for one more.     *)
PoolStuck == ~ Free /\ \A c \in Calls : pc[c] \in Inside => Asks(c)

(* Every call comes to its end, unless the pool is stuck: transactions end *)
(* and give their connection back (66-70, 185-189), and only a second      *)
(* connection is waited for by who holds one (stock 91, product 166).      *)
EveryCallEnds == <>[](\A c \in Calls : pc[c] \in Ended \cup {"idle"}) \/ <>[]PoolStuck
=============================================================================
