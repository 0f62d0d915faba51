--------------------------- MODULE Catalog_proofs ---------------------------
(***************************************************************************)
(* For any calls, tables, pool and number of crashes: the catalog is well  *)
(* typed, its references hold, the images of a product are those of one    *)
(* call, and a deleted category comes back only by an update that had      *)
(* found it.                                                               *)
(*                                                                         *)
(* What carries the proofs is what a call may rely on at each query: a     *)
(* category it found was there, the category its transaction refers to     *)
(* stays, and so does the product whose images it replaces.                *)
(***************************************************************************)
EXTENDS Catalog, TLAPS

FoundWasThere ==
    \A c \in Calls : pc[c] \in {"found", "updating", "inserting"} =>
        c.op = "updateCategory" /\ c.id \in seen[c] /\ c.id \in 1 .. lastId

WritersAreProducts ==
    \A c \in Calls : pc[c] \in {"written", "imaged"} =>
        /\ c.op \in {"createProduct", "updateProduct"}
        /\ c.op = "createProduct" => made[c] # 0

KeepersAreUpdates ==
    \A c \in Calls : pc[c] \in {"kept", "replaced"} => c.op = "updateProduct"

CategoryStays == \A c \in Calls : Writing(c) /\ c.ref # 0 => c.ref \in DOMAIN parent

ImagedProductStays ==
    \A c \in Calls :
        c.op = "updateProduct" /\ pc[c] \in {"imaged", "replaced"} /\ c.images > 0 =>
            c.id \in DOMAIN category

Progress == FoundWasThere /\ WritersAreProducts /\ KeepersAreUpdates

IInv == TypeOK /\ Progress

-----------------------------------------------------------------------------
(* The queries that only look, and the ends of the process.                *)
LookStep(c) ==
    \/ FindParent(c) \/ FindCategory(c) \/ SaveReads(c) \/ ReadCategory(c)
    \/ Begin(c) \/ FindItsCategory(c) \/ FindProduct(c) \/ LookUp(c) \/ SaveProduct(c)
    \/ SaveNothing(c) \/ ReplaceImages(c) \/ Deadlock(c)
    \/ WriteImages(c) \/ CommitReservation(c) \/ Rollback(c) \/ FindToStock(c)
    \/ Promise(c) \/ FindToDelete(c)

(* The queries that write.                                                 *)
WriteStep(c) ==
    \/ InsertCategory(c) \/ SaveUpdates(c) \/ SaveInserts(c)
    \/ InsertProduct(c) \/ CommitProduct(c) \/ StockProduct(c)
    \/ DeleteCategory(c) \/ DeleteProduct(c)

LEMMA Cases ==
    ASSUME Next
    PROVE  Crash \/ \E c \in Calls : LookStep(c) \/ WriteStep(c)
  BY DEF Next, Step, LookStep, WriteStep

-----------------------------------------------------------------------------
LEMMA InitIInv == Init => IInv
  BY CallsAssumption, TablesAssumption, BoundsAssumption
  DEF Init, IInv, TypeOK, Progress, FoundWasThere, WritersAreProducts, KeepersAreUpdates

LEMMA IInvLook ==
    ASSUME IInv, NEW c \in Calls, LookStep(c)
    PROVE  IInv'
  <1>1. UNCHANGED <<Tables, crashes>> /\ lastId \in Nat
    BY DEF LookStep, IInv, TypeOK, FindParent, FindCategory, SaveReads, ReadCategory, Begin,
           FindItsCategory, FindProduct, LookUp, SaveProduct, SaveNothing, ReplaceImages,
           Deadlock, WriteImages, CommitReservation, Rollback, FindToStock, Promise,
           FindToDelete
  <1>2. seen' \in [Calls -> SUBSET Nat]
    BY <1>1 DEF LookStep, IInv, TypeOK, FindParent, FindCategory, SaveReads, ReadCategory,
           Begin, FindItsCategory, FindProduct, LookUp, SaveProduct, SaveNothing,
           ReplaceImages, Deadlock, WriteImages, CommitReservation, Rollback, FindToStock,
           Promise, FindToDelete
  <1>3. pc' \in [Calls -> Ended \cup Inside \cup {"idle", "ready", "found", "saved", "told"}]
    BY DEF LookStep, IInv, TypeOK, FindParent, FindCategory, SaveReads, ReadCategory, Begin,
           FindItsCategory, FindProduct, LookUp, SaveProduct, SaveNothing, ReplaceImages,
           Deadlock, WriteImages, CommitReservation, Rollback, FindToStock, Promise,
           FindToDelete, Goto, Exit, Ended, Inside
  <1>4. FoundWasThere'
    <2>1. lastId' = lastId
      BY <1>1 DEF Tables
    <2>2. CASE FindProduct(c)
      <3>1. /\ c.op = "updateProduct" /\ pc[c] = "begun"
            /\ \A d \in Calls : d # c => seen'[d] = seen[d] /\ pc'[d] = pc[d]
        BY <2>2 DEF FindProduct, Goto, IInv, TypeOK
      <3>2. pc'[c] \in {"failing", "known", "seen"}
        BY <2>2 DEF FindProduct, Goto, IInv, TypeOK
      <3> QED
        BY <2>1, <3>1, <3>2 DEF IInv, Progress, FoundWasThere
    <2>3. CASE FindCategory(c)
      BY <2>1, <2>3 DEF FindCategory, Goto, IInv, TypeOK, Progress, FoundWasThere
    <2>4. CASE ~ FindProduct(c) /\ ~ FindCategory(c)
      BY <2>1, <2>4 DEF LookStep, IInv, TypeOK, Progress, FoundWasThere, FindParent, SaveReads,
             ReadCategory, Begin, FindItsCategory, LookUp, SaveProduct, SaveNothing,
             ReplaceImages, Deadlock, WriteImages, CommitReservation, Rollback, FindToStock,
             Promise, FindToDelete, Goto, Exit, Ended
    <2> QED
      BY <2>2, <2>3, <2>4
  <1>5. WritersAreProducts' /\ KeepersAreUpdates'
    BY <1>1 DEF LookStep, IInv, TypeOK, Progress, WritersAreProducts, KeepersAreUpdates,
           FindParent, FindCategory, SaveReads, ReadCategory, Begin, FindItsCategory,
           FindProduct, LookUp, SaveProduct, SaveNothing, ReplaceImages, Deadlock, WriteImages,
           CommitReservation, Rollback, FindToStock, Promise, FindToDelete, Goto, Exit, Ended,
           Writing, Tables
  <1> QED
    BY <1>1, <1>2, <1>3, <1>4, <1>5 DEF IInv, TypeOK, Progress, Tables

LEMMA IInvWrite ==
    ASSUME IInv, NEW c \in Calls, WriteStep(c)
    PROVE  IInv'
  <1> USE DEF IInv, TypeOK, Progress, FoundWasThere, WritersAreProducts, KeepersAreUpdates
  <1>1. pc' \in [Calls -> Ended \cup Inside \cup {"idle", "ready", "found", "saved", "told"}]
    BY DEF WriteStep, InsertCategory, SaveUpdates, SaveInserts, InsertProduct, CommitProduct,
           CommitNew, CommitChanged, CommitKept, StockProduct, DeleteCategory, DeleteProduct,
           Goto, Exit, Ended, Inside
  <1>2. /\ \A d \in Calls : pc'[d] \in {"found", "updating", "inserting"} => pc'[d] = pc[d]
        /\ \A d \in Calls : pc'[d] \in {"written", "imaged"} /\ pc'[d] # pc[d] =>
              d = c /\ InsertProduct(c) /\ made'[c] = lastId + 1
        /\ \A d \in Calls : pc'[d] \in {"kept", "replaced"} => pc'[d] = pc[d]
        /\ seen' = seen /\ crashes' = crashes
    BY DEF WriteStep, InsertCategory, SaveUpdates, SaveInserts, InsertProduct, CommitProduct,
           CommitNew, CommitChanged, CommitKept, StockProduct, DeleteCategory, DeleteProduct,
           Goto, Exit, Ended
  <1>3. /\ lastId' \in {lastId, lastId + 1}
        /\ \A d \in Calls : made'[d] \in {made[d], lastId'}
        /\ made' \in [Calls -> 0 .. lastId']
    BY DEF WriteStep, InsertCategory, SaveUpdates, SaveInserts, InsertProduct, CommitProduct,
           CommitNew, CommitChanged, CommitKept, StockProduct, DeleteCategory, DeleteProduct
  <1>4. FoundWasThere' /\ WritersAreProducts' /\ KeepersAreUpdates'
    BY <1>2, <1>3 DEF InsertProduct
  <1>5. parent' \in [DOMAIN parent' -> Nat] /\ DOMAIN parent' \subseteq 1 .. lastId'
    <2>1. CASE InsertCategory(c)
      BY <2>1, CallsAssumption DEF InsertCategory, Set
    <2>2. CASE SaveUpdates(c)
      BY <2>2, CallsAssumption DEF SaveUpdates
    <2>3. CASE SaveInserts(c)
      <3>1. c.id \in 1 .. lastId
        BY <2>3 DEF SaveInserts
      <3> QED
        BY <2>3, <3>1, CallsAssumption DEF SaveInserts, Set
    <2>4. CASE DeleteCategory(c)
      BY <2>4 DEF DeleteCategory, Drop
    <2>5. CASE InsertProduct(c) \/ CommitProduct(c) \/ StockProduct(c) \/ DeleteProduct(c)
      BY <2>5, <1>3 DEF InsertProduct, CommitProduct, CommitNew, CommitChanged, CommitKept,
             StockProduct, DeleteProduct
    <2> QED
      BY <2>1, <2>2, <2>3, <2>4, <2>5 DEF WriteStep
  <1>6. category' \in [DOMAIN category' -> Nat] /\ DOMAIN category' \subseteq 1 .. lastId'
    <2>1. CASE CommitProduct(c) /\ c.op = "createProduct"
      <3>1. made[c] \in 1 .. lastId /\ c.ref \in Nat
        BY <2>1, CallsAssumption DEF CommitProduct, CommitNew, CommitChanged, CommitKept
      <3> QED
        BY <2>1, <3>1 DEF CommitProduct, CommitNew, CommitChanged, CommitKept, Set
    <2>2. CASE CommitProduct(c) /\ c.op # "createProduct"
      BY <2>2, CallsAssumption DEF CommitProduct, CommitNew, CommitChanged, CommitKept
    <2>3. CASE DeleteProduct(c)
      BY <2>3 DEF DeleteProduct, Drop
    <2>4. CASE InsertCategory(c) \/ SaveUpdates(c) \/ SaveInserts(c) \/ InsertProduct(c)
               \/ StockProduct(c) \/ DeleteCategory(c)
      BY <2>4, <1>3 DEF InsertCategory, SaveUpdates, SaveInserts, InsertProduct, StockProduct,
                        DeleteCategory
    <2> QED
      BY <2>1, <2>2, <2>3, <2>4 DEF WriteStep
  <1>7. images' \subseteq Nat \X Calls \X Nat
    <2>1. ImagesOf(c) \subseteq Nat \X Calls \X Nat
      BY CallsAssumption DEF ImagesOf, Row
    <2> QED
      BY <2>1 DEF WriteStep, InsertCategory, SaveUpdates, SaveInserts, InsertProduct,
             CommitProduct, CommitNew, CommitChanged, CommitKept, StockProduct, DeleteCategory,
             DeleteProduct, NewImages
  <1>8. stocked' \subseteq 1 .. lastId'
    BY <1>3 DEF WriteStep, InsertCategory, SaveUpdates, SaveInserts, InsertProduct,
           CommitProduct, CommitNew, CommitChanged, CommitKept, StockProduct, DeleteCategory,
           DeleteProduct
  <1>9. seen' \in [Calls -> SUBSET Nat]
    BY <1>2
  <1> QED
    BY <1>1, <1>2, <1>3, <1>4, <1>5, <1>6, <1>7, <1>8, <1>9

LEMMA IInvNext == IInv /\ [Next]_vars => IInv'
  <1> SUFFICES ASSUME IInv, [Next]_vars PROVE IInv'
    OBVIOUS
  <1>1. CASE Crash
    BY <1>1, BoundsAssumption DEF Crash, Exit, Tables, IInv, TypeOK, Progress, FoundWasThere,
           WritersAreProducts, KeepersAreUpdates, Ended
  <1>2. CASE UNCHANGED vars
    BY <1>2 DEF vars, IInv, TypeOK, Progress, FoundWasThere, WritersAreProducts,
           KeepersAreUpdates
  <1> QED
    BY <1>1, <1>2, Cases, IInvLook, IInvWrite

(* The catalog is well typed; above all, every id in it was given out, and *)
(* no row is saved under an id that never was (94-101).                    *)
THEOREM CatalogTyping == Spec => []TypeOK
  <1>1. IInv => TypeOK
    BY DEF IInv
  <1> QED
    BY <1>1, InitIInv, IInvNext, PTL DEF Spec

-----------------------------------------------------------------------------
(* A category that a transaction refers to is held, and so is the product  *)
(* whose images it replaces: deletions wait for both.                      *)
RefsKept == RefsIntact /\ CategoryStays /\ ImagedProductStays

LEMMA InitRefs == Init => RefsKept
  BY TablesAssumption
  DEF Init, RefsKept, RefsIntact, CategoryStays, ImagedProductStays, Writing

LEMMA RefsLook ==
    ASSUME IInv, RefsKept, NEW c \in Calls, LookStep(c)
    PROVE  RefsKept'
  <1> USE DEF IInv, TypeOK, RefsKept, Ended, Inside
  <1>1. UNCHANGED Tables /\ RefsIntact'
    BY DEF LookStep, FindParent, FindCategory, SaveReads, ReadCategory, Begin, FindItsCategory,
           FindProduct, LookUp, SaveProduct, SaveNothing, ReplaceImages, Deadlock, WriteImages,
           CommitReservation, Rollback, FindToStock, Promise, FindToDelete, Tables, RefsIntact
  <1>2. /\ \A d \in Calls : pc'[d] = "imaged" /\ pc[d] # "imaged" => d = c /\ WriteImages(c)
        /\ \A d \in Calls : pc'[d] = "written" /\ pc[d] # "written" => d = c /\ SaveProduct(c)
        /\ \A d \in Calls : pc'[d] = "replaced" /\ pc[d] # "replaced" => d = c /\ ReplaceImages(c)
    BY DEF LookStep, FindParent, FindCategory, SaveReads, ReadCategory, Begin, FindItsCategory,
           FindProduct, LookUp, SaveProduct, SaveNothing, ReplaceImages, Deadlock, WriteImages,
           CommitReservation, Rollback, FindToStock, Promise, FindToDelete, Goto, Exit
  <1>3. CategoryStays'
    BY <1>1, <1>2 DEF CategoryStays, Writing, Tables, WriteImages, SaveProduct, Goto
  <1>4. ImagedProductStays'
    BY <1>1, <1>2 DEF ImagedProductStays, Tables, WriteImages, ReplaceImages, Goto
  <1> QED
    BY <1>1, <1>3, <1>4

LEMMA RefsWrite ==
    ASSUME IInv, RefsKept, NEW c \in Calls, WriteStep(c)
    PROVE  RefsKept'
  <1> USE DEF IInv, TypeOK, RefsKept, RefsIntact, CategoryStays, ImagedProductStays, Writing
  <1>1. CASE InsertCategory(c)
    BY <1>1 DEF InsertCategory, Set, Goto
  <1>2. CASE SaveUpdates(c)
    BY <1>2 DEF SaveUpdates, Goto
  <1>3. CASE SaveInserts(c)
    BY <1>3 DEF SaveInserts, Set, Goto
  <1>4. CASE InsertProduct(c)
    BY <1>4 DEF InsertProduct, Goto
  <1>5. CASE CommitProduct(c)
    <2>1. /\ UNCHANGED <<parent, stocked>> /\ DOMAIN category \subseteq DOMAIN category'
          /\ c.op = "createProduct" => DOMAIN category' = DOMAIN category \cup {made[c]}
      BY <1>5 DEF CommitProduct, CommitNew, CommitChanged, CommitKept, Set
    <2>2. \A p \in DOMAIN category' : category'[p] \in DOMAIN parent'
      BY <1>5, CallsAssumption DEF CommitProduct, CommitNew, CommitChanged, CommitKept, Set,
             Progress, WritersAreProducts
    <2>3. \A row \in images' : row[1] \in DOMAIN category'
      <3>1. CASE c.images = 0
        BY <1>5, <2>1, <3>1 DEF CommitProduct, CommitNew, CommitChanged, CommitKept, NewImages
      <3>2. CASE c.images # 0
        <4>1. Row(c) \in DOMAIN category'
          BY <1>5, <2>1, <3>2, CallsAssumption
          DEF CommitProduct, CommitNew, CommitChanged, CommitKept, Row, Progress, WritersAreProducts
        <4> QED
          BY <1>5, <2>1, <3>2, <4>1 DEF CommitProduct, CommitNew, CommitChanged, CommitKept,
                 NewImages, ImagesOf
      <3> QED
        BY <3>1, <3>2
    <2>4. CategoryStays' /\ ImagedProductStays'
      BY <1>5, <2>1 DEF CommitProduct, CommitNew, CommitChanged, CommitKept, Goto
    <2> QED
      BY <2>1, <2>2, <2>3, <2>4
  <1>6. CASE StockProduct(c)
    BY <1>6 DEF StockProduct, Goto
  <1>7. CASE DeleteCategory(c)
    BY <1>7 DEF DeleteCategory, Drop, Goto, Exit, Ended, CategoryUsed, CategoryHeld
  <1>8. CASE DeleteProduct(c)
    BY <1>8 DEF DeleteProduct, Drop, Goto, Exit, Ended, ProductUsed, ProductHeld,
           ProductLocked
  <1> QED
    BY <1>1, <1>2, <1>3, <1>4, <1>5, <1>6, <1>7, <1>8 DEF WriteStep

(* Whatever is deleted and saved meanwhile, no row refers to one that is   *)
(* not there (the foreign keys, under the locks of the transactions).      *)
THEOREM ReferencesHold == Spec => []RefsIntact
  <1>1. IInv /\ RefsKept /\ [Next]_vars => RefsKept'
    <2> SUFFICES ASSUME IInv, RefsKept, [Next]_vars PROVE RefsKept'
      OBVIOUS
    <2>1. CASE Crash
      BY <2>1 DEF Crash, Exit, Tables, Ended, IInv, TypeOK, RefsKept, RefsIntact, CategoryStays,
                  ImagedProductStays, Writing
    <2>2. CASE UNCHANGED vars
      BY <2>2 DEF vars, RefsKept, RefsIntact, CategoryStays, ImagedProductStays, Writing
    <2> QED
      BY <2>1, <2>2, Cases, RefsLook, RefsWrite
  <1>2. RefsKept => RefsIntact
    BY DEF RefsKept
  <1> QED
    BY <1>1, <1>2, InitIInv, IInvNext, InitRefs, PTL DEF Spec

-----------------------------------------------------------------------------
(* The images of a product are those of one call, however calls overlap    *)
(* and wherever the process exits (upsertProductImage, 242-255).           *)
THEOREM ImagesAreOfOneCall == Spec => []ImagesOfOneCall
  <1>1. Init => ImagesOfOneCall
    BY DEF Init, ImagesOfOneCall
  <1>2. IInv /\ ImagesOfOneCall /\ [Next]_vars => ImagesOfOneCall'
    <2> SUFFICES ASSUME IInv, ImagesOfOneCall, [Next]_vars PROVE ImagesOfOneCall'
      OBVIOUS
    <2>1. ASSUME NEW c \in Calls, CommitProduct(c), c.images # 0 PROVE ImagesOfOneCall'
      <3>1. \A row \in ImagesOf(c) : row[1] = Row(c) /\ row[2] = c
        BY DEF ImagesOf
      <3>2. \A n \in 1 .. c.images : <<Row(c), c, n>> \in ImagesOf(c)
        BY DEF ImagesOf
      <3>3. images' = {row \in images : row[1] # Row(c)} \cup ImagesOf(c)
        BY <2>1 DEF CommitProduct, CommitNew, CommitChanged, CommitKept, NewImages
      <3>4. ASSUME NEW r \in images', NEW s \in images', r[1] = s[1]
            PROVE  r[2] = s[2] /\ \A n \in 1 .. r[2].images : <<r[1], r[2], n>> \in images'
        <4>1. CASE r[1] = Row(c)
          <5>1. r \in ImagesOf(c) /\ s \in ImagesOf(c)
            BY <3>3, <3>4, <4>1
          <5>2. r[1] = Row(c) /\ r[2] = c /\ s[2] = c
            BY <3>1, <5>1
          <5>3. ImagesOf(c) \subseteq images'
            BY <3>3
          <5> QED
            BY <3>2, <5>2, <5>3
        <4>2. CASE r[1] # Row(c)
          <5>1. r \in images /\ s \in images
            BY <3>1, <3>3, <3>4, <4>2
          <5> QED
            BY <3>3, <3>4, <4>2, <5>1 DEF ImagesOfOneCall
        <4> QED
          BY <4>1, <4>2
      <3> QED
        BY <3>4 DEF ImagesOfOneCall
    <2>2. ASSUME UNCHANGED images PROVE ImagesOfOneCall'
      BY <2>2 DEF ImagesOfOneCall
    <2>3. UNCHANGED images \/ \E c \in Calls : CommitProduct(c) /\ c.images # 0
      BY DEF Next, Step, vars, Crash, Tables, FindParent, InsertCategory, FindCategory,
             SaveReads, SaveUpdates, SaveInserts, ReadCategory, Begin, FindItsCategory,
             InsertProduct, FindProduct, LookUp, SaveProduct, SaveNothing, ReplaceImages,
             Deadlock, WriteImages, CommitProduct, CommitNew, CommitChanged, CommitKept,
             NewImages, CommitReservation, Rollback, FindToStock, StockProduct, Promise,
             FindToDelete, DeleteCategory, DeleteProduct
    <2> QED
      BY <2>1, <2>2, <2>3
  <1> QED
    BY <1>1, <1>2, InitIInv, IInvNext, PTL DEF Spec

(* A deleted category comes back only by an update that had found it       *)
(* before (94-101).                                                        *)
THEOREM BackByOverlap == Spec => BackOnlyByOverlap
  <1> DEFINE Back == \A i \in DOMAIN parent' \ DOMAIN parent :
                i <= lastId => \E c \in Calls :
                    c.op = "updateCategory" /\ c.id = i /\ i \in seen[c]
  <1>1. IInv /\ [Next]_vars => [Back]_vars
    <2> SUFFICES ASSUME IInv, Next, NEW i \in DOMAIN parent' \ DOMAIN parent, i <= lastId
                 PROVE  \E c \in Calls : c.op = "updateCategory" /\ c.id = i /\ i \in seen[c]
      OBVIOUS
    <2>1. PICK c \in Calls : WriteStep(c)
      BY Cases DEF Crash, Tables, LookStep, FindParent, FindCategory, SaveReads, ReadCategory,
             Begin, FindItsCategory, FindProduct, LookUp, SaveProduct, SaveNothing,
             ReplaceImages, Deadlock, WriteImages, CommitReservation, Rollback, FindToStock,
             Promise, FindToDelete
    <2>2. SaveInserts(c) /\ i = c.id
      BY <2>1 DEF WriteStep, InsertCategory, SaveUpdates, SaveInserts, InsertProduct,
             CommitProduct, CommitNew, CommitChanged, CommitKept, StockProduct, DeleteCategory,
             DeleteProduct, Set, Drop, IInv, TypeOK
    <2> QED
      BY <2>2 DEF SaveInserts, IInv, Progress, FoundWasThere
  <1> QED
    BY <1>1, InitIInv, IInvNext, PTL DEF Spec, BackOnlyByOverlap
=============================================================================
