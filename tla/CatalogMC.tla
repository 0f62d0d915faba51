----------------------------- MODULE CatalogMC ------------------------------
(* Two categories, a product in the first, and calls that meet on them. *)
EXTENDS Catalog

Call(op, id, ref, n) == [op |-> op, id |-> id, ref |-> ref, images |-> n]

MCCalls == {
    Call("createCategory", 0, 2, 0),
    Call("updateCategory", 2, 1, 0),
    Call("updateCategory", 2, 0, 0),
    Call("deleteCategory", 2, 0, 0),
    Call("createProduct", 0, 2, 2),
    Call("updateProduct", 1, 2, 1),
    Call("updateProduct", 1, 0, 2),
    Call("deleteProduct", 1, 0, 0),
    Call("upsertStock", 1, 0, 0),
    Call("reserve", 1, 0, 0)}

MCCategories == <<0, 0>>
MCItems == <<1>>
=============================================================================
