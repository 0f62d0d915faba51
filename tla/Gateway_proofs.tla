--------------------------- MODULE Gateway_proofs ---------------------------
(***************************************************************************)
(* For any requests, any calls that ask for a route of the gateway, any    *)
(* threshold of the liveness probe and any number of deaths: a request is  *)
(* served as its author meant, by one call, past the guards only, and what *)
(* its client is told of a success or an outage is true, although the user *)
(* service may refuse any token and the probe may fail at any time.        *)
(*                                                                         *)
(* The first half is about the table of the 22 routes.  Of two routes with *)
(* one verb, only GET /product/:id, declared first, also fits the path of  *)
(* another, GET /product/category: so the first handler that matches a     *)
(* call is the one it means, or that one.  The second half is an invariant *)
(* of the requests, one action at a time.                                  *)
(***************************************************************************)
EXTENDS Gateway, SequenceTheorems, TLAPS

(* The concatenations of the table, spelled out.                           *)
LEMMA PathsJoin ==
    \A a, b, c : /\ <<a>> \o << >> = <<a>>
                 /\ <<a>> \o <<b>> = <<a, b>>
                 /\ <<a>> \o <<b, c>> = <<a, b, c>>
  <1> TAKE a, b, c
  <1> DEFINE T == {a, b, c}
  <1>0. << >> \in Seq(T) /\ <<a>> \in Seq(T) /\ <<b>> \in Seq(T)
        /\ <<b, c>> \in Seq(T) /\ <<a, b>> \in Seq(T) /\ <<a, b, c>> \in Seq(T)
    OBVIOUS
  <1>1. <<a>> \o << >> = <<a>>
    OBVIOUS
  <1>2. <<a>> \o <<b>> = <<a, b>>
    <2>1. <<a>> \o <<b>> \in Seq(T) /\ Len(<<a>> \o <<b>>) = 2
      BY <1>0
    <2>2. \A i \in 1 .. 2 : (<<a>> \o <<b>>)[i] = <<a, b>>[i]
      BY <1>0
    <2>3. QED
      BY <1>0, <2>1, <2>2, SeqEqual
  <1>3. <<a>> \o <<b, c>> = <<a, b, c>>
    <2>1. <<a>> \o <<b, c>> \in Seq(T) /\ Len(<<a>> \o <<b, c>>) = 3
      BY <1>0
    <2>2. \A i \in 1 .. 3 : (<<a>> \o <<b, c>>)[i] = <<a, b, c>>[i]
      BY <1>0
    <2>3. QED
      BY <1>0, <2>1, <2>2, SeqEqual
  <1>4. QED
    BY <1>1, <1>2, <1>3

(* The handlers of the four controllers, and their order in the router.    *)
Entries == {AuthRoutes[i] : i \in 1 .. 2} \cup {UserRoutes[i] : i \in 1 .. 2}
             \cup {ProductRoutes[i] : i \in 1 .. 13} \cup {OrderRoutes[i] : i \in 1 .. 5}

LEMMA ListOf ==
    ASSUME NEW T, NEW n \in Nat, NEW s, s = [i \in 1 .. n |-> s[i]],
           \A i \in 1 .. n : s[i] \in T
    PROVE  s \in Seq(T) /\ Len(s) = n
  <1>1. s \in [1 .. n -> T]
    OBVIOUS
  <1>2. QED
    BY <1>1, SeqDef, LenProperties

LEMMA Lists ==
    /\ AuthRoutes \in Seq(Entries) /\ Len(AuthRoutes) = 2
    /\ UserRoutes \in Seq(Entries) /\ Len(UserRoutes) = 2
    /\ ProductRoutes \in Seq(Entries) /\ Len(ProductRoutes) = 13
    /\ OrderRoutes \in Seq(Entries) /\ Len(OrderRoutes) = 5
  <1>1. /\ AuthRoutes = [i \in 1 .. 2 |-> AuthRoutes[i]]
        /\ UserRoutes = [i \in 1 .. 2 |-> UserRoutes[i]]
        /\ ProductRoutes = [i \in 1 .. 13 |-> ProductRoutes[i]]
        /\ OrderRoutes = [i \in 1 .. 5 |-> OrderRoutes[i]]
    BY DEF AuthRoutes, UserRoutes, ProductRoutes, OrderRoutes
  <1>2. /\ \A i \in 1 .. 2 : AuthRoutes[i] \in Entries /\ UserRoutes[i] \in Entries
        /\ \A i \in 1 .. 13 : ProductRoutes[i] \in Entries
        /\ \A i \in 1 .. 5 : OrderRoutes[i] \in Entries
    BY DEF Entries
  <1>3. AuthRoutes \in Seq(Entries) /\ Len(AuthRoutes) = 2
    BY <1>1, <1>2, ListOf
  <1>4. UserRoutes \in Seq(Entries) /\ Len(UserRoutes) = 2
    BY <1>1, <1>2, ListOf
  <1>5. ProductRoutes \in Seq(Entries) /\ Len(ProductRoutes) = 13
    BY <1>1, <1>2, ListOf
  <1>6. OrderRoutes \in Seq(Entries) /\ Len(OrderRoutes) = 5
    BY <1>1, <1>2, ListOf
  <1>7. QED
    BY <1>3, <1>4, <1>5, <1>6

Joins(both, s, m, t, n) ==
    /\ DOMAIN both = 1 .. m + n
    /\ \A i \in 1 .. m + n : both[i] = IF i <= m THEN s[i] ELSE t[i - m]

LEMMA Appended ==
    ASSUME NEW T, NEW s \in Seq(T), NEW t \in Seq(T)
    PROVE  /\ s \o t \in Seq(T) /\ Len(s \o t) = Len(s) + Len(t)
           /\ Joins(s \o t, s, Len(s), t, Len(t))
  BY ConcatProperties, LenProperties DEF Joins

LEMMA Joined ==
    /\ DOMAIN Routes = 1 .. 22
    /\ Routes[1] = AuthRoutes[1] /\ Routes[2] = AuthRoutes[2]
    /\ Routes[3] = UserRoutes[1] /\ Routes[4] = UserRoutes[2]
    /\ Routes[5] = ProductRoutes[1] /\ Routes[6] = ProductRoutes[2]
    /\ Routes[7] = ProductRoutes[3] /\ Routes[8] = ProductRoutes[4]
    /\ Routes[9] = ProductRoutes[5] /\ Routes[10] = ProductRoutes[6]
    /\ Routes[11] = ProductRoutes[7] /\ Routes[12] = ProductRoutes[8]
    /\ Routes[13] = ProductRoutes[9] /\ Routes[14] = ProductRoutes[10]
    /\ Routes[15] = ProductRoutes[11] /\ Routes[16] = ProductRoutes[12]
    /\ Routes[17] = ProductRoutes[13]
    /\ Routes[18] = OrderRoutes[1] /\ Routes[19] = OrderRoutes[2]
    /\ Routes[20] = OrderRoutes[3] /\ Routes[21] = OrderRoutes[4]
    /\ Routes[22] = OrderRoutes[5]
  <1>1. PICK two : two = AuthRoutes \o UserRoutes
    OBVIOUS
  <1>2. PICK three : three = two \o ProductRoutes
    OBVIOUS
  <1>3. Routes = three \o OrderRoutes
    BY <1>1, <1>2 DEF Routes
  <1>4. /\ two \in Seq(Entries) /\ Len(two) = Len(AuthRoutes) + Len(UserRoutes)
        /\ Joins(two, AuthRoutes, Len(AuthRoutes), UserRoutes, Len(UserRoutes))
    BY <1>1, Lists, Appended
  <1>5. /\ three \in Seq(Entries) /\ Len(three) = Len(two) + Len(ProductRoutes)
        /\ Joins(three, two, Len(two), ProductRoutes, Len(ProductRoutes))
    BY <1>2, <1>4, Lists, Appended
  <1>6. Joins(Routes, three, Len(three), OrderRoutes, Len(OrderRoutes))
    BY <1>3, <1>5, Lists, Appended
  <1>7. /\ Joins(two, AuthRoutes, 2, UserRoutes, 2)
        /\ Joins(three, two, 4, ProductRoutes, 13)
        /\ Joins(Routes, three, 17, OrderRoutes, 5)
    BY <1>4, <1>5, <1>6, Lists
  <1>8. /\ two[1] = AuthRoutes[1] /\ two[2] = AuthRoutes[2]
        /\ two[3] = UserRoutes[1] /\ two[4] = UserRoutes[2]
    BY <1>7 DEF Joins
  <1>9. /\ \A i \in 1 .. 4 : three[i] = two[i]
        /\ three[5] = ProductRoutes[1] /\ three[6] = ProductRoutes[2]
        /\ three[7] = ProductRoutes[3] /\ three[8] = ProductRoutes[4]
        /\ three[9] = ProductRoutes[5] /\ three[10] = ProductRoutes[6]
        /\ three[11] = ProductRoutes[7] /\ three[12] = ProductRoutes[8]
        /\ three[13] = ProductRoutes[9] /\ three[14] = ProductRoutes[10]
        /\ three[15] = ProductRoutes[11] /\ three[16] = ProductRoutes[12]
        /\ three[17] = ProductRoutes[13]
    BY <1>7 DEF Joins
  <1>10. /\ DOMAIN Routes = 1 .. 22 /\ \A i \in 1 .. 17 : Routes[i] = three[i]
         /\ Routes[18] = OrderRoutes[1] /\ Routes[19] = OrderRoutes[2]
         /\ Routes[20] = OrderRoutes[3] /\ Routes[21] = OrderRoutes[4]
         /\ Routes[22] = OrderRoutes[5]
    BY <1>7 DEF Joins
  <1>11. QED
    BY <1>8, <1>9, <1>10

AdminRoute(verb, path, body, rpc) == Route(verb, path, "access", {"ADMIN"}, body, rpc)
UserRoute(verb, path, body, rpc) == Route(verb, path, "access", {"USER"}, body, rpc)

LEMMA Prefixed ==
    ASSUME NEW verb, NEW body, NEW rpc, NEW a, NEW b
    PROVE  /\ ForAdmin(verb, << >>, body, rpc) = AdminRoute(verb, <<"product">>, body, rpc)
           /\ ForAdmin(verb, <<a>>, body, rpc) = AdminRoute(verb, <<"product", a>>, body, rpc)
           /\ ForAdmin(verb, <<a, b>>, body, rpc)
                = AdminRoute(verb, <<"product", a, b>>, body, rpc)
           /\ ForUser(verb, <<a>>, body, rpc) = UserRoute(verb, <<"order", a>>, body, rpc)
  <1>1. /\ <<"product">> \o << >> = <<"product">>
        /\ <<"product">> \o <<a>> = <<"product", a>>
        /\ <<"product">> \o <<a, b>> = <<"product", a, b>>
        /\ <<"order">> \o <<a>> = <<"order", a>>
    BY PathsJoin
  <1>2. QED
    BY <1>1, Zenon DEF ForAdmin, ForUser, AdminRoute, UserRoute

(* The table, with the paths spelled out.                                  *)
LEMMA OpenTable ==
    /\ Routes[1] = Route("GET", <<"auth", "google">>, None, {}, FALSE, "redirect")
    /\ Routes[2] = Route("POST", <<"auth", "refresh">>, "refresh", {}, FALSE, "refreshToken")
    /\ Routes[3] = Route("GET", <<"user">>, "access", {}, FALSE, "getUserInfoByUserId")
    /\ Routes[4] = Route("PATCH", <<"user">>, "access", {}, TRUE, "updateUserInfo")
  <1>1. /\ AuthRoutes[1] = Route("GET", <<"auth", "google">>, None, {}, FALSE, "redirect")
        /\ AuthRoutes[2] = Route("POST", <<"auth", "refresh">>, "refresh", {}, FALSE, "refreshToken")
        /\ UserRoutes[1] = Route("GET", <<"user">>, "access", {}, FALSE, "getUserInfoByUserId")
        /\ UserRoutes[2] = Route("PATCH", <<"user">>, "access", {}, TRUE, "updateUserInfo")
    BY Prefixed DEF AuthRoutes, UserRoutes
  <1>2. QED
    BY <1>1, Joined

LEMMA ProductTable ==
    /\ Routes[5] = AdminRoute("POST", <<"product">>, TRUE, "createProduct")
    /\ Routes[6] = AdminRoute("GET", <<"product">>, TRUE, "getProducts")
    /\ Routes[7] = AdminRoute("GET", <<"product", ":id">>, FALSE, "getProductById")
    /\ Routes[8] = AdminRoute("PATCH", <<"product", ":id">>, TRUE, "updateProduct")
    /\ Routes[9] = AdminRoute("DELETE", <<"product", ":id">>, FALSE, "deleteProduct")
  <1>1. /\ ProductRoutes[1] = AdminRoute("POST", <<"product">>, TRUE, "createProduct")
        /\ ProductRoutes[2] = AdminRoute("GET", <<"product">>, TRUE, "getProducts")
        /\ ProductRoutes[3] = AdminRoute("GET", <<"product", ":id">>, FALSE, "getProductById")
        /\ ProductRoutes[4] = AdminRoute("PATCH", <<"product", ":id">>, TRUE, "updateProduct")
        /\ ProductRoutes[5] = AdminRoute("DELETE", <<"product", ":id">>, FALSE, "deleteProduct")
    BY Prefixed DEF ProductRoutes
  <1>2. QED
    BY <1>1, Joined

LEMMA CategoryTable ==
    /\ Routes[10] = AdminRoute("POST", <<"product", "category">>, TRUE, "createCategory")
    /\ Routes[11] = AdminRoute("GET", <<"product", "category">>, FALSE, "getAllCategories")
    /\ Routes[12] = AdminRoute("GET", <<"product", "category", ":id">>, FALSE, "getCategoryById")
    /\ Routes[13] = AdminRoute("PATCH", <<"product", "category", ":id">>, TRUE, "updateCategory")
    /\ Routes[14] = AdminRoute("DELETE", <<"product", "category", ":id">>, FALSE, "deleteCategory")
  <1>1. /\ ProductRoutes[6] = AdminRoute("POST", <<"product", "category">>, TRUE, "createCategory")
        /\ ProductRoutes[7] = AdminRoute("GET", <<"product", "category">>, FALSE, "getAllCategories")
        /\ ProductRoutes[8] = AdminRoute("GET", <<"product", "category", ":id">>, FALSE, "getCategoryById")
        /\ ProductRoutes[9] = AdminRoute("PATCH", <<"product", "category", ":id">>, TRUE, "updateCategory")
        /\ ProductRoutes[10] = AdminRoute("DELETE", <<"product", "category", ":id">>, FALSE, "deleteCategory")
    BY Prefixed DEF ProductRoutes
  <1>2. QED
    BY <1>1, Joined

LEMMA StockTable ==
    /\ Routes[15] = AdminRoute("POST", <<"product", "presigned-url">>, TRUE, "generatePresignedUrl")
    /\ Routes[16] = AdminRoute("GET", <<"product", "stock", ":id">>, FALSE, "getStockByProductId")
    /\ Routes[17] = AdminRoute("PATCH", <<"product", "stock", ":id">>, TRUE, "upsertStock")
  <1>1. /\ ProductRoutes[11] = AdminRoute("POST", <<"product", "presigned-url">>, TRUE, "generatePresignedUrl")
        /\ ProductRoutes[12] = AdminRoute("GET", <<"product", "stock", ":id">>, FALSE, "getStockByProductId")
        /\ ProductRoutes[13] = AdminRoute("PATCH", <<"product", "stock", ":id">>, TRUE, "upsertStock")
    BY Prefixed DEF ProductRoutes
  <1>2. QED
    BY <1>1, Joined

LEMMA OrderTable ==
    /\ Routes[18] = UserRoute("POST", <<"order", "initiate">>, TRUE, "initiateOrder")
    /\ Routes[19] = UserRoute("POST", <<"order", "complete">>, TRUE, "completeOrder")
    /\ Routes[20] = UserRoute("POST", <<"order", "cancel">>, TRUE, "cancelOrder")
    /\ Routes[21] = UserRoute("GET", <<"order", "user">>, FALSE, "getOrdersByUserId")
    /\ Routes[22] = UserRoute("GET", <<"order", ":id">>, FALSE, "getOrderByIdAndUser")
  <1>1. /\ OrderRoutes[1] = UserRoute("POST", <<"order", "initiate">>, TRUE, "initiateOrder")
        /\ OrderRoutes[2] = UserRoute("POST", <<"order", "complete">>, TRUE, "completeOrder")
        /\ OrderRoutes[3] = UserRoute("POST", <<"order", "cancel">>, TRUE, "cancelOrder")
        /\ OrderRoutes[4] = UserRoute("GET", <<"order", "user">>, FALSE, "getOrdersByUserId")
        /\ OrderRoutes[5] = UserRoute("GET", <<"order", ":id">>, FALSE, "getOrderByIdAndUser")
    BY Prefixed DEF OrderRoutes
  <1>2. QED
    BY <1>1, Joined

-----------------------------------------------------------------------------
(* Route m also takes the requests for route i.                            *)
Covers(m, i) == Routes[m].verb = Routes[i].verb /\ Fits(Routes[m].path, Routes[i].path)

(* Of the routes declared before a route only one covers it: the handler   *)
(* of GET /product/:id that of GET /product/category.                      *)
LEMMA OnlyShadow ==
    \A i \in 1 .. 22 : \A m \in 1 .. i - 1 : Covers(m, i) => m = 7 /\ i = 11
  <1> USE OpenTable, ProductTable, CategoryTable, StockTable, OrderTable
  <1>2. \A m \in 1 .. 1 : ~ Covers(m, 2)
    BY SMTT(60) DEF Route, AdminRoute, UserRoute, Covers, Fits
  <1>3. \A m \in 1 .. 2 : ~ Covers(m, 3)
    BY SMTT(60) DEF Route, AdminRoute, UserRoute, Covers, Fits
  <1>4. \A m \in 1 .. 3 : ~ Covers(m, 4)
    BY SMTT(60) DEF Route, AdminRoute, UserRoute, Covers, Fits
  <1>5. \A m \in 1 .. 4 : ~ Covers(m, 5)
    BY SMTT(60) DEF Route, AdminRoute, UserRoute, Covers, Fits
  <1>6. \A m \in 1 .. 5 : ~ Covers(m, 6)
    BY SMTT(60) DEF Route, AdminRoute, UserRoute, Covers, Fits
  <1>7. \A m \in 1 .. 6 : ~ Covers(m, 7)
    BY SMTT(60) DEF Route, AdminRoute, UserRoute, Covers, Fits
  <1>8. \A m \in 1 .. 7 : ~ Covers(m, 8)
    BY SMTT(60) DEF Route, AdminRoute, UserRoute, Covers, Fits
  <1>9. \A m \in 1 .. 8 : ~ Covers(m, 9)
    BY SMTT(60) DEF Route, AdminRoute, UserRoute, Covers, Fits
  <1>10. \A m \in 1 .. 9 : ~ Covers(m, 10)
    BY SMTT(60) DEF Route, AdminRoute, UserRoute, Covers, Fits
  <1>11. \A m \in 1 .. 10 : Covers(m, 11) => m = 7
    BY SMTT(60) DEF Route, AdminRoute, UserRoute, Covers, Fits
  <1>12. \A m \in 1 .. 11 : ~ Covers(m, 12)
    BY SMTT(60) DEF Route, AdminRoute, UserRoute, Covers, Fits
  <1>13. \A m \in 1 .. 12 : ~ Covers(m, 13)
    BY SMTT(60) DEF Route, AdminRoute, UserRoute, Covers, Fits
  <1>14. \A m \in 1 .. 13 : ~ Covers(m, 14)
    BY SMTT(60) DEF Route, AdminRoute, UserRoute, Covers, Fits
  <1>15. \A m \in 1 .. 14 : ~ Covers(m, 15)
    BY SMTT(60) DEF Route, AdminRoute, UserRoute, Covers, Fits
  <1>16. \A m \in 1 .. 15 : ~ Covers(m, 16)
    BY SMTT(60) DEF Route, AdminRoute, UserRoute, Covers, Fits
  <1>17. \A m \in 1 .. 16 : ~ Covers(m, 17)
    BY SMTT(60) DEF Route, AdminRoute, UserRoute, Covers, Fits
  <1>18. \A m \in 1 .. 17 : ~ Covers(m, 18)
    BY SMTT(60) DEF Route, AdminRoute, UserRoute, Covers, Fits
  <1>19. \A m \in 1 .. 18 : ~ Covers(m, 19)
    BY SMTT(60) DEF Route, AdminRoute, UserRoute, Covers, Fits
  <1>20. \A m \in 1 .. 19 : ~ Covers(m, 20)
    BY SMTT(60) DEF Route, AdminRoute, UserRoute, Covers, Fits
  <1>21. \A m \in 1 .. 20 : ~ Covers(m, 21)
    BY SMTT(60) DEF Route, AdminRoute, UserRoute, Covers, Fits
  <1>22. \A m \in 1 .. 21 : ~ Covers(m, 22)
    BY SMTT(60) DEF Route, AdminRoute, UserRoute, Covers, Fits
  <1>23. QED
    BY <1>2, <1>3, <1>4, <1>5, <1>6, <1>7, <1>8, <1>9, <1>10, <1>11, <1>12, <1>13, <1>14, <1>15,
       <1>16, <1>17, <1>18, <1>19, <1>20, <1>21, <1>22

LEMMA TableTyped ==
    \A i \in 1 .. 22 :
        /\ Len(Routes[i].path) \in 1 .. 3
        /\ Routes[i].body \in BOOLEAN
        /\ Routes[i].roles = {} \/ Routes[i].auth = "access"
  <1> USE OpenTable, ProductTable, CategoryTable, StockTable, OrderTable
  <1>1. \A i \in 1 .. 22 : Len(Routes[i].path) \in 1 .. 3
    BY SMTT(20) DEF Route, AdminRoute, UserRoute
  <1>2. \A i \in 1 .. 22 : Routes[i].body = TRUE \/ Routes[i].body = FALSE
    BY SMTT(20) DEF Route, AdminRoute, UserRoute
  <1>3. \A i \in 1 .. 22 : Routes[i].roles = {} \/ Routes[i].auth = "access"
    BY SMTT(20) DEF Route, AdminRoute, UserRoute
  <1>4. QED
    BY <1>1, <1>2, <1>3

LEMMA TableServed ==
    \A i \in 1 .. 22 : Routes[i].rpc \in {"redirect"} \cup Serves(Callee(Routes[i].rpc))
  <1> USE OpenTable, ProductTable, CategoryTable, StockTable, OrderTable
  <1>1. QED
    BY SMTT(60) DEF Route, AdminRoute, UserRoute, Serves, Callee, ProductMethods,
       CategoryMethods, StockMethods, OrderMethods, UserMethods

LEMMA OneRoute ==
    \A i, j \in 1 .. 22 : Routes[i].rpc = Routes[j].rpc => i = j
  <1> USE OpenTable, ProductTable, CategoryTable, StockTable, OrderTable
  <1>1. QED
    BY SMTT(60) DEF Route, AdminRoute, UserRoute

LEMMA PathWords ==
    \A i \in DOMAIN Routes : \A k \in 1 .. Len(Routes[i].path) : Routes[i].path[k] \in Words
  <1> DEFINE spelled(i) == {Routes[i].path[k] : k \in 1 .. Len(Routes[i].path)}
  <1>1. SUFFICES ASSUME NEW i \in DOMAIN Routes, NEW k \in 1 .. Len(Routes[i].path)
                 PROVE  \E j \in DOMAIN Routes : Routes[i].path[k] \in spelled(j)
    BY DEF Words
  <1>2. Routes[i].path[k] \in spelled(i)
    OBVIOUS
  <1>3. QED
    BY <1>2

(* The handler a call reaches: the one it means, or the one that shadows   *)
(* it.                                                                     *)
LEMMA Routed ==
    ASSUME NEW c \in Calls
    PROVE  /\ Matching(c) # {}
           /\ Intended(c) \in 1 .. 22 /\ Routes[Intended(c)].rpc = c.meant
           /\ \E m \in 1 .. 22 :
                 /\ RouteOf(c) = Routes[m]
                 /\ m = Intended(c) \/ (m = 7 /\ Intended(c) = 11)
  <1>1. DOMAIN Routes = 1 .. 22
    BY Joined
  <1>2. PICK i \in 1 .. 22 : AsksFor(c, Routes[i])
    BY <1>1, CallsAssumption
  <1>3. Intended(c) = i /\ Routes[i].rpc = c.meant
    BY <1>1, <1>2, OneRoute DEF Intended, AsksFor
  <1>4. i \in Matching(c) /\ Matching(c) \subseteq 1 .. 22
    BY <1>1, <1>2, TableTyped DEF Matching, Fits, AsksFor
  <1>5. ASSUME NEW m \in Matching(c)
        PROVE  Covers(m, i)
    <2>1. m \in 1 .. 22 /\ Routes[m].verb = c.verb /\ Fits(Routes[m].path, c.path)
      BY <1>1, <1>4, <1>5 DEF Matching
    <2>2. Len(Routes[m].path) = Len(Routes[i].path) /\ Routes[m].verb = Routes[i].verb
      BY <1>2, <2>1 DEF Fits, AsksFor
    <2>3. ASSUME NEW k \in 1 .. Len(Routes[i].path)
          PROVE  Routes[m].path[k] \in {Routes[i].path[k], ":id"}
      <3>1. Routes[m].path[k] \in {c.path[k], ":id"} /\ Routes[m].path[k] \in Words
        BY <1>2, <2>1, <2>2, PathWords, <1>1 DEF Fits, AsksFor
      <3>2. QED
        BY <1>2, <3>1 DEF AsksFor
    <2>4. QED
      BY <2>2, <2>3 DEF Covers, Fits
  <1>6. \A m \in Matching(c) : m < i => m = 7 /\ i = 11
    BY <1>4, <1>5, OnlyShadow
  <1>7. \E m \in Matching(c) : \A n \in Matching(c) : m <= n
    <2>1. CASE \A n \in Matching(c) : i <= n
      BY <1>4, <2>1
    <2>2. CASE \E n \in Matching(c) : ~ (i <= n)
      <3>1. 7 \in Matching(c) /\ i = 11
        BY <1>4, <1>6, <2>2
      <3>2. \A n \in Matching(c) : 7 <= n
        BY <1>4, <1>6, <3>1
      <3>3. QED
        BY <3>1, <3>2
    <2>3. QED
      BY <2>1, <2>2
  <1>8. Min(Matching(c)) \in Matching(c) /\ \A n \in Matching(c) : Min(Matching(c)) <= n
    BY <1>7 DEF Min
  <1>9. QED
    BY <1>3, <1>4, <1>6, <1>8 DEF RouteOf

(* What the guards and the dispatch need of the route of a call.           *)
LEMMA RouteFacts ==
    ASSUME NEW c \in Calls
    PROVE  LET got == RouteOf(c)
               meant == Routes[Intended(c)]
           IN  /\ got.auth = meant.auth /\ got.roles = meant.roles /\ got.body = meant.body
               /\ got.body \in BOOLEAN
               /\ got.roles = {} \/ got.auth = "access"
               /\ got.rpc \in {"redirect"} \cup Serves(Callee(got.rpc))
               /\ got.rpc = "redirect" <=> c.meant = "redirect"
               /\ c.meant \notin Shadowed => got.rpc = c.meant
               /\ got.rpc \in NeedsCaller => got.rpc = c.meant
  <1>1. /\ Routes[7].auth = Routes[11].auth /\ Routes[7].roles = Routes[11].roles
        /\ Routes[7].body = Routes[11].body /\ Routes[11].rpc = "getAllCategories"
        /\ Routes[7].rpc = "getProductById"
    BY ProductTable, CategoryTable DEF Route, AdminRoute
  <1>2. PICK m \in 1 .. 22 : /\ RouteOf(c) = Routes[m]
                             /\ m = Intended(c) \/ (m = 7 /\ Intended(c) = 11)
    BY Routed
  <1>3. Intended(c) \in 1 .. 22 /\ Routes[Intended(c)].rpc = c.meant
    BY Routed
  <1>4. QED
    BY <1>1, <1>2, <1>3, TableTyped, TableServed DEF Shadowed, NeedsCaller

-----------------------------------------------------------------------------
Stages == {"idle", "auth", "rbac", "pipe", "forward", "queued", "replying", "unanswered", "done"}

TypeOK ==
    /\ at \in [Request -> Stages]
    /\ call \in [Request -> Calls \cup {None}]
    /\ known \subseteq Request
    /\ work \in [Request -> Seq({Routes[i].rpc : i \in DOMAIN Routes})]
    /\ result \in [Request -> Outcomes \cup {"UNAVAILABLE", None}]
    /\ answer \in [Request -> Nat \cup {None}]
    /\ up \subseteq Services /\ broken \subseteq Services
    /\ died \in [Services -> Nat]
    /\ gateway \in BOOLEAN /\ misses \in Nat

(* A connection breaks only when its service died.                         *)
BrokenByDeath == \A s \in broken : died[s] > 0

(* How often the queue may hand a message out again.                       *)
Again(r) == IF Rpc(r) = "initiateOrder" THEN died["order"] ELSE 0

(* What a request has done, at each stage.                                 *)
Did(r) ==
    /\ at[r] \in {"idle", "auth", "rbac", "pipe", "forward"} => work[r] = << >>
    /\ at[r] = "queued" => Rpc(r) = "initiateOrder" /\ Len(work[r]) <= died["order"]
    /\ at[r] = "replying" => work[r] # << >> /\ Rpc(r) # "redirect"
    /\ at[r] # "idle" =>
          /\ call[r] \in Calls
          /\ Len(work[r]) <= 1 + Again(r)
          /\ \A i \in 1 .. Len(work[r]) : work[r][i] = Rpc(r)

(* What the guards have made sure of.                                      *)
Passed(r) ==
    LET meant == Routes[Intended(call[r])]
        auth == meant.auth \in {None, call[r].token}
        role == meant.roles = {} \/ call[r].role \in meant.roles
    IN  /\ at[r] = "rbac" => auth /\ (meant.auth = None \/ r \in known)
        /\ at[r] = "pipe" => auth /\ role
        /\ at[r] \in {"forward", "queued", "replying", "unanswered"} => Entitled(call[r])
        /\ work[r] # << >> => Entitled(call[r])

(* What its status and its answer are worth.                               *)
Told(r) ==
    /\ result[r] = "OK" => work[r] # << >>
    /\ result[r] = "UNAVAILABLE" => at[r] # "idle" /\ died[Callee(Rpc(r))] > 0
    /\ result[r] = "UNAUTHENTICATED" => at[r] # "idle" /\ Rpc(r) \in NeedsCaller
    /\ at[r] = "replying" => result[r] # None
    /\ answer[r] \in {None, Cut} \/ at[r] = "done"
    /\ answer[r] \in {200, 201} => result[r] = "OK"
    /\ answer[r] # 405
    /\ answer[r] = 404 => result[r] = "NOT_FOUND"
    /\ answer[r] = 502 => died[Callee(Rpc(r))] > 0
    /\ answer[r] \in {400, 403} => ~ Entitled(call[r])
    /\ answer[r] = 401 => work[r] = << >> \/ result[r] = "UNAUTHENTICATED"
    /\ at[r] = "done" =>
          \/ answer[r] = 401 \/ ~ NobodyDied \/ ~ Entitled(call[r])
          \/ Len(work[r]) = (IF call[r].meant = "redirect" THEN 0 ELSE 1)

Good(r) == Did(r) /\ Passed(r) /\ Told(r)

IInv == TypeOK /\ BrokenByDeath /\ \A r \in Request : Good(r)

-----------------------------------------------------------------------------
(* A step touches nothing of the other requests.                           *)
LEMMA OthersKept ==
    ASSUME NEW r \in Request, Good(r),
           at'[r] = at[r], call'[r] = call[r], work'[r] = work[r], r \in known' <=> r \in known,
           result'[r] = result[r], answer'[r] = answer[r], died' = died
    PROVE  Good(r)'
  BY DEF Good, Did, Passed, Told, Again, Rpc, RouteFor, NobodyDied, Entitled

LEMMA InitGood == Init => IInv
  <1> SUFFICES ASSUME Init PROVE IInv
    OBVIOUS
  <1>1. TypeOK
    BY DEF Init, TypeOK, Stages
  <1>2. BrokenByDeath
    BY DEF Init, BrokenByDeath
  <1>3. ASSUME NEW r \in Request PROVE Good(r)
    <2>1. Len(<< >>) = 0 
      OBVIOUS
    <2>2. /\ at[r] = "idle" /\ work[r] = << >> /\ result[r] = None /\ answer[r] = None
      BY DEF Init
    <2>3. Did(r)
      BY <2>2 DEF Did
    <2>4. Passed(r)
      BY <2>2 DEF Passed
    <2>5. Told(r)
      BY <2>2, NoneAssumption DEF Told, Cut, Outcomes
    <2>6. QED
      BY <2>3, <2>4, <2>5 DEF Good
  <1>4. QED
    BY <1>1, <1>2, <1>3 DEF IInv

-----------------------------------------------------------------------------
(* A request moves to a stage, with or without an answer.                  *)
Moves(r) ==
    \/ \E stage \in Stages : Goto(r, stage) /\ answer' = answer
    \/ \E status \in Nat : Answer(r, status)

LEMMA MovesTyped ==
    ASSUME TypeOK, NEW r \in Request, Moves(r)
    PROVE  /\ at' \in [Request -> Stages]
           /\ answer' \in [Request -> Nat \cup {None}]
  BY DEF Moves, Answer, Goto, TypeOK, Stages

(* What a step of one request does to the others.                          *)
LEMMA OneMoves ==
    ASSUME TypeOK, NEW q \in Request, NEW r \in Request, r # q,
           Step(q) \/ \E c \in Calls : Arrive(q, c)
    PROVE  /\ at'[r] = at[r] /\ call'[r] = call[r] /\ work'[r] = work[r]
           /\ (r \in known' <=> r \in known)
           /\ result'[r] = result[r] /\ answer'[r] = answer[r] 
  <1> USE DEF TypeOK, Goto, Answer
  <1>1. CASE \E c \in Calls : Arrive(q, c)
    BY <1>1 DEF Arrive
  <1>2. CASE AuthPasses(q) \/ AuthRefuses(q) \/ Verify(q) \/ VerifyThrows(q)
    BY <1>2 DEF AuthPasses, AuthRefuses, Verify, VerifyThrows
  <1>3. CASE RbacGuard(q) \/ Pipe(q) \/ Redirect(q) \/ Unavailable(q) \/ Publish(q) \/ Reply(q)
    BY <1>3 DEF RbacGuard, Pipe, Redirect, Unavailable, Publish, Reply
  <1>4. CASE Handle(q) \/ Consume(q)
    BY <1>4 DEF Handle, Consume, Run
  <1>5. QED
    BY <1>1, <1>2, <1>3, <1>4 DEF Step

LEMMA ServicesStay ==
    ASSUME NEW q \in Request, Step(q) \/ \E c \in Calls : Arrive(q, c)
    PROVE  UNCHANGED <<services, gateway, misses>>
  BY DEF Step, Arrive, AuthPasses, AuthRefuses, Verify, VerifyThrows, RbacGuard, Pipe, Redirect,
     Handle, Consume, Run, Unavailable, Publish, Reply, Elsewhere

LEMMA Dispatched ==
    ASSUME NEW r \in Request, call[r] \in Calls, Rpc(r) # "redirect"
    PROVE  Implemented(r)
  BY RouteFacts DEF Implemented, Rpc, RouteFor

LEMMA StepTyped ==
    ASSUME IInv, NEW q \in Request, Step(q) \/ \E c \in Calls : Arrive(q, c)
    PROVE  TypeOK'
  <1> TypeOK /\ Good(q)
    BY DEF IInv
  <1>1. /\ up' \subseteq Services /\ broken' \subseteq Services /\ died' \in [Services -> Nat]
        /\ gateway' \in BOOLEAN /\ misses' \in Nat
    BY ServicesStay DEF TypeOK, services
  <1>2. CASE \E c \in Calls : Arrive(q, c)
    <2>1. Moves(q)
      BY <1>2 DEF Arrive, Moves, Stages
    <2>2. QED
      BY <1>1, <1>2, <2>1, MovesTyped DEF TypeOK, Arrive
  <1>3. CASE AuthPasses(q) \/ AuthRefuses(q) \/ Verify(q) \/ VerifyThrows(q)
    <2>1. Moves(q)
      BY <1>3 DEF AuthPasses, AuthRefuses, Verify, VerifyThrows, Moves, Stages
    <2>2. known' \subseteq Request /\ UNCHANGED <<call, work, result>>
      BY <1>3 DEF AuthPasses, AuthRefuses, Verify, VerifyThrows, TypeOK
    <2>3. QED
      BY <1>1, <2>1, <2>2, MovesTyped DEF TypeOK
  <1>4. CASE RbacGuard(q) \/ Pipe(q) \/ Redirect(q) \/ Unavailable(q) \/ Publish(q) \/ Reply(q)
    <2>1. Moves(q)
      BY <1>4 DEF RbacGuard, Pipe, Redirect, Unavailable, Publish, Reply, Moves, Stages,
         Success, Http
    <2>2. UNCHANGED <<call, known, work, result>>
      BY <1>4 DEF RbacGuard, Pipe, Redirect, Unavailable, Publish, Reply
    <2>3. QED
      BY <1>1, <2>1, <2>2, MovesTyped DEF TypeOK
  <1>5. CASE Handle(q) \/ Consume(q)
    <2>1. Implemented(q) /\ Run(q)
      BY <1>5, Dispatched DEF Handle, Consume, Good, Did, In
    <2>2. Rpc(q) \in {Routes[i].rpc : i \in DOMAIN Routes}
      <3>1. call[q] \in Calls
        BY <1>5 DEF Good, Did, Handle, Consume, In
      <3>2. PICK m \in 1 .. 22 : RouteOf(call[q]) = Routes[m]
        BY <3>1, Routed
      <3>3. QED
        BY <3>2, Joined DEF Rpc, RouteFor
    <2>3. work' \in [Request -> Seq({Routes[i].rpc : i \in DOMAIN Routes})]
      BY <2>1, <2>2 DEF Run, TypeOK
    <2>4. result' \in [Request -> Outcomes \cup {"UNAVAILABLE", None}]
      BY <2>1 DEF Run, TypeOK, OutcomesOf
    <2>5. QED
      BY <1>1, <2>1, <2>3, <2>4 DEF Run, TypeOK, Goto, Stages
  <1>6. QED
    BY <1>2, <1>3, <1>4, <1>5 DEF Step

-----------------------------------------------------------------------------
(* A step keeps what it says of its own request.                           *)
LEMMA ArriveGood ==
    ASSUME IInv, NEW r \in Request, NEW c \in Calls, Arrive(r, c)
    PROVE  Good(r)'
  <1>1. Matching(c) # {}
    BY Routed
  <1>2. /\ at'[r] = "auth" /\ call'[r] = c /\ work'[r] = << >> /\ answer'[r] = answer[r]
        /\ result'[r] = result[r] /\ died' = died /\ at[r] = "idle"
    BY <1>1 DEF Arrive, IInv, TypeOK, Good, Did, Goto, Elsewhere, services
  <1>3. Did(r)'
    BY <1>2 DEF Did, Again, TypeOK, IInv, Services
  <1>4. Passed(r)'
    BY <1>2 DEF Passed
  <1>5. Told(r)'
    <2>1. Told(r) /\ Did(r)
      BY DEF IInv, Good
    <2>2. /\ result[r] \notin {"OK", "UNAVAILABLE", "UNAUTHENTICATED"}
          /\ answer[r] \in {None, Cut}
      BY <1>2, <2>1 DEF Told, Did
    <2>3. answer[r] \notin {200, 201, 400, 401, 403, 404, 405, 502}
      BY <2>2, NoneAssumption DEF Cut
    <2>4. QED
      BY <1>2, <2>2, <2>3 DEF Told
  <1>6. QED
    BY <1>3, <1>4, <1>5 DEF Good

LEMMA RouteOfHeld ==
    ASSUME IInv, NEW r \in Request, at[r] # "idle"
    PROVE  LET meant == Routes[Intended(call[r])]
           IN  /\ call[r] \in Calls
               /\ RouteFor(r).auth = meant.auth /\ RouteFor(r).roles = meant.roles
               /\ RouteFor(r).body = meant.body
               /\ meant.roles = {} \/ meant.auth = "access"
               /\ Rpc(r) = "redirect" <=> call[r].meant = "redirect"
  BY RouteFacts DEF IInv, Good, Did, RouteFor, Rpc

(* The stages before the call.                                             *)
LEMMA GuardsGood ==
    ASSUME IInv, NEW r \in Request,
           \/ AuthPasses(r) \/ AuthRefuses(r) \/ Verify(r) \/ VerifyThrows(r) \/ RbacGuard(r)
           \/ Pipe(r)
    PROVE  Good(r)'
  <1> DEFINE meant == Routes[Intended(call[r])]
  <1>1. /\ call' = call /\ work' = work /\ result' = result /\ died' = died
        /\ at[r] \in {"auth", "rbac", "pipe"} /\ answer[r] = None
    BY DEF AuthPasses, AuthRefuses, Verify, VerifyThrows, Asks, RbacGuard, Pipe, Elsewhere,
       services, In
  <1>2. /\ call[r] \in Calls /\ work[r] = << >> /\ Good(r) /\ TypeOK
        /\ RouteFor(r).auth = meant.auth /\ RouteFor(r).roles = meant.roles
        /\ RouteFor(r).body = meant.body
        /\ meant.roles = {} \/ meant.auth = "access"
    BY <1>1, RouteOfHeld DEF IInv, Good, Did
  <1>3. \/ at'[r] = "rbac" /\ answer' = answer /\ meant.auth \in {None, call[r].token}
           /\ (meant.auth = None \/ r \in known')
        \/ at'[r] = "pipe" /\ answer' = answer /\ at[r] = "rbac"
           /\ (meant.roles = {} \/ call[r].role \in meant.roles)
        \/ at'[r] = "forward" /\ answer' = answer /\ at[r] = "pipe"
           /\ (meant.body => call[r].valid)
        \/ at'[r] = "done" /\ answer'[r] \in {400, 401, 403}
           /\ (Entitled(call[r]) => answer'[r] = 401)
    <2>1. CASE AuthPasses(r)
      BY <1>1, <1>2, <2>1 DEF AuthPasses, TypeOK, Goto
    <2>2. CASE AuthRefuses(r)
      BY <1>1, <1>2, <2>2 DEF AuthRefuses, TypeOK, Goto, Answer, Entitled
    <2>3. CASE Verify(r)
      BY <1>1, <1>2, <2>3 DEF Verify, Asks, TypeOK, Goto
    <2>4. CASE VerifyThrows(r)
      BY <1>1, <1>2, <2>4 DEF VerifyThrows, Asks, TypeOK, Goto, Answer
    <2>5. CASE RbacGuard(r)
      <3>1. CASE RouteFor(r).roles = {} \/ (r \in known /\ call[r].role \in RouteFor(r).roles)
        BY <1>1, <1>2, <2>5, <3>1 DEF RbacGuard, TypeOK, Goto, In
      <3>2. CASE ~ (RouteFor(r).roles = {} \/ (r \in known /\ call[r].role \in RouteFor(r).roles))
        <4>1. at'[r] = "done" /\ answer'[r] = 403
          BY <1>1, <1>2, <2>5, <3>2 DEF RbacGuard, TypeOK, Answer, Goto
        <4>2. meant.auth # None
          BY <1>2, <3>2, NoneAssumption
        <4>3. r \in known
          BY <1>2, <2>5, <4>2 DEF RbacGuard, In, Good, Passed
        <4>4. ~ Entitled(call[r])
          BY <1>2, <3>2, <4>3 DEF Entitled
        <4>5. QED
          BY <4>1, <4>4
      <3>3. QED
        BY <3>1, <3>2
    <2>6. CASE Pipe(r)
      BY <1>1, <1>2, <2>6 DEF Pipe, TypeOK, Goto, Answer, Entitled, In
    <2>7. QED
      BY <2>1, <2>2, <2>3, <2>4, <2>5, <2>6
  <1>4. Did(r)'
    BY <1>1, <1>2, <1>3 DEF Did, Again, TypeOK, Services
  <1>5. Passed(r)'
    BY <1>1, <1>2, <1>3 DEF Good, Passed, Entitled
  <1>6. Told(r)'
    <2>1. /\ Rpc(r)' = Rpc(r) /\ NobodyDied' = NobodyDied
          /\ Entitled(call[r])' = Entitled(call[r])
      BY <1>1 DEF Rpc, RouteFor, NobodyDied, Entitled
    <2>3. Told(r) /\ result[r] # "OK"
      BY <1>2 DEF Good, Told
    <2>4. CASE at'[r] \in {"rbac", "pipe", "forward"} /\ answer' = answer
      BY <1>1, <2>1, <2>3, <2>4, NoneAssumption DEF Told, Cut
    <2>5. CASE /\ at'[r] = "done" /\ answer'[r] \in {400, 401, 403}
               /\ Entitled(call[r]) => answer'[r] = 401
      BY <1>1, <1>2, <2>1, <2>3, <2>5 DEF Told, Cut
    <2>6. QED
      BY <1>3, <2>4, <2>5
  <1>7. QED
    BY <1>4, <1>5, <1>6 DEF Good

(* The call and its answer.                                                *)
LEMMA RedirectGood ==
    ASSUME IInv, NEW r \in Request, Redirect(r)
    PROVE  Good(r)'
  <1>1. /\ call' = call /\ work' = work /\ result' = result /\ died' = died
        /\ at[r] = "forward" /\ at'[r] = "done" /\ answer'[r] = 302
        /\ Good(r) /\ work[r] = << >> /\ call[r] \in Calls
    BY DEF Redirect, Elsewhere, services, In, Answer, Goto, IInv, TypeOK, Good, Did
  <1>2. call[r].meant = "redirect"
    BY <1>1, RouteOfHeld DEF Redirect
  <1>3. Did(r)'
    BY <1>1 DEF Good, Did, Again, Rpc, RouteFor
  <1>4. Passed(r)'
    BY <1>1 DEF Good, Passed, Entitled
  <1>5. Told(r)'
    BY <1>1, <1>2, NoneAssumption DEF Good, Told, Cut, NobodyDied, Rpc, RouteFor
  <1>6. QED
    BY <1>3, <1>4, <1>5 DEF Good

LEMMA UnavailableGood ==
    ASSUME IInv, NEW r \in Request, Unavailable(r)
    PROVE  Good(r)'
  <1>1. /\ call' = call /\ work' = work /\ result' = result /\ died' = died
        /\ at[r] = "forward" /\ at'[r] = "done" /\ answer'[r] = 502
        /\ Good(r) /\ work[r] = << >> /\ call[r] \in Calls
    BY DEF Unavailable, Elsewhere, services, In, Answer, Goto, IInv, TypeOK, Good, Did, Http
  <1>2. died[Callee(Rpc(r))] > 0 /\ ~ NobodyDied
    BY DEF Unavailable, IInv, BrokenByDeath, NobodyDied, TypeOK
  <1>3. Did(r)'
    BY <1>1 DEF Good, Did, Again, Rpc, RouteFor
  <1>4. Passed(r)'
    BY <1>1 DEF Good, Passed, Entitled
  <1>5. Told(r)'
    BY <1>1, <1>2, NoneAssumption DEF Good, Told, Cut, NobodyDied, Rpc, RouteFor
  <1>6. QED
    BY <1>3, <1>4, <1>5 DEF Good

LEMMA PublishGood ==
    ASSUME IInv, NEW r \in Request, Publish(r)
    PROVE  Good(r)'
  <1>1. /\ call' = call /\ work' = work /\ result' = result /\ died' = died /\ answer' = answer
        /\ at[r] = "forward" /\ at'[r] = "queued" /\ Rpc(r) = "initiateOrder"
        /\ Good(r) /\ work[r] = << >> /\ call[r] \in Calls
    BY DEF Publish, Elsewhere, services, In, Goto, IInv, TypeOK, Good, Did
  <1>2. died["order"] \in Nat
    BY DEF IInv, TypeOK, Services
  <1>3. Did(r)'
    BY <1>1, <1>2 DEF Good, Did, Again, Rpc, RouteFor
  <1>4. Passed(r)'
    BY <1>1 DEF Good, Passed, Entitled
  <1>5. Told(r)'
    BY <1>1, NoneAssumption DEF Good, Told, Cut, NobodyDied, Rpc, RouteFor
  <1>6. QED
    BY <1>3, <1>4, <1>5 DEF Good

LEMMA RunGood ==
    ASSUME IInv, NEW r \in Request, Handle(r) \/ Consume(r)
    PROVE  Good(r)'
  <1>1. /\ at[r] \in {"forward", "queued"} /\ call[r] \in Calls /\ Rpc(r) # "redirect"
        /\ Good(r) /\ TypeOK /\ Run(r)
    BY DEF Handle, Consume, In, IInv, Good, Did
  <1>2. Implemented(r)
    BY <1>1, Dispatched
  <1>3. /\ call' = call /\ died' = died /\ answer' = answer
        /\ at'[r] = "replying" /\ work'[r] = Append(work[r], Rpc(r))
        /\ result'[r] \in OutcomesOf(Rpc(r))
    BY <1>1, <1>2 DEF Run, Elsewhere, services, Goto, TypeOK
  <1>4. PICK T : work[r] \in Seq(T) /\ Rpc(r) \in T
    <2>1. work[r] \in Seq({Routes[i].rpc : i \in DOMAIN Routes})
      BY <1>1 DEF TypeOK
    <2>2. work[r] \in Seq({Routes[i].rpc : i \in DOMAIN Routes} \cup {Rpc(r)})
      BY <2>1
    <2>3. QED
      BY <2>2
  <1>5. /\ work'[r] # << >> /\ Len(work'[r]) = Len(work[r]) + 1 /\ Len(work[r]) \in Nat
        /\ \A i \in 1 .. Len(work[r]) : work'[r][i] = work[r][i]
        /\ work'[r][Len(work[r]) + 1] = Rpc(r)
    BY <1>3, <1>4
  <1>6. Len(work[r]) <= Again(r)
    <2>1. CASE at[r] = "queued"
      BY <1>1, <2>1 DEF Good, Did, Again
    <2>2. CASE at[r] = "forward"
      <3>1. Len(work[r]) = 0
        BY <1>1, <2>2 DEF Good, Did
      <3>2. Again(r) >= 0
        BY <1>1 DEF Again, TypeOK, Services
      <3>3. QED
        BY <3>1, <3>2 DEF Again
    <2>3. QED
      BY <1>1, <2>1, <2>2
  <1>7. Did(r)'
    <2>1. Rpc(r)' = Rpc(r) /\ Again(r)' = Again(r) /\ Again(r) \in Nat
      BY <1>1, <1>3 DEF Rpc, RouteFor, Again, TypeOK, Services
    <2>2. \A i \in 1 .. Len(work'[r]) : work'[r][i] = Rpc(r)
      BY <1>1, <1>5 DEF Good, Did
    <2>3. Len(work'[r]) <= 1 + Again(r)
      BY <1>5, <1>6, <2>1
    <2>4. QED
      BY <1>1, <1>3, <1>5, <2>1, <2>2, <2>3 DEF Did
  <1>8. Passed(r)'
    BY <1>1, <1>3 DEF Good, Passed, Entitled
  <1>9. Told(r)'
    <2>1. Rpc(r)' = Rpc(r) /\ Entitled(call[r])' = Entitled(call[r])
      BY <1>3 DEF Rpc, RouteFor, Entitled
    <2>2. /\ result'[r] \in Outcomes
          /\ result'[r] = "UNAUTHENTICATED" => Rpc(r) \in NeedsCaller
      BY <1>3 DEF OutcomesOf, Outcomes
    <2>3. answer'[r] \in {None, Cut} /\ at'[r] # "done" /\ at'[r] # "idle" /\ at[r] # "done"
      BY <1>1, <1>3 DEF Good, Told
    <2>4. QED
      BY <1>3, <1>5, <2>1, <2>2, <2>3, NoneAssumption DEF Told, Cut, Outcomes
  <1>10. QED
    BY <1>7, <1>8, <1>9 DEF Good

LEMMA ReplyGood ==
    ASSUME IInv, NEW r \in Request, Reply(r)
    PROVE  Good(r)'
  <1>0. /\ call' = call /\ work' = work /\ result' = result /\ died' = died
        /\ at[r] = "replying" /\ at'[r] = "done" /\ Good(r) /\ TypeOK
    BY DEF Reply, Elsewhere, services, Answer, Goto, IInv, TypeOK
  <1>1. /\ call' = call /\ work' = work /\ result' = result /\ died' = died
        /\ at[r] = "replying" /\ at'[r] = "done" /\ Good(r) /\ TypeOK /\ work[r] # << >>
        /\ Rpc(r) # "redirect" /\ call[r] \in Calls
        /\ result[r] \in Outcomes \cup {"UNAVAILABLE"}
    BY <1>0 DEF TypeOK, Good, Did, Told
  <1>2. \/ answer'[r] = answer[r] /\ answer[r] = Cut
        \/ answer[r] = None
           /\ answer'[r] = IF result[r] = "OK" THEN Success(call[r].verb) ELSE Http(result[r])
    BY <1>1 DEF Reply, Answer, TypeOK, Good, Told
  <1>3. /\ answer'[r] \in {Cut, 200, 201, 401, 404, 422, 500, 502}
        /\ answer'[r] = 401 => result[r] = "UNAUTHENTICATED"
        /\ answer'[r] = Cut => answer[r] = Cut
        /\ answer'[r] \in {200, 201} => result[r] = "OK"
        /\ answer'[r] = 404 => result[r] = "NOT_FOUND"
        /\ answer'[r] = 502 => result[r] = "UNAVAILABLE"
    BY <1>1, <1>2 DEF Success, Http, Outcomes, Cut
  <1>4. ASSUME NobodyDied PROVE Len(work[r]) = 1
    <2>1. Again(r) = 0
      BY <1>4 DEF NobodyDied, Again, Services
    <2>2. Len(work[r]) <= 1 + Again(r)
      BY <1>1 DEF Good, Did
    <2>3. Len(work[r]) \in Nat /\ Len(work[r]) # 0
      <3>1. work[r] \in Seq({Routes[i].rpc : i \in DOMAIN Routes})
        BY <1>1 DEF TypeOK
      <3>2. QED
        BY <1>1, <3>1, EmptySeq
    <2>4. \A n \in Nat : n # 0 /\ n <= 1 + 0 => n = 1
      OBVIOUS
    <2>5. QED
      BY <2>1, <2>2, <2>3, <2>4
  <1>5. call[r].meant # "redirect"
    BY <1>1, RouteOfHeld
  <1>6. Did(r)'
    BY <1>1 DEF Good, Did, Again, Rpc, RouteFor
  <1>7. Passed(r)'
    BY <1>1 DEF Good, Passed, Entitled
  <1>8. Told(r)'
    BY <1>1, <1>3, <1>4, <1>5 DEF Good, Told, Cut, NobodyDied, Rpc, RouteFor
  <1>9. QED
    BY <1>6, <1>7, <1>8 DEF Good

LEMMA StepGood ==
    ASSUME IInv, NEW q \in Request, Step(q) \/ \E c \in Calls : Arrive(q, c)
    PROVE  IInv'
  <1>1. TypeOK'
    BY StepTyped
  <1>2. died' = died /\ broken' = broken
    BY ServicesStay DEF services
  <1>3. BrokenByDeath'
    BY <1>2 DEF IInv, BrokenByDeath
  <1>4. Good(q)'
    BY ArriveGood, GuardsGood, RedirectGood, UnavailableGood, PublishGood, RunGood, ReplyGood
       DEF Step
  <1>5. ASSUME NEW r \in Request, r # q PROVE Good(r)'
    BY <1>2, <1>5, OneMoves, OthersKept DEF IInv
  <1>6. QED
    BY <1>1, <1>3, <1>4, <1>5 DEF IInv

-----------------------------------------------------------------------------
(* A death: the hit requests lose their answer, the queued ones may run    *)
(* once more.                                                              *)
LEMMA DieGood ==
    ASSUME IInv, NEW s \in Services, Die(s)
    PROVE  IInv'
  <1>1. /\ call' = call /\ known' = known /\ work' = work /\ answer' = answer
        /\ up' \subseteq Services /\ broken' = broken \cup {s} /\ s \in Services
        /\ died' = [died EXCEPT ![s] = @ + 1] /\ gateway' = gateway /\ misses' = misses
        /\ TypeOK
    BY DEF Die, IInv, TypeOK
  <1>2. /\ \A x \in Services : died'[x] >= died[x] /\ died[x] \in Nat /\ died'[x] \in Nat
        /\ died'[s] > 0
    BY <1>1 DEF TypeOK
  <1>3. ~ NobodyDied'
    BY <1>2 DEF NobodyDied
  <1>4. ASSUME NEW r \in Request
        PROVE  \/ at'[r] = at[r] /\ result'[r] = result[r]
               \/ at[r] = "replying" /\ Rpc(r) = "initiateOrder" /\ s = "order"
                  /\ at'[r] \in {"unanswered", "queued"} /\ result'[r] = None
               \/ at[r] = "replying" /\ at'[r] = "replying" /\ result'[r] = "UNAVAILABLE"
                  /\ Callee(Rpc(r)) = s
    BY <1>4, <1>1 DEF Die, TypeOK, Callee
  <1>5. TypeOK'
    <2>1. at' \in [Request -> Stages]
      BY <1>1 DEF Die, TypeOK, Stages
    <2>2. result' \in [Request -> Outcomes \cup {"UNAVAILABLE", None}]
      BY <1>1 DEF Die, TypeOK
    <2>3. QED
      BY <1>1, <2>1, <2>2 DEF TypeOK
  <1>6. BrokenByDeath'
    BY <1>1, <1>2 DEF IInv, BrokenByDeath, TypeOK
  <1>7. ASSUME NEW r \in Request PROVE Good(r)'
    <2>1. Did(r) /\ Passed(r) /\ Told(r)
      BY DEF IInv, Good
    <2>2. Rpc(r)' = Rpc(r) /\ call'[r] = call[r] /\ work'[r] = work[r] /\ answer'[r] = answer[r]
      BY <1>1 DEF Rpc, RouteFor
    <2>3. Again(r)' \in Nat /\ Again(r) \in Nat /\ Again(r) <= Again(r)' /\ Len(work[r]) \in Nat
      BY <1>1, <1>2, <2>2 DEF Again, Services, TypeOK
    <2>4. Did(r)'
      <3>1. CASE at'[r] = at[r] /\ result'[r] = result[r]
        <4>1. at[r] = "queued" => Len(work[r]) <= died'["order"]
          BY <1>2, <2>1, <2>3 DEF Did, Services
        <4>2. at[r] # "idle" => Len(work[r]) <= 1 + Again(r)'
          BY <2>1, <2>3 DEF Did
        <4>3. QED
          BY <2>1, <2>2, <3>1, <4>1, <4>2 DEF Did
      <3>2. CASE at[r] = "replying" /\ Rpc(r) = "initiateOrder" /\ s = "order"
                 /\ at'[r] \in {"unanswered", "queued"}
        <4>1. Len(work[r]) <= 1 + died["order"] /\ died'["order"] = died["order"] + 1
          BY <1>1, <2>1, <3>2 DEF Did, Again, TypeOK
        <4>2. /\ call[r] \in Calls /\ work[r] # << >>
              /\ \A i \in 1 .. Len(work[r]) : work[r][i] = Rpc(r)
          BY <2>1, <3>2 DEF Did
        <4>3. Again(r)' = died'["order"] /\ Len(work[r]) <= died'["order"]
          BY <1>1, <2>2, <2>3, <3>2, <4>1 DEF Again, TypeOK, Services
        <4>4. Len(work[r]) <= 1 + Again(r)'
          BY <2>3, <4>3
        <4>5. QED
          BY <2>2, <3>2, <4>2, <4>3, <4>4 DEF Did
      <3>3. CASE at[r] = "replying" /\ at'[r] = "replying"
        BY <2>1, <2>2, <2>3, <3>3 DEF Did
      <3>4. QED
        BY <1>4, <3>1, <3>2, <3>3
    <2>5. Passed(r)'
      BY <1>1, <1>4, <2>1, <2>2 DEF Passed, Entitled
    <2>6. Told(r)'
      <3>1. at'[r] = "done" => at[r] = "done" /\ result'[r] = result[r]
        BY <1>4
      <3>2. result'[r] = "OK" => result[r] = "OK"
        BY <1>4, NoneAssumption DEF Outcomes
      <3>3. result'[r] = "UNAVAILABLE" => at'[r] # "idle" /\ died'[Callee(Rpc(r))] > 0
        <4>1. Callee(Rpc(r)) \in Services
          BY DEF Callee, Services
        <4>2. QED
          BY <1>2, <1>4, <2>1, <4>1, NoneAssumption DEF Told
      <3>4. at'[r] = "replying" => result'[r] # None
        BY <1>4, <2>1, NoneAssumption DEF Told
      <3>5. answer[r] = 502 => died'[Callee(Rpc(r))] > 0
        <4>1. Callee(Rpc(r)) \in Services
          BY DEF Callee, Services
        <4>2. QED
          BY <1>2, <2>1, <4>1 DEF Told
      <3>6. /\ answer[r] \in {None, Cut} \/ at'[r] = "done"
            /\ answer[r] \in {200, 201} => result'[r] = "OK"
            /\ answer[r] = 404 => result'[r] = "NOT_FOUND"
            /\ answer[r] # 405
            /\ answer[r] = 401 => work[r] = << >> \/ result'[r] = "UNAUTHENTICATED"
        BY <1>4, <2>1, NoneAssumption DEF Told, Cut
      <3>8. result'[r] = "UNAUTHENTICATED" => at'[r] # "idle" /\ Rpc(r) \in NeedsCaller
        BY <1>4, <2>1, NoneAssumption DEF Told, Outcomes
      <3>7. QED
        BY <1>3, <2>1, <2>2, <3>1, <3>2, <3>3, <3>4, <3>5, <3>6, <3>8 DEF Told, Entitled
    <2>7. QED
      BY <2>4, <2>5, <2>6 DEF Good
  <1>8. QED
    BY <1>5, <1>6, <1>7 DEF IInv

LEMMA ProbeFailsGood ==
    ASSUME IInv, ProbeFails
    PROVE  IInv'
  <1>1. /\ at' = at /\ call' = call /\ known' = known /\ work' = work /\ result' = result
        /\ up' = up /\ broken' = broken /\ died' = died /\ TypeOK
    BY DEF ProbeFails, services, IInv
  <1>3. ASSUME NEW r \in Request
        PROVE  answer'[r] = answer[r] \/ (answer'[r] = Cut /\ answer[r] = None /\ at[r] # "done")
    BY <1>1 DEF ProbeFails, Held
  <1>4. /\ answer' \in [Request -> Nat \cup {None}]
        /\ gateway' \in BOOLEAN /\ misses' \in Nat
    <2>1. CASE misses + 1 < Threshold
      BY <1>1, <2>1 DEF ProbeFails, TypeOK
    <2>2. CASE ~ (misses + 1 < Threshold)
      <3>1. /\ answer' = [r \in Request |-> IF Held(r) THEN Cut ELSE answer[r]]
            /\ gateway' = FALSE /\ misses' = 0
        BY <2>2 DEF ProbeFails
      <3>2. answer' \in [Request -> Nat \cup {None}]
        BY <1>1, <3>1 DEF TypeOK, Cut
      <3>3. QED
        BY <3>1, <3>2
    <2>3. QED
      BY <2>1, <2>2
  <1>5. TypeOK'
    BY <1>1, <1>4 DEF TypeOK
  <1>6. BrokenByDeath'
    BY <1>1 DEF IInv, BrokenByDeath
  <1>7. ASSUME NEW r \in Request PROVE Good(r)'
    <2>1. CASE answer'[r] = answer[r]
      BY <1>1, <2>1, OthersKept DEF IInv
    <2>2. CASE answer'[r] = Cut /\ answer[r] = None /\ at[r] # "done"
      <3>1. Did(r)' /\ Passed(r)'
        BY <1>1 DEF IInv, Good, Did, Passed, Again, Rpc, RouteFor, Entitled
      <3>2. Told(r)'
        BY <1>1, <2>2 DEF IInv, Good, Told, Cut, NobodyDied, Rpc, RouteFor, Entitled
      <3>3. QED
        BY <3>1, <3>2 DEF Good
    <2>3. QED
      BY <1>3, <2>1, <2>2
  <1>8. QED
    BY <1>5, <1>6, <1>7 DEF IInv

LEMMA RestGood ==
    ASSUME IInv,
           \/ \E s \in Services : Restart(s) \/ Reconnect(s)
           \/ ProbePasses \/ GatewayRestarts \/ UNCHANGED vars
    PROVE  IInv'
  <1>1. UNCHANGED <<request, died>> /\ broken' \subseteq broken
    BY DEF Restart, Reconnect, ProbePasses, GatewayRestarts, vars, services
  <1>2. TypeOK'
    <2>1. /\ up' \subseteq Services /\ broken' \subseteq Services
          /\ gateway' \in BOOLEAN /\ misses' \in Nat
      <3>1. CASE \E s \in Services : Restart(s) \/ Reconnect(s)
        BY <3>1 DEF IInv, TypeOK, Restart, Reconnect
      <3>2. CASE ProbePasses
        BY <3>2 DEF IInv, TypeOK, ProbePasses, services
      <3>3. CASE GatewayRestarts
        BY <3>3 DEF IInv, TypeOK, GatewayRestarts, services
      <3>4. CASE UNCHANGED vars
        BY <3>4 DEF IInv, TypeOK, vars, services
      <3>5. QED
        BY <3>1, <3>2, <3>3, <3>4
    <2>2. QED
      BY <1>1, <2>1 DEF IInv, TypeOK, request
  <1>3. BrokenByDeath'
    BY <1>1 DEF IInv, BrokenByDeath
  <1>4. ASSUME NEW r \in Request PROVE Good(r)'
    BY <1>1, OthersKept DEF IInv, request
  <1>5. QED
    BY <1>2, <1>3, <1>4 DEF IInv

(* The invariant holds whatever the guards, the services, the probes and   *)
(* the deaths do (auth.guard, rbac.guard, health.controller, filters).     *)
THEOREM Invariance == Spec => []IInv
  <1>1. IInv /\ [Next]_vars => IInv'
    BY StepGood, DieGood, ProbeFailsGood, RestGood DEF Next
  <1>2. QED
    BY InitGood, <1>1, PTL DEF Spec

-----------------------------------------------------------------------------
(* No call is made twice whatever its caller is told; only a message of    *)
(* order-queue runs again, once for each death of the order service        *)
(* (gateway.order.service, 25-39).                                         *)
THEOREM CallsAreMadeOnce == Spec => []CalledOnce
  <1>1. IInv => CalledOnce
    <2> SUFFICES ASSUME IInv, NEW r \in Request
                 PROVE  Len(work[r]) <= 1 + (IF Len(work[r]) > 0 /\ work[r][1] = "initiateOrder"
                                             THEN died["order"] ELSE 0)
      BY DEF CalledOnce
    <2>1. Len(work[r]) \in Nat /\ died["order"] \in Nat
      BY DEF IInv, TypeOK, Services
    <2>2. CASE Len(work[r]) = 0
      BY <2>1, <2>2
    <2>3. CASE Len(work[r]) > 0
      <3>1. at[r] # "idle"
        BY <2>3 DEF IInv, Good, Did
      <3>2. work[r][1] = Rpc(r) /\ Len(work[r]) <= 1 + Again(r)
        BY <2>1, <2>3, <3>1 DEF IInv, Good, Did
      <3>3. QED
        BY <2>1, <3>2 DEF Again
    <2>4. QED
      BY <2>1, <2>2, <2>3
  <1>2. QED
    BY Invariance, <1>1, PTL

(* A client reads 200 or 201 only after the method ran and returned        *)
(* (http.success.interceptor, 7-22; the catch blocks of the gateway's      *)
(* services throw).                                                        *)
THEOREM SuccessesAreTrue == Spec => []SuccessIsTrue
  <1>1. IInv => SuccessIsTrue
    BY DEF IInv, Good, Told, SuccessIsTrue
  <1>2. QED
    BY Invariance, <1>1, PTL

(* A 502 comes from a death of the callee and no other service, and a 401  *)
(* either kept the call in the gateway or is the word of one of the two    *)
(* methods that look for the caller's row (auth.guard, 31-47;              *)
(* http.rpc.exception; user.service, 86 and 232).                          *)
THEOREM OutagesHaveCauses == Spec => []OutagesExplained
  <1>1. IInv => OutagesExplained
    <2> SUFFICES ASSUME IInv, NEW r \in Request
                 PROVE  /\ answer[r] = 502 => died[Callee(Rpc(r))] > 0
                        /\ answer[r] = 401 /\ work[r] # << >> =>
                              call[r].meant \in NeedsCaller /\ result[r] = "UNAUTHENTICATED"
      BY DEF OutagesExplained
    <2>1. Told(r) /\ Did(r)
      BY DEF IInv, Good
    <2>2. ASSUME answer[r] = 401, work[r] # << >>
          PROVE  call[r].meant \in NeedsCaller /\ result[r] = "UNAUTHENTICATED"
      <3>1. result[r] = "UNAUTHENTICATED" /\ Rpc(r) \in NeedsCaller /\ call[r] \in Calls
        BY <2>1, <2>2 DEF Told, Did
      <3>2. call[r].meant = Rpc(r)
        BY <3>1, RouteFacts DEF Rpc, RouteFor
      <3>3. QED
        BY <3>1, <3>2
    <2>3. QED
      BY <2>1, <2>2 DEF Told
  <1>2. QED
    BY Invariance, <1>1, PTL

(* Nothing reaches a service that the guards and the pipe of the intended  *)
(* route would refuse, they refuse nothing else but for a 401, and what    *)
(* passed them has run once when it is answered, while no service dies     *)
(* (auth.guard, rbac.guard, the ValidationPipe).                           *)
THEOREM GuardsAreDecisive == Spec => []GuardsDecide
  <1>1. IInv => GuardsDecide
    BY DEF IInv, Good, Passed, Told, GuardsDecide
  <1>2. QED
    BY Invariance, <1>1, PTL

(* A request runs the method its author wrote the route for, on a service  *)
(* that registers it, and is refused as unknown by none; only              *)
(* GET /product/category goes to the handler of GET /product/:id           *)
(* (gateway.product.controller, 46 and 85).                                *)
THEOREM RequestsAreServedAsMeant == Spec => []ServedAsMeant
  <1>1. IInv => ServedAsMeant
    <2> SUFFICES ASSUME IInv, NEW r \in Request, at[r] # "idle", call[r].meant \notin Shadowed
                 PROVE  /\ \A i \in DOMAIN work[r] : work[r][i] = call[r].meant
                        /\ answer[r] # 405
                        /\ answer[r] = 404 => result[r] = "NOT_FOUND"
      BY DEF ServedAsMeant
    <2>1. Rpc(r) = call[r].meant
      BY RouteFacts DEF IInv, Good, Did, Rpc, RouteFor
    <2>2. DOMAIN work[r] = 1 .. Len(work[r])
      BY DEF IInv, TypeOK
    <2>3. QED
      BY <2>1, <2>2 DEF IInv, Good, Did, Told
  <1>2. QED
    BY Invariance, <1>1, PTL
=============================================================================
