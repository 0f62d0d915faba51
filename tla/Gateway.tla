------------------------------ MODULE Gateway -------------------------------
(***************************************************************************)
(* The HTTP gateway in front of the services.  A request is routed by the  *)
(* first matching handler of its controller, passes AuthGuard, RbacGuard   *)
(* and the ValidationPipe, and becomes one gRPC call, or for initiateOrder *)
(* a message to order-queue; the error of the callee becomes an HTTP       *)
(* status.  The calls have no deadline and nothing is retried; a call on a *)
(* broken connection fails, and the connection stays broken for a while    *)
(* after the service is back.                                              *)
(*                                                                         *)
(* GET /health asks every service, and the page of Google that the sign-in *)
(* redirects to; it is the gateway's own liveness probe, so that Threshold *)
(* failures in a row, of checks that fail or are slow, kill the gateway    *)
(* and cut the requests in its hands.                                      *)
(*                                                                         *)
(* A service may refuse or fail a call for reasons of its own, and may     *)
(* never answer it.  Connections break only when a service dies, and the   *)
(* broker does not fail.                                                   *)
(***************************************************************************)
EXTENDS Naturals, Sequences, FiniteSets, FiniteSetsExt

CONSTANTS
    Request,
    Calls,          \* what clients may ask
    Threshold,      \* failed probes after which the gateway is killed
    MaxDeaths,      \* bound: deaths of services
    None            \* no call, no answer

ASSUME BoundsAssumption == Threshold \in Nat \ {0} /\ MaxDeaths \in Nat

Services == {"user", "product", "order", "payment", "notification", "google"}

-----------------------------------------------------------------------------
Route(verb, path, auth, roles, body, rpc) ==
    [verb |-> verb, path |-> path, auth |-> auth, roles |-> roles, body |-> body, rpc |-> rpc]

ForAdmin(verb, path, body, rpc) ==
    Route(verb, <<"product">> \o path, "access", {"ADMIN"}, body, rpc)

ForUser(verb, path, body, rpc) ==
    Route(verb, <<"order">> \o path, "access", {"USER"}, body, rpc)

ProductRoutes == <<
    ForAdmin("POST",   << >>,                TRUE,  "createProduct"),
    ForAdmin("GET",    << >>,                TRUE,  "getProducts"),
    ForAdmin("GET",    <<":id">>,            FALSE, "getProductById"),
    ForAdmin("PATCH",  <<":id">>,            TRUE,  "updateProduct"),
    ForAdmin("DELETE", <<":id">>,            FALSE, "deleteProduct"),
    ForAdmin("POST",   <<"category">>,       TRUE,  "createCategory"),
    ForAdmin("GET",    <<"category">>,       FALSE, "getAllCategories"),
    ForAdmin("GET",    <<"category", ":id">>, FALSE, "getCategoryById"),
    ForAdmin("PATCH",  <<"category", ":id">>, TRUE,  "updateCategory"),
    ForAdmin("DELETE", <<"category", ":id">>, FALSE, "deleteCategory"),
    ForAdmin("POST",   <<"presigned-url">>,  TRUE,  "generatePresignedUrl"),
    ForAdmin("GET",    <<"stock", ":id">>,   FALSE, "getStockByProductId"),
    ForAdmin("PATCH",  <<"stock", ":id">>,   TRUE,  "upsertStock")>>

(* Mutant of OrderRoutes: the handler of one order is declared first.      *)
OrderRoutesIdFirst == <<
    ForUser("POST", <<"initiate">>, TRUE,  "initiateOrder"),
    ForUser("POST", <<"complete">>, TRUE,  "completeOrder"),
    ForUser("POST", <<"cancel">>,   TRUE,  "cancelOrder"),
    ForUser("GET",  <<":id">>,      FALSE, "getOrderByIdAndUser"),
    ForUser("GET",  <<"user">>,     FALSE, "getOrdersByUserId")>>

OrderRoutes == <<
    ForUser("POST", <<"initiate">>, TRUE,  "initiateOrder"),
    ForUser("POST", <<"complete">>, TRUE,  "completeOrder"),
    ForUser("POST", <<"cancel">>,   TRUE,  "cancelOrder"),
    ForUser("GET",  <<"user">>,     FALSE, "getOrdersByUserId"),
    ForUser("GET",  <<":id">>,      FALSE, "getOrderByIdAndUser")>>

UserRoutes == <<
    Route("GET",   <<"user">>, "access", {}, FALSE, "getUserInfoByUserId"),
    Route("PATCH", <<"user">>, "access", {}, TRUE,  "updateUserInfo")>>

AuthRoutes == <<
    Route("GET",  <<"auth", "google">>,  None,      {}, FALSE, "redirect"),
    Route("POST", <<"auth", "refresh">>, "refresh", {}, FALSE, "refreshToken")>>

Routes == AuthRoutes \o UserRoutes \o ProductRoutes \o OrderRoutes

Fits(pattern, path) ==
    /\ Len(pattern) = Len(path)
    /\ \A i \in 1 .. Len(path) : pattern[i] \in {path[i], ":id"}

Matching(c) == {i \in DOMAIN Routes : Routes[i].verb = c.verb /\ Fits(Routes[i].path, c.path)}

(* Express tries the handlers in the order they were declared in.          *)
RouteOf(c) == Routes[Min(Matching(c))]

(* The route whose method the author of the call means to reach.           *)
Intended(c) == CHOOSE i \in DOMAIN Routes : Routes[i].rpc = c.meant

Words == UNION {{Routes[i].path[k] : k \in 1 .. Len(Routes[i].path)} : i \in DOMAIN Routes}

(* A call spells the path of a route, with ids where the route has ":id":  *)
(* ids are numbers and UUIDs of rows, never a word of a route.             *)
AsksFor(c, route) ==
    /\ c.verb = route.verb /\ c.meant = route.rpc
    /\ Len(c.path) = Len(route.path)
    /\ \A k \in 1 .. Len(route.path) :
          IF route.path[k] = ":id" THEN c.path[k] \notin Words ELSE c.path[k] = route.path[k]

ASSUME CallsAssumption ==
    \A c \in Calls : c.valid \in BOOLEAN /\ \E i \in DOMAIN Routes : AsksFor(c, Routes[i])

(* The remote methods, as each service registers them.                     *)
ProductMethods == {"createProduct", "getProducts", "getProductById", "updateProduct",
                   "deleteProduct", "generatePresignedUrl"}
CategoryMethods == {"createCategory", "getAllCategories", "getCategoryById", "updateCategory",
                    "deleteCategory"}
StockMethods == {"getStockByProductId", "upsertStock", "createStockReservation",
                 "confirmStockReservation", "restoreStockReservation"}
OrderMethods == {"initiateOrder", "completeOrder", "cancelOrder", "getOrderByIdAndUser",
                 "getOrdersByUserId"}
UserMethods == {"verifyToken", "refreshToken", "getUserInfoByUserId", "updateUserInfo"}

Serves(s) ==
    CASE s = "product" -> ProductMethods \cup CategoryMethods \cup StockMethods
      [] s = "order" -> OrderMethods
      [] s = "user" -> UserMethods
      [] OTHER -> {}

(* The service whose client each of the gateway's services calls through.  *)
Callee(rpc) ==
    CASE rpc \in {"completeOrder", "cancelOrder", "getOrderByIdAndUser", "getOrdersByUserId",
                  "initiateOrder"} -> "order"
      [] rpc \in {"getUserInfoByUserId", "updateUserInfo", "refreshToken"} -> "user"
      [] OTHER -> "product"

(* Mutant of Http: what is not in the map is a bad gateway.                *)
HttpBadGateway(status) ==
    CASE status = "UNAUTHENTICATED" -> 401
      [] status = "NOT_FOUND" -> 404
      [] status = "INVALID_ARGUMENT" -> 422
      [] status = "UNIMPLEMENTED" -> 405
      [] OTHER -> 502

(* grpcToHttpStatusMap, for the errors the services throw.                 *)
Http(status) ==
    CASE status = "UNAUTHENTICATED" -> 401
      [] status = "NOT_FOUND" -> 404
      [] status = "INVALID_ARGUMENT" -> 422
      [] status = "UNAVAILABLE" -> 502
      [] status = "UNIMPLEMENTED" -> 405
      [] OTHER -> 500

Success(verb) == IF verb = "POST" THEN 201 ELSE 200

Outcomes == {"OK", "NOT_FOUND", "INVALID_ARGUMENT", "INTERNAL", "UNAUTHENTICATED"}

(* Two methods of the user service miss the row of the caller that way.    *)
NeedsCaller == {"refreshToken", "updateUserInfo"}

OutcomesOf(rpc) == IF rpc \in NeedsCaller THEN Outcomes ELSE Outcomes \ {"UNAUTHENTICATED"}

ASSUME NoneAssumption == None \notin Nat \cup {"access", "refresh", "UNAVAILABLE"} \cup Outcomes

-----------------------------------------------------------------------------
VARIABLES
    at,         \* how far each request is: idle, auth, rbac, pipe, forward,
                \* queued, replying, unanswered, done
    call,       \* what it asks
    known,      \* the requests whose request.user is set
    work,       \* the remote methods that ran for it, first to last
    result,     \* the gRPC status on its way back
    answer,     \* the HTTP status its client got, Cut when the gateway died
    up,         \* the services that run
    broken,     \* the services whose connections may be broken
    died,       \* how often each service died
    gateway,    \* whether the gateway runs
    misses      \* its failed liveness probes in a row

request == <<at, call, known, work, result, answer>>
services == <<up, broken, died>>
vars == <<request, services, gateway, misses>>

Cut == 0        \* not a status: the connection was closed

Deaths == FoldSet(LAMBDA s, n : died[s] + n, 0, Services)
NobodyDied == \A s \in Services : died[s] = 0

Init ==
    /\ at = [r \in Request |-> "idle"]
    /\ call = [r \in Request |-> None]
    /\ known = {}
    /\ work = [r \in Request |-> << >>]
    /\ result = [r \in Request |-> None]
    /\ answer = [r \in Request |-> None]
    /\ up = Services
    /\ broken = {}
    /\ died = [s \in Services |-> 0]
    /\ gateway = TRUE
    /\ misses = 0

-----------------------------------------------------------------------------
Goto(r, stage) == at' = [at EXCEPT ![r] = stage]

Answer(r, status) ==
    /\ Goto(r, "done")
    /\ answer' = [answer EXCEPT ![r] = IF @ = None THEN status ELSE @]

Elsewhere == UNCHANGED <<services, gateway, misses>>

(* A stage of the gateway, for a request it still holds.                   *)
In(r, stage) == at[r] = stage /\ answer[r] = None

Arrive(r, c) ==
    /\ gateway /\ at[r] = "idle"
    /\ call' = [call EXCEPT ![r] = c]
    /\ IF Matching(c) = {} THEN Answer(r, 404) ELSE Goto(r, "auth") /\ UNCHANGED answer
    /\ UNCHANGED <<known, work, result>> /\ Elsewhere

RouteFor(r) == RouteOf(call[r])

(* A handler without @Auth is open.                                        *)
AuthPasses(r) ==
    /\ In(r, "auth") /\ RouteFor(r).auth = None
    /\ Goto(r, "rbac")
    /\ UNCHANGED <<call, known, work, result, answer>> /\ Elsewhere

(* No bearer token in the header.                                          *)
AuthRefuses(r) ==
    /\ In(r, "auth") /\ RouteFor(r).auth # None /\ call[r].token = None
    /\ Answer(r, 401)
    /\ UNCHANGED <<call, known, work, result>> /\ Elsewhere

Asks(r) == In(r, "auth") /\ RouteFor(r).auth # None /\ call[r].token # None

(* verifyToken of the user service: each kind of token has its own secret. *)
Verify(r) ==
    /\ Asks(r) /\ call[r].token = RouteFor(r).auth
    /\ "user" \in up
    /\ known' = known \cup {r}
    /\ Goto(r, "rbac")
    /\ UNCHANGED <<call, work, result, answer>> /\ Elsewhere

(* Whatever the call throws, the catch block makes it a 401: the wrong     *)
(* token, an outage, but also for the right token of a service that lives: *)
(* a version that is stale in its cache, a fill of the last five minutes   *)
(* of the token, an error of Redis or of the database (TokenCache).        *)
VerifyThrows(r) ==
    /\ Asks(r)
    /\ Answer(r, 401)
    /\ UNCHANGED <<call, known, work, result>> /\ Elsewhere

(* Mutant of RbacGuard: a handler without roles is closed.                 *)
RbacGuardCloses(r) ==
    /\ In(r, "rbac")
    /\ IF r \in known /\ call[r].role \in RouteFor(r).roles
       THEN Goto(r, "pipe") /\ UNCHANGED answer
       ELSE Answer(r, 403)
    /\ UNCHANGED <<call, known, work, result>> /\ Elsewhere

RbacGuard(r) ==
    /\ In(r, "rbac")
    /\ IF RouteFor(r).roles = {} \/ (r \in known /\ call[r].role \in RouteFor(r).roles)
       THEN Goto(r, "pipe") /\ UNCHANGED answer
       ELSE Answer(r, 403)
    /\ UNCHANGED <<call, known, work, result>> /\ Elsewhere

(* The ValidationPipe, on the handlers that take a DTO.                    *)
Pipe(r) ==
    /\ In(r, "pipe")
    /\ IF RouteFor(r).body => call[r].valid
       THEN Goto(r, "forward") /\ UNCHANGED answer
       ELSE Answer(r, 400)
    /\ UNCHANGED <<call, known, work, result>> /\ Elsewhere

Rpc(r) == RouteFor(r).rpc

Redirect(r) ==
    /\ In(r, "forward") /\ Rpc(r) = "redirect"
    /\ Answer(r, 302)
    /\ UNCHANGED <<call, known, work, result>> /\ Elsewhere

Implemented(r) == Rpc(r) \in Serves(Callee(Rpc(r)))

(* The callee runs the method and is about to answer.                      *)
Run(r) ==
    /\ Callee(Rpc(r)) \in up
    /\ work' = [work EXCEPT ![r] = IF Implemented(r) THEN Append(@, Rpc(r)) ELSE @]
    /\ \E o \in IF Implemented(r) THEN OutcomesOf(Rpc(r)) ELSE {"UNIMPLEMENTED"} :
          result' = [result EXCEPT ![r] = o]
    /\ Goto(r, "replying")
    /\ UNCHANGED <<call, known, answer>> /\ Elsewhere

Handle(r) == In(r, "forward") /\ Rpc(r) \notin {"redirect", "initiateOrder"} /\ Run(r)

Unavailable(r) ==
    /\ In(r, "forward") /\ Rpc(r) \notin {"redirect", "initiateOrder"}
    /\ Callee(Rpc(r)) \in broken
    /\ Answer(r, Http("UNAVAILABLE"))
    /\ UNCHANGED <<call, known, work, result>> /\ Elsewhere

(* orderRmqClient.send: the message waits for the service.                 *)
Publish(r) ==
    /\ In(r, "forward") /\ Rpc(r) = "initiateOrder"
    /\ Goto(r, "queued")
    /\ UNCHANGED <<call, known, work, result, answer>> /\ Elsewhere

(* processInitiateOrder (OrderQueue), also for a client that is gone.      *)
Consume(r) == at[r] = "queued" /\ Run(r)

(* Mutant of Reply: a call that was cut off is made again.                 *)
ReplyOrRetry(r) ==
    /\ at[r] = "replying"
    /\ CASE result[r] = "UNAVAILABLE" -> Goto(r, "forward") /\ UNCHANGED answer
         [] result[r] = "OK" -> Answer(r, Success(call[r].verb))
         [] OTHER -> Answer(r, Http(result[r]))
    /\ UNCHANGED <<call, known, work, result>> /\ Elsewhere

(* Mutant of Reply: the catch block does not throw, and the interceptor    *)
(* wraps what it returns.                                                  *)
ReplyAsSuccess(r) ==
    /\ at[r] = "replying"
    /\ Answer(r, Success(call[r].verb))
    /\ UNCHANGED <<call, known, work, result>> /\ Elsewhere

(* Mutant of Reply: an error does not end the wait for the stream.         *)
ReplyOnlyOk(r) ==
    /\ at[r] = "replying" /\ result[r] = "OK"
    /\ Answer(r, Success(call[r].verb))
    /\ UNCHANGED <<call, known, work, result>> /\ Elsewhere

Reply(r) ==
    /\ at[r] = "replying"
    /\ Answer(r, IF result[r] = "OK" THEN Success(call[r].verb) ELSE Http(result[r]))
    /\ UNCHANGED <<call, known, work, result>> /\ Elsewhere

-----------------------------------------------------------------------------
(* A service dies: the gRPC calls it was about to answer fail, a message   *)
(* it had acknowledged stays unanswered, the others return to the queue.   *)
Die(s) ==
    /\ Deaths < MaxDeaths
    /\ s \in up
    /\ up' = up \ {s}
    /\ broken' = broken \cup {s}
    /\ died' = [died EXCEPT ![s] = @ + 1]
    /\ LET hit == {r \in Request : at[r] = "replying" /\ Callee(Rpc(r)) = s}
           waiting == {r \in hit : Rpc(r) = "initiateOrder"}
       IN \E acked \in SUBSET waiting :
            /\ at' = [r \in Request |-> CASE r \in acked -> "unanswered"
                                          [] r \in waiting \ acked -> "queued"
                                          [] OTHER -> at[r]]
            /\ result' = [r \in Request |-> CASE r \in waiting -> None
                                              [] r \in hit \ waiting -> "UNAVAILABLE"
                                              [] OTHER -> result[r]]
    /\ UNCHANGED <<call, known, work, answer, gateway, misses>>

Restart(s) ==
    /\ s \notin up
    /\ up' = up \cup {s}
    /\ UNCHANGED <<request, broken, died, gateway, misses>>

(* The channel's backoff ends and it connects again.                       *)
Reconnect(s) ==
    /\ s \in up \cap broken
    /\ broken' = broken \ {s}
    /\ UNCHANGED <<request, up, died, gateway, misses>>

(* The check of a service says no more than that its process answers.      *)
Serving(s) == s \in up

ProbePasses ==
    /\ gateway /\ \A s \in Services : Serving(s)
    /\ misses' = 0
    /\ UNCHANGED <<request, services, gateway>>

Held(r) == at[r] \notin {"idle", "done"} /\ answer[r] = None

(* One check that fails is enough, or one that is slow: it may take 3 s,   *)
(* and the kubelet waits 1 s for the probe.                                *)
ProbeFails ==
    /\ gateway
    /\ IF misses + 1 < Threshold
       THEN misses' = misses + 1 /\ UNCHANGED <<gateway, answer>>
       ELSE /\ misses' = 0 /\ gateway' = FALSE
            /\ answer' = [r \in Request |-> IF Held(r) THEN Cut ELSE answer[r]]
    /\ UNCHANGED <<at, call, known, work, result, services>>

GatewayRestarts ==
    /\ ~ gateway
    /\ gateway' = TRUE
    /\ UNCHANGED <<request, services, misses>>

-----------------------------------------------------------------------------
Step(r) ==
    \/ AuthPasses(r) \/ AuthRefuses(r) \/ Verify(r) \/ VerifyThrows(r) \/ RbacGuard(r)
    \/ Pipe(r) \/ Redirect(r) \/ Handle(r) \/ Unavailable(r) \/ Publish(r) \/ Consume(r)
    \/ Reply(r)

Next ==
    \/ \E r \in Request : Step(r) \/ \E c \in Calls : Arrive(r, c)
    \/ \E s \in Services : Die(s) \/ Restart(s) \/ Reconnect(s)
    \/ ProbePasses \/ ProbeFails \/ GatewayRestarts

Spec == Init /\ [][Next]_vars

(* What a request gets without the answer of a service that lives.         *)
Own(r) ==
    \/ AuthPasses(r) \/ AuthRefuses(r) \/ RbacGuard(r) \/ Pipe(r) \/ Redirect(r)
    \/ Publish(r) \/ Reply(r) \/ Unavailable(r)
    \/ "user" \in broken /\ VerifyThrows(r)

(* The gateway's own continuations run, and a call on a broken connection  *)
(* fails.  No service has to answer: a call may wait for a connection of   *)
(* an exhausted pool, a message for a consumer that acknowledges no more.  *)
FairSpec == Spec /\ \A r \in Request : WF_vars(Own(r))

-----------------------------------------------------------------------------
(* GET /product/category is taken by the handler of GET /product/:id,      *)
(* declared before it (product.controller, 46 and 85).                     *)
Shadowed == {"getAllCategories"}

(* A request runs the remote method its author wrote the route for, on the *)
(* service that registers it, whatever the order of the handlers, with one *)
(* exception that the code has; nothing is refused as unknown.             *)
ServedAsMeant ==
    \A r \in Request : at[r] # "idle" /\ call[r].meant \notin Shadowed =>
        /\ \A i \in DOMAIN work[r] : work[r][i] = call[r].meant
        /\ answer[r] # 405
        /\ answer[r] = 404 => result[r] = "NOT_FOUND"

Entitled(c) ==
    LET route == Routes[Intended(c)]
    IN  /\ route.auth \in {None, c.token}
        /\ route.roles = {} \/ c.role \in route.roles
        /\ route.body => c.valid

(* Only what the guards and the pipe of the intended route let through     *)
(* reaches a service; they refuse nothing else, but for the 401 of a token *)
(* that could not be verified; and while no service dies, what they let    *)
(* through has run once when it is answered (auth.guard, 16-48;            *)
(* rbac.guard, 11-21).                                                     *)
GuardsDecide ==
    \A r \in Request : at[r] # "idle" =>
        /\ work[r] # << >> => Entitled(call[r])
        /\ answer[r] \in {400, 403} => ~ Entitled(call[r])
        /\ at[r] = "done" /\ answer[r] # 401 /\ NobodyDied /\ Entitled(call[r]) =>
              Len(work[r]) = (IF call[r].meant = "redirect" THEN 0 ELSE 1)

(* What a client may conclude.  A 502 tells that the callee died, never an *)
(* outage of the user service, which the guard hides in a 401 (45-47); and *)
(* a client that is sent to sign in again has lost nothing: its call never *)
(* left the gateway, or its own row is gone.                               *)
OutagesExplained ==
    \A r \in Request :
        /\ answer[r] = 502 => died[Callee(Rpc(r))] > 0
        /\ answer[r] = 401 /\ work[r] # << >> =>
              call[r].meant \in NeedsCaller /\ result[r] = "UNAUTHENTICATED"

(* No call is made twice, whatever its caller is told: only initiateOrder, *)
(* through the queue, runs again after each death of the order service.    *)
CalledOnce ==
    \A r \in Request :
        Len(work[r]) <= 1 + (IF Len(work[r]) > 0 /\ work[r][1] = "initiateOrder"
                             THEN died["order"] ELSE 0)

(* A success status is sent only after the method ran and returned, which  *)
(* is not that all it started is done (product.service 197 awaits no       *)
(* deletion).  The reverse fails: after a 502 or a cut it may have run.    *)
SuccessIsTrue ==
    \A r \in Request :
        answer[r] \in {200, 201} => result[r] = "OK" /\ work[r] # << >>

(* A request that a service can still answer: none of the calls has a      *)
(* deadline, and a message waits for a consumer, or for a reply that an    *)
(* order service took to its death.                                        *)
KeptByCallee(r) ==
    \/ at[r] = "auth" /\ RouteFor(r).auth # None /\ call[r].token # None /\ "user" \in up
    \/ at[r] = "forward" /\ Rpc(r) \notin {"redirect", "initiateOrder"} /\ Callee(Rpc(r)) \in up
    \/ at[r] \in {"queued", "unanswered"}

(* The gateway itself keeps no request: each one ends, with an answer or a *)
(* cut connection, unless a service that lives or the queue keeps it for   *)
(* ever.  A service that dies ends every gRPC call that it kept.           *)
EndsUnlessKept ==
    \A r \in Request : <>[](at[r] = "idle" \/ answer[r] # None \/ KeptByCallee(r))
=============================================================================
