----------------------------- MODULE GatewayMC ------------------------------
(* Each route asked as it should be, and four of them in every wrong way. *)
EXTENDS Gateway

CallOf(route, token, role, valid) ==
    [verb |-> route.verb, meant |-> route.rpc,
     path |-> [i \in DOMAIN route.path |-> IF route.path[i] = ":id" THEN "7" ELSE route.path[i]],
     token |-> token, role |-> role, valid |-> valid]

RouteNamed(rpc) == CHOOSE route \in {Routes[i] : i \in DOMAIN Routes} : route.rpc = rpc

Proper == {CallOf(route, route.auth, IF "USER" \in route.roles THEN "USER" ELSE "ADMIN", TRUE) :
             route \in {Routes[i] : i \in DOMAIN Routes}}

Improper == {CallOf(RouteNamed(rpc), token, role, valid) :
               rpc \in {"createProduct", "initiateOrder", "updateUserInfo", "refreshToken"},
               token \in {"access", "refresh", None},
               role \in {"USER", "ADMIN"}, valid \in BOOLEAN}

MCCalls == Proper \cup Improper
=============================================================================
