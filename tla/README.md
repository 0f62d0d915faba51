# Formal model of the shop backend

TLA+ modules, TLC configurations and TLAPS proofs for the microservices under
`src/apps` (NestJS, gRPC, RabbitMQ, MySQL, Redis). The subject is what the
services do to shared state when their calls overlap and fail: orders, stock
reservations, payments, the catalog, the order and mail queues, user tokens,
and the gateway in front of them.

File names below are relative to `src/`; line numbers refer to the file named
last. `tlc -config X.cfg M` runs a configuration, `tlapm M.tla` checks proofs.

## 1. The system

### Components, their state and operations

| Component | State | Operations | What makes it correct |
|---|---|---|---|
| Stock (`apps/product/.../stock.service.ts`) | `product_stock` (quantity per product), `product_stock_reservation` (a row per order and product: quantity, status, `expiresAt`) | `createStockReservation`, `confirmStockReservation`, `restoreStockReservation`, `upsertStock` | nothing reserved that is not there, a quantity moves out once and back once, rows keep the stock they refer to |
| Products (`product.service.ts`) | `product`, its images, its category; the connection pool of the process | create, update with images, delete (not awaited), listings | no row refers to one that is gone; the images of a product belong together; every call ends |
| Categories (`category.service.ts`) | rows with a parent | create, update, delete (not awaited) | a deleted category does not come back by itself |
| Payment (`apps/payment`) | a payment per order with a status | `createPayment`, `confirmPayment`, `cancelPayment`, `failPayment` | a payment follows its life cycle |
| Order (`apps/order`) | `order`, `order_item`, the order's status | `processInitiateOrder`, `completeOrder`, `cancelOrder` | order, payment and stock agree; one completion; a canceled order stays so |
| Order queue | RabbitMQ `order-queue`, Redlock key `lock:order:<user>` | publish, deliver, lock, unlock, acknowledge, reply | no order lost, one at a time per user, every one handled, answers that are true |
| Users (`apps/user`) | `user` row with a version, Redis copy `user:payload:<id>`, issued tokens | `verifyToken`, `updateUserInfo`, `issueTokenByUserId`, `findOrCreateUserByGoogle` | a token is refused exactly when the user's row has changed; calls act with the current row |
| Notification (`apps/notification`) | RabbitMQ `mail-worker-queue` | take a mail, send it, acknowledge | the mail of a paid order is tried, and of no other |
| Gateway (`apps/gateway`) | none of its own; gRPC connections, requests in its hands | route, authenticate, authorize, validate, call, map the error; `GET /health` | the right method, for who may call it, once, and a true answer |

### Interaction

A client's order goes from the gateway through RabbitMQ to an instance of the
order service. `processInitiateOrder` takes the user's Redlock, opens a MySQL
transaction, asks the product service for the products and a reservation and
the payment service for a payment, commits, unlocks and acknowledges.
`completeOrder` and `cancelOrder` come by gRPC. Each opens a transaction of the
order database, updates the order row, calls stock and payment over gRPC while
the transaction is open, and commits. Every callee commits by itself. The
compensation of a failed `completeOrder` is its catch block. After the commit
of a complete the order service emits the mail of the order to the mail queue;
an instance of the notification service sends it. The gateway calls
`verifyToken` of the user service for each authenticated request. Kubernetes
probes the gateway with `/health`, which asks every service.

### What is hard

- Transactions read snapshots and write later: *find, then UPDATE by id* in
  every service (`order.service.ts` 191-206, `stock.service.ts` 173-203,
  `payment.service.ts` 45-59).
- One operation spans three databases; a reply may be lost, an instance may
  die, a query may fail between any two of its steps.
- Reservations expire by the clock while a payment is in progress.
- Messages are redelivered; locks expire; an exception outside the `try` block
  skips the acknowledgement.
- A pool of connections is taken twice by one request, in the order service and
  in the product service.
- Deletions of the product service are not awaited: they are answered before
  they happen, and one that fails ends the process.
- The gateway's calls have no deadline; a broken connection hides whether the
  method ran.
- Between the awaits of one call of the user service any other call runs.

`PROJECT.json` lists each hazard with its line and the properties for it.

## 2. Modules

| Module | Models |
|---|---|
| `Stock` | the stock module: rows, the three gRPC transactions, expiry, administrators |
| `StockLedger` | the abstract promise: atomic reserve, confirm, restore |
| `Payment` | the payment service |
| `OrderSaga` | the order service, with `Stock` and `Payment` as instances `S` and `P` |
| `OrderQueue` | delivery, Redlock, order or refusal, acknowledgement, reply, crashes |
| `MailQueue` | the mail of a completed order: emit, delivery, mail server, acknowledgement, crashes |
| `TokenCache` | sign-in, tokens, versions and the Redis copy, for one user |
| `Catalog` | categories, products, images, the connection pool, deletions nobody awaits |
| `Gateway` | the route table, guards, calls, error mapping, health check and liveness probe |
| `*MC` | constants for TLC |
| `*_proofs` | theorems |

### Stock and Payment: a transaction is its read and its commit

MySQL runs at its default level, REPEATABLE READ. A plain `find` reads a
snapshot and locks nothing, so a call is a step that reads (`ConfirmFind`,
`RestoreFind`, `CreateCheckStock`, Payment's `Find`) and a later step that
writes (`ConfirmWrite`, `RestoreWrite`, `CreateInsert`, `Save`). The writes of
one transaction are one step: the first one, `UPDATE ... WHERE orderId = ?` on a
column without an index, locks the whole reservation table until the commit,
and a payment is a single row. What happens between the two steps is what goes
wrong when it does. The write never looks at the status again, as in the code.
`Abort` is a failing query: rolled back, error reply.

Every row of an order is inserted and updated with the others, so one `resv[o]`
stands for them, and `Qty[o][p]` for their quantities, which are assumed to be
whole and positive; the DTO of the gateway (`order.item.dto.ts` 19) only checks
that they are numbers. The clock is the set `expired`: an order enters it at
any time after its reservation. The foreign keys are in `CreateInsert` and
`DeleteProduct`. `at[c]` is how far the call `c` has come; "ok" and "err" are
its replies.

`Stock!Spec` allows any clients; `Stock!SerialSpec` is the clients that the
order service is when nothing fails, customers pay in time and no complete
comes too late. `LedgerSpec` is `StockLedger` over the variables of `Stock`.

### OrderSaga

`pc[r]` is where a run of `processInitiateOrder`, `completeOrder` or
`cancelOrder` is; every action is the code from one reply to the next call.
`lock[o]` is the InnoDB lock of the order row, taken by the UPDATE (`Acquire`)
and kept until commit or rollback; a find ignores it. `paid` is the local
variable `paymentId` of `completeOrder`, on which the compensation depends.
`FailOrder` is the guarded UPDATE of the catch block, on a second connection.
Calls are named by operation and request, since a request makes each kind of
call at most once. `LoseReply`, `QueryFails`, `StockAborts`, `PaymentAborts`
and `Crash` (any set of requests, those of one instance) are the failures; a
callee whose reply is lost works on.

`StockCalls` and `PaymentCalls` are substituted for the `Calls` of the
components, so their actions are used as they are.

### OrderQueue

`pc[k]` follows `processInitiateOrder` from the delivery to the reply. "stuck"
is an instance whose handler threw before its `try` block: with
`prefetchCount: 1` it gets no message again. `lock[u]` is the Redis key: a
holder, nobody, or "orphan" when nobody will delete it and only its ten seconds
end it. `Commit` and `Refuse` stand for the outcome that `OrderSaga` details:
`made[m]` counts the orders a message made, `told[m]` is the first reply that
reached its client, who waits without a timeout. `acquire` of Redlock 5 throws
on failure, so the code's `if (!lock)` is dead. `EveryOrderHandled` excuses one
way of keeping a message, `Skipped`: the handler threw before its `try` and its
client was told of an error. A handler that comes to its end and forgets to
acknowledge is not excused.

### MailQueue

`order[o]` goes from the complete to the mail: "paid" is an instance that has
committed and holds the mail in memory (`emit` is not awaited), "dead" one that
died with it. A worker takes one mail at a time and acknowledges in a finally
block, whatever the mail server said; a mail server may have taken a mail whose
worker died (`WorkerCrash`).

### TokenCache

An action per stretch between two awaits. A row and a token are their version;
0 is a user who never signed in. A sign-in is the strategy's find-or-insert
(`SignInFind`, `SignInInsert`, with the unique key of `providerId`) and then
`issueTokenByUserId`, as a refresh is. How long a token has to live is open at
every verification: `VerifyTooLate` is the negative time to live of a token's
last five minutes, `EndsExactly` allows a time to live of exactly 0, which
`RedisService.set` takes for none. `updateUserInfo` reads TTL before it sets; -2
and -1 make the SET fail. The history variable `alone` says that no call has
begun while another was under way, so that what is promised to a client who
waits for answers and what is left under overlap are checked in one run.

### Catalog

A call is its queries, one action each. `Inside` are the stages that hold a
connection of the pool for a transaction; every other query needs a free one for
its own time (`Free`). `save` of TypeORM is modelled as what it does: it looks
for the row (`SaveReads`), then updates it or, if it is gone, inserts it with
its old id (`SaveUpdates`, `SaveInserts`). For a product whose columns all keep
their values it issues no UPDATE and takes no row lock (`SaveNothing`); the new
images then lock the row only in share mode (`ReplaceImages`), and two such
updates may wait for each other until MySQL fails one (`Deadlock`). Row locks
are derived from where the transactions are (`ProductHeld`, `CategoryHeld`),
foreign keys from `CategoryUsed` and `ProductUsed`. A refused deletion is an
unhandled rejection, and Node exits with every call in progress (`Exit`).
`reserve` is `createStockReservation` as far as the pool is concerned;
`upsertStock` makes the stock row that holds a product. `seen` is what a call
found: the categories there were, or that of its product.

### Gateway

`Routes` is the table of handlers in the order of their declaration, each with
the guard it asks for, its roles, whether it takes a DTO, and the remote method
it calls; `RouteOf` is Express's choice, the first that matches. A request
carries its token, role, whether its body is valid, and `meant`, the method its
author wanted. The stages are AuthGuard, RbacGuard, ValidationPipe, and the
call: `Run` is the method in the callee, `Reply` the way back with
`throwHttpExceptionFromGrpcError`.

A service may do anything with a call. `Run` takes any of the errors its methods
throw, among them the UNAUTHENTICATED of the two methods that miss the row of
their caller (`NeedsCaller`). A verification lets only a right token through
(`Verify`), but may throw for any token at any time (`VerifyThrows`), since the
catch block of the guard makes every error a 401: for a version that a stale
cache says is old, for the negative time to live of a token's last five minutes
(`TokenCache!VerifyTooLate`), for an error of Redis or MySQL. And a service need
not answer at all. `Die` breaks connections, which stay `broken` for a while.
A probe may fail at any time (`ProbeFails`): one service that is down is enough,
or one check that is slow, as checks wait up to 3 s and the kubelet waits 1 s
(the deployment sets no `timeoutSeconds`). `Threshold` failures in a row kill
the gateway, and clients are `Cut`.

## 3. What the runs show

| Run | Question | Answer |
|---|---|---|
| `stock` | does the transactional module implement the atomic ledger for the order service's calls, while administrators delete products and set stock? | yes (`LedgerSpec`); rows keep their stock (`ReservedRowsHaveStock`) |
| `payment` | do repeated confirm, cancel and fail calls keep a payment on its life cycle when they do not overlap? | yes |
| `saga_overlap` | two completes and two cancels of one order in every overlap, a rival order for the same last unit, an order without stock, one consumer: do order and payment agree, is stock deducted once, conserved and never oversold, does the status only go forward, who can take the stock of a paid order? | yes; only the catch block of a late complete |
| `saga_faults` | two failures of any kind, expired reservations: still one completion, still final cancels, and does every request end? | yes |
| `saga_late_complete` | may an order be completed again after it was paid? | it loses its stock (finding 1) |
| `saga_two_consumers` | do several instances work, as the repository's README says? | the last unit is reserved twice (finding 2) |
| `queue_crashes` | two instances, two faults: one order at a time per user, nothing lost, no order made twice for nothing, true answers, and everything acknowledged and answered unless an instance is stuck? | yes |
| `queue_two` | can an instance get stuck without any fault? | yes (finding 3) |
| `token` | two verifications, two sign-ins, an update and a refresh of one user in any overlap: what holds for a client that waits for its answers, and what heals otherwise? | the cache is fresh, calls act with the current row, current tokens are not refused; a stale copy goes away; sign-ins fail only against each other |
| `catalog` | any four of ten calls on two categories and a product: do references hold, are images never mixed, who can bring a category back, does every call end? | yes; an overlapping update; yes, unless the pool is stuck |
| `mail` | are mails sent for paid orders only, tried before they are forgotten, and repeated only after a crash? | yes |
| `gateway` | does a request of any kind get its method, its guards and a true answer, once, while services refuse, fail, die or never answer and the probe kills the gateway? | yes, with the exceptions that the properties name; the gateway itself keeps no request |

A property of each passing run is also checked against a mutant of the code
(the definitions commented "Mutant of"; they are part of no specification).

### Findings

1. `completeOrder` on a paid order: `findOne` with `status: PAYMENT_PENDING`
   finds nothing, the catch block's UPDATE is guarded and changes nothing, but
   `restoreStockReservation` at 256 is not: it releases the stock of the paid
   order. One retried or doubled request is enough.
2. With two instances of the order service each takes a message; the lock is
   per user, and `createStockReservation` checks a snapshot and inserts
   without a lock. Two users get the last unit.
3. An instance that fails to get the lock throws out of `acquireLock` before
   its `try`. The message stays unacknowledged, the instance gets no other.
   The branch that would acknowledge (90-93) is never taken.

### Further divergences

Each of these is the counterexample TLC prints when one line of a passing
configuration or property is changed. They mark how far the passing runs'
assumptions reach.

| Configuration | Change | Violated | What happens |
|---|---|---|---|
| `OrderSagaMC_overlap` | `MaxFaults = 1` | `PaymentAgrees` | the reply of `confirmPayment` is lost, `paymentId` is not set, the order fails and the customer stays charged |
| `OrderSagaMC_overlap` | `MaxFaults = 1` | `NoDoubleDeduction`, `StockConserved` | a complete loses the reply of its confirm and with it the row; the next complete confirms too: both calls found the rows pending, both deduct |
| `OrderSagaMC_overlap` | `MaxFaults = 1` | `StatusForward` | the UPDATE of one of two completes fails (it waited too long for the row, say) and its catch block marks the order failed; the other, which had found it pending, then completes it |
| `OrderSagaMC_overlap` | `MaxFaults = 1` | `StockTakenByLateComplete` | a cancel loses the reply of `restoreStockReservation`: the order is rolled back to paid, its stock is given back |
| `OrderSagaMC_overlap` | `StockConserved` without `NothingUndone` | `StockConserved` | a late complete restores without the row lock while a cancel does: both find CONFIRMED rows, both add |
| `OrderSagaMC_overlap` | `PaysLate = TRUE` | `NoOversell` | a reservation expires, its stock is reserved again, and the first is confirmed nevertheless |
| `OrderSagaMC_faults` | `Connections = 2` | `Answered` | failing completes hold every connection and each waits for a second one |
| `OrderSagaMC_faults` | a second cancel, the property `P!Spec` | `P!Spec` | a confirm of the stock whose reply was lost writes after a cancel has restored, so a second cancel can restore again and refunds while the first refund is in progress; both save CANCELED (`PaymentLives`) |
| `OrderQueueMC_crashes` | `SlowWork = TRUE` | `OneOrderPerUser` | the lock lapses under a slow holder; it is never extended |
| `TokenCacheMC` | `CacheFresh` without `alone` | `CacheFresh` | a verification caches a row it read before an update |
| `TokenCacheMC` | `EndsExactly = TRUE` | `CacheFresh`, `StaleCacheHeals` | the entry has no end, and updates fail after their row is committed |
| `CatalogMC` | `EveryCallEnds` without `PoolStuck` | `EveryCallEnds` | each call that holds a connection waits for one more |
| `GatewayMC` | `Shadowed == {}` | `ServedAsMeant` | `GET /product/category` is taken by `GET /product/:productId`, declared first (`gateway.product.controller.ts` 46, 85); the list of categories is out of reach |
| `GatewayMC` | `KeptByCallee` without "unanswered" | `EndsUnlessKept` | the order service dies between its acknowledgement and its reply; the client of `initiateOrder` waits for ever |
| `GatewayMC` | `KeptByCallee` without "forward" | `EndsUnlessKept` | a service that lives never answers, because its pool is exhausted for good, say; no call has a deadline |

Seen while modelling, and in the models as the code has it:

- On a cache miss `verifyToken` (`user.service.ts` 152-160) does not compare
  the token's version. A token from before an update is accepted then, and what
  it reads is the current row (`WorksWithCurrentRow`). The repository's README
  (83) promises that old tokens expire; its flow chart draws this branch.
- A deletion in the product service that finds nothing (`category.service.ts`
  114) or is refused by a foreign key is an unhandled rejection: the caller was
  told it worked, the process exits (`Exit`), and other callers lose their
  calls.
- `updateProduct` of a product that is deleted meanwhile answers as if it had
  been updated, when it brings no images.
- A failing `verifyToken` call is a 401 (`auth.guard.ts` 45-47): an outage of
  the user service tells clients with good tokens to sign in, and so do an error
  of Redis or MySQL, a stale cached version, and a cache miss in the last five
  minutes of the token. What such a client can rely on is that its call was not
  made (`OutagesExplained`).
- `refreshToken` and `updateUserInfo` answer UNAUTHENTICATED when the row of the
  caller is gone (`user.service.ts` 64, 232), the second after its UPDATE.
- The repository's README (4) claims fault isolation, but the liveness probe of
  the gateway is `/health` (`k8s/msa/templates/gateway/deployment.yaml` 35-44),
  which needs all five services and Google (`gateway.health.controller.ts`
  51-99): one outage kills the gateway, and requests for the others are cut. A
  slow check is enough, with nothing down.
- A client that reads 502, or is cut off, cannot know whether the method ran;
  only the reverse, `SuccessIsTrue`, holds.
- The answer of `initiateOrder` is true only without faults (`AnswerIsTrue`).

### Bounds

- Two products and two orders are enough for two orders to compete for one
  unit and differ in another; `saga_overlap` adds an order for a product
  that has no stock row and may not exist. Per order, two completes and two
  cancels make every pair of operations overlap, with itself too.
- `MaxFaults = 2` lets a second failure hit the handling of the first.
  A request fails at most once in its body and once in its handler.
- `Connections` is one instance's pool (mysql2's default is 10, not changed in
  `app.module.ts`): 10, or 5 when liveness is checked with four requests, is
  more than those requests can ever hold at once, one each and one more.
- `Retries` is 1 or 3 (Redlock's `retryCount: 3`): it only counts attempts.
- `Quantities = {0, 2}`: nothing, or enough for both orders.
- The queue has three messages, two of them of one user, and two instances.
- The mails are of three orders, for two workers: both busy and one waiting;
  two crashes hit a mail and its repetition, or both ends.
- The tokens have one update, one refresh, two sign-ins and two verifications:
  one verification to fill and one to look, and each call meets each other.
- The catalog has two categories and one product; ten calls that meet on them,
  of which any four are made (`MaxCalls`), so that two updates overlap with two
  deletions or a reservation. `Pool = 2` is small on purpose: two calls fill it,
  as ten would fill the pool of ten. One crash besides those that failing
  deletions cause.
- The gateway serves one request: requests share only connections and the life
  of the gateway, and those change by themselves. Every route is asked as it
  should be, and four of them with every wrong token, role and body.
  `Threshold = 2` is the least that makes the count matter (Kubernetes takes 3
  where nothing is set); two deaths break
  one service twice, or two services.
- `CHECK_DEADLOCK FALSE` where the finite sets of requests, messages and calls
  are used up, and then the system rests. The gateway's probe never rests, so
  `GatewayMC` checks for deadlock too.

### Fairness

`OrderSaga!FairSpec`: weak fairness for the steps of a request (Node runs
continuations; MySQL grants a lock that is free, and while a request waits its
competitor ends) and of each callee (a call that arrived is worked on until it
replies). None for arrivals, expiry or failures. `OrderQueue!FairSpec`: weak
fairness of each instance's handler (RabbitMQ delivers to a free consumer) and
of the expiry of a key nobody extends. `MailQueue!FairSpec`: weak fairness of
the publishing client and of each worker (the mail server answers, or the
connection to it times out). `TokenCache!FairSpec`: weak fairness of
continuations and of Redis dropping an entry whose time is over.
`Catalog!FairSpec`: weak fairness of every call that was admitted: queries are
answered, and a connection that stays free goes to a call that waits.
`Gateway!FairSpec`: weak fairness of what the gateway does by itself (`Own`): its
stages, the reply that has come back, the error of a call on a broken
connection. None of services: that a verification, a call or a queued message is
answered is not assumed, since pools may be exhausted (`PoolStuck` in `Catalog`)
and consumers stuck (finding 3); nor of restarts, reconnections, probes or
deaths. A client need never send anything.

## 4. What is proved

For every value of the constants allowed by the modules' assumptions, checked
by TLAPS:

| Theorem | States | Assumes |
|---|---|---|
| `OrderSaga_proofs!Typing` | `[]TypeOK` of the composition | |
| `OrderSaga_proofs!CompletesOnce` | `[]CompletedOnce`, with any failures | |
| `OrderSaga_proofs!CanceledStays` | `CanceledIsFinal`, with any failures | |
| `OrderSaga_proofs!PaymentsAgree`, `OrdersMoveForward`, `OnlyLateCompletesTakeStock` | `[]PaymentAgrees`, `StatusForward`, `[]StockTakenByLateComplete` | `MaxFaults = 0` |
| `OrderSaga_proofs!NothingDeductedTwice`, `StockIsConserved` | `[]NoDoubleDeduction`, `[]StockConserved` | `MaxFaults = 0` |
| `OrderSaga_proofs!NothingOversold` | `[]NoOversell` | `MaxFaults = 0`, `Consumers <= 1`, `PaysLate = FALSE` |
| `OrderSaga_proofs!UsesStock`, `RowsKept` | the composition implements `Stock!Spec`; `[]ReservedRowsHaveStock` there, with any failures | |
| `OrderSaga_proofs!UsesPayment` | the composition implements `Payment!Spec` | `MaxFaults = 0` |
| `OrderSaga_proofs!PaymentLives` | `Payment!Lifecycle` in the composition, with any failures | |
| `Stock_proofs!StockTyping`, `ReservedRowsKept` | `[]TypeOK`, `[]ReservedRowsHaveStock` for any clients and administrators (`Stock!Spec`) | |
| `Stock_proofs!ImplementsLedger` | `SerialSpec => LedgerSpec`: the transactions implement the atomic ledger | |
| `Payment_proofs!PaymentTyping`, `PaymentLife` | `[]TypeOK`, `Lifecycle` | |
| `OrderQueue_proofs!QueueTyping`, `NoMessageLost`, `FurtherOrdersCostFaults`, `AnswersAreTrue` | `[]TypeOK`, `[]NothingLost`, `[]OneOrderPerMessage`, `[]AnswerIsTrue`, with any crashes and lock lives | |
| `OrderQueue_proofs!OneAtATimePerUser` | `[]OneOrderPerUser`, with crashes | `SlowWork = FALSE` |
| `MailQueue_proofs!MailTyping`, `MailsArePaidFor`, `NoMailForgotten`, `CopiesAreCrashes` | `[]TypeOK` and the three invariants of the run | |
| `TokenCache_proofs!FreshBetweenCalls`, `OnlyOldTokensRefused`, `CurrentRowUsed`, `SignInsRace` | `[]CacheFresh`, `RefusedOnlyWhenOld`, `WorksWithCurrentRow`, `SignInFailsOnlyInRace`; the first three promise something only while calls do not overlap (`alone`) | `EndsExactly = FALSE` |
| `Catalog_proofs!CatalogTyping`, `ReferencesHold`, `ImagesAreOfOneCall`, `BackByOverlap` | `[]TypeOK`, `[]RefsIntact`, `[]ImagesOfOneCall`, `BackOnlyByOverlap`, for any calls, pool and crashes | |
| `Gateway_proofs!Invariance`, `CallsAreMadeOnce`, `SuccessesAreTrue`, `OutagesHaveCauses`, `GuardsAreDecisive`, `RequestsAreServedAsMeant` | the inductive invariant of the requests; `[]CalledOnce`, `[]SuccessIsTrue`, `[]OutagesExplained`, `[]GuardsDecide`, `[]ServedAsMeant`, for any requests, refusals, threshold and deaths | |

An empty last column means that nothing is assumed but what the modules state
of their constants. Those assumptions: orders have items with natural numbers
as quantities (`OrderItems`), an order id is generated once
(`RequestsAssumption`, `CallsAssumption`), bounds are natural numbers, and in
`Gateway` every call asks for one of the 22 routes (`CallsAssumption`) and the
value for "nothing" is none of the others (`NoneAssumption`). `Orders` and
`Requests` may be infinite: sums are over the reservations that exist, and the
invariants say that these are finitely many.

The hypotheses are needed: section 3 lists what TLC finds without them, and the
run `saga_two_consumers` is the one for `Consumers <= 1`.

The arguments:

- *One completion* (`Once`). That two completes do not both commit is not
  inductive. The row lock alone does not give it either, because the UPDATE
  does not look at the status. A complete calls `confirmStockReservation` only
  with the row lock (`HoldersLock`, `ConfirmCalledLocked`); a confirm that
  succeeded took the reservation out of PENDING, and nothing brings it back,
  because the order's only create call is over once clients know the order
  (`KnownIsReserved`, `ConfirmedForGood`). So a later complete's confirm call
  finds no row (`LoserFindsNothing`), and it cannot get on to its commit
  (`WonOnce`). It is the stock service that keeps orders from being paid
  twice.
- *Canceled orders* (`Sealed`). On top of `Once`: an order that is paid or
  canceled has no PENDING reservation, so no complete that is not past its
  confirm call can pass it; the only way to change such an order is a cancel.
- *Agreement* (`Agreement`). Without failures the payment service works only
  for requests that wait for it (`CallsAwaited`), and those hold the row
  (`OnlyHoldersLock`); the two databases differ only between the charge or
  refund and the commit of the holder (`AgreeOrSettled`).
- *Forward* (`Forward`). A complete commits what its confirm call saw pending
  and a cancel what its payment call saw successful, and each holds the row
  from before that look until the commit (`CompletesPending`, `CancelsPaid`). A
  reservation is PENDING only while its order is (`PendingTogether`). The catch
  block fails a pending order only once the reservation is no longer PENDING
  (`FailsWhatIsOver`), so no complete can pass the order after it.
- *Paid stock* (`Kept`). A reservation is CONFIRMED only for a paid order or
  for the complete that holds the row (`ConfirmedIsPaid`). So a cancel that
  gets its restore has a payment to refund, and the refund succeeds
  (`RestoresPaid`, `PaymentsSucceed`): none gives the stock back and then rolls
  back. What a complete has deducted stays so until its commit, and a paid
  order's stock until a cancel's (`DeductedStays`, `PaidKept`).
- *Reservations* (`Stock_proofs!IInv`). The stock check of a create saw a stock
  row for each item; stock rows are never removed, since deletion is refused
  for products that have one. So the check stays true until the insert.
- *Sums* (`Stock_proofs`). What is reserved or sold of a product is a sum over
  a set of orders (`MapThenSumSet`, which folds with a recursive function over
  the subsets of its set). The function is a CHOOSE of a solution of an
  equation. `SumsExist` shows that every finite set has a solution: otherwise
  there were a smallest number of elements without one (`SmallestNat`), and
  `SummedNext` adds an element to a solution. `TotalSplits`, that one element
  more adds its summand whichever the fold takes first, follows from a smallest
  set for which it fails (`SmallestSet`). No step uses an induction theorem
  with an operator parameter.
- *Ledger* (`SInv`). For serial clients what a call found is still so when it
  writes (`FoundIsStill`), and what a reservation found available is so until
  its rows are there (`CheckedFits`), since the calls that could change it are
  kept apart (`Apart`). So each insert and each pair of UPDATEs is the ledger's
  atomic step, every other step a stutter.
- *Deducted once, conserved* (`Sold`). The saga's clients are not serial: a
  catch block restores without the order row, and may overlap with a cancel. But
  a complete that waits for its confirm and a cancel that waits for its restore
  hold the row (`StockAwaited`, `HoldersLock`). So rows that a confirm found
  pending are so when it writes (`ConfirmSeesPending`), and rows that a cancel's
  restore found confirmed are so too (`CancelSeesConfirmed`), unless a late
  complete has restored them meanwhile (`NothingUndone`). Each deduction then
  goes with one reservation that becomes CONFIRMED and each return with one that
  ceases to be, and the sum changes by that order's items.
- *No oversell* (`Fits`). One consumer makes one reservation at a time
  (`OneInitiate`, `CreatesAwaited`); a confirm takes as much out of the stock
  as out of what is reserved, and a restore only adds. So what the check found
  still fits at the insert (`CheckedFits`).
- *Composition*. `UsesStock` and `UsesPayment` show that the calls of the order
  service are steps that the components allow, which discharges what they were
  verified under alone. `Payment` asks that calls for one payment do not
  overlap; that holds because completes and cancels wait for each other at the
  order row, and nobody knows an order before its initiate is over
  (`SerialCall`). `RowsKept` carries the theorem of `Stock` over.
- *A payment whatever fails* (`ChargedOnce`). With failures its calls do
  overlap, so `UsesPayment` is of no use: a request that is gone leaves its call
  running and the row unlocked. Still, one confirm only is ever made for an
  order (`AskedOnce`), since the next complete finds no PENDING reservation even
  when the one that charged is dead (`OthersFindNothing`, on top of `Once`). So
  a confirm that found the payment pending saves it pending
  (`ConfirmSeesUnpaid`), and refunds that overlap save the same
  (`CancelSeesCharged`).
- *Payments* (`FoundStillHolds`). What a call found is still so when it saves,
  because no other call for the payment runs in between.
- *Queue*. A message waits once, or is in the hands of one consumer
  (`OnePlace`, `Placed`): a redelivery puts back only what is not acknowledged.
  Only a fault takes a message that has made an order back to where it can make
  another (`OrdersCounted`), and until the first fault what is answered, or about
  to be, is what was made (`AnswersCounted`). For the lock: from `TakeLock` to
  `Unlock` the key names the consumer; a crash makes it an orphan, which names
  nobody (`CriticalOwns`).
- *Mails*. Again one place for each mail (`OnePlace`), nowhere before its order
  is paid (`Emitted`); a mail that is handed over again was in the hands of a
  worker that died (`Counted`).
- *Tokens*. As long as calls do not overlap (`alone`), only an update that is
  still running leaves an older version in the cache (`StaleOnlyInUpdate`), and
  what a call read is the current row (`ReadIsCurrent`). A sign-in that found no
  row while there is one has been overtaken by another (`UnknownOrMade`).
- *Catalog*. References: a transaction that has written keeps the category it
  refers to (`CategoryStays`) and the product whose images it replaces
  (`ImagedProductStays`), because deletions wait for the row locks; every other
  write is checked by a foreign key at the write. Who saves a category by its id
  had found it (`FoundWasThere`). The images of one product are replaced
  together, at one commit.

- *Gateway*. The table of routes is spelled out (`OpenTable` to `OrderTable`),
  and of all pairs of its handlers one, `GET /product/:id`, takes paths of
  another, `GET /product/category` (`OnlyShadow`); so the first handler that
  matches is the one the call means, or that one (`Routed`). The invariant then
  says of each request, by its stage, what it has run (`Did`), what its guards
  have made sure of (`Passed`) and what its status is worth (`Told`), and that
  only deaths break connections (`BrokenByDeath`). Of the services it uses only
  that a verification passes no wrong token. A death is the hard step: it changes
  the stage of every request that it hits.

Only model-checked is what says that something happens in the end
(`Answered`, `EveryOrderHandled`, `EveryClientAnswered`, `EveryMailTried`,
`StaleCacheHeals`, `EveryCallEnds`, `EndsUnlessKept`): it rests on fairness,
which is out of the provers' reach. Every other property of a passing run is a
theorem. That the hypotheses are necessary, and the findings, are
counterexamples of TLC.

## 5. Not modelled

- Tracing metadata of the gRPC interceptor, logging, Swagger, S3 presigned URLs
  (a local signature), Docker and Kubernetes files but for the probe: I/O and
  configuration. Of the generated protobuf code only the lists of methods.
- Prices, names, addresses, the contents of DTOs: a body is valid or not.
  Listings and other reads of the product, order and user services change
  nothing; through the gateway they are calls like others.
- `updateOrderStatusById` and `runRedLock`, which nothing calls.
  `failPayment` is modelled in `Payment` though the order service never
  calls it.
- Cycles of categories: `updateCategory` takes any parent, also a descendant,
  and nothing promises a tree or walks up one.
- RabbitMQ failures and its consumer timeout, which would close the channel
  of a stuck instance after half an hour; Redis failures.
- The pools of the payment and user services, whose calls take one connection
  at a time.
- Several users in `TokenCache`, which share neither rows nor keys; forged and
  expired tokens, which touch nothing.

## 6. Plan

Done, in this order: `Stock`, `StockLedger`, `Payment`, `OrderSaga`,
`OrderQueue`, `TokenCache`; then the answers of the queue, sign-ins,
`MailQueue`, `Catalog` and `Gateway`, with their runs and the theorems above.

Next:

1. `OrderQueue` composed with `OrderSaga`, so that a redelivered message takes a
   reservation and a payment of its own.
2. That the composition implements `StockLedger` until a late complete restores
   (`NothingUndone`), for one consumer and payments in time, by way of
   `SerialSpec`.
3. What failures leave of `StockConserved` and `PaymentAgrees`: by how much the
   databases may differ after `MaxFaults` failures.
