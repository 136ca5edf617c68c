# Formal models of the BE-NestJS shop backend

The repository is a NestJS backend of microservices that sell products: an API
gateway, and services for authentication, products, orders, payments and media.
They call each other over TCP, share MongoDB and Redis, run delayed jobs with
BullMQ and exchange events over Kafka through a transactional outbox. These
modules model the parts in which money, stock and accounts can go wrong:
creating, paying and cancelling an order, the events between the services, and
signing up, in and on.

## The system

| Component | State | Operations | Interacts with | What makes it correct |
|---|---|---|---|---|
| Outbox (`libs/shared-modules/outbox`) | `OutboxEvent` documents; `isProcessing` and a batch in memory | a service creates an event in its transaction; a cron job every 3 s publishes pending ones | orders and payments write to it; Kafka | every committed event is published, only committed ones are, few duplicates |
| Product stock (`product-service`) | `in_stock` per product | `reserveStock` (a transaction), `refundStock` (a bulk write) | called by orders over TCP; consumes `order.create.failed` and `order.cancelled` | never oversold, all lines or none, units conserved |
| Orders (`order-service`) | orders; locks and cached results in Redis; `order.auto-check` jobs | `create`, `cancel`, `paymentSuccessHandler`, `autoCheck` | calls products and payments; outbox; consumes `payment.success` | one order per key, failed creations compensated, cancelled orders give their items back |
| Payments (`payment-service`) | payments, attempts, refund attempts; `PAYMENT_QUEUE` jobs | `create`, `pay`, `cancel`, `refund`, `paymentFinalizing`, ZaloPay callback and query | consumes `order.created` and `order.cancelled`; ZaloPay; outbox | only charges count, charges get recorded, refunds are due, made once and requested |
| Catalogue and cache (`product-service`) | products, Redis cache | listing, `findOne`, admin bulk insert | gateway, orders | the cached copy is not used for decisions |
| Authentication and users (`auth-service`) | users with one refresh token and one OTP secret | `signUp`, `sendEmail`, `verify`, `validateUser`, `signIn`, `googleSignIn`, `processRefreshToken` | called by the gateway, which guards and packs the calls and keeps the token in a cookie | one account per address, no password sign-in without the code, the latest session stays valid |
| Checkout (orders, payments, outbox) | an order and its payment | the operations of both services | `order.created`, `order.cancelled`, `payment.success` over Kafka | what is confirmed was charged and is kept, for what is cancelled a refund is requested |
| API gateway, media, shared libraries | none (cookies, Cloudinary) | forwarding, upload | all services | - |

What is hard: handlers interleave at every `await`; Redis, MongoDB, Kafka and
BullMQ are written in one handler without a common transaction; processes die
between those writes; events and callbacks are repeated, late or missing; locks
and caches expire under calls at work; status fields are overwritten from stale
reads; two calls check and then create. `PROJECT.json` lists each such place
with its line, under "hazards".

## Modules

| Module | Models |
|---|---|
| `EventDelivery` | what an outbox promises (abstract) |
| `Outbox` | `OutboxWorkerService.processOutbox` and the transactions that write events |
| `StockLedger` | what the product service promises about stock (abstract) |
| `OrderLines` | the units of a product in an order's lines |
| `ProductStock` | `reserveStock`, `refundStock`, MongoDB transactions, Kafka delivery |
| `Orders` | `OrdersService.create`, `cancel`, `paymentSuccessHandler`, `autoCheck` |
| `Payments` | `PaymentService` and `ZaloPayService` for one payment |
| `Sale` | what orders and payments promise together about one order (abstract) |
| `Checkout` | one order from creation to end: `Orders` and `Payments`, joined by their events |
| `Accounts` | `AuthService`, `UsersService` and the gateway's guards |
| `OutboxProofs`, `ProductStockProofs`, `ProductStockUnits`, `OrdersProofs`, `PaymentsProofs`, `CheckoutProofs`, `AccountsProofs` | the theorems |
| `StockSums` | lemmas about finite sums, which `ProductStockUnits` uses |
| `MCOutbox`, `MCProductStock`, `MCOrders`, `MCPayments`, `MCCheckout`, `MCAccounts` | instances for TLC |

**Outbox.** `phase[e]` is the transaction that creates event `e`; `sent` and
`retryCount` are the document in MongoDB; `batch` is what the loop has yet to
do and `hand` the event of the current iteration after its emit. One action per
await of the loop: `Tick` (the query), `EmitAcked` and `EmitTimesOut`, `Save`
and `SaveFails`, `Finish`; `Crash` loses everything in memory. A record whose
emit timed out is `inFlight` until it arrives or is lost. The worker is single
because only `OrdersModule` starts the scheduler.

**ProductStock.** `stage[r]` and `pos[r]` are the program counter of
`reserveStock`, `view[r]`, `wrote[r]` and `stale[r]` its MongoDB transaction:
the snapshot it reads, the documents it has written, and those that others have
changed since. An update that meets another writer is a write conflict, which
takes the catch block like any error. `asked[r]` counts the refund events that
the order service writes of one order, up to `MaxAsks`: a creation that fails
writes one, and every cancellation that passed the check of the status writes
one, so that two with different keys, or one after a late payment has revived
the order, write several without any fault. Each event is delivered at least
once, one at a time, and its bulk is applied line by line; the handler does not
know which orders it has served. `CommitLost` is a
commit whose answer does not reach the order service. `Charged` are the requests
that committed, and `StockLedger` is told exactly what each took: the units of
its lines, a product listed twice included (`OrderLines`).

**Orders.** `pc[r]` and `cpc[c]` are the next await of a call of `create` and
`cancel`. A call of `create` makes at most one order, so the order is named
after the call. `held` and `cached` are the two things Redis keeps per key;
`refunds[r]` counts the outbox events that give the items of `r` back. Faults
have kinds: a failed remote call, a lost answer, a failed commit, a lock that
expires under a call, a cached result that expires, a crash. The history
variables `exposed`, `leaky` and `revived` record where a fault, or a payment
after a cancellation, removes the ground for a property.

**Payments.** One payment, because every document and job is keyed by it. The
actors are the Kafka consumer (one event at a time), calls of `pay`, callbacks,
the BullMQ worker (one job at a time, its default concurrency), and ZaloPay
with the customer. A callback is a transaction that writes the attempt first:
it locks the attempt, but the code reads the payment and calls `refund` outside
of the session, so those steps are actions of their own. `Casts` says whether
mongoose accepts `$set: { remaining: { $inc: ... } }`; with a mongoose that casts
values of `$set` to the schema's type it is `{FALSE}`, and every callback of a
payment that is not cancelled ends in an error. The runs check both. `refund` is
three steps: the look for a refund attempt, its creation, and the request to
ZaloPay. `requested[c]` is what came of the requests for one charge: `answered`,
whatever ZaloPay says, as the code does not look; `nameless`, if the document
that `refund` was given has no transaction id, as is that of a callback, which is
the one from before its update; or `failed`. A failed request is no fault of the
model: the code catches it, makes the attempt PROCESSING like any other and
returns, and nobody hears of it. Both ways a job `refundAttempt.auto-check` is
queued (`refundJobs`), which finds no document (`RefundJob`). Each step may
also be the last: a fault ends it, the callback's transaction aborts or the
consumer's event comes again. The history variables `raced`, `missed`,
`overwritten`, `repeated` and `interrupted` record where a race or a fault
removes the ground for a property.

**Checkout.** `Orders` with one creation and any number of cancellations, and
`Payments`, both by INSTANCE with their own variables: the steps of one leave
the other unchanged, and only the deliveries join them. An event is on its topic
after the transaction that wrote it (`PublishedNow`; that the outbox gets there
is the subject of `Outbox`), stays there, and is delivered any number of times,
`order.cancelled` before `order.created` included. Neither module has a fault
here, because their own runs have them: what remains is what delivery can do.
The status query of `order.auto-check` ends in an error, as it does in the code
(see `orders_pending`), so `Replies` is `{"error"}`. Seen from outside, the two
services make one `Sale`: its stage is the order's status, it is cancelled once
`order.cancelled` is on its topic and given up once the finalizing job has run,
and it knows of each attempt whether it was charged at ZaloPay and given back.

**Accounts.** `pc[q]` is the next await of a request, and a request that makes
an account makes one, named after it. No schema index keeps addresses unique, so
that a lookup by address may find either of two accounts. `Shapes` says how the
gateway packs a DTO: `wrapped` is what it does today (`{ signUpDto }`), for which
every field that the handler reads is undefined, and `plain` is what the
handlers expect; the run takes both. An undefined field in a filter is
sent as null, the MongoDB driver's default. A code is the account that its
secret belongs to; `mailed` is who was sent one. A refresh token is its account
and the second of its signing, which is all that tells two tokens apart. The
lifetimes of codes and tokens are left out: they only end what is allowed here.

## Runs

| Run | Instance | Shows |
|---|---|---|
| `outbox` | 3 events, retry limit 3, batch 2, 2 faults | delivery at least once, only of committed events, in causal order; a duplicate costs a fault; refines `EventDelivery` |
| `outbox_abandons` | 1 event, limit 5, 5 faults | violated: an event that failed five times is dropped (README of the repository, line 57) |
| `stock` | 2 products of 2 units, 2 reservations, up to 2 refund events each, 2 faults | no overselling, exact conservation, termination; an order's units go back once per event and once more per fault, no event is applied in part, all are applied in the end; refines `StockLedger` |
| `orders` | 3 creations with one key, 2 cancellations with one key, 1 fault of any kind | idempotency, compensation, refunds; a key makes one order, and one more per fault at most |
| `orders_pending` | 2 creations and 2 cancellations, no faults | violated: an unpaid order stays PAYMENT_PENDING, as its status query always fails (line 60) |
| `payments` | 1 attempt, 2 callbacks, 1 fault of any kind | charges are recorded, refunds are due, made once and requested, a payment leaves PENDING and FINALIZING |
| `payments_retry` | 2 attempts, 1 callback, no faults | one open URL unless two calls raced, and the payment resolves when `pay` runs beside everything else |
| `payments_announced` | 1 attempt | violated: PAID by reconciliation, no `payment.success` (lines 57 and 58) |
| `payments_finalized` | 1 attempt | violated: a PAID payment is cancelled at its expiry (comment at `payment.service.ts:198`) |
| `payments_refund_retry` | 1 attempt, no faults | violated: a request for a refund that failed is not made again (comment at `payment.service.ts:246`) |
| `accounts` | 4 requests, 1 account that exists, 2 addresses, 2 seconds, 1 lost update | one account per address, no password sign-in without the code, refresh by the latest session only, and refusal for a reason only |
| `checkout` | 1 order, 1 cancellation, 1 attempt, 1 callback | a confirmed order is not refunded, a confirmed charge moves the order on or has a refund attempt, for the charges of a cancelled order a refund is requested; refines `Sale` |

Bounds. Three events are needed for a batch of two to leave one behind and for
a cause of a cause; two cancellations of one key are what a race for a lock takes,
and three creations are one more than one fault may turn into orders; two callbacks
are what a double refund takes. Two lines in opposite orders are a deadlock's shape,
and write conflicts are between two transactions: more of them, and more products,
are what the theorems about stock cover. `MaxAsks` of 2 is an order cancelled twice.
The retry limit of 3 lets an event be retried twice; `MaxFaults` is smaller, which is
exactly the assumption under which at-least-once delivery holds, and
`outbox_abandons` drops it. Four requests are two sign-ins and two refreshes of
one account, or two sign-ups of one address and a sign-in and a refresh after
them; a second more makes two tokens differ. One order, cancellation and
callback already meet in every order of events; `payments` has the second
callback. Counters are bounded by `MaxFaults` and the number of calls; `clock` by
the number of events. Symmetry is used in `orders` (calls with one key) and
`accounts`, whose properties are all invariants. Deadlock is not checked: all calls
may have ended, and a customer need not start another.

The violation runs with a liveness property (`outbox_abandons`,
`orders_pending`, `payments_refund_retry`) use the same fairness as the passing
runs.

## Fairness

A handler that was started runs on, since Node resumes a continuation when its
promise settles and every wait ends in an answer or an error: weak fairness of
the steps of a call. The cron job fires again (weak fairness of `Tick`), BullMQ
runs a job that is due and Kafka's consumer polls. In `Payments`, each callback
and the consumer go on with their own refund, and a URL expires. In `Checkout`
both services keep their fairness and every event is delivered once at least,
which is what the outbox gives. Nothing is assumed of
transactions (they may stay open), customers, callbacks, clients that cancel,
faults, or records whose emit timed out. A crash or an error is an action
without fairness, bounded by `MaxFaults`.

## Proofs

All theorems hold for every value of the constants under the modules' named
assumptions: finite `Events`; natural limits; carts that are sequences of lines
with positive quantities; keys of creations and cancellations that differ (their
prefixes do); `NoOrder` that is not a call; a consumer that is no callback; old
accounts with different addresses; an undefined address and an absent account
or token that are none.

*Outbox.* `SentWasPublished` is not inductive: the proof carries that a document
in hand with `sent` was published, that hand and batch hold committed events
only, and that events are timestamped after their causes. `DuplicatesNeedFaults`
is an accounting argument: each copy is paid for by a fault or by the one
publication that `sent`, or the event in hand, stands for. `CausalOrder` needs
that a batch is closed downwards in `createdAt`. The refinement of
`EventDelivery` maps each action to `Write`, `End`, `Publish`, `Ack` or a
stutter.

*ProductStock.* `NeverOversold` rests on snapshot validity: of a document that
an open transaction has written, no other open transaction has a write
(`WritersExclude`), and its snapshot is what is committed unless it is stale; so
a commit writes what the filter has checked.

`ProductStockUnits` counts. `SessionUnits` says that a transaction's view of a
product and the units of the lines it has decremented add up to what is
committed, unless the product is stale; a commit therefore takes exactly the
units of its order. For `Conservation` the sum over the committed requests is
taken apart at the one request that a step touches. For `RefundBounded` and
`RefundMade` deliveries are counted: those taken up so far (`Deliveries`) are at
least the events that were asked for and at most one more per fault, less what
still waits on the topic; each that is over has put the order's units back once,
and the one in the consumer's hands those of the lines it has applied (`Back`,
and `Within`, which bounds what the units of a prefix of the lines can be). The refinement
of `StockLedger` maps `Commit` and `CommitLost` to one atomic `Reserve` of the
order's units, `Increment` to `Refund`, everything else to a stutter.

The units are folds over sets, about which nothing can be proved by unfolding,
and the library's induction theorems are out of reach. `StockSums` therefore
proves induction over the naturals in first-order form, for a set instead of a
predicate, from the well-foundedness of `<` (`WFMin`), and with it that a sum
over a finite set exists, is unique, and loses one summand when one element is
removed.

*Orders.* `LockInv` is a mutual exclusion argument: for a key whose guard is
intact, a call between the lock and its release holds the lock alone, an order
is about to be cached or is cached by its maker, and a call that missed the
cache before finds the lock of the order's maker still set. `AnswerInv` says
that cached results and answers are orders of the key. `StockInv` is the
bookkeeping of the saga, by program counter.

`CancelsOncePerKey` adds `CancelLockInv`, the same argument for the lock of a
cancellation, which is never released, and `CancelledInv`: what a call cancelled
stays cancelled until a late payment revives it, so that a second call with the
key that gets past the check has seen it revived.

`ExtraOrdersNeedFaults` is an account of places (`SlotInv`). The calls of one key
that are at work or have made an order are one more than the faults at most, and
no more than the faults where another call may come in: when the lock is free
and the result is not cached, or was not when a waiting call looked, and when
nobody is at work and nothing is cached. A call that releases a lock that is not
its own any more gives up its own place.

*Payments.* `ChargeInv` follows a charge from ZaloPay to the answer of a query
or the report of a callback, and on to what is recorded of it. `DueInv` says why
a payment was given up, for every place that can still write CANCELLED or start
a refund. `OnceInv` is the argument that only two can refund one attempt at one
time: callbacks of an attempt exclude each other, and the consumer refunds what
was reported before; so the second of the two was repeated by ZaloPay.
`SuccessIsKept` is an action property, by cases over the actions. `OneOpenAttempt`
needs `OpenInv`: of two calls that are making an attempt, or have made one that
can still be paid, one looked for an attempt while the other was making its own.
It holds because the check of an attempt, which alone could reopen one, does not
run while its URL lives.

*Checkout.* The payment service sees only its own steps, so that the invariant of
`PaymentsProofs`, taken by INSTANCE, holds of it in the composition as well.
`JointInv` relates it to the order: no order before its commit, no
`order.cancelled` but of an order that is CANCELLED or was revived by a late
payment, and no cancellation of the payment but by that event. With `DueInv`
this makes every refund one of an order that is not confirmed, was revived, or
whose payment the finalizing job gave up; the chain from a confirmed order
over `payment.success` to the customer's charge is a conjunct of its own.
`MakesASale` is the refinement of `Sale`: each step of `Payments` charges,
returns, gives up or does nothing that can be seen (`PaymentsMove`), each step
of `Orders` places, confirms or cancels (`OrderMoves`); the joint invariant
supplies the guards, that a payment which is reported was made and that a refund
has a cause.

*Accounts.* `MakerInv`: of the accounts of one address, and of the calls that
are about to make one, all but one were overlapped. `CodeInv`: an account that
is active and has a password somebody knows was so from the start or was mailed
its code. `TokenInv` says what a request at each await knows of its account and
token, and `LastInv` that the token in the document is that of every sign-in
that ended, or of one of the account that stored its token later; a refresh that
compares with the document is thereby compared with the latest.

What TLC alone checks: liveness, whose fairness is out of the prover's reach
(`EveryEventPublished`, `EveryReservationEnds`, `RefundCompletes`,
`ChargeIsRecorded`, `PaymentResolves`, `RefundsAreRequested`,
`ConfirmedChargeIsSettled`, `CancellationAsksForRefund`). `RefundMade` is the safety half of
`RefundCompletes`. Every other property of a passing run is a theorem.
`SentWasPublished` and `ConfirmedWasCharged` are theorems as well, which no run
checks by name: the refinements of `EventDelivery` and `Sale`, which the runs
check, imply them.

## What the code does not promise

Some properties name exceptions that the code really has. A reader should know
them; where a run shows what happens in one, it is named.

- `OneOrderPerKey` excepts keys whose lock expired under a call or whose result is
  not cached, or no longer: nothing renews the lock of 30 s, so that a retry makes a
  second order. `ExtraOrdersNeedFaults` bounds how many there are.
- `FailedCreateIsCompensated` and `CancelledIsRefunded` except a reservation whose
  answer was lost, a compensation that failed, and a failed commit, after which
  `abortTransaction` throws before the compensation: the stock stays taken.
- `CancelOncePerKey` is about calls with one key. With two keys, or after a late
  payment, an order is cancelled twice without any fault and its items go back
  twice; `RefundBounded` counts the events and is what remains of a bound then.
- That a charge of a cancelled order is paid back is not promised by anything
  here. `RefundsAreRequested` and `CancellationAsksForRefund` end at the request
  to ZaloPay. It may fail without anybody seeing it (`payments_refund_retry`), from
  a callback it names no charge (`nameless` in `Request`), and what ZaloPay
  answers is stored but not looked at. A charge that a callback reports to a
  payment the finalizing job gave up gets such a request only, and its order, if
  nobody cancels it, stays PAYMENT_PENDING: `ConfirmedChargeIsSettled` finds a
  refund attempt there and no more.
- `CancellationAsksForRefund` covers the charges that the cancellation reads: one
  that is recorded between that read and the write of CANCELLED, or whose payment
  is created after its order was cancelled, is kept by the shop.
- `PaymentResolves` excepts a payment whose finalizing job was never queued, which
  stays PENDING, and one whose attempt ZaloPay still called processing when it was
  checked, once, which stays FINALIZING.
- `OneOpenAttempt` and `OneAccountPerEmail` except two calls that looked before
  either had made its attempt or account; nothing in the code keeps them apart.
- `ConfirmedIsNotRefunded` excepts an order that a late `payment.success` has
  revived and a payment that the finalizing job gave up (`payments_finalized`).

- Nothing says that an account has an address: with the payloads that the gateway
  sends (`{ signUpDto }`, where `auth.controller.ts:25` takes the whole payload for
  the DTO), a sign-up stores one without address and password, and the next finds
  it as taken. `Accounts` has both shapes, and its properties hold with either.

## Not modelled

- Catalogue queries, the product cache and the admin bulk insert: the cached copy
  is only displayed, so that no decision depends on its age, and the bulk insert
  is one transaction that nothing interleaves with.
- Media uploads, client registration, decorators and DTOs: no state.
- `UsersController`: HTTP routes in a service that is started on TCP only.
- What `reconcileRefundAttempt` would do with a refund attempt: its job is queued
  with `refundAtemptId` or `refundAttemptId` and read as `queryCode`
  (`payment.processor.ts:43`), so that it looks for an undefined id, finds nothing
  and fails before it writes (`RefundJob`). What ZaloPay does with a request for
  a refund; and the amounts of payments and the `remaining` field, which no
  decision reads.
- Pricing, e-mails and signatures are data. That a callback has a correct MAC is
  the guard `Genuine`; one with a wrong MAC returns before it changes anything.

## Plan

Done: `Outbox`, `ProductStock`, `Orders`, `Payments`, `Accounts` and `Checkout`,
with runs and proofs. Left, in this order:

1. The product stock in `Checkout`, so that an order's units are followed to the
   refund of `order.cancelled`.
2. Refund attempts and their reconciliation, once its job finds its document.
3. The product cache, once a decision reads it.
