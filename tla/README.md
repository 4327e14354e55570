# A TLA+ verification of the Jingdezhen Ceramics platform

This directory models the stateful core of the platform in TLA+, checks it with TLC
on small instances, and proves theorems about it with TLAPS for instances of any
size. Paths are relative to the repository's root; `PROJECT.json` maps every
definition to the lines it stands for.

Contents: [1 the system](#1-the-system) · [2 the modules](#2-the-modules) ·
[3 the runs](#3-the-runs) · [4 fairness](#4-fairness) · [5 the proofs](#5-the-proofs) ·
[6 where code and documents disagree](#6-where-code-and-documents-disagree) ·
[7 what is not modelled](#7-what-is-not-modelled) · [8 what could follow](#8-what-could-follow)

To repeat a run or a proof, inside this directory (a run's module and configuration
are in the table of section 3):

    tlc -workers 2 -config StorefrontRace.cfg MCStorefront.tla
    tlapm BackOfficeProofs.tla

---

## 1 The system

Two processes are built from `backend/cmd/api/main.go`: **serve** (HTTP handlers and
the websocket hub; there may be several) and **worker** (background tasks and the
cron schedule). They share one PostgreSQL database and one Redis (task queue,
pub/sub, rate limits, token blocklist). Payment gateways, the e-mail service, the
object store and the headless browser are outside. A React frontend talks to serve.

What makes the backend hard is the same everywhere: a service method is a
*sequence* of database statements, gateway calls and enqueues. Only some sequences
are in a transaction. Handlers of many requests interleave between the steps, a
process may die between them, and most late steps are "best effort": their error is
logged and the request succeeds. What keeps the data consistent is the
compare-and-set `UPDATE ... WHERE status = <expected>`, unique keys, and the
idempotency of tasks that run at least once.

### Inventory

| Component (source under `backend/`) | State | Operations | Interacts with | What is hard, what must hold | Module |
|---|---|---|---|---|---|
| **order** `internal/modules/order` | `orders`, `order_items`, `skus.stock` | Checkout, MarkPaid, Ship, Complete, Cancel, Refund, listings | cart, address, shipping, fx; payment; jobs; certificate | Checkout continues after its transaction commits; Cancel races with payment; Refund holds a status across a gateway call. Stock is conserved; nothing is fulfilled or refunded unpaid; side effects at most once | OrderPayment, Shop |
| **payment** `internal/modules/payment` | `payments` (one row per intent, one per event) | CreateIntent, CreateQuoteIntent, HandleWebhook, Refund, RefundQuote | gateways; order, itinerary; jobs | Duplicate, declined and late events; a crash between row and enqueue; two refunds at once. The table never claims more than the gateway did | OrderPayment, ItineraryDeposit, PaymentRouting |
| **gateways** `pkg/adapters/payments` | intents and events (outside) | CreateIntent, VerifyWebhook, Refund | payment | Redelivery; a lost reply; references that name an order by accident | the same three |
| **jobs** `internal/platform/jobs`, `cmd/api/main.go` | queue, retries, cron schedule in Redis | Enqueue*, Run, handlers | everything asynchronous | At least once, up to a task's retries, then archived; crons that mean something else than their comment | each task in its subject's module |
| **itinerary** `internal/modules/itinerary` | requests, quotes, drafts, notes, rates, SLA flag | Submit, Open, Close, Cancel, CancelByStaff, Assign, SendQuote, PayDeposit, MarkDepositPaid, Confirm, RefundDeposit, drafts, rates | payment, fx, jobs, e-mail | Quote and request are written one after the other; re-quote races with payment and refund; several intents per quote. Booked only on money taken, cancelled only on money returned | ItineraryDeposit |
| **websocket hub** `internal/ws` | clients map, send channels, subscription | Register, Unregister, deliver, SendToUser, Run | notification, Redis pub/sub, browsers | Two tabs, reload, slow reader, shutdown. No closed channel is used, no goroutine leaks, no duplicates beyond the two paths | WsHub |
| **notification** `internal/modules/notification` | `notifications` | CreateNotification, MarkAsRead, MarkAll, listings | hub | Row first, push after; the push may be lost | WsHub, Alerts |
| **stock and SLA alerts** `cmd/api/main.go` | `sla_notified_at` | stock:check, sla:check | product, user, notification, e-mail | A retry repeats the fan-out; a crash after the compare-and-set loses it | Alerts |
| **cart** `internal/modules/cart` | carts, cart items | AddItem, SetItemQty, RemoveItem, BulkRemove, Merge | product (stock), order | Read-check-write of quantities; cleared by SKU after checkout; two submits of one cart | Shop |
| **product** `internal/modules/product` | products, SKUs, publication status | create, update, transition, delete, import, SKU edits | certificate, media, sitemap, order (stock) | The SKU editor writes an absolute stock; publication reads a status and updates blindly | Shop, Publishing |
| **artist, ceramicstory, engage** | translations in draft / in review / published / rejected | create, update, transition, delete | media, sitemap, audit | The same workflow four times, with products; nothing goes live unreviewed | Publishing |
| **sitemap** `internal/modules/sitemap` | the sitemap object | Rebuild | content, storage | Rebuild reads while content changes; the last write need not be the newest | Publishing |
| **certificate** `internal/modules/certificate` | certificates, codes, PDF key | Issue, RegenerateCode, revoke, RecordSale | product, order, jobs | The job reads the row twice, renders for seconds and writes the key by id | Documents |
| **media** `internal/modules/media` | assets, gallery links, objects | upload, register, attach, detach, reorder, delete | storage, content | Object and row are deleted one after the other; the order is worked out from what was read | MediaLibrary |
| **user** `internal/modules/user` | users, activation and reset tokens, access tokens | Signup, Activate, Login, reset, OAuth, profile | e-mail, twofa, blocklist, rate limits | Single use of links; a second e-mail while the first is followed | Accounts |
| **twofa** `internal/modules/twofa` | secret, enabled flag, backup codes | Enroll, Confirm, Disable, Verify, RegenerateBackupCodes | user, attempt tracker | Codes replaced while one is used; judged before counted | TwoFactor |
| **rate limits, blocklist** `pkg/adapters` | counters with expiry in Redis | Allow, RegisterFailure, IsLocked, Revoke | user, twofa, middleware | INCR and EXPIRE are two commands | Accounts, TwoFactor |
| **privacy** `internal/modules/privacy` | (all of a user's rows) | ExportUserData, DeleteAccount | user, blocklist | Erasure next to running requests and tokens | Accounts |
| **fx** `internal/platform/fx` | `fx_rates` | Refresh, Convert, Rate | order, itinerary, product | Amount and rate come from separate reads; two rounding bands; a stale table | Prices |
| **shipping** `internal/platform/shipping`, `internal/modules/shipping` | tiers | CalcFee, tier edits | order | The fee as a step function of weight | Prices |
| **analytics, consent** `internal/modules/analytics`, `consent` | events, daily figures, answers | Record, RollupDaily, RecordConsent, reports | geoip, jobs | "Yesterday" is resolved when the job runs; consent read before the insert | Visitors |
| **audit, address, wishlist** | single rows and logs | record, list, edit | all handlers | Default-address switch has two statements; audit is best effort | - |
| **frontend** `frontend/src` | session, cart, chat registry, socket | pages, contexts, mock backend | API, `/ws` | Reconnection with backoff; guest cart merged at log-in | - |

The complete list with sources and status is `components` in `PROJECT.json`; the
hazards, each with its line and the properties that would catch it, are `hazards`.

---

## 2 The modules

    abstract                component           composed for TLC        proved in
    OrderLifecycle     <--  OrderPayment        MCOrderPayment (1)      OrderPaymentProofs,
                                                                        OrderPaymentRefinement
    ItineraryLifecycle <--  ItineraryDeposit    MCItineraryDeposit      ItineraryDepositProofs
                            WsHub               MCPlatform              WsHubProofs
                            Shop                MCStorefront (1)        StorefrontProofs
                            TwoFactor           MCStorefront            StorefrontProofs
                            Accounts            MCAccounts (1)          StorefrontProofs
                            Prices              MCPrices, MCAccounts    PricesProofs
                            Publishing          MCBackOffice (1)        BackOfficeProofs
                            MediaLibrary        MCBackOffice            BackOfficeProofs
                            Visitors            MCBackOffice            BackOfficeProofs
                            Documents           MCBackOffice, MCWorker  BackOfficeProofs
                            Alerts              MCWorker (1)            BackOfficeProofs
                            PaymentRouting      MCWorker                BackOfficeProofs

    <--  is implemented by (INSTANCE ... WITH, the abstract specification as a PROPERTY)
    (1)  OrderPayment is one of the parts of these compositions
    DataLemmas: lemmas on largest and least elements, occurrences in sequences and counting,
                for the proofs

A step of a model is one database statement or transaction, one gateway call, one Redis
command, one queue operation, or one receive of a goroutine together with the local code
up to the next. What a handler remembers between two of its steps is part of the state
(`refunds`, `quoting`, `handling`, `tasks`, `requests`, `desk`, `press`, `clerk`, ...), and
that is where another handler or a crash comes in between.

Some variables are no state of the code but are remembered for a property: how often
something happened (`sold`, `activated`, `entered`, `alerted`, `granted`), and what excuses
a property (`slipped`, `overtaken`, `lost`, `unasked`, `untold`, `missed`, `half`, `bare`, `late`, and the component
`passed` of a request). No guard of the code reads them, only the bounds do.

Definitions whose comment begins with "Mutant" are no part of any specification. Each
is the operator after it with a bug the code might have had (a dropped WHERE, a missing
reset, a swapped order); substituting it makes the property named in `PROJECT.json`
fail, which shows that the property watches that piece of the code.

### OrderLifecycle, OrderPayment

`OrderLifecycle` says what an order is to its readers: placed, paid, shipped,
completed, cancelled or refunded in one indivisible step, with stock taken at the first
and returned by cancellation only.

`OrderPayment` is the code. Correspondence:

| Variable | In the code |
|---|---|
| `status`, `items`, `stock` | `orders.status`, `order_items`, `skus.stock` |
| `checkout` | where `Service.Checkout` stands after its transaction |
| `intent`, `unacked` | the gateway: the intent, the events it will deliver again |
| `payments` | the rows of `payments` of the order, in id order |
| `handling` | `HandleWebhook` between `UpsertWebhook`'s commit and the enqueue |
| `tasks` | `payment:finalize` tasks by what enqueued them, with the step they are at |
| `sold`, `checked` | how often the two side effects of MarkPaid happened |
| `refunds` | `order.Service.Refund` calls: status read, row found, step |
| `faults` | crashes, lost replies, failed enqueues so far, up to `MaxFaults` |

Actions follow the code's order: `CreateOrder`, `CreateIntent`, `RecordIntent` (or
`MockFinalize`) for checkout; `UpsertWebhook`, `ReplayWebhook`, `EnqueueFinalize` for
the webhook; `MarkPaid`, `RecordSale`, `EnqueueStockCheck`, `ExhaustRetries` for the
worker; `Cancel`, `Ship`, `Complete`; `RefundRead`, `RefundFind`, `RefundCall`,
`RefundMark`, `RefundTransition`; `ServeCrash` and `WorkerCrash`. The gateway
(`CustomerPays`, `GatewayNotifies`) is modelled from how the adapters use it. PayPal
sends two success events for one payment; either is taken to mean that the money was
captured, because the code treats them alike and never captures itself.

Abstracted: prices and currencies (Prices), addresses, the cart (Shop), item snapshots (an order is
the number of units per SKU), the wording of errors. A failed transaction leaves nothing
and is not a step.

### ItineraryLifecycle, ItineraryDeposit

The same pair for a travel request, its quote and its deposit. A request has one quote
row (a unique key), so `quote` and `price` are indexed by request; every `PayDeposit`
call opens an intent of its own. `quoting` and `refunds` are the `SendQuote` and
`RefundDeposit` calls in flight. `CreateQuote` is an upsert that does not look at the
quote's status; `CancelQuote` accepts a quote that is `sent` again; both are modelled
as written. An intent has one success event here, because declined and replayed events
are `OrderPayment`'s subject. `deposit_paid` and `fully_paid` are one status ("paid"):
no condition tells them apart. Payments run against a gateway and the webhook finds
the quote by the intent's reference (PaymentRouting says when it does); the development seam
without a gateway, drafts, assignment, notes and e-mail are left out, and the PDF is Documents' subject.

### WsHub

A hub is its `Run` loop, its subscriber, and a `readPump` and a `writePump` per
connection. The unbuffered channels `register` and `unregister` are rendezvous, so
sending and the loop's handling are one step (`Register`, `Unregister`), possible only
while the loop runs. `clients` is the map *user -> connection*: one entry per user.
`send` is the buffered channel with its capacity, `bus` what Redis has delivered to a
hub's subscription; `Fanout` may lose a message on the way to any subscriber and never
duplicates it. `panicked` records what would end the process: closing a closed channel
or sending to one. `HubCancel` and `LoopStops` are the shutdown, in which Go's `select`
may still pick other cases.

`CreateNotification` is `Store`, `PushLocal`, `Publish`. In today's wiring only the
worker calls it, and the worker's hub has no connections; a serve instance may do so as
well (the tests do), therefore `SentBy` is a parameter. Without Redis the hub behaves
as if every publish were lost. Names carry the prefix `Hub` so that one module can
extend several components.

### Shop

The cart, the SKUs and the half of `Checkout` before `OrderPayment`'s `CreateOrder`. A request
is a record `shopping[c]` with the step it is at: `AddItem` reads the stock, then the quantity in
the cart, then adds (three statements); `Merge` does so line by line; `SetItemQty` reads the stock,
then writes; `Checkout` reads the cart, runs the order's transaction (all SKUs or none) and
clears the cart by SKU, which may fail or be lost in a crash. The editor and the CSV import create,
overwrite and delete SKUs at any moment, `SetCancelled` puts units back.
`base` and `taken` remember what the editor wrote last and what was sold since, `added` and
`bought` what went through the cart; `doubled` are customers with two checkouts in
flight, who may buy a cart twice (section 6).

### Accounts

A user is an e-mail address with one row at most. `requests[c]` is a request in flight:
`Signup` (read, insert, enqueue of the e-mail), log-in by password and by Google, the e-mails
that go through the throttle (`Allow` is INCR, `Expire` is EXPIRE, two commands a crash can
separate), the link that is saved over the one before (`SaveLink`), `UpdateProfile`, and
`DeleteAccount` with `AnonymizeUser` and `Revoke` in that order. `ActivateUser` is one UPDATE
by token and goes on to mint. `sends`, `sendsTtl` are the throttle's key; Redis may
fail, in which case the code lets the e-mail through and `granted` counts it all the same.

An access token and the entry `jwt:revoked:<user>` of the blocklist are set with the same lifetime,
`MaxAccessTokenTTL`; `token` and `revoked` are the days left of a user's youngest token and of the entry, and
`DayPasses` ages both. A token is minted (`generateAuthResponse`) for the row that was read, so a log-in
in flight may mint one for an account that has been erased and revoked meanwhile; `late` remembers who got one.
Requests that were authenticated before go on.

### TwoFactor

Enrolment, confirmation, backup codes and the second step of a log-in. The clock is
abstracted: a TOTP code is the secret it is computed from, and someone types any code
that exists or a wrong one. A request looks at the lock, judges the code
(`VerifyCode`, then `ConsumeBackupCode`, an UPDATE that wins once), counts a failure
(`RegisterFailure`, `ExpireFailures`, `LockOut`: INCR, EXPIRE, SET) or clears the counter and
mints (`ResetAndMint`). `RegenerateBackupCodes` deletes the unused ones and stores new ones in
two statements. Super admins must enrol before they are let in.

### Prices

Pure functions and the little state around them: `Convert` (rounded up to half
units below 100.00 and to units above it), `WithMarkup`, `roundDeposit`, `CalcFee` over the
country's tiers, as operators over integers; the stored rate, its raw source and age;
the scheduler's clock by hour and day with the cron entry of fx:refresh as written;
one bill (a checkout or a quote) that reads the rate anew at each of its steps while
a refresh may fall in between. One currency stands for all of them, and the rate column's
eight digits are a multiple of 1/`RateScale`.

### Publishing

The review workflow that products, artists, stories and activities share through
`i18ncontent`, and the sitemap. A transition reads the status, judges the
move (`allowed`) and writes the new status by id whatever is there by then; an edit likewise.
A successful transition to or from "published" asks for a rebuild; a rebuild reads what is
published (`BuildXML`) and writes the file later (`Rebuild`). Deleting a page asks for none, and neither does an
edit, which may change the slug (`slug` counts its changes) also of a page that is live; the sitemap holds addresses,
page and slug, so that such an edit leaves it stale. `slipped` remembers what did: a rebuild lost to a fault, one that
wrote over a newer one, a live page deleted or renamed, and a move that took down a page its request had read before it
went live (`TakesDownUnseen`). Last-modified dates are left out.

### Documents

PDFs of certificates and quotes. `serve` commits a version and asks for the PDF after;
pdf:generate reads the row twice for a certificate (`GetByID`, `GetByCode`) and
once for a quote, stores the file (`Put`) and writes its key by id (`SetPDFKey`). A failing job
runs again and is dropped after its retries. A certificate has a file per code; a quote has one that each
rendering overwrites, and a new round of a quote clears its key until then. SendQuote moves the request after the quote's commit
and returns when it has moved meanwhile; then the key is cleared and no PDF is asked for (`SendQuoteConflicts`).
`pdf_mode` is PDF_MODE, chosen in the initial state: with "local", the default, the generator is a stub and a job ends as
done with nothing stored and no key (`RenderUnavailable`), as documented, so that what is promised about current PDFs is
promised of "chromedp". The requests for one document are taken one at a time from commit to asking.

### MediaLibrary

A file is stored (`Upload`: through the CMS, or by a presigned PUT of the browser that the server never hears of);
its key is registered, whether or not the store has it (`RegisterAsset`; `bare` are the keys registered
for which no file has come); it is appended to a gallery by `MAX(sort_order)` and an
upsert, two statements; deleted from the store, then from the table, and with the row
its places in galleries. Galleries of products, artists, stories and activities have the
same statements. A deletion may stop between store and row (`half`). Keys are random, and a key
gets one row at most: registering the key of a deleted asset anew is not modelled.

### Visitors

`RecordConsent` appends and the latest answer counts. `Record` reads the consent, stamps the
event with the day and inserts it, in three steps. `NextDay` lets the scheduler queue
analytics:rollup, which resolves "yesterday" when it runs and sets three figures in three
statements; it may fail after any of them and run again.

### Alerts

The worker's two alerting jobs, run by a shared pool (`clerk`). sla:check lists what is past its
deadline, sets `sla_notified_at` by compare-and-set for each request and only then tells each planner. stock:check
finds the low SKUs among those it names and tells each operator of each; a failure or crash
starts it again, so operators may be told twice and never too seldom. What is told
is `CreateNotification`'s row; the push that follows is `WsHub`'s.

### PaymentRouting

Orders and quotes, both gateways and the one webhook. An intent's event carries the
number the adapter gives it back: Airwallex returns what `CreateIntent` was given, an order's id or
a quote's; PayPal's adapter reads the leading digits of the gateway's own reference.
`Resolve` is HandleWebhook's decision: an event with a number is an order's,
one without is looked up by reference in `payments` and goes to its newest row's owner. `OrderPayment` and
`ItineraryDeposit` take for granted that events reach their owner; this module says when they do
(`ClearIsSettled`) and when not (`FindingMisroutedDeposit`).

### The compositions

`MCStorefront`, `MCAccounts`, `MCBackOffice` and `MCWorker` extend several modules whose variables
are disjoint. A variable `part`, chosen in the initial state, says which of them moves; the others
keep their initial values. State spaces thus add up instead of multiplying. The parts share no variable, but two
of them show the same column from two sides: `OrderPayment.stock` and `Shop.shelf` are both `skus.stock`. OrderPayment has
all of an order's life and leaves the editor out; Shop has the editor and the carts, and of orders what they take from
the stock and put back (`CreateOrderOfCart`, `SetCancelled`, at any moment). Each contains every statement on the
column that its properties depend on, and what Shop lets orders do to it includes what OrderPayment does. Likewise the
status of a travel request is ItineraryDeposit's, and Alerts and Documents let it move at any moment. Where
components do interact step by step (order with payment, worker and gateway; cart with SKUs; log-in with lockout;
transition with rebuild; hub with notification), they are in one module.

---

## 3 The runs

Every passing run finishes; `CHECK_DEADLOCK FALSE` is there because the systems do stop
(an order ends completed, cancelled or refunded; links, versions and connections are finitely many).

| Run (module) | States | What it asks | Bounds and why they are enough |
|---|---|---|---|
| `StorefrontRace` (MCStorefront) | 696 308 | Orders: `StockConserved`, `PaidIsCaptured`, `ImplementsLifecycle`. Shop: `StockAccounted`, `BoughtWasAdded`. Second factor: `BackupCodeOnce`, `GuessesAreBounded` | Two orders, two SKUs, baskets that overlap and cannot both be served, one event, one refund, one fault: stock interacts between orders only, and two suffice for a race for the last unit. One customer with two requests on two SKUs: carts of different customers meet only in the stock. One user (nothing is shared between users), two requests, two secrets, one backup code, lock after one failure so that requests overtake it |
| `AccountsSettle` (MCAccounts) | 210 965 | `ActivatedOnce`, `SendsAreBounded`, `ErasedIsLockedOut`, `ThrottleLifts`; `PricesAreLeast`, `BillHolds`; `MockCheckoutSettles` | One account with two requests, two links, a limit of one e-mail, one fault, and a token's lifetime of two days, so that one minted a day later outlives the entry. Two raw rates, amounts at 0.01 and on either side of the step between the bands, three units, weights on and above a tier's limit, one failed refresh. Two orders in mock mode without faults: one lost enqueue leaves the order created, as the code logs |
| `BackOffice` (MCBackOffice) | 1 303 277 | `BooksAreTrue`, `PaidIsRefundable`, `SideEffectsFollowPayment`; `SitemapIsFresh`, `OnlyReviewedGoesLive`; `ShownFilesExist`, `AppendComesLast`; `PastDaysAreCounted`; `PdfIsCurrent`, `FilesAreTrue` | One order (gateway state is per order) with two events, two operators refunding and two faults: every pair of webhook, worker, refund and crash. One page of two slugs, two CMS requests, two rebuilds; one gallery, two files, two requests; three days (one to count, one to count it on, one to be late), two events; a certificate and a quote of two versions in two workers, in either PDF_MODE; one fault each |
| `WorkerDuties` (MCWorker) | 62 747 | `AlertedOnce`, `LateIsNoticed`, `LowStockIsNoticed`; `CaptureIsNoticed`; `AskedIsPrinted`; `PaidByEvent`, `ClearIsSettled` | No refunds (they start from paid orders), two events so that a declined one can come first. One request and two planners in two workers, one fault. A certificate and a quote of two versions in two workers with PDF_MODE=chromedp (in the other mode there is nothing to print). Two numbers and two references, so that an order and a quote of the same number, and of different ones, meet |
| `DepositRace` (MCItineraryDeposit) | 265 534 | `QuotedHasQuote`, `PaidQuoteIsBacked`, `CancelledQuoteIsReturned`, `ImplementsLifecycle`, `DepositIsNoticed` | One request (nothing is shared between requests), two intents, two planners quoting, one refund, one fault |
| `HubRace` (MCPlatform) | 166 206 | `NoPanic`, `NoStaleClient`, `ShownAtMostTwice`, `WriterEnds` | Two connections of one user on one hub with channel capacity 1, so that it fills; one message of this instance and one of another process, which stands for any other instance |
| `FindingLostEvent`, `FindingPaidCancelled` (MCOrderPayment), `FindingDoublePaid` (MCItineraryDeposit), `FindingDeafTab` (MCPlatform), `FindingStaleRates` (MCPrices), `FindingMisroutedDeposit` (PaymentRouting) | small | Each refutes one sentence of the documentation, see section 6 | The smallest instance with the behaviour |

Bounds are constants of their modules, each commented there: counts of faults (`MaxFaults` and its
siblings), of what the code does not limit (edits, versions, answers, days, units, jobs in a queue),
and the values of the code that are scaled down (`MaxSends` 3 to 1, `MaxFailures` 5 to 1, `NumCodes` 8 to
1, `Capacity`). Everything else is a finite set. The number of event ids bounds how many events an intent
emits, not how often one is delivered. Symmetry is declared for runs without liveness
properties over sets that are only compared for equality; where two parts of a composition share a
set of values, the configuration says so.

Excuses. Some properties hold only "unless": a rebuild was overtaken (`slipped`), a rendering
(`overtaken`, `lost`) or never asked for (`unasked`), a key registered without a file (`bare`), a token minted after the
revocation (`late`), an alert lost after its flag (`untold`), a rollup late (`missed`), an append or a review passed by
another request (`passed`), a customer double-submitted (`doubled`). Each excuse is a real behaviour of the code,
named in section 6, and is recorded only where it happens, so that the property still
binds in every other interleaving; `slipped` is taken back once a rebuild has put the file right.

---

## 4 Fairness

Only what the environment or the scheduler does without being asked is fair:

- The gateway delivers an event again until it sees a 200 (that is why the code answers
  500 on errors), and a handler that was started finishes unless the process dies:
  `UpsertWebhook \/ ReplayWebhook` and `EnqueueFinalize` per event; `Webhook` of a deposit and
  `HandleWebhook` of PaymentRouting likewise.
- Asynq runs queued tasks and takes over those of a dead worker: the steps of a task, and
  `PaymentFinalize`. A worker goes on with what it has in hand (`PressWorks`, the clerk's steps).
- The scheduler queues sla:check every 15 minutes (`ScheduleSLACheck`).
- Goroutines of a hub that can go on do: `Register`, `ReadEnds`, `Unregister`,
  `WriteMessage`, `WriterSeesClose`, `Ping` (its ticker), `Receive`, `LoopStops`.
- A running request of Accounts finishes (`RequestGoesOn`) and Redis drops a key that has an expiry
  (`ThrottleExpires`, enabled only with one: a counter whose EXPIRE never ran does not go away by fairness).

This is weak fairness, with one exception. A job that waits for a free worker of the pool competes with
other jobs: the step is enabled again and again and not continuously. Asynq takes jobs from the front of its
queue, so that each gets its turn: strong fairness of `ListBreached`, `FindLowStock` (per set of SKUs) and
`GetByID` (per document), over all workers together.

Nothing is assumed of customers, operators, planners, editors, browsers or of the start of a
subscription, and none of the faults has to happen or to stop happening. Liveness
properties that do not survive a fault say so in their formula (`\/ faults > 0`, `untold`, `lost`), and `AskedIsPrinted`
names the mode in which there is something to print.
`WriterEnds` speaks of connections that were unregistered: once the loop has stopped,
handlers may block on `unregister` until the process exits, which the model shows and
no property excludes.

---

## 5 The proofs

All of these are checked by TLAPS, without bounds on the sets and numbers of section 3. They
assume little more than the typing of the constants, in assumptions named in each component's module
(`BasketsAssumption`, `NumbersAssumption`, `ClerksAssumption`, ...), which TLC evaluates on every run
that extends it.

| Module | Theorem | Says |
|---|---|---|
| OrderPaymentProofs | `TypeCorrect` | types; stock never becomes negative |
| OrderPaymentProofs | `SideEffectsAreRight` | side effects at most once, and of paid orders only |
| OrderPaymentProofs | `PaidOrdersAreCaptured`, `TheBooksAreTrue`, `PaidOrdersAreRefundable` | the tables never run ahead of the gateway, and a payment that may have to be returned can be found |
| OrderPaymentProofs | `CapturedMoneyIsCarried`, `MockOrdersAreCarried` | captured money, or a mock order, is never in nobody's hands before a fault |
| OrderPaymentRefinement | `OrdersFollowTheLifecycle` | `OrderPayment` implements `OrderLifecycle` |
| OrderPaymentRefinement | `StockIsConserved` | shelf and held units add up to the initial stock |
| ItineraryDepositProofs | `TypeCorrect`, `PaidQuotesAreBacked`, `CancelledQuotesAreReturned`, `QuotedRequestsHaveQuotes`, `RequestsFollowTheLifecycle` | the same for requests, quotes and deposits |
| ItineraryDepositProofs | `TakenDepositsAreCarried` | a captured deposit is never in nobody's hands before a fault |
| WsHubProofs | `HubTypeCorrect`, `HubNeverPanics`, `RoutesAreLive` | no send channel overflows, is closed twice or is used when closed; the map holds live handlers only |
| WsHubProofs | `NotificationAtMostTwice` | nothing is shown more often than it was sent |
| StorefrontProofs | `ShopTypeCorrect`, `StockIsAccounted`, `PurchasesWereAdded` | stock is what the editor wrote less what was sold since, and never negative; nobody buys more than was added |
| StorefrontProofs | `AccTypeCorrect`, `LinksActivateOnce`, `SendsAreThrottled`, `ErasedAreLockedOut` | a link works once; the throttle holds but for one e-mail per failure of Redis; no token of an erased account outlives the entry on the blocklist, but for one that a log-in in flight minted after it |
| StorefrontProofs | `ThrottleIsNotForever` | a throttle without an expiry is the work of a fault |
| StorefrontProofs | `TfaTypeCorrect`, `BackupCodesWorkOnce`, `GuessingIsBounded` | a backup code is accepted once; guessing stops at the limit and what overtook the lock |
| PricesProofs | `PriceTypeCorrect`, `PricesAreAlwaysLeast`, `BillsHold` | prices are the least on the grid that cover the amount, at every rate; a bill covers its price and its rate explains it |
| BackOfficeProofs | `PaymentsComeFromEvents`, `ClearMoneyIsCarried` | what is paid goes back to an event of captured money, and captured money that can be told apart is not forgotten |
| BackOfficeProofs | `SitemapIsRight`, `LiveIsReviewed`, `LiveTextIsLeftAlone` | the sitemap's addresses at rest; what goes live is in review at that moment, and editors leave live text alone, but for the races the formulas name |
| BackOfficeProofs | `FilesAreRight`, `PdfsAreCurrent` | what a key leads to, at every moment, and at rest where PDFs are rendered |
| BackOfficeProofs | `ShownAreThere`, `AppendsComeLast` | galleries show what has a row and a file, but for the keys and deletions the formula names; an append comes last |
| BackOfficeProofs | `PlannersAreToldOnce`, `FlaggedAreCarried` | no planner is told twice of a request, and none is forgotten once its flag is set |
| BackOfficeProofs | `EventsHaveConsent`, `PastFiguresAreRight` | events need consent; figures of past days are their events' |

Every invariant and action property that a passing run checks is stated by one of these theorems.
The other way round, `LiveTextIsLeftAlone`, `EventsHaveConsent` and the six theorems on what is carried (below) have no run of their own, and the type invariants are not run where a theorem exists.

Where an assumption is more than typing: `TfaCalls` and `Clerks` are finite, since the requests or workers at one time are
counted; there is a customer; and a raw rate is large enough that the markup leaves something of it
(`RatesAssumption`), as every rate of a currency the shop sells in is. That fees and the limits of shipping tiers are
whole numbers (`TiersAssumption`) is a CHECK of their columns.

**The argument, larger modules.** The models of section 2's first part have some twenty actions each, but
a variable changes in few ways. The proofs therefore go in two layers. *Frame lemmas* (`StatusFrame`,
`IntentFrame`, `RowsFrame`, `TaskFrame`, ...) go through the actions once and say how
one variable can move: for example, that an order's status only follows the lifecycle's
edges and becomes `paid` only by a task, or that a row of the ledger never disappears
and changes status only forward. The inductive steps then speak of moves, not of actions.

None of the properties is inductive by itself:

- *Side effects* (`SideEffectsInv`): the task that wins MarkPaid's compare-and-set is the
  only one in flight for its order. Paid orders stay past `created`, so no later task,
  retry or replay can win again, and a crash puts the winner back to the queue where it
  loses.
- *Orders' money* (`MoneyInv`): a chain from the gateway to the order. The intent exists
  only after checkout opened it (`OpenedOnce`); success events are about captured money
  and are past the commit only with a row that shows it (`GenuineEvents`); tasks come from
  such events (`GenuineTasks`); orders are paid by such tasks (`PaidIsSettled`); refunds
  start from paid orders and touch the database only after the gateway's answer
  (`RefundsInOrder`).
- *Deposits* (`DepositInv`): the same chain through `GenuineRows`, `GenuineTasks`,
  `GenuineQuotes` and `RefundsInOrder`, plus `QuotesInOrder` (the quote is written before
  the request moves, so that a crash leaves a quote without a request and never the
  reverse) and `OfferedHasIntents` (intents exist for requests that were quoted).
- *Hub* (`HubInv`): an entry of the map is a connection of that user and that hub whose
  handler has not unregistered yet (`Routes`), and a channel is closed only when its
  handler is gone or its loop has stopped (`ClosedIsOver`). Together, whatever the map
  leads to is open.
- *Routing* (`RouteInv`): the newest payment is the intent's own until its event is recorded
  (`OwnersKnown`), tasks come from recorded events of captured money (`TasksKnown`), paid rows from such
  tasks (`PaidKnown`).
- *Sitemap* (`PubInv`): between a change of the addresses that are published and the next right file, there is a
  request about to enqueue, a job in the queue, a rebuild that read what is published now (`Pending`), or
  an excuse, and no rebuild under way can spoil a right file but one that was passed (`SitemapFollows`). A move changes
  the addresses only to or from "published", and its request then asks for a rebuild unless it had read another status.
- *Review* (`DesksKnow`): a request that is about to publish found the page in review, and unless another request passed it
  the page still is, or is gone.
- *Documents* (`DocInv`): a key that can be followed belongs to the row and leads to a right file
  (`KeyHolds`), what a job has in hand is of the version it read unless it was overtaken (`HandsHold`,
  `JobHolds`), and what is not current is on its way (`OnItsWay`): about to be asked for, in the queue, in hand, or excused. This
  last part is about PDF_MODE=chromedp; in the other mode jobs end with nothing done.
- *Media* (`MediaInv`): rows have files, or never had one, or lost it to a deletion (`RowsHaveFiles`), what is shown has a row (`ShownHaveRows`), a
  request past the store's deletion had a row (`DeletedHadRows`), and an append that nothing passed
  remembers the gallery's maximum (`LastIsLast`, with `MaxIsLargest` of DataLemmas).
- *Alerts* (`AlertInv`): who is still on a clerk's list has not been told of that request, and no two
  clerks have the same request in hand (`ToldOnce`, `WorkIsSound`, `Apart`), because one
  compare-and-set put it there.
- *Visitors* (`VisitInv`, `DaysHold`): an event's visitor consented unless the request was passed
  (`ConsentHeld`), rollups count past days only (`RollupsArePast`), and a past day is counted, to be
  counted, or missed (`DaysHold`).
- *Storefront*: stock and its account move together in every transaction; a link that is live in
  a row has never activated (`LinksOnce`); the throttle's count is at least what it let through
  (`GrantsCounted`), but for one e-mail per failure of Redis; tokens and entries age alike, and the entry is set with the longest
  lifetime a token can have, so that a token outlives it only when minted later; a code that is
  unused has been accepted from nobody and belongs to one user (`CodesAreFresh`).
- *Stock* (`StockInv`): by way of the refinement. Every step of OrderPayment is one of the lifecycle's or leaves
  it alone (`StepIsSeen`), and of the lifecycle's only Place and Cancel change what is held,
  by disjoint sets of units (`PlaceConserves`, `CancelConserves`).
- *Copies of a notification* (`CopyInv`): what a connection has seen of it or has in its channel, the copies in the subscription
  of its hub and the ways left on which one can still come never add up to more than the
  allowance (`Allowance`): each step only turns one form into another or drops it. The counting lemmas on
  sequences are in DataLemmas.
- *Purchases* (`BoughtInv`): the lines of a checkout and what was bought were both added (`OrderedWasAdded`), and
  what is in the cart too, but for units that were ordered and are about to be cleared from it (`CartWasAdded`);
  this needs that a customer's requests are alone in checkout (`AloneInCheckout`), or the customer is excused.
- *Guesses* (`GuessInv`): each request is in at most one of three groups: about to judge, about to count, about to lock (`Guessing`,
  `Guessed`, `Locking`). Before the lock, what was judged is counted, about to be counted or about to lock; after it, only
  those who are past the check can still judge. Each fault may lose as many as there are requests (`Slack`).
- *Prices* (`PriceInv`): each amount of a bill covers what it stands for at the highest raw rate the bill has met, and is the
  conversion at the current rate unless a refresh came between (`UnitPriced`, `ShippingPriced`). The arithmetic is in lemmas of one product each: rounded-up division
  is the least that covers (`CeilDivIsLeast`), so is the next step of a grid (`StepIsLeast`), so is the price across the two
  bands (`PriceIsLeast`), and the markup only lowers a rate (`MarkupLowers`).

**The safety half of liveness.** A liveness property fails when nothing is left that could bring
the good thing about, or when what is left is never scheduled. The second half is fairness, and TLC's. The first
is an invariant, and proved: as long as the goal is not reached, something named is enabled or on its way
to it. `CaptureIsCarried` of `CaptureIsNoticed`, `MockIsCarried` of `MockCheckoutSettles`, `DepositIsCarried` of `DepositIsNoticed`,
`ThrottleIsCarried` of `ThrottleLifts`, `ClearIsCarried` of `ClearIsSettled`, and `AlertIsCarried` of the part of `LateIsNoticed` after the
flag, which no later tick can repair. They need strengthenings of their own: the gateway uses an event's id once (`OneOfEach`), an intent's task
exists as soon as its event is recorded and not before (`RecordedHasTask`), a deposit that was counted has a step in hand
that moves the request (`CountedIsMoving`), and the owner of an intent exists before the money does (`RouteCarried`).

The refinements use the identity on `status`, `items` and `stock`, and for requests the
mapping `funds`, which reads off the intents whether money was taken or returned. Each
step is matched with a step of the abstract module or with a stutter (`Seen`).

**Only model-checked.** Liveness (`CaptureIsNoticed`, `DepositIsNoticed`, `MockCheckoutSettles`, `WriterEnds`,
`ThrottleLifts`, `LateIsNoticed`, `LowStockIsNoticed`, `AskedIsPrinted`, `ClearIsSettled`) is outside the prover's reach:
what is proved of it is the safety half above, where one is named. `WriterEnds`, `LowStockIsNoticed` and `AskedIsPrinted`
have none: the first needs no more than that a connection that is gone has a dead socket, the second is about a
check that was due at an earlier state, and of the third `PdfsAreCurrent` already says what can be said of one state.
The findings are counterexamples and need no proof.

---

## 6 Where code and documents disagree

Each run below is expected to fail, and its counterexample is the point. The quoted
sentences and lines are in `PROJECT.json`.

| Run | The document says | The code does |
|---|---|---|
| `FindingLostEvent` | errors are answered 500 so that no event is lost | the event row is committed before the enqueue; after a crash or failed enqueue the redelivery counts as a replay, and captured money is never noticed |
| `FindingPaidCancelled` | a conflict in MarkPaid is a replayed webhook | it may also be a customer's cancellation: the money stays captured on a cancelled order that Refund refuses |
| `FindingDoublePaid` | a cancellation refunds all amounts paid | PayDeposit may be called twice, RefundQuote returns the newest payment only |
| `FindingDeafTab` | IsUserOnline tells whether the user has an active connection here | the map has one entry per user; on a reload the leaving connection removes the new one's entry |
| `FindingStaleRates` | rates are refreshed daily at 16:05 | the cron entry means every minute of 05:00-05:59 on the 16th of the month |
| `FindingMisroutedDeposit` | the order id of an event is re-derived from the payments row | the row is looked at only without a number: a deposit on quote 1 pays order 1, if there is one, and is refused with a 500 until then |

Met while modelling, without a run of their own. Orders, payments, itineraries:

- Two operators refund, or an operator ships during a refund: the row ends `refunded`, the
  order keeps its status (`RefundTransition`'s ELSE). `backend/internal/models/payment.go:15-16`
  says that a refund moves the row and the order.
- `payment_repository.go:169`: "the intent row's status drives refunds"; the event's row ends
  `succeeded` too, is newer, and is the one a refund finds and marks.
- `paypal.go:201`: an approved PayPal order is taken for a paid one; the code never captures it.
- `paypal.go:290` scans leading digits, so that a PayPal reference beginning with digits carries a number
  that nobody gave it.
- `docs/TDD.md:324` names a timeout for unpaid orders; `jobs.go:292` schedules none, so an
  order that nobody pays keeps its stock.
- `itinerary_repository.go:739`: "a succeeded deposit blocks the re-quote in practice"; SendQuote reads
  the request before pricing and then upserts, so that a quote paid in between is `sent` again. An
  intent opened before a re-quote stays payable and pays the new quote at the old price
  (`migrations/000024...:37` calls only the latest quote payable).
- `itinerary_service.go:628`: refunding a request that is `confirmed` leaves it confirmed.
- `itinerary_service.go:597`: if the request's transition fails after the quote's, the request stays
  `quoted` with a paid quote; the retry finds the quote paid and ends.
- Two submits of one cart make two orders of it (`doubled`), and `BulkRemove` takes the SKU out of the cart
  with the units added since.
- A SKU in an order cannot be deleted (RESTRICT), one in a cart disappears from it (CASCADE).

Jobs, documents, content:

- `jobs.go:140`: "a flaky alert shouldn't be silently lost"; the task is retried, but a failed
  enqueue or a crash before it loses the alert, and the handler itself only logs its failures.
- `jobs.go:129`: a sitemap rebuild is "Retried ×5"; no MaxRetry is passed, so asynq's own default holds.
- Two rebuilds that overlap may leave the older sitemap. The deletion of a live page asks for none, and neither does a super
  admin's edit of a live page's slug (`product_repository.go:402-406`), though `sitemap.go:150` makes the address from it: the file then
  lists addresses that are gone until something else is published. `GET /sitemap.xml` of the API reads anew.
- `certificate_repository.go:61`: "service retries on a collision" of codes, but the repository never reports one.
- `itinerary_service.go:515-519`: when the request has moved since SendQuote read it, the call ends in a conflict after the quote
  has been written and its key cleared: the customer's new price has no PDF, and none is asked for (`unasked`).
- PDF_MODE is "local" by default (`config.go:161`, `docker-compose.prod.yml:58`): every pdf:generate job is done at once and
  `pdf_key` stays NULL. `main.go:926-928` says so; `certificate_service.go` issues certificates in that mode all the same.
- `itinerary_service.go:524`: "a re-quote clears pdf_key ..., so the new render overwrites the stale PDF"; a job that
  rendered the old price may finish last and write over the new PDF (`overtaken`).
- `internal/platform/i18ncontent/content.go:45`: "rejected --(editor edits)--> draft" happens nowhere. A page that was
  published can be `rejected` by a request that read it in review, without a rebuild, and `content.go:42-46` notwithstanding a
  draft goes live when it was taken down between a second approval's reading and its UPDATE: approved and unpublished by others
  meanwhile, it is published again by a request that saw it in review.
- `media`: the object is deleted before the row, RegisterAsset does not ask whether the object exists (so that a gallery may
  show a key that never had a file, without any failure), and two
  appends at once get the same `sort_order`.
- The rollup's "yesterday" is that of its execution: a retry after midnight leaves a day out. `POST /consent` is
  routed without the JWT middleware (`internal/api/router.go:106`), so the answer never names a user.

Users:

- `user_repository.go:208-236` and `:391-426` select 14 columns into 13 places: resetting a password and the
  admin's list of users always fail. `ResetPassword` is therefore absent from Accounts.
- Clearing a reset token stores "" under a partial unique index, which a second user would violate.
- A second DeleteAccount of an account answers 500 and not 409; a request that overlaps with the
  erasure writes personal data back into the erased row.
- `tokenblocklist.go:14-16`: "by the time the key expires, every outstanding token for that user has also expired"; a log-in
  that read the row before the erasure mints its token after `Revoke`, and that token is good for longer than the key
  (`late`). The `is_active` check that the comment relies on came before.
- The throttle fails open, as `email_throttle.go:36-38` and `:89-91` say: each e-mail asked for while Redis does not answer
  comes on top of the three.
- `email_throttle.go:58` "self-prunes", unless the process dies between INCR and EXPIRE: then the
  counter stays for ever and the address gets no more e-mails once it is full. `ThrottleLifts` therefore excuses faults.
- Confirm that overlaps with a second Enroll enables a secret nobody has proved; two
  RegenerateBackupCodes at once leave both generations valid.
- Two SetDefault of addresses at once: the unique index refuses one with a 500.

---

## 7 What is not modelled

The map covers some eight percent of the implementation's lines, and a model of
this repository will stay well below a third of them. Where the rest is:

- `internal/docs/docs.go`, 15 435 lines generated from comments, a third of the code by itself.
- HTTP handlers, request and response types, validation and error wording: conversion between JSON and
  the calls the modules are about.
- Listings, searches, facets, reports and exports: queries that change nothing.
- Edits of one row by one statement (categories, addresses, wishlists, notes, drafts, shipping tiers, rates of
  options, marking as read, provenance entries, audit records). Their only race is that the later write wins.
- The four content modules repeat the same workflow in their own files; Publishing and MediaLibrary map the
  products' copy and the shared package, and the other copies were read for differences only.
- The frontend: rendering, the state of one tab, the mock backend. What it sends is in the
  modules of the server. Load tests, monitoring, seed and backup scripts, PDF and e-mail templates, migrations
  (their constraints are used where a model depends on them).

Within what is modelled:

- Isolation: PostgreSQL statements and transactions are indivisible steps. The row locks taken
  inside a transaction, and the deadlock two transactions over the same SKUs may run into (PostgreSQL
  aborts one, the request fails as a whole), are not in these modules.
- Time: deadlines, expiries and timeouts are steps that may happen at any moment, except for the
  scheduler's clock in Prices and the day in Visitors.
- Amounts, except in Prices and where a property compares them (`price`, `asked` in ItineraryDeposit).
- Three hazards have no property, each with its reason in `PROJECT.json`: unpaid orders keeping stock
  (nothing ends them, section 6), the row-lock deadlock, and handlers blocked on a hub whose loop has ended.

---

## 8 What could follow

1. Row locks of `CreateOrder` against `SetCancelled`, as a module of its own below OrderPayment.
2. The browser's socket with back-off and polling on top of `WsHub`: a stored notification is seen in the
   end although pushes get lost.
3. What follows from the carriers: bounds on the steps between captured money and a paid order, which
   would take the fairness argument down to counting.
