# A TLA+ model of the pehliONE shop

`src/pehlione.com` is an e-commerce server in Go (Gin, GORM, MySQL 8): a catalogue,
carts, checkout, payments, refunds, shipping, mail and SMS outboxes, a customer area and
a back office. This directory holds TLA+ specifications of its core (orders, money,
stock, carts, catalogue, accounts, outboxes), TLC configurations that check them on
small instances, and TLAPS proofs of their safety properties for every instance. Paths
below are relative to `src/pehlione.com/`. `src/_Docs` is vendored tutorial material and
not part of the system.

Run TLC with `tlc -config MCPayments.cfg MCPayments.tla` and the proofs with
`tlapm PaymentsProofs.tla`.

## 1. The system

Everything the shop knows is in MySQL; processes keep no state that matters
between requests. Concurrency therefore means concurrent HTTP requests, the
webhooks of the payment provider, and the outbox and label workers (the web
server `cmd/web` and the process `cmd/worker` each start their own), all of them
on the same rows, with transactions at InnoDB's default isolation REPEATABLE
READ. Crashes lose whatever transaction is open and whatever a handler still
meant to do after a commit.

| Component | State | Operations | Hard about it |
|---|---|---|---|
| Order administration (`internal/modules/orders/admin_service.go`) | `orders.status`, `order_events` | `Transition`: cancel, ship, deliver | races with payments, refunds and label workers on one status column |
| Payments (`internal/modules/payments/service.go`) | `payments`, `order_financial_entries`, `orders.status` | `PayOrder` in three phases around a call to the provider | nothing is locked between the phases; retries, aborts, lost answers |
| Provider webhooks (`payments/webhook_service.go`) | `provider_events` and all of the above | `Handle` for four event types | events late, early, twice, out of order |
| Refunds (`payments/refund_service.go`) | `refunds`, `orders.refunded_cents`, `order_financial_entries`, `order_events`, `email_outbox` | `RefundOrder` in three phases | the gate of phase 1 is stale in phase 3; two writers of `refunded_cents` |
| Checkout and stock (`orders/service.go`, `checkout/stock.go`, `internal/http/handlers/checkout.go`) | `orders`, `order_items`, `product_variants.stock`, `cart_items` | `CreateFromCart` with `DeductStockInTx` in one transaction | snapshot reads mixed with locking reads, unique index, several row locks |
| Shipping (`internal/modules/shipping`) | `shipments`, `shipment_jobs`, `orders.status`, `order_events` | queue, lock a batch, buy a label, complete, retry | two workers, crash between label and completion, order refunded meanwhile |
| Email outbox (`internal/modules/email`) | `email_outbox` | enqueue, `LockBatch`, send, mark sent, retry, give up | a send whose answer is lost, two workers, rows left in `processing` |
| SMS outbox (`internal/sms/outbox_repo.go`, `worker.go`) | `sms_outbox` | as for mail, with an idempotency key | as for mail |
| Accounts (`internal/modules/auth`, `users`) | `users`, `email_verifications`, `password_changes` | sign up, verify the address, profile, change the password by a mailed link | hardly any of it is one transaction; the profile form writes the row back |
| Phone verification (`internal/sms/verification_service.go`) | `sms_verifications`, `sms_rate_limits` | send a code, enter it | the limit is checked first and counted last |
| Sessions (`internal/http/middleware`) | `sessions`, a cookie | begin at login, end by logout or time | the row itself is left out |
| Carts (`internal/modules/cart`, `internal/http/cartcookie`) | `carts`, `cart_items`, a guest's cookie | add, set the quantity, remove, merge at login, order | read-modify-write without locks; replies that get lost or overtake each other |
| Currency and rates (`internal/modules/currency`, `fx`) | `fx_rates`, a preference cookie | choose a currency, convert, refresh | every amount is rounded on its own; a rate may be missing |
| Catalogue (`internal/modules/products`, `internal/http/handlers/admin/products.go`) | `products`, `product_variants`, `product_images` | create, edit, delete | the form posts back the stock it displayed |
| File storage (`internal/storage`) | files on disk or in a bucket | put, delete | a file and its row are written apart |
| Wishlist (`internal/modules/wishlist`) | `wishlist_items` | add, remove | products go meanwhile |
| Lists (`products/repository.go`, `orders/repo_admin.go`, account pages) | none | filter, sort, count, page | a page is several SELECTs with nothing held between them |
| Reviews | a table no code uses | none | nothing |
| Rendering, PDF, configuration, middleware, commands | none | I/O and wiring | nothing |

How they interact: checkout makes an order in `created`; `PayOrder` or a webhook
makes it `paid`; an admin or a label worker makes it `shipped`, an admin
`delivered` or `cancelled`; a refund makes it `partially_refunded` or
`refunded`. All of them meet in the row of the order. Refunds and shipping put
mail into the outbox inside their transactions; checkout does so after its
commit. Checkout takes the lines of the cart, at the prices of the catalogue and
the rates of the currency module, out of the catalogue's stock; a login merges the
cookie's cart into the account's; a variant that a cart or an order refers to cannot be
deleted, nor its product.

What makes each of them correct: money and order status agree, nothing is booked that
the provider did not do or booked twice, statuses only move forward, a refund never
exceeds what was paid, stock is neither lost nor sold twice, a repeated form makes one
order, a label is bought once per shipment, a mail is sent no more often than its
attempts explain, units move from cart to order without getting lost, the order charges
what the page has shown, a file and its row come and go together, a walk through a list
misses nothing, a password comes into force only by a link that was valid when it was
followed. `PROJECT.json` lists the hazards at the lines where they bite and the
properties that watch them.

## 2. Modules

    module       extends      implements    proofs            TLC
    OrderAdmin
    Payments     OrderAdmin   Settlement    PaymentsProofs    MCPayments
    Refunds      Payments     Settlement    RefundsProofs     MCRefunds
    Shipping     OrderAdmin   JobQueue      ShippingProofs    MCShipping
    Fulfilment   Refunds,     Shipping      RefundsProofs     MCFulfilment
                 Shipping
    Checkout                  Inventory     CheckoutProofs    MCCheckout
    Outbox                    JobQueue      OutboxProofs      MCOutbox
    Accounts                                AccountsProofs    MCAccounts
    Pricing
    Catalogue    Pricing
    Carts        Catalogue
    Listings     Catalogue
    Storefront   Carts, Listings              StorefrontProofs  MCCarts

`RefundsProofs` extends `Fulfilment`, `PaymentsProofs` and `ShippingProofs`; the other
proof modules extend the module they are about. `SumLemmas` holds the facts about sums
over finite sets that `RefundsProofs`, `CheckoutProofs` and `StorefrontProofs` use.

### OrderAdmin

The row of an order as several components see it: `status`, `refunded`
(`refunded_cents`) and `audit` (`order_events`, kept as a set of rows, since no
property counts them). `Transition` is `AdminService.Transition`: it locks the row,
looks the target up in `nextStatus` and writes status and audit row in one
transaction. `MarkPaid` is the guarded `UPDATE ... WHERE status = 'created'` that
payments use, `AddRefund` the arithmetic that both writers of refunds contain.

`OrderStep` is the interface between the components: all that payments, refunds and
the back office ever do to an order. `Refunds` is shown to keep to it (`OrderSteps`),
`Shipping` takes it as its environment, and `Fulfilment` puts the two together.

### Payments

`pay` is the `payments` table with one row per (order, idempotency key), `ledger`
counts the `payment_succeeded` rows of `order_financial_entries`, `call` holds requests
in progress, `charge` and `sent` are the provider's side, `received` the committed
`provider_events`.

| Action | Code |
|---|---|
| `PayOrderBegin` | phase 1 of `PayOrder`: lock the order, gate, find or insert the row |
| `CreatePayment` | phase 2, the call to the provider with no transaction open |
| `PayOrderFinalize` | phase 3: overwrite the payment row, ledger row, guarded update of the order |
| `PayOrderAbort` | a crash, a cancelled context or a database error between or in the phases |
| `CaptureCharge`, `DeclineCharge` | the provider settles a charge and sends the news |
| `HandlePaymentEvent` | `WebhookService.Handle` with its two apply functions |

Each transaction begins with a locking read or an insert, which every other
writer of the same rows needs as well, so one transaction is one action. Phase 2 is
a separate action because nothing is locked across it. The provider is any
implementation of the `Provider` interface: it may answer initiated, succeeded,
something else, or an error although it made the charge; it may capture a charge
it has declined before; and it may send its news under several event ids. An
event whose reference no payment holds rolls back and is answered 500, and the
provider tries again: the action is then simply not enabled.

### Refunds

The same three phases for `RefundOrder`, and the refund half of the webhook,
composed with all of `Payments`. `notified` stands for the confirmation row in the
mail outbox, which phase 3 writes when it knows an address; a webhook writes
neither such a row nor an audit row, and so does the model. When an order has
several succeeded payments the code takes the latest; the model takes any.
`RefundOrderAbort` also covers the victim of an InnoDB deadlock: phase 3 locks the order
and then the refund, the webhook the refund and then the order.

The provider may settle a refund anew: what has failed can still be carried out
(`GiveBackDone`), and money that was given back can come back (`GiveBackFails`, state
"returned"). Each time the news is sent under every event id of `RefundEventIds`, in any
order and as late as it likes; the webhook drops only what it has committed under the
same type, reference and id. It adds the amount whenever the row is not "succeeded", and
looks only the ledger row up first, so a refund that succeeds, fails and succeeds again is
added to `refunded_cents` twice with one ledger row. So is one whose key was used twice.
`RefundedMatchesLedger` names these refunds (not `Plain`) and says what holds with and
without them. `MaxTries` bounds the requests for one refund key, `MaxRequests` those for
all together.

### Checkout

One transaction modelled statement by statement, because its first reads lock
nothing.

| Action | Code |
|---|---|
| `Post`, `GuestPost` | `CheckoutHandler.Post` up to the transaction; a guest gets a temporary cart and no key |
| `ReadSnapshot` | the look-up by idempotency key and the read of the cart; the first plain read fixes the snapshot (`seen` are the orders in it) |
| `LockVariant` | `SELECT ... FOR UPDATE ... ORDER BY id`, row by row |
| `CheckStock`, `Deduct` | `DeductStockInTx`: compare all lines, then subtract all |
| `InsertOrder` | the insert, which waits for an uncommitted order with the same key |
| `DuplicateKey` | the unique index refuses, and the code looks for the winner |
| `Commit` | delete the cart lines as they are now (a guest's cart as a whole) and commit |
| `Fail` | every other error return and a crash: the transaction is undone |
| `AddToCart`, `RemoveFromCart`, `UpdateVariant` | the customer and the back office meanwhile |

`stock` holds the row with the uncommitted writes of the transaction that has
locked it, `lock` who that is; `supply` is a history variable. The branch of
`DuplicateKey` that returns nil would commit a transaction that has deducted stock
but written no order; it is in the model, and `StockConserved` shows that it is never
taken: whoever has the winner in its snapshot has already returned. Adding a new
cart line waits for a lock on its variant through the foreign key. There is no
deadlock detector in the model; `EveryPostAnswers` shows that checkouts need none.

### Shipping

A shipment has at most one job (unique index on `shipment_jobs.shipment_id`), so one
id stands for both. `job` is the row of `shipment_jobs` with its `locked_by`, `worker`
the loop of one `Worker` (there is one in the web server and one in `cmd/worker`),
`labels` what the carrier has acknowledged, `mails` the "shipped" rows of the outbox.

| Action | Code |
|---|---|
| `QueueShipment`, `CreateManualShipment` | the two admin forms; both lock the order first |
| `LockJobBatch` | `SELECT ... FOR UPDATE SKIP LOCKED LIMIT 5` and the update to `processing`, one transaction |
| `CreateLabel` | `ProcessJob`: the carrier answers with a label |
| `RetryJob`, `MarkJobFailed` | the carrier answers with an error: `retryJob`, and `markJobFailed` at the last attempt |
| `ReadOrder` | `completeShipment` reads the order without a lock; if it cannot be shipped any more everything is rolled back |
| `CompleteShipment` | its writes, with `promoteOrderStatus` judging by what was read |
| `Fault` | a failed or cancelled write, which `tick` only logs, or the death of the process with its batch |
| `OrderStep` | payments, refunds and admins meanwhile |

`OrderStep` allows more than those components do; that they do no more than it is shown
in `Fulfilment`. `ProcessJob` also gives a job up when there is no carrier or the
payload does not parse; both programs refuse to start without a carrier, and the only
writer of payloads is `QueueShipment`, so neither happens. Nothing ever frees a job in
`processing` whose worker has gone: there is no lease, and `OrphansExplained` says how a
job gets there.

### Fulfilment

`Refunds` leaves shipping by label out, and `Shipping` lets `OrderStep` stand for
everybody else. `Fulfilment` has no actions of its own: a step is one of `Refunds` (with
payments, webhooks and the back office) or one of the forms and workers of `Shipping`, on
the same orders. Its `ImplementsShipping` says that the whole is still `Shipping`, in
other words that being shipped never makes payments or refunds do what `Shipping` does
not expect; `ParcelsArePaid` relates the two ends of the chain, parcel and money.

### Outbox

Mails and text messages go through the same protocol over two tables, so one module
holds both: `row` is the union of `email_outbox` and `sms_outbox`, and a worker reads one
of them (`Outgoing`). `sender` is the loop of one worker, `delivered` the recipient's
side, `answered` what a worker was told has been sent.

| Action | Code |
|---|---|
| `Enqueue` | the insert in the business transaction |
| `LockBatch` | `LockBatch` and `FetchAndLock`: `SELECT ... FOR UPDATE SKIP LOCKED` and the update to `processing` |
| `SendAccepted`, `SendRefused` | the mail server or the SMS provider answers; an error may hide a delivery |
| `MarkSent`, `MarkRetry`, `MarkFailed` | what the worker writes after the answer |
| `Fault` | that write fails and is only logged, or the worker stops with its batch |

What distinguishes the two is `Deliver`: every attempt at a text message carries the
same idempotency key, by which the (external) provider sends it once. A graceful stop
cancels the context, so the mark after a send fails like any other write. Every mail that
the code enqueues names a template that exists and a complete payload, so the branch
of a mail that cannot be rendered is never reached and left out. There is no lease.

### Accounts

One account, since users share no row. `call` holds the requests on the server, each at
its next statement with what it has read; `meant` is a history variable: the row as
it would be if no profile form had been open during another write.

| Action | Code |
|---|---|
| `SignUp`, `CreateUser`, `StartEmailVerification` | `SignupPost`: look up, insert, ask for the mail; the account page asks for another |
| `VerifyEmail` | the mailed link, one transaction |
| `EditRead`, `UpdateUser` | the profile form: `Updates(user)` writes back every column that is not zero |
| `SaveSMS` | the SMS settings, which write their own columns only |
| `ChangePassword`, `ConfirmPasswordChange`, `UpdatePassword`, `ApplyPasswordChange`, `CancelPasswordChange` | a password change: asked for, link read, password written, link marked; or cancelled |
| `CheckLimit`, `DeleteCodes`, `InsertCode`, `SendCode`, `RecordAttempt`, `RecordFirst` | `StartPhoneVerification`, statement by statement |
| `EnterCode`, `MarkVerified`, `WritePhone` | `VerifyPhoneCode` and its handler |
| `TokenExpires`, `ChangeExpires`, `CodeExpires`, `LimitExpires` | time |
| `Stop` | a crash or a failing statement between two of the above |

A link or code is open or it is not: no query tells used, expired and deleted rows apart.
`limit.count` is never reset by the code, so after an expiry one more attempt blocks
again; the model does the same.

### Pricing, Catalogue, Carts

`Pricing` is operators only: conversions with their rounding, the choice of the
currency that is shown and of the one that is charged, what the checkout page
adds up (`PageTotal`) and what the order adds up (`OrderTotal`). Amounts are cents, rates
fractions. A rate may be stored as zero, and the code is not of one mind about it
(`Usable`): the cart and checkout pages then leave their lines as they are under the
foreign currency (`PageLine`), other amounts, the shipping among them, are converted to
nothing (`Displayed`), and the order falls back to the base currency (`OrderCurrency`).
Without any rate every amount is shown as it is.

`Catalogue` keeps `product`, `variant`, `image`, `files` and `wished`. What the back
office does in one statement is one action. An *errand* is what takes several:
`EditForm` and `UpdateVariant` (shown, posted later), `PutFile`, `InsertImage`, `NoRow`,
`UndoPut` (upload), `GetImage`, `DeleteFile`, `DeleteImage`; `GiveUp` is a failure or a
stop between two steps. Local storage and a bucket differ: to delete a missing file is
an error on disk and not in a bucket, and a picture entered by the address of an
uploaded one shares its file on disk. So with local storage the row of a picture whose
file is gone, or that has a foreign address, can never be deleted; the model shows the
same.

`Carts` has `jar` (the cookie of each browser), `items` (the account's cart), the requests
under way with the cookie they carried, and the order made.

| Action | Code |
|---|---|
| `GuestAdd`, `GuestUpdate`, `GuestRemove` | the cart handlers on a cookie: read it, answer with a new one |
| `AccountAdd`, `AccountUpdate`, `AccountRemove`, `ApiAdd` | the same with a session |
| `GetCart`, `CreateCart` | `GetOrCreateUserCart` |
| `FindLine`, `UpdateLine`, `InsertLine`, `InsertFails`, `RemoveLine` | `AddItem`, `RemoveItem`: a SELECT and a write |
| `Login` | `LoginPost`, with the merge item by item through the same steps |
| `OpenCheckout`, `Submit`, `ShowAgain`, `ReadCart`, `PlaceOrder`, `RefuseOrder` | the checkout page and its form; the transaction is one step here |
| `Reply`, `Lose` | the browser gets the cookies of the reply, or it does not |
| `EndSession`, `ChooseCurrency`, `TickRates` | logout or time, the currency form, the worker that fetches rates |

A signed-in customer's update to a quantity above zero always ends in an error
(`internal/modules/cart/repo.go:103`, an UPDATE that names no table); a guest's
`POST /api/cart/add` answers success and adds nothing. Both are modelled as they are.

### Listings, Storefront

`walk` is a visitor who goes through one of five lists from page to page; `order` the rows
of two of the lists.

| Action | Code |
|---|---|
| `Visit`, `FilterForm`, `StatusForm` | a list is opened, with filters and a sort order |
| `CountRows` | the COUNT (for products without the filters: `products/repository.go:91`) |
| `FetchIds`, `LoadRows`, `LoadPanics`, `LoadFacets` | `ListFiltered`: ids, products, categories |
| `FetchOrders` | a page of orders, of an account or of all |
| `ReadWishes`, `ShowWishes`, `ShowWishPage` | the wishlist on the account page and on its own |

The next page is there if the page before offers a link to it (`NextOfProducts`, ...,
from the compiled templates). `LoadPanics` is the error page when a product is deleted
between the query for ids and the one for rows (`products/repository.go:129`).
`Storefront` composes all of it: `Watch` records what a step of anyone does to the lists
that are being walked.

### Settlement, Inventory, JobQueue

What payments, checkout and label jobs promise, with no calls, events, retries,
transactions or snapshots: money is captured, then booked, and the first booking settles
an open order; an order takes all of its units in one step and only if they are there,
and a customer's key makes one order; a job is taken by one worker at a time, its work
is acknowledged at most once, it is finished only after that and given up only after
`MaxAttempts` failures. `Payments`, `Checkout`, `Shipping` and `Outbox` implement them
(`ImplementsSettlement`, `ImplementsInventory`, `ImplementsJobQueue`); the mappings are
at the end of the four modules.

## 3. What is checked

| Run | Bounds | Shows |
|---|---|---|
| `payments` (MCPayments.cfg) | 1 order, 2 keys, 2 concurrent calls, 3 charges, 1 event id, every answer, aborts | order, payment rows and ledger stay consistent; `Settlement` is implemented |
| `payments_retry` (MCPaymentsRetry.cfg) | 1 key, 2 calls, 2 charges, no aborts | **violation** of `WebhookFinalizes` |
| `refunds` (MCRefunds.cfg) | 1 payment, no payment events, 2 keys, 2 calls, 2 requests, 2 provider refunds that may be settled anew, 2 event ids, amounts 0, 1 and 3 of a total of 2, every answer, aborts | `refunded_cents`, status, refund rows, ledger and confirmations agree; orders change only as `OrderStep` says |
| `shop` (MCShop.cfg) | the deployed configuration: every answer is "initiated"; 2 charges, 2 event ids; 2 requests for one refund, settled anew, 1 event id; fairness | booked once; what was captured or given back on a stored reference gets booked |
| `refund_gate` (MCRefundGate.cfg), `over_refund` (MCOverRefund.cfg) | deployed configuration, 2 refund keys | **violations** of `RefundGate` and `NoOverRefund` |
| `shipping` (MCShipping.cfg) | 1 order, 2 shipments, 2 workers, batches of up to 2, 2 attempts, 1 crash or failed write, fairness | one worker per job, one label per shipment, nothing shipped unpaid or unrecorded; statuses move forward and leave an audit row, whatever payments, refunds and admins do; jobs are settled or orphaned, orphans are explained; `JobQueue` is implemented |
| `checkout` (MCCheckout.cfg) | 2 requests of one customer or guests, 2 keys, 2 variants with 2 units and 1, quantities to 2, one restocking level, failures, fairness | no overselling, no lost unit, one order per key, every request answered; `Inventory` is implemented |
| `checkout_conflict` (MCCheckoutConflict.cfg) | one form sent twice | **violation** of `ConflictReturnsOrder` |
| `outbox` (MCOutbox.cfg) | 2 mails, 1 text message, a mail worker in each of the two processes and a text worker, batches of up to 2, 2 attempts, 1 stop or failed write, fairness | deliveries are explained by attempts, a text message comes once; every message is sent, given up or orphaned; `JobQueue` is implemented |
| `accounts` (MCAccounts.cfg) | 2 calls at a time, 2 password changes, 3 codes, 3 of both together, a limit of 2, 1 stop, one phone number or none | the password in force was confirmed by a valid link; the profile form takes back nothing but what changed while it was open; the limit of codes holds but for overlaps |
| `carts` (MCCarts.cfg) | nine scenarios, see below | no unit lost or doubled between cookie, cart, order and shelf without a named cause; the order charges what the page has shown; files and rows agree; a walk sees every row once, in order |

`carts` starts in any of nine scenarios (`MCScenarios`), each with its own bounds on
requests, errands, walks, lost replies, market changes and back-office statements, so
that the parts meet in pairs and the state space stays small:

| Requests | Errands | Walks | Lost | Market | Office | Storage, rows |
|---|---|---|---|---|---|---|
| 3 | 0 | 0 | 1 | 1 | 0 | local, two products |
| 2 | 1 | 0 | 0 | 0 | 0 | local, two |
| 2 | 0 | 0 | 0 | 0 | 1 | local, two |
| 0 | 2 | 0 | 1 | 0 | 1 | local and bucket, two |
| 0 | 1 | 1 | 0 | 0 | 0 | local, three products |
| 0 | 0 | 1 | 0 | 0 | 1 | local; two, three, or two with one time of creation |

Why the bounds are enough. One order suffices because orders share no row: two orders
interact in no guard of the code. Two keys and two calls give every race of same-key and
different-key requests; the third charge lets a retry follow a race. In `shop` a second
event id lets one piece of news be applied twice with something in between; in `refunds`
it brings the success again after the failure. Two refund requests overlap, follow each
other, or use one key twice. A total of 2 with amounts 1, 2 (as 0) and 3 gives a part,
all, and too much. Two requests over two
variants give overselling, deadlock and the race on the unique index; the second
transaction always has a first to wait for, to lose against or to follow. Two shipments
make a batch that is half done when its worker dies, two attempts a retry and a last one,
and a total of 1 is enough for `shipping`, which treats partly and wholly refunded orders
alike. In `outbox` the two mail workers race for two rows while a batch may be half done,
and the text worker shows the other rule of delivery. In `accounts` two calls are every
pair of statements that can interleave, two changes a replaced link, and three codes one
more than the limit. Three requests in `carts` are two that overlap and the login or
checkout that follows; a page of two products with three of them, and of one row
elsewhere, gives a first, a last and an empty page. Prices of 333 and 350 at a rate of
7/20 make lines, subtotal and total round differently; a second rate is zero. `MaxTries`,
`MaxRequests`, `MaxSupply`, `MaxQty`, `PayRefs`, `EventIds`, `RefundRefs`,
`RefundEventIds`, `MaxFaults`, `MaxChanges`, `MaxCodes`, `MaxAsked`, `MaxStops` and the
limits of a scenario are the only bounds on what could otherwise grow without limit.
For safety the proofs of section 5 remove all of them.

`CHECK_DEADLOCK FALSE` stands where the system may really stop: orders can end in
final states and a customer need not do anything; in the checkout run an idle
customer can always add or remove a line, so deadlock is checked there. In the
shipping run every shipment can be settled and the order final.

The configurations use symmetry where only safety is checked; liveness runs use
none.

### Fairness

`PayFairness` and `Fairness`: a handler that holds an answer of the provider goes on to
its third phase (or is aborted), since goroutines are scheduled; and an event is
delivered again until it is accepted, because `WebhookHandler` answers 500 to every
error (`internal/http/handlers/webhooks.go:39`) and providers repeat what was not
answered 200. `PayFairness`, which `payments_retry` uses, also lets a call to the
provider end; the counterexample is then not a call that hangs. `FairShippingSpec`: the
ticker fires every two seconds, and a tick that has begun goes on until the process
dies. Nothing makes a customer pay, a bank settle or an admin act. Weak fairness of
`HandlePaymentEvent` is enough, since the action stays enabled as long as some payment
holds the reference. `FairCheckoutSpec`: a transaction that can go on goes on; InnoDB
grants a lock or an index entry when it is free, and a waiting transaction that never
gets it would be answered by a time-out (`Fail`, not assumed fair). Nobody has to check
out, shop or restock. `FairOutboxSpec`: each worker's ticker keeps firing while its
process lives, and a locked batch is worked on; a send ends, with success or an error.
For mail the last is an assumption about the mail server: the code limits the time to
connect and not that of the dialogue after it. Nothing makes a send succeed. `carts` and
`accounts` are about safety only: no customer has to come back.

## 4. What the violations say

- **`WebhookFinalizes`.** Each `PayOrder` with the same key asks the provider for a
  new charge and overwrites `provider_ref`; a webhook for the first charge finds no
  payment and is refused for ever. `StoredRefGetsBooked` states the part that holds:
  money taken on the reference that is still stored is booked.
- **`RefundGate`.** The refundable gate is checked when a refund is asked for, not
  when it is booked; in between the order can be shipped and delivered.
- **`NoOverRefund`.** What remains is computed from `refunded_cents`, which moves when a
  refund is booked: two requests before the first webhook ask for the total twice.
  `refunded_cents` is capped, so the shop's own books do not show it
  (`RefundedMatchesLedger` holds with the cap).
- **`ConflictReturnsOrder`.** The look-up after a duplicate key is a plain `SELECT` in the
  same REPEATABLE READ transaction, whose snapshot is older than the winner: the second
  of two simultaneous forms is answered with an error. Nothing is ordered twice.

Beside these, modelled as they are and part of what the properties allow:

- A product deleted between the query for a page's ids and the one for its rows makes the
  list panic (`LoadPanics`; `products/repository.go:129`), answered with an error page.
- The count of the product list has lost the filters, so filtered lists offer pages that
  are empty; rows with one time of creation have no order and may show twice.
- The merge at login goes on after an error and then clears the cookie; a lost reply to
  the login makes the browser send the cookie, and have it merged, again.
- A guest's cookie with a deleted variant shows no such line, and fails at checkout until the
  cookie is gone; a refused guest checkout leaves a temporary cart, which keeps its
  variants from being deleted.
- The form of a variant posts back the stock that it displayed (`overwritten`).
- `refunded_cents` runs ahead of the ledger when a refund succeeds, fails and succeeds
  again, or its key is used twice (`Plain`).
- At a stored rate of zero the checkout page shows its lines at par in the foreign currency
  and the order charges the base currency (`ChargedAsShown`, the last case).

## 5. What is proved

By TLAPS, for any number of orders, keys, calls, charges, variants, customers, requests,
messages, workers, links, codes, products and pages: every invariant and every action
property of the passing runs, and the refinements. The assumptions are the named `ASSUME`s
of the modules: names are distinct, amounts are numbers, the optional answers are among
those the code knows. For sums and lists also: the rows of a table are finitely many, an
exchange rate is a fraction that is not negative and may be zero (`decimal(18,8)`), a page
holds at least one row (the page sizes are constants of the code), and the ids of products
have an order (they are compared as strings). A scenario of `Storefront` may start with
any rows that the foreign keys and the unique index of the wishlist admit.

**Payments** (`PaymentsProofs`). `PaymentsTypeOK` is inductive. The ledger properties
are not: `LedgerBacked` needs to know that whatever will be booked has been captured
for that very payment. `PayInv` therefore adds `RefInv`: an unused reference belongs
to nobody (`UnusedIsFree`), an answer in flight holds a charge of its own payment and
a captured one if it says "succeeded" (`CallHoldsOwn`), a row holds a reference of its
own payment (`RowHoldsOwn`), and the news of a capture is true (`NewsIsTrue`). With
it `LedgerBacked`, `SucceededIsBooked` and `OrderMatchesLedger` are preserved
together. `LedgerOnce` follows from `OnceInv` (no call holds "succeeded" when the
provider never answers it), `AuditTrail` from `AuditInv`, `StatusMoves` from the type
invariant. `PaymentsImplementSettlement` maps every step to `Capture`, `Book`, `Cancel`
or a stutter.

**Refunds** (`RefundsProofs`). `AllInv` is `TypeOK`, `PayInv` and `RefundInv`, the last
with the same four facts about refund references. `RefundNeedsMoney` is what keeps
`PayInv` true: a refund moves an order to a settled status, which is right only because
its payment is booked. What `PaymentsProofs` shows of payments alone is proved again for
the composed system, where refunds write the same orders: `OrdersStillMatchLedger`,
`StillBookedOnce`, `StatusStillMovesForward`, `AuditTrueWithRefunds` and
`ShopImplementsSettlement`. `OrdersChangeAsDeclared` proves the interface `OrderSteps` from
`AllInv`. `RefundedIsWhatIsBooked` has two parts. That `refunded_cents` never falls behind
the booked refunds, up to the total, holds of every order, because whoever writes a
ledger row adds the amount in the same step (`BookedGrows`). That it is just their sum is
for orders all of whose refunds are `Plain`: their key was used once and the webhook has
not heard both that they succeeded and that they failed. A refund that is plain after a
step was so before it (`PlainBefore`, since what was heard stays heard, `HeardStays`), so
each step is either away from the order or books a plain refund for the first time
(`PlainBooksOnce`). That needs `Once`: one call at most is about such a refund, until
that call is over its row is initiated and has no reference, so that no webhook finds it,
and a row that has left "succeeded" was turned by news that the webhook has heard.

**Shipping** (`ShippingProofs`). `OneWorkerPerJob` and `LabelBoughtOnce` are not
inductive: a job must be known to be locked by the very worker that has it in hand.
`ShipInv` adds that (`WorkersHoldOwn`, which also ties the label to where the worker
stands), the agreement of job, shipment, label and mail (`JobsAgree`), that the order
of a shipment was and stays settled and how an orphan came about
(`OrdersOfShipments`), and what `order_events` and `refunded_cents` say of a status
(`RowsAgree`; an order is refunded only with all of its total, else it could become
partly refunded again). `ShippingImplementsJobQueue` maps every step to one of the
queue or a stutter.

**Fulfilment** (at the end of `RefundsProofs`). Each half is proved to live with the
other's steps: a step of payments or refunds is an `OrderStep` (`NextIsOrderStep`, from
`AllInv`), which `ShipInv` survives, and a step of shipping moves a paid order to shipped at
most (`ShippingMoves`, from `ShipInv`), which `AllInv` survives (`ShippingKeepsAll`). The
argument is not circular: both invariants are assumed of the state before the step only
(`FulfilmentStep`). `ShippingInContext` is the refinement, and with it every theorem of
`ShippingProofs` is one about the shop (`StatusMovesInContext`, `AuditInContext` spell out
two). `LedgerInContext`, `RefundsInContext` and `SettlementInContext` do the same for money.
`ParcelsPaid` needs both invariants: a shipment that exists is for a settled order, and a
settled order has booked money that was captured.

**Checkout** (`CheckoutProofs`). `StockNeverNegative` needs `LocksHeld` (a transaction
past its locking phase holds the rows of its lines) and `StockReserved` (what it has
compared is still there when it deducts). `OneOrderForOneKey` needs `KeyInv`: snapshots
hold committed orders only, a transaction past its first read has no order of its key in
its snapshot, and of two requests with one key at most one is past its `INSERT`.
`CheckoutImplementsInventory` uses both; the mapping adds what an open transaction has
deducted back to what is available, so that COMMIT is the one step that places the
order. `NoUnitLost` (`StockConserved`) sums over the transactions that have deducted: a
step adds one to them or takes one out, and the stock moves by just its lines.

**Outbox** (`OutboxProofs`). `DeliveriesCounted` needs to know whose hands a message is
in: `OutInv` adds that what a worker holds is marked as its own and held by no one else
(`SendersHoldOwn`), that a row's status, attempts and deliveries agree wherever its
worker stands (`RowsAgree`), and that without a fault nothing is orphaned (`NoneLost`).
`SendersApart` proves `OneSenderPerMessage` from it, `DeliveriesAccounted` the counting,
and `OutboxImplementsJobQueue` maps every step to one of the queue or a stutter.

**Accounts** (`AccountsProofs`). `AccountsInv` adds to the types: a call that is going
to write has read what is still true of the histories. `LinksKnown` says of the links
that one being applied has been followed while open and never withdrawn, and that an
older one replaces a newer one only if it was overtaken; `RowsKnown` ties what an open
profile form has read to the row, up to the columns in `overrun`; `SendsInv` counts: at
most one call between check and count is alone (`NumbersKnown`), and what was sent since
the expiry, without the calls that were not, is at most the limit's count (`Counts`,
`SpentCounted`). `PasswordsAreConfirmed`, `RowsAreMeant` and `CodesAreLimited` follow.

**Storefront** (`StorefrontProofs`: catalogue, carts, prices and lists together).
`StorefrontTypeCorrect` also says that rows refer to rows that are there, which the
other proofs need of every picture, wish and line.

- `PicturesComeWithTheirFiles`. `Pictures` adds what each errand knows (`Picture`): until
  its row is entered nobody else knows the file of an upload; an errand that deletes
  knows a row whose file is still the one it has read; once the file is gone that row is
  the last with it.
- `NoUnitInvented`. Requests read and write the same lines in separate statements, so
  `UnitsAccounted` alone is not inductive. `Reach` says that a request has announced every
  line it may write, and `Line` that a line which is not disturbed has one request at
  most: `Tally` then says by how much the line is ahead of the history (what the request
  has added and not finished with) and that what it has read is still so. `Bounded`, that no
  line holds more than was ever added, survives stale reads because what a request has
  seen was bounded too and `added` only grows. The argument is made once, for one line
  (`OneLineKept`), and then for each statement (`Minds`).
- `PaysWhatIsShown`. `Close` states how far two amounts are apart at a rate, without
  division; conversion is close to within half a cent, and closeness adds up over lines.
  The other case, no rate above zero or a currency that is not charged, is exact: at par
  conversion changes nothing and at zero it leaves nothing (`ConvertAt`), so the order is
  the base amounts (`ChargedInBase`) and the page is named.
- `WalksSeeAll`. A walk is followed by the rank of a row, the number of rows before it:
  the pages fetched so far are the rows below `Cut`. `OnTheWay` says at each statement of a
  walk which rows it has (`NoneMissed`, `NoneTwice`, `InOrder`, `CardsRise`), with the
  count it has read still covering the list (`Counted`); `NextPage` and `LastPage` are the
  two lemmas about pages, and `OthersOnTheWay` shows that whatever anyone else does to the
  list is in the walk's history.

**Sums** (`SumLemmas`). The modules sum with `SumFunctionOnSet`, a fold, and induction over
sets takes an operator that the provers cannot instantiate. It is stated in first order
instead: a family of subsets of a finite set has a member that contains no smaller one
(`LeastSubset`), so a claim that fails fails first at a least set. From it the sum is shown
to exist (`SumExists`), to unfold at any element (`SumRemove`), and to change as its
function or its set does.

Only model-checked: the liveness properties (`StoredRefGetsBooked`,
`StoredRefundGetsBooked`, `JobsSettle`, `EveryPostAnswers`, `MessagesSettle`), since
fairness and ENABLED are out of the provers' reach, and the claims that are violated.
Proved but in no listed run: `RefundNeedsMoney`, `OneSenderPerMessage` (TLC checks what
follows from them), `StatusMoves` and `AuditTrail` for `Payments` and `Refunds`, which TLC
checks over `OrderStep` in `shipping`, for `Refunds` and `Fulfilment`
`ImplementsSettlement` and what is proved of `Payments` (TLC checks it there), and what is
new in `Fulfilment`, `ParcelsArePaid` and `ImplementsShipping`. For these two there is a
configuration beside the runs, `tlc -config MCFulfilment.cfg MCFulfilment.tla` (1.8
million states, no error): one payment and one refund call at a time, one refund key used
up to twice, one shipment, one worker that can crash. It is about what payments, refunds
and a worker do to each other; what two of a kind do to each other is in the runs of the
parts.

## 6. What is not modelled

- **Data that nothing decides on**: taxes, addresses, names, texts, SKUs and options of
  variants, positions of pictures, email addresses, `sms_opt_in` and `sms_consents`.
- **Who may**: the admin role, sessions as rows (a flag per browser here), which user may
  see which order, CSRF, signatures of webhooks.
- **Rendering**: the compiled templates are 9,371 lines, of which the links and forms
  that a visitor follows are modelled; PDF, flash messages, mail texts, logging,
  configuration, wiring, command-line tools.
- **The confirmation mail after checkout**: it is sent after the commit, outside of the
  outbox, only if nothing fails before, and says "Payment received" of an order that is not
  paid yet (`internal/http/handlers/checkout.go:506`).
- **Fallbacks** of handlers that run without a verification service
  (`sms_handler`), code that nothing calls (`DeductStockTx`, `auth_login.go`, `cart_count.go`, the
  mailtrap sender, `ListActive`), and the `reviews` table.
- **A payment of a part of an order**: none exists, so only `Total` matters to
  payments; prices and conversions are in `Pricing`.
- **Sign-up with a guest cart**: it creates a session and merges nothing; only the login
  is in `Carts`.
- **Items priced in another currency than the base**: the code charges the same number;
  the model prices every variant in the base currency. The account page labels base
  amounts of the wishlist with the display currency; no property is about labels.
- **Wrong codes**: the counter of attempts is raised only on a row with the same
  hash (`verification_service.go:156`), so it never rises for a wrong one, and nothing
  is modelled of it.
- **Wall-clock time**: whatever expires may do so at any moment.

`AddToCart` is one step in `Checkout`, although `AddItem` reads and writes separately:
that race is in `Carts` and cannot disturb checkout, which reads the cart once.

## 7. What is left

1. **Deadlock of refunds**: the lock order of phase 3 against that of the webhook, on
   row locks as in `Checkout`; today its victim is an abort.
2. **Checkout after the commit**: the confirmation mail and the clearing of a cookie.
3. **Sessions** as rows, shared by `Accounts` and `Carts`.
