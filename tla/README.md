# Verification of the retail back end

TLA+ models, TLC runs and TLAPS proofs for the API server in `src/src` (Express, Prisma,
PostgreSQL). The models are read off the handlers; every definition that stands for code is listed
with its file and lines in `PROJECT.json` under `map`.

The server keeps no state of its own: everything is in the database, and requests run side by side.
So the recurring question is what another request can do between the reads of a handler and its
transaction, and between two transactions of different handlers. Prisma transactions run at READ
COMMITTED, so a check only protects a write if it is part of the write (`updateMany` with a guard, a
unique key, a row lock taken first). Models split a handler exactly where the code leaves that gap.

## 1. The system

| Component (source) | State | Operations | What is hard | What makes it correct |
|---|---|---|---|---|
| Billing (`routes/orders.ts`, `services/orderWriter.ts`) | orders, items with `returnedQtyMilli`, `returnedTotal`, credit notes, the counter's two next numbers, branch stock | create, retry, cancel, return; held carts | reads outside the transaction; retries with the same id; two managers on one bill | every bill moves stock once each way, refunds and notes account for returns, numbers never repeat, no overselling |
| Offline sync (`routes/sync.ts`, `auth/device.ts`) | the device's key hash on its counter, and the same orders, customers and money rows | device key, push customers / orders / money | lost answers, whole batches pushed again, plan ends while bills wait, counter keyed again | each bill saved once, rejected once, or still waiting |
| Batches and expiry (`services/batches.ts`) | batches per product and branch, bill line to batch rows | take, restore, add, reconcile, start tracking | loops with partial units; tracking switched under running requests; stock below zero | batches add up to stock, earliest expiry leaves first, a line puts back what it took |
| Catalogue and stock (`routes/catalogue.ts`, `services/conflicts.ts`, `routes/conflicts.ts`) | products, categories, branch prices, stock, inventory log, recorded clashes | edit, archive, ADD/REDUCE/SET, batches, review | SET from a stale read; three-way merge of offline edits; product limit | no edit is lost silently, stock and batches agree |
| Transfers (`routes/transfers.ts`) | transfers SENT/RECEIVED/CANCELLED, their items and batch parts | send, receive (short, returned, written off), cancel | receive racing cancel; check of the sender's stock outside the transaction | units are conserved across branches and in transit |
| Idempotency keys (`http/idempotency.ts`) | one row per key: running or its answer | claim, replay, remember, forget, prune | crash before the answer is written; error after the commit | a change is applied once and its answer is repeated |
| Sessions and sign-in (`auth/session.ts`, `routes/auth.ts`) | session rows with current and previous refresh hash, one-time links | sign in, refresh, replay detection, sign out, reset, invite | parallel refreshes, a reset while a sign-in is on its way | a replayed token ends the session, an ended session never comes back, an old password is out |
| Staff, branches, plan limits (`routes/staff.ts`, `branches.ts`, `services/withinPlan.ts`, `services/plans.ts`) | users, branches, `withinPlan`, `keepActiveReviewPending` | invite, edit, disable, enable, choose who stays, reconcile | choices and edits made from a stale read | at most the plan's number stays active, the disabled stay out |
| Plan timeline, keys (`services/planTimeline.ts`, `routes/account.ts`, `routes/admin.ts`) | segments, licence keys | trial, redeem now / later, free days, revoke, lock | date arithmetic with queued segments; two redemptions at once | segments never overlap, no paid day is lost, a key counts once |
| Reminders (`services/reminders.ts`) | claimed steps | claim, mail, take back; by hand, in bulk | overlapping runs; the mail fails after the claim | at most one mail per step |
| Purchases (`routes/purchases.ts`) | supplier bills, their items, returns | enter, cancel, return, receive a replacement | a handler reads the bill without a lock and writes later | a bill moves its goods once each way |
| Customer and supplier books (`routes/books.ts`, `services/books.ts`, `lib/books.ts`, `routes/customers.ts`) | ledger entries, expenses, cash entries, the drawer's opening day | pay, carry over, void, settle, merge doubles | statement, list, aging and cash book are queries of their own; late rows change what is open | the queries tell one story, and the money adds up |
| GST and amounts (`lib/gst.ts`, `lib/books.ts`) | none | bill, supplier's bill, allocate, return amounts | rounding | parts add up to the whole |
| Imports (`routes/imports.ts`, `services/freePosBooks.ts`) | none of its own | lists of products and customers, the backup of the free POS | several transactions; imported again; rows that name each other | importing again adds nothing, limits stand, batches are the stock |
| Administration (`routes/adminAuth.ts`, `auth/admin.ts`, `routes/admin.ts`) | team members, their app secret and last step, their sessions | sign in with two steps, invite, reset, disable, enable; keys, days, locks | a code used twice; what a member may do while being disabled | a code counts once, the disabled stay out |
| Account settings (`routes/settings.ts`) | account flags, payment methods, counters | edit | switching batch tracking (with Batches) | tracking starts with batches equal to stock |
| Rate limits (`services/rateLimit.ts`) | counters per window | hit, prune | window edges | bound per window |
| Receipts, reports, application shell | nothing | reads, mails, wiring | - | - |

They meet in three places: the branch's stock row (billing, stock edits, transfers, purchases and
imports all move it, and with it the batches), the account row (settings, limits, plan), and the
idempotency key that wraps any changing request.

## 2. What is modelled

`Billing` has the requests of one branch. `Begin...` actions are a handler's reads and checks,
`Commit...` actions its transaction, the `Refuse...`, `Replay` and `SavedMeanwhile` actions its
early answers, `Fail` a request that dies or is rolled back by the database (a deadlock, a crash).
One transaction is one step because its first write locks the row everything else in it hangs on:
the counter for a new bill, the bill for a cancel or a return; stock writes are increments on the
row itself. `status`, `invoiceNumber`, `returnedQty`, `returnedTotal`, `creditNotes` are columns of
the same names; `req` holds what the handler keeps in local variables. `Bills` gives each bill id
the body its device sends, because a device never reuses an id; a bill with `seq = 0` is one without
an `invoiceNumber`, numbered by the server. Money is the constant `Worth`: what returning some of
the sold items pays in total. The only thing assumed of it (`WorthByLine`) is that it is worked out
per line, which is how `returnAmounts` is called; `MCBilling` gives it the rounding of `gst.ts`.

`Ledger` is the abstract specification of the same bills: sell, take back, void, each at once.
`Billing!KeepsLedger` is its refinement.

`Batches` holds the loops of `services/batches.ts` as pure operators (folds over the same orders the
code sorts by), `Calculations` asks them for closed-form promises, shelf by shelf, and `BatchStock`
puts them under every operation that moves stock of a product with batches. A request
there first loads its account (`authenticate`), so it may still believe tracking is off, or on,
after another request switched it. Turning tracking on is two steps (`ReadStock`, `TurnOn`) because
`startBatchTracking` reads stock it does not lock. `past` is a history variable, not in the code: it
records whether stock was ever below zero (and SET since) and whether tracking was switched.

`Transfers` is one product between branches with tracking on: a send, a receipt and a cancel are a
read step and a transaction step each (the send's transaction locks the account row, the other two
the transfer row), and the branches sell meanwhile. `transfer` holds the columns of a transfer, its
item and its batch parts; `seen` in a send's request is the stock its check read. Every
batch but the opening one has a number. A product on a transfer of several is one like this one,
because the loops go product by product inside the same transaction. The loops are folds over one
named turn each (`TakeFrom`, `ArriveOne`, `GoBackOne`). `sold` and `everShort` are history
variables. `Freight` is the abstract specification: what left a branch
arrives, goes back or is written off, once. `Transfers!KeepsFreight` is the refinement.

`Idempotency` is one key from its lookup to its pruning. The handler inside is any handler: it
applies the change, refuses, fails before the commit, or fails after it (where the audit row is
written outside the transaction). The device is external: it sends again while it has heard neither
a success nor a refusal, from several tabs. `forgotten` is a history variable: how much had been
applied when the row was last deleted.

`OfflineSync` is a set of devices at one counter, and the server. The device is not in the
repository: it keeps what it made until an answer settles it, pushes one batch of one kind at a time
and starts again when no answer comes, which is what the endpoints and their tests expect. The
server handles a batch item by item: `Find` is the lookups of one item, `Save` (or `RefuseNumber`,
`SavedMeanwhile`, `WriteFails`) its transaction. A push the device gave up goes on on the server
(`push["late"]`) beside the next one. The plan ends and is renewed, the cashier is moved to another
branch, and the counter is keyed again for another device, which then numbers from what the server
knows. `late` and `split` are history variables: bills pushed again while an earlier push of them
was handled, and that two devices numbered from one number on.

`PlanTimeline` is `services/planTimeline.ts` as operators on a sequence of segments. `Subscriptions`
puts it under requests: a redemption loads the timeline (`LoadTimeline`) and writes what it worked
out (`CommitRedeem`, merged row by row, as its updates are); free days, verification, locks, issued
and revoked keys change the same account; `Claim`, `Mail` and `MailFails` are a run of the
reminders. `raced` (history) says that a timeline was changed after another request had read it;
`mails` lists what was mailed.

`Access` is everyone who works in a shop: passwords, sessions, links, staff, branches, and who is
within the plan. A request keeps what it read (`saw`, `rows`), so `authenticate`'s lookups
(`Served`), `assertCanHoldSession` (`ReadPlan`, `LookAgain`), `PATCH /staff` (`BeginPatch`,
`CountStaff`, `CommitPatch`) and `reconcileWithinPlan` (`ReadRows`, `Reconcile`) are split where the
code has statements of their own. `left` and the session's `password` and `stale` are history: which
password a session was started with, and whether that was the current one. `AdminAccess` is one
member of the Setu team, whose sign-in has a second step.

`Amounts` is the arithmetic of `lib/gst.ts` and of a supplier's bill as operators; `Calculations`
states what a bill promises, for any lines and discount (`BillAddsUp`).

`Purchases` is one product under supplier bills: each handler is a read and a transaction. `moved`
sums the movements logged for a bill, `sold` the units sold; `overtaken` marks bills written by a
handler whose reading was out of date, `short` that goods came in below zero. `Books` extends it
with udhaar, supplier dues, expenses and the drawer; nothing is posted in this system, so every
balance, statement, aging list and cash-book day is an operator over the rows, as each is a query in
the code. `Statements` holds the pure part (`lib/books.ts`); the id of a row there is a pair, because
the ids of bills, entries, notes and returns are apart. Bills of customers are there as the
rows `Billing`'s handlers write. `Catalogue` is the edit of a field from several devices: a value is
the edit that set it, so that one can see what became of each edit (`replaced`, `blind`).

Doubles of customers are in `Books` because a merge moves bills and udhaar. A customer is saved
(`AddCustomer`), its phone looked up (`FindDuplicate`) and the double recorded (`RecordDuplicate`):
three statements of one handler, with others' in between. Devices and files bring customers without
the lookup (`BringCustomer`); phones change (`ChangePhone`) and who was merged away may be restored
with a phone (`RestoreCustomer`). A decision reads that the double is open (`BeginResolve`) and then
runs its transaction, so two of one double overlap. A merge moves the rows that are saved; a bill or
payment saved later for the customer merged away stays with them, and `cameLate` lists it. `crossed`
holds the phones that were changed, restored, or under which the customer found to be the double's
older record had come later than the double.

`Imports` is the reading in of a list or a backup: the loops are folds over the rows of a file, a
backup is one step per transaction, and the server may die between them. `made` and `doubled` record
whether a backup that is imported twice with nothing in between added anything.

Two modules put parts that share no state side by side: `Accounts` (`Access`, `Subscriptions`,
`AdminAccess`) and `Devices` (`Idempotency`, `OfflineSync`); `Shop` does the same with `Books`
(and in it `Purchases`), `Catalogue` and `Imports`. A variable chosen at the start (`mix` and
`planMix`, `part`) says what moves; the rest stays as it began. Each behaviour of a part is a
behaviour of the run, and an invariant of the run is one of each part. Inside `Access`,
`Subscriptions` and `Books` the mix also says which operations meet: all that touch the same rows
do, and pairs that share nothing do not. The accounts of customers are one mix of `Shop`
("customers", with the days), their doubles beside bills and payments another ("doubles"). Overlapping requests on supplier bills are one
mix ("bills") and the supplier's ledger beside a few bills (`FewBills`), one request at a time, another
("suppliers"); only there are suppliers removed.

Operators commented "Wrong:" are not part of the models: each is a plausible mistake in the
definition that follows it, used to show that a property would catch it (`PROJECT.json`, `mutants`).

## 3. Runs

| Run | Question | Bounds |
|---|---|---|
| `billing_returns` | do items, money, notes and stock agree after parallel returns? | 1 bill of 2 products, up to 2 of each, 3 requests, 2 counters for the notes, rounded prices 5 and 2 |
| `billing_tills` | numbers, overselling, the plan's limit, single restock of a cancel | 4 bills of one unit, 3 requests, 2 counters (device numbers in any order, server numbers), 2 units in stock, limit 1 |
| `billing_one_at_a_time` | with one request at a time, all operations: is the ledger implemented? | 2 bills, 2 products, online and offline, also clashing numbers |
| `billing_cancel_return_race` | does a cancelled bill have no returns? (violated) | 1 bill, 2 requests |
| `calculations` | do the loops over batches and the amounts of bills do what they promise? | every shelf of up to 3 batches, 0..2 units, 2 dates and "never", every quantity up to one more than all of it, every picked batch; bills of 1 to 3 lines of 5, 7 or 33 paise, 1.5 or 2 units, 0, 5 or 18 %, with and without tax inside, 4 flat and 2 percent discounts, within the state, outside it, without GST |
| `batches` | batches against stock under everything | 2 requests, 1 bill line, 2 batches, -2..3 units |
| `batches_off_and_on` | do batches always add up to the stock number? (violated) | 1 request |
| `transfers` | conservation, batches and expiries through transfers, the cost of the early stock check, `Freight` | 2 branches, 2 transfers of 1 or 2 units (both out, or out and back, batches picked or not), 2 requests, 4 units in 3 batches, sales |
| `devices` | is a change applied once and answered in the end; is what was made offline saved or refused for cause? | key: 3 deliveries, 3 faults of 5 kinds; offline: 2 devices, two scripts of 3 and 2 items, 3 keys, 1 fault of any kind besides the plan's end and the cashier's move |
| `idempotency_late_error` | is a change with a key applied at most once? (violated) | 2 deliveries, 1 fault |
| `accounts` | timeline, reminders, passwords, sessions, staff and places under overlapping requests | 2 requests, 2 staff and the owner, 2 branches, 2 sessions, 2 passwords, 2 tokens, plans with room for 1 and for 2; keys of 2 days and a custom one, 3 days, 4 segments; 2 sessions, passwords and codes of a team member |
| `shop` | goods against supplier bills, the books, edits, imports | 2 requests, 3 supplier bills (one imported, two of one number), 2 returns, 2 days, 1 sale; accounts of 2 customers, 4 ledger entries, 1 expense, 2 cash entries; 3 customers in one order, 1 phone or none, phones changed and nobody restored after one crossed; 5 things, 9 edits, 2 devices, 2 handlers, limit 1; backup of 2 products, 2 batches, 2 customers, 6 rows of history, lists of 2 and 1 rows, 3 imports, 1 other change |

Why these are enough. A return race needs two returns that read the same state and a third that
commits in between, so three requests; rounding differences need two units of an odd price. Number
clashes need two bills of one counter out of order and a third to be numbered after them.
Overselling and the plan's limit need one request more than there are units or places. A batch loop
has its cases at "first, partly used, untouched", so three batches for the loops; the stock runs
need a batch to take from and one to pass over. The odd paise of taxes alternate, so three lines
show a full turn, and 5, 7 and 33 paise make every remainder that two and three shares can leave.
Two transfers of two units and sales can take four units below zero, and a transfer of two can be
split between two batches or between receiver and sender. For a key, one delivery works, one meets
its row, one arrives after it was deleted; three faults let one fault hit the recovery from another.
Offline, three items make a customer whose bill must wait for it and a bill that need not; a third
key lets the counter go to another device and back. On a timeline a switch needs a running segment,
a queued one and the new one; a fourth makes the queue two long. A stale read needs two requests and
no more, since a request's own reads are never older than one other commit in these bounds; sessions
and passwords need an old and a new one. For the books, two dues and two payments show an order; for
a merge three customers of one phone, so that one record can be the older of one and the double of
another; for an import two rows that match what is there in different ways, and three
imports so that one can break off between two that do not.

Deadlock checking is off for `devices`, `transfers`, `accounts` and `shop`: everyone is done once
all that the bounds allow has been made, answered, sold or settled.

**Properties worth knowing.** `RefundsMatchReturns`: the paid-out total is a function of what is
returned, whatever the split. `NotesExplainReturns`: notes sum to the bill's totals and numbers are
unique. `StockMatchesBills`: stock is the opening stock less what customers keep. `InvoiceSeries`
and `NumbersNeverClash`: the counter stays ahead of late and out-of-order numbers.
`PlanOvershootBounded`: the limit is checked outside the transaction, so it can be passed, by fewer
bills than there are requests in hand. `PlansAreKept`: sales take in order, and sale and return, in
two parts of any size, leave the shelf as it was. `EveryUnitHasABatch`: selling below zero never
leaves a unit without a batch, until a SET evens it out. `UnitsConserved`: stock, transit,
write-offs and sales add up to what there was. `ExpiriesTravel`: no unit of an expiry date appears
twice when a short receipt is split between receiver and sender. `OnlyAnOvertakenSendOverdraws`: the
stock check of a send is outside its transaction, so a branch can fall below zero, but only by a
send that saw more than was left. `HeardIsTrue`: a refusal that was heard is final; `AnswerIsHeard`:
one is heard in the end.

`NothingIsLost`: what a device no longer keeps is saved or was rejected, and a rejection has one of
two causes, the cashier's move or two devices on one counter. `Settled`: the device that holds the
key empties its outbox. `TimelineInOrder`: unless two changes overlapped, segments are disjoint and
at no moment between now and the end of the last one is the plan expired. `OnceEach`: one trial, one
use of a key (`GivenOnce`), one mail of a step (`RemindedOnce`). `OldPasswordsAreOut`:
after a reset was answered, a session of the old password is alive only if its sign-in was
overtaken. `EndedStaysEnded`: no refresh in hand revives a session. `DisabledStayOut`: a disabled
member or admin comes back only through an enabling or a request that had read them before.
`PlacesFit`: after an undisturbed reconcile exactly as many are within the plan as fit, the oldest
among those who were.

`BillAddsUp`: taxes, discounts and returns in two parts add up to the paisa.
`StockMatchesPurchases`: stock is what bills brought in less what was sold, a bill's movements are
its goods less its returns, a supplier's number is entered once (two imported bills may share one:
the import does not look at numbers, which the proof brought to light). `BooksBalance`: list,
statement, aging report and cash book agree, dues are paid oldest first, any split of a range of
days closes the same, and money in hand less what is owed is what was sold, bought and spent. Its
last two parts are about merging, whoever decides what at once: the customer a double is to be
merged into is there (`KeptCustomersStay`), and with a customer merged away no row stays but those
that came later (`NothingLeftBehind`); both except phones that crossed (section 4).
`NoEditLost`: an answered edit is in force, was replaced by a later one or is in the owner's review,
and no edit that said what it saw replaced what it had not seen, unless the row changed between the
handler's read and its write: the code overwrites that without a clash, and the property would not
notice. `ImportsSettle`: after any imports and interruptions batches are the stock, limits stand,
keys are unique, and the same backup at once again adds nothing, if each two rows of it are two
things (`RowsAreTwoThings`).

Where a property does not look. `KeepsLedger` runs with one request at a time. `TimelineInOrder` is
silent once two changes of a timeline overlapped (`raced`), `PlacesFit` when somebody changed the rows
a reconcile had read, `StockMatchesPurchases` about the goods of the single bill that two handlers
overtook (not about the sums). None of them shows that such an overlap is harmless.

**Fairness.** `Idempotency` and `OfflineSync` assume some, the others none. Weak fairness of
`Handle` is the event loop: a request that was received is worked on (it may still fail; faults are
not fair and are bounded). Weak fairness of `Send` is the device's own retry while it has no answer.
Weak fairness of `Prune` is the daily job; without it a delivery that died would leave the key at
"in_progress" for good. That is what the code does for seven days, so "try again in a moment" means
up to seven days in this case. In `OfflineSync`, weak fairness of `DeviceActs` is the device pushing
while something waits and the server handling it; weak fairness of `Renew` is the owner, who is
assumed to renew in the end, as the message the code answers with (`sync.ts`, "Bills wait on this
counter and sync once it's renewed") presupposes.

## 4. What the code does otherwise

Each is a run whose counterexample is a behaviour of the code.

* **Cancel against return** (`billing_cancel_return_race`). The cancel's transaction rechecks the
  status, not the returns; the return's transaction rechecks the items, not the status. If their
  reads overlap both commit, and the returned units are restocked twice.
* **Tracking off and on** (`batches_off_and_on`). `startBatchTracking` only visits products with
  stock, so batches left from earlier stay full when the stock was sold to zero in between.
* **Error after the commit** (`idempotency_late_error`). Where the audit row is written after the
  transaction (for instance POST `/products/:id/stock`), its failure is a 500, the key is deleted,
  and the retry moves the stock again.

Met while modelling, reachable in the models unless said otherwise, and without a run of its own. In
most cases a property has the exception in its statement, as a history variable or a disjunct.

*Bills and devices.* A return worth nothing leaves `returnedTotal` at 0, so the bill can still be
cancelled (give `Worth` a zero and `CancelledHasNoReturns` fails with a single request). The retry
of a bill saved a moment ago can be told `out_of_stock`, because stock is checked before the insert.
A counter keyed for a second device while the first still holds bills has two devices number from
one number on (`split`); the later bill of a number is rejected, although docs/PLAN.md:138 says two
offline counters can never give the same number. An older client that lets the server number its
bills can take the number of a bill still offline (`orders.ts:177`). A bill saved by a push the
device had given up can be shown as rejected by the next one (`late`). A passing refusal is
remembered under its key like a lasting one (`idempotency.ts:57`). Of a partial return, the SGST
part can be one paisa below zero (`gst.ts:123`): halves alternate over the bill and are not worked
out anew, and the parts of both returns add up all the same.

*Stock.* After a sale beyond the batches an ADD puts all its units in a batch, so batches exceed the
stock, and so do the goods of a supplier bill (`short`). Requests that loaded the account before
tracking was switched move stock without batches. Two handlers on one supplier bill can move its
goods twice or return more than came (`overtaken`), since neither rereads it in its transaction.
Removing a supplier reads the balance before it archives, and a new bill reads `archivedAt` before
its commit, so a removed supplier can be owed money. A catch-all batch that was given a date by hand
(PATCH `/batches/:id`) passes it on to units that had none and come back to it
(`transfers.ts:195`); `ExpiriesTravel` is stated of shops whose catch-all batches have no date.

*Plan and people.* A password reset proves the email without starting the trial, and a new
verification link is then refused (`auth.ts:159`, `:244`). Two redemptions at once, or one with free
days, can give overlapping segments (`raced`). A key revoked while it is redeemed is both. A link
opened twice at once sets two passwords, and the invite's does not end the sessions of the first
(`left`). Only the token rotated last is recognised as replayed; older ones are just unknown. Two
tabs that refresh at once can sign each other out. A `PATCH` of a member from a read before they
were disabled turns them on again (`staff.ts:122`), and turning several on at once is counted
without the lock that inviting takes, so the limit can be passed. Two set-ups of an app at once
leave the second one's secret. A member's reset or enabling and the new link are two transactions.

*Books and edits.* A ledger entry voided and then sent again with its id is answered as recorded.
Of doubles, `conflicts.ts:112` says the older customer "stays", which does not hold (the phones in
`crossed`). With no overlap at all: c0 and c1 are added with phone P, c0's phone is changed, c2 is
added with P and recorded as c1's double, c1 is merged into c0, and the open double would now merge
c2 into a customer who is gone. Two added at once are each recorded as the other's double, and
merging both archives both and leaves the rows with one of them. Bills and payments are still taken
for a customer merged away (`orders.ts:117`, `books.ts:273`) and stay with that record. That a double
is open is not looked at again in the transaction (`conflicts.ts:86`): kept and merged at once it is
merged, and the review shows whichever was written last. An edit written over a row that changed
after the handler had read it records no clash (`catalogue.ts:205`). Taking the device's value in a
review writes over what was edited since. Restoring something removed counts no limit.

*Imports.* A backup with batches imported again creates its batches once more, and what exceeds the
stock is trimmed from the earliest expiry on, so dates shift (`imports.ts:283`); no property catches
this, as the batches still add up. A file with several customers of one name is not stable when
imported again: of rows with one phone, without, and with another, the second import makes a new
customer (`RowsAreTwoThings` excludes it from the last part of `ImportsSettle`). After a supplier is archived, a new import makes a new one while the rows
already imported stay with the old. A category is created even for a row the plan's limit then
refuses.

## 5. Proofs

All theorems hold for every value of the constants that meets the named assumptions of the modules.
Those assumptions say that sets of bills, requests, lines, staff, branches and returns are finite,
that quantities and prices are natural numbers, that things that stand for each other differ
(`"late"` is no device, 0 no session), and three things about the world: `WorthByLine` (above), that
no two members of staff joined at the same moment (`AccessConstants`; the code sorts by
`createdAt`), and that a bill made offline names a customer made before it (`SyncConstants`).
`FilesAssumption` says what files the parser lets through; that two rows are two things is no
assumption but a hypothesis in `ImportsSettle`. `BooksAssumption` and `CalculationsAssumption` are what the request schemas let through: known
parties, kinds of payment and types of entries, nothing below zero, no line of no units.

**Sums** (the first half of `BatchesProofs`, which every module that adds up extends). TLAPS has no
induction over data with an operator as a parameter. These lemmas get by without: induction over the naturals from the well-founded order `LessThan`, with a set in the place of the
predicate, and from it facts about `SumFunction` (it is an integer; one place changed, a place
added, two functions compared, places that are zero, sums over parts, images and classes). Everything
below that adds up rests on it; `AccountsProofs` and `DevicesProofs`, which add nothing up, state the
induction they need themselves.

**Billing** (`BillingProofs`). The inductive invariant `IInv` is the type invariant,
`InvoiceSeries`, `ReturnedWithinSold`, `RefundsMatchReturns` and `RequestsFit`. The last one is the
strengthening: a return in hand, on top of what its handler read, stays within what was sold. It is
needed because the quantity check happens before the transaction; with the guarded update
(`Changed`) it gives `ReturnedWithinSold` after the commit, also for lines not in the return.
`RefundsMatchReturns` further needs that lines outside the return do not influence what it pays:
`WorthByLine`. On top of `IInv`:

* `NoOversell`: without sync every bill in hand is an online one (`OnlineOnly`).
* `NotesHold`: `NotesInv` adds that a bill's notes are numbered 1..n, so the new note is a new
  element and the sum grows by its units.
* `NumbersHold` (an action property): a bill keeps the number it brought (`OwnNumberKept`). Its
  hypothesis `NumbersApart` says that a counter's bills bring numbers that differ, or bring none;
  where it does both, a number the server gave can meet one still offline (section 4).
* `OvershootHolds`: bills saved plus requests creating one stay below the limit plus the number of
  requests (`OvershootInv`): whoever begins finds room.
* `LedgerKept`, `CancelledHold`, `StockHolds`: refinement of `Ledger`, no returns on cancelled
  bills, and the stock, under `NoReversalRace`: the shop only cancels, or only takes returns, or has
  one request at a time and gives nothing away (`NothingFree`: what comes back is worth something).
  Without it all three are false, which is the first finding of section 4; one request at a time is
  what the run `billing_one_at_a_time` checks, and `NothingFree` is needed because a return worth
  nothing leaves the bill cancellable. The invariants are `Unused` and `Exclusive`.

**Batches** (`BatchesProofs`, `BatchStockProofs`). `BatchesProofs` follows a loop turn by turn:
`Turns` is the function from turns to what was taken so far, proved to exist and to be what the fold
computes, and `Walked` what holds after n turns. From it `PlanTakeTakes` (takes at most what a batch
holds, as much as is asked for and there, the rest as shortfall, and in order of expiry but for the
batch the cashier picked) and `ReconcileEvens`. `BatchStockProofs` proves all five properties of the
runs from `StockInv`. Its parts: `LineOK` (what a line took and put back fits what it sold and got
back), `Believed` (no request believes the wrong thing of tracking unless it was switched),
`Covered` (batches exceed the stock by at least what lines still owe: `Owed`, units sold past the
batches) and `Even` (before the stock was ever below zero, batches are the stock and no line owes
anything). `Covered` is what `EveryUnitHasABatch` needs: a return of units that came from no batch
goes to no batch.

`PlansHold` states what a take and its return do for every shelf, quantity and picked batch, from
`PlanTakeTakes`: if batch i gives anything, all that give before it are taken empty, and if it keeps
anything, none after it gives (`GivesInOrder`); as the takes add up to what was asked for or to all
there is, what i gives is the closed form (`TakesWhatIsLeft`), and those that give before i are
`Ahead(i)` (`TakesAhead`). Of the return: neither part puts back more into a batch than was taken of
it and is not back yet, and both together put back as many units as were taken in all, so each batch
has all of its own (`ReturnsPutBack`).

**Amounts** (end of `BillingProofs`). `BillsAddUp` is arithmetic over the sums of a bill with any
number of lines:

* `AllocateAllocates`: the shares add up to the whole and none is above its weight. Rounded down they
  leave over less than the number of lines with a remainder (`LeftOver`), and exactly as many lines
  rank below k as k says (`RanksCount`), so each unit left over goes to a line of its own.
* `TaxFits`: the tax in a price is part of it and the rest is what is taxed; a tax on a price comes on
  top. Rounding is followed through `RoundedBetween`: what lies between whole numbers stays there.
* `HalvesAddUp`: an odd paisa goes to SGST and to CGST in turn, so over the bill they differ by the
  parity of the odd taxes (`HalvesCancel`), while each line still adds up (`HalvesOfLine`).
* `ReturnsTelescope`: what a return pays is the difference of two values of `Cumulative`, which is 0
  at nothing and the line's amount at all of it; so two returns give what the line cost, wherever it
  is split. The run tries three splits of it, the theorem states the same three.

**Transfers** (`TransfersProofs`). All five properties of the run, for any number of branches,
transfers, requests and batches. `TransferInv` is the inductive invariant: types; `Asked` (a send
in hand had seen enough, a receipt in hand gets no more than was sent); `Accounted` (the sum that
`UnitsConserved` states); `StockFits` (batches are the stock while no branch fell below zero);
`Shelf` (nothing in a batch is below zero); and of each transfer under way
`OnTheWay`: its parts hold exactly its units (`Held`), and each part names a batch the sender still
has, of the same expiry (`Sourced`), which is why what goes back finds its place. The loops are
followed by `Passes`, the function from turns to results, as in `BatchesProofs`: `PlanSendPlans`
says that what the parts hold of any set of days is what the rows lost of it, the undated rest
included, and `SharesOnce` that what a receipt takes from the front of the parts and what goes back
from their end never overlap: together they hold of no day more than the parts did. `OverdraftsAreOvertakenSends` needs
`Asked` only for sends: the reading covered the quantity, so who overdraws had read more than there
was left. `TransfersAreFreight` maps every transaction to a step of `Freight`, everything else to a
stutter. `ExpiryDatesTravel` adds `DatedInv`: of each day there is no more than at the start, and
catch-all batches hold none of it. Its hypothesis `OpeningsUndated` is needed (section 4).

**One key, and the devices** (`DevicesProofs`). `OncePerRow` and `HeardHolds`: at most one delivery
works on the change and the row is "running" while it does (`OneWorker`), where the change has been
applied since the row was last deleted (`Counted`), and a refusal heard leaves no delivery that
could still apply it (`RefusalSettled`). `NothingIsLostHolds`: `SyncInv` says where each item is
(`Where`), that the answers a push has collected are true (`Answers`), and that whoever holds the
counter's key is ahead of all numbers given (`Numbered`), unless two devices numbered from one
number on. `DevicesHold`: both in the composition.

**People, plan, administration** (`AccountsProofs`). For `Access`, `Known`
adds to the types what a request in hand may rely on: its session was started, whoever it saw active
has a password, an invitation it looked up was not of somebody disabled. That gives
`EndedHolds`, `DisabledHold` (action properties) and `PlacesFitHolds`; beside `Known` the statement
about old passwords is inductive as it stands (`PasswordsHold`). `AdminInv` does the same for the
team.
Of the plan: every operation of the timeline keeps it `Tidy` (no overlap, no hole from now
on) - proved of `Added`, `Switched` and the merge of what was worked out - and `InOrder` says of a
request in hand that, unless it was raced, what it read is what is there and what it will write is
tidy. `Given` (trial first, segments of keys as many as keys used) and `Reminded` (every mail has
its claim) give `OnceEachHolds`. `PartsHold`: each part of the composition is a behaviour of its own
specification, so the theorems about a part hold of the whole; `AccountsTypeHolds` uses it.

**The books** (`BooksProofs`), over `BooksSpec`: the bills among books, sales and days.
`PurchasesMatch` from `PurchaseInv`: a handler's reading is one its checks let pass (`Checked`); stock
plus what was sold is what bills moved, and batches are the stock unless goods came in below zero
(`StockFits`); and a bill that no overlap touched has moved exactly its goods less what is away
(`Fits`), has a number to itself (`NumberedApart`), and no row before it is entered (`Blank`). The
proof shows why only overtaken bills are exempt: a handler whose bill nobody wrote since its reading
still has before it what it checked.

`BooksTypes` from `BookInv`: the types, what the search for doubles may have found
(`DuplicatesFit`), whose rows are whose (`RowsFit`), and whom a removal in hand is about
(`RemovalsFit`). `KeptCustomersStay` alone is not inductive: that the customer a double keeps is not
merged into another one next needs `FoundFor`: unless the phone crossed, the one kept is there, was
added before the double and before everybody else of that phone, so a merge of the one kept into
somebody older would have to be of a double that the search cannot have found. `RowsFit` says so of
every saved row's customer, for which a phone that crossed must be followed to the one there is now
(`Holds`). For its first parts `BooksBalances` needs no more of the state than that rows are typed and
that dates lie in the calendar; what it takes is that five queries, each written in its own way, come
to the same sums:

* A statement is about an `Account`: finitely many rows, each with an id of its own, which makes
  `DueBefore` an order. What is paid of a due is what the credits leave after the dues before it
  (`SettlePays`), and what is paid of all is the lesser of credits and debits (`PaidInOrder`, by
  induction over the dues up to one of them). From it any account's statement ends with debits less
  credits, what is open less what is advanced is that balance and not both are there
  (`StatementBalances`), dues are paid oldest first (`StatementInOrder`), and the buckets of aging add
  up to what is open (`StatementAges`).
* `CustomersAgree` and `SuppliersAgree` join the accounts of the tables they are read from (bills,
  entries, notes, returns), whose ids differ in kind, and compare with what the list of balances adds
  up of the same tables.
* A day closes at the opening amount plus all moves since (`ClosingsAre`, by induction over the days
  read), so it closes the same whichever days are asked for with it (`DrawersClose`).
* `EntriesDouble` sums over the parties: each row has one, so sums by party are sums over all rows
  (`SumByKey`), and with what is in the drawer they come to what was sold, bought, spent, carried
  over and put in. Entries that a merge moved from one customer to the other still count once.

**The shop** (`ShopProofs`). `NoEditIsLost` from `EditInv`: an edit in a handler's hands is in no
other's, is not answered and is not what the handler read, and whatever is stored or to review was
answered (`EditsInHand`); so what a write replaces is an answered edit, never one on its way.
`CatalogueTypes` adds what was replaced. `ShopTypes`: each part of the shop behaves as its own
specification says, whatever the mix.

`ImportsTypes` and `ImportsAlwaysSettle`, over `ImportsSpec`, for every backup and every shop it is
read into, from `ImportInv`:

* `ImportFits`: the lists are typed, keys apart, limits kept, batches the stock; a recorded row
  names a party that there is; the import is at one of its steps.
* `ImportProgress`: what the import in progress has done stays done unless another handler came
  between (`since` is how many had when it began). "Done" means that each row of the file is found
  again as what it became (`ProductsDone`, `CustomersDone`, ...), or that the limit refused it and
  still would.
* `NothingLeft`: after a backup nobody disturbed all its rows are done and `made` is what there is.

`ImportsSettle` alone is not inductive: that a repetition makes nothing (`~doubled`) follows only if
every step of it finds all that its predecessor left. The loops are folds of `UpsertProduct`,
`UpsertCustomer`, `FileSupplier` and `ImportRow`; `OneByOne` is the function from turns to results,
`Reached` that it ends at the fold's value, and what holds after n turns is shown by induction over
n. The crux are the lemmas that writing one row changes neither what another row of the file finds
nor whether it is done. For products that needs SKU, barcode and name apart in the file, which is
where `RowsAreTwoThings` comes in; for customers a row without a phone may meet somebody else's record of that name, so a row is done when
somebody with its name and phone is found, not necessarily the one it wrote. Whether the server dies
between two steps does not matter, as a step only ever adds to what is done.

**Only model-checked.** Liveness (`AnswerIsHeard`, `Settled`) and with it fairness: out of the
prover's reach. Every invariant and every action property of a passing run has a theorem. The three
findings are counterexamples, so there is nothing to prove of them.

## 6. Abstractions

Lines of a bill that sell the same product are one quantity. Quantities are small units rather than
thousandths (except in `Amounts`); prices, taxes, names, customers and payments appear only where a
property needs them. All bills fall in one month. Stock tracking of a product never changes in
`Billing`. Costs of batches are left out, expiries are a few ordered days. A key reused for another
change (422) is not modelled: it changes nothing. Row locks are not modelled one by one; a
transaction the database aborts is `Fail`. In `Amounts` quotients are exact; the code divides
doubles, so of two equal remainders it may prefer the other. In `Books` a unit of goods costs 1, a
clock is a day, and a row's moment is one no later than today, as the handlers cap it. In `Books` the
order of `createdAt` is the order in which customers are saved. In `Access` the up to four updates
after a reconcile's read (`withinPlan.ts:39-49`: branches on and off, staff on and off, besides the
flag) are one step, so what others see between them is left out; a
password is a number, a token its turn in the rotation, and tokens and links do not run out by time;
the second-step tokens of `AdminAccess` do not either, which allows more than the code does. In
`Catalogue` a product has two fields. In `Imports` names, codes and phones are small numbers, rows
read without an order come oldest first, and the shop tracks batches.

**Not modelled**, with the reason:

* Rate limits: one SQL statement per hit, nothing around it to interleave.
* Receipts, most reports, lists with filters, the access list, figures of the administration: reads.
* Application shell, configuration, API description, audit rows: no control of their own (that an
  audit row can fail after a commit is in `Idempotency`).
* Held carts, categories, payment methods, names of counters and branches, one's own profile, plans
  and settings kept by the team: edits of a single row that nothing else depends on.
* The inventory log: nothing in the repository says that it adds up; see the plan.
* PIN unlock and sign-up; two imports at once (there is no lock and suppliers and payment methods
  have no unique key, so both may create them); the locks of single rows, hence the order of locks
  of two bills.

## 7. Plan

Done: all modules of section 2 and the proofs of section 5. What could follow:

1. `Worth` of `Billing` from `Amounts` in the proofs, as `MCBilling` takes it for the runs, which
   would discharge `WorthByLine`.
2. `StockRegister`: the inventory log beside the stock, with SET's stale read, opening + flows =
   closing.
3. `RowLocks` for the lock order of bills, two imports at once, PIN unlock.

To run: `tlc -config <run>.cfg <module>` with the module `PROJECT.json` names, and `tlapm <M>.tla`
for `BatchesProofs` (which the next ones extend), `BillingProofs`, `BatchStockProofs`,
`TransfersProofs`, `BooksProofs`, `ShopProofs`, and for `DevicesProofs` and `AccountsProofs`. Most
take a few minutes, `BooksProofs` about six, `ShopProofs` about ten.
