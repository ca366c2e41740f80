# creatorFlow in TLA+

creatorFlow sells digital products: a creator publishes products on a public
page, a buyer checks out as a guest, pays through Razorpay, and downloads what
was paid for. The backend is one Go API (`backend/`) over Postgres, Redis and
S3-compatible storage; several replicas of it may run at once. This directory
holds TLA+ models of it, TLC runs over small instances, and proofs checked by
TLAPS.

Paths below are relative to `backend/internal/` unless they say otherwise.

## 1. The system

| Component | State it keeps | Operations | Talks to |
|---|---|---|---|
| `orders` | `orders`, `order_items` | Create (with replay by Idempotency-Key), AttachProviderOrder | products (prices), Razorpay |
| `payments` | `payment_webhooks`, `payments`, `entitlements`, `orders.status`, purchase rows of `events` | the webhook: one transaction for each delivery | Razorpay (calls us), orders, analytics tables |
| `jobs` | a Redis lock for each job | ExpirePendingOrders, SweepAbandonedUploads, DeleteExpiredAnalytics, the runner | orders, product_files, S3 |
| `products` | `products`, `product_files` | Create, Update (publish), RequestUpload, ConfirmUpload, DeleteFile | S3, entitlements, the storefront cache |
| `delivery` | nothing of its own | Download: reads entitlements and files, signs a URL | S3 |
| `auth` | `users`, `refresh_tokens` | Register, Login, Refresh (rotation, reuse detection), Logout | - |
| `profiles` | `profiles`, `links` | profile edits, AddLink, UpdateLink, DeleteLink, Reorder | the storefront cache |
| `storefront` | cache entries in Redis | Page, Product, invalidation | profiles, products |
| `analytics` | `visitors`, `events`, an in-memory queue | Record, the writer, Close, reports | - |
| `middleware` | rate-limit counters in Redis | fixed-window limit; auth; headers | Redis |
| `razorpay`, `storage`, `database`, `cache`, `httpx`, `config`, `cmd/api` | connections | adapters and wiring | - |
| `frontend/` | the browser's | a thin client of the API | the API |

Components share state through Postgres at READ COMMITTED, never through
memory: the interleavings that matter are those of transactions and of
single statements outside a transaction, by any number of goroutines of any
number of replicas. What makes correctness hard:

* **settlement**: Razorpay delivers at least once, in any order, sometimes one
  fact under several event ids; deliveries race one another and the expiry job;
  a process can die between any two statements, and an answer can be lost.
* **checkout**: double clicks and retries, a provider call that is not
  idempotent and sits outside the transaction, prices that move meanwhile.
* **catalogue**: rules that span two tables (published implies deliverable, sold
  implies kept) under READ COMMITTED, and rows and objects in two stores.
* **sessions**: one-time tokens under races, lost answers and family revocation.
* **caches, queues, locks**: stale fills, shutdown, expiry of a lock.
* **counters and reports**: windows and days whose boundary falls between two steps,
  calls that time out and take effect all the same, two tables deleted in turn.

What makes each one correct:

* settlement: paid and downloadable are one fact; nothing is paid without its
  exact sum; what a webhook row says is true; an event counts once; a 200 means
  recorded; every storable event is in the end dealt with.
* checkout: one attempt is one order and one payment window; a window always
  belongs to an order of ours at the frozen sum.
* catalogue: a published product has a confirmed file; a bought file stays.
* sessions: a token is spent once; every token that a detected reuse
  finds live is ended; a logout ends one session.
* links: the cap holds, positions differ, and only a reorder that commits whole
  changes the order.
* cache: once every writer has returned, a cached page is what the tables say, except
  where the code leaves it to the TTL, and those cases are named.
* job lock: locked runs do not overlap, and no lock outlives its run. Shutdown:
  nothing is queued on a closed channel and nobody works on closed connections.
* rate limit: admission stays below twice the limit, nobody is locked out for good
  or refused for old requests, and Retry-After is never too short.
* analytics: an event in the retention window keeps the visitor of its own day, a
  report's chart agrees with its totals, and what has expired is deleted.

## 2. Modules

```
Schema            rows, events, and what the code compares of them
  OrderTable      the orders table and its row locks
    Settlement    payments + jobs.ExpirePendingOrders        -- implements --> OrderLedger
    Checkout      orders
      Commerce    Checkout and Settlement over one orders table, with buyer and Razorpay
                                                             -- implements --> OrderLedger
OrderLedger       abstract: every event is one step
SettlementInvariant   the inductive invariant of Settlement
  CommerceInvariant   the inductive invariant of Commerce, on top of Settlement's
    CommerceProofs    theorems and proofs: of Settlement first, then of Commerce

Sessions              auth: refresh tokens and the cookies that hold them
  SessionsProofs
Catalog               products, delivery, jobs.SweepAbandonedUploads
  CatalogProofs
Links                 profiles: a page and its links
  Storefront          Links, the published product, and the cache of their public pages
                                                             -- implements --> Links
    StorefrontProofs  theorems and proofs of Links and Storefront
JobRunner             jobs.Runner: the Redis lock and the batches of one job
  Runtime             JobRunner, the analytics queue and the shutdown of cmd/api
    RuntimeProofs     theorems and proofs of JobRunner and Runtime

RateLimit             middleware.RateLimiter: one counter and the requests charged to it
  RateLimitProofs
Analytics             views and clicks: recorded, reported, deleted by the retention job
  AnalyticsProofs
SumLemmas             what sums over finite sets add up to, for the last two

MCSettlement, MCCommerce, MCSessions, MCCatalog, MCLinks, MCStorefront,
MCRuntime, MCRateLimit, MCAnalytics         instances for TLC
```

The small inductive invariants stand at the end of the modules they are about
(`QuietInv`, `CatalogInv`, `LinksInv`, `StorefrontInv`, `RunnerInv`, `RuntimeInv`,
`RateInv`, `AnalyticsInv`, `ReportInv`); section 5 says what each one adds.

### Settlement

| Code | TLA+ |
|---|---|
| `payments/handler.go` Webhook: 401, 400 | `Reject` |
| `payments/service.go` Handle up to BEGIN | `Deliver` |
| `RecordWebhook`, `INSERT ... ON CONFLICT DO NOTHING` on the event id | `RecordWebhook`: waits for an open transaction with the same id (`ClaimedByOther`), goes on, or answers 200 at once |
| `apply`: unhandled type, no payment id, unknown order | `RefuseUnread`, `RefuseUnknownOrder` |
| `FindOrderByProviderOrderID ... FOR UPDATE`, amount and currency | `FindOrder` |
| `RecordPayment` | `RecordPayment`; `RejectPayment` when the row violates a CHECK |
| `MarkOrderPaid` and what apply makes of its row count | `MarkOrderPaid` |
| `GrantEntitlements`, `RecordPurchaseEvents` | `GrantEntitlements`, `RecordPurchaseEvents`, `PurchaseEventsFail` |
| `MarkWebhookProcessed`, COMMIT | `Commit` |
| any error, a crash, a failed commit | `Abort`, `CloseDoomed` (both end in `Rollback`) |
| 200 sent / lost | `Reply`, `LoseReply` |
| `jobs/cleanup.go` ExpirePendingOrders | `SelectExpired` (the subselect), `VisitExpired` (row by row: lock, look again), `CommitExpired`, `AbortExpired` |

A transaction's uncommitted writes are the set `wrote[w]`; `Commit` applies them
at once, so every other session sees committed rows only. `rowLock` holds row
locks; locks and unique-index waits make an action wait, not fail.

After `RecordPurchaseEvents` fails, the worker is `"doomed"`: Postgres has
aborted the transaction, and the code's next statement must fail. That is
behaviour of Postgres, and the model keeps it although the code ignores the
error.

### Checkout

| Code | TLA+ |
|---|---|
| validation in `orders/service.go` Create | `Validate` |
| `LoadPurchasable` and the checks on its rows | `LoadPurchasable` |
| `CreateOrder` under `orders_idempotency_key_unique` | `CreateOrder` (waits, inserts, or goes to the replay) |
| `AddItem`, `ListItems`, COMMIT | `CommitOrder` |
| `findByKey` | `FindByKey` |
| `ensureProviderOrder` | `SkipProvider`, `CallProvider`, `LoseProviderResponse`, `AttachProviderOrder` |
| an error or a crash | `FailRequest` |
| a creator's edit (`products.Update`) | `EditProduct` |

A retry or a second click is another element of `Requests` with the same
`KeyOf`. That the same key comes with the same cart is the client's part
(`CheckoutAssumption`). Razorpay's own orders are `razorpay`; it never
deduplicates (`razorpay/client.go:96-99`).

### Commerce

`Commerce` extends both over one `orders` variable. The buyer can pay through
any window some answer showed (`Attempt`): Razorpay takes the exact sum of the
order it holds, and emits its events at least once. `OldOrders` is the only
timing assumption: PendingOrderTTL is a day and a request lasts seconds, so
the job does not expire an order under the very request creating it. A later
retry gets no such protection.

### OrderLedger

What readers of the tables may assume, with no transaction in sight: one step
for each event, and the step that makes an order paid grants it. `Settlement`
implements it with `granted` mapped to the orders whose every product is
entitled and `handled` to the recorded events; a commit of a delivery or of a
sweep is one ledger step and everything else stutters. In `Commerce` the
commit of a checkout and the attaching of a provider order are ledger steps too.

### Sessions

| Code | TLA+ |
|---|---|
| `auth/service.go` Register, Login, up to the insert | `Login` |
| `issueSession` | `IssueSession` |
| Refresh: BEGIN and `ConsumeRefreshToken` | `Refresh`, `Consume` (waits for the row lock, `Held`) |
| Refresh: `StoreRefreshToken`, COMMIT | `CommitRotation` |
| `RevokeAllForUser` after a reuse | `SelectFamily` (what the statement's snapshot sees), `SweepFamily` (once it has the locks, each row looked at again) |
| Logout | `Logout`, `RevokeOne` |
| the cookie set, or cleared | `Grant`, `Clear` |
| a statement that fails; a crash or a lost answer | `FailRefresh`, `FailOther`; `LoseAnswer` |
| `expires_at` passes; a second browser holds the cookie | `Expire`; `CopyCookie` |

A row is "refreshed", "loggedout" or "swept" where the table has only
`revoked_at`: the code cannot tell these apart, and what follows from that is
what the properties are about. `parent` is a history variable, the token that
a refresh spent for this one. `SweepFamily` takes all its locks at once where
Postgres takes them one by one; that allows only more interleavings.
`disturbed` remembers the users whose browsers had overlapping requests, lost
an answer or shared a cookie. Not in the module: users and passwords, and
access tokens, which are stateless.

### Catalog

| Code | TLA+ |
|---|---|
| `products/service.go` Update | `BeginUpdate`, `UpdateProduct` (row lock), `CheckDeliverable` (count, or roll back), `CommitUpdate` |
| RequestUpload | `RequestUpload` (the count), `CreateFile` (insert, commit, URL) |
| the browser | `PutObject`, `ExpireUrl` |
| ConfirmUpload | `BeginConfirm`, `StatObject`, `ConfirmFile` |
| DeleteFile | `BeginDelete`, `CheckSold`, `RemoveRow`, `CountRemaining`, `Unpublish`, `CommitDelete`, `DeleteObject` |
| `jobs/cleanup.go` SweepAbandonedUploads | `SelectAbandoned`, `ReapAbandoned` (by id, without another look at `uploaded_at`), `DropAbandoned` |
| an error or a crash | `Fail` |
| checkout, the webhook | `PlaceOrder`, `GrantEntitlement` |
| `delivery/repository.go` FindDeliverables | `Deliverables` |

One product and any number of files: no statement of these spans two products
but the sweep, which treats each row alike. The row deleted by an open
transaction is `fileLock`, the status it has written is `wish`; both take
effect in its commit. `Unpublish` shows why READ COMMITTED matters: it waits
for a row that is published, and passes by one that is only about to be.
Drafts and archived products are one value, because nothing here
distinguishes them. `raced` remembers that two calls overlapped of the kinds
that are not safe together; `kept` what an order was sold with.

### Links

| Code | TLA+ |
|---|---|
| `profiles/service.go` Create, Update | `CreateProfile`, `UpdateProfile` |
| AddLink | `LockProfile` with no order, `CountLinks`, `CreateLink`, `CommitLinks` |
| Reorder | `LockProfile` with the ids asked for, `CountLinks`, `ReorderLinks`, `CommitLinks` |
| UpdateLink, DeleteLink | `UpdateLink`, `DeleteLink`: one statement, not behind the profile lock |
| invalidate | `Return` (what it does to the cache is in Storefront) |
| an error or a crash | `FailTx` |

`writes[c]` holds the positions an open transaction has written; its rows are
locked until it ends, and the deferred constraint is compared in `CommitLinks`
(`PositionsDiffer`). `clash` remembers that it ever refused. An id of another
creator's link behaves as the id of a deleted one, since every statement
carries `profile_id`.

### Storefront

| Code | TLA+ |
|---|---|
| `storefront/service.go` Page, after a miss | `FindCreator`, `ListLinks`, `ListProducts`, `StorePage` |
| Product, after a miss | `FindProduct`, `ListDeliverables`, `StoreProduct` |
| a hit | nothing changes: the entries are what is served |
| the end of the TTL | `Expire` |
| writes of `profiles` | `Edit` of Links, then `InvalidateProfile`: the page, and no product |
| writes of `products` (their inside is Catalog) | `UpdateProduct` (price, slug, status), `ChangeFiles` |
| `products/service.go` invalidate, after the commit | `PublicCoords` (the slug as it is by then), `InvalidateProduct` (one DEL of two keys) |
| a confirmed file that the sweep deletes | `SweepFile`: nobody invalidates |
| `cache/cache.go` SetJSON, Delete | they take effect or not: `UNCHANGED` in a store, `Keep` for a DEL |

One creator and one product, which is `None` while it is not published and may change
its slug. `cache` has an entry for the creator's page and one for each slug. A writer
has committed and not yet invalidated while it is at "invalidate", "coords" or "drop"
(`Pending`). `tainted` has the keys whose entry is allowed to be out of date: the DEL
was lost, the entry was loaded by a reader that an invalidation overtook
(`overlapped`), or it lists a file that the sweep took.

`PagesAreFresh` is about the other entries: the creator's page, and the product's under
the slug that it has now. It does not say more than the code does. The entry under a
former slug is dropped by nobody. The product's page of a profile that was hidden stays
as well, and is then held against what it would be if the profile were shown
(`Offered`). The creator's name, which a product page embeds, is left out: the code says
it may be old for five minutes. The first two contradict comments of the code
(section 4).

`editing` hides the readers and the writers of products, and what is left is Links
(`ImplementsLinks`).

### JobRunner and Runtime

| Code | TLA+ |
|---|---|
| `jobs/runner.go` acquire | `Acquire` (SETNX took the key), `RunAnyway` (no Redis, or an error, which may come after the key was set) |
| batched | `NextBatch`, `FinishBatch`, `FailBatch`, `NoMoreBatches` |
| release | `Release`: compare and delete, or a call that fails |
| loop, `ctx.Done` | `StopLoop` |
| the timeout of a run, the TTL of the key | `Tick`; a run may go on past its timeout only after `Stall` |
| `analytics/service.go` Record | `Record`: queues, drops when full, panics on a closed channel |
| run, write | `TakeEvent`, `UpsertVisitor`, `InsertEvent` |
| `cmd/api/main.go` the signal, ShutdownWithContext or a failed Listen | `Signal`, `Drain` |
| Runner.Stop, then Close of analytics | `StopJobs`, `Flush` |
| a crash, or the next process | `Restart` |

All jobs have the same loop, so one is enough; what a batch does to the tables
is in Settlement and Catalog, which allow any number of sweeps at a time and
so do not rest on the lock. The key in Redis has an owner and the ticks it
has left. `orphan` says that nobody will release it: its process died, the
release failed, or SETNX set it and answered with an error. `drainCut` and
`flushCut` remember a shutdown that gave up after its twenty or five seconds.

### RateLimit

| Code | TLA+ |
|---|---|
| `middleware/ratelimit.go` incrementAndExpire | `Script`, atomic in Redis |
| Limit up to the call | `Arrive` |
| Run | `Execute`, and `Resend` when the client library sends a command twice |
| an error, or no answer before the client gives up | `FailOpen`; the script it sent may run later (`RunStray`) |
| the answer: 200 with headers, or 429 and Retry-After | `Admit`, `Refuse` |
| the end of a window; Redis restarts empty | `Tick`, `Restart` (both end in `EndCounter`) |

One bucket and one identity are one key, and no step touches two. Time passes in
ticks. `counter` has the hits and what PTTL would answer; a call knows whether the
counter that charged it is still there (`of`). `charged` and `admitted` count
requests by age and `told` is the shortest wait announced for this counter: history
variables, which the code does not have. `doubled` marks a counter that a resent
command has charged twice.

### Analytics

| Code | TLA+ |
|---|---|
| `storefront/handler.go` Page, LinkClick up to the hash | `Visit` |
| `analytics/service.go` Record: the event's own time, a place in the queue or none | `Record` |
| write: UpsertVisitor, InsertEvent | `UpsertVisitor`, `InsertEvent`, by the worker of any replica |
| a statement that fails, a crash, a foreign key | `LoseEvent` |
| `profiles.DeleteLink` and its CASCADE | `DeleteLink` |
| `jobs/cleanup.go` DeleteExpiredAnalytics | `StartSweep`, `DeleteEvents`, `DeleteVisitors` (with SET NULL), `FailSweep`; `NextBatch` has the short batch and the cap |
| `analytics/report.go` Overview | `EventTotals`, `VisitorDays`, `DailySeries`, `TopLinks`: one snapshot each |

`visit[v]` is a request, then its event, then its row of `events`. The hash of a
visitor is its browser and the day it was computed on; the row's `seenOn` is the day
of the event, and midnight may pass in between. `report.shrunk` remembers that rows
went while a report was read. Purchase rows are Settlement's, and revenue is read
from orders.

## 3. Runs

| Run | Instance | Shows |
|---|---|---|
| `settlement` | 1 order, 6 conflicting events (one payment under three ids, a second payment, a wrong sum, an unknown order), 2 workers, 1 sweeper, 1 failure; 277k states | `PaidMeansEntitled`, `PaidMeansCharged`, `VerdictsAreTrue`, `CountsMatchCaptures`, `AnsweredMeansRecorded`, the inductive invariant, `StatusIsFinal`, refinement of the ledger |
| `settlement_live` | a capture, an event that violates a CHECK for ever, an unhandled type, an unsigned body; 7k states | `EveryEventIsHandled` |
| `commerce` | a double click on a two-product cart, 2 mishaps, 1 edit, 2 possible provider orders, 6 possible payment events, 1 worker, 1 sweeper, 1 failure; 54k states | `OneOrderPerKey`, `ReplaysAgree`, `WindowsAreHonoured`, `CapturesFindTheirOrder`, the inductive invariant, refinement |
| `count_undoes_payment` | as `settlement_live` | violation: a sale that cannot be counted undoes the payment |
| `sessions` | 2 users with a browser each, 4 tokens, 2 requests at a time, 1 fault or expiry; 0.97M states | `RotationIsAtomic`, `ReuseEndsOpenSessions`, `NoFalseAlarm`, `EndsAreOwnAndFinal`, the inductive invariant |
| `catalog` | 2 callers, 2 files with a limit of one, 2 contents, 1 order, 1 fault; 1.3M states | `RowsHaveObjects`, `CapIsNearlyKept`, `BoughtFilesStay`, `PublishedIsDeliverable`, `AcceptedIsFinal` |
| `links` | 3 callers, 4 ids with a limit of 3; 96k states | `CapIsKept`, `CommitsNeverClash`, `OrderIsAsked` |
| `storefront` | 2 callers that read or write, 1 link, 1 offer or none, 2 slugs, 2 listings, any Redis call lost; 495k states | `PagesAreFresh` |
| `runtime` | 2 replicas, one of which serves, timeout 2 and margin 1, 2 batches, a queue of 1, 1 request at a time, any call fails; 0.83M states | `OneRunAtATime`, `LockHasRun`, `NothingArrivesLate`, `ClosedMeansIdle` |
| `ratelimit` | 2 requests at a time, limit 2, window 3, patience 1, 1 late script, 1 restart; 2.2M states | `AdmissionIsBounded`, `RefusalIsEarned`, `WaitIsEnough`, and the inductive invariant: types, the expiry that a counter always has, and how admissions and hits add up |
| `analytics` | 2 visits by one browser, days of 2 ticks, retention of 1 day, batches and cap of 1, 1 failure, 4 ticks; 665k states | `EventsKnowTheirVisitor`, `ReportAddsUp`, `ExpiredRowsGo` |
| `batch_killed` | as `runtime`, no statement fails of itself | violation: SIGTERM ends the batch under way |

Bounds, each named in a cfg: `Workers`, `Sweepers`, `Requests` (how many run at
once: every wait and every race is between two of them, and the theorems of
section 5 hold for any number); `Events`, `Payments`, `Products`, `Amounts`;
`MaxFailures`, `MaxMishaps` (statements, answers and processes that fail: one
at every possible point, two in checkout so that a lost response and a failed
retry occur together); `MaxEdits`. Symmetry is used only in runs without a liveness
property.

Three callers are enough for `links`, because two transactions never overlap (the
profile lock) and a third call can be the statement that does not ask for it.
In `storefront` two callers make a reader against a writer, which the
overtaken load needs, and two writers in a row; a third only repeats them. One link
that is shown, hidden or deleted is enough to make a page differ from the next; what
several do to each other is the matter of `links`.

A revocation that meets a refresh takes the four tokens of `sessions`: the spent one that
was presented, the live one whose row a refresh holds, and the successor that each of
the two has drawn. The mutant of `ReuseEndsOpenSessions` passes over locked rows and is
caught, so the wait for them does happen in the run. Two requests of one browser are two
tabs, or two devices that hold one user's sessions; the second user is there to be left
alone. In
`runtime` two replicas are the owner of the key and its successor; a margin of
one tick is the least that differs from none, and a queue of one is full
after one event.

In `ratelimit` a limit of two is the least with a burst on both sides of a boundary;
the bound `2 * Limit - 1` is reached. A second of two ticks makes
Retry-After round. `Patience` is how long a call may last. The context's 500 ms do not
end a read in progress (`database/redis.go` sets no `ContextTimeoutEnabled`), the read
timeout of 2 s does; runs and theorems need only that it is below `Window`, a minute. The
two requests are symmetric. In `analytics` a day of two ticks has an inside and a
boundary, a retention of one day lets events and visitors expire before the horizon,
and a cap of one batch of one row makes a run stop with rows left. Two visits give
one row that stays and one that goes, two events of one visitor row, and two days.

The type invariants of Settlement, Checkout, Sessions and RateLimit are conjuncts of
`SettlementInv`, `CommerceInv`, `SessionsInv` and `RateInv`; those of Catalog, Links,
Storefront, JobRunner with Runtime, and Analytics are conjuncts of `RowsHaveObjects`, `CapIsKept`, `PagesAreFresh`,
`NothingArrivesLate` and `EventsKnowTheirVisitor`.

**Fairness.** `settlement_live` and `analytics` need some; the other runs check
safety. In `analytics` it is weak fairness of the retention job's own steps: the
runner starts the job every day (`cmd/api/main.go:139-142`) and again after a run that
failed, and a statement ends within its timeout. Failures are finitely many, and new
visits end with the instance, so that `ExpiredRowsGo` is about catching up. It is
not assumed that readers, visitors or the event writer go on.
`settlement_live` assumes that a goroutine with a request goes on
until it has answered, that a sweep ends, and that Razorpay keeps sending what
it has no answer for (a 500 is documented as "makes Razorpay deliver the event
again", `payments/handler.go:70-74`). Strong fairness on a worker's step is
the lock queue of Postgres: locks are granted in the order they were asked for,
so a transaction that waits for one gets it although others come and go. The
job that starts a sweep, and every failure, has no fairness. Failures are
finitely many.

## 4. What disagrees with its documentation

1. **A sale that is not counted undoes the payment.** `payments/service.go:167`
   logs the error of `RecordPurchaseEvents` and goes on, in a transaction
   that this error has aborted (run `count_undoes_payment`).
2. **The signal kills the batch it should let finish**: `cmd/api/main.go:82` starts
   the jobs with the context of the signal (run `batch_killed`).
More follow from the actions above and have no run of their own; where a property
states what does hold it is named.

* A session survives the reuse of a token, where `auth/service.go:137-138` and
  `auth/token_repository.go:89-90` say that every session for the account dies. The UPDATE
  of `RevokeAllForUser` waits for a row that a refresh holds, and does not see the
  successor which that refresh inserts. `ReuseEndsOpenSessions` says that every token
  which was live when it looked is ended.
* The product of a hidden profile stays visible, where `storefront/repository.go:95-96`
  says that it "must stay invisible", and FindProduct has the condition. But hiding the
  profile drops only the creator's page (`storefront/service.go:46-48`), and Product
  answers from the cache before it asks, for up to five minutes.
* The old URL of a product still answers: `products/service.go:156-160` leaves the entry
  under the old slug to its TTL, "which is correct since that URL now 404s anyway". It
  is the entry itself that answers until then. `PagesAreFresh` is about the slug that the
  product has.
* A replay may hand back an order that can never be paid: `orders/service.go:129` does not
  look at the status, so a retry after the expiry job gets a payment window for a
  cancelled order. Its capture is refused and kept on record, says `VerdictsAreTrue`.
* Paid and not downloadable: only an entitlement keeps a file from being deleted
  (`products/service.go:305`), an order in its payment window does not.
  `BoughtFilesStay` says what an entitlement does keep.
* The retention job goes on to the visitors after a run of events that stopped at
  its cap, so expired events that are left lose their visitor (SET NULL), where
  `jobs/cleanup.go:147-149` says that the order of the deletions avoids it. Events inside
  the window never do, says `EventsKnowTheirVisitor`.
* A browser whose request straddles midnight is counted twice on one day: the hash is
  of the day before (`storefront/handler.go:43`), the row's `seen_on` of the event, where
  migration 000008 calls it the day the hash was computed for.
* Retry-After can be 0 in the last millisecond of a key's life, when PTTL answers 0
  (`middleware/ratelimit.go:116` means to exclude it), and X-RateLimit-Reset is rounded
  down where Retry-After is rounded up. `WaitIsEnough` says that whoever waits, and a
  moment longer, is right to. A command sent again by the client library charges a
  request twice; `RefusalIsEarned` excepts it.
* A second capture of a paid order writes its purchase rows again
  (`payments/repository.go:174`): once for each applied capture, says
  `CountsMatchCaptures`, not once for each order.
* Signing out on a laptop can sign out the phone: a refresh that loses against a
  logout is taken for a reuse (`auth/token_repository.go:75`). `NoFalseAlarm`
  states when this cannot happen.
* A reader that loaded a page before an edit may store it after the edit's
  invalidation (`storefront/service.go:97`), and the old page stays for five
  minutes. So it does after a lost DEL. A product page also lists a confirmed file that
  the sweep has deleted, because the sweep invalidates nothing. `PagesAreFresh` excepts
  these three and says that no other order of load, commit, DEL and SET leaves the
  creator's page, or the product's under its slug, out of date.

Also seen and not a run. A product can be left published with no file by two
overlapping deletions, a deletion that overlaps a publication, or a sweep that
overlaps a confirmation and deletes a confirmed file; `PublishedIsDeliverable`
states that nothing else can, and checkout refuses to sell it. A refresh that
ends in a 500 clears the cookie although its rolled-back token is still good
(`auth/handler.go:113-115`). An event whose payment row violates a CHECK (another
currency, a zero amount) is treated as transient and redelivered for as long
as Razorpay tries; the premise of `EveryEventIsHandled` excludes such events,
and the run shows that they do not hold up the others.

## 5. Proofs

`CommerceProofs` first proves of settlement, for any number of orders, products, events, workers,
replicas and failures, from the assumptions named in `Schema` and `Settlement`
(`NoneIsFresh`, `AmountsAssumption`, `EventsAssumption`,
`SettlementAssumption`: identifiers are distinct from NULL, two events never
share an id, a genuine payment belongs to one Razorpay order, the orders table
starts with pending rows whose provider orders differ):

* `Invariance`: `SettlementSpec => []SettlementInv`, and from it
  `TypeCorrectness`, `PaidIsEntitled`, `VerdictsHold`, `AnswersAreBacked`;
* `PaidIsCharged`, which needs that a paid order was paid by an applied capture
  and that this capture's payment row is of that order;
* `StatusesAreFinal`, an action property, from the invariant and the step kinds;
* `CountsAreExact`, with the uncommitted counts as an extra invariant;
* `Refinement`: every step of settlement is a step of the ledger or a stutter.

`PaidMeansEntitled` is not inductive: that a commit pays and grants together
follows from what the worker did four statements earlier. `SettlementInv`
therefore says, for each statement of the transaction, what the worker has
written and what it knows (`KnowsAt`); that this stays true while others run
is what the locks are for (`HasOrder`: the row locked at the lookup still has
the status that was read, `LocksAreHeld`, `WritesAreExclusive`); and that each
committed row is explained by an event (`PaymentsAreExplained`,
`PaidByCapture`, `CapturesAreAccounted`). The preservation proof has one lemma
for each action. The TLC run `settlement` checks `SettlementInv` too.

Its second part proves the same of checkout, Razorpay, buyer and settlement over one
orders table, to which rows are added and windows attached while deliveries run, for
any number of requests, keys and products as well. The invariant is
`CommerceInv == CheckoutTypeOK /\ SettlementInv /\ CheckoutInv`. Settlement's steps keep
the middle part by the first part (Commerce runs them unchanged) and the others by
their effect on the orders table (`RowEffect`, `DeliveryEffect`, `LockEffect`); checkout's
steps have one lemma each, which shows that none disturbs what a delivery knows:

* `KeysNameOneOrder`, `ReplaysNeverDiffer`, `WindowsHold`, `CapturesSettle`,
  `CheckoutTypes`: `OneOrderPerKey`, `ReplaysAgree`, `WindowsAreHonoured`,
  `CapturesFindTheirOrder` and the types;
* `PromisesCompose`: what Settlement promises over a fixed table holds over this one;
* `CommerceRefinement`: every step is a ledger step or a stutter.

None of them is inductive. A request works on a copy of the row that it read
statements ago and never compares it again, so `RequestKnows` says how far a copy may be behind (`porder` and `status`, never
the sum), `InsertsAreApart` that two open transactions never hold one key, and
`RowsAreHonoured` that a Razorpay order attached to a row was made for it and
for its total. `EventsAreEarned` carries this to the webhook: an event that would
settle anything is about an order of ours, for its exact sum.

`SessionsProofs` proves, for any number of users, browsers, tokens, requests
and faults, from `SessionsAssumption` (every browser has an owner, NULL is no
token): `SessionsInvariance`, and from it `SpendsOnce` (`RotationIsAtomic`),
`ReuseIsAnswered` (`ReuseEndsOpenSessions`) and `SessionsEndOwn`
(`EndsAreOwnAndFinal`, an action property). `RotationIsAtomic` is not
inductive: that the token a refresh consumed is still live when its successor
is stored is what the row lock is for. `SessionsInv` adds it (`RequestKnows`),
with one spender for each token (`OneSpender`), and that no two requests drew
the same successor (`DrawsAreDistinct`). `AlarmsAreEarned` (`NoFalseAlarm`) has an
invariant of its own, `QuietInv`, proved on top of it: the jar of a browser that is
served one request at a time holds a live token that no other jar and no other
request has seen (`JarIsQuiet`, `RequestIsQuiet`), so a refusal means that
somebody's requests overlapped, an answer was lost or a cookie copied.

`CatalogProofs`: `ConfirmedIsStored` (`RowsHaveObjects`), `SoldFilesStay`
(`BoughtFilesStay`), `PublishedHasFiles` (`PublishedIsDeliverable`),
`LimitNearlyHolds` (`CapIsNearlyKept`) and the action property `AcceptanceIsFinal`.
`CatalogInv` has three parts, one for each kind of argument: `FilesInv`, what a
caller may take for granted of the file it named statements ago; `SoldInv`, that
nobody is on the way to delete a sold file; and `CalmInv`, that while no unsafe
overlap has happened, whoever is about to publish or to delete leaves a file. The
limit is exceeded by less than the number of callers, because each of them has
counted before it inserts: a counting argument over the finite set of callers.

`StorefrontProofs`: `CapHolds`, `NoCommitClashes` and `OrderHolds` for Links, from
`LinksInv`, which says what a holder of the profile lock may rely on although
deletions and updates pass it by: of what it counted, rows may only have gone, and
positions it has not written stay apart from those it has. `PagesStayFresh`
(`PagesAreFresh`) from `StorefrontInv`: while nobody has still to invalidate, a
reader that no invalidation has overtaken holds exactly what the tables say, each
of its statements having read what the next one would read again (`ReaderInv`). That the
product may leave a slug and return to it does no harm, since whoever moves it there
has still to look the slug up: either it drops what is cached under it and overtakes who
is loading it (`DropStep`), or the product has moved on. The theorem covers any number
of slugs, with the exceptions `PagesAreFresh` names.

`StorefrontRefinement` composes the two: `StorefrontSpec => ImplementsLinks`, with `at`
mapped to `editing`, which shows a caller of Links only what it does to the page. Every
step of a reader, of the cache and of a writer of products is a stutter, `InvalidateProfile`
is `Return`, and so whatever is proved of Links holds of the page that the storefront
shows. TLC has checked the same on the instance of the run.

`RuntimeProofs`: `LockExcludes` (`OneRunAtATime`) and `KeysAreReleased`
(`LockHasRun`), from `RunnerInv`: a run under the lock that has not stalled owns the
key, and the key has exactly the ticks left that the run has not used, which is
never none because the margin is positive. `ChannelClosesLast` (`NothingArrivesLate`)
and `NobodyIsLeftBehind` (`ClosedMeansIdle`) from `ReplicaInv`: what a phase of the
shutdown waited for has ended and does not begin again.

`RateLimitProofs`: `CountersExpire` (`RateLimitTypeOK`), `WaitsAreEnough`
(`WaitIsEnough`), `AdmissionsAreBounded` (`AdmissionIsBounded`) and `RefusalsAreEarned`
(`RefusalIsEarned`), for any limit, window, patience and number of requests. None of
the last two is inductive, since an answer arrives after the counter that gave it may
have ended. `RateInv` adds, to what an answer on its way says of the time left
(`AnswersSayEnough`):

* `AnswersAreTimed`: how old a call must be, given the counter that charged it. An
  answer of a past counter is older than the present one, and no call outlives
  `Patience`, so such answers are over soon after a counter has begun;
* `AdmissionsAddUp`: what was admitted within the horizon, together with the answers
  that will still admit, is less than the limit plus what the present counter has let
  through; and what was admitted since the calls older than that counter have ended is
  less than what it has let through;
* `ChargesAddUp`: the hits of a counter were all charged since it began.

`AnalyticsProofs`: `VisitorsOutliveEvents` (`EventsKnowTheirVisitor`), from
`AnalyticsInv`, which adds when a visit has which times; the heart of it is a fact of
the calendar, that a visitor the job deletes (by date) is never that of an event it
keeps (by time): `DaysAreOrdered`, `VisitorsGo`. `ReportsAddUp` (`ReportAddsUp`), from
`ReportInv` on top of it: what an earlier query of a report has counted is still there
when the next one runs, or rows went (`shrunk`); the chart then adds up to at least the
totals because every event of the range falls on one of its days (`SumOfClasses`).

`SumLemmas` has what these two need. `SumFunctionOnSet` is a fold, whose recursion picks
its elements in an order of its own, and the induction theorems of the library cannot be
used here. `SetInduction` gets by without them: the subsets of a finite set are
well-founded (`SmallestSet`), and a fact is stated as the set of subsets it holds of.
From it, the recursion has one solution (`SumIsWeight`), and a sum may be taken apart in
any order (`SumTakenApart`), changes where its function does (`SumWithChange`), moves
on by a tick (`SumMovedOn`) and counts a set by its classes (`SumOfClasses`).

`CommerceInv` and `RateInv` are invariants of the runs `commerce` and `ratelimit`, in
place of the type invariants that are conjuncts of them, as `SettlementInv` and
`SessionsInv` are in theirs. The other seven (`QuietInv`, `CatalogInv`, `LinksInv`,
`StorefrontInv`, `RuntimeInv`, `AnalyticsInv`, `ReportInv`) are in no cfg: each was checked
on the instance of its run before it was proved, and the run checks what follows from it.

**Assumptions.** Each is named, stands in the module that declares the constants,
and is evaluated by TLC in the runs. Besides those of Settlement and Sessions:
`CheckoutAssumption` (one key comes with one cart); `CommerceAssumption` (what
Razorpay may send before anything was bought is nothing that settles an order: every
other event is made by `Attempt`); `CatalogAssumption` and `LinksAssumption` (callers,
files and links are finitely many, at least one caller, NULL is none of them);
`RunnerAssumption`, `RuntimeAssumption` (a timeout, a margin and a queue are positive,
NULL is no replica and no key); `RateLimitAssumption` (limit and window are positive, a
call gives up before a window is over, requests are finitely many); `AnalyticsAssumption` (a late write is younger
than the retention: `Lag` is five seconds and the queue, retention is months).

**Only model-checked.** Liveness (`EveryEventIsHandled`, `ExpiredRowsGo`), which rests
on fairness and ENABLED. Every other property of a passing run, invariant or action
property or refinement, is stated by a theorem. The two properties that the code
violates have none.

## 6. Not modelled, and the plan

Left out of what is modelled: text (e-mails, titles, log lines, error bodies),
timestamps, HMAC and JSON (an event has a Boolean "signed" and a type), network
of the database. `failed` and `refunded` are statuses the schema allows and no
code writes.

The referrer of an event is left out: it is a substring of a request header that is
used after the request has ended, and what it then reads is a matter of the web
framework's buffers. Product views are counted as profile views are. The header values
of the rate limit other than Retry-After change nothing.

The stateless middleware, configuration, HTTP error bodies, the S3 adapter and
the frontend hold no state of the protocol and stay out.

Next, in this order:

1. `Register`, the profile of a user and product creation: the unique
   constraints under concurrent inserts, and the two creators who want one name.
2. Liveness: a job is run again after any crash (`LockHasRun` bounds what can
   delay it), and an accepted event is written when nothing fails.
3. Proofs of what the new module promises.
