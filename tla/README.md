# A verification of dpdp-connector in TLA+

dpdp-connector is a compliance platform: a *control plane* keeps consents, data
subject requests and an audit ledger; *zone agents* beside an enterprise's
databases scan them, answer consent checks from memory and carry out erasures; a
*storefront* is the sample enterprise. These modules model the platform's core
logic, model-check it with TLC and prove part of it with TLAPS. Paths below are
relative to the repository; module names are files of this directory.

## Inventory

| Component | State | Operations | Talks to |
|---|---|---|---|
| Ledger: `shared/src/crypto/ledger.ts`, `control-plane/.../ledger.service.ts` | `audit_ledger` | append, export, verify | called by every service |
| Agent service: `.../agent.service.ts` | `agents`, `pending_tasks` | register, heartbeat, queue, pull, list | daemons over HTTP; consent and DSR services |
| Consent service: `.../consent.service.ts` | `consents` | record, withdraw, read | fans out through the agent service |
| DSR service: `.../dsr.service.ts` | `dsr_requests` | create, process a receipt, list | catalog for the plan, agent service for the tasks |
| Catalog service: `.../catalog.service.ts` | `discovered_tables` | ingest, map, override | reports of the daemons |
| Authentication: `.../auth.service.ts` | `dpo_users`, sessions in memory | seed, log in, verify, log out | the DPO portal; the ledger |
| Compliance report: `.../compliance.service.ts` | none | score, grade, advice | reads every service; the DPO portal |
| Daemon: `agent/src/daemon.ts` | status, checksum, token, timers | start, heartbeat loop, drift loop, routes | control plane (it dials out), local applications |
| Consent cache: `agent/src/consent/cache.ts` | a map with expiry | check, set, invalidate, clear | applications; invalidation tasks |
| Scanner, adapters, executor, probe: `agent/src/{discovery,db,dsr}` | connections | scan, sample, delete, probe | the enterprise's stores |
| PII library: `shared/src/pii` | none | Luhn, Verhoeff, classification | the scanner |
| Storefront: `sim-enterprise/ecom-app/src` | PostgreSQL tables, sessions in memory | seed, signup, login, checkout, stock, withdraw, erase | browsers; a database shared by two processes |
| Pages: `*/public*/app.js` | session and cart, polled data | what their buttons and timers do | the servers they came from |

How they interact. Every control-plane handler is synchronous over SQLite (after
the body is read), so a handler is one step unless the process stops in it, and
each SQL statement is its own transaction, so it may stop between any two. A
daemon sends a heartbeat from `setInterval` without awaiting the previous one; the
answer carries all pending tasks, which are processed one after the other with
awaits in between. A control plane never calls an agent. Applications query the
cache of their agent and seed it with what they read from the control plane some
time before; nothing in `src/` but the tests seeds it, so the application is
external here, after the sequence in `docs/COMPREHENSIVE_ARCHITECTURE_CONTEXT.md`.

The hard behaviours: overlapping heartbeats, answers and receipts that get lost,
daemons and control planes that stop half way, rescans that throw in the middle of
a batch, expiry against withdrawal, agents skipped by a fan-out because of a stale
status, a hash that covers something else than what is stored. The storefront awaits
every statement, each a transaction of its own: its handlers interleave with each other
and, through the database, with the admin portal, and a failure leaves half of what a
handler does. Its pages and the portal's act on what they saw some time ago. `PROJECT.json` lists
them as hazards, each at its line with the properties that would catch it.

What makes each part correct:

- ledger: what `appendEvent` wrote verifies; an edit is reported where it was
  made; a hash stands for everything below it.
- task queue: at most once, oldest first, to the owner only; processed at all as
  long as nothing is lost.
- cache: allowed exactly while consent was given, not expired and not withdrawn.
- consent: a withdrawal reaches the caches, or its effect is bounded by the TTL.
- DSR: COMPLETED means every planned task was carried out once and reported.
- discovery: the data map follows the schema the drift check compares with; drift is
  noticed; no daemon stays in a status that withdrawals skip.
- authentication: no access the ledger does not tell of; a refused token stays refused.
- compliance report: grade and advice agree; tampering comes to be seen.
- PII library: check digits fit the validation, slips are noticed, a column is reported
  as what its samples are, a preview does not show what it is to hide.
- storefront: nobody is locked out, a withdrawn purpose stays withdrawn, a session is its
  owner's, a server that listens has its seed, stock and orders agree, nobody pays for
  more than was chosen.

## Modules

| Module | Models | Depends on |
|---|---|---|
| `Ledger` | blocks, hashes, verification and the table | |
| `TaskDelivery` | abstract: what a task queue promises | |
| `AgentTasks` | registry, queue and heartbeat loop | implements `TaskDelivery` |
| `ConsentEntry` | operations on one cache entry (no state) | |
| `ConsentLease` | abstract: leases that end by themselves | |
| `ConsentCache` | the cache of one agent behind its routes | implements `ConsentLease` |
| `ConsentEnforcement` | consent service + queue + caches | `AgentTasks`, `ConsentEntry` |
| `DsrSaga` | DSR service + catalog tables + executor + queue | `AgentTasks` |
| `Discovery` | scans and drift checks of one daemon, ingestion of their reports | |
| `StoreAccounts` | accounts of the storefront: signup, login, withdrawal, erasure, sign-in of the page | |
| `Storefront` | seeding by two processes, carts, checkout, stock | extends `StoreAccounts` and implements it |
| `PiiDigits` | Luhn and Verhoeff, digit by digit | |
| `PiiColumn` | classification of values and columns, masking | |
| `DpoAuth` | officers, sessions, their ledger events | |
| `Dashboard` | compliance report and the page that polls it | |
| `AgentTasksProofs`, `ConsentCacheProofs`, `ConsentEnforcementProofs`, `DsrSagaProofs` | theorems | the module they are named after; the third and fourth instantiate the first |
| `ControlPlaneProofs` | theorems about the control plane's own services | `Ledger`, `DpoAuth`, `Dashboard` |
| `DiscoveryProofs` | theorems about what the agent finds and reports | `Discovery`, `PiiDigits`, `PiiColumn` |
| `StorefrontProofs` | theorems about accounts and seeding | `StoreAccounts`, `Storefront` |
| `SaleProofs` | theorems about stock and orders | `Storefront`, `StorefrontProofs` |

`MC*` modules only name model values and small sets for the configurations. `MCChecksums`
and `MCPortal` hold two and three modules that share no state: a behaviour is of one of them.

### How state and actions correspond to the code

*Ledger.* `ledger` is the table in `block_index` order. SHA-256 is taken to be
collision free: a digest is the record of what was hashed. The only distinction the
two serialisations make differently is a key that holds `undefined`: `canonicalJson`
prints it, `JSON.stringify` drops it, hence `undefinedKey` in a payload and
`JsonRoundTrip` in `StoredRow`. `EditPayload` and `DeleteRow` are people with access
to the file; `exported` is what an auditor kept of `GET /api/v1/dpo/ledger`.

*AgentTasks.* A row of `pending_tasks` carries its place in the creation order
(`lastId` counts the handlers that queued). `exchange[a][s]` follows one heartbeat
of one daemon: REQUEST, RESPONSE, then the BATCH being processed; an ORPHAN is the
request of a process that died. `AgentRegister` starts the loops whether or not the
control plane was reached. Time is `silence`, a row's age, which stops mattering
above `OfflineAge`. Faults are a constant set: `"loss"`, `"agentCrash"`,
`"cpCrash"` (the control plane stops between two statements of a handler).

*ConsentEnforcement.* `consents` is the table, `cache` the map in each daemon,
`reading` the consent an application holds between its read and its seed, dropped
after `ReadLag` ticks. `since` is a clock per purpose. `broken` is a history
variable: it names the agents that something kept from learning of a revocation,
one disjunct per cause, so that `StaleIsCovered` says these causes are all there are.
In a fan-out all rows get one id, as they are for different agents.

*DsrSaga.* `dataMap` is the set of catalogued tables, numbered by name as
`getDataMap` orders them. `createDsrRequest` queues the tasks first and INSERTs the
request last; `CreateInterrupted` is a stop in between. The POST of a receipt is
awaited before the next task of the batch (`Awaiting`).

*ConsentCache.* The map keeps an expired entry until somebody asks for it; a lease
ends by itself. `last` is the last request and its answer, shared with
`ConsentLease`, so that the refinement compares what callers see. A wildcard among the
seeded purposes survives the withdrawal of a named one (`cache.ts:106` filters the
list, and `*` is not in it); a lease behaves the same way, as the code and its tests say
nothing else.

*Discovery.* A query is a step, as every one is awaited; `slot` holds the scans and
drift checks under way, in `runInitialScan` or `checkDdlDrift`, and what each has read.
A checksum is the schema it was computed from. `disturbed` and `hindered` are history:
the first says that the schema changed during a scan, the second that the map may
differ from `lastDdlChecksum` for one of four causes (a disturbed scan, a report lost, a
report cut short by a stop of the control plane, a report that arrives after that of a
later scan). The POST of a report and the answer to it are one step, since the daemon
makes no use of the answer. The initial scan ends in `RUNNING`, or with the process.

*StoreAccounts.* Every `await` on PostgreSQL ends a step: `request[h].at` is the statement
a handler is about to issue, and the rest of the record what it holds meanwhile. The SELECT
of `setPassword` is left out, as nobody else writes the row of an account that is new; the
last statement, the answer and its arrival are one step, since nothing else reads what is in
between. `page` is `currentUser` and the two keys of `localStorage`. An answer without a
session leaves `currentUser` set and nothing saved, as in `submitSignup`, where
`data.session.token` throws after the assignment. The privacy routes check no session, so any
handler may carry a withdrawal or an erasure of any account. `cutShort`, `withdrawn` and
`overtaken` are history; the last names the accounts that a withdrawal wrote a stale list to.

*Storefront.* `server` is how far `seedInitialProductsAndAdmin` has come in each process;
a duplicate key ends it, a restart begins with the question whether there is any row. A
checkout of a till takes the stock of one item per step and INSERTs the order last. `seen` is
the stock the page last polled, which is all that `addToCart` looks at. `chosen` counts what a
shopper chose for good: units that leave the cart while a checkout is under way stay counted,
as they may have been bought. Staff may enter any integer as a stock, as neither the admin
page nor its handlers nor the table refuse one below zero; the next checkout of the product makes
zero of it and sells the unit. `shelved` is history: what a stock was last set to, and how much
checkouts had taken by then. `unsure` are the browsers whose owner pressed the button twice
or got no answer. Prices, addresses and order lists are left out. Each behaviour has a
`workload`, the kinds of requests its clients make: together they are all of them, apart they
keep the product small.

*PiiDigits.* The loops go over a number from its last digit, so a state is the sum so far, the
sum of the number as typed, and the place modulo what the tables repeat in; every number up to
`MaxLength` is one of few states. `GeneratedWith` runs one place behind, as the generator does
over the number without its check digit. The table `d` is written as the group it is; `p` and
`inv` are copied cell by cell.

*PiiColumn.* A value is what the regular expressions and checksums tell of it, and how long it and
what is before its `@` are; whatever has one `@` is split there by the mask of e-mails, be it an
e-mail or not (`OneAt`). `suggested` is what the column's name suggests. Confidence is in
hundredths, rounded to the nearest; which way an exact half goes depends on the double arithmetic
before it (22.5 for 1 match of 4 goes up, 57.5 for 23 of 36 goes down) and is left open, so that `ColumnReports` is a set of one report or two. A preview counts what it shows of the value it
was made of (`Previewed`).

*DpoAuth.* Methods run without `await`, but their statements commit one by one and the append
to the ledger may throw: `AuthenticateUnlogged` is the session that is left behind. `given` is
what answers carried, `kept` what the page stored; the clock may be set to anything.

*Dashboard.* `has`, `open` and `valid` are all the report reads of the other services that
its score, grade or first advice depend on. A poll takes the report of one moment and may
arrive late, be overtaken or get lost.

## Runs

| Run | Instance | Shows |
|---|---|---|
| `checksums` | 3 blocks, 2 contents, 2 edits; numbers of up to 19 digits | of the ledger types, exactness of verification, head binding, location of edits; check digits, slips |
| `ledger_always` | the same | *violated*: an `undefined` key breaks verification (finding) |
| `tasks` | 1 agent, 2 slots, 2 tasks, all faults | at most once, order, refinement of `TaskDelivery`; what is queued for an agent gets processed or lost |
| `consent_cache` | 2 principals, 2 purposes and the wildcard, TTL up to 2 | the cache implements `ConsentLease` |
| `enforcement` | 1 agent, 1 purpose, TTL 1, 2 tasks, all faults | bounded staleness; stale entries are covered or have a known cause; covered ones go away by the heartbeats alone |
| `enforcement_fleet` | 2 agents | *violated*: a scanning agent is not told (finding) |
| `saga` | 1 agent, 1 request, 2 tables, 1 rescan, 3 tasks, all faults | completion is accounted for and final; requests complete and deletions are recorded unless something named got lost |
| `saga_faked` | failing stores | *violated*: a completed request that deleted nothing (finding) |
| `discovery` | 1 table of 2 shapes, 2 slots, 2 schema changes, 1 fault of any kind | the map follows the checksum; drift is noticed; the daemon becomes DORMANT again |
| `storefront` | 5 workloads; 2 accounts, 1 email, 2 handlers, 1 browser, 2 tills, 3 products, stocks set to 1 and -1, all faults | the storefront's six properties above |
| `portal` | 2 officers, 2 tokens, 4 clock values; 2 polls, 1 open request; columns of up to 4 samples of 14 kinds, and of up to 200 samples of 2 kinds | sign-in, overview, reports and previews of columns |
| `preview_partial` | columns of up to 2 samples | *violated*: the preview of an e-mail with a one-letter user is all of it (finding) |

A lost answer to a heartbeat loses the tasks in it: they are DISPATCHED before it leaves
(`agent.service.ts:174`) and never sent again. The README of the repository (line 70) tells
of the queue without that case; here it is the fate LOST of `TaskDelivery`, which every
liveness property of the queue, of enforcement and of the saga has to name.

The five workloads of `storefront`: *Seeding*, two processes and crashes; *Privacy*, signups,
logins, withdrawals and erasures with failing statements; *Login*, two passwords, crashes,
reloads and failing statements; *Stock*, overlapping checkouts, failing statements and staff;
*Reload*, checkouts over crashes and reloads. Answers get lost in the last four.

### Bounds and why they are enough

`MaxBlocks` 3 gives a first, a middle and a last row, all cases of the edit
property; two edits let one be hidden behind another. Two slots are the least that
overlap; two tasks give a batch with a head that throws and a tail, or two batches, and
the third of `saga` comes behind the two of one request. Agents do not interact except through the fan-out, so one agent is
enough for safety and two where the fan-out or the two daemons' progress is the
question. Clocks stop where no guard can tell later values apart (`silence` above
`OfflineAge`, `left` below 0, `since` at `SinceMax`). Every bound is a CONSTANT and a
guard (`MaxBlocks`, `MaxEdits`, `MaxTasks`, `MaxTtl`, `ReadLag`, `MaxDdl`, `MaxFaults`,
`MaxTokens`, `MaxUnits`, `MaxOrders`, `MaxLength`, `MaxSamples`, `MaxClock`, `MaxOpen`).
`ReadLag` 0 lets an application seed what it read before a withdrawal within the same tick;
a longer lag only adds to the bound. `enforcement` has one purpose: partial withdrawals, whose
effect on an entry `consent_cache` covers with two, are not in it.
In `storefront` two accounts and one email make two signups race for it, two
handlers are the least that interleave and two units the least that `Less` can
cut off at zero, over two seeded products and one that staff add; the proofs take the
properties of the accounts and of the seeding to any number. 19 digits is the longest number
the validators are given by the classifier (Aadhaar has 12) and more than a period of the
tables. Four samples give ties and majorities; columns of two kinds of values go to 200, which is what the scanner
takes by default (`scanner.ts:30`), for the confidences. A staff stock of -1 and one of 1
are the least on either side of zero.
In `Discovery` tables do not influence each other, so one is enough for the run; two
changes let the schema return to what an old scan saw, and two slots let that scan
report after a newer one. One fault is enough to need every recovery; a daemon that
fails for ever never recovers, hence the bound on faults under fairness.

### Fairness

Weak fairness of each daemon's start and of each task of a batch: a Node process keeps
running what is ready, and containers are run `--restart unless-stopped`. Strong fairness
of registration and of the heartbeat timer in `AgentTasks` and `DsrSaga`, where a daemon
may crash again and again: it now and then lives long enough to get there. Strong fairness
of the arrival of requests and responses: a message sent for ever arrives; weak for
receipts. `StaleIsEvicted`, `RequestCompletes` and `ErasureIsLogged` are checked under every
fault, with the losses they cannot survive named in them. `Dashboard` assumes that the page's
timer keeps firing and that the network does not lose every answer; that the control plane is
up again and again, and that the officer stays, are hypotheses of `TamperingIsShown`.
`Discovery` assumes
that the process is started again (containers are run `--restart unless-stopped`),
that `setInterval` keeps firing (strongly fair because a free slot is a bound of the
model only) and that queries and posts end. Nothing is assumed
of the clock, of applications, of principals or of rescans; `enforcement`
therefore shows that a stale entry goes away without the TTL's help.

## Proofs

Every safety invariant, every action property and every refinement that a run checks is
also a theorem, for all values of the constants that satisfy the modules' named
assumptions. Each rests on an inductive invariant, and most properties are not
inductive themselves:

| Theorem | Property | Inductive invariant |
|---|---|---|
| `ControlPlaneProofs!LedgerTypeCorrect`, `HeadBindsHistory`, `EditsAreFound` | `TypeOK`, `HeadBinding`, `EditsAreLocated` | `TypeOK` |
| `ControlPlaneProofs!IntegrityIsExact` | `IntegrityExact` | `Chained` |
| `ControlPlaneProofs!AuthTypeCorrect`, `AccessLeavesATrace`, `RefusalIsFinal` | `AuthTypeOK`, `AccessIsLogged`, `RefusedForGood` | `AuthInv` |
| `ControlPlaneProofs!ReportsAgree` | `CompliantIsEarned` | `EstateTyped` |
| `AgentTasksProofs!TypeCorrect`, `ProcessedAtMostOnce`, `TasksInOnePlace`, `OldestFirst`, `QueueDelivers` | `TypeOK`, `AtMostOnce`, `OnePlace`, `DispatchedInOrder`, `DeliverySpec` | `IInv` |
| `ConsentCacheProofs!CacheTyped`, `CacheImplementsLease` | `TypeOK`, `LeaseSpec` | `TypeOK` |
| `ConsentEnforcementProofs!TypeCorrect`, `StalenessIsBounded`, `StaleCovered` | `TypeOK`, `BoundedStaleness`, `StaleIsCovered` | the queue's, `LocalType`, `Fresh` |
| `DsrSagaProofs!TypeCorrect`, `CompletedAccounted`, `CompletedFinal` | `TypeOK`, `CompletedIsAccounted`, `CompletedIsFinal` | the queue's, `LocalType`, `IdsAreGlobal`, `SagaInv` |
| `DiscoveryProofs!TypeCorrect`, `ScanningMeansScanning`, `MapFollows` | `TypeOK`, `ScanningIsTrue`, `MapFollowsChecksum` | `IInv` |
| `DiscoveryProofs!CheckDigitsValidate`, `OneSlipIsNoticed` | `GeneratedValidates`, `SlipsAreNoticed` | `DigitsInv` |
| `DiscoveryProofs!PreviewsHide`, `ReportsAreJustified` | `PreviewHides`, `ReportIsJustified` | `ColumnInv` |
| `StorefrontProofs!TypeCorrect`, `SignupLocksNobodyOut`, `ConsentComesBackOnlyByStaleWrite`, `TokenIsOfTheAccountShown`, `StorefrontImplementsAccounts`, `AccountsAreSafe` | `AccountsTypeOK`, `NobodyIsLockedOut`, `WithdrawnStaysWithdrawn`, `SessionOfOwner` | `AccountsInv` |
| `StorefrontProofs!StartsFindTheSeed` | `SeedIsComplete` | `SeedInv` |
| `SaleProofs!ShopTypeCorrect`, `StockAddsUp`, `ChargesAreChosen` | `TypeOK`, `StockIsAccounted`, `ChargedForChosen` | `SaleInv`, `StockInv`, `ChargesInv` |

*The ledger.* `IntegrityExact` is not inductive, as an unsafe append breaks the chain at
some row and later rows must not mend it: `Chained` says that, as long as nobody edited,
every row is linked as `appendEvent` left it and its hash is `RowHash` except where a
payload had an undefined key. `HeadBinding` is a consequence of the typing invariant
alone: `RowHash` is injective, so equal hashes at a row mean equal rows and equal previous
hashes, and the greatest row that differs is a contradiction. `EditsAreLocated` is about
one step from a table that verifies: a rewritten row either no longer matches its own
hash or no longer is what the row behind it links to, and behind a removed row every
index is off by one (`FirstFault`, `RewrittenRow`, `DeletedRow`).

*The sign-in and the report.* `RefusedForGood` needs that a token is drawn once: what was
refused is out of the map and never drawn again. `CompliantIsEarned` needs no more than the
types of what the report reads.

*The task queue.* At-most-once is not inductive: a second execution has to be excluded
where the task is handed over. `Placed` says that what is in a batch is DISPATCHED, not
yet processed and in no other batch, `RowsAreTasks` that an id names one row of an
agent; then pulling takes PENDING rows only, which are in no batch. For the refinement of
`TaskDelivery`, `RequestsAreEmpty` adds that a request carries no tasks; then `FateTable`
reads the fate of each task off the tables, and each action of `AgentTasks` is a move of the
abstract queue (`FanOut` a `Queue`, a pull a `Take` that reaches the agent or is lost, a task
of a batch a `Process` that may cost the tail of the batch) or leaves all fates alone.

*Enforcement and erasure* compose the queue with their own state and instantiate
`AgentTasksProofs` for it: every step is a step of the queue with their data, or enqueues
rows in a way the queue does not know as a step of its own (`Enqueues`), or leaves it alone,
and so the queue's invariant carries over. `BoundedStaleness` follows from `Fresh`: what an
entry has left, and the age of what an application has read, always make up for the time
since the purpose was in effect; the second is needed because an application may seed what it
read before the withdrawal. `StaleIsCovered` is inductive once the queue's invariant and
`Fresh` are known: a task that leaves the queue unprocessed adds its agent to `broken`, and
processing it removes what it names from the entry. For `CompletedIsAccounted`, `SagaInv`
relates the count that the code tests to the tasks it stands for: the plan of a request is
exactly its tasks (`PlansAreTasks`, which needs `IdsAreGlobal`), every receipt, on the way
or on record, is of a task that was executed, and a SUCCESS of a deletion that took place
(`AllEarned`), and no task has two (`OneEach`, which needs that a task is executed once). As
many distinct receipts as there are tasks in the plan are then one of each. `CompletedIsFinal`
follows: a receipt that could still be added would be one too many.

*The cache.* Each step of `ConsentCache` maps to the step of `ConsentLease` of the same name;
an expired entry and an absent one are the same lease. The seeds may hold the wildcard.

*Discovery.* `MapFollowsChecksum` rests on `ScanKnows`, what an undisturbed scan has
established at each stage: the list it read is the schema's, what is left and what is
reported cover it, and after the last query the report agrees with the checksum. `Alive` and
`OneInitial` say that a dead process leaves nothing but posts and that only one scan starts
the loops.

*The PII library.* The validators' loops are actions, so what holds of a number of any
length is an invariant and needs no induction over numbers. `OneKeyAhead` says how far the
generation of a check digit, which runs over a number one digit shorter, is behind the
validation: the sum is the key times what was generated. It rests on the table `d` being
associative and cancellative with `0` as its neutral element (`Associative`, `Cancellative`),
proved from its cells. `SlipParts` says that the sums of two numbers, once different, stay so;
where they part, one digit or two neighbours differ, and `Rounds` says of both checksums that
a round tells sums and digits apart and two rounds the order of neighbours: for Verhoeff
because each row of `p` is a permutation and because of what each two neighbouring rows do to
every two digits (`Swapped`), for Luhn unless they are 0 and 9. The last case of `d` is written `(5 + a - b) % 5`,
since the SMT translation does not agree with TLA+ about `%` of a negative number; the
table is the same. For `ReportIsJustified` the pass over the nine types is
unrolled (`Unrolled`), and `Leads` says what it knows after each; `NearestOnes` says that there
is a nearest hundredth and when it may be 0, for any number of samples. `PreviewsHide` is about
values of any size (`MaskHides`).

*The accounts.* None of their properties is inductive: they need what a handler knows at each of its
statements (`Sound`). A signup past its INSERT still has the address of its account, unless
that was erased; so, emails being unique among the accounts that were not, the account it finds
by that address is its own. A withdrawal that is not late holds what its row holds, less what it
names. And no row has anything withdrawn before it exists. `StorefrontImplementsAccounts` takes
this to the whole storefront: each step of the accounts is theirs, every other leaves them alone.

*The seeding.* `SeedInv` says that of the processes seeding products at most one is ahead, that
what is listed is the part of the catalogue up to it, that who is behind meets a duplicate
key, and that as long as nobody was stopped the credentials come with the employee or with
the process that is about to insert them.

*The sale.* `NextIsShopStep` reads every step of the storefront as one of eleven steps of the
sale or as one that leaves it alone. `SaleInv` is the typing with what it needs: a till is
closed or takes for a shopper (`TillsAreSound`); orders are numbered by their count, and there are no
more orders and open tills than checkouts began (`OrdersAreNumbered`), so an order's id stays
in its bounds; a cart holds no more than was chosen (`CartsAreChosen`). `StockIsAccounted`
needs besides that nothing unlisted was ever seen, chosen or taken (`UnlistedIsUntouched`):
otherwise seeding a product late would set its stock past what had been taken of it. And it
needs that what a till has left to take is wanted by somebody (`LeftIsWanted`), at least one unit:
a `GREATEST(0, stock - 0)` would make zero of a negative stock without a sale.
`ChargedForChosen` needs to know what may still be ordered. While the owner of a browser is
sure, at most one till answers to it; what is ordered and being ordered was chosen; and what is ordered, on
the way at tills the page forgot, and in the cart was chosen, too. The cart does not count beside
a till the page listens to, which empties it when it answers (`ChargesInv`).
These are sums over sets of tills and orders. `SumFunction` of the community modules is a fold
defined by a recursive function, and what it does to a larger set would be an induction over
finite sets. Its lemmas (`SumWithout`, `SumGrows`) refute a smallest counterexample instead, by the
well-foundedness of the naturals, as does `GreatestElement` for the ledger.

The assumptions are those the modules state about their constants. Of these, finiteness of the
sets `Tables`, `Products` and `Tills` and that `"none"` is no browser are true of every database
and needed by the counts and sums; `Rescans` is empty or the one scan request there is.

Only model-checked: liveness under fairness (`QueuedIsSettled`, `StaleIsEvicted`,
`RequestCompletes`, `ErasureIsLogged`, `DriftIsNoticed`, `DormantAgain`, `TamperingIsShown`),
which is out of the prover's reach, and with it everything that depends on ENABLED. What
regular expressions match and what hash functions are is not a question to the provers
here: both are abstracted in the models.

## Plan

1. Done: ledger, task queue, cache, consent enforcement, DSR saga, discovery, PII library,
   authentication, compliance report, storefront and the pages that keep state.
2. Done: a theorem for every safety property of the runs.
3. `Catalog` (purposes and types set by hand against rescans) and `ControlPlaneAudit` (the
   ledger against the tables when the control plane stops half way).
4. Theorems that no run states: that `ConsentEnforcement` and `DsrSaga` implement the task
   queue, and with it `TaskDelivery`; which steps the liveness arguments rest on.

## Not modelled

- The network probe, which no component calls: one promise, decided by the first event.
- Staff sign-in: `adminSessions` is written and never read, and no admin route asks for a
  session. `DpoAuthService.logout` and `CustomerAuthService.logout`, which no route calls.
- The SQLite path of the storefront and of the adapters, whose statements do not wait for
  anything: its interleavings are among those of the models, except that `init` does not
  await its seeding there and one process serves both ports.
- Read-only routes, exports and lists; static files, request parsing, rendering, modals and
  the enrolment script; scripts and generated graphs; `types.ts`, which only declares.
- What regular expressions match: values are the shapes they tell apart.
