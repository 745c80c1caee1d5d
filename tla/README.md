# A verification project for Invage

Invage keeps the portfolio of an investor: it imports statements of several
brokers, keeps one document and one set of books per investor, and shows reports
derived from them. These TLA+ modules model the parts of it in which processes,
databases and outside services get in each other's way; TLC checks them on small
instances and TLAPS proves the main safety properties for all of them.

Paths below are relative to the application's own source directory, `src/src/` in
`PROJECT.json`.

## Inventory

| Component | State it keeps | Operations | What is hard |
|---|---|---|---|
| **Broker account sync** `brokers/accounts.ts`, `sync-retries.ts`, `sync-lease.ts`, `scheduler.ts` | per account a *main* intent file and *Full request* files; a kernel lock; `last_sync` and holdings in the document | a user's sync, the retry pass of each minute, binding and pausing | several processes on one account; minutes between load and save; crash at any point; acknowledging what was not done |
| **Daily batch** `brokers/daily-sync.ts`, `sync-batch.ts` | `daily_broker_sync` in the document: date, synced accounts, lease, retry time, completion; one snapshot file per date | tick, claim, import of each account, progress, capture, release | two schedulers; leases that lapse; accounts edited during the batch; ticks older than midnight |
| **Manual sync of all** `brokers/sync-all.ts` | a job in memory | start, progress | runs beside a daily batch |
| **Investor document** `state/investor-store.ts`, `portfolio-state.ts` | one document per user with a revision | load, save, save of option journal metadata | lost updates, lost answers |
| **Books and document together** `books/db.ts`, `service.ts`, `state-reconcile.ts`, `broker-snapshot.ts` | a journal in another database; an advisory lock per household | seeding, posting, projection, reconciliation before a save, repair after a failed one | two commits without a common transaction |
| **Ledger** `books/post.ts`, `ops.ts`, `position-ops.ts`, `accounts.ts`, `projections.ts` | entries, lines, account balances, quantities and average costs | post, reverse, open and close positions and deposits | double entry, replay of a request id, average cost, balances against the journal |
| **Channel reconciliation** `recon/*` | a session in the document: sleeves, statements, lines, decisions | start, source, decide, apply, skip | cash goes to the books and the rest to the document; failure halfway; stale amounts |
| **Read model** `state/portfolio-projections.ts`, `projection-events.ts`, `projection-store.ts` | one published generation per user, a queue of refreshes, a set of deferred users | refresh, batch, publish, read, worker scan | publishing what was calculated from an older document |
| **Signup review** `signup/*` | submissions, closed days, review events, state of the access e-mail | submit, close a day, approve, send | four kinds of locks; an account made inside an open transaction; e-mail outcomes nobody knows |
| **Treasury** `treasury/*` | none between calls; balances and flags from month to month within one | payment plan, projection, verdict on a purchase | many small steps in a fixed order, boundaries of months and of balances |
| **Onboarding codes** `onboard/*` | one file of codes | issue, bind, reject, expire | read, several awaits, write |
| Execution history, options | retained executions, option evidence | merge, pair, relate | pure algorithms on long histories |
| Reports, dashboards, market data, risk service, agents, management, web server | little or none of their own | calculations, formatting, routing | - |

How they interact. A sync (user's call, retry pass or daily batch) takes the
account's lease, writes an intent, asks the broker, and saves through
`saveInvestor`. A save compares the document's revision, seeds and reconciles the
books under the household's lock, saves the document, and repairs the books if
that failed. Cash tools and imports post to the books before they call
`saveInvestor`. A save notifies the read model, which recalculates and publishes a
generation. The daily batch captures a snapshot once every account is imported.

What makes each component correct:

* *Broker account sync*: one attempt at a time owns the durable intent; nothing that
  was asked for is forgotten or downgraded; an import goes into the account it was
  fetched for; queued work is eventually done or cancelled.
* *Daily batch*: one runner per batch; progress survives; a snapshot is of accounts
  imported for its date under the identities it gives them, and with every section; the
  batch is completed only with a file of all accounts as they are then; the day's batch
  completes.
* *Books and document*: both hold the same money whenever nothing is under way and
  nobody gave up half-way; the document never runs ahead of the books.
* *Ledger*: no operation makes or loses money; a request id posts once; only a broker
  makes a debt; reconciled lots are those of the document.
* *Recon*: an apply writes what was taken and nothing else; what is finished stays.
* *Read model*: it lags but never goes back, and catches up; who waited for it finds his
  data in it; a page is never older than the document was when it asked.
* *Signup*: one account per address, one customer per session unless a reviewer accepts
  it, one access e-mail and one notice per submission, none for a closed day.
* *Treasury*: payments come from somewhere and reduce something; net worth changes for
  stated reasons only; AFFORDABLE is said only if every installment could be and was paid.
* *Onboarding codes* (not modelled): one account per code.

## Modules

| Module | Models | Checked by | Proofs |
|---|---|---|---|
| `BrokerSync` | sync of one account: user calls, retry pass, lease, intents, connection edits, crashes | `broker_sync*` | `BrokerSync_proofs` |
| `DailySync` | the daily batch of one user, with any number of schedulers | `daily_sync*` | `DailySync_proofs` |
| `PublishedDay` | abstract: files of what a date has recorded, and a batch completed with a file of everything enabled | refined by `DailySync` | |
| `InvestorBooks` | the money of one user in the document and in the books | `investor_books*` | `InvestorBooks_proofs` |
| `Ledger` | the double-entry accounts and the tools, imports and saves that move them | `ledger` | `Ledger_proofs` |
| `Recon` | a reconciliation session and its applies, over document and books | `recon*` | `Recon_proofs` |
| `ReadModel` | saves, batches, the refresh queue, publication and pages | `read_model` | `ReadModel_proofs` |
| `LaggingView` | abstract: a view that lags behind a source | refined by `ReadModel` | |
| `Signup` | submissions, approvals, accounts, access e-mails | `signup` | `Signup_proofs` |
| `Household` | debts, deposits, one monthly payment | with `Treasury` | with `Treasury` |
| `PaymentPlan` | the payment plan, month by month | with `Treasury` | with `Treasury` |
| `Projection` | the projection and the verdict on a purchase | with `Treasury` | with `Treasury` |
| `Treasury` | composes both calculations | `treasury` | `Treasury_proofs` |
| `MC...` | small values and symmetry sets for TLC | | |

In `BrokerSync`, `DailySync`, `InvestorBooks` and `Recon` a revision is not a number. A copy of the document is *fresh*
until any other copy is saved, which is exactly when a save of it would be accepted.
Time is not a number there either: an intent, lease or retry time is in the past or not,
and an environment action (`Elapse`, `ExpireLease`, `RetryPasses`) lets it pass.
Lines starting with `Mutant:` introduce plausible mistakes used to test the
properties; they are not part of the models.

### BrokerSync

State: `doc` (binding, enabled, `last_sync`, whose data the channel holds), the files
`main` and `requests`, `lease`, the living process ids `alive`, and per caller its
position `pc`, process `pid`, the connection it loaded (`seen`), the `intent` it wrote
and its `copy` of the document. `queued` and `started` are observers: they record that
somebody was promised the full history.

An attempt is `AcquireLease` (or `LeaseBusy` and `QueueFull`), `Begin` (the intent is
written, taking over the old one's fullness and all requests of its binding), `Fetch`,
`LoadLatest` (with the comparison of the connection), `Save` (up to three times),
`Acknowledge` and, for its requests, `ForgetRequests`, `Release`; or `FetchFails` /
`SaveFails`, `FailedLoad`, `RecordFailure` and `Release` with back-off. The retry pass is
`SchedulerPick`, `SchedulerLoad` and an attempt, or the cancellation of an obsolete
entry under the lease (`CancelLease`, `Revalidate`, `Cancel`, `CancelForget`). `Crash`
kills all callers of a process id, whose files stay and whose lease goes; `Spawn`
starts a process that may have the same id.

Left out: the attempt count and back-off length, archives, notifications, the process's
own `inflight` set (the lease is held whenever it is), credentials, and the
connector-keyed form of a connection, which follows the same protocol.
`MaxRequests` bounds waiting requests; a call that would exceed it gives up queueing
(`BusyAtBound`).

### DailySync and PublishedDay

State: the stored `Batch` inside `doc`, the present `day` and whether its minute has
come (`due`), per runner the day and due flag its `tick` read, its copy, the accounts it
found eligible, and what it has to do. `claims`, `imported` and `partial` are observers.
`Tick`, `LoadBatch`, `Claim`, `VisitAccount`/`SkipAccount`, `Import` (whole, deferred) or
`ImportFails`, `LoadProgress`, `SaveProgress`, then `StartCapture` or `Withhold`, `Capture` or
`CaptureFails`, `Complete` or `CompleteFails`, and the error path `ReleaseLoad`, `Release` follow
`runDailyBrokerSyncs` line by line. Between the check (`StartCapture`, sync-batch.ts:17-19) and
the file (`Capture`, state/capture-snapshot.ts:164) the run awaits prices and exchange rates,
and any other step may come there: the file, whose `Coverage` are the connections it was
calculated from, is of the document loaded at the check. The save that completes the batch is
of the same document and is refused if another was saved meanwhile; the file stays.
`OtherSync` is an attempt of a user or of the retry pass. Accounts are visited in any
order (the code's order is that of an object's keys). One attempt is reduced to its
outcomes; how it gets there is `BrokerSync`. Leases and retry times are compared with the
present and not with the tick's slightly older `now`.

`snapshots` stands for the files of the daily batch. The manual sync of all accounts
(sync-all.ts:65) and the snapshot tool (tools/snapshot.ts:44) write files of the same names,
for which no progress is recorded; they are not modelled.

`PublishedDay` is the promise, without schedulers, leases, copies and revisions: connections
are edited (`Edit`), a batch begins with no progress for a date other than the last one
(`Begin`), imports happen (`Import`), an import of the batch's date is recorded (`Record`), a
file is written of connections that are recorded as the file has them (`Publish`), the batch is
completed when its file is of all connections as they are at that moment (`Complete`), and opened
again when one of them is not recorded any more (`Reopen`). `DailySync` implements it
(`DayPublished`) with the stored connections as `keys`, the date, progress and completion of the
stored batch as `date`, `synced` and `complete`, and the snapshot files as `files`. What it does not
promise: that a file is of the connections at the time it is written, that dates ascend (see the
known disagreements for both), and that an import was whole (see finding 1).

### InvestorBooks

State: `doc` and `books` hold a `Money` record (cash of one slot, and one value for
positions and deposits), `seeded`, the household `lock` while it spans two commits, and
per writer its job, the money it loaded (`base`), the money it will save (`copy`),
whether that is `fresh`, and how many conflicts its import has met. `posted` and `behind`
are observers: a posting not yet followed by a save, and a writer that gave up after one.

A job edits the document, posts cash (`Seed`, `Post`, `Project`), or imports a statement
(`Seed`, `Apply`), and then saves: `Check`, `SeedSave`, `Prepare` or `PrepareConflict`,
`Persist` or `PersistFails`, `Recover` or `RecoverFails`. Transactions that hold the lock
only for themselves are single actions guarded by `LockFree`; the lock that spans the
books' commit, the document's save and the repair is the variable `lock`. `PersistFails`
includes the save that succeeded and whose answer was lost. `Fail` is any error before the
two commits; `Crash` may come anywhere. Imports restart after a conflict, twice.

Left out: several cash slots and currencies, the entries themselves, tools that open and
close holdings (they post and save like the cash tools), and operation without books.

### Ledger

State: the balances of cash, deposits, lots (signed cost, units and average cost) and of
the contra accounts together; the lots of the stored document with its revision; the
request ids the journal has entries of; and the jobs at work on lots. An account is its
balance: lines are the increments. `reported` and `ahead` are observers.

Cash and deposits: `ApplyCashDelta`, `OpeningBalance`, `CashAdjustment`, `ClearCashSleeve`,
`Transfer`, `AddDeposit`, `MatureDeposit`, `RemoveDeposit`, each with a request id that may
have been used before and the refusals of `postEntry` (`CashCovers`, `InBounds` for what a
column holds). An id the `journal` has is answered with the entry it has, whatever the amounts
of the new request, which are not compared (books/post.ts:66-78): no line is posted
(`Unposted`). A cash or deposit tool is one step here; its document half is
`InvestorBooks`. Lots: a job is `Load`; then `PostHoldingOpen`, `PostHoldingClose`,
`EditHolding` or the statement of a broker (`PostSnapshot`); then `Save`, which brings the
lots to the document by closing and opening what differs (`ReplaceLots`) and cash and
deposits to any values a copy may have (`ReplaceCash`), `SaveSameMoney`, or `Abandon`.
`SignedCost` books written options as credit, `NextAverage` is the average a line leads to.

Left out: several currencies, the kinds of contra accounts, accounts of properties and
liabilities, the first import into accounts that are in use, and `postEntry`'s own check that
an entry balances (books/post.ts:79-95): each operation books its contra legs itself, and a
save books to the contra accounts what its other legs leave open.

### Recon

State: what document and books hold per sleeve (`held`, `ledger`), the session `recon`
with a status and lines per sleeve, and the applies at work with the copy they loaded.
`StartRecon`, `SourceReconStatement`, `DecideReconLine` and `SkipReconChannel` load, change
and save without an await that posts, and are single steps. `ApplyReconChannel` takes lots
and deposits into the copy; `PostCashLine` posts one line in a transaction of its own and
projects cash and deposits of the books into the copy; `ApplySave` saves or `Abandon`
gives up, with what was posted still posted. `CashTool` and `EditLot` stand for all other
tools. A session that a connector has filled with a debit balance or a short lot is not
`Readable`, and every guard says so. `fresh` and `calm` are the revision and an observer.

### ReadModel and LaggingView

The document and the snapshots are counters, since only "newer" and "older" matter; a
fingerprint is the pair of them. State: what is stored and what is `shown`, a save whose
notice is `unheard`, the `batch` of the user, the `queue` and the running `task` with its
phase and attempt, the jobs in a batch, and the pages with the cache and the running load
they share. `Save`, `PortfolioStateSaved`, `EnterBatch`, `CaptureSnapshot`,
`RefreshAfterSync`, `LeaveBatch`, `Tick`, then `Begin`, `Load`, `Calculate`, `Reload`,
`Publish` or `Again`, `WireReady`, `Fail`; and for pages `Ask`, `Known`, `LoadRead`,
`LoadDone`. `Crash` forgets everything in memory. `missed` observes the one case in which
a save has no refresh to come: a mark that a forced refresh cleared although the save came
while it was at work (projection-events.ts:38); the worker repairs it within a minute.

`LaggingView` is the promise: a source whose parts change, a view that shows only what
the source was, never goes back and catches up. `ReadModel` implements it with
`source <- Source, view <- shown`, its liveness included.

### Signup

State: `rows` per reference, the `disabled` days, the `accounts` of the registry, and per
call its stage with what it has read. The locks are not variables: a call holds the locks
that follow from its stage (`Holds`), as a database session does, and loses them when it
ends. `SaveBegin`/`SaveCommit`, `SetDateEnabled`, `ApproveBegin`, `ApproveMail`,
`ApproveDecide`, `ApproveCommit`, then `SendTry`, `SendAfterApproval`/`SendBegin`,
`SendMark`, `Deliver`, `SendRecord`. `Deliver` separates what the provider does from what
it answers: taken and answered, taken and the answer lost, refused, or unknown. `Fail` ends
a call anywhere: a transaction is rolled back, but an account made in the registry, which
is another store, stays. `Register` is an account made elsewhere.

Left out: passwords and their encryption, uploaded proofs, the wording of messages, and
the pool of connections (a `send` inside an approval needs a second one).

### Household, PaymentPlan, Projection, Treasury

Amounts are whole units of one currency, rates fractions of `RateUnit`, interest rounded
down, so that rounding is explicit and small amounts bear interest. `PaymentPlan` follows
the loop of `buildPaymentPlan`: order of the debts by strategy, lump sum from cash beyond
the reserve, minimums, extra payments and matured deposits. `Projection` follows the order
of `project`: flows, installments, maturities, growth, events; and `EvaluateAffordability`
judges the rows. Each calculation is deterministic once started; what varies is the input,
which TLC takes from the sets in `MCTreasury`. An installment may be any amount, as the code
takes it from the books and from a purchase (treasury/household-state.ts:735-740). One that is
exactly the interest never lowers its debt; one below it makes the plan refuse and the
projection throw (amortize.ts:95-101), here `ProjectThrows`, after which there are no more rows
and no verdict. A purchase on credit without mortgage terms throws as well (project.ts:372) and
is left out of the inputs. Months are numbers, so that a deposit or an event belongs to
exactly one of them: the comparison of calendar dates (payment-plan.ts:515) is not modelled. The
order of the debts is `InOrder`, a sequence that ascends in
the comparison of the code; it says what `SetToSortSeq` of the community modules says, and
the provers can look into it.

## Runs

| Run | Instance | What it shows |
|---|---|---|
| `broker_sync` | a user and the scheduler, two process ids, 2 bindings, 1 edit, 1 crash, 1 waiting request, saves elsewhere (1.9 M states) | `TypeOK`, `OwnIntent`, `DataBelongs`, `FullRequestKept`, `FullRetryKept`, `SaveIntoSelected` |
| `broker_sync_live` | a user and the scheduler, one process id, one binding, 1 pause, 1 crash, 4 ids in order, fairness (0.3 M) | `RequestsDrain`, `IntentsDrain` |
| `daily_sync` | 2 runners, 2 accounts, 2 keys, 1 edit, 1 crash (1.6 M) | `TypeOK`, `OneLiveClaim`, `SnapshotImported`; `DayPublished`, the refinement of `PublishedDay` |
| `daily_sync_live` | 2 days, 1 edit, 1 crash, 1 other attempt, fairness | `LastDayCompletes` |
| `daily_sync_deferred` | one runner, another attempt fails | `SnapshotWhole` fails: finding 1 |
| `investor_books` | 2 writers, all jobs, cash 0..1, 2 holdings, 1 crash (10 M) | `TypeOK`, `BooksAgree`, `MoneyFollowsBooks` |
| `ledger` | 2 channels, a deposit, a lot, a request id used again, 2 jobs, debit and credit statements, 1 save (0.8 M) | `TypeOK`, `BooksBalance`, `DebtReported`, `LotsAgree` |
| `recon` | 2 channels, cash, deposit and lot lines, 1 walk, 1 act of another tool (1.6 M) | `TypeOK`, `FinishedStay`, `OnlyTakes`, `TakesWinApart` |
| `recon_takes` | the same | `TakesWin` fails: finding 2 |
| `read_model` | a batch job, 2 pages, the worker, a save, a snapshot, a fault, 2 attempts (1.2 M), fairness | `TypeOK`, `PagesFresh`, `SavesCovered`, `ReadyCovers`; `ViewCatchesUp`, the refinement of `LaggingView` |
| `signup` | 2 calls, 3 submissions (one renews another), 2 accounts, 2 attempts, 1 failure (1.7 M) | `TypeOK`, `OneAccountPerAddress`, `DoubleBookingSeen`, `MailedOnce`, `ToldOnce`, `ClosedDaysTakeNothing` |
| `treasury` | 3 debts, 2 deposits, 2 strategies, thousands of households, 3 and 4 months (34 k) | `TypeOK`, `PaymentsAddUp`, `NetWorthExplained`, `AffordableSolvent` |

Bounds. Two callers are enough for every race of an attempt with another one; the third
attempt that matters (one that starts while the other two are in some state) is
enabled again as soon as one of them is idle. Two bindings or keys distinguish "the same" and "another"; an edit
may come at any point of an attempt. One crash can hit each point of an attempt, with the successor seeing what is
left. Two days (`daily_sync_live`, `daily_sync_deferred`) show every relation of a batch to the present day. Cash 0..1 with deltas
-1 and 1 and two holdings tell all combinations of sections apart, deferred or not.
Symmetry is used for ids, process ids, bindings, runners, accounts, keys and writers,
calls and jobs, which are only compared for equality, and never in the runs with liveness.
`broker_sync_live` has two substitutes for it. Its ids are numbers and the least free one
comes into use (`IdsInOrder`), which leaves out no behaviour but renamings; and `LiveView`
takes states as equal that differ in observers, in copies that cannot be saved, and in an
import nobody will look at, none of which an action or these properties depend on. A pause at
any point of an attempt makes queued work obsolete, so that it is cancelled by the scheduler
under the lease (`CancelLease`, `Revalidate`, `Cancel`, `CancelForget`); a second binding would
make it obsolete in the same way.

In `ledger`, amounts and prices of 1 beside a broker's lot of cost 2 tell units from cost, a
debit of 1 with postings of 1 reaches zero from both sides, and two jobs give every
conflict of two copies; one save is enough for each, since the properties relate states and
not histories. In `recon` the statement differs from the books in every line, drops one, or
adds one, so that openings, adjustments, deletions and matches occur; one other tool call
may come at each point of an apply. It has one walk: that an apply of an earlier walk cannot finish a
sleeve of a session started anew is shown by the theorem `FinishedSleevesStay` only. In `read_model` one save and one snapshot may come
before, within or after every phase of a refresh, and two pages share every load. In
`signup` two calls hold any two locks of the four kinds against each other, and three
submissions share an address, a day and a session in pairs. In `treasury` balances of 0 to
5 with payments of 2 and 3 hit exact, short and surplus payments, and deposits mature
before, within and after the plan. A plan has at most 3 months and may start from a debt of 6
or 8, whose interest is the payment or more, so that it ends in all four ways: free at once,
free after some months, still in debt, or refused. A projection may start from the same debts,
and a purchase leave 0, 3, 8 or 12 to be financed, where 8 is interest-only and 12 throws. All
three verdicts occur, AFFORDABLE for an interest-only mortgage too.

`daily_sync` has one day: with two it has more states than a run should. That the refinement
also holds when the batch moves to another date is what `DayRefines` proves; with two days and
one account TLC finds it to hold as well (1.4 M states).

The run `daily_sync` assumes `LeaseOutlives`: a batch ends within its six hours. What
happens beyond is described under the known disagreements.

Deadlock is checked in every run but `recon` and `treasury`, where a finished walk or
calculation is the end.

Fairness. `RequestsDrain` and `IntentsDrain` assume that a started process goes on, that a
minute tick comes back while there is something due (`setInterval`), that time passes,
that a crashed process is started again (its supervisor), and that the broker, the
database and the conflict-free save come back for the scheduler (strong fairness of
`Fetch`, `SchedulerLoad` and a whole `Save`): a service that is down for ever would leave
the work queued, rightly. They also assume `UsersQuiet`, since each manual sync of a
paused connection postpones the retry. `ViewCatchesUp` assumes that the timer of
the worker fires, calculations end and jobs leave their batch; faults are bounded, saves
are not delayed for ever. `LastDayCompletes` assumes the same of the batch, that market data
and exchange rates come after an outage, that not every capture is overtaken by another save
of the document (`SF_vars(Current(r) /\ Capture(r))`: a save during its minutes makes the run
try again later, and saves that always come then would keep it from ending), and that a section that was deferred is recovered in some retry, which
`IntentsDrain` promises.

## Findings

1. `daily_sync_deferred`: the record of a failed attempt replaces `last_sync` as a whole,
   and the mark of a deferred section with it (brokers/accounts.ts:586); the batch then takes
   the snapshot that the documents say is withheld, and is completed with it.
2. `recon_takes`: an apply takes deposit lines into its copy and then posts its cash lines;
   every posting brings the deposits of the books back into the copy (recon/apply.ts:191,
   books/service.ts:116-127). A deposit taken together with a cash line is lost, and the
   sleeve is marked as applied.

`PROJECT.json` quotes the lines.

Known disagreements of code and documents that no run is kept for; each names the place
and how the model shows it:

* A call that loaded the investor before the account was rebound writes its intent under
  the old binding and replaces the full intent of the new one (brokers/accounts.ts:516,
  sync-retries.ts:38-44), though docs/ops/velovest-broker-reconciliation.md:34-35 says that
  full-history requests survive. `FullRetryKept` in its present form allows it ("or one of
  another binding takes its place").
* A runner whose lease lapsed removes its successor's lease when it ends
  (brokers/daily-sync.ts:86, 97), against daily-sync.ts:44. `OneLiveClaim` fails with
  `LeaseOutlives = FALSE`, two runners, one account, two keys and two days.
* An account that is rebound, linked or enabled while a snapshot's prices and rates are awaited
  (state/capture-snapshot.ts:33, 45) leaves a complete-looking file of the earlier connections,
  though sync-batch.ts:14 says "A partial import or changed account binding cannot publish a
  complete batch snapshot." The save that would complete the batch is refused, and a later tick
  writes the date's file again. `SnapshotImported` therefore speaks of the identities the file
  gives its connections, and `DayPublished` asks for the present ones at completion.
* A tick that is older than midnight publishes the earlier day again
  (brokers/daily-sync.ts:35), against docs/brokers/daily-aggregate-changes.md:15.
* A save that changes no money skips the reconciliation even if the books are ahead of the
  document (books/state-reconcile.ts:214), against the comment at line 208. `BooksAgree`
  excludes exactly the writers that gave up after a posting.
* Applying a sleeve again after its save failed posts the differences again
  (recon/apply.ts:191-209): they were compared before the first posting.
* A connector may store a statement with debit cash or a short lot
  (recon/source-connector.ts:19-30, brokers/statement.ts:39); every later call throws when
  it reads the session, `start_recon` with restart=true as well (recon/session.ts:67,
  against line 70).
* The average cost of the books is an average only while a position grows from one side
  (books/post.ts:200-217), against the comment of the column (books/schema.sql:80).
* The forced refresh after a sync clears the mark of a save made while it was at work
  (state/projection-events.ts:38); the worker finds it at its next scan. Observed as `missed`.
* The projection lowers free cash below zero by flows and expenses without a flag
  (treasury/project.ts), against the design (docs/plans/2026-07-29-...:497); the verdict
  looks at the balance as well, without which `AffordableSolvent` would fail.
* A purchase whose mortgage only pays its interest (or has neither rate nor payment) is called
  AFFORDABLE although its debt never shrinks: `payment_amount` need only be a number that is not
  negative (treasury/household-state.ts:735-740) and is used as it is (project.ts:377-383), where
  docs/plans/2026-07-29-family-treasury-accountant-design.md:59 says "Mortgage + simple
  amortizing loans" with "Real principal pay-down". A payment below the interest ends the whole
  projection with an error. `AffordableSolvent` says what is true: every installment was
  paid whole, and took off its debt what it exceeds the interest by, which may be nothing.
* The last installment of a debt leaves the cash in full although less is owed
  (treasury/project.ts:301, amortize.ts:93). `NetWorthExplained` names it: `unused`.
* The payment plan pays the minimums whatever the cash (payment-plan.ts:526), against its
  own note (387); the minimums of debts paid off are not spread on the rest.

## Proofs

`BrokerSync_proofs` proves, for all values of the constants that satisfy the module's
assumptions:

* `TypeCorrect`: `Spec => []TypeOK`. The inductive form `TypeInv` splits the types by the
  part an action disturbs and adds `CallsOK`: a caller that has begun has seen a
  connection, one that runs has an intent, one that saves has a copy. Without it, the
  records built from `seen`, `intent` and `copy` could have fields of `None`.
* `AttemptOwnsIntent`: `Spec => []OwnIntent`. `OwnIntent` is not inductive: another caller
  in the middle of an attempt could overwrite `main`, or a cancellation delete it.
  `LeaseInv` says that a caller is between taking and releasing the lease exactly when the
  lease names it, so no other caller writes or deletes the main file; the owner's process
  id and the id of the intent complete the step.
* `HoldingsOfBoundAccount`: `Spec => []DataBelongs`. `CopyInv` adds what a save writes: a
  copy that still carries the stored revision *is* the stored document, and a caller about
  to save found its connection selected in that copy.
* `SavesIntoSelected`: `Spec => SaveIntoSelected`, from `CopyInv`: what was compared in the
  copy at `LoadLatest` is true of the stored document when the save is accepted.
* `FullRequestsStay`: `Spec => []FullRequestKept`, and `FullRetriesStay`:
  `Spec => []FullRetryKept`, from one invariant, `KeptInv`. `IdsInv` says that an id belongs
  to one piece of work: whatever names a request by its id names its binding, and a job that
  still has the main file has the binding and the mode of it, so that acknowledging deletes
  nothing else. `WorkInv` says that a request which waits while an attempt runs is none of
  those the attempt took over, and that a completed attempt has left nothing taken or
  started.

`DailySync_proofs` proves, for any number of runners, accounts, identities, days, edits and
crashes:

* `TypesKept`: `Spec => []TypeOK`, with `RunnerOK`: what a runner has loaded by where it
  stands, without which batches could be built from no document.
* `ProgressIsKept`: `Spec => ProgressKept`. `Effects` sums up what a step does to the stored
  batch and to the copies; from it, `KeepInv` says that a copy which may still be saved
  holds all the progress it would replace, unless it begins another date.
* `ClaimsExclude`: `LeaseOutlives => (Spec => []OneLiveClaim)`. `LeaseInv` says that a run at
  work has the stored lease and the date of the stored batch, and that a claim which may
  still be saved was loaded when nobody had the lease. The premise is needed: see the known
  disagreements.
* `FilesWereImported`: `LeaseOutlives => (Spec => []SnapshotImported)`. `ImportInv` says that
  every identity recorded in the batch was imported for its date. `MarkInv` carries the check
  over the awaits of the capture: the connections of the document a run has loaded stay recorded
  in the stored batch while the run is at work, since no other run replaces it (`LeaseInv`),
  whatever becomes of the stored connections.
* `DayRefines`: `LeaseOutlives => (Spec => DayPublished)`, step by step: a save is a `Begin`, a
  `Record`, a `Complete`, a `Reopen` or nothing, and a file is a `Publish`. `FreshInv` strengthens
  `KeepInv` to what a copy that may still be saved *is*: it has the stored connections, and the
  stored batch, one of another date, or the stored one with one more record that was truly
  imported. So a run whose completing save is accepted has, in its copy, the connections as they
  are, and by `MarkInv` they are recorded and the date's file is of them; and a claim opens a
  completed batch again only for a connection that is not recorded.
  `ProgressKept` and `SnapshotImported` say parts of this; they are proved apart because
  the first needs no premise on leases.

`InvestorBooks_proofs` proves, from the three assumptions of the module and for any number
of writers, holdings, amounts and crashes:

* `TypeCorrect`: `Spec => []TypeOK`. `JobTypes` adds that a writer at work has a job, so
  that amounts and statements are read from one.
* `DocumentFollowsBooks`: `Spec => MoneyFollowsBooks`. `PreparedInv` says that between the
  commits the books hold the copy about to be saved, if it is a change. It is kept because
  `LockInv` (the lock names exactly the writer between its commits) lets nobody else touch
  the stores: lemma `Excluded`.
* `BooksAndDocumentAgree`: `Spec => []BooksAgree`. The property speaks of quiet states
  only, and says nothing of how they are reached. `AgreeInv` speaks of the states in
  between too, those where a save is about to change the money excepted: as long as no
  writer has given up, every difference between books and document, in the cash or in
  the holdings, is `Explained` by a writer that has posted it and whose copy, unless it is
  stale or still to be projected, carries it. When that writer saves, `FreshInv` (a fresh
  copy was made from the stored document) and `CopyInv` (an import's copy is its statement
  applied to what it loaded) turn the explanation into equality; when it ends otherwise,
  `behind` records it. `UnseededInv` covers the opening of the books: before the first entry
  nothing is posted, and nobody has loaded a document other than the stored one, so
  seeding from a loaded copy seeds what is stored.

`Ledger_proofs` proves, from the assumptions on amounts, prices and lots:

* `LedgerTyped`: `Spec => []TypeOK`, with deposits that never hold less than nothing: every
  operation that lowers one has compared it first.
* `DebtsReported`: `Spec => []DebtReported`, one step per operation: what lowers a sleeve has
  compared it with zero, or is a broker's statement, which is then what is reported, or
  a save, which lowers no sleeve into a debt.
* `LotsFollowDocument`: `Spec => []LotsAgree`. Whatever touches a lot of the accounts puts
  it into `ahead`; a save with changed money brings every lot to its copy, `Matches` being
  an equality; one without has the stored lots in its copy.
* `BooksAreBalanced`: `Spec => []BooksBalance`, for any finite number of channels, deposits and
  lots. The inductive form adds only that `equity` is a number; the work is in the sums. A
  total is a fold over all accounts, so the module first proves what such a fold is
  (`TableIs`), that any one account may be taken out of it (`SumWithout`), and hence how a
  total moves when one account does (`TotalMoved`). `Transfer` moves two accounts, a trade a
  lot and the contra account, a save all of them at once.

`Treasury_proofs` proves, for any debts, rates, payments, deposits, households and horizons
that satisfy the assumptions of the modules (debts and deposits are finitely many, a down
payment is at most the value; nothing is assumed of the size of an installment):

* `SpreadInOrder`: spreading money over the debts, a fold over them in the order of the
  strategy, gives a debt something only if all debts before it are paid off, takes off the
  debts exactly what it takes from the money, and keeps none while a debt is left. `InOrder`
  is a choice, so `OrderExists` first shows that a finite set has an ascending
  enumeration and `AscentReachesAll` that it leaves nothing out.
* `TreasuryTyped`: `Spec => []TypeOK`. That a month returns natural numbers is a fact about
  the three folds (`PayDownChain`, `PayMinimumChain`, `ServiceChain`): no step takes more from
  the money, or off a debt, than there is.
* `PlanAddsUp`: `Spec => []PaymentsAddUp`. The invariant `PlanSumsUp` adds that no debt paid off
  comes back (`Unpaid(owed) \subseteq Unpaid(plan.owed)`), which is what bounds the minimums of
  a month by those of the first; `PlanRuns` says that a running plan has months to go.
* `WorthIsExplained`: `Spec => []NetWorthExplained`, and `AffordableIsSolvent`:
  `Spec => []AffordableSolvent`, from `ProjectFollows`. The rows alone are not inductive: the
  invariant ties the last row to the accounts as they are, and says that the mortgage is zero
  until the purchase (so that opening it adds the loan and nothing else). It keeps `Covered` of the
  rows, a statement per month that does not mention the verdict: after a purchase was planned, a
  month that is not short had the money for all its installments together, and settled every debt. `ServiceAllIs` is the month
  itself, a chain over the debts in the order of the books: what leaves the cash pays principal or
  interest or is unused; and as long as nothing is missed or refused, the cash left is what
  there was, less the installments of the debts named so far (`SumWithout` takes them out of the
  sum one by one, each once by `EachOnce`), and those debts are settled. At the end these are all
  unpaid debts, so the month's money, of which something not negative is left, covers their sum.

Induction on the size of a set or the length of a list is done without the library's
induction theorems: `NatSet` says of a *set* of numbers that it is all of them, from the
well-foundedness of `<`, and each use names the set. `Ledger_proofs` and `Treasury_proofs` both
have the lemmas about sums, since the two specifications have no module in common.

`Recon_proofs` proves `ReconTyped` (what is written into document and books has been read
from a readable session or from the books, or is a posting that `Postable` allowed) and
`FinishedSleevesStay`, for which the invariant says that a fresh copy was made from the
stored session: an apply whose save is accepted works on a sleeve that is still compared.
It also proves `AppliesOnlyTakes` and `StatementWinsApart` (`OnlyTakes` and `TakesWinApart` for
any number of applies, lines and sleeves). Neither property says anything of the states
between two postings; `CalmInv` does: while nobody else posts or saves, the books differ from
the document in the lines posted so far, which have the amount of the statement, and the
copy differs from it in lines taken only, a deposit being either. `OnePosting` is the step
in which a posting brings all cash and deposits of the books into the copy; it needs that an
item is a currency, a deposit or a lot and never two of them, which the module assumes.

`ReadModel_proofs` proves `ReadModelTyped`, `PagesShowFresh`, `SavesStayCovered`,
`ReadyMeansCovered` and the refinement `ViewRefines`. The invariant relates every
document that is held somewhere (a task's first and second load, a cached one, a running
load, a page's) with the source: none is newer, a running load is not older than the
moment it was begun, and what the task carries is not older than what is shown. Since the
task is the only one that publishes, the view never goes back.

`Signup_proofs` proves `SignupTyped` and the five properties from one invariant: `LocksApart`
(no two calls hold one lock), `CallsOK` (what a call has read and still holds a lock for is
still so: a row that is not approved, an address without an account, a session without
another approval, a day that is open) and `RowsOK` (the status of an e-mail against what was
marked and delivered, a submission told at most once). `ClosedDaysHold` follows because
whoever closes a day holds its lock alone.

Model-checked only: all liveness (`RequestsDrain`, `IntentsDrain`, `LastDayCompletes`, and
`ViewCatchesUp` beyond its safety part), which is outside what the prover handles, as is
`ENABLED`. Every other property of a passing run is stated by a theorem. The runs and the
proofs complement each other all the same: TLC has checked `PlanSumsUp`, `ProjectFollows` and
the other inductive invariants on the instances of the runs before they were proved, and the runs
show that the cases a theorem speaks of occur. No module uses `RECURSIVE`.

## Plan

Done: broker sync, daily batch, books and document, ledger, reconciliation, read model with
its abstract view, signup, treasury, the abstract day of a batch; proofs of every safety property of all of them.

What is left, in the order of its worth:

1. Onboarding codes with the registry, and the manual batch beside the daily one.
2. Option history: merge and pairing as functions against a reference definition.

## Not modelled

Parsing and validation of statements, adapters of the brokers, market data, the numeric
risk service, report calculations, option history, formatting, prompts, routing, sessions
and the administration screens: functions of their input, without a state that two
actors share. They are most of the repository's lines. Notifications to users are left out
since no state depends on them. Onboarding codes and the manual batch are small and listed
with their hazards and sources in `PROJECT.json`.
