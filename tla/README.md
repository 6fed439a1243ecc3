# A verification of the Ubuntu Pay / Ahava wallet platform

TLA+ models of the services that move money, of the pipeline behind them, of accounts and
sessions, and of the apps that call them; the TLC runs that check them on small instances;
and TLAPS proofs, for every instance, of every safety property the runs check. The source
under `src/` is the reference; `PROJECT.json` names for each definition the lines it
stands for.

1. [The system](#1-the-system)
2. [The modules](#2-the-modules)
3. [What the runs check](#3-what-the-runs-check)
4. [What is proved](#4-what-is-proved)
5. [Where code and documents disagree](#5-where-code-and-documents-disagree)
6. [What is not modelled](#6-what-is-not-modelled)
7. [Plan](#7-plan)

## 1. The system

A dozen Node.js services share one PostgreSQL database (Prisma, READ COMMITTED) and one
Redis (BullMQ queues, cached sagas). They hardly talk to each other: the interaction that
matters goes through rows, locks, unique indexes and queues. Every request handler is an
async function, so each `await` is a point where another handler, another replica or
another service may run.

| Component | State it keeps | Operations | Hard behaviour | Correct when |
|---|---|---|---|---|
| payment-service | `wallets.balance`, `wallet_transactions`, `ledger_entries`, `payment_qr_codes`, queue `PAYMENTS_CREATED` | `POST /payments`, `POST /payments/qr`, history | key looked up before screening; two wallet rows, the key, the fee pool and the audit chain locked by one transaction that may time out; crash after commit | a key moves money once, never beyond the balance or between restricted wallets; statements and ledger explain the balance |
| wallet-service | `wallets`, `payment_qr_codes` | create, limits, suspend, freeze, generate and pay a QR code | code read before the lock and judged again under it; suspension and its audit entry in two transactions | a single-use code is paid once; uses are counted; an expired code is refused |
| agent-service | `wallets.balance`, `wallet_transactions`, agent accounts | cash-in, cash-out, register, login | balance judged without a lock; float and customer locked in opposite orders | no movement lost; deadlocks end; others stay safe |
| ussd-service | the same tables; the session is the list of inputs | menus, "Send Money", airtime | as above; a fresh key per attempt; debit before the provider is called | as above; paid is who was named; airtime is paid for |
| shared-audit | `audit_logs`, a hash chain | `writeAuditLog` of every service | timestamp taken before the advisory lock | one chain, no forks, every row covered |
| ledger-service | `ledger_entries` | entry, batch, trial balance, reconcile | batches have no idempotency key | debits equal credits; reconciles with balances |
| payment-orchestrator | sagas in Redis, circuit breakers in memory | payment saga, PayShap submission | retries after a timeout, compensation that fails, concurrent sagas with one key | a saga's answer agrees with what settled; nothing is posted twice |
| aml-service | `aml_flags`, `amlScreened`, wallet restrictions | blocking screening, queue worker, flags, STR files | jobs redelivered; failed checks swallowed; lost jobs | every settled payment is screened |
| notification-service | `notifications`, its queue | send, worker | crash between row and job; failure after delivery | delivered once, status tells the truth |
| auth-service | users, refresh tokens | register, login, refresh, logout, bind device | PIN attempts counted by read and write | five wrong PINs lock the account |
| kyc-service | users, documents, wallets' limits | upload, review, tier upgrade | user and wallets updated one after the other | tier of user and wallets agree |
| inventory-service | stock, sales | adjust, sell | read, compute and write of a quantity | no adjustment lost, stock not negative |
| payshap-mock | simulated PayShap payments | create code, validate, pay | duplicate detection by an earlier row | one payment per code |
| reporting-service, api-gateway | none of their own | read-only queries; proxy with a limit on upstream calls | queries of one report see different moments; an answer lost by the proxy is a retry | a report is off by what was committed meanwhile and no more |
| mobile app, PWA, portal | the request under way, tokens, device id, cached code, pages of lines | send, retry, sign in and out, list | timeout of a payment that settles; which key the retry carries; answers after a sign-out; lines committed while a list is read | what the customer is told agrees with the database; pages act for who is signed in; lists are complete |

`PROJECT.json` lists these and the parts without behaviour of their own (shared packages,
scripts, deployment), and under `hazards` what is hard to test, each at its line.

## 2. The modules

```
Money ----------- Transfers              what is promised: one atomic step per order
  |                   ^
  |                   | refined by (Promise == INSTANCE Transfers)
WalletDb -+- PaymentService -+           POST /payments
          +- WalletService --+- Platform all of them on one database
          +- BatchTransfers -+
          +- Reporting ------+           reports that read it meanwhile
AuditChain                               writeAuditLog, from the inside

BullMq -- Notifications -- AmlService    the pipeline behind a settled payment

Requests -+- Clients ------+             the money-moving services as callers see them
          +- Orchestrator -+
          +- MobileApp ----+- Callers
          +- UssdSession --+
             Inventory ----+
             PayShapMock --+
             History ------+

AuthService -- PwaSession -- Identity    accounts and sessions
Entries                                  maps and object spreads, used by several

MCPayment, MCPlatform, MCAuditChain, MCAmlService, MCCallers, MCIdentity

theorems:
Sums -- WalletDbProofs -+- PaymentServiceProofs      AuditChainProofs
                        +- PlatformProofs            PipelineProofs
                                                     CallersProofs, IdentityProofs
```

**Money** is the vocabulary: an *order* is what a client asks for (flow, idempotency key,
sender, receiver, amount, code). It holds the fee (`calculateTransferFee`), the effect of an
order on balances, and the conditions on statuses, balance and QR offers.

**Transfers** is the abstract specification: `Settle(o)` moves the money of one order in
one step, at most once per key and per single-use code, only while statuses and balance
allow it; `Restrict(w)` suspends or freezes a wallet.

**WalletDb** is the shared database. The tables hold committed data only:

| variable | stands for |
|---|---|
| `balance`, `status` | `wallets.balance`, `wallets.status` (with `isDeleted`) |
| `rows` | `wallet_transactions`, one record per DEBIT, CREDIT and FEE line |
| `ledger` | `ledger_entries` |
| `audited` | the `audit_logs` entries of payments and suspensions |
| `rowLock` | row locks of `SELECT ... FOR UPDATE` and `UPDATE` |
| `keyLock` | the lock an uncommitted INSERT holds on the unique `idempotencyKey` |
| `auditLock` | `pg_advisory_xact_lock(913502771)` |
| `pc`, `order`, `seen`, `reply` | per request: the await it stands at, what it asks, the balances it has read, its answer |

A request is a *call*; a retry is another call with the same order. What a transaction
writes shows when its `Commit` step runs. This is faithful because each row written is
locked from its UPDATE to the end of the transaction, balances change by increments, and a
rolled-back transaction leaves nothing. The stored keys of one order (`k`, `credit-k`,
`fee-k`, and the prefixes of the other flows) are one pair of flow and key: the model does
not tell apart a client that itself picks a key beginning with `credit-`.

**PaymentService** has one action per await of `POST /payments`
(`payment-service/src/main.ts:418-800`):

| action | code |
|---|---|
| `CheckKey` | `findUnique` of the key, 462; replay answer |
| `Screen` | the blocking AML call, which fails closed |
| `LockFirst`, `LockSecond` | `SELECT ... ORDER BY id FOR UPDATE`, then the status and balance checks on the locked rows |
| `InsertRows` | DEBIT and CREDIT rows, balance updates and ledger entries; a duplicate key waits, then fails; so does a key too long for its column |
| `ReadFeePool`, `UpdateFeePool` | the unlocked `findFirst`, then the pool's update and FEE row |
| `WriteAuditLog` | the advisory lock of the chain |
| `Commit`, `Respond` | end of `$transaction`; answer and unawaited `queue.add` |
| `ResolveEnqueue` | the add succeeds, or fails and is logged |
| `Timeout` | `{ timeout: 10_000 }`, a PostgreSQL error, a lost connection, a deadlock victim |
| `Crash` | the process dies: transactions roll back, nobody is answered, adds are lost |

Authentication, field checks and resolution of the receiver only choose which orders reach
the handler, and are `Orders`. The handler looks at no limit of the wallets.

**WalletService** has the same shape for `POST /qr/:qrHash/pay` (read the code, lock the
wallets, lock the code and judge it again, insert, commit), the two handlers that generate
codes (theirs and payment-service's, which disagree about REQUEST codes: `SingleUse`), the
clock that expires them, and suspend and freeze. Suspending writes its audit entry in a
second transaction, which may fail or be lost by a crash.

**BatchTransfers** is cash-in, cash-out, the USSD transfer and the purchase of airtime:
plain reads, then an array transaction. USSD has a fresh key for each attempt (`Placed`);
airtime is a debit without a credit, whose answer may be an error after the commit. A crash of these services
adds nothing: before the commit it is an `Abort`, and after it a call that stays at
`respond`, which safety allows.

**Reporting** is four reports: `/reports/reconciliation`, `/reports/sarb` and
`/agents/stats`, whose queries run side by side (`Promise.all`), and `/ledger/reconcile`,
whose queries run in order. `RunQuery` answers one query from what is committed then.

**Platform** runs the four on one database and adds the fairness.

**AuditChain** opens the step that `WriteAuditLog` takes as one: timestamp, advisory lock,
read of the last row, insert, commit. A row is named by its writer; its hash stands for the
row and its predecessor.

**BullMq** is a job as a worker sees it: attempts with backoff, and a job whose worker died,
which is delivered once more and then failed by the queue. It is external code, modelled
from how the two workers use it. **Notifications** is `POST /notifications/send` (the row,
then the job, then the answer) and the worker: dispatch by channel, then the row; `arrived`
counts what the provider took. **AmlService** is the blocking screening, the commit of a
payment and its unawaited job, the worker's checks (`RunCheck`, each of which may fail and
be swallowed), `MarkScreened`, the flags of the engine and of the MLRO, suspension, the
alert jobs, and the filing of reports. Time passes by `Tick`, which ends a window for
everything so far.

**Requests** is what a caller needs of the modules above: a key that was sent settles at
most once and only if the request is fit (a payment method that the service knows, a key that
leaves room for the prefix of the credit's row), is refused, or is lost, and nobody waits for it
by necessity. **Clients** are the
send and scan pages of the PWA and the cash pages of the portal (`Tap`, `Hear`,
`OwnTimeout`, `GatewayTimeout`; a fresh key per tap). **MobileApp** is the payment bloc, whose
event handlers overlap, the cached pending key, and the client that repeats a request
(`Repeat`). It sends what the service refuses, so every payment ends in a failure that can be
tried again, and its state is about which key that is done under. **UssdSession** computes each page from all inputs so far, as `routeUssd` does.
**Orchestrator** is the saga, its three attempts per call, the circuit breaker and the
stored result. **Inventory** is products with tracked stock and without, adjustments and sales
with the awaits between read, write and record: an untracked product's sale is recorded and
changes no stock. **PayShapMock** generates, validates and pays codes behind the duplicate
check; a request names codes that exist or that the service has never made. **History** is the two lists: the history of the PWA, read page by page with an offset
while lines are added at its head, and the table of the portal, whose requests overlap.
**Callers** puts them together; `Mixes` says which of them are at work in one behaviour.

**AuthService** keeps accounts: registration (user, wallet, token as three statements), login
(one read, then the count or the reset), refresh, logout, device binding, the agents' login,
opening a wallet, the four limits that an agent may set of any wallet, and the tier upgrade of
kyc-service. A limit is that of a tier, or `Chosen`; MERCHANT has the limits of TIER_0. Every call is a record that
stands at one of its awaits and may break off there. **PwaSession** is the api client of the
PWA with its interceptor, `localStorage` and the pages that move tokens between them; `opened` is
the device id that the register page took when it was opened, and keeps from tap to tap.
**Identity** adds callers from elsewhere.

## 3. What the runs check

Calls are symmetric in the safety runs (each call may have any order). Every run is
exhaustive.

| run | instance | properties |
|---|---|---|
| `payments` | 3 calls, 5 orders, 4 wallets, 1 crash, wallet 2 may be restricted | `TypeOK`, `NoOverdraft`, `StatementsExplainBalances`, `LockedRowsAreCurrent`, `SuccessIsBacked`, `NoWaitCycle`, `LongKeysNeverSettle`, `PromiseKept` |
| `platform_qr` | 3 calls, a payment and 3 scans of one code | `CodesAreCounted`, `LedgerExplainsBalances`, `PromiseKept` |
| `platform_cash` | 3 calls, one order of each of six flows, one of four reports | `BooksAndAnswersAgree`, `ReportsAreExplained`, `RowsAreHonest`, `CheckedFlowsNeverOverdraw` |
| `platform_live` | 2 calls, 6 orders, two codes, a crash of wallet-service | `EveryCallFinishes`, `CodesAreKept` |
| `audit_chain` | 4 writers, 4 clock ticks | `OneBeginning`, `OnlyLateRowsAreSkipped` |
| `pipeline` | two of 3 payments, a flag by hand, 2 notices and a receipt, with one death of a worker, or one of them with two; a fault | `SentHasArrived`, `CopiesAreBounded`, `PatternsAreFlagged`, `AnsweredNoticesSettle` |
| `callers` | ten mixes of callers, see below | `SuccessMeansSettled`, `FailuresAreBounded`, `MovementsExplainStock`, `RetriesKeepTheirKey`, `OnlyNamedWalletsArePaid`, `AirtimeIsPaidFor`, `HistoryIsComplete` |
| `identity` | 2 users, 4 calls, six mixes, a break-off and a lapsed lock | `WrongPinsLock`, `RegisteredOnce`, `TiersAgree`, `TypedOnceTriedOnce`, `OwnBrowserIsKnown`, `PagesActForTheUser` |
| `cash_overdraft`, `no_fee_pool`, `audit_gap`, `first_payment` | | one violated property each, see section 5 |

What they show:

* **Money is conserved and explained.** `StatementsExplainBalances` and
  `LedgerExplainsBalances` recompute every balance from the two histories, the fee and the
  pool included, in every reachable state. The second one is the reading of
  `/ledger/reconcile` per wallet, for the flows that post entries.
* **Judged means judged.** `LockedRowsAreCurrent`: what was read from locked rows is still
  so at the commit, although screening, retries, restrictions and the services that do not
  lock first run in between. `RowsAreHonest`: the balances printed on a statement line are
  those of that moment.
* **A key settles once.** `PromiseKept` (refinement of `Transfers`) and `SuccessIsBacked`
  with racing retries, one key with two amounts and one key from two senders.
* **No circular wait** among payments (`NoWaitCycle`), from the id order of the row locks.
  The statement is about payments to which the fee pool is not a party: a payment *to* a
  pool wallet with a small id locks it first, and with the orders 2 -> pool and 2 -> 3 TLC
  finds a circle, which PostgreSQL resolves by aborting one.
* **Codes.** `CodesAreCounted` relates counter, active flag and the payments that carry the
  code; `CodesAreKept` says the same of two codes of different kinds and a crash, and adds
  the second look at a code: one that expired before it was locked is not paid.
* **The locking services stay safe beside the others.** In `platform_cash` a wallet may go
  negative (section 5), yet never by the commit of a payment or a QR payment
  (`CheckedFlowsNeverOverdraw`), and the books, the answers and what was judged stay right
  (`BooksAndAnswersAgree`).
* **Reports are off by the meantime.** `ReportsAreExplained` bounds how far the figures of
  one report may disagree by what was committed while its queries ran and by the airtime
  sold.
* **Every started request ends** (`EveryCallFinishes`), deadlocks of cash-in against
  cash-out included.
* **The audit chain** has one beginning and skips only rows that were overtaken.
* **Screened payments are screened.** `PatternsAreFlagged`: in whatever order the jobs of a
  burst run, die and run again, a pattern that a check has not been prevented from seeing is
  flagged. `CopiesAreBounded` bounds what repetition can do, and `AnsweredNoticesSettle`
  says that an answered notice does not stay PENDING, but for the job that stalls twice and
  the database that refuses every failure.
* **What callers are told.** A success on a page belongs to its last tap
  (`SuccessMeansSettled`), what the app tries again carries the key of its first attempt
  (`RetriesKeepTheirKey`), the feature phone pays whom it has named and airtime is charged
  before it is sent, stock is what its movements add up to, and a service in trouble is called
  no oftener than the circuit breaker lets it.
* **Lists.** Paging by offset while lines are added at the head repeats lines and omits none
  (`HistoryIsComplete`).
* **Accounts.** Wrong PINs lock, a number is registered once, the tiers of user and wallets
  agree, and a browser acts for the user who is signed in: each but for the exceptions that
  the property names, all of them reachable (section 5).

Where a property names an exception (`crossed`, `upset`, `mixed`, `drifted`, a deleted
wallet), the exception is behaviour of the code: with it left out, TLC finds the property
violated in the same instance.

Each property is accompanied by a *mutant*, an operator marked as such in the modules that
makes the plausible mistake (a row read and not locked, a fee posted to the wrong wallet, a key looked up and not unique, a code not judged again); under it the run reports
the property as violated.

### Bounds

`Calls` (3, or 2 for liveness), `Watched`, `MaxCrashes`, `MaxQrCrashes`, `MaxTime`, and the
sets `Orders`, `QrIds`, `Keys`. Three calls are enough for an original, its retry and a
competitor, and for circles of length three. The amounts are chosen so that wallet 1 covers
each of its orders and not all pairs (100 costs 125 of its 170), so balances decide
races; 100 pays the minimum fee of 25, and larger fees differ only in the amount. In
`payments` all parties but one stay unrestricted, because each watched wallet multiplies
the states by three and wallet 2 is both a sender and a receiver. In `platform_cash` a
restricted wallet is SUSPENDED and never FROZEN, which every handler judges alike, and the
process does not crash: what a crash does to a transaction is what `Timeout` does, and
`payments` and `platform_live` have crashes. A report is asked for at
most once and beside one call of each of two orders (`ReportMix`): a query is one step, so
one transfer before, between or after the queries is every case the property tells apart.
The theorems of section 4 hold for every
value of these bounds.

`pipeline`: `MaxFaults` 1 (a failed check, send, store, add or alert), `MaxDeaths` 2,
`MaxRequests` 2, `MaxTicks` 1. The velocity rule has the limits 1 and 2 instead of 20 and
50: two payments that reach the worker pass the first. `MaxTogether` 3 bounds requests and deaths
together: two requests that overlap and a worker that dies, or one request whose job stalls
twice and is failed by the queue. Three attempts and one stalled delivery are the code's.

`callers`: callers that share nothing are not run beside each other, since the product of
their states shows nothing new. The mixes are a send page, a cash page, three submissions to
the orchestrator, the app, a scan whose payment a merchant records as a sale beside a
restock, a sale beside two adjustments, a phone, four payers of two PayShap codes, a reader
of the history, and an agent at the table. `MaxTaps` 2, `Attempts` 3 and `MaxRepeats` 3 (as
in the code), `CircuitThreshold` 2 (5 in the code: with three submissions 5 would never be
passed), `MaxBreaks` 1, `MaxOpenings` 3, `MaxOpening` 2 (handlers of the app that wait for a
recipient at once), `MaxDials` 2, `MaxPresses` 5, `MaxAirtimeFaults` 1, `MaxDbFaults` 2,
`PageSize` 2 (20 and 25 in the code), `MaxLines` 4, `MaxFetches` 3.

`identity`: `PinLimit` 2 (5 in the code), `MaxCalls` 4, so that two wrong PINs, a right one and
an overlap fit; `Tiers` 0, 1 and 3 (a tier with limits of its own and MERCHANT, which has none),
`Choices` (an agent sets the daily limit, or the maximum balance and the limit per payment);
`MaxBreaks` 1, `MaxLapses` 1 (a lock that runs out), `MaxAsks` 4 things the user
does in the browser. The mixes keep apart what only meets in the accounts, and say how much of
each bound they take: the browser is there twice, with the faults and three things asked, and
without them with three calls and four things asked (two sign-ins, a code and a page), so that
a sign-in can end in the session of the user before.

`CHECK_DEADLOCK FALSE` is set where the system may come to rest: the Platform runs, once
every request is answered and nothing is left to restrict, the audit chain, and the runs
whose actors are bounded in what they ask. `payments`
keeps the check on: the operator may restrict wallet 2 for ever.

### Fairness

`FairSpec` assumes weak fairness of each handler once its request has started: Node runs
the continuation of every settled promise, and PostgreSQL grants a free lock to a waiter.
It also assumes that a deadlock loses a victim (`AbortVictim`), which is PostgreSQL's
`deadlock_timeout`. Weak fairness of a lock step is enough because a holder never needs the
same row again and there are finitely many calls. Nothing is assumed of timeouts, crashes,
operators or of the arrival of requests.

In `pipeline` the worker takes its jobs and goes on with them: weak fairness of `Work`, as
BullMQ polls its queue and restarts a stalled job; nothing is assumed of requests or
providers, which may fail. `callers` and `identity` assume none and check safety only.

## 4. What is proved

The theorems hold for any wallets, opening balances, orders, calls, writers, pages,
submissions, products and bounds that satisfy the named assumptions of the modules
(`MoneyAssumption`, `CallAssumption`, `CrashAssumption`, ...), which type the constants and
say which sets are finite. Where a theorem needs more than that, the hypothesis is in its
statement and below.

Each proof has the same shape: an inductive invariant, a lemma that the initial states
satisfy it, a lemma per action (or per kind of step) that it is preserved, and the theorem.

### Sums (`Sums`, `WalletDbProofs`)

The reconciliations add up sets of lines with `SumFunctionOnSet`, which the library defines
by recursion over a set. `Sums` proves what the other modules need of it, by a smallest
counterexample among the subsets (well-foundedness of the finite subsets): a sum is an integer
(`SumType`), depends only on its terms (`SumCongruent`), and changes by one term when the
set does (`SumAdd`, `SumRemove`). `WalletDbProofs` turns that into what a commit adds to the
lines and entries of one wallet (`Gained`, `Net`), and holds the lemmas on locks and places
that both services' proofs use.

### The payment handler (`PaymentServiceProofs`)

| theorem | statement |
|---|---|
| `TypeCorrect`, `IInvHolds` | types, and the inductive invariant |
| `JudgementsStayTrue` | `Spec => []LockedRowsAreCurrent` |
| `NeverOverdrawn` | `Spec => []NoOverdraft` |
| `UuidKeysNeverSettle` | `Spec => []LongKeysNeverSettle` |
| `SuccessesAreBacked` | `Spec => []SuccessIsBacked` |
| `PaymentsKeepPromise` | `Spec => PromiseKept`, the refinement of `Transfers` |
| `StatementsReconcile` | `Spec => []StatementsExplainBalances` |
| `PaymentsNeverDeadlock` | `Spec => []NoWaitCycle`, if `PoolIsNoParty` |

`NoOverdraft` is not inductive: `Commit` subtracts without looking. It needs
that a call at `commit` still covers its order, which needs that nobody else changed the
sender's balance since `LockSecond`, which needs that the call holds both row locks the
whole time. `IInv` says so: types; which locks a call holds at which step; that what it
judged still is so; that a key being inserted is reserved and not yet in the table; that
rows are those of settled orders and their keys fit the column. A step of
another call cannot touch a locked row, and that is the lemma used for every action. For
the refinement, `Commit` maps to `Settle` of its order (the reserved key gives "at most
once"), a restriction to `Restrict`, and every other step leaves `balance`, `status` and
the settled orders as they are.

`StatementsReconcile` adds that every line of the table has its key taken: so the lines of a
commit are new, and the sum grows by exactly them. `PaymentsNeverDeadlock` adds that whoever
holds a lock is far enough in its transaction; then every wait goes to a higher wallet id, to
the fee pool, or to the audit lock, whose holder waits for nothing. `PoolIsNoParty` (no order
names the fee pool as a party) is needed: the code lets a pool wallet be a receiver, and then
TLC finds a circle.

### The services together (`PlatformProofs`)

| theorem | statement |
|---|---|
| `BooksAgree` | `Spec => []BooksAndAnswersAgree`: statements explain balances, answers are backed, what was judged under a lock stays true |
| `CodesCounted`, `CodesKept` | `Spec => []CodesAreCounted`, `Spec => CodesAreKept` |
| `LinesAreHonest` | `Spec => RowsAreHonest` |
| `CheckedCommitsAreCovered` | `Spec => CheckedFlowsNeverOverdraw` |
| `LedgerReconciles` | `Spec => []LedgerExplainsBalances`, if `CheckedFlowsOnly` and `HasFeePool` |
| `ReportsExplained` | `Spec => []ReportsAreExplained`, if `HasFeePool` |
| `PlatformKeepsPromise` | `Spec => PromiseKept`, if `CheckedFlowsOnly` |

`PlatformInv` is the same idea, said once for every flow: what a call holds follows from its
place (`CallInv`), no row, key or code is held by two (`Alone`), an answer is attested by the
tables (`Attested`), the counter of a code is the number of its payments (`UsageIsCounted`). A
step of a call either settles its order or is quiet (`StepKinds`), and leaves the facts of
every other call alone; steps that are no call's (clock, restriction, report, crash) are
treated apart. Both hypotheses are facts about the code, not about the proof: cash-in and
cash-out post no ledger entries and USSD judges without a lock, so they do not keep the promise of
`Transfers` (section 5, `cash_overdraft`), and without a fee pool the fee has no entry
(`no_fee_pool`). `CodesKept` is a temporal formula: its action part is proved from
`PlatformInv`, and a call that was not past the code's lock when the code expired is followed
from there with an invariant of its own.

The queries of a report run at different moments, so `ReportsExplained` compares no two of them. It
holds each figure against two states: the totals when the report was asked for (`from`) and the
totals now (`Explained`), and a figure between the two stays so because the totals only grow
(`Grows`). What ties different totals together are the `Books`: every debit is a credit or airtime, the
ledger balances, and what the wallets no longer hold went for airtime (`Held`, a sum over all
wallets, of which a commit changes three terms). That last part needs `HasFeePool`; without a pool
the fees leave the wallets too. `/ledger/reconcile` sums ACTIVE wallets only, and because no
handler makes a wallet ACTIVE again, wallets that are all ACTIVE now always were.

### Audit chain and pipeline (`AuditChainProofs`, `PipelineProofs`)

| theorem | statement |
|---|---|
| `ChainHasOneBeginning` | `Spec => []OneBeginning` |
| `SkipsAreLate` | `Spec => []OnlyLateRowsAreSkipped` |
| `SentNoticesArrived` | `Spec => []SentHasArrived` |
| `CopiesStayBounded` | `Spec => []CopiesAreBounded` |
| `ScreenedPatternsAreFlagged` | `Spec => []PatternsAreFlagged` |

`ChainInv`: one writer is past the lock (`OneWriter`), and what it has read as the last row is
still one of those with the latest timestamp (`LinksLatest`). Of the pipeline, `JobsAccounted` says for each job,
by its state, what its attempts can have delivered, and `SentThroughJobs` that a row says SENT
only by a job that delivered; `ScreenInv` says that a check which has looked at a pattern has
flagged it. A statement only grows at its end, so a pattern once seen is not lost.

### The callers (`CallersProofs`)

| theorem | statement |
|---|---|
| `SentIsSettled` | `Spec => []SuccessMeansSettled` |
| `RetriesCarryOneKey` | `Spec => []RetriesKeepTheirKey` |
| `NamedBeforePaid`, `AirtimeWasCharged` | `Spec => []OnlyNamedWalletsArePaid`, `Spec => []AirtimeIsPaidFor` |
| `BreakerHolds` | `Spec => []FailuresAreBounded` |
| `StockIsExplained` | `Spec => []MovementsExplainStock` |
| `ListsAreComplete` | `Spec => []HistoryIsComplete` |

They share the requests, and what pages and phone rely on is that a settled request stays settled
and that others send under other keys: the keys of pages, app and phone are disjoint, which is
why `CallersAssumption` keeps `"app"` and `"ussd"` out of `Sessions`. One invariant per caller:

* *Pages*: what a page shows belongs to its last tap.
* *App* (`AppInv`): a chain of attempts that is still alive and was not crossed has used no key but the
  pending one. That is the fact that makes a retry safe, and overlapping handlers are what breaks it.
* *Phone* (`UssdInv`): a transfer is ordered only behind the page that shows its recipient, and every
  request of the phone belongs to such an order.
* *Saga* (`BreakerCounts`): failures counted so far and calls under way together stay within the
  threshold and the number of submissions.
* *Stock*: of a tracked product that is not upset, at most one handler is between its read and its
  record, and what it has read is current; one that only records finds no stock row to disagree with.
* *Lists*: the pages read so far have every old line up to the offset (`HasUpTo`); lines are added
  only at the head, so no old line moves below the offset. At most one answer is under way
  for a table that was not crossed.

### Accounts and sessions (`IdentityProofs`)

| theorem | statement |
|---|---|
| `IdentityKept` | `Spec => [](ServerInv /\ SessionInv)`, the inductive invariant |
| `PinsLock` | `Spec => []WrongPinsLock` |
| `OneRegistration`, `OneTier` | `Spec => []RegisteredOnce`, `Spec => []TiersAgree` |
| `PagesAreTheUsers`, `OneTryEach` | `Spec => []PagesActForTheUser`, `Spec => []TypedOnceTriedOnce` |
| `BrowserIsKnown` | `Spec => []OwnBrowserIsKnown`, with the types of `Identity` |

`ServerInv` says of each user what the handlers under way make of the account: of one who does not
exist nothing is under way (`NotYet`); a wrong PIN still to be counted is the only difference
between what was typed and what is stored, and the count it has read is current (`PinsCounted`); the
one registration past `CreateUser` has, according to its place, made the first wallet or not
(`OneFirst`); at most one handler is at the wallets, and what it has read or will write is the tier
of the account (`TierKnown`). A step of one call changes the facts of its own user
only (`OthersFrame`). `SessionInv` says of the browser that memory and storage have one refresh token
(`StorageAgrees`), that without drift everything asked is asked for the stored user (`AsksAgree`,
`CodeAgrees`), that no sign-in waits where a refresh could be asked for (`NoRepeats`), and that a
registration under way carries the device id that is kept (`DeviceKept`). The two meet in one place: the
access token that a refresh brings is of the user for whom it was asked, because the service
compares it with the owner of the refresh token (`TokensTrue`).

The proof found a case that the run had been too small for. A sign-in may end after the user has
gone back, by `EnterPage`, to the session before, and then that session's cached code stays in
storage under the new user. It takes four things asked, where `MaxAsks` was 3; `drifted` now names
it, and a mix of `identity` is large enough to meet it.

### What is only model-checked, and why

* `EveryCallFinishes`, `AnsweredNoticesSettle`: liveness under fairness is outside the prover's
  reach.
* The four runs that expect a violation.

## 5. Where code and documents disagree

* **Overdraft through agent and USSD transfers** (`cash_overdraft`). Cash-in, cash-out and
  USSD judge a balance they read without a lock and then decrement; two at once leave a
  negative balance.
* **Fees without a fee pool** (`no_fee_pool`). The fee is always debited and only credited
  and posted when a FEE_POOL wallet exists, which only development seeds create.
* **Rows the audit chain does not cover** (`audit_gap`). A row overtaken between its
  timestamp and the lock is nobody's predecessor; rows of one millisecond are enough.
* **UUID keys** (`payments`, `LongKeysNeverSettle`). Keys of 30 to 36 characters are
  accepted, and the payment always ends in error 500, because `credit-` and the key exceed
  the column.
* **First payments of PayShap codes** (`first_payment`). Generating a code records its PENDING
  row, and the duplicate check takes any row of the code for a payment of it
  (`payshap-mock/src/utils/qr-idempotency.ts:40-53`). So the first payment of every code is told that
  it "has already been processed" (`main.ts:71`); only a check that fails lets one through.

Met on the way, and stated only here: `compliance_scripts.ts:57-73` compares the number of
`wallet_transactions` with the number of audit entries, and a payment leaves three of the
former for one of the latter. Daily, monthly and maximum-balance limits are stored and
never enforced by `/payments`. A payment that commits before a crash is never queued for
AML screening. Statement lines of the fee pool, and of agent and USSD transfers, carry
balances read without a lock.

* *The app's payments.* The app sends the payment method `AHAVA_WALLET`
  (`payment_repository.dart:59`), which is not in the enum of `/payments`
  (`payment-service/src/main.ts:107-109`), so each is refused with 400; its uuid would be too long a key
  besides, and a settled payment's amounts, which are strings, would fail the casts of
  `payment_repository.dart:72-74`. The user reads a failure that can be tried again, without end.
* *The send page of the PWA* has a uuid for a key, too (`pwa/lib/api-client.ts:198`), so no payment it
  sends settles; the scan page shortens its key. After a timeout it says "payment was NOT sent",
  which nobody knows.
* *Jobs without a row.* The alerts of aml-service (`mlro.notifier.ts:34-46`) and the receipts of
  kyc-service (`kyc-service/src/main.ts:367-372`) carry no `notificationId`; the worker updates the
  row of an undefined id (`notification-service/src/main.ts:188-206`), which throws, so these jobs
  always end as failed, sent or not.
* *Screening.* A POTENTIAL_MATCH goes on like CLEAR, although
  `comply-advantage.client.ts:82-83` has it "held for manual review". A CRITICAL flag of the
  engine does not suspend, whatever `aml-service/src/main.ts:262` says of critical flags. The
  structuring check compares `dailySpent`, which nobody writes. A burst screened after its
  hour is not seen. QR payments, cash and USSD are never screened. A job that stalls twice
  leaves its row PENDING.
* *Airtime.* The debit commits before the provider is called and is not refunded, while the
  customer reads "Airtime purchase failed. Please try again." (`ussd-service/src/main.ts:420`).
  It has no CREDIT, so `/reports/reconciliation` is out of balance for ever after one purchase.
* *USSD.* After "Wallet ... not found", "1. Try again" is taken as an amount of one rand for that
  number, and a confirmation pays a deleted wallet. "0. Back" and a wrong amount stay in the
  input, so the session shows one page for ever. The balance is compared, not what is
  available.
* *Reports.* Opening balances and cash flows post no ledger entries and suspended wallets are
  left out, so `/ledger/reconcile` always shows a discrepancy; with a `walletId` it compares
  the ledger of one wallet with the sum of all (`ledger-service/src/main.ts:130-141`).
* *Lists.* In the agents' table the older of two answers may be the one that stays
  (`agent-portal/app/transactions/page.tsx:78-110`), and the server ignores the `type` filter.
* *The app's key.* A second payment begun while the first is being opened drops the pending key
  of the first, and its retry then carries another one, although
  `payment_bloc.dart:196` says that the key "persists across retries for the same payment
  intent".
* *PINs.* Of wrong PINs that overlap one may not be counted, and a stale write lifts a lock
  (`auth-service/src/main.ts:122-127`). A PIN mistyped once is repeated by the interceptor of
  the PWA until the account is locked, if tokens were left in memory
  (`api-client.ts:60-73`). Binding a device and the agents' login ask the same PIN and count
  nothing.
* *Sessions.* The register page stores a device id of its own over the client's, and the
  dashboard's sign-out clears it: "Device not recognized" at the next login. The sign-out
  of `app/page.tsx:106-111` leaves the cached code, which the next user shows as his own
  (`wallet/qr/page.tsx:32-39`). A refresh that ends after the sign-out brings the token back. A
  sign-in that ends after its page was left for the session before leaves that user's code, too.
* *Tiers.* An upgrade leaves `perTransactionLimit` as it was and overwrites the other limits that
  an agent chose; MERCHANT gets the limits of TIER_0 (`kyc-service/src/main.ts:425-426`); a limit
  change that overlaps an upgrade writes the old limits back, and a wallet opened meanwhile keeps the
  old tier.
* *Stock.* Overlapping adjustments lose one; a sale goes below zero. A product is untracked by
  default (`products.routes.ts:124`), and then its sales are recorded and change no stock.
* *Sagas.* No call carries a token, so every saga fails at its first step and is stored as
  COMPENSATED. That is also why "Changes compensated" is true: there is never anything to take
  back, and the compensation, whose endpoint does not exist, could not do it.

## 6. What is not modelled

Cryptography, token contents, encryption and masking of personal data, logging, metrics,
wording of messages and layout are outside: no property is about them. So are documents and
Smile ID in kyc-service, the POST routes of ledger-service (nobody reaches them: the
orchestrator stops before), reports that are a single query (trial balance, VAT), the steps
of a saga after the debit, the QR scan and login screens of the mobile app, and the pages
of PWA and portal that only show data. Seeds, compliance scripts and deployment have no
behaviour to check.

Ambitious readings that were left out on purpose: a failed screening check and its pattern
(the code swallows it), retries by a customer who dials again (no key identifies them), and
enqueueing after a crash (the code does not try).

## 7. Plan

The model covers the plan of components, and every safety property of the passing runs has a
theorem. Liveness stays with TLC. What can still be proved towards it is the part that is safety: for
`EveryCallFinishes`, that some step of a call is possible wherever it stands, or a deadlock is there
to be broken; `PaymentsNeverDeadlock` is that for the payments alone.

No module that is proved about declares or reaches a recursive operator; the properties are
stated over sets and functions, as a proof needs them.
