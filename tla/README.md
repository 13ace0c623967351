# Verification of the conviction buyer runtime

TLA+ models of this repository's program logic, TLC configurations that check
them on small instances, and proofs checked by TLAPS. The reference is the code;
where a document of the repository says something else, the disagreement is kept
as a run that is expected to fail (see "Disagreements").

For a model check run `tlc -config <cfg> <module>`: `StateRelease_<run>.cfg` with
`MCStateRelease`, `BuyerPayment_<run>.cfg` with `MCBuyerPayment`, `TakeProfit_order.cfg` with
`MCTakeProfit`, `Services.cfg` with `MCServices`, `Records.cfg` with `MCRecords`. For the proofs run `tlapm` on
`StateReleaseProofs.tla`, `StateReleaseOrderProofs.tla`, `BuyerPaymentProofs.tla`,
`TakeProfitProofs.tla`, `TakeProfitLockProofs.tla`, `CardProofs.tla`, `ServicesProofs.tla` and
`QueueProofs.tla` (some minutes each).

## The system

`conviction` sells signed trading cards for Polymarket (x402 payments on X Layer)
and runs the buyer's side of a trade on the buyer's machine.

| Component | State | Operations | Talks to |
|---|---|---|---|
| State directory (`scripts/buyer-orchestrator.mjs` 186-3220, `scripts/state-release-mutex.py`) | one journal file per journey, replay lock files, the global execution lock, the release guard, a kernel `flock` | compare-and-swap journal write, claim, attach, release, resume a release, sweep an orphan | every buyer process on the machine |
| Buyer journey OPEN / CLOSE (`scripts/buyer-orchestrator.mjs` 3221-5844, `src/buyer-orchestrator.mjs`) | in-memory checkpoint, journal stage | pay, record the card, confirm, execute, prove, complete; `resume-close`, `reconcile-open`, `reconcile-close` | state directory, merchant, exchange CLI, chain |
| Payment (`x402-payment-verifier`, `service-payment`) | authorization nonce, transaction claim file | sign, settle, verify, claim | X Layer, merchant |
| Take profit (`scripts/take-profit-orchestrator.mjs`, `take-profit-lifecycle`, `take-profit-fill-verifier`) | journal, reservation lock, order, fills | place, cancel, reconcile, aggregate fills | state directory, exchange, chain |
| Wallet setup (`wallet-setup-*`, `wallet-relayer-handler`, `polymarket-builder-guard`) | signed session, setup stage, one-time relayer action | challenge, session, relay, status | browser, relayer, chain |
| Card compilers and issuer (`intent-compiler`, `exit-intent-compiler`, `take-profit-intent-compiler`, `intent-issuer`, skill scripts) | none | compute bounds, sign, verify | market data |
| Public API (`api/*`, `public-api-guard`, `short-cache`) | request counters, cache entries | serve, limit, share loads | market, chain |
| Readers (`polymarket-trades`, `polymarket-open-orders`, `receipt-verifier`, ...) | none | paginate, decode, verify | exchange, chain |
| Operator scripts (`telegram_outbox.py`, `conviction_fast_responder.py`, ...) | outbox files | deliver at least once | Telegram |

What is hard about it: several buyer processes share one directory without a
server. Any of them may die at any line, the mutex is non-blocking and every
refusal is an error path of its own, a lock is published before the journal that
owns it says so, a release touches up to two lock files, a journal and a guard,
and reconciliation reads the journal outside the mutex. Money is at stake at two
points: a payment authorization that was sent may settle later, and an order
whose answer was lost may exist.

What makes each component correct:

* State directory: a lock belongs to one journal; no crash loses or duplicates
  a binding; a half-done release freezes everything else and can be finished.
* Journey: at most one live order per paid card, at most one order in doubt on
  the machine, a journey called unstarted never started, and a settled journey
  is eventually released.
* Payment: one settled payment per request identity and one journey per payment.
* Take profit: one order of the owner rests at the venue, whatever an order command
  left in doubt keeps the lock, and a recorded end is the end; all of it together is a seat
  that is left only by who can account for its order.
* Paid service: a payment is taken for a card only, and buys one refresh window.
* Wallet setup: one consent, one deployment; what a probe says is recent.
* Compilers, validators, verifiers: three recomputations of the same bounds agree, and a
  proof is given for exactly the settlements that kept to the card.
* Journey: an order is sent on facts that were read under the execution lock, and in a later
  second than its confirmation, so that no proof is of what happened before it.
* Public reads: limits and sharing hold together under any order of answers and failures.
* Outbox: no alert is lost, no line is passed over, and repeats are explained by crashes, lost
  answers and what a trimmed state has forgotten.

## Modules

| Module | What it is |
|---|---|
| `StateRelease` | the state directory and the commands that work on it |
| `LockRegistry` | what the directory promises: locks and orders without files, guards and crashes |
| `MCStateRelease` | instances for TLC |
| `StateReleaseProofs` | the inductive invariant of the lock layer and the theorems that follow |
| `StateReleaseOrderProofs` | the inductive invariants of orders, of requests and attempts and of unattached locks, and the refinement of the registry |
| `BuyerPayment` | the payment of a journey: authorization, settlement, transaction claim, expiry |
| `MCBuyerPayment` | instances for TLC |
| `BuyerPaymentProofs` | the inductive invariant of the payment and the theorems that follow |
| `TakeProfit` | the take-profit journey: reservation, payment, placement, cancel and reconciliation |
| `SellDesk` | what it promises: reservation, seat and order without processes, files, stages and crashes |
| `TakeProfitProofs` | theorems about `TakeProfit` |
| `TakeProfitLockProofs` | its execution lock always has a way out, and the refinement of the desk |
| `MCTakeProfit` | instances for TLC |
| `Journey` | the order of a journey's steps (OPEN, CLOSE, TAKE_PROFIT) against clock, wallet and other orders |
| `CardEconomics` | the integer arithmetic of cards, their validation and the proof of their settlement |
| `CardProofs` | theorems about `CardEconomics` and about `Journey` |
| `PaidService` | the two paid routes behind the x402 gate, and the free refresh of a paid card |
| `WalletSetup` | one-time tokens, deployment under one consent, the records of the setup store |
| `BuilderProbe` | the builder-authorization probe with its shared cache and lock |
| `PublicReads` | the public request guard and the cache with shared loads, as the market route composes them |
| `ServicesProofs` | theorems about `PaidService`, `WalletSetup` and `BuilderProbe`, and about the parts of `MCServices` together |
| `SequenceFilter` | what a filter leaves of a sequence |
| `Outbox` | the operator scripts: review watcher and fast responder over a durable outbox |
| `QueueProofs` | theorems about `PublicReads` and `Outbox`, and about filtered sequences |
| `MCServices` | instances for TLC of `Journey`, `CardEconomics`, `PaidService`, `WalletSetup`, `BuilderProbe` and `PublicReads`, and of one take-profit journey with fairness |
| `MCRecords` | instances for TLC of `BuyerPayment` (the claims on payments) and `Outbox` |

The two state machines meet at the replay lock. `StateRelease` shows that a replay
lock is bound to one journal and that claim and release behave as single steps
(`LockRegistry`); `BuyerPayment` takes that for granted, gives each journal a flag
`locked`, and looks at what happens while it is held before the card is paid for, which
is one step (`Confirm`) of `StateRelease`. `Journey` looks inside that step and up to the
proof: which check comes after which await. It keeps no durable state; what is durable
of the same steps is in the other two. `TakeProfit` has its own payment (the same code,
in less detail: one authorization per journey, no foreign answers) and takes single-step
claims and releases from `StateRelease`. The remaining modules share no state with these
and none with each other: a service, a store, a cache or a script each. They meet the
buyer's side only in values (a signed card, a settled payment, a deployed wallet).

### StateRelease and the code

State. `journal[j]` is a journal file: `rev` is `journalRevision`, `stage` the
stage and attempt markers, `bound` the lock paths set in it (`replayLockPath`,
`executionLockPath`) and `gen` the execution-lock generation. `locks[r]` is a
lock file: its journal, its generation and the journal revision it was published
from. `guard` is the release guard with the target journal it carries. `mutex`
is the holder of the kernel lock. `proc[p]` is a process: the next step, the
command, its journey, the revision of its in-memory checkpoint and whether the
clock it sampled at its start was past expiry. `expired`, `orders` are the world.

| Actions | Code (`scripts/buyer-orchestrator.mjs`) |
|---|---|
| `Start` | first journal write of `open`/`close`, 5370 |
| `ClaimReplay`, `AttachReplay` | `claimReplayLock` 1365: exclusive create, then the attaching journal write, under one mutex lease |
| `Confirm` | everything from the reserved lock to the recorded consent, 2101-2512, in one step |
| `ClaimExec`, `ExecRefused`, `AttachExec` | `claimExecutionLock` 1478 |
| `AttachFails` | `resolveFailedLockAttachment` 278 |
| `MarkAttempted`, `RecordRuntime`, `Launch` | 1885, 5636, 5658: attempt marker, runtime evidence, child process |
| `PersistResult`, `PersistProof` | 5670, 5731 |
| `GiveUp`, `Abort`, `AbortRefused` | the catch blocks of `execute` 5662-5703, of `resumePaidCloseJournal` 4660 and of `main` |
| `BeginRelease`, `Unlink`, `WriteTarget`, `ClearGuard`, `FailRelease` | `releaseReconciledLocksLocked` 2939: guard, unlinks in path order, journal, guard |
| `RecoverRefused`, `SettleRefused` | refused `recoverKnownUnstarted*` 3221 and `settleExecutionLock` 1836 |
| `Withdraw` | `releaseCreatedReplayLock` 5221 |
| `FinalWrite`, `Exit` | the top-level catch 5815 |
| `ResumePending` | `resumePendingStateRelease` 2870 |
| `Reconcile`, `Resume`, `Read`, `Sweep`, `Leave` | `reconcileOpenJournal` 3441, `reconcileCloseJournal` 3785, `resumePaidCloseJournal` 4396, `reconcileUnattachedExecutionLock` 1732 |
| `Crash`, `Expire` | the kernel drops the `flock` of a dead process; the clock |

The releases differ only in which locks they select and what the target says, so
they are one action over a `kind`: `unsent` (payment never authorised),
`expired`, `prelaunch` (known-unstarted recovery), `settle`, `complete`,
`reconciled`.

Abstractions. Comparisons of journal hashes are comparisons of revisions: a
journal is only written by compare-and-swap and the revision grows by one, so two
durable states of a journal never share one. A critical section that only writes
one journal is one step (`Section`), since it holds the mutex throughout and
the write is an atomic rename; sections that touch several files are one step per
file. The mutex is taken without waiting (`LOCK_NB`): a busy one is an error,
modelled by the `...Refused`, `GiveUp`, `Leave` and `Exit` steps. A release that fails
after its first unlink keeps the guard and writes nothing, which is what `Crash`
does. Consecutive writes of one process with the same control content are one
write. A replay lock file carries no generation in what is compared, so its
`gen` is 0. Stages that only differ in recorded payloads are one stage.

### LockRegistry

`RefinesRegistry` maps a journey's held locks to the journal's `bound` and its
order to the launched orders and the stage. Claim takes effect at the attaching
write, release at the guarded target write. The registry says that locks are
exclusive, that an order is launched once and under the execution lock, and that
a journey with an open order gives up its locks all at once, with the resolution.

### BuyerPayment and the code

State. `journal[j]` holds the revision, the stage, whether the replay lock is held, the
flag `reconciliationRequired` (`required`) and the verified transaction. `live[j]` is the
process that runs the journey: its step and its in-memory checkpoint (revision, stage,
the transaction the merchant named). `claim[t]` is the exclusive file
`payment-<transaction>.lock.json`. `operator[o]` is a reconciling process with the revision it
read. `sent`, `settled`, `lapsed` are what the merchant and the head of X Layer know;
`finalSettled`, `finalLapsed` what the finalized block shows; `earlier[j]` the
settlements older than journey `j` (the verifier's `earliestAllowedTime`).

| Actions | Code (`scripts/buyer-orchestrator.mjs`) |
|---|---|
| `Start`, `Reserve`, `Sign` | `requestPaymentChallenge` 5370, `claimReplayLock` 1365, the external signer 5399 |
| `Withdraw` | `releaseCreatedReplayLock` 5221: signing failed or the signature is not the pinned payment |
| `Record`, `RejectHeader`, `Send` | 5420-5444: the authorization is journalled before it is sent |
| `Refused`, `Accepted` | 5445, `persistSuccessfulPaidServiceResponse` 2152 |
| `Claim` | `fetchAndVerifyX402Payment` and `claimVerifiedPaymentTransaction` 2237 |
| `Promote`, `PromoteFails`, `RollBack` | `persistVerifiedPaidServicePayment` 2414 and its catch, `releaseFailedPaymentTransactionClaim` 2295 |
| `WriteFails`, `Fail`, `FinalWrite`, `Die` | a journal write that fails with the checkpoint already changed, any other error, the catch of `main` 5815, and a process that ends without it |
| `Reconcile`, `Ask`, `Release`, `Abandon` | the expired-authorization branch of `reconcileOpenJournal` 3478 and `reconcileCloseJournal` 4012 |
| `Resolve` | the rest of a paid journey, after `verifyStoredPaymentTransactionClaim` 2356 |
| `Settle`, `Lapse`, `Finalize` | the merchant, the clock and the chain (external) |

Abstractions. A transaction is named by the journey whose authorization it settles, so
`Named[j]` says whose payments an answer to `j` may name: its own, or (in `records`) any
payment of this payer. The release of an unsent lock and the stage write after it are
one step, and so are the writes of the failed release (`starting` stands for
`replay_lock_release_failed_before_replay` too: both are locked and neither is
recoverable). The replay lock release is one step against the revision the operator read, which
is what `StateRelease` shows of it. The revision counts the writes, of which a journey
has finitely many, so the model is finite without a bound.

### TakeProfit and the code

State. `journal[j]` is a TAKE_PROFIT journal: stage, bound locks, execution-lock
generation, `needs` for `reconciliationRequired`, whether an authorization was signed, the
plugin's reply (an order id, the refusal that the code takes for definitive, or anything else,
`unclear`), the order status found first, the prelaunch recovery and the phase of the
cancellation. `reserved[k]` is the reservation file of a replay key, `exec` the execution
lock with the exact journal it was published from. `proc[p]` holds the journey of a
process, whether its revision is current, and the generation and order status in its memory.
`order[j]` is the order at the venue with what was matched and what is settled in
finalized blocks; `elapsed[j]` the deadlines that have passed (authorization, card, venue
expiry, launch window of a cancel command).

| Actions | Code (`scripts/take-profit-orchestrator.mjs`, `src/take-profit-lifecycle.mjs`) |
|---|---|
| `Start`, `ClaimReservation`, `Sign`, `SignFails`, `SendPayment`, `ReceiveCard`, `ConfirmTrade` | the paid span of `take-profit` |
| `ClaimExec`, `ClaimRefused`, `CheckLocked`, `MarkAttempted`, `Launch` | the execution lock, the second checks, the markers, `onStart` |
| `PreSpawnFailure`, `SettlePrelaunch` | `markTakeProfitPreSpawnFailure` and the settling of a journey that never launched |
| `PersistResult`, `FetchExactOrder`, `PersistPassport`, `ProgressReservation`, `SettleArmed` | live result, exact order, passport, progressed reservation, settled lock |
| `PromptCancel`, `ClaimCancel`, `MarkCancelAttempted`, `LaunchCancel`, `PersistCancelResult`, `FetchAfterCancel`, `RecordOutcome`, `SettleCancel`, `CancelFails` | `cancel-tp` |
| `Reconcile`, `ReconcileRejected`, `ReconcileAuthorization`, `Sweep`, `ReconcileUnstarted`, `RecoverPassport`, `TrackRecovered`, `ReconcileCancel`, `Track`, `SettleRecovered`, `SettleResolved` | `reconcile-tp`, in the order in which the command looks at a journal |
| `ClaimReservationDies`, `ClaimDies`, `Crash` | deaths between a lock file and its attachment, and anywhere else |
| `AnswerOrder`, `ExpireOrder`, `AnswerCancel`, `SettleTrades`, `Fill`, `SettlePayment`, `Elapse` | venue, chain, clock (external) |

Abstractions. All journeys sell the same token and each offers everything the wallet
holds, the case in which two orders hurt each other. A matched quantity reaches Polygon
later (`SettleTrades`), so the chain's balance alone still counts shares that are sold.
`tp-status` changes nothing but a pending release, which it resumes first
(`loadRawLifecycleContext` 1429, though `docs/SERVICE_CONTRACT.md:173` calls the command
read-only); `StateRelease` has that step.

### SellDesk

`RefinesDesk` maps `kept` and `desk` to the journals bound to their reservation and to the
execution lock, `sale` to the order with what has settled of it, `known` to the stages that
say what became of the order, `asked` to the cancellation recorded in the journal and `out`
to a request on its way. A file counts when its journal is bound to it, so a claim takes
effect at the attaching write; a decision counts when it is durable. The desk says that a
key has one seller, a seller sends one order, only from the seat and only when no order
rests; who rises says what became of its order, and who asked for a cancellation rises
when the order is over and every matched share has settled (`settleExecutionLock`,
`settleTakeProfitReconciliation`), or takes the request back because it was never made
or can do nothing any more (`recoverKnownUnstartedTakeProfitCancel`). A crash is a stutter.

### Journey and the code

One journey: the steps of `src/buyer-orchestrator.mjs` up to the call of `execute`, and those
of the `execute` adapters in `scripts/buyer-orchestrator.mjs` (5487-5669) and
`scripts/take-profit-orchestrator.mjs` under the execution lock. Each check is a step of its
own, and between two steps the clock ticks, the wallet changes (its link, its funds) or
another order of the owner settles.

| Steps | Code |
|---|---|
| `CheckReadiness`, `PreviewMarket`, `PayForCard`, `ValidateCard`, `PresentBounds`, `Confirm`, `Revalidate`, `FinalReadiness`, `FinalDryRun` | `runOpenJourney`, `runCloseJourney`, `runTakeProfitJourney` |
| `WaitForSecond` | TAKE_PROFIT: `waitUntil` before the second checks (1012); OPEN and CLOSE: `waitForStrictlyPostConfirmationSecond` under the lock (5507) |
| `TakeLock` | `claimExecutionLock` (5493) |
| `LockedReadiness`, `LockedDryRun` | the mode, the readiness, the card, the launch window and the dry run once more (5508-5611) |
| `MarkAttempt`, `LaunchOrder` | `markExecutionAttempted`, the last card and window, the runtime evidence, and the last `requireExecutionLaunchWindow` with the order command (5613-5661) |
| `OrderResult`, `Prove` | the live result, and the proof that must postdate the second of the confirmation |

`heldSince` collects the facts that held when the execution lock was taken or later, `launched`
is the time of the order command (after the last check of the launch window, 5657), and `fill`
what is offered as the proof. A second has `TicksPerSecond` ticks, because venue and chain tell
seconds and the buyer's clock milliseconds; they are taken to agree on the second. A `resume-close`
runs the same steps under the lock on a card that is already confirmed; that it orders nothing
twice is in `StateRelease`. The allowance of an EOA buyer, which is read once more before the
command (5646), is left out.

### CardEconomics and the code

The compilers (`intent-compiler`, `exit-intent-compiler`, `take-profit-intent-compiler`), the
buyer's validators (`validateCard`, `validateCloseCard`, `validateTakeProfitCard`) and the
verifiers (`receipt-verifier`, `exit-receipt-verifier`, `take-profit-fill-verifier`) each
compute bounds with their own formulas; all are translated, with the roundings of the
code on smaller scales (`Scale`, `Step`, `BpsScale` for 10^6, 10^4 and 10^4). The venue
settles an order in one or two pieces, honestly or not, and the evidence may be flawed.

### PaidService and the code

`call[c]` is a request to `api/service.js` or `api/manage.js`: probe or structured, with an
authorization or without, past its preflight or not. The gate (`src/service-payment.mjs`)
initializes once for all calls that wait. x402 verifies before the handler and settles after
an answer 200 only; verifying reserves nothing. `AskRefresh` and `AnswerRefresh` are
`src/open-card-refresh.mjs`: the checks of payment and window, then the awaits, then a card.

### WalletSetup, BuilderProbe and the code

`tokens` are the signed tokens of `src/wallet-setup-auth.mjs` in the order of their issue, each
with the token it was exchanged for; the server remembers only `claimed`. A request checks a
token, claims it (`SET NX EX`), posts to the relayer and records the transaction, and may be
cut off in between. `BuilderProbe` is `createBuilderAuthorizationProbe` of
`src/wallet-setup-handler.mjs`: instances read a shared record, one takes the lock and asks
the relayer, and every copy of an answer has a life of its own.

### PublicReads and the code

A step is what one Node process runs between two awaits of `publicGuard.run(() =>
cache.get(key, load))`. Both Maps are sequences in insertion order, since eviction takes the
first; what `prune` and `flush_notifications` keep of a sequence is `Kept` (`SequenceFilter`).

### Outbox and the code

`scripts/conviction_review_watch.py` and `scripts/conviction_fast_responder.py` over
`scripts/telegram_outbox.py`: `memory` is what a run holds, `disk` what it saved, `run` where it
is. An alert that was sent and not answered counts as a failure and is sent again. The
responder counts a session before it queues the reply, as the code does.

The model follows one session of the responder. `save_state` (344) keeps the newest 500
handled keys and the newest 100 session counts, so the lines of other sessions may push
this session's keys out, its count, or both: `HandleOthers` is such a line with its save, and
`forgets` counts those that forgot something. `RotateLog` starts the listener's log anew
while the responder may be running or not. At its start the responder opens the log at the saved
offset, or at the beginning if the log has become shorter (`Resumed`, 442-444); while it runs
it stays where it is in the file.

## Runs

On `MCStateRelease`. Bounds: `MaxClaims` execution-lock claims and
`MaxFaults` crashes or failed writes, in the guards of `ClaimExec`, `Crash`,
`AttachFails` and `FailRelease`.

| Run | Instance | Shows |
|---|---|---|
| `exec` | 2 paid OPEN journeys with their live processes, 2 claims, 1 fault (1.8 M states) | `TypeOK`, `ExclusiveBinding`, `BindingBacked`, `GuardBracketed`, `OneUnresolvedOrder`, `ExecLockRecoverable`, `GuardFreezes` |
| `replay` | OPEN and CLOSE with the same request identity, from the empty directory, no execution, 1 fault (66 k) | `ExclusiveBinding`, `ReplayLockTells`, `RefinesRegistry` |
| `resume` | 2 processes on one CLOSE journal, every command, 2 claims, 2 faults (480 k) | `BindingBacked`, `UnstartedNeverLaunched`, `LaunchedOnce`, `RefinesRegistry` |
| `fair` | one CLOSE, 2 processes, 1 claim, 1 fault, fairness (100 k) | `GuardEventuallyCleared`, `SettledEventuallyReleased` |
| `fair_open`, `refusal`, `orphan` | expected violations, below | |

On `MCBuyerPayment`, without bounds other than the number of journeys and operators:

| Run | Instance | Shows |
|---|---|---|
| `request` | 2 attempts at one request, 1 operator, answers name their own payment, fairness (25 k) | `ReleasedNeverCharged`, `OneChargePerRequest`, `UnusedEventuallyFreed` |
| `crash` | 1 journey, 1 operator, fairness: expected violation, below | |

On `MCTakeProfit`, `MCServices` and `MCRecords`:

| Run | Instance | Shows |
|---|---|---|
| `take_profit` | 2 journeys, 2 processes, 2 replay keys, 1 share, `MaxClaims` 2, `MaxFaults` 1, from an empty directory with one shared key or from two paid journeys (1.2 M states) | `OneOrderAtVenue`, `LaunchedKeepsReservation`, `DoubtHoldsLock`, `EndsAreTrue`, `LockHasWayOut`, `RefinesDesk` |
| `services` | one part at a time of the seven that share no state (214 k states) | `ServicesTypeOK`, `ChargedOnlyForCard`, `FreeCardsDoNotChain`, `PublicReadsSound`, `OneDeploymentPerConsent`, `ProbeAnswersFresh`, `EconomicsSound`, `SentAsConfirmed`, `ProofIsOfTheOrder`, `LockReturns` |
| `records` | `BuyerPayment` with 2 journeys of different requests, 1 operator, answers that name any payment (239 k states); or both scripts of `Outbox` with 2 messages, 2 statuses, 2 changes, 2 lines, a list of delivered alerts that holds one, 1 crash or lost answer, 1 forgetful save (1.4 M states) | `RecordsTypeOK`, `OneJourneyPerPayment`, `PaidIsClaimed`, `NothingLost`, `RepeatsAreExplained` |

In `take_profit` two claims let one journey place while the other cancels or let one order be
placed and cancelled, and one death anywhere leaves a lock behind for the other process;
`PaidInit` is a reachable state, which makes room for two journeys past their payment. With
one share an order is whole or filled; the part `take_profit` of `services` has two shares,
so that it may be filled in part, with one journey and one process that dies once.

`services` and `records` choose a part in the initial state and run only that one: the parts
are separate, share no state, and their product would multiply states without adding behaviour. The
bounds of each part make its cases happen: two calls on one authorization; three cards, so
that a refreshed card is refreshed; three reads, two keys and a cache of one entry, so
that it is full of a load in flight; two requests for one token with the clock past its
expiry; two probes with a lock that expires before the cached answer; a journey of half
seconds whose card lives for two seconds, so that a confirmation may fall on either half, every
headroom may be missed, and the wallet may change once anywhere; budgets below, at and
above the smallest order with fees, and settlements in one or two pieces. Small scales are
enough for the roundings since the formulas are the same on every scale; 6 and 3 leave
prices that divide neither.

In the scripts' part of `records` two lines let a message be logged twice or two messages
compete for the one reply of a session; one forgetful save and one doubt are enough to tell a
repeat that has an excuse from one that has none, and two changes with one remembered delivery
let an alert leave the list. The proofs are for any of these numbers.

Deadlock is not checked in `take_profit` and `services`: a finished journey, a used token and an
exhausted clock stop as they should.

Two journeys are what a second charge or a second use of a settlement needs, and
revisions already separate an operator that acts late from one that does not.
`OneChargePerRequest` is checked and proved for answers that name their own
payment: a merchant that answers one journey with the settlement of another may
let the first be resolved while its own authorization is still usable, and the
verifier, which knows payer, amount and time but no nonce, cannot tell.

Why these bounds are enough to mean something: two journeys and two processes are
what mutual exclusion, a foreign guard and a stale reader need; two claims allow
a lock to be released and claimed again with a stale process around; two faults
on one journal let recovery itself die and be recovered. `exec` starts from
`PaidInit`, a state `Spec` reaches (each live process has paid and holds its
replay lock), so that two journeys fit. `replay` sets `MaxClaims` to 0 because
execution cannot matter for a replay lock that is not yet attached. Processes are
interchangeable where they all start idle, hence the symmetry in the
safety runs `replay` and `resume`.

Deadlock is not checked on `MCStateRelease`: a directory whose journeys are finished and
whose bounds are used up has nothing left to do. On `MCBuyerPayment` and `MCRecords` it is, though the
chain can always finalize, so it says little.

Fairness. `FairSpec` assumes that a running process takes its next step (weakly
fair: nothing in the code waits for another process, a busy mutex is an error)
and that the operator starts reconciliation of each journal again and again
(strongly fair per journal: the commands are one-shot, the documentation asks
the operator to rerun them). Crashes are finitely many.

`FairSpec` of `BuyerPayment` assumes that time passes (`Lapse`), that blocks become
final (`Finalize`), that the operator reconciles every recoverable journal again and
again, one after the other, and that asking and releasing do not fail for ever
(strongly fair, since another process may hold the mutex or change the journal at any
single attempt). Nothing is assumed of the live processes, which may hang or die
anywhere, or of the merchant, which may settle or not.

`Fairness` of `TakeProfit`, the only fairness in `ServicesSpec`, assumes that a running command
goes on (no command waits for another), that the venue answers what it received, that
deadlines pass, that the operator reconciles every open journey again and again, and that
an attempt at a lookup, a sweep or a conclusion which is possible infinitely often succeeds
at last (strongly fair, since the mutex may be busy or the venue unreachable at any one
attempt). Crashes are finitely many. Two kinds of journals are excepted from `LockReturns`
(`LeftToHuman`), since no command accepts them and the code leaves them to a human: one that
stays at `attempted`, and one whose live result is neither an order id nor the single refusal
that `validateDefinitiveRejectedTakeProfitCheckpoint` (1246) takes for definitive.

### Disagreements

* `fair_open`: the OPEN proof step clears `reconciliationRequired` before the
  final release (5743, 5788); a process that dies in between leaves both locks,
  and `reconcile-open` rejects the journal because the flag is off (3414). CLOSE
  keeps the flag (5761), and `fair` passes. `docs/SERVICE_CONTRACT.md:84` promises
  that `reconcile-open` releases an OPEN with ambiguous proof delivery.
* `refusal`: when the known-unstarted recovery of a CLOSE meets a busy mutex,
  `settleExecutionLock` in the `finally` (5720) may still succeed and releases the
  lock without restoring `trade_confirmed`; `docs/SERVICE_CONTRACT.md:130` says the
  two go together. The journal is then accepted by neither `resume-close` nor
  `reconcile-close`.
* `orphan`: an execution lock published by a process that died before attaching
  it is recoverable only while its journal is unchanged; on a CLOSE that the live
  run and `resume-close` both drive, the other process may still write it. The comment
  at 1725 describes the window as recovered.
* `crash`: the write that records the authorization (5432) leaves
  `reconciliationRequired` false (118); only the catch of `main` sets it (5826), and
  `isRecoverablePaymentAuthorizationState` asks for it (2614). A process killed while it
  waits for the merchant leaves its request identity locked for ever, though
  `test/buyer-orchestrator-cli.test.mjs:2187` has every ambiguous payment reserved only
  "until finalized expiry proves it unused" (its fixture sets the flag).
  `UnusedEventuallyFreed` of the run `request` holds where the flag is set.

## Proofs

`StateReleaseProofs` proves, for any number of processes, journals, keys and
faults, from the assumptions on the constants named in `StateRelease`:

| Theorem | Statement |
|---|---|
| `LocksAgree` | `Spec => [](TypeOK /\ LockInv)` |
| `TypeCorrect` | `Spec => []TypeOK` |
| `BindingsBacked` | `Spec => []BindingBacked` |
| `BindingsExclusive` | `Spec => []ExclusiveBinding` |
| `GuardsBracketed` | `Spec => []GuardBracketed` |
| `GuardsFreeze` | `Spec => GuardFreezes` |

None of the properties is inductive alone. `BindingBacked` survives an unlink
only if the guard names exactly the lock being removed and the journal is still
at its source; it survives `WriteTarget` only if every file of the guard is gone
and the target has dropped them; and it survives another journey's claim only if
that journey finds the file absent while the binding is intact. `LockInv` collects what
is needed: `MutexInv` (a process in a multi-file section holds the mutex),
`AttachInv` (what a claim has published, and that the journal has not moved
since), `GuardInv` (a guard at its source remembers the files and the journal it
was made from, its target has dropped the released locks), `ReleaseInv` (where
the releasing process stands agrees with the guard) and `BindingBacked`.
The proof has one lemma per conjunct, each with one step per action; actions that leave
the files alone are dispatched by a shared lemma. `BindingsExclusive` follows
because two journals cannot both be backed by one file: a backing guard is
unique, and a file a guard has removed cannot be published again while its
journal is at the source.

`StateReleaseOrderProofs` goes on from there, from the same assumptions:

| Theorem | Statement |
|---|---|
| `OrdersAgree` | `Spec => [](TypeOK /\ LockInv /\ OrderInv)` |
| `UnstartedNeverLaunch` | `Spec => []UnstartedNeverLaunched` |
| `LaunchesAreUnique` | `Spec => LaunchedOnce` |
| `DirectoryIsRegistry` | `Spec => RefinesRegistry` |
| `OrphansAgree` | `Spec => [](TypeOK /\ LockInv /\ OrderInv /\ OpenInv)` |
| `OpenLocksRecoverable` | `Spec => [](locks[Exec] # None /\ locks[Exec].owner \in Opens => ExecLockRecoverable)` |
| `RequestsAgree` | `Spec => [](TypeOK /\ LockInv /\ OrderInv /\ RequestInv)` |
| `UnresolvedOrdersAreAlone` | `Spec => []OneUnresolvedOrder` |
| `ReplayLocksTell` | `Spec => []ReplayLockTells` |

A journey's order is known from two places, the stage that is durable and the checkpoint a
process holds, and either may be stale. `OrderInv` ties them together for the processes that
matter: one whose in-memory journal is still the durable one (`Holds`). `Knows` says that such
a process learns from its own step whether the order process was started; `Steady` that
between the mark of the attempt and the launch nobody else may write the journal, and no release
of it is half done; `OrderKept` and `ReleaseKept` that a started journey keeps both locks
until it is done and gives both back at once.
The refinement maps bindings to holders and `orders` to started journeys. Every action
is a stutter of the registry (`Unseen`) but for attaching, the journal write of a
release, the launch and the settlement, each of which has a lemma of its own.

`ExecLockRecoverable` fails for a CLOSE (run `orphan`); for an OPEN it is proved, whatever other
journeys do. Between publication and attachment `OpenInv` says that the lock's source is the
durable journal at `confirmed` (`OrphanKept`), that everybody who could still write that journal
only reads it, that one live process belongs to a journey (`OneLive`), and that a
reconciliation that has swept finds no orphan any more (`Swept`).

Two windows are left to a human by the code, and the proofs say what stays true in them. A process
that dies after the attempt marker (1937) leaves a journal nobody resolves, so it has to keep
both locks (`AttemptKept`), and with `ExclusiveBinding` no other journey's order is ever in doubt
beside it. A process that dies between publishing the replay lock and attaching it (1401)
leaves a file nobody removes. `ReplayTold` says that such a file still tells the truth: its
journey is at the very request that published it, with nothing bound and no order. That needs a
journey that has only been requested to have one process that may write it (`Unshared`; a
second run of a command only reads and gives up), that process to be the one that is about to
attach (`Attaching`, `Stranded`), and no release to lead back to such a stage (`Opening`);
`StageKnown` ties the step of a process to the stage it has read.

`BuyerPaymentProofs` proves, for any number of journeys, request identities and
operators and any `Named`, from the assumptions named in `BuyerPayment`:

| Theorem | Statement |
|---|---|
| `PaymentAgreement` | `Spec => []PaymentInv` |
| `PaymentTypes` | `Spec => []TypeOK` |
| `PaidJourneyIsClaimed` | `Spec => []PaidIsClaimed` |
| `SettlementPaysOnce` | `Spec => []OneJourneyPerPayment` |
| `ReleaseIsFree` | `Spec => []ReleasedNeverCharged` |
| `RequestChargedOnce` | `Spec => []OneChargePerRequest`, if `Named[j] = {j}` for every journey |

`ReleasedNeverCharged` is not inductive: a release is safe because the operator has
seen the expiry in a finalized block in which the authorization was unused, and nothing
settles after expiry. `PaymentInv` therefore says what an operator that is about to
release knows (`OperatorInv`: if the revision it read is still current the journal is
still recoverable; the authorization it asked about is lapsed and unsettled), how the
finalized block relates to the head (`ChainInv`), where a live process may stand for each stage
and how far its checkpoint may be ahead (`StageInv`, `LiveInv`, `UnsentInv`), what a claim in flight
protects (`ClaimInv`) and that one journal holds a request identity (`KeyInv`).
There is one lemma per conjunct with one step per action. A release can overtake a live
process, even one that has just claimed a transaction; `LiveInv` says that its revision is
then stale, so it can write nothing, and the authorization of the released journal was
never used. `RequestChargedOnce` follows because an outstanding journey holds its lock
(`OutstandingHoldsKey`).

`TakeProfitProofs` proves, for any number of processes, journeys, replay keys, shares, claims
and crashes, from `TakeProfitBounds` and `NoneAssumption`:

| Theorem | Statement |
|---|---|
| `TakeProfitAgrees` | `Spec => []TakeProfitInv` |
| `TakeProfitTypes` | `Spec => []TypeOK` |
| `OneSell` | `Spec => []OneOrderAtVenue` |
| `LaunchedStaysReserved` | `Spec => []LaunchedKeepsReservation` |
| `DoubtStaysLocked` | `Spec => []DoubtHoldsLock` |
| `EndsStayTrue` | `Spec => []EndsAreTrue` |

`TakeProfitInv` says where a process whose journal revision is still the durable one may
stand (`StepInv`), what a stage implies of the locks the journal is bound to (`RecordInv`),
that such a lock has its file (`BackedInv`) and what a journal knows of its order and its
payment (`OrderInv`). `OneOrderAtVenue` needs `AloneInv`: from the readiness under the
execution lock to the launch no other order exists, since any order that may still come to
rest has a journal that is bound to the only lock there is. A cancellation that
fails gives its lock back on the word of the durable journal alone, whatever revision the
process holds: `GenInv` (no two processes act under one generation) and `UnsentInv`
(a generation whose holder has not launched has sent nothing) make that safe.
`SawInv` lets a release rely on a terminal status read earlier.
The proof first reduces every action to one of four shapes (a write, a release, a move, a
change of an order), each of which keeps the invariant if the new record or step fits
what is known (`GoodWrite`, `GoodForOrder`, `GoodMove`, `GoodOrder`), then shows the fit once per
action. That every binding has its file is shown separately, by `BackedLocal`.

`TakeProfitLockProofs` adds, from the same assumptions:

| Theorem | Statement |
|---|---|
| `UnattachedLocksAgree` | `Spec => [](TakeProfitInv /\ WayOutInv)` |
| `LocksHaveWayOut` | `Spec => []LockHasWayOut` |
| `SeatsAgree` | `Spec => [](TakeProfitInv /\ DeskInv)` |
| `JourneysKeepDesk` | `Spec => RefinesDesk` |

An execution lock whose claimer died before it was attached is swept only by a process that
finds its journal exactly as the lock says. `WayOutInv` shows that nobody overwrites
that journal: its only placer is dead (`PlacerInv`, a journey is placed once and by one
process), whoever cancels or settles must be bound to the lock, and a reconciliation of a journal
that is still `confirmed` acts only after the card has expired, when no lock can be claimed for it any
more, and after it has swept (`WriterInv`).

For the refinement, `TakeProfitInv` already knows most of what the desk asks for: who holds the
seat, that the sender is alone, that an order whose journal is settled is final. `DeskInv`
adds that a journal which says what became of its order has one and that no stage before the
claim is seated (`SeatInv`), and that a launched process has an order and one that has decided
to cancel has not ended a cancellation before (`PromptInv`). Every action is a stutter of the desk
(`Unseen`) or one of its actions; one lemma per action says which and keeps `DeskInv`.

`CardProofs` proves two things. First, of `CardEconomics`, for every scale, price, fee rate and
amount, from `CardScales` (scales are positive, the cent divides the dollar, prices are below one
dollar, rates at most 100%) and `NoCardAssumption` (the mark of a refusal is not a card):

| Theorem | Statement |
|---|---|
| `EconomicsAgree` | `EconomicsSpec => [](EconomicsTypeOK /\ EconomicsInv)` |
| `EconomicsHold` | `EconomicsSpec => []EconomicsSound` |

The solvers lose themselves in products of variables, so the arithmetic is reduced to lemmas
that say what rounding means: `x \div y` is the greatest number of `y`s in `x`
(`DivGreatest`), `CeilDiv` the least that covers it (`CeilLeast`), the share quantum divides
exactly the numbers of shares whose principal is a whole cent (`QuantumFacts`, by the
least-number principle), an OPEN's principal and fee fit a budget exactly if the principal is
at most what the compiler calls affordable (`Affordable`), and what is left after a fee rounded
up never exceeds what a larger amount leaves after a fee rounded down (`NetMono`).
`EconomicsInv` says what a compiled card satisfies and which piece a venue can
settle. That the minimum a refusal names is the exact threshold, and that no larger aligned order
fits the budget, is `OpenFacts`; that a proof is just is one lemma per kind of card
(`OpenJust`, `CloseJust`, `TakeProfitJust`), the last one by comparing sums summand by
summand (`SumBound`).

Second, of `Journey`, for every kind of journey and any lives, headrooms, ticks per second and
clock, from `JourneyTimes` (the headroom under the lock is positive and not longer than the one
to launch, that not longer than the one to confirm, that not longer than a card's life):

| Theorem | Statement |
|---|---|
| `JourneyAgrees` | `JourneySpec => []JourneyInv` |
| `JourneyTypes` | `JourneySpec => []JourneyTypeOK` |
| `OrdersAreAsConfirmed` | `JourneySpec => []SentAsConfirmed` |
| `ProofsAreOfTheOrder` | `JourneySpec => []ProofIsOfTheOrder` |

The two properties speak of the launch and of the end; what carries them there is `JourneyCardInv` (a
card past validation is as asked), `ConsentInv` (the confirmation lies between the presentation
and now), `WalletInv` (under the lock the wallet of now is among what held since it was taken, and
after the readiness read there everything did), `LaunchInv`, `SecondInv` (after its wait a
journey is in a later second than its confirmation: a take-profit from its second checks on, an
OPEN or CLOSE under the lock) and `FillInv` (this order's settlement is of a later second than
the confirmation). The arithmetic is in two lemmas on seconds.

`ServicesProofs` proves, for any number of instances, requests, calls, authorizations and any
times, from `BuilderProbeBounds`, `WalletSetupBounds`, `PaidServiceBounds` and
`NoAuthAssumption` (no authorization is not an authorization nor a settlement):

| Theorem | Statement |
|---|---|
| `ProbesFresh` | `ProbeSpec => [](ProbeTypeOK /\ ProbeAnswersFresh)` |
| `ConsentsDeployOnce` | `SetupSpec => [](SetupTypeOK /\ OneDeploymentPerConsent)` |
| `ServiceKeepsAccounts` | `PaidSpec => [](PaidTypeOK /\ PaidInv)` |
| `ChargesBuyCards` | `PaidSpec => []ChargedOnlyForCard` |
| `FreeCardsAreUnchained` | `PaidSpec => []FreeCardsDoNotChain` |
| `ServicesTypes` | `ServicesSpec => []ServicesTypeOK` |
| `ServicesHold` | `ServicesSpec => []` of every other invariant of the run `services` |

`ProbeInv`: a copy of a status ends no later than the status, and whoever asks the relayer took
a lock that outlasts its beginning by `LockTtl`. `SetupInv`: tokens descend in the order of
their issue (`Descent`), a request between its check and its effect presented a token that was
issued (`Presented`), and of two children of a token one was claimed after its expiry unless
they are the same (`OneExchange`). `PaidInv`: what a call that has passed verification, handler and
settlement has of authorization and card (`CallInv`, `SettledInv`), and that a free card
is covered by a payment that settled before it was asked for (`CardInv`, `RefreshInv`).

The last two theorems are about `MCServices`, which runs one part and leaves the others as they
started: its behaviours are behaviours of every part's specification, stuttering where the part
is not chosen (`PartsRun`), so each part's theorem, from whichever proof module, carries over for
all values of the constants.

`QueueProofs` proves, for any clients, markets, messages, limits and lifetimes, from
`PublicReadsBounds`, `OutboxBounds` and `AlertIds` (the id of a reply's alert is not that of a
status alert, as the scripts' prefixes see to):

| Theorem | Statement |
|---|---|
| `ReadsKeepCount` | `ReadsSpec => [](ReadsTypeOK /\ ReadsInv)` |
| `PublicReadsAreSound` | `ReadsSpec => []PublicReadsSound` |
| `OutboxAgrees` | `OutboxSpec => [](OutboxTypeOK /\ OutboxInv)` |
| `NothingIsLost` | `OutboxSpec => []NothingLost` (alerts and lines) |
| `RepeatsHaveReasons` | `OutboxSpec => []RepeatsAreExplained` |

Both keep sequences and filter them. `SelectSeq` takes an operator and is closed to the prover; `Kept` is
a recursive function, whose existence and meaning (`FilterExists`, `KeptFacts`: what stays is what
belongs, in its order, and it is shorter if anything goes) are shown by the least-number
principle instead of an induction theorem. `ReadsInv` counts the waiting requests as a
set, keeps one window per client and one entry per market, and says of each load in the cache which
reads wait for it (`EntryOk`). In `OutboxInv`, an alert or a reply that may still be sent was sent only
as often as a doubt arose or, for a reply, a save forgot (`AlertsOk`, `ReplyInv`), and what is saved agrees with what was sent,
except inside the steps between sending and saving (`Replying`, `LineInv`).

Only model-checked: the liveness properties (`GuardEventuallyCleared`, `SettledEventuallyReleased`,
`UnusedEventuallyFreed`, `LockReturns`), which the prover cannot do; `ExecLockRecoverable` for a mix with CLOSE, which does not hold; and the runs that show
disagreements.

## Plan

Done: the state directory with its registry, the payment, the take-profit journey, the
order of a journey's steps, the economics of cards, the services and the operator scripts;
proofs of every safety invariant and action property that the passing runs check
(`ExecLockRecoverable` for OPEN journeys, `OneChargePerRequest` for answers that name their own
payment), and of both refinements. What a continuation would take up:

1. The release guard of a take-profit journey file by file, which `TakeProfit` takes as one
   step on the word of `StateRelease`: one module over both kinds of journals would show it.
2. An abstract specification of the payment (one charge, one card or a free request), with
   `BuyerPayment` and `PaidService` as its two sides.

## Not modelled, and why

* Signatures, hashing, JSON shapes, file modes and paths: conversions and checks
  of data; a mismatch is an error path that is in the model as a refusal.
* Decoding of logs, pagination, RPC quorum and the finality of single receipts: network I/O
  without state. What the callers conclude from them is in the callers' modules, and whether
  accepted amounts prove the card is in `CardEconomics`.
* The preparation of an EOA wallet, the shape checks of the relayer proxy, market
  resolution, book depth and canonical texts: they keep no state.
* The public routes without a cache: the guard in front of them is in `PublicReads`.
* The browser pages: their state is what a page shows, and every step that
  cannot be undone goes through a route or a command that is modelled.
* Acceptance gates, installers and the site build: they run once and keep nothing.
* The window between `assertAlive` and the system call that follows when the
  mutex helper process dies: the code cannot close it and no property holds in it.
* Legacy journals and lock files without a generation.
* An `offset` of null (the responder's first start, which skips what the log holds already) and
  more than one session of the responder at a time: the others are `HandleOthers`.

Behaviour that the models have and that no property judges, since the code leaves it to a
human or accepts it:

* A replay lock, or a take-profit reservation file, whose claimer died before attaching it
  stays for ever (`buyer-orchestrator.mjs` 1401, `take-profit-orchestrator.mjs` 228). Of the
  former `ReplayLockTells` says what it means, not that it goes.
* A process that dies after the attempt marker and before the result leaves a journal that
  says `attempted`, for OPEN and CLOSE (1937) as for TAKE_PROFIT (2984). `OneUnresolvedOrder`
  says that it stays alone with both locks, not that it ever ends.
* A take-profit whose persisted live result is `ok: false` with another code or text than
  `DEFINITIVE_GTD_REJECTION`, or `ok: true` without an order id: `reconcile-tp` throws on every
  run (1246-1279, 1309-1342), and the execution lock, which every later journey needs, stays.
  `DoubtHoldsLock` says that it stays with its journal, `LockReturns` excepts it.
* A take-profit order that was submitted and not acknowledged keeps the execution lock, so
  that `cancel-tp`, which claims it, is refused until `reconcile-tp` knows the order (2366).
* A paid call whose answer is lost after the settlement has been charged and has no card
  (`service-payment.mjs`): `ChargedOnlyForCard` says that the card was issued.
* A relayer handler cut off after the post and before the record
  (`wallet-relayer-handler.mjs` 196): the deployment is found on Polygon only.
* A failed rollback of a transaction claim (2500) and a death while the signer runs (5399)
  leave a claim file and a reserved identity.
* A card may expire while the order process that was started in its window is running;
  `SentAsConfirmed` is about the start of that process, which follows the last check of the window
  (5657) without an await.
* A reply that could not be queued is not retried: the responder counted the session first.
* A session that 100 newer ones, or a message that 500 newer keys have pushed out of the responder's
  state, is answered again: `RepeatsAreExplained` allows one more reply for each such save.
* A listener log that was started anew and has grown past the saved offset before the responder starts
  is read from there, and what stands before is passed over; `NoLineSkipped` is about a log
  until it is first rotated.
