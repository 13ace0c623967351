----------------------------- MODULE TakeProfit -----------------------------
(***************************************************************************)
(* The TAKE_PROFIT journeys of scripts/take-profit-orchestrator.mjs over   *)
(* src/take-profit-lifecycle.mjs: a buyer pays, receives a card, confirms, *)
(* and places one post-only order that rests at the venue until it is      *)
(* filled, cancelled or expired, long after the placing process is gone.   *)
(* `cancel-tp` and `reconcile-tp` act on the journal it left.              *)
(*                                                                         *)
(* Processes share one state directory: a journal per journey, written by  *)
(* compare-and-swap on its revision, a reservation file per replay key and *)
(* the global execution lock.  Their critical sections are serialised by   *)
(* the kernel mutex, and a release interrupted between guard and journal   *)
(* is completed before the next command reads the journal; module          *)
(* StateRelease shows both, so a claim or a release is one step here.      *)
(***************************************************************************)
EXTENDS Naturals, FiniteSets

CONSTANTS
    Procs,       \* processes of the buyer's machine
    Journals,    \* TAKE_PROFIT journeys, all selling the same outcome token
    Keys,        \* replay keys: source position, shares, target and expiry
    Shares,      \* shares each journey offers, all that the wallet holds
    None,        \* no file, no journey, no key
    MaxClaims,   \* bound on execution-lock claims
    MaxFaults    \* bound on crashes

ASSUME TakeProfitBounds == Shares \in Nat \ {0} /\ MaxClaims \in Nat /\ MaxFaults \in Nat

(* classifyExactOrder: the status of an order as the venue reports it.     *)
Partial == {"PARTIAL", "PARTIAL_CANCELED", "PARTIAL_EXPIRED"}
Statuses == {"ARMED", "UNKNOWN", "CANCELED", "EXPIRED", "FILLED"} \cup Partial

TerminalStatuses == Statuses \ {"ARMED", "UNKNOWN", "PARTIAL"}

(* Stages of a journal, by what the code calls them:                       *)
(*   starting, created, ambiguous: payment_authorization_starting/_created *)
(*     and paid_request_ambiguous;  withdrawn: .._failed_before_replay     *)
(*   verified, confirmed: payment_verified, trade_confirmed                *)
(*   locked, attempted: execution_lock_acquired, execution_attempted       *)
(*   blocked: execution_blocked_before_launch;  result: live_result_received *)
(*   unused, expired, rejected: the three stages ending in _reconciled     *)
Stages == {"fresh", "requested", "starting", "created", "ambiguous", "withdrawn",
           "verified", "confirmed", "locked", "attempted", "blocked", "result",
           "armed", "submitted", "unused", "expired", "rejected"}

AuthorizationStages == {"starting", "created", "ambiguous"}
Placed == {"armed", "submitted"}

(* Phases of cancelExecution. *)
Active == {"lock_acquired", "attempted"}
Phases == Active \cup {"none", "expired_unattempted", "pre_spawn_failed", "terminal"}

(* The persisted live result: an order id, the one refusal that the code   *)
(* takes for definitive, or anything else: ok:false of another kind, or    *)
(* ok:true without an order id.                                            *)
LiveReplies == {"none", "accepted", "rejected", "unclear"}

JournalRecord ==
    [key: Keys, stage: Stages, bound: SUBSET {"reservation", "exec"},
     gen: Nat, needs: BOOLEAN, signed: BOOLEAN, reply: LiveReplies,
     initial: Statuses \cup {None}, recovery: {"none", "pending", "released"}, cancel: Phases]

Reservation == [owner: Journals, progressed: BOOLEAN]
(* source: the exact journal state the lock was published from. *)
ExecLock == [owner: Journals, gen: Nat, source: JournalRecord]
VenueOrder == [state: {"none", "sent", "live", "refused", "canceled", "expired", "filled"},
               matched: 0..Shares, settled: 0..Shares, canceling: BOOLEAN]

Steps == {"idle", "asked", "signing", "signed", "paid", "ready", "locked", "checked",
          "marked", "launched", "returned", "fetched", "passported",
          "progressed", "settling", "failing", "judging", "swept", "refetched",
          "recovered", "known", "prompted", "claimed", "cancelMarked", "canceling",
          "canceled", "judged", "outcome"}

(* A process: its step, its journey, whether the journal revision it holds *)
(* is still the durable one, the lock generation and the order status it   *)
(* holds in memory.                                                        *)
Process == [pc: Steps, at: Journals \cup {None}, current: BOOLEAN, gen: Nat, saw: Statuses \cup {None}]

ASSUME NoneAssumption ==
    None \notin Journals /\ None \notin Statuses /\ None \notin Reservation /\ None \notin ExecLock

VARIABLES
    journal,    \* the durable journals
    reserved,   \* the reservation file of each key
    exec,       \* the execution-lock file
    proc,       \* what each process is doing
    order,      \* each journey's order at the venue and on Polygon
    payment,    \* each payment authorization: not sent, sent, or used
    elapsed,    \* the deadlines of each journey that have passed
    claims,     \* number of execution-lock claims so far
    faults      \* number of crashes so far

diskVars == <<journal, reserved, exec>>
worldVars == <<order, payment, elapsed>>
countVars == <<claims, faults>>
vars == <<diskVars, proc, worldVars, countVars>>

-----------------------------------------------------------------------------
(* Helpers *)

FreshJournal(k) == [key |-> k, stage |-> "fresh", bound |-> {}, gen |-> 0,
                 needs |-> FALSE, signed |-> FALSE, reply |-> "none", initial |-> None,
                 recovery |-> "none", cancel |-> "none"]

Idle == [pc |-> "idle", at |-> None, current |-> FALSE, gen |-> 0, saw |-> None]

Mine(p) == journal[proc[p].at]

Current(p) == proc[p].current

Passed(j, deadline) == deadline \in elapsed[j]

(* The process goes on, forgetting everything when it ends.                *)
Become(p, next) == proc' = [proc EXCEPT ![p] = IF next.pc = "idle" THEN Idle ELSE next]

Goto(p, step) == Become(p, [proc[p] EXCEPT !.pc = step])

(* The journal becomes next; what other processes read of it is stale.     *)
Put(p, next, step) ==
    /\ journal' = [journal EXCEPT ![proc[p].at] = next]
    /\ proc' = [q \in Procs |->
                   IF q = p THEN IF step = "idle" THEN Idle
                                 ELSE [proc[p] EXCEPT !.pc = step, !.current = TRUE, !.gen = next.gen]
                   ELSE IF proc[q].at = proc[p].at THEN [proc[q] EXCEPT !.current = FALSE]
                   ELSE proc[q]]

(* writeTakeProfitState, under compare-and-swap on the revision read.      *)
Write(p, next, step) == Current(p) /\ Put(p, next, step)

Stage(p, stage) == [Mine(p) EXCEPT !.stage = stage]

OwnsReservation(j) ==
    /\ "reservation" \in journal[j].bound
    /\ reserved[journal[j].key] # None
    /\ reserved[journal[j].key].owner = j

OwnsExec(j) ==
    /\ "exec" \in journal[j].bound
    /\ exec # None
    /\ exec.owner = j
    /\ exec.gen = journal[j].gen

Unbound(record, fields) ==
    [record EXCEPT !.bound = @ \ fields, !.gen = IF "exec" \in fields THEN 0 ELSE @]

(* releaseReconciledLocks: the files of the selected locks are unlinked    *)
(* together with the journal's transition to next.                         *)
Release(p, fields, next, step) ==
    /\ "exec" \in fields => OwnsExec(proc[p].at)
    /\ "reservation" \in fields => OwnsReservation(proc[p].at)
    /\ exec' = IF "exec" \in fields THEN None ELSE exec
    /\ reserved' = IF "reservation" \in fields
                   THEN [reserved EXCEPT ![Mine(p).key] = None] ELSE reserved
    /\ Write(p, Unbound(next, fields), step)

(* The live result is durable, with its order id, and its passport is not  *)
(* yet (validatePrePassportTakeProfitJournal).                             *)
PrePassport(j) == journal[j].stage = "result" /\ journal[j].reply = "accepted"

(* What the exact-order lookup and the fill verifier tell of j's order.    *)
Classify(j) ==
    LET o == order[j]
    IN  CASE o.matched = Shares -> "FILLED"
          [] o.matched > 0 /\ o.state = "canceled" -> "PARTIAL_CANCELED"
          [] o.matched > 0 /\ o.state = "expired" -> "PARTIAL_EXPIRED"
          [] o.matched > 0 -> "PARTIAL"
          [] o.state = "canceled" -> "CANCELED"
          [] o.state = "expired" -> "EXPIRED"
          [] OTHER -> IF Passed(j, "venue") THEN "UNKNOWN" ELSE "ARMED"

Finalized(j) == order[j].settled = order[j].matched

(* Mutation: only a filled order ends the wait.                            *)
ResolvedWhenFilled(p) == proc[p].saw = "FILLED" /\ Finalized(proc[p].at)

(* Mutation: what was matched need not have settled.                       *)
ResolvedAtVenue(p) == proc[p].saw \in TerminalStatuses

(* takeProfitReconciliationResolved. *)
Resolved(p) == proc[p].saw \in TerminalStatuses /\ Finalized(proc[p].at)

(* What the plugin and the CLOB report before a placement: the balance on  *)
(* Polygon covers the shares, and no selected-token SELL rests.            *)
Resting(j) == order[j].state = "live"

(* Mutation: the reservations of other orders are not looked at.           *)
SellableByBalance == \A j \in Journals : order[j].settled = 0

Sellable == \A j \in Journals : order[j].settled = 0 /\ ~Resting(j)

-----------------------------------------------------------------------------
(* Placement: payment, card, consent *)

Init ==
    /\ journal \in [Journals -> {FreshJournal(k) : k \in Keys}]
    /\ reserved = [k \in Keys |-> None]
    /\ exec = None
    /\ proc = [p \in Procs |-> Idle]
    /\ order = [j \in Journals |-> [state |-> "none", matched |-> 0, settled |-> 0, canceling |-> FALSE]]
    /\ payment = [j \in Journals |-> "unsent"]
    /\ elapsed = [j \in Journals |-> {}]
    /\ claims = 0
    /\ faults = 0

(* take-profit: readiness, preview and position checked, challenge asked.  *)
Start(p, j) ==
    /\ proc[p] = Idle
    /\ journal[j].stage = "fresh"
    /\ Sellable
    /\ journal' = [journal EXCEPT ![j].stage = "requested"]
    /\ Become(p, [Idle EXCEPT !.pc = "asked", !.at = j, !.current = TRUE])
    /\ UNCHANGED <<reserved, exec, worldVars, countVars>>

Free(k) == reserved[k] = None

ReservedBy(p) == [reserved EXCEPT ![Mine(p).key] = [owner |-> proc[p].at, progressed |-> FALSE]]

ClaimReservation(p) ==
    /\ proc[p].pc = "asked"
    /\ Free(Mine(p).key)
    /\ reserved' = ReservedBy(p)
    /\ Write(p, [Stage(p, "starting") EXCEPT !.bound = {"reservation"}, !.needs = TRUE], "signing")
    /\ UNCHANGED <<exec, worldVars, countVars>>

(* The process dies between the reservation file and its attachment.       *)
ClaimReservationDies(p) ==
    /\ proc[p].pc = "asked"
    /\ Free(Mine(p).key)
    /\ Current(p)
    /\ faults < MaxFaults
    /\ faults' = faults + 1
    /\ reserved' = ReservedBy(p)
    /\ Goto(p, "idle")
    /\ UNCHANGED <<journal, exec, worldVars, claims>>

Sign(p) ==
    /\ proc[p].pc = "signing"
    /\ Write(p, [Stage(p, "created") EXCEPT !.signed = TRUE], "signed")
    /\ UNCHANGED <<reserved, exec, worldVars, countVars>>

(* The signer fails or signs for another payer: nothing was sent.          *)
SignFails(p) ==
    /\ proc[p].pc = "signing"
    /\ Current(p)
    /\ Release(p, {"reservation"}, [Stage(p, "withdrawn") EXCEPT !.needs = FALSE], "failing")
    /\ UNCHANGED <<worldVars, countVars>>

(* The authorization leaves the machine; it may settle with the response,  *)
(* later, or never, but not after its validBefore.                         *)
SendPayment(p) ==
    /\ proc[p].pc = "signed"
    /\ payment' = [payment EXCEPT ![proc[p].at] = "sent"]
    /\ Goto(p, "paid")
    /\ UNCHANGED <<diskVars, order, elapsed, countVars>>

SettlePayment(j) ==
    /\ payment[j] = "sent"
    /\ ~Passed(j, "auth")
    /\ payment' = [payment EXCEPT ![j] = "used"]
    /\ UNCHANGED <<diskVars, proc, order, elapsed, countVars>>

(* persistSuccessfulPaidServiceResponse and persistVerifiedPaidService-    *)
(* Payment on success, paid_request_ambiguous on any other response.       *)
ReceiveCard(p) ==
    /\ proc[p].pc = "paid"
    /\ \/ payment[proc[p].at] = "used" /\ Write(p, [Stage(p, "verified") EXCEPT !.needs = TRUE], "ready")
       \/ Write(p, [Stage(p, "ambiguous") EXCEPT !.needs = TRUE], "failing")
    /\ UNCHANGED <<reserved, exec, worldVars, countVars>>

(* The typed trade confirmation is durable before anything is locked.      *)
ConfirmTrade(p) ==
    /\ proc[p].pc = "ready"
    /\ Mine(p).stage = "verified"
    /\ ~Passed(proc[p].at, "card")
    /\ Write(p, Stage(p, "confirmed"), "ready")
    /\ UNCHANGED <<reserved, exec, worldVars, countVars>>

-----------------------------------------------------------------------------
(* Placement: the execution lock and the live order *)

(* claimExecutionLock, without the exclusive create.                       *)
Claimable(p, deadline) ==
    /\ Current(p)
    /\ "exec" \notin Mine(p).bound
    /\ ~Passed(proc[p].at, deadline)

NewExec(p) == [owner |-> proc[p].at, gen |-> claims + 1, source |-> Mine(p)]

ClaimExec(p) ==
    /\ proc[p].pc = "ready"
    /\ Mine(p).stage = "confirmed"
    /\ Sellable
    /\ Claimable(p, "card")
    /\ exec = None
    /\ claims < MaxClaims
    /\ claims' = claims + 1
    /\ exec' = NewExec(p)
    /\ Write(p, [Stage(p, "locked") EXCEPT !.bound = @ \cup {"exec"}, !.gen = claims + 1], "locked")
    /\ UNCHANGED <<reserved, worldVars, faults>>

(* The process dies with the lock published and not attached: for a        *)
(* placement ("ready") as for a cancellation ("prompted").                 *)
ClaimDies(p) ==
    /\ proc[p].pc \in {"ready", "prompted"}
    /\ Mine(p).stage \in Placed \cup {"confirmed"}
    /\ Claimable(p, IF proc[p].pc = "ready" THEN "card" ELSE "venue")
    /\ exec = None
    /\ claims < MaxClaims
    /\ faults < MaxFaults
    /\ claims' = claims + 1
    /\ faults' = faults + 1
    /\ exec' = NewExec(p)
    /\ Goto(p, "idle")
    /\ UNCHANGED <<journal, reserved, worldVars>>

(* The claim is refused: the journey is blocked before launch.             *)
ClaimRefused(p) ==
    /\ proc[p].pc = "ready"
    /\ Mine(p).stage = "confirmed"
    /\ exec # None \/ Passed(proc[p].at, "card")
    /\ Write(p, [Stage(p, "blocked") EXCEPT !.needs = TRUE], "failing")
    /\ UNCHANGED <<reserved, exec, worldVars, countVars>>

(* Readiness, card and dry run once more, under the lock.                  *)
CheckLocked(p) ==
    /\ proc[p].pc = "locked"
    /\ Sellable
    /\ ~Passed(proc[p].at, "card")
    /\ Goto(p, "checked")
    /\ UNCHANGED <<diskVars, worldVars, countVars>>

MarkAttempted(p) ==
    /\ proc[p].pc = "checked"
    /\ OwnsExec(proc[p].at)
    /\ ~Passed(proc[p].at, "card")
    /\ Write(p, Stage(p, "attempted"), "marked")
    /\ UNCHANGED <<reserved, exec, worldVars, countVars>>

(* The runtime checkpoint is written once more and the live command starts *)
(* (onStart): from here on an order may come to exist.                     *)
Launch(p) ==
    /\ proc[p].pc = "marked"
    /\ ~Passed(proc[p].at, "card")
    /\ Write(p, Mine(p), "launched")
    /\ order' = [order EXCEPT ![proc[p].at].state = "sent"]
    /\ UNCHANGED <<reserved, exec, payment, elapsed, countVars>>

(* Mutation: a failure after the start of the command counts as before it. *)
PreSpawnWhenever == {"locked", "checked", "marked", "launched"}

PreSpawn == {"locked", "checked", "marked"}

(* markTakeProfitPreSpawnFailure: whatever fails before the order command  *)
(* started clears the attempt markers ...                                  *)
PreSpawnFailure(p) ==
    /\ proc[p].pc \in PreSpawn
    /\ Write(p, [Stage(p, "blocked") EXCEPT !.needs = TRUE], "settling")
    /\ UNCHANGED <<reserved, exec, worldVars, countVars>>

(* ... and settleExecutionLock gives the lock back.                        *)
SettlePrelaunch(p) ==
    /\ proc[p].pc = "settling"
    /\ Release(p, {"exec"}, Mine(p), "failing")
    /\ UNCHANGED <<worldVars, countVars>>

(* The plugin's answer is durable, whatever it says.  Only a refused order *)
(* is reported as definitively refused, and only one that exists has an id. *)
PersistResult(p) ==
    /\ proc[p].pc = "launched"
    /\ order[proc[p].at].state # "sent"
    /\ \E reply \in {"unclear", IF order[proc[p].at].state = "refused" THEN "rejected" ELSE "accepted"} :
          Write(p, [Stage(p, "result") EXCEPT !.reply = reply], "returned")
    /\ UNCHANGED <<reserved, exec, worldVars, countVars>>

(* fetchExactOrderWithPropagation, by the placing process and by a         *)
(* reconcile that finds a live result without its passport.                *)
Fetch(p, step) == Become(p, [proc[p] EXCEPT !.pc = step, !.saw = Classify(proc[p].at)])

FetchExactOrder(p) ==
    /\ proc[p].pc \in {"returned", "judging"}
    /\ PrePassport(proc[p].at)
    /\ \/ proc[p].pc = "returned" /\ Fetch(p, "fetched")
       \/ proc[p].pc = "judging" /\ Fetch(p, "refetched")
    /\ UNCHANGED <<diskVars, worldVars, countVars>>

(* The passport binds the order's first fetched status; the journal is     *)
(* armed only when nothing was matched and the order still rested.         *)
Passport(p) ==
    [Stage(p, IF proc[p].saw = "ARMED" THEN "armed" ELSE "submitted") EXCEPT
        !.initial = proc[p].saw, !.needs = TRUE]

PersistPassport(p) ==
    /\ proc[p].pc = "fetched"
    /\ Write(p, Passport(p), "passported")
    /\ UNCHANGED <<reserved, exec, worldVars, countVars>>

(* progressTakeProfitReservation: the reservation file is bound to the     *)
(* order, once; a repetition finds it already exact.                       *)
Progressed(p) ==
    /\ OwnsReservation(proc[p].at)
    /\ reserved' = [reserved EXCEPT ![Mine(p).key].progressed = TRUE]

ProgressReservation(p) ==
    /\ proc[p].pc = "passported"
    /\ Progressed(p)
    /\ Goto(p, IF Mine(p).stage = "armed" THEN "progressed" ELSE "idle")
    /\ UNCHANGED <<journal, exec, worldVars, countVars>>

SettleArmed(p) ==
    /\ proc[p].pc = "progressed"
    /\ Release(p, {"exec"}, [Mine(p) EXCEPT !.needs = FALSE], "idle")
    /\ UNCHANGED <<worldVars, countVars>>

(* The last checkpoint of a failed run; a lost compare-and-swap skips it.  *)
FinalCheckpoint(p) ==
    IF Current(p)
    THEN Write(p, [Mine(p) EXCEPT !.needs = Mine(p).signed \/ "reservation" \in Mine(p).bound], "idle")
    ELSE Goto(p, "idle") /\ UNCHANGED journal

(* A step fails, a prompt is declined, or a compare-and-swap is lost.      *)
GiveUp(p) ==
    /\ \/ proc[p].pc \in {"asked", "ready", "failing", "launched", "returned", "fetched",
                          "passported", "progressed"}
       \/ proc[p].pc \in PreSpawn \cup {"settling"} /\ ~Current(p)
    /\ FinalCheckpoint(p)
    /\ UNCHANGED <<reserved, exec, worldVars, countVars>>

-----------------------------------------------------------------------------
(* cancel-tp *)

(* The order is shown and, up to two minutes later, the phrase is typed.   *)
PromptCancel(p, j) ==
    /\ proc[p] = Idle
    /\ journal[j].stage \in Placed
    /\ Resting(j)
    /\ ~Passed(j, "venue")
    /\ Become(p, [Idle EXCEPT !.pc = "prompted", !.at = j, !.current = TRUE])
    /\ UNCHANGED <<diskVars, worldVars, countVars>>

ClaimCancel(p) ==
    /\ proc[p].pc = "prompted"
    /\ Claimable(p, "venue")
    /\ exec = None
    /\ claims < MaxClaims
    /\ claims' = claims + 1
    /\ exec' = NewExec(p)
    /\ Write(p, [Mine(p) EXCEPT !.cancel = "lock_acquired", !.needs = TRUE,
                                !.bound = @ \cup {"exec"}, !.gen = claims + 1], "claimed")
    /\ elapsed' = [elapsed EXCEPT ![proc[p].at] = @ \ {"launch"}]
    /\ UNCHANGED <<reserved, order, payment, faults>>

(* launchExpiresAt: two minutes after the phrase, never past venue expiry. *)
LaunchClosed(j) == Passed(j, "launch") \/ Passed(j, "venue")

(* markTakeProfitCancelAttempted. *)
MarkCancelAttempted(p) ==
    /\ proc[p].pc = "claimed"
    /\ OwnsReservation(proc[p].at)
    /\ OwnsExec(proc[p].at)
    /\ ~LaunchClosed(proc[p].at)
    /\ Write(p, [Mine(p) EXCEPT !.cancel = "attempted"], "cancelMarked")
    /\ UNCHANGED <<reserved, exec, worldVars, countVars>>

LaunchCancel(p) ==
    /\ proc[p].pc = "cancelMarked"
    /\ ~LaunchClosed(proc[p].at)
    /\ Write(p, Mine(p), "canceling")
    /\ order' = [order EXCEPT ![proc[p].at].canceling = TRUE]
    /\ UNCHANGED <<reserved, exec, payment, elapsed, countVars>>

PersistCancelResult(p) ==
    /\ proc[p].pc = "canceling"
    /\ ~order[proc[p].at].canceling
    /\ Write(p, Mine(p), "canceled")
    /\ UNCHANGED <<reserved, exec, worldVars, countVars>>

(* What the lookup after the fact finds, which may be nothing.             *)
Observe(p, step) ==
    \E status \in {Classify(proc[p].at), "UNKNOWN"} :
        Become(p, [proc[p] EXCEPT !.pc = step, !.saw = status])

FetchAfterCancel(p) ==
    /\ proc[p].pc = "canceled"
    /\ Observe(p, "judged")
    /\ UNCHANGED <<diskVars, worldVars, countVars>>

(* The outcome is durable, and still in need of reconciliation, before the *)
(* lock goes.                                                              *)
RecordOutcome(p) ==
    /\ proc[p].pc = "judged"
    /\ Write(p, [Mine(p) EXCEPT !.needs = TRUE], "outcome")
    /\ UNCHANGED <<reserved, exec, worldVars, countVars>>

(* Mutation: every release writes a phase that no reader knows.            *)
CancelEndsAs(p, phase) == [Mine(p) EXCEPT !.cancel = "released", !.needs = FALSE]

(* The phase and flag a release of a cancellation commits.                 *)
CancelEnds(p, phase) == [Mine(p) EXCEPT !.cancel = phase, !.needs = FALSE]

(* settleExecutionLock: the lock is kept unless the order is terminal and  *)
(* what it matched is proved final.                                        *)
SettleCancel(p) ==
    /\ proc[p].pc = "outcome"
    /\ IF Resolved(p)
       THEN Release(p, {"exec"}, CancelEnds(p, "terminal"), "idle")
       ELSE Goto(p, "idle") /\ UNCHANGED diskVars
    /\ UNCHANGED <<worldVars, countVars>>

(* The failing process looks at the durable journal: only a cancellation   *)
(* that is still its own, by lock generation, is its to settle.            *)
LocallyOwned(p) == Mine(p).cancel \in Active /\ "exec" \in Mine(p).bound /\ Mine(p).gen = proc[p].gen

(* Mutation: failing after the command started counts as failing before.   *)
CancelUnstartedWhenever == {"claimed", "cancelMarked", "canceling", "canceled", "judged"}

CancelUnstarted == {"claimed", "cancelMarked"}

(* recoverKnownUnstartedTakeProfitCancel before the command, an ambiguous  *)
(* cancelError after it, nothing when the claim itself was refused.        *)
CancelFails(p) ==
    /\ proc[p].pc \in {"prompted", "canceling", "canceled", "judged", "outcome"} \cup CancelUnstarted
    /\ IF ~LocallyOwned(p)
       THEN Goto(p, "idle") /\ UNCHANGED diskVars
       ELSE IF proc[p].pc \in CancelUnstarted
       THEN /\ OwnsExec(proc[p].at)
            /\ Put(p, Unbound(CancelEnds(p, "pre_spawn_failed"), {"exec"}), "idle")
            /\ exec' = None
            /\ UNCHANGED reserved
       ELSE Put(p, [Mine(p) EXCEPT !.needs = TRUE], "idle") /\ UNCHANGED <<reserved, exec>>
    /\ UNCHANGED <<worldVars, countVars>>

-----------------------------------------------------------------------------
(* reconcile-tp *)

(* Paid, and proven never to have started an order.                        *)
Unstarted == {"verified", "confirmed", "locked", "blocked"}

(* Journals a reconcile may change, as they and the clock are read first:  *)
(* an authorization that asks for it, an unstarted or rejected journey     *)
(* after its card expired, a live result without a passport, and a placed  *)
(* order with a lock to give back.  The others are refused or reported.    *)
AuthorizationOnly(j) == journal[j].needs /\ journal[j].stage \in AuthorizationStages

PaidUnstarted(j) == journal[j].needs /\ journal[j].stage \in Unstarted

(* validateDefinitiveRejectedTakeProfitCheckpoint: SELL_FAILED with the    *)
(* exact text about the expiration of GTD orders, and nothing else.        *)
DefinitivelyRejected(j) == journal[j].stage = "result" /\ journal[j].reply = "rejected"

Reconcilable(j) ==
    \/ AuthorizationOnly(j)
    \/ (PaidUnstarted(j) \/ DefinitivelyRejected(j)) /\ Passed(j, "card")
    \/ PrePassport(j)
    \/ journal[j].stage \in Placed /\ exec # None /\ exec.owner = j

Reconcile(p, j) ==
    /\ proc[p] = Idle
    /\ Reconcilable(j)
    /\ Become(p, [Idle EXCEPT !.pc = "judging", !.at = j, !.current = TRUE])
    /\ UNCHANGED <<diskVars, worldVars, countVars>>

(* A definitive pre-order rejection: only the execution lock is given back *)
(* and the reservation stays.                                              *)
ReconcileRejected(p) ==
    /\ proc[p].pc = "judging"
    /\ DefinitivelyRejected(proc[p].at)
    /\ OwnsReservation(proc[p].at)
    /\ Release(p, {"exec"}, [Stage(p, "rejected") EXCEPT !.needs = FALSE], "idle")
    /\ UNCHANGED <<worldVars, countVars>>

(* Mutation: the buyer's clock is enough, the chain is not asked.          *)
ExpiredByClock(j) == Passed(j, "auth")

(* A finalized block past validBefore shows the authorization unused.      *)
ExpiredUnused(j) == Passed(j, "auth") /\ payment[j] # "used"

ReconcileAuthorization(p) ==
    /\ proc[p].pc = "judging"
    /\ Mine(p).stage \in AuthorizationStages
    /\ Mine(p).signed
    /\ ExpiredUnused(proc[p].at)
    /\ Release(p, {"reservation"}, [Stage(p, "unused") EXCEPT !.needs = FALSE], "idle")
    /\ UNCHANGED <<worldVars, countVars>>

(* reconcileUnattachedExecutionLock: the lock this exact journal state     *)
(* published and never attached is unlinked; another journey's is not ours. *)
Sweep(p) ==
    /\ proc[p].pc = "judging"
    /\ Mine(p).stage \in Placed \cup {"confirmed"}
    /\ IF "exec" \in Mine(p).bound \/ exec = None \/ exec.owner # proc[p].at
       THEN UNCHANGED exec
       ELSE Current(p) /\ exec.source = Mine(p) /\ exec' = None
    /\ Goto(p, "swept")
    /\ UNCHANGED <<journal, reserved, worldVars, countVars>>

(* Mutation: a confirmed journey is released before its unattached lock.   *)
LooksUnstartedFirst(p) == proc[p].pc \in {"judging", "swept"}

(* A confirmed journey may have published a lock: that is swept first.     *)
LooksUnstarted(p) ==
    /\ proc[p].pc \in {"judging", "swept"}
    /\ proc[p].pc = "swept" <=> Mine(p).stage = "confirmed"

(* Once the card has expired, everything such a journey holds is released. *)
ReconcileUnstarted(p) ==
    /\ LooksUnstarted(p)
    /\ Mine(p).stage \in Unstarted
    /\ Release(p, Mine(p).bound, [Stage(p, "expired") EXCEPT !.needs = FALSE], "idle")
    /\ UNCHANGED <<worldVars, countVars>>

(* recoverPrePassportTakeProfitJournal: the persisted live result is bound *)
(* to the order fetched now; the reservation and the lock must be its own. *)
RecoverPassport(p) ==
    /\ proc[p].pc = "refetched"
    /\ OwnsReservation(proc[p].at)
    /\ OwnsExec(proc[p].at)
    /\ Write(p, [Passport(p) EXCEPT !.recovery = "pending"], "recovered")
    /\ UNCHANGED <<reserved, exec, worldVars, countVars>>

TrackRecovered(p) ==
    /\ proc[p].pc = "recovered"
    /\ Progressed(p)
    /\ Goto(p, "known")
    /\ UNCHANGED <<journal, exec, worldVars, countVars>>

(* A cancellation that was claimed and not attempted ends with its launch  *)
(* window.                                                                 *)
ReconcileCancel(p) ==
    /\ proc[p].pc = "swept"
    /\ Mine(p).stage \in Placed
    /\ Mine(p).cancel = "lock_acquired"
    /\ LaunchClosed(proc[p].at)
    /\ OwnsReservation(proc[p].at)
    /\ Release(p, {"exec"}, CancelEnds(p, "expired_unattempted"), "idle")
    /\ UNCHANGED <<worldVars, countVars>>

(* An attempted cancellation, or none, waits for what the venue says: the  *)
(* reservation is bound to the order and the order looked up.              *)
Track(p) ==
    /\ proc[p].pc = "swept"
    /\ Mine(p).stage \in Placed
    /\ Mine(p).cancel \in {"none", "attempted"}
    /\ Progressed(p)
    /\ Observe(p, "known")
    /\ UNCHANGED <<journal, exec, worldVars, countVars>>

(* settleRecoveredArmedPlacement: a recovered order that still rests       *)
(* unmatched gives the execution lock back.                                *)
SettleRecovered(p) ==
    /\ proc[p].pc = "known"
    /\ Mine(p).recovery = "pending"
    /\ Mine(p).initial = "ARMED"
    /\ proc[p].saw = "ARMED"
    /\ Mine(p).cancel = "none"
    /\ Release(p, {"exec"}, [Mine(p) EXCEPT !.needs = FALSE, !.recovery = "released"], "idle")
    /\ UNCHANGED <<worldVars, countVars>>

(* settleTakeProfitReconciliation: terminal at the venue, final on Polygon. *)
SettleResolved(p) ==
    /\ proc[p].pc = "known"
    /\ Resolved(p)
    /\ Release(p, {"exec"},
               CancelEnds(p, IF Mine(p).cancel = "attempted" THEN "terminal" ELSE Mine(p).cancel), "idle")
    /\ UNCHANGED <<worldVars, countVars>>

(* The command waits, needs a human, or fails.                             *)
Leave(p) ==
    /\ proc[p].pc \in {"judging", "swept", "refetched", "recovered", "known"}
    /\ Goto(p, "idle")
    /\ UNCHANGED <<diskVars, worldVars, countVars>>

-----------------------------------------------------------------------------
(* The venue, the chain, the clock, and crashes *)

ChangeOrder(j, o) == order' = [order EXCEPT ![j] = o] /\ UNCHANGED <<diskVars, proc, payment, elapsed, countVars>>

(* A submitted order is taken into the book or refused.                    *)
AnswerOrder(j) ==
    /\ order[j].state = "sent"
    /\ \E state \in {"live", "refused"} : ChangeOrder(j, [order[j] EXCEPT !.state = state])

Fill(j) ==
    /\ order[j].state = "live"
    /\ ChangeOrder(j, [order[j] EXCEPT !.matched = @ + 1,
                                       !.state = IF order[j].matched + 1 = Shares THEN "filled" ELSE "live"])

ExpireOrder(j) ==
    /\ order[j].state = "live"
    /\ Passed(j, "venue")
    /\ ChangeOrder(j, [order[j] EXCEPT !.state = "expired"])

(* A cancel request reaches the venue, or is refused, or comes too late.   *)
AnswerCancel(j) ==
    /\ order[j].canceling
    /\ \E state \in {order[j].state, IF order[j].state = "live" THEN "canceled" ELSE order[j].state} :
          ChangeOrder(j, [order[j] EXCEPT !.state = state, !.canceling = FALSE])

SettleTrades(j) ==
    /\ order[j].settled < order[j].matched
    /\ ChangeOrder(j, [order[j] EXCEPT !.settled = order[j].matched])

(* Deadlines: the authorization's validBefore, the placement card's expiry *)
(* (the earlier of card and venue while nothing rests), the venue expiry   *)
(* of a resting order, and the launch window of a cancellation.            *)
Runs(j, deadline) ==
    CASE deadline = "auth" -> journal[j].signed /\ journal[j].stage \in AuthorizationStages
      [] deadline = "card" -> \/ journal[j].stage \in Unstarted
                              \/ journal[j].stage = "attempted" /\ order[j].state = "none"
                              \/ journal[j].stage = "result" /\ journal[j].reply = "rejected"
      [] deadline = "venue" -> Resting(j)
      [] deadline = "launch" -> journal[j].cancel \in Active /\ ~LaunchClosed(j)

Elapse(j, deadline) ==
    /\ Runs(j, deadline)
    /\ ~Passed(j, deadline)
    /\ elapsed' = [elapsed EXCEPT ![j] = @ \cup {deadline}]
    /\ UNCHANGED <<diskVars, proc, order, payment, countVars>>

Crash(p) ==
    /\ proc[p].pc # "idle"
    /\ faults < MaxFaults
    /\ faults' = faults + 1
    /\ Goto(p, "idle")
    /\ UNCHANGED <<diskVars, worldVars, claims>>

-----------------------------------------------------------------------------
(* Specification *)

Placing(p) ==
    \/ ClaimReservation(p) \/ Sign(p) \/ SignFails(p) \/ SendPayment(p) \/ ReceiveCard(p)
    \/ ConfirmTrade(p) \/ ClaimExec(p) \/ ClaimRefused(p) \/ CheckLocked(p) \/ MarkAttempted(p)
    \/ Launch(p) \/ PreSpawnFailure(p) \/ SettlePrelaunch(p)
    \/ PersistResult(p) \/ FetchExactOrder(p) \/ PersistPassport(p) \/ ProgressReservation(p)
    \/ SettleArmed(p) \/ GiveUp(p)

Canceling(p) ==
    \/ ClaimCancel(p) \/ MarkCancelAttempted(p) \/ LaunchCancel(p)
    \/ PersistCancelResult(p) \/ FetchAfterCancel(p) \/ RecordOutcome(p) \/ SettleCancel(p)
    \/ CancelFails(p)

Reconciling(p) ==
    \/ ReconcileRejected(p) \/ ReconcileAuthorization(p) \/ Sweep(p) \/ ReconcileUnstarted(p)
    \/ RecoverPassport(p) \/ TrackRecovered(p) \/ ReconcileCancel(p) \/ Track(p)
    \/ SettleRecovered(p) \/ SettleResolved(p)

Venue(j) == AnswerOrder(j) \/ ExpireOrder(j) \/ AnswerCancel(j) \/ SettleTrades(j)

Deadlines == {"auth", "card", "venue", "launch"}

Next ==
    \/ \E p \in Procs :
          \/ Placing(p) \/ Canceling(p) \/ Reconciling(p) \/ Leave(p)
          \/ ClaimReservationDies(p) \/ ClaimDies(p) \/ Crash(p)
    \/ \E p \in Procs, j \in Journals :
          Start(p, j) \/ PromptCancel(p, j) \/ Reconcile(p, j)
    \/ \E j \in Journals :
          \/ Venue(j) \/ Fill(j) \/ SettlePayment(j)
          \/ \E deadline \in Deadlines : Elapse(j, deadline)

Spec == Init /\ [][Next]_vars

(* Some command that is working on j takes a step of kind Step.            *)
On(j, Step(_)) == \E p \in Procs : proc[p].at = j /\ Step(p)

Looking(p) == FetchExactOrder(p) \/ (Track(p) /\ proc'[p].saw # "UNKNOWN")

Concluding(p) ==
    \/ ReconcileRejected(p) \/ ReconcileUnstarted(p) \/ RecoverPassport(p)
    \/ ReconcileCancel(p) \/ SettleResolved(p)

(* A running command goes on, the venue answers, deadlines pass, and the   *)
(* operator reconciles every open journal again and again; a lookup that   *)
(* may fail succeeds at last.  Crashes and claims are finitely many.       *)
Fairness ==
    /\ \A p \in Procs : WF_vars(Placing(p)) /\ WF_vars(Canceling(p)) /\ WF_vars(Leave(p))
    /\ \A j \in Journals :
          /\ WF_vars(Venue(j))
          /\ \A deadline \in Deadlines : WF_vars(Elapse(j, deadline))
          /\ SF_vars(\E p \in Procs : Reconcile(p, j))
          /\ SF_vars(On(j, Sweep)) /\ SF_vars(On(j, Looking)) /\ SF_vars(On(j, Concluding))

FairSpec == Spec /\ Fairness

-----------------------------------------------------------------------------
(* Properties *)

TypeOK ==
    /\ journal \in [Journals -> JournalRecord]
    /\ reserved \in [Keys -> Reservation \cup {None}]
    /\ exec \in ExecLock \cup {None}
    /\ proc \in [Procs -> Process]
    /\ order \in [Journals -> VenueOrder]
    /\ payment \in [Journals -> {"unsent", "sent", "used"}]
    /\ elapsed \in [Journals -> SUBSET Deadlines]
    /\ claims \in Nat
    /\ faults \in Nat

(* Conviction never submits a selected-token SELL while another rests or   *)
(* may still come to rest: readiness is read under the execution lock, and *)
(* the lock outlives every outcome the journal does not know.              *)
OneOrderAtVenue ==
    \A i, j \in Journals :
        i # j => ~(order[i].state \in {"sent", "live"} /\ order[j].state \in {"sent", "live"})

(* Once an order command has started, its replay key stays reserved for    *)
(* good: no later command, refusal or recovery frees the same position,    *)
(* shares, target and expiry for a second order.                           *)
LaunchedKeepsReservation ==
    \A j \in Journals : order[j].state # "none" => OwnsReservation(j)

(* A placement whose result is not bound in a passport, or a cancellation  *)
(* that was attempted or may still take effect, holds the execution lock.  *)
InDoubt(j) ==
    \/ order[j].state # "none" /\ journal[j].stage \in {"attempted", "result"}
    \/ order[j].canceling /\ Resting(j)
    \/ journal[j].cancel = "attempted"

DoubtHoldsLock == \A j \in Journals : InDoubt(j) => OwnsExec(j)

(* What a journal says of its end is true of the chain and the venue: an   *)
(* unused authorization was not and will not be used, an expired journey   *)
(* started no order, a rejected one has none, a terminal cancellation left *)
(* nothing in the book and every matched share in a finalized block.       *)
EndsAreTrue ==
    \A j \in Journals :
        /\ journal[j].stage \in {"withdrawn", "unused"} => payment[j] # "used"
        /\ journal[j].stage \in {"withdrawn", "unused", "expired"} => order[j].state = "none"
        /\ journal[j].stage = "rejected" => order[j].state = "refused"
        /\ journal[j].cancel = "terminal" => ~Resting(j) /\ Finalized(j)

(* An execution lock on disk always has a way out: its journal is bound to *)
(* it, or is still the exact state that published it.                      *)
LockHasWayOut ==
    exec # None =>
        \/ OwnsExec(exec.owner)
        \/ /\ "exec" \notin journal[exec.owner].bound
           /\ exec.source = journal[exec.owner]
           /\ journal[exec.owner].stage \in Placed \cup {"confirmed"}

(* What a journey's order has come to.                                     *)
SaleOf(j) ==
    CASE order[j].state = "live" -> "resting"
      [] order[j].state \in {"none", "sent"} -> order[j].state
      [] OTHER -> IF Finalized(j) THEN "final" ELSE "over"

(* The journeys as sellers at a desk: a file counts when its journal is    *)
(* bound to it, a decision when it is in the journal.                      *)
Desk == INSTANCE SellDesk WITH
    key <- [j \in Journals |-> journal[j].key],
    kept <- {j \in Journals : "reservation" \in journal[j].bound},
    desk <- {j \in Journals : "exec" \in journal[j].bound},
    sale <- [j \in Journals |-> SaleOf(j)],
    known <- {j \in Journals : journal[j].stage \in Placed \cup {"rejected"}},
    asked <- {j \in Journals : journal[j].cancel \in {"attempted", "terminal"}},
    out <- {j \in Journals : order[j].canceling}

(* Every behaviour of placement, cancellation and recovery, crashes        *)
(* included, is one of the desk: one order per journey, sent when no other *)
(* rests, and the lock given back only by a journey that can account for   *)
(* its order (claimExecutionLock, settleExecutionLock,                     *)
(* settleTakeProfitReconciliation and the recoveries before a launch).     *)
RefinesDesk == Desk!DeskSpec

Holds(j) == exec # None /\ exec.owner = j

(* A process that ended between the attempt marker and the live result, or *)
(* a live result that is neither an order id nor the definitive refusal:   *)
(* no reconcile accepts such a journal, and only a human can tell whether  *)
(* an order exists.                                                        *)
LeftToHuman(j) ==
    \/ journal[j].stage = "attempted"
    \/ journal[j].stage = "result" /\ journal[j].reply = "unclear"

(* The execution lock of every other journey returns in the end, whatever  *)
(* died on the way: the operator reconciles, and the sweep, the recoveries *)
(* and the settlements of reconcile-tp lead out of every stage in which a  *)
(* process may have left it.                                               *)
LockReturns ==
    \A j \in Journals :
        Holds(j) /\ ~LeftToHuman(j) ~> ~Holds(j) \/ LeftToHuman(j)
=============================================================================
