---------------------------- MODULE StateRelease ----------------------------
(***************************************************************************)
(* The state-directory protocol of scripts/buyer-orchestrator.mjs: several *)
(* buyer processes (a live `open` or `close`, `resume-close`,              *)
(* `reconcile-open`, `reconcile-close`) share one directory that holds     *)
(* every journey's journal, one replay lock per request identity, the one  *)
(* global execution lock and the release guard.  A kernel mutex serialises *)
(* the critical sections; a process that dies in one releases the mutex    *)
(* and leaves the files as they are.                                       *)
(*                                                                         *)
(* A journal is written only by compare-and-swap on its revision, so two   *)
(* durable states of a journey never share a revision: wherever the code   *)
(* compares journal hashes this module compares revisions.                 *)
(***************************************************************************)
EXTENDS Naturals, FiniteSets

CONSTANTS
    Procs,       \* processes of the buyer's machine
    Journals,    \* journeys, one journal file each
    Keys,        \* replay keys: request identities
    KeyOf,       \* the replay key of each journey's request
    Opens,       \* the OPEN journeys; the others are CLOSE
    Exec,        \* the global execution lock
    None,        \* no file, no guard, no process, no journal
    MaxClaims,   \* bound on the number of execution-lock claims
    MaxFaults    \* bound on crashes and failed writes

ASSUME KeysAssumption == KeyOf \in [Journals -> Keys]
ASSUME OpensAssumption == Opens \subseteq Journals
ASSUME ExecAssumption == Exec \notin Keys
ASSUME BoundsAssumption == MaxClaims \in Nat /\ MaxFaults \in Nat

Resources == Keys \cup {Exec}

(* Stages of a journal.  "aborted" is execution_blocked_before_launch with *)
(* the attempt markers still set, "blocked" the same with them cleared.    *)
(* "receipted" is proof_received of an OPEN, which has already cleared     *)
(* reconciliationRequired; "proved" is a proof with the flag still set.    *)
Stages == {"fresh", "requested", "reserved", "confirmed", "locked", "attempted",
           "aborted", "blocked", "settled", "receipted", "proved", "done"}

Kinds == {"unsent", "expired", "prelaunch", "settle", "complete", "reconciled"}

Roles == {"live", "resume", "reconcile"}

LockSteps == {"attachReplay", "attachExec", "unlinking", "clearing"}

Steps == LockSteps \cup
         {"idle", "begun", "reserved", "withdrawn", "ready", "locked", "attempted",
          "recorded", "launched", "settled", "proved", "recovering", "settling",
          "failing", "opening", "reading", "judging", "swept"}

JournalRecord == [rev: Nat, stage: Stages, bound: SUBSET Resources, gen: Nat]

LockFile == [owner: Journals, gen: Nat, source: Nat]

(* A process: its next step, the command it runs, the journey it drives,   *)
(* the revision of its in-memory journal, whether its clock sample was     *)
(* past the card's expiry, and where it continues after a lock release.    *)
Process == [pc: Steps, role: Roles, at: Journals \cup {None}, seen: Nat,
            late: BOOLEAN, then: Steps]

Guard == [journal: Journals, kind: Kinds, fields: SUBSET Resources,
          locks: [Resources -> LockFile \cup {None}], source: Nat, target: JournalRecord]

ASSUME NoneAssumption ==
    None \notin Procs \cup Journals /\ None \notin LockFile /\ None \notin Guard

VARIABLES
    journal,   \* the durable journals
    locks,     \* the lock file of each resource, None where there is none
    guard,     \* the release guard file, None where there is none
    mutex,     \* the holder of the kernel mutex
    proc,      \* what each process is doing
    expired,   \* the journeys whose paid card has expired
    orders,    \* the journeys whose live order process was started
    claims,    \* number of execution-lock claims so far
    faults     \* number of crashes and failed writes so far

fileVars == <<journal, locks, guard>>
worldVars == <<expired, orders>>
countVars == <<claims, faults>>
vars == <<fileVars, mutex, proc, worldVars, countVars>>

-----------------------------------------------------------------------------
(* Helpers *)

Running(step, command, j, rev, sample) ==
    [pc |-> step, role |-> command, at |-> j, seen |-> rev, late |-> sample, then |-> "idle"]

Idle == Running("idle", "live", None, 0, FALSE)

Fresh == [rev |-> 0, stage |-> "fresh", bound |-> {}, gen |-> 0]

Mine(p) == journal[proc[p].at]

(* Mutation: a write that is not a compare-and-swap.                       *)
CurrentUnchecked(p) == TRUE

(* The in-memory journal is the durable one. *)
Current(p) == proc[p].seen = Mine(p).rev

(* The next durable state of journey j. *)
Revised(j, stage, bound, gen) ==
    [rev |-> journal[j].rev + 1, stage |-> stage, bound |-> bound, gen |-> gen]

(* A lock file proves that j holds r: same journal and, for the execution  *)
(* lock, the generation the journal is bound to.                           *)
Owned(j, r) ==
    /\ locks[r] # None
    /\ locks[r].owner = j
    /\ r = Exec => locks[r].gen = journal[j].gen

(* Mutation: a lock file is opened without the exclusive flag.             *)
OpenAnyway(r) == TRUE

(* The exclusive create of a lock file succeeds.                           *)
Absent(r) == locks[r] = None

(* Mutation: any guard counts as completed.                                *)
AnyGuardCompleted == guard # None

GuardCompleted == guard # None /\ journal[guard.journal] = guard.target

(* Mutation: nobody looks at the guard.                                    *)
GuardIgnored == TRUE

(* No release is in progress; a completed guard is unlinked on the way.    *)
GuardAdmits == guard = None \/ GuardCompleted

(* Mutation: a critical section that leaves the guard alone.               *)
SectionUnguarded == mutex = None /\ UNCHANGED guard

(* A short critical section that the guard admits.                         *)
Section == mutex = None /\ GuardAdmits /\ guard' = None

(* Process p moves to step with an in-memory journal of revision rev, and  *)
(* continues at next after a release; a process that ends is forgotten.    *)
Become(p, step, rev, next) ==
    proc' = [proc EXCEPT ![p] =
                IF step = "idle" THEN Idle
                ELSE [pc |-> step, role |-> proc[p].role, at |-> proc[p].at, seen |-> rev,
                      late |-> proc[p].late, then |-> next]]

Goto(p, step) == Become(p, step, proc[p].seen, proc[p].then)

(* writeReconciliationJournal: process p writes the next state of its      *)
(* journal, against the revision it holds, and moves on.                   *)
Write(p, stage, bound, gen, step) ==
    /\ Current(p)
    /\ journal' = [journal EXCEPT ![proc[p].at] = Revised(proc[p].at, stage, bound, gen)]
    /\ Become(p, step, Mine(p).rev + 1, proc[p].then)

WriteStage(p, stage, step) == Write(p, stage, Mine(p).bound, Mine(p).gen, step)

(* Where a failing command goes: a live run still has its final journal    *)
(* write, the others just stop.                                            *)
OnFailure(p) == IF proc[p].role = "live" THEN "failing" ELSE "idle"

-----------------------------------------------------------------------------
(* Starting a command *)

Init ==
    /\ journal = [j \in Journals |-> Fresh]
    /\ locks = [r \in Resources |-> None]
    /\ guard = None
    /\ mutex = None
    /\ proc = [p \in Procs |-> Idle]
    /\ expired = {}
    /\ orders = {}
    /\ claims = 0
    /\ faults = 0

(* open / close: a journey of its own, written as payment_challenge_requested. *)
Start(p, j) ==
    /\ proc[p] = Idle
    /\ journal[j] = Fresh
    /\ Section
    /\ proc' = [proc EXCEPT ![p] = Running("begun", "live", j, 1, FALSE)]
    /\ journal' = [journal EXCEPT ![j] = Revised(j, "requested", {}, 0)]
    /\ UNCHANGED <<locks, mutex, worldVars, countVars>>

Command(p, j, command) ==
    /\ proc[p] = Idle
    /\ journal[j] # Fresh
    /\ proc' = [proc EXCEPT ![p] =
                   Running("opening", command, j, 0, command = "reconcile" /\ j \in expired)]
    /\ UNCHANGED <<fileVars, mutex, worldVars, countVars>>

(* reconcile-open / reconcile-close: the clock is sampled at the start.    *)
Reconcile(p, j) == Command(p, j, "reconcile")

(* resume-close.                                                           *)
Resume(p, j) ==
    /\ j \notin Opens
    /\ Command(p, j, "resume")

-----------------------------------------------------------------------------
(* Claiming a lock: the file is published first, the journal bound second. *)

ClaimReplay(p) ==
    /\ proc[p].pc = "begun"
    /\ Section
    /\ Current(p)
    /\ Absent(KeyOf[proc[p].at])
    /\ locks' = [locks EXCEPT ![KeyOf[proc[p].at]] =
                    [owner |-> proc[p].at, gen |-> 0, source |-> Mine(p).rev]]
    /\ mutex' = p
    /\ Goto(p, "attachReplay")
    /\ UNCHANGED <<journal, worldVars, countVars>>

AttachReplay(p) ==
    /\ proc[p].pc = "attachReplay"
    /\ Write(p, "reserved", Mine(p).bound \cup {KeyOf[proc[p].at]}, Mine(p).gen, "reserved")
    /\ mutex' = None
    /\ UNCHANGED <<locks, guard, worldVars, countVars>>

(* The payment, the paid card and the recorded trade consent.              *)
Confirm(p) ==
    /\ proc[p].pc = "reserved"
    /\ Section
    /\ WriteStage(p, "confirmed", "ready")
    /\ UNCHANGED <<locks, mutex, worldVars, countVars>>

(* What claimExecutionLock checks under the mutex before publishing.       *)
ExecClaimable(p) ==
    /\ GuardAdmits
    /\ Current(p)
    /\ Exec \notin Mine(p).bound
    /\ proc[p].at \notin expired

ClaimExec(p) ==
    /\ proc[p].pc = "ready"
    /\ Section
    /\ ExecClaimable(p)
    /\ Absent(Exec)
    /\ claims < MaxClaims
    /\ claims' = claims + 1
    /\ locks' = [locks EXCEPT ![Exec] =
                    [owner |-> proc[p].at, gen |-> claims + 1, source |-> Mine(p).rev]]
    /\ mutex' = p
    /\ Goto(p, "attachExec")
    /\ UNCHANGED <<journal, worldVars, faults>>

(* The lock in the way was published from exactly this journal state.      *)
ExactOrphan(p) ==
    /\ locks[Exec] # None
    /\ locks[Exec].owner = proc[p].at
    /\ locks[Exec].source = Mine(p).rev

(* The claim is refused.  In front of an exact crash orphan the journal is *)
(* preserved, since writing it would make the orphan unrecoverable.        *)
ExecRefused(p) ==
    /\ proc[p].pc = "ready"
    /\ mutex = None
    /\ ~ExecClaimable(p) \/ ~Absent(Exec)
    /\ guard' = IF GuardAdmits THEN None ELSE guard
    /\ Goto(p, IF ExecClaimable(p) /\ ExactOrphan(p) THEN "idle" ELSE OnFailure(p))
    /\ UNCHANGED <<journal, locks, mutex, worldVars, countVars>>

AttachExec(p) ==
    /\ proc[p].pc = "attachExec"
    /\ Write(p, "locked", Mine(p).bound \cup {Exec}, locks[Exec].gen, "locked")
    /\ mutex' = None
    /\ UNCHANGED <<locks, guard, worldVars, countVars>>

(* Mutation: the file is left behind.                                      *)
AttachFailsLeavingFile(p) ==
    /\ proc[p].pc \in {"attachReplay", "attachExec"}
    /\ faults < MaxFaults
    /\ faults' = faults + 1
    /\ mutex' = None
    /\ Goto(p, OnFailure(p))
    /\ UNCHANGED <<journal, locks, guard, worldVars, claims>>

(* The attaching write failed: the exact lock file is unlinked again.      *)
AttachFails(p) ==
    /\ proc[p].pc \in {"attachReplay", "attachExec"}
    /\ faults < MaxFaults
    /\ faults' = faults + 1
    /\ locks' = [locks EXCEPT ![IF proc[p].pc = "attachExec" THEN Exec ELSE KeyOf[proc[p].at]] = None]
    /\ mutex' = None
    /\ Goto(p, OnFailure(p))
    /\ UNCHANGED <<journal, guard, worldVars, claims>>

-----------------------------------------------------------------------------
(* Execution *)

MarkAttempted(p) ==
    /\ proc[p].pc = "locked"
    /\ Section
    /\ Exec \in Mine(p).bound
    /\ Owned(proc[p].at, Exec)
    /\ proc[p].at \notin expired
    /\ WriteStage(p, "attempted", "attempted")
    /\ UNCHANGED <<locks, mutex, worldVars, countVars>>

RecordRuntime(p) ==
    /\ proc[p].pc = "attempted"
    /\ Section
    /\ proc[p].at \notin expired
    /\ WriteStage(p, "attempted", "recorded")
    /\ UNCHANGED <<locks, mutex, worldVars, countVars>>

(* onStart: the live order process exists from here on.                    *)
Launch(p) ==
    /\ proc[p].pc = "recorded"
    /\ proc[p].at \notin expired
    /\ orders' = orders \cup {proc[p].at}
    /\ Goto(p, "launched")
    /\ UNCHANGED <<fileVars, mutex, expired, countVars>>

PersistResult(p) ==
    /\ proc[p].pc = "launched"
    /\ Section
    /\ WriteStage(p, "settled", "settled")
    /\ UNCHANGED <<locks, mutex, worldVars, countVars>>

(* fetchProof clears reconciliationRequired, fetchCloseProof keeps it.     *)
PersistProof(p) ==
    /\ proc[p].pc = "settled"
    /\ Section
    /\ WriteStage(p, IF proc[p].at \in Opens THEN "receipted" ELSE "proved", "proved")
    /\ UNCHANGED <<locks, mutex, worldVars, countVars>>

(* Mutation: an ambiguous result of the order counts as never started.     *)
GiveUpUnstarted(p) ==
    /\ proc[p].pc = "launched"
    /\ Goto(p, "recovering")
    /\ UNCHANGED <<fileVars, mutex, worldVars, countVars>>

(* A step outside the lock window fails: a refused claim or write, a       *)
(* declined confirmation, an ambiguous order result, a missing proof.      *)
GiveUp(p) ==
    /\ proc[p].role \in {"live", "resume"}
    /\ proc[p].pc \in {"begun", "reserved", "ready", "launched", "settled", "proved"}
    /\ Goto(p, IF proc[p].pc = "ready" THEN OnFailure(p) ELSE "failing")
    /\ UNCHANGED <<fileVars, mutex, worldVars, countVars>>

(* A step before the launch fails: the run writes what it knows ...        *)
Abort(p) ==
    /\ proc[p].pc \in {"locked", "attempted", "recorded"}
    /\ IF proc[p].role = "live" /\ proc[p].pc = "locked"
       THEN Goto(p, "recovering") /\ UNCHANGED <<journal, guard>>
       ELSE /\ Section
            /\ WriteStage(p, IF proc[p].role = "live" THEN "aborted" ELSE Mine(p).stage, "recovering")
    /\ UNCHANGED <<locks, mutex, worldVars, countVars>>

(* ... and when that write is refused it only has its final write left.    *)
AbortRefused(p) ==
    /\ proc[p].pc \in {"locked", "attempted", "recorded"}
    /\ ~(proc[p].role = "live" /\ proc[p].pc = "locked")
    /\ mutex # None \/ ~GuardAdmits \/ ~Current(p)
    /\ Goto(p, "failing")
    /\ UNCHANGED <<fileVars, mutex, worldVars, countVars>>

-----------------------------------------------------------------------------
(* Releasing locks: guard, unlink one by one, journal, guard. *)

Fields(j, kind) ==
    CASE kind \in {"prelaunch", "settle"} -> {Exec} \cap journal[j].bound
      [] kind = "unsent" -> {KeyOf[j]} \cap journal[j].bound
      [] OTHER -> journal[j].bound

(* Mutation: reconciliation gives the locks back and records no outcome.   *)
TargetStageUnresolved(j, kind) ==
    IF kind \in {"expired", "complete"} THEN "done" ELSE journal[j].stage

TargetStage(j, kind) ==
    CASE kind \in {"expired", "complete", "reconciled"} -> "done"
      [] kind = "prelaunch" -> IF j \in Opens THEN "blocked" ELSE "confirmed"
      [] OTHER -> journal[j].stage

(* Mutation: the journal keeps the bindings whose files are unlinked.      *)
TargetKeepsBinding(j, kind) == Revised(j, TargetStage(j, kind), journal[j].bound, journal[j].gen)

Target(j, kind) ==
    LET left == journal[j].bound \ Fields(j, kind)
    IN  Revised(j, TargetStage(j, kind), left, IF Exec \in left THEN journal[j].gen ELSE 0)

(* Mutation: only a journey without its proof can be reconciled.           *)
EvidenceWithoutProof(j) == journal[j].stage = "settled"

(* A persisted result that reconcile-open or reconcile-close accepts:      *)
(* reconciliationRequired must still be set.                               *)
Evidence(j) == journal[j].stage \in {"settled", "proved"}

(* Paid, and known never to have started an order.                         *)
Unstarted(j) ==
    \/ journal[j].stage \in {"confirmed", "blocked"} /\ Exec \notin journal[j].bound
    \/ journal[j].stage = "locked" /\ Exec \in journal[j].bound

(* Which release a process may ask for where it stands.                    *)
Asks(p, kind) ==
    \/ kind = "unsent" /\ proc[p].pc = "reserved"
    \/ kind = "prelaunch" /\ proc[p].pc = "recovering"
    \/ kind = "settle" /\ proc[p].pc = "settling"
    \/ kind = "complete" /\ proc[p].pc = "proved"
    \/ kind = "reconciled" /\ proc[p].pc = "judging" /\ Evidence(proc[p].at)
    \/ /\ kind = "expired" /\ proc[p].pc \in {"judging", "swept"} /\ proc[p].late
       /\ Unstarted(proc[p].at)
       /\ proc[p].pc = "swept" <=> Mine(p).stage = "confirmed"

(* The locks a release first wants to see owned: known-unstarted recovery  *)
(* and reconciliation check both, a release checks what it selects.        *)
Verified(j, kind) ==
    \A r \in Fields(j, kind) \cup (IF kind = "settle" THEN {} ELSE {KeyOf[j]}) : Owned(j, r)

NewGuard(j, kind) ==
    [journal |-> j, kind |-> kind, fields |-> Fields(j, kind),
     locks |-> [r \in Resources |-> IF r \in Fields(j, kind) THEN locks[r] ELSE None],
     source |-> journal[j].rev, target |-> Target(j, kind)]

(* The guard left by a process that died in this very release.             *)
Adoptable(p, kind) ==
    /\ guard # None
    /\ guard.journal = proc[p].at
    /\ guard.kind = kind
    /\ guard.source = proc[p].seen
    /\ \A r \in guard.fields : locks[r] \in {None, guard.locks[r]}

CanRelease(p, kind) ==
    /\ Asks(p, kind)
    /\ Current(p)
    /\ Fields(proc[p].at, kind) # {}
    /\ \/ guard = None /\ Verified(proc[p].at, kind)
       \/ Adoptable(p, kind)

AfterRelease(p, kind) ==
    CASE proc[p].role = "reconcile" \/ kind = "complete" -> "idle"
      [] kind = "unsent" -> "withdrawn"
      [] OTHER -> "failing"

BeginRelease(p, kind) ==
    /\ mutex = None
    /\ CanRelease(p, kind)
    /\ guard' = IF guard = None THEN NewGuard(proc[p].at, kind) ELSE guard
    /\ mutex' = p
    /\ Become(p, "unlinking", proc[p].seen, AfterRelease(p, kind))
    /\ UNCHANGED <<journal, locks, worldVars, countVars>>

Remaining == {r \in guard.fields : locks[r] # None}

(* executionLockPath sorts before replayLockPath.                          *)
Unlink(p) ==
    /\ proc[p].pc = "unlinking"
    /\ \E r \in Remaining :
          /\ Exec \in Remaining => r = Exec
          /\ locks[r] = guard.locks[r]
          /\ locks' = [locks EXCEPT ![r] = None]
    /\ UNCHANGED <<journal, guard, mutex, proc, worldVars, countVars>>

WriteTarget(p) ==
    /\ proc[p].pc = "unlinking"
    /\ Remaining = {}
    /\ journal[guard.journal].rev = guard.source
    /\ journal' = [journal EXCEPT ![guard.journal] = guard.target]
    /\ Become(p, "clearing", guard.target.rev, proc[p].then)
    /\ UNCHANGED <<locks, guard, mutex, worldVars, countVars>>

ClearGuard(p) ==
    /\ proc[p].pc = "clearing"
    /\ guard' = None
    /\ mutex' = None
    /\ Become(p, proc[p].then, proc[p].seen, "idle")
    /\ UNCHANGED <<journal, locks, worldVars, countVars>>

AfterFailure(p) ==
    CASE proc[p].role = "reconcile" \/ proc[p].then = "reading" -> "idle"
      [] guard.kind = "prelaunch" /\ proc[p].role = "live" /\ Mine(p).stage = "locked" -> "settling"
      [] OTHER -> "failing"

(* The release fails before it removed anything: the guard is withdrawn.   *)
(* (Failing later leaves the guard, as a crash does.)                      *)
FailRelease(p) ==
    /\ proc[p].pc = "unlinking"
    /\ Remaining = guard.fields
    /\ faults < MaxFaults
    /\ faults' = faults + 1
    /\ guard' = None
    /\ mutex' = None
    /\ Become(p, AfterFailure(p), proc[p].seen, "idle")
    /\ UNCHANGED <<journal, locks, worldVars, claims>>

(* The known-unstarted recovery is refused, by a busy mutex or otherwise.  *)
(* A live run then still settles its execution lock, a resume stops.       *)
RecoverRefused(p) ==
    /\ proc[p].pc = "recovering"
    /\ mutex # None \/ ~CanRelease(p, "prelaunch")
    /\ Goto(p, IF proc[p].role = "live" /\ Mine(p).stage = "locked" THEN "settling" ELSE "failing")
    /\ UNCHANGED <<fileVars, mutex, worldVars, countVars>>

SettleRefused(p) ==
    /\ proc[p].pc = "settling"
    /\ mutex # None \/ ~CanRelease(p, "settle")
    /\ Goto(p, "failing")
    /\ UNCHANGED <<fileVars, mutex, worldVars, countVars>>

(* An unsent request records why it ended.                                 *)
Withdraw(p) ==
    /\ proc[p].pc = "withdrawn"
    /\ Section
    /\ WriteStage(p, "done", "failing")
    /\ UNCHANGED <<locks, mutex, worldVars, countVars>>

(* Mutation: a stage that no reader of the journal knows.                  *)
FinalStageUnknown(p) == IF Mine(p).stage = "attempted" THEN "failed" ELSE Mine(p).stage

(* The last checkpoint of a failed run.  A live run that knows it never    *)
(* launched says so, and one that has launched sets reconciliationRequired. *)
FinalStage(p) ==
    CASE proc[p].role = "live" /\ Mine(p).stage = "attempted" /\ proc[p].at \notin orders -> "aborted"
      [] Mine(p).stage = "receipted" -> "proved"
      [] OTHER -> Mine(p).stage

FinalWrite(p) ==
    /\ proc[p].pc = "failing"
    /\ Section
    /\ WriteStage(p, FinalStage(p), "idle")
    /\ UNCHANGED <<locks, mutex, worldVars, countVars>>

Exit(p) ==
    /\ proc[p].pc \in {"failing", "withdrawn"}
    /\ mutex # None \/ ~GuardAdmits \/ ~Current(p)
    /\ Goto(p, "idle")
    /\ UNCHANGED <<fileVars, mutex, worldVars, countVars>>

-----------------------------------------------------------------------------
(* Recovery commands *)

(* Mutation: recovery expects every lock file of the guard.                *)
InterruptedIntact(p) ==
    /\ guard # None
    /\ guard.journal = proc[p].at
    /\ Mine(p).rev = guard.source
    /\ \A r \in guard.fields : locks[r] = guard.locks[r]

(* The guard of a release of this journal that stopped half way.           *)
Interrupted(p) ==
    /\ guard # None
    /\ guard.journal = proc[p].at
    /\ Mine(p).rev = guard.source
    /\ \A r \in Remaining : locks[r] = guard.locks[r]

(* resumePendingStateRelease: a guard of this journal is completed first.  *)
ResumePending(p) ==
    /\ proc[p].pc = "opening"
    /\ mutex = None
    /\ \/ /\ guard = None
          /\ Goto(p, "reading")
          /\ UNCHANGED <<guard, mutex>>
       \/ /\ guard # None
          /\ guard.journal # proc[p].at
          /\ Goto(p, "idle")
          /\ UNCHANGED <<guard, mutex>>
       \/ /\ GuardCompleted
          /\ guard.journal = proc[p].at
          /\ guard' = None
          /\ Goto(p, "reading")
          /\ UNCHANGED mutex
       \/ /\ Interrupted(p)
          /\ mutex' = p
          /\ Become(p, "unlinking", guard.source, "reading")
          /\ UNCHANGED guard
    /\ UNCHANGED <<journal, locks, worldVars, countVars>>

(* What resume-close accepts: paid, confirmed, never attempted.            *)
Resumable(j) ==
    /\ journal[j].stage = "confirmed"
    /\ Exec \notin journal[j].bound
    /\ KeyOf[j] \in journal[j].bound
    /\ Owned(j, KeyOf[j])

AfterRead(p) ==
    CASE proc[p].role = "reconcile" -> "judging"
      [] proc[p].role = "resume" /\ Resumable(proc[p].at) -> "ready"
      [] OTHER -> "idle"

(* The journal is read without the mutex.                                  *)
Read(p) ==
    /\ proc[p].pc = "reading"
    /\ Become(p, AfterRead(p), Mine(p).rev, proc[p].then)
    /\ UNCHANGED <<fileVars, mutex, worldVars, countVars>>

(* reconcileUnattachedExecutionLock: an execution lock that this exact     *)
(* journal state published and never attached is unlinked.                 *)
Sweep(p) ==
    /\ proc[p].pc = "judging"
    /\ Mine(p).stage = "confirmed"
    /\ Section
    /\ IF locks[Exec] = None \/ locks[Exec].owner # proc[p].at
       THEN Goto(p, "swept") /\ UNCHANGED locks
       ELSE IF Current(p) /\ Exec \notin Mine(p).bound /\ locks[Exec].source = Mine(p).rev
       THEN Goto(p, "swept") /\ locks' = [locks EXCEPT ![Exec] = None]
       ELSE Goto(p, "idle") /\ UNCHANGED locks
    /\ UNCHANGED <<journal, mutex, worldVars, countVars>>

MayProceed(p) ==
    \/ proc[p].pc = "opening"
    \/ proc[p].pc = "judging" /\ Mine(p).stage = "confirmed" /\ GuardAdmits
    \/ \E kind \in Kinds : CanRelease(p, kind)

(* Nothing this reconcile may do: it waits for expiry, leaves the journal  *)
(* to a human, or meets a busy mutex or a pending release.                 *)
Leave(p) ==
    /\ proc[p].pc \in {"opening", "judging", "swept"}
    /\ mutex # None \/ ~MayProceed(p)
    /\ Goto(p, "idle")
    /\ UNCHANGED <<fileVars, mutex, worldVars, countVars>>

-----------------------------------------------------------------------------
(* The environment *)

(* The process dies anywhere; the kernel frees its mutex.                  *)
Crash(p) ==
    /\ proc[p].pc # "idle"
    /\ faults < MaxFaults
    /\ faults' = faults + 1
    /\ Goto(p, "idle")
    /\ mutex' = IF mutex = p THEN None ELSE mutex
    /\ UNCHANGED <<fileVars, worldVars, claims>>

Expire(j) ==
    /\ j \notin expired
    /\ journal[j].stage \notin {"fresh", "requested", "reserved"}
    /\ expired' = expired \cup {j}
    /\ UNCHANGED <<fileVars, mutex, proc, orders, countVars>>

-----------------------------------------------------------------------------
(* Specification *)

(* What a running process does next.                                       *)
Step(p) ==
    \/ ClaimReplay(p) \/ AttachReplay(p) \/ Confirm(p)
    \/ ClaimExec(p) \/ ExecRefused(p) \/ AttachExec(p) \/ AttachFails(p)
    \/ MarkAttempted(p) \/ RecordRuntime(p) \/ Launch(p)
    \/ PersistResult(p) \/ PersistProof(p)
    \/ GiveUp(p) \/ Abort(p) \/ AbortRefused(p)
    \/ (\E kind \in Kinds : BeginRelease(p, kind))
    \/ Unlink(p) \/ WriteTarget(p) \/ ClearGuard(p) \/ FailRelease(p)
    \/ RecoverRefused(p) \/ SettleRefused(p) \/ Withdraw(p) \/ FinalWrite(p) \/ Exit(p)
    \/ ResumePending(p) \/ Read(p) \/ Sweep(p) \/ Leave(p)

Next ==
    \/ \E p \in Procs : Step(p) \/ Crash(p)
    \/ \E p \in Procs, j \in Journals : Start(p, j) \/ Resume(p, j) \/ Reconcile(p, j)
    \/ \E j \in Journals : Expire(j)

Spec == Init /\ [][Next]_vars

(* A running process goes on; whoever operates the machine reconciles every *)
(* unfinished journal again and again.  Crashes and failed writes are       *)
(* finitely many (MaxFaults).                                               *)
FairSpec ==
    /\ Spec
    /\ \A p \in Procs : WF_vars(Step(p))
    /\ \A j \in Journals : SF_vars(\E p \in Procs : Reconcile(p, j))

(* The directory as a lock registry: a lock is held by the journal that is *)
(* bound to it, an order is open until its journal is done.                *)
Registry == INSTANCE LockRegistry WITH
    held <- [j \in Journals |-> journal[j].bound],
    order <- [j \in Journals |-> IF j \notin orders THEN "none"
                                 ELSE IF journal[j].stage = "done" THEN "resolved"
                                 ELSE "open"]

(* Every behaviour of the directory, crashes included, is a behaviour of   *)
(* the registry: claims and releases take effect in one step each, at the  *)
(* journal write (attachment in claimExecutionLock and claimReplayLock,    *)
(* guarded target write in releaseReconciledLocksLocked).                  *)
RefinesRegistry == Registry!RegistrySpec

-----------------------------------------------------------------------------
(* Properties *)

TypeOK ==
    /\ journal \in [Journals -> JournalRecord]
    /\ locks \in [Resources -> LockFile \cup {None}]
    /\ guard \in Guard \cup {None}
    /\ mutex \in Procs \cup {None}
    /\ proc \in [Procs -> Process]
    /\ \A p \in Procs : proc[p].pc # "idle" => proc[p].at \in Journals
    /\ expired \subseteq Journals
    /\ orders \subseteq Journals
    /\ claims \in Nat
    /\ faults \in Nat

(* No two journals are ever bound to the same lock: the execution lock is  *)
(* global and a request identity is reserved by one journey at a time      *)
(* (claimExecutionLock, claimReplayLock, releaseReconciledLocks).          *)
ExclusiveBinding ==
    \A i, j \in Journals : i # j => journal[i].bound \cap journal[j].bound = {}

(* A durable binding is backed by the lock file it names, or by the guard  *)
(* whose release has removed the file and not yet written the journal: a   *)
(* crash at any line of releaseReconciledLocksLocked loses neither.        *)
BindingBacked ==
    \A j \in Journals : \A r \in journal[j].bound :
        \/ Owned(j, r)
        \/ /\ guard # None
           /\ guard.journal = j
           /\ guard.source = journal[j].rev
           /\ r \in guard.fields

(* The journal named by a guard is at the guard's source or at its target, *)
(* so resumePendingStateRelease can always tell which half is missing.     *)
GuardBracketed ==
    guard # None =>
        \/ journal[guard.journal].rev = guard.source
        \/ journal[guard.journal] = guard.target

(* A started order without an outcome, or an attempt that was recorded and *)
(* may have started one.                                                   *)
Unresolved(j) ==
    \/ j \in orders /\ journal[j].stage # "done"
    \/ journal[j].stage = "attempted"

(* From the durable mark of an attempt (markExecutionAttempted) to the     *)
(* resolution of its order the journey keeps both locks and no other       *)
(* journey is in the same doubt, also when the process dies between the    *)
(* mark and the launch ("Another Conviction execution is unresolved").     *)
OneUnresolvedOrder ==
    \A j \in Journals : Unresolved(j) =>
        /\ {Exec, KeyOf[j]} \subseteq journal[j].bound
        /\ \A i \in Journals \ {j} : ~Unresolved(i)

(* A journal that a recovery may continue from or expire as never executed *)
(* belongs to a journey whose order process never started.                 *)
UnstartedNeverLaunched ==
    \A j \in Journals : Unstarted(j) => j \notin orders

(* An execution lock file always has a way out: its journey is bound to it *)
(* or is still the exact state it was published from.                      *)
ExecLockRecoverable ==
    locks[Exec] # None =>
        LET j == locks[Exec].owner
        IN  \/ Exec \in journal[j].bound /\ Owned(j, Exec)
            \/ /\ Exec \notin journal[j].bound
               /\ journal[j].stage = "confirmed"
               /\ locks[Exec].source = journal[j].rev

(* A replay lock file means a reserved request identity, or it is what a   *)
(* process left that died between publishing and attaching it.  Its        *)
(* journey is then for ever the exact state that claimed: nothing signed,  *)
(* nothing else bound, no order (claimReplayLock has no other recovery).   *)
ReplayLockTells ==
    \A k \in Keys : locks[k] # None =>
        LET j == locks[k].owner
        IN  \/ k \in journal[j].bound
            \/ /\ journal[j].stage = "requested"
               /\ journal[j].bound = {}
               /\ locks[k].source = journal[j].rev
               /\ j \notin orders

(* A CLOSE that was refused before its live child process started releases *)
(* the execution lock only together with its return to trade_confirmed.    *)
RefusalRestoresConfirmed ==
    \A j \in Journals : journal[j].stage = "locked" => Exec \in journal[j].bound

(* While a release is between its guard and its journal, nothing else      *)
(* changes: no lock is published and no journal moves but to its target.   *)
GuardFreezes ==
    [][ guard # None /\ journal[guard.journal].rev = guard.source =>
            /\ \A r \in Resources : locks'[r] \in {locks[r], None}
            /\ journal' \in {journal, [journal EXCEPT ![guard.journal] = guard.target]} ]_vars

(* A journey never starts a second order process, whichever commands run   *)
(* on its journal and wherever they die.                                   *)
LaunchedOnce ==
    [][ \A p \in Procs : proc[p].pc = "recorded" /\ proc'[p].pc = "launched"
            => proc[p].at \notin orders ]_vars

(* An interrupted release is always finished or withdrawn.                 *)
GuardEventuallyCleared == guard # None ~> guard = None

(* A journey with a persisted live result is eventually resolved and       *)
(* unlocked by reconciliation.                                             *)
SettledEventuallyReleased ==
    \A j \in Journals : journal[j].stage \in {"settled", "receipted", "proved"} ~> journal[j].stage = "done"
=============================================================================
