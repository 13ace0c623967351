------------------------- MODULE StateReleaseProofs -------------------------
(***************************************************************************)
(* Proofs about StateRelease: the safety properties for any number of      *)
(* processes, journeys and request identities.                             *)
(***************************************************************************)
EXTENDS StateRelease, TLAPS

-----------------------------------------------------------------------------
(* The inductive invariant *)

(* Exactly the process inside a critical section holds the mutex.          *)
MutexInv == \A p \in Procs : proc[p].pc \in LockSteps <=> mutex = p

(* Between publishing a lock and attaching it.                             *)
AttachInv ==
    \A p \in Procs :
        /\ proc[p].pc = "attachReplay" =>
              /\ locks[KeyOf[proc[p].at]] # None
              /\ locks[KeyOf[proc[p].at]].owner = proc[p].at
              /\ KeyOf[proc[p].at] \notin Mine(p).bound
              /\ guard = None
        /\ proc[p].pc = "attachExec" =>
              /\ locks[Exec] # None
              /\ locks[Exec].owner = proc[p].at
              /\ Exec \notin Mine(p).bound
              /\ guard = None

(* A release between its guard and its journal: the guard describes the    *)
(* durable journal, and every lock it names is gone or still the one it    *)
(* was published for.                                                      *)
InProgress(j) == guard # None /\ guard.journal = j /\ journal[j].rev = guard.source

GuardInv ==
    guard # None =>
        LET j == guard.journal
        IN  /\ guard.target.rev = guard.source + 1
            /\ \/ journal[j] = guard.target
               \/ /\ journal[j].rev = guard.source
                  /\ guard.target.bound = journal[j].bound \ guard.fields
                  /\ Exec \in guard.target.bound => guard.target.gen = journal[j].gen
                  /\ \A r \in guard.fields :
                        /\ locks[r] \in {None, guard.locks[r]}
                        /\ guard.locks[r] # None
                        /\ guard.locks[r].owner = j
                        /\ r = Exec => guard.locks[r].gen = journal[j].gen

ReleaseInv ==
    \A p \in Procs :
        /\ proc[p].pc \in {"unlinking", "clearing"} => proc[p].then \notin LockSteps
        /\ proc[p].pc = "unlinking" => InProgress(proc[p].at)
        /\ proc[p].pc = "clearing" =>
              /\ guard # None
              /\ guard.journal = proc[p].at
              /\ journal[proc[p].at] = guard.target

LockInv == MutexInv /\ AttachInv /\ GuardInv /\ ReleaseInv /\ BindingBacked

-----------------------------------------------------------------------------
(* Helpers *)

(* Only process p moves, to the given step, or is forgotten.               *)
LEMMA BecomeFacts ==
    ASSUME TypeOK, NEW p \in Procs, NEW step \in Steps, NEW rev \in Nat, NEW next \in Steps,
           proc[p].pc # "idle", Become(p, step, rev, next)
    PROVE  /\ proc' \in [Procs -> Process]
           /\ \A q \in Procs : proc'[q].pc # "idle" => proc'[q].at \in Journals
           /\ \A q \in Procs \ {p} : proc'[q] = proc[q]
           /\ proc'[p].pc = step
           /\ step = "idle" => proc'[p] = Idle
           /\ step # "idle" => /\ proc'[p].seen = rev
                               /\ proc'[p].then = next
                               /\ proc'[p].at = proc[p].at
                               /\ proc'[p].role = proc[p].role
<1> proc[p] \in Process /\ proc[p].at \in Journals
  BY DEF TypeOK
<1> DEFINE new == IF step = "idle" THEN Idle
                  ELSE [pc |-> step, role |-> proc[p].role, at |-> proc[p].at, seen |-> rev,
                        late |-> proc[p].late, then |-> next]
<1>1. new \in Process /\ (step # "idle" => new.at \in Journals /\ new.pc = step)
  BY NoneAssumption DEF Process, Idle, Running, Steps, LockSteps, Roles
<1>2. proc' = [proc EXCEPT ![p] = new]
  BY DEF Become
<1> QED BY <1>1, <1>2 DEF TypeOK, Process, Idle, Running

(* A journal write moves one journal by one revision.                      *)
LEMMA WriteFacts ==
    ASSUME TypeOK, NEW p \in Procs, NEW stage \in Stages, NEW bound \in SUBSET Resources,
           NEW gen \in Nat, NEW step \in Steps,
           proc[p].pc # "idle", Write(p, stage, bound, gen, step)
    PROVE  /\ Current(p)
           /\ journal' \in [Journals -> JournalRecord]
           /\ journal' = [journal EXCEPT ![proc[p].at] = Revised(proc[p].at, stage, bound, gen)]
           /\ Become(p, step, Mine(p).rev + 1, proc[p].then)
           /\ Mine(p).rev + 1 \in Nat
           /\ proc[p].then \in Steps
<1> proc[p] \in Process /\ proc[p].at \in Journals /\ Mine(p) \in JournalRecord
  BY DEF TypeOK, Mine
<1>1. Revised(proc[p].at, stage, bound, gen) \in JournalRecord
  BY DEF Revised, JournalRecord, Mine
<1> QED BY <1>1 DEF Write, TypeOK, Process, JournalRecord, Mine

-----------------------------------------------------------------------------
(* Type correctness *)

LEMMA InitType == Init => TypeOK
BY NoneAssumption DEF Init, TypeOK, Fresh, Idle, Running, Process, Steps, LockSteps, Roles,
    JournalRecord, Stages

LEMMA TargetType ==
    ASSUME TypeOK, NEW j \in Journals, NEW kind \in Kinds
    PROVE  /\ Target(j, kind) \in JournalRecord
           /\ Fields(j, kind) \in SUBSET Resources
<1>1. journal[j] \in JournalRecord
  BY DEF TypeOK
<1>2. Fields(j, kind) \in SUBSET Resources
  BY <1>1 DEF Fields, JournalRecord
<1>3. TargetStage(j, kind) \in Stages
  BY <1>1 DEF TargetStage, JournalRecord, Stages
<1> QED BY <1>1, <1>2, <1>3 DEF Target, Revised, JournalRecord

(* The part of the type invariant that speaks of the processes.            *)
ProcType ==
    /\ proc \in [Procs -> Process]
    /\ \A p \in Procs : proc[p].pc # "idle" => proc[p].at \in Journals

LEMMA ProcFacts ==
    ASSUME TypeOK, NEW p \in Procs, proc[p].pc # "idle"
    PROVE  /\ proc[p].at \in Journals
           /\ proc[p].then \in Steps
           /\ proc[p].seen \in Nat
           /\ KeyOf[proc[p].at] \in Resources
           /\ Exec \in Resources
           /\ Mine(p) \in JournalRecord
           /\ Mine(p).rev \in Nat
           /\ Mine(p).stage \in Stages
           /\ Mine(p).bound \in SUBSET Resources
           /\ Mine(p).gen \in Nat
<1>1. proc[p] \in Process /\ proc[p].at \in Journals
  BY DEF TypeOK
<1>2. Mine(p) \in JournalRecord
  BY <1>1 DEF TypeOK, Mine
<1>3. KeyOf[proc[p].at] \in Resources /\ Exec \in Resources
  BY <1>1, KeysAssumption DEF Resources
<1> QED BY <1>1, <1>2, <1>3 DEF Process, JournalRecord

LEMMA GotoType ==
    ASSUME TypeOK, NEW p \in Procs, NEW step \in Steps, proc[p].pc # "idle", Goto(p, step)
    PROVE  ProcType'
<1>1. proc[p].seen \in Nat /\ proc[p].then \in Steps
  BY ProcFacts
<1>2. Become(p, step, proc[p].seen, proc[p].then)
  BY DEF Goto
<1> QED BY <1>1, <1>2, BecomeFacts DEF ProcType

LEMMA WriteType ==
    ASSUME TypeOK, NEW p \in Procs, NEW stage \in Stages, NEW bound \in SUBSET Resources,
           NEW gen \in Nat, NEW step \in Steps,
           proc[p].pc # "idle", Write(p, stage, bound, gen, step)
    PROVE  ProcType' /\ journal' \in [Journals -> JournalRecord]
<1>1. /\ journal' \in [Journals -> JournalRecord]
      /\ Become(p, step, Mine(p).rev + 1, proc[p].then)
      /\ Mine(p).rev + 1 \in Nat
      /\ proc[p].then \in Steps
  BY WriteFacts
<1> QED BY <1>1, BecomeFacts DEF ProcType

LEMMA WriteStageType ==
    ASSUME TypeOK, NEW p \in Procs, NEW stage \in Stages, NEW step \in Steps,
           proc[p].pc # "idle", WriteStage(p, stage, step)
    PROVE  ProcType' /\ journal' \in [Journals -> JournalRecord]
<1>1. Mine(p).bound \in SUBSET Resources /\ Mine(p).gen \in Nat
  BY ProcFacts
<1>2. Write(p, stage, Mine(p).bound, Mine(p).gen, step)
  BY DEF WriteStage
<1> QED BY <1>1, <1>2, WriteType

(* A release guard is well formed.                                          *)
LEMMA NewGuardType ==
    ASSUME TypeOK, NEW j \in Journals, NEW kind \in Kinds
    PROVE  NewGuard(j, kind) \in Guard
<1>1. Target(j, kind) \in JournalRecord /\ Fields(j, kind) \in SUBSET Resources
  BY TargetType
<1>2. journal[j].rev \in Nat
  BY DEF TypeOK, JournalRecord
<1>3. [r \in Resources |-> IF r \in Fields(j, kind) THEN locks[r] ELSE None]
        \in [Resources -> LockFile \cup {None}]
  BY DEF TypeOK
<1> QED BY <1>1, <1>2, <1>3 DEF NewGuard, Guard

(* Only a running process takes a step.                                    *)
LEMMA StepBusy ==
    ASSUME NEW p \in Procs, Step(p)
    PROVE  proc[p].pc # "idle"
BY DEF Step, ClaimReplay, AttachReplay, Confirm, ClaimExec, ExecRefused, AttachExec, AttachFails,
    MarkAttempted, RecordRuntime, Launch, PersistResult, PersistProof, GiveUp, Abort, AbortRefused,
    BeginRelease, CanRelease, Asks, Unlink, WriteTarget, ClearGuard, FailRelease, RecoverRefused,
    SettleRefused, Withdraw, FinalWrite, Exit, ResumePending, Read, Sweep, Leave

LEMMA StepType ==
    ASSUME TypeOK, AttachInv, ReleaseInv, NEW p \in Procs, Step(p)
    PROVE  TypeOK'
<1>0. proc[p].pc # "idle"
  BY StepBusy
<1>1. CASE ClaimReplay(p)
  <2>1. ProcType'
    BY <1>0, <1>1, GotoType DEF ClaimReplay, Steps, LockSteps
  <2>2. locks' \in [Resources -> LockFile \cup {None}]
    BY <1>0, <1>1, ProcFacts DEF ClaimReplay, TypeOK, LockFile
  <2> QED BY <1>1, <2>1, <2>2 DEF ClaimReplay, Section, TypeOK, ProcType, worldVars, countVars
<1>2. CASE AttachReplay(p)
  <2>1. Mine(p).bound \cup {KeyOf[proc[p].at]} \in SUBSET Resources /\ Mine(p).gen \in Nat
    BY <1>0, ProcFacts
  <2>2. ProcType' /\ journal' \in [Journals -> JournalRecord]
    BY <1>0, <1>2, <2>1, WriteType DEF AttachReplay, Stages, Steps
  <2> QED BY <1>2, <2>1, <2>2 DEF AttachReplay, TypeOK, ProcType, worldVars, countVars
<1>3. CASE Confirm(p)
  <2>1. ProcType' /\ journal' \in [Journals -> JournalRecord]
    BY <1>0, <1>3, WriteStageType DEF Confirm, Stages, Steps
  <2> QED BY <1>3, <2>1 DEF Confirm, Section, TypeOK, ProcType, worldVars, countVars
<1>4. CASE ClaimExec(p)
  <2>1. ProcType'
    BY <1>0, <1>4, GotoType DEF ClaimExec, Steps, LockSteps
  <2>2. claims' \in Nat
    BY <1>4 DEF ClaimExec, TypeOK
  <2>3. locks' \in [Resources -> LockFile \cup {None}]
    BY <1>0, <1>4, ProcFacts DEF ClaimExec, TypeOK, LockFile
  <2> QED BY <1>4, <2>1, <2>2, <2>3 DEF ClaimExec, Section, TypeOK, ProcType, worldVars, countVars
<1>5. CASE ExecRefused(p)
  <2>1. ProcType'
    BY <1>0, <1>5, GotoType DEF ExecRefused, Steps, LockSteps, OnFailure
  <2> QED BY <1>5, <2>1 DEF ExecRefused, TypeOK, ProcType, worldVars, countVars
<1>6. CASE AttachExec(p)
  <2>1. locks[Exec] \in LockFile
    BY <1>0, <1>6, ProcFacts DEF AttachExec, AttachInv, TypeOK
  <2>2. Mine(p).bound \cup {Exec} \in SUBSET Resources /\ locks[Exec].gen \in Nat
    BY <1>0, <2>1, ProcFacts DEF LockFile
  <2>3. ProcType' /\ journal' \in [Journals -> JournalRecord]
    BY <1>0, <1>6, <2>2, WriteType DEF AttachExec, Stages, Steps
  <2> QED BY <1>6, <2>1, <2>2, <2>3 DEF AttachExec, TypeOK, ProcType, worldVars, countVars
<1>7. CASE AttachFails(p)
  <2>1. ProcType'
    BY <1>0, <1>7, GotoType DEF AttachFails, Steps, LockSteps, OnFailure
  <2>2. faults' \in Nat
    BY <1>7 DEF AttachFails, TypeOK
  <2>3. locks' \in [Resources -> LockFile \cup {None}]
    BY <1>7 DEF AttachFails, TypeOK
  <2> QED BY <1>7, <2>1, <2>2, <2>3 DEF AttachFails, TypeOK, ProcType, worldVars, countVars
<1>8. CASE MarkAttempted(p)
  <2>1. ProcType' /\ journal' \in [Journals -> JournalRecord]
    BY <1>0, <1>8, WriteStageType DEF MarkAttempted, Stages, Steps
  <2> QED BY <1>8, <2>1 DEF MarkAttempted, Section, TypeOK, ProcType, worldVars, countVars
<1>9. CASE RecordRuntime(p)
  <2>1. ProcType' /\ journal' \in [Journals -> JournalRecord]
    BY <1>0, <1>9, WriteStageType DEF RecordRuntime, Stages, Steps
  <2> QED BY <1>9, <2>1 DEF RecordRuntime, Section, TypeOK, ProcType, worldVars, countVars
<1>10. CASE Launch(p)
  <2>1. ProcType'
    BY <1>0, <1>10, GotoType DEF Launch, Steps, LockSteps
  <2>2. orders' \subseteq Journals
    BY <1>0, <1>10, ProcFacts DEF Launch, TypeOK
  <2> QED BY <1>10, <2>1, <2>2 DEF Launch, fileVars, TypeOK, ProcType, worldVars, countVars
<1>11. CASE PersistResult(p)
  <2>1. ProcType' /\ journal' \in [Journals -> JournalRecord]
    BY <1>0, <1>11, WriteStageType DEF PersistResult, Stages, Steps
  <2> QED BY <1>11, <2>1 DEF PersistResult, Section, TypeOK, ProcType, worldVars, countVars
<1>12. CASE PersistProof(p)
  <2>1. ProcType' /\ journal' \in [Journals -> JournalRecord]
    BY <1>0, <1>12, WriteStageType DEF PersistProof, Stages, Steps
  <2> QED BY <1>12, <2>1 DEF PersistProof, Section, TypeOK, ProcType, worldVars, countVars
<1>13. CASE GiveUp(p)
  <2>1. ProcType'
    BY <1>0, <1>13, GotoType DEF GiveUp, Steps, LockSteps, OnFailure
  <2> QED BY <1>13, <2>1 DEF GiveUp, fileVars, TypeOK, ProcType, worldVars, countVars
<1>14. CASE Abort(p)
  <2>1. CASE proc[p].role = "live" /\ proc[p].pc = "locked"
    <3>1. ProcType'
      BY <1>0, <1>14, <2>1, GotoType DEF Abort, Steps
    <3> QED BY <1>14, <2>1, <3>1 DEF Abort, TypeOK, ProcType, worldVars, countVars
  <2>2. CASE ~(proc[p].role = "live" /\ proc[p].pc = "locked")
    <3>1. (IF proc[p].role = "live" THEN "aborted" ELSE Mine(p).stage) \in Stages
      BY <1>0, ProcFacts DEF Stages
    <3>2. ProcType' /\ journal' \in [Journals -> JournalRecord]
      BY <1>0, <1>14, <2>2, <3>1, WriteStageType DEF Abort, Steps
    <3> QED BY <1>14, <2>2, <3>2 DEF Abort, Section, TypeOK, ProcType, worldVars, countVars
  <2> QED BY <2>1, <2>2
<1>15. CASE AbortRefused(p)
  <2>1. ProcType'
    BY <1>0, <1>15, GotoType DEF AbortRefused, Steps, LockSteps
  <2> QED BY <1>15, <2>1 DEF AbortRefused, fileVars, TypeOK, ProcType, worldVars, countVars
<1>16. ASSUME NEW kind \in Kinds, BeginRelease(p, kind) PROVE TypeOK'
  <2>1. ProcType'
    <3>1. AfterRelease(p, kind) \in Steps
      BY DEF AfterRelease, Steps
    <3> QED BY <1>0, <1>16, <3>1, ProcFacts, BecomeFacts
         DEF BeginRelease, ProcType, Steps, LockSteps
  <2>2. guard' \in Guard \cup {None}
    BY <1>0, <1>16, ProcFacts, NewGuardType DEF BeginRelease, TypeOK
  <2> QED BY <1>16, <2>1, <2>2 DEF BeginRelease, TypeOK, ProcType, worldVars, countVars
<1>17. CASE Unlink(p)
  <2>1. locks' \in [Resources -> LockFile \cup {None}]
    BY <1>17 DEF Unlink, TypeOK
  <2> QED BY <1>17, <2>1 DEF Unlink, TypeOK, ProcType, worldVars, countVars
<1>18. CASE WriteTarget(p)
  <2>1. guard \in Guard /\ guard.target \in JournalRecord /\ guard.target.rev \in Nat
    BY <1>18 DEF WriteTarget, ReleaseInv, InProgress, TypeOK, Guard, JournalRecord
  <2>2. ProcType'
    BY <1>0, <1>18, <2>1, ProcFacts, BecomeFacts DEF WriteTarget, ProcType, Steps, LockSteps
  <2>3. journal' \in [Journals -> JournalRecord]
    BY <1>18, <2>1 DEF WriteTarget, TypeOK
  <2> QED BY <1>18, <2>1, <2>2, <2>3 DEF WriteTarget, TypeOK, ProcType, worldVars, countVars
<1>19. CASE ClearGuard(p)
  <2>1. ProcType'
    BY <1>0, <1>19, ProcFacts, BecomeFacts DEF ClearGuard, ProcType, Steps
  <2> QED BY <1>19, <2>1 DEF ClearGuard, TypeOK, ProcType, worldVars, countVars
<1>20. CASE FailRelease(p)
  <2>1. AfterFailure(p) \in Steps
    BY DEF AfterFailure, Steps
  <2>2. ProcType'
    BY <1>0, <1>20, <2>1, ProcFacts, BecomeFacts DEF FailRelease, ProcType, Steps
  <2>3. faults' \in Nat
    BY <1>20 DEF FailRelease, TypeOK
  <2> QED BY <1>20, <2>1, <2>2, <2>3 DEF FailRelease, TypeOK, ProcType, worldVars, countVars
<1>21. CASE RecoverRefused(p)
  <2>1. ProcType'
    BY <1>0, <1>21, GotoType DEF RecoverRefused, Steps, LockSteps
  <2> QED BY <1>21, <2>1 DEF RecoverRefused, fileVars, TypeOK, ProcType, worldVars, countVars
<1>22. CASE SettleRefused(p)
  <2>1. ProcType'
    BY <1>0, <1>22, GotoType DEF SettleRefused, Steps, LockSteps
  <2> QED BY <1>22, <2>1 DEF SettleRefused, fileVars, TypeOK, ProcType, worldVars, countVars
<1>23. CASE Withdraw(p)
  <2>1. ProcType' /\ journal' \in [Journals -> JournalRecord]
    BY <1>0, <1>23, WriteStageType DEF Withdraw, Stages, Steps
  <2> QED BY <1>23, <2>1 DEF Withdraw, Section, TypeOK, ProcType, worldVars, countVars
<1>24. CASE FinalWrite(p)
  <2>1. FinalStage(p) \in Stages
    BY <1>0, ProcFacts DEF FinalStage, Stages
  <2>2. ProcType' /\ journal' \in [Journals -> JournalRecord]
    BY <1>0, <1>24, <2>1, WriteStageType DEF FinalWrite, Steps
  <2> QED BY <1>24, <2>1, <2>2 DEF FinalWrite, Section, TypeOK, ProcType, worldVars, countVars
<1>25. CASE Exit(p)
  <2>1. ProcType'
    BY <1>0, <1>25, GotoType DEF Exit, Steps, LockSteps
  <2> QED BY <1>25, <2>1 DEF Exit, fileVars, TypeOK, ProcType, worldVars, countVars
<1>26. CASE ResumePending(p)
  <2>1. CASE Goto(p, "reading") \/ Goto(p, "idle")
    <3>1. ProcType'
      BY <1>0, <2>1, GotoType DEF Steps
    <3> QED BY <1>26, <3>1 DEF ResumePending, TypeOK, ProcType, worldVars, countVars
  <2>2. CASE guard # None /\ Become(p, "unlinking", guard.source, "reading")
    <3>1. guard.source \in Nat
      BY <2>2 DEF TypeOK, Guard
    <3>2. ProcType'
      BY <1>0, <2>2, <3>1, BecomeFacts DEF ProcType, Steps, LockSteps
    <3> QED BY <1>26, <3>2 DEF ResumePending, TypeOK, ProcType, worldVars, countVars
  <2> QED BY <1>26, <2>1, <2>2 DEF ResumePending, Interrupted
<1>27. CASE Read(p)
  <2>1. AfterRead(p) \in Steps
    BY DEF AfterRead, Steps
  <2>2. ProcType'
    BY <1>0, <1>27, <2>1, ProcFacts, BecomeFacts DEF Read, ProcType, Steps
  <2> QED BY <1>27, <2>1, <2>2 DEF Read, fileVars, TypeOK, ProcType, worldVars, countVars
<1>28. CASE Sweep(p)
  <2>1. Goto(p, "swept") \/ Goto(p, "idle")
    BY <1>28 DEF Sweep
  <2>2. ProcType'
    BY <1>0, <2>1, GotoType DEF Steps
  <2>3. locks' \in [Resources -> LockFile \cup {None}]
    BY <1>28 DEF Sweep, TypeOK
  <2> QED BY <1>28, <2>2, <2>3 DEF Sweep, Section, TypeOK, ProcType, worldVars, countVars
<1>29. CASE Leave(p)
  <2>1. ProcType'
    BY <1>0, <1>29, GotoType DEF Leave, Steps, LockSteps
  <2> QED BY <1>29, <2>1 DEF Leave, fileVars, TypeOK, ProcType, worldVars, countVars
<1> QED BY <1>1, <1>2, <1>3, <1>4, <1>5, <1>6, <1>7, <1>8, <1>9, <1>10, <1>11, <1>12, <1>13,
    <1>14, <1>15, <1>16, <1>17, <1>18, <1>19, <1>20, <1>21, <1>22, <1>23, <1>24, <1>25, <1>26,
    <1>27, <1>28, <1>29 DEF Step

LEMMA BeginType ==
    ASSUME TypeOK, NEW p \in Procs, NEW j \in Journals,
           Start(p, j) \/ Resume(p, j) \/ Reconcile(p, j)
    PROVE  TypeOK'
<1>1. CASE Start(p, j)
  <2>1. Running("begun", "live", j, 1, FALSE) \in Process
    BY DEF Running, Process, Steps, LockSteps, Roles
  <2>2. ProcType'
    BY <1>1, <2>1 DEF Start, TypeOK, ProcType, Running
  <2>3. Revised(j, "requested", {}, 0) \in JournalRecord
    BY DEF Revised, TypeOK, JournalRecord, Stages
  <2>4. journal' \in [Journals -> JournalRecord]
    BY <1>1, <2>3 DEF Start, TypeOK
  <2> QED BY <1>1, <2>2, <2>4 DEF Start, Section, TypeOK, ProcType, worldVars, countVars
<1>2. ASSUME NEW command \in {"resume", "reconcile"}, Command(p, j, command)
      PROVE  TypeOK'
  <2>1. Running("opening", command, j, 0, command = "reconcile" /\ j \in expired) \in Process
    BY DEF Running, Process, Steps, LockSteps, Roles
  <2>2. ProcType'
    BY <1>2, <2>1 DEF Command, TypeOK, ProcType, Running
  <2> QED BY <1>2, <2>2 DEF Command, TypeOK, ProcType, fileVars, worldVars, countVars
<1> QED BY <1>1, <1>2 DEF Resume, Reconcile

LEMMA CrashType ==
    ASSUME TypeOK, NEW p \in Procs, Crash(p)
    PROVE  TypeOK'
<1>1. ProcType'
  BY GotoType DEF Crash, Steps
<1>2. faults' \in Nat
  BY DEF Crash, TypeOK
<1> QED BY <1>1, <1>2 DEF Crash, TypeOK, ProcType, fileVars, worldVars

LEMMA NextType == TypeOK /\ AttachInv /\ ReleaseInv /\ [Next]_vars => TypeOK'
<1> SUFFICES ASSUME TypeOK, AttachInv, ReleaseInv, [Next]_vars PROVE TypeOK'
  OBVIOUS
<1>1. ASSUME NEW j \in Journals, Expire(j) PROVE TypeOK'
  BY <1>1 DEF Expire, TypeOK, fileVars, countVars
<1>2. CASE UNCHANGED vars
  BY <1>2 DEF vars, TypeOK, fileVars, worldVars, countVars
<1> QED BY <1>1, <1>2, StepType, CrashType, BeginType DEF Next

-----------------------------------------------------------------------------
(* The lock layer *)

(* Process p moves, from outside a critical section to outside one.        *)
Strolls(p) ==
    /\ proc[p].pc \notin LockSteps
    /\ proc'[p].pc \notin LockSteps
    /\ \A q \in Procs \ {p} : proc'[q] = proc[q]

LEMMA GotoStrolls ==
    ASSUME TypeOK, NEW p \in Procs, NEW step \in Steps \ LockSteps,
           proc[p].pc \notin LockSteps \cup {"idle"}, Goto(p, step)
    PROVE  Strolls(p)
<1>1. proc[p].seen \in Nat /\ proc[p].then \in Steps
  BY ProcFacts
<1>2. Become(p, step, proc[p].seen, proc[p].then)
  BY DEF Goto
<1> QED BY <1>1, <1>2, BecomeFacts DEF Strolls

LEMMA WriteStageStrolls ==
    ASSUME TypeOK, NEW p \in Procs, NEW stage \in Stages, NEW step \in Steps \ LockSteps,
           proc[p].pc \notin LockSteps \cup {"idle"}, WriteStage(p, stage, step)
    PROVE  /\ Strolls(p)
           /\ journal' = [journal EXCEPT ![proc[p].at] =
                             Revised(proc[p].at, stage, journal[proc[p].at].bound,
                                     journal[proc[p].at].gen)]
<1>1. Mine(p).bound \in SUBSET Resources /\ Mine(p).gen \in Nat
  BY ProcFacts
<1>2. Write(p, stage, Mine(p).bound, Mine(p).gen, step)
  BY DEF WriteStage
<1>3. /\ journal' = [journal EXCEPT ![proc[p].at] =
                        Revised(proc[p].at, stage, Mine(p).bound, Mine(p).gen)]
      /\ Become(p, step, Mine(p).rev + 1, proc[p].then)
      /\ Mine(p).rev + 1 \in Nat
      /\ proc[p].then \in Steps
  BY <1>1, <1>2, WriteFacts
<1> QED BY <1>3, BecomeFacts DEF Strolls, Mine

(* Nobody is in a critical section and no release is half done.            *)
LEMMA OpenSection ==
    ASSUME TypeOK, LockInv, mutex = None, GuardAdmits
    PROVE  /\ \A q \in Procs : proc[q].pc \notin LockSteps
           /\ \A j \in Journals : ~InProgress(j)
           /\ \A j \in Journals : \A r \in journal[j].bound : Owned(j, r)
<1>1. \A q \in Procs : proc[q].pc \notin LockSteps
  BY NoneAssumption DEF LockInv, MutexInv
<1>2. \A j \in Journals : ~InProgress(j)
  <2>1. guard # None => guard.source \in Nat /\ guard.target.rev = guard.source + 1
    BY DEF LockInv, GuardInv, TypeOK, Guard
  <2> QED BY <2>1 DEF GuardAdmits, GuardCompleted, InProgress
<1>3. \A j \in Journals : \A r \in journal[j].bound : Owned(j, r)
  BY <1>2 DEF LockInv, BindingBacked, InProgress
<1> QED BY <1>1, <1>2, <1>3

(* A step that touches no file, or at most removes a completed guard.      *)
LEMMA QuietLock ==
    ASSUME TypeOK, LockInv, NEW p \in Procs, Strolls(p),
           UNCHANGED <<journal, locks, mutex>>,
           guard' = guard \/ (mutex = None /\ GuardAdmits /\ guard' = None)
    PROVE  LockInv'
<1>1. MutexInv'
  BY DEF LockInv, MutexInv, Strolls
<1>2. CASE guard' = guard
  <2>1. AttachInv' /\ ReleaseInv'
    BY <1>2 DEF LockInv, AttachInv, ReleaseInv, InProgress, Strolls, LockSteps, Mine
  <2>2. GuardInv'
    BY <1>2 DEF LockInv, GuardInv
  <2>3. BindingBacked'
    BY <1>2 DEF LockInv, BindingBacked, Owned
  <2> QED BY <1>1, <2>1, <2>2, <2>3 DEF LockInv
<1>3. CASE mutex = None /\ GuardAdmits /\ guard' = None
  <2>1. AttachInv' /\ ReleaseInv'
    BY <1>3, OpenSection DEF AttachInv, ReleaseInv, Strolls, LockSteps
  <2>2. GuardInv'
    BY <1>3 DEF GuardInv
  <2>3. BindingBacked'
    BY <1>3, OpenSection DEF BindingBacked, Owned
  <2> QED BY <1>1, <2>1, <2>2, <2>3 DEF LockInv
<1> QED BY <1>2, <1>3

(* A journal write in a short critical section.                            *)
LEMMA WriteLock ==
    ASSUME TypeOK, LockInv, NEW p \in Procs, Strolls(p), NEW j \in Journals, NEW stage,
           Section, UNCHANGED <<locks, mutex>>,
           journal' = [journal EXCEPT ![j] = Revised(j, stage, journal[j].bound, journal[j].gen)]
    PROVE  LockInv'
<1>1. MutexInv'
  BY DEF LockInv, MutexInv, Strolls
<1>2. AttachInv' /\ ReleaseInv'
  BY OpenSection DEF AttachInv, ReleaseInv, Strolls, LockSteps, Section
<1>3. GuardInv'
  BY DEF GuardInv, Section
<1>4. BindingBacked'
  <2>1. \A i \in Journals : journal'[i].bound = journal[i].bound /\ journal'[i].gen = journal[i].gen
    BY DEF TypeOK, Revised
  <2> QED BY <2>1, OpenSection DEF BindingBacked, Owned, Section
<1> QED BY <1>1, <1>2, <1>3, <1>4 DEF LockInv

(* Publishing the file of a free lock, to be attached next.                *)
LEMMA PublishLock ==
    ASSUME TypeOK, LockInv, NEW p \in Procs, proc[p].pc # "idle",
           NEW r \in Resources, NEW file \in LockFile, NEW step \in {"attachReplay", "attachExec"},
           step = "attachReplay" => r = KeyOf[proc[p].at],
           step = "attachExec" => r = Exec,
           file.owner = proc[p].at,
           Section, locks[r] = None, mutex' = p, UNCHANGED journal,
           locks' = [locks EXCEPT ![r] = file],
           Goto(p, step)
    PROVE  LockInv'
<1>1. mutex = None /\ GuardAdmits /\ guard' = None /\ proc[p].at \in Journals
  BY ProcFacts DEF Section
<1>2. /\ proc'[p].pc = step /\ proc'[p].at = proc[p].at
      /\ \A q \in Procs \ {p} : proc'[q] = proc[q]
  BY ProcFacts, BecomeFacts DEF Goto, Steps, LockSteps
<1>3. \A q \in Procs \ {p} : proc'[q].pc \notin LockSteps
  BY <1>1, <1>2, OpenSection
<1>4. MutexInv'
  BY <1>1, <1>2, <1>3, NoneAssumption DEF MutexInv, LockSteps
<1>5. r \notin journal[proc[p].at].bound
  BY <1>1, OpenSection DEF Owned
<1>6. locks'[r] = file /\ locks'[r] # None
  BY NoneAssumption DEF TypeOK
<1>7. AttachInv' /\ ReleaseInv'
  BY <1>1, <1>2, <1>3, <1>5, <1>6 DEF AttachInv, ReleaseInv, LockSteps, Mine
<1>8. GuardInv'
  BY <1>1 DEF GuardInv
<1>9. BindingBacked'
  BY <1>1, OpenSection DEF BindingBacked, Owned, TypeOK
<1> QED BY <1>4, <1>7, <1>8, <1>9 DEF LockInv

(* The step of process p ends its critical section.                        *)
LEMMA LeaveSection ==
    ASSUME TypeOK, LockInv, NEW p \in Procs, proc[p].pc \in LockSteps,
           mutex' = None, proc'[p].pc \notin LockSteps,
           \A q \in Procs \ {p} : proc'[q] = proc[q]
    PROVE  MutexInv' /\ \A q \in Procs : proc'[q].pc \notin LockSteps
<1>1. \A q \in Procs \ {p} : proc[q].pc \notin LockSteps
  BY DEF LockInv, MutexInv
<1> QED BY <1>1, NoneAssumption DEF MutexInv

(* Binding the journal to the published lock.                              *)
LEMMA AttachLock ==
    ASSUME TypeOK, LockInv, NEW p \in Procs, proc[p].pc \in {"attachReplay", "attachExec"},
           NEW r \in Resources, NEW stage \in Stages, NEW gen \in Nat, NEW step \in Steps \ LockSteps,
           guard = None, locks[r] # None, locks[r].owner = proc[p].at,
           IF r = Exec THEN gen = locks[Exec].gen ELSE gen = Mine(p).gen,
           Write(p, stage, Mine(p).bound \cup {r}, gen, step),
           mutex' = None, UNCHANGED <<locks, guard>>
    PROVE  LockInv'
<1>0. proc[p].pc # "idle" /\ proc[p].pc \in LockSteps
  BY DEF LockSteps
<1>1. proc[p].at \in Journals /\ Mine(p).bound \cup {r} \in SUBSET Resources /\ step \in Steps
  BY <1>0, ProcFacts
<1>2. /\ journal' = [journal EXCEPT ![proc[p].at] =
                        Revised(proc[p].at, stage, Mine(p).bound \cup {r}, gen)]
      /\ Become(p, step, Mine(p).rev + 1, proc[p].then)
      /\ Mine(p).rev + 1 \in Nat
      /\ proc[p].then \in Steps
  BY <1>0, ProcFacts DEF Write
<1>3. proc'[p].pc = step /\ \A q \in Procs \ {p} : proc'[q] = proc[q]
  BY <1>0, <1>2, BecomeFacts
<1>4. MutexInv' /\ \A q \in Procs : proc'[q].pc \notin LockSteps
  BY <1>0, <1>3, LeaveSection
<1>5. AttachInv' /\ ReleaseInv'
  BY <1>4 DEF AttachInv, ReleaseInv, LockSteps
<1>6. GuardInv'
  BY DEF GuardInv
<1>7. BindingBacked'
  <2> SUFFICES ASSUME NEW j \in Journals, NEW s \in journal'[j].bound PROVE Owned(j, s)'
    BY DEF BindingBacked
  <2>1. \A t \in journal[j].bound : Owned(j, t)
    BY DEF LockInv, BindingBacked
  <2>2. CASE j # proc[p].at
    BY <1>1, <1>2, <2>1, <2>2 DEF Owned, TypeOK
  <2>3. CASE j = proc[p].at
    <3>1. /\ journal'[j].bound = journal[j].bound \cup {r}
          /\ journal'[j].gen = gen
      BY <1>1, <1>2, <2>3 DEF TypeOK, Revised, Mine
    <3>2. CASE s = r
      BY <2>3, <3>1, <3>2 DEF Owned
    <3>3. CASE s # r
      BY <2>1, <2>3, <3>1, <3>3 DEF Owned, Mine
    <3> QED BY <3>2, <3>3
  <2> QED BY <2>2, <2>3
<1> QED BY <1>4, <1>5, <1>6, <1>7 DEF LockInv

(* The claims, whole or failing.                                           *)
LEMMA ClaimLock ==
    ASSUME TypeOK, LockInv, NEW p \in Procs,
           ClaimReplay(p) \/ ClaimExec(p) \/ AttachReplay(p) \/ AttachExec(p) \/ AttachFails(p)
    PROVE  LockInv'
<1>0. proc[p].pc # "idle"
  BY DEF ClaimReplay, ClaimExec, AttachReplay, AttachExec, AttachFails
<1>1. CASE ClaimReplay(p)
  <2> DEFINE file == [owner |-> proc[p].at, gen |-> 0, source |-> Mine(p).rev]
  <2>1. file \in LockFile
    BY <1>0, ProcFacts DEF LockFile
  <2>2. /\ Section /\ locks[KeyOf[proc[p].at]] = None /\ mutex' = p /\ UNCHANGED journal
        /\ locks' = [locks EXCEPT ![KeyOf[proc[p].at]] = file]
        /\ Goto(p, "attachReplay")
    BY <1>1 DEF ClaimReplay, Absent
  <2> HIDE DEF file
  <2>3. file.owner = proc[p].at
    BY DEF file
  <2> QED BY <1>0, <2>1, <2>2, <2>3, PublishLock, ProcFacts
<1>2. CASE ClaimExec(p)
  <2> DEFINE file == [owner |-> proc[p].at, gen |-> claims + 1, source |-> Mine(p).rev]
  <2>1. file \in LockFile
    BY <1>0, ProcFacts DEF LockFile, TypeOK
  <2>2. /\ Section /\ locks[Exec] = None /\ mutex' = p /\ UNCHANGED journal
        /\ locks' = [locks EXCEPT ![Exec] = file]
        /\ Goto(p, "attachExec")
    BY <1>2 DEF ClaimExec, Absent
  <2> HIDE DEF file
  <2>3. file.owner = proc[p].at
    BY DEF file
  <2> QED BY <1>0, <2>1, <2>2, <2>3, PublishLock, ProcFacts
<1>3. CASE AttachReplay(p)
  <2> DEFINE k == KeyOf[proc[p].at]
  <2>1. k \in Resources /\ k # Exec
    BY <1>0, ProcFacts, KeysAssumption, ExecAssumption
  <2>2. guard = None /\ locks[k] # None /\ locks[k].owner = proc[p].at
    BY <1>3 DEF AttachReplay, LockInv, AttachInv
  <2>3. /\ Write(p, "reserved", Mine(p).bound \cup {k}, Mine(p).gen, "reserved")
        /\ mutex' = None /\ UNCHANGED <<locks, guard>> /\ proc[p].pc = "attachReplay"
    BY <1>3 DEF AttachReplay
  <2>4. Mine(p).gen \in Nat
    BY <1>0, ProcFacts
  <2> HIDE DEF k
  <2> QED BY <2>1, <2>2, <2>3, <2>4, AttachLock DEF Stages, Steps, LockSteps
<1>4. CASE AttachExec(p)
  <2>1. guard = None /\ locks[Exec] # None /\ locks[Exec].owner = proc[p].at
    BY <1>4 DEF AttachExec, LockInv, AttachInv
  <2>2. /\ Write(p, "locked", Mine(p).bound \cup {Exec}, locks[Exec].gen, "locked")
        /\ mutex' = None /\ UNCHANGED <<locks, guard>> /\ proc[p].pc = "attachExec"
    BY <1>4 DEF AttachExec
  <2>3. Exec \in Resources
    BY DEF Resources
  <2>4. locks[Exec].gen \in Nat
    BY <2>1, <2>3 DEF TypeOK, LockFile
  <2> QED BY <2>1, <2>2, <2>3, <2>4, AttachLock DEF Stages, Steps, LockSteps
<1>5. CASE AttachFails(p)
  <2> DEFINE r == IF proc[p].pc = "attachExec" THEN Exec ELSE KeyOf[proc[p].at]
  <2>1. /\ guard = None /\ locks[r].owner = proc[p].at /\ r \notin journal[proc[p].at].bound
        /\ proc[p].pc \in LockSteps
    BY <1>5 DEF AttachFails, LockInv, AttachInv, LockSteps, Mine
  <2>2. /\ locks' = [locks EXCEPT ![r] = None]
        /\ mutex' = None /\ UNCHANGED <<journal, guard>>
        /\ Goto(p, OnFailure(p))
    BY <1>5 DEF AttachFails
  <2> HIDE DEF r
  <2>3. proc'[p].pc \notin LockSteps /\ \A q \in Procs \ {p} : proc'[q] = proc[q]
    <3>1. OnFailure(p) \in Steps /\ OnFailure(p) \notin LockSteps
      BY DEF OnFailure, Steps, LockSteps
    <3>2. Become(p, OnFailure(p), proc[p].seen, proc[p].then)
      BY <2>2 DEF Goto
    <3> QED BY <1>0, <3>1, <3>2, ProcFacts, BecomeFacts
  <2>4. MutexInv' /\ \A q \in Procs : proc'[q].pc \notin LockSteps
    BY <2>1, <2>2, <2>3, LeaveSection
  <2>5. AttachInv' /\ ReleaseInv' /\ GuardInv'
    BY <2>1, <2>2, <2>4 DEF AttachInv, ReleaseInv, GuardInv, LockSteps
  <2>6. BindingBacked'
    BY <2>1, <2>2 DEF BindingBacked, Owned, LockInv, TypeOK
  <2> QED BY <2>4, <2>5, <2>6 DEF LockInv
<1> QED BY <1>1, <1>2, <1>3, <1>4, <1>5

(* A release: guard, unlinks, journal, guard.                              *)
LEMMA EnterRelease ==
    ASSUME TypeOK, LockInv, NEW p \in Procs, proc[p].pc # "idle", NEW rev \in Nat, NEW next \in Steps \ LockSteps,
           mutex = None, mutex' = p, UNCHANGED <<journal, locks>>,
           Become(p, "unlinking", rev, next),
           GuardInv', InProgress(proc[p].at)', guard = None \/ guard' = guard
    PROVE  LockInv'
<1>0. "unlinking" \in Steps /\ next \in Steps
  BY DEF Steps, LockSteps
<1>1. /\ proc'[p].pc = "unlinking" /\ proc'[p].at = proc[p].at /\ proc'[p].then = next
      /\ \A q \in Procs \ {p} : proc'[q] = proc[q]
  BY <1>0, BecomeFacts
<1>2. \A q \in Procs \ {p} : proc'[q].pc \notin LockSteps
  BY <1>1, NoneAssumption DEF LockInv, MutexInv
<1>3. MutexInv'
  BY <1>1, <1>2, NoneAssumption DEF MutexInv, LockSteps
<1>4. AttachInv' /\ ReleaseInv'
  BY <1>1, <1>2 DEF AttachInv, ReleaseInv, LockSteps
<1>5. BindingBacked'
  BY DEF LockInv, BindingBacked, Owned
<1> QED BY <1>3, <1>4, <1>5 DEF LockInv

LEMMA BeginReleaseLock ==
    ASSUME TypeOK, LockInv, NEW p \in Procs, NEW kind \in Kinds, BeginRelease(p, kind)
    PROVE  LockInv'
<1>0. proc[p].pc # "idle"
  BY DEF BeginRelease, CanRelease, Asks
<1> PICK j \in Journals : j = proc[p].at
  BY <1>0, ProcFacts
<1>1. j \in Journals /\ proc[p].seen \in Nat /\ journal[j].rev \in Nat /\ journal[j] \in JournalRecord
  BY <1>0, ProcFacts DEF Mine
<1>2. AfterRelease(p, kind) \in Steps /\ AfterRelease(p, kind) \notin LockSteps
  BY DEF AfterRelease, Steps, LockSteps
<1>3. /\ mutex = None /\ mutex' = p /\ UNCHANGED <<journal, locks>>
      /\ Become(p, "unlinking", proc[p].seen, AfterRelease(p, kind))
      /\ proc[p].seen = journal[j].rev
  BY DEF BeginRelease, CanRelease, Current, Mine
<1>6. proc'[p].at = j
  <2>1. "unlinking" \in Steps
    BY DEF Steps, LockSteps
  <2> QED BY <1>0, <1>1, <1>2, <1>3, <2>1, BecomeFacts
<1>4. CASE guard = None
  <2>1. guard' = NewGuard(j, kind) /\ guard' # None /\ Verified(j, kind)
    BY <1>1, <1>4, NewGuardType, NoneAssumption DEF BeginRelease, CanRelease, Adoptable
  <2>2. /\ guard'.journal = j /\ guard'.kind = kind /\ guard'.fields = Fields(j, kind)
        /\ guard'.source = journal[j].rev /\ guard'.target = Target(j, kind)
        /\ guard'.locks = [r \in Resources |-> IF r \in Fields(j, kind) THEN locks[r] ELSE None]
    BY <2>1 DEF NewGuard
  <2>3. Target(j, kind).rev = journal[j].rev + 1
    BY <1>1 DEF Target, Revised
  <2>4. \A r \in Fields(j, kind) : Owned(j, r) /\ r \in Resources
    BY <1>1, <2>1, TargetType DEF Verified
  <2>5. /\ Target(j, kind).bound = journal[j].bound \ Fields(j, kind)
        /\ Exec \in Target(j, kind).bound => Target(j, kind).gen = journal[j].gen
    BY DEF Target, Revised
  <2>6. \A r \in guard'.fields : /\ locks'[r] = guard'.locks[r]
                                 /\ guard'.locks[r] # None
                                 /\ guard'.locks[r].owner = j
                                 /\ r = Exec => guard'.locks[r].gen = journal'[j].gen
    BY <1>3, <2>2, <2>4 DEF Owned
  <2>7. GuardInv'
    BY <1>3, <2>1, <2>2, <2>3, <2>5, <2>6 DEF GuardInv
  <2>8. InProgress(proc[p].at)'
    BY <1>1, <1>3, <1>6, <2>1, <2>2 DEF InProgress
  <2> QED BY <1>0, <1>1, <1>2, <1>3, <1>4, <2>7, <2>8, EnterRelease
<1>5. CASE guard # None
  <2>1. guard' = guard /\ Adoptable(p, kind)
    BY <1>5 DEF BeginRelease, CanRelease
  <2>2. GuardInv'
    BY <1>3, <2>1 DEF LockInv, GuardInv
  <2>3. InProgress(proc[p].at)'
    BY <1>1, <1>3, <1>6, <2>1 DEF InProgress, Adoptable
  <2> QED BY <1>0, <1>1, <1>2, <1>3, <2>1, <2>2, <2>3, EnterRelease
<1> QED BY <1>4, <1>5

LEMMA UnlinkLock ==
    ASSUME TypeOK, LockInv, NEW p \in Procs, Unlink(p)
    PROVE  LockInv'
<1>1. /\ proc[p].pc = "unlinking" /\ mutex = p /\ InProgress(proc[p].at)
      /\ UNCHANGED <<journal, guard, mutex, proc>>
  BY DEF Unlink, LockInv, MutexInv, ReleaseInv, LockSteps
<1>2. PICK r \in guard.fields : locks[r] = guard.locks[r] /\ locks' = [locks EXCEPT ![r] = None]
  BY DEF Unlink, Remaining
<1>3. guard # None /\ guard \in Guard /\ r \in Resources /\ guard.source \in Nat
  BY <1>1 DEF InProgress, TypeOK, Guard
<1>4. locks[r].owner = guard.journal
  BY <1>1, <1>2, <1>3 DEF InProgress, LockInv, GuardInv
<1>5. MutexInv'
  BY <1>1 DEF LockInv, MutexInv
<1>6. AttachInv' /\ ReleaseInv'
  BY <1>1, <1>3 DEF LockInv, MutexInv, AttachInv, ReleaseInv, InProgress, LockSteps, Mine
<1>7. GuardInv'
  BY <1>1, <1>2, <1>3 DEF LockInv, GuardInv, TypeOK
<1>8. BindingBacked'
  <2> SUFFICES ASSUME NEW j \in Journals, NEW s \in journal[j].bound
               PROVE  Owned(j, s)' \/ (guard # None /\ guard.journal = j
                                       /\ guard.source = journal[j].rev /\ s \in guard.fields)
    BY <1>1 DEF BindingBacked
  <2>1. Owned(j, s) \/ (guard # None /\ guard.journal = j
                        /\ guard.source = journal[j].rev /\ s \in guard.fields)
    BY DEF LockInv, BindingBacked
  <2>2. CASE s # r
    BY <1>1, <1>2, <2>1, <2>2 DEF Owned, TypeOK
  <2>3. CASE s = r
    BY <1>1, <1>2, <1>3, <1>4, <2>1, <2>3 DEF Owned, InProgress
  <2> QED BY <2>2, <2>3
<1> QED BY <1>5, <1>6, <1>7, <1>8 DEF LockInv

LEMMA WriteTargetLock ==
    ASSUME TypeOK, LockInv, NEW p \in Procs, WriteTarget(p)
    PROVE  LockInv'
<1>0. proc[p].pc # "idle" /\ proc[p].pc \in LockSteps
  BY DEF WriteTarget, LockSteps
<1>1. /\ guard # None /\ guard.journal = proc[p].at /\ journal[guard.journal].rev = guard.source
      /\ mutex = p
  BY <1>0 DEF WriteTarget, LockInv, MutexInv, ReleaseInv, InProgress
<1>2. guard \in Guard /\ guard.source \in Nat /\ guard.journal \in Journals
      /\ guard.target \in JournalRecord /\ guard.target.rev \in Nat
  BY <1>1 DEF TypeOK, Guard, JournalRecord
<1>3. guard.target.rev = guard.source + 1
  BY <1>1 DEF LockInv, GuardInv
<1>4. /\ journal' = [journal EXCEPT ![guard.journal] = guard.target]
      /\ Become(p, "clearing", guard.target.rev, proc[p].then)
      /\ UNCHANGED <<locks, guard, mutex>>
  BY DEF WriteTarget
<1>5. /\ proc'[p].pc = "clearing" /\ proc'[p].at = proc[p].at /\ proc'[p].then = proc[p].then
      /\ \A q \in Procs \ {p} : proc'[q] = proc[q]
  <2>1. "clearing" \in Steps
    BY DEF Steps, LockSteps
  <2> QED BY <1>0, <1>2, <1>4, <2>1, ProcFacts, BecomeFacts
<1>6. \A q \in Procs \ {p} : proc[q].pc \notin LockSteps
  BY <1>1 DEF LockInv, MutexInv
<1>7. MutexInv'
  BY <1>1, <1>4, <1>5, <1>6 DEF MutexInv, LockSteps
<1>8. journal'[guard.journal] = guard.target
  BY <1>2, <1>4 DEF TypeOK
<1>9. AttachInv' /\ ReleaseInv'
  <2>1. proc[p].then \notin LockSteps
    BY DEF WriteTarget, LockInv, ReleaseInv
  <2> QED BY <1>1, <1>4, <1>5, <1>6, <1>8, <2>1 DEF AttachInv, ReleaseInv, LockSteps
<1>10. GuardInv'
  BY <1>3, <1>4, <1>8 DEF GuardInv
<1>11. BindingBacked'
  <2> SUFFICES ASSUME NEW j \in Journals, NEW s \in journal'[j].bound PROVE Owned(j, s)'
    BY DEF BindingBacked
  <2>1. CASE j # guard.journal
    BY <1>2, <1>4, <2>1 DEF LockInv, BindingBacked, Owned, TypeOK
  <2>2. CASE j = guard.journal
    <3>1. /\ guard.target.bound = journal[j].bound \ guard.fields
          /\ Exec \in guard.target.bound => guard.target.gen = journal[j].gen
      BY <1>1, <1>2, <1>3, <2>2 DEF LockInv, GuardInv
    <3>2. s \in journal[j].bound /\ s \notin guard.fields
      BY <1>8, <2>2, <3>1
    <3>3. Owned(j, s)
      BY <3>2 DEF LockInv, BindingBacked
    <3> QED BY <1>4, <1>8, <2>2, <3>1, <3>3 DEF Owned
  <2> QED BY <2>1, <2>2
<1> QED BY <1>7, <1>9, <1>10, <1>11 DEF LockInv

(* Removing the guard, after the journal or before the first unlink.       *)
LEMMA ClearLock ==
    ASSUME TypeOK, LockInv, NEW p \in Procs, ClearGuard(p) \/ FailRelease(p)
    PROVE  LockInv'
<1>0. proc[p].pc # "idle" /\ proc[p].pc \in LockSteps
  BY DEF ClearGuard, FailRelease, LockSteps
<1>1. guard # None /\ guard.source \in Nat /\ guard.target.rev = guard.source + 1
  BY DEF ClearGuard, FailRelease, LockInv, GuardInv, ReleaseInv, InProgress, TypeOK, Guard
<1>2. guard' = None /\ mutex' = None /\ UNCHANGED <<journal, locks>>
  BY DEF ClearGuard, FailRelease
<1>3. proc'[p].pc \notin LockSteps /\ \A q \in Procs \ {p} : proc'[q] = proc[q]
  <2>1. CASE ClearGuard(p)
    <3>1. proc[p].then \notin LockSteps
      BY <2>1 DEF ClearGuard, LockInv, ReleaseInv
    <3> QED BY <1>0, <2>1, <3>1, ProcFacts, BecomeFacts DEF ClearGuard, Steps
  <2>2. CASE FailRelease(p)
    <3>1. AfterFailure(p) \in Steps /\ AfterFailure(p) \notin LockSteps
      BY DEF AfterFailure, Steps, LockSteps
    <3> QED BY <1>0, <2>2, <3>1, ProcFacts, BecomeFacts DEF FailRelease, Steps
  <2> QED BY <2>1, <2>2
<1>4. MutexInv' /\ \A q \in Procs : proc'[q].pc \notin LockSteps
  BY <1>0, <1>2, <1>3, LeaveSection
<1>5. AttachInv' /\ ReleaseInv' /\ GuardInv'
  BY <1>2, <1>4 DEF AttachInv, ReleaseInv, GuardInv, LockSteps
<1>6. BindingBacked'
  <2> SUFFICES ASSUME NEW j \in Journals, NEW s \in journal[j].bound PROVE Owned(j, s)
    BY <1>2 DEF BindingBacked, Owned
  <2>1. Owned(j, s) \/ (guard.journal = j /\ guard.source = journal[j].rev /\ s \in guard.fields)
    BY DEF LockInv, BindingBacked
  <2>2. CASE guard.journal = j /\ guard.source = journal[j].rev /\ s \in guard.fields
    <3>1. FailRelease(p)
      BY <1>1, <2>2 DEF ClearGuard, LockInv, ReleaseInv
    <3>2. locks[s] # None
      BY <2>2, <3>1 DEF FailRelease, Remaining
    <3>3. /\ locks[s] \in {None, guard.locks[s]}
          /\ guard.locks[s].owner = j
          /\ s = Exec => guard.locks[s].gen = journal[j].gen
      BY <1>1, <2>2 DEF LockInv, GuardInv
    <3> QED BY <3>2, <3>3 DEF Owned
  <2> QED BY <2>1, <2>2
<1> QED BY <1>4, <1>5, <1>6 DEF LockInv

(* The command resumes a half-done release of its journal, or reads it.    *)
LEMMA ResumePendingLock ==
    ASSUME TypeOK, LockInv, NEW p \in Procs, ResumePending(p)
    PROVE  LockInv'
<1>0. proc[p].pc \notin LockSteps \cup {"idle"} /\ UNCHANGED <<journal, locks>> /\ mutex = None
  BY DEF ResumePending, LockSteps
<1>1. CASE Goto(p, "reading") \/ Goto(p, "idle")
  <2>1. Strolls(p)
    BY <1>0, <1>1, GotoStrolls DEF Steps, LockSteps
  <2>2. CASE guard' = guard /\ mutex' = mutex
    BY <1>0, <2>1, <2>2, QuietLock
  <2>3. CASE GuardCompleted /\ guard' = None /\ mutex' = mutex
    BY <1>0, <2>1, <2>3, QuietLock DEF GuardAdmits
  <2>4. CASE mutex' = p /\ Become(p, "unlinking", guard.source, "reading") /\ guard # None
    <3>1. guard.source \in Nat /\ "unlinking" \in Steps /\ "reading" \in Steps
      BY <2>4 DEF TypeOK, Guard, Steps, LockSteps
    <3>2. proc'[p].pc = "unlinking"
      BY <1>0, <2>4, <3>1, BecomeFacts
    <3> QED BY <2>1, <3>2 DEF Strolls, LockSteps
  <2> QED BY <2>2, <2>3, <2>4 DEF ResumePending, Interrupted
<1>2. CASE /\ guard # None /\ guard.journal = proc[p].at /\ Mine(p).rev = guard.source
           /\ mutex' = p /\ guard' = guard
           /\ Become(p, "unlinking", guard.source, "reading")
  <2>1. guard.source \in Nat /\ "reading" \in Steps \ LockSteps /\ "unlinking" \in Steps
    BY <1>2 DEF TypeOK, Guard, Steps, LockSteps
  <2>2. proc'[p].at = proc[p].at
    BY <1>0, <1>2, <2>1, BecomeFacts
  <2>3. InProgress(proc[p].at)'
    BY <1>0, <1>2, <2>2 DEF InProgress, Mine
  <2>4. GuardInv'
    BY <1>0, <1>2 DEF LockInv, GuardInv
  <2> QED BY <1>0, <1>2, <2>1, <2>3, <2>4, EnterRelease
<1> QED BY <1>1, <1>2 DEF ResumePending, Interrupted

(* An orphaned execution lock file belongs to no journal.                  *)
LEMMA SweepLock ==
    ASSUME TypeOK, LockInv, NEW p \in Procs, Sweep(p)
    PROVE  LockInv'
<1>0. /\ proc[p].pc \notin LockSteps \cup {"idle"} /\ Section
      /\ UNCHANGED <<journal, mutex>>
      /\ Goto(p, "swept") \/ Goto(p, "idle")
  BY DEF Sweep, LockSteps
<1>1. Strolls(p)
  BY <1>0, GotoStrolls DEF Steps, LockSteps
<1>2. CASE UNCHANGED locks
  BY <1>0, <1>1, <1>2, QuietLock DEF Section
<1>3. CASE /\ locks[Exec] # None /\ locks[Exec].owner = proc[p].at
           /\ Exec \notin Mine(p).bound /\ locks' = [locks EXCEPT ![Exec] = None]
  <2>1. MutexInv'
    BY <1>0, <1>1 DEF LockInv, MutexInv, Strolls
  <2>2. \A q \in Procs : proc'[q].pc \notin LockSteps
    BY <1>0, <1>1, OpenSection DEF Strolls, Section
  <2>3. AttachInv' /\ ReleaseInv' /\ GuardInv'
    BY <1>0, <2>2 DEF AttachInv, ReleaseInv, GuardInv, LockSteps, Section
  <2>4. BindingBacked'
    BY <1>0, <1>3, OpenSection DEF BindingBacked, Owned, Section, Mine, TypeOK
  <2> QED BY <2>1, <2>3, <2>4 DEF LockInv
<1> QED BY <1>2, <1>3 DEF Sweep

(* A process that dies releases the mutex and leaves the files.            *)
LEMMA CrashLock ==
    ASSUME TypeOK, LockInv, NEW p \in Procs, Crash(p)
    PROVE  LockInv'
<1>1. "idle" \in Steps /\ "idle" \notin LockSteps
  BY DEF Steps, LockSteps
<1>2. proc'[p].pc = "idle" /\ \A q \in Procs \ {p} : proc'[q] = proc[q]
  BY <1>1, ProcFacts, BecomeFacts DEF Crash, Goto
<1>3. UNCHANGED <<journal, locks, guard>> /\ mutex' = IF mutex = p THEN None ELSE mutex
  BY DEF Crash, fileVars
<1>4. MutexInv'
  BY <1>1, <1>2, <1>3, NoneAssumption DEF LockInv, MutexInv
<1>5. AttachInv' /\ ReleaseInv'
  BY <1>2, <1>3 DEF LockInv, AttachInv, ReleaseInv, InProgress, Mine
<1>6. GuardInv' /\ BindingBacked'
  BY <1>3 DEF LockInv, GuardInv, BindingBacked, Owned
<1> QED BY <1>4, <1>5, <1>6 DEF LockInv

(* The steps outside a critical section.                                   *)
LEMMA PlainLock ==
    ASSUME TypeOK, LockInv, NEW p \in Procs,
           \/ Confirm(p) \/ MarkAttempted(p) \/ RecordRuntime(p) \/ Launch(p)
           \/ PersistResult(p) \/ PersistProof(p) \/ GiveUp(p) \/ Abort(p) \/ AbortRefused(p)
           \/ ExecRefused(p) \/ RecoverRefused(p) \/ SettleRefused(p) \/ Withdraw(p)
           \/ FinalWrite(p) \/ Exit(p) \/ Read(p) \/ Leave(p)
    PROVE  LockInv'
<1>0. proc[p].pc \notin LockSteps \cup {"idle"}
  BY DEF Confirm, MarkAttempted, RecordRuntime, Launch, PersistResult, PersistProof, GiveUp, Abort,
     AbortRefused, ExecRefused, RecoverRefused, SettleRefused, Withdraw, FinalWrite, Exit, Read,
     Leave, LockSteps
<1>1. ASSUME NEW step \in Steps \ LockSteps, Goto(p, step), UNCHANGED <<journal, locks, mutex>>,
             guard' = guard \/ (mutex = None /\ GuardAdmits /\ guard' = None)
      PROVE  LockInv'
  <2>1. Strolls(p)
    BY <1>0, <1>1, GotoStrolls
  <2> QED BY <1>1, <2>1, QuietLock
<1>2. ASSUME NEW stage \in Stages, NEW step \in Steps \ LockSteps, WriteStage(p, stage, step),
             Section, UNCHANGED <<locks, mutex>>
      PROVE  LockInv'
  <2>1. proc[p].at \in Journals
    BY <1>0, ProcFacts
  <2>2. /\ Strolls(p)
        /\ journal' = [journal EXCEPT ![proc[p].at] =
                          Revised(proc[p].at, stage, journal[proc[p].at].bound,
                                  journal[proc[p].at].gen)]
    BY <1>0, <1>2, WriteStageStrolls
  <2> QED BY <1>2, <2>1, <2>2, WriteLock
<1>3. CASE Launch(p)
  BY <1>1, <1>3 DEF Launch, fileVars, Steps, LockSteps
<1>4. CASE GiveUp(p)
  BY <1>1, <1>4 DEF GiveUp, fileVars, Steps, LockSteps, OnFailure
<1>5. CASE AbortRefused(p)
  BY <1>1, <1>5 DEF AbortRefused, fileVars, Steps, LockSteps
<1>6. CASE RecoverRefused(p)
  BY <1>1, <1>6 DEF RecoverRefused, fileVars, Steps, LockSteps
<1>7. CASE SettleRefused(p)
  BY <1>1, <1>7 DEF SettleRefused, fileVars, Steps, LockSteps
<1>8. CASE Exit(p)
  BY <1>1, <1>8 DEF Exit, fileVars, Steps, LockSteps
<1>9. CASE Leave(p)
  BY <1>1, <1>9 DEF Leave, fileVars, Steps, LockSteps
<1>10. CASE ExecRefused(p)
  <2>1. \E step \in {"idle", "failing"} : Goto(p, step)
    BY <1>10 DEF ExecRefused, OnFailure
  <2>2. /\ UNCHANGED <<journal, locks, mutex>>
        /\ guard' = guard \/ (mutex = None /\ GuardAdmits /\ guard' = None)
    BY <1>10 DEF ExecRefused
  <2> QED BY <1>1, <2>1, <2>2 DEF Steps, LockSteps
<1>11. CASE Confirm(p)
  BY <1>2, <1>11 DEF Confirm, Stages, Steps, LockSteps
<1>12. CASE MarkAttempted(p)
  BY <1>2, <1>12 DEF MarkAttempted, Stages, Steps, LockSteps
<1>13. CASE RecordRuntime(p)
  BY <1>2, <1>13 DEF RecordRuntime, Stages, Steps, LockSteps
<1>14. CASE PersistResult(p)
  BY <1>2, <1>14 DEF PersistResult, Stages, Steps, LockSteps
<1>15. CASE PersistProof(p)
  BY <1>2, <1>15 DEF PersistProof, Stages, Steps, LockSteps
<1>16. CASE Withdraw(p)
  BY <1>2, <1>16 DEF Withdraw, Stages, Steps, LockSteps
<1>17. CASE FinalWrite(p)
  <2>1. FinalStage(p) \in Stages
    BY <1>0, ProcFacts DEF FinalStage, Stages
  <2> QED BY <1>2, <1>17, <2>1 DEF FinalWrite, Steps, LockSteps
<1>18. CASE Abort(p)
  <2>1. CASE proc[p].role = "live" /\ proc[p].pc = "locked"
    BY <1>1, <1>18, <2>1 DEF Abort, Steps, LockSteps
  <2>2. CASE ~(proc[p].role = "live" /\ proc[p].pc = "locked")
    <3>1. (IF proc[p].role = "live" THEN "aborted" ELSE Mine(p).stage) \in Stages
      BY <1>0, ProcFacts DEF Stages
    <3> QED BY <1>2, <1>18, <2>2, <3>1 DEF Abort, Steps, LockSteps
  <2> QED BY <2>1, <2>2
<1>19. CASE Read(p)
  <2>1. AfterRead(p) \in Steps /\ AfterRead(p) \notin LockSteps
    BY DEF AfterRead, Steps, LockSteps
  <2>2. Strolls(p)
    BY <1>0, <1>19, <2>1, ProcFacts, BecomeFacts DEF Read, Strolls
  <2> QED BY <1>19, <2>2, QuietLock DEF Read, fileVars
<1> QED BY <1>3, <1>4, <1>5, <1>6, <1>7, <1>8, <1>9, <1>10, <1>11, <1>12, <1>13, <1>14, <1>15,
    <1>16, <1>17, <1>18, <1>19

LEMMA BeginLock ==
    ASSUME TypeOK, LockInv, NEW p \in Procs, NEW j \in Journals,
           Start(p, j) \/ Resume(p, j) \/ Reconcile(p, j)
    PROVE  LockInv'
<1>1. CASE Start(p, j)
  <2>1. Strolls(p)
    BY <1>1 DEF Start, Strolls, Idle, Running, LockSteps, TypeOK
  <2>2. journal' = [journal EXCEPT ![j] = Revised(j, "requested", journal[j].bound, journal[j].gen)]
    BY <1>1 DEF Start, Fresh
  <2> QED BY <1>1, <2>1, <2>2, WriteLock DEF Start
<1>2. ASSUME NEW command, Command(p, j, command) PROVE LockInv'
  <2>1. Strolls(p)
    BY <1>2 DEF Command, Strolls, Idle, Running, LockSteps, TypeOK
  <2> QED BY <1>2, <2>1, QuietLock DEF Command, fileVars
<1> QED BY <1>1, <1>2 DEF Resume, Reconcile

LEMMA InitLock == Init => LockInv
BY NoneAssumption DEF Init, LockInv, MutexInv, AttachInv, GuardInv, ReleaseInv, BindingBacked, Idle,
    Running, Fresh, LockSteps

LEMMA NextLock == TypeOK /\ LockInv /\ [Next]_vars => LockInv'
<1> SUFFICES ASSUME TypeOK, LockInv, [Next]_vars PROVE LockInv'
  OBVIOUS
<1>1. ASSUME NEW p \in Procs, Step(p) PROVE LockInv'
  BY <1>1, PlainLock, ClaimLock, BeginReleaseLock, UnlinkLock, WriteTargetLock, ClearLock,
     ResumePendingLock, SweepLock DEF Step
<1>2. CASE UNCHANGED <<journal, locks, guard, mutex, proc>>
  BY <1>2 DEF LockInv, MutexInv, AttachInv, GuardInv, ReleaseInv, InProgress, BindingBacked, Owned, Mine
<1>3. ASSUME NEW j \in Journals, Expire(j) PROVE LockInv'
  BY <1>2, <1>3 DEF Expire, fileVars
<1>4. CASE UNCHANGED vars
  BY <1>2, <1>4 DEF vars, fileVars
<1> QED BY <1>1, <1>3, <1>4, CrashLock, BeginLock DEF Next

-----------------------------------------------------------------------------
(* Theorems *)

(* Every variable of the directory model keeps its type, and the locks,    *)
(* the mutex and the guard agree as LockInv says.                          *)
THEOREM LocksAgree == Spec => [](TypeOK /\ LockInv)
<1>1. Init => TypeOK /\ LockInv
  BY InitType, InitLock
<1>2. TypeOK /\ LockInv /\ [Next]_vars => (TypeOK /\ LockInv)'
  BY NextType, NextLock DEF LockInv
<1> QED BY <1>1, <1>2, PTL DEF Spec

(* The variables of the state directory keep their types.                  *)
THEOREM TypeCorrect == Spec => []TypeOK
BY LocksAgree, PTL

(* A binding a journal names is backed by its lock file or by the guard of *)
(* the release that removed it, whichever processes run and wherever they  *)
(* die.                                                                    *)
THEOREM BindingsBacked == Spec => []BindingBacked
<1>1. LockInv => BindingBacked
  BY DEF LockInv
<1> QED BY <1>1, LocksAgree, PTL

(* No two journals are ever bound to the same lock: in claimExecutionLock, *)
(* claimReplayLock and releaseReconciledLocks no interleaving and no crash *)
(* gives the execution lock or a request identity away twice.              *)
THEOREM BindingsExclusive == Spec => []ExclusiveBinding
<1>1. TypeOK /\ LockInv => ExclusiveBinding
  <2> SUFFICES ASSUME TypeOK, LockInv, NEW i \in Journals, NEW j \in Journals,
                      NEW r \in journal[i].bound, r \in journal[j].bound
               PROVE  i = j
    BY DEF ExclusiveBinding
  <2>1. \A k \in {i, j} :
           \/ Owned(k, r)
           \/ /\ guard # None /\ guard.journal = k /\ guard.source = journal[k].rev
              /\ r \in guard.fields
    BY DEF LockInv, BindingBacked
  <2>2. \A k \in {i, j} : guard # None /\ guard.journal = k /\ guard.source = journal[k].rev
                            /\ r \in guard.fields
           => locks[r] \in {None, guard.locks[r]} /\ guard.locks[r].owner = k
    <3>1. guard # None => guard.source \in Nat
      BY DEF TypeOK, Guard
    <3> QED BY <3>1 DEF LockInv, GuardInv
  <2> QED BY <2>1, <2>2 DEF Owned
<1> QED BY <1>1, LocksAgree, PTL

(* A guard always names a journal that is at the guard's source or at its  *)
(* target, so resumePendingStateRelease can tell which half is missing.    *)
THEOREM GuardsBracketed == Spec => []GuardBracketed
<1>1. LockInv => GuardBracketed
  BY DEF LockInv, GuardInv, GuardBracketed
<1> QED BY <1>1, LocksAgree, PTL

(* While a release is between its guard and its journal no lock is         *)
(* published and no journal moves but to the guarded target: every other   *)
(* writer is stopped by authorizeJournalWriteAgainstReleaseGuard and by    *)
(* assertNoStateReleaseInProgress, and the releasing process is alone.     *)
THEOREM GuardsFreeze == Spec => GuardFreezes
<1> DEFINE Frozen == guard # None /\ journal[guard.journal].rev = guard.source =>
              /\ \A r \in Resources : locks'[r] \in {locks[r], None}
              /\ journal' \in {journal, [journal EXCEPT ![guard.journal] = guard.target]}
<1>1. TypeOK /\ LockInv /\ [Next]_vars => Frozen
  <2> SUFFICES ASSUME TypeOK, LockInv, [Next]_vars,
                      guard # None, journal[guard.journal].rev = guard.source
               PROVE  /\ \A r \in Resources : locks'[r] \in {locks[r], None}
                      /\ journal' \in {journal, [journal EXCEPT ![guard.journal] = guard.target]}
    OBVIOUS
  <2>1. ~Section
    <3>1. guard.journal \in Journals
      BY DEF TypeOK, Guard
    <3> QED BY <3>1, OpenSection DEF Section, InProgress
  <2>2. CASE UNCHANGED <<journal, locks>>
    BY <2>2
  <2>3. ASSUME NEW p \in Procs, Step(p)
        PROVE  UNCHANGED <<journal, locks>> \/ AttachFails(p) \/ Unlink(p) \/ WriteTarget(p)
    <3>1. ~AttachReplay(p) /\ ~AttachExec(p)
      BY DEF AttachReplay, AttachExec, LockInv, AttachInv
    <3> QED BY <2>1, <2>3, <3>1 DEF Step, ClaimReplay, Confirm, ClaimExec, ExecRefused,
           MarkAttempted, RecordRuntime, Launch, PersistResult, PersistProof, GiveUp, Abort,
           AbortRefused, BeginRelease, ClearGuard, FailRelease, RecoverRefused, SettleRefused,
           Withdraw, FinalWrite, Exit, ResumePending, Read, Sweep, Leave, fileVars
  <2>4. ASSUME NEW p \in Procs, AttachFails(p) \/ Unlink(p)
        PROVE  /\ \A r \in Resources : locks'[r] \in {locks[r], None}
               /\ UNCHANGED journal
    BY <2>4 DEF AttachFails, Unlink, TypeOK
  <2>5. ASSUME NEW p \in Procs, WriteTarget(p)
        PROVE  journal' = [journal EXCEPT ![guard.journal] = guard.target] /\ UNCHANGED locks
    BY <2>5 DEF WriteTarget
  <2>6. ASSUME NEW p \in Procs, Crash(p) PROVE UNCHANGED <<journal, locks>>
    BY <2>6 DEF Crash, fileVars
  <2>7. ASSUME NEW p \in Procs, NEW j \in Journals, Start(p, j) \/ Resume(p, j) \/ Reconcile(p, j)
        PROVE  UNCHANGED <<journal, locks>>
    BY <2>1, <2>7 DEF Start, Resume, Reconcile, Command, fileVars
  <2>8. ASSUME NEW j \in Journals, Expire(j) PROVE UNCHANGED <<journal, locks>>
    BY <2>8 DEF Expire, fileVars
  <2>9. UNCHANGED vars => UNCHANGED <<journal, locks>>
    BY DEF vars, fileVars
  <2> QED BY <2>2, <2>3, <2>4, <2>5, <2>6, <2>7, <2>8, <2>9 DEF Next
<1> QED BY <1>1, LocksAgree, PTL DEF Spec, GuardFreezes

=============================================================================
