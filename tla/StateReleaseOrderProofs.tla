----------------------- MODULE StateReleaseOrderProofs -----------------------
(***************************************************************************)
(* Proofs about the live orders of StateRelease: what a process that still *)
(* holds the durable journal in memory may conclude from where it stands,  *)
(* and what follows for the journeys whose order process was started, for  *)
(* attempts whose process died, for the locks of OPEN journeys and for     *)
(* replay locks that were never attached; for any number of processes,     *)
(* journeys and request identities.                                        *)
(***************************************************************************)
EXTENDS StateReleaseProofs

-----------------------------------------------------------------------------
(* The inductive invariant *)

(* The steps of a command that has so far only read its journal.           *)
Readers == {"opening", "reading", "judging", "swept"}

(* The steps before the order process of the journey is started ...        *)
Unlaunched == {"begun", "attachReplay", "reserved", "withdrawn", "ready", "attachExec",
               "locked", "attempted", "recorded", "recovering", "settling"}

(* ... those of them at which the request identity is reserved ...         *)
Keyed == {"reserved", "ready", "attachExec", "locked", "attempted", "recorded"}

(* ... and those just before the launch, and after it.                     *)
Launching == {"attempted", "recorded"}

Launched == {"launched", "settled", "proved"}

(* Process p runs, and its in-memory journal is the durable one.           *)
Holds(p) == proc[p].pc # "idle" /\ Current(p)

(* Nobody is ahead of the durable journal; a release is up to date, and    *)
(* hands on to one of four steps.                                          *)
Seen(p) ==
    proc[p].pc # "idle" =>
        /\ proc[p].seen <= Mine(p).rev
        /\ proc[p].pc \in {"unlinking", "clearing"} =>
              Current(p) /\ proc[p].then \in {"idle", "withdrawn", "failing", "reading"}

(* Whoever holds the durable journal knows from its own step whether the   *)
(* order process was started.                                              *)
Knows(p) ==
    Holds(p) =>
        /\ proc[p].pc \in Unlaunched => proc[p].at \notin orders
        /\ proc[p].pc \in {"unlinking", "clearing"} /\ proc[p].then = "withdrawn"
              => proc[p].at \notin orders
        /\ proc[p].pc \in Keyed => KeyOf[proc[p].at] \in Mine(p).bound
        /\ proc[p].pc \in Launched => Mine(p).stage # "done"

(* Nobody but readers holds the journal of p, and no release of it is on.  *)
Alone(p) ==
    /\ ~InProgress(proc[p].at)
    /\ \A q \in Procs \ {p} : proc[q].at = proc[p].at /\ Holds(q) => proc[q].pc \in Readers

(* Between the mark of the attempt and the launch the journal cannot move  *)
(* under the process: nothing else may write it.                           *)
Steady(p) ==
    proc[p].pc \in Launching =>
        /\ Current(p)
        /\ Mine(p).stage = "attempted"
        /\ Exec \in Mine(p).bound
        /\ Alone(p)

(* A journey whose order was started keeps both locks until it is done.    *)
OrderKept(j) ==
    /\ journal[j].stage \in {"attempted", "settled", "receipted", "proved", "done"}
    /\ journal[j].stage # "done" => {Exec, KeyOf[j]} \subseteq journal[j].bound

(* A release of such a journey gives everything back, and resolves it.     *)
ReleaseKept(j) ==
    InProgress(j) =>
        /\ guard.target.stage = "done"
        /\ journal[j].stage # "done"
        /\ guard.fields = journal[j].bound

OrderInv ==
    /\ \A p \in Procs : Seen(p) /\ Knows(p) /\ Steady(p)
    /\ \A j \in orders : OrderKept(j) /\ ReleaseKept(j)

-----------------------------------------------------------------------------
(* The shapes a step can have *)

(* Process p moves; no journal is written and no order is started.         *)
LEMMA MoveOrder ==
    ASSUME TypeOK, OrderInv, NEW p \in Procs,
           UNCHANGED <<journal, orders>>, guard' = guard \/ guard' = None,
           \A q \in Procs \ {p} : proc'[q] = proc[q],
           proc'[p].pc \notin Launching, Seen(p)', Knows(p)',
           \/ proc'[p].pc \in Readers \cup {"idle"}
           \/ proc[p].pc \notin Readers \cup {"idle"} /\ proc'[p].at = proc[p].at
                 /\ proc'[p].seen = proc[p].seen
           \/ InProgress(proc'[p].at)
           \/ journal[proc'[p].at].stage # "attempted"
    PROVE  OrderInv'
<1>1. \A j \in Journals : InProgress(j)' => InProgress(j) /\ guard' = guard
  BY DEF InProgress
<1>2. \A q \in Procs \ {p} : Seen(q)' /\ Knows(q)'
  BY DEF OrderInv, Seen, Knows, Holds, Current, Mine
<1>3. ASSUME NEW q \in Procs \ {p} PROVE Steady(q)'
  <2> SUFFICES ASSUME proc[q].pc \in Launching
               PROVE  Current(q)' /\ (Mine(q).stage = "attempted")' /\ (Exec \in Mine(q).bound)' /\ Alone(q)'
    BY DEF Steady
  <2>1. /\ Current(q) /\ Mine(q).stage = "attempted" /\ Exec \in Mine(q).bound /\ Alone(q)
        /\ proc[q].pc # "idle"
    BY DEF OrderInv, Steady, Launching
  <2>2. proc[q].at \in Journals /\ proc'[q] = proc[q]
    BY <2>1 DEF TypeOK
  <2>3. ~InProgress(proc[q].at)'
    BY <1>1, <2>1, <2>2 DEF Alone
  <2>4. ASSUME NEW r \in Procs \ {q}, proc'[r].at = proc'[q].at, Holds(r)'
        PROVE  proc'[r].pc \in Readers
    <3>1. CASE r # p
      BY <2>1, <2>2, <2>4, <3>1 DEF Alone, Holds, Current, Mine
    <3>2. CASE r = p /\ proc'[p].pc \notin Readers
      <4>1. proc'[p].pc # "idle"
        BY <2>4, <3>2 DEF Holds
      <4>2. ~InProgress(proc'[p].at) /\ journal[proc'[p].at].stage = "attempted"
        BY <2>1, <2>2, <2>4, <3>2 DEF Alone, Mine
      <4>3. proc[p].pc \notin Readers \cup {"idle"} /\ proc'[p].at = proc[p].at /\ proc'[p].seen = proc[p].seen
        BY <3>2, <4>1, <4>2
      <4>4. Holds(p)
        BY <2>4, <3>2, <4>3 DEF Holds, Current, Mine
      <4> QED BY <2>1, <2>2, <2>4, <3>2, <4>3, <4>4 DEF Alone
    <3> QED BY <3>1, <3>2
  <2> QED BY <2>1, <2>2, <2>3, <2>4 DEF Alone, Current, Mine
<1>4. Steady(p)'
  BY DEF Steady
<1>5. \A j \in orders : (OrderKept(j) /\ ReleaseKept(j))'
  BY <1>1 DEF OrderInv, OrderKept, ReleaseKept, TypeOK
<1> QED BY <1>2, <1>3, <1>4, <1>5 DEF OrderInv

(* Process p, which holds its journal and is no reader, writes it.         *)
LEMMA WriteOrder ==
    ASSUME TypeOK, OrderInv, NEW p \in Procs, NEW j \in Journals, NEW next \in JournalRecord,
           proc[p].pc \notin Readers, Holds(p), proc[p].at = j,
           next.rev = journal[j].rev + 1, journal' = [journal EXCEPT ![j] = next],
           UNCHANGED orders,
           \A q \in Procs \ {p} : proc'[q] = proc[q] /\ proc[q].pc \notin LockSteps,
           proc'[p].pc # "idle" => proc'[p].at = j /\ proc'[p].seen = next.rev,
           proc'[p].pc \in {"unlinking", "clearing"} =>
               proc[p].pc = "unlinking" /\ proc'[p].then = proc[p].then,
           \/ guard' = None
           \/ guard' = guard /\ guard.journal = j /\ guard.source = journal[j].rev,
           Knows(p)',
           proc'[p].pc \in Launching => guard' = None /\ next.stage = "attempted" /\ Exec \in next.bound,
           j \in orders => OrderKept(j)'
    PROVE  OrderInv'
<1>1. /\ journal[j] \in JournalRecord /\ journal[j].rev \in Nat /\ journal'[j] = next
      /\ \A i \in Journals \ {j} : journal'[i] = journal[i]
  BY DEF TypeOK, JournalRecord
<1>2. \A q \in Procs \ {p} : proc[q].pc # "idle" => proc[q].at \in Journals /\ proc[q].seen \in Nat
  BY DEF TypeOK, Process
<1>3. ASSUME NEW q \in Procs \ {p}, proc[q].pc # "idle", proc[q].at = j
      PROVE  ~Current(q)' /\ proc'[q].seen <= next.rev
  <2>1. proc'[q] = proc[q] /\ proc[q].seen \in Nat /\ proc[q].seen <= journal[j].rev
    BY <1>2, <1>3 DEF OrderInv, Seen, Mine
  <2> QED BY <1>1, <1>3, <2>1 DEF Current, Mine
<1>4. ASSUME NEW i \in Journals, InProgress(i)'
      PROVE  i # j /\ InProgress(i) /\ guard' = guard
  BY <1>1, <1>4 DEF InProgress
<1>5. ASSUME NEW q \in Procs \ {p} PROVE Seen(q)' /\ Knows(q)' /\ Steady(q)'
  <2> SUFFICES ASSUME proc[q].pc # "idle" PROVE Seen(q)' /\ Knows(q)' /\ Steady(q)'
    BY DEF Seen, Knows, Steady, Holds, Launching
  <2>1. CASE proc[q].at = j
    <3>1. proc[q].pc \notin Launching
      BY <2>1 DEF OrderInv, Steady, Alone
    <3> QED BY <1>1, <1>3, <2>1, <3>1 DEF Seen, Knows, Steady, Holds, Mine, LockSteps
  <2>2. CASE proc[q].at # j
    <3>1. /\ proc'[q] = proc[q] /\ journal'[proc[q].at] = journal[proc[q].at]
          /\ proc[q].at \in Journals
      BY <1>1, <1>2, <2>2
    <3>2. Seen(q)' /\ Knows(q)'
      BY <3>1 DEF OrderInv, Seen, Knows, Holds, Current, Mine
    <3>3. ASSUME proc[q].pc \in Launching PROVE Alone(q)'
      <4>1. Alone(q)
        BY <3>3 DEF OrderInv, Steady
      <4>2. \A r \in Procs \ {q} : proc'[r].at = proc'[q].at /\ Holds(r)'
                => proc[r].at = proc[q].at /\ Holds(r) /\ proc'[r] = proc[r]
        BY <2>2, <3>1 DEF Holds, Current, Mine
      <4> QED BY <1>4, <3>1, <4>1, <4>2 DEF Alone
    <3> QED BY <3>1, <3>2, <3>3 DEF OrderInv, Steady, Current, Mine
  <2> QED BY <2>1, <2>2
<1>6. Seen(p)' /\ Steady(p)'
  <2>1. Seen(p)'
    BY <1>1 DEF OrderInv, Seen, Current, Mine, JournalRecord
  <2>2. ASSUME proc'[p].pc \in Launching PROVE Alone(p)'
    <3>1. proc'[p].pc # "idle" /\ proc'[p].at = j
      BY <2>2 DEF Launching
    <3> QED BY <1>3, <1>4, <3>1 DEF Alone, Holds
  <2> QED BY <1>1, <2>1, <2>2 DEF Steady, Current, Mine, Launching
<1>7. \A i \in orders : (OrderKept(i) /\ ReleaseKept(i))'
  <2> SUFFICES ASSUME NEW i \in orders PROVE (OrderKept(i) /\ ReleaseKept(i))'
    OBVIOUS
  <2>0. i \in Journals /\ OrderKept(i) /\ ReleaseKept(i)
    BY DEF TypeOK, OrderInv
  <2>1. CASE i = j
    BY <1>4, <2>0, <2>1 DEF ReleaseKept
  <2>2. CASE i # j
    BY <1>1, <1>4, <2>0, <2>2 DEF OrderKept, ReleaseKept
  <2> QED BY <2>1, <2>2
<1> QED BY <1>5, <1>6, <1>7 DEF OrderInv
(* Process p only moves on, with the journal it has in memory.             *)
LEMMA GotoOrder ==
    ASSUME TypeOK, OrderInv, NEW p \in Procs,
           NEW step \in Steps \ (Launching \cup Launched \cup {"unlinking", "clearing"}),
           proc[p].pc # "idle", Goto(p, step), UNCHANGED <<journal, orders>>,
           guard' = guard \/ guard' = None,
           step \in Readers \cup {"idle"} \/ proc[p].pc \notin Readers,
           step \in Unlaunched /\ Current(p) => proc[p].at \notin orders,
           step \in Keyed /\ Current(p) => KeyOf[proc[p].at] \in Mine(p).bound
    PROVE  OrderInv'
<1>1. proc[p].seen \in Nat /\ proc[p].then \in Steps /\ proc[p].at \in Journals
  BY ProcFacts
<1>2. /\ \A q \in Procs \ {p} : proc'[q] = proc[q]
      /\ proc'[p].pc = step
      /\ step # "idle" => proc'[p].seen = proc[p].seen /\ proc'[p].at = proc[p].at
  BY <1>1, BecomeFacts DEF Goto
<1>3. Seen(p)'
  BY <1>2 DEF OrderInv, Seen, Mine
<1>4. Knows(p)'
  BY <1>2 DEF Knows, Holds, Current, Mine
<1> QED BY <1>2, <1>3, <1>4, MoveOrder

(* Process p writes its journal, against the revision it holds.            *)
LEMMA JournalOrder ==
    ASSUME TypeOK, OrderInv, NEW p \in Procs, NEW stage \in Stages, NEW bound \in SUBSET Resources,
           NEW gen \in Nat, NEW step \in Steps \ {"unlinking", "clearing"},
           proc[p].pc \notin Readers \cup {"idle"}, Write(p, stage, bound, gen, step),
           UNCHANGED orders, guard' = None, \A q \in Procs \ {p} : proc[q].pc \notin LockSteps,
           step \in Unlaunched => proc[p].at \notin orders,
           step \in Keyed => KeyOf[proc[p].at] \in bound,
           step \in Launched => stage # "done",
           step \in Launching => stage = "attempted" /\ Exec \in bound,
           proc[p].at \in orders =>
               /\ stage \in {"attempted", "settled", "receipted", "proved", "done"}
               /\ stage # "done" => {Exec, KeyOf[proc[p].at]} \subseteq bound
    PROVE  OrderInv'
<1>1. proc[p].at \in Journals /\ proc[p].pc # "idle" /\ Mine(p).rev \in Nat
  BY ProcFacts
<1>2. /\ Current(p)
      /\ journal' = [journal EXCEPT ![proc[p].at] = Revised(proc[p].at, stage, bound, gen)]
      /\ Become(p, step, Mine(p).rev + 1, proc[p].then)
      /\ Mine(p).rev + 1 \in Nat
      /\ proc[p].then \in Steps
  BY <1>1, WriteFacts
<1> PICK j \in Journals : j = proc[p].at
  BY <1>1
<1> DEFINE next == Revised(proc[p].at, stage, bound, gen)
<1>3. /\ next \in JournalRecord /\ next.rev = journal[j].rev + 1
      /\ next.stage = stage /\ next.bound = bound
  BY <1>1 DEF Revised, JournalRecord, Mine
<1>4. journal' = [journal EXCEPT ![j] = next] /\ journal[j] = Mine(p)
  BY <1>2 DEF Mine
<1> HIDE DEF next
<1>5. /\ \A q \in Procs \ {p} : proc'[q] = proc[q]
      /\ proc'[p].pc = step
      /\ step # "idle" => proc'[p].seen = next.rev /\ proc'[p].at = j
  BY <1>1, <1>2, <1>3, BecomeFacts DEF Mine
<1>6. journal'[j] = next
  BY <1>1, <1>4 DEF TypeOK
<1>7. Knows(p)'
  BY <1>3, <1>5, <1>6 DEF Knows, Holds, Mine
<1>8. j \in orders => OrderKept(j)'
  BY <1>3, <1>6 DEF OrderKept
<1>9. Holds(p) /\ proc[p].pc \notin Readers
  BY <1>1, <1>2 DEF Holds
<1> QED BY <1>3, <1>4, <1>5, <1>7, <1>8, <1>9, WriteOrder

(* The same for a write that changes the stage alone.                      *)
LEMMA StageOrder ==
    ASSUME TypeOK, LockInv, OrderInv, NEW p \in Procs, NEW stage \in Stages,
           NEW step \in Steps \ {"unlinking", "clearing"},
           proc[p].pc \notin Readers \cup {"idle"}, WriteStage(p, stage, step),
           UNCHANGED orders, Section,
           step \in Unlaunched => proc[p].at \notin orders,
           step \in Keyed => KeyOf[proc[p].at] \in Mine(p).bound,
           step \in Launched => stage # "done",
           step \in Launching => stage = "attempted" /\ Exec \in Mine(p).bound,
           proc[p].at \in orders =>
               /\ stage \in {"attempted", "settled", "receipted", "proved", "done"}
               /\ stage # "done" => Mine(p).stage # "done"
    PROVE  OrderInv'
<1>1. proc[p].at \in Journals /\ Mine(p).bound \in SUBSET Resources /\ Mine(p).gen \in Nat
  BY ProcFacts
<1>2. proc[p].at \in orders /\ Mine(p).stage # "done" => {Exec, KeyOf[proc[p].at]} \subseteq Mine(p).bound
  BY DEF OrderInv, OrderKept, Mine
<1>3. Write(p, stage, Mine(p).bound, Mine(p).gen, step)
  BY DEF WriteStage
<1>4. guard' = None /\ \A q \in Procs \ {p} : proc[q].pc \notin LockSteps
  BY OpenSection DEF Section
<1> QED BY <1>1, <1>2, <1>3, <1>4, JournalOrder

(* What the invariant says of the process that takes a step.               *)
LEMMA OrderFacts ==
    ASSUME TypeOK, OrderInv, NEW p \in Procs, proc[p].pc # "idle"
    PROVE  /\ proc[p].at \in Journals
           /\ proc[p].pc \in Unlaunched /\ Current(p) => proc[p].at \notin orders
           /\ proc[p].pc \in Keyed /\ Current(p) => KeyOf[proc[p].at] \in Mine(p).bound
           /\ proc[p].pc \in Launched /\ Current(p) => Mine(p).stage # "done"
           /\ proc[p].pc \in Launching => Mine(p).stage = "attempted" /\ Exec \in Mine(p).bound /\ Current(p)
           /\ proc[p].at \in orders =>
                 Mine(p).stage \in {"attempted", "settled", "receipted", "proved", "done"}
BY ProcFacts DEF OrderInv, Knows, Holds, Steady, OrderKept, Mine

-----------------------------------------------------------------------------
(* The steps *)

LEMMA ClaimOrder ==
    ASSUME TypeOK, LockInv, OrderInv, NEW p \in Procs,
           ClaimReplay(p) \/ ClaimExec(p) \/ AttachReplay(p) \/ AttachExec(p) \/ AttachFails(p)
    PROVE  OrderInv'
<1> USE DEF Readers, Unlaunched, Keyed, Launching, Launched
<1>0. proc[p].pc # "idle"
  BY DEF ClaimReplay, ClaimExec, AttachReplay, AttachExec, AttachFails
<1>1. CASE ClaimReplay(p)
  <2>1. /\ Goto(p, "attachReplay") /\ guard' = None /\ UNCHANGED <<journal, orders>>
        /\ proc[p].pc = "begun"
    BY <1>1 DEF ClaimReplay, Section, worldVars
  <2> QED BY <1>0, <2>1, OrderFacts, GotoOrder DEF Steps, LockSteps
<1>2. CASE ClaimExec(p)
  <2>1. /\ Goto(p, "attachExec") /\ guard' = None /\ UNCHANGED <<journal, orders>>
        /\ proc[p].pc = "ready"
    BY <1>2 DEF ClaimExec, Section, worldVars
  <2> QED BY <1>0, <2>1, OrderFacts, GotoOrder DEF Steps, LockSteps
<1>3. CASE AttachReplay(p)
  <2> DEFINE bound == Mine(p).bound \cup {KeyOf[proc[p].at]}
  <2>1. /\ Write(p, "reserved", bound, Mine(p).gen, "reserved") /\ UNCHANGED orders
        /\ guard' = None /\ proc[p].pc = "attachReplay" /\ Current(p)
    BY <1>3 DEF AttachReplay, worldVars, LockInv, AttachInv, Write
  <2>0. \A q \in Procs \ {p} : proc[q].pc \notin LockSteps
    BY <2>1 DEF LockInv, MutexInv, LockSteps
  <2>2. bound \in SUBSET Resources /\ Mine(p).gen \in Nat /\ KeyOf[proc[p].at] \in bound
    BY <1>0, ProcFacts
  <2> HIDE DEF bound
  <2> QED BY <1>0, <2>0, <2>1, <2>2, OrderFacts, JournalOrder DEF Steps, LockSteps, Stages
<1>4. CASE AttachExec(p)
  <2> DEFINE bound == Mine(p).bound \cup {Exec}
  <2>1. /\ Write(p, "locked", bound, locks[Exec].gen, "locked") /\ UNCHANGED orders
        /\ guard' = None /\ proc[p].pc = "attachExec" /\ Current(p)
    BY <1>4 DEF AttachExec, worldVars, LockInv, AttachInv, Write
  <2>0. \A q \in Procs \ {p} : proc[q].pc \notin LockSteps
    BY <2>1 DEF LockInv, MutexInv, LockSteps
  <2>2. locks[Exec].gen \in Nat
    BY <1>0, <2>1, ProcFacts DEF LockInv, AttachInv, TypeOK, LockFile
  <2>3. bound \in SUBSET Resources /\ KeyOf[proc[p].at] \in bound
    BY <1>0, <2>1, ProcFacts, OrderFacts
  <2> HIDE DEF bound
  <2> QED BY <1>0, <2>0, <2>1, <2>2, <2>3, OrderFacts, JournalOrder DEF Steps, LockSteps, Stages
<1>5. CASE AttachFails(p)
  <2>1. /\ Goto(p, OnFailure(p)) /\ guard' = guard /\ UNCHANGED <<journal, orders>>
        /\ proc[p].pc \in {"attachReplay", "attachExec"} /\ OnFailure(p) \in {"failing", "idle"}
    BY <1>5 DEF AttachFails, worldVars, OnFailure
  <2> QED BY <1>0, <2>1, GotoOrder DEF Steps
<1> QED BY <1>1, <1>2, <1>3, <1>4, <1>5

LEMMA ExecutionOrder ==
    ASSUME TypeOK, LockInv, OrderInv, NEW p \in Procs,
           \/ Confirm(p) \/ ExecRefused(p) \/ MarkAttempted(p) \/ RecordRuntime(p)
           \/ PersistResult(p) \/ PersistProof(p) \/ GiveUp(p) \/ Abort(p) \/ AbortRefused(p)
    PROVE  OrderInv'
<1> USE DEF Readers, Unlaunched, Keyed, Launching, Launched
<1>0. proc[p].pc # "idle"
  BY DEF Confirm, ExecRefused, MarkAttempted, RecordRuntime, PersistResult, PersistProof, GiveUp,
     Abort, AbortRefused
<1>1. CASE Confirm(p)
  <2>1. /\ WriteStage(p, "confirmed", "ready") /\ UNCHANGED orders /\ Section
        /\ proc[p].pc = "reserved" /\ Current(p)
    BY <1>1 DEF Confirm, worldVars, WriteStage, Write
  <2> QED BY <1>0, <2>1, OrderFacts, StageOrder DEF Steps, Stages
<1>2. CASE ExecRefused(p)
  <2>1. /\ \E step \in {"idle", "failing"} : Goto(p, step)
        /\ guard' = guard \/ guard' = None
        /\ UNCHANGED <<journal, orders>> /\ proc[p].pc = "ready"
    BY <1>2 DEF ExecRefused, OnFailure, worldVars
  <2> QED BY <1>0, <2>1, GotoOrder DEF Steps
<1>3. CASE MarkAttempted(p)
  <2>1. /\ WriteStage(p, "attempted", "attempted") /\ UNCHANGED orders /\ Section
        /\ proc[p].pc = "locked" /\ Current(p) /\ Exec \in Mine(p).bound
    BY <1>3 DEF MarkAttempted, worldVars, WriteStage, Write
  <2> QED BY <1>0, <2>1, OrderFacts, StageOrder DEF Steps, Stages
<1>4. CASE RecordRuntime(p)
  <2>1. /\ WriteStage(p, "attempted", "recorded") /\ UNCHANGED orders /\ Section
        /\ proc[p].pc = "attempted" /\ Current(p)
    BY <1>4 DEF RecordRuntime, worldVars, WriteStage, Write
  <2> QED BY <1>0, <2>1, OrderFacts, StageOrder DEF Steps, Stages
<1>5. CASE PersistResult(p)
  <2>1. /\ WriteStage(p, "settled", "settled") /\ UNCHANGED orders /\ Section
        /\ proc[p].pc = "launched" /\ Current(p)
    BY <1>5 DEF PersistResult, worldVars, WriteStage, Write
  <2> QED BY <1>0, <2>1, OrderFacts, StageOrder DEF Steps, Stages
<1>6. CASE PersistProof(p)
  <2>1. /\ \E stage \in {"receipted", "proved"} : WriteStage(p, stage, "proved")
        /\ UNCHANGED orders /\ Section
        /\ proc[p].pc = "settled" /\ Current(p)
    BY <1>6 DEF PersistProof, worldVars, WriteStage, Write
  <2> QED BY <1>0, <2>1, OrderFacts, StageOrder DEF Steps, Stages
<1>7. CASE GiveUp(p)
  <2>1. /\ \E step \in {"idle", "failing"} : Goto(p, step)
        /\ guard' = guard /\ UNCHANGED <<journal, orders>>
        /\ proc[p].pc \in {"begun", "reserved", "ready", "launched", "settled", "proved"}
    BY <1>7 DEF GiveUp, OnFailure, worldVars, fileVars
  <2> QED BY <1>0, <2>1, GotoOrder DEF Steps
<1>8. CASE Abort(p)
  <2>1. CASE proc[p].role = "live" /\ proc[p].pc = "locked"
    <3>1. /\ Goto(p, "recovering") /\ guard' = guard /\ UNCHANGED <<journal, orders>>
          /\ proc[p].pc = "locked"
      BY <1>8, <2>1 DEF Abort, worldVars
    <3> QED BY <1>0, <3>1, OrderFacts, GotoOrder DEF Steps
  <2>2. CASE ~(proc[p].role = "live" /\ proc[p].pc = "locked")
    <3> DEFINE stage == IF proc[p].role = "live" THEN "aborted" ELSE Mine(p).stage
    <3>1. stage \in Stages
      BY <1>0, ProcFacts DEF Stages
    <3>2. /\ WriteStage(p, stage, "recovering") /\ UNCHANGED orders /\ Section
          /\ proc[p].pc \in {"locked", "attempted", "recorded"} /\ Current(p)
      BY <1>8, <2>2 DEF Abort, worldVars, WriteStage, Write
    <3> HIDE DEF stage
    <3> QED BY <1>0, <3>1, <3>2, OrderFacts, StageOrder DEF Steps
  <2> QED BY <2>1, <2>2
<1>9. CASE AbortRefused(p)
  <2>1. /\ Goto(p, "failing") /\ guard' = guard /\ UNCHANGED <<journal, orders>>
        /\ proc[p].pc \in {"locked", "attempted", "recorded"}
    BY <1>9 DEF AbortRefused, worldVars, fileVars
  <2> QED BY <1>0, <2>1, GotoOrder DEF Steps
<1> QED BY <1>1, <1>2, <1>3, <1>4, <1>5, <1>6, <1>7, <1>8, <1>9

(* The order process starts: nobody else may act on the journal.           *)
LEMMA LaunchOrder ==
    ASSUME TypeOK, OrderInv, NEW p \in Procs, Launch(p)
    PROVE  OrderInv'
<1> PICK j \in Journals : j = proc[p].at
  BY ProcFacts DEF Launch
<1>1. /\ proc[p].pc = "recorded" /\ orders' = orders \cup {j} /\ UNCHANGED <<journal, guard>>
      /\ Goto(p, "launched")
  BY DEF Launch, fileVars
<1>2. /\ Current(p) /\ journal[j].stage = "attempted" /\ Exec \in journal[j].bound
      /\ KeyOf[j] \in journal[j].bound /\ Alone(p) /\ ~InProgress(j)
  BY <1>1 DEF OrderInv, Steady, Knows, Holds, Alone, Launching, Keyed, Mine
<1>3. /\ \A q \in Procs \ {p} : proc'[q] = proc[q]
      /\ proc'[p].pc = "launched" /\ proc'[p].seen = proc[p].seen /\ proc'[p].at = j
  <2>1. "launched" \in Steps /\ proc[p].pc # "idle"
    BY <1>1 DEF Steps
  <2>2. proc[p].seen \in Nat /\ proc[p].then \in Steps
    BY <2>1, ProcFacts
  <2>3. Become(p, "launched", proc[p].seen, proc[p].then)
    BY <1>1 DEF Goto
  <2> QED BY <2>1, <2>2, <2>3, BecomeFacts
<1>4. \A i \in Journals : InProgress(i)' <=> InProgress(i)
  BY <1>1 DEF InProgress
<1>5. ASSUME NEW q \in Procs \ {p} PROVE Seen(q)' /\ Knows(q)' /\ Steady(q)'
  <2> SUFFICES ASSUME proc[q].pc # "idle" PROVE Seen(q)' /\ Knows(q)' /\ Steady(q)'
    BY <1>3 DEF Seen, Knows, Steady, Holds, Launching
  <2>1. proc'[q] = proc[q] /\ proc[q].at \in Journals
    BY <1>3 DEF TypeOK
  <2>2. Seen(q)'
    BY <1>1, <2>1 DEF OrderInv, Seen, Current, Mine
  <2>3. Knows(q)'
    <3>1. proc[q].at = j /\ Holds(q) => proc[q].pc \in Readers
      BY <1>2 DEF Alone
    <3> QED BY <1>1, <2>1, <3>1 DEF OrderInv, Knows, Holds, Current, Mine, Readers, Unlaunched
  <2>4. ASSUME proc[q].pc \in Launching PROVE Alone(q)'
    <3>1. Alone(q) /\ Current(q)
      BY <2>4 DEF OrderInv, Steady
    <3>2. proc[q].at # j
      BY <1>1, <1>2, <3>1 DEF Alone, Holds, Readers
    <3> QED BY <1>1, <1>3, <1>4, <2>1, <3>1, <3>2 DEF Alone, Holds, Current, Mine
  <2> QED BY <1>1, <2>1, <2>2, <2>3, <2>4 DEF OrderInv, Steady, Current, Mine
<1>6. Seen(p)' /\ Knows(p)' /\ Steady(p)'
  BY <1>1, <1>2, <1>3 DEF OrderInv, Seen, Knows, Steady, Holds, Mine, Unlaunched, Keyed, Launched,
     Launching
<1>7. \A i \in orders' : (OrderKept(i) /\ ReleaseKept(i))'
  <2>1. (OrderKept(j) /\ ReleaseKept(j))'
    BY <1>1, <1>2, <1>4 DEF OrderKept, ReleaseKept
  <2>2. ASSUME NEW i \in orders PROVE (OrderKept(i) /\ ReleaseKept(i))'
    BY <1>1, <1>4 DEF OrderInv, OrderKept, ReleaseKept, TypeOK
  <2> QED BY <1>1, <2>1, <2>2
<1> QED BY <1>5, <1>6, <1>7 DEF OrderInv

(* Only a journal whose order has a persisted result or proof, or never    *)
(* started, is released; and a launching process is the only one to hold   *)
(* its journal.                                                            *)
LEMMA BeginReleaseOrder ==
    ASSUME TypeOK, LockInv, OrderInv, NEW p \in Procs, NEW kind \in Kinds, BeginRelease(p, kind)
    PROVE  OrderInv'
<1>0. proc[p].pc # "idle"
  BY DEF BeginRelease, CanRelease, Asks
<1> PICK j \in Journals : j = proc[p].at
  BY <1>0, ProcFacts
<1>1. /\ Current(p) /\ proc[p].seen \in Nat /\ UNCHANGED <<journal, orders>>
      /\ Become(p, "unlinking", proc[p].seen, AfterRelease(p, kind))
      /\ Asks(p, kind) /\ Mine(p) = journal[j] /\ journal[j].rev = proc[p].seen
  BY <1>0, ProcFacts DEF BeginRelease, CanRelease, Current, Mine, worldVars
<1>2. /\ \A q \in Procs \ {p} : proc'[q] = proc[q]
      /\ proc'[p].pc = "unlinking" /\ proc'[p].seen = proc[p].seen /\ proc'[p].at = j
      /\ proc'[p].then = AfterRelease(p, kind)
  <2>1. AfterRelease(p, kind) \in Steps /\ "unlinking" \in Steps
    BY DEF AfterRelease, Steps, LockSteps
  <2> QED BY <1>0, <1>1, <2>1, BecomeFacts
<1>3. Seen(p)'
  BY <1>1, <1>2 DEF OrderInv, Seen, Current, Mine, AfterRelease
<1>4. Knows(p)'
  <2>1. AfterRelease(p, kind) = "withdrawn" => j \notin orders
    <3>1. ASSUME AfterRelease(p, kind) = "withdrawn" PROVE proc[p].pc = "reserved"
      BY <1>1, <3>1 DEF AfterRelease, Asks
    <3> QED BY <1>0, <1>1, <3>1, OrderFacts DEF Unlaunched
  <2> QED BY <1>1, <1>2, <2>1 DEF Knows, Unlaunched, Keyed, Launched
<1>5. CASE guard # None
  <2>1. guard' = guard /\ InProgress(j)
    BY <1>1, <1>5 DEF BeginRelease, CanRelease, Adoptable, InProgress
  <2> QED BY <1>1, <1>2, <1>3, <1>4, <2>1, MoveOrder DEF Launching
<1>6. CASE guard = None
  <2>1. /\ guard' = NewGuard(j, kind) /\ guard'.journal = j /\ guard'.fields = Fields(j, kind)
        /\ guard'.target = Target(j, kind)
    BY <1>1, <1>6 DEF BeginRelease, NewGuard
  <2>2. \A i \in Journals \ {j} : ~InProgress(i)'
    BY <2>1 DEF InProgress
  <2>3. \A q \in Procs \ {p} : Seen(q)' /\ Knows(q)'
    BY <1>1, <1>2 DEF OrderInv, Seen, Knows, Holds, Current, Mine
  <2>4. ASSUME NEW q \in Procs \ {p}, proc[q].pc \in Launching PROVE Alone(q)' /\ proc[q].at # j
    <3>1. Alone(q) /\ Current(q) /\ Mine(q).stage = "attempted" /\ proc[q].at \in Journals
      BY <2>4 DEF OrderInv, Steady, Launching, TypeOK
    <3>2. proc[q].at # j
      <4> SUFFICES ASSUME proc[q].at = j PROVE FALSE
        OBVIOUS
      <4>1. proc[p].pc \in Readers /\ journal[j].stage = "attempted"
        BY <1>0, <1>1, <3>1 DEF Alone, Holds, Mine
      <4> QED BY <1>1, <4>1 DEF Asks, Evidence, Unstarted, Readers
    <3> QED BY <1>1, <1>2, <2>2, <3>1, <3>2 DEF Alone, Holds, Current, Mine
  <2>5. \A q \in Procs \ {p} : Steady(q)'
    BY <1>1, <1>2, <2>4 DEF OrderInv, Steady, Current, Mine
  <2>6. Steady(p)'
    BY <1>2 DEF Steady, Launching
  <2>7. j \in orders => /\ Target(j, kind).stage = "done" /\ journal[j].stage # "done"
                        /\ Fields(j, kind) = journal[j].bound
    <3> SUFFICES ASSUME j \in orders
                 PROVE  /\ Target(j, kind).stage = "done" /\ journal[j].stage # "done"
                        /\ Fields(j, kind) = journal[j].bound
      OBVIOUS
    <3>1. proc[p].pc \notin Unlaunched
      BY <1>0, <1>1, OrderFacts
    <3>2. kind \in {"expired", "complete", "reconciled"}
      BY <1>1, <3>1 DEF Asks, Unlaunched, Kinds
    <3>3. Target(j, kind).stage = "done" /\ Fields(j, kind) = journal[j].bound
      BY <3>2 DEF Target, Revised, TargetStage, Fields
    <3>4. journal[j].stage # "done"
      BY <1>0, <1>1, <3>2, OrderFacts DEF Asks, Evidence, Unstarted, Launched
    <3> QED BY <3>3, <3>4
  <2>8. \A i \in orders : (OrderKept(i) /\ ReleaseKept(i))'
    <3> SUFFICES ASSUME NEW i \in orders PROVE (OrderKept(i) /\ ReleaseKept(i))'
      OBVIOUS
    <3>1. OrderKept(i)' /\ i \in Journals
      BY <1>1 DEF OrderInv, OrderKept, TypeOK
    <3> QED BY <1>1, <2>1, <2>2, <2>7, <3>1 DEF ReleaseKept
  <2> QED BY <1>1, <1>3, <1>4, <2>3, <2>5, <2>6, <2>8 DEF OrderInv
<1> QED BY <1>5, <1>6

LEMMA FinishReleaseOrder ==
    ASSUME TypeOK, LockInv, OrderInv, NEW p \in Procs,
           Unlink(p) \/ WriteTarget(p) \/ ClearGuard(p) \/ FailRelease(p)
    PROVE  OrderInv'
<1> USE DEF Readers, Unlaunched, Keyed, Launching, Launched
<1>0. proc[p].pc \in {"unlinking", "clearing"} /\ UNCHANGED orders
  BY DEF Unlink, WriteTarget, ClearGuard, FailRelease, worldVars
<1> PICK j \in Journals : j = proc[p].at
  BY <1>0, ProcFacts
<1>1. CASE Unlink(p)
  <2>1. UNCHANGED <<journal, guard, proc, orders>>
    BY <1>1 DEF Unlink, worldVars
  <2> QED BY <2>1 DEF OrderInv, Seen, Knows, Steady, OrderKept, ReleaseKept, Holds, Current, Mine,
          Alone, InProgress
<1>2. CASE WriteTarget(p)
  <2>1. /\ proc[p].pc = "unlinking" /\ guard # None /\ guard.journal = j /\ guard.source = journal[j].rev
        /\ guard' = guard /\ journal' = [journal EXCEPT ![j] = guard.target]
        /\ Become(p, "clearing", guard.target.rev, proc[p].then)
    BY <1>2 DEF WriteTarget, LockInv, ReleaseInv, InProgress
  <2>2. guard.target \in JournalRecord /\ guard.target.rev \in Nat /\ proc[p].then \in Steps
    BY <1>0, <2>1, ProcFacts DEF TypeOK, Guard, JournalRecord
  <2>3. guard.target.rev = journal[j].rev + 1
    BY <2>1 DEF LockInv, GuardInv
  <2>4. /\ \A q \in Procs \ {p} : proc'[q] = proc[q]
        /\ proc'[p].pc = "clearing" /\ proc'[p].seen = guard.target.rev /\ proc'[p].at = j
        /\ proc'[p].then = proc[p].then
    <3>1. "clearing" \in Steps
      BY DEF Steps, LockSteps
    <3> QED BY <1>0, <2>1, <2>2, <3>1, BecomeFacts
  <2>8. \A q \in Procs \ {p} : proc[q].pc \notin LockSteps
    BY <1>0 DEF LockInv, MutexInv, LockSteps
  <2>5. Holds(p)
    BY <1>0 DEF OrderInv, Seen, Holds
  <2>6. Knows(p)'
    BY <1>0, <2>1, <2>4, <2>5 DEF OrderInv, Knows
  <2>7. j \in orders => OrderKept(j)'
    BY <2>1 DEF OrderInv, OrderKept, ReleaseKept, InProgress, TypeOK
  <2> QED BY <1>0, <2>1, <2>2, <2>3, <2>4, <2>5, <2>6, <2>7, <2>8, WriteOrder
<1>3. CASE ClearGuard(p) \/ FailRelease(p)
  <2>1. PICK step \in {proc[p].then, AfterFailure(p)} :
           /\ Become(p, step, proc[p].seen, "idle") /\ guard' = None /\ UNCHANGED journal
           /\ step = proc[p].then \/ FailRelease(p)
    BY <1>3 DEF ClearGuard, FailRelease
  <2>2. /\ step \in {"idle", "withdrawn", "failing", "reading", "settling"}
        /\ step = "settling" => Mine(p).stage = "locked"
        /\ step = "withdrawn" => proc[p].then = "withdrawn"
    BY <1>0, <2>1 DEF AfterFailure, OrderInv, Seen
  <2>3. step \in Steps /\ proc[p].seen \in Nat /\ "idle" \in Steps /\ proc[p].pc # "idle"
    BY <1>0, <2>2, ProcFacts DEF Steps
  <2>4. /\ \A q \in Procs \ {p} : proc'[q] = proc[q]
        /\ proc'[p].pc = step
        /\ step # "idle" => proc'[p].seen = proc[p].seen /\ proc'[p].at = j
    BY <2>1, <2>3, BecomeFacts
  <2>5. step \in {"withdrawn", "settling"} => j \notin orders
    <3>1. CASE step = "withdrawn"
      BY <1>0, <2>2, <3>1 DEF OrderInv, Knows, Seen, Holds
    <3>2. CASE step = "settling"
      BY <2>2, <2>3, <3>2, OrderFacts
    <3> QED BY <3>1, <3>2
  <2>6. Seen(p)' /\ Knows(p)'
    BY <1>0, <2>1, <2>2, <2>4, <2>5 DEF OrderInv, Seen, Knows, Holds, Mine
  <2> QED BY <1>0, <2>1, <2>2, <2>4, <2>6, MoveOrder
<1> QED BY <1>1, <1>2, <1>3

LEMMA RefusalOrder ==
    ASSUME TypeOK, LockInv, OrderInv, NEW p \in Procs,
           RecoverRefused(p) \/ SettleRefused(p) \/ Withdraw(p) \/ FinalWrite(p) \/ Exit(p)
    PROVE  OrderInv'
<1> USE DEF Readers, Unlaunched, Keyed, Launching, Launched
<1>0. proc[p].pc \in {"recovering", "settling", "withdrawn", "failing"} /\ proc[p].pc # "idle"
  BY DEF RecoverRefused, SettleRefused, Withdraw, FinalWrite, Exit
<1>1. CASE RecoverRefused(p)
  <2>1. /\ \E step \in {"settling", "failing"} :
              Goto(p, step) /\ (step = "settling" => Mine(p).stage = "locked")
        /\ guard' = guard /\ UNCHANGED <<journal, orders>>
    BY <1>1 DEF RecoverRefused, worldVars, fileVars
  <2> QED BY <1>0, <2>1, OrderFacts, GotoOrder DEF Steps
<1>2. CASE SettleRefused(p) \/ Exit(p)
  <2>1. /\ \E step \in {"idle", "failing"} : Goto(p, step)
        /\ guard' = guard /\ UNCHANGED <<journal, orders>>
    BY <1>2 DEF SettleRefused, Exit, worldVars, fileVars
  <2> QED BY <1>0, <2>1, GotoOrder DEF Steps
<1>3. CASE Withdraw(p)
  <2>1. /\ WriteStage(p, "done", "failing") /\ UNCHANGED orders /\ Section
        /\ proc[p].pc = "withdrawn" /\ Current(p)
    BY <1>3 DEF Withdraw, worldVars, WriteStage, Write
  <2> QED BY <1>0, <2>1, OrderFacts, StageOrder DEF Steps, Stages
<1>4. CASE FinalWrite(p)
  <2>1. /\ WriteStage(p, FinalStage(p), "idle") /\ UNCHANGED orders /\ Section
    BY <1>4 DEF FinalWrite, worldVars
  <2>2. FinalStage(p) \in Stages
    BY <1>0, ProcFacts DEF FinalStage, Stages
  <2>3. proc[p].at \in orders =>
            /\ FinalStage(p) \in {"attempted", "settled", "receipted", "proved", "done"}
            /\ FinalStage(p) # "done" => Mine(p).stage # "done"
    BY <1>0, OrderFacts DEF FinalStage
  <2> QED BY <1>0, <2>1, <2>2, <2>3, StageOrder DEF Steps
<1> QED BY <1>1, <1>2, <1>3, <1>4

LEMMA RecoveryOrder ==
    ASSUME TypeOK, LockInv, OrderInv, NEW p \in Procs,
           ResumePending(p) \/ Read(p) \/ Sweep(p) \/ Leave(p) \/ Crash(p)
    PROVE  OrderInv'
<1> USE DEF Readers, Unlaunched, Keyed, Launching, Launched
<1>0. proc[p].pc # "idle" /\ UNCHANGED <<journal, orders>>
  BY DEF ResumePending, Read, Sweep, Leave, Crash, worldVars, fileVars
<1> PICK j \in Journals : j = proc[p].at
  BY <1>0, ProcFacts
<1>1. ASSUME NEW step \in {"idle", "reading", "swept"}, Goto(p, step),
             guard' = guard \/ guard' = None
      PROVE  OrderInv'
  BY <1>0, <1>1, GotoOrder DEF Steps
<1>2. CASE ResumePending(p)
  <2>1. CASE \E step \in {"idle", "reading"} : Goto(p, step) /\ (guard' = guard \/ guard' = None)
    BY <1>1, <2>1
  <2>2. CASE /\ guard # None /\ guard.journal = j /\ guard.source = journal[j].rev
             /\ guard' = guard /\ Become(p, "unlinking", guard.source, "reading")
    <3>1. guard.source \in Nat /\ "unlinking" \in Steps /\ "reading" \in Steps
      BY <2>2 DEF TypeOK, Guard, Steps, LockSteps
    <3>2. /\ \A q \in Procs \ {p} : proc'[q] = proc[q]
          /\ proc'[p].pc = "unlinking" /\ proc'[p].seen = guard.source /\ proc'[p].at = j
          /\ proc'[p].then = "reading"
      BY <1>0, <2>2, <3>1, BecomeFacts
    <3>3. Seen(p)' /\ Knows(p)' /\ InProgress(j)
      BY <1>0, <2>2, <3>1, <3>2 DEF Seen, Knows, Holds, Current, Mine, InProgress
    <3> QED BY <1>0, <2>2, <3>2, <3>3, MoveOrder
  <2> QED BY <1>2, <2>1, <2>2 DEF ResumePending, Interrupted, Mine
<1>3. CASE Read(p)
  <2>1. AfterRead(p) \in {"judging", "ready", "idle"} /\ AfterRead(p) \in Steps
    BY DEF AfterRead, Steps
  <2>2. /\ \A q \in Procs \ {p} : proc'[q] = proc[q]
        /\ proc'[p].pc = AfterRead(p)
        /\ AfterRead(p) # "idle" => proc'[p].seen = Mine(p).rev /\ proc'[p].at = j
    BY <1>0, <1>3, <2>1, ProcFacts, BecomeFacts DEF Read
  <2>3. AfterRead(p) = "ready" =>
            journal[j].stage = "confirmed" /\ KeyOf[j] \in journal[j].bound /\ j \notin orders
    BY <1>0, OrderFacts DEF AfterRead, Resumable, Mine
  <2>4. Mine(p) = journal[j] /\ journal[j].rev \in Nat
    BY <1>0, ProcFacts DEF Mine
  <2>5. Seen(p)' /\ Knows(p)'
    BY <1>0, <2>1, <2>2, <2>3, <2>4 DEF Seen, Knows, Holds, Mine
  <2>6. guard' = guard
    BY <1>3 DEF Read, fileVars
  <2> QED BY <1>0, <2>1, <2>2, <2>3, <2>5, <2>6, MoveOrder
<1>4. CASE Sweep(p) \/ Leave(p) \/ Crash(p)
  BY <1>1, <1>4 DEF Sweep, Section, Leave, Crash, fileVars
<1> QED BY <1>2, <1>3, <1>4

(* A command starts: no process holds its journal yet.                     *)
LEMMA BeginOrder ==
    ASSUME TypeOK, LockInv, OrderInv, NEW p \in Procs, NEW j \in Journals,
           Start(p, j) \/ Resume(p, j) \/ Reconcile(p, j)
    PROVE  OrderInv'
<1> USE DEF Readers, Unlaunched, Keyed, Launching, Launched
<1>1. CASE Start(p, j)
  <2> DEFINE next == Revised(j, "requested", {}, 0)
  <2>1. /\ next \in JournalRecord /\ next.rev = 1 /\ journal[j] = Fresh
        /\ journal' = [journal EXCEPT ![j] = next] /\ guard' = None /\ UNCHANGED orders
        /\ proc' = [proc EXCEPT ![p] = Running("begun", "live", j, 1, FALSE)]
    BY <1>1 DEF Start, Section, worldVars, Revised, Fresh, JournalRecord, Stages
  <2> HIDE DEF next
  <2>2. journal'[j] = next /\ \A i \in Journals \ {j} : journal'[i] = journal[i]
    BY <2>1 DEF TypeOK
  <2>3. /\ \A q \in Procs \ {p} : proc'[q] = proc[q]
        /\ proc'[p].pc = "begun" /\ proc'[p].at = j /\ proc'[p].seen = 1
    BY <2>1 DEF TypeOK, Running
  <2>4. \A i \in Journals : ~InProgress(i)'
    BY <2>1 DEF InProgress
  <2>5. j \notin orders
    BY <2>1 DEF OrderInv, OrderKept, Fresh
  <2>6. ASSUME NEW q \in Procs \ {p} PROVE Seen(q)' /\ Knows(q)' /\ Steady(q)'
    <3> SUFFICES ASSUME proc[q].pc # "idle" PROVE Seen(q)' /\ Knows(q)' /\ Steady(q)'
      BY <2>3 DEF Seen, Knows, Steady, Holds
    <3>1. proc'[q] = proc[q] /\ proc[q].at \in Journals /\ proc[q].seen \in Nat
      BY <2>3 DEF TypeOK, Process
    <3>2. CASE proc[q].at = j
      <4>1. proc[q].seen <= 0 /\ proc[q].pc \notin Launching /\ proc[q].pc \notin LockSteps
        BY <1>1, <2>1, <3>2, OpenSection DEF OrderInv, Seen, Steady, Mine, Fresh, Start, Section
      <4> QED BY <2>1, <2>2, <3>1, <3>2, <4>1 DEF Seen, Knows, Steady, Holds, Current, Mine, LockSteps
    <3>3. CASE proc[q].at # j
      <4>1. journal'[proc[q].at] = journal[proc[q].at]
        BY <2>2, <3>1, <3>3
      <4>2. Seen(q)' /\ Knows(q)'
        BY <2>1, <3>1, <4>1 DEF OrderInv, Seen, Knows, Holds, Current, Mine
      <4>3. ASSUME proc[q].pc \in Launching PROVE Alone(q)'
        <5>1. Alone(q)
          BY <4>3 DEF OrderInv, Steady
        <5> QED BY <2>3, <2>4, <3>1, <3>3, <4>1, <5>1 DEF Alone, Holds, Current, Mine
      <4> QED BY <3>1, <4>1, <4>2, <4>3 DEF OrderInv, Steady, Current, Mine
    <3> QED BY <3>2, <3>3
  <2>7. Seen(p)' /\ Knows(p)' /\ Steady(p)'
    <3>1. /\ proc'[p].pc = "begun" /\ proc'[p].at = j /\ proc'[p].seen = 1 /\ j \notin orders'
          /\ journal'[j].rev = 1
      BY <2>1, <2>2, <2>3, <2>5
    <3>2. Seen(p)'
      BY <3>1 DEF Seen, Mine
    <3>3. Knows(p)'
      BY <3>1 DEF Knows
    <3>4. Steady(p)'
      BY <3>1 DEF Steady
    <3> QED BY <3>2, <3>3, <3>4
  <2>8. \A i \in orders : (OrderKept(i) /\ ReleaseKept(i))'
    BY <2>2, <2>4, <2>5 DEF OrderInv, OrderKept, ReleaseKept, TypeOK
  <2> QED BY <2>1, <2>6, <2>7, <2>8 DEF OrderInv
<1>2. ASSUME NEW command, Command(p, j, command) PROVE OrderInv'
  <2>1. /\ \A q \in Procs \ {p} : proc'[q] = proc[q]
        /\ proc'[p].pc = "opening" /\ proc'[p].at = j /\ proc'[p].seen = 0
        /\ UNCHANGED <<journal, guard, orders>>
    BY <1>2 DEF Command, Running, TypeOK, fileVars, worldVars
  <2>2. Seen(p)' /\ Knows(p)'
    BY <2>1 DEF Seen, Knows, Mine, TypeOK, JournalRecord
  <2> QED BY <2>1, <2>2, MoveOrder
<1> QED BY <1>1, <1>2 DEF Resume, Reconcile

LEMMA InitOrder == Init => OrderInv
BY DEF Init, OrderInv, Seen, Knows, Steady, Holds, Idle, Running, Launching

LEMMA NextOrder == TypeOK /\ LockInv /\ OrderInv /\ [Next]_vars => OrderInv'
<1> SUFFICES ASSUME TypeOK, LockInv, OrderInv, [Next]_vars PROVE OrderInv'
  OBVIOUS
<1>1. ASSUME NEW p \in Procs, Step(p) PROVE OrderInv'
  BY <1>1, ClaimOrder, ExecutionOrder, LaunchOrder, BeginReleaseOrder, FinishReleaseOrder,
     RefusalOrder, RecoveryOrder DEF Step
<1>2. CASE UNCHANGED <<journal, guard, proc, orders>>
  BY <1>2 DEF OrderInv, Seen, Knows, Steady, OrderKept, ReleaseKept, Holds, Current, Mine, Alone,
     InProgress
<1>3. ASSUME NEW j \in Journals, Expire(j) PROVE OrderInv'
  BY <1>2, <1>3 DEF Expire, fileVars
<1>4. CASE UNCHANGED vars
  BY <1>2, <1>4 DEF vars, fileVars, worldVars
<1> QED BY <1>1, <1>3, <1>4, RecoveryOrder, BeginOrder DEF Next

-----------------------------------------------------------------------------
(* Theorems *)

(* Whoever holds the durable journal knows whether its order process was   *)
(* started, and a started journey keeps both locks until it is resolved.   *)
THEOREM OrdersAgree == Spec => [](TypeOK /\ LockInv /\ OrderInv)
<1>1. Init => OrderInv
  BY InitOrder
<1>2. TypeOK /\ LockInv /\ OrderInv /\ [Next]_vars => OrderInv'
  BY NextOrder
<1> QED BY <1>1, <1>2, LocksAgree, PTL DEF Spec

(* A journal that resume-close may continue, or reconciliation may expire  *)
(* as never executed, belongs to a journey without an order process.       *)
THEOREM UnstartedNeverLaunch == Spec => []UnstartedNeverLaunched
<1>1. TypeOK /\ OrderInv => UnstartedNeverLaunched
  BY DEF UnstartedNeverLaunched, Unstarted, OrderInv, OrderKept
<1> QED BY <1>1, OrdersAgree, PTL

(* The runtime that recordRuntime has just journaled is started at most    *)
(* once per journey: no retry, resume or reconciliation, and no crash of   *)
(* any process, makes a second order process of it.                        *)
THEOREM LaunchesAreUnique == Spec => LaunchedOnce
<1> DEFINE Once == \A p \in Procs : proc[p].pc = "recorded" /\ proc'[p].pc = "launched"
                      => proc[p].at \notin orders
<1>1. TypeOK /\ OrderInv => \A p \in Procs : proc[p].pc = "recorded" => proc[p].at \notin orders
  BY OrderFacts DEF Launching, Unlaunched
<1>2. TypeOK /\ LockInv /\ OrderInv /\ [Next]_vars => Once
  BY <1>1
<1> QED BY <1>2, OrdersAgree, PTL DEF Spec, LaunchedOnce

-----------------------------------------------------------------------------
(* The lock registry: what a step of the directory is there *)

(* A step the registry does not see: every journal keeps its bindings, and *)
(* a started journey stays as resolved as it was.                          *)
Unseen ==
    /\ orders' = orders
    /\ \A j \in Journals :
          /\ journal'[j].bound = journal[j].bound
          /\ j \in orders => (journal'[j].stage = "done" <=> journal[j].stage = "done")

LEMMA UnseenStutters == Unseen => UNCHANGED Registry!registryVars
BY DEF Unseen, Registry!registryVars

(* A journal write that keeps the bindings.                                *)
LEMMA StageUnseen ==
    ASSUME TypeOK, NEW p \in Procs, proc[p].pc # "idle", NEW stage \in Stages, NEW step \in Steps,
           WriteStage(p, stage, step), UNCHANGED orders,
           proc[p].at \in orders => (stage = "done" <=> Mine(p).stage = "done")
    PROVE  Unseen
<1>1. /\ journal' = [journal EXCEPT ![proc[p].at] =
                        Revised(proc[p].at, stage, Mine(p).bound, Mine(p).gen)]
      /\ proc[p].at \in Journals
  BY ProcFacts, WriteFacts DEF WriteStage
<1> QED BY <1>1 DEF Unseen, Revised, Mine, TypeOK

(* Binding the journal to a lock that no journal is bound to.              *)
LEMMA AttachClaims ==
    ASSUME TypeOK, LockInv, OrderInv, NEW p \in Procs, AttachReplay(p) \/ AttachExec(p)
    PROVE  Registry!RegistryNext
<1>0. proc[p].pc # "idle" /\ proc[p].pc \in Unlaunched /\ Current(p)
  BY DEF AttachReplay, AttachExec, Unlaunched, Write
<1> PICK j \in Journals : j = proc[p].at
  BY <1>0, ProcFacts
<1>1. j \notin orders /\ orders' = orders
  BY <1>0, OrderFacts DEF AttachReplay, AttachExec, worldVars
<1> PICK r \in Resources : r = IF proc[p].pc = "attachExec" THEN Exec ELSE KeyOf[j]
  BY <1>0, ProcFacts
<1>3. locks[r] # None /\ locks[r].owner = j /\ r \notin journal[j].bound /\ guard = None
  BY DEF AttachReplay, AttachExec, LockInv, AttachInv, Mine
<1>4. \A i \in Journals : r \notin journal[i].bound
  BY <1>3 DEF LockInv, BindingBacked, Owned
<1>5. PICK stage, gen :
          journal' = [journal EXCEPT ![j] = Revised(j, stage, journal[j].bound \cup {r}, gen)]
  <2>1. CASE AttachReplay(p)
    BY <2>1 DEF AttachReplay, Write, Stages, Mine
  <2>2. CASE AttachExec(p)
    BY <2>2 DEF AttachExec, Write, Stages, Mine
  <2> QED BY <2>1, <2>2
<1>6. /\ journal'[j].bound = journal[j].bound \cup {r}
      /\ \A i \in Journals \ {j} : journal'[i] = journal[i]
  BY <1>5 DEF TypeOK, Revised
<1> DEFINE held == [i \in Journals |-> journal[i].bound]
<1>7. held' = [held EXCEPT ![j] = @ \cup {r}]
  BY <1>6
<1>8. Registry!Claim(j, r)
  <2>1. [i \in Journals |-> IF i \notin orders THEN "none"
                            ELSE IF journal[i].stage = "done" THEN "resolved" ELSE "open"]'
        = [i \in Journals |-> IF i \notin orders THEN "none"
                              ELSE IF journal[i].stage = "done" THEN "resolved" ELSE "open"]
    BY <1>1, <1>6
  <2> QED BY <1>1, <1>4, <1>7, <2>1 DEF Registry!Claim
<1> QED BY <1>8 DEF Registry!RegistryNext

LEMMA LaunchLaunches ==
    ASSUME TypeOK, OrderInv, NEW p \in Procs, Launch(p)
    PROVE  Registry!RegistryNext
<1>0. proc[p].pc # "idle" /\ proc[p].pc \in Unlaunched /\ proc[p].pc \in Launching
  BY DEF Launch, Unlaunched, Launching
<1> PICK j \in Journals : j = proc[p].at
  BY <1>0, ProcFacts
<1>1. /\ j \notin orders /\ Exec \in journal[j].bound /\ journal[j].stage = "attempted"
      /\ orders' = orders \cup {j} /\ journal' = journal
  BY <1>0, OrderFacts DEF Launch, Mine, fileVars
<1>2. Registry!Launch(j)
  BY <1>1 DEF Registry!Launch
<1> QED BY <1>2 DEF Registry!RegistryNext

(* The guarded journal write gives the locks back; for a started journey   *)
(* all of them, and with its resolution.                                   *)
LEMMA TargetReleases ==
    ASSUME TypeOK, LockInv, OrderInv, NEW p \in Procs, WriteTarget(p)
    PROVE  Unseen \/ Registry!RegistryNext
<1>0. guard # None /\ guard.journal \in Journals /\ guard.fields \in SUBSET Resources
  BY DEF WriteTarget, LockInv, ReleaseInv, InProgress, TypeOK, Guard
<1> PICK j \in Journals : j = guard.journal
  BY <1>0
<1> PICK freed \in SUBSET Resources : freed = journal[j].bound \cap guard.fields
  BY <1>0
<1>1. /\ InProgress(j) /\ guard # None
      /\ journal' = [journal EXCEPT ![j] = guard.target] /\ orders' = orders
  BY DEF WriteTarget, LockInv, ReleaseInv, InProgress, TypeOK, Guard, worldVars
<1>2. /\ journal'[j] = guard.target
      /\ \A i \in Journals \ {j} : journal'[i] = journal[i]
  BY <1>1 DEF TypeOK
<1>3. guard.target.bound = journal[j].bound \ guard.fields
  <2>1. guard.source \in Nat /\ journal[j].rev = guard.source /\ guard.target.rev = guard.source + 1
    BY <1>1 DEF InProgress, LockInv, GuardInv, TypeOK, Guard
  <2> QED BY <1>1, <2>1 DEF LockInv, GuardInv
<1>5. j \in orders => /\ guard.target.stage = "done" /\ journal[j].stage # "done"
                      /\ guard.fields = journal[j].bound /\ Exec \in journal[j].bound
  BY <1>1 DEF OrderInv, OrderKept, ReleaseKept
<1>6. CASE freed = {}
  <2>1. j \notin orders
    BY <1>5, <1>6
  <2> QED BY <1>1, <1>2, <1>3, <1>6, <2>1 DEF Unseen
<1>7. CASE freed # {}
  <2>1. \A i \in Journals : journal'[i].bound = IF i = j THEN journal[j].bound \ freed ELSE journal[i].bound
    BY <1>2, <1>3
  <2>2. Registry!Release(j, freed)
    <3>1. CASE j \notin orders
      BY <1>1, <1>2, <1>7, <2>1, <3>1 DEF Registry!Release
    <3>2. CASE j \in orders
      <4> DEFINE held == [i \in Journals |-> journal[i].bound]
                 order == [i \in Journals |-> IF i \notin orders THEN "none"
                                              ELSE IF journal[i].stage = "done" THEN "resolved"
                                              ELSE "open"]
      <4>1. held' = [held EXCEPT ![j] = @ \ freed] /\ freed \subseteq held[j]
        BY <2>1
      <4>2. order[j] = "open" /\ freed = held[j]
        BY <1>5, <3>2
      <4>3. order' = [order EXCEPT ![j] = "resolved"]
        BY <1>1, <1>2, <1>5, <3>2
      <4> QED BY <1>7, <4>1, <4>2, <4>3 DEF Registry!Release
    <3> QED BY <3>1, <3>2
  <2> QED BY <2>2 DEF Registry!RegistryNext
<1> QED BY <1>6, <1>7

(* Everything else is a stutter of the registry.                           *)
LEMMA StepRegistry ==
    ASSUME TypeOK, LockInv, OrderInv, NEW p \in Procs, Step(p)
    PROVE  Unseen \/ Registry!RegistryNext
<1> USE DEF Unlaunched, Launched
<1>0. proc[p].pc # "idle"
  BY StepBusy
<1>1. ASSUME UNCHANGED <<journal, orders>> PROVE Unseen
  BY <1>1 DEF Unseen
<1>2. CASE AttachReplay(p) \/ AttachExec(p) \/ Launch(p) \/ WriteTarget(p)
  BY <1>2, AttachClaims, LaunchLaunches, TargetReleases
<1>3. ASSUME NEW stage \in Stages, NEW step \in Steps, WriteStage(p, stage, step), UNCHANGED orders,
             \/ proc[p].pc \in Unlaunched
             \/ proc[p].pc \in Launched /\ stage # "done"
             \/ proc[p].at \in orders => (stage = "done" <=> Mine(p).stage = "done")
      PROVE  Unseen
  <2>1. Current(p)
    BY <1>3 DEF WriteStage, Write
  <2> QED BY <1>0, <1>3, <2>1, OrderFacts, StageUnseen
<1>4. CASE Confirm(p)
  BY <1>3, <1>4 DEF Confirm, worldVars, Stages, Steps
<1>5. CASE MarkAttempted(p)
  BY <1>3, <1>5 DEF MarkAttempted, worldVars, Stages, Steps
<1>6. CASE RecordRuntime(p)
  BY <1>3, <1>6 DEF RecordRuntime, worldVars, Stages, Steps
<1>7. CASE PersistResult(p)
  BY <1>3, <1>7 DEF PersistResult, worldVars, Stages, Steps
<1>8. CASE PersistProof(p)
  BY <1>3, <1>8 DEF PersistProof, worldVars, Stages, Steps
<1>9. CASE Withdraw(p)
  BY <1>3, <1>9 DEF Withdraw, worldVars, Stages, Steps
<1>10. CASE FinalWrite(p)
  <2>1. FinalStage(p) \in Stages /\ (FinalStage(p) = "done" <=> Mine(p).stage = "done")
    BY <1>0, ProcFacts DEF FinalStage, Stages
  <2> QED BY <1>3, <1>10, <2>1 DEF FinalWrite, worldVars, Steps
<1>11. CASE Abort(p)
  <2>1. CASE UNCHANGED journal
    BY <1>1, <1>11, <2>1 DEF Abort, worldVars
  <2>2. CASE WriteStage(p, IF proc[p].role = "live" THEN "aborted" ELSE Mine(p).stage, "recovering")
    <3>1. (IF proc[p].role = "live" THEN "aborted" ELSE Mine(p).stage) \in Stages
      BY <1>0, ProcFacts DEF Stages
    <3> QED BY <1>3, <1>11, <2>2, <3>1 DEF Abort, worldVars, Steps
  <2> QED BY <1>11, <2>1, <2>2 DEF Abort
<1>12. CASE \/ ClaimReplay(p) \/ ClaimExec(p) \/ ExecRefused(p) \/ AttachFails(p) \/ GiveUp(p)
           \/ AbortRefused(p) \/ (\E kind \in Kinds : BeginRelease(p, kind)) \/ Unlink(p)
           \/ ClearGuard(p) \/ FailRelease(p) \/ RecoverRefused(p) \/ SettleRefused(p) \/ Exit(p)
           \/ ResumePending(p) \/ Read(p) \/ Sweep(p) \/ Leave(p)
  BY <1>1, <1>12 DEF ClaimReplay, ClaimExec, ExecRefused, AttachFails, GiveUp, AbortRefused,
     BeginRelease, Unlink, ClearGuard, FailRelease, RecoverRefused, SettleRefused, Exit,
     ResumePending, Read, Sweep, Leave, fileVars, worldVars
<1> QED BY <1>2, <1>4, <1>5, <1>6, <1>7, <1>8, <1>9, <1>10, <1>11, <1>12 DEF Step

(* The directory, crashes and half-done releases included, implements the  *)
(* lock registry: claims, launches and releases take effect in one step,   *)
(* no lock is held twice, and an order under way loses none of its locks   *)
(* but all at once, with its resolution.                                   *)
THEOREM DirectoryIsRegistry == Spec => RefinesRegistry
<1>1. Init => Registry!RegistryInit
  BY DEF Init, Fresh, Registry!RegistryInit
<1>2. TypeOK /\ LockInv /\ OrderInv /\ [Next]_vars => [Registry!RegistryNext]_(Registry!registryVars)
  <2> SUFFICES ASSUME TypeOK, LockInv, OrderInv, [Next]_vars
               PROVE  Unseen \/ Registry!RegistryNext
    BY UnseenStutters
  <2>1. ASSUME UNCHANGED <<journal, orders>> PROVE Unseen
    BY <2>1 DEF Unseen
  <2>2. ASSUME NEW p \in Procs, NEW j \in Journals, Start(p, j) PROVE Unseen
    <3>1. /\ journal[j] = Fresh /\ orders' = orders
          /\ journal' = [journal EXCEPT ![j] = Revised(j, "requested", {}, 0)]
      BY <2>2 DEF Start, worldVars
    <3>2. j \notin orders
      BY <3>1 DEF OrderInv, OrderKept, Fresh
    <3>3. journal'[j].bound = journal[j].bound /\ \A i \in Journals \ {j} : journal'[i] = journal[i]
      BY <3>1 DEF Revised, Fresh, TypeOK
    <3> QED BY <3>1, <3>2, <3>3 DEF Unseen
  <2>3. ASSUME NEW p \in Procs, NEW j \in Journals, Resume(p, j) \/ Reconcile(p, j)
        PROVE  Unseen
    BY <2>1, <2>3 DEF Resume, Reconcile, Command, fileVars, worldVars
  <2>4. ASSUME NEW p \in Procs, Crash(p) PROVE Unseen
    BY <2>1, <2>4 DEF Crash, fileVars, worldVars
  <2>5. ASSUME NEW j \in Journals, Expire(j) PROVE Unseen
    BY <2>1, <2>5 DEF Expire, fileVars
  <2>6. CASE UNCHANGED vars
    BY <2>1, <2>6 DEF vars, fileVars, worldVars
  <2> QED BY <2>2, <2>3, <2>4, <2>5, <2>6, StepRegistry DEF Next
<1> QED BY <1>1, <1>2, OrdersAgree, PTL DEF Spec, RefinesRegistry, Registry!RegistrySpec

-----------------------------------------------------------------------------
(* The execution lock of an OPEN journey: a lock file that was published   *)
(* and never attached stays the file of the exact journal state it was     *)
(* published from, until somebody sweeps it.                               *)

(* Where a reconciliation can be.                                          *)
Reconciling == Readers \cup {"unlinking", "clearing"}

(* A lock file published for j that no write has attached.                 *)
Orphan(j) == locks[Exec] # None /\ locks[Exec].owner = j /\ Exec \notin journal[j].bound

Fits(p) ==
    proc[p].pc # "idle" =>
        /\ journal[proc[p].at].rev # 0
        /\ proc[p].late => proc[p].at \in expired
        /\ proc[p].role = "resume" => proc[p].at \notin Opens
        /\ proc[p].role = "reconcile" =>
              /\ proc[p].pc \in Reconciling
              /\ proc[p].pc \in {"unlinking", "clearing"} => proc[p].then \in {"idle", "reading"}

(* A journey has one live process, the one that started it.                *)
OneLive ==
    \A p, q \in Procs :
        /\ proc[p].pc # "idle" /\ proc[q].pc # "idle"
        /\ proc[p].role = "live" /\ proc[q].role = "live"
        /\ proc[p].at = proc[q].at
        => p = q

Ready(p) ==
    proc[p].pc \in {"ready", "attachExec"} /\ proc[p].at \in Opens /\ Current(p)
        => Mine(p).stage = "confirmed"

(* A late reconciliation that has swept knows that nothing is left.        *)
Swept(p) ==
    proc[p].pc = "swept" /\ proc[p].late /\ proc[p].at \in Opens /\ Current(p)
        => ~Orphan(proc[p].at)

(* In front of an orphan everybody who could still write only reads.       *)
OrphanKept(j) ==
    Orphan(j) =>
        /\ journal[j].stage = "confirmed"
        /\ locks[Exec].source = journal[j].rev
        /\ ~InProgress(j)
        /\ \A q \in Procs : proc[q].at = j /\ Holds(q) => proc[q].pc \in Readers \cup {"attachExec"}

OpenInv ==
    /\ \A p \in Procs : Fits(p) /\ Ready(p) /\ Swept(p)
    /\ OneLive
    /\ \A j \in Journals : journal[j].rev = 0 => journal[j] = Fresh
    /\ \A j \in Opens : OrphanKept(j)

(* Process p moves; no journal is written and no execution lock published. *)
LEMMA MoveOpen ==
    ASSUME TypeOK, OpenInv, NEW p \in Procs, NEW j \in Journals, proc[p].pc # "idle", proc[p].at = j,
           NEW step \in Steps, NEW rev \in Nat, NEW next \in Steps, Become(p, step, rev, next),
           UNCHANGED <<journal, expired>>,
           locks'[Exec] = locks[Exec] \/ locks'[Exec] = None,
           \A i \in Opens : InProgress(i)' => InProgress(i) \/ ~Orphan(i)',
           proc[p].role = "reconcile" =>
               /\ step \in Reconciling \cup {"idle"}
               /\ step \in {"unlinking", "clearing"} => next \in {"idle", "reading"},
           step \in {"ready", "attachExec"} /\ j \in Opens /\ rev = journal[j].rev
               => journal[j].stage = "confirmed",
           step = "swept" /\ j \in Opens => ~Orphan(j)' \/ rev # journal[j].rev,
           \/ step \in Readers \cup {"idle"}
           \/ proc[p].pc \notin Readers \cup {"attachExec"} /\ rev = proc[p].seen
           \/ j \in Opens => ~Orphan(j)'
    PROVE  OpenInv'
<1>1. /\ \A q \in Procs \ {p} : proc'[q] = proc[q]
      /\ proc'[p].pc = step
      /\ step # "idle" => /\ proc'[p].seen = rev /\ proc'[p].then = next
                          /\ proc'[p].at = j /\ proc'[p].role = proc[p].role
  BY BecomeFacts
<1>2. step # "idle" => proc'[p].late = proc[p].late
  BY DEF Become, TypeOK
<1>3. \A i \in Journals : Orphan(i)' => Orphan(i) /\ locks'[Exec] = locks[Exec]
  BY DEF Orphan
<1>4. \A q \in Procs \ {p} : (Fits(q) /\ Ready(q) /\ Swept(q))'
  <2> SUFFICES ASSUME NEW q \in Procs \ {p} PROVE (Fits(q) /\ Ready(q) /\ Swept(q))'
    OBVIOUS
  <2>1. Fits(q)' /\ Ready(q)'
    BY <1>1 DEF OpenInv, Fits, Ready, Current, Mine
  <2>2. Swept(q)'
    <3> SUFFICES ASSUME proc[q].pc = "swept" PROVE Swept(q)'
      BY <1>1 DEF Swept
    <3> PICK i \in Journals : i = proc[q].at
      BY DEF TypeOK
    <3>1. Orphan(i)' => Orphan(i)
      BY <1>3
    <3> QED BY <1>1, <3>1 DEF OpenInv, Swept, Current, Mine, Orphan
  <2> QED BY <2>1, <2>2
<1>5. Fits(p)'
  BY <1>1, <1>2 DEF OpenInv, Fits
<1>6. Ready(p)'
  BY <1>1 DEF Ready, Current, Mine
<1>7. Swept(p)'
  <2> SUFFICES ASSUME step = "swept", j \in Opens, rev = journal[j].rev PROVE ~Orphan(proc[p].at)'
    BY <1>1 DEF Swept, Current, Mine
  <2>1. proc'[p].at = j
    BY <1>1
  <2>2. ~Orphan(j)'
    OBVIOUS
  <2> QED BY <2>1, <2>2 DEF Orphan
<1>8. OneLive'
  BY <1>1 DEF OpenInv, OneLive
<1>9. ASSUME NEW i \in Opens PROVE OrphanKept(i)'
  <2> SUFFICES ASSUME Orphan(i)' PROVE OrphanKept(i)'
    BY DEF OrphanKept
  <2>0. i \in Journals /\ Orphan(i) /\ OrphanKept(i)
    BY <1>3, OpensAssumption DEF OpenInv
  <2>1. /\ (journal[i].stage = "confirmed")' /\ (locks[Exec].source = journal[i].rev)'
        /\ ~InProgress(i)'
    BY <1>3, <2>0 DEF OrphanKept
  <2>2. ASSUME NEW q \in Procs, proc'[q].at = i, Holds(q)' PROVE proc'[q].pc \in Readers \cup {"attachExec"}
    <3>1. CASE q # p
      BY <1>1, <2>0, <2>2, <3>1 DEF OrphanKept, Holds, Current, Mine
    <3>2. CASE q = p
      <4>1. step # "idle" /\ i = j /\ rev = journal[j].rev
        BY <1>1, <2>2, <3>2 DEF Holds, Current, Mine
      <4>2. CASE proc[p].pc \notin Readers \cup {"attachExec"} /\ rev = proc[p].seen
        <5>1. Holds(p)
          BY <4>1, <4>2 DEF Holds, Current, Mine
        <5> QED BY <2>0, <4>1, <4>2, <5>1 DEF OrphanKept
      <4> QED BY <1>1, <3>2, <4>1, <4>2
    <3> QED BY <3>1, <3>2
  <2> QED BY <2>1, <2>2 DEF OrphanKept
<1> QED BY <1>4, <1>5, <1>6, <1>7, <1>8, <1>9 DEF OpenInv

(* Process p writes the journal it holds.                                  *)
LEMMA WriteOpen ==
    ASSUME TypeOK, OrderInv, OpenInv, NEW p \in Procs, NEW j \in Journals, NEW record \in JournalRecord,
           proc[p].pc # "idle", proc[p].at = j,
           NEW step \in Steps, NEW next \in Steps, Become(p, step, record.rev, next),
           record.rev = journal[j].rev + 1, journal' = [journal EXCEPT ![j] = record],
           UNCHANGED <<locks, expired>>, guard' = guard \/ guard' = None,
           j \in Opens => ~Orphan(j)',
           proc[p].role = "reconcile" =>
               step = "clearing" /\ proc[p].pc = "unlinking" /\ next = proc[p].then,
           step \in {"ready", "attachExec"} /\ j \in Opens => record.stage = "confirmed"
    PROVE  OpenInv'
<1>0. record.rev \in Nat /\ journal[j].rev \in Nat
  BY DEF TypeOK, JournalRecord
<1>1. /\ \A q \in Procs \ {p} : proc'[q] = proc[q]
      /\ proc'[p].pc = step
      /\ step # "idle" => /\ proc'[p].seen = record.rev /\ proc'[p].then = next
                          /\ proc'[p].at = j /\ proc'[p].role = proc[p].role
  BY <1>0, BecomeFacts
<1>2. step # "idle" => proc'[p].late = proc[p].late
  BY DEF Become, TypeOK
<1>3. journal'[j] = record /\ \A i \in Journals \ {j} : journal'[i] = journal[i]
  BY DEF TypeOK
<1>4. ASSUME NEW q \in Procs \ {p}, proc[q].pc # "idle", proc[q].at = j PROVE ~Current(q)'
  <2>1. proc[q].seen \in Nat /\ proc[q].seen <= journal[j].rev
    BY <1>4 DEF OrderInv, Seen, Mine, TypeOK, Process
  <2> QED BY <1>0, <1>1, <1>3, <1>4, <2>1 DEF Current, Mine
<1>5. ASSUME NEW q \in Procs \ {p} PROVE (Fits(q) /\ Ready(q) /\ Swept(q))'
  <2> SUFFICES ASSUME proc[q].pc # "idle" PROVE (Fits(q) /\ Ready(q) /\ Swept(q))'
    BY <1>1 DEF Fits, Ready, Swept
  <2> PICK i \in Journals : i = proc[q].at
    BY DEF TypeOK
  <2>1. CASE i = j
    <3>1. Fits(q)'
      BY <1>0, <1>1, <1>3, <2>1 DEF OpenInv, Fits
    <3>2. ~Current(q)'
      BY <1>4, <2>1
    <3> QED BY <3>1, <3>2 DEF Ready, Swept
  <2>2. CASE i # j
    BY <1>1, <1>3, <2>2 DEF OpenInv, Fits, Ready, Swept, Current, Mine, Orphan
  <2> QED BY <2>1, <2>2
<1>6. Fits(p)'
  BY <1>0, <1>1, <1>2, <1>3 DEF OpenInv, Fits, Reconciling
<1>7. Ready(p)' /\ Swept(p)'
  <2>1. Ready(p)'
    BY <1>1, <1>3 DEF Ready, Mine
  <2>2. Swept(p)'
    BY <1>1 DEF Swept, Orphan
  <2> QED BY <2>1, <2>2
<1>8. OneLive'
  BY <1>1 DEF OpenInv, OneLive
<1>9. ASSUME NEW i \in Opens PROVE OrphanKept(i)'
  <2> SUFFICES ASSUME Orphan(i)' PROVE OrphanKept(i)'
    BY DEF OrphanKept
  <2>1. i \in Journals /\ i # j /\ journal'[i] = journal[i] /\ Orphan(i) /\ OrphanKept(i)
    BY <1>3, OpensAssumption DEF OpenInv, Orphan
  <2>2. InProgress(i)' => InProgress(i)
    BY <2>1 DEF InProgress
  <2>3. \A q \in Procs : proc'[q].at = i /\ Holds(q)' => proc'[q] = proc[q] /\ Holds(q)
    BY <1>1, <2>1 DEF Holds, Current, Mine
  <2> QED BY <2>1, <2>2, <2>3 DEF OrphanKept
<1>10. \A i \in Journals : journal'[i].rev = 0 => journal'[i] = Fresh
  BY <1>0, <1>3 DEF OpenInv
<1> QED BY <1>5, <1>6, <1>7, <1>8, <1>9, <1>10 DEF OpenInv

(* A process that holds the journal of an orphan does not write it, but to *)
(* attach the lock.                                                        *)
LEMMA NoOrphan ==
    ASSUME TypeOK, OpenInv, NEW p \in Procs, Holds(p), proc[p].at \in Opens,
           proc[p].pc \notin Readers \cup {"attachExec"}
    PROVE  ~Orphan(proc[p].at)
BY DEF OpenInv, OrphanKept

LEMMA StageOpen ==
    ASSUME TypeOK, OrderInv, OpenInv, NEW p \in Procs, NEW stage \in Stages, NEW step \in Steps,
           proc[p].pc \notin Readers \cup {"idle", "attachExec", "unlinking", "clearing"},
           WriteStage(p, stage, step), UNCHANGED <<locks, expired>>, guard' = guard \/ guard' = None,
           step \in {"ready", "attachExec"} => stage = "confirmed"
    PROVE  OpenInv'
<1> PICK j \in Journals : j = proc[p].at
  BY ProcFacts
<1> DEFINE record == Revised(j, stage, journal[j].bound, journal[j].gen)
<1>1. /\ journal' = [journal EXCEPT ![j] = record] /\ record \in JournalRecord
      /\ record.rev = journal[j].rev + 1 /\ record.stage = stage /\ record.bound = journal[j].bound
      /\ Become(p, step, record.rev, proc[p].then) /\ proc[p].then \in Steps /\ Holds(p)
  BY ProcFacts, WriteFacts DEF WriteStage, Revised, Mine, JournalRecord, Holds
<1> HIDE DEF record
<1>2. journal'[j].bound = journal[j].bound
  BY <1>1 DEF TypeOK
<1>3. j \in Opens => ~Orphan(j)'
  BY <1>1, <1>2, NoOrphan DEF Orphan
<1>4. proc[p].role # "reconcile"
  BY <1>1 DEF OpenInv, Fits, Reconciling
<1> QED BY <1>1, <1>3, <1>4, WriteOpen

(* Process p only moves on, to a step that is no reader's.                 *)
LEMMA GotoOpen ==
    ASSUME TypeOK, OpenInv, NEW p \in Procs, NEW step \in Steps, Goto(p, step),
           proc[p].pc # "idle", UNCHANGED <<journal, expired>>,
           locks'[Exec] = locks[Exec] \/ locks'[Exec] = None,
           guard' = guard \/ guard' = None,
           \/ step \in {"idle", "reading"}
           \/ /\ proc[p].pc \notin Reconciling \cup {"attachExec"}
              /\ step \notin {"ready", "attachExec", "swept"}
    PROVE  OpenInv'
<1> PICK j \in Journals : j = proc[p].at
  BY ProcFacts
<1>1. proc[p].seen \in Nat /\ proc[p].then \in Steps /\ Become(p, step, proc[p].seen, proc[p].then)
  BY ProcFacts DEF Goto
<1>2. \A i \in Opens : InProgress(i)' => InProgress(i)
  BY DEF InProgress
<1>3. proc[p].role = "reconcile" => proc[p].pc \in Reconciling
  BY DEF OpenInv, Fits
<1> QED BY <1>1, <1>2, <1>3, MoveOpen DEF Reconciling, Readers

-----------------------------------------------------------------------------
(* The steps *)

LEMMA ClaimOpen ==
    ASSUME TypeOK, LockInv, OrderInv, OpenInv, NEW p \in Procs, ClaimExec(p)
    PROVE  OpenInv'
<1> PICK j \in Journals : j = proc[p].at
  BY ProcFacts DEF ClaimExec
<1>1. /\ proc[p].pc = "ready" /\ Section /\ Current(p) /\ j \notin expired /\ Exec \notin journal[j].bound
      /\ locks' = [locks EXCEPT ![Exec] =
                      [owner |-> j, gen |-> claims + 1, source |-> journal[j].rev]]
      /\ Goto(p, "attachExec") /\ UNCHANGED <<journal, expired>> /\ guard' = None
  BY DEF ClaimExec, ExecClaimable, Mine, worldVars, Section
<1>2. locks'[Exec].owner = j /\ locks'[Exec].source = journal[j].rev
  BY <1>1 DEF TypeOK, Resources
<1>3. /\ \A q \in Procs \ {p} : proc'[q] = proc[q]
      /\ proc'[p].pc = "attachExec" /\ proc'[p].seen = proc[p].seen /\ proc'[p].at = j
      /\ proc'[p].role = proc[p].role /\ proc'[p].late = proc[p].late
  <2>1. "attachExec" \in Steps /\ proc[p].pc # "idle" /\ proc[p].seen \in Nat /\ proc[p].then \in Steps
    BY <1>1, ProcFacts DEF Steps, LockSteps
  <2>2. Become(p, "attachExec", proc[p].seen, proc[p].then)
    BY <1>1 DEF Goto
  <2>3. proc'[p].late = proc[p].late
    BY <2>2 DEF Become, TypeOK
  <2> QED BY <2>1, <2>2, <2>3, BecomeFacts
<1>4. \A i \in Journals \ {j} : ~Orphan(i)'
  BY <1>2 DEF Orphan
<1>5. \A q \in Procs : Fits(q)' /\ Ready(q)'
  BY <1>1, <1>3 DEF OpenInv, Fits, Ready, Reconciling, Readers, Current, Mine
<1>6. ASSUME NEW q \in Procs PROVE Swept(q)'
  <2> SUFFICES ASSUME q # p, proc[q].pc = "swept", proc[q].late PROVE Swept(q)'
    BY <1>3 DEF Swept
  <2> PICK i \in Journals : i = proc[q].at
    BY DEF TypeOK
  <2>1. i \in expired
    BY DEF OpenInv, Fits
  <2> QED BY <1>1, <1>3, <1>4, <2>1 DEF Swept, Orphan
<1>7. OneLive'
  BY <1>1, <1>3 DEF OpenInv, OneLive
<1>8. ASSUME j \in Opens PROVE OrphanKept(j)'
  <2>1. journal[j].stage = "confirmed"
    BY <1>1, <1>8 DEF OpenInv, Ready, Mine
  <2>2. proc[p].role = "live"
    BY <1>1, <1>8 DEF OpenInv, Fits, Reconciling, Readers, TypeOK, Process, Roles
  <2>3. ASSUME NEW q \in Procs \ {p}, proc[q].at = j, Holds(q) PROVE proc[q].pc \in Readers
    <3>1. proc[q].role \in Roles /\ proc[q].pc # "idle"
      BY <2>3 DEF TypeOK, Process, Holds
    <3>2. proc[q].role = "reconcile"
      BY <1>1, <1>8, <2>2, <2>3, <3>1 DEF OpenInv, OneLive, Fits, Roles
    <3>3. proc[q].pc \in Reconciling /\ proc[q].pc \notin LockSteps
      BY <1>1, <3>1, <3>2, OpenSection DEF OpenInv, Fits, Section
    <3> QED BY <3>3 DEF Reconciling, LockSteps
  <2>4. \A q \in Procs : proc'[q].at = j /\ Holds(q)' => proc'[q].pc \in Readers \cup {"attachExec"}
    BY <1>1, <1>3, <2>3 DEF Holds, Current, Mine
  <2> QED BY <1>1, <1>2, <2>1, <2>4 DEF OrphanKept, InProgress
<1>9. \A i \in Opens : OrphanKept(i)'
  BY <1>4, <1>8, OpensAssumption DEF OrphanKept
<1> QED BY <1>1, <1>5, <1>6, <1>7, <1>9 DEF OpenInv

LEMMA AttachOpen ==
    ASSUME TypeOK, LockInv, OrderInv, OpenInv, NEW p \in Procs,
           AttachReplay(p) \/ AttachExec(p) \/ AttachFails(p)
    PROVE  OpenInv'
<1>0. proc[p].pc \in {"attachReplay", "attachExec"} /\ proc[p].pc # "idle"
  BY DEF AttachReplay, AttachExec, AttachFails
<1> PICK j \in Journals : j = proc[p].at
  BY <1>0, ProcFacts
<1>1. CASE AttachFails(p)
  <2>1. /\ Goto(p, OnFailure(p)) /\ OnFailure(p) \in {"idle", "failing"} /\ UNCHANGED <<journal, expired>>
        /\ guard' = guard
        /\ locks'[Exec] = locks[Exec] \/ locks'[Exec] = None
        /\ proc[p].pc = "attachExec" => locks'[Exec] = None
    BY <1>1 DEF AttachFails, OnFailure, worldVars, TypeOK, Resources
  <2>2. CASE proc[p].pc = "attachReplay"
    BY <1>0, <2>1, <2>2, GotoOpen DEF Steps, Reconciling, Readers
  <2>3. CASE proc[p].pc = "attachExec"
    <3>1. ~Orphan(j)'
      BY <2>1, <2>3 DEF Orphan
    <3>2. /\ proc[p].seen \in Nat /\ proc[p].then \in Steps /\ OnFailure(p) \in Steps
          /\ Become(p, OnFailure(p), proc[p].seen, proc[p].then)
      BY <1>0, <2>1, ProcFacts DEF Goto, Steps
    <3>3. proc[p].role # "reconcile"
      BY <1>0 DEF OpenInv, Fits, Reconciling, Readers
    <3>4. \A i \in Opens : InProgress(i)' => InProgress(i)
      BY <2>1 DEF InProgress
    <3> QED BY <1>0, <2>1, <3>1, <3>2, <3>3, <3>4, MoveOpen
  <2> QED BY <1>0, <2>2, <2>3
<1>2. CASE AttachReplay(p) \/ AttachExec(p)
  <2> PICK r \in Resources : r = IF proc[p].pc = "attachExec" THEN Exec ELSE KeyOf[j]
    BY <1>0, ProcFacts
  <2>1. locks[Exec].gen \in Nat \/ AttachReplay(p)
    BY <1>2, ProcFacts DEF AttachExec, LockInv, AttachInv, TypeOK, LockFile, Resources
  <2>2. PICK stage \in Stages, gen \in Nat, step \in {"reserved", "locked"} :
            Write(p, stage, Mine(p).bound \cup {r}, gen, step)
    <3>1. CASE AttachReplay(p)
      BY <1>0, <3>1, ProcFacts DEF AttachReplay, Stages
    <3>2. CASE AttachExec(p)
      BY <2>1, <3>2 DEF AttachExec, AttachReplay, Stages
    <3> QED BY <1>2, <3>1, <3>2
  <2>3. UNCHANGED <<locks, expired>> /\ guard' = guard /\ Mine(p) = journal[j]
    BY <1>2 DEF AttachReplay, AttachExec, worldVars, Mine
  <2> DEFINE record == Revised(j, stage, journal[j].bound \cup {r}, gen)
  <2>4. /\ journal' = [journal EXCEPT ![j] = record] /\ record \in JournalRecord
        /\ record.rev = journal[j].rev + 1 /\ record.bound = journal[j].bound \cup {r}
        /\ Become(p, step, record.rev, proc[p].then) /\ proc[p].then \in Steps /\ Holds(p)
        /\ step \in Steps
    <3>1. Mine(p).bound \cup {r} \in SUBSET Resources /\ step \in Steps
      BY <1>0, ProcFacts DEF Steps
    <3>2. /\ Current(p) /\ Mine(p).rev + 1 \in Nat /\ proc[p].then \in Steps
          /\ journal' = [journal EXCEPT ![proc[p].at] =
                            Revised(proc[p].at, stage, Mine(p).bound \cup {r}, gen)]
          /\ Become(p, step, Mine(p).rev + 1, proc[p].then)
      <4>1. PICK bound : bound = Mine(p).bound \cup {r}
        OBVIOUS
      <4>2. Write(p, stage, bound, gen, step) /\ bound \in SUBSET Resources /\ proc[p].pc # "idle"
        BY <1>0, <2>2, <3>1, <4>1
      <4>3. /\ Current(p) /\ Mine(p).rev + 1 \in Nat /\ proc[p].then \in Steps
            /\ journal' = [journal EXCEPT ![proc[p].at] = Revised(proc[p].at, stage, bound, gen)]
            /\ Become(p, step, Mine(p).rev + 1, proc[p].then)
        BY <3>1, <4>2, WriteFacts
      <4> QED BY <4>1, <4>3
    <3>3. journal' = [journal EXCEPT ![j] = record]
      BY <2>3, <3>2
    <3> QED BY <1>0, <2>3, <3>1, <3>2, <3>3, ProcFacts DEF Revised, JournalRecord, Holds
  <2> HIDE DEF record
  <2>5. journal'[j].bound = journal[j].bound \cup {r}
    BY <2>4 DEF TypeOK
  <2>6. j \in Opens => ~Orphan(j)'
    <3>1. CASE proc[p].pc = "attachExec"
      BY <2>5, <3>1 DEF Orphan
    <3>2. CASE proc[p].pc = "attachReplay"
      BY <2>3, <2>4, <2>5, <3>2, NoOrphan DEF Orphan, Readers
    <3> QED BY <1>0, <3>1, <3>2
  <2>7. proc[p].role # "reconcile"
    BY <1>0 DEF OpenInv, Fits, Reconciling, Readers
  <2> QED BY <1>0, <2>3, <2>4, <2>6, <2>7, WriteOpen
<1> QED BY <1>1, <1>2

(* The steps that write a stage, or move on outside the release and the    *)
(* recovery.                                                               *)
LEMMA ExecutionOpen ==
    ASSUME TypeOK, OrderInv, OpenInv, NEW p \in Procs,
           \/ ClaimReplay(p) \/ Confirm(p) \/ ExecRefused(p) \/ MarkAttempted(p) \/ RecordRuntime(p)
           \/ Launch(p) \/ PersistResult(p) \/ PersistProof(p) \/ GiveUp(p) \/ Abort(p)
           \/ AbortRefused(p) \/ RecoverRefused(p) \/ SettleRefused(p) \/ Withdraw(p)
           \/ FinalWrite(p) \/ Exit(p)
    PROVE  OpenInv'
<1> USE DEF Readers, Reconciling
<1>0. proc[p].pc \notin Reconciling \cup {"idle", "attachExec"}
  BY DEF ClaimReplay, Confirm, ExecRefused, MarkAttempted, RecordRuntime, Launch, PersistResult,
     PersistProof, GiveUp, Abort, AbortRefused, RecoverRefused, SettleRefused, Withdraw, FinalWrite,
     Exit
<1>1. ASSUME NEW step \in Steps \ {"ready", "attachExec", "swept"}, Goto(p, step),
             UNCHANGED <<journal, expired>>, locks'[Exec] = locks[Exec], guard' = guard \/ guard' = None
      PROVE  OpenInv'
  BY <1>0, <1>1, GotoOpen
<1>2. ASSUME NEW stage \in Stages, NEW step \in Steps, WriteStage(p, stage, step),
             step \in {"ready", "attachExec"} => stage = "confirmed",
             UNCHANGED <<locks, expired>>, Section
      PROVE  OpenInv'
  BY <1>0, <1>2, StageOpen DEF Section
<1>3. CASE ClaimReplay(p)
  <2>1. KeyOf[proc[p].at] # Exec
    BY <1>0, ProcFacts, KeysAssumption, ExecAssumption
  <2>2. locks'[Exec] = locks[Exec]
    BY <1>3, <2>1 DEF ClaimReplay, TypeOK, Resources
  <2> QED BY <1>1, <1>3, <2>2 DEF ClaimReplay, Section, worldVars, Steps, LockSteps
<1>4. CASE Confirm(p)
  BY <1>2, <1>4 DEF Confirm, worldVars, Stages, Steps
<1>5. CASE ExecRefused(p)
  <2>1. \E step \in {"idle", "failing"} : Goto(p, step)
    BY <1>5 DEF ExecRefused, OnFailure
  <2> QED BY <1>1, <1>5, <2>1 DEF ExecRefused, worldVars, Steps
<1>6. CASE MarkAttempted(p)
  BY <1>2, <1>6 DEF MarkAttempted, worldVars, Stages, Steps
<1>7. CASE RecordRuntime(p)
  BY <1>2, <1>7 DEF RecordRuntime, worldVars, Stages, Steps
<1>8. CASE Launch(p)
  BY <1>1, <1>8 DEF Launch, fileVars, Steps
<1>9. CASE PersistResult(p)
  BY <1>2, <1>9 DEF PersistResult, worldVars, Stages, Steps
<1>10. CASE PersistProof(p)
  BY <1>2, <1>10 DEF PersistProof, worldVars, Stages, Steps
<1>11. CASE GiveUp(p)
  BY <1>1, <1>11 DEF GiveUp, OnFailure, fileVars, worldVars, Steps
<1>12. CASE Abort(p)
  <2>1. CASE Goto(p, "recovering") /\ UNCHANGED <<journal, guard>>
    BY <1>1, <1>12, <2>1 DEF Abort, worldVars, Steps
  <2>2. CASE /\ WriteStage(p, IF proc[p].role = "live" THEN "aborted" ELSE Mine(p).stage, "recovering")
             /\ Section
    <3>1. (IF proc[p].role = "live" THEN "aborted" ELSE Mine(p).stage) \in Stages
      BY <1>0, ProcFacts DEF Stages
    <3> QED BY <1>2, <1>12, <2>2, <3>1 DEF Abort, worldVars, Steps
  <2> QED BY <1>12, <2>1, <2>2 DEF Abort
<1>13. CASE AbortRefused(p)
  BY <1>1, <1>13 DEF AbortRefused, fileVars, worldVars, Steps
<1>14. CASE RecoverRefused(p)
  BY <1>1, <1>14 DEF RecoverRefused, fileVars, worldVars, Steps
<1>15. CASE SettleRefused(p)
  BY <1>1, <1>15 DEF SettleRefused, fileVars, worldVars, Steps
<1>16. CASE Withdraw(p)
  BY <1>2, <1>16 DEF Withdraw, worldVars, Stages, Steps
<1>17. CASE FinalWrite(p)
  <2>1. FinalStage(p) \in Stages
    BY <1>0, ProcFacts DEF FinalStage, Stages
  <2> QED BY <1>2, <1>17, <2>1 DEF FinalWrite, worldVars, Steps
<1>18. CASE Exit(p)
  BY <1>1, <1>18 DEF Exit, fileVars, worldVars, Steps
<1> QED BY <1>3, <1>4, <1>5, <1>6, <1>7, <1>8, <1>9, <1>10, <1>11, <1>12, <1>13, <1>14, <1>15,
    <1>16, <1>17, <1>18

LEMMA BeginReleaseOpen ==
    ASSUME TypeOK, LockInv, OrderInv, OpenInv, NEW p \in Procs, NEW kind \in Kinds, BeginRelease(p, kind)
    PROVE  OpenInv'
<1>0. proc[p].pc # "idle"
  BY DEF BeginRelease, CanRelease, Asks
<1> PICK j \in Journals : j = proc[p].at
  BY <1>0, ProcFacts
<1>1. /\ Asks(p, kind) /\ Holds(p) /\ Mine(p) = journal[j] /\ UNCHANGED <<journal, expired, locks>>
      /\ Become(p, "unlinking", proc[p].seen, AfterRelease(p, kind))
      /\ proc[p].seen \in Nat /\ AfterRelease(p, kind) \in Steps /\ "unlinking" \in Steps
  BY <1>0, ProcFacts DEF BeginRelease, CanRelease, Holds, Mine, worldVars, AfterRelease, Steps, LockSteps
<1>2. ASSUME j \in Opens PROVE ~Orphan(j)
  <2> SUFFICES ASSUME Orphan(j) PROVE FALSE
    OBVIOUS
  <2>1. journal[j].stage = "confirmed" /\ proc[p].pc \in Readers \cup {"attachExec"}
    BY <1>1, <1>2 DEF OpenInv, OrphanKept
  <2>2. proc[p].pc = "swept" /\ proc[p].late
    BY <1>1, <2>1 DEF Asks, Evidence, Readers
  <2> QED BY <1>1, <1>2, <2>2 DEF OpenInv, Swept, Holds
<1>3. ~Orphan(j)' <=> ~Orphan(j)
  BY <1>1 DEF Orphan
<1>4. \A i \in Opens : InProgress(i)' => InProgress(i) \/ ~Orphan(i)'
  <2>1. guard' = guard \/ guard'.journal = j
    BY DEF BeginRelease, NewGuard
  <2> SUFFICES ASSUME NEW i \in Opens, InProgress(i)' PROVE InProgress(i) \/ ~Orphan(i)'
    OBVIOUS
  <2>2. CASE i = j
    BY <1>2, <1>3, <2>2
  <2>3. CASE i # j
    BY <1>1, <2>1, <2>3 DEF InProgress
  <2> QED BY <2>2, <2>3
<1>5. proc[p].role = "reconcile" => AfterRelease(p, kind) = "idle"
  <2>1. proc[p].role = "reconcile" => kind # "unsent"
    BY <1>0, <1>1 DEF Asks, OpenInv, Fits, Reconciling, Readers
  <2> QED BY <2>1 DEF AfterRelease
<1>6. j \in Opens => ~Orphan(j)'
  BY <1>2, <1>3
<1> QED BY <1>0, <1>1, <1>4, <1>5, <1>6, MoveOpen DEF Reconciling

LEMMA FinishReleaseOpen ==
    ASSUME TypeOK, LockInv, OrderInv, OpenInv, NEW p \in Procs,
           Unlink(p) \/ WriteTarget(p) \/ ClearGuard(p) \/ FailRelease(p)
    PROVE  OpenInv'
<1> USE DEF Readers, Reconciling
<1>0. proc[p].pc \in {"unlinking", "clearing"} /\ UNCHANGED expired
  BY DEF Unlink, WriteTarget, ClearGuard, FailRelease, worldVars
<1> PICK j \in Journals : j = proc[p].at
  BY <1>0, ProcFacts
<1>1. CASE Unlink(p)
  <2>1. /\ UNCHANGED <<journal, guard, proc, expired>>
        /\ locks'[Exec] = locks[Exec] \/ locks'[Exec] = None
    BY <1>1 DEF Unlink, worldVars, TypeOK, Resources
  <2>2. \A i : Orphan(i)' => Orphan(i) /\ locks'[Exec] = locks[Exec]
    BY <2>1 DEF Orphan
  <2>3. \A q \in Procs : (Fits(q) /\ Ready(q) /\ Swept(q))'
    BY <2>1, <2>2 DEF OpenInv, Fits, Ready, Swept, Current, Mine, Orphan
  <2>4. OneLive'
    BY <2>1 DEF OpenInv, OneLive
  <2>5. \A i \in Opens : OrphanKept(i)'
    BY <2>1, <2>2 DEF OpenInv, OrphanKept, InProgress, Holds, Current, Mine
  <2> QED BY <2>1, <2>3, <2>4, <2>5 DEF OpenInv
<1>2. CASE WriteTarget(p)
  <2>1. /\ proc[p].pc = "unlinking" /\ InProgress(j) /\ guard # None /\ guard.journal = j
        /\ guard.source = journal[j].rev /\ Remaining = {} /\ UNCHANGED <<locks, guard>>
        /\ journal' = [journal EXCEPT ![j] = guard.target]
        /\ Become(p, "clearing", guard.target.rev, proc[p].then)
    BY <1>2 DEF WriteTarget, LockInv, ReleaseInv, InProgress
  <2>2. guard.target \in JournalRecord /\ proc[p].then \in Steps /\ "clearing" \in Steps
    BY <1>0, <2>1, ProcFacts DEF TypeOK, Guard, Steps, LockSteps
  <2>3. guard.target.rev = journal[j].rev + 1 /\ guard.target.bound = journal[j].bound \ guard.fields
    <3>1. guard.source \in Nat /\ guard.target.rev = guard.source + 1
      BY <2>1 DEF LockInv, GuardInv, TypeOK, Guard
    <3> QED BY <2>1, <3>1 DEF LockInv, GuardInv
  <2>4. j \in Opens => ~Orphan(j)'
    <3>1. (guard.target.bound)' = guard.target.bound /\ journal'[j] = guard.target
      BY <2>1 DEF TypeOK
    <3>2. CASE Exec \in journal[j].bound
      BY <2>1, <2>3, <3>1, <3>2 DEF Orphan, Remaining
    <3>3. CASE Exec \notin journal[j].bound /\ j \in Opens
      BY <2>1, <3>3 DEF OpenInv, OrphanKept, Orphan
    <3> QED BY <3>2, <3>3
  <2> QED BY <1>0, <2>1, <2>2, <2>3, <2>4, WriteOpen
<1>3. CASE ClearGuard(p) \/ FailRelease(p)
  <2>1. PICK step \in {proc[p].then, AfterFailure(p)} :
           /\ Become(p, step, proc[p].seen, "idle") /\ guard' = None /\ UNCHANGED <<journal, locks>>
           /\ step = proc[p].then \/ FailRelease(p)
    BY <1>3 DEF ClearGuard, FailRelease
  <2>2. /\ step \in {"idle", "withdrawn", "failing", "reading", "settling"}
        /\ proc[p].role = "reconcile" => step \in {"idle", "reading"}
    BY <1>0, <2>1 DEF AfterFailure, OrderInv, Seen, OpenInv, Fits
  <2>3. step \in Steps /\ proc[p].seen \in Nat /\ "idle" \in Steps /\ proc[p].pc # "idle"
    BY <1>0, <2>2, ProcFacts DEF Steps
  <2>4. \A i \in Opens : InProgress(i)' => InProgress(i)
    BY <2>1 DEF InProgress
  <2> QED BY <1>0, <2>1, <2>2, <2>3, <2>4, MoveOpen
<1> QED BY <1>1, <1>2, <1>3

LEMMA RecoveryOpen ==
    ASSUME TypeOK, LockInv, OrderInv, OpenInv, NEW p \in Procs,
           ResumePending(p) \/ Read(p) \/ Sweep(p) \/ Leave(p) \/ Crash(p)
    PROVE  OpenInv'
<1> USE DEF Readers, Reconciling
<1>0. proc[p].pc # "idle" /\ UNCHANGED <<journal, expired>>
  BY DEF ResumePending, Read, Sweep, Leave, Crash, worldVars, fileVars
<1> PICK j \in Journals : j = proc[p].at
  BY <1>0, ProcFacts
<1>1. ASSUME NEW step \in {"idle", "reading"}, Goto(p, step), locks' = locks,
             guard' = guard \/ guard' = None
      PROVE  OpenInv'
  BY <1>0, <1>1, GotoOpen DEF Steps
<1>2. CASE ResumePending(p)
  <2>1. CASE \E step \in {"idle", "reading"} : Goto(p, step) /\ (guard' = guard \/ guard' = None)
    BY <1>1, <1>2, <2>1 DEF ResumePending
  <2>2. CASE /\ guard # None /\ guard.journal = j /\ guard.source = journal[j].rev
             /\ guard' = guard /\ Become(p, "unlinking", guard.source, "reading")
    <3>1. guard.source \in Nat /\ "unlinking" \in Steps /\ "reading" \in Steps
      BY <2>2 DEF TypeOK, Guard, Steps, LockSteps
    <3>2. locks' = locks /\ (Orphan(j)' <=> Orphan(j))
      BY <1>0, <1>2 DEF ResumePending, Orphan
    <3>3. j \in Opens => ~Orphan(j)'
      BY <2>2, <3>2 DEF OpenInv, OrphanKept, InProgress
    <3>4. \A i \in Opens : InProgress(i)' => InProgress(i)
      BY <1>0, <2>2 DEF InProgress
    <3> QED BY <1>0, <2>2, <3>1, <3>2, <3>3, <3>4, MoveOpen
  <2> QED BY <1>2, <2>1, <2>2 DEF ResumePending, Interrupted, Mine
<1>3. CASE Read(p)
  <2>1. AfterRead(p) \in {"judging", "ready", "idle"} /\ AfterRead(p) \in Steps
    BY DEF AfterRead, Steps
  <2>2. /\ Mine(p) = journal[j] /\ journal[j].rev \in Nat /\ proc[p].then \in Steps
        /\ Become(p, AfterRead(p), journal[j].rev, proc[p].then)
    BY <1>0, <1>3, ProcFacts DEF Read, Mine
  <2>3. proc[p].role = "reconcile" => AfterRead(p) \in Reconciling \cup {"idle"}
    BY DEF AfterRead
  <2>4. AfterRead(p) = "ready" => j \notin Opens
    BY <1>0 DEF AfterRead, OpenInv, Fits
  <2>5. UNCHANGED <<locks, guard>>
    BY <1>3 DEF Read, fileVars
  <2>6. \A i \in Opens : InProgress(i)' => InProgress(i)
    BY <1>0, <2>5 DEF InProgress
  <2> QED BY <1>0, <2>1, <2>2, <2>3, <2>4, <2>5, <2>6, MoveOpen
<1>4. CASE Sweep(p)
  <2>1. /\ proc[p].pc = "judging" /\ guard' = None /\ Mine(p) = journal[j]
        /\ proc[p].seen \in Nat /\ proc[p].then \in Steps /\ "swept" \in Steps
    BY <1>0, <1>4, ProcFacts DEF Sweep, Section, Mine, Steps
  <2>2. CASE Goto(p, "idle") /\ UNCHANGED locks
    BY <1>1, <2>1, <2>2
  <2>3. CASE Goto(p, "swept") /\ UNCHANGED locks /\ (locks[Exec] = None \/ locks[Exec].owner # j)
    <3>1. ~Orphan(j)'
      BY <2>3 DEF Orphan
    <3> QED BY <1>0, <2>1, <2>3, <3>1, MoveOpen DEF InProgress, Goto
  <2>4. CASE Goto(p, "swept") /\ locks' = [locks EXCEPT ![Exec] = None]
    <3>1. locks'[Exec] = None
      BY <2>4 DEF TypeOK, Resources
    <3>2. ~Orphan(j)'
      BY <3>1 DEF Orphan
    <3> QED BY <1>0, <2>1, <2>4, <3>1, <3>2, MoveOpen DEF InProgress, Goto
  <2> QED BY <1>4, <2>2, <2>3, <2>4 DEF Sweep
<1>5. CASE Leave(p) \/ Crash(p)
  BY <1>1, <1>5 DEF Leave, Crash, fileVars
<1> QED BY <1>2, <1>3, <1>4, <1>5

LEMMA BeginOpen ==
    ASSUME TypeOK, LockInv, OrderInv, OpenInv, NEW p \in Procs, NEW j \in Journals,
           Start(p, j) \/ Resume(p, j) \/ Reconcile(p, j)
    PROVE  OpenInv'
<1> USE DEF Readers, Reconciling
<1>1. CASE Start(p, j)
  <2> DEFINE record == Revised(j, "requested", {}, 0)
  <2>1. /\ record \in JournalRecord /\ record.rev = 1 /\ record.bound = {} /\ journal[j] = Fresh
        /\ journal' = [journal EXCEPT ![j] = record] /\ guard' = None
        /\ UNCHANGED <<locks, expired>>
        /\ proc' = [proc EXCEPT ![p] = Running("begun", "live", j, 1, FALSE)]
    BY <1>1 DEF Start, Section, worldVars, Revised, Fresh, JournalRecord, Stages
  <2> HIDE DEF record
  <2>2. journal'[j] = record /\ \A i \in Journals \ {j} : journal'[i] = journal[i]
    BY <2>1 DEF TypeOK
  <2>3. /\ \A q \in Procs \ {p} : proc'[q] = proc[q]
        /\ proc'[p] = Running("begun", "live", j, 1, FALSE)
    BY <2>1 DEF TypeOK
  <2>4. \A q \in Procs \ {p} : proc[q].pc # "idle" => proc[q].at \in Journals \ {j}
    BY <2>1 DEF TypeOK, OpenInv, Fits, Fresh
  <2>5. ASSUME NEW q \in Procs \ {p} PROVE (Fits(q) /\ Ready(q) /\ Swept(q))'
    <3> SUFFICES ASSUME proc[q].pc # "idle" PROVE (Fits(q) /\ Ready(q) /\ Swept(q))'
      BY <2>3 DEF Fits, Ready, Swept
    <3> PICK i \in Journals \ {j} : i = proc[q].at
      BY <2>4
    <3> QED BY <2>1, <2>2, <2>3 DEF OpenInv, Fits, Ready, Swept, Current, Mine, Orphan
  <2>6. (Fits(p) /\ Ready(p) /\ Swept(p))'
    BY <2>1, <2>2, <2>3 DEF Fits, Ready, Swept, Running
  <2>7. OneLive'
    BY <2>3, <2>4 DEF OpenInv, OneLive, Running
  <2>8. \A i \in Journals : journal'[i].rev = 0 => journal'[i] = Fresh
    BY <2>1, <2>2 DEF OpenInv
  <2>9. ASSUME NEW i \in Opens PROVE OrphanKept(i)'
    <3> SUFFICES ASSUME Orphan(i)' PROVE OrphanKept(i)'
      BY DEF OrphanKept
    <3>1. Orphan(i) /\ OrphanKept(i) /\ i \in Journals
      BY <2>1, <2>2, OpensAssumption DEF OpenInv, Orphan, Fresh
    <3>2. i # j
      BY <2>1, <3>1 DEF OrphanKept, Fresh
    <3>3. \A q \in Procs : proc'[q].at = i /\ Holds(q)' => proc'[q] = proc[q] /\ Holds(q)
      BY <2>2, <2>3, <3>1, <3>2 DEF Holds, Current, Mine, Running
    <3> QED BY <2>1, <2>2, <3>1, <3>2, <3>3 DEF OrphanKept, InProgress
  <2> QED BY <2>5, <2>6, <2>7, <2>8, <2>9 DEF OpenInv
<1>2. ASSUME NEW command \in {"resume", "reconcile"}, Command(p, j, command),
             command = "resume" => j \notin Opens
      PROVE  OpenInv'
  <2>1. /\ \A q \in Procs \ {p} : proc'[q] = proc[q]
        /\ proc'[p] = Running("opening", command, j, 0, command = "reconcile" /\ j \in expired)
        /\ UNCHANGED <<journal, guard, locks, expired>>
    BY <1>2 DEF Command, TypeOK, fileVars, worldVars
  <2>2. /\ proc'[p].pc = "opening" /\ proc'[p].at = j /\ proc'[p].seen = 0 /\ proc'[p].role = command
    BY <2>1 DEF Running
  <2>3. journal[j].rev # 0
    BY <1>2 DEF Command, OpenInv
  <2>4. \A q \in Procs \ {p} : (Fits(q) /\ Ready(q) /\ Swept(q))'
    BY <2>1 DEF OpenInv, Fits, Ready, Swept, Current, Mine, Orphan
  <2>5. (Fits(p) /\ Ready(p) /\ Swept(p))'
    <3>1. proc'[p].late => j \in expired
      <4>1. PICK sample \in BOOLEAN : /\ sample => j \in expired
                                     /\ proc'[p] = Running("opening", command, j, 0, sample)
        BY <2>1, Zenon
      <4> QED BY <4>1 DEF Running
    <3>2. Fits(p)'
      BY <1>2, <2>1, <2>2, <2>3, <3>1 DEF Fits
    <3> QED BY <2>2, <3>2 DEF Ready, Swept
  <2>6. OneLive'
    BY <2>1, <2>2 DEF OpenInv, OneLive
  <2>7. ASSUME NEW i \in Opens PROVE OrphanKept(i)'
    <3>1. Orphan(i)' <=> Orphan(i)
      BY <2>1 DEF Orphan
    <3>2. \A q \in Procs : proc'[q].at = i /\ Holds(q)'
              => proc'[q].pc \in Readers \/ (proc'[q] = proc[q] /\ Holds(q))
      BY <2>1, <2>2 DEF Holds, Current, Mine
    <3> QED BY <2>1, <3>1, <3>2 DEF OpenInv, OrphanKept, InProgress
  <2> QED BY <2>1, <2>4, <2>5, <2>6, <2>7 DEF OpenInv
<1> QED BY <1>1, <1>2 DEF Resume, Reconcile

LEMMA InitOpen == Init => OpenInv
BY DEF Init, OpenInv, Fits, Ready, Swept, OneLive, OrphanKept, Orphan, Idle, Running, Resources

LEMMA NextOpen == TypeOK /\ LockInv /\ OrderInv /\ OpenInv /\ [Next]_vars => OpenInv'
<1> SUFFICES ASSUME TypeOK, LockInv, OrderInv, OpenInv, [Next]_vars PROVE OpenInv'
  OBVIOUS
<1>1. ASSUME NEW p \in Procs, Step(p) PROVE OpenInv'
  BY <1>1, ClaimOpen, AttachOpen, ExecutionOpen, BeginReleaseOpen, FinishReleaseOpen, RecoveryOpen
     DEF Step
<1>2. CASE UNCHANGED <<journal, guard, locks, proc>> /\ expired \subseteq expired'
  <2>1. \A q \in Procs : (Fits(q) /\ Ready(q) /\ Swept(q))'
    BY <1>2 DEF OpenInv, Fits, Ready, Swept, Current, Mine, Orphan
  <2> QED BY <1>2, <2>1 DEF OpenInv, OneLive, OrphanKept, Orphan, InProgress, Holds, Current, Mine
<1>3. ASSUME NEW j \in Journals, Expire(j) PROVE OpenInv'
  BY <1>2, <1>3 DEF Expire, fileVars
<1>4. CASE UNCHANGED vars
  BY <1>2, <1>4 DEF vars, fileVars, worldVars
<1> QED BY <1>1, <1>3, <1>4, RecoveryOpen, BeginOpen DEF Next

(* In front of an unattached execution lock of an OPEN nobody can write    *)
(* its journal any more, but to attach the lock.                           *)
THEOREM OrphansAgree == Spec => [](TypeOK /\ LockInv /\ OrderInv /\ OpenInv)
<1>1. Init => OpenInv
  BY InitOpen
<1>2. TypeOK /\ LockInv /\ OrderInv /\ OpenInv /\ [Next]_vars => OpenInv'
  BY NextOpen
<1> QED BY <1>1, <1>2, OrdersAgree, PTL DEF Spec

(* The execution lock file of an OPEN always has a way out: its journey is *)
(* bound to it, or still is the confirmed state that published it, which   *)
(* reconcileUnattachedExecutionLock sweeps.                                *)
THEOREM OpenLocksRecoverable ==
    Spec => [](locks[Exec] # None /\ locks[Exec].owner \in Opens => ExecLockRecoverable)
<1>1. TypeOK /\ LockInv /\ OpenInv => (locks[Exec] # None /\ locks[Exec].owner \in Opens => ExecLockRecoverable)
  <2> SUFFICES ASSUME TypeOK, LockInv, OpenInv, NEW j \in Opens, locks[Exec] # None, locks[Exec].owner = j
               PROVE  ExecLockRecoverable
    OBVIOUS
  <2>0. j \in Journals /\ Exec \in Resources
    BY OpensAssumption DEF Resources
  <2>1. CASE Exec \notin journal[j].bound
    BY <2>1 DEF OpenInv, OrphanKept, Orphan, ExecLockRecoverable
  <2>2. CASE Exec \in journal[j].bound
    <3>1. Owned(j, Exec) \/ (guard # None /\ guard.journal = j /\ guard.source = journal[j].rev /\ Exec \in guard.fields)
      BY <2>0, <2>2 DEF LockInv, BindingBacked
    <3>2. CASE guard # None /\ guard.journal = j /\ guard.source = journal[j].rev /\ Exec \in guard.fields
      <4>1. journal[j] # guard.target
        BY <2>0, <3>2 DEF LockInv, GuardInv, TypeOK, Guard
      <4>2. locks[Exec] = guard.locks[Exec] /\ guard.locks[Exec].gen = journal[j].gen
        BY <3>2, <4>1 DEF LockInv, GuardInv
      <4> QED BY <2>2, <4>2 DEF Owned, ExecLockRecoverable
    <3> QED BY <2>2, <3>1, <3>2 DEF ExecLockRecoverable
  <2> QED BY <2>1, <2>2
<1> QED BY <1>1, OrphansAgree, PTL

-----------------------------------------------------------------------------
(* Requests and attempts: the inductive invariant *)

(* The stages no release leads to.                                         *)
Opening == {"fresh", "requested", "attempted"}

(* The steps of a run that has not reserved its request identity.          *)
Claiming == {"begun", "attachReplay"}

(* What a running process knows of the stage of its journal.               *)
StageKnown(p) ==
    proc[p].pc # "idle" =>
        /\ Mine(p).stage # "fresh"
        /\ Current(p) =>
              /\ proc[p].pc \in Claiming => Mine(p).stage = "requested"
              /\ Mine(p).stage = "requested" => proc[p].pc \in Readers \cup Claiming \cup {"failing"}
              /\ proc[p].pc \in {"reserved", "settling"} => Mine(p).stage # "attempted"

(* The journal is still the one the replay lock was published from.        *)
Attaching(p) ==
    proc[p].pc = "attachReplay" =>
        Current(p) /\ locks[KeyOf[proc[p].at]].source = Mine(p).rev

(* A journey that has only been requested is bound to nothing, nothing of  *)
(* it is being released, and at most one process may write it.             *)
Unshared(j) ==
    /\ journal[j].stage = "fresh" => journal[j] = Fresh
    /\ journal[j].stage = "requested" =>
          /\ journal[j].bound = {}
          /\ ~InProgress(j)
          /\ \A p, q \in Procs :
                p # q /\ proc[p].at = j /\ proc[q].at = j /\ Holds(p) /\ Holds(q)
                    => proc[p].pc \in Readers \/ proc[q].pc \in Readers

(* A recorded attempt keeps both locks.                                    *)
AttemptKept(j) == journal[j].stage = "attempted" => {Exec, KeyOf[j]} \subseteq journal[j].bound

(* The journal that published k and never attached it can be written by    *)
(* nobody any more but the process that is about to attach it.             *)
Stranded(j, k) ==
    /\ journal[j].stage = "requested"
    /\ locks[k].source = journal[j].rev
    /\ \A p \in Procs : proc[p].at = j /\ Holds(p) => proc[p].pc \in Readers \cup {"attachReplay"}

(* A replay lock is that of its owner's request; its owner is bound to it, *)
(* or never attached it.                                                   *)
ReplayTold(k) ==
    locks[k] # None =>
        /\ KeyOf[locks[k].owner] = k
        /\ k \in journal[locks[k].owner].bound \/ Stranded(locks[k].owner, k)

RequestInv ==
    /\ \A p \in Procs : StageKnown(p) /\ Attaching(p)
    /\ \A j \in Journals : Unshared(j) /\ AttemptKept(j)
    /\ \A k \in Keys : ReplayTold(k)
    /\ guard # None => guard.target.stage \notin Opening

LEMMA KeyFacts ==
    ASSUME TypeOK, NEW k \in Keys
    PROVE  /\ k \in Resources /\ k # Exec
           /\ locks[k] # None => locks[k] \in LockFile /\ locks[k].owner \in Journals
BY ExecAssumption DEF TypeOK, Resources, LockFile

(* Process p moves; no journal is written and no replay lock published.    *)
LEMMA MoveRequest ==
    ASSUME TypeOK, RequestInv, NEW p \in Procs, UNCHANGED journal,
           \/ guard' \in {guard, None}
           \/ guard'.target.stage \notin Opening /\ journal[guard'.journal].stage # "requested",
           \A k \in Keys : locks'[k] \in {locks[k], None},
           locks' = locks \/ \A q \in Procs \ {p} : proc[q].pc # "attachReplay",
           \A q \in Procs \ {p} : proc'[q] = proc[q],
           proc'[p].pc # "attachReplay", StageKnown(p)',
           \/ proc'[p].pc \in Readers \cup {"idle"}
           \/ /\ proc[p].pc \notin Readers \cup {"idle"}
              /\ proc'[p].at = proc[p].at /\ proc'[p].seen = proc[p].seen
              /\ proc[p].pc = "attachReplay" => locks'[KeyOf[proc[p].at]] = None
           \/ journal[proc'[p].at].stage # "requested"
    PROVE  RequestInv'
<1>1. ASSUME NEW q \in Procs PROVE StageKnown(q)' /\ Attaching(q)'
  <2>1. CASE q = p
    BY <2>1 DEF Attaching
  <2>2. CASE q # p
    BY <2>2 DEF RequestInv, StageKnown, Attaching, Current, Mine
  <2> QED BY <2>1, <2>2
<1>2. ASSUME NEW j \in Journals, journal[j].stage = "requested", NEW q \in Procs,
             proc'[q].at = j, Holds(q)', proc'[q].pc \notin Readers
      PROVE  /\ proc[q].at = j /\ Holds(q) /\ proc[q].pc \notin Readers
             /\ q = p /\ proc[q].pc = "attachReplay" => locks'[KeyOf[j]] = None
  BY <1>2 DEF Holds, Current, Mine
<1>3. ASSUME NEW j \in Journals PROVE Unshared(j)' /\ AttemptKept(j)'
  <2>1. Unshared(j) /\ AttemptKept(j)
    BY DEF RequestInv
  <2>2. ASSUME journal[j].stage = "requested" PROVE ~InProgress(j)'
    BY <2>1, <2>2 DEF Unshared, InProgress
  <2>3. ASSUME journal[j].stage = "requested", NEW q \in Procs, NEW r \in Procs, q # r,
               proc'[q].at = j, proc'[r].at = j, Holds(q)', Holds(r)',
               proc'[q].pc \notin Readers, proc'[r].pc \notin Readers
        PROVE  FALSE
    BY <1>2, <2>1, <2>3 DEF Unshared
  <2> QED BY <2>1, <2>2, <2>3 DEF Unshared, AttemptKept
<1>4. ASSUME NEW k \in Keys PROVE ReplayTold(k)'
  <2> SUFFICES ASSUME locks'[k] # None PROVE ReplayTold(k)'
    BY DEF ReplayTold
  <2>1. locks'[k] = locks[k] /\ ReplayTold(k) /\ locks[k].owner \in Journals
    BY KeyFacts DEF RequestInv
  <2> PICK j \in Journals : j = locks[k].owner
    BY <2>1
  <2>2. ASSUME Stranded(j, k) PROVE Stranded(j, k)'
    <3>1. ASSUME NEW q \in Procs, proc'[q].at = j, Holds(q)', proc'[q].pc \notin Readers
          PROVE  proc'[q].pc = "attachReplay"
      <4>1. proc[q].pc = "attachReplay"
        BY <1>2, <2>2, <3>1 DEF Stranded
      <4>2. q # p
        BY <1>2, <2>1, <2>2, <3>1, <4>1 DEF Stranded, ReplayTold
      <4> QED BY <4>1, <4>2
    <3> QED BY <2>1, <2>2, <3>1 DEF Stranded
  <2> QED BY <2>1, <2>2 DEF ReplayTold
<1>5. guard' # None => guard'.target.stage \notin Opening
  BY DEF RequestInv
<1> QED BY <1>1, <1>3, <1>4, <1>5 DEF RequestInv

(* Process p, which holds its journal and is no reader, writes it.         *)
LEMMA WriteRequest ==
    ASSUME TypeOK, OrderInv, RequestInv, NEW p \in Procs, NEW j \in Journals,
           NEW next \in JournalRecord,
           proc[p].pc \notin Readers, Holds(p), proc[p].at = j,
           next.rev = journal[j].rev + 1, journal' = [journal EXCEPT ![j] = next],
           UNCHANGED locks, guard' \in {guard, None},
           \A q \in Procs \ {p} : proc'[q] = proc[q] /\ proc[q].pc # "attachReplay",
           proc'[p].pc # "idle" => proc'[p].at = j /\ proc'[p].seen = next.rev,
           proc'[p].pc \notin Claiming,
           proc'[p].pc \in {"reserved", "settling"} => next.stage # "attempted",
           next.stage # "fresh",
           next.stage = "requested" =>
               /\ next.bound = {} /\ guard' = None
               /\ proc'[p].pc = "idle",
           next.stage = "attempted" => {Exec, KeyOf[j]} \subseteq next.bound,
           \A k \in Keys \cap journal[j].bound : k \in next.bound \/ locks[k] = None,
           proc[p].pc = "attachReplay" => KeyOf[j] \in next.bound
    PROVE  RequestInv'
<1>1. /\ journal[j].rev \in Nat /\ journal'[j] = next
      /\ \A i \in Journals \ {j} : journal'[i] = journal[i]
  BY DEF TypeOK, JournalRecord
<1>2. ASSUME NEW q \in Procs \ {p}, proc[q].pc # "idle"
      PROVE  /\ proc'[q] = proc[q] /\ proc[q].at \in Journals
             /\ proc[q].at = j => ~Current(q)'
  <2>1. proc'[q] = proc[q] /\ proc[q].at \in Journals /\ proc[q].seen \in Nat
    BY <1>2 DEF TypeOK, Process
  <2>2. proc[q].at = j => proc[q].seen <= journal[j].rev
    BY <1>2 DEF OrderInv, Seen, Mine
  <2> QED BY <1>1, <2>1, <2>2 DEF Current, Mine
<1>3. ASSUME NEW q \in Procs PROVE StageKnown(q)' /\ Attaching(q)'
  <2>1. CASE q = p
    BY <1>1, <2>1 DEF StageKnown, Attaching, Claiming, Mine
  <2>2. CASE q # p
    <3>1. ASSUME proc[q].pc # "idle", proc[q].at = j PROVE StageKnown(q)'
      BY <1>1, <1>2, <2>2, <3>1 DEF StageKnown, Mine
    <3>2. ASSUME proc[q].pc # "idle", proc[q].at # j PROVE StageKnown(q)'
      <4>1. journal'[proc'[q].at] = journal[proc[q].at] /\ proc'[q] = proc[q]
        BY <1>1, <1>2, <2>2, <3>2
      <4> QED BY <4>1 DEF RequestInv, StageKnown, Current, Mine
    <3> QED BY <2>2, <3>1, <3>2 DEF StageKnown, Attaching
  <2> QED BY <2>1, <2>2
<1>4. ASSUME NEW i \in Journals, i # j, NEW q \in Procs, proc'[q].at = i, Holds(q)'
      PROVE  proc[q].at = i /\ Holds(q) /\ proc'[q].pc = proc[q].pc /\ q # p
  BY <1>1, <1>4 DEF Holds, Current, Mine
<1>5. ASSUME NEW q \in Procs, proc'[q].at = j, Holds(q)' PROVE q = p
  BY <1>2, <1>5 DEF Holds
<1>6. ASSUME NEW i \in Journals PROVE Unshared(i)' /\ AttemptKept(i)'
  <2>1. CASE i = j
    BY <1>1, <1>5, <2>1 DEF Unshared, AttemptKept, InProgress
  <2>2. CASE i # j
    <3>1. Unshared(i) /\ AttemptKept(i) /\ journal'[i] = journal[i]
      BY <1>1, <2>2 DEF RequestInv
    <3>2. InProgress(i)' => InProgress(i)
      BY <3>1 DEF InProgress
    <3> QED BY <1>4, <2>2, <3>1, <3>2 DEF Unshared, AttemptKept
  <2> QED BY <2>1, <2>2
<1>7. ASSUME NEW k \in Keys PROVE ReplayTold(k)'
  <2> SUFFICES ASSUME locks[k] # None PROVE ReplayTold(k)'
    BY DEF ReplayTold
  <2>1. ReplayTold(k) /\ locks[k].owner \in Journals
    BY KeyFacts DEF RequestInv
  <2> PICK i \in Journals : i = locks[k].owner
    BY <2>1
  <2>2. CASE i = j
    <3>1. k \in next.bound
      BY <2>1, <2>2 DEF ReplayTold, Stranded
    <3> QED BY <1>1, <2>1, <2>2, <3>1 DEF ReplayTold
  <2>3. CASE i # j
    <3>1. journal'[i] = journal[i]
      BY <1>1, <2>3
    <3>2. Stranded(i, k) => Stranded(i, k)'
      BY <1>4, <2>3, <3>1 DEF Stranded
    <3> QED BY <2>1, <3>1, <3>2 DEF ReplayTold
  <2> QED BY <2>2, <2>3
<1>8. guard' # None => guard'.target.stage \notin Opening
  BY DEF RequestInv
<1> QED BY <1>3, <1>6, <1>7, <1>8 DEF RequestInv

(* Process p only moves on, with the journal it has in memory.             *)
LEMMA GotoRequest ==
    ASSUME TypeOK, RequestInv, NEW p \in Procs, NEW step \in Steps \ (Claiming \cup {"reserved"}),
           proc[p].pc # "idle", Goto(p, step), UNCHANGED journal, guard' \in {guard, None},
           \A k \in Keys : locks'[k] \in {locks[k], None},
           locks' = locks \/ \A q \in Procs \ {p} : proc[q].pc # "attachReplay",
           step \in Readers \cup {"idle"} \/ proc[p].pc \notin Readers,
           proc[p].pc = "attachReplay" => step = "idle" \/ locks'[KeyOf[proc[p].at]] = None,
           \/ step \in Readers \cup {"idle", "failing"}
           \/ proc[p].pc \notin Readers \cup Claiming \cup {"failing"},
           step = "settling" => Mine(p).stage = "locked"
    PROVE  RequestInv'
<1>1. proc[p].seen \in Nat /\ proc[p].then \in Steps /\ proc[p].at \in Journals
  BY ProcFacts
<1>2. /\ \A q \in Procs \ {p} : proc'[q] = proc[q]
      /\ proc'[p].pc = step
      /\ step # "idle" => proc'[p].seen = proc[p].seen /\ proc'[p].at = proc[p].at
  BY <1>1, BecomeFacts DEF Goto
<1>3. StageKnown(p)'
  BY <1>2 DEF RequestInv, StageKnown, Current, Mine
<1> QED BY <1>2, <1>3, MoveRequest DEF Claiming

(* Process p writes its journal, against the revision it holds.            *)
LEMMA JournalRequest ==
    ASSUME TypeOK, OrderInv, RequestInv, NEW p \in Procs, NEW stage \in Stages \ {"fresh"},
           NEW bound \in SUBSET Resources, NEW gen \in Nat, NEW step \in Steps \ Claiming,
           proc[p].pc \notin Readers \cup {"idle"}, Write(p, stage, bound, gen, step),
           UNCHANGED locks, guard' \in {guard, None},
           \A q \in Procs \ {p} : proc[q].pc # "attachReplay",
           step \in {"reserved", "settling"} => stage # "attempted",
           stage = "requested" => bound = {} /\ guard' = None /\ step = "idle",
           stage = "attempted" => {Exec, KeyOf[proc[p].at]} \subseteq bound,
           Mine(p).bound \subseteq bound,
           proc[p].pc = "attachReplay" => KeyOf[proc[p].at] \in bound
    PROVE  RequestInv'
<1>1. proc[p].at \in Journals /\ proc[p].pc # "idle" /\ Mine(p).rev \in Nat
  BY ProcFacts
<1>2. /\ Current(p)
      /\ journal' = [journal EXCEPT ![proc[p].at] = Revised(proc[p].at, stage, bound, gen)]
      /\ Become(p, step, Mine(p).rev + 1, proc[p].then)
      /\ Mine(p).rev + 1 \in Nat
      /\ proc[p].then \in Steps
  BY <1>1, WriteFacts
<1> PICK j \in Journals : j = proc[p].at
  BY <1>1
<1> DEFINE next == Revised(proc[p].at, stage, bound, gen)
<1>3. /\ next \in JournalRecord /\ next.rev = journal[j].rev + 1
      /\ next.stage = stage /\ next.bound = bound
  BY <1>1 DEF Revised, JournalRecord, Mine
<1>4. journal' = [journal EXCEPT ![j] = next] /\ journal[j] = Mine(p)
  BY <1>2 DEF Mine
<1> HIDE DEF next
<1>5. /\ \A q \in Procs \ {p} : proc'[q] = proc[q]
      /\ proc'[p].pc = step
      /\ step # "idle" => proc'[p].seen = next.rev /\ proc'[p].at = j
  BY <1>1, <1>2, <1>3, BecomeFacts DEF Mine
<1>6. Holds(p) /\ proc[p].pc \notin Readers
  BY <1>1, <1>2 DEF Holds
<1> QED BY <1>3, <1>4, <1>5, <1>6, WriteRequest

(* The same for a write that changes the stage alone.                      *)
LEMMA StageRequest ==
    ASSUME TypeOK, LockInv, OrderInv, RequestInv, NEW p \in Procs, NEW stage \in Stages \ {"fresh"},
           NEW step \in Steps \ (Claiming \cup {"reserved", "settling"}),
           proc[p].pc \notin Readers \cup {"idle"}, WriteStage(p, stage, step),
           UNCHANGED locks, Section,
           stage = "requested" => Mine(p).stage = "requested" /\ step = "idle",
           stage = "attempted" => \/ Mine(p).stage = "attempted"
                                  \/ {Exec, KeyOf[proc[p].at]} \subseteq Mine(p).bound
    PROVE  RequestInv'
<1>1. proc[p].at \in Journals /\ Mine(p).bound \in SUBSET Resources /\ Mine(p).gen \in Nat
  BY ProcFacts
<1>2. /\ Mine(p).stage = "requested" => Mine(p).bound = {}
      /\ stage = "attempted" => {Exec, KeyOf[proc[p].at]} \subseteq Mine(p).bound
  BY <1>1 DEF RequestInv, Unshared, AttemptKept, Mine
<1>3. Write(p, stage, Mine(p).bound, Mine(p).gen, step)
  BY DEF WriteStage
<1>4. guard' = None /\ mutex = None
  BY DEF Section
<1>5. \A q \in Procs : proc[q].pc # "attachReplay"
  BY <1>4, OpenSection DEF LockSteps, Section
<1> QED BY <1>1, <1>2, <1>3, <1>4, <1>5, JournalRequest

(* What the invariant says of the process that takes a step.               *)
LEMMA RequestFacts ==
    ASSUME TypeOK, RequestInv, NEW p \in Procs, proc[p].pc # "idle"
    PROVE  /\ Mine(p).stage # "fresh"
           /\ Current(p) /\ proc[p].pc \in Claiming => Mine(p).stage = "requested"
           /\ Current(p) /\ Mine(p).stage = "requested"
                 => proc[p].pc \in Readers \cup Claiming \cup {"failing"}
           /\ Current(p) /\ proc[p].pc \in {"reserved", "settling"} => Mine(p).stage # "attempted"
BY DEF RequestInv, StageKnown

-----------------------------------------------------------------------------
(* Requests and attempts: the steps *)

(* The replay lock is published from the requested journal, which only     *)
(* this process may write.                                                 *)
LEMMA ClaimReplayRequest ==
    ASSUME TypeOK, LockInv, RequestInv, NEW p \in Procs, ClaimReplay(p)
    PROVE  RequestInv'
<1>0. proc[p].pc = "begun" /\ proc[p].pc # "idle" /\ Current(p)
  BY DEF ClaimReplay
<1> PICK j \in Journals : j = proc[p].at
  BY <1>0, ProcFacts
<1> PICK k \in Keys : k = KeyOf[j]
  BY KeysAssumption
<1>1. /\ locks[k] = None /\ guard' = None /\ UNCHANGED journal /\ mutex = None
      /\ locks' = [locks EXCEPT ![k] = [owner |-> j, gen |-> 0, source |-> journal[j].rev]]
      /\ Goto(p, "attachReplay")
  BY DEF ClaimReplay, Section, Absent, Mine
<1>2. /\ locks'[k].owner = j /\ locks'[k].source = journal[j].rev
      /\ \A i \in Keys \ {k} : locks'[i] = locks[i]
  BY <1>1, KeyFacts DEF TypeOK
<1>3. /\ \A q \in Procs \ {p} : proc'[q] = proc[q] /\ proc[q].pc # "attachReplay"
      /\ proc'[p].pc = "attachReplay" /\ proc'[p].seen = proc[p].seen /\ proc'[p].at = j
  <2>1. proc[p].seen \in Nat /\ proc[p].then \in Steps /\ "attachReplay" \in Steps
    BY <1>0, ProcFacts DEF Steps, LockSteps
  <2>2. \A q \in Procs : proc[q].pc # "attachReplay"
    BY OpenSection DEF LockSteps, ClaimReplay, Section
  <2> QED BY <1>0, <1>1, <2>1, <2>2, BecomeFacts DEF Goto
<1>4. journal[j].stage = "requested" /\ Holds(p)
  BY <1>0, RequestFacts DEF Claiming, Holds, Mine
<1>5. ASSUME NEW q \in Procs PROVE StageKnown(q)' /\ Attaching(q)'
  <2>1. CASE q = p
    BY <1>0, <1>1, <1>2, <1>3, <1>4, <2>1 DEF StageKnown, Attaching, Claiming, Current, Mine
  <2>2. CASE q # p
    BY <1>1, <1>3, <2>2 DEF RequestInv, StageKnown, Attaching, Current, Mine
  <2> QED BY <2>1, <2>2
<1>6. ASSUME NEW q \in Procs PROVE Holds(q)' => Holds(q) /\ proc'[q].at = proc[q].at
  BY <1>0, <1>1, <1>3 DEF Holds, Current, Mine
<1>7. ASSUME NEW q \in Procs, proc[q].pc \in Readers PROVE proc'[q].pc = proc[q].pc
  BY <1>0, <1>3, <1>7 DEF Readers
<1>8. ASSUME NEW i \in Journals PROVE Unshared(i)' /\ AttemptKept(i)'
  <2>1. Unshared(i) /\ AttemptKept(i)
    BY DEF RequestInv
  <2> QED BY <1>1, <1>6, <1>7, <2>1 DEF Unshared, AttemptKept, InProgress
<1>9. ASSUME NEW i \in Keys PROVE ReplayTold(i)'
  <2>1. CASE i = k
    <3>1. ASSUME NEW q \in Procs, proc'[q].at = j, Holds(q)'
          PROVE  proc'[q].pc \in Readers \cup {"attachReplay"}
      <4>1. CASE q = p
        BY <1>3, <4>1
      <4>2. CASE q # p
        <5>1. Unshared(j) /\ proc[p].pc \notin Readers
          BY <1>0 DEF RequestInv, Readers
        <5> QED BY <1>4, <1>6, <1>7, <3>1, <4>2, <5>1 DEF Unshared
      <4> QED BY <4>1, <4>2
    <3>2. Stranded(j, k)'
      BY <1>1, <1>2, <1>4, <3>1 DEF Stranded
    <3> QED BY <1>2, <2>1, <3>2 DEF ReplayTold
  <2>2. CASE i # k
    <3>1. ReplayTold(i) /\ locks'[i] = locks[i]
      BY <1>2, <2>2 DEF RequestInv
    <3>2. ASSUME NEW h \in Journals, Stranded(h, i), locks[i] # None, locks[i].owner = h
          PROVE  Stranded(h, i)'
      <4>1. h # j
        BY <2>2, <3>1, <3>2 DEF ReplayTold
      <4>2. ASSUME NEW q \in Procs, proc'[q].at = h, Holds(q)'
            PROVE  proc'[q].pc \in Readers \cup {"attachReplay"}
        BY <1>3, <1>6, <3>2, <4>1, <4>2 DEF Stranded
      <4> QED BY <1>1, <3>1, <3>2, <4>2 DEF Stranded
    <3>3. locks[i] # None => locks[i].owner \in Journals
      BY KeyFacts
    <3> QED BY <1>1, <3>1, <3>2, <3>3 DEF ReplayTold
  <2> QED BY <2>1, <2>2
<1> QED BY <1>1, <1>5, <1>8, <1>9 DEF RequestInv

LEMMA ClaimRequest ==
    ASSUME TypeOK, LockInv, OrderInv, RequestInv, NEW p \in Procs,
           ClaimExec(p) \/ AttachReplay(p) \/ AttachExec(p) \/ AttachFails(p)
    PROVE  RequestInv'
<1> USE DEF Readers, Claiming
<1>0. proc[p].pc # "idle"
  BY DEF ClaimExec, AttachReplay, AttachExec, AttachFails
<1> PICK j \in Journals : j = proc[p].at
  BY <1>0, ProcFacts
<1>1. CASE ClaimExec(p)
  <2>1. /\ Goto(p, "attachExec") /\ guard' = None /\ UNCHANGED journal /\ proc[p].pc = "ready"
        /\ \A k \in Keys : locks'[k] = locks[k]
    BY <1>1, KeyFacts DEF ClaimExec, Section, TypeOK
  <2>2. \A q \in Procs : proc[q].pc # "attachReplay"
    BY <1>1, OpenSection DEF LockSteps, ClaimExec, Section
  <2> QED BY <1>0, <2>1, <2>2, GotoRequest DEF Steps, LockSteps
<1>2. ASSUME proc[p].pc \in LockSteps PROVE \A q \in Procs \ {p} : proc[q].pc # "attachReplay"
  BY <1>2 DEF LockInv, MutexInv, LockSteps
<1>3. CASE AttachReplay(p)
  <2> DEFINE bound == Mine(p).bound \cup {KeyOf[proc[p].at]}
  <2>1. /\ Write(p, "reserved", bound, Mine(p).gen, "reserved") /\ UNCHANGED locks
        /\ guard' = guard /\ proc[p].pc = "attachReplay"
    BY <1>3 DEF AttachReplay
  <2>2. bound \in SUBSET Resources /\ Mine(p).gen \in Nat /\ KeyOf[proc[p].at] \in bound
        /\ Mine(p).bound \subseteq bound
    BY <1>0, ProcFacts
  <2> HIDE DEF bound
  <2> QED BY <1>0, <1>2, <2>1, <2>2, JournalRequest DEF Steps, LockSteps, Stages
<1>4. CASE AttachExec(p)
  <2> DEFINE bound == Mine(p).bound \cup {Exec}
  <2>1. /\ Write(p, "locked", bound, locks[Exec].gen, "locked") /\ UNCHANGED locks
        /\ guard' = guard /\ proc[p].pc = "attachExec"
    BY <1>4 DEF AttachExec
  <2>2. locks[Exec].gen \in Nat
    BY <1>0, <2>1, ProcFacts DEF LockInv, AttachInv, TypeOK, LockFile
  <2>3. bound \in SUBSET Resources /\ Mine(p).bound \subseteq bound
    BY <1>0, ProcFacts
  <2> HIDE DEF bound
  <2> QED BY <1>0, <1>2, <2>1, <2>2, <2>3, JournalRequest DEF Steps, LockSteps, Stages
<1>5. CASE AttachFails(p)
  <2>1. /\ Goto(p, OnFailure(p)) /\ guard' = guard /\ UNCHANGED journal
        /\ proc[p].pc \in {"attachReplay", "attachExec"} /\ OnFailure(p) \in {"failing", "idle"}
    BY <1>5 DEF AttachFails, OnFailure
  <2> PICK r \in Resources : r = IF proc[p].pc = "attachExec" THEN Exec ELSE KeyOf[j]
    BY <1>0, ProcFacts
  <2>2. locks' = [locks EXCEPT ![r] = None]
    BY <1>5 DEF AttachFails
  <2>3. /\ \A k \in Keys : locks'[k] \in {locks[k], None}
        /\ proc[p].pc = "attachReplay" => locks'[KeyOf[j]] = None
    BY <2>1, <2>2, KeyFacts DEF TypeOK
  <2> QED BY <1>0, <1>2, <2>1, <2>3, GotoRequest DEF Steps, LockSteps
<1> QED BY <1>1, <1>3, <1>4, <1>5

LEMMA ExecutionRequest ==
    ASSUME TypeOK, LockInv, OrderInv, RequestInv, NEW p \in Procs,
           \/ Confirm(p) \/ ExecRefused(p) \/ MarkAttempted(p) \/ RecordRuntime(p) \/ Launch(p)
           \/ PersistResult(p) \/ PersistProof(p) \/ GiveUp(p) \/ Abort(p) \/ AbortRefused(p)
    PROVE  RequestInv'
<1> USE DEF Readers, Claiming
<1>0. proc[p].pc # "idle" /\ UNCHANGED locks
  BY DEF Confirm, ExecRefused, MarkAttempted, RecordRuntime, Launch, PersistResult, PersistProof,
     GiveUp, Abort, AbortRefused, fileVars
<1>1. CASE Confirm(p)
  BY <1>0, <1>1, StageRequest DEF Confirm, Steps, Stages
<1>2. CASE ExecRefused(p)
  <2>1. /\ \E step \in {"idle", "failing"} : Goto(p, step)
        /\ guard' \in {guard, None} /\ UNCHANGED journal /\ proc[p].pc = "ready"
    BY <1>2 DEF ExecRefused, OnFailure
  <2> QED BY <1>0, <2>1, GotoRequest DEF Steps
<1>3. CASE MarkAttempted(p)
  <2>1. /\ WriteStage(p, "attempted", "attempted") /\ Section
        /\ proc[p].pc = "locked" /\ Current(p) /\ Exec \in Mine(p).bound
    BY <1>3 DEF MarkAttempted, WriteStage, Write
  <2>2. KeyOf[proc[p].at] \in Mine(p).bound
    BY <1>0, <2>1, OrderFacts DEF Keyed
  <2> QED BY <1>0, <2>1, <2>2, StageRequest DEF Steps, Stages
<1>4. CASE RecordRuntime(p)
  <2>1. /\ WriteStage(p, "attempted", "recorded") /\ Section /\ proc[p].pc = "attempted"
    BY <1>4 DEF RecordRuntime
  <2>2. Mine(p).stage = "attempted"
    BY <1>0, <2>1, OrderFacts DEF Launching
  <2> QED BY <1>0, <2>1, <2>2, StageRequest DEF Steps, Stages
<1>5. CASE PersistResult(p)
  BY <1>0, <1>5, StageRequest DEF PersistResult, Steps, Stages
<1>6. CASE PersistProof(p)
  <2>1. /\ \E stage \in {"receipted", "proved"} : WriteStage(p, stage, "proved")
        /\ Section /\ proc[p].pc = "settled"
    BY <1>6 DEF PersistProof
  <2> QED BY <1>0, <2>1, StageRequest DEF Steps, Stages
<1>7. CASE GiveUp(p) \/ AbortRefused(p)
  <2>1. /\ \E step \in {"idle", "failing"} : Goto(p, step)
        /\ guard' = guard /\ UNCHANGED journal
        /\ proc[p].pc \notin Readers \cup {"attachReplay"}
    BY <1>7 DEF GiveUp, AbortRefused, OnFailure, fileVars
  <2> QED BY <1>0, <2>1, GotoRequest DEF Steps
<1>8. CASE Launch(p)
  <2>1. Goto(p, "launched") /\ guard' = guard /\ UNCHANGED journal /\ proc[p].pc = "recorded"
    BY <1>8 DEF Launch, fileVars
  <2> QED BY <1>0, <2>1, GotoRequest DEF Steps
<1>9. CASE Abort(p)
  <2>1. CASE proc[p].role = "live" /\ proc[p].pc = "locked"
    <3>1. Goto(p, "recovering") /\ guard' = guard /\ UNCHANGED journal
      BY <1>9, <2>1 DEF Abort
    <3> QED BY <1>0, <2>1, <3>1, GotoRequest DEF Steps
  <2>2. CASE ~(proc[p].role = "live" /\ proc[p].pc = "locked")
    <3> DEFINE stage == IF proc[p].role = "live" THEN "aborted" ELSE Mine(p).stage
    <3>1. /\ WriteStage(p, stage, "recovering") /\ Section
          /\ proc[p].pc \in {"locked", "attempted", "recorded"} /\ Current(p)
      BY <1>9, <2>2 DEF Abort, WriteStage, Write
    <3>2. stage \in Stages \ {"fresh", "requested"} /\ (stage = "attempted" => Mine(p).stage = "attempted")
      BY <1>0, <3>1, ProcFacts, RequestFacts DEF Stages
    <3> HIDE DEF stage
    <3> QED BY <1>0, <3>1, <3>2, StageRequest DEF Steps
  <2> QED BY <2>1, <2>2
<1> QED BY <1>1, <1>2, <1>3, <1>4, <1>5, <1>6, <1>7, <1>8, <1>9

(* Nothing that was only requested, and no recorded attempt, is released   *)
(* into the same stage.                                                    *)
LEMMA BeginReleaseRequest ==
    ASSUME TypeOK, LockInv, OrderInv, RequestInv, NEW p \in Procs, NEW kind \in Kinds,
           BeginRelease(p, kind)
    PROVE  RequestInv'
<1>0. proc[p].pc # "idle"
  BY DEF BeginRelease, CanRelease, Asks
<1> PICK j \in Journals : j = proc[p].at
  BY <1>0, ProcFacts
<1>1. /\ Current(p) /\ proc[p].seen \in Nat /\ UNCHANGED <<journal, locks>>
      /\ Become(p, "unlinking", proc[p].seen, AfterRelease(p, kind))
      /\ Asks(p, kind) /\ Mine(p) = journal[j]
  BY <1>0, ProcFacts DEF BeginRelease, CanRelease, Mine
<1>2. /\ \A q \in Procs \ {p} : proc'[q] = proc[q]
      /\ proc'[p].pc = "unlinking" /\ proc'[p].seen = proc[p].seen /\ proc'[p].at = j
  <2>1. AfterRelease(p, kind) \in Steps /\ "unlinking" \in Steps
    BY DEF AfterRelease, Steps, LockSteps
  <2> QED BY <1>0, <1>1, <2>1, BecomeFacts
<1>3. journal[j].stage \notin {"fresh", "requested"}
  <2>1. CASE proc[p].pc \in {"judging", "swept"}
    BY <1>1, <2>1 DEF Asks, Evidence, Unstarted
  <2>2. CASE proc[p].pc \notin {"judging", "swept"}
    BY <1>0, <1>1, <2>2, RequestFacts DEF Asks, Readers, Claiming
  <2> QED BY <2>1, <2>2
<1>4. StageKnown(p)'
  BY <1>1, <1>2, <1>3 DEF StageKnown, Claiming, Mine
<1>5. \/ guard' = guard
      \/ guard'.target.stage \notin Opening /\ journal[guard'.journal].stage # "requested"
  <2> SUFFICES ASSUME guard = None
               PROVE  guard'.target.stage \notin Opening /\ journal[guard'.journal].stage # "requested"
    BY DEF BeginRelease
  <2>1. guard'.target = Target(j, kind) /\ guard'.journal = j
    BY DEF BeginRelease, NewGuard
  <2>2. TargetStage(j, kind) \notin Opening
    <3>1. CASE kind \in {"expired", "complete", "reconciled", "prelaunch"}
      BY <3>1 DEF TargetStage, Opening
    <3>2. CASE kind \in {"unsent", "settle"}
      <4>1. journal[j].stage # "attempted"
        BY <1>0, <1>1, <3>2, RequestFacts DEF Asks
      <4> QED BY <1>3, <3>2, <4>1 DEF TargetStage, Opening
    <3> QED BY <3>1, <3>2 DEF Kinds
  <2> QED BY <1>3, <2>1, <2>2 DEF Target, Revised
<1> QED BY <1>1, <1>2, <1>3, <1>4, <1>5, MoveRequest

LEMMA FinishReleaseRequest ==
    ASSUME TypeOK, LockInv, OrderInv, RequestInv, NEW p \in Procs,
           Unlink(p) \/ WriteTarget(p) \/ ClearGuard(p) \/ FailRelease(p)
    PROVE  RequestInv'
<1>0. proc[p].pc \in {"unlinking", "clearing"}
  BY DEF Unlink, WriteTarget, ClearGuard, FailRelease
<1> PICK j \in Journals : j = proc[p].at
  BY <1>0, ProcFacts
<1>4. \A q \in Procs : proc[q].pc # "attachReplay"
  BY <1>0 DEF LockInv, MutexInv, LockSteps
<1>5. Current(p) /\ proc[p].pc # "idle"
  BY <1>0 DEF OrderInv, Seen
<1>6. /\ Mine(p).stage \notin {"fresh", "requested"} /\ Mine(p) = journal[j]
      /\ proc[p].pc \notin Readers \cup Claiming \cup {"idle"}
  BY <1>0, <1>5, RequestFacts DEF Readers, Claiming, Mine
<1>1. CASE Unlink(p)
  <2>1. PICK r \in Resources : locks' = [locks EXCEPT ![r] = None]
    BY <1>0, <1>1 DEF Unlink, Remaining, LockInv, ReleaseInv, InProgress, TypeOK, Guard
  <2>2. /\ \A k \in Keys : locks'[k] \in {locks[k], None}
        /\ UNCHANGED <<journal, guard, proc>>
    BY <1>1, <2>1, KeyFacts DEF Unlink, TypeOK
  <2>3. StageKnown(p)'
    BY <2>2 DEF RequestInv, StageKnown, Current, Mine
  <2> QED BY <1>4, <1>6, <2>2, <2>3, MoveRequest
<1>2. CASE WriteTarget(p)
  <2>1. /\ proc[p].pc = "unlinking" /\ guard # None /\ guard.journal = j /\ guard.source = journal[j].rev
        /\ guard' = guard /\ journal' = [journal EXCEPT ![j] = guard.target]
        /\ Become(p, "clearing", guard.target.rev, proc[p].then) /\ Remaining = {}
        /\ UNCHANGED locks
    BY <1>2 DEF WriteTarget, LockInv, ReleaseInv, InProgress
  <2>2. /\ guard.target \in JournalRecord /\ guard.target.rev \in Nat /\ proc[p].then \in Steps
        /\ guard.fields \in SUBSET Resources
    BY <1>0, <2>1, ProcFacts DEF TypeOK, Guard, JournalRecord
  <2>3. /\ guard.target.rev = journal[j].rev + 1
        /\ guard.target.bound = journal[j].bound \ guard.fields
    BY <2>1, <2>2 DEF LockInv, GuardInv, TypeOK, JournalRecord
  <2>4. /\ \A q \in Procs \ {p} : proc'[q] = proc[q]
        /\ proc'[p].pc = "clearing" /\ proc'[p].seen = guard.target.rev /\ proc'[p].at = j
    <3>1. "clearing" \in Steps
      BY DEF Steps, LockSteps
    <3> QED BY <1>0, <2>1, <2>2, <3>1, BecomeFacts
  <2>5. guard.target.stage \notin Opening
    BY <2>1 DEF RequestInv
  <2>6. \A k \in Keys \cap journal[j].bound : k \in guard.target.bound \/ locks[k] = None
    BY <2>1, <2>3 DEF Remaining
  <2> QED BY <1>0, <1>4, <1>5, <1>6, <2>1, <2>2, <2>3, <2>4, <2>5, <2>6, WriteRequest
          DEF Opening, Holds, Claiming
<1>3. CASE ClearGuard(p) \/ FailRelease(p)
  <2>1. PICK step \in {proc[p].then, AfterFailure(p)} :
           /\ Become(p, step, proc[p].seen, "idle") /\ guard' = None /\ UNCHANGED <<journal, locks>>
           /\ step = proc[p].then \/ FailRelease(p)
    BY <1>3 DEF ClearGuard, FailRelease
  <2>2. /\ step \in {"idle", "withdrawn", "failing", "reading", "settling"}
        /\ step = "settling" => Mine(p).stage = "locked"
    BY <1>0, <2>1 DEF AfterFailure, OrderInv, Seen
  <2>3. step \in Steps /\ proc[p].seen \in Nat /\ "idle" \in Steps
    BY <1>5, <2>2, ProcFacts DEF Steps
  <2>4. /\ \A q \in Procs \ {p} : proc'[q] = proc[q]
        /\ proc'[p].pc = step
        /\ step # "idle" => proc'[p].seen = proc[p].seen /\ proc'[p].at = j
    BY <1>5, <2>1, <2>3, BecomeFacts
  <2>5. StageKnown(p)'
    BY <1>6, <2>1, <2>2, <2>4 DEF StageKnown, Claiming, Mine
  <2> QED BY <1>6, <2>1, <2>2, <2>4, <2>5, MoveRequest
<1> QED BY <1>1, <1>2, <1>3

LEMMA RefusalRequest ==
    ASSUME TypeOK, LockInv, OrderInv, RequestInv, NEW p \in Procs,
           RecoverRefused(p) \/ SettleRefused(p) \/ Withdraw(p) \/ FinalWrite(p) \/ Exit(p)
    PROVE  RequestInv'
<1> USE DEF Readers, Claiming
<1>0. /\ proc[p].pc \in {"recovering", "settling", "withdrawn", "failing"} /\ proc[p].pc # "idle"
      /\ UNCHANGED locks
  BY DEF RecoverRefused, SettleRefused, Withdraw, FinalWrite, Exit, fileVars
<1>1. CASE RecoverRefused(p)
  <2>1. /\ \E step \in {"settling", "failing"} :
              Goto(p, step) /\ (step = "settling" => Mine(p).stage = "locked")
        /\ guard' = guard /\ UNCHANGED journal /\ proc[p].pc = "recovering"
    BY <1>1 DEF RecoverRefused, fileVars
  <2> QED BY <1>0, <2>1, GotoRequest DEF Steps
<1>2. CASE SettleRefused(p) \/ Exit(p)
  <2>1. /\ \E step \in {"idle", "failing"} : Goto(p, step)
        /\ guard' = guard /\ UNCHANGED journal
    BY <1>2 DEF SettleRefused, Exit, fileVars
  <2> QED BY <1>0, <2>1, GotoRequest DEF Steps
<1>3. CASE Withdraw(p)
  BY <1>0, <1>3, StageRequest DEF Withdraw, Steps, Stages
<1>4. CASE FinalWrite(p)
  <2>1. WriteStage(p, FinalStage(p), "idle") /\ Section
    BY <1>4 DEF FinalWrite
  <2>2. /\ FinalStage(p) \in Stages \ {"fresh"}
        /\ FinalStage(p) = "requested" => Mine(p).stage = "requested"
        /\ FinalStage(p) = "attempted" => Mine(p).stage = "attempted"
    BY <1>0, ProcFacts, RequestFacts DEF FinalStage, Stages
  <2> QED BY <1>0, <2>1, <2>2, StageRequest DEF Steps
<1> QED BY <1>1, <1>2, <1>3, <1>4

LEMMA RecoveryRequest ==
    ASSUME TypeOK, LockInv, OrderInv, RequestInv, NEW p \in Procs,
           ResumePending(p) \/ Read(p) \/ Sweep(p) \/ Leave(p) \/ Crash(p)
    PROVE  RequestInv'
<1> USE DEF Readers, Claiming
<1>0. proc[p].pc # "idle" /\ UNCHANGED journal
  BY DEF ResumePending, Read, Sweep, Leave, Crash, fileVars
<1> PICK j \in Journals : j = proc[p].at
  BY <1>0, ProcFacts
<1>5. Mine(p) = journal[j] /\ journal[j].stage # "fresh" /\ journal[j].rev \in Nat
  BY <1>0, ProcFacts, RequestFacts DEF Mine
<1>1. ASSUME NEW step \in {"idle", "reading", "swept"}, Goto(p, step),
             guard' \in {guard, None}, UNCHANGED locks,
             step = "idle" \/ proc[p].pc # "attachReplay"
      PROVE  RequestInv'
  BY <1>0, <1>1, GotoRequest DEF Steps
<1>2. CASE ResumePending(p)
  <2>1. UNCHANGED locks /\ proc[p].pc = "opening"
    BY <1>2 DEF ResumePending
  <2>2. CASE \E step \in {"idle", "reading"} : Goto(p, step) /\ guard' \in {guard, None}
    BY <1>1, <2>1, <2>2
  <2>3. CASE /\ guard # None /\ guard.journal = j /\ guard.source = journal[j].rev
             /\ guard' = guard /\ Become(p, "unlinking", guard.source, "reading")
    <3>1. guard.source \in Nat /\ "unlinking" \in Steps /\ "reading" \in Steps
      BY <2>3 DEF TypeOK, Guard, Steps, LockSteps
    <3>2. /\ \A q \in Procs \ {p} : proc'[q] = proc[q]
          /\ proc'[p].pc = "unlinking" /\ proc'[p].at = j
      BY <1>0, <2>3, <3>1, BecomeFacts
    <3>3. journal[j].stage # "requested"
      BY <2>3 DEF RequestInv, Unshared, InProgress
    <3>4. StageKnown(p)'
      BY <1>0, <1>5, <3>2, <3>3 DEF StageKnown, Mine
    <3> QED BY <1>0, <2>1, <2>3, <3>2, <3>3, <3>4, MoveRequest
  <2> QED BY <1>2, <2>2, <2>3 DEF ResumePending, Interrupted, Mine
<1>3. CASE Read(p)
  <2>1. AfterRead(p) \in {"judging", "ready", "idle"} /\ AfterRead(p) \in Steps
    BY DEF AfterRead, Steps
  <2>2. /\ \A q \in Procs \ {p} : proc'[q] = proc[q]
        /\ proc'[p].pc = AfterRead(p)
        /\ AfterRead(p) # "idle" => proc'[p].at = j
    BY <1>0, <1>3, <2>1, ProcFacts, BecomeFacts DEF Read
  <2>3. AfterRead(p) = "ready" => journal[j].stage = "confirmed"
    BY DEF AfterRead, Resumable
  <2>4. StageKnown(p)'
    BY <1>0, <1>5, <2>1, <2>2, <2>3 DEF StageKnown, Mine
  <2>5. guard' = guard /\ locks' = locks
    BY <1>3 DEF Read, fileVars
  <2> QED BY <1>0, <2>1, <2>2, <2>3, <2>4, <2>5, MoveRequest
<1>4. CASE Sweep(p)
  <2>1. /\ \E step \in {"idle", "swept"} : Goto(p, step)
        /\ guard' = None /\ \A k \in Keys : locks'[k] \in {locks[k], None}
        /\ proc[p].pc = "judging"
    BY <1>4, KeyFacts DEF Sweep, Section, TypeOK
  <2>2. \A q \in Procs : proc[q].pc # "attachReplay"
    BY <1>4, OpenSection DEF LockSteps, Sweep, Section
  <2> QED BY <1>0, <2>1, <2>2, GotoRequest DEF Steps
<1>6. CASE Leave(p) \/ Crash(p)
  BY <1>1, <1>6 DEF Leave, Crash, fileVars
<1> QED BY <1>2, <1>3, <1>4, <1>6

(* A command starts; nobody holds the journal that a new journey writes.   *)
LEMMA BeginRequest ==
    ASSUME TypeOK, LockInv, OrderInv, RequestInv, NEW p \in Procs, NEW j \in Journals,
           Start(p, j) \/ Resume(p, j) \/ Reconcile(p, j)
    PROVE  RequestInv'
<1> USE DEF Readers, Claiming
<1>1. CASE Start(p, j)
  <2> DEFINE next == Revised(j, "requested", {}, 0)
  <2>1. /\ next.rev = 1 /\ next.stage = "requested" /\ next.bound = {} /\ journal[j] = Fresh
        /\ journal' = [journal EXCEPT ![j] = next] /\ guard' = None /\ UNCHANGED locks
        /\ proc' = [proc EXCEPT ![p] = Running("begun", "live", j, 1, FALSE)]
    BY <1>1 DEF Start, Section, Revised, Fresh
  <2> HIDE DEF next
  <2>2. journal'[j] = next /\ \A i \in Journals \ {j} : journal'[i] = journal[i]
    BY <2>1 DEF TypeOK
  <2>3. /\ \A q \in Procs \ {p} : proc'[q] = proc[q]
        /\ proc'[p].pc = "begun" /\ proc'[p].at = j /\ proc'[p].seen = 1
    BY <2>1 DEF TypeOK, Running
  <2>4. \A q \in Procs : proc[q].pc # "idle" => proc[q].at \in Journals \ {j}
    BY <2>1 DEF RequestInv, StageKnown, Mine, Fresh, TypeOK
  <2>5. \A q \in Procs : proc[q].pc # "attachReplay"
    BY <1>1, OpenSection DEF LockSteps, Start, Section
  <2>6. ASSUME NEW q \in Procs PROVE StageKnown(q)' /\ Attaching(q)'
    <3>1. CASE q = p
      BY <2>1, <2>2, <2>3, <3>1 DEF StageKnown, Attaching, Mine
    <3>2. CASE q # p
      <4>1. proc'[q] = proc[q] /\ (proc[q].pc # "idle" => journal'[proc[q].at] = journal[proc[q].at])
        BY <2>2, <2>3, <2>4, <3>2
      <4> QED BY <2>5, <4>1 DEF RequestInv, StageKnown, Attaching, Current, Mine
    <3> QED BY <3>1, <3>2
  <2>7. ASSUME NEW i \in Journals, i # j, NEW q \in Procs, proc'[q].at = i, Holds(q)'
        PROVE  proc[q].at = i /\ Holds(q) /\ proc'[q].pc = proc[q].pc
    BY <2>2, <2>3, <2>7 DEF Holds, Current, Mine
  <2>8. ASSUME NEW q \in Procs, q # p, proc'[q].at = j PROVE ~Holds(q)'
    BY <2>3, <2>4, <2>8 DEF Holds
  <2>9. guard' = None /\ locks' = locks
    BY <2>1
  <2>10. ASSUME NEW i \in Journals PROVE Unshared(i)' /\ AttemptKept(i)'
    <3>1. CASE i = j
      BY <2>1, <2>2, <2>8, <3>1 DEF Unshared, AttemptKept, InProgress
    <3>2. CASE i # j
      <4>1. Unshared(i) /\ AttemptKept(i) /\ journal'[i] = journal[i]
        BY <2>2, <3>2 DEF RequestInv
      <4> QED BY <2>7, <2>9, <3>2, <4>1 DEF Unshared, AttemptKept, InProgress
    <3> QED BY <3>1, <3>2
  <2>11. ASSUME NEW k \in Keys PROVE ReplayTold(k)'
    <3> SUFFICES ASSUME locks[k] # None PROVE ReplayTold(k)'
      BY <2>1 DEF ReplayTold
    <3>1. ReplayTold(k) /\ locks[k].owner \in Journals
      BY KeyFacts DEF RequestInv
    <3> PICK i \in Journals : i = locks[k].owner
      BY <3>1
    <3>2. i # j
      BY <2>1, <3>1 DEF ReplayTold, Stranded, Fresh
    <3>3. journal'[i] = journal[i]
      BY <2>2, <3>2
    <3>4. Stranded(i, k) => Stranded(i, k)'
      BY <2>7, <2>9, <3>2, <3>3 DEF Stranded
    <3> QED BY <2>9, <3>1, <3>3, <3>4 DEF ReplayTold
  <2> QED BY <2>1, <2>6, <2>10, <2>11 DEF RequestInv
<1>2. ASSUME NEW command, Command(p, j, command) PROVE RequestInv'
  <2>1. /\ \A q \in Procs \ {p} : proc'[q] = proc[q]
        /\ proc'[p].pc = "opening" /\ proc'[p].at = j /\ journal[j] # Fresh
        /\ UNCHANGED <<journal, locks, guard>>
    BY <1>2 DEF Command, Running, TypeOK, fileVars
  <2>2. StageKnown(p)'
    BY <2>1 DEF StageKnown, RequestInv, Unshared, Mine
  <2> QED BY <2>1, <2>2, MoveRequest
<1> QED BY <1>1, <1>2 DEF Resume, Reconcile

LEMMA InitRequest == Init => RequestInv
BY DEF Init, RequestInv, StageKnown, Attaching, Unshared, AttemptKept, ReplayTold, Idle, Running,
   Fresh, Holds, Resources

LEMMA NextRequest ==
    TypeOK /\ LockInv /\ OrderInv /\ RequestInv /\ [Next]_vars => RequestInv'
<1> SUFFICES ASSUME TypeOK, LockInv, OrderInv, RequestInv, [Next]_vars PROVE RequestInv'
  OBVIOUS
<1>1. ASSUME NEW p \in Procs, Step(p) PROVE RequestInv'
  BY <1>1, ClaimReplayRequest, ClaimRequest, ExecutionRequest, BeginReleaseRequest,
     FinishReleaseRequest, RefusalRequest, RecoveryRequest DEF Step
<1>2. CASE UNCHANGED <<journal, locks, guard, proc>>
  BY <1>2 DEF RequestInv, StageKnown, Attaching, Unshared, AttemptKept, ReplayTold, Stranded, Holds,
     Current, Mine, InProgress
<1>3. ASSUME NEW j \in Journals, Expire(j) PROVE RequestInv'
  BY <1>2, <1>3 DEF Expire, fileVars
<1>4. CASE UNCHANGED vars
  BY <1>2, <1>4 DEF vars, fileVars
<1> QED BY <1>1, <1>3, <1>4, RecoveryRequest, BeginRequest DEF Next

-----------------------------------------------------------------------------
(* Requests and attempts: the theorems *)

(* Before anything is reserved a journey has one writer, a replay lock     *)
(* that was never attached keeps the exact journal it was published from,  *)
(* and a recorded attempt keeps both locks.                                *)
THEOREM RequestsAgree == Spec => [](TypeOK /\ LockInv /\ OrderInv /\ RequestInv)
<1>1. Init => RequestInv
  BY InitRequest
<1>2. TypeOK /\ LockInv /\ OrderInv /\ RequestInv /\ [Next]_vars => RequestInv'
  BY NextRequest
<1> QED BY <1>1, <1>2, OrdersAgree, PTL DEF Spec

(* From the durable mark of an attempt to the resolution of its order the  *)
(* journey keeps the execution lock and its request identity, and no other *)
(* journey is in doubt, whichever commands run on the directory and        *)
(* wherever they die.                                                      *)
THEOREM UnresolvedOrdersAreAlone == Spec => []OneUnresolvedOrder
<1>1. ASSUME OrderInv, RequestInv, NEW j \in Journals, Unresolved(j)
      PROVE  {Exec, KeyOf[j]} \subseteq journal[j].bound
  BY <1>1 DEF OrderInv, OrderKept, RequestInv, AttemptKept, Unresolved
<1>2. OrderInv /\ RequestInv /\ ExclusiveBinding => OneUnresolvedOrder
  BY <1>1 DEF OneUnresolvedOrder, ExclusiveBinding
<1> QED BY <1>2, RequestsAgree, BindingsExclusive, PTL

(* A replay lock file names a journey bound to it, or what a process left  *)
(* that died between publishing and attaching it: then its journey is the  *)
(* exact journal that claimed, unreserved and without an order.            *)
THEOREM ReplayLocksTell == Spec => []ReplayLockTells
<1>1. ASSUME TypeOK, OrderInv, RequestInv, NEW k \in Keys, locks[k] # None,
             NEW j \in Journals, j = locks[k].owner, k \notin journal[j].bound
      PROVE  /\ journal[j].stage = "requested" /\ journal[j].bound = {}
             /\ locks[k].source = journal[j].rev /\ j \notin orders
  BY <1>1 DEF RequestInv, ReplayTold, Stranded, Unshared, OrderInv, OrderKept
<1>2. TypeOK /\ OrderInv /\ RequestInv => ReplayLockTells
  BY <1>1, KeyFacts DEF ReplayLockTells
<1> QED BY <1>2, RequestsAgree, PTL
=============================================================================
