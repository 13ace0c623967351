------------------------ MODULE TakeProfitLockProofs ------------------------
(***************************************************************************)
(* Proofs about TakeProfit, continued: an execution lock can always be     *)
(* given back, by its journal or by the sweep of reconcile-tp, and the     *)
(* journeys implement the sell desk; for any number of processes,          *)
(* journeys, replay keys, shares, claims and crashes.                      *)
(***************************************************************************)
EXTENDS TakeProfitProofs

-----------------------------------------------------------------------------
(* The way out of an execution lock *)

PlacerSteps == {"asked", "signing", "signed", "paid", "ready", "locked", "checked", "marked", "launched",
                "returned", "fetched", "passported", "progressed", "settling", "failing"}

(* The lock is published, and its journal is not bound to it.              *)
Unattached(j) == exec # None /\ exec.owner = j /\ "exec" \notin journal[j].bound

SourceInv ==
    \A j \in Journals : Unattached(j) =>
        exec.source = journal[j] /\ journal[j].stage \in Placed \cup {"confirmed"}

(* A journey is placed once, by one process.                               *)
PlacerInv ==
    /\ \A p \in Procs : proc[p].pc \in PlacerSteps => Mine(p).stage # "fresh"
    /\ \A p, q \in Procs :
          p # q /\ {proc[p].pc, proc[q].pc} \subseteq PlacerSteps => proc[p].at # proc[q].at
    /\ \A j \in Journals : journal[j].stage \in {"fresh", "requested"} => "exec" \notin journal[j].bound

(* What a process that may still write its journal could overwrite: a      *)
(* confirmed journey is reconciled only after the card's expiry, when it   *)
(* can claim no lock any more, and after the sweep.                        *)
WriterOk(step, j, r) ==
    /\ step = "failing" => r.stage \in {"withdrawn", "ambiguous", "blocked"}
    /\ step \in {"passported", "progressed"} => "exec" \in r.bound
    /\ step \in {"judging", "swept"} /\ r.stage = "confirmed" =>
          Passed(j, "card") /\ (step = "swept" => ~Unattached(j))
    /\ step = "ready" => ~Unattached(j)

WriterInv == \A p \in Procs : Busy(p) /\ Current(p) => WriterOk(proc[p].pc, proc[p].at, Mine(p))

WayOutInv == SourceInv /\ PlacerInv /\ WriterInv

(* Only the buyer's prompt and a reconciliation may find its journal       *)
(* current and its lock unattached.                                        *)
LEMMA UnattachedFacts ==
    ASSUME TakeProfitInv, WayOutInv, NEW p \in Procs, Busy(p), Current(p), Unattached(proc[p].at)
    PROVE  /\ proc[p].pc \in {"prompted", "judging", "swept", "known", "recovered"}
           /\ proc[p].pc = "swept" => Mine(p).stage # "confirmed"
           /\ Mine(p).stage \in Placed \cup {"confirmed"}
<1>1. /\ proc[p].pc \in Steps /\ proc[p].at \in Journals /\ Mine(p) = journal[proc[p].at]
      /\ RecordOk(Mine(p)) /\ StepOk(proc[p].pc, Mine(p))
  BY MineFacts DEF TakeProfitInv, Process
<1>2. Mine(p).stage \in Placed \cup {"confirmed"} /\ "exec" \notin Mine(p).bound
  BY <1>1 DEF WayOutInv, SourceInv, Unattached
<1>3. Mine(p).cancel \notin Active
  BY <1>1, <1>2 DEF RecordOk
<1>4. /\ proc[p].pc \notin {"failing", "passported", "progressed", "ready"}
      /\ proc[p].pc = "swept" => Mine(p).stage # "confirmed"
  BY <1>2 DEF WayOutInv, WriterInv, WriterOk, Placed
<1>5. proc[p].pc \notin CancelSteps
  BY <1>1, <1>3 DEF StepOk, CancelSteps, Active
<1>6. proc[p].pc \notin PlacerSteps
  BY <1>1, <1>2, <1>4 DEF StepOk, PlacerSteps, Placed
<1>7. proc[p].pc # "idle" /\ proc[p].pc # "refetched"
  BY <1>1, <1>2 DEF Busy, StepOk, Placed
<1> QED BY <1>1, <1>2, <1>4, <1>5, <1>6, <1>7 DEF Steps, CancelSteps, PlacerSteps

(* p takes a step and writes no journal.                                   *)
LEMMA MoveWayOut ==
    ASSUME TakeProfitInv, WayOutInv, NEW p \in Procs, Busy(p), NEW step \in Steps, NEW j, j = proc[p].at,
           \A q \in Procs \ {p} : proc'[q] = proc[q],
           proc'[p].pc = step,
           step # "idle" => proc'[p].at = j /\ proc'[p].current = proc[p].current,
           journal' = journal, elapsed' = elapsed, exec' \in {exec, None},
           step \in PlacerSteps => proc[p].pc \in PlacerSteps /\ step \notin {"failing", "passported", "ready"},
           step = "progressed" => proc[p].pc = "passported",
           step \in {"judging", "swept"} => proc[p].pc = "judging" /\ step = "swept" /\ ~Unattached(j)'
    PROVE  WayOutInv'
<1>1. \A i : Unattached(i)' => Unattached(i) /\ exec' = exec
  BY DEF Unattached
<1>2. SourceInv'
  BY <1>1 DEF WayOutInv, SourceInv
<1>3. PlacerInv'
  BY DEF WayOutInv, PlacerInv, Mine, PlacerSteps
<1>4. ASSUME NEW q \in Procs, (Busy(q) /\ Current(q))'
      PROVE  WriterOk(proc[q].pc, proc[q].at, Mine(q))'
  <2>1. PICK i, r, at : i = proc[q].at /\ r = Mine(q) /\ at = proc[q].pc
    OBVIOUS
  <2>2. /\ proc'[q].at = i /\ Mine(q)' = r /\ (Busy(q) /\ Current(q))
        /\ q # p => proc'[q].pc = at
        /\ q = p => i = j /\ proc'[q].pc = step
    BY <1>4, <2>1 DEF Busy, Current, Mine
  <2>3. WriterOk(at, i, r) /\ (Unattached(i)' => Unattached(i)) /\ (Passed(i, "card") => Passed(i, "card")')
    BY <1>1, <2>1, <2>2 DEF WayOutInv, WriterInv, Passed
  <2> QED BY <2>1, <2>2, <2>3 DEF WriterOk, PlacerSteps
<1> QED BY <1>2, <1>3, <1>4 DEF WayOutInv, WriterInv

(* What a write leaves for the processes that follow.                      *)
FitsWayOut(p, next, step) ==
    /\ next \in JournalRecord /\ step \in Steps
    /\ next.stage # "fresh"
    /\ next.stage = "requested" => "exec" \notin next.bound
    /\ step \in PlacerSteps => proc[p].pc \in PlacerSteps
    /\ step = "failing" => next.stage \in {"withdrawn", "ambiguous", "blocked"}
    /\ step \in {"passported", "progressed"} => "exec" \in next.bound
    /\ step \notin {"judging", "swept"}

LEMMA PutWayOut ==
    ASSUME TakeProfitInv, WayOutInv, BackedInv', NEW p \in Procs, NEW next, NEW step, Busy(p),
           Put(p, next, step), FitsWayOut(p, next, step), ~Unattached(proc[p].at),
           \/ exec' = exec /\ ("exec" \in Mine(p).bound => "exec" \in next.bound)
           \/ exec' = None
           \/ "exec" \in next.bound,
           \A i \in Journals : "card" \in elapsed[i] => "card" \in elapsed'[i]
    PROVE  WayOutInv'
<1>1. PICK j : j = proc[p].at
  OBVIOUS
<1>2. /\ j \in Journals /\ journal' \in [Journals -> JournalRecord]
      /\ journal'[j] = next /\ \A i \in Journals \ {j} : journal'[i] = journal[i]
      /\ proc' \in [Procs -> Process]
      /\ step = "idle" => proc'[p] = Idle
      /\ step # "idle" => proc'[p].pc = step /\ proc'[p].at = j /\ proc'[p].current = TRUE
      /\ \A q \in Procs \ {p} :
            /\ proc'[q].pc = proc[q].pc /\ proc'[q].at = proc[q].at
            /\ proc'[q].current => proc[q].current /\ proc[q].at # j
  <2>1. TypeOK /\ HasJourney /\ next \in JournalRecord /\ step \in Steps
    BY DEF TakeProfitInv, ProcInv, FitsWayOut
  <2>2. j \in Journals
    BY <1>1, MineFacts DEF TakeProfitInv
  <2>3. /\ journal' \in [Journals -> JournalRecord]
        /\ journal'[proc[p].at] = next
        /\ \A i \in Journals \ {proc[p].at} : journal'[i] = journal[i]
        /\ proc' \in [Procs -> Process]
        /\ step = "idle" => proc'[p] = Idle
        /\ step # "idle" => /\ proc'[p].pc = step /\ proc'[p].at = proc[p].at /\ proc'[p].current = TRUE
                            /\ proc'[p].gen = next.gen /\ proc'[p].saw = proc[p].saw
        /\ \A q \in Procs \ {p} :
              /\ proc'[q].pc = proc[q].pc /\ proc'[q].at = proc[q].at
              /\ proc'[q].gen = proc[q].gen /\ proc'[q].saw = proc[q].saw
              /\ proc'[q].current => proc[q].current /\ proc[q].at # proc[p].at
    BY <2>1, PutFacts
  <2> QED BY <1>1, <2>2, <2>3
<1>3. proc'[p].pc = step /\ HasJourney
  BY <1>2 DEF Idle, TakeProfitInv, ProcInv
<1>4. ASSUME NEW i \in Journals, Unattached(i)'
      PROVE  i # j /\ Unattached(i) /\ exec' = exec
  <2>1. "exec" \in next.bound => OwnsExec(j)'
    BY <1>2 DEF BackedInv
  <2>2. "exec" \in next.bound => exec'.owner = j
    BY <2>1 DEF OwnsExec
  <2>3. Mine(p) = journal[j]
    BY <1>1 DEF Mine
  <2> QED BY <1>1, <1>2, <1>4, <2>2, <2>3 DEF Unattached
<1>5. SourceInv'
  BY <1>2, <1>4 DEF WayOutInv, SourceInv
<1>6. PlacerInv'
  <2>1. ASSUME NEW q \in Procs, proc'[q].pc \in PlacerSteps
        PROVE  /\ proc[q].pc \in PlacerSteps /\ proc'[q].at = proc[q].at
               /\ proc[q].at \in Journals /\ Mine(q)'.stage # "fresh"
    <3>1. CASE q = p
      BY <1>1, <1>2, <1>3, <2>1, <3>1 DEF FitsWayOut, Mine, PlacerSteps
    <3>2. CASE q # p
      <4>1. proc[q].pc \in PlacerSteps /\ proc'[q].at = proc[q].at /\ proc[q].at \in Journals
        BY <1>2, <1>3, <2>1, <3>2 DEF HasJourney, Busy, PlacerSteps
      <4> QED BY <1>2, <4>1 DEF WayOutInv, PlacerInv, Mine, FitsWayOut
    <3> QED BY <3>1, <3>2
  <2>2. \A i \in Journals : journal'[i].stage \in {"fresh", "requested"} => "exec" \notin journal'[i].bound
    BY <1>2 DEF WayOutInv, PlacerInv, FitsWayOut
  <2> QED BY <2>1, <2>2 DEF WayOutInv, PlacerInv
<1>7. ASSUME NEW q \in Procs, (Busy(q) /\ Current(q))'
      PROVE  WriterOk(proc[q].pc, proc[q].at, Mine(q))'
  <2>1. CASE q = p
    <3>1. proc'[q].pc = step /\ proc'[q].at = j /\ Mine(q)' = next
      BY <1>2, <1>3, <1>7, <2>1 DEF Busy, Mine
    <3> QED BY <1>2, <1>4, <3>1 DEF WriterOk, FitsWayOut
  <2>2. CASE q # p
    <3>1. PICK i, r, at : i = proc[q].at /\ r = Mine(q) /\ at = proc[q].pc
      OBVIOUS
    <3>2. proc'[q].at = i /\ proc'[q].pc = at /\ Busy(q) /\ Current(q) /\ i # j
      BY <1>2, <1>7, <2>2, <3>1 DEF Busy, Current
    <3>3. i \in Journals /\ Mine(q)' = r
      BY <1>2, <1>3, <3>1, <3>2 DEF HasJourney, Mine
    <3>4. WriterOk(at, i, r) /\ (Unattached(i)' => Unattached(i)) /\ (Passed(i, "card") => Passed(i, "card")')
      BY <1>4, <3>1, <3>2, <3>3 DEF WayOutInv, WriterInv, Passed
    <3> QED BY <3>2, <3>3, <3>4 DEF WriterOk
  <2> QED BY <2>1, <2>2
<1> QED BY <1>5, <1>6, <1>7 DEF WayOutInv, WriterInv

(* The two writes of the code: of a journal alone, and a release.          *)
LEMMA WriteWayOut ==
    ASSUME TakeProfitInv, WayOutInv, BackedInv', NEW p \in Procs, NEW next, NEW step, Busy(p),
           Write(p, next, step), FitsWayOut(p, next, step), next.bound = Mine(p).bound,
           proc[p].pc \notin {"prompted", "judging", "swept", "known", "recovered"}, exec' = exec, elapsed' = elapsed
    PROVE  WayOutInv'
<1>1. Put(p, next, step) /\ Current(p)
  BY DEF Write
<1>2. ~Unattached(proc[p].at)
  BY <1>1, UnattachedFacts
<1> QED BY <1>1, <1>2, PutWayOut

LEMMA ReleaseWayOut ==
    ASSUME TakeProfitInv, WayOutInv, BackedInv', NEW p \in Procs, NEW next \in JournalRecord, NEW step, Busy(p),
           NEW fields \in SUBSET {"reservation", "exec"}, Release(p, fields, next, step),
           FitsWayOut(p, Unbound(next, fields), step), next.bound = Mine(p).bound,
           \/ "exec" \in fields
           \/ Mine(p).stage \notin Placed \cup {"confirmed"}
           \/ proc[p].pc = "swept" /\ Mine(p).stage = "confirmed",
           elapsed' = elapsed
    PROVE  WayOutInv'
<1>1. Put(p, Unbound(next, fields), step) /\ Current(p)
  BY DEF Release, Write
<1>2. ~Unattached(proc[p].at)
  BY <1>1, UnattachedFacts DEF Release, OwnsExec, Unattached
<1>3. \/ exec' = exec /\ ("exec" \in Mine(p).bound => "exec" \in Unbound(next, fields).bound)
      \/ exec' = None
  BY UnboundFacts DEF Release
<1> QED BY <1>1, <1>2, <1>3, PutWayOut

LEMMA StageFacts ==
    ASSUME ProcInv, NEW p \in Procs, Busy(p), NEW stage \in Stages
    PROVE  /\ Stage(p, stage) \in JournalRecord /\ Stage(p, stage).stage = stage
           /\ Stage(p, stage).bound = Mine(p).bound
<1>1. Mine(p) \in JournalRecord
  BY MineFacts
<1> QED BY <1>1 DEF Stage, JournalRecord

LEMMA EditFacts ==
    ASSUME NEW s \in JournalRecord, NEW b \in BOOLEAN
    PROVE  /\ \A next \in {[s EXCEPT !.needs = b], [s EXCEPT !.signed = b]} :
                 next \in JournalRecord /\ next.stage = s.stage /\ next.bound = s.bound
           /\ \A reply \in LiveReplies :
                 /\ [s EXCEPT !.reply = reply] \in JournalRecord
                 /\ [s EXCEPT !.reply = reply].stage = s.stage
                 /\ [s EXCEPT !.reply = reply].bound = s.bound
BY DEF JournalRecord

LEMMA PlacingWayOut ==
    ASSUME TakeProfitInv, WayOutInv, BackedInv', NEW p \in Procs, Placing(p)
    PROVE  WayOutInv'
<1> DEFINE r == Mine(p)
<1>0. ProcInv /\ TypeOK /\ HasJourney
  BY DEF TakeProfitInv, ProcInv
<1>1. Busy(p) => /\ r \in JournalRecord /\ RecordOk(r) /\ proc[p] \in Process /\ proc[p].at \in Journals
                 /\ Current(p) => StepOk(proc[p].pc, r)
  BY <1>0, MineFacts
<1> HIDE DEF r
<1> USE DEF Busy
<1>2. CASE SendPayment(p) \/ CheckLocked(p)
  <2>1. PICK step \in {"paid", "checked"} : Goto(p, step)
    BY <1>2 DEF SendPayment, CheckLocked
  <2>2. Busy(p) /\ proc[p].pc \in {"signed", "locked"} /\ UNCHANGED <<journal, exec, elapsed>>
    BY <1>2 DEF SendPayment, CheckLocked, diskVars, worldVars
  <2>3. /\ \A q \in Procs \ {p} : proc'[q] = proc[q]
        /\ proc'[p].pc = step /\ proc'[p].at = proc[p].at /\ proc'[p].current = proc[p].current
    BY <1>0, <2>1, <2>2, GotoFacts DEF Steps
  <2> QED BY <2>2, <2>3, MoveWayOut DEF PlacerSteps, Steps
<1>3. CASE FetchExactOrder(p)
  <2>1. PICK step \in {"fetched", "refetched"} :
            /\ Fetch(p, step)
            /\ step = "fetched" => proc[p].pc = "returned"
    BY <1>3 DEF FetchExactOrder
  <2>2. Busy(p) /\ UNCHANGED <<journal, exec, elapsed>>
    BY <1>3 DEF FetchExactOrder, diskVars, worldVars
  <2> DEFINE new == [proc[p] EXCEPT !.pc = step, !.saw = Classify(proc[p].at)]
  <2>3. new.pc = step /\ new.at = proc[p].at /\ new.current = proc[p].current /\ step # "idle"
    BY <1>1, <2>2 DEF Process
  <2>4. proc' = [proc EXCEPT ![p] = new]
    BY <2>1, <2>3 DEF Fetch, Become
  <2> HIDE DEF new
  <2>5. /\ \A q \in Procs \ {p} : proc'[q] = proc[q]
        /\ proc'[p].pc = step /\ proc'[p].at = proc[p].at /\ proc'[p].current = proc[p].current
    BY <1>0, <2>3, <2>4 DEF TypeOK
  <2> QED BY <2>1, <2>2, <2>5, MoveWayOut DEF PlacerSteps, Steps
<1>4. CASE ProgressReservation(p)
  <2>1. PICK step \in {"progressed", "idle"} : Goto(p, step)
    BY <1>4 DEF ProgressReservation
  <2>2. Busy(p) /\ proc[p].pc = "passported" /\ UNCHANGED <<journal, exec, elapsed>>
    BY <1>4 DEF ProgressReservation, worldVars
  <2>3. /\ \A q \in Procs \ {p} : proc'[q] = proc[q]
        /\ step = "idle" => proc'[p] = Idle
        /\ step # "idle" => proc'[p].pc = step /\ proc'[p].at = proc[p].at /\ proc'[p].current = proc[p].current
    BY <1>0, <2>1, <2>2, GotoFacts DEF Steps
  <2>4. proc'[p].pc = step
    BY <2>3 DEF Idle
  <2> QED BY <2>2, <2>3, <2>4, MoveWayOut DEF PlacerSteps, Steps
<1>5. CASE ClaimReservation(p)
  <2> DEFINE next == [Stage(p, "starting") EXCEPT !.bound = {"reservation"}, !.needs = TRUE]
  <2>1. Busy(p) /\ proc[p].pc = "asked" /\ Current(p) /\ Put(p, next, "signing") /\ exec' = exec /\ elapsed' = elapsed
    BY <1>5 DEF ClaimReservation, Write, worldVars
  <2>2. next \in JournalRecord /\ next.stage = "starting"
    BY <1>1, <2>1 DEF Stage, JournalRecord, Stages, r
  <2> HIDE DEF next
  <2>3. "exec" \notin Mine(p).bound
    BY <1>1, <2>1 DEF StepOk, WayOutInv, PlacerInv, Mine, r
  <2>4. FitsWayOut(p, next, "signing")
    BY <2>1, <2>2 DEF FitsWayOut, Steps, PlacerSteps
  <2>5. ~Unattached(proc[p].at)
    BY <2>1, UnattachedFacts
  <2> QED BY <2>1, <2>3, <2>4, <2>5, PutWayOut
<1>6. CASE ClaimExec(p)
  <2> DEFINE next == [Stage(p, "locked") EXCEPT !.bound = @ \cup {"exec"}, !.gen = claims + 1]
  <2>1. Busy(p) /\ proc[p].pc = "ready" /\ Current(p) /\ Put(p, next, "locked") /\ elapsed' = elapsed
    BY <1>6 DEF ClaimExec, Write, worldVars
  <2>2. next \in JournalRecord /\ next.stage = "locked" /\ "exec" \in next.bound
    <3>1. PICK s : s = Stage(p, "locked")
      OBVIOUS
    <3>3. s \in JournalRecord /\ s.stage = "locked"
      BY <1>0, <2>1, <3>1, StageFacts DEF Stages
    <3>2. claims + 1 \in Nat /\ s.bound \cup {"exec"} \in SUBSET {"reservation", "exec"}
      BY <1>0, <3>3 DEF TypeOK, JournalRecord
    <3> QED BY <3>1, <3>3, <3>2 DEF JournalRecord
  <2> HIDE DEF next
  <2>3. FitsWayOut(p, next, "locked")
    BY <2>1, <2>2 DEF FitsWayOut, Steps, PlacerSteps
  <2>4. ~Unattached(proc[p].at)
    BY <2>1, UnattachedFacts
  <2> QED BY <2>1, <2>2, <2>3, <2>4, PutWayOut
<1>7. CASE SignFails(p)
  <2> DEFINE next == [Stage(p, "withdrawn") EXCEPT !.needs = FALSE]
  <2>1. Busy(p) /\ proc[p].pc = "signing" /\ Current(p) /\ Release(p, {"reservation"}, next, "failing") /\ elapsed' = elapsed
    BY <1>7 DEF SignFails, worldVars
  <2>2. next \in JournalRecord /\ next.stage = "withdrawn" /\ next.bound = Mine(p).bound
    BY <1>1, <2>1 DEF Stage, JournalRecord, Stages, r
  <2> HIDE DEF next
  <2>3. FitsWayOut(p, Unbound(next, {"reservation"}), "failing")
    BY <2>1, <2>2, UnboundFacts DEF FitsWayOut, Steps, PlacerSteps
  <2>4. Mine(p).stage \notin Placed \cup {"confirmed"}
    BY <1>1, <2>1 DEF StepOk, Placed, r
  <2> QED BY <2>1, <2>2, <2>3, <2>4, ReleaseWayOut
<1>8. CASE SettlePrelaunch(p)
  <2>1. /\ Busy(p) /\ proc[p].pc = "settling" /\ Current(p) /\ Release(p, {"exec"}, Mine(p), "failing")
        /\ elapsed' = elapsed
    BY <1>8 DEF SettlePrelaunch, Release, Write, worldVars
  <2>2. Mine(p) \in JournalRecord /\ Mine(p).stage = "blocked"
    BY <1>1, <2>1 DEF StepOk, r
  <2>3. FitsWayOut(p, Unbound(Mine(p), {"exec"}), "failing")
    BY <2>1, <2>2, UnboundFacts DEF FitsWayOut, Steps, PlacerSteps
  <2> QED BY <2>1, <2>2, <2>3, ReleaseWayOut
<1>9. CASE SettleArmed(p)
  <2> DEFINE next == [Mine(p) EXCEPT !.needs = FALSE]
  <2>1. Busy(p) /\ proc[p].pc = "progressed" /\ Current(p) /\ Release(p, {"exec"}, next, "idle") /\ elapsed' = elapsed
    BY <1>9 DEF SettleArmed, Release, Write, worldVars
  <2>2. next \in JournalRecord /\ next.stage = "armed" /\ next.bound = Mine(p).bound
    BY <1>1, <2>1 DEF StepOk, JournalRecord, r
  <2> HIDE DEF next
  <2>3. FitsWayOut(p, Unbound(next, {"exec"}), "idle")
    BY <2>1, <2>2, UnboundFacts DEF FitsWayOut, Steps, PlacerSteps
  <2> QED BY <2>1, <2>2, <2>3, ReleaseWayOut
<1>10. CASE GiveUp(p)
  <2>1. /\ Busy(p) /\ FinalCheckpoint(p) /\ exec' = exec /\ elapsed' = elapsed
        /\ proc[p].pc \in {"asked", "ready", "failing", "launched", "returned", "fetched",
                           "passported", "progressed", "settling"} \cup PreSpawn
    BY <1>10 DEF GiveUp, PreSpawn, worldVars
  <2>2. CASE Current(p)
    <3> DEFINE next == [Mine(p) EXCEPT !.needs = Mine(p).signed \/ "reservation" \in Mine(p).bound]
    <3>1. Write(p, next, "idle")
      BY <2>1, <2>2 DEF FinalCheckpoint
    <3>2. next \in JournalRecord /\ next.stage = Mine(p).stage /\ next.bound = Mine(p).bound
      BY <1>1, <2>1 DEF JournalRecord, r
    <3> HIDE DEF next
    <3>3. Mine(p).stage # "fresh" /\ (Mine(p).stage = "requested" => "exec" \notin Mine(p).bound)
      BY <1>1, <2>1, <2>2 DEF WayOutInv, PlacerInv, PlacerSteps, PreSpawn, Mine
    <3>4. FitsWayOut(p, next, "idle")
      BY <3>2, <3>3 DEF FitsWayOut, Steps, PlacerSteps
    <3> QED BY <2>1, <3>1, <3>2, <3>4, WriteWayOut DEF PreSpawn
  <2>3. CASE ~Current(p)
    <3>1. Goto(p, "idle") /\ journal' = journal
      BY <2>1, <2>3 DEF FinalCheckpoint
    <3>2. (\A q \in Procs \ {p} : proc'[q] = proc[q]) /\ proc'[p] = Idle
      BY <1>0, <2>1, <3>1, GotoFacts DEF Steps
    <3>3. proc'[p].pc = "idle"
      BY <3>2 DEF Idle
    <3> QED BY <2>1, <3>1, <3>2, <3>3, MoveWayOut DEF PlacerSteps, Steps
  <2> QED BY <2>2, <2>3
<1> USE DEF FitsWayOut, Steps, PlacerSteps, worldVars
<1>11. ASSUME NEW s, NEW stage \in Stages, Busy(p), s = Stage(p, stage)
       PROVE  s \in JournalRecord /\ s.stage = stage /\ s.bound = Mine(p).bound
  BY <1>0, <1>11, StageFacts
<1> USE DEF Stages
<1>12. CASE Sign(p)
  <2>1. Busy(p) /\ elapsed' = elapsed
    BY <1>12 DEF Sign
  <2>2. PICK s : s = Stage(p, "created")
    OBVIOUS
  <2>3. s \in JournalRecord /\ s.stage = "created" /\ s.bound = Mine(p).bound
    BY <1>11, <2>1, <2>2
  <2>4. PICK next : next = [s EXCEPT !.signed = TRUE]
    OBVIOUS
  <2>5. next \in JournalRecord /\ next.stage = "created" /\ next.bound = Mine(p).bound
    BY <2>3, <2>4, EditFacts
  <2>6. Write(p, next, "signed") /\ exec' = exec /\ proc[p].pc = "signing"
    BY <1>12, <2>2, <2>4 DEF Sign
  <2> QED BY <2>1, <2>5, <2>6, WriteWayOut
<1>13. CASE ReceiveCard(p)
  <2>1. Busy(p) /\ elapsed' = elapsed /\ proc[p].pc = "paid" /\ exec' = exec
    BY <1>13 DEF ReceiveCard
  <2>2. ASSUME NEW stage \in {"verified", "ambiguous"}, NEW step \in {"ready", "failing"},
               step = "failing" <=> stage = "ambiguous", Write(p, [Stage(p, stage) EXCEPT !.needs = TRUE], step)
        PROVE  WayOutInv'
    <3>1. PICK s : s = Stage(p, stage)
      OBVIOUS
    <3>2. s \in JournalRecord /\ s.stage = stage /\ s.bound = Mine(p).bound
      BY <1>11, <2>1, <3>1
    <3>3. PICK next : next = [s EXCEPT !.needs = TRUE]
      OBVIOUS
    <3>4. next \in JournalRecord /\ next.stage = stage /\ next.bound = Mine(p).bound
      BY <3>2, <3>3, EditFacts
    <3> QED BY <2>1, <2>2, <3>1, <3>3, <3>4, WriteWayOut
  <2> QED BY <1>13, <2>2 DEF ReceiveCard
<1>14. CASE ConfirmTrade(p)
  <2>1. Busy(p) /\ elapsed' = elapsed
    BY <1>14 DEF ConfirmTrade
  <2> QED BY <1>11, <1>14, <2>1, WriteWayOut DEF ConfirmTrade
<1>15. CASE MarkAttempted(p)
  <2>1. Busy(p) /\ elapsed' = elapsed
    BY <1>15 DEF MarkAttempted
  <2> QED BY <1>11, <1>15, <2>1, WriteWayOut DEF MarkAttempted
<1>16. CASE ClaimRefused(p)
  <2>1. Busy(p) /\ elapsed' = elapsed
    BY <1>16 DEF ClaimRefused
  <2>2. PICK s : s = Stage(p, "blocked")
    OBVIOUS
  <2>3. s \in JournalRecord /\ s.stage = "blocked" /\ s.bound = Mine(p).bound
    BY <1>11, <2>1, <2>2
  <2>4. PICK next : next = [s EXCEPT !.needs = TRUE]
    OBVIOUS
  <2>5. next \in JournalRecord /\ next.stage = "blocked" /\ next.bound = Mine(p).bound
    BY <2>3, <2>4, EditFacts
  <2>6. Write(p, next, "failing") /\ exec' = exec /\ proc[p].pc = "ready"
    BY <1>16, <2>2, <2>4 DEF ClaimRefused
  <2> QED BY <2>1, <2>5, <2>6, WriteWayOut
<1>17. CASE PreSpawnFailure(p)
  <2>1. Busy(p) /\ elapsed' = elapsed
    BY <1>17 DEF PreSpawnFailure, PreSpawn
  <2>2. PICK s : s = Stage(p, "blocked")
    OBVIOUS
  <2>3. s \in JournalRecord /\ s.stage = "blocked" /\ s.bound = Mine(p).bound
    BY <1>11, <2>1, <2>2
  <2>4. PICK next : next = [s EXCEPT !.needs = TRUE]
    OBVIOUS
  <2>5. next \in JournalRecord /\ next.stage = "blocked" /\ next.bound = Mine(p).bound
    BY <2>3, <2>4, EditFacts
  <2>6. Write(p, next, "settling") /\ exec' = exec /\ proc[p].pc \in {"locked", "checked", "marked"}
    BY <1>17, <2>2, <2>4 DEF PreSpawnFailure, PreSpawn
  <2> QED BY <2>1, <2>5, <2>6, WriteWayOut
<1>18. CASE PersistResult(p)
  <2>1. Busy(p) /\ elapsed' = elapsed
    BY <1>18 DEF PersistResult
  <2>6. PICK reply \in LiveReplies : Write(p, [Stage(p, "result") EXCEPT !.reply = reply], "returned")
    BY <1>18 DEF PersistResult, LiveReplies
  <2>2. PICK s : s = Stage(p, "result")
    OBVIOUS
  <2>3. s \in JournalRecord /\ s.stage = "result" /\ s.bound = Mine(p).bound
    BY <1>11, <2>1, <2>2
  <2>4. PICK next : next = [s EXCEPT !.reply = reply]
    OBVIOUS
  <2>5. next \in JournalRecord /\ next.stage = "result" /\ next.bound = Mine(p).bound
    BY <2>3, <2>4, EditFacts
  <2>7. Write(p, next, "returned") /\ exec' = exec /\ proc[p].pc = "launched"
    BY <1>18, <2>2, <2>4, <2>6 DEF PersistResult
  <2> QED BY <2>1, <2>5, <2>7, WriteWayOut
<1>20. CASE Launch(p)
  <2>1. Busy(p) /\ elapsed' = elapsed /\ Current(p)
    BY <1>20 DEF Launch, Write
  <2> QED BY <1>1, <1>20, <2>1, WriteWayOut DEF Launch, StepOk, r
<1>19. CASE PersistPassport(p)
  <2> DEFINE next == Passport(p)
  <2>1. Busy(p) /\ elapsed' = elapsed /\ proc[p].pc = "fetched" /\ exec' = exec /\ Write(p, next, "passported") /\ Current(p)
    BY <1>19 DEF PersistPassport, Write
  <2>2. /\ next \in JournalRecord /\ next.bound = Mine(p).bound /\ next.stage \in {"armed", "submitted"}
        /\ "exec" \in Mine(p).bound
    BY <1>1, <2>1 DEF Passport, Stage, JournalRecord, StepOk, RecordOk, Process, r
  <2> HIDE DEF next
  <2>3. FitsWayOut(p, next, "passported")
    BY <2>1, <2>2
  <2> QED BY <2>1, <2>2, <2>3, WriteWayOut
<1> QED BY <1>2, <1>3, <1>4, <1>5, <1>6, <1>7, <1>8, <1>9, <1>10, <1>12, <1>13, <1>14, <1>15, <1>16, <1>17,
           <1>18, <1>19, <1>20 DEF Placing

LEMMA CancelingWayOut ==
    ASSUME TakeProfitInv, WayOutInv, BackedInv', NEW p \in Procs, Canceling(p)
    PROVE  WayOutInv'
<1> DEFINE r == Mine(p)
<1>0. ProcInv /\ TypeOK /\ HasJourney
  BY DEF TakeProfitInv, ProcInv
<1>1. Busy(p) => /\ r \in JournalRecord /\ RecordOk(r) /\ proc[p] \in Process /\ proc[p].at \in Journals
                 /\ Current(p) => StepOk(proc[p].pc, r)
  BY <1>0, MineFacts
<1> HIDE DEF r
<1> USE DEF Busy
<1>2. CASE ClaimCancel(p)
  <2> DEFINE next == [Mine(p) EXCEPT !.cancel = "lock_acquired", !.needs = TRUE,
                                     !.bound = @ \cup {"exec"}, !.gen = claims + 1]
  <2>1. /\ Busy(p) /\ proc[p].pc = "prompted" /\ Current(p) /\ Put(p, next, "claimed") /\ exec = None
        /\ elapsed' = [elapsed EXCEPT ![proc[p].at] = @ \ {"launch"}]
    BY <1>2 DEF ClaimCancel, Write
  <2>2. claims + 1 \in Nat /\ r.bound \cup {"exec"} \in SUBSET {"reservation", "exec"} /\ "lock_acquired" \in Phases
    BY <1>0, <1>1, <2>1 DEF TypeOK, JournalRecord, Phases, Active
  <2>3. next \in JournalRecord /\ next.stage = r.stage /\ "exec" \in next.bound
    BY <1>1, <2>1, <2>2 DEF JournalRecord, r
  <2> HIDE DEF next
  <2>4. FitsWayOut(p, next, "claimed")
    BY <1>1, <2>1, <2>3 DEF FitsWayOut, StepOk, Placed, Steps, PlacerSteps
  <2>5. \A i \in Journals : "card" \in elapsed[i] => "card" \in elapsed'[i]
    BY <1>0, <2>1 DEF TypeOK
  <2>6. ~Unattached(proc[p].at)
    BY <2>1 DEF Unattached
  <2> QED BY <2>1, <2>3, <2>4, <2>5, <2>6, PutWayOut
<1>3. CASE FetchAfterCancel(p)
  <2>1. /\ Busy(p) /\ Observe(p, "judged") /\ UNCHANGED <<journal, exec, elapsed>>
    BY <1>3 DEF FetchAfterCancel, diskVars, worldVars
  <2>2. PICK status : proc' = [proc EXCEPT ![p] = IF [proc[p] EXCEPT !.pc = "judged", !.saw = status].pc = "idle" THEN Idle
                                                  ELSE [proc[p] EXCEPT !.pc = "judged", !.saw = status]]
    BY <2>1 DEF Observe, Become
  <2> DEFINE new == [proc[p] EXCEPT !.pc = "judged", !.saw = status]
  <2>3. new.pc = "judged" /\ new.at = proc[p].at /\ new.current = proc[p].current
    BY <1>1, <2>1 DEF Process
  <2>4. proc' = [proc EXCEPT ![p] = new]
    BY <2>2, <2>3
  <2> HIDE DEF new
  <2>5. /\ \A q \in Procs \ {p} : proc'[q] = proc[q]
        /\ proc'[p].pc = "judged" /\ proc'[p].at = proc[p].at /\ proc'[p].current = proc[p].current
    BY <1>0, <2>3, <2>4 DEF TypeOK
  <2> QED BY <2>1, <2>5, MoveWayOut DEF PlacerSteps, Steps
<1>4. ASSUME Busy(p), Goto(p, "idle"), UNCHANGED <<journal, exec, elapsed>> PROVE WayOutInv'
  <2>1. (\A q \in Procs \ {p} : proc'[q] = proc[q]) /\ proc'[p] = Idle
    BY <1>0, <1>4, GotoFacts DEF Steps
  <2>2. proc'[p].pc = "idle"
    BY <2>1 DEF Idle
  <2> QED BY <1>4, <2>1, <2>2, MoveWayOut DEF PlacerSteps, Steps
<1>5. ASSUME NEW phase \in Phases, Busy(p)
      PROVE  /\ CancelEnds(p, phase) \in JournalRecord /\ CancelEnds(p, phase).stage = r.stage
             /\ CancelEnds(p, phase).bound = r.bound
  BY <1>1, <1>5 DEF CancelEnds, JournalRecord, r
<1>6. CASE SettleCancel(p)
  <2>1. Busy(p) /\ elapsed' = elapsed /\ proc[p].pc = "outcome"
    BY <1>6 DEF SettleCancel, worldVars
  <2>2. CASE Resolved(p)
    <3>1. Release(p, {"exec"}, CancelEnds(p, "terminal"), "idle") /\ Current(p)
      BY <1>6, <2>2 DEF SettleCancel, Release, Write
    <3>2. PICK next : next = CancelEnds(p, "terminal")
      OBVIOUS
    <3>3. next \in JournalRecord /\ next.stage \in Placed /\ next.bound = Mine(p).bound
      BY <1>1, <1>5, <2>1, <3>1, <3>2 DEF Phases, StepOk, CancelSteps, r
    <3>4. FitsWayOut(p, Unbound(next, {"exec"}), "idle")
      BY <3>3, UnboundFacts DEF FitsWayOut, Steps, PlacerSteps, Placed
    <3> QED BY <2>1, <3>1, <3>2, <3>3, <3>4, ReleaseWayOut
  <2>3. CASE ~Resolved(p)
    BY <1>4, <1>6, <2>1, <2>3 DEF SettleCancel, diskVars
  <2> QED BY <2>2, <2>3
<1>7. CASE CancelFails(p)
  <2>1. Busy(p) /\ elapsed' = elapsed
    BY <1>7 DEF CancelFails, CancelUnstarted, worldVars
  <2>2. CASE ~LocallyOwned(p)
    BY <1>4, <1>7, <2>1, <2>2 DEF CancelFails, diskVars
  <2>3. ASSUME LocallyOwned(p) PROVE ~Unattached(proc[p].at) /\ r.stage \in Placed
    BY <1>1, <2>1, <2>3 DEF LocallyOwned, Unattached, Mine, RecordOk, Active, r
  <2>4. CASE LocallyOwned(p) /\ proc[p].pc \in CancelUnstarted
    <3>1. exec' = None /\ Put(p, Unbound(CancelEnds(p, "pre_spawn_failed"), {"exec"}), "idle")
      BY <1>7, <2>4 DEF CancelFails
    <3>2. PICK next : next = CancelEnds(p, "pre_spawn_failed")
      OBVIOUS
    <3>3. next \in JournalRecord /\ next.stage \in Placed
      BY <1>5, <2>1, <2>3, <2>4, <3>2 DEF Phases
    <3>4. FitsWayOut(p, Unbound(next, {"exec"}), "idle")
      BY <3>3, UnboundFacts DEF FitsWayOut, Steps, PlacerSteps, Placed
    <3> QED BY <2>1, <2>3, <2>4, <3>1, <3>2, <3>4, PutWayOut
  <2>5. CASE LocallyOwned(p) /\ proc[p].pc \notin CancelUnstarted
    <3>1. PICK next : next = [Mine(p) EXCEPT !.needs = TRUE]
      OBVIOUS
    <3>2. Put(p, next, "idle") /\ exec' = exec
      BY <1>7, <2>5, <3>1 DEF CancelFails
    <3>3. next \in JournalRecord /\ next.stage \in Placed /\ next.bound = Mine(p).bound
      BY <1>1, <2>1, <2>3, <2>5, <3>1 DEF JournalRecord, r
    <3>4. FitsWayOut(p, next, "idle")
      BY <3>3 DEF FitsWayOut, Steps, PlacerSteps, Placed
    <3> QED BY <2>1, <2>3, <2>5, <3>2, <3>3, <3>4, PutWayOut
  <2> QED BY <2>2, <2>4, <2>5
<1>8. ASSUME NEW next, NEW step \in CancelSteps, Busy(p), proc[p].pc \in CancelSteps, Write(p, next, step),
             next \in JournalRecord, next.stage = r.stage, next.bound = r.bound, exec' = exec, UNCHANGED elapsed
      PROVE  WayOutInv'
  <2>1. r.stage \in Placed
    BY <1>1, <1>8 DEF Write, StepOk
  <2>2. FitsWayOut(p, next, step)
    BY <1>8, <2>1 DEF FitsWayOut, CancelSteps, Steps, PlacerSteps, Placed
  <2> QED BY <1>8, <2>2, WriteWayOut DEF CancelSteps, r
<1> USE DEF CancelSteps
<1>9. CASE MarkCancelAttempted(p)
  <2>1. /\ Busy(p) /\ proc[p].pc = "claimed" /\ Write(p, [Mine(p) EXCEPT !.cancel = "attempted"], "cancelMarked")
        /\ exec' = exec /\ elapsed' = elapsed
    BY <1>9 DEF MarkCancelAttempted, worldVars
  <2>2. PICK next : next = [Mine(p) EXCEPT !.cancel = "attempted"]
    OBVIOUS
  <2>3. next \in JournalRecord /\ next.stage = r.stage /\ next.bound = r.bound
    BY <1>1, <2>1, <2>2 DEF JournalRecord, Phases, Active, r
  <2> QED BY <1>8, <2>1, <2>2, <2>3
<1>10. CASE LaunchCancel(p) \/ PersistCancelResult(p)
  <2>1. PICK step \in {"canceling", "canceled"} : Write(p, Mine(p), step)
    BY <1>10 DEF LaunchCancel, PersistCancelResult
  <2>2. Busy(p) /\ proc[p].pc \in CancelSteps /\ exec' = exec /\ elapsed' = elapsed
    BY <1>10 DEF LaunchCancel, PersistCancelResult, worldVars
  <2> QED BY <1>1, <1>8, <2>1, <2>2 DEF r
<1>11. CASE RecordOutcome(p)
  <2>1. /\ Busy(p) /\ proc[p].pc = "judged" /\ Write(p, [Mine(p) EXCEPT !.needs = TRUE], "outcome")
        /\ exec' = exec /\ elapsed' = elapsed
    BY <1>11 DEF RecordOutcome, worldVars
  <2>2. PICK next : next = [Mine(p) EXCEPT !.needs = TRUE]
    OBVIOUS
  <2>3. next \in JournalRecord /\ next.stage = r.stage /\ next.bound = r.bound
    BY <1>1, <2>1, <2>2 DEF JournalRecord, r
  <2> QED BY <1>8, <2>1, <2>2, <2>3
<1> QED BY <1>2, <1>3, <1>6, <1>7, <1>9, <1>10, <1>11 DEF Canceling

LEMMA ReconcilingWayOut ==
    ASSUME TakeProfitInv, WayOutInv, BackedInv', NEW p \in Procs, Reconciling(p)
    PROVE  WayOutInv'
<1> DEFINE r == Mine(p)
<1>0. ProcInv /\ TypeOK /\ HasJourney
  BY DEF TakeProfitInv, ProcInv
<1>1. Busy(p) => /\ r \in JournalRecord /\ RecordOk(r) /\ proc[p] \in Process /\ proc[p].at \in Journals
                 /\ Current(p) => StepOk(proc[p].pc, r)
  BY <1>0, MineFacts
<1> HIDE DEF r
<1> USE DEF Busy
<1>2. ASSUME NEW next, NEW fields \in SUBSET {"reservation", "exec"}, Busy(p), Release(p, fields, next, "idle"),
             next \in JournalRecord, next.bound = r.bound, next.stage \notin {"fresh", "requested"}, UNCHANGED elapsed,
             \/ "exec" \in fields
             \/ r.stage \notin Placed \cup {"confirmed"}
             \/ proc[p].pc = "swept" /\ r.stage = "confirmed"
      PROVE  WayOutInv'
  <2>1. FitsWayOut(p, Unbound(next, fields), "idle")
    BY <1>2, UnboundFacts DEF FitsWayOut, Steps, PlacerSteps
  <2> QED BY <1>2, <2>1, ReleaseWayOut DEF r
<1>3. ASSUME NEW stage \in Stages, Busy(p)
      PROVE  /\ [Stage(p, stage) EXCEPT !.needs = FALSE] \in JournalRecord
             /\ [Stage(p, stage) EXCEPT !.needs = FALSE].stage = stage
             /\ [Stage(p, stage) EXCEPT !.needs = FALSE].bound = r.bound
  <2>1. PICK s : s = Stage(p, stage)
    OBVIOUS
  <2>2. s \in JournalRecord /\ s.stage = stage /\ s.bound = r.bound
    BY <1>0, <1>3, <2>1, StageFacts DEF r
  <2>3. [s EXCEPT !.needs = FALSE] \in JournalRecord /\ [s EXCEPT !.needs = FALSE].stage = stage
        /\ [s EXCEPT !.needs = FALSE].bound = r.bound
    BY <2>2 DEF JournalRecord
  <2> QED BY <2>1, <2>3
<1>4. ASSUME NEW phase \in Phases, Busy(p)
      PROVE  /\ CancelEnds(p, phase) \in JournalRecord /\ CancelEnds(p, phase).stage = r.stage
             /\ CancelEnds(p, phase).bound = r.bound
  BY <1>1, <1>4 DEF CancelEnds, JournalRecord, r
<1>5. CASE ReconcileRejected(p)
  <2>1. /\ Busy(p) /\ elapsed' = elapsed
        /\ Release(p, {"exec"}, [Stage(p, "rejected") EXCEPT !.needs = FALSE], "idle")
    BY <1>5 DEF ReconcileRejected, worldVars
  <2>2. PICK next : next = [Stage(p, "rejected") EXCEPT !.needs = FALSE]
    OBVIOUS
  <2>3. next \in JournalRecord /\ next.stage = "rejected" /\ next.bound = r.bound
    BY <1>3, <2>1, <2>2 DEF Stages
  <2> QED BY <1>2, <2>1, <2>2, <2>3
<1>6. CASE ReconcileAuthorization(p)
  <2>1. /\ Busy(p) /\ elapsed' = elapsed /\ r.stage \in AuthorizationStages
        /\ Release(p, {"reservation"}, [Stage(p, "unused") EXCEPT !.needs = FALSE], "idle")
    BY <1>6 DEF ReconcileAuthorization, worldVars, r
  <2>2. r.stage \notin Placed \cup {"confirmed"}
    BY <2>1 DEF AuthorizationStages, Placed
  <2>3. PICK next : next = [Stage(p, "unused") EXCEPT !.needs = FALSE]
    OBVIOUS
  <2>4. next \in JournalRecord /\ next.stage = "unused" /\ next.bound = r.bound
    BY <1>3, <2>1, <2>3 DEF Stages
  <2> QED BY <1>2, <2>1, <2>2, <2>3, <2>4
<1>7. CASE ReconcileUnstarted(p)
  <2>1. /\ Busy(p) /\ elapsed' = elapsed /\ r.stage \in Unstarted
        /\ r.stage = "confirmed" => proc[p].pc = "swept"
        /\ Release(p, r.bound, [Stage(p, "expired") EXCEPT !.needs = FALSE], "idle")
    BY <1>7 DEF ReconcileUnstarted, LooksUnstarted, worldVars, r
  <2>2. r.stage \notin Placed /\ r.bound \in SUBSET {"reservation", "exec"}
    BY <1>1, <2>1 DEF Unstarted, Placed, JournalRecord
  <2> QED BY <1>2, <1>3, <2>1, <2>2 DEF Stages
<1>8. CASE ReconcileCancel(p) \/ SettleResolved(p)
  <2>1. PICK phase \in Phases : Release(p, {"exec"}, CancelEnds(p, phase), "idle")
    <3>1. CASE ReconcileCancel(p)
      BY <3>1 DEF ReconcileCancel, Phases
    <3>2. CASE SettleResolved(p)
      <4>1. Mine(p).cancel \in Phases
        BY <1>1, <3>2 DEF SettleResolved, JournalRecord, r
      <4> QED BY <3>2, <4>1 DEF SettleResolved, Phases
    <3> QED BY <1>8, <3>1, <3>2
  <2>2. Busy(p) /\ elapsed' = elapsed /\ Current(p) /\ proc[p].pc \in {"swept", "known"}
    BY <1>8 DEF ReconcileCancel, SettleResolved, Release, Write, worldVars
  <2>3. r.stage \in Placed
    BY <1>1, <1>8, <2>2 DEF ReconcileCancel, SettleResolved, StepOk, r
  <2> QED BY <1>2, <1>4, <2>1, <2>2, <2>3 DEF Placed
<1>9. CASE SettleRecovered(p)
  <2>1. /\ Busy(p) /\ elapsed' = elapsed /\ Current(p) /\ proc[p].pc = "known"
        /\ Release(p, {"exec"}, [Mine(p) EXCEPT !.needs = FALSE, !.recovery = "released"], "idle")
    BY <1>9 DEF SettleRecovered, Release, Write, worldVars
  <2>2. PICK next : next = [Mine(p) EXCEPT !.needs = FALSE, !.recovery = "released"]
    OBVIOUS
  <2>3. next \in JournalRecord /\ next.stage = r.stage /\ next.bound = r.bound
    BY <1>1, <2>1, <2>2 DEF JournalRecord, r
  <2>4. r.stage \in Placed
    BY <1>1, <2>1 DEF StepOk
  <2> QED BY <1>2, <2>1, <2>2, <2>3, <2>4 DEF Placed
<1>10. CASE RecoverPassport(p)
  <2>1. /\ Busy(p) /\ proc[p].pc = "refetched" /\ exec' = exec /\ elapsed' = elapsed
        /\ Write(p, [Passport(p) EXCEPT !.recovery = "pending"], "recovered")
    BY <1>10 DEF RecoverPassport, worldVars
  <2>2. PICK stage, s : /\ stage \in {"armed", "submitted"} /\ s = Stage(p, stage)
                        /\ Passport(p) = [s EXCEPT !.initial = proc[p].saw, !.needs = TRUE]
    BY DEF Passport
  <2>3. s \in JournalRecord /\ s.stage = stage /\ s.bound = r.bound /\ proc[p].saw \in Statuses \cup {None}
    BY <1>0, <1>1, <2>1, <2>2, StageFacts DEF Stages, Process, r
  <2>4. PICK w : w = [s EXCEPT !.initial = proc[p].saw, !.needs = TRUE]
    OBVIOUS
  <2>5. w \in JournalRecord /\ w.stage = stage /\ w.bound = r.bound
    BY <2>3, <2>4 DEF JournalRecord
  <2>6. PICK next : next = [w EXCEPT !.recovery = "pending"]
    OBVIOUS
  <2>7. next \in JournalRecord /\ next.stage = stage /\ next.bound = Mine(p).bound
    BY <2>5, <2>6 DEF JournalRecord, r
  <2>8. FitsWayOut(p, next, "recovered")
    BY <2>2, <2>7 DEF FitsWayOut, Steps, PlacerSteps
  <2> QED BY <2>1, <2>2, <2>4, <2>6, <2>7, <2>8, WriteWayOut
<1>11. CASE Sweep(p)
  <2>1. /\ Busy(p) /\ proc[p].pc = "judging" /\ Goto(p, "swept") /\ UNCHANGED <<journal, elapsed>>
    BY <1>11 DEF Sweep, worldVars
  <2>2. /\ \A q \in Procs \ {p} : proc'[q] = proc[q]
        /\ proc'[p].pc = "swept" /\ proc'[p].at = proc[p].at /\ proc'[p].current = proc[p].current
    BY <1>0, <2>1, GotoFacts DEF Steps
  <2>3. PICK j : j = proc[p].at
    OBVIOUS
  <2>4. exec' \in {exec, None} /\ ~Unattached(j)'
    BY <1>11, <2>1, <2>3 DEF Sweep, Unattached, Mine
  <2> QED BY <2>1, <2>2, <2>3, <2>4, MoveWayOut DEF PlacerSteps, Steps
<1>12. CASE TrackRecovered(p)
  <2>1. /\ Busy(p) /\ Goto(p, "known") /\ UNCHANGED <<journal, exec, elapsed>>
    BY <1>12 DEF TrackRecovered, worldVars
  <2>2. /\ \A q \in Procs \ {p} : proc'[q] = proc[q]
        /\ proc'[p].pc = "known" /\ proc'[p].at = proc[p].at /\ proc'[p].current = proc[p].current
    BY <1>0, <2>1, GotoFacts DEF Steps
  <2> QED BY <2>1, <2>2, MoveWayOut DEF PlacerSteps, Steps
<1>13. CASE Track(p)
  <2>1. /\ Busy(p) /\ Observe(p, "known") /\ UNCHANGED <<journal, exec, elapsed>>
    BY <1>13 DEF Track, diskVars, worldVars
  <2>2. PICK status : proc' = [proc EXCEPT ![p] = IF [proc[p] EXCEPT !.pc = "known", !.saw = status].pc = "idle" THEN Idle
                                                  ELSE [proc[p] EXCEPT !.pc = "known", !.saw = status]]
    BY <2>1 DEF Observe, Become
  <2> DEFINE new == [proc[p] EXCEPT !.pc = "known", !.saw = status]
  <2>3. new.pc = "known" /\ new.at = proc[p].at /\ new.current = proc[p].current
    BY <1>1, <2>1 DEF Process
  <2>4. proc' = [proc EXCEPT ![p] = new]
    BY <2>2, <2>3
  <2> HIDE DEF new
  <2>5. /\ \A q \in Procs \ {p} : proc'[q] = proc[q]
        /\ proc'[p].pc = "known" /\ proc'[p].at = proc[p].at /\ proc'[p].current = proc[p].current
    BY <1>0, <2>3, <2>4 DEF TypeOK
  <2> QED BY <2>1, <2>5, MoveWayOut DEF PlacerSteps, Steps
<1> QED BY <1>5, <1>6, <1>7, <1>8, <1>9, <1>10, <1>11, <1>12, <1>13 DEF Reconciling

(* A process begins to cancel or to reconcile.                             *)
LEMMA BeginWayOut ==
    ASSUME TakeProfitInv, WayOutInv, NEW p \in Procs, NEW j \in Journals, PromptCancel(p, j) \/ Reconcile(p, j)
    PROVE  WayOutInv'
<1>1. PICK step \in {"prompted", "judging"} :
          /\ proc[p] = Idle /\ Become(p, [Idle EXCEPT !.pc = step, !.at = j, !.current = TRUE])
          /\ step = "judging" => Reconcilable(j)
  BY DEF PromptCancel, Reconcile
<1>2. UNCHANGED <<journal, exec, elapsed>> /\ proc \in [Procs -> Process]
  BY DEF PromptCancel, Reconcile, diskVars, worldVars, TakeProfitInv, ProcInv, TypeOK
<1>3. /\ \A q \in Procs \ {p} : proc'[q] = proc[q]
      /\ proc'[p].pc = step /\ proc'[p].at = j
  BY <1>1, <1>2 DEF Become, Idle
<1>4. WriterOk(step, j, journal[j])
  BY <1>1 DEF WriterOk, Reconcilable, AuthorizationOnly, AuthorizationStages, DefinitivelyRejected, PrePassport, Placed
<1>5. \A i, at, r : WriterOk(at, i, r)' <=> WriterOk(at, i, r)
  BY <1>2 DEF WriterOk, Unattached, Passed
<1>6. SourceInv'
  BY <1>2 DEF WayOutInv, SourceInv, Unattached
<1>7. PlacerInv'
  BY <1>2, <1>3 DEF WayOutInv, PlacerInv, Mine, PlacerSteps
<1>8. ASSUME NEW q \in Procs, (Busy(q) /\ Current(q))'
      PROVE  WriterOk(proc[q].pc, proc[q].at, Mine(q))'
  <2>1. CASE q = p
    <3>1. proc'[q].pc = step /\ proc'[q].at = j /\ Mine(q)' = journal[j]
      BY <1>2, <1>3, <2>1 DEF Mine
    <3> QED BY <1>4, <1>5, <3>1
  <2>2. CASE q # p
    <3>1. PICK i, r, at : i = proc[q].at /\ r = Mine(q) /\ at = proc[q].pc
      OBVIOUS
    <3>2. proc'[q].pc = at /\ proc'[q].at = i /\ Mine(q)' = r /\ Busy(q) /\ Current(q)
      BY <1>2, <1>3, <1>8, <2>2, <3>1 DEF Mine, Busy, Current
    <3>3. WriterOk(at, i, r)
      BY <3>1, <3>2 DEF WayOutInv, WriterInv
    <3> QED BY <1>5, <3>2, <3>3
  <2> QED BY <2>1, <2>2
<1> QED BY <1>6, <1>7, <1>8 DEF WayOutInv, WriterInv

(* A placement begins from the fresh journal, as the only one.             *)
LEMMA StartWayOut ==
    ASSUME TakeProfitInv, WayOutInv, NEW p \in Procs, NEW j \in Journals, Start(p, j)
    PROVE  WayOutInv'
<1>1. /\ proc[p] = Idle /\ journal[j].stage = "fresh" /\ UNCHANGED <<exec, elapsed>>
      /\ Become(p, [Idle EXCEPT !.pc = "asked", !.at = j, !.current = TRUE])
      /\ journal' = [journal EXCEPT ![j].stage = "requested"]
      /\ proc \in [Procs -> Process] /\ journal \in [Journals -> JournalRecord] /\ HasJourney
  BY DEF Start, worldVars, TakeProfitInv, ProcInv, TypeOK
<1>2. /\ \A q \in Procs \ {p} : proc'[q] = proc[q]
      /\ proc'[p].pc = "asked" /\ proc'[p].at = j
  BY <1>1 DEF Become, Idle
<1>3. /\ journal'[j].stage = "requested" /\ journal'[j].bound = journal[j].bound
      /\ \A i \in Journals \ {j} : journal'[i] = journal[i]
      /\ "exec" \notin journal[j].bound
  BY <1>1 DEF JournalRecord, WayOutInv, PlacerInv
<1>4. \A i \in Journals : Unattached(i)' <=> Unattached(i)
  BY <1>1, <1>3 DEF Unattached
<1>5. ~Unattached(j)
  BY <1>1 DEF WayOutInv, SourceInv, Placed
<1>6. SourceInv'
  BY <1>1, <1>3, <1>4, <1>5 DEF WayOutInv, SourceInv
<1>7. \A q \in Procs : proc[q].pc \in PlacerSteps => proc[q].at \in Journals \ {j} /\ q # p
  BY <1>1 DEF WayOutInv, PlacerInv, HasJourney, Busy, Mine, PlacerSteps, Idle
<1>8. PlacerInv'
  <2>1. ASSUME NEW q \in Procs, proc'[q].pc \in PlacerSteps
        PROVE  /\ Mine(q)'.stage # "fresh"
               /\ q = p \/ (q # p /\ proc[q].pc \in PlacerSteps /\ proc'[q].at = proc[q].at /\ proc[q].at # j)
    BY <1>2, <1>3, <1>7, <2>1 DEF WayOutInv, PlacerInv, Mine
  <2>2. ASSUME NEW i \in Journals, journal'[i].stage \in {"fresh", "requested"}
        PROVE  "exec" \notin journal'[i].bound
    BY <1>3, <2>2 DEF WayOutInv, PlacerInv
  <2> QED BY <1>2, <2>1, <2>2 DEF WayOutInv, PlacerInv
<1>9. ASSUME NEW q \in Procs, (Busy(q) /\ Current(q))'
      PROVE  WriterOk(proc[q].pc, proc[q].at, Mine(q))'
  <2>1. CASE q = p
    BY <1>2, <2>1 DEF WriterOk
  <2>2. CASE q # p
    <3>1. PICK i, r, at : i = proc[q].at /\ r = Mine(q) /\ at = proc[q].pc
      OBVIOUS
    <3>2. proc'[q].pc = at /\ proc'[q].at = i /\ Busy(q) /\ Current(q) /\ i \in Journals /\ r = journal[i]
      BY <1>1, <1>2, <1>9, <2>2, <3>1 DEF Mine, Busy, Current, HasJourney
    <3>3. WriterOk(at, i, r)
      BY <3>1, <3>2 DEF WayOutInv, WriterInv
    <3>4. CASE i = j
      <4>1. StepOk(at, r) /\ r.stage = "fresh"
        BY <1>1, <3>1, <3>2, <3>4 DEF TakeProfitInv, ProcInv, StepInv
      <4>2. at \notin {"failing", "passported", "progressed", "ready"}
        BY <3>3, <4>1 DEF WriterOk, StepOk, Placed
      <4>3. Mine(q)' = journal'[j]
        BY <3>2, <3>4 DEF Mine
      <4> QED BY <1>3, <3>2, <4>2, <4>3 DEF WriterOk
    <3>5. CASE i # j
      <4>1. Mine(q)' = r
        BY <1>3, <3>2, <3>5 DEF Mine
      <4> QED BY <1>1, <1>4, <3>2, <3>3, <4>1 DEF WriterOk, Passed
    <3> QED BY <3>4, <3>5
  <2> QED BY <2>1, <2>2
<1> QED BY <1>6, <1>8, <1>9 DEF WayOutInv, WriterInv

(* The process that publishes the lock and dies was the only one that      *)
(* could go on with a confirmed journey.                                   *)
LEMMA ClaimDiesWayOut ==
    ASSUME TakeProfitInv, WayOutInv, NEW p \in Procs, ClaimDies(p)
    PROVE  WayOutInv'
<1>1. /\ Busy(p) /\ proc[p].pc \in {"ready", "prompted"} /\ Current(p) /\ exec = None /\ UNCHANGED <<journal, elapsed>>
      /\ proc[p].pc = "ready" => ~Passed(proc[p].at, "card")
      /\ Mine(p).stage \in Placed \cup {"confirmed"} /\ "exec" \notin Mine(p).bound
      /\ exec' = NewExec(p) /\ Goto(p, "idle") /\ TypeOK /\ HasJourney
  BY DEF ClaimDies, Claimable, Busy, worldVars, TakeProfitInv, ProcInv
<1>2. PICK j \in Journals : j = proc[p].at
  BY <1>1, BusyFacts
<1>3. Mine(p) = journal[j] /\ exec'.owner = j /\ exec'.source = journal[j] /\ StepOk(proc[p].pc, journal[j])
  BY <1>1, <1>2 DEF Mine, NewExec, TakeProfitInv, ProcInv, StepInv
<1>4. (\A q \in Procs \ {p} : proc'[q] = proc[q]) /\ proc'[p].pc = "idle"
  BY <1>1, GotoFacts DEF Steps, Idle
<1>5. \A i \in Journals : Unattached(i)' => i = j
  BY <1>3 DEF Unattached
<1>6. SourceInv'
  BY <1>1, <1>3, <1>5 DEF SourceInv
<1>7. PlacerInv'
  BY <1>1, <1>4 DEF WayOutInv, PlacerInv, Mine, PlacerSteps
<1>8. ASSUME NEW q \in Procs, (Busy(q) /\ Current(q))'
      PROVE  WriterOk(proc[q].pc, proc[q].at, Mine(q))'
  <2>1. PICK i, r, at : i = proc[q].at /\ r = Mine(q) /\ at = proc[q].pc
    OBVIOUS
  <2>2. proc'[q].pc = at /\ proc'[q].at = i /\ q # p /\ Busy(q) /\ Current(q) /\ i \in Journals /\ r = journal[i]
    BY <1>1, <1>4, <1>8, <2>1 DEF Mine, Busy, Current, HasJourney
  <2>3. WriterOk(at, i, r) /\ StepOk(at, r)
    BY <2>1, <2>2 DEF WayOutInv, WriterInv, TakeProfitInv, ProcInv, StepInv
  <2>4. Mine(q)' = r /\ (Passed(i, "card") => Passed(i, "card")')
    BY <1>1, <2>2 DEF Mine, Passed
  <2>5. CASE i # j
    <3>1. ~Unattached(i)'
      BY <1>5, <2>2, <2>5
    <3> QED BY <2>2, <2>3, <2>4, <3>1 DEF WriterOk
  <2>6. CASE i = j
    <3>1. CASE journal[j].stage = "confirmed"
      <4>1. proc[p].pc = "ready" /\ ~Passed(j, "card")
        BY <1>1, <1>2, <1>3, <3>1 DEF StepOk, Placed
      <4>2. at # "ready" /\ at \notin {"judging", "swept"}
        BY <1>2, <2>1, <2>2, <2>3, <2>6, <3>1, <4>1 DEF WriterOk, WayOutInv, PlacerInv, PlacerSteps
      <4> QED BY <2>2, <2>3, <2>4, <4>2 DEF WriterOk
    <3>2. CASE journal[j].stage \in Placed
      <4>1. at # "ready" /\ r.stage # "confirmed"
        BY <2>2, <2>3, <2>6, <3>2 DEF StepOk, Placed
      <4> QED BY <2>2, <2>3, <2>4, <4>1 DEF WriterOk
    <3> QED BY <1>1, <1>3, <3>1, <3>2
  <2> QED BY <2>5, <2>6
<1> QED BY <1>6, <1>7, <1>8 DEF WayOutInv, WriterInv

(* The venue, the chain and the clock touch neither file nor process.      *)
LEMMA WorldWayOut ==
    ASSUME WayOutInv, HasJourney, UNCHANGED <<journal, exec, proc>>,
           \A i \in Journals : "card" \in elapsed[i] => "card" \in elapsed'[i]
    PROVE  WayOutInv'
<1>1. SourceInv' /\ PlacerInv'
  BY DEF WayOutInv, SourceInv, PlacerInv, Unattached, Mine
<1>2. WriterInv'
  BY DEF WayOutInv, HasJourney, WriterInv, WriterOk, Unattached, Mine, Busy, Current, Passed
<1> QED BY <1>1, <1>2 DEF WayOutInv

(* Nobody overwrites the journal an unattached lock was published from, so *)
(* the journal and the lock keep agreeing until the sweep takes the lock.  *)
THEOREM UnattachedLocksAgree == Spec => [](TakeProfitInv /\ WayOutInv)
<1>1. Init => TakeProfitInv /\ WayOutInv
  <2> SUFFICES ASSUME Init PROVE WayOutInv
    BY InitInv
  <2>1. \A j \in Journals : ~Unattached(j) /\ "exec" \notin journal[j].bound
    BY DEF Init, Unattached, FreshJournal
  <2>2. \A p \in Procs : ~Busy(p) /\ proc[p].pc \notin PlacerSteps
    BY DEF Init, Idle, Busy, PlacerSteps
  <2> QED BY <2>1, <2>2 DEF WayOutInv, SourceInv, PlacerInv, WriterInv
<1>2. TakeProfitInv /\ WayOutInv /\ [Next]_vars => (TakeProfitInv /\ WayOutInv)'
  <2> SUFFICES ASSUME TakeProfitInv, WayOutInv, [Next]_vars PROVE WayOutInv'
    BY NextInv
  <2>1. BackedInv' /\ TypeOK /\ HasJourney
    BY NextInv DEF TakeProfitInv, ProcInv
  <2>2. ASSUME NEW p \in Procs, Placing(p) \/ Canceling(p) \/ Reconciling(p) PROVE WayOutInv'
    BY <2>1, <2>2, PlacingWayOut, CancelingWayOut, ReconcilingWayOut
  <2>3. ASSUME NEW p \in Procs, Leave(p) \/ Crash(p) \/ ClaimReservationDies(p) PROVE WayOutInv'
    <3>1. Busy(p) /\ Goto(p, "idle") /\ UNCHANGED <<journal, exec, elapsed>>
      BY <2>3 DEF Leave, Crash, ClaimReservationDies, Busy, diskVars, worldVars
    <3>2. (\A q \in Procs \ {p} : proc'[q] = proc[q]) /\ proc'[p] = Idle
      BY <2>1, <3>1, GotoFacts DEF Steps
    <3>3. proc'[p].pc = "idle"
      BY <3>2 DEF Idle
    <3> QED BY <3>1, <3>2, <3>3, MoveWayOut DEF PlacerSteps, Steps
  <2>4. ASSUME NEW p \in Procs, ClaimDies(p) PROVE WayOutInv'
    BY <2>4, ClaimDiesWayOut
  <2>5. ASSUME NEW p \in Procs, NEW j \in Journals, Start(p, j) \/ PromptCancel(p, j) \/ Reconcile(p, j)
        PROVE  WayOutInv'
    BY <2>5, StartWayOut, BeginWayOut
  <2>6. ASSUME NEW j \in Journals,
               Venue(j) \/ Fill(j) \/ SettlePayment(j) \/ \E deadline \in Deadlines : Elapse(j, deadline)
        PROVE  WayOutInv'
    <3>1. UNCHANGED <<journal, exec, proc>>
      BY <2>6 DEF Venue, AnswerOrder, ExpireOrder, AnswerCancel, SettleTrades, Fill, ChangeOrder, SettlePayment,
                  Elapse, diskVars
    <3>2. CASE elapsed' = elapsed
      BY <2>1, <3>1, <3>2, WorldWayOut
    <3>3. ASSUME NEW deadline \in Deadlines, Elapse(j, deadline) PROVE WayOutInv'
      <4>1. \A i \in Journals : "card" \in elapsed[i] => "card" \in elapsed'[i]
        BY <2>1, <3>3 DEF Elapse, TypeOK
      <4> QED BY <2>1, <3>1, <4>1, WorldWayOut
    <3> QED BY <2>6, <3>2, <3>3 DEF Venue, AnswerOrder, ExpireOrder, AnswerCancel, SettleTrades, Fill, ChangeOrder,
                                    SettlePayment
  <2>7. CASE UNCHANGED vars
    BY <2>1, <2>7, WorldWayOut DEF vars, diskVars, worldVars
  <2> QED BY <2>2, <2>3, <2>4, <2>5, <2>6, <2>7 DEF Next
<1> QED BY <1>1, <1>2, PTL DEF Spec

(* An execution lock on disk can always be given back: its journal is      *)
(* bound to it, or is still the exact state that published it, which the   *)
(* sweep of reconcile-tp recognises (reconcileUnattachedExecutionLock).    *)
THEOREM LocksHaveWayOut == Spec => []LockHasWayOut
<1>1. TakeProfitInv /\ WayOutInv => LockHasWayOut
  <2> SUFFICES ASSUME TakeProfitInv, WayOutInv, exec # None
               PROVE  \/ OwnsExec(exec.owner)
                      \/ /\ "exec" \notin journal[exec.owner].bound
                         /\ exec.source = journal[exec.owner]
                         /\ journal[exec.owner].stage \in Placed \cup {"confirmed"}
    BY DEF LockHasWayOut
  <2>1. PICK j \in Journals : j = exec.owner
    BY DEF TakeProfitInv, ProcInv, TypeOK, ExecLock
  <2>2. CASE "exec" \in journal[j].bound
    BY <2>1, <2>2 DEF TakeProfitInv, BackedInv
  <2>3. CASE "exec" \notin journal[j].bound
    BY <2>1, <2>3 DEF WayOutInv, SourceInv, Unattached
  <2> QED BY <2>1, <2>2, <2>3
<1> QED BY <1>1, UnattachedLocksAgree, PTL
-----------------------------------------------------------------------------
(* The desk *)

(* The stages of a journal that says what became of its order, and the     *)
(* phases of a cancellation that may have been requested.                  *)
Accounted == Placed \cup {"rejected"}

Decided == {"attempted", "terminal"}

(* The stages in which a journey never has the execution lock.             *)
Unseated == {"fresh", "requested", "starting", "created", "ambiguous", "withdrawn",
             "verified", "confirmed", "unused", "expired"}

SeatOk(r, o) ==
    /\ r.stage \in Unseated => "exec" \notin r.bound
    /\ r.stage \in Accounted \cup {"result"} => o.state # "none"
    /\ o.settled <= o.matched

SeatInv == \A j \in Journals : SeatOk(journal[j], order[j])

(* A launched process has an order, and who was asked to cancel a resting  *)
(* order has not ended a cancellation of it.                               *)
PromptOk(step, r, o) ==
    /\ step = "launched" => o.state # "none"
    /\ step = "prompted" => r.cancel # "terminal"

PromptInv == \A p \in Procs : Busy(p) /\ Current(p) => PromptOk(proc[p].pc, Mine(p), order[proc[p].at])

DeskInv == SeatInv /\ PromptInv

(* A write changes one journal; who else read it holds a stale revision.   *)
LEMMA PutShape ==
    ASSUME TakeProfitInv, NEW p \in Procs, Busy(p), NEW next \in JournalRecord, NEW step \in Steps,
           Put(p, next, step), NEW j, j = proc[p].at
    PROVE  /\ j \in Journals /\ Mine(p) = journal[j] /\ journal'[j] = next
           /\ \A i \in Journals \ {j} : journal'[i] = journal[i]
           /\ step = "idle" => proc'[p] = Idle
           /\ step # "idle" => proc'[p].pc = step /\ proc'[p].at = j
           /\ \A q \in Procs \ {p} :
                 /\ proc'[q].pc = proc[q].pc /\ proc'[q].at = proc[q].at
                 /\ proc'[q].current => proc[q].current /\ proc[q].at # j
<1>1. TypeOK /\ HasJourney /\ ProcInv
  BY DEF TakeProfitInv, ProcInv
<1>2. j \in Journals /\ Mine(p) = journal[j]
  BY <1>1, MineFacts
<1>3. /\ journal' \in [Journals -> JournalRecord]
      /\ journal'[proc[p].at] = next
      /\ \A i \in Journals \ {proc[p].at} : journal'[i] = journal[i]
      /\ proc' \in [Procs -> Process]
      /\ step = "idle" => proc'[p] = Idle
      /\ step # "idle" => /\ proc'[p].pc = step /\ proc'[p].at = proc[p].at /\ proc'[p].current = TRUE
                          /\ proc'[p].gen = next.gen /\ proc'[p].saw = proc[p].saw
      /\ \A q \in Procs \ {p} :
            /\ proc'[q].pc = proc[q].pc /\ proc'[q].at = proc[q].at
            /\ proc'[q].gen = proc[q].gen /\ proc'[q].saw = proc[q].saw
            /\ proc'[q].current => proc[q].current /\ proc[q].at # proc[p].at
  BY <1>1, PutFacts
<1> QED BY <1>2, <1>3

(* p writes next to its journal, and no order is undone.                   *)
LEMMA PutKeepsDesk ==
    ASSUME TakeProfitInv, DeskInv, NEW p \in Procs, Busy(p), NEW next \in JournalRecord, NEW step \in Steps,
           Put(p, next, step), step # "prompted",
           \A i \in Journals : /\ order'[i].settled = order[i].settled /\ order'[i].matched = order[i].matched
                               /\ order[i].state # "none" => order'[i].state # "none",
           SeatOk(next, order'[proc[p].at]),
           step = "launched" => order'[proc[p].at].state # "none"
    PROVE  DeskInv'
<1>1. TypeOK /\ HasJourney /\ proc[p].at \in Journals
  BY MineFacts DEF TakeProfitInv, ProcInv
<1>2. /\ journal'[proc[p].at] = next
      /\ \A i \in Journals \ {proc[p].at} : journal'[i] = journal[i]
      /\ step = "idle" => proc'[p] = Idle
      /\ step # "idle" => proc'[p].pc = step /\ proc'[p].at = proc[p].at
      /\ \A q \in Procs \ {p} :
            /\ proc'[q].pc = proc[q].pc /\ proc'[q].at = proc[q].at
            /\ proc'[q].current => proc[q].current /\ proc[q].at # proc[p].at
  <2>1. PICK j : j = proc[p].at
    OBVIOUS
  <2> QED BY <2>1, PutShape
<1>3. SeatInv'
  BY <1>2 DEF DeskInv, SeatInv, SeatOk
<1>4. ASSUME NEW q \in Procs, Busy(q)', Current(q)'
      PROVE  PromptOk(proc[q].pc, Mine(q), order[proc[q].at])'
  <2>1. CASE q = p
    <3>1. step # "idle"
      BY <1>2, <1>4, <2>1 DEF Busy, Idle
    <3> QED BY <1>2, <2>1, <3>1 DEF PromptOk
  <2>2. CASE q # p
    <3>1. Busy(q) /\ Current(q) /\ proc[q].at # proc[p].at
      BY <1>2, <1>4, <2>2 DEF Busy, Current
    <3>2. proc[q].at \in Journals
      BY <1>1, <3>1 DEF HasJourney
    <3>3. PromptOk(proc[q].pc, Mine(q), order[proc[q].at])
      BY <3>1 DEF DeskInv, PromptInv
    <3> QED BY <1>2, <2>2, <3>1, <3>2, <3>3 DEF PromptOk, Mine
  <2> QED BY <2>1, <2>2
<1> QED BY <1>3, <1>4 DEF DeskInv, PromptInv

(* p takes a step and writes no journal.                                   *)
LEMMA MoveKeepsDesk ==
    ASSUME TakeProfitInv, DeskInv, NEW p \in Procs, UNCHANGED <<journal, order>>,
           \A q \in Procs \ {p} : proc'[q] = proc[q],
           proc'[p].pc \notin {"launched", "prompted"}
    PROVE  DeskInv'
<1>1. ASSUME NEW q \in Procs, Busy(q)', Current(q)'
      PROVE  PromptOk(proc[q].pc, Mine(q), order[proc[q].at])'
  BY <1>1 DEF DeskInv, PromptInv, PromptOk, Busy, Current, Mine
<1>2. SeatInv'
  BY DEF DeskInv, SeatInv
<1> QED BY <1>1, <1>2 DEF DeskInv, PromptInv

(* The venue moves the order of j on.                                      *)
LEMMA OrderKeepsDesk ==
    ASSUME TakeProfitInv, DeskInv, NEW j \in Journals, NEW o, ChangeOrder(j, o),
           o.settled <= o.matched, order[j].state # "none" => o.state # "none"
    PROVE  DeskInv'
<1>1. /\ UNCHANGED <<journal, proc>> /\ order'[j] = o
      /\ \A i \in Journals \ {j} : order'[i] = order[i]
  BY DEF ChangeOrder, TakeProfitInv, ProcInv, TypeOK, diskVars
<1>2. SeatInv'
  BY <1>1 DEF DeskInv, SeatInv, SeatOk
<1>3. ASSUME NEW q \in Procs, Busy(q)', Current(q)'
      PROVE  PromptOk(proc[q].pc, Mine(q), order[proc[q].at])'
  <2>1. Busy(q) /\ Current(q) /\ proc[q].at \in Journals
    BY <1>1, <1>3 DEF Busy, Current, TakeProfitInv, ProcInv, HasJourney
  <2>2. PromptOk(proc[q].pc, Mine(q), order[proc[q].at])
    BY <2>1 DEF DeskInv, PromptInv
  <2> QED BY <1>1, <2>1, <2>2 DEF PromptOk, Mine
<1> QED BY <1>2, <1>3 DEF DeskInv, PromptInv

(* What the desk does not see.                                             *)
SameSeat(r, next) ==
    /\ next.key = r.key /\ next.bound = r.bound
    /\ next.stage \in Accounted <=> r.stage \in Accounted
    /\ next.cancel \in Decided <=> r.cancel \in Decided

Unseen ==
    \A j \in Journals :
        /\ SameSeat(journal[j], journal'[j])
        /\ SaleOf(j)' = SaleOf(j) /\ order'[j].canceling = order[j].canceling

LEMMA UnseenStutters == Unseen => UNCHANGED Desk!deskVars
BY DEF Unseen, SameSeat, Accounted, Decided, Desk!deskVars

LEMMA SaleStays == ASSUME NEW j \in Journals, order'[j] = order[j] PROVE SaleOf(j)' = SaleOf(j)
BY DEF SaleOf, Finalized

LEMMA PutUnseen ==
    ASSUME TakeProfitInv, NEW p \in Procs, Busy(p), NEW next \in JournalRecord, NEW step \in Steps,
           Put(p, next, step), order' = order, SameSeat(Mine(p), next)
    PROVE  Unseen
<1> PICK j : j = proc[p].at
  OBVIOUS
<1>1. /\ Mine(p) = journal[j] /\ journal'[j] = next
      /\ \A i \in Journals \ {j} : journal'[i] = journal[i]
  BY PutShape
<1> QED BY <1>1, SaleStays DEF Unseen, SameSeat

(* The seat is taken by one journey.                                       *)
LEMMA OneSeat ==
    ASSUME BackedInv, NEW j \in Journals, "exec" \in journal[j].bound
    PROVE  {i \in Journals : "exec" \in journal[i].bound} = {j}
BY DEF BackedInv, OwnsExec

-----------------------------------------------------------------------------
(* Steps the desk sees *)

(* The journey of p gives the execution lock back, and keeps its decision. *)
LEMMA PutRises ==
    ASSUME TakeProfitInv, NEW p \in Procs, Busy(p), NEW next \in JournalRecord, NEW step \in Steps,
           Put(p, next, step), order' = order,
           NEW j \in Journals, j = proc[p].at,
           "exec" \in Mine(p).bound, next.key = Mine(p).key, next.bound = Mine(p).bound \ {"exec"},
           next.stage \in Accounted <=> (Mine(p).stage \in Accounted \/ SaleOf(j) # "none"),
           next.cancel \in Decided <=> Mine(p).cancel \in Decided,
           SaleOf(j) # "sent",
           Mine(p).cancel \in Decided => SaleOf(j) = "final"
    PROVE  Desk!DeskNext
<1>1. /\ Mine(p) = journal[j] /\ journal'[j] = next
      /\ \A i \in Journals \ {j} : journal'[i] = journal[i]
  BY PutShape
<1>2. {i \in Journals : "exec" \in journal[i].bound} = {j}
  BY <1>1, OneSeat DEF TakeProfitInv
<1>3. \A i \in Journals : SaleOf(i)' = SaleOf(i)
  BY SaleStays
<1>4. {i \in Journals : "exec" \in journal'[i].bound} = {}
  BY <1>1, <1>2
<1>5. {i \in Journals : journal'[i].stage \in Accounted} =
         IF SaleOf(j) = "none" THEN {i \in Journals : journal[i].stage \in Accounted}
         ELSE {i \in Journals : journal[i].stage \in Accounted} \cup {j}
  BY <1>1
<1>6. /\ [i \in Journals |-> journal'[i].key] = [i \in Journals |-> journal[i].key]
      /\ {i \in Journals : "reservation" \in journal'[i].bound} = {i \in Journals : "reservation" \in journal[i].bound}
      /\ {i \in Journals : journal'[i].cancel \in Decided} = {i \in Journals : journal[i].cancel \in Decided}
      /\ [i \in Journals |-> SaleOf(i)'] = [i \in Journals |-> SaleOf(i)]
      /\ {i \in Journals : order'[i].canceling} = {i \in Journals : order[i].canceling}
  BY <1>1, <1>3
<1>7. Desk!Rise(j)
  BY <1>1, <1>2, <1>4, <1>5, <1>6 DEF Desk!Rise, Accounted, Decided
<1> QED BY <1>2, <1>7 DEF Desk!DeskNext

(* A journey without an order gives its reservation back, and the seat it  *)
(* may have.                                                               *)
LEMMA PutWithdraws ==
    ASSUME TakeProfitInv, NEW p \in Procs, Busy(p), NEW next \in JournalRecord, NEW step \in Steps,
           Put(p, next, step), order' = order,
           NEW j \in Journals, j = proc[p].at,
           "reservation" \in Mine(p).bound, next.key = Mine(p).key, next.bound = {},
           next.stage \in Accounted <=> Mine(p).stage \in Accounted,
           next.cancel \in Decided <=> Mine(p).cancel \in Decided,
           SaleOf(j) = "none"
    PROVE  Desk!DeskNext
<1>1. /\ Mine(p) = journal[j] /\ journal'[j] = next
      /\ \A i \in Journals \ {j} : journal'[i] = journal[i]
  BY PutShape
<1>2. \A i \in Journals : SaleOf(i)' = SaleOf(i)
  BY SaleStays
<1>3. /\ {i \in Journals : "reservation" \in journal'[i].bound} =
            {i \in Journals : "reservation" \in journal[i].bound} \ {j}
      /\ {i \in Journals : "exec" \in journal'[i].bound} = {i \in Journals : "exec" \in journal[i].bound} \ {j}
  BY <1>1
<1>4. /\ [i \in Journals |-> journal'[i].key] = [i \in Journals |-> journal[i].key]
      /\ {i \in Journals : journal'[i].stage \in Accounted} = {i \in Journals : journal[i].stage \in Accounted}
      /\ {i \in Journals : journal'[i].cancel \in Decided} = {i \in Journals : journal[i].cancel \in Decided}
      /\ [i \in Journals |-> SaleOf(i)'] = [i \in Journals |-> SaleOf(i)]
      /\ {i \in Journals : order'[i].canceling} = {i \in Journals : order[i].canceling}
  BY <1>1, <1>2
<1>5. Desk!Withdraw(j)
  BY <1>1, <1>3, <1>4 DEF Desk!Withdraw, Accounted, Decided
<1>6. j \in {i \in Journals : "reservation" \in journal[i].bound}
  BY <1>1
<1> QED BY <1>5, <1>6 DEF Desk!DeskNext

(* The execution lock is free, and the journey of p takes it.              *)
LEMMA PutSits ==
    ASSUME TakeProfitInv, NEW p \in Procs, Busy(p), NEW next \in JournalRecord, NEW step \in Steps,
           Put(p, next, step), order' = order, exec = None,
           NEW j \in Journals, j = proc[p].at,
           "reservation" \in Mine(p).bound, next.key = Mine(p).key, next.bound = Mine(p).bound \cup {"exec"},
           next.stage \in Accounted <=> Mine(p).stage \in Accounted,
           next.cancel \in Decided <=> Mine(p).cancel \in Decided,
           SaleOf(j) # "none" => Mine(p).stage \in Accounted
    PROVE  Desk!DeskNext
<1>1. /\ Mine(p) = journal[j] /\ journal'[j] = next
      /\ \A i \in Journals \ {j} : journal'[i] = journal[i]
  BY PutShape
<1>2. \A i \in Journals : SaleOf(i)' = SaleOf(i)
  BY SaleStays
<1>3. \A i \in Journals : "exec" \notin journal[i].bound
  BY DEF TakeProfitInv, BackedInv, OwnsExec
<1>4. /\ {i \in Journals : "exec" \in journal[i].bound} = {}
      /\ {i \in Journals : "exec" \in journal'[i].bound} = {j}
  BY <1>1, <1>3
<1>5. /\ [i \in Journals |-> journal'[i].key] = [i \in Journals |-> journal[i].key]
      /\ {i \in Journals : "reservation" \in journal'[i].bound} = {i \in Journals : "reservation" \in journal[i].bound}
      /\ {i \in Journals : journal'[i].stage \in Accounted} = {i \in Journals : journal[i].stage \in Accounted}
      /\ {i \in Journals : journal'[i].cancel \in Decided} = {i \in Journals : journal[i].cancel \in Decided}
      /\ [i \in Journals |-> SaleOf(i)'] = [i \in Journals |-> SaleOf(i)]
      /\ {i \in Journals : order'[i].canceling} = {i \in Journals : order[i].canceling}
  BY <1>1, <1>2
<1>6. Desk!Sit(j)
  BY <1>1, <1>4, <1>5 DEF Desk!Sit, Accounted, Decided
<1>7. j \in {i \in Journals : "reservation" \in journal[i].bound}
  BY <1>1
<1> QED BY <1>6, <1>7 DEF Desk!DeskNext

(* The journey of p reserves its key.                                      *)
LEMMA PutReserves ==
    ASSUME TakeProfitInv, NEW p \in Procs, Busy(p), NEW next \in JournalRecord, NEW step \in Steps,
           Put(p, next, step), order' = order, Free(Mine(p).key),
           NEW j \in Journals, j = proc[p].at,
           next.key = Mine(p).key, next.bound = Mine(p).bound \cup {"reservation"},
           next.stage \in Accounted <=> Mine(p).stage \in Accounted,
           next.cancel \in Decided <=> Mine(p).cancel \in Decided,
           SaleOf(j) = "none"
    PROVE  Desk!DeskNext
<1>1. /\ Mine(p) = journal[j] /\ journal'[j] = next
      /\ \A i \in Journals \ {j} : journal'[i] = journal[i]
  BY PutShape
<1>2. \A i \in Journals : SaleOf(i)' = SaleOf(i)
  BY SaleStays
<1>3. \A i \in Journals : "reservation" \in journal[i].bound => journal[i].key # journal[j].key
  BY <1>1 DEF TakeProfitInv, BackedInv, OwnsReservation, Free
<1>4. {i \in Journals : "reservation" \in journal'[i].bound} =
         {i \in Journals : "reservation" \in journal[i].bound} \cup {j}
  BY <1>1
<1>5. /\ [i \in Journals |-> journal'[i].key] = [i \in Journals |-> journal[i].key]
      /\ {i \in Journals : "exec" \in journal'[i].bound} = {i \in Journals : "exec" \in journal[i].bound}
      /\ {i \in Journals : journal'[i].stage \in Accounted} = {i \in Journals : journal[i].stage \in Accounted}
      /\ {i \in Journals : journal'[i].cancel \in Decided} = {i \in Journals : journal[i].cancel \in Decided}
      /\ [i \in Journals |-> SaleOf(i)'] = [i \in Journals |-> SaleOf(i)]
      /\ {i \in Journals : order'[i].canceling} = {i \in Journals : order[i].canceling}
  BY <1>1, <1>2
<1>6. Desk!Reserve(j)
  BY <1>1, <1>3, <1>4, <1>5 DEF Desk!Reserve, Accounted, Decided
<1> QED BY <1>6 DEF Desk!DeskNext

(* The journey of p, at the desk, records what became of its order or      *)
(* decides to ask for a cancellation.                                      *)
LEMMA PutRecords ==
    ASSUME TakeProfitInv, NEW p \in Procs, Busy(p), NEW next \in JournalRecord, NEW step \in Steps,
           Put(p, next, step), order' = order,
           NEW j \in Journals, j = proc[p].at,
           "exec" \in Mine(p).bound, next.key = Mine(p).key, next.bound = Mine(p).bound,
           next.stage \in Accounted,
           \/ /\ SaleOf(j) \notin {"none", "sent"}
              /\ next.cancel \in Decided <=> Mine(p).cancel \in Decided
           \/ Mine(p).stage \in Accounted /\ next.cancel \in Decided
    PROVE  Desk!DeskNext
<1>1. /\ Mine(p) = journal[j] /\ journal'[j] = next
      /\ \A i \in Journals \ {j} : journal'[i] = journal[i]
  BY PutShape
<1>2. {i \in Journals : "exec" \in journal[i].bound} = {j}
  BY <1>1, OneSeat DEF TakeProfitInv
<1>3. \A i \in Journals : SaleOf(i)' = SaleOf(i)
  BY SaleStays
<1>4. {i \in Journals : journal'[i].stage \in Accounted} = {i \in Journals : journal[i].stage \in Accounted} \cup {j}
  BY <1>1
<1>5. /\ [i \in Journals |-> journal'[i].key] = [i \in Journals |-> journal[i].key]
      /\ {i \in Journals : "reservation" \in journal'[i].bound} = {i \in Journals : "reservation" \in journal[i].bound}
      /\ {i \in Journals : "exec" \in journal'[i].bound} = {i \in Journals : "exec" \in journal[i].bound}
      /\ [i \in Journals |-> SaleOf(i)'] = [i \in Journals |-> SaleOf(i)]
      /\ {i \in Journals : order'[i].canceling} = {i \in Journals : order[i].canceling}
  BY <1>1, <1>3
<1>6. CASE SaleOf(j) \notin {"none", "sent"} /\ (next.cancel \in Decided <=> Mine(p).cancel \in Decided)
  <2>1. {i \in Journals : journal'[i].cancel \in Decided} = {i \in Journals : journal[i].cancel \in Decided}
    BY <1>1, <1>6
  <2>2. Desk!Learn(j)
    BY <1>1, <1>2, <1>4, <1>5, <1>6, <2>1 DEF Desk!Learn, Accounted, Decided
  <2> QED BY <1>2, <2>2 DEF Desk!DeskNext
<1>7. CASE Mine(p).stage \in Accounted /\ next.cancel \in Decided
  <2>1. /\ {i \in Journals : journal'[i].cancel \in Decided} = {i \in Journals : journal[i].cancel \in Decided} \cup {j}
        /\ {i \in Journals : journal'[i].stage \in Accounted} = {i \in Journals : journal[i].stage \in Accounted}
        /\ j \in {i \in Journals : journal[i].stage \in Accounted}
    BY <1>1, <1>7
  <2>2. Desk!Ask(j)
    BY <1>1, <1>2, <1>5, <1>7, <2>1 DEF Desk!Ask, Accounted, Decided
  <2> QED BY <1>2, <2>2 DEF Desk!DeskNext
<1> QED BY <1>6, <1>7

(* The journey of p takes its decision back and leaves.                    *)
LEMMA PutRetracts ==
    ASSUME TakeProfitInv, NEW p \in Procs, Busy(p), NEW next \in JournalRecord, NEW step \in Steps,
           Put(p, next, step), order' = order,
           NEW j \in Journals, j = proc[p].at,
           "exec" \in Mine(p).bound, next.key = Mine(p).key, next.bound = Mine(p).bound \ {"exec"},
           next.stage \in Accounted <=> Mine(p).stage \in Accounted,
           Mine(p).cancel \in Decided, next.cancel \notin Decided,
           order[j].canceling => SaleOf(j) # "resting"
    PROVE  Desk!DeskNext
<1>1. /\ Mine(p) = journal[j] /\ journal'[j] = next
      /\ \A i \in Journals \ {j} : journal'[i] = journal[i]
  BY PutShape
<1>2. {i \in Journals : "exec" \in journal[i].bound} = {j}
  BY <1>1, OneSeat DEF TakeProfitInv
<1>3. \A i \in Journals : SaleOf(i)' = SaleOf(i)
  BY SaleStays
<1>4. /\ {i \in Journals : "exec" \in journal'[i].bound} = {}
      /\ {i \in Journals : journal'[i].cancel \in Decided} = {i \in Journals : journal[i].cancel \in Decided} \ {j}
      /\ j \in {i \in Journals : journal[i].cancel \in Decided}
  BY <1>1, <1>2
<1>5. /\ [i \in Journals |-> journal'[i].key] = [i \in Journals |-> journal[i].key]
      /\ {i \in Journals : "reservation" \in journal'[i].bound} = {i \in Journals : "reservation" \in journal[i].bound}
      /\ {i \in Journals : journal'[i].stage \in Accounted} = {i \in Journals : journal[i].stage \in Accounted}
      /\ [i \in Journals |-> SaleOf(i)'] = [i \in Journals |-> SaleOf(i)]
      /\ {i \in Journals : order'[i].canceling} = {i \in Journals : order[i].canceling}
  BY <1>1, <1>3
<1>6. Desk!Retract(j)
  BY <1>1, <1>2, <1>4, <1>5 DEF Desk!Retract, Accounted, Decided
<1> QED BY <1>2, <1>6 DEF Desk!DeskNext

(* The order of j, alone, changes; every journal looks the same.           *)
LEMMA OrderShape ==
    ASSUME TypeOK, NEW j \in Journals, NEW o, order' = [order EXCEPT ![j] = o],
           \A i \in Journals : SameSeat(journal[i], journal'[i])
    PROVE  /\ order'[j] = o /\ \A i \in Journals \ {j} : order'[i] = order[i] /\ SaleOf(i)' = SaleOf(i)
           /\ [i \in Journals |-> SaleOf(i)'] = [[i \in Journals |-> SaleOf(i)] EXCEPT ![j] = SaleOf(j)']
           /\ [i \in Journals |-> journal'[i].key] = [i \in Journals |-> journal[i].key]
           /\ {i \in Journals : "reservation" \in journal'[i].bound} = {i \in Journals : "reservation" \in journal[i].bound}
           /\ {i \in Journals : "exec" \in journal'[i].bound} = {i \in Journals : "exec" \in journal[i].bound}
           /\ {i \in Journals : journal'[i].stage \in Accounted} = {i \in Journals : journal[i].stage \in Accounted}
           /\ {i \in Journals : journal'[i].cancel \in Decided} = {i \in Journals : journal[i].cancel \in Decided}
           /\ SaleOf(j)' = SaleOf(j) => [i \in Journals |-> SaleOf(i)'] = [i \in Journals |-> SaleOf(i)]
<1>1. order'[j] = o /\ \A i \in Journals \ {j} : order'[i] = order[i]
  BY DEF TypeOK
<1>2. \A i \in Journals \ {j} : SaleOf(i)' = SaleOf(i)
  BY <1>1, SaleStays
<1>3. /\ [i \in Journals |-> SaleOf(i)'] = [[i \in Journals |-> SaleOf(i)] EXCEPT ![j] = SaleOf(j)']
      /\ SaleOf(j)' = SaleOf(j) => [i \in Journals |-> SaleOf(i)'] = [i \in Journals |-> SaleOf(i)]
  BY <1>2
<1> QED BY <1>1, <1>2, <1>3 DEF SameSeat

(* The venue and the chain move an order on.                               *)
LEMMA VenueSeen ==
    ASSUME TakeProfitInv, DeskInv, NEW j \in Journals, Venue(j) \/ Fill(j)
    PROVE  DeskInv' /\ (Unseen \/ Desk!DeskNext)
<1> DEFINE o == order[j]
<1>0. TypeOK /\ o \in VenueOrder /\ o.settled <= o.matched /\ Shares \in Nat
      /\ OrderOk(journal[j], o, payment[j], elapsed[j])
  BY TakeProfitBounds DEF TakeProfitInv, ProcInv, OrderInv, TypeOK, DeskInv, SeatInv, SeatOk
<1>1. ASSUME NEW n, ChangeOrder(j, n), n.settled <= n.matched, o.state # "none" => n.state # "none",
             n.canceling = o.canceling \/ (o.canceling /\ ~n.canceling),
             SaleOf(j)' = SaleOf(j) \/ SaleOf(j)' \in Desk!Follows(SaleOf(j))
      PROVE  DeskInv' /\ (Unseen \/ Desk!DeskNext)
  <2>1. order' = [order EXCEPT ![j] = n] /\ \A i \in Journals : SameSeat(journal[i], journal'[i])
    BY <1>1 DEF ChangeOrder, diskVars, SameSeat
  <2>2. /\ order'[j] = n /\ \A i \in Journals \ {j} : order'[i] = order[i] /\ SaleOf(i)' = SaleOf(i)
        /\ [i \in Journals |-> SaleOf(i)'] = [[i \in Journals |-> SaleOf(i)] EXCEPT ![j] = SaleOf(j)']
        /\ [i \in Journals |-> journal'[i].key] = [i \in Journals |-> journal[i].key]
        /\ {i \in Journals : "reservation" \in journal'[i].bound} = {i \in Journals : "reservation" \in journal[i].bound}
        /\ {i \in Journals : "exec" \in journal'[i].bound} = {i \in Journals : "exec" \in journal[i].bound}
        /\ {i \in Journals : journal'[i].stage \in Accounted} = {i \in Journals : journal[i].stage \in Accounted}
        /\ {i \in Journals : journal'[i].cancel \in Decided} = {i \in Journals : journal[i].cancel \in Decided}
        /\ SaleOf(j)' = SaleOf(j) => [i \in Journals |-> SaleOf(i)'] = [i \in Journals |-> SaleOf(i)]
    BY <1>0, <2>1, OrderShape
  <2>3. DeskInv'
    BY <1>1, OrderKeepsDesk
  <2>4. CASE n.canceling = o.canceling /\ SaleOf(j)' = SaleOf(j)
    BY <2>1, <2>2, <2>3, <2>4 DEF Unseen
  <2>5. /\ n.canceling = o.canceling => {i \in Journals : order'[i].canceling} = {i \in Journals : order[i].canceling}
        /\ o.canceling /\ ~n.canceling =>
              /\ {i \in Journals : order'[i].canceling} = {i \in Journals : order[i].canceling} \ {j}
              /\ j \in {i \in Journals : order[i].canceling}
    BY <2>2
  <2>6. CASE o.canceling /\ ~n.canceling /\ SaleOf(j)' = SaleOf(j)
    <3>1. Desk!Decline(j)
      BY <2>2, <2>5, <2>6 DEF Desk!Decline, Accounted, Decided
    <3> QED BY <2>3, <2>5, <2>6, <3>1 DEF Desk!DeskNext
  <2>7. CASE SaleOf(j)' \in Desk!Follows(SaleOf(j))
    <3>1. \E after \in Desk!Follows([i \in Journals |-> SaleOf(i)][j]) :
             [i \in Journals |-> SaleOf(i)'] = [[i \in Journals |-> SaleOf(i)] EXCEPT ![j] = after]
      BY <2>2, <2>7
    <3>2. Desk!Happen(j)
      BY <1>1, <2>2, <2>5, <3>1 DEF Desk!Happen, Accounted, Decided
    <3> QED BY <2>3, <3>2 DEF Desk!DeskNext
  <2> QED BY <1>1, <2>4, <2>6, <2>7
<1>2. ASSUME NEW n, ChangeOrder(j, n) PROVE order'[j] = n
  BY <1>0, <1>2 DEF ChangeOrder, TypeOK
<1> HIDE DEF o
<1>3. ASSUME NEW n \in VenueOrder, order'[j] = n
      PROVE  /\ SaleOf(j) = IF o.state = "live" THEN "resting" ELSE IF o.state \in {"none", "sent"} THEN o.state
                            ELSE IF o.settled = o.matched THEN "final" ELSE "over"
             /\ SaleOf(j)' = IF n.state = "live" THEN "resting" ELSE IF n.state \in {"none", "sent"} THEN n.state
                             ELSE IF n.settled = n.matched THEN "final" ELSE "over"
  BY <1>3 DEF SaleOf, Finalized, o
<1>4. /\ Desk!Follows("sent") = {"resting", "final"} /\ Desk!Follows("resting") = {"over", "final"}
      /\ Desk!Follows("over") = {"final"}
  BY DEF Desk!Follows
<1>5. CASE AnswerOrder(j)
  <2>1. PICK state \in {"live", "refused"} : ChangeOrder(j, [o EXCEPT !.state = state])
    BY <1>5 DEF AnswerOrder, o
  <2>2. PICK n : n = [o EXCEPT !.state = state]
    OBVIOUS
  <2>3. n \in VenueOrder /\ n.state = state /\ n.settled = o.settled /\ n.matched = o.matched
        /\ n.canceling = o.canceling /\ o.state = "sent" /\ o.matched = 0
    BY <1>0, <1>5, <2>1, <2>2 DEF VenueOrder, AnswerOrder, OrderOk, o
  <2>4. order'[j] = n /\ n.settled = n.matched
    BY <1>0, <1>2, <2>1, <2>2, <2>3 DEF VenueOrder
  <2>5. SaleOf(j)' \in Desk!Follows(SaleOf(j))
    BY <1>3, <1>4, <2>3, <2>4
  <2> QED BY <1>0, <1>1, <2>1, <2>2, <2>3, <2>4, <2>5
<1>6. CASE ExpireOrder(j)
  <2>1. PICK n : n = [o EXCEPT !.state = "expired"]
    OBVIOUS
  <2>2. ChangeOrder(j, n) /\ o.state = "live"
    BY <1>6, <2>1 DEF ExpireOrder, o
  <2>3. n \in VenueOrder /\ n.state = "expired" /\ n.settled = o.settled /\ n.matched = o.matched
        /\ n.canceling = o.canceling
    BY <1>0, <2>1 DEF VenueOrder
  <2>4. SaleOf(j)' \in Desk!Follows(SaleOf(j))
    BY <1>2, <1>3, <1>4, <2>2, <2>3
  <2> QED BY <1>0, <1>1, <2>2, <2>3, <2>4
<1>7. CASE AnswerCancel(j)
  <2>1. PICK state \in {o.state, IF o.state = "live" THEN "canceled" ELSE o.state} :
           ChangeOrder(j, [o EXCEPT !.state = state, !.canceling = FALSE])
    BY <1>7 DEF AnswerCancel, o
  <2>2. PICK n : n = [o EXCEPT !.state = state, !.canceling = FALSE]
    OBVIOUS
  <2>3. n \in VenueOrder /\ n.state = state /\ n.settled = o.settled /\ n.matched = o.matched
        /\ ~n.canceling /\ o.canceling
    BY <1>0, <1>7, <2>1, <2>2 DEF VenueOrder, AnswerCancel, o
  <2>4. SaleOf(j)' = SaleOf(j) \/ SaleOf(j)' \in Desk!Follows(SaleOf(j))
    BY <1>2, <1>3, <1>4, <2>1, <2>2, <2>3
  <2> QED BY <1>0, <1>1, <2>1, <2>2, <2>3, <2>4
<1>8. CASE SettleTrades(j)
  <2>1. PICK n : n = [o EXCEPT !.settled = o.matched]
    OBVIOUS
  <2>2. ChangeOrder(j, n) /\ o.settled < o.matched
    BY <1>8, <2>1 DEF SettleTrades, o
  <2>3. n \in VenueOrder /\ n.state = o.state /\ n.settled = o.matched /\ n.matched = o.matched
        /\ n.canceling = o.canceling
    BY <1>0, <2>1 DEF VenueOrder
  <2>4. o.state \notin {"none", "sent"} /\ n.settled <= n.matched /\ o.settled # o.matched
    BY <1>0, <2>2, <2>3 DEF VenueOrder, OrderOk
  <2>5. SaleOf(j)' = SaleOf(j) \/ SaleOf(j)' \in Desk!Follows(SaleOf(j))
    BY <1>2, <1>3, <1>4, <2>2, <2>3, <2>4
  <2> QED BY <1>0, <1>1, <2>2, <2>3, <2>4, <2>5
<1>9. CASE Fill(j)
  <2>1. PICK n : n = [o EXCEPT !.matched = o.matched + 1,
                               !.state = IF o.matched + 1 = Shares THEN "filled" ELSE "live"]
    OBVIOUS
  <2>2. ChangeOrder(j, n) /\ o.state = "live" /\ o.matched < Shares
    BY <1>0, <1>9, <2>1 DEF Fill, OrderOk, o
  <2>3. n \in VenueOrder /\ n.state \in {"filled", "live"} /\ n.settled = o.settled /\ n.matched = o.matched + 1
        /\ n.canceling = o.canceling
    <3>1. o.matched \in 0..Shares /\ o.matched + 1 \in 0..Shares
      BY <1>0, <2>2 DEF VenueOrder
    <3>2. PICK state \in {"filled", "live"} : n = [o EXCEPT !.matched = o.matched + 1, !.state = state]
      BY <2>1
    <3>3. PICK m : m = o.matched + 1
      OBVIOUS
    <3>4. n = [o EXCEPT !.matched = m, !.state = state] /\ m \in 0..Shares
      BY <3>1, <3>2, <3>3
    <3>5. n \in VenueOrder /\ n.state = state /\ n.settled = o.settled /\ n.matched = m
          /\ n.canceling = o.canceling
      BY <1>0, <3>4 DEF VenueOrder
    <3> QED BY <3>3, <3>5
  <2>4. n.settled <= n.matched /\ n.settled # n.matched
    BY <1>0, <2>3 DEF VenueOrder
  <2>5. SaleOf(j)' = SaleOf(j) \/ SaleOf(j)' \in Desk!Follows(SaleOf(j))
    BY <1>2, <1>3, <1>4, <2>2, <2>3, <2>4
  <2> QED BY <1>0, <1>1, <2>2, <2>3, <2>4, <2>5
<1> QED BY <1>5, <1>6, <1>7, <1>8, <1>9 DEF Venue

-----------------------------------------------------------------------------
(* Every step is one of the desk *)

Seen == DeskInv' /\ (Unseen \/ Desk!DeskNext)

(* What is known of the journey of p, as the desk sees it.                 *)
LEMMA DeskFacts ==
    ASSUME TakeProfitInv, DeskInv, NEW p \in Procs, Busy(p), NEW j, j = proc[p].at
    PROVE  /\ j \in Journals /\ proc[p] \in Process /\ Mine(p) = journal[j] /\ Mine(p) \in JournalRecord
           /\ RecordOk(Mine(p)) /\ OrderOk(Mine(p), order[j], payment[j], elapsed[j])
           /\ SeatOk(Mine(p), order[j])
           /\ Current(p) => StepOk(proc[p].pc, Mine(p)) /\ PromptOk(proc[p].pc, Mine(p), order[j])
           /\ order[j].state = "none" => SaleOf(j) = "none"
           /\ order[j].state = "sent" => SaleOf(j) = "sent"
           /\ order[j].state = "live" => SaleOf(j) = "resting"
           /\ order[j].state \notin {"none", "sent", "live"} =>
                 SaleOf(j) = IF order[j].settled = order[j].matched THEN "final" ELSE "over"
<1>1. j \in Journals /\ ProcInv
  BY MineFacts DEF TakeProfitInv
<1>2. SeatOk(Mine(p), order[j]) /\ (Current(p) => PromptOk(proc[p].pc, Mine(p), order[j]))
  BY <1>1 DEF DeskInv, SeatInv, PromptInv, Mine
<1>3. /\ order[j].state = "none" => SaleOf(j) = "none"
      /\ order[j].state = "sent" => SaleOf(j) = "sent"
      /\ order[j].state = "live" => SaleOf(j) = "resting"
      /\ order[j].state \notin {"none", "sent", "live"} =>
            SaleOf(j) = IF order[j].settled = order[j].matched THEN "final" ELSE "over"
  BY DEF SaleOf, Finalized
<1> QED BY <1>1, <1>2, <1>3, MineFacts

(* p writes its journal, and the desk sees nothing of it.                  *)
LEMMA QuietPut ==
    ASSUME TakeProfitInv, DeskInv, NEW p \in Procs, Busy(p), NEW next \in JournalRecord,
           NEW step \in Steps \ {"prompted", "launched"},
           Put(p, next, step), order' = order, SameSeat(Mine(p), next), SeatOk(next, order[proc[p].at])
    PROVE  Seen
<1>1. DeskInv'
  BY PutKeepsDesk
<1> QED BY <1>1, PutUnseen DEF Seen

(* p moves, and writes nothing.                                            *)
LEMMA QuietMove ==
    ASSUME TakeProfitInv, DeskInv, NEW p \in Procs, UNCHANGED <<journal, order>>,
           \A q \in Procs \ {p} : proc'[q] = proc[q], proc'[p].pc \notin {"launched", "prompted"}
    PROVE  Seen
<1>1. DeskInv'
  BY MoveKeepsDesk
<1>2. Unseen
  BY SaleStays DEF Unseen, SameSeat
<1> QED BY <1>1, <1>2 DEF Seen

LEMMA QuietGoto ==
    ASSUME TakeProfitInv, DeskInv, NEW p \in Procs, Busy(p), UNCHANGED <<journal, order>>,
           NEW step \in Steps \ {"launched", "prompted"}, Goto(p, step)
    PROVE  Seen
<1>1. /\ \A q \in Procs \ {p} : proc'[q] = proc[q]
      /\ step = "idle" => proc'[p] = Idle
      /\ step # "idle" => proc'[p].pc = step
  BY GotoFacts DEF TakeProfitInv, ProcInv
<1>2. proc'[p].pc = step
  BY <1>1 DEF Idle
<1> QED BY <1>1, <1>2, QuietMove

(* p gives the execution lock back.                                        *)
LEMMA RiseSeen ==
    ASSUME TakeProfitInv, DeskInv, NEW p \in Procs, Busy(p), NEW next \in JournalRecord,
           NEW step \in {"idle", "failing"}, Release(p, {"exec"}, next, step), order' = order,
           NEW j, j = proc[p].at,
           next.key = Mine(p).key, next.bound = Mine(p).bound,
           next.stage \in Accounted <=> (Mine(p).stage \in Accounted \/ SaleOf(j) # "none"),
           next.stage \in Accounted \cup {"result"} => order[j].state # "none",
           next.cancel \in Decided <=> Mine(p).cancel \in Decided,
           SaleOf(j) # "sent",
           Mine(p).cancel \in Decided => SaleOf(j) = "final"
    PROVE  Seen
<1>1. j \in Journals /\ Mine(p) = journal[j] /\ SeatOk(Mine(p), order[j])
  BY DeskFacts
<1>2. PICK last : last = Unbound(next, {"exec"})
  OBVIOUS
<1>3. last \in JournalRecord /\ last.bound = Mine(p).bound \ {"exec"} /\ last.stage = next.stage
      /\ last.cancel = next.cancel /\ last.key = Mine(p).key
  BY <1>2, UnboundFacts
<1>4. Put(p, last, step) /\ "exec" \in Mine(p).bound
  BY <1>1, <1>2 DEF Release, Write, OwnsExec
<1>5. SeatOk(last, order[proc[p].at])
  BY <1>1, <1>3 DEF SeatOk
<1>6. DeskInv'
  BY <1>3, <1>4, <1>5, PutKeepsDesk DEF Steps
<1>7. Desk!DeskNext
  BY <1>1, <1>3, <1>4, PutRises DEF Steps
<1> QED BY <1>6, <1>7 DEF Seen

(* p gives back what it reserved for an order that never was.              *)
LEMMA WithdrawSeen ==
    ASSUME TakeProfitInv, DeskInv, NEW p \in Procs, Busy(p), NEW next \in JournalRecord,
           NEW step \in {"idle", "failing"}, NEW fields \in SUBSET {"reservation", "exec"},
           Release(p, fields, next, step), order' = order,
           next.key = Mine(p).key, next.bound = Mine(p).bound, Mine(p).bound \subseteq fields,
           "reservation" \in fields,
           next.stage \in {"withdrawn", "unused", "expired"}, Mine(p).stage \notin Accounted,
           next.cancel = Mine(p).cancel, order[proc[p].at].state = "none"
    PROVE  Seen
<1>0. PICK j : j = proc[p].at
  OBVIOUS
<1>1. j \in Journals /\ Mine(p) = journal[j] /\ SeatOk(Mine(p), order[j]) /\ SaleOf(j) = "none"
  BY <1>0, DeskFacts
<1>2. PICK last : last = Unbound(next, fields)
  OBVIOUS
<1>3. last \in JournalRecord /\ last.bound = {} /\ last.stage = next.stage
      /\ last.cancel = next.cancel /\ last.key = Mine(p).key
  BY <1>2, UnboundFacts
<1>4. Put(p, last, step) /\ "reservation" \in Mine(p).bound
  BY <1>0, <1>1, <1>2 DEF Release, Write, OwnsReservation
<1>5. SeatOk(last, order[proc[p].at]) /\ last.stage \notin Accounted
  BY <1>0, <1>1, <1>3 DEF SeatOk, Accounted, Placed
<1>6. DeskInv'
  BY <1>3, <1>4, <1>5, PutKeepsDesk DEF Steps
<1>7. Desk!DeskNext
  BY <1>0, <1>1, <1>3, <1>4, <1>5, PutWithdraws DEF Steps
<1> QED BY <1>6, <1>7 DEF Seen

(* next is r with another stage, and flags the desk does not look at.      *)
Restaged(r, next, stage) ==
    /\ next \in JournalRecord
    /\ next.key = r.key /\ next.bound = r.bound /\ next.cancel = r.cancel
    /\ next.stage = stage

LEMMA RestagedFacts ==
    ASSUME TakeProfitInv, NEW p \in Procs, Busy(p), NEW stage \in Stages
    PROVE  /\ Restaged(Mine(p), Stage(p, stage), stage)
           /\ \A b \in BOOLEAN : /\ Restaged(Mine(p), [Stage(p, stage) EXCEPT !.needs = b], stage)
                                 /\ Restaged(Mine(p), [Stage(p, stage) EXCEPT !.signed = b], stage)
           /\ \A reply \in LiveReplies :
                 Restaged(Mine(p), [Stage(p, stage) EXCEPT !.reply = reply], stage)
           /\ \A b \in BOOLEAN : Restaged(Mine(p), [Mine(p) EXCEPT !.needs = b], Mine(p).stage)
           /\ Restaged(Mine(p), Mine(p), Mine(p).stage)
<1>1. Mine(p) \in JournalRecord
  BY MineFacts DEF TakeProfitInv
<1>2. PICK s : s = Stage(p, stage)
  OBVIOUS
<1>3. Restaged(Mine(p), s, stage)
  BY <1>1, <1>2 DEF Restaged, Stage, JournalRecord
<1>4. ASSUME NEW b \in BOOLEAN
      PROVE  Restaged(Mine(p), [s EXCEPT !.needs = b], stage) /\ Restaged(Mine(p), [s EXCEPT !.signed = b], stage)
  BY <1>3 DEF Restaged, JournalRecord
<1>5. ASSUME NEW reply \in LiveReplies PROVE Restaged(Mine(p), [s EXCEPT !.reply = reply], stage)
  BY <1>3 DEF Restaged, JournalRecord
<1>6. ASSUME NEW b \in BOOLEAN PROVE Restaged(Mine(p), [Mine(p) EXCEPT !.needs = b], Mine(p).stage)
  BY <1>1 DEF Restaged, JournalRecord
<1>7. Restaged(Mine(p), Mine(p), Mine(p).stage)
  BY <1>1 DEF Restaged
<1> QED BY <1>2, <1>3, <1>4, <1>5, <1>6, <1>7

(* The first status of an order, and the journal's flags, are not seen.    *)
LEMMA PassportFacts ==
    ASSUME TakeProfitInv, NEW p \in Procs, Busy(p), NEW next, next \in {Passport(p), [Passport(p) EXCEPT !.recovery = "pending"]}
    PROVE  \E stage \in Placed : Restaged(Mine(p), next, stage)
<1>1. Mine(p) \in JournalRecord /\ proc[p].saw \in Statuses \cup {None}
  BY MineFacts DEF TakeProfitInv, Process
<1>2. PICK stage \in Placed : stage = IF proc[p].saw = "ARMED" THEN "armed" ELSE "submitted"
  BY DEF Placed
<1>3. PICK s : s = Stage(p, stage)
  OBVIOUS
<1>4. s \in JournalRecord /\ Restaged(Mine(p), s, stage)
  BY <1>1, <1>3 DEF Restaged, Stage, JournalRecord, Stages, Placed
<1>5. PICK t : t = Passport(p)
  OBVIOUS
<1>6. t = [s EXCEPT !.initial = proc[p].saw, !.needs = TRUE]
  BY <1>2, <1>3, <1>5 DEF Passport
<1>7. Restaged(Mine(p), t, stage)
  BY <1>1, <1>4, <1>6 DEF Restaged, JournalRecord
<1>8. Restaged(Mine(p), [t EXCEPT !.recovery = "pending"], stage)
  BY <1>7 DEF Restaged, JournalRecord
<1> QED BY <1>5, <1>7, <1>8

(* p goes on to another stage, and the desk sees nothing of it.            *)
LEMMA RestageSeen ==
    ASSUME TakeProfitInv, DeskInv, NEW p \in Procs, Busy(p), NEW stage, NEW next, Restaged(Mine(p), next, stage),
           NEW step \in Steps \ {"prompted", "launched"}, Put(p, next, step), order' = order,
           stage \in Accounted <=> Mine(p).stage \in Accounted,
           stage \in Unseated => Mine(p).stage \in Unseated \/ "exec" \notin Mine(p).bound,
           stage = "result" => order[proc[p].at].state # "none"
    PROVE  Seen
<1>0. PICK j : j = proc[p].at
  OBVIOUS
<1>1. SeatOk(Mine(p), order[j])
  BY <1>0, DeskFacts
<1>2. SameSeat(Mine(p), next) /\ SeatOk(next, order[j])
  BY <1>1, <1>0 DEF Restaged, SameSeat, SeatOk
<1> QED BY <1>0, <1>2, QuietPut DEF Restaged

(* p records what became of its order.                                     *)
LEMMA LearnSeen ==
    ASSUME TakeProfitInv, DeskInv, NEW p \in Procs, Busy(p), Current(p), Mine(p).stage = "result",
           NEW step \in Steps \ {"prompted", "launched"}, NEW next,
           next \in {Passport(p), [Passport(p) EXCEPT !.recovery = "pending"]},
           Put(p, next, step), order' = order
    PROVE  Seen
<1>0. PICK j : j = proc[p].at
  OBVIOUS
<1>1. /\ j \in Journals /\ SeatOk(Mine(p), order[j]) /\ RecordOk(Mine(p))
      /\ OrderOk(Mine(p), order[j], payment[j], elapsed[j])
      /\ SaleOf(j) \notin {"none", "sent"} <=> order[j].state \notin {"none", "sent"}
  BY <1>0, DeskFacts
<1>2. PICK stage \in Placed : Restaged(Mine(p), next, stage)
  BY PassportFacts
<1>3. "exec" \in Mine(p).bound /\ order[j].state \notin {"none", "sent"}
  BY <1>1 DEF RecordOk, SeatOk, OrderOk
<1>4. stage \in Accounted /\ SeatOk(next, order[j])
  BY <1>1, <1>2, <1>3 DEF Restaged, SeatOk, Accounted, Placed, Unseated
<1>5. DeskInv'
  BY <1>0, <1>2, <1>4, PutKeepsDesk DEF Restaged
<1>6. Desk!DeskNext
  BY <1>0, <1>1, <1>2, <1>3, <1>4, PutRecords DEF Restaged
<1> QED BY <1>5, <1>6 DEF Seen

(* The order is sent: no other rests, and the journey has the lock.        *)
LEMMA LaunchSeen ==
    ASSUME TakeProfitInv, DeskInv, NEW p \in Procs, Launch(p)
    PROVE  Seen
<1>0. PICK j : j = proc[p].at
  OBVIOUS
<1>1. Busy(p) /\ proc[p].pc = "marked" /\ Current(p) /\ Put(p, Mine(p), "launched") /\ TypeOK
  BY DEF Launch, Write, Busy, TakeProfitInv, ProcInv
<1>2. /\ j \in Journals /\ Mine(p) \in JournalRecord /\ Mine(p) = journal[j] /\ Mine(p).stage = "attempted"
      /\ RecordOk(Mine(p)) /\ SeatOk(Mine(p), order[j]) /\ order[j] \in VenueOrder
  BY <1>0, <1>1, DeskFacts DEF StepOk, TypeOK
<1>3. "exec" \in journal[j].bound /\ "reservation" \in journal[j].bound
  BY <1>2 DEF RecordOk
<1>4. order[j].state = "none" /\ \A i \in Journals : order[i].state \notin {"sent", "live"}
  BY <1>0, <1>1 DEF TakeProfitInv, ProcInv, AloneInv
<1>5. PICK o : o = [order[j] EXCEPT !.state = "sent"]
  OBVIOUS
<1>6. order' = [order EXCEPT ![j] = o] /\ o.state = "sent" /\ o.settled = order[j].settled
      /\ o.matched = order[j].matched /\ o.canceling = order[j].canceling
  BY <1>0, <1>2, <1>5 DEF Launch, VenueOrder
<1>7. /\ journal'[j] = Mine(p) /\ \A i \in Journals \ {j} : journal'[i] = journal[i]
  BY <1>0, <1>1, <1>2, PutShape DEF Steps
<1>8. \A i \in Journals : SameSeat(journal[i], journal'[i])
  BY <1>2, <1>7 DEF SameSeat
<1>9. /\ order'[j] = o /\ \A i \in Journals \ {j} : order'[i] = order[i] /\ SaleOf(i)' = SaleOf(i)
      /\ [i \in Journals |-> SaleOf(i)'] = [[i \in Journals |-> SaleOf(i)] EXCEPT ![j] = SaleOf(j)']
      /\ [i \in Journals |-> journal'[i].key] = [i \in Journals |-> journal[i].key]
      /\ {i \in Journals : "reservation" \in journal'[i].bound} = {i \in Journals : "reservation" \in journal[i].bound}
      /\ {i \in Journals : "exec" \in journal'[i].bound} = {i \in Journals : "exec" \in journal[i].bound}
      /\ {i \in Journals : journal'[i].stage \in Accounted} = {i \in Journals : journal[i].stage \in Accounted}
      /\ {i \in Journals : journal'[i].cancel \in Decided} = {i \in Journals : journal[i].cancel \in Decided}
  BY <1>1, <1>2, <1>6, <1>8, OrderShape
<1>10. DeskInv'
  <2>1. \A i \in Journals : /\ order'[i].settled = order[i].settled /\ order'[i].matched = order[i].matched
                            /\ order[i].state # "none" => order'[i].state # "none"
    BY <1>6, <1>9
  <2>2. SeatOk(Mine(p), order'[j])
    BY <1>2, <1>6, <1>9 DEF SeatOk
  <2> QED BY <1>0, <1>1, <1>2, <1>6, <1>9, <2>1, <2>2, PutKeepsDesk DEF Steps
<1>11. \A i \in Journals : SaleOf(i) \notin {"sent", "resting"}
  BY <1>4 DEF SaleOf
<1>12. SaleOf(j) = "none" /\ SaleOf(j)' = "sent"
  BY <1>4, <1>6, <1>9 DEF SaleOf
<1>13. {i \in Journals : "exec" \in journal[i].bound} = {j}
  BY <1>2, <1>3, OneSeat DEF TakeProfitInv
<1>14. {i \in Journals : order'[i].canceling} = {i \in Journals : order[i].canceling}
  BY <1>6, <1>9
<1>15. Desk!Send(j)
  BY <1>2, <1>3, <1>9, <1>11, <1>12, <1>13, <1>14 DEF Desk!Send, Accounted, Decided
<1> QED BY <1>10, <1>13, <1>15 DEF Seen, Desk!DeskNext

LEMMA PlacingSeen ==
    ASSUME TakeProfitInv, DeskInv, NEW p \in Procs, Placing(p)
    PROVE  Seen
<1> PICK j : j = proc[p].at
  OBVIOUS
<1>0. TypeOK /\ HasJourney
  BY DEF TakeProfitInv, ProcInv
<1>1. Busy(p) =>
        /\ j \in Journals /\ proc[p] \in Process /\ Mine(p) = journal[j] /\ Mine(p) \in JournalRecord
        /\ RecordOk(Mine(p)) /\ OrderOk(Mine(p), order[j], payment[j], elapsed[j])
        /\ SeatOk(Mine(p), order[j])
        /\ Current(p) => StepOk(proc[p].pc, Mine(p)) /\ PromptOk(proc[p].pc, Mine(p), order[j])
        /\ order[j].state = "none" => SaleOf(j) = "none"
        /\ order[j].state = "sent" => SaleOf(j) = "sent"
        /\ order[j].state = "live" => SaleOf(j) = "resting"
        /\ order[j].state \notin {"none", "sent", "live"} =>
              SaleOf(j) = IF order[j].settled = order[j].matched THEN "final" ELSE "over"
  BY DeskFacts
<1> USE DEF Busy
<1>2. CASE SendPayment(p) \/ CheckLocked(p) \/ ProgressReservation(p)
  <2>1. PICK step \in {"paid", "checked", "progressed", "idle"} : Goto(p, step)
    BY <1>2 DEF SendPayment, CheckLocked, ProgressReservation
  <2>2. Busy(p) /\ UNCHANGED <<journal, order>>
    BY <1>2 DEF SendPayment, CheckLocked, ProgressReservation, diskVars, worldVars
  <2> QED BY <2>1, <2>2, QuietGoto DEF Steps
<1>3. CASE FetchExactOrder(p)
  <2>1. PICK step \in {"fetched", "refetched"} : Fetch(p, step)
    BY <1>3 DEF FetchExactOrder
  <2>2. Busy(p) /\ UNCHANGED <<journal, order>>
    BY <1>3 DEF FetchExactOrder, diskVars, worldVars
  <2>3. PICK new : new = [proc[p] EXCEPT !.pc = step, !.saw = Classify(proc[p].at)]
    OBVIOUS
  <2>4. new.pc = step /\ step # "idle"
    BY <1>1, <2>2, <2>3 DEF Process
  <2>5. proc' = [proc EXCEPT ![p] = new]
    BY <2>1, <2>3, <2>4 DEF Fetch, Become
  <2>6. (\A q \in Procs \ {p} : proc'[q] = proc[q]) /\ proc'[p].pc = step
    BY <1>0, <2>4, <2>5 DEF TypeOK
  <2> QED BY <2>1, <2>2, <2>6, QuietMove
<1>4. CASE ClaimReservation(p)
  <2>1. PICK s : s = Stage(p, "starting")
    OBVIOUS
  <2>2. PICK next : next = [s EXCEPT !.bound = {"reservation"}, !.needs = TRUE]
    OBVIOUS
  <2>3. Busy(p) /\ Current(p) /\ proc[p].pc = "asked" /\ Put(p, next, "signing") /\ order' = order /\ Free(Mine(p).key)
    BY <1>4, <2>1, <2>2 DEF ClaimReservation, Write, worldVars
  <2>4. Restaged(Mine(p), s, "starting")
    BY <2>1, <2>3, RestagedFacts DEF Stages
  <2>5. next \in JournalRecord /\ next.key = Mine(p).key /\ next.bound = {"reservation"}
        /\ next.stage = "starting" /\ next.cancel = Mine(p).cancel
    BY <2>2, <2>4 DEF Restaged, JournalRecord
  <2>6. Mine(p).stage = "requested" /\ "exec" \notin Mine(p).bound /\ order[j].state = "none"
    BY <1>1, <2>3 DEF StepOk, SeatOk, OrderOk, Placed, Unseated
  <2>7. next.bound = Mine(p).bound \cup {"reservation"}
    BY <1>1, <2>3, <2>5, <2>6 DEF JournalRecord
  <2>8. next.stage \notin Accounted /\ Mine(p).stage \notin Accounted /\ SeatOk(next, order[j])
    BY <1>1, <2>3, <2>5, <2>6 DEF SeatOk, Accounted, Placed
  <2>9. DeskInv'
    BY <2>3, <2>5, <2>8, PutKeepsDesk DEF Steps
  <2>10. Desk!DeskNext
    BY <1>1, <2>3, <2>5, <2>6, <2>7, <2>8, PutReserves DEF Steps
  <2> QED BY <2>9, <2>10 DEF Seen
<1>5. CASE ClaimExec(p)
  <2>1. PICK s : s = Stage(p, "locked")
    OBVIOUS
  <2>2. PICK next : next = [s EXCEPT !.bound = @ \cup {"exec"}, !.gen = claims + 1]
    OBVIOUS
  <2>3. Busy(p) /\ Current(p) /\ Mine(p).stage = "confirmed" /\ Put(p, next, "locked") /\ order' = order /\ exec = None
    BY <1>5, <2>1, <2>2 DEF ClaimExec, Write, worldVars
  <2>4. Restaged(Mine(p), s, "locked")
    BY <2>1, <2>3, RestagedFacts DEF Stages
  <2>5. next \in JournalRecord /\ next.key = Mine(p).key /\ next.bound = Mine(p).bound \cup {"exec"}
        /\ next.stage = "locked" /\ next.cancel = Mine(p).cancel
    <3>1. claims + 1 \in Nat /\ s.bound \cup {"exec"} \in SUBSET {"reservation", "exec"}
      BY <1>0, <2>4 DEF TypeOK, Restaged, JournalRecord
    <3> QED BY <2>2, <2>4, <3>1 DEF Restaged, JournalRecord
  <2>6. order[j].state = "none" /\ "reservation" \in Mine(p).bound
    BY <1>1, <2>3 DEF OrderOk, RecordOk, Placed
  <2>7. next.stage \notin Accounted /\ Mine(p).stage \notin Accounted /\ SeatOk(next, order[j])
    BY <1>1, <2>3, <2>5 DEF SeatOk, Accounted, Placed, Unseated
  <2>8. DeskInv'
    BY <2>3, <2>5, <2>7, PutKeepsDesk DEF Steps
  <2>9. Desk!DeskNext
    BY <1>1, <2>3, <2>5, <2>6, <2>7, PutSits DEF Steps
  <2> QED BY <2>8, <2>9 DEF Seen
<1>6. CASE SignFails(p)
  <2>1. PICK next : next = [Stage(p, "withdrawn") EXCEPT !.needs = FALSE]
    OBVIOUS
  <2>2. Busy(p) /\ proc[p].pc = "signing" /\ Current(p) /\ Release(p, {"reservation"}, next, "failing") /\ order' = order
    BY <1>6, <2>1 DEF SignFails, worldVars
  <2>3. Restaged(Mine(p), next, "withdrawn")
    BY <2>1, <2>2, RestagedFacts DEF Stages
  <2>4. Mine(p).stage = "starting" /\ order[j].state = "none" /\ Mine(p).bound \subseteq {"reservation"}
        /\ Mine(p).stage \notin Accounted
    BY <1>1, <2>2 DEF StepOk, SeatOk, OrderOk, Accounted, Placed, Unseated, JournalRecord
  <2> QED BY <2>2, <2>3, <2>4, WithdrawSeen DEF Restaged
<1>7. CASE SettlePrelaunch(p)
  <2>1. Busy(p) /\ proc[p].pc = "settling" /\ Current(p) /\ Release(p, {"exec"}, Mine(p), "failing") /\ order' = order
    BY <1>7 DEF SettlePrelaunch, Release, Write, worldVars
  <2>2. Mine(p).stage = "blocked" /\ order[j].state = "none" /\ Mine(p).cancel = "none"
    BY <1>1, <2>1 DEF StepOk, RecordOk, OrderOk, Placed
  <2>3. Mine(p).stage \notin Accounted \cup {"result"} /\ Mine(p).cancel \notin Decided
    BY <2>2 DEF Accounted, Placed, Decided
  <2> QED BY <1>1, <2>1, <2>2, <2>3, RiseSeen
<1>8. CASE SettleArmed(p)
  <2>1. PICK next : next = [Mine(p) EXCEPT !.needs = FALSE]
    OBVIOUS
  <2>2. Busy(p) /\ proc[p].pc = "progressed" /\ Current(p) /\ Release(p, {"exec"}, next, "idle") /\ order' = order
    BY <1>8, <2>1 DEF SettleArmed, Release, Write, worldVars
  <2>3. Restaged(Mine(p), next, Mine(p).stage)
    BY <2>1, <2>2, RestagedFacts DEF Stages
  <2>4. Mine(p).stage = "armed" /\ order[j].state \notin {"none", "sent"} /\ Mine(p).cancel = "none"
        /\ Mine(p).stage \in Accounted /\ Mine(p).cancel \notin Decided
    BY <1>1, <2>2 DEF StepOk, SeatOk, OrderOk, Accounted, Placed, Decided
  <2> QED BY <1>1, <2>2, <2>3, <2>4, RiseSeen DEF Restaged
<1>9. CASE GiveUp(p)
  <2>1. Busy(p) /\ FinalCheckpoint(p) /\ order' = order
    BY <1>9 DEF GiveUp, PreSpawn, worldVars
  <2>2. CASE Current(p)
    <3>1. PICK next : next = [Mine(p) EXCEPT !.needs = Mine(p).signed \/ "reservation" \in Mine(p).bound]
      OBVIOUS
    <3>2. Put(p, next, "idle")
      BY <2>1, <2>2, <3>1 DEF FinalCheckpoint, Write
    <3>3. PICK b \in BOOLEAN : b = (Mine(p).signed \/ "reservation" \in Mine(p).bound)
      OBVIOUS
    <3>4. Restaged(Mine(p), next, Mine(p).stage)
      BY <2>1, <3>1, <3>3, RestagedFacts DEF Stages
    <3>5. Mine(p).stage = "result" => order[j].state # "none"
      BY <1>1, <2>1 DEF SeatOk
    <3> QED BY <2>1, <3>2, <3>4, <3>5, RestageSeen DEF Steps
  <2>3. CASE ~Current(p)
    <3>1. Goto(p, "idle") /\ journal' = journal
      BY <2>1, <2>3 DEF FinalCheckpoint
    <3> QED BY <2>1, <3>1, QuietGoto DEF Steps
  <2> QED BY <2>2, <2>3
<1>10. ASSUME Busy(p), Current(p), order' = order, NEW stage \in Stages \ Accounted, NEW next,
              Restaged(Mine(p), next, stage), NEW step \in Steps \ {"prompted", "launched"}, Put(p, next, step),
              Mine(p).stage \notin Accounted,
              stage \in Unseated => Mine(p).stage \in Unseated,
              stage = "result" => order[j].state # "none"
       PROVE  Seen
  BY <1>10, RestageSeen
<1> USE DEF Stages, Steps, Accounted, Placed, Unseated
<1>11. CASE Sign(p)
  <2>1. Busy(p) /\ Current(p) /\ proc[p].pc = "signing" /\ order' = order
        /\ Put(p, [Stage(p, "created") EXCEPT !.signed = TRUE], "signed")
    BY <1>11 DEF Sign, Write, worldVars
  <2>2. Restaged(Mine(p), [Stage(p, "created") EXCEPT !.signed = TRUE], "created")
    BY <2>1, RestagedFacts
  <2>3. Mine(p).stage = "starting"
    BY <1>1, <2>1 DEF StepOk
  <2> QED BY <1>10, <2>1, <2>2, <2>3
<1>12. CASE ReceiveCard(p)
  <2>1. PICK stage \in {"verified", "ambiguous"}, step \in {"ready", "failing"} :
           Write(p, [Stage(p, stage) EXCEPT !.needs = TRUE], step)
    BY <1>12 DEF ReceiveCard
  <2>2. Busy(p) /\ Current(p) /\ proc[p].pc = "paid" /\ order' = order
        /\ Put(p, [Stage(p, stage) EXCEPT !.needs = TRUE], step)
    BY <1>12, <2>1 DEF ReceiveCard, Write, worldVars
  <2>3. Restaged(Mine(p), [Stage(p, stage) EXCEPT !.needs = TRUE], stage)
    BY <2>1, <2>2, RestagedFacts
  <2>4. Mine(p).stage = "created"
    BY <1>1, <2>2 DEF StepOk
  <2> QED BY <1>10, <2>1, <2>2, <2>3, <2>4
<1>13. CASE ConfirmTrade(p)
  <2>1. Busy(p) /\ Current(p) /\ Mine(p).stage = "verified" /\ order' = order /\ Put(p, Stage(p, "confirmed"), "ready")
    BY <1>13 DEF ConfirmTrade, Write, worldVars
  <2>2. Restaged(Mine(p), Stage(p, "confirmed"), "confirmed")
    BY <2>1, RestagedFacts
  <2> QED BY <1>10, <2>1, <2>2
<1>14. CASE MarkAttempted(p)
  <2>1. Busy(p) /\ Current(p) /\ proc[p].pc = "checked" /\ order' = order /\ Put(p, Stage(p, "attempted"), "marked")
    BY <1>14 DEF MarkAttempted, Write, worldVars
  <2>2. Restaged(Mine(p), Stage(p, "attempted"), "attempted")
    BY <2>1, RestagedFacts
  <2>3. Mine(p).stage = "locked"
    BY <1>1, <2>1 DEF StepOk
  <2> QED BY <1>10, <2>1, <2>2, <2>3
<1>15. CASE ClaimRefused(p) \/ PreSpawnFailure(p)
  <2>1. PICK step \in {"failing", "settling"} : Write(p, [Stage(p, "blocked") EXCEPT !.needs = TRUE], step)
    BY <1>15 DEF ClaimRefused, PreSpawnFailure
  <2>2. Busy(p) /\ Current(p) /\ order' = order /\ Put(p, [Stage(p, "blocked") EXCEPT !.needs = TRUE], step)
        /\ proc[p].pc \in {"ready", "locked", "checked", "marked"}
    BY <1>15, <2>1 DEF ClaimRefused, PreSpawnFailure, PreSpawn, Write, worldVars
  <2>3. Restaged(Mine(p), [Stage(p, "blocked") EXCEPT !.needs = TRUE], "blocked")
    BY <2>2, RestagedFacts
  <2>4. Mine(p).stage \in {"verified", "confirmed", "locked", "attempted"}
    BY <1>1, <2>2 DEF StepOk
  <2> QED BY <1>10, <2>1, <2>2, <2>3, <2>4
<1>16. CASE PersistResult(p)
  <2>1. PICK reply \in LiveReplies : Write(p, [Stage(p, "result") EXCEPT !.reply = reply], "returned")
    BY <1>16 DEF PersistResult, LiveReplies
  <2>2. Busy(p) /\ Current(p) /\ order' = order /\ Put(p, [Stage(p, "result") EXCEPT !.reply = reply], "returned")
        /\ proc[p].pc = "launched"
    BY <1>16, <2>1 DEF PersistResult, Write, worldVars
  <2>3. Restaged(Mine(p), [Stage(p, "result") EXCEPT !.reply = reply], "result")
    BY <2>2, RestagedFacts
  <2>4. Mine(p).stage = "attempted" /\ order[j].state # "none"
    BY <1>1, <2>2 DEF StepOk, PromptOk
  <2> QED BY <1>10, <2>1, <2>2, <2>3, <2>4
<1>17. CASE PersistPassport(p)
  <2>1. Busy(p) /\ Current(p) /\ proc[p].pc = "fetched" /\ order' = order /\ Put(p, Passport(p), "passported")
    BY <1>17 DEF PersistPassport, Write, worldVars
  <2>2. Mine(p).stage = "result"
    BY <1>1, <2>1 DEF StepOk
  <2> QED BY <2>1, <2>2, LearnSeen
<1> QED BY <1>2, <1>3, <1>4, <1>5, <1>6, <1>7, <1>8, <1>9, <1>11, <1>12, <1>13, <1>14, <1>15, <1>16, <1>17, LaunchSeen
        DEF Placing

(* A lookup changes what p remembers, and nothing else.                    *)
LEMMA ObserveSeen ==
    ASSUME TakeProfitInv, DeskInv, NEW p \in Procs, Busy(p), UNCHANGED <<journal, order>>,
           NEW step \in Steps \ {"idle", "launched", "prompted"}, Observe(p, step)
    PROVE  Seen
<1>1. PICK status \in {Classify(proc[p].at), "UNKNOWN"} : Become(p, [proc[p] EXCEPT !.pc = step, !.saw = status])
  BY DEF Observe
<1>2. PICK new : new = [proc[p] EXCEPT !.pc = step, !.saw = status]
  OBVIOUS
<1>3. new.pc = step
  BY <1>2, MineFacts DEF TakeProfitInv, Process
<1>4. proc' = [proc EXCEPT ![p] = new]
  BY <1>1, <1>2, <1>3 DEF Become
<1>5. (\A q \in Procs \ {p} : proc'[q] = proc[q]) /\ proc'[p].pc = step
  BY <1>3, <1>4 DEF TakeProfitInv, ProcInv, TypeOK
<1> QED BY <1>5, QuietMove

(* The phase of a cancellation and its flag.                               *)
LEMMA CancelEndsFacts ==
    ASSUME TakeProfitInv, NEW p \in Procs, Busy(p), NEW phase \in Phases
    PROVE  /\ CancelEnds(p, phase) \in JournalRecord
           /\ CancelEnds(p, phase).cancel = phase
           /\ CancelEnds(p, phase).key = Mine(p).key /\ CancelEnds(p, phase).bound = Mine(p).bound
           /\ CancelEnds(p, phase).stage = Mine(p).stage
<1>1. Mine(p) \in JournalRecord
  BY MineFacts DEF TakeProfitInv
<1> QED BY <1>1 DEF CancelEnds, JournalRecord

(* Who has seen the order over, and its trades final, may leave.           *)
LEMMA ResolvedFacts ==
    ASSUME TakeProfitInv, DeskInv, NEW p \in Procs, Busy(p), Resolved(p), NEW j, j = proc[p].at
    PROVE  SaleOf(j) = "final" /\ order[j].state \in {"canceled", "expired", "filled"}
<1>1. order[j].state \in {"canceled", "expired", "filled"} /\ Finalized(j)
  BY DEF Resolved, TakeProfitInv, ProcInv, SawInv
<1> QED BY <1>1, DeskFacts DEF Finalized

(* The request leaves for the venue.                                       *)
LEMMA LaunchCancelSeen ==
    ASSUME TakeProfitInv, DeskInv, NEW p \in Procs, LaunchCancel(p)
    PROVE  Seen
<1>0. PICK j : j = proc[p].at
  OBVIOUS
<1>1. Busy(p) /\ proc[p].pc = "cancelMarked" /\ Current(p) /\ Put(p, Mine(p), "canceling") /\ TypeOK
  BY DEF LaunchCancel, Write, Busy, TakeProfitInv, ProcInv
<1>2. /\ j \in Journals /\ Mine(p) \in JournalRecord /\ Mine(p) = journal[j]
      /\ RecordOk(Mine(p)) /\ SeatOk(Mine(p), order[j]) /\ order[j] \in VenueOrder
      /\ Mine(p).cancel = "attempted"
  BY <1>0, <1>1, DeskFacts DEF StepOk, CancelSteps, TypeOK
<1>3. "exec" \in journal[j].bound
  BY <1>2 DEF RecordOk, Active
<1>5. PICK o : o = [order[j] EXCEPT !.canceling = TRUE]
  OBVIOUS
<1>6. order' = [order EXCEPT ![j] = o] /\ o.state = order[j].state /\ o.settled = order[j].settled
      /\ o.matched = order[j].matched /\ o.canceling
  BY <1>0, <1>2, <1>5 DEF LaunchCancel, VenueOrder
<1>7. journal'[j] = Mine(p) /\ \A i \in Journals \ {j} : journal'[i] = journal[i]
  BY <1>0, <1>1, <1>2, PutShape DEF Steps
<1>8. \A i \in Journals : SameSeat(journal[i], journal'[i])
  BY <1>2, <1>7 DEF SameSeat
<1>9. /\ order'[j] = o /\ \A i \in Journals \ {j} : order'[i] = order[i] /\ SaleOf(i)' = SaleOf(i)
      /\ [i \in Journals |-> journal'[i].key] = [i \in Journals |-> journal[i].key]
      /\ {i \in Journals : "reservation" \in journal'[i].bound} = {i \in Journals : "reservation" \in journal[i].bound}
      /\ {i \in Journals : "exec" \in journal'[i].bound} = {i \in Journals : "exec" \in journal[i].bound}
      /\ {i \in Journals : journal'[i].stage \in Accounted} = {i \in Journals : journal[i].stage \in Accounted}
      /\ {i \in Journals : journal'[i].cancel \in Decided} = {i \in Journals : journal[i].cancel \in Decided}
      /\ SaleOf(j)' = SaleOf(j) => [i \in Journals |-> SaleOf(i)'] = [i \in Journals |-> SaleOf(i)]
  BY <1>1, <1>2, <1>6, <1>8, OrderShape
<1>10. DeskInv'
  <2>1. \A i \in Journals : /\ order'[i].settled = order[i].settled /\ order'[i].matched = order[i].matched
                            /\ order[i].state # "none" => order'[i].state # "none"
    BY <1>6, <1>9
  <2>2. SeatOk(Mine(p), order'[j])
    BY <1>2, <1>6, <1>9 DEF SeatOk
  <2> QED BY <1>0, <1>1, <1>2, <2>1, <2>2, PutKeepsDesk DEF Steps
<1>11. SaleOf(j)' = SaleOf(j)
  BY <1>6, <1>9 DEF SaleOf, Finalized
<1>12. {i \in Journals : "exec" \in journal[i].bound} = {j}
  BY <1>2, <1>3, OneSeat DEF TakeProfitInv
<1>13. {i \in Journals : order'[i].canceling} = {i \in Journals : order[i].canceling} \cup {j}
  BY <1>2, <1>6, <1>9
<1>14. j \in {i \in Journals : journal[i].cancel \in Decided}
  BY <1>2 DEF Decided
<1>15. Desk!Request(j)
  BY <1>9, <1>11, <1>12, <1>13, <1>14 DEF Desk!Request, Accounted, Decided
<1> QED BY <1>10, <1>12, <1>15 DEF Seen, Desk!DeskNext

(* A cancellation ends unrequested, or with nothing left to cancel.        *)
LEMMA CancelFailsSeen ==
    ASSUME TakeProfitInv, DeskInv, NEW p \in Procs, CancelFails(p)
    PROVE  Seen
<1>0. PICK j : j = proc[p].at
  OBVIOUS
<1>1. Busy(p) /\ order' = order
  BY DEF CancelFails, CancelUnstarted, Busy, worldVars
<1>2. /\ j \in Journals /\ Mine(p) = journal[j] /\ Mine(p) \in JournalRecord
      /\ RecordOk(Mine(p)) /\ OrderOk(Mine(p), order[j], payment[j], elapsed[j]) /\ SeatOk(Mine(p), order[j])
      /\ order[j].state = "live" => SaleOf(j) = "resting"
      /\ order[j].state = "none" <=> SaleOf(j) = "none"
      /\ order[j].state = "sent" <=> SaleOf(j) = "sent"
      /\ order[j].state \notin {"none", "sent", "live"} => SaleOf(j) \in {"final", "over"}
  BY <1>0, <1>1, DeskFacts
<1>3. CASE ~LocallyOwned(p)
  <2>1. Goto(p, "idle") /\ UNCHANGED <<journal, order>>
    BY <1>1, <1>3 DEF CancelFails, diskVars
  <2> QED BY <1>1, <2>1, QuietGoto DEF Steps
<1>4. CASE LocallyOwned(p) /\ proc[p].pc \in CancelUnstarted
  <2>1. /\ Mine(p).cancel \in Active /\ "exec" \in Mine(p).bound /\ Mine(p).gen = proc[p].gen
        /\ Mine(p).stage \in Placed
    BY <1>2, <1>4 DEF LocallyOwned, Active, RecordOk
  <2>2. PICK ends : ends = CancelEnds(p, "pre_spawn_failed")
    OBVIOUS
  <2>3. ends \in JournalRecord /\ ends.cancel = "pre_spawn_failed" /\ ends.key = Mine(p).key
        /\ ends.bound = Mine(p).bound /\ ends.stage = Mine(p).stage
    BY <1>1, <2>2, CancelEndsFacts DEF Phases
  <2>4. PICK last : last = Unbound(ends, {"exec"})
    OBVIOUS
  <2>5. last \in JournalRecord /\ last.bound = Mine(p).bound \ {"exec"} /\ last.stage = Mine(p).stage
        /\ last.cancel = "pre_spawn_failed" /\ last.key = Mine(p).key
    BY <2>3, <2>4, UnboundFacts
  <2>6. Put(p, last, "idle")
    BY <1>4, <2>2, <2>4 DEF CancelFails
  <2>7. SeatOk(last, order[j])
    BY <1>2, <2>5 DEF SeatOk
  <2>8. DeskInv'
    BY <1>0, <1>1, <2>5, <2>6, <2>7, PutKeepsDesk DEF Steps
  <2>9. order[j].state \notin {"none", "sent"} /\ Mine(p).stage \in Accounted /\ last.cancel \notin Decided
    BY <1>2, <2>1, <2>5 DEF SeatOk, OrderOk, Accounted, Placed, Decided
  <2>10. CASE Mine(p).cancel = "attempted"
    <3>1. ~Canceled(order[j])
      BY <1>0, <1>4, <2>1 DEF TakeProfitInv, ProcInv, UnsentInv
    <3>2. order[j].canceling => SaleOf(j) # "resting"
      BY <1>2, <3>1 DEF Canceled, Open, SaleOf
    <3>3. Mine(p).cancel \in Decided
      BY <2>10 DEF Decided
    <3> QED BY <1>0, <1>1, <1>2, <2>1, <2>5, <2>6, <2>8, <2>9, <3>2, <3>3, PutRetracts DEF Seen, Steps
  <2>11. CASE Mine(p).cancel = "lock_acquired"
    <3>1. Mine(p).cancel \notin Decided
      BY <2>11 DEF Decided
    <3> QED BY <1>0, <1>1, <1>2, <2>1, <2>5, <2>6, <2>8, <2>9, <3>1, PutRises DEF Seen, Steps
  <2> QED BY <2>1, <2>10, <2>11 DEF Active
<1>5. CASE LocallyOwned(p) /\ proc[p].pc \notin CancelUnstarted
  <2>1. PICK next : next = [Mine(p) EXCEPT !.needs = TRUE]
    OBVIOUS
  <2>2. Put(p, next, "idle")
    BY <1>5, <2>1 DEF CancelFails
  <2>3. Restaged(Mine(p), next, Mine(p).stage)
    BY <1>1, <2>1, RestagedFacts DEF Stages
  <2>4. Mine(p).stage = "result" => order[j].state # "none"
    BY <1>2 DEF SeatOk
  <2> QED BY <1>0, <1>1, <2>2, <2>3, <2>4, RestageSeen DEF Steps
<1> QED BY <1>3, <1>4, <1>5

LEMMA CancelingSeen ==
    ASSUME TakeProfitInv, DeskInv, NEW p \in Procs, Canceling(p)
    PROVE  Seen
<1> PICK j : j = proc[p].at
  OBVIOUS
<1>0. TypeOK /\ HasJourney
  BY DEF TakeProfitInv, ProcInv
<1>1. Busy(p) =>
        /\ j \in Journals /\ proc[p] \in Process /\ Mine(p) = journal[j] /\ Mine(p) \in JournalRecord
        /\ RecordOk(Mine(p)) /\ OrderOk(Mine(p), order[j], payment[j], elapsed[j])
        /\ SeatOk(Mine(p), order[j])
        /\ Current(p) => StepOk(proc[p].pc, Mine(p)) /\ PromptOk(proc[p].pc, Mine(p), order[j])
        /\ order[j].state = "none" => SaleOf(j) = "none"
  BY DeskFacts
<1> USE DEF Busy
<1>2. CASE ClaimCancel(p)
  <2>1. PICK next : next = [Mine(p) EXCEPT !.cancel = "lock_acquired", !.needs = TRUE,
                                           !.bound = @ \cup {"exec"}, !.gen = claims + 1]
    OBVIOUS
  <2>2. /\ Busy(p) /\ Current(p) /\ proc[p].pc = "prompted" /\ Put(p, next, "claimed") /\ order' = order
        /\ exec = None /\ "exec" \notin Mine(p).bound
    BY <1>2, <2>1 DEF ClaimCancel, Claimable, Write
  <2>3. next \in JournalRecord /\ next.key = Mine(p).key /\ next.bound = Mine(p).bound \cup {"exec"}
        /\ next.stage = Mine(p).stage /\ next.cancel = "lock_acquired"
    <3>1. claims + 1 \in Nat /\ Mine(p).bound \cup {"exec"} \in SUBSET {"reservation", "exec"}
      BY <1>0, <1>1, <2>2 DEF TypeOK, JournalRecord
    <3> QED BY <1>1, <2>1, <2>2, <3>1 DEF JournalRecord, Phases, Active
  <2>4. Mine(p).stage \in Placed /\ "reservation" \in Mine(p).bound /\ Mine(p).cancel \notin {"attempted", "terminal"}
    BY <1>1, <2>2 DEF StepOk, PromptOk, RecordOk, Active, Placed
  <2>5. SeatOk(next, order[j]) /\ Mine(p).stage \in Accounted
    BY <1>1, <2>2, <2>3, <2>4 DEF SeatOk, Accounted, Placed, Unseated
  <2>6. DeskInv'
    BY <2>2, <2>3, <2>5, PutKeepsDesk DEF Steps
  <2>7. Desk!DeskNext
    BY <1>1, <2>2, <2>3, <2>4, <2>5, PutSits DEF Steps, Decided
  <2> QED BY <2>6, <2>7 DEF Seen
<1>3. CASE MarkCancelAttempted(p)
  <2>1. PICK next : next = [Mine(p) EXCEPT !.cancel = "attempted"]
    OBVIOUS
  <2>2. Busy(p) /\ Current(p) /\ proc[p].pc = "claimed" /\ Put(p, next, "cancelMarked") /\ order' = order
    BY <1>3, <2>1 DEF MarkCancelAttempted, Write, worldVars
  <2>3. next \in JournalRecord /\ next.key = Mine(p).key /\ next.bound = Mine(p).bound
        /\ next.stage = Mine(p).stage /\ next.cancel = "attempted"
    BY <1>1, <2>1, <2>2 DEF JournalRecord, Phases, Active
  <2>4. Mine(p).stage \in Accounted /\ "exec" \in Mine(p).bound
    BY <1>1, <2>2 DEF StepOk, RecordOk, Active, CancelSteps, Accounted
  <2>5. SeatOk(next, order[j]) /\ next.cancel \in Decided
    BY <1>1, <2>2, <2>3 DEF SeatOk, Decided
  <2>6. DeskInv'
    BY <2>2, <2>3, <2>5, PutKeepsDesk DEF Steps
  <2>7. Desk!DeskNext
    BY <1>1, <2>2, <2>3, <2>4, <2>5, PutRecords DEF Steps
  <2> QED BY <2>6, <2>7 DEF Seen
<1>4. CASE PersistCancelResult(p) \/ RecordOutcome(p)
  <2>1. PICK next, step : /\ next \in {Mine(p), [Mine(p) EXCEPT !.needs = TRUE]} /\ step \in {"canceled", "outcome"}
                          /\ Write(p, next, step)
    BY <1>4 DEF PersistCancelResult, RecordOutcome
  <2>2. Busy(p) /\ Put(p, next, step) /\ order' = order
    BY <1>4, <2>1 DEF PersistCancelResult, RecordOutcome, Write, worldVars
  <2>3. Restaged(Mine(p), next, Mine(p).stage)
    BY <2>1, <2>2, RestagedFacts DEF Stages
  <2>4. Mine(p).stage = "result" => order[j].state # "none"
    BY <1>1, <2>2 DEF SeatOk
  <2> QED BY <2>1, <2>2, <2>3, <2>4, RestageSeen DEF Steps
<1>5. CASE FetchAfterCancel(p)
  <2>1. Busy(p) /\ Observe(p, "judged") /\ UNCHANGED <<journal, order>>
    BY <1>5 DEF FetchAfterCancel, diskVars, worldVars
  <2> QED BY <2>1, ObserveSeen DEF Steps
<1>6. CASE SettleCancel(p)
  <2>1. Busy(p) /\ proc[p].pc = "outcome" /\ order' = order
    BY <1>6 DEF SettleCancel, worldVars
  <2>2. CASE ~Resolved(p)
    <3>1. Goto(p, "idle") /\ journal' = journal
      BY <1>6, <2>2 DEF SettleCancel, diskVars
    <3> QED BY <2>1, <3>1, QuietGoto DEF Steps
  <2>3. CASE Resolved(p)
    <3>1. PICK next : next = CancelEnds(p, "terminal")
      OBVIOUS
    <3>2. Release(p, {"exec"}, next, "idle") /\ Current(p)
      BY <1>6, <2>3, <3>1 DEF SettleCancel, Release, Write
    <3>3. next \in JournalRecord /\ next.cancel = "terminal" /\ next.key = Mine(p).key
          /\ next.bound = Mine(p).bound /\ next.stage = Mine(p).stage
      BY <2>1, <3>1, CancelEndsFacts DEF Phases
    <3>4. Mine(p).cancel = "attempted" /\ Mine(p).stage \in Accounted
      BY <1>1, <2>1, <3>2 DEF StepOk, CancelSteps, Accounted
    <3>5. SaleOf(j) = "final" /\ order[j].state # "none"
      BY <2>1, <2>3, ResolvedFacts
    <3> QED BY <2>1, <3>2, <3>3, <3>4, <3>5, RiseSeen DEF Decided
  <2> QED BY <2>2, <2>3
<1> QED BY <1>2, <1>3, <1>4, <1>5, <1>6, LaunchCancelSeen, CancelFailsSeen DEF Canceling

LEMMA ReconcilingSeen ==
    ASSUME TakeProfitInv, DeskInv, NEW p \in Procs, Reconciling(p)
    PROVE  Seen
<1> PICK j : j = proc[p].at
  OBVIOUS
<1>0. TypeOK /\ HasJourney
  BY DEF TakeProfitInv, ProcInv
<1>1. Busy(p) =>
        /\ j \in Journals /\ proc[p] \in Process /\ Mine(p) = journal[j] /\ Mine(p) \in JournalRecord
        /\ RecordOk(Mine(p)) /\ OrderOk(Mine(p), order[j], payment[j], elapsed[j])
        /\ SeatOk(Mine(p), order[j])
        /\ Current(p) => StepOk(proc[p].pc, Mine(p)) /\ PromptOk(proc[p].pc, Mine(p), order[j])
        /\ order[j].state = "none" => SaleOf(j) = "none"
        /\ order[j].state = "sent" => SaleOf(j) = "sent"
        /\ order[j].state = "live" => SaleOf(j) = "resting"
        /\ order[j].state \notin {"none", "sent", "live"} =>
              SaleOf(j) = IF order[j].settled = order[j].matched THEN "final" ELSE "over"
  BY DeskFacts
<1> USE DEF Busy
<1>2. CASE Sweep(p) \/ TrackRecovered(p)
  <2>1. PICK step \in {"swept", "known"} : Goto(p, step)
    BY <1>2 DEF Sweep, TrackRecovered
  <2>2. Busy(p) /\ UNCHANGED <<journal, order>>
    BY <1>2 DEF Sweep, TrackRecovered, worldVars
  <2> QED BY <2>1, <2>2, QuietGoto DEF Steps
<1>3. CASE Track(p)
  <2>1. Busy(p) /\ Observe(p, "known") /\ UNCHANGED <<journal, order>>
    BY <1>3 DEF Track, worldVars
  <2> QED BY <2>1, ObserveSeen DEF Steps
<1>4. CASE ReconcileRejected(p)
  <2>1. PICK next : next = [Stage(p, "rejected") EXCEPT !.needs = FALSE]
    OBVIOUS
  <2>2. Busy(p) /\ Release(p, {"exec"}, next, "idle") /\ DefinitivelyRejected(j) /\ order' = order
    BY <1>4, <2>1 DEF ReconcileRejected, worldVars
  <2>3. Restaged(Mine(p), next, "rejected")
    BY <2>1, <2>2, RestagedFacts DEF Stages
  <2>4. Mine(p).stage = "result" /\ Mine(p).cancel = "none" /\ order[j].state = "refused"
    BY <1>1, <2>2 DEF DefinitivelyRejected, RecordOk, OrderOk, Placed
  <2>5. order[j].settled = order[j].matched
    BY <1>0, <1>1, <2>2, <2>4, TakeProfitBounds DEF OrderOk, SeatOk, TypeOK, VenueOrder
  <2>6. SaleOf(j) = "final"
    BY <1>1, <2>2, <2>4, <2>5
  <2>7. next.stage \in Accounted /\ next.cancel \notin Decided /\ Mine(p).cancel \notin Decided
    BY <2>3, <2>4 DEF Restaged, Accounted, Decided
  <2> QED BY <2>2, <2>3, <2>4, <2>6, <2>7, RiseSeen DEF Restaged
<1>5. CASE ReconcileAuthorization(p)
  <2>1. PICK next : next = [Stage(p, "unused") EXCEPT !.needs = FALSE]
    OBVIOUS
  <2>2. Busy(p) /\ Release(p, {"reservation"}, next, "idle") /\ Mine(p).stage \in AuthorizationStages /\ order' = order
    BY <1>5, <2>1 DEF ReconcileAuthorization, worldVars
  <2>3. Restaged(Mine(p), next, "unused")
    BY <2>1, <2>2, RestagedFacts DEF Stages
  <2>4. order[j].state = "none" /\ Mine(p).bound \subseteq {"reservation"} /\ Mine(p).stage \notin Accounted
    BY <1>1, <2>2 DEF AuthorizationStages, SeatOk, OrderOk, Accounted, Placed, Unseated, JournalRecord
  <2> QED BY <2>2, <2>3, <2>4, WithdrawSeen DEF Restaged
<1>6. CASE ReconcileUnstarted(p)
  <2>1. PICK next : next = [Stage(p, "expired") EXCEPT !.needs = FALSE]
    OBVIOUS
  <2>2. Busy(p) /\ Release(p, Mine(p).bound, next, "idle") /\ Mine(p).stage \in Unstarted /\ order' = order
    BY <1>6, <2>1 DEF ReconcileUnstarted, LooksUnstarted, worldVars
  <2>3. Restaged(Mine(p), next, "expired")
    BY <2>1, <2>2, RestagedFacts DEF Stages
  <2>4. order[j].state = "none" /\ "reservation" \in Mine(p).bound /\ Mine(p).stage \notin Accounted
        /\ Mine(p).bound \in SUBSET {"reservation", "exec"}
    BY <1>1, <2>2 DEF Unstarted, RecordOk, OrderOk, Accounted, Placed, JournalRecord
  <2> QED BY <2>2, <2>3, <2>4, WithdrawSeen DEF Restaged
<1>7. CASE RecoverPassport(p)
  <2>1. Busy(p) /\ Current(p) /\ proc[p].pc = "refetched" /\ order' = order
        /\ Put(p, [Passport(p) EXCEPT !.recovery = "pending"], "recovered")
    BY <1>7 DEF RecoverPassport, Write, worldVars
  <2>2. Mine(p).stage = "result"
    BY <1>1, <2>1 DEF StepOk
  <2> QED BY <2>1, <2>2, LearnSeen DEF Steps
<1>8. ASSUME Busy(p), Mine(p).stage \in Placed
      PROVE  Mine(p).stage \in Accounted /\ order[j].state # "none" /\ SaleOf(j) # "sent" /\ SaleOf(j) # "none"
  BY <1>1, <1>8 DEF Accounted, Placed, SeatOk, OrderOk
<1>9. CASE ReconcileCancel(p)
  <2>1. PICK next : next = CancelEnds(p, "expired_unattempted")
    OBVIOUS
  <2>2. /\ Busy(p) /\ Release(p, {"exec"}, next, "idle") /\ Mine(p).stage \in Placed
        /\ Mine(p).cancel = "lock_acquired" /\ order' = order
    BY <1>9, <2>1 DEF ReconcileCancel, worldVars
  <2>3. next \in JournalRecord /\ next.cancel = "expired_unattempted" /\ next.key = Mine(p).key
        /\ next.bound = Mine(p).bound /\ next.stage = Mine(p).stage
    BY <2>1, <2>2, CancelEndsFacts DEF Phases
  <2> QED BY <1>8, <2>2, <2>3, RiseSeen DEF Decided
<1>10. CASE SettleRecovered(p)
  <2>1. PICK next : next = [Mine(p) EXCEPT !.needs = FALSE, !.recovery = "released"]
    OBVIOUS
  <2>2. /\ Busy(p) /\ Current(p) /\ proc[p].pc = "known" /\ Release(p, {"exec"}, next, "idle")
        /\ Mine(p).cancel = "none" /\ order' = order
    BY <1>10, <2>1 DEF SettleRecovered, Release, Write, worldVars
  <2>3. next \in JournalRecord /\ next.cancel = Mine(p).cancel /\ next.key = Mine(p).key
        /\ next.bound = Mine(p).bound /\ next.stage = Mine(p).stage
    BY <1>1, <2>1, <2>2 DEF JournalRecord
  <2>4. Mine(p).stage \in Placed
    BY <1>1, <2>2 DEF StepOk
  <2> QED BY <1>8, <2>2, <2>3, <2>4, RiseSeen DEF Decided
<1>11. CASE SettleResolved(p)
  <2>1. PICK phase : phase = IF Mine(p).cancel = "attempted" THEN "terminal" ELSE Mine(p).cancel
    OBVIOUS
  <2>2. PICK next : next = CancelEnds(p, phase)
    OBVIOUS
  <2>3. /\ Busy(p) /\ Current(p) /\ proc[p].pc = "known" /\ Resolved(p) /\ Release(p, {"exec"}, next, "idle")
        /\ order' = order
    BY <1>11, <2>1, <2>2 DEF SettleResolved, Release, Write, worldVars
  <2>4. phase \in Phases /\ (phase \in Decided <=> Mine(p).cancel \in Decided)
    BY <1>1, <2>1, <2>3 DEF JournalRecord, Phases, Active, Decided
  <2>5. next \in JournalRecord /\ next.cancel = phase /\ next.key = Mine(p).key
        /\ next.bound = Mine(p).bound /\ next.stage = Mine(p).stage
    BY <2>2, <2>3, <2>4, CancelEndsFacts
  <2>6. Mine(p).stage \in Placed
    BY <1>1, <2>3 DEF StepOk
  <2>7. SaleOf(j) = "final"
    BY <2>3, ResolvedFacts
  <2> QED BY <1>8, <2>3, <2>4, <2>5, <2>6, <2>7, RiseSeen
<1> QED BY <1>2, <1>3, <1>4, <1>5, <1>6, <1>7, <1>9, <1>10, <1>11 DEF Reconciling

(* A command begins.                                                       *)
LEMMA BeginSeen ==
    ASSUME TakeProfitInv, DeskInv, NEW p \in Procs, NEW j \in Journals,
           Start(p, j) \/ PromptCancel(p, j) \/ Reconcile(p, j)
    PROVE  Seen
<1>0. TypeOK /\ HasJourney
  BY DEF TakeProfitInv, ProcInv
<1>1. CASE Reconcile(p, j)
  <2>1. PICK new : new = [Idle EXCEPT !.pc = "judging", !.at = j, !.current = TRUE]
    OBVIOUS
  <2>2. new.pc = "judging" /\ proc' = [proc EXCEPT ![p] = new] /\ UNCHANGED <<journal, order>>
    BY <1>1, <2>1 DEF Reconcile, Become, Idle, diskVars, worldVars
  <2>3. (\A q \in Procs \ {p} : proc'[q] = proc[q]) /\ proc'[p].pc = "judging"
    BY <1>0, <2>2 DEF TypeOK
  <2> QED BY <2>2, <2>3, QuietMove
<1>2. CASE PromptCancel(p, j)
  <2>1. PICK new : new = [Idle EXCEPT !.pc = "prompted", !.at = j, !.current = TRUE]
    OBVIOUS
  <2>2. new.pc = "prompted" /\ new.at = j /\ proc' = [proc EXCEPT ![p] = new] /\ UNCHANGED <<journal, order>>
    BY <1>2, <2>1 DEF PromptCancel, Become, Idle, diskVars, worldVars
  <2>3. (\A q \in Procs \ {p} : proc'[q] = proc[q]) /\ proc'[p].pc = "prompted" /\ proc'[p].at = j
    BY <1>0, <2>2 DEF TypeOK
  <2>4. journal[j].cancel # "terminal"
    BY <1>2 DEF PromptCancel, Resting, TakeProfitInv, ProcInv, OrderInv, OrderOk
  <2>5. ASSUME NEW q \in Procs, Busy(q)', Current(q)'
        PROVE  PromptOk(proc[q].pc, Mine(q), order[proc[q].at])'
    <3>1. CASE q = p
      BY <2>2, <2>3, <2>4, <3>1 DEF PromptOk, Mine
    <3>2. CASE q # p
      BY <2>2, <2>3, <2>5, <3>2 DEF DeskInv, PromptInv, PromptOk, Busy, Current, Mine
    <3> QED BY <3>1, <3>2
  <2>6. DeskInv'
    BY <2>2, <2>5 DEF DeskInv, SeatInv, PromptInv
  <2>7. Unseen
    BY <2>2, SaleStays DEF Unseen, SameSeat
  <2> QED BY <2>6, <2>7 DEF Seen
<1>3. CASE Start(p, j)
  <2>1. PICK new : new = [Idle EXCEPT !.pc = "asked", !.at = j, !.current = TRUE]
    OBVIOUS
  <2>2. new.pc = "asked" /\ new.at = j /\ proc' = [proc EXCEPT ![p] = new] /\ order' = order
    BY <1>3, <2>1 DEF Start, Become, Idle, worldVars
  <2>3. (\A q \in Procs \ {p} : proc'[q] = proc[q]) /\ proc'[p].pc = "asked"
    BY <1>0, <2>2 DEF TypeOK
  <2>4. PICK next : next = [journal[j] EXCEPT !.stage = "requested"]
    OBVIOUS
  <2>5. journal' = [journal EXCEPT ![j] = next] /\ journal[j].stage = "fresh"
    BY <1>3, <2>4 DEF Start
  <2>6. next.stage = "requested" /\ next.key = journal[j].key /\ next.bound = journal[j].bound
        /\ next.cancel = journal[j].cancel
    BY <1>0, <2>4 DEF TypeOK, JournalRecord
  <2>7. journal'[j] = next /\ \A i \in Journals \ {j} : journal'[i] = journal[i]
    BY <1>0, <2>5 DEF TypeOK
  <2>8. SeatInv'
    <3>1. SeatOk(next, order[j])
      BY <2>5, <2>6 DEF DeskInv, SeatInv, SeatOk, Unseated, Accounted, Placed
    <3> QED BY <2>2, <2>7, <3>1 DEF DeskInv, SeatInv
  <2>9. ASSUME NEW q \in Procs, Busy(q)', Current(q)'
        PROVE  PromptOk(proc[q].pc, Mine(q), order[proc[q].at])'
    <3>1. CASE q = p
      BY <2>3, <3>1 DEF PromptOk
    <3>2. CASE q # p
      <4>1. Busy(q) /\ Current(q) /\ proc'[q] = proc[q] /\ proc[q].at \in Journals
        BY <1>0, <2>3, <2>9, <3>2 DEF Busy, Current, HasJourney
      <4>2. PromptOk(proc[q].pc, Mine(q), order[proc[q].at])
        BY <4>1 DEF DeskInv, PromptInv
      <4> QED BY <2>2, <2>6, <2>7, <4>1, <4>2 DEF PromptOk, Mine
    <3> QED BY <3>1, <3>2
  <2>10. Unseen
    <3>1. SameSeat(journal[j], next)
      BY <2>5, <2>6 DEF SameSeat, Accounted, Placed
    <3>2. \A i \in Journals : SameSeat(journal[i], journal[i])
      BY DEF SameSeat
    <3> QED BY <2>2, <2>7, <3>1, <3>2, SaleStays DEF Unseen
  <2> QED BY <2>8, <2>9, <2>10 DEF Seen, DeskInv, PromptInv
<1> QED BY <1>1, <1>2, <1>3

LEMMA StepSeen ==
    ASSUME TakeProfitInv, DeskInv, [Next]_vars
    PROVE  Seen
<1>1. TypeOK /\ HasJourney
  BY DEF TakeProfitInv, ProcInv
<1>2. ASSUME NEW p \in Procs, Placing(p) \/ Canceling(p) \/ Reconciling(p) PROVE Seen
  BY <1>2, PlacingSeen, CancelingSeen, ReconcilingSeen
<1>3. ASSUME NEW p \in Procs, Leave(p) \/ Crash(p) \/ ClaimReservationDies(p) \/ ClaimDies(p) PROVE Seen
  <2>1. Busy(p) /\ Goto(p, "idle") /\ UNCHANGED <<journal, order>>
    BY <1>3 DEF Leave, Crash, ClaimReservationDies, ClaimDies, Busy, diskVars, worldVars
  <2> QED BY <2>1, QuietGoto DEF Steps
<1>4. ASSUME NEW j \in Journals, SettlePayment(j) \/ \E deadline \in Deadlines : Elapse(j, deadline) PROVE Seen
  <2>1. UNCHANGED <<journal, order, proc>>
    BY <1>4 DEF SettlePayment, Elapse, diskVars
  <2> QED BY <2>1, SaleStays DEF Seen, DeskInv, SeatInv, PromptInv, Busy, Current, Mine, Unseen, SameSeat
<1>5. CASE UNCHANGED vars
  <2>1. UNCHANGED <<journal, order, proc>>
    BY <1>5 DEF vars, diskVars, worldVars
  <2> QED BY <2>1, SaleStays DEF Seen, DeskInv, SeatInv, PromptInv, Busy, Current, Mine, Unseen, SameSeat
<1>6. ASSUME NEW j \in Journals, Venue(j) \/ Fill(j) PROVE Seen
  BY <1>6, VenueSeen DEF Seen
<1> QED BY <1>2, <1>3, <1>4, <1>5, <1>6, BeginSeen DEF Next

LEMMA InitSeen == Init => DeskInv /\ Desk!DeskInit
<1> SUFFICES ASSUME Init PROVE DeskInv /\ Desk!DeskInit
  OBVIOUS
<1>1. \A j \in Journals : /\ journal[j].stage = "fresh" /\ journal[j].bound = {} /\ journal[j].cancel = "none"
                          /\ order[j] = [state |-> "none", matched |-> 0, settled |-> 0, canceling |-> FALSE]
  BY DEF Init, FreshJournal
<1>2. SeatInv
  BY <1>1 DEF SeatInv, SeatOk, Accounted, Placed
<1>3. PromptInv
  BY DEF Init, PromptInv, Busy, Idle
<1>4. /\ {i \in Journals : "reservation" \in journal[i].bound} = {}
      /\ {i \in Journals : "exec" \in journal[i].bound} = {}
      /\ {i \in Journals : journal[i].stage \in Accounted} = {}
      /\ {i \in Journals : journal[i].cancel \in Decided} = {}
      /\ {i \in Journals : order[i].canceling} = {}
      /\ [i \in Journals |-> SaleOf(i)] = [i \in Journals |-> "none"]
  BY <1>1 DEF Accounted, Placed, Decided, SaleOf
<1>5. Desk!DeskInit
  BY <1>4 DEF Desk!DeskInit, Accounted, Decided
<1> QED BY <1>2, <1>3, <1>5 DEF DeskInv

(* No journal in a stage before the lock or past it is bound to it, one    *)
(* that says what became of an order has an order, and whoever still asks  *)
(* for a cancellation holds no journal in which one was found terminal.    *)
THEOREM SeatsAgree == Spec => [](TakeProfitInv /\ DeskInv)
<1>1. Init => TakeProfitInv /\ DeskInv
  BY InitInv, InitSeen
<1>2. TakeProfitInv /\ DeskInv /\ [Next]_vars => TakeProfitInv' /\ DeskInv'
  BY NextInv, StepSeen DEF Seen
<1> QED BY <1>1, <1>2, PTL DEF Spec

(* Every step of placement, cancellation and recovery, crashes included,   *)
(* is a step of the desk or leaves it as it is: one reservation per key,   *)
(* one journey with the execution lock, one order per journey and none     *)
(* sent while another rests, the lock given back only with the order       *)
(* accounted for (claimExecutionLock, settleExecutionLock,                 *)
(* settleTakeProfitReconciliation, recoverKnownUnstartedTakeProfitCancel). *)
THEOREM JourneysKeepDesk == Spec => RefinesDesk
<1>1. Init => Desk!DeskInit
  BY InitSeen
<1>2. TakeProfitInv /\ DeskInv /\ [Next]_vars => [Desk!DeskNext]_Desk!deskVars
  <2> SUFFICES ASSUME TakeProfitInv, DeskInv, [Next]_vars PROVE [Desk!DeskNext]_Desk!deskVars
    OBVIOUS
  <2>1. Unseen \/ Desk!DeskNext
    BY StepSeen DEF Seen
  <2> QED BY <2>1, UnseenStutters
<1> QED BY <1>1, <1>2, SeatsAgree, PTL DEF Spec, RefinesDesk, Desk!DeskSpec
=============================================================================
