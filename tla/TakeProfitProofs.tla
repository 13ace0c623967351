-------------------------- MODULE TakeProfitProofs --------------------------
(***************************************************************************)
(* Proofs about TakeProfit: the safety properties for any number of        *)
(* processes, journeys, replay keys, shares, claims and crashes.           *)
(***************************************************************************)
EXTENDS TakeProfit, TLAPS

-----------------------------------------------------------------------------
(* Types *)

(* A running process has a journey.                                        *)
Busy(p) == proc[p].pc # "idle"

HasJourney == \A p \in Procs : Busy(p) => proc[p].at \in Journals

LEMMA BusyFacts ==
    ASSUME TypeOK, HasJourney, NEW p \in Procs, Busy(p)
    PROVE  /\ proc[p] \in Process /\ proc[p].at \in Journals
           /\ Mine(p) \in JournalRecord /\ Mine(p) = journal[proc[p].at]
           /\ order[proc[p].at] \in VenueOrder
BY DEF TypeOK, HasJourney, Busy, Mine

(* What is left of a process when p moves to a step.                       *)
LEMMA GotoFacts ==
    ASSUME TypeOK, HasJourney, NEW p \in Procs, NEW step \in Steps, Busy(p), Goto(p, step)
    PROVE  /\ proc' \in [Procs -> Process]
           /\ \A q \in Procs \ {p} : proc'[q] = proc[q]
           /\ step = "idle" => proc'[p] = Idle
           /\ step # "idle" => /\ proc'[p].pc = step /\ proc'[p].at = proc[p].at
                               /\ proc'[p].current = proc[p].current
                               /\ proc'[p].gen = proc[p].gen /\ proc'[p].saw = proc[p].saw
<1> DEFINE new == [proc[p] EXCEPT !.pc = step]
<1>1. proc[p] \in Process
  BY BusyFacts
<1>2. new \in Process /\ new.pc = step /\ new.at = proc[p].at /\ new.current = proc[p].current
      /\ new.gen = proc[p].gen /\ new.saw = proc[p].saw
  BY <1>1 DEF Process
<1>3. Idle \in Process
  BY DEF Idle, Process, Steps
<1>4. proc' = [proc EXCEPT ![p] = IF new.pc = "idle" THEN Idle ELSE new]
  BY DEF Goto, Become
<1>5. proc' = [proc EXCEPT ![p] = IF step = "idle" THEN Idle ELSE new]
  BY <1>2, <1>4
<1> HIDE DEF new
<1> QED BY <1>2, <1>3, <1>5 DEF TypeOK

LEMMA PutFacts ==
    ASSUME TypeOK, HasJourney, NEW p \in Procs, NEW step \in Steps, NEW next \in JournalRecord,
           Busy(p), Put(p, next, step)
    PROVE  /\ journal' \in [Journals -> JournalRecord]
           /\ journal'[proc[p].at] = next
           /\ \A j \in Journals \ {proc[p].at} : journal'[j] = journal[j]
           /\ proc' \in [Procs -> Process]
           /\ step = "idle" => proc'[p] = Idle
           /\ step # "idle" => /\ proc'[p].pc = step /\ proc'[p].at = proc[p].at /\ proc'[p].current = TRUE
                               /\ proc'[p].gen = next.gen /\ proc'[p].saw = proc[p].saw
           /\ \A q \in Procs \ {p} :
                 /\ proc'[q].pc = proc[q].pc /\ proc'[q].at = proc[q].at
                 /\ proc'[q].gen = proc[q].gen /\ proc'[q].saw = proc[q].saw
                 /\ proc'[q].current => proc[q].current /\ proc[q].at # proc[p].at
<1>1. proc[p] \in Process /\ proc[p].at \in Journals
  BY BusyFacts
<1>2. next.gen \in Nat
  BY DEF JournalRecord
<1>3. Idle \in Process
  BY DEF Idle, Process, Steps
<1> DEFINE new == [proc[p] EXCEPT !.pc = step, !.current = TRUE, !.gen = next.gen]
           stale(q) == [proc[q] EXCEPT !.current = FALSE]
<1>4. new \in Process /\ new.pc = step /\ new.at = proc[p].at /\ new.current = TRUE
      /\ new.gen = next.gen /\ new.saw = proc[p].saw
  BY <1>1, <1>2 DEF Process
<1>5. \A q \in Procs : stale(q) \in Process /\ stale(q).pc = proc[q].pc /\ stale(q).at = proc[q].at
         /\ stale(q).gen = proc[q].gen /\ stale(q).saw = proc[q].saw /\ stale(q).current = FALSE
  BY DEF TypeOK, Process
<1>6. proc' = [q \in Procs |-> IF q = p THEN IF step = "idle" THEN Idle ELSE new
                               ELSE IF proc[q].at = proc[p].at THEN stale(q) ELSE proc[q]]
  BY DEF Put
<1> HIDE DEF new, stale
<1>7. journal' = [journal EXCEPT ![proc[p].at] = next]
  BY DEF Put
<1> QED BY <1>1, <1>3, <1>4, <1>5, <1>6, <1>7 DEF TypeOK

-----------------------------------------------------------------------------
(* The inductive invariant *)

CancelSteps == {"claimed", "cancelMarked", "canceling", "canceled", "judged", "outcome"}

(* Where a process whose journal is current may stand.                     *)
StepOk(step, r) ==
    /\ step = "asked" => r.stage = "requested"
    /\ step = "signing" => r.stage = "starting"
    /\ step \in {"signed", "paid"} => r.stage = "created"
    /\ step = "ready" => r.stage \in {"verified", "confirmed"}
    /\ step \in {"locked", "checked"} => r.stage = "locked"
    /\ step \in {"marked", "launched"} => r.stage = "attempted"
    /\ step = "settling" => r.stage = "blocked"
    /\ step \in {"returned", "fetched", "refetched"} => r.stage = "result"
    /\ step \in {"passported", "recovered"} => r.stage \in Placed /\ r.cancel = "none"
    /\ step = "progressed" => r.stage = "armed" /\ r.cancel = "none"
    /\ step = "known" => r.stage \in Placed /\ r.cancel # "lock_acquired"
    /\ step \in CancelSteps \cup {"prompted"} => r.stage \in Placed
    /\ step = "claimed" => r.cancel = "lock_acquired"
    /\ step \in CancelSteps \ {"claimed"} => r.cancel = "attempted"

StepInv ==
    \A p \in Procs : Busy(p) /\ Current(p) =>
        /\ StepOk(proc[p].pc, Mine(p))
        /\ proc[p].pc \in CancelSteps => Mine(p).gen = proc[p].gen

(* What a stage says of the locks its journal is bound to, of its          *)
(* cancellation and of its signature.                                      *)
RecordOk(r) ==
    /\ r.stage \notin {"fresh", "requested", "withdrawn", "unused", "expired"} => "reservation" \in r.bound
    /\ r.stage \in {"locked", "attempted", "result"} => "exec" \in r.bound
    /\ r.cancel # "none" => r.stage \in Placed
    /\ r.cancel \in Active => "exec" \in r.bound
    /\ r.stage \in {"fresh", "requested", "starting", "withdrawn"} => ~r.signed
    /\ r.stage = "rejected" => r.reply = "rejected"

RecordInv == \A j \in Journals : RecordOk(journal[j])

(* A lock a journal is bound to has its file, and the file is the          *)
(* journal's own.                                                          *)
BackedInv ==
    \A j \in Journals :
        /\ "reservation" \in journal[j].bound => OwnsReservation(j)
        /\ "exec" \in journal[j].bound => OwnsExec(j)

(* An order that is in the book or may come to be.                         *)
Open(o) == o.state \in {"none", "sent", "live"}

(* What a journal knows of its order and its payment.                      *)
OrderOk(r, o, paid, passed) ==
    /\ o.state # "none" => r.stage \in {"attempted", "result", "rejected"} \cup Placed
    /\ o.state = "sent" => r.stage = "attempted"
    /\ r.reply = "rejected" => o.state = "refused"
    /\ o.canceling /\ Open(o) => r.cancel = "attempted"
    /\ r.cancel = "terminal" => o.state \in {"canceled", "expired", "filled"} /\ o.settled = o.matched
    /\ o.state = "live" => o.matched < Shares
    /\ o.state \in {"none", "sent", "refused"} => o.matched = 0
    /\ paid # "unsent" => r.signed
    /\ r.stage = "unused" => paid # "used" /\ "auth" \in passed

OrderInv == \A j \in Journals : OrderOk(journal[j], order[j], payment[j], elapsed[j])

SignedInv == \A p \in Procs : proc[p].pc = "signed" => Mine(p).signed

(* Between the readiness under the lock and the launch there is no other   *)
(* order.                                                                  *)
AloneInv ==
    \A p \in Procs : proc[p].pc \in {"checked", "marked"} /\ Current(p) =>
        /\ order[proc[p].at].state = "none"
        /\ \A i \in Journals : order[i].state \notin {"sent", "live"}

(* Each claim of the lock has a generation of its own.                     *)
GenInv ==
    /\ \A j \in Journals : journal[j].gen <= claims
    /\ \A p \in Procs : proc[p].gen <= claims
    /\ \A p, q \in Procs :
          p # q /\ proc[p].at = proc[q].at /\ {proc[p].pc, proc[q].pc} \subseteq CancelSteps =>
             proc[p].gen # proc[q].gen

(* A cancellation that is a process's own, by lock generation, has sent    *)
(* nothing before its launch.                                              *)
Canceled(o) == o.canceling /\ Open(o)

UnsentInv ==
    \A p \in Procs :
        /\ proc[p].pc \in CancelUnstarted
        /\ Mine(p).gen = proc[p].gen
        /\ Mine(p).cancel \in Active
        => ~Canceled(order[proc[p].at])

(* A terminal status, once seen, stays true.                               *)
SawInv ==
    \A p \in Procs : Busy(p) /\ proc[p].saw \in TerminalStatuses =>
        order[proc[p].at].state \in {"canceled", "expired", "filled"}

ProcInv ==
    /\ TypeOK /\ HasJourney
    /\ StepInv /\ RecordInv /\ OrderInv /\ SignedInv /\ AloneInv /\ GenInv /\ UnsentInv /\ SawInv
    /\ OneOrderAtVenue

TakeProfitInv == ProcInv /\ BackedInv

-----------------------------------------------------------------------------
(* What is known of the journey a process works on *)

LEMMA MineFacts ==
    ASSUME ProcInv, NEW p \in Procs, Busy(p)
    PROVE  /\ proc[p] \in Process /\ proc[p].at \in Journals /\ Mine(p) = journal[proc[p].at]
           /\ Mine(p) \in JournalRecord /\ order[proc[p].at] \in VenueOrder
           /\ RecordOk(Mine(p))
           /\ OrderOk(Mine(p), order[proc[p].at], payment[proc[p].at], elapsed[proc[p].at])
           /\ Mine(p).gen <= claims /\ proc[p].gen <= claims
           /\ Current(p) => /\ StepOk(proc[p].pc, Mine(p))
                            /\ proc[p].pc \in CancelSteps => Mine(p).gen = proc[p].gen
<1>1. proc[p] \in Process /\ proc[p].at \in Journals /\ Mine(p) = journal[proc[p].at]
      /\ Mine(p) \in JournalRecord /\ order[proc[p].at] \in VenueOrder
  BY BusyFacts DEF ProcInv
<1>2. RecordOk(Mine(p)) /\ OrderOk(Mine(p), order[proc[p].at], payment[proc[p].at], elapsed[proc[p].at])
  BY <1>1 DEF ProcInv, RecordInv, OrderInv
<1>3. Mine(p).gen <= claims /\ proc[p].gen <= claims
  BY <1>1 DEF ProcInv, GenInv
<1>4. Current(p) => StepOk(proc[p].pc, Mine(p)) /\ (proc[p].pc \in CancelSteps => Mine(p).gen = proc[p].gen)
  BY DEF ProcInv, StepInv
<1> QED BY <1>1, <1>2, <1>3, <1>4

-----------------------------------------------------------------------------
(* Writes *)

(* A write that fits what is known: next goes to the journal of p, step is *)
(* where p goes, top bounds the lock generations after it.                 *)
GoodWrite(p, next, step, top) ==
    /\ next \in JournalRecord /\ step \in Steps
    /\ step # "idle" => StepOk(step, next)
    /\ RecordOk(next)
    /\ next.gen <= top
    /\ Mine(p).signed => next.signed
    /\ step = "signed" => next.signed
    /\ step \in CancelSteps => (proc[p].pc \in CancelSteps /\ next.gen = proc[p].gen) \/ next.gen > claims

(* And, where the order is as before, what the write says of it.           *)
GoodForOrder(p, next, step) ==
    /\ OrderOk(next, order[proc[p].at], payment[proc[p].at], elapsed[proc[p].at])
    /\ step \in CancelUnstarted /\ next.cancel \in Active => ~Canceled(order[proc[p].at])
    /\ next.cancel \in Active => (Mine(p).cancel \in Active /\ next.gen = Mine(p).gen) \/ next.gen > claims
    /\ step \in {"checked", "marked"} => proc[p].pc \in {"checked", "marked"} /\ Current(p)

FilesTyped == reserved \in [Keys -> Reservation \cup {None}] /\ exec \in ExecLock \cup {None}

(* What does not depend on the orders.                                     *)
LocalInv == HasJourney /\ StepInv /\ RecordInv /\ SignedInv /\ GenInv

LEMMA WriteKeepsLocal ==
    ASSUME ProcInv, NEW p \in Procs, NEW next, NEW step, Busy(p), Put(p, next, step),
           claims' \in Nat, claims <= claims', GoodWrite(p, next, step, claims')
    PROVE  LocalInv'
<1> DEFINE j == proc[p].at
<1>1. TypeOK /\ HasJourney /\ next \in JournalRecord /\ step \in Steps
  BY DEF ProcInv, GoodWrite
<1>2. /\ journal' \in [Journals -> JournalRecord]
      /\ journal'[j] = next
      /\ \A i \in Journals \ {j} : journal'[i] = journal[i]
      /\ proc' \in [Procs -> Process]
      /\ step = "idle" => proc'[p] = Idle
      /\ step # "idle" => /\ proc'[p].pc = step /\ proc'[p].at = j /\ proc'[p].current = TRUE
                          /\ proc'[p].gen = next.gen /\ proc'[p].saw = proc[p].saw
      /\ \A q \in Procs \ {p} :
            /\ proc'[q].pc = proc[q].pc /\ proc'[q].at = proc[q].at
            /\ proc'[q].gen = proc[q].gen /\ proc'[q].saw = proc[q].saw
            /\ proc'[q].current => proc[q].current /\ proc[q].at # j
  BY <1>1, PutFacts
<1>3. j \in Journals /\ proc[p].gen <= claims
  BY MineFacts
<1>4. step = "idle" => proc'[p].pc = "idle" /\ proc'[p].gen = 0
  BY <1>2 DEF Idle
<1> HIDE DEF j
<1>5. HasJourney'
  BY <1>1, <1>2, <1>3, <1>4 DEF HasJourney, Busy
<1>6. StepInv'
  <2> SUFFICES ASSUME NEW q \in Procs, Busy(q)', Current(q)'
               PROVE  /\ StepOk(proc'[q].pc, journal'[proc'[q].at])
                      /\ proc'[q].pc \in CancelSteps => journal'[proc'[q].at].gen = proc'[q].gen
    BY DEF StepInv, Mine
  <2>1. CASE q = p
    BY <2>1, <1>2, <1>4 DEF GoodWrite, Busy
  <2>2. CASE q # p
    <3>1. proc[q].at \in Journals \ {j} /\ Busy(q) /\ Current(q)
      BY <2>2, <1>1, <1>2 DEF HasJourney, Busy, Current
    <3> QED BY <2>2, <3>1, <1>2 DEF ProcInv, StepInv, Mine
  <2> QED BY <2>1, <2>2
<1>7. RecordInv'
  BY <1>2 DEF ProcInv, RecordInv, GoodWrite
<1>8. SignedInv'
  <2> SUFFICES ASSUME NEW q \in Procs, proc'[q].pc = "signed"
               PROVE  journal'[proc'[q].at].signed
    BY DEF SignedInv, Mine
  <2>1. CASE q = p
    BY <2>1, <1>2, <1>4 DEF GoodWrite
  <2>2. CASE q # p
    <3>1. proc[q].pc = "signed" /\ proc[q].at \in Journals /\ journal[proc[q].at].signed
      BY <2>2, <1>1, <1>2 DEF HasJourney, Busy, ProcInv, SignedInv, Mine
    <3>2. Mine(p) = journal[j]
      BY DEF Mine, j
    <3> QED BY <2>2, <3>1, <3>2, <1>2 DEF GoodWrite
  <2> QED BY <2>1, <2>2
<1>9. GenInv'
  <2>1. \A i \in Journals : journal'[i].gen <= claims'
    BY <1>1, <1>2 DEF ProcInv, GenInv, GoodWrite, TypeOK, JournalRecord
  <2>2. \A q \in Procs : proc'[q].gen <= claims'
    BY <1>1, <1>2, <1>4 DEF ProcInv, GenInv, GoodWrite, TypeOK, Process
  <2>3. ASSUME NEW q \in Procs \ {p}, proc'[p].at = proc'[q].at, {proc'[p].pc, proc'[q].pc} \subseteq CancelSteps
        PROVE  proc'[p].gen # proc'[q].gen
    <3>1. proc'[p].pc = step /\ step \in CancelSteps /\ proc'[p].gen = next.gen /\ proc[q].at = j
          /\ proc[q].pc \in CancelSteps /\ proc'[q].gen = proc[q].gen
      BY <2>3, <1>2, <1>4 DEF CancelSteps
    <3>2. proc[q].gen <= claims /\ proc[q].gen \in Nat /\ next.gen \in Nat /\ claims \in Nat
      BY <1>1 DEF ProcInv, GenInv, TypeOK, Process, JournalRecord
    <3>3. CASE next.gen > claims
      BY <3>1, <3>2, <3>3
    <3>4. CASE proc[p].pc \in CancelSteps /\ next.gen = proc[p].gen
      BY <3>1, <3>4 DEF ProcInv, GenInv, j
    <3> QED BY <3>1, <3>3, <3>4 DEF GoodWrite
  <2>4. ASSUME NEW q \in Procs \ {p}, NEW r \in Procs \ {p}, q # r, proc'[q].at = proc'[r].at,
               {proc'[q].pc, proc'[r].pc} \subseteq CancelSteps
        PROVE  proc'[q].gen # proc'[r].gen
    BY <2>4, <1>2 DEF ProcInv, GenInv
  <2> QED BY <2>1, <2>2, <2>3, <2>4 DEF GenInv
<1> QED BY <1>5, <1>6, <1>7, <1>8, <1>9 DEF LocalInv

(* A write with the orders and payments as they were.                      *)
LEMMA WriteKeeps ==
    ASSUME ProcInv, NEW p \in Procs, NEW next, NEW step, Busy(p), Put(p, next, step),
           claims' \in Nat, claims <= claims', faults' \in Nat, FilesTyped',
           UNCHANGED <<order, payment>>,
           elapsed' \in [Journals -> SUBSET Deadlines],
           \A j \in Journals : "auth" \in elapsed[j] => "auth" \in elapsed'[j],
           GoodWrite(p, next, step, claims'), GoodForOrder(p, next, step)
    PROVE  ProcInv'
<1> DEFINE j == proc[p].at
<1>1. TypeOK /\ HasJourney /\ next \in JournalRecord /\ step \in Steps /\ j \in Journals /\ proc[p].gen <= claims
  BY MineFacts DEF ProcInv, GoodWrite
<1>2. /\ journal' \in [Journals -> JournalRecord]
      /\ journal'[j] = next
      /\ \A i \in Journals \ {j} : journal'[i] = journal[i]
      /\ proc' \in [Procs -> Process]
      /\ step = "idle" => proc'[p] = Idle
      /\ step # "idle" => /\ proc'[p].pc = step /\ proc'[p].at = j /\ proc'[p].current = TRUE
                          /\ proc'[p].gen = next.gen /\ proc'[p].saw = proc[p].saw
      /\ \A q \in Procs \ {p} :
            /\ proc'[q].pc = proc[q].pc /\ proc'[q].at = proc[q].at
            /\ proc'[q].gen = proc[q].gen /\ proc'[q].saw = proc[q].saw
            /\ proc'[q].current => proc[q].current /\ proc[q].at # j
  BY <1>1, PutFacts
<1>3. LocalInv'
  BY WriteKeepsLocal
<1>4. step = "idle" => proc'[p].pc = "idle"
  BY <1>2 DEF Idle
<1>5. Mine(p) = journal[j]
  BY DEF Mine
<1> HIDE DEF j
<1>6. TypeOK'
  BY <1>1, <1>2 DEF TypeOK, FilesTyped
<1>7. OrderInv'
  <2> SUFFICES ASSUME NEW i \in Journals PROVE OrderOk(journal'[i], order[i], payment[i], elapsed'[i])
    BY DEF OrderInv
  <2>1. OrderOk(journal'[i], order[i], payment[i], elapsed[i])
    BY <1>1, <1>2 DEF ProcInv, OrderInv, GoodForOrder, j
  <2> QED BY <2>1 DEF OrderOk
<1>8. AloneInv'
  <2> SUFFICES ASSUME NEW q \in Procs, proc'[q].pc \in {"checked", "marked"}, proc'[q].current
               PROVE  proc[q].pc \in {"checked", "marked"} /\ proc[q].current /\ proc'[q].at = proc[q].at
    BY DEF ProcInv, AloneInv, Current
  <2> QED BY <1>2, <1>4 DEF GoodForOrder, Current, j
<1>9. UnsentInv'
  <2> SUFFICES ASSUME NEW q \in Procs, proc'[q].pc \in CancelUnstarted,
                      journal'[proc'[q].at].gen = proc'[q].gen, journal'[proc'[q].at].cancel \in Active
               PROVE  ~Canceled(order[proc'[q].at])
    BY DEF UnsentInv, Mine, Canceled, Open
  <2>1. CASE q = p
    BY <2>1, <1>2, <1>4 DEF GoodForOrder, j, CancelUnstarted
  <2>2. CASE q # p
    <3>1. proc[q].pc \in CancelUnstarted /\ proc'[q].at = proc[q].at /\ proc'[q].gen = proc[q].gen
          /\ proc[q].at \in Journals /\ proc[q].gen \in Nat /\ proc[q].gen <= claims
      BY <2>2, <1>1, <1>2 DEF HasJourney, Busy, CancelUnstarted, TypeOK, Process, ProcInv, GenInv
    <3>2. CASE proc[q].at # j
      BY <3>1, <3>2, <1>2 DEF ProcInv, UnsentInv, Mine
    <3>3. CASE proc[q].at = j
      <4>1. next.gen = proc[q].gen /\ next.cancel \in Active
        BY <3>1, <3>3, <1>2
      <4>2. ~(next.gen > claims)
        BY <3>1, <4>1, <1>1 DEF TypeOK
      <4>3. Mine(q) = Mine(p) /\ Mine(p).cancel \in Active /\ next.gen = Mine(p).gen
        BY <3>3, <4>1, <4>2 DEF GoodForOrder, Mine, j
      <4> QED BY <3>1, <4>1, <4>3 DEF ProcInv, UnsentInv
    <3> QED BY <3>2, <3>3
  <2> QED BY <2>1, <2>2
<1>10. SawInv'
  <2> SUFFICES ASSUME NEW q \in Procs, Busy(q)', proc'[q].saw \in TerminalStatuses
               PROVE  Busy(q) /\ proc'[q].saw = proc[q].saw /\ proc'[q].at = proc[q].at
    BY DEF ProcInv, SawInv
  <2> QED BY <1>2, <1>4 DEF Busy, j
<1>11. OneOrderAtVenue'
  BY DEF ProcInv, OneOrderAtVenue
<1> QED BY <1>3, <1>6, <1>7, <1>8, <1>9, <1>10, <1>11 DEF ProcInv, LocalInv

-----------------------------------------------------------------------------
(* Moves: a process goes on, and no journal, order or payment changes *)

(* A move that fits what is known: p becomes x.                            *)
GoodMove(p, x) ==
    /\ x \in Process
    /\ x.gen <= claims
    /\ x.pc # "idle" =>
          /\ x.at \in Journals
          /\ x.current => /\ StepOk(x.pc, journal[x.at])
                          /\ x.pc \in CancelSteps => journal[x.at].gen = x.gen
          /\ x.pc # "signed"
          /\ x.pc \in CancelSteps => proc[p].pc \in CancelSteps /\ x.at = proc[p].at /\ x.gen = proc[p].gen
          /\ x.pc \notin CancelUnstarted
          /\ x.pc \in {"checked", "marked"} /\ x.current =>
                order[x.at].state = "none" /\ \A i \in Journals : order[i].state \notin {"sent", "live"}
          /\ x.saw \in TerminalStatuses => order[x.at].state \in {"canceled", "expired", "filled"}

LEMMA PaidMoveKeeps ==
    ASSUME ProcInv, NEW p \in Procs, NEW x, proc' = [proc EXCEPT ![p] = x], GoodMove(p, x),
           claims' \in Nat, claims <= claims', faults' \in Nat, FilesTyped',
           UNCHANGED <<journal, order, elapsed>>,
           payment' \in [Journals -> {"unsent", "sent", "used"}], OrderInv'
    PROVE  ProcInv'
<1>1. x \in Process /\ proc \in [Procs -> Process] /\ claims \in Nat
  BY DEF GoodMove, ProcInv, TypeOK
<1>2. proc'[p] = x /\ \A q \in Procs \ {p} : proc'[q] = proc[q]
  BY <1>1
<1>3. TypeOK'
  BY <1>1 DEF ProcInv, TypeOK, FilesTyped
<1>4. HasJourney'
  BY <1>2 DEF ProcInv, HasJourney, Busy, GoodMove
<1>5. StepInv'
  BY <1>2 DEF ProcInv, StepInv, Busy, Current, Mine, GoodMove
<1>6. RecordInv'
  BY DEF ProcInv, RecordInv
<1>8. SignedInv'
  BY <1>2 DEF ProcInv, SignedInv, Mine, GoodMove
<1>9. AloneInv'
  BY <1>2 DEF ProcInv, AloneInv, Current, GoodMove
<1>10. GenInv'
  <2>1. \A j \in Journals : journal'[j].gen <= claims'
    BY <1>1 DEF ProcInv, GenInv, TypeOK, JournalRecord
  <2>2. \A q \in Procs : proc'[q].gen <= claims'
    BY <1>1, <1>2 DEF ProcInv, GenInv, TypeOK, Process, GoodMove
  <2>3. x.pc \in CancelSteps => proc[p].pc \in CancelSteps /\ x.at = proc[p].at /\ x.gen = proc[p].gen
    BY DEF GoodMove, CancelSteps
  <2>4. ASSUME NEW q \in Procs, NEW r \in Procs, q # r, proc'[q].at = proc'[r].at,
               {proc'[q].pc, proc'[r].pc} \subseteq CancelSteps
        PROVE  /\ proc[q].at = proc[r].at /\ {proc[q].pc, proc[r].pc} \subseteq CancelSteps
               /\ proc'[q].gen = proc[q].gen /\ proc'[r].gen = proc[r].gen
    BY <1>2, <2>3, <2>4
  <2> QED BY <2>1, <2>2, <2>4 DEF ProcInv, GenInv
<1>11. UnsentInv'
  BY <1>2 DEF ProcInv, UnsentInv, Mine, GoodMove, Canceled, Open, CancelUnstarted
<1>12. SawInv'
  BY <1>2 DEF ProcInv, SawInv, Busy, GoodMove
<1>13. OneOrderAtVenue'
  BY DEF ProcInv, OneOrderAtVenue
<1> QED BY <1>3, <1>4, <1>5, <1>6, <1>8, <1>9, <1>10, <1>11, <1>12, <1>13 DEF ProcInv

LEMMA MoveKeeps ==
    ASSUME ProcInv, NEW p \in Procs, NEW x, proc' = [proc EXCEPT ![p] = x], GoodMove(p, x),
           claims' \in Nat, claims <= claims', faults' \in Nat, FilesTyped',
           UNCHANGED <<journal, worldVars>>
    PROVE  ProcInv'
<1>1. payment' \in [Journals -> {"unsent", "sent", "used"}] /\ OrderInv' /\ UNCHANGED <<journal, order, elapsed>>
  BY DEF ProcInv, TypeOK, OrderInv, worldVars
<1> QED BY <1>1, PaidMoveKeeps

-----------------------------------------------------------------------------
(* The world *)

(* A change of j's order to o that fits what its journal knows.            *)
GoodOrder(j, o) ==
    /\ o \in VenueOrder
    /\ OrderOk(journal[j], o, payment[j], elapsed[j])
    /\ o.state = "none" <=> order[j].state = "none"
    /\ o.state \in {"sent", "live"} => order[j].state \in {"sent", "live"}
    /\ order[j].state \in {"canceled", "expired", "filled"} => o.state \in {"canceled", "expired", "filled"}
    /\ Canceled(o) => Canceled(order[j])

LEMMA OrderKeeps ==
    ASSUME ProcInv, NEW j \in Journals, NEW o, GoodOrder(j, o), ChangeOrder(j, o)
    PROVE  ProcInv'
<1>1. order' \in [Journals -> VenueOrder] /\ order'[j] = o /\ \A i \in Journals \ {j} : order'[i] = order[i]
  BY DEF ChangeOrder, GoodOrder, ProcInv, TypeOK
<1> USE DEF ChangeOrder, diskVars, countVars
<1>2. TypeOK'
  BY <1>1 DEF ProcInv, TypeOK
<1>3. HasJourney' /\ StepInv' /\ RecordInv' /\ SignedInv' /\ GenInv'
  BY DEF ProcInv, HasJourney, StepInv, RecordInv, SignedInv, GenInv, Busy, Current, Mine
<1>4. OrderInv'
  BY <1>1 DEF ProcInv, OrderInv, GoodOrder
<1>5. AloneInv' /\ OneOrderAtVenue'
  <2>1. \A i \in Journals : /\ order'[i].state = "none" <=> order[i].state = "none"
                            /\ order'[i].state \in {"sent", "live"} => order[i].state \in {"sent", "live"}
    BY <1>1 DEF GoodOrder
  <2>2. \A p \in Procs : proc[p].pc \in {"checked", "marked"} => proc[p].at \in Journals
    BY DEF ProcInv, HasJourney, Busy
  <2>3. AloneInv'
    BY <2>1, <2>2 DEF ProcInv, AloneInv, Current
  <2> QED BY <2>1, <2>3 DEF ProcInv, OneOrderAtVenue
<1>6. UnsentInv' /\ SawInv'
  <2>1. \A i \in Journals :
           /\ Canceled(order'[i]) => Canceled(order[i])
           /\ order[i].state \in {"canceled", "expired", "filled"} => order'[i].state \in {"canceled", "expired", "filled"}
    BY <1>1 DEF GoodOrder
  <2>2. \A p \in Procs : Busy(p) => proc[p].at \in Journals
    BY DEF ProcInv, HasJourney
  <2>3. UnsentInv'
    BY <2>1, <2>2 DEF ProcInv, UnsentInv, Mine, Canceled, Open, Busy, CancelUnstarted
  <2> QED BY <2>1, <2>2, <2>3 DEF ProcInv, SawInv, Busy
<1> QED BY <1>2, <1>3, <1>4, <1>5, <1>6 DEF ProcInv

(* Payments settle and deadlines pass.                                     *)
LEMMA TimeKeeps ==
    ASSUME ProcInv, UNCHANGED <<diskVars, proc, order, countVars>>,
           payment' \in [Journals -> {"unsent", "sent", "used"}],
           elapsed' \in [Journals -> SUBSET Deadlines], OrderInv'
    PROVE  ProcInv'
<1> USE DEF diskVars, countVars
<1>1. TypeOK' /\ HasJourney' /\ StepInv' /\ RecordInv' /\ SignedInv' /\ GenInv'
  BY DEF ProcInv, TypeOK, HasJourney, StepInv, RecordInv, SignedInv, GenInv, Busy, Current, Mine
<1>2. AloneInv' /\ UnsentInv' /\ SawInv' /\ OneOrderAtVenue'
  BY DEF ProcInv, AloneInv, UnsentInv, SawInv, OneOrderAtVenue, Busy, Current, Mine, Canceled, Open
<1> QED BY <1>1, <1>2 DEF ProcInv

-----------------------------------------------------------------------------
(* The two steps that start a command at the venue *)

LEMMA LaunchKeeps ==
    ASSUME TakeProfitInv, NEW p \in Procs, Launch(p)
    PROVE  ProcInv'
<1> DEFINE j == proc[p].at
           o == [order[j] EXCEPT !.state = "sent"]
<1>1. Busy(p) /\ Current(p) /\ proc[p].pc = "marked" /\ Put(p, Mine(p), "launched") /\ ProcInv
  BY DEF Launch, Write, Busy, TakeProfitInv
<1>2. /\ j \in Journals /\ Mine(p) = journal[j] /\ Mine(p) \in JournalRecord /\ order[j] \in VenueOrder
      /\ RecordOk(Mine(p)) /\ OrderOk(Mine(p), order[j], payment[j], elapsed[j])
      /\ Mine(p).gen <= claims /\ Mine(p).stage = "attempted"
  BY <1>1, MineFacts DEF StepOk
<1>3. order[j].state = "none" /\ \A i \in Journals : order[i].state \notin {"sent", "live"}
  BY <1>1 DEF ProcInv, AloneInv
<1>4. /\ order' = [order EXCEPT ![j] = o] /\ o \in VenueOrder /\ o.state = "sent"
      /\ o.matched = order[j].matched /\ o.settled = order[j].settled /\ o.canceling = order[j].canceling
  BY <1>2 DEF Launch, VenueOrder
<1>5. ~o.canceling
  BY <1>2, <1>3, <1>4 DEF OrderOk, Open, RecordOk, Placed
<1>6. GoodWrite(p, Mine(p), "launched", claims)
  BY <1>2 DEF GoodWrite, StepOk, CancelSteps, Steps
<1>7. claims' = claims /\ claims \in Nat /\ TypeOK /\ HasJourney
  BY <1>1 DEF Launch, countVars, ProcInv, TypeOK
<1>8. LocalInv'
  BY <1>1, <1>6, <1>7, WriteKeepsLocal
<1>9. /\ journal' \in [Journals -> JournalRecord]
      /\ journal' = journal
      /\ proc' \in [Procs -> Process]
      /\ proc'[p].pc = "launched" /\ proc'[p].at = j /\ proc'[p].saw = proc[p].saw
      /\ \A q \in Procs \ {p} :
            /\ proc'[q].pc = proc[q].pc /\ proc'[q].at = proc[q].at
            /\ proc'[q].gen = proc[q].gen /\ proc'[q].saw = proc[q].saw
            /\ proc'[q].current => proc[q].current /\ proc[q].at # j
  <2>1. Mine(p) \in JournalRecord /\ "launched" \in Steps
    BY <1>2 DEF Steps
  <2>2. journal' = journal
    BY <1>1, <1>2, <1>7 DEF Put, TypeOK
  <2> QED BY <1>1, <1>7, <2>1, <2>2, PutFacts
<1> HIDE DEF j, o
<1>10. order' \in [Journals -> VenueOrder] /\ order'[j] = o /\ \A i \in Journals \ {j} : order'[i] = order[i]
  BY <1>2, <1>4, <1>7 DEF TypeOK
<1>11. UNCHANGED <<reserved, exec, payment, elapsed, countVars>>
  BY DEF Launch
<1>12. TypeOK'
  BY <1>7, <1>9, <1>10, <1>11 DEF TypeOK, countVars
<1>13. OrderInv'
  <2> SUFFICES ASSUME NEW i \in Journals PROVE OrderOk(journal[i], order'[i], payment[i], elapsed[i])
    BY <1>9, <1>11 DEF OrderInv
  <2>1. CASE i = j
    BY <2>1, <1>2, <1>3, <1>4, <1>5, <1>10 DEF OrderOk
  <2>2. CASE i # j
    BY <2>2, <1>1, <1>10 DEF ProcInv, OrderInv
  <2> QED BY <2>1, <2>2
<1>14. AloneInv'
  <2> SUFFICES ASSUME NEW q \in Procs, proc'[q].pc \in {"checked", "marked"}, proc'[q].current
               PROVE  FALSE
    BY DEF AloneInv, Current
  <2>1. /\ q # p /\ proc[q].pc \in {"checked", "marked"} /\ Current(q) /\ Busy(q)
        /\ proc[q].at \in Journals /\ proc[q].at # j
    BY <1>7, <1>9 DEF Busy, HasJourney, Current
  <2>2. journal[proc[q].at].stage \in {"locked", "attempted"} /\ RecordOk(journal[proc[q].at])
    BY <2>1, <1>1, MineFacts DEF StepOk
  <2>3. OwnsExec(j) /\ OwnsExec(proc[q].at)
    BY <1>2, <2>1, <2>2 DEF TakeProfitInv, BackedInv, RecordOk
  <2> QED BY <2>1, <2>3 DEF OwnsExec
<1>15. UnsentInv'
  <2>1. \A i \in Journals : Canceled(order'[i]) => Canceled(order[i])
    BY <1>5, <1>10 DEF Canceled
  <2>2. \A q \in Procs : proc'[q].pc \in CancelUnstarted =>
           q # p /\ proc[q].pc \in CancelUnstarted /\ proc'[q].at = proc[q].at /\ proc'[q].gen = proc[q].gen
           /\ proc[q].at \in Journals
    BY <1>7, <1>9 DEF CancelUnstarted, HasJourney, Busy
  <2> QED BY <1>1, <1>9, <2>1, <2>2 DEF ProcInv, UnsentInv, Mine, Canceled, Open
<1>16. SawInv'
  <2>1. \A i \in Journals : order[i].state \in {"canceled", "expired", "filled"} => order'[i].state = order[i].state
    BY <1>3, <1>10
  <2>2. \A q \in Procs : Busy(q)' => /\ Busy(q) /\ proc'[q].at = proc[q].at /\ proc'[q].saw = proc[q].saw
                                      /\ proc[q].at \in Journals
    BY <1>1, <1>7, <1>9 DEF Busy, HasJourney, j
  <2> QED BY <1>1, <2>1, <2>2 DEF ProcInv, SawInv
<1>17. OneOrderAtVenue'
  BY <1>3, <1>10 DEF OneOrderAtVenue
<1> QED BY <1>8, <1>12, <1>13, <1>14, <1>15, <1>16, <1>17 DEF ProcInv, LocalInv

LEMMA LaunchCancelKeeps ==
    ASSUME ProcInv, NEW p \in Procs, LaunchCancel(p)
    PROVE  ProcInv'
<1> DEFINE j == proc[p].at
           o == [order[j] EXCEPT !.canceling = TRUE]
<1>1. Busy(p) /\ Current(p) /\ proc[p].pc = "cancelMarked" /\ Put(p, Mine(p), "canceling")
  BY DEF LaunchCancel, Write, Busy
<1>2. /\ j \in Journals /\ Mine(p) = journal[j] /\ Mine(p) \in JournalRecord /\ order[j] \in VenueOrder
      /\ RecordOk(Mine(p)) /\ OrderOk(Mine(p), order[j], payment[j], elapsed[j])
      /\ Mine(p).gen <= claims /\ Mine(p).gen = proc[p].gen
      /\ Mine(p).stage \in Placed /\ Mine(p).cancel = "attempted"
  BY <1>1, MineFacts DEF StepOk, CancelSteps
<1>3. /\ order' = [order EXCEPT ![j] = o] /\ o \in VenueOrder /\ o.state = order[j].state
      /\ o.matched = order[j].matched /\ o.settled = order[j].settled
  BY <1>2 DEF LaunchCancel, VenueOrder
<1>4. GoodWrite(p, Mine(p), "canceling", claims)
  BY <1>1, <1>2 DEF GoodWrite, StepOk, CancelSteps, Steps
<1>5. claims' = claims /\ claims \in Nat /\ TypeOK /\ HasJourney
  BY DEF LaunchCancel, countVars, ProcInv, TypeOK
<1>6. LocalInv'
  BY <1>1, <1>4, <1>5, WriteKeepsLocal
<1>7. /\ journal' \in [Journals -> JournalRecord]
      /\ journal' = journal
      /\ proc' \in [Procs -> Process]
      /\ proc'[p].pc = "canceling" /\ proc'[p].at = j /\ proc'[p].saw = proc[p].saw
      /\ \A q \in Procs \ {p} :
            /\ proc'[q].pc = proc[q].pc /\ proc'[q].at = proc[q].at
            /\ proc'[q].gen = proc[q].gen /\ proc'[q].saw = proc[q].saw
            /\ proc'[q].current => proc[q].current /\ proc[q].at # j
  <2>1. Mine(p) \in JournalRecord /\ "canceling" \in Steps
    BY <1>2 DEF Steps
  <2>2. journal' = journal
    BY <1>1, <1>2, <1>5 DEF Put, TypeOK
  <2> QED BY <1>1, <1>5, <2>1, <2>2, PutFacts
<1> HIDE DEF j, o
<1>8. order' \in [Journals -> VenueOrder] /\ order'[j] = o /\ \A i \in Journals \ {j} : order'[i] = order[i]
  BY <1>2, <1>3, <1>5 DEF TypeOK
<1>9. UNCHANGED <<reserved, exec, payment, elapsed, countVars>>
  BY DEF LaunchCancel
<1>10. TypeOK'
  BY <1>5, <1>7, <1>8, <1>9 DEF TypeOK, countVars
<1>11. OrderInv'
  <2> SUFFICES ASSUME NEW i \in Journals PROVE OrderOk(journal[i], order'[i], payment[i], elapsed[i])
    BY <1>7, <1>9 DEF OrderInv
  <2>1. CASE i = j
    BY <2>1, <1>2, <1>3, <1>8 DEF OrderOk, Open
  <2>2. CASE i # j
    BY <2>2, <1>8 DEF ProcInv, OrderInv
  <2> QED BY <2>1, <2>2
<1>12. \A i \in Journals : order'[i].state = order[i].state
  BY <1>3, <1>8
<1>13. \A q \in Procs : Busy(q)' => /\ Busy(q) /\ proc'[q].at = proc[q].at /\ proc'[q].saw = proc[q].saw
                                     /\ proc[q].at \in Journals
  BY <1>1, <1>5, <1>7 DEF Busy, HasJourney, j
<1>14. AloneInv'
  <2> SUFFICES ASSUME NEW q \in Procs, proc'[q].pc \in {"checked", "marked"}, proc'[q].current
               PROVE  proc[q].pc \in {"checked", "marked"} /\ Current(q) /\ proc'[q].at = proc[q].at
                      /\ proc[q].at \in Journals
    BY <1>12 DEF ProcInv, AloneInv, Current
  <2> QED BY <1>7, <1>13 DEF Busy, Current
<1>15. UnsentInv'
  <2> SUFFICES ASSUME NEW q \in Procs, proc'[q].pc \in CancelUnstarted,
                      journal[proc'[q].at].gen = proc'[q].gen, journal[proc'[q].at].cancel \in Active
               PROVE  ~Canceled(order'[proc'[q].at])
    BY <1>7 DEF UnsentInv, Mine, Canceled, Open
  <2>1. /\ q # p /\ proc[q].pc \in CancelUnstarted /\ proc'[q].at = proc[q].at /\ proc'[q].gen = proc[q].gen
        /\ proc[q].at \in Journals
    BY <1>5, <1>7 DEF CancelUnstarted, HasJourney, Busy
  <2>2. proc[q].at # j
    BY <2>1, <1>1, <1>2 DEF ProcInv, GenInv, CancelUnstarted, CancelSteps, j
  <2> QED BY <2>1, <2>2, <1>8 DEF ProcInv, UnsentInv, Mine
<1>16. SawInv'
  BY <1>12, <1>13 DEF ProcInv, SawInv
<1>17. OneOrderAtVenue'
  BY <1>12 DEF ProcInv, OneOrderAtVenue
<1> QED BY <1>6, <1>10, <1>11, <1>14, <1>15, <1>16, <1>17 DEF ProcInv, LocalInv

-----------------------------------------------------------------------------
(* The shapes of a step: a write, a release, a move *)

LEMMA PlainWriteKeeps ==
    ASSUME ProcInv, NEW p \in Procs, NEW next, NEW step, Busy(p), Write(p, next, step),
           UNCHANGED <<reserved, exec, worldVars, countVars>>,
           GoodWrite(p, next, step, claims), GoodForOrder(p, next, step)
    PROVE  ProcInv'
<1>1. claims' = claims /\ claims' \in Nat /\ faults' \in Nat /\ FilesTyped'
      /\ elapsed' \in [Journals -> SUBSET Deadlines]
  BY DEF ProcInv, TypeOK, FilesTyped, worldVars, countVars
<1>2. claims <= claims'
  BY <1>1
<1>3. Put(p, next, step) /\ UNCHANGED <<order, payment, elapsed>>
  BY DEF Write, worldVars
<1> QED BY <1>1, <1>2, <1>3, WriteKeeps

LEMMA ReleaseKeeps ==
    ASSUME ProcInv, NEW p \in Procs, NEW fields, NEW next, NEW step, Busy(p), Release(p, fields, next, step),
           UNCHANGED <<worldVars, countVars>>,
           GoodWrite(p, Unbound(next, fields), step, claims), GoodForOrder(p, Unbound(next, fields), step)
    PROVE  ProcInv'
<1>1. claims' = claims /\ claims' \in Nat /\ faults' \in Nat /\ elapsed' \in [Journals -> SUBSET Deadlines]
  BY DEF ProcInv, TypeOK, worldVars, countVars
<1>2. claims <= claims'
  BY <1>1
<1>3. FilesTyped'
  BY DEF Release, ProcInv, TypeOK, FilesTyped
<1>4. Put(p, Unbound(next, fields), step) /\ UNCHANGED <<order, payment, elapsed>>
  BY DEF Release, Write, worldVars
<1> QED BY <1>1, <1>2, <1>3, <1>4, WriteKeeps

(* A move to a step that claims nothing beyond what the journal says.      *)
LEMMA GotoKeeps ==
    ASSUME ProcInv, NEW p \in Procs, NEW step \in Steps, NEW saw \in Statuses \cup {None}, Busy(p),
           Become(p, [proc[p] EXCEPT !.pc = step, !.saw = saw]),
           step # "idle" /\ Current(p) => StepOk(step, Mine(p)),
           step \notin CancelUnstarted \cup {"signed"},
           step \in CancelSteps => proc[p].pc \in CancelSteps,
           step \in {"checked", "marked"} /\ Current(p) =>
              order[proc[p].at].state = "none" /\ \A i \in Journals : order[i].state \notin {"sent", "live"},
           step # "idle" /\ saw \in TerminalStatuses => order[proc[p].at].state \in {"canceled", "expired", "filled"},
           FilesTyped', UNCHANGED <<journal, worldVars>>, claims' = claims, faults' \in Nat
    PROVE  ProcInv'
<1> DEFINE new == [proc[p] EXCEPT !.pc = step, !.saw = saw]
           x == IF step = "idle" THEN Idle ELSE new
<1>1. /\ proc[p] \in Process /\ proc[p].at \in Journals /\ proc[p].gen <= claims /\ Mine(p) = journal[proc[p].at]
      /\ Current(p) => (proc[p].pc \in CancelSteps => Mine(p).gen = proc[p].gen)
  BY MineFacts
<1>2. new \in Process /\ new.pc = step /\ new.at = proc[p].at /\ new.current = proc[p].current
      /\ new.gen = proc[p].gen /\ new.saw = saw
  BY <1>1 DEF Process
<1>3. proc' = [proc EXCEPT ![p] = x]
  BY <1>2 DEF Become
<1>4. claims \in Nat /\ claims' \in Nat /\ claims <= claims'
  BY DEF ProcInv, TypeOK
<1>5. Idle \in Process /\ Idle.pc = "idle" /\ Idle.gen = 0
  BY DEF Idle, Process, Steps
<1> HIDE DEF new
<1>6. CASE step = "idle"
  <2>1. GoodMove(p, x)
    BY <1>4, <1>5, <1>6 DEF GoodMove
  <2> QED BY <1>3, <1>4, <2>1, MoveKeeps
<1>7. CASE step # "idle"
  <2>1. GoodMove(p, x)
    BY <1>1, <1>2, <1>7 DEF GoodMove, Current
  <2> QED BY <1>3, <1>4, <2>1, MoveKeeps
<1> QED BY <1>6, <1>7

LEMMA PlainGotoKeeps ==
    ASSUME ProcInv, NEW p \in Procs, NEW step \in Steps, Busy(p), Goto(p, step),
           step # "idle" /\ Current(p) => StepOk(step, Mine(p)),
           step \notin CancelUnstarted \cup {"signed"},
           step \in CancelSteps => proc[p].pc \in CancelSteps,
           step \in {"checked", "marked"} /\ Current(p) =>
              order[proc[p].at].state = "none" /\ \A i \in Journals : order[i].state \notin {"sent", "live"},
           FilesTyped', UNCHANGED <<journal, worldVars>>, claims' = claims, faults' \in Nat
    PROVE  ProcInv'
<1> DEFINE saw == proc[p].saw
<1>1. proc[p] \in Process
  BY MineFacts
<1>2. saw \in Statuses \cup {None}
  BY <1>1 DEF Process
<1>3. [proc[p] EXCEPT !.pc = step] = [proc[p] EXCEPT !.pc = step, !.saw = saw]
  BY <1>1 DEF Process
<1>4. Become(p, [proc[p] EXCEPT !.pc = step, !.saw = saw])
  BY <1>3 DEF Goto
<1>5. saw \in TerminalStatuses => order[proc[p].at].state \in {"canceled", "expired", "filled"}
  BY DEF ProcInv, SawInv
<1> HIDE DEF saw
<1> QED BY <1>2, <1>4, <1>5, GotoKeeps

(* Ending a process is always such a move.                                 *)
LEMMA EndKeeps ==
    ASSUME ProcInv, NEW p \in Procs, Busy(p), Goto(p, "idle"),
           FilesTyped', UNCHANGED <<journal, worldVars>>, claims' = claims, faults' \in Nat
    PROVE  ProcInv'
BY PlainGotoKeeps DEF Steps, CancelUnstarted, CancelSteps

LEMMA FilesStayTyped ==
    ASSUME TypeOK, UNCHANGED <<reserved, exec>> PROVE FilesTyped'
BY DEF TypeOK, FilesTyped

(* What Classify says is a status; a terminal one only of an order that    *)
(* ended.                                                                  *)
LEMMA ClassifyFacts ==
    ASSUME ProcInv, NEW j \in Journals
    PROVE  /\ Classify(j) \in Statuses
           /\ Classify(j) \in TerminalStatuses => order[j].state \in {"canceled", "expired", "filled"}
<1>1. order[j] \in VenueOrder /\ OrderOk(journal[j], order[j], payment[j], elapsed[j])
  BY DEF ProcInv, TypeOK, OrderInv
<1>2. Classify(j) \in Statuses
  BY DEF Classify, Statuses, Partial
<1>3. ASSUME Classify(j) \in TerminalStatuses, order[j].state \notin {"canceled", "expired", "filled"}
      PROVE  FALSE
  <2>1. order[j].matched < Shares
    BY <1>1, <1>3, TakeProfitBounds DEF OrderOk, VenueOrder
  <2>2. Classify(j) \in {"PARTIAL", "UNKNOWN", "ARMED"}
    BY <1>1, <1>3, <2>1, TakeProfitBounds DEF Classify, VenueOrder
  <2> QED BY <1>3, <2>2 DEF TerminalStatuses
<1> QED BY <1>2, <1>3

(* Binding a reservation to its order keeps every owner.                   *)
LEMMA ProgressedFacts ==
    ASSUME ProcInv, NEW p \in Procs, Busy(p), Progressed(p), UNCHANGED exec
    PROVE  /\ FilesTyped'
           /\ \A k \in Keys : reserved[k] # None => reserved'[k] # None /\ reserved'[k].owner = reserved[k].owner
<1> DEFINE k == Mine(p).key
           new == [reserved[k] EXCEPT !.progressed = TRUE]
<1>1. TypeOK /\ k \in Keys /\ Mine(p) = journal[proc[p].at]
  BY MineFacts DEF ProcInv, JournalRecord
<1>2. reserved[k] \in Reservation
  BY <1>1 DEF Progressed, OwnsReservation, TypeOK
<1>3. new \in Reservation /\ new.owner = reserved[k].owner
  BY <1>2 DEF Reservation
<1>4. reserved' = [reserved EXCEPT ![k] = new]
  BY DEF Progressed
<1> HIDE DEF new, k
<1>5. reserved' \in [Keys -> Reservation \cup {None}]
  BY <1>1, <1>3, <1>4 DEF TypeOK
<1>6. \A i \in Keys : reserved[i] # None => reserved'[i] # None /\ reserved'[i].owner = reserved[i].owner
  BY <1>1, <1>3, <1>4, NoneAssumption DEF TypeOK
<1> QED BY <1>1, <1>5, <1>6 DEF FilesTyped, TypeOK

(* Records                                                                 *)
LEMMA UnboundFacts ==
    ASSUME NEW r \in JournalRecord, NEW fields \in SUBSET {"reservation", "exec"}
    PROVE  /\ Unbound(r, fields) \in JournalRecord
           /\ Unbound(r, fields).bound = r.bound \ fields
           /\ Unbound(r, fields).gen = IF "exec" \in fields THEN 0 ELSE r.gen
           /\ Unbound(r, fields).stage = r.stage /\ Unbound(r, fields).cancel = r.cancel
           /\ Unbound(r, fields).signed = r.signed /\ Unbound(r, fields).reply = r.reply
           /\ Unbound(r, fields).key = r.key
<1>1. r.bound \ fields \in SUBSET {"reservation", "exec"}
  BY DEF JournalRecord
<1>2. (IF "exec" \in fields THEN 0 ELSE r.gen) \in Nat
  BY DEF JournalRecord
<1> QED BY <1>1, <1>2 DEF Unbound, JournalRecord

LEMMA NeedsFacts ==
    ASSUME ProcInv, NEW p \in Procs, Busy(p), NEW b \in BOOLEAN, NEW next, next = [Mine(p) EXCEPT !.needs = b]
    PROVE  /\ next \in JournalRecord /\ RecordOk(next)
           /\ OrderOk(next, order[proc[p].at], payment[proc[p].at], elapsed[proc[p].at])
           /\ next.stage = Mine(p).stage /\ next.bound = Mine(p).bound /\ next.gen = Mine(p).gen
           /\ next.signed = Mine(p).signed /\ next.cancel = Mine(p).cancel /\ next.reply = Mine(p).reply
           /\ next.key = Mine(p).key
<1>1. Mine(p) \in JournalRecord /\ RecordOk(Mine(p))
      /\ OrderOk(Mine(p), order[proc[p].at], payment[proc[p].at], elapsed[proc[p].at])
  BY MineFacts
<1>2. /\ next \in JournalRecord
      /\ next.stage = Mine(p).stage /\ next.bound = Mine(p).bound /\ next.gen = Mine(p).gen
      /\ next.signed = Mine(p).signed /\ next.cancel = Mine(p).cancel /\ next.reply = Mine(p).reply
      /\ next.key = Mine(p).key
  BY <1>1 DEF JournalRecord
<1>3. RecordOk(next) /\ OrderOk(next, order[proc[p].at], payment[proc[p].at], elapsed[proc[p].at])
  BY <1>1, <1>2 DEF RecordOk, OrderOk
<1> QED BY <1>2, <1>3

-----------------------------------------------------------------------------
(* Placement *)

LEMMA PlacingKeeps ==
    ASSUME TakeProfitInv, NEW p \in Procs, Placing(p)
    PROVE  ProcInv'
<1> DEFINE j == proc[p].at
           r == Mine(p)
<1>1. ProcInv /\ TypeOK /\ HasJourney
  BY DEF TakeProfitInv, ProcInv
<1>2. Busy(p) => /\ proc[p] \in Process /\ j \in Journals /\ r = journal[j]
                 /\ r \in JournalRecord /\ order[j] \in VenueOrder
                 /\ RecordOk(r) /\ OrderOk(r, order[j], payment[j], elapsed[j])
                 /\ r.gen <= claims /\ proc[p].gen <= claims
                 /\ Current(p) => StepOk(proc[p].pc, r)
  BY <1>1, MineFacts
<1> HIDE DEF j, r
<1> USE DEF Busy, CancelSteps, CancelUnstarted, Active, Placed, Canceled, Open
<1>3. ASSUME NEW next, NEW step, Busy(p), Write(p, next, step),
             UNCHANGED <<reserved, exec, worldVars, countVars>>,
             GoodWrite(p, next, step, claims), GoodForOrder(p, next, step)
      PROVE  ProcInv'
  BY <1>1, <1>3, PlainWriteKeeps
<1>4. CASE ClaimReservation(p)
  <2> DEFINE next == [Stage(p, "starting") EXCEPT !.bound = {"reservation"}, !.needs = TRUE]
  <2>1. Busy(p) /\ Current(p) /\ Put(p, next, "signing")
    BY <1>4 DEF ClaimReservation, Write
  <2>2. r.stage = "requested" /\ order[j].state = "none"
    BY <1>2, <1>4, <2>1 DEF ClaimReservation, StepOk, OrderOk
  <2>3. GoodWrite(p, next, "signing", claims) /\ GoodForOrder(p, next, "signing")
    BY <1>2, <2>1, <2>2
       DEF GoodWrite, GoodForOrder, Stage, StepOk, RecordOk, OrderOk, JournalRecord, Stages, Steps, j, r
  <2>4. FilesTyped' /\ claims' = claims /\ claims' \in Nat /\ faults' \in Nat /\ elapsed' \in [Journals -> SUBSET Deadlines]
    BY <1>1, <1>2, <1>4, <2>1 DEF ClaimReservation, ReservedBy, FilesTyped, TypeOK, Reservation, countVars, worldVars, JournalRecord, j, r
  <2> HIDE DEF next
  <2>5. claims <= claims' /\ UNCHANGED <<order, payment, elapsed>>
    BY <1>1, <1>4, <2>4 DEF ClaimReservation, worldVars, TypeOK
  <2> QED BY <1>1, <2>1, <2>3, <2>4, <2>5, WriteKeeps
<1>5. CASE Sign(p)
  <2> DEFINE next == [Stage(p, "created") EXCEPT !.signed = TRUE]
  <2>1. Busy(p) /\ Current(p) /\ Write(p, next, "signed") /\ UNCHANGED <<reserved, exec, worldVars, countVars>>
    BY <1>5 DEF Sign, Write
  <2>2. r.stage = "starting" /\ order[j].state = "none"
    BY <1>2, <1>5, <2>1 DEF Sign, StepOk, OrderOk
  <2>3. GoodWrite(p, next, "signed", claims) /\ GoodForOrder(p, next, "signed")
    BY <1>2, <2>1, <2>2
       DEF GoodWrite, GoodForOrder, Stage, StepOk, RecordOk, OrderOk, JournalRecord, Stages, Steps, j, r
  <2> QED BY <1>3, <2>1, <2>3
<1>6. CASE SignFails(p)
  <2> DEFINE next == [Stage(p, "withdrawn") EXCEPT !.needs = FALSE]
             new == Unbound(next, {"reservation"})
  <2>1. Busy(p) /\ Current(p) /\ Release(p, {"reservation"}, next, "failing") /\ UNCHANGED <<worldVars, countVars>>
    BY <1>6 DEF SignFails
  <2>2. r.stage = "starting" /\ order[j].state = "none"
    BY <1>2, <1>6, <2>1 DEF SignFails, StepOk, OrderOk
  <2>3. GoodWrite(p, new, "failing", claims) /\ GoodForOrder(p, new, "failing")
    BY <1>2, <2>1, <2>2
       DEF GoodWrite, GoodForOrder, Unbound, Stage, StepOk, RecordOk, OrderOk, JournalRecord, Stages, Steps, j, r
  <2> HIDE DEF next
  <2> QED BY <1>1, <2>1, <2>3, ReleaseKeeps
<1>7. CASE SendPayment(p)
  <2> DEFINE x == [proc[p] EXCEPT !.pc = "paid"]
  <2>1. Busy(p) /\ proc' = [proc EXCEPT ![p] = x] /\ payment' = [payment EXCEPT ![j] = "sent"]
        /\ UNCHANGED <<diskVars, order, elapsed, countVars>>
    BY <1>2, <1>7 DEF SendPayment, Goto, Become, Process, j
  <2>2. GoodMove(p, x)
    BY <1>2, <1>7, <2>1 DEF SendPayment, GoodMove, Process, Steps, StepOk, TerminalStatuses, SawInv, Current, j, r, Mine,
       TakeProfitInv, ProcInv
  <2>3. claims' \in Nat /\ claims <= claims' /\ faults' \in Nat /\ FilesTyped'
    BY <1>1, <2>1, FilesStayTyped DEF TypeOK, diskVars, countVars
  <2>5. payment' \in [Journals -> {"unsent", "sent", "used"}]
    BY <1>1, <2>1 DEF TypeOK
  <2>4. OrderInv'
    <3> SUFFICES ASSUME NEW i \in Journals PROVE OrderOk(journal[i], order[i], payment'[i], elapsed[i])
      BY <2>1 DEF OrderInv, diskVars
    <3>1. OrderOk(journal[i], order[i], payment[i], elapsed[i])
      BY <1>1 DEF ProcInv, OrderInv
    <3>2. CASE i = j
      <4>1. r.signed
        BY <1>1, <1>7 DEF ProcInv, SignedInv, SendPayment, r
      <4> QED BY <1>1, <1>2, <2>1, <3>1, <3>2, <4>1 DEF TypeOK, OrderOk
    <3>3. CASE i # j
      BY <1>1, <1>2, <2>1, <3>1, <3>3 DEF TypeOK
    <3> QED BY <3>2, <3>3
  <2> HIDE DEF x
  <2> QED BY <1>1, <2>1, <2>2, <2>3, <2>4, <2>5, PaidMoveKeeps DEF diskVars
<1>8. CASE ReceiveCard(p)
  <2> DEFINE paid == [Stage(p, "verified") EXCEPT !.needs = TRUE]
             lost == [Stage(p, "ambiguous") EXCEPT !.needs = TRUE]
  <2>1. /\ Busy(p) /\ Current(p) /\ UNCHANGED <<reserved, exec, worldVars, countVars>>
        /\ Write(p, paid, "ready") \/ Write(p, lost, "failing")
    BY <1>8 DEF ReceiveCard, Write
  <2>2. r.stage = "created" /\ order[j].state = "none"
    BY <1>2, <1>8, <2>1 DEF ReceiveCard, StepOk, OrderOk
  <2>3. GoodWrite(p, paid, "ready", claims) /\ GoodForOrder(p, paid, "ready")
    BY <1>2, <2>1, <2>2
       DEF GoodWrite, GoodForOrder, Stage, StepOk, RecordOk, OrderOk, JournalRecord, Stages, Steps, j, r
  <2>4. GoodWrite(p, lost, "failing", claims) /\ GoodForOrder(p, lost, "failing")
    BY <1>2, <2>1, <2>2
       DEF GoodWrite, GoodForOrder, Stage, StepOk, RecordOk, OrderOk, JournalRecord, Stages, Steps, j, r
  <2> HIDE DEF paid, lost
  <2> QED BY <1>3, <2>1, <2>3, <2>4
<1>9. CASE ConfirmTrade(p)
  <2> DEFINE next == Stage(p, "confirmed")
  <2>1. Busy(p) /\ Current(p) /\ Write(p, next, "ready") /\ UNCHANGED <<reserved, exec, worldVars, countVars>>
    BY <1>9 DEF ConfirmTrade, Write
  <2>2. r.stage = "verified" /\ order[j].state = "none"
    BY <1>2, <1>9, <2>1 DEF ConfirmTrade, OrderOk, r
  <2>3. GoodWrite(p, next, "ready", claims) /\ GoodForOrder(p, next, "ready")
    BY <1>2, <2>1, <2>2
       DEF GoodWrite, GoodForOrder, Stage, StepOk, RecordOk, OrderOk, JournalRecord, Stages, Steps, j, r
  <2> HIDE DEF next
  <2> QED BY <1>3, <2>1, <2>3
<1>10. CASE ClaimExec(p)
  <2> DEFINE next == [Stage(p, "locked") EXCEPT !.bound = @ \cup {"exec"}, !.gen = claims + 1]
  <2>1. Busy(p) /\ Current(p) /\ Put(p, next, "locked")
    BY <1>10 DEF ClaimExec, Write
  <2>2. r.stage = "confirmed" /\ order[j].state = "none"
    BY <1>2, <1>10, <2>1 DEF ClaimExec, OrderOk, r
  <2>3. claims \in Nat /\ claims' = claims + 1
    BY <1>1, <1>10 DEF ClaimExec, TypeOK
  <2>4. /\ next \in JournalRecord /\ next.stage = "locked" /\ next.bound = r.bound \cup {"exec"}
        /\ next.gen = claims + 1 /\ next.signed = r.signed /\ next.cancel = r.cancel /\ next.reply = r.reply
    <3> DEFINE base == Stage(p, "locked")
    <3>1. /\ base \in JournalRecord /\ base.stage = "locked" /\ base.bound = r.bound
          /\ base.signed = r.signed /\ base.cancel = r.cancel /\ base.reply = r.reply
      BY <1>2, <2>1 DEF Stage, JournalRecord, Stages, r
    <3>2. next = [base EXCEPT !.bound = base.bound \cup {"exec"}, !.gen = claims + 1]
      OBVIOUS
    <3>3. base.bound \cup {"exec"} \in SUBSET {"reservation", "exec"} /\ claims + 1 \in Nat
      BY <2>3, <3>1 DEF JournalRecord
    <3> HIDE DEF base, next
    <3> QED BY <3>1, <3>2, <3>3 DEF JournalRecord
  <2> HIDE DEF next
  <2>7. GoodWrite(p, next, "locked", claims')
    BY <1>2, <2>1, <2>2, <2>3, <2>4 DEF GoodWrite, StepOk, RecordOk, Steps, j, r
  <2>8. GoodForOrder(p, next, "locked")
    BY <1>2, <2>1, <2>2, <2>3, <2>4 DEF GoodForOrder, RecordOk, OrderOk, j, r
  <2>5. FilesTyped' /\ faults' \in Nat /\ elapsed' \in [Journals -> SUBSET Deadlines]
        /\ UNCHANGED <<order, payment, elapsed>>
    BY <1>1, <1>2, <1>10, <2>1, <2>3 DEF ClaimExec, NewExec, FilesTyped, TypeOK, ExecLock, worldVars, j, r
  <2>6. claims' \in Nat /\ claims <= claims'
    BY <2>3
  <2> QED BY <1>1, <2>1, <2>5, <2>6, <2>7, <2>8, WriteKeeps
<1>11. CASE ClaimRefused(p)
  <2> DEFINE next == [Stage(p, "blocked") EXCEPT !.needs = TRUE]
  <2>1. Busy(p) /\ Current(p) /\ Write(p, next, "failing") /\ UNCHANGED <<reserved, exec, worldVars, countVars>>
    BY <1>11 DEF ClaimRefused, Write
  <2>2. r.stage = "confirmed" /\ order[j].state = "none"
    BY <1>2, <1>11, <2>1 DEF ClaimRefused, OrderOk, r
  <2>3. GoodWrite(p, next, "failing", claims) /\ GoodForOrder(p, next, "failing")
    BY <1>2, <2>1, <2>2
       DEF GoodWrite, GoodForOrder, Stage, StepOk, RecordOk, OrderOk, JournalRecord, Stages, Steps, j, r
  <2> HIDE DEF next
  <2> QED BY <1>3, <2>1, <2>3
<1>12. CASE CheckLocked(p)
  <2>1. Busy(p) /\ Goto(p, "checked") /\ UNCHANGED <<diskVars, worldVars, countVars>>
    BY <1>12 DEF CheckLocked
  <2>2. ASSUME Current(p)
        PROVE  /\ StepOk("checked", r)
               /\ order[j].state = "none" /\ \A i \in Journals : order[i].state \notin {"sent", "live"}
    <3>1. r.stage = "locked" /\ order[j].state = "none"
      BY <1>2, <1>12, <2>1, <2>2 DEF CheckLocked, StepOk, OrderOk
    <3>2. OwnsExec(j)
      BY <1>2, <2>1, <3>1 DEF RecordOk, TakeProfitInv, BackedInv
    <3>3. ASSUME NEW i \in Journals, order[i].state = "sent" PROVE FALSE
      <4>1. "exec" \in journal[i].bound
        BY <1>1, <3>3 DEF ProcInv, OrderInv, RecordInv, OrderOk, RecordOk
      <4>2. OwnsExec(i)
        BY <4>1 DEF TakeProfitInv, BackedInv
      <4> QED BY <3>1, <3>2, <3>3, <4>2 DEF OwnsExec
    <3>4. \A i \in Journals : order[i].state # "live"
      BY <1>12 DEF CheckLocked, Sellable, Resting
    <3> QED BY <3>1, <3>3, <3>4 DEF StepOk
  <2>3. FilesTyped' /\ UNCHANGED <<journal, worldVars>> /\ claims' = claims /\ faults' \in Nat
    BY <1>1, <2>1, FilesStayTyped DEF TypeOK, diskVars, countVars
  <2>4. "checked" \in Steps
    BY DEF Steps
  <2> QED BY <1>1, <2>1, <2>2, <2>3, <2>4, PlainGotoKeeps DEF j, r
<1>13. CASE MarkAttempted(p)
  <2> DEFINE next == Stage(p, "attempted")
  <2>1. Busy(p) /\ Current(p) /\ Write(p, next, "marked") /\ UNCHANGED <<reserved, exec, worldVars, countVars>>
    BY <1>13 DEF MarkAttempted, Write
  <2>2. r.stage = "locked" /\ order[j].state = "none" /\ proc[p].pc = "checked"
    BY <1>2, <1>13, <2>1 DEF MarkAttempted, StepOk, OrderOk
  <2>3. GoodWrite(p, next, "marked", claims) /\ GoodForOrder(p, next, "marked")
    BY <1>2, <2>1, <2>2
       DEF GoodWrite, GoodForOrder, Stage, StepOk, RecordOk, OrderOk, JournalRecord, Stages, Steps, j, r
  <2> HIDE DEF next
  <2> QED BY <1>3, <2>1, <2>3
<1>14. CASE Launch(p)
  BY <1>14, LaunchKeeps
<1>15. CASE PreSpawnFailure(p)
  <2> DEFINE next == [Stage(p, "blocked") EXCEPT !.needs = TRUE]
  <2>1. Busy(p) /\ Current(p) /\ Write(p, next, "settling") /\ UNCHANGED <<reserved, exec, worldVars, countVars>>
    BY <1>15 DEF PreSpawnFailure, PreSpawn, Write
  <2>2. r.stage \in {"locked", "attempted"} /\ order[j].state = "none"
    BY <1>1, <1>2, <1>15, <2>1 DEF PreSpawnFailure, PreSpawn, StepOk, OrderOk, ProcInv, AloneInv, j
  <2>3. GoodWrite(p, next, "settling", claims) /\ GoodForOrder(p, next, "settling")
    BY <1>2, <2>1, <2>2
       DEF GoodWrite, GoodForOrder, Stage, StepOk, RecordOk, OrderOk, JournalRecord, Stages, Steps, j, r
  <2> HIDE DEF next
  <2> QED BY <1>3, <2>1, <2>3
<1>16. CASE SettlePrelaunch(p)
  <2> DEFINE new == Unbound(Mine(p), {"exec"})
  <2>1. Busy(p) /\ Current(p) /\ Release(p, {"exec"}, Mine(p), "failing") /\ UNCHANGED <<worldVars, countVars>>
    BY <1>16 DEF SettlePrelaunch, Release, Write
  <2>2. r.stage = "blocked"
    BY <1>2, <1>16, <2>1 DEF SettlePrelaunch, StepOk
  <2>3. /\ new \in JournalRecord /\ new.bound = r.bound \ {"exec"} /\ new.gen = 0 /\ new.stage = r.stage
        /\ new.cancel = r.cancel /\ new.signed = r.signed /\ new.reply = r.reply
    BY <1>2, <2>1, UnboundFacts DEF r
  <2> HIDE DEF new
  <2>4. GoodWrite(p, new, "failing", claims)
    BY <1>1, <1>2, <2>1, <2>2, <2>3 DEF GoodWrite, StepOk, RecordOk, Steps, TypeOK, r
  <2>5. GoodForOrder(p, new, "failing")
    BY <1>2, <2>1, <2>2, <2>3 DEF GoodForOrder, RecordOk, OrderOk, j
  <2> QED BY <1>1, <2>1, <2>4, <2>5, ReleaseKeeps DEF new
<1>17. CASE PersistResult(p)
  <2>0. PICK reply \in LiveReplies :
           /\ reply = "rejected" => order[j].state = "refused"
           /\ Write(p, [Stage(p, "result") EXCEPT !.reply = reply], "returned")
    BY <1>17 DEF PersistResult, LiveReplies, j
  <2> DEFINE next == [Stage(p, "result") EXCEPT !.reply = reply]
  <2>1. Busy(p) /\ Current(p) /\ Write(p, next, "returned") /\ UNCHANGED <<reserved, exec, worldVars, countVars>>
    BY <1>17, <2>0 DEF PersistResult, Write, j
  <2>2. r.stage = "attempted" /\ order[j].state # "sent"
    BY <1>2, <1>17, <2>1 DEF PersistResult, StepOk, j
  <2>3. GoodWrite(p, next, "returned", claims) /\ GoodForOrder(p, next, "returned")
    BY <1>2, <2>1, <2>2, <2>0
       DEF GoodWrite, GoodForOrder, Stage, StepOk, RecordOk, OrderOk, JournalRecord, Stages, Steps, j, r
  <2> HIDE DEF next
  <2> QED BY <1>3, <2>1, <2>3
<1>18. CASE FetchExactOrder(p)
  <2> DEFINE saw == Classify(j)
  <2>1. Busy(p) /\ r.stage = "result" /\ UNCHANGED <<diskVars, worldVars, countVars>>
    BY <1>2, <1>18 DEF FetchExactOrder, PrePassport, j, r
  <2>2. /\ saw \in Statuses
        /\ saw \in TerminalStatuses => order[j].state \in {"canceled", "expired", "filled"}
    BY <1>1, <1>2, <2>1, ClassifyFacts
  <2>3. PICK step \in {"fetched", "refetched"} : Become(p, [proc[p] EXCEPT !.pc = step, !.saw = saw])
    BY <1>18 DEF FetchExactOrder, Fetch, j
  <2>4. FilesTyped' /\ UNCHANGED <<journal, worldVars>> /\ claims' = claims /\ faults' \in Nat
    BY <1>1, <2>1, FilesStayTyped DEF TypeOK, diskVars, countVars
  <2> HIDE DEF saw
  <2>5. StepOk(step, Mine(p)) /\ step \in Steps /\ step \notin CancelUnstarted \cup {"signed"}
        /\ step \notin CancelSteps \cup {"checked", "marked"}
    BY <2>1 DEF StepOk, Steps, r
  <2> QED BY <1>1, <2>1, <2>2, <2>3, <2>4, <2>5, GotoKeeps DEF j
<1>19. CASE PersistPassport(p)
  <2> DEFINE next == Passport(p)
  <2>1. Busy(p) /\ Current(p) /\ Write(p, next, "passported") /\ UNCHANGED <<reserved, exec, worldVars, countVars>>
    BY <1>19 DEF PersistPassport, Write
  <2>2. r.stage = "result" /\ proc[p].saw \in Statuses \cup {None}
    BY <1>2, <1>19, <2>1 DEF PersistPassport, StepOk, Process
  <2>3. GoodWrite(p, next, "passported", claims) /\ GoodForOrder(p, next, "passported")
    BY <1>2, <2>1, <2>2
       DEF GoodWrite, GoodForOrder, Stage, StepOk, RecordOk, OrderOk, JournalRecord, Stages, Steps, j, r, Passport
  <2> HIDE DEF next
  <2> QED BY <1>3, <2>1, <2>3
<1>20. CASE ProgressReservation(p)
  <2> DEFINE step == IF Mine(p).stage = "armed" THEN "progressed" ELSE "idle"
  <2>1. Busy(p) /\ Progressed(p) /\ Goto(p, step) /\ UNCHANGED <<journal, exec, worldVars, countVars>>
    BY <1>20 DEF ProgressReservation
  <2>2. FilesTyped' /\ UNCHANGED <<journal, worldVars>> /\ claims' = claims /\ faults' \in Nat
    BY <1>1, <2>1, ProgressedFacts DEF TypeOK, countVars
  <2>3. step # "idle" /\ Current(p) => StepOk(step, Mine(p))
    BY <1>2, <1>20, <2>1 DEF ProgressReservation, StepOk, r
  <2>4. step \in Steps /\ step \notin CancelUnstarted \cup CancelSteps \cup {"signed", "checked", "marked"}
    BY DEF Steps
  <2> HIDE DEF step
  <2> QED BY <1>1, <2>1, <2>2, <2>3, <2>4, PlainGotoKeeps
<1>21. CASE SettleArmed(p)
  <2> DEFINE next == [Mine(p) EXCEPT !.needs = FALSE]
             new == Unbound(next, {"exec"})
  <2>1. Busy(p) /\ Current(p) /\ Release(p, {"exec"}, next, "idle") /\ UNCHANGED <<worldVars, countVars>>
    BY <1>21 DEF SettleArmed, Release, Write
  <2>2. r.stage = "armed" /\ r.cancel = "none"
    BY <1>2, <1>21, <2>1 DEF SettleArmed, StepOk
  <2>3. /\ next \in JournalRecord /\ next.bound = r.bound /\ next.stage = r.stage
        /\ next.cancel = r.cancel /\ next.signed = r.signed /\ next.reply = r.reply
    BY <1>1, <2>1, NeedsFacts DEF r
  <2> HIDE DEF next
  <2>4. /\ new \in JournalRecord /\ new.bound = r.bound \ {"exec"} /\ new.gen = 0 /\ new.stage = r.stage
        /\ new.cancel = r.cancel /\ new.signed = r.signed /\ new.reply = r.reply
    BY <2>3, UnboundFacts
  <2> HIDE DEF new
  <2>5. GoodWrite(p, new, "idle", claims)
    BY <1>1, <1>2, <2>1, <2>2, <2>4 DEF GoodWrite, RecordOk, Steps, TypeOK, r
  <2>6. GoodForOrder(p, new, "idle")
    BY <1>2, <2>1, <2>2, <2>4 DEF GoodForOrder, RecordOk, OrderOk, j
  <2> QED BY <1>1, <2>1, <2>5, <2>6, ReleaseKeeps DEF new
<1>22. CASE GiveUp(p)
  <2>1. Busy(p) /\ FinalCheckpoint(p) /\ UNCHANGED <<reserved, exec, worldVars, countVars>>
    BY <1>22 DEF GiveUp, PreSpawn
  <2>2. CASE Current(p)
    <3> DEFINE next == [Mine(p) EXCEPT !.needs = Mine(p).signed \/ "reservation" \in Mine(p).bound]
    <3>1. Write(p, next, "idle")
      BY <2>1, <2>2 DEF FinalCheckpoint
    <3>2. (Mine(p).signed \/ "reservation" \in Mine(p).bound) \in BOOLEAN
      OBVIOUS
    <3>3. /\ next \in JournalRecord /\ RecordOk(next) /\ OrderOk(next, order[j], payment[j], elapsed[j])
          /\ next.gen = Mine(p).gen /\ next.signed = Mine(p).signed /\ next.cancel = Mine(p).cancel
      BY <1>1, <2>1, <3>2, NeedsFacts DEF j
    <3>4. GoodWrite(p, next, "idle", claims) /\ GoodForOrder(p, next, "idle")
      BY <1>2, <2>1, <3>3 DEF GoodWrite, GoodForOrder, Steps, r, j
    <3> HIDE DEF next
    <3> QED BY <1>3, <2>1, <3>1, <3>4
  <2>3. CASE ~Current(p)
    <3>1. Goto(p, "idle") /\ UNCHANGED <<journal, worldVars>> /\ claims' = claims /\ faults' \in Nat /\ FilesTyped'
      BY <1>1, <2>1, <2>3, FilesStayTyped DEF FinalCheckpoint, TypeOK, countVars
    <3> QED BY <1>1, <2>1, <3>1, EndKeeps
  <2> QED BY <2>2, <2>3
<1> QED BY <1>4, <1>5, <1>6, <1>7, <1>8, <1>9, <1>10, <1>11, <1>12, <1>13, <1>14, <1>15, <1>16, <1>17, <1>18,
           <1>19, <1>20, <1>21, <1>22 DEF Placing

-----------------------------------------------------------------------------
(* Cancellation *)

LEMMA CancelingKeeps ==
    ASSUME TakeProfitInv, NEW p \in Procs, Canceling(p)
    PROVE  ProcInv'
<1> DEFINE j == proc[p].at
           r == Mine(p)
<1>1. ProcInv /\ TypeOK /\ HasJourney
  BY DEF TakeProfitInv, ProcInv
<1>2. Busy(p) => /\ proc[p] \in Process /\ j \in Journals /\ r = journal[j]
                 /\ r \in JournalRecord /\ order[j] \in VenueOrder
                 /\ RecordOk(r) /\ OrderOk(r, order[j], payment[j], elapsed[j])
                 /\ r.gen <= claims /\ proc[p].gen <= claims
                 /\ Current(p) => /\ StepOk(proc[p].pc, r)
                                  /\ proc[p].pc \in CancelSteps => r.gen = proc[p].gen
  BY <1>1, MineFacts
<1> HIDE DEF j, r
<1> USE DEF Busy, CancelSteps, CancelUnstarted, Active, Placed, Canceled, Open
<1>3. ASSUME NEW next, NEW step, Busy(p), Write(p, next, step),
             UNCHANGED <<reserved, exec, worldVars, countVars>>,
             GoodWrite(p, next, step, claims), GoodForOrder(p, next, step)
      PROVE  ProcInv'
  BY <1>1, <1>3, PlainWriteKeeps
<1>4. CASE ClaimCancel(p)
  <2> DEFINE next == [Mine(p) EXCEPT !.cancel = "lock_acquired", !.needs = TRUE,
                                     !.bound = @ \cup {"exec"}, !.gen = claims + 1]
  <2>1. Busy(p) /\ Current(p) /\ "exec" \notin r.bound /\ Put(p, next, "claimed")
    BY <1>4 DEF ClaimCancel, Claimable, Write, r
  <2>2. r.stage \in Placed /\ ~Canceled(order[j])
    BY <1>2, <1>4, <2>1 DEF ClaimCancel, StepOk, RecordOk, OrderOk
  <2>3. claims \in Nat /\ claims' = claims + 1
    BY <1>1, <1>4 DEF ClaimCancel, TypeOK
  <2>4. /\ next \in JournalRecord /\ next.stage = r.stage /\ next.bound = r.bound \cup {"exec"}
        /\ next.gen = claims + 1 /\ next.signed = r.signed /\ next.cancel = "lock_acquired" /\ next.reply = r.reply
    <3>1. r.bound \cup {"exec"} \in SUBSET {"reservation", "exec"} /\ claims + 1 \in Nat /\ r \in JournalRecord
      BY <1>2, <2>1, <2>3 DEF JournalRecord
    <3>2. next = [r EXCEPT !.cancel = "lock_acquired", !.needs = TRUE,
                           !.bound = r.bound \cup {"exec"}, !.gen = claims + 1]
      BY DEF r
    <3>3. "lock_acquired" \in Phases
      BY DEF Phases
    <3> HIDE DEF next
    <3> QED BY <3>1, <3>2, <3>3 DEF JournalRecord
  <2> HIDE DEF next
  <2>5. GoodWrite(p, next, "claimed", claims')
    BY <1>2, <2>1, <2>2, <2>3, <2>4 DEF GoodWrite, StepOk, RecordOk, Steps, j, r
  <2>6. GoodForOrder(p, next, "claimed")
    BY <1>2, <2>1, <2>2, <2>3, <2>4 DEF GoodForOrder, RecordOk, OrderOk, j, r
  <2>7. /\ FilesTyped' /\ faults' \in Nat /\ UNCHANGED <<order, payment>>
        /\ elapsed' = [elapsed EXCEPT ![j] = elapsed[j] \ {"launch"}]
    BY <1>1, <1>2, <1>4, <2>1, <2>3 DEF ClaimCancel, NewExec, FilesTyped, TypeOK, ExecLock, j, r
  <2>8. /\ elapsed' \in [Journals -> SUBSET Deadlines]
        /\ \A i \in Journals : "auth" \in elapsed[i] => "auth" \in elapsed'[i]
    BY <1>1, <1>2, <2>1, <2>7 DEF TypeOK
  <2>9. claims' \in Nat /\ claims <= claims'
    BY <2>3
  <2> QED BY <1>1, <2>1, <2>5, <2>6, <2>7, <2>8, <2>9, WriteKeeps
<1>5. CASE MarkCancelAttempted(p)
  <2> DEFINE next == [Mine(p) EXCEPT !.cancel = "attempted"]
  <2>1. Busy(p) /\ Current(p) /\ Write(p, next, "cancelMarked") /\ UNCHANGED <<reserved, exec, worldVars, countVars>>
    BY <1>5 DEF MarkCancelAttempted, Write
  <2>2. r.stage \in Placed /\ r.cancel = "lock_acquired" /\ r.gen = proc[p].gen /\ ~Canceled(order[j])
        /\ proc[p].pc = "claimed"
    BY <1>2, <1>5, <2>1 DEF MarkCancelAttempted, StepOk, OrderOk
  <2>3. /\ next \in JournalRecord /\ next.stage = r.stage /\ next.bound = r.bound /\ next.gen = r.gen
        /\ next.signed = r.signed /\ next.cancel = "attempted" /\ next.reply = r.reply
    BY <1>2, <2>1 DEF JournalRecord, Phases, r
  <2> HIDE DEF next
  <2>4. GoodWrite(p, next, "cancelMarked", claims)
    BY <1>2, <2>1, <2>2, <2>3 DEF GoodWrite, StepOk, RecordOk, Steps, j, r
  <2>5. GoodForOrder(p, next, "cancelMarked")
    BY <1>2, <2>1, <2>2, <2>3 DEF GoodForOrder, RecordOk, OrderOk, j, r
  <2> QED BY <1>3, <2>1, <2>4, <2>5
<1>6. CASE LaunchCancel(p)
  BY <1>1, <1>6, LaunchCancelKeeps
<1>7. CASE PersistCancelResult(p)
  <2>1. Busy(p) /\ Current(p) /\ Write(p, Mine(p), "canceled") /\ UNCHANGED <<reserved, exec, worldVars, countVars>>
    BY <1>7 DEF PersistCancelResult, Write
  <2>2. r.stage \in Placed /\ r.cancel = "attempted" /\ r.gen = proc[p].gen /\ proc[p].pc = "canceling"
    BY <1>2, <1>7, <2>1 DEF PersistCancelResult, StepOk
  <2>3. GoodWrite(p, Mine(p), "canceled", claims) /\ GoodForOrder(p, Mine(p), "canceled")
    BY <1>2, <2>1, <2>2 DEF GoodWrite, GoodForOrder, StepOk, Steps, j, r
  <2> QED BY <1>3, <2>1, <2>3
<1>8. CASE FetchAfterCancel(p)
  <2>1. Busy(p) /\ proc[p].pc = "canceled" /\ UNCHANGED <<diskVars, worldVars, countVars>>
    BY <1>8 DEF FetchAfterCancel
  <2>2. PICK saw \in {Classify(j), "UNKNOWN"} : Become(p, [proc[p] EXCEPT !.pc = "judged", !.saw = saw])
    BY <1>8 DEF FetchAfterCancel, Observe, j
  <2>3. saw \in Statuses /\ (saw \in TerminalStatuses => order[j].state \in {"canceled", "expired", "filled"})
    BY <1>1, <1>2, <2>1, ClassifyFacts DEF Statuses, TerminalStatuses
  <2>4. FilesTyped' /\ UNCHANGED <<journal, worldVars>> /\ claims' = claims /\ faults' \in Nat
    BY <1>1, <2>1, FilesStayTyped DEF TypeOK, diskVars, countVars
  <2>5. Current(p) => StepOk("judged", Mine(p))
    BY <1>2, <2>1 DEF StepOk, r
  <2>6. "judged" \in Steps
    BY DEF Steps
  <2> QED BY <1>1, <2>1, <2>2, <2>3, <2>4, <2>5, <2>6, GotoKeeps DEF j
<1>9. CASE RecordOutcome(p)
  <2> DEFINE next == [Mine(p) EXCEPT !.needs = TRUE]
  <2>1. Busy(p) /\ Current(p) /\ Write(p, next, "outcome") /\ UNCHANGED <<reserved, exec, worldVars, countVars>>
    BY <1>9 DEF RecordOutcome, Write
  <2>2. r.stage \in Placed /\ r.cancel = "attempted" /\ r.gen = proc[p].gen /\ proc[p].pc = "judged"
    BY <1>2, <1>9, <2>1 DEF RecordOutcome, StepOk
  <2>3. /\ next \in JournalRecord /\ RecordOk(next) /\ OrderOk(next, order[j], payment[j], elapsed[j])
        /\ next.gen = r.gen /\ next.signed = r.signed /\ next.cancel = r.cancel /\ next.stage = r.stage
    BY <1>1, <2>1, NeedsFacts DEF j, r
  <2> HIDE DEF next
  <2>4. GoodWrite(p, next, "outcome", claims) /\ GoodForOrder(p, next, "outcome")
    BY <1>2, <2>1, <2>2, <2>3 DEF GoodWrite, GoodForOrder, StepOk, Steps, j, r
  <2> QED BY <1>3, <2>1, <2>4
<1>10. CASE SettleCancel(p)
  <2>1. Busy(p) /\ proc[p].pc = "outcome" /\ UNCHANGED <<worldVars, countVars>>
    BY <1>10 DEF SettleCancel
  <2>2. CASE Resolved(p)
    <3> DEFINE next == CancelEnds(p, "terminal")
               new == Unbound(next, {"exec"})
    <3>1. Release(p, {"exec"}, next, "idle") /\ Current(p)
      BY <1>10, <2>2 DEF SettleCancel, Release, Write
    <3>2. r.stage \in Placed
      BY <1>2, <2>1, <3>1 DEF StepOk
    <3>3. order[j].state \in {"canceled", "expired", "filled"} /\ order[j].settled = order[j].matched
      BY <1>1, <2>1, <2>2 DEF Resolved, Finalized, ProcInv, SawInv, j
    <3>4. next = [r EXCEPT !.cancel = "terminal", !.needs = FALSE] /\ "terminal" \in Phases
      BY DEF CancelEnds, Phases, r
    <3> HIDE DEF next
    <3>5. /\ next \in JournalRecord /\ next.bound = r.bound /\ next.stage = r.stage
          /\ next.cancel = "terminal" /\ next.signed = r.signed /\ next.reply = r.reply
      BY <1>2, <2>1, <3>4 DEF JournalRecord
    <3>6. /\ new \in JournalRecord /\ new.bound = r.bound \ {"exec"} /\ new.gen = 0 /\ new.stage = r.stage
          /\ new.cancel = "terminal" /\ new.signed = r.signed /\ new.reply = r.reply
      BY <3>5, UnboundFacts
    <3> HIDE DEF new
    <3>7. GoodWrite(p, new, "idle", claims)
      BY <1>1, <1>2, <2>1, <3>2, <3>6 DEF GoodWrite, RecordOk, Steps, TypeOK, r
    <3>8. GoodForOrder(p, new, "idle")
      BY <1>2, <2>1, <3>2, <3>3, <3>6 DEF GoodForOrder, RecordOk, OrderOk, j
    <3> QED BY <1>1, <2>1, <3>1, <3>7, <3>8, ReleaseKeeps DEF new
  <2>3. CASE ~Resolved(p)
    <3>1. Goto(p, "idle") /\ UNCHANGED <<journal, worldVars>> /\ claims' = claims /\ faults' \in Nat /\ FilesTyped'
      BY <1>1, <1>10, <2>1, <2>3, FilesStayTyped DEF SettleCancel, TypeOK, countVars, diskVars
    <3> QED BY <1>1, <2>1, <3>1, EndKeeps
  <2> QED BY <2>2, <2>3
<1>11. CASE CancelFails(p)
  <2>1. Busy(p) /\ UNCHANGED <<worldVars, countVars>>
    BY <1>11 DEF CancelFails
  <2>2. /\ claims' = claims /\ claims' \in Nat /\ claims <= claims' /\ faults' \in Nat
        /\ elapsed' \in [Journals -> SUBSET Deadlines] /\ UNCHANGED <<order, payment, elapsed>>
    BY <1>1, <2>1 DEF TypeOK, countVars, worldVars
  <2>3. CASE ~LocallyOwned(p)
    <3>1. Goto(p, "idle") /\ UNCHANGED <<journal, worldVars>> /\ FilesTyped'
      BY <1>1, <1>11, <2>1, <2>3, FilesStayTyped DEF CancelFails, diskVars
    <3> QED BY <1>1, <2>1, <2>2, <3>1, EndKeeps
  <2>4. CASE LocallyOwned(p) /\ proc[p].pc \in CancelUnstarted
    <3> DEFINE next == CancelEnds(p, "pre_spawn_failed")
               new == Unbound(next, {"exec"})
    <3>1. Put(p, new, "idle") /\ exec' = None /\ UNCHANGED reserved
      BY <1>11, <2>4 DEF CancelFails
    <3>2. r.stage \in Placed /\ ~Canceled(order[j])
      BY <1>1, <1>2, <2>1, <2>4 DEF LocallyOwned, RecordOk, ProcInv, UnsentInv, j, r
    <3>3. next = [r EXCEPT !.cancel = "pre_spawn_failed", !.needs = FALSE] /\ "pre_spawn_failed" \in Phases
      BY DEF CancelEnds, Phases, r
    <3> HIDE DEF next
    <3>4. /\ next \in JournalRecord /\ next.bound = r.bound /\ next.stage = r.stage
          /\ next.cancel = "pre_spawn_failed" /\ next.signed = r.signed /\ next.reply = r.reply
      BY <1>2, <2>1, <3>3 DEF JournalRecord
    <3>5. /\ new \in JournalRecord /\ new.bound = r.bound \ {"exec"} /\ new.gen = 0 /\ new.stage = r.stage
          /\ new.cancel = "pre_spawn_failed" /\ new.signed = r.signed /\ new.reply = r.reply
      BY <3>4, UnboundFacts
    <3> HIDE DEF new
    <3>6. GoodWrite(p, new, "idle", claims')
      BY <1>2, <2>1, <2>2, <3>2, <3>5 DEF GoodWrite, RecordOk, Steps, r
    <3>7. GoodForOrder(p, new, "idle")
      BY <1>2, <2>1, <3>2, <3>5 DEF GoodForOrder, RecordOk, OrderOk, j
    <3>8. FilesTyped'
      BY <1>1, <3>1 DEF TypeOK, FilesTyped
    <3> QED BY <1>1, <2>1, <2>2, <3>1, <3>6, <3>7, <3>8, WriteKeeps
  <2>5. CASE LocallyOwned(p) /\ proc[p].pc \notin CancelUnstarted
    <3> DEFINE next == [Mine(p) EXCEPT !.needs = TRUE]
    <3>1. Put(p, next, "idle") /\ FilesTyped'
      BY <1>1, <1>11, <2>5, FilesStayTyped DEF CancelFails
    <3>2. /\ next \in JournalRecord /\ RecordOk(next) /\ OrderOk(next, order[j], payment[j], elapsed[j])
          /\ next.gen = r.gen /\ next.signed = r.signed /\ next.cancel = r.cancel /\ next.stage = r.stage
      BY <1>1, <2>1, NeedsFacts DEF j, r
    <3> HIDE DEF next
    <3>3. GoodWrite(p, next, "idle", claims') /\ GoodForOrder(p, next, "idle")
      BY <1>2, <2>1, <2>2, <3>2 DEF GoodWrite, GoodForOrder, Steps, j, r
    <3> QED BY <1>1, <2>1, <2>2, <3>1, <3>3, WriteKeeps
  <2> QED BY <2>3, <2>4, <2>5
<1> QED BY <1>4, <1>5, <1>6, <1>7, <1>8, <1>9, <1>10, <1>11 DEF Canceling

-----------------------------------------------------------------------------
(* Reconciliation *)

LEMMA ReconcilingKeeps ==
    ASSUME TakeProfitInv, NEW p \in Procs, Reconciling(p)
    PROVE  ProcInv'
<1> DEFINE j == proc[p].at
           r == Mine(p)
<1>1. ProcInv /\ TypeOK /\ HasJourney
  BY DEF TakeProfitInv, ProcInv
<1>2. Busy(p) => /\ proc[p] \in Process /\ j \in Journals /\ r = journal[j]
                 /\ r \in JournalRecord /\ order[j] \in VenueOrder
                 /\ RecordOk(r) /\ OrderOk(r, order[j], payment[j], elapsed[j])
                 /\ r.gen <= claims /\ proc[p].gen <= claims
                 /\ Current(p) => StepOk(proc[p].pc, r)
  BY <1>1, MineFacts
<1> HIDE DEF j, r
<1> USE DEF Busy, CancelSteps, CancelUnstarted, Active, Placed, Canceled, Open
<1>3. ASSUME NEW next, NEW fields, Busy(p), Release(p, fields, next, "idle"), UNCHANGED <<worldVars, countVars>>,
             GoodWrite(p, Unbound(next, fields), "idle", claims), GoodForOrder(p, Unbound(next, fields), "idle")
      PROVE  ProcInv'
  BY <1>1, <1>3, ReleaseKeeps
<1>4. CASE ReconcileRejected(p)
  <2> DEFINE next == [Stage(p, "rejected") EXCEPT !.needs = FALSE]
             new == Unbound(next, {"exec"})
  <2>1. Busy(p) /\ Release(p, {"exec"}, next, "idle") /\ UNCHANGED <<worldVars, countVars>>
    BY <1>4 DEF ReconcileRejected
  <2>2. r.stage = "result" /\ r.reply = "rejected" /\ r.cancel = "none"
    BY <1>2, <1>4, <2>1 DEF ReconcileRejected, DefinitivelyRejected, RecordOk, j
  <2>3. /\ next \in JournalRecord /\ next.bound = r.bound /\ next.stage = "rejected"
        /\ next.cancel = r.cancel /\ next.signed = r.signed /\ next.reply = r.reply
    BY <1>2, <2>1 DEF Stage, JournalRecord, Stages, r
  <2> HIDE DEF next
  <2>4. /\ new \in JournalRecord /\ new.bound = r.bound \ {"exec"} /\ new.gen = 0 /\ new.stage = "rejected"
        /\ new.cancel = r.cancel /\ new.signed = r.signed /\ new.reply = r.reply
    BY <2>3, UnboundFacts
  <2> HIDE DEF new
  <2>5. GoodWrite(p, new, "idle", claims)
    BY <1>1, <1>2, <2>1, <2>2, <2>4 DEF GoodWrite, RecordOk, Steps, TypeOK, r
  <2>6. GoodForOrder(p, new, "idle")
    BY <1>2, <2>1, <2>2, <2>4 DEF GoodForOrder, RecordOk, OrderOk, j
  <2> QED BY <1>3, <2>1, <2>5, <2>6 DEF new
<1>5. CASE ReconcileAuthorization(p)
  <2> DEFINE next == [Stage(p, "unused") EXCEPT !.needs = FALSE]
             new == Unbound(next, {"reservation"})
  <2>1. Busy(p) /\ Release(p, {"reservation"}, next, "idle") /\ UNCHANGED <<worldVars, countVars>>
    BY <1>5 DEF ReconcileAuthorization
  <2>2. r.stage \in AuthorizationStages /\ r.cancel = "none" /\ order[j].state = "none"
        /\ payment[j] # "used" /\ "auth" \in elapsed[j] /\ r.signed
    BY <1>2, <1>5, <2>1
       DEF ReconcileAuthorization, AuthorizationStages, RecordOk, OrderOk, ExpiredUnused, Passed, j, r
  <2>3. /\ next \in JournalRecord /\ next.bound = r.bound /\ next.stage = "unused" /\ next.gen = r.gen
        /\ next.cancel = r.cancel /\ next.signed = r.signed /\ next.reply = r.reply
    BY <1>2, <2>1 DEF Stage, JournalRecord, Stages, r
  <2> HIDE DEF next
  <2>4. /\ new \in JournalRecord /\ new.bound = r.bound \ {"reservation"} /\ new.gen = r.gen
        /\ new.stage = "unused" /\ new.cancel = r.cancel /\ new.signed = r.signed /\ new.reply = r.reply
    BY <2>3, UnboundFacts
  <2> HIDE DEF new
  <2>5. GoodWrite(p, new, "idle", claims)
    BY <1>1, <1>2, <2>1, <2>2, <2>4 DEF GoodWrite, RecordOk, Steps, TypeOK, r
  <2>6. GoodForOrder(p, new, "idle")
    BY <1>2, <2>1, <2>2, <2>4 DEF GoodForOrder, RecordOk, OrderOk, j
  <2> QED BY <1>3, <2>1, <2>5, <2>6 DEF new
<1>6. CASE Sweep(p)
  <2>1. Busy(p) /\ Goto(p, "swept") /\ exec' \in {exec, None} /\ UNCHANGED <<journal, reserved, worldVars, countVars>>
    BY <1>6 DEF Sweep
  <2>2. FilesTyped' /\ UNCHANGED <<journal, worldVars>> /\ claims' = claims /\ faults' \in Nat
    BY <1>1, <2>1 DEF TypeOK, FilesTyped, countVars
  <2>3. StepOk("swept", Mine(p)) /\ "swept" \in Steps
    BY DEF StepOk, Steps
  <2> QED BY <1>1, <2>1, <2>2, <2>3, PlainGotoKeeps
<1>7. CASE ReconcileUnstarted(p)
  <2> DEFINE next == [Stage(p, "expired") EXCEPT !.needs = FALSE]
             new == Unbound(next, r.bound)
  <2>1. Busy(p) /\ Release(p, r.bound, next, "idle") /\ UNCHANGED <<worldVars, countVars>>
    BY <1>7 DEF ReconcileUnstarted, LooksUnstarted, r
  <2>2. r.stage \in Unstarted /\ r.cancel = "none" /\ order[j].state = "none"
    BY <1>2, <1>7, <2>1 DEF ReconcileUnstarted, Unstarted, RecordOk, OrderOk, r
  <2>3. /\ next \in JournalRecord /\ next.bound = r.bound /\ next.stage = "expired" /\ next.gen = r.gen
        /\ next.cancel = r.cancel /\ next.signed = r.signed /\ next.reply = r.reply
    BY <1>2, <2>1 DEF Stage, JournalRecord, Stages, r
  <2>4. r.bound \in SUBSET {"reservation", "exec"} /\ claims \in Nat
    BY <1>1, <1>2, <2>1 DEF JournalRecord, TypeOK
  <2> HIDE DEF next
  <2>5. /\ new \in JournalRecord /\ new.gen \in {0, r.gen}
        /\ new.stage = "expired" /\ new.cancel = r.cancel /\ new.signed = r.signed /\ new.reply = r.reply
    BY <2>3, <2>4, UnboundFacts
  <2> HIDE DEF new
  <2>6. GoodWrite(p, new, "idle", claims)
    BY <1>2, <2>1, <2>2, <2>4, <2>5 DEF GoodWrite, RecordOk, Steps, r
  <2>7. GoodForOrder(p, new, "idle")
    BY <1>2, <2>1, <2>2, <2>5 DEF GoodForOrder, RecordOk, OrderOk, Unstarted, j
  <2> QED BY <1>3, <2>1, <2>6, <2>7 DEF new
<1>8. CASE RecoverPassport(p)
  <2> DEFINE next == [Passport(p) EXCEPT !.recovery = "pending"]
  <2>1. Busy(p) /\ Current(p) /\ Write(p, next, "recovered") /\ UNCHANGED <<reserved, exec, worldVars, countVars>>
    BY <1>8 DEF RecoverPassport, Write
  <2>2. r.stage = "result" /\ proc[p].saw \in Statuses \cup {None}
    BY <1>2, <1>8, <2>1 DEF RecoverPassport, StepOk, Process
  <2>4. /\ next \in JournalRecord /\ next.bound = r.bound /\ next.stage \in Placed /\ next.gen = r.gen
        /\ next.cancel = r.cancel /\ next.signed = r.signed /\ next.reply = r.reply
    <3> DEFINE base == Passport(p)
    <3>1. /\ base \in JournalRecord /\ base.bound = r.bound /\ base.stage \in Placed /\ base.gen = r.gen
          /\ base.cancel = r.cancel /\ base.signed = r.signed /\ base.reply = r.reply
      BY <1>2, <2>1, <2>2 DEF Passport, Stage, JournalRecord, Stages, r
    <3> HIDE DEF base
    <3>2. next = [base EXCEPT !.recovery = "pending"]
      BY DEF base
    <3> HIDE DEF next
    <3> QED BY <3>1, <3>2 DEF JournalRecord
  <2> HIDE DEF next
  <2>5. GoodWrite(p, next, "recovered", claims)
    BY <1>2, <2>1, <2>2, <2>4 DEF GoodWrite, StepOk, RecordOk, Steps, r
  <2>3. GoodForOrder(p, next, "recovered")
    BY <1>2, <2>1, <2>2, <2>4 DEF GoodForOrder, RecordOk, OrderOk, j
  <2> QED BY <1>1, <2>1, <2>3, <2>5, PlainWriteKeeps
<1>9. CASE TrackRecovered(p)
  <2>1. Busy(p) /\ Progressed(p) /\ Goto(p, "known") /\ UNCHANGED <<journal, exec, worldVars, countVars>>
    BY <1>9 DEF TrackRecovered
  <2>2. FilesTyped' /\ UNCHANGED <<journal, worldVars>> /\ claims' = claims /\ faults' \in Nat
    BY <1>1, <2>1, ProgressedFacts DEF TypeOK, countVars
  <2>3. Current(p) => StepOk("known", Mine(p))
    BY <1>2, <1>9, <2>1 DEF TrackRecovered, StepOk, r
  <2>4. "known" \in Steps
    BY DEF Steps
  <2> QED BY <1>1, <2>1, <2>2, <2>3, <2>4, PlainGotoKeeps
<1>10. CASE ReconcileCancel(p)
  <2> DEFINE next == CancelEnds(p, "expired_unattempted")
             new == Unbound(next, {"exec"})
  <2>1. Busy(p) /\ Release(p, {"exec"}, next, "idle") /\ UNCHANGED <<worldVars, countVars>>
    BY <1>10 DEF ReconcileCancel
  <2>2. r.stage \in Placed /\ r.cancel = "lock_acquired"
    BY <1>10 DEF ReconcileCancel, r
  <2>3. next = [r EXCEPT !.cancel = "expired_unattempted", !.needs = FALSE] /\ "expired_unattempted" \in Phases
    BY DEF CancelEnds, Phases, r
  <2> HIDE DEF next
  <2>4. /\ next \in JournalRecord /\ next.bound = r.bound /\ next.stage = r.stage
        /\ next.cancel = "expired_unattempted" /\ next.signed = r.signed /\ next.reply = r.reply
    BY <1>2, <2>1, <2>3 DEF JournalRecord
  <2>5. /\ new \in JournalRecord /\ new.bound = r.bound \ {"exec"} /\ new.gen = 0 /\ new.stage = r.stage
        /\ new.cancel = "expired_unattempted" /\ new.signed = r.signed /\ new.reply = r.reply
    BY <2>4, UnboundFacts
  <2> HIDE DEF new
  <2>6. GoodWrite(p, new, "idle", claims)
    BY <1>1, <1>2, <2>1, <2>2, <2>5 DEF GoodWrite, RecordOk, Steps, TypeOK, r
  <2>7. GoodForOrder(p, new, "idle")
    BY <1>2, <2>1, <2>2, <2>5 DEF GoodForOrder, RecordOk, OrderOk, j
  <2> QED BY <1>3, <2>1, <2>6, <2>7 DEF new
<1>11. CASE Track(p)
  <2>1. Busy(p) /\ Progressed(p) /\ UNCHANGED <<journal, exec, worldVars, countVars>>
        /\ Mine(p).stage \in Placed /\ Mine(p).cancel \in {"none", "attempted"}
    BY <1>11 DEF Track
  <2>2. PICK saw \in {Classify(j), "UNKNOWN"} : Become(p, [proc[p] EXCEPT !.pc = "known", !.saw = saw])
    BY <1>11 DEF Track, Observe, j
  <2>3. saw \in Statuses /\ (saw \in TerminalStatuses => order[j].state \in {"canceled", "expired", "filled"})
    BY <1>1, <1>2, <2>1, ClassifyFacts DEF Statuses, TerminalStatuses
  <2>4. FilesTyped' /\ UNCHANGED <<journal, worldVars>> /\ claims' = claims /\ faults' \in Nat
    BY <1>1, <2>1, ProgressedFacts DEF TypeOK, countVars
  <2>5. StepOk("known", Mine(p)) /\ "known" \in Steps
    BY <2>1 DEF StepOk, Steps
  <2> QED BY <1>1, <2>1, <2>2, <2>3, <2>4, <2>5, GotoKeeps DEF j
<1>12. CASE SettleRecovered(p)
  <2> DEFINE next == [Mine(p) EXCEPT !.needs = FALSE, !.recovery = "released"]
             new == Unbound(next, {"exec"})
  <2>1. Busy(p) /\ Current(p) /\ Release(p, {"exec"}, next, "idle") /\ UNCHANGED <<worldVars, countVars>>
    BY <1>12 DEF SettleRecovered, Release, Write
  <2>2. r.stage \in Placed /\ r.cancel = "none"
    BY <1>2, <1>12, <2>1 DEF SettleRecovered, StepOk, r
  <2>3. /\ next \in JournalRecord /\ next.bound = r.bound /\ next.stage = r.stage
        /\ next.cancel = r.cancel /\ next.signed = r.signed /\ next.reply = r.reply
    BY <1>2, <2>1 DEF JournalRecord, r
  <2> HIDE DEF next
  <2>4. /\ new \in JournalRecord /\ new.bound = r.bound \ {"exec"} /\ new.gen = 0 /\ new.stage = r.stage
        /\ new.cancel = r.cancel /\ new.signed = r.signed /\ new.reply = r.reply
    BY <2>3, UnboundFacts
  <2> HIDE DEF new
  <2>5. GoodWrite(p, new, "idle", claims)
    BY <1>1, <1>2, <2>1, <2>2, <2>4 DEF GoodWrite, RecordOk, Steps, TypeOK, r
  <2>6. GoodForOrder(p, new, "idle")
    BY <1>2, <2>1, <2>2, <2>4 DEF GoodForOrder, RecordOk, OrderOk, j
  <2> QED BY <1>3, <2>1, <2>5, <2>6 DEF new
<1>13. CASE SettleResolved(p)
  <2> DEFINE phase == IF Mine(p).cancel = "attempted" THEN "terminal" ELSE Mine(p).cancel
             next == CancelEnds(p, phase)
             new == Unbound(next, {"exec"})
  <2>1. Busy(p) /\ Current(p) /\ Release(p, {"exec"}, next, "idle") /\ UNCHANGED <<worldVars, countVars>>
    BY <1>13 DEF SettleResolved, Release, Write
  <2>2. r.stage \in Placed /\ phase \in Phases \ Active
    BY <1>2, <1>13, <2>1 DEF SettleResolved, StepOk, Phases, JournalRecord, r
  <2>3. order[j].state \in {"canceled", "expired", "filled"} /\ order[j].settled = order[j].matched
    BY <1>1, <1>13, <2>1 DEF SettleResolved, Resolved, Finalized, ProcInv, SawInv, j
  <2> HIDE DEF phase
  <2>4. next = [r EXCEPT !.cancel = phase, !.needs = FALSE]
    BY DEF CancelEnds, r
  <2> HIDE DEF next
  <2>5. /\ next \in JournalRecord /\ next.bound = r.bound /\ next.stage = r.stage
        /\ next.cancel = phase /\ next.signed = r.signed /\ next.reply = r.reply
    BY <1>2, <2>1, <2>2, <2>4 DEF JournalRecord
  <2>6. /\ new \in JournalRecord /\ new.bound = r.bound \ {"exec"} /\ new.gen = 0 /\ new.stage = r.stage
        /\ new.cancel = phase /\ new.signed = r.signed /\ new.reply = r.reply
    BY <2>5, UnboundFacts
  <2> HIDE DEF new
  <2>7. GoodWrite(p, new, "idle", claims)
    BY <1>1, <1>2, <2>1, <2>2, <2>6 DEF GoodWrite, RecordOk, Steps, TypeOK, r
  <2>8. GoodForOrder(p, new, "idle")
    BY <1>2, <2>1, <2>2, <2>3, <2>6 DEF GoodForOrder, RecordOk, OrderOk, j
  <2> QED BY <1>3, <2>1, <2>7, <2>8 DEF new, next
<1> QED BY <1>4, <1>5, <1>6, <1>7, <1>8, <1>9, <1>10, <1>11, <1>12, <1>13 DEF Reconciling

-----------------------------------------------------------------------------
(* Commands that begin or end, the venue, the chain and the clock *)

LEMMA StartKeeps ==
    ASSUME ProcInv, NEW p \in Procs, NEW j \in Journals, Start(p, j)
    PROVE  ProcInv'
<1> DEFINE x == [Idle EXCEPT !.pc = "asked", !.at = j, !.current = TRUE]
           r == [journal[j] EXCEPT !.stage = "requested"]
<1>1. /\ TypeOK /\ HasJourney /\ journal[j] \in JournalRecord /\ journal[j].stage = "fresh" /\ RecordOk(journal[j])
      /\ OrderOk(journal[j], order[j], payment[j], elapsed[j]) /\ claims \in Nat /\ proc[p] = Idle
  BY DEF ProcInv, TypeOK, Start, RecordInv, OrderInv
<1>2. /\ x \in Process /\ x.pc = "asked" /\ x.at = j /\ x.current = TRUE /\ x.gen = 0 /\ x.saw = None
  BY DEF Idle, Process, Steps
<1>3. /\ r \in JournalRecord /\ r.stage = "requested" /\ r.bound = journal[j].bound /\ r.gen = journal[j].gen
      /\ r.signed = journal[j].signed /\ r.cancel = journal[j].cancel /\ r.reply = journal[j].reply
  BY <1>1 DEF JournalRecord, Stages
<1>4. proc' = [proc EXCEPT ![p] = x] /\ journal' = [journal EXCEPT ![j] = r]
      /\ UNCHANGED <<reserved, exec, worldVars, countVars>>
  BY <1>2 DEF Start, Become
<1> HIDE DEF x, r
<1>5. /\ proc'[p] = x /\ \A q \in Procs \ {p} : proc'[q] = proc[q]
      /\ journal'[j] = r /\ \A i \in Journals \ {j} : journal'[i] = journal[i]
      /\ proc' \in [Procs -> Process] /\ journal' \in [Journals -> JournalRecord]
  BY <1>1, <1>2, <1>3, <1>4 DEF TypeOK
<1> USE DEF worldVars, countVars
<1>6. TypeOK'
  BY <1>1, <1>4, <1>5 DEF TypeOK
<1>7. HasJourney'
  BY <1>1, <1>2, <1>5 DEF HasJourney, Busy
<1>8. StepInv'
  <2> SUFFICES ASSUME NEW q \in Procs, Busy(q)', Current(q)'
               PROVE  /\ StepOk(proc'[q].pc, journal'[proc'[q].at])
                      /\ proc'[q].pc \in CancelSteps => journal'[proc'[q].at].gen = proc'[q].gen
    BY DEF StepInv, Mine
  <2>1. CASE q = p
    BY <2>1, <1>2, <1>3, <1>5 DEF StepOk, CancelSteps
  <2>2. CASE q # p
    <3>1. /\ proc'[q] = proc[q] /\ proc[q].at \in Journals /\ StepOk(proc[q].pc, journal[proc[q].at])
          /\ proc[q].pc \in CancelSteps => journal[proc[q].at].gen = proc[q].gen
      BY <2>2, <1>1, <1>5 DEF HasJourney, Busy, Current, ProcInv, StepInv, Mine
    <3>2. CASE proc[q].at = j
      BY <3>1, <3>2, <1>1, <1>3, <1>5 DEF StepOk, Placed, CancelSteps
    <3> QED BY <3>1, <3>2, <1>5
  <2> QED BY <2>1, <2>2
<1>9. RecordInv'
  <2>1. RecordOk(r)
    BY <1>1, <1>3 DEF RecordOk, Placed, Active
  <2> QED BY <1>5, <2>1 DEF ProcInv, RecordInv
<1>10. OrderInv'
  <2> SUFFICES ASSUME NEW i \in Journals PROVE OrderOk(journal'[i], order[i], payment[i], elapsed[i])
    BY <1>4 DEF OrderInv
  <2>1. CASE i = j
    BY <2>1, <1>1, <1>3, <1>5 DEF OrderOk, Placed, Open
  <2>2. CASE i # j
    BY <2>2, <1>5 DEF ProcInv, OrderInv
  <2> QED BY <2>1, <2>2
<1>11. \A q \in Procs : journal'[proc[q].at] # journal[proc[q].at] => proc[q].at = j
  BY <1>1, <1>4 DEF TypeOK
<1>12. \A q \in Procs : proc[q].at = j => /\ journal'[proc[q].at].signed = Mine(q).signed
                                         /\ journal'[proc[q].at].gen = Mine(q).gen
                                         /\ journal'[proc[q].at].cancel = Mine(q).cancel
  BY <1>3, <1>5 DEF Mine
<1>13. SignedInv'
  BY <1>2, <1>5, <1>11, <1>12 DEF ProcInv, SignedInv, Mine
<1>14. AloneInv'
  BY <1>2, <1>4, <1>5 DEF ProcInv, AloneInv, Current
<1>15. GenInv'
  <2>1. (\A i \in Journals : journal'[i].gen <= claims) /\ (\A q \in Procs : proc'[q].gen <= claims)
    BY <1>1, <1>2, <1>3, <1>5 DEF ProcInv, GenInv
  <2>2. x.pc \notin CancelSteps
    BY <1>2 DEF CancelSteps
  <2> QED BY <1>4, <1>5, <2>1, <2>2 DEF ProcInv, GenInv
<1>16. UnsentInv'
  <2>1. x.pc \notin CancelUnstarted
    BY <1>2 DEF CancelUnstarted
  <2> QED BY <1>4, <1>5, <1>11, <1>12, <2>1 DEF ProcInv, UnsentInv, Mine, Canceled, Open
<1>17. SawInv'
  BY <1>2, <1>4, <1>5, NoneAssumption DEF ProcInv, SawInv, Busy, TerminalStatuses
<1>18. OneOrderAtVenue'
  BY <1>4 DEF ProcInv, OneOrderAtVenue
<1> QED BY <1>6, <1>7, <1>8, <1>9, <1>10, <1>13, <1>14, <1>15, <1>16, <1>17, <1>18 DEF ProcInv

(* PromptCancel and Reconcile begin, a crash or a death ends.              *)
LEMMA BeginKeeps ==
    ASSUME ProcInv, NEW p \in Procs, NEW j \in Journals, PromptCancel(p, j) \/ Reconcile(p, j)
    PROVE  ProcInv'
<1> DEFINE step == IF PromptCancel(p, j) THEN "prompted" ELSE "judging"
           x == [Idle EXCEPT !.pc = step, !.at = j, !.current = TRUE]
<1>1. step = "prompted" => journal[j].stage \in Placed
  BY DEF PromptCancel
<1>2. step \in {"prompted", "judging"} /\ Become(p, x) /\ UNCHANGED <<diskVars, worldVars, countVars>>
  BY DEF PromptCancel, Reconcile
<1> HIDE DEF step
<1>3. /\ x \in Process /\ x.pc = step /\ x.at = j /\ x.current = TRUE /\ x.gen = 0 /\ x.saw = None
  BY <1>2 DEF Idle, Process, Steps
<1>4. proc' = [proc EXCEPT ![p] = x]
  BY <1>2, <1>3 DEF Become
<1> HIDE DEF x
<1>5. claims \in Nat /\ claims' = claims /\ faults' \in Nat /\ FilesTyped' /\ UNCHANGED <<journal, worldVars>>
  BY <1>2, FilesStayTyped DEF ProcInv, TypeOK, countVars, diskVars
<1>6. GoodMove(p, x)
  BY <1>1, <1>2, <1>3, <1>5, NoneAssumption
     DEF GoodMove, StepOk, CancelSteps, CancelUnstarted, TerminalStatuses
<1>7. claims' \in Nat /\ claims <= claims'
  BY <1>5
<1> QED BY <1>4, <1>5, <1>6, <1>7, MoveKeeps

LEMMA DiesKeeps ==
    ASSUME ProcInv, NEW p \in Procs,
           Leave(p) \/ Crash(p) \/ ClaimReservationDies(p) \/ ClaimDies(p)
    PROVE  ProcInv'
<1>1. TypeOK /\ HasJourney
  BY DEF ProcInv
<1>2. Busy(p) /\ Goto(p, "idle") /\ UNCHANGED <<journal, worldVars>>
  BY DEF Leave, Crash, ClaimReservationDies, ClaimDies, Busy, diskVars
<1>3. proc[p] \in Process /\ proc[p].at \in Journals /\ Mine(p) \in JournalRecord
  BY <1>1, <1>2, BusyFacts
<1>4. FilesTyped'
  <2>1. CASE Leave(p) \/ Crash(p)
    BY <1>1, <2>1, FilesStayTyped DEF Leave, Crash, diskVars
  <2>2. CASE ClaimReservationDies(p)
    BY <1>1, <1>3, <2>2 DEF ClaimReservationDies, ReservedBy, TypeOK, FilesTyped, Reservation, JournalRecord
  <2>3. CASE ClaimDies(p)
    BY <1>1, <1>3, <2>3 DEF ClaimDies, NewExec, TypeOK, FilesTyped, ExecLock
  <2> QED BY <2>1, <2>2, <2>3
<1>5. claims \in Nat /\ claims' \in {claims, claims + 1} /\ faults' \in Nat
  BY <1>1 DEF TypeOK, Leave, Crash, ClaimReservationDies, ClaimDies, countVars
<1>6. proc' = [proc EXCEPT ![p] = Idle]
  BY <1>3, <1>2 DEF Goto, Become, Process
<1>7. GoodMove(p, Idle)
  BY <1>5 DEF GoodMove, Idle, Process, Steps
<1>8. claims' \in Nat /\ claims <= claims'
  BY <1>5
<1> QED BY <1>2, <1>4, <1>5, <1>6, <1>7, <1>8, MoveKeeps

LEMMA VenueKeeps ==
    ASSUME ProcInv, NEW j \in Journals, Venue(j) \/ Fill(j)
    PROVE  ProcInv'
<1> DEFINE o == order[j]
<1>1. /\ o \in VenueOrder /\ OrderOk(journal[j], o, payment[j], elapsed[j]) /\ RecordOk(journal[j])
  BY DEF ProcInv, TypeOK, OrderInv, RecordInv
<1>2. Shares \in Nat \ {0}
  BY TakeProfitBounds
<1>3. CASE AnswerOrder(j)
  <2>1. PICK state \in {"live", "refused"} : ChangeOrder(j, [o EXCEPT !.state = state])
    BY <1>3 DEF AnswerOrder
  <2> DEFINE n == [o EXCEPT !.state = state]
  <2>2. n \in VenueOrder /\ n.state = state /\ n.matched = o.matched /\ n.settled = o.settled /\ n.canceling = o.canceling
    BY <1>1 DEF VenueOrder
  <2>3. o.state = "sent"
    BY <1>3 DEF AnswerOrder
  <2> HIDE DEF n
  <2>4. GoodOrder(j, n)
    BY <1>1, <1>2, <2>2, <2>3 DEF GoodOrder, OrderOk, RecordOk, Placed, Open, Canceled
  <2> QED BY <2>1, <2>4, OrderKeeps DEF n
<1>4. CASE ExpireOrder(j)
  <2> DEFINE n == [o EXCEPT !.state = "expired"]
  <2>1. o.state = "live" /\ ChangeOrder(j, n)
    BY <1>4 DEF ExpireOrder
  <2>2. n \in VenueOrder /\ n.state = "expired" /\ n.matched = o.matched /\ n.settled = o.settled /\ n.canceling = o.canceling
    BY <1>1 DEF VenueOrder
  <2> HIDE DEF n
  <2>3. GoodOrder(j, n)
    BY <1>1, <2>1, <2>2 DEF GoodOrder, OrderOk, Open, Canceled
  <2> QED BY <2>1, <2>3, OrderKeeps
<1>5. CASE AnswerCancel(j)
  <2>1. PICK state \in {o.state, IF o.state = "live" THEN "canceled" ELSE o.state} :
           ChangeOrder(j, [o EXCEPT !.state = state, !.canceling = FALSE])
    BY <1>5 DEF AnswerCancel
  <2> DEFINE n == [o EXCEPT !.state = state, !.canceling = FALSE]
  <2>2. n \in VenueOrder /\ n.state = state /\ n.matched = o.matched /\ n.settled = o.settled /\ ~n.canceling
    BY <1>1 DEF VenueOrder
  <2> HIDE DEF n
  <2>3. GoodOrder(j, n)
    BY <1>1, <2>1, <2>2 DEF GoodOrder, OrderOk, Open, Canceled
  <2> QED BY <2>1, <2>3, OrderKeeps DEF n
<1>6. CASE SettleTrades(j)
  <2> DEFINE n == [o EXCEPT !.settled = o.matched]
  <2>1. ChangeOrder(j, n)
    BY <1>6 DEF SettleTrades
  <2>2. n \in VenueOrder /\ n.state = o.state /\ n.matched = o.matched /\ n.settled = o.matched /\ n.canceling = o.canceling
    BY <1>1 DEF VenueOrder
  <2> HIDE DEF n
  <2>3. GoodOrder(j, n)
    BY <1>1, <2>2 DEF GoodOrder, OrderOk, Open, Canceled
  <2> QED BY <2>1, <2>3, OrderKeeps
<1>7. CASE Fill(j)
  <2> DEFINE state == IF o.matched + 1 = Shares THEN "filled" ELSE "live"
             n == [o EXCEPT !.matched = o.matched + 1, !.state = state]
  <2>1. o.state = "live" /\ ChangeOrder(j, n)
    BY <1>7 DEF Fill
  <2>2. o.matched < Shares /\ o.matched \in 0..Shares
    BY <1>1, <2>1 DEF OrderOk, VenueOrder
  <2>3. o.matched + 1 \in 0..Shares /\ (state = "live" => o.matched + 1 < Shares) /\ state \in {"filled", "live"}
    BY <1>2, <2>2
  <2> HIDE DEF state
  <2>4. n \in VenueOrder /\ n.state = state /\ n.matched = o.matched + 1 /\ n.settled = o.settled /\ n.canceling = o.canceling
    BY <1>1, <2>3 DEF VenueOrder
  <2> HIDE DEF n
  <2>5. GoodOrder(j, n)
    BY <1>1, <2>1, <2>3, <2>4 DEF GoodOrder, OrderOk, Open, Canceled
  <2> QED BY <2>1, <2>5, OrderKeeps
<1> QED BY <1>3, <1>4, <1>5, <1>6, <1>7 DEF Venue

LEMMA ClockKeeps ==
    ASSUME ProcInv, NEW j \in Journals, SettlePayment(j) \/ \E deadline \in Deadlines : Elapse(j, deadline)
    PROVE  ProcInv'
<1>1. TypeOK /\ \A i \in Journals : OrderOk(journal[i], order[i], payment[i], elapsed[i])
  BY DEF ProcInv, OrderInv
<1>2. CASE SettlePayment(j)
  <2>1. /\ UNCHANGED <<diskVars, proc, order, countVars>> /\ elapsed' = elapsed
        /\ payment' = [payment EXCEPT ![j] = "used"] /\ payment[j] = "sent" /\ "auth" \notin elapsed[j]
    BY <1>2 DEF SettlePayment, Passed
  <2>2. payment' \in [Journals -> {"unsent", "sent", "used"}] /\ elapsed' \in [Journals -> SUBSET Deadlines]
    BY <1>1, <2>1 DEF TypeOK
  <2>3. OrderInv'
    BY <1>1, <2>1 DEF OrderInv, OrderOk, TypeOK, diskVars
  <2> QED BY <2>1, <2>2, <2>3, TimeKeeps
<1>3. CASE \E deadline \in Deadlines : Elapse(j, deadline)
  <2>1. PICK deadline \in Deadlines : elapsed' = [elapsed EXCEPT ![j] = @ \cup {deadline}]
    BY <1>3 DEF Elapse
  <2>2. UNCHANGED <<diskVars, proc, order, countVars>> /\ payment' = payment
    BY <1>3 DEF Elapse
  <2>3. payment' \in [Journals -> {"unsent", "sent", "used"}] /\ elapsed' \in [Journals -> SUBSET Deadlines]
        /\ \A i \in Journals : elapsed[i] \subseteq elapsed'[i]
    BY <1>1, <2>1, <2>2 DEF TypeOK
  <2>4. OrderInv'
    BY <1>1, <2>2, <2>3 DEF OrderInv, OrderOk, diskVars
  <2> QED BY <2>2, <2>3, <2>4, TimeKeeps
<1> QED BY <1>2, <1>3

-----------------------------------------------------------------------------
(* Every lock a journal is bound to has its file *)

(* One journal changes, and only files that are its own or new.            *)
LEMMA BackedLocal ==
    ASSUME TypeOK, BackedInv, NEW j \in Journals, NEW next, journal' = [journal EXCEPT ![j] = next],
           next.key = journal[j].key,
           \A k \in Keys : reserved[k] # None /\ reserved[k].owner # j =>
                              reserved'[k] # None /\ reserved'[k].owner = reserved[k].owner,
           exec # None /\ exec.owner # j => exec' = exec,
           "reservation" \in next.bound => reserved'[next.key] # None /\ reserved'[next.key].owner = j,
           "exec" \in next.bound => exec' # None /\ exec'.owner = j /\ exec'.gen = next.gen
    PROVE  BackedInv'
<1> SUFFICES ASSUME NEW i \in Journals
             PROVE  /\ "reservation" \in journal'[i].bound => OwnsReservation(i)'
                    /\ "exec" \in journal'[i].bound => OwnsExec(i)'
  BY DEF BackedInv
<1>1. CASE i = j
  BY <1>1 DEF OwnsReservation, OwnsExec, TypeOK
<1>2. CASE i # j
  <2>1. journal'[i] = journal[i] /\ journal[i].key \in Keys
    BY <1>2 DEF TypeOK, JournalRecord
  <2>2. "reservation" \in journal[i].bound => OwnsReservation(i)
    BY DEF BackedInv
  <2>3. "exec" \in journal[i].bound => OwnsExec(i)
    BY DEF BackedInv
  <2> QED BY <1>2, <2>1, <2>2, <2>3 DEF OwnsReservation, OwnsExec
<1> QED BY <1>1, <1>2

(* A journal that keeps its locks. *)
SameLocks(p, next) == next.key = Mine(p).key /\ next.bound = Mine(p).bound /\ next.gen = Mine(p).gen

LEMMA PutBacked ==
    ASSUME TakeProfitInv, NEW p \in Procs, NEW next, NEW step, Busy(p), Put(p, next, step),
           SameLocks(p, next), UNCHANGED <<reserved, exec>>
    PROVE  BackedInv'
<1> DEFINE j == proc[p].at
<1>1. TypeOK /\ BackedInv /\ j \in Journals /\ Mine(p) = journal[j]
  BY MineFacts DEF TakeProfitInv, ProcInv
<1>2. /\ "reservation" \in journal[j].bound => OwnsReservation(j)
      /\ "exec" \in journal[j].bound => OwnsExec(j)
  BY <1>1 DEF BackedInv
<1>3. journal' = [journal EXCEPT ![j] = next]
  BY DEF Put
<1> HIDE DEF j
<1> QED BY <1>1, <1>2, <1>3, BackedLocal DEF SameLocks, OwnsReservation, OwnsExec

LEMMA ReleaseBacked ==
    ASSUME TakeProfitInv, NEW p \in Procs, NEW next \in JournalRecord, NEW step, Busy(p),
           NEW fields \in SUBSET {"reservation", "exec"}, Release(p, fields, next, step), SameLocks(p, next)
    PROVE  BackedInv'
<1> DEFINE j == proc[p].at
           new == Unbound(next, fields)
<1>1. TypeOK /\ BackedInv /\ j \in Journals /\ Mine(p) = journal[j] /\ journal[j].key \in Keys
  BY MineFacts DEF TakeProfitInv, ProcInv, JournalRecord
<1>2. /\ "reservation" \in journal[j].bound => OwnsReservation(j)
      /\ "exec" \in journal[j].bound => OwnsExec(j)
  BY <1>1 DEF BackedInv
<1>3. journal' = [journal EXCEPT ![j] = new]
  BY DEF Release, Write, Put
<1>4. /\ new.key = journal[j].key /\ new.bound = journal[j].bound \ fields
      /\ "exec" \notin fields => new.gen = journal[j].gen
  BY <1>1, UnboundFacts DEF SameLocks
<1>5. /\ "exec" \in fields => OwnsExec(j)
      /\ "reservation" \in fields => OwnsReservation(j)
      /\ exec' = IF "exec" \in fields THEN None ELSE exec
      /\ reserved' = IF "reservation" \in fields THEN [reserved EXCEPT ![journal[j].key] = None] ELSE reserved
  BY <1>1 DEF Release
<1> HIDE DEF j, new
<1>6. \A k \in Keys : reserved[k] # None /\ reserved[k].owner # j =>
         reserved'[k] # None /\ reserved'[k].owner = reserved[k].owner
  BY <1>1, <1>5 DEF OwnsReservation, TypeOK
<1>7. exec # None /\ exec.owner # j => exec' = exec
  BY <1>5 DEF OwnsExec
<1>8. "reservation" \in new.bound => reserved'[new.key] # None /\ reserved'[new.key].owner = j
  BY <1>2, <1>4, <1>5 DEF OwnsReservation
<1>9. "exec" \in new.bound => exec' # None /\ exec'.owner = j /\ exec'.gen = new.gen
  BY <1>2, <1>4, <1>5 DEF OwnsExec
<1> QED BY <1>1, <1>3, <1>4, <1>6, <1>7, <1>8, <1>9, BackedLocal

(* No journal changes, and every file that is some journal's stays.        *)
LEMMA QuietBacked ==
    ASSUME TakeProfitInv, UNCHANGED <<journal, exec>>,
           \A k \in Keys : reserved[k] # None => reserved'[k] # None /\ reserved'[k].owner = reserved[k].owner
    PROVE  BackedInv'
BY DEF TakeProfitInv, ProcInv, TypeOK, JournalRecord, BackedInv, OwnsReservation, OwnsExec

LEMMA StillBacked ==
    ASSUME TakeProfitInv, UNCHANGED diskVars PROVE BackedInv'
BY DEF TakeProfitInv, BackedInv, OwnsReservation, OwnsExec, diskVars

(* The process of a step, its journey and its locks.                       *)
LEMMA PlacingBacked ==
    ASSUME TakeProfitInv, NEW p \in Procs, Placing(p)
    PROVE  BackedInv'
<1> DEFINE j == proc[p].at
           r == Mine(p)
<1>1. ProcInv /\ TypeOK /\ BackedInv
  BY DEF TakeProfitInv, ProcInv
<1>2. Busy(p) => /\ proc[p] \in Process /\ j \in Journals /\ r = journal[j]
                 /\ r \in JournalRecord /\ RecordOk(r) /\ r.key \in Keys
                 /\ Current(p) => StepOk(proc[p].pc, r)
  BY <1>1, MineFacts DEF JournalRecord
<1>3. Busy(p) => /\ "reservation" \in r.bound => OwnsReservation(j)
                 /\ "exec" \in r.bound => OwnsExec(j)
  BY <1>1, <1>2 DEF BackedInv
<1> HIDE DEF j, r
<1> USE DEF Busy
<1>4. CASE ClaimReservation(p)
  <2> DEFINE next == [Stage(p, "starting") EXCEPT !.bound = {"reservation"}, !.needs = TRUE]
  <2>1. Busy(p) /\ journal' = [journal EXCEPT ![j] = next] /\ exec' = exec
        /\ reserved[r.key] = None /\ reserved' = [reserved EXCEPT ![r.key] = [owner |-> j, progressed |-> FALSE]]
    BY <1>4 DEF ClaimReservation, Write, Put, Free, ReservedBy, j, r
  <2>2. next.key = journal[j].key /\ next.bound = {"reservation"}
    BY <1>2, <2>1 DEF Stage, JournalRecord, r
  <2> HIDE DEF next
  <2>3. [owner |-> j, progressed |-> FALSE] \in Reservation
    BY <1>2, <2>1 DEF Reservation
  <2>4. reserved'[r.key] # None /\ reserved'[r.key].owner = j /\ \A k \in Keys \ {r.key} : reserved'[k] = reserved[k]
    BY <1>1, <1>2, <2>1, <2>3, NoneAssumption DEF TypeOK
  <2>5. \A k \in Keys : reserved[k] # None /\ reserved[k].owner # j =>
           reserved'[k] # None /\ reserved'[k].owner = reserved[k].owner
    BY <2>1, <2>4
  <2>6. next.key = r.key /\ "exec" \notin next.bound
    BY <1>2, <2>1, <2>2
  <2>7. exec' = exec /\ reserved'[next.key] # None /\ reserved'[next.key].owner = j
    BY <2>1, <2>4, <2>6
  <2>8. j \in Journals /\ journal' = [journal EXCEPT ![j] = next]
    BY <1>2, <2>1
  <2> QED BY <1>1, <2>2, <2>5, <2>6, <2>7, <2>8, BackedLocal
<1>5. CASE ClaimExec(p)
  <2> DEFINE next == [Stage(p, "locked") EXCEPT !.bound = @ \cup {"exec"}, !.gen = claims + 1]
  <2>1. Busy(p) /\ journal' = [journal EXCEPT ![j] = next] /\ reserved' = reserved
        /\ exec = None /\ exec' = [owner |-> j, gen |-> claims + 1, source |-> r]
    BY <1>5 DEF ClaimExec, NewExec, Write, Put, j, r
  <2>2. next.key = journal[j].key /\ next.bound = r.bound \cup {"exec"} /\ next.gen = claims + 1
    BY <1>2, <2>1 DEF Stage, JournalRecord, r
  <2> HIDE DEF next
  <2>3. exec' # None /\ exec'.owner = j /\ exec'.gen = claims + 1
    BY <1>1, <1>2, <2>1, NoneAssumption DEF ExecLock, TypeOK
  <2> QED BY <1>1, <1>2, <1>3, <2>1, <2>2, <2>3, BackedLocal DEF OwnsReservation
<1>6. CASE SignFails(p)
  <2> DEFINE next == [Stage(p, "withdrawn") EXCEPT !.needs = FALSE]
  <2>1. Busy(p) /\ Release(p, {"reservation"}, next, "failing")
    BY <1>6 DEF SignFails
  <2>2. next \in JournalRecord /\ SameLocks(p, next)
    BY <1>2, <2>1 DEF SameLocks, Stage, JournalRecord, Stages, r
  <2> HIDE DEF next
  <2> QED BY <2>1, <2>2, ReleaseBacked
<1>7. CASE SettlePrelaunch(p)
  <2>1. Busy(p) /\ Release(p, {"exec"}, Mine(p), "failing") /\ Mine(p) \in JournalRecord /\ SameLocks(p, Mine(p))
    BY <1>2, <1>7 DEF SettlePrelaunch, SameLocks, r
  <2> QED BY <2>1, ReleaseBacked
<1>8. CASE SettleArmed(p)
  <2> DEFINE next == [Mine(p) EXCEPT !.needs = FALSE]
  <2>1. Busy(p) /\ Release(p, {"exec"}, next, "idle")
    BY <1>8 DEF SettleArmed
  <2>2. next \in JournalRecord /\ SameLocks(p, next)
    BY <1>2, <2>1 DEF SameLocks, JournalRecord, r
  <2> HIDE DEF next
  <2> QED BY <2>1, <2>2, ReleaseBacked
<1>9. CASE ProgressReservation(p)
  <2>1. Busy(p) /\ Progressed(p) /\ UNCHANGED <<journal, exec>>
    BY <1>9 DEF ProgressReservation
  <2> QED BY <1>1, <2>1, ProgressedFacts, QuietBacked
<1>10. CASE SendPayment(p) \/ CheckLocked(p) \/ FetchExactOrder(p)
  BY <1>10, StillBacked DEF SendPayment, CheckLocked, FetchExactOrder
<1>11. CASE GiveUp(p)
  <2>1. Busy(p) /\ FinalCheckpoint(p) /\ UNCHANGED <<reserved, exec>>
    BY <1>11 DEF GiveUp, PreSpawn
  <2>2. CASE Current(p)
    <3> DEFINE next == [Mine(p) EXCEPT !.needs = Mine(p).signed \/ "reservation" \in Mine(p).bound]
    <3>1. Put(p, next, "idle")
      BY <2>1, <2>2 DEF FinalCheckpoint, Write
    <3>2. SameLocks(p, next)
      BY <1>2, <2>1 DEF SameLocks, JournalRecord, r
    <3> HIDE DEF next
    <3> QED BY <2>1, <3>1, <3>2, PutBacked
  <2>3. CASE ~Current(p)
    BY <2>1, <2>3, StillBacked DEF FinalCheckpoint, diskVars
  <2> QED BY <2>2, <2>3
<1>12. ASSUME NEW next, NEW step, Busy(p), Write(p, next, step), SameLocks(p, next), UNCHANGED <<reserved, exec>>
       PROVE  BackedInv'
  BY <1>12, PutBacked DEF Write
<1> USE DEF SameLocks, Stage, JournalRecord
<1>13. CASE Sign(p)
  <2>1. Busy(p)
    BY <1>13 DEF Sign
  <2> QED BY <1>2, <1>12, <1>13, <2>1 DEF Sign, r
<1>14. CASE ReceiveCard(p)
  <2>1. Busy(p)
    BY <1>14 DEF ReceiveCard
  <2> QED BY <1>2, <1>12, <1>14, <2>1 DEF ReceiveCard, r
<1>15. CASE ConfirmTrade(p)
  <2>1. Busy(p)
    BY <1>15 DEF ConfirmTrade
  <2> QED BY <1>2, <1>12, <1>15, <2>1 DEF ConfirmTrade, r
<1>16. CASE ClaimRefused(p)
  <2>1. Busy(p)
    BY <1>16 DEF ClaimRefused
  <2> QED BY <1>2, <1>12, <1>16, <2>1 DEF ClaimRefused, r
<1>17. CASE MarkAttempted(p)
  <2>1. Busy(p)
    BY <1>17 DEF MarkAttempted
  <2> QED BY <1>2, <1>12, <1>17, <2>1 DEF MarkAttempted, r
<1>18. CASE Launch(p)
  <2>1. Busy(p)
    BY <1>18 DEF Launch
  <2> QED BY <1>2, <1>12, <1>18, <2>1 DEF Launch, r
<1>19. CASE PreSpawnFailure(p)
  <2>1. Busy(p)
    BY <1>19 DEF PreSpawnFailure, PreSpawn
  <2> QED BY <1>2, <1>12, <1>19, <2>1 DEF PreSpawnFailure, r
<1>20. CASE PersistResult(p)
  <2>1. Busy(p)
    BY <1>20 DEF PersistResult
  <2> QED BY <1>2, <1>12, <1>20, <2>1 DEF PersistResult, r
<1>21. CASE PersistPassport(p)
  <2>1. Busy(p)
    BY <1>21 DEF PersistPassport
  <2> QED BY <1>2, <1>12, <1>21, <2>1 DEF PersistPassport, Passport, r
<1> QED BY <1>4, <1>5, <1>6, <1>7, <1>8, <1>9, <1>10, <1>11, <1>13, <1>14, <1>15, <1>16, <1>17, <1>18, <1>19,
           <1>20, <1>21 DEF Placing

LEMMA CancelingBacked ==
    ASSUME TakeProfitInv, NEW p \in Procs, Canceling(p)
    PROVE  BackedInv'
<1> DEFINE j == proc[p].at
           r == Mine(p)
<1>1. ProcInv /\ TypeOK /\ BackedInv
  BY DEF TakeProfitInv, ProcInv
<1>2. Busy(p) => /\ j \in Journals /\ r = journal[j] /\ r \in JournalRecord /\ r.key \in Keys
  BY <1>1, MineFacts DEF JournalRecord
<1>3. Busy(p) => /\ "reservation" \in r.bound => OwnsReservation(j)
                 /\ "exec" \in r.bound => OwnsExec(j)
  BY <1>1, <1>2 DEF BackedInv
<1> HIDE DEF j, r
<1> USE DEF Busy
<1>4. CASE ClaimCancel(p)
  <2> DEFINE next == [Mine(p) EXCEPT !.cancel = "lock_acquired", !.needs = TRUE,
                                     !.bound = @ \cup {"exec"}, !.gen = claims + 1]
  <2>1. Busy(p) /\ journal' = [journal EXCEPT ![j] = next] /\ reserved' = reserved
        /\ exec = None /\ exec' = [owner |-> j, gen |-> claims + 1, source |-> r]
    BY <1>4 DEF ClaimCancel, NewExec, Write, Put, j, r
  <2>2. next.key = journal[j].key /\ next.bound = r.bound \cup {"exec"} /\ next.gen = claims + 1
    BY <1>2, <2>1 DEF JournalRecord, r
  <2> HIDE DEF next
  <2>3. exec' # None /\ exec'.owner = j /\ exec'.gen = claims + 1
    BY <1>1, <1>2, <2>1, NoneAssumption DEF ExecLock, TypeOK
  <2> QED BY <1>1, <1>2, <1>3, <2>1, <2>2, <2>3, BackedLocal DEF OwnsReservation
<1>5. CASE FetchAfterCancel(p)
  BY <1>5, StillBacked DEF FetchAfterCancel
<1>6. CASE SettleCancel(p)
  <2>1. CASE Resolved(p)
    <3> DEFINE next == CancelEnds(p, "terminal")
    <3>1. Busy(p) /\ Release(p, {"exec"}, next, "idle")
      BY <1>6, <2>1 DEF SettleCancel
    <3>2. next \in JournalRecord /\ SameLocks(p, next)
      BY <1>2, <3>1 DEF CancelEnds, SameLocks, JournalRecord, Phases, r
    <3> HIDE DEF next
    <3> QED BY <3>1, <3>2, ReleaseBacked
  <2>2. CASE ~Resolved(p)
    BY <1>6, <2>2, StillBacked DEF SettleCancel
  <2> QED BY <2>1, <2>2
<1>7. CASE CancelFails(p)
  <2>1. Busy(p)
    BY <1>7 DEF CancelFails, CancelUnstarted
  <2>2. CASE ~LocallyOwned(p)
    BY <1>7, <2>2, StillBacked DEF CancelFails
  <2>3. CASE LocallyOwned(p) /\ proc[p].pc \in CancelUnstarted
    <3> DEFINE next == CancelEnds(p, "pre_spawn_failed")
               new == Unbound(next, {"exec"})
    <3>1. journal' = [journal EXCEPT ![j] = new] /\ exec' = None /\ reserved' = reserved /\ OwnsExec(j)
      BY <1>7, <2>3 DEF CancelFails, Put, j
    <3>2. next \in JournalRecord /\ next.key = r.key /\ next.bound = r.bound
      BY <1>2, <2>1 DEF CancelEnds, JournalRecord, Phases, r
    <3> HIDE DEF next
    <3>3. new.key = r.key /\ new.bound = r.bound \ {"exec"}
      BY <3>2, UnboundFacts
    <3> HIDE DEF new
    <3> QED BY <1>1, <1>2, <1>3, <2>1, <3>1, <3>3, BackedLocal DEF OwnsReservation, OwnsExec
  <2>4. CASE LocallyOwned(p) /\ proc[p].pc \notin CancelUnstarted
    <3> DEFINE next == [Mine(p) EXCEPT !.needs = TRUE]
    <3>1. Put(p, next, "idle") /\ UNCHANGED <<reserved, exec>>
      BY <1>7, <2>4 DEF CancelFails
    <3>2. SameLocks(p, next)
      BY <1>2, <2>1 DEF SameLocks, JournalRecord, r
    <3> HIDE DEF next
    <3> QED BY <2>1, <3>1, <3>2, PutBacked
  <2> QED BY <2>2, <2>3, <2>4
<1>8. ASSUME NEW next, NEW step, Busy(p), Write(p, next, step), SameLocks(p, next), UNCHANGED <<reserved, exec>>
      PROVE  BackedInv'
  BY <1>8, PutBacked DEF Write
<1> USE DEF SameLocks, JournalRecord
<1>9. CASE MarkCancelAttempted(p)
  <2>1. Busy(p)
    BY <1>9 DEF MarkCancelAttempted
  <2> QED BY <1>2, <1>8, <1>9, <2>1 DEF MarkCancelAttempted, r
<1>10. CASE LaunchCancel(p)
  <2>1. Busy(p)
    BY <1>10 DEF LaunchCancel
  <2> QED BY <1>2, <1>8, <1>10, <2>1 DEF LaunchCancel, r
<1>11. CASE PersistCancelResult(p)
  <2>1. Busy(p)
    BY <1>11 DEF PersistCancelResult
  <2> QED BY <1>2, <1>8, <1>11, <2>1 DEF PersistCancelResult, r
<1>12. CASE RecordOutcome(p)
  <2>1. Busy(p)
    BY <1>12 DEF RecordOutcome
  <2> QED BY <1>2, <1>8, <1>12, <2>1 DEF RecordOutcome, r
<1> QED BY <1>4, <1>5, <1>6, <1>7, <1>9, <1>10, <1>11, <1>12 DEF Canceling

LEMMA ReconcilingBacked ==
    ASSUME TakeProfitInv, NEW p \in Procs, Reconciling(p)
    PROVE  BackedInv'
<1> DEFINE j == proc[p].at
           r == Mine(p)
<1>1. ProcInv /\ TypeOK /\ BackedInv
  BY DEF TakeProfitInv, ProcInv
<1>2. Busy(p) => /\ j \in Journals /\ r = journal[j] /\ r \in JournalRecord /\ r.key \in Keys
  BY <1>1, MineFacts DEF JournalRecord
<1>3. Busy(p) => /\ "reservation" \in r.bound => OwnsReservation(j)
                 /\ "exec" \in r.bound => OwnsExec(j)
  BY <1>1, <1>2 DEF BackedInv
<1> HIDE DEF j, r
<1> USE DEF Busy
<1>4. ASSUME NEW next, NEW fields \in SUBSET {"reservation", "exec"}, Busy(p), Release(p, fields, next, "idle"),
             next \in JournalRecord, SameLocks(p, next)
      PROVE  BackedInv'
  BY <1>4, ReleaseBacked
<1>5. CASE ReconcileRejected(p)
  <2> DEFINE next == [Stage(p, "rejected") EXCEPT !.needs = FALSE]
  <2>1. Busy(p) /\ Release(p, {"exec"}, next, "idle")
    BY <1>5 DEF ReconcileRejected
  <2>2. next \in JournalRecord /\ SameLocks(p, next)
    BY <1>2, <2>1 DEF Stage, Stages, SameLocks, JournalRecord, r
  <2> HIDE DEF next
  <2> QED BY <1>4, <2>1, <2>2
<1>6. CASE ReconcileAuthorization(p)
  <2> DEFINE next == [Stage(p, "unused") EXCEPT !.needs = FALSE]
  <2>1. Busy(p) /\ Release(p, {"reservation"}, next, "idle")
    BY <1>6 DEF ReconcileAuthorization
  <2>2. next \in JournalRecord /\ SameLocks(p, next)
    BY <1>2, <2>1 DEF Stage, Stages, SameLocks, JournalRecord, r
  <2> HIDE DEF next
  <2> QED BY <1>4, <2>1, <2>2
<1>7. CASE Sweep(p)
  <2>1. Busy(p) /\ UNCHANGED <<journal, reserved>>
    BY <1>7 DEF Sweep
  <2>2. exec' = exec \/ ("exec" \notin r.bound /\ exec.owner = j)
    BY <1>7 DEF Sweep, j, r
  <2>3. CASE exec' = exec
    BY <2>1, <2>3, StillBacked DEF diskVars
  <2>4. CASE "exec" \notin r.bound /\ exec.owner = j
    <3>1. journal' = [journal EXCEPT ![j] = r]
      BY <1>1, <1>2, <2>1 DEF TypeOK
    <3>2. "reservation" \in r.bound => reserved'[r.key] # None /\ reserved'[r.key].owner = j
      BY <1>2, <1>3, <2>1 DEF OwnsReservation
    <3>3. /\ j \in Journals /\ r.key = journal[j].key
          /\ \A k \in Keys : reserved[k] # None /\ reserved[k].owner # j =>
                               reserved'[k] # None /\ reserved'[k].owner = reserved[k].owner
      BY <1>2, <2>1
    <3> QED BY <1>1, <2>4, <3>1, <3>2, <3>3, BackedLocal
  <2> QED BY <2>2, <2>3, <2>4
<1>8. CASE ReconcileUnstarted(p)
  <2> DEFINE next == [Stage(p, "expired") EXCEPT !.needs = FALSE]
  <2>1. Busy(p) /\ Release(p, r.bound, next, "idle")
    BY <1>8 DEF ReconcileUnstarted, LooksUnstarted, r
  <2>2. next \in JournalRecord /\ SameLocks(p, next) /\ r.bound \in SUBSET {"reservation", "exec"}
    BY <1>2, <2>1 DEF Stage, Stages, SameLocks, JournalRecord, r
  <2> HIDE DEF next
  <2> QED BY <1>4, <2>1, <2>2
<1>9. CASE RecoverPassport(p)
  <2> DEFINE next == [Passport(p) EXCEPT !.recovery = "pending"]
  <2>1. Busy(p) /\ Put(p, next, "recovered") /\ UNCHANGED <<reserved, exec>>
    BY <1>9 DEF RecoverPassport, Write
  <2>2. SameLocks(p, next)
    BY <1>2, <2>1 DEF Passport, Stage, SameLocks, JournalRecord, r
  <2> HIDE DEF next
  <2> QED BY <2>1, <2>2, PutBacked
<1>10. CASE TrackRecovered(p) \/ Track(p)
  <2>1. Busy(p) /\ Progressed(p) /\ UNCHANGED <<journal, exec>>
    BY <1>10 DEF TrackRecovered, Track
  <2> QED BY <1>1, <2>1, ProgressedFacts, QuietBacked
<1>11. CASE ReconcileCancel(p)
  <2> DEFINE next == CancelEnds(p, "expired_unattempted")
  <2>1. Busy(p) /\ Release(p, {"exec"}, next, "idle")
    BY <1>11 DEF ReconcileCancel
  <2>2. next \in JournalRecord /\ SameLocks(p, next)
    BY <1>2, <2>1 DEF CancelEnds, Phases, SameLocks, JournalRecord, r
  <2> HIDE DEF next
  <2> QED BY <1>4, <2>1, <2>2
<1>12. CASE SettleRecovered(p)
  <2> DEFINE next == [Mine(p) EXCEPT !.needs = FALSE, !.recovery = "released"]
  <2>1. Busy(p) /\ Release(p, {"exec"}, next, "idle")
    BY <1>12 DEF SettleRecovered
  <2>2. next \in JournalRecord /\ SameLocks(p, next)
    BY <1>2, <2>1 DEF SameLocks, JournalRecord, r
  <2> HIDE DEF next
  <2> QED BY <1>4, <2>1, <2>2
<1>13. CASE SettleResolved(p)
  <2> DEFINE phase == IF Mine(p).cancel = "attempted" THEN "terminal" ELSE Mine(p).cancel
             next == CancelEnds(p, phase)
  <2>1. Busy(p) /\ Release(p, {"exec"}, next, "idle")
    BY <1>13 DEF SettleResolved
  <2>2. phase \in Phases
    BY <1>2, <2>1 DEF Phases, JournalRecord, r
  <2> HIDE DEF phase
  <2>3. next \in JournalRecord /\ SameLocks(p, next)
    BY <1>2, <2>1, <2>2 DEF CancelEnds, SameLocks, JournalRecord, r
  <2> HIDE DEF next
  <2> QED BY <1>4, <2>1, <2>3 DEF next, phase
<1> QED BY <1>5, <1>6, <1>7, <1>8, <1>9, <1>10, <1>11, <1>12, <1>13 DEF Reconciling

LEMMA OthersBacked ==
    ASSUME TakeProfitInv, NEW p \in Procs, NEW j \in Journals,
           \/ Leave(p) \/ Crash(p) \/ ClaimReservationDies(p) \/ ClaimDies(p)
           \/ Start(p, j) \/ PromptCancel(p, j) \/ Reconcile(p, j)
    PROVE  BackedInv'
<1>1. ProcInv /\ TypeOK /\ BackedInv
  BY DEF TakeProfitInv, ProcInv
<1>2. CASE Leave(p) \/ Crash(p) \/ PromptCancel(p, j) \/ Reconcile(p, j)
  BY <1>2, StillBacked DEF Leave, Crash, PromptCancel, Reconcile
<1>3. CASE ClaimReservationDies(p)
  <2> DEFINE i == proc[p].at
             k == journal[i].key
  <2>1. /\ Busy(p) /\ UNCHANGED <<journal, exec>>
        /\ reserved[k] = None /\ reserved' = [reserved EXCEPT ![k] = [owner |-> i, progressed |-> FALSE]]
    BY <1>3 DEF ClaimReservationDies, Free, ReservedBy, Mine, Busy
  <2>2. i \in Journals /\ journal[i] \in JournalRecord /\ k \in Keys
    BY <1>1, <2>1, MineFacts DEF JournalRecord
  <2>3. \A n \in Keys : reserved[n] # None => reserved'[n] # None /\ reserved'[n].owner = reserved[n].owner
    BY <1>1, <2>1, <2>2 DEF TypeOK
  <2> QED BY <2>1, <2>3, QuietBacked
<1>4. CASE ClaimDies(p)
  <2>1. exec = None /\ UNCHANGED <<journal, reserved>>
    BY <1>4 DEF ClaimDies
  <2>2. \A i \in Journals : "exec" \notin journal[i].bound
    BY <1>1, <2>1 DEF BackedInv, OwnsExec
  <2> QED BY <1>1, <2>1, <2>2 DEF BackedInv, OwnsReservation, OwnsExec
<1>5. CASE Start(p, j)
  <2> DEFINE next == [journal[j] EXCEPT !.stage = "requested"]
  <2>1. journal' = [journal EXCEPT ![j] = next] /\ UNCHANGED <<reserved, exec>>
    BY <1>5 DEF Start
  <2>2. next.key = journal[j].key /\ next.bound = journal[j].bound /\ next.gen = journal[j].gen
    BY <1>1 DEF TypeOK, JournalRecord
  <2>3. /\ "reservation" \in journal[j].bound => OwnsReservation(j)
        /\ "exec" \in journal[j].bound => OwnsExec(j)
    BY <1>1 DEF BackedInv
  <2> HIDE DEF next
  <2> QED BY <1>1, <2>1, <2>2, <2>3, BackedLocal DEF OwnsReservation, OwnsExec
<1> QED BY <1>2, <1>3, <1>4, <1>5

-----------------------------------------------------------------------------
(* Theorems *)

LEMMA InitInv == Init => TakeProfitInv
<1> SUFFICES ASSUME Init PROVE TakeProfitInv
  OBVIOUS
<1>1. \A k \in Keys : /\ FreshJournal(k) \in JournalRecord /\ FreshJournal(k).stage = "fresh"
                      /\ FreshJournal(k).bound = {} /\ FreshJournal(k).gen = 0 /\ FreshJournal(k).cancel = "none"
                      /\ ~FreshJournal(k).signed /\ FreshJournal(k).reply = "none"
  BY DEF FreshJournal, JournalRecord, Stages, Phases, LiveReplies
<1>2. \A j \in Journals : \E k \in Keys : journal[j] = FreshJournal(k)
  BY DEF Init
<1>3. \A j \in Journals : /\ journal[j] \in JournalRecord /\ journal[j].stage = "fresh" /\ journal[j].bound = {}
                          /\ journal[j].gen = 0 /\ journal[j].cancel = "none" /\ ~journal[j].signed
                          /\ journal[j].reply = "none"
  BY <1>1, <1>2
<1>4. \A j \in Journals : /\ order[j] \in VenueOrder /\ order[j].state = "none" /\ order[j].matched = 0
                          /\ order[j].settled = 0 /\ ~order[j].canceling
                          /\ payment[j] = "unsent" /\ elapsed[j] = {}
  BY TakeProfitBounds DEF Init, VenueOrder
<1>5. Idle \in Process /\ Idle.pc = "idle" /\ Idle.gen = 0
  BY DEF Idle, Process, Steps
<1>6. proc \in [Procs -> Process] /\ \A p \in Procs : proc[p].pc = "idle" /\ proc[p].gen = 0
  BY <1>5 DEF Init
<1>7. TypeOK
  <2>1. journal \in [Journals -> JournalRecord]
    <3>1. journal \in [Journals -> {FreshJournal(k) : k \in Keys}]
      BY DEF Init
    <3> QED BY <1>1, <3>1
  <2>2. order \in [Journals -> VenueOrder]
    BY <1>4 DEF Init
  <2> QED BY <1>6, <2>1, <2>2 DEF Init, TypeOK
<1>8. HasJourney /\ StepInv /\ SawInv
  BY <1>6 DEF HasJourney, StepInv, SawInv, Busy
<1>9. RecordInv /\ OrderInv
  BY <1>3, <1>4 DEF RecordInv, OrderInv, RecordOk, OrderOk, Active
<1>10. SignedInv /\ AloneInv /\ UnsentInv
  BY <1>6 DEF SignedInv, AloneInv, UnsentInv, CancelUnstarted
<1>11. GenInv
  BY <1>3, <1>6 DEF GenInv, Init, CancelSteps
<1>12. OneOrderAtVenue
  BY <1>4 DEF OneOrderAtVenue
<1>13. BackedInv
  BY <1>3 DEF BackedInv
<1> QED BY <1>7, <1>8, <1>9, <1>10, <1>11, <1>12, <1>13 DEF TakeProfitInv, ProcInv

LEMMA NextInv == TakeProfitInv /\ [Next]_vars => TakeProfitInv'
<1> SUFFICES ASSUME TakeProfitInv, [Next]_vars PROVE TakeProfitInv'
  OBVIOUS
<1>1. ProcInv
  BY DEF TakeProfitInv
<1>2. ASSUME NEW p \in Procs, Placing(p) PROVE TakeProfitInv'
  BY <1>2, PlacingKeeps, PlacingBacked DEF TakeProfitInv
<1>3. ASSUME NEW p \in Procs, Canceling(p) PROVE TakeProfitInv'
  BY <1>3, CancelingKeeps, CancelingBacked DEF TakeProfitInv
<1>4. ASSUME NEW p \in Procs, Reconciling(p) PROVE TakeProfitInv'
  BY <1>4, ReconcilingKeeps, ReconcilingBacked DEF TakeProfitInv
<1>5. ASSUME NEW p \in Procs, Leave(p) \/ Crash(p) \/ ClaimReservationDies(p) \/ ClaimDies(p)
      PROVE  TakeProfitInv'
  <2>1. \E j \in Journals : TRUE
    <3>1. Busy(p)
      BY <1>5 DEF Leave, Crash, ClaimReservationDies, ClaimDies, Busy
    <3> QED BY <1>1, <3>1, MineFacts
  <2>2. ProcInv'
    BY <1>1, <1>5, DiesKeeps
  <2> QED BY <1>5, <2>1, <2>2, OthersBacked DEF TakeProfitInv
<1>6. ASSUME NEW p \in Procs, NEW j \in Journals, Start(p, j) \/ PromptCancel(p, j) \/ Reconcile(p, j)
      PROVE  TakeProfitInv'
  <2>1. ProcInv'
    BY <1>1, <1>6, StartKeeps, BeginKeeps
  <2> QED BY <1>6, <2>1, OthersBacked DEF TakeProfitInv
<1>7. ASSUME NEW j \in Journals,
             Venue(j) \/ Fill(j) \/ SettlePayment(j) \/ \E deadline \in Deadlines : Elapse(j, deadline)
      PROVE  TakeProfitInv'
  <2>1. UNCHANGED diskVars
    BY <1>7 DEF Venue, AnswerOrder, ExpireOrder, AnswerCancel, SettleTrades, Fill, ChangeOrder, SettlePayment, Elapse
  <2>2. ProcInv'
    BY <1>1, <1>7, VenueKeeps, ClockKeeps
  <2> QED BY <2>1, <2>2, StillBacked DEF TakeProfitInv
<1>8. CASE UNCHANGED vars
  <2>1. UNCHANGED <<diskVars, proc, order, payment, elapsed, claims, faults>>
    BY <1>8 DEF vars, worldVars, countVars
  <2>2. OrderInv'
    BY <1>1, <2>1 DEF ProcInv, OrderInv, diskVars
  <2>3. ProcInv'
    BY <1>1, <2>1, <2>2, TimeKeeps DEF ProcInv, TypeOK, countVars
  <2> QED BY <2>1, <2>3, StillBacked DEF TakeProfitInv
<1> QED BY <1>2, <1>3, <1>4, <1>5, <1>6, <1>7, <1>8 DEF Next

(* Journals, lock files, processes and the orders at the venue agree in    *)
(* every reachable state of the take-profit journeys: a lock a journal is  *)
(* bound to has its file, and no order is anywhere a journal cannot tell.  *)
THEOREM TakeProfitAgrees == Spec => []TakeProfitInv
<1>1. Init => TakeProfitInv
  BY InitInv
<1>2. TakeProfitInv /\ [Next]_vars => TakeProfitInv'
  BY NextInv
<1> QED BY <1>1, <1>2, PTL DEF Spec

(* The variables keep their types.                                         *)
THEOREM TakeProfitTypes == Spec => []TypeOK
<1>1. TakeProfitInv => TypeOK
  BY DEF TakeProfitInv, ProcInv
<1> QED BY <1>1, TakeProfitAgrees, PTL

(* The readiness of a placement, read under the execution lock and acted   *)
(* on later, still holds when its order is sent: no second SELL is in the  *)
(* book or on its way.                                                     *)
THEOREM OneSell == Spec => []OneOrderAtVenue
<1>1. TakeProfitInv => OneOrderAtVenue
  BY DEF TakeProfitInv, ProcInv
<1> QED BY <1>1, TakeProfitAgrees, PTL

(* The replay key of a launched order is never free again.                 *)
THEOREM LaunchedStaysReserved == Spec => []LaunchedKeepsReservation
<1>1. TakeProfitInv => LaunchedKeepsReservation
  <2> SUFFICES ASSUME TakeProfitInv, NEW j \in Journals, order[j].state # "none" PROVE OwnsReservation(j)
    BY DEF LaunchedKeepsReservation
  <2>1. OrderOk(journal[j], order[j], payment[j], elapsed[j]) /\ RecordOk(journal[j])
    BY DEF TakeProfitInv, ProcInv, OrderInv, RecordInv
  <2>2. "reservation" \in journal[j].bound
    BY <2>1 DEF OrderOk, RecordOk, Placed
  <2> QED BY <2>2 DEF TakeProfitInv, BackedInv
<1> QED BY <1>1, TakeProfitAgrees, PTL

(* Whatever died on the way, an order or a cancellation that nobody can    *)
(* tell the end of keeps the execution lock.                               *)
THEOREM DoubtStaysLocked == Spec => []DoubtHoldsLock
<1>1. TakeProfitInv => DoubtHoldsLock
  <2> SUFFICES ASSUME TakeProfitInv, NEW j \in Journals, InDoubt(j) PROVE OwnsExec(j)
    BY DEF DoubtHoldsLock
  <2>1. OrderOk(journal[j], order[j], payment[j], elapsed[j]) /\ RecordOk(journal[j])
    BY DEF TakeProfitInv, ProcInv, OrderInv, RecordInv
  <2>2. "exec" \in journal[j].bound
    BY <2>1 DEF InDoubt, OrderOk, RecordOk, Open, Active, Resting
  <2> QED BY <2>2 DEF TakeProfitInv, BackedInv
<1> QED BY <1>1, TakeProfitAgrees, PTL

(* No journal ends with a claim the chain or the venue can contradict.     *)
THEOREM EndsStayTrue == Spec => []EndsAreTrue
<1>1. TakeProfitInv => EndsAreTrue
  <2> SUFFICES ASSUME TakeProfitInv, NEW j \in Journals
               PROVE  /\ journal[j].stage \in {"withdrawn", "unused"} => payment[j] # "used"
                      /\ journal[j].stage \in {"withdrawn", "unused", "expired"} => order[j].state = "none"
                      /\ journal[j].stage = "rejected" => order[j].state = "refused"
                      /\ journal[j].cancel = "terminal" => ~Resting(j) /\ Finalized(j)
    BY DEF EndsAreTrue
  <2>1. OrderOk(journal[j], order[j], payment[j], elapsed[j]) /\ RecordOk(journal[j])
    BY DEF TakeProfitInv, ProcInv, OrderInv, RecordInv
  <2> QED BY <2>1 DEF OrderOk, RecordOk, Placed, Resting, Finalized
<1> QED BY <1>1, TakeProfitAgrees, PTL
=============================================================================
