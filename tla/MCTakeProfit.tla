---------------------------- MODULE MCTakeProfit ----------------------------
(* Instances of TakeProfit for TLC. *)
EXTENDS TakeProfit, TLC

CONSTANTS j1, j2, k1, k2, p1, p2

(* Both journeys ask for one replay key and compete for its reservation.   *)
SharedInit == Init /\ \A i, j \in Journals : journal[i].key = journal[j].key

(* A reachable state from which placement, cancellation and recovery are   *)
(* explored further: both journeys are paid, each by a live process at the *)
(* trade confirmation, for keys of their own.                              *)
Paid(k) == [FreshJournal(k) EXCEPT !.stage = "verified", !.bound = {"reservation"},
                                   !.needs = TRUE, !.signed = TRUE]

PaidInit ==
    \E key \in [Journals -> Keys], at \in [Procs -> Journals] :
        /\ \A i, j \in Journals : i # j => key[i] # key[j]
        /\ \A p, q \in Procs : p # q => at[p] # at[q]
        /\ journal = [j \in Journals |-> Paid(key[j])]
        /\ reserved = [k \in Keys |->
                          [owner |-> CHOOSE j \in Journals : key[j] = k, progressed |-> FALSE]]
        /\ proc = [p \in Procs |-> [Idle EXCEPT !.pc = "ready", !.at = at[p], !.current = TRUE]]
        /\ payment = [j \in Journals |-> "used"]
        /\ order = [j \in Journals |-> [state |-> "none", matched |-> 0, settled |-> 0, canceling |-> FALSE]]
        /\ elapsed = [j \in Journals |-> {}]
        /\ exec = None
        /\ claims = 0
        /\ faults = 0

MCInit == SharedInit \/ PaidInit

MCSpec == MCInit /\ [][Next]_vars

Symmetry == Permutations(Journals) \cup Permutations(Keys) \cup Permutations(Procs)
=============================================================================
