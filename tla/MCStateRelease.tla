--------------------------- MODULE MCStateRelease ---------------------------
(* Instances of StateRelease for TLC. *)
EXTENDS StateRelease, TLC

CONSTANTS j1, j2, k1, k2, p1, p2

(* Request identities: one per journey, or one that both journeys share.   *)
DistinctKeys == [j \in Journals |-> IF j = j1 THEN k1 ELSE k2]
SharedKey == [j \in Journals |-> k1]

(* A reachable state from which the execution phase is explored alone:     *)
(* every journey is paid and confirmed, by a live process that holds its   *)
(* replay lock.                                                            *)
PaidBy(p) == IF p = p1 THEN j1 ELSE j2

PaidInit ==
    /\ journal = [j \in Journals |->
                     [rev |-> 3, stage |-> "confirmed", bound |-> {KeyOf[j]}, gen |-> 0]]
    /\ locks = [r \in Resources |->
                   IF r = Exec THEN None
                   ELSE [owner |-> CHOOSE j \in Journals : KeyOf[j] = r, gen |-> 0, source |-> 1]]
    /\ guard = None
    /\ mutex = None
    /\ proc = [p \in Procs |-> Running("ready", "live", PaidBy(p), 3, FALSE)]
    /\ expired = {}
    /\ orders = {}
    /\ claims = 0
    /\ faults = 0

PaidSpec == PaidInit /\ [][Next]_vars

ProcSymmetry == Permutations({p1, p2})
=============================================================================
