----------------------------- MODULE LockRegistry -----------------------------
(***************************************************************************)
(* What the state directory promises, with files, guards, crashes and      *)
(* processes left out: a lock belongs to one journey at a time, an order   *)
(* is started once and only under the execution lock, and while the order  *)
(* is unresolved its journey gives up nothing; the locks go in one step,   *)
(* together with the resolution.                                           *)
(***************************************************************************)
CONSTANTS Journals, Resources, Exec

VARIABLES
    held,    \* the locks each journey holds
    order    \* "none", "open" or "resolved" for each journey

registryVars == <<held, order>>

RegistryInit ==
    /\ held = [j \in Journals |-> {}]
    /\ order = [j \in Journals |-> "none"]

Claim(j, r) ==
    /\ \A i \in Journals : r \notin held[i]
    /\ order[j] = "none"
    /\ held' = [held EXCEPT ![j] = @ \cup {r}]
    /\ UNCHANGED order

Launch(j) ==
    /\ Exec \in held[j]
    /\ order[j] = "none"
    /\ order' = [order EXCEPT ![j] = "open"]
    /\ UNCHANGED held

(* Without an order any of the locks may go; with one, all at once.        *)
Release(j, freed) ==
    /\ freed # {}
    /\ freed \subseteq held[j]
    /\ held' = [held EXCEPT ![j] = @ \ freed]
    /\ \/ order[j] = "none" /\ UNCHANGED order
       \/ /\ order[j] = "open"
          /\ freed = held[j]
          /\ order' = [order EXCEPT ![j] = "resolved"]

RegistryNext ==
    \E j \in Journals :
        \/ \E r \in Resources : Claim(j, r)
        \/ Launch(j)
        \/ \E freed \in SUBSET Resources : Release(j, freed)

RegistrySpec == RegistryInit /\ [][RegistryNext]_registryVars
=============================================================================
