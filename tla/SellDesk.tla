------------------------------ MODULE SellDesk ------------------------------
(***************************************************************************)
(* What the take-profit journeys promise, with processes, files, stages    *)
(* and crashes left out.  A journey reserves its key, takes the only seat  *)
(* at the desk and sends one sell order; it takes the seat again to ask    *)
(* the venue for a cancellation.  It leaves the seat only with its order   *)
(* accounted for, and a journey that asked only when the order is over and *)
(* every matched share has settled.                                        *)
(***************************************************************************)
CONSTANT Journals

VARIABLES
    key,     \* what each journey sells: position, shares, target and expiry
    kept,    \* the journeys that hold the reservation of their key
    desk,    \* the journey at the desk, if any
    sale,    \* the order of each journey, as the venue and the chain know it
    known,   \* the journeys that have on record what became of their order
    asked,   \* the journeys that have decided to ask for a cancellation
    out      \* the journeys whose request the venue has not answered

deskVars == <<key, kept, desk, sale, known, asked, out>>

(* "over": the venue is done with it; "final": every match has settled.    *)
Sales == {"none", "sent", "resting", "over", "final"}

DeskInit ==
    /\ kept \subseteq Journals
    /\ \A i, j \in kept : i # j => key[i] # key[j]
    /\ desk = {} /\ known = {} /\ asked = {} /\ out = {}
    /\ sale = [j \in Journals |-> "none"]

Reserve(j) ==
    /\ \A i \in kept : key[i] # key[j]
    /\ sale[j] = "none"
    /\ kept' = kept \cup {j}
    /\ UNCHANGED <<key, desk, sale, known, asked, out>>

(* A journey that never sent an order may give up all it holds.            *)
Withdraw(j) ==
    /\ j \in kept
    /\ sale[j] = "none"
    /\ kept' = kept \ {j}
    /\ desk' = desk \ {j}
    /\ UNCHANGED <<key, sale, known, asked, out>>

Sit(j) ==
    /\ desk = {}
    /\ j \in kept
    /\ sale[j] # "none" => j \in known
    /\ desk' = {j}
    /\ UNCHANGED <<key, kept, sale, known, asked, out>>

Send(j) ==
    /\ desk = {j}
    /\ j \in kept
    /\ sale[j] = "none"
    /\ \A i \in Journals : sale[i] \notin {"sent", "resting"}
    /\ sale' = [sale EXCEPT ![j] = "sent"]
    /\ UNCHANGED <<key, kept, desk, known, asked, out>>

Learn(j) ==
    /\ desk = {j}
    /\ sale[j] \notin {"none", "sent"}
    /\ known' = known \cup {j}
    /\ UNCHANGED <<key, kept, desk, sale, asked, out>>

Ask(j) ==
    /\ desk = {j}
    /\ j \in known
    /\ asked' = asked \cup {j}
    /\ UNCHANGED <<key, kept, desk, sale, known, out>>

Request(j) ==
    /\ desk = {j}
    /\ j \in asked
    /\ out' = out \cup {j}
    /\ UNCHANGED <<key, kept, desk, sale, known, asked>>

(* Leaving, whoever sent an order says what became of it.                  *)
Rise(j) ==
    /\ desk = {j}
    /\ sale[j] # "sent"
    /\ j \in asked => sale[j] = "final"
    /\ desk' = {}
    /\ known' = IF sale[j] = "none" THEN known ELSE known \cup {j}
    /\ UNCHANGED <<key, kept, sale, asked, out>>

(* The request was never made after all, or can do nothing any more.       *)
Retract(j) ==
    /\ desk = {j}
    /\ j \in asked
    /\ j \in out => sale[j] # "resting"
    /\ desk' = {}
    /\ asked' = asked \ {j}
    /\ UNCHANGED <<key, kept, sale, known, out>>

(* The venue and the chain.                                                *)
Follows(before) ==
    CASE before = "sent" -> {"resting", "final"}
      [] before = "resting" -> {"over", "final"}
      [] before = "over" -> {"final"}
      [] OTHER -> {}

Happen(j) ==
    /\ \E after \in Follows(sale[j]) : sale' = [sale EXCEPT ![j] = after]
    /\ out' \in {out, out \ {j}}
    /\ UNCHANGED <<key, kept, desk, known, asked>>

(* The request is answered and changes nothing.                            *)
Decline(j) ==
    /\ j \in out
    /\ out' = out \ {j}
    /\ UNCHANGED <<key, kept, desk, sale, known, asked>>

DeskNext ==
    \/ \E j \in desk : Send(j) \/ Learn(j) \/ Ask(j) \/ Request(j) \/ Rise(j) \/ Retract(j)
    \/ \E j \in out : Decline(j)
    \/ \E j \in kept : Withdraw(j) \/ Sit(j)
    \/ \E j \in Journals : Reserve(j) \/ Happen(j)

DeskSpec == DeskInit /\ [][DeskNext]_deskVars
=============================================================================
