----------------------------- MODULE MCRecords ------------------------------
(***************************************************************************)
(* Instances for TLC of two parts that keep records on disk and share none *)
(* of them: the buyers' claims on payments and the operator scripts with   *)
(* their outbox.  A behaviour runs the part that `part` names; the other   *)
(* stays where it starts.                                                  *)
(***************************************************************************)
EXTENDS MCBuyerPayment, Outbox

VARIABLE part

RecordsInit ==
    /\ part \in {"claims", "operator"}
    /\ Init /\ OutboxInit
    /\ part # "operator" => script = "watch"

(* One step of the part that runs.                                         *)
RunClaims == part = "claims" /\ Next
RunOperator == part = "operator" /\ OutboxNext

RecordsNext ==
    \/ RunClaims /\ UNCHANGED <<outboxVars, part>>
    \/ RunOperator /\ UNCHANGED <<vars, part>>

RecordsSpec == RecordsInit /\ [][RecordsNext]_<<vars, outboxVars, part>>

(* The type invariants of both parts.                                      *)
RecordsTypeOK == part \in {"claims", "operator"} /\ TypeOK /\ OutboxTypeOK
=============================================================================
