----------------------------- MODULE MCServices -----------------------------
(***************************************************************************)
(* Instances for TLC of the parts that share no state with each other: the *)
(* take-profit lifecycle (here one journey, fairly), the paid service, the *)
(* public reads, the wallet setup with its builder probe, the economics of *)
(* cards and the order of a journey's steps.  A behaviour runs the part    *)
(* that `part` names; the others stay where they start.                    *)
(***************************************************************************)
EXTENDS TakeProfit, PaidService, PublicReads, WalletSetup, BuilderProbe, CardEconomics, Journey

VARIABLE part

Parts == {"take_profit", "paid", "reads", "setup", "probe", "economics", "journey"}

servicesVars == <<vars, paidVars, readVars, setupVars, probeVars, cardVars, journeyVars, part>>

ServicesInit ==
    /\ part \in Parts
    /\ Init /\ ServiceInit /\ ReadsInit /\ SetupInit /\ ProbeInit /\ EconomicsInit /\ JourneyInit
    /\ part # "paid" => service = "open" /\ gate = "cold"
    /\ part # "journey" => journeyKind = "open" /\ wallet = {}

(* One step of the part that runs.                                         *)
RunTakeProfit == part = "take_profit" /\ Next
RunPaid == part = "paid" /\ PaidNext
RunReads == part = "reads" /\ ReadsNext
RunSetup == part = "setup" /\ SetupNext
RunProbe == part = "probe" /\ ProbeNext
RunEconomics == part = "economics" /\ EconomicsNext
RunJourney == part = "journey" /\ JourneyNext

ServicesNext ==
    \/ RunTakeProfit /\ UNCHANGED <<paidVars, readVars, setupVars, probeVars, cardVars, journeyVars, part>>
    \/ RunPaid /\ UNCHANGED <<vars, readVars, setupVars, probeVars, cardVars, journeyVars, part>>
    \/ RunReads /\ UNCHANGED <<vars, paidVars, setupVars, probeVars, cardVars, journeyVars, part>>
    \/ RunSetup /\ UNCHANGED <<vars, paidVars, readVars, probeVars, cardVars, journeyVars, part>>
    \/ RunProbe /\ UNCHANGED <<vars, paidVars, readVars, setupVars, cardVars, journeyVars, part>>
    \/ RunEconomics /\ UNCHANGED <<vars, paidVars, readVars, setupVars, probeVars, journeyVars, part>>
    \/ RunJourney /\ UNCHANGED <<vars, paidVars, readVars, setupVars, probeVars, cardVars, part>>

(* The fairness is the take-profit lifecycle's; it says nothing of the     *)
(* other parts, whose properties here are invariants.                      *)
ServicesSpec ==
    /\ ServicesInit /\ [][ServicesNext]_servicesVars
    /\ Fairness

(* The type invariants of all parts.                                       *)
ServicesTypeOK ==
    /\ part \in Parts
    /\ TypeOK /\ PaidTypeOK /\ ReadsTypeOK /\ SetupTypeOK /\ ProbeTypeOK
    /\ EconomicsTypeOK /\ JourneyTypeOK
=============================================================================
