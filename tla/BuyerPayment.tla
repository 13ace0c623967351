---------------------------- MODULE BuyerPayment ----------------------------
(***************************************************************************)
(* The payment of a journey in scripts/buyer-orchestrator.mjs, between the *)
(* reserved request identity and the paid card: an x402 authorization is   *)
(* signed, recorded, sent and settled by the merchant at any time until it *)
(* expires; the transaction the merchant names is claimed for one journey; *)
(* an authorization that expired unused gives the request identity back.   *)
(*                                                                         *)
(* StateRelease shows how the replay lock is claimed and released as if in *)
(* one step (LockRegistry).  Here a journal simply holds its lock or not.  *)
(***************************************************************************)
EXTENDS Naturals

CONSTANTS
    Journals,    \* journeys, one journal file and one live process each
    Keys,        \* replay keys: request identities
    KeyOf,       \* the replay key of each journey's request
    Named,       \* the payments whose transaction an answer may name
    Operators,   \* reconcile-open / reconcile-close processes
    None         \* no transaction, no claim, no journal

ASSUME KeysAssumption == KeyOf \in [Journals -> Keys]
ASSUME NamedAssumption == Named \in [Journals -> SUBSET Journals]
ASSUME NoneAssumption == None \notin Journals

(* Stages of a journal.  "unsendable" is payment_header_rejected_after_    *)
(* authorization, "rejected" paid_request_rejected_pre_settlement,         *)
(* "ambiguous" paid_request_settlement_ambiguous, "released" an unsent     *)
(* authorization given up; "resolved" is any end of a paid journey.        *)
Stages == {"none", "requested", "starting", "created", "unsendable", "rejected",
           "ambiguous", "verified", "released", "expired", "resolved"}

LiveSteps == {"idle", "requested", "reserved", "signed", "recorded", "sent",
              "answered", "claimed", "rollback", "failing"}

(* A settlement transaction is named by the journey whose authorization it *)
(* settles.                                                                *)
Transactions == Journals \cup {None}

(* required is reconciliationRequired, the flag reconciliation asks for.   *)
JournalRecord == [rev: Nat, stage: Stages, locked: BOOLEAN, required: BOOLEAN, tx: Transactions]

(* The checkpoint of a live process: seen is its revision, stage its stage, *)
(* which is ahead of the journal if a write has failed.                    *)
Live == [pc: LiveSteps, seen: Nat, stage: Stages, tx: Transactions]

Operator == [pc: {"idle", "asking", "releasing"}, at: Journals \cup {None}, seen: Nat]

VARIABLES
    journal,       \* the durable journals
    claim,         \* the claim file of each transaction: the journey it names
    live,          \* the live process of each journey
    operator,      \* the reconciling processes
    sent,          \* the authorizations the merchant has received
    settled,       \* the authorizations used on chain
    lapsed,        \* the authorizations past validBefore at the chain's head
    finalSettled,  \* settled, as the finalized block shows it
    finalLapsed,   \* lapsed, as the finalized block shows it
    earlier        \* the settlements older than each journey

localVars == <<journal, claim, live, operator>>
chainVars == <<sent, settled, lapsed, finalSettled, finalLapsed, earlier>>
vars == <<localVars, chainVars>>

-----------------------------------------------------------------------------
(* Helpers *)

NoProcess == [pc |-> "idle", seen |-> 0, stage |-> "none", tx |-> None]

NoOperator == [pc |-> "idle", at |-> None, seen |-> 0]

Fresh == [rev |-> 0, stage |-> "none", locked |-> FALSE, required |-> FALSE, tx |-> None]

(* No journey holds the request identity k.                                *)
KeyFree(k) == \A i \in Journals : KeyOf[i] = k => ~journal[i].locked

(* The journal moves by compare-and-swap on its revision.                  *)
Update(j, seen, stage, locked, required, tx) ==
    /\ journal[j].rev = seen
    /\ journal' = [journal EXCEPT ![j] =
                      [rev |-> seen + 1, stage |-> stage, locked |-> locked,
                       required |-> required, tx |-> tx]]

(* The live process of j moves to step.                                    *)
Proceed(j, step, seen, stage, tx) ==
    live' = [live EXCEPT ![j] = [pc |-> step, seen |-> seen, stage |-> stage, tx |-> tx]]

Goto(j, step) == Proceed(j, step, live[j].seen, live[j].stage, live[j].tx)

End(j) == live' = [live EXCEPT ![j] = NoProcess]

(* The live process of j writes a stage and moves on.                      *)
Persist(j, stage, locked, required, step) ==
    /\ Update(j, live[j].seen, stage, locked, required, journal[j].tx)
    /\ Proceed(j, step, live[j].seen + 1, stage, live[j].tx)

Init ==
    /\ journal = [j \in Journals |-> Fresh]
    /\ claim = [t \in Journals |-> None]
    /\ live = [j \in Journals |-> NoProcess]
    /\ operator = [o \in Operators |-> NoOperator]
    /\ sent = {}
    /\ settled = {}
    /\ lapsed = {}
    /\ finalSettled = {}
    /\ finalLapsed = {}
    /\ earlier = [j \in Journals |-> {}]

-----------------------------------------------------------------------------
(* The live process up to the merchant's answer *)

(* requestPaymentChallenge; startedAt separates older settlements.         *)
Start(j) ==
    /\ journal[j].stage = "none"
    /\ Persist(j, "requested", FALSE, FALSE, "requested")
    /\ earlier' = [earlier EXCEPT ![j] = settled]
    /\ UNCHANGED <<claim, operator, sent, settled, lapsed, finalSettled, finalLapsed>>

Reserve(j) ==
    /\ live[j].pc = "requested"
    /\ KeyFree(KeyOf[j])
    /\ Persist(j, "starting", TRUE, FALSE, "reserved")
    /\ UNCHANGED <<claim, operator, chainVars>>

(* onchainos signs; so far the authorization exists in this process only.  *)
Sign(j) ==
    /\ live[j].pc = "reserved"
    /\ Goto(j, "signed")
    /\ UNCHANGED <<journal, claim, operator, chainVars>>

(* Mutation: an authorization that may have been sent is given up, too.    *)
UnsentOrSent(j) == live[j].pc \in {"reserved", "signed", "sent"}

Unsent(j) == live[j].pc \in {"reserved", "signed"}

(* Signing failed, or the authorization is not the pinned payment.         *)
Withdraw(j) ==
    /\ Unsent(j)
    /\ Persist(j, "released", FALSE, FALSE, "failing")
    /\ UNCHANGED <<claim, operator, chainVars>>

(* The authorization is durable before anyone sees it; the checkpoint does *)
(* not ask for reconciliation yet.                                         *)
Record(j) ==
    /\ live[j].pc = "signed"
    /\ Persist(j, "created", TRUE, FALSE, "recorded")
    /\ UNCHANGED <<claim, operator, chainVars>>

RejectHeader(j) ==
    /\ live[j].pc = "recorded"
    /\ Persist(j, "unsendable", TRUE, TRUE, "failing")
    /\ UNCHANGED <<claim, operator, chainVars>>

Send(j) ==
    /\ live[j].pc = "recorded"
    /\ sent' = sent \cup {j}
    /\ Goto(j, "sent")
    /\ UNCHANGED <<journal, claim, operator, settled, lapsed, finalSettled, finalLapsed, earlier>>

(* An answer that is not a card: a refusal, or one that carries a payment  *)
(* response nevertheless.                                                  *)
Refused(j) ==
    /\ live[j].pc = "sent"
    /\ \E stage \in {"rejected", "ambiguous"} : Persist(j, stage, TRUE, TRUE, "failing")
    /\ UNCHANGED <<claim, operator, chainVars>>

(* Mutation: an unreadable payment response is taken for an answer.        *)
AcceptedUnread(j) ==
    /\ live[j].pc = "sent"
    /\ Update(j, live[j].seen, "ambiguous", TRUE, TRUE, journal[j].tx)
    /\ \E t \in Named[j] \cup {None} : Proceed(j, "answered", live[j].seen + 1, "ambiguous", t)
    /\ UNCHANGED <<claim, operator, chainVars>>

(* A card.  The journal is ambiguous before the payment response is read,  *)
(* which names a transaction or is unreadable.                             *)
Accepted(j) ==
    /\ live[j].pc = "sent"
    /\ Update(j, live[j].seen, "ambiguous", TRUE, TRUE, journal[j].tx)
    /\ \/ \E t \in Named[j] : Proceed(j, "answered", live[j].seen + 1, "ambiguous", t)
       \/ Proceed(j, "failing", live[j].seen + 1, "ambiguous", None)
    /\ UNCHANGED <<claim, operator, chainVars>>

-----------------------------------------------------------------------------
(* The transaction claim *)

(* fetchAndVerifyX402Payment: a settlement of this payer and amount that   *)
(* is not older than the journey.                                          *)
PaymentProved(j, t) == t \in settled /\ t \notin earlier[j]

(* Mutation: the claim file replaces one that is there.                    *)
ReplaceClaim(t) == TRUE

(* The exclusive link of the claim file succeeds.                          *)
Unclaimed(t) == claim[t] = None

Claim(j) ==
    /\ live[j].pc = "answered"
    /\ PaymentProved(j, live[j].tx)
    /\ Unclaimed(live[j].tx)
    /\ claim' = [claim EXCEPT ![live[j].tx] = j]
    /\ Goto(j, "claimed")
    /\ UNCHANGED <<journal, operator, chainVars>>

(* Mutation: a reported failure is rolled back without a look at the journal. *)
PromoteAndRollBack(j) ==
    /\ live[j].pc = "claimed"
    /\ Update(j, live[j].seen, "verified", TRUE, TRUE, live[j].tx)
    /\ Goto(j, "rollback")
    /\ UNCHANGED <<claim, operator, chainVars>>

(* The journal is promoted; a writer that then reports a failure finds the *)
(* journal at its target and keeps the claim.                              *)
Promote(j) ==
    /\ live[j].pc = "claimed"
    /\ Update(j, live[j].seen, "verified", TRUE, TRUE, live[j].tx)
    /\ End(j)
    /\ UNCHANGED <<claim, operator, chainVars>>

(* The write did not reach the journal: stale, refused or failed.          *)
PromoteFails(j) ==
    /\ live[j].pc = "claimed"
    /\ Goto(j, "rollback")
    /\ UNCHANGED <<journal, claim, operator, chainVars>>

RollBack(j) ==
    /\ live[j].pc = "rollback"
    /\ claim[live[j].tx] = j
    /\ claim' = [claim EXCEPT ![live[j].tx] = None]
    /\ Proceed(j, "failing", live[j].seen, live[j].stage, None)
    /\ UNCHANGED <<journal, operator, chainVars>>

-----------------------------------------------------------------------------
(* Failure of the live process *)

(* The writes that change the checkpoint before they reach the journal.    *)
Unwritten == {<<"signed", "created">>, <<"recorded", "unsendable">>,
              <<"sent", "rejected">>, <<"sent", "ambiguous">>}

(* Such a write is refused or fails: the checkpoint is ahead.              *)
WriteFails(j) ==
    /\ \E stage \in Stages :
          /\ <<live[j].pc, stage>> \in Unwritten
          /\ Proceed(j, "failing", live[j].seen, stage, live[j].tx)
    /\ UNCHANGED <<journal, claim, operator, chainVars>>

(* A lost answer, a transaction that is unproved or claimed, another write *)
(* that fails.                                                             *)
Fail(j) ==
    /\ live[j].pc \in {"requested", "reserved", "signed", "recorded", "sent", "answered"}
    /\ Goto(j, "failing")
    /\ UNCHANGED <<journal, claim, operator, chainVars>>

(* The checkpoint of a failed process is written once more, and asks for   *)
(* reconciliation if it holds the replay lock.                             *)
FinalWrite(j) ==
    /\ live[j].pc = "failing"
    /\ Update(j, live[j].seen, live[j].stage, journal[j].locked, journal[j].locked, journal[j].tx)
    /\ End(j)
    /\ UNCHANGED <<claim, operator, chainVars>>

(* The process dies, or ends without a write (a refused final write, an    *)
(* ambiguous claim or rollback that preserves the source journal).         *)
Die(j) ==
    /\ live[j].pc # "idle"
    /\ End(j)
    /\ UNCHANGED <<journal, claim, operator, chainVars>>

-----------------------------------------------------------------------------
(* Reconciliation *)

(* Mutation: an answer after the payment was sent is never reconsidered.   *)
RecoverableUnanswered(j) ==
    /\ journal[j].stage \in {"created", "unsendable", "rejected"}
    /\ journal[j].locked
    /\ journal[j].required
    /\ journal[j].tx = None

(* isRecoverablePaymentAuthorizationState                                  *)
Recoverable(j) ==
    /\ journal[j].stage \in {"created", "unsendable", "rejected", "ambiguous"}
    /\ journal[j].locked
    /\ journal[j].required
    /\ journal[j].tx = None

Reconcile(o, j) ==
    /\ operator[o] = NoOperator
    /\ Recoverable(j)
    /\ operator' = [operator EXCEPT ![o] = [pc |-> "asking", at |-> j, seen |-> journal[j].rev]]
    /\ UNCHANGED <<journal, claim, live, chainVars>>

(* Mutation: expiry is judged by the local clock, use by the finalized block. *)
UnusedByClock(j) == j \in lapsed /\ j \notin finalSettled

(* fetchEip3009AuthorizationState at the finalized block.                  *)
UnusedForever(j) == j \in finalLapsed /\ j \notin finalSettled

Ask(o) ==
    /\ operator[o].pc = "asking"
    /\ operator' = [operator EXCEPT ![o] =
                       IF UnusedForever(operator[o].at) THEN [@ EXCEPT !.pc = "releasing"]
                       ELSE NoOperator]
    /\ UNCHANGED <<journal, claim, live, chainVars>>

(* releaseReconciledLocks of the replay lock, against the journal as read. *)
Release(o) ==
    /\ operator[o].pc = "releasing"
    /\ Update(operator[o].at, operator[o].seen, "expired", FALSE, FALSE, None)
    /\ operator' = [operator EXCEPT ![o] = NoOperator]
    /\ UNCHANGED <<claim, live, chainVars>>

(* The journal has changed, the directory is busy or the process dies.     *)
Abandon(o) ==
    /\ operator[o].pc # "idle"
    /\ operator' = [operator EXCEPT ![o] = NoOperator]
    /\ UNCHANGED <<journal, claim, live, chainVars>>

(* The rest of a paid journey, as StateRelease has it: some process checks *)
(* the stored claim and in the end releases the locks.                     *)
Resolve(j) ==
    /\ journal[j].stage = "verified"
    /\ claim[journal[j].tx] = j
    /\ Update(j, journal[j].rev, "resolved", FALSE, FALSE, journal[j].tx)
    /\ UNCHANGED <<claim, live, operator, chainVars>>

-----------------------------------------------------------------------------
(* The chain *)

(* The merchant settles an authorization it has, while it is valid.        *)
Settle(j) ==
    /\ j \in sent
    /\ j \notin settled \cup lapsed
    /\ settled' = settled \cup {j}
    /\ UNCHANGED <<localVars, sent, lapsed, finalSettled, finalLapsed, earlier>>

Lapse(j) ==
    /\ journal[j].stage \notin {"none", "requested", "starting"}
    /\ j \notin lapsed
    /\ lapsed' = lapsed \cup {j}
    /\ UNCHANGED <<localVars, sent, settled, finalSettled, finalLapsed, earlier>>

(* The head of the chain becomes the finalized block.                      *)
Finalize ==
    /\ finalSettled' = settled
    /\ finalLapsed' = lapsed
    /\ UNCHANGED <<localVars, sent, settled, lapsed, earlier>>

-----------------------------------------------------------------------------
(* Specification *)

LiveStep(j) ==
    \/ Start(j) \/ Reserve(j) \/ Sign(j) \/ Withdraw(j) \/ Record(j) \/ RejectHeader(j)
    \/ Send(j) \/ Refused(j) \/ Accepted(j) \/ Claim(j) \/ Promote(j) \/ PromoteFails(j)
    \/ RollBack(j) \/ WriteFails(j) \/ Fail(j) \/ FinalWrite(j) \/ Die(j)

OperatorStep(o) == Ask(o) \/ Release(o) \/ Abandon(o)

Next ==
    \/ \E j \in Journals : LiveStep(j) \/ Resolve(j) \/ Settle(j) \/ Lapse(j)
    \/ \E o \in Operators : OperatorStep(o) \/ \E j \in Journals : Reconcile(o, j)
    \/ Finalize

Spec == Init /\ [][Next]_vars

(* Time passes, blocks become final, and the operator reconciles every     *)
(* recoverable journal again and again, not failing for ever at one step.  *)
(* Nothing is assumed of the live processes or of the merchant.            *)
FairSpec ==
    /\ Spec
    /\ WF_vars(Finalize)
    /\ \A j \in Journals :
          /\ WF_vars(Lapse(j))
          /\ SF_vars(\E o \in Operators : Reconcile(o, j))
          /\ \A o \in Operators :
                /\ SF_vars(operator[o].at = j /\ Ask(o))
                /\ SF_vars(operator[o].at = j /\ Release(o))
    /\ \A o \in Operators : WF_vars(OperatorStep(o))

-----------------------------------------------------------------------------
(* Properties *)

TypeOK ==
    /\ journal \in [Journals -> JournalRecord]
    /\ claim \in [Journals -> Transactions]
    /\ live \in [Journals -> Live]
    /\ operator \in [Operators -> Operator]
    /\ \A o \in Operators : operator[o].pc # "idle" => operator[o].at \in Journals
    /\ \A j \in Journals : live[j].pc \in {"answered", "claimed", "rollback"} => live[j].tx \in Journals
    /\ \A j \in Journals : journal[j].stage = "verified" => journal[j].tx \in Journals
    /\ sent \subseteq Journals
    /\ settled \subseteq sent
    /\ lapsed \subseteq Journals
    /\ finalSettled \subseteq settled
    /\ finalLapsed \subseteq lapsed
    /\ earlier \in [Journals -> SUBSET Journals]

(* One settlement pays for one journey: the claim of the transaction makes *)
(* it so even if a merchant's answers name another journey's payment       *)
(* (claimVerifiedPaymentTransaction).                                      *)
OneJourneyPerPayment ==
    \A i, j \in Journals : journal[i].tx # None /\ journal[i].tx = journal[j].tx => i = j

(* A journal that says it is paid has its claim file and a settlement that *)
(* is not older than itself, whatever failed while it was promoted         *)
(* (persistVerifiedPaidServicePayment and its rollback).                   *)
PaidIsClaimed ==
    \A j \in Journals : journal[j].tx # None =>
        claim[journal[j].tx] = j /\ PaymentProved(j, journal[j].tx)

(* The merchant holds an authorization of j that it has used for a journey *)
(* that is not over, or that it may still use.                             *)
Outstanding(j) ==
    /\ j \in sent
    /\ \/ j \in settled /\ journal[j].stage # "resolved"
       \/ j \notin settled /\ j \notin lapsed

(* A journey that gave its request identity back without a card has not    *)
(* been charged and never will be (the expired-authorization release of    *)
(* reconcile-open and reconcile-close, the unsent release).                *)
ReleasedNeverCharged ==
    \A j \in Journals : journal[j].stage \in {"released", "expired"} => ~Outstanding(j)

(* The buyer is never exposed to two charges for one request: while an     *)
(* authorization of a request identity is outstanding, there is no other   *)
(* (claimOpenReplayLock, claimCloseReplayLock before signing).             *)
OneChargePerRequest ==
    \A i, j \in Journals :
        i # j /\ KeyOf[i] = KeyOf[j] => ~(Outstanding(i) /\ Outstanding(j))

(* A journal with a recorded authorization that asks for reconciliation    *)
(* does not block its request for ever: unless the authorization is used,  *)
(* it is freed once its expiry is final, whatever the live process does    *)
(* (reconcile-open, reconcile-close).                                      *)
UnusedEventuallyFreed ==
    \A j \in Journals :
        journal[j].required /\ journal[j].stage # "starting"
            ~> journal[j].stage \in {"expired", "verified", "resolved"} \/ j \in settled

(* The same of every authorization a process has left behind, as           *)
(* test/buyer-orchestrator-cli.test.mjs:2187 has it of every ambiguous     *)
(* payment; the code never frees one whose process died before its final   *)
(* write, since only that write asks for reconciliation.                   *)
LeftBehindEventuallyFreed ==
    \A j \in Journals :
        journal[j].stage = "created" /\ live[j].pc = "idle"
            ~> journal[j].stage = "expired" \/ j \in settled
=============================================================================
