------------------------- MODULE BuyerPaymentProofs -------------------------
(***************************************************************************)
(* Proofs about BuyerPayment.  PaymentInv is inductive; it says where a    *)
(* live process may stand for each stage of its journal, what an operator  *)
(* that is about to release has seen, and what a claim file means.         *)
(***************************************************************************)
EXTENDS BuyerPayment, TLAPS

(* The stages in which a journal holds its request identity.               *)
LockedStages == {"starting", "created", "unsendable", "rejected", "ambiguous", "verified"}

(* The stages of a journal whose authorization may have been sent.         *)
SentStages == {"created", "rejected", "ambiguous", "verified", "expired", "resolved"}

(* The stage of the journal that a live process at step pc has written.    *)
StandsAt(pc, stage) ==
    /\ pc = "requested" => stage = "requested"
    /\ pc \in {"reserved", "signed"} => stage = "starting"
    /\ pc \in {"recorded", "sent"} => stage = "created"
    /\ pc \in {"answered", "claimed", "rollback"} => stage = "ambiguous"
    /\ pc = "failing" => stage \notin {"none", "verified", "resolved", "expired"}

(* What a stage means for the lock, the claim, the live process and the    *)
(* authorization.                                                          *)
StageInv ==
    \A j \in Journals :
        /\ journal[j].locked <=> journal[j].stage \in LockedStages
        /\ journal[j].tx # None <=> journal[j].stage \in {"verified", "resolved"}
        /\ journal[j].stage \in {"none", "verified", "resolved"} => live[j].pc = "idle"
        /\ journal[j].stage = "released" => live[j].pc \in {"idle", "failing"}
        /\ j \in sent => journal[j].stage \in SentStages
        /\ journal[j].stage = "expired" => j \in lapsed \ settled

(* Only a failed process has a checkpoint ahead of its journal, and that   *)
(* checkpoint holds the request identity exactly as the journal does.      *)
CheckpointOK(j) ==
    /\ StandsAt(live[j].pc, live[j].stage)
    /\ live[j].pc # "failing" => live[j].stage = journal[j].stage
    /\ live[j].stage \in LockedStages <=> journal[j].locked
    /\ j \in sent => live[j].stage \in SentStages

(* The checkpoint of a live process agrees with its journal, unless the    *)
(* journal has been released under it; then its revision is stale.         *)
LiveInv ==
    \A j \in Journals : live[j].pc # "idle" =>
        \/ journal[j].rev = live[j].seen /\ CheckpointOK(j)
        \/ journal[j].rev > live[j].seen /\ journal[j].stage = "expired"

(* An authorization is sent only after it is recorded.                     *)
UnsentInv ==
    \A j \in Journals : live[j].pc \in {"requested", "reserved", "signed", "recorded"} => j \notin sent

(* Until it is promoted or rolled back, a claim is its journey's, and proved. *)
ClaimInv ==
    \A j \in Journals : live[j].pc \in {"claimed", "rollback"} =>
        claim[live[j].tx] = j /\ PaymentProved(j, live[j].tx)

(* What an operator has read holds until the journal's revision moves.     *)
OperatorInv ==
    \A o \in Operators : operator[o].pc # "idle" =>
        /\ journal[operator[o].at].rev >= operator[o].seen
        /\ journal[operator[o].at].rev = operator[o].seen => Recoverable(operator[o].at)
        /\ operator[o].pc = "releasing" => operator[o].at \in lapsed \ settled

(* What was settled before its expiry became final is final itself.        *)
ChainInv == finalLapsed \cap settled \subseteq finalSettled

(* One journal holds a request identity.                                   *)
KeyInv ==
    \A i, j \in Journals :
        i # j /\ KeyOf[i] = KeyOf[j] => ~(journal[i].locked /\ journal[j].locked)

(* The inductive invariant.                                                *)
PaymentInv ==
    /\ TypeOK
    /\ StageInv
    /\ LiveInv
    /\ UnsentInv
    /\ ClaimInv
    /\ OperatorInv
    /\ ChainInv
    /\ KeyInv
    /\ PaidIsClaimed

(* Every transaction a journey works with was named to it.                 *)
NamedInv ==
    \A j \in Journals :
        /\ live[j].tx # None => live[j].tx \in Named[j]
        /\ journal[j].tx # None => journal[j].tx \in Named[j]


(* Every step keeps the types: an operator at work has a journal, a live   *)
(* process with a transaction has one that settles some authorization.     *)
LEMMA StepType ==
    TypeOK /\ StageInv /\ LiveInv /\ OperatorInv /\ [Next]_vars => TypeOK'
<1> SUFFICES ASSUME TypeOK /\ StageInv /\ LiveInv /\ OperatorInv, [Next]_vars
             PROVE  TypeOK'
  OBVIOUS
<1> USE NoneAssumption, KeysAssumption, NamedAssumption
<1> USE DEF TypeOK, JournalRecord, Live, Operator, Transactions, Stages, LiveSteps,
            StageInv, LiveInv, CheckpointOK, StandsAt, Fresh, NoProcess, NoOperator,
            chainVars
<1>1. ASSUME NEW j \in Journals, Start(j) PROVE TypeOK'
  BY <1>1 DEF Start, Persist, Update, Proceed
<1>2. ASSUME NEW j \in Journals, Reserve(j) PROVE TypeOK'
  BY <1>2 DEF Reserve, Persist, Update, Proceed, KeyFree
<1>3. ASSUME NEW j \in Journals, Sign(j) PROVE TypeOK'
  BY <1>3 DEF Sign, Goto, Proceed
<1>4. ASSUME NEW j \in Journals, Withdraw(j) PROVE TypeOK'
  BY <1>4 DEF Withdraw, Unsent, Persist, Update, Proceed
<1>5. ASSUME NEW j \in Journals, Record(j) PROVE TypeOK'
  BY <1>5 DEF Record, Persist, Update, Proceed
<1>6. ASSUME NEW j \in Journals, RejectHeader(j) PROVE TypeOK'
  BY <1>6 DEF RejectHeader, Persist, Update, Proceed
<1>7. ASSUME NEW j \in Journals, Send(j) PROVE TypeOK'
  BY <1>7 DEF Send, Goto, Proceed
<1>8. ASSUME NEW j \in Journals, Refused(j) PROVE TypeOK'
  BY <1>8 DEF Refused, Persist, Update, Proceed
<1>9. ASSUME NEW j \in Journals, Accepted(j) PROVE TypeOK'
  <2>1. ASSUME NEW t \in Named[j], Proceed(j, "answered", live[j].seen + 1, "ambiguous", t) PROVE TypeOK'
    BY <1>9, <2>1 DEF Accepted, Update, Proceed
  <2>2. CASE Proceed(j, "failing", live[j].seen + 1, "ambiguous", None)
    BY <1>9, <2>2 DEF Accepted, Update, Proceed
  <2> QED BY <1>9, <2>1, <2>2 DEF Accepted
<1>10. ASSUME NEW j \in Journals, Claim(j) PROVE TypeOK'
  BY <1>10 DEF Claim, Unclaimed, Goto, Proceed
<1>11. ASSUME NEW j \in Journals, Promote(j) PROVE TypeOK'
  BY <1>11 DEF Promote, Update, End, NoProcess
<1>12. ASSUME NEW j \in Journals, PromoteFails(j) PROVE TypeOK'
  BY <1>12 DEF PromoteFails, Goto, Proceed
<1>13. ASSUME NEW j \in Journals, RollBack(j) PROVE TypeOK'
  BY <1>13 DEF RollBack, Proceed
<1>14. ASSUME NEW j \in Journals, WriteFails(j) PROVE TypeOK'
  BY <1>14 DEF WriteFails, Unwritten, Proceed
<1>15. ASSUME NEW j \in Journals, Fail(j) PROVE TypeOK'
  BY <1>15 DEF Fail, Goto, Proceed
<1>16. ASSUME NEW j \in Journals, FinalWrite(j) PROVE TypeOK'
  BY <1>16 DEF FinalWrite, Update, End, NoProcess
<1>17. ASSUME NEW j \in Journals, Die(j) PROVE TypeOK'
  BY <1>17 DEF Die, End, NoProcess
<1>18. ASSUME NEW j \in Journals, Resolve(j) PROVE TypeOK'
  BY <1>18 DEF Resolve, Update
<1>19. ASSUME NEW j \in Journals, Settle(j) PROVE TypeOK'
  BY <1>19 DEF Settle, localVars
<1>20. ASSUME NEW j \in Journals, Lapse(j) PROVE TypeOK'
  BY <1>20 DEF Lapse, localVars
<1>21. ASSUME NEW o \in Operators, Ask(o) PROVE TypeOK'
  BY <1>21 DEF Ask, UnusedForever, NoOperator
<1>22. ASSUME NEW o \in Operators, Release(o) PROVE TypeOK'
  BY <1>22 DEF Release, Update, NoOperator
<1>23. ASSUME NEW o \in Operators, Abandon(o) PROVE TypeOK'
  BY <1>23 DEF Abandon, NoOperator
<1>24. ASSUME NEW o \in Operators, NEW j \in Journals, Reconcile(o, j) PROVE TypeOK'
  BY <1>24 DEF Reconcile
<1>25. ASSUME Finalize PROVE TypeOK'
  BY <1>25 DEF Finalize, localVars
<1>26. CASE UNCHANGED vars
  BY <1>26 DEF vars, localVars
<1> QED
  BY <1>1, <1>2, <1>3, <1>4, <1>5, <1>6, <1>7, <1>8, <1>9, <1>10, <1>11, <1>12,
     <1>13, <1>14, <1>15, <1>16, <1>17, <1>18, <1>19, <1>20, <1>21, <1>22, <1>23, <1>24, <1>25, <1>26
  DEF Next, LiveStep, OperatorStep

(* Every step keeps the meaning of the stages: who holds the request       *)
(* identity, who is paid, whose authorization may have been sent, and that *)
(* an expired journal was not charged.                                     *)
LEMMA StepStage ==
    TypeOK /\ StageInv /\ LiveInv /\ UnsentInv /\ OperatorInv /\ [Next]_vars => StageInv'
<1> SUFFICES ASSUME TypeOK /\ StageInv /\ LiveInv /\ UnsentInv /\ OperatorInv, [Next]_vars
             PROVE  StageInv'
  OBVIOUS
<1> USE NoneAssumption, KeysAssumption, NamedAssumption
<1> USE DEF TypeOK, JournalRecord, Live, Operator, Transactions, StageInv, LiveInv,
            CheckpointOK, UnsentInv, OperatorInv, LockedStages, SentStages, StandsAt,
            Stages, chainVars
<1>1. ASSUME NEW j \in Journals, Start(j) PROVE StageInv'
  BY <1>1 DEF Start, Persist, Update, Proceed
<1>2. ASSUME NEW j \in Journals, Reserve(j) PROVE StageInv'
  BY <1>2 DEF Reserve, Persist, Update, Proceed, KeyFree
<1>3. ASSUME NEW j \in Journals, Sign(j) PROVE StageInv'
  BY <1>3 DEF Sign, Goto, Proceed
<1>4. ASSUME NEW j \in Journals, Withdraw(j) PROVE StageInv'
  BY <1>4 DEF Withdraw, Unsent, Persist, Update, Proceed
<1>5. ASSUME NEW j \in Journals, Record(j) PROVE StageInv'
  BY <1>5 DEF Record, Persist, Update, Proceed
<1>6. ASSUME NEW j \in Journals, RejectHeader(j) PROVE StageInv'
  BY <1>6 DEF RejectHeader, Persist, Update, Proceed
<1>7. ASSUME NEW j \in Journals, Send(j) PROVE StageInv'
  BY <1>7 DEF Send, Goto, Proceed
<1>8. ASSUME NEW j \in Journals, Refused(j) PROVE StageInv'
  BY <1>8 DEF Refused, Persist, Update, Proceed
<1>9. ASSUME NEW j \in Journals, Accepted(j) PROVE StageInv'
  BY <1>9 DEF Accepted, Update, Proceed
<1>10. ASSUME NEW j \in Journals, Claim(j) PROVE StageInv'
  BY <1>10 DEF Claim, Unclaimed, Goto, Proceed
<1>11. ASSUME NEW j \in Journals, Promote(j) PROVE StageInv'
  BY <1>11 DEF Promote, Update, End, NoProcess
<1>12. ASSUME NEW j \in Journals, PromoteFails(j) PROVE StageInv'
  BY <1>12 DEF PromoteFails, Goto, Proceed
<1>13. ASSUME NEW j \in Journals, RollBack(j) PROVE StageInv'
  BY <1>13 DEF RollBack, Proceed
<1>14. ASSUME NEW j \in Journals, WriteFails(j) PROVE StageInv'
  BY <1>14 DEF WriteFails, Unwritten, Proceed
<1>15. ASSUME NEW j \in Journals, Fail(j) PROVE StageInv'
  BY <1>15 DEF Fail, Goto, Proceed
<1>16. ASSUME NEW j \in Journals, FinalWrite(j) PROVE StageInv'
  BY <1>16 DEF FinalWrite, Update, End, NoProcess
<1>17. ASSUME NEW j \in Journals, Die(j) PROVE StageInv'
  BY <1>17 DEF Die, End, NoProcess
<1>18. ASSUME NEW j \in Journals, Resolve(j) PROVE StageInv'
  BY <1>18 DEF Resolve, Update
<1>19. ASSUME NEW j \in Journals, Settle(j) PROVE StageInv'
  BY <1>19 DEF Settle, localVars
<1>20. ASSUME NEW j \in Journals, Lapse(j) PROVE StageInv'
  BY <1>20 DEF Lapse, localVars
<1>21. ASSUME NEW o \in Operators, Ask(o) PROVE StageInv'
  BY <1>21 DEF Ask, UnusedForever, NoOperator
<1>22. ASSUME NEW o \in Operators, Release(o) PROVE StageInv'
  BY <1>22 DEF Release, Update, NoOperator
<1>23. ASSUME NEW o \in Operators, Abandon(o) PROVE StageInv'
  BY <1>23 DEF Abandon, NoOperator
<1>24. ASSUME NEW o \in Operators, NEW j \in Journals, Reconcile(o, j) PROVE StageInv'
  BY <1>24 DEF Reconcile
<1>25. ASSUME Finalize PROVE StageInv'
  BY <1>25 DEF Finalize, localVars
<1>26. CASE UNCHANGED vars
  BY <1>26 DEF vars, localVars
<1> QED
  BY <1>1, <1>2, <1>3, <1>4, <1>5, <1>6, <1>7, <1>8, <1>9, <1>10, <1>11, <1>12,
     <1>13, <1>14, <1>15, <1>16, <1>17, <1>18, <1>19, <1>20, <1>21, <1>22, <1>23, <1>24, <1>25, <1>26
  DEF Next, LiveStep, OperatorStep

(* Every step keeps a live process where its journal says, or its revision  *)
(* stale: only the release of an expired authorization overtakes it.       *)
LEMMA StepLive ==
    TypeOK /\ StageInv /\ LiveInv /\ UnsentInv /\ OperatorInv /\ [Next]_vars => LiveInv'
<1> SUFFICES ASSUME TypeOK /\ StageInv /\ LiveInv /\ UnsentInv /\ OperatorInv, [Next]_vars
             PROVE  LiveInv'
  OBVIOUS
<1> USE NoneAssumption, KeysAssumption, NamedAssumption
<1> USE DEF TypeOK, JournalRecord, Live, Operator, Transactions, StageInv, LiveInv,
            UnsentInv, CheckpointOK, StandsAt, LockedStages, SentStages, Stages, chainVars
<1>1. ASSUME NEW j \in Journals, Start(j) PROVE LiveInv'
  BY <1>1 DEF Start, Persist, Update, Proceed
<1>2. ASSUME NEW j \in Journals, Reserve(j) PROVE LiveInv'
  BY <1>2 DEF Reserve, Persist, Update, Proceed, KeyFree
<1>3. ASSUME NEW j \in Journals, Sign(j) PROVE LiveInv'
  BY <1>3 DEF Sign, Goto, Proceed
<1>4. ASSUME NEW j \in Journals, Withdraw(j) PROVE LiveInv'
  BY <1>4 DEF Withdraw, Unsent, Persist, Update, Proceed
<1>5. ASSUME NEW j \in Journals, Record(j) PROVE LiveInv'
  BY <1>5 DEF Record, Persist, Update, Proceed
<1>6. ASSUME NEW j \in Journals, RejectHeader(j) PROVE LiveInv'
  BY <1>6 DEF RejectHeader, Persist, Update, Proceed
<1>7. ASSUME NEW j \in Journals, Send(j) PROVE LiveInv'
  BY <1>7 DEF Send, Goto, Proceed
<1>8. ASSUME NEW j \in Journals, Refused(j) PROVE LiveInv'
  BY <1>8 DEF Refused, Persist, Update, Proceed
<1>9. ASSUME NEW j \in Journals, Accepted(j) PROVE LiveInv'
  <2>1. ASSUME NEW t \in Named[j], Proceed(j, "answered", live[j].seen + 1, "ambiguous", t) PROVE LiveInv'
    BY <1>9, <2>1 DEF Accepted, Update, Proceed
  <2>2. CASE Proceed(j, "failing", live[j].seen + 1, "ambiguous", None)
    BY <1>9, <2>2 DEF Accepted, Update, Proceed
  <2> QED BY <1>9, <2>1, <2>2 DEF Accepted
<1>10. ASSUME NEW j \in Journals, Claim(j) PROVE LiveInv'
  BY <1>10 DEF Claim, Unclaimed, Goto, Proceed
<1>11. ASSUME NEW j \in Journals, Promote(j) PROVE LiveInv'
  BY <1>11 DEF Promote, Update, End, NoProcess
<1>12. ASSUME NEW j \in Journals, PromoteFails(j) PROVE LiveInv'
  BY <1>12 DEF PromoteFails, Goto, Proceed
<1>13. ASSUME NEW j \in Journals, RollBack(j) PROVE LiveInv'
  BY <1>13 DEF RollBack, Proceed
<1>14. ASSUME NEW j \in Journals, WriteFails(j) PROVE LiveInv'
  <2>1. PICK stage \in Stages : /\ <<live[j].pc, stage>> \in Unwritten
                                 /\ Proceed(j, "failing", live[j].seen, stage, live[j].tx)
    BY <1>14 DEF WriteFails
  <2>2. /\ live[j].pc \in {"signed", "recorded", "sent"}
        /\ stage \in {"created", "unsendable", "rejected", "ambiguous"}
        /\ live[j].pc = "sent" \/ stage \in {"created", "unsendable"}
        /\ stage = "unsendable" => live[j].pc = "recorded"
    BY <2>1 DEF Unwritten
  <2> QED BY <1>14, <2>1, <2>2 DEF WriteFails, Proceed
<1>15. ASSUME NEW j \in Journals, Fail(j) PROVE LiveInv'
  BY <1>15 DEF Fail, Goto, Proceed
<1>16. ASSUME NEW j \in Journals, FinalWrite(j) PROVE LiveInv'
  BY <1>16 DEF FinalWrite, Update, End, NoProcess
<1>17. ASSUME NEW j \in Journals, Die(j) PROVE LiveInv'
  BY <1>17 DEF Die, End, NoProcess
<1>18. ASSUME NEW j \in Journals, Resolve(j) PROVE LiveInv'
  BY <1>18 DEF Resolve, Update
<1>19. ASSUME NEW j \in Journals, Settle(j) PROVE LiveInv'
  BY <1>19 DEF Settle, localVars
<1>20. ASSUME NEW j \in Journals, Lapse(j) PROVE LiveInv'
  BY <1>20 DEF Lapse, localVars
<1>21. ASSUME NEW o \in Operators, Ask(o) PROVE LiveInv'
  BY <1>21 DEF Ask, UnusedForever, NoOperator
<1>22. ASSUME NEW o \in Operators, Release(o) PROVE LiveInv'
  BY <1>22 DEF Release, Update, NoOperator
<1>23. ASSUME NEW o \in Operators, Abandon(o) PROVE LiveInv'
  BY <1>23 DEF Abandon, NoOperator
<1>24. ASSUME NEW o \in Operators, NEW j \in Journals, Reconcile(o, j) PROVE LiveInv'
  BY <1>24 DEF Reconcile
<1>25. ASSUME Finalize PROVE LiveInv'
  BY <1>25 DEF Finalize, localVars
<1>26. CASE UNCHANGED vars
  BY <1>26 DEF vars, localVars
<1> QED
  BY <1>1, <1>2, <1>3, <1>4, <1>5, <1>6, <1>7, <1>8, <1>9, <1>10, <1>11, <1>12,
     <1>13, <1>14, <1>15, <1>16, <1>17, <1>18, <1>19, <1>20, <1>21, <1>22, <1>23, <1>24, <1>25, <1>26
  DEF Next, LiveStep, OperatorStep

(* No step sends an authorization before it is recorded.                   *)
LEMMA StepUnsent ==
    TypeOK /\ StageInv /\ UnsentInv /\ [Next]_vars => UnsentInv'
<1> SUFFICES ASSUME TypeOK /\ StageInv /\ UnsentInv, [Next]_vars
             PROVE  UnsentInv'
  OBVIOUS
<1> USE NoneAssumption, KeysAssumption, NamedAssumption
<1> USE DEF TypeOK, JournalRecord, Live, Operator, Transactions, StageInv, UnsentInv,
            SentStages, chainVars
<1>1. ASSUME NEW j \in Journals, Start(j) PROVE UnsentInv'
  BY <1>1 DEF Start, Persist, Update, Proceed
<1>2. ASSUME NEW j \in Journals, Reserve(j) PROVE UnsentInv'
  BY <1>2 DEF Reserve, Persist, Update, Proceed, KeyFree
<1>3. ASSUME NEW j \in Journals, Sign(j) PROVE UnsentInv'
  BY <1>3 DEF Sign, Goto, Proceed
<1>4. ASSUME NEW j \in Journals, Withdraw(j) PROVE UnsentInv'
  BY <1>4 DEF Withdraw, Unsent, Persist, Update, Proceed
<1>5. ASSUME NEW j \in Journals, Record(j) PROVE UnsentInv'
  BY <1>5 DEF Record, Persist, Update, Proceed
<1>6. ASSUME NEW j \in Journals, RejectHeader(j) PROVE UnsentInv'
  BY <1>6 DEF RejectHeader, Persist, Update, Proceed
<1>7. ASSUME NEW j \in Journals, Send(j) PROVE UnsentInv'
  BY <1>7 DEF Send, Goto, Proceed
<1>8. ASSUME NEW j \in Journals, Refused(j) PROVE UnsentInv'
  BY <1>8 DEF Refused, Persist, Update, Proceed
<1>9. ASSUME NEW j \in Journals, Accepted(j) PROVE UnsentInv'
  BY <1>9 DEF Accepted, Update, Proceed
<1>10. ASSUME NEW j \in Journals, Claim(j) PROVE UnsentInv'
  BY <1>10 DEF Claim, Unclaimed, Goto, Proceed
<1>11. ASSUME NEW j \in Journals, Promote(j) PROVE UnsentInv'
  BY <1>11 DEF Promote, Update, End, NoProcess
<1>12. ASSUME NEW j \in Journals, PromoteFails(j) PROVE UnsentInv'
  BY <1>12 DEF PromoteFails, Goto, Proceed
<1>13. ASSUME NEW j \in Journals, RollBack(j) PROVE UnsentInv'
  BY <1>13 DEF RollBack, Proceed
<1>14. ASSUME NEW j \in Journals, WriteFails(j) PROVE UnsentInv'
  BY <1>14 DEF WriteFails, Unwritten, Proceed
<1>15. ASSUME NEW j \in Journals, Fail(j) PROVE UnsentInv'
  BY <1>15 DEF Fail, Goto, Proceed
<1>16. ASSUME NEW j \in Journals, FinalWrite(j) PROVE UnsentInv'
  BY <1>16 DEF FinalWrite, Update, End, NoProcess
<1>17. ASSUME NEW j \in Journals, Die(j) PROVE UnsentInv'
  BY <1>17 DEF Die, End, NoProcess
<1>18. ASSUME NEW j \in Journals, Resolve(j) PROVE UnsentInv'
  BY <1>18 DEF Resolve, Update
<1>19. ASSUME NEW j \in Journals, Settle(j) PROVE UnsentInv'
  BY <1>19 DEF Settle, localVars
<1>20. ASSUME NEW j \in Journals, Lapse(j) PROVE UnsentInv'
  BY <1>20 DEF Lapse, localVars
<1>21. ASSUME NEW o \in Operators, Ask(o) PROVE UnsentInv'
  BY <1>21 DEF Ask, UnusedForever, NoOperator
<1>22. ASSUME NEW o \in Operators, Release(o) PROVE UnsentInv'
  BY <1>22 DEF Release, Update, NoOperator
<1>23. ASSUME NEW o \in Operators, Abandon(o) PROVE UnsentInv'
  BY <1>23 DEF Abandon, NoOperator
<1>24. ASSUME NEW o \in Operators, NEW j \in Journals, Reconcile(o, j) PROVE UnsentInv'
  BY <1>24 DEF Reconcile
<1>25. ASSUME Finalize PROVE UnsentInv'
  BY <1>25 DEF Finalize, localVars
<1>26. CASE UNCHANGED vars
  BY <1>26 DEF vars, localVars
<1> QED
  BY <1>1, <1>2, <1>3, <1>4, <1>5, <1>6, <1>7, <1>8, <1>9, <1>10, <1>11, <1>12,
     <1>13, <1>14, <1>15, <1>16, <1>17, <1>18, <1>19, <1>20, <1>21, <1>22, <1>23, <1>24, <1>25, <1>26
  DEF Next, LiveStep, OperatorStep

(* Every step keeps the claim of a process between its exclusive link and  *)
(* the promotion or rollback: no other journey takes or removes it.        *)
LEMMA StepClaim ==
    TypeOK /\ ClaimInv /\ [Next]_vars => ClaimInv'
<1> SUFFICES ASSUME TypeOK /\ ClaimInv, [Next]_vars
             PROVE  ClaimInv'
  OBVIOUS
<1> USE NoneAssumption, KeysAssumption, NamedAssumption
<1> USE DEF TypeOK, JournalRecord, Live, Operator, Transactions, ClaimInv, PaymentProved,
            chainVars
<1>1. ASSUME NEW j \in Journals, Start(j) PROVE ClaimInv'
  BY <1>1 DEF Start, Persist, Update, Proceed
<1>2. ASSUME NEW j \in Journals, Reserve(j) PROVE ClaimInv'
  BY <1>2 DEF Reserve, Persist, Update, Proceed, KeyFree
<1>3. ASSUME NEW j \in Journals, Sign(j) PROVE ClaimInv'
  BY <1>3 DEF Sign, Goto, Proceed
<1>4. ASSUME NEW j \in Journals, Withdraw(j) PROVE ClaimInv'
  BY <1>4 DEF Withdraw, Unsent, Persist, Update, Proceed
<1>5. ASSUME NEW j \in Journals, Record(j) PROVE ClaimInv'
  BY <1>5 DEF Record, Persist, Update, Proceed
<1>6. ASSUME NEW j \in Journals, RejectHeader(j) PROVE ClaimInv'
  BY <1>6 DEF RejectHeader, Persist, Update, Proceed
<1>7. ASSUME NEW j \in Journals, Send(j) PROVE ClaimInv'
  BY <1>7 DEF Send, Goto, Proceed
<1>8. ASSUME NEW j \in Journals, Refused(j) PROVE ClaimInv'
  BY <1>8 DEF Refused, Persist, Update, Proceed
<1>9. ASSUME NEW j \in Journals, Accepted(j) PROVE ClaimInv'
  <2>1. ASSUME NEW t \in Named[j], Proceed(j, "answered", live[j].seen + 1, "ambiguous", t) PROVE ClaimInv'
    BY <1>9, <2>1 DEF Accepted, Update, Proceed
  <2>2. CASE Proceed(j, "failing", live[j].seen + 1, "ambiguous", None)
    BY <1>9, <2>2 DEF Accepted, Update, Proceed
  <2> QED BY <1>9, <2>1, <2>2 DEF Accepted
<1>10. ASSUME NEW j \in Journals, Claim(j) PROVE ClaimInv'
  BY <1>10 DEF Claim, Unclaimed, Goto, Proceed
<1>11. ASSUME NEW j \in Journals, Promote(j) PROVE ClaimInv'
  BY <1>11 DEF Promote, Update, End, NoProcess
<1>12. ASSUME NEW j \in Journals, PromoteFails(j) PROVE ClaimInv'
  BY <1>12 DEF PromoteFails, Goto, Proceed
<1>13. ASSUME NEW j \in Journals, RollBack(j) PROVE ClaimInv'
  BY <1>13 DEF RollBack, Proceed
<1>14. ASSUME NEW j \in Journals, WriteFails(j) PROVE ClaimInv'
  BY <1>14 DEF WriteFails, Unwritten, Proceed
<1>15. ASSUME NEW j \in Journals, Fail(j) PROVE ClaimInv'
  BY <1>15 DEF Fail, Goto, Proceed
<1>16. ASSUME NEW j \in Journals, FinalWrite(j) PROVE ClaimInv'
  BY <1>16 DEF FinalWrite, Update, End, NoProcess
<1>17. ASSUME NEW j \in Journals, Die(j) PROVE ClaimInv'
  BY <1>17 DEF Die, End, NoProcess
<1>18. ASSUME NEW j \in Journals, Resolve(j) PROVE ClaimInv'
  BY <1>18 DEF Resolve, Update
<1>19. ASSUME NEW j \in Journals, Settle(j) PROVE ClaimInv'
  BY <1>19 DEF Settle, localVars
<1>20. ASSUME NEW j \in Journals, Lapse(j) PROVE ClaimInv'
  BY <1>20 DEF Lapse, localVars
<1>21. ASSUME NEW o \in Operators, Ask(o) PROVE ClaimInv'
  BY <1>21 DEF Ask, UnusedForever, NoOperator
<1>22. ASSUME NEW o \in Operators, Release(o) PROVE ClaimInv'
  BY <1>22 DEF Release, Update, NoOperator
<1>23. ASSUME NEW o \in Operators, Abandon(o) PROVE ClaimInv'
  BY <1>23 DEF Abandon, NoOperator
<1>24. ASSUME NEW o \in Operators, NEW j \in Journals, Reconcile(o, j) PROVE ClaimInv'
  BY <1>24 DEF Reconcile
<1>25. ASSUME Finalize PROVE ClaimInv'
  BY <1>25 DEF Finalize, localVars
<1>26. CASE UNCHANGED vars
  BY <1>26 DEF vars, localVars
<1> QED
  BY <1>1, <1>2, <1>3, <1>4, <1>5, <1>6, <1>7, <1>8, <1>9, <1>10, <1>11, <1>12,
     <1>13, <1>14, <1>15, <1>16, <1>17, <1>18, <1>19, <1>20, <1>21, <1>22, <1>23, <1>24, <1>25, <1>26
  DEF Next, LiveStep, OperatorStep

(* Every step keeps what an operator has read: if the revision still       *)
(* matches, the journal is still recoverable, and an answer that the       *)
(* authorization expired unused remains true.                              *)
LEMMA StepOperator ==
    TypeOK /\ ChainInv /\ OperatorInv /\ [Next]_vars => OperatorInv'
<1> SUFFICES ASSUME TypeOK /\ ChainInv /\ OperatorInv, [Next]_vars
             PROVE  OperatorInv'
  OBVIOUS
<1> USE NoneAssumption, KeysAssumption, NamedAssumption
<1> USE DEF TypeOK, JournalRecord, Live, Operator, Transactions, OperatorInv, ChainInv,
            Recoverable, chainVars
<1>1. ASSUME NEW j \in Journals, Start(j) PROVE OperatorInv'
  BY <1>1 DEF Start, Persist, Update, Proceed
<1>2. ASSUME NEW j \in Journals, Reserve(j) PROVE OperatorInv'
  BY <1>2 DEF Reserve, Persist, Update, Proceed, KeyFree
<1>3. ASSUME NEW j \in Journals, Sign(j) PROVE OperatorInv'
  BY <1>3 DEF Sign, Goto, Proceed
<1>4. ASSUME NEW j \in Journals, Withdraw(j) PROVE OperatorInv'
  BY <1>4 DEF Withdraw, Unsent, Persist, Update, Proceed
<1>5. ASSUME NEW j \in Journals, Record(j) PROVE OperatorInv'
  BY <1>5 DEF Record, Persist, Update, Proceed
<1>6. ASSUME NEW j \in Journals, RejectHeader(j) PROVE OperatorInv'
  BY <1>6 DEF RejectHeader, Persist, Update, Proceed
<1>7. ASSUME NEW j \in Journals, Send(j) PROVE OperatorInv'
  BY <1>7 DEF Send, Goto, Proceed
<1>8. ASSUME NEW j \in Journals, Refused(j) PROVE OperatorInv'
  BY <1>8 DEF Refused, Persist, Update, Proceed
<1>9. ASSUME NEW j \in Journals, Accepted(j) PROVE OperatorInv'
  BY <1>9 DEF Accepted, Update, Proceed
<1>10. ASSUME NEW j \in Journals, Claim(j) PROVE OperatorInv'
  BY <1>10 DEF Claim, Unclaimed, Goto, Proceed
<1>11. ASSUME NEW j \in Journals, Promote(j) PROVE OperatorInv'
  BY <1>11 DEF Promote, Update, End, NoProcess
<1>12. ASSUME NEW j \in Journals, PromoteFails(j) PROVE OperatorInv'
  BY <1>12 DEF PromoteFails, Goto, Proceed
<1>13. ASSUME NEW j \in Journals, RollBack(j) PROVE OperatorInv'
  BY <1>13 DEF RollBack, Proceed
<1>14. ASSUME NEW j \in Journals, WriteFails(j) PROVE OperatorInv'
  BY <1>14 DEF WriteFails, Unwritten, Proceed
<1>15. ASSUME NEW j \in Journals, Fail(j) PROVE OperatorInv'
  BY <1>15 DEF Fail, Goto, Proceed
<1>16. ASSUME NEW j \in Journals, FinalWrite(j) PROVE OperatorInv'
  BY <1>16 DEF FinalWrite, Update, End, NoProcess
<1>17. ASSUME NEW j \in Journals, Die(j) PROVE OperatorInv'
  BY <1>17 DEF Die, End, NoProcess
<1>18. ASSUME NEW j \in Journals, Resolve(j) PROVE OperatorInv'
  BY <1>18 DEF Resolve, Update
<1>19. ASSUME NEW j \in Journals, Settle(j) PROVE OperatorInv'
  BY <1>19 DEF Settle, localVars
<1>20. ASSUME NEW j \in Journals, Lapse(j) PROVE OperatorInv'
  BY <1>20 DEF Lapse, localVars
<1>21. ASSUME NEW o \in Operators, Ask(o) PROVE OperatorInv'
  BY <1>21 DEF Ask, UnusedForever, NoOperator
<1>22. ASSUME NEW o \in Operators, Release(o) PROVE OperatorInv'
  BY <1>22 DEF Release, Update, NoOperator
<1>23. ASSUME NEW o \in Operators, Abandon(o) PROVE OperatorInv'
  BY <1>23 DEF Abandon, NoOperator
<1>24. ASSUME NEW o \in Operators, NEW j \in Journals, Reconcile(o, j) PROVE OperatorInv'
  BY <1>24 DEF Reconcile
<1>25. ASSUME Finalize PROVE OperatorInv'
  BY <1>25 DEF Finalize, localVars
<1>26. CASE UNCHANGED vars
  BY <1>26 DEF vars, localVars
<1> QED
  BY <1>1, <1>2, <1>3, <1>4, <1>5, <1>6, <1>7, <1>8, <1>9, <1>10, <1>11, <1>12,
     <1>13, <1>14, <1>15, <1>16, <1>17, <1>18, <1>19, <1>20, <1>21, <1>22, <1>23, <1>24, <1>25, <1>26
  DEF Next, LiveStep, OperatorStep

(* No step settles an authorization whose expiry is final.                 *)
LEMMA StepChain ==
    TypeOK /\ ChainInv /\ [Next]_vars => ChainInv'
<1> SUFFICES ASSUME TypeOK /\ ChainInv, [Next]_vars
             PROVE  ChainInv'
  OBVIOUS
<1> USE NoneAssumption, KeysAssumption, NamedAssumption
<1> USE DEF TypeOK, JournalRecord, Live, Operator, Transactions, ChainInv, chainVars
<1>1. ASSUME NEW j \in Journals, Start(j) PROVE ChainInv'
  BY <1>1 DEF Start, Persist, Update, Proceed
<1>2. ASSUME NEW j \in Journals, Reserve(j) PROVE ChainInv'
  BY <1>2 DEF Reserve, Persist, Update, Proceed, KeyFree
<1>3. ASSUME NEW j \in Journals, Sign(j) PROVE ChainInv'
  BY <1>3 DEF Sign, Goto, Proceed
<1>4. ASSUME NEW j \in Journals, Withdraw(j) PROVE ChainInv'
  BY <1>4 DEF Withdraw, Unsent, Persist, Update, Proceed
<1>5. ASSUME NEW j \in Journals, Record(j) PROVE ChainInv'
  BY <1>5 DEF Record, Persist, Update, Proceed
<1>6. ASSUME NEW j \in Journals, RejectHeader(j) PROVE ChainInv'
  BY <1>6 DEF RejectHeader, Persist, Update, Proceed
<1>7. ASSUME NEW j \in Journals, Send(j) PROVE ChainInv'
  BY <1>7 DEF Send, Goto, Proceed
<1>8. ASSUME NEW j \in Journals, Refused(j) PROVE ChainInv'
  BY <1>8 DEF Refused, Persist, Update, Proceed
<1>9. ASSUME NEW j \in Journals, Accepted(j) PROVE ChainInv'
  BY <1>9 DEF Accepted, Update, Proceed
<1>10. ASSUME NEW j \in Journals, Claim(j) PROVE ChainInv'
  BY <1>10 DEF Claim, Unclaimed, Goto, Proceed
<1>11. ASSUME NEW j \in Journals, Promote(j) PROVE ChainInv'
  BY <1>11 DEF Promote, Update, End, NoProcess
<1>12. ASSUME NEW j \in Journals, PromoteFails(j) PROVE ChainInv'
  BY <1>12 DEF PromoteFails, Goto, Proceed
<1>13. ASSUME NEW j \in Journals, RollBack(j) PROVE ChainInv'
  BY <1>13 DEF RollBack, Proceed
<1>14. ASSUME NEW j \in Journals, WriteFails(j) PROVE ChainInv'
  BY <1>14 DEF WriteFails, Unwritten, Proceed
<1>15. ASSUME NEW j \in Journals, Fail(j) PROVE ChainInv'
  BY <1>15 DEF Fail, Goto, Proceed
<1>16. ASSUME NEW j \in Journals, FinalWrite(j) PROVE ChainInv'
  BY <1>16 DEF FinalWrite, Update, End, NoProcess
<1>17. ASSUME NEW j \in Journals, Die(j) PROVE ChainInv'
  BY <1>17 DEF Die, End, NoProcess
<1>18. ASSUME NEW j \in Journals, Resolve(j) PROVE ChainInv'
  BY <1>18 DEF Resolve, Update
<1>19. ASSUME NEW j \in Journals, Settle(j) PROVE ChainInv'
  BY <1>19 DEF Settle, localVars
<1>20. ASSUME NEW j \in Journals, Lapse(j) PROVE ChainInv'
  BY <1>20 DEF Lapse, localVars
<1>21. ASSUME NEW o \in Operators, Ask(o) PROVE ChainInv'
  BY <1>21 DEF Ask, UnusedForever, NoOperator
<1>22. ASSUME NEW o \in Operators, Release(o) PROVE ChainInv'
  BY <1>22 DEF Release, Update, NoOperator
<1>23. ASSUME NEW o \in Operators, Abandon(o) PROVE ChainInv'
  BY <1>23 DEF Abandon, NoOperator
<1>24. ASSUME NEW o \in Operators, NEW j \in Journals, Reconcile(o, j) PROVE ChainInv'
  BY <1>24 DEF Reconcile
<1>25. ASSUME Finalize PROVE ChainInv'
  BY <1>25 DEF Finalize, localVars
<1>26. CASE UNCHANGED vars
  BY <1>26 DEF vars, localVars
<1> QED
  BY <1>1, <1>2, <1>3, <1>4, <1>5, <1>6, <1>7, <1>8, <1>9, <1>10, <1>11, <1>12,
     <1>13, <1>14, <1>15, <1>16, <1>17, <1>18, <1>19, <1>20, <1>21, <1>22, <1>23, <1>24, <1>25, <1>26
  DEF Next, LiveStep, OperatorStep

(* No step gives a request identity to a second journal.                   *)
LEMMA StepKey ==
    TypeOK /\ StageInv /\ LiveInv /\ OperatorInv /\ KeyInv /\ [Next]_vars => KeyInv'
<1> SUFFICES ASSUME TypeOK /\ StageInv /\ LiveInv /\ OperatorInv /\ KeyInv, [Next]_vars
             PROVE  KeyInv'
  OBVIOUS
<1> USE NoneAssumption, KeysAssumption, NamedAssumption
<1> USE DEF TypeOK, JournalRecord, Live, Operator, Transactions, StageInv, LiveInv,
            CheckpointOK, StandsAt, Stages, LockedStages, KeyInv, OperatorInv, Recoverable,
            chainVars
<1>1. ASSUME NEW j \in Journals, Start(j) PROVE KeyInv'
  BY <1>1 DEF Start, Persist, Update, Proceed
<1>2. ASSUME NEW j \in Journals, Reserve(j) PROVE KeyInv'
  BY <1>2 DEF Reserve, Persist, Update, Proceed, KeyFree
<1>3. ASSUME NEW j \in Journals, Sign(j) PROVE KeyInv'
  BY <1>3 DEF Sign, Goto, Proceed
<1>4. ASSUME NEW j \in Journals, Withdraw(j) PROVE KeyInv'
  BY <1>4 DEF Withdraw, Unsent, Persist, Update, Proceed
<1>5. ASSUME NEW j \in Journals, Record(j) PROVE KeyInv'
  BY <1>5 DEF Record, Persist, Update, Proceed
<1>6. ASSUME NEW j \in Journals, RejectHeader(j) PROVE KeyInv'
  BY <1>6 DEF RejectHeader, Persist, Update, Proceed
<1>7. ASSUME NEW j \in Journals, Send(j) PROVE KeyInv'
  BY <1>7 DEF Send, Goto, Proceed
<1>8. ASSUME NEW j \in Journals, Refused(j) PROVE KeyInv'
  BY <1>8 DEF Refused, Persist, Update, Proceed
<1>9. ASSUME NEW j \in Journals, Accepted(j) PROVE KeyInv'
  BY <1>9 DEF Accepted, Update, Proceed
<1>10. ASSUME NEW j \in Journals, Claim(j) PROVE KeyInv'
  BY <1>10 DEF Claim, Unclaimed, Goto, Proceed
<1>11. ASSUME NEW j \in Journals, Promote(j) PROVE KeyInv'
  BY <1>11 DEF Promote, Update, End, NoProcess
<1>12. ASSUME NEW j \in Journals, PromoteFails(j) PROVE KeyInv'
  BY <1>12 DEF PromoteFails, Goto, Proceed
<1>13. ASSUME NEW j \in Journals, RollBack(j) PROVE KeyInv'
  BY <1>13 DEF RollBack, Proceed
<1>14. ASSUME NEW j \in Journals, WriteFails(j) PROVE KeyInv'
  BY <1>14 DEF WriteFails, Unwritten, Proceed
<1>15. ASSUME NEW j \in Journals, Fail(j) PROVE KeyInv'
  BY <1>15 DEF Fail, Goto, Proceed
<1>16. ASSUME NEW j \in Journals, FinalWrite(j) PROVE KeyInv'
  BY <1>16 DEF FinalWrite, Update, End, NoProcess
<1>17. ASSUME NEW j \in Journals, Die(j) PROVE KeyInv'
  BY <1>17 DEF Die, End, NoProcess
<1>18. ASSUME NEW j \in Journals, Resolve(j) PROVE KeyInv'
  BY <1>18 DEF Resolve, Update
<1>19. ASSUME NEW j \in Journals, Settle(j) PROVE KeyInv'
  BY <1>19 DEF Settle, localVars
<1>20. ASSUME NEW j \in Journals, Lapse(j) PROVE KeyInv'
  BY <1>20 DEF Lapse, localVars
<1>21. ASSUME NEW o \in Operators, Ask(o) PROVE KeyInv'
  BY <1>21 DEF Ask, UnusedForever, NoOperator
<1>22. ASSUME NEW o \in Operators, Release(o) PROVE KeyInv'
  BY <1>22 DEF Release, Update, NoOperator
<1>23. ASSUME NEW o \in Operators, Abandon(o) PROVE KeyInv'
  BY <1>23 DEF Abandon, NoOperator
<1>24. ASSUME NEW o \in Operators, NEW j \in Journals, Reconcile(o, j) PROVE KeyInv'
  BY <1>24 DEF Reconcile
<1>25. ASSUME Finalize PROVE KeyInv'
  BY <1>25 DEF Finalize, localVars
<1>26. CASE UNCHANGED vars
  BY <1>26 DEF vars, localVars
<1> QED
  BY <1>1, <1>2, <1>3, <1>4, <1>5, <1>6, <1>7, <1>8, <1>9, <1>10, <1>11, <1>12,
     <1>13, <1>14, <1>15, <1>16, <1>17, <1>18, <1>19, <1>20, <1>21, <1>22, <1>23, <1>24, <1>25, <1>26
  DEF Next, LiveStep, OperatorStep

(* No step parts a paid journal from its claim file and its settlement.    *)
LEMMA StepPaid ==
    TypeOK /\ StageInv /\ LiveInv /\ OperatorInv /\ ClaimInv /\ PaidIsClaimed /\ [Next]_vars => PaidIsClaimed'
<1> SUFFICES ASSUME TypeOK /\ StageInv /\ LiveInv /\ OperatorInv /\ ClaimInv /\ PaidIsClaimed, [Next]_vars
             PROVE  PaidIsClaimed'
  OBVIOUS
<1> USE NoneAssumption, KeysAssumption, NamedAssumption
<1> USE DEF TypeOK, JournalRecord, Live, Operator, Transactions, StageInv, LiveInv,
            ClaimInv, PaidIsClaimed, PaymentProved, OperatorInv, Recoverable, chainVars
<1>1. ASSUME NEW j \in Journals, Start(j) PROVE PaidIsClaimed'
  BY <1>1 DEF Start, Persist, Update, Proceed
<1>2. ASSUME NEW j \in Journals, Reserve(j) PROVE PaidIsClaimed'
  BY <1>2 DEF Reserve, Persist, Update, Proceed, KeyFree
<1>3. ASSUME NEW j \in Journals, Sign(j) PROVE PaidIsClaimed'
  BY <1>3 DEF Sign, Goto, Proceed
<1>4. ASSUME NEW j \in Journals, Withdraw(j) PROVE PaidIsClaimed'
  BY <1>4 DEF Withdraw, Unsent, Persist, Update, Proceed
<1>5. ASSUME NEW j \in Journals, Record(j) PROVE PaidIsClaimed'
  BY <1>5 DEF Record, Persist, Update, Proceed
<1>6. ASSUME NEW j \in Journals, RejectHeader(j) PROVE PaidIsClaimed'
  BY <1>6 DEF RejectHeader, Persist, Update, Proceed
<1>7. ASSUME NEW j \in Journals, Send(j) PROVE PaidIsClaimed'
  BY <1>7 DEF Send, Goto, Proceed
<1>8. ASSUME NEW j \in Journals, Refused(j) PROVE PaidIsClaimed'
  BY <1>8 DEF Refused, Persist, Update, Proceed
<1>9. ASSUME NEW j \in Journals, Accepted(j) PROVE PaidIsClaimed'
  BY <1>9 DEF Accepted, Update, Proceed
<1>10. ASSUME NEW j \in Journals, Claim(j) PROVE PaidIsClaimed'
  BY <1>10 DEF Claim, Unclaimed, Goto, Proceed
<1>11. ASSUME NEW j \in Journals, Promote(j) PROVE PaidIsClaimed'
  BY <1>11 DEF Promote, Update, End, NoProcess
<1>12. ASSUME NEW j \in Journals, PromoteFails(j) PROVE PaidIsClaimed'
  BY <1>12 DEF PromoteFails, Goto, Proceed
<1>13. ASSUME NEW j \in Journals, RollBack(j) PROVE PaidIsClaimed'
  BY <1>13 DEF RollBack, Proceed
<1>14. ASSUME NEW j \in Journals, WriteFails(j) PROVE PaidIsClaimed'
  BY <1>14 DEF WriteFails, Unwritten, Proceed
<1>15. ASSUME NEW j \in Journals, Fail(j) PROVE PaidIsClaimed'
  BY <1>15 DEF Fail, Goto, Proceed
<1>16. ASSUME NEW j \in Journals, FinalWrite(j) PROVE PaidIsClaimed'
  BY <1>16 DEF FinalWrite, Update, End, NoProcess
<1>17. ASSUME NEW j \in Journals, Die(j) PROVE PaidIsClaimed'
  BY <1>17 DEF Die, End, NoProcess
<1>18. ASSUME NEW j \in Journals, Resolve(j) PROVE PaidIsClaimed'
  BY <1>18 DEF Resolve, Update
<1>19. ASSUME NEW j \in Journals, Settle(j) PROVE PaidIsClaimed'
  BY <1>19 DEF Settle, localVars
<1>20. ASSUME NEW j \in Journals, Lapse(j) PROVE PaidIsClaimed'
  BY <1>20 DEF Lapse, localVars
<1>21. ASSUME NEW o \in Operators, Ask(o) PROVE PaidIsClaimed'
  BY <1>21 DEF Ask, UnusedForever, NoOperator
<1>22. ASSUME NEW o \in Operators, Release(o) PROVE PaidIsClaimed'
  BY <1>22 DEF Release, Update, NoOperator
<1>23. ASSUME NEW o \in Operators, Abandon(o) PROVE PaidIsClaimed'
  BY <1>23 DEF Abandon, NoOperator
<1>24. ASSUME NEW o \in Operators, NEW j \in Journals, Reconcile(o, j) PROVE PaidIsClaimed'
  BY <1>24 DEF Reconcile
<1>25. ASSUME Finalize PROVE PaidIsClaimed'
  BY <1>25 DEF Finalize, localVars
<1>26. CASE UNCHANGED vars
  BY <1>26 DEF vars, localVars
<1> QED
  BY <1>1, <1>2, <1>3, <1>4, <1>5, <1>6, <1>7, <1>8, <1>9, <1>10, <1>11, <1>12,
     <1>13, <1>14, <1>15, <1>16, <1>17, <1>18, <1>19, <1>20, <1>21, <1>22, <1>23, <1>24, <1>25, <1>26
  DEF Next, LiveStep, OperatorStep

(* No step gives a journey a transaction that no answer named to it.       *)
LEMMA StepNamed ==
    TypeOK /\ NamedInv /\ [Next]_vars => NamedInv'
<1> SUFFICES ASSUME TypeOK /\ NamedInv, [Next]_vars
             PROVE  NamedInv'
  OBVIOUS
<1> USE NoneAssumption, KeysAssumption, NamedAssumption
<1> USE DEF TypeOK, JournalRecord, Live, Operator, Transactions, NamedInv, chainVars
<1>1. ASSUME NEW j \in Journals, Start(j) PROVE NamedInv'
  BY <1>1 DEF Start, Persist, Update, Proceed
<1>2. ASSUME NEW j \in Journals, Reserve(j) PROVE NamedInv'
  BY <1>2 DEF Reserve, Persist, Update, Proceed, KeyFree
<1>3. ASSUME NEW j \in Journals, Sign(j) PROVE NamedInv'
  BY <1>3 DEF Sign, Goto, Proceed
<1>4. ASSUME NEW j \in Journals, Withdraw(j) PROVE NamedInv'
  BY <1>4 DEF Withdraw, Unsent, Persist, Update, Proceed
<1>5. ASSUME NEW j \in Journals, Record(j) PROVE NamedInv'
  BY <1>5 DEF Record, Persist, Update, Proceed
<1>6. ASSUME NEW j \in Journals, RejectHeader(j) PROVE NamedInv'
  BY <1>6 DEF RejectHeader, Persist, Update, Proceed
<1>7. ASSUME NEW j \in Journals, Send(j) PROVE NamedInv'
  BY <1>7 DEF Send, Goto, Proceed
<1>8. ASSUME NEW j \in Journals, Refused(j) PROVE NamedInv'
  BY <1>8 DEF Refused, Persist, Update, Proceed
<1>9. ASSUME NEW j \in Journals, Accepted(j) PROVE NamedInv'
  <2>1. ASSUME NEW t \in Named[j], Proceed(j, "answered", live[j].seen + 1, "ambiguous", t) PROVE NamedInv'
    BY <1>9, <2>1 DEF Accepted, Update, Proceed
  <2>2. CASE Proceed(j, "failing", live[j].seen + 1, "ambiguous", None)
    BY <1>9, <2>2 DEF Accepted, Update, Proceed
  <2> QED BY <1>9, <2>1, <2>2 DEF Accepted
<1>10. ASSUME NEW j \in Journals, Claim(j) PROVE NamedInv'
  BY <1>10 DEF Claim, Unclaimed, Goto, Proceed
<1>11. ASSUME NEW j \in Journals, Promote(j) PROVE NamedInv'
  BY <1>11 DEF Promote, Update, End, NoProcess
<1>12. ASSUME NEW j \in Journals, PromoteFails(j) PROVE NamedInv'
  BY <1>12 DEF PromoteFails, Goto, Proceed
<1>13. ASSUME NEW j \in Journals, RollBack(j) PROVE NamedInv'
  BY <1>13 DEF RollBack, Proceed
<1>14. ASSUME NEW j \in Journals, WriteFails(j) PROVE NamedInv'
  BY <1>14 DEF WriteFails, Unwritten, Proceed
<1>15. ASSUME NEW j \in Journals, Fail(j) PROVE NamedInv'
  BY <1>15 DEF Fail, Goto, Proceed
<1>16. ASSUME NEW j \in Journals, FinalWrite(j) PROVE NamedInv'
  BY <1>16 DEF FinalWrite, Update, End, NoProcess
<1>17. ASSUME NEW j \in Journals, Die(j) PROVE NamedInv'
  BY <1>17 DEF Die, End, NoProcess
<1>18. ASSUME NEW j \in Journals, Resolve(j) PROVE NamedInv'
  BY <1>18 DEF Resolve, Update
<1>19. ASSUME NEW j \in Journals, Settle(j) PROVE NamedInv'
  BY <1>19 DEF Settle, localVars
<1>20. ASSUME NEW j \in Journals, Lapse(j) PROVE NamedInv'
  BY <1>20 DEF Lapse, localVars
<1>21. ASSUME NEW o \in Operators, Ask(o) PROVE NamedInv'
  BY <1>21 DEF Ask, UnusedForever, NoOperator
<1>22. ASSUME NEW o \in Operators, Release(o) PROVE NamedInv'
  BY <1>22 DEF Release, Update, NoOperator
<1>23. ASSUME NEW o \in Operators, Abandon(o) PROVE NamedInv'
  BY <1>23 DEF Abandon, NoOperator
<1>24. ASSUME NEW o \in Operators, NEW j \in Journals, Reconcile(o, j) PROVE NamedInv'
  BY <1>24 DEF Reconcile
<1>25. ASSUME Finalize PROVE NamedInv'
  BY <1>25 DEF Finalize, localVars
<1>26. CASE UNCHANGED vars
  BY <1>26 DEF vars, localVars
<1> QED
  BY <1>1, <1>2, <1>3, <1>4, <1>5, <1>6, <1>7, <1>8, <1>9, <1>10, <1>11, <1>12,
     <1>13, <1>14, <1>15, <1>16, <1>17, <1>18, <1>19, <1>20, <1>21, <1>22, <1>23, <1>24, <1>25, <1>26
  DEF Next, LiveStep, OperatorStep

-----------------------------------------------------------------------------
(* The theorems *)

(* The invariant, and what answers name, hold in the initial state.        *)
LEMMA PaymentInit == Init => PaymentInv /\ NamedInv
BY NoneAssumption, KeysAssumption
   DEF Init, Fresh, NoProcess, NoOperator, PaymentInv, TypeOK, JournalRecord, Live, Operator,
       Transactions, Stages, LiveSteps, StageInv, LockedStages, SentStages, LiveInv, UnsentInv,
       ClaimInv, OperatorInv, ChainInv, KeyInv, PaidIsClaimed, NamedInv

(* Journals, claim files, live processes, operators and the chain agree in *)
(* every reachable state (PaymentInv), for any number of journeys, keys,   *)
(* operators and any answers of the merchant.                              *)
THEOREM PaymentAgreement == Spec => []PaymentInv
<1>1. Init => PaymentInv
  BY PaymentInit
<1>2. PaymentInv /\ [Next]_vars => PaymentInv'
  BY StepType, StepStage, StepLive, StepUnsent, StepClaim, StepOperator, StepChain, StepKey, StepPaid
  DEF PaymentInv
<1> QED BY <1>1, <1>2, PTL DEF Spec

(* Type correctness of BuyerPayment.                                       *)
THEOREM PaymentTypes == Spec => []TypeOK
<1>1. PaymentInv => TypeOK
  BY DEF PaymentInv
<1> QED BY <1>1, PaymentAgreement, PTL

(* A journal that says it is paid has its claim file and a settlement that *)
(* is not older than itself.                                               *)
THEOREM PaidJourneyIsClaimed == Spec => []PaidIsClaimed
<1>1. PaymentInv => PaidIsClaimed
  BY DEF PaymentInv
<1> QED BY <1>1, PaymentAgreement, PTL

(* One settlement pays for at most one journey: both would own its claim.  *)
THEOREM SettlementPaysOnce == Spec => []OneJourneyPerPayment
<1>1. PaymentInv => OneJourneyPerPayment
  BY DEF PaymentInv, PaidIsClaimed, OneJourneyPerPayment
<1> QED BY <1>1, PaymentAgreement, PTL

(* A journey that gave its request identity back without a card was not    *)
(* charged and never will be.                                              *)
THEOREM ReleaseIsFree == Spec => []ReleasedNeverCharged
<1>1. PaymentInv => ReleasedNeverCharged
  BY DEF PaymentInv, StageInv, SentStages, ReleasedNeverCharged, Outstanding
<1> QED BY <1>1, PaymentAgreement, PTL

(* A journey that is outstanding holds its request identity, if answers    *)
(* name their own payment only.                                            *)
LEMMA OutstandingHoldsKey ==
    ASSUME \A j \in Journals : Named[j] = {j}, PaymentInv, NamedInv,
           NEW j \in Journals, Outstanding(j)
    PROVE  journal[j].locked
<1>1. j \in sent /\ journal[j].stage \in SentStages
  BY DEF Outstanding, PaymentInv, StageInv
<1>2. journal[j].stage # "expired"
  BY DEF Outstanding, PaymentInv, StageInv
<1>3. journal[j].stage # "resolved"
  <2> SUFFICES ASSUME journal[j].stage = "resolved" PROVE FALSE
    OBVIOUS
  <2>1. journal[j].tx # None
    BY DEF PaymentInv, StageInv
  <2>2. journal[j].tx = j
    BY <2>1 DEF NamedInv
  <2>3. j \in settled
    BY <2>1, <2>2 DEF PaymentInv, PaidIsClaimed, PaymentProved
  <2> QED BY <2>3 DEF Outstanding
<1> QED BY <1>1, <1>2, <1>3 DEF PaymentInv, StageInv, SentStages, LockedStages

(* The buyer is never exposed to two charges for one request identity, if  *)
(* the merchant's answers name the payment they answer.                    *)
THEOREM RequestChargedOnce ==
    ASSUME \A j \in Journals : Named[j] = {j}
    PROVE  Spec => []OneChargePerRequest
<1>1. PaymentInv /\ NamedInv => OneChargePerRequest
  BY OutstandingHoldsKey DEF PaymentInv, KeyInv, OneChargePerRequest
<1>2. Init => NamedInv
  BY PaymentInit
<1>3. PaymentInv /\ NamedInv /\ [Next]_vars => NamedInv'
  BY StepNamed DEF PaymentInv
<1> QED BY <1>1, <1>2, <1>3, PaymentAgreement, PTL DEF Spec
=============================================================================
