------------------------------- MODULE Journey -------------------------------
(***************************************************************************)
(* The order of steps of a buyer's journey, OPEN, CLOSE or TAKE_PROFIT:    *)
(* readiness, preview, payment, the signed card, the trade confirmation,   *)
(* the second checks, the same again under the execution lock, the order   *)
(* and its proof.  Every await lets the clock move, the wallet change, and *)
(* other orders of the owner settle.                                       *)
(* A second is TicksPerSecond ticks of the buyer's clock; the chain and    *)
(* the venue tell seconds only.                                            *)
(***************************************************************************)
EXTENDS Naturals

CONSTANTS
    TicksPerSecond,
    CardTtl,          \* life of a signed card
    ConfirmHeadroom,  \* TRADE_CONFIRMATION_HEADROOM_MS
    LaunchHeadroom,   \* EXECUTION_HEADROOM_MS, and a TAKE_PROFIT's under the lock
    LockedHeadroom,   \* an OPEN's or CLOSE's under the lock
    Never,            \* a time that has not come
    MaxWallet,        \* bound: changes of the wallet
    MaxNow            \* bound: ticks

ASSUME JourneyTimes ==
    /\ {TicksPerSecond, CardTtl, ConfirmHeadroom, LaunchHeadroom, LockedHeadroom, MaxWallet, MaxNow} \subseteq Nat
    /\ TicksPerSecond > 0 /\ LockedHeadroom > 0
    /\ LockedHeadroom <= LaunchHeadroom /\ LaunchHeadroom <= ConfirmHeadroom /\ ConfirmHeadroom <= CardTtl
    /\ Never \notin Nat

(* What must hold of the wallet: its mode and addresses are the venue's    *)
(* and the request's; it can cover the order, unreserved.                  *)
WalletFacts == {"linked", "funded"}

Moments == (0..MaxNow) \cup {Never}

VARIABLES
    journeyKind,  \* "open", "close" or "take_profit"
    point,        \* what the journey does next
    now,          \* the buyer's clock
    wallet,       \* the facts that hold of the wallet
    walletTurns,  \* changes of the wallet so far
    offer,        \* the paid card: when it expires, whether it is as asked
    asked_at,     \* when the bounds were presented
    confirmed,    \* the trade confirmation's time
    heldSince,    \* facts that held when the execution lock was taken, or later
    launched,     \* when the order was sent
    other,        \* when another order of the owner, alike, settled
    fill          \* the settlement, or the venue's order, that is to be proved

journeyVars == <<journeyKind, point, now, wallet, walletTurns, offer, asked_at, confirmed, heldSince, launched, other, fill>>

NoOffer == [expires |-> Never, matches |-> FALSE]
NoFill == [at |-> Never, own |-> FALSE]

JourneyInit ==
    /\ journeyKind \in {"open", "close", "take_profit"}
    /\ point = "readiness"
    /\ now = 0
    /\ wallet \in SUBSET WalletFacts
    /\ walletTurns = 0
    /\ offer = NoOffer
    /\ asked_at = Never /\ confirmed = Never /\ launched = Never /\ other = Never
    /\ heldSince = {}
    /\ fill = NoFill

SecondOf(t) == t \div TicksPerSecond

Selling == journeyKind # "open"

NextStep(next) == point' = next

(* A refused check ends the journey.                                       *)
StepIf(check, next) == NextStep(IF check THEN next ELSE "refused")

buyer == <<offer, asked_at, confirmed>>
outside == <<now, wallet, walletTurns, heldSince, other>>

-----------------------------------------------------------------------------
(* Before the payment *)

(* requireReadiness and requireOpenReadiness without an amount.            *)
CheckReadiness ==
    /\ point = "readiness"
    /\ StepIf("linked" \in wallet, "preview")
    /\ UNCHANGED <<journeyKind, outside, buyer, launched, fill>>

(* The free preview resolves the market, or cannot; a SELL's position is   *)
(* checked before the payment.                                             *)
PreviewMarket ==
    /\ point = "preview"
    /\ \/ StepIf(Selling => wallet = WalletFacts, "pay")
       \/ NextStep("refused")
    /\ UNCHANGED <<journeyKind, outside, buyer, launched, fill>>

(* The buyer's consent to the challenge, the payment, its verification and *)
(* the card: one the service issued as asked or not.                       *)
PayForCard ==
    /\ point = "pay"
    /\ \/ \E matches \in BOOLEAN :
             /\ offer' = [expires |-> now + CardTtl, matches |-> matches]
             /\ NextStep("validate")
       \/ NextStep("refused") /\ UNCHANGED offer
    /\ UNCHANGED <<journeyKind, outside, asked_at, confirmed, launched, fill>>

-----------------------------------------------------------------------------
(* The card and the confirmation *)

(* validateCard, and bindCardToRequest with its CLOSE and TAKE_PROFIT kin. *)
OfferLives == now < offer.expires

Headroom(least) == now + least <= offer.expires

ValidateCard ==
    /\ point = "validate"
    /\ StepIf(OfferLives /\ offer.matches, "dry_run")
    /\ UNCHANGED <<journeyKind, outside, buyer, launched, fill>>

(* The dry run checks the card again; then the bounds are presented, a     *)
(* SELL's only with time enough to confirm.                                *)
PresentBounds ==
    /\ point = "dry_run"
    /\ StepIf(OfferLives /\ (Selling => Headroom(ConfirmHeadroom)), "confirm")
    /\ asked_at' = now
    /\ UNCHANGED <<journeyKind, outside, offer, confirmed, launched, fill>>

(* recordTradeConfirmation: a confirmation with a time of its own, between *)
(* the presentation and now and before the expiry; or a plain one, now.    *)
ConfirmationTime(t, structured) ==
    IF structured THEN asked_at <= t /\ t <= now /\ t < offer.expires ELSE t = now

(* The buyer agreed at time t and the journey learns of it now, or the     *)
(* buyer declined.  A TAKE_PROFIT waits before its second checks, an OPEN  *)
(* or CLOSE under the lock.                                                *)
Confirm(t, structured) ==
    /\ point = "confirm"
    /\ \/ /\ ConfirmationTime(t, structured)
          /\ confirmed' = t
          /\ NextStep(IF journeyKind = "take_profit" THEN "wait" ELSE "revalidate")
       \/ /\ NextStep("refused")
          /\ UNCHANGED confirmed
    /\ UNCHANGED <<journeyKind, outside, offer, asked_at, launched, fill>>

(* Mutation: some later moment is enough.                                  *)
MomentIsOver == now > confirmed

SecondIsOver == SecondOf(now) > SecondOf(confirmed)

(* The order waits for the second after the confirmation's, so that its    *)
(* time at the venue or on the chain is a later one: waitUntil in the core *)
(* for TAKE_PROFIT, waitForStrictlyPostConfirmationSecond in execute.      *)
WaitForSecond ==
    /\ point \in {"wait", "locked_wait"} /\ SecondIsOver
    /\ NextStep(IF point = "wait" THEN "revalidate" ELSE "locked_readiness")
    /\ UNCHANGED <<journeyKind, outside, buyer, launched, fill>>

-----------------------------------------------------------------------------
(* The second checks *)

Revalidate ==
    /\ point = "revalidate"
    /\ StepIf(/\ OfferLives /\ offer.matches
              /\ journeyKind = "close" => Headroom(LaunchHeadroom),
              IF journeyKind = "take_profit" THEN "final_dry_run" ELSE "final_readiness")
    /\ UNCHANGED <<journeyKind, outside, buyer, launched, fill>>

FinalReadiness ==
    /\ point = "final_readiness"
    /\ StepIf(wallet = WalletFacts /\ (journeyKind = "take_profit" => Headroom(LaunchHeadroom)),
              IF journeyKind = "take_profit" THEN "lock" ELSE "final_dry_run")
    /\ UNCHANGED <<journeyKind, outside, buyer, launched, fill>>

(* For OPEN and CLOSE the dry run comes after the readiness, for           *)
(* TAKE_PROFIT before it; then the adapter's execute is called.            *)
FinalDryRun ==
    /\ point = "final_dry_run"
    /\ StepIf(OfferLives, IF journeyKind = "take_profit" THEN "final_readiness" ELSE "lock")
    /\ UNCHANGED <<journeyKind, outside, buyer, launched, fill>>

-----------------------------------------------------------------------------
(* Under the execution lock: execute *)

(* claimExecutionLock, which another journey may hold.  heldSince begins   *)
(* with the wallet of now: no earlier fact.                                *)
TakeLock ==
    /\ point = "lock"
    /\ \/ /\ NextStep(IF journeyKind = "take_profit" THEN "locked_readiness" ELSE "locked_wait")
          /\ heldSince' = wallet
       \/ NextStep("refused") /\ UNCHANGED heldSince
    /\ UNCHANGED <<journeyKind, now, wallet, walletTurns, other, buyer, launched, fill>>

(* validateCard with requireExecutionLaunchWindow, or with                 *)
(* requireTakeProfitLaunchWindow, after each await.                        *)
LaunchWindow ==
    OfferLives /\ Headroom(IF journeyKind = "take_profit" THEN LaunchHeadroom ELSE LockedHeadroom)

(* Mutation: the readiness found before the lock is taken to hold.         *)
ReadyBeforeLock == TRUE

ReadyUnderLock == wallet = WalletFacts

LockedReadiness ==
    /\ point = "locked_readiness"
    /\ StepIf(ReadyUnderLock /\ LaunchWindow, "locked_dry_run")
    /\ UNCHANGED <<journeyKind, outside, buyer, launched, fill>>

LockedDryRun ==
    /\ point = "locked_dry_run"
    /\ StepIf(LaunchWindow, "attempt")
    /\ UNCHANGED <<journeyKind, outside, buyer, launched, fill>>

(* The attempt is on disk; the card and its window are checked again, and  *)
(* the runtime is written.                                                 *)
MarkAttempt ==
    /\ point = "attempt"
    /\ StepIf(LaunchWindow, "launch")
    /\ UNCHANGED <<journeyKind, outside, buyer, launched, fill>>

(* OPEN and CLOSE check the window once more and start the order with no   *)
(* await in between; a TAKE_PROFIT's commandJson refuses an expired card.  *)
LaunchOrder ==
    LET check == IF journeyKind = "take_profit" THEN OfferLives ELSE Headroom(LockedHeadroom)
    IN  /\ point = "launch"
        /\ StepIf(check, "sent")
        /\ launched' = IF check THEN now ELSE Never
        /\ UNCHANGED <<journeyKind, outside, buyer, fill>>

-----------------------------------------------------------------------------
(* The proof *)

(* The result names a settlement (for TAKE_PROFIT, an order's creation):   *)
(* that of this order, or of the other one; or there is none to prove.     *)
(* The chain and the venue are taken to tell the buyer's second.           *)
OrderResult ==
    /\ point = "sent"
    /\ \/ fill' = [at |-> now, own |-> TRUE] /\ NextStep("prove")
       \/ other # Never /\ fill' = [at |-> other, own |-> FALSE] /\ NextStep("prove")
       \/ NextStep("refused") /\ UNCHANGED fill
    /\ UNCHANGED <<journeyKind, outside, buyer, launched>>

(* "strictly postdate the buyer's live-trade confirmation second", and the *)
(* same of an order's creation in buildTakeProfitOrderProof.               *)
PostdatesConfirmation(t) == SecondOf(t) > SecondOf(confirmed)

Prove ==
    /\ point = "prove"
    /\ StepIf(PostdatesConfirmation(fill.at), "proved")
    /\ UNCHANGED <<journeyKind, outside, buyer, launched, fill>>

-----------------------------------------------------------------------------
(* The world between two steps *)

Ended == point \in {"refused", "proved"}

Waits == ~Ended /\ UNCHANGED <<journeyKind, point, buyer, launched, fill>>

(* The lock is held and the order is not sent.                             *)
BeforeLaunch == point \in {"locked_wait", "locked_readiness", "locked_dry_run", "attempt", "launch"}

(* A settlement takes its time in the same way as every other await.       *)
Ticks ==
    /\ Waits /\ now < MaxNow
    /\ now' = now + 1
    /\ UNCHANGED <<wallet, walletTurns, heldSince, other>>

WalletChanges(facts) ==
    /\ Waits /\ walletTurns < MaxWallet /\ facts # wallet
    /\ wallet' = facts
    /\ walletTurns' = walletTurns + 1
    /\ heldSince' = IF BeforeLaunch THEN heldSince \cup facts ELSE heldSince
    /\ UNCHANGED <<now, other>>

(* Another process, or the owner by hand, trades alike.                    *)
OtherSettles ==
    /\ Waits /\ other = Never /\ offer # NoOffer
    /\ other' = now
    /\ UNCHANGED <<now, wallet, walletTurns, heldSince>>

JourneyNext ==
    \/ CheckReadiness \/ PreviewMarket \/ PayForCard \/ ValidateCard \/ PresentBounds
    \/ \E t \in 0..MaxNow, structured \in BOOLEAN : Confirm(t, structured)
    \/ WaitForSecond \/ Revalidate \/ FinalReadiness \/ FinalDryRun
    \/ TakeLock \/ LockedReadiness \/ LockedDryRun \/ MarkAttempt \/ LaunchOrder
    \/ OrderResult \/ Prove
    \/ Ticks \/ OtherSettles
    \/ \E facts \in SUBSET WalletFacts : WalletChanges(facts)

JourneySpec == JourneyInit /\ [][JourneyNext]_journeyVars

-----------------------------------------------------------------------------
(* Properties *)

JourneyTypeOK ==
    /\ journeyKind \in {"open", "close", "take_profit"}
    /\ point \in {"readiness", "preview", "pay", "validate", "dry_run", "confirm", "wait", "revalidate",
                 "final_readiness", "final_dry_run", "lock", "locked_wait", "locked_readiness",
                 "locked_dry_run", "attempt", "launch", "sent", "prove", "proved", "refused"}
    /\ now \in 0..MaxNow /\ walletTurns \in 0..MaxWallet
    /\ {wallet, heldSince} \subseteq SUBSET WalletFacts
    /\ offer.expires \in (0..(MaxNow + CardTtl)) \cup {Never} /\ offer.matches \in BOOLEAN
    /\ {asked_at, confirmed, launched, other, fill.at} \subseteq Moments /\ fill.own \in BOOLEAN

(* An order is sent only with a live card that is as asked, confirmed      *)
(* after its bounds were shown and in an earlier second than it is sent,   *)
(* and only if every fact about the wallet held at a time after the        *)
(* execution lock was taken, whatever was read before.                     *)
SentAsConfirmed ==
    launched # Never =>
       /\ offer.matches /\ launched < offer.expires
       /\ asked_at <= confirmed /\ SecondOf(confirmed) < SecondOf(launched)
       /\ heldSince = WalletFacts

(* What is proved happened in a later second than the confirmation; and    *)
(* the journey never refuses the proof of its own order for being early.   *)
ProofIsOfTheOrder ==
    /\ point = "proved" => SecondOf(confirmed) < SecondOf(fill.at)
    /\ fill.own => point # "refused"
=============================================================================
