---------------------------- MODULE CardEconomics ----------------------------
(***************************************************************************)
(* The integer arithmetic of a card and of its settlement: the compilers    *)
(* turn a request into an order with its bounds, the buyer's validator and *)
(* the proof verifiers recompute these bounds on their own, the venue      *)
(* settles the order in rounded pieces, and a proof is given or refused.   *)
(* Amounts are raw integers: Scale of them are one share or one pUSD, a    *)
(* price is the raw pUSD of one share, BpsScale is a fee rate of one.      *)
(***************************************************************************)
EXTENDS Integers, Sequences

CONSTANTS
    Scale,       \* raw units of one share, and of one pUSD
    Step,        \* the raw cent the venue signs principals in
    BpsScale,    \* the fee rate of 100%
    Budgets,     \* what buyers offer to spend
    Lots,        \* whole shares sellers offer
    MinLot,      \* the venue's least resting order
    Prices,      \* caps, floors and targets
    FeeRates,    \* the venue's fee rates
    Fills,       \* raw shares a piece of a settlement may have
    NoCard       \* the request was refused

ASSUME CardScales ==
    /\ {Scale, Step, BpsScale, MinLot} \subseteq Nat \ {0} /\ Scale % Step = 0
    /\ Budgets \cup Lots \cup Fills \subseteq Nat
    /\ Prices \subseteq 1..(Scale - 1)
    /\ FeeRates \subseteq 0..BpsScale

CardKinds == {"OPEN", "CLOSE", "TAKE_PROFIT"}

(* What is asked: a budget or a number of whole shares, and a price.       *)
Asked == [kind: CardKinds, amount: Nat, price: Nat, rate: Nat]

(* A card: for OPEN the principal is the most that is spent at the cap,    *)
(* for a SELL the least gross proceeds; feeAtPrice is the fee on it and    *)
(* maximumFee the fee never to be exceeded.                                *)
Cards == [kind: CardKinds, shares: Nat, price: Nat, rate: Nat, principal: Nat,
          feeAtPrice: Nat, maximumFee: Nat]

ASSUME NoCardAssumption == NoCard \notin Asked \cup Cards

(* A piece of the settlement: in transaction tx, `shares` for `value`, with *)
(* the price the venue reports; flaw is what is wrong with the evidence.   *)
Flaws == {"none", "shared", "late", "misreported"}

Pieces == [tx: 1..2, shares: Nat, value: Nat, fee: Nat, price: Nat, flaw: Flaws]

VARIABLES
    asked,    \* the request, or NoCard before one
    card,     \* the card compiled from it, or NoCard
    settled   \* the pieces the order was settled in

cardVars == <<asked, card, settled>>

EconomicsInit == asked = NoCard /\ card = NoCard /\ settled = <<>>

CeilDiv(a, b) == (a + b - 1) \div b

-----------------------------------------------------------------------------
(* The compilers *)

FeeReserve(amount, rate) == CeilDiv(amount * rate, BpsScale)

(* The least number of shares whose principal is aligned to the cent:      *)
(* Step divided by its greatest common divisor with the price.             *)
ShareQuantum(price) == CHOOSE q \in 1..Step :
    (q * price) % Step = 0 /\ \A r \in 1..(q - 1) : (r * price) % Step # 0

(* minimumMarketableBudget: the least aligned principal of one pUSD.       *)
MinimumPrincipal(price) ==
    CeilDiv(CeilDiv(Scale, price), ShareQuantum(price)) * ShareQuantum(price) * price

MinimumBudget(price, rate) == MinimumPrincipal(price) + FeeReserve(MinimumPrincipal(price), rate)

(* compileBoundedOrder: the largest aligned order the budget can pay for,  *)
(* its fee included.                                                       *)
OpenCard(budget, price, rate) ==
    LET affordable == (budget * BpsScale) \div (BpsScale + rate)
        shares == ((affordable \div price) \div ShareQuantum(price)) * ShareQuantum(price)
        principal == shares * price
    IN  [kind |-> "OPEN", shares |-> shares * Scale, price |-> price, rate |-> rate, principal |-> principal,
         feeAtPrice |-> FeeReserve(principal, rate), maximumFee |-> FeeReserve(principal, rate)]

OpenCompiles(c, budget) ==
    /\ budget >= Scale
    /\ c.principal + c.maximumFee <= budget
    /\ c.principal >= MinimumPrincipal(c.price)
    /\ c.principal % Step = 0

(* compileBoundedClose and compileBoundedTakeProfit: the shares as asked;  *)
(* one fee on the gross at the price, one on a price of one pUSD.          *)
SellCard(kind, shares, price, rate) ==
    LET gross == shares * price
    IN  [kind |-> kind, shares |-> shares * Scale, price |-> price, rate |-> rate, principal |-> gross,
         feeAtPrice |-> FeeReserve(gross, rate), maximumFee |-> FeeReserve(shares * Scale, rate)]

CloseCompiles(c) == c.principal >= Scale /\ c.principal % Step = 0 /\ c.feeAtPrice <= c.principal

TakeProfitCompiles(c) == c.shares >= MinLot /\ c.principal % Step = 0 /\ c.feeAtPrice <= c.principal

AskFor(kind, amount, price, rate) ==
    asked' = [kind |-> kind, amount |-> amount, price |-> price, rate |-> rate]

CompileOpen(budget, price, rate) ==
    /\ asked = NoCard
    /\ AskFor("OPEN", budget, price, rate)
    /\ LET c == OpenCard(budget, price, rate)
       IN  card' = IF OpenCompiles(c, budget) THEN c ELSE NoCard
    /\ UNCHANGED settled

CompileClose(shares, price, rate) ==
    /\ asked = NoCard
    /\ AskFor("CLOSE", shares, price, rate)
    /\ LET c == SellCard("CLOSE", shares, price, rate)
       IN  card' = IF CloseCompiles(c) THEN c ELSE NoCard
    /\ UNCHANGED settled

CompileTakeProfit(shares, price, rate) ==
    /\ asked = NoCard
    /\ AskFor("TAKE_PROFIT", shares, price, rate)
    /\ LET c == SellCard("TAKE_PROFIT", shares, price, rate)
       IN  card' = IF TakeProfitCompiles(c) THEN c ELSE NoCard
    /\ UNCHANGED settled

-----------------------------------------------------------------------------
(* The buyer's validators and the verifiers of proofs recompute a card *)

(* validateCard.                                                           *)
OpenCardHolds(c) ==
    /\ c.shares % Scale = 0 /\ c.principal % Step = 0
    /\ c.shares * c.price = c.principal * Scale
    /\ c.maximumFee = CeilDiv(c.principal * c.rate, BpsScale)
    /\ asked.amount >= c.principal + c.maximumFee

(* verifyPositionProof, of the intent in it.                               *)
OpenIntentHolds(c) ==
    /\ c.principal > 0 /\ c.shares > 0 /\ c.shares % Scale = 0 /\ c.principal % Step = 0
    /\ c.principal = (c.shares * c.price) \div Scale /\ (c.shares * c.price) % Scale = 0
    /\ c.maximumFee = CeilDiv(c.principal * c.rate, BpsScale)
    /\ asked.amount >= c.principal + c.maximumFee

SellEconomicsHold(c) ==
    /\ c.shares > 0 /\ c.shares * c.price = c.principal * Scale
    /\ c.feeAtPrice = CeilDiv(c.principal * c.rate, BpsScale)
    /\ c.maximumFee = CeilDiv(c.shares * c.rate, BpsScale)

(* validateCloseCard; verifyCloseProof has the same of the intent.         *)
CloseCardHolds(c) == SellEconomicsHold(c) /\ c.shares % Scale = 0

CloseIntentHolds(c) == SellEconomicsHold(c) /\ c.shares % Scale = 0

(* validateTakeProfitCard, and signedBounds of the fill verifier.          *)
TakeProfitCardHolds(c) == SellEconomicsHold(c) /\ c.shares % Scale = 0 /\ c.shares >= MinLot

SignedBoundsHold(c) == SellEconomicsHold(c)

CardHolds(c) == CASE c.kind = "OPEN" -> OpenCardHolds(c)
                  [] c.kind = "CLOSE" -> CloseCardHolds(c)
                  [] c.kind = "TAKE_PROFIT" -> TakeProfitCardHolds(c)

IntentHolds(c) == CASE c.kind = "OPEN" -> OpenIntentHolds(c)
                    [] c.kind = "CLOSE" -> CloseIntentHolds(c)
                    [] c.kind = "TAKE_PROFIT" -> SignedBoundsHold(c)

-----------------------------------------------------------------------------
(* The venue settles the order *)

(* The sum of what f has at the numbers up to n.                           *)
SumTo(f, n) ==
    LET sum[k \in 0..n] == IF k = 0 THEN 0 ELSE sum[k - 1] + (IF k \in DOMAIN f THEN f[k] ELSE 0)
    IN  sum[n]

SharesOf(pieces) == SumTo([i \in pieces |-> settled[i].shares], Len(settled))
ValueOf(pieces) == SumTo([i \in pieces |-> settled[i].value], Len(settled))
FeeOf(pieces) == SumTo([i \in pieces |-> settled[i].fee], Len(settled))

All == DOMAIN settled

(* The exchange pays a piece at its price rounded down.                    *)
Floored(shares, price) == (shares * price) \div Scale

(* One more piece, perhaps of a bad venue: past the limit price, or with a *)
(* fee above the rate, or with evidence that is flawed; only a resting     *)
(* order settles in two.                                                   *)
Settle(shares, price, overcharged, tx, flaw) ==
    /\ card # NoCard /\ CardHolds(card)
    /\ settled = <<>> \/ (card.kind = "TAKE_PROFIT" /\ Len(settled) = 1)
    /\ settled = <<>> => tx = 1
    /\ SharesOf(All) + shares <= card.shares
    /\ card.kind = "CLOSE" => shares = card.shares
    /\ flaw = "misreported" => card.kind = "TAKE_PROFIT"
    /\ flaw # "none" => ~overcharged
    /\ LET value == Floored(shares, price)
           fee == IF overcharged THEN FeeReserve(value, card.rate) + 1 ELSE (value * card.rate) \div BpsScale
       IN  /\ value > 0
           /\ settled' = Append(settled, [tx |-> tx, shares |-> shares, value |-> value, fee |-> fee,
                                          price |-> price, flaw |-> flaw])
    /\ UNCHANGED <<asked, card>>

EconomicsNext ==
    \E price \in Prices :
       \/ \E rate \in FeeRates :
             \/ \E budget \in Budgets : CompileOpen(budget, price, rate)
             \/ \E shares \in Lots : CompileClose(shares, price, rate) \/ CompileTakeProfit(shares, price, rate)
       \/ /\ card # NoCard
          /\ \E shares \in Fills, overcharged \in BOOLEAN, tx \in 1..2, flaw \in Flaws :
                Settle(shares, price, overcharged, tx, flaw)

EconomicsSpec == EconomicsInit /\ [][EconomicsNext]_cardVars

-----------------------------------------------------------------------------
(* What a proof verifier says of the pieces *)

(* The receipt of the transaction: the wallet's flows are the order's, and *)
(* the block is inside the signed window.                                  *)
ReceiptMatches(pieces) == \A i \in pieces : settled[i].flaw \notin {"shared", "late"}

(* verifyPositionProof, of the fill.                                       *)
OpenProved ==
    /\ ReceiptMatches(All)
    /\ ValueOf(All) > 0 /\ SharesOf(All) > 0 /\ ValueOf(All) <= card.principal
    /\ FeeOf(All) <= card.maximumFee /\ FeeOf(All) <= CeilDiv(ValueOf(All) * card.rate, BpsScale)
    /\ ValueOf(All) + FeeOf(All) <= card.principal + card.maximumFee
    /\ ValueOf(All) * Scale <= SharesOf(All) * card.price

(* verifyCloseProof, of the fill.                                          *)
CloseProved ==
    /\ ReceiptMatches(All)
    /\ SharesOf(All) = card.shares /\ ValueOf(All) >= card.principal
    /\ FeeOf(All) <= card.maximumFee /\ FeeOf(All) <= CeilDiv(ValueOf(All) * card.rate, BpsScale)
    /\ ValueOf(All) - FeeOf(All) >= card.principal - card.feeAtPrice

(* What the pieces are worth at the target, each rounded down.             *)
TargetFloor(pieces) == SumTo([i \in pieces |-> Floored(settled[i].shares, card.price)], Len(settled))

(* The bounds a take-profit must keep in each transaction and in all.      *)
WithinBounds(pieces) ==
    /\ SharesOf(pieces) <= card.shares
    /\ ValueOf(pieces) >= TargetFloor(pieces)
    /\ FeeOf(pieces) <= CeilDiv(SharesOf(pieces) * card.rate, BpsScale)
    /\ FeeOf(pieces) <= CeilDiv(ValueOf(pieces) * card.rate, BpsScale)
    /\ FeeOf(pieces) <= card.maximumFee
    /\ ValueOf(pieces) - FeeOf(pieces) >= TargetFloor(pieces) - FeeReserve(TargetFloor(pieces), card.rate)

(* Mutation: only the total is held against the target.                    *)
SettlementProvedInAll(pieces) == ReceiptMatches(pieces) /\ WithinBounds(pieces)

(* verifySettlement, of the pieces of one transaction.                     *)
SettlementProved(pieces) ==
    /\ ReceiptMatches(pieces)
    /\ \A i \in pieces : settled[i].flaw # "misreported" /\ settled[i].price >= card.price
    /\ WithinBounds(pieces)

(* verifyTakeProfitAggregateFill.                                          *)
TakeProfitProved ==
    /\ \A t \in 1..2 : LET pieces == {i \in All : settled[i].tx = t}
                       IN  pieces # {} => SettlementProved(pieces)
    /\ WithinBounds(All)
    /\ SharesOf(All) = card.shares =>
          ValueOf(All) >= card.principal /\ ValueOf(All) - FeeOf(All) >= card.principal - card.feeAtPrice

Proved == CASE card.kind = "OPEN" -> OpenProved
            [] card.kind = "CLOSE" -> CloseProved
            [] card.kind = "TAKE_PROFIT" -> TakeProfitProved

-----------------------------------------------------------------------------
(* Properties *)

EconomicsTypeOK ==
    /\ asked \in Asked \cup {NoCard}
    /\ card \in Cards \cup {NoCard}
    /\ settled \in Seq(Pieces) /\ Len(settled) <= 2

(* An OPEN is compiled exactly when the budget reaches the minimum a       *)
(* refusal names, and then no larger aligned order fits the budget; every  *)
(* compiled card passes the validator and the verifier that recompute it.  *)
CardsAgree ==
    /\ card # NoCard => CardHolds(card) /\ IntentHolds(card)
    /\ asked # NoCard /\ asked.kind = "OPEN" =>
          /\ (card # NoCard) <=> asked.amount >= MinimumBudget(asked.price, asked.rate)
          /\ card # NoCard =>
                \A more \in (card.principal + 1)..asked.amount :
                   more % asked.price = 0 /\ more % Step = 0 =>
                      more * BpsScale + more * asked.rate > asked.amount * BpsScale

(* The worst a proved settlement did to its owner: an OPEN never cost more *)
(* than the budget nor a price above the cap; a SELL never paid a piece    *)
(* below its price, nor less after fees than the card's net for a full     *)
(* fill.                                                                   *)
KeptToCard ==
    CASE card.kind = "OPEN" -> ValueOf(All) + FeeOf(All) <= asked.amount /\ ValueOf(All) * Scale <= SharesOf(All) * card.price
      [] card.kind # "OPEN" ->
            /\ \A i \in All : settled[i].price >= card.price
            /\ SharesOf(All) = card.shares => ValueOf(All) - FeeOf(All) >= card.principal - card.feeAtPrice

(* A venue that kept the limit and rounded its fees down.                  *)
Honest(piece) ==
    /\ piece.flaw = "none"
    /\ piece.fee <= (piece.value * card.rate) \div BpsScale
    /\ IF card.kind = "OPEN" THEN piece.price <= card.price ELSE piece.price >= card.price

(* A proof is never given for a settlement that broke the card, and never  *)
(* refused to an honest one, with one exception of the code: a take-profit *)
(* filled in full in several pieces whose roundings leave its total below  *)
(* the unrounded minimum.                                                  *)
ProofsAreJust ==
    settled # <<>> =>
       /\ Proved => KeptToCard
       /\ (\A i \in All : Honest(settled[i])) =>
             Proved \/ (Len(settled) = 2 /\ SharesOf(All) = card.shares /\ ValueOf(All) < card.principal)

EconomicsSound == CardsAgree /\ ProofsAreJust
=============================================================================
