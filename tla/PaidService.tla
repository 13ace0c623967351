---------------------------- MODULE PaidService ----------------------------
(***************************************************************************)
(* The paid routes of api/service.js (OPEN cards) and api/manage.js (CLOSE *)
(* and TAKE_PROFIT cards) behind the x402 gate of src/service-payment.mjs, *)
(* and the free refresh of a paid OPEN card (src/open-card-refresh.mjs).   *)
(*                                                                         *)
(* The gate verifies a payment authorization, runs the handler, and        *)
(* settles only a successful answer; the x402 library and the facilitator  *)
(* are external.  Nothing is stored by a service: calls meet only in its   *)
(* gate's shared initialization and in the authorization they carry, which *)
(* the chain lets settle once.  The two services have gates, prices and    *)
(* hence authorizations of their own: `service` is the one looked at.      *)
(* Time is counted in seconds, as X Layer stamps its blocks.               *)
(***************************************************************************)
EXTENDS Naturals, Sequences

CONSTANTS
    Calls,       \* HTTP calls on the paid routes
    Auths,       \* signed payment authorizations of one payer
    NoAuth,      \* a call without a payment header; a payment not yet settled
    Ttl,         \* seconds a card is valid
    Window,      \* seconds a payment can be used to refresh its card
    MaxSeconds,  \* bound on the clock
    MaxCards     \* bound on issued OPEN cards

ASSUME PaidServiceBounds == {Ttl, Window, MaxSeconds, MaxCards} \subseteq Nat

ASSUME NoAuthAssumption == NoAuth \notin Auths \cup [call: Calls, at: Nat]

(* What arrives: a structured POST, or a probe, with an empty or malformed *)
(* body or another method than POST.                                       *)
Shapes == {"structured", "probe"}

(* new; at the gate; waiting for its initialization; at x402; in the       *)
(* handler; in the manager's second position fetch; answered 200 and in    *)
(* settlement; settled; answered with an error, or with the card.          *)
CallSteps == {"new", "gate", "waiting", "x402", "handler", "refetch", "ok", "settled", "refused", "delivered"}

Call == [pc: CallSteps, shape: Shapes, auth: Auths \cup {NoAuth}, eligible: BOOLEAN, card: 0..MaxCards]

(* An OPEN card: the card it refreshes (0: paid for), the payment that     *)
(* allowed the refresh, when it was asked for and when it was issued.      *)
Card == [from: 0..MaxCards, by: Auths \cup {NoAuth}, asked: Nat, issued: Nat]

(* A refresh that passed its checks and waits for the wallet and market.   *)
Refresh == [from: 1..MaxCards, by: Auths, asked: Nat]

VARIABLES
    service,      \* "open" (api/service.js) or "manage" (api/manage.js)
    gate,         \* "broken" configuration, "cold", "warming" or "ready"
    call,         \* each call
    settlement,   \* the call and the second in which an authorization settled
    cards,        \* the OPEN cards issued, in order
    refreshes,    \* refreshes under way
    seconds       \* the clock

paidVars == <<service, gate, call, settlement, cards, refreshes, seconds>>

-----------------------------------------------------------------------------
(* The route and the gate *)

Unsent == [pc |-> "new", shape |-> "probe", auth |-> NoAuth, eligible |-> FALSE, card |-> 0]

ServiceInit ==
    /\ service \in {"open", "manage"}
    /\ gate \in {"broken", "cold"}
    /\ call = [c \in Calls |-> Unsent]
    /\ settlement = [a \in Auths |-> NoAuth]
    /\ cards = <<>>
    /\ refreshes = {}
    /\ seconds = 0

Move(c, step) == call' = [call EXCEPT ![c].pc = step]

NeedsPreflight(shape) == service = "open" /\ shape = "structured"

(* prePaymentOpenEligibility: a structured OPEN is refused before any      *)
(* payment unless its wallet passes the readiness checks and the public    *)
(* guard lets it in.  A probe must see the x402 challenge, and the manager *)
(* has no preflight.                                                       *)
Arrive(c) ==
    /\ call[c].pc = "new"
    /\ \E shape \in Shapes, auth \in Auths \cup {NoAuth}, passes \in BOOLEAN :
          /\ passes => NeedsPreflight(shape)
          /\ call' = [call EXCEPT ![c] = [pc |-> IF NeedsPreflight(shape) /\ ~passes THEN "refused" ELSE "gate",
                                          shape |-> shape, auth |-> auth, eligible |-> passes, card |-> 0]]
    /\ UNCHANGED <<service, gate, settlement, cards, refreshes, seconds>>

(* requirePayment and ensureInitialized: one initialization is shared.     *)
EnterGate(c) ==
    /\ call[c].pc = "gate"
    /\ Move(c, CASE gate = "broken" -> "refused" [] gate = "ready" -> "x402" [] OTHER -> "waiting")
    /\ gate' = IF gate = "cold" THEN "warming" ELSE gate
    /\ UNCHANGED <<service, settlement, cards, refreshes, seconds>>

(* The facilitator answers or fails: the same for all calls that wait, and *)
(* the next call after a failure starts over.                              *)
Initialize ==
    /\ gate = "warming"
    /\ \E up \in BOOLEAN :
          /\ gate' = IF up THEN "ready" ELSE "cold"
          /\ call' = [c \in Calls |-> IF call[c].pc = "waiting"
                                      THEN [call[c] EXCEPT !.pc = IF up THEN "x402" ELSE "refused"]
                                      ELSE call[c]]
    /\ UNCHANGED <<service, settlement, cards, refreshes, seconds>>

(* x402 verifies the authorization's signature, amount and payee; it does  *)
(* not reserve it, so several calls may pass with the same one.            *)
VerifyAuthorization(c) ==
    /\ call[c].pc = "x402"
    /\ \/ call[c].auth # NoAuth /\ Move(c, "handler")
       \/ Move(c, "refused")
    /\ UNCHANGED <<service, gate, settlement, cards, refreshes, seconds>>

-----------------------------------------------------------------------------
(* The handlers, settlement and delivery *)

NewCard(from, by, asked) ==
    /\ Len(cards) < MaxCards
    /\ cards' = Append(cards, [from |-> from, by |-> by, asked |-> asked, issued |-> seconds])

(* Mutation: a paid probe is compiled like an OPEN.                        *)
MayCompileProbe(c) == service = "open"

(* A preflight that passed is reused; a probe has no wallet to check.      *)
MayCompile(c) == service = "open" /\ call[c].shape = "structured" /\ call[c].eligible

(* createIntentHandler: market, compilation, plugin preview and issuance.  *)
IssueOpen(c) ==
    /\ call[c].pc = "handler"
    /\ MayCompile(c)
    /\ NewCard(0, NoAuth, seconds)
    /\ call' = [call EXCEPT ![c].pc = "ok", ![c].card = Len(cards) + 1]
    /\ UNCHANGED <<service, gate, settlement, refreshes, seconds>>

(* createManageHandler: source, position, compilation and issuance; only a *)
(* stale position snapshot is fetched again, and only once.                *)
IssueManage(c) ==
    /\ service = "manage"
    /\ call[c].shape = "structured"
    /\ \/ call[c].pc = "handler" /\ \E step \in {"ok", "refetch"} : Move(c, step)
       \/ call[c].pc = "refetch" /\ Move(c, "ok")
    /\ UNCHANGED <<service, gate, settlement, cards, refreshes, seconds>>

(* An upstream or a validation fails, the body was malformed, the method   *)
(* is not POST: an error status, which x402 does not settle.               *)
HandlerFails(c) ==
    /\ call[c].pc \in {"handler", "refetch"}
    /\ Move(c, "refused")
    /\ UNCHANGED <<service, gate, settlement, cards, refreshes, seconds>>

UnsettledAnswer == {"refused"}

(* The facilitator settles the authorization on chain, at most once; the   *)
(* settlement may also go unreported.  A call whose settlement failed is   *)
(* answered with settlementFailedResponseBody, without the card.           *)
SettleAuthorization(c) ==
    /\ call[c].pc = "ok"
    /\ \/ /\ settlement[call[c].auth] = NoAuth
          /\ settlement' = [settlement EXCEPT ![call[c].auth] = [call |-> c, at |-> seconds]]
          /\ \E step \in {"settled", "refused"} : Move(c, step)
       \/ /\ \E step \in UnsettledAnswer : Move(c, step)
          /\ UNCHANGED settlement
    /\ UNCHANGED <<service, gate, cards, refreshes, seconds>>

(* The response reaches the buyer, or is lost on the way.                  *)
Deliver(c) ==
    /\ call[c].pc = "settled"
    /\ \E step \in {"delivered", "refused"} : Move(c, step)
    /\ UNCHANGED <<service, gate, settlement, cards, refreshes, seconds>>

-----------------------------------------------------------------------------
(* The free refresh *)

(* Cards in a buyer's hands: delivered, or themselves refreshed.           *)
Held == {i \in DOMAIN cards : cards[i].from # 0 \/ \E c \in Calls : call[c].pc = "delivered" /\ call[c].card = i}

(* Mutation: a payment is only required to precede the card's expiry.      *)
PaysForBeforeExpiry(a, i) == settlement[a].at <= cards[i].issued + Ttl

(* The payment settled between the card's issuance second and its expiry.  *)
PaysFor(a, i) == cards[i].issued <= settlement[a].at /\ settlement[a].at <= cards[i].issued + Ttl

AskRefresh(a, i) ==
    /\ i \in Held
    /\ settlement[a] # NoAuth
    /\ service = "open"
    /\ PaysFor(a, i)
    /\ seconds \in settlement[a].at .. settlement[a].at + Window
    /\ Len(cards) < MaxCards
    /\ refreshes = {}
    /\ refreshes' = {[from |-> i, by |-> a, asked |-> seconds]}
    /\ UNCHANGED <<service, gate, call, settlement, cards, seconds>>

(* The wallet checks and the market are awaited, then the card is issued   *)
(* for the same bounds; any of them may fail.                              *)
AnswerRefresh ==
    \E r \in refreshes :
        /\ refreshes' = {}
        /\ \/ NewCard(r.from, r.by, r.asked)
           \/ UNCHANGED cards
        /\ UNCHANGED <<service, gate, call, settlement, seconds>>

-----------------------------------------------------------------------------
(* The world, and the specification *)

Second ==
    /\ seconds < MaxSeconds
    /\ seconds' = seconds + 1
    /\ UNCHANGED <<service, gate, call, settlement, cards, refreshes>>

Answering(c) ==
    \/ EnterGate(c) \/ VerifyAuthorization(c) \/ IssueOpen(c) \/ IssueManage(c) \/ HandlerFails(c)
    \/ SettleAuthorization(c) \/ Deliver(c)

PaidNext ==
    \/ \E c \in Calls : Arrive(c) \/ Answering(c)
    \/ \E a \in Auths, i \in 1..MaxCards : AskRefresh(a, i)
    \/ Initialize \/ AnswerRefresh \/ Second

PaidSpec == ServiceInit /\ [][PaidNext]_paidVars

-----------------------------------------------------------------------------
(* Properties *)

PaidTypeOK ==
    /\ service \in {"open", "manage"}
    /\ gate \in {"broken", "cold", "warming", "ready"}
    /\ call \in [Calls -> Call]
    /\ settlement \in [Auths -> [call: Calls, at: Nat] \cup {NoAuth}]
    /\ cards \in Seq(Card)
    /\ refreshes \subseteq Refresh
    /\ seconds \in 0..MaxSeconds

(* Money and cards go together whatever calls share an authorization: one  *)
(* that settled paid for a card its call had issued, an OPEN card only for *)
(* a wallet checked before the payment was; a call that got its card paid  *)
(* for it itself.                                                          *)
ChargedOnlyForCard ==
    /\ \A a \in Auths : settlement[a] # NoAuth =>
          LET c == call[settlement[a].call]
          IN  c.auth = a /\ c.shape = "structured" /\ (service = "open" => c.eligible /\ c.card # 0)
    /\ \A c \in Calls : call[c].pc = "delivered" =>
          settlement[call[c].auth] # NoAuth /\ settlement[call[c].auth].call = c

(* A payment buys one window: a card refreshed under it is no way to a     *)
(* further card under it, except within the very second of the payment,    *)
(* and every free card was asked for inside the window.                    *)
FreeCardsDoNotChain ==
    \A i \in DOMAIN cards : cards[i].from # 0 =>
        LET origin == cards[cards[i].from]
        IN  /\ cards[i].asked <= settlement[cards[i].by].at + Window
            /\ origin.by = cards[i].by => origin.issued = settlement[cards[i].by].at
=============================================================================
