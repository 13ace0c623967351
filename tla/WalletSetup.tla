---------------------------- MODULE WalletSetup ----------------------------
(***************************************************************************)
(* Browser setup of a buyer's deposit wallet: the one-time tokens of       *)
(* src/wallet-setup-auth.mjs, exchanged through the session and relayer    *)
(* routes (src/wallet-session-handler.mjs, src/wallet-relayer-handler.mjs) *)
(* against the shared store of src/wallet-setup-state.mjs.                 *)
(*                                                                         *)
(* Tokens are signed and bearer-held: the server keeps only a claim for    *)
(* each token that was exchanged, for the rest of the token's life.  Each  *)
(* request runs in a serverless process of its own, which may be cut off   *)
(* between any two awaits; the store, the relayer and Polygon are external. *)
(***************************************************************************)
EXTENDS Naturals, Sequences, FiniteSets

CONSTANTS
    Requests,      \* requests that exchange a token
    ChallengeTtl,  \* life of an authentication challenge
    SessionTtl,    \* life of a session
    DeployTtl,     \* life of a deployment challenge and of a consent
    MaxTokens,     \* bound on tokens
    MaxDeploys,    \* bound on deployment challenges
    MaxTime        \* bound on the clock

ASSUME WalletSetupBounds == {ChallengeTtl, SessionTtl, DeployTtl, MaxTokens, MaxDeploys, MaxTime} \subseteq Nat \ {0}

(* A wallet session comes from a challenge, a consent from a deployment    *)
(* challenge of a session; "deployment" is the signed WALLET-CREATE that   *)
(* the relayer was sent under a consent.                                   *)
Kinds == {"challenge", "session", "deploy", "consent", "deployment"}

(* late: exchanged after the token it was exchanged for had expired.       *)
Token == [kind: Kinds, parent: 0..MaxTokens, expiresAt: Nat, late: BOOLEAN]

(* A request that presents a token: idle, checked or claimed at a time and *)
(* then about to post to the relayer, or posted and about to record it.    *)
Request == [pc: {"idle", "checked", "posting", "recording"}, token: 0..MaxTokens, at: Nat]

VARIABLES
    tokens,      \* the tokens issued, in order
    claimed,     \* the store: until when a token counts as used
    builder,     \* sessions with a builder-authorization record
    request,     \* each request
    recorded,    \* deployments with a relayer-transaction record
    deployed,    \* deployments mined on Polygon
    walletUntil, \* the store: until when the buyer's deposit-wallet record lives
    approved,    \* whether the approval batch was ever sent to the relayer
    time         \* the clock, in seconds

setupVars == <<tokens, claimed, builder, request, recorded, deployed, walletUntil, approved, time>>

NoRequest == [pc |-> "idle", token |-> 0, at |-> 0]

SetupInit ==
    /\ tokens = <<>>
    /\ claimed = [i \in 1..MaxTokens |-> 0]
    /\ builder = {}
    /\ request = [q \in Requests |-> NoRequest]
    /\ recorded = {}
    /\ deployed = {}
    /\ walletUntil = 0
    /\ approved = FALSE
    /\ time = 0

-----------------------------------------------------------------------------
(* Tokens *)

Live(i) == tokens[i].expiresAt > time

Issue(kind, parent, expiresAt, late) ==
    /\ Len(tokens) < MaxTokens
    /\ tokens' = Append(tokens, [kind |-> kind, parent |-> parent, expiresAt |-> expiresAt, late |-> late])

Of(kind) == {i \in DOMAIN tokens : tokens[i].kind = kind}

(* The session a deployment challenge, a consent or a deployment belongs to. *)
SessionOf(i) ==
    CASE tokens[i].kind = "session" -> i
      [] tokens[i].kind = "deploy" -> tokens[i].parent
      [] tokens[i].kind = "consent" -> tokens[tokens[i].parent].parent
      [] tokens[i].kind = "deployment" -> tokens[tokens[tokens[i].parent].parent].parent

IssueChallenge ==
    /\ Of("challenge") = {}
    /\ Issue("challenge", 0, time + ChallengeTtl, FALSE)
    /\ UNCHANGED <<claimed, builder, request, recorded, deployed, walletUntil, approved, time>>

(* recordBuilderAuthorization, after the relayer accepted the builder.     *)
RecordBuilderAuthorization(s) ==
    /\ s \in Of("session") \ builder
    /\ Live(s)
    /\ builder' = builder \cup {s}
    /\ UNCHANGED <<tokens, claimed, request, recorded, deployed, walletUntil, approved, time>>

(* requireBuilderAuthorization: the record lives as long as its session.   *)
BuilderAuthorized(s) == s \in builder /\ Live(s)

IssueDeploymentChallenge(s) ==
    /\ s \in Of("session")
    /\ BuilderAuthorized(s)
    /\ Cardinality(Of("deploy")) < MaxDeploys
    /\ Issue("deploy", s, time + DeployTtl, FALSE)
    /\ UNCHANGED <<claimed, builder, request, recorded, deployed, walletUntil, approved, time>>

-----------------------------------------------------------------------------
(* authenticate, authorizeDeployment, consumeDeploymentConsent *)

(* The token is verified and the time read; the buyer's signature is       *)
(* verified and the store asked after that.                                *)
Present(q, i) ==
    /\ request[q].pc = "idle"
    /\ i \in Of("challenge") \cup Of("deploy") \cup Of("consent")
    /\ Live(i)
    /\ tokens[i].kind # "challenge" => BuilderAuthorized(SessionOf(i))
    /\ request' = [request EXCEPT ![q] = [pc |-> "checked", token |-> i, at |-> time]]
    /\ UNCHANGED <<tokens, claimed, builder, recorded, deployed, walletUntil, approved, time>>

Min2(a, b) == IF a < b THEN a ELSE b

(* Mutation: a claim lives for one second.                                 *)
ClaimTtlFixed(q) == 1

(* What was left of the token's life when it was checked.                  *)
ClaimTtl(q) == tokens[request[q].token].expiresAt - request[q].at

(* The token a successful claim is exchanged for.                          *)
Exchanged(q) ==
    LET i == request[q].token
        late == ~Live(i)
    IN  CASE tokens[i].kind = "challenge" -> Issue("session", i, request[q].at + SessionTtl, late)
          [] tokens[i].kind = "deploy" ->
                Issue("consent", i, Min2(tokens[SessionOf(i)].expiresAt, request[q].at + DeployTtl), late)
          [] tokens[i].kind = "consent" -> UNCHANGED tokens

(* claimOnce: SET NX EX; the loser is answered that the token was used.    *)
ClaimOnce(q) ==
    LET i == request[q].token
    IN  /\ request[q].pc = "checked"
        /\ IF claimed[i] > time
           THEN request' = [request EXCEPT ![q] = NoRequest] /\ UNCHANGED <<tokens, claimed>>
           ELSE /\ claimed' = [claimed EXCEPT ![i] = time + ClaimTtl(q)]
                /\ Exchanged(q)
                /\ request' = [request EXCEPT ![q] = IF tokens[i].kind = "consent"
                                                     THEN [request[q] EXCEPT !.pc = "posting", !.at = time]
                                                     ELSE NoRequest]
        /\ UNCHANGED <<builder, recorded, deployed, walletUntil, approved, time>>

-----------------------------------------------------------------------------
(* The relayer route *)

(* submit: the relayer takes the deployment; its answer may be lost.       *)
PostDeployment(q) ==
    /\ request[q].pc = "posting"
    /\ Issue("deployment", request[q].token, 0, request[q].at >= tokens[request[q].token].expiresAt)
    /\ request' = [request EXCEPT ![q] = [pc |-> "recording", token |-> Len(tokens) + 1, at |-> 0]]
    /\ UNCHANGED <<claimed, builder, recorded, deployed, walletUntil, approved, time>>

RecordTransaction(q) ==
    /\ request[q].pc = "recording"
    /\ recorded' = recorded \cup {request[q].token}
    /\ request' = [request EXCEPT ![q] = NoRequest]
    /\ UNCHANGED <<tokens, claimed, builder, deployed, walletUntil, approved, time>>

(* A request fails or its process is cut off; what it claimed stays so.    *)
Abandon(q) ==
    /\ request[q].pc # "idle"
    /\ request' = [request EXCEPT ![q] = NoRequest]
    /\ UNCHANGED <<tokens, claimed, builder, recorded, deployed, walletUntil, approved, time>>

(* verifyDeployment: the transaction succeeded and created the wallet.     *)
Confirmed(d) == d \in deployed

(* poll: the session's own transaction, seen confirmed, leaves the record. *)
PollDeployment(d) ==
    /\ d \in recorded
    /\ Live(SessionOf(d))
    /\ Confirmed(d)
    /\ walletUntil' = tokens[SessionOf(d)].expiresAt
    /\ UNCHANGED <<tokens, claimed, builder, request, recorded, deployed, approved, time>>

(* submit of the approval batch, for the wallet on record.                 *)
Approve(s) ==
    /\ s \in Of("session")
    /\ Live(s)
    /\ walletUntil > time
    /\ approved' = TRUE
    /\ UNCHANGED <<tokens, claimed, builder, request, recorded, deployed, walletUntil, time>>

(* The factory creates an owner's wallet once.                             *)
Deployed(d) ==
    /\ d \in Of("deployment")
    /\ deployed = {}
    /\ deployed' = {d}
    /\ UNCHANGED <<tokens, claimed, builder, request, recorded, walletUntil, approved, time>>

TimePasses ==
    /\ time < MaxTime
    /\ time' = time + 1
    /\ UNCHANGED <<tokens, claimed, builder, request, recorded, deployed, walletUntil, approved>>

SetupNext ==
    \/ IssueChallenge \/ TimePasses
    \/ \E i \in 1..MaxTokens :
          \/ RecordBuilderAuthorization(i) \/ IssueDeploymentChallenge(i)
          \/ PollDeployment(i) \/ Approve(i) \/ Deployed(i)
    \/ \E q \in Requests :
          \/ ClaimOnce(q) \/ PostDeployment(q) \/ RecordTransaction(q) \/ Abandon(q)
          \/ \E i \in 1..MaxTokens : Present(q, i)

SetupSpec == SetupInit /\ [][SetupNext]_setupVars

-----------------------------------------------------------------------------
(* Properties *)

SetupTypeOK ==
    /\ tokens \in Seq(Token)
    /\ claimed \in [1..MaxTokens -> Nat]
    /\ builder \cup recorded \cup deployed \subseteq 1..MaxTokens
    /\ request \in [Requests -> Request]
    /\ walletUntil \in Nat
    /\ approved \in BOOLEAN
    /\ time \in 0..MaxTime

(* "I authorize exactly one deployment": a challenge, a deployment         *)
(* challenge and a consent are each exchanged once, however often and      *)
(* concurrently they are presented, as long as the claim reaches the store *)
(* before the token expires; every deployment stems from a session whose   *)
(* builder was authorized; approvals are sent only for a deployed wallet.  *)
OneDeploymentPerConsent ==
    /\ \A i, j \in DOMAIN tokens :
          i # j /\ tokens[i].parent = tokens[j].parent /\ tokens[i].kind \in {"session", "consent", "deployment"}
          /\ tokens[j].kind = tokens[i].kind => tokens[i].late \/ tokens[j].late
    /\ \A d \in Of("deployment") : SessionOf(d) \in builder
    /\ approved => deployed # {}
=============================================================================
