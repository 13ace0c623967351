--------------------------- MODULE ServicesProofs ----------------------------
(***************************************************************************)
(* Proofs about three of the services that keep no journal: the builder    *)
(* probe, the wallet setup and the paid service, for any number of server  *)
(* instances, requests, calls and payments, and any lifetimes; and about   *)
(* all the parts of MCServices together, from what is proved of each.      *)
(***************************************************************************)
EXTENDS MCServices, TakeProfitProofs, CardProofs, QueueProofs, TLAPS

-----------------------------------------------------------------------------
(* The builder probe *)

(* A copy of a status never outlives the status; whoever is at the relayer *)
(* began before it took a lock that lasts LockTtl at least, so of any two  *)
(* that are there one has been overtaken.                                  *)
ProbeInv ==
    /\ \A i \in Instances :
          /\ instance[i].cached # Absent => instance[i].cachedUntil <= instance[i].cached + CacheTtl
          /\ instance[i].pc # "rest" => instance[i].began <= clock /\ instance[i].cachedUntil = 0
          /\ At(i, "persist") => instance[i].cached \in Nat
          /\ At(i, "relayer") => instance[i].began + LockTtl <= lockUntil
    /\ \A i, j \in Instances :
          i # j /\ At(i, "relayer") /\ At(j, "relayer") =>
             instance[i].began + LockTtl <= clock \/ instance[j].began + LockTtl <= clock

(* Instance i takes a new state, outside the relayer.                      *)
LEMMA RestProbe ==
    ASSUME ProbeTypeOK, ProbeInv, NEW i \in Instances, NEW next \in Instance,
           instance' = [instance EXCEPT ![i] = next], next.pc # "relayer",
           next.pc # "rest" => next.began <= clock /\ next.cachedUntil = 0,
           next.pc = "persist" => next.cached \in Nat,
           next.cached # Absent => next.cachedUntil <= next.cached + CacheTtl,
           status' \in Status \cup {Absent}, UNCHANGED <<lockUntil, clock>>
    PROVE  ProbeTypeOK' /\ ProbeInv'
<1>1. instance'[i] = next /\ \A j \in Instances \ {i} : instance'[j] = instance[j]
  BY DEF ProbeTypeOK
<1>2. ProbeTypeOK'
  BY DEF ProbeTypeOK
<1> QED BY <1>1, <1>2 DEF ProbeInv, At

(* Copying a status into the local cache.                                  *)
LEMMA CacheProbe ==
    ASSUME ProbeTypeOK, ProbeInv, NEW i \in Instances, NEW record \in Nat, NEW from \in Nat,
           Cache(i, record, from), status' \in Status \cup {Absent}, UNCHANGED <<lockUntil, clock>>
    PROVE  ProbeTypeOK' /\ ProbeInv'
<1> DEFINE next == [Unused EXCEPT !.cached = record, !.cachedUntil = CachedUntil(record, from)]
<1>1. CachedUntil(record, from) \in Nat /\ CachedUntil(record, from) <= record + CacheTtl
  BY BuilderProbeBounds DEF CachedUntil, Expires
<1>2. next \in Instance /\ next.pc = "rest" /\ next.cached = record
      /\ next.cachedUntil = CachedUntil(record, from)
  BY <1>1 DEF Unused, Instance, Status
<1>3. instance' = [instance EXCEPT ![i] = next]
  BY DEF Cache
<1> HIDE DEF next
<1> QED BY <1>1, <1>2, <1>3, RestProbe

LEMMA InstanceProbe ==
    ASSUME ProbeTypeOK, ProbeInv, NEW i \in Instances, BeginLookup(i) \/ Looked(i) \/ LookupFails(i)
    PROVE  ProbeTypeOK' /\ ProbeInv'
<1>0. instance[i] \in Instance /\ instance \in [Instances -> Instance] /\ clock \in Nat
      /\ status \in Status \cup {Absent} /\ lockUntil \in Nat
  BY DEF ProbeTypeOK
<1>1. Unused \in Instance /\ Unused.pc = "rest" /\ (Unused.cached # Absent => FALSE)
  BY DEF Unused, Instance
<1>2. CASE BeginLookup(i)
  <2> DEFINE next == [Unused EXCEPT !.pc = "lookup", !.began = clock]
  <2>1. next \in Instance /\ next.pc = "lookup" /\ next.began = clock /\ next.cached = Absent
        /\ next.cachedUntil = 0
    BY <1>0 DEF Unused, Instance
  <2>2. instance' = [instance EXCEPT ![i] = next] /\ UNCHANGED <<status, lockUntil, clock>>
    BY <1>2 DEF BeginLookup
  <2> HIDE DEF next
  <2>3. /\ next.pc # "relayer" /\ next.pc # "persist" /\ next.began <= clock /\ next.cachedUntil = 0
        /\ status' \in Status \cup {Absent}
    BY <1>0, <2>1, <2>2
  <2> QED BY <2>1, <2>2, <2>3, RestProbe
<1>3. ASSUME NEW step \in {"claim", "contend"}, To(i, step), instance[i].pc # "rest",
             UNCHANGED <<status, lockUntil, clock>>
      PROVE  ProbeTypeOK' /\ ProbeInv'
  <2> DEFINE next == [instance[i] EXCEPT !.pc = step]
  <2>1. /\ next \in Instance /\ next.pc = step /\ next.began = instance[i].began
        /\ next.cached = instance[i].cached /\ next.cachedUntil = instance[i].cachedUntil
    BY <1>0, <1>3 DEF Instance
  <2>2. instance' = [instance EXCEPT ![i] = next]
    BY <1>0, <1>3 DEF To
  <2>3. /\ instance[i].cached # Absent => instance[i].cachedUntil <= instance[i].cached + CacheTtl
        /\ instance[i].began <= clock /\ instance[i].cachedUntil = 0
    BY <1>3 DEF ProbeInv
  <2> HIDE DEF next
  <2> QED BY <1>0, <1>3, <2>1, <2>2, <2>3, RestProbe
<1>4. ASSUME instance' = [instance EXCEPT ![i] = Unused], UNCHANGED <<status, lockUntil, clock>>
      PROVE  ProbeTypeOK' /\ ProbeInv'
  BY <1>0, <1>1, <1>4, RestProbe
<1>5. Stored # Absent => Stored \in Nat
  BY <1>0 DEF Stored, Status
<1>6. CASE Lookup(i) \/ Contend(i)
  <2>1. CASE Cache(i, Stored, clock) /\ Stored # Absent
    BY <1>0, <1>5, <1>6, <2>1, CacheProbe DEF Lookup, Contend
  <2> QED BY <1>3, <1>4, <1>6, <2>1 DEF Lookup, Contend, At
<1>7. CASE ClaimProbe(i)
  <2>1. CASE To(i, "contend") /\ UNCHANGED lockUntil
    BY <1>3, <1>7, <2>1 DEF ClaimProbe, At
  <2>2. CASE LockFree /\ lockUntil' = clock + LockTtl /\ To(i, "relayer")
    <3> DEFINE next == [instance[i] EXCEPT !.pc = "relayer"]
    <3>1. /\ next \in Instance /\ next.pc = "relayer" /\ next.began = instance[i].began
          /\ next.cached = instance[i].cached /\ next.cachedUntil = instance[i].cachedUntil
      BY <1>0 DEF Instance
    <3>2. /\ instance' = [instance EXCEPT ![i] = next] /\ UNCHANGED <<status, clock>>
          /\ instance[i].pc = "claim"
      BY <1>0, <1>7, <2>2 DEF To, ClaimProbe, At
    <3> HIDE DEF next
    <3>3. instance'[i] = next /\ \A j \in Instances \ {i} : instance'[j] = instance[j]
      BY <1>0, <3>2
    <3>4. lockUntil <= clock /\ lockUntil' = clock + LockTtl /\ LockTtl \in Nat
      BY <2>2, BuilderProbeBounds DEF LockFree
    <3>5. \A j \in Instances : instance[j].began \in Nat
      BY <1>0 DEF Instance
    <3>6. ProbeTypeOK'
      BY <1>0, <3>1, <3>2, <3>4 DEF ProbeTypeOK
    <3>7. \A j \in Instances \ {i} : At(j, "relayer") => instance[j].began + LockTtl <= clock
      BY <1>0, <3>4, <3>5 DEF ProbeInv
    <3> QED BY <1>0, <3>1, <3>2, <3>3, <3>4, <3>5, <3>6, <3>7 DEF ProbeInv, At
  <2> QED BY <1>7, <2>1, <2>2 DEF ClaimProbe
<1>8. CASE Probe(i)
  <2> DEFINE next == [instance[i] EXCEPT !.pc = "persist", !.cached = clock]
  <2>1. /\ instance' = [instance EXCEPT ![i] = next] /\ UNCHANGED <<status, lockUntil, clock>>
    BY <1>0, <1>8 DEF Probe
  <2>2. /\ next \in Instance /\ next.pc = "persist" /\ next.began = instance[i].began
        /\ next.cached = clock /\ next.cachedUntil = instance[i].cachedUntil
    BY <1>0 DEF Instance, Status
  <2>3. next.began <= clock /\ next.cachedUntil = 0
    BY <1>8, <2>2 DEF ProbeInv, Probe, At
  <2> HIDE DEF next
  <2>4. /\ next.pc # "relayer" /\ next.cached \in Nat /\ next.cachedUntil <= next.cached + CacheTtl
        /\ status' \in Status \cup {Absent}
    BY <1>0, <2>1, <2>2, <2>3, BuilderProbeBounds
  <2> QED BY <2>1, <2>2, <2>3, <2>4, RestProbe
<1>9. CASE Persist(i)
  <2>1. /\ instance[i].cached \in Nat /\ instance[i].began \in Nat
        /\ Cache(i, instance[i].cached, instance[i].began)
        /\ status' \in Status \cup {Absent} /\ UNCHANGED <<lockUntil, clock>>
    BY <1>0, <1>9 DEF Persist, ProbeInv, At, Instance, Status
  <2> QED BY <2>1, CacheProbe
<1>10. CASE LookupFails(i)
  BY <1>4, <1>10 DEF LookupFails
<1> QED BY <1>2, <1>6, <1>7, <1>8, <1>9, <1>10 DEF Looked

(* The builder probe answers from results that are fresh, and keeps its    *)
(* variables well typed.                                                   *)
THEOREM ProbesFresh == ProbeSpec => [](ProbeTypeOK /\ ProbeAnswersFresh)
<1>1. ProbeInit => ProbeTypeOK /\ ProbeInv
  BY BuilderProbeBounds DEF ProbeInit, ProbeTypeOK, ProbeInv, Unused, Instance, At
<1>2. ProbeTypeOK /\ ProbeInv /\ [ProbeNext]_probeVars => ProbeTypeOK' /\ ProbeInv'
  <2> SUFFICES ASSUME ProbeTypeOK, ProbeInv, [ProbeNext]_probeVars PROVE ProbeTypeOK' /\ ProbeInv'
    OBVIOUS
  <2>1. CASE ClockTicks
    <3>1. /\ UNCHANGED <<instance, status, lockUntil>> /\ clock' = clock + 1 /\ clock < MaxClock
          /\ clock \in 0..MaxClock /\ MaxClock \in Nat
          /\ \A i \in Instances : instance[i].began \in Nat
      BY <2>1, BuilderProbeBounds DEF ClockTicks, ProbeTypeOK, Instance
    <3>2. ProbeTypeOK'
      BY <3>1 DEF ProbeTypeOK
    <3>3. \A i \in Instances : instance[i].began <= clock => instance[i].began <= clock'
      BY <3>1
    <3>4. \A i \in Instances : instance[i].began + LockTtl <= clock => instance[i].began + LockTtl <= clock'
      BY <3>1, BuilderProbeBounds
    <3> QED BY <3>1, <3>2, <3>3, <3>4 DEF ProbeInv, At
  <2>2. CASE UNCHANGED probeVars
    BY <2>2 DEF probeVars, ProbeTypeOK, ProbeInv, At
  <2> QED BY <2>1, <2>2, InstanceProbe DEF ProbeNext
<1>3. ProbeTypeOK /\ ProbeInv => ProbeAnswersFresh
  <2> SUFFICES ASSUME ProbeTypeOK, ProbeInv PROVE ProbeAnswersFresh
    OBVIOUS
  <2>1. ASSUME NEW i \in Instances, Fresh(i) PROVE clock < instance[i].cached + CacheTtl
    BY <2>1, BuilderProbeBounds DEF Fresh, ProbeInv, ProbeTypeOK, Instance, Status
  <2> QED BY <2>1 DEF ProbeAnswersFresh, ProbeInv
<1> QED BY <1>1, <1>2, <1>3, PTL DEF ProbeSpec

-----------------------------------------------------------------------------
(* The wallet setup *)

(* Which kind of token stands behind a token of each kind.                 *)
Behind(kind) ==
    CASE kind = "session" -> "challenge"
      [] kind = "deploy" -> "session"
      [] kind = "consent" -> "deploy"
      [] kind = "deployment" -> "consent"
      [] OTHER -> "none"

(* Token i has been exchanged: for a token, or by a request that is about  *)
(* to post the deployment.                                                 *)
Posting(q, i) == request[q].pc = "posting" /\ request[q].token = i

Used(i) ==
    \/ \E j \in DOMAIN tokens : tokens[j].parent = i /\ tokens[j].kind \in {"session", "consent", "deployment"}
    \/ \E q \in Requests : Posting(q, i)

(* Every token descends from tokens of the right kinds, and a deployment   *)
(* challenge from a session with an authorized builder.                    *)
Descent ==
    /\ Len(tokens) <= MaxTokens
    /\ \A i \in DOMAIN tokens : tokens[i].kind # "challenge" =>
          /\ tokens[i].parent \in DOMAIN tokens
          /\ tokens[tokens[i].parent].kind = Behind(tokens[i].kind)
    /\ \A i \in Of("deploy") : tokens[i].parent \in builder

(* What a request holds.                                                   *)
Presented(q) ==
    LET i == request[q].token
    IN  /\ request[q].pc = "checked" =>
              i \in Of("challenge") \cup Of("deploy") \cup Of("consent")
              /\ request[q].at < tokens[i].expiresAt /\ request[q].at <= time
        /\ request[q].pc = "posting" => i \in Of("consent") /\ request[q].at <= time
        /\ request[q].pc = "recording" => i \in Of("deployment")

(* A token that was exchanged counts as used until it expires, and only    *)
(* one exchange of it is in time.                                          *)
Late(i, q) == request[q].at >= tokens[i].expiresAt

OneExchange ==
    /\ \A i \in DOMAIN tokens : Used(i) => claimed[i] >= tokens[i].expiresAt
    /\ \A i, j \in DOMAIN tokens :
          i # j /\ tokens[i].parent = tokens[j].parent /\ tokens[i].kind \in {"session", "consent", "deployment"}
          /\ tokens[j].kind = tokens[i].kind => tokens[i].late \/ tokens[j].late
    /\ \A i \in DOMAIN tokens : \A q \in Requests :
          Posting(q, i) /\ ~Late(i, q) =>
              /\ \A r \in Requests \ {q} : Posting(r, i) => Late(i, r)
              /\ \A d \in Of("deployment") : tokens[d].parent = i => tokens[d].late

(* The wallet on record was deployed.                                      *)
Wallet ==
    /\ recorded \subseteq Of("deployment")
    /\ walletUntil # 0 \/ approved => deployed # {}

SetupInv == Descent /\ (\A q \in Requests : Presented(q)) /\ OneExchange /\ Wallet

(* Issuing a token leaves the others as they are.                          *)
Issued(token) == Len(tokens) < MaxTokens /\ tokens' = Append(tokens, token)

LEMMA IssueFacts ==
    ASSUME tokens \in Seq(Token), NEW token \in Token, Issued(token)
    PROVE  \E n \in 1..MaxTokens :
              /\ tokens' \in Seq(Token) /\ Len(tokens') <= MaxTokens
              /\ DOMAIN tokens' = DOMAIN tokens \cup {n} /\ n \notin DOMAIN tokens
              /\ \A i \in DOMAIN tokens : tokens'[i] = tokens[i]
              /\ tokens'[n] = token /\ n = Len(tokens) + 1
<1>2. tokens' = Append(tokens, token) /\ Len(tokens) < MaxTokens
  BY DEF Issued
<1>3. tokens' \in Seq(Token) /\ Len(tokens') = Len(tokens) + 1 /\ Len(tokens) \in Nat
  BY <1>2
<1>4. DOMAIN tokens = 1..Len(tokens) /\ DOMAIN tokens' = 1..(Len(tokens) + 1)
  BY <1>3
<1>5. tokens'[Len(tokens) + 1] = token /\ \A i \in 1..Len(tokens) : tokens'[i] = tokens[i]
  BY <1>2
<1> PICK n : n = Len(tokens) + 1
  OBVIOUS
<1>6. n \in 1..MaxTokens /\ n \notin DOMAIN tokens /\ DOMAIN tokens' = DOMAIN tokens \cup {n}
  BY <1>2, <1>3, <1>4, WalletSetupBounds
<1>7. Len(tokens') <= MaxTokens
  BY <1>2, <1>3, WalletSetupBounds
<1> QED BY <1>3, <1>4, <1>5, <1>6, <1>7

(* The token that an exchange issues.                                      *)
LEMMA IssuedToken ==
    ASSUME NEW kind \in Kinds, NEW parent \in 0..MaxTokens, NEW expiresAt \in Nat, NEW late \in BOOLEAN,
           Issue(kind, parent, expiresAt, late)
    PROVE  \E token \in Token :
              /\ Issued(token) /\ token.kind = kind /\ token.parent = parent
              /\ token.expiresAt = expiresAt /\ token.late = late
<1> DEFINE token == [kind |-> kind, parent |-> parent, expiresAt |-> expiresAt, late |-> late]
<1>1. /\ token \in Token /\ token.kind = kind /\ token.parent = parent
      /\ token.expiresAt = expiresAt /\ token.late = late
  BY DEF Token
<1>2. Issued(token)
  BY DEF Issue, Issued
<1> QED BY <1>1, <1>2

LEMMA TokenFacts ==
    ASSUME tokens \in Seq(Token), NEW i \in DOMAIN tokens
    PROVE  tokens[i] \in Token /\ tokens[i].expiresAt \in Nat
<1>1. tokens[i] \in Token
  OBVIOUS
<1> QED BY <1>1 DEF Token

(* What an issued token does not disturb.                                  *)
LEMMA IssueDescent ==
    ASSUME SetupTypeOK, SetupInv, NEW token \in Token, Issued(token),
           token.kind # "challenge" =>
               token.parent \in DOMAIN tokens /\ tokens[token.parent].kind = Behind(token.kind),
           token.kind = "deploy" => token.parent \in builder,
           UNCHANGED <<builder, recorded, deployed, walletUntil, approved, time>>
    PROVE  /\ Descent' /\ Wallet' /\ tokens' \in Seq(Token)
           /\ \A k : Of(k) \subseteq Of(k)'
           /\ \A q \in Requests : request'[q] = request[q] => Presented(q)'
<1>1. tokens \in Seq(Token)
  BY DEF SetupTypeOK
<1>2. PICK n \in 1..MaxTokens :
      /\ tokens' \in Seq(Token) /\ Len(tokens') <= MaxTokens
      /\ DOMAIN tokens' = DOMAIN tokens \cup {n} /\ n \notin DOMAIN tokens
      /\ \A i \in DOMAIN tokens : tokens'[i] = tokens[i]
      /\ tokens'[n] = token
  BY <1>1, IssueFacts
<1>3. \A k : Of(k) \subseteq Of(k)'
  BY <1>2 DEF Of
<1>4. ASSUME NEW i \in DOMAIN tokens', tokens'[i].kind # "challenge"
      PROVE  tokens'[i].parent \in DOMAIN tokens' /\ tokens'[tokens'[i].parent].kind = Behind(tokens'[i].kind)
  BY <1>2, <1>4 DEF SetupInv, Descent
<1>5. \A i \in Of("deploy")' : tokens'[i].parent \in builder
  BY <1>2 DEF SetupInv, Descent, Of
<1>6. Descent'
  BY <1>2, <1>4, <1>5 DEF Descent
<1>7. Wallet'
  BY <1>3 DEF SetupInv, Wallet
<1>8. ASSUME NEW q \in Requests, request'[q] = request[q] PROVE Presented(q)'
  <2>1. Presented(q)
    BY DEF SetupInv
  <2>2. \A i \in DOMAIN tokens : tokens'[i].expiresAt = tokens[i].expiresAt
    BY <1>2
  <2> PICK i : i = request[q].token
    OBVIOUS
  <2> QED BY <1>3, <1>8, <2>1, <2>2 DEF Presented, Of
<1> QED BY <1>2, <1>3, <1>6, <1>7, <1>8

(* A challenge or a deployment challenge.                                  *)
LEMMA AskSetup ==
    ASSUME SetupTypeOK, SetupInv, NEW token \in Token, Issued(token),
           \/ token.kind = "challenge"
           \/ token.kind = "deploy" /\ token.parent \in Of("session") \cap builder,
           UNCHANGED <<claimed, builder, request, recorded, deployed, walletUntil, approved, time>>
    PROVE  SetupTypeOK' /\ SetupInv'
<1>0. tokens \in Seq(Token)
  BY DEF SetupTypeOK
<1>1. /\ Descent' /\ Wallet' /\ tokens' \in Seq(Token)
      /\ \A q \in Requests : Presented(q)'
  BY <1>0, IssueDescent DEF Behind, Of
<1>2. PICK n \in 1..MaxTokens :
      /\ DOMAIN tokens' = DOMAIN tokens \cup {n} /\ n \notin DOMAIN tokens
      /\ \A i \in DOMAIN tokens : tokens'[i] = tokens[i]
      /\ tokens'[n] = token
  BY <1>0, IssueFacts
<1>3. \A i \in DOMAIN tokens' : Used(i)' => i \in DOMAIN tokens /\ Used(i)
  <2> SUFFICES ASSUME NEW i \in DOMAIN tokens', Used(i)' PROVE i \in DOMAIN tokens /\ Used(i)
    OBVIOUS
  <2>1. CASE \E q \in Requests : Posting(q, i)'
    <3>1. \E q \in Requests : Posting(q, i)
      BY <2>1 DEF Posting
    <3> QED BY <3>1 DEF Used, Posting, SetupInv, Presented, Of
  <2>2. CASE \E j \in DOMAIN tokens' : tokens'[j].parent = i /\ tokens'[j].kind \in {"session", "consent", "deployment"}
    <3>1. PICK j \in DOMAIN tokens : tokens[j].parent = i /\ tokens[j].kind \in {"session", "consent", "deployment"}
      BY <1>2, <2>2
    <3> QED BY <3>1 DEF Used, SetupInv, Descent
  <2> QED BY <2>1, <2>2 DEF Used
<1>4. OneExchange'
  <2>1. \A i \in DOMAIN tokens' : Used(i)' => claimed'[i] >= tokens'[i].expiresAt
    BY <1>2, <1>3 DEF SetupInv, OneExchange
  <2>2. \A i, j \in DOMAIN tokens' :
          i # j /\ tokens'[i].parent = tokens'[j].parent /\ tokens'[i].kind \in {"session", "consent", "deployment"}
          /\ tokens'[j].kind = tokens'[i].kind => tokens'[i].late \/ tokens'[j].late
    BY <1>2 DEF SetupInv, OneExchange
  <2>3. ASSUME NEW i \in DOMAIN tokens', NEW q \in Requests, Posting(q, i)', ~Late(i, q)'
        PROVE  /\ \A r \in Requests \ {q} : Posting(r, i)' => Late(i, r)'
               /\ \A d \in Of("deployment")' : tokens'[d].parent = i => tokens'[d].late
    <3>1. i \in DOMAIN tokens /\ tokens'[i] = tokens[i]
      BY <1>2, <1>3, <2>3 DEF Used
    <3>2. Posting(q, i) /\ ~Late(i, q)
      BY <2>3, <3>1 DEF Posting, Late
    <3> QED BY <1>2, <3>1, <3>2 DEF SetupInv, OneExchange, Posting, Late, Of
  <2> QED BY <2>1, <2>2, <2>3 DEF OneExchange
<1> QED BY <1>1, <1>4 DEF SetupInv, SetupTypeOK

(* A step that leaves the tokens and the claims alone.                     *)
LEMMA QuietSetup ==
    ASSUME SetupTypeOK, SetupInv, UNCHANGED <<tokens, claimed>>,
           SetupTypeOK', builder \subseteq builder', time <= time',
           \A q \in Requests : Presented(q)' /\ (request'[q].pc = "posting" => request'[q] = request[q]),
           Wallet'
    PROVE  SetupInv'
<1>1. Descent'
  BY DEF SetupInv, Descent, Of
<1>2. \A i : Used(i)' => Used(i)
  BY DEF Used, Posting
<1>3. \A i : \A q \in Requests : Posting(q, i)' => Posting(q, i) /\ (Late(i, q)' <=> Late(i, q))
  BY DEF Posting, Late
<1>4. Of("deployment")' = Of("deployment")
  BY DEF Of
<1>5. OneExchange'
  <2>1. \A i \in DOMAIN tokens' : Used(i)' => claimed'[i] >= tokens'[i].expiresAt
    BY <1>2 DEF SetupInv, OneExchange
  <2>2. ASSUME NEW i \in DOMAIN tokens', NEW q \in Requests, Posting(q, i)', ~Late(i, q)'
        PROVE  /\ \A r \in Requests \ {q} : Posting(r, i)' => Late(i, r)'
               /\ \A d \in Of("deployment")' : tokens'[d].parent = i => tokens'[d].late
    BY <1>3, <1>4, <2>2 DEF SetupInv, OneExchange
  <2> QED BY <2>1, <2>2 DEF SetupInv, OneExchange
<1> QED BY <1>1, <1>5 DEF SetupInv

(* What is known of the token a request presents.                          *)
LEMMA PresentedFacts ==
    ASSUME SetupTypeOK, SetupInv, NEW q \in Requests, request[q].pc \in {"checked", "posting"}
    PROVE  \E i \in DOMAIN tokens :
              /\ request[q].token = i /\ i \in 1..MaxTokens
              /\ tokens[i] \in Token /\ tokens[i].expiresAt \in Nat /\ claimed[i] \in Nat
              /\ request[q].at \in Nat /\ request[q].at <= time
              /\ request[q].pc = "checked" => tokens[i].kind \in {"challenge", "deploy", "consent"}
              /\ request[q].pc = "checked" => request[q].at < tokens[i].expiresAt
              /\ request[q].pc = "posting" => tokens[i].kind = "consent"
<1>1. Presented(q) /\ request[q] \in Request /\ tokens \in Seq(Token) /\ Len(tokens) <= MaxTokens
  BY DEF SetupInv, SetupTypeOK, Descent
<1>2. request[q].token \in DOMAIN tokens
  BY <1>1 DEF Presented, Of
<1> PICK i \in DOMAIN tokens : i = request[q].token
  BY <1>2
<1>3. tokens[i] \in Token /\ tokens[i].expiresAt \in Nat /\ request[q].at \in Nat
  <2>1. tokens[i] \in Token
    BY <1>1
  <2>2. request[q].at \in Nat
    BY <1>1 DEF Request
  <2> QED BY <2>1, <2>2 DEF Token
<1>4. i \in 1..MaxTokens
  BY <1>1, WalletSetupBounds
<1>5. claimed[i] \in Nat
  BY <1>4 DEF SetupTypeOK
<1> QED BY <1>1, <1>3, <1>4, <1>5 DEF Presented, Of

(* A request exchanges a challenge or a deployment challenge.              *)
LEMMA ExchangeSetup ==
    ASSUME SetupTypeOK, SetupInv, NEW q \in Requests, NEW i \in DOMAIN tokens, i = request[q].token,
           request[q].pc = "checked", claimed[i] <= time,
           NEW token \in Token, Issued(token), token.parent = i, token.kind \in {"session", "consent"},
           tokens[i].kind = Behind(token.kind), time >= tokens[i].expiresAt => token.late,
           claimed' = [claimed EXCEPT ![i] = time + ClaimTtl(q)],
           request' = [request EXCEPT ![q] = NoRequest],
           UNCHANGED <<builder, recorded, deployed, walletUntil, approved, time>>
    PROVE  SetupTypeOK' /\ SetupInv'
<1>0. /\ i \in 1..MaxTokens /\ tokens[i].expiresAt \in Nat /\ claimed[i] \in Nat
      /\ request[q].at \in Nat /\ request[q].at <= time /\ request[q].at < tokens[i].expiresAt
      /\ time \in Nat /\ tokens \in Seq(Token) /\ claimed \in [1..MaxTokens -> Nat]
      /\ request \in [Requests -> Request]
  BY PresentedFacts DEF SetupTypeOK
<1>1. ClaimTtl(q) \in Nat /\ time + ClaimTtl(q) >= tokens[i].expiresAt /\ time + ClaimTtl(q) \in Nat
  BY <1>0 DEF ClaimTtl
<1>2. claimed'[i] >= tokens[i].expiresAt /\ \A k \in (1..MaxTokens) \ {i} : claimed'[k] = claimed[k]
  BY <1>0, <1>1
<1>3. request'[q] = NoRequest /\ \A r \in Requests \ {q} : request'[r] = request[r]
  BY <1>0
<1>4. Used(i) => token.late
  <2>1. Used(i) => claimed[i] >= tokens[i].expiresAt
    BY DEF SetupInv, OneExchange
  <2> QED BY <1>0, <2>1
<1>5. /\ Descent' /\ Wallet' /\ tokens' \in Seq(Token)
      /\ \A r \in Requests \ {q} : Presented(r)'
  <2>1. token.kind \in Kinds /\ token.parent \in 0..MaxTokens
    BY DEF Token
  <2> QED BY <1>3, <2>1, IssueDescent
<1>6. Presented(q)'
  BY <1>3 DEF Presented, NoRequest
<1>7. PICK n \in 1..MaxTokens :
      /\ DOMAIN tokens' = DOMAIN tokens \cup {n} /\ n \notin DOMAIN tokens
      /\ \A k \in DOMAIN tokens : tokens'[k] = tokens[k]
      /\ tokens'[n] = token
  BY <1>0, IssueFacts
<1>8. \A k : \A r \in Requests : Posting(r, k)' => Posting(r, k) /\ r # q /\ request'[r] = request[r]
  BY <1>3 DEF Posting, NoRequest
<1>9. \A k \in DOMAIN tokens' : Used(k)' => k \in DOMAIN tokens /\ (k = i \/ Used(k))
  <2> SUFFICES ASSUME NEW k \in DOMAIN tokens', Used(k)' PROVE k \in DOMAIN tokens /\ (k = i \/ Used(k))
    OBVIOUS
  <2>1. CASE \E r \in Requests : Posting(r, k)'
    <3>1. PICK r \in Requests : Posting(r, k)
      BY <1>8, <2>1
    <3> QED BY <3>1 DEF Used, Posting, SetupInv, Presented, Of
  <2>2. CASE \E j \in DOMAIN tokens' : tokens'[j].parent = k /\ tokens'[j].kind \in {"session", "consent", "deployment"}
    <3>1. PICK j \in DOMAIN tokens' : tokens'[j].parent = k /\ tokens'[j].kind \in {"session", "consent", "deployment"}
      BY <2>2
    <3>2. CASE j = n
      BY <1>7, <3>1, <3>2
    <3>3. CASE j \in DOMAIN tokens
      BY <1>7, <3>1, <3>3 DEF Used, SetupInv, Descent
    <3> QED BY <1>7, <3>2, <3>3
  <2> QED BY <2>1, <2>2 DEF Used
<1>10. OneExchange'
  <2>1. \A k \in DOMAIN tokens' : Used(k)' => claimed'[k] >= tokens'[k].expiresAt
    <3>1. DOMAIN tokens \subseteq 1..MaxTokens
      BY <1>0, WalletSetupBounds DEF SetupInv, Descent
    <3> QED BY <1>2, <1>7, <1>9, <3>1 DEF SetupInv, OneExchange
  <2>2. ASSUME NEW k \in DOMAIN tokens', NEW j \in DOMAIN tokens', k # j,
               tokens'[k].parent = tokens'[j].parent, tokens'[k].kind \in {"session", "consent", "deployment"},
               tokens'[j].kind = tokens'[k].kind
        PROVE  tokens'[k].late \/ tokens'[j].late
    <3>1. CASE k \in DOMAIN tokens /\ j \in DOMAIN tokens
      BY <1>7, <2>2, <3>1 DEF SetupInv, OneExchange
    <3>2. CASE k = n \/ j = n
      <4>1. Used(i)
        BY <1>7, <2>2, <3>2 DEF Used
      <4> QED BY <1>4, <1>7, <3>2, <4>1
    <3> QED BY <1>7, <3>1, <3>2
  <2>3. ASSUME NEW k \in DOMAIN tokens', NEW r \in Requests, Posting(r, k)', ~Late(k, r)'
        PROVE  /\ \A s \in Requests \ {r} : Posting(s, k)' => Late(k, s)'
               /\ \A d \in Of("deployment")' : tokens'[d].parent = k => tokens'[d].late
    <3>1. Posting(r, k) /\ request'[r] = request[r] /\ k \in DOMAIN tokens /\ tokens'[k] = tokens[k]
      <4>1. Posting(r, k) /\ request'[r] = request[r]
        BY <1>8, <2>3
      <4>2. k \in DOMAIN tokens
        BY <4>1 DEF Posting, SetupInv, Presented, Of
      <4> QED BY <1>7, <4>1, <4>2
    <3>2. ~Late(k, r)
      BY <2>3, <3>1 DEF Late
    <3>3. \A d \in Of("deployment")' : d \in Of("deployment") /\ tokens'[d] = tokens[d]
      BY <1>7 DEF Of
    <3>4. \A s \in Requests \ {r} : Posting(s, k)' => Posting(s, k) /\ (Late(k, s)' <=> Late(k, s))
      BY <1>8, <3>1 DEF Late
    <3> QED BY <3>1, <3>2, <3>3, <3>4 DEF SetupInv, OneExchange
  <2> QED BY <2>1, <2>2, <2>3 DEF OneExchange
<1>11. SetupTypeOK'
  <2>1. claimed' \in [1..MaxTokens -> Nat] /\ request' \in [Requests -> Request]
    BY <1>0, <1>1, WalletSetupBounds DEF NoRequest, Request
  <2> QED BY <1>5, <2>1 DEF SetupTypeOK
<1> QED BY <1>3, <1>5, <1>6, <1>10, <1>11 DEF SetupInv

(* A request claims a consent and is about to post the deployment.         *)
LEMMA ConsentSetup ==
    ASSUME SetupTypeOK, SetupInv, NEW q \in Requests, NEW i \in Of("consent"), i = request[q].token,
           request[q].pc = "checked", claimed[i] <= time,
           claimed' = [claimed EXCEPT ![i] = time + ClaimTtl(q)],
           request' = [request EXCEPT ![q] = [request[q] EXCEPT !.pc = "posting", !.at = time]],
           UNCHANGED <<tokens, builder, recorded, deployed, walletUntil, approved, time>>
    PROVE  SetupTypeOK' /\ SetupInv'
<1>0. /\ i \in DOMAIN tokens /\ i \in 1..MaxTokens /\ tokens[i].expiresAt \in Nat /\ claimed[i] \in Nat
      /\ request[q].at \in Nat /\ request[q].at <= time /\ request[q].at < tokens[i].expiresAt
      /\ time \in Nat /\ tokens \in Seq(Token) /\ claimed \in [1..MaxTokens -> Nat]
      /\ request \in [Requests -> Request]
  BY PresentedFacts DEF SetupTypeOK, Of
<1>1. ClaimTtl(q) \in Nat /\ time + ClaimTtl(q) >= tokens[i].expiresAt /\ time + ClaimTtl(q) \in Nat
  BY <1>0 DEF ClaimTtl
<1>2. claimed'[i] >= tokens[i].expiresAt /\ \A k \in (1..MaxTokens) \ {i} : claimed'[k] = claimed[k]
  BY <1>0, <1>1
<1>3. /\ request'[q].pc = "posting" /\ request'[q].at = time /\ request'[q].token = i
      /\ request'[q] \in Request
      /\ \A r \in Requests \ {q} : request'[r] = request[r]
  <2>1. request[q] \in Request
    BY <1>0
  <2> QED BY <1>0, <2>1 DEF Request
<1>4. Used(i) => time >= tokens[i].expiresAt
  <2>1. Used(i) => claimed[i] >= tokens[i].expiresAt
    BY <1>0 DEF SetupInv, OneExchange
  <2> QED BY <1>0, <2>1
<1>5. Descent' /\ Wallet'
  BY DEF SetupInv, Descent, Wallet, Of
<1>6. \A r \in Requests : Presented(r)'
  BY <1>0, <1>3 DEF SetupInv, Presented, Of
<1>7. \A k \in DOMAIN tokens : \A r \in Requests :
          Posting(r, k)' => \/ r = q /\ k = i
                            \/ r # q /\ Posting(r, k) /\ request'[r] = request[r] /\ (Late(k, r)' <=> Late(k, r))
  BY <1>3 DEF Posting, Late
<1>8. \A k \in DOMAIN tokens : Used(k)' => k = i \/ Used(k)
  BY <1>7 DEF Used
<1>9. OneExchange'
  <2>1. \A k \in DOMAIN tokens' : Used(k)' => claimed'[k] >= tokens'[k].expiresAt
    <3>1. DOMAIN tokens \subseteq 1..MaxTokens
      BY <1>0, WalletSetupBounds DEF SetupInv, Descent
    <3> QED BY <1>2, <1>8, <3>1 DEF SetupInv, OneExchange
  <2>3. ASSUME NEW k \in DOMAIN tokens', NEW r \in Requests, Posting(r, k)', ~Late(k, r)'
        PROVE  /\ \A s \in Requests \ {r} : Posting(s, k)' => Late(k, s)'
               /\ \A d \in Of("deployment")' : tokens'[d].parent = k => tokens'[d].late
    <3>1. CASE r = q
      <4>1. k = i /\ ~(time >= tokens[i].expiresAt)
        BY <1>3, <2>3, <3>1 DEF Posting, Late
      <4>2. ~Used(i)
        BY <1>4, <4>1
      <4>3. \A s \in Requests : ~Posting(s, i)
        BY <4>2 DEF Used
      <4>4. \A d \in Of("deployment") : tokens[d].parent # i
        BY <4>2 DEF Used, Of
      <4>5. Of("deployment")' = Of("deployment")
        BY DEF Of
      <4> QED BY <1>7, <3>1, <4>1, <4>3, <4>4, <4>5
    <3>2. CASE r # q
      <4>1. Posting(r, k) /\ ~Late(k, r)
        BY <1>7, <2>3, <3>2
      <4>2. \A s \in Requests \ {r} : Posting(s, k)' => Late(k, s)'
        <5> SUFFICES ASSUME NEW s \in Requests \ {r}, Posting(s, k)' PROVE Late(k, s)'
          OBVIOUS
        <5>1. CASE s = q
          <6>1. k = i /\ time >= tokens[i].expiresAt
            BY <1>4, <1>7, <4>1, <5>1 DEF Used
          <6> QED BY <1>3, <5>1, <6>1 DEF Late
        <5>2. CASE s # q
          BY <1>7, <2>3, <4>1, <5>2 DEF SetupInv, OneExchange
        <5> QED BY <5>1, <5>2
      <4>3. Of("deployment")' = Of("deployment")
        BY DEF Of
      <4> QED BY <2>3, <4>1, <4>2, <4>3 DEF SetupInv, OneExchange
    <3> QED BY <3>1, <3>2
  <2> QED BY <2>1, <2>3 DEF SetupInv, OneExchange
<1>10. SetupTypeOK'
  <2>1. claimed' \in [1..MaxTokens -> Nat] /\ request' \in [Requests -> Request]
    BY <1>0, <1>1, <1>3
  <2> QED BY <2>1 DEF SetupTypeOK
<1> QED BY <1>5, <1>6, <1>9, <1>10 DEF SetupInv

(* The relayer takes a deployment.                                         *)
LEMMA PostSetup ==
    ASSUME SetupTypeOK, SetupInv, NEW q \in Requests, PostDeployment(q)
    PROVE  SetupTypeOK' /\ SetupInv'
<1>0. PICK i \in DOMAIN tokens :
          /\ request[q].token = i /\ i \in 1..MaxTokens /\ tokens[i].kind = "consent"
          /\ request[q].at \in Nat /\ tokens[i].expiresAt \in Nat
  BY PresentedFacts DEF PostDeployment
<1>1. PICK token \in Token : /\ Issued(token) /\ token.kind = "deployment" /\ token.parent = i
                             /\ token.late <=> Late(i, q)
  <2>1. PICK late \in BOOLEAN : Issue("deployment", i, 0, late) /\ (late <=> Late(i, q))
    <3>1. Issue("deployment", request[q].token, 0, Late(request[q].token, q))
      BY Zenon DEF PostDeployment, Late
    <3>2. request[q].token = i
      BY <1>0
    <3>3. Issue("deployment", i, 0, Late(i, q))
      BY <3>1, <3>2, Zenon
    <3>4. Late(i, q) \in BOOLEAN
      BY DEF Late
    <3> QED BY <3>3, <3>4, Zenon
  <2>2. "deployment" \in Kinds /\ i \in 0..MaxTokens
    BY <1>0, WalletSetupBounds DEF Kinds
  <2> QED BY <2>1, <2>2, IssuedToken
<1>2. /\ tokens \in Seq(Token) /\ request \in [Requests -> Request] /\ request[q].pc = "posting"
      /\ UNCHANGED <<claimed, builder, recorded, deployed, walletUntil, approved, time>>
  BY DEF PostDeployment, SetupTypeOK
<1>3. PICK n \in 1..MaxTokens :
      /\ DOMAIN tokens' = DOMAIN tokens \cup {n} /\ n \notin DOMAIN tokens
      /\ \A k \in DOMAIN tokens : tokens'[k] = tokens[k]
      /\ tokens'[n] = token /\ n = Len(tokens) + 1
  BY <1>1, <1>2, IssueFacts
<1>4. request' = [request EXCEPT ![q] = [pc |-> "recording", token |-> n, at |-> 0]]
  BY <1>3 DEF PostDeployment
<1>5. /\ request'[q].pc = "recording" /\ request'[q].token = n
      /\ \A r \in Requests \ {q} : request'[r] = request[r]
  BY <1>2, <1>4
<1>6. /\ Descent' /\ Wallet' /\ tokens' \in Seq(Token)
      /\ \A r \in Requests \ {q} : Presented(r)'
  BY <1>0, <1>1, <1>2, <1>5, IssueDescent DEF Behind
<1>7. Presented(q)'
  BY <1>1, <1>3, <1>5 DEF Presented, Of
<1>8. \A k : \A r \in Requests : Posting(r, k)' => Posting(r, k) /\ r # q /\ request'[r] = request[r]
  BY <1>5 DEF Posting
<1>9. Posting(q, i) /\ Used(i)
  BY <1>0, <1>2 DEF Posting, Used
<1>10. \A k \in DOMAIN tokens' : Used(k)' => k \in DOMAIN tokens /\ Used(k)
  <2> SUFFICES ASSUME NEW k \in DOMAIN tokens', Used(k)' PROVE k \in DOMAIN tokens /\ Used(k)
    OBVIOUS
  <2>1. CASE \E r \in Requests : Posting(r, k)'
    <3>1. PICK r \in Requests : Posting(r, k)
      BY <1>8, <2>1
    <3> QED BY <3>1 DEF Used, Posting, SetupInv, Presented, Of
  <2>2. CASE \E j \in DOMAIN tokens' : tokens'[j].parent = k /\ tokens'[j].kind \in {"session", "consent", "deployment"}
    <3>1. PICK j \in DOMAIN tokens' : tokens'[j].parent = k /\ tokens'[j].kind \in {"session", "consent", "deployment"}
      BY <2>2
    <3>2. CASE j = n
      BY <1>0, <1>1, <1>3, <1>9, <3>1, <3>2
    <3>3. CASE j \in DOMAIN tokens
      BY <1>3, <3>1, <3>3 DEF Used, SetupInv, Descent
    <3> QED BY <1>3, <3>2, <3>3
  <2> QED BY <2>1, <2>2 DEF Used
<1>11. OneExchange'
  <2>1. \A k \in DOMAIN tokens' : Used(k)' => claimed'[k] >= tokens'[k].expiresAt
    BY <1>2, <1>3, <1>10 DEF SetupInv, OneExchange
  <2>2. ASSUME NEW k \in DOMAIN tokens', NEW j \in DOMAIN tokens', k # j,
               tokens'[k].parent = tokens'[j].parent, tokens'[k].kind \in {"session", "consent", "deployment"},
               tokens'[j].kind = tokens'[k].kind
        PROVE  tokens'[k].late \/ tokens'[j].late
    <3>1. CASE k \in DOMAIN tokens /\ j \in DOMAIN tokens
      BY <1>3, <2>2, <3>1 DEF SetupInv, OneExchange
    <3>2. ASSUME NEW d \in DOMAIN tokens, tokens[d].parent = i, tokens[d].kind = "deployment"
          PROVE  tokens[d].late \/ token.late
      BY <1>0, <1>1, <1>9, <3>2 DEF SetupInv, OneExchange, Of
    <3> QED BY <1>1, <1>3, <2>2, <3>1, <3>2
  <2>3. ASSUME NEW k \in DOMAIN tokens', NEW r \in Requests, Posting(r, k)', ~Late(k, r)'
        PROVE  /\ \A s \in Requests \ {r} : Posting(s, k)' => Late(k, s)'
               /\ \A d \in Of("deployment")' : tokens'[d].parent = k => tokens'[d].late
    <3>1. Posting(r, k) /\ r # q /\ request'[r] = request[r] /\ k \in DOMAIN tokens /\ tokens'[k] = tokens[k]
      <4>1. Posting(r, k) /\ r # q /\ request'[r] = request[r]
        BY <1>8, <2>3
      <4>2. k \in DOMAIN tokens
        BY <4>1 DEF Posting, SetupInv, Presented, Of
      <4> QED BY <1>3, <4>1, <4>2
    <3>2. ~Late(k, r)
      BY <2>3, <3>1 DEF Late
    <3>3. \A s \in Requests \ {r} : Posting(s, k)' => Late(k, s)'
      <4>1. \A s \in Requests \ {r} : Posting(s, k)' => Posting(s, k) /\ (Late(k, s)' <=> Late(k, s))
        BY <1>8, <3>1 DEF Late
      <4> QED BY <3>1, <3>2, <4>1 DEF SetupInv, OneExchange
    <3>4. ASSUME NEW d \in Of("deployment")', tokens'[d].parent = k PROVE tokens'[d].late
      <4>1. CASE d = n
        <5>1. k = i
          BY <1>1, <1>3, <3>4, <4>1
        <5>2. Late(i, q)
          BY <1>0, <1>9, <3>1, <3>2, <5>1 DEF SetupInv, OneExchange
        <5> QED BY <1>1, <1>3, <4>1, <5>2
      <4>2. CASE d # n
        <5>1. d \in Of("deployment") /\ tokens'[d] = tokens[d]
          BY <1>3, <4>2 DEF Of
        <5> QED BY <3>1, <3>2, <3>4, <5>1 DEF SetupInv, OneExchange
      <4> QED BY <4>1, <4>2
    <3> QED BY <3>3, <3>4
  <2> QED BY <2>1, <2>2, <2>3 DEF OneExchange
<1>12. SetupTypeOK'
  <2>1. [pc |-> "recording", token |-> n, at |-> 0] \in Request
    BY WalletSetupBounds DEF Request
  <2> QED BY <1>2, <1>4, <1>6, <2>1 DEF SetupTypeOK
<1> QED BY <1>5, <1>6, <1>7, <1>11, <1>12 DEF SetupInv

(* A request ends, whatever it had claimed.                                *)
LEMMA DropSetup ==
    ASSUME SetupTypeOK, SetupInv, NEW q \in Requests, request' = [request EXCEPT ![q] = NoRequest],
           UNCHANGED <<tokens, claimed, builder, deployed, walletUntil, approved, time>>,
           recorded' = recorded \/ \E d \in Of("deployment") : recorded' = recorded \cup {d}
    PROVE  SetupTypeOK' /\ SetupInv'
<1>0. Of("deployment") \subseteq 1..MaxTokens
  BY WalletSetupBounds DEF Of, SetupInv, Descent, SetupTypeOK
<1>1. request'[q] = NoRequest /\ \A r \in Requests \ {q} : request'[r] = request[r]
  BY DEF SetupTypeOK
<1>2. \A r \in Requests : Presented(r)'
  BY <1>1 DEF SetupInv, Presented, Of, NoRequest
<1>3. \A r \in Requests : request'[r].pc = "posting" => request'[r] = request[r]
  BY <1>1 DEF NoRequest
<1>4. NoRequest \in Request
  BY WalletSetupBounds DEF NoRequest, Request
<1>5. SetupTypeOK'
  BY <1>0, <1>4 DEF SetupTypeOK
<1>6. Wallet'
  BY DEF SetupInv, Wallet, Of
<1>7. time <= time'
  BY DEF SetupTypeOK
<1> QED BY <1>2, <1>3, <1>5, <1>6, <1>7, QuietSetup

(* A deployment descends from a session with an authorized builder.        *)
LEMMA SessionFacts ==
    ASSUME SetupInv, NEW d \in Of("deployment")
    PROVE  SessionOf(d) \in DOMAIN tokens /\ SessionOf(d) \in builder
<1>1. d \in DOMAIN tokens /\ tokens[d].kind = "deployment"
  BY DEF Of
<1>2. PICK c \in DOMAIN tokens : c = tokens[d].parent /\ tokens[c].kind = "consent"
  BY <1>1 DEF SetupInv, Descent, Behind
<1>3. PICK e \in DOMAIN tokens : e = tokens[c].parent /\ tokens[e].kind = "deploy"
  BY <1>2 DEF SetupInv, Descent, Behind
<1>4. tokens[e].parent \in DOMAIN tokens /\ tokens[e].parent \in builder
  BY <1>3 DEF SetupInv, Descent, Of
<1>5. SessionOf(d) = tokens[e].parent
  BY <1>1, <1>2, <1>3 DEF SessionOf
<1> QED BY <1>4, <1>5

LEMMA ClaimSetup ==
    ASSUME SetupTypeOK, SetupInv, NEW q \in Requests, ClaimOnce(q)
    PROVE  SetupTypeOK' /\ SetupInv'
<1>0. PICK i \in DOMAIN tokens :
          /\ request[q].token = i /\ i \in 1..MaxTokens /\ tokens[i] \in Token
          /\ request[q].at \in Nat /\ tokens[i].expiresAt \in Nat /\ claimed[i] \in Nat
          /\ tokens[i].kind \in {"challenge", "deploy", "consent"}
  BY PresentedFacts DEF ClaimOnce
<1>1. /\ request[q].pc = "checked" /\ time \in Nat
      /\ UNCHANGED <<builder, recorded, deployed, walletUntil, approved, time>>
  BY DEF ClaimOnce, SetupTypeOK
<1>2. CASE claimed[i] > time
  <2>1. request' = [request EXCEPT ![q] = NoRequest] /\ UNCHANGED <<tokens, claimed>>
    BY <1>0, <1>2 DEF ClaimOnce
  <2> QED BY <1>1, <2>1, DropSetup
<1>3. CASE ~(claimed[i] > time)
  <2>1. /\ claimed[i] <= time /\ Exchanged(q)
        /\ claimed' = [claimed EXCEPT ![i] = time + ClaimTtl(q)]
        /\ request' = [request EXCEPT ![q] = IF tokens[i].kind = "consent"
                                             THEN [request[q] EXCEPT !.pc = "posting", !.at = time]
                                             ELSE NoRequest]
    BY <1>0, <1>1, <1>3 DEF ClaimOnce
  <2>2. CASE tokens[i].kind = "consent"
    <3>1. UNCHANGED tokens /\ i \in Of("consent")
      BY <1>0, <2>1, <2>2 DEF Exchanged, Of
    <3> QED BY <1>0, <1>1, <2>1, <2>2, <3>1, ConsentSetup
  <2>3. ASSUME NEW kind \in {"session", "consent"}, tokens[i].kind = Behind(kind),
               NEW expiresAt \in Nat, Issue(kind, i, expiresAt, ~Live(i))
        PROVE  SetupTypeOK' /\ SetupInv'
    <3>1. PICK late \in BOOLEAN : Issue(kind, i, expiresAt, late) /\ (late <=> ~Live(i))
      BY <2>3, Zenon
    <3>2. kind \in Kinds /\ i \in 0..MaxTokens
      BY <1>0, WalletSetupBounds DEF Kinds
    <3>3. PICK token \in Token :
              Issued(token) /\ token.kind = kind /\ token.parent = i /\ token.late = late
      BY <3>1, <3>2, IssuedToken
    <3>4. time >= tokens[i].expiresAt => token.late
      BY <1>0, <1>1, <3>1, <3>3 DEF Live
    <3>5. tokens[i].kind # "consent"
      BY <2>3 DEF Behind
    <3>6. request' = [request EXCEPT ![q] = NoRequest]
      BY <2>1, <3>5
    <3> QED BY <1>0, <1>1, <2>1, <2>3, <3>3, <3>4, <3>6, ExchangeSetup
  <2>4. CASE tokens[i].kind = "challenge"
    <3>1. Issue("session", i, request[q].at + SessionTtl, ~Live(i))
      BY <1>0, <2>1, <2>4, Zenon DEF Exchanged
    <3>2. request[q].at + SessionTtl \in Nat
      BY <1>0, WalletSetupBounds
    <3> QED BY <2>3, <2>4, <3>1, <3>2 DEF Behind
  <2>5. CASE tokens[i].kind = "deploy"
    <3>1. SessionOf(i) \in DOMAIN tokens
      BY <2>5 DEF SessionOf, SetupInv, Descent
    <3>2. tokens[SessionOf(i)].expiresAt \in Nat
      BY <3>1, TokenFacts DEF SetupTypeOK
    <3>3. Min2(tokens[SessionOf(i)].expiresAt, request[q].at + DeployTtl) \in Nat
      BY <1>0, <3>2, WalletSetupBounds DEF Min2
    <3>4. Issue("consent", i, Min2(tokens[SessionOf(i)].expiresAt, request[q].at + DeployTtl), ~Live(i))
      BY <1>0, <2>1, <2>5, Zenon DEF Exchanged
    <3> QED BY <2>3, <2>5, <3>3, <3>4 DEF Behind
  <2> QED BY <1>0, <2>2, <2>4, <2>5
<1> QED BY <1>2, <1>3

LEMMA RequestSetup ==
    ASSUME SetupTypeOK, SetupInv, NEW q \in Requests,
           RecordTransaction(q) \/ Abandon(q) \/ \E i \in 1..MaxTokens : Present(q, i)
    PROVE  SetupTypeOK' /\ SetupInv'
<1>1. CASE RecordTransaction(q) \/ Abandon(q)
  <2>1. request[q].pc = "recording" => request[q].token \in Of("deployment")
    BY DEF SetupInv, Presented
  <2> QED BY <1>1, <2>1, DropSetup DEF RecordTransaction, Abandon
<1>2. ASSUME NEW i \in 1..MaxTokens, Present(q, i) PROVE SetupTypeOK' /\ SetupInv'
  <2> DEFINE next == [pc |-> "checked", token |-> i, at |-> time]
  <2>1. /\ i \in Of("challenge") \cup Of("deploy") \cup Of("consent") /\ Live(i)
        /\ request' = [request EXCEPT ![q] = next]
        /\ UNCHANGED <<tokens, claimed, builder, recorded, deployed, walletUntil, approved, time>>
    BY <1>2 DEF Present
  <2>2. time \in Nat /\ tokens[i].expiresAt \in Nat
    <3>1. tokens[i] \in Token
      BY <2>1 DEF SetupTypeOK, Of
    <3> QED BY <3>1 DEF SetupTypeOK, Token
  <2>3. next \in Request /\ next.pc = "checked" /\ next.token = i /\ next.at = time
    BY <2>2, WalletSetupBounds DEF Request
  <2> HIDE DEF next
  <2>4. request'[q] = next /\ \A r \in Requests \ {q} : request'[r] = request[r]
    BY <2>1 DEF SetupTypeOK
  <2>5. Presented(q)'
    BY <2>1, <2>2, <2>3, <2>4 DEF Presented, Live, Of
  <2>6. \A r \in Requests \ {q} : Presented(r)'
    BY <2>1, <2>4 DEF SetupInv, Presented, Of
  <2>7. SetupTypeOK' /\ Wallet' /\ time <= time'
    <3>1. SetupTypeOK'
      BY <2>1, <2>3 DEF SetupTypeOK
    <3>2. Wallet'
      BY <2>1 DEF SetupInv, Wallet, Of
    <3> QED BY <2>1, <2>2, <3>1, <3>2
  <2> QED BY <2>1, <2>3, <2>4, <2>5, <2>6, <2>7, QuietSetup
<1> QED BY <1>1, <1>2

(* Steps that move no request and exchange nothing.                        *)
LEMMA SessionSetup ==
    ASSUME SetupTypeOK, SetupInv,
           \/ IssueChallenge \/ TimePasses
           \/ \E i \in 1..MaxTokens :
                 \/ RecordBuilderAuthorization(i) \/ IssueDeploymentChallenge(i)
                 \/ PollDeployment(i) \/ Approve(i) \/ Deployed(i)
    PROVE  SetupTypeOK' /\ SetupInv'
<1>0. time \in Nat /\ MaxTime \in Nat /\ tokens \in Seq(Token)
  BY WalletSetupBounds DEF SetupTypeOK
<1>1. ASSUME UNCHANGED <<tokens, claimed, request>>, builder \subseteq builder', time <= time', time' \in Nat,
             SetupTypeOK', Wallet'
      PROVE  SetupTypeOK' /\ SetupInv'
  <2>1. \A q \in Requests : Presented(q)'
    <3> SUFFICES ASSUME NEW q \in Requests PROVE Presented(q)'
      OBVIOUS
    <3>1. Presented(q) /\ request[q] \in Request
      BY DEF SetupInv, SetupTypeOK
    <3>2. request[q].at \in Nat
      BY <3>1 DEF Request
    <3>3. request[q].at <= time => request[q].at <= time'
      BY <1>0, <1>1, <3>2
    <3> QED BY <1>1, <3>1, <3>3 DEF Presented, Of
  <2> QED BY <1>1, <2>1, QuietSetup
<1>2. ASSUME NEW kind \in {"challenge", "deploy"}, NEW parent \in 0..MaxTokens, NEW expiresAt \in Nat,
             Issue(kind, parent, expiresAt, FALSE), kind = "deploy" => parent \in Of("session") \cap builder,
             UNCHANGED <<claimed, builder, request, recorded, deployed, walletUntil, approved, time>>
      PROVE  SetupTypeOK' /\ SetupInv'
  <2>1. PICK late \in BOOLEAN : Issue(kind, parent, expiresAt, late)
    BY <1>2, Zenon
  <2>2. kind \in Kinds
    BY DEF Kinds
  <2>3. PICK token \in Token : Issued(token) /\ token.kind = kind /\ token.parent = parent
    BY <2>1, <2>2, IssuedToken
  <2> QED BY <1>2, <2>3, AskSetup
<1>3. CASE IssueChallenge
  <2>1. time + ChallengeTtl \in Nat /\ 0 \in 0..MaxTokens
    BY <1>0, WalletSetupBounds
  <2>2. Issue("challenge", 0, time + ChallengeTtl, FALSE)
    BY <1>3, Zenon DEF IssueChallenge
  <2> QED BY <1>2, <1>3, <2>1, <2>2 DEF IssueChallenge
<1>4. CASE TimePasses
  <2>1. /\ UNCHANGED <<tokens, claimed, builder, request, recorded, deployed, walletUntil, approved>>
        /\ time' = time + 1 /\ time' \in 0..MaxTime
    BY <1>0, <1>4 DEF TimePasses
  <2>2. SetupTypeOK' /\ Wallet'
    BY <2>1 DEF SetupTypeOK, SetupInv, Wallet, Of
  <2> QED BY <1>0, <1>1, <2>1, <2>2
<1>5. ASSUME NEW i \in 1..MaxTokens, RecordBuilderAuthorization(i) PROVE SetupTypeOK' /\ SetupInv'
  <2>1. SetupTypeOK' /\ Wallet'
    BY <1>5 DEF RecordBuilderAuthorization, SetupTypeOK, SetupInv, Wallet, Of
  <2> QED BY <1>0, <1>1, <1>5, <2>1 DEF RecordBuilderAuthorization
<1>6. ASSUME NEW i \in 1..MaxTokens, IssueDeploymentChallenge(i) PROVE SetupTypeOK' /\ SetupInv'
  <2>1. time + DeployTtl \in Nat /\ i \in 0..MaxTokens
    BY <1>0, WalletSetupBounds
  <2>2. Issue("deploy", i, time + DeployTtl, FALSE)
    BY <1>6, Zenon DEF IssueDeploymentChallenge
  <2> QED BY <1>2, <1>6, <2>1, <2>2 DEF IssueDeploymentChallenge, BuilderAuthorized
<1>7. ASSUME NEW i \in 1..MaxTokens, PollDeployment(i) PROVE SetupTypeOK' /\ SetupInv'
  <2>1. i \in Of("deployment") /\ i \in deployed
    BY <1>7 DEF PollDeployment, Confirmed, SetupInv, Wallet
  <2>2. SessionOf(i) \in DOMAIN tokens
    BY <2>1, SessionFacts
  <2>3. tokens[SessionOf(i)].expiresAt \in Nat
    BY <1>0, <2>2, TokenFacts
  <2>4. SetupTypeOK' /\ Wallet'
    BY <1>7, <2>1, <2>3 DEF PollDeployment, SetupTypeOK, SetupInv, Wallet, Of
  <2> QED BY <1>0, <1>1, <1>7, <2>4 DEF PollDeployment
<1>8. ASSUME NEW i \in 1..MaxTokens, Approve(i) PROVE SetupTypeOK' /\ SetupInv'
  <2>1. walletUntil # 0
    BY <1>0, <1>8 DEF Approve, SetupTypeOK
  <2>2. SetupTypeOK' /\ Wallet'
    BY <1>8, <2>1 DEF Approve, SetupTypeOK, SetupInv, Wallet, Of
  <2> QED BY <1>0, <1>1, <1>8, <2>2 DEF Approve
<1>9. ASSUME NEW i \in 1..MaxTokens, Deployed(i) PROVE SetupTypeOK' /\ SetupInv'
  <2>1. SetupTypeOK' /\ Wallet'
    BY <1>9 DEF Deployed, SetupTypeOK, SetupInv, Wallet, Of
  <2> QED BY <1>0, <1>1, <1>9, <2>1 DEF Deployed
<1> QED BY <1>3, <1>4, <1>5, <1>6, <1>7, <1>8, <1>9

(* However often and concurrently challenges, deployment challenges and    *)
(* consents are presented, only one exchange of each reaches the store     *)
(* before it expires; every deployment descends from a session with an     *)
(* authorized builder, and approvals follow a deployment.                  *)
THEOREM ConsentsDeployOnce == SetupSpec => [](SetupTypeOK /\ OneDeploymentPerConsent)
<1>1. SetupInit => SetupTypeOK /\ SetupInv
  <2> SUFFICES ASSUME SetupInit PROVE SetupTypeOK /\ SetupInv
    OBVIOUS
  <2>1. SetupTypeOK
    <3>1. NoRequest \in Request /\ 0 \in 0..MaxTime
      BY WalletSetupBounds DEF NoRequest, Request
    <3>2. tokens \in Seq(Token)
      BY DEF SetupInit
    <3> QED BY <3>1, <3>2 DEF SetupInit, SetupTypeOK
  <2>2. DOMAIN tokens = {} /\ Len(tokens) = 0
    BY DEF SetupInit
  <2> QED BY <2>1, <2>2, WalletSetupBounds DEF SetupInit, SetupInv, Descent, Presented, OneExchange, Wallet, Of,
        NoRequest
<1>2. SetupTypeOK /\ SetupInv /\ [SetupNext]_setupVars => SetupTypeOK' /\ SetupInv'
  <2> SUFFICES ASSUME SetupTypeOK, SetupInv, [SetupNext]_setupVars PROVE SetupTypeOK' /\ SetupInv'
    OBVIOUS
  <2>1. CASE UNCHANGED setupVars
    <3>1. SetupTypeOK' /\ Wallet' /\ time <= time'
      BY <2>1 DEF setupVars, SetupTypeOK, SetupInv, Wallet, Of
    <3>2. \A q \in Requests : Presented(q)'
      BY <2>1 DEF setupVars, SetupInv, Presented, Of
    <3> QED BY <2>1, <3>1, <3>2, QuietSetup DEF setupVars
  <2> QED BY <2>1, ClaimSetup, PostSetup, RequestSetup, SessionSetup DEF SetupNext
<1>3. SetupTypeOK /\ SetupInv => OneDeploymentPerConsent
  <2> SUFFICES ASSUME SetupTypeOK, SetupInv PROVE OneDeploymentPerConsent
    OBVIOUS
  <2>1. \A d \in Of("deployment") : SessionOf(d) \in builder
    BY SessionFacts
  <2> QED BY <2>1 DEF OneDeploymentPerConsent, SetupInv, OneExchange, Wallet
<1> QED BY <1>1, <1>2, <1>3, PTL DEF SetupSpec

-----------------------------------------------------------------------------
(* The paid service *)

(* Call c has what a buyer pays for.                                       *)
Billable(c) ==
    call[c].shape = "structured" /\ (service = "open" => call[c].eligible /\ call[c].card # 0)

Final == {"settled", "refused", "delivered"}

(* What a call carries past the gate, and what it owes to a settlement of  *)
(* its own.                                                                *)
CallInv(c) ==
    /\ call[c].pc \in {"handler", "refetch", "ok"} => call[c].auth # NoAuth
    /\ call[c].pc = "ok" => Billable(c)
    /\ call[c].pc \in {"settled", "delivered"} =>
          call[c].auth \in Auths /\ settlement[call[c].auth] # NoAuth /\ settlement[call[c].auth].call = c

(* What settled was sold, by a call that changes no more.                  *)
SettledInv(a) ==
    settlement[a] # NoAuth =>
        /\ settlement[a].at <= seconds
        /\ Billable(settlement[a].call)
        /\ call[settlement[a].call].auth = a
        /\ call[settlement[a].call].pc \in Final

(* Payment a pays for something asked at a time, from origin.              *)
Covers(a, when) ==
    /\ a \in Auths
    /\ settlement[a] # NoAuth
    /\ settlement[a].at <= when
    /\ when <= settlement[a].at + Window

CardInv(i) ==
    /\ cards[i].asked <= cards[i].issued /\ cards[i].issued <= seconds
    /\ IF cards[i].from = 0 THEN cards[i].by = NoAuth
       ELSE /\ cards[i].from \in DOMAIN cards
            /\ Covers(cards[i].by, cards[i].asked)
            /\ cards[cards[i].from].by = cards[i].by =>
                  cards[cards[i].from].issued = settlement[cards[i].by].at

RefreshInv(r) ==
    /\ r.from \in DOMAIN cards
    /\ Covers(r.by, r.asked) /\ r.asked <= seconds
    /\ cards[r.from].issued <= settlement[r.by].at

PaidInv ==
    /\ \A c \in Calls : CallInv(c)
    /\ \A a \in Auths : SettledInv(a)
    /\ Len(cards) <= MaxCards
    /\ \A i \in DOMAIN cards : CardInv(i)
    /\ \A r \in refreshes : RefreshInv(r)

(* Only call c moves.                                                      *)
LEMMA MoveFacts ==
    ASSUME PaidTypeOK, NEW c \in Calls, NEW step \in CallSteps, Move(c, step)
    PROVE  /\ call' \in [Calls -> Call]
           /\ call'[c].pc = step /\ call'[c].auth = call[c].auth /\ call'[c].shape = call[c].shape
           /\ call'[c].card = call[c].card /\ call'[c].eligible = call[c].eligible
           /\ \A d \in Calls \ {c} : call'[d] = call[d]
<1>1. call \in [Calls -> Call] /\ call[c] \in Call
  BY DEF PaidTypeOK
<1> DEFINE next == [call[c] EXCEPT !.pc = step]
<1>2. /\ next \in Call /\ next.pc = step /\ next.auth = call[c].auth /\ next.shape = call[c].shape
      /\ next.card = call[c].card /\ next.eligible = call[c].eligible
  BY <1>1 DEF Call
<1>3. call' = [call EXCEPT ![c] = next]
  BY <1>1 DEF Move
<1> HIDE DEF next
<1> QED BY <1>1, <1>2, <1>3

(* A step of call c that settles and issues nothing.                       *)
LEMMA MovePaid ==
    ASSUME PaidTypeOK, PaidInv, NEW c \in Calls, NEW step \in CallSteps \ {"settled"}, Move(c, step),
           UNCHANGED <<service, settlement, cards, refreshes, seconds>>,
           gate' \in {"broken", "cold", "warming", "ready"},
           call[c].pc \in Final => call[c].pc = "settled" /\ step \in Final,
           step \in {"handler", "refetch"} => call[c].auth # NoAuth,
           step = "ok" => call[c].auth # NoAuth /\ Billable(c),
           step = "delivered" => call[c].pc = "settled"
    PROVE  PaidTypeOK' /\ PaidInv'
<1>1. /\ call' \in [Calls -> Call]
      /\ call'[c].pc = step /\ call'[c].auth = call[c].auth /\ call'[c].shape = call[c].shape
      /\ call'[c].card = call[c].card /\ call'[c].eligible = call[c].eligible
      /\ \A d \in Calls \ {c} : call'[d] = call[d]
  BY MoveFacts
<1>2. PaidTypeOK'
  BY <1>1 DEF PaidTypeOK
<1>3. \A d \in Calls : Billable(d)' <=> Billable(d)
  BY <1>1 DEF Billable
<1>4. \A d \in Calls : CallInv(d)'
  <2>1. CallInv(c)'
    BY <1>1, <1>3 DEF PaidInv, CallInv
  <2>2. \A d \in Calls \ {c} : CallInv(d)'
    BY <1>1, <1>3 DEF PaidInv, CallInv
  <2> QED BY <2>1, <2>2
<1>5. ASSUME NEW a \in Auths PROVE SettledInv(a)'
  <2> SUFFICES ASSUME settlement[a] # NoAuth PROVE SettledInv(a)'
    BY DEF SettledInv
  <2>1. settlement[a].call \in Calls
    BY DEF PaidTypeOK
  <2> QED BY <1>1, <1>3, <2>1 DEF PaidInv, SettledInv, Final
<1>6. \A i \in DOMAIN cards' : CardInv(i)'
  BY DEF PaidInv, CardInv, Covers
<1>7. \A r \in refreshes' : RefreshInv(r)'
  BY DEF PaidInv, RefreshInv, Covers
<1> QED BY <1>2, <1>4, <1>5, <1>6, <1>7 DEF PaidInv

(* Calls that have not reached the handler move, or none does.             *)
LEMMA EarlyPaid ==
    ASSUME PaidTypeOK, PaidInv, call' \in [Calls -> Call],
           UNCHANGED <<service, settlement, cards, refreshes, seconds>>,
           gate' \in {"broken", "cold", "warming", "ready"},
           \A c \in Calls : \/ call'[c] = call[c]
                            \/ call[c].pc \in {"new", "waiting"} /\ call'[c].pc \in {"refused", "gate", "x402"}
    PROVE  PaidTypeOK' /\ PaidInv'
<1>1. PaidTypeOK'
  BY DEF PaidTypeOK
<1>2. \A c \in Calls : CallInv(c)'
  BY DEF PaidInv, CallInv, Billable
<1>3. ASSUME NEW a \in Auths PROVE SettledInv(a)'
  <2> SUFFICES ASSUME settlement[a] # NoAuth PROVE SettledInv(a)'
    BY DEF SettledInv
  <2>1. settlement[a].call \in Calls /\ SettledInv(a)
    BY DEF PaidTypeOK, PaidInv
  <2>2. call'[settlement[a].call] = call[settlement[a].call]
    BY <2>1 DEF SettledInv, Final
  <2> QED BY <2>1, <2>2 DEF SettledInv, Billable
<1>4. (\A i \in DOMAIN cards' : CardInv(i)') /\ (\A r \in refreshes' : RefreshInv(r)')
  BY DEF PaidInv, CardInv, RefreshInv, Covers
<1> QED BY <1>1, <1>2, <1>3, <1>4 DEF PaidInv

LEMMA GatePaid ==
    ASSUME PaidTypeOK, PaidInv, Initialize \/ \E c \in Calls : Arrive(c)
    PROVE  PaidTypeOK' /\ PaidInv'
<1>1. CASE Initialize
  <2>1. PICK step \in {"x402", "refused"} :
            call' = [c \in Calls |-> IF call[c].pc = "waiting" THEN [call[c] EXCEPT !.pc = step] ELSE call[c]]
    BY <1>1 DEF Initialize
  <2>2. ASSUME NEW c \in Calls, call[c].pc = "waiting" PROVE call'[c] \in Call /\ call'[c].pc = step
    <3>1. call[c] \in Call
      BY DEF PaidTypeOK
    <3>2. [call[c] EXCEPT !.pc = step] \in Call /\ [call[c] EXCEPT !.pc = step].pc = step
      BY <3>1 DEF Call, CallSteps
    <3> QED BY <2>1, <2>2, <3>2
  <2>3. \A c \in Calls : call[c].pc # "waiting" => call'[c] = call[c] /\ call[c] \in Call
    BY <2>1 DEF PaidTypeOK
  <2>4. call' \in [Calls -> Call]
    BY <2>1, <2>2, <2>3
  <2>5. /\ UNCHANGED <<service, settlement, cards, refreshes, seconds>>
        /\ gate' \in {"broken", "cold", "warming", "ready"}
    BY <1>1 DEF Initialize
  <2>6. \A c \in Calls : \/ call'[c] = call[c]
                         \/ call[c].pc \in {"new", "waiting"} /\ call'[c].pc \in {"refused", "gate", "x402"}
    BY <2>2, <2>3
  <2> QED BY <2>4, <2>5, <2>6, EarlyPaid
<1>2. ASSUME NEW c \in Calls, Arrive(c) PROVE PaidTypeOK' /\ PaidInv'
  <2>1. PICK shape \in Shapes, auth \in Auths \cup {NoAuth}, passes \in BOOLEAN, step \in {"refused", "gate"} :
            call' = [call EXCEPT ![c] = [pc |-> step, shape |-> shape, auth |-> auth,
                                         eligible |-> passes, card |-> 0]]
    BY <1>2 DEF Arrive
  <2> DEFINE next == [pc |-> step, shape |-> shape, auth |-> auth, eligible |-> passes, card |-> 0]
  <2>2. next \in Call /\ next.pc = step
    BY PaidServiceBounds DEF Call, CallSteps
  <2> HIDE DEF next
  <2>3. call' \in [Calls -> Call] /\ call'[c].pc = step /\ \A d \in Calls \ {c} : call'[d] = call[d]
    BY <2>1, <2>2 DEF PaidTypeOK, next
  <2>4. gate' \in {"broken", "cold", "warming", "ready"}
    BY <1>2 DEF Arrive, PaidTypeOK
  <2> QED BY <1>2, <2>3, <2>4, EarlyPaid DEF Arrive
<1> QED BY <1>1, <1>2

(* A card is issued: the cards, the settlements and the refreshes before   *)
(* it stay what they were.                                                 *)
LEMMA NewCardFacts ==
    ASSUME PaidTypeOK, PaidInv, NEW from \in 0..MaxCards, NEW by \in Auths \cup {NoAuth}, NEW when \in Nat,
           NewCard(from, by, when), UNCHANGED <<settlement, seconds>>,
           when <= seconds,
           IF from = 0 THEN by = NoAuth
           ELSE /\ from \in DOMAIN cards
                /\ Covers(by, when)
                /\ cards[from].by = by => cards[from].issued = settlement[by].at
    PROVE  /\ cards' \in Seq(Card) /\ Len(cards') <= MaxCards
           /\ \A i \in DOMAIN cards' : CardInv(i)'
           /\ \A i \in DOMAIN cards : i \in DOMAIN cards' /\ cards'[i] = cards[i]
           /\ Len(cards) + 1 \in 1..MaxCards
<1> DEFINE new == [from |-> from, by |-> by, asked |-> when, issued |-> seconds]
<1>0. seconds \in Nat /\ cards \in Seq(Card) /\ MaxCards \in Nat
  BY PaidServiceBounds DEF PaidTypeOK
<1>1. new \in Card /\ new.from = from /\ new.by = by /\ new.asked = when /\ new.issued = seconds
  BY <1>0 DEF Card
<1>2. cards' = Append(cards, new) /\ Len(cards) < MaxCards
  BY DEF NewCard
<1> HIDE DEF new
<1>3. cards' \in Seq(Card) /\ Len(cards') = Len(cards) + 1 /\ Len(cards) \in Nat
  BY <1>0, <1>1, <1>2
<1>4. DOMAIN cards = 1..Len(cards) /\ DOMAIN cards' = 1..(Len(cards) + 1)
  BY <1>0, <1>3
<1>5. cards'[Len(cards) + 1] = new /\ \A i \in 1..Len(cards) : cards'[i] = cards[i]
  BY <1>0, <1>1, <1>2
<1> PICK n : n = Len(cards) + 1
  OBVIOUS
<1>6. /\ DOMAIN cards' = DOMAIN cards \cup {n} /\ cards'[n] = new /\ n \in 1..MaxCards
      /\ \A i \in DOMAIN cards : cards'[i] = cards[i]
  BY <1>0, <1>2, <1>3, <1>4, <1>5
<1>7. \A a, t : Covers(a, t)' <=> Covers(a, t)
  BY DEF Covers
<1>8. ASSUME NEW i \in DOMAIN cards PROVE CardInv(i)'
  BY <1>6, <1>7 DEF PaidInv, CardInv
<1>9. CardInv(n)'
  BY <1>0, <1>1, <1>6, <1>7 DEF CardInv
<1> QED BY <1>0, <1>2, <1>3, <1>6, <1>8, <1>9

LEMMA IssuePaid ==
    ASSUME PaidTypeOK, PaidInv, NEW c \in Calls, IssueOpen(c)
    PROVE  PaidTypeOK' /\ PaidInv'
<1>0. /\ call[c].pc = "handler" /\ MayCompile(c) /\ NewCard(0, NoAuth, seconds) /\ seconds \in Nat
      /\ UNCHANGED <<service, gate, settlement, refreshes, seconds>>
      /\ call' = [call EXCEPT ![c].pc = "ok", ![c].card = Len(cards) + 1]
      /\ call \in [Calls -> Call] /\ 0 \in 0..MaxCards
  BY PaidServiceBounds DEF IssueOpen, PaidTypeOK
<1>1. /\ cards' \in Seq(Card) /\ Len(cards') <= MaxCards
      /\ \A i \in DOMAIN cards' : CardInv(i)'
      /\ \A i \in DOMAIN cards : i \in DOMAIN cards' /\ cards'[i] = cards[i]
      /\ Len(cards) + 1 \in 1..MaxCards
  BY <1>0, NewCardFacts
<1> DEFINE next == [call[c] EXCEPT !.pc = "ok", !.card = Len(cards) + 1]
<1>2. /\ next \in Call /\ next.pc = "ok" /\ next.auth = call[c].auth /\ next.shape = call[c].shape
      /\ next.card = Len(cards) + 1 /\ next.eligible = call[c].eligible
  <2>1. call[c] \in Call /\ Len(cards) + 1 \in 0..MaxCards
    BY <1>0, <1>1
  <2> QED BY <2>1 DEF Call, CallSteps
<1>3. call' = [call EXCEPT ![c] = next]
  BY <1>0
<1> HIDE DEF next
<1>4. call' \in [Calls -> Call] /\ call'[c] = next /\ \A d \in Calls \ {c} : call'[d] = call[d]
  BY <1>0, <1>2, <1>3
<1>5. PaidTypeOK'
  BY <1>0, <1>1, <1>4 DEF PaidTypeOK
<1>6. Len(cards) + 1 # 0
  BY <1>1
<1>7. \A d \in Calls : CallInv(d)'
  <2>1. CallInv(c)'
    BY <1>0, <1>2, <1>4, <1>6 DEF PaidInv, CallInv, Billable, MayCompile
  <2>2. \A d \in Calls \ {c} : CallInv(d)'
    BY <1>0, <1>4 DEF PaidInv, CallInv, Billable
  <2> QED BY <2>1, <2>2
<1>8. ASSUME NEW a \in Auths PROVE SettledInv(a)'
  <2> SUFFICES ASSUME settlement[a] # NoAuth PROVE SettledInv(a)'
    BY <1>0 DEF SettledInv
  <2>1. settlement[a].call \in Calls /\ SettledInv(a)
    BY DEF PaidTypeOK, PaidInv
  <2>2. call'[settlement[a].call] = call[settlement[a].call]
    BY <1>0, <1>4, <2>1 DEF SettledInv, Final
  <2> QED BY <1>0, <2>1, <2>2 DEF SettledInv, Billable
<1>9. \A r \in refreshes' : RefreshInv(r)'
  BY <1>0, <1>1 DEF PaidInv, RefreshInv, Covers
<1> QED BY <1>1, <1>5, <1>7, <1>8, <1>9 DEF PaidInv

(* A call passes the gate, its authorization is verified, the manager      *)
(* answers, something fails, or the response is on its way.                *)
LEMMA StepPaid ==
    ASSUME PaidTypeOK, PaidInv, NEW c \in Calls,
           EnterGate(c) \/ VerifyAuthorization(c) \/ IssueManage(c) \/ HandlerFails(c) \/ Deliver(c)
    PROVE  PaidTypeOK' /\ PaidInv'
<1>1. CASE EnterGate(c)
  <2>1. PICK step \in {"refused", "x402", "waiting"} : Move(c, step)
    BY <1>1 DEF EnterGate
  <2>2. /\ call[c].pc = "gate" /\ UNCHANGED <<service, settlement, cards, refreshes, seconds>>
        /\ gate' \in {"broken", "cold", "warming", "ready"}
    BY <1>1 DEF EnterGate, PaidTypeOK
  <2> QED BY <2>1, <2>2, MovePaid DEF Final, CallSteps
<1>2. CASE VerifyAuthorization(c)
  <2>1. PICK step \in {"handler", "refused"} : Move(c, step) /\ (step = "handler" => call[c].auth # NoAuth)
    BY <1>2 DEF VerifyAuthorization
  <2>2. /\ call[c].pc = "x402" /\ UNCHANGED <<service, settlement, cards, refreshes, seconds>>
        /\ gate' \in {"broken", "cold", "warming", "ready"}
    BY <1>2 DEF VerifyAuthorization, PaidTypeOK
  <2> QED BY <2>1, <2>2, MovePaid DEF Final, CallSteps
<1>3. CASE IssueManage(c)
  <2>1. PICK step \in {"ok", "refetch"} : Move(c, step)
    BY <1>3 DEF IssueManage
  <2>2. /\ call[c].pc \in {"handler", "refetch"}
        /\ UNCHANGED <<service, settlement, cards, refreshes, seconds>>
        /\ gate' \in {"broken", "cold", "warming", "ready"}
    BY <1>3 DEF IssueManage, PaidTypeOK
  <2>3. call[c].auth # NoAuth /\ Billable(c)
    BY <1>3, <2>2 DEF PaidInv, CallInv, Billable, IssueManage
  <2> QED BY <2>1, <2>2, <2>3, MovePaid DEF Final, CallSteps
<1>4. CASE HandlerFails(c)
  <2>1. /\ call[c].pc \in {"handler", "refetch"} /\ Move(c, "refused")
        /\ UNCHANGED <<service, settlement, cards, refreshes, seconds>>
        /\ gate' \in {"broken", "cold", "warming", "ready"}
    BY <1>4 DEF HandlerFails, PaidTypeOK
  <2> QED BY <2>1, MovePaid DEF Final, CallSteps
<1>5. CASE Deliver(c)
  <2>1. PICK step \in {"delivered", "refused"} : Move(c, step)
    BY <1>5 DEF Deliver
  <2>2. /\ call[c].pc = "settled" /\ UNCHANGED <<service, settlement, cards, refreshes, seconds>>
        /\ gate' \in {"broken", "cold", "warming", "ready"}
    BY <1>5 DEF Deliver, PaidTypeOK
  <2> QED BY <2>1, <2>2, MovePaid DEF Final, CallSteps
<1> QED BY <1>1, <1>2, <1>3, <1>4, <1>5

(* An authorization settles for the call that sold a card for it; the      *)
(* payments that settled before, and what they bought, stand.              *)
LEMMA SettlePaid ==
    ASSUME PaidTypeOK, PaidInv, NEW c \in Calls, SettleAuthorization(c)
    PROVE  PaidTypeOK' /\ PaidInv'
<1>0. /\ call[c].pc = "ok" /\ UNCHANGED <<service, gate, cards, refreshes, seconds>>
      /\ gate' \in {"broken", "cold", "warming", "ready"} /\ seconds \in Nat
  BY PaidServiceBounds DEF SettleAuthorization, PaidTypeOK
<1>1. PICK a : a = call[c].auth
  OBVIOUS
<1>2. a \in Auths /\ Billable(c)
  <2>1. call[c] \in Call /\ CallInv(c)
    BY DEF PaidTypeOK, PaidInv
  <2> QED BY <1>0, <1>1, <2>1 DEF CallInv, Call
<1>3. CASE UNCHANGED settlement /\ Move(c, "refused")
  BY <1>0, <1>3, MovePaid DEF Final, CallSteps
<1>4. ASSUME settlement[a] = NoAuth, NEW step \in {"settled", "refused"}, Move(c, step),
             settlement' = [settlement EXCEPT ![a] = [call |-> c, at |-> seconds]]
      PROVE  PaidTypeOK' /\ PaidInv'
  <2>1. /\ call' \in [Calls -> Call]
        /\ call'[c].pc = step /\ call'[c].auth = call[c].auth /\ call'[c].shape = call[c].shape
        /\ call'[c].card = call[c].card /\ call'[c].eligible = call[c].eligible
        /\ \A d \in Calls \ {c} : call'[d] = call[d]
    BY <1>4, MoveFacts DEF CallSteps
  <2> DEFINE paid == [call |-> c, at |-> seconds]
  <2>2. /\ paid \in [call: Calls, at: Nat] /\ paid # NoAuth
        /\ paid.call = c /\ paid.at = seconds
    BY <1>0, NoAuthAssumption
  <2> HIDE DEF paid
  <2>3. /\ settlement' \in [Auths -> [call: Calls, at: Nat] \cup {NoAuth}]
        /\ settlement'[a] = paid /\ \A b \in Auths \ {a} : settlement'[b] = settlement[b]
    BY <1>2, <1>4, <2>2 DEF PaidTypeOK, paid
  <2>4. PaidTypeOK'
    BY <1>0, <2>1, <2>3 DEF PaidTypeOK
  <2>5. \A d \in Calls : Billable(d)' <=> Billable(d)
    BY <1>0, <2>1 DEF Billable
  <2>6. \A d \in Calls : CallInv(d)'
    <3>1. CallInv(c)'
      BY <1>1, <1>2, <1>4, <2>1, <2>2, <2>3 DEF CallInv
    <3>2. ASSUME NEW d \in Calls \ {c} PROVE CallInv(d)'
      <4>1. CallInv(d) /\ call'[d] = call[d]
        BY <2>1 DEF PaidInv
      <4>2. CASE call[d].pc \in {"settled", "delivered"}
        <5>1. call[d].auth \in Auths \ {a} /\ settlement'[call[d].auth] = settlement[call[d].auth]
          BY <1>4, <2>3, <4>1, <4>2 DEF CallInv
        <5> QED BY <4>1, <4>2, <5>1 DEF CallInv
      <4>3. CASE call[d].pc \notin {"settled", "delivered"}
        BY <2>5, <4>1, <4>3 DEF CallInv
      <4> QED BY <4>2, <4>3
    <3> QED BY <3>1, <3>2
  <2>7. ASSUME NEW b \in Auths PROVE SettledInv(b)'
    <3>1. CASE b = a
      BY <1>0, <1>1, <1>2, <1>4, <2>1, <2>2, <2>3, <2>5, <3>1 DEF SettledInv, Final
    <3>2. CASE b # a /\ settlement[b] # NoAuth
      <4>1. settlement'[b] = settlement[b] /\ settlement[b].call \in Calls /\ SettledInv(b)
        BY <2>3, <3>2 DEF PaidTypeOK, PaidInv
      <4>2. call'[settlement[b].call] = call[settlement[b].call]
        BY <1>0, <2>1, <3>2, <4>1 DEF SettledInv, Final
      <4> QED BY <1>0, <2>5, <3>2, <4>1, <4>2 DEF SettledInv
    <3>3. CASE b # a /\ settlement[b] = NoAuth
      BY <2>3, <3>3 DEF SettledInv
    <3> QED BY <3>1, <3>2, <3>3
  <2>8. \A b, t : Covers(b, t) => settlement'[b] = settlement[b] /\ Covers(b, t)'
    BY <1>4, <2>3 DEF Covers
  <2>9. \A i \in DOMAIN cards' : CardInv(i)'
    BY <1>0, <2>8 DEF PaidInv, CardInv
  <2>10. \A r \in refreshes' : RefreshInv(r)'
    BY <1>0, <2>8 DEF PaidInv, RefreshInv
  <2> QED BY <1>0, <2>4, <2>6, <2>7, <2>9, <2>10 DEF PaidInv
<1> QED BY <1>1, <1>3, <1>4 DEF SettleAuthorization, UnsettledAnswer

(* A refresh starts from a card issued no later than its payment settled.  *)
LEMMA AskPaid ==
    ASSUME PaidTypeOK, PaidInv, NEW a \in Auths, NEW i \in 1..MaxCards, AskRefresh(a, i)
    PROVE  PaidTypeOK' /\ PaidInv'
<1>0. /\ i \in DOMAIN cards /\ settlement[a] # NoAuth /\ PaysFor(a, i)
      /\ seconds \in settlement[a].at .. settlement[a].at + Window
      /\ UNCHANGED <<service, gate, call, settlement, cards, seconds>>
      /\ seconds \in Nat
  BY PaidServiceBounds DEF AskRefresh, Held, PaidTypeOK
<1>1. PICK r \in Refresh : refreshes' = {r} /\ r.from = i /\ r.by = a /\ r.asked = seconds
  <2> DEFINE new == [from |-> i, by |-> a, asked |-> seconds]
  <2>1. new \in Refresh /\ refreshes' = {new} /\ new.from = i /\ new.by = a /\ new.asked = seconds
    BY <1>0 DEF AskRefresh, Refresh
  <2> QED BY <2>1
<1>2. PaidTypeOK'
  BY <1>0, <1>1 DEF PaidTypeOK
<1>3. settlement[a].at \in Nat
  BY <1>0 DEF PaidTypeOK
<1>4. RefreshInv(r)'
  BY <1>0, <1>1, <1>3, PaidServiceBounds DEF RefreshInv, Covers, PaysFor
<1>5. (\A c \in Calls : CallInv(c)') /\ (\A b \in Auths : SettledInv(b)')
  BY <1>0 DEF PaidInv, CallInv, SettledInv, Billable
<1>6. \A j \in DOMAIN cards' : CardInv(j)'
  BY <1>0 DEF PaidInv, CardInv, Covers
<1> QED BY <1>0, <1>1, <1>2, <1>4, <1>5, <1>6 DEF PaidInv

(* The card refreshed was issued before its payment settled, a card that   *)
(* is free was issued after: of the two by one payment, neither waited.    *)
LEMMA AnswerPaid ==
    ASSUME PaidTypeOK, PaidInv, AnswerRefresh
    PROVE  PaidTypeOK' /\ PaidInv'
<1>0. PICK r \in refreshes : /\ refreshes' = {} /\ UNCHANGED <<service, gate, call, settlement, seconds>>
                             /\ NewCard(r.from, r.by, r.asked) \/ UNCHANGED cards
  BY DEF AnswerRefresh
<1>1. PICK from \in 1..MaxCards, by \in Auths, when \in Nat : r.from = from /\ r.by = by /\ r.asked = when
  BY DEF PaidTypeOK, Refresh
<1>2. /\ from \in DOMAIN cards /\ Covers(by, when) /\ when <= seconds
      /\ cards[from].issued <= settlement[by].at
  BY <1>1 DEF PaidInv, RefreshInv
<1>3. cards[from].by = by => cards[from].issued = settlement[by].at
  <2> SUFFICES ASSUME cards[from].by = by PROVE cards[from].issued = settlement[by].at
    OBVIOUS
  <2>1. by # NoAuth /\ CardInv(from)
    BY <1>2, NoAuthAssumption DEF PaidInv
  <2>2. Covers(by, cards[from].asked) /\ cards[from].asked <= cards[from].issued
    BY <2>1 DEF CardInv
  <2>3. settlement[by].at \in Nat /\ cards[from].asked \in Nat /\ cards[from].issued \in Nat
    <3>1. cards[from] \in Card
      BY <1>2 DEF PaidTypeOK
    <3>2. settlement[by] \in [call: Calls, at: Nat]
      BY <1>2 DEF PaidTypeOK, Covers
    <3> QED BY <3>1, <3>2 DEF Card
  <2> QED BY <1>2, <2>2, <2>3 DEF Covers
<1>4. (\A c \in Calls : CallInv(c)') /\ (\A b \in Auths : SettledInv(b)')
  BY <1>0 DEF PaidInv, CallInv, SettledInv, Billable
<1>5. CASE UNCHANGED cards
  <2>1. PaidTypeOK'
    BY <1>0, <1>5 DEF PaidTypeOK
  <2>2. \A i \in DOMAIN cards' : CardInv(i)'
    BY <1>0, <1>5 DEF PaidInv, CardInv, Covers
  <2> QED BY <1>0, <1>4, <1>5, <2>1, <2>2 DEF PaidInv
<1>6. CASE NewCard(r.from, r.by, r.asked)
  <2>1. NewCard(from, by, when) /\ from # 0 /\ from \in 0..MaxCards
    BY <1>1, <1>6, PaidServiceBounds
  <2>2. /\ cards' \in Seq(Card) /\ Len(cards') <= MaxCards
        /\ \A i \in DOMAIN cards' : CardInv(i)'
    BY <1>0, <1>2, <1>3, <2>1, NewCardFacts
  <2>3. PaidTypeOK'
    BY <1>0, <2>2 DEF PaidTypeOK
  <2> QED BY <1>0, <1>4, <2>2, <2>3 DEF PaidInv
<1> QED BY <1>0, <1>5, <1>6

LEMMA SecondPaid ==
    ASSUME PaidTypeOK, PaidInv, Second
    PROVE  PaidTypeOK' /\ PaidInv'
<1>1. /\ UNCHANGED <<service, gate, call, settlement, cards, refreshes>>
      /\ seconds' = seconds + 1 /\ seconds \in Nat /\ seconds' \in 0..MaxSeconds
  BY PaidServiceBounds DEF Second, PaidTypeOK
<1>2. PaidTypeOK'
  BY <1>1 DEF PaidTypeOK
<1>3. \A c \in Calls : CallInv(c)'
  BY <1>1 DEF PaidInv, CallInv, Billable
<1>4. ASSUME NEW a \in Auths PROVE SettledInv(a)'
  <2> SUFFICES ASSUME settlement[a] # NoAuth PROVE SettledInv(a)'
    BY <1>1 DEF SettledInv
  <2>1. settlement[a].at \in Nat /\ settlement[a].at <= seconds
    BY DEF PaidTypeOK, PaidInv, SettledInv
  <2>2. settlement[a].at <= seconds'
    BY <1>1, <2>1
  <2> QED BY <1>1, <2>2 DEF PaidInv, SettledInv, Billable
<1>5. ASSUME NEW i \in DOMAIN cards PROVE CardInv(i)'
  <2>1. cards[i].issued \in Nat
    <3>1. cards[i] \in Card
      BY DEF PaidTypeOK
    <3> QED BY <3>1 DEF Card
  <2>2. cards[i].issued <= seconds'
    BY <1>1, <2>1 DEF PaidInv, CardInv
  <2> QED BY <1>1, <2>2 DEF PaidInv, CardInv, Covers
<1>6. ASSUME NEW r \in refreshes PROVE RefreshInv(r)'
  <2>1. r.asked \in Nat
    BY DEF PaidTypeOK, Refresh
  <2>2. r.asked <= seconds'
    BY <1>1, <2>1 DEF PaidInv, RefreshInv
  <2> QED BY <1>1, <2>2 DEF PaidInv, RefreshInv, Covers
<1> QED BY <1>1, <1>2, <1>3, <1>4, <1>5, <1>6 DEF PaidInv

(* The service keeps its types and the record of what it sold: nobody pays *)
(* for less than a card, and a free card is always covered by a payment    *)
(* that settled before it was asked for.                                   *)
THEOREM ServiceKeepsAccounts == PaidSpec => [](PaidTypeOK /\ PaidInv)
<1>1. ServiceInit => PaidTypeOK /\ PaidInv
  <2> SUFFICES ASSUME ServiceInit PROVE PaidTypeOK /\ PaidInv
    OBVIOUS
  <2>1. Unsent \in Call /\ Unsent.pc = "new"
    BY PaidServiceBounds DEF Unsent, Call, CallSteps, Shapes
  <2>2. PaidTypeOK
    BY <2>1, PaidServiceBounds DEF ServiceInit, PaidTypeOK
  <2>3. \A c \in Calls : CallInv(c)
    BY <2>1 DEF ServiceInit, CallInv
  <2>4. \A a \in Auths : SettledInv(a)
    BY DEF ServiceInit, SettledInv
  <2>5. Len(cards) <= MaxCards /\ DOMAIN cards = {} /\ refreshes = {}
    BY PaidServiceBounds DEF ServiceInit
  <2> QED BY <2>2, <2>3, <2>4, <2>5 DEF PaidInv
<1>2. PaidTypeOK /\ PaidInv /\ [PaidNext]_paidVars => (PaidTypeOK /\ PaidInv)'
  <2> SUFFICES ASSUME PaidTypeOK, PaidInv, [PaidNext]_paidVars PROVE PaidTypeOK' /\ PaidInv'
    OBVIOUS
  <2>1. CASE UNCHANGED paidVars
    BY <2>1 DEF paidVars, PaidTypeOK, PaidInv, CallInv, SettledInv, CardInv, RefreshInv, Covers, Billable
  <2>2. CASE Initialize \/ \E c \in Calls : Arrive(c)
    BY <2>2, GatePaid
  <2>3. ASSUME NEW c \in Calls, Answering(c) PROVE PaidTypeOK' /\ PaidInv'
    BY <2>3, StepPaid, IssuePaid, SettlePaid DEF Answering
  <2>4. CASE \E a \in Auths, i \in 1..MaxCards : AskRefresh(a, i)
    BY <2>4, AskPaid
  <2>5. CASE AnswerRefresh
    BY <2>5, AnswerPaid
  <2>6. CASE Second
    BY <2>6, SecondPaid
  <2> QED BY <2>1, <2>2, <2>3, <2>4, <2>5, <2>6 DEF PaidNext
<1> QED BY <1>1, <1>2, PTL DEF PaidSpec

(* Money and cards go together: a settled authorization paid for a card    *)
(* its own call had issued, and a buyer holds a card only when the call    *)
(* that brought it was paid (src/service-payment.mjs, requirePayment).     *)
THEOREM ChargesBuyCards == PaidSpec => []ChargedOnlyForCard
<1>1. PaidTypeOK /\ PaidInv => ChargedOnlyForCard
  BY DEF PaidTypeOK, PaidInv, CallInv, SettledInv, Billable, ChargedOnlyForCard
<1> QED BY <1>1, ServiceKeepsAccounts, PTL

(* A payment buys one window of refreshes, and the cards refreshed under   *)
(* it do not renew it (src/open-card-refresh.mjs).                         *)
THEOREM FreeCardsAreUnchained == PaidSpec => []FreeCardsDoNotChain
<1>1. PaidTypeOK /\ PaidInv => FreeCardsDoNotChain
  BY DEF PaidTypeOK, PaidInv, CardInv, Covers, FreeCardsDoNotChain
<1> QED BY <1>1, ServiceKeepsAccounts, PTL

-----------------------------------------------------------------------------
(* The services together *)

(* One step of all parts is a step of each or leaves it as it is.          *)
LEMMA PartsStep ==
    ASSUME [ServicesNext]_servicesVars
    PROVE  /\ [Next]_vars /\ [PaidNext]_paidVars /\ [ReadsNext]_readVars /\ [SetupNext]_setupVars
           /\ [ProbeNext]_probeVars /\ [EconomicsNext]_cardVars /\ [JourneyNext]_journeyVars
           /\ part' = part
<1> USE DEF RunTakeProfit, RunPaid, RunReads, RunSetup, RunProbe, RunEconomics, RunJourney
<1>1. CASE ServicesNext
  BY <1>1 DEF ServicesNext
<1>2. CASE UNCHANGED servicesVars
  BY <1>2 DEF servicesVars
<1> QED BY <1>1, <1>2

(* Whatever part runs, all of them keep to their own specifications.       *)
LEMMA PartsRun ==
    ServicesSpec => Spec /\ PaidSpec /\ ReadsSpec /\ SetupSpec /\ ProbeSpec /\ EconomicsSpec /\ JourneySpec
<1>1. ServicesInit => /\ Init /\ ServiceInit /\ ReadsInit /\ SetupInit /\ ProbeInit /\ EconomicsInit /\ JourneyInit
  BY DEF ServicesInit
<1>2. [ServicesNext]_servicesVars =>
         /\ [Next]_vars /\ [PaidNext]_paidVars /\ [ReadsNext]_readVars /\ [SetupNext]_setupVars
         /\ [ProbeNext]_probeVars /\ [EconomicsNext]_cardVars /\ [JourneyNext]_journeyVars
  BY PartsStep
<1> QED BY <1>1, <1>2, PTL DEF ServicesSpec, Spec, PaidSpec, ReadsSpec, SetupSpec, ProbeSpec, EconomicsSpec,
                               JourneySpec

(* Every part keeps its types.                                             *)
THEOREM ServicesTypes == ServicesSpec => []ServicesTypeOK
<1>1. ServicesInit => part \in Parts
  BY DEF ServicesInit
<1>2. part \in Parts /\ [ServicesNext]_servicesVars => (part \in Parts)'
  BY PartsStep
<1>3. ServicesSpec => [](part \in Parts)
  BY <1>1, <1>2, PTL DEF ServicesSpec
<1>4. /\ part \in Parts /\ TypeOK /\ PaidTypeOK /\ ReadsTypeOK /\ SetupTypeOK /\ ProbeTypeOK
      /\ EconomicsTypeOK /\ JourneyTypeOK
      => ServicesTypeOK
  BY DEF ServicesTypeOK
<1> QED BY <1>3, <1>4, PartsRun, TakeProfitTypes, ServiceKeepsAccounts, ReadsKeepCount, ConsentsDeployOnce,
           ProbesFresh, EconomicsAgree, JourneyTypes, PTL

(* And every part keeps its promises: what is proved of a part alone holds *)
(* of the system of all of them, whichever part runs.                      *)
THEOREM ServicesHold ==
    ServicesSpec => [](/\ ChargedOnlyForCard /\ FreeCardsDoNotChain /\ PublicReadsSound
                       /\ OneDeploymentPerConsent /\ ProbeAnswersFresh /\ EconomicsSound
                       /\ SentAsConfirmed /\ ProofIsOfTheOrder)
BY PartsRun, ChargesBuyCards, FreeCardsAreUnchained, PublicReadsAreSound, ConsentsDeployOnce, ProbesFresh,
   EconomicsHold, OrdersAreAsConfirmed, ProofsAreOfTheOrder, PTL
=============================================================================
