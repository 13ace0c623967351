---------------------------- MODULE BuilderProbe ----------------------------
(***************************************************************************)
(* createBuilderAuthorizationProbe of src/wallet-setup-handler.mjs: every  *)
(* server instance answers whether the relayer accepts the builder's       *)
(* credentials from a local cache, or from a status record in the shared   *)
(* store, or by one probe of the relayer under a lock with a lifetime.     *)
(***************************************************************************)
EXTENDS Naturals

CONSTANTS
    Instances,   \* server instances
    CacheTtl,    \* life of a status record, and of a cached one at most
    LockTtl,     \* life of the probe lock
    Absent,      \* no record, no answer
    MaxClock     \* bound on the clock

ASSUME BuilderProbeBounds == {CacheTtl, LockTtl, MaxClock} \subseteq Nat \ {0}

(* A status is known by when its probe ended, whatever it said; its record *)
(* expires CacheTtl later, and no later than the store forgets it.         *)
Status == Nat

Expires(record) == record + CacheTtl

(* An instance at rest; asking the store; claiming the lock; asking the    *)
(* store again as a contender; at the relayer; about to store its result.  *)
Instance == [pc: {"rest", "lookup", "claim", "contend", "relayer", "persist"}, began: Nat,
             cached: Status \cup {Absent}, cachedUntil: Nat]

VARIABLES
    instance,   \* each instance
    status,     \* the store: the status record
    lockUntil,  \* the store: until when the probe lock lives
    clock       \* the time

probeVars == <<instance, status, lockUntil, clock>>

Unused == [pc |-> "rest", began |-> 0, cached |-> Absent, cachedUntil |-> 0]

ProbeInit ==
    /\ instance = [i \in Instances |-> Unused]
    /\ status = Absent
    /\ lockUntil = 0
    /\ clock = 0

At(i, step) == instance[i].pc = step

To(i, step) == instance' = [instance EXCEPT ![i].pc = step]

(* The answer the instance gives without asking anyone.                    *)
Fresh(i) == instance[i].cached # Absent /\ clock < instance[i].cachedUntil

(* A request finds no fresh answer: it starts the lookup that requests     *)
(* arriving meanwhile share (inFlight), and will not use the stale one.    *)
BeginLookup(i) ==
    /\ At(i, "rest")
    /\ ~Fresh(i)
    /\ instance' = [instance EXCEPT ![i] = [Unused EXCEPT !.pc = "lookup", !.began = clock]]
    /\ UNCHANGED <<status, lockUntil, clock>>

(* cachedAuthorization: the store may still hold a record that has expired. *)
Stored == IF status # Absent /\ Expires(status) > clock THEN status ELSE Absent

(* Mutation: every record read starts a full local lifetime.               *)
CachedUntilFull(record, from) == from + CacheTtl

(* cacheRecord: never longer than the record itself.                       *)
CachedUntil(record, from) == IF from + CacheTtl < Expires(record) THEN from + CacheTtl ELSE Expires(record)

Cache(i, record, from) ==
    instance' = [instance EXCEPT ![i] = [Unused EXCEPT !.cached = record, !.cachedUntil = CachedUntil(record, from)]]

Lookup(i) ==
    /\ At(i, "lookup")
    /\ IF Stored # Absent THEN Cache(i, Stored, clock) ELSE To(i, "claim")
    /\ UNCHANGED <<status, lockUntil, clock>>

LockFree == lockUntil <= clock

ClaimProbe(i) ==
    /\ At(i, "claim")
    /\ IF LockFree THEN lockUntil' = clock + LockTtl /\ To(i, "relayer")
       ELSE UNCHANGED lockUntil /\ To(i, "contend")
    /\ UNCHANGED <<status, clock>>

(* The contender reads the winner's record, or answers "pending".          *)
Contend(i) ==
    /\ At(i, "contend")
    /\ IF Stored # Absent THEN Cache(i, Stored, clock) ELSE instance' = [instance EXCEPT ![i] = Unused]
    /\ UNCHANGED <<status, lockUntil, clock>>

(* The relayer accepts the credentials, or refuses or fails.               *)
Probe(i) ==
    /\ At(i, "relayer")
    /\ instance' = [instance EXCEPT ![i].pc = "persist", ![i].cached = clock]
    /\ UNCHANGED <<status, lockUntil, clock>>

(* persistAuthorization is best effort; the local copy counts from the     *)
(* time the lookup began.                                                  *)
Persist(i) ==
    /\ At(i, "persist")
    /\ status' \in {instance[i].cached, status}
    /\ Cache(i, instance[i].cached, instance[i].began)
    /\ UNCHANGED <<lockUntil, clock>>

(* The store fails, or the process is cut off: the lookup answers "no", or *)
(* the instance starts anew.                                               *)
LookupFails(i) ==
    /\ ~At(i, "rest")
    /\ instance' = [instance EXCEPT ![i] = Unused]
    /\ UNCHANGED <<status, lockUntil, clock>>

ClockTicks ==
    /\ clock < MaxClock
    /\ clock' = clock + 1
    /\ UNCHANGED <<instance, status, lockUntil>>

Looked(i) == Lookup(i) \/ ClaimProbe(i) \/ Contend(i) \/ Probe(i) \/ Persist(i)

ProbeNext == ClockTicks \/ \E i \in Instances : BeginLookup(i) \/ Looked(i) \/ LookupFails(i)

ProbeSpec == ProbeInit /\ [][ProbeNext]_probeVars

-----------------------------------------------------------------------------
(* Properties *)

ProbeTypeOK ==
    /\ instance \in [Instances -> Instance]
    /\ status \in Status \cup {Absent}
    /\ lockUntil \in Nat
    /\ clock \in 0..MaxClock

(* No instance answers from a probe that ended CacheTtl ago or more,       *)
(* through however many copies the answer went; and the relayer is asked   *)
(* twice at a time only if the older probe has outlived its lock.          *)
ProbeAnswersFresh ==
    /\ \A i \in Instances : Fresh(i) => clock < instance[i].cached + CacheTtl
    /\ \A i, j \in Instances :
          i # j /\ At(i, "relayer") /\ At(j, "relayer") =>
             instance[i].began + LockTtl <= clock \/ instance[j].began + LockTtl <= clock
=============================================================================
