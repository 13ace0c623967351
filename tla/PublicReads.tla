---------------------------- MODULE PublicReads ----------------------------
(***************************************************************************)
(* The free read routes, api/market.js and api/preview.js: every request   *)
(* passes the guard of src/public-api-guard.mjs and reads through the      *)
(* cache of src/short-cache.mjs, publicGuard.run(() => cache.get(key, ..)). *)
(* One process serves them, so a step here is what runs between two        *)
(* awaits; the only await is the loader's.  Both Maps keep insertion order *)
(* and are sequences here.                                                 *)
(***************************************************************************)
EXTENDS Naturals, Sequences, FiniteSets, SequencesExt, SequenceFilter

CONSTANTS
    Reads,        \* requests
    Clients,      \* client addresses
    Markets,      \* cache keys
    Nothing,      \* no key or load yet
    Limit,        \* guard: requests of a client in a window
    WindowTicks,  \* guard: length of the window
    MaxInFlight,  \* guard: requests being served at once
    MaxClients,   \* guard: windows remembered
    MaxEntries,   \* cache: entries
    TtlTicks,     \* cache: life of a value after it was loaded
    MaxTicks      \* bound on the clock

ASSUME PublicReadsBounds ==
    /\ {Limit, WindowTicks, MaxInFlight, MaxClients, MaxEntries, TtlTicks} \subseteq Nat \ {0}
    /\ MaxTicks \in Nat

(* A read waits for the load that the read `load` started, maybe itself.   *)
(* It is answered with a value of age ticks, or with an error status.      *)
Read == [pc: {"unasked", "waiting", "answered", "failed"}, market: Markets \cup {Nothing},
         load: Reads \cup {Nothing}, age: Nat]

Bucket == [client: Clients, count: Nat, resetAt: Nat]
Entry == [market: Markets, load: Reads \cup {Nothing}, expiresAt: Nat]

VARIABLES
    read,      \* each request
    buckets,   \* the windows of the clients, oldest first
    inFlight,  \* the guard's count of requests being served
    entries,   \* the cache, oldest first
    ticks      \* the clock

readVars == <<read, buckets, inFlight, entries, ticks>>

ReadsInit ==
    /\ read = [r \in Reads |-> [pc |-> "unasked", market |-> Nothing, load |-> Nothing, age |-> 0]]
    /\ buckets = <<>>
    /\ inFlight = 0
    /\ entries = <<>>
    /\ ticks = 0

-----------------------------------------------------------------------------
(* The guard *)

BucketOf(client) == {i \in DOMAIN buckets : buckets[i].client = client}

OpenWindows == Kept(buckets, {b \in Bucket : b.resetAt > ticks})

(* makeBucket: a full Map first loses the closed windows, then the oldest. *)
Evicted == LET full == Len(OpenWindows) - (MaxClients - 1)
           IN  SubSeq(OpenWindows, IF full > 0 THEN full + 1 ELSE 1, Len(OpenWindows))

NewBucket(client) ==
    LET bucket == [client |-> client, count |-> 1, resetAt |-> ticks + WindowTicks]
    IN  IF BucketOf(client) # {} THEN [i \in DOMAIN buckets |-> IF i \in BucketOf(client) THEN bucket ELSE buckets[i]]
        ELSE Append(IF Len(buckets) >= MaxClients THEN Evicted ELSE buckets, bucket)

HasWindow(client) == \E i \in BucketOf(client) : buckets[i].resetAt > ticks

RateLimited(client) == \E i \in BucketOf(client) : buckets[i].resetAt > ticks /\ buckets[i].count >= Limit

(* inspect counts the request before it looks at the capacity.             *)
Counted(client) ==
    IF RateLimited(client) THEN buckets
    ELSE IF HasWindow(client)
    THEN [i \in DOMAIN buckets |-> IF i \in BucketOf(client) THEN [buckets[i] EXCEPT !.count = @ + 1] ELSE buckets[i]]
    ELSE NewBucket(client)

Admitted(client) == ~RateLimited(client) /\ inFlight < MaxInFlight

-----------------------------------------------------------------------------
(* The cache *)

EntryOf(market) == {i \in DOMAIN entries : entries[i].market = market}

Without(market) == Kept(entries, {e \in Entry : e.market # market})

(* While the cache is full its oldest settled entry goes; loads stay.      *)
Room(seq) ==
    LET settled == {i \in DOMAIN seq : seq[i].load = Nothing}
        oldest == CHOOSE i \in settled : \A j \in settled : i <= j
    IN  IF Len(seq) >= MaxEntries /\ settled # {} THEN RemoveAt(seq, oldest) ELSE seq

Pruned(market) == Room(Kept(Without(market), {e \in Entry : e.load # Nothing \/ e.expiresAt > ticks}))

Set(r, new) == read' = [read EXCEPT ![r] = new]

(* A load in flight is joined; a live value is served and becomes the      *)
(* youngest; else a load starts, in the cache unless it is full of loads.  *)
Get(r, asked) ==
    \/ \E i \in EntryOf(asked.market) :
          /\ entries[i].load # Nothing
          /\ Set(r, [asked EXCEPT !.pc = "waiting", !.load = entries[i].load])
          /\ inFlight' = inFlight + 1
          /\ UNCHANGED entries
    \/ \E i \in EntryOf(asked.market) :
          /\ entries[i].load = Nothing
          /\ entries[i].expiresAt > ticks
          /\ Set(r, [asked EXCEPT !.pc = "answered", !.age = ticks + TtlTicks - entries[i].expiresAt])
          /\ entries' = Append(Without(asked.market), entries[i])
          /\ UNCHANGED inFlight
    \/ /\ \A i \in EntryOf(asked.market) : entries[i].load = Nothing /\ entries[i].expiresAt <= ticks
       /\ Set(r, [asked EXCEPT !.pc = "waiting", !.load = r])
       /\ entries' = IF Len(Pruned(asked.market)) < MaxEntries
                     THEN Append(Pruned(asked.market), [market |-> asked.market, load |-> r, expiresAt |-> 0])
                     ELSE Pruned(asked.market)
       /\ inFlight' = inFlight + 1

Ask(r) ==
    /\ read[r].pc = "unasked"
    /\ \E client \in Clients, market \in Markets :
          LET asked == [read[r] EXCEPT !.market = market]
          IN  /\ buckets' = Counted(client)
              /\ IF Admitted(client) THEN Get(r, asked)
                 ELSE Set(r, [asked EXCEPT !.pc = "failed"]) /\ UNCHANGED <<inFlight, entries>>
    /\ UNCHANGED ticks

Waiting(load) == {r \in Reads : read[r].pc = "waiting" /\ read[r].load = load}

(* Mutation: a failed load is left in the cache.                           *)
AfterLoadKept(r, ok) ==
    [i \in DOMAIN entries |-> IF entries[i].load = r /\ ok
                              THEN [entries[i] EXCEPT !.load = Nothing, !.expiresAt = ticks + TtlTicks]
                              ELSE entries[i]]

(* A loaded value lives from the end of its load; a failed load is gone.   *)
AfterLoad(r, ok) ==
    IF ok THEN [i \in DOMAIN entries |-> IF entries[i].load = r
                                         THEN [entries[i] EXCEPT !.load = Nothing, !.expiresAt = ticks + TtlTicks]
                                         ELSE entries[i]]
    ELSE Kept(entries, {e \in Entry : e.load # r})

(* The loader of r settles: the entry is updated and every read that waits *)
(* is answered, and leaves the guard, in the same run of microtasks.       *)
LoadEnds(r) ==
    /\ r \in Waiting(r)
    /\ \E ok \in BOOLEAN :
          /\ entries' = AfterLoad(r, ok)
          /\ read' = [q \in Reads |-> IF q \in Waiting(r)
                                      THEN [read[q] EXCEPT !.pc = IF ok THEN "answered" ELSE "failed"]
                                      ELSE read[q]]
    /\ inFlight' = inFlight - Cardinality(Waiting(r))
    /\ UNCHANGED <<buckets, ticks>>

Tick ==
    /\ ticks < MaxTicks
    /\ ticks' = ticks + 1
    /\ UNCHANGED <<read, buckets, inFlight, entries>>

ReadsNext == Tick \/ \E r \in Reads : Ask(r) \/ LoadEnds(r)

ReadsSpec == ReadsInit /\ [][ReadsNext]_readVars

-----------------------------------------------------------------------------
(* Properties *)

ReadsTypeOK ==
    /\ read \in [Reads -> Read]
    /\ buckets \in Seq(Bucket)
    /\ inFlight \in Nat
    /\ entries \in Seq(Entry)
    /\ ticks \in 0..MaxTicks

(* The limits hold together under any order of requests, loads and         *)
(* failures: the guard's count is the requests really waiting, the Maps    *)
(* keep within their sizes with one entry per key, no value older than its *)
(* life is served, and a load in the cache is one that will still end, for *)
(* the same key, so that nobody joins a load that is gone.                 *)
PublicReadsSound ==
    /\ inFlight = Cardinality({r \in Reads : read[r].pc = "waiting"})
    /\ inFlight <= MaxInFlight
    /\ Len(buckets) <= MaxClients
    /\ \A i \in DOMAIN buckets : buckets[i].count <= Limit
    /\ Len(entries) <= MaxEntries
    /\ \A i, j \in DOMAIN entries : entries[i].market = entries[j].market => i = j
    /\ \A r \in Reads : read[r].pc = "answered" => read[r].age < TtlTicks
    /\ \A i \in DOMAIN entries : LET l == entries[i].load
                                 IN  l # Nothing => l \in Waiting(l) /\ read[l].market = entries[i].market
=============================================================================
