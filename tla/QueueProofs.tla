---------------------------- MODULE QueueProofs -----------------------------
(***************************************************************************)
(* Proofs about the two services that keep sequences: the public reads with *)
(* their rate windows and cache entries, and the operator scripts with     *)
(* their outbox, for any number of clients, reads, messages and deaths.    *)
(* First, what filtering a sequence leaves of it.                          *)
(***************************************************************************)
EXTENDS PublicReads, Outbox, SequenceTheorems, FiniteSetTheorems, NaturalsInduction, WellFoundedInduction, TLAPS

-----------------------------------------------------------------------------
(* Filters *)

(* The least-number principle, for a set.                                  *)
LEMMA LeastIndex ==
    ASSUME NEW T \in SUBSET Nat, T # {}
    PROVE  \E n \in T : \A m \in T : n <= m
<1> DEFINE R == OpToRel(<, Nat)
<1>1. IsWellFoundedOn(R, Nat)
  BY NatLessThanWellFounded
<1>2. PICK n \in T : \A m \in T : <<m, n>> \notin R
  <2> HIDE DEF R
  <2> QED BY <1>1, WFMin
<1>3. \A m \in T : ~(m < n)
  BY <1>2 DEF OpToRel
<1> HIDE DEF R
<1> QED BY <1>2, <1>3

(* Induction on the numbers of a set: it holds 0 and what follows each.    *)
LEMMA NatInductionSet ==
    ASSUME NEW n \in Nat, NEW T, 0 \in T, \A m \in 0..(n - 1) : m \in T => m + 1 \in T
    PROVE  0..n \subseteq T
<1> SUFFICES ASSUME ~(0..n \subseteq T)
             PROVE  FALSE
  OBVIOUS
<1> DEFINE Bad == {m \in 0..n : m \notin T}
<1>1. Bad \in SUBSET Nat /\ Bad # {}
  OBVIOUS
<1> HIDE DEF Bad
<1>2. PICK m \in Bad : \A k \in Bad : m <= k
  BY <1>1, LeastIndex
<1> USE DEF Bad
<1>3. m \in 1..n
  BY <1>2
<1>4. m - 1 \in 0..(n - 1) /\ m - 1 \notin Bad /\ (m - 1) + 1 = m
  BY <1>2, <1>3
<1>5. m - 1 \in T
  BY <1>4
<1> QED BY <1>2, <1>4, <1>5

(* One step of the filter.                                                 *)
FilterStep(seq, set, n, before) == IF seq[n] \in set THEN Append(before, seq[n]) ELSE before

(* The filter of the first n elements, as a function.                      *)
FilterOf(seq, set, n, f) == f = [m \in 0..n |-> IF m = 0 THEN <<>> ELSE FilterStep(seq, set, m, f[m - 1])]

(* It exists.                                                              *)
LEMMA FilterExists ==
    ASSUME NEW seq, NEW set, NEW n \in Nat
    PROVE  \E f : FilterOf(seq, set, n, f)
<1> USE DEF FilterOf
<1> DEFINE IsFilter(f, m) == FilterOf(seq, set, m, f)
           T == {m \in Nat : \E f : IsFilter(f, m)}
<1>1. 0 \in T
  <2> DEFINE f == [k \in 0..0 |-> <<>>]
  <2>1. IsFilter(f, 0)
    OBVIOUS
  <2> QED BY <2>1
<1>2. ASSUME NEW m \in 0..(n - 1), m \in T
      PROVE  m + 1 \in T
  <2>1. PICK f : IsFilter(f, m)
    BY <1>2
  <2> DEFINE g == [k \in 0..(m + 1) |-> IF k = m + 1 THEN FilterStep(seq, set, k, f[m]) ELSE f[k]]
  <2>2. \A k \in 0..(m + 1) : g[k] = IF k = 0 THEN <<>> ELSE FilterStep(seq, set, k, g[k - 1])
    <3> TAKE k \in 0..(m + 1)
    <3>1. CASE k = m + 1
      BY <3>1
    <3>2. CASE k # m + 1 /\ k # 0
      <4>1. k \in 0..m /\ k - 1 \in 0..m /\ g[k] = f[k] /\ g[k - 1] = f[k - 1]
        BY <3>2
      <4>2. f[k] = FilterStep(seq, set, k, f[k - 1])
        BY <2>1, <3>2, <4>1
      <4> QED BY <3>2, <4>1, <4>2
    <3>3. CASE k = 0
      <4>1. k # m + 1 /\ k \in 0..m
        BY <3>3
      <4> QED BY <2>1, <3>3, <4>1
    <3> QED BY <3>1, <3>2, <3>3
  <2>3. \E h : IsFilter(h, m + 1)
    BY <2>2
  <2> HIDE DEF IsFilter
  <2> QED BY <2>3
<1>3. n \in T
  <2> HIDE DEF T
  <2> QED BY <1>1, <1>2, NatInductionSet
<1> QED BY <1>3

Chosen(seq, set) == CHOOSE f : FilterOf(seq, set, Len(seq), f)

(* What is kept of the first n elements: at[k] is where the k-th was.      *)
Comes(seq, set, n, part) ==
    /\ Len(part) <= n
    /\ (\E i \in 1..n : seq[i] \notin set) => Len(part) < n
    /\ \A i \in 1..n : seq[i] \in set => \E k \in 1..Len(part) : part[k] = seq[i]
    /\ \E at \in [1..Len(part) -> 1..n] :
          /\ \A k \in 1..Len(part) : part[k] = seq[at[k]]
          /\ \A k, l \in 1..Len(part) : k < l => at[k] < at[l]

LEMMA KeptFacts ==
    ASSUME NEW X, NEW seq \in Seq(X), NEW set
    PROVE  /\ Kept(seq, set) \in Seq(X \cap set)
           /\ Comes(seq, set, Len(seq), Kept(seq, set))
<1> DEFINE len == Len(seq)
           f == Chosen(seq, set)
<1>1. len \in Nat /\ \A i \in 1..len : seq[i] \in X
  OBVIOUS
<1>2. f = [m \in 0..len |-> IF m = 0 THEN <<>> ELSE FilterStep(seq, set, m, f[m - 1])]
  <2>1. FilterOf(seq, set, len, f)
    BY <1>1, FilterExists DEF Chosen
  <2> QED BY <2>1 DEF FilterOf
<1>3. Kept(seq, set) = f[len]
  BY DEF Kept, Chosen, FilterOf, FilterStep
<1> HIDE DEF f
<1> DEFINE T == {m \in Nat : m <= len => f[m] \in Seq(X \cap set) /\ Comes(seq, set, m, f[m])}
<1>4. 0 \in T
  <2>1. f[0] = <<>>
    BY <1>1, <1>2
  <2>2. Comes(seq, set, 0, <<>>)
    <3> DEFINE at == [k \in 1..0 |-> k]
    <3>1. PICK none : none = <<>> /\ Len(none) = 0
      OBVIOUS
    <3>2. at \in [1..Len(none) -> 1..0] /\ \A k \in 1..Len(none) : FALSE
      BY <3>1
    <3>3. /\ Len(none) <= 0 /\ ~\E i \in 1..0 : seq[i] \notin set
          /\ \A i \in 1..0 : seq[i] \in set => \E k \in 1..Len(none) : none[k] = seq[i]
      BY <3>1
    <3> HIDE DEF at
    <3> QED BY <3>1, <3>2, <3>3, Zenon DEF Comes
  <2>3. <<>> \in Seq(X \cap set)
    OBVIOUS
  <2> QED BY <2>1, <2>2, <2>3
<1>5. ASSUME NEW m \in 0..(len - 1), m \in T
      PROVE  m + 1 \in T
  <2> DEFINE n == m + 1
             part == f[m]
  <2>1. n \in 1..len /\ f[n] = FilterStep(seq, set, n, part) /\ seq[n] \in X
    <3>1. n \in 0..len /\ n # 0 /\ n - 1 = m
      BY <1>1
    <3> QED BY <1>1, <1>2, <3>1
  <2>2. part \in Seq(X \cap set) /\ Comes(seq, set, m, part)
    BY <1>1, <1>5
  <2> HIDE DEF part
  <2>3. PICK at \in [1..Len(part) -> 1..m] :
            /\ \A k \in 1..Len(part) : part[k] = seq[at[k]]
            /\ \A k, l \in 1..Len(part) : k < l => at[k] < at[l]
    BY <2>2 DEF Comes
  <2>4. /\ Len(part) \in Nat /\ Len(part) <= m /\ ((\E i \in 1..m : seq[i] \notin set) => Len(part) < m)
        /\ \A i \in 1..m : seq[i] \in set => \E k \in 1..Len(part) : part[k] = seq[i]
    BY <2>2 DEF Comes
  <2>5. CASE seq[n] \in set
    <3>1. f[n] = Append(part, seq[n])
      BY <2>1, <2>5 DEF FilterStep
    <3> DEFINE new == Append(part, seq[n])
               to == [k \in 1..Len(new) |-> IF k = Len(new) THEN n ELSE at[k]]
    <3>2. /\ new \in Seq(X \cap set) /\ Len(new) = Len(part) + 1
          /\ \A k \in 1..Len(part) : new[k] = part[k]
          /\ new[Len(new)] = seq[n]
      BY <2>1, <2>2, <2>5, AppendProperties
    <3> HIDE DEF new
    <3>3. to \in [1..Len(new) -> 1..n]
      BY <2>3, <2>4, <3>2
    <3>4. \A k \in 1..Len(new) : new[k] = seq[to[k]]
      BY <2>3, <2>4, <3>2
    <3>5. \A k, l \in 1..Len(new) : k < l => to[k] < to[l]
      <4> SUFFICES ASSUME NEW k \in 1..Len(new), NEW l \in 1..Len(new), k < l
                   PROVE  to[k] < to[l]
        OBVIOUS
      <4>0. k \in 1..Len(part) /\ k # Len(new)
        BY <2>4, <3>2
      <4>1. k \in 1..Len(part) /\ to[k] = at[k] /\ at[k] \in 1..m
        BY <2>3, <4>0
      <4>2. CASE l = Len(new)
        BY <2>1, <4>1, <4>2
      <4>3. CASE l # Len(new)
        <5>0. l \in 1..Len(part)
          <6>1. Len(new) = Len(part) + 1 /\ Len(part) \in Nat
            BY <2>4, <3>2
          <6> QED BY <4>3, <6>1
        <5>1. l \in 1..Len(part) /\ to[l] = at[l]
          BY <2>3, <4>3, <5>0
        <5>2. at[k] < at[l]
          BY <2>3, <4>0, <5>1
        <5> QED BY <4>1, <5>1, <5>2
      <4> QED BY <4>2, <4>3
    <3>6. Len(new) <= n /\ ((\E i \in 1..n : seq[i] \notin set) => Len(new) < n)
      BY <2>4, <2>5, <3>2
    <3>7. \A i \in 1..n : seq[i] \in set => \E k \in 1..Len(new) : new[k] = seq[i]
      <4> SUFFICES ASSUME NEW i \in 1..n, seq[i] \in set
                   PROVE  \E k \in 1..Len(new) : new[k] = seq[i]
        OBVIOUS
      <4>1. CASE i = n
        <5>1. Len(new) \in 1..Len(new) /\ new[Len(new)] = seq[i]
          BY <2>4, <3>2, <4>1
        <5> QED BY <5>1
      <4>2. CASE i # n
        <5>1. PICK k \in 1..Len(part) : part[k] = seq[i]
          BY <2>1, <2>4, <4>2
        <5>2. k \in 1..Len(new) /\ new[k] = seq[i]
          BY <2>4, <3>2, <5>1
        <5> QED BY <5>2
      <4> QED BY <4>1, <4>2
    <3>8. Comes(seq, set, n, new)
      <4> HIDE DEF to
      <4> QED BY <3>3, <3>4, <3>5, <3>6, <3>7 DEF Comes
    <3>9. f[n] \in Seq(X \cap set) /\ Comes(seq, set, n, f[n])
      BY <3>1, <3>2, <3>8 DEF new
    <3> HIDE DEF to
    <3> QED BY <3>9
  <2>6. CASE seq[n] \notin set
    <3>1. f[n] = part
      BY <2>1, <2>6 DEF FilterStep
    <3>2. at \in [1..Len(part) -> 1..n]
      BY <2>3, <2>4
    <3>3. Len(part) < n
      BY <2>4
    <3>4. \A i \in 1..n : seq[i] \in set => \E k \in 1..Len(part) : part[k] = seq[i]
      <4> TAKE i \in 1..n
      <4>1. seq[i] \in set => i \in 1..m
        BY <2>6
      <4> QED BY <2>4, <4>1
    <3>5. Comes(seq, set, n, part)
      BY <2>3, <3>2, <3>3, <3>4 DEF Comes
    <3> QED BY <2>2, <3>1, <3>5
  <2> QED BY <2>5, <2>6
<1>6. len \in T
  <2> HIDE DEF T, len
  <2>1. len \in 0..len
    BY <1>1
  <2> QED BY <1>1, <1>4, <1>5, <2>1, NatInductionSet
<1> QED BY <1>1, <1>3, <1>6

-----------------------------------------------------------------------------
(* Selections of a sequence *)

(* t consists of elements of s, each of them once.                         *)
Selects(t, s) ==
    \E at \in [1..Len(t) -> 1..Len(s)] :
        /\ \A k \in 1..Len(t) : t[k] = s[at[k]]
        /\ \A k, l \in 1..Len(t) : at[k] = at[l] => k = l

LEMMA KeptSelects ==
    ASSUME NEW X, NEW seq \in Seq(X), NEW set
    PROVE  /\ Kept(seq, set) \in Seq(X) /\ Len(Kept(seq, set)) <= Len(seq)
           /\ \A k \in 1..Len(Kept(seq, set)) : Kept(seq, set)[k] \in X \cap set
           /\ (\E i \in 1..Len(seq) : seq[i] \notin set) => Len(Kept(seq, set)) < Len(seq)
           /\ \A i \in 1..Len(seq) : seq[i] \in set => \E k \in 1..Len(Kept(seq, set)) : Kept(seq, set)[k] = seq[i]
           /\ Selects(Kept(seq, set), seq)
<1>1. PICK kept : kept = Kept(seq, set)
  OBVIOUS
<1>2. kept \in Seq(X \cap set) /\ Comes(seq, set, Len(seq), kept)
  BY <1>1, KeptFacts
<1>3. kept \in Seq(X) /\ Len(kept) \in Nat /\ \A k \in 1..Len(kept) : kept[k] \in X \cap set
  BY <1>2
<1>4. /\ Len(kept) <= Len(seq)
      /\ (\E i \in 1..Len(seq) : seq[i] \notin set) => Len(kept) < Len(seq)
      /\ \A i \in 1..Len(seq) : seq[i] \in set => \E k \in 1..Len(kept) : kept[k] = seq[i]
  BY <1>2 DEF Comes
<1>5. PICK at \in [1..Len(kept) -> 1..Len(seq)] :
          /\ \A k \in 1..Len(kept) : kept[k] = seq[at[k]]
          /\ \A k, l \in 1..Len(kept) : k < l => at[k] < at[l]
  BY <1>2 DEF Comes
<1>6. \A k, l \in 1..Len(kept) : at[k] = at[l] => k = l
  <2> SUFFICES ASSUME NEW k \in 1..Len(kept), NEW l \in 1..Len(kept), k # l
               PROVE  at[k] # at[l]
    OBVIOUS
  <2>1. at[k] \in Int /\ at[l] \in Int /\ (k < l \/ l < k)
    BY <1>3, <1>5
  <2> QED BY <1>5, <2>1
<1>7. Selects(kept, seq)
  BY <1>5, <1>6 DEF Selects
<1> QED BY <1>1, <1>3, <1>4, <1>7

LEMMA SelectsSelf == ASSUME NEW X, NEW s \in Seq(X) PROVE Selects(s, s)
<1> DEFINE at == [k \in 1..Len(s) |-> k]
<1>1. /\ at \in [1..Len(s) -> 1..Len(s)]
      /\ \A k \in 1..Len(s) : s[k] = s[at[k]]
      /\ \A k, l \in 1..Len(s) : at[k] = at[l] => k = l
  OBVIOUS
<1> QED BY <1>1 DEF Selects

LEMMA SelectsTrans ==
    ASSUME NEW s, NEW t, NEW u, Selects(t, s), Selects(u, t)
    PROVE  Selects(u, s)
<1>1. PICK at \in [1..Len(t) -> 1..Len(s)] :
          /\ \A k \in 1..Len(t) : t[k] = s[at[k]]
          /\ \A k, l \in 1..Len(t) : at[k] = at[l] => k = l
  BY DEF Selects
<1>2. PICK to \in [1..Len(u) -> 1..Len(t)] :
          /\ \A k \in 1..Len(u) : u[k] = t[to[k]]
          /\ \A k, l \in 1..Len(u) : to[k] = to[l] => k = l
  BY DEF Selects
<1> DEFINE both == [k \in 1..Len(u) |-> at[to[k]]]
<1>3. /\ both \in [1..Len(u) -> 1..Len(s)]
      /\ \A k \in 1..Len(u) : u[k] = s[both[k]]
      /\ \A k, l \in 1..Len(u) : both[k] = both[l] => k = l
  BY <1>1, <1>2
<1> HIDE DEF both
<1> QED BY <1>3 DEF Selects

(* A sequence without its first elements, and without one element.         *)
LEMMA TailSelects ==
    ASSUME NEW X, NEW s \in Seq(X), NEW m \in 1..Len(s) + 1
    PROVE  /\ SubSeq(s, m, Len(s)) \in Seq(X)
           /\ Len(SubSeq(s, m, Len(s))) = Len(s) - m + 1
           /\ Selects(SubSeq(s, m, Len(s)), s)
<1>1. PICK t : t = SubSeq(s, m, Len(s))
  OBVIOUS
<1>2. /\ t \in Seq(X) /\ Len(t) = Len(s) - m + 1
      /\ \A k \in 1..Len(t) : t[k] = s[m + k - 1]
  BY <1>1
<1> DEFINE at == [k \in 1..Len(t) |-> m + k - 1]
<1>3. /\ at \in [1..Len(t) -> 1..Len(s)]
      /\ \A k \in 1..Len(t) : t[k] = s[at[k]]
      /\ \A k, l \in 1..Len(t) : at[k] = at[l] => k = l
  BY <1>2
<1> HIDE DEF at
<1>4. Selects(t, s)
  BY <1>3 DEF Selects
<1> QED BY <1>1, <1>2, <1>4

LEMMA RemoveSelects ==
    ASSUME NEW X, NEW s \in Seq(X), NEW i \in 1..Len(s)
    PROVE  /\ RemoveAt(s, i) \in Seq(X)
           /\ Len(RemoveAt(s, i)) = Len(s) - 1
           /\ Selects(RemoveAt(s, i), s)
<1>1. PICK t : t = RemoveAt(s, i)
  OBVIOUS
<1>2. /\ t \in Seq(X) /\ Len(t) = Len(s) - 1
      /\ \A k \in 1..Len(t) : t[k] = s[IF k < i THEN k ELSE k + 1]
  <2>1. PICK a, b : a = SubSeq(s, 1, i - 1) /\ b = SubSeq(s, i + 1, Len(s))
    OBVIOUS
  <2>2. /\ a \in Seq(X) /\ Len(a) = i - 1 /\ \A k \in 1..(i - 1) : a[k] = s[k]
        /\ b \in Seq(X) /\ Len(b) = Len(s) - i /\ \A k \in 1..Len(b) : b[k] = s[i + k]
    BY <2>1
  <2>3. t = a \o b
    BY <1>1, <2>1 DEF RemoveAt
  <2>4. /\ t \in Seq(X) /\ Len(t) = Len(a) + Len(b)
        /\ \A k \in 1..Len(a) + Len(b) : t[k] = IF k <= Len(a) THEN a[k] ELSE b[k - Len(a)]
    BY <2>2, <2>3, ConcatProperties
  <2>5. Len(t) = Len(s) - 1
    BY <2>2, <2>4
  <2>6. ASSUME NEW k \in 1..Len(t)
        PROVE  t[k] = s[IF k < i THEN k ELSE k + 1]
    <3>1. CASE k < i
      BY <2>2, <2>4, <2>5, <3>1
    <3>2. CASE k >= i
      <4>1. t[k] = b[k - (i - 1)] /\ k - (i - 1) \in 1..Len(b)
        BY <2>2, <2>4, <2>5, <3>2
      <4>2. b[k - (i - 1)] = s[i + (k - (i - 1))]
        BY <2>2, <4>1
      <4> QED BY <3>2, <4>1, <4>2
    <3> QED BY <3>1, <3>2
  <2> QED BY <2>4, <2>5, <2>6
<1> DEFINE at == [k \in 1..Len(t) |-> IF k < i THEN k ELSE k + 1]
<1>3. /\ at \in [1..Len(t) -> 1..Len(s)]
      /\ \A k \in 1..Len(t) : t[k] = s[at[k]]
      /\ \A k, l \in 1..Len(t) : at[k] = at[l] => k = l
  BY <1>2
<1> HIDE DEF at
<1>4. Selects(t, s)
  BY <1>3 DEF Selects
<1> QED BY <1>1, <1>2, <1>4

-----------------------------------------------------------------------------
(* The guard and the cache, as predicates of a sequence *)

(* The windows: few, each client's once, none counted past the limit.      *)
Windows(seq) ==
    /\ \A i \in 1..Len(seq) : seq[i].count <= Limit
    /\ \A i, j \in 1..Len(seq) : seq[i].client = seq[j].client => i = j

(* An entry is a value that does not live too long, or a load that will    *)
(* end and is waited for under the entry's key.                            *)
EntryOk(entry, reads, now) ==
    /\ entry.load = Nothing => entry.expiresAt <= now + TtlTicks
    /\ entry.load # Nothing =>
          /\ entry.load \in Reads
          /\ reads[entry.load].pc = "waiting"
          /\ reads[entry.load].load = entry.load
          /\ reads[entry.load].market = entry.market

OneKey(seq) == \A i, j \in 1..Len(seq) : seq[i].market = seq[j].market => i = j

ReadOk(r) ==
    /\ r.pc \in {"unasked", "waiting"} => r.age = 0
    /\ r.pc = "answered" => r.age < TtlTicks

AllWaiting == {r \in Reads : read[r].pc = "waiting"}

ReadsInv ==
    /\ IsFiniteSet(AllWaiting) /\ inFlight = Cardinality(AllWaiting) /\ inFlight <= MaxInFlight
    /\ Windows(buckets) /\ Len(buckets) <= MaxClients
    /\ OneKey(entries) /\ Len(entries) <= MaxEntries
    /\ \A i \in 1..Len(entries) : EntryOk(entries[i], read, ticks)
    /\ \A r \in Reads : ReadOk(read[r])

LEMMA WindowsSelected ==
    ASSUME NEW s \in Seq(Bucket), NEW t \in Seq(Bucket), Selects(t, s), Windows(s)
    PROVE  Windows(t)
<1>1. PICK at \in [1..Len(t) -> 1..Len(s)] :
          /\ \A k \in 1..Len(t) : t[k] = s[at[k]]
          /\ \A k, l \in 1..Len(t) : at[k] = at[l] => k = l
  BY DEF Selects
<1>2. \A i \in 1..Len(t) : t[i].count <= Limit
  <2> SUFFICES ASSUME NEW i \in 1..Len(t) PROVE t[i].count <= Limit
    OBVIOUS
  <2>1. PICK h \in 1..Len(s) : h = at[i] /\ t[i] = s[h]
    BY <1>1, Zenon
  <2>2. s[h].count <= Limit
    BY <2>1 DEF Windows
  <2> QED BY <2>1, <2>2
<1>3. \A i, j \in 1..Len(t) : t[i].client = t[j].client => i = j
  <2> SUFFICES ASSUME NEW i \in 1..Len(t), NEW j \in 1..Len(t), t[i].client = t[j].client
               PROVE  i = j
    OBVIOUS
  <2>1. PICK h, k : h = at[i] /\ k = at[j]
    OBVIOUS
  <2>2. h \in 1..Len(s) /\ k \in 1..Len(s) /\ t[i] = s[h] /\ t[j] = s[k]
    BY <1>1, <2>1, Zenon
  <2>3. h = k
    BY <2>2 DEF Windows
  <2> QED BY <1>1, <2>1, <2>3
<1> QED BY <1>2, <1>3 DEF Windows

LEMMA KeysSelected ==
    ASSUME NEW s, NEW t, Selects(t, s), OneKey(s)
    PROVE  /\ OneKey(t)
           /\ \A k \in 1..Len(t) : \E i \in 1..Len(s) : t[k] = s[i]
<1>1. PICK at \in [1..Len(t) -> 1..Len(s)] :
          /\ \A k \in 1..Len(t) : t[k] = s[at[k]]
          /\ \A k, l \in 1..Len(t) : at[k] = at[l] => k = l
  BY DEF Selects
<1>2. \A i, j \in 1..Len(t) : t[i].market = t[j].market => i = j
  BY <1>1 DEF OneKey
<1> QED BY <1>1, <1>2 DEF OneKey

(* What is left when the guard makes room for a new client.                *)
LEMMA EvictedFacts ==
    ASSUME ReadsTypeOK, Len(buckets) <= MaxClients
    PROVE  Evicted \in Seq(Bucket) /\ Len(Evicted) < MaxClients /\ Selects(Evicted, buckets)
<1>1. PICK open : open = OpenWindows
  OBVIOUS
<1>2. buckets \in Seq(Bucket) /\ open \in Seq(Bucket) /\ Len(open) <= Len(buckets) /\ Selects(open, buckets)
  BY <1>1, KeptSelects DEF OpenWindows, ReadsTypeOK
<1>3. MaxClients \in Nat /\ MaxClients > 0 /\ Len(open) \in Nat
  BY <1>2, PublicReadsBounds
<1>4. PICK m : m = IF Len(open) - (MaxClients - 1) > 0 THEN Len(open) - (MaxClients - 1) + 1 ELSE 1
  OBVIOUS
<1>5. Evicted = SubSeq(open, m, Len(open))
  BY <1>1, <1>4 DEF Evicted
<1>6. m \in 1..Len(open) + 1 /\ Len(open) - m + 1 < MaxClients
  <2>1. CASE Len(open) - (MaxClients - 1) > 0
    <3>1. m = Len(open) - (MaxClients - 1) + 1
      BY <1>4, <2>1
    <3> QED BY <1>3, <2>1, <3>1
  <2>2. CASE ~(Len(open) - (MaxClients - 1) > 0)
    <3>1. m = 1
      BY <1>4, <2>2
    <3> QED BY <1>3, <2>2, <3>1
  <2> QED BY <2>1, <2>2
<1>7. /\ SubSeq(open, m, Len(open)) \in Seq(Bucket)
      /\ Len(SubSeq(open, m, Len(open))) = Len(open) - m + 1
      /\ Selects(SubSeq(open, m, Len(open)), open)
  BY <1>2, <1>6, TailSelects
<1>8. Selects(Evicted, buckets)
  BY <1>2, <1>5, <1>7, SelectsTrans
<1> QED BY <1>5, <1>6, <1>7, <1>8

(* Writing the window of a client where it is, or at the end.              *)
LEMMA ReplaceWindow ==
    ASSUME NEW seq \in Seq(Bucket), Windows(seq), NEW new \in [1..Len(seq) -> Bucket],
           \A i \in 1..Len(seq) : new[i].client = seq[i].client /\ new[i].count <= Limit
    PROVE  new \in Seq(Bucket) /\ Len(new) = Len(seq) /\ Windows(new)
<1>1. Len(seq) \in Nat /\ new \in Seq(Bucket) /\ Len(new) = Len(seq)
  OBVIOUS
<1>2. \A i, j \in 1..Len(new) : new[i].client = new[j].client => i = j
  BY <1>1 DEF Windows
<1> QED BY <1>1, <1>2 DEF Windows

LEMMA AddWindow ==
    ASSUME NEW seq \in Seq(Bucket), Windows(seq), NEW bucket \in Bucket, bucket.count <= Limit,
           \A i \in 1..Len(seq) : seq[i].client # bucket.client
    PROVE  /\ Append(seq, bucket) \in Seq(Bucket) /\ Len(Append(seq, bucket)) = Len(seq) + 1
           /\ Windows(Append(seq, bucket))
<1>1. PICK new : new = Append(seq, bucket)
  OBVIOUS
<1>2. /\ new \in Seq(Bucket) /\ Len(new) = Len(seq) + 1
      /\ \A i \in 1..Len(seq) : new[i] = seq[i]
      /\ new[Len(new)] = bucket
  BY <1>1, AppendProperties
<1>3. \A i \in 1..Len(new) : i # Len(new) => i \in 1..Len(seq) /\ new[i] = seq[i]
  BY <1>2
<1>4. \A i \in 1..Len(new) : new[i].count <= Limit
  BY <1>2, <1>3 DEF Windows
<1>5. \A i, j \in 1..Len(new) : new[i].client = new[j].client => i = j
  BY <1>2, <1>3 DEF Windows
<1> QED BY <1>1, <1>2, <1>4, <1>5 DEF Windows

(* Whatever a request does to the guard's windows, they stay as they       *)
(* should be.                                                              *)
LEMMA CountedFacts ==
    ASSUME ReadsTypeOK, Windows(buckets), Len(buckets) <= MaxClients, NEW client \in Clients
    PROVE  Counted(client) \in Seq(Bucket) /\ Len(Counted(client)) <= MaxClients /\ Windows(Counted(client))
<1>1. /\ buckets \in Seq(Bucket) /\ ticks \in Nat /\ DOMAIN buckets = 1..Len(buckets) /\ Len(buckets) \in Nat
      /\ {Limit, WindowTicks, MaxClients} \subseteq Nat \ {0}
  BY PublicReadsBounds DEF ReadsTypeOK
<1>2. \A i \in DOMAIN buckets : buckets[i] \in Bucket
  BY <1>1
<1>3. PICK bucket : bucket = [client |-> client, count |-> 1, resetAt |-> ticks + WindowTicks]
  OBVIOUS
<1>4. bucket \in Bucket /\ bucket.client = client /\ bucket.count <= Limit
  BY <1>1, <1>3 DEF Bucket
<1>5. CASE RateLimited(client)
  BY <1>1, <1>5 DEF Counted
<1>6. CASE ~RateLimited(client) /\ HasWindow(client)
  <2> DEFINE value == [i \in DOMAIN buckets |-> [buckets[i] EXCEPT !.count = @ + 1]]
  <2>1. \A i \in DOMAIN buckets : buckets[i].count \in Nat /\ buckets[i] \in [client: Clients, count: Nat, resetAt: Nat]
    BY <1>2 DEF Bucket
  <2>2. \A i \in DOMAIN buckets : /\ value[i] \in Bucket /\ value[i].client = buckets[i].client
                                  /\ value[i].count = buckets[i].count + 1
    BY <2>1 DEF Bucket
  <2>3. value \in [DOMAIN buckets -> Bucket]
    BY <2>2
  <2>4. \A i \in BucketOf(client) : buckets[i].resetAt > ticks /\ i \in DOMAIN buckets /\ buckets[i].client = client
    BY <1>1, <1>6 DEF HasWindow, BucketOf, Windows
  <2>5. \A i \in BucketOf(client) : value[i].client = client /\ value[i].count <= Limit
    <3> TAKE i \in BucketOf(client)
    <3>1. i \in DOMAIN buckets /\ buckets[i].client = client /\ ~(buckets[i].count >= Limit)
      BY <1>6, <2>4 DEF RateLimited
    <3>2. buckets[i].count < Limit
      BY <1>1, <2>1, <3>1
    <3> QED BY <1>1, <2>1, <2>2, <3>1, <3>2
  <2>6. Counted(client) = [i \in DOMAIN buckets |-> IF i \in BucketOf(client) THEN value[i] ELSE buckets[i]]
    BY <1>6 DEF Counted
  <2> HIDE DEF value
  <2>7. PICK at, new : at = BucketOf(client) /\ new = Counted(client)
    OBVIOUS
  <2>8. \A i \in at : buckets[i].client = client
    BY <2>4, <2>7
  <2>9. new = [i \in DOMAIN buckets |-> IF i \in at THEN value[i] ELSE buckets[i]]
    BY <2>6, <2>7
  <2>10. \A i \in 1..Len(buckets) : new[i].client = buckets[i].client /\ new[i].count <= Limit
    BY <1>1, <2>5, <2>7, <2>8, <2>9 DEF Windows
  <2>11. new \in [1..Len(buckets) -> Bucket]
    BY <1>1, <1>2, <2>3, <2>9
  <2>12. new \in Seq(Bucket) /\ Len(new) = Len(buckets) /\ Windows(new)
    BY <1>1, <2>10, <2>11, ReplaceWindow
  <2> QED BY <2>7, <2>12
<1>7. CASE ~RateLimited(client) /\ ~HasWindow(client)
  <2>1. Counted(client) = NewBucket(client)
    BY <1>7 DEF Counted
  <2>2. CASE BucketOf(client) # {}
    <3> DEFINE value == [i \in DOMAIN buckets |-> bucket]
    <3>1. value \in [DOMAIN buckets -> Bucket] /\ \A i \in DOMAIN buckets : value[i] = bucket
      BY <1>4
    <3>2. \A i \in BucketOf(client) : value[i].client = client /\ value[i].count <= Limit
      BY <1>4, <3>1 DEF BucketOf
    <3>3. NewBucket(client) = [i \in DOMAIN buckets |-> IF i \in BucketOf(client) THEN value[i] ELSE buckets[i]]
      BY <1>3, <2>2 DEF NewBucket
    <3> HIDE DEF value
    <3>4. PICK at, new : at = BucketOf(client) /\ new = Counted(client)
      OBVIOUS
    <3>5. \A i \in at : buckets[i].client = client
      BY <3>4 DEF BucketOf
    <3>6. new = [i \in DOMAIN buckets |-> IF i \in at THEN value[i] ELSE buckets[i]]
      BY <2>1, <3>3, <3>4
    <3>7. \A i \in 1..Len(buckets) : new[i].client = buckets[i].client /\ new[i].count <= Limit
      BY <1>1, <3>2, <3>4, <3>5, <3>6 DEF Windows
    <3>8. new \in [1..Len(buckets) -> Bucket]
      BY <1>1, <1>2, <3>1, <3>6
    <3>9. new \in Seq(Bucket) /\ Len(new) = Len(buckets) /\ Windows(new)
      BY <1>1, <3>7, <3>8, ReplaceWindow
    <3> QED BY <3>4, <3>9
  <2>3. CASE BucketOf(client) = {}
    <3>1. PICK rest : rest = IF Len(buckets) >= MaxClients THEN Evicted ELSE buckets
      OBVIOUS
    <3>2. NewBucket(client) = Append(rest, bucket)
      BY <1>3, <2>3, <3>1 DEF NewBucket
    <3>3. rest \in Seq(Bucket) /\ Selects(rest, buckets) /\ Len(rest) < MaxClients
      BY <1>1, <3>1, EvictedFacts, SelectsSelf
    <3>4. Windows(rest)
      BY <1>1, <3>3, WindowsSelected
    <3>5. \A i \in 1..Len(rest) : rest[i].client # bucket.client
      BY <1>1, <1>4, <2>3, <3>3 DEF Selects, BucketOf
    <3>6. Len(rest) \in Nat
      BY <3>3
    <3> QED BY <1>1, <1>4, <2>1, <3>2, <3>3, <3>4, <3>5, <3>6, AddWindow
  <2> QED BY <2>2, <2>3
<1> QED BY <1>5, <1>6, <1>7

-----------------------------------------------------------------------------
(* The cache *)

LEMMA RoomFacts ==
    ASSUME NEW seq \in Seq(Entry)
    PROVE  Room(seq) \in Seq(Entry) /\ Len(Room(seq)) <= Len(seq) /\ Selects(Room(seq), seq)
<1>1. PICK settled : settled = {i \in DOMAIN seq : seq[i].load = Nothing}
  OBVIOUS
<1>2. PICK oldest : oldest = CHOOSE i \in settled : \A j \in settled : i <= j
  OBVIOUS
<1>3. CASE Len(seq) >= MaxEntries /\ settled # {}
  <2>1. settled \in SUBSET Nat /\ settled \subseteq 1..Len(seq)
    BY <1>1
  <2>2. \E i \in settled : \A j \in settled : i <= j
    BY <1>3, <2>1, LeastIndex
  <2>3. oldest \in 1..Len(seq)
    BY <1>2, <2>1, <2>2
  <2>4. Room(seq) = RemoveAt(seq, oldest)
    BY <1>1, <1>2, <1>3 DEF Room
  <2>5. Len(seq) \in Nat
    OBVIOUS
  <2>6. /\ RemoveAt(seq, oldest) \in Seq(Entry) /\ Len(RemoveAt(seq, oldest)) = Len(seq) - 1
        /\ Selects(RemoveAt(seq, oldest), seq)
    BY <2>3, RemoveSelects
  <2> QED BY <2>4, <2>5, <2>6
<1>4. CASE ~(Len(seq) >= MaxEntries /\ settled # {})
  <2>1. Room(seq) = seq
    BY <1>1, <1>2, <1>4 DEF Room
  <2> QED BY <2>1, SelectsSelf
<1> QED BY <1>3, <1>4

LEMMA WithoutFacts ==
    ASSUME ReadsTypeOK, NEW market
    PROVE  /\ Without(market) \in Seq(Entry) /\ Len(Without(market)) <= Len(entries)
           /\ EntryOf(market) # {} => Len(Without(market)) < Len(entries)
           /\ Selects(Without(market), entries)
           /\ \A k \in 1..Len(Without(market)) : Without(market)[k].market # market
<1>1. PICK others : others = {e \in Entry : e.market # market}
  OBVIOUS
<1>2. PICK kept : kept = Kept(entries, others)
  OBVIOUS
<1>3. /\ kept \in Seq(Entry) /\ Len(kept) <= Len(entries)
      /\ \A k \in 1..Len(kept) : kept[k] \in Entry \cap others
      /\ (\E i \in 1..Len(entries) : entries[i] \notin others) => Len(kept) < Len(entries)
      /\ Selects(kept, entries)
  BY <1>2, KeptSelects DEF ReadsTypeOK
<1>4. EntryOf(market) # {} => \E i \in 1..Len(entries) : entries[i] \notin others
  BY <1>1 DEF EntryOf, ReadsTypeOK
<1>5. Without(market) = kept
  BY <1>1, <1>2 DEF Without
<1>6. \A k \in 1..Len(kept) : kept[k].market # market
  BY <1>1, <1>3
<1> QED BY <1>3, <1>4, <1>5, <1>6

(* What is left when the cache makes room for a new load.                  *)
LEMMA PrunedFacts ==
    ASSUME ReadsTypeOK, NEW market
    PROVE  /\ Pruned(market) \in Seq(Entry) /\ Len(Pruned(market)) <= Len(entries)
           /\ Selects(Pruned(market), entries)
           /\ \A k \in 1..Len(Pruned(market)) : Pruned(market)[k].market # market
<1>1. PICK without : without = Without(market)
  OBVIOUS
<1>2. /\ without \in Seq(Entry) /\ Len(without) <= Len(entries) /\ Selects(without, entries)
      /\ \A k \in 1..Len(without) : without[k].market # market
  BY <1>1, WithoutFacts
<1>3. PICK live : live = Kept(without, {e \in Entry : e.load # Nothing \/ e.expiresAt > ticks})
  OBVIOUS
<1>4. live \in Seq(Entry) /\ Len(live) <= Len(without) /\ Selects(live, without)
  BY <1>2, <1>3, KeptSelects
<1>5. PICK pruned : pruned = Room(live)
  OBVIOUS
<1>6. pruned \in Seq(Entry) /\ Len(pruned) <= Len(live) /\ Selects(pruned, live)
  BY <1>4, <1>5, RoomFacts
<1>7. Selects(pruned, without)
  BY <1>4, <1>6, SelectsTrans
<1>8. Selects(pruned, entries)
  BY <1>2, <1>7, SelectsTrans
<1>9. \A k \in 1..Len(pruned) : pruned[k].market # market
  BY <1>2, <1>7 DEF Selects
<1>10. Len(entries) \in Nat /\ Len(without) \in Nat /\ Len(live) \in Nat /\ Len(pruned) \in Nat
  BY <1>2, <1>4, <1>6 DEF ReadsTypeOK
<1>11. Pruned(market) = pruned
  BY <1>1, <1>3, <1>5 DEF Pruned
<1> QED BY <1>2, <1>4, <1>6, <1>8, <1>9, <1>10, <1>11

(* An entry of a key that the cache does not hold.                         *)
LEMMA AddEntry ==
    ASSUME NEW seq \in Seq(Entry), OneKey(seq), NEW entry \in Entry,
           \A k \in 1..Len(seq) : seq[k].market # entry.market
    PROVE  /\ Append(seq, entry) \in Seq(Entry) /\ Len(Append(seq, entry)) = Len(seq) + 1
           /\ OneKey(Append(seq, entry))
           /\ \A k \in 1..Len(Append(seq, entry)) :
                 \/ Append(seq, entry)[k] = entry
                 \/ \E i \in 1..Len(seq) : Append(seq, entry)[k] = seq[i]
<1>1. PICK new : new = Append(seq, entry)
  OBVIOUS
<1>2. /\ new \in Seq(Entry) /\ Len(new) = Len(seq) + 1
      /\ \A i \in 1..Len(seq) : new[i] = seq[i]
      /\ new[Len(new)] = entry
  BY <1>1, AppendProperties
<1>3. \A i \in 1..Len(new) : i # Len(new) => i \in 1..Len(seq) /\ new[i] = seq[i]
  BY <1>2
<1>4. \A i, j \in 1..Len(new) : new[i].market = new[j].market => i = j
  BY <1>2, <1>3 DEF OneKey
<1>5. \A k \in 1..Len(new) : new[k] = entry \/ \E i \in 1..Len(seq) : new[k] = seq[i]
  BY <1>2, <1>3
<1> QED BY <1>1, <1>2, <1>4, <1>5 DEF OneKey

-----------------------------------------------------------------------------
(* A request *)

LEMMA AskRead ==
    ASSUME ReadsTypeOK, ReadsInv, NEW r \in Reads, read[r].pc = "unasked",
           NEW new \in Read, new.pc # "unasked", ReadOk(new), Set(r, new)
    PROVE  /\ read' \in [Reads -> Read] /\ \A q \in Reads : ReadOk(read'[q])
           /\ IsFiniteSet(AllWaiting') /\ Cardinality(AllWaiting) \in Nat
           /\ Cardinality(AllWaiting') = Cardinality(AllWaiting) + (IF new.pc = "waiting" THEN 1 ELSE 0)
           /\ \A e \in Entry : EntryOk(e, read, ticks) => EntryOk(e, read', ticks)
<1>1. /\ read' \in [Reads -> Read] /\ read'[r] = new
      /\ \A q \in Reads \ {r} : read'[q] = read[q]
  BY DEF Set, ReadsTypeOK
<1>2. \A q \in Reads : ReadOk(read'[q])
  BY <1>1 DEF ReadsInv
<1>3. \A e \in Entry : EntryOk(e, read, ticks) => EntryOk(e, read', ticks)
  BY <1>1 DEF EntryOk
<1>4. IsFiniteSet(AllWaiting) /\ Cardinality(AllWaiting) \in Nat /\ r \notin AllWaiting
  BY FS_CardinalityType DEF ReadsInv, AllWaiting
<1>5. CASE new.pc = "waiting"
  <2>1. AllWaiting' = AllWaiting \cup {r}
    BY <1>1, <1>5 DEF AllWaiting
  <2>2. IsFiniteSet(AllWaiting \cup {r}) /\ Cardinality(AllWaiting \cup {r}) = Cardinality(AllWaiting) + 1
    BY <1>4, FS_AddElement
  <2> QED BY <1>1, <1>2, <1>3, <1>4, <1>5, <2>1, <2>2
<1>6. CASE new.pc # "waiting"
  <2>1. AllWaiting' = AllWaiting
    BY <1>1, <1>4, <1>6 DEF AllWaiting
  <2>2. Cardinality(AllWaiting') = Cardinality(AllWaiting) + 0
    BY <1>4, <2>1
  <2> QED BY <1>1, <1>2, <1>3, <1>4, <1>6, <2>1, <2>2
<1> QED BY <1>5, <1>6

(* The invariant after a request, from what became of the cache.           *)
LEMMA AskInv ==
    ASSUME ReadsTypeOK, ReadsInv, NEW r \in Reads, read[r].pc = "unasked",
           NEW new \in Read, new.pc # "unasked", ReadOk(new), Set(r, new),
           NEW client \in Clients, buckets' = Counted(client), UNCHANGED ticks,
           IF new.pc = "waiting" THEN inFlight' = inFlight + 1 /\ inFlight < MaxInFlight ELSE inFlight' = inFlight,
           entries' \in Seq(Entry), OneKey(entries'), Len(entries') <= MaxEntries,
           \A k \in 1..Len(entries') : EntryOk(entries'[k], read, ticks) \/ EntryOk(entries'[k], read', ticks)
    PROVE  (ReadsTypeOK /\ ReadsInv)'
<1>1. /\ read' \in [Reads -> Read] /\ \A q \in Reads : ReadOk(read'[q])
      /\ IsFiniteSet(AllWaiting') /\ Cardinality(AllWaiting) \in Nat
      /\ Cardinality(AllWaiting') = Cardinality(AllWaiting) + (IF new.pc = "waiting" THEN 1 ELSE 0)
      /\ \A e \in Entry : EntryOk(e, read, ticks) => EntryOk(e, read', ticks)
  BY AskRead
<1>2. /\ Counted(client) \in Seq(Bucket) /\ Len(Counted(client)) <= MaxClients /\ Windows(Counted(client))
  BY CountedFacts DEF ReadsInv
<1>3. buckets' \in Seq(Bucket) /\ Len(buckets') <= MaxClients /\ Windows(buckets')
  BY <1>2
<1>4. inFlight = Cardinality(AllWaiting) /\ inFlight <= MaxInFlight /\ MaxInFlight \in Nat
  BY PublicReadsBounds DEF ReadsInv
<1>5. inFlight' \in Nat /\ inFlight' = Cardinality(AllWaiting') /\ inFlight' <= MaxInFlight
  BY <1>1, <1>4
<1>6. \A k \in 1..Len(entries') : entries'[k] \in Entry
  OBVIOUS
<1>7. \A k \in 1..Len(entries') : EntryOk(entries'[k], read', ticks)
  BY <1>1, <1>6
<1>8. ticks' = ticks /\ ticks \in 0..MaxTicks
  BY DEF ReadsTypeOK
<1>9. ReadsTypeOK'
  BY <1>1, <1>3, <1>5, <1>8 DEF ReadsTypeOK
<1>10. \A k \in 1..Len(entries') : EntryOk(entries'[k], read', ticks')
  BY <1>7, <1>8
<1>11. ReadsInv'
  BY <1>1, <1>3, <1>5, <1>10 DEF ReadsInv
<1> QED BY <1>9, <1>11

LEMMA AskKeeps ==
    ASSUME ReadsTypeOK, ReadsInv, NEW r \in Reads, Ask(r)
    PROVE  (ReadsTypeOK /\ ReadsInv)'
<1>1. PICK client \in Clients, market \in Markets :
          LET asked == [read[r] EXCEPT !.market = market]
          IN  /\ buckets' = Counted(client)
              /\ IF Admitted(client) THEN Get(r, asked)
                 ELSE Set(r, [asked EXCEPT !.pc = "failed"]) /\ UNCHANGED <<inFlight, entries>>
  BY DEF Ask
<1>2. read[r].pc = "unasked" /\ UNCHANGED ticks
  BY DEF Ask
<1>3. PICK asked : asked = [read[r] EXCEPT !.market = market]
  OBVIOUS
<1>4. asked \in Read /\ asked.pc = "unasked" /\ asked.market = market /\ asked.age = 0
  <2>1. read[r] \in Read /\ read[r].age = 0
    BY <1>2 DEF ReadsTypeOK, ReadsInv, ReadOk
  <2> QED BY <1>2, <1>3, <2>1 DEF Read
<1>5. /\ buckets' = Counted(client)
      /\ IF Admitted(client) THEN Get(r, asked)
         ELSE Set(r, [asked EXCEPT !.pc = "failed"]) /\ UNCHANGED <<inFlight, entries>>
  BY <1>1, <1>3
<1>6. /\ entries \in Seq(Entry) /\ OneKey(entries) /\ Len(entries) \in Nat /\ Len(entries) <= MaxEntries
      /\ \A k \in 1..Len(entries) : entries[k] \in Entry /\ EntryOk(entries[k], read, ticks)
      /\ DOMAIN entries = 1..Len(entries) /\ MaxEntries \in Nat /\ MaxEntries > 0
      /\ ticks \in Nat /\ TtlTicks \in Nat /\ TtlTicks > 0
  BY PublicReadsBounds DEF ReadsTypeOK, ReadsInv
<1>7. CASE ~Admitted(client)
  <2>1. PICK new : new = [asked EXCEPT !.pc = "failed"]
    OBVIOUS
  <2>2. new \in Read /\ new.pc = "failed"
    BY <1>4, <2>1 DEF Read
  <2>3. ReadOk(new)
    BY <2>2 DEF ReadOk
  <2>4. Set(r, new) /\ UNCHANGED <<inFlight, entries>>
    BY <1>5, <1>7, <2>1
  <2>5. entries' = entries /\ inFlight' = inFlight
    BY <2>4
  <2>6. \A k \in 1..Len(entries') : EntryOk(entries'[k], read, ticks)
    BY <1>6, <2>5
  <2> QED BY <1>2, <1>5, <1>6, <2>2, <2>3, <2>4, <2>5, <2>6, AskInv
<1>8. CASE Admitted(client)
  <2>1. inFlight < MaxInFlight
    BY <1>8 DEF Admitted
  <2>2. Get(r, asked)
    BY <1>5, <1>8
  <2>3. CASE \E i \in EntryOf(asked.market) :
                /\ entries[i].load # Nothing
                /\ Set(r, [asked EXCEPT !.pc = "waiting", !.load = entries[i].load])
                /\ inFlight' = inFlight + 1
                /\ UNCHANGED entries
    <3>1. PICK i \in 1..Len(entries) :
                /\ Set(r, [asked EXCEPT !.pc = "waiting", !.load = entries[i].load])
                /\ inFlight' = inFlight + 1
                /\ UNCHANGED entries
      BY <1>6, <2>3 DEF EntryOf
    <3>2. PICK new : new = [asked EXCEPT !.pc = "waiting", !.load = entries[i].load]
      OBVIOUS
    <3>3. entries[i].load \in Reads \cup {Nothing}
      BY <1>6 DEF Entry
    <3>4. new \in Read /\ new.pc = "waiting" /\ new.age = 0
      BY <1>4, <3>2, <3>3 DEF Read
    <3>5. ReadOk(new)
      BY <3>4 DEF ReadOk
    <3>6. Set(r, new) /\ inFlight' = inFlight + 1 /\ entries' = entries
      BY <3>1, <3>2
    <3>7. \A k \in 1..Len(entries') : EntryOk(entries'[k], read, ticks)
      BY <1>6, <3>6
    <3> QED BY <1>2, <1>5, <1>6, <2>1, <3>4, <3>5, <3>6, <3>7, AskInv
  <2>4. CASE \E i \in EntryOf(asked.market) :
                /\ entries[i].load = Nothing
                /\ entries[i].expiresAt > ticks
                /\ Set(r, [asked EXCEPT !.pc = "answered", !.age = ticks + TtlTicks - entries[i].expiresAt])
                /\ entries' = Append(Without(asked.market), entries[i])
                /\ UNCHANGED inFlight
    <3>1. PICK i \in EntryOf(market) :
                /\ entries[i].load = Nothing
                /\ entries[i].expiresAt > ticks
                /\ Set(r, [asked EXCEPT !.pc = "answered", !.age = ticks + TtlTicks - entries[i].expiresAt])
                /\ entries' = Append(Without(market), entries[i])
                /\ UNCHANGED inFlight
      BY <1>4, <2>4
    <3>2. i \in 1..Len(entries) /\ entries[i].market = market /\ EntryOf(market) # {}
      BY <1>6, <3>1 DEF EntryOf
    <3>3. PICK age, entry : age = ticks + TtlTicks - entries[i].expiresAt /\ entry = entries[i]
      OBVIOUS
    <3>4. /\ entry \in Entry /\ entry.expiresAt \in Nat /\ entry.market = market
          /\ EntryOk(entry, read, ticks) /\ entry.load = Nothing
      BY <1>6, <3>1, <3>2, <3>3 DEF Entry
    <3>5. entry.expiresAt <= ticks + TtlTicks /\ entry.expiresAt > ticks
      BY <3>1, <3>3, <3>4 DEF EntryOk
    <3>6. age \in Nat /\ age < TtlTicks
      BY <1>6, <3>3, <3>4, <3>5
    <3>7. PICK new : new = [asked EXCEPT !.pc = "answered", !.age = age]
      OBVIOUS
    <3>8. new \in Read /\ new.pc = "answered" /\ new.age = age
      BY <1>4, <3>6, <3>7 DEF Read
    <3>9. ReadOk(new)
      BY <3>6, <3>8 DEF ReadOk
    <3>10. PICK others : others = Without(market)
      OBVIOUS
    <3>11. /\ others \in Seq(Entry) /\ Len(others) < Len(entries) /\ Selects(others, entries)
           /\ \A k \in 1..Len(others) : others[k].market # market
      BY <3>2, <3>10, WithoutFacts
    <3>12. OneKey(others) /\ \A k \in 1..Len(others) : \E j \in 1..Len(entries) : others[k] = entries[j]
      BY <1>6, <3>11, KeysSelected
    <3>13. Set(r, new) /\ entries' = Append(others, entry) /\ inFlight' = inFlight
      BY <3>1, <3>3, <3>7, <3>10
    <3>14. /\ entries' \in Seq(Entry) /\ Len(entries') = Len(others) + 1 /\ OneKey(entries')
           /\ \A k \in 1..Len(entries') :
                 entries'[k] = entry \/ \E j \in 1..Len(others) : entries'[k] = others[j]
      BY <3>4, <3>11, <3>12, <3>13, AddEntry
    <3>15. \A k \in 1..Len(entries') : EntryOk(entries'[k], read, ticks)
      <4> TAKE k \in 1..Len(entries')
      <4>1. CASE entries'[k] = entry
        BY <3>4, <4>1
      <4>2. CASE \E j \in 1..Len(others) : entries'[k] = others[j]
        BY <1>6, <3>12, <4>2
      <4> QED BY <3>14, <4>1, <4>2
    <3>16. Len(entries') <= MaxEntries
      <4>1. Len(others) \in Nat
        BY <3>11
      <4> QED BY <1>6, <3>11, <3>14, <4>1
    <3> QED BY <1>2, <1>5, <3>8, <3>9, <3>13, <3>14, <3>15, <3>16, AskInv
  <2>5. CASE /\ Set(r, [asked EXCEPT !.pc = "waiting", !.load = r])
             /\ entries' = IF Len(Pruned(asked.market)) < MaxEntries
                           THEN Append(Pruned(asked.market), [market |-> asked.market, load |-> r, expiresAt |-> 0])
                           ELSE Pruned(asked.market)
             /\ inFlight' = inFlight + 1
    <3>1. PICK new, entry, pruned :
              /\ new = [asked EXCEPT !.pc = "waiting", !.load = r]
              /\ entry = [market |-> asked.market, load |-> r, expiresAt |-> 0]
              /\ pruned = Pruned(market)
      OBVIOUS
    <3>2. new \in Read /\ new.pc = "waiting" /\ new.age = 0 /\ new.load = r /\ new.market = market
      BY <1>4, <3>1 DEF Read
    <3>3. ReadOk(new)
      BY <3>2 DEF ReadOk
    <3>4. Set(r, new) /\ inFlight' = inFlight + 1
          /\ entries' = IF Len(pruned) < MaxEntries THEN Append(pruned, entry) ELSE pruned
      BY <1>4, <2>5, <3>1
    <3>5. /\ pruned \in Seq(Entry) /\ Len(pruned) <= Len(entries) /\ Selects(pruned, entries)
          /\ \A k \in 1..Len(pruned) : pruned[k].market # market
      BY <3>1, PrunedFacts
    <3>6. OneKey(pruned) /\ \A k \in 1..Len(pruned) : \E j \in 1..Len(entries) : pruned[k] = entries[j]
      BY <1>6, <3>5, KeysSelected
    <3>7. \A k \in 1..Len(pruned) : EntryOk(pruned[k], read, ticks)
      BY <1>6, <3>6
    <3>8. CASE Len(pruned) < MaxEntries
      <4>1. entry \in Entry /\ entry.market = market /\ entry.load = r
        BY <1>4, <3>1 DEF Entry
      <4>2. read'[r] = new
        BY <3>4 DEF Set, ReadsTypeOK
      <4>3. entry.load # Nothing => EntryOk(entry, read', ticks)
        BY <3>2, <4>1, <4>2 DEF EntryOk
      <4>4. entry.load = Nothing => EntryOk(entry, read', ticks)
        BY <1>6, <3>1 DEF EntryOk
      <4>5. EntryOk(entry, read', ticks)
        BY <4>3, <4>4
      <4>6. entries' = Append(pruned, entry)
        BY <3>4, <3>8
      <4>7. /\ entries' \in Seq(Entry) /\ Len(entries') = Len(pruned) + 1 /\ OneKey(entries')
            /\ \A k \in 1..Len(entries') :
                 entries'[k] = entry \/ \E j \in 1..Len(pruned) : entries'[k] = pruned[j]
        BY <3>5, <3>6, <4>1, <4>6, AddEntry
      <4>8. \A k \in 1..Len(entries') : EntryOk(entries'[k], read, ticks) \/ EntryOk(entries'[k], read', ticks)
        <5> TAKE k \in 1..Len(entries')
        <5>1. CASE entries'[k] = entry
          BY <4>5, <5>1
        <5>2. CASE \E j \in 1..Len(pruned) : entries'[k] = pruned[j]
          BY <3>7, <5>2
        <5> QED BY <4>7, <5>1, <5>2
      <4>9. Len(entries') <= MaxEntries
        <5>1. Len(pruned) \in Nat
          BY <3>5
        <5> QED BY <1>6, <3>8, <4>7, <5>1
      <4> QED BY <1>2, <1>5, <2>1, <3>2, <3>3, <3>4, <4>7, <4>8, <4>9, AskInv
    <3>9. CASE ~(Len(pruned) < MaxEntries)
      <4>1. entries' = pruned
        BY <3>4, <3>9
      <4>2. Len(entries') <= MaxEntries
        <5>1. Len(pruned) \in Nat
          BY <3>5
        <5> QED BY <1>6, <3>5, <4>1, <5>1
      <4>3. \A k \in 1..Len(entries') : EntryOk(entries'[k], read, ticks)
        BY <3>7, <4>1
      <4> QED BY <1>2, <1>5, <2>1, <3>2, <3>3, <3>4, <3>5, <3>6, <4>1, <4>2, <4>3, AskInv
    <3> QED BY <3>8, <3>9
  <2> QED BY <2>2, <2>3, <2>4, <2>5 DEF Get
<1> QED BY <1>7, <1>8

-----------------------------------------------------------------------------
(* The end of a load *)

LEMMA AfterLoadFacts ==
    ASSUME ReadsTypeOK, ReadsInv, NEW r \in Reads, NEW ok \in BOOLEAN, NEW new, new = AfterLoad(r, ok),
           NEW now \in Nat, now = ticks
    PROVE  /\ new \in Seq(Entry) /\ OneKey(new) /\ Len(new) <= MaxEntries
           /\ \A k \in 1..Len(new) :
                 \/ new[k].load = Nothing /\ new[k].expiresAt <= now + TtlTicks
                 \/ new[k].load # r /\ EntryOk(new[k], read, now)
<1>1. /\ entries \in Seq(Entry) /\ OneKey(entries) /\ Len(entries) \in Nat /\ Len(entries) <= MaxEntries
      /\ \A k \in 1..Len(entries) : entries[k] \in Entry /\ EntryOk(entries[k], read, now)
      /\ DOMAIN entries = 1..Len(entries) /\ MaxEntries \in Nat /\ TtlTicks \in Nat
  BY PublicReadsBounds DEF ReadsTypeOK, ReadsInv
<1>2. CASE ok
  <2>1. new = [i \in DOMAIN entries |-> IF entries[i].load = r
                                        THEN [entries[i] EXCEPT !.load = Nothing, !.expiresAt = ticks + TtlTicks]
                                        ELSE entries[i]]
    BY <1>2 DEF AfterLoad
  <2>2. ASSUME NEW i \in 1..Len(entries)
        PROVE  /\ new[i] \in Entry /\ new[i].market = entries[i].market
               /\ \/ new[i].load = Nothing /\ new[i].expiresAt <= now + TtlTicks
                  \/ new[i].load # r /\ EntryOk(new[i], read, now)
    <3>1. entries[i] \in Entry /\ EntryOk(entries[i], read, now)
      BY <1>1
    <3>2. CASE entries[i].load = r
      <4>1. new[i] = [entries[i] EXCEPT !.load = Nothing, !.expiresAt = now + TtlTicks]
        BY <1>1, <2>1, <3>2
      <4>2. now + TtlTicks \in Nat
        BY <1>1
      <4>3. new[i] \in Entry /\ new[i].market = entries[i].market /\ new[i].load = Nothing
            /\ new[i].expiresAt = now + TtlTicks
        BY <3>1, <4>1, <4>2 DEF Entry
      <4> QED BY <4>2, <4>3
    <3>3. CASE entries[i].load # r
      <4>1. new[i] = entries[i]
        BY <1>1, <2>1, <3>3
      <4> QED BY <3>1, <3>3, <4>1
    <3> QED BY <3>2, <3>3
  <2>3. new \in Seq(Entry) /\ Len(new) = Len(entries)
    <3>1. new \in [1..Len(entries) -> Entry]
      BY <1>1, <2>1, <2>2
    <3> QED BY <1>1, <3>1
  <2>4. OneKey(new)
    BY <1>1, <2>2, <2>3 DEF OneKey
  <2> QED BY <1>1, <2>2, <2>3, <2>4
<1>3. CASE ~ok
  <2>1. PICK others : others = {e \in Entry : e.load # r}
    OBVIOUS
  <2>2. new = Kept(entries, others)
    BY <1>3, <2>1 DEF AfterLoad
  <2>3. /\ new \in Seq(Entry) /\ Len(new) <= Len(entries) /\ Selects(new, entries)
        /\ \A k \in 1..Len(new) : new[k] \in Entry \cap others
    BY <1>1, <2>2, KeptSelects
  <2>4. OneKey(new) /\ \A k \in 1..Len(new) : \E i \in 1..Len(entries) : new[k] = entries[i]
    BY <1>1, <2>3, KeysSelected
  <2>5. \A k \in 1..Len(new) : new[k].load # r /\ EntryOk(new[k], read, now)
    BY <1>1, <2>1, <2>3, <2>4
  <2>6. Len(new) <= MaxEntries
    <3>1. Len(new) \in Nat
      BY <2>3
    <3> QED BY <1>1, <2>3, <3>1
  <2> QED BY <2>3, <2>4, <2>5, <2>6
<1> QED BY <1>2, <1>3

LEMMA LoadEndsKeeps ==
    ASSUME ReadsTypeOK, ReadsInv, NEW r \in Reads, LoadEnds(r)
    PROVE  (ReadsTypeOK /\ ReadsInv)'
<1>1. PICK ok \in BOOLEAN :
          /\ entries' = AfterLoad(r, ok)
          /\ read' = [q \in Reads |-> IF q \in Waiting(r)
                                      THEN [read[q] EXCEPT !.pc = IF ok THEN "answered" ELSE "failed"]
                                      ELSE read[q]]
  BY DEF LoadEnds
<1>2. PICK former : former = Waiting(r)
  OBVIOUS
<1>3. /\ inFlight' = inFlight - Cardinality(former) /\ buckets' = buckets /\ ticks' = ticks
      /\ former = {q \in Reads : read[q].pc = "waiting" /\ read[q].load = r} /\ ticks \in Nat
      /\ TtlTicks \in Nat /\ TtlTicks > 0 /\ MaxInFlight \in Nat
  BY <1>2, PublicReadsBounds DEF LoadEnds, Waiting, ReadsTypeOK
<1>4. ASSUME NEW q \in Reads
      PROVE  /\ read'[q] \in Read /\ ReadOk(read'[q])
             /\ q \in former => read'[q].pc \in {"answered", "failed"}
             /\ q \notin former => read'[q] = read[q]
  <2>1. read[q] \in Read /\ ReadOk(read[q])
    BY DEF ReadsTypeOK, ReadsInv
  <2>2. CASE q \in former
    <3>1. read'[q] = [read[q] EXCEPT !.pc = IF ok THEN "answered" ELSE "failed"]
      BY <1>1, <1>2, <2>2
    <3>2. read[q].age = 0
      BY <1>3, <2>1, <2>2 DEF ReadOk
    <3>3. read'[q] \in Read /\ read'[q].pc \in {"answered", "failed"} /\ read'[q].age = 0
      BY <2>1, <3>1, <3>2 DEF Read
    <3>4. ReadOk(read'[q])
      BY <1>3, <3>3 DEF ReadOk
    <3> QED BY <2>2, <3>3, <3>4
  <2>3. CASE q \notin former
    <3>1. read'[q] = read[q]
      BY <1>1, <1>2, <2>3
    <3> QED BY <2>1, <2>3, <3>1
  <2> QED BY <2>2, <2>3
<1>5. read' \in [Reads -> Read]
  BY <1>1, <1>4
<1>6. AllWaiting' = AllWaiting \ former /\ former = AllWaiting \cap former
  BY <1>3, <1>4 DEF AllWaiting
<1>7. /\ IsFiniteSet(AllWaiting) /\ Cardinality(AllWaiting) \in Nat
      /\ inFlight = Cardinality(AllWaiting) /\ inFlight <= MaxInFlight
  BY FS_CardinalityType DEF ReadsInv
<1>8. IsFiniteSet(AllWaiting \ former) /\ Cardinality(AllWaiting \ former) = Cardinality(AllWaiting) - Cardinality(former)
  BY <1>6, <1>7, FS_Difference
<1>9. Cardinality(AllWaiting \ former) \in Nat /\ Cardinality(AllWaiting \ former) <= Cardinality(AllWaiting)
  BY <1>7, <1>8, FS_CardinalityType, FS_Subset
<1>10. IsFiniteSet(AllWaiting') /\ inFlight' = Cardinality(AllWaiting') /\ inFlight' \in Nat /\ inFlight' <= MaxInFlight
  BY <1>3, <1>6, <1>7, <1>8, <1>9
<1>11. PICK new, now : new = AfterLoad(r, ok) /\ now = ticks
  OBVIOUS
<1>12. /\ new \in Seq(Entry) /\ OneKey(new) /\ Len(new) <= MaxEntries
       /\ \A k \in 1..Len(new) :
             \/ new[k].load = Nothing /\ new[k].expiresAt <= now + TtlTicks
             \/ new[k].load # r /\ EntryOk(new[k], read, now)
  BY <1>3, <1>11, AfterLoadFacts
<1>13. entries' = new /\ ticks' = now /\ now \in Nat
  BY <1>1, <1>3, <1>11
<1>14. ASSUME NEW k \in 1..Len(new)
       PROVE  EntryOk(new[k], read', now)
  <2>1. CASE new[k].load = Nothing /\ new[k].expiresAt <= now + TtlTicks
    BY <2>1 DEF EntryOk
  <2>2. CASE new[k].load # r /\ EntryOk(new[k], read, now) /\ new[k].load # Nothing
    <3>1. new[k].load \in Reads \ former
      BY <1>3, <2>2 DEF EntryOk
    <3>2. read'[new[k].load] = read[new[k].load]
      BY <1>4, <3>1
    <3> QED BY <2>2, <3>1, <3>2 DEF EntryOk
  <2>3. CASE new[k].load # r /\ EntryOk(new[k], read, now) /\ new[k].load = Nothing
    BY <2>3 DEF EntryOk
  <2> QED BY <1>12, <2>1, <2>2, <2>3
<1>15. ReadsTypeOK'
  BY <1>3, <1>5, <1>10, <1>12, <1>13 DEF ReadsTypeOK
<1>16. \A k \in 1..Len(entries') : EntryOk(entries'[k], read', ticks')
  BY <1>13, <1>14
<1>17. Windows(buckets') /\ Len(buckets') <= MaxClients
  BY <1>3 DEF ReadsInv
<1>18. OneKey(entries') /\ Len(entries') <= MaxEntries
  BY <1>12, <1>13
<1>19. ReadsInv'
  BY <1>4, <1>10, <1>16, <1>17, <1>18 DEF ReadsInv
<1> QED BY <1>15, <1>19

LEMMA TickKeeps ==
    ASSUME ReadsTypeOK, ReadsInv, Tick
    PROVE  (ReadsTypeOK /\ ReadsInv)'
<1>1. /\ read' = read /\ buckets' = buckets /\ inFlight' = inFlight /\ entries' = entries
      /\ ticks' = ticks + 1 /\ ticks < MaxTicks /\ ticks \in 0..MaxTicks
  BY DEF Tick, ReadsTypeOK
<1>2. AllWaiting' = AllWaiting
  BY <1>1 DEF AllWaiting
<1>3. \A k \in 1..Len(entries) : EntryOk(entries[k], read, ticks')
  <2> TAKE k \in 1..Len(entries)
  <2>1. entries[k] \in Entry /\ EntryOk(entries[k], read, ticks)
    BY DEF ReadsTypeOK, ReadsInv
  <2>2. entries[k].expiresAt \in Nat /\ TtlTicks \in Nat
    BY <2>1, PublicReadsBounds DEF Entry
  <2>3. entries[k].load = Nothing => entries[k].expiresAt <= ticks' + TtlTicks
    BY <1>1, <2>1, <2>2, PublicReadsBounds DEF EntryOk
  <2> QED BY <2>1, <2>3 DEF EntryOk
<1>4. ticks' \in 0..MaxTicks
  BY <1>1, PublicReadsBounds
<1>5. ReadsTypeOK'
  BY <1>1, <1>4 DEF ReadsTypeOK
<1>6. ReadsInv'
  BY <1>1, <1>2, <1>3 DEF ReadsInv
<1> QED BY <1>5, <1>6

(* What every request, load, failure and eviction keeps: the counts, the   *)
(* windows, one entry per key, and what an entry says of its load.         *)
THEOREM ReadsKeepCount == ReadsSpec => [](ReadsTypeOK /\ ReadsInv)
<1>1. ReadsInit => ReadsTypeOK /\ ReadsInv
  <2> SUFFICES ASSUME ReadsInit
               PROVE  ReadsTypeOK /\ ReadsInv
    OBVIOUS
  <2>1. /\ buckets = <<>> /\ entries = <<>> /\ inFlight = 0 /\ ticks = 0
        /\ {TtlTicks, MaxInFlight, MaxClients, MaxEntries} \subseteq Nat \ {0} /\ MaxTicks \in Nat
    BY PublicReadsBounds DEF ReadsInit
  <2>2. read \in [Reads -> Read] /\ \A r \in Reads : read[r].pc = "unasked" /\ ReadOk(read[r])
    <3>1. [pc |-> "unasked", market |-> Nothing, load |-> Nothing, age |-> 0] \in Read
      BY DEF Read
    <3> QED BY <3>1 DEF ReadsInit, ReadOk
  <2>3. AllWaiting = {}
    BY <2>2 DEF AllWaiting
  <2>4. IsFiniteSet(AllWaiting) /\ Cardinality(AllWaiting) = 0
    BY <2>3, FS_EmptySet
  <2>5. Len(buckets) = 0 /\ Len(entries) = 0 /\ buckets \in Seq(Bucket) /\ entries \in Seq(Entry)
    BY <2>1
  <2>6. ReadsTypeOK
    BY <2>1, <2>2, <2>5 DEF ReadsTypeOK
  <2>7. Windows(buckets) /\ OneKey(entries) /\ \A k \in 1..Len(entries) : EntryOk(entries[k], read, ticks)
    BY <2>5 DEF Windows, OneKey
  <2>8. inFlight <= MaxInFlight /\ Len(buckets) <= MaxClients /\ Len(entries) <= MaxEntries
    BY <2>1, <2>5
  <2> QED BY <2>1, <2>2, <2>4, <2>6, <2>7, <2>8 DEF ReadsInv
<1>2. ReadsTypeOK /\ ReadsInv /\ [ReadsNext]_readVars => (ReadsTypeOK /\ ReadsInv)'
  <2> SUFFICES ASSUME ReadsTypeOK, ReadsInv, [ReadsNext]_readVars
               PROVE  (ReadsTypeOK /\ ReadsInv)'
    OBVIOUS
  <2>1. CASE Tick
    BY <2>1, TickKeeps
  <2>2. ASSUME NEW r \in Reads, Ask(r) PROVE (ReadsTypeOK /\ ReadsInv)'
    BY <2>2, AskKeeps
  <2>3. ASSUME NEW r \in Reads, LoadEnds(r) PROVE (ReadsTypeOK /\ ReadsInv)'
    BY <2>3, LoadEndsKeeps
  <2>4. CASE UNCHANGED readVars
    <3>1. /\ read' = read /\ buckets' = buckets /\ inFlight' = inFlight /\ entries' = entries /\ ticks' = ticks
          /\ AllWaiting' = AllWaiting
      BY <2>4 DEF readVars, AllWaiting
    <3> QED BY <3>1 DEF ReadsTypeOK, ReadsInv
  <2> QED BY <2>1, <2>2, <2>3, <2>4 DEF ReadsNext
<1> QED BY <1>1, <1>2, PTL DEF ReadsSpec

(* The guard and the cache keep their word under any order of requests,    *)
(* loads and failures (run of public-api-guard, get of short-cache).       *)
THEOREM PublicReadsAreSound == ReadsSpec => []PublicReadsSound
<1>1. ReadsTypeOK /\ ReadsInv => PublicReadsSound
  <2> SUFFICES ASSUME ReadsTypeOK, ReadsInv
               PROVE  PublicReadsSound
    OBVIOUS
  <2>1. DOMAIN buckets = 1..Len(buckets) /\ DOMAIN entries = 1..Len(entries)
    BY DEF ReadsTypeOK
  <2>2. /\ inFlight = Cardinality({r \in Reads : read[r].pc = "waiting"}) /\ inFlight <= MaxInFlight
        /\ Len(buckets) <= MaxClients /\ Len(entries) <= MaxEntries
    BY DEF ReadsInv, AllWaiting
  <2>3. /\ \A i \in DOMAIN buckets : buckets[i].count <= Limit
        /\ \A i, j \in DOMAIN entries : entries[i].market = entries[j].market => i = j
    BY <2>1 DEF ReadsInv, Windows, OneKey
  <2>4. \A r \in Reads : read[r].pc = "answered" => read[r].age < TtlTicks
    BY DEF ReadsInv, ReadOk
  <2>5. ASSUME NEW i \in DOMAIN entries, NEW l, l = entries[i].load, l # Nothing
        PROVE  l \in Waiting(l) /\ read[l].market = entries[i].market
    BY <2>1, <2>5 DEF ReadsInv, EntryOk, Waiting
  <2> QED BY <2>2, <2>3, <2>4, <2>5 DEF PublicReadsSound
<1> QED BY <1>1, ReadsKeepCount, PTL

-----------------------------------------------------------------------------
(* The outbox: its inductive invariant *)

(* What is true of a saved or working state, whichever run wrote it: an    *)
(* alert that is due is in its outbox or with the operator, a handled      *)
(* message was served as promised, so were the lines before the offset, a  *)
(* session that counts a reply has one, and the number of a status change  *)
(* was given before its alert.                                             *)
StateOk(s) ==
    /\ \A a \in 1..s.sequence \cup noted : a \in ToSet(s.outbox) \/ telegram[a] > 0
    /\ \A a \in ToSet(s.delivered) : telegram[a] > 0
    /\ \A m \in s.handled : Served(m) /\ (reviewer => commands[m] > 0)
    /\ gone = 0 => s.offset <= Len(log) /\ \A i \in 1..s.offset : Served(log[i])
    /\ \A a \in ToSet(s.outbox) : a \in 0..MaxChanges => a <= s.sequence

SessionServed(s) == s.session => \E m \in Messages : Answered(m)

(* An alert that may still be sent without a doubt or a further reply: it  *)
(* is in s's outbox, has not got its number yet, or is queued next.        *)
MayCome(s, a) ==
    \/ a \in ToSet(s.outbox)
    \/ script = "watch" /\ a \in 0..MaxChanges /\ a > s.sequence
    \/ run.pc = "queued" /\ a = log[run.line]

(* How often the operator may hear an alert when nothing is in doubt.      *)
Allowed(a) == IF a \in Messages THEN commands[a] ELSE 1

Replying == run.pc \in {"enqueue", "queued"}

(* Why a reply may have been repeated.                                     *)
Excuses == doubts + forgets

(* The run that goes on has answered m, or found it answered.              *)
AnsweredNow(m) ==
    /\ run.pc # "idle"
    /\ m \in memory.handled \/ (run.pc = "queued" /\ m = log[run.line])

(* ... has answered an ordinary peer.                                      *)
PeerAnswered == script = "respond" /\ run.pc \notin {"idle", "enqueue"} /\ memory.session

LineInv ==
    /\ gone + Len(log) <= MaxLines
    /\ script = "watch" => ~reviewer /\ run.pc \in {"idle", "flush", "flush_again"} /\ run.line = 0
    /\ gone = 0 =>
          /\ run.line <= Len(log)
          /\ \A i \in 1..run.line : i < run.line \/ ~Replying => Served(log[i])
    /\ Replying => run.line \in 1..Len(log)
    /\ run.pc = "enqueue" => log[run.line] \notin memory.handled /\ memory.session
    /\ run.pc = "queued" => commands[log[run.line]] > 0

(* An alert was sent as often as it may be, with the doubts; one that may  *)
(* still come, less often.                                                 *)
AlertsOk(d, e) ==
    /\ \A a \in Alerts : telegram[a] <= Allowed(a) + doubts
    /\ run.pc # "idle" => \A a \in Alerts : MayCome(e, a) => telegram[a] < Allowed(a) + doubts
    /\ run.pc = "idle" => \A a \in Alerts :
          (script = "respond" /\ a \notin Messages) \/ MayCome(d, a) => telegram[a] < Allowed(a) + doubts

(* So was a reply, but for the one that the present run knows of.          *)
ReplyInv ==
    /\ reviewer => \A m \in Messages :
          /\ commands[m] <= Excuses + 1
          /\ AnsweredNow(m) \/ commands[m] <= Excuses
    /\ ~reviewer =>
          /\ IsFiniteSet(Replies)
          /\ Cardinality(Replies) <= Excuses + 1
          /\ PeerAnswered \/ Cardinality(Replies) <= Excuses

(* Between two runs the memory is empty.                                   *)
OutboxInv ==
    /\ StateOk(disk) /\ SessionServed(disk)
    /\ run.pc # "idle" => StateOk(memory) /\ (Replying \/ SessionServed(memory))
    /\ LineInv
    /\ AlertsOk(disk, memory)
    /\ ReplyInv

(* The elements of the sequences that the code makes.                      *)
LEMMA AppendSet ==
    ASSUME NEW X, NEW s \in Seq(X), NEW x \in X
    PROVE  Append(s, x) \in Seq(X) /\ ToSet(Append(s, x)) = ToSet(s) \cup {x}
<1>1. PICK t : t = Append(s, x)
  OBVIOUS
<1>2. /\ t \in Seq(X) /\ Len(t) = Len(s) + 1 /\ Len(s) \in Nat
      /\ \A i \in 1..Len(s) : t[i] = s[i]
      /\ t[Len(s) + 1] = x
  BY <1>1, AppendProperties
<1>3. DOMAIN t = 1..Len(t) /\ DOMAIN s = 1..Len(s)
  BY <1>2
<1>4. ToSet(t) = {t[i] : i \in DOMAIN t} /\ ToSet(s) = {s[i] : i \in DOMAIN s}
  BY DEF ToSet
<1>5. ASSUME NEW y \in ToSet(t) PROVE y \in ToSet(s) \cup {x}
  <2>1. PICK i \in 1..Len(t) : y = t[i]
    BY <1>3, <1>4, <1>5
  <2>2. i \in 1..Len(s) \/ i = Len(s) + 1
    BY <1>2
  <2> QED BY <1>2, <1>3, <1>4, <2>1, <2>2
<1>6. ASSUME NEW y \in ToSet(s) \cup {x} PROVE y \in ToSet(t)
  <2>1. CASE y = x
    <3>1. Len(s) + 1 \in 1..Len(t)
      BY <1>2
    <3> QED BY <1>2, <1>3, <1>4, <2>1, <3>1
  <2>2. CASE y \in ToSet(s)
    <3>1. PICK i \in 1..Len(s) : y = s[i]
      BY <1>3, <1>4, <2>2
    <3>2. i \in 1..Len(t)
      BY <1>2
    <3> QED BY <1>2, <1>3, <1>4, <3>1, <3>2
  <2> QED BY <1>6, <2>1, <2>2
<1>7. ToSet(t) = ToSet(s) \cup {x}
  BY <1>5, <1>6
<1> QED BY <1>1, <1>2, <1>7

LEMMA KeptSet ==
    ASSUME NEW X, NEW s \in Seq(X), NEW set
    PROVE  Kept(s, set) \in Seq(X) /\ ToSet(Kept(s, set)) = ToSet(s) \cap set
<1>1. PICK t : t = Kept(s, set)
  OBVIOUS
<1>2. /\ t \in Seq(X) /\ Selects(t, s)
      /\ \A k \in 1..Len(t) : t[k] \in set
      /\ \A i \in 1..Len(s) : s[i] \in set => \E k \in 1..Len(t) : t[k] = s[i]
  BY <1>1, KeptSelects
<1>3. DOMAIN t = 1..Len(t) /\ DOMAIN s = 1..Len(s)
  BY <1>2
<1>4. ToSet(t) = {t[i] : i \in DOMAIN t} /\ ToSet(s) = {s[i] : i \in DOMAIN s}
  BY DEF ToSet
<1>5. \A k \in 1..Len(t) : \E i \in 1..Len(s) : t[k] = s[i]
  BY <1>2 DEF Selects
<1>6. ToSet(t) \subseteq ToSet(s) \cap set
  BY <1>2, <1>3, <1>4, <1>5
<1>7. ToSet(s) \cap set \subseteq ToSet(t)
  BY <1>2, <1>3, <1>4
<1> QED BY <1>1, <1>2, <1>6, <1>7

LEMMA LatestSet ==
    ASSUME NEW X, NEW s \in Seq(X)
    PROVE  LatestDelivered(s) \in Seq(X) /\ ToSet(LatestDelivered(s)) \subseteq ToSet(s)
<1>1. PICK m : m = IF Len(s) > MaxDelivered THEN Len(s) - MaxDelivered + 1 ELSE 1
  OBVIOUS
<1>2. PICK t : t = LatestDelivered(s)
  OBVIOUS
<1>3. m \in 1..Len(s) + 1
  <2>1. MaxDelivered \in Nat /\ MaxDelivered > 0 /\ Len(s) \in Nat
    BY OutboxBounds
  <2>2. CASE Len(s) > MaxDelivered
    <3>1. m = Len(s) - MaxDelivered + 1
      BY <1>1, <2>2
    <3> QED BY <2>1, <2>2, <3>1
  <2>3. CASE ~(Len(s) > MaxDelivered)
    <3>1. m = 1
      BY <1>1, <2>3
    <3> QED BY <2>1, <3>1
  <2> QED BY <2>2, <2>3
<1>4. t = SubSeq(s, m, Len(s))
  BY <1>1, <1>2 DEF LatestDelivered
<1>5. t \in Seq(X) /\ Selects(t, s)
  BY <1>3, <1>4, TailSelects
<1>6. \A k \in 1..Len(t) : \E i \in 1..Len(s) : t[k] = s[i]
  BY <1>5 DEF Selects
<1>7. DOMAIN t = 1..Len(t) /\ DOMAIN s = 1..Len(s)
  BY <1>5
<1>8. ToSet(t) \subseteq ToSet(s)
  BY <1>6, <1>7 DEF ToSet
<1> QED BY <1>2, <1>5, <1>8

(* All fields but the two lists.                                           *)
SameRecord(s, t) ==
    /\ t.last = s.last /\ t.sequence = s.sequence /\ t.offset = s.offset
    /\ t.handled = s.handled /\ t.session = s.session

(* queue_notification adds the alert unless it is there or was delivered.  *)
LEMMA QueueFacts ==
    ASSUME NEW s \in Saved, NEW alert \in Alerts, NEW t, t = QueueNotification(s, alert)
    PROVE  /\ t \in Saved /\ SameRecord(s, t) /\ t.delivered = s.delivered
           /\ \/ ToSet(t.outbox) = ToSet(s.outbox) \cup {alert}
              \/ ToSet(t.outbox) = ToSet(s.outbox) /\ alert \in ToSet(s.delivered)
<1>1. s.outbox \in Seq(Alerts) /\ s.delivered \in Seq(Alerts)
  BY DEF Saved
<1>2. CASE alert \in ToSet(s.outbox) \cup ToSet(s.delivered)
  <2>1. t = s
    BY <1>2 DEF QueueNotification
  <2>2. ToSet(t.outbox) = ToSet(s.outbox) \cup {alert} \/ alert \in ToSet(s.delivered)
    BY <1>2, <2>1
  <2> QED BY <2>1, <2>2 DEF SameRecord
<1>3. CASE alert \notin ToSet(s.outbox) \cup ToSet(s.delivered)
  <2>1. PICK outbox : outbox = Append(s.outbox, alert)
    OBVIOUS
  <2>2. outbox \in Seq(Alerts) /\ ToSet(outbox) = ToSet(s.outbox) \cup {alert}
    BY <1>1, <2>1, AppendSet
  <2>3. t = [s EXCEPT !.outbox = outbox]
    BY <1>3, <2>1 DEF QueueNotification
  <2>4. t \in Saved /\ t.outbox = outbox /\ SameRecord(s, t) /\ t.delivered = s.delivered
    BY <2>2, <2>3 DEF Saved, SameRecord
  <2> QED BY <2>2, <2>4
<1> QED BY <1>2, <1>3

(* An alert that was sent goes from the outbox to the delivered ones.      *)
LEMMA AttemptFacts ==
    ASSUME NEW s \in Saved, NEW alert \in Alerts, NEW t, t = Attempted(s, alert, TRUE)
    PROVE  /\ t \in Saved /\ SameRecord(s, t)
           /\ ToSet(t.outbox) = ToSet(s.outbox) \ {alert}
           /\ ToSet(t.delivered) \subseteq ToSet(s.delivered) \cup {alert}
<1>1. s.outbox \in Seq(Alerts) /\ s.delivered \in Seq(Alerts)
  BY DEF Saved
<1>2. PICK outbox, longer, delivered :
          /\ outbox = Kept(s.outbox, Alerts \ {alert})
          /\ longer = Append(s.delivered, alert)
          /\ delivered = LatestDelivered(longer)
  OBVIOUS
<1>3. outbox \in Seq(Alerts) /\ ToSet(outbox) = ToSet(s.outbox) \cap (Alerts \ {alert})
  BY <1>1, <1>2, KeptSet
<1>4. longer \in Seq(Alerts) /\ ToSet(longer) = ToSet(s.delivered) \cup {alert}
  BY <1>1, <1>2, AppendSet
<1>5. delivered \in Seq(Alerts) /\ ToSet(delivered) \subseteq ToSet(longer)
  BY <1>2, <1>4, LatestSet
<1>6. t = [s EXCEPT !.outbox = outbox, !.delivered = delivered]
  BY <1>2 DEF Attempted
<1>7. t \in Saved /\ SameRecord(s, t) /\ t.outbox = outbox /\ t.delivered = delivered
  BY <1>3, <1>5, <1>6 DEF Saved, SameRecord
<1>8. ToSet(s.outbox) \subseteq Alerts
  BY <1>1 DEF ToSet
<1> QED BY <1>3, <1>4, <1>5, <1>7, <1>8

-----------------------------------------------------------------------------
(* The outbox: the world only grows, and what is true of a state stays so *)

WorldGrows ==
    /\ reviewer' = reviewer /\ failed \subseteq failed'
    /\ gone' = 0 => gone = 0 /\ Len(log) <= Len(log') /\ \A i \in 1..Len(log) : log'[i] = log[i]
    /\ \A a \in Alerts : telegram[a] > 0 => telegram'[a] > 0
    /\ \A m \in Messages : commands[m] > 0 => commands'[m] > 0

LEMMA SavedFacts ==
    ASSUME NEW s \in Saved
    PROVE  /\ s.outbox \in Seq(Alerts) /\ s.delivered \in Seq(Alerts)
           /\ ToSet(s.outbox) \subseteq Alerts /\ ToSet(s.delivered) \subseteq Alerts
           /\ s.sequence \in 0..MaxChanges /\ s.offset \in 0..MaxLines
           /\ 1..s.sequence \subseteq Alerts
           /\ s.handled \subseteq Messages /\ s.session \in BOOLEAN
           /\ MaxChanges \in Nat /\ MaxLines \in Nat
<1>1. MaxChanges \in Nat /\ MaxLines \in Nat
  BY OutboxBounds
<1>2. s.outbox \in Seq(Alerts) /\ s.delivered \in Seq(Alerts)
  BY DEF Saved
<1>3. ToSet(s.outbox) \subseteq Alerts /\ ToSet(s.delivered) \subseteq Alerts
  BY <1>2 DEF ToSet
<1>4. /\ s.sequence \in 0..MaxChanges /\ s.offset \in 0..MaxLines
      /\ s.handled \subseteq Messages /\ s.session \in BOOLEAN
  BY DEF Saved
<1>5. 1..s.sequence \subseteq Alerts
  BY <1>1, <1>4 DEF Alerts
<1> QED BY <1>1, <1>2, <1>3, <1>4, <1>5

(* What is served stays served.                                            *)
LEMMA ServedGrows ==
    ASSUME WorldGrows, NEW m \in Messages
    PROVE  /\ Answered(m) => Answered(m)'
           /\ Served(m) => Served(m)'
<1>1. \A l \in Messages : Answered(l) => Answered(l)'
  BY DEF WorldGrows, Answered
<1>2. Served(m) => Served(m)'
  <2> HAVE Served(m)
  <2>1. CASE reviewer
    BY <1>1, <2>1 DEF Served, WorldGrows
  <2>2. CASE ~reviewer
    <3>1. PICK l \in Messages : Answered(l)
      BY <2>2 DEF Served
    <3>2. Answered(l)' /\ ~reviewer'
      BY <1>1, <2>2, <3>1 DEF WorldGrows
    <3> QED BY <3>2 DEF Served
  <2> QED BY <2>1, <2>2
<1> QED BY <1>1, <1>2

LEMMA StateGrows ==
    ASSUME OutboxTypeOK, NEW s \in Saved, StateOk(s), WorldGrows, noted' = noted, Len(log') \in Nat
    PROVE  StateOk(s)'
<1>1. /\ ToSet(s.delivered) \subseteq Alerts /\ 1..s.sequence \cup noted \subseteq Alerts
      /\ s.handled \subseteq Messages /\ s.offset \in Nat
  BY SavedFacts DEF OutboxTypeOK, Alerts
<1>2. \A a \in 1..s.sequence \cup noted : a \in ToSet(s.outbox) \/ telegram'[a] > 0
  BY <1>1 DEF StateOk, WorldGrows
<1>3. \A a \in ToSet(s.delivered) : telegram'[a] > 0
  BY <1>1 DEF StateOk, WorldGrows
<1>4. ASSUME NEW m \in s.handled
      PROVE  Served(m)' /\ (reviewer' => commands'[m] > 0)
  <2>1. m \in Messages /\ Served(m) /\ (reviewer => commands[m] > 0)
    BY <1>1, <1>4 DEF StateOk
  <2> QED BY <2>1, ServedGrows DEF WorldGrows
<1>5. ASSUME gone' = 0
      PROVE  s.offset <= Len(log') /\ \A i \in 1..s.offset : Served(log[i])'
  <2>1. /\ s.offset <= Len(log) /\ (\A i \in 1..s.offset : Served(log[i]))
        /\ Len(log) <= Len(log') /\ \A i \in 1..Len(log) : log'[i] = log[i]
    BY <1>5 DEF StateOk, WorldGrows
  <2>2. Len(log) \in Nat /\ (\A i \in 1..Len(log) : log[i] \in Messages) /\ Len(log') >= Len(log)
    BY <2>1 DEF OutboxTypeOK
  <2>3. ASSUME NEW i \in 1..s.offset PROVE Served(log[i])'
    <3>1. PICK m : m = log[i]
      OBVIOUS
    <3>2. i \in 1..Len(log) /\ m \in Messages /\ Served(m) /\ log'[i] = m
      BY <1>1, <2>1, <2>2, <3>1
    <3>3. Served(m)'
      BY <3>2, ServedGrows
    <3> QED BY <3>2, <3>3
  <2>4. s.offset <= Len(log')
    BY <1>1, <2>1, <2>2
  <2> QED BY <2>3, <2>4
<1>6. \A a \in ToSet(s.outbox) : a \in 0..MaxChanges => a <= s.sequence
  BY DEF StateOk
<1> QED BY <1>2, <1>3, <1>4, <1>5, <1>6 DEF StateOk

LEMMA SessionGrows ==
    ASSUME NEW s, SessionServed(s), WorldGrows
    PROVE  SessionServed(s)'
<1> SUFFICES ASSUME s.session
             PROVE  \E m \in Messages : Answered(m)'
  BY DEF SessionServed
<1>1. PICK m \in Messages : Answered(m)
  BY DEF SessionServed
<1> QED BY <1>1, ServedGrows

(* A state that queued an alert, and one that attempted one.               *)
LEMMA StateQueued ==
    ASSUME NEW s \in Saved, StateOk(s), NEW alert \in Alerts, NEW t \in Saved,
           SameRecord(s, t), t.delivered = s.delivered,
           \/ ToSet(t.outbox) = ToSet(s.outbox) \cup {alert}
           \/ ToSet(t.outbox) = ToSet(s.outbox),
           alert \in 0..MaxChanges => alert <= s.sequence
    PROVE  StateOk(t)
BY DEF StateOk, SameRecord

LEMMA StateAttempted ==
    ASSUME NEW s, StateOk(s)', NEW alert, telegram'[alert] > 0, NEW t,
           SameRecord(s, t),
           ToSet(t.outbox) = ToSet(s.outbox) \ {alert},
           ToSet(t.delivered) \subseteq ToSet(s.delivered) \cup {alert}
    PROVE  StateOk(t)'
BY DEF StateOk, SameRecord

LEMMA EmptyFacts == EmptyState \in Saved /\ ToSet(EmptyState.outbox) = {}
<1>1. PICK s : s = EmptyState
  OBVIOUS
<1>2. PICK none : none = <<>>
  OBVIOUS
<1>3. none \in Seq(Alerts) /\ DOMAIN none = {}
  BY <1>2
<1>4. ToSet(none) = {}
  BY <1>3 DEF ToSet
<1>5. 0 \in 0..MaxChanges /\ 0 \in 0..MaxLines
  BY OutboxBounds
<1>6. s = [outbox |-> none, delivered |-> none, last |-> NoStatus, sequence |-> 0,
           offset |-> 0, handled |-> {}, session |-> FALSE]
  BY <1>1, <1>2 DEF EmptyState
<1>7. s \in Saved /\ s.outbox = none
  BY <1>3, <1>5, <1>6 DEF Saved
<1> QED BY <1>1, <1>4, <1>7

(* The invariant of the next state, from that of its two saved states.     *)
LEMMA OutboxNow ==
    ASSUME NEW d, NEW e, d = disk', e = memory',
           StateOk(d)', SessionServed(d)',
           run'.pc = "idle" \/ (StateOk(e)' /\ (Replying' \/ SessionServed(e)')),
           LineInv', AlertsOk(d, e)', ReplyInv'
    PROVE  OutboxInv'
<1>1. StateOk(disk)' /\ (StateOk(e)' => StateOk(memory)')
  BY DEF StateOk
<1>2. SessionServed(disk)' /\ (SessionServed(e)' => SessionServed(memory)')
  BY DEF SessionServed
<1>3. AlertsOk(disk, memory)'
  BY DEF AlertsOk, MayCome
<1> QED BY <1>1, <1>2, <1>3 DEF OutboxInv

(* What the lists of the invariant say, once the types are known.          *)
LEMMA OutboxFacts ==
    ASSUME OutboxTypeOK
    PROVE  /\ disk \in Saved /\ memory \in Saved
           /\ Len(log) \in Nat /\ (\A i \in 1..Len(log) : log[i] \in Messages) /\ gone \in Nat
           /\ run.line \in 0..MaxLines /\ run.item \in Nat \ {0} /\ run.tried \in BOOLEAN
           /\ run.pc \in {"idle", "flush", "flush_again", "flush_line", "flush_end", "read", "enqueue", "queued"}
           /\ doubts \in Nat /\ forgets \in Nat /\ Excuses \in Nat
           /\ (\A a \in Alerts : telegram[a] \in Nat /\ Allowed(a) \in Nat)
           /\ (\A m \in Messages : commands[m] \in Nat /\ m \in Alerts)
           /\ MaxLines \in Nat /\ MaxChanges \in Nat /\ MaxDoubts \in Nat /\ MaxForgets \in Nat
           /\ \A m \in Messages : m \notin 0..MaxChanges
<1>1. MaxLines \in Nat /\ MaxChanges \in Nat /\ MaxDoubts \in Nat /\ MaxForgets \in Nat
  BY OutboxBounds
<1>2. \A m \in Messages : m \notin 0..MaxChanges
  BY AlertIds
<1>3. Len(log) \in Nat /\ (\A i \in 1..Len(log) : log[i] \in Messages) /\ gone \in Nat
  BY <1>1 DEF OutboxTypeOK
<1>4. /\ run.line \in 0..MaxLines /\ run.item \in Nat \ {0} /\ run.tried \in BOOLEAN
      /\ run.pc \in {"idle", "flush", "flush_again", "flush_line", "flush_end", "read", "enqueue", "queued"}
  BY DEF OutboxTypeOK, ScriptRun
<1>5. doubts \in Nat /\ forgets \in Nat /\ Excuses \in Nat
  BY <1>1 DEF OutboxTypeOK, Excuses
<1>6. (\A a \in Alerts : telegram[a] \in Nat) /\ \A m \in Messages : commands[m] \in Nat /\ m \in Alerts
  BY DEF OutboxTypeOK, Alerts
<1>7. \A a \in Alerts : Allowed(a) \in Nat
  BY <1>6 DEF Allowed
<1>8. disk \in Saved /\ memory \in Saved
  BY DEF OutboxTypeOK
<1> QED BY <1>1, <1>2, <1>3, <1>4, <1>5, <1>6, <1>7, <1>8

ScriptSteps == {"idle", "flush", "flush_again", "flush_line", "flush_end", "read", "enqueue", "queued"}

(* What a step leaves of the run.                                          *)
LEMMA RunSteps ==
    ASSUME OutboxTypeOK, NEW step \in ScriptSteps, Flush(step) \/ ToStep(step)
    PROVE  run' \in ScriptRun /\ run'.pc = step /\ run'.line = run.line
<1>1. run \in ScriptRun
  BY DEF OutboxTypeOK
<1>2. /\ run.item \in Nat \ {0} /\ run.tried \in BOOLEAN /\ run.line \in 0..MaxLines
      /\ run = [pc |-> run.pc, item |-> run.item, tried |-> run.tried, line |-> run.line]
  BY <1>1 DEF ScriptRun
<1>3. 1 \in Nat \ {0} /\ FALSE \in BOOLEAN
  OBVIOUS
<1>4. CASE Flush(step)
  <2>1. run' = [pc |-> step, item |-> 1, tried |-> FALSE, line |-> run.line]
    BY <1>2, <1>4 DEF Flush
  <2> QED BY <1>2, <1>3, <2>1 DEF ScriptRun, ScriptSteps
<1>5. CASE ToStep(step)
  <2>1. run' = [pc |-> step, item |-> run.item, tried |-> run.tried, line |-> run.line]
    BY <1>2, <1>5 DEF ToStep
  <2> QED BY <1>2, <2>1 DEF ScriptRun, ScriptSteps
<1> QED BY <1>4, <1>5

(* ... and when it goes on at another line.                                *)
LEMMA ScriptReads ==
    ASSUME OutboxTypeOK, NEW step \in ScriptSteps, NEW line \in 0..MaxLines,
           \/ run' = [run EXCEPT !.pc = step, !.item = 1, !.tried = FALSE, !.line = line]
           \/ run' = [run EXCEPT !.pc = step, !.line = line]
    PROVE  run' \in ScriptRun /\ run'.pc = step /\ run'.line = line
<1>1. run \in ScriptRun
  BY DEF OutboxTypeOK
<1>2. /\ run.item \in Nat \ {0} /\ run.tried \in BOOLEAN
      /\ run = [pc |-> run.pc, item |-> run.item, tried |-> run.tried, line |-> run.line]
  BY <1>1 DEF ScriptRun
<1>3. 1 \in Nat \ {0} /\ FALSE \in BOOLEAN
  OBVIOUS
<1>4. CASE run' = [run EXCEPT !.pc = step, !.item = 1, !.tried = FALSE, !.line = line]
  <2>1. run' = [pc |-> step, item |-> 1, tried |-> FALSE, line |-> line]
    BY <1>2, <1>4
  <2> QED BY <1>2, <1>3, <2>1 DEF ScriptRun, ScriptSteps
<1>5. CASE run' = [run EXCEPT !.pc = step, !.line = line]
  <2>1. run' = [pc |-> step, item |-> run.item, tried |-> run.tried, line |-> line]
    BY <1>2, <1>5
  <2> QED BY <1>2, <2>1 DEF ScriptRun, ScriptSteps
<1> QED BY <1>4, <1>5

(* A step that queues no reply.                                            *)
LEMMA RepliesKept ==
    ASSUME OutboxTypeOK, ReplyInv, UNCHANGED <<reviewer, commands>>,
           \/ Excuses' = Excuses + 1
           \/ /\ Excuses' = Excuses
              /\ reviewer => \A m \in Messages : AnsweredNow(m) => AnsweredNow(m)'
              /\ ~reviewer /\ PeerAnswered => PeerAnswered'
    PROVE  ReplyInv'
<1>1. Excuses \in Nat /\ \A m \in Messages : commands[m] \in Nat
  BY OutboxFacts
<1>2. PICK p, q : p = Excuses /\ q = Excuses'
  OBVIOUS
<1>3. p \in Nat /\ (q = p \/ q = p + 1)
  BY <1>1, <1>2
<1>4. CASE reviewer
  <2>1. ASSUME NEW m \in Messages
        PROVE  /\ commands'[m] <= q + 1
               /\ AnsweredNow(m)' \/ commands'[m] <= q
    <3>1. /\ commands[m] <= p + 1 /\ commands[m] \in Nat
          /\ AnsweredNow(m) \/ commands[m] <= p
      BY <1>1, <1>2, <1>4 DEF ReplyInv
    <3>2. q = p + 1 \/ (AnsweredNow(m) => AnsweredNow(m)')
      BY <1>2, <1>4
    <3>3. commands'[m] = commands[m]
      OBVIOUS
    <3>4. commands[m] <= q + 1
      BY <1>3, <3>1
    <3>5. q = p + 1 \/ commands[m] <= p => commands[m] <= q
      BY <1>3, <3>1
    <3>6. AnsweredNow(m)' \/ commands[m] <= q
      BY <3>1, <3>2, <3>5, Zenon
    <3> QED BY <3>3, <3>4, <3>6
  <2> QED BY <1>2, <1>4, <2>1 DEF ReplyInv
<1>5. CASE ~reviewer
  <2>1. PICK total : total = Cardinality(Replies)
    OBVIOUS
  <2>2. /\ IsFiniteSet(Replies) /\ total <= p + 1
        /\ PeerAnswered \/ total <= p
    BY <1>2, <1>5, <2>1 DEF ReplyInv
  <2>3. total \in Nat
    BY <2>1, <2>2, FS_CardinalityType
  <2>4. Replies' = Replies
    BY DEF Replies
  <2>5. total <= q + 1 /\ (q = p + 1 \/ total <= p => total <= q)
    BY <1>3, <2>2, <2>3
  <2>6. q = p + 1 \/ (PeerAnswered => PeerAnswered')
    BY <1>2, <1>5
  <2>7. PeerAnswered' \/ total <= q
    BY <2>2, <2>5, <2>6, Zenon
  <2>8. IsFiniteSet(Replies)' /\ Cardinality(Replies)' = total
    BY <2>1, <2>2, <2>4
  <2> QED BY <1>2, <1>5, <2>5, <2>7, <2>8 DEF ReplyInv
<1> QED BY <1>4, <1>5

(* What a step of the script finds.                                        *)
LEMMA InvFacts ==
    ASSUME OutboxTypeOK, OutboxInv
    PROVE  /\ StateOk(disk) /\ SessionServed(disk)
           /\ run.pc # "idle" => StateOk(memory) /\ (Replying \/ SessionServed(memory))
           /\ LineInv /\ ReplyInv
           /\ gone + Len(log) <= MaxLines
           /\ script = "watch" => ~reviewer /\ run.pc \in {"idle", "flush", "flush_again"} /\ run.line = 0
           /\ \A a \in Alerts : telegram[a] <= Allowed(a) + doubts
BY DEF OutboxInv, LineInv, AlertsOk

(* A step that leaves the log, the replies and the failures leaves what    *)
(* the lines say.                                                          *)
LEMMA SameLines ==
    ASSUME UNCHANGED <<script, reviewer, log, gone, commands, failed>>
    PROVE  /\ \A m : Served(m)' = Served(m)
           /\ \A a : Allowed(a)' = Allowed(a)
BY DEF Served, Answered, Allowed

-----------------------------------------------------------------------------
(* The outbox: its steps *)

LEMMA TryAlertKeeps ==
    ASSUME OutboxTypeOK, OutboxInv, NEW due \in BOOLEAN, NEW received \in BOOLEAN, NEW answered \in BOOLEAN,
           TryAlert(due, received, answered)
    PROVE  (OutboxTypeOK /\ OutboxInv)'
<1>1. PICK alert : alert = memory.outbox[run.item]
  OBVIOUS
<1>2. PICK d, e, s : d = disk /\ s = memory /\ e = memory'
  OBVIOUS
<1>3. /\ Flushing /\ run.item <= Len(s.outbox)
      /\ (answered => received) /\ (received => due)
      /\ (received /\ ~answered => doubts < MaxDoubts)
      /\ e = IF due THEN Attempted(s, alert, answered) ELSE s
      /\ telegram' = IF received THEN [telegram EXCEPT ![alert] = @ + 1] ELSE telegram
      /\ doubts' = IF received /\ ~answered THEN doubts + 1 ELSE doubts
      /\ run' = [run EXCEPT !.item = IF Len(e.outbox) < Len(s.outbox) THEN @ ELSE @ + 1,
                            !.tried = @ \/ due]
      /\ script' = script /\ reviewer' = reviewer /\ shown' = shown /\ changes' = changes
      /\ log' = log /\ gone' = gone
      /\ disk' = d /\ commands' = commands /\ failed' = failed /\ noted' = noted /\ forgets' = forgets
  BY <1>1, <1>2 DEF TryAlert, world
<1>4. /\ d \in Saved /\ s \in Saved /\ run.item \in Nat \ {0} /\ run.tried \in BOOLEAN
      /\ doubts \in Nat /\ MaxDoubts \in Nat /\ doubts <= MaxDoubts
      /\ Len(log) \in Nat
      /\ \A a \in Alerts : telegram[a] \in Nat /\ Allowed(a) \in Nat
  BY <1>2, OutboxFacts DEF OutboxTypeOK
<1>5. /\ s.outbox \in Seq(Alerts) /\ ToSet(s.outbox) \subseteq Alerts /\ MaxChanges \in Nat
  BY <1>4, SavedFacts
<1>6. alert \in Alerts /\ alert \in ToSet(s.outbox)
  <2>1. run.item \in 1..Len(s.outbox) /\ DOMAIN s.outbox = 1..Len(s.outbox)
    BY <1>3, <1>4, <1>5
  <2> QED BY <1>1, <1>2, <1>5, <2>1 DEF ToSet
<1>7. /\ telegram' \in [Alerts -> Nat]
      /\ \A a \in Alerts : telegram'[a] = IF received /\ a = alert THEN telegram[a] + 1 ELSE telegram[a]
  <2>1. telegram \in [Alerts -> Nat]
    BY DEF OutboxTypeOK
  <2> QED BY <1>3, <1>4, <1>6, <2>1
<1>8. doubts' \in 0..MaxDoubts /\ doubts' \in Nat /\ (doubts' = doubts \/ doubts' = doubts + 1)
      /\ (received /\ ~answered => doubts' = doubts + 1)
  BY <1>3, <1>4
<1>9. WorldGrows
  BY <1>3, <1>4, <1>7 DEF WorldGrows
<1>10. run'.pc = run.pc /\ run'.line = run.line /\ run' \in ScriptRun
  <2>1. PICK i, t : i = (IF Len(e.outbox) < Len(s.outbox) THEN run.item ELSE run.item + 1) /\ t = (run.tried \/ due)
    OBVIOUS
  <2>2. i \in Nat \ {0}
    BY <1>4, <2>1
  <2>3. t \in BOOLEAN
    BY <2>1
  <2>4. run' = [run EXCEPT !.item = i, !.tried = t]
    BY <1>3, <2>1
  <2> QED BY <2>2, <2>3, <2>4 DEF OutboxTypeOK, ScriptRun
<1>11. ~Replying /\ ~Replying' /\ run.pc # "idle"
  BY <1>3, <1>10 DEF Flushing, Replying
<1>12. StateOk(d)' /\ StateOk(s)' /\ SessionServed(d)' /\ SessionServed(s)'
  BY <1>2, <1>3, <1>4, <1>9, <1>11, InvFacts, StateGrows, SessionGrows
<1>13. \/ e = s /\ ~answered
       \/ /\ answered /\ received /\ e \in Saved /\ SameRecord(s, e)
          /\ ToSet(e.outbox) = ToSet(s.outbox) \ {alert}
          /\ ToSet(e.delivered) \subseteq ToSet(s.delivered) \cup {alert}
  <2>1. CASE due /\ answered
    <3>1. e = Attempted(s, alert, TRUE)
      BY <1>3, <2>1
    <3> QED BY <1>3, <1>4, <1>6, <2>1, <3>1, AttemptFacts
  <2>2. CASE ~(due /\ answered)
    BY <1>3, <2>2 DEF Attempted
  <2> QED BY <2>1, <2>2
<1>14. /\ e \in Saved /\ StateOk(e)' /\ SameRecord(s, e)
       /\ ToSet(e.outbox) \subseteq ToSet(s.outbox) /\ (answered => alert \notin ToSet(e.outbox))
  <2>1. CASE e = s /\ ~answered
    BY <1>4, <1>12, <2>1 DEF SameRecord
  <2>2. CASE ~(e = s /\ ~answered)
    <3>1. telegram'[alert] > 0
      BY <1>4, <1>6, <1>7, <1>13, <2>2
    <3> QED BY <1>12, <1>13, <2>2, <3>1, StateAttempted
  <2> QED BY <2>1, <2>2
<1>15. SessionServed(e)'
  BY <1>12, <1>14 DEF SessionServed, SameRecord
<1>16. LineInv'
  <2>1. LineInv
    BY InvFacts
  <2> QED BY <1>2, <1>3, <1>10, <1>11, <2>1, SameLines DEF LineInv, Replying
<1>17. AlertsOk(d, e)'
  <2>1. \A a \in Alerts :
           /\ Allowed(a)' = Allowed(a) /\ Allowed(a) \in Nat
           /\ telegram[a] <= Allowed(a) + doubts
           /\ MayCome(s, a) => telegram[a] < Allowed(a) + doubts
    BY <1>2, <1>3, <1>4, <1>11, SameLines DEF OutboxInv, AlertsOk
  <2>2. MayCome(s, alert)
    BY <1>6 DEF MayCome
  <2>3. ASSUME NEW a \in Alerts
        PROVE  telegram'[a] <= Allowed(a)' + doubts'
    <3>1. CASE received /\ a = alert
      <4>1. telegram[a] < Allowed(a) + doubts /\ telegram'[a] = telegram[a] + 1
        BY <1>7, <2>1, <2>2, <3>1
      <4> QED BY <1>4, <1>8, <2>1, <4>1
    <3>2. CASE ~(received /\ a = alert)
      <4>1. telegram'[a] = telegram[a]
        BY <1>7, <3>2
      <4> QED BY <1>4, <1>8, <2>1, <4>1
    <3> QED BY <3>1, <3>2
  <2>4. ASSUME NEW a \in Alerts, MayCome(e, a)'
        PROVE  telegram'[a] < Allowed(a)' + doubts'
    <3>1. MayCome(s, a)
      BY <1>3, <1>10, <1>11, <1>14, <2>4 DEF MayCome, SameRecord, Replying
    <3>2. telegram[a] < Allowed(a) + doubts
      BY <2>1, <3>1
    <3>3. ~(a = alert /\ answered)
      <4> SUFFICES ASSUME a = alert, answered
                   PROVE  FALSE
        OBVIOUS
      <4>1. alert \in 0..MaxChanges => alert <= s.sequence
        BY <1>2, <1>6, <1>11, InvFacts DEF StateOk
      <4>2. alert \notin ToSet(e.outbox) /\ e.sequence = s.sequence
        BY <1>14 DEF SameRecord
      <4>3. ~(alert \in 0..MaxChanges /\ alert > s.sequence)
        <5>1. s.sequence \in Nat
          BY <1>4, SavedFacts
        <5> QED BY <1>5, <4>1, <5>1
      <4>4. ~MayCome(e, a)'
        BY <1>11, <4>2, <4>3 DEF MayCome, Replying
      <4> QED BY <2>4, <4>4
    <3>4. CASE received /\ a = alert
      <4>1. doubts' = doubts + 1 /\ telegram'[a] = telegram[a] + 1
        BY <1>7, <1>8, <3>3, <3>4
      <4> QED BY <1>4, <2>1, <3>2, <4>1
    <3>5. CASE ~(received /\ a = alert)
      <4>1. telegram'[a] = telegram[a]
        BY <1>7, <3>5
      <4> QED BY <1>4, <1>8, <2>1, <3>2, <4>1
    <3> QED BY <3>4, <3>5
  <2> QED BY <1>10, <1>11, <2>3, <2>4 DEF AlertsOk
<1>18. ReplyInv'
  <2>1. /\ \A m \in Messages : AnsweredNow(m) => AnsweredNow(m)'
        /\ PeerAnswered => PeerAnswered'
    BY <1>2, <1>3, <1>10, <1>14 DEF AnsweredNow, PeerAnswered, SameRecord
  <2>2. Excuses' = Excuses \/ Excuses' = Excuses + 1
    <3>1. forgets \in Nat
      BY OutboxFacts
    <3> QED BY <1>3, <1>4, <1>8, <3>1 DEF Excuses
  <2> QED BY <1>3, <2>1, <2>2, InvFacts, RepliesKept
<1>19. OutboxTypeOK'
  BY <1>2, <1>3, <1>4, <1>7, <1>8, <1>10, <1>14 DEF OutboxTypeOK
<1> QED BY <1>2, <1>3, <1>12, <1>14, <1>15, <1>16, <1>17, <1>18, <1>19, OutboxNow

LEMMA DieKeeps ==
    ASSUME OutboxTypeOK, OutboxInv, ScriptDies
    PROVE  (OutboxTypeOK /\ OutboxInv)'
<1>1. /\ doubts < MaxDoubts /\ doubts' = doubts + 1 /\ run' = Asleep /\ memory' = EmptyState
      /\ script' = script /\ reviewer' = reviewer /\ shown' = shown /\ changes' = changes
      /\ log' = log /\ gone' = gone /\ noted' = noted /\ forgets' = forgets
      /\ disk' = disk /\ telegram' = telegram /\ commands' = commands /\ failed' = failed
  BY DEF ScriptDies, world
<1>2. PICK d, e : d = disk /\ e = EmptyState
  OBVIOUS
<1>3. /\ d \in Saved /\ doubts \in Nat /\ forgets \in Nat /\ MaxDoubts \in Nat /\ Len(log) \in Nat
      /\ MaxLines \in Nat
      /\ \A a \in Alerts : telegram[a] \in Nat /\ Allowed(a) \in Nat /\ Allowed(a)' = Allowed(a)
  BY <1>1, <1>2, OutboxFacts, SameLines
<1>4. e \in Saved
  BY <1>2, EmptyFacts
<1>5. WorldGrows
  BY <1>1, <1>3 DEF WorldGrows
<1>6. StateOk(d)' /\ SessionServed(d)'
  BY <1>1, <1>2, <1>3, <1>5, InvFacts, StateGrows, SessionGrows
<1>7. run'.pc = "idle" /\ run'.line = 0
  BY <1>1 DEF Asleep
<1>8. LineInv'
  BY <1>1, <1>3, <1>7, InvFacts DEF LineInv, Replying
<1>9. AlertsOk(d, e)'
  <2>1. \A a \in Alerts : telegram'[a] < Allowed(a)' + doubts' /\ telegram'[a] <= Allowed(a)' + doubts'
    <3> TAKE a \in Alerts
    <3>1. telegram[a] <= Allowed(a) + doubts
      BY InvFacts
    <3> QED BY <1>1, <1>3, <3>1
  <2> QED BY <1>7, <2>1 DEF AlertsOk
<1>10. Excuses' = Excuses + 1 /\ doubts' \in 0..MaxDoubts
  BY <1>1, <1>3 DEF Excuses
<1>11. ReplyInv'
  BY <1>1, <1>10, InvFacts, RepliesKept
<1>12. run' \in ScriptRun
  BY <1>1, <1>3 DEF Asleep, ScriptRun
<1>13. OutboxTypeOK'
  BY <1>1, <1>2, <1>4, <1>10, <1>12 DEF OutboxTypeOK
<1> QED BY <1>1, <1>2, <1>6, <1>7, <1>8, <1>9, <1>11, <1>13, OutboxNow

LEMMA PublishKeeps ==
    ASSUME OutboxTypeOK, OutboxInv, NEW new \in MarketStatuses, Publish(new)
    PROVE  (OutboxTypeOK /\ OutboxInv)'
<1>1. /\ changes < MaxChanges /\ changes' = changes + 1 /\ shown' = new
      /\ script' = script /\ reviewer' = reviewer /\ log' = log /\ gone' = gone
      /\ disk' = disk /\ memory' = memory /\ run' = run /\ noted' = noted /\ forgets' = forgets
      /\ telegram' = telegram /\ commands' = commands /\ failed' = failed /\ doubts' = doubts
  BY DEF Publish
<1>2. changes \in 0..MaxChanges /\ MaxChanges \in Nat
  BY OutboxFacts DEF OutboxTypeOK
<1>3. OutboxTypeOK'
  BY <1>1, <1>2 DEF OutboxTypeOK
<1>4. OutboxInv'
  BY <1>1 DEF OutboxInv, StateOk, SessionServed, LineInv, AlertsOk, MayCome, Allowed, ReplyInv, Replying,
              AnsweredNow, PeerAnswered, Replies, Excuses, Served, Answered
<1> QED BY <1>3, <1>4

LEMMA StartWatchKeeps ==
    ASSUME OutboxTypeOK, OutboxInv, StartWatch
    PROVE  (OutboxTypeOK /\ OutboxInv)'
<1>1. /\ script = "watch" /\ run.pc = "idle" /\ memory' = disk
      /\ script' = script /\ reviewer' = reviewer /\ shown' = shown /\ changes' = changes
      /\ log' = log /\ gone' = gone /\ noted' = noted /\ forgets' = forgets
      /\ disk' = disk /\ telegram' = telegram /\ commands' = commands /\ failed' = failed /\ doubts' = doubts
  BY DEF StartWatch, world
<1>2. PICK d : d = disk
  OBVIOUS
<1>3. d \in Saved /\ doubts \in Nat /\ Len(log) \in Nat /\ run.line \in 0..MaxLines
  BY <1>2, OutboxFacts
<1>4. WorldGrows
  BY <1>1, <1>3 DEF WorldGrows
<1>5. StateOk(d)' /\ SessionServed(d)'
  BY <1>1, <1>2, <1>3, <1>4, InvFacts, StateGrows, SessionGrows
<1>6. run' \in ScriptRun /\ run'.pc = "flush" /\ run'.line = run.line
  <2>1. Flush("flush")
    BY DEF StartWatch
  <2>2. "flush" \in ScriptSteps
    BY DEF ScriptSteps
  <2> QED BY <2>1, <2>2, RunSteps
<1>7. LineInv'
  <2>1. run.line = 0 /\ ~reviewer /\ gone + Len(log) <= MaxLines
    BY <1>1, InvFacts
  <2> QED BY <1>1, <1>3, <1>6, <2>1 DEF LineInv, Replying
<1>8. AlertsOk(d, d)'
  <2>1. /\ \A a \in Alerts : telegram[a] <= Allowed(a) + doubts
        /\ \A a \in Alerts : MayCome(d, a) => telegram[a] < Allowed(a) + doubts
        /\ \A a : Allowed(a)' = Allowed(a)
    BY <1>1, <1>2, SameLines DEF OutboxInv, AlertsOk
  <2>2. \A a \in Alerts : MayCome(d, a)' => MayCome(d, a)
    BY <1>1, <1>6 DEF MayCome
  <2> QED BY <1>1, <1>6, <2>1, <2>2 DEF AlertsOk
<1>9. ReplyInv'
  <2>1. ~PeerAnswered /\ \A m \in Messages : ~AnsweredNow(m)
    BY <1>1 DEF AnsweredNow, PeerAnswered
  <2>2. Excuses' = Excuses
    BY <1>1 DEF Excuses
  <2> QED BY <1>1, <2>1, <2>2, InvFacts, RepliesKept
<1>10. OutboxTypeOK'
  BY <1>1, <1>2, <1>3, <1>6 DEF OutboxTypeOK
<1> QED BY <1>1, <1>2, <1>5, <1>7, <1>8, <1>9, <1>10, OutboxNow

LEMMA FetchStatusKeeps ==
    ASSUME OutboxTypeOK, OutboxInv, FetchStatus
    PROVE  (OutboxTypeOK /\ OutboxInv)'
<1>1. PICK d, s, e : d = disk /\ s = memory /\ e = memory'
  OBVIOUS
<1>2. /\ script = "watch" /\ run.pc = "flush" /\ (e = s \/ e = RecordStatus(s))
      /\ script' = script /\ reviewer' = reviewer /\ shown' = shown /\ changes' = changes
      /\ log' = log /\ gone' = gone /\ noted' = noted /\ forgets' = forgets
      /\ disk' = d /\ telegram' = telegram /\ commands' = commands /\ failed' = failed /\ doubts' = doubts
  BY <1>1 DEF FetchStatus, Flushed, world
<1>3. d \in Saved /\ s \in Saved /\ doubts \in Nat /\ Len(log) \in Nat /\ run.line \in 0..MaxLines
      /\ shown \in MarketStatuses /\ MaxChanges \in Nat /\ s.sequence \in 0..MaxChanges
  BY <1>1, OutboxFacts, SavedFacts DEF OutboxTypeOK
<1>4. run' \in ScriptRun /\ run'.pc = "flush_again" /\ run'.line = run.line
  <2>1. Flush("flush_again")
    BY DEF FetchStatus
  <2>2. "flush_again" \in ScriptSteps
    BY DEF ScriptSteps
  <2> QED BY <2>1, <2>2, RunSteps
<1>5. /\ run.line = 0 /\ ~reviewer /\ gone + Len(log) <= MaxLines
      /\ StateOk(d) /\ StateOk(s) /\ SessionServed(d) /\ SessionServed(s)
  BY <1>1, <1>2, InvFacts DEF Replying
(* A change that is recorded gets the next number, which was due before.   *)
<1>7. \/ e = s
      \/ /\ e \in Saved /\ s.sequence + 1 \in 1..MaxChanges /\ e.sequence = s.sequence + 1
         /\ e.offset = s.offset /\ e.handled = s.handled /\ e.session = s.session
         /\ e.delivered = s.delivered
         /\ \/ ToSet(e.outbox) = ToSet(s.outbox) \cup {s.sequence + 1}
            \/ ToSet(e.outbox) = ToSet(s.outbox) /\ s.sequence + 1 \in ToSet(s.delivered)
  <2> SUFFICES ASSUME e = RecordStatus(s), e # s
               PROVE  /\ e \in Saved /\ s.sequence + 1 \in 1..MaxChanges /\ e.sequence = s.sequence + 1
                      /\ e.offset = s.offset /\ e.handled = s.handled /\ e.session = s.session
                      /\ e.delivered = s.delivered
                      /\ \/ ToSet(e.outbox) = ToSet(s.outbox) \cup {s.sequence + 1}
                         \/ ToSet(e.outbox) = ToSet(s.outbox) /\ s.sequence + 1 \in ToSet(s.delivered)
    BY <1>2
  <2>1. PICK n, t : n = s.sequence + 1 /\ t = [s EXCEPT !.last = shown, !.sequence = n]
    OBVIOUS
  <2>2. s.sequence # MaxChanges /\ e = QueueNotification(t, n)
    BY <2>1 DEF RecordStatus
  <2>3. n \in 1..MaxChanges /\ n \in 0..MaxChanges
    BY <1>3, <2>1, <2>2
  <2>4. n \in Alerts
    BY <2>3 DEF Alerts
  <2>5. t \in Saved /\ t.sequence = n /\ t.offset = s.offset /\ t.handled = s.handled /\ t.session = s.session
        /\ t.outbox = s.outbox /\ t.delivered = s.delivered
    BY <1>3, <2>1, <2>3 DEF Saved
  <2>6. /\ e \in Saved /\ SameRecord(t, e) /\ e.delivered = t.delivered
        /\ \/ ToSet(e.outbox) = ToSet(t.outbox) \cup {n}
           \/ ToSet(e.outbox) = ToSet(t.outbox) /\ n \in ToSet(t.delivered)
    BY <2>2, <2>4, <2>5, QueueFacts
  <2> QED BY <2>1, <2>3, <2>5, <2>6 DEF SameRecord
<1>8. e \in Saved /\ StateOk(e) /\ SessionServed(e)
  <2>1. CASE e = s
    BY <1>3, <1>5, <2>1
  <2>2. CASE e # s
    <3>1. PICK n : n = s.sequence + 1
      OBVIOUS
    <3>2. n \in 0..MaxChanges /\ n \notin Messages /\ s.sequence \in Nat
          /\ \A k \in 1..n : k \in 1..s.sequence \/ k = n
      BY <1>3, <1>7, <2>2, <3>1, AlertIds
    <3>3. /\ e \in Saved /\ e.sequence = n /\ e.offset = s.offset /\ e.handled = s.handled
          /\ e.session = s.session /\ e.delivered = s.delivered
          /\ \/ ToSet(e.outbox) = ToSet(s.outbox) \cup {n}
             \/ ToSet(e.outbox) = ToSet(s.outbox) /\ n \in ToSet(s.delivered)
      BY <1>7, <2>2, <3>1
    <3>4. \A k \in 1..e.sequence \cup noted : k \in ToSet(e.outbox) \/ telegram[k] > 0
      <4>1. \A k \in 1..s.sequence \cup noted : k \in ToSet(s.outbox) \/ telegram[k] > 0
        BY <1>5 DEF StateOk
      <4>2. n \in ToSet(e.outbox) \/ telegram[n] > 0
        BY <1>5, <3>3 DEF StateOk
      <4>3. ToSet(s.outbox) \subseteq ToSet(e.outbox)
        BY <3>3
      <4>4. \A k \in 1..e.sequence \cup noted : k \in 1..s.sequence \cup noted \/ k = n
        BY <3>2, <3>3
      <4> QED BY <4>1, <4>2, <4>3, <4>4
    <3>5. \A a \in ToSet(e.outbox) : a \in 0..MaxChanges => a <= e.sequence
      <4> TAKE a \in ToSet(e.outbox)
      <4>1. CASE a = n
        BY <3>2, <3>3, <4>1
      <4>2. CASE a # n
        <5>1. a \in ToSet(s.outbox)
          BY <3>3, <4>2
        <5>2. a \in 0..MaxChanges => a <= s.sequence
          BY <1>5, <5>1 DEF StateOk
        <5>3. a \in 0..MaxChanges => a <= n
          BY <1>3, <3>1, <5>2
        <5> QED BY <3>3, <5>3
      <4> QED BY <4>1, <4>2
    <3>6. StateOk(e)
      BY <1>5, <3>3, <3>4, <3>5 DEF StateOk
    <3>7. SessionServed(e)
      BY <1>5, <3>3 DEF SessionServed
    <3> QED BY <3>3, <3>6, <3>7
  <2> QED BY <2>1, <2>2
<1>9. WorldGrows
  BY <1>2, <1>3 DEF WorldGrows
<1>10. StateOk(d)' /\ StateOk(e)' /\ SessionServed(d)' /\ SessionServed(e)'
  BY <1>2, <1>3, <1>5, <1>8, <1>9, StateGrows, SessionGrows
<1>12. LineInv'
  BY <1>1, <1>2, <1>3, <1>4, <1>5 DEF LineInv, Replying
<1>13. AlertsOk(d, e)'
  <2>1. /\ \A a \in Alerts : telegram[a] <= Allowed(a) + doubts
        /\ \A a \in Alerts : MayCome(s, a) => telegram[a] < Allowed(a) + doubts
        /\ \A a : Allowed(a)' = Allowed(a)
    BY <1>1, <1>2, SameLines DEF OutboxInv, AlertsOk
  <2>2. ASSUME NEW a \in Alerts, MayCome(e, a)' PROVE MayCome(s, a)
    <3>1. CASE e = s
      BY <1>2, <1>4, <2>2, <3>1 DEF MayCome
    <3>2. CASE e # s
      <4>1. PICK n : n = s.sequence + 1
        OBVIOUS
      <4>2. n \in 0..MaxChanges /\ n > s.sequence /\ s.sequence \in Nat
        BY <1>3, <1>7, <3>2, <4>1
      <4>3. e.sequence = n /\ (ToSet(e.outbox) = ToSet(s.outbox) \cup {n} \/ ToSet(e.outbox) = ToSet(s.outbox))
        BY <1>7, <3>2, <4>1
      <4>4. a \in ToSet(e.outbox) \/ (a \in 0..MaxChanges /\ a > n)
        BY <1>2, <1>4, <2>2, <4>3 DEF MayCome
      <4>5. CASE a = n
        BY <1>2, <4>2, <4>5 DEF MayCome
      <4>6. CASE a # n /\ a \in ToSet(e.outbox)
        BY <4>3, <4>6 DEF MayCome
      <4>7. CASE a \in 0..MaxChanges /\ a > n
        <5>1. a > s.sequence
          BY <4>1, <4>2, <4>7
        <5> QED BY <1>2, <4>7, <5>1 DEF MayCome
      <4> QED BY <4>4, <4>5, <4>6, <4>7
    <3> QED BY <3>1, <3>2
  <2> QED BY <1>2, <1>4, <2>1, <2>2 DEF AlertsOk
<1>14. ReplyInv'
  <2>1. ~PeerAnswered
    BY <1>2 DEF PeerAnswered
  <2>2. Excuses' = Excuses
    BY <1>2 DEF Excuses
  <2> QED BY <1>2, <1>5, <2>1, <2>2, InvFacts, RepliesKept
<1>15. OutboxTypeOK'
  BY <1>1, <1>2, <1>3, <1>4, <1>8 DEF OutboxTypeOK
<1> QED BY <1>1, <1>2, <1>10, <1>12, <1>13, <1>14, <1>15, OutboxNow

LEMMA EndWatchKeeps ==
    ASSUME OutboxTypeOK, OutboxInv, EndWatch
    PROVE  (OutboxTypeOK /\ OutboxInv)'
<1>1. PICK d, e : d = memory /\ e = EmptyState
  OBVIOUS
<1>2. /\ script = "watch" /\ run.pc = "flush_again" /\ disk' = d /\ memory' = e /\ run' = Asleep
      /\ script' = script /\ reviewer' = reviewer /\ shown' = shown /\ changes' = changes
      /\ log' = log /\ gone' = gone /\ noted' = noted /\ forgets' = forgets
      /\ telegram' = telegram /\ commands' = commands /\ failed' = failed /\ doubts' = doubts
  BY <1>1 DEF EndWatch, Flushed, world
<1>3. d \in Saved /\ doubts \in Nat /\ Len(log) \in Nat /\ MaxLines \in Nat
  BY <1>1, OutboxFacts
<1>4. /\ ~reviewer /\ gone + Len(log) <= MaxLines
      /\ StateOk(d) /\ SessionServed(d) /\ e \in Saved
  BY <1>1, <1>2, InvFacts, EmptyFacts DEF Replying
<1>6. WorldGrows
  BY <1>2, <1>3 DEF WorldGrows
<1>7. StateOk(d)' /\ SessionServed(d)'
  BY <1>2, <1>3, <1>4, <1>6, StateGrows, SessionGrows
<1>8. run'.pc = "idle" /\ run'.line = 0 /\ run' \in ScriptRun
  BY <1>2, <1>3 DEF Asleep, ScriptRun
<1>9. LineInv'
  BY <1>2, <1>3, <1>4, <1>8 DEF LineInv, Replying
<1>10. AlertsOk(d, e)'
  <2>1. /\ \A a \in Alerts : telegram[a] <= Allowed(a) + doubts
        /\ \A a \in Alerts : MayCome(d, a) => telegram[a] < Allowed(a) + doubts
        /\ \A a : Allowed(a)' = Allowed(a)
    BY <1>1, <1>2, SameLines DEF OutboxInv, AlertsOk
  <2>2. \A a \in Alerts : MayCome(d, a)' => MayCome(d, a)
    BY <1>2, <1>8 DEF MayCome
  <2> QED BY <1>2, <1>8, <2>1, <2>2 DEF AlertsOk
<1>11. ReplyInv'
  <2>1. ~PeerAnswered
    BY <1>2 DEF PeerAnswered
  <2>2. Excuses' = Excuses
    BY <1>2 DEF Excuses
  <2> QED BY <1>2, <1>4, <2>1, <2>2, InvFacts, RepliesKept
<1>12. OutboxTypeOK'
  BY <1>1, <1>2, <1>3, <1>4, <1>8 DEF OutboxTypeOK
<1> QED BY <1>2, <1>7, <1>8, <1>9, <1>10, <1>11, <1>12, OutboxNow

LEMMA LogLineKeeps ==
    ASSUME OutboxTypeOK, OutboxInv, NEW m \in Messages, LogLine(m)
    PROVE  (OutboxTypeOK /\ OutboxInv)'
<1>1. PICK d, s : d = disk /\ s = memory
  OBVIOUS
<1>2. /\ script = "respond" /\ gone + Len(log) < MaxLines /\ log' = Append(log, m) /\ gone' = gone
      /\ script' = script /\ reviewer' = reviewer /\ shown' = shown /\ changes' = changes
      /\ disk' = d /\ memory' = s /\ run' = run /\ noted' = noted /\ forgets' = forgets
      /\ telegram' = telegram /\ commands' = commands /\ failed' = failed /\ doubts' = doubts
  BY <1>1 DEF LogLine
<1>3. d \in Saved /\ s \in Saved /\ doubts \in Nat /\ Len(log) \in Nat /\ MaxLines \in Nat /\ run.line \in 0..MaxLines
      /\ gone \in Nat
  BY <1>1, OutboxFacts
<1>4. /\ log' \in Seq(Messages) /\ Len(log') = Len(log) + 1 /\ Len(log') \in Nat
      /\ \A i \in 1..Len(log) : log'[i] = log[i]
  <2>1. log \in Seq(Messages)
    BY DEF OutboxTypeOK
  <2> QED BY <1>2, <2>1, AppendProperties
<1>5. WorldGrows
  BY <1>2, <1>3, <1>4 DEF WorldGrows
<1>6. /\ StateOk(d)' /\ SessionServed(d)'
      /\ run.pc # "idle" => StateOk(s)' /\ (Replying \/ SessionServed(s)')
  BY <1>1, <1>2, <1>3, <1>4, <1>5, InvFacts, StateGrows, SessionGrows
<1>7. Replying' = Replying
  BY <1>2 DEF Replying
<1>8. run.pc = "queued" => log'[run'.line] = log[run.line] /\ commands[log[run.line]] > 0
  <2>1. run.pc = "queued" => run.line \in 1..Len(log) /\ commands[log[run.line]] > 0
    BY InvFacts DEF LineInv, Replying
  <2> QED BY <1>2, <1>4, <2>1
<1>9. LineInv'
  <2>1. LineInv
    BY InvFacts
  <2>2. gone' + Len(log') <= MaxLines
    BY <1>2, <1>3, <1>4
  <2>3. ASSUME gone' = 0
        PROVE  /\ run'.line <= Len(log')
               /\ \A i \in 1..run'.line : i < run'.line \/ ~Replying' => Served(log[i])'
    <3>1. run.line <= Len(log) /\ \A i \in 1..run.line : i < run.line \/ ~Replying => Served(log[i])
      BY <1>2, <2>1, <2>3 DEF LineInv
    <3>2. ASSUME NEW i \in 1..run.line, Served(log[i]) PROVE Served(log[i])'
      <4>1. PICK l : l = log[i]
        OBVIOUS
      <4>2. i \in 1..Len(log) /\ l \in Messages
        BY <1>3, <3>1, <4>1, OutboxFacts
      <4>3. Served(l)' /\ log'[i] = l
        BY <1>4, <1>5, <3>2, <4>1, <4>2, ServedGrows
      <4> QED BY <4>3
    <3>3. run'.line <= Len(log')
      BY <1>2, <1>3, <1>4, <3>1
    <3> QED BY <1>2, <1>7, <3>1, <3>2, <3>3
  <2>4. Replying' => run'.line \in 1..Len(log')
    <3>1. Replying => run.line \in 1..Len(log)
      BY <2>1 DEF LineInv
    <3> QED BY <1>2, <1>3, <1>4, <1>7, <3>1
  <2>5. run'.pc = "queued" => commands'[log'[run'.line]] > 0
    BY <1>2, <1>8
  <2>6. run'.pc = "enqueue" => log'[run'.line] \notin memory'.handled /\ memory'.session
    <3>1. run.pc = "enqueue" => log[run.line] \notin s.handled /\ s.session /\ run.line \in 1..Len(log)
      BY <1>1, <2>1 DEF LineInv, Replying
    <3> QED BY <1>2, <1>4, <3>1
  <2> QED BY <1>2, <2>1, <2>2, <2>3, <2>4, <2>5, <2>6 DEF LineInv
<1>10. AlertsOk(d, s)'
  <2>1. AlertsOk(d, s)
    BY <1>1 DEF OutboxInv, AlertsOk, MayCome
  <2>2. \A a : (MayCome(s, a)' => MayCome(s, a)) /\ (MayCome(d, a)' => MayCome(d, a))
    BY <1>2, <1>8 DEF MayCome
  <2>3. \A a : Allowed(a)' = Allowed(a)
    BY <1>2 DEF Allowed
  <2> QED BY <1>2, <2>1, <2>2, <2>3 DEF AlertsOk
<1>11. ReplyInv'
  <2>1. \A l \in Messages : AnsweredNow(l) => AnsweredNow(l)'
    BY <1>1, <1>2, <1>8 DEF AnsweredNow
  <2>2. PeerAnswered => PeerAnswered'
    BY <1>1, <1>2 DEF PeerAnswered
  <2>3. Excuses' = Excuses
    BY <1>2 DEF Excuses
  <2> QED BY <1>2, <2>1, <2>2, <2>3, InvFacts, RepliesKept
<1>12. OutboxTypeOK'
  BY <1>1, <1>2, <1>4 DEF OutboxTypeOK
<1> QED BY <1>1, <1>2, <1>6, <1>7, <1>9, <1>10, <1>11, <1>12, OutboxNow

LEMMA RotateLogKeeps ==
    ASSUME OutboxTypeOK, OutboxInv, RotateLog
    PROVE  (OutboxTypeOK /\ OutboxInv)'
<1>1. PICK d, s : d = disk /\ s = memory
  OBVIOUS
<1>2. /\ script = "respond" /\ ~Replying /\ log # <<>> /\ log' = <<>> /\ gone' = gone + Len(log)
      /\ script' = script /\ reviewer' = reviewer /\ shown' = shown /\ changes' = changes
      /\ disk' = d /\ memory' = s /\ run' = run /\ noted' = noted /\ forgets' = forgets
      /\ telegram' = telegram /\ commands' = commands /\ failed' = failed /\ doubts' = doubts
  BY <1>1 DEF RotateLog, Replying
<1>3. /\ d \in Saved /\ s \in Saved /\ Len(log) \in Nat /\ MaxLines \in Nat /\ gone \in Nat
      /\ gone + Len(log) <= MaxLines
  BY <1>1, InvFacts, OutboxFacts
<1>4. log' \in Seq(Messages) /\ Len(log') = 0 /\ Len(log) > 0 /\ gone' \in 0..MaxLines /\ gone' # 0
  <2>1. log \in Seq(Messages)
    BY DEF OutboxTypeOK
  <2>2. Len(log) # 0
    BY <1>2, <2>1, EmptySeq
  <2> QED BY <1>2, <1>3, <2>2
<1>5. WorldGrows
  BY <1>2, <1>4 DEF WorldGrows
<1>6. /\ StateOk(d)' /\ SessionServed(d)'
      /\ run.pc # "idle" => StateOk(s)' /\ SessionServed(s)'
  BY <1>1, <1>2, <1>3, <1>4, <1>5, InvFacts, StateGrows, SessionGrows
<1>7. LineInv'
  BY <1>2, <1>3, <1>4, InvFacts DEF LineInv, Replying
<1>8. AlertsOk(d, s)'
  <2>1. AlertsOk(d, s)
    BY <1>1 DEF OutboxInv, AlertsOk, MayCome
  <2>2. \A a : (MayCome(s, a)' => MayCome(s, a)) /\ (MayCome(d, a)' => MayCome(d, a))
    BY <1>2 DEF MayCome, Replying
  <2>3. \A a : Allowed(a)' = Allowed(a)
    BY <1>2 DEF Allowed
  <2> QED BY <1>2, <2>1, <2>2, <2>3 DEF AlertsOk
<1>9. ReplyInv'
  <2>1. /\ \A l \in Messages : AnsweredNow(l) => AnsweredNow(l)'
        /\ PeerAnswered => PeerAnswered'
    BY <1>1, <1>2 DEF AnsweredNow, PeerAnswered, Replying
  <2>2. Excuses' = Excuses
    BY <1>2 DEF Excuses
  <2> QED BY <1>2, <2>1, <2>2, InvFacts, RepliesKept
<1>10. OutboxTypeOK'
  BY <1>1, <1>2, <1>4 DEF OutboxTypeOK
<1> QED BY <1>1, <1>2, <1>6, <1>7, <1>8, <1>9, <1>10, OutboxNow

LEMMA StartFollowKeeps ==
    ASSUME OutboxTypeOK, OutboxInv, StartFollow
    PROVE  (OutboxTypeOK /\ OutboxInv)'
<1>1. PICK d, e : d = disk /\ e = QueueNotification(disk, 0)
  OBVIOUS
<1>2. /\ script = "respond" /\ run.pc = "idle" /\ memory' = e /\ disk' = e
      /\ Flush("flush")
      /\ script' = script /\ reviewer' = reviewer /\ shown' = shown /\ changes' = changes
      /\ log' = log /\ gone' = gone /\ noted' = noted /\ forgets' = forgets
      /\ telegram' = telegram /\ commands' = commands /\ failed' = failed /\ doubts' = doubts
  BY <1>1 DEF StartFollow, world
<1>3. /\ d \in Saved /\ doubts \in Nat /\ Len(log) \in Nat /\ MaxLines \in Nat
      /\ 0 \in Alerts /\ 0 \notin Messages /\ 0 <= d.sequence
  <2>1. d \in Saved /\ 0 \in 0..MaxChanges /\ \A l \in Messages : l \notin 0..MaxChanges
    BY <1>1, OutboxFacts
  <2>2. d.sequence \in 0..MaxChanges
    BY <2>1, SavedFacts
  <2>3. d.sequence \in Nat /\ d.sequence >= 0
    BY <2>2
  <2>4. 0 \in Alerts /\ 0 \notin Messages
    BY <2>1 DEF Alerts
  <2>5. doubts \in Nat /\ Len(log) \in Nat /\ MaxLines \in Nat
    BY OutboxFacts
  <2> QED BY <2>1, <2>3, <2>4, <2>5
<1>4. StateOk(d) /\ SessionServed(d)
  BY <1>1, InvFacts
<1>5. /\ e \in Saved /\ SameRecord(d, e) /\ e.delivered = d.delivered
      /\ \/ ToSet(e.outbox) = ToSet(d.outbox) \cup {0}
         \/ ToSet(e.outbox) = ToSet(d.outbox) /\ 0 \in ToSet(d.delivered)
  BY <1>1, <1>3, QueueFacts
<1>6. StateOk(e)
  <2>1. 0 \in 0..MaxChanges => 0 <= d.sequence
    BY <1>3
  <2>2. ToSet(e.outbox) = ToSet(d.outbox) \cup {0} \/ ToSet(e.outbox) = ToSet(d.outbox)
    BY <1>5
  <2> QED BY <1>3, <1>4, <1>5, <2>1, <2>2, StateQueued
<1>7. SessionServed(e)
  BY <1>4, <1>5 DEF SessionServed, SameRecord
<1>8. WorldGrows
  BY <1>2, <1>3 DEF WorldGrows
<1>9. StateOk(e)' /\ SessionServed(e)'
  BY <1>2, <1>3, <1>5, <1>6, <1>7, <1>8, StateGrows, SessionGrows
<1>10. run' \in ScriptRun /\ run'.pc = "flush" /\ run'.line = run.line
  <2>1. "flush" \in ScriptSteps
    BY DEF ScriptSteps
  <2> QED BY <1>2, <2>1, RunSteps
<1>11. LineInv'
  <2>1. LineInv
    BY InvFacts
  <2> QED BY <1>2, <1>10, <2>1, SameLines DEF LineInv, Replying
<1>12. AlertsOk(e, e)'
  <2>1. /\ \A a \in Alerts : telegram[a] <= Allowed(a) + doubts
        /\ \A a \in Alerts : a \notin Messages \/ MayCome(d, a) => telegram[a] < Allowed(a) + doubts
        /\ \A a : Allowed(a)' = Allowed(a)
    BY <1>1, <1>2, SameLines DEF OutboxInv, AlertsOk
  <2>2. \A a \in Alerts : MayCome(e, a)' => a = 0 \/ MayCome(d, a)
    BY <1>2, <1>5, <1>10 DEF MayCome, SameRecord
  <2> QED BY <1>2, <1>3, <1>10, <2>1, <2>2 DEF AlertsOk
<1>13. ReplyInv'
  <2>1. ~PeerAnswered /\ \A m \in Messages : ~AnsweredNow(m)
    BY <1>2 DEF AnsweredNow, PeerAnswered
  <2>2. Excuses' = Excuses
    BY <1>2 DEF Excuses
  <2> QED BY <1>2, <2>1, <2>2, InvFacts, RepliesKept
<1>14. OutboxTypeOK'
  BY <1>2, <1>5, <1>10 DEF OutboxTypeOK
<1> QED BY <1>2, <1>9, <1>11, <1>12, <1>13, <1>14, OutboxNow

LEMMA SaveKeeps ==
    ASSUME OutboxTypeOK, OutboxInv, SaveIfTried \/ SaveOffset
    PROVE  (OutboxTypeOK /\ OutboxInv)'
<1>1. PICK d, s, line : d = disk' /\ s = memory /\ line = IF run.pc = "flush" THEN Resumed ELSE run.line
  OBVIOUS
<1>2. /\ script = "respond" /\ run.pc \in {"flush", "flush_line", "flush_end"} /\ (d = disk \/ d = s) /\ memory' = s
      /\ run' = [run EXCEPT !.pc = "read", !.line = line]
      /\ script' = script /\ reviewer' = reviewer /\ shown' = shown /\ changes' = changes
      /\ log' = log /\ gone' = gone /\ noted' = noted /\ forgets' = forgets
      /\ telegram' = telegram /\ commands' = commands /\ failed' = failed /\ doubts' = doubts
  <2>1. CASE SaveIfTried
    BY <1>1, <2>1 DEF SaveIfTried, Flushed, world
  <2>2. CASE SaveOffset
    <3>1. run' = [run EXCEPT !.pc = "read"] /\ run.pc = "flush_end"
      BY <2>2 DEF SaveOffset, Flushed, ToStep
    <3>2. run = [run EXCEPT !.line = run.line]
      BY DEF OutboxTypeOK, ScriptRun
    <3>3. run' = [run EXCEPT !.pc = "read", !.line = line]
      BY <1>1, <3>1, <3>2
    <3> QED BY <1>1, <2>2, <3>1, <3>3 DEF SaveOffset, world
  <2> QED BY <2>1, <2>2
<1>3. d \in Saved /\ s \in Saved /\ doubts \in Nat /\ Len(log) \in Nat /\ run.line \in 0..MaxLines
      /\ s.offset \in 0..MaxLines
  BY <1>1, <1>2, OutboxFacts, SavedFacts
<1>4. ~Replying /\ run.pc # "idle"
  BY <1>2 DEF Replying
<1>5. StateOk(d) /\ StateOk(s) /\ SessionServed(d) /\ SessionServed(s)
  BY <1>1, <1>2, <1>4, InvFacts
<1>6. WorldGrows
  BY <1>2, <1>3 DEF WorldGrows
<1>7. StateOk(d)' /\ StateOk(s)' /\ SessionServed(d)' /\ SessionServed(s)'
  BY <1>2, <1>3, <1>5, <1>6, StateGrows, SessionGrows
<1>8. line \in 0..MaxLines /\ (gone = 0 => line <= Len(log) /\ \A i \in 1..line : Served(log[i]))
  <2>1. CASE run.pc # "flush"
    BY <1>1, <1>3, <1>4, <2>1, InvFacts DEF LineInv
  <2>2. CASE run.pc = "flush"
    <3>1. line = IF s.offset > Len(log) THEN 0 ELSE s.offset
      BY <1>1, <2>2 DEF Resumed
    <3>2. CASE s.offset > Len(log)
      <4>1. line = 0 /\ MaxLines \in Nat
        BY <3>1, <3>2, OutboxFacts
      <4>2. 0 \in 0..MaxLines /\ 0 <= Len(log) /\ \A i : i \notin 1..0
        BY <1>3, <4>1
      <4> QED BY <4>1, <4>2
    <3>3. CASE ~(s.offset > Len(log))
      BY <1>3, <1>5, <3>1, <3>3 DEF StateOk
    <3> QED BY <3>2, <3>3
  <2> QED BY <2>1, <2>2
<1>9. run' \in ScriptRun /\ run'.pc = "read" /\ run'.line = line
  <2>1. "read" \in ScriptSteps
    BY DEF ScriptSteps
  <2> QED BY <1>2, <1>8, <2>1, ScriptReads
<1>10. LineInv'
  BY <1>2, <1>8, <1>9, InvFacts, SameLines DEF LineInv, Replying
<1>11. AlertsOk(d, s)'
  <2>1. /\ \A a \in Alerts : telegram[a] <= Allowed(a) + doubts
        /\ \A a \in Alerts : MayCome(s, a) => telegram[a] < Allowed(a) + doubts
        /\ \A a : Allowed(a)' = Allowed(a)
    BY <1>1, <1>2, SameLines DEF OutboxInv, AlertsOk
  <2>2. \A a \in Alerts : MayCome(s, a)' => MayCome(s, a)
    BY <1>2, <1>9 DEF MayCome
  <2> QED BY <1>2, <1>9, <2>1, <2>2 DEF AlertsOk
<1>12. ReplyInv'
  <2>1. /\ \A m \in Messages : AnsweredNow(m) => AnsweredNow(m)'
        /\ PeerAnswered => PeerAnswered'
    BY <1>1, <1>2, <1>9 DEF AnsweredNow, PeerAnswered
  <2>2. Excuses' = Excuses
    BY <1>2 DEF Excuses
  <2> QED BY <1>2, <2>1, <2>2, InvFacts, RepliesKept
<1>13. OutboxTypeOK'
  BY <1>1, <1>2, <1>3, <1>9 DEF OutboxTypeOK
<1> QED BY <1>1, <1>2, <1>7, <1>10, <1>11, <1>12, <1>13, OutboxNow

LEMMA EndOfLogKeeps ==
    ASSUME OutboxTypeOK, OutboxInv, EndOfLog
    PROVE  (OutboxTypeOK /\ OutboxInv)'
<1>1. PICK d, s, e : d = disk /\ s = memory /\ e = [memory EXCEPT !.offset = run.line]
  OBVIOUS
<1>2. /\ script = "respond" /\ run.pc = "read" /\ disk' = d /\ memory' = e
      /\ Flush("flush_end")
      /\ script' = script /\ reviewer' = reviewer /\ shown' = shown /\ changes' = changes
      /\ log' = log /\ gone' = gone /\ noted' = noted /\ forgets' = forgets
      /\ telegram' = telegram /\ commands' = commands /\ failed' = failed /\ doubts' = doubts
  BY <1>1 DEF EndOfLog, world
<1>3. d \in Saved /\ s \in Saved /\ doubts \in Nat /\ Len(log) \in Nat /\ run.line \in 0..MaxLines
  BY <1>1, OutboxFacts
<1>4. /\ e \in Saved /\ e.outbox = s.outbox /\ e.delivered = s.delivered /\ e.sequence = s.sequence
      /\ e.handled = s.handled /\ e.session = s.session /\ e.offset = run.line
  BY <1>1, <1>3 DEF Saved
<1>5. ~Replying /\ LineInv
  BY <1>2, InvFacts DEF Replying
<1>6. /\ StateOk(d) /\ StateOk(s) /\ SessionServed(d) /\ SessionServed(s)
      /\ gone = 0 => run.line <= Len(log) /\ \A i \in 1..run.line : Served(log[i])
  BY <1>1, <1>2, <1>5, InvFacts DEF LineInv
<1>7. StateOk(e) /\ SessionServed(e)
  BY <1>4, <1>6 DEF StateOk, SessionServed
<1>8. WorldGrows
  BY <1>2, <1>3 DEF WorldGrows
<1>9. StateOk(d)' /\ StateOk(e)' /\ SessionServed(d)' /\ SessionServed(e)'
  BY <1>2, <1>3, <1>4, <1>6, <1>7, <1>8, StateGrows, SessionGrows
<1>10. run' \in ScriptRun /\ run'.pc = "flush_end" /\ run'.line = run.line
  <2>1. "flush_end" \in ScriptSteps
    BY DEF ScriptSteps
  <2> QED BY <1>2, <2>1, RunSteps
<1>11. LineInv'
  BY <1>2, <1>5, <1>10, SameLines DEF LineInv, Replying
<1>12. AlertsOk(d, e)'
  <2>1. /\ \A a \in Alerts : telegram[a] <= Allowed(a) + doubts
        /\ \A a \in Alerts : MayCome(s, a) => telegram[a] < Allowed(a) + doubts
        /\ \A a : Allowed(a)' = Allowed(a)
    BY <1>1, <1>2, SameLines DEF OutboxInv, AlertsOk
  <2>2. \A a \in Alerts : MayCome(e, a)' => MayCome(s, a)
    BY <1>2, <1>4, <1>10 DEF MayCome
  <2> QED BY <1>2, <1>10, <2>1, <2>2 DEF AlertsOk
<1>13. ReplyInv'
  <2>1. /\ \A m \in Messages : AnsweredNow(m) => AnsweredNow(m)'
        /\ PeerAnswered => PeerAnswered'
    BY <1>1, <1>2, <1>4, <1>10 DEF AnsweredNow, PeerAnswered
  <2>2. Excuses' = Excuses
    BY <1>2 DEF Excuses
  <2> QED BY <1>2, <2>1, <2>2, InvFacts, RepliesKept
<1>14. OutboxTypeOK'
  BY <1>1, <1>2, <1>3, <1>4, <1>10 DEF OutboxTypeOK
<1> QED BY <1>2, <1>9, <1>11, <1>12, <1>13, <1>14, OutboxNow

LEMMA HandleOthersKeeps ==
    ASSUME OutboxTypeOK, OutboxInv, NEW kept \in SUBSET Messages, NEW counted \in BOOLEAN,
           HandleOthers(kept, counted)
    PROVE  (OutboxTypeOK /\ OutboxInv)'
<1>1. PICK s, e : s = memory /\ e = [memory EXCEPT !.handled = kept, !.session = counted]
  OBVIOUS
<1>2. /\ script = "respond" /\ run.pc = "read" /\ disk' = e /\ memory' = e
      /\ kept \subseteq s.handled /\ (counted => s.session)
      /\ forgets' = (IF e = s THEN forgets ELSE forgets + 1) /\ forgets' <= MaxForgets
      /\ Flush("flush_line")
      /\ script' = script /\ reviewer' = reviewer /\ shown' = shown /\ changes' = changes
      /\ log' = log /\ gone' = gone /\ noted' = noted
      /\ telegram' = telegram /\ commands' = commands /\ failed' = failed /\ doubts' = doubts
  BY <1>1 DEF HandleOthers, world
<1>3. s \in Saved /\ doubts \in Nat /\ forgets \in Nat /\ MaxForgets \in Nat /\ Len(log) \in Nat
  BY <1>1, OutboxFacts
<1>4. /\ e \in Saved /\ e.outbox = s.outbox /\ e.delivered = s.delivered /\ e.sequence = s.sequence
      /\ e.handled = kept /\ e.session = counted /\ e.offset = s.offset
  BY <1>1, <1>3 DEF Saved
<1>5. ~Replying /\ LineInv /\ StateOk(s) /\ SessionServed(s)
  BY <1>1, <1>2, InvFacts DEF Replying
<1>6. StateOk(e) /\ SessionServed(e)
  BY <1>2, <1>4, <1>5 DEF StateOk, SessionServed
<1>7. WorldGrows
  BY <1>2, <1>3 DEF WorldGrows
<1>8. StateOk(e)' /\ SessionServed(e)'
  BY <1>2, <1>3, <1>4, <1>6, <1>7, StateGrows, SessionGrows
<1>9. run' \in ScriptRun /\ run'.pc = "flush_line" /\ run'.line = run.line
  <2>1. "flush_line" \in ScriptSteps
    BY DEF ScriptSteps
  <2> QED BY <1>2, <2>1, RunSteps
<1>10. LineInv'
  BY <1>2, <1>5, <1>9, SameLines DEF LineInv, Replying
<1>11. AlertsOk(e, e)'
  <2>1. /\ \A a \in Alerts : telegram[a] <= Allowed(a) + doubts
        /\ \A a \in Alerts : MayCome(s, a) => telegram[a] < Allowed(a) + doubts
        /\ \A a : Allowed(a)' = Allowed(a)
    BY <1>1, <1>2, SameLines DEF OutboxInv, AlertsOk
  <2>2. \A a \in Alerts : MayCome(e, a)' => MayCome(s, a)
    BY <1>2, <1>4, <1>9 DEF MayCome
  <2> QED BY <1>2, <1>9, <2>1, <2>2 DEF AlertsOk
(* What was forgotten is one more excuse.                                  *)
<1>12. ReplyInv'
  <2>1. CASE e = s
    <3>1. /\ \A m \in Messages : AnsweredNow(m) => AnsweredNow(m)'
          /\ PeerAnswered => PeerAnswered'
      BY <1>1, <1>2, <1>9, <2>1 DEF AnsweredNow, PeerAnswered
    <3>2. Excuses' = Excuses
      BY <1>2, <2>1 DEF Excuses
    <3> QED BY <1>2, <3>1, <3>2, InvFacts, RepliesKept
  <2>2. CASE e # s
    <3>1. Excuses' = Excuses + 1
      BY <1>2, <1>3, <2>2 DEF Excuses
    <3> QED BY <1>2, <3>1, InvFacts, RepliesKept
  <2> QED BY <2>1, <2>2
<1>13. forgets' \in 0..MaxForgets
  BY <1>2, <1>3
<1>14. OutboxTypeOK'
  BY <1>2, <1>4, <1>9, <1>13 DEF OutboxTypeOK
<1> QED BY <1>2, <1>8, <1>10, <1>11, <1>12, <1>14, OutboxNow

LEMMA ReadLineKeeps ==
    ASSUME OutboxTypeOK, OutboxInv, ReadLine
    PROVE  (OutboxTypeOK /\ OutboxInv)'
<1>1. PICK m, l, d, s, e : m = log[run.line + 1] /\ l = run.line + 1 /\ d = disk' /\ s = memory /\ e = memory'
  OBVIOUS
<1>2. /\ script = "respond" /\ run.pc = "read" /\ run.line < Len(log)
      /\ \/ /\ m \in s.handled
            /\ run' = [run EXCEPT !.pc = "flush_line", !.item = 1, !.tried = FALSE, !.line = l]
            /\ e = s /\ d = disk
         \/ /\ m \notin s.handled /\ ~reviewer /\ s.session
            /\ e = [[s EXCEPT !.session = TRUE] EXCEPT !.handled = @ \cup {m}] /\ d = e
            /\ run' = [run EXCEPT !.pc = "flush_line", !.item = 1, !.tried = FALSE, !.line = l]
         \/ /\ m \notin s.handled /\ (reviewer \/ ~s.session)
            /\ e = [s EXCEPT !.session = TRUE] /\ d = disk
            /\ run' = [run EXCEPT !.pc = "enqueue", !.line = l]
      /\ script' = script /\ reviewer' = reviewer /\ shown' = shown /\ changes' = changes
      /\ log' = log /\ gone' = gone /\ noted' = noted /\ forgets' = forgets
      /\ telegram' = telegram /\ commands' = commands /\ failed' = failed /\ doubts' = doubts
  BY <1>1 DEF ReadLine, world
<1>3. /\ disk \in Saved /\ s \in Saved /\ doubts \in Nat /\ Len(log) \in Nat /\ MaxLines \in Nat
      /\ run.line \in 0..MaxLines /\ gone \in Nat /\ gone + Len(log) <= MaxLines
      /\ \A i \in 1..Len(log) : log[i] \in Messages
  BY <1>1, InvFacts, OutboxFacts
<1>4. LineInv /\ ~Replying
  BY <1>2, InvFacts DEF Replying
<1>5. /\ StateOk(disk) /\ StateOk(s) /\ SessionServed(disk) /\ SessionServed(s)
      /\ gone = 0 => \A i \in 1..run.line : Served(log[i])
  BY <1>1, <1>2, <1>4, InvFacts DEF LineInv
<1>6. /\ l \in 1..Len(log) /\ l \in 0..MaxLines /\ m = log[l] /\ m \in Messages
      /\ \A i \in 1..l : i \in 1..run.line \/ i = l
      /\ \A i \in 1..l : i < l => i \in 1..run.line
  BY <1>1, <1>2, <1>3
<1>7. /\ "flush_line" \in ScriptSteps /\ "enqueue" \in ScriptSteps
  BY DEF ScriptSteps
<1>8. /\ d \in Saved /\ e \in Saved /\ run' \in ScriptRun /\ run'.line = l
      /\ e.outbox = s.outbox /\ e.delivered = s.delivered /\ e.sequence = s.sequence /\ e.offset = s.offset
      /\ \/ run'.pc = "flush_line" /\ m \in s.handled /\ e = s /\ d = disk
         \/ run'.pc = "flush_line" /\ e.handled = s.handled \cup {m} /\ ~reviewer /\ s.session /\ e.session /\ d = e
         \/ /\ run'.pc = "enqueue" /\ e.handled = s.handled /\ (reviewer \/ ~s.session) /\ d = disk
            /\ m \notin e.handled /\ e.session
  <2>1. CASE /\ m \in s.handled
             /\ run' = [run EXCEPT !.pc = "flush_line", !.item = 1, !.tried = FALSE, !.line = l]
             /\ e = s /\ d = disk
    <3>1. run'.pc = "flush_line" /\ run' \in ScriptRun /\ run'.line = l
      BY <1>6, <1>7, <2>1, ScriptReads
    <3> QED BY <1>3, <2>1, <3>1
  <2>2. CASE /\ m \notin s.handled /\ ~reviewer /\ s.session
             /\ e = [[s EXCEPT !.session = TRUE] EXCEPT !.handled = @ \cup {m}] /\ d = e
             /\ run' = [run EXCEPT !.pc = "flush_line", !.item = 1, !.tried = FALSE, !.line = l]
    <3>1. /\ e.outbox = s.outbox /\ e.delivered = s.delivered /\ e.sequence = s.sequence /\ e.offset = s.offset
          /\ e.session = TRUE /\ e.handled = s.handled \cup {m} /\ e \in Saved
      <4>1. PICK t : t = [s EXCEPT !.session = TRUE]
        OBVIOUS
      <4>2. /\ t \in Saved /\ t.outbox = s.outbox /\ t.delivered = s.delivered /\ t.sequence = s.sequence
            /\ t.offset = s.offset /\ t.session = TRUE /\ t.handled = s.handled
        BY <1>3, <4>1 DEF Saved
      <4>3. e = [t EXCEPT !.handled = t.handled \cup {m}]
        BY <2>2, <4>1
      <4> QED BY <1>6, <4>2, <4>3 DEF Saved
    <3>2. run'.pc = "flush_line" /\ run' \in ScriptRun /\ run'.line = l
      BY <1>6, <1>7, <2>2, ScriptReads
    <3> QED BY <2>2, <3>1, <3>2
  <2>3. CASE /\ m \notin s.handled /\ (reviewer \/ ~s.session)
             /\ e = [s EXCEPT !.session = TRUE] /\ d = disk
             /\ run' = [run EXCEPT !.pc = "enqueue", !.line = l]
    <3>1. /\ e.outbox = s.outbox /\ e.delivered = s.delivered /\ e.sequence = s.sequence /\ e.offset = s.offset
          /\ e.handled = s.handled /\ e.session /\ e \in Saved
      BY <1>3, <2>3 DEF Saved
    <3>2. run'.pc = "enqueue" /\ run' \in ScriptRun /\ run'.line = l
      BY <1>6, <1>7, <2>3, ScriptReads
    <3> QED BY <1>3, <2>3, <3>1, <3>2
  <2> QED BY <1>2, <2>1, <2>2, <2>3
(* A message that is passed over has been served, or its session has.      *)
<1>9. run'.pc = "flush_line" => Served(m)
  <2>1. m \in s.handled => Served(m)
    BY <1>5 DEF StateOk
  <2>2. ~reviewer /\ s.session => Served(m)
    BY <1>5 DEF SessionServed, Served
  <2> QED BY <1>8, <2>1, <2>2
<1>10. StateOk(e) /\ StateOk(d)
  <2>1. CASE e.handled = s.handled /\ d = disk
    BY <1>5, <1>8, <2>1 DEF StateOk
  <2>2. CASE run'.pc = "flush_line" /\ e.handled = s.handled \cup {m} /\ ~reviewer /\ d = e
    BY <1>5, <1>8, <1>9, <2>2 DEF StateOk
  <2> QED BY <1>8, <2>1, <2>2
<1>11. SessionServed(d) /\ (run'.pc = "enqueue" \/ SessionServed(e))
  BY <1>5, <1>8 DEF SessionServed
<1>12. WorldGrows
  BY <1>2, <1>3 DEF WorldGrows
<1>13. StateOk(d)' /\ StateOk(e)' /\ SessionServed(d)' /\ (Replying' \/ SessionServed(e)')
  <2>1. StateOk(d)' /\ StateOk(e)' /\ SessionServed(d)'
    BY <1>2, <1>3, <1>8, <1>10, <1>11, <1>12, StateGrows, SessionGrows
  <2>2. run'.pc = "enqueue" \/ SessionServed(e)'
    BY <1>11, <1>12, SessionGrows
  <2> QED BY <2>1, <2>2 DEF Replying
<1>14. LineInv'
  <2>1. ASSUME gone' = 0
        PROVE  \A i \in 1..l : i < l \/ ~Replying' => Served(log[i])'
    <3> SUFFICES ASSUME NEW i \in 1..l, i < l \/ ~Replying'
                 PROVE  Served(log[i])'
      OBVIOUS
    <3>1. Served(log[i])
      <4>1. CASE i \in 1..run.line
        BY <1>2, <1>5, <2>1, <4>1
      <4>2. CASE i = l /\ ~Replying'
        <5>1. run'.pc = "flush_line"
          BY <1>8, <4>2 DEF Replying
        <5> QED BY <1>6, <1>9, <4>2, <5>1
      <4> QED BY <1>6, <4>1, <4>2
    <3> QED BY <1>2, <3>1, SameLines
  <2>2. run'.pc # "queued" /\ l <= Len(log)
    BY <1>3, <1>6, <1>8
  <2>3. run'.pc = "enqueue" => log'[run'.line] \notin memory'.handled /\ memory'.session
    BY <1>1, <1>2, <1>6, <1>8
  <2>4. run'.pc \in {"flush_line", "enqueue"}
    BY <1>8
  <2> QED BY <1>2, <1>3, <1>6, <1>8, <2>1, <2>2, <2>3, <2>4 DEF LineInv
<1>15. AlertsOk(d, e)'
  <2>1. /\ \A a \in Alerts : telegram[a] <= Allowed(a) + doubts
        /\ \A a \in Alerts : MayCome(s, a) => telegram[a] < Allowed(a) + doubts
        /\ \A a : Allowed(a)' = Allowed(a)
    BY <1>1, <1>2, SameLines DEF OutboxInv, AlertsOk
  <2>2. \A a \in Alerts : MayCome(e, a)' => MayCome(s, a)
    BY <1>2, <1>8 DEF MayCome
  <2> QED BY <1>2, <1>8, <2>1, <2>2 DEF AlertsOk
<1>16. ReplyInv'
  <2>1. \A k \in Messages : AnsweredNow(k) => AnsweredNow(k)'
    BY <1>1, <1>2, <1>8 DEF AnsweredNow
  <2>2. ~reviewer /\ PeerAnswered => PeerAnswered'
    <3> SUFFICES ASSUME ~reviewer, s.session
                 PROVE  PeerAnswered'
      BY <1>1 DEF PeerAnswered
    <3>1. run'.pc = "flush_line" /\ e.session
      BY <1>8
    <3> QED BY <1>1, <1>2, <3>1 DEF PeerAnswered
  <2>3. Excuses' = Excuses
    BY <1>2 DEF Excuses
  <2> QED BY <1>2, <2>1, <2>2, <2>3, InvFacts, RepliesKept
<1>17. OutboxTypeOK'
  BY <1>1, <1>2, <1>8 DEF OutboxTypeOK
<1> QED BY <1>1, <1>13, <1>14, <1>15, <1>16, <1>17, OutboxNow

(* One more reply to m, counted with the others.                           *)
LEMMA ReplyCounted ==
    ASSUME OutboxTypeOK, IsFiniteSet(Replies), NEW m \in Messages, commands' = [commands EXCEPT ![m] = @ + 1]
    PROVE  /\ IsFiniteSet(Replies)' /\ Cardinality(Replies) \in Nat
           /\ Cardinality(Replies)' <= Cardinality(Replies) + 1
<1>1. \A l \in Messages : commands[l] \in Nat
  BY OutboxFacts
<1>2. PICK c : c = commands[m] + 1
  OBVIOUS
<1>3. c \in Nat /\ commands[m] \in Nat /\ \A k \in 1..c : k \in 1..commands[m] \/ k = c
  BY <1>1, <1>2
<1>4. \A l \in Messages : commands'[l] = IF l = m THEN c ELSE commands[l]
  BY <1>2 DEF OutboxTypeOK
<1>5. PICK old, new : old = Replies /\ new = UNION {{l} \X (1..commands'[l]) : l \in Messages}
  OBVIOUS
<1>6. \A p : p \in old <=> \E l \in Messages : p \in {l} \X (1..commands[l])
  BY <1>5 DEF Replies
<1>7. \A p : p \in new <=> \E l \in Messages : p \in {l} \X (1..commands'[l])
  BY <1>5
<1>8. new = old \cup {<<m, c>>}
  <2>1. ASSUME NEW p \in new PROVE p \in old \cup {<<m, c>>}
    <3>1. PICK l \in Messages : p \in {l} \X (1..commands'[l])
      BY <1>7, <2>1
    <3>2. PICK k \in 1..commands'[l] : p = <<l, k>>
      BY <3>1
    <3>3. CASE l # m
      <4>1. p \in {l} \X (1..commands[l])
        BY <1>4, <3>1, <3>3
      <4> QED BY <1>6, <4>1
    <3>4. CASE l = m
      <4>1. k \in 1..commands[m] \/ k = c
        BY <1>3, <1>4, <3>4
      <4>2. k \in 1..commands[m] => p \in {m} \X (1..commands[m])
        BY <3>2, <3>4
      <4> QED BY <1>6, <3>2, <3>4, <4>1, <4>2
    <3> QED BY <3>3, <3>4
  <2>2. <<m, c>> \in new
    <3>1. c \in 1..commands'[m]
      BY <1>2, <1>3, <1>4
    <3>2. <<m, c>> \in {m} \X (1..commands'[m])
      BY <3>1
    <3> QED BY <1>7, <3>2
  <2>3. ASSUME NEW p \in old PROVE p \in new
    <3>1. PICK l \in Messages : p \in {l} \X (1..commands[l])
      BY <1>6, <2>3
    <3>2. PICK k \in 1..commands[l] : p = <<l, k>>
      BY <3>1
    <3>3. k \in 1..commands'[l]
      <4>1. CASE l = m
        BY <1>2, <1>3, <1>4, <4>1
      <4>2. CASE l # m
        BY <1>4, <4>2
      <4> QED BY <4>1, <4>2
    <3>4. p \in {l} \X (1..commands'[l])
      BY <3>2, <3>3
    <3> QED BY <1>7, <3>4
  <2> QED BY <2>1, <2>2, <2>3
<1>9. IsFiniteSet(old) /\ Cardinality(old) \in Nat
  BY <1>5, FS_CardinalityType
<1>10. IsFiniteSet(new) /\ (Cardinality(new) = Cardinality(old) \/ Cardinality(new) = Cardinality(old) + 1)
  BY <1>8, <1>9, FS_AddElement
<1>11. Replies' = new
  BY <1>5 DEF Replies
<1>12. Cardinality(new) <= Cardinality(old) + 1
  BY <1>9, <1>10
<1>13. IsFiniteSet(Replies)' /\ Cardinality(Replies)' = Cardinality(new)
  BY <1>10, <1>11
<1> QED BY <1>5, <1>9, <1>12, <1>13


LEMMA EnqueueReplyKeeps ==
    ASSUME OutboxTypeOK, OutboxInv, EnqueueReply
    PROVE  (OutboxTypeOK /\ OutboxInv)'
<1>1. PICK m, d, s : m = log[run.line] /\ d = disk /\ s = memory
  OBVIOUS
<1>2. /\ script = "respond" /\ run.pc = "enqueue" /\ disk' = d /\ memory' = s
      /\ \/ commands' = [commands EXCEPT ![m] = @ + 1] /\ ToStep("queued") /\ failed' = failed
         \/ failed' = failed \cup {m} /\ Flush("flush_line") /\ commands' = commands
      /\ script' = script /\ reviewer' = reviewer /\ shown' = shown /\ changes' = changes
      /\ log' = log /\ gone' = gone /\ noted' = noted /\ forgets' = forgets
      /\ telegram' = telegram /\ doubts' = doubts
  BY <1>1 DEF EnqueueReply, CurrentLine, world
<1>3. /\ d \in Saved /\ s \in Saved /\ doubts \in Nat /\ Len(log) \in Nat /\ MaxLines \in Nat
      /\ run.line \in 0..MaxLines /\ (\A i \in 1..Len(log) : log[i] \in Messages)
      /\ Excuses \in Nat /\ \A l \in Messages : commands[l] \in Nat
  BY <1>1, OutboxFacts
<1>4. /\ LineInv /\ Replying /\ gone + Len(log) <= MaxLines /\ run.line \in 1..Len(log)
      /\ m \notin s.handled /\ s.session
      /\ gone = 0 => \A i \in 1..run.line : i < run.line => Served(log[i])
  BY <1>1, <1>2, InvFacts DEF LineInv, Replying
<1>5. StateOk(d) /\ StateOk(s) /\ SessionServed(d)
  BY <1>1, <1>2, InvFacts
<1>6. m \in Messages /\ m \in Alerts
  <2>1. m \in Messages
    BY <1>1, <1>3, <1>4
  <2> QED BY <2>1, OutboxFacts
<1>7. "queued" \in ScriptSteps /\ "flush_line" \in ScriptSteps
  BY DEF ScriptSteps
<1>8. run' \in ScriptRun /\ run'.line = run.line /\ run'.pc \in {"queued", "flush_line"}
  <2>1. CASE ToStep("queued")
    BY <1>7, <2>1, RunSteps
  <2>2. CASE Flush("flush_line")
    BY <1>7, <2>2, RunSteps
  <2> QED BY <1>2, <2>1, <2>2
<1>9. /\ commands' \in [Messages -> Nat] /\ failed \subseteq failed' /\ failed' \subseteq Messages
      /\ \A l \in Messages : commands'[l] \in Nat /\ commands'[l] >= commands[l]
      /\ \A l \in Messages : l # m => commands'[l] = commands[l]
      /\ \/ run'.pc = "queued" /\ commands'[m] = commands[m] + 1 /\ failed' = failed
         \/ run'.pc = "flush_line" /\ m \in failed' /\ commands' = commands
  <2>1. commands \in [Messages -> Nat] /\ failed \subseteq Messages
    BY DEF OutboxTypeOK
  <2>2. CASE commands' = [commands EXCEPT ![m] = @ + 1] /\ ToStep("queued") /\ failed' = failed
    <3>1. run'.pc = "queued"
      BY <1>7, <2>2, RunSteps
    <3>2. commands' \in [Messages -> Nat] /\ commands'[m] = commands[m] + 1
          /\ \A l \in Messages : l # m => commands'[l] = commands[l]
      BY <1>6, <2>1, <2>2
    <3>3. \A l \in Messages : commands'[l] \in Nat /\ commands'[l] >= commands[l]
      BY <1>3, <1>6, <3>2
    <3> QED BY <2>1, <2>2, <3>1, <3>2, <3>3
  <2>3. CASE failed' = failed \cup {m} /\ Flush("flush_line") /\ commands' = commands
    <3>1. run'.pc = "flush_line"
      BY <1>7, <2>3, RunSteps
    <3> QED BY <1>3, <1>6, <2>1, <2>3, <3>1
  <2> QED BY <1>2, <2>2, <2>3
<1>10. Answered(m)'
  BY <1>3, <1>6, <1>9 DEF Answered
<1>11. Served(m)'
  BY <1>6, <1>10 DEF Served
<1>12. WorldGrows
  BY <1>2, <1>3, <1>9 DEF WorldGrows
<1>13. StateOk(d)' /\ StateOk(s)' /\ SessionServed(d)' /\ SessionServed(s)'
  <2>1. StateOk(d)' /\ StateOk(s)' /\ SessionServed(d)'
    BY <1>2, <1>3, <1>5, <1>12, StateGrows, SessionGrows
  <2>2. SessionServed(s)'
    BY <1>6, <1>10 DEF SessionServed
  <2> QED BY <2>1, <2>2
<1>14. LineInv'
  <2>1. ASSUME gone' = 0
        PROVE  \A i \in 1..run.line : Served(log[i])'
    <3> SUFFICES ASSUME NEW i \in 1..run.line PROVE Served(log[i])'
      OBVIOUS
    <3>1. PICK l : l = log[i]
      OBVIOUS
    <3>2. l \in Messages /\ log'[i] = l
      BY <1>2, <1>3, <1>4, <3>1
    <3>3. CASE i = run.line
      BY <1>1, <1>2, <1>11, <3>1, <3>3
    <3>4. CASE i # run.line
      <4>1. i < run.line
        BY <1>3, <3>4
      <4>2. Served(l)
        BY <1>2, <1>4, <2>1, <3>1, <4>1
      <4>3. Served(l)'
        BY <1>12, <3>2, <4>2, ServedGrows
      <4> QED BY <3>2, <4>3
    <3> QED BY <3>3, <3>4
  <2>2. run'.pc = "queued" => commands'[log'[run'.line]] > 0
    BY <1>1, <1>2, <1>3, <1>6, <1>8, <1>9
  <2>3. run'.line <= Len(log')
    BY <1>2, <1>3, <1>4, <1>8
  <2>4. run'.pc # "enqueue" /\ script' # "watch"
    BY <1>2, <1>8
  <2> QED BY <1>2, <1>4, <1>8, <2>1, <2>2, <2>3, <2>4 DEF LineInv
(* The reply that is queued allows its alert once more.                    *)
<1>15. AlertsOk(d, s)'
  <2>1. /\ \A a \in Alerts : telegram[a] <= Allowed(a) + doubts
        /\ \A a \in Alerts : MayCome(s, a) => telegram[a] < Allowed(a) + doubts
        /\ \A a \in Alerts : telegram[a] \in Nat /\ Allowed(a) \in Nat
    BY <1>1, <1>2, OutboxFacts DEF OutboxInv, AlertsOk
  <2>2. /\ \A a \in Alerts : a # m => Allowed(a)' = Allowed(a)
        /\ Allowed(m)' = commands'[m] /\ Allowed(m) = commands[m]
    BY <1>6, <1>9 DEF Allowed
  <2>3. ASSUME NEW a \in Alerts
        PROVE  /\ telegram'[a] <= Allowed(a)' + doubts'
               /\ MayCome(s, a)' => telegram'[a] < Allowed(a)' + doubts'
    <3>1. CASE a # m
      <4>1. MayCome(s, a)' => MayCome(s, a)
        BY <1>1, <1>2, <1>8, <3>1 DEF MayCome
      <4> QED BY <1>2, <2>1, <2>2, <3>1, <4>1
    <3>2. CASE a = m /\ run'.pc = "queued"
      <4>1. PICK t, c : t = telegram[m] /\ c = commands[m]
        OBVIOUS
      <4>2. t \in Nat /\ c \in Nat /\ t <= c + doubts
        BY <1>3, <1>6, <2>1, <2>2, <4>1
      <4>3. t < (c + 1) + doubts /\ t <= (c + 1) + doubts
        BY <1>3, <4>2
      <4>4. Allowed(m)' = c + 1 /\ telegram'[m] = t /\ doubts' = doubts
        BY <1>2, <1>9, <2>2, <3>2, <4>1
      <4> QED BY <3>2, <4>3, <4>4
    <3>3. CASE a = m /\ run'.pc = "flush_line"
      <4>1. Allowed(m)' = Allowed(m)
        BY <1>9, <2>2, <3>3
      <4>2. MayCome(s, m)' => MayCome(s, m)
        BY <1>2, <3>3 DEF MayCome
      <4> QED BY <1>2, <1>6, <2>1, <3>3, <4>1, <4>2
    <3> QED BY <1>8, <3>1, <3>2, <3>3
  <2> QED BY <1>2, <1>8, <2>3 DEF AlertsOk
<1>16. ReplyInv'
  <2>1. Excuses' = Excuses
    BY <1>2 DEF Excuses
  <2>2. CASE commands' = commands
    <3>1. \A k \in Messages : AnsweredNow(k) => AnsweredNow(k)'
      BY <1>1, <1>2, <1>8 DEF AnsweredNow
    <3>2. PeerAnswered => PeerAnswered'
      BY <1>2 DEF PeerAnswered
    <3> QED BY <1>2, <2>1, <2>2, <3>1, <3>2, InvFacts, RepliesKept
  <2>3. CASE commands' = [commands EXCEPT ![m] = @ + 1] /\ run'.pc = "queued"
    <3>1. ASSUME reviewer, NEW k \in Messages
          PROVE  /\ commands'[k] <= Excuses + 1
                 /\ AnsweredNow(k)' \/ commands'[k] <= Excuses
      <4>1. /\ commands[k] <= Excuses + 1
            /\ AnsweredNow(k) \/ commands[k] <= Excuses
        BY <3>1, InvFacts DEF ReplyInv
      <4>2. CASE k # m
        <5>1. AnsweredNow(k) => AnsweredNow(k)'
          BY <1>1, <1>2, <1>8 DEF AnsweredNow
        <5> QED BY <1>9, <4>1, <4>2, <5>1
      <4>3. CASE k = m
        <5>1. ~AnsweredNow(m)
          BY <1>1, <1>2, <1>4 DEF AnsweredNow
        <5>2. AnsweredNow(m)'
          BY <1>1, <1>2, <1>8, <2>3 DEF AnsweredNow
        <5>3. commands[m] <= Excuses /\ commands'[m] = commands[m] + 1
          BY <1>9, <2>3, <4>1, <4>3, <5>1
        <5>4. commands'[m] <= Excuses + 1
          BY <1>3, <1>6, <5>3
        <5> QED BY <4>3, <5>2, <5>4
      <4> QED BY <4>2, <4>3
    <3>2. ASSUME ~reviewer
          PROVE  /\ IsFiniteSet(Replies)' /\ Cardinality(Replies)' <= Excuses + 1
                 /\ PeerAnswered'
      <4>1. ~PeerAnswered
        BY <1>2 DEF PeerAnswered
      <4>2. IsFiniteSet(Replies) /\ Cardinality(Replies) <= Excuses
        BY <3>2, <4>1, InvFacts DEF ReplyInv
      <4>3. PICK old, new : old = Cardinality(Replies) /\ new = Cardinality(Replies)'
        OBVIOUS
      <4>4. IsFiniteSet(Replies)' /\ old \in Nat /\ new <= old + 1
        BY <1>6, <2>3, <4>2, <4>3, ReplyCounted
      <4>5. new \in Nat
        BY <4>3, <4>4, FS_CardinalityType
      <4>6. new <= Excuses + 1
        BY <1>3, <4>2, <4>3, <4>4, <4>5
      <4>7. PeerAnswered'
        BY <1>2, <1>4, <2>3 DEF PeerAnswered
      <4> QED BY <4>3, <4>4, <4>6, <4>7
    <3> QED BY <1>2, <2>1, <3>1, <3>2 DEF ReplyInv
  <2>4. run'.pc = "queued" \/ commands' = commands
    BY <1>9
  <2> QED BY <1>2, <2>2, <2>3, <2>4
<1>17. OutboxTypeOK'
  BY <1>1, <1>2, <1>8, <1>9 DEF OutboxTypeOK
<1> QED BY <1>2, <1>13, <1>14, <1>15, <1>16, <1>17, OutboxNow

LEMMA SaveHandledKeeps ==
    ASSUME OutboxTypeOK, OutboxInv, SaveHandled
    PROVE  (OutboxTypeOK /\ OutboxInv)'
<1>1. PICK m, s, e : m = log[run.line] /\ s = memory /\ e = memory'
  OBVIOUS
<1>2. /\ script = "respond" /\ run.pc = "queued" /\ disk' = e /\ noted' = noted \cup {m}
      /\ e = QueueNotification([s EXCEPT !.handled = @ \cup {m}], m)
      /\ Flush("flush_line")
      /\ script' = script /\ reviewer' = reviewer /\ shown' = shown /\ changes' = changes
      /\ log' = log /\ gone' = gone /\ forgets' = forgets
      /\ telegram' = telegram /\ commands' = commands /\ failed' = failed /\ doubts' = doubts
  BY <1>1 DEF SaveHandled, HandledWith, CurrentLine, world
<1>3. /\ s \in Saved /\ doubts \in Nat /\ Len(log) \in Nat /\ MaxLines \in Nat
      /\ run.line \in 0..MaxLines /\ (\A i \in 1..Len(log) : log[i] \in Messages)
  BY <1>1, OutboxFacts
<1>4. /\ LineInv /\ Replying /\ gone + Len(log) <= MaxLines /\ run.line \in 1..Len(log)
      /\ commands[m] > 0
      /\ gone = 0 => \A i \in 1..run.line : i < run.line => Served(log[i])
  BY <1>1, <1>2, InvFacts DEF LineInv, Replying
<1>5. StateOk(s)
  BY <1>1, <1>2, InvFacts
<1>6. m \in Messages /\ m \in Alerts /\ m \notin 0..MaxChanges
  <2>1. m \in Messages
    BY <1>1, <1>3, <1>4
  <2> QED BY <2>1, OutboxFacts
<1>7. /\ e \in Saved /\ e.sequence = s.sequence /\ e.offset = s.offset /\ e.session = s.session
      /\ e.handled = s.handled \cup {m} /\ e.delivered = s.delivered
      /\ \/ ToSet(e.outbox) = ToSet(s.outbox) \cup {m}
         \/ ToSet(e.outbox) = ToSet(s.outbox) /\ m \in ToSet(s.delivered)
  <2>1. PICK t : t = [s EXCEPT !.handled = @ \cup {m}]
    OBVIOUS
  <2>2. /\ t \in Saved /\ t.sequence = s.sequence /\ t.offset = s.offset /\ t.session = s.session
        /\ t.handled = s.handled \cup {m} /\ t.delivered = s.delivered /\ t.outbox = s.outbox
    BY <1>3, <1>6, <2>1 DEF Saved
  <2>3. e = QueueNotification(t, m)
    BY <1>2, <2>1
  <2>4. /\ e \in Saved /\ SameRecord(t, e) /\ e.delivered = t.delivered
        /\ \/ ToSet(e.outbox) = ToSet(t.outbox) \cup {m}
           \/ ToSet(e.outbox) = ToSet(t.outbox) /\ m \in ToSet(t.delivered)
    BY <1>6, <2>2, <2>3, QueueFacts
  <2> QED BY <2>2, <2>4 DEF SameRecord
<1>8. Answered(m) /\ Served(m)
  BY <1>4, <1>6 DEF Answered, Served
<1>9. \A l : Served(l)' = Served(l) /\ Answered(l)' = Answered(l) /\ Allowed(l)' = Allowed(l)
  BY <1>2 DEF Served, Answered, Allowed
(* The alert of the message is due, and the message was answered.          *)
<1>10. StateOk(e)'
  <2>1. m \in ToSet(e.outbox) \/ telegram[m] > 0
    BY <1>5, <1>7 DEF StateOk
  <2>2. \A a \in 1..e.sequence \cup noted' : a \in ToSet(e.outbox) \/ telegram'[a] > 0
    BY <1>2, <1>5, <1>7, <2>1 DEF StateOk
  <2>3. \A a \in ToSet(e.outbox) : a \in 0..MaxChanges => a <= e.sequence
    BY <1>5, <1>6, <1>7 DEF StateOk
  <2>4. \A a \in ToSet(e.delivered) : telegram'[a] > 0
    BY <1>2, <1>5, <1>7 DEF StateOk
  <2>5. ASSUME NEW l \in e.handled
        PROVE  Served(l)' /\ (reviewer' => commands'[l] > 0)
    <3>1. l = m \/ l \in s.handled
      BY <1>7
    <3>2. l \in s.handled => Served(l) /\ (reviewer => commands[l] > 0)
      BY <1>5 DEF StateOk
    <3> QED BY <1>2, <1>4, <1>8, <1>9, <3>1, <3>2
  <2>6. gone' = 0 => e.offset <= Len(log') /\ \A i \in 1..e.offset : Served(log[i])'
    <3> HAVE gone' = 0
    <3>1. s.offset <= Len(log) /\ \A i \in 1..s.offset : Served(log[i])
      BY <1>2, <1>5 DEF StateOk
    <3>2. \A i : log'[i] = log[i]
      BY <1>2
    <3> QED BY <1>2, <1>7, <1>9, <3>1, <3>2
  <2> QED BY <2>2, <2>3, <2>4, <2>5, <2>6 DEF StateOk
<1>11. SessionServed(e)'
  BY <1>6, <1>8, <1>9 DEF SessionServed
<1>12. run' \in ScriptRun /\ run'.pc = "flush_line" /\ run'.line = run.line
  <2>1. "flush_line" \in ScriptSteps
    BY DEF ScriptSteps
  <2> QED BY <1>2, <2>1, RunSteps
<1>13. LineInv'
  <2>1. ASSUME gone' = 0
        PROVE  \A i \in 1..run.line : Served(log[i])'
    <3> SUFFICES ASSUME NEW i \in 1..run.line PROVE Served(log[i])'
      OBVIOUS
    <3>1. i = run.line \/ i < run.line
      BY <1>3
    <3>2. Served(log[i])
      BY <1>1, <1>2, <1>4, <1>8, <2>1, <3>1
    <3>3. log'[i] = log[i]
      BY <1>2
    <3> QED BY <1>9, <3>2, <3>3
  <2>2. ~Replying' /\ run'.pc \notin {"enqueue", "queued"} /\ run'.line <= Len(log')
    BY <1>2, <1>3, <1>4, <1>12 DEF Replying
  <2> QED BY <1>2, <1>4, <1>12, <2>1, <2>2 DEF LineInv
<1>14. AlertsOk(e, e)'
  <2>1. /\ \A a \in Alerts : telegram[a] <= Allowed(a) + doubts
        /\ \A a \in Alerts : MayCome(s, a) => telegram[a] < Allowed(a) + doubts
    BY <1>1, <1>2 DEF OutboxInv, AlertsOk
  <2>2. ASSUME NEW a \in Alerts, MayCome(e, a)' PROVE MayCome(s, a)
    <3>1. CASE a = m
      BY <1>1, <1>2, <3>1 DEF MayCome
    <3>2. CASE a # m
      BY <1>2, <1>7, <1>12, <2>2, <3>2 DEF MayCome
    <3> QED BY <3>1, <3>2
  <2> QED BY <1>2, <1>9, <1>12, <2>1, <2>2 DEF AlertsOk
<1>15. ReplyInv'
  <2>1. \A k \in Messages : AnsweredNow(k) => AnsweredNow(k)'
    BY <1>1, <1>2, <1>7, <1>12 DEF AnsweredNow
  <2>2. PeerAnswered => PeerAnswered'
    BY <1>1, <1>2, <1>7, <1>12 DEF PeerAnswered
  <2>3. Excuses' = Excuses
    BY <1>2 DEF Excuses
  <2> QED BY <1>2, <2>1, <2>2, <2>3, InvFacts, RepliesKept
<1>16. OutboxTypeOK'
  BY <1>1, <1>2, <1>6, <1>7, <1>12 DEF OutboxTypeOK
<1> QED BY <1>1, <1>2, <1>10, <1>11, <1>13, <1>14, <1>15, <1>16, OutboxNow

-----------------------------------------------------------------------------
(* The outbox: theorems *)

LEMMA OutboxStarts == OutboxInit => OutboxTypeOK /\ OutboxInv
<1> SUFFICES ASSUME OutboxInit
             PROVE  OutboxTypeOK /\ OutboxInv
  OBVIOUS
<1>1. PICK e : e = EmptyState
  OBVIOUS
<1>2. /\ script \in {"watch", "respond"} /\ reviewer \in BOOLEAN /\ (script = "watch" => ~reviewer)
      /\ changes = 0 /\ log = <<>> /\ gone = 0 /\ disk = e /\ memory = e /\ run = Asleep
      /\ failed = {} /\ noted = {} /\ forgets = 0 /\ doubts = 0
  BY <1>1 DEF OutboxInit
<1>3. /\ telegram \in [Alerts -> Nat] /\ commands \in [Messages -> Nat]
      /\ (\A a \in Alerts : telegram[a] = 0) /\ \A m \in Messages : commands[m] = 0
  BY DEF OutboxInit
<1>4. shown \in MarketStatuses
  BY OutboxBounds DEF OutboxInit
<1>5. log \in Seq(Messages) /\ Len(log) = 0
  BY <1>2
<1>6. MaxLines \in Nat /\ MaxChanges \in Nat /\ MaxDoubts \in Nat /\ MaxForgets \in Nat
  BY OutboxBounds
<1>7. e \in Saved /\ StateOk(e) /\ SessionServed(e)
  <2>1. e \in Saved /\ ToSet(e.outbox) = {} /\ ToSet(e.delivered) = {}
    BY <1>1, EmptyFacts DEF EmptyState
  <2>2. e.sequence = 0 /\ e.offset = 0 /\ e.handled = {} /\ ~e.session
    BY <1>1 DEF EmptyState
  <2>3. \A i : i \notin 1..0
    OBVIOUS
  <2> QED BY <1>2, <1>5, <2>1, <2>2, <2>3 DEF StateOk, SessionServed
<1>8. run \in ScriptRun /\ run.pc = "idle" /\ run.line = 0
  BY <1>2, <1>6 DEF Asleep, ScriptRun
<1>9. OutboxTypeOK
  BY <1>2, <1>3, <1>4, <1>5, <1>6, <1>7, <1>8 DEF OutboxTypeOK
<1>10. LineInv
  BY <1>2, <1>5, <1>6, <1>8 DEF LineInv, Replying
<1>11. AlertsOk(disk, memory)
  <2>1. \A a \in Alerts : Allowed(a) \in Nat /\ telegram[a] <= Allowed(a) + doubts
    BY <1>2, <1>3, <1>9, OutboxFacts
  <2>2. \A a \in Alerts : a \in Messages => ~MayCome(disk, a)
    <3>1. \A a \in Messages : a \notin 0..MaxChanges
      BY <1>9, OutboxFacts
    <3>2. ToSet(e.outbox) = {}
      BY <1>1, EmptyFacts
    <3> QED BY <1>2, <1>8, <3>1, <3>2 DEF MayCome
  <2>3. \A a \in Alerts : a \notin Messages => telegram[a] < Allowed(a) + doubts
    BY <1>2, <1>3 DEF Allowed
  <2> QED BY <1>8, <2>1, <2>2, <2>3 DEF AlertsOk
<1>12. Replies = {}
  <2>1. \A m \in Messages : {m} \X (1..commands[m]) = {}
    BY <1>3
  <2> QED BY <2>1 DEF Replies
<1>13. IsFiniteSet(Replies) /\ Cardinality(Replies) = 0
  BY <1>12, FS_EmptySet
<1>14. ReplyInv
  BY <1>2, <1>3, <1>13 DEF ReplyInv, Excuses
<1> QED BY <1>2, <1>7, <1>8, <1>9, <1>10, <1>11, <1>14 DEF OutboxInv

(* What the script keeps, in memory and on disk, agrees with what was sent *)
(* and queued: every due alert is in an outbox or was received, and an     *)
(* alert that may still be sent was sent less often than its replies, the  *)
(* deaths and the lost answers allow.                                      *)
THEOREM OutboxAgrees == OutboxSpec => [](OutboxTypeOK /\ OutboxInv)
<1>1. OutboxTypeOK /\ OutboxInv /\ [OutboxNext]_outboxVars => (OutboxTypeOK /\ OutboxInv)'
  <2> SUFFICES ASSUME OutboxTypeOK, OutboxInv, [OutboxNext]_outboxVars
               PROVE  (OutboxTypeOK /\ OutboxInv)'
    OBVIOUS
  <2>1. CASE UNCHANGED outboxVars
    <3>1. OutboxTypeOK'
      BY <2>1 DEF outboxVars, world, OutboxTypeOK
    <3>2. OutboxInv'
      BY <2>1 DEF outboxVars, world, OutboxInv, StateOk, SessionServed, Served, Answered, LineInv, AlertsOk,
                  MayCome, Allowed, Excuses, ReplyInv, Replying, AnsweredNow, PeerAnswered, Replies
    <3> QED BY <3>1, <3>2
  <2>2. CASE OutboxNext
    BY <2>2, TryAlertKeeps, DieKeeps, PublishKeeps, StartWatchKeeps, FetchStatusKeeps, EndWatchKeeps,
       LogLineKeeps, RotateLogKeeps, HandleOthersKeeps, StartFollowKeeps, SaveKeeps, ReadLineKeeps,
       EnqueueReplyKeeps, SaveHandledKeeps, EndOfLogKeeps DEF OutboxNext
  <2> QED BY <2>1, <2>2
<1> QED BY <1>1, OutboxStarts, PTL DEF OutboxSpec

(* No recorded status change, and no alert of an answer whose handling was *)
(* saved, is lost by a crash or a refusal of Telegram; the responder skips *)
(* no line of a log that is not rotated, and handles no message that was   *)
(* not served: over any number of deaths, changes, messages and lines.     *)
THEOREM NothingIsLost == OutboxSpec => []NothingLost
<1>1. OutboxTypeOK /\ OutboxInv => NoAlertLost
  BY InvFacts DEF NoAlertLost, StateOk
<1>2. OutboxTypeOK /\ OutboxInv => NoLineSkipped
  BY InvFacts DEF NoLineSkipped, StateOk
<1> QED BY <1>1, <1>2, OutboxAgrees, PTL DEF NothingLost

(* An alert or a reply is repeated only as often as a process died, an     *)
(* answer of Telegram was lost or, for replies, a save forgot something of *)
(* the session: over any number of messages, lines and forgetful saves.    *)
THEOREM RepeatsHaveReasons == OutboxSpec => []RepeatsAreExplained
<1>1. OutboxTypeOK /\ OutboxInv => RepeatsAreExplained
  <2> SUFFICES ASSUME OutboxTypeOK, OutboxInv
               PROVE  RepeatsAreExplained
    OBVIOUS
  <2>1. doubts \in Nat /\ forgets \in Nat /\ 1 + doubts + forgets = Excuses + 1
    BY OutboxFacts DEF Excuses
  <2>2. \A a \in 0..MaxChanges : telegram[a] <= 1 + doubts
    <3>1. \A a \in 0..MaxChanges : a \in Alerts /\ a \notin Messages
      BY OutboxFacts DEF Alerts
    <3>2. \A a \in 0..MaxChanges : telegram[a] <= Allowed(a) + doubts /\ Allowed(a) = 1
      BY <3>1, InvFacts DEF Allowed
    <3> QED BY <3>2
  <2>3. \A m \in Messages : telegram[m] <= commands[m] + doubts
    BY OutboxFacts, InvFacts DEF Allowed
  <2>4. reviewer => \A m \in Messages : commands[m] <= 1 + doubts + forgets
    BY <2>1, InvFacts DEF ReplyInv
  <2>5. ~reviewer => Cardinality(Replies) <= 1 + doubts + forgets
    BY <2>1, InvFacts DEF ReplyInv
  <2> QED BY <2>2, <2>3, <2>4, <2>5 DEF RepeatsAreExplained
<1> QED BY <1>1, OutboxAgrees, PTL
=============================================================================
