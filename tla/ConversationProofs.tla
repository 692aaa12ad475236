-------------------------- MODULE ConversationProofs --------------------------
(***************************************************************************)
(* For any number of questions, users, sessions and troubles.  The cache   *)
(* comes first, with any number of callers and any size: it keeps its      *)
(* bound, evicts the coldest entries and counts every Get once.            *)
(***************************************************************************)
EXTENDS Conversation, SequenceTheorems, FiniteSetTheorems, TLAPS

\* The bound is inductive together with what makes an entry's name its own: entries
\* are born from Sets that happened.
CacheInv ==
  /\ CacheTypeOK
  /\ IsFiniteSet(entries)
  /\ CacheBounded
  /\ \A e \in entries : e.born <= sets

\* An entry keeps its type and its name when it is hit.
LEMMA BumpedIsEntry ==
  ASSUME NEW e \in Entry, NEW b
  PROVE  Bumped(e, b) \in Entry /\ Bumped(e, b).born = e.born
<1>1. CASE e.born = b
  <2>1. Bumped(e, b) = [e EXCEPT !.hitCount = e.hitCount + 1]
    BY <1>1 DEF Bumped
  <2>2. e.hitCount + 1 \in Nat
    BY DEF Entry
  <2>3. QED BY <2>1, <2>2 DEF Entry
<1>2. CASE e.born # b
  BY <1>2 DEF Bumped
<1>3. QED BY <1>1, <1>2

\* What evict leaves is part of the cache and has one place free.
LEMMA EvictedHasRoom ==
  ASSUME CacheInv, NEW kept \in Evicted
  PROVE  kept \subseteq entries /\ Cardinality(kept) < maxEntries
<1>1. CASE Cardinality(Valid) < maxEntries
  BY <1>1 DEF Evicted, Valid
<1>2. CASE ~ Cardinality(Valid) < maxEntries
  <2>1. kept \in Warmest(maxEntries - 1)
    BY <1>2 DEF Evicted
  <2>2. kept \subseteq Valid /\ Cardinality(kept) = maxEntries - 1
    BY <2>1 DEF Warmest
  <2>3. QED BY <2>2, CacheAssumption DEF Valid
<1>3. QED BY <1>1, <1>2

\* A hit changes no entry but the one that was hit.
LEMMA HitKeepsBound ==
  ASSUME CacheInv, NEW c \in Callers, CountHit(c)
  PROVE  CacheInv'
<1> DEFINE b == found[c].entry.born
           f == [e \in entries |-> Bumped(e, b)]
<1>1. entries' = {Bumped(e, b) : e \in entries}
  BY DEF CountHit
<1>2. \A e \in entries : Bumped(e, b) \in Entry /\ Bumped(e, b).born = e.born
  BY BumpedIsEntry DEF CacheInv, CacheTypeOK
<1>3. IsFiniteSet(entries') /\ Cardinality(entries') <= Cardinality(entries)
  <2>1. f \in Surjection(entries, entries')
    BY <1>1 DEF Surjection
  <2>2. QED BY <2>1, FS_Surjection DEF CacheInv
<1>4. Cardinality(entries') <= maxEntries
  <2>1. Cardinality(entries') \in Nat /\ Cardinality(entries) \in Nat /\ maxEntries \in Nat
    BY <1>3, FS_CardinalityType, CacheAssumption DEF CacheInv
  <2>2. Cardinality(entries) <= maxEntries
    BY DEF CacheInv, CacheBounded
  <2>3. QED BY <1>3, <2>1, <2>2
<1>5. \A e, g \in entries' : e.born = g.born => e = g
  <2> SUFFICES ASSUME NEW e \in entries', NEW g \in entries', e.born = g.born
               PROVE  e = g
    OBVIOUS
  <2>1. PICK x \in entries, y \in entries : e = Bumped(x, b) /\ g = Bumped(y, b)
    BY <1>1
  <2>2. x.born = y.born
    BY <1>2, <2>1
  <2>3. x = y
    BY <2>2 DEF CacheInv, CacheBounded
  <2>4. QED BY <2>1, <2>3
<1>6. \A e \in entries' : e.born <= sets'
  <2> SUFFICES ASSUME NEW e \in entries' PROVE e.born <= sets'
    OBVIOUS
  <2>1. PICK x \in entries : e = Bumped(x, b)
    BY <1>1
  <2>2. e.born = x.born /\ sets' = sets
    BY <1>2, <2>1 DEF CountHit
  <2>3. QED BY <2>2 DEF CacheInv
<1>7. entries' \subseteq Entry
  BY <1>1, <1>2
<1>8. CacheTypeOK'
  <2>1. found' = [found EXCEPT ![c] = NotGetting] /\ NotGetting.in = "none"
        /\ NotGetting \in [in : {"none", "miss", "hit"}, entry : Entry \cup {None}]
    BY DEF CountHit, NotGetting
  <2>2. /\ found' \in [Callers -> [in : {"none", "miss", "hit"}, entry : Entry \cup {None}]]
        /\ \A d \in Callers : found'[d].in = "hit" => found'[d].entry \in Entry
    BY <2>1 DEF CacheInv, CacheTypeOK
  <2>3. QED BY <1>7, <2>2 DEF CountHit, CacheInv, CacheTypeOK
<1>9. QED BY <1>3, <1>4, <1>5, <1>6, <1>8 DEF CacheInv, CacheBounded

\* Set appends after evict has made room.
LEMMA SetKeepsBound ==
  ASSUME CacheInv, NEW q \in Questions, NEW a \in Answers, Set(q, a)
  PROVE  CacheInv'
<1> DEFINE new == [question |-> q, answer |-> a, hitCount |-> 0, born |-> sets + 1]
<1>1. PICK kept \in IF Cardinality(entries) >= maxEntries THEN Evicted ELSE {entries} :
        entries' = kept \cup {new}
  BY DEF Set
<1>2. kept \subseteq entries /\ Cardinality(kept) < maxEntries
  <2>1. Cardinality(entries) \in Nat /\ maxEntries \in Nat
    BY FS_CardinalityType, CacheAssumption DEF CacheInv
  <2>2. CASE Cardinality(entries) >= maxEntries
    BY <1>1, <2>2, EvictedHasRoom
  <2>3. CASE ~ Cardinality(entries) >= maxEntries
    BY <1>1, <2>1, <2>3
  <2>4. QED BY <2>2, <2>3
<1>3. sets \in Nat /\ sets' = sets + 1 /\ new \in Entry /\ new.born = sets + 1
  BY DEF CacheInv, CacheTypeOK, Set, Entry
<1>4. IsFiniteSet(entries') /\ Cardinality(entries') <= maxEntries
  <2>1. IsFiniteSet(kept) /\ Cardinality(kept) \in Nat
    BY <1>2, FS_Subset, FS_CardinalityType DEF CacheInv
  <2>2. /\ IsFiniteSet(kept \cup {new})
        /\ Cardinality(kept \cup {new}) = IF new \in kept THEN Cardinality(kept) ELSE Cardinality(kept) + 1
    BY <2>1, FS_AddElement
  <2>3. QED BY <1>1, <1>2, <2>1, <2>2, CacheAssumption
<1>5. \A e \in entries : e.born \in Nat /\ e.born <= sets
  BY DEF CacheInv, CacheTypeOK, Entry
<1>6. \A e, f \in entries' : e.born = f.born => e = f
  <2>1. \A e \in kept : e.born # new.born
    BY <1>2, <1>3, <1>5
  <2>2. QED BY <1>1, <1>2, <2>1 DEF CacheInv, CacheBounded
<1>7. \A e \in entries' : e.born <= sets'
  BY <1>1, <1>2, <1>3, <1>5
<1>8. CacheTypeOK'
  BY <1>1, <1>2, <1>3 DEF CacheInv, CacheTypeOK, Set
<1>9. QED BY <1>4, <1>6, <1>7, <1>8 DEF CacheInv, CacheBounded

\* Every step keeps the invariant.
LEMMA CacheStep ==
  ASSUME CacheInv, [CacheNext]_cacheVars
  PROVE  CacheInv'
<1>1. ASSUME NEW c \in Callers, NEW q \in Questions, Scan(c, q)
      PROVE  CacheInv'
  <2>1. PICK r \in [in : {"none", "miss", "hit"}, entry : Entry \cup {None}] :
          found' = [found EXCEPT ![c] = r] /\ (r.in = "hit" => r.entry \in Entry)
    <3>1. CASE found' = [found EXCEPT ![c] = [in |-> "miss", entry |-> None]]
      <4>1. [in |-> "miss", entry |-> None] \in [in : {"none", "miss", "hit"}, entry : Entry \cup {None}]
        OBVIOUS
      <4>2. QED BY <3>1, <4>1
    <3>2. ASSUME NEW e \in Candidates(q), found' = [found EXCEPT ![c] = [in |-> "hit", entry |-> e]]
          PROVE  \E r \in [in : {"none", "miss", "hit"}, entry : Entry \cup {None}] :
                   found' = [found EXCEPT ![c] = r] /\ (r.in = "hit" => r.entry \in Entry)
      <4>1. e \in Entry
        BY DEF Candidates, CacheInv, CacheTypeOK
      <4>2. [in |-> "hit", entry |-> e] \in [in : {"none", "miss", "hit"}, entry : Entry \cup {None}]
        BY <4>1
      <4>3. QED BY <3>2, <4>1, <4>2
    <3>3. QED BY <1>1, <3>1, <3>2 DEF Scan
  <2>2. /\ found' \in [Callers -> [in : {"none", "miss", "hit"}, entry : Entry \cup {None}]]
        /\ \A d \in Callers : found'[d].in = "hit" => found'[d].entry \in Entry
    BY <2>1 DEF CacheInv, CacheTypeOK
  <2>3. QED BY <1>1, <2>2 DEF Scan, CacheInv, CacheTypeOK, CacheBounded
<1>2. ASSUME NEW c \in Callers, CountMiss(c)
      PROVE  CacheInv'
  <2>1. found' = [found EXCEPT ![c] = NotGetting] /\ NotGetting.in = "none"
        /\ NotGetting \in [in : {"none", "miss", "hit"}, entry : Entry \cup {None}]
    BY <1>2 DEF CountMiss, NotGetting
  <2>2. /\ found' \in [Callers -> [in : {"none", "miss", "hit"}, entry : Entry \cup {None}]]
        /\ \A d \in Callers : found'[d].in = "hit" => found'[d].entry \in Entry
    BY <2>1 DEF CacheInv, CacheTypeOK
  <2>3. QED BY <1>2, <2>2 DEF CountMiss, CacheInv, CacheTypeOK, CacheBounded
<1>3. ASSUME Age PROVE CacheInv'
  BY <1>3 DEF Age, CacheInv, CacheTypeOK, CacheBounded
<1>4. ASSUME UNCHANGED cacheVars PROVE CacheInv'
  BY <1>4 DEF cacheVars, CacheInv, CacheTypeOK, CacheBounded
<1>5. QED BY <1>1, <1>2, <1>3, <1>4, HitKeepsBound, SetKeepsBound DEF CacheNext

\* The empty cache satisfies the invariant.
LEMMA CacheStart ==
  ASSUME CacheInit
  PROVE  CacheInv
<1>1. entries = {} /\ IsFiniteSet({}) /\ Cardinality({}) = 0
  BY FS_EmptySet DEF CacheInit
<1>2. NotGetting \in [in : {"none", "miss", "hit"}, entry : Entry \cup {None}] /\ NotGetting.in = "none"
  BY DEF NotGetting
<1>3. QED BY <1>1, <1>2, CacheAssumption DEF CacheInit, CacheInv, CacheTypeOK, CacheBounded

\* Types of the cache's variables, in every use of it.
THEOREM CacheTypes == CacheSpec => []CacheTypeOK
<1>1. CacheInv => CacheTypeOK
  BY DEF CacheInv
<1>2. QED BY <1>1, CacheStart, CacheStep, PTL DEF CacheSpec

\* The cache never holds more than maxEntries, and no entry twice, for any number
\* of goroutines that Get and Set at once.
THEOREM CacheStaysBounded == CacheSpec => []CacheBounded
<1>1. CacheInv => CacheBounded
  BY DEF CacheInv
<1>2. QED BY <1>1, CacheStart, CacheStep, PTL DEF CacheSpec

\* A Set only ever throws out a live entry that has no more hits than those it keeps.
LEMMA SetEvictsColdest ==
  ASSUME CacheInv, NEW q \in Questions, NEW a \in Answers, Set(q, a),
         NEW e \in entries, ~Expired(e), \A f \in entries' : f.born # e.born,
         NEW f \in entries \cap entries'
  PROVE  e.hitCount <= f.hitCount
<1> DEFINE new == [question |-> q, answer |-> a, hitCount |-> 0, born |-> sets + 1]
<1>1. PICK kept \in IF Cardinality(entries) >= maxEntries THEN Evicted ELSE {entries} :
        entries' = kept \cup {new}
  BY DEF Set
<1>2. f \in kept
  <2>1. f.born \in Nat /\ f.born <= sets /\ sets \in Nat
    BY DEF CacheInv, CacheTypeOK, Entry
  <2>2. f # new
    BY <2>1
  <2>3. QED BY <1>1, <2>2
<1>3. e \notin kept /\ e \in Valid
  BY <1>1 DEF Valid
<1>4. kept \in Evicted
  BY <1>1, <1>3
<1>5. kept \in Warmest(maxEntries - 1)
  BY <1>3, <1>4 DEF Evicted
<1>6. QED BY <1>2, <1>3, <1>5 DEF Warmest

\* Eviction takes the coldest, at any size of the cache.
THEOREM EvictionIsCold == CacheSpec => EvictsColdest
<1>1. ASSUME CacheInv, [CacheNext]_cacheVars
      PROVE  [\A e \in entries :
                (sets' # sets /\ ~Expired(e) /\ \A f \in entries' : f.born # e.born)
                  => \A f \in entries \cap entries' : e.hitCount <= f.hitCount]_cacheVars
  <2> SUFFICES ASSUME NEW e \in entries, sets' # sets, ~Expired(e),
                      \A f \in entries' : f.born # e.born,
                      NEW f \in entries \cap entries'
               PROVE  e.hitCount <= f.hitCount
    OBVIOUS
  <2>1. sets \in Nat
    BY <1>1 DEF CacheInv, CacheTypeOK
  <2>2. \E q \in Questions, a \in Answers : Set(q, a)
    BY <1>1 DEF CacheNext, Scan, CountMiss, CountHit, Age, cacheVars
  <2>3. QED BY <1>1, <2>2, SetEvictsColdest
<1>2. QED BY <1>1, CacheStart, CacheStep, PTL DEF CacheSpec, EvictsColdest
-----------------------------------------------------------------------------
(* The statistics.  A hit adds one pair to CountedHits and renames those of *)
(* the entry that was hit; an eviction only takes pairs away.               *)
StatsInv == IsFiniteSet(CountedHits) /\ StatsAddUp

\* The pair of an entry, after a hit on the entry born at b.
Renamed(p, b) == <<Bumped(p[1], b), p[2]>>

\* Only one entry is called b, so a hit on it is one hit.
LEMMA HitCountsOnce ==
  ASSUME CacheInv, IsFiniteSet(CountedHits), NEW b, entries' = {Bumped(e, b) : e \in entries}
  PROVE  IsFiniteSet(CountedHits') /\ Cardinality(CountedHits') <= Cardinality(CountedHits) + 1
<1> DEFINE old == CountedHits
           new == CountedHits'
           kept == {Renamed(p, b) : p \in old}
           f == [p \in old |-> Renamed(p, b)]
<1>1. \A p : p \in old <=> \E e \in entries : p \in {e} \X (1..e.hitCount)  BY DEF CountedHits
<1>2. \A p : p \in new <=> \E e \in entries : p \in {Bumped(e, b)} \X (1..Bumped(e, b).hitCount)
  BY DEF CountedHits
<1>3. IsFiniteSet(kept) /\ Cardinality(kept) <= Cardinality(old)
  <2>1. f \in Surjection(old, kept)  BY DEF Surjection
  <2> HIDE DEF old, kept, f
  <2> QED  BY <2>1, FS_Surjection DEF old
<1>4. \E x : new \subseteq kept \cup {x}
  <2>1. ASSUME NEW e \in entries, e.born # b, NEW n \in 1..e.hitCount  PROVE  <<Bumped(e, b), n>> \in kept
    <3>1. <<e, n>> \in old  BY <1>1
    <3>2. Renamed(<<e, n>>, b) = <<Bumped(e, b), n>>  BY DEF Renamed
    <3> HIDE DEF old
    <3> QED  BY <3>1, <3>2
  <2>2. ASSUME NEW e \in entries, e.born = b, NEW n \in 1..Bumped(e, b).hitCount, n # e.hitCount + 1
        PROVE  <<Bumped(e, b), n>> \in kept
    <3>1. e.hitCount \in Nat /\ Bumped(e, b).hitCount = e.hitCount + 1
      BY <2>2 DEF Bumped, CacheInv, CacheTypeOK, Entry
    <3>2. <<e, n>> \in old  BY <1>1, <2>2, <3>1
    <3>3. Renamed(<<e, n>>, b) = <<Bumped(e, b), n>>  BY DEF Renamed
    <3> HIDE DEF old
    <3> QED  BY <3>2, <3>3
  <2>3. \A e \in entries : e.born # b => Bumped(e, b).hitCount = e.hitCount  BY DEF Bumped
  <2>4. CASE \E e \in entries : e.born = b
    <3>1. PICK e \in entries : e.born = b  BY <2>4
    <3>2. \A g \in entries : g.born = b => g = e  BY <3>1 DEF CacheInv, CacheBounded
    <3>3. ASSUME NEW p \in new  PROVE  p \in kept \cup {<<Bumped(e, b), e.hitCount + 1>>}
      <4>1. PICK g \in entries : p \in {Bumped(g, b)} \X (1..Bumped(g, b).hitCount)  BY <1>2
      <4>2. PICK n \in 1..Bumped(g, b).hitCount : p = <<Bumped(g, b), n>>  BY <4>1
      <4> HIDE DEF kept
      <4>3. CASE g.born # b  BY <4>2, <4>3, <2>1, <2>3
      <4>4. CASE g.born = b /\ n # g.hitCount + 1  BY <4>2, <4>4, <2>2
      <4>5. CASE g.born = b /\ n = g.hitCount + 1  BY <4>2, <4>5, <3>2
      <4> QED  BY <4>3, <4>4, <4>5
    <3> HIDE DEF kept, new
    <3> QED  BY <3>3
  <2>5. CASE ~ \E e \in entries : e.born = b
    <3>1. ASSUME NEW p \in new  PROVE  p \in kept
      <4>1. PICK g \in entries : p \in {Bumped(g, b)} \X (1..Bumped(g, b).hitCount)  BY <1>2
      <4>2. PICK n \in 1..Bumped(g, b).hitCount : p = <<Bumped(g, b), n>>  BY <4>1
      <4> HIDE DEF kept
      <4> QED  BY <4>2, <2>1, <2>3, <2>5
    <3> HIDE DEF kept, new
    <3> QED  BY <3>1
  <2> QED  BY <2>4, <2>5
<1> HIDE DEF old, new, kept
<1>5. PICK x : new \subseteq kept \cup {x}  BY <1>4
<1>6. /\ IsFiniteSet(kept \cup {x})
      /\ Cardinality(kept \cup {x}) = IF x \in kept THEN Cardinality(kept) ELSE Cardinality(kept) + 1
  BY <1>3, FS_AddElement
<1>7. IsFiniteSet(new) /\ Cardinality(new) <= Cardinality(kept \cup {x})  BY <1>5, <1>6, FS_Subset
<1>8. PICK n \in Nat, k \in Nat, o \in Nat, m \in Nat :
        Cardinality(new) = n /\ Cardinality(kept) = k /\ Cardinality(old) = o /\ Cardinality(kept \cup {x}) = m
  BY <1>3, <1>6, <1>7, FS_CardinalityType DEF old
<1>9. n <= o + 1  BY <1>3, <1>6, <1>7, <1>8
<1> QED  BY <1>7, <1>8, <1>9 DEF old, new

LEMMA StatsStep ==
  ASSUME CacheInv, StatsInv, [CacheNext]_cacheVars
  PROVE  StatsInv'
<1>1. hits \in Nat /\ misses \in Nat /\ lookups \in Nat /\ hits + misses = lookups
  BY DEF CacheInv, CacheTypeOK, StatsInv, StatsAddUp
<1>2. IsFiniteSet(CountedHits) /\ Cardinality(CountedHits) \in Nat /\ Cardinality(CountedHits) <= hits
  BY FS_CardinalityType DEF StatsInv, StatsAddUp
<1>3. ASSUME UNCHANGED <<entries, hits, misses, lookups>>  PROVE  StatsInv'
  BY <1>3 DEF StatsInv, StatsAddUp, CountedHits
<1>4. ASSUME NEW c \in Callers, NEW q \in Questions, Scan(c, q)  PROVE  StatsInv'
  BY <1>3, <1>4 DEF Scan
<1>5. ASSUME NEW c \in Callers, CountMiss(c)  PROVE  StatsInv'
  <2>1. CountedHits' = CountedHits  BY <1>5 DEF CountMiss, CountedHits
  <2>2. hits' = hits /\ misses' = misses + 1 /\ lookups' = lookups + 1  BY <1>5 DEF CountMiss
  <2> QED  BY <1>1, <1>2, <2>1, <2>2 DEF StatsInv, StatsAddUp
<1>6. ASSUME NEW c \in Callers, CountHit(c)  PROVE  StatsInv'
  <2>1. IsFiniteSet(CountedHits') /\ Cardinality(CountedHits') <= Cardinality(CountedHits) + 1
    BY <1>2, <1>6, HitCountsOnce DEF CountHit
  <2>2. hits' = hits + 1 /\ misses' = misses /\ lookups' = lookups + 1  BY <1>6 DEF CountHit
  <2>3. PICK n \in Nat, m \in Nat : Cardinality(CountedHits') = n /\ Cardinality(CountedHits) = m
    BY <1>2, <2>1, FS_CardinalityType
  <2>4. n <= hits + 1  BY <1>1, <1>2, <2>1, <2>3
  <2> QED  BY <1>1, <2>1, <2>2, <2>3, <2>4 DEF StatsInv, StatsAddUp
<1>7. ASSUME NEW q \in Questions, NEW a \in Answers, Set(q, a)  PROVE  StatsInv'
  <2> DEFINE made == [question |-> q, answer |-> a, hitCount |-> 0, born |-> sets + 1]
  <2>1. \A e \in entries' : e \in entries \/ e = made
    <3>1. PICK kept \in IF Cardinality(entries) >= maxEntries THEN Evicted ELSE {entries} :
            entries' = kept \cup {made}
      BY <1>7 DEF Set
    <3>2. kept \subseteq entries  BY <3>1, EvictedHasRoom
    <3> QED  BY <3>1, <3>2
  <2>2. CountedHits' \subseteq CountedHits
    <3> SUFFICES ASSUME NEW e \in entries', NEW p \in {e} \X (1..e.hitCount)  PROVE  p \in CountedHits
      BY DEF CountedHits
    <3>1. CASE e \in entries  BY <3>1 DEF CountedHits
    <3>2. CASE e = made
      <4>1. e.hitCount = 0  BY <3>2
      <4> QED  BY <4>1
    <3> QED  BY <2>1, <3>1, <3>2
  <2>3. IsFiniteSet(CountedHits') /\ Cardinality(CountedHits') <= Cardinality(CountedHits)
    BY <1>2, <2>2, FS_Subset
  <2>4. hits' = hits /\ misses' = misses /\ lookups' = lookups  BY <1>7 DEF Set
  <2>5. PICK n \in Nat, m \in Nat : Cardinality(CountedHits') = n /\ Cardinality(CountedHits) = m
    BY <1>2, <2>3, FS_CardinalityType
  <2>6. n <= hits  BY <1>1, <1>2, <2>3, <2>5
  <2> QED  BY <1>1, <2>3, <2>4, <2>5, <2>6 DEF StatsInv, StatsAddUp
<1>8. CASE Age  BY <1>3, <1>8 DEF Age
<1>9. CASE UNCHANGED cacheVars  BY <1>3, <1>9 DEF cacheVars
<1> QED  BY <1>4, <1>5, <1>6, <1>7, <1>8, <1>9 DEF CacheNext

LEMMA StatsStart ==
  ASSUME CacheInit
  PROVE  StatsInv
<1>1. CountedHits = {}  BY DEF CacheInit, CountedHits
<1>2. IsFiniteSet({}) /\ Cardinality({}) = 0  BY FS_EmptySet
<1>3. hits = 0 /\ misses = 0 /\ lookups = 0  BY DEF CacheInit
<1> QED  BY <1>1, <1>2, <1>3 DEF StatsInv, StatsAddUp

\* Every Get that came to an end is a hit or a miss, and the entries that are
\* still there have counted no hit that Stats has not, whatever goroutines evict
\* between the two critical sections of a Get.
THEOREM StatsStayTrue == CacheSpec => []StatsAddUp
<1>1. StatsInv => StatsAddUp
  BY DEF StatsInv
<1>2. QED BY <1>1, CacheStart, CacheStep, StatsStart, StatsStep, PTL DEF CacheSpec

-----------------------------------------------------------------------------
(* The conversation. *)

\* What a question that is about to be remembered has in hand.
InHand == \A h \in Callers : At(h, "set") => handler[h].reply \in Reply

TypeInv == TypeOK /\ CacheInv /\ InHand

\* The types of what came in.
LEMMA AskedTypes ==
  ASSUME script \in Scripts
  PROVE  \A h \in DOMAIN asked : /\ h \in Callers /\ Key(h) \in Keys
                                 /\ asked[h].user \in Users /\ asked[h].session \in Sessions
                                 /\ asked[h].text \in Questions
<1>1. asked \in Seq(Asks) /\ DOMAIN asked \subseteq Callers
  BY ConversationAssumption DEF asked
<1>2. \A h \in DOMAIN asked : asked[h] \in Asks
  BY <1>1
<1>3. QED BY <1>1, <1>2 DEF Asks, Key, Keys

\* Latest keeps the end of a sequence.
LEMMA LatestIsTail ==
  ASSUME NEW S, NEW s \in Seq(S), NEW n \in Nat \ {0}
  PROVE  /\ Latest(s, n) \in Seq(S)
         /\ Len(Latest(s, n)) = IF Len(s) > n THEN n ELSE Len(s)
         /\ \A i \in 1..Len(Latest(s, n)) :
              Latest(s, n)[i] = s[i + (Len(s) - Len(Latest(s, n)))]
<1>1. CASE Len(s) > n
  <2>1. Latest(s, n) = SubSeq(s, Len(s) - n + 1, Len(s))
    BY <1>1 DEF Latest
  <2>2. Latest(s, n) \in Seq(S) /\ Len(Latest(s, n)) = n
    BY <1>1, <2>1
  <2>3. \A i \in 1..n : Latest(s, n)[i] = s[i + (Len(s) - n)]
    BY <1>1, <2>1
  <2>4. QED BY <1>1, <2>2, <2>3
<1>2. CASE ~ Len(s) > n
  <2>1. Latest(s, n) = SubSeq(s, 1, Len(s))
    BY <1>2 DEF Latest
  <2>2. Latest(s, n) \in Seq(S) /\ Len(Latest(s, n)) = Len(s)
    BY <2>1
  <2>3. \A i \in 1..Len(s) : Latest(s, n)[i] = s[i]
    BY <2>1
  <2>4. QED BY <1>2, <2>2, <2>3
<1>3. QED BY <1>1, <1>2

\* One more turn.
LEMMA AppendTurn ==
  ASSUME NEW s \in Seq(Turn), NEW t \in Turn
  PROVE  Append(s, t) \in Seq(Turn) /\ Len(Append(s, t)) = Len(s) + 1
OBVIOUS

LEMMA TurnTypes ==
  \A h \in Callers : /\ <<"user", h>> \in Turn
                     /\ <<"assistant", h>> \in Turn
                     /\ \A role \in Roles : <<role, h>> \in Turn
BY DEF Turn, Roles

\* A reply worked out by the question itself.
LEMMA OwnTypes ==
  ASSUME NEW h \in Callers, NEW from \in {"llm", "tool", "apology"}
  PROVE  Own(h, from) \in Reply
<1>1. <<from, h>> \in Answers
  BY ConversationAssumption
<1>2. QED BY <1>1 DEF Own, Reply

HandlerType == [pc : HandlerPc, held : Seq(Turn), reply : Reply \cup {None}]

\* Question h moves to p, with list l and reply r in hand, and no other does.
Moved(h, p, l, r) ==
  /\ handler' \in [Callers -> HandlerType]
  /\ handler'[h].pc = p /\ handler'[h].held = l /\ handler'[h].reply = r
  /\ \A g \in Callers \ {h} : handler'[g] = handler[g]

\* The three forms in which an action changes a question.
LEMMA HandlerMoves ==
  ASSUME handler \in [Callers -> HandlerType], NEW h \in Callers,
         NEW p \in HandlerPc, NEW l \in Seq(Turn), NEW r \in Reply \cup {None}
  PROVE  /\ handler' = [handler EXCEPT ![h].pc = p] => Moved(h, p, handler[h].held, handler[h].reply)
         /\ handler' = [handler EXCEPT ![h].pc = p, ![h].held = l] => Moved(h, p, l, handler[h].reply)
         /\ handler' = [handler EXCEPT ![h].pc = p, ![h].reply = r] => Moved(h, p, handler[h].held, r)
<1>1. handler[h] \in HandlerType
  OBVIOUS
<1>2. ASSUME handler' = [handler EXCEPT ![h].pc = p]
      PROVE  Moved(h, p, handler[h].held, handler[h].reply)
  <2>1. [handler[h] EXCEPT !.pc = p] \in HandlerType
    BY <1>1 DEF HandlerType
  <2>2. QED BY <1>1, <1>2, <2>1 DEF Moved, HandlerType
<1>3. ASSUME handler' = [handler EXCEPT ![h].pc = p, ![h].held = l]
      PROVE  Moved(h, p, l, handler[h].reply)
  <2>1. [handler[h] EXCEPT !.pc = p, !.held = l] \in HandlerType
    BY <1>1 DEF HandlerType
  <2>2. QED BY <1>1, <1>3, <2>1 DEF Moved, HandlerType
<1>4. ASSUME handler' = [handler EXCEPT ![h].pc = p, ![h].reply = r]
      PROVE  Moved(h, p, handler[h].held, r)
  <2>1. [handler[h] EXCEPT !.pc = p, !.reply = r] \in HandlerType
    BY <1>1 DEF HandlerType
  <2>2. QED BY <1>1, <1>4, <2>1 DEF Moved, HandlerType
<1>5. QED BY <1>2, <1>3, <1>4

\* Every step uses the cache by its operations, or leaves it alone.
LEMMA UsesCache ==
  ASSUME TypeOK, InHand, [Next]_vars
  PROVE  [CacheNext]_cacheVars
<1>1. \A h \in DOMAIN asked : h \in Callers /\ asked[h].text \in Questions
  BY AskedTypes DEF TypeOK
<1>2. ASSUME NEW h \in DOMAIN asked, Lookup(h)
      PROVE  CacheNext
  BY <1>1, <1>2 DEF Lookup, CacheNext
<1>3. ASSUME NEW h \in DOMAIN asked, LookedUp(h)
      PROVE  CacheNext
  BY <1>1, <1>3 DEF LookedUp, CacheNext
<1>4. ASSUME NEW h \in DOMAIN asked, Remember(h)
      PROVE  CacheNext
  <2>1. handler[h].reply.answer \in Answers
    BY <1>1, <1>4 DEF InHand, Remember, Reply
  <2>2. QED BY <1>1, <1>4, <2>1 DEF Remember, CacheNext
<1>5. ASSUME Forget PROVE CacheNext
  BY <1>5 DEF Forget, CacheNext
<1>6. ASSUME NEW h \in DOMAIN asked, Step(h)
      PROVE  CacheNext \/ UNCHANGED cacheVars
  BY <1>2, <1>3, <1>4, <1>6 DEF Step, TransitionToConversation, GetHistory, SaveHistory, Dispatch,
     GetGroupContext, PushGroupContext, Chat, Store
<1>7. ASSUME NEW u \in Users, ClearContext(u)
      PROVE  UNCHANGED cacheVars
  BY <1>7 DEF ClearContext
<1>8. ASSUME Expire PROVE UNCHANGED cacheVars
  BY <1>8 DEF Expire
<1>9. ASSUME UNCHANGED vars PROVE UNCHANGED cacheVars
  BY <1>9 DEF vars
<1>10. QED BY <1>5, <1>6, <1>7, <1>8, <1>9 DEF Next

\* Where a step of question h takes it.
LEMMA StepMoves ==
  ASSUME TypeOK, InHand, NEW h \in DOMAIN asked
  PROVE  /\ TransitionToConversation(h) => Moved(h, "getUser", handler[h].held, handler[h].reply)
         /\ \A role \in Roles : GetHistory(h, role) =>
              \/ Moved(h, Writing(role), history[Key(h)], handler[h].reply)
              \/ Moved(h, Writing(role), <<>>, handler[h].reply)
         /\ SaveHistory(h, "user") => Moved(h, "lookup", <<>>, handler[h].reply)
         /\ SaveHistory(h, "assistant") => Moved(h, "store", <<>>, handler[h].reply)
         /\ GetGroupContext(h) => \E l \in Seq(Turn) : Moved(h, "saveWindow", l, handler[h].reply)
         /\ PushGroupContext(h) => Moved(h, "ask", <<>>, handler[h].reply)
         /\ Lookup(h) => Moved(h, "count", handler[h].held, handler[h].reply)
         /\ LookedUp(h) =>
              \/ /\ CountHit(h)
                 /\ Moved(h, "store", handler[h].held,
                          [answer |-> found[h].entry.answer, born |-> found[h].entry.born])
              \/ /\ CountMiss(h)
                 /\ \E p \in {"tool", "getWindow", "ask"} : Moved(h, p, handler[h].held, handler[h].reply)
         /\ Dispatch(h) =>
              \/ Moved(h, "set", handler[h].held, Own(h, "tool"))
              \/ \E p \in {"getWindow", "ask"} : Moved(h, p, handler[h].held, handler[h].reply)
         /\ Remember(h) => Moved(h, "getAssistant", handler[h].held, handler[h].reply)
         /\ Chat(h) => \E from \in {"llm", "apology"} : Moved(h, "set", handler[h].held, Own(h, from))
         /\ Store(h) => Moved(h, "done", handler[h].held, handler[h].reply)
<1>1. h \in Callers /\ Key(h) \in Keys /\ asked[h].session \in Sessions
  BY AskedTypes DEF TypeOK
<1>2. handler \in [Callers -> HandlerType]
  BY DEF TypeOK, HandlerType
<1>3. /\ handler[h].held \in Seq(Turn) /\ handler[h].reply \in Reply \cup {None}
      /\ history[Key(h)] \in Seq(Turn) /\ window[asked[h].session] \in Seq(Turn) /\ <<>> \in Seq(Turn)
  BY <1>1 DEF TypeOK
<1>4. ASSUME NEW p \in HandlerPc, Goto(h, p)
      PROVE  Moved(h, p, handler[h].held, handler[h].reply)
  BY <1>1, <1>2, <1>3, <1>4, HandlerMoves DEF Goto
<1>5. ASSUME NEW p \in HandlerPc, NEW l \in Seq(Turn), handler' = [handler EXCEPT ![h].pc = p, ![h].held = l]
      PROVE  Moved(h, p, l, handler[h].reply)
  BY <1>1, <1>2, <1>3, <1>5, HandlerMoves
<1>6. ASSUME NEW p \in HandlerPc, NEW r \in Reply, handler' = [handler EXCEPT ![h].pc = p, ![h].reply = r]
      PROVE  Moved(h, p, handler[h].held, r)
  BY <1>1, <1>2, <1>3, <1>6, HandlerMoves
<1>7. TransitionToConversation(h) => Moved(h, "getUser", handler[h].held, handler[h].reply)
  BY <1>4 DEF TransitionToConversation, HandlerPc
<1>8. ASSUME NEW role \in Roles, GetHistory(h, role)
      PROVE  \/ Moved(h, Writing(role), history[Key(h)], handler[h].reply)
             \/ Moved(h, Writing(role), <<>>, handler[h].reply)
  <2>1. Writing(role) \in HandlerPc
    BY DEF Writing, HandlerPc
  <2>2. \/ handler' = [handler EXCEPT ![h].pc = Writing(role), ![h].held = history[Key(h)]]
        \/ handler' = [handler EXCEPT ![h].pc = Writing(role), ![h].held = <<>>]
    BY <1>8 DEF GetHistory
  <2>3. QED BY <1>3, <1>5, <2>1, <2>2
<1>9. SaveHistory(h, "user") => Moved(h, "lookup", <<>>, handler[h].reply)
  BY <1>3, <1>5 DEF SaveHistory, HandlerPc
<1>10. SaveHistory(h, "assistant") => Moved(h, "store", <<>>, handler[h].reply)
  BY <1>3, <1>5 DEF SaveHistory, HandlerPc
<1>11. GetGroupContext(h) => \E l \in Seq(Turn) : Moved(h, "saveWindow", l, handler[h].reply)
  <2>1. "saveWindow" \in HandlerPc
    BY DEF HandlerPc
  <2>2. GetGroupContext(h) => \E l \in Seq(Turn) : handler' = [handler EXCEPT ![h].pc = "saveWindow", ![h].held = l]
    BY <1>3 DEF GetGroupContext
  <2>3. QED BY <1>5, <2>1, <2>2
<1>12. PushGroupContext(h) => Moved(h, "ask", <<>>, handler[h].reply)
  BY <1>3, <1>5 DEF PushGroupContext, HandlerPc
<1>13. Lookup(h) => Moved(h, "count", handler[h].held, handler[h].reply)
  BY <1>4 DEF Lookup, HandlerPc
<1>14. ASSUME LookedUp(h)
       PROVE  \/ /\ CountHit(h)
                 /\ Moved(h, "store", handler[h].held,
                          [answer |-> found[h].entry.answer, born |-> found[h].entry.born])
              \/ /\ CountMiss(h)
                 /\ \E p \in {"tool", "getWindow", "ask"} : Moved(h, p, handler[h].held, handler[h].reply)
  <2> DEFINE r == [answer |-> found[h].entry.answer, born |-> found[h].entry.born]
             p == IF asked[h].text \in Tools THEN "tool" ELSE Infer(h)
  <2>1. CASE CountHit(h) /\ handler' = [handler EXCEPT ![h].pc = "store", ![h].reply = r]
    <3>1. found[h].entry \in Entry
      BY <1>1, <2>1 DEF CountHit, TypeOK, CacheTypeOK
    <3>2. r \in Reply
      BY <3>1 DEF Entry, Reply
    <3>3. "store" \in HandlerPc
      BY DEF HandlerPc
    <3>4. QED BY <1>6, <2>1, <3>2, <3>3
  <2>2. CASE CountMiss(h) /\ Goto(h, p)
    <3>1. p \in {"tool", "getWindow", "ask"} /\ p \in HandlerPc
      BY DEF Infer, HandlerPc
    <3>2. QED BY <1>4, <2>2, <3>1
  <2>3. QED BY <1>14, <2>1, <2>2 DEF LookedUp
<1>15. ASSUME Dispatch(h)
       PROVE  \/ Moved(h, "set", handler[h].held, Own(h, "tool"))
              \/ \E p \in {"getWindow", "ask"} : Moved(h, p, handler[h].held, handler[h].reply)
  <2>1. Own(h, "tool") \in Reply /\ "set" \in HandlerPc
    BY <1>1, OwnTypes DEF HandlerPc
  <2>2. Infer(h) \in {"getWindow", "ask"} /\ Infer(h) \in HandlerPc
    BY DEF Infer, HandlerPc
  <2>3. QED BY <1>4, <1>6, <1>15, <2>1, <2>2 DEF Dispatch
<1>16. Remember(h) => Moved(h, "getAssistant", handler[h].held, handler[h].reply)
  BY <1>4 DEF Remember, HandlerPc
<1>17. ASSUME Chat(h)
       PROVE  \E from \in {"llm", "apology"} : Moved(h, "set", handler[h].held, Own(h, from))
  <2>1. Own(h, "llm") \in Reply /\ Own(h, "apology") \in Reply /\ "set" \in HandlerPc
    BY <1>1, OwnTypes DEF HandlerPc
  <2>2. QED BY <1>6, <1>17, <2>1 DEF Chat
<1>18. Store(h) => Moved(h, "done", handler[h].held, handler[h].reply)
  BY <1>4 DEF Store, HandlerPc
<1>19. QED BY <1>7, <1>8, <1>9, <1>10, <1>11, <1>12, <1>13, <1>14, <1>15, <1>16, <1>17, <1>18

\* A move keeps the types of what the questions have in hand.
LEMMA MovedTypes ==
  ASSUME InHand, NEW h \in Callers, NEW p, NEW l, NEW r, Moved(h, p, l, r), p = "set" => r \in Reply
  PROVE  handler' \in [Callers -> HandlerType] /\ InHand'
BY DEF Moved, InHand, At

\* What no step of a question disturbs.
LEMMA StepHandler ==
  ASSUME TypeOK, InHand, NEW h \in DOMAIN asked, Step(h)
  PROVE  handler' \in [Callers -> HandlerType] /\ InHand'
<1>1. h \in Callers
  BY AskedTypes DEF TypeOK
<1>2. ASSUME NEW p, NEW l, NEW r, p # "set", Moved(h, p, l, r)
      PROVE  handler' \in [Callers -> HandlerType] /\ InHand'
  BY <1>1, <1>2, MovedTypes
<1>3. ASSUME NEW from \in {"llm", "tool", "apology"}, Moved(h, "set", handler[h].held, Own(h, from))
      PROVE  handler' \in [Callers -> HandlerType] /\ InHand'
  BY <1>1, <1>3, MovedTypes, OwnTypes
<1>4. CASE Dispatch(h) \/ Chat(h)
  BY <1>2, <1>3, <1>4, StepMoves
<1>5. ASSUME NEW role \in Roles, GetHistory(h, role)
      PROVE  handler' \in [Callers -> HandlerType] /\ InHand'
  <2>1. Writing(role) # "set"
    BY DEF Writing
  <2>2. QED BY <1>2, <1>5, <2>1, StepMoves
<1>6. ASSUME NEW role \in Roles, SaveHistory(h, role)
      PROVE  handler' \in [Callers -> HandlerType] /\ InHand'
  <2>1. SaveHistory(h, "user") \/ SaveHistory(h, "assistant")
    BY <1>6 DEF Roles
  <2>2. QED BY <1>2, <2>1, StepMoves
<1>7. CASE GetGroupContext(h)
  <2>1. PICK l \in Seq(Turn) : Moved(h, "saveWindow", l, handler[h].reply)
    BY <1>7, StepMoves
  <2>2. QED BY <1>2, <2>1
<1>8. CASE LookedUp(h)
  <2>1. PICK p \in {"store", "tool", "getWindow", "ask"}, r \in {handler[h].reply,
          [answer |-> found[h].entry.answer, born |-> found[h].entry.born]} : Moved(h, p, handler[h].held, r)
    BY <1>8, StepMoves
  <2>2. QED BY <1>2, <2>1
<1>9. CASE TransitionToConversation(h) \/ PushGroupContext(h) \/ Lookup(h) \/ Remember(h) \/ Store(h)
  BY <1>2, <1>9, StepMoves
<1>10. QED BY <1>4, <1>5, <1>6, <1>7, <1>8, <1>9 DEF Step

\* Types are preserved.
LEMMA ConversationTypeStep ==
  ASSUME TypeInv, [Next]_vars
  PROVE  TypeInv'
<1>1. TypeOK /\ InHand /\ script \in Scripts
  BY DEF TypeInv, TypeOK
<1>2. CacheInv' /\ CacheTypeOK'
  <2>1. CacheInv'
    BY <1>1, UsesCache, CacheStep DEF TypeInv
  <2>2. QED BY <2>1 DEF CacheInv
<1>3. contextLimit \in Nat \ {0} /\ contextWindowSize \in Nat \ {0} /\ 2 * ContextLimit \in Nat \ {0}
  BY ConversationAssumption
<1>4. \A h \in DOMAIN asked : /\ h \in Callers /\ Key(h) \in Keys
                              /\ asked[h].user \in Users /\ asked[h].session \in Sessions
  BY <1>1, AskedTypes
<1>5. dead \in Nat /\ dead' \in Nat /\ dead <= dead'
  <2>1. dead' = dead \/ dead' = dead + 1
    BY <1>1, UsesCache DEF CacheNext, Scan, CountMiss, CountHit, Set, Age, cacheVars
  <2>2. QED BY <1>1, <2>1 DEF TypeOK, CacheTypeOK
<1>6. since' \in [Callers -> 0..dead']
  <2>1. since' = since \/ \E h \in DOMAIN asked : since' = [since EXCEPT ![h] = dead]
    <3>1. ASSUME NEW h \in DOMAIN asked, Step(h)
          PROVE  since' = since \/ since' = [since EXCEPT ![h] = dead]
      BY <3>1 DEF Step, TransitionToConversation, GetHistory, SaveHistory, GetGroupContext,
         PushGroupContext, Lookup, LookedUp, Dispatch, Remember, Chat, Store, ghosts
    <3>2. ASSUME NEW u \in Users, ClearContext(u)
          PROVE  since' = since
      BY <3>2 DEF ClearContext, ghosts
    <3>3. QED BY <3>1, <3>2 DEF Next, Expire, Forget, ghosts, vars
  <2>2. since \in [Callers -> 0..dead]
    BY <1>1 DEF TypeOK
  <2>3. QED BY <1>4, <1>5, <2>1, <2>2
<1>7. handler' \in [Callers -> HandlerType] /\ InHand'
  <2>1. ASSUME NEW h \in DOMAIN asked, Step(h)
        PROVE  handler' \in [Callers -> HandlerType] /\ InHand'
    BY <1>1, <2>1, StepHandler
  <2>2. ASSUME UNCHANGED handler
        PROVE  handler' \in [Callers -> HandlerType] /\ InHand'
    BY <1>1, <2>2 DEF TypeOK, HandlerType, InHand, At
  <2>3. ASSUME NEW u \in Users, ClearContext(u)
        PROVE  UNCHANGED handler
    BY <2>3 DEF ClearContext
  <2>4. QED BY <2>1, <2>2, <2>3 DEF Next, Expire, Forget, vars
<1>8. troubles' \in Nat /\ script' \in Scripts
  <2>1. troubles \in Nat
    BY <1>1 DEF TypeOK
  <2>2. script' = script /\ (troubles' = troubles \/ troubles' = troubles + 1)
    <3>1. ASSUME NEW h \in DOMAIN asked, Step(h)
          PROVE  script' = script /\ (troubles' = troubles \/ troubles' = troubles + 1)
      BY <3>1 DEF Step, TransitionToConversation, GetHistory, SaveHistory, GetGroupContext, Trouble, Fault,
         PushGroupContext, Lookup, LookedUp, Dispatch, Remember, Chat, Store
    <3>2. ASSUME NEW u \in Users, ClearContext(u)
          PROVE  script' = script /\ (troubles' = troubles \/ troubles' = troubles + 1)
      BY <3>2 DEF ClearContext, Trouble
    <3>3. QED BY <3>1, <3>2 DEF Next, Expire, Forget, vars, Trouble
  <2>3. QED BY <1>1, <2>1, <2>2
<1>9. ASSUME UNCHANGED <<state, history, window, contextCache, turns, mixed>>
      PROVE  TypeInv'
  BY <1>1, <1>2, <1>6, <1>7, <1>8, <1>9 DEF TypeInv, TypeOK, HandlerType
<1>10. ASSUME NEW h \in DOMAIN asked, TransitionToConversation(h)
       PROVE  TypeInv'
  <2>1. turns' \in [Keys -> Seq(Turn)]
    <3>1. turns[Key(h)] \in Seq(Turn) /\ <<"user", h>> \in Turn
      BY <1>1, <1>4, TurnTypes DEF TypeOK
    <3>2. QED BY <1>1, <1>10, <3>1, AppendTurn DEF TransitionToConversation, TypeOK
  <2>2. mixed' \subseteq Keys /\ state' \in [Keys -> {"idle", "in_conversation"}]
    BY <1>1, <1>4, <1>10 DEF TransitionToConversation, TypeOK
  <2>3. QED BY <1>1, <1>2, <1>6, <1>7, <1>8, <1>10, <2>1, <2>2
            DEF TypeInv, TypeOK, HandlerType, TransitionToConversation
<1>11. ASSUME NEW h \in DOMAIN asked, NEW role \in Roles, GetHistory(h, role)
       PROVE  TypeInv'
  <2>1. mixed' \subseteq Keys
    BY <1>1, <1>4, <1>11 DEF GetHistory, Fault, TypeOK
  <2>2. QED BY <1>1, <1>2, <1>6, <1>7, <1>8, <1>11, <2>1
            DEF TypeInv, TypeOK, HandlerType, GetHistory, redis
<1>12. ASSUME NEW h \in DOMAIN asked, NEW role \in Roles, SaveHistory(h, role)
       PROVE  TypeInv'
  <2> DEFINE new == Latest(Append(handler[h].held, <<role, h>>), contextLimit)
  <2>1. new \in Seq(Turn)
    <3>1. handler[h].held \in Seq(Turn) /\ <<role, h>> \in Turn
      BY <1>1, <1>4, TurnTypes DEF TypeOK
    <3>2. QED BY <1>3, <3>1, AppendTurn, LatestIsTail
  <2>2. mixed' \subseteq Keys
    BY <1>1, <1>4, <1>12 DEF SaveHistory, Fault, TypeOK
  <2>3. history' = [history EXCEPT ![Key(h)] = new] \/ history' = history
    BY <1>12 DEF SaveHistory
  <2>4. history' \in [Keys -> Seq(Turn)]
    BY <1>1, <1>4, <2>1, <2>3 DEF TypeOK
  <2>5. QED BY <1>1, <1>2, <1>6, <1>7, <1>8, <1>12, <2>2, <2>4
            DEF TypeInv, TypeOK, HandlerType, SaveHistory
<1>13. ASSUME NEW h \in DOMAIN asked, PushGroupContext(h)
       PROVE  TypeInv'
  <2> DEFINE new == Latest(Append(handler[h].held, <<"user", h>>), contextWindowSize)
  <2>1. new \in Seq(Turn) /\ Len(new) <= contextWindowSize
    <3>1. handler[h].held \in Seq(Turn) /\ <<"user", h>> \in Turn
      BY <1>1, <1>4, TurnTypes DEF TypeOK
    <3>2. Append(handler[h].held, <<"user", h>>) \in Seq(Turn)
      BY <3>1, AppendTurn
    <3>3. Len(Append(handler[h].held, <<"user", h>>)) \in Nat
      BY <3>2
    <3>4. /\ new \in Seq(Turn)
          /\ Len(new) = IF Len(Append(handler[h].held, <<"user", h>>)) > contextWindowSize
                        THEN contextWindowSize ELSE Len(Append(handler[h].held, <<"user", h>>))
      BY <1>3, <3>2, LatestIsTail
    <3>5. QED BY <1>3, <3>3, <3>4
  <2>2. window' = [window EXCEPT ![asked[h].session] = new] \/ window' = window
    BY <1>13 DEF PushGroupContext
  <2>3. window' \in [Sessions -> Seq(Turn)] /\ \A s \in Sessions : Len(window'[s]) <= contextWindowSize
    BY <1>1, <1>4, <2>1, <2>2 DEF TypeOK
  <2>4. QED BY <1>1, <1>2, <1>6, <1>7, <1>8, <1>13, <2>3
            DEF TypeInv, TypeOK, HandlerType, PushGroupContext, ghosts
<1>14. ASSUME NEW h \in DOMAIN asked, Chat(h)
       PROVE  TypeInv'
  <2> DEFINE u == asked[h].user
             c == contextCache[u] \o <<<<"user", h>>, <<"assistant", h>>>>
  <2>1. contextCache[u] \in Seq(Turn)
    BY <1>1, <1>4 DEF TypeOK
  <2>2. <<<<"user", h>>, <<"assistant", h>>>> \in Seq(Turn)
    BY <1>4, TurnTypes
  <2>3. c \in Seq(Turn)
    BY <2>1, <2>2
  <2>4. Latest(c, 2 * ContextLimit) \in Seq(Turn)
    BY <1>3, <2>3, LatestIsTail
  <2>5. contextCache' = [contextCache EXCEPT ![u] = Latest(c, 2 * ContextLimit)] \/ contextCache' = contextCache
    BY <1>14 DEF Chat, UpdateContext
  <2>6. contextCache' \in [Users -> Seq(Turn)]
    BY <1>1, <1>4, <2>4, <2>5 DEF TypeOK
  <2>7. QED BY <1>1, <1>2, <1>6, <1>7, <1>8, <1>14, <2>6
            DEF TypeInv, TypeOK, HandlerType, Chat, redis, ghosts
<1>15. ASSUME NEW h \in DOMAIN asked, Store(h)
       PROVE  TypeInv'
  <2>1. turns' \in [Keys -> Seq(Turn)]
    <3>1. turns[Key(h)] \in Seq(Turn) /\ <<"assistant", h>> \in Turn
      BY <1>1, <1>4, TurnTypes DEF TypeOK
    <3>2. turns \in [Keys -> Seq(Turn)]
      BY <1>1 DEF TypeOK
    <3>3. Append(turns[Key(h)], <<"assistant", h>>) \in Seq(Turn)
      BY <3>1, AppendTurn
    <3>4. turns' = turns \/ turns' = [turns EXCEPT ![Key(h)] = Append(turns[Key(h)], <<"assistant", h>>)]
      BY <1>15 DEF Store
    <3>5. QED BY <3>2, <3>3, <3>4
  <2>2. QED BY <1>1, <1>2, <1>6, <1>7, <1>8, <1>15, <2>1 DEF TypeInv, TypeOK, HandlerType, Store, redis
<1>16. ASSUME NEW h \in DOMAIN asked, Step(h)
       PROVE  TypeInv'
  <2>1. CASE GetGroupContext(h) \/ Lookup(h) \/ LookedUp(h) \/ Dispatch(h) \/ Remember(h)
    BY <1>9, <2>1 DEF GetGroupContext, Lookup, LookedUp, Dispatch, Remember, redis, ghosts
  <2>2. QED BY <1>10, <1>11, <1>12, <1>13, <1>14, <1>15, <1>16, <2>1 DEF Step
<1>17. ASSUME NEW u \in Users, ClearContext(u)
       PROVE  TypeInv'
  <2>1. contextCache' \in [Users -> Seq(Turn)]
    <3>1. <<>> \in Seq(Turn)
      OBVIOUS
    <3>2. QED BY <1>1, <1>17, <3>1 DEF ClearContext, TypeOK
  <2>2. QED BY <1>1, <1>2, <1>6, <1>7, <1>8, <1>17, <2>1 DEF TypeInv, TypeOK, HandlerType, ClearContext, redis, ghosts
<1>18. ASSUME Expire
       PROVE  TypeInv'
  <2>1. <<>> \in Seq(Turn) /\ Len(<<>>) <= contextWindowSize
    BY <1>3
  <2>2. ASSUME NEW k \in Keys, history' = [history EXCEPT ![k] = <<>>], turns' = [turns EXCEPT ![k] = <<>>],
               mixed' = IF Working(k) = {} THEN mixed ELSE mixed \cup {k}, UNCHANGED <<state, window>>
        PROVE  TypeInv'
    BY <1>1, <1>2, <1>6, <1>7, <1>8, <1>18, <2>1, <2>2 DEF TypeInv, TypeOK, HandlerType, Expire
  <2>3. ASSUME NEW k \in Keys, state' = [state EXCEPT ![k] = "idle"], UNCHANGED <<history, window, turns, mixed>>
        PROVE  TypeInv'
    BY <1>1, <1>2, <1>6, <1>7, <1>8, <1>18, <2>3 DEF TypeInv, TypeOK, HandlerType, Expire
  <2>4. ASSUME NEW s \in Sessions, window' = [window EXCEPT ![s] = <<>>], UNCHANGED <<state, history, turns, mixed>>
        PROVE  TypeInv'
    BY <1>1, <1>2, <1>6, <1>7, <1>8, <1>18, <2>1, <2>4 DEF TypeInv, TypeOK, HandlerType, Expire
  <2>5. QED BY <1>18, <2>2, <2>3, <2>4 DEF Expire
<1>19. QED BY <1>9, <1>16, <1>17, <1>18 DEF Next, Forget, redis, ghosts, vars

\* Nothing has been asked.
LEMMA ConversationStart ==
  ASSUME Init
  PROVE  TypeInv
<1>1. CacheInv
  BY CacheStart DEF Init
<1>2. [pc |-> "new", held |-> <<>>, reply |-> None] \in HandlerType
  BY DEF HandlerType, HandlerPc
<1>3. /\ handler \in [Callers -> HandlerType]
      /\ \A h \in Callers : handler[h].pc = "new"
  BY <1>2 DEF Init
<1>4. <<>> \in Seq(Turn) /\ Len(<<>>) <= contextWindowSize
  BY ConversationAssumption
<1>5. dead = 0
  BY DEF Init, CacheInit
<1>6. QED BY <1>1, <1>3, <1>4, <1>5 DEF Init, TypeInv, TypeOK, InHand, At, HandlerType, CacheInv

\* Types of every variable, with any number of questions in work at a time.
THEOREM ConversationTypes == Spec => []TypeOK
<1>1. TypeInv => TypeOK
  BY DEF TypeInv
<1>2. QED BY <1>1, ConversationStart, ConversationTypeStep, PTL DEF Spec

\* The AI handler uses the cache by its operations only: what is proved of
\* CacheSpec, its bound and its evictions, holds in every conversation.
THEOREM ConversationImplementsCache == Spec => CacheSpec
<1>1. Init => CacheInit
  BY DEF Init
<1>2. TypeInv /\ [Next]_vars => [CacheNext]_cacheVars
  BY UsesCache DEF TypeInv
<1>3. QED BY <1>1, <1>2, ConversationStart, ConversationTypeStep, PTL DEF Spec, CacheSpec
-----------------------------------------------------------------------------
(* Where replies come from. *)

Answered == {"getAssistant", "saveAssistant", "store", "done"}
Early    == {"new", "getUser", "saveUser"}
Late     == {"store", "done"}
Replied  == Answered \cup {"set"}

\* An entry's answer was worked out for its question, by somebody who is past asking.
GoodEntry(e) ==
  /\ e.answer[2] \in DOMAIN asked
  /\ asked[e.answer[2]].text = e.question
  /\ handler[e.answer[2]].pc \in Answered

\* What a Get has found is such an entry, similar and young enough.
GoodFind(h) ==
  found[h].in # "none" =>
    /\ At(h, "count")
    /\ found[h].in = "hit" => /\ GoodEntry(found[h].entry)
                              /\ Score(found[h].entry, asked[h].text) >= threshold
                              /\ found[h].entry.born > since[h]

Fits(h) ==
  LET r == handler[h].reply
      g == r.answer[2]
  IN  r # None => IF r.born = 0 THEN g = h
                  ELSE /\ g # h /\ Sim[<<asked[h].text, asked[g].text>>] >= threshold
                       /\ r.born > since[h]

GoodReply(h) ==
  /\ At(h, "new") => handler[h].reply = None
  /\ At(h, "set") => handler[h].reply # None /\ handler[h].reply.born = 0
  /\ Fits(h)

ReplyInv ==
  /\ TypeInv
  /\ \A e \in entries : GoodEntry(e)
  /\ \A h \in Callers : GoodFind(h) /\ GoodReply(h)

\* Everything a step of question h does to the questions, in one line.
LEMMA StepEffect ==
  ASSUME TypeInv, NEW h \in DOMAIN asked, Step(h)
  PROVE  /\ h \in Callers /\ script' = script
         /\ \E p, l, r : /\ Moved(h, p, l, r) /\ p # "new"
                         /\ handler[h].pc \in Answered => p \in Answered /\ r = handler[h].reply
                         /\ handler[h].pc \notin Early => p \notin Early
                         /\ handler[h].pc \in Late => p \in Late
                         /\ handler[h].pc \in Replied => p \in Replied
                         /\ \/ r = handler[h].reply /\ p # "set"
                            \/ p = "set" /\ \E from \in {"llm", "tool", "apology"} : r = Own(h, from)
                            \/ /\ CountHit(h) /\ p = "store"
                               /\ r = [answer |-> found[h].entry.answer, born |-> found[h].entry.born]
         /\ ~At(h, "new") => since' = since
         /\ \A g \in Callers \ {h} : since'[g] = since[g]
<1>1. TypeOK /\ InHand /\ h \in Callers
  BY AskedTypes DEF TypeInv, TypeOK
<1> DEFINE Effect ==
      \E p, l, r : /\ Moved(h, p, l, r) /\ p # "new"
                   /\ handler[h].pc \in Answered => p \in Answered /\ r = handler[h].reply
                   /\ handler[h].pc \notin Early => p \notin Early
                   /\ handler[h].pc \in Late => p \in Late
                   /\ handler[h].pc \in Replied => p \in Replied
                   /\ \/ r = handler[h].reply /\ p # "set"
                      \/ p = "set" /\ \E from \in {"llm", "tool", "apology"} : r = Own(h, from)
                      \/ /\ CountHit(h) /\ p = "store"
                         /\ r = [answer |-> found[h].entry.answer, born |-> found[h].entry.born]
<1>2. script' = script
  BY DEF Step, TransitionToConversation, GetHistory, SaveHistory, GetGroupContext, PushGroupContext,
     Lookup, LookedUp, Dispatch, Remember, Chat, Store
<1>3. since' = since \/ (At(h, "new") /\ since' = [since EXCEPT ![h] = dead])
  BY DEF Step, TransitionToConversation, GetHistory, SaveHistory, GetGroupContext, PushGroupContext,
     Lookup, LookedUp, Dispatch, Remember, Chat, Store, ghosts
<1>4. \A g \in Callers \ {h} : since'[g] = since[g]
  BY <1>1, <1>3 DEF TypeOK
<1>5. CASE TransitionToConversation(h)
  <2>1. Moved(h, "getUser", handler[h].held, handler[h].reply) /\ handler[h].pc = "new"
    BY <1>1, <1>5, StepMoves DEF TransitionToConversation, At
  <2>2. Effect
    BY <2>1 DEF Answered, Early, Late, Replied
  <2>3. QED BY <1>1, <1>2, <1>3, <1>4, <2>2
<1>6. ASSUME NEW role \in Roles, GetHistory(h, role)
      PROVE  Effect
  <2>1. PICK l \in {history[Key(h)], <<>>} : Moved(h, Writing(role), l, handler[h].reply)
    BY <1>1, <1>6, StepMoves
  <2>2. handler[h].pc = Reading(role)
    BY <1>6 DEF GetHistory, At
  <2>3. /\ Writing(role) # "new" /\ Writing(role) # "set"
        /\ Reading(role) \in Answered => Writing(role) \in Answered
        /\ Reading(role) \notin Early => Writing(role) \notin Early
        /\ Reading(role) \notin Late
        /\ Reading(role) \in Replied => Writing(role) \in Replied
    BY DEF Writing, Reading, Answered, Early, Late, Replied
  <2>4. QED BY <2>1, <2>2, <2>3
<1>7. ASSUME NEW role \in Roles, SaveHistory(h, role)
      PROVE  Effect
  <2>1. CASE role = "user"
    <3>1. Moved(h, "lookup", <<>>, handler[h].reply) /\ handler[h].pc = "saveUser"
      BY <1>1, <1>7, <2>1, StepMoves DEF SaveHistory, At, Writing
    <3>2. QED BY <3>1 DEF Answered, Early, Late, Replied
  <2>2. CASE role = "assistant"
    <3>1. Moved(h, "store", <<>>, handler[h].reply)
      BY <1>1, <1>7, <2>2, StepMoves
    <3>2. QED BY <3>1 DEF Answered, Early, Late, Replied
  <2>3. QED BY <2>1, <2>2 DEF Roles
<1>8. CASE GetGroupContext(h)
  <2>1. (\E l \in Seq(Turn) : Moved(h, "saveWindow", l, handler[h].reply)) /\ handler[h].pc = "getWindow"
    BY <1>1, <1>8, StepMoves DEF GetGroupContext, At
  <2>2. Effect
    BY <2>1 DEF Answered, Early, Late, Replied
  <2>3. QED BY <1>1, <1>2, <1>3, <1>4, <2>2
<1>9. CASE PushGroupContext(h)
  <2>1. Moved(h, "ask", <<>>, handler[h].reply) /\ handler[h].pc = "saveWindow"
    BY <1>1, <1>9, StepMoves DEF PushGroupContext, At
  <2>2. Effect
    BY <2>1 DEF Answered, Early, Late, Replied
  <2>3. QED BY <1>1, <1>2, <1>3, <1>4, <2>2
<1>10. CASE Lookup(h)
  <2>1. Moved(h, "count", handler[h].held, handler[h].reply) /\ handler[h].pc = "lookup"
    BY <1>1, <1>10, StepMoves DEF Lookup, At
  <2>2. Effect
    BY <2>1 DEF Answered, Early, Late, Replied
  <2>3. QED BY <1>1, <1>2, <1>3, <1>4, <2>2
<1>11. CASE LookedUp(h)
  <2> DEFINE r == [answer |-> found[h].entry.answer, born |-> found[h].entry.born]
  <2>1. handler[h].pc = "count"
    BY <1>11 DEF LookedUp, At
  <2>2. CASE CountHit(h) /\ Moved(h, "store", handler[h].held, r)
    <3>1. Effect
      BY <2>1, <2>2 DEF Answered, Early, Late, Replied
    <3>2. QED BY <1>1, <1>2, <1>3, <1>4, <3>1
  <2>3. CASE \E p \in {"tool", "getWindow", "ask"} : Moved(h, p, handler[h].held, handler[h].reply)
    <3>1. Effect
      BY <2>1, <2>3 DEF Answered, Early, Late, Replied
    <3>2. QED BY <1>1, <1>2, <1>3, <1>4, <3>1
  <2>4. QED BY <1>1, <1>11, <2>2, <2>3, StepMoves
<1>12. CASE Dispatch(h)
  <2>1. handler[h].pc = "tool"
    BY <1>12 DEF Dispatch, At
  <2>2. \/ Moved(h, "set", handler[h].held, Own(h, "tool"))
        \/ \E p \in {"getWindow", "ask"} : Moved(h, p, handler[h].held, handler[h].reply)
    BY <1>1, <1>12, StepMoves
  <2>3. Effect
    BY <2>1, <2>2 DEF Answered, Early, Late, Replied
  <2>4. QED BY <1>1, <1>2, <1>3, <1>4, <2>3
<1>13. CASE Remember(h)
  <2>1. Moved(h, "getAssistant", handler[h].held, handler[h].reply) /\ handler[h].pc = "set"
    BY <1>1, <1>13, StepMoves DEF Remember, At
  <2>2. Effect
    BY <2>1 DEF Answered, Early, Late, Replied
  <2>3. QED BY <1>1, <1>2, <1>3, <1>4, <2>2
<1>14. CASE Chat(h)
  <2>1. (\E from \in {"llm", "apology"} : Moved(h, "set", handler[h].held, Own(h, from))) /\ handler[h].pc = "ask"
    BY <1>1, <1>14, StepMoves DEF Chat, At
  <2>2. Effect
    BY <2>1 DEF Answered, Early, Late, Replied
  <2>3. QED BY <1>1, <1>2, <1>3, <1>4, <2>2
<1>15. CASE Store(h)
  <2>1. Moved(h, "done", handler[h].held, handler[h].reply)
    BY <1>1, <1>15, StepMoves
  <2>2. Effect
    BY <2>1 DEF Answered, Early, Late, Replied
  <2>3. QED BY <1>1, <1>2, <1>3, <1>4, <2>2
<1>16. QED BY <1>1, <1>2, <1>3, <1>4, <1>5, <1>6, <1>7, <1>8, <1>9, <1>10, <1>11, <1>12, <1>13, <1>14, <1>15 DEF Step

\* What is past asking stays there.
LEMMA AnsweredStays ==
  ASSUME TypeInv, NEW h \in DOMAIN asked, Step(h)
  PROVE  \A g \in Callers : handler[g].pc \in Answered => handler'[g].pc \in Answered
<1>1. PICK p, l, r : Moved(h, p, l, r) /\ (handler[h].pc \in Answered => p \in Answered)
  BY StepEffect
<1>2. QED BY <1>1, StepEffect DEF Moved

\* A good entry stays good, hit or not.
LEMMA GoodEntryStays ==
  ASSUME TypeInv, NEW h \in DOMAIN asked, Step(h)
  PROVE  \A e : GoodEntry(e) => /\ e.answer[2] \in DOMAIN asked'
                                /\ asked'[e.answer[2]].text = e.question
                                /\ handler'[e.answer[2]].pc \in Answered
<1>1. asked' = asked
  BY StepEffect DEF asked
<1>2. \A g \in DOMAIN asked : g \in Callers
  BY AskedTypes DEF TypeInv, TypeOK
<1>3. QED BY <1>1, <1>2, AnsweredStays DEF GoodEntry

\* Which entries there are after a step: old ones, hit or not, and the one the
\* question itself has worked out.
LEMMA EntriesStep ==
  ASSUME ReplyInv, NEW h \in DOMAIN asked, Step(h)
  PROVE  \A e \in entries' : /\ e.answer[2] \in DOMAIN asked'
                             /\ asked'[e.answer[2]].text = e.question
                             /\ handler'[e.answer[2]].pc \in Answered
<1>1. TypeInv /\ TypeOK /\ h \in Callers /\ asked' = asked
  BY StepEffect DEF ReplyInv, TypeInv, asked
<1>2. \A e \in entries : GoodEntry(e)
  BY DEF ReplyInv
<1>3. ASSUME entries' = entries
      PROVE  \A e \in entries' : /\ e.answer[2] \in DOMAIN asked'
                                 /\ asked'[e.answer[2]].text = e.question
                                 /\ handler'[e.answer[2]].pc \in Answered
  BY <1>1, <1>2, <1>3, GoodEntryStays
<1>4. CASE LookedUp(h)
  <2>1. CASE CountHit(h)
    <3> SUFFICES ASSUME NEW e \in entries'
                 PROVE  /\ e.answer[2] \in DOMAIN asked'
                        /\ asked'[e.answer[2]].text = e.question
                        /\ handler'[e.answer[2]].pc \in Answered
      OBVIOUS
    <3>1. PICK x \in entries : e = Bumped(x, found[h].entry.born)
      BY <2>1 DEF CountHit
    <3>2. x \in Entry
      BY <1>1 DEF TypeOK, CacheTypeOK
    <3>3. e.answer = x.answer /\ e.question = x.question
      BY <3>1, <3>2 DEF Bumped, Entry
    <3>4. QED BY <1>1, <1>2, <3>3, GoodEntryStays
  <2>2. CASE CountMiss(h)
    BY <1>3, <2>2 DEF CountMiss
  <2>3. QED BY <1>4, <2>1, <2>2 DEF LookedUp
<1>5. CASE Remember(h)
  <2> DEFINE q == asked[h].text
             a == handler[h].reply.answer
             new == [question |-> q, answer |-> a, hitCount |-> 0, born |-> sets + 1]
  <2>1. PICK kept \in IF Cardinality(entries) >= maxEntries THEN Evicted ELSE {entries} :
          entries' = kept \cup {new}
    BY <1>5 DEF Remember, Set
  <2>2. kept \subseteq entries
    BY <1>1, <2>1, EvictedHasRoom DEF TypeInv
  <2>3. a[2] = h /\ handler[h].reply # None
    <3>1. handler[h].reply # None /\ handler[h].reply.born = 0 /\ Fits(h)
      BY <1>1, <1>5 DEF ReplyInv, GoodReply, Remember
    <3>2. QED BY <3>1 DEF Fits
  <2>4. handler'[h].pc = "getAssistant"
    BY <1>1, <1>5, StepMoves DEF Moved, TypeInv
  <2>5. new.answer[2] \in DOMAIN asked' /\ asked'[new.answer[2]].text = new.question
        /\ handler'[new.answer[2]].pc \in Answered
    BY <1>1, <2>3, <2>4 DEF Answered
  <2>6. QED BY <1>1, <1>2, <2>1, <2>2, <2>5, GoodEntryStays
<1>6. QED BY <1>3, <1>4, <1>5 DEF Step, TransitionToConversation, GetHistory, SaveHistory, GetGroupContext,
      PushGroupContext, Lookup, Scan, Dispatch, Chat, Store, cacheVars

\* What a Get has found after a step.
LEMMA FindsStep ==
  ASSUME ReplyInv, NEW h \in DOMAIN asked, Step(h)
  PROVE  \A g \in Callers : GoodFind(g)'
<1>1. TypeInv /\ TypeOK /\ h \in Callers /\ asked' = asked /\ asked[h].text \in Questions
  BY StepEffect, AskedTypes DEF ReplyInv, TypeInv, TypeOK, asked
<1>2. PICK p, l, r : Moved(h, p, l, r) /\ p # "new"
  BY <1>1, StepEffect
<1>3. \A g \in Callers : GoodFind(g)
  BY DEF ReplyInv
<1>4. found \in [Callers -> [in : {"none", "miss", "hit"}, entry : Entry \cup {None}]]
  BY <1>1 DEF TypeOK, CacheTypeOK
<1>5. ASSUME NEW g \in Callers, found'[g] = found[g], g # h
      PROVE  GoodFind(g)'
  <2>1. since'[g] = since[g] /\ handler'[g] = handler[g]
    BY <1>1, <1>2, <1>5, StepEffect DEF Moved
  <2>2. QED BY <1>1, <1>3, <1>5, <2>1, GoodEntryStays DEF GoodFind, GoodEntry, At, Score
<1>6. ASSUME NEW g \in Callers, found'[g].in = "none"
      PROVE  GoodFind(g)'
  BY <1>6 DEF GoodFind
<1>7. CASE Lookup(h)
  <2>1. /\ handler'[h].pc = "count" /\ handler[h].pc = "lookup" /\ since' = since
    BY <1>1, <1>7, StepMoves, StepEffect DEF Moved, Lookup, At, TypeInv
  <2>2. \A g \in Callers \ {h} : found'[g] = found[g]
    BY <1>7, <1>4 DEF Lookup, Scan
  <2>3. GoodFind(h)'
    <3>1. CASE found'[h].in = "miss"
      BY <2>1, <3>1 DEF GoodFind, At
    <3>2. ASSUME NEW e \in Candidates(asked[h].text), found'[h] = [in |-> "hit", entry |-> e]
          PROVE  GoodFind(h)'
      <4>1. e \in entries /\ ~Expired(e) /\ Score(e, asked[h].text) >= threshold /\ e \in Entry
        BY <1>1 DEF Candidates, TypeOK, CacheTypeOK
      <4>2. since[h] \in 0..dead /\ dead \in Nat /\ e.born \in Nat
        BY <1>1, <4>1 DEF TypeOK, CacheTypeOK, Entry
      <4>3. e.born > since'[h]
        BY <2>1, <4>1, <4>2 DEF Expired
      <4>4. GoodEntry(e)
        BY <4>1 DEF ReplyInv
      <4>5. QED BY <1>1, <2>1, <3>2, <4>1, <4>3, <4>4, GoodEntryStays DEF GoodFind, GoodEntry, At, Score
    <3>3. QED BY <1>1, <1>4, <1>7, <3>1, <3>2 DEF Lookup, Scan
  <2>4. QED BY <1>5, <2>2, <2>3
<1>8. CASE LookedUp(h)
  <2>1. found' = [found EXCEPT ![h] = NotGetting]
    BY <1>8 DEF LookedUp, CountHit, CountMiss
  <2>2. found'[h].in = "none" /\ \A g \in Callers \ {h} : found'[g] = found[g]
    BY <1>1, <1>4, <2>1 DEF NotGetting
  <2>3. QED BY <1>5, <1>6, <2>2
<1>9. ASSUME found' = found, handler[h].pc # "count"
      PROVE  \A g \in Callers : GoodFind(g)'
  <2>1. found[h].in = "none"
    BY <1>1, <1>3, <1>4, <1>9 DEF GoodFind, At
  <2>2. QED BY <1>1, <1>5, <1>6, <1>9, <2>1
<1>10. ASSUME NEW role \in Roles, GetHistory(h, role) \/ SaveHistory(h, role)
       PROVE  found' = found /\ handler[h].pc # "count"
  BY <1>10 DEF GetHistory, SaveHistory, At, Reading, Writing, cacheVars
<1>11. QED BY <1>7, <1>8, <1>9, <1>10 DEF Step, TransitionToConversation, GetGroupContext, PushGroupContext,
       Dispatch, Remember, Set, Chat, Store, At, cacheVars

\* Replies after a step.
LEMMA RepliesStep ==
  ASSUME ReplyInv, NEW h \in DOMAIN asked, Step(h)
  PROVE  \A g \in Callers : GoodReply(g)'
<1>1. TypeInv /\ TypeOK /\ h \in Callers /\ asked' = asked
  BY StepEffect DEF ReplyInv, TypeInv, asked
<1>2. \A g \in Callers : GoodReply(g) /\ GoodFind(g)
  BY DEF ReplyInv
<1>3. PICK p, l, r : /\ Moved(h, p, l, r) /\ p # "new"
                     /\ \/ r = handler[h].reply /\ p # "set"
                        \/ p = "set" /\ \E from \in {"llm", "tool", "apology"} : r = Own(h, from)
                        \/ /\ CountHit(h) /\ p = "store"
                           /\ r = [answer |-> found[h].entry.answer, born |-> found[h].entry.born]
  BY <1>1, StepEffect
<1>4. \A g \in Callers \ {h} : handler'[g] = handler[g] /\ since'[g] = since[g]
  BY <1>1, <1>3, StepEffect DEF Moved
<1>5. \A g \in Callers \ {h} : GoodReply(g)'
  BY <1>1, <1>2, <1>4 DEF GoodReply, Fits, At
<1>6. handler'[h].pc = p /\ handler'[h].reply = r
  BY <1>3 DEF Moved
<1>7. CASE r = handler[h].reply /\ p # "set"
  <2>1. CASE At(h, "new")
    <3>1. r = None
      BY <1>1, <1>2, <1>7, <2>1 DEF GoodReply
    <3>2. GoodReply(h)'
      BY <1>3, <1>6, <1>7, <3>1 DEF GoodReply, Fits, At
    <3>3. QED BY <1>5, <3>2
  <2>2. CASE ~At(h, "new")
    <3>1. since' = since
      BY <1>1, <2>2, StepEffect
    <3>2. GoodReply(h)'
      BY <1>1, <1>2, <1>3, <1>6, <1>7, <3>1 DEF GoodReply, Fits, At
    <3>3. QED BY <1>5, <3>2
  <2>3. QED BY <2>1, <2>2
<1>8. ASSUME NEW from \in {"llm", "tool", "apology"}, p = "set", r = Own(h, from)
      PROVE  \A g \in Callers : GoodReply(g)'
  <2>1. r.born = 0 /\ r.answer[2] = h
    BY <1>8 DEF Own
  <2>2. r # None
    BY <1>1, <1>8, OwnTypes, ConversationAssumption
  <2>3. GoodReply(h)'
    BY <1>6, <1>8, <2>1, <2>2 DEF GoodReply, Fits, At
  <2>4. QED BY <1>5, <2>3
<1>9. CASE /\ CountHit(h) /\ p = "store"
           /\ r = [answer |-> found[h].entry.answer, born |-> found[h].entry.born]
  <2> DEFINE e == found[h].entry
  <2>1. found[h].in = "hit" /\ e \in Entry
    BY <1>1, <1>9 DEF CountHit, TypeOK, CacheTypeOK
  <2>2. /\ At(h, "count") /\ GoodEntry(e)
        /\ Score(e, asked[h].text) >= threshold /\ e.born > since[h]
    BY <1>1, <1>2, <2>1 DEF GoodFind
  <2>3. since' = since
    BY <1>1, <2>2, StepEffect DEF At
  <2>4. r.answer[2] # h /\ Sim[<<asked[h].text, asked[r.answer[2]].text>>] >= threshold /\ r.born > since[h]
    BY <1>9, <2>2 DEF GoodEntry, Score, At, Answered
  <2>5. r.born # 0
    BY <1>9, <2>1 DEF Entry
  <2>6. GoodReply(h)'
    BY <1>1, <1>6, <1>9, <2>3, <2>4, <2>5 DEF GoodReply, Fits, At
  <2>7. QED BY <1>5, <2>6
<1>10. QED BY <1>3, <1>7, <1>8, <1>9

\* The origin of replies is an invariant.
LEMMA ReplyStep ==
  ASSUME ReplyInv, [Next]_vars
  PROVE  ReplyInv'
<1>1. TypeInv'
  BY ConversationTypeStep DEF ReplyInv
<1>2. ASSUME NEW h \in DOMAIN asked, Step(h)
      PROVE  ReplyInv'
  <2>1. \A e \in entries' : GoodEntry(e)'
    BY <1>2, EntriesStep DEF GoodEntry
  <2>2. QED BY <1>1, <1>2, <2>1, FindsStep, RepliesStep DEF ReplyInv, GoodEntry
<1>3. ASSUME UNCHANGED <<entries, found, script, handler, since>>
      PROVE  ReplyInv'
  BY <1>1, <1>3 DEF ReplyInv, GoodEntry, GoodFind, GoodReply, Fits, At, asked, Score
<1>4. ASSUME NEW u \in Users, ClearContext(u)
      PROVE  UNCHANGED <<entries, found, script, handler, since>>
  BY <1>4 DEF ClearContext, cacheVars, ghosts
<1>5. QED BY <1>2, <1>3, <1>4 DEF Next, Expire, Forget, Age, cacheVars, ghosts, vars

\* A reply from the cache was worked out for a similar question by somebody else,
\* and was alive when this question came in; any other was worked out for it.
THEOREM RepliesFit == Spec => []ReplyFits
<1>1. Init => ReplyInv
  <2>1. ASSUME Init
        PROVE  \A h \in Callers : GoodFind(h) /\ GoodReply(h)
    BY <2>1 DEF Init, CacheInit, NotGetting, GoodFind, GoodReply, Fits, At
  <2>2. Init => entries = {}
    BY DEF Init, CacheInit
  <2>3. QED BY <2>1, <2>2, ConversationStart DEF ReplyInv
<1>2. ReplyInv => ReplyFits
  BY DEF ReplyInv, GoodReply, Fits, ReplyFits
<1>3. QED BY <1>1, <1>2, ReplyStep, PTL DEF Spec
-----------------------------------------------------------------------------
(* What the history of a session holds. *)

\* Question g has said t, as far as the program counters hd tell.
Said(t, hd) == IF t[1] = "user" THEN hd[t[2]].pc \notin Early ELSE hd[t[2]].pc \in Late

\* A list of turns of session k that have been said, each once, answers after questions.
SoundList(s, k, hd) ==
  /\ \A i \in DOMAIN s : s[i][2] \in DOMAIN asked /\ Key(s[i][2]) = k /\ Said(s[i], hd)
  /\ \A i, j \in DOMAIN s :
       i < j => /\ s[i] # s[j]
                /\ s[i][2] = s[j][2] => s[i][1] = "user"

\* A question that is about to write holds such a list, too: HistorySound alone
\* would not survive the Set that follows a Get.
HistInv ==
  /\ TypeInv
  /\ \A k \in Keys : Len(history[k]) <= contextLimit /\ SoundList(history[k], k, handler)
  /\ \A h \in DOMAIN asked :
       At(h, "saveUser") \/ At(h, "saveAssistant") => SoundList(handler[h].held, Key(h), handler)

\* What was said stays said.
LEMMA SaidStays ==
  ASSUME TypeInv, NEW h \in DOMAIN asked, Step(h)
  PROVE  \A s \in Seq(Turn), k \in Keys : SoundList(s, k, handler) => SoundList(s, k, handler')
<1>1. PICK p, l, r : /\ Moved(h, p, l, r)
                     /\ handler[h].pc \notin Early => p \notin Early
                     /\ handler[h].pc \in Late => p \in Late
  BY StepEffect
<1>2. \A g \in Callers : /\ handler[g].pc \notin Early => handler'[g].pc \notin Early
                         /\ handler[g].pc \in Late => handler'[g].pc \in Late
  BY <1>1 DEF Moved
<1>3. \A t \in Turn : Said(t, handler) => Said(t, handler')
  <2> SUFFICES ASSUME NEW t \in Turn, Said(t, handler) PROVE Said(t, handler')
    OBVIOUS
  <2>1. t[2] \in Callers
    BY DEF Turn
  <2>2. QED BY <1>2, <2>1 DEF Said
<1>4. QED
  <2> SUFFICES ASSUME NEW s \in Seq(Turn), NEW k \in Keys, SoundList(s, k, handler)
               PROVE  SoundList(s, k, handler')
    OBVIOUS
  <2>1. \A i \in DOMAIN s : s[i] \in Turn
    OBVIOUS
  <2>2. QED BY <1>3, <2>1 DEF SoundList

\* The end of a sound list is sound.
LEMMA SoundTail ==
  ASSUME NEW s \in Seq(Turn), NEW k, NEW hd, NEW n \in Nat \ {0}, SoundList(s, k, hd)
  PROVE  SoundList(Latest(s, n), k, hd)
<1> DEFINE t == Latest(s, n)
           d == Len(s) - Len(t)
<1>1. t \in Seq(Turn) /\ \A i \in 1..Len(t) : t[i] = s[i + d]
  BY LatestIsTail
<1>2. Len(s) \in Nat /\ Len(t) \in Nat /\ Len(t) <= Len(s) /\ DOMAIN s = 1..Len(s) /\ DOMAIN t = 1..Len(t)
  <2>1. Len(t) = IF Len(s) > n THEN n ELSE Len(s)
    BY LatestIsTail
  <2>2. QED BY <1>1, <2>1
<1>3. \A i \in DOMAIN t : i + d \in DOMAIN s /\ t[i] = s[i + d]
  BY <1>1, <1>2
<1>4. \A i \in DOMAIN t : t[i][2] \in DOMAIN asked /\ Key(t[i][2]) = k /\ Said(t[i], hd)
  BY <1>3 DEF SoundList
<1>5. \A i, j \in DOMAIN t : i < j => i + d < j + d
  BY <1>2
<1>6. \A i, j \in DOMAIN t : i < j => t[i] # t[j] /\ (t[i][2] = t[j][2] => t[i][1] = "user")
  BY <1>3, <1>5 DEF SoundList
<1>7. QED BY <1>4, <1>6 DEF SoundList

\* A question appends what it has just said, and has not said before.
LEMMA SoundAppend ==
  ASSUME NEW s \in Seq(Turn), NEW h \in DOMAIN asked, h \in Callers, NEW role \in Roles,
         NEW hd, NEW hd2, SoundList(s, Key(h), hd), SoundList(s, Key(h), hd2),
         hd[h].pc = Writing(role), Said(<<role, h>>, hd2)
  PROVE  SoundList(Append(s, <<role, h>>), Key(h), hd2)
<1> DEFINE new == <<role, h>>
           t == Append(s, new)
<1>1. new \in Turn /\ new[1] = role /\ new[2] = h
  BY DEF Turn
<1>2. t \in Seq(Turn) /\ Len(t) = Len(s) + 1 /\ Len(s) \in Nat /\ DOMAIN t = 1..Len(t) /\ DOMAIN s = 1..Len(s)
  BY <1>1, AppendTurn
<1>3. (\A i \in DOMAIN s : t[i] = s[i]) /\ t[Len(s) + 1] = new
  BY <1>1, <1>2
<1>4. \A i \in DOMAIN s : s[i] # new /\ (s[i][2] = h => s[i][1] = "user")
  <2> SUFFICES ASSUME NEW i \in DOMAIN s, s[i][2] = h
               PROVE  s[i][1] # role /\ s[i][1] = "user"
    BY <1>1
  <2>1. Said(s[i], hd) /\ s[i][1] \in Roles
    BY <1>2 DEF SoundList, Turn
  <2>2. CASE role = "user"
    <3>1. hd[h].pc \in Early /\ hd[h].pc \notin Late
      BY <2>2 DEF Writing, Early, Late
    <3>2. QED BY <2>1, <3>1 DEF Said
  <2>3. CASE role = "assistant"
    <3>1. hd[h].pc \notin Late
      BY <2>3 DEF Writing, Late
    <3>2. s[i][1] # "assistant"
      BY <2>1, <3>1 DEF Said
    <3>3. QED BY <2>1, <2>3, <3>2 DEF Roles
  <2>4. QED BY <2>2, <2>3 DEF Roles
<1>5. \A i \in DOMAIN t : t[i][2] \in DOMAIN asked /\ Key(t[i][2]) = Key(h) /\ Said(t[i], hd2)
  <2> SUFFICES ASSUME NEW i \in DOMAIN t
               PROVE  t[i][2] \in DOMAIN asked /\ Key(t[i][2]) = Key(h) /\ Said(t[i], hd2)
    OBVIOUS
  <2>1. CASE i \in DOMAIN s
    BY <1>3, <2>1 DEF SoundList
  <2>2. CASE i = Len(s) + 1
    BY <1>1, <1>3, <2>2
  <2>3. QED BY <1>2, <2>1, <2>2
<1>6. \A i, j \in DOMAIN t : i < j => t[i] # t[j] /\ (t[i][2] = t[j][2] => t[i][1] = "user")
  <2> SUFFICES ASSUME NEW i \in DOMAIN t, NEW j \in DOMAIN t, i < j
               PROVE  t[i] # t[j] /\ (t[i][2] = t[j][2] => t[i][1] = "user")
    OBVIOUS
  <2>1. i \in DOMAIN s /\ (j \in DOMAIN s \/ j = Len(s) + 1)
    BY <1>2
  <2>2. CASE j \in DOMAIN s
    BY <1>3, <2>1, <2>2 DEF SoundList
  <2>3. CASE j = Len(s) + 1
    BY <1>1, <1>3, <1>4, <2>1, <2>3
  <2>4. QED BY <2>1, <2>2, <2>3
<1>7. QED BY <1>5, <1>6 DEF SoundList

\* What the steps below establish, put together: the questions asked do not change.
LEMMA HistFold ==
  ASSUME TypeInv', asked' = asked,
         \A k \in Keys : Len(history'[k]) <= contextLimit /\ SoundList(history'[k], k, handler'),
         \A g \in DOMAIN asked : handler'[g].pc \in {"saveUser", "saveAssistant"}
           => SoundList(handler'[g].held, Key(g), handler')
  PROVE  HistInv'
<1>1. ASSUME NEW k \in Keys
      PROVE  SoundList(history[k], k, handler)'
  <2>1. SoundList(history'[k], k, handler')
    OBVIOUS
  <2>2. QED BY <2>1 DEF SoundList, Said, Key
<1>2. ASSUME NEW g \in DOMAIN asked, (At(g, "saveUser") \/ At(g, "saveAssistant"))'
      PROVE  SoundList(handler[g].held, Key(g), handler)'
  <2>1. SoundList(handler'[g].held, Key(g), handler')
    BY <1>2 DEF At
  <2>2. QED BY <2>1 DEF SoundList, Said, Key
<1>3. QED BY <1>1, <1>2 DEF HistInv

\* No step spoils a history or a list in hand.
LEMMA HistStep ==
  ASSUME HistInv, [Next]_vars
  PROVE  HistInv'
<1>1. TypeInv' /\ TypeInv /\ TypeOK
  BY ConversationTypeStep DEF HistInv, TypeInv
<1>2. contextLimit \in Nat \ {0}
  BY ConversationAssumption
<1>3. \A h \in DOMAIN asked : h \in Callers /\ Key(h) \in Keys
  BY <1>1, AskedTypes DEF TypeOK
<1>4. ASSUME NEW h \in DOMAIN asked, Step(h)
      PROVE  HistInv'
  <2>1. asked' = asked
    BY <1>1, <1>4, StepEffect DEF asked
  <2>2. \A s, k, hd : SoundList(s, k, hd) <=> SoundList(s, k, hd)'
    BY <2>1 DEF SoundList, Said, Key
  <2>3. ASSUME NEW k \in Keys, history'[k] = history[k]
        PROVE  Len(history'[k]) <= contextLimit /\ SoundList(history'[k], k, handler')
    <3>1. history[k] \in Seq(Turn) /\ SoundList(history[k], k, handler) /\ Len(history[k]) <= contextLimit
      BY <1>1 DEF HistInv, TypeOK
    <3>2. QED BY <1>1, <1>4, <2>3, <3>1, SaidStays
  <2>4. ASSUME NEW g \in DOMAIN asked, g # h, handler'[g].pc \in {"saveUser", "saveAssistant"}
        PROVE  SoundList(handler'[g].held, Key(g), handler')
    <3>1. handler'[g] = handler[g]
      <4>1. PICK p, l, r : Moved(h, p, l, r)
        BY <1>1, <1>4, StepEffect
      <4>2. QED BY <1>3, <2>4, <4>1 DEF Moved
    <3>2. handler[g].held \in Seq(Turn) /\ SoundList(handler[g].held, Key(g), handler)
      BY <1>1, <1>3, <2>4, <3>1 DEF HistInv, TypeOK, At
    <3>3. QED BY <1>1, <1>3, <1>4, <3>1, <3>2, SaidStays
  <2>5. ASSUME history' = history,
               handler'[h].pc \in {"saveUser", "saveAssistant"} => SoundList(handler'[h].held, Key(h), handler')
        PROVE  HistInv'
    <3>1. \A k \in Keys : Len(history'[k]) <= contextLimit /\ SoundList(history'[k], k, handler')
      BY <2>3, <2>5
    <3>2. \A g \in DOMAIN asked : handler'[g].pc \in {"saveUser", "saveAssistant"}
            => SoundList(handler'[g].held, Key(g), handler')
      BY <2>4, <2>5
    <3>3. QED BY <1>1, <2>1, <3>1, <3>2, HistFold
  <2>6. ASSUME NEW role \in Roles, GetHistory(h, role)
        PROVE  HistInv'
    <3>1. handler'[h].held \in {history[Key(h)], <<>>}
      BY <1>1, <2>6, StepMoves DEF Moved, TypeInv
    <3>2. /\ history[Key(h)] \in Seq(Turn) /\ <<>> \in Seq(Turn)
          /\ SoundList(history[Key(h)], Key(h), handler) /\ SoundList(<<>>, Key(h), handler)
      BY <1>1, <1>3 DEF HistInv, TypeOK, SoundList
    <3>3. SoundList(handler'[h].held, Key(h), handler')
      BY <1>1, <1>3, <1>4, <3>1, <3>2, SaidStays
    <3>4. QED BY <2>5, <2>6, <3>3 DEF GetHistory, redis
  <2>7. ASSUME NEW role \in Roles, SaveHistory(h, role)
        PROVE  HistInv'
    <3> DEFINE new == Latest(Append(handler[h].held, <<role, h>>), contextLimit)
    <3>1. handler[h].pc = Writing(role) /\ Writing(role) \in {"saveUser", "saveAssistant"}
      BY <2>7 DEF SaveHistory, At, Writing
    <3>2. handler'[h].pc = IF role = "user" THEN "lookup" ELSE "store"
      BY <1>1, <2>7, StepMoves DEF Moved, TypeInv, Roles
    <3>3. Said(<<role, h>>, handler')
      BY <3>2 DEF Said, Early, Late, Roles
    <3>4. handler[h].held \in Seq(Turn) /\ SoundList(handler[h].held, Key(h), handler)
      BY <1>1, <1>3, <3>1 DEF HistInv, TypeOK, At
    <3>5. SoundList(handler[h].held, Key(h), handler')
      BY <1>1, <1>3, <1>4, <3>4, SaidStays
    <3>6. /\ Append(handler[h].held, <<role, h>>) \in Seq(Turn)
          /\ SoundList(Append(handler[h].held, <<role, h>>), Key(h), handler')
      BY <1>3, <3>1, <3>3, <3>4, <3>5, SoundAppend, AppendTurn, TurnTypes
    <3>7. SoundList(new, Key(h), handler')
      BY <1>2, <3>6, SoundTail
    <3>8. Len(new) <= contextLimit
      <4>1. Len(Append(handler[h].held, <<role, h>>)) \in Nat
        BY <3>6
      <4>2. Len(new) = IF Len(Append(handler[h].held, <<role, h>>)) > contextLimit
                       THEN contextLimit ELSE Len(Append(handler[h].held, <<role, h>>))
        BY <1>2, <3>6, LatestIsTail
      <4>3. QED BY <1>2, <4>1, <4>2
    <3>9. history \in [Keys -> Seq(Turn)] /\ (history' = [history EXCEPT ![Key(h)] = new] \/ history' = history)
      BY <1>1, <2>7 DEF SaveHistory, TypeOK
    <3>10. ASSUME NEW k \in Keys
           PROVE  Len(history'[k]) <= contextLimit /\ SoundList(history'[k], k, handler')
      <4>1. CASE history'[k] = history[k]
        BY <2>3, <4>1
      <4>2. CASE history'[k] # history[k]
        <5>1. k = Key(h) /\ history'[k] = new
          BY <1>3, <3>9, <4>2
        <5>2. QED BY <3>7, <3>8, <5>1
      <4>3. QED BY <4>1, <4>2
    <3>11. \A g \in DOMAIN asked : handler'[g].pc \in {"saveUser", "saveAssistant"}
             => SoundList(handler'[g].held, Key(g), handler')
      BY <2>4, <3>2
    <3>12. QED BY <1>1, <2>1, <3>10, <3>11, HistFold
  <2>8. ASSUME history' = history, handler'[h].pc \notin {"saveUser", "saveAssistant"}
        PROVE  HistInv'
    BY <2>5, <2>8
  <2>9. CASE TransitionToConversation(h) \/ Lookup(h) \/ PushGroupContext(h) \/ Remember(h) \/ Store(h)
    <3>1. handler'[h].pc \in {"getUser", "count", "ask", "getAssistant", "done"}
      BY <1>1, <2>9, StepMoves DEF Moved, TypeInv
    <3>2. history' = history
      BY <2>9 DEF TransitionToConversation, Lookup, PushGroupContext, Remember, Store, redis
    <3>3. QED BY <2>8, <3>1, <3>2
  <2>10. CASE LookedUp(h) \/ Dispatch(h) \/ Chat(h) \/ GetGroupContext(h)
    <3>1. handler'[h].pc \in {"store", "tool", "getWindow", "ask", "set", "saveWindow"}
      BY <1>1, <2>10, StepMoves DEF Moved, TypeInv
    <3>2. history' = history
      BY <2>10 DEF LookedUp, Dispatch, Chat, GetGroupContext, redis
    <3>3. QED BY <2>8, <3>1, <3>2
  <2>11. QED BY <1>4, <2>6, <2>7, <2>9, <2>10 DEF Step
<1>5. ASSUME UNCHANGED <<script, handler>>, \A k \in Keys : history'[k] \in {history[k], <<>>}
      PROVE  HistInv'
  <2>1. asked' = asked
    BY <1>5 DEF asked
  <2>2. \A k \in Keys : Len(history'[k]) <= contextLimit /\ SoundList(history'[k], k, handler')
    <3> SUFFICES ASSUME NEW k \in Keys
                 PROVE  Len(history'[k]) <= contextLimit /\ SoundList(history'[k], k, handler')
      OBVIOUS
    <3>1. CASE history'[k] = history[k]
      BY <1>5, <3>1 DEF HistInv
    <3>2. CASE history'[k] = <<>>
      BY <1>2, <3>2 DEF SoundList
    <3>3. QED BY <1>5, <3>1, <3>2
  <2>3. \A g \in DOMAIN asked : handler'[g].pc \in {"saveUser", "saveAssistant"}
          => SoundList(handler'[g].held, Key(g), handler')
    BY <1>5 DEF HistInv, At
  <2>4. QED BY <1>1, <2>1, <2>2, <2>3, HistFold
<1>6. ASSUME NEW u \in Users, ClearContext(u)
      PROVE  UNCHANGED <<script, handler, history>>
  BY <1>6 DEF ClearContext, redis
<1>7. ASSUME Expire
      PROVE  UNCHANGED <<script, handler>> /\ \A k \in Keys : history'[k] \in {history[k], <<>>}
  <2>1. history \in [Keys -> Seq(Turn)]
    BY <1>1 DEF TypeOK
  <2>2. QED BY <1>7, <2>1 DEF Expire
<1>8. ASSUME Forget \/ UNCHANGED vars
      PROVE  UNCHANGED <<script, handler, history>>
  BY <1>8 DEF Forget, vars, redis
<1>9. QED BY <1>4, <1>5, <1>6, <1>7, <1>8 DEF Next

\* The history of a session holds turns of that session only, each once, answers
\* after their questions, at most contextLimit - for any number of overlapping
\* questions, of lost keys and of errors of Redis.
THEOREM HistoryStaysSound == Spec => []HistorySound
<1>1. Init => HistInv
  <2>1. Len(<<>>) <= contextLimit
    BY ConversationAssumption
  <2>2. ASSUME Init
        PROVE  \A h \in DOMAIN asked : ~At(h, "saveUser") /\ ~At(h, "saveAssistant")
    <3>1. DOMAIN asked \subseteq Callers
      BY <2>2, AskedTypes DEF Init
    <3>2. QED BY <2>2, <3>1 DEF Init, At
  <2>3. QED BY <2>1, <2>2, ConversationStart DEF Init, HistInv, SoundList
<1>2. HistInv => HistorySound
  BY DEF HistInv, SoundList, HistorySound
<1>3. QED BY <1>1, <1>2, HistStep, PTL DEF Spec
-----------------------------------------------------------------------------
(* What the context of a user holds. *)

\* Whole pairs of questions of user u that were answered, each once.
PairList(c, u, hd) ==
  /\ Len(c) % 2 = 0
  /\ \A i \in DOMAIN c : /\ c[i][2] \in DOMAIN asked /\ asked[c[i][2]].user = u
                         /\ hd[c[i][2]].pc \in Replied
                         /\ i % 2 = 1 => c[i][1] = "user" /\ c[i + 1] = <<"assistant", c[i][2]>>
  /\ \A i, j \in DOMAIN c : i # j => c[i] # c[j]

PairInv ==
  /\ TypeInv
  /\ \A u \in Users : Len(contextCache[u]) <= 2 * ContextLimit /\ PairList(contextCache[u], u, handler)

\* Parity, for lists of pairs and their tails.
LEMMA EvenDifference ==
  ASSUME NEW a \in Nat, NEW b \in Nat, a % 2 = 0, b % 2 = 0, b <= a
  PROVE  a - b \in Nat /\ (a - b) % 2 = 0
OBVIOUS

LEMMA EvenShift ==
  ASSUME NEW i \in Nat, NEW d \in Nat, d % 2 = 0
  PROVE  (i + d) % 2 = i % 2
OBVIOUS

LEMMA OddBelowEven ==
  ASSUME NEW i \in Nat, NEW n \in Nat, n % 2 = 0, i % 2 = 1, i <= n
  PROVE  i + 1 <= n
OBVIOUS

\* Cutting an even number of turns off the front leaves pairs.
LEMMA PairTail ==
  ASSUME NEW c \in Seq(Turn), NEW u, NEW hd, NEW n \in Nat \ {0}, n % 2 = 0, PairList(c, u, hd)
  PROVE  PairList(Latest(c, n), u, hd) /\ Len(Latest(c, n)) <= n
<1> DEFINE t == Latest(c, n)
           d == Len(c) - Len(t)
<1>1. t \in Seq(Turn) /\ Len(t) = (IF Len(c) > n THEN n ELSE Len(c))
      /\ \A i \in 1..Len(t) : t[i] = c[i + d]
  BY LatestIsTail
<1>2. Len(c) \in Nat /\ Len(t) \in Nat /\ Len(t) <= Len(c) /\ Len(t) <= n /\ DOMAIN c = 1..Len(c) /\ DOMAIN t = 1..Len(t)
  BY <1>1
<1>3. Len(c) % 2 = 0 /\ Len(t) % 2 = 0
  <2>1. Len(c) % 2 = 0
    BY DEF PairList
  <2>2. Len(t) = n \/ Len(t) = Len(c)
    BY <1>1
  <2> HIDE DEF t
  <2>3. QED BY <2>1, <2>2
<1>10. d \in Nat /\ d % 2 = 0
  <2> HIDE DEF t
  <2>1. QED BY <1>2, <1>3, EvenDifference
<1>4. \A i \in DOMAIN t : i + d \in DOMAIN c /\ t[i] = c[i + d] /\ (i + d) % 2 = i % 2
  <2> SUFFICES ASSUME NEW i \in DOMAIN t
               PROVE  i + d \in DOMAIN c /\ t[i] = c[i + d] /\ (i + d) % 2 = i % 2
    OBVIOUS
  <2>1. i \in Nat /\ i \in 1..Len(t)
    BY <1>2
  <2>2. t[i] = c[i + d]
    BY <1>1, <2>1
  <2> HIDE DEF t
  <2>3. i + d \in DOMAIN c
    BY <1>2, <2>1
  <2> HIDE DEF d
  <2>4. (i + d) % 2 = i % 2
    BY <1>10, <2>1, EvenShift
  <2>5. QED BY <2>2, <2>3, <2>4
<1>5. \A i \in DOMAIN t : i % 2 = 1 => i + 1 \in DOMAIN t /\ t[i + 1] = c[i + d + 1]
  <2> SUFFICES ASSUME NEW i \in DOMAIN t, i % 2 = 1
               PROVE  i + 1 \in DOMAIN t /\ t[i + 1] = c[i + d + 1]
    OBVIOUS
  <2>1. i \in Nat /\ i \in 1..Len(t)
    BY <1>2
  <2> HIDE DEF t
  <2>2. i + 1 <= Len(t)
    BY <1>2, <1>3, <2>1, OddBelowEven
  <2>3. i + 1 \in DOMAIN t
    BY <1>2, <2>1, <2>2
  <2> HIDE DEF d
  <2>4. (i + 1) + d = i + d + 1
    BY <1>10, <2>1, SMTT(30)
  <2>5. QED BY <1>4, <2>3, <2>4
<1>6. \A i \in DOMAIN t : /\ t[i][2] \in DOMAIN asked /\ asked[t[i][2]].user = u
                          /\ hd[t[i][2]].pc \in Replied
                          /\ i % 2 = 1 => t[i][1] = "user" /\ t[i + 1] = <<"assistant", t[i][2]>>
  BY <1>4, <1>5 DEF PairList
<1>7. \A i, j \in DOMAIN t : i # j => i + d # j + d
  BY <1>2
<1>8. \A i, j \in DOMAIN t : i # j => t[i] # t[j]
  BY <1>4, <1>7 DEF PairList
<1>9. QED
  <2> HIDE DEF t, d
  <2>1. Len(t) <= n
    BY <1>2
  <2>2. PairList(t, u, hd)
    BY <1>3, <1>6, <1>8 DEF PairList
  <2>3. QED BY <2>1, <2>2 DEF t

\* A question that has just been answered adds its pair.
LEMMA PairAppend ==
  ASSUME NEW c \in Seq(Turn), NEW h \in DOMAIN asked, h \in Callers,
         NEW hd, NEW hd2, PairList(c, asked[h].user, hd), PairList(c, asked[h].user, hd2),
         hd[h].pc \notin Replied, hd2[h].pc \in Replied
  PROVE  /\ c \o <<<<"user", h>>, <<"assistant", h>>>> \in Seq(Turn)
         /\ PairList(c \o <<<<"user", h>>, <<"assistant", h>>>>, asked[h].user, hd2)
<1> DEFINE q == <<"user", h>>
           a == <<"assistant", h>>
           t == c \o <<q, a>>
           n == Len(c)
<1>1. q \in Turn /\ a \in Turn /\ q[1] = "user" /\ a[1] = "assistant" /\ q[2] = h /\ a[2] = h /\ q # a
  BY TurnTypes
<1>2. <<q, a>> \in Seq(Turn) /\ Len(<<q, a>>) = 2 /\ <<q, a>>[1] = q /\ <<q, a>>[2] = a
  BY <1>1
<1>3. t \in Seq(Turn) /\ Len(t) = n + 2 /\ n \in Nat /\ DOMAIN t = 1..(n + 2) /\ DOMAIN c = 1..n
  BY <1>2
<1>4. (\A i \in DOMAIN c : t[i] = c[i]) /\ t[n + 1] = q /\ t[n + 2] = a
  BY <1>2, <1>3
<1>5. n % 2 = 0 /\ Len(t) % 2 = 0
  BY <1>3 DEF PairList
<1>6. \A i \in DOMAIN c : c[i][2] # h
  BY DEF PairList
<1>7. \A i \in DOMAIN t : /\ t[i][2] \in DOMAIN asked /\ asked[t[i][2]].user = asked[h].user
                          /\ hd2[t[i][2]].pc \in Replied
                          /\ i % 2 = 1 => t[i][1] = "user" /\ t[i + 1] = <<"assistant", t[i][2]>>
  <2> SUFFICES ASSUME NEW i \in DOMAIN t
               PROVE  /\ t[i][2] \in DOMAIN asked /\ asked[t[i][2]].user = asked[h].user
                      /\ hd2[t[i][2]].pc \in Replied
                      /\ i % 2 = 1 => t[i][1] = "user" /\ t[i + 1] = <<"assistant", t[i][2]>>
    OBVIOUS
  <2>1. CASE i \in DOMAIN c
    <3>1. i % 2 = 1 => i + 1 \in DOMAIN c
      BY <1>3, <1>5, <2>1, SMTT(30)
    <3>2. QED BY <1>4, <2>1, <3>1 DEF PairList
  <2>2. CASE i = n + 1
    <3>1. t[i] = q /\ t[i + 1] = a
      BY <1>3, <1>4, <2>2
    <3>2. QED BY <1>1, <3>1
  <2>3. CASE i = n + 2
    <3>1. t[i] = a /\ i % 2 # 1
      BY <1>3, <1>4, <1>5, <2>3
    <3>2. QED BY <1>1, <3>1
  <2>4. QED BY <1>3, <2>1, <2>2, <2>3
<1>8. \A i, j \in DOMAIN t : i # j => t[i] # t[j]
  <2> SUFFICES ASSUME NEW i \in DOMAIN t, NEW j \in DOMAIN t, i # j
               PROVE  t[i] # t[j]
    OBVIOUS
  <2>1. \A k \in DOMAIN t : k \in DOMAIN c \/ k \in {n + 1, n + 2}
    <3> HIDE DEF t, n
    <3>1. QED BY <1>3
  <2> HIDE DEF t
  <2>2. CASE i \in DOMAIN c /\ j \in DOMAIN c
    BY <1>4, <2>2 DEF PairList
  <2>3. CASE i \in DOMAIN c /\ j \in {n + 1, n + 2}
    BY <1>1, <1>4, <1>6, <2>3
  <2>4. CASE i \in {n + 1, n + 2} /\ j \in DOMAIN c
    BY <1>1, <1>4, <1>6, <2>4
  <2>5. CASE i \in {n + 1, n + 2} /\ j \in {n + 1, n + 2}
    BY <1>1, <1>4, <2>5
  <2>6. QED BY <2>1, <2>2, <2>3, <2>4, <2>5
<1>9. QED BY <1>3, <1>5, <1>7, <1>8 DEF PairList

\* No step tears a pair.
LEMMA PairStep ==
  ASSUME PairInv, [Next]_vars
  PROVE  PairInv'
<1>1. TypeInv' /\ TypeInv /\ TypeOK
  BY ConversationTypeStep DEF PairInv, TypeInv
<1>2. ContextLimit \in Nat \ {0}
  BY ConversationAssumption
<1>3. \A h \in DOMAIN asked : h \in Callers /\ asked[h].user \in Users
  BY <1>1, AskedTypes DEF TypeOK
<1>4. ASSUME NEW h \in DOMAIN asked, Step(h)
      PROVE  PairInv'
  <2>1. asked' = asked
    BY <1>1, <1>4, StepEffect DEF asked
  <2>2. PICK p, l, r : Moved(h, p, l, r) /\ (handler[h].pc \in Replied => p \in Replied)
    BY <1>1, <1>4, StepEffect
  <2>3. \A g \in Callers : handler[g].pc \in Replied => handler'[g].pc \in Replied
    BY <2>2 DEF Moved
  <2>4. \A u \in Users : PairList(contextCache[u], u, handler')
    BY <1>3, <2>3 DEF PairInv, PairList
  <2>5. \A u \in Users : Len(contextCache'[u]) <= 2 * ContextLimit /\ PairList(contextCache'[u], u, handler')
    <3>1. CASE contextCache' = contextCache
      BY <2>4, <3>1 DEF PairInv
    <3>2. CASE Chat(h) /\ UpdateContext(asked[h].user, h)
      <4> DEFINE u == asked[h].user
                 c == contextCache[u] \o <<<<"user", h>>, <<"assistant", h>>>>
      <4>1. u \in Users /\ contextCache[u] \in Seq(Turn) /\ PairList(contextCache[u], u, handler)
        BY <1>1, <1>3 DEF PairInv, TypeOK
      <4>2. handler[h].pc \notin Replied /\ handler'[h].pc \in Replied
        BY <1>1, <3>2, StepMoves DEF Chat, At, Moved, Replied, Answered, TypeInv
      <4>3. c \in Seq(Turn) /\ PairList(c, u, handler')
        BY <1>3, <2>4, <4>1, <4>2, PairAppend
      <4>4. PairList(Latest(c, 2 * ContextLimit), u, handler') /\ Len(Latest(c, 2 * ContextLimit)) <= 2 * ContextLimit
        <5>1. 2 * ContextLimit \in Nat \ {0} /\ (2 * ContextLimit) % 2 = 0
          BY <1>2
        <5>2. QED BY <4>3, <5>1, PairTail
      <4>5. contextCache \in [Users -> Seq(Turn)] /\ contextCache' = [contextCache EXCEPT ![u] = Latest(c, 2 * ContextLimit)]
        BY <1>1, <3>2 DEF UpdateContext, TypeOK
      <4>6. QED BY <2>4, <4>1, <4>4, <4>5 DEF PairInv
    <3>3. ASSUME ~Chat(h)
          PROVE  contextCache' = contextCache
      BY <1>4, <3>3 DEF Step, TransitionToConversation, GetHistory, SaveHistory, GetGroupContext, PushGroupContext,
         Lookup, LookedUp, Dispatch, Remember, Store
    <3>4. QED BY <3>1, <3>2, <3>3 DEF Chat
  <2>6. \A u \in Users : Len(contextCache'[u]) <= 2 * ContextLimit /\ PairList(contextCache[u], u, handler)'
    BY <2>1, <2>5 DEF PairList
  <2>7. QED BY <1>1, <2>6 DEF PairInv
<1>5. ASSUME UNCHANGED <<script, handler>>, \A u \in Users : contextCache'[u] \in {contextCache[u], <<>>}
      PROVE  PairInv'
  <2>1. asked' = asked
    BY <1>5 DEF asked
  <2>2. Len(<<>>) = 0 /\ 0 % 2 = 0 /\ 0 <= 2 * ContextLimit /\ DOMAIN <<>> = {}
    BY <1>2
  <2>3. \A u \in Users : Len(contextCache'[u]) <= 2 * ContextLimit /\ PairList(contextCache'[u], u, handler')
    <3> SUFFICES ASSUME NEW u \in Users
                 PROVE  Len(contextCache'[u]) <= 2 * ContextLimit /\ PairList(contextCache'[u], u, handler')
      OBVIOUS
    <3>1. CASE contextCache'[u] = contextCache[u]
      BY <1>5, <3>1 DEF PairInv
    <3>2. CASE contextCache'[u] = <<>>
      BY <2>2, <3>2 DEF PairList
    <3>3. QED BY <1>5, <3>1, <3>2
  <2>4. \A u \in Users : Len(contextCache'[u]) <= 2 * ContextLimit /\ PairList(contextCache[u], u, handler)'
    BY <2>1, <2>3 DEF PairList
  <2>5. QED BY <1>1, <2>4 DEF PairInv
<1>6. ASSUME NEW u \in Users, ClearContext(u)
      PROVE  UNCHANGED <<script, handler>> /\ \A v \in Users : contextCache'[v] \in {contextCache[v], <<>>}
  BY <1>1, <1>6 DEF ClearContext, TypeOK
<1>7. ASSUME Expire \/ Forget \/ UNCHANGED vars
      PROVE  UNCHANGED <<script, handler, contextCache>>
  BY <1>7 DEF Expire, Forget, vars
<1>8. QED BY <1>4, <1>5, <1>6, <1>7 DEF Next

\* The context the model is given is whole pairs of this user's questions and
\* answers, each once, never more than ContextLimit of them.
THEOREM ContextIsPairs == Spec => []ContextPairs
<1>1. Init => PairInv
  <2>1. Len(<<>>) = 0 /\ 0 % 2 = 0 /\ 0 <= 2 * ContextLimit /\ DOMAIN <<>> = {}
    BY ConversationAssumption
  <2>2. QED BY <2>1, ConversationStart DEF Init, PairInv, PairList
<1>2. PairInv => ContextPairs
  BY DEF PairInv, PairList, ContextPairs
<1>3. QED BY <1>1, <1>2, PairStep, PTL DEF Spec
-----------------------------------------------------------------------------
(* Questions one after the other. *)

\* Cutting before and after a turn is added, or only after, leaves the same.
LEMMA LatestAppend ==
  ASSUME NEW s \in Seq(Turn), NEW x \in Turn, NEW n \in Nat \ {0}
  PROVE  Latest(Append(Latest(s, n), x), n) = Latest(Append(s, x), n)
<1> DEFINE l == Latest(s, n)
           a == Append(l, x)
           b == Append(s, x)
           la == Latest(a, n)
           lb == Latest(b, n)
<1>1. /\ l \in Seq(Turn) /\ Len(l) = (IF Len(s) > n THEN n ELSE Len(s))
      /\ \A i \in 1..Len(l) : l[i] = s[i + (Len(s) - Len(l))]
  BY LatestIsTail
<1>2. /\ a \in Seq(Turn) /\ Len(a) = Len(l) + 1 /\ a[Len(l) + 1] = x
      /\ \A i \in 1..Len(l) : a[i] = l[i]
  BY <1>1
<1>3. /\ b \in Seq(Turn) /\ Len(b) = Len(s) + 1 /\ b[Len(s) + 1] = x
      /\ \A i \in 1..Len(s) : b[i] = s[i]
  OBVIOUS
<1>4. Len(s) \in Nat /\ Len(l) \in Nat /\ Len(a) \in Nat /\ Len(b) \in Nat
  BY <1>1, <1>2, <1>3
<1> HIDE DEF l, a, b
<1>5. /\ la \in Seq(Turn) /\ Len(la) = (IF Len(a) > n THEN n ELSE Len(a))
      /\ \A i \in 1..Len(la) : la[i] = a[i + (Len(a) - Len(la))]
  BY <1>2, LatestIsTail
<1>6. /\ lb \in Seq(Turn) /\ Len(lb) = (IF Len(b) > n THEN n ELSE Len(b))
      /\ \A i \in 1..Len(lb) : lb[i] = b[i + (Len(b) - Len(lb))]
  BY <1>3, LatestIsTail
<1> HIDE DEF la, lb
<1>7. Len(la) = Len(lb) /\ Len(lb) \in Nat
  BY <1>1, <1>2, <1>3, <1>4, <1>5, <1>6
<1>8. ASSUME NEW i \in 1..Len(la)
      PROVE  la[i] = lb[i]
  <2>1. la[i] = a[i + (Len(a) - Len(la))] /\ lb[i] = b[i + (Len(b) - Len(la))]
    BY <1>5, <1>6, <1>7
  <2>2. CASE i = Len(la)
    <3>1. i + (Len(a) - Len(la)) = Len(l) + 1 /\ i + (Len(b) - Len(la)) = Len(s) + 1
      BY <1>2, <1>3, <1>4, <1>7, <2>2
    <3>2. QED BY <1>2, <1>3, <2>1, <3>1
  <2>3. CASE i # Len(la)
    <3> DEFINE j == i + (Len(a) - Len(la))
               m == i + (Len(b) - Len(la))
    <3>1. j \in 1..Len(l) /\ m \in 1..Len(s) /\ j + (Len(s) - Len(l)) = m
      <4>1. i \in Nat /\ 1 <= i /\ i < Len(la) /\ Len(la) \in Nat
        BY <1>7, <2>3
      <4>2. CASE Len(s) > n
        <5>1. Len(l) = n /\ Len(a) = n + 1 /\ Len(la) = n /\ Len(b) = Len(s) + 1
          BY <1>1, <1>2, <1>3, <1>4, <1>5, <4>2
        <5>2. QED BY <1>4, <4>1, <4>2, <5>1
      <4>3. CASE ~(Len(s) > n)
        <5>1. Len(l) = Len(s) /\ Len(a) = Len(s) + 1 /\ Len(b) = Len(s) + 1 /\ Len(la) <= Len(s) + 1
          BY <1>1, <1>2, <1>3, <1>4, <1>5, <4>3
        <5>2. QED BY <1>4, <4>1, <4>3, <5>1
      <4>4. QED BY <4>2, <4>3
    <3> HIDE DEF j, m
    <3>2. a[j] = l[j] /\ b[m] = s[m] /\ l[j] = s[m]
      BY <1>1, <1>2, <1>3, <3>1
    <3>3. QED BY <2>1, <3>2 DEF j, m
  <2>4. QED BY <2>2, <2>3
<1>9. la = lb
  BY <1>5, <1>6, <1>7, <1>8, SeqEqual
<1>10. QED BY <1>9 DEF l, a, b, la, lb

Worked == {"set", "getAssistant", "saveAssistant"}

\* Question h in state r, of a session with history s in which t was said: the
\* question is said before it is written, an answer is written before it is said.
Keeps(r, h, s, t) ==
  /\ r.pc \in {"saveUser", "saveAssistant"} => r.held = s
  /\ r.pc \in {"getUser", "saveUser"} =>
       \E old \in Seq(Turn) : t = Append(old, <<"user", h>>) /\ s = Latest(old, contextLimit)
  /\ r.pc = "store" /\ r.reply.born = 0 => s = Latest(Append(t, <<"assistant", h>>), contextLimit)
  /\ r.pc \notin {"getUser", "saveUser"} /\ ~(r.pc = "store" /\ r.reply.born = 0)
       => s = Latest(t, contextLimit)

TailInv ==
  /\ TypeInv
  /\ \A h \in DOMAIN asked : handler[h].pc \in Worked => handler[h].reply.born = 0
  /\ \A k \in Keys \ mixed :
       /\ Working(k) = {} => history[k] = Latest(turns[k], contextLimit)
       /\ \A g, h \in Working(k) : g = h
       /\ \A h \in Working(k) : Keeps(handler[h], h, history[k], turns[k])

\* A step of question h concerns its own session only.
LEMMA TailFrame ==
  ASSUME TailInv, TypeInv', NEW h \in DOMAIN asked, script' = script, NEW p, NEW l, NEW r,
         Moved(h, p, l, r), p \in Worked => r.born = 0, mixed \subseteq mixed', p # "new",
         \A k \in Keys \ {Key(h)} : history'[k] = history[k] /\ turns'[k] = turns[k],
         Key(h) \notin mixed' =>
           /\ Working(Key(h)) \subseteq {h}
           /\ IF p = "done" THEN history'[Key(h)] = Latest(turns'[Key(h)], contextLimit)
              ELSE Keeps(handler'[h], h, history'[Key(h)], turns'[Key(h)])
  PROVE  TailInv'
<1>1. asked' = asked /\ h \in Callers /\ \A g \in DOMAIN asked : g \in Callers
  BY AskedTypes DEF asked, TailInv, TypeInv, TypeOK
<1>2. handler'[h].pc = p /\ handler'[h].reply = r /\ \A g \in Callers \ {h} : handler'[g] = handler[g]
  BY DEF Moved
<1>3. \A g \in DOMAIN asked : handler'[g].pc \in Worked => handler'[g].reply.born = 0
  BY <1>1, <1>2 DEF TailInv
<1> DEFINE Now(k) == {g \in DOMAIN asked : Key(g) = k /\ handler'[g].pc \notin {"new", "done"}}
<1>4. ASSUME NEW k \in Keys \ mixed'
      PROVE  /\ Now(k) = {} => history'[k] = Latest(turns'[k], contextLimit)
             /\ \A g, f \in Now(k) : g = f
             /\ \A g \in Now(k) : Keeps(handler'[g], g, history'[k], turns'[k])
  <2>1. /\ Working(k) = {} => history[k] = Latest(turns[k], contextLimit)
        /\ \A g, f \in Working(k) : g = f
        /\ \A g \in Working(k) : Keeps(handler[g], g, history[k], turns[k])
    BY DEF TailInv
  <2>2. CASE k # Key(h)
    <3>1. Now(k) = Working(k) /\ h \notin Now(k)
      BY <1>1, <1>2, <2>2 DEF Working
    <3>2. \A g \in Now(k) : handler'[g] = handler[g]
      BY <1>1, <1>2, <3>1
    <3>3. history'[k] = history[k] /\ turns'[k] = turns[k]
      BY <2>2
    <3> HIDE DEF Now
    <3>4. QED BY <2>1, <3>1, <3>2, <3>3
  <2>3. CASE k = Key(h)
    <3>1. Now(k) = IF p = "done" THEN {} ELSE {h}
      <4>1. \A g \in Now(k) : g = h
        BY <1>1, <1>2, <2>3 DEF Working
      <4>2. h \in Now(k) <=> p # "done"
        BY <1>2, <2>3
      <4>3. QED BY <4>1, <4>2
    <3> HIDE DEF Now
    <3>2. QED BY <2>3, <3>1
  <2>4. QED BY <2>2, <2>3
<1>5. \A k \in Keys : Working(k)' = Now(k)
  BY <1>1 DEF Working, Key
<1> HIDE DEF Now
<1>6. \A k \in (Keys \ mixed') : /\ Working(k)' = {} => history'[k] = Latest(turns'[k], contextLimit)
                                 /\ \A g, f \in Working(k)' : g = f
                                 /\ \A g \in Working(k)' : Keeps(handler'[g], g, history'[k], turns'[k])
  BY <1>4, <1>5
<1>7. QED BY <1>1, <1>3, <1>6 DEF TailInv, Keeps, Latest

\* The question that is at work in a session whose questions do not overlap.
LEMMA Alone ==
  ASSUME TailInv, NEW h \in DOMAIN asked, Key(h) \notin mixed, handler[h].pc \notin {"new", "done"}
  PROVE  /\ Key(h) \in Keys /\ Working(Key(h)) = {h}
         /\ Keeps(handler[h], h, history[Key(h)], turns[Key(h)])
<1>1. h \in Working(Key(h)) /\ Key(h) \in Keys
  BY AskedTypes DEF Working, TailInv, TypeInv, TypeOK
<1>2. QED BY <1>1 DEF TailInv

\* Steps that neither say nor write a turn.
LEMMA TailQuiet ==
  ASSUME TailInv, TypeInv', NEW h \in DOMAIN asked,
         Lookup(h) \/ LookedUp(h) \/ Dispatch(h) \/ GetGroupContext(h) \/ PushGroupContext(h)
           \/ Chat(h) \/ Remember(h)
  PROVE  TailInv'
<1>1. TypeInv /\ TypeOK /\ InHand /\ h \in Callers
  BY AskedTypes DEF TailInv, TypeInv, TypeOK
<1>2. UNCHANGED <<script, history, turns, mixed>>
  BY DEF Lookup, LookedUp, Dispatch, GetGroupContext, PushGroupContext, Chat, Remember, redis, ghosts
<1>3. handler[h].pc \in {"lookup", "count", "tool", "getWindow", "saveWindow", "ask", "set"}
  BY DEF Lookup, LookedUp, Dispatch, GetGroupContext, PushGroupContext, Chat, Remember, At
<1>4. Key(h) \notin mixed => Working(Key(h)) = {h} /\ history[Key(h)] = Latest(turns[Key(h)], contextLimit)
  BY <1>3, Alone DEF Keeps
<1>5. ASSUME NEW p \in HandlerPc \ {"new", "getUser", "saveUser", "saveAssistant", "done"}, NEW l, NEW r,
             Moved(h, p, l, r), p \in Worked => r.born = 0, p = "store" => r.born # 0
      PROVE  TailInv'
  <2>1. handler'[h].pc = p /\ handler'[h].reply = r
    BY <1>5 DEF Moved
  <2>2. Key(h) \notin mixed => Keeps(handler'[h], h, history'[Key(h)], turns'[Key(h)])
    BY <1>2, <1>4, <1>5, <2>1 DEF Keeps
  <2>3. QED BY <1>2, <1>4, <1>5, <2>2, TailFrame
<1>6. CASE Lookup(h)
  <2>1. Moved(h, "count", handler[h].held, handler[h].reply)
    BY <1>1, <1>6, StepMoves
  <2>2. QED BY <1>5, <2>1 DEF HandlerPc, Worked
<1>7. CASE LookedUp(h)
  <2>1. CASE \E p \in {"tool", "getWindow", "ask"} : Moved(h, p, handler[h].held, handler[h].reply)
    BY <1>5, <2>1 DEF HandlerPc, Worked
  <2>2. CASE /\ CountHit(h)
             /\ Moved(h, "store", handler[h].held,
                      [answer |-> found[h].entry.answer, born |-> found[h].entry.born])
    <3>1. found[h].entry \in Entry
      BY <1>1, <2>2 DEF CountHit, TypeOK, CacheTypeOK
    <3>2. found[h].entry.born # 0
      BY <3>1 DEF Entry
    <3>3. QED BY <1>5, <2>2, <3>2 DEF HandlerPc, Worked
  <2>3. QED BY <1>1, <1>7, <2>1, <2>2, StepMoves
<1>8. ASSUME NEW from \in {"llm", "tool", "apology"}, Moved(h, "set", handler[h].held, Own(h, from))
      PROVE  TailInv'
  BY <1>5, <1>8 DEF HandlerPc, Worked, Own
<1>9. CASE Dispatch(h)
  <2>1. \/ Moved(h, "set", handler[h].held, Own(h, "tool"))
        \/ \E p \in {"getWindow", "ask"} : Moved(h, p, handler[h].held, handler[h].reply)
    BY <1>1, <1>9, StepMoves
  <2>2. QED BY <1>5, <1>8, <2>1 DEF HandlerPc, Worked
<1>10. CASE GetGroupContext(h)
  <2>1. PICK l \in Seq(Turn) : Moved(h, "saveWindow", l, handler[h].reply)
    BY <1>1, <1>10, StepMoves
  <2>2. QED BY <1>5, <2>1 DEF HandlerPc, Worked
<1>11. CASE PushGroupContext(h)
  <2>1. Moved(h, "ask", <<>>, handler[h].reply)
    BY <1>1, <1>11, StepMoves
  <2>2. QED BY <1>5, <2>1 DEF HandlerPc, Worked
<1>12. CASE Chat(h)
  <2>1. \E from \in {"llm", "apology"} : Moved(h, "set", handler[h].held, Own(h, from))
    BY <1>1, <1>12, StepMoves
  <2>2. QED BY <1>8, <2>1
<1>13. CASE Remember(h)
  <2>1. Moved(h, "getAssistant", handler[h].held, handler[h].reply) /\ handler[h].pc = "set"
    BY <1>1, <1>13, StepMoves DEF Remember, At
  <2>2. handler[h].reply.born = 0
    BY <2>1 DEF TailInv, Worked
  <2>3. QED BY <1>5, <2>1, <2>2 DEF HandlerPc, Worked
<1>14. QED BY <1>6, <1>7, <1>9, <1>10, <1>11, <1>12, <1>13

\* The steps that say a turn or write one.
LEMMA TailTurns ==
  ASSUME TailInv, TypeInv', NEW h \in DOMAIN asked,
         TransitionToConversation(h) \/ Store(h) \/ \E role \in Roles : GetHistory(h, role) \/ SaveHistory(h, role)
  PROVE  TailInv'
<1> DEFINE k == Key(h)
<1>1. TypeInv /\ TypeOK /\ InHand /\ h \in Callers /\ k \in Keys
  BY AskedTypes DEF TailInv, TypeInv, TypeOK
<1>2. /\ history \in [Keys -> Seq(Turn)] /\ turns \in [Keys -> Seq(Turn)] /\ mixed \subseteq Keys
      /\ handler[h].held \in Seq(Turn) /\ contextLimit \in Nat \ {0}
      /\ <<"user", h>> \in Turn /\ <<"assistant", h>> \in Turn
  BY <1>1, ConversationAssumption, TurnTypes DEF TypeOK
<1>3. handler[h].pc \in Worked => handler[h].reply.born = 0
  BY DEF TailInv
<1>4. CASE TransitionToConversation(h)
  <2>1. /\ Moved(h, "getUser", handler[h].held, handler[h].reply)
        /\ UNCHANGED <<script, history>> /\ turns' = [turns EXCEPT ![k] = Append(turns[k], <<"user", h>>)]
        /\ mixed' = IF Working(k) = {} THEN mixed ELSE mixed \cup {k}
    BY <1>1, <1>4, StepMoves DEF TransitionToConversation
  <2>2. /\ turns'[k] = Append(turns[k], <<"user", h>>)
        /\ \A j \in Keys \ {k} : history'[j] = history[j] /\ turns'[j] = turns[j]
    BY <1>1, <1>2, <2>1
  <2>3. k \notin mixed' => Working(k) = {} /\ history[k] = Latest(turns[k], contextLimit)
    BY <1>1, <2>1 DEF TailInv
  <2>4. handler'[h].pc = "getUser"
    BY <2>1 DEF Moved
  <2>5. k \notin mixed' => Keeps(handler'[h], h, history'[k], turns'[k])
    BY <1>1, <1>2, <2>1, <2>2, <2>3, <2>4 DEF Keeps
  <2>6. mixed \subseteq mixed' /\ "getUser" \notin Worked /\ script' = script
    BY <2>1 DEF Worked
  <2>7. k \notin mixed' => Working(k) \subseteq {h}
    BY <2>3
  <2> HIDE DEF k
  <2>8. QED BY <2>1, <2>2, <2>5, <2>6, <2>7, TailFrame DEF k
<1>5. ASSUME NEW role \in Roles, GetHistory(h, role)
      PROVE  TailInv'
  <2>1. UNCHANGED <<script, history, turns>> /\ handler[h].pc = Reading(role)
    BY <1>5 DEF GetHistory, redis, At
  <2>2. PICK l : Moved(h, Writing(role), l, handler[h].reply) /\ (k \notin mixed' => mixed' = mixed /\ l = history[k])
    <3>1. CASE mixed' = mixed \cup {k}
      BY <1>1, <1>5, <3>1, StepMoves
    <3>2. CASE handler' = [handler EXCEPT ![h].pc = Writing(role), ![h].held = history[k]] /\ mixed' = mixed
      <4>1. Writing(role) \in HandlerPc /\ history[k] \in Seq(Turn) /\ handler[h].reply \in Reply \cup {None}
        BY <1>1, <1>2 DEF Writing, HandlerPc, TypeOK
      <4>2. handler \in [Callers -> HandlerType]
        BY <1>1 DEF TypeOK, HandlerType
      <4>3. Moved(h, Writing(role), history[k], handler[h].reply)
        BY <1>1, <3>2, <4>1, <4>2, HandlerMoves
      <4>4. QED BY <3>2, <4>3
    <3>3. QED BY <1>5, <3>1, <3>2 DEF GetHistory, Fault
  <2>3. mixed \subseteq mixed'
    BY <1>5 DEF GetHistory, Fault
  <2>4. \/ Reading(role) = "getUser" /\ Writing(role) = "saveUser"
        \/ Reading(role) = "getAssistant" /\ Writing(role) = "saveAssistant"
    BY DEF Reading, Writing
  <2>5. /\ handler'[h].pc = Writing(role) /\ handler'[h].held = l /\ handler'[h].reply = handler[h].reply
        /\ Writing(role) \in Worked => handler[h].reply.born = 0
    BY <1>3, <2>1, <2>2, <2>4 DEF Moved, Worked
  <2>6. k \notin mixed' => Working(k) = {h} /\ Keeps(handler[h], h, history[k], turns[k])
    BY <2>1, <2>3, <2>4, Alone
  <2>7. k \notin mixed' => Keeps(handler'[h], h, history'[k], turns'[k])
    BY <2>1, <2>2, <2>4, <2>5, <2>6 DEF Keeps
  <2>8. Writing(role) \notin {"new", "done"} /\ (k \notin mixed' => Working(k) \subseteq {h})
    BY <2>4, <2>6
  <2>9. \A j \in Keys \ {k} : history'[j] = history[j] /\ turns'[j] = turns[j]
    BY <2>1
  <2> HIDE DEF k
  <2>10. QED BY <2>1, <2>2, <2>3, <2>5, <2>7, <2>8, <2>9, TailFrame DEF k
<1>6. ASSUME NEW role \in Roles, SaveHistory(h, role)
      PROVE  TailInv'
  <2> DEFINE all == Append(handler[h].held, <<role, h>>)
             p == IF role = "user" THEN "lookup" ELSE "store"
  <2>1. /\ UNCHANGED <<script, turns>> /\ handler[h].pc = Writing(role)
        /\ \/ history' = [history EXCEPT ![k] = Latest(all, contextLimit)] /\ mixed' = mixed
           \/ history' = history /\ mixed' = mixed \cup {k}
    BY <1>6 DEF SaveHistory, At, Fault
  <2>2. role = "user" \/ role = "assistant"
    BY DEF Roles
  <2>3. Moved(h, p, <<>>, handler[h].reply)
    BY <1>1, <1>6, <2>2, StepMoves
  <2>4. handler'[h].pc = p /\ handler'[h].reply = handler[h].reply /\ mixed \subseteq mixed'
    BY <2>1, <2>3 DEF Moved
  <2>5. k \notin mixed' => k \notin mixed /\ history'[k] = Latest(all, contextLimit)
    BY <1>1, <1>2, <2>1
  <2>6. handler[h].pc \notin {"new", "done"}
    BY <2>1 DEF Writing
  <2>7. k \notin mixed' => Working(k) = {h} /\ Keeps(handler[h], h, history[k], turns[k])
    BY <2>5, <2>6, Alone
  <2>8. ASSUME k \notin mixed'
        PROVE  Keeps(handler'[h], h, history'[k], turns'[k])
    <3>1. handler[h].held = history[k] /\ all = Append(history[k], <<role, h>>)
      BY <2>1, <2>7, <2>8 DEF Keeps, Writing
    <3>2. CASE role = "user"
      <4>1. PICK old \in Seq(Turn) : turns[k] = Append(old, <<"user", h>>) /\ history[k] = Latest(old, contextLimit)
        BY <2>1, <2>7, <2>8, <3>2 DEF Keeps, Writing
      <4>2. Latest(all, contextLimit) = Latest(turns[k], contextLimit)
        BY <1>2, <3>1, <3>2, <4>1, LatestAppend
      <4>3. handler'[h].pc = "lookup" /\ history'[k] = Latest(turns[k], contextLimit) /\ turns'[k] = turns[k]
        BY <2>1, <2>4, <2>5, <2>8, <3>2, <4>2
      <4>4. QED BY <4>3 DEF Keeps
    <3>3. CASE role = "assistant"
      <4>1. handler[h].pc = "saveAssistant" /\ handler[h].reply.born = 0
        BY <1>3, <2>1, <3>3 DEF Writing, Worked
      <4>2. history[k] = Latest(turns[k], contextLimit) /\ turns[k] \in Seq(Turn)
        BY <1>1, <1>2, <2>7, <2>8, <4>1 DEF Keeps
      <4>3. Latest(all, contextLimit) = Latest(Append(turns[k], <<"assistant", h>>), contextLimit)
        BY <1>2, <3>1, <3>3, <4>2, LatestAppend
      <4>4. /\ handler'[h].pc = "store" /\ handler'[h].reply.born = 0 /\ turns'[k] = turns[k]
            /\ history'[k] = Latest(Append(turns[k], <<"assistant", h>>), contextLimit)
        BY <2>1, <2>4, <2>5, <2>8, <3>3, <4>1, <4>3
      <4>5. QED BY <4>4 DEF Keeps
    <3>4. QED BY <2>2, <3>2, <3>3
  <2>9. p \notin Worked /\ p \notin {"new", "done"} /\ (k \notin mixed' => Working(k) \subseteq {h})
    BY <2>7 DEF Worked
  <2>10. \A j \in Keys \ {k} : history'[j] = history[j] /\ turns'[j] = turns[j]
    BY <1>2, <2>1
  <2> HIDE DEF k, p
  <2>11. QED BY <2>1, <2>3, <2>4, <2>8, <2>9, <2>10, TailFrame DEF k
<1>7. CASE Store(h)
  <2>1. /\ UNCHANGED <<script, history, mixed>> /\ handler[h].pc = "store"
        /\ turns' = IF handler[h].reply.born # 0 THEN turns
                    ELSE [turns EXCEPT ![k] = Append(turns[k], <<"assistant", h>>)]
    BY <1>7 DEF Store, At, redis
  <2>2. Moved(h, "done", handler[h].held, handler[h].reply)
    BY <1>1, <1>7, StepMoves
  <2>3. k \notin mixed' => Working(k) = {h} /\ Keeps(handler[h], h, history[k], turns[k])
    BY <2>1, Alone
  <2>4. k \notin mixed' => history'[k] = Latest(turns'[k], contextLimit)
    BY <1>1, <1>2, <2>1, <2>3 DEF Keeps
  <2>5. \A j \in Keys \ {k} : history'[j] = history[j] /\ turns'[j] = turns[j]
    BY <1>2, <2>1
  <2>6. "done" \notin Worked /\ (k \notin mixed' => Working(k) \subseteq {h}) /\ script' = script /\ mixed \subseteq mixed'
    BY <2>1, <2>3 DEF Worked
  <2> HIDE DEF k
  <2>7. QED BY <2>2, <2>4, <2>5, <2>6, TailFrame DEF k
<1>8. QED BY <1>4, <1>5, <1>6, <1>7

\* No step lets the history of a session fall behind what was said in it.
LEMMA TailStep ==
  ASSUME TailInv, [Next]_vars
  PROVE  TailInv'
<1>1. TypeInv /\ TypeOK /\ TypeInv'
  BY ConversationTypeStep DEF TailInv, TypeInv
<1>2. ASSUME NEW h \in DOMAIN asked, Step(h)
      PROVE  TailInv'
  BY <1>1, <1>2, TailQuiet, TailTurns DEF Step
<1>3. ASSUME UNCHANGED <<script, handler, history, turns, mixed>>
      PROVE  TailInv'
  <2>1. asked' = asked /\ \A k : Working(k)' = Working(k)
    BY <1>3 DEF asked, Working, Key
  <2>2. \A k \in (Keys \ mixed') : /\ Working(k)' = {} => history'[k] = Latest(turns'[k], contextLimit)
                                   /\ \A g, h \in Working(k)' : g = h
                                   /\ \A h \in Working(k)' : Keeps(handler'[h], h, history'[k], turns'[k])
    BY <1>3, <2>1 DEF TailInv
  <2>3. \A h \in DOMAIN asked : handler'[h].pc \in Worked => handler'[h].reply.born = 0
    BY <1>3 DEF TailInv
  <2>4. QED BY <1>1, <2>1, <2>2, <2>3 DEF TailInv, Keeps, Latest
<1>4. ASSUME NEW u \in Users, ClearContext(u)
      PROVE  UNCHANGED <<script, handler, history, turns, mixed>>
  BY <1>4 DEF ClearContext, redis, ghosts
<1>5. CASE Forget \/ UNCHANGED vars
  BY <1>3, <1>5 DEF Forget, vars, redis, ghosts
<1>6. CASE Expire
  <2>1. UNCHANGED <<script, handler>>
    BY <1>6 DEF Expire
  <2>2. asked' = asked /\ \A k : Working(k)' = Working(k)
    BY <2>1 DEF asked, Working, Key
  <2>3. ASSUME NEW j \in Keys, history' = [history EXCEPT ![j] = <<>>], turns' = [turns EXCEPT ![j] = <<>>],
               mixed' = IF Working(j) = {} THEN mixed ELSE mixed \cup {j}
        PROVE  TailInv'
    <3>1. history \in [Keys -> Seq(Turn)] /\ turns \in [Keys -> Seq(Turn)]
      BY <1>1 DEF TypeOK
    <3>2. Latest(<<>>, contextLimit) = <<>>
      <4>1. contextLimit \in Nat \ {0} /\ <<>> \in Seq(Turn) /\ Len(<<>>) = 0
        BY ConversationAssumption
      <4>2. Latest(<<>>, contextLimit) = SubSeq(<<>>, 1, 0)
        BY <4>1 DEF Latest
      <4>3. QED BY <4>2
    <3>3. ASSUME NEW k \in Keys \ mixed'
          PROVE  /\ Working(k) = {} => history'[k] = Latest(turns'[k], contextLimit)
                 /\ \A g, h \in Working(k) : g = h
                 /\ \A h \in Working(k) : Keeps(handler[h], h, history'[k], turns'[k])
      <4>1. CASE k = j
        <5>1. Working(k) = {} /\ history'[k] = <<>> /\ turns'[k] = <<>>
          BY <2>3, <3>1, <4>1
        <5>2. QED BY <3>2, <5>1
      <4>2. CASE k # j
        <5>1. k \in Keys \ mixed /\ history'[k] = history[k] /\ turns'[k] = turns[k]
          BY <2>3, <3>1, <4>2
        <5>2. QED BY <5>1 DEF TailInv
      <4>3. QED BY <4>1, <4>2
    <3>4. \A k \in (Keys \ mixed') : /\ Working(k)' = {} => history'[k] = Latest(turns'[k], contextLimit)
                                     /\ \A g, h \in Working(k)' : g = h
                                     /\ \A h \in Working(k)' : Keeps(handler'[h], h, history'[k], turns'[k])
      BY <2>1, <2>2, <3>3
    <3>5. \A h \in DOMAIN asked : handler'[h].pc \in Worked => handler'[h].reply.born = 0
      BY <2>1 DEF TailInv
    <3>6. QED BY <1>1, <2>2, <3>4, <3>5 DEF TailInv, Keeps, Latest
  <2>4. CASE UNCHANGED <<history, turns, mixed>>
    BY <1>3, <2>1, <2>4
  <2>5. QED BY <1>6, <2>3, <2>4 DEF Expire
<1>7. QED BY <1>2, <1>3, <1>4, <1>5, <1>6 DEF Next

\* A session whose questions came one after the other has the end of what was said
\* in its history: every question, and every answer that was worked out.
THEOREM HistoryIsTheTail == Spec => []HistoryKeepsTail
<1>1. Init => TailInv
  <2> SUFFICES ASSUME Init PROVE TailInv
    OBVIOUS
  <2>1. TypeInv /\ \A h \in DOMAIN asked : handler[h].pc = "new"
    <3>1. TypeInv /\ DOMAIN asked \subseteq Callers
      BY ConversationStart, AskedTypes DEF Init
    <3>2. QED BY <3>1 DEF Init
  <2>2. Latest(<<>>, contextLimit) = <<>>
    <3>1. contextLimit \in Nat \ {0} /\ <<>> \in Seq(Turn) /\ Len(<<>>) = 0
      BY ConversationAssumption
    <3>2. Latest(<<>>, contextLimit) = SubSeq(<<>>, 1, 0)
      BY <3>1 DEF Latest
    <3>3. QED BY <3>2
  <2>3. \A k \in Keys : history[k] = <<>> /\ turns[k] = <<>> /\ Working(k) = {}
    BY <2>1 DEF Init, Working
  <2>4. QED BY <2>1, <2>2, <2>3 DEF TailInv, Worked
<1>2. TailInv => HistoryKeepsTail
  BY DEF TailInv, HistoryKeepsTail
<1>3. QED BY <1>1, <1>2, TailStep, PTL DEF Spec
=============================================================================
