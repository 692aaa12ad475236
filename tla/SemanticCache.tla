----------------------------- MODULE SemanticCache -----------------------------
(***************************************************************************)
(* The in-memory cache of answers in src/internal/service/ai: callers look *)
(* up the answer to a similar question and store new ones.  Get works in   *)
(* two critical sections, with the entry it found in hand between them;    *)
(* Set works in one.                                                       *)
(*                                                                         *)
(* Sim stands for the cosine of two embeddings.  An entry is named by      *)
(* `born`, the number of the Set that made it; entries get past their TTL  *)
(* in that order.  Their order in the slice decides nothing but how an     *)
(* unstable sort breaks ties, so `entries` is a set.  The copy in Redis is *)
(* written and never read: left out.                                       *)
(***************************************************************************)
EXTENDS Integers, FiniteSetsExt

CONSTANTS
  Callers,        \* goroutines that use the cache
  Questions,      \* texts
  Answers,
  Sim,            \* Sim[<<p, q>>]: how similar two texts are
  threshold,      \* from here on they count as the same question
  maxEntries,
  None

ASSUME CacheAssumption ==
  /\ Sim \in [Questions \X Questions -> Nat]
  /\ threshold \in Nat
  /\ maxEntries \in Nat \ {0}

VARIABLES
  entries,
  sets,      \* number of Set calls
  dead,      \* entries born up to here are past their TTL
  hits, misses,
  found,     \* what a Get has found and not counted yet
  lookups    \* history: number of Get calls that came to an end

cacheVars == <<entries, sets, dead, hits, misses, found, lookups>>

NotGetting == [in |-> "none", entry |-> None]
Entry == [question : Questions, answer : Answers, hitCount : Nat, born : Nat \ {0}]

CacheInit ==
  /\ entries = {}
  /\ sets = 0 /\ dead = 0
  /\ hits = 0 /\ misses = 0
  /\ found = [c \in Callers |-> NotGetting]
  /\ lookups = 0
-----------------------------------------------------------------------------
Expired(e) == e.born <= dead
Score(e, q) == Sim[<<q, e.question>>]

\* Mutant: nobody looks at the age of an entry.
CandidatesOfAnyAge(q) == {e \in entries : Score(e, q) >= threshold}

Candidates(q) == {e \in entries : ~Expired(e) /\ Score(e, q) >= threshold}

\* The read-locked scan; any of the best candidates may come first.
Scan(c, q) ==
  /\ found[c] = NotGetting
  /\ \/ /\ Candidates(q) = {}
        /\ found' = [found EXCEPT ![c] = [in |-> "miss", entry |-> None]]
     \/ \E e \in Candidates(q) :
          /\ \A f \in Candidates(q) : Score(f, q) <= Score(e, q)
          /\ found' = [found EXCEPT ![c] = [in |-> "hit", entry |-> e]]
  /\ UNCHANGED <<entries, sets, dead, hits, misses, lookups>>

CountMiss(c) ==
  /\ found[c].in = "miss"
  /\ misses' = misses + 1
  /\ found' = [found EXCEPT ![c] = NotGetting]
  /\ lookups' = lookups + 1
  /\ UNCHANGED <<entries, sets, dead, hits>>

\* An entry after a hit on the entry born at b.
Bumped(e, b) == IF e.born = b THEN [e EXCEPT !.hitCount = @ + 1] ELSE e

\* Mutant: an entry that has been evicted meanwhile is not counted.
CountHitIfThere(c) ==
  /\ found[c].in = "hit"
  /\ LET b == found[c].entry.born
     IN  /\ entries' = {Bumped(e, b) : e \in entries}
         /\ hits' = IF \E e \in entries : e.born = b THEN hits + 1 ELSE hits
  /\ found' = [found EXCEPT ![c] = NotGetting]
  /\ lookups' = lookups + 1
  /\ UNCHANGED <<sets, dead, misses>>

\* The entry is held by pointer: one that has been evicted meanwhile is counted too.
CountHit(c) ==
  /\ found[c].in = "hit"
  /\ entries' = {Bumped(e, found[c].entry.born) : e \in entries}
  /\ hits' = hits + 1
  /\ found' = [found EXCEPT ![c] = NotGetting]
  /\ lookups' = lookups + 1
  /\ UNCHANGED <<sets, dead, misses>>
-----------------------------------------------------------------------------
Valid == {e \in entries : ~Expired(e)}

\* The n entries that cutting the sorted slice at the front may leave.
Warmest(n) ==
  {kept \in SUBSET Valid :
     /\ Cardinality(kept) = n
     /\ \A e \in Valid \ kept, f \in kept : e.hitCount <= f.hitCount}

\* Mutant: one too few is removed.
EvictedTooFew == IF Cardinality(Valid) < maxEntries THEN {Valid} ELSE Warmest(maxEntries)

\* Mutant: the tail is removed, as the comment above the sort has it.
EvictedTail ==
  IF Cardinality(Valid) < maxEntries THEN {Valid}
  ELSE {kept \in SUBSET Valid :
          /\ Cardinality(kept) = maxEntries - 1
          /\ \A e \in Valid \ kept, f \in kept : e.hitCount >= f.hitCount}

\* What evict may leave: no expired entry, and if that is not enough the coldest go.
Evicted == IF Cardinality(Valid) < maxEntries THEN {Valid} ELSE Warmest(maxEntries - 1)

\* Nobody looks whether the question is there already.
Set(q, a) ==
  /\ sets' = sets + 1
  /\ \E kept \in IF Cardinality(entries) >= maxEntries THEN Evicted ELSE {entries} :
       entries' = kept \cup {[question |-> q, answer |-> a, hitCount |-> 0, born |-> sets + 1]}
  /\ UNCHANGED <<dead, hits, misses, found, lookups>>

\* Time passes: the oldest entry not past its TTL gets past it.
Age ==
  /\ dead < sets
  /\ dead' = dead + 1
  /\ UNCHANGED <<entries, sets, hits, misses, found, lookups>>

CacheNext ==
  \/ \E c \in Callers : (\E q \in Questions : Scan(c, q)) \/ CountMiss(c) \/ CountHit(c)
  \/ \E q \in Questions, a \in Answers : Set(q, a)
  \/ Age

CacheSpec == CacheInit /\ [][CacheNext]_cacheVars
-----------------------------------------------------------------------------
CacheTypeOK ==
  /\ entries \subseteq Entry
  /\ sets \in Nat /\ dead \in 0..sets
  /\ hits \in Nat /\ misses \in Nat /\ lookups \in Nat
  /\ found \in [Callers -> [in : {"none", "miss", "hit"}, entry : Entry \cup {None}]]
  /\ \A c \in Callers : found[c].in = "hit" => found[c].entry \in Entry

\* The cache never holds more than maxEntries, though Set appends after evict has
\* looked, and no entry twice, though a Get counts a hit on an entry that other
\* goroutines may have evicted or counted since it was found.
CacheBounded ==
  /\ Cardinality(entries) <= maxEntries
  /\ \A e, f \in entries : e.born = f.born => e = f

\* The hits that the entries still there have counted, one by one: as many as the
\* sum of their hitCounts.
CountedHits == UNION {{e} \X (1..e.hitCount) : e \in entries}

\* Stats: every Get that came to an end is a hit or a miss, and the hits of the
\* entries that are still there are among the hits, whatever Set evicts between
\* the two critical sections of a Get.
StatsAddUp ==
  /\ hits + misses = lookups
  /\ Cardinality(CountedHits) <= hits

\* Eviction takes the coldest: an entry that a Set throws out before its TTL has
\* no more hits than any entry that stays.
EvictsColdest ==
  [][\A e \in entries :
       (sets' # sets /\ ~Expired(e) /\ \A f \in entries' : f.born # e.born)
         => \A f \in entries \cap entries' : e.hitCount <= f.hitCount]_cacheVars
=============================================================================
