---------------------------- MODULE HistoryLemmas ----------------------------
(***************************************************************************)
(* Facts about every history that the theorems on histories and on the     *)
(* agent loop rest on.                                                     *)
(*                                                                         *)
(* The validator is right: it accepts exactly the histories that keep the  *)
(* five invariants of S2.15, and of any other it names a rule that is      *)
(* broken, an ordering rule before a pairing rule.  It looks at neighbours *)
(* (two messages in a row of one role); the invariant at positions (user   *)
(* at odd ones).  They meet in the first message of a wrong role, hence    *)
(* LeastNumber.                                                            *)
(*                                                                         *)
(* The sliding window cuts before a fresh turn and leaves fewer turns than *)
(* it and one advance hold; where turns are short (Dense), the number of   *)
(* turns bounds the length.                                                *)
(***************************************************************************)
EXTENDS History, WellFoundedInduction, FunctionTheorems, FiniteSetTheorems,
        TLAPS

\* Every nonempty set of numbers has a least one.
LEMMA LeastNumber ==
    ASSUME NEW T, T \subseteq Nat, T # {}
    PROVE  Min(T) \in T /\ \A i \in T : Min(T) <= i
  <1>1. PICK x \in T : \A y \in T : ~ (<<y, x>> \in OpToRel(<, Nat))
    BY NatLessThanWellFounded, WFMin
  <1>2. \A y \in T : ~ (y < x)
    BY <1>1, Zenon DEF OpToRel
  <1>3. \A y \in T : x <= y
    BY <1>2
  <1> QED
    BY <1>3, Zenon DEF Min

\* Shapes: a message has blocks of uses and results, and a role that may be unknown.
Shaped(g) ==
    /\ Len(g) \in Nat /\ DOMAIN g = 1..Len(g)
    /\ g = <<>> <=> Len(g) = 0

LEMMA ShapedSeq ==
    ASSUME NEW S, NEW g \in Seq(S)
    PROVE  Shaped(g)
  BY DEF Shaped

\* Neighbours of the right role differ, at every place.
LEMMA Neighbours ==
    ASSUME NEW i \in Nat, i > 1
    PROVE  (i % 2 = 1) <=> ~((i - 1) % 2 = 1)
  OBVIOUS

\* The ordering scan accepts exactly the histories that alternate.
LEMMA OrderScan ==
    ASSUME NEW g, Shaped(g)
    PROVE  (\E i \in DOMAIN g : OrderFault(g, i)) <=> ~Alternates(g)
  <1> DEFINE odd(i)   == i % 2 = 1
             right(i) == IF odd(i) THEN "user" ELSE "assistant"
             wrong    == {i \in DOMAIN g : g[i].role # right(i)}
  <1>0. /\ Len(g) \in Nat /\ DOMAIN g = 1..Len(g) /\ odd(1)
        /\ \A i \in Nat : i > 1 => (odd(i) <=> ~odd(i - 1))
    BY Neighbours DEF Shaped
  <1>1. Alternates(g) <=> wrong = {}
    BY DEF Alternates
  <1> HIDE DEF odd
  <1>2. ASSUME wrong # {} PROVE \E i \in DOMAIN g : OrderFault(g, i)
    <2>1. wrong \subseteq Nat
      BY <1>0
    <2>2. PICK m \in wrong : \A i \in wrong : m <= i
      <3> HIDE DEF wrong
      <3> QED
        BY <1>2, <2>1, LeastNumber
    <2>3. m \in 1..Len(g) /\ m \in DOMAIN g /\ g[m].role # right(m)
      BY <1>0, <2>2
    <2>4. CASE m = 1
      BY <1>0, <2>3, <2>4 DEF OrderFault
    <2>5. CASE m > 1
      <3>1. m - 1 \in DOMAIN g /\ ~(m <= m - 1)
        BY <1>0, <2>3, <2>5
      <3>2. m - 1 \notin wrong
        BY <2>2, <3>1
      <3>3. g[m - 1].role = right(m - 1)
        BY <3>1, <3>2
      <3>4. odd(m) <=> ~odd(m - 1)
        BY <1>0, <2>3, <2>5
      <3>5. g[m].role \notin Role \/ g[m].role = g[m - 1].role
        BY <2>3, <3>3, <3>4 DEF Role
      <3> QED
        BY <2>3, <2>5, <3>5 DEF OrderFault
    <2> QED
      BY <1>0, <2>3, <2>4, <2>5
  <1>3. ASSUME wrong = {}, NEW i \in DOMAIN g PROVE ~OrderFault(g, i)
    <2>1. \A j \in DOMAIN g : g[j].role = right(j)
      BY <1>3
    <2>2. g[i].role \in Role /\ (i = 1 => g[i].role = "user")
      BY <1>0, <2>1 DEF Role
    <2>3. ASSUME i > 1 PROVE g[i].role # g[i - 1].role
      <3>1. i - 1 \in DOMAIN g /\ (odd(i) <=> ~odd(i - 1))
        BY <1>0, <2>3
      <3> QED
        BY <2>1, <3>1
    <2> QED
      BY <2>2, <2>3 DEF OrderFault
  <1> QED
    BY <1>1, <1>2, <1>3

\* Of an alternating history the pairing scan names a rule that is broken, if it
\* names one, and no rule only when all three hold.
LEMMA PairScan ==
    ASSUME NEW g, Shaped(g), Alternates(g), NEW i \in DOMAIN g
    PROVE  /\ PairFault(g, i) \in {0, 3, 4, 5}
           /\ PairFault(g, i) = 3 => ~UsesAnswered(g)
           /\ PairFault(g, i) = 4 => ~NoOrphans(g)
           /\ PairFault(g, i) = 5 => ~NoneUnresolved(g)
  <1>1. i \in 1..Len(g) /\ Len(g) \in Nat /\ g[i].role \in {"user", "assistant"}
    BY DEF Shaped, Alternates
  <1>2. CASE g[i].role = "assistant" /\ i = Len(g)
    BY <1>1, <1>2 DEF PairFault, NoneUnresolved, Shaped
  <1>3. CASE g[i].role = "assistant" /\ i # Len(g)
    BY <1>1, <1>3 DEF PairFault, UsesAnswered
  <1>4. CASE g[i].role = "user"
    BY <1>1, <1>4 DEF PairFault, NoOrphans
  <1> QED
    BY <1>1, <1>2, <1>3, <1>4

LEMMA PairsAccepted ==
    ASSUME NEW g, Shaped(g), Alternates(g), PairFaults(g) = {}
    PROVE  UsesAnswered(g) /\ NoOrphans(g) /\ NoneUnresolved(g)
  <1>1. \A i \in DOMAIN g : PairFault(g, i) = 0
    BY DEF PairFaults
  <1>2. Len(g) \in Nat /\ DOMAIN g = 1..Len(g)
    BY DEF Shaped
  <1>3. ASSUME NEW i \in DOMAIN g, g[i].role = "assistant", i < Len(g)
        PROVE  g[i].uses \subseteq g[i+1].results
    BY <1>1, <1>2, <1>3 DEF PairFault
  <1>4. ASSUME NEW i \in DOMAIN g, g[i].role = "user", g[i].results # {}
        PROVE  i > 1 /\ g[i].results \subseteq g[i-1].uses
    BY <1>1, <1>2, <1>4 DEF PairFault
  <1>5. ASSUME g # <<>>, g[Len(g)].role = "assistant" PROVE g[Len(g)].uses = {}
    BY <1>1, <1>2, <1>5 DEF PairFault, Shaped
  <1> QED
    BY <1>3, <1>4, <1>5 DEF UsesAnswered, NoOrphans, NoneUnresolved

\* The validator, on any history whatever.
LEMMA Validator ==
    ASSUME NEW g, Shaped(g)
    PROVE  LET r == ValidateHistory(g)
           IN  /\ r = 0 => Resumable(g)
               /\ r # 0 => /\ ~RuleHolds(g)[r]
                           /\ r \in {3, 4, 5} => EndsResumably(g) /\ Alternates(g)
  <1> DEFINE r == ValidateHistory(g)
  <1>1. CASE g = <<>>
    <2>1. DOMAIN g = {}
      BY <1>1
    <2>2. r = 0
      BY <1>1 DEF ValidateHistory
    <2>3. Resumable(g)
      BY <1>1, <2>1 DEF Resumable, EndsResumably, Alternates, UsesAnswered, NoOrphans,
                        NoneUnresolved
    <2> QED
      BY <2>2, <2>3
  <1>2. CASE g # <<>> /\ ~Alternates(g)
    BY <1>2, OrderScan DEF ValidateHistory, RuleHolds
  <1>3. CASE g # <<>> /\ Alternates(g) /\ g[Len(g)].role # "assistant"
    <2>1. ~EndsResumably(g)
      BY <1>3 DEF EndsResumably
    <2>2. r = 1
      BY <1>3, OrderScan DEF ValidateHistory, Last
    <2>3. ~RuleHolds(g)[r]
      BY <2>1, <2>2 DEF RuleHolds
    <2> QED
      BY <2>2, <2>3
  <1>4. CASE g # <<>> /\ Alternates(g) /\ g[Len(g)].role = "assistant"
    <2>1. EndsResumably(g) /\ Alternates(g)
      BY <1>4 DEF EndsResumably
    <2>2. r = IF PairFaults(g) = {} THEN 0 ELSE PairFault(g, Min(PairFaults(g)))
      BY <1>4, OrderScan DEF ValidateHistory, Last
    <2>3. CASE PairFaults(g) = {}
      BY <1>4, <2>1, <2>2, <2>3, PairsAccepted DEF Resumable
    <2>4. CASE PairFaults(g) # {}
      <3>1. Min(PairFaults(g)) \in PairFaults(g)
        BY <2>4, LeastNumber DEF PairFaults, Shaped
      <3>2. r \in {3, 4, 5} /\ (r = 3 => ~UsesAnswered(g)) /\ (r = 4 => ~NoOrphans(g))
            /\ (r = 5 => ~NoneUnresolved(g))
        BY <1>4, <2>2, <2>4, <3>1, PairScan DEF PairFaults
      <3>3. ~RuleHolds(g)[r]
        BY <3>2 DEF RuleHolds
      <3> QED
        BY <2>1, <3>2, <3>3
    <2> QED
      BY <2>3, <2>4
  <1> QED
    BY <1>1, <1>2, <1>3, <1>4

-----------------------------------------------------------------------------
(* Fresh turns                                                             *)

Below(g, s) == {t \in TurnStarts(g) : t < s}

LEMMA StartsFinite ==
    ASSUME NEW g, Shaped(g)
    PROVE  /\ TurnStarts(g) \subseteq 1..Len(g) /\ TurnStarts(g) \subseteq Nat
           /\ IsFiniteSet(TurnStarts(g)) /\ FreshTurns(g) \in Nat
           /\ \A s : IsFiniteSet(Below(g, s)) /\ Cardinality(Below(g, s)) \in Nat
  <1>1. Len(g) \in Nat /\ TurnStarts(g) \subseteq 1..Len(g)
    BY DEF Shaped, TurnStarts
  <1>2. IsFiniteSet(1..Len(g))
    BY <1>1, FS_Interval
  <1>3. IsFiniteSet(TurnStarts(g))
    BY <1>1, <1>2, FS_Subset
  <1>4. \A s : IsFiniteSet(Below(g, s))
    BY <1>3, FS_Subset DEF Below
  <1> QED
    BY <1>1, <1>3, <1>4, FS_CardinalityType DEF FreshTurns

\* The code's starts[k] exists, and k fresh turns come before it.
LEMMA StartExists ==
    ASSUME NEW g, Shaped(g), NEW k \in Nat, k < FreshTurns(g)
    PROVE  /\ NthStart(g, k) \in TurnStarts(g)
           /\ Cardinality(Below(g, NthStart(g, k))) = k
  <1> DEFINE Starts  == TurnStarts(g)
             Missing == {n \in Nat : /\ n < FreshTurns(g)
                                     /\ \A s \in Starts : Cardinality(Below(g, s)) # n}
  <1>1. Missing = {}
    <2> SUFFICES ASSUME Missing # {} PROVE FALSE
      OBVIOUS
    <2>1. PICK m \in Missing : \A n \in Missing : m <= n
      <3>1. Missing \subseteq Nat
        OBVIOUS
      <3> HIDE DEF Missing
      <3> QED
        BY <3>1, LeastNumber
    <2>2. m \in Nat /\ m < FreshTurns(g) /\ \A s \in Starts : Cardinality(Below(g, s)) # m
      BY <2>1
    \* The first m starts, and the next one.
    <2>3. PICK First \in SUBSET Starts :
            /\ Cardinality(First) = m
            /\ \A t \in Starts \ First, s \in First : s < t
      <3>1. CASE m = 0
        BY <3>1, FS_EmptySet
      <3>2. CASE m # 0
        <4>1. m - 1 \in Nat /\ m - 1 < FreshTurns(g) /\ m - 1 \notin Missing
          BY <2>1, <2>2, <3>2, StartsFinite
        <4>2. PICK s \in Starts : Cardinality(Below(g, s)) = m - 1
          BY <4>1
        <4>3. s \notin Below(g, s) /\ s \in Nat
          BY StartsFinite DEF Below
        <4>4. Cardinality(Below(g, s) \cup {s}) = m
          <5>1. IsFiniteSet(Below(g, s))
            BY StartsFinite
          <5>2. Cardinality(Below(g, s) \cup {s}) = Cardinality(Below(g, s)) + 1
            BY <4>3, <5>1, FS_AddElement
          <5> QED
            BY <2>2, <4>2, <5>2
        <4>5. \A t \in Starts \ (Below(g, s) \cup {s}), r \in Below(g, s) \cup {s} : r < t
          BY <4>3, StartsFinite DEF Below
        <4>6. Below(g, s) \cup {s} \in SUBSET Starts
          BY DEF Below
        <4> QED
          BY <4>4, <4>5, <4>6
      <3> QED
        BY <3>1, <3>2
    <2>4. Starts \ First # {} /\ Starts \ First \subseteq Nat
      <3>1. Starts # First
        BY <2>2, <2>3, StartsFinite DEF FreshTurns
      <3> QED
        BY <3>1, StartsFinite
    <2>5. PICK n \in Starts \ First : \A t \in Starts \ First : n <= t
      BY <2>4, LeastNumber
    <2>6. Below(g, n) = First
      <3>1. n \in Nat /\ \A t \in Starts : t \in Nat
        BY StartsFinite
      <3>2. \A t \in Starts : t < n <=> t \in First
        <4> SUFFICES ASSUME NEW t \in Starts PROVE t < n <=> t \in First
          OBVIOUS
        <4>1. CASE t \in First
          BY <2>3, <2>5, <4>1
        <4>2. CASE t \notin First
          <5>1. n <= t
            BY <2>5, <4>2
          <5> QED
            BY <3>1, <4>2, <5>1
        <4> QED
          BY <4>1, <4>2
      <3> QED
        BY <3>2 DEF Below
    <2> QED
      BY <2>2, <2>3, <2>5, <2>6
  <1>2. \E s \in Starts : Cardinality(Below(g, s)) = k
    BY <1>1
  <1> QED
    BY <1>2 DEF NthStart, Below

\* f shows g from some place on: message i of f, past the first d, is message i + o of g.
Shifted(f, d, g, o) ==
    /\ Shaped(f) /\ Shaped(g) /\ d \in Nat /\ o \in Nat
    /\ d <= Len(f) /\ Len(f) = Len(g) - o
    /\ \A i \in DOMAIN f : i > d => f[i] = g[i + o]

LEMMA ShiftedPlaces ==
    ASSUME NEW f, NEW d, NEW g, NEW o, Shifted(f, d, g, o)
    PROVE  /\ DOMAIN f = 1..Len(f) /\ DOMAIN g = 1..Len(g)
           /\ Len(f) \in Nat /\ Len(g) \in Nat /\ d \in Nat /\ o \in Nat
           /\ \A i \in DOMAIN f : i \in Nat /\ i >= 1 /\ i + o \in DOMAIN g
           /\ \A t \in DOMAIN g : t \in Nat /\ (t > d + o => t - o \in DOMAIN f /\ t - o > d)
  <1>1. /\ DOMAIN f = 1..Len(f) /\ DOMAIN g = 1..Len(g) /\ Len(f) \in Nat /\ Len(g) \in Nat
        /\ d \in Nat /\ o \in Nat /\ Len(f) = Len(g) - o
    BY DEF Shifted, Shaped
  <1> QED
    BY <1>1

\* It has the fresh turns of g from there on.
LEMMA ShiftedTurns ==
    ASSUME NEW f, NEW d, NEW g, NEW o, Shifted(f, d, g, o)
    PROVE  Cardinality({i \in TurnStarts(f) : i > d})
             = Cardinality({t \in TurnStarts(g) : t > d + o})
  <1> DEFINE Here  == {i \in TurnStarts(f) : i > d}
             There == {t \in TurnStarts(g) : t > d + o}
             move  == [i \in Here |-> i + o]
  <1>1. TurnStarts(f) \subseteq DOMAIN f /\ TurnStarts(g) \subseteq DOMAIN g
    BY DEF TurnStarts
  <1>2. ASSUME NEW i \in Here PROVE i + o \in There
    <2>1. i \in DOMAIN f /\ i > d /\ i \in Nat /\ i + o \in DOMAIN g
      BY <1>1, ShiftedPlaces
    <2>2. f[i] = g[i + o]
      BY <2>1 DEF Shifted
    <2>3. i + o \in TurnStarts(g)
      BY <2>1, <2>2 DEF TurnStarts
    <2> QED
      BY <2>1, <2>3, ShiftedPlaces
  <1>3. ASSUME NEW t \in There PROVE t - o \in Here /\ (t - o) + o = t
    <2>1. t \in DOMAIN g /\ t \in Nat /\ o \in Nat /\ t - o \in DOMAIN f /\ t - o > d
      BY <1>1, ShiftedPlaces
    <2>2. (t - o) + o = t
      BY <2>1
    <2>3. f[t - o] = g[t]
      BY <2>1, <2>2 DEF Shifted
    <2> QED
      BY <2>1, <2>2, <2>3 DEF TurnStarts
  <1>4. move \in Bijection(Here, There)
    <2>1. o \in Nat /\ \A i \in Here : i \in Nat
      BY <1>1, ShiftedPlaces
    <2>2. move \in [Here -> There]
      BY <1>2
    <2>3. \A a, b \in Here : move[a] = move[b] => a = b
      BY <2>1
    <2>4. \A t \in There : \E a \in Here : move[a] = t
      BY <1>3
    <2> HIDE DEF Here, There, move
    <2> QED
      BY <2>2, <2>3, <2>4, Fun_IsBij
  <1>5. IsFiniteSet(Here)
    <2>1. IsFiniteSet(TurnStarts(f))
      BY StartsFinite DEF Shifted
    <2> QED
      BY <2>1, FS_Subset
  <1> HIDE DEF Here, There, move
  <1>6. Cardinality(There) = Cardinality(Here)
    BY <1>4, <1>5, FS_Bijection DEF ExistsBijection
  <1> QED
    BY <1>6 DEF Here, There

-----------------------------------------------------------------------------
(* The window of SlidingWindowStrategy                                     *)

LEMMA Division ==
    ASSUME NEW a \in Nat, NEW c \in Nat \ {0}
    PROVE  /\ a \div c \in Nat /\ (a \div c) * c \in Nat
           /\ (a \div c) * c <= a /\ a < (a \div c) * c + c
  OBVIOUS

LEMMA DropFacts ==
    ASSUME NEW n \in Nat, NEW keep \in Nat, NEW chunk \in Nat
    PROVE  /\ Drop(n, keep, chunk) \in Nat
           /\ Drop(n, keep, chunk) # 0 => keep > 0 /\ Drop(n, keep, chunk) <= n - keep
           /\ keep > 0 /\ chunk > 0 /\ n >= keep => n - keep < Drop(n, keep, chunk) + chunk
  <1> DEFINE step == IF chunk < 1 THEN 1 ELSE chunk
  <1>1. step \in Nat \ {0} /\ (chunk > 0 => step = chunk)
    OBVIOUS
  <1>2. CASE keep <= 0 \/ n <= keep
    BY <1>2 DEF Drop
  <1>3. CASE ~(keep <= 0 \/ n <= keep)
    <2>1. n - keep \in Nat /\ Drop(n, keep, chunk) = ((n - keep) \div step) * step
      BY <1>3 DEF Drop
    <2> HIDE DEF step
    <2>2. /\ Drop(n, keep, chunk) \in Nat /\ Drop(n, keep, chunk) <= n - keep
          /\ n - keep < Drop(n, keep, chunk) + step
      BY <1>1, <2>1, Division
    <2> QED
      BY <1>1, <1>3, <2>2
  <1> QED
    BY <1>2, <1>3

\* The cut falls before a fresh turn and leaves as many turns out as it should.
LEMMA SlidingCutFacts ==
    ASSUME NEW g, Shaped(g), NEW keep \in Nat, NEW chunk \in Nat
    PROVE  LET drop == Drop(FreshTurns(g), keep, chunk)
               cut  == SlidingCut(g, keep, chunk)
           IN  /\ drop \in Nat
               /\ drop = 0 => cut = 0
               /\ drop # 0 => /\ cut \in Nat /\ cut + 1 \in TurnStarts(g)
                              /\ Cardinality(Below(g, cut + 1)) = drop
  <1> DEFINE drop == Drop(FreshTurns(g), keep, chunk)
  <1>1. FreshTurns(g) \in Nat
    BY StartsFinite
  <1>2. drop \in Nat /\ (drop # 0 => drop < FreshTurns(g))
    <2>1. drop \in Nat /\ (drop # 0 => keep > 0 /\ drop <= FreshTurns(g) - keep)
      BY <1>1, DropFacts
    <2> QED
      BY <1>1, <2>1
  <1>3. SlidingCut(g, keep, chunk) = IF drop = 0 THEN 0 ELSE NthStart(g, drop) - 1
    BY DEF SlidingCut, FreshTurns
  <1> HIDE DEF drop
  <1>4. CASE drop # 0
    <2>1. NthStart(g, drop) \in TurnStarts(g) /\ Cardinality(Below(g, NthStart(g, drop))) = drop
      BY <1>2, <1>4, StartExists
    <2>2. NthStart(g, drop) \in Nat /\ NthStart(g, drop) >= 1
      BY <2>1, StartsFinite DEF Shaped
    <2>3. (NthStart(g, drop) - 1) + 1 = NthStart(g, drop)
      BY <2>2
    <2> QED
      BY <1>2, <1>3, <1>4, <2>1, <2>2, <2>3 DEF drop
  <1> QED
    BY <1>2, <1>3, <1>4 DEF drop

\* What follows the cut has the turns that were not dropped.
LEMMA ShiftedDropped ==
    ASSUME NEW g, NEW keep \in Nat, NEW chunk \in Nat,
           NEW f, Shifted(f, 0, g, SlidingCut(g, keep, chunk))
    PROVE  FreshTurns(f) = FreshTurns(g) - Drop(FreshTurns(g), keep, chunk)
  <1> DEFINE cut  == SlidingCut(g, keep, chunk)
             drop == Drop(FreshTurns(g), keep, chunk)
  <1>1. Shaped(g) /\ Shaped(f) /\ cut \in Nat
    BY DEF Shifted
  <1>2. /\ drop \in Nat /\ (drop = 0 => cut = 0)
        /\ drop # 0 => /\ cut \in Nat /\ cut + 1 \in TurnStarts(g)
                       /\ Cardinality(Below(g, cut + 1)) = drop
    BY <1>1, SlidingCutFacts
  <1>3. Shifted(f, 0, g, cut)
    OBVIOUS
  <1> HIDE DEF cut, drop
  <1>4. FreshTurns(f) = Cardinality({t \in TurnStarts(g) : t > cut})
    <2>1. {i \in TurnStarts(f) : i > 0} = TurnStarts(f)
      BY <1>1, StartsFinite
    <2>2. 0 + cut = cut
      BY <1>1
    <2> QED
      BY <1>3, <2>1, <2>2, ShiftedTurns DEF FreshTurns
  <1>5. CASE drop = 0
    <2>1. cut = 0
      BY <1>2, <1>5
    <2>2. {t \in TurnStarts(g) : t > cut} = TurnStarts(g)
      BY <1>1, <2>1, StartsFinite
    <2>3. FreshTurns(f) = FreshTurns(g)
      BY <1>4, <2>2 DEF FreshTurns
    <2>4. FreshTurns(g) \in Nat
      BY <1>1, StartsFinite
    <2>5. FreshTurns(f) = FreshTurns(g) - drop
      BY <1>5, <2>3, <2>4
    <2> QED
      BY <2>5 DEF drop
  <1>6. CASE drop # 0
    <2>1. cut + 1 \in TurnStarts(g) /\ Cardinality(Below(g, cut + 1)) = drop
      BY <1>2, <1>6
    <2>2. {t \in TurnStarts(g) : t > cut} = TurnStarts(g) \ Below(g, cut + 1)
      <3>1. TurnStarts(g) \subseteq Nat
        BY <1>1, StartsFinite
      <3> QED
        BY <1>1, <2>1, <3>1 DEF Below
    <2>3. Cardinality(TurnStarts(g) \ Below(g, cut + 1)) = FreshTurns(g) - drop
      <3>1. IsFiniteSet(TurnStarts(g))
        BY <1>1, StartsFinite
      <3>2. TurnStarts(g) \cap Below(g, cut + 1) = Below(g, cut + 1)
        BY DEF Below
      <3>3. Cardinality(TurnStarts(g) \ Below(g, cut + 1))
              = Cardinality(TurnStarts(g)) - Cardinality(TurnStarts(g) \cap Below(g, cut + 1))
        BY <3>1, FS_Difference, Zenon
      <3> QED
        BY <2>1, <3>2, <3>3 DEF FreshTurns
    <2> QED
      BY <1>4, <2>2, <2>3 DEF drop
  <1> QED
    BY <1>5, <1>6

\* So it has fewer turns than the window and one advance of it hold.
LEMMA WindowTurns ==
    ASSUME NEW g, NEW keep \in Nat \ {0}, NEW chunk \in Nat \ {0},
           NEW f, Shifted(f, 0, g, SlidingCut(g, keep, chunk))
    PROVE  FreshTurns(f) < keep + chunk
  <1> DEFINE n    == FreshTurns(g)
             drop == Drop(n, keep, chunk)
  <1>1. n \in Nat
    BY StartsFinite DEF Shifted
  <1>2. FreshTurns(f) = n - drop
    BY ShiftedDropped
  <1> HIDE DEF n
  <1>3. drop \in Nat /\ (n >= keep => n - keep < drop + chunk)
    <2>1. keep \in Nat /\ keep > 0 /\ chunk \in Nat /\ chunk > 0
      OBVIOUS
    <2> QED
      BY <1>1, <2>1, DropFacts
  <1> HIDE DEF drop
  <1>4. n - drop < keep + chunk
    BY <1>1, <1>3
  <1> QED
    BY <1>2, <1>4

-----------------------------------------------------------------------------
(* Histories whose turns are short                                         *)

\* No message is d or more past the start of a fresh turn.
Dense(g, d) == \A i \in 1..Len(g) : \E s \in TurnStarts(g) : s <= i /\ i - s < d

\* The bound of a turn bounds the history of n turns.
LEMMA DenseCount ==
    ASSUME NEW g, Shaped(g), NEW d \in Nat, Dense(g, d)
    PROVE  Len(g) <= d * FreshTurns(g)
  <1> DEFINE before(n) == {s \in TurnStarts(g) : s <= n}
             size(n)   == Cardinality(before(n))
             Wrong     == {n \in Nat : n <= Len(g) /\ n > d * size(n)}
  <1>1. /\ Len(g) \in Nat /\ TurnStarts(g) \subseteq 1..Len(g)
        /\ \A n : IsFiniteSet(before(n)) /\ size(n) \in Nat
    BY StartsFinite, FS_Subset, FS_CardinalityType DEF Shaped
  <1>2. Wrong = {}
    <2> SUFFICES ASSUME Wrong # {} PROVE FALSE
      OBVIOUS
    <2>1. PICK n \in Wrong : \A i \in Wrong : n <= i
      <3>1. Wrong \subseteq Nat
        OBVIOUS
      <3> HIDE DEF Wrong
      <3> QED
        BY <3>1, LeastNumber
    <2>2. PICK b \in Nat : b = size(n) /\ n \in Nat /\ n <= Len(g) /\ n > d * b
      BY <1>1, <2>1
    <2>3. n \in 1..Len(g)
      <3>1. d * b \in Nat
        OBVIOUS
      <3> QED
        BY <1>1, <2>2, <3>1
    \* The start that message n is close to, and the messages before it.
    <2>4. PICK s \in TurnStarts(g) : s <= n /\ n - s < d
      BY <2>3 DEF Dense
    <2>5. s \in 1..Len(g) /\ s - 1 \in Nat /\ s - 1 < n /\ s - 1 <= Len(g)
      BY <1>1, <2>2, <2>4
    <2>6. PICK a \in Nat : a = size(s - 1) /\ s - 1 <= d * a
      <3>1. PICK a \in Nat : a = size(s - 1)
        BY <1>1
      <3>2. ~(s - 1 > d * a)
        <4>1. s - 1 \notin Wrong
          <5> HIDE DEF Wrong
          <5> QED
            BY <2>1, <2>2, <2>5
        <4> QED
          BY <2>5, <3>1, <4>1
      <3>3. d * a \in Nat
        OBVIOUS
      <3>4. \A x \in Nat : ~(s - 1 > x) => s - 1 <= x
        BY <2>5
      <3> QED
        BY <3>1, <3>2, <3>3, <3>4
    <2>7. size(s - 1) + 1 <= size(n)
      <3>1. s \notin before(s - 1) /\ before(s - 1) \cup {s} \subseteq before(n)
        BY <1>1, <2>2, <2>4, <2>5
      <3>2. Cardinality(before(s - 1) \cup {s}) = size(s - 1) + 1
        <4> HIDE DEF before
        <4> QED
          BY <1>1, <3>1, FS_AddElement
      <3>3. Cardinality(before(s - 1) \cup {s}) <= Cardinality(before(n))
        <4> HIDE DEF before
        <4> QED
          BY <1>1, <3>1, FS_Subset
      <3> QED
        BY <3>2, <3>3
    <2>8. a + 1 <= b
      BY <2>2, <2>6, <2>7
    <2>9. d * (a + 1) <= d * b
      <3>1. b - (a + 1) \in Nat /\ b = (a + 1) + (b - (a + 1))
        BY <2>8
      <3>2. PICK e \in Nat : b = (a + 1) + e
        BY <3>1
      <3>3. d * b = d * (a + 1) + d * e /\ d * e \in Nat /\ d * (a + 1) \in Nat
        BY <3>2
      <3> QED
        BY <3>3
    <2>10. d * (a + 1) = d * a + d /\ d * a \in Nat /\ d * b \in Nat
      OBVIOUS
    <2>11. \A x, y \in Nat : s - 1 <= x /\ n > y /\ x + d <= y => FALSE
      BY <2>2, <2>4, <2>5
    <2> QED
      BY <2>2, <2>6, <2>9, <2>10, <2>11
  <1>3. before(Len(g)) = TurnStarts(g)
    BY <1>1
  <1>4. Len(g) \notin Wrong
    BY <1>2
  <1>5. ~(Len(g) > d * FreshTurns(g))
    BY <1>1, <1>3, <1>4 DEF FreshTurns
  <1>6. d * FreshTurns(g) \in Nat
    BY StartsFinite
  <1> QED
    BY <1>1, <1>5, <1>6

LEMMA DensePrefix ==
    ASSUME NEW g, NEW f, Shaped(g), Shaped(f), NEW d \in Nat, Dense(g, d),
           Len(f) <= Len(g), \A i \in 1..Len(f) : f[i] = g[i]
    PROVE  Dense(f, d)
  <1>1. /\ Len(f) \in Nat /\ Len(g) \in Nat /\ DOMAIN f = 1..Len(f) /\ DOMAIN g = 1..Len(g)
    BY DEF Shaped
  <1> SUFFICES ASSUME NEW i \in 1..Len(f)
               PROVE  \E s \in TurnStarts(f) : s <= i /\ i - s < d
    BY DEF Dense
  <1>2. PICK s \in TurnStarts(g) : s <= i /\ i - s < d
    BY <1>1 DEF Dense
  <1>3. s \in 1..Len(f)
    BY <1>1, <1>2 DEF TurnStarts
  <1>4. s \in TurnStarts(f)
    BY <1>1, <1>2, <1>3 DEF TurnStarts
  <1> QED
    BY <1>2, <1>4

\* A message more, close enough to a start.
LEMMA DenseAppend ==
    ASSUME NEW g, NEW f, Shaped(g), Shaped(f), NEW d \in Nat, Dense(g, d),
           Len(f) = Len(g) + 1, \A i \in 1..Len(g) : f[i] = g[i],
           \E s \in TurnStarts(f) : s <= Len(f) /\ Len(f) - s < d
    PROVE  Dense(f, d)
  <1>1. /\ Len(f) \in Nat /\ Len(g) \in Nat /\ DOMAIN f = 1..Len(f) /\ DOMAIN g = 1..Len(g)
    BY DEF Shaped
  <1> SUFFICES ASSUME NEW i \in 1..Len(f)
               PROVE  \E s \in TurnStarts(f) : s <= i /\ i - s < d
    BY DEF Dense
  <1>2. CASE i = Len(f)
    BY <1>2
  <1>3. CASE i # Len(f)
    <2>1. i \in 1..Len(g)
      BY <1>1, <1>3
    <2>2. PICK s \in TurnStarts(g) : s <= i /\ i - s < d
      BY <2>1 DEF Dense
    <2>3. s \in 1..Len(g) /\ s \in 1..Len(f)
      BY <1>1, <2>2 DEF TurnStarts
    <2>4. s \in TurnStarts(f)
      BY <1>1, <2>2, <2>3 DEF TurnStarts
    <2> QED
      BY <2>2, <2>4
  <1> QED
    BY <1>2, <1>3

\* What starts with a fresh turn of g.
LEMMA DenseShifted ==
    ASSUME NEW g, NEW f, NEW o, Shifted(f, 0, g, o), NEW d \in Nat, Dense(g, d),
           o + 1 \in TurnStarts(g)
    PROVE  Dense(f, d)
  <1>1. /\ DOMAIN f = 1..Len(f) /\ DOMAIN g = 1..Len(g) /\ Len(f) \in Nat /\ Len(g) \in Nat
        /\ o \in Nat /\ Len(f) = Len(g) - o
    BY ShiftedPlaces DEF Shifted
  <1>2. \A s \in TurnStarts(g) : s >= o + 1 => s - o \in TurnStarts(f)
    <2> SUFFICES ASSUME NEW s \in TurnStarts(g), s >= o + 1 PROVE s - o \in TurnStarts(f)
      OBVIOUS
    <2>1. s \in 1..Len(g) /\ g[s].role = "user" /\ g[s].results = {}
      BY <1>1 DEF TurnStarts
    <2>2. s - o \in DOMAIN f /\ s - o > 0 /\ (s - o) + o = s
      BY <1>1, <2>1
    <2>3. f[s - o] = g[s]
      BY <2>2 DEF Shifted
    <2> QED
      BY <2>1, <2>2, <2>3 DEF TurnStarts
  <1> SUFFICES ASSUME NEW i \in 1..Len(f)
               PROVE  \E s \in TurnStarts(f) : s <= i /\ i - s < d
    BY DEF Dense
  <1>3. PICK s \in TurnStarts(g) : s <= i + o /\ (i + o) - s < d
    BY <1>1 DEF Dense
  <1>4. s \in Nat
    BY <1>1, <1>3 DEF TurnStarts
  <1>5. CASE s >= o + 1
    <2>1. s - o \in TurnStarts(f)
      BY <1>2, <1>5
    <2>2. s - o <= i /\ i - (s - o) < d
      BY <1>1, <1>3, <1>4
    <2> QED
      BY <2>1, <2>2
  <1>6. CASE ~(s >= o + 1)
    <2>1. (o + 1) - o = 1 /\ o + 1 >= o + 1
      BY <1>1
    <2>2. 1 \in TurnStarts(f)
      BY <1>2, <2>1
    <2>3. 1 <= i /\ i - 1 < d
      BY <1>1, <1>3, <1>4, <1>6
    <2> QED
      BY <2>2, <2>3
  <1> QED
    BY <1>5, <1>6

\* A turn of a resumable history ends with an answer: it has an even length.
LEMMA DenseEven ==
    ASSUME NEW g, Shaped(g), Resumable(g), NEW m \in Nat, Dense(g, 2 * m + 1)
    PROVE  Dense(g, 2 * m)
  <1> SUFFICES ASSUME NEW i \in 1..Len(g)
               PROVE  \E s \in TurnStarts(g) : s <= i /\ i - s < 2 * m
    BY DEF Dense
  <1>1. Len(g) \in Nat /\ DOMAIN g = 1..Len(g) /\ g # <<>>
    BY DEF Shaped
  <1>2. \A j \in 1..Len(g) : g[j].role = IF j % 2 = 1 THEN "user" ELSE "assistant"
    BY <1>1 DEF Resumable, Alternates
  <1>3. \A s \in TurnStarts(g) : s \in 1..Len(g) /\ s % 2 = 1
    BY <1>1, <1>2 DEF TurnStarts
  <1>4. Len(g) % 2 = 0
    <2>1. g[Len(g)].role = "assistant" /\ Len(g) \in 1..Len(g)
      BY <1>1 DEF Resumable, EndsResumably
    <2> QED
      BY <1>1, <1>2, <2>1
  <1>5. PICK s \in TurnStarts(g) : s <= i /\ i - s < 2 * m + 1
    BY DEF Dense
  <1>6. CASE i - s < 2 * m
    BY <1>5, <1>6
  <1>7. CASE ~(i - s < 2 * m)
    <2>1. i % 2 = 1
      <3>1. i = s + 2 * m /\ s % 2 = 1 /\ s \in Nat
        BY <1>1, <1>3, <1>5, <1>7
      <3> QED
        BY <3>1
    <2>2. i + 1 \in 1..Len(g) /\ (i + 1) % 2 = 0
      BY <1>1, <1>4, <2>1
    <2>3. PICK t \in TurnStarts(g) : t <= i + 1 /\ (i + 1) - t < 2 * m + 1
      BY <2>2 DEF Dense
    <2>4. t # i + 1 /\ t \in Nat
      BY <1>3, <2>2, <2>3
    <2>5. t <= i /\ i - t < 2 * m
      BY <2>3, <2>4
    <2> QED
      BY <2>3, <2>5
  <1> QED
    BY <1>6, <1>7
=============================================================================
