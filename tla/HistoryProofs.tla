---------------------------- MODULE HistoryProofs ----------------------------
(***************************************************************************)
(* The theorems of the run history: what HistoryLemmas says of the         *)
(* validator, and what the two strategies leave of a history of any        *)
(* length.  A composed prefix is the history from some place on (Shifted), *)
(* behind a summary or nothing: it is resumable with the history, and has  *)
(* its fresh turns from there on.                                          *)
(***************************************************************************)
EXTENDS MCHistory, HistoryLemmas, SequenceTheorems

\* Whatever history the run grows, of any length.
LEMMA Grown ==
    Spec => [](h \in Seq(Message \cup AnyMessage))
  <1> DEFINE T == h \in Seq(Message \cup AnyMessage)
  <1>1. Init => T
    BY DEF Init
  <1>2. T /\ [Next]_h => T'
    <2> SUFFICES ASSUME T, [Next]_h PROVE T'
      OBVIOUS
    <2>1. CASE AppendAny
      BY <2>1 DEF AppendAny
    <2>2. CASE AppendFormed
      <3>1. PICK ids \in SUBSET CallId :
              h' \in {Append(h, UserText(1)), Append(h, AssistantReply(1, ids)),
                      Append(h, ToolResults(1, ids))}
        BY <2>2 DEF AppendFormed
      <3>2. {UserText(1), AssistantReply(1, ids), ToolResults(1, ids)} \subseteq Message
        BY DEF UserText, AssistantReply, ToolResults, Message, Role
      <3> QED
        BY <3>1, <3>2
    <2>3. CASE UNCHANGED h
      BY <2>3
    <2> QED
      BY <2>1, <2>2, <2>3 DEF Next
  <1> QED
    BY <1>1, <1>2, PTL DEF Spec

\* validateHistory accepts a history exactly when it keeps the five resumption
\* invariants of S2.15, and of any other it reports a rule that is broken, an
\* ordering rule before a pairing rule (resumption.go:60-146): for histories of
\* any length and any number of tool-use IDs.
THEOREM ValidatorCorrect == Spec => []ValidatorExact
  <1>1. h \in Seq(Message \cup AnyMessage) => ValidatorExact
    <2> SUFFICES ASSUME h \in Seq(Message \cup AnyMessage) PROVE ValidatorExact
      OBVIOUS
    <2>1. Shaped(h)
      BY DEF Shaped
    <2> QED
      BY <2>1, Validator DEF ValidatorExact
  <1> QED
    BY <1>1, Grown, PTL

-----------------------------------------------------------------------------
(* Histories from some place on                                             *)

\* It is resumable with g when user messages stay where user messages were and it
\* starts with one that answers nothing.
LEMMA ShiftedResumable ==
    ASSUME NEW f, NEW d \in {0, 1}, NEW g, NEW o, Shifted(f, d, g, o), Resumable(g),
           o % 2 = 0, d < Len(f), f[1].role = "user", f[1].results = {}
    PROVE  Resumable(f)
  <1> DEFINE right(i) == IF i % 2 = 1 THEN "user" ELSE "assistant"
  <1>1. /\ Len(f) \in Nat /\ Len(g) \in Nat /\ o \in Nat
        /\ DOMAIN f = 1..Len(f) /\ DOMAIN g = 1..Len(g) /\ Len(f) = Len(g) - o
        /\ f # <<>> /\ g # <<>>
    <2>1. Len(f) = Len(g) - o /\ o \in Nat /\ Shaped(f) /\ Shaped(g)
      BY DEF Shifted
    <2>2. Len(f) > 0 /\ Len(g) > 0
      BY <2>1 DEF Shaped
    <2> QED
      BY <2>1, <2>2 DEF Shaped
  <1>2. \A i \in Nat : (i + o) % 2 = i % 2
    BY <1>1
  <1>3. ASSUME NEW i \in DOMAIN f, i > d PROVE f[i] = g[i + o] /\ f[i].role = right(i)
    <2>1. f[i] = g[i + o] /\ i + o \in DOMAIN g /\ i \in Nat
      BY <1>3, ShiftedPlaces DEF Shifted
    <2>2. g[i + o].role = right(i + o)
      BY <2>1 DEF Resumable, Alternates
    <2> QED
      BY <1>2, <2>1, <2>2
  <1>4. Alternates(f)
    <2> SUFFICES ASSUME NEW i \in DOMAIN f PROVE f[i].role = right(i)
      BY DEF Alternates
    <2>1. CASE i > d
      BY <1>3, <2>1
    <2>2. CASE ~(i > d)
      <3>1. i = 1
        BY <1>1, <2>2
      <3> QED
        BY <3>1
    <2> QED
      BY <2>1, <2>2
  <1>5. Len(f) \in DOMAIN f /\ f[Len(f)] = g[Len(g)]
    <2>1. Len(f) \in DOMAIN f /\ Len(f) > d /\ Len(f) + o = Len(g)
      BY <1>1
    <2> QED
      BY <1>3, <2>1
  <1>6. EndsResumably(f) /\ NoneUnresolved(f)
    BY <1>1, <1>5 DEF Resumable, EndsResumably, NoneUnresolved
  <1>7. UsesAnswered(f)
    <2> SUFFICES ASSUME NEW i \in DOMAIN f, f[i].role = "assistant", i < Len(f)
                 PROVE  f[i].uses \subseteq f[i+1].results
      BY DEF UsesAnswered
    <2>1. i > d /\ i + 1 \in DOMAIN f /\ i + 1 > d
      BY <1>1
    <2>2. f[i] = g[i + o] /\ f[i + 1] = g[(i + o) + 1]
      <3>1. (i + 1) + o = (i + o) + 1
        <4>1. i \in Nat /\ o \in Nat
          BY <1>1
        <4> QED
          BY <4>1
      <3> QED
        BY <1>3, <2>1, <3>1
    <2>3. i + o \in DOMAIN g /\ i + o < Len(g)
      BY <1>1
    <2> QED
      BY <2>2, <2>3 DEF Resumable, UsesAnswered
  <1>8. NoOrphans(f)
    <2> SUFFICES ASSUME NEW i \in DOMAIN f, f[i].role = "user", f[i].results # {}
                 PROVE  i > 1 /\ f[i].results \subseteq f[i-1].uses
      BY DEF NoOrphans
    <2>1. i # 1 /\ i \in Nat /\ i > 1
      BY <1>1
    <2>2. i # 2
      BY <1>4 DEF Alternates
    <2>3. i - 1 \in DOMAIN f /\ i > d /\ i - 1 > d
      BY <1>1, <2>1, <2>2
    <2>4. f[i] = g[i + o] /\ f[i - 1] = g[(i + o) - 1]
      <3>1. (i - 1) + o = (i + o) - 1
        BY <1>1
      <3> QED
        BY <1>3, <2>3, <3>1
    <2>5. i + o \in DOMAIN g
      BY <1>1
    <2> QED
      BY <2>4, <2>5 DEF Resumable, NoOrphans
  <1> QED
    BY <1>4, <1>6, <1>7, <1>8 DEF Resumable

\* The validator accepts what is resumable.
LEMMA Accepted ==
    ASSUME NEW g, Shaped(g), Resumable(g)
    PROVE  ValidateHistory(g) = 0
  <1>1. PairFaults(g) = {}
    BY PairScan DEF PairFaults, Resumable
  <1>2. g # <<>> => g[Len(g)].role = "assistant"
    BY DEF Resumable, EndsResumably
  <1> QED
    BY <1>1, <1>2, OrderScan DEF ValidateHistory, Resumable, Last

-----------------------------------------------------------------------------
(* The window of SlidingWindowStrategy                                     *)

LEMMA SlidShifted ==
    ASSUME NEW S, NEW g \in Seq(S), NEW cut \in 0..Len(g)
    PROVE  /\ Composed(g, cut, <<>>, Len(g)) \in Seq(S)
           /\ Shifted(Composed(g, cut, <<>>, Len(g)), 0, g, cut)
  <1> DEFINE f == SubSeq(g, cut + 1, Len(g))
  <1>1. f \in Seq(S) /\ Len(f) = Len(g) - cut /\ \A i \in 1..Len(g) - cut : f[i] = g[i + cut]
    OBVIOUS
  <1>2. Composed(g, cut, <<>>, Len(g)) = f
    BY <1>1 DEF Composed
  <1>3. Shaped(f) /\ Shaped(g)
    BY <1>1, ShapedSeq
  <1> HIDE DEF f
  <1>4. \A i \in DOMAIN f : i > 0 => f[i] = g[i + cut]
    BY <1>1, <1>3 DEF Shaped
  <1> QED
    BY <1>1, <1>2, <1>3, <1>4 DEF Shifted

\* What the window leaves: what follows the cut, and the turns it did not drop.
LEMMA SlidFacts ==
    ASSUME NEW S, NEW g \in Seq(S), NEW keep \in Nat, NEW chunk \in Nat
    PROVE  LET f == Slid(g, keep, chunk)
           IN  /\ Shaped(f)
               /\ FreshTurns(f) = FreshTurns(g) - Drop(FreshTurns(g), keep, chunk)
               /\ Resumable(g) => Resumable(f)
  <1> DEFINE cut  == SlidingCut(g, keep, chunk)
             drop == Drop(FreshTurns(g), keep, chunk)
             f    == Slid(g, keep, chunk)
  <1>1. Shaped(g)
    BY ShapedSeq
  <1>2. /\ drop \in Nat /\ (drop = 0 => cut = 0)
        /\ drop # 0 => /\ cut \in Nat /\ cut + 1 \in TurnStarts(g)
                       /\ Cardinality(Below(g, cut + 1)) = drop
    BY <1>1, SlidingCutFacts
  <1>3. f = Composed(g, cut, <<>>, Len(g))
    BY DEF Slid
  <1>4. cut \in 0..Len(g)
    <2>1. Len(g) \in Nat /\ TurnStarts(g) \subseteq 1..Len(g)
      BY <1>1, StartsFinite
    <2> HIDE DEF cut, drop
    <2> QED
      BY <1>2, <2>1
  <1> HIDE DEF cut, drop, f
  <1>5. Shifted(f, 0, g, cut)
    BY <1>3, <1>4, SlidShifted
  <1>6. Shaped(f) /\ FreshTurns(f) = FreshTurns(g) - drop
    <2>1. Shaped(f)
      BY <1>5 DEF Shifted
    <2>2. FreshTurns(f) = FreshTurns(g) - drop
      BY <1>5, ShiftedDropped DEF cut, drop
    <2> QED
      BY <2>1, <2>2
  <1>7. CASE drop = 0
    <2>1. f = g
      BY <1>2, <1>3, <1>7 DEF Composed
    <2> QED
      BY <1>6, <2>1 DEF f, drop
  <1>8. CASE drop # 0
    <2>1. cut \in Nat /\ cut + 1 \in TurnStarts(g)
      BY <1>2, <1>8
    <2>2. ASSUME Resumable(g) PROVE Resumable(f)
      <3>1. /\ cut + 1 \in DOMAIN g /\ g[cut + 1].role = "user" /\ g[cut + 1].results = {}
        BY <2>1 DEF TurnStarts
      <3>2. (cut + 1) % 2 = 1
        BY <2>2, <3>1 DEF Resumable, Alternates
      <3>3. cut % 2 = 0
        BY <2>1, <3>2
      <3>4. 0 < Len(f) /\ f[1] = g[cut + 1]
        <4>1. Len(f) = Len(g) - cut /\ DOMAIN f = 1..Len(f) /\ cut + 1 <= Len(g) /\ Len(g) \in Nat
          <5>1. Len(f) = Len(g) - cut /\ DOMAIN f = 1..Len(f)
            BY <1>5 DEF Shifted, Shaped
          <5>2. Len(g) \in Nat /\ DOMAIN g = 1..Len(g)
            BY <1>1 DEF Shaped
          <5> QED
            BY <3>1, <5>1, <5>2
        <4>2. 1 \in DOMAIN f /\ 1 + cut = cut + 1
          BY <2>1, <4>1
        <4> QED
          BY <1>5, <2>1, <4>1, <4>2 DEF Shifted
      <3> QED
        BY <1>5, <2>2, <3>1, <3>3, <3>4, ShiftedResumable
    <2> QED
      BY <1>6, <2>2 DEF f, drop
  <1> QED
    BY <1>7, <1>8

-----------------------------------------------------------------------------
(* The summary of HybridSummarizationStrategy                              *)

\* The boundary is the start of the first retained turn; the cut leaves the message
\* before it, the answer that closes the turn before.
LEMMA HybridCutFacts ==
    ASSUME NEW g, Shaped(g), NEW keep \in Nat, HybridCut(g, keep) > 0
    PROVE  LET cut == HybridCut(g, keep)
           IN  /\ cut \in Nat /\ cut > 0 /\ cut + 2 \in TurnStarts(g)
               /\ Cardinality(Below(g, cut + 2)) = FreshTurns(g) - keep
  <1> DEFINE n == FreshTurns(g)
             s == NthStart(g, n - keep)
  <1>1. n \in Nat
    BY StartsFinite
  <1>2. HybridCut(g, keep) = IF keep <= 0 \/ n <= keep THEN 0
                             ELSE IF s - 1 - 1 <= 0 THEN 0 ELSE s - 1 - 1
    BY DEF HybridCut, FreshTurns
  <1> HIDE DEF n, s
  <1>3. ~(keep <= 0 \/ n <= keep)
    BY <1>2
  <1>4. n - keep \in Nat /\ n - keep < n
    BY <1>1, <1>3
  <1>5. s \in TurnStarts(g) /\ Cardinality(Below(g, s)) = n - keep
    BY <1>4, StartExists DEF n, s
  <1>6. s \in Nat
    BY <1>5, StartsFinite
  <1>7. HybridCut(g, keep) = s - 2 /\ s - 2 > 0
    BY <1>2, <1>3, <1>6
  <1>8. (s - 2) + 2 = s
    BY <1>6
  <1> QED
    BY <1>5, <1>6, <1>7, <1>8 DEF n

LEMMA SummarizedSequence ==
    ASSUME NEW S, NEW g \in Seq(S), NEW cut \in 1..Len(g)
    PROVE  LET f == Composed(g, cut, <<UserText(Summary)>>, Len(g))
           IN  /\ Shaped(f) /\ Len(f) = Len(g) - cut + 1
               /\ f[1] = UserText(Summary)
               /\ \A i \in DOMAIN f : i > 1 => f[i] = g[i + (cut - 1)]
               /\ Tail(f) = SubSeq(g, cut + 1, Len(g))
  <1> DEFINE m    == UserText(Summary)
             rest == SubSeq(g, cut + 1, Len(g))
             f    == <<m>> \o rest
  <1>1. /\ rest \in Seq(S) /\ Len(rest) = Len(g) - cut
        /\ \A i \in 1..Len(g) - cut : rest[i] = g[i + cut]
    OBVIOUS
  <1> HIDE DEF m, rest
  <1> DEFINE T == S \cup {m}
  <1>a. rest \in Seq(T) /\ <<m>> \in Seq(T) /\ Len(<<m>>) = 1 /\ <<m>>[1] = m
    <2>1. \A i \in 1..Len(rest) : rest[i] \in T
      BY <1>1
    <2>2. rest \in [1..Len(rest) -> T] /\ Len(rest) \in Nat
      <3>1. rest = [i \in 1..Len(rest) |-> rest[i]] /\ Len(rest) \in Nat
        BY <1>1
      <3> QED
        BY <2>1, <3>1
    <2> QED
      BY <2>2
  <1> HIDE DEF T
  <1>2. /\ f \in Seq(T) /\ Len(f) = 1 + Len(rest) /\ f[1] = m
        /\ \A i \in 2..1 + Len(rest) : f[i] = rest[i - 1]
    <2>1. /\ f \in Seq(T) /\ Len(f) = Len(<<m>>) + Len(rest)
          /\ \A i \in 1 .. Len(<<m>>) + Len(rest) :
               f[i] = IF i <= Len(<<m>>) THEN <<m>>[i] ELSE rest[i - Len(<<m>>)]
      BY <1>a, ConcatProperties
    <2>2. Len(rest) \in Nat
      BY <1>a
    <2> HIDE DEF f
    <2> QED
      BY <1>a, <2>1, <2>2
  <1> HIDE DEF f
  <1>3. Tail(f) = rest
    <2>1. /\ Tail(f) \in Seq(T) /\ Len(Tail(f)) = Len(rest)
          /\ \A i \in 1..Len(rest) : Tail(f)[i] = f[i + 1]
      <3>1. Len(rest) \in Nat /\ f # <<>>
        BY <1>a, <1>2
      <3> QED
        BY <1>2, <3>1, HeadTailProperties
    <2>2. \A i \in 1..Len(rest) : Tail(f)[i] = rest[i]
      <3> SUFFICES ASSUME NEW i \in 1..Len(rest) PROVE Tail(f)[i] = rest[i]
        OBVIOUS
      <3>1. i \in Nat /\ Len(rest) \in Nat
        BY <1>a
      <3>2. i + 1 \in 2..1 + Len(rest) /\ (i + 1) - 1 = i
        BY <3>1
      <3> QED
        BY <1>2, <2>1, <3>2
    <2>3. Tail(f) \in Seq(T) /\ rest \in Seq(T) /\ Len(Tail(f)) = Len(rest)
      BY <1>a, <2>1
    <2> QED
      BY <2>1, <2>2, <2>3, SeqEqual
  <1>4. Shaped(f)
    BY <1>2, ShapedSeq
  <1>5. \A i \in DOMAIN f : i > 1 => f[i] = g[i + (cut - 1)]
    <2> SUFFICES ASSUME NEW i \in DOMAIN f, i > 1 PROVE f[i] = g[i + (cut - 1)]
      OBVIOUS
    <2>1. i \in 2..1 + Len(rest) /\ i \in Nat /\ Len(rest) \in Nat
      BY <1>1, <1>2, <1>4 DEF Shaped
    <2>2. Len(rest) = Len(g) - cut /\ Len(g) \in Nat /\ cut \in Nat
      BY <1>1
    <2>3. i - 1 \in 1..Len(g) - cut /\ (i - 1) + cut = i + (cut - 1)
      <3>1. i - 1 \in 1..Len(rest)
        BY <2>1
      <3>2. (i - 1) + cut = i + (cut - 1)
        <4>1. i \in Nat /\ cut \in Nat
          BY <2>1, <2>2
        <4> QED
          BY <4>1
      <3> QED
        BY <2>2, <3>1, <3>2
    <2>4. f[i] = rest[i - 1] /\ rest[i - 1] = g[(i - 1) + cut]
      BY <1>1, <1>2, <2>1, <2>3
    <2> QED
      BY <2>3, <2>4
  <1>6. Len(f) = Len(g) - cut + 1
    BY <1>1, <1>2
  <1> QED
    BY <1>2, <1>3, <1>4, <1>5, <1>6 DEF Composed, m, rest, f

\* What the summary leaves: what follows the cut, behind the summary.
LEMMA SummarizedFacts ==
    ASSUME NEW S, NEW g \in Seq(S), NEW keep \in Nat, Resumable(g),
           HybridCut(g, keep) > 0
    PROVE  LET f == Summarized(g, keep)
           IN  /\ Shaped(f) /\ Resumable(f)
               /\ FreshTurns(f) = keep + 1 /\ f[2].role = "assistant"
               /\ Tail(f) = SubSeq(g, Len(g) - Len(f) + 2, Len(g))
  <1> DEFINE cut == HybridCut(g, keep)
             f   == Summarized(g, keep)
  <1>1. Shaped(g) /\ Len(g) \in Nat /\ DOMAIN g = 1..Len(g)
    BY ShapedSeq DEF Shaped
  <1>2. /\ cut \in Nat /\ cut > 0 /\ cut + 2 \in TurnStarts(g)
        /\ Cardinality(Below(g, cut + 2)) = FreshTurns(g) - keep
    BY <1>1, HybridCutFacts
  <1>3. f = Composed(g, cut, <<UserText(Summary)>>, Len(g))
    BY DEF Summarized
  <1> HIDE DEF cut, f
  <1>4. cut + 2 \in DOMAIN g /\ g[cut + 2].role = "user" /\ cut + 2 <= Len(g)
    BY <1>1, <1>2 DEF TurnStarts
  <1>5. cut \in 1..Len(g)
    BY <1>1, <1>2, <1>4
  <1>6. /\ Shaped(f) /\ Len(f) = Len(g) - cut + 1 /\ f[1] = UserText(Summary)
        /\ \A i \in DOMAIN f : i > 1 => f[i] = g[i + (cut - 1)]
        /\ Tail(f) = SubSeq(g, cut + 1, Len(g))
    BY <1>3, <1>5, SummarizedSequence
  <1>7. /\ cut - 1 \in Nat /\ Len(f) = Len(g) - (cut - 1) /\ Len(f) >= 3
        /\ Len(f) \in Nat /\ DOMAIN f = 1..Len(f)
    <2>1. Len(f) \in Nat /\ DOMAIN f = 1..Len(f)
      BY <1>6 DEF Shaped
    <2> QED
      BY <1>1, <1>2, <1>4, <1>6, <2>1
  <1>8. (cut - 1) % 2 = 0 /\ (cut + 1) % 2 = 0
    <2>1. (cut + 2) % 2 = 1
      BY <1>4 DEF Resumable, Alternates
    <2> QED
      BY <1>2, <2>1
  <1>9. Shifted(f, 1, g, cut - 1) /\ Shifted(f, 2, g, cut - 1)
    <2>1. \A i \in DOMAIN f : i > 2 => f[i] = g[i + (cut - 1)]
      <3>1. \A i \in DOMAIN f : i > 2 => i > 1
        BY <1>7
      <3> QED
        BY <1>6, <3>1
    <2>2. 1 \in Nat /\ 2 \in Nat /\ 1 <= Len(f) /\ 2 <= Len(f)
      BY <1>7
    <2> QED
      BY <1>1, <1>6, <1>7, <2>1, <2>2 DEF Shifted
  <1>10. f[1].role = "user" /\ f[1].results = {}
    BY <1>6 DEF UserText
  <1>11. Resumable(f)
    BY <1>7, <1>8, <1>9, <1>10, ShiftedResumable
  <1>12. f[2].role = "assistant"
    <2>1. 2 \in DOMAIN f /\ 2 % 2 = 0
      BY <1>7
    <2> QED
      BY <1>11, <2>1 DEF Resumable, Alternates
  <1>13. Tail(f) = SubSeq(g, Len(g) - Len(f) + 2, Len(g))
    <2>1. Len(g) - Len(f) + 2 = cut + 1
      BY <1>1, <1>2, <1>6
    <2> QED
      BY <1>6, <2>1
  <1>14. Cardinality({i \in TurnStarts(f) : i > 2}) = keep
    <2>1. {t \in TurnStarts(g) : t > 2 + (cut - 1)} = TurnStarts(g) \ Below(g, cut + 2)
      <3>1. TurnStarts(g) \subseteq Nat
        BY <1>1, StartsFinite
      <3> QED
        BY <1>2, <3>1 DEF Below
    <2>2. TurnStarts(g) \cap Below(g, cut + 2) = Below(g, cut + 2)
      BY DEF Below
    <2>3. Cardinality(TurnStarts(g) \ Below(g, cut + 2))
            = Cardinality(TurnStarts(g)) - Cardinality(TurnStarts(g) \cap Below(g, cut + 2))
      <3>1. IsFiniteSet(TurnStarts(g))
        BY <1>1, StartsFinite
      <3> QED
        BY <3>1, FS_Difference, Zenon
    <2>4. Cardinality(TurnStarts(g) \ Below(g, cut + 2)) = FreshTurns(g) - (FreshTurns(g) - keep)
      BY <1>2, <2>2, <2>3 DEF FreshTurns
    <2>5. FreshTurns(g) - (FreshTurns(g) - keep) = keep
      <3>1. FreshTurns(g) \in Nat
        BY <1>1, StartsFinite
      <3> QED
        BY <3>1
    <2> QED
      BY <1>9, <2>1, <2>4, <2>5, ShiftedTurns
  <1>15. FreshTurns(f) = keep + 1
    <2> DEFINE later == {i \in TurnStarts(f) : i > 2}
    <2>1. TurnStarts(f) = later \cup {1} /\ 1 \notin later
      <3>1. 1 \in TurnStarts(f) /\ 2 \notin TurnStarts(f)
        BY <1>7, <1>10, <1>12 DEF TurnStarts
      <3>2. TurnStarts(f) \subseteq 1..Len(f)
        BY <1>6, StartsFinite
      <3> QED
        BY <1>7, <3>1, <3>2
    <2>2. IsFiniteSet(later)
      <3>1. IsFiniteSet(TurnStarts(f))
        BY <1>6, StartsFinite
      <3> QED
        BY <3>1, FS_Subset
    <2>3. Cardinality(later) = keep
      BY <1>14
    <2> HIDE DEF later
    <2>4. Cardinality(later \cup {1}) = Cardinality(later) + 1
      BY <2>1, <2>2, FS_AddElement
    <2> QED
      BY <2>1, <2>3, <2>4 DEF FreshTurns
  <1> QED
    BY <1>6, <1>11, <1>12, <1>13, <1>15 DEF f

-----------------------------------------------------------------------------
(* The strategies, for histories of any length                             *)

\* Of a resumable history neither strategy ever proposes a cut the library would
\* reject (compaction_strategies.go:95-101, 184-189), whatever the history's
\* length, the turns to keep and the chunk.
THEOREM StrategiesSafe == Spec => []StrategiesAccepted
  <1>1. h \in Seq(Message \cup AnyMessage) => StrategiesAccepted
    <2> SUFFICES ASSUME h \in Seq(Message \cup AnyMessage), Resumable(h), NEW keep \in Keeps
                 PROVE  /\ HybridCut(h, keep) > 0 => ValidateHistory(Summarized(h, keep)) = 0
                        /\ \A chunk \in Chunks : ValidateHistory(Slid(h, keep, chunk)) = 0
      BY DEF StrategiesAccepted
    <2>1. keep \in Nat
      BY MCHistoryAssumption
    <2>2. HybridCut(h, keep) > 0 => ValidateHistory(Summarized(h, keep)) = 0
      BY <2>1, SummarizedFacts, Accepted
    <2>3. ASSUME NEW chunk \in Chunks PROVE ValidateHistory(Slid(h, keep, chunk)) = 0
      <3>1. chunk \in Nat
        BY MCHistoryAssumption
      <3> QED
        BY <2>1, <3>1, SlidFacts, Accepted
    <2> QED
      BY <2>2, <2>3
  <1> QED
    BY <1>1, Grown, PTL

\* The window keeps KeepTurns turns at least and less than a chunk more
\* (compaction_strategies.go:49-64).
THEOREM WindowBounded == Spec => []WindowBounds
  <1>1. h \in Seq(Message \cup AnyMessage) => WindowBounds
    <2> SUFFICES ASSUME h \in Seq(Message \cup AnyMessage),
                        NEW keep \in Keeps \ {0}, NEW chunk \in Chunks \ {0}
                 PROVE  LET kept == FreshTurns(Slid(h, keep, chunk))
                        IN  IF FreshTurns(h) < keep THEN kept = FreshTurns(h)
                                                    ELSE keep <= kept /\ kept < keep + chunk
      BY DEF WindowBounds
    <2> DEFINE n    == FreshTurns(h)
               drop == Drop(n, keep, chunk)
               kept == FreshTurns(Slid(h, keep, chunk))
    <2>1. keep \in Nat /\ keep > 0 /\ chunk \in Nat /\ chunk > 0
      BY MCHistoryAssumption
    <2>2. n \in Nat
      BY ShapedSeq, StartsFinite
    <2>3. kept = n - drop
      BY <2>1, SlidFacts
    <2> HIDE DEF n, kept
    <2>4. /\ drop \in Nat
          /\ drop # 0 => drop <= n - keep
          /\ n >= keep => n - keep < drop + chunk
      BY <2>1, <2>2, DropFacts
    <2> HIDE DEF drop
    <2>5. IF n < keep THEN kept = n ELSE keep <= kept /\ kept < keep + chunk
      BY <2>1, <2>2, <2>3, <2>4
    <2> QED
      BY <2>5 DEF n, kept
  <1> QED
    BY <1>1, Grown, PTL

\* The summary replaces everything but the retained turns and the answer that
\* closes the turn before them, which stay verbatim
\* (compaction_strategies.go:102-129).
THEOREM SummaryWindow == Spec => []SummaryKeepsWindow
  <1>1. h \in Seq(Message \cup AnyMessage) => SummaryKeepsWindow
    <2> SUFFICES ASSUME h \in Seq(Message \cup AnyMessage), Resumable(h),
                        NEW keep \in Keeps, HybridCut(h, keep) > 0
                 PROVE  LET g == Summarized(h, keep)
                        IN  /\ FreshTurns(g) = keep + 1 /\ g[2].role = "assistant"
                            /\ Tail(g) = SubSeq(h, Len(h) - Len(g) + 2, Len(h))
      BY DEF SummaryKeepsWindow
    <2>1. keep \in Nat
      BY MCHistoryAssumption
    <2> QED
      BY <2>1, SummarizedFacts
  <1> QED
    BY <1>1, Grown, PTL

-----------------------------------------------------------------------------
(* The window over time                                                    *)

LEMMA Quotients ==
    ASSUME NEW a \in Nat, NEW c \in Nat \ {0}
    PROVE  (a + 1) \div c \in {a \div c, (a \div c) + 1}
  <1> DEFINE p == a \div c
             q == (a + 1) \div c
  <1>1. p \in Nat /\ p * c \in Nat /\ p * c <= a /\ a < p * c + c
    BY Division
  <1>2. q \in Nat /\ q * c \in Nat /\ q * c <= a + 1 /\ a + 1 < q * c + c
    <2>1. a + 1 \in Nat
      OBVIOUS
    <2> QED
      BY <2>1, Division
  <1> HIDE DEF p, q
  <1>3. ~(q < p)
    <2> SUFFICES ASSUME q < p PROVE FALSE
      OBVIOUS
    <2>1. PICK d \in Nat : p = q + 1 + d
      <3>1. p - q - 1 \in Nat /\ p = q + 1 + (p - q - 1)
        BY <1>1, <1>2
      <3> QED
        BY <3>1
    <2>2. p * c = q * c + c + d * c /\ d * c \in Nat
      BY <1>1, <1>2, <2>1
    <2> QED
      BY <1>1, <1>2, <2>2
  <1>4. ~(q > p + 1)
    <2> SUFFICES ASSUME q > p + 1 PROVE FALSE
      OBVIOUS
    <2>1. PICK d \in Nat : q = p + 2 + d
      <3>1. q - p - 2 \in Nat /\ q = p + 2 + (q - p - 2)
        BY <1>1, <1>2
      <3> QED
        BY <3>1
    <2>2. q * c = p * c + c + c + d * c /\ d * c \in Nat
      BY <1>1, <1>2, <2>1
    <2> QED
      BY <1>1, <1>2, <2>2
  <1>5. q \in {p, p + 1}
    BY <1>1, <1>2, <1>3, <1>4
  <1> QED
    BY <1>5 DEF p, q

\* One more turn drops a chunk more or nothing more.
LEMMA DropStep ==
    ASSUME NEW n \in Nat, NEW keep \in Nat \ {0}, NEW chunk \in Nat \ {0}
    PROVE  Drop(n + 1, keep, chunk) - Drop(n, keep, chunk) \in {0, chunk}
  <1>1. ~(chunk < 1) /\ ~(keep <= 0)
    OBVIOUS
  <1>2. /\ Drop(n, keep, chunk) = IF n <= keep THEN 0 ELSE ((n - keep) \div chunk) * chunk
        /\ Drop(n + 1, keep, chunk)
             = IF n + 1 <= keep THEN 0 ELSE ((n + 1 - keep) \div chunk) * chunk
    BY <1>1 DEF Drop
  <1>3. CASE n < keep
    <2>1. n <= keep /\ n + 1 <= keep
      BY <1>3
    <2> QED
      BY <1>2, <2>1
  <1>4. CASE n >= keep
    <2> DEFINE a == n - keep
               p == a \div chunk
               q == (a + 1) \div chunk
    <2>1. a \in Nat /\ n + 1 - keep = a + 1 /\ ~(n + 1 <= keep)
      BY <1>4
    <2>2. p \in Nat /\ q \in {p, p + 1}
      BY <2>1, Quotients, Division
    <2>3. Drop(n, keep, chunk) = p * chunk
      <3>1. CASE n <= keep
        <4>1. a = 0
          BY <1>4, <3>1
        <4>2. 0 \div chunk = 0
          <5>1. 0 \div chunk \in Nat /\ (0 \div chunk) * chunk <= 0
            BY Division
          <5> HIDE DEF a, p, q
          <5> QED
            BY <5>1
        <4>3. p * chunk = 0
          BY <4>1, <4>2
        <4> QED
          BY <1>2, <3>1, <4>3
      <3>2. CASE ~(n <= keep)
        BY <1>2, <3>2
      <3> QED
        BY <3>1, <3>2
    <2>4. Drop(n + 1, keep, chunk) = q * chunk
      BY <1>2, <2>1
    <2> HIDE DEF a, p, q
    <2>5. (p + 1) * chunk = p * chunk + chunk /\ p * chunk \in Nat
      BY <2>2
    <2>6. q * chunk - p * chunk \in {0, chunk}
      BY <2>2, <2>5
    <2> QED
      BY <2>3, <2>4, <2>6
  <1> QED
    BY <1>3, <1>4

\* As many turns are cut off as the window drops.
LEMMA DroppedTurns ==
    ASSUME NEW g, Shaped(g), NEW keep \in Nat, NEW chunk \in Nat
    PROVE  Cardinality({s \in TurnStarts(g) : s <= SlidingCut(g, keep, chunk)})
             = Drop(FreshTurns(g), keep, chunk)
  <1> DEFINE cut  == SlidingCut(g, keep, chunk)
             drop == Drop(FreshTurns(g), keep, chunk)
             Out  == {s \in TurnStarts(g) : s <= cut}
  <1>1. /\ drop \in Nat /\ (drop = 0 => cut = 0)
        /\ drop # 0 => /\ cut \in Nat /\ cut + 1 \in TurnStarts(g)
                       /\ Cardinality(Below(g, cut + 1)) = drop
    BY SlidingCutFacts
  <1>2. TurnStarts(g) \subseteq 1..Len(g) /\ Len(g) \in Nat
    BY StartsFinite DEF Shaped
  <1> HIDE DEF cut, drop
  <1>3. CASE drop = 0
    <2>1. Out = {}
      BY <1>1, <1>2, <1>3
    <2> QED
      BY <1>3, <2>1, FS_EmptySet DEF cut, drop
  <1>4. CASE drop # 0
    <2>1. Out = Below(g, cut + 1)
      BY <1>1, <1>2, <1>4 DEF Below
    <2> QED
      BY <1>1, <1>4, <2>1 DEF cut, drop
  <1> QED
    BY <1>3, <1>4

\* A message more is a fresh turn more or none.
LEMMA AppendedTurns ==
    ASSUME NEW S, NEW g \in Seq(S), NEW m \in S
    PROVE  FreshTurns(Append(g, m)) \in {FreshTurns(g), FreshTurns(g) + 1}
  <1> DEFINE f == Append(g, m)
             e == Len(g) + 1
  <1>1. /\ f \in Seq(S) /\ Len(f) = e /\ Len(g) \in Nat
        /\ \A i \in 1..Len(g) : f[i] = g[i]
    OBVIOUS
  <1>2. Shaped(f) /\ Shaped(g)
    BY <1>1, ShapedSeq
  <1> HIDE DEF f
  <1>3. /\ DOMAIN f = 1..e /\ DOMAIN g = 1..Len(g) /\ e \notin 1..Len(g)
        /\ 1..e = (1..Len(g)) \cup {e}
    BY <1>1, <1>2 DEF Shaped
  <1> HIDE DEF e
  <1>4. TurnStarts(f) \in {TurnStarts(g), TurnStarts(g) \cup {e}}
    BY <1>1, <1>3 DEF TurnStarts
  <1>5. e \notin TurnStarts(g) /\ IsFiniteSet(TurnStarts(g))
    BY <1>2, <1>3, StartsFinite
  <1>6. Cardinality(TurnStarts(g) \cup {e}) = Cardinality(TurnStarts(g)) + 1
    BY <1>5, FS_AddElement
  <1> QED
    BY <1>4, <1>6 DEF FreshTurns, f

\* As messages are appended the window stays where it is or moves by one whole
\* chunk, so a transient view keeps its prefix (S2.18, s2-functionality.md:911-914).
THEOREM WindowAdvances == Spec => WindowAdvancesInChunks
  <1> DEFINE Out(g, keep, chunk) ==
               {s \in TurnStarts(g) : s <= SlidingCut(g, keep, chunk)}
             Steady ==
               WellFormed(h') =>
                 \A keep \in Keeps \ {0}, chunk \in Chunks \ {0} :
                   LET dropped(g) == {s \in TurnStarts(g) : s <= SlidingCut(g, keep, chunk)}
                       more       == Cardinality(dropped(h')) - Cardinality(dropped(h))
                   IN  more \in {0, chunk}
  <1>1. h \in Seq(Message \cup AnyMessage) /\ [Next]_h => [Steady]_h
    <2> SUFFICES ASSUME h \in Seq(Message \cup AnyMessage), Next,
                        NEW keep \in Keeps \ {0}, NEW chunk \in Chunks \ {0}
                 PROVE  Cardinality(Out(h', keep, chunk))
                          - Cardinality(Out(h, keep, chunk)) \in {0, chunk}
      OBVIOUS
    <2>1. keep \in Nat \ {0} /\ chunk \in Nat \ {0}
      BY MCHistoryAssumption
    <2>2. PICK m \in Message \cup AnyMessage : h' = Append(h, m)
      <3>1. CASE AppendAny
        BY <3>1 DEF AppendAny
      <3>2. CASE AppendFormed
        <4>1. PICK ids \in SUBSET CallId :
                h' \in {Append(h, UserText(1)), Append(h, AssistantReply(1, ids)),
                        Append(h, ToolResults(1, ids))}
          BY <3>2 DEF AppendFormed
        <4>2. {UserText(1), AssistantReply(1, ids), ToolResults(1, ids)} \subseteq Message
          BY DEF UserText, AssistantReply, ToolResults, Message, Role
        <4> QED
          BY <4>1, <4>2
      <3> QED
        BY <3>1, <3>2 DEF Next
    <2>3. h' \in Seq(Message \cup AnyMessage)
      BY <2>2
    <2>4. Shaped(h) /\ Shaped(h')
      BY <2>3, ShapedSeq
    <2>5. FreshTurns(h') \in {FreshTurns(h), FreshTurns(h) + 1} /\ FreshTurns(h) \in Nat
      BY <2>2, <2>4, AppendedTurns, StartsFinite
    <2>6. /\ Cardinality(Out(h, keep, chunk)) = Drop(FreshTurns(h), keep, chunk)
          /\ Cardinality(Out(h', keep, chunk)) = Drop(FreshTurns(h'), keep, chunk)
      BY <2>1, <2>4, DroppedTurns
    <2>7. Drop(FreshTurns(h), keep, chunk) \in Nat
      BY <2>1, <2>5, DropFacts
    <2>8. Drop(FreshTurns(h'), keep, chunk) - Drop(FreshTurns(h), keep, chunk) \in {0, chunk}
      <3>1. CASE FreshTurns(h') = FreshTurns(h)
        BY <2>7, <3>1
      <3>2. CASE FreshTurns(h') = FreshTurns(h) + 1
        BY <2>1, <2>5, <3>2, DropStep
      <3> QED
        BY <2>5, <3>1, <3>2
    <2> QED
      BY <2>6, <2>8
  <1> QED
    BY <1>1, Grown, PTL DEF Spec, WindowAdvancesInChunks
=============================================================================
