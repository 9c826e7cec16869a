----------------------------- MODULE MCHistory -----------------------------
(***************************************************************************)
(* The algorithms of History over bounded histories, grown message by      *)
(* message: every sequence of at most MaxAny messages, also with a role    *)
(* the library does not know, with tool_result blocks in assistant         *)
(* messages and with tool_use blocks in user messages; and every           *)
(* well-formed one of at most MaxFormed, which is what the agent loop      *)
(* appends and what a committed compaction leaves.                         *)
(***************************************************************************)
EXTENDS History

CONSTANTS MaxAny, MaxFormed,   \* bounds: messages in a history
          Keeps,               \* KeepTurns values
          Chunks               \* AdvanceChunk values

ASSUME MCHistoryAssumption == Keeps \subseteq Nat /\ Chunks \subseteq Nat

VARIABLE h

AnyMessage == [role : Role \cup {"system"}, uses : SUBSET CallId,
               results : SUBSET CallId, text : {1}]

WellFormed(g) == Alternates(g) /\ UsesAnswered(g) /\ NoOrphans(g)

Init == h = <<>>

AppendAny ==
    /\ Len(h) < MaxAny
    /\ \E m \in AnyMessage : h' = Append(h, m)

AppendFormed ==
    /\ Len(h) < MaxFormed
    /\ \E ids \in SUBSET CallId :
         h' \in {Append(h, UserText(1)), Append(h, AssistantReply(1, ids)),
                 Append(h, ToolResults(1, ids))}
    /\ WellFormed(h')

Next == AppendAny \/ AppendFormed
Spec == Init /\ [][Next]_h

Slid(g, keep, chunk) == Composed(g, SlidingCut(g, keep, chunk), <<>>, Len(g))
Summarized(g, keep)  == Composed(g, HybridCut(g, keep), <<UserText(Summary)>>, Len(g))

\* validateHistory accepts exactly the histories that satisfy the five
\* resumption invariants of S2.15 (resumption.go:66-146); of any other it reports
\* a rule that is broken, an ordering rule before a pairing rule (60-64).
ValidatorExact ==
    LET r == ValidateHistory(h)
    IN  IF r = 0 THEN Resumable(h)
        ELSE /\ ~RuleHolds(h)[r]
             /\ r \in {3, 4, 5} => EndsResumably(h) /\ Alternates(h)

\* Of a resumable history neither strategy ever proposes a cut the library
\* would reject: none splits a tool_use from its tool_result
\* (compaction_strategies.go:95-101, 184-189).
StrategiesAccepted ==
    Resumable(h) =>
      \A keep \in Keeps :
        /\ HybridCut(h, keep) > 0 => ValidateHistory(Summarized(h, keep)) = 0
        /\ \A chunk \in Chunks : ValidateHistory(Slid(h, keep, chunk)) = 0

\* The window keeps KeepTurns turns at least and a chunk more at most
\* (compaction_strategies.go:49-64).
WindowBounds ==
    Resumable(h) =>
      \A keep \in Keeps \ {0}, chunk \in Chunks \ {0} :
        LET kept == FreshTurns(Slid(h, keep, chunk))
        IN  IF FreshTurns(h) < keep THEN kept = FreshTurns(h)
                                    ELSE keep <= kept /\ kept < keep + chunk

\* As messages are appended the window stays where it is or moves by one whole
\* chunk, so a transient view keeps its prefix (S2.18, s2-functionality.md:911-914).
WindowAdvancesInChunks ==
    [][WellFormed(h') =>
         \A keep \in Keeps \ {0}, chunk \in Chunks \ {0} :
           LET dropped(g) == {s \in TurnStarts(g) : s <= SlidingCut(g, keep, chunk)}
               more       == Cardinality(dropped(h')) - Cardinality(dropped(h))
           IN  more \in {0, chunk}]_h

\* The summary replaces everything but the retained turns and the answer that
\* closes the turn before them, which stay verbatim
\* (compaction_strategies.go:102-129).
SummaryKeepsWindow ==
    Resumable(h) =>
      \A keep \in Keeps :
        HybridCut(h, keep) > 0 =>
          LET g == Summarized(h, keep)
          IN  /\ FreshTurns(g) = keep + 1 /\ g[2].role = "assistant"
              /\ Tail(g) = SubSeq(h, Len(h) - Len(g) + 2, Len(h))
=============================================================================
