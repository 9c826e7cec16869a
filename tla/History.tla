------------------------------ MODULE History ------------------------------
(***************************************************************************)
(* Message histories of the go-agents library and the pure algorithms over *)
(* them: the resumption validator (agent/resumption.go), the fresh-turn    *)
(* boundaries and the cuts of the two library strategies                   *)
(* (agent/compaction_strategies.go), the rollback of ConversationState     *)
(* (agent/conversation.go) and the composition of a compacted prefix       *)
(* (agent/compaction.go).                                                  *)
(*                                                                         *)
(* A message keeps what those algorithms look at: its role, the IDs of its *)
(* tool_use blocks and the IDs answered by its tool_result blocks.  The    *)
(* field text identifies the prose: the number of the Run that produced it *)
(* or Summary for a generated summary.  Indices are 1-based here and       *)
(* 0-based in the code; a cut counts messages in both.                     *)
(***************************************************************************)
EXTENDS Integers, Sequences, FiniteSets, SequencesExt

CONSTANT CallId      \* tool-use IDs

Role    == {"user", "assistant"}
Summary == 0
Message == [role : Role, uses : SUBSET CallId, results : SUBSET CallId,
            text : Nat]

\* anthropic.NewUserMessage around a text block.
UserText(t) ==
    [role |-> "user", uses |-> {}, results |-> {}, text |-> t]

\* response.ToParam(): the assistant message of a completion.
AssistantReply(t, uses) ==
    [role |-> "assistant", uses |-> uses, results |-> {}, text |-> t]

\* The user message that carries one tool_result block per call.
ToolResults(t, ids) ==
    [role |-> "user", uses |-> {}, results |-> ids, text |-> t]

-----------------------------------------------------------------------------
(* agent/resumption.go: validateHistory                                    *)

OrderFault_AnyStart(h, i) ==
    h[i].role \notin Role \/ (i > 1 /\ h[i].role = h[i-1].role)

OrderFault(h, i) ==
    \/ h[i].role \notin Role
    \/ i = 1 /\ h[i].role # "user"
    \/ i > 1 /\ h[i].role = h[i-1].role

\* The pairing rule broken at message i, 0 when none is.
PairFault(h, i) ==
    IF h[i].role = "assistant"
      THEN IF i = Len(h) THEN IF h[i].uses # {} THEN 5 ELSE 0
           ELSE IF h[i].uses \subseteq h[i+1].results THEN 0 ELSE 3
      ELSE LET prevUses == IF i > 1 THEN h[i-1].uses ELSE {}
           IN  IF h[i].results \subseteq prevUses THEN 0 ELSE 4

PairFaults(h) == {i \in DOMAIN h : PairFault(h, i) # 0}

\* The rule a history violates, in the order the code looks; 0 accepts it.
ValidateHistory(h) ==
    IF h = <<>> THEN 0
    ELSE IF \E i \in DOMAIN h : OrderFault(h, i) THEN 2
    ELSE IF Last(h).role # "assistant" THEN 1
    ELSE IF PairFaults(h) = {} THEN 0
    ELSE PairFault(h, Min(PairFaults(h)))

-----------------------------------------------------------------------------
(* agent/conversation.go: Rollback; agent/compaction.go: the composed      *)
(* prefix that compactCommitted and transientMessages build                *)

Rollback(h, n) == IF n >= Len(h) THEN <<>> ELSE SubSeq(h, 1, Len(h) - n)

Composed(h, cut, replacement, limit) == replacement \o SubSeq(h, cut + 1, limit)

-----------------------------------------------------------------------------
(* agent/compaction_strategies.go                                          *)

TurnStarts_AnyUser(h) == {i \in DOMAIN h : h[i].role = "user"}

TurnStarts(h) == {i \in DOMAIN h : h[i].role = "user" /\ h[i].results = {}}

FreshTurns(h) == Cardinality(TurnStarts(h))

\* starts[k] of the code, for the 0-based k.
NthStart(h, k) ==
    CHOOSE s \in TurnStarts(h) : Cardinality({t \in TurnStarts(h) : t < s}) = k

Drop_EachTurn(n, keep, chunk) == IF keep <= 0 \/ n <= keep THEN 0 ELSE n - keep

Drop_CountsChunks(n, keep, chunk) ==
    LET step == IF chunk < 1 THEN 1 ELSE chunk
    IN  IF keep <= 0 \/ n <= keep THEN 0 ELSE (n - keep) \div step

Drop(n, keep, chunk) ==
    LET step == IF chunk < 1 THEN 1 ELSE chunk
    IN  IF keep <= 0 \/ n <= keep THEN 0 ELSE ((n - keep) \div step) * step

SlidingCut(h, keep, chunk) ==
    LET drop == Drop(FreshTurns(h), keep, chunk)
    IN  IF drop = 0 THEN 0 ELSE NthStart(h, drop) - 1

HybridCut_AtBoundary(h, keep) ==
    LET n == FreshTurns(h)
    IN  IF keep <= 0 \/ n <= keep THEN 0 ELSE NthStart(h, n - keep) - 1

HybridCut(h, keep) ==
    LET n == FreshTurns(h)
    IN  IF keep <= 0 \/ n <= keep THEN 0
        ELSE LET boundary == NthStart(h, n - keep) - 1
             IN  IF boundary - 1 <= 0 THEN 0 ELSE boundary - 1

-----------------------------------------------------------------------------
(* The reference: the five resumption invariants of S2.15, in the words of *)
(* requirements/system/s2-functionality.md, independent of the scan above. *)

EndsResumably(h) == h = <<>> \/ h[Len(h)].role = "assistant"            \* 1
Alternates(h)    == \A i \in DOMAIN h :
                      h[i].role = IF i % 2 = 1 THEN "user" ELSE "assistant" \* 2
UsesAnswered(h)  == \A i \in DOMAIN h :                                 \* 3
                      h[i].role = "assistant" /\ i < Len(h)
                        => h[i].uses \subseteq h[i+1].results
NoOrphans(h)     == \A i \in DOMAIN h :                                 \* 4
                      h[i].role = "user" /\ h[i].results # {}
                        => i > 1 /\ h[i].results \subseteq h[i-1].uses
NoneUnresolved(h) ==                                                    \* 5
    h # <<>> /\ h[Len(h)].role = "assistant" => h[Len(h)].uses = {}

Resumable(h) ==
    EndsResumably(h) /\ Alternates(h) /\ UsesAnswered(h) /\ NoOrphans(h)
      /\ NoneUnresolved(h)

RuleHolds(h) == <<EndsResumably(h), Alternates(h), UsesAnswered(h),
                  NoOrphans(h), NoneUnresolved(h)>>
=============================================================================
