-------------------------- MODULE AgentLoopProofs --------------------------
(***************************************************************************)
(* Proofs about AgentLoop, for every set of tool-use IDs, iteration limit, *)
(* compaction configuration, strategy, context window and environment:     *)
(* what a strategy proposes is unconstrained but for its type.             *)
(*                                                                         *)
(* The rollback anchor is inductive with the types and one more fact: on   *)
(* its first turn a Run has appended its user message and nothing else, so *)
(* that taking back one message takes back all of the Run.                 *)
(*                                                                         *)
(* The message protocol, in the second half, is kept by every Run: no      *)
(* tool_result loses the tool_use it answers, every request is one the API *)
(* accepts, and what is committed between Runs can be resumed.  Both       *)
(* properties are chains: a condition on the first message and one on each *)
(* pair of neighbours.  Rolling back shortens a chain, an append adds a    *)
(* link, and a compaction joins two chains: a new prefix, which the        *)
(* validator found resumable, and the Run's own messages.                  *)
(*                                                                         *)
(* The next part is the refinement of TurnLog.  What a compaction takes    *)
(* from the history it adds to the archive, and what it puts in its place  *)
(* are summaries, which Verbatim leaves out: since Verbatim goes through a *)
(* concatenation, archive and history together say what they said.         *)
(*                                                                         *)
(* That requests fit is a count.  No message is far from the start of its  *)
(* turn (Dense), so a history of few turns is short; the window bounds the *)
(* turns, the iteration limit the turn, and the last answer reported the   *)
(* size of what the current Run has not written since (Measured).          *)
(***************************************************************************)
EXTENDS AgentLoop, HistoryLemmas, SequenceTheorems, TLAPS

FirstTurn ==
    pc \in {"head", "hook", "call", "retry"} /\ turn = 0
      => Len(conversation) = startLen + 1

LoopInv == TypeOK /\ RollbackAnchor /\ FirstTurn

-----------------------------------------------------------------------------
(* Facts about histories and proposals                                     *)

LEMMA MessageTypes ==
    /\ \A t \in Nat : UserText(t) \in Message
    /\ \A t \in Nat, ids \in SUBSET CallId :
         AssistantReply(t, ids) \in Message /\ ToolResults(t, ids) \in Message
  BY DEF UserText, AssistantReply, ToolResults, Message, Role

LEMMA PrefixFacts ==
    ASSUME NEW S, NEW s \in Seq(S), NEW n \in 0..Len(s)
    PROVE  /\ SubSeq(s, 1, n) \in Seq(S) /\ Len(SubSeq(s, 1, n)) = n
           /\ \A i \in 1..n : SubSeq(s, 1, n)[i] = s[i]
  <1>1. n \in Int /\ 1 \in Int /\ \A i \in 1..n : s[i] \in S
    BY ElementOfSeq
  <1>2. /\ SubSeq(s, 1, n) \in Seq(S)
        /\ Len(SubSeq(s, 1, n)) = IF 1 <= n THEN n - 1 + 1 ELSE 0
        /\ \A i \in 1..n - 1 + 1 : SubSeq(s, 1, n)[i] = s[1 + i - 1]
    BY <1>1, SubSeqProperties
  <1> QED
    BY <1>1, <1>2

LEMMA SuffixFacts ==
    ASSUME NEW S, NEW s \in Seq(S), NEW n \in 0..Len(s), NEW m \in n..Len(s)
    PROVE  /\ SubSeq(s, n + 1, m) \in Seq(S) /\ Len(SubSeq(s, n + 1, m)) = m - n
           /\ \A i \in 1..m - n : SubSeq(s, n + 1, m)[i] = s[n + i]
  <1>1. n + 1 \in Int /\ m \in Int /\ \A i \in n + 1..m : s[i] \in S
    BY ElementOfSeq
  <1>2. /\ SubSeq(s, n + 1, m) \in Seq(S)
        /\ Len(SubSeq(s, n + 1, m)) = IF n + 1 <= m THEN m - (n + 1) + 1 ELSE 0
        /\ \A i \in 1..m - (n + 1) + 1 : SubSeq(s, n + 1, m)[i] = s[n + 1 + i - 1]
    BY <1>1, SubSeqProperties
  <1> QED
    BY <1>1, <1>2

LEMMA RollbackFacts ==
    ASSUME NEW S, NEW s \in Seq(S), NEW n \in Nat
    PROVE  /\ Rollback(s, n) \in Seq(S)
           /\ n <= Len(s) => Rollback(s, n) = SubSeq(s, 1, Len(s) - n)
  <1>1. CASE n >= Len(s)
    <2>1. n <= Len(s) => SubSeq(s, 1, Len(s) - n) = << >>
      BY <1>1, SubSeqEmpty
    <2> QED
      BY <1>1, <2>1 DEF Rollback
  <1>2. CASE n < Len(s)
    BY <1>2, PrefixFacts DEF Rollback
  <1> QED
    BY <1>1, <1>2

LEMMA SpliceFacts ==
    ASSUME NEW S, NEW c \in Seq(S), NEW f \in Seq(S)
    PROVE  /\ c \o f \in Seq(S) /\ Len(c \o f) = Len(c) + Len(f)
           /\ SubSeq(c \o f, 1, Len(c)) = c
           /\ SubSeq(c \o f, Len(c) + 1, Len(c \o f)) = f
           /\ Len(f) > 0 => (c \o f)[Len(c) + 1] = f[1]
  <1> DEFINE new == c \o f
             n   == Len(c)
  <1>1. Len(c) \in Nat /\ Len(f) \in Nat
    BY LenProperties
  <1>2. /\ new \in Seq(S) /\ Len(new) = Len(c) + Len(f)
        /\ \A i \in 1..Len(c) + Len(f) : new[i] = IF i <= Len(c) THEN c[i] ELSE f[i - Len(c)]
    BY ConcatProperties
  <1> HIDE DEF new
  <1>3. SubSeq(new, 1, n) = c
    <2>1. /\ SubSeq(new, 1, n) \in Seq(S) /\ Len(SubSeq(new, 1, n)) = n
          /\ \A i \in 1..n : SubSeq(new, 1, n)[i] = new[i]
      BY <1>1, <1>2, PrefixFacts
    <2>2. \A i \in 1..n : new[i] = c[i]
      BY <1>1, <1>2
    <2> QED
      BY <2>1, <2>2, SeqEqual
  <1>4. SubSeq(new, n + 1, Len(new)) = f
    <2>1. n \in 0..Len(new) /\ Len(new) \in n..Len(new) /\ Len(new) - n = Len(f)
      BY <1>1, <1>2
    <2>2. /\ SubSeq(new, n + 1, Len(new)) \in Seq(S)
          /\ Len(SubSeq(new, n + 1, Len(new))) = Len(f)
          /\ \A i \in 1..Len(f) : SubSeq(new, n + 1, Len(new))[i] = new[n + i]
      <3> HIDE DEF n
      <3> QED
        BY <1>2, <2>1, SuffixFacts
    <2>3. \A i \in 1..Len(f) : new[n + i] = f[i]
      <3> TAKE i \in 1..Len(f)
      <3>1. n + i \in 1..Len(c) + Len(f) /\ ~(n + i <= Len(c)) /\ (n + i) - Len(c) = i
        BY <1>1
      <3> QED
        BY <1>2, <3>1
    <2> QED
      BY <2>2, <2>3, SeqEqual
  <1>5. Len(f) > 0 => new[Len(c) + 1] = f[1]
    <2>1. Len(f) > 0 => /\ Len(c) + 1 \in 1..Len(c) + Len(f) /\ ~(Len(c) + 1 <= Len(c))
                        /\ (Len(c) + 1) - Len(c) = 1
      BY <1>1
    <2> QED
      BY <1>2, <2>1
  <1> QED
    BY <1>2, <1>3, <1>4, <1>5 DEF new

\* A legal cut of the first limit messages of h, and the history that replaces
\* h: the messages past limit follow, unchanged.
LEMMA ComposedFacts ==
    ASSUME NEW h \in Seq(Message), NEW limit \in 0..Len(h), NEW cut \in 0..limit,
           NEW r \in Seq(Message)
    PROVE  LET c    == Composed(h, cut, r, limit)
               f    == SubSeq(h, limit + 1, Len(h))
               size == limit - cut + Len(r)
           IN  /\ c \in Seq(Message) /\ Len(c) = size /\ size \in Nat
               /\ c \o f \in Seq(Message) /\ Len(c \o f) = size + (Len(h) - limit)
               /\ SubSeq(c \o f, 1, size) = c
               /\ SubSeq(c \o f, size + 1, Len(c \o f)) = f
               /\ limit < Len(h) => (c \o f)[size + 1] = h[limit + 1]
  <1> DEFINE c    == Composed(h, cut, r, limit)
             f    == SubSeq(h, limit + 1, Len(h))
             size == limit - cut + Len(r)
  <1>1. /\ Len(h) \in Nat /\ limit \in Nat /\ cut \in Nat
        /\ cut <= limit /\ limit <= Len(h) /\ Len(r) \in Nat
    BY LenProperties
  <1>2. /\ SubSeq(h, cut + 1, limit) \in Seq(Message)
        /\ Len(SubSeq(h, cut + 1, limit)) = limit - cut
    <2>1. cut \in 0..Len(h) /\ limit \in cut..Len(h)
      BY <1>1
    <2> QED
      BY <2>1, SuffixFacts
  <1>3. c \in Seq(Message) /\ Len(c) = size /\ size \in Nat
    <2>1. c \in Seq(Message) /\ Len(c) = Len(r) + (limit - cut)
      BY <1>2, ConcatProperties DEF Composed
    <2> QED
      BY <2>1, <1>1
  <1>4. /\ f \in Seq(Message) /\ Len(f) = Len(h) - limit
        /\ limit < Len(h) => f[1] = h[limit + 1]
    <2>1. Len(h) \in limit..Len(h)
      BY <1>1
    <2>2. /\ f \in Seq(Message) /\ Len(f) = Len(h) - limit
          /\ \A i \in 1..Len(h) - limit : f[i] = h[limit + i]
      BY <2>1, SuffixFacts
    <2>3. limit < Len(h) => 1 \in 1..Len(h) - limit
      BY <1>1
    <2> QED
      BY <2>2, <2>3
  <1>5. limit < Len(h) => Len(f) > 0
    BY <1>1, <1>4
  <1> HIDE DEF c, f
  <1>6. /\ c \o f \in Seq(Message) /\ Len(c \o f) = Len(c) + Len(f)
        /\ SubSeq(c \o f, 1, Len(c)) = c
        /\ SubSeq(c \o f, Len(c) + 1, Len(c \o f)) = f
        /\ Len(f) > 0 => (c \o f)[Len(c) + 1] = f[1]
    BY <1>3, <1>4, SpliceFacts
  <1>7. /\ c \in Seq(Message) /\ Len(c) = size /\ size \in Nat
        /\ c \o f \in Seq(Message) /\ Len(c \o f) = size + (Len(h) - limit)
        /\ SubSeq(c \o f, 1, size) = c
        /\ SubSeq(c \o f, size + 1, Len(c \o f)) = f
        /\ limit < Len(h) => (c \o f)[size + 1] = h[limit + 1]
    <2> HIDE DEF size
    <2> QED
      BY <1>3, <1>4, <1>5, <1>6
  <1> QED
    BY <1>7 DEF c, f

\* What any strategy may answer.
LEMMA ProposalFacts ==
    ASSUME NEW prefix, NEW p \in Proposals(compaction, prefix)
    PROVE  p.replacement \in Seq(Message) /\ p.usage \in Nat
  <1>1. <<UserText(Summary)>> \in Seq(Message) /\ << >> \in Seq(Message)
    BY MessageTypes DEF Summary
  <1>2. ASSUME NEW ok, NEW cut, NEW r \in Seq(Message), NEW u \in Nat,
               p = Proposed(ok, cut, r, u)
        PROVE  p.replacement \in Seq(Message) /\ p.usage \in Nat
    BY <1>2 DEF Proposed
  <1>3. CASE p \in CustomProposals
    BY <1>3, ConstantsAssumption
  <1>4. ASSUME NEW cut, p \in SummaryProposals(cut)
        PROVE  p.replacement \in Seq(Message) /\ p.usage \in Nat
    <2>1. \/ p = Proposed(TRUE, cut, <<UserText(Summary)>>, 1)
          \/ p = Proposed(FALSE, 0, << >>, 0)
          \/ p = Proposed(FALSE, 0, << >>, 1)
      BY <1>4, Zenon DEF SummaryProposals
    <2>2. 0 \in Nat /\ 1 \in Nat
      OBVIOUS
    <2> QED
      BY <1>1, <1>2, <2>1, <2>2, Zenon
  <1>5. ASSUME NEW cut, p = Proposed(TRUE, cut, << >>, 0)
        PROVE  p.replacement \in Seq(Message) /\ p.usage \in Nat
    BY <1>1, <1>2, <1>5
  <1>6. CASE compaction.kind = "sliding"
    <2>1. p = Proposed(TRUE, SlidingCut(prefix, compaction.keep, compaction.chunk), << >>, 0)
      BY <1>6 DEF Proposals
    <2> QED
      BY <2>1, <1>5
  <1>7. CASE compaction.kind = "hybrid"
    <2> DEFINE cut == HybridCut(prefix, compaction.keep)
    <2>1. IF cut = 0 THEN p = Proposed(TRUE, 0, << >>, 0) ELSE p \in SummaryProposals(cut)
      BY <1>7 DEF Proposals
    <2> QED
      BY <2>1, <1>4, <1>5
  <1>8. CASE compaction.kind \notin {"sliding", "hybrid"}
    BY <1>8, <1>3 DEF Proposals
  <1> QED
    BY <1>6, <1>7, <1>8
-----------------------------------------------------------------------------
(* What the pieces shared by the actions do to the state                   *)

LEMMA ReturnFacts ==
    ASSUME TypeOK, NEW how \in Outcomes, Return(how)
    PROVE  /\ pc' = "idle" /\ startLen' \in Nat /\ turn' \in Nat
           /\ request' \in Request /\ calls' \in SUBSET CallId
           /\ cancelled' \in BOOLEAN
           /\ outcome' \in Outcomes /\ outcomes' \in SUBSET Outcomes
  <1>1. NoRequest \in Request
    <2>1. << >> \in Seq(Message)
      OBVIOUS
    <2> QED
      BY <2>1 DEF NoRequest, Request
  <1>2. outcomes' \in SUBSET Outcomes
    BY DEF Return, TypeOK
  <1> QED
    BY <1>1, <1>2 DEF Return

LEMMA CommitFacts ==
    ASSUME TypeOK, NEW m \in Message, Commit(<<m>>)
    PROVE  /\ conversation' \in Seq(Message)
           /\ Len(conversation') = Len(conversation) + 1
           /\ conversation'[Len(conversation) + 1] = m
           /\ \A i \in 1..Len(conversation) : conversation'[i] = conversation[i]
           /\ \A n \in 0..Len(conversation) :
                SubSeq(conversation', 1, n) = SubSeq(conversation, 1, n)
  <1>1. conversation \in Seq(Message)
    BY DEF TypeOK
  <1>2. <<m>> \in Seq(Message) /\ Len(<<m>>) = 1 /\ <<m>>[1] = m
    OBVIOUS
  <1>3. Len(conversation) \in Nat
    BY <1>1, LenProperties
  <1>4. /\ conversation' \in Seq(Message)
        /\ Len(conversation') = Len(conversation) + 1
        /\ \A i \in 1..Len(conversation) + 1 :
             conversation'[i] = IF i <= Len(conversation) THEN conversation[i]
                                ELSE <<m>>[i - Len(conversation)]
    BY <1>1, <1>2, ConcatProperties DEF Commit
  <1>5. \A i \in 1..Len(conversation) : conversation'[i] = conversation[i]
    BY <1>3, <1>4
  <1>6. conversation'[Len(conversation) + 1] = m
    <2>1. /\ Len(conversation) + 1 \in 1..Len(conversation) + 1
          /\ ~(Len(conversation) + 1 <= Len(conversation))
          /\ (Len(conversation) + 1) - Len(conversation) = 1
      BY <1>3
    <2> QED
      BY <1>2, <1>4, <2>1
  <1>7. ASSUME NEW n \in 0..Len(conversation)
        PROVE  SubSeq(conversation', 1, n) = SubSeq(conversation, 1, n)
    <2>1. n \in 0..Len(conversation')
      BY <1>3, <1>4
    <2>2. /\ SubSeq(conversation, 1, n) \in Seq(Message)
          /\ Len(SubSeq(conversation, 1, n)) = n
          /\ \A i \in 1..n : SubSeq(conversation, 1, n)[i] = conversation[i]
      BY <1>1, PrefixFacts
    <2>3. /\ SubSeq(conversation', 1, n) \in Seq(Message)
          /\ Len(SubSeq(conversation', 1, n)) = n
          /\ \A i \in 1..n : SubSeq(conversation', 1, n)[i] = conversation'[i]
      BY <1>4, <2>1, PrefixFacts
    <2>4. \A i \in 1..n : conversation'[i] = conversation[i]
      BY <1>3, <1>5
    <2> QED
      BY <2>2, <2>3, <2>4, SeqEqual
  <1> QED
    BY <1>4, <1>5, <1>6, <1>7

LEMMA RemoveFacts ==
    ASSUME TypeOK, NEW n \in Nat, RemoveLast(n)
    PROVE  /\ conversation' \in Seq(Message)
           /\ n <= Len(conversation)
                => conversation' = SubSeq(conversation, 1, Len(conversation) - n)
  BY RollbackFacts DEF RemoveLast, TypeOK

\* Both ways to fail leave types alone; the first turn takes back one message.
LEMMA FailFacts ==
    ASSUME TypeOK, FailCall
    PROVE  /\ conversation' \in Seq(Message)
           /\ \E how \in Outcomes : Return(how)
           /\ outcome' = "failed_first" => turn = 0 /\ RemoveLast(1)
  <1>1. CASE turn = 0
    BY <1>1, RemoveFacts DEF FailCall, Outcomes
  <1>2. CASE turn # 0
    <2>1. Return("failed_midloop") /\ UNCHANGED conversation
      BY <1>2 DEF FailCall
    <2> QED
      BY <1>2, <2>1 DEF TypeOK, Outcomes, Unclean, Return
  <1> QED
    BY <1>1, <1>2

LEMMA AbortFacts ==
    ASSUME TypeOK, RollbackAnchor, pc # "idle", AbortRun
    PROVE  /\ conversation' \in Seq(Message)
           /\ Return("aborted") /\ "aborted" \in Outcomes
           /\ conversation' = base
  <1>1. /\ Len(conversation) \in Nat /\ startLen \in Nat /\ startLen < Len(conversation)
        /\ SubSeq(conversation, 1, startLen) = base
    BY LenProperties DEF TypeOK, RollbackAnchor, Prefix
  <1>2. /\ Len(conversation) - startLen \in Nat
        /\ Len(conversation) - startLen <= Len(conversation)
        /\ Len(conversation) - (Len(conversation) - startLen) = startLen
    BY <1>1
  <1> QED
    BY <1>1, <1>2, RemoveFacts DEF AbortRun, Outcomes

LEMMA UsageFacts ==
    ASSUME TypeOK, NEW u \in Nat, NEW b \in BOOLEAN, AddUsage(u, b)
    PROVE  usage' \in [cumulative : Nat, lastRun : Nat]
  <1>1. usage.cumulative + u \in Nat /\ usage.lastRun + u \in Nat /\ usage.lastRun \in Nat
    <2>1. usage \in [cumulative : Nat, lastRun : Nat]
      BY DEF TypeOK
    <2>2. usage.cumulative \in Nat /\ usage.lastRun \in Nat
      BY <2>1
    <2> QED
      BY <2>2
  <1> QED
    BY <1>1 DEF AddUsage

\* The conversation and the anchor after a strategy was applied, for good or to
\* the request only: the Run's own messages follow a prefix that is the base.
LEMMA ApplyFacts ==
    ASSUME LoopInv, pc # "idle", NEW p \in Proposals(compaction, Prefix(startLen)),
           ~Rejected(p, startLen), ApplyForRequest(p)
    PROVE  /\ conversation' \in Seq(Message) /\ archive' \in Seq(Message)
           /\ startLen' \in Nat /\ lastCallInputTokens' \in Nat
           /\ base' \in Seq(Message) /\ calledSince' \in BOOLEAN
           /\ request' \in Request
           /\ startLen' < Len(conversation') /\ SubSeq(conversation', 1, startLen') = base'
           /\ conversation'[startLen' + 1] = conversation[startLen + 1]
           /\ Len(conversation') - startLen' = Len(conversation) - startLen
           /\ SubSeq(conversation', startLen' + 1, Len(conversation'))
                = SubSeq(conversation, startLen + 1, Len(conversation))
  <1>1. /\ conversation \in Seq(Message) /\ Len(conversation) \in Nat
        /\ startLen \in Nat /\ startLen < Len(conversation)
        /\ SubSeq(conversation, 1, startLen) = base
        /\ startLen \in 0..Len(conversation)
    BY LenProperties DEF LoopInv, TypeOK, RollbackAnchor, Prefix
  <1>2. p.replacement \in Seq(Message)
    BY ProposalFacts
  <1>3. ASSUME NEW msgs \in Seq(Message)
        PROVE  [msgs |-> msgs, modified |-> FALSE] \in Request
    BY DEF Request
  <1>4. CASE ~Applied(p, startLen)
    BY <1>1, <1>3, <1>4 DEF ApplyForRequest, LoopInv, TypeOK
  <1>5. CASE Applied(p, startLen)
    <2> DEFINE new  == Compacted(p, startLen) \o InFlight(startLen)
               size == startLen - p.cut + Len(p.replacement)
    <2>1. p.cut \in 0..startLen
      BY <1>5 DEF Applied, Rejected
    <2>2. /\ Compacted(p, startLen) \in Seq(Message)
          /\ Len(Compacted(p, startLen)) = size
          /\ size \in Nat /\ new \in Seq(Message)
          /\ Len(new) = size + (Len(conversation) - startLen)
          /\ SubSeq(new, 1, size) = Compacted(p, startLen)
          /\ SubSeq(new, size + 1, Len(new)) = InFlight(startLen)
          /\ new[size + 1] = conversation[startLen + 1]
      <3> DEFINE c == Composed(conversation, p.cut, p.replacement, startLen)
                 f == SubSeq(conversation, startLen + 1, Len(conversation))
      <3>1. Compacted(p, startLen) = c /\ InFlight(startLen) = f
        BY DEF Compacted, InFlight
      <3>2. /\ c \in Seq(Message) /\ Len(c) = size /\ size \in Nat
            /\ c \o f \in Seq(Message)
            /\ Len(c \o f) = size + (Len(conversation) - startLen)
            /\ SubSeq(c \o f, 1, size) = c
            /\ SubSeq(c \o f, size + 1, Len(c \o f)) = f
            /\ startLen < Len(conversation)
                 => (c \o f)[size + 1] = conversation[startLen + 1]
        BY <1>1, <1>2, <2>1, ComposedFacts
      <3> HIDE DEF c, f, size
      <3> QED
        BY <1>1, <3>1, <3>2
    <2> HIDE DEF new, size
    <2>3. CASE ~Committed(compaction)
      BY <1>1, <1>3, <1>5, <2>2, <2>3 DEF ApplyForRequest, LoopInv, TypeOK, new
    <2>4. CASE Committed(compaction)
      <3>1. /\ conversation' = new /\ startLen' = size /\ lastCallInputTokens' = 0
            /\ base' = Compacted(p, startLen) /\ calledSince' = FALSE
            /\ request' = [msgs |-> conversation', modified |-> FALSE]
            /\ archive' = IF compaction.archive THEN archive \o Delivered(p) ELSE archive
        BY <1>5, <2>4 DEF ApplyForRequest, ReplacePrefix, MovedAnchor,
                          SizeAfterCompaction, new, size
      <3>2. archive' \in Seq(Message)
        <4>1. p.cut \in 0..Len(conversation)
          BY <1>1, <2>1
        <4>2. Delivered(p) \in Seq(Message)
          BY <1>1, <4>1, PrefixFacts DEF Delivered, Prefix
        <4> QED
          BY <3>1, <4>2, ConcatProperties DEF LoopInv, TypeOK
      <3>3. request' \in Request
        BY <1>3, <2>2, <3>1
      <3>4. /\ startLen' < Len(conversation')
            /\ Len(conversation') - startLen' = Len(conversation) - startLen
        <4>1. ASSUME NEW l \in Nat, NEW t \in Nat, t < l, NEW z \in Nat,
                     NEW x, x = z + (l - t)
              PROVE  z < x /\ x - z = l - t
          BY <4>1
        <4>2. Len(new) = size + (Len(conversation) - startLen) /\ size \in Nat
          BY <2>2
        <4> QED
          BY <1>1, <3>1, <4>1, <4>2
      <3> QED
        BY <2>2, <3>1, <3>2, <3>3, <3>4 DEF InFlight
    <2> QED
      BY <2>3, <2>4
  <1> QED
    BY <1>4, <1>5

-----------------------------------------------------------------------------
(* The invariant                                                           *)

LEMMA InitInv == Init => LoopInv
  <1> SUFFICES ASSUME Init PROVE LoopInv
    OBVIOUS
  <1>1. << >> \in Seq(Message) /\ NoRequest \in Request
    <2>1. << >> \in Seq(Message)
      OBVIOUS
    <2> QED
      BY <2>1 DEF NoRequest, Request
  <1>2. usage \in [cumulative : Nat, lastRun : Nat]
    BY DEF Init
  <1> QED
    BY <1>1, <1>2 DEF Init, LoopInv, TypeOK, RollbackAnchor, FirstTurn, Outcomes

\* Accept appends the answer; the Run goes on to its tools or returns.
LEMMA AcceptFacts ==
    ASSUME TypeOK, NEW c \in Completions, Accept(c)
    PROVE  /\ conversation' \in Seq(Message)
           /\ \/ /\ pc' = "tools" /\ calls' \in SUBSET CallId /\ request' \in Request
                 /\ UNCHANGED <<startLen, turn, cancelled, outcome, outcomes>>
                 /\ Commit(<<AssistantReply(runs, c.uses)>>)
              \/ \E how \in Outcomes \ {"aborted", "failed_first"} : Return(how)
  <1>1. c.uses \in SUBSET CallId /\ runs \in Nat
    BY ConstantsAssumption DEF TypeOK
  <1>2. AssistantReply(runs, c.uses) \in Message
    BY <1>1, MessageTypes
  <1>3. conversation' \in Seq(Message)
    BY <1>2, CommitFacts DEF Accept
  <1>4. CASE c.stop = "tool_use" /\ c.uses # {}
    <2>1. NoRequest \in Request
      BY DEF NoRequest, Request
    <2> QED
      BY <1>1, <1>3, <1>4, <2>1 DEF Accept
  <1>5. CASE ~(c.stop = "tool_use" /\ c.uses # {})
    <2>1. /\ "completed" \in Outcomes \ {"aborted", "failed_first"}
          /\ "truncated" \in Outcomes \ {"aborted", "failed_first"}
      BY DEF Outcomes, Unclean
    <2>2. Return("completed") \/ Return("truncated")
      BY <1>5 DEF Accept
    <2> QED
      BY <1>3, <2>1, <2>2
  <1> QED
    BY <1>4, <1>5

\* A strategy's answer is accounted whatever becomes of it.
LEMMA SpentFacts ==
    ASSUME TypeOK, NEW prefix, NEW p \in Proposals(compaction, prefix),
           NEW b \in BOOLEAN, AddUsage(p.usage, b)
    PROVE  usage' \in [cumulative : Nat, lastRun : Nat]
  BY ProposalFacts, UsageFacts

\* A callback that panics leaves the conversation, archived or not.
LEMMA ArchivedFacts ==
    ASSUME TypeOK, NEW limit \in 0..Len(conversation), NEW p, Applied(p, limit),
           ArchivalPanics(p, limit)
    PROVE  UNCHANGED conversation /\ archive' \in Seq(Message)
  <1>1. /\ conversation \in Seq(Message) /\ archive \in Seq(Message)
        /\ Len(conversation) \in Nat
    BY LenProperties DEF TypeOK
  <1>2. p.cut \in 0..Len(conversation)
    BY <1>1 DEF Applied, Rejected
  <1>3. Delivered(p) \in Seq(Message)
    BY <1>1, <1>2, PrefixFacts DEF Delivered, Prefix
  <1>4. archive \o Delivered(p) \in Seq(Message)
    BY <1>1, <1>3, ConcatProperties
  <1> QED
    BY <1>1, <1>4 DEF ArchivalPanics

LEMMA TypeOKStep ==
    ASSUME LoopInv, [Next]_vars
    PROVE  TypeOK'
  <1> USE DEF LoopInv
  <1> DEFINE Local == /\ pc' \in {"idle", "head", "hook", "call", "retry", "tools"}
                      /\ startLen' \in Nat /\ turn' \in Nat /\ request' \in Request
                      /\ calls' \in SUBSET CallId /\ cancelled' \in BOOLEAN
                      /\ outcome' \in Outcomes /\ outcomes' \in SUBSET Outcomes
             Talk  == conversation' \in Seq(Message)
  <1>0. ASSUME NEW how \in Outcomes, Return(how) PROVE Local
    BY <1>0, ReturnFacts
  <1>1. CASE Exhausted
    <2>1. Return("exhausted") /\ "exhausted" \in Outcomes
      BY <1>1 DEF Exhausted, Outcomes, Unclean
    <2>2. Local
      BY <1>0, <2>1
    <2> QED
      BY <1>1, <2>2 DEF Exhausted, TypeOK, agent
  <1>2. CASE ContextDone
    <2>1. Return("cancelled") /\ "cancelled" \in Outcomes
      BY <1>2 DEF ContextDone, Outcomes, Unclean
    <2>2. Local
      BY <1>0, <2>1
    <2> QED
      BY <1>2, <2>2 DEF ContextDone, TypeOK, agent
  <1>3. CASE BuildRequest
    <2>1. request' \in Request
      BY <1>3 DEF BuildRequest, TypeOK, Request
    <2> QED
      BY <1>3, <2>1 DEF BuildRequest, TypeOK, agent, history
  <1>4. CASE ProactiveCompaction
    <2>1. PICK p \in Proposals(compaction, Prefix(startLen)) :
            /\ AddUsage(p.usage, TRUE)
            /\ IF Rejected(p, startLen)
                 THEN /\ FailCall
                      /\ UNCHANGED <<lastCallInputTokens, archive, base, calledSince>>
                 ELSE /\ ApplyForRequest(p)
                      /\ pc' = "hook"
                      /\ UNCHANGED <<turn, calls, cancelled, outcome, outcomes>>
      BY <1>4 DEF ProactiveCompaction
    <2>2. usage' \in [cumulative : Nat, lastRun : Nat]
      BY <2>1, SpentFacts
    <2>3. UNCHANGED <<compaction, runs>> /\ pc # "idle"
      BY <1>4 DEF ProactiveCompaction, AtHead
    <2>4. CASE Rejected(p, startLen)
      <3>1. Talk /\ Local
        BY <1>0, <2>1, <2>4, FailFacts
      <3> QED
        BY <2>1, <2>2, <2>3, <2>4, <3>1 DEF TypeOK
    <2>5. CASE ~Rejected(p, startLen)
      <3>1. /\ conversation' \in Seq(Message) /\ archive' \in Seq(Message)
            /\ startLen' \in Nat /\ lastCallInputTokens' \in Nat
            /\ base' \in Seq(Message) /\ calledSince' \in BOOLEAN
            /\ request' \in Request
        BY <2>1, <2>3, <2>5, ApplyFacts
      <3> QED
        BY <2>1, <2>2, <2>3, <2>5, <3>1 DEF TypeOK
    <2> QED
      BY <2>4, <2>5
  <1>5. CASE HookPasses
    <2>1. Rewritten \subseteq Request
      <3>1. \A m \in HookRequests : [msgs |-> m, modified |-> TRUE] \in Request
        BY ConstantsAssumption DEF Request
      <3> QED
        BY <3>1 DEF Rewritten
    <2>2. request' \in Request
      BY <1>5, <2>1 DEF HookPasses, TypeOK
    <2> QED
      BY <1>5, <2>2 DEF HookPasses, TypeOK, agent
  <1>6. CASE HookAborts
    <2>1. AbortRun /\ pc # "idle"
      BY <1>6 DEF HookAborts
    <2>2. Talk /\ Local
      BY <1>0, <2>1, AbortFacts
    <2> QED
      BY <1>6, <2>2 DEF HookAborts, TypeOK
  <1>7. CASE Substitute
    <2>1. PICK c \in Completions : Accept(c)
      BY <1>7 DEF Substitute
    <2>2. Talk /\ Local
      BY <1>0, <2>1, AcceptFacts DEF TypeOK
    <2> QED
      BY <1>7, <2>2 DEF Substitute, TypeOK
  <1>8. CASE Answered
    <2>1. PICK c \in Completions : Accept(c)
      BY <1>8 DEF Answered
    <2>2. Talk /\ Local
      BY <1>0, <2>1, AcceptFacts DEF TypeOK
    <2>3. usage' \in [cumulative : Nat, lastRun : Nat]
      BY <1>8, UsageFacts DEF Answered
    <2>4. lastCallInputTokens' \in Nat
      BY <1>8, LenProperties DEF Answered, TypeOK, Request
    <2> QED
      BY <1>8, <2>2, <2>3, <2>4 DEF Answered, TypeOK
  <1>9. CASE CallFails
    <2>1. Talk /\ Local
      BY <1>0, <1>9, FailFacts DEF CallFails
    <2> QED
      BY <1>9, <2>1 DEF CallFails, TypeOK
  <1>10. CASE CalloutPanics
    <2>1. Return("panicked") /\ "panicked" \in Outcomes
      BY <1>10 DEF CalloutPanics, Outcomes, Unclean
    <2>2. Local
      BY <1>0, <2>1
    <2> QED
      BY <1>10, <2>2 DEF CalloutPanics, TypeOK, agent
  <1>11. CASE OverflowFails
    <2>1. Talk /\ Local
      BY <1>0, <1>11, FailFacts DEF OverflowFails
    <2> QED
      BY <1>11, <2>1 DEF OverflowFails, TypeOK
  <1>12. CASE ReactiveCompaction
    <2>1. PICK p \in Proposals(compaction, Prefix(startLen)) :
            /\ AddUsage(p.usage, TRUE)
            /\ IF Applied(p, startLen)
                 THEN /\ ApplyForRequest(p)
                      /\ pc' = "retry"
                      /\ UNCHANGED <<turn, calls, cancelled, outcome, outcomes>>
                 ELSE /\ FailCall
                      /\ calledSince' = TRUE
                      /\ UNCHANGED <<lastCallInputTokens, archive, base>>
      BY <1>12 DEF ReactiveCompaction
    <2>2. usage' \in [cumulative : Nat, lastRun : Nat]
      BY <2>1, SpentFacts
    <2>3. UNCHANGED <<compaction, runs>> /\ pc # "idle"
      BY <1>12 DEF ReactiveCompaction, MayCompact
    <2>4. CASE ~Applied(p, startLen)
      <3>1. Talk /\ Local
        BY <1>0, <2>1, <2>4, FailFacts
      <3> QED
        BY <2>1, <2>2, <2>3, <2>4, <3>1 DEF TypeOK
    <2>5. CASE Applied(p, startLen)
      <3>1. /\ conversation' \in Seq(Message) /\ archive' \in Seq(Message)
            /\ startLen' \in Nat /\ lastCallInputTokens' \in Nat
            /\ base' \in Seq(Message) /\ calledSince' \in BOOLEAN
            /\ request' \in Request
        BY <2>1, <2>3, <2>5, ApplyFacts DEF Applied
      <3> QED
        BY <2>1, <2>2, <2>3, <2>5, <3>1 DEF TypeOK
    <2> QED
      BY <2>4, <2>5
  <1>13. CASE BatchDone
    <2>1. ToolResults(runs, calls) \in Message
      BY MessageTypes DEF TypeOK
    <2>2. Talk
      BY <1>13, <2>1, CommitFacts DEF BatchDone
    <2> QED
      BY <1>13, <2>2 DEF BatchDone, TypeOK, NextTurn
  <1>14. CASE BatchAborts
    <2>1. AbortRun /\ pc # "idle"
      BY <1>14 DEF BatchAborts
    <2>2. Talk /\ Local
      BY <1>0, <2>1, AbortFacts
    <2> QED
      BY <1>14, <2>2 DEF BatchAborts, TypeOK
  <1>15. CASE StartRun
    <2>1. UserText(runs + 1) \in Message /\ Len(conversation) \in Nat
      BY MessageTypes, LenProperties DEF TypeOK
    <2>2. Talk
      BY <1>15, <2>1, CommitFacts DEF StartRun
    <2>3. usage' \in [cumulative : Nat, lastRun : Nat]
      BY <1>15 DEF StartRun, TypeOK
    <2>4. /\ pc' = "head" /\ runs' = runs + 1 /\ startLen' = Len(conversation)
          /\ base' = conversation /\ turn' = 0
          /\ UNCHANGED <<compaction, lastCallInputTokens, request, calls, cancelled,
                         archive, outcome, outcomes, calledSince>>
      BY <1>15 DEF StartRun
    <2>5. /\ pc' \in {"idle", "head", "hook", "call", "retry", "tools"}
          /\ runs' \in Nat /\ startLen' \in Nat /\ turn' \in Nat
          /\ base' \in Seq(Message)
      BY <2>1, <2>4 DEF TypeOK
    <2> HIDE DEF LoopInv
    <2>6. TypeOK
      BY DEF LoopInv
    <2> QED
      BY <2>2, <2>3, <2>4, <2>5, <2>6 DEF TypeOK
  <1>16. CASE ManualCompact
    <2>1. PICK p \in Proposals(compaction, conversation) :
            /\ AddUsage(p.usage, FALSE)
            /\ \/ UNCHANGED <<conversation, archive, calledSince>>
               \/ /\ Applied(p, Len(conversation))
                  /\ \/ ArchivalPanics(p, Len(conversation)) /\ UNCHANGED calledSince
                     \/ ReplacePrefix(p, Len(conversation))
      BY <1>16 DEF ManualCompact
    <2>2. usage' \in [cumulative : Nat, lastRun : Nat]
      BY <2>1, SpentFacts
    <2>3. CASE UNCHANGED <<conversation, archive, calledSince>>
      BY <1>16, <2>1, <2>2, <2>3 DEF ManualCompact, TypeOK, locals
    <2>4. CASE Applied(p, Len(conversation)) /\ ArchivalPanics(p, Len(conversation))
                 /\ UNCHANGED calledSince
      <3>1. Len(conversation) \in 0..Len(conversation)
        BY LenProperties DEF TypeOK
      <3>2. UNCHANGED conversation /\ archive' \in Seq(Message)
        BY <2>4, <3>1, ArchivedFacts DEF TypeOK
      <3> QED
        BY <1>16, <2>2, <2>4, <3>2 DEF ManualCompact, TypeOK, locals
    <2>5. CASE Applied(p, Len(conversation)) /\ ReplacePrefix(p, Len(conversation))
      <3>1. /\ conversation \in Seq(Message) /\ Len(conversation) \in Nat
            /\ Len(conversation) \in 0..Len(conversation)
            /\ p.cut \in 0..Len(conversation) /\ p.replacement \in Seq(Message)
        BY <2>5, ProposalFacts, LenProperties DEF TypeOK, Applied, Rejected
      <3>2. conversation' \in Seq(Message)
        <4> DEFINE n == Len(conversation)
                   c == Composed(conversation, p.cut, p.replacement, n)
                   f == SubSeq(conversation, n + 1, n)
        <4>1. c \o f \in Seq(Message)
          BY <3>1, ComposedFacts
        <4>2. conversation' = c \o f
          BY <2>1, <2>5 DEF ReplacePrefix, Compacted, InFlight
        <4> QED
          BY <4>1, <4>2
      <3>3. Delivered(p) \in Seq(Message)
        BY <3>1, PrefixFacts DEF Delivered, Prefix
      <3>4. archive' \in Seq(Message)
        <4>1. archive' = IF compaction.archive THEN archive \o Delivered(p) ELSE archive
          BY <2>1, <2>5 DEF ReplacePrefix
        <4>2. archive \in Seq(Message)
          BY DEF TypeOK
        <4> QED
          BY <3>3, <4>1, <4>2, ConcatProperties
      <3>5. calledSince' \in BOOLEAN
        BY <2>1, <2>5 DEF ReplacePrefix
      <3> QED
        BY <1>16, <2>2, <3>2, <3>4, <3>5 DEF ManualCompact, TypeOK, locals
    <2> QED
      BY <2>1, <2>3, <2>5, <2>4
  <1>17. CASE SetCompaction
    BY <1>17 DEF SetCompaction, TypeOK, locals, history
  <1>18. CASE Resume
    <2>1. usage' \in [cumulative : Nat, lastRun : Nat]
      BY <1>18 DEF Resume
    <2> QED
      BY <1>18, <2>1 DEF Resume, TypeOK, locals
  <1>19. CASE Cancel
    BY <1>19 DEF Cancel, TypeOK, agent, history
  <1>20. CASE UNCHANGED vars
    BY <1>20 DEF vars, agent, locals, history, TypeOK
  <1>21. CASE ArchivePanics
    <2>1. PICK p \in Proposals(compaction, Prefix(startLen)) :
            /\ Applied(p, startLen) /\ AddUsage(p.usage, TRUE)
            /\ ArchivalPanics(p, startLen)
      BY <1>21 DEF ArchivePanics
    <2>2. usage' \in [cumulative : Nat, lastRun : Nat]
      BY <2>1, SpentFacts
    <2>3. pc # "idle" /\ Return("panicked") /\ "panicked" \in Outcomes
      BY <1>21 DEF ArchivePanics, AtHead, MayCompact, Outcomes, Unclean
    <2>4. Local
      BY <1>0, <2>3
    <2>5. startLen \in 0..Len(conversation)
      BY <2>3, LenProperties DEF TypeOK, RollbackAnchor
    <2>6. UNCHANGED conversation /\ archive' \in Seq(Message)
      BY <2>1, <2>5, ArchivedFacts DEF TypeOK
    <2>7. /\ calledSince' \in BOOLEAN
          /\ UNCHANGED <<compaction, lastCallInputTokens, runs, base>>
      BY <1>21 DEF ArchivePanics, TypeOK
    <2> QED
      BY <2>2, <2>4, <2>6, <2>7 DEF TypeOK
  <1> QED
    BY <1>1, <1>2, <1>3, <1>4, <1>5, <1>6, <1>7, <1>8, <1>9, <1>10, <1>11, <1>12,
       <1>13, <1>14, <1>15, <1>16, <1>17, <1>18, <1>19, <1>20, <1>21
       DEF Next, RunStep, Host

LEMMA AnchorStep ==
    ASSUME LoopInv, [Next]_vars
    PROVE  RollbackAnchor' /\ FirstTurn'
  <1> USE DEF LoopInv
  <1>a. conversation \in Seq(Message) /\ Len(conversation) \in Nat /\ startLen \in Nat
    BY LenProperties DEF TypeOK
  <1>0. ASSUME pc' = "idle" PROVE RollbackAnchor' /\ FirstTurn'
    BY <1>0 DEF RollbackAnchor, FirstTurn
  <1>1. CASE Exhausted \/ ContextDone \/ CalloutPanics \/ ArchivePanics
    BY <1>0, <1>1 DEF Exhausted, ContextDone, CalloutPanics, ArchivePanics, Return
  <1>2. CASE HookAborts \/ BatchAborts
    BY <1>0, <1>2 DEF HookAborts, BatchAborts, AbortRun, Return
  <1>3. CASE CallFails \/ OverflowFails
    BY <1>0, <1>3 DEF CallFails, OverflowFails, FailCall, Return
  <1>4. CASE BuildRequest
    BY <1>4 DEF BuildRequest, AtHead, RollbackAnchor, FirstTurn, Prefix, agent, history
  <1>5. CASE HookPasses
    BY <1>5 DEF HookPasses, RollbackAnchor, FirstTurn, Prefix, agent
  <1>6. ASSUME NEW p \in Proposals(compaction, Prefix(startLen)),
               ~Rejected(p, startLen), ApplyForRequest(p),
               pc \in {"head", "call"}, pc' \in {"hook", "retry"}, UNCHANGED <<turn, runs>>
        PROVE  RollbackAnchor' /\ FirstTurn'
    <2>1. /\ startLen' \in Nat /\ conversation' \in Seq(Message)
          /\ startLen' < Len(conversation') /\ SubSeq(conversation', 1, startLen') = base'
          /\ conversation'[startLen' + 1] = conversation[startLen + 1]
          /\ Len(conversation') - startLen' = Len(conversation) - startLen
      BY <1>6, ApplyFacts
    <2>2. conversation[startLen + 1] = UserText(runs)
      BY <1>6 DEF RollbackAnchor
    <2>3. RollbackAnchor'
      BY <1>6, <2>1, <2>2 DEF RollbackAnchor, Prefix
    <2>4. Len(conversation') \in Nat
      BY <2>1, LenProperties
    <2>5. FirstTurn'
      <3>1. turn' = 0 => Len(conversation) = startLen + 1
        BY <1>6 DEF FirstTurn
      <3>2. turn' = 0 => Len(conversation') - startLen' = 1
        BY <1>a, <2>1, <3>1
      <3>3. turn' = 0 => Len(conversation') = startLen' + 1
        <4>1. ASSUME NEW a \in Nat, NEW b \in Nat, a - b = 1 PROVE a = b + 1
          BY <4>1
        <4> QED
          BY <2>1, <2>4, <3>2, <4>1
      <3> QED
        BY <3>3 DEF FirstTurn
    <2> QED
      BY <2>3, <2>5
  <1>7. CASE ProactiveCompaction
    <2>1. PICK p \in Proposals(compaction, Prefix(startLen)) :
            IF Rejected(p, startLen)
              THEN FailCall
              ELSE ApplyForRequest(p) /\ pc' = "hook" /\ UNCHANGED turn
      BY <1>7 DEF ProactiveCompaction
    <2>2. pc = "head" /\ UNCHANGED runs
      BY <1>7 DEF ProactiveCompaction, AtHead
    <2>3. CASE Rejected(p, startLen)
      BY <1>0, <2>1, <2>3 DEF FailCall, Return
    <2>4. CASE ~Rejected(p, startLen)
      BY <1>6, <2>1, <2>2, <2>4
    <2> QED
      BY <2>3, <2>4
  <1>8. CASE ReactiveCompaction
    <2>1. PICK p \in Proposals(compaction, Prefix(startLen)) :
            IF Applied(p, startLen)
              THEN ApplyForRequest(p) /\ pc' = "retry" /\ UNCHANGED turn
              ELSE FailCall
      BY <1>8 DEF ReactiveCompaction
    <2>2. pc = "call" /\ UNCHANGED runs
      BY <1>8 DEF ReactiveCompaction, MayCompact
    <2>3. CASE ~Applied(p, startLen)
      BY <1>0, <2>1, <2>3 DEF FailCall, Return
    <2>4. CASE Applied(p, startLen)
      BY <1>6, <2>1, <2>2, <2>4 DEF Applied
    <2> QED
      BY <2>3, <2>4
  <1>9. ASSUME NEW m \in Message, Commit(<<m>>), pc # "idle",
               UNCHANGED <<startLen, base, runs>>
        PROVE  RollbackAnchor'
    <2>1. /\ startLen < Len(conversation) /\ SubSeq(conversation, 1, startLen) = base
          /\ conversation[startLen + 1] = UserText(runs)
      BY <1>9 DEF RollbackAnchor, Prefix
    <2>2. startLen \in 0..Len(conversation) /\ startLen + 1 \in 1..Len(conversation)
      BY <1>a, <2>1
    <2>3. /\ Len(conversation') = Len(conversation) + 1
          /\ SubSeq(conversation', 1, startLen) = base
          /\ conversation'[startLen + 1] = UserText(runs)
      BY <1>9, <2>1, <2>2, CommitFacts
    <2> QED
      BY <1>a, <1>9, <2>1, <2>3 DEF RollbackAnchor, Prefix
  <1>10. ASSUME NEW c \in Completions, Accept(c), pc # "idle", UNCHANGED <<base, runs>>
         PROVE  RollbackAnchor' /\ FirstTurn'
    <2>1. CASE pc' = "idle"
      BY <1>0, <2>1
    <2>2. CASE pc' # "idle"
      <3>1. pc' = "tools" /\ UNCHANGED startLen /\ Commit(<<AssistantReply(runs, c.uses)>>)
        BY <1>10, <2>2, AcceptFacts DEF Return
      <3>2. AssistantReply(runs, c.uses) \in Message
        BY MessageTypes, ConstantsAssumption DEF TypeOK
      <3> QED
        BY <1>9, <1>10, <3>1, <3>2 DEF FirstTurn
    <2> QED
      BY <2>1, <2>2
  <1>11. CASE Substitute
    BY <1>10, <1>11 DEF Substitute
  <1>12. CASE Answered
    BY <1>10, <1>12 DEF Answered
  <1>13. CASE BatchDone
    <2>1. ToolResults(runs, calls) \in Message
      BY MessageTypes DEF TypeOK
    <2>2. RollbackAnchor'
      BY <1>9, <1>13, <2>1 DEF BatchDone
    <2>3. turn' # 0
      BY <1>13 DEF BatchDone, NextTurn, TypeOK
    <2> QED
      BY <2>2, <2>3 DEF FirstTurn
  <1>14. CASE StartRun
    <2>1. /\ Commit(<<UserText(runs + 1)>>) /\ startLen' = Len(conversation)
          /\ base' = conversation /\ runs' = runs + 1
      BY <1>14 DEF StartRun
    <2>2. UserText(runs + 1) \in Message
      BY MessageTypes DEF TypeOK
    <2>3. SubSeq(conversation, 1, Len(conversation)) = conversation
      BY <1>a, PrefixFacts, SeqEqual
    <2>4. /\ Len(conversation') = Len(conversation) + 1
          /\ conversation'[Len(conversation) + 1] = UserText(runs + 1)
          /\ SubSeq(conversation', 1, Len(conversation)) = conversation
      BY <1>a, <2>1, <2>2, <2>3, CommitFacts
    <2> QED
      BY <1>a, <2>1, <2>4 DEF RollbackAnchor, Prefix, FirstTurn
  <1>15. CASE ManualCompact
    BY <1>0, <1>15 DEF ManualCompact, locals
  <1>16. CASE SetCompaction
    BY <1>16 DEF SetCompaction, RollbackAnchor, FirstTurn, Prefix, locals, history
  <1>17. CASE Resume
    BY <1>0, <1>17 DEF Resume, locals
  <1>18. CASE Cancel
    BY <1>18 DEF Cancel, RollbackAnchor, FirstTurn, Prefix, agent, history
  <1>19. CASE UNCHANGED vars
    BY <1>19 DEF vars, agent, locals, history, RollbackAnchor, FirstTurn, Prefix
  <1> QED
    BY <1>1, <1>2, <1>3, <1>4, <1>5, <1>7, <1>8, <1>11, <1>12, <1>13, <1>14, <1>15,
       <1>16, <1>17, <1>18, <1>19 DEF Next, RunStep, Host

-----------------------------------------------------------------------------
(* Theorems                                                                *)

\* LoopInv always holds: the anchor, with what makes it inductive.
THEOREM LoopInvariance == Spec => []LoopInv
  <1>1. LoopInv /\ [Next]_vars => LoopInv'
    BY TypeOKStep, AnchorStep DEF LoopInv
  <1> QED
    BY InitInv, <1>1, PTL DEF Spec

\* Every variable of the agent and of its Run keeps its type (agent.go:23-39).
THEOREM LoopTyping == Spec => []TypeOK
  BY LoopInvariance, PTL DEF LoopInv

\* Throughout a Run the first startLen messages are the committed history, and
\* the Run's own user message follows them, through any number of compactions
\* by any strategy (agent.go:142, compaction.go:244-248).
THEOREM Anchoring == Spec => []RollbackAnchor
  BY LoopInvariance, PTL DEF LoopInv

LEMMA RestoreStep ==
    ASSUME LoopInv, [Next]_vars, pc # "idle", pc' = "idle",
           outcome' \in {"aborted", "failed_first"}
    PROVE  conversation' = base
  <1> USE DEF LoopInv
  <1>1. CASE Exhausted \/ ContextDone \/ CalloutPanics \/ ArchivePanics
    BY <1>1 DEF Exhausted, ContextDone, CalloutPanics, ArchivePanics, Return
  <1>2. CASE HookAborts \/ BatchAborts
    BY <1>2, AbortFacts DEF HookAborts, BatchAborts
  <1>3. ASSUME FailCall, pc \in {"head", "call", "retry"} PROVE conversation' = base
    <2>1. outcome' = "failed_first"
      BY <1>3 DEF FailCall, Return
    <2>2. turn = 0 /\ RemoveLast(1)
      BY <1>3, <2>1, FailFacts
    <2>3. /\ startLen \in Nat /\ Len(conversation) = startLen + 1
          /\ SubSeq(conversation, 1, startLen) = base
      BY <1>3, <2>2 DEF TypeOK, FirstTurn, RollbackAnchor, Prefix
    <2>4. 1 \in Nat /\ 1 <= Len(conversation) /\ Len(conversation) - 1 = startLen
      BY <2>3
    <2> QED
      BY <2>2, <2>3, <2>4, RemoveFacts
  <1>4. CASE CallFails \/ OverflowFails
    BY <1>3, <1>4 DEF CallFails, OverflowFails
  <1>5. CASE ProactiveCompaction
    BY <1>3, <1>5 DEF ProactiveCompaction, AtHead
  <1>6. CASE ReactiveCompaction
    BY <1>3, <1>6 DEF ReactiveCompaction, MayCompact
  <1>7. ASSUME NEW c \in Completions, Accept(c) PROVE FALSE
    BY <1>7, AcceptFacts DEF Return
  <1>8. CASE Substitute \/ Answered
    BY <1>7, <1>8 DEF Substitute, Answered
  <1>9. CASE BuildRequest \/ HookPasses \/ BatchDone
    BY <1>9 DEF BuildRequest, HookPasses, BatchDone
  <1>10. CASE StartRun \/ ManualCompact \/ SetCompaction \/ Resume \/ Cancel
    BY <1>10 DEF StartRun, ManualCompact, SetCompaction, Resume, Cancel, locals
  <1>11. CASE UNCHANGED vars
    BY <1>11 DEF vars, locals
  <1> QED
    BY <1>1, <1>2, <1>4, <1>5, <1>6, <1>8, <1>9, <1>10, <1>11 DEF Next, RunStep, Host

\* A Run that aborts, or fails on its first call, leaves exactly the history it
\* started from, as compacted since (agent.go:240-242, 487-491).
THEOREM Restoration == Spec => FailureRestoresBase
  <1>1. LoopInv /\ [Next]_vars =>
          [pc # "idle" /\ pc' = "idle" /\ outcome' \in {"aborted", "failed_first"}
             => conversation' = base]_vars
    BY RestoreStep
  <1> QED
    BY LoopInvariance, <1>1, PTL DEF Spec, FailureRestoresBase

LEMMA InFlightStep ==
    ASSUME LoopInv, [Next]_vars, pc # "idle", archive' # archive, pc' # "idle"
    PROVE  SubSeq(conversation', startLen' + 1, Len(conversation'))
             = SubSeq(conversation, startLen + 1, Len(conversation))
  <1>1. CASE ProactiveCompaction
    <2>1. PICK p \in Proposals(compaction, Prefix(startLen)) :
            ~Rejected(p, startLen) /\ ApplyForRequest(p)
      BY <1>1 DEF ProactiveCompaction
    <2> QED
      BY <2>1, ApplyFacts
  <1>2. CASE ReactiveCompaction
    <2>1. PICK p \in Proposals(compaction, Prefix(startLen)) :
            ~Rejected(p, startLen) /\ ApplyForRequest(p)
      BY <1>2 DEF ReactiveCompaction, Applied
    <2> QED
      BY <2>1, ApplyFacts
  <1>3. CASE ~(ProactiveCompaction \/ ReactiveCompaction)
    BY <1>3 DEF Next, RunStep, Host, Exhausted, ContextDone, BuildRequest, HookPasses,
         HookAborts, Substitute, Answered, CallFails, CalloutPanics, OverflowFails,
         ArchivePanics, BatchDone, BatchAborts, StartRun, ManualCompact, SetCompaction,
         Resume, Cancel, Return, vars
  <1> QED
    BY <1>1, <1>2, <1>3

\* A compaction in mid-run never touches what the Run appended
\* (compaction.go:142-145, 181).
THEOREM InFlightKept == Spec => InFlightUntouched
  <1>1. LoopInv /\ [Next]_vars =>
          [pc # "idle" /\ archive' # archive /\ pc' # "idle" =>
             SubSeq(conversation', startLen' + 1, Len(conversation'))
               = SubSeq(conversation, startLen + 1, Len(conversation))]_vars
    BY InFlightStep
  <1> QED
    BY LoopInvariance, <1>1, PTL DEF Spec, InFlightUntouched

-----------------------------------------------------------------------------
(* The message protocol                                                    *)


Chain(h, first, links) ==
    /\ Len(h) > 0 => h[1] \in first
    /\ \A i \in 1..Len(h) - 1 : <<h[i], h[i+1]>> \in links

\* Neighbours of which the second answers nothing the first did not ask for.
MayOpen == {m \in Message : m.role = "user" => m.results = {}}
Keeps   == {l \in Message \X Message : l[2].role = "user" => l[2].results \subseteq l[1].uses}

\* Neighbours as the protocol wants them.
Opens   == {m \in Message : m.role = "user" /\ m.results = {}}
Follows ==
    {l \in Message \X Message :
       /\ l[1].role # l[2].role
       /\ l[1].role = "assistant" => l[1].uses \subseteq l[2].results
       /\ l[2].role = "user" => l[2].results \subseteq l[1].uses}

Formed(h) == Alternates(h) /\ UsesAnswered(h) /\ NoOrphans(h)

\* The last message leaves nothing open, or asks for exactly these calls.
Closed(h) == h = <<>> \/ (h[Len(h)].role = "assistant" /\ h[Len(h)].uses = {})
Asks(h, ids) == h # <<>> /\ h[Len(h)].role = "assistant" /\ h[Len(h)].uses = ids

-----------------------------------------------------------------------------
(* Chains                                                                  *)

LEMMA ChainPrefix ==
    ASSUME NEW first, NEW links, NEW h \in Seq(Message), Chain(h, first, links),
           NEW n \in 0..Len(h)
    PROVE  Chain(SubSeq(h, 1, n), first, links)
  <1>1. /\ SubSeq(h, 1, n) \in Seq(Message) /\ Len(SubSeq(h, 1, n)) = n
        /\ \A i \in 1..n : SubSeq(h, 1, n)[i] = h[i]
    BY PrefixFacts
  <1>2. Len(h) \in Nat /\ n \in Nat /\ n <= Len(h)
    BY LenProperties
  <1>3. n > 0 => 1 \in 1..n /\ Len(h) > 0
    BY <1>2
  <1>4. \A i \in 1..n - 1 : i \in 1..n /\ i + 1 \in 1..n /\ i \in 1..Len(h) - 1
    BY <1>2
  <1> QED
    BY <1>1, <1>3, <1>4 DEF Chain

LEMMA Joined ==
    ASSUME NEW c \in Seq(Message), NEW f \in Seq(Message)
    PROVE  /\ c \o f \in Seq(Message) /\ Len(c \o f) = Len(c) + Len(f)
           /\ \A i \in 1..Len(c) + Len(f) :
                (c \o f)[i] = IF i <= Len(c) THEN c[i] ELSE f[i - Len(c)]
  BY ConcatProperties

\* Two chains and the link between them.
LEMMA ChainJoin ==
    ASSUME NEW first, NEW links, NEW c \in Seq(Message), NEW f \in Seq(Message),
           Chain(c, first, links),
           \A i \in 1..Len(f) - 1 : <<f[i], f[i+1]>> \in links,
           Len(f) > 0 => IF Len(c) = 0 THEN f[1] \in first ELSE <<c[Len(c)], f[1]>> \in links
    PROVE  Chain(c \o f, first, links)
  <1> DEFINE g == c \o f
             n == Len(c)
             k == Len(f)
  <1>1. n \in Nat /\ k \in Nat
    BY LenProperties
  <1>2. /\ Len(g) = n + k
        /\ \A i \in 1..n + k : g[i] = IF i <= n THEN c[i] ELSE f[i - n]
    BY Joined
  <1> HIDE DEF g
  <1>3. Len(g) > 0 => g[1] \in first
    <2>1. CASE n = 0
      <3>1. Len(g) > 0 => 1 \in 1..n + k /\ ~(1 <= n) /\ 1 - n = 1 /\ k > 0
        BY <1>1, <1>2, <2>1
      <3> QED
        BY <1>2, <2>1, <3>1
    <2>2. CASE n > 0
      <3>1. 1 \in 1..n + k /\ 1 <= n
        BY <1>1, <2>2
      <3> QED
        BY <1>2, <2>2, <3>1 DEF Chain
    <2> QED
      BY <1>1, <2>1, <2>2
  <1>4. ASSUME NEW i \in 1..Len(g) - 1 PROVE <<g[i], g[i+1]>> \in links
    <2>1. i \in 1..n + k /\ i + 1 \in 1..n + k /\ i \in Nat
      BY <1>1, <1>2
    <2>2. CASE i < n
      <3>1. i <= n /\ i + 1 <= n /\ i \in 1..n - 1
        BY <1>1, <2>1, <2>2
      <3>2. g[i] = c[i] /\ g[i+1] = c[i+1]
        BY <1>2, <2>1, <3>1
      <3> QED
        BY <3>1, <3>2 DEF Chain
    <2>3. CASE i = n
      <3>1. i <= n /\ ~(i + 1 <= n) /\ (i + 1) - n = 1 /\ k > 0 /\ n # 0
        BY <1>1, <2>1, <2>3
      <3>2. g[i] = c[n] /\ g[i+1] = f[1]
        BY <1>2, <2>1, <2>3, <3>1
      <3> QED
        BY <3>1, <3>2
    <2>4. CASE i > n
      <3>1. ~(i <= n) /\ ~(i + 1 <= n) /\ i - n \in 1..k - 1 /\ (i + 1) - n = (i - n) + 1
        BY <1>1, <2>1, <2>4
      <3>2. g[i] = f[i - n] /\ g[i+1] = f[(i - n) + 1]
        BY <1>2, <2>1, <3>1
      <3> QED
        BY <3>1, <3>2
    <2> QED
      BY <1>1, <2>1, <2>2, <2>3, <2>4
  <1> QED
    BY <1>3, <1>4 DEF Chain, g

LEMMA ChainAppend ==
    ASSUME NEW first, NEW links, NEW h \in Seq(Message), NEW m \in Message,
           Chain(h, first, links),
           IF h = <<>> THEN m \in first ELSE <<h[Len(h)], m>> \in links
    PROVE  Chain(h \o <<m>>, first, links)
  <1>1. <<m>> \in Seq(Message) /\ Len(<<m>>) = 1 /\ <<m>>[1] = m
    OBVIOUS
  <1>2. \A i \in 1..Len(<<m>>) - 1 : <<(<<m>>)[i], (<<m>>)[i+1]>> \in links
    BY <1>1
  <1>3. h = <<>> <=> Len(h) = 0
    OBVIOUS
  <1> QED
    BY <1>1, <1>2, <1>3, ChainJoin

\* The messages past a prefix are linked as they were.
LEMMA SuffixLinks ==
    ASSUME NEW first, NEW links, NEW h \in Seq(Message), Chain(h, first, links),
           NEW n \in 0..Len(h)
    PROVE  LET f == SubSeq(h, n + 1, Len(h))
           IN  /\ f \in Seq(Message) /\ Len(f) = Len(h) - n
               /\ \A i \in 1..Len(f) - 1 : <<f[i], f[i+1]>> \in links
               /\ n < Len(h) => f[1] = h[n + 1] /\ f[Len(f)] = h[Len(h)]
  <1> DEFINE f == SubSeq(h, n + 1, Len(h))
  <1>1. Len(h) \in Nat /\ n \in Nat /\ n <= Len(h) /\ Len(h) \in n..Len(h)
    BY LenProperties
  <1>2. /\ f \in Seq(Message) /\ Len(f) = Len(h) - n
        /\ \A i \in 1..Len(h) - n : f[i] = h[n + i]
    BY <1>1, SuffixFacts
  <1> HIDE DEF f
  <1>3. ASSUME NEW i \in 1..Len(f) - 1 PROVE <<f[i], f[i+1]>> \in links
    <2>1. /\ i \in 1..Len(h) - n /\ i + 1 \in 1..Len(h) - n
          /\ n + i \in 1..Len(h) - 1 /\ n + (i + 1) = (n + i) + 1
      BY <1>1, <1>2
    <2>2. f[i] = h[n + i]
      BY <1>2, <2>1
    <2>3. f[i+1] = h[n + (i + 1)]
      BY <1>2, <2>1
    <2> QED
      BY <2>1, <2>2, <2>3 DEF Chain
  <1>4. ASSUME n < Len(h) PROVE f[1] = h[n + 1] /\ f[Len(f)] = h[Len(h)]
    <2>1. 1 \in 1..Len(h) - n /\ Len(h) - n \in 1..Len(h) - n /\ n + (Len(h) - n) = Len(h)
      BY <1>1, <1>4
    <2> QED
      BY <1>2, <2>1
  <1> QED
    BY <1>2, <1>3, <1>4 DEF f

\* NoOrphans and Formed are chains.
LEMMA OrphansChain ==
    ASSUME NEW h \in Seq(Message)
    PROVE  NoOrphans(h) <=> Chain(h, MayOpen, Keeps)
  <1>1. /\ Len(h) \in Nat /\ DOMAIN h = 1..Len(h)
        /\ \A i \in 1..Len(h) : h[i] \in Message
    BY LenProperties, ElementOfSeq
  <1>2. ASSUME NoOrphans(h) PROVE Chain(h, MayOpen, Keeps)
    <2>1. Len(h) > 0 => h[1] \in MayOpen
      <3>1. Len(h) > 0 => 1 \in 1..Len(h)
        BY <1>1
      <3>2. ~(1 > 1)
        OBVIOUS
      <3> QED
        BY <1>1, <1>2, <3>1, <3>2 DEF NoOrphans, MayOpen
    <2>2. ASSUME NEW i \in 1..Len(h) - 1 PROVE <<h[i], h[i+1]>> \in Keeps
      <3>1. i \in 1..Len(h) /\ i + 1 \in 1..Len(h) /\ (i + 1) - 1 = i
        BY <1>1
      <3>2. h[i+1].role = "user" => h[i+1].results \subseteq h[i].uses
        BY <1>1, <1>2, <3>1 DEF NoOrphans
      <3> QED
        BY <1>1, <3>1, <3>2 DEF Keeps
    <2> QED
      BY <2>1, <2>2 DEF Chain
  <1>3. ASSUME Chain(h, MayOpen, Keeps) PROVE NoOrphans(h)
    <2> SUFFICES ASSUME NEW i \in 1..Len(h), h[i].role = "user", h[i].results # {}
                 PROVE  i > 1 /\ h[i].results \subseteq h[i-1].uses
      BY <1>1 DEF NoOrphans
    <2>1. i # 1
      BY <1>1, <1>3 DEF Chain, MayOpen
    <2>2. i > 1 /\ i - 1 \in 1..Len(h) - 1 /\ (i - 1) + 1 = i
      BY <1>1, <2>1
    <2>3. <<h[i-1], h[i]>> \in Keeps
      BY <1>3, <2>2 DEF Chain
    <2> QED
      BY <2>2, <2>3 DEF Keeps
  <1> QED
    BY <1>2, <1>3

LEMMA FormedChain ==
    ASSUME NEW h \in Seq(Message)
    PROVE  Formed(h) <=> Chain(h, Opens, Follows)
  <1>1. /\ Len(h) \in Nat /\ DOMAIN h = 1..Len(h) /\ Shaped(h)
        /\ \A i \in 1..Len(h) : h[i] \in Message /\ h[i].role \in Role
    <2>1. \A i \in 1..Len(h) : h[i] \in Message
      BY LenProperties, ElementOfSeq
    <2>2. \A m \in Message : m.role \in Role
      BY DEF Message
    <2>3. Shaped(h)
      BY ShapedSeq
    <2> QED
      BY <2>1, <2>2, <2>3 DEF Shaped
  <1>2. Alternates(h) <=> \A i \in 1..Len(h) : ~OrderFault(h, i)
    BY <1>1, OrderScan
  <1>3. ASSUME Formed(h) PROVE Chain(h, Opens, Follows)
    <2>1. ASSUME Len(h) > 0 PROVE h[1] \in Opens
      <3>1. 1 \in 1..Len(h) /\ ~(1 > 1)
        BY <1>1, <2>1
      <3>2. h[1].role = "user"
        BY <1>2, <1>3, <3>1 DEF Formed, OrderFault
      <3>3. h[1].results = {}
        BY <1>1, <1>3, <3>1, <3>2 DEF Formed, NoOrphans
      <3> QED
        BY <1>1, <3>1, <3>2, <3>3 DEF Opens
    <2>2. ASSUME NEW i \in 1..Len(h) - 1 PROVE <<h[i], h[i+1]>> \in Follows
      <3>1. i \in 1..Len(h) /\ i + 1 \in 1..Len(h) /\ (i + 1) - 1 = i /\ i + 1 > 1 /\ i < Len(h)
        BY <1>1
      <3>2. h[i+1].role # h[i].role
        BY <1>2, <1>3, <3>1 DEF Formed, OrderFault
      <3>3. h[i].role = "assistant" => h[i].uses \subseteq h[i+1].results
        BY <1>1, <1>3, <3>1 DEF Formed, UsesAnswered
      <3>4. h[i+1].role = "user" => h[i+1].results \subseteq h[i].uses
        BY <1>1, <1>3, <3>1 DEF Formed, NoOrphans
      <3> QED
        BY <1>1, <3>1, <3>2, <3>3, <3>4 DEF Follows
    <2> QED
      BY <2>1, <2>2 DEF Chain
  <1>4. ASSUME Chain(h, Opens, Follows) PROVE Formed(h)
    <2>1. \A i \in 1..Len(h) - 1 :
            /\ h[i].role # h[i+1].role
            /\ h[i].role = "assistant" => h[i].uses \subseteq h[i+1].results
            /\ h[i+1].role = "user" => h[i+1].results \subseteq h[i].uses
      BY <1>4 DEF Chain, Follows
    <2>2. Len(h) > 0 => h[1].role = "user" /\ h[1].results = {}
      BY <1>4 DEF Chain, Opens
    <2>3. \A i \in 1..Len(h) : i > 1 => i - 1 \in 1..Len(h) - 1 /\ (i - 1) + 1 = i
      BY <1>1
    <2>4. ASSUME NEW i \in 1..Len(h) PROVE ~OrderFault(h, i)
      <3>1. i = 1 => h[i].role = "user"
        BY <1>1, <2>2
      <3>2. i > 1 => h[i].role # h[i-1].role
        BY <2>1, <2>3
      <3> QED
        BY <1>1, <3>1, <3>2 DEF OrderFault
    <2>5. UsesAnswered(h)
      <3>1. \A i \in 1..Len(h) : i < Len(h) => i \in 1..Len(h) - 1
        BY <1>1
      <3> QED
        BY <1>1, <2>1, <3>1 DEF UsesAnswered
    <2>6. NoOrphans(h)
      <3> SUFFICES ASSUME NEW i \in 1..Len(h), h[i].role = "user", h[i].results # {}
                   PROVE  i > 1 /\ h[i].results \subseteq h[i-1].uses
        BY <1>1 DEF NoOrphans
      <3>1. i # 1
        BY <1>1, <2>2
      <3>2. i > 1
        BY <1>1, <3>1
      <3> QED
        BY <2>1, <2>3, <3>2
    <2> QED
      BY <1>2, <2>4, <2>5, <2>6 DEF Formed
  <1> QED
    BY <1>3, <1>4

LEMMA ResumableIs ==
    ASSUME NEW h \in Seq(Message)
    PROVE  Resumable(h) <=> Formed(h) /\ Closed(h)
  BY DEF Resumable, Formed, Closed, EndsResumably, NoneUnresolved

LEMMA CompliantIs ==
    ASSUME NEW h \in Seq(Message)
    PROVE  Compliant(h) <=> h # <<>> /\ h[Len(h)].role = "user" /\ Formed(h)
  BY DEF Compliant, Formed, Last

LEMMA EmptyResumable == Formed(<<>>) /\ Closed(<<>>)
  <1>1. <<>> \in Seq(Message) /\ Len(<<>>) = 0
    OBVIOUS
  <1>2. Chain(<<>>, Opens, Follows)
    BY <1>1 DEF Chain
  <1> QED
    BY <1>1, <1>2, FormedChain DEF Closed

-----------------------------------------------------------------------------
(* The histories a Run goes through                                        *)

\* A user message without results may follow anything that is closed.
LEMMA AppendUser ==
    ASSUME NEW h \in Seq(Message), NEW t \in Nat
    PROVE  LET g == h \o <<UserText(t)>>
           IN  /\ NoOrphans(h) => NoOrphans(g)
               /\ Formed(h) /\ Closed(h) => Formed(g)
  <1> DEFINE m == UserText(t)
             g == h \o <<m>>
  <1>1. m \in Message /\ m.role = "user" /\ m.results = {}
    BY MessageTypes DEF UserText
  <1>2. g \in Seq(Message) /\ Len(h) \in Nat
    BY <1>1
  <1>3. h # <<>> => h[Len(h)] \in Message
    BY <1>2, ElementOfSeq
  <1> HIDE DEF m
  <1>4. NoOrphans(h) => NoOrphans(g)
    <2>1. IF h = <<>> THEN m \in MayOpen ELSE <<h[Len(h)], m>> \in Keeps
      BY <1>1, <1>3 DEF MayOpen, Keeps
    <2> QED
      BY <1>1, <1>2, <2>1, OrphansChain, ChainAppend
  <1>5. Formed(h) /\ Closed(h) => Formed(g)
    <2> SUFFICES ASSUME Formed(h), Closed(h) PROVE Formed(g)
      OBVIOUS
    <2>1. IF h = <<>> THEN m \in Opens ELSE <<h[Len(h)], m>> \in Follows
      BY <1>1, <1>3 DEF Opens, Follows, Closed
    <2> QED
      BY <1>1, <1>2, <2>1, FormedChain, ChainAppend
  <1> QED
    BY <1>4, <1>5 DEF m

\* An answer follows a user message.
LEMMA AppendAnswer ==
    ASSUME NEW h \in Seq(Message), h # <<>>, NEW t \in Nat, NEW ids \in SUBSET CallId
    PROVE  LET g == h \o <<AssistantReply(t, ids)>>
           IN  /\ Asks(g, ids)
               /\ NoOrphans(h) => NoOrphans(g)
               /\ Formed(h) /\ h[Len(h)].role = "user" => Formed(g)
  <1> DEFINE m == AssistantReply(t, ids)
             g == h \o <<m>>
  <1>1. m \in Message /\ m.role = "assistant" /\ m.uses = ids
    BY MessageTypes DEF AssistantReply
  <1>2. /\ g \in Seq(Message) /\ Len(h) \in Nat /\ h[Len(h)] \in Message
        /\ Len(g) = Len(h) + 1 /\ g[Len(h) + 1] = m /\ g # <<>>
    BY <1>1
  <1> HIDE DEF m
  <1>3. Asks(g, ids)
    BY <1>1, <1>2 DEF Asks
  <1>4. NoOrphans(h) => NoOrphans(g)
    <2>1. <<h[Len(h)], m>> \in Keeps
      BY <1>1, <1>2 DEF Keeps
    <2> QED
      BY <1>1, <1>2, <2>1, OrphansChain, ChainAppend
  <1>5. Formed(h) /\ h[Len(h)].role = "user" => Formed(g)
    <2> SUFFICES ASSUME Formed(h), h[Len(h)].role = "user" PROVE Formed(g)
      OBVIOUS
    <2>1. <<h[Len(h)], m>> \in Follows
      BY <1>1, <1>2 DEF Follows
    <2> QED
      BY <1>1, <1>2, <2>1, FormedChain, ChainAppend
  <1> QED
    BY <1>3, <1>4, <1>5 DEF m

\* The results follow the message that asks for them.
LEMMA AppendResults ==
    ASSUME NEW h \in Seq(Message), NEW t \in Nat, NEW ids \in SUBSET CallId, Asks(h, ids)
    PROVE  LET g == h \o <<ToolResults(t, ids)>>
           IN  /\ g # <<>> /\ g[Len(g)].role = "user"
               /\ NoOrphans(h) => NoOrphans(g)
               /\ Formed(h) => Formed(g)
  <1> DEFINE m == ToolResults(t, ids)
             g == h \o <<m>>
  <1>1. m \in Message /\ m.role = "user" /\ m.results = ids
    BY MessageTypes DEF ToolResults
  <1>2. h # <<>> /\ h[Len(h)].role = "assistant" /\ h[Len(h)].uses = ids
    BY DEF Asks
  <1>3. /\ g \in Seq(Message) /\ Len(h) \in Nat /\ h[Len(h)] \in Message
        /\ Len(g) = Len(h) + 1 /\ g[Len(h) + 1] = m /\ g # <<>>
    BY <1>1, <1>2
  <1> HIDE DEF m
  <1>4. NoOrphans(h) => NoOrphans(g)
    <2>1. <<h[Len(h)], m>> \in Keeps
      BY <1>1, <1>2, <1>3 DEF Keeps
    <2> QED
      BY <1>1, <1>2, <1>3, <2>1, OrphansChain, ChainAppend
  <1>5. Formed(h) => Formed(g)
    <2>1. <<h[Len(h)], m>> \in Follows
      BY <1>1, <1>2, <1>3 DEF Follows
    <2> QED
      BY <1>1, <1>2, <1>3, <2>1, FormedChain, ChainAppend
  <1> QED
    BY <1>1, <1>3, <1>4, <1>5 DEF m

\* A resumable prefix takes the place of what came before a user message.
LEMMA Spliced ==
    ASSUME NEW h \in Seq(Message), NEW n \in 0..Len(h), n < Len(h),
           h[n + 1].role = "user", h[n + 1].results = {},
           NEW c \in Seq(Message), Formed(c), Closed(c)
    PROVE  LET g == c \o SubSeq(h, n + 1, Len(h))
           IN  /\ g \in Seq(Message) /\ g # <<>> /\ g[Len(g)] = h[Len(h)]
               /\ NoOrphans(h) => NoOrphans(g)
               /\ Formed(h) => Formed(g)
  <1> DEFINE f == SubSeq(h, n + 1, Len(h))
             g == c \o f
  <1>1. /\ n \in Nat /\ Len(h) \in Nat /\ Len(c) \in Nat
        /\ n + 1 \in 1..Len(h) /\ Len(h) \in n..Len(h)
    BY LenProperties
  <1>2. /\ f \in Seq(Message) /\ Len(f) = Len(h) - n
        /\ \A i \in 1..Len(h) - n : f[i] = h[n + i]
    BY <1>1, SuffixFacts
  <1> HIDE DEF f
  <1>3. f[1] = h[n + 1] /\ f[Len(f)] = h[Len(h)] /\ Len(f) > 0
    <2>1. /\ 1 \in 1..Len(h) - n /\ Len(h) - n \in 1..Len(h) - n /\ Len(h) - n > 0
          /\ n + (Len(h) - n) = Len(h)
      BY <1>1
    <2> QED
      BY <1>2, <2>1
  <1>4. g \in Seq(Message) /\ g # <<>> /\ g[Len(g)] = h[Len(h)]
    <2>1. /\ g \in Seq(Message) /\ Len(g) = Len(c) + Len(f)
          /\ \A i \in 1..Len(c) + Len(f) : g[i] = IF i <= Len(c) THEN c[i] ELSE f[i - Len(c)]
      BY <1>2, Joined
    <2>2. Len(f) \in Nat
      BY <1>2, LenProperties
    <2>3. /\ Len(c) + Len(f) \in 1..Len(c) + Len(f) /\ ~(Len(c) + Len(f) <= Len(c))
          /\ (Len(c) + Len(f)) - Len(c) = Len(f)
      BY <1>1, <1>3, <2>2
    <2>4. g # <<>>
      <3>1. Len(g) # 0
        BY <1>1, <1>3, <2>1, <2>2
      <3> HIDE DEF g
      <3> QED
        BY <3>1
    <2> QED
      BY <1>3, <2>1, <2>3, <2>4
  <1>5. f[1] \in Message /\ (Len(c) # 0 => c[Len(c)] \in Message) /\ (c = <<>> <=> Len(c) = 0)
    BY <1>1, <1>2, <1>3, ElementOfSeq
  <1>6. NoOrphans(h) => NoOrphans(g)
    <2> SUFFICES ASSUME NoOrphans(h) PROVE NoOrphans(g)
      OBVIOUS
    <2>1. \A i \in 1..Len(f) - 1 : <<f[i], f[i+1]>> \in Keeps
      BY OrphansChain, SuffixLinks DEF f
    <2>2. IF Len(c) = 0 THEN f[1] \in MayOpen ELSE <<c[Len(c)], f[1]>> \in Keeps
      BY <1>3, <1>5 DEF MayOpen, Keeps
    <2>3. Chain(c, MayOpen, Keeps)
      BY OrphansChain DEF Formed
    <2> QED
      BY <1>2, <1>4, <2>1, <2>2, <2>3, OrphansChain, ChainJoin
  <1>7. Formed(h) => Formed(g)
    <2> SUFFICES ASSUME Formed(h) PROVE Formed(g)
      OBVIOUS
    <2>1. \A i \in 1..Len(f) - 1 : <<f[i], f[i+1]>> \in Follows
      BY FormedChain, SuffixLinks DEF f
    <2>2. IF Len(c) = 0 THEN f[1] \in Opens ELSE <<c[Len(c)], f[1]>> \in Follows
      BY <1>3, <1>5 DEF Opens, Follows, Closed
    <2>3. Chain(c, Opens, Follows)
      BY FormedChain
    <2> QED
      BY <1>2, <1>4, <2>1, <2>2, <2>3, FormedChain, ChainJoin
  <1> QED
    BY <1>4, <1>6, <1>7 DEF f

\* What a strategy proposed and the library applied can be resumed, whatever
\* strategy it was (compaction.go:166-172).
LEMMA AppliedResumable ==
    ASSUME conversation \in Seq(Message), NEW limit \in 0..Len(conversation),
           NEW p, p.replacement \in Seq(Message), Applied(p, limit)
    PROVE  /\ p.cut \in 0..limit
           /\ Compacted(p, limit) \in Seq(Message)
           /\ Formed(Compacted(p, limit)) /\ Closed(Compacted(p, limit))
  <1>1. p.cut \in 0..limit /\ ValidateHistory(Compacted(p, limit)) = 0
    BY DEF Applied, Rejected
  <1>2. Compacted(p, limit) \in Seq(Message)
    BY <1>1, ComposedFacts DEF Compacted
  <1>3. Resumable(Compacted(p, limit))
    <2> DEFINE c == Compacted(p, limit)
    <2>1. c \in Seq(Message) /\ ValidateHistory(c) = 0
      BY <1>1, <1>2
    <2> HIDE DEF c
    <2>2. Resumable(c)
      BY <2>1, ShapedSeq, Validator
    <2> QED
      BY <2>2 DEF c
  <1> QED
    BY <1>1, <1>2, <1>3, ResumableIs

-----------------------------------------------------------------------------
(* The invariant                                                           *)

\* While its tools run, a Run's last message is the one that asked for them.
Answerable == pc = "tools" => Asks(conversation, calls)

\* As long as every Run ended cleanly: the committed history is resumable, before
\* a Run and between Runs; a call is only made after a user message.
Protocol ==
    Clean =>
      /\ Formed(conversation)
      /\ pc = "idle" => Closed(conversation)
      /\ pc # "idle" => Formed(base) /\ Closed(base)
      /\ pc \in {"head", "hook", "call", "retry"} => conversation[Len(conversation)].role = "user"
      /\ pc \in {"hook", "call", "retry"} /\ ~request.modified => Compliant(request.msgs)

ProtocolInv == Answerable /\ ResultsKeepTheirUses /\ Protocol

LEMMA ProtocolInit == Init => ProtocolInv
  <1> SUFFICES ASSUME Init PROVE ProtocolInv
    OBVIOUS
  <1>1. conversation = <<>> /\ pc = "idle"
    BY DEF Init
  <1>2. NoOrphans(<<>>)
    BY EmptyResumable DEF Formed
  <1> QED
    BY <1>1, <1>2, EmptyResumable DEF ProtocolInv, Answerable, ResultsKeepTheirUses, Protocol

LEMMA UncleanEnd ==
    ASSUME ProtocolInv, NEW how \in Unclean, Return(how), UNCHANGED conversation
    PROVE  ProtocolInv'
  <1>1. pc' = "idle" /\ how \in outcomes' /\ ~Clean'
    BY DEF Return, Clean
  <1> QED
    BY <1>1 DEF ProtocolInv, Answerable, ResultsKeepTheirUses, Protocol

\* A Run that takes back all it did leaves the history it started from.
LEMMA RestoringEnd ==
    ASSUME LoopInv, ProtocolInv, pc # "idle", NEW how, Return(how), conversation' = base
    PROVE  ProtocolInv'
  <1>1. pc' = "idle" /\ outcomes \subseteq outcomes'
    BY DEF Return
  <1>2. NoOrphans(base)
    <2>1. /\ conversation \in Seq(Message) /\ startLen \in 0..Len(conversation)
          /\ SubSeq(conversation, 1, startLen) = base
      BY LenProperties DEF LoopInv, TypeOK, RollbackAnchor, Prefix
    <2>2. Chain(conversation, MayOpen, Keeps)
      BY <2>1, OrphansChain DEF ProtocolInv, ResultsKeepTheirUses
    <2>3. Chain(base, MayOpen, Keeps) /\ base \in Seq(Message)
      BY <2>1, <2>2, ChainPrefix, PrefixFacts
    <2> QED
      BY <2>3, OrphansChain
  <1>3. Clean' => Formed(base) /\ Closed(base)
    BY <1>1 DEF ProtocolInv, Protocol, Clean
  <1> QED
    BY <1>1, <1>2, <1>3 DEF ProtocolInv, Answerable, ResultsKeepTheirUses, Protocol

LEMMA FailedEnd ==
    ASSUME LoopInv, ProtocolInv, [Next]_vars, pc # "idle", FailCall
    PROVE  ProtocolInv'
  <1>1. CASE turn = 0
    <2>1. Return("failed_first") /\ pc' = "idle" /\ outcome' = "failed_first"
      BY <1>1 DEF FailCall, Return
    <2>2. conversation' = base
      BY <2>1, RestoreStep
    <2> QED
      BY <2>1, <2>2, RestoringEnd
  <1>2. CASE turn # 0
    BY <1>2, UncleanEnd DEF FailCall, Unclean
  <1> QED
    BY <1>1, <1>2

LEMMA AbortedEnd ==
    ASSUME LoopInv, ProtocolInv, pc # "idle", AbortRun
    PROVE  ProtocolInv'
  BY AbortFacts, RestoringEnd DEF LoopInv

LEMMA AcceptedProtocol ==
    ASSUME LoopInv, ProtocolInv, pc \in {"hook", "call", "retry"},
           NEW c \in Completions, Accept(c), UNCHANGED <<base, runs>>
    PROVE  ProtocolInv'
  <1>1. c.uses \in SUBSET CallId /\ runs \in Nat /\ conversation \in Seq(Message)
    BY ConstantsAssumption DEF LoopInv, TypeOK
  <1>2. conversation # <<>>
    BY <1>1 DEF LoopInv, RollbackAnchor, TypeOK
  <1>3. conversation' = conversation \o <<AssistantReply(runs, c.uses)>>
    BY DEF Accept, Commit
  <1>4. /\ Asks(conversation', c.uses)
        /\ NoOrphans(conversation) => NoOrphans(conversation')
        /\ Formed(conversation) /\ conversation[Len(conversation)].role = "user"
             => Formed(conversation')
    BY <1>1, <1>2, <1>3, AppendAnswer
  <1>5. CASE c.stop = "tool_use" /\ c.uses # {}
    <2>1. pc' = "tools" /\ calls' = c.uses /\ Clean' = Clean
      BY <1>5 DEF Accept, Clean
    <2> QED
      BY <1>4, <2>1 DEF ProtocolInv, Answerable, ResultsKeepTheirUses, Protocol
  <1>6. CASE ~(c.stop = "tool_use" /\ c.uses # {}) /\ c.uses = {}
    <2>1. Return("completed")
      BY <1>6 DEF Accept
    <2>2. pc' = "idle" /\ outcomes \subseteq outcomes' /\ (Clean' => Clean)
      BY <2>1 DEF Return, Clean
    <2>3. Closed(conversation')
      BY <1>4, <1>6 DEF Asks, Closed
    <2> QED
      BY <1>4, <2>2, <2>3 DEF ProtocolInv, Answerable, ResultsKeepTheirUses, Protocol
  <1>7. CASE ~(c.stop = "tool_use" /\ c.uses # {}) /\ c.uses # {}
    <2>1. Return("truncated")
      BY <1>7 DEF Accept
    <2>2. pc' = "idle" /\ ~Clean'
      BY <2>1 DEF Return, Clean, Unclean
    <2> QED
      BY <1>4, <2>2 DEF ProtocolInv, Answerable, ResultsKeepTheirUses, Protocol
  <1> QED
    BY <1>5, <1>6, <1>7

\* A request that is the conversation, or the conversation compacted, for good or
\* for this one call.
LEMMA AppliedProtocol ==
    ASSUME LoopInv, ProtocolInv, pc \in {"head", "call"}, pc' \in {"hook", "retry"},
           NEW p \in Proposals(compaction, Prefix(startLen)), ~Rejected(p, startLen),
           ApplyForRequest(p), UNCHANGED outcomes
    PROVE  ProtocolInv'
  <1>1. /\ conversation \in Seq(Message) /\ startLen \in 0..Len(conversation)
        /\ startLen < Len(conversation) /\ conversation[startLen + 1] = UserText(runs)
        /\ Clean' = Clean
    BY LenProperties DEF LoopInv, TypeOK, RollbackAnchor, Clean
  <1>2. /\ conversation[startLen + 1].role = "user" /\ conversation[startLen + 1].results = {}
        /\ conversation # <<>>
    BY <1>1 DEF UserText
  <1>3. CASE ~Applied(p, startLen)
    <2>1. request'.msgs = conversation /\ UNCHANGED <<conversation, base>>
      BY <1>3 DEF ApplyForRequest
    <2> QED
      BY <1>1, <1>2, <2>1, CompliantIs
         DEF ProtocolInv, Answerable, ResultsKeepTheirUses, Protocol
  <1>4. CASE Applied(p, startLen)
    <2> DEFINE c   == Compacted(p, startLen)
               new == c \o InFlight(startLen)
    <2>1. c \in Seq(Message) /\ Formed(c) /\ Closed(c)
      BY <1>1, <1>4, ProposalFacts, AppliedResumable
    <2>2. /\ new \in Seq(Message) /\ new # <<>>
          /\ new[Len(new)] = conversation[Len(conversation)]
          /\ NoOrphans(conversation) => NoOrphans(new)
          /\ Formed(conversation) => Formed(new)
      <3> HIDE DEF c
      <3> QED
        BY <1>1, <1>2, <2>1, Spliced DEF InFlight
    <2>3. \/ conversation' = new /\ base' = c /\ request'.msgs = new
          \/ UNCHANGED <<conversation, base>> /\ request'.msgs = new
      BY <1>4 DEF ApplyForRequest, ReplacePrefix
    <2> HIDE DEF c, new
    <2>4. Clean => Compliant(new)
      BY <2>2, CompliantIs DEF ProtocolInv, Protocol
    <2> QED
      BY <1>1, <2>1, <2>2, <2>3, <2>4
         DEF ProtocolInv, Answerable, ResultsKeepTheirUses, Protocol
  <1> QED
    BY <1>3, <1>4

LEMMA ProtocolStep ==
    ASSUME LoopInv, ProtocolInv, [Next]_vars
    PROVE  ProtocolInv'
  <1> USE DEF ProtocolInv, Answerable, ResultsKeepTheirUses, Protocol
  <1>a. conversation \in Seq(Message) /\ calls \in SUBSET CallId /\ runs \in Nat
    BY DEF LoopInv, TypeOK
  <1>1. CASE Exhausted
    BY <1>1, UncleanEnd DEF Exhausted, agent, Unclean
  <1>2. CASE ContextDone
    BY <1>2, UncleanEnd DEF ContextDone, agent, Unclean
  <1>3. CASE CalloutPanics
    BY <1>3, UncleanEnd DEF CalloutPanics, agent, Unclean
  <1>21. CASE ArchivePanics
    <2>1. UNCHANGED conversation /\ Return("panicked")
      BY <1>21 DEF ArchivePanics, ArchivalPanics
    <2> QED
      BY <2>1, UncleanEnd DEF Unclean
  <1>4. CASE BuildRequest
    <2>1. /\ pc = "head" /\ pc' = "hook" /\ request'.msgs = conversation
          /\ UNCHANGED <<conversation, base, outcomes>>
      BY <1>4 DEF BuildRequest, AtHead, agent, history
    <2>2. conversation # <<>>
      BY <1>a, <2>1 DEF LoopInv, RollbackAnchor, TypeOK
    <2> QED
      BY <1>a, <2>1, <2>2, CompliantIs DEF Clean
  <1>5. CASE HookPasses
    <2>1. /\ pc = "hook" /\ pc' = "call"
          /\ UNCHANGED <<conversation, base, outcomes>>
      BY <1>5 DEF HookPasses, agent
    <2>2. request' = request \/ request'.modified
      BY <1>5 DEF HookPasses, Rewritten
    <2> QED
      BY <2>1, <2>2 DEF Clean
  <1>6. CASE HookAborts
    BY <1>6, AbortedEnd DEF HookAborts
  <1>7. CASE BatchAborts
    BY <1>7, AbortedEnd DEF BatchAborts
  <1>8. CASE Substitute
    BY <1>8, AcceptedProtocol DEF Substitute
  <1>9. CASE Answered
    BY <1>9, AcceptedProtocol DEF Answered
  <1>10. CASE CallFails
    BY <1>10, FailedEnd DEF CallFails
  <1>11. CASE OverflowFails
    BY <1>11, FailedEnd DEF OverflowFails
  <1>12. CASE ProactiveCompaction
    <2>1. PICK p \in Proposals(compaction, Prefix(startLen)) :
            IF Rejected(p, startLen)
              THEN FailCall
              ELSE ApplyForRequest(p) /\ pc' = "hook" /\ UNCHANGED outcomes
      BY <1>12 DEF ProactiveCompaction
    <2>2. pc = "head"
      BY <1>12 DEF ProactiveCompaction, AtHead
    <2>3. CASE Rejected(p, startLen)
      BY <2>1, <2>2, <2>3, FailedEnd
    <2>4. CASE ~Rejected(p, startLen)
      BY <2>1, <2>2, <2>4, AppliedProtocol
    <2> QED
      BY <2>3, <2>4
  <1>13. CASE ReactiveCompaction
    <2>1. PICK p \in Proposals(compaction, Prefix(startLen)) :
            IF Applied(p, startLen)
              THEN ApplyForRequest(p) /\ pc' = "retry" /\ UNCHANGED outcomes
              ELSE FailCall
      BY <1>13 DEF ReactiveCompaction
    <2>2. pc = "call"
      BY <1>13 DEF ReactiveCompaction, MayCompact
    <2>3. CASE ~Applied(p, startLen)
      BY <2>1, <2>2, <2>3, FailedEnd
    <2>4. CASE Applied(p, startLen)
      BY <2>1, <2>2, <2>4, AppliedProtocol DEF Applied
    <2> QED
      BY <2>3, <2>4
  <1>14. CASE BatchDone
    <2>1. /\ conversation' = conversation \o <<ToolResults(runs, calls)>>
          /\ pc = "tools" /\ pc' = "head" /\ UNCHANGED <<base, outcomes>>
      BY <1>14 DEF BatchDone, Commit
    <2>2. /\ conversation'[Len(conversation')].role = "user"
          /\ NoOrphans(conversation) => NoOrphans(conversation')
          /\ Formed(conversation) => Formed(conversation')
      BY <1>a, <2>1, AppendResults
    <2> QED
      BY <2>1, <2>2 DEF Clean
  <1>15. CASE StartRun
    <2>1. /\ conversation' = conversation \o <<UserText(runs + 1)>> /\ base' = conversation
          /\ pc = "idle" /\ pc' = "head" /\ UNCHANGED outcomes /\ runs + 1 \in Nat
      BY <1>a, <1>15 DEF StartRun, Commit
    <2>2. /\ NoOrphans(conversation) => NoOrphans(conversation')
          /\ Formed(conversation) /\ Closed(conversation) => Formed(conversation')
      BY <1>a, <2>1, AppendUser
    <2>3. conversation'[Len(conversation')].role = "user"
      <3>1. UserText(runs + 1) \in Message /\ UserText(runs + 1).role = "user"
        BY <2>1, MessageTypes DEF UserText
      <3>2. conversation'[Len(conversation')] = UserText(runs + 1)
        BY <1>a, <2>1, <3>1
      <3> QED
        BY <3>1, <3>2
    <2> QED
      BY <2>1, <2>2, <2>3 DEF Clean
  <1>16. CASE ManualCompact
    <2>1. PICK p \in Proposals(compaction, conversation) :
            \/ Applied(p, Len(conversation)) /\ ReplacePrefix(p, Len(conversation))
            \/ UNCHANGED conversation
      BY <1>16 DEF ManualCompact, ArchivalPanics
    <2>2. pc = "idle" /\ pc' = "idle" /\ UNCHANGED outcomes
      BY <1>16 DEF ManualCompact, locals
    <2>3. CASE UNCHANGED conversation
      BY <2>1, <2>2, <2>3 DEF Clean
    <2>4. CASE Applied(p, Len(conversation)) /\ ReplacePrefix(p, Len(conversation))
      <3>1. Len(conversation) \in 0..Len(conversation)
        BY <1>a, LenProperties
      <3>2. /\ Compacted(p, Len(conversation)) \in Seq(Message)
            /\ Formed(Compacted(p, Len(conversation)))
            /\ Closed(Compacted(p, Len(conversation)))
        BY <1>a, <2>4, <3>1, ProposalFacts, AppliedResumable
      <3>3. InFlight(Len(conversation)) = <<>>
        BY <1>a, <3>1, SubSeqEmpty DEF InFlight
      <3>4. conversation' = Compacted(p, Len(conversation))
        <4>1. conversation' = Compacted(p, Len(conversation)) \o <<>>
          BY <2>1, <2>4, <3>3 DEF ReplacePrefix
        <4> QED
          BY <3>2, <4>1
      <3> QED
        BY <2>2, <3>2, <3>4 DEF Formed
    <2> QED
      BY <2>1, <2>3, <2>4
  <1>17. CASE SetCompaction
    BY <1>17 DEF SetCompaction, locals, history, Clean
  <1>18. CASE Resume
    BY <1>18 DEF Resume, locals, Clean
  <1>19. CASE Cancel
    BY <1>19 DEF Cancel, agent, history, Clean
  <1>20. CASE UNCHANGED vars
    BY <1>20 DEF vars, agent, locals, history, Clean
  <1> QED
    BY <1>1, <1>2, <1>3, <1>4, <1>5, <1>6, <1>7, <1>8, <1>9, <1>10, <1>11, <1>12, <1>13,
       <1>14, <1>15, <1>16, <1>17, <1>18, <1>19, <1>20, <1>21 DEF Next, RunStep, Host

-----------------------------------------------------------------------------
(* Theorems                                                                *)

\* The protocol's invariant, with the anchor's, always holds.
THEOREM ProtocolInvariance == Spec => [](LoopInv /\ ProtocolInv)
  <1>1. Init => LoopInv /\ ProtocolInv
    BY InitInv, ProtocolInit
  <1>2. LoopInv /\ ProtocolInv /\ [Next]_vars => LoopInv' /\ ProtocolInv'
    BY TypeOKStep, AnchorStep, ProtocolStep DEF LoopInv
  <1> QED
    BY <1>1, <1>2, PTL DEF Spec

\* No tool_result ever loses the tool_use it answers: not by rollback, and not by
\* the cut of any strategy, an application's own included (compaction.go:166-172).
THEOREM UsesKept == Spec => []ResultsKeepTheirUses
  BY ProtocolInvariance, PTL DEF ProtocolInv

\* What Conversation returns between Runs can be resumed, as long as no Run ended
\* past its first turn by an error, a cancellation, its iteration limit, a truncated
\* answer or a panic (agent.go:240-298, resumption.go:66-146).
THEOREM Resumption == Spec => []CommittedResumable
  <1>1. LoopInv /\ ProtocolInv => CommittedResumable
    BY ResumableIs DEF LoopInv, TypeOK, ProtocolInv, Protocol, CommittedResumable
  <1> QED
    BY <1>1, ProtocolInvariance, PTL

\* Under the same condition every request that no hook wrote obeys the message
\* protocol: the first, the transiently compacted and the retried (agent.go:167-249).
THEOREM Compliance == Spec => []RequestsCompliant
  <1>1. ProtocolInv => RequestsCompliant
    BY DEF ProtocolInv, Protocol, RequestsCompliant
  <1> QED
    BY <1>1, ProtocolInvariance, PTL

-----------------------------------------------------------------------------
(* The size signal                                                         *)

\* After a compaction and before the next call the signal is zero.
Signal == ~calledSince => lastCallInputTokens = 0

LEMMA AppliedSignal ==
    ASSUME Signal, NEW p, ApplyForRequest(p)
    PROVE  Signal'
  <1>1. CASE UNCHANGED <<lastCallInputTokens, calledSince>>
    BY <1>1 DEF Signal
  <1>2. CASE lastCallInputTokens' = 0
    BY <1>2 DEF Signal
  <1> QED
    BY <1>1, <1>2 DEF ApplyForRequest, SizeAfterCompaction

LEMMA SignalStep ==
    ASSUME Signal, [Next]_vars, "manual_compact" \notin Env
    PROVE  Signal'
  <1>1. CASE ProactiveCompaction
    <2>1. PICK p \in Proposals(compaction, Prefix(startLen)) :
            \/ UNCHANGED <<lastCallInputTokens, calledSince>>
            \/ ApplyForRequest(p)
      BY <1>1 DEF ProactiveCompaction
    <2> QED
      BY <2>1, AppliedSignal DEF Signal
  <1>2. CASE ReactiveCompaction
    <2>1. PICK p \in Proposals(compaction, Prefix(startLen)) :
            calledSince' = TRUE \/ ApplyForRequest(p)
      BY <1>2 DEF ReactiveCompaction
    <2> QED
      BY <2>1, AppliedSignal DEF Signal
  <1>3. CASE calledSince' = TRUE
    BY <1>3 DEF Signal
  <1>4. CASE UNCHANGED <<lastCallInputTokens, calledSince>>
    BY <1>4 DEF Signal
  <1>5. CASE Resume
    BY <1>5 DEF Resume, Signal
  <1>6. CASE CalloutPanics
    BY <1>6 DEF CalloutPanics, Signal, agent
  <1>7. CASE ArchivePanics
    BY <1>7 DEF ArchivePanics, Signal
  <1> QED
    BY <1>1, <1>2, <1>3, <1>4, <1>5, <1>6, <1>7
       DEF Next, RunStep, Host, Exhausted, ContextDone, BuildRequest, HookPasses,
           HookAborts, Substitute, Answered, CallFails, OverflowFails, BatchDone,
           BatchAborts, StartRun, ManualCompact, SetCompaction, Cancel, agent, history, vars

\* Inside Runs two committed compactions always have a Completer call between them,
\* or the second one answers an overflow: no stale size signal compacts twice
\* (compaction.go:248-261).  The manual trigger leaves the signal as it was.
THEOREM Separation ==
    ASSUME "manual_compact" \notin Env
    PROVE  Spec => CompactionsSeparatedByCalls
  <1>1. Init => Signal
    BY DEF Init, Signal
  <1>2. Signal /\ [Next]_vars => Signal'
    BY SignalStep
  <1>3. Signal /\ TypeOK /\ [Next]_vars =>
          [archive' # archive /\ pc' # "idle" => calledSince \/ pc = "call"]_vars
    <2> SUFFICES ASSUME Signal, TypeOK, [Next]_vars, archive' # archive, pc' # "idle"
                 PROVE  calledSince \/ pc = "call"
      OBVIOUS
    <2>1. CASE ProactiveCompaction
      <3>1. compaction \in CompactionConfig
        <4>1. Disabled \in CompactionConfig
          BY DEF Disabled, CompactionConfig, Unset
        <4>2. compaction \in Configs \/ compaction = Disabled
          BY DEF TypeOK
        <4>3. Configs \subseteq CompactionConfig
          BY ConstantsAssumption
        <4> QED
          BY <4>1, <4>2, <4>3
      <3>2. ProactiveThreshold(compaction) \in Nat
        BY <3>1 DEF ProactiveThreshold, CompactionConfig
      <3>3. /\ ProactiveThreshold(compaction) > 0 /\ lastCallInputTokens \in Nat
            /\ lastCallInputTokens >= ProactiveThreshold(compaction)
        BY <2>1 DEF ProactiveCompaction, ProactiveDue, TypeOK
      <3>4. lastCallInputTokens # 0
        <4> HIDE DEF ProactiveThreshold
        <4> QED
          BY <3>2, <3>3
      <3> QED
        BY <3>4 DEF Signal
    <2>2. CASE ReactiveCompaction
      BY <2>2 DEF ReactiveCompaction, MayCompact
    <2> QED
      BY <2>1, <2>2
         DEF Next, RunStep, Host, Exhausted, ContextDone, BuildRequest, HookPasses,
             HookAborts, Substitute, Answered, CallFails, CalloutPanics, OverflowFails,
             ArchivePanics, BatchDone, BatchAborts, StartRun, ManualCompact, SetCompaction,
             Resume, Cancel, Return, locals, vars
  <1> QED
    BY <1>1, <1>2, <1>3, LoopTyping, PTL DEF Spec, CompactionsSeparatedByCalls

-----------------------------------------------------------------------------
(* The messages that are no summary                                        *)

\* Sequences are reached from the empty one by appending.
LEMMA ByAppending ==
    ASSUME NEW T, << >> \in T,
           \A h \in Seq(Message), m \in Message : h \in T => Append(h, m) \in T
    PROVE  \A h \in Seq(Message) : h \in T
  <1> DEFINE Missed == {n \in Nat : \E h \in Seq(Message) : Len(h) = n /\ h \notin T}
  <1> SUFFICES ASSUME NEW g \in Seq(Message), g \notin T
               PROVE  FALSE
    OBVIOUS
  <1>1. Missed \subseteq Nat /\ Len(g) \in Missed
    BY LenProperties
  <1> DEFINE n == Min(Missed)
  <1>2. n \in Missed /\ \A i \in Missed : n <= i
    <2> HIDE DEF Missed
    <2> QED
      BY <1>1, LeastNumber
  <1>3. PICK h \in Seq(Message) : Len(h) = n /\ h \notin T
    BY <1>2
  <1>4. PICK s \in Seq(Message), m \in Message : h = Append(s, m)
    BY <1>3, SequenceEmptyOrAppend
  <1>5. s \notin T /\ Len(s) \in Nat /\ Len(h) = Len(s) + 1
    BY <1>3, <1>4, AppendProperties, LenProperties
  <1>6. Len(s) \in Missed
    BY <1>5
  <1> QED
    <2> HIDE DEF Missed, n
    <2> QED
      BY <1>2, <1>3, <1>5, <1>6

\* One step of the recursion, and all of it.
Say(before, m) == IF m.text = Summary THEN before ELSE Append(before, m)

SaidOf(h, said) ==
    said = [i \in 0..Len(h) |->
              IF i = 0 THEN << >>
              ELSE IF h[i].text = Summary THEN said[i - 1] ELSE Append(said[i - 1], h[i])]

LEMMA SaidAt ==
    ASSUME NEW h \in Seq(Message), NEW f
    PROVE  SaidOf(h, f) <=> /\ DOMAIN f = 0..Len(h) /\ f = [i \in 0..Len(h) |-> f[i]]
                            /\ f[0] = << >>
                            /\ \A i \in 1..Len(h) : f[i] = Say(f[i - 1], h[i])
  <1>1. Len(h) \in Nat
    BY LenProperties
  <1>2. ASSUME SaidOf(h, f)
        PROVE  /\ DOMAIN f = 0..Len(h) /\ f = [i \in 0..Len(h) |-> f[i]]
               /\ f[0] = << >>
               /\ \A i \in 1..Len(h) : f[i] = Say(f[i - 1], h[i])
    <2> DEFINE Value(i) ==
                 IF i = 0 THEN << >>
                 ELSE IF h[i].text = Summary THEN f[i - 1] ELSE Append(f[i - 1], h[i])
    <2>1. f = [i \in 0..Len(h) |-> Value(i)]
      BY <1>2 DEF SaidOf
    <2>2. DOMAIN f = 0..Len(h) /\ \A i \in 0..Len(h) : f[i] = Value(i)
      <3> HIDE DEF Value
      <3> QED
        BY <2>1
    <2>3. f = [i \in 0..Len(h) |-> f[i]]
      <3> HIDE DEF Value
      <3> QED
        BY <2>1, <2>2
    <2>4. 0 \in 0..Len(h) /\ \A i \in 1..Len(h) : i \in 0..Len(h) /\ i # 0
      BY <1>1
    <2>5. \A i \in 1..Len(h) : Value(i) = Say(f[i - 1], h[i])
      BY <2>4 DEF Say
    <2>6. Value(0) = << >>
      OBVIOUS
    <2> QED
      <3> HIDE DEF Value
      <3> QED
        BY <2>2, <2>3, <2>4, <2>5, <2>6
  <1>3. ASSUME DOMAIN f = 0..Len(h), f = [i \in 0..Len(h) |-> f[i]], f[0] = << >>,
               \A i \in 1..Len(h) : f[i] = Say(f[i - 1], h[i])
        PROVE  SaidOf(h, f)
    <2> DEFINE Value(i) ==
                 IF i = 0 THEN << >>
                 ELSE IF h[i].text = Summary THEN f[i - 1] ELSE Append(f[i - 1], h[i])
    <2>1. \A i \in 0..Len(h) : f[i] = Value(i)
      <3> TAKE i \in 0..Len(h)
      <3>1. CASE i = 0
        BY <3>1, <1>3
      <3>2. CASE i # 0
        <4>1. i \in 1..Len(h)
          BY <3>2, <1>1
        <4>2. f[i] = Say(f[i - 1], h[i])
          BY <4>1, <1>3
        <4> QED
          BY <4>2, <3>2 DEF Say
      <3> QED
        BY <3>1, <3>2
    <2>2. f = [i \in 0..Len(h) |-> Value(i)]
      <3> HIDE DEF Value
      <3> QED
        BY <2>1, <1>3
    <2> QED
      BY <2>2 DEF SaidOf
  <1> QED
    BY <1>2, <1>3

\* The recursive function of Verbatim exists, for histories of any length.
LEMMA SaidExists == \A h \in Seq(Message) : \E f : SaidOf(h, f)
  <1> DEFINE T == {h \in Seq(Message) : \E f : SaidOf(h, f)}
  <1>1. << >> \in T
    <2> DEFINE f == [i \in 0..0 |-> << >>]
    <2>1. << >> \in Seq(Message) /\ Len(<< >>) = 0
      BY EmptySeq
    <2>2. DOMAIN f = 0..0 /\ f = [i \in 0..0 |-> f[i]] /\ f[0] = << >>
      OBVIOUS
    <2>3. SaidOf(<< >>, f)
      <3> HIDE DEF f
      <3>1. \A i \in 1..Len(<< >>) : f[i] = Say(f[i - 1], << >>[i])
        BY <2>1
      <3> QED
        BY <2>1, <2>2, <3>1, SaidAt
    <2> QED
      BY <2>1, <2>3, Zenon
  <1>2. ASSUME NEW h \in Seq(Message), NEW m \in Message, h \in T
        PROVE  Append(h, m) \in T
    <2> DEFINE s == Append(h, m)
               n == Len(h)
    <2>1. PICK g : SaidOf(h, g)
      BY <1>2
    <2>2. /\ DOMAIN g = 0..n /\ g[0] = << >>
          /\ \A i \in 1..n : g[i] = Say(g[i - 1], h[i])
      BY <2>1, SaidAt
    <2>3. s \in Seq(Message) /\ Len(s) = n + 1 /\ \A i \in 1..n : s[i] = h[i]
      BY AppendProperties
    <2>4. n \in Nat
      BY LenProperties
    <2> HIDE DEF s, n
    <2> DEFINE f == [i \in 0..n + 1 |-> IF i <= n THEN g[i] ELSE Say(g[n], s[n + 1])]
    <2>5. /\ DOMAIN f = 0..n + 1 /\ f = [i \in 0..n + 1 |-> f[i]]
          /\ \A i \in 0..n : f[i] = g[i]
          /\ f[n + 1] = Say(g[n], s[n + 1])
      BY <2>4
    <2> HIDE DEF f
    <2>6. f[0] = << >>
      BY <2>2, <2>4, <2>5
    <2>7. ASSUME NEW i \in 1..n + 1
          PROVE  f[i] = Say(f[i - 1], s[i])
      <3>1. CASE i <= n
        <4>1. i \in 1..n /\ i \in 0..n /\ i - 1 \in 0..n
          BY <3>1, <2>4
        <4>2. f[i] = g[i] /\ f[i - 1] = g[i - 1] /\ s[i] = h[i] /\ g[i] = Say(g[i - 1], h[i])
          BY <4>1, <2>2, <2>3, <2>5
        <4> QED
          BY <4>2
      <3>2. CASE i = n + 1
        <4>1. i - 1 = n /\ n \in 0..n
          BY <3>2, <2>4
        <4> QED
          BY <4>1, <3>2, <2>5
      <3> QED
        BY <3>1, <3>2, <2>4
    <2>8. SaidOf(s, f)
      BY <2>3, <2>5, <2>6, <2>7, SaidAt
    <2> QED
      BY <2>3, <2>8 DEF s
  <1>3. \A h \in Seq(Message) : h \in T
    <2> HIDE DEF T
    <2> QED
      BY <1>1, <1>2, ByAppending
  <1> QED
    BY <1>3

LEMMA VerbatimSaid ==
    ASSUME NEW h \in Seq(Message)
    PROVE  \E f : SaidOf(h, f) /\ Verbatim(h) = f[Len(h)]
  <1>1. \E f : SaidOf(h, f)
    BY SaidExists
  <1>2. SaidOf(h, CHOOSE f : SaidOf(h, f))
    BY <1>1
  <1>3. Verbatim(h) = (CHOOSE f : SaidOf(h, f))[Len(h)]
    BY DEF Verbatim, SaidOf
  <1> QED
    BY <1>2, <1>3

LEMMA VerbatimEmpty == Verbatim(<< >>) = << >>
  <1>1. << >> \in Seq(Message) /\ Len(<< >>) = 0
    BY EmptySeq
  <1>2. PICK f : SaidOf(<< >>, f) /\ Verbatim(<< >>) = f[0]
    BY <1>1, VerbatimSaid
  <1> QED
    BY <1>1, <1>2, SaidAt

LEMMA VerbatimAppend ==
    ASSUME NEW h \in Seq(Message), NEW m \in Message
    PROVE  Verbatim(Append(h, m)) = Say(Verbatim(h), m)
  <1> DEFINE s == Append(h, m)
             n == Len(h)
  <1>1. n \in Nat
    BY LenProperties
  <1>2. s \in Seq(Message) /\ Len(s) = n + 1 /\ s[n + 1] = m /\ \A i \in 1..n : s[i] = h[i]
    BY AppendProperties
  <1>3. PICK f : SaidOf(s, f) /\ Verbatim(s) = f[n + 1]
    BY <1>2, VerbatimSaid
  <1>4. PICK g : SaidOf(h, g) /\ Verbatim(h) = g[n]
    BY VerbatimSaid
  <1> HIDE DEF s, n
  <1>5. f[0] = << >> /\ \A i \in 1..n + 1 : f[i] = Say(f[i - 1], s[i])
    <2>1. f[0] = << >> /\ \A i \in 1..Len(s) : f[i] = Say(f[i - 1], s[i])
      BY <1>2, <1>3, SaidAt, Zenon
    <2> QED
      BY <1>2, <2>1, Zenon
  <1>6. g[0] = << >> /\ \A i \in 1..n : g[i] = Say(g[i - 1], h[i])
    BY <1>4, SaidAt DEF n
  <1>7. f[n] = g[n]
    <2> DEFINE Missed == {i \in 0..n : f[i] # g[i]}
               k      == Min(Missed)
    <2> SUFFICES ASSUME f[n] # g[n] PROVE FALSE
      OBVIOUS
    <2>1. Missed \subseteq Nat /\ n \in Missed
      BY <1>1
    <2>2. k \in Missed /\ \A i \in Missed : k <= i
      <3> HIDE DEF Missed
      <3> QED
        BY <2>1, LeastNumber
    <2>3. k \in 0..n /\ f[k] # g[k] /\ k - 1 \notin Missed
      BY <2>2, <1>1
    <2>4. k # 0
      BY <2>3, <1>5, <1>6
    <2>5. k \in 1..n /\ k \in 1..n + 1 /\ k - 1 \in 0..n
      <3> HIDE DEF k, Missed
      <3> QED
        BY <2>3, <2>4, <1>1
    <2>6. f[k - 1] = g[k - 1]
      BY <2>3, <2>5
    <2> HIDE DEF k, Missed
    <2> QED
      BY <2>3, <2>5, <2>6, <1>2, <1>5, <1>6
  <1>8. n + 1 \in 1..n + 1 /\ (n + 1) - 1 = n
    BY <1>1
  <1>9. f[n + 1] = Say(f[n], m)
    BY <1>2, <1>5, <1>8
  <1> QED
    BY <1>3, <1>4, <1>7, <1>9 DEF s

LEMMA VerbatimType == \A h \in Seq(Message) : Verbatim(h) \in Seq(Message)
  <1> DEFINE T == {h \in Seq(Message) : Verbatim(h) \in Seq(Message)}
  <1>1. << >> \in T
    BY VerbatimEmpty, EmptySeq
  <1>2. ASSUME NEW h \in Seq(Message), NEW m \in Message, h \in T
        PROVE  Append(h, m) \in T
    <2>1. Append(h, m) \in Seq(Message) /\ Append(Verbatim(h), m) \in Seq(Message)
      BY <1>2, AppendProperties
    <2>2. Verbatim(Append(h, m)) = Say(Verbatim(h), m)
      BY VerbatimAppend
    <2> QED
      BY <1>2, <2>1, <2>2 DEF Say
  <1> HIDE DEF T
  <1>3. \A h \in Seq(Message) : h \in T
    BY <1>1, <1>2, ByAppending
  <1> QED
    BY <1>3 DEF T

LEMMA Regrouped ==
    ASSUME NEW a \in Seq(Message), NEW b \in Seq(Message), NEW m \in Message
    PROVE  a \o Append(b, m) = Append(a \o b, m)
  <1>0. <<m>> \in Seq(Message)
    OBVIOUS
  <1>1. PICK one \in Seq(Message) : one = <<m>>
    BY <1>0
  <1>2. a \o b \in Seq(Message)
    BY ConcatProperties
  <1>3. Append(b, m) = b \o one /\ Append(a \o b, m) = (a \o b) \o one
    BY <1>1, <1>2, AppendIsConcat
  <1>4. (a \o b) \o one = a \o (b \o one)
    BY ConcatAssociative
  <1> QED
    BY <1>3, <1>4

\* Selecting goes through a concatenation.
LEMMA VerbatimJoin ==
    ASSUME NEW a \in Seq(Message), NEW b \in Seq(Message)
    PROVE  Verbatim(a \o b) = Verbatim(a) \o Verbatim(b)
  <1> DEFINE T == {h \in Seq(Message) : Verbatim(a \o h) = Verbatim(a) \o Verbatim(h)}
  <1>1. << >> \in T
    BY VerbatimEmpty, VerbatimType, EmptySeq, ConcatEmptySeq
  <1>2. ASSUME NEW h \in Seq(Message), NEW m \in Message, h \in T
        PROVE  Append(h, m) \in T
    <2>1. /\ a \o h \in Seq(Message) /\ Append(h, m) \in Seq(Message)
          /\ Verbatim(a) \in Seq(Message) /\ Verbatim(h) \in Seq(Message)
      BY ConcatProperties, AppendProperties, VerbatimType
    <2>2. \A s, t \in Seq(Message) : s \o Append(t, m) = Append(s \o t, m)
      BY Regrouped
    <2>3. /\ Verbatim(a \o Append(h, m)) = Say(Verbatim(a) \o Verbatim(h), m)
          /\ Verbatim(Append(h, m)) = Say(Verbatim(h), m)
      BY <1>2, <2>1, <2>2, VerbatimAppend
    <2>4. Say(Verbatim(a) \o Verbatim(h), m) = Verbatim(a) \o Say(Verbatim(h), m)
      BY <2>1, <2>2 DEF Say
    <2> QED
      BY <2>1, <2>3, <2>4
  <1> HIDE DEF T
  <1>3. \A h \in Seq(Message) : h \in T
    BY <1>1, <1>2, ByAppending
  <1> QED
    BY <1>3 DEF T

\* Nothing of a replacement made of summaries alone remains.
LEMMA VerbatimSummaries ==
    \A h \in Seq(Message) :
      (\A i \in 1..Len(h) : h[i].text = Summary) => Verbatim(h) = << >>
  <1> DEFINE Only(h) == \A i \in 1..Len(h) : h[i].text = Summary
             T       == {h \in Seq(Message) : Only(h) => Verbatim(h) = << >>}
  <1>1. << >> \in T
    BY VerbatimEmpty, EmptySeq
  <1>2. ASSUME NEW h \in Seq(Message), NEW m \in Message, h \in T, Only(Append(h, m))
        PROVE  Verbatim(Append(h, m)) = << >>
    <2> DEFINE s == Append(h, m)
    <2>1. /\ Len(h) \in Nat /\ Len(s) = Len(h) + 1 /\ s[Len(h) + 1] = m
          /\ \A i \in 1..Len(h) : s[i] = h[i]
      BY AppendProperties, LenProperties
    <2>2. \A i \in 1..Len(s) : s[i].text = Summary
      BY <1>2
    <2> HIDE DEF s
    <2>3. Only(h) /\ m.text = Summary
      BY <2>1, <2>2
    <2> QED
      BY <1>2, <2>3, VerbatimAppend DEF Say
  <1>3. \A h \in Seq(Message), m \in Message : h \in T => Append(h, m) \in T
    BY <1>2, AppendProperties
  <1> HIDE DEF T
  <1>4. \A h \in Seq(Message) : h \in T
    BY <1>1, <1>3, ByAppending
  <1> QED
    BY <1>4 DEF T

-----------------------------------------------------------------------------
(* The log                                                                 *)

\* What TurnLog sees of a state: its log and its mark.
Told == Verbatim(archive \o conversation)
Mark == IF pc = "idle" THEN 0 ELSE Len(Verbatim(archive \o Prefix(startLen)))

\* Every configuration that compacts archives, and every strategy replaces what it
\* cuts by generated summaries only.
ArchivesAll   == \A c \in Configs : Enabled(c) => c.archive
Delivers      == "archive_panic" \notin Env
SummariesOnly ==
    \A p \in CustomProposals : \A i \in 1..Len(p.replacement) : p.replacement[i].text = Summary

\* What a Run writes carries its number, which is not that of a summary.
Counted == pc # "idle" => runs > 0

LEMMA CountedStep ==
    ASSUME LoopInv, Counted, [Next]_vars
    PROVE  Counted'
  <1>1. CASE StartRun
    BY <1>1 DEF StartRun, Counted, LoopInv, TypeOK
  <1>2. CASE ~StartRun
    <2>1. runs' = runs
      BY <1>2 DEF Next, RunStep, Host, Exhausted, ContextDone, BuildRequest, ProactiveCompaction,
         HookPasses, HookAborts, Substitute, Answered, CallFails, CalloutPanics, OverflowFails,
         ReactiveCompaction, ArchivePanics, BatchDone, BatchAborts, ManualCompact, SetCompaction, Resume,
         Cancel, vars
    <2>2. pc = "idle" => pc' = "idle"
      BY <1>2 DEF Next, RunStep, Host, Exhausted, ContextDone, BuildRequest, ProactiveCompaction,
         HookPasses, HookAborts, Substitute, Answered, CallFails, CalloutPanics, OverflowFails,
         ReactiveCompaction, ArchivePanics, BatchDone, BatchAborts, ManualCompact, SetCompaction, Resume,
         Cancel, vars, locals, AtHead, MayCompact
    <2> QED
      BY <2>1, <2>2 DEF Counted
  <1> QED
    BY <1>1, <1>2

\* No summary survives into the log from what a strategy proposes.
LEMMA ProposedSummaries ==
    ASSUME SummariesOnly, NEW prefix, NEW p \in Proposals(compaction, prefix)
    PROVE  p.replacement \in Seq(Message) /\ Verbatim(p.replacement) = << >>
  <1>1. p.replacement \in Seq(Message)
    BY ProposalFacts
  <1>2. \A i \in 1..Len(p.replacement) : p.replacement[i].text = Summary
    <2>1. ASSUME NEW ok, NEW cut, NEW u, p = Proposed(ok, cut, << >>, u)
          PROVE  \A i \in 1..Len(p.replacement) : p.replacement[i].text = Summary
      <3>1. p.replacement = << >> /\ Len(<< >>) = 0
        BY <2>1, EmptySeq DEF Proposed
      <3> QED
        BY <3>1
    <2>2. ASSUME NEW ok, NEW cut, NEW u, p = Proposed(ok, cut, <<UserText(Summary)>>, u)
          PROVE  \A i \in 1..Len(p.replacement) : p.replacement[i].text = Summary
      <3>1. p.replacement = <<UserText(Summary)>>
        BY <2>2 DEF Proposed
      <3>2. UserText(Summary).text = Summary
        BY DEF UserText
      <3> QED
        BY <3>1, <3>2
    <2>3. CASE p \in CustomProposals
      BY <2>3 DEF SummariesOnly
    <2>4. ASSUME NEW cut, p \in SummaryProposals(cut)
          PROVE  \A i \in 1..Len(p.replacement) : p.replacement[i].text = Summary
      <3>1. \/ p = Proposed(TRUE, cut, <<UserText(Summary)>>, 1)
            \/ p = Proposed(FALSE, 0, << >>, 0)
            \/ p = Proposed(FALSE, 0, << >>, 1)
        BY <2>4, Zenon DEF SummaryProposals
      <3> QED
        BY <2>1, <2>2, <3>1, Zenon
    <2>5. CASE compaction.kind = "sliding"
      <3>1. p = Proposed(TRUE, SlidingCut(prefix, compaction.keep, compaction.chunk), << >>, 0)
        BY <2>5 DEF Proposals
      <3> QED
        BY <3>1, <2>1
    <2>6. CASE compaction.kind = "hybrid"
      <3> DEFINE cut == HybridCut(prefix, compaction.keep)
      <3>1. IF cut = 0 THEN p = Proposed(TRUE, 0, << >>, 0) ELSE p \in SummaryProposals(cut)
        BY <2>6 DEF Proposals
      <3> QED
        BY <3>1, <2>1, <2>4
    <2>7. CASE compaction.kind \notin {"sliding", "hybrid"}
      BY <2>7, <2>3 DEF Proposals
    <2> QED
      BY <2>5, <2>6, <2>7
  <1> QED
    BY <1>1, <1>2, VerbatimSummaries

\* A prefix in two parts.
LEMMA Halved ==
    ASSUME NEW s \in Seq(Message), NEW n \in 0..Len(s), NEW m \in n..Len(s)
    PROVE  /\ SubSeq(s, 1, n) \in Seq(Message) /\ SubSeq(s, n + 1, m) \in Seq(Message)
           /\ SubSeq(s, 1, m) \in Seq(Message)
           /\ SubSeq(s, 1, m) = SubSeq(s, 1, n) \o SubSeq(s, n + 1, m)
  <1> DEFINE a == SubSeq(s, 1, n)
             b == SubSeq(s, n + 1, m)
             c == SubSeq(s, 1, m)
  <1>1. Len(s) \in Nat /\ m \in 0..Len(s) /\ n \in Nat /\ m \in Nat /\ n <= m
    BY LenProperties
  <1>2. a \in Seq(Message) /\ Len(a) = n /\ \A i \in 1..n : a[i] = s[i]
    BY PrefixFacts
  <1>3. b \in Seq(Message) /\ Len(b) = m - n /\ \A i \in 1..m - n : b[i] = s[n + i]
    BY SuffixFacts
  <1>4. c \in Seq(Message) /\ Len(c) = m /\ \A i \in 1..m : c[i] = s[i]
    BY <1>1, PrefixFacts
  <1> HIDE DEF a, b, c
  <1>5. /\ a \o b \in Seq(Message) /\ Len(a \o b) = Len(a) + Len(b)
        /\ \A i \in 1..Len(a) + Len(b) : (a \o b)[i] = IF i <= Len(a) THEN a[i] ELSE b[i - Len(a)]
    BY <1>2, <1>3, ConcatProperties
  <1>6. Len(a \o b) = m
    BY <1>1, <1>2, <1>3, <1>5
  <1>7. \A i \in 1..m : (a \o b)[i] = c[i]
    <2> TAKE i \in 1..m
    <2>1. i \in 1..Len(a) + Len(b)
      BY <1>1, <1>2, <1>3
    <2>2. CASE i <= n
      <3>1. i \in 1..n
        BY <1>1, <2>2
      <3>2. (a \o b)[i] = a[i]
        BY <1>2, <1>5, <2>1, <2>2
      <3> QED
        BY <1>2, <1>4, <3>1, <3>2
    <2>3. CASE ~(i <= n)
      <3>1. i - n \in 1..m - n /\ n + (i - n) = i
        BY <1>1, <2>3
      <3>2. (a \o b)[i] = b[i - n]
        BY <1>2, <1>5, <2>1, <2>3
      <3> QED
        BY <1>3, <1>4, <3>1, <3>2
    <2> QED
      BY <2>2, <2>3
  <1>8. c = a \o b
    BY <1>4, <1>5, <1>6, <1>7, SeqEqual
  <1> QED
    BY <1>2, <1>3, <1>4, <1>8 DEF a, b, c

\* Concatenation as an operator the provers do not look into.
Cat(a, b) == a \o b

LEMMA CatFacts ==
    /\ \A a, b \in Seq(Message) :
         Cat(a, b) \in Seq(Message) /\ Verbatim(Cat(a, b)) = Cat(Verbatim(a), Verbatim(b))
    /\ \A a, b, c \in Seq(Message) : Cat(Cat(a, b), c) = Cat(a, Cat(b, c))
    /\ \A a \in Seq(Message) : Cat(<< >>, a) = a
    /\ \A a \in Seq(Message) : Verbatim(a) \in Seq(Message)
  <1>1. ASSUME NEW a \in Seq(Message), NEW b \in Seq(Message)
        PROVE  a \o b \in Seq(Message) /\ Verbatim(a \o b) = Verbatim(a) \o Verbatim(b)
    BY VerbatimJoin, ConcatProperties
  <1>2. ASSUME NEW a \in Seq(Message), NEW b \in Seq(Message), NEW c \in Seq(Message)
        PROVE  (a \o b) \o c = a \o (b \o c)
    BY ConcatAssociative
  <1>3. ASSUME NEW a \in Seq(Message)
        PROVE  << >> \o a = a
    BY ConcatEmptySeq
  <1> QED
    BY <1>1, <1>2, <1>3, VerbatimType DEF Cat

\* Moving the cut from the history to the archive, behind a replacement of summaries.
LEMMA Moved ==
    ASSUME NEW a \in Seq(Message), NEW gone \in Seq(Message), NEW kept \in Seq(Message),
           NEW rest \in Seq(Message), NEW r \in Seq(Message), Verbatim(r) = << >>
    PROVE  /\ Verbatim((a \o gone) \o (r \o kept)) = Verbatim(a \o (gone \o kept))
           /\ Verbatim((a \o gone) \o ((r \o kept) \o rest))
                = Verbatim(a \o ((gone \o kept) \o rest))
  <1>1. Verbatim(Cat(r, kept)) = Verbatim(kept)
    BY CatFacts
  <1>2. Verbatim(Cat(Cat(a, gone), Cat(r, kept))) = Verbatim(Cat(a, Cat(gone, kept)))
    BY <1>1, CatFacts
  <1>3. Verbatim(Cat(Cat(a, gone), Cat(Cat(r, kept), rest)))
          = Verbatim(Cat(a, Cat(Cat(gone, kept), rest)))
    <2>1. Cat(Cat(a, gone), Cat(Cat(r, kept), rest)) = Cat(Cat(Cat(a, gone), Cat(r, kept)), rest)
      BY CatFacts
    <2>2. Cat(a, Cat(Cat(gone, kept), rest)) = Cat(Cat(a, Cat(gone, kept)), rest)
      BY CatFacts
    <2>3. \A x, y \in Seq(Message) :
            Verbatim(x) = Verbatim(y) => Verbatim(Cat(x, rest)) = Verbatim(Cat(y, rest))
      BY CatFacts
    <2>4. /\ Cat(Cat(a, gone), Cat(r, kept)) \in Seq(Message)
          /\ Cat(a, Cat(gone, kept)) \in Seq(Message)
      BY CatFacts
    <2> QED
      BY <1>2, <2>1, <2>2, <2>3, <2>4
  <1> QED
    BY <1>2, <1>3 DEF Cat

\* What a committed compaction moves to the archive is what it takes from the history.
LEMMA ReplacedTold ==
    ASSUME TypeOK, NEW limit \in 0..Len(conversation), NEW p,
           p.replacement \in Seq(Message), Verbatim(p.replacement) = << >>,
           p.cut \in 0..limit, compaction.archive, ReplacePrefix(p, limit)
    PROVE  /\ Verbatim(archive' \o conversation') = Verbatim(archive \o conversation)
           /\ Verbatim(archive' \o Compacted(p, limit)) = Verbatim(archive \o Prefix(limit))
  <1> DEFINE gone  == SubSeq(conversation, 1, p.cut)
             kept  == SubSeq(conversation, p.cut + 1, limit)
             rest  == SubSeq(conversation, limit + 1, Len(conversation))
  <1>1. /\ conversation \in Seq(Message) /\ archive \in Seq(Message)
        /\ Len(conversation) \in Nat /\ limit \in Nat /\ p.cut \in Nat
        /\ p.cut \in 0..Len(conversation) /\ limit \in p.cut..Len(conversation)
        /\ Len(conversation) \in limit..Len(conversation)
    BY LenProperties DEF TypeOK
  <1>2. gone \in Seq(Message) /\ kept \in Seq(Message) /\ Prefix(limit) = gone \o kept
    BY <1>1, Halved DEF Prefix
  <1>3. /\ Prefix(limit) \in Seq(Message) /\ rest \in Seq(Message)
        /\ conversation = Prefix(limit) \o rest
    <2>1. SubSeq(conversation, 1, Len(conversation)) = conversation
      BY <1>1, SubSeqFull
    <2> QED
      BY <1>1, <2>1, Halved DEF Prefix
  <1>4. /\ archive' = archive \o gone
        /\ Compacted(p, limit) = p.replacement \o kept
        /\ conversation' = (p.replacement \o kept) \o rest
    BY DEF ReplacePrefix, Delivered, Prefix, Compacted, Composed, InFlight
  <1> HIDE DEF gone, kept, rest
  <1>5. /\ Verbatim((archive \o gone) \o (p.replacement \o kept))
             = Verbatim(archive \o (gone \o kept))
        /\ Verbatim((archive \o gone) \o ((p.replacement \o kept) \o rest))
             = Verbatim(archive \o ((gone \o kept) \o rest))
    BY <1>1, <1>2, <1>3, Moved
  <1> QED
    BY <1>2, <1>3, <1>4, <1>5

\* One more message, none of them a summary.
LEMMA WrittenTold ==
    ASSUME TypeOK, NEW m \in Message, m.text # Summary, Commit(<<m>>), archive' = archive
    PROVE  /\ Told \in Seq(Message) /\ Told' = Append(Told, m)
           /\ Len(Told') = Len(Told) + 1 /\ SubSeq(Told', 1, Len(Told)) = Told
           /\ \A n \in 0..Len(conversation) : Prefix(n)' = Prefix(n)
  <1>1. /\ archive \in Seq(Message) /\ conversation \in Seq(Message)
        /\ archive \o conversation \in Seq(Message)
    BY ConcatProperties DEF TypeOK
  <1>2. conversation' = Append(conversation, m)
    BY <1>1, AppendIsConcat DEF Commit
  <1>3. archive' \o conversation' = Append(archive \o conversation, m)
    BY <1>1, <1>2, Regrouped
  <1>4. Told \in Seq(Message) /\ Told' = Append(Told, m)
    BY <1>1, <1>3, VerbatimAppend, VerbatimType DEF Told, Say
  <1>5. Len(Told') = Len(Told) + 1 /\ SubSeq(Told', 1, Len(Told)) = Told
    <2> DEFINE old == Told
    <2>1. old \in Seq(Message) /\ Told' = Append(old, m)
      BY <1>4
    <2> HIDE DEF old
    <2>2. /\ Append(old, m) \in Seq(Message) /\ Len(Append(old, m)) = Len(old) + 1
          /\ \A i \in 1..Len(old) : Append(old, m)[i] = old[i]
      BY <2>1, AppendProperties
    <2>3. Len(old) \in Nat
      BY <2>1, LenProperties
    <2> DEFINE new == Append(old, m)
    <2>4. /\ SubSeq(new, 1, Len(old)) \in Seq(Message) /\ Len(SubSeq(new, 1, Len(old))) = Len(old)
          /\ \A i \in 1..Len(old) : SubSeq(new, 1, Len(old))[i] = new[i]
      BY <2>2, <2>3, PrefixFacts
    <2>5. SubSeq(new, 1, Len(old)) = old
      <3> HIDE DEF new
      <3>1. \A i \in 1..Len(old) : new[i] = old[i]
        BY <2>2 DEF new
      <3> QED
        BY <2>1, <2>4, <3>1, SeqEqual
    <2> QED
      BY <2>1, <2>2, <2>5 DEF old
  <1>6. ASSUME NEW n \in 0..Len(conversation) PROVE Prefix(n)' = Prefix(n)
    BY CommitFacts DEF Prefix
  <1> QED
    BY <1>4, <1>5, <1>6

\* Taking back the Run leaves the log that was there when it began.
LEMMA BaseTold ==
    ASSUME LoopInv, pc # "idle", conversation' = base, archive' = archive
    PROVE  Told' = SubSeq(Told, 1, Mark)
  <1>1. /\ conversation \in Seq(Message) /\ archive \in Seq(Message)
        /\ startLen \in 0..Len(conversation) /\ Len(conversation) \in startLen..Len(conversation)
        /\ Prefix(startLen) = base
    BY LenProperties DEF LoopInv, TypeOK, RollbackAnchor
  <1> DEFINE rest == SubSeq(conversation, startLen + 1, Len(conversation))
             kept == Verbatim(Cat(archive, base))
  <1>2. base \in Seq(Message) /\ rest \in Seq(Message) /\ conversation = Cat(base, rest)
    <2>1. SubSeq(conversation, 1, Len(conversation)) = conversation
      BY <1>1, SubSeqFull
    <2> QED
      BY <1>1, <2>1, Halved DEF Prefix, Cat
  <1> HIDE DEF rest
  <1>3. Verbatim(Cat(archive, conversation)) = Cat(kept, Verbatim(rest))
    <2>1. Cat(archive, conversation) = Cat(Cat(archive, base), rest)
      BY <1>1, <1>2, CatFacts
    <2> QED
      BY <1>1, <1>2, <2>1, CatFacts
  <1>4. kept \in Seq(Message) /\ Verbatim(rest) \in Seq(Message)
    BY <1>1, <1>2, CatFacts
  <1>5. /\ Told = Verbatim(Cat(archive, conversation)) /\ Told' = kept /\ Mark = Len(kept)
    BY <1>1 DEF Told, Mark, Cat
  <1> HIDE DEF kept
  <1>6. SubSeq(kept \o Verbatim(rest), 1, Len(kept)) = kept
    BY <1>4, SpliceFacts
  <1> QED
    BY <1>3, <1>5, <1>6 DEF Cat

\* A compaction that is applied, to the history or to the request only, does not show.
LEMMA AppliedTold ==
    ASSUME ArchivesAll, SummariesOnly, LoopInv, pc # "idle", Enabled(compaction),
           NEW p \in Proposals(compaction, Prefix(startLen)),
           ~Rejected(p, startLen), ApplyForRequest(p)
    PROVE  /\ Told' = Told
           /\ Verbatim(archive' \o Prefix(startLen)') = Verbatim(archive \o Prefix(startLen))
  <1>1. CASE Applied(p, startLen) /\ Committed(compaction)
    <2>1. ReplacePrefix(p, startLen) /\ base' = Compacted(p, startLen)
      BY <1>1 DEF ApplyForRequest
    <2>2. startLen \in 0..Len(conversation) /\ p.cut \in 0..startLen /\ TypeOK
      BY <1>1, LenProperties DEF LoopInv, TypeOK, RollbackAnchor, Applied, Rejected
    <2>3. compaction.archive
      BY DEF ArchivesAll, LoopInv, TypeOK, Enabled, Disabled
    <2>4. p.replacement \in Seq(Message) /\ Verbatim(p.replacement) = << >>
      BY ProposedSummaries
    <2>5. /\ Verbatim(archive' \o conversation') = Verbatim(archive \o conversation)
          /\ Verbatim(archive' \o Compacted(p, startLen)) = Verbatim(archive \o Prefix(startLen))
      BY <2>1, <2>2, <2>3, <2>4, ReplacedTold
    <2>6. Prefix(startLen)' = Compacted(p, startLen)
      BY <2>1, ApplyFacts DEF Prefix
    <2> QED
      BY <2>5, <2>6 DEF Told
  <1>2. CASE ~(Applied(p, startLen) /\ Committed(compaction))
    <2>1. UNCHANGED <<conversation, archive, startLen>>
      BY <1>2 DEF ApplyForRequest
    <2> QED
      BY <2>1 DEF Told, Prefix
  <1> QED
    BY <1>1, <1>2

LEMMA ManualTold ==
    ASSUME ArchivesAll, SummariesOnly, Delivers, LoopInv, ManualCompact
    PROVE  Told' = Told
  <1>1. Enabled(compaction)
    BY DEF ManualCompact
  <1>2. PICK p \in Proposals(compaction, conversation) :
          IF Applied(p, Len(conversation)) THEN ReplacePrefix(p, Len(conversation))
          ELSE UNCHANGED <<conversation, archive, calledSince>>
    BY DEF ManualCompact, ArchivalMayPanic, Delivers
  <1>3. CASE Applied(p, Len(conversation))
    <2>1. Len(conversation) \in 0..Len(conversation) /\ p.cut \in 0..Len(conversation) /\ TypeOK
      BY <1>3, LenProperties DEF LoopInv, TypeOK, Applied, Rejected
    <2>2. compaction.archive
      BY <1>1 DEF ArchivesAll, LoopInv, TypeOK, Enabled, Disabled
    <2>3. p.replacement \in Seq(Message) /\ Verbatim(p.replacement) = << >>
      BY ProposedSummaries
    <2> QED
      BY <1>2, <1>3, <2>1, <2>2, <2>3, ReplacedTold DEF Told
  <1>4. CASE ~Applied(p, Len(conversation))
    BY <1>2, <1>4 DEF Told
  <1> QED
    BY <1>3, <1>4

LEMMA LogInit == Init => Log!Init
  BY VerbatimEmpty, EmptySeq, ConcatEmptySeq DEF Init, Log!Init

\* Every step writes at the end, keeps or takes back the Run, or does not show.
LEMMA LogStep ==
    ASSUME ArchivesAll, SummariesOnly, Delivers, LoopInv, Counted, [Next]_vars
    PROVE  [Log!Next]_<<Told, pc # "idle", Mark>>
  <1> USE DEF LoopInv
  <1> DEFINE Same    == Told' = Told /\ (pc # "idle")' = (pc # "idle") /\ Mark' = Mark
             Ends    == pc # "idle" /\ pc' = "idle"
  <1>1. ASSUME Same PROVE [Log!Next]_<<Told, pc # "idle", Mark>>
    BY <1>1
  <1>2. ASSUME Ends, Told' = Told PROVE Log!Next
    BY <1>2 DEF Log!Next, Log!Keep, Log!RunEnds, Told, Mark
  <1>3. ASSUME Ends, Told' = SubSeq(Told, 1, Mark) PROVE Log!Next
    BY <1>3 DEF Log!Next, Log!TakeBack, Log!RunEnds, Told, Mark
  <1>4. ASSUME NEW m \in Message, m.text # Summary, Commit(<<m>>), archive' = archive,
               pc # "idle", pc' = "idle" \/ startLen' = startLen
        PROVE  Log!Next
    <2>1. Len(Told') = Len(Told) + 1 /\ SubSeq(Told', 1, Len(Told)) = Told
      BY <1>4, WrittenTold
    <2>2. Log!Grows
      BY <2>1 DEF Log!Grows, Told
    <2>3. CASE pc' = "idle"
      BY <1>4, <2>2, <2>3 DEF Log!Next, Log!Write, Log!RunEnds
    <2>4. CASE pc' # "idle"
      <3>1. startLen \in 0..Len(conversation) /\ startLen' = startLen
        BY <1>4, <2>4, LenProperties DEF TypeOK, RollbackAnchor
      <3>2. Prefix(startLen)' = Prefix(startLen)
        <4>1. Prefix(startLen)' = SubSeq(conversation', 1, startLen)
          BY <3>1 DEF Prefix
        <4> QED
          BY <1>4, <3>1, <4>1, CommitFacts DEF Prefix
      <3>3. Mark' = Mark
        BY <1>4, <2>4, <3>2 DEF Mark
      <3> QED
        BY <1>4, <2>2, <2>4, <3>3 DEF Log!Next, Log!Write, Log!RunGoesOn, Mark
    <2> QED
      BY <2>3, <2>4
  <1>5. ASSUME FailCall, pc \in {"head", "call", "retry"}, archive' = archive PROVE Log!Next
    <2>1. Ends
      BY <1>5 DEF FailCall, Return
    <2>2. CASE turn = 0
      <3>1. RemoveLast(1)
        BY <1>5, <2>2 DEF FailCall
      <3>2. /\ startLen \in Nat /\ Len(conversation) = startLen + 1
            /\ SubSeq(conversation, 1, startLen) = base
        BY <1>5, <2>2 DEF TypeOK, FirstTurn, RollbackAnchor, Prefix
      <3>3. 1 \in Nat /\ 1 <= Len(conversation) /\ Len(conversation) - 1 = startLen
        BY <3>2
      <3>4. conversation' = base
        BY <3>1, <3>2, <3>3, RemoveFacts
      <3> QED
        BY <1>3, <1>5, <2>1, <3>4, BaseTold
    <2>3. CASE turn # 0
      <3>1. UNCHANGED conversation
        BY <1>5, <2>3 DEF FailCall
      <3> QED
        BY <1>2, <1>5, <2>1, <3>1 DEF Told
    <2> QED
      BY <2>2, <2>3
  <1>6. ASSUME AbortRun, pc # "idle", archive' = archive PROVE Log!Next
    <2>1. Ends /\ conversation' = base
      BY <1>6, AbortFacts DEF Return
    <2> QED
      BY <1>3, <1>6, <2>1, BaseTold
  <1>7. ASSUME NEW c \in Completions, Accept(c), pc # "idle", archive' = archive PROVE Log!Next
    <2> DEFINE m == AssistantReply(runs, c.uses)
    <2>1. m \in Message
      BY <1>7, ConstantsAssumption, MessageTypes DEF TypeOK
    <2>2. m.text # Summary
      BY <1>7 DEF AssistantReply, Counted, Summary
    <2>3. Commit(<<m>>) /\ (pc' = "idle" \/ startLen' = startLen)
      BY <1>7 DEF Accept, Return
    <2> HIDE DEF m
    <2> QED
      BY <1>4, <1>7, <2>1, <2>2, <2>3
  <1>8. CASE Exhausted \/ ContextDone \/ CalloutPanics
    <2>1. Ends /\ UNCHANGED <<conversation, archive>>
      BY <1>8 DEF Exhausted, ContextDone, CalloutPanics, AtHead, Return, agent
    <2> QED
      BY <1>2, <2>1 DEF Told
  <1>9. CASE HookAborts \/ BatchAborts
    BY <1>6, <1>9 DEF HookAborts, BatchAborts
  <1>10. CASE CallFails \/ OverflowFails
    BY <1>5, <1>10 DEF CallFails, OverflowFails
  <1>11. CASE Substitute \/ Answered
    BY <1>7, <1>11 DEF Substitute, Answered
  <1>12. CASE BatchDone
    <2> DEFINE m == ToolResults(runs, calls)
    <2>1. m \in Message
      BY MessageTypes DEF TypeOK
    <2>2. m.text # Summary
      BY <1>12 DEF BatchDone, ToolResults, Counted, Summary
    <2>3. Commit(<<m>>) /\ pc # "idle" /\ startLen' = startLen /\ archive' = archive
      BY <1>12 DEF BatchDone
    <2> HIDE DEF m
    <2> QED
      BY <1>4, <2>1, <2>2, <2>3
  <1>13. ASSUME UNCHANGED <<conversation, archive, startLen>>, (pc = "idle") <=> (pc' = "idle")
         PROVE  Same
    BY <1>13 DEF Told, Mark, Prefix
  <1>14. CASE BuildRequest \/ HookPasses
    <2>1. UNCHANGED <<conversation, archive, startLen>> /\ pc # "idle" /\ pc' # "idle"
      BY <1>14 DEF BuildRequest, HookPasses, AtHead, agent
    <2> QED
      BY <1>1, <1>13, <2>1
  <1>15. CASE SetCompaction \/ Resume \/ Cancel \/ UNCHANGED vars
    <2>1. UNCHANGED <<conversation, archive, startLen, pc>>
      BY <1>15 DEF SetCompaction, Resume, Cancel, agent, locals, vars
    <2> QED
      BY <1>1, <1>13, <2>1
  <1>16. ASSUME NEW p \in Proposals(compaction, Prefix(startLen)), ~Rejected(p, startLen),
                ApplyForRequest(p), Enabled(compaction), pc # "idle", pc' # "idle"
         PROVE  Same
    BY <1>16, AppliedTold DEF Mark
  <1>17. CASE ProactiveCompaction
    <2>1. PICK p \in Proposals(compaction, Prefix(startLen)) :
            IF Rejected(p, startLen) THEN FailCall /\ archive' = archive
            ELSE ApplyForRequest(p) /\ pc' = "hook"
      BY <1>17 DEF ProactiveCompaction
    <2>2. Enabled(compaction) /\ pc = "head"
      BY <1>17 DEF ProactiveCompaction, ProactiveDue, AtHead
    <2> QED
      BY <1>1, <1>5, <1>16, <2>1, <2>2
  <1>18. CASE ReactiveCompaction
    <2>1. PICK p \in Proposals(compaction, Prefix(startLen)) :
            IF Applied(p, startLen) THEN ApplyForRequest(p) /\ pc' = "retry"
            ELSE FailCall /\ archive' = archive
      BY <1>18 DEF ReactiveCompaction
    <2>2. Enabled(compaction) /\ pc = "call"
      BY <1>18 DEF ReactiveCompaction, MayCompact
    <2> QED
      BY <1>1, <1>5, <1>16, <2>1, <2>2 DEF Applied
  <1>19. CASE ManualCompact
    <2>1. pc = "idle" /\ pc' = "idle"
      BY <1>19 DEF ManualCompact, locals
    <2> QED
      BY <1>1, <1>19, <2>1, ManualTold DEF Mark
  <1>20. CASE StartRun
    <2> DEFINE m == UserText(runs + 1)
    <2>1. m \in Message /\ m.text # Summary
      <3>1. runs + 1 \in Nat /\ runs + 1 # 0
        BY DEF TypeOK
      <3>2. m \in Message /\ m.text = runs + 1
        BY <3>1, MessageTypes DEF UserText
      <3> QED
        BY <3>1, <3>2 DEF Summary
    <2>2. /\ Commit(<<m>>) /\ archive' = archive /\ startLen' = Len(conversation)
          /\ pc = "idle" /\ pc' = "head"
      BY <1>20 DEF StartRun
    <2> HIDE DEF m
    <2>3. Len(Told') = Len(Told) + 1 /\ SubSeq(Told', 1, Len(Told)) = Told
      BY <2>1, <2>2, WrittenTold
    <2>4. Prefix(startLen)' = conversation
      <3>1. /\ Len(conversation) \in 0..Len(conversation)
            /\ SubSeq(conversation, 1, Len(conversation)) = conversation
        BY LenProperties, SubSeqFull DEF TypeOK
      <3> QED
        BY <2>1, <2>2, <3>1, CommitFacts DEF Prefix
    <2>5. Mark' = Len(Told)
      BY <2>2, <2>4 DEF Mark, Told
    <2> QED
      BY <2>2, <2>3, <2>5 DEF Log!Next, Log!Begin, Log!Grows, Told, Mark
  <1>21. ~ArchivePanics
    BY DEF ArchivePanics, ArchivalMayPanic, Delivers
  <1> QED
    BY <1>8, <1>9, <1>10, <1>11, <1>12, <1>14, <1>15, <1>17, <1>18, <1>19, <1>20, <1>21
    DEF Next, RunStep, Host

\* An Agent keeps a log: whatever is cut from its history is in its archive, in
\* order, and a Run leaves all it wrote or nothing (compaction.go:172-190,
\* agent.go:240-242 and 487-491).  A callback that panics may have been given what
\* is not cut then: it is in the archive twice in the end.
THEOREM LogRefined ==
    ArchivesAll /\ SummariesOnly /\ Delivers => (Spec => ImplementsTurnLog)
  <1> SUFFICES ASSUME ArchivesAll, SummariesOnly, Delivers PROVE Spec => ImplementsTurnLog
    OBVIOUS
  <1>1. Init => Counted
    BY DEF Init, Counted
  <1>2. LoopInv /\ Counted /\ [Next]_vars => Counted'
    BY CountedStep
  <1>3. LoopInv /\ Counted /\ [Next]_vars => [Log!Next]_<<Told, pc # "idle", Mark>>
    BY LogStep
  <1> QED
    BY LogInit, LoopInvariance, <1>1, <1>2, <1>3, PTL
    DEF Spec, ImplementsTurnLog, Log!Spec, Told, Mark

-----------------------------------------------------------------------------
(* Delivery before discard                                                 *)

LEMMA TailOf ==
    ASSUME NEW a \in Seq(Message), NEW b \in Seq(Message)
    PROVE  IsSuffix(b, a \o b)
  <1> DEFINE t  == a \o b
             rb == Reverse(b)
             rt == Reverse(t)
  <1>1. Len(a) \in Nat /\ Len(b) \in Nat
    BY LenProperties
  <1>2. /\ t \in Seq(Message) /\ Len(t) = Len(a) + Len(b)
        /\ \A i \in 1..Len(a) + Len(b) : t[i] = IF i <= Len(a) THEN a[i] ELSE b[i - Len(a)]
    BY ConcatProperties
  <1> HIDE DEF t
  <1>3. ASSUME NEW s \in Seq(Message)
        PROVE  /\ Reverse(s) \in Seq(Message) /\ Len(Reverse(s)) = Len(s)
               /\ \A i \in 1..Len(s) : Reverse(s)[i] = s[Len(s) - i + 1]
    <2>1. Len(s) \in Nat /\ \A i \in 1..Len(s) : s[i] \in Message
      BY LenProperties, ElementOfSeq
    <2>2. \A i \in 1..Len(s) : (Len(s) - i) + 1 \in 1..Len(s)
      BY <2>1
    <2> QED
      BY <2>1, <2>2 DEF Reverse
  <1>4. /\ rb \in Seq(Message) /\ Len(rb) = Len(b)
        /\ \A i \in 1..Len(b) : rb[i] = b[Len(b) - i + 1]
    BY <1>3
  <1>5. /\ rt \in Seq(Message) /\ Len(rt) = Len(t)
        /\ \A i \in 1..Len(t) : rt[i] = t[Len(t) - i + 1]
    BY <1>2, <1>3
  <1> HIDE DEF rb, rt
  <1>6. ASSUME NEW i \in 1..Len(b) PROVE rb[i] = rt[i]
    <2>1. /\ i \in 1..Len(t) /\ Len(t) - i + 1 \in 1..Len(a) + Len(b)
          /\ ~(Len(t) - i + 1 <= Len(a)) /\ (Len(t) - i + 1) - Len(a) = Len(b) - i + 1
      BY <1>1, <1>2
    <2> QED
      BY <1>2, <1>4, <1>5, <2>1
  <1>7. SubSeq(rb, 1, Len(b)) = SubSeq(rt, 1, Len(b))
    <2>1. Len(b) \in 0..Len(rb) /\ Len(b) \in 0..Len(rt)
      BY <1>1, <1>2, <1>4, <1>5
    <2>2. /\ SubSeq(rb, 1, Len(b)) \in Seq(Message) /\ Len(SubSeq(rb, 1, Len(b))) = Len(b)
          /\ \A i \in 1..Len(b) : SubSeq(rb, 1, Len(b))[i] = rb[i]
      BY <1>4, <2>1, PrefixFacts
    <2>3. /\ SubSeq(rt, 1, Len(b)) \in Seq(Message) /\ Len(SubSeq(rt, 1, Len(b))) = Len(b)
          /\ \A i \in 1..Len(b) : SubSeq(rt, 1, Len(b))[i] = rt[i]
      BY <1>5, <2>1, PrefixFacts
    <2> QED
      BY <1>6, <2>2, <2>3, SeqEqual
  <1>8. Len(rb) <= Len(rt)
    BY <1>1, <1>2, <1>4, <1>5
  <1> QED
    BY <1>4, <1>7, <1>8 DEF IsSuffix, IsPrefix, rb, rt, t

\* What stands before the Run stays, and so does its place at the front ...
Stays == IsPrefix(Prefix(startLen), conversation')

\* ... or its oldest messages have been delivered before they went.
GivenFirst ==
    \E n \in 1..startLen :
      /\ archive' = archive \o Prefix(n)
      /\ IsSuffix(SubSeq(conversation, n + 1, Len(conversation)), conversation')

LEMMA StaysIf ==
    ASSUME LoopInv, pc # "idle",
           \/ conversation' = SubSeq(conversation, 1, startLen)
           \/ UNCHANGED conversation
           \/ \E m \in Message : Commit(<<m>>)
    PROVE  Stays
  <1>1. /\ TypeOK /\ conversation \in Seq(Message) /\ Len(conversation) \in Nat
        /\ startLen \in 0..Len(conversation)
    BY LenProperties DEF LoopInv, TypeOK, RollbackAnchor
  <1> DEFINE p == SubSeq(conversation, 1, startLen)
  <1>2. p \in Seq(Message) /\ Len(p) = startLen /\ Prefix(startLen) = p
    BY <1>1, PrefixFacts DEF Prefix
  <1>3. SubSeq(p, 1, startLen) = p
    BY <1>2, SubSeqFull
  <1> HIDE DEF p
  <1>4. startLen <= Len(conversation') /\ SubSeq(conversation', 1, startLen) = p
    <2>1. CASE conversation' = SubSeq(conversation, 1, startLen)
      BY <1>1, <1>2, <1>3, <2>1 DEF p
    <2>2. CASE UNCHANGED conversation
      BY <1>1, <2>2 DEF p
    <2>3. CASE \E m \in Message : Commit(<<m>>)
      BY <1>1, <2>3, CommitFacts DEF p
    <2> QED
      BY <2>1, <2>2, <2>3
  <1> QED
    BY <1>2, <1>3, <1>4 DEF Stays, IsPrefix

LEMMA AppliedDelivers ==
    ASSUME LoopInv, pc # "idle", compaction.archive,
           NEW p \in Proposals(compaction, Prefix(startLen)),
           ~Rejected(p, startLen), ApplyForRequest(p)
    PROVE  Stays \/ GivenFirst
  <1>1. CASE ~(Applied(p, startLen) /\ Committed(compaction))
    <2>1. UNCHANGED conversation
      BY <1>1 DEF ApplyForRequest
    <2> QED
      BY <2>1, StaysIf
  <1>2. CASE Applied(p, startLen) /\ Committed(compaction)
    <2>1. ReplacePrefix(p, startLen)
      BY <1>2 DEF ApplyForRequest
    <2>2. /\ conversation \in Seq(Message) /\ Len(conversation) \in Nat
          /\ startLen \in 0..Len(conversation) /\ p.cut \in 1..startLen
          /\ p.cut \in 0..Len(conversation) /\ startLen \in p.cut..Len(conversation)
          /\ Len(conversation) \in startLen..Len(conversation)
          /\ Len(conversation) \in p.cut..Len(conversation)
      BY <1>2, LenProperties DEF LoopInv, TypeOK, RollbackAnchor, Applied, Rejected
    <2> DEFINE gone == SubSeq(conversation, 1, p.cut)
               kept == SubSeq(conversation, p.cut + 1, startLen)
               rest == SubSeq(conversation, startLen + 1, Len(conversation))
               tail == SubSeq(conversation, p.cut + 1, Len(conversation))
    <2>3. /\ archive' = archive \o Prefix(p.cut)
          /\ conversation' = (p.replacement \o kept) \o rest
      BY <2>1 DEF ReplacePrefix, Delivered, Compacted, Composed, InFlight
    <2>4. /\ gone \in Seq(Message) /\ kept \in Seq(Message) /\ rest \in Seq(Message)
          /\ tail \in Seq(Message) /\ p.replacement \in Seq(Message)
      BY <2>2, SuffixFacts, PrefixFacts, ProposalFacts
    <2>5. /\ SubSeq(conversation, 1, startLen) = gone \o kept
          /\ SubSeq(conversation, 1, Len(conversation)) = gone \o tail
          /\ SubSeq(conversation, 1, Len(conversation))
               = SubSeq(conversation, 1, startLen) \o rest
      BY <2>2, Halved
    <2> HIDE DEF gone, kept, rest, tail
    <2>6. gone \o tail = (gone \o kept) \o rest
      BY <2>5
    <2>7. (gone \o kept) \o rest = gone \o (kept \o rest) /\ kept \o rest \in Seq(Message)
      <3>1. kept \o rest \in Seq(Message)
        BY <2>4, ConcatProperties
      <3>2. Cat(Cat(gone, kept), rest) = Cat(gone, Cat(kept, rest))
        BY <2>4, CatFacts
      <3> QED
        BY <3>1, <3>2 DEF Cat
    <2>8. tail = kept \o rest
      BY <2>4, <2>6, <2>7, ConcatSimplifications
    <2>9. conversation' = p.replacement \o (kept \o rest)
      <3>1. \A x, y, z \in Seq(Message) : Cat(Cat(x, y), z) = Cat(x, Cat(y, z))
        BY CatFacts
      <3>2. Cat(Cat(p.replacement, kept), rest) = Cat(p.replacement, Cat(kept, rest))
        BY <2>4, <3>1
      <3> QED
        BY <2>3, <3>2 DEF Cat
    <2>10. IsSuffix(tail, conversation')
      BY <2>4, <2>7, <2>8, <2>9, TailOf
    <2> QED
      BY <2>2, <2>3, <2>10 DEF GivenFirst, tail
  <1> QED
    BY <1>1, <1>2

LEMMA DeliveryStep ==
    ASSUME LoopInv, [Next]_vars, pc # "idle", compaction.archive
    PROVE  Stays \/ GivenFirst
  <1> USE DEF LoopInv
  <1>1. CASE UNCHANGED conversation
    BY <1>1, StaysIf
  <1>2. ASSUME FailCall, pc \in {"head", "call", "retry"} PROVE Stays
    <2>1. CASE turn = 0
      <3>1. /\ startLen \in Nat /\ Len(conversation) = startLen + 1
            /\ 1 \in Nat /\ 1 <= Len(conversation) /\ Len(conversation) - 1 = startLen
        BY <1>2, <2>1 DEF TypeOK, FirstTurn, RollbackAnchor
      <3>2. conversation' = SubSeq(conversation, 1, startLen)
        BY <1>2, <2>1, <3>1, RemoveFacts DEF FailCall
      <3> QED
        BY <1>2, <3>2, StaysIf
    <2>2. CASE turn # 0
      BY <1>1, <1>2, <2>2, StaysIf DEF FailCall
    <2> QED
      BY <2>1, <2>2
  <1>3. ASSUME AbortRun PROVE Stays
    <2>1. conversation' = SubSeq(conversation, 1, startLen)
      BY <1>3, AbortFacts DEF RollbackAnchor, Prefix
    <2> QED
      BY <2>1, StaysIf
  <1>4. ASSUME NEW c \in Completions, Accept(c) PROVE Stays
    <2>1. AssistantReply(runs, c.uses) \in Message
      BY ConstantsAssumption, MessageTypes DEF TypeOK
    <2>2. Commit(<<AssistantReply(runs, c.uses)>>)
      BY <1>4 DEF Accept
    <2> QED
      BY <2>1, <2>2, StaysIf
  <1>5. CASE ProactiveCompaction
    <2>1. PICK p \in Proposals(compaction, Prefix(startLen)) :
            IF Rejected(p, startLen) THEN FailCall ELSE ApplyForRequest(p)
      BY <1>5 DEF ProactiveCompaction
    <2>2. pc = "head"
      BY <1>5 DEF ProactiveCompaction, AtHead
    <2> QED
      BY <1>2, <2>1, <2>2, AppliedDelivers
  <1>6. CASE ReactiveCompaction
    <2>1. PICK p \in Proposals(compaction, Prefix(startLen)) :
            IF Applied(p, startLen) THEN ApplyForRequest(p) ELSE FailCall
      BY <1>6 DEF ReactiveCompaction
    <2>2. pc = "call"
      BY <1>6 DEF ReactiveCompaction, MayCompact
    <2> QED
      BY <1>2, <2>1, <2>2, AppliedDelivers DEF Applied
  <1>7. CASE ArchivePanics
    BY <1>1, <1>7 DEF ArchivePanics, ArchivalPanics
  <1>8. CASE Exhausted \/ ContextDone \/ BuildRequest \/ HookPasses \/ CalloutPanics
    BY <1>1, <1>8 DEF Exhausted, ContextDone, BuildRequest, HookPasses, CalloutPanics, agent
  <1>9. CASE HookAborts \/ BatchAborts
    BY <1>3, <1>9 DEF HookAborts, BatchAborts
  <1>10. CASE Substitute \/ Answered
    BY <1>4, <1>10 DEF Substitute, Answered
  <1>11. CASE CallFails \/ OverflowFails
    BY <1>2, <1>11 DEF CallFails, OverflowFails
  <1>12. CASE BatchDone
    <2>1. ToolResults(runs, calls) \in Message
      BY MessageTypes DEF TypeOK
    <2> QED
      BY <1>12, <2>1, StaysIf DEF BatchDone
  <1>13. CASE Host
    BY <1>1, <1>13 DEF Host, StartRun, ManualCompact, SetCompaction, Resume, Cancel, agent
  <1>14. CASE UNCHANGED vars
    BY <1>1, <1>14 DEF vars, agent
  <1> QED
    BY <1>5, <1>6, <1>7, <1>8, <1>9, <1>10, <1>11, <1>12, <1>13, <1>14 DEF Next, RunStep

\* A Run cuts nothing from the history committed before it that the archival callback
\* was not given first, by any strategy and also when the callback panics
\* (compaction.go:174-181).
THEOREM Delivery == Spec => DroppedWasArchived
  <1>1. LoopInv /\ [Next]_vars =>
          [pc # "idle" /\ compaction.archive =>
             \/ IsPrefix(Prefix(startLen), conversation')
             \/ \E n \in 1..startLen :
                  /\ archive' = archive \o Prefix(n)
                  /\ IsSuffix(SubSeq(conversation, n + 1, Len(conversation)),
                              conversation')]_vars
    BY DeliveryStep DEF Stays, GivenFirst
  <1> QED
    BY LoopInvariance, <1>1, PTL DEF Spec, DroppedWasArchived

-----------------------------------------------------------------------------
(* Requests that fit                                                       *)

Advance(c) == IF c.chunk < 1 THEN 1 ELSE c.chunk

\* The messages of a turn at most: its user message, and two for each iteration.
Span == 2 * MaxIter + 1

\* The window has room for two messages past the threshold, and for the turns that
\* a sliding window keeps or has not dropped yet.
Roomy(c) ==
    /\ c.kind = "sliding" /\ c.commit /\ c.keep > 0
    /\ ProactiveThreshold(c) > 0 /\ ProactiveThreshold(c) + 2 <= ContextWindow
    /\ (c.keep + Advance(c)) * Span - 2 <= ContextWindow

\* Whatever the Agent says, the API's answers account for, and they measure what
\* the Agent would send: no hook writes a request of its own.
Measurable ==
    Env \cap {"panic", "cancel", "substitute", "resume", "modify", "archive_panic"} = {}

\* A Run has written a message, and two more for each turn behind it.
Counts ==
    /\ ~cancelled
    /\ pc = "idle" => turn = 0
    /\ pc = "head" => turn <= MaxIter
    /\ pc \notin {"idle", "head"} => turn < MaxIter
    /\ pc \in {"head", "hook", "call", "retry"} => Len(conversation) = startLen + 1 + 2 * turn
    /\ pc = "tools" => Len(conversation) = startLen + 2 + 2 * turn

Asked ==
    pc \in {"hook", "call", "retry"} =>
      request.msgs = conversation /\ Len(conversation) <= ContextWindow

\* What may have been said since the size was last reported ...
Growth == IF pc = "tools" THEN 1 ELSE IF pc # "idle" /\ turn = 0 THEN 3 ELSE 2

\* ... and what must still fit when none was since a compaction.
Reserve == IF pc = "idle" \/ turn > 0 THEN 1 ELSE 0

Measured ==
    \/ Len(conversation) <= lastCallInputTokens + Growth
    \/ pc # "tools" /\ Len(conversation) + Reserve <= ContextWindow

Fit ==
    /\ compaction \in Configs
    /\ Dense(conversation, Span)
    /\ Counts /\ Asked /\ Measured

LEMMA Limits ==
    /\ MaxIter \in Nat /\ MaxIter >= 1 /\ Span \in Nat /\ Span = 2 * MaxIter + 1
    /\ ContextWindow \in Nat
  <1>1. MaxIter \in Nat /\ MaxIter >= 1
    BY ConstantsAssumption DEF MaxIter
  <1> QED
    BY <1>1, ConstantsAssumption DEF Span

LEMMA RoomFacts ==
    ASSUME NEW c \in Configs, Roomy(c)
    PROVE  /\ c.keep \in Nat \ {0} /\ Advance(c) \in Nat \ {0}
           /\ ProactiveThreshold(c) \in Int
           /\ \A g : SlidingCut(g, c.keep, c.chunk) = SlidingCut(g, c.keep, Advance(c))
  <1>1. /\ c.keep \in Int /\ c.chunk \in Int /\ c.threshold \in Int /\ c.relative \in Int
    BY ConstantsAssumption DEF CompactionConfig, Unset
  <1>2. c.keep \in Nat \ {0} /\ Advance(c) \in Nat \ {0}
    BY <1>1 DEF Roomy, Advance
  <1>3. ProactiveThreshold(c) \in Int
    BY <1>1 DEF ProactiveThreshold
  <1>4. \A n : Drop(n, c.keep, c.chunk) = Drop(n, c.keep, Advance(c))
    <2>1. (IF c.chunk < 1 THEN 1 ELSE c.chunk) = Advance(c)
      BY DEF Advance
    <2>2. (IF Advance(c) < 1 THEN 1 ELSE Advance(c)) = Advance(c)
      BY <1>2
    <2> QED
      BY <2>1, <2>2 DEF Drop
  <1>5. \A g : SlidingCut(g, c.keep, c.chunk) = SlidingCut(g, c.keep, Advance(c))
    BY <1>4 DEF SlidingCut
  <1> QED
    BY <1>2, <1>3, <1>5

\* A history without the messages before a cut.
LEMMA SlidOn ==
    ASSUME NEW S, NEW h \in Seq(S), NEW n \in 0..Len(h), NEW cut \in 0..n
    PROVE  /\ Shifted(Composed(h, cut, <<>>, n), 0, SubSeq(h, 1, n), cut)
           /\ Shifted(Composed(h, cut, <<>>, n) \o SubSeq(h, n + 1, Len(h)), 0, h, cut)
  <1> DEFINE g   == SubSeq(h, 1, n)
             c   == SubSeq(h, cut + 1, n)
             f   == SubSeq(h, n + 1, Len(h))
             new == c \o f
  <1>1. Len(h) \in Nat /\ n \in Nat /\ cut \in Nat /\ cut <= n /\ n <= Len(h)
    BY LenProperties
  <1>2. g \in Seq(S) /\ Len(g) = n /\ \A i \in 1..n : g[i] = h[i]
    BY PrefixFacts
  <1>3. c \in Seq(S) /\ Len(c) = n - cut /\ \A i \in 1..n - cut : c[i] = h[cut + i]
    <2>1. cut \in 0..Len(h) /\ n \in cut..Len(h)
      BY <1>1
    <2> QED
      BY <2>1, SuffixFacts
  <1>4. f \in Seq(S) /\ Len(f) = Len(h) - n /\ \A i \in 1..Len(h) - n : f[i] = h[n + i]
    <2>1. Len(h) \in n..Len(h)
      BY <1>1
    <2> QED
      BY <2>1, SuffixFacts
  <1>5. Composed(h, cut, <<>>, n) = c
    BY <1>3 DEF Composed
  <1> HIDE DEF g, c, f
  <1>6. /\ new \in Seq(S) /\ Len(new) = Len(c) + Len(f)
        /\ \A i \in 1..Len(c) + Len(f) : new[i] = IF i <= Len(c) THEN c[i] ELSE f[i - Len(c)]
    BY <1>3, <1>4, ConcatProperties
  <1> HIDE DEF new
  <1>7. Shaped(g) /\ Shaped(c) /\ Shaped(new) /\ Shaped(h)
    BY <1>2, <1>3, <1>6, ShapedSeq
  <1>8. Shifted(c, 0, g, cut)
    <2>1. DOMAIN c = 1..n - cut /\ \A i \in 1..n - cut : i + cut = cut + i /\ cut + i \in 1..n
      BY <1>1, <1>3, <1>7 DEF Shaped
    <2>2. \A i \in DOMAIN c : c[i] = g[i + cut]
      BY <1>2, <1>3, <2>1
    <2> QED
      BY <1>1, <1>2, <1>3, <1>7, <2>2 DEF Shifted
  <1>9. Shifted(new, 0, h, cut)
    <2>1. Len(new) = Len(h) - cut /\ DOMAIN new = 1..Len(h) - cut
      BY <1>1, <1>3, <1>4, <1>6, <1>7 DEF Shaped
    <2>2. ASSUME NEW i \in 1..Len(h) - cut PROVE new[i] = h[i + cut]
      <3>1. i \in 1..Len(c) + Len(f) /\ i \in Nat
        BY <1>1, <1>3, <1>4
      <3>2. CASE i <= n - cut
        <4>1. i \in 1..n - cut /\ cut + i = i + cut /\ i <= Len(c)
          BY <1>1, <1>3, <3>1, <3>2
        <4> QED
          BY <1>3, <1>6, <3>1, <4>1
      <3>3. CASE ~(i <= n - cut)
        <4>1. /\ i - (n - cut) \in 1..Len(h) - n /\ n + (i - (n - cut)) = i + cut
              /\ ~(i <= Len(c)) /\ i - Len(c) = i - (n - cut)
          BY <1>1, <1>3, <3>1, <3>3
        <4> QED
          BY <1>4, <1>6, <3>1, <4>1
      <3> QED
        BY <3>2, <3>3
    <2> QED
      BY <1>1, <1>7, <2>1, <2>2 DEF Shifted
  <1> QED
    BY <1>5, <1>8, <1>9 DEF g, f, new

\* What an accepted answer of the sliding strategy leaves of the first n messages.
LEMMA SlidFits ==
    ASSUME conversation \in Seq(Message), compaction \in Configs, Roomy(compaction),
           Dense(conversation, Span), NEW n \in 0..Len(conversation),
           NEW p \in Proposals(compaction, Prefix(n)), ~Rejected(p, n)
    PROVE  /\ p.cut \in 0..n /\ p.replacement = <<>>
           /\ Shaped(Compacted(p, n)) /\ Len(Compacted(p, n)) = n - p.cut
           /\ FreshTurns(Compacted(p, n)) < compaction.keep + Advance(compaction)
           /\ Dense(Compacted(p, n), Span)
           /\ p.cut # 0 => /\ p.cut + 1 \in TurnStarts(conversation)
                           /\ Dense(Compacted(p, n), 2 * MaxIter)
  <1> DEFINE g == Prefix(n)
             f == Compacted(p, n)
             cut == p.cut
  <1>1. /\ p.ok /\ cut = SlidingCut(g, compaction.keep, compaction.chunk)
        /\ p.replacement = <<>>
    BY DEF Proposals, Proposed, Roomy
  <1>2. cut \in 0..n
    BY DEF Rejected
  <1>3. cut = SlidingCut(g, compaction.keep, Advance(compaction))
    BY <1>1, RoomFacts
  <1>4. Shifted(f, 0, g, cut)
    BY <1>1, <1>2, SlidOn DEF Compacted, Prefix
  <1>5. /\ g \in Seq(Message) /\ Len(g) = n /\ Shaped(g) /\ n \in Nat
        /\ \A i \in 1..n : g[i] = conversation[i]
    <2>1. n \in Nat
      BY LenProperties
    <2> QED
      BY <2>1, PrefixFacts, ShapedSeq DEF Prefix
  <1>6. Shaped(conversation) /\ Len(conversation) \in Nat /\ n <= Len(conversation)
    BY ShapedSeq DEF Shaped
  <1>7. Dense(g, Span)
    BY <1>5, <1>6, DensePrefix, Limits
  <1>8. compaction.keep \in Nat \ {0} /\ Advance(compaction) \in Nat \ {0}
    BY RoomFacts
  <1> HIDE DEF g, f, cut
  <1>9. FreshTurns(f) < compaction.keep + Advance(compaction)
    BY <1>3, <1>4, <1>8, WindowTurns
  <1>10. Shaped(f) /\ Len(f) = n - cut
    BY <1>4, <1>5 DEF Shifted
  <1>11. CASE cut = 0
    <2>1. \A i \in 1..Len(f) : f[i] = g[i]
      <3>1. \A i \in 1..Len(f) : i \in DOMAIN f /\ i > 0 /\ i + cut = i
        BY <1>10, <1>11 DEF Shaped
      <3> QED
        BY <1>4, <3>1 DEF Shifted
    <2>2. Len(f) <= Len(g)
      BY <1>5, <1>10, <1>11
    <2>3. Dense(f, Span)
      BY <1>5, <1>7, <1>10, <2>1, <2>2, DensePrefix, Limits
    <2> QED
      BY <1>1, <1>2, <1>9, <1>10, <1>11, <2>3 DEF f, cut
  <1>12. CASE cut # 0
    <2>1. cut + 1 \in TurnStarts(g)
      <3> DEFINE drop == Drop(FreshTurns(g), compaction.keep, Advance(compaction))
      <3>1. /\ drop = 0 => cut = 0
            /\ drop # 0 => cut + 1 \in TurnStarts(g)
        BY <1>3, <1>5, <1>8, SlidingCutFacts
      <3> QED
        BY <1>12, <3>1
    <2>2. cut + 1 \in TurnStarts(conversation)
      BY <1>5, <1>6, <2>1 DEF TurnStarts, Shaped
    <2>3. Dense(f, Span)
      BY <1>4, <1>7, <2>1, DenseShifted, Limits
    <2>4. Resumable(f)
      <3>1. ValidateHistory(f) = 0
        BY <1>12 DEF Rejected, f, cut
      <3> QED
        BY <1>10, <3>1, Validator
    <2>5. Dense(f, 2 * MaxIter)
      BY <1>10, <2>3, <2>4, DenseEven, Limits
    <2> QED
      BY <1>1, <1>2, <1>9, <1>10, <2>2, <2>3, <2>5 DEF f, cut
  <1> QED
    BY <1>11, <1>12

\* The arithmetic of the window: a prefix of short turns, and the current Run.
LEMMA RoomUncut ==
    ASSUME NEW m \in Nat, NEW q \in Nat, NEW turns \in Nat, turns < q,
           NEW x \in Nat, x <= (2 * m + 1) * turns, NEW t \in Nat, t < m
    PROVE  x + 1 + 2 * t <= q * (2 * m + 1) - 2
  <1>1. PICK r \in Nat : q = turns + 1 + r
    <2>1. q - (turns + 1) \in Nat /\ q = turns + 1 + (q - (turns + 1))
      OBVIOUS
    <2> QED
      BY <2>1
  <1>2. PICK d \in Nat : d = 2 * m + 1
    OBVIOUS
  <1>3. q * d = d * turns + d + r * d /\ r * d \in Nat /\ d * turns \in Nat
    BY <1>1
  <1>4. x <= d * turns
    BY <1>2
  <1>5. x + 1 + 2 * t <= q * d - 2
    BY <1>2, <1>3, <1>4
  <1> QED
    BY <1>2, <1>5

LEMMA RoomCut ==
    ASSUME NEW m \in Nat, NEW q \in Nat, q >= 2, NEW turns \in Nat, turns < q,
           NEW x \in Nat, x <= (2 * m) * turns, NEW t \in Nat, t < m
    PROVE  x + 1 + 2 * t + 1 <= q * (2 * m + 1) - 2
  <1>1. PICK r \in Nat : q = turns + 1 + r
    <2>1. q - (turns + 1) \in Nat /\ q = turns + 1 + (q - (turns + 1))
      OBVIOUS
    <2> QED
      BY <2>1
  <1>2. PICK d \in Nat : d = 2 * m
    OBVIOUS
  <1>3. q * (d + 1) = d * turns + d + r * d + q /\ r * d \in Nat /\ d * turns \in Nat
    BY <1>1
  <1>4. x <= d * turns
    BY <1>2
  <1>5. x + 1 + 2 * t + 1 <= q * (d + 1) - 2
    BY <1>2, <1>3, <1>4
  <1> QED
    BY <1>2, <1>5

LEMMA RoomFirst ==
    ASSUME NEW m \in Nat, NEW q \in Nat, q >= 2, NEW t \in Nat, t < m
    PROVE  1 + 2 * t <= q * (2 * m + 1) - 2
  <1>1. 0 \in Nat /\ 1 \in Nat /\ 0 <= (2 * m) * 0 /\ 0 < q
    OBVIOUS
  <1>2. 0 + 1 + 2 * t + 1 <= q * (2 * m + 1) - 2
    BY <1>1, RoomCut
  <1>3. PICK w \in Int : w = q * (2 * m + 1)
    OBVIOUS
  <1> QED
    BY <1>2, <1>3

\* What an accepted answer leaves fits, with the current Run's messages behind it.
LEMMA SlidSize ==
    ASSUME conversation \in Seq(Message), compaction \in Configs, Roomy(compaction),
           Dense(conversation, Span), NEW n \in 0..Len(conversation),
           NEW p \in Proposals(compaction, Prefix(n)), ~Rejected(p, n),
           NEW t \in Nat, t < MaxIter
    PROVE  /\ n - p.cut \in Nat
           /\ (n - p.cut) + 1 + 2 * t <= ContextWindow
           /\ p.cut # 0 => (n - p.cut) + 1 + 2 * t + 1 <= ContextWindow
  <1> DEFINE f == Compacted(p, n)
  <1>1. PICK m \in Nat : m = MaxIter
    BY Limits
  <1>2. PICK q \in Nat : q = compaction.keep + Advance(compaction) /\ q >= 2
    BY RoomFacts
  <1>3. q * (2 * m + 1) - 2 <= ContextWindow /\ ContextWindow \in Nat
    BY <1>1, <1>2, Limits DEF Roomy
  <1>4. /\ p.cut \in 0..n /\ Shaped(f) /\ Len(f) = n - p.cut
        /\ FreshTurns(f) < q
        /\ Dense(f, 2 * m + 1)
        /\ p.cut # 0 => Dense(f, 2 * m)
    BY <1>1, <1>2, SlidFits, Limits
  <1> HIDE DEF f
  <1>5. PICK turns \in Nat : turns = FreshTurns(f)
    BY <1>4, StartsFinite
  <1>6. PICK x \in Nat : x = n - p.cut /\ x = Len(f)
    BY <1>4 DEF Shaped
  <1>7. PICK w \in Int : w = q * (2 * m + 1)
    OBVIOUS
  <1>8. x + 1 + 2 * t <= ContextWindow
    <2>1. 2 * m + 1 \in Nat
      OBVIOUS
    <2>2. x <= (2 * m + 1) * turns
      BY <1>4, <1>5, <1>6, <2>1, DenseCount
    <2>3. x + 1 + 2 * t <= w - 2
      BY <1>1, <1>4, <1>5, <1>7, <2>2, RoomUncut
    <2> QED
      BY <1>3, <1>7, <2>3
  <1>9. ASSUME p.cut # 0 PROVE x + 1 + 2 * t + 1 <= ContextWindow
    <2>1. 2 * m \in Nat
      OBVIOUS
    <2>2. x <= (2 * m) * turns
      BY <1>4, <1>5, <1>6, <1>9, <2>1, DenseCount
    <2>3. x + 1 + 2 * t + 1 <= w - 2
      BY <1>1, <1>2, <1>4, <1>5, <1>7, <2>2, RoomCut
    <2> QED
      BY <1>3, <1>7, <2>3
  <1> QED
    BY <1>6, <1>8, <1>9

LEMMA FirstFits ==
    ASSUME compaction \in Configs, Roomy(compaction), NEW t \in Nat, t < MaxIter
    PROVE  1 + 2 * t <= ContextWindow
  <1>1. PICK m \in Nat : m = MaxIter
    BY Limits
  <1>2. PICK q \in Nat : q = compaction.keep + Advance(compaction) /\ q >= 2
    BY RoomFacts
  <1>3. PICK w \in Int : w = q * (2 * m + 1)
    OBVIOUS
  <1>4. w - 2 <= ContextWindow /\ ContextWindow \in Nat
    BY <1>1, <1>2, <1>3, Limits DEF Roomy
  <1>5. 1 + 2 * t <= w - 2
    BY <1>1, <1>2, <1>3, RoomFirst
  <1> QED
    BY <1>4, <1>5

LEMMA FitTypes ==
    ASSUME LoopInv, Fit
    PROVE  /\ conversation \in Seq(Message) /\ Len(conversation) \in Nat
           /\ Shaped(conversation)
           /\ startLen \in Nat /\ turn \in Nat /\ lastCallInputTokens \in Nat
           /\ MaxIter \in Nat /\ MaxIter >= 1 /\ ContextWindow \in Nat
           /\ pc # "idle" => startLen < Len(conversation)
  BY Limits, LenProperties, ShapedSeq DEF LoopInv, TypeOK, RollbackAnchor

LEMMA FitInit == Init => Fit
  <1> SUFFICES ASSUME Init PROVE Fit
    OBVIOUS
  <1>1. conversation = <<>> /\ Len(conversation) = 0
    BY DEF Init
  <1>2. Dense(conversation, Span)
    BY <1>1 DEF Dense
  <1>3. Len(conversation) <= lastCallInputTokens + Growth
    BY <1>1 DEF Init, Growth
  <1> QED
    BY <1>2, <1>3 DEF Init, Fit, Counts, Asked, Measured

\* A Run that ends leaves what it has, or a shorter history.
LEMMA FitEnd ==
    ASSUME LoopInv, Fit, NEW how, Return(how), NEW n \in 0..Len(conversation),
           conversation' = SubSeq(conversation, 1, n),
           UNCHANGED <<compaction, lastCallInputTokens>>,
           \/ n <= lastCallInputTokens + 2
           \/ n + 1 <= ContextWindow
    PROVE  Fit'
  <1>1. /\ conversation' \in Seq(Message) /\ Len(conversation') = n
        /\ \A i \in 1..n : conversation'[i] = conversation[i]
    BY FitTypes, PrefixFacts
  <1>2. Dense(conversation', Span)
    <2>1. n <= Len(conversation) /\ Shaped(conversation)
      BY FitTypes
    <2>2. Shaped(conversation') /\ Len(conversation') <= Len(conversation)
      BY <1>1, <2>1, ShapedSeq
    <2> QED
      BY <1>1, <2>1, <2>2, DensePrefix, Limits DEF Fit
  <1>3. pc' = "idle" /\ turn' = 0 /\ cancelled' = FALSE
    BY DEF Return
  <1>4. Growth' = 2 /\ Reserve' = 1
    BY <1>3 DEF Growth, Reserve
  <1>5. Measured'
    BY <1>1, <1>3, <1>4 DEF Measured
  <1>6. Counts' /\ Asked'
    BY <1>3 DEF Counts, Asked
  <1> QED
    BY <1>2, <1>5, <1>6 DEF Fit

LEMMA FitFails ==
    ASSUME LoopInv, Fit, FailCall, pc \in {"head", "call", "retry"},
           UNCHANGED <<compaction, lastCallInputTokens>>
    PROVE  Fit'
  <1>1. /\ conversation \in Seq(Message) /\ Len(conversation) \in Nat /\ turn \in Nat
        /\ lastCallInputTokens \in Nat /\ ContextWindow \in Nat /\ Len(conversation) >= 1
    BY FitTypes
  <1>2. \/ Len(conversation) <= lastCallInputTokens + Growth
        \/ Len(conversation) + Reserve <= ContextWindow
    BY DEF Fit, Measured
  <1>3. CASE turn = 0
    <2>1. Return("failed_first") /\ RemoveLast(1)
      BY <1>3 DEF FailCall
    <2>2. conversation' = SubSeq(conversation, 1, Len(conversation) - 1)
      BY <1>1, <2>1, RemoveFacts DEF LoopInv
    <2>3. Growth = 3 /\ Reserve = 0
      BY <1>3 DEF Growth, Reserve
    <2>4. /\ Len(conversation) - 1 \in 0..Len(conversation)
          /\ \/ Len(conversation) - 1 <= lastCallInputTokens + 2
             \/ (Len(conversation) - 1) + 1 <= ContextWindow
      BY <1>1, <1>2, <2>3
    <2> QED
      BY <2>1, <2>2, <2>4, FitEnd
  <1>4. CASE turn # 0
    <2>1. Return("failed_midloop") /\ UNCHANGED conversation
      BY <1>4 DEF FailCall
    <2>2. conversation' = SubSeq(conversation, 1, Len(conversation))
      BY <1>1, <2>1, SubSeqFull
    <2>3. Growth = 2 /\ Reserve = 1
      BY <1>1, <1>4 DEF Growth, Reserve
    <2>4. /\ Len(conversation) \in 0..Len(conversation)
          /\ \/ Len(conversation) <= lastCallInputTokens + 2
             \/ Len(conversation) + 1 <= ContextWindow
      BY <1>1, <1>2, <2>3
    <2> QED
      BY <2>1, <2>2, <2>4, FitEnd
  <1> QED
    BY <1>3, <1>4

LEMMA FitAborts ==
    ASSUME LoopInv, Fit, AbortRun, pc \in {"hook", "tools"},
           UNCHANGED <<compaction, lastCallInputTokens>>
    PROVE  Fit'
  <1>1. /\ conversation \in Seq(Message) /\ Len(conversation) \in Nat /\ startLen \in Nat
        /\ turn \in Nat /\ lastCallInputTokens \in Nat /\ ContextWindow \in Nat
        /\ startLen < Len(conversation)
    BY FitTypes
  <1>2. \/ Len(conversation) <= lastCallInputTokens + Growth
        \/ Len(conversation) + Reserve <= ContextWindow
    BY DEF Fit, Measured
  <1>3. Growth \in Nat /\ Growth <= 3 /\ Reserve \in Nat
    BY DEF Growth, Reserve
  <1>4. Return("aborted") /\ conversation' = SubSeq(conversation, 1, startLen)
    BY AbortFacts DEF LoopInv, RollbackAnchor, Prefix
  <1>5. /\ startLen \in 0..Len(conversation)
        /\ \/ startLen <= lastCallInputTokens + 2
           \/ startLen + 1 <= ContextWindow
    BY <1>1, <1>2, <1>3
  <1> QED
    BY <1>4, <1>5, FitEnd

\* A message more of the Run, not far behind its first.
LEMMA DenseCommit ==
    ASSUME LoopInv, Fit, pc # "idle", NEW m \in Message, Commit(<<m>>),
           Len(conversation) - startLen <= 2 * MaxIter
    PROVE  Dense(conversation', Span)
  <1>1. /\ conversation \in Seq(Message) /\ Len(conversation) \in Nat /\ startLen \in Nat
        /\ startLen < Len(conversation) /\ Shaped(conversation) /\ MaxIter \in Nat
    BY FitTypes
  <1>2. /\ conversation' \in Seq(Message) /\ Len(conversation') = Len(conversation) + 1
        /\ \A i \in 1..Len(conversation) : conversation'[i] = conversation[i]
    BY CommitFacts DEF LoopInv
  <1>3. Shaped(conversation')
    BY <1>2, ShapedSeq
  <1>4. startLen + 1 \in TurnStarts(conversation')
    <2>1. startLen + 1 \in 1..Len(conversation) /\ startLen + 1 \in 1..Len(conversation) + 1
      BY <1>1
    <2>2. conversation'[startLen + 1] = UserText(runs)
      BY <1>2, <2>1 DEF LoopInv, RollbackAnchor
    <2>3. conversation'[startLen + 1].role = "user" /\ conversation'[startLen + 1].results = {}
      BY <2>2 DEF UserText
    <2> QED
      BY <1>2, <1>3, <2>1, <2>3 DEF TurnStarts, Shaped
  <1>5. startLen + 1 <= Len(conversation') /\ Len(conversation') - (startLen + 1) < Span
    BY <1>1, <1>2, Limits
  <1> QED
    BY <1>1, <1>2, <1>3, <1>4, <1>5, DenseAppend, Limits DEF Fit

\* The answer to a request that carried the whole conversation.
LEMMA FitAnswered ==
    ASSUME LoopInv, Fit, Answered
    PROVE  Fit'
  <1>1. PICK c \in Completions : Accept(c)
    BY DEF Answered
  <1>2. /\ pc \in {"call", "retry"} /\ lastCallInputTokens' = Len(request.msgs)
        /\ UNCHANGED compaction
    BY DEF Answered
  <1>3. /\ Len(conversation) \in Nat /\ startLen \in Nat /\ turn \in Nat /\ MaxIter \in Nat
        /\ turn < MaxIter /\ Len(conversation) = startLen + 1 + 2 * turn /\ ~cancelled
    BY <1>2, FitTypes DEF Fit, Counts
  <1>4. lastCallInputTokens' = Len(conversation)
    BY <1>2 DEF Fit, Asked
  <1>5. AssistantReply(runs, c.uses) \in Message /\ Commit(<<AssistantReply(runs, c.uses)>>)
    <2>1. c.uses \in SUBSET CallId /\ runs \in Nat
      BY ConstantsAssumption DEF LoopInv, TypeOK
    <2> QED
      BY <1>1, <2>1, MessageTypes DEF Accept
  <1>6. Len(conversation') = Len(conversation) + 1
    BY <1>5, CommitFacts DEF LoopInv
  <1>7. Dense(conversation', Span)
    BY <1>2, <1>3, <1>5, DenseCommit
  <1>8. \/ pc' = "tools" /\ UNCHANGED <<startLen, turn, cancelled>>
        \/ pc' = "idle" /\ turn' = 0 /\ cancelled' = FALSE
    BY <1>1 DEF Accept, Return
  <1>9. CASE pc' = "tools" /\ UNCHANGED <<startLen, turn, cancelled>>
    <2>1. Growth' = 1
      BY <1>9 DEF Growth
    <2>2. Measured'
      BY <1>3, <1>4, <1>6, <2>1 DEF Measured
    <2>3. Len(conversation') = startLen' + 2 + 2 * turn'
      BY <1>3, <1>6, <1>9
    <2>4. Counts' /\ Asked'
      BY <1>3, <1>9, <2>3 DEF Counts, Asked
    <2> QED
      BY <1>2, <1>7, <2>2, <2>4 DEF Fit
  <1>10. CASE pc' = "idle" /\ turn' = 0 /\ cancelled' = FALSE
    <2>1. Growth' = 2
      BY <1>10 DEF Growth
    <2>2. Measured'
      BY <1>3, <1>4, <1>6, <2>1 DEF Measured
    <2>3. Counts' /\ Asked'
      BY <1>10 DEF Counts, Asked
    <2> QED
      BY <1>2, <1>7, <2>2, <2>3 DEF Fit
  <1> QED
    BY <1>8, <1>9, <1>10

\* Nothing due: the Run is the first, or its history was measured below the threshold.
LEMMA FitBuilt ==
    ASSUME LoopInv, Fit, \A c \in Configs : Roomy(c), BuildRequest
    PROVE  Fit'
  <1>1. /\ pc = "head" /\ pc' = "hook" /\ request'.msgs = conversation /\ turn < MaxIter
        /\ UNCHANGED <<conversation, compaction, lastCallInputTokens, startLen, turn, cancelled>>
    BY DEF BuildRequest, AtHead, agent
  <1>2. /\ Len(conversation) \in Nat /\ startLen \in Nat /\ turn \in Nat
        /\ lastCallInputTokens \in Nat /\ ContextWindow \in Nat
        /\ Len(conversation) = startLen + 1 + 2 * turn
    BY <1>1, FitTypes DEF Fit, Counts
  <1>3. compaction \in Configs /\ Roomy(compaction) /\ ProactiveThreshold(compaction) \in Int
    BY RoomFacts DEF Fit
  <1>4. Len(conversation) <= ContextWindow
    <2>1. CASE startLen = 0
      <3>1. 1 + 2 * turn <= ContextWindow
        BY <1>1, <1>2, <1>3, FirstFits
      <3> QED
        BY <1>2, <2>1, <3>1
    <2>2. CASE startLen # 0
      <3>1. lastCallInputTokens < ProactiveThreshold(compaction)
        BY <1>2, <1>3, <2>2 DEF BuildRequest, ProactiveDue, Enabled, Roomy
      <3>2. ProactiveThreshold(compaction) + 2 <= ContextWindow
        BY <1>3 DEF Roomy
      <3>3. \/ Len(conversation) <= lastCallInputTokens + Growth
            \/ Len(conversation) + Reserve <= ContextWindow
        BY DEF Fit, Measured
      <3>4. Growth \in Nat /\ Growth <= 3 /\ Reserve \in Nat
        BY DEF Growth, Reserve
      <3> QED
        BY <1>2, <1>3, <3>1, <3>2, <3>3, <3>4
    <2> QED
      BY <2>1, <2>2
  <1>5. Growth' = Growth /\ Reserve' = Reserve
    BY <1>1 DEF Growth, Reserve
  <1>6. Measured'
    BY <1>1, <1>5 DEF Fit, Measured
  <1>7. Counts' /\ Asked'
    BY <1>1, <1>2, <1>4 DEF Fit, Counts, Asked
  <1> QED
    BY <1>1, <1>6, <1>7 DEF Fit

\* What follows the cut, with what the Run wrote.
LEMMA DenseReplaced ==
    ASSUME LoopInv, Fit, Roomy(compaction), NEW n \in 0..Len(conversation),
           NEW p \in Proposals(compaction, Prefix(n)), Applied(p, n),
           conversation' = Compacted(p, n) \o InFlight(n)
    PROVE  Dense(conversation', Span) /\ Len(conversation') = Len(conversation) - p.cut
  <1>1. /\ p.cut \in 0..n /\ p.replacement = <<>> /\ p.cut + 1 \in TurnStarts(conversation)
    BY FitTypes, SlidFits DEF Fit, Applied
  <1>2. Shifted(conversation', 0, conversation, p.cut)
    BY <1>1, FitTypes, SlidOn DEF Compacted, InFlight
  <1>3. Dense(conversation', Span)
    BY <1>1, <1>2, DenseShifted, Limits DEF Fit
  <1> QED
    BY <1>2, <1>3 DEF Shifted

\* A compaction that is due: what the window keeps leaves room for the Run.
LEMMA FitCompacted ==
    ASSUME LoopInv, Fit, Roomy(compaction), AtHead, pc' = "hook",
           NEW p \in Proposals(compaction, Prefix(startLen)), ~Rejected(p, startLen),
           ApplyForRequest(p), UNCHANGED <<compaction, turn, cancelled>>
    PROVE  Fit'
  <1>1. /\ conversation \in Seq(Message) /\ Len(conversation) \in Nat /\ startLen \in Nat
        /\ turn \in Nat /\ turn < MaxIter /\ pc = "head" /\ ContextWindow \in Nat
        /\ Len(conversation) = startLen + 1 + 2 * turn
        /\ startLen \in 0..Len(conversation) /\ lastCallInputTokens \in Nat
    BY FitTypes DEF Fit, Counts, AtHead
  <1>2. /\ startLen - p.cut \in Nat
        /\ (startLen - p.cut) + 1 + 2 * turn <= ContextWindow
        /\ p.cut # 0 => (startLen - p.cut) + 1 + 2 * turn + 1 <= ContextWindow
    BY <1>1, SlidSize DEF Fit
  <1>3. Growth' = Growth /\ Reserve' = Reserve /\ Reserve \in {0, 1}
    BY <1>1 DEF Growth, Reserve
  <1>4. CASE ~Applied(p, startLen)
    <2>1. /\ request'.msgs = conversation
          /\ UNCHANGED <<conversation, startLen, lastCallInputTokens>>
      BY <1>4 DEF ApplyForRequest
    <2>2. Len(conversation) <= ContextWindow
      BY <1>1, <1>2, <1>4 DEF Applied
    <2>3. Measured'
      BY <1>1, <1>3, <2>1 DEF Fit, Measured
    <2>4. Counts' /\ Asked'
      BY <1>1, <2>1, <2>2 DEF Fit, Counts, Asked
    <2> QED
      BY <2>1, <2>3, <2>4 DEF Fit
  <1>5. CASE Applied(p, startLen)
    <2>1. /\ conversation' = Compacted(p, startLen) \o InFlight(startLen)
          /\ request'.msgs = conversation' /\ lastCallInputTokens' = 0
          /\ startLen' = startLen - p.cut + Len(p.replacement)
      BY <1>5 DEF ApplyForRequest, ReplacePrefix, MovedAnchor, SizeAfterCompaction,
                  Committed, Roomy
    <2>2. p.replacement = <<>> /\ p.cut \in Int
      BY <1>1, <1>5, SlidFits DEF Fit, Applied
    <2>3. Dense(conversation', Span) /\ Len(conversation') = Len(conversation) - p.cut
      BY <1>1, <1>5, <2>1, DenseReplaced
    <2>4. startLen' = startLen - p.cut
      <3>1. Len(p.replacement) = 0
        BY <2>2
      <3> QED
        BY <1>1, <2>1, <2>2, <3>1
    <2>5. Len(conversation') = (startLen - p.cut) + 1 + 2 * turn
      <3>1. \A l, s, k, x \in Int : l = s + 1 + x => l - k = (s - k) + 1 + x
        OBVIOUS
      <3>2. 2 * turn \in Int
        BY <1>1
      <3> QED
        BY <1>1, <2>2, <2>3, <3>1, <3>2
    <2>6. Len(conversation') + Reserve <= ContextWindow /\ Len(conversation') <= ContextWindow
      <3>1. p.cut # 0
        BY <1>5 DEF Applied
      <3> QED
        BY <1>1, <1>2, <1>3, <2>5, <3>1
    <2>7. Measured'
      BY <1>3, <2>6 DEF Measured
    <2>8. Counts' /\ Asked'
      BY <1>1, <2>1, <2>4, <2>5, <2>6 DEF Fit, Counts, Asked
    <2> QED
      BY <2>3, <2>7, <2>8 DEF Fit
  <1> QED
    BY <1>4, <1>5

LEMMA FitStep ==
    ASSUME LoopInv, Fit, Measurable, \A c \in Configs : Roomy(c), [Next]_vars
    PROVE  Fit'
  <1>a. /\ conversation \in Seq(Message) /\ Len(conversation) \in Nat /\ startLen \in Nat
        /\ turn \in Nat /\ lastCallInputTokens \in Nat /\ ContextWindow \in Nat
        /\ MaxIter \in Nat /\ MaxIter >= 1 /\ ~cancelled /\ Roomy(compaction)
    BY FitTypes DEF Fit, Counts
  <1>b. /\ {"panic", "cancel", "substitute", "resume"} \cap Env = {}
        /\ "modify" \notin Env /\ "archive_panic" \notin Env
    BY DEF Measurable
  <1>1. CASE Exhausted
    <2>1. /\ pc = "head" /\ turn >= MaxIter /\ Return("exhausted")
          /\ UNCHANGED <<conversation, compaction, lastCallInputTokens>>
      BY <1>1 DEF Exhausted, agent
    <2>2. conversation' = SubSeq(conversation, 1, Len(conversation))
      BY <1>a, <2>1, SubSeqFull
    <2>3. Growth = 2 /\ Reserve = 1
      BY <1>a, <2>1 DEF Growth, Reserve
    <2>4. /\ Len(conversation) \in 0..Len(conversation)
          /\ \/ Len(conversation) <= lastCallInputTokens + 2
             \/ Len(conversation) + 1 <= ContextWindow
      BY <1>a, <2>3 DEF Fit, Measured
    <2> QED
      BY <2>1, <2>2, <2>4, FitEnd
  <1>2. CASE ContextDone \/ Substitute \/ CalloutPanics \/ ArchivePanics \/ Resume \/ Cancel
    BY <1>a, <1>b, <1>2
    DEF ContextDone, Substitute, CalloutPanics, ArchivePanics, ArchivalMayPanic, Resume, Cancel
  <1>3. CASE BuildRequest
    BY <1>3, FitBuilt
  <1>4. CASE ProactiveCompaction
    <2>1. PICK p \in Proposals(compaction, Prefix(startLen)) :
            IF Rejected(p, startLen)
              THEN FailCall /\ UNCHANGED lastCallInputTokens
              ELSE ApplyForRequest(p) /\ pc' = "hook" /\ UNCHANGED <<turn, cancelled>>
      BY <1>4 DEF ProactiveCompaction
    <2>2. AtHead /\ pc = "head" /\ UNCHANGED compaction
      BY <1>4 DEF ProactiveCompaction, AtHead
    <2>3. CASE Rejected(p, startLen)
      BY <2>1, <2>2, <2>3, FitFails
    <2>4. CASE ~Rejected(p, startLen)
      BY <1>a, <2>1, <2>2, <2>4, FitCompacted
    <2> QED
      BY <2>3, <2>4
  <1>5. CASE HookPasses
    <2>1. /\ pc = "hook" /\ pc' = "call" /\ request'.msgs = request.msgs
          /\ UNCHANGED <<conversation, compaction, lastCallInputTokens, startLen, turn, cancelled>>
      BY <1>b, <1>5 DEF HookPasses, agent
    <2>2. Growth' = Growth /\ Reserve' = Reserve
      BY <2>1 DEF Growth, Reserve
    <2>3. Measured'
      BY <2>1, <2>2 DEF Fit, Measured
    <2>4. Counts' /\ Asked'
      BY <2>1 DEF Fit, Counts, Asked
    <2> QED
      BY <2>1, <2>3, <2>4 DEF Fit
  <1>6. CASE HookAborts \/ BatchAborts
    BY <1>6, FitAborts DEF HookAborts, BatchAborts
  <1>7. CASE Answered
    BY <1>7, FitAnswered
  <1>8. CASE CallFails
    BY <1>8, FitFails DEF CallFails
  <1>9. CASE OverflowFails \/ ReactiveCompaction
    <2>1. pc \in {"call", "retry"} /\ Overflows
      BY <1>9 DEF OverflowFails, ReactiveCompaction, MayCompact
    <2> QED
      BY <1>a, <2>1 DEF Fit, Asked, Overflows
  <1>10. CASE BatchDone
    <2>1. /\ pc = "tools" /\ pc' = "head" /\ turn' = turn + 1
          /\ UNCHANGED <<compaction, lastCallInputTokens, startLen, cancelled>>
          /\ Commit(<<ToolResults(runs, calls)>>)
      BY <1>10 DEF BatchDone, NextTurn
    <2>2. ToolResults(runs, calls) \in Message
      BY MessageTypes DEF LoopInv, TypeOK
    <2>3. turn < MaxIter /\ Len(conversation) = startLen + 2 + 2 * turn
      BY <2>1 DEF Fit, Counts
    <2>4. Len(conversation') = Len(conversation) + 1
      BY <2>1, <2>2, CommitFacts DEF LoopInv
    <2>5. Dense(conversation', Span)
      <3>1. Len(conversation) - startLen <= 2 * MaxIter
        BY <1>a, <2>3
      <3> QED
        BY <2>1, <2>2, <3>1, DenseCommit
    <2>6. Growth = 1 /\ Growth' = 2
      BY <1>a, <2>1 DEF Growth
    <2>7. Len(conversation) <= lastCallInputTokens + 1
      BY <2>1, <2>6 DEF Fit, Measured
    <2>8. Len(conversation') <= lastCallInputTokens' + 2
      BY <1>a, <2>1, <2>4, <2>7
    <2>9. Measured'
      BY <2>6, <2>8 DEF Measured
    <2>10. turn' <= MaxIter /\ Len(conversation') = startLen' + 1 + 2 * turn'
      BY <1>a, <2>1, <2>3, <2>4
    <2>11. Counts' /\ Asked'
      BY <1>a, <2>1, <2>10 DEF Counts, Asked
    <2> QED
      BY <2>1, <2>5, <2>9, <2>11 DEF Fit
  <1>11. CASE StartRun
    <2>1. /\ pc = "idle" /\ pc' = "head" /\ turn' = 0 /\ startLen' = Len(conversation)
          /\ UNCHANGED <<compaction, lastCallInputTokens, cancelled>>
          /\ Commit(<<UserText(runs + 1)>>)
      BY <1>11 DEF StartRun
    <2>2. UserText(runs + 1) \in Message
      <3>1. runs + 1 \in Nat
        BY DEF LoopInv, TypeOK
      <3> QED
        BY <3>1, MessageTypes
    <2>3. /\ conversation' \in Seq(Message) /\ Len(conversation') = Len(conversation) + 1
          /\ conversation'[Len(conversation) + 1] = UserText(runs + 1)
          /\ \A i \in 1..Len(conversation) : conversation'[i] = conversation[i]
      BY <2>1, <2>2, CommitFacts DEF LoopInv
    <2>4. Dense(conversation', Span)
      <3>1. Shaped(conversation) /\ Shaped(conversation')
        BY <1>a, <2>3, ShapedSeq
      <3>2. Len(conversation') \in DOMAIN conversation'
        BY <1>a, <2>3, <3>1 DEF Shaped
      <3>3. Len(conversation') \in TurnStarts(conversation')
        BY <2>3, <3>2 DEF TurnStarts, UserText
      <3>4. /\ Len(conversation') <= Len(conversation')
            /\ Len(conversation') - Len(conversation') < Span
        BY <1>a, <2>3, Limits
      <3> QED
        BY <2>3, <3>1, <3>3, <3>4, DenseAppend, Limits DEF Fit
    <2>5. Growth = 2 /\ Reserve = 1 /\ Growth' = 3 /\ Reserve' = 0
      BY <2>1 DEF Growth, Reserve
    <2>6. \/ Len(conversation) <= lastCallInputTokens + 2
          \/ Len(conversation) + 1 <= ContextWindow
      BY <2>5 DEF Fit, Measured
    <2>7. \/ Len(conversation') <= lastCallInputTokens' + 3
          \/ Len(conversation') + 0 <= ContextWindow
      <3>1. \A l, u, w \in Int : l <= u + 2 \/ l + 1 <= w => l + 1 <= u + 3 \/ (l + 1) + 0 <= w
        OBVIOUS
      <3> QED
        BY <1>a, <2>1, <2>3, <2>6, <3>1
    <2>8. Measured'
      BY <2>1, <2>5, <2>7 DEF Measured
    <2>9. Len(conversation') = startLen' + 1 + 2 * turn'
      BY <1>a, <2>1, <2>3
    <2>10. Counts' /\ Asked'
      BY <1>a, <2>1, <2>9 DEF Counts, Asked
    <2> QED
      BY <2>1, <2>4, <2>8, <2>10 DEF Fit
  <1>12. CASE ManualCompact
    <2>1. PICK p \in Proposals(compaction, conversation) :
            IF Applied(p, Len(conversation))
              THEN ReplacePrefix(p, Len(conversation))
              ELSE UNCHANGED conversation
      BY <1>b, <1>12 DEF ManualCompact, ArchivalMayPanic
    <2>2. /\ pc = "idle"
          /\ UNCHANGED <<compaction, lastCallInputTokens, pc, startLen, turn, request, cancelled>>
      BY <1>12 DEF ManualCompact, locals
    <2>3. Growth' = Growth /\ Reserve' = Reserve /\ Growth = 2 /\ Reserve = 1
      BY <2>2 DEF Growth, Reserve
    <2>4. Counts' /\ Asked'
      BY <2>2 DEF Fit, Counts, Asked
    <2>5. Dense(conversation', Span) /\ Len(conversation') \in Nat
            /\ Len(conversation') <= Len(conversation)
      <3>1. CASE ~Applied(p, Len(conversation))
        BY <1>a, <2>1, <3>1 DEF Fit
      <3>2. CASE Applied(p, Len(conversation))
        <4>1. /\ Len(conversation) \in 0..Len(conversation)
              /\ p \in Proposals(compaction, Prefix(Len(conversation)))
          <5>1. Prefix(Len(conversation)) = conversation
            BY <1>a, SubSeqFull DEF Prefix
          <5> QED
            BY <1>a, <2>1, <5>1
        <4>2. conversation' = Compacted(p, Len(conversation)) \o InFlight(Len(conversation))
          BY <2>1, <3>2 DEF ReplacePrefix
        <4>3. Dense(conversation', Span) /\ Len(conversation') = Len(conversation) - p.cut
          BY <1>a, <3>2, <4>1, <4>2, DenseReplaced
        <4>4. p.cut \in 0..Len(conversation)
          BY <3>2 DEF Applied, Rejected
        <4> QED
          BY <1>a, <4>3, <4>4
      <3> QED
        BY <3>1, <3>2
    <2>6. \/ Len(conversation') <= lastCallInputTokens' + 2
          \/ Len(conversation') + 1 <= ContextWindow
      <3>1. \/ Len(conversation) <= lastCallInputTokens + 2
            \/ Len(conversation) + 1 <= ContextWindow
        BY <2>3 DEF Fit, Measured
      <3> QED
        BY <1>a, <2>2, <2>5, <3>1
    <2>7. Measured'
      BY <2>2, <2>3, <2>6 DEF Measured
    <2> QED
      BY <2>2, <2>4, <2>5, <2>7 DEF Fit
  <1>13. CASE SetCompaction
    <2>1. /\ compaction' \in Configs
          /\ UNCHANGED <<conversation, lastCallInputTokens, pc, startLen, turn, request, cancelled>>
      BY <1>13 DEF SetCompaction, locals
    <2>2. Growth' = Growth /\ Reserve' = Reserve
      BY <2>1 DEF Growth, Reserve
    <2>3. Measured'
      BY <2>1, <2>2 DEF Fit, Measured
    <2> QED
      BY <2>1, <2>3 DEF Fit, Counts, Asked
  <1>14. CASE UNCHANGED vars
    <2>1. UNCHANGED <<conversation, compaction, lastCallInputTokens, pc, startLen, turn,
                      request, cancelled>>
      BY <1>14 DEF vars, agent, locals
    <2>2. Growth' = Growth /\ Reserve' = Reserve
      BY <2>1 DEF Growth, Reserve
    <2>3. Measured'
      BY <2>1, <2>2 DEF Fit, Measured
    <2> QED
      BY <2>1, <2>3 DEF Fit, Counts, Asked
  <1> QED
    BY <1>1, <1>2, <1>3, <1>4, <1>5, <1>6, <1>7, <1>8, <1>9, <1>10, <1>11, <1>12,
       <1>13, <1>14 DEF Next, RunStep, Host

\* The size signal keeps every request inside the window, for any number of Runs:
\* when every answer measures what the Agent sends and the window has room for two messages past the
\* threshold and for the turns of KeepTurns and one AdvanceChunk
\* (agent.go:161-171, compaction.go:258-261, compaction_strategies.go:49-64).
THEOREM RequestsInside ==
    Measurable /\ (\A c \in Configs : Roomy(c)) => (Spec => []RequestsFit)
  <1> SUFFICES ASSUME Measurable, \A c \in Configs : Roomy(c)
               PROVE  Spec => []RequestsFit
    OBVIOUS
  <1>1. LoopInv /\ Fit /\ [Next]_vars => Fit'
    BY FitStep
  <1>2. Spec => []Fit
    BY LoopInvariance, FitInit, <1>1, PTL DEF Spec
  <1>3. LoopInv /\ Fit => RequestsFit
    <2> SUFFICES ASSUME LoopInv, Fit, pc \in {"call", "retry"}, Overflows PROVE FALSE
      BY DEF RequestsFit
    <2> QED
      BY FitTypes DEF Fit, Asked, Overflows
  <1> QED
    BY LoopInvariance, <1>2, <1>3, PTL
=============================================================================
