----------------------------- MODULE AgentLoop -----------------------------
(***************************************************************************)
(* The agent loop of agent/agent.go: one Agent, its conversation, its      *)
(* compaction configuration (agent/compaction.go) and the Runs a host      *)
(* makes on it, one after the other.  A Run is a goroutine that only the   *)
(* cancellation of its context interleaves with; its steps are the pieces  *)
(* of code between two calls out of the library: to a compaction strategy, *)
(* to the PreLLMCall hook, to the Completer and to the tool batch, whose   *)
(* own concurrency is the subject of Dispatch.                             *)
(*                                                                         *)
(* Abstractions.  One message costs one input token, so a request is as    *)
(* large as its number of messages and overflows above ContextWindow.      *)
(* Usage counts API responses.  Env names what the environment may do      *)
(* (errors, cancellation, hook decisions, host calls between Runs).        *)
(***************************************************************************)
EXTENDS History

CONSTANTS
    MaxIterations,     \* Config.MaxIterations
    Configs,           \* the CompactionConfigs the host may set
    CustomProposals,   \* what an application's own strategy may answer
    Completions,       \* assistant messages: [uses, stop]
    HookRequests,      \* messages a PreLLMCall hook may send in place of the Run's
    ContextWindow,     \* messages in the largest request the API accepts
    Env,               \* enabled environment behaviours
    MaxRuns,           \* bound: Runs started
    MaxSpent           \* bound: responses counted or messages archived when the
                       \*   host still calls Compact

EnvBehaviours ==
    {"error", "panic", "cancel", "abort", "modify", "substitute", "batch_abort",
     "summary_error", "archive_panic", "reconfigure", "manual_compact", "resume"}

\* relative is ThresholdFraction * ContextWindow, truncated.
Unset == -1

CompactionConfig ==
    [kind : {"none", "sliding", "hybrid", "custom"}, keep : Int, chunk : Int,
     commit : BOOLEAN, threshold : Nat, relative : Nat \cup {Unset},
     archive : BOOLEAN]

Disabled == [kind |-> "none", keep |-> 0, chunk |-> 0, commit |-> FALSE,
             threshold |-> 0, relative |-> Unset, archive |-> FALSE]

Proposal == [ok : BOOLEAN, cut : Int, replacement : Seq(Message), usage : Nat]

ASSUME ConstantsAssumption ==
    /\ MaxIterations \in Int /\ MaxRuns \in Nat /\ MaxSpent \in Nat
    /\ ContextWindow \in Nat
    /\ Configs \subseteq CompactionConfig
    /\ Env \subseteq EnvBehaviours
    /\ \A p \in CustomProposals :
         p.ok \in BOOLEAN /\ p.cut \in Int /\ p.usage \in Nat
           /\ p.replacement \in Seq(Message)
    /\ HookRequests \subseteq Seq(Message)
    /\ \A c \in Completions : c.uses \subseteq CallId /\ c.stop \in {"tool_use", "other"}

VARIABLES
    conversation, compaction, lastCallInputTokens, usage,  \* fields of Agent
    pc, startLen, turn, request, calls,                    \* locals of Run
    cancelled,                                             \* ctx.Err() # nil
    archive,          \* messages delivered to the archival callback
    runs, outcome,    \* Runs started, how the last one ended
    (* history variables, read by properties only *)
    outcomes,         \* how the Runs so far ended
    base,             \* the committed history the current Run started from
    calledSince       \* a Completer call since the last committed compaction

agent   == <<conversation, compaction, lastCallInputTokens, usage>>
locals  == <<pc, startLen, turn, request, calls, cancelled>>
history == <<outcomes, base, calledSince>>
vars    == <<agent, locals, archive, runs, outcome, history>>

NoRequest == [msgs |-> <<>>, modified |-> FALSE]
Unclean   == {"failed_midloop", "cancelled", "exhausted", "truncated", "panicked"}
Outcomes  == {"none", "completed", "aborted", "failed_first"} \cup Unclean
Clean     == outcomes \cap Unclean = {}

Init ==
    /\ conversation = <<>> /\ lastCallInputTokens = 0
    /\ compaction \in Configs
    /\ usage = [cumulative |-> 0, lastRun |-> 0]
    /\ pc = "idle" /\ startLen = 0 /\ turn = 0 /\ request = NoRequest
    /\ calls = {} /\ cancelled = FALSE
    /\ archive = <<>> /\ runs = 0 /\ outcome = "none"
    /\ outcomes = {} /\ base = <<>>
    /\ calledSince = TRUE

MaxIter == IF MaxIterations <= 0 THEN 16 ELSE MaxIterations

-----------------------------------------------------------------------------
(* Pieces shared by the actions                                            *)

Commit(msgs) == conversation' = conversation \o msgs

RemoveLast(n) == conversation' = Rollback(conversation, n)

\* Run returns: its locals are gone.
Return(how) ==
    /\ pc' = "idle" /\ outcome' = how /\ outcomes' = outcomes \cup {how}
    /\ startLen' = 0 /\ turn' = 0 /\ request' = NoRequest /\ calls' = {}
    /\ cancelled' = FALSE

AddUsage(u, lastRun) ==
    usage' = [cumulative |-> usage.cumulative + u,
              lastRun    |-> IF lastRun THEN usage.lastRun + u ELSE usage.lastRun]

FailCall_NoRollback ==
    UNCHANGED conversation /\ Return(IF turn = 0 THEN "failed_first" ELSE "failed_midloop")

\* A failed call or compaction: only turn 0 takes the user message back.
FailCall ==
    IF turn = 0 THEN RemoveLast(1) /\ Return("failed_first")
                ELSE UNCHANGED conversation /\ Return("failed_midloop")

AbortRun_LastOnly == RemoveLast(1) /\ Return("aborted")

AbortRun ==
    /\ RemoveLast(Len(conversation) - startLen)
    /\ Return("aborted")

-----------------------------------------------------------------------------
(* agent/compaction.go                                                     *)

Enabled(c)   == c.kind # "none"
Committed(c) == c.kind = "hybrid" \/ c.commit

\* proactiveThreshold: the smaller of the two forms; 0 is no proactive trigger.
ProactiveThreshold(c) ==
    IF c.relative # Unset /\ (c.threshold = 0 \/ c.relative < c.threshold)
      THEN c.relative ELSE c.threshold

Proposed(ok, cut, replacement, u) ==
    [ok |-> ok, cut |-> cut, replacement |-> replacement, usage |-> u]

SummaryProposals(cut) ==
    {Proposed(TRUE, cut, <<UserText(Summary)>>, 1)}
      \cup IF "summary_error" \in Env
             THEN {Proposed(FALSE, 0, <<>>, u) : u \in {0, 1}} ELSE {}

Proposals(c, prefix) ==
    CASE c.kind = "sliding" ->
           {Proposed(TRUE, SlidingCut(prefix, c.keep, c.chunk), <<>>, 0)}
      [] c.kind = "hybrid"  ->
           LET cut == HybridCut(prefix, c.keep)
           IN  IF cut = 0 THEN {Proposed(TRUE, 0, <<>>, 0)} ELSE SummaryProposals(cut)
      [] OTHER -> CustomProposals

Prefix(limit) == SubSeq(conversation, 1, limit)

Compacted(p, limit) == Composed(conversation, p.cut, p.replacement, limit)

Rejected_NoValidation(p, limit) == ~p.ok \/ p.cut \notin 0..limit

\* The strategy failed, its cut is out of range or its result is not resumable.
Rejected(p, limit) ==
    \/ ~p.ok
    \/ p.cut \notin 0..limit
    \/ p.cut # 0 /\ ValidateHistory(Compacted(p, limit)) # 0

Applied(p, limit) == ~Rejected(p, limit) /\ p.cut # 0

\* What lies past the compacted prefix: the current Run's own messages.
InFlight_Short(limit) == SubSeq(conversation, limit + 2, Len(conversation))
InFlight(limit)       == SubSeq(conversation, limit + 1, Len(conversation))

Delivered_OneShort(p) == Prefix(p.cut - 1)
Delivered(p)          == Prefix(p.cut)

\* compactCommitted past its checks: archive the prefix, then replace it.
ReplacePrefix(p, limit) ==
    /\ archive' = IF compaction.archive THEN archive \o Delivered(p) ELSE archive
    /\ conversation' = Compacted(p, limit) \o InFlight(limit)
    /\ calledSince' = FALSE

\* The archival callback panics, with or without the prefix in its hands: the
\* replacement is not made.
ArchivalPanics_Replaced(p, limit) ==
    /\ UNCHANGED archive
    /\ conversation' = Compacted(p, limit) \o InFlight(limit)

ArchivalPanics(p, limit) ==
    /\ archive' \in {archive, archive \o Delivered(p)}
    /\ UNCHANGED conversation

ArchivalMayPanic == "archive_panic" \in Env /\ compaction.archive

\* The rollback anchor and the size signal after a committed compaction.
MovedAnchor_Forgotten(p) == startLen
MovedAnchor(p)           == startLen - p.cut + Len(p.replacement)

SizeAfterCompaction_Stale == lastCallInputTokens
SizeAfterCompaction       == 0

\* applyStrategyForRequest, when the strategy is not rejected: the request's
\* messages are the conversation's, or a transient view of them.
ApplyForRequest(p) ==
    IF ~Applied(p, startLen)
      THEN /\ request' = [msgs |-> conversation, modified |-> FALSE]
           /\ UNCHANGED <<conversation, archive, startLen, lastCallInputTokens,
                          base, calledSince>>
    ELSE IF Committed(compaction)
      THEN /\ ReplacePrefix(p, startLen)
           /\ base' = Compacted(p, startLen)
           /\ startLen' = MovedAnchor(p)
           /\ lastCallInputTokens' = SizeAfterCompaction
           /\ request' = [msgs |-> conversation', modified |-> FALSE]
    ELSE /\ request' = [msgs |-> Compacted(p, startLen) \o InFlight(startLen),
                        modified |-> FALSE]
         /\ UNCHANGED <<conversation, archive, startLen, lastCallInputTokens,
                        base, calledSince>>

-----------------------------------------------------------------------------
(* The host between Runs                                                   *)

StartRun ==
    /\ pc = "idle" /\ runs < MaxRuns
    /\ pc' = "head" /\ runs' = runs + 1
    /\ startLen' = Len(conversation) /\ base' = conversation
    /\ Commit(<<UserText(runs + 1)>>)
    /\ usage' = [usage EXCEPT !.lastRun = 0]
    /\ turn' = 0
    /\ UNCHANGED <<compaction, lastCallInputTokens, request, calls, cancelled,
                   archive, outcome, outcomes, calledSince>>

\* Compact: nothing when disabled; an error leaves the history alone.
ManualCompact ==
    /\ "manual_compact" \in Env
    /\ pc = "idle" /\ Enabled(compaction) /\ usage.cumulative < MaxSpent /\ Len(archive) < MaxSpent
    /\ \E p \in Proposals(compaction, conversation) :
         /\ AddUsage(p.usage, FALSE)
         /\ IF ~Applied(p, Len(conversation))
              THEN UNCHANGED <<conversation, archive, calledSince>>
            ELSE \E panics \in {FALSE, ArchivalMayPanic} :
              IF panics THEN ArchivalPanics(p, Len(conversation)) /\ UNCHANGED calledSince
                        ELSE ReplacePrefix(p, Len(conversation))
    /\ UNCHANGED <<compaction, lastCallInputTokens, locals, runs, outcome,
                   outcomes, base>>

\* SetCompaction: at any time, from a hook or a handler too.
SetCompaction ==
    /\ "reconfigure" \in Env
    /\ \E c \in Configs : c # compaction /\ compaction' = c
    /\ UNCHANGED <<conversation, lastCallInputTokens, usage, locals, archive,
                   runs, outcome, history>>

\* NewAgentWithHistory over what Conversation returned: a fresh Agent, when
\* the history is accepted.
Resume ==
    /\ "resume" \in Env
    /\ pc = "idle" /\ ValidateHistory(conversation) = 0
    /\ compaction' = Disabled /\ lastCallInputTokens' = 0
    /\ usage' = [cumulative |-> 0, lastRun |-> 0]
    /\ UNCHANGED <<conversation, locals, archive, runs, outcome, outcomes, base, calledSince>>

Cancel ==
    /\ "cancel" \in Env /\ pc # "idle" /\ ~cancelled
    /\ cancelled' = TRUE
    /\ UNCHANGED <<agent, pc, startLen, turn, request, calls, archive, runs,
                   outcome, history>>

-----------------------------------------------------------------------------
(* Run: the head of the loop                                               *)

AtHead == pc = "head" /\ turn < MaxIter /\ ~cancelled

Exhausted ==
    /\ pc = "head" /\ turn >= MaxIter
    /\ Return("exhausted")
    /\ UNCHANGED <<agent, archive, runs, base, calledSince>>

ContextDone ==
    /\ pc = "head" /\ turn < MaxIter /\ cancelled
    /\ Return("cancelled")
    /\ UNCHANGED <<agent, archive, runs, base, calledSince>>

ProactiveDue_FirstTurnOnly ==
    /\ Enabled(compaction) /\ startLen > 0 /\ turn = 0
    /\ ProactiveThreshold(compaction) > 0
    /\ lastCallInputTokens >= ProactiveThreshold(compaction)

ProactiveDue ==
    /\ Enabled(compaction) /\ startLen > 0
    /\ ProactiveThreshold(compaction) > 0
    /\ lastCallInputTokens >= ProactiveThreshold(compaction)

BuildRequest ==
    /\ AtHead /\ ~ProactiveDue
    /\ request' = [msgs |-> conversation, modified |-> FALSE]
    /\ pc' = "hook"
    /\ UNCHANGED <<agent, startLen, turn, calls, cancelled, archive, runs,
                   outcome, history>>

ProactiveCompaction ==
    /\ AtHead /\ ProactiveDue
    /\ \E p \in Proposals(compaction, Prefix(startLen)) :
         /\ AddUsage(p.usage, TRUE)
         /\ IF Rejected(p, startLen)
              THEN /\ FailCall
                   /\ UNCHANGED <<lastCallInputTokens, archive, base, calledSince>>
              ELSE /\ ApplyForRequest(p)
                   /\ pc' = "hook"
                   /\ UNCHANGED <<turn, calls, cancelled, outcome, outcomes>>
    /\ UNCHANGED <<compaction, runs>>

-----------------------------------------------------------------------------
(* Run: the PreLLMCall hook, the call and its one retry, the answer        *)

\* What a hook may send in place of the request, whatever its size.
Rewritten == {[msgs |-> m, modified |-> TRUE] : m \in HookRequests}

\* Continue (also an unknown decision, and no hook) or Modify.
HookPasses ==
    /\ pc = "hook" /\ pc' = "call"
    /\ request' \in {request} \cup IF "modify" \in Env THEN Rewritten ELSE {}
    /\ UNCHANGED <<agent, startLen, turn, calls, cancelled, archive, runs, outcome,
                   outcomes, base, calledSince>>

\* Abort, an error or a recovered panic of the hook.
HookAborts ==
    /\ "abort" \in Env /\ pc = "hook"
    /\ AbortRun
    /\ UNCHANGED <<compaction, lastCallInputTokens, usage, archive, runs, base, calledSince>>

\* The loop body after the answer: append it, then go on with its calls or end.
Accept(c) ==
    /\ Commit(<<AssistantReply(runs, c.uses)>>)
    /\ IF c.stop = "tool_use" /\ c.uses # {}
         THEN /\ pc' = "tools" /\ calls' = c.uses /\ request' = NoRequest
              /\ UNCHANGED <<startLen, turn, cancelled, outcome, outcomes>>
         ELSE Return(IF c.uses = {} THEN "completed" ELSE "truncated")

Substitute ==
    /\ "substitute" \in Env /\ pc = "hook"
    /\ \E c \in Completions : Accept(c)
    /\ UNCHANGED <<compaction, lastCallInputTokens, usage, archive, runs, base, calledSince>>

Overflows == Len(request.msgs) > ContextWindow

Answered ==
    /\ pc \in {"call", "retry"} /\ ~Overflows
    /\ \E c \in Completions : Accept(c)
    /\ AddUsage(1, TRUE)
    /\ lastCallInputTokens' = Len(request.msgs)
    /\ calledSince' = TRUE
    /\ UNCHANGED <<compaction, archive, runs, base>>

\* Any error but overflow: network, API, the cancelled context.
CallFails ==
    /\ pc \in {"call", "retry"} /\ ("error" \in Env \/ cancelled)
    /\ FailCall
    /\ calledSince' = TRUE
    /\ UNCHANGED <<compaction, lastCallInputTokens, usage, archive, runs, base>>

\* A panic of the strategy, the Completer or the handler leaves the Agent as it is.
CalloutPanics ==
    /\ "panic" \in Env
    /\ pc \in {"call", "retry"} \/ (AtHead /\ ProactiveDue)
    /\ Return("panicked")
    /\ calledSince' = (calledSince \/ pc # "head")
    /\ UNCHANGED <<agent, archive, runs, base>>

MayCompact == pc = "call" /\ Enabled(compaction) /\ startLen > 0

OverflowFails_FirstCallOnly ==
    /\ pc = "call" /\ Overflows /\ ~MayCompact
    /\ FailCall
    /\ calledSince' = TRUE
    /\ UNCHANGED <<compaction, lastCallInputTokens, usage, archive, runs, base>>

OverflowFails ==
    /\ pc \in {"call", "retry"} /\ Overflows /\ ~MayCompact
    /\ FailCall
    /\ calledSince' = TRUE
    /\ UNCHANGED <<compaction, lastCallInputTokens, usage, archive, runs, base>>

\* Compact and retry once; the original error stands when nothing was applied.
ReactiveCompaction ==
    /\ Overflows /\ MayCompact
    /\ \E p \in Proposals(compaction, Prefix(startLen)) :
         /\ AddUsage(p.usage, TRUE)
         /\ IF Applied(p, startLen)
              THEN /\ ApplyForRequest(p)
                   /\ pc' = "retry"
                   /\ UNCHANGED <<turn, calls, cancelled, outcome, outcomes>>
              ELSE /\ FailCall
                   /\ calledSince' = TRUE
                   /\ UNCHANGED <<lastCallInputTokens, archive, base>>
    /\ UNCHANGED <<compaction, runs>>

\* A panic of the archival callback, on either path: the summary is counted.
ArchivePanics ==
    /\ ArchivalMayPanic /\ Committed(compaction)
    /\ (AtHead /\ ProactiveDue) \/ (Overflows /\ MayCompact)
    /\ \E p \in Proposals(compaction, Prefix(startLen)) :
         /\ Applied(p, startLen) /\ AddUsage(p.usage, TRUE)
         /\ ArchivalPanics(p, startLen)
    /\ Return("panicked")
    /\ calledSince' = (calledSince \/ pc = "call")
    /\ UNCHANGED <<compaction, lastCallInputTokens, runs, base>>

-----------------------------------------------------------------------------
(* Run: the tool batch                                                     *)

NextTurn_Down == turn - 1
NextTurn      == turn + 1

BatchDone ==
    /\ pc = "tools"
    /\ Commit(<<ToolResults(runs, calls)>>)
    /\ turn' = NextTurn /\ pc' = "head" /\ calls' = {}
    /\ UNCHANGED <<compaction, lastCallInputTokens, usage, startLen, request,
                   cancelled, archive, runs, outcome, outcomes, base, calledSince>>

\* A tool hook aborted or an approval callback panicked.
BatchAborts ==
    /\ "batch_abort" \in Env /\ pc = "tools"
    /\ AbortRun
    /\ UNCHANGED <<compaction, lastCallInputTokens, usage, archive, runs, base, calledSince>>

RunStep ==
    \/ Exhausted \/ ContextDone \/ BuildRequest \/ ProactiveCompaction
    \/ HookPasses \/ HookAborts \/ Substitute
    \/ Answered \/ CallFails \/ CalloutPanics \/ OverflowFails
    \/ ReactiveCompaction \/ ArchivePanics
    \/ BatchDone \/ BatchAborts

Host == StartRun \/ ManualCompact \/ SetCompaction \/ Resume \/ Cancel

Next == RunStep \/ Host

Spec == Init /\ [][Next]_vars

\* The goroutine of Run is scheduled and everything it calls returns.
FairSpec == Spec /\ WF_vars(RunStep)
-----------------------------------------------------------------------------
(* Properties                                                              *)

Request == [msgs : Seq(Message), modified : BOOLEAN]

\* Every variable keeps its type.
TypeOK ==
    /\ conversation \in Seq(Message) /\ compaction \in Configs \cup {Disabled}
    /\ lastCallInputTokens \in Nat
    /\ usage \in [cumulative : Nat, lastRun : Nat]
    /\ pc \in {"idle", "head", "hook", "call", "retry", "tools"}
    /\ startLen \in Nat /\ turn \in Nat
    /\ request \in Request
    /\ calls \in SUBSET CallId /\ cancelled \in BOOLEAN
    /\ archive \in Seq(Message) /\ base \in Seq(Message)
    /\ runs \in Nat /\ outcome \in Outcomes /\ outcomes \in SUBSET Outcomes
    /\ calledSince \in BOOLEAN

\* The rollback anchor: throughout a Run the first startLen messages are the
\* history committed before it (as compacted since), and the message after
\* them is the Run's own user message (agent.go:142, compaction.go:244-248).
RollbackAnchor ==
    pc # "idle" =>
      /\ startLen < Len(conversation) /\ Prefix(startLen) = base
      /\ conversation[startLen + 1] = UserText(runs)

\* A Run that aborts, or fails on its first call, leaves exactly the history
\* it started from, as compacted since (agent.go:240-242 and 487-491).
FailureRestoresBase ==
    [][pc # "idle" /\ pc' = "idle" /\ outcome' \in {"aborted", "failed_first"}
         => conversation' = base]_vars

\* As long as no Run ended past its first turn by an error, by cancellation,
\* by exhausting its iterations, by a truncated answer or by a panic, what
\* Conversation returns between Runs can be resumed (S2.6, S2.15).
CommittedResumable == pc = "idle" /\ Clean => Resumable(conversation)

\* What the API accepts as the messages of a request (E6.2).
Compliant(msgs) ==
    /\ msgs # <<>> /\ Last(msgs).role = "user"
    /\ Alternates(msgs) /\ UsesAnswered(msgs) /\ NoOrphans(msgs)

\* Under the same condition every request that goes out, the first, the
\* compacted and the retried, obeys the message protocol (E6.2), unless a hook
\* wrote it: what a hook sends is its own.
RequestsCompliant ==
    pc \in {"hook", "call", "retry"} /\ Clean /\ ~request.modified => Compliant(request.msgs)

\* Whatever happens, no tool_result ever loses the tool_use it answers: not by
\* rollback, not by any strategy's cut (S2.18, invariant preservation).
ResultsKeepTheirUses == NoOrphans(conversation)

\* The messages of h that are no generated summary.
Verbatim(h) ==
    LET said[i \in 0..Len(h)] ==
          IF i = 0 THEN <<>>
          ELSE IF h[i].text = Summary THEN said[i - 1] ELSE Append(said[i - 1], h[i])
    IN  said[Len(h)]

Log == INSTANCE TurnLog WITH
         log     <- Verbatim(archive \o conversation),
         running <- pc # "idle",
         mark    <- IF pc = "idle" THEN 0 ELSE Len(Verbatim(archive \o Prefix(startLen)))

\* Archive and conversation together are a log that a Run appends to, and that it
\* leaves as it found it or with all it wrote, through the compactions in its middle
\* (S2.6, S2.18).  For instances whose configurations all archive, to a callback that
\* does not panic: what it had in hand is then archived and kept.
ImplementsTurnLog == Log!Spec

\* Inside Runs two committed compactions always have a Completer call between
\* them, so no stale size signal compacts twice (compaction.go:248-250).
CompactionsSeparatedByCalls ==
    [][archive' # archive /\ pc' # "idle" => calledSince \/ pc = "call"]_vars

\* A Run that compacts never touches what it appended itself.
InFlightUntouched ==
    [][pc # "idle" /\ archive' # archive /\ pc' # "idle" =>
         SubSeq(conversation', startLen' + 1, Len(conversation'))
           = SubSeq(conversation, startLen + 1, Len(conversation))]_vars

\* What a step of a Run takes from the history committed before it, the archival
\* callback has been given whole, and last, also when that callback panics
\* (compaction.go:174-181 "deliver before discard").
DroppedWasArchived ==
    [][pc # "idle" /\ compaction.archive =>
         \/ IsPrefix(Prefix(startLen), conversation')
         \/ \E n \in 1..startLen :
              /\ archive' = archive \o Prefix(n)
              /\ IsSuffix(SubSeq(conversation, n + 1, Len(conversation)), conversation')]_vars

\* The size signal keeps requests inside the window.
RequestsFit == pc \in {"call", "retry"} => ~Overflows

\* Every Run returns.
RunTerminates == pc # "idle" ~> pc = "idle"

\* S2.6, s2-functionality.md:817-818: lists returned by messages "therefore
\* always satisfy the five S2.15 resumption invariants".
AlwaysResumable == pc = "idle" => Resumable(conversation)
=============================================================================
