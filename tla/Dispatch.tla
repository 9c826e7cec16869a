------------------------------ MODULE Dispatch ------------------------------
(***************************************************************************)
(* One batch of tool calls: Agent.executeToolBatch (agent/agent.go) around *)
(* ToolRegistry.dispatch (agent/dispatch.go).  The goroutine of the Run    *)
(* takes the calls one by one through the PreToolUse hook, takes those     *)
(* that remain one by one through the approval callback, starts a          *)
(* goroutine per approved call, waits for all of them, and takes every     *)
(* result one by one through the PostToolUse hook.                         *)
(*                                                                         *)
(* A call is its position in the answer of the model.  dispatch sees only  *)
(* the surviving calls, at positions of its own (slots).                   *)
(***************************************************************************)
EXTENDS Integers, Sequences, SequencesExt

CONSTANT N    \* calls in the batch

ASSUME DispatchAssumption == N \in Nat \ {0}

\* How Execute ends: a gate panic is the error a sub-agent tool surfaces.
ToolOutcomes == {"ok", "error", "panic", "gate_panic"}

Calls == 1..N
None  == 0

\* toolResult: the call it names and where its content comes from.
Result(c, from) == [id |-> c, from |-> from]
NoResult        == Result(None, "none")

VARIABLES
    kind,         \* what the registry knows of each call's tool
    pc, k,        \* position of the Run's goroutine, and its loop index
    survivors,    \* calls handed to dispatch
    approved,     \* slots[...].approved, by call
    worker,       \* the goroutine of each call
    slotResults,  \* dispatch's results, by slot
    results,      \* executeToolBatch's results, by call
    fatal,        \* fatalErr: the call whose tool surfaced a gate panic
    returned,     \* how executeToolBatch returned
    (* history variables, read by properties only *)
    synthesized,  \* calls answered by the PreToolUse hook
    granted,      \* calls the approval callback said yes to
    outcomeOf     \* how the tools that ended did

vars == <<kind, pc, k, survivors, approved, worker, slotResults, results, fatal,
          returned, synthesized, granted, outcomeOf>>

Init ==
    /\ kind \in [Calls -> {"unknown", "plain", "hitl"}]
    /\ pc = "pre" /\ k = 1
    /\ survivors = <<>> /\ approved = {}
    /\ worker = [c \in Calls |-> "none"]
    /\ slotResults = [j \in Calls |-> NoResult]
    /\ results = [c \in Calls |-> NoResult]
    /\ fatal = None /\ returned = "none"
    /\ synthesized = {} /\ granted = {} /\ outcomeOf = [c \in Calls |-> "none"]

Return_Nil(how) == pc' = "returned" /\ returned' = how /\ results' = <<>>

Return(how) ==
    /\ pc' = "returned" /\ returned' = how
    /\ results' = IF how = "results" THEN results ELSE [c \in Calls |-> NoResult]

GoTo(where) == pc' = where /\ k' = 1

-----------------------------------------------------------------------------
(* executeToolBatch: the PreToolUse pass                                   *)

\* Continue, Modify (the call keeps its ID), an unknown decision, no hook.
PrePasses ==
    /\ pc = "pre" /\ k <= N
    /\ survivors' = Append(survivors, k) /\ k' = k + 1
    /\ UNCHANGED <<kind, pc, approved, worker, slotResults, results, fatal,
                   returned, synthesized, granted, outcomeOf>>

PreSubstitutes ==
    /\ pc = "pre" /\ k <= N
    /\ results' = [results EXCEPT ![k] = Result(k, "hook")]
    /\ synthesized' = synthesized \cup {k} /\ k' = k + 1
    /\ UNCHANGED <<kind, pc, survivors, approved, worker, slotResults, fatal,
                   returned, granted, outcomeOf>>

\* Abort, an error or a panic of the hook.
PreAborts ==
    /\ pc = "pre" /\ k <= N
    /\ Return("hook_abort")
    /\ UNCHANGED <<kind, k, survivors, approved, worker, slotResults, fatal,
                   synthesized, granted, outcomeOf>>

\* dispatch, when a call is left for it: the slots are filled from the registry.
PreDone ==
    /\ pc = "pre" /\ k > N
    /\ IF survivors = <<>>
         THEN GoTo("post") /\ UNCHANGED approved
         ELSE /\ GoTo("approve")
              /\ approved' = {c \in ToSet(survivors) : kind[c] = "plain"}
    /\ UNCHANGED <<kind, survivors, worker, slotResults, results, fatal, returned,
                   synthesized, granted, outcomeOf>>

-----------------------------------------------------------------------------
(* dispatch: the approval pass                                             *)

Slots == 1..Len(survivors)

NoApprovalNeeded ==
    /\ pc = "approve" /\ k \in Slots /\ kind[survivors[k]] # "hitl"
    /\ k' = k + 1
    /\ UNCHANGED <<kind, pc, survivors, approved, worker, slotResults, results,
                   fatal, returned, synthesized, granted, outcomeOf>>

Asking == pc = "approve" /\ k \in Slots /\ kind[survivors[k]] = "hitl"

Approve ==
    /\ Asking
    /\ approved' = approved \cup {survivors[k]}
    /\ granted'  = granted \cup {survivors[k]} /\ k' = k + 1
    /\ UNCHANGED <<kind, pc, survivors, worker, slotResults, results, fatal,
                   returned, synthesized, outcomeOf>>

\* The callback says no or returns an error.
Deny ==
    /\ Asking
    /\ approved' = approved \ {survivors[k]} /\ k' = k + 1
    /\ UNCHANGED <<kind, pc, survivors, worker, slotResults, results, fatal,
                   returned, synthesized, granted, outcomeOf>>

\* The callback panics: nothing of the batch executes.
GatePanics ==
    /\ Asking
    /\ Return("gate_panic")
    /\ UNCHANGED <<kind, k, survivors, approved, worker, slotResults, fatal,
                   synthesized, granted, outcomeOf>>

ApprovalsDone ==
    /\ pc = "approve" /\ k \notin Slots
    /\ GoTo("launch")
    /\ UNCHANGED <<kind, survivors, approved, worker, slotResults, results, fatal,
                   returned, synthesized, granted, outcomeOf>>

-----------------------------------------------------------------------------
(* dispatch: the launching loop, the tools, the wait                       *)

Cleared_Known(c) == kind[c] # "unknown"
Cleared(c)       == c \in approved

\* An unknown tool or a denied call is answered at once.
AnswerUnrun ==
    /\ pc = "launch" /\ k \in Slots /\ ~Cleared(survivors[k])
    /\ LET c == survivors[k]
       IN  slotResults' = [slotResults EXCEPT ![k] =
             Result(c, IF kind[c] = "unknown" THEN "unknown" ELSE "denied")]
    /\ k' = k + 1
    /\ UNCHANGED <<kind, pc, survivors, approved, worker, results, fatal, returned,
                   synthesized, granted, outcomeOf>>

Launch ==
    /\ pc = "launch" /\ k \in Slots /\ Cleared(survivors[k])
    /\ worker' = [worker EXCEPT ![survivors[k]] = "running"] /\ k' = k + 1
    /\ UNCHANGED <<kind, pc, survivors, approved, slotResults, results, fatal,
                   returned, synthesized, granted, outcomeOf>>

LaunchDone ==
    /\ pc = "launch" /\ k \notin Slots
    /\ pc' = "wait"
    /\ UNCHANGED <<kind, k, survivors, approved, worker, slotResults, results, fatal,
                   returned, synthesized, granted, outcomeOf>>

Recorded_ErrorAsOutput(c, o) ==
    CASE o \in {"ok", "error"} -> Result(c, "tool")
      [] o = "panic" -> Result(c, "panic")
      [] OTHER       -> Result(c, "error")

\* results[i] in the goroutine.
Recorded(c, o) ==
    CASE o = "ok"    -> Result(c, "tool")
      [] o = "panic" -> Result(c, "panic")
      [] OTHER       -> Result(c, "error")

Fatal_Never(c, o) == fatal

\* recordFatal: the first gate panic is kept.
Fatal(c, o) == IF o = "gate_panic" /\ fatal = None THEN c ELSE fatal

\* Goroutine c: Execute ends, its result is recorded, the WaitGroup is told.
\* Each goroutine writes a slot of its own and fatalErr is under errMu.
ToolEnds(c) ==
    /\ worker[c] = "running"
    /\ \E o \in ToolOutcomes, j \in Slots :
         /\ survivors[j] = c
         /\ slotResults' = [slotResults EXCEPT ![j] = Recorded(c, o)]
         /\ fatal' = Fatal(c, o)
         /\ outcomeOf' = [outcomeOf EXCEPT ![c] = o]
    /\ worker' = [worker EXCEPT ![c] = "done"]
    /\ UNCHANGED <<kind, pc, k, survivors, approved, results, returned, synthesized,
                   granted>>

AllDone_FailFast == fatal # None \/ \A c \in Calls : worker[c] # "running"

AllDone_AddsPerSlot == \A j \in Slots : worker[survivors[j]] = "done"

AllDone == \A c \in Calls : worker[c] # "running"

Merged_BySlot ==
    [c \in Calls |-> IF c \in ToSet(survivors) THEN slotResults[c] ELSE results[c]]

\* results[survivors[i].idx] = r, for the results of dispatch.
Merged ==
    [c \in Calls |-> IF c \in ToSet(survivors)
                       THEN slotResults[CHOOSE j \in Slots : survivors[j] = c]
                       ELSE results[c]]

Collect ==
    /\ pc = "wait" /\ AllDone /\ fatal = None
    /\ results' = Merged
    /\ GoTo("post")
    /\ UNCHANGED <<kind, survivors, approved, worker, slotResults, fatal, returned,
                   synthesized, granted, outcomeOf>>

CollectFatal ==
    /\ pc = "wait" /\ AllDone /\ fatal # None
    /\ Return("gate_panic")
    /\ UNCHANGED <<kind, k, survivors, approved, worker, slotResults, fatal,
                   synthesized, granted, outcomeOf>>

-----------------------------------------------------------------------------
(* executeToolBatch: the PostToolUse pass                                  *)

PostKeeps ==
    /\ pc = "post" /\ k <= N
    /\ k' = k + 1
    /\ UNCHANGED <<kind, pc, survivors, approved, worker, slotResults, results,
                   fatal, returned, synthesized, granted, outcomeOf>>

PostModifies ==
    /\ pc = "post" /\ k <= N
    /\ results' = [results EXCEPT ![k] = Result(k, "hook")] /\ k' = k + 1
    /\ UNCHANGED <<kind, pc, survivors, approved, worker, slotResults, fatal,
                   returned, synthesized, granted, outcomeOf>>

PostAborts ==
    /\ pc = "post" /\ k <= N
    /\ Return("hook_abort")
    /\ UNCHANGED <<kind, k, survivors, approved, worker, slotResults, fatal,
                   synthesized, granted, outcomeOf>>

PostDone ==
    /\ pc = "post" /\ k > N
    /\ Return("results")
    /\ UNCHANGED <<kind, k, survivors, approved, worker, slotResults, fatal,
                   synthesized, granted, outcomeOf>>

-----------------------------------------------------------------------------
RunStep ==
    \/ PrePasses \/ PreSubstitutes \/ PreAborts \/ PreDone
    \/ NoApprovalNeeded \/ Approve \/ Deny \/ GatePanics \/ ApprovalsDone
    \/ AnswerUnrun \/ Launch \/ LaunchDone \/ Collect \/ CollectFatal
    \/ PostKeeps \/ PostModifies \/ PostAborts \/ PostDone

Next == RunStep \/ \E c \in Calls : ToolEnds(c)

Spec == Init /\ [][Next]_vars

\* The goroutines are scheduled; hooks, the callback and the tools return.
FairSpec == Spec /\ WF_vars(RunStep) /\ \A c \in Calls : WF_vars(ToolEnds(c))
-----------------------------------------------------------------------------
(* Properties                                                              *)

Sources     == {"none", "hook", "unknown", "denied", "tool", "error", "panic"}
ToolResult  == [id : Calls \cup {None}, from : Sources]
Outcomes    == {"none", "ok", "error", "panic", "gate_panic"}

\* Every variable keeps its type.
TypeOK ==
    /\ kind \in [Calls -> {"unknown", "plain", "hitl"}]
    /\ pc \in {"pre", "approve", "launch", "wait", "post", "returned"}
    /\ k \in 1..N + 1
    /\ survivors \in Seq(Calls) /\ Len(survivors) <= N
    /\ approved \subseteq Calls
    /\ worker \in [Calls -> {"none", "running", "done"}]
    /\ slotResults \in [Calls -> ToolResult] /\ results \in [Calls -> ToolResult]
    /\ fatal \in Calls \cup {None}
    /\ returned \in {"none", "results", "hook_abort", "gate_panic"}
    /\ synthesized \subseteq Calls /\ granted \subseteq Calls
    /\ outcomeOf \in [Calls -> Outcomes]

\* A tool runs only when it is known, no hook answered in its place and, when
\* HITL-flagged, the callback approved this very call (dispatch.go:86-122).
OnlyClearedCallsRun ==
    \A c \in Calls : worker[c] # "none" =>
      /\ c \in ToSet(survivors) \ synthesized
      /\ kind[c] = "plain" \/ (kind[c] = "hitl" /\ c \in granted)

\* When the approval callback of this Run panics, no tool of the batch has run, not
\* even those that need no approval (dispatch.go:97-113); and a gate panic that a
\* sub-agent tool surfaces is never turned into an ordinary result, whatever its
\* siblings do (dispatch.go:184-191, 205-213).
BrokenGateIsFatal ==
    /\ returned = "gate_panic" /\ fatal = None => \A c \in Calls : worker[c] = "none"
    /\ (\E c \in Calls : outcomeOf[c] = "gate_panic") /\ pc \in {"post", "returned"}
         => returned = "gate_panic"

\* Each call gets exactly its own result, in the order of the calls, although
\* dispatch numbers the surviving calls anew (agent.go:614-616).
AnswersAligned == returned = "results" => \A c \in Calls : results[c].id = c

\* What the model is told of a call is what happened to it, unless a hook chose
\* otherwise: a failure, a panic or a denial is never shown as an output.
AnswersTrue ==
    returned = "results" =>
      \A c \in Calls : results[c].from \in
        {"hook", IF kind[c] = "unknown" THEN "unknown"
                 ELSE IF kind[c] = "hitl" /\ c \notin granted THEN "denied"
                 ELSE CASE outcomeOf[c] = "ok"    -> "tool"
                        [] outcomeOf[c] = "panic" -> "panic"
                        [] OTHER                  -> "error"}

\* Every batch returns.
BatchEnds == <>(pc = "returned")

Phase ==
    CASE pc \in {"pre", "approve"}                   -> "gating"
      [] pc \in {"launch", "wait", "post"}           -> "executing"
      [] pc = "returned" /\ returned = "results"     -> "finished"
      [] OTHER                                       -> "aborted"

Answered ==
    IF pc = "returned" /\ returned # "results" THEN {}
    ELSE {c \in Calls : \/ results[c].id # None
                       \/ \E j \in Slots : survivors[j] = c /\ slotResults[j].id # None}

Running == {c \in Calls : worker[c] = "running"}
Ran     == {c \in Calls : worker[c] # "none"}

TB == INSTANCE ToolBatch WITH
        phase <- Phase, answered <- Answered, running <- Running, ran <- Ran

\* The batch keeps the promise of ToolBatch.
ImplementsToolBatch == TB!Spec
=============================================================================
