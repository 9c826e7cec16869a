----------------------------- MODULE ToolBatch -----------------------------
(***************************************************************************)
(* What the agent loop is promised of a batch of tool calls (S2.5, S2.8,   *)
(* S2.10): first every gate is passed, then the cleared calls run in       *)
(* parallel, each at most once, and the batch ends with an answer to every *)
(* call, or aborted with none; it never ends while a tool runs.            *)
(***************************************************************************)
CONSTANT Calls

VARIABLES phase, answered, running, ran

vars == <<phase, answered, running, ran>>

Init ==
    /\ phase = "gating"
    /\ answered = {} /\ running = {} /\ ran = {}

\* A hook answers in the place of the tool.
AnswerAtGate(c) ==
    /\ phase = "gating" /\ c \notin answered
    /\ answered' = answered \cup {c}
    /\ UNCHANGED <<phase, running, ran>>

OpenGates ==
    /\ phase = "gating" /\ phase' = "executing"
    /\ UNCHANGED <<answered, running, ran>>

Run(c) ==
    /\ phase = "executing" /\ c \notin answered \cup ran
    /\ running' = running \cup {c} /\ ran' = ran \cup {c}
    /\ UNCHANGED <<phase, answered>>

\* The tool returned, or the call was denied or names no tool.
Answer(c) ==
    /\ phase = "executing" /\ c \notin answered
    /\ answered' = answered \cup {c} /\ running' = running \ {c}
    /\ UNCHANGED <<phase, ran>>

Finish ==
    /\ phase = "executing" /\ running = {} /\ answered = Calls
    /\ phase' = "finished"
    /\ UNCHANGED <<answered, running, ran>>

Abort ==
    /\ phase \in {"gating", "executing"} /\ running = {}
    /\ phase' = "aborted" /\ answered' = {}
    /\ UNCHANGED <<running, ran>>

Next ==
    \/ \E c \in Calls : AnswerAtGate(c) \/ Run(c) \/ Answer(c)
    \/ OpenGates \/ Finish \/ Abort

Spec == Init /\ [][Next]_vars
=============================================================================
