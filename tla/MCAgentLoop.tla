---------------------------- MODULE MCAgentLoop ----------------------------
(* Instances of AgentLoop for TLC.                                         *)
EXTENDS AgentLoop, TLC

Config(kind, keep, chunk, commit, threshold, relative) ==
    [kind |-> kind, keep |-> keep, chunk |-> chunk, commit |-> commit,
     threshold |-> threshold, relative |-> relative, archive |-> TRUE]

Off == Config("none", 0, 0, FALSE, 0, Unset)

SlidingCommitted == Config("sliding", 1, 1, TRUE, 4, Unset)
SlidingTransient == Config("sliding", 1, 1, FALSE, 4, Unset)
Hybrid           == Config("hybrid", 1, 0, TRUE, 4, 3)
Custom           == Config("custom", 0, 0, TRUE, 2, Unset)
CustomTransient  == Config("custom", 0, 0, FALSE, 2, Unset)

LibraryConfigs     == {Off, SlidingCommitted, SlidingTransient, Hybrid}
OnlySlidingAtFive  == {Config("sliding", 1, 1, TRUE, 5, Unset)}
OnlyOff            == {Off}
AllConfigs         == {Off, SlidingCommitted, Hybrid, Custom, CustomTransient}

FinalAnswer  == [uses |-> {}, stop |-> "other"]
ToolCalls(S) == [uses |-> S, stop |-> "tool_use"]
Truncated(S) == [uses |-> S, stop |-> "other"]
NoCalls      == [uses |-> {}, stop |-> "tool_use"]

Answers     == {FinalAnswer, ToolCalls(CallId)}
AllAnswers  == {FinalAnswer, NoCalls} \cup {ToolCalls(S) : S \in SUBSET CallId \ {{}}}
                 \cup {Truncated(CallId)}

\* An application's strategy: a failure that spent a response, a negative cut, cuts
\* that split a turn, that drop one and that keep a summary, out of range at times.
CustomAnswers ==
    {Proposed(FALSE, 0, <<>>, 1), Proposed(TRUE, -1, <<>>, 0), Proposed(TRUE, 1, <<>>, 0),
     Proposed(TRUE, 2, <<>>, 0), Proposed(TRUE, 3, <<UserText(Summary)>>, 0)}
NoProposals == {}

\* A hook trims the request to one message, or makes it too large for the window.
TrimsAndBlowsUp == {<<UserText(0)>>, [i \in 1..ContextWindow + 1 |-> UserText(0)]}
Trims           == {<<UserText(0)>>}

\* What is archived is also dropped.
ArchivesAtOnce == EnvBehaviours \ {"archive_panic"}

\* No failure rescues a Run that is stuck.
WithoutRescue == EnvBehaviours \ {"manual_compact", "error", "panic"}

\* The environment of the disagreement.
ErrorsOnly     == {"error"}

\* What is sent is what the Agent built, and its size is reported; what nobody measured
\* yet is the Run's last messages, or the user message that a panicking archive leaves.
NoShortcuts == {"error", "abort", "batch_abort", "manual_compact", "archive_panic"}
=============================================================================
