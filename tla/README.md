# go-agents: a TLA+ model

This directory models the library under `agent/` of go-agents: an agent loop
around the Anthropic API, with tool dispatch, hooks, history compaction and
sub-agents. TLC checks the modules on small instances; TLAPS proves theorems about
them for every value of their constants. Line numbers refer to files under
`src/agent/` unless a path says otherwise.

## The system

| Component | State | Operations | Hard behaviour | What makes it correct |
|---|---|---|---|---|
| Agent loop (`agent.go`) | conversation, hooks, compaction config, usage, size of the last request | `Run`, `SetHooks`, `Usage` | failure at any step, two rollback rules, cancellation, one retry, hooks that write the request | a failed turn is taken back, requests obey the message protocol, every Run returns |
| Compaction (`compaction.go`) | the config; works on the Agent's state | `SetCompaction`, `Compact`, proactive and reactive trigger | runs inside a Run, moves the rollback anchor, stale size signal, strategies and archives of the application | nothing dropped that was not archived, the Run's own messages untouched, result resumable |
| Strategies (`compaction_strategies.go`) | none | sliding window, hybrid summary | boundaries and rounding | never split a tool use from its result, keep the promised window |
| Conversation and resumption (`conversation.go`, `resumption.go`) | the message list | append, rollback, replace, validate, resume | five rules over neighbouring messages | accepts exactly the resumable histories |
| Tool batch (`agent.go` `executeToolBatch`, `dispatch.go`) | slots, results, fatal error | hooks before and after, approvals, parallel execution | goroutines, panics, renumbered calls | only cleared calls run, each call gets its own result, no straggler |
| Sub-agent tool (`subagent.go`, `subagent_context.go`) | session store, a mutex per session, inherited gate and stream | `Execute`, one-shot and multi-turn | parallel children, shared session, panics past an unlock | exclusive sessions that remember, exclusive stream, calls return |
| Registry (`registry.go`) | its tools, its approval callback | `Register`, `SetApprovalCallback`; `NewSubAgentTool` replaces the callback | set-up in any order, registries shared by agents, callbacks that call callbacks | no HITL tool runs unasked, the right human is asked, sub-agents do not nest |
| Completer and event stream (`completer.go`, `event.go`, `complete` in `agent.go`) | the stream's cursor, the message accumulated so far, the open response body | `Complete`, `Next`, `Close`, the handlers of parent and children | parallel children behind one handler, streams that break off, panics of handlers | a serial handler, what is committed was shown whole and in order, nothing left open or locked |
| Memory behind messages (`conversation.go`, `messages.go`, `buildRequestFrom`) | backing arrays, role variants, content, blocks | append, rollback, copy, mark for caching | slices that share an array, pointers three levels deep | slices given away do not change, the history carries no cache marker |
| Hook types (`hooks.go`) | none | decide | | seen at their call sites |
| Configuration, observability, examples | none that steers a call | | | not modelled |

How they interact. A host calls `Run`. Each iteration may compact
(strategy, possibly with its own Completer call), builds a request, asks the
PreLLMCall hook, calls the Completer, appends the answer and hands its tool calls to
`executeToolBatch`, which asks PreToolUse per call, dispatches the survivors, and asks
PostToolUse per call. A tool may be a sub-agent: its `Execute` runs another Agent on
the goroutine of the call, with the parent's event handler and approval callback
reached through the context.

## Modules

| Module | Models |
|---|---|
| `History` | messages and the pure algorithms over them: validator, rollback, turn starts, strategy cuts; and the five rules of S2.15 stated independently |
| `AgentLoop` | an Agent, the Runs a host makes on it, compaction |
| `TurnLog` | what an Agent promises about everything it was told: `AgentLoop` implements it |
| `Dispatch` | one tool batch, with its goroutines |
| `ToolBatch` | what a tool batch promises: `Dispatch` implements it |
| `SubAgent` | a sub-agent tool under its parent's parallel dispatch: sessions, locks, gate |
| `Gates` | registries, the callbacks in them, and the chains of Runs that reach them |
| `Stream` | the event streams of a Run and its parallel sub-agents, and the handlers they go through |
| `Memory` | the slices, variants and blocks behind the conversation and its copies |
| `Conversation` | a conversation as a value: `Memory` implements it |
| `Picking` | what it means that a sequence is another's picked positions; shared by `SubAgent` and `Stream` |
| `MCHistory`, `MCAgentLoop`, `MCSubAgent`, `MCGates`, `MCStream` | instances for TLC |
| `AgentLoopProofs`, `HistoryLemmas`, `HistoryProofs`, `DispatchProofs`, `SubAgentProofs`, `GatesProofs`, `StreamProofs`, `MemoryProofs` | theorems |

The modules overlap where the code's concerns do, each with what the others leave out. A tool
batch is one step of `AgentLoop` and all of `Dispatch`; a sub-agent's call is one tool end of
`Dispatch`, a session and a lock in `SubAgent`, a level of a chain in `Gates` and a producer
of events in `Stream`; the child's Run in it is again an `AgentLoop`. What one module takes
from another is named where it is taken: `SubAgent`'s fairness of a child's end is
`RunTerminates`, `Stream`'s wait for all children is `ImplementsToolBatch`.

Definitions named `X_Suffix` are variants of `X`, each with a plausible mistake; no
specification uses them. Substituted for `X` they show which property notices.

### History

A message is its role, the IDs of its tool_use blocks, the IDs its tool_result blocks
answer, and a number for its prose. Indices are 1-based; a cut counts messages, as in the
code. `ValidateHistory` returns the number of the broken rule, in the order the code looks.
The duplicate of an ID inside one message is not represented: the code turns IDs into sets.

### AgentLoop

One step is the code between two calls out of the library. `pc` is where the Run is:
`head` (top of the loop), `hook`, `call` and `retry` (in the Completer), `tools` (in the
batch), `idle` (no Run). The fields of Agent and the locals of Run (`startLen`, `turn`,
the request, the calls) are variables under their names.

| Code | Action |
|---|---|
| `Run` 94-152 | `StartRun` |
| 154-185 | `Exhausted`, `ContextDone`, `BuildRequest`, `ProactiveCompaction` |
| 190-220 | `HookPasses` (Continue, Modify, unknown), `HookAborts`, `Substitute` |
| 221-281 | `Answered`, `CallFails`, `CalloutPanics`, `OverflowFails`, `ReactiveCompaction` |
| a panic of the archive callback, `compaction.go` 178 | `ArchivePanics`, and a choice in `ManualCompact` |
| 282-292 | `BatchDone`, `BatchAborts` |
| `Compact`, `SetCompaction`, `NewAgentWithHistory` | `ManualCompact`, `SetCompaction`, `Resume` |
| cancellation of the caller's context | `Cancel` |

`ReplacePrefix` and `ApplyForRequest` are `compactCommitted` and
`applyStrategyForRequest`. A rejected proposal fails the Run on the proactive path and
leaves the original error on the reactive one. `Env` is the set of things the environment may
do; a run that needs a quieter world names fewer.

Abstractions. One message is one token, so the size of a request is its number of
messages, and a request overflows above `ContextWindow`. Usage counts responses, and is
state without a property of its own. A hook's Modify sends any request of `HookRequests`, a short one or one too
large among them; the API measures that request, and its size becomes the trigger's signal
(253-256). What it says is the hook's own, so `RequestsCompliant` leaves it out. The host is
sequential: it starts a Run or calls `Compact` only when no Run is in flight, as
`requirements/system/s2-functionality.md:36-37` and `:955` ask of it. `SetCompaction` may
come at any moment.

History variables (`outcomes`, `base`, `calledSince`, `archive`) record what properties
compare the state with; no guard reads them, except `archive`, with the usage, in the bound of
`ManualCompact`.

`TurnLog` is a log that grows at its end, whether a Run is in progress, and a mark where it
began. A Run keeps all it wrote or takes it all back. The refinement reads it off the model as
the archive followed by the conversation, without the generated summaries: what a compaction moves from
one to the other does not show, what it loses or doubles does. An archive that panics may keep
what it was given while the history keeps it too; `DroppedWasArchived`, for every archive, says the part
that must hold then as well: nothing leaves the history before it was delivered.

### Dispatch and ToolBatch

The Run's goroutine has a position (`pre`, `approve`, `launch`, `wait`, `post`,
`returned`) and a loop index `k`. `survivors[j]` is the call in slot `j` of `dispatch`;
`worker[c]` is the goroutine of call `c`. A tool ends with an output, an error, a panic, or a
gate panic (the error a sub-agent surfaces when the inherited approval callback
panicked). Each end records its slot in one step: every goroutine writes its own slot, and
the shared error variables are under `errMu`. `runtime.Goexit` inside a tool is left
out: see below. What a hook's Modify puts in place of the input, and the PostToolUse hook
in place of a result, is data: the call keeps its position.

`ToolBatch` knows four things: the phase, the calls answered, running and ever run.
Nothing runs while the gates are open; a call is answered once; a batch finishes with every
call answered or aborts with none; it does neither while a tool runs. `Dispatch` maps to it
by `Phase`, `Answered`, `Running` and `Ran`.

### SubAgent

The parent makes batches of parallel calls. A call is refused, or finds or
makes its session under the store's mutex (`GetOrCreate`), takes the session's mutex
(`LockSession`), runs its child and returns. A child's Run is what `AgentLoop` says of it,
reduced to what its surroundings see: it forwards events (`Emit`, then `StartForward` under the
parent's mutex: a child that has an event to pass on waits for the mutex and can neither go on
nor end without it), asks the inherited or its own gate, and completes, fails, fails by a gate panic, or panics. A
panic unwinds past `entry.mu.Unlock` (318) and leaves the mutex locked. A `Guesses` handle is
one the model supplies without having been given it.

### Gates

The host sets up while no agent runs, in any order and repeatedly: `SetApprovalCallback` and
`Register` on any registry, also one already handed to a definition, whose bridge the callback
then replaces (`overridden` remembers it), `NewSubAgentTool` on any definition. Then Runs
are made, two parents' at once, each a chain: a parent, the sub-agent it called, and what
that might call. A Run carries what its context carries (`depth`, the callback of its
own registry, the inherited callback). A HITL tool asks the callback of its registry:
none, one a human wrote, or a bridge, which calls the definition's own callback or the
inherited one. `granted` is whose yes the tool runs on. `hops` bounds callbacks that call
callbacks, the goroutine's stack in the code.

| Code | Action |
|---|---|
| `registry.go` 32-55, `subagent.go` 189-217 | `Register`, `SetApprovalCallback`, `NewSubAgentTool` |
| `Run` 94-125, `Execute` 264-309 | `StartRun`, `StartChild`, `EndRun` |
| `invokeApproval`, the bridge | `AskApproval`, `CallBridge`, `HumanAnswers`, `GatePanics`, `ToolReturns` |

### Stream

A producer is the parent's Run or a child. It opens a stream, reads deltas one by one, each
through the handlers in their order (accumulator, Observer, ForwardEvents, the parent's
serialized handler), hears EventDone and closes, or fails or panics on the way (`FailRun`).
An event is a token: producer, number of the answer, kind. A delta goes two ways (`Read`): into the
message, where Accumulate may refuse it (`AddToMessage`; the code drops the error), and to the handlers, which
hear text, thinking and signatures but nothing of a tool's input. `message`, `surfaced` and `missed` keep the two
apart. The host's side is what it has heard under a tag since the last EventDone. The batches a
parent makes are any of `Batches`, so that calls to one definition and to two are both there.

### Memory and Conversation

A slice is a backing array and a length; an array holds pointers to role variants, these
to content, these to a block. `append` writes in place while there is room. The host may
overwrite the elements of every slice it was handed, and append to it. `Messages()` is a shallow
copy, so it could also write into the blocks behind the elements, and those it shares with the history;
that it does not is an assumption. `GiveConversation` stands for
`Conversation()` and for what a strategy is called with; `Summarize` is a strategy that makes a
Replacement, in an array with room to spare, and keeps it. `CompactCommitted` puts such a
Replacement, or a sliding window's empty one, in place of a prefix, whose copy the archive may keep.
`BuildRequest` sends the conversation or a transient view of it. `Conversation` says it all in values;
what a reader of the API would expect.

## Runs

| Run | Question | Bounds | Distinct states |
|---|---|---|---|
| `history` | Are the validator and the two strategies right on every history? | 4 arbitrary messages (3 roles, every combination of blocks), 14 well-formed ones; KeepTurns and AdvanceChunk 0..3 | 29 thousand |
| `loop` | Does every way a Run can go keep the history, the anchor and the requests right, with the library's strategies and with strategies an application wrote badly? | 3 Runs of 2 iterations, window of 6 messages, five configurations, every behaviour of the environment but a panicking archive, hooks that write a short request; an application's cuts -1..3, one with a replacement, one failing after it was paid; a manual compaction while less than 2 is spent or archived (`MaxSpent`) | 1.19 million |
| `fit` | Does the proactive trigger keep requests inside the window? | 6 Runs, window of 8 messages, which is the tightest that works with a threshold of 5; errors, aborts, calls of Compact, panics of the archive | 153 thousand |
| `returns` | Does every Run return; is no size signal used twice; is nothing dropped undelivered? | as `loop` with the library's configurations, the transient one among them, without manual compaction and without errors and other panics, which would rescue a stuck Run; the archive may panic, a hook may write a request that is short or too large | 164 thousand |
| `batch` | Does a tool batch keep its promise? | 3 calls, every kind of tool, every decision | 36 thousand |
| `sessions` | Are sessions exclusive, do they remember, and do calls return? | 2 batches of 2 calls, 1 approval | 315 thousand |
| `wiring` | Who is asked, whatever order registries were set up in? | 2 parents, 1 definition; registries apart, shared by the parents, shared by a parent and the definition; chains of 3, 3 hops | 99 thousand |
| `stream` | Is the handler serial, and is what it hears what is committed? | a Run with 2 answers and 2 batches of 2 calls, to one definition or to two; 2 answers per call, of at most 2 deltas from a forwarding child, one of which Accumulate may refuse, 1 from the Run, none from the others | 343 thousand |
| `memory` | Does anything the host holds change under it, or the conversation under the host? | 3 messages, 2 slices given out or kept, 6 arrays before the last resumption or compaction; one message takes no marker | 2.22 million |
| `dangling`, `panicked`, `guessed` | the disagreements below | minimal | |

Why the bounds are enough. Three Runs give a compaction something to drop, a committed
compaction followed by a failing Run, and a Run after it. Two iterations separate the turn-0
rollback from the later failures, and exhaust. A window of 6 makes the second or third
Run overflow, with and without a retry that fits. Three calls in a batch give a gap between
surviving calls, so slots and positions differ, and one failing tool between two others.
Two batches of two calls give contention for one session, and a session found by a
later batch. Fourteen well-formed messages hold seven turns, more than the largest window and two
chunks. Two parents and one definition give two chains through one bridge; a chain
of three would be a sub-agent below a sub-agent, which must not happen, and three hops are
more than the longest legal way from a bridge to a human. Two answers show what an accumulator
keeps of the one before; three children, two of them alike, give two waiting for the
handler while a third holds it, under different tags and under one. Two deltas have an order, and one
of them can be missing before, after or between what is shown. Three messages make an
array grow and leave room (lengths 1, 2, 4), so that an append lands in an array somebody
else still looks at.

The runs check for no deadlock: a model stops when its bound of Runs, batches or
messages is reached, or, in `panicked`, when a session stays locked. That every Run, batch,
approval and call ends is stated as liveness instead.

### Fairness

`AgentLoop` and `Dispatch` assume weak fairness of the Run's goroutine and of each tool's:
the Go scheduler runs them, and what they call returns (a Completer honours its context, a
hook, a callback and a tool are the application's). The environment is not fair: nothing
must ever be cancelled or fail. `SubAgent` assumes strong fairness of taking a session's mutex
and of the parent's stream (Go's mutexes do not starve a waiter) and of the end of a child's Run, which is
`RunTerminates` of `AgentLoop`; a child that forwards or asks approvals over and over still
ends. `Gates` assumes weak fairness of an approval in progress: the goroutine that asks is
scheduled and the human answers; the rest of a chain may stop. `Stream` assumes weak
fairness of each producer and of the end of a batch, and strong fairness of taking the
handler's mutex, which other children may hold again and again.

### Where the code and its documents disagree

Each of these is a run TLC ends with a counterexample:

- `dangling`: an error in the second iteration (241) leaves the tool results of an
  unfinished turn at the end of the history; `s2-functionality.md:812-818` says every
  committed history is resumable. The passing run `loop` shows what does hold
  (`CommittedResumable`, `RequestsCompliant`): as long as no Run ended uncleanly.
- `panicked`: a panic of a multi-turn child leaves its session's mutex locked
  (`subagent.go:316-318`) and the next call with the handle never returns, nor does the parent's
  Run. `sessions` shows that this is the only way.
- `guessed`: a handle the model supplies, for instance one it remembers from a resumed
  history, is later minted for another session, which replaces it (`subagent.go:151-155`).

Others were met on the way and have no run of their own. Where a property had to be
stated around one, the property is named.

- `Compact` (`compaction.go:135`) does not reset the size signal, so the next Run may
  compact again at once; `changes/2026-07-18-*.md:29-31` wants the signal cleared by
  a committed compaction. Inside Runs it does not happen (`CompactionsSeparatedByCalls`).
- Approvals are sequential in one dispatch (`dispatch.go:97-98`), but parallel
  sub-agents call the inherited callback at once (`subagent.go:208`).
- Two definitions given one registry: the second `NewSubAgentTool` replaces the callback the
  first one put there (`subagent.go:208`), and the first one's own Approval is never asked, against
  `subagent.go:72-74`. A definition given its parent's registry inherits its own bridge, which
  then calls itself without end. `GoverningGate` and `EveryApprovalAnswered` hold for agents with
  registries of their own (`Exclusive`).
- Parallel calls to one forwarding definition share a tag (`subagent.go:295`), so a host
  cannot tell their events apart (`s2-functionality.md:439-446`), and their Observer, a
  "dedicated sink" (67-69), is entered by several at once (297). A stream that breaks off sends
  no EventDone, and its text stands before the next answer's.
  `DoneEndsItsAnswer` names both exceptions (`OneStream`, `broken`).
- `Accumulate`'s error is dropped (`completer.go:93`): a delta it refused is shown and not
  committed. `DoneEndsItsAnswer` says that this is the only difference (`missed`).
- Usage "includes every Completer call the Agent makes" (`usage.go:27-29`), but responses that were paid
  for and lost are not counted: a stream that breaks after its usage was reported (`agent.go:419-422`), a
  handler that panics on EventDone (`agent.go:427`), a summary whose stream breaks
  (`compaction_strategies.go:164-168`).
- A panic of the archive callback (`compaction.go:178`) ends the Run with the prefix delivered
  and still in the history; the next compaction delivers it again. The promise "deliver before discard" (174)
  holds (`DroppedWasArchived`), that archive and history add up (`ImplementsTurnLog`) does not.
- A hook that sends a request of its own also sets the size signal (`agent.go:253-256`): one that
  trims a request hides the size of the conversation from the trigger. `RequestsFit` is stated without such hooks.
- `SetApprovalCallback` on a registry handed to `NewSubAgentTool` replaces the bridge
  (`registry.go:53`), so the sub-agent asks neither its own Approval nor its parent's. `Governing` says
  who is asked then.
- A connection that ends cleanly before message_stop leaves `Err` nil: EventDone is emitted
  (`agent.go:427`; `event.go:19` says the response is complete) and the partial message is committed.
- A relative threshold below one token truncates to 0 (`compaction.go:97`), which switches the
  proactive trigger off although "the smaller effective threshold wins" (79-80).
- The PreLLMCall hook is not asked for the request of the reactive retry (`agent.go:237`;
  `hooks.go:62` says every request).
- Exhausting the iterations leaves tool results at the end (294) and the next Run
  appends a second user message (E6.2). An overflow in a later iteration keeps the user
  message (`s4-scenarios.md:26-28` takes it back).
- A transient sliding window shrinks the measured size, so the trigger skips the next call
  and then fires again (`compaction.go:264`). The hybrid strategy's cut of one message
  replaces one by one and shortens nothing (`compaction_strategies.go:111`).
- A tool that calls `runtime.Goexit` leaves an empty result without an ID (`dispatch.go:170`).
  A panicking child leaves its tracing span open (`subagent.go:309`).

## Proofs

Each theorem holds for every value of the constants that satisfies the module's named
assumption. The pattern is the same throughout: an inductive invariant stronger than the
property, one lemma per action or kind of action, and a theorem that takes what it needs from
the invariant.

### The tool batch (`DispatchProofs`)

For every number of calls. The inductive invariant `DispatchInv`
joins `TypeOK` with five parts: `Sorted` (each call the PreToolUse pass has seen is either a
survivor, once, or answered by the hook), `Authorised` (what is approved is plain, or HITL
and granted), `Workers` (goroutines exist from the launching loop on, of approved survivors
only, and not past the wait), `Fatality` (a surfaced gate panic is recorded and leads to one
return only) and `Answers` (in each pass, which slot or result already names its call). Even
`TypeOK` is not inductive alone: that there are no more than N survivors needs the loop index.
Alignment after the merge needs what each slot held before it, which needs that the slot
was written by the goroutine of its own call. For what the answers say, `Told` follows
each verdict through slots and results, and `Permitted` is the converse of `Authorised`: what
was granted is approved, so a call recorded as denied was.

| Theorem | Says |
|---|---|
| `Invariance` | `DispatchInv` always holds |
| `Typing` | `TypeOK` |
| `Gating` | `OnlyClearedCallsRun` |
| `GateFailure` | `BrokenGateIsFatal` |
| `Alignment` | `AnswersAligned` |
| `Truth` | `AnswersTrue` |
| `Refinement` | `Dispatch` implements `ToolBatch` |

The only assumption is `DispatchAssumption`: a batch has at least one call (`Run` 275-280).

### The agent loop (`AgentLoopProofs`)

For every set of tool-use IDs, iteration limit, window,
configuration and environment, and for every strategy an application may write: a custom
proposal is unconstrained but for its types (`ConstantsAssumption`). The inductive
invariant `LoopInv` joins `TypeOK`, `RollbackAnchor` and `FirstTurn`: on its first turn a Run
has appended its user message and nothing else. `FirstTurn` is what makes taking back one
message the same as taking back the Run. The argument rests on two lemmas over
sequences: `ComposedFacts` (what a legal cut composes, and that the messages past
it follow unchanged) and `RollbackFacts`; `ApplyFacts` carries them to
`applyStrategyForRequest`.

| Theorem | Says |
|---|---|
| `LoopInvariance` | `LoopInv` always holds |
| `LoopTyping` | `TypeOK` |
| `Anchoring` | `RollbackAnchor` |
| `Restoration` | `FailureRestoresBase` |
| `InFlightKept` | `InFlightUntouched`: what a Run appended, its own compactions leave as it is |

### The message protocol (`HistoryLemmas`, `HistoryProofs`, `AgentLoopProofs`)

The validator scans positions and looks at both neighbours; the five rules of S2.15 speak of
the whole. `HistoryLemmas` connects them for histories of any length: `OrderScan`
(no position breaks the order exactly when roles alternate from user on), `PairScan` and `PairsAccepted`
(the least position that breaks a pairing rule breaks the rule it is reported under).
`LeastNumber` is what `Min` in the model stands for.

The second part of `AgentLoopProofs` sees a history as a chain: a condition on its first message and one on each
pair of neighbours. `NoOrphans` is one chain, a well-formed history (`Formed`) another. A
rollback shortens a chain, an append adds a link (`AppendUser`, `AppendAnswer`, `AppendResults`),
a compaction joins two chains (`Spliced`): a new prefix, resumable because the library validated it
before it applied it, and the Run's own messages, which begin with a user message. The
invariant `ProtocolInv` adds to `LoopInv` what each position of a Run knows of the last message
(`Answerable`: while tools run it is the one that asked for them), and that the base a
rollback returns to is itself well-formed and closed.

| Theorem | Says |
|---|---|
| `ValidatorCorrect` (`HistoryProofs`) | `ValidatorExact` |
| `ProtocolInvariance` | `LoopInv` and `ProtocolInv` always hold |
| `UsesKept` | `ResultsKeepTheirUses`, without any condition |
| `Resumption` | `CommittedResumable` |
| `Compliance` | `RequestsCompliant` |
| `Delivery` | `DroppedWasArchived`, for every strategy, environment and archive |
| `Separation` | `CompactionsSeparatedByCalls`, for a host that does not call `Compact`: a size signal above zero means a call since the last committed compaction (`Signal`) |

### The log (`AgentLoopProofs`)

`LogRefined`: `AgentLoop` implements `TurnLog` (`ImplementsTurnLog`), for histories of any length,
any number of Runs, and compactions anywhere between and inside them. `Verbatim`, the history
without summaries, is a recursive function; that it exists for every history (`SaidExists`)
and that it goes through a concatenation (`VerbatimJoin`) are shown by a least
counterexample (`ByAppending`), since induction is not to be had. With that, archive and history
together say what they said (`Moved`, `ReplacedTold`): the cut goes from the one to the other, and its
replacement says nothing. An append is one message more (`WrittenTold`), a rollback ends where the mark is
(`BaseTold`, from the anchor), and the remaining steps do not show. The invariant is `LoopInv` and
that a Run in progress has a number (`Counted`), so that nothing it writes looks like a summary.

The theorem has three hypotheses. `ArchivesAll`: a configuration that compacts has an
archival callback; without one the cut prefix is dropped on purpose. `Delivers`: that callback does not
panic; one that does keeps what the history keeps too. `SummariesOnly`: what a strategy of
the application puts in place of a prefix is generated; one that writes back old messages would
archive and keep them. The library's own strategies need no hypothesis. The run `loop` has all three.

### Requests that fit (`HistoryLemmas`, `AgentLoopProofs`)

The proactive trigger looks back: it compares the size of the previous request with the threshold
while the history grows. `RequestsInside` (`RequestsFit`) says when that is enough, for any number
of Runs, errors, aborts, calls of Compact and changes of the configuration in between:

- the window has room for the threshold and two messages more (an answer and its results), and
- for `(KeepTurns + AdvanceChunk) * (2 * MaxIterations + 1) - 2` messages: what the sliding window
  keeps or has not dropped yet, each turn as long as a turn can be, and the Run in progress.

Both are sharp: the run `fit` meets the second exactly (a window of 8), and TLC finds an overflow
with a window of 7, or with a threshold of 7 in the window of 8. A deployment that sets only the
threshold can overflow however low it is: nothing is dropped until there are more turns than are kept.

The invariant `Fit` has four parts. `Dense`: no message is further from the start of its turn than a
turn is long, so a history of n turns is at most n times as long (`DenseCount`, by the least prefix
that is longer); `WindowTurns` bounds the turns after a cut. `Counts`: how much a Run has written by
each of its steps. `Measured`: the history is within a few messages of the last reported
size, or, when nothing was reported since a compaction, it fits as it is with one message to spare for the
next Run. `Asked`: the request is the whole history. That a cut prefix is resumable, so that its
turns end with an answer (`DenseEven`), is what makes one message to spare enough.

The hypothesis `Measurable` leaves out what adds messages to a history without a call that reports
their size: a substituted answer, a panic or a cancellation before the first call, which leave the user
message behind, a resumed Agent, which starts with no size at all, and a hook that sends a request of
its own, whose size is then the signal. None of these five can be left out: with
any of them added to the run `fit`, TLC finds a request that overflows. It also leaves out a panic of
the archive, with which TLC finds none: the run `fit` has it, the proof does not cover it.

### The strategies (`HistoryLemmas`, `HistoryProofs`)

For histories of any length, any number of turns to keep and any chunk. `StartExists` shows that
the code's `starts[k]` is there for every k below the number of fresh turns and has k of them before it: by the least
k for which it is not. What a cut leaves is the history from some place on
(`Shifted`), behind a summary or nothing. It has the fresh turns of the history from there on
(`ShiftedTurns`, a bijection), and is resumable with it when user messages stay where user
messages were (`ShiftedResumable`). That is why the hybrid cut stops one message short of
the boundary: the summary takes an odd number of messages away. `Quotients` and
`DropStep` are the arithmetic of the chunks.

| Theorem | Says |
|---|---|
| `StrategiesSafe` | `StrategiesAccepted` |
| `WindowBounded` | `WindowBounds` |
| `SummaryWindow` | `SummaryKeepsWindow` |
| `WindowAdvances` | `WindowAdvancesInChunks` |

The assumption is `MCHistoryAssumption`: `KeepTurns` and `AdvanceChunk` are not negative. (The
code treats a negative one as it treats zero.)

### Sessions (`SubAgentProofs`)

For any number of calls and batches, any guessed handles and panics. Under MultiTurn exclusion
is the mutex (`Held`: a call inside its child's Run holds the mutex of its instance);
without it every call has an instance of its own. Both rest on instances being made once per
call, and that the store has room for them (`Room`) is a count: instances made and calls
that may still make one are together no more than the calls of the batches so far.
`SessionInvariance` is the invariant, `Exclusion` is `SessionExclusive`.

That sessions remember needs the store as well (`StoreInv`). `Store` says handles and instances
are one to one: a handle is minted once because the counter never goes back and no entry is
stored above it, and a call inside its child still finds its own instance under its handle.
`Memory` carries, for each handle, that what was answered under it is what the instance's
history answered, position for position (`Remembers`, by `Picks`); exclusion is what lets one call
append to a history no other call reads. `StoreInvariance` and `Remembering` (`SessionsRemember`)
suppose `NoForgery`: the model supplies no handle of the form the counter mints. Without it the
statement is false, which the run `guessed` shows; guessed handles of any other form are allowed.

### Approvals (`GatesProofs`)

For any agents, registries and ways of handing them out. `SetupOK` says what registries hold
(one not handed over, or overridden since, holds what the host installed, one of a definition
alone its bridge otherwise), `RunOK` what
each Run of a chain carries and whom it can be waiting for. Chains are two Runs long at
most; that is why the inherited callback is always the parent's own and never goes round.

| Theorem | Says |
|---|---|
| `GatesInvariance` | the invariant |
| `GatesTyping` | `TypeOK` |
| `Gated` | `NeverUngated` |
| `Governed` | `GoverningGate` |
| `Shallow` | `DepthOfOne` |

### Streams (`StreamProofs`)

For any number of children and definitions. `Locks` says the holder of the mutex is the child
inside the handler. The parent's own Run takes no lock; that it is alone in its handler
rests on `Phases`: children exist only while the parent waits for its tools.
`StreamInvariance` is the invariant, `SerialHandler` is `HandlerSerial`, `NothingHeld` is
`NothingLeftOpen`.

For what is told, `TellInv` adds what each place in the pipeline holds at each position of a
producer (`Line`): while an event goes through the handlers, the accumulator may have it and the
host not yet. What is heard under a tag is the text of the one call in progress there, or there
was a broken stream (`HeardTag`, `ObservedTag`). The accumulator is a pick of what was
shown: the text among its deltas, in order (`PicksSame`, `PicksNext`). `KeptInv` connects the two ways of a
delta: the text and thinking of the message occur in what was shown, in order, and are all of it while nothing was
missed (`ShownNext`, `ShownKept`, `HiddenKept`, `MissedKept`: one lemma for each thing a delta can be).

| Theorem | Says |
|---|---|
| `TellInvariance` | `TellInv` |
| `KeptInvariance` | `KeptInv` |
| `AnswersWhole` | `DoneEndsItsAnswer` |
| `LastAnswerReturned` | `ResultIsLastAnswer` |

The assumption `Top \notin Defs` is the code's: the parent's own events carry no tag
(`event.go:38-41`), a definition's the name of its tool (`subagent.go:193`).

### Memory (`MemoryProofs`)

For conversations of any length, any number of slices in the host's hands, and a host that
overwrites their elements and appends to them as it likes. `MemoryInv` says: every pointer leads somewhere
(`Heap`), the conversation shows no marker (`Committed`), the host reads in each slice what it was
given or wrote (`Truthful`), and no two slices share a backing array (`Apart`). `Apart` is what
the invariant is about: blocks and variants are shared freely, and stay as they are because
the library only ever adds new ones; arrays are written in place, and are not shared. A compaction
takes elements from two slices (`ReplacementFacts`, `KeptFacts`); that they say in the composed array, in the
archived prefix and in a transient view what they said before is `ComposedFacts`, `PrefixFacts` and `ViewFacts`.

| Theorem | Says |
|---|---|
| `MemoryInvariance` | `MemoryInv` |
| `HandedUnchangedAlways` | `HandedUnchanged` |
| `OneMarkerAlways` | `OneMarker` |
| `HistoryUnmarkedAlways` | `HistoryUnmarked` |
| `ConversationRefined` | `Memory` implements `Conversation` (`ImplementsConversation`) |

In the refinement an append, a rollback, a resumption, a compaction and a slice given out are
the abstract step of that name (`TakeBack` for a rollback, `Give` for what is given out); building
a request does not show; and what the host writes may only make the abstract conversation forget
what it had given (`Forget`).

### Only model-checked

All liveness (`RunTerminates`, `BatchEnds`, `ReturnsUnlessOrphaned`, `EveryApprovalAnswered`,
`RunEnds`): the provers do not handle fairness or ENABLED.

## Not modelled

The wire format, thinking configuration, log records and spans, the examples. The cache markers
on the system prompt and on tool definitions: they are set in arrays built for each request. Of a
tool hook's Modify, what it puts into an input or a result. The Agents inside `SubAgent` are not composed
with `AgentLoop`: a child's Run is its possible endings. Refusals that concern one
value before anything is built from it (an empty tool name, a nil Execute, a nil
Completer). Hazards without a property are listed, with the reason, in `PROJECT.json`.

## Plan

Done: all modules above, the refinements of the core and of memory, and the proofs listed. Left,
in this order:

1. A size bound for requests that the hybrid strategy compacts: its summary counts as a turn.
2. Hooks that modify: the effective inputs of a batch through PreToolUse, approval and tool.
