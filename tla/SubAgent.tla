------------------------------ MODULE SubAgent ------------------------------
(***************************************************************************)
(* A sub-agent tool (agent/subagent.go) under the parallel dispatch of its *)
(* parent's Run: the session store of a multi-turn sub-agent, the mutex of *)
(* a session, the stream the children share with the parent, and the       *)
(* approval gate they inherit.                                             *)
(*                                                                         *)
(* The parent makes batches of calls to the tool, one after the other; the *)
(* calls of a batch run in parallel (Dispatch).  A child's Run is taken    *)
(* for what AgentLoop says of it: it returns, fails or panics, after any   *)
(* number of events and approvals.  A handle is a number: the n-th minted  *)
(* handle of the code is "s<n>".  An instance is a sub-agent Agent.        *)
(***************************************************************************)
EXTENDS Integers, Sequences, FiniteSets, Picking

CONSTANTS
    Calls,        \* calls in a batch
    Guesses,      \* handles the model supplies without having been given them
    ChildPanics,  \* can a child's Run panic (observer, handler, Completer)
    MaxBatches,   \* bound: batches of the parent
    MaxApprovals  \* bound: approvals asked for in the whole run

Nobody == "nobody"

ASSUME SubAgentAssumption ==
    /\ IsFiniteSet(Calls) /\ Nobody \notin Calls
    /\ Guesses \subseteq Nat \ {0} /\ ChildPanics \in BOOLEAN
    /\ MaxBatches \in Nat /\ MaxApprovals \in Nat

New       == 0                                 \* session_id omitted
None      == 0
Instances == 1..MaxBatches * Cardinality(Calls)
Handles   == Instances \cup Guesses

VARIABLES
    def,        \* the definition's MultiTurn and own-Approval options; forward is
                \*   Forward under a parent's Run that has a handler
    counter,    \* sessionStore.counter
    entries,    \* sessionStore.entries
    mu,         \* sessionEntry.mu, by instance: the call that holds it
    history,    \* the conversation of each instance: the prompts it answered
    created,    \* instances made so far
    pc, arg,    \* each call: where it is, and its session_id
    handle, inst,
    streamMu,   \* the call inside the parent's event handler
    inGate,     \* calls inside an approval callback
    batch, fatal,
    (* history variables, read by properties only *)
    approvals,  \* approvals asked for
    panicked,   \* instances whose Run panicked
    told        \* handle -> what the parent was answered under it

vars == <<def, counter, entries, mu, history, created, pc, arg, handle, inst,
          streamMu, inGate, batch, fatal, approvals, panicked, told>>

call == <<arg, handle, inst>>

Known == {g \in Handles : told[g] # <<>>}

Init ==
    /\ def \in [multiTurn : BOOLEAN, forward : BOOLEAN, ownGate : BOOLEAN]
    /\ counter = 0 /\ created = 0
    /\ entries = [g \in Handles |-> None]
    /\ mu = [i \in Instances |-> Nobody]
    /\ history = [i \in Instances |-> <<>>]
    /\ pc = [c \in Calls |-> "idle"] /\ arg = [c \in Calls |-> New]
    /\ handle = [c \in Calls |-> None] /\ inst = [c \in Calls |-> None]
    /\ streamMu = Nobody /\ inGate = {}
    /\ batch = 0 /\ fatal = FALSE /\ approvals = 0 /\ panicked = {}
    /\ told = [g \in Handles |-> <<>>]

-----------------------------------------------------------------------------
(* The parent: the goroutines of a batch, and its end                      *)

StartBatch ==
    /\ \A c \in Calls : pc[c] = "idle"
    /\ batch < MaxBatches /\ ~fatal /\ batch' = batch + 1
    /\ \E ids \in [Calls -> IF def.multiTurn THEN {New} \cup Known \cup Guesses ELSE {New}] :
         arg' = ids
    /\ pc' = [c \in Calls |-> "called"]
    /\ UNCHANGED <<def, counter, entries, mu, history, created, handle, inst,
                   streamMu, inGate, fatal, approvals, panicked, told>>

\* wg.Wait: every call of the batch has its result.
EndBatch ==
    /\ \A c \in Calls : pc[c] = "returned"
    /\ pc' = [c \in Calls |-> "idle"] /\ arg' = [c \in Calls |-> New]
    /\ handle' = [c \in Calls |-> None] /\ inst' = [c \in Calls |-> None]
    /\ UNCHANGED <<def, counter, entries, mu, history, created, streamMu, inGate,
                   batch, fatal, approvals, panicked, told>>

-----------------------------------------------------------------------------
(* Execute: the session                                                    *)

\* Arguments that do not parse, no prompt, or a caller that is a sub-agent.
Refuse(c) ==
    /\ pc[c] = "called"
    /\ pc' = [pc EXCEPT ![c] = "returned"]
    /\ UNCHANGED <<def, counter, entries, mu, history, created, call, streamMu,
                   inGate, batch, fatal, approvals, panicked, told>>

\* The supplied handle names a retained instance.
Existing_Never(c) == FALSE
Existing(c)       == arg[c] # New /\ entries[arg[c]] # None

\* getOrCreate, under the store's mutex.
GetOrCreate(c) ==
    /\ pc[c] = "called" /\ def.multiTurn
    /\ LET id == IF arg[c] = New THEN counter + 1 ELSE arg[c]
       IN  /\ counter' = IF arg[c] = New THEN counter + 1 ELSE counter
           /\ handle'  = [handle EXCEPT ![c] = id]
           /\ IF Existing(c)
                THEN /\ inst' = [inst EXCEPT ![c] = entries[id]]
                     /\ UNCHANGED <<entries, created>>
                ELSE /\ created' = created + 1
                     /\ inst'    = [inst EXCEPT ![c] = created + 1]
                     /\ entries' = [entries EXCEPT ![id] = created + 1]
    /\ pc' = [pc EXCEPT ![c] = "locking"]
    /\ UNCHANGED <<def, mu, history, arg, streamMu, inGate, batch, fatal, approvals, panicked, told>>

\* A one-shot sub-agent is an instance of its own and is not retained.
NewChild(c) ==
    /\ pc[c] = "called" /\ ~def.multiTurn
    /\ created' = created + 1 /\ inst' = [inst EXCEPT ![c] = created + 1]
    /\ pc' = [pc EXCEPT ![c] = "running"]
    /\ UNCHANGED <<def, counter, entries, mu, history, arg, handle, streamMu, inGate,
                   batch, fatal, approvals, panicked, told>>

Free_Ignored(i) == TRUE
Free(i)         == mu[i] = Nobody

LockSession(c) ==
    /\ pc[c] = "locking" /\ Free(inst[c])
    /\ mu' = [mu EXCEPT ![inst[c]] = c]
    /\ pc' = [pc EXCEPT ![c] = "running"]
    /\ UNCHANGED <<def, counter, entries, history, created, call, streamMu, inGate,
                   batch, fatal, approvals, panicked, told>>

-----------------------------------------------------------------------------
(* The child's Run: its events and its approvals                           *)

\* The serialized handler of the parent (agent.go:112-120).
StreamFree == streamMu = Nobody

\* "answered" is "running" with the forwarded event the last thing that happened.
Working(c) == pc[c] \in {"running", "answered"}

\* An event on its way to the parent: the child waits for the handler, and can
\* neither go on nor end before it had it.
Emit(c) ==
    /\ Working(c) /\ def.forward
    /\ pc' = [pc EXCEPT ![c] = "emitting"]
    /\ UNCHANGED <<def, counter, entries, mu, history, created, call, streamMu,
                   inGate, batch, fatal, approvals, panicked, told>>

StartForward(c) ==
    /\ pc[c] = "emitting" /\ StreamFree
    /\ streamMu' = c /\ pc' = [pc EXCEPT ![c] = "forwarding"]
    /\ UNCHANGED <<def, counter, entries, mu, history, created, call, inGate,
                   batch, fatal, approvals, panicked, told>>

EndForward(c) ==
    /\ pc[c] = "forwarding"
    /\ streamMu' = Nobody /\ pc' = [pc EXCEPT ![c] = "answered"]
    /\ UNCHANGED <<def, counter, entries, mu, history, created, call, inGate, batch,
                   fatal, approvals, panicked, told>>

\* The bridge calls the definition's own callback or the inherited one.
AskGate(c) ==
    /\ Working(c) /\ approvals < MaxApprovals
    /\ approvals' = approvals + 1
    /\ inGate' = inGate \cup {c} /\ pc' = [pc EXCEPT ![c] = "asking"]
    /\ UNCHANGED <<def, counter, entries, mu, history, created, call, streamMu, batch,
                   fatal, told, panicked>>

LeaveGate(c) == inGate' = inGate \ {c}

\* Yes, no or an error: the child goes on.
GateAnswers(c) ==
    /\ pc[c] = "asking"
    /\ LeaveGate(c) /\ pc' = [pc EXCEPT ![c] = "running"]
    /\ UNCHANGED <<def, counter, entries, mu, history, created, call, streamMu, batch,
                   fatal, approvals, panicked, told>>

-----------------------------------------------------------------------------
(* The end of the child's Run and of Execute                               *)

Release_Forgotten(c) == mu' = mu
Release(c)           == mu' = IF def.multiTurn THEN [mu EXCEPT ![inst[c]] = Nobody] ELSE mu

Prompt(c) == <<batch, c>>

\* A Run that fails past its first call, or panics, may leave a partial turn.
MayLeavePartialTurn(c) ==
    history' \in {history, [history EXCEPT ![inst[c]] =
                              Append(@, [prompt |-> Prompt(c), complete |-> FALSE])]}

\* A Run completes on an answer, whose EventDone has been forwarded.
RunCompletes(c) ==
    /\ pc[c] = IF def.forward THEN "answered" ELSE "running"
    /\ history' = [history EXCEPT ![inst[c]] = Append(@, [prompt |-> Prompt(c), complete |-> TRUE])]
    /\ Release(c)
    /\ told' = IF def.multiTurn THEN [told EXCEPT ![handle[c]] = Append(@, Prompt(c))]
                                ELSE told
    /\ pc' = [pc EXCEPT ![c] = "returned"]
    /\ UNCHANGED <<def, counter, entries, created, call, streamMu, inGate, batch, fatal,
                   approvals, panicked>>

\* The parent gets the error, and no handle.
RunFails(c) ==
    /\ Working(c)
    /\ MayLeavePartialTurn(c)
    /\ Release(c)
    /\ pc' = [pc EXCEPT ![c] = "returned"]
    /\ UNCHANGED <<def, counter, entries, created, call, streamMu, inGate,
                   batch, fatal, approvals, panicked, told>>

\* subAgentRunError: a panic of the inherited gate is fatal to the parent.
GatePanics(c) ==
    /\ pc[c] = "asking"
    /\ LeaveGate(c)
    /\ fatal' = (fatal \/ ~def.ownGate)
    /\ Release(c)
    /\ pc' = [pc EXCEPT ![c] = "returned"]
    /\ UNCHANGED <<def, counter, entries, history, created, call, streamMu, batch,
                   approvals, panicked, told>>

\* The panic unwinds through Execute, past entry.mu.Unlock, to dispatch's
\* recover; the handler's mutex is released by its defer.
RunPanics(c) ==
    /\ ChildPanics /\ (Working(c) \/ pc[c] = "forwarding")
    /\ MayLeavePartialTurn(c)
    /\ streamMu' = IF pc[c] = "forwarding" THEN Nobody ELSE streamMu
    /\ panicked' = panicked \cup {inst[c]}
    /\ pc' = [pc EXCEPT ![c] = "returned"]
    /\ UNCHANGED <<def, counter, entries, mu, created, call, inGate, batch,
                   fatal, approvals, told>>

-----------------------------------------------------------------------------
CallStep(c) ==
    \/ Refuse(c) \/ GetOrCreate(c) \/ NewChild(c) \/ LockSession(c)
    \/ Emit(c) \/ StartForward(c) \/ EndForward(c) \/ AskGate(c) \/ GateAnswers(c)
    \/ RunCompletes(c) \/ RunFails(c) \/ GatePanics(c) \/ RunPanics(c)

Next == StartBatch \/ EndBatch \/ \E c \in Calls : CallStep(c)

Spec == Init /\ [][Next]_vars

\* The goroutines of the parent and of the calls are scheduled, a mutex that is
\* free again and again is had at last (Go's mutexes do not starve), and the
\* child's Run ends (RunTerminates of AgentLoop).
FairSpec ==
    /\ Spec /\ WF_vars(StartBatch) /\ WF_vars(EndBatch)
    /\ \A c \in Calls :
         /\ WF_vars(CallStep(c))
         /\ SF_vars(LockSession(c) \/ StartForward(c))   \* it waits for one of them
         /\ SF_vars(RunCompletes(c) \/ RunFails(c))

-----------------------------------------------------------------------------
(* Properties                                                              *)

Inside(c) == pc[c] \in {"running", "answered", "emitting", "forwarding", "asking"}

\* An Agent is not safe for concurrent Runs: no instance is ever run by two calls
\* at once, though the model may resume one session twice in a batch
\* (subagent.go:129-134).
SessionExclusive ==
    \A c, d \in Calls : c # d /\ Inside(c) /\ Inside(d) => inst[c] # inst[d]

Prompts(h)       == [n \in DOMAIN h |-> h[n].prompt]
AnsweredTurns(h) == {n \in DOMAIN h : h[n].complete}

\* A handle the parent was given names, for as long as the parent runs, the
\* instance that answered under it, with every answered prompt in its history in
\* order (S2.11, s2-functionality.md:417-420).
SessionsRemember ==
    \A g \in Known :
      /\ entries[g] # None
      /\ LET h == history[entries[g]] IN Picks(told[g], Prompts(h), AnsweredTurns(h))

\* A session whose lock a panic of its child left behind.
Orphaned(i) == i \in panicked /\ mu[i] # Nobody

\* A call to the sub-agent tool returns, through every contention for a session
\* and for the parent's stream, unless a child's panic left a session locked
\* (subagent.go:316-318).
ReturnsUnlessOrphaned ==
    \A c \in Calls : pc[c] = "called" ~>
      pc[c] = "returned" \/ \E i \in Instances : Orphaned(i)

\* A call to the sub-agent tool returns a result of its own, whatever became of
\* the calls before it and beside it (S2.5, s2-functionality.md:695-698).
EveryCallReturns == \A c \in Calls : pc[c] = "called" ~> pc[c] = "returned"
=============================================================================
