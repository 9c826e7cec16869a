------------------------------- MODULE Gates -------------------------------
(***************************************************************************)
(* Which approval callback is asked before a HITL-flagged tool runs: tool  *)
(* registries (agent/registry.go), the bridge that NewSubAgentTool puts    *)
(* into the registry of a sub-agent (agent/subagent.go) and the context    *)
(* that carries a parent's callback to it (agent/subagent_context.go).     *)
(*                                                                         *)
(* The host sets registries up, in any order, and then runs agents, also   *)
(* several at once: the same sub-agent tool may be registered with several *)
(* parents.  Of a Run only its tool calls matter, one at a time: the order *)
(* inside a batch is the matter of Dispatch, and no call of a batch        *)
(* changes what another one is asked.                                      *)
(***************************************************************************)
EXTENDS Integers

CONSTANTS
    Parents,     \* top-level agents
    Defs,        \* sub-agent definitions
    Registries,  \* tool registries
    Wirings,     \* the ways the host may hand registries to agents
    MaxLevel,    \* bound: agents below a parent in one call chain
    MaxHops      \* bound: callbacks that call callbacks (the goroutine's stack)

Danger == "danger"    \* a HITL-flagged tool; the name of a sub-agent tool is its definition

ASSUME GatesAssumption ==
    /\ Parents \cap Defs = {} /\ Danger \notin Defs
    /\ Wirings \subseteq [Parents \cup Defs -> Registries]
    /\ MaxLevel \in Nat \ {0} /\ MaxHops \in Nat \ {0}

Agents == Parents \cup Defs
Levels == 0..MaxLevel

\* An approval callback: none, one the host wrote for a registry, the bridge
\* of a definition, or a definition's own.
Nil       == [kind |-> "nil", of |-> "nobody"]
Host(r)   == [kind |-> "host", of |-> r]
Bridge(d) == [kind |-> "bridge", of |-> d]
Own(d)    == [kind |-> "own", of |-> d]

HostCallbacks == {Host(r) : r \in Registries}
Humans        == HostCallbacks \cup {Own(d) : d \in Defs}
Callbacks     == {Nil} \cup Humans \cup {Bridge(d) : d \in Defs}

VARIABLES
    registryOf,  \* the registry each agent was given
    own,         \* definitions with an Approval of their own
    approval,    \* ToolRegistry.approval
    tools,       \* ToolRegistry.tools
    made,        \* definitions NewSubAgentTool has compiled
    level,       \* each parent: how deep its chain of Runs is, -1 for no Run
    run,         \* the Runs of the chain
    \* history variables:
    installed,   \* the callback the host last set
    overridden   \* registries on which it replaced the bridge of a sub-agent

vars == <<registryOf, own, approval, tools, made, level, run, installed, overridden>>

setup == <<registryOf, own, approval, tools, made, installed, overridden>>

NoRun == [agent |-> "none", pc |-> "model", depth |-> 0, approval |-> Nil,
          inherited |-> Nil, callback |-> Nil, hops |-> 0, granted |-> Nil]

Init ==
    /\ registryOf \in Wirings /\ own \in SUBSET Defs
    /\ approval = [r \in Registries |-> Nil] /\ installed = approval
    /\ overridden = {} /\ tools = [r \in Registries |-> {}] /\ made = {}
    /\ level = [p \in Parents |-> -1]
    /\ run = [p \in Parents |-> [l \in Levels |-> NoRun]]

-----------------------------------------------------------------------------
(* The host sets up, while no agent runs                                   *)

AllIdle == \A p \in Parents : level[p] = -1

\* The registry holds, or held, the bridge of a definition.
HandedOver(r) == \E d \in made : registryOf[d] = r

SetApprovalCallback(r) ==
    /\ AllIdle
    /\ overridden' = overridden \cup {s \in {r} : HandedOver(s)}
    /\ \E cb \in {Nil, Host(r)} :
         approval' = [approval EXCEPT ![r] = cb] /\ installed' = [installed EXCEPT ![r] = cb]
    /\ UNCHANGED <<registryOf, own, tools, made, level, run>>

\* A duplicate, or a HITL tool without a callback, is refused.
Register(r, t) ==
    /\ AllIdle
    /\ t \in made \cup {Danger} /\ t \notin tools[r]
    /\ t = Danger => approval[r] # Nil
    /\ tools' = [tools EXCEPT ![r] = @ \cup {t}]
    /\ UNCHANGED <<registryOf, own, approval, made, level, run, installed, overridden>>

NewSubAgentTool(d) ==
    /\ AllIdle /\ d \notin made
    /\ approval' = [approval EXCEPT ![registryOf[d]] = Bridge(d)]
    /\ made' = made \cup {d} /\ overridden' = overridden \ {registryOf[d]}
    /\ UNCHANGED <<registryOf, own, tools, level, run, installed>>

-----------------------------------------------------------------------------
(* Agent.Run and the context it gives its tools                            *)

RunDepth_Zero(launched) == 0
RunDepth(launched)      == launched

\* Run overwrites the runtime on the context, and not the inherited callback.
NewRun(a, depth, inherited) ==
    [agent |-> a, pc |-> "model", depth |-> RunDepth(depth),
     approval |-> approval[registryOf[a]], inherited |-> inherited,
     callback |-> Nil, hops |-> 0, granted |-> Nil]

Current(p) == run[p][level[p]]

\* The last Run of the chain goes on as f.
Becomes(p, f) == run' = [run EXCEPT ![p][level[p]] = f]

At(p, pc)  == level[p] >= 0 /\ Current(p).pc = pc

StartRun(p) ==
    /\ level[p] = -1
    /\ level' = [level EXCEPT ![p] = 0]
    /\ run' = [run EXCEPT ![p][0] = NewRun(p, 0, Nil)]
    /\ UNCHANGED setup

\* The Run ends and hands its result to the Run below.
Return_LeavesCallerWaiting(p) ==
    /\ level' = [level EXCEPT ![p] = @ - 1]
    /\ run' = [run EXCEPT ![p][level[p]] = NoRun]

Return(p) ==
    /\ level' = [level EXCEPT ![p] = @ - 1]
    /\ run' = [run EXCEPT ![p] =
         [l \in Levels |-> IF l = level[p] THEN NoRun
                           ELSE IF l = level[p] - 1 THEN [run[p][l] EXCEPT !.pc = "model"]
                           ELSE run[p][l]]]

\* Every Run of the chain fails.
FailAll(p) ==
    /\ level' = [level EXCEPT ![p] = -1]
    /\ run' = [run EXCEPT ![p] = [l \in Levels |-> NoRun]]

EndRun(p) == At(p, "model") /\ Return(p) /\ UNCHANGED setup

Registry(p) == registryOf[Current(p).agent]

-----------------------------------------------------------------------------
(* A call to a sub-agent tool                                              *)

\* withInheritedApproval, when the calling Run has a callback to pass on.
PassedOn(p) == IF Current(p).approval # Nil THEN Current(p).approval ELSE Current(p).inherited

StartChild_RewiresRegistry(p, d) ==
    /\ At(p, "model") /\ d \in tools[Registry(p)] /\ Current(p).depth < 1
    /\ level[p] < MaxLevel
    /\ level' = [level EXCEPT ![p] = @ + 1]
    /\ approval' = IF d \in own THEN approval
                   ELSE [approval EXCEPT ![registryOf[d]] = PassedOn(p)]
    /\ run' = [run EXCEPT ![p][level[p]].pc = "waiting",
                          ![p][level[p] + 1] = NewRun(d, Current(p).depth + 1, PassedOn(p))]
    /\ UNCHANGED <<registryOf, own, tools, made, installed, overridden>>

\* A caller that is itself a sub-agent is refused.
StartChild(p, d) ==
    /\ At(p, "model") /\ d \in tools[Registry(p)] /\ Current(p).depth < 1
    /\ level[p] < MaxLevel
    /\ level' = [level EXCEPT ![p] = @ + 1]
    /\ run' = [run EXCEPT ![p][level[p]].pc = "waiting",
                          ![p][level[p] + 1] = NewRun(d, Current(p).depth + 1, PassedOn(p))]
    /\ UNCHANGED setup

-----------------------------------------------------------------------------
(* A call to a HITL-flagged tool: invokeApproval and the bridge            *)

AskApproval(p) ==
    /\ At(p, "model") /\ Danger \in tools[Registry(p)]
    /\ Becomes(p, [Current(p) EXCEPT !.pc = "asking", !.callback = approval[Registry(p)]])
    /\ UNCHANGED <<level, setup>>

Asked(p) == Current(p).callback

Answer(p, f) == Becomes(p, [f EXCEPT !.callback = Nil, !.hops = 0])

Denied(p)  == Answer(p, [Current(p) EXCEPT !.pc = "model"])
Granted(p) == Answer(p, [Current(p) EXCEPT !.pc = "running", !.granted = Asked(p)])

Inherited_FromRuntime(p) == Current(p).approval
Inherited(p)             == Current(p).inherited

\* A bridge with nobody to ask.
Unasked_Allows(p) == Answer(p, [Current(p) EXCEPT !.pc = "running"])
Unasked(p)        == Denied(p)

CallBridge(p) ==
    /\ At(p, "asking") /\ Asked(p).kind = "bridge" /\ Current(p).hops < MaxHops
    /\ LET d == Asked(p).of
           CallOn(cb) == Becomes(p, [Current(p) EXCEPT !.callback = cb, !.hops = @ + 1])
       IN  IF d \in own THEN CallOn(Own(d))
           ELSE IF Inherited(p) # Nil THEN CallOn(Inherited(p))
           ELSE Unasked(p)
    /\ UNCHANGED <<level, setup>>

HumanAnswers(p) ==
    /\ At(p, "asking") /\ Asked(p) \in Humans
    /\ Granted(p) \/ Denied(p)
    /\ UNCHANGED <<level, setup>>

\* A callback that panics, or is nil, fails its Run; subAgentRunError makes that
\* fatal to the parent too, unless the definition has a gate of its own.
GatePanics(p) ==
    /\ At(p, "asking") /\ Asked(p) \in Humans \cup {Nil}
    /\ IF Current(p).agent \in own THEN Return(p) ELSE FailAll(p)
    /\ UNCHANGED setup

ToolReturns(p) ==
    /\ At(p, "running")
    /\ Becomes(p, [Current(p) EXCEPT !.pc = "model", !.granted = Nil])
    /\ UNCHANGED <<level, setup>>

-----------------------------------------------------------------------------
HostStep ==
    \/ \E r \in Registries : SetApprovalCallback(r)
    \/ \E r \in Registries, t \in Defs \cup {Danger} : Register(r, t)
    \/ \E d \in Defs : NewSubAgentTool(d)

Approving(p) == CallBridge(p) \/ HumanAnswers(p) \/ GatePanics(p)

RunStep(p) ==
    \/ StartRun(p) \/ EndRun(p) \/ AskApproval(p) \/ Approving(p) \/ ToolReturns(p)
    \/ \E d \in Defs : StartChild(p, d)

Next == HostStep \/ \E p \in Parents : RunStep(p)

Spec == Init /\ [][Next]_vars

\* Callbacks return, and the goroutine that asks is scheduled.
FairSpec == Spec /\ \A p \in Parents : WF_vars(Approving(p))

-----------------------------------------------------------------------------
(* Properties                                                              *)

Runs == [agent : Agents \cup {"none"}, pc : {"model", "asking", "running", "waiting"},
         depth : Nat, approval : Callbacks, inherited : Callbacks, callback : Callbacks,
         hops : 0..MaxHops, granted : Callbacks]

Live(p) == {l \in Levels : l <= level[p]}

\* Every variable keeps its type, and the Runs of a chain are those of agents at the
\* depth their place says, all but the last waiting for the one above.
TypeOK ==
    /\ registryOf \in Wirings /\ own \subseteq Defs /\ made \subseteq Defs
    /\ approval \in [Registries -> Callbacks] /\ installed \in [Registries -> Callbacks]
    /\ overridden \subseteq Registries
    /\ tools \in [Registries -> SUBSET (Defs \cup {Danger})]
    /\ level \in [Parents -> -1..MaxLevel]
    /\ run \in [Parents -> [Levels -> Runs]]
    /\ \A p \in Parents : \A l \in Live(p) :
         /\ run[p][l].agent \in Agents /\ run[p][l].depth = l
         /\ run[p][l].pc = "waiting" <=> l < level[p]

\* No two agents, unless both are top-level, share a registry.
Exclusive == \A a \in Agents, d \in Defs : registryOf[a] = registryOf[d] => a = d

\* A HITL-flagged tool runs only on the yes of a callback a human wrote, however
\* registries are shared and whatever order they were set up in
\* (subagent.go:215 "A HITL tool must not run ungated").
NeverUngated ==
    \A p \in Parents : \A l \in Live(p) : run[p][l].pc = "running" => run[p][l].granted \in Humans

\* The callback that should govern the Run a of a chain that p started.
Governing(p, a) ==
    IF registryOf[a] \in overridden THEN installed[registryOf[a]]
    ELSE IF a \in own THEN Own(a) ELSE installed[registryOf[p]]

\* The yes a HITL-flagged tool runs on came from the definition's own callback if
\* it has one and otherwise from the callback the host set on the registry of the
\* parent whose Run made the call, also while two parents run one sub-agent at once
\* (subagent.go:72-74, s2-functionality.md:220-223); a callback that the host set on a
\* sub-agent's registry after handing it over replaces the bridge and is asked
\* instead of both (registry.go:53).  It does not hold for a definition that shares
\* its registry: NewSubAgentTool replaces the other's callback.
GoverningGate ==
    Exclusive =>
      \A p \in Parents : \A l \in Live(p) :
        run[p][l].pc = "running" => run[p][l].granted = Governing(p, run[p][l].agent)

\* Sub-agents do not start sub-agents, although their registries may hold such
\* tools, their own among them (S2.11, s2-functionality.md:434-436).
DepthOfOne == \A p \in Parents : level[p] <= 1

\* Every approval asked for is answered (dispatch.go:101-122).  It does not hold for a
\* definition that is given its parent's registry: its bridge inherits itself.
EveryApprovalAnswered ==
    \A p \in Parents : (Exclusive /\ At(p, "asking")) ~> ~At(p, "asking")
=============================================================================
