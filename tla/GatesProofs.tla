----------------------------- MODULE GatesProofs -----------------------------
(***************************************************************************)
(* Proofs about Gates, for any agents, registries and ways to hand them    *)
(* out: which callback is asked, and how deep chains of Runs get.          *)
(*                                                                         *)
(* The invariant says what each registry's callback is (Registries that    *)
(* were not handed over hold what the host installed), and of each live    *)
(* Run at which place of the chain it stands, what its context carries and *)
(* whom its question can have reached.  Chains are two Runs long at most,  *)
(* which is why the inherited callback is always the parent's own.         *)
(***************************************************************************)
EXTENDS Gates, TLAPS

\* What no Run changes.
SetupOK ==
    /\ registryOf \in [Parents \cup Defs -> Registries]
    /\ own \subseteq Defs /\ made \subseteq Defs
    /\ approval \in [Registries -> Callbacks]
    /\ installed \in [Registries -> Callbacks]
    /\ tools \in [Registries -> SUBSET (Defs \cup {Danger})]
    /\ \A r \in Registries : tools[r] \cap Defs \subseteq made
    /\ \A r \in Registries : ~HandedOver(r) =>
         approval[r] = installed[r]
    /\ \A r \in Registries : installed[r] \in {Nil, Host(r)}
    /\ \A r \in overridden : r \in Registries /\ HandedOver(r)
    /\ Exclusive => \A d \in made :
         approval[registryOf[d]] = IF registryOf[d] \in overridden
                                   THEN installed[registryOf[d]] ELSE Bridge(d)

\* Whom the Run of a, in a chain that p started, may be waiting for.
MayAsk(p, a) ==
    IF a = p THEN {installed[registryOf[p]]}
    ELSE IF registryOf[a] \in overridden THEN {installed[registryOf[a]]}
    ELSE {Bridge(a)} \cup IF a \in own THEN {Own(a)} ELSE {installed[registryOf[p]]}

\* The Run f at level l of the chain of p.
RunOK(p, l, f) ==
    /\ f \in Runs /\ f.agent \in Agents
    /\ f.depth = l /\ l \in {0, 1}
    /\ l = 0 => f.agent = p /\ f.inherited = Nil
    /\ l = 1 => f.agent \in made /\ f.inherited = approval[registryOf[p]]
    /\ f.approval = approval[registryOf[f.agent]]
    /\ f.pc = "asking" /\ Exclusive => f.callback \in MayAsk(p, f.agent)
    /\ f.pc = "running" => f.granted \in Humans
    /\ f.pc = "running" /\ Exclusive => f.granted = Governing(p, f.agent)

ChainOK(p) ==
    /\ level[p] \in -1..MaxLevel /\ level[p] <= 1
    /\ run[p] \in [Levels -> Runs]
    /\ \A l \in Live(p) : RunOK(p, l, run[p][l])
    /\ \A l \in Live(p) : run[p][l].pc = "waiting" <=> l < level[p]

ChainsOK ==
    /\ level \in [Parents -> -1..MaxLevel]
    /\ run \in [Parents -> [Levels -> Runs]]
    /\ \A p \in Parents : ChainOK(p)

GatesInv == registryOf \in Wirings /\ SetupOK /\ ChainsOK

-----------------------------------------------------------------------------
(* Callbacks and Runs                                                      *)

LEMMA CallbackFacts ==
    /\ \A r \in Registries : Host(r) \in HostCallbacks /\ Host(r) \in Humans
    /\ \A d \in Defs : Own(d) \in Humans /\ Bridge(d) \in Callbacks
    /\ Humans \subseteq Callbacks /\ Nil \in Callbacks /\ Nil \notin Humans
    /\ \A d \in Defs : Bridge(d) \notin Humans /\ Bridge(d) # Nil
    /\ \A c \in Callbacks : c.kind = "bridge" => c.of \in Defs /\ c = Bridge(c.of)
  <1>1. /\ \A r \in Registries : Host(r) \in HostCallbacks /\ Host(r) \in Humans
        /\ \A d \in Defs : Own(d) \in Humans /\ Bridge(d) \in Callbacks
        /\ Humans \subseteq Callbacks /\ Nil \in Callbacks
    BY DEF HostCallbacks, Humans, Callbacks
  <1>2. /\ Nil.kind = "nil" /\ \A r : Host(r).kind = "host"
        /\ \A d : Own(d).kind = "own" /\ Bridge(d).kind = "bridge" /\ Bridge(d).of = d
    BY DEF Host, Own, Bridge, Nil
  <1>3. \A c \in Humans : c.kind \in {"host", "own"}
    BY <1>2 DEF HostCallbacks, Humans
  <1>4. ASSUME NEW c \in Callbacks, c.kind = "bridge" PROVE c.of \in Defs /\ c = Bridge(c.of)
    <2>1. c # Nil /\ c \notin Humans
      BY <1>2, <1>3, <1>4
    <2>2. PICK d \in Defs : c = Bridge(d)
      BY <2>1 DEF Callbacks
    <2> QED
      BY <1>2, <2>2
  <1> QED
    BY <1>1, <1>2, <1>3, <1>4

LEMMA NoRunIsRun == NoRun \in Runs
  BY GatesAssumption, CallbackFacts DEF NoRun, Runs

LEMMA NewRunFacts ==
    ASSUME NEW a \in Agents, NEW depth \in Nat, NEW inherited \in Callbacks,
           approval[registryOf[a]] \in Callbacks
    PROVE  LET f == NewRun(a, depth, inherited)
           IN  /\ f \in Runs /\ f.agent = a /\ f.pc = "model" /\ f.depth = depth
               /\ f.inherited = inherited /\ f.approval = approval[registryOf[a]]
  <1>1. NewRun(a, depth, inherited) =
          [agent |-> a, pc |-> "model", depth |-> depth, approval |-> approval[registryOf[a]],
           inherited |-> inherited, callback |-> Nil, hops |-> 0, granted |-> Nil]
    BY DEF NewRun, RunDepth
  <1>2. Nil \in Callbacks /\ 0 \in 0..MaxHops
    BY CallbackFacts, GatesAssumption
  <1> QED
    BY <1>1, <1>2 DEF Runs

LEMMA InitInv == Init => GatesInv
  <1> SUFFICES ASSUME Init PROVE GatesInv
    OBVIOUS
  <1>1. SetupOK
    BY GatesAssumption, CallbackFacts DEF Init, SetupOK, HandedOver
  <1>2. ChainsOK
    BY NoRunIsRun, GatesAssumption DEF Init, ChainsOK, ChainOK, Live, Levels
  <1> QED
    BY <1>1, <1>2 DEF Init, GatesInv

-----------------------------------------------------------------------------
(* The host's steps: no Run is live                                        *)

LEMMA HostStepInv ==
    ASSUME GatesInv, HostStep PROVE GatesInv'
  <1> USE DEF GatesInv
  <1>1. AllIdle /\ UNCHANGED <<registryOf, own, level, run>>
    BY DEF HostStep, SetApprovalCallback, Register, NewSubAgentTool
  <1>2. ChainsOK'
    BY <1>1, GatesAssumption DEF ChainsOK, ChainOK, Live, Levels, AllIdle
  <1>3. Exclusive' = Exclusive
    BY <1>1 DEF Exclusive
  <1>4. ASSUME NEW r \in Registries, SetApprovalCallback(r) PROVE SetupOK'
    <2>1. PICK cb \in {Nil, Host(r)} : approval' = [approval EXCEPT ![r] = cb]
                                       /\ installed' = [installed EXCEPT ![r] = cb]
      BY <1>4 DEF SetApprovalCallback
    <2>2. /\ overridden' = overridden \cup {s \in {r} : HandedOver(s)}
          /\ UNCHANGED <<tools, made>>
      BY <1>4 DEF SetApprovalCallback
    <2>3. \A s \in Registries : HandedOver(s)' = HandedOver(s)
      BY <1>1, <2>2 DEF HandedOver
    <2>4. cb \in Callbacks
      BY CallbackFacts
    <2>5. \A s \in overridden' : s \in Registries /\ HandedOver(s)'
      BY <2>2, <2>3 DEF SetupOK
    <2>6. Exclusive => \A d \in made :
            approval'[registryOf[d]] = IF registryOf[d] \in overridden'
                                       THEN installed'[registryOf[d]] ELSE Bridge(d)
      <3> SUFFICES ASSUME Exclusive, NEW d \in made
                   PROVE  approval'[registryOf[d]] = IF registryOf[d] \in overridden'
                                       THEN installed'[registryOf[d]] ELSE Bridge(d)
        OBVIOUS
      <3>1. registryOf[d] \in Registries /\ HandedOver(registryOf[d])
        BY DEF SetupOK, HandedOver
      <3>2. CASE registryOf[d] = r
        BY <2>1, <2>2, <3>1, <3>2 DEF SetupOK
      <3>3. CASE registryOf[d] # r
        BY <2>1, <2>2, <3>1, <3>3 DEF SetupOK
      <3> QED
        BY <3>2, <3>3
    <2>7. \A s \in Registries :
            /\ installed'[s] \in {Nil, Host(s)}
            /\ ~HandedOver(s) => approval'[s] = installed'[s]
      BY <2>1 DEF SetupOK
    <2>8. approval' \in [Registries -> Callbacks] /\ installed' \in [Registries -> Callbacks]
      BY <2>1, <2>4 DEF SetupOK
    <2> QED
      BY <1>1, <1>3, <2>2, <2>3, <2>5, <2>6, <2>7, <2>8 DEF SetupOK
  <1>5. ASSUME NEW r \in Registries, NEW t \in Defs \cup {Danger}, Register(r, t)
        PROVE  SetupOK'
    <2>1. UNCHANGED <<approval, made, installed, overridden>> /\ t \in made \cup {Danger}
          /\ tools' = [tools EXCEPT ![r] = @ \cup {t}]
      BY <1>5 DEF Register
    <2>2. \A s \in Registries : HandedOver(s)' = HandedOver(s)
      BY <1>1, <2>1 DEF HandedOver
    <2> QED
      BY <1>1, <1>3, <2>1, <2>2, GatesAssumption DEF SetupOK
  <1>6. ASSUME NEW d \in Defs, NewSubAgentTool(d) PROVE SetupOK'
    <2>1. /\ approval' = [approval EXCEPT ![registryOf[d]] = Bridge(d)]
          /\ made' = made \cup {d} /\ overridden' = overridden \ {registryOf[d]}
          /\ UNCHANGED <<tools, installed>>
      BY <1>6 DEF NewSubAgentTool
    <2>2. \A s \in Registries : ~HandedOver(s)' => ~HandedOver(s) /\ s # registryOf[d]
      BY <1>1, <2>1 DEF HandedOver
    <2>3. Exclusive => \A e \in made : registryOf[e] = registryOf[d] => e = d
      BY DEF Exclusive, Agents, SetupOK
    <2>4. registryOf[d] \in Registries
      BY DEF SetupOK
    <2>5. approval' \in [Registries -> Callbacks]
      BY <2>1, CallbackFacts DEF SetupOK
    <2>6. \A s \in Registries : tools[s]' \cap Defs \subseteq made'
      BY <2>1 DEF SetupOK
    <2>7. Exclusive => \A e \in made' :
            approval'[registryOf'[e]] = IF registryOf'[e] \in overridden'
                                        THEN installed'[registryOf'[e]] ELSE Bridge(e)
      BY <1>1, <2>1, <2>3, <2>4 DEF SetupOK
    <2>8. \A s \in Registries : ~HandedOver(s)' => approval'[s] = installed'[s]
      BY <2>1, <2>2 DEF SetupOK
    <2>9. \A s \in overridden' : s \in Registries /\ HandedOver(s)'
      BY <1>1, <2>1 DEF SetupOK, HandedOver
    <2> QED
      BY <1>1, <1>3, <2>1, <2>5, <2>6, <2>7, <2>8, <2>9 DEF SetupOK
  <1>7. SetupOK'
    BY <1>4, <1>5, <1>6 DEF HostStep
  <1> QED
    BY <1>1, <1>2, <1>7

-----------------------------------------------------------------------------
(* The steps of a Run change its chain only                                *)

\* A chain that no step touches stays as good as it was.
LEMMA ChainStays ==
    ASSUME UNCHANGED setup, NEW q, ChainOK(q), level'[q] = level[q], run'[q] = run[q]
    PROVE  ChainOK(q)'
  <1>1. Live(q)' = Live(q)
    BY DEF Live
  <1>2. ASSUME NEW l \in Live(q) PROVE RunOK(q, l, run[q][l])'
    <2>1. RunOK(q, l, run[q][l]) /\ run'[q][l] = run[q][l]
      BY DEF ChainOK
    <2> QED
      BY <2>1 DEF setup, RunOK, Exclusive, Governing, MayAsk
  <1> QED
    BY <1>1, <1>2 DEF ChainOK

LEMMA ChainFrame ==
    ASSUME GatesInv, UNCHANGED setup, NEW p \in Parents,
           \A q \in Parents \ {p} : level'[q] = level[q] /\ run'[q] = run[q],
           level' \in [Parents -> -1..MaxLevel], run' \in [Parents -> [Levels -> Runs]],
           ChainOK(p)'
    PROVE  GatesInv'
  <1>1. (registryOf \in Wirings /\ SetupOK)'
    BY DEF GatesInv, setup, SetupOK, Exclusive, HandedOver
  <1>2. ASSUME NEW q \in Parents \ {p} PROVE ChainOK(q)'
    <2>1. ChainOK(q)
      BY DEF GatesInv, ChainsOK
    <2> QED
      BY <2>1, ChainStays
  <1> QED
    BY <1>1, <1>2 DEF GatesInv, ChainsOK

\* The last Run of the chain goes on, at the same place, as f.
LEMMA BecomesInv ==
    ASSUME GatesInv, UNCHANGED <<level, setup>>, NEW p \in Parents, level[p] >= 0,
           NEW f, Becomes(p, f), RunOK(p, level[p], f), f.pc # "waiting"
    PROVE  GatesInv'
  <1>1. ChainOK(p) /\ level \in [Parents -> -1..MaxLevel]
        /\ run \in [Parents -> [Levels -> Runs]]
    BY DEF GatesInv, ChainsOK
  <1>2. level[p] \in Levels /\ level[p] \in Live(p) /\ f \in Runs
    BY <1>1, GatesAssumption DEF Levels, Live, RunOK
  <1>3. /\ run' \in [Parents -> [Levels -> Runs]]
        /\ \A q \in Parents \ {p} : run'[q] = run[q]
        /\ \A l \in Levels : run'[p][l] = IF l = level[p] THEN f ELSE run[p][l]
    BY <1>1, <1>2 DEF Becomes
  <1>4. \A l \in Live(p) : RunOK(p, l, run'[p][l])
    BY <1>1, <1>2, <1>3 DEF ChainOK, Live
  <1>5. \A l \in Live(p) : RunOK(p, l, run[p][l])'
    BY <1>4 DEF setup, RunOK, Exclusive, Governing, MayAsk
  <1>6. \A l \in Live(p) : run'[p][l].pc = "waiting" <=> l < level[p]
    <2>1. \A l \in Live(p) : l \in Levels /\ l <= level[p]
      BY DEF Live
    <2> QED
      BY <1>1, <1>2, <1>3, <2>1, GatesAssumption DEF ChainOK, Levels
  <1>7. ChainOK(p)'
    BY <1>1, <1>3, <1>5, <1>6 DEF ChainOK, Live
  <1> QED
    BY <1>1, <1>3, <1>7, ChainFrame DEF setup

LEMMA Now ==
    ASSUME GatesInv, NEW p \in Parents, level[p] >= 0
    PROVE  /\ level[p] \in {0, 1} /\ level[p] \in Live(p) /\ level[p] \in Levels
           /\ RunOK(p, level[p], Current(p)) /\ Current(p).pc # "waiting"
           /\ Registry(p) \in Registries
  <1>1. ChainOK(p) /\ level[p] \in -1..MaxLevel
    BY DEF GatesInv, ChainsOK, ChainOK
  <1>2. level[p] \in {0, 1} /\ level[p] \in Live(p) /\ level[p] \in Levels
    BY <1>1, GatesAssumption DEF ChainOK, Live, Levels
  <1>3. RunOK(p, level[p], Current(p)) /\ Current(p).pc # "waiting"
    BY <1>1, <1>2 DEF ChainOK, Current
  <1>4. Registry(p) \in Registries
    BY <1>3 DEF Registry, RunOK, Agents, GatesInv, SetupOK
  <1> QED
    BY <1>2, <1>3, <1>4

-----------------------------------------------------------------------------
(* Runs come and go                                                        *)

LEMMA StartRunInv ==
    ASSUME GatesInv, NEW p \in Parents, StartRun(p) PROVE GatesInv'
  <1> USE GatesAssumption
  <1>1. ChainOK(p) /\ level \in [Parents -> -1..MaxLevel]
        /\ run \in [Parents -> [Levels -> Runs]] /\ 0 \in Levels /\ SetupOK
    BY DEF GatesInv, ChainsOK, Levels
  <1> DEFINE f == NewRun(p, 0, Nil)
  <1>2. /\ level' = [level EXCEPT ![p] = 0] /\ UNCHANGED setup
        /\ run' = [run EXCEPT ![p][0] = f]
    BY DEF StartRun
  <1>3. f \in Runs /\ f.agent = p /\ f.pc = "model" /\ f.depth = 0 /\ f.inherited = Nil
        /\ f.approval = approval[registryOf[p]]
    BY <1>1, CallbackFacts, NewRunFacts DEF Agents, SetupOK
  <1>4. RunOK(p, 0, f)
    BY <1>3 DEF RunOK, Agents
  <1> HIDE DEF f
  <1>5. /\ level' \in [Parents -> -1..MaxLevel] /\ level'[p] = 0
        /\ run' \in [Parents -> [Levels -> Runs]] /\ run'[p][0] = f
        /\ \A q \in Parents \ {p} : level'[q] = level[q] /\ run'[q] = run[q]
    BY <1>1, <1>2, <1>3 DEF Levels
  <1>6. \A l \in Live(p)' : l = 0
    BY <1>5 DEF Live, Levels
  <1>7. RunOK(p, 0, run[p][0])'
    BY <1>2, <1>4, <1>5 DEF setup, RunOK, Exclusive, Governing, MayAsk
  <1>8. ChainOK(p)'
    BY <1>3, <1>5, <1>6, <1>7 DEF ChainOK
  <1> QED
    BY <1>2, <1>5, <1>8, ChainFrame

LEMMA StartChildInv ==
    ASSUME GatesInv, NEW p \in Parents, NEW d \in Defs, StartChild(p, d) PROVE GatesInv'
  <1> USE GatesAssumption
  <1> DEFINE c == Current(p)
             f == NewRun(d, c.depth + 1, PassedOn(p))
             w == [c EXCEPT !.pc = "waiting"]
  <1>1. /\ c.pc = "model" /\ level[p] >= 0 /\ d \in tools[Registry(p)] /\ c.depth < 1
        /\ level[p] < MaxLevel /\ UNCHANGED setup
        /\ level' = [level EXCEPT ![p] = @ + 1]
        /\ run' = [run EXCEPT ![p][level[p]].pc = "waiting", ![p][level[p] + 1] = f]
    BY DEF StartChild, At
  <1>2. /\ ChainOK(p) /\ level \in [Parents -> -1..MaxLevel] /\ SetupOK
        /\ run \in [Parents -> [Levels -> Runs]]
    BY DEF GatesInv, ChainsOK
  <1>3. level[p] = 0 /\ RunOK(p, 0, c) /\ Registry(p) \in Registries /\ c = run[p][0]
    <2>1. RunOK(p, level[p], c) /\ level[p] \in {0, 1} /\ Registry(p) \in Registries
      BY <1>1, Now
    <2>2. c.depth = level[p]
      BY <2>1 DEF RunOK
    <2>3. level[p] = 0
      BY <1>1, <2>1, <2>2
    <2> QED
      BY <2>1, <2>3 DEF Current
  <1>4. /\ c \in Runs /\ c.agent = p /\ c.depth = 0
        /\ c.approval = approval[registryOf[p]] /\ c.inherited = Nil
    BY <1>3 DEF RunOK
  <1>5. PassedOn(p) = approval[registryOf[p]]
    BY <1>4 DEF PassedOn
  <1>6. d \in made
    BY <1>1, <1>2, <1>3, GatesAssumption DEF SetupOK
  <1>7. /\ f \in Runs /\ f.agent = d /\ f.pc = "model" /\ f.depth = 1
        /\ f.inherited = approval[registryOf[p]] /\ f.approval = approval[registryOf[d]]
    <2>1. f = NewRun(d, 1, approval[registryOf[p]])
      BY <1>4, <1>5
    <2>2. /\ approval[registryOf[d]] \in Callbacks /\ approval[registryOf[p]] \in Callbacks
          /\ d \in Agents
      BY <1>2 DEF SetupOK, Agents
    <2> HIDE DEF f
    <2> QED
      BY <2>1, <2>2, NewRunFacts
  <1>8. RunOK(p, 1, f)
    BY <1>6, <1>7 DEF RunOK, Agents
  <1>9. w \in Runs /\ w.pc = "waiting" /\ RunOK(p, 0, w)
    BY <1>3, <1>4 DEF RunOK, Runs
  <1>10. /\ level' \in [Parents -> -1..MaxLevel] /\ level'[p] = 1 /\ 0 \in Levels /\ 1 \in Levels
         /\ \A q \in Parents \ {p} : level'[q] = level[q]
    BY <1>1, <1>2, <1>3 DEF Levels
  <1>11. run' = [run EXCEPT ![p] = [@ EXCEPT ![0] = w, ![1] = f]]
    BY <1>1, <1>2, <1>3, <1>10
  <1> HIDE DEF f, w
  <1>12. /\ run' \in [Parents -> [Levels -> Runs]] /\ run'[p][0] = w /\ run'[p][1] = f
         /\ \A q \in Parents \ {p} : run'[q] = run[q]
    BY <1>2, <1>7, <1>9, <1>10, <1>11
  <1>13. \A l \in Live(p)' : l = 0 \/ l = 1
    BY <1>10 DEF Live, Levels
  <1>14. RunOK(p, 0, run[p][0])' /\ RunOK(p, 1, run[p][1])'
    <2>1. RunOK(p, 0, run'[p][0]) /\ RunOK(p, 1, run'[p][1])
      BY <1>8, <1>9, <1>12
    <2>2. UNCHANGED setup
      BY <1>1
    <2> QED
      BY <2>1, <2>2 DEF setup, RunOK, Exclusive, Governing, MayAsk
  <1>15. ChainOK(p)'
    BY <1>7, <1>9, <1>10, <1>12, <1>13, <1>14 DEF ChainOK
  <1> QED
    BY <1>1, <1>10, <1>12, <1>15, ChainFrame

LEMMA ReturnInv ==
    ASSUME GatesInv, NEW p \in Parents, level[p] >= 0, Return(p), UNCHANGED setup
    PROVE  GatesInv'
  <1> USE GatesAssumption
  <1> DEFINE m == [run[p][0] EXCEPT !.pc = "model"]
  <1>1. /\ ChainOK(p) /\ level \in [Parents -> -1..MaxLevel] /\ SetupOK
        /\ run \in [Parents -> [Levels -> Runs]]
    BY DEF GatesInv, ChainsOK
  <1>2. level[p] \in {0, 1} /\ 0 \in Live(p) /\ 0 \in Levels
    BY <1>1, Now DEF Live, Levels
  <1>3. run[p][0] \in Runs /\ RunOK(p, 0, run[p][0])
    BY <1>1, <1>2 DEF ChainOK
  <1>4. m \in Runs /\ m.pc = "model" /\ RunOK(p, 0, m)
    BY <1>3 DEF RunOK, Runs
  <1>5. \A l \in Levels : run[p][l] \in Runs
    BY <1>1
  <1>6. /\ level' = [level EXCEPT ![p] = @ - 1]
        /\ run' = [run EXCEPT ![p] =
             [l \in Levels |-> IF l = level[p] THEN NoRun
                               ELSE IF l = level[p] - 1 THEN [run[p][l] EXCEPT !.pc = "model"]
                               ELSE run[p][l]]]
    BY DEF Return
  <1>7. level[p] = 1 => run'[p][0] = m
    BY <1>1, <1>2, <1>6
  <1>8. \A l \in Levels : run'[p][l] \in Runs
    <2> TAKE l \in Levels
    <2>1. run'[p][l] = IF l = level[p] THEN NoRun
                       ELSE IF l = level[p] - 1 THEN [run[p][l] EXCEPT !.pc = "model"]
                       ELSE run[p][l]
      BY <1>1, <1>6
    <2>2. [run[p][l] EXCEPT !.pc = "model"] \in Runs
      BY <1>5 DEF Runs
    <2> QED
      BY <2>1, <2>2, <1>5, NoRunIsRun
  <1>9. run'[p] \in [Levels -> Runs]
    BY <1>1, <1>6, <1>8
  <1>10. /\ level' \in [Parents -> -1..MaxLevel] /\ level'[p] = level[p] - 1
         /\ run' \in [Parents -> [Levels -> Runs]]
         /\ \A q \in Parents \ {p} : level'[q] = level[q] /\ run'[q] = run[q]
    BY <1>1, <1>2, <1>6, <1>9
  <1> HIDE DEF m
  <1>11. \A l \in Live(p)' : l = 0 /\ level[p] = 1 /\ level'[p] = 0
    BY <1>2, <1>10 DEF Live, Levels
  <1>12. level[p] = 1 => RunOK(p, 0, run[p][0])'
    <2>1. level[p] = 1 => RunOK(p, 0, run'[p][0])
      BY <1>4, <1>7
    <2> QED
      BY <2>1 DEF setup, RunOK, Exclusive, Governing, MayAsk
  <1>13. ChainOK(p)'
    BY <1>2, <1>4, <1>7, <1>9, <1>10, <1>11, <1>12 DEF ChainOK
  <1> QED
    BY <1>10, <1>13, ChainFrame

LEMMA FailAllInv ==
    ASSUME GatesInv, NEW p \in Parents, FailAll(p), UNCHANGED setup
    PROVE  GatesInv'
  <1>1. /\ level \in [Parents -> -1..MaxLevel] /\ run \in [Parents -> [Levels -> Runs]]
    BY DEF GatesInv, ChainsOK
  <1>2. /\ level' \in [Parents -> -1..MaxLevel] /\ level'[p] = -1
        /\ run' \in [Parents -> [Levels -> Runs]]
        /\ \A q \in Parents \ {p} : level'[q] = level[q] /\ run'[q] = run[q]
    BY <1>1, NoRunIsRun, GatesAssumption DEF FailAll
  <1>3. ChainOK(p)'
    BY <1>2, GatesAssumption DEF ChainOK, Live, Levels
  <1> QED
    BY <1>2, <1>3, ChainFrame

-----------------------------------------------------------------------------
(* The approval of a call                                                  *)

\* With registries of their own, the registry of a parent holds what the host
\* installed and that of a sub-agent its bridge.
LEMMA RegistryGate ==
    ASSUME GatesInv, Exclusive, NEW p \in Parents, level[p] >= 0
    PROVE  approval[Registry(p)] \in MayAsk(p, Current(p).agent)
  <1> DEFINE a == Current(p).agent
  <1>1. RunOK(p, level[p], Current(p)) /\ Registry(p) \in Registries /\ SetupOK
    BY Now DEF GatesInv
  <1>2. CASE a = p
    <2>1. \A d \in made : registryOf[d] # registryOf[p]
      BY <1>1, GatesAssumption DEF Exclusive, Agents, SetupOK
    <2> QED
      BY <1>1, <1>2, <2>1 DEF SetupOK, HandedOver, MayAsk, Registry
  <1>3. CASE a # p
    BY <1>1, <1>3 DEF RunOK, SetupOK, MayAsk, Registry
  <1> QED
    BY <1>2, <1>3

LEMMA AskApprovalInv ==
    ASSUME GatesInv, NEW p \in Parents, AskApproval(p) PROVE GatesInv'
  <1> DEFINE c == Current(p)
             f == [c EXCEPT !.pc = "asking", !.callback = approval[Registry(p)]]
  <1>1. level[p] >= 0 /\ Becomes(p, f) /\ UNCHANGED <<level, setup>>
    BY DEF AskApproval, At
  <1>2. RunOK(p, level[p], c) /\ c \in Runs /\ approval[Registry(p)] \in Callbacks
    BY <1>1, Now DEF GatesInv, SetupOK, RunOK
  <1>3. f \in Runs /\ f.pc = "asking" /\ f.callback = approval[Registry(p)] /\ f.agent = c.agent
        /\ f.depth = c.depth /\ f.inherited = c.inherited /\ f.approval = c.approval
    BY <1>2 DEF Runs
  <1> HIDE DEF f
  <1>4. Exclusive => f.callback \in MayAsk(p, f.agent)
    BY <1>1, <1>3, RegistryGate
  <1>5. RunOK(p, level[p], f)
    BY <1>2, <1>3, <1>4 DEF RunOK
  <1> QED
    BY <1>1, <1>3, <1>5, BecomesInv

\* An answer sends the Run on to its tool, on a yes, or back to the model.
LEMMA AnswerInv ==
    ASSUME GatesInv, NEW p \in Parents, level[p] >= 0, UNCHANGED <<level, setup>>,
           NEW f \in Runs, Answer(p, f),
           f.agent = Current(p).agent, f.depth = Current(p).depth,
           f.inherited = Current(p).inherited, f.approval = Current(p).approval,
           \/ f.pc = "model"
           \/ f.pc = "running" /\ f.granted \in Humans
                /\ (Exclusive => f.granted = Governing(p, f.agent))
    PROVE  GatesInv'
  <1> DEFINE g == [f EXCEPT !.callback = Nil, !.hops = 0]
  <1>1. Becomes(p, g)
    BY DEF Answer
  <1>2. RunOK(p, level[p], Current(p))
    BY Now
  <1>3. /\ g \in Runs /\ g.agent = f.agent /\ g.depth = f.depth /\ g.inherited = f.inherited
        /\ g.approval = f.approval /\ g.pc = f.pc /\ g.granted = f.granted
    <2>1. Nil \in Callbacks /\ 0 \in 0..MaxHops
      BY CallbackFacts, GatesAssumption
    <2> QED
      BY <2>1 DEF Runs
  <1> HIDE DEF g
  <1>4. RunOK(p, level[p], g)
    BY <1>2, <1>3 DEF RunOK
  <1> QED
    BY <1>1, <1>3, <1>4, BecomesInv

LEMMA HumanAnswersInv ==
    ASSUME GatesInv, NEW p \in Parents, HumanAnswers(p) PROVE GatesInv'
  <1> DEFINE c == Current(p)
             y == [c EXCEPT !.pc = "running", !.granted = Asked(p)]
             n == [c EXCEPT !.pc = "model"]
  <1>1. /\ level[p] >= 0 /\ c.pc = "asking" /\ Asked(p) \in Humans /\ UNCHANGED <<level, setup>>
        /\ Answer(p, y) \/ Answer(p, n)
    BY DEF HumanAnswers, At, Granted, Denied
  <1>2. RunOK(p, level[p], c) /\ c \in Runs /\ Asked(p) = c.callback
    BY <1>1, Now DEF RunOK, Asked
  <1>3. Exclusive => Asked(p) = Governing(p, c.agent)
    <2>1. Exclusive => c.callback \in MayAsk(p, c.agent)
      BY <1>1, <1>2 DEF RunOK
    <2>2. p \notin own
      BY GatesAssumption DEF GatesInv, SetupOK
    <2>3. c.agent # p => c.agent \in Defs
      BY <1>2, GatesAssumption DEF RunOK, Agents, GatesInv, SetupOK
    <2> QED
      BY <1>1, <1>2, <2>1, <2>2, <2>3, CallbackFacts DEF MayAsk, Governing
  <1>4. /\ n \in Runs /\ n.pc = "model" /\ n.agent = c.agent /\ n.depth = c.depth
        /\ n.inherited = c.inherited /\ n.approval = c.approval
    BY <1>2 DEF Runs
  <1>5. /\ y \in Runs /\ y.pc = "running" /\ y.granted = Asked(p) /\ y.agent = c.agent
        /\ y.depth = c.depth /\ y.inherited = c.inherited /\ y.approval = c.approval
    BY <1>1, <1>2, CallbackFacts DEF Runs
  <1> HIDE DEF y, n
  <1>6. CASE Answer(p, y)
    BY <1>1, <1>3, <1>5, <1>6, AnswerInv
  <1>7. CASE Answer(p, n)
    BY <1>1, <1>4, <1>7, AnswerInv
  <1> QED
    BY <1>1, <1>6, <1>7

LEMMA CallBridgeInv ==
    ASSUME GatesInv, NEW p \in Parents, CallBridge(p) PROVE GatesInv'
  <1> DEFINE c     == Current(p)
             d     == Asked(p).of
             On(g) == [c EXCEPT !.callback = g, !.hops = @ + 1]
             n     == [c EXCEPT !.pc = "model"]
  <1>1. /\ level[p] >= 0 /\ c.pc = "asking" /\ Asked(p).kind = "bridge" /\ c.hops < MaxHops
        /\ UNCHANGED <<level, setup>>
    BY DEF CallBridge, At
  <1>2. RunOK(p, level[p], c) /\ c \in Runs /\ Asked(p) = c.callback /\ Asked(p) \in Callbacks
    BY <1>1, Now DEF RunOK, Asked, Runs
  <1>3. d \in Defs /\ Asked(p) = Bridge(d)
    BY <1>1, <1>2, CallbackFacts
  <1>4. \/ d \in own /\ Becomes(p, On(Own(d)))
        \/ d \notin own /\ Inherited(p) # Nil /\ Becomes(p, On(Inherited(p)))
        \/ Answer(p, n)
    BY DEF CallBridge, Unasked, Denied
  \* Whom the bridge calls is one the Run may ask.
  <1>5. /\ d \in own /\ Exclusive => Own(d) \in MayAsk(p, c.agent)
        /\ d \notin own /\ Exclusive => Inherited(p) \in MayAsk(p, c.agent)
    <2> SUFFICES ASSUME Exclusive
                 PROVE  IF d \in own THEN Own(d) \in MayAsk(p, c.agent)
                                     ELSE Inherited(p) \in MayAsk(p, c.agent)
      OBVIOUS
    <2>1. Bridge(d) \in MayAsk(p, c.agent)
      BY <1>1, <1>2, <1>3 DEF RunOK
    <2>2. \A e \in made : registryOf[e] # registryOf[p]
      BY GatesAssumption DEF Exclusive, Agents, GatesInv, SetupOK
    <2>3. registryOf[p] \in Registries
      BY DEF GatesInv, SetupOK
    <2>4. /\ approval[registryOf[p]] = installed[registryOf[p]]
          /\ installed[registryOf[p]] \in {Nil, Host(registryOf[p])}
      BY <2>2, <2>3 DEF GatesInv, SetupOK, HandedOver
    <2>5. \A r \in Registries : installed[r] # Bridge(d)
      BY <1>3, CallbackFacts DEF GatesInv, SetupOK
    <2>6. c.agent # p /\ c.agent \in Defs /\ registryOf[c.agent] \notin overridden
      BY <1>2, <2>1, <2>3, <2>5 DEF MayAsk, RunOK, GatesInv, SetupOK
    <2>7. c.agent = d
      <3>1. \A e \in Defs : Own(e) # Bridge(d)
        BY <1>3, CallbackFacts
      <3>2. Bridge(d) = Bridge(c.agent)
        BY <2>1, <2>3, <2>5, <2>6, <3>1 DEF MayAsk
      <3> QED
        BY <3>2 DEF Bridge
    <2>8. c.inherited = approval[registryOf[p]]
      BY <1>2, <2>6 DEF RunOK
    <2> QED
      BY <2>4, <2>6, <2>7, <2>8 DEF MayAsk, Inherited
  <1>6. Own(d) \in Callbacks /\ Inherited(p) \in Callbacks
    BY <1>2, <1>3, CallbackFacts DEF Inherited, Runs
  <1>7. ASSUME NEW g \in Callbacks, Becomes(p, On(g)), Exclusive => g \in MayAsk(p, c.agent)
        PROVE  GatesInv'
    <2> DEFINE f == On(g)
    <2>1. c.hops \in Nat /\ c.hops + 1 \in 0..MaxHops
      BY <1>1, <1>2, GatesAssumption DEF Runs
    <2>2. /\ f \in Runs /\ f.pc = "asking" /\ f.callback = g /\ f.agent = c.agent
          /\ f.depth = c.depth /\ f.inherited = c.inherited /\ f.approval = c.approval
      BY <1>1, <1>2, <2>1 DEF Runs
    <2>3. Becomes(p, f)
      BY <1>7
    <2> HIDE DEF f
    <2>4. RunOK(p, level[p], f)
      BY <1>2, <1>7, <2>2 DEF RunOK
    <2> QED
      BY <1>1, <2>2, <2>3, <2>4, BecomesInv
  <1>8. ASSUME Answer(p, n) PROVE GatesInv'
    <2>1. /\ n \in Runs /\ n.pc = "model" /\ n.agent = c.agent /\ n.depth = c.depth
          /\ n.inherited = c.inherited /\ n.approval = c.approval
      BY <1>2 DEF Runs
    <2> HIDE DEF n
    <2> QED
      BY <1>1, <1>8, <2>1, AnswerInv
  <1> HIDE DEF n, On
  <1> QED
    BY <1>4, <1>5, <1>6, <1>7, <1>8

LEMMA ToolReturnsInv ==
    ASSUME GatesInv, NEW p \in Parents, ToolReturns(p) PROVE GatesInv'
  <1> DEFINE c == Current(p)
             f == [c EXCEPT !.pc = "model", !.granted = Nil]
  <1>1. level[p] >= 0 /\ Becomes(p, f) /\ UNCHANGED <<level, setup>>
    BY DEF ToolReturns, At
  <1>2. RunOK(p, level[p], c) /\ c \in Runs
    BY <1>1, Now DEF RunOK
  <1>3. f \in Runs /\ f.pc = "model" /\ f.agent = c.agent
        /\ f.depth = c.depth /\ f.inherited = c.inherited /\ f.approval = c.approval
    BY <1>2, CallbackFacts DEF Runs
  <1> HIDE DEF f
  <1>4. RunOK(p, level[p], f)
    BY <1>2, <1>3 DEF RunOK
  <1> QED
    BY <1>1, <1>3, <1>4, BecomesInv

LEMMA GatePanicsInv ==
    ASSUME GatesInv, NEW p \in Parents, GatePanics(p) PROVE GatesInv'
  BY ReturnInv, FailAllInv DEF GatePanics, At

LEMMA EndRunInv ==
    ASSUME GatesInv, NEW p \in Parents, EndRun(p) PROVE GatesInv'
  BY ReturnInv DEF EndRun, At

-----------------------------------------------------------------------------
(* The theorems                                                            *)

\* The invariant of set-up and chains holds whatever the host and the Runs do.
THEOREM GatesInvariance == Spec => []GatesInv
  <1>1. GatesInv /\ UNCHANGED vars => GatesInv'
    <2> SUFFICES ASSUME GatesInv, UNCHANGED vars PROVE GatesInv'
      OBVIOUS
    <2>1. (registryOf \in Wirings /\ SetupOK)'
      BY DEF vars, GatesInv, SetupOK, HandedOver, Exclusive
    <2>2. ASSUME NEW p \in Parents PROVE ChainOK(p)'
      BY ChainStays DEF vars, setup, GatesInv, ChainsOK
    <2> QED
      BY <2>1, <2>2 DEF vars, GatesInv, ChainsOK
  <1>2. GatesInv /\ Next => GatesInv'
    BY HostStepInv, StartRunInv, StartChildInv, EndRunInv, AskApprovalInv, CallBridgeInv,
       HumanAnswersInv, GatePanicsInv, ToolReturnsInv
       DEF Next, RunStep, Approving
  <1> QED
    BY InitInv, <1>1, <1>2, PTL DEF Spec

\* The variables keep their types, and the Runs of a chain stand at the depth their
\* context says, all but the last waiting (Agent.Run 99-125).
THEOREM GatesTyping == Spec => []TypeOK
  <1>1. GatesInv => TypeOK
    BY DEF GatesInv, SetupOK, ChainsOK, ChainOK, RunOK, TypeOK
  <1> QED
    BY GatesInvariance, <1>1, PTL

\* A HITL-flagged tool runs only on a yes of a callback a human wrote, whatever is
\* shared and in whatever order it was set up (subagent.go:208-217).
THEOREM Gated == Spec => []NeverUngated
  <1>1. GatesInv => NeverUngated
    BY DEF GatesInv, ChainsOK, ChainOK, RunOK, NeverUngated
  <1> QED
    BY GatesInvariance, <1>1, PTL

\* With registries of their own, agents are governed by the documented callback: their
\* definition's or else that of the parent whose Run called (subagent.go:204-217).
THEOREM Governed == Spec => []GoverningGate
  <1>1. GatesInv => GoverningGate
    BY DEF GatesInv, ChainsOK, ChainOK, RunOK, GoverningGate
  <1> QED
    BY GatesInvariance, <1>1, PTL

\* No sub-agent runs below a sub-agent (subagent.go:274-277).
THEOREM Shallow == Spec => []DepthOfOne
  <1>1. GatesInv => DepthOfOne
    BY DEF GatesInv, ChainsOK, ChainOK, DepthOfOne
  <1> QED
    BY GatesInvariance, <1>1, PTL
=============================================================================
