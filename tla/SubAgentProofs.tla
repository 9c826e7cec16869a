--------------------------- MODULE SubAgentProofs ---------------------------
(***************************************************************************)
(* No sub-agent instance is ever run by two calls at once, for any number  *)
(* of calls in a batch and of batches, whatever handles the model supplies *)
(* and wherever a child panics.                                            *)
(*                                                                         *)
(* Under MultiTurn a call inside its child's Run holds the mutex of its    *)
(* session's instance; without it every call made an instance of its own.  *)
(* Both rest on the store making an instance at most once per call, which  *)
(* Room counts.                                                            *)
(*                                                                         *)
(* Sessions remember what was answered under their handle, as long as no   *)
(* handle is guessed before the store mints it: handles and instances are  *)
(* then one to one.                                                        *)
(***************************************************************************)
EXTENDS SubAgent, FiniteSetTheorems, TLAPS

Places == {"idle", "called", "locking", "running", "answered", "emitting", "forwarding", "asking", "returned"}

Typed ==
    /\ def \in [multiTurn : BOOLEAN, forward : BOOLEAN, ownGate : BOOLEAN]
    /\ pc \in [Calls -> Places]
    /\ arg \in [Calls -> {New} \cup Handles] /\ inst \in [Calls -> Nat]
    /\ created \in Nat /\ batch \in 0..MaxBatches
    /\ entries \in [Handles -> 0..created]
    /\ mu \in [Instances -> Calls \cup {Nobody}]

\* The calls of the batch that may still make an instance.
Waiting == {c \in Calls : pc[c] = "called"}

Room == created + Cardinality(Waiting) <= batch * Cardinality(Calls)

Entered(c) == pc[c] = "locking" \/ Inside(c)

Held ==
    /\ \A c \in Calls : Entered(c) => inst[c] \in 1..created
    /\ \A c \in Calls : pc[c] = "locking" => def.multiTurn
    /\ def.multiTurn => \A c \in Calls : Inside(c) => mu[inst[c]] = c
    /\ ~def.multiTurn => \A c, d \in Calls : c # d /\ Inside(c) /\ Inside(d) => inst[c] # inst[d]

SessionInv == Typed /\ Room /\ Held

-----------------------------------------------------------------------------
(* Counting                                                                *)

LEMMA Times ==
    ASSUME NEW a \in Nat, NEW b \in Nat, a <= b, NEW n \in Nat
    PROVE  /\ a * n \in Nat /\ b * n \in Nat /\ a * n <= b * n
           /\ (a + 1) * n = a * n + n
  OBVIOUS

LEMMA CallsCounted == Cardinality(Calls) \in Nat
  BY SubAgentAssumption, FS_CardinalityType

LEMMA WaitingCounted == IsFiniteSet(Waiting) /\ Cardinality(Waiting) \in Nat
  <1>1. Waiting \subseteq Calls
    BY DEF Waiting
  <1> QED
    BY <1>1, SubAgentAssumption, FS_Subset, FS_CardinalityType

\* Every instance made is one of the store's.
LEMMA MadeFits ==
    ASSUME Typed, Room
    PROVE  1..created \subseteq Instances
  <1> DEFINE n == Cardinality(Calls)
  <1>1. n \in Nat /\ Cardinality(Waiting) \in Nat
    BY CallsCounted, WaitingCounted
  <1>2. batch \in Nat /\ MaxBatches \in Nat /\ batch <= MaxBatches /\ created \in Nat
    BY SubAgentAssumption DEF Typed
  <1>3. batch * n \in Nat /\ MaxBatches * n \in Nat /\ batch * n <= MaxBatches * n
    BY <1>1, <1>2, Times
  <1>4. created + Cardinality(Waiting) <= batch * n
    BY DEF Room
  <1>5. created <= MaxBatches * n
    <2> HIDE DEF n
    <2> QED
      BY <1>1, <1>2, <1>3, <1>4
  <1> QED
    BY <1>2, <1>3, <1>5 DEF Instances

\* A call leaves the waiting ones, and may have made an instance.
LEMMA OneLess ==
    ASSUME Typed, Room, NEW c \in Calls, pc[c] = "called",
           NEW p \in Places \ {"called"}, pc' = [pc EXCEPT ![c] = p],
           created' \in {created, created + 1}, UNCHANGED batch
    PROVE  Room' /\ created' \in Nat
  <1>1. c \in Waiting
    BY DEF Waiting
  <1>2. Waiting' = Waiting \ {c}
    BY DEF Waiting, Typed
  <1>3. Cardinality(Waiting') = Cardinality(Waiting) - 1
    BY <1>1, <1>2, WaitingCounted, FS_RemoveElement
  <1>4. created \in Nat /\ Cardinality(Waiting) \in Nat /\ Cardinality(Calls) \in Nat
        /\ batch \in Nat
    BY WaitingCounted, CallsCounted DEF Typed
  <1>5. batch * Cardinality(Calls) \in Nat
    BY <1>4, Times
  <1> QED
    BY <1>3, <1>4, <1>5 DEF Room

LEMMA SameRoom ==
    ASSUME Room, Waiting' = Waiting, UNCHANGED <<created, batch>>
    PROVE  Room'
  BY DEF Room
-----------------------------------------------------------------------------
(* The invariant                                                           *)

LEMMA InitHolds == Init => SessionInv
  <1> SUFFICES ASSUME Init PROVE SessionInv
    OBVIOUS
  <1>1. Waiting = {}
    BY DEF Init, Waiting
  <1>2. Cardinality(Waiting) = 0
    BY <1>1, FS_EmptySet
  <1>3. 0 * Cardinality(Calls) = 0
    BY CallsCounted
  <1>4. Room
    BY <1>2, <1>3 DEF Init, Room
  <1>5. Typed
    BY SubAgentAssumption DEF Init, Typed, Places, None, New
  <1>6. Held
    BY DEF Init, Held, Entered, Inside
  <1> QED
    BY <1>4, <1>5, <1>6 DEF SessionInv

\* A batch starts when nobody waits, and ends when everybody has returned.
LEMMA StartStep ==
    ASSUME SessionInv, StartBatch
    PROVE  SessionInv'
  <1>1. /\ batch \in Nat /\ batch < MaxBatches /\ batch' = batch + 1
        /\ pc' = [c \in Calls |-> "called"] /\ \A c \in Calls : pc[c] = "idle"
        /\ UNCHANGED <<def, entries, mu, created, inst>>
        /\ MaxBatches \in Nat
    BY SubAgentAssumption DEF StartBatch, SessionInv, Typed
  <1>2. Waiting = {} /\ Waiting' = Calls
    BY <1>1 DEF Waiting
  <1>3. Cardinality(Waiting) = 0 /\ Cardinality(Waiting') = Cardinality(Calls)
    BY <1>2, FS_EmptySet
  <1>4. /\ (batch + 1) * Cardinality(Calls) = batch * Cardinality(Calls) + Cardinality(Calls)
        /\ batch * Cardinality(Calls) \in Nat /\ Cardinality(Calls) \in Nat
    BY <1>1, CallsCounted, Times
  <1>5. Room'
    <2>1. created <= batch * Cardinality(Calls) /\ created \in Nat
      BY <1>3, <1>4 DEF SessionInv, Room, Typed
    <2>2. created + Cardinality(Calls) <= batch' * Cardinality(Calls)
      BY <1>1, <1>4, <2>1
    <2> QED
      BY <1>1, <1>3, <2>2 DEF Room
  <1>6. arg' \in [Calls -> {New} \cup Handles]
    <2>1. PICK ids \in [Calls -> IF def.multiTurn THEN {New} \cup Known \cup Guesses ELSE {New}] :
            arg' = ids
      BY DEF StartBatch
    <2>2. Known \subseteq Handles /\ Guesses \subseteq Handles
      BY DEF Known, Handles
    <2> QED
      BY <2>1, <2>2
  <1>7. Typed'
    BY <1>1, <1>6 DEF SessionInv, Typed, Places
  <1>8. Held'
    BY <1>1 DEF Held, Entered, Inside
  <1> QED
    BY <1>5, <1>7, <1>8 DEF SessionInv

LEMMA EndStep ==
    ASSUME SessionInv, EndBatch
    PROVE  SessionInv'
  <1>1. /\ \A c \in Calls : pc[c] = "returned"
        /\ pc' = [c \in Calls |-> "idle"] /\ arg' = [c \in Calls |-> New]
        /\ inst' = [c \in Calls |-> None]
        /\ UNCHANGED <<def, entries, mu, created, batch>>
    BY DEF EndBatch
  <1>2. Waiting = {} /\ Waiting' = {}
    BY <1>1 DEF Waiting
  <1>3. Room'
    BY <1>1, <1>2, SameRoom DEF SessionInv
  <1>4. Typed'
    BY <1>1 DEF SessionInv, Typed, Places, None
  <1>5. Held'
    BY <1>1 DEF Held, Entered, Inside
  <1> QED
    BY <1>3, <1>4, <1>5 DEF SessionInv

\* A call moves and neither waits before nor after; the store stays as it is.
LEMMA Moves ==
    ASSUME SessionInv, NEW c \in Calls, pc[c] # "called", NEW p \in Places \ {"called"},
           pc' = [pc EXCEPT ![c] = p], UNCHANGED <<def, arg, inst, created, batch, entries>>,
           mu' \in [Instances -> Calls \cup {Nobody}]
    PROVE  Typed' /\ Room'
  <1>1. Waiting' = Waiting
    BY DEF SessionInv, Typed, Waiting
  <1>2. Room'
    BY <1>1, SameRoom DEF SessionInv
  <1>3. Typed'
    BY DEF SessionInv, Typed
  <1> QED
    BY <1>2, <1>3

\* Inside the child's Run, or out of it: what the others hold stays theirs.
LEMMA StaysInside ==
    ASSUME SessionInv, NEW c \in Calls, Inside(c),
           NEW p \in {"running", "answered", "emitting", "forwarding", "asking"},
           pc' = [pc EXCEPT ![c] = p], UNCHANGED <<def, arg, inst, created, batch, entries, mu>>
    PROVE  SessionInv'
  <1>1. Typed' /\ Room'
    BY Moves DEF SessionInv, Typed, Inside, Places
  <1>2. \A d \in Calls : (Inside(d)' <=> Inside(d)) /\ (Entered(d)' <=> Entered(d))
                         /\ (pc'[d] = "locking" <=> pc[d] = "locking")
    BY DEF SessionInv, Typed, Inside, Entered
  <1>3. Held'
    BY <1>2 DEF SessionInv, Held
  <1> QED
    BY <1>1, <1>3 DEF SessionInv

LEMMA Leaves ==
    ASSUME SessionInv, NEW c \in Calls, Inside(c),
           pc' = [pc EXCEPT ![c] = "returned"],
           UNCHANGED <<def, arg, inst, created, batch, entries>>,
           Release(c) \/ UNCHANGED mu
    PROVE  SessionInv'
  <1>1. mu' \in [Instances -> Calls \cup {Nobody}]
    BY DEF SessionInv, Typed, Release
  <1>2. Typed' /\ Room'
    BY <1>1, Moves DEF SessionInv, Typed, Inside, Places
  <1>3. /\ \A d \in Calls : d # c => (Inside(d)' <=> Inside(d)) /\ (Entered(d)' <=> Entered(d))
                                     /\ (pc'[d] = "locking" <=> pc[d] = "locking")
        /\ ~Inside(c)' /\ ~Entered(c)' /\ pc'[c] # "locking"
    BY DEF SessionInv, Typed, Inside, Entered
  <1>4. ASSUME def.multiTurn, NEW d \in Calls, Inside(d)' PROVE mu'[inst[d]] = d
    <2>1. d # c /\ mu[inst[d]] = d /\ mu[inst[c]] = c
      BY <1>3, <1>4 DEF SessionInv, Held
    <2>2. inst[d] # inst[c] /\ inst[d] \in Instances
      BY <1>3, <1>4, <2>1, MadeFits DEF SessionInv, Held, Entered
    <2>3. mu' = mu \/ mu' = [mu EXCEPT ![inst[c]] = Nobody]
      BY DEF Release
    <2> QED
      BY <2>1, <2>2, <2>3 DEF SessionInv, Typed
  <1>5. Held'
    BY <1>3, <1>4 DEF SessionInv, Held
  <1> QED
    BY <1>2, <1>5 DEF SessionInv

LEMMA RefuseStep ==
    ASSUME SessionInv, NEW c \in Calls, Refuse(c)
    PROVE  SessionInv'
  <1>1. /\ pc[c] = "called" /\ pc' = [pc EXCEPT ![c] = "returned"]
        /\ UNCHANGED <<def, arg, inst, created, batch, entries, mu>>
    BY DEF Refuse, call
  <1>2. Room'
    BY <1>1, OneLess DEF SessionInv, Places
  <1>3. Typed'
    BY <1>1 DEF SessionInv, Typed, Places
  <1>4. \A d \in Calls : (Inside(d)' <=> Inside(d)) /\ (Entered(d)' <=> Entered(d))
                         /\ (pc'[d] = "locking" <=> pc[d] = "locking")
    BY <1>1 DEF SessionInv, Typed, Inside, Entered
  <1>5. Held'
    BY <1>1, <1>4 DEF SessionInv, Held
  <1> QED
    BY <1>2, <1>3, <1>5 DEF SessionInv

\* The store hands out an instance it has, or makes one.
LEMMA GetStep ==
    ASSUME SessionInv, NEW c \in Calls, GetOrCreate(c)
    PROVE  SessionInv'
  <1> DEFINE id == IF arg[c] = New THEN counter + 1 ELSE arg[c]
  <1>1. /\ pc[c] = "called" /\ pc' = [pc EXCEPT ![c] = "locking"] /\ def.multiTurn
        /\ UNCHANGED <<def, arg, batch, mu>>
    BY DEF GetOrCreate
  <1>2. \/ /\ arg[c] \in Handles /\ entries[arg[c]] # None
           /\ inst' = [inst EXCEPT ![c] = entries[arg[c]]]
           /\ UNCHANGED <<entries, created>>
        \/ /\ inst' = [inst EXCEPT ![c] = created + 1] /\ created' = created + 1
           /\ entries' = [entries EXCEPT ![id] = created + 1]
    BY DEF GetOrCreate, Existing, SessionInv, Typed
  <1> HIDE DEF id
  <1>3. Room' /\ created' \in Nat
    BY <1>1, <1>2, OneLess DEF SessionInv, Places
  <1>4. created \in Nat /\ entries \in [Handles -> 0..created]
    BY DEF SessionInv, Typed
  <1>5. entries' \in [Handles -> 0..created']
    BY <1>2, <1>4
  <1>6. /\ inst'[c] \in 1..created' /\ inst' \in [Calls -> Nat]
        /\ \A d \in Calls : d # c => inst'[d] = inst[d]
    <2>1. inst \in [Calls -> Nat]
      BY DEF SessionInv, Typed
    <2>2. arg[c] \in Handles /\ entries[arg[c]] # None => entries[arg[c]] \in 1..created
      BY <1>4 DEF None
    <2>3. created + 1 \in 1..created + 1
      BY <1>4
    <2> QED
      BY <1>2, <1>4, <2>1, <2>2, <2>3
  <1>7. Typed'
    BY <1>1, <1>3, <1>5, <1>6 DEF SessionInv, Typed, Places
  <1>8. /\ \A d \in Calls : d # c => (Inside(d)' <=> Inside(d)) /\ (Entered(d)' <=> Entered(d))
        /\ ~Inside(c)'
    BY <1>1 DEF SessionInv, Typed, Inside, Entered
  <1>9. 1..created \subseteq 1..created'
    BY <1>2, <1>4
  <1>10. Held'
    <2>1. \A d \in Calls : Entered(d)' => inst'[d] \in 1..created'
      BY <1>6, <1>8, <1>9 DEF SessionInv, Held
    <2>2. \A d \in Calls : Inside(d)' => mu'[inst'[d]] = d
      BY <1>1, <1>6, <1>8 DEF SessionInv, Held
    <2> QED
      BY <1>1, <2>1, <2>2 DEF Held
  <1> QED
    BY <1>3, <1>7, <1>10 DEF SessionInv

LEMMA NewStep ==
    ASSUME SessionInv, NEW c \in Calls, NewChild(c)
    PROVE  SessionInv'
  <1>1. /\ pc[c] = "called" /\ pc' = [pc EXCEPT ![c] = "running"] /\ ~def.multiTurn
        /\ created' = created + 1 /\ inst' = [inst EXCEPT ![c] = created + 1]
        /\ UNCHANGED <<def, arg, batch, mu, entries>>
    BY DEF NewChild
  <1>2. Room' /\ created' \in Nat
    BY <1>1, OneLess DEF SessionInv, Places
  <1>3. created \in Nat /\ inst \in [Calls -> Nat] /\ entries \in [Handles -> 0..created]
    BY DEF SessionInv, Typed
  <1>4. /\ entries' \in [Handles -> 0..created'] /\ inst' \in [Calls -> Nat]
        /\ inst'[c] = created + 1 /\ \A d \in Calls : d # c => inst'[d] = inst[d]
        /\ 1..created \subseteq 1..created' /\ created + 1 \in 1..created'
        /\ created + 1 \notin 1..created
    BY <1>1, <1>3
  <1>5. Typed'
    BY <1>1, <1>2, <1>4 DEF SessionInv, Typed, Places
  <1>6. \A d \in Calls : d # c => (Inside(d)' <=> Inside(d)) /\ (Entered(d)' <=> Entered(d))
                                  /\ (pc'[d] = "locking" <=> pc[d] = "locking")
    BY <1>1 DEF SessionInv, Typed, Inside, Entered
  <1>7. \A d \in Calls : d # c /\ Inside(d) => inst[d] \in 1..created
    BY DEF SessionInv, Held, Entered
  <1>8. \A d \in Calls : d # c /\ Inside(d)' => inst'[d] # inst'[c]
    BY <1>4, <1>6, <1>7
  <1>9. pc'[c] # "locking"
    BY <1>1 DEF SessionInv, Typed
  <1>10. Held'
    <2>1. \A d \in Calls : Entered(d)' => inst'[d] \in 1..created'
      BY <1>4, <1>6 DEF SessionInv, Held
    <2>2. \A d \in Calls : pc'[d] # "locking"
      BY <1>1, <1>6, <1>9 DEF SessionInv, Held
    <2>3. \A d, e \in Calls : d # e /\ Inside(d)' /\ Inside(e)' => inst'[d] # inst'[e]
      <3> TAKE d, e \in Calls
      <3> HAVE d # e /\ Inside(d)' /\ Inside(e)'
      <3>1. CASE d = c \/ e = c
        BY <1>8, <3>1
      <3>2. CASE d # c /\ e # c
        BY <1>1, <1>4, <1>6, <3>2 DEF SessionInv, Held
      <3> QED
        BY <3>1, <3>2
    <2> QED
      BY <1>1, <2>1, <2>2, <2>3 DEF Held
  <1> QED
    BY <1>2, <1>5, <1>10 DEF SessionInv

\* The mutex of a session's instance is free for one call.
LEMMA LockStep ==
    ASSUME SessionInv, NEW c \in Calls, LockSession(c)
    PROVE  SessionInv'
  <1>1. /\ pc[c] = "locking" /\ mu[inst[c]] = Nobody /\ mu' = [mu EXCEPT ![inst[c]] = c]
        /\ pc' = [pc EXCEPT ![c] = "running"]
        /\ UNCHANGED <<def, arg, inst, created, batch, entries>>
    BY DEF LockSession, Free, call
  <1>2. def.multiTurn /\ inst[c] \in Instances
    BY <1>1, MadeFits DEF SessionInv, Held, Entered
  <1>3. Typed' /\ Room'
    <2>1. mu' \in [Instances -> Calls \cup {Nobody}]
      BY <1>1 DEF SessionInv, Typed
    <2> QED
      BY <1>1, <2>1, Moves DEF Places
  <1>4. /\ \A d \in Calls : d # c => (Inside(d)' <=> Inside(d)) /\ (Entered(d)' <=> Entered(d))
                                     /\ (pc'[d] = "locking" <=> pc[d] = "locking")
        /\ Entered(c) /\ pc'[c] # "locking"
    BY <1>1 DEF SessionInv, Typed, Inside, Entered
  <1>5. ASSUME NEW d \in Calls, Inside(d)' PROVE mu'[inst[d]] = d
    <2>1. CASE d = c
      BY <1>1, <1>2, <2>1 DEF SessionInv, Typed
    <2>2. CASE d # c
      <3>1. mu[inst[d]] = d /\ d # Nobody
        BY <1>2, <1>4, <1>5, <2>2, SubAgentAssumption DEF SessionInv, Held
      <3>2. inst[d] # inst[c]
        BY <1>1, <3>1
      <3> QED
        BY <1>1, <3>1, <3>2 DEF SessionInv, Typed
    <2> QED
      BY <2>1, <2>2
  <1>6. Held'
    <2>1. \A d \in Calls : Entered(d)' => inst[d] \in 1..created
      BY <1>4 DEF SessionInv, Held
    <2> QED
      BY <1>1, <1>2, <1>4, <1>5, <2>1 DEF SessionInv, Held
  <1> QED
    BY <1>3, <1>6 DEF SessionInv

LEMMA CallStepKeeps ==
    ASSUME SessionInv, NEW c \in Calls, CallStep(c)
    PROVE  SessionInv'
  <1>1. CASE Refuse(c)
    BY <1>1, RefuseStep
  <1>2. CASE GetOrCreate(c)
    BY <1>2, GetStep
  <1>3. CASE NewChild(c)
    BY <1>3, NewStep
  <1>4. CASE LockSession(c)
    BY <1>4, LockStep
  <1>5. CASE StartForward(c)
    BY <1>5, StaysInside DEF StartForward, Inside, call
  <1>13. CASE Emit(c)
    BY <1>13, StaysInside DEF Emit, Working, Inside, call
  <1>6. CASE EndForward(c)
    BY <1>6, StaysInside DEF EndForward, Inside, call
  <1>7. CASE AskGate(c)
    BY <1>7, StaysInside DEF AskGate, Working, Inside, call
  <1>8. CASE GateAnswers(c)
    BY <1>8, StaysInside DEF GateAnswers, Inside, call
  <1>9. CASE RunCompletes(c)
    BY <1>9, Leaves DEF RunCompletes, Inside, call
  <1>10. CASE RunFails(c)
    BY <1>10, Leaves DEF RunFails, Working, Inside, call
  <1>11. CASE GatePanics(c)
    BY <1>11, Leaves DEF GatePanics, Inside, call
  <1>12. CASE RunPanics(c)
    BY <1>12, Leaves DEF RunPanics, Working, Inside, call
  <1> QED
    BY <1>1, <1>2, <1>3, <1>4, <1>5, <1>6, <1>7, <1>8, <1>9, <1>10, <1>11, <1>12, <1>13
       DEF CallStep

-----------------------------------------------------------------------------
(* Picking                                                                 *)

\* What is picked does not depend on the positions left out.
LEMMA PicksSame ==
    ASSUME NEW r, NEW s, NEW t, NEW at, Picks(r, s, at), \A i \in at : t[i] = s[i]
    PROVE  Picks(r, t, at)
  BY DEF Picks

\* A position behind all the others adds one element behind all the others.
LEMMA PicksNext ==
    ASSUME NEW S, NEW r \in Seq(S), NEW v, NEW s, NEW t, NEW n \in Nat, NEW at,
           at \subseteq 1..n, Picks(r, s, at), \A i \in at : t[i] = s[i], t[n + 1] = v
    PROVE  Picks(Append(r, v), t, at \cup {n + 1})
  <1>1. PICK f \in [DOMAIN r -> at] :
          /\ \A i, j \in DOMAIN r : i < j => f[i] < f[j]
          /\ \A k \in at : \E i \in DOMAIN r : f[i] = k
          /\ \A i \in DOMAIN r : r[i] = s[f[i]]
    BY DEF Picks
  <1> DEFINE m == Len(r)
             z == Append(r, v)
             g == [i \in 1..m + 1 |-> IF i = m + 1 THEN n + 1 ELSE f[i]]
  <1>2. /\ m \in Nat /\ DOMAIN r = 1..m /\ DOMAIN z = 1..m + 1
        /\ z[m + 1] = v /\ \A i \in 1..m : z[i] = r[i]
    OBVIOUS
  <1>3. /\ g[m + 1] = n + 1 /\ \A i \in 1..m : g[i] = f[i] /\ f[i] \in at /\ f[i] \in 1..n
        /\ \A i \in 1..m + 1 : i = m + 1 \/ i \in 1..m
        /\ g \in [DOMAIN z -> at \cup {n + 1}]
    <2>1. \A i \in 1..m : f[i] \in at /\ f[i] \in 1..n
      BY <1>1, <1>2
    <2>2. \A i \in 1..m + 1 : i = m + 1 \/ i \in 1..m
      BY <1>2
    <2>3. m + 1 \in 1..m + 1 /\ \A i \in 1..m : i \in 1..m + 1 /\ i # m + 1
      BY <1>2
    <2> QED
      BY <1>2, <2>1, <2>2, <2>3
  <1> HIDE DEF m, z, g
  <1>4. \A i, j \in DOMAIN z : i < j => g[i] < g[j]
    <2> TAKE i, j \in DOMAIN z
    <2> HAVE i < j
    <2>1. i \in 1..m
      BY <1>2
    <2>2. CASE j = m + 1
      BY <1>3, <2>1, <2>2
    <2>3. CASE j \in 1..m
      BY <1>1, <1>2, <1>3, <2>1, <2>3
    <2> QED
      BY <1>2, <1>3, <2>2, <2>3
  <1>5. \A k \in at \cup {n + 1} : \E i \in DOMAIN z : g[i] = k
    <2>1. m + 1 \in DOMAIN z /\ \A i \in 1..m : i \in DOMAIN z
      BY <1>2
    <2> QED
      BY <1>1, <1>2, <1>3, <2>1
  <1>6. \A i \in DOMAIN z : z[i] = t[g[i]]
    BY <1>1, <1>2, <1>3
  <1>7. Picks(z, t, at \cup {n + 1})
    BY <1>3, <1>4, <1>5, <1>6 DEF Picks
  <1> QED
    BY <1>7 DEF z

Prompting == Nat \X Calls
Turn      == [prompt : Prompting, complete : BOOLEAN]

\* One more turn of a session: answered it is remembered, cut short it is not.
LEMMA TurnAdded ==
    ASSUME NEW h \in Seq(Turn), NEW r \in Seq(Prompting), NEW v \in Prompting,
           Picks(r, Prompts(h), AnsweredTurns(h)), NEW b \in BOOLEAN,
           NEW k, k = Append(h, [prompt |-> v, complete |-> b])
    PROVE  Picks(IF b THEN Append(r, v) ELSE r, Prompts(k), AnsweredTurns(k))
  <1> DEFINE n == Len(h)
  <1>1. /\ n \in Nat /\ DOMAIN h = 1..n /\ DOMAIN k = 1..n + 1
        /\ k[n + 1].prompt = v /\ k[n + 1].complete = b /\ \A i \in 1..n : k[i] = h[i]
    OBVIOUS
  <1>2. /\ DOMAIN Prompts(h) = 1..n /\ DOMAIN Prompts(k) = 1..n + 1
        /\ Prompts(k)[n + 1] = v
        /\ \A i \in 1..n : Prompts(k)[i] = Prompts(h)[i]
    <2>1. n + 1 \in 1..n + 1 /\ \A i \in 1..n : i \in 1..n + 1
      BY <1>1
    <2> QED
      BY <1>1, <2>1 DEF Prompts
  <1> HIDE DEF n
  <1>3. /\ AnsweredTurns(h) \subseteq 1..n
        /\ AnsweredTurns(k) = IF b THEN AnsweredTurns(h) \cup {n + 1} ELSE AnsweredTurns(h)
    BY <1>1 DEF AnsweredTurns
  <1>4. CASE b
    <2>1. \A i \in AnsweredTurns(h) : Prompts(k)[i] = Prompts(h)[i]
      BY <1>2, <1>3
    <2>2. Picks(Append(r, v), Prompts(k), AnsweredTurns(h) \cup {n + 1})
      BY <1>1, <1>2, <1>3, <2>1, PicksNext
    <2> QED
      BY <1>3, <1>4, <2>2
  <1>5. CASE ~b
    BY <1>2, <1>3, <1>5, PicksSame
  <1> QED
    BY <1>4, <1>5

-----------------------------------------------------------------------------
(* What a session remembers                                                *)

\* The model supplies no handle of the store's own form before it was minted; the
\* store's next one is then always new.
NoForgery == Guesses \cap Instances = {}

\* Each entry is an instance of its own, and a call inside Execute holds one of them.
Store ==
    /\ counter \in 0..created
    /\ handle \in [Calls -> {None} \cup Handles]
    /\ ~def.multiTurn => \A g \in Handles : entries[g] = None
    /\ \A g \in Instances : g > counter => entries[g] = None
    /\ \A g, h \in Handles : entries[g] = entries[h] /\ entries[g] # None => g = h
    /\ \A c \in Calls : arg[c] \in Instances => entries[arg[c]] # None
    /\ def.multiTurn =>
         \A c \in Calls : Entered(c) => handle[c] \in Handles /\ entries[handle[c]] = inst[c]

Remembers(g) ==
    entries[g] # None =>
      Picks(told[g], Prompts(history[entries[g]]), AnsweredTurns(history[entries[g]]))

Memory ==
    /\ history \in [Instances -> Seq(Turn)] /\ told \in [Handles -> Seq(Prompting)]
    /\ \A i \in Instances : i > created => history[i] = <<>>
    /\ \A g \in Handles : entries[g] = None => told[g] = <<>>
    /\ \A g \in Handles : Remembers(g)

StoreInv == SessionInv /\ Store /\ Memory

LEMMA NothingPicked == Picks(<<>>, Prompts(<<>>), AnsweredTurns(<<>>))
  <1>1. AnsweredTurns(<<>>) = {} /\ DOMAIN <<>> = {}
    BY DEF AnsweredTurns
  <1>2. [i \in {} |-> i] \in [{} -> {}]
    OBVIOUS
  <1> QED
    BY <1>1, <1>2 DEF Picks

LEMMA Fits == SessionInv => 1..created \subseteq Instances
  BY MadeFits DEF SessionInv

LEMMA FitsNext == SessionInv' => (1..created \subseteq Instances)'
  BY Fits, PTL

LEMMA InitStore == Init => StoreInv
  <1> SUFFICES ASSUME Init PROVE StoreInv
    OBVIOUS
  <1>1. SessionInv
    BY InitHolds
  <1>2. 0 \notin Instances
    BY DEF Instances
  <1>3. Store
    BY <1>2, SubAgentAssumption DEF Init, Store, Entered, Inside, New, None, Handles
  <1>4. Memory
    BY DEF Init, Memory, Remembers
  <1> QED
    BY <1>1, <1>3, <1>4 DEF StoreInv

\* A step that leaves the store and every conversation alone.
LEMMA Rests ==
    ASSUME StoreInv, SessionInv', UNCHANGED <<def, counter, entries, created, history, told>>,
           handle' \in [Calls -> {None} \cup Handles],
           \A c \in Calls : arg'[c] \in Instances => entries[arg'[c]] # None,
           \A c \in Calls : Entered(c)' =>
             Entered(c) /\ handle'[c] = handle[c] /\ inst'[c] = inst[c]
    PROVE  StoreInv'
  <1>1. Store'
    BY DEF StoreInv, Store
  <1>2. Memory'
    BY DEF StoreInv, Memory, Remembers
  <1> QED
    BY <1>1, <1>2 DEF StoreInv

\* A call moves on with what it has.
LEMMA RestsOn ==
    ASSUME StoreInv, SessionInv', UNCHANGED <<def, counter, entries, created, history, told, call>>,
           NEW c \in Calls, NEW p \in Places, pc' = [pc EXCEPT ![c] = p],
           Entered(c) \/ p = "returned"
    PROVE  StoreInv'
  <1>1. \A d \in Calls : Entered(d)' => Entered(d)
    BY DEF StoreInv, SessionInv, Typed, Entered, Inside
  <1> QED
    BY <1>1, Rests DEF StoreInv, Store, call

LEMMA StartRests ==
    ASSUME NoForgery, StoreInv, SessionInv', StartBatch
    PROVE  StoreInv'
  <1>1. PICK ids \in [Calls -> IF def.multiTurn THEN {New} \cup Known \cup Guesses ELSE {New}] :
          arg' = ids
    BY DEF StartBatch
  <1>2. /\ UNCHANGED <<def, counter, entries, created, history, told, handle, inst>>
        /\ pc' = [c \in Calls |-> "called"]
    BY DEF StartBatch
  <1>3. New \notin Instances
    BY DEF Instances, New
  <1>4. \A g \in Known : entries[g] # None
    BY DEF Known, StoreInv, Memory
  <1>5. \A c \in Calls : arg'[c] \in Instances => entries[arg'[c]] # None
    BY <1>1, <1>3, <1>4 DEF NoForgery
  <1>6. \A c \in Calls : ~Entered(c)'
    BY <1>2 DEF Entered, Inside
  <1> QED
    BY <1>2, <1>5, <1>6, Rests DEF StoreInv, Store

LEMMA EndRests ==
    ASSUME StoreInv, SessionInv', EndBatch
    PROVE  StoreInv'
  <1>1. /\ UNCHANGED <<def, counter, entries, created, history, told>>
        /\ pc' = [c \in Calls |-> "idle"] /\ arg' = [c \in Calls |-> New]
        /\ handle' = [c \in Calls |-> None]
    BY DEF EndBatch
  <1>2. New \notin Instances
    BY DEF Instances, New
  <1>3. \A c \in Calls : ~Entered(c)'
    BY <1>1 DEF Entered, Inside
  <1> QED
    BY <1>1, <1>2, <1>3, Rests

\* The store makes an instance under a handle that has none.
LEMMA MakesEntry ==
    ASSUME StoreInv, SessionInv', NEW c \in Calls, NEW g \in Handles,
           def.multiTurn, pc[c] = "called", pc' = [pc EXCEPT ![c] = "locking"],
           entries[g] = None, created' = created + 1,
           entries' = [entries EXCEPT ![g] = created + 1],
           inst' = [inst EXCEPT ![c] = created + 1], handle' = [handle EXCEPT ![c] = g],
           counter' \in counter..counter + 1, g \in Instances => g <= counter',
           UNCHANGED <<def, arg, history, told>>
    PROVE  StoreInv'
  <1>1. /\ created \in Nat /\ entries \in [Handles -> 0..created] /\ counter \in 0..created
        /\ inst \in [Calls -> Nat] /\ handle \in [Calls -> {None} \cup Handles]
        /\ pc \in [Calls -> Places]
    BY DEF StoreInv, SessionInv, Typed, Store
  <1>2. /\ entries'[g] = created + 1 /\ \A h \in Handles : h # g => entries'[h] = entries[h]
        /\ \A h \in Handles : entries[h] \in 0..created /\ entries[h] # created + 1
        /\ created + 1 # None
    BY <1>1 DEF None
  <1>3. /\ inst'[c] = created + 1 /\ handle'[c] = g
        /\ \A d \in Calls : d # c => /\ inst'[d] = inst[d] /\ handle'[d] = handle[d]
                                     /\ Entered(d)' <=> Entered(d)
    BY <1>1 DEF Entered, Inside
  <1>4. created + 1 \in Instances
    <2>1. 1..created' \subseteq Instances
      BY FitsNext
    <2> QED
      BY <1>1, <2>1
  <1>5. Store'
    <2>1. counter' \in 0..created'
      BY <1>1
    <2>2. handle' \in [Calls -> {None} \cup Handles]
      BY <1>1
    <2>3. \A h \in Instances : h > counter' => entries'[h] = None
      <3> TAKE h \in Instances
      <3> HAVE h > counter'
      <3>1. h # g /\ h > counter /\ h \in Handles
        BY <1>1, MadeFits DEF Instances, Handles
      <3> QED
        BY <1>2, <3>1 DEF StoreInv, Store
    <2>4. \A h, k \in Handles : entries'[h] = entries'[k] /\ entries'[h] # None => h = k
      <3> TAKE h, k \in Handles
      <3> HAVE entries'[h] = entries'[k] /\ entries'[h] # None
      <3>1. CASE h = g \/ k = g
        BY <1>2, <3>1
      <3>2. CASE h # g /\ k # g
        BY <1>2, <3>2 DEF StoreInv, Store
      <3> QED
        BY <3>1, <3>2
    <2>5. \A d \in Calls : arg'[d] \in Instances => entries'[arg'[d]] # None
      <3> TAKE d \in Calls
      <3> HAVE arg'[d] \in Instances
      <3>1. arg[d] \in Handles /\ entries[arg[d]] # None /\ arg'[d] = arg[d]
        BY DEF StoreInv, Store, Handles
      <3> QED
        BY <1>2, <3>1
    <2>6. \A d \in Calls : Entered(d)' => handle'[d] \in Handles /\ entries'[handle'[d]] = inst'[d]
      <3> TAKE d \in Calls
      <3> HAVE Entered(d)'
      <3>1. CASE d = c
        BY <1>2, <1>3, <3>1
      <3>2. CASE d # c
        <4>1. Entered(d) /\ handle[d] \in Handles /\ entries[handle[d]] = inst[d]
          BY <1>3, <3>2 DEF StoreInv, Store
        <4>2. inst[d] # None
          BY <4>1, <1>1 DEF StoreInv, SessionInv, Held, None
        <4> QED
          BY <1>2, <1>3, <3>2, <4>1, <4>2
      <3> QED
        BY <3>1, <3>2
    <2> QED
      BY <2>1, <2>2, <2>3, <2>4, <2>5, <2>6 DEF Store
  <1>6. Memory'
    <2>1. history[created + 1] = <<>> /\ told[g] = <<>>
      BY <1>1, <1>4 DEF StoreInv, Memory
    <2>2. Remembers(g)'
      BY <1>2, <2>1, NothingPicked DEF Remembers
    <2>3. \A h \in Handles : h # g => Remembers(h)'
      BY <1>2 DEF StoreInv, Memory, Remembers
    <2>4. \A i \in Instances : i > created' => i > created
      BY <1>1, MadeFits DEF Instances
    <2> QED
      BY <1>2, <2>2, <2>3, <2>4 DEF StoreInv, Memory
  <1> QED
    BY <1>5, <1>6 DEF StoreInv

LEMMA GetRests ==
    ASSUME NoForgery, StoreInv, SessionInv', NEW c \in Calls, GetOrCreate(c)
    PROVE  StoreInv'
  <1> DEFINE id == IF arg[c] = New THEN counter + 1 ELSE arg[c]
  <1>1. /\ pc[c] = "called" /\ def.multiTurn /\ pc' = [pc EXCEPT ![c] = "locking"]
        /\ handle' = [handle EXCEPT ![c] = id]
        /\ counter' = (IF arg[c] = New THEN counter + 1 ELSE counter)
        /\ UNCHANGED <<def, arg, history, told>>
    BY DEF GetOrCreate
  <1>2. CASE Existing(c)
    <2>1. /\ inst' = [inst EXCEPT ![c] = entries[arg[c]]] /\ UNCHANGED <<entries, created>>
          /\ arg[c] \in Handles /\ entries[arg[c]] # None /\ id = arg[c] /\ counter' = counter
      BY <1>1, <1>2 DEF GetOrCreate, Existing, StoreInv, SessionInv, Typed
    <2> HIDE DEF id
    <2>2. \A d \in Calls : d # c => /\ inst'[d] = inst[d] /\ handle'[d] = handle[d]
                                    /\ Entered(d)' <=> Entered(d)
      BY <1>1, <2>1 DEF StoreInv, Store, SessionInv, Typed, Entered, Inside
    <2>3. /\ handle'[c] = arg[c] /\ inst'[c] = entries[arg[c]]
          /\ handle' \in [Calls -> {None} \cup Handles]
      BY <1>1, <2>1 DEF StoreInv, Store, SessionInv, Typed
    <2>4. Store'
      BY <1>1, <2>1, <2>2, <2>3 DEF StoreInv, Store
    <2>5. Memory'
      BY <1>1, <2>1 DEF StoreInv, Memory, Remembers
    <2> QED
      BY <2>4, <2>5 DEF StoreInv
  <1>3. CASE ~Existing(c)
    <2>1. /\ inst' = [inst EXCEPT ![c] = created + 1] /\ created' = created + 1
          /\ entries' = [entries EXCEPT ![id] = created + 1]
      BY <1>3 DEF GetOrCreate
    <2>2. counter \in 0..created /\ created \in Nat /\ arg[c] \in {New} \cup Handles
      BY DEF StoreInv, Store, SessionInv, Typed
    <2>3. 1..created + 1 \subseteq Instances
      BY <2>1, FitsNext
    <2>4. CASE arg[c] = New
      <3>1. /\ id = counter + 1 /\ id \in Instances /\ counter' \in counter..counter + 1
            /\ id \in Instances => id <= counter'
        BY <1>1, <2>2, <2>3, <2>4
      <3>2. entries[id] = None /\ id \in Handles
        BY <3>1, <2>2 DEF StoreInv, Store, Handles
      <3> HIDE DEF id
      <3> QED
        BY <1>1, <2>1, <2>2, <3>1, <3>2, MakesEntry
    <2>5. CASE arg[c] # New
      <3>1. /\ id = arg[c] /\ entries[id] = None /\ id \in Handles
            /\ counter' \in counter..counter + 1
        BY <1>1, <1>3, <2>2, <2>5 DEF Existing
      <3>2. id \notin Instances
        BY <3>1 DEF StoreInv, Store
      <3> HIDE DEF id
      <3> QED
        BY <1>1, <2>1, <2>2, <3>1, <3>2, MakesEntry
    <2> QED
      BY <2>4, <2>5
  <1> QED
    BY <1>2, <1>3

\* A one-shot sub-agent is in no entry.
LEMMA NewRests ==
    ASSUME StoreInv, SessionInv', NEW c \in Calls, NewChild(c)
    PROVE  StoreInv'
  <1>1. /\ ~def.multiTurn /\ created' = created + 1
        /\ UNCHANGED <<def, counter, entries, history, told, handle, arg>>
    BY DEF NewChild
  <1>2. created \in Nat /\ counter \in 0..created
    BY DEF StoreInv, Store, SessionInv, Typed
  <1>3. Store'
    BY <1>1, <1>2 DEF StoreInv, Store
  <1>4. \A i \in Instances : i > created' => i > created
    BY <1>1, <1>2 DEF Instances
  <1>5. Memory'
    BY <1>1, <1>4 DEF StoreInv, Memory, Remembers
  <1> QED
    BY <1>3, <1>5 DEF StoreInv

\* A Run of the child ends: its conversation has one turn more, answered and told to
\* the parent or cut short and not told, or none.
LEMMA TurnRests ==
    ASSUME StoreInv, SessionInv', NEW c \in Calls, Inside(c), NEW b \in BOOLEAN,
           pc' = [pc EXCEPT ![c] = "returned"],
           UNCHANGED <<def, counter, entries, created, call>>,
           history' = [history EXCEPT ![inst[c]] = Append(@, [prompt |-> Prompt(c), complete |-> b])],
           told' = IF b /\ def.multiTurn THEN [told EXCEPT ![handle[c]] = Append(@, Prompt(c))]
                                         ELSE told
    PROVE  StoreInv'
  <1> DEFINE i == inst[c]
             turn == [prompt |-> Prompt(c), complete |-> b]
  <1>1. /\ created \in Nat /\ entries \in [Handles -> 0..created] /\ counter \in 0..created
        /\ history \in [Instances -> Seq(Turn)] /\ told \in [Handles -> Seq(Prompting)]
    BY DEF StoreInv, SessionInv, Typed, Store, Memory
  <1>2. i \in 1..created /\ i \in Instances
    BY MadeFits DEF StoreInv, SessionInv, Held, Entered
  <1>3. Prompt(c) \in Prompting /\ turn \in Turn
    BY DEF StoreInv, SessionInv, Typed, Prompt, Prompting, Turn
  <1> HIDE DEF i, turn
  <1>4. /\ history' = [history EXCEPT ![i] = Append(@, turn)]
        /\ history' \in [Instances -> Seq(Turn)] /\ history'[i] = Append(history[i], turn)
        /\ \A j \in Instances : j # i => history'[j] = history[j]
    <2>1. history' = [history EXCEPT ![i] = Append(@, turn)]
      BY DEF i, turn
    <2>2. history[i] \in Seq(Turn) /\ Append(history[i], turn) \in Seq(Turn)
      BY <1>1, <1>2, <1>3
    <2> QED
      BY <1>1, <1>2, <2>1, <2>2
  <1>5. Store'
    <2>1. \A d \in Calls : Entered(d)' => Entered(d)
      BY DEF StoreInv, SessionInv, Typed, Entered, Inside
    <2> QED
      BY <2>1 DEF StoreInv, Store, call
  <1>6. \A j \in Instances : j > created' => history'[j] = <<>>
    BY <1>1, <1>2, <1>4 DEF StoreInv, Memory
  <1>7. CASE ~def.multiTurn
    BY <1>4, <1>5, <1>6, <1>7 DEF StoreInv, Store, Memory, Remembers
  <1>8. CASE def.multiTurn
    <2>1. PICK g \in Handles : g = handle[c] /\ entries[g] = i /\ i # None
      BY <1>1, <1>2, <1>8 DEF StoreInv, Store, Entered, i, None
    <2>2. told' = IF b THEN [told EXCEPT ![g] = Append(@, Prompt(c))] ELSE told
      BY <1>8, <2>1
    <2>3. /\ told' \in [Handles -> Seq(Prompting)]
          /\ told'[g] = IF b THEN Append(told[g], Prompt(c)) ELSE told[g]
          /\ \A h \in Handles : h # g => told'[h] = told[h]
      <3>1. told[g] \in Seq(Prompting) /\ Append(told[g], Prompt(c)) \in Seq(Prompting)
        BY <1>1, <1>3, <2>1
      <3> QED
        BY <1>1, <2>1, <2>2, <3>1
    <2>4. Remembers(g)'
      <3>1. Picks(told[g], Prompts(history[i]), AnsweredTurns(history[i]))
        BY <2>1 DEF StoreInv, Memory, Remembers
      <3>2. history[i] \in Seq(Turn) /\ told[g] \in Seq(Prompting)
        BY <1>1, <1>2, <2>1
      <3>3. history'[i] = Append(history[i], [prompt |-> Prompt(c), complete |-> b])
        BY <1>4 DEF turn
      <3>4. Picks(IF b THEN Append(told[g], Prompt(c)) ELSE told[g],
                  Prompts(history'[i]), AnsweredTurns(history'[i]))
        BY <1>3, <3>1, <3>2, <3>3, TurnAdded
      <3> QED
        BY <2>1, <2>3, <3>4 DEF Remembers
    <2>5. \A h \in Handles : h # g => Remembers(h)'
      <3> TAKE h \in Handles
      <3> HAVE h # g
      <3>1. CASE entries[h] = None
        BY <3>1 DEF Remembers
      <3>2. CASE entries[h] # None
        <4>1. entries[h] # i /\ entries[h] \in 1..created
          BY <1>1, <2>1, <3>2 DEF StoreInv, Store, None
        <4>2. entries[h] \in Instances
          BY <4>1, MadeFits DEF StoreInv, SessionInv
        <4> QED
          BY <1>4, <2>3, <4>1, <4>2 DEF StoreInv, Memory, Remembers
      <3> QED
        BY <3>1, <3>2
    <2>6. \A h \in Handles : entries'[h] = None => told'[h] = <<>>
      BY <2>1, <2>3 DEF StoreInv, Memory
    <2> QED
      BY <1>4, <1>5, <1>6, <2>3, <2>4, <2>5, <2>6 DEF StoreInv, Memory
  <1> QED
    BY <1>7, <1>8

\* A Run that fails or panics leaves a turn cut short, or nothing.
LEMMA PartRests ==
    ASSUME StoreInv, SessionInv', NEW c \in Calls, Inside(c), MayLeavePartialTurn(c),
           pc' = [pc EXCEPT ![c] = "returned"],
           UNCHANGED <<def, counter, entries, created, call, told>>
    PROVE  StoreInv'
  <1>1. CASE history' = history
    BY <1>1, RestsOn DEF Places
  <1>2. CASE history' = [history EXCEPT ![inst[c]] =
                           Append(@, [prompt |-> Prompt(c), complete |-> FALSE])]
    BY <1>2, TurnRests
  <1> QED
    BY <1>1, <1>2 DEF MayLeavePartialTurn

LEMMA CallStepRests ==
    ASSUME NoForgery, StoreInv, SessionInv', NEW c \in Calls, CallStep(c)
    PROVE  StoreInv'
  <1>1. CASE Refuse(c)
    BY <1>1, RestsOn DEF Refuse, call, Places
  <1>2. CASE GetOrCreate(c)
    BY <1>2, GetRests
  <1>3. CASE NewChild(c)
    BY <1>3, NewRests
  <1>4. CASE LockSession(c)
    BY <1>4, RestsOn DEF LockSession, Entered, call, Places
  <1>5. CASE StartForward(c)
    BY <1>5, RestsOn DEF StartForward, Entered, Inside, call, Places
  <1>13. CASE Emit(c)
    BY <1>13, RestsOn DEF Emit, Working, Entered, Inside, call, Places
  <1>6. CASE EndForward(c)
    BY <1>6, RestsOn DEF EndForward, Entered, Inside, call, Places
  <1>7. CASE AskGate(c)
    BY <1>7, RestsOn DEF AskGate, Working, Entered, Inside, call, Places
  <1>8. CASE GateAnswers(c)
    BY <1>8, RestsOn DEF GateAnswers, Entered, Inside, call, Places
  <1>9. CASE RunCompletes(c)
    BY <1>9, TurnRests DEF RunCompletes, Inside
  <1>10. CASE RunFails(c)
    BY <1>10, PartRests DEF RunFails, Working, Inside
  <1>11. CASE GatePanics(c)
    BY <1>11, RestsOn DEF GatePanics, Entered, Inside, call, Places
  <1>12. CASE RunPanics(c)
    BY <1>12, PartRests DEF RunPanics, Working, Inside
  <1> QED
    BY <1>1, <1>2, <1>3, <1>4, <1>5, <1>6, <1>7, <1>8, <1>9, <1>10, <1>11, <1>12, <1>13
       DEF CallStep

-----------------------------------------------------------------------------
(* Theorems                                                                *)

\* The mutexes and the instances are held as the invariant says.
THEOREM SessionInvariance == Spec => []SessionInv
  <1>1. SessionInv /\ [Next]_vars => SessionInv'
    <2> SUFFICES ASSUME SessionInv, [Next]_vars PROVE SessionInv'
      OBVIOUS
    <2>1. CASE UNCHANGED vars
      <3>1. UNCHANGED <<def, pc, arg, inst, created, batch, entries, mu>>
        BY <2>1 DEF vars
      <3> QED
        BY <3>1 DEF SessionInv, Typed, Room, Waiting, Held, Entered, Inside
    <2> QED
      BY <2>1, StartStep, EndStep, CallStepKeeps DEF Next
  <1> QED
    BY InitHolds, <1>1, PTL DEF Spec

\* No instance is ever run by two calls at once, though the model may resume one
\* session twice in a batch, with any handle (subagent.go:129-134, 316-318).
THEOREM Exclusion == Spec => []SessionExclusive
  <1>1. SessionInv => SessionExclusive
    BY DEF SessionInv, Held, SessionExclusive
  <1> QED
    BY <1>1, SessionInvariance, PTL

\* Handles and instances stay one to one, and every session holds what was answered
\* under its handle, when no handle is guessed before the store minted it.
THEOREM StoreInvariance == NoForgery => (Spec => []StoreInv)
  <1> SUFFICES ASSUME NoForgery PROVE Spec => []StoreInv
    OBVIOUS
  <1>1. StoreInv /\ SessionInv' /\ [Next]_vars => StoreInv'
    <2> SUFFICES ASSUME StoreInv, SessionInv', [Next]_vars PROVE StoreInv'
      OBVIOUS
    <2>1. CASE UNCHANGED vars
      BY <2>1, Rests DEF vars, StoreInv, Store, Entered, Inside
    <2> QED
      BY <2>1, StartRests, EndRests, CallStepRests DEF Next
  <1> QED
    BY InitStore, SessionInvariance, <1>1, PTL DEF Spec

\* A handle the parent was given names the instance that answered under it, which has
\* every answered prompt in its history in order, through failed and panicked Runs and
\* calls that contend for it (S2.11, s2-functionality.md:417-420), when no handle was
\* guessed before it was minted (subagent.go:151-161).
THEOREM Remembering == NoForgery => (Spec => []SessionsRemember)
  <1>1. StoreInv => SessionsRemember
    BY DEF StoreInv, Memory, Remembers, SessionsRemember, Known
  <1> QED
    BY <1>1, StoreInvariance, PTL
=============================================================================
