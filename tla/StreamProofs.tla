---------------------------- MODULE StreamProofs ----------------------------
(***************************************************************************)
(* Proofs about Stream, for any number of children, definitions and        *)
(* batches, whatever is streamed: the host's handler is entered by one     *)
(* producer at a time, and no Run leaves its body open or the mutex held.  *)
(*                                                                         *)
(* The Run of the parent takes no lock.  That it is alone in its handler   *)
(* rests on the phases: children exist only while the parent waits for     *)
(* them.                                                                   *)
(*                                                                         *)
(* What is told follows in a second invariant: at each position of a       *)
(* producer, what was read, accumulated, observed and heard.  From it, the *)
(* host hears whole answers and a sub-agent returns its last one.          *)
(***************************************************************************)
EXTENDS Stream, TLAPS

Streaming == {"reading", "observer", "locking", "handler", "answered"}
Positions == Streaming \cup {"idle", "head", "tools", "ended"}

Types ==
    /\ pc \in [Producers -> Positions]
    /\ open \subseteq Producers
    /\ streamMu \in Children \cup {Nobody}

\* The holder of the mutex is the child inside the handler.
Locks == \A c \in Children : pc[c] = "handler" <=> streamMu = c

Opens == \A p \in open : pc[p] \in Streaming

\* Children run only while the parent waits for its tools.
Phases == pc[Top] # "tools" => \A c \in Children : pc[c] = "idle"

StreamInv == Types /\ Locks /\ Opens /\ Phases

LEMMA Actors ==
    /\ Top \in Producers /\ Top \notin Children /\ Nobody \notin Children
    /\ Producers = Children \cup {Top} /\ Nobody # Top
  BY StreamAssumption DEF Producers, Top, Nobody

LEMMA InitStreamInv == Init => StreamInv
  BY Actors DEF Init, StreamInv, Types, Positions, Streaming, Locks, Opens, Phases

-----------------------------------------------------------------------------
(* The steps of a producer                                                 *)

\* A live producer goes on elsewhere, without the mutex or still with it.
LEMMA GoToInv ==
    ASSUME StreamInv, NEW p \in Producers, NEW w \in Positions, GoTo(p, w),
           pc[p] \notin {"idle", "tools"}, w \notin {"idle", "tools"},
           streamMu' \in Children \cup {Nobody},
           \A c \in Children \ {p} : (streamMu' = c) <=> (streamMu = c),
           p \in Children => (streamMu' = p <=> w = "handler"),
           open' \subseteq open \cup {p},
           p \in open' => w \in Streaming
    PROVE  StreamInv'
  <1> USE DEF StreamInv
  <1>1. /\ pc' \in [Producers -> Positions] /\ pc'[p] = w
        /\ \A q \in Producers \ {p} : pc'[q] = pc[q]
    BY DEF GoTo, Types
  <1>2. Types'
    BY <1>1 DEF Types
  <1>3. Locks'
    BY <1>1, Actors DEF Locks
  <1>4. Opens'
    BY <1>1 DEF Opens, Types
  <1>5. Phases'
    <2>1. p \in Children => pc[Top] = "tools"
      BY DEF Phases
    <2>2. CASE p = Top
      BY <1>1, <2>2, Actors DEF Phases
    <2>3. CASE p \in Children
      BY <1>1, <2>1, <2>3, Actors DEF Phases
    <2> QED
      BY <2>2, <2>3, Actors
  <1> QED
    BY <1>2, <1>3, <1>4, <1>5

\* A Run that fails gives back what it holds.
LEMMA FailRunInv ==
    ASSUME StreamInv, NEW p \in Producers, FailRun(p), pc[p] \notin {"idle", "tools"}
    PROVE  StreamInv'
  <1>1. /\ GoTo(p, "ended") /\ open' = open \ {p}
        /\ streamMu' = IF streamMu = p THEN Nobody ELSE streamMu
    BY DEF FailRun, Close, Unlock
  <1> QED
    BY <1>1, GoToInv, Actors DEF StreamInv, Types, Positions, Streaming

\* An event goes to the first handler that takes time, or is taken at once.
LEMMA DeliverInv ==
    ASSUME StreamInv, NEW p \in Producers, NEW e, Deliver(p, e), pc[p] = "reading",
           UNCHANGED <<open, streamMu>>
    PROVE  StreamInv'
  <1>1. PICK w \in {"handler", "observer", "locking", "reading", "answered"} :
          GoTo(p, w) /\ (p \in Children => w # "handler")
    BY Actors DEF Deliver, AfterObserver, AfterEvent
  <1>2. p \in Children => streamMu # p
    BY DEF StreamInv, Locks
  <1> QED
    BY <1>1, <1>2, GoToInv, Actors DEF StreamInv, Types, Positions, Streaming

LEMMA ProducerStepInv ==
    ASSUME StreamInv, NEW p \in Producers, Step(p) PROVE StreamInv'
  <1> USE DEF StreamInv
  \* Outside its handler a child does not hold the mutex.
  <1>1. p \in Children /\ pc[p] # "handler" => streamMu # p
    BY DEF Locks
  <1>2. CASE OpenStream(p)
    BY <1>1, <1>2, GoToInv, Actors DEF OpenStream, Types, Positions, Streaming
  <1>3. CASE CompleteFails(p)
    BY <1>3, FailRunInv DEF CompleteFails
  <1>4. ASSUME NEW kind \in Kinds, Read(p, kind) PROVE StreamInv'
    <2>1. CASE Surfaced(kind)
      BY <1>4, <2>1, DeliverInv DEF Read
    <2>2. CASE ~Surfaced(kind)
      BY <1>4, <2>2 DEF Read, Types, Locks, Opens, Phases
    <2> QED
      BY <2>1, <2>2
  <1>5. CASE EndOfStream(p)
    BY <1>5, DeliverInv DEF EndOfStream
  <1>6. CASE StreamFails(p)
    BY <1>6, FailRunInv DEF StreamFails
  <1>7. CASE ObserverReturns(p)
    <2>1. PICK w \in {"locking", "reading", "answered"} : GoTo(p, w)
      BY <1>7 DEF ObserverReturns, AfterObserver, AfterEvent
    <2>2. pc[p] = "observer" /\ UNCHANGED <<open, streamMu>>
      BY <1>7 DEF ObserverReturns
    <2> QED
      BY <1>1, <2>1, <2>2, GoToInv, Actors DEF Types, Positions, Streaming
  <1>8. CASE HandlerReturns(p)
    <2>1. PICK w \in {"reading", "answered"} : GoTo(p, w)
      BY <1>8 DEF HandlerReturns, AfterEvent
    <2>2. /\ pc[p] = "handler" /\ open' = open
          /\ streamMu' = IF streamMu = p THEN Nobody ELSE streamMu
      BY <1>8 DEF HandlerReturns, Unlock
    <2> QED
      BY <2>1, <2>2, GoToInv, Actors DEF Types, Positions, Streaming
  <1>9. CASE HandlerPanics(p)
    BY <1>9, FailRunInv DEF HandlerPanics
  <1>10. CASE EndRun(p)
    BY <1>1, <1>10, GoToInv, Actors DEF EndRun, Answered, Close, Types, Positions, Streaming
  <1>11. CASE NextAnswer(p)
    BY <1>1, <1>11, GoToInv, Actors DEF NextAnswer, Answered, Close, Types, Positions, Streaming
  <1> QED
    BY <1>2, <1>3, <1>4, <1>5, <1>6, <1>7, <1>8, <1>9, <1>10, <1>11 DEF Step

-----------------------------------------------------------------------------
(* The mutex, the batches                                                  *)

LEMMA LockStreamInv ==
    ASSUME StreamInv, NEW c \in Children, LockStream(c) PROVE StreamInv'
  <1>1. /\ pc[c] = "locking" /\ streamMu = Nobody /\ streamMu' = c /\ GoTo(c, "handler")
        /\ open' = open
    BY DEF LockStream, StreamFree
  <1> QED
    BY <1>1, GoToInv, Actors DEF StreamInv, Types, Positions, Streaming

LEMMA StartBatchInv == StreamInv /\ StartBatch => StreamInv'
  <1> SUFFICES ASSUME StreamInv, StartBatch PROVE StreamInv'
    OBVIOUS
  <1> USE DEF StreamInv
  <1>1. pc[Top] = "answered" /\ open' = open \ {Top} /\ streamMu' = streamMu
    BY DEF StartBatch, Answered, Close
  <1>2. PICK called : pc' = [p \in Producers |-> IF p = Top THEN "tools"
                                    ELSE IF p \in called THEN "head" ELSE pc[p]]
    BY DEF StartBatch
  <1>3. \A c \in Children : pc[c] = "idle"
    BY <1>1 DEF Phases
  <1>4. /\ pc' \in [Producers -> Positions] /\ pc'[Top] = "tools"
        /\ \A c \in Children : pc'[c] \in {"head", "idle"}
    BY <1>2, <1>3, Actors DEF Types, Positions
  <1>5. open = {} \/ open = {Top}
    BY <1>3, Actors DEF Opens, Types, Streaming
  <1> QED
    BY <1>1, <1>3, <1>4, <1>5, Actors DEF Types, Locks, Opens, Phases, Streaming

LEMMA EndBatchInv == StreamInv /\ EndBatch => StreamInv'
  <1> SUFFICES ASSUME StreamInv, EndBatch PROVE StreamInv'
    OBVIOUS
  <1> USE DEF StreamInv
  <1>1. /\ pc[Top] = "tools" /\ UNCHANGED <<open, streamMu>>
        /\ \A c \in Children : pc[c] \in {"idle", "ended"}
    BY DEF EndBatch, AllEnded
  <1>2. /\ pc' \in [Producers -> Positions]
        /\ \A c \in Children : pc'[c] = "idle"
    BY <1>1, Actors DEF EndBatch, Types, Positions
  <1>3. open = {}
    BY <1>1, Actors DEF Opens, Types, Streaming
  <1> QED
    BY <1>1, <1>2, <1>3, Actors DEF Types, Locks, Opens, Phases

-----------------------------------------------------------------------------
(* Picking                                                                 *)

\* What is picked does not depend on the positions left out.
LEMMA PicksSame ==
    ASSUME NEW r, NEW s, NEW t, NEW at, Picks(r, s, at), \A i \in at : t[i] = s[i]
    PROVE  Picks(r, t, at)
  BY DEF Picks

\* A position behind all the others adds one element behind all the others.
LEMMA PicksNext ==
    ASSUME NEW S, NEW r \in Seq(S), NEW v, NEW s, NEW t, NEW n \in Nat, NEW at,
           at \subseteq 1..n, Picks(r, s, at), \A i \in at : t[i] = s[i], t[n + 1] = v
    PROVE  Picks(Append(r, v), t, at \cup {n + 1})
  <1>1. PICK f \in [DOMAIN r -> at] :
          /\ \A i, j \in DOMAIN r : i < j => f[i] < f[j]
          /\ \A k \in at : \E i \in DOMAIN r : f[i] = k
          /\ \A i \in DOMAIN r : r[i] = s[f[i]]
    BY DEF Picks
  <1> DEFINE m == Len(r)
             z == Append(r, v)
             g == [i \in 1..m + 1 |-> IF i = m + 1 THEN n + 1 ELSE f[i]]
  <1>2. /\ m \in Nat /\ DOMAIN r = 1..m /\ DOMAIN z = 1..m + 1
        /\ z[m + 1] = v /\ \A i \in 1..m : z[i] = r[i]
    OBVIOUS
  <1>3. /\ g[m + 1] = n + 1 /\ \A i \in 1..m : g[i] = f[i] /\ f[i] \in at /\ f[i] \in 1..n
        /\ \A i \in 1..m + 1 : i = m + 1 \/ i \in 1..m
        /\ g \in [DOMAIN z -> at \cup {n + 1}]
    <2>1. \A i \in 1..m : f[i] \in at /\ f[i] \in 1..n
      BY <1>1, <1>2
    <2>2. \A i \in 1..m + 1 : i = m + 1 \/ i \in 1..m
      BY <1>2
    <2>3. m + 1 \in 1..m + 1 /\ \A i \in 1..m : i \in 1..m + 1 /\ i # m + 1
      BY <1>2
    <2> QED
      BY <1>2, <2>1, <2>2, <2>3
  <1> HIDE DEF m, z, g
  <1>4. \A i, j \in DOMAIN z : i < j => g[i] < g[j]
    <2> TAKE i, j \in DOMAIN z
    <2> HAVE i < j
    <2>1. i \in 1..m
      BY <1>2
    <2>2. CASE j = m + 1
      BY <1>3, <2>1, <2>2
    <2>3. CASE j \in 1..m
      BY <1>1, <1>2, <1>3, <2>1, <2>3
    <2> QED
      BY <1>2, <1>3, <2>2, <2>3
  <1>5. \A k \in at \cup {n + 1} : \E i \in DOMAIN z : g[i] = k
    <2>1. m + 1 \in DOMAIN z /\ \A i \in 1..m : i \in DOMAIN z
      BY <1>2
    <2> QED
      BY <1>1, <1>2, <1>3, <2>1
  <1>6. \A i \in DOMAIN z : z[i] = t[g[i]]
    BY <1>1, <1>2, <1>3
  <1>7. Picks(z, t, at \cup {n + 1})
    BY <1>3, <1>4, <1>5, <1>6 DEF Picks
  <1> QED
    BY <1>7 DEF z

-----------------------------------------------------------------------------
(* What is heard, observed and returned                                    *)

Tokens == Producers \X Nat \X (Kinds \cup {Done})

Contents ==
    /\ event \in [Producers -> Tokens \cup {NoEvent}]
    /\ surfaced \in [Producers -> Seq(Tokens)] /\ answers \in [Producers -> Nat]
    /\ cur \in [Children -> Seq(Tokens)] /\ final \in [Children -> Seq(Tokens)]
    /\ result \in [Children -> Seq(Tokens) \cup {Failure, NoResult}]
    /\ heard \in [Tags -> Seq(Tokens)] /\ observed \in [Defs -> Seq(Tokens)]

\* Where an event is on its way through the handlers, and who they are.
Busy       == {"observer", "locking", "handler"}
Hearing(p) == p = Top \/ Forwards(p)
Closing(p) == pc[p] \in Busy /\ Kind(event[p]) = Done

OnItsWay(p) ==
    /\ pc[p] \in {"locking", "handler"} => Hearing(p)
    /\ pc[p] = "observer" => HasObserver(p)
    /\ pc[p] \in Busy => event[p] \in Tokens

\* The host, or an Observer, may have heard a part of what p streams.
Speaking(p) == pc[p] = "reading" \/ pc[p] \in Busy
Showing(p)  == pc[p] \in {"reading", "observer"} \/ (pc[p] \in Busy /\ ~Closing(p))

\* What is heard under a tag is a part of a stream in progress, or was left by one
\* that broke off.
HeardTag(t) ==
    heard[t] # <<>> =>
      \/ t \in broken
      \/ t = Top /\ pc[Top] = "ended"
      \/ \E p \in Producers : Tag(p) = t /\ Hearing(p) /\ Speaking(p)

ObservedTag(d) ==
    observed[d] # <<>> =>
      d \in broken \/ \E c \in Children : DefOf[c] = d /\ HasObserver(c) /\ Showing(c)

\* A stream alone under its tag is heard as it was read, up to the event being
\* delivered.
HeardOf(p) ==
    Hearing(p) /\ OneStream(p) =>
      /\ pc[p] = "reading" \/ Closing(p) => heard[Tag(p)] = surfaced[p]
      /\ pc[p] \in Busy /\ ~Closing(p) => Append(heard[Tag(p)], event[p]) = surfaced[p]

ObservedOf(p) ==
    HasObserver(p) /\ OneStream(p) =>
      /\ pc[p] = "reading" => observed[Tag(p)] = surfaced[p]
      /\ pc[p] \in {"locking", "handler"} /\ ~Closing(p) => observed[Tag(p)] = surfaced[p]
      /\ pc[p] = "observer" /\ Closing(p) => observed[Tag(p)] = surfaced[p]
      /\ pc[p] = "observer" /\ ~Closing(p) => Append(observed[Tag(p)], event[p]) = surfaced[p]

\* The accumulator has the text of this answer so far, or all of it.
TextOf(r, m) == Picks(r, m, TextsIn(m))

Accumulated(c) ==
    /\ IF pc[c] = "reading" \/ (pc[c] \in Busy /\ ~Closing(c))
         THEN TextOf(cur[c], surfaced[c])
         ELSE cur[c] = <<>>
    /\ Closing(c) \/ pc[c] = "answered" => TextOf(final[c], surfaced[c])
    /\ pc[c] = "ended" => result[c] = Failure \/ TextOf(result[c], surfaced[c])

Line(p) ==
    /\ OnItsWay(p) /\ HeardOf(p) /\ ObservedOf(p)
    /\ p \in Children => Accumulated(p)

Lines == \A p \in Producers : Line(p)
Tagged == (\A t \in Tags : HeardTag(t)) /\ (\A d \in Defs : ObservedTag(d))

TellInv == StreamInv /\ Contents /\ Lines /\ Tagged

\* Only p moves, and what it leaves to hear is under its tag.
Alone(p) ==
    /\ \A q \in Producers \ {p} :
         pc'[q] = pc[q] /\ event'[q] = event[q] /\ surfaced'[q] = surfaced[q]
    /\ \A c \in Children \ {p} : cur'[c] = cur[c] /\ final'[c] = final[c] /\ result'[c] = result[c]
    /\ \A t \in Tags \ {Tag(p)} : heard'[t] = heard[t]
    /\ \A d \in Defs \ {Tag(p)} : observed'[d] = observed[d]
    /\ broken \subseteq broken'
    /\ pc[p] # "idle" /\ pc'[p] # "idle"

LEMMA TagsApart ==
    /\ \A p \in Producers : Tag(p) \in Tags /\ (p # Top => Tag(p) = DefOf[p] /\ DefOf[p] \in Defs)
    /\ \A p \in Producers : Tag(p) = Top <=> p = Top
    /\ \A p \in Producers : HasObserver(p) => p \in Children /\ Tag(p) \in Defs
    /\ Top \notin Defs
  BY Actors, StreamAssumption DEF Tag, Tags, HasObserver

LEMMA TextStarts == TextOf(<<>>, <<>>)
  <1>1. TextsIn(<<>>) = {} /\ DOMAIN <<>> = {}
    BY DEF TextsIn
  <1>2. [i \in {} |-> i] \in [{} -> {}]
    OBVIOUS
  <1> QED
    BY <1>1, <1>2 DEF TextOf, Picks

\* A delta of text is picked, any other is not.
LEMMA TextGoesOn ==
    ASSUME NEW m \in Seq(Tokens), NEW r \in Seq(Tokens), NEW e \in Tokens, TextOf(r, m)
    PROVE  TextOf(IF Kind(e) = "text" THEN Append(r, e) ELSE r, Append(m, e))
  <1> DEFINE n == Len(m)
             k == Append(m, e)
  <1>1. /\ n \in Nat /\ DOMAIN m = 1..n /\ DOMAIN k = 1..n + 1
        /\ k[n + 1] = e /\ \A i \in 1..n : k[i] = m[i]
    OBVIOUS
  <1> HIDE DEF n, k
  <1>2. /\ TextsIn(m) \subseteq 1..n
        /\ TextsIn(k) = IF Kind(e) = "text" THEN TextsIn(m) \cup {n + 1} ELSE TextsIn(m)
    <2>1. \A i \in 1..n + 1 : i = n + 1 \/ i \in 1..n
      BY <1>1
    <2>2. n + 1 \in 1..n + 1 /\ \A i \in 1..n : i \in 1..n + 1
      BY <1>1
    <2> QED
      BY <1>1, <2>1, <2>2 DEF TextsIn
  <1>3. CASE Kind(e) = "text"
    <2>1. \A i \in TextsIn(m) : k[i] = m[i]
      BY <1>1, <1>2
    <2>2. Picks(r, m, TextsIn(m))
      BY DEF TextOf
    <2>3. Picks(Append(r, e), k, TextsIn(m) \cup {n + 1})
      BY <1>1, <1>2, <2>1, <2>2, PicksNext
    <2> QED
      BY <1>2, <1>3, <2>3 DEF TextOf, k
  <1>4. CASE Kind(e) # "text"
    BY <1>1, <1>2, <1>4, PicksSame DEF TextOf, k
  <1> QED
    BY <1>3, <1>4

LEMMA InitTells == Init => TellInv
  <1> SUFFICES ASSUME Init PROVE TellInv
    OBVIOUS
  <1>1. StreamInv
    BY InitStreamInv
  <1>2. Contents
    BY DEF Init, Contents
  <1>3. \A p \in Producers : ~Speaking(p) /\ pc[p] \notin Busy /\ pc[p] \notin {"answered", "ended"}
    BY DEF Init, Speaking, Busy
  <1>4. Lines
    <2> SUFFICES ASSUME NEW p \in Producers PROVE Line(p)
      BY DEF Lines
    <2>1. p \in Children => cur[p] = <<>>
      BY DEF Init
    <2> QED
      BY <1>3, <2>1, Actors DEF Line, OnItsWay, HeardOf, ObservedOf, Accumulated, Closing, Speaking,
         Busy
  <1>5. Tagged
    BY DEF Init, Tagged, HeardTag, ObservedTag
  <1> QED
    BY <1>1, <1>2, <1>4, <1>5 DEF TellInv

-----------------------------------------------------------------------------
(* The others, while one producer moves                                    *)

LEMMA OneStreamBefore ==
    ASSUME NEW p \in Producers, Alone(p), NEW q \in Producers, OneStream(q)'
    PROVE  OneStream(q) /\ (q = p \/ Tag(q) # Tag(p))
  <1>1. Tag(q) \notin broken /\ \A c \in Children \ {q} : Tag(c) = Tag(q) => pc'[c] = "idle"
    BY DEF OneStream, Alone
  <1>2. q = p \/ Tag(q) # Tag(p)
    BY <1>1, TagsApart, Actors DEF Alone
  <1>3. \A c \in Children \ {q} : Tag(c) = Tag(q) => pc[c] = "idle"
    BY <1>1, <1>2, Actors DEF Alone
  <1> QED
    BY <1>1, <1>2, <1>3 DEF OneStream

LEMMA OthersGoOn ==
    ASSUME TellInv, NEW p \in Producers, Alone(p), NEW q \in Producers \ {p}
    PROVE  Line(q)'
  <1>1. /\ pc'[q] = pc[q] /\ event'[q] = event[q] /\ surfaced'[q] = surfaced[q]
        /\ q \in Children => cur'[q] = cur[q] /\ final'[q] = final[q] /\ result'[q] = result[q]
    BY DEF Alone
  <1>2. Line(q)
    BY DEF TellInv, Lines
  <1>3. /\ Closing(q)' <=> Closing(q)
        /\ Hearing(q)' <=> Hearing(q)
        /\ HasObserver(q)' <=> HasObserver(q)
        /\ Tag(q)' = Tag(q)
    BY <1>1 DEF Closing, Hearing, Forwards, HasObserver, Tag
  <1>4. OneStream(q)' => /\ OneStream(q) /\ heard'[Tag(q)] = heard[Tag(q)]
                         /\ HasObserver(q) => observed'[Tag(q)] = observed[Tag(q)]
    <2> HAVE OneStream(q)'
    <2>1. OneStream(q) /\ Tag(q) # Tag(p)
      BY OneStreamBefore
    <2> QED
      BY <2>1, TagsApart DEF Alone
  <1>5. OnItsWay(q)'
    BY <1>1, <1>2, <1>3 DEF Line, OnItsWay
  <1>6. HeardOf(q)'
    BY <1>1, <1>2, <1>3, <1>4 DEF Line, HeardOf
  <1>7. ObservedOf(q)'
    BY <1>1, <1>2, <1>3, <1>4 DEF Line, ObservedOf
  <1>8. q \in Children => Accumulated(q)'
    BY <1>1, <1>2, <1>3 DEF Line, Accumulated
  <1> QED
    BY <1>5, <1>6, <1>7, <1>8 DEF Line

\* What p leaves to hear, it goes on with or breaks off.
LEMMA TagsGoOn ==
    ASSUME TellInv, NEW p \in Producers, Alone(p), p = Top => pc[p] # "ended",
           heard'[Tag(p)] # <<>> =>
             heard[Tag(p)] # <<>> \/ Tag(p) \in broken' \/ (Hearing(p) /\ Speaking(p)'),
           heard'[Tag(p)] # <<>> /\ Hearing(p) /\ Speaking(p) =>
             Speaking(p)' \/ Tag(p) \in broken' \/ (p = Top /\ pc'[p] = "ended"),
           HasObserver(p) \/ UNCHANGED observed,
           HasObserver(p) /\ observed'[Tag(p)] # <<>> =>
             observed[Tag(p)] # <<>> \/ Tag(p) \in broken' \/ Showing(p)',
           HasObserver(p) /\ observed'[Tag(p)] # <<>> /\ Showing(p) =>
             Showing(p)' \/ Tag(p) \in broken'
    PROVE  Tagged'
  <1>1. /\ \A q \in Producers \ {p} : (Speaking(q)' <=> Speaking(q)) /\ (Showing(q)' <=> Showing(q))
        /\ \A q \in Producers : (Hearing(q)' <=> Hearing(q)) /\ (HasObserver(q)' <=> HasObserver(q))
                                /\ Tag(q)' = Tag(q)
    BY DEF Alone, Speaking, Showing, Closing, Hearing, Forwards, HasObserver, Tag
  <1>2. ASSUME NEW t \in Tags PROVE HeardTag(t)'
    <2> SUFFICES ASSUME heard'[t] # <<>>
                 PROVE  \/ t \in broken' \/ (t = Top /\ pc'[Top] = "ended")
                        \/ \E q \in Producers : Tag(q) = t /\ Hearing(q) /\ Speaking(q)'
      BY <1>1 DEF HeardTag
    <2>1. CASE t = Tag(p) /\ heard[t] = <<>>
      BY <2>1
    <2>2. CASE heard[t] # <<>>
      <3>1. \/ t \in broken \/ (t = Top /\ pc[Top] = "ended")
            \/ \E q \in Producers : Tag(q) = t /\ Hearing(q) /\ Speaking(q)
        BY <2>2 DEF TellInv, Tagged, HeardTag
      <3>2. CASE t \in broken
        BY <3>2 DEF Alone
      <3>3. CASE t = Top /\ pc[Top] = "ended"
        BY <3>3, Actors DEF Alone
      <3>4. ASSUME NEW q \in Producers, Tag(q) = t, Hearing(q), Speaking(q)
            PROVE  \/ t \in broken' \/ (t = Top /\ pc'[Top] = "ended")
                   \/ \E k \in Producers : Tag(k) = t /\ Hearing(k) /\ Speaking(k)'
        <4>1. CASE q = p
          BY <3>4, <4>1, TagsApart
        <4>2. CASE q # p
          BY <1>1, <3>4, <4>2
        <4> QED
          BY <4>1, <4>2
      <3> QED
        BY <3>1, <3>2, <3>3, <3>4
    <2>3. CASE t # Tag(p) /\ heard[t] = <<>>
      BY <2>3 DEF Alone
    <2> QED
      BY <2>1, <2>2, <2>3
  <1>3. ASSUME NEW d \in Defs PROVE ObservedTag(d)'
    <2> SUFFICES ASSUME observed'[d] # <<>>
                 PROVE  d \in broken' \/ \E q \in Children : DefOf[q] = d /\ HasObserver(q) /\ Showing(q)'
      BY <1>1, Actors DEF ObservedTag
    <2>1. CASE d = Tag(p) /\ observed[d] = <<>>
      BY <2>1, TagsApart
    <2>2. CASE observed[d] # <<>>
      <3>1. d \in broken \/ \E q \in Children : DefOf[q] = d /\ HasObserver(q) /\ Showing(q)
        BY <2>2 DEF TellInv, Tagged, ObservedTag
      <3>2. CASE d \in broken
        BY <3>2 DEF Alone
      <3>3. ASSUME NEW q \in Children, DefOf[q] = d, HasObserver(q), Showing(q)
            PROVE  d \in broken' \/ \E k \in Children : DefOf[k] = d /\ HasObserver(k) /\ Showing(k)'
        <4>1. CASE q = p
          BY <3>3, <4>1, TagsApart, Actors
        <4>2. CASE q # p
          BY <1>1, <3>3, <4>2, Actors
        <4> QED
          BY <4>1, <4>2
      <3> QED
        BY <3>1, <3>2, <3>3
    <2>3. CASE d # Tag(p) /\ observed[d] = <<>>
      BY <2>3 DEF Alone
    <2> QED
      BY <2>1, <2>2, <2>3
  <1> QED
    BY <1>2, <1>3 DEF Tagged

\* A producer that streams nothing has left nothing to hear.
LEMMA Silent ==
    ASSUME TellInv, NEW p \in Producers, OneStream(p)
    PROVE  /\ ~Speaking(p) /\ pc[p] # "ended" => heard[Tag(p)] = <<>>
           /\ HasObserver(p) /\ ~Showing(p) => observed[Tag(p)] = <<>>
  <1>1. \A c \in Children \ {p} : Tag(c) = Tag(p) => ~Speaking(c) /\ ~Showing(c)
    BY DEF OneStream, Speaking, Showing, Busy
  <1>2. Tag(p) \notin broken
    BY DEF OneStream
  <1>3. ~Speaking(p) /\ pc[p] # "ended" => heard[Tag(p)] = <<>>
    <2> SUFFICES ASSUME ~Speaking(p), pc[p] # "ended", heard[Tag(p)] # <<>> PROVE FALSE
      OBVIOUS
    <2>1. PICK q \in Producers : Tag(q) = Tag(p) /\ Speaking(q)
      BY <1>2, TagsApart DEF TellInv, Tagged, HeardTag
    <2> QED
      BY <1>1, <2>1, TagsApart, Actors
  <1>4. HasObserver(p) /\ ~Showing(p) => observed[Tag(p)] = <<>>
    <2> SUFFICES ASSUME HasObserver(p), ~Showing(p), observed[Tag(p)] # <<>> PROVE FALSE
      OBVIOUS
    <2>1. PICK c \in Children : DefOf[c] = Tag(p) /\ Showing(c)
      BY <1>2, TagsApart DEF TellInv, Tagged, ObservedTag
    <2> QED
      BY <1>1, <2>1, TagsApart, Actors
  <1> QED
    BY <1>3, <1>4

-----------------------------------------------------------------------------
(* The steps, as they are heard                                            *)

LEMMA TellsOn ==
    ASSUME TellInv, StreamInv', Contents', NEW p \in Producers, Alone(p), Line(p)', Tagged'
    PROVE  TellInv'
  <1>1. \A q \in Producers \ {p} : Line(q)'
    BY OthersGoOn
  <1> QED
    BY <1>1 DEF TellInv, Lines

LEMMA Tokening ==
    ASSUME Contents, NEW p \in Producers, NEW k \in Kinds \cup {Done}
    PROVE  /\ Token(p, k) \in Tokens /\ Kind(Token(p, k)) = k
           /\ Done \notin Kinds /\ Done # "text"
  BY DEF Contents, Token, Tokens, Kind, Kinds, Done

\* A new answer starts where nothing is left of another.
LEMMA OpenTells ==
    ASSUME TellInv, StreamInv', NEW p \in Producers, OpenStream(p)
    PROVE  TellInv'
  <1>1. /\ pc[p] = "head" /\ pc' = [pc EXCEPT ![p] = "reading"]
        /\ surfaced' = [q \in Producers |-> IF q \in {p} THEN <<>> ELSE surfaced[q]]
        /\ answers' = [answers EXCEPT ![p] = @ + 1]
        /\ UNCHANGED <<event, cur, final, result, heard, observed, broken>>
    BY DEF OpenStream, GoTo, NoAnswer
  <1>2. Contents /\ pc \in [Producers -> Positions] /\ Line(p)
    BY DEF TellInv, StreamInv, Types, Lines
  <1>3. Contents'
    BY <1>1, <1>2 DEF Contents
  <1>4. pc'[p] = "reading" /\ surfaced'[p] = <<>>
    BY <1>1, <1>2 DEF Contents
  <1>5. Alone(p)
    BY <1>1, <1>2 DEF Contents, Alone
  <1>6. OneStream(p)' => heard[Tag(p)] = <<>> /\ (HasObserver(p) => observed[Tag(p)] = <<>>)
    BY <1>1, <1>5, OneStreamBefore, Silent DEF Speaking, Showing, Busy
  <1>7. Line(p)'
    <2>1. OnItsWay(p)' /\ HeardOf(p)' /\ ObservedOf(p)'
      BY <1>1, <1>4, <1>6 DEF OnItsWay, HeardOf, ObservedOf, Closing, Busy, Tag, HasObserver
    <2>2. p \in Children => Accumulated(p)'
      BY <1>1, <1>2, <1>4, TextStarts DEF Line, Accumulated, Closing, Busy
    <2> QED
      BY <2>1, <2>2 DEF Line
  <1>8. Tagged'
    BY <1>1, <1>4, <1>5, TagsGoOn DEF Speaking, Showing, Busy
  <1> QED
    BY <1>3, <1>5, <1>7, <1>8, TellsOn

\* A Run that fails in the middle of a stream leaves its tag broken.
LEMMA FailTells ==
    ASSUME TellInv, StreamInv', NEW p \in Producers, FailRun(p),
           pc[p] \notin {"idle", "tools", "ended"}
    PROVE  TellInv'
  <1>1. /\ pc' = [pc EXCEPT ![p] = "ended"] /\ event' = [event EXCEPT ![p] = NoEvent]
        /\ surfaced' = [q \in Producers |-> IF q \in {p} THEN <<>> ELSE surfaced[q]]
        /\ answers' = [answers EXCEPT ![p] = 0]
        /\ cur' = [c \in Children |-> IF c = p THEN <<>> ELSE cur[c]]
        /\ final' = [c \in Children |-> IF c = p THEN <<>> ELSE final[c]]
        /\ result' = IF p = Top THEN result ELSE [result EXCEPT ![p] = Failure]
        /\ broken' = IF HeardInPart(p) THEN broken \cup {Tag(p)} ELSE broken
        /\ UNCHANGED <<heard, observed>>
    BY DEF FailRun, GoTo, NoAnswer
  <1>2. Contents /\ pc \in [Producers -> Positions]
    BY DEF TellInv, StreamInv, Types
  <1>3. Contents'
    <2>1. /\ event' \in [Producers -> Tokens \cup {NoEvent}]
          /\ surfaced' \in [Producers -> Seq(Tokens)] /\ answers' \in [Producers -> Nat]
      BY <1>1, <1>2 DEF Contents
    <2>2. cur' \in [Children -> Seq(Tokens)] /\ final' \in [Children -> Seq(Tokens)]
      BY <1>1, <1>2 DEF Contents
    <2>3. result' \in [Children -> Seq(Tokens) \cup {Failure, NoResult}]
      BY <1>1, <1>2 DEF Contents
    <2> QED
      BY <1>1, <1>2, <2>1, <2>2, <2>3 DEF Contents
  <1>4. pc'[p] = "ended"
    BY <1>1, <1>2
  <1>5. Alone(p)
    BY <1>1, <1>2, Actors DEF Contents, Alone
  <1>6. Line(p)'
    <2>1. p \in Children => cur'[p] = <<>> /\ result'[p] = Failure
      BY <1>1, <1>2, Actors DEF Contents
    <2> QED
      BY <1>4, <2>1 DEF Line, OnItsWay, HeardOf, ObservedOf, Accumulated, Closing, Busy
  <1>7. heard[Tag(p)] # <<>> /\ Hearing(p) => p = Top \/ Tag(p) \in broken'
    BY <1>1 DEF HeardInPart, Hearing
  <1>8. HasObserver(p) /\ observed[Tag(p)] # <<>> => Tag(p) \in broken'
    BY <1>1 DEF HeardInPart
  <1>9. Tagged'
    BY <1>1, <1>4, <1>5, <1>7, <1>8, TagsGoOn
  <1> QED
    BY <1>3, <1>5, <1>6, <1>9, TellsOn

\* An event enters the handlers; the accumulator has it at once.
LEMMA DeliverTells ==
    ASSUME TellInv, StreamInv', NEW p \in Producers, pc[p] = "reading",
           NEW k \in Kinds \cup {Done}, Deliver(p, Token(p, k)),
           surfaced' = IF k = Done THEN surfaced
                      ELSE [surfaced EXCEPT ![p] = Append(@, Token(p, k))],
           UNCHANGED <<answers, result, heard, observed, broken>>
    PROVE  TellInv'
  <1>0. PICK e : e = Token(p, k)
    OBVIOUS
  <1>1. /\ e \in Tokens /\ Kind(e) = k /\ Contents /\ pc \in [Producers -> Positions] /\ Line(p)
        /\ Done \notin Kinds /\ Done # "text"
    BY <1>0, Tokening DEF TellInv, StreamInv, Types, Lines
  <1>2. /\ event' = [event EXCEPT ![p] = e] /\ Accumulate(p, e)
        /\ surfaced' = IF k = Done THEN surfaced ELSE [surfaced EXCEPT ![p] = Append(@, e)]
    BY <1>0 DEF Deliver
  <1>3. PICK w : /\ pc' = [pc EXCEPT ![p] = w]
                 /\ w \in Busy \cup {"reading", "answered"}
                 /\ w \in Busy \/ w = IF k = Done THEN "answered" ELSE "reading"
                 /\ w \in {"locking", "handler"} => Hearing(p)
                 /\ w = "observer" => HasObserver(p)
                 /\ Hearing(p) => w \in Busy
                 /\ HasObserver(p) => w = "observer"
    <2>1. GoTo(p, IF p = Top THEN "handler"
                  ELSE IF HasObserver(p) THEN "observer" ELSE AfterObserver(p, e))
      BY <1>0 DEF Deliver
    <2>2. CASE p = Top
      BY <2>1, <2>2 DEF GoTo, Hearing, HasObserver, Busy
    <2>3. CASE p # Top /\ HasObserver(p)
      BY <2>1, <2>3 DEF GoTo, Busy
    <2>4. CASE p # Top /\ ~HasObserver(p) /\ Forwards(p)
      BY <2>1, <2>4 DEF GoTo, AfterObserver, Hearing, Busy
    <2>5. CASE p # Top /\ ~HasObserver(p) /\ ~Forwards(p)
      <3> DEFINE w == IF k = Done THEN "answered" ELSE "reading"
      <3>1. AfterObserver(p, e) = w
        BY <1>1, <2>5 DEF AfterObserver, AfterEvent
      <3>2. pc' = [pc EXCEPT ![p] = w]
        BY <2>1, <2>5, <3>1 DEF GoTo
      <3>3. w \in {"answered", "reading"} /\ ~Hearing(p)
        BY <2>5 DEF Hearing
      <3> QED
        BY <2>5, <3>2, <3>3
    <2> QED
      BY <2>2, <2>3, <2>4, <2>5
  <1>4. /\ pc'[p] = w /\ event'[p] = e
        /\ surfaced'[p] = IF k = Done THEN surfaced[p] ELSE Append(surfaced[p], e)
    BY <1>1, <1>2, <1>3 DEF Contents
  <1>5. p \in Children =>
          /\ k = "text" => cur' = [cur EXCEPT ![p] = Append(@, e)] /\ final' = final
          /\ k = Done => final' = [final EXCEPT ![p] = cur[p]] /\ cur' = [cur EXCEPT ![p] = <<>>]
          /\ k # "text" /\ k # Done => UNCHANGED <<cur, final>>
    BY <1>1, <1>2, Actors DEF Accumulate
  <1>6. p = Top => UNCHANGED <<cur, final>>
    BY <1>2 DEF Accumulate
  <1>7. /\ cur' \in [Children -> Seq(Tokens)] /\ final' \in [Children -> Seq(Tokens)]
        /\ \A c \in Children \ {p} : cur'[c] = cur[c] /\ final'[c] = final[c]
        /\ p \in Children =>
             /\ cur'[p] = IF k = Done THEN <<>>
                          ELSE IF k = "text" THEN Append(cur[p], e) ELSE cur[p]
             /\ k = Done => final'[p] = cur[p]
    <2>1. CASE p = Top
      BY <1>1, <1>6, <2>1, Actors DEF Contents
    <2>2. CASE p \in Children
      <3>1. cur \in [Children -> Seq(Tokens)] /\ final \in [Children -> Seq(Tokens)]
            /\ cur[p] \in Seq(Tokens) /\ Append(cur[p], e) \in Seq(Tokens)
        BY <1>1, <2>2 DEF Contents
      <3>2. CASE k = "text"
        BY <1>1, <1>5, <2>2, <3>1, <3>2
      <3>3. CASE k = Done
        <4>1. final' = [final EXCEPT ![p] = cur[p]] /\ cur' = [cur EXCEPT ![p] = <<>>] /\ k # "text"
          BY <1>1, <1>5, <2>2, <3>3
        <4>2. final' \in [Children -> Seq(Tokens)] /\ cur' \in [Children -> Seq(Tokens)]
              /\ cur'[p] = <<>> /\ final'[p] = cur[p]
          BY <2>2, <3>1, <4>1
        <4> QED
          BY <2>2, <3>1, <3>3, <4>1, <4>2
      <3>4. CASE k # "text" /\ k # Done
        BY <1>5, <2>2, <3>1, <3>4
      <3> QED
        BY <3>2, <3>3, <3>4
    <2> QED
      BY <2>1, <2>2, Actors
  <1>8. surfaced' \in [Producers -> Seq(Tokens)] /\ event' \in [Producers -> Tokens \cup {NoEvent}]
    BY <1>1, <1>2 DEF Contents
  <1>9. Contents'
    BY <1>1, <1>7, <1>8 DEF Contents
  <1>10. w # "idle"
    BY <1>3 DEF Busy
  <1>11. Alone(p)
    BY <1>1, <1>2, <1>3, <1>4, <1>7, <1>10 DEF Contents, Alone
  <1>12. Closing(p)' <=> w \in Busy /\ k = Done
    BY <1>1, <1>4 DEF Closing
  <1>13. OneStream(p)' => /\ Hearing(p) => heard[Tag(p)] = surfaced[p]
                          /\ HasObserver(p) => observed[Tag(p)] = surfaced[p]
    BY <1>1, <1>11, OneStreamBefore DEF Line, HeardOf, ObservedOf
  <1>14. OnItsWay(p)'
    BY <1>1, <1>3, <1>4 DEF OnItsWay, Hearing, Forwards, HasObserver
  <1>15. HeardOf(p)'
    <2>1. (Hearing(p)' <=> Hearing(p)) /\ Tag(p)' = Tag(p)
      BY DEF Hearing, Forwards, Tag
    <2>2. pc'[p] = "reading" => ~Hearing(p)
      BY <1>3, <1>4 DEF Busy
    <2> QED
      BY <1>4, <1>12, <1>13, <2>1, <2>2 DEF HeardOf
  <1>16. ObservedOf(p)'
    <2>1. (HasObserver(p)' <=> HasObserver(p)) /\ Tag(p)' = Tag(p)
      BY DEF HasObserver, Tag
    <2>2. HasObserver(p) => pc'[p] = "observer"
      BY <1>3, <1>4
    <2> QED
      BY <1>4, <1>12, <1>13, <2>1, <2>2 DEF ObservedOf, Busy
  <1>17. ASSUME p \in Children PROVE Accumulated(p)'
    <2>1. TextOf(cur[p], surfaced[p]) /\ cur[p] \in Seq(Tokens) /\ surfaced[p] \in Seq(Tokens)
      BY <1>1, <1>17 DEF Line, Accumulated, Contents
    <2>2. w # "ended"
      BY <1>3 DEF Busy
    <2>3. CASE k = Done
      <3>1. w # "reading"
        BY <1>3, <2>3 DEF Busy
      <3> QED
        BY <1>4, <1>7, <1>12, <1>17, <2>1, <2>2, <2>3, <3>1 DEF Accumulated
    <2>4. CASE k # Done
      <3>1. w # "answered" /\ (w = "reading" \/ w \in Busy)
        BY <1>3, <2>4 DEF Busy
      <3>2. TextOf(IF Kind(e) = "text" THEN Append(cur[p], e) ELSE cur[p], Append(surfaced[p], e))
        BY <1>1, <2>1, TextGoesOn
      <3>3. TextOf(cur'[p], surfaced'[p])
        BY <1>1, <1>4, <1>7, <1>17, <2>4, <3>2
      <3> QED
        BY <1>4, <1>12, <2>2, <2>4, <3>1, <3>3 DEF Accumulated
    <2> QED
      BY <2>3, <2>4
  <1>18. Tagged'
    <2>1. Hearing(p) => Speaking(p)'
      BY <1>3, <1>4 DEF Speaking
    <2>2. HasObserver(p) => Showing(p)'
      BY <1>3, <1>4 DEF Showing
    <2> QED
      BY <1>11, <2>1, <2>2, TagsGoOn
  <1> QED
    BY <1>9, <1>11, <1>14, <1>15, <1>16, <1>17, <1>18, TellsOn DEF Line

LEMMA ObserverTells ==
    ASSUME TellInv, StreamInv', NEW p \in Producers, ObserverReturns(p)
    PROVE  TellInv'
  <1>1. /\ pc[p] = "observer"
        /\ observed' = [observed EXCEPT ![Tag(p)] = Shown(@, event[p])]
        /\ pc' = [pc EXCEPT ![p] = AfterObserver(p, event[p])]
        /\ UNCHANGED <<event, surfaced, answers, cur, final, result, heard, broken>>
    BY DEF ObserverReturns, GoTo, answer
  <1>2. /\ Contents /\ pc \in [Producers -> Positions] /\ Line(p)
        /\ HasObserver(p) /\ p \in Children /\ Tag(p) \in Defs /\ event[p] \in Tokens
    BY <1>1, TagsApart DEF TellInv, StreamInv, Types, Lines, Line, OnItsWay, Busy
  <1>3. PICK w : /\ pc'[p] = w
                 /\ w = IF Hearing(p) THEN "locking" ELSE IF Closing(p) THEN "answered" ELSE "reading"
    BY <1>1, <1>2, Actors DEF AfterObserver, AfterEvent, Closing, Hearing, Busy
  <1>4. /\ observed[Tag(p)] \in Seq(Tokens)
        /\ observed'[Tag(p)] = IF Closing(p) THEN <<>> ELSE Append(observed[Tag(p)], event[p])
    BY <1>1, <1>2 DEF Contents, Shown, Closing, Busy
  <1>5. Contents'
    <2>1. observed'[Tag(p)] \in Seq(Tokens)
      BY <1>2, <1>4
    <2> QED
      BY <1>1, <1>2, <2>1 DEF Contents
  <1>6. Alone(p)
    BY <1>1, <1>2, <1>3 DEF Contents, Alone
  <1>7. /\ (Closing(p)' <=> Closing(p) /\ w = "locking")
        /\ (Hearing(p)' <=> Hearing(p)) /\ (HasObserver(p)' <=> HasObserver(p)) /\ Tag(p)' = Tag(p)
    BY <1>1, <1>3 DEF Closing, Busy, Hearing, Forwards, HasObserver, Tag
  <1>8. OneStream(p)' => OneStream(p)
    BY <1>6, OneStreamBefore
  <1>9. OnItsWay(p)'
    BY <1>1, <1>2, <1>3, <1>7 DEF OnItsWay, Busy
  <1>10. HeardOf(p)'
    BY <1>1, <1>2, <1>3, <1>7, <1>8 DEF Line, HeardOf, Busy
  <1>11. ObservedOf(p)'
    BY <1>1, <1>2, <1>3, <1>4, <1>7, <1>8 DEF Line, ObservedOf, Closing
  <1>12. Accumulated(p)'
    BY <1>1, <1>2, <1>3, <1>7 DEF Line, Accumulated, Closing, Busy
  <1>13. Tagged'
    <2>1. Hearing(p) => Speaking(p)'
      BY <1>3 DEF Speaking, Busy
    <2>2. observed'[Tag(p)] # <<>> => Showing(p)'
      BY <1>3, <1>4, <1>7 DEF Showing, Busy
    <2> QED
      BY <1>1, <1>2, <1>6, <2>1, <2>2, TagsGoOn
  <1> QED
    BY <1>5, <1>6, <1>9, <1>10, <1>11, <1>12, <1>13, TellsOn DEF Line

LEMMA HandlerTells ==
    ASSUME TellInv, StreamInv', NEW p \in Producers, HandlerReturns(p)
    PROVE  TellInv'
  <1>1. /\ pc[p] = "handler"
        /\ heard' = [heard EXCEPT ![Tag(p)] = Shown(@, event[p])]
        /\ pc' = [pc EXCEPT ![p] = AfterEvent(p, event[p])]
        /\ UNCHANGED <<event, surfaced, answers, cur, final, result, observed, broken>>
    BY DEF HandlerReturns, GoTo, answer
  <1>2. /\ Contents /\ pc \in [Producers -> Positions] /\ Line(p)
        /\ Hearing(p) /\ Tag(p) \in Tags /\ event[p] \in Tokens
    BY <1>1, TagsApart DEF TellInv, StreamInv, Types, Lines, Line, OnItsWay, Busy
  <1>3. PICK w : pc'[p] = w /\ w = IF Closing(p) THEN "answered" ELSE "reading"
    BY <1>1, <1>2 DEF AfterEvent, Closing, Busy
  <1>4. /\ heard[Tag(p)] \in Seq(Tokens)
        /\ heard'[Tag(p)] = IF Closing(p) THEN <<>> ELSE Append(heard[Tag(p)], event[p])
    BY <1>1, <1>2 DEF Contents, Shown, Closing, Busy
  <1>5. Contents'
    <2>1. heard'[Tag(p)] \in Seq(Tokens)
      BY <1>2, <1>4
    <2> QED
      BY <1>1, <1>2, <2>1 DEF Contents
  <1>6. Alone(p)
    BY <1>1, <1>2, <1>3 DEF Contents, Alone
  <1>7. /\ ~Closing(p)'
        /\ (Hearing(p)' <=> Hearing(p)) /\ (HasObserver(p)' <=> HasObserver(p)) /\ Tag(p)' = Tag(p)
    BY <1>1, <1>3 DEF Closing, Busy, Hearing, Forwards, HasObserver, Tag
  <1>8. OneStream(p)' => OneStream(p)
    BY <1>6, OneStreamBefore
  <1>9. OnItsWay(p)'
    BY <1>3 DEF OnItsWay, Busy
  <1>10. HeardOf(p)'
    BY <1>1, <1>2, <1>3, <1>4, <1>7, <1>8 DEF Line, HeardOf, Busy
  <1>11. ObservedOf(p)'
    BY <1>1, <1>2, <1>3, <1>7, <1>8 DEF Line, ObservedOf
  <1>12. p \in Children => Accumulated(p)'
    BY <1>1, <1>2, <1>3, <1>7 DEF Line, Accumulated, Closing, Busy
  <1>13. Tagged'
    <2>1. heard'[Tag(p)] # <<>> => Speaking(p)'
      BY <1>3, <1>4 DEF Speaking
    <2>2. Showing(p) => Showing(p)'
      BY <1>1, <1>3 DEF Showing
    <2> QED
      BY <1>1, <1>2, <1>6, <2>1, <2>2, TagsGoOn
  <1> QED
    BY <1>5, <1>6, <1>9, <1>10, <1>11, <1>12, <1>13, TellsOn DEF Line

\* After its answer a child goes on or returns what was accumulated of it.
LEMMA AnsweredTells ==
    ASSUME TellInv, StreamInv', NEW p \in Producers, EndRun(p) \/ NextAnswer(p)
    PROVE  TellInv'
  <1>1. PICK w \in {"ended", "head"} :
          /\ pc[p] = "answered" /\ pc' = [pc EXCEPT ![p] = w]
          /\ event' = [event EXCEPT ![p] = NoEvent]
          /\ result' = IF w = "head" \/ p = Top THEN result ELSE [result EXCEPT ![p] = final[p]]
          /\ UNCHANGED <<surfaced, answers, cur, final, heard, observed, broken>>
    BY DEF EndRun, NextAnswer, Answered, GoTo, answer
  <1>2. Contents /\ pc \in [Producers -> Positions] /\ Line(p)
    BY DEF TellInv, StreamInv, Types, Lines
  <1>3. Contents'
    BY <1>1, <1>2, Actors DEF Contents
  <1>4. pc'[p] = w
    BY <1>1, <1>2
  <1>5. Alone(p)
    BY <1>1, <1>2, <1>4, Actors DEF Contents, Alone
  <1>6. Line(p)'
    <2>1. OnItsWay(p)' /\ HeardOf(p)' /\ ObservedOf(p)'
      BY <1>4 DEF OnItsWay, HeardOf, ObservedOf, Closing, Busy
    <2>2. ASSUME p \in Children PROVE Accumulated(p)'
      <3>1. cur[p] = <<>> /\ TextOf(final[p], surfaced[p])
        BY <1>1, <1>2, <2>2 DEF Line, Accumulated, Busy, Closing
      <3>2. w = "ended" => result'[p] = final[p]
        BY <1>1, <1>2, <2>2, Actors DEF Contents
      <3> QED
        BY <1>1, <1>4, <3>1, <3>2 DEF Accumulated, Closing, Busy
    <2> QED
      BY <2>1, <2>2 DEF Line
  <1>7. Tagged'
    BY <1>1, <1>4, <1>5, TagsGoOn DEF Speaking, Showing, Busy
  <1> QED
    BY <1>3, <1>5, <1>6, <1>7, TellsOn

LEMMA LockTells ==
    ASSUME TellInv, StreamInv', NEW c \in Children, LockStream(c)
    PROVE  TellInv'
  <1>1. /\ pc[c] = "locking" /\ pc' = [pc EXCEPT ![c] = "handler"]
        /\ UNCHANGED <<event, surfaced, answers, cur, final, result, heard, observed, broken>>
    BY DEF LockStream, GoTo, answer
  <1>2. Contents /\ pc \in [Producers -> Positions] /\ c \in Producers /\ Line(c) /\ c # Top
    BY Actors DEF TellInv, StreamInv, Types, Lines
  <1>3. Contents' /\ pc'[c] = "handler"
    BY <1>1, <1>2 DEF Contents
  <1>4. Alone(c)
    BY <1>1, <1>2 DEF Alone
  <1>5. /\ (Closing(c)' <=> Closing(c))
        /\ (Hearing(c)' <=> Hearing(c)) /\ (HasObserver(c)' <=> HasObserver(c)) /\ Tag(c)' = Tag(c)
        /\ (Speaking(c)' <=> Speaking(c)) /\ (Showing(c)' <=> Showing(c))
    BY <1>1, <1>3 DEF Closing, Busy, Hearing, Forwards, HasObserver, Tag, Speaking, Showing
  <1>6. OneStream(c)' => OneStream(c)
    BY <1>2, <1>4, OneStreamBefore
  <1>7. OnItsWay(c)' /\ HeardOf(c)'
    BY <1>1, <1>2, <1>3, <1>5, <1>6 DEF Line, OnItsWay, HeardOf, Busy
  <1>8. ObservedOf(c)'
    BY <1>1, <1>2, <1>3, <1>5, <1>6 DEF Line, ObservedOf
  <1>9. Accumulated(c)'
    BY <1>1, <1>2, <1>3, <1>5 DEF Line, Accumulated, Busy
  <1>10. Tagged'
    BY <1>1, <1>2, <1>4, <1>5, TagsGoOn
  <1> QED
    BY <1>2, <1>3, <1>4, <1>7, <1>8, <1>9, <1>10, TellsOn DEF Line

\* A step that nothing of this can be seen of.
LEMMA UntoldStays ==
    ASSUME TellInv, StreamInv',
           UNCHANGED <<pc, event, surfaced, answers, cur, final, result, heard, observed, broken>>
    PROVE  TellInv'
  <1>1. Contents' /\ Lines' /\ Tagged'
    BY DEF TellInv, Contents, Lines, Tagged, Line, OnItsWay, HeardOf, ObservedOf,
       Accumulated, HeardTag, ObservedTag, Closing, Hearing, Forwards, HasObserver, Tag,
       OneStream, Speaking, Showing
  <1> QED
    BY <1>1 DEF TellInv

LEMMA StepTells ==
    ASSUME TellInv, StreamInv', NEW p \in Producers, Step(p)
    PROVE  TellInv'
  <1>1. CASE OpenStream(p)
    BY <1>1, OpenTells
  <1>2. CASE CompleteFails(p) \/ StreamFails(p) \/ HandlerPanics(p)
    BY <1>2, FailTells DEF CompleteFails, StreamFails, HandlerPanics
  <1>3. ASSUME NEW kind \in Kinds, Read(p, kind) PROVE TellInv'
    <2>1. kind # Done
      BY DEF Kinds, Done
    <2>2. CASE Surfaced(kind)
      BY <1>3, <2>1, <2>2, DeliverTells DEF Read
    <2>3. CASE ~Surfaced(kind)
      BY <1>3, <2>3, UntoldStays DEF Read
    <2> QED
      BY <2>2, <2>3
  <1>4. CASE EndOfStream(p)
    BY <1>4, DeliverTells DEF EndOfStream, answer
  <1>5. CASE ObserverReturns(p)
    BY <1>5, ObserverTells
  <1>6. CASE HandlerReturns(p)
    BY <1>6, HandlerTells
  <1>7. CASE EndRun(p) \/ NextAnswer(p)
    BY <1>7, AnsweredTells
  <1> QED
    BY <1>1, <1>2, <1>3, <1>4, <1>5, <1>6, <1>7 DEF Step

\* Between batches nobody streams, and what was left to hear was left by a stream that
\* broke off.
LEMMA Quiet ==
    ASSUME TellInv, Contents', StreamInv', pc[Top] \in {"answered", "tools"},
           \A c \in Children : pc[c] \in {"idle", "ended"},
           pc'[Top] \in {"tools", "head"}, \A c \in Children : pc'[c] \in {"idle", "head"},
           \A c \in Children : cur'[c] = <<>>,
           UNCHANGED <<heard, observed, broken>>
    PROVE  TellInv'
  <1>1. \A p \in Producers : ~Speaking(p) /\ ~Showing(p)
    BY Actors DEF Speaking, Showing, Busy
  <1>2. \A p \in Producers : pc'[p] \in {"idle", "head", "tools"}
    BY Actors
  <1>3. Tagged'
    <2>1. \A t \in Tags : heard[t] # <<>> => t \in broken
      BY <1>1 DEF TellInv, Tagged, HeardTag
    <2>2. \A d \in Defs : observed[d] # <<>> => d \in broken
      BY <1>1, Actors DEF TellInv, Tagged, ObservedTag
    <2> QED
      BY <2>1, <2>2 DEF Tagged, HeardTag, ObservedTag
  <1>4. Lines'
    <2> SUFFICES ASSUME NEW p \in Producers PROVE Line(p)'
      BY DEF Lines
    <2> QED
      BY <1>2 DEF Line, OnItsWay, HeardOf, ObservedOf, Accumulated, Closing, Busy
  <1> QED
    BY <1>3, <1>4 DEF TellInv

LEMMA StartTells ==
    ASSUME TellInv, StreamInv', StartBatch
    PROVE  TellInv'
  <1>1. /\ pc[Top] = "answered" /\ event' = [event EXCEPT ![Top] = NoEvent]
        /\ surfaced' = [q \in Producers |-> IF q \in {Top} THEN <<>> ELSE surfaced[q]]
        /\ UNCHANGED <<answers, cur, final, result, heard, observed, broken>>
    BY DEF StartBatch, Answered, NoAnswer
  <1>2. PICK called : pc' = [p \in Producers |-> IF p = Top THEN "tools"
                                    ELSE IF p \in called THEN "head" ELSE pc[p]]
    BY DEF StartBatch
  <1>3. Contents /\ \A c \in Children : pc[c] = "idle"
    BY <1>1 DEF TellInv, StreamInv, Phases
  <1>4. Contents'
    BY <1>1, <1>3, Actors DEF Contents
  <1>5. pc'[Top] = "tools" /\ \A c \in Children : pc'[c] \in {"idle", "head"}
    BY <1>2, <1>3, Actors
  <1>6. \A c \in Children : cur'[c] = <<>>
    BY <1>1, <1>3, Actors DEF TellInv, Lines, Line, Accumulated, Busy, Closing
  <1> QED
    BY <1>1, <1>3, <1>4, <1>5, <1>6, Quiet

LEMMA EndTells ==
    ASSUME TellInv, StreamInv', EndBatch
    PROVE  TellInv'
  <1>1. /\ pc[Top] = "tools" /\ \A c \in Children : pc[c] \in {"idle", "ended"}
        /\ pc' = [p \in Producers |-> IF p = Top THEN "head"
                                      ELSE IF pc[p] = "ended" THEN "idle" ELSE pc[p]]
        /\ answers' = [p \in Producers |-> IF p = Top THEN answers[p] ELSE 0]
        /\ surfaced' = [p \in Producers |-> IF p \in Children THEN <<>> ELSE surfaced[p]]
        /\ cur' = [c \in Children |-> <<>>] /\ final' = [c \in Children |-> <<>>]
        /\ result' = [c \in Children |-> NoResult]
        /\ UNCHANGED <<event, heard, observed, broken>>
    BY DEF EndBatch, AllEnded, NoAnswer
  <1>2. Contents
    BY DEF TellInv
  <1>3. Contents'
    BY <1>1, <1>2 DEF Contents
  <1>4. pc'[Top] = "head" /\ \A c \in Children : pc'[c] \in {"idle", "head"}
    BY <1>1, Actors
  <1> QED
    BY <1>1, <1>3, <1>4, Quiet

-----------------------------------------------------------------------------
(* What is committed and what was shown                                    *)

Kept(p) == OccursIn(message[p], surfaced[p], missed[p] = 0)

KeptInv ==
    /\ message \in [Producers -> Seq(Tokens)] /\ missed \in [Producers -> Nat]
    /\ \A p \in Producers : Kept(p)

LEMMA NothingOccurs == OccursIn(<<>>, <<>>, TRUE)
  <1>1. ShownIn(<<>>) = {} /\ DOMAIN <<>> = {}
    BY DEF ShownIn
  <1>2. [i \in {} |-> i] \in [{} -> {}]
    OBVIOUS
  <1> QED
    BY <1>1, <1>2 DEF OccursIn

\* Positions of a message that one delta was added to.
LEMMA ShownNext ==
    ASSUME NEW m \in Seq(Tokens), NEW e \in Tokens
    PROVE  /\ Len(m) \in Nat /\ ShownIn(m) \subseteq 1..Len(m)
           /\ ShownIn(Append(m, e)) = IF Surfaced(Kind(e)) THEN ShownIn(m) \cup {Len(m) + 1}
                                      ELSE ShownIn(m)
           /\ Append(m, e)[Len(m) + 1] = e
           /\ \A i \in 1..Len(m) : Append(m, e)[i] = m[i]
  <1> DEFINE n == Len(m)
             k == Append(m, e)
  <1>1. /\ n \in Nat /\ DOMAIN m = 1..n /\ DOMAIN k = 1..n + 1
        /\ k[n + 1] = e /\ \A i \in 1..n : k[i] = m[i]
    OBVIOUS
  <1> HIDE DEF n, k
  <1>2. \A i \in 1..n + 1 : i = n + 1 \/ i \in 1..n
    BY <1>1
  <1>3. n + 1 \in 1..n + 1 /\ \A i \in 1..n : i \in 1..n + 1
    BY <1>1
  <1>4. /\ ShownIn(m) \subseteq 1..n
        /\ ShownIn(k) = IF Surfaced(Kind(e)) THEN ShownIn(m) \cup {n + 1} ELSE ShownIn(m)
    BY <1>1, <1>2, <1>3 DEF ShownIn, Surfaced
  <1> QED
    BY <1>1, <1>4 DEF n, k

\* A delta that is not shown changes nothing of this.
LEMMA HiddenKept ==
    ASSUME NEW m \in Seq(Tokens), NEW s \in Seq(Tokens), NEW e \in Tokens,
           ~Surfaced(Kind(e)), NEW whole \in BOOLEAN, OccursIn(m, s, whole)
    PROVE  OccursIn(Append(m, e), s, whole)
  <1>1. ShownIn(Append(m, e)) = ShownIn(m) /\ \A i \in ShownIn(m) : Append(m, e)[i] = m[i]
    BY ShownNext
  <1>2. PICK f \in [ShownIn(m) -> DOMAIN s] :
          /\ \A i, j \in ShownIn(m) : i < j => f[i] < f[j]
          /\ \A i \in ShownIn(m) : s[f[i]] = m[i]
          /\ whole => \A n \in DOMAIN s : \E i \in ShownIn(m) : f[i] = n
    BY DEF OccursIn
  <1>3. \A i \in ShownIn(m) : s[f[i]] = Append(m, e)[i]
    BY <1>1, <1>2
  <1> HIDE DEF OccursIn
  <1>4. PICK k : k = Append(m, e)
    OBVIOUS
  <1>5. ShownIn(k) = ShownIn(m) /\ \A i \in ShownIn(m) : s[f[i]] = k[i]
    BY <1>1, <1>3, <1>4
  <1>6. f \in [ShownIn(k) -> DOMAIN s]
    BY <1>5
  <1>7. \A i, j \in ShownIn(k) : i < j => f[i] < f[j]
    BY <1>2, <1>5
  <1>8. whole => \A n \in DOMAIN s : \E i \in ShownIn(k) : f[i] = n
    BY <1>2, <1>5
  <1>9. OccursIn(k, s, whole)
    BY <1>5, <1>6, <1>7, <1>8, Zenon DEF OccursIn
  <1> QED
    BY <1>4, <1>9

\* A delta that was shown and is missed leaves room in what was shown.
LEMMA MissedKept ==
    ASSUME NEW m \in Seq(Tokens), NEW s \in Seq(Tokens), NEW e \in Tokens,
           NEW whole \in BOOLEAN, OccursIn(m, s, whole)
    PROVE  OccursIn(m, s, FALSE) /\ OccursIn(m, Append(s, e), FALSE)
  <1>1. PICK f \in [ShownIn(m) -> DOMAIN s] :
          /\ \A i, j \in ShownIn(m) : i < j => f[i] < f[j]
          /\ \A i \in ShownIn(m) : s[f[i]] = m[i]
    BY DEF OccursIn
  <1>2. DOMAIN s \subseteq DOMAIN Append(s, e) /\ \A n \in DOMAIN s : Append(s, e)[n] = s[n]
    OBVIOUS
  <1>3. /\ f \in [ShownIn(m) -> DOMAIN Append(s, e)]
        /\ \A i \in ShownIn(m) : Append(s, e)[f[i]] = m[i]
    BY <1>1, <1>2
  <1> QED
    BY <1>1, <1>3 DEF OccursIn

\* A delta that is shown and kept is behind all the others in both.
LEMMA ShownKept ==
    ASSUME NEW m \in Seq(Tokens), NEW s \in Seq(Tokens), NEW e \in Tokens,
           Surfaced(Kind(e)), NEW whole \in BOOLEAN, OccursIn(m, s, whole)
    PROVE  OccursIn(Append(m, e), Append(s, e), whole)
  <1>1. PICK f \in [ShownIn(m) -> DOMAIN s] :
          /\ \A i, j \in ShownIn(m) : i < j => f[i] < f[j]
          /\ \A i \in ShownIn(m) : s[f[i]] = m[i]
          /\ whole => \A n \in DOMAIN s : \E i \in ShownIn(m) : f[i] = n
    BY DEF OccursIn
  <1> DEFINE n == Len(m)
             l == Len(s)
             z == Append(s, e)
             at == ShownIn(m)
             to == ShownIn(Append(m, e))
             g == [i \in to |-> IF i = n + 1 THEN l + 1 ELSE f[i]]
  <1>2. /\ l \in Nat /\ DOMAIN s = 1..l /\ DOMAIN z = 1..l + 1
        /\ z[l + 1] = e /\ \A i \in 1..l : z[i] = s[i]
    OBVIOUS
  <1>3. /\ n \in Nat /\ at \subseteq 1..n /\ to = at \cup {n + 1}
        /\ Append(m, e)[n + 1] = e /\ \A i \in at : Append(m, e)[i] = m[i]
    BY ShownNext
  <1> HIDE DEF n, l, z, at, to
  <1>4. n + 1 \in to /\ n + 1 \notin at /\ \A i \in at : i \in 1..n /\ i \in to /\ i # n + 1 /\ i < n + 1
    BY <1>3
  <1>5. \A i \in at : f[i] \in 1..l
    BY <1>1, <1>2 DEF at
  <1>6. /\ \A i \in 1..l : i \in 1..l + 1 /\ i < l + 1
        /\ l + 1 \in 1..l + 1 /\ \A i \in 1..l + 1 : i = l + 1 \/ i \in 1..l
    BY <1>2
  <1>7. /\ g[n + 1] = l + 1 /\ \A i \in at : g[i] = f[i]
        /\ g \in [to -> DOMAIN z]
    BY <1>2, <1>3, <1>4, <1>5, <1>6
  <1> HIDE DEF g
  <1>8. ASSUME NEW i \in to, NEW j \in to, i < j PROVE g[i] < g[j]
    <2>1. i \in at
      <3>1. CASE i = n + 1
        <4>1. j \in 1..n \/ j = n + 1
          BY <1>3, <1>4
        <4> QED
          BY <1>3, <1>8, <3>1, <4>1
      <3> QED
        BY <1>3, <3>1
    <2>2. CASE j \in at
      BY <1>1, <1>7, <1>8, <2>1, <2>2 DEF at
    <2>3. CASE j = n + 1
      BY <1>5, <1>6, <1>7, <2>1, <2>3
    <2> QED
      BY <1>3, <2>2, <2>3
  <1>9. \A i \in to : z[g[i]] = Append(m, e)[i]
    <2>1. ASSUME NEW i \in at PROVE z[g[i]] = Append(m, e)[i]
      <3>1. g[i] = f[i] /\ f[i] \in 1..l
        BY <1>5, <1>7
      <3>2. s[f[i]] = m[i]
        BY <1>1 DEF at
      <3>3. Append(m, e)[i] = m[i] /\ z[f[i]] = s[f[i]]
        BY <1>2, <1>3, <3>1
      <3> QED
        BY <3>1, <3>2, <3>3
    <2> QED
      BY <1>2, <1>3, <1>7, <2>1
  <1>10. ASSUME whole, NEW k \in DOMAIN z PROVE \E i \in to : g[i] = k
    <2>1. CASE k = l + 1
      BY <1>4, <1>7, <2>1
    <2>2. CASE k \in 1..l
      BY <1>1, <1>2, <1>4, <1>7, <1>10, <2>2 DEF at
    <2> QED
      BY <1>2, <1>6, <2>1, <2>2
  <1> QED
    BY <1>7, <1>8, <1>9, <1>10 DEF OccursIn, to, z

LEMMA InitKept == Init => KeptInv
  <1> SUFFICES ASSUME Init PROVE KeptInv
    OBVIOUS
  <1>1. \A p \in Producers : message[p] = <<>> /\ surfaced[p] = <<>> /\ (missed[p] = 0) = TRUE
    BY DEF Init
  <1>2. message \in [Producers -> Seq(Tokens)] /\ missed \in [Producers -> Nat]
    BY DEF Init
  <1> QED
    BY <1>1, <1>2, NothingOccurs DEF KeptInv, Kept

\* Producers whose answer begins anew.
LEMMA NoAnswerKept ==
    ASSUME KeptInv, Contents, NEW ps, NoAnswer(ps)
    PROVE  KeptInv'
  <1>1. message' \in [Producers -> Seq(Tokens)] /\ missed' \in [Producers -> Nat]
    BY DEF KeptInv, NoAnswer
  <1>2. ASSUME NEW p \in Producers PROVE Kept(p)'
    <2>1. CASE p \in ps
      BY <2>1, NothingOccurs DEF NoAnswer, Kept
    <2>2. CASE p \notin ps
      BY <2>2 DEF NoAnswer, Kept, KeptInv
    <2> QED
      BY <2>1, <2>2
  <1> QED
    BY <1>1, <1>2 DEF KeptInv

LEMMA ReadKept ==
    ASSUME KeptInv, Contents, NEW p \in Producers, NEW kind \in Kinds, Read(p, kind)
    PROVE  KeptInv'
  <1> DEFINE e == Token(p, kind)
  <1>1. e \in Tokens /\ Kind(e) = kind
    BY Tokening
  <1> HIDE DEF e
  <1>2. /\ message \in [Producers -> Seq(Tokens)] /\ missed \in [Producers -> Nat]
        /\ surfaced \in [Producers -> Seq(Tokens)] /\ OccursIn(message[p], surfaced[p], missed[p] = 0)
    BY DEF KeptInv, Contents, Kept
  <1>3. \/ message' = [message EXCEPT ![p] = Append(@, e)] /\ missed' = missed
        \/ message' = message /\ missed' = [missed EXCEPT ![p] = @ + 1]
    BY DEF Read, AddToMessage, e
  <1>4. surfaced' = IF Surfaced(kind) THEN [surfaced EXCEPT ![p] = Append(@, e)] ELSE surfaced
    BY DEF Read, e
  <1>5. message' \in [Producers -> Seq(Tokens)] /\ missed' \in [Producers -> Nat]
    <2>1. Append(message[p], e) \in Seq(Tokens) /\ missed[p] + 1 \in Nat
      BY <1>1, <1>2
    <2> QED
      BY <1>2, <1>3, <2>1
  <1>6. \A q \in Producers \ {p} :
          message'[q] = message[q] /\ missed'[q] = missed[q] /\ surfaced'[q] = surfaced[q]
    BY <1>2, <1>3, <1>4
  <1>7. OccursIn(message'[p], surfaced'[p], missed'[p] = 0)
    <2>1. CASE message' = [message EXCEPT ![p] = Append(@, e)] /\ missed' = missed
      <3>1. message'[p] = Append(message[p], e) /\ missed'[p] = missed[p]
        BY <1>2, <2>1
      <3>2. CASE Surfaced(kind)
        <4>1. surfaced'[p] = Append(surfaced[p], e)
          BY <1>2, <1>4, <3>2
        <4>2. OccursIn(Append(message[p], e), Append(surfaced[p], e), missed[p] = 0)
          BY <1>1, <1>2, <3>2, ShownKept
        <4> QED
          BY <3>1, <4>1, <4>2
      <3>3. CASE ~Surfaced(kind)
        <4>1. OccursIn(Append(message[p], e), surfaced[p], missed[p] = 0)
          BY <1>1, <1>2, <3>3, HiddenKept
        <4> QED
          BY <1>4, <3>1, <3>3, <4>1
      <3> QED
        BY <3>2, <3>3
    <2>2. CASE message' = message /\ missed' = [missed EXCEPT ![p] = @ + 1]
      <3>1. message'[p] = message[p] /\ missed'[p] = missed[p] + 1 /\ missed[p] \in Nat
        BY <1>2, <2>2
      <3>2. (missed'[p] = 0) = FALSE
        BY <3>1
      <3>3. surfaced'[p] = surfaced[p] \/ surfaced'[p] = Append(surfaced[p], e)
        BY <1>2, <1>4
      <3>4. /\ OccursIn(message[p], surfaced[p], FALSE)
            /\ OccursIn(message[p], Append(surfaced[p], e), FALSE)
        BY <1>1, <1>2, MissedKept
      <3> QED
        BY <3>1, <3>2, <3>3, <3>4
    <2> QED
      BY <1>3, <2>1, <2>2
  <1> QED
    BY <1>5, <1>6, <1>7 DEF KeptInv, Kept

-----------------------------------------------------------------------------
(* The theorems                                                            *)

\* The mutex, the bodies and the phases agree with where each producer is.
THEOREM StreamInvariance == Spec => []StreamInv
  <1>1. StreamInv /\ UNCHANGED vars => StreamInv'
    BY DEF vars, StreamInv, Types, Locks, Opens, Phases
  <1>2. StreamInv /\ Next => StreamInv'
    BY ProducerStepInv, LockStreamInv, StartBatchInv, EndBatchInv DEF Next
  <1> QED
    BY InitStreamInv, <1>1, <1>2, PTL DEF Spec

\* The host's handler runs for one producer at a time (agent.go:108-120).
THEOREM SerialHandler == Spec => []HandlerSerial
  <1>1. StreamInv => HandlerSerial
    <2> SUFFICES ASSUME StreamInv, NEW p \in Producers, NEW q \in Producers,
                        pc[p] = "handler", pc[q] = "handler"
                 PROVE  p = q
      BY DEF HandlerSerial
    <2>1. CASE p \in Children /\ q \in Children
      BY <2>1 DEF StreamInv, Locks
    <2>2. CASE p = Top \/ q = Top
      BY <2>2, Actors DEF StreamInv, Phases
    <2> QED
      BY <2>1, <2>2, Actors
  <1> QED
    BY StreamInvariance, <1>1, PTL

\* However a Run leaves complete, its body is closed and the parent's stream free of it
\* (agent.go:115-119, 411).
THEOREM NothingHeld == Spec => []NothingLeftOpen
  <1>1. StreamInv => NothingLeftOpen
    BY Actors DEF StreamInv, Types, Locks, Opens, Streaming, NothingLeftOpen
  <1> QED
    BY StreamInvariance, <1>1, PTL

\* What is heard, observed and accumulated agrees with what was read.
THEOREM TellInvariance == Spec => []TellInv
  <1>1. TellInv /\ StreamInv' /\ [Next]_vars => TellInv'
    <2> SUFFICES ASSUME TellInv, StreamInv', [Next]_vars PROVE TellInv'
      OBVIOUS
    <2>1. CASE UNCHANGED vars
      BY <2>1, UntoldStays DEF vars
    <2> QED
      BY <2>1, StepTells, LockTells, StartTells, EndTells DEF Next
  <1> QED
    BY InitTells, StreamInvariance, <1>1, PTL DEF Spec

\* Of what was shown, the message keeps everything but what Accumulate refused.
THEOREM KeptInvariance == Spec => []KeptInv
  <1>1. KeptInv /\ Contents /\ [Next]_vars => KeptInv'
    <2> SUFFICES ASSUME KeptInv, Contents, [Next]_vars PROVE KeptInv'
      OBVIOUS
    <2>1. UNCHANGED answer => KeptInv'
      BY DEF answer, KeptInv, Kept
    <2>2. CASE UNCHANGED vars
      BY <2>1, <2>2 DEF vars, answer
    <2>3. ASSUME NEW p \in Producers, Step(p) PROVE KeptInv'
      <3>1. (\E kind \in Kinds : Read(p, kind)) \/ NoAnswer({p}) \/ UNCHANGED answer
        BY <2>3 DEF Step, OpenStream, CompleteFails, EndOfStream, StreamFails, ObserverReturns,
           HandlerReturns, HandlerPanics, EndRun, NextAnswer, FailRun
      <3> QED
        BY <2>1, <3>1, ReadKept, NoAnswerKept
    <2>4. ASSUME NEW c \in Children, LockStream(c) PROVE KeptInv'
      BY <2>1, <2>4 DEF LockStream
    <2>5. CASE StartBatch \/ EndBatch
      BY <2>5, NoAnswerKept DEF StartBatch, EndBatch
    <2> QED
      BY <2>2, <2>3, <2>4, <2>5 DEF Next
  <1>2. TellInv => Contents
    BY DEF TellInv
  <1> QED
    BY InitKept, TellInvariance, <1>1, <1>2, PTL DEF Spec

\* When EventDone is heard under a tag, what was heard there since the one before is what
\* was shown of one answer, whole and in order, and all that is committed of it occurs
\* there in order, while calls to one definition do not overlap and no stream before
\* broke off (S2.3, subagent.go:67-69, 89-98, completer.go:88-112, agent.go:413-445).
THEOREM AnswersWhole == Spec => []DoneEndsItsAnswer
  <1>1. TellInv /\ KeptInv => DoneEndsItsAnswer
    <2> SUFFICES ASSUME TellInv, KeptInv, NEW p \in Producers, HearsDone(p), OneStream(p)
                 PROVE  /\ pc[p] = "handler" => Told(p, heard[Tag(p)])
                        /\ pc[p] = "observer" => Told(p, observed[Tag(p)])
      BY DEF DoneEndsItsAnswer
    <2>1. Line(p) /\ Kind(event[p]) = Done /\ Kept(p)
      BY DEF TellInv, KeptInv, Lines, HearsDone
    <2>2. /\ pc[p] = "handler" => heard[Tag(p)] = surfaced[p]
          /\ pc[p] = "observer" => observed[Tag(p)] = surfaced[p]
      BY <2>1 DEF Line, OnItsWay, HeardOf, ObservedOf, Closing, Busy
    <2> QED
      BY <2>1, <2>2 DEF Told, Kept
  <1> QED
    BY <1>1, TellInvariance, KeptInvariance, PTL

\* A sub-agent returns the text of its last answer, whole and in order, and none of the
\* answers before (subagent.go:279-293, 334).
THEOREM LastAnswerReturned == Spec => []ResultIsLastAnswer
  <1>1. TellInv => ResultIsLastAnswer
    BY Actors DEF TellInv, Lines, Line, Accumulated, TextOf, ResultIsLastAnswer
  <1> QED
    BY <1>1, TellInvariance, PTL
=============================================================================
