------------------------------- MODULE Stream -------------------------------
(***************************************************************************)
(* The event streams of a Run and of the sub-agents it runs in parallel:   *)
(* the EventStream of the Completer (agent/completer.go), Agent.complete   *)
(* and the serialized handler of Agent.Run (agent/agent.go), the handlers  *)
(* that a sub-agent tool combines (agent/subagent.go).                     *)
(*                                                                         *)
(* A producer is the Run itself or a child, one call to a sub-agent tool.  *)
(* Each answer of the model is a stream of deltas of text, of thinking     *)
(* (with its signature) and of the input of a tool call, which no handler  *)
(* is shown; raw events that carry no delta are left out.  A token names   *)
(* the producer and the answer it belongs to.  The host hears tokens under *)
(* a tag: no tag for the Run, the name of the definition for a child that  *)
(* forwards.                                                               *)
(***************************************************************************)
EXTENDS Integers, Sequences, Picking

CONSTANTS
    Children,    \* calls to sub-agent tools
    Defs,        \* sub-agent definitions
    DefOf,       \* the definition each child is a call to
    Batches,     \* the sets of calls an answer of the parent may make
    Forwarding,  \* definitions with Forward
    Observed,    \* definitions with an Observer
    MaxEvents,   \* bound: deltas in an answer of each producer
    MaxMisses,   \* bound: deltas of such an answer that Accumulate refuses
    MaxAnswers,  \* bound: answers in a Run
    MaxBatches   \* bound: batches of the parent's Run

Top       == "top"
Nobody    == "nobody"

ASSUME StreamAssumption ==
    /\ {Top, Nobody} \cap Children = {}
    /\ Top \notin Defs   \* the name of a sub-agent is not empty (subagent.go:193)
    /\ DefOf \in [Children -> Defs]
    /\ Forwarding \subseteq Defs /\ Observed \subseteq Defs
    /\ Batches \subseteq SUBSET Children \ {{}}
    /\ MaxEvents \in [Children \cup {Top} -> Nat]
    /\ MaxMisses \in [Children \cup {Top} -> Nat]
    /\ MaxAnswers \in Nat \ {0} /\ MaxBatches \in Nat

Producers == Children \cup {Top}
Kinds     == {"text", "thought", "input"}
Done      == "done"
NoEvent   == <<>>
Failure   == <<"error">>
NoResult  == <<"none">>

VARIABLES
    pc,        \* where each producer's goroutine is
    event,     \* EventStream.event, the event being delivered
    message,   \* EventStream.message, as the tokens accumulated
    open,      \* producers whose response body is open
    answers,   \* answers each producer has asked for
    cur, final,  \* the builders of Execute's accumulator
    result,    \* what Execute returned
    streamMu,  \* the child inside the serialized handler
    batches,
    heard,     \* host's handler: tokens since the last EventDone, by tag
    observed,  \* Observers: tokens since the last EventDone, by definition
    \* history variables:
    surfaced,  \* the deltas of each producer's answer that Next returned
    missed,    \* how many deltas of the answer Accumulate refused
    broken     \* tags under which a stream broke off

vars == <<pc, event, message, open, answers, cur, final, result, streamMu, batches,
          heard, observed, surfaced, missed, broken>>

\* The answer of a producer: as it is committed, and as it was shown.
answer == <<message, surfaced, missed>>

Tags   == Defs \cup {Top}
Tag(p) == IF p = Top THEN Top ELSE DefOf[p]

Forwards(p)    == p # Top /\ DefOf[p] \in Forwarding
HasObserver(p) == p # Top /\ DefOf[p] \in Observed

Init ==
    /\ pc = [p \in Producers |-> IF p = Top THEN "head" ELSE "idle"]
    /\ event = [p \in Producers |-> NoEvent]
    /\ message = [p \in Producers |-> <<>>] /\ open = {}
    /\ surfaced = message /\ missed = [p \in Producers |-> 0]
    /\ answers = [p \in Producers |-> 0]
    /\ cur = [c \in Children |-> <<>>] /\ final = cur
    /\ result = [c \in Children |-> NoResult]
    /\ streamMu = Nobody /\ batches = 0
    /\ heard = [t \in Tags |-> <<>>] /\ observed = [d \in Defs |-> <<>>]
    /\ broken = {}

GoTo(p, where) == pc' = [pc EXCEPT ![p] = where]

\* The producers of a set start afresh: each answer is a stream of its own.
NoAnswer(ps) ==
    /\ message' = [p \in Producers |-> IF p \in ps THEN <<>> ELSE message[p]]
    /\ surfaced' = [p \in Producers |-> IF p \in ps THEN <<>> ELSE surfaced[p]]
    /\ missed' = [p \in Producers |-> IF p \in ps THEN 0 ELSE missed[p]]

-----------------------------------------------------------------------------
(* The end of a Run, and what a panic or an error unwinds                  *)

Close_Forgotten(p) == open' = open
Close(p)           == open' = open \ {p}

Unlock_Forgotten(p) == streamMu' = streamMu
Unlock(p)           == streamMu' = IF streamMu = p THEN Nobody ELSE streamMu

HeardInPart(p) ==
    \/ Forwards(p) /\ heard[Tag(p)] # <<>>
    \/ HasObserver(p) /\ observed[Tag(p)] # <<>>

\* Execute returns the error; a panic becomes one in dispatch.  Locals are gone.
FailRun(p) ==
    /\ GoTo(p, "ended") /\ Close(p) /\ Unlock(p)
    /\ event' = [event EXCEPT ![p] = NoEvent] /\ NoAnswer({p})
    /\ answers' = [answers EXCEPT ![p] = 0]
    /\ cur' = [c \in Children |-> IF c = p THEN <<>> ELSE cur[c]]
    /\ final' = [c \in Children |-> IF c = p THEN <<>> ELSE final[c]]
    /\ result' = IF p = Top THEN result ELSE [result EXCEPT ![p] = Failure]
    /\ broken' = IF HeardInPart(p) THEN broken \cup {Tag(p)} ELSE broken
    /\ UNCHANGED <<batches, heard, observed>>

-----------------------------------------------------------------------------
(* Agent.complete and EventStream.Next                                     *)

MoreAnswers(p) == answers[p] < MaxAnswers

OpenStream(p) ==
    /\ pc[p] = "head" /\ MoreAnswers(p)
    /\ answers' = [answers EXCEPT ![p] = @ + 1] /\ NoAnswer({p})
    /\ open' = open \cup {p} /\ GoTo(p, "reading")
    /\ UNCHANGED <<event, cur, final, result, streamMu, batches, heard, observed, broken>>

\* NewStreaming fails, or the iterations are exhausted.
CompleteFails(p) == pc[p] = "head" /\ FailRun(p)

Token(p, kind) == <<p, answers[p], kind>>
Kind(e)        == e[3]

Surfaced_TextOnly(kind) == kind = "text"
Surfaced(kind)          == kind \in {"text", "thought"}

\* Execute's accumulate: the first of the handlers a child combines.
Accumulate_KeepsCur(p, e) ==
    IF p = Top THEN UNCHANGED <<cur, final>>
    ELSE IF Kind(e) = "text" THEN cur' = [cur EXCEPT ![p] = Append(@, e)] /\ UNCHANGED final
    ELSE IF Kind(e) = Done THEN final' = [final EXCEPT ![p] = cur[p]] /\ UNCHANGED cur
    ELSE UNCHANGED <<cur, final>>

Accumulate(p, e) ==
    IF p = Top THEN UNCHANGED <<cur, final>>
    ELSE IF Kind(e) = "text" THEN cur' = [cur EXCEPT ![p] = Append(@, e)] /\ UNCHANGED final
    ELSE IF Kind(e) = Done THEN /\ final' = [final EXCEPT ![p] = cur[p]]
                                /\ cur' = [cur EXCEPT ![p] = <<>>]
    ELSE UNCHANGED <<cur, final>>

AfterEvent(p, e)    == IF Kind(e) = Done THEN "answered" ELSE "reading"
AfterObserver(p, e) == IF Forwards(p) THEN "locking" ELSE AfterEvent(p, e)

\* The event goes through the handlers of its producer.
Deliver(p, e) ==
    /\ event' = [event EXCEPT ![p] = e]
    /\ Accumulate(p, e)
    /\ GoTo(p, IF p = Top THEN "handler"
               ELSE IF HasObserver(p) THEN "observer" ELSE AfterObserver(p, e))

\* Message.Accumulate: a delta it refuses is left out, and the error dropped.
AddToMessage(p, e) ==
    \/ message' = [message EXCEPT ![p] = Append(@, e)] /\ UNCHANGED missed
    \/ /\ missed[p] < MaxMisses[p] /\ missed' = [missed EXCEPT ![p] = @ + 1]
       /\ UNCHANGED message

\* One turn of Next's loop; a delta that is shown leaves it.
Read(p, kind) ==
    /\ pc[p] = "reading"
    /\ Len(message[p]) < MaxEvents[p] /\ Len(surfaced[p]) < MaxEvents[p]
    /\ AddToMessage(p, Token(p, kind))
    /\ IF Surfaced(kind)
         THEN /\ Deliver(p, Token(p, kind))
              /\ surfaced' = [surfaced EXCEPT ![p] = Append(@, Token(p, kind))]
         ELSE UNCHANGED <<pc, event, cur, final, surfaced>>
    /\ UNCHANGED <<open, answers, result, streamMu, batches, heard, observed, broken>>

\* The source ends and Err is nil, also when the message was cut short: EventDone,
\* before the body is closed.
EndOfStream(p) ==
    /\ pc[p] = "reading"
    /\ Deliver(p, Token(p, Done))
    /\ UNCHANGED <<answer, open, answers, result, streamMu, batches, heard, observed, broken>>

\* Cancellation, a broken connection, an error event.
StreamFails(p) == pc[p] = "reading" /\ FailRun(p)

-----------------------------------------------------------------------------
(* The handlers                                                            *)

Shown(line, e) == IF Kind(e) = Done THEN <<>> ELSE Append(line, e)

ObserverReturns(p) ==
    /\ pc[p] = "observer"
    /\ observed' = [observed EXCEPT ![Tag(p)] = Shown(@, event[p])]
    /\ GoTo(p, AfterObserver(p, event[p]))
    /\ UNCHANGED <<event, answer, open, answers, cur, final, result, streamMu, batches,
                   heard, broken>>

StreamFree == streamMu = Nobody

\* ForwardEvents tags the event; the parent's handler takes the mutex.
LockStream(c) ==
    /\ pc[c] = "locking" /\ StreamFree
    /\ streamMu' = c /\ GoTo(c, "handler")
    /\ UNCHANGED <<event, answer, open, answers, cur, final, result, batches, heard,
                   observed, broken>>

HandlerReturns(p) ==
    /\ pc[p] = "handler"
    /\ heard' = [heard EXCEPT ![Tag(p)] = Shown(@, event[p])]
    /\ Unlock(p) /\ GoTo(p, AfterEvent(p, event[p]))
    /\ UNCHANGED <<event, answer, open, answers, cur, final, result, batches, observed,
                   broken>>

HandlerPanics(p) == pc[p] \in {"observer", "handler"} /\ FailRun(p)

-----------------------------------------------------------------------------
(* After an answer                                                         *)

Answered(p) ==
    /\ pc[p] = "answered" /\ Close(p)
    /\ event' = [event EXCEPT ![p] = NoEvent]

EndRun(p) ==
    /\ Answered(p) /\ GoTo(p, "ended")
    /\ result' = IF p = Top THEN result ELSE [result EXCEPT ![p] = final[p]]
    /\ UNCHANGED <<answer, answers, cur, final, streamMu, batches, heard, observed, broken>>

\* A child's own tools run and it goes on.
NextAnswer(c) ==
    /\ c # Top /\ Answered(c) /\ GoTo(c, "head")
    /\ UNCHANGED <<answer, answers, cur, final, result, streamMu, batches, heard,
                   observed, broken>>

\* The answer of the parent is committed; it calls sub-agent tools.
StartBatch ==
    /\ batches < MaxBatches /\ Answered(Top)
    /\ batches' = batches + 1
    /\ \E called \in Batches :
         pc' = [p \in Producers |-> IF p = Top THEN "tools"
                                    ELSE IF p \in called THEN "head" ELSE pc[p]]
    /\ NoAnswer({Top})
    /\ UNCHANGED <<answers, cur, final, result, streamMu, heard, observed, broken>>

AllEnded_Any == \E c \in Children : pc[c] = "ended"
AllEnded     == \A c \in Children : pc[c] \in {"idle", "ended"}

\* Results are handed over; each Execute had builders and a Run of its own.
EndBatch ==
    /\ pc[Top] = "tools" /\ AllEnded
    /\ pc' = [p \in Producers |-> IF p = Top THEN "head"
                                  ELSE IF pc[p] = "ended" THEN "idle" ELSE pc[p]]
    /\ answers' = [p \in Producers |-> IF p = Top THEN answers[p] ELSE 0]
    /\ NoAnswer(Children)
    /\ cur' = [c \in Children |-> <<>>] /\ final' = [c \in Children |-> <<>>]
    /\ result' = [c \in Children |-> NoResult]
    /\ UNCHANGED <<event, open, streamMu, batches, heard, observed, broken>>

-----------------------------------------------------------------------------
Step(p) ==
    \/ OpenStream(p) \/ CompleteFails(p) \/ \E kind \in Kinds : Read(p, kind)
    \/ EndOfStream(p) \/ StreamFails(p) \/ ObserverReturns(p)
    \/ HandlerReturns(p) \/ HandlerPanics(p) \/ EndRun(p) \/ NextAnswer(p)

Next ==
    \/ \E p \in Producers : Step(p)
    \/ \E c \in Children : LockStream(c)
    \/ StartBatch \/ EndBatch

Spec == Init /\ [][Next]_vars

\* The goroutines are scheduled, handlers return, and a mutex that is free again and
\* again is had at last.
FairSpec ==
    /\ Spec /\ WF_vars(EndBatch)
    /\ \A p \in Producers : WF_vars(Step(p))
    /\ \A c \in Children : SF_vars(LockStream(c))

-----------------------------------------------------------------------------
(* Properties                                                              *)

\* The host's handler is never entered by two producers at once: children among each
\* other, nor a child and the Run itself, which takes no lock (agent.go:108-120).
HandlerSerial ==
    \A p, q \in Producers : pc[p] = "handler" /\ pc[q] = "handler" => p = q

TextsIn(m) == {i \in DOMAIN m : Kind(m[i]) = "text"}

HearsDone(p) == event[p] # NoEvent /\ Kind(event[p]) = Done

\* No other call to the definition of p runs, and no stream under its tag broke off.
OneStream(p) ==
    /\ Tag(p) \notin broken
    /\ \A c \in Children \ {p} : Tag(c) = Tag(p) => pc[c] = "idle"

ShownIn(m) == {i \in DOMAIN m : Kind(m[i]) \in {"text", "thought"}}

\* The deltas of m that are shown occur in the line, in their order, and are all of it
\* when whole.
OccursIn(m, line, whole) ==
    \E f \in [ShownIn(m) -> DOMAIN line] :
      /\ \A i, j \in ShownIn(m) : i < j => f[i] < f[j]
      /\ \A i \in ShownIn(m) : line[f[i]] = m[i]
      /\ whole => \A n \in DOMAIN line : \E i \in ShownIn(m) : f[i] = n

\* What is committed was shown, in its order, and is all of it unless Accumulate
\* refused a delta.
Told(p, line) == line = surfaced[p] /\ OccursIn(message[p], line, missed[p] = 0)

\* When the host, in its handler or in an Observer, hears EventDone under a tag, what
\* it heard under that tag since the EventDone before is what was shown of one answer,
\* in order and of no other stream, and the text and thinking of the message that is
\* committed occur in it in order: what Accumulate refused was heard all the same, and
\* nothing else was.  Calls to one definition in parallel and a stream that broke off
\* before are excepted; whether the model had finished its answer is not said (S2.3,
\* subagent.go:67-69, completer.go:88-112).
DoneEndsItsAnswer ==
    \A p \in Producers :
      HearsDone(p) /\ OneStream(p) =>
        /\ pc[p] = "handler" => Told(p, heard[Tag(p)])
        /\ pc[p] = "observer" => Told(p, observed[Tag(p)])

\* What Execute returns is the text shown of the child's last answer and of no other,
\* whatever was streamed before it (subagent.go:279-293, 334).
ResultIsLastAnswer ==
    \A c \in Children :
      pc[c] = "ended" /\ result[c] # Failure =>
        Picks(result[c], surfaced[c], TextsIn(surfaced[c]))

\* However a Run leaves complete, by an answer, an error or a panic of a handler, its
\* response body is closed and it holds the parent's stream no more.
NothingLeftOpen ==
    \A p \in Producers :
      pc[p] \in {"idle", "head", "tools", "ended"} => p \notin open /\ streamMu # p

\* The Run ends, through every contention for its handler and every panic in it.
RunEnds == <>(pc[Top] = "ended")
=============================================================================
