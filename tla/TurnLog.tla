------------------------------ MODULE TurnLog ------------------------------
(***************************************************************************)
(* What an Agent promises about everything it was ever told and answered:  *)
(* a log that only grows at its end, except that a Run may take back all   *)
(* it wrote itself.  Compaction and resumption do not show in it.          *)
(***************************************************************************)
EXTENDS Integers, Sequences

VARIABLES
    log,      \* the messages kept, the oldest first
    running,  \* is a Run in progress
    mark      \* how long the log was when that Run began

Init == log = <<>> /\ running = FALSE /\ mark = 0

\* One more message, after all that is there.
Grows ==
    /\ Len(log') = Len(log) + 1
    /\ SubSeq(log', 1, Len(log)) = log

RunGoesOn == running /\ running' /\ mark' = mark
RunEnds   == running /\ ~running' /\ mark' = 0

\* A Run begins with the message it was given.
Begin ==
    /\ ~running /\ running' /\ mark' = Len(log)
    /\ Grows

\* The Run writes, and may end with that.
Write == (RunGoesOn \/ RunEnds) /\ Grows

\* The Run ends and keeps what it wrote.
Keep == RunEnds /\ UNCHANGED log

TakeBack == RunEnds /\ log' = SubSeq(log, 1, mark)

Next == Begin \/ Write \/ Keep \/ TakeBack

Spec == Init /\ [][Next]_<<log, running, mark>>
=============================================================================
