---------------------------- MODULE Conversation ----------------------------
(***************************************************************************)
(* What a conversation promises, in values: a list of messages that is     *)
(* appended to, shortened at its end, compacted at its beginning and given *)
(* out, and that an Agent resumed from a list given out equals.  Nothing   *)
(* else that the library or its host does changes it.                      *)
(***************************************************************************)
EXTENDS Integers, Sequences

CONSTANT Message

VARIABLES
    history,   \* the committed messages
    given      \* the histories given to the host

Init == history = <<>> /\ given = {}

AppendMessage ==
    /\ \E m \in Message : history' = Append(history, m)
    /\ UNCHANGED given

TakeBack ==
    /\ \E n \in 0..Len(history) : history' = SubSeq(history, 1, n)
    /\ UNCHANGED given

Compact ==
    /\ \E cut \in 1..Len(history), replacement \in {<<>>} \cup {<<m>> : m \in Message} :
         history' = replacement \o SubSeq(history, cut + 1, Len(history))
    /\ UNCHANGED given

Give == given' = given \cup {history} /\ UNCHANGED history

\* The host may lose or overwrite what it was given.
Forget == given' \in SUBSET given /\ UNCHANGED history

Resume == history' \in given /\ UNCHANGED given

Next == AppendMessage \/ TakeBack \/ Compact \/ Give \/ Forget \/ Resume

Spec == Init /\ [][Next]_<<history, given>>
=============================================================================
