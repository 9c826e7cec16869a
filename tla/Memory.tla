------------------------------- MODULE Memory -------------------------------
(***************************************************************************)
(* Who shares what memory: the conversation (agent/conversation.go), the   *)
(* copies of it that requests, strategies, archives and the host hold, and *)
(* the cache marker that buildRequestFrom (agent/agent.go) writes into a   *)
(* request and never into the history.                                     *)
(*                                                                         *)
(* A slice of messages is a window on a backing array, whose elements      *)
(* point to a role variant, which points to its content, which points to   *)
(* a block; copying a slice copies the pointers only.  A message has one   *)
(* block, what it says.  The host (Completer, hooks, strategy, archive)    *)
(* may overwrite the elements of any slice it was handed and append to it; *)
(* it does not write through them into the blocks that copies share, which *)
(* ConversationState.Messages, a shallow copy, does not keep it from.      *)
(***************************************************************************)
EXTENDS Integers, Sequences, SequencesExt

CONSTANTS
    Unmarkable,   \* messages whose last block takes no cache marker (thinking)
    Caching,      \* ~Config.DisablePromptCaching
    MaxMessages,  \* bound: messages appended
    MaxHanded,    \* bound: slices in the hands of the host
    MaxArrays     \* bound: arrays allocated when the host still resumes or compacts

ASSUME MemoryAssumption ==
    Unmarkable \subseteq Nat /\ Caching \in BOOLEAN /\ MaxMessages \in Nat /\ MaxHanded \in Nat
    /\ MaxArrays \in Nat

VARIABLES
    arrays,        \* backing arrays of message slices; 0 is an unset element
    variants,      \* role variants: the content each points to
    contents,      \* content slices: the block each holds
    blocks,        \* [says, marked]
    conversation,  \* ConversationState.messages
    handed,        \* slices the host holds, with what it expects to read
    sent           \* messages appended so far

heap == <<arrays, variants, contents, blocks>>
vars == <<heap, conversation, handed, sent>>

Slice(a, n) == [arr |-> a, len |-> n]
NilSlice    == Slice(0, 0)

\* What the host itself writes, and what a strategy puts in place of a prefix.
Foreign == 1
Host    == 0
Summary == -1

Init ==
    /\ arrays = <<>> /\ variants = <<1>> /\ contents = <<1>>
    /\ blocks = <<[says |-> Host, marked |-> FALSE]>>
    /\ conversation = NilSlice /\ handed = <<>> /\ sent = 0

BlockOf(v) == blocks[contents[variants[v]]]

Elements(s) == IF s.len = 0 THEN <<>> ELSE SubSeq(arrays[s.arr], 1, s.len)

Read(s) == [i \in 1..s.len |-> BlockOf(arrays[s.arr][i])]

-----------------------------------------------------------------------------
(* Go: append, make and copy, new                                          *)

\* append(s, v): in place while there is capacity, else in an array twice as long.
Grown(s, v) ==
    [i \in 1..(IF s.len = 0 THEN 1 ELSE 2 * s.len) |->
       IF i <= s.len THEN arrays[s.arr][i] ELSE IF i = s.len + 1 THEN v ELSE 0]

HasRoom(s) == s.arr # 0 /\ s.len < Len(arrays[s.arr])

AppendTo(s, v) ==
    IF HasRoom(s) THEN [arrays |-> [arrays EXCEPT ![s.arr][s.len + 1] = v],
                        slice  |-> Slice(s.arr, s.len + 1)]
    ELSE [arrays |-> Append(arrays, Grown(s, v)), slice |-> Slice(Len(arrays) + 1, s.len + 1)]

\* A fresh array that holds vs.
Fresh(vs) == [arrays |-> Append(arrays, vs), slice |-> Slice(Len(arrays) + 1, Len(vs))]

NewVariant == Len(variants) + 1

\* A message of one block of its own.
NewMessage(says) ==
    /\ blocks'   = Append(blocks, [says |-> says, marked |-> FALSE])
    /\ contents' = Append(contents, Len(blocks) + 1)
    /\ variants' = Append(variants, Len(contents) + 1)

-----------------------------------------------------------------------------
(* agent/conversation.go                                                   *)

AppendMessage ==
    /\ sent < MaxMessages /\ sent' = sent + 1
    /\ NewMessage(sent + 1)
    /\ LET r == AppendTo(conversation, NewVariant)
       IN  arrays' = r.arrays /\ conversation' = r.slice
    /\ UNCHANGED handed

Shortened(n) == IF n >= conversation.len THEN 0 ELSE conversation.len - n

\* The backing array stays, and with it what the removed messages held.
Rollback ==
    /\ \E n \in 1..MaxMessages : conversation' = [conversation EXCEPT !.len = Shortened(n)]
    /\ UNCHANGED <<heap, handed, sent>>

Messages(s) == Fresh(Elements(s))

Hand(s, kind, reads) ==
    handed' = Append(handed, [slice |-> s, kind |-> kind, reads |-> reads])

MayHand == Len(handed) < MaxHanded

\* Agent.Conversation, and the history a strategy is called with.
GiveConversation ==
    /\ MayHand
    /\ LET r == Messages(conversation)
       IN  arrays' = r.arrays /\ Hand(r.slice, "history", Read(conversation))
    /\ UNCHANGED <<variants, contents, blocks, conversation, sent>>

\* NewAgentWithHistory.
Resumed_Aliased(s) == [arrays |-> arrays, slice |-> s]
Resumed(s)         == Fresh(Elements(s))

Resume ==
    /\ Len(arrays) < MaxArrays
    /\ \E h \in ToSet(handed) :
         /\ h.kind = "history"
         /\ LET r == Resumed(h.slice) IN arrays' = r.arrays /\ conversation' = r.slice
    /\ UNCHANGED <<variants, contents, blocks, handed, sent>>

-----------------------------------------------------------------------------
(* compactCommitted, transientMessages (agent/compaction.go)               *)

\* A strategy summarises a prefix, in an array of its own with room for one message
\* more, which it may keep and propose again.
Summarize ==
    /\ MayHand
    /\ NewMessage(Summary)
    /\ arrays' = Append(arrays, <<NewVariant, 0>>)
    /\ Hand(Slice(Len(arrays) + 1, 1), "replacement", <<[says |-> Summary, marked |-> FALSE]>>)
    /\ UNCHANGED <<conversation, sent>>

\* A sliding window proposes nothing in place of the prefix.
Replacements == {NilSlice} \cup {h.slice : h \in {g \in ToSet(handed) : g.kind = "replacement"}}

Prefix(cut) == SubSeq(Elements(conversation), 1, cut)
Kept(cut)   == SubSeq(Elements(conversation), cut + 1, conversation.len)

\* The composed history lies in a fresh slice: not in the array of the strategy's
\* replacement, which the strategy may keep, nor in that of the conversation.
Composed_InReplacement(r, cut) ==
    LET n == r.len + Len(Kept(cut))
    IN  IF r.len > 0 /\ n <= Len(arrays[r.arr])
        THEN [arrays |-> [arrays EXCEPT ![r.arr] = Elements(r) \o Kept(cut) \o SubSeq(@, n + 1, Len(@))],
              slice  |-> Slice(r.arr, n)]
        ELSE Fresh(Elements(r) \o Kept(cut))

Composed(r, cut) == Fresh(Elements(r) \o Kept(cut))

\* The replaced prefix, copied for the archive, which may keep it.
Archived(as, cut) == [arrays |-> Append(as, Prefix(cut)), slice |-> Slice(Len(as) + 1, cut)]

CompactCommitted ==
    /\ Len(arrays) < MaxArrays
    /\ \E r \in Replacements, cut \in 1..conversation.len :
         LET c == Composed(r, cut)
             p == Archived(c.arrays, cut)
         IN  /\ conversation' = c.slice
             /\ \/ /\ MayHand /\ arrays' = p.arrays
                   /\ Hand(p.slice, "archived", Read(Slice(conversation.arr, cut)))
                \/ arrays' = c.arrays /\ UNCHANGED handed
    /\ UNCHANGED <<variants, contents, blocks, sent>>

-----------------------------------------------------------------------------
(* buildRequestFrom, setCacheControlOnContentBlock (agent/agent.go)        *)

\* The message that carries the marker of the conversation, or none.
MarkedIndex_Last(n) == n
MarkedIndex(n)      == n - 1

Takes(v) == BlockOf(v).says \notin Unmarkable

\* The block is cloned, its content copied and its variant allocated anew.
MarkIn_Shared(as, s, i) ==
    LET v == as[s.arr][i]
    IN  /\ blocks' = [blocks EXCEPT ![contents[variants[v]]].marked = TRUE]
        /\ UNCHANGED <<variants, contents>> /\ arrays' = as

MarkIn(as, s, i) ==
    LET v == as[s.arr][i]
    IN  /\ blocks'   = Append(blocks, [BlockOf(v) EXCEPT !.marked = TRUE])
        /\ contents' = Append(contents, Len(blocks) + 1)
        /\ variants' = Append(variants, Len(contents) + 1)
        /\ arrays'   = [as EXCEPT ![s.arr][i] = NewVariant]

\* What a request shows of the conversation: all of it, or a strategy's transient view.
Views ==
    {Elements(conversation)}
      \cup {Elements(r) \o Kept(cut) : r \in Replacements, cut \in 1..conversation.len}

\* The Completer is handed the request.
BuildRequest ==
    /\ MayHand /\ conversation.len > 0
    /\ \E view \in Views :
         LET r == Fresh(view)
             n == Len(view)
         IN  /\ IF Caching /\ n >= 2 /\ Takes(view[MarkedIndex(n)])
                  THEN MarkIn(r.arrays, r.slice, MarkedIndex(n))
                  ELSE arrays' = r.arrays /\ UNCHANGED <<variants, contents, blocks>>
             /\ \E s \in {r.slice} : Hand(s, "request", Read(s)')
    /\ UNCHANGED <<conversation, sent>>

-----------------------------------------------------------------------------
(* The host and the slices it holds                                        *)

\* The host's own view of a slice after it wrote x at i.
HostWrites ==
    \E n \in DOMAIN handed :
      LET h == handed[n]
      IN  /\ \E i \in 1..h.slice.len :
               /\ arrays[h.slice.arr][i] # Foreign
               /\ arrays' = [arrays EXCEPT ![h.slice.arr][i] = Foreign]
               /\ handed' = [handed EXCEPT ![n].reads[i] = BlockOf(Foreign), ![n].kind = "written"]
          /\ UNCHANGED <<variants, contents, blocks, conversation, sent>>

HostAppends ==
    \E n \in DOMAIN handed :
      LET h == handed[n]
          r == AppendTo(h.slice, Foreign)
      IN  /\ h.kind # "written"
          /\ arrays' = r.arrays
          /\ handed' = [handed EXCEPT ![n] = [slice |-> r.slice, kind |-> "written",
                                              reads |-> Append(h.reads, BlockOf(Foreign))]]
          /\ UNCHANGED <<variants, contents, blocks, conversation, sent>>

-----------------------------------------------------------------------------
Next ==
    \/ AppendMessage \/ Rollback \/ GiveConversation \/ Resume \/ Summarize
    \/ CompactCommitted \/ BuildRequest \/ HostWrites \/ HostAppends

Spec == Init /\ [][Next]_vars

-----------------------------------------------------------------------------
(* Properties                                                              *)

\* A slice the host was handed, a copy, a request, a strategy's replacement or an archived
\* prefix, reads what it read then, but for the elements the host wrote itself: no append,
\* rollback, compaction or later request shows through, as long as nobody writes into the
\* blocks that the copies share (conversation.go:17-22, agent.go:371-373).
HandedUnchanged == \A h \in ToSet(handed) : Read(h.slice) = h.reads

\* A request carries one marker, on its second-to-last message, however many requests
\* were built before from messages they share (s2-functionality.md:537-545).
OneMarker ==
    \A h \in ToSet(handed) :
      h.kind = "request" =>
        LET marked == {i \in DOMAIN h.reads : h.reads[i].marked}
            n      == Len(h.reads) - 1
        IN  marked = IF Caching /\ n >= 1 /\ h.reads[n].says \notin Unmarkable THEN {n} ELSE {}

\* Reading the conversation after a run shows no cache marker
\* (s2-functionality.md:550-552).
HistoryUnmarked == \A i \in 1..conversation.len : ~Read(conversation)[i].marked

Says(reads) == [i \in DOMAIN reads |-> reads[i].says]

C == INSTANCE Conversation WITH
       Message <- {Host, Summary} \cup 1..MaxMessages,
       history <- Says(Read(conversation)),
       given   <- {Says(h.reads) : h \in {g \in ToSet(handed) : g.kind = "history"}}

\* The conversation is a value: only its own operations change it, whatever elements the
\* host writes or appends in the slices it holds, and a resumed one equals what was given
\* out (S2.6, s2-functionality.md:805-811).
ImplementsConversation == C!Spec
=============================================================================
