---------------------------- MODULE MemoryProofs ----------------------------
(***************************************************************************)
(* What the host was handed stays as it read it, requests carry one cache  *)
(* marker and the history none, and the conversation is a value, for       *)
(* conversations of any length and any number of slices in the hands of a  *)
(* host that overwrites their elements and appends to them as it likes.    *)
(*                                                                         *)
(* The heap of Memory is passed as arguments here: ar are the arrays, vs   *)
(* the variants, cs the contents and bs the blocks.                        *)
(***************************************************************************)
EXTENDS Memory, SequenceTheorems, TLAPS

Block      == [says : Int, marked : BOOLEAN]
SliceType  == [arr : Nat, len : Nat]
Kinds      == {"history", "request", "replacement", "archived", "written"}
HandedType == [slice : SliceType, kind : Kinds, reads : Seq(Block)]

\* Every pointer leads somewhere, and the first message is the host's own.
Heap(ar, vs, cs, bs) ==
    /\ ar \in Seq(Seq(Nat)) /\ vs \in Seq(Nat) /\ cs \in Seq(Nat) /\ bs \in Seq(Block)
    /\ \A v \in 1..Len(vs) : vs[v] \in 1..Len(cs)
    /\ \A c \in 1..Len(cs) : cs[c] \in 1..Len(bs)
    /\ Len(vs) >= 1 /\ bs[cs[vs[1]]] = [says |-> Host, marked |-> FALSE]

\* s is a window on an array, on elements that are set: they point to one of n variants.
Lies(ar, n, s) ==
    /\ s \in SliceType /\ s.arr \in 0..Len(ar)
    /\ s.arr = 0 => s.len = 0
    /\ s.arr > 0 => s.len <= Len(ar[s.arr])
    /\ \A i \in 1..s.len : ar[s.arr][i] \in 1..n

Shown(ar, vs, cs, bs, s) == [i \in 1..s.len |-> bs[cs[vs[ar[s.arr][i]]]]]

\* t is s with more at its end.
More(t, s) == Len(s) <= Len(t) /\ \A i \in 1..Len(s) : t[i] = s[i]

Grows(vs, cs, bs, vs2, cs2, bs2) == More(vs2, vs) /\ More(cs2, cs) /\ More(bs2, bs)

\* b is allocated, with a content and a variant that lead to it.
Allocates(b, vs, cs, bs, vs2, cs2, bs2) ==
    vs2 = Append(vs, Len(cs) + 1) /\ cs2 = Append(cs, Len(bs) + 1) /\ bs2 = Append(bs, b)

\* ar2 has all arrays of ar, and array a as it was.
KeptIn(ar2, ar, a) == Len(ar) <= Len(ar2) /\ (a > 0 => ar2[a] = ar[a])

\* x points to n variants at most, and what these say.
Pointing(x, n) == x \in Seq(Nat) /\ \A i \in 1..Len(x) : x[i] \in 1..n

Told(vs, cs, bs, x) == [i \in 1..Len(x) |-> bs[cs[vs[x[i]]]]]

\* The block of a message that a strategy puts in place of a prefix.
SummaryBlock == [says |-> Summary, marked |-> FALSE]

Unmarked(reads) == \A i \in DOMAIN reads : ~reads[i].marked

MarkedOnce(reads) ==
    LET n == Len(reads) - 1
    IN  {i \in DOMAIN reads : reads[i].marked}
          = IF Caching /\ n >= 1 /\ reads[n].says \notin Unmarkable THEN {n} ELSE {}

\* The host reads in h what it was given or wrote, and no marker but that of a request.
Held(ar, vs, cs, bs, h) ==
    /\ Lies(ar, Len(vs), h.slice) /\ h.slice.arr > 0
    /\ h.reads = Shown(ar, vs, cs, bs, h.slice)
    /\ h.kind = "history" => Unmarked(h.reads)
    /\ h.kind = "request" => MarkedOnce(h.reads)
    /\ h.kind = "replacement" => h.reads = <<SummaryBlock>>

Typed ==
    /\ Heap(arrays, variants, contents, blocks)
    /\ handed \in Seq(HandedType) /\ sent \in Nat

\* What the conversation says.
Remembered == Shown(arrays, variants, contents, blocks, conversation)

Committed == Lies(arrays, Len(variants), conversation) /\ Unmarked(Remembered)

Truthful == \A n \in 1..Len(handed) : Held(arrays, variants, contents, blocks, handed[n])

\* No two slices share an array.
Apart ==
    /\ \A n \in 1..Len(handed) : handed[n].slice.arr # conversation.arr
    /\ \A n, m \in 1..Len(handed) : n # m => handed[n].slice.arr # handed[m].slice.arr

MemoryInv == Typed /\ Committed /\ Truthful /\ Apart

-----------------------------------------------------------------------------
(* The heap                                                                *)

LEMMA HeapTypes ==
    ASSUME NEW ar, NEW vs, NEW cs, NEW bs, Heap(ar, vs, cs, bs)
    PROVE  /\ ar \in Seq(Seq(Nat)) /\ vs \in Seq(Nat) /\ cs \in Seq(Nat) /\ bs \in Seq(Block)
           /\ Len(ar) \in Nat /\ Len(vs) \in Nat /\ Len(cs) \in Nat /\ Len(bs) \in Nat
           /\ Len(vs) >= 1 /\ 1 \in 1..Len(vs)
  <1>1. /\ ar \in Seq(Seq(Nat)) /\ vs \in Seq(Nat) /\ cs \in Seq(Nat) /\ bs \in Seq(Block)
        /\ Len(vs) >= 1
    BY DEF Heap
  <1>2. Len(ar) \in Nat /\ Len(vs) \in Nat /\ Len(cs) \in Nat /\ Len(bs) \in Nat
    BY <1>1, LenProperties
  <1> QED
    BY <1>1, <1>2

LEMMA ShownSeq ==
    ASSUME NEW ar, NEW vs, NEW cs, NEW bs, Heap(ar, vs, cs, bs), NEW s, Lies(ar, Len(vs), s)
    PROVE  /\ Shown(ar, vs, cs, bs, s) \in Seq(Block)
           /\ Len(Shown(ar, vs, cs, bs, s)) = s.len
  <1>1. s.len \in Nat
    BY DEF Lies, SliceType
  <1>2. \A i \in 1..s.len : bs[cs[vs[ar[s.arr][i]]]] \in Block
    <2> TAKE i \in 1..s.len
    <2>1. ar[s.arr][i] \in 1..Len(vs)
      BY DEF Lies
    <2>2. vs[ar[s.arr][i]] \in 1..Len(cs)
      BY <2>1 DEF Heap
    <2>3. cs[vs[ar[s.arr][i]]] \in 1..Len(bs)
      BY <2>2 DEF Heap
    <2> QED
      BY <2>3, HeapTypes, ElementOfSeq
  <1> DEFINE f == Shown(ar, vs, cs, bs, s)
  <1>3. /\ f \in [1..s.len -> Block] /\ DOMAIN f = 1..s.len
        /\ \A i \in 1..s.len : f[i] = bs[cs[vs[ar[s.arr][i]]]]
    BY <1>2 DEF Shown
  <1> HIDE DEF f
  <1>4. f \in Seq(Block) /\ Len(f) = s.len
    <2> DEFINE n == s.len
    <2>1. n \in Nat /\ f \in [1..n -> Block]
      BY <1>1, <1>3
    <2> HIDE DEF n
    <2>2. f \in Seq(Block) /\ Len(f) = n
      BY <2>1
    <2> QED
      BY <2>2 DEF n
  <1> QED
    BY <1>3, <1>4 DEF f

LEMMA ShownNow ==
    ASSUME Heap(arrays, variants, contents, blocks), NEW s, Lies(arrays, Len(variants), s)
    PROVE  LET f == Shown(arrays, variants, contents, blocks, s)
           IN  /\ f \in Seq(Block) /\ Len(f) = s.len /\ DOMAIN f = 1..s.len /\ s.len \in Nat
               /\ \A i \in 1..s.len :
                    f[i] = blocks[contents[variants[arrays[s.arr][i]]]] /\ f[i] \in Block
  <1> DEFINE f == Shown(arrays, variants, contents, blocks, s)
  <1>1. /\ f \in Seq(Block) /\ Len(f) = s.len /\ DOMAIN f = 1..s.len
        /\ \A i \in 1..s.len : f[i] = blocks[contents[variants[arrays[s.arr][i]]]]
    <2>1. f \in Seq(Block) /\ Len(f) = s.len
      BY ShownSeq
    <2>2. /\ DOMAIN f = 1..s.len
          /\ \A i \in 1..s.len : f[i] = blocks[contents[variants[arrays[s.arr][i]]]]
      BY DEF Shown
    <2> QED
      BY <2>1, <2>2
  <1>2. s.len \in Nat
    BY DEF Lies, SliceType
  <1> HIDE DEF f
  <1>3. \A i \in 1..s.len : f[i] \in Block
    BY <1>1, ElementOfSeq
  <1> QED
    BY <1>1, <1>2, <1>3 DEF f

\* What is allocated does not change what is there.
LEMMA BlocksKept ==
    ASSUME NEW ar, NEW vs, NEW cs, NEW bs, Heap(ar, vs, cs, bs),
           NEW vs2, NEW cs2, NEW bs2, Grows(vs, cs, bs, vs2, cs2, bs2),
           NEW v \in 1..Len(vs)
    PROVE  bs2[cs2[vs2[v]]] = bs[cs[vs[v]]]
  <1>1. vs2[v] = vs[v] /\ vs[v] \in 1..Len(cs)
    BY DEF Grows, More, Heap
  <1>2. cs2[vs[v]] = cs[vs[v]] /\ cs[vs[v]] \in 1..Len(bs)
    BY <1>1 DEF Grows, More, Heap
  <1> QED
    BY <1>1, <1>2 DEF Grows, More

\* Nor does a write to an array show in a slice of another.
LEMMA ShownKept ==
    ASSUME NEW ar, NEW vs, NEW cs, NEW bs, Heap(ar, vs, cs, bs),
           NEW ar2, NEW vs2, NEW cs2, NEW bs2, Heap(ar2, vs2, cs2, bs2),
           Grows(vs, cs, bs, vs2, cs2, bs2),
           NEW s, Lies(ar, Len(vs), s),
           KeptIn(ar2, ar, s.arr)
    PROVE  /\ Lies(ar2, Len(vs2), s)
           /\ Shown(ar2, vs2, cs2, bs2, s) = Shown(ar, vs, cs, bs, s)
  <1>1. /\ s \in SliceType /\ s.arr \in Nat /\ s.len \in Nat /\ s.arr \in 0..Len(ar)
        /\ Len(ar) \in Nat /\ Len(ar2) \in Nat /\ Len(vs) \in Nat /\ Len(vs2) \in Nat
        /\ Len(vs) <= Len(vs2)
    <2>1. s \in SliceType /\ s.arr \in 0..Len(ar) /\ Len(vs) <= Len(vs2)
      BY DEF Lies, Grows, More
    <2>2. s.arr \in Nat /\ s.len \in Nat
      BY <2>1 DEF SliceType
    <2> QED
      BY <2>1, <2>2, HeapTypes
  <1>2. s.arr \in 0..Len(ar2)
    BY <1>1 DEF KeptIn
  <1>3. \A i \in 1..s.len : ar2[s.arr][i] = ar[s.arr][i] /\ ar[s.arr][i] \in 1..Len(vs)
    <2>1. CASE s.arr > 0
      BY <2>1 DEF Lies, KeptIn
    <2>2. CASE ~(s.arr > 0)
      <3>1. s.len = 0
        BY <1>1, <2>2 DEF Lies
      <3> QED
        BY <3>1
    <2> QED
      BY <2>1, <2>2
  <1>4. Lies(ar2, Len(vs2), s)
    <2>1. 1..Len(vs) \subseteq 1..Len(vs2)
      BY <1>1
    <2>2. \A i \in 1..s.len : ar2[s.arr][i] \in 1..Len(vs2)
      BY <1>3, <2>1
    <2> QED
      BY <1>1, <1>2, <2>2 DEF Lies, KeptIn
  <1>5. \A i \in 1..s.len : bs2[cs2[vs2[ar2[s.arr][i]]]] = bs[cs[vs[ar[s.arr][i]]]]
    <2> TAKE i \in 1..s.len
    <2>1. ar2[s.arr][i] = ar[s.arr][i] /\ ar[s.arr][i] \in 1..Len(vs)
      BY <1>3
    <2> DEFINE v == ar[s.arr][i]
    <2>2. v \in 1..Len(vs)
      BY <2>1
    <2> HIDE DEF v
    <2>3. bs2[cs2[vs2[v]]] = bs[cs[vs[v]]]
      BY <2>2, BlocksKept
    <2> QED
      BY <2>1, <2>3 DEF v
  <1> QED
    BY <1>4, <1>5 DEF Shown

LEMMA Same ==
    ASSUME NEW s, s \in Seq(Nat) \/ s \in Seq(Block)
    PROVE  More(s, s)
  BY DEF More

LEMMA Allocated ==
    ASSUME NEW ar, NEW vs, NEW cs, NEW bs, Heap(ar, vs, cs, bs),
           NEW ar2 \in Seq(Seq(Nat)), NEW b \in Block,
           NEW vs2, NEW cs2, NEW bs2,
           Allocates(b, vs, cs, bs, vs2, cs2, bs2)
    PROVE  /\ Heap(ar2, vs2, cs2, bs2)
           /\ Grows(vs, cs, bs, vs2, cs2, bs2)
           /\ Len(vs2) = Len(vs) + 1 /\ Len(vs) + 1 \in 1..Len(vs2)
           /\ bs2[cs2[vs2[Len(vs) + 1]]] = b
  <1>1. /\ vs \in Seq(Nat) /\ cs \in Seq(Nat) /\ bs \in Seq(Block)
        /\ Len(vs) \in Nat /\ Len(cs) \in Nat /\ Len(bs) \in Nat /\ Len(vs) >= 1
    BY DEF Heap
  <1>2. /\ vs2 \in Seq(Nat) /\ Len(vs2) = Len(vs) + 1 /\ vs2[Len(vs) + 1] = Len(cs) + 1
        /\ \A i \in 1..Len(vs) : vs2[i] = vs[i]
    BY <1>1 DEF Allocates
  <1>3. /\ cs2 \in Seq(Nat) /\ Len(cs2) = Len(cs) + 1 /\ cs2[Len(cs) + 1] = Len(bs) + 1
        /\ \A i \in 1..Len(cs) : cs2[i] = cs[i]
    BY <1>1 DEF Allocates
  <1>4. /\ bs2 \in Seq(Block) /\ Len(bs2) = Len(bs) + 1 /\ bs2[Len(bs) + 1] = b
        /\ \A i \in 1..Len(bs) : bs2[i] = bs[i]
    BY <1>1 DEF Allocates
  <1>5. Grows(vs, cs, bs, vs2, cs2, bs2)
    BY <1>1, <1>2, <1>3, <1>4 DEF Grows, More
  <1>6. \A v \in 1..Len(vs2) : vs2[v] \in 1..Len(cs2)
    <2> TAKE v \in 1..Len(vs2)
    <2>1. CASE v \in 1..Len(vs)
      <3>1. vs2[v] \in 1..Len(cs)
        BY <1>2, <2>1 DEF Heap
      <3> QED
        BY <1>1, <1>3, <3>1
    <2>2. CASE v = Len(vs) + 1
      BY <1>1, <1>2, <1>3, <2>2
    <2>3. v \in 1..Len(vs) \/ v = Len(vs) + 1
      BY <1>1, <1>2
    <2> QED
      BY <2>1, <2>2, <2>3
  <1>7. \A c \in 1..Len(cs2) : cs2[c] \in 1..Len(bs2)
    <2> TAKE c \in 1..Len(cs2)
    <2>1. CASE c \in 1..Len(cs)
      <3>1. cs2[c] \in 1..Len(bs)
        BY <1>3, <2>1 DEF Heap
      <3> QED
        BY <1>1, <1>4, <3>1
    <2>2. CASE c = Len(cs) + 1
      BY <1>1, <1>3, <1>4, <2>2
    <2>3. c \in 1..Len(cs) \/ c = Len(cs) + 1
      <3>1. Len(cs) \in Nat /\ Len(cs2) = Len(cs) + 1
        BY <1>1, <1>3
      <3> QED
        BY <3>1
    <2> QED
      BY <2>1, <2>2, <2>3
  <1>8. 1 \in 1..Len(vs) /\ bs2[cs2[vs2[1]]] = bs[cs[vs[1]]]
    <2>1. 1 \in 1..Len(vs)
      BY <1>1
    <2>2. \A v \in 1..Len(vs) : bs2[cs2[vs2[v]]] = bs[cs[vs[v]]]
      BY <1>5, BlocksKept
    <2> QED
      BY <2>1, <2>2
  <1>9. Heap(ar2, vs2, cs2, bs2)
    <2>1. bs2[cs2[vs2[1]]] = [says |-> Host, marked |-> FALSE]
      BY <1>8 DEF Heap
    <2>2. Len(vs2) >= 1
      BY <1>1, <1>2
    <2> QED
      BY <1>2, <1>3, <1>4, <1>6, <1>7, <2>1, <2>2 DEF Heap
  <1> QED
    BY <1>1, <1>2, <1>3, <1>4, <1>5, <1>9

-----------------------------------------------------------------------------
(* Slices                                                                  *)

\* ar2 has the arrays of ar, all but array a as they were.
KeptBut(ar2, ar, a) ==
    Len(ar) <= Len(ar2) /\ \A b \in 1..Len(ar) : b # a => ar2[b] = ar[b]

LEMMA ElementsFacts ==
    ASSUME Heap(arrays, variants, contents, blocks), NEW s, Lies(arrays, Len(variants), s)
    PROVE  /\ Elements(s) \in Seq(Nat) /\ Len(Elements(s)) = s.len /\ s.len \in Nat
           /\ \A i \in 1..s.len : Elements(s)[i] = arrays[s.arr][i]
  <1>1. /\ s.len \in Nat /\ s.arr \in 0..Len(arrays) /\ Len(arrays) \in Nat
        /\ arrays \in Seq(Seq(Nat))
    BY HeapTypes DEF Lies, SliceType
  <1>2. CASE s.len = 0
    BY <1>2 DEF Elements
  <1>3. CASE s.len # 0
    <2>1. s.arr \in 1..Len(arrays) /\ s.len <= Len(arrays[s.arr])
      BY <1>1, <1>3 DEF Lies
    <2>2. arrays[s.arr] \in Seq(Nat)
      BY <1>1, <2>1, ElementOfSeq
    <2> DEFINE a == arrays[s.arr]
               n == s.len
    <2>3. Elements(s) = SubSeq(a, 1, n)
      BY <1>3 DEF Elements
    <2>4. a \in Seq(Nat) /\ n \in Nat /\ n <= Len(a)
      BY <1>1, <2>1, <2>2
    <2> HIDE DEF a, n
    <2>5. /\ SubSeq(a, 1, n) \in Seq(Nat) /\ Len(SubSeq(a, 1, n)) = n
          /\ \A i \in 1..n : SubSeq(a, 1, n)[i] = a[i]
      BY <2>4
    <2> QED
      BY <1>1, <2>3, <2>5 DEF a, n
  <1> QED
    BY <1>2, <1>3

\* An array of its own reads what its elements tell.
LEMMA Appended ==
    ASSUME NEW ar, NEW vs, NEW cs, NEW bs, Heap(ar, vs, cs, bs), NEW x, Pointing(x, Len(vs))
    PROVE  LET ar2 == Append(ar, x)
               s   == Slice(Len(ar) + 1, Len(x))
           IN  /\ ar2 \in Seq(Seq(Nat)) /\ Len(ar2) = Len(ar) + 1 /\ ar2[Len(ar) + 1] = x
               /\ KeptBut(ar2, ar, 0) /\ Heap(ar2, vs, cs, bs)
               /\ s \in SliceType /\ s.arr = Len(ar) + 1 /\ s.len = Len(x)
               /\ Lies(ar2, Len(vs), s)
               /\ Shown(ar2, vs, cs, bs, s) = Told(vs, cs, bs, x)
  <1> DEFINE ar2 == Append(ar, x)
             k   == Len(ar) + 1
             n   == Len(x)
             s   == Slice(k, n)
  <1>1. x \in Seq(Nat) /\ n \in Nat /\ \A i \in 1..n : x[i] \in 1..Len(vs)
    BY LenProperties DEF Pointing
  <1>2. ar \in Seq(Seq(Nat)) /\ Len(ar) \in Nat
    BY HeapTypes
  <1>3. /\ ar2 \in Seq(Seq(Nat)) /\ Len(ar2) = k /\ ar2[k] = x
        /\ \A b \in 1..Len(ar) : ar2[b] = ar[b]
    BY <1>1, <1>2
  <1>4. k \in Nat /\ k > 0 /\ k # 0 /\ k \in 0..k /\ Len(ar) <= k /\ n <= n
    BY <1>1, <1>2
  <1> HIDE DEF k, n, ar2
  <1>5. s.arr = k /\ s.len = n /\ s \in SliceType
    BY <1>1, <1>4 DEF SliceType, Slice
  <1> HIDE DEF s
  <1>6. Lies(ar2, Len(vs), s)
    BY <1>1, <1>3, <1>4, <1>5 DEF Lies, n
  <1>7. Shown(ar2, vs, cs, bs, s) = Told(vs, cs, bs, x)
    BY <1>3, <1>5 DEF Shown, Told, n
  <1>8. KeptBut(ar2, ar, 0)
    BY <1>3, <1>4 DEF KeptBut
  <1>9. Heap(ar2, vs, cs, bs)
    BY <1>3 DEF Heap
  <1> QED
    BY <1>3, <1>5, <1>6, <1>7, <1>8, <1>9 DEF ar2, s, k, n

LEMMA ElementsTold ==
    ASSUME Heap(arrays, variants, contents, blocks), NEW s, Lies(arrays, Len(variants), s)
    PROVE  /\ Pointing(Elements(s), Len(variants))
           /\ Told(variants, contents, blocks, Elements(s))
                = Shown(arrays, variants, contents, blocks, s)
  <1>1. /\ Elements(s) \in Seq(Nat) /\ Len(Elements(s)) = s.len
        /\ \A i \in 1..s.len : Elements(s)[i] = arrays[s.arr][i]
    BY ElementsFacts
  <1>2. \A i \in 1..s.len : arrays[s.arr][i] \in 1..Len(variants)
    BY DEF Lies
  <1> QED
    BY <1>1, <1>2 DEF Pointing, Told, Shown

\* A copy is an array of its own that reads the same.
LEMMA CopyFacts ==
    ASSUME Heap(arrays, variants, contents, blocks), NEW s, Lies(arrays, Len(variants), s)
    PROVE  LET r == Fresh(Elements(s))
           IN  /\ r.arrays \in Seq(Seq(Nat)) /\ KeptBut(r.arrays, arrays, 0)
               /\ r.slice \in SliceType /\ r.slice.arr = Len(arrays) + 1 /\ r.slice.len = s.len
               /\ Lies(r.arrays, Len(variants), r.slice)
               /\ Shown(r.arrays, variants, contents, blocks, r.slice)
                    = Shown(arrays, variants, contents, blocks, s)
  <1>1. Len(Elements(s)) = s.len
    BY ElementsFacts
  <1> QED
    BY <1>1, ElementsTold, Appended DEF Fresh

LEMMA GrownFacts ==
    ASSUME Heap(arrays, variants, contents, blocks), NEW s, Lies(arrays, Len(variants), s),
           NEW v \in Nat
    PROVE  /\ Grown(s, v) \in Seq(Nat) /\ s.len + 1 <= Len(Grown(s, v))
           /\ Grown(s, v)[s.len + 1] = v
           /\ \A i \in 1..s.len : Grown(s, v)[i] = arrays[s.arr][i]
  <1> DEFINE n == s.len
             m == IF n = 0 THEN 1 ELSE 2 * n
             f == [i \in 1..m |-> IF i <= n THEN arrays[s.arr][i] ELSE IF i = n + 1 THEN v ELSE 0]
  <1>1. Grown(s, v) = f
    BY DEF Grown
  <1>2. n \in Nat
    BY DEF Lies, SliceType
  <1>3. \A i \in 1..n : arrays[s.arr][i] \in Nat
    <2>1. \A i \in 1..n : arrays[s.arr][i] \in 1..Len(variants)
      BY DEF Lies
    <2> QED
      BY <2>1
  <1> HIDE DEF n
  <1>4. m \in Nat /\ n + 1 <= m /\ 1..n \subseteq 1..m /\ n + 1 \in 1..m
    BY <1>2
  <1> HIDE DEF m
  <1>5. f \in [1..m -> Nat]
    BY <1>2, <1>3
  <1>6. f[n + 1] = v /\ \A i \in 1..n : f[i] = arrays[s.arr][i]
    BY <1>2, <1>4
  <1> HIDE DEF f
  <1>7. f \in Seq(Nat) /\ Len(f) = m
    BY <1>4, <1>5
  <1> QED
    BY <1>1, <1>4, <1>6, <1>7 DEF n

\* Go's append leaves every array but its own as it was, and of that what was in the slice.
LEMMA AppendFacts ==
    ASSUME Heap(arrays, variants, contents, blocks), NEW s, Lies(arrays, Len(variants), s),
           NEW v \in Nat
    PROVE  LET r == AppendTo(s, v)
           IN  /\ r.arrays \in Seq(Seq(Nat)) /\ KeptBut(r.arrays, arrays, s.arr)
               /\ r.slice \in SliceType /\ r.slice.len = s.len + 1
               /\ r.slice.arr \in 1..Len(r.arrays)
               /\ r.slice.arr = s.arr \/ r.slice.arr = Len(arrays) + 1
               /\ s.len + 1 <= Len(r.arrays[r.slice.arr])
               /\ r.arrays[r.slice.arr][s.len + 1] = v
               /\ \A i \in 1..s.len : r.arrays[r.slice.arr][i] = arrays[s.arr][i]
  <1> DEFINE r == AppendTo(s, v)
             n == s.len
             a == s.arr
             k == Len(arrays) + 1
  <1>1. /\ arrays \in Seq(Seq(Nat)) /\ Len(arrays) \in Nat
        /\ n \in Nat /\ a \in Nat /\ a \in 0..Len(arrays)
    BY HeapTypes DEF Lies, SliceType
  <1>2. CASE HasRoom(s)
    <2>1. a \in 1..Len(arrays) /\ n < Len(arrays[a])
      BY <1>1, <1>2 DEF HasRoom
    <2>2. r.arrays = [arrays EXCEPT ![a][n + 1] = v] /\ r.slice = [arr |-> a, len |-> n + 1]
      BY <1>2 DEF AppendTo, Slice
    <2> HIDE DEF r, n, a
    <2>3. arrays[a] \in Seq(Nat) /\ Len(arrays[a]) \in Nat
      BY <1>1, <2>1, ElementOfSeq, LenProperties
    <2> DEFINE x == [arrays[a] EXCEPT ![n + 1] = v]
    <2>4. r.arrays = [arrays EXCEPT ![a] = x]
      BY <2>2
    <2>5. n + 1 \in 1..Len(arrays[a])
      BY <1>1, <2>1, <2>3
    <2>6. /\ x \in Seq(Nat) /\ Len(x) = Len(arrays[a]) /\ x[n + 1] = v
          /\ \A i \in 1..n : x[i] = arrays[a][i]
      <3> DEFINE y == arrays[a]
                 m == n + 1
                 S == Nat
      <3>1. y \in Seq(S) /\ v \in S /\ m \in 1..Len(y) /\ x = [y EXCEPT ![m] = v]
        BY <2>3, <2>5
      <3>2. \A i \in 1..n : i \in 1..Len(y) /\ i # m
        BY <1>1, <2>3, <2>5
      <3> HIDE DEF x, y, m, S
      <3>3. /\ x \in Seq(S) /\ Len(x) = Len(y)
            /\ \A i \in 1..Len(y) : x[i] = IF i = m THEN v ELSE y[i]
        BY <3>1, ExceptSeq
      <3> QED
        BY <3>1, <3>2, <3>3 DEF y, m, S
    <2> HIDE DEF x
    <2>7. /\ r.arrays \in Seq(Seq(Nat)) /\ Len(r.arrays) = Len(arrays) /\ r.arrays[a] = x
          /\ \A b \in 1..Len(arrays) : b # a => r.arrays[b] = arrays[b]
      BY <1>1, <2>1, <2>4, <2>6
    <2>8. r.slice.arr = a /\ r.slice.len = n + 1 /\ r.slice \in SliceType
      BY <1>1, <2>2 DEF SliceType
    <2>9. KeptBut(r.arrays, arrays, a)
      BY <1>1, <2>7 DEF KeptBut
    <2>10. n + 1 <= Len(x)
      BY <2>3, <2>5, <2>6
    <2> QED
      BY <2>1, <2>6, <2>7, <2>8, <2>9, <2>10 DEF r, n, a
  <1>3. CASE ~HasRoom(s)
    <2> DEFINE x == Grown(s, v)
    <2>1. r.arrays = Append(arrays, x) /\ r.slice = [arr |-> k, len |-> n + 1]
      BY <1>3 DEF AppendTo, Slice
    <2>2. /\ x \in Seq(Nat) /\ n + 1 <= Len(x) /\ x[n + 1] = v
          /\ \A i \in 1..n : x[i] = arrays[a][i]
      BY GrownFacts
    <2> HIDE DEF r, n, a, x
    <2>3. /\ r.arrays \in Seq(Seq(Nat)) /\ Len(r.arrays) = k /\ r.arrays[k] = x
          /\ \A b \in 1..Len(arrays) : r.arrays[b] = arrays[b]
      BY <1>1, <2>1, <2>2
    <2>4. k \in 1..k /\ k \in Nat /\ Len(arrays) <= k
      BY <1>1
    <2> HIDE DEF k
    <2>5. r.slice.arr = k /\ r.slice.len = n + 1 /\ r.slice \in SliceType
      BY <1>1, <2>1, <2>4 DEF SliceType
    <2>6. KeptBut(r.arrays, arrays, a)
      BY <2>3, <2>4 DEF KeptBut
    <2> QED
      BY <2>2, <2>3, <2>4, <2>5, <2>6 DEF r, n, a, k
  <1> QED
    BY <1>2, <1>3

\* What is appended is read after what was there.
LEMMA AppendShown ==
    ASSUME Heap(arrays, variants, contents, blocks), NEW s, Lies(arrays, Len(variants), s),
           NEW vs2, NEW cs2, NEW bs2, Grows(variants, contents, blocks, vs2, cs2, bs2),
           NEW v \in 1..Len(vs2), Heap(AppendTo(s, v).arrays, vs2, cs2, bs2)
    PROVE  LET r == AppendTo(s, v)
           IN  /\ Lies(r.arrays, Len(vs2), r.slice)
               /\ Shown(r.arrays, vs2, cs2, bs2, r.slice)
                    = Append(Shown(arrays, variants, contents, blocks, s), bs2[cs2[vs2[v]]])
  <1> DEFINE r == AppendTo(s, v)
             n == s.len
             k == r.slice.arr
             f == Shown(arrays, variants, contents, blocks, s)
             g == Shown(r.arrays, vs2, cs2, bs2, r.slice)
             b == bs2[cs2[vs2[v]]]
  <1>1. /\ r.arrays \in Seq(Seq(Nat)) /\ r.slice \in SliceType /\ r.slice.len = n + 1
        /\ k \in 1..Len(r.arrays) /\ n + 1 <= Len(r.arrays[k]) /\ r.arrays[k][n + 1] = v
        /\ \A i \in 1..n : r.arrays[k][i] = arrays[s.arr][i]
    <2>1. v \in Nat
      OBVIOUS
    <2> QED
      BY <2>1, AppendFacts
  <1>2. n \in Nat /\ \A i \in 1..n : arrays[s.arr][i] \in 1..Len(variants)
    BY DEF Lies, SliceType
  <1>3. 1..Len(variants) \subseteq 1..Len(vs2)
    <2>1. Len(variants) \in Nat /\ Len(vs2) \in Nat /\ Len(variants) <= Len(vs2)
      BY HeapTypes DEF Grows, More
    <2> QED
      BY <2>1
  <1>4. f \in Seq(Block) /\ Len(f) = n /\ \A i \in 1..n : f[i] = blocks[contents[variants[arrays[s.arr][i]]]]
    BY ShownNow
  <1>b. b \in Block
    <2>1. vs2[v] \in 1..Len(cs2)
      BY DEF Heap
    <2>2. cs2[vs2[v]] \in 1..Len(bs2)
      BY <2>1 DEF Heap
    <2> QED
      BY <2>2, HeapTypes, ElementOfSeq
  <1> HIDE DEF r, n, f
  <1>5. \A i \in 1..n + 1 : i \in 1..n \/ i = n + 1
    BY <1>2
  <1>6. Lies(r.arrays, Len(vs2), r.slice)
    <2>1. \A i \in 1..n + 1 : r.arrays[k][i] \in 1..Len(vs2)
      BY <1>1, <1>2, <1>3, <1>5
    <2>2. k \in 0..Len(r.arrays) /\ k # 0
      BY <1>1
    <2> QED
      BY <1>1, <2>1, <2>2 DEF Lies
  <1>7. g = Append(f, b)
    <2>1. g = [i \in 1..n + 1 |-> bs2[cs2[vs2[r.arrays[k][i]]]]]
      BY <1>1 DEF Shown
    <2>2. \A i \in 1..n : bs2[cs2[vs2[r.arrays[k][i]]]] = f[i]
      <3>1. \A u \in 1..Len(variants) : bs2[cs2[vs2[u]]] = blocks[contents[variants[u]]]
        BY BlocksKept
      <3> TAKE i \in 1..n
      <3>2. r.arrays[k][i] = arrays[s.arr][i] /\ arrays[s.arr][i] \in 1..Len(variants)
        BY <1>1, <1>2
      <3>3. f[i] = blocks[contents[variants[arrays[s.arr][i]]]]
        BY <1>4
      <3> HIDE DEF k
      <3> QED
        BY <3>1, <3>2, <3>3
    <2>3. bs2[cs2[vs2[r.arrays[k][n + 1]]]] = b
      BY <1>1
    <2>4. \A i \in 1..n + 1 : bs2[cs2[vs2[r.arrays[k][i]]]] = IF i = n + 1 THEN b ELSE f[i]
      BY <1>2, <1>5, <2>2, <2>3
    <2> HIDE DEF b, g, k
    <2>5. Append(f, b) = [i \in 1..n + 1 |-> IF i = n + 1 THEN b ELSE f[i]]
      <3>1. /\ Append(f, b) \in Seq(Block) /\ Len(Append(f, b)) = n + 1
            /\ Append(f, b)[n + 1] = b /\ \A i \in 1..n : Append(f, b)[i] = f[i]
        <4>1. f \in Seq(Block) /\ b \in Block /\ Len(f) = n
          BY <1>4, <1>b DEF b
        <4> HIDE DEF b
        <4> QED
          BY <4>1, AppendProperties
      <3>2. Append(f, b) \in [1..n + 1 -> Block]
        BY <1>2, <3>1, LenProperties
      <3> DEFINE h == Append(f, b)
      <3>3. \A i \in 1..n + 1 : h[i] = IF i = n + 1 THEN b ELSE f[i]
        BY <1>5, <3>1
      <3> HIDE DEF h
      <3>4. h = [i \in 1..n + 1 |-> h[i]]
        BY <3>2 DEF h
      <3> QED
        BY <3>3, <3>4 DEF h
    <2> QED
      BY <2>1, <2>4, <2>5
  <1> QED
    BY <1>6, <1>7 DEF r, f, g, b, k

-----------------------------------------------------------------------------
(* What a step leaves alone                                                *)

LEMMA KeptElsewhere ==
    ASSUME NEW ar \in Seq(Seq(Nat)), NEW ar2, NEW a, KeptBut(ar2, ar, a),
           NEW b \in 0..Len(ar), b # a \/ b = 0
    PROVE  KeptIn(ar2, ar, b)
  <1>1. Len(ar) \in Nat /\ Len(ar) <= Len(ar2)
    BY DEF KeptBut
  <1>2. b > 0 => b \in 1..Len(ar) /\ b # a
    BY <1>1
  <1> QED
    BY <1>1, <1>2 DEF KeptBut, KeptIn

LEMMA KeptAll ==
    ASSUME NEW ar \in Seq(Seq(Nat)), NEW ar2, KeptBut(ar2, ar, 0), NEW a
    PROVE  KeptBut(ar2, ar, a)
  <1>1. \A b \in 1..Len(ar) : b # 0
    OBVIOUS
  <1> QED
    BY <1>1 DEF KeptBut

LEMMA HeldKept ==
    ASSUME NEW ar, NEW vs, NEW cs, NEW bs, Heap(ar, vs, cs, bs),
           NEW ar2, NEW vs2, NEW cs2, NEW bs2, Heap(ar2, vs2, cs2, bs2),
           Grows(vs, cs, bs, vs2, cs2, bs2),
           NEW h, Held(ar, vs, cs, bs, h),
           NEW a, KeptBut(ar2, ar, a), h.slice.arr # a
    PROVE  Held(ar2, vs2, cs2, bs2, h)
  <1> DEFINE s == h.slice
  <1>1. Lies(ar, Len(vs), s) /\ h.reads = Shown(ar, vs, cs, bs, s)
    BY DEF Held
  <1> HIDE DEF s
  <1>2. s.arr \in 0..Len(ar) /\ ar \in Seq(Seq(Nat))
    BY <1>1, HeapTypes DEF Lies
  <1>3. KeptIn(ar2, ar, s.arr)
    BY <1>2, KeptElsewhere DEF s
  <1>4. /\ Lies(ar2, Len(vs2), s)
        /\ Shown(ar2, vs2, cs2, bs2, s) = Shown(ar, vs, cs, bs, s)
    BY <1>1, <1>3, ShownKept
  <1> QED
    BY <1>1, <1>4 DEF Held, s

\* Only entry k of handed changes, and but for arrays allocated anew only array a.
LEMMA StepFacts ==
    ASSUME MemoryInv,
           Heap(arrays', variants', contents', blocks'),
           Grows(variants, contents, blocks, variants', contents', blocks'),
           handed' \in Seq(HandedType), sent' \in Nat,
           Committed',
           conversation'.arr = conversation.arr \/ conversation'.arr > Len(arrays),
           NEW a, KeptBut(arrays', arrays, a),
           NEW k,
           \A m \in 1..Len(handed') :
             m # k => m \in 1..Len(handed) /\ handed'[m] = handed[m] /\ handed[m].slice.arr # a,
           k \in 1..Len(handed') =>
             /\ Held(arrays', variants', contents', blocks', handed'[k])
             /\ handed'[k].slice.arr # conversation'.arr
             /\ \A m \in 1..Len(handed) :
                  m # k => handed'[k].slice.arr # handed[m].slice.arr
    PROVE  MemoryInv'
  <1>1. Typed'
    BY DEF Typed
  <1>2. Truthful'
    <2> SUFFICES ASSUME NEW m \in 1..Len(handed')
                 PROVE  Held(arrays', variants', contents', blocks', handed'[m])
      BY DEF Truthful
    <2>1. CASE m = k
      BY <2>1
    <2>2. CASE m # k
      <3> DEFINE h == handed[m]
      <3>1. m \in 1..Len(handed) /\ handed'[m] = h /\ h.slice.arr # a
        BY <2>2
      <3>2. Held(arrays, variants, contents, blocks, h) /\ Heap(arrays, variants, contents, blocks)
        BY <3>1 DEF MemoryInv, Truthful, Typed
      <3> HIDE DEF h
      <3>3. Held(arrays', variants', contents', blocks', h)
        BY <3>1, <3>2, HeldKept
      <3> QED
        BY <3>1, <3>3
    <2> QED
      BY <2>1, <2>2
  <1>3. Apart'
    <2>1. \A m \in 1..Len(handed) :
            handed[m].slice.arr # conversation.arr /\ ~(handed[m].slice.arr > Len(arrays))
      <3> TAKE m \in 1..Len(handed)
      <3>1. handed[m].slice.arr \in 0..Len(arrays) /\ Len(arrays) \in Nat
        BY HeapTypes DEF MemoryInv, Truthful, Typed, Held, Lies
      <3> QED
        BY <3>1 DEF MemoryInv, Apart
    <2>2. \A m \in 1..Len(handed') : handed'[m].slice.arr # conversation'.arr
      BY <2>1
    <2>3. \A n, m \in 1..Len(handed') : n # m => handed'[n].slice.arr # handed'[m].slice.arr
      BY DEF MemoryInv, Apart
    <2> QED
      BY <2>2, <2>3 DEF Apart
  <1> QED
    BY <1>1, <1>2, <1>3 DEF MemoryInv

\* Of the steps that allocate blocks at most and write to no array.
LEMMA ConversationKept ==
    ASSUME MemoryInv,
           Heap(arrays', variants', contents', blocks'),
           Grows(variants, contents, blocks, variants', contents', blocks'),
           conversation' = conversation,
           NEW a, KeptBut(arrays', arrays, a), conversation.arr # a \/ conversation.arr = 0
    PROVE  Committed' /\ Remembered' = Remembered
  <1>1. Heap(arrays, variants, contents, blocks) /\ Lies(arrays, Len(variants), conversation)
    BY DEF MemoryInv, Typed, Committed
  <1>2. arrays \in Seq(Seq(Nat)) /\ conversation.arr \in 0..Len(arrays)
    BY <1>1, HeapTypes DEF Lies
  <1>3. KeptIn(arrays', arrays, conversation.arr)
    BY <1>2, KeptElsewhere
  <1>4. /\ Lies(arrays', Len(variants'), conversation)
        /\ Shown(arrays', variants', contents', blocks', conversation)
             = Shown(arrays, variants, contents, blocks, conversation)
    BY <1>1, <1>3, ShownKept
  <1> QED
    BY <1>4 DEF MemoryInv, Committed, Remembered

-----------------------------------------------------------------------------
(* The operations of the conversation                                      *)

LEMMA NowFacts ==
    ASSUME MemoryInv
    PROVE  /\ Heap(arrays, variants, contents, blocks)
           /\ Lies(arrays, Len(variants), conversation)
           /\ arrays \in Seq(Seq(Nat)) /\ Len(arrays) \in Nat
           /\ Remembered \in Seq(Block) /\ Len(Remembered) = conversation.len
           /\ Unmarked(Remembered) /\ conversation.len \in Nat
           /\ handed \in Seq(HandedType) /\ sent \in Nat /\ Len(handed) \in Nat
           /\ \A m \in 1..Len(handed) :
                handed[m].slice.arr \in 1..Len(arrays) /\ handed[m].slice.arr # conversation.arr
  <1>1. /\ Heap(arrays, variants, contents, blocks) /\ Lies(arrays, Len(variants), conversation)
        /\ handed \in Seq(HandedType) /\ sent \in Nat /\ Unmarked(Remembered)
    BY DEF MemoryInv, Typed, Committed
  <1>2. arrays \in Seq(Seq(Nat)) /\ Len(arrays) \in Nat /\ Len(handed) \in Nat
    BY <1>1, HeapTypes
  <1>3. /\ Remembered \in Seq(Block) /\ Len(Remembered) = conversation.len
        /\ conversation.len \in Nat
    BY <1>1, ShownNow DEF Remembered
  <1>4. ASSUME NEW m \in 1..Len(handed)
        PROVE  handed[m].slice.arr \in 1..Len(arrays) /\ handed[m].slice.arr # conversation.arr
    <2>1. handed[m].slice.arr \in 0..Len(arrays) /\ handed[m].slice.arr > 0
      BY DEF MemoryInv, Truthful, Held, Lies
    <2>2. handed[m].slice.arr # conversation.arr
      BY DEF MemoryInv, Apart
    <2> QED
      BY <1>2, <2>1, <2>2
  <1> QED
    BY <1>1, <1>2, <1>3, <1>4

LEMMA UnmarkedAppend ==
    ASSUME NEW f \in Seq(Block), Unmarked(f), NEW b \in Block, ~b.marked
    PROVE  Unmarked(Append(f, b))
  <1>1. /\ DOMAIN f = 1..Len(f) /\ Len(f) \in Nat /\ DOMAIN Append(f, b) = 1..Len(f) + 1
        /\ Append(f, b)[Len(f) + 1] = b /\ \A i \in 1..Len(f) : Append(f, b)[i] = f[i]
    BY AppendProperties, LenProperties
  <1>2. \A i \in 1..Len(f) + 1 : i \in 1..Len(f) \/ i = Len(f) + 1
    BY <1>1
  <1> QED
    BY <1>1, <1>2 DEF Unmarked

LEMMA AppendMessageStep ==
    ASSUME MemoryInv, AppendMessage
    PROVE  /\ MemoryInv'
           /\ Remembered' = Append(Remembered, [says |-> sent + 1, marked |-> FALSE])
  <1> DEFINE b == [says |-> sent + 1, marked |-> FALSE]
             v == Len(variants) + 1
  <1>1. b \in Block /\ sent' \in Nat /\ ~b.marked
    BY NowFacts DEF Block, AppendMessage
  <1>2. Allocates(b, variants, contents, blocks, variants', contents', blocks')
    BY DEF AppendMessage, NewMessage, Allocates
  <1>3. /\ arrays' = AppendTo(conversation, v).arrays /\ conversation' = AppendTo(conversation, v).slice
        /\ handed' = handed
    BY DEF AppendMessage, NewVariant
  <1>4. v \in Nat
    BY NowFacts, HeapTypes
  <1> HIDE DEF b, v
  <1>5. /\ arrays' \in Seq(Seq(Nat)) /\ KeptBut(arrays', arrays, conversation.arr)
        /\ conversation'.arr = conversation.arr \/ conversation'.arr > Len(arrays)
    <2>1. /\ arrays' \in Seq(Seq(Nat)) /\ KeptBut(arrays', arrays, conversation.arr)
          /\ conversation'.arr = conversation.arr \/ conversation'.arr = Len(arrays) + 1
      BY <1>3, <1>4, NowFacts, AppendFacts
    <2> QED
      BY <2>1, NowFacts
  <1>6. /\ Heap(arrays', variants', contents', blocks')
        /\ Grows(variants, contents, blocks, variants', contents', blocks')
        /\ v \in 1..Len(variants') /\ blocks'[contents'[variants'[v]]] = b
    BY <1>1, <1>2, <1>5, NowFacts, Allocated DEF v
  <1>7. /\ Lies(arrays', Len(variants'), conversation')
        /\ Remembered' = Append(Remembered, b)
    BY <1>3, <1>6, NowFacts, AppendShown DEF Remembered
  <1>8. Committed'
    <2>1. Unmarked(Append(Remembered, b))
      BY <1>1, NowFacts, UnmarkedAppend
    <2> QED
      BY <1>7, <2>1 DEF Committed
  <1>9. MemoryInv'
    <2> DEFINE a == conversation.arr
    <2>1. \A m \in 1..Len(handed) : handed[m].slice.arr # a
      BY NowFacts
    <2>2. handed' \in Seq(HandedType) /\ ~(0 \in 1..Len(handed'))
      BY <1>3, NowFacts
    <2>3. KeptBut(arrays', arrays, a)
      BY <1>5
    <2> HIDE DEF a
    <2>4. \A m \in 1..Len(handed') :
            m # 0 => m \in 1..Len(handed) /\ handed'[m] = handed[m] /\ handed[m].slice.arr # a
      BY <1>3, <2>1
    <2> QED
      BY <1>1, <1>5, <1>6, <1>8, <2>2, <2>3, <2>4, StepFacts
  <1> QED
    BY <1>7, <1>9 DEF b

LEMMA RollbackStep ==
    ASSUME MemoryInv, Rollback
    PROVE  /\ MemoryInv'
           /\ \E n \in 0..Len(Remembered) : Remembered' = SubSeq(Remembered, 1, n)
  <1> DEFINE n == conversation'.len
             f == Remembered
  <1>1. /\ conversation' = [conversation EXCEPT !.len = n] /\ n \in 0..conversation.len
        /\ UNCHANGED <<arrays, variants, contents, blocks, handed, sent>>
    <2>1. PICK j \in 1..MaxMessages : conversation' = [conversation EXCEPT !.len = Shortened(j)]
      BY DEF Rollback
    <2>2. conversation \in SliceType
      BY NowFacts DEF Lies
    <2>3. n = Shortened(j)
      BY <2>1, <2>2 DEF SliceType
    <2>4. Shortened(j) \in 0..conversation.len
      BY <2>2, MemoryAssumption DEF Shortened, SliceType
    <2> QED
      BY <2>1, <2>3, <2>4 DEF Rollback, heap
  <1>2. /\ conversation' \in SliceType /\ conversation'.arr = conversation.arr /\ n \in Nat
        /\ n <= conversation.len
    BY <1>1, NowFacts DEF Lies, SliceType
  <1>3. 1..n \subseteq 1..conversation.len
    BY <1>2, NowFacts
  <1>4. Lies(arrays, Len(variants), conversation')
    <2>1. /\ conversation'.arr \in 0..Len(arrays)
          /\ \A i \in 1..n : arrays[conversation'.arr][i] \in 1..Len(variants)
      BY <1>2, <1>3, NowFacts DEF Lies
    <2>2. conversation'.arr = 0 => n = 0
      BY <1>2, NowFacts DEF Lies
    <2>3. conversation'.arr > 0 => n <= Len(arrays[conversation'.arr])
      <3> SUFFICES ASSUME conversation.arr > 0
                   PROVE  n <= Len(arrays[conversation.arr])
        BY <1>2
      <3>1. conversation.len <= Len(arrays[conversation.arr])
        BY NowFacts DEF Lies
      <3>2. Len(arrays[conversation.arr]) \in Nat
        <4>1. conversation.arr \in 1..Len(arrays)
          BY NowFacts DEF Lies
        <4> QED
          BY <4>1, NowFacts, ElementOfSeq, LenProperties
      <3> QED
        BY <1>2, <3>1, <3>2, NowFacts
    <2> QED
      BY <1>2, <2>1, <2>2, <2>3 DEF Lies
  <1>5. Remembered' = [i \in 1..n |-> f[i]]
    <2>1. Remembered' = [i \in 1..n |-> blocks[contents[variants[arrays[conversation.arr][i]]]]]
      BY <1>1, <1>2 DEF Remembered, Shown
    <2>2. \A i \in 1..conversation.len : f[i] = blocks[contents[variants[arrays[conversation.arr][i]]]]
      BY DEF Remembered, Shown
    <2> QED
      BY <1>3, <2>1, <2>2
  <1>6. Remembered' = SubSeq(f, 1, n) /\ n \in 0..Len(f)
    <2>1. n \in 0..Len(f) /\ f \in Seq(Block)
      BY <1>1, NowFacts
    <2> HIDE DEF n, f
    <2>2. SubSeq(f, 1, n) = [i \in 1..n |-> f[i]]
      BY <2>1
    <2> QED
      BY <1>5, <2>1, <2>2
  <1>7. Committed'
    <2>1. DOMAIN f = 1..conversation.len /\ DOMAIN Remembered' = 1..n
      BY <1>5 DEF Remembered, Shown
    <2>2. Unmarked(Remembered)'
      BY <1>3, <1>5, <2>1, NowFacts DEF Unmarked
    <2> QED
      BY <1>1, <1>4, <2>2 DEF Committed
  <1>8. MemoryInv'
    BY <1>1, <1>2, <1>7 DEF MemoryInv, Typed, Truthful, Apart
  <1> QED
    BY <1>6, <1>8

LEMMA ReadIsShown ==
    ASSUME NEW s
    PROVE  Read(s) = Shown(arrays, variants, contents, blocks, s)
  BY DEF Read, BlockOf, Shown

LEMMA NothingAllocated ==
    ASSUME Heap(arrays, variants, contents, blocks),
           UNCHANGED <<variants, contents, blocks>>, arrays' \in Seq(Seq(Nat))
    PROVE  /\ Heap(arrays', variants', contents', blocks')
           /\ Grows(variants, contents, blocks, variants', contents', blocks')
  <1>1. More(variants, variants) /\ More(contents, contents) /\ More(blocks, blocks)
    BY HeapTypes, Same
  <1> QED
    BY <1>1 DEF Heap, Grows

\* A slice of an array of its own is handed to the host.
LEMMA HandOut ==
    ASSUME MemoryInv,
           Heap(arrays', variants', contents', blocks'),
           Grows(variants, contents, blocks, variants', contents', blocks'),
           KeptBut(arrays', arrays, 0), Committed', sent' \in Nat,
           conversation'.arr = conversation.arr \/ conversation'.arr > Len(arrays),
           NEW h \in HandedType, handed' = Append(handed, h),
           Held(arrays', variants', contents', blocks', h),
           h.slice.arr > Len(arrays), h.slice.arr # conversation'.arr
    PROVE  MemoryInv'
  <1> DEFINE k == Len(handed) + 1
  <1>1. handed \in Seq(HandedType) /\ Len(handed) \in Nat
    BY NowFacts
  <1>2. /\ handed' \in Seq(HandedType) /\ Len(handed') = k /\ handed'[k] = h
        /\ \A m \in 1..Len(handed) : handed'[m] = handed[m]
    BY <1>1, AppendProperties
  <1>3. \A m \in 1..k : m \in 1..Len(handed) \/ m = k
    BY <1>1
  <1> HIDE DEF k
  <1>4. \A m \in 1..Len(handed) : handed[m].slice.arr # 0 /\ handed[m].slice.arr # h.slice.arr
    <2> TAKE m \in 1..Len(handed)
    <2>1. handed[m].slice.arr \in 1..Len(arrays) /\ Len(arrays) \in Nat
      BY NowFacts
    <2> QED
      BY <2>1
  <1>5. \A m \in 1..Len(handed') :
          m # k => m \in 1..Len(handed) /\ handed'[m] = handed[m] /\ handed[m].slice.arr # 0
    BY <1>2, <1>3, <1>4
  <1>6. \A m \in 1..Len(handed) : m # k => handed'[k].slice.arr # handed[m].slice.arr
    BY <1>2, <1>4
  <1> QED
    BY <1>2, <1>5, <1>6, StepFacts

LEMMA GiveConversationStep ==
    ASSUME MemoryInv, GiveConversation
    PROVE  /\ MemoryInv' /\ Remembered' = Remembered
           /\ \E h \in HandedType :
                handed' = Append(handed, h) /\ h.kind = "history" /\ h.reads = Remembered
  <1> DEFINE r == Fresh(Elements(conversation))
             h == [slice |-> r.slice, kind |-> "history", reads |-> Remembered]
  <1>1. /\ UNCHANGED <<variants, contents, blocks, conversation, sent>>
        /\ arrays' = r.arrays /\ handed' = Append(handed, h)
    BY ReadIsShown DEF GiveConversation, Messages, Hand, Remembered
  <1>2. /\ r.arrays \in Seq(Seq(Nat)) /\ KeptBut(r.arrays, arrays, 0)
        /\ r.slice \in SliceType /\ r.slice.arr = Len(arrays) + 1
        /\ Lies(r.arrays, Len(variants), r.slice)
        /\ Shown(r.arrays, variants, contents, blocks, r.slice) = Remembered
    BY NowFacts, CopyFacts DEF Remembered
  <1>3. h \in HandedType /\ h.kind = "history" /\ h.reads = Remembered /\ h.slice = r.slice
    BY <1>2, NowFacts DEF HandedType, Kinds
  <1> HIDE DEF h, r
  <1>4. /\ Heap(arrays', variants', contents', blocks')
        /\ Grows(variants, contents, blocks, variants', contents', blocks')
    BY <1>1, <1>2, NowFacts, NothingAllocated
  <1>5. KeptBut(arrays', arrays, 0) /\ sent' \in Nat /\ conversation' = conversation
    BY <1>1, <1>2, NowFacts
  <1>6. h.slice.arr > Len(arrays) /\ h.slice.arr # conversation'.arr /\ h.slice.arr > 0
    <2>1. Len(arrays) \in Nat /\ conversation.arr \in 0..Len(arrays)
      BY NowFacts DEF Lies
    <2> QED
      BY <1>2, <1>3, <1>5, <2>1
  <1>7. KeptBut(arrays', arrays, h.slice.arr) /\ conversation.arr # h.slice.arr
    BY <1>5, <1>6, NowFacts, KeptAll
  <1>8. Committed' /\ Remembered' = Remembered
    BY <1>4, <1>5, <1>7, ConversationKept
  <1>9. Held(arrays', variants', contents', blocks', h)
    BY <1>1, <1>2, <1>3, <1>6, NowFacts DEF Held
  <1>10. MemoryInv'
    BY <1>1, <1>3, <1>4, <1>5, <1>6, <1>8, <1>9, HandOut
  <1> QED
    BY <1>1, <1>3, <1>8, <1>10

LEMMA ResumeStep ==
    ASSUME MemoryInv, Resume
    PROVE  /\ MemoryInv' /\ handed' = handed
           /\ \E n \in 1..Len(handed) : handed[n].kind = "history" /\ Remembered' = handed[n].reads
  <1>1. PICK n \in 1..Len(handed) :
          /\ handed[n].kind = "history"
          /\ arrays' = Fresh(Elements(handed[n].slice)).arrays
          /\ conversation' = Fresh(Elements(handed[n].slice)).slice
    <2>1. PICK h \in ToSet(handed) :
            /\ h.kind = "history"
            /\ arrays' = Fresh(Elements(h.slice)).arrays
            /\ conversation' = Fresh(Elements(h.slice)).slice
      BY DEF Resume, Resumed
    <2>2. DOMAIN handed = 1..Len(handed)
      BY NowFacts, LenProperties
    <2> QED
      BY <2>1, <2>2 DEF ToSet
  <1> DEFINE s == handed[n].slice
  <1>2. /\ UNCHANGED <<variants, contents, blocks, handed, sent>>
        /\ arrays' = Fresh(Elements(s)).arrays /\ conversation' = Fresh(Elements(s)).slice
    BY <1>1 DEF Resume
  <1>3. /\ Lies(arrays, Len(variants), s)
        /\ Shown(arrays, variants, contents, blocks, s) = handed[n].reads
        /\ Unmarked(handed[n].reads)
    BY <1>1 DEF MemoryInv, Truthful, Held
  <1> HIDE DEF s
  <1>4. /\ arrays' \in Seq(Seq(Nat)) /\ KeptBut(arrays', arrays, 0)
        /\ conversation'.arr = Len(arrays) + 1
        /\ Lies(arrays', Len(variants), conversation')
        /\ Shown(arrays', variants, contents, blocks, conversation')
             = Shown(arrays, variants, contents, blocks, s)
    BY <1>2, <1>3, NowFacts, CopyFacts
  <1>5. Remembered' = handed[n].reads /\ Committed'
    BY <1>2, <1>3, <1>4 DEF Remembered, Committed
  <1>6. /\ Heap(arrays', variants', contents', blocks')
        /\ Grows(variants, contents, blocks, variants', contents', blocks')
    BY <1>2, <1>4, NowFacts, NothingAllocated
  <1>7. conversation'.arr > Len(arrays) /\ handed' \in Seq(HandedType) /\ sent' \in Nat
    BY <1>2, <1>4, NowFacts
  <1>8. \A m \in 1..Len(handed) : handed[m].slice.arr # 0
    <2> TAKE m \in 1..Len(handed)
    <2>1. handed[m].slice.arr \in 1..Len(arrays) /\ Len(arrays) \in Nat
      BY NowFacts
    <2> QED
      BY <2>1
  <1>9. MemoryInv'
    <2>1. \A m \in 1..Len(handed') :
            m # 0 => m \in 1..Len(handed) /\ handed'[m] = handed[m] /\ handed[m].slice.arr # 0
      BY <1>2, <1>8
    <2>2. ~(0 \in 1..Len(handed'))
      BY <1>2, NowFacts
    <2> QED
      BY <1>4, <1>5, <1>6, <1>7, <2>1, <2>2, StepFacts
  <1> QED
    BY <1>1, <1>2, <1>5, <1>9

-----------------------------------------------------------------------------
(* A compaction                                                            *)

LEMMA Replaced ==
    ASSUME NEW S, NEW q \in Seq(S), NEW c \in 1..Len(q), NEW e \in S
    PROVE  LET t == <<e>> \o SubSeq(q, c + 1, Len(q))
           IN  /\ t \in Seq(S) /\ t[1] = e
               /\ Len(t) = 1 + Len(q) - c /\ Len(SubSeq(q, c + 1, Len(q))) = Len(q) - c
               /\ \A i \in 2..1 + Len(q) - c : t[i] = q[c + i - 1]
  <1> DEFINE n == Len(q)
             u == SubSeq(q, c + 1, n)
  <1>1. n \in Nat /\ c \in Nat /\ c \in 1..n /\ \A i \in c + 1..n : q[i] \in S
    <2>1. n \in Nat /\ c \in Nat /\ c >= 1
      BY LenProperties
    <2>2. \A i \in c + 1..n : i \in 1..Len(q)
      BY <2>1
    <2> QED
      BY <2>1, <2>2, ElementOfSeq
  <1> HIDE DEF n
  <1>2. u \in Seq(S) /\ Len(u) = n - c /\ \A i \in 1..n - c : u[i] = q[c + i]
    <2>1. c + 1 \in Int /\ n \in Int
      BY <1>1
    <2>2. /\ u \in Seq(S) /\ Len(u) = IF c + 1 <= n THEN n - (c + 1) + 1 ELSE 0
          /\ \A i \in 1..n - (c + 1) + 1 : u[i] = q[c + 1 + i - 1]
      BY <1>1, <2>1, SubSeqProperties
    <2>3. n - (c + 1) + 1 = n - c /\ (c + 1 <= n \/ n - c = 0)
      BY <1>1
    <2>4. \A i \in 1..n - c : c + 1 + i - 1 = c + i
      BY <1>1
    <2> QED
      BY <2>2, <2>3, <2>4
  <1> HIDE DEF u
  <1>3. <<e>> \in Seq(S) /\ Len(<<e>>) = 1 /\ <<e>>[1] = e
    OBVIOUS
  <1> DEFINE x == <<e>>
             t == x \o u
  <1>4. x \in Seq(S) /\ Len(x) = 1 /\ x[1] = e
    BY <1>3
  <1> HIDE DEF x
  <1>5. /\ t \in Seq(S) /\ Len(t) = Len(x) + Len(u)
        /\ \A i \in 1..Len(x) + Len(u) : t[i] = IF i <= Len(x) THEN x[i] ELSE u[i - Len(x)]
    BY <1>2, <1>4, ConcatProperties
  <1> HIDE DEF t
  <1>6. Len(t) = 1 + n - c /\ 1 \in 1..1 + (n - c)
    BY <1>1, <1>2, <1>4, <1>5
  <1>7. t[1] = e
    BY <1>2, <1>4, <1>5, <1>6
  <1>8. \A i \in 2..1 + n - c : t[i] = q[c + i - 1]
    <2> TAKE i \in 2..1 + n - c
    <2>1. i \in 1..1 + (n - c) /\ ~(i <= 1) /\ i - 1 \in 1..n - c /\ c + (i - 1) = c + i - 1
      BY <1>1
    <2> QED
      BY <1>2, <1>4, <1>5, <2>1
  <1> QED
    BY <1>2, <1>5, <1>6, <1>7, <1>8 DEF t, x, u, n

LEMMA Dropped ==
    ASSUME NEW S, NEW q \in Seq(S), NEW c \in 1..Len(q)
    PROVE  LET t == SubSeq(q, c + 1, Len(q))
           IN  /\ t \in Seq(S) /\ Len(t) = Len(q) - c /\ Len(q) - c \in Nat
               /\ \A i \in 1..Len(q) - c : t[i] = q[c + i] /\ c + i \in 1..Len(q)
  <1> DEFINE n == Len(q)
             t == SubSeq(q, c + 1, n)
  <1>1. n \in Nat /\ c \in Nat /\ c \in 1..n /\ n - c \in Nat
    BY LenProperties
  <1>2. \A i \in c + 1..n : q[i] \in S
    <2>1. \A i \in c + 1..n : i \in 1..Len(q)
      BY <1>1
    <2> QED
      BY <2>1, ElementOfSeq
  <1> HIDE DEF n
  <1>3. /\ t \in Seq(S) /\ Len(t) = IF c + 1 <= n THEN n - (c + 1) + 1 ELSE 0
        /\ \A i \in 1..n - (c + 1) + 1 : t[i] = q[c + 1 + i - 1]
    <2>1. c + 1 \in Int /\ n \in Int
      BY <1>1
    <2> QED
      BY <1>1, <1>2, <2>1, SubSeqProperties
  <1>4. n - (c + 1) + 1 = n - c /\ (c + 1 <= n \/ n - c = 0)
    BY <1>1
  <1>5. \A i \in 1..n - c : c + 1 + i - 1 = c + i /\ c + i \in 1..n
    BY <1>1
  <1> HIDE DEF t
  <1> QED
    BY <1>1, <1>3, <1>4, <1>5 DEF t, n

LEMMA NothingBefore ==
    ASSUME NEW S, NEW t \in Seq(S)
    PROVE  <<>> \o t = t
  <1> DEFINE e == <<>>
             u == e \o t
  <1>1. e \in Seq(S) /\ Len(e) = 0
    OBVIOUS
  <1>2. Len(t) \in Nat
    BY LenProperties
  <1> HIDE DEF e
  <1>3. /\ u \in Seq(S) /\ Len(u) = Len(e) + Len(t)
        /\ \A i \in 1..Len(e) + Len(t) : u[i] = IF i <= Len(e) THEN e[i] ELSE t[i - Len(e)]
    BY <1>1, ConcatProperties
  <1> HIDE DEF u
  <1>4. Len(u) = Len(t) /\ \A i \in 1..Len(t) : u[i] = t[i]
    <2> DEFINE n == Len(t)
    <2>1. 0 + n = n /\ \A i \in 1..n : ~(i <= 0) /\ i - 0 = i
      BY <1>2
    <2> HIDE DEF n
    <2> QED
      BY <1>1, <1>3, <2>1 DEF n
  <1>5. u = t
    BY <1>3, <1>4, SeqEqual
  <1> QED
    BY <1>5 DEF u, e

\* A strategy proposes nothing in place of the prefix, or the summary that it holds.
LEMMA ReplacementFacts ==
    ASSUME MemoryInv, NEW r \in Replacements
    PROVE  \/ Elements(r) = <<>>
           \/ \E e \in 1..Len(variants) :
                Elements(r) = <<e>> /\ blocks[contents[variants[e]]] = SummaryBlock
  <1>1. CASE r = NilSlice
    BY <1>1 DEF NilSlice, Slice, Elements
  <1>2. CASE r # NilSlice
    <2>1. PICK m \in 1..Len(handed) : handed[m].kind = "replacement" /\ r = handed[m].slice
      BY <1>2, NowFacts, LenProperties DEF Replacements, ToSet
    <2> DEFINE h == handed[m]
    <2>2. /\ Lies(arrays, Len(variants), r) /\ <<SummaryBlock>> = Shown(arrays, variants, contents, blocks, r)
      BY <2>1 DEF MemoryInv, Truthful, Held
    <2>3. r.len = 1
      <3>1. Len(Shown(arrays, variants, contents, blocks, r)) = r.len
        BY <2>2, NowFacts, ShownNow
      <3>2. Len(<<SummaryBlock>>) = 1
        OBVIOUS
      <3> QED
        BY <2>2, <3>1, <3>2
    <2>4. /\ Elements(r) \in Seq(Nat) /\ Len(Elements(r)) = 1
          /\ Elements(r)[1] = arrays[r.arr][1] /\ 1 \in 1..r.len
      BY <2>2, <2>3, NowFacts, ElementsFacts
    <2> DEFINE e == arrays[r.arr][1]
    <2>5. e \in 1..Len(variants)
      BY <2>2, <2>4 DEF Lies
    <2>6. blocks[contents[variants[e]]] = SummaryBlock
      <3>1. <<SummaryBlock>>[1] = SummaryBlock
        OBVIOUS
      <3>2. Shown(arrays, variants, contents, blocks, r)[1] = blocks[contents[variants[e]]]
        BY <2>4 DEF Shown
      <3> QED
        BY <2>2, <3>1, <3>2
    <2> HIDE DEF e
    <2>7. Elements(r) = <<e>>
      BY <2>4 DEF e
    <2> QED
      BY <2>5, <2>6, <2>7
  <1> QED
    BY <1>1, <1>2

\* What is kept of the conversation behind a cut.
LEMMA KeptFacts ==
    ASSUME MemoryInv, NEW cut \in 1..conversation.len
    PROVE  /\ Pointing(Kept(cut), Len(variants))
           /\ cut \in 1..Len(Remembered)
           /\ Told(variants, contents, blocks, Kept(cut))
                = SubSeq(Remembered, cut + 1, Len(Remembered))
  <1> DEFINE q == Elements(conversation)
             f == Remembered
             n == Len(q)
             t == SubSeq(q, cut + 1, n)
             u == SubSeq(f, cut + 1, n)
             g == Told(variants, contents, blocks, t)
  <1>1. Pointing(q, Len(variants)) /\ Told(variants, contents, blocks, q) = f
    BY NowFacts, ElementsTold DEF Remembered
  <1>2. q \in Seq(Nat) /\ n = conversation.len /\ f \in Seq(Block) /\ Len(f) = n /\ n \in Nat
    BY NowFacts, ElementsFacts
  <1>3. Kept(cut) = t /\ cut \in 1..n /\ cut \in 1..Len(f)
    BY <1>2 DEF Kept
  <1>4. \A i \in 1..n : q[i] \in 1..Len(variants) /\ f[i] = blocks[contents[variants[q[i]]]]
    BY <1>1 DEF Pointing, Told
  <1> HIDE DEF q, f, n
  <1>5. t \in Seq(Nat) /\ Len(t) = n - cut /\ \A i \in 1..n - cut : t[i] = q[cut + i] /\ cut + i \in 1..n
    <2> DEFINE S == Nat
    <2>1. q \in Seq(S) /\ cut \in 1..Len(q) /\ n = Len(q)
      BY <1>2, <1>3 DEF n
    <2> HIDE DEF S
    <2> QED
      BY <2>1, Dropped DEF S
  <1>6. u \in Seq(Block) /\ Len(u) = n - cut /\ \A i \in 1..n - cut : u[i] = f[cut + i]
    <2>1. n = Len(f)
      BY <1>2
    <2> QED
      BY <1>2, <1>3, <2>1, Dropped
  <1> HIDE DEF t, u
  <1>7. g = u
    <2>1. g = [i \in 1..n - cut |-> blocks[contents[variants[t[i]]]]]
      BY <1>5 DEF Told
    <2>2. \A i \in 1..n - cut : blocks[contents[variants[t[i]]]] = u[i]
      <3> TAKE i \in 1..n - cut
      <3>1. t[i] = q[cut + i] /\ cut + i \in 1..n /\ u[i] = f[cut + i]
        BY <1>5, <1>6
      <3> DEFINE j == cut + i
      <3>2. t[i] = q[j] /\ j \in 1..n /\ u[i] = f[j]
        BY <3>1
      <3> HIDE DEF j
      <3> QED
        BY <1>4, <3>2
    <2>3. DOMAIN u = 1..n - cut /\ u = [i \in 1..n - cut |-> u[i]]
      BY <1>6, LenProperties
    <2> QED
      BY <2>1, <2>2, <2>3
  <1>8. Pointing(t, Len(variants))
    BY <1>4, <1>5 DEF Pointing
  <1> QED
    BY <1>2, <1>3, <1>7, <1>8 DEF t, u, f

\* A composed history, or a view of one, tells what was kept behind a summary or nothing.
LEMMA ComposedFacts ==
    ASSUME MemoryInv, NEW r \in Replacements, NEW cut \in 1..conversation.len
    PROVE  LET x == Elements(r) \o Kept(cut)
               g == Told(variants, contents, blocks, x)
               u == SubSeq(Remembered, cut + 1, Len(Remembered))
           IN  /\ Pointing(x, Len(variants)) /\ Unmarked(g)
               /\ g = u \/ g = <<SummaryBlock>> \o u
  <1> DEFINE t == Kept(cut)
             u == SubSeq(Remembered, cut + 1, Len(Remembered))
             x == Elements(r) \o t
             g == Told(variants, contents, blocks, x)
  <1>1. /\ t \in Seq(Nat) /\ \A i \in 1..Len(t) : t[i] \in 1..Len(variants)
        /\ u = [i \in 1..Len(t) |-> blocks[contents[variants[t[i]]]]]
    BY KeptFacts DEF Pointing, Told
  <1>2. u \in Seq(Block) /\ DOMAIN u = 1..Len(u) /\ \A i \in 1..Len(u) : ~u[i].marked
    <2> DEFINE f == Remembered
    <2>1. f \in Seq(Block) /\ cut \in 1..Len(f) /\ \A i \in 1..Len(f) : ~f[i].marked
      BY NowFacts, KeptFacts, LenProperties DEF Unmarked
    <2> HIDE DEF f
    <2>2. /\ SubSeq(f, cut + 1, Len(f)) \in Seq(Block) /\ Len(SubSeq(f, cut + 1, Len(f))) = Len(f) - cut
          /\ \A i \in 1..Len(f) - cut : SubSeq(f, cut + 1, Len(f))[i] = f[cut + i] /\ cut + i \in 1..Len(f)
      BY <2>1, Dropped
    <2> HIDE DEF u
    <2>3. u = SubSeq(f, cut + 1, Len(f))
      BY DEF u, f
    <2> QED
      BY <2>1, <2>2, <2>3, LenProperties
  <1>3. Len(t) \in Nat /\ Len(u) = Len(t)
    <2>1. Len(t) \in Nat /\ Len(u) \in Nat
      BY <1>1, <1>2, LenProperties
    <2> HIDE DEF u, t
    <2>2. DOMAIN u = 1..Len(t) /\ DOMAIN u = 1..Len(u)
      BY <1>1, <1>2
    <2> QED
      BY <2>1, <2>2
  <1> HIDE DEF u, t
  <1>4. CASE Elements(r) = <<>>
    <2>1. x = t
      <3>1. x = <<>> \o t
        BY <1>4
      <3> HIDE DEF x
      <3> QED
        BY <1>1, <3>1, NothingBefore
    <2>2. g = u
      BY <1>1, <2>1 DEF Told
    <2>3. Pointing(x, Len(variants)) /\ Unmarked(g)
      BY <1>1, <1>2, <2>1, <2>2 DEF Pointing, Unmarked
    <2> QED
      BY <2>2, <2>3 DEF t, u
  <1>5. ASSUME NEW e \in 1..Len(variants), Elements(r) = <<e>>,
               blocks[contents[variants[e]]] = SummaryBlock
        PROVE  Pointing(x, Len(variants)) /\ Unmarked(g) /\ g = <<SummaryBlock>> \o u
    <2> DEFINE y == <<e>>
               z == <<SummaryBlock>>
               n == Len(t)
               w == z \o u
    <2>1. /\ y \in Seq(Nat) /\ Len(y) = 1 /\ y[1] = e
          /\ z \in Seq(Block) /\ Len(z) = 1 /\ z[1] = SummaryBlock /\ ~SummaryBlock.marked
      <3>1. SummaryBlock \in Block /\ ~SummaryBlock.marked
        BY DEF SummaryBlock, Block, Summary
      <3> QED
        BY <3>1
    <2>2. x = y \o t
      BY <1>5
    <2> HIDE DEF x, y, z
    <2>3. /\ x \in Seq(Nat) /\ Len(x) = Len(y) + Len(t)
          /\ \A i \in 1..Len(y) + Len(t) : x[i] = IF i <= Len(y) THEN y[i] ELSE t[i - Len(y)]
      <3> DEFINE S == Nat
      <3>1. y \in Seq(S) /\ t \in Seq(S)
        BY <1>1, <2>1
      <3> HIDE DEF S
      <3>2. /\ y \o t \in Seq(S) /\ Len(y \o t) = Len(y) + Len(t)
            /\ \A i \in 1..Len(y) + Len(t) : (y \o t)[i] = IF i <= Len(y) THEN y[i] ELSE t[i - Len(y)]
        BY <3>1, ConcatProperties
      <3> QED
        BY <2>2, <3>2 DEF S
    <2>4. /\ w \in Seq(Block) /\ Len(w) = Len(z) + Len(u)
          /\ \A i \in 1..Len(z) + Len(u) : w[i] = IF i <= Len(z) THEN z[i] ELSE u[i - Len(z)]
      BY <1>2, <2>1, ConcatProperties
    <2> HIDE DEF w
    <2>5. n \in Nat /\ Len(u) = n
      BY <1>3
    <2>6. /\ Len(x) = 1 + n /\ \A i \in 1..1 + n : x[i] = IF i <= 1 THEN e ELSE t[i - 1]
          /\ Len(w) = 1 + n /\ \A i \in 1..1 + n : w[i] = IF i <= 1 THEN SummaryBlock ELSE u[i - 1]
      <3>1. \A i \in 1..1 + n : i <= 1 => i = 1
        BY <2>5
      <3> HIDE DEF n
      <3> QED
        BY <2>1, <2>3, <2>4, <2>5, <3>1 DEF n
    <2> HIDE DEF n
    <2>7. \A i \in 1..1 + n : i <= 1 \/ i - 1 \in 1..n
      BY <2>5
    <2>8. Pointing(x, Len(variants))
      <3>1. \A i \in 1..1 + n : x[i] \in 1..Len(variants)
        BY <1>1, <2>6, <2>7 DEF n
      <3> QED
        BY <2>3, <2>6, <3>1 DEF Pointing
    <2>9. g = w
      <3>1. g = [i \in 1..1 + n |-> blocks[contents[variants[x[i]]]]]
        BY <2>6 DEF Told
      <3>2. \A i \in 1..1 + n : blocks[contents[variants[x[i]]]] = w[i]
        <4>1. \A i \in 1..n : u[i] = blocks[contents[variants[t[i]]]]
          BY <1>1 DEF n
        <4> QED
          BY <1>5, <2>6, <2>7, <4>1
      <3>3. DOMAIN w = 1..1 + n /\ w = [i \in 1..1 + n |-> w[i]]
        BY <2>4, <2>6, LenProperties
      <3> QED
        BY <3>1, <3>2, <3>3
    <2>10. Unmarked(w)
      <3>1. DOMAIN w = 1..1 + n
        BY <2>4, <2>6, LenProperties
      <3>2. \A i \in 1..1 + n : ~w[i].marked
        BY <1>2, <2>1, <2>5, <2>6, <2>7
      <3> QED
        BY <3>1, <3>2 DEF Unmarked
    <2> QED
      BY <2>8, <2>9, <2>10 DEF w, z
  <1> QED
    BY <1>4, <1>5, ReplacementFacts DEF t, u

LEMMA PrefixFacts ==
    ASSUME MemoryInv, NEW cut \in 1..conversation.len
    PROVE  /\ Pointing(Prefix(cut), Len(variants)) /\ Len(Prefix(cut)) = cut /\ cut \in Nat
           /\ Told(variants, contents, blocks, Prefix(cut)) = Read(Slice(conversation.arr, cut))
           /\ Read(Slice(conversation.arr, cut)) \in Seq(Block)
  <1> DEFINE q == Elements(conversation)
             n == conversation.len
             t == SubSeq(q, 1, cut)
             s == Slice(conversation.arr, cut)
  <1>1. /\ q \in Seq(Nat) /\ Len(q) = n /\ n \in Nat /\ cut \in Nat /\ 1..cut \subseteq 1..n
        /\ cut <= n /\ \A i \in 1..n : q[i] = arrays[conversation.arr][i]
    <2>1. q \in Seq(Nat) /\ Len(q) = n /\ n \in Nat /\ \A i \in 1..n : q[i] = arrays[conversation.arr][i]
      BY NowFacts, ElementsFacts
    <2> HIDE DEF q
    <2>2. cut \in Nat /\ cut <= n /\ 1..cut \subseteq 1..n
      BY <2>1
    <2> QED
      BY <2>1, <2>2
  <1>2. \A i \in 1..n : arrays[conversation.arr][i] \in 1..Len(variants)
    BY NowFacts DEF Lies
  <1> HIDE DEF q
  <1>3. t \in Seq(Nat) /\ Len(t) = cut /\ \A i \in 1..cut : t[i] = q[i]
    BY <1>1
  <1> HIDE DEF t
  <1>4. Pointing(t, Len(variants))
    BY <1>1, <1>2, <1>3 DEF Pointing
  <1>5. s.arr = conversation.arr /\ s.len = cut /\ s \in SliceType
    <2>1. conversation.arr \in Nat
      BY NowFacts DEF Lies, SliceType
    <2> QED
      BY <1>1, <2>1 DEF Slice, SliceType
  <1> HIDE DEF s
  <1>6. Lies(arrays, Len(variants), s)
    <2>1. /\ conversation.arr \in 0..Len(arrays) /\ (conversation.arr = 0 => n = 0)
          /\ (conversation.arr > 0 => n <= Len(arrays[conversation.arr]))
      BY NowFacts DEF Lies
    <2>2. cut >= 1
      OBVIOUS
    <2>3. conversation.arr # 0
      BY <1>1, <2>1, <2>2
    <2>4. conversation.arr > 0 => cut <= Len(arrays[conversation.arr])
      <3>1. ASSUME conversation.arr > 0
            PROVE  cut <= Len(arrays[conversation.arr])
        <4>1. conversation.arr \in 1..Len(arrays) /\ Len(arrays) \in Nat
          BY <2>1, <3>1, NowFacts
        <4>2. arrays[conversation.arr] \in Seq(Nat)
          BY <4>1, NowFacts, ElementOfSeq
        <4>3. Len(arrays[conversation.arr]) \in Nat
          BY <4>2, LenProperties
        <4> QED
          BY <1>1, <2>1, <3>1, <4>3
      <3> QED
        BY <3>1
    <2> QED
      BY <1>1, <1>2, <1>5, <2>1, <2>3, <2>4 DEF Lies
  <1>7. Told(variants, contents, blocks, t) = Read(s)
    BY <1>1, <1>3, <1>5 DEF Told, Read, BlockOf
  <1>8. Read(s) \in Seq(Block)
    BY <1>6, NowFacts, ShownNow, ReadIsShown
  <1> QED
    BY <1>1, <1>3, <1>4, <1>7, <1>8 DEF t, s, q, Prefix

LEMMA SummarizeStep ==
    ASSUME MemoryInv, Summarize
    PROVE  /\ MemoryInv' /\ Remembered' = Remembered
           /\ \E h \in HandedType : handed' = Append(handed, h) /\ h.kind = "replacement"
  <1> DEFINE b == SummaryBlock
             v == Len(variants) + 1
             k == Len(arrays) + 1
             x == <<v, 0>>
             h == [slice |-> Slice(k, 1), kind |-> "replacement", reads |-> <<b>>]
  <1>1. /\ arrays' = Append(arrays, x) /\ handed' = Append(handed, h)
        /\ UNCHANGED <<conversation, sent>>
        /\ Allocates(b, variants, contents, blocks, variants', contents', blocks')
    BY DEF Summarize, Hand, NewVariant, NewMessage, Allocates, SummaryBlock
  <1>2. v \in Nat /\ Len(arrays) \in Nat /\ k \in Nat /\ k > Len(arrays) /\ k > 0 /\ k \in 1..k
    <2>1. Len(arrays) \in Nat /\ Len(variants) \in Nat
      BY NowFacts, HeapTypes
    <2> QED
      BY <2>1
  <1>3. b \in Block /\ x \in Seq(Nat) /\ x[1] = v /\ Len(x) = 2
    BY <1>2 DEF SummaryBlock, Block, Summary
  <1>4. /\ h \in HandedType /\ h.kind = "replacement" /\ h.slice \in SliceType
        /\ h.slice.arr = k /\ h.slice.len = 1 /\ h.reads = <<b>>
    <2>1. <<b>> \in Seq(Block)
      BY <1>3
    <2> HIDE DEF b
    <2> QED
      BY <1>2, <2>1 DEF HandedType, SliceType, Kinds, Slice
  <1> HIDE DEF b, h, x
  <1>5. /\ arrays' \in Seq(Seq(Nat)) /\ Len(arrays') = k /\ arrays'[k] = x
        /\ KeptBut(arrays', arrays, 0)
    <2>1. arrays \in Seq(Seq(Nat))
      BY NowFacts
    <2>2. /\ arrays' \in Seq(Seq(Nat)) /\ Len(arrays') = k /\ arrays'[k] = x
          /\ \A j \in 1..Len(arrays) : arrays'[j] = arrays[j]
      BY <1>1, <1>3, <2>1
    <2>3. Len(arrays) <= k
      BY <1>2
    <2> QED
      BY <2>2, <2>3 DEF KeptBut
  <1>6. /\ Heap(arrays', variants', contents', blocks')
        /\ Grows(variants, contents, blocks, variants', contents', blocks')
        /\ v \in 1..Len(variants') /\ blocks'[contents'[variants'[v]]] = b
    <2>1. /\ Heap(arrays, variants, contents, blocks) /\ arrays' \in Seq(Seq(Nat)) /\ b \in Block
          /\ Allocates(b, variants, contents, blocks, variants', contents', blocks')
      BY <1>1, <1>3, <1>5, NowFacts
    <2> QED
      BY <2>1, Allocated
  <1> HIDE DEF v, k
  <1>7. k # conversation.arr
    <2>1. conversation.arr \in 0..Len(arrays)
      BY NowFacts DEF Lies
    <2> QED
      BY <1>2, <2>1
  <1>8. Committed' /\ Remembered' = Remembered
    <2>1. KeptBut(arrays', arrays, k)
      BY <1>5, NowFacts, KeptAll
    <2> QED
      BY <1>1, <1>6, <1>7, <2>1, ConversationKept
  <1>9. Held(arrays', variants', contents', blocks', h)
    <2> DEFINE s == h.slice
               g == Shown(arrays', variants', contents', blocks', s)
    <2>1. s \in SliceType /\ s.arr = k /\ s.len = 1 /\ 1..1 = {1}
      BY <1>4
    <2> HIDE DEF s
    <2>2. Lies(arrays', Len(variants'), s)
      <3>1. k \in 0..Len(arrays') /\ k # 0 /\ 1 <= Len(arrays'[k])
        <4>1. k \in 0..k /\ k # 0
          BY <1>2
        <4>2. Len(arrays'[k]) = 2
          BY <1>3, <1>5
        <4> QED
          BY <1>5, <4>1, <4>2
      <3> QED
        BY <1>3, <1>5, <1>6, <2>1, <3>1 DEF Lies
    <2>3. g = [i \in 1..1 |-> b]
      BY <1>3, <1>5, <1>6, <2>1 DEF Shown
    <2>4. <<b>> = [i \in 1..1 |-> b]
      BY <2>1
    <2> QED
      BY <1>2, <1>4, <2>1, <2>2, <2>3, <2>4 DEF Held, s, b
  <1>10. MemoryInv'
    <2>1. sent' \in Nat /\ h.slice.arr > Len(arrays) /\ h.slice.arr # conversation'.arr
      BY <1>1, <1>2, <1>4, <1>7, NowFacts
    <2> QED
      BY <1>1, <1>4, <1>5, <1>6, <1>8, <1>9, <2>1, HandOut
  <1> QED
    BY <1>1, <1>4, <1>8, <1>10

\* The conversation is written anew, behind a summary or nothing.
LEMMA CompactCommittedStep ==
    ASSUME MemoryInv, CompactCommitted
    PROVE  /\ MemoryInv'
           /\ \/ handed' = handed
              \/ \E h \in HandedType : handed' = Append(handed, h) /\ h.kind = "archived"
           /\ \E cut \in 1..Len(Remembered) :
                LET u == SubSeq(Remembered, cut + 1, Len(Remembered))
                IN  Remembered' = u \/ Remembered' = <<SummaryBlock>> \o u
  <1>1. PICK r \in Replacements, cut \in 1..conversation.len :
          LET c == Composed(r, cut)
              p == Archived(c.arrays, cut)
          IN  /\ conversation' = c.slice
              /\ \/ /\ arrays' = p.arrays
                    /\ Hand(p.slice, "archived", Read(Slice(conversation.arr, cut)))
                 \/ arrays' = c.arrays /\ handed' = handed
    BY DEF CompactCommitted
  <1> DEFINE x   == Elements(r) \o Kept(cut)
             y   == Prefix(cut)
             g   == Told(variants, contents, blocks, x)
             ar2 == Append(arrays, x)
             ar3 == Append(ar2, y)
             s   == Slice(Len(arrays) + 1, Len(x))
             p   == Slice(Len(ar2) + 1, Len(y))
             d   == Read(Slice(conversation.arr, cut))
             h   == [slice |-> p, kind |-> "archived", reads |-> d]
  <1>2. /\ UNCHANGED <<variants, contents, blocks, sent>> /\ conversation' = s
        /\ \/ arrays' = ar2 /\ handed' = handed
           \/ arrays' = ar3 /\ handed' = Append(handed, h)
    <2>1. Len(y) = cut
      BY PrefixFacts
    <2> QED
      BY <1>1, <2>1 DEF CompactCommitted, Composed, Archived, Fresh, Hand
  <1>3. /\ Pointing(x, Len(variants)) /\ Unmarked(g)
        /\ \E c \in 1..Len(Remembered) :
             LET u == SubSeq(Remembered, c + 1, Len(Remembered))
             IN  g = u \/ g = <<SummaryBlock>> \o u
    <2>1. cut \in 1..Len(Remembered)
      BY KeptFacts
    <2> QED
      BY <2>1, ComposedFacts
  <1>4. /\ Pointing(y, Len(variants)) /\ Told(variants, contents, blocks, y) = d /\ d \in Seq(Block)
    BY PrefixFacts
  <1> HIDE DEF x, y, d
  <1>5. /\ ar2 \in Seq(Seq(Nat)) /\ Len(ar2) = Len(arrays) + 1
        /\ KeptBut(ar2, arrays, 0) /\ Heap(ar2, variants, contents, blocks)
        /\ s.arr = Len(arrays) + 1 /\ Lies(ar2, Len(variants), s)
        /\ Shown(ar2, variants, contents, blocks, s) = g
    BY <1>3, NowFacts, Appended
  <1> HIDE DEF ar2, s, g
  <1>6. /\ ar3 \in Seq(Seq(Nat)) /\ Len(ar3) = Len(ar2) + 1
        /\ KeptBut(ar3, ar2, 0) /\ Heap(ar3, variants, contents, blocks)
        /\ p \in SliceType /\ p.arr = Len(ar2) + 1 /\ Lies(ar3, Len(variants), p)
        /\ Shown(ar3, variants, contents, blocks, p) = d
    <2>1. Heap(ar2, variants, contents, blocks) /\ Pointing(y, Len(variants))
      BY <1>4, <1>5
    <2> QED
      BY <1>4, <2>1, Appended
  <1> HIDE DEF ar3, p
  <1>7. /\ Len(arrays) \in Nat /\ sent \in Nat /\ handed \in Seq(HandedType)
        /\ Heap(arrays, variants, contents, blocks)
    BY NowFacts
  <1>8. Grows(variants, contents, blocks, variants', contents', blocks')
    <2>1. More(variants, variants) /\ More(contents, contents) /\ More(blocks, blocks)
      BY <1>7, HeapTypes, Same
    <2> QED
      BY <1>2, <2>1 DEF Grows
  <1>9. CASE arrays' = ar2 /\ handed' = handed
    <2>1. Committed' /\ Remembered' = g
      BY <1>2, <1>3, <1>5, <1>9 DEF Committed, Remembered
    <2>2. MemoryInv'
      <3>1. \A m \in 1..Len(handed) : handed[m].slice.arr # 0
        <4> TAKE m \in 1..Len(handed)
        <4>1. handed[m].slice.arr \in 1..Len(arrays)
          BY NowFacts
        <4> QED
          BY <1>7, <4>1
      <3>2. \A m \in 1..Len(handed') :
              m # 0 => m \in 1..Len(handed) /\ handed'[m] = handed[m] /\ handed[m].slice.arr # 0
        BY <1>9, <3>1
      <3>3. ~(0 \in 1..Len(handed')) /\ conversation'.arr > Len(arrays)
        BY <1>2, <1>5, <1>7, <1>9, LenProperties
      <3>4. /\ Heap(arrays', variants', contents', blocks') /\ KeptBut(arrays', arrays, 0)
            /\ handed' \in Seq(HandedType) /\ sent' \in Nat
        BY <1>2, <1>5, <1>7, <1>9
      <3> QED
        BY <1>8, <2>1, <3>2, <3>3, <3>4, StepFacts
    <2> QED
      BY <1>3, <1>9, <2>1, <2>2
  <1>10. CASE arrays' = ar3 /\ handed' = Append(handed, h)
    <2>1. /\ Lies(ar3, Len(variants), s) /\ Shown(ar3, variants, contents, blocks, s) = g
      <3>1. s.arr \in 0..Len(ar2) /\ Len(ar2) \in Nat
        BY <1>5, <1>7
      <3>2. KeptIn(ar3, ar2, s.arr)
        BY <1>5, <1>6, <3>1, KeptElsewhere
      <3>3. Grows(variants, contents, blocks, variants, contents, blocks)
        BY <1>2, <1>8
      <3> QED
        BY <1>5, <1>6, <3>2, <3>3, ShownKept
    <2>2. Committed' /\ Remembered' = g
      BY <1>2, <1>3, <1>10, <2>1 DEF Committed, Remembered
    <2>3. KeptBut(ar3, arrays, 0)
      <3>1. Len(arrays) <= Len(ar3) /\ 1..Len(arrays) \subseteq 1..Len(ar2)
        BY <1>5, <1>6, <1>7
      <3> QED
        BY <1>5, <1>6, <3>1 DEF KeptBut
    <2>4. h \in HandedType /\ h.kind = "archived" /\ h.slice = p /\ h.reads = d
      BY <1>4, <1>6 DEF HandedType, Kinds
    <2> HIDE DEF h
    <2>5. p.arr > Len(arrays) /\ p.arr > 0 /\ conversation'.arr > Len(arrays) /\ p.arr # conversation'.arr
      BY <1>2, <1>5, <1>6, <1>7
    <2>6. Held(arrays', variants', contents', blocks', h)
      BY <1>2, <1>6, <1>10, <2>4, <2>5 DEF Held
    <2>7. MemoryInv'
      <3>1. /\ Heap(arrays', variants', contents', blocks') /\ KeptBut(arrays', arrays, 0)
            /\ sent' \in Nat
        BY <1>2, <1>6, <1>7, <1>10, <2>3
      <3> QED
        BY <1>8, <1>10, <2>2, <2>4, <2>5, <2>6, <3>1, HandOut
    <2> QED
      BY <1>3, <1>10, <2>2, <2>4, <2>7
  <1> QED
    BY <1>2, <1>9, <1>10

-----------------------------------------------------------------------------
(* A request                                                               *)

\* f with a marker on block i.
Marked(f, i) == [j \in DOMAIN f |-> IF j = i THEN [f[j] EXCEPT !.marked = TRUE] ELSE f[j]]

LEMMA ToldFacts ==
    ASSUME NEW ar, NEW vs, NEW cs, NEW bs, Heap(ar, vs, cs, bs), NEW x, Pointing(x, Len(vs))
    PROVE  LET f == Told(vs, cs, bs, x)
           IN  /\ f \in Seq(Block) /\ Len(f) = Len(x) /\ DOMAIN f = 1..Len(x)
               /\ \A i \in 1..Len(x) : f[i] = bs[cs[vs[x[i]]]] /\ f[i] \in Block
  <1> DEFINE ar2 == Append(ar, x)
             s   == Slice(Len(ar) + 1, Len(x))
             f   == Told(vs, cs, bs, x)
  <1>1. /\ Heap(ar2, vs, cs, bs) /\ Lies(ar2, Len(vs), s) /\ s.len = Len(x)
        /\ Shown(ar2, vs, cs, bs, s) = f
    BY Appended
  <1>2. DOMAIN f = 1..Len(x) /\ \A i \in 1..Len(x) : f[i] = bs[cs[vs[x[i]]]]
    BY DEF Told
  <1> HIDE DEF ar2, s, f
  <1>3. f \in Seq(Block) /\ Len(f) = Len(x)
    BY <1>1, ShownSeq
  <1>4. \A i \in 1..Len(x) : f[i] \in Block
    BY <1>3, ElementOfSeq
  <1> QED
    BY <1>2, <1>3, <1>4 DEF f

\* The conversation, or a view of it, points to what is there and tells no marker.
LEMMA ViewFacts ==
    ASSUME MemoryInv, NEW x \in Views
    PROVE  Pointing(x, Len(variants)) /\ Unmarked(Told(variants, contents, blocks, x))
  <1>1. CASE x = Elements(conversation)
    <2>1. /\ Pointing(x, Len(variants))
          /\ Told(variants, contents, blocks, x) = Remembered /\ Unmarked(Remembered)
      BY <1>1, NowFacts, ElementsTold DEF Remembered
    <2> QED
      BY <2>1
  <1>2. ASSUME NEW r \in Replacements, NEW cut \in 1..conversation.len,
               x = Elements(r) \o Kept(cut)
        PROVE  Pointing(x, Len(variants)) /\ Unmarked(Told(variants, contents, blocks, x))
    BY <1>2, ComposedFacts
  <1> QED
    BY <1>1, <1>2 DEF Views

\* The marker shows in the copy alone.
LEMMA MarkInFacts ==
    ASSUME MemoryInv, NEW x, Pointing(x, Len(variants)), NEW r, r = Fresh(x),
           NEW i \in 1..Len(x), MarkIn(r.arrays, r.slice, i)
    PROVE  /\ Heap(arrays', variants', contents', blocks')
           /\ Grows(variants, contents, blocks, variants', contents', blocks')
           /\ KeptBut(arrays', arrays, 0) /\ Lies(arrays', Len(variants'), r.slice)
           /\ Shown(arrays', variants', contents', blocks', r.slice)
                = Marked(Told(variants, contents, blocks, x), i)
  <1> DEFINE k == Len(arrays) + 1
             n == Len(x)
             f == Told(variants, contents, blocks, x)
             w == Len(variants) + 1
             b == [f[i] EXCEPT !.marked = TRUE]
  <1>1. x \in Seq(Nat) /\ Len(x) = n /\ n \in Nat /\ \A j \in 1..n : x[j] \in 1..Len(variants)
    BY LenProperties DEF Pointing
  <1>2. /\ r.arrays \in Seq(Seq(Nat)) /\ Len(r.arrays) = k /\ KeptBut(r.arrays, arrays, 0)
        /\ r.slice \in SliceType /\ r.slice.arr = k /\ r.slice.len = n /\ r.arrays[k] = x
    <2> DEFINE ar2 == Append(arrays, x)
               z   == Slice(Len(arrays) + 1, Len(x))
    <2>1. r.arrays = ar2 /\ r.slice = z
      BY DEF Fresh
    <2>2. /\ ar2 \in Seq(Seq(Nat)) /\ Len(ar2) = k /\ KeptBut(ar2, arrays, 0)
          /\ z \in SliceType /\ z.arr = k /\ z.len = n /\ ar2[k] = x
      BY NowFacts, Appended
    <2> HIDE DEF ar2, z
    <2> QED
      BY <2>1, <2>2
  <1>3. DOMAIN f = 1..n /\ \A j \in 1..n : f[j] \in Block
    BY NowFacts, ToldFacts
  <1>4. \A j \in 1..n : x[j] \in 1..Len(variants) /\ f[j] = blocks[contents[variants[x[j]]]]
    BY <1>1 DEF Told
  <1>5. b \in Block
    BY <1>3 DEF Block
  <1>6. /\ Allocates(b, variants, contents, blocks, variants', contents', blocks')
        /\ arrays' = [r.arrays EXCEPT ![k][i] = w]
    <2>1. r.arrays[r.slice.arr][i] = x[i] /\ BlockOf(x[i]) = f[i]
      BY <1>2, <1>4 DEF BlockOf
    <2> QED
      BY <1>2, <2>1 DEF MarkIn, Allocates, NewVariant
  <1>7. w \in Nat /\ k \in Nat /\ k \in 1..k /\ Len(arrays) \in Nat /\ k = Len(arrays) + 1
        /\ Len(variants) \in Nat
    BY NowFacts, HeapTypes
  <1> HIDE DEF k, n, f, b
  <1> DEFINE y == [x EXCEPT ![i] = w]
  <1>8. /\ arrays' = [r.arrays EXCEPT ![k] = y]
        /\ y \in Seq(Nat) /\ Len(y) = n /\ \A j \in 1..n : y[j] = IF j = i THEN w ELSE x[j]
    <2>1. arrays' = [r.arrays EXCEPT ![k] = y]
      BY <1>2, <1>6
    <2>2. i \in 1..Len(x)
      BY <1>1 DEF n
    <2>3. y \in Seq(Nat) /\ Len(y) = Len(x) /\ \A j \in 1..Len(x) : y[j] = IF j = i THEN w ELSE x[j]
      <3> HIDE DEF w
      <3> QED
        BY <1>1, <1>7, <2>2
    <2> QED
      BY <1>1, <2>1, <2>3
  <1> HIDE DEF y
  <1>9. /\ arrays' \in Seq(Seq(Nat)) /\ Len(arrays') = k /\ arrays'[k] = y
        /\ KeptBut(arrays', arrays, 0)
    <2> DEFINE S == Seq(Nat)
    <2>1. r.arrays \in Seq(S) /\ y \in S /\ k \in 1..Len(r.arrays)
      BY <1>2, <1>7, <1>8
    <2> HIDE DEF S
    <2>2. /\ arrays' \in Seq(S) /\ Len(arrays') = Len(r.arrays)
          /\ \A j \in 1..Len(r.arrays) : arrays'[j] = IF j = k THEN y ELSE r.arrays[j]
      BY <1>8, <2>1, ExceptSeq
    <2>3. \A j \in 1..Len(arrays) : j \in 1..k /\ j # k
      BY <1>7
    <2>4. Len(arrays) <= k
      BY <1>7
    <2> QED
      BY <1>2, <1>7, <2>2, <2>3, <2>4 DEF KeptBut, S
  <1>10. /\ Heap(arrays', variants', contents', blocks')
         /\ Grows(variants, contents, blocks, variants', contents', blocks')
         /\ Len(variants') = Len(variants) + 1 /\ w \in 1..Len(variants')
         /\ blocks'[contents'[variants'[w]]] = b
    <2>1. /\ Heap(arrays, variants, contents, blocks) /\ arrays' \in Seq(Seq(Nat)) /\ b \in Block
          /\ Allocates(b, variants, contents, blocks, variants', contents', blocks')
      BY <1>5, <1>6, <1>9, NowFacts
    <2> QED
      BY <2>1, Allocated
  <1> HIDE DEF w
  <1>11. \A j \in 1..n : y[j] \in 1..Len(variants')
    <2>1. 1..Len(variants) \subseteq 1..Len(variants')
      BY <1>7, <1>10
    <2> QED
      BY <1>4, <1>8, <1>10, <2>1
  <1>12. Lies(arrays', Len(variants'), r.slice)
    <2>1. k \in 0..Len(arrays') /\ k # 0 /\ n <= Len(arrays'[k])
      <3>1. k \in 0..k /\ k # 0 /\ n <= n
        BY <1>1, <1>7
      <3> QED
        BY <1>8, <1>9, <3>1
    <2> QED
      BY <1>2, <1>9, <1>11, <2>1 DEF Lies
  <1>13. Shown(arrays', variants', contents', blocks', r.slice) = Marked(f, i)
    <2>1. Shown(arrays', variants', contents', blocks', r.slice)
            = [j \in 1..n |-> blocks'[contents'[variants'[y[j]]]]]
      BY <1>2, <1>9 DEF Shown
    <2>2. \A j \in 1..n : blocks'[contents'[variants'[y[j]]]] = IF j = i THEN b ELSE f[j]
      <3> TAKE j \in 1..n
      <3>1. CASE j = i
        BY <1>8, <1>10, <3>1
      <3>2. CASE j # i
        <4> DEFINE u == x[j]
        <4>1. y[j] = u /\ u \in 1..Len(variants) /\ f[j] = blocks[contents[variants[u]]]
          BY <1>4, <1>8, <3>2
        <4> HIDE DEF u
        <4>2. /\ Heap(arrays, variants, contents, blocks)
              /\ Grows(variants, contents, blocks, variants', contents', blocks')
          BY <1>10, NowFacts
        <4>3. blocks'[contents'[variants'[u]]] = blocks[contents[variants[u]]]
          BY <4>1, <4>2, BlocksKept
        <4> QED
          BY <3>2, <4>1, <4>3
      <3> QED
        BY <3>1, <3>2
    <2>3. Marked(f, i) = [j \in 1..n |-> IF j = i THEN b ELSE f[j]]
      BY <1>3 DEF Marked, b
    <2> QED
      BY <2>1, <2>2, <2>3
  <1> QED
    BY <1>9, <1>10, <1>12, <1>13 DEF f

LEMMA MarkedFacts ==
    ASSUME NEW f \in Seq(Block), Unmarked(f), NEW i \in 1..Len(f)
    PROVE  /\ Marked(f, i) \in Seq(Block) /\ Len(Marked(f, i)) = Len(f)
           /\ Marked(f, i)[i].says = f[i].says
           /\ {j \in DOMAIN Marked(f, i) : Marked(f, i)[j].marked} = {i}
  <1>1. Len(f) \in Nat /\ DOMAIN f = 1..Len(f) /\ \A j \in 1..Len(f) : f[j] \in Block /\ ~f[j].marked
    BY LenProperties, ElementOfSeq DEF Unmarked
  <1> DEFINE g == Marked(f, i)
             n == Len(f)
  <1>2. g \in [1..n -> Block] /\ g[i] = [f[i] EXCEPT !.marked = TRUE]
        /\ \A j \in 1..n : j # i => g[j] = f[j]
    BY <1>1 DEF Marked, Block
  <1>3. g[i].marked /\ g[i].says = f[i].says
    BY <1>1, <1>2 DEF Block
  <1> HIDE DEF g, n
  <1>4. g \in Seq(Block) /\ Len(g) = n /\ DOMAIN g = 1..n
    BY <1>1, <1>2 DEF n
  <1>5. \A j \in 1..n : g[j].marked <=> j = i
    BY <1>1, <1>2, <1>3 DEF n
  <1>6. {j \in DOMAIN g : g[j].marked} = {i}
    BY <1>4, <1>5 DEF n
  <1> QED
    BY <1>3, <1>4, <1>6 DEF g, n

\* Of a history without markers.
LEMMA Uncached ==
    ASSUME NEW f \in Seq(Block), Unmarked(f),
           ~(Caching /\ Len(f) >= 2 /\ f[Len(f) - 1].says \notin Unmarkable)
    PROVE  MarkedOnce(f)
  <1>1. {i \in DOMAIN f : f[i].marked} = {}
    BY DEF Unmarked
  <1>2. ~(Caching /\ Len(f) - 1 >= 1 /\ f[Len(f) - 1].says \notin Unmarkable)
    BY LenProperties
  <1> QED
    BY <1>1, <1>2 DEF MarkedOnce

LEMMA BuildRequestStep ==
    ASSUME MemoryInv, BuildRequest
    PROVE  /\ MemoryInv' /\ Remembered' = Remembered
           /\ \E h \in HandedType : handed' = Append(handed, h) /\ h.kind = "request"
  <1>v. PICK x \in Views :
          LET r == Fresh(x)
              n == Len(x)
          IN  /\ IF Caching /\ n >= 2 /\ Takes(x[MarkedIndex(n)])
                   THEN MarkIn(r.arrays, r.slice, MarkedIndex(n))
                   ELSE arrays' = r.arrays /\ UNCHANGED <<variants, contents, blocks>>
              /\ \E s \in {r.slice} : Hand(s, "request", Read(s)')
    BY DEF BuildRequest
  <1> DEFINE r == Fresh(x)
             n == Len(x)
             k == Len(arrays) + 1
             f == Told(variants, contents, blocks, x)
             g == Shown(arrays', variants', contents', blocks', r.slice)
             h == [slice |-> r.slice, kind |-> "request", reads |-> g]
  <1>1. /\ IF Caching /\ n >= 2 /\ Takes(x[MarkedIndex(n)])
             THEN MarkIn(r.arrays, r.slice, MarkedIndex(n))
             ELSE arrays' = r.arrays /\ UNCHANGED <<variants, contents, blocks>>
        /\ handed' = Append(handed, h) /\ UNCHANGED <<conversation, sent>>
    BY <1>v DEF BuildRequest, Hand, Read, BlockOf, Shown
  <1>p. Pointing(x, Len(variants)) /\ Unmarked(f)
    BY ViewFacts
  <1>2. /\ r.arrays \in Seq(Seq(Nat)) /\ KeptBut(r.arrays, arrays, 0)
        /\ r.slice \in SliceType /\ r.slice.arr = k /\ r.slice.len = n
        /\ Lies(r.arrays, Len(variants), r.slice)
        /\ Shown(r.arrays, variants, contents, blocks, r.slice) = f
    BY <1>p, NowFacts, Appended DEF Fresh
  <1>3. f \in Seq(Block) /\ Len(f) = n /\ n \in Nat /\ Unmarked(f)
    BY <1>p, NowFacts, ToldFacts, LenProperties DEF Pointing
  <1>4. n >= 2 => (Takes(x[MarkedIndex(n)]) <=> f[n - 1].says \notin Unmarkable)
    <2> SUFFICES ASSUME n >= 2
                 PROVE  BlockOf(x[n - 1]) = f[n - 1]
      BY DEF Takes, MarkedIndex
    <2>1. n - 1 \in 1..n
      BY <1>3
    <2> QED
      BY <2>1 DEF BlockOf, Told
  <1> HIDE DEF r, n, f, k
  <1>5. /\ Heap(arrays', variants', contents', blocks')
        /\ Grows(variants, contents, blocks, variants', contents', blocks')
        /\ KeptBut(arrays', arrays, 0) /\ Lies(arrays', Len(variants'), r.slice)
        /\ g \in Seq(Block) /\ MarkedOnce(g)
    <2>1. CASE Caching /\ n >= 2 /\ f[n - 1].says \notin Unmarkable
      <3>1. MarkIn(r.arrays, r.slice, n - 1)
        BY <1>1, <1>2, <1>4, <2>1 DEF MarkedIndex
      <3>2. n - 1 \in 1..n /\ n - 1 >= 1
        BY <1>3, <2>1
      <3>3. /\ Heap(arrays', variants', contents', blocks')
            /\ Grows(variants, contents, blocks, variants', contents', blocks')
            /\ KeptBut(arrays', arrays, 0) /\ Lies(arrays', Len(variants'), r.slice)
            /\ g = Marked(f, n - 1)
        BY <1>p, <3>1, <3>2, MarkInFacts DEF r, n, f
      <3> DEFINE m == Marked(f, n - 1)
      <3>4. /\ m \in Seq(Block) /\ Len(m) = n /\ m[n - 1].says = f[n - 1].says
            /\ {j \in DOMAIN m : m[j].marked} = {n - 1}
        BY <1>3, <3>2, MarkedFacts
      <3> HIDE DEF m
      <3>5. MarkedOnce(m)
        BY <2>1, <3>2, <3>4 DEF MarkedOnce
      <3> QED
        BY <3>3, <3>4, <3>5 DEF m
    <2>2. CASE ~(Caching /\ n >= 2 /\ f[n - 1].says \notin Unmarkable)
      <3>1. arrays' = r.arrays /\ UNCHANGED <<variants, contents, blocks>>
        BY <1>1, <1>2, <1>4, <2>2
      <3>2. g = f
        BY <1>2, <3>1
      <3>3. MarkedOnce(f)
        BY <1>3, <2>2, Uncached
      <3> QED
        BY <1>2, <1>3, <3>1, <3>2, <3>3, NowFacts, NothingAllocated
    <2> QED
      BY <2>1, <2>2
  <1>6. /\ k > Len(arrays) /\ k > 0 /\ conversation.arr # k
        /\ Len(arrays) \in Nat /\ conversation' = conversation /\ sent' \in Nat
    <2>1. Len(arrays) \in Nat /\ conversation.arr \in 0..Len(arrays) /\ sent \in Nat
      BY NowFacts DEF Lies
    <2> QED
      BY <1>1, <2>1 DEF k
  <1>7. Committed' /\ Remembered' = Remembered
    <2>1. KeptBut(arrays', arrays, k)
      BY <1>5, NowFacts, KeptAll
    <2> QED
      BY <1>5, <1>6, <2>1, ConversationKept
  <1>8. h \in HandedType /\ h.kind = "request" /\ h.slice = r.slice /\ h.reads = g
    <2> HIDE DEF g
    <2> QED
      BY <1>2, <1>5 DEF HandedType, Kinds
  <1>9. Held(arrays', variants', contents', blocks', h)
    BY <1>2, <1>5, <1>6, <1>8 DEF Held
  <1> HIDE DEF g, h
  <1>10. MemoryInv'
    <2>1. h.slice.arr > Len(arrays) /\ h.slice.arr # conversation'.arr
      BY <1>2, <1>6, <1>8
    <2> QED
      BY <1>1, <1>5, <1>6, <1>7, <1>8, <1>9, <2>1, HandOut
  <1> QED
    BY <1>1, <1>7, <1>8, <1>10

-----------------------------------------------------------------------------
(* The host                                                                *)

LEMMA Rewrite ==
    ASSUME MemoryInv,
           Heap(arrays', variants', contents', blocks'),
           UNCHANGED <<variants, contents, blocks, conversation, sent>>,
           NEW n \in 1..Len(handed), KeptBut(arrays', arrays, handed[n].slice.arr),
           NEW h \in HandedType, handed' = [handed EXCEPT ![n] = h],
           Held(arrays', variants', contents', blocks', h),
           h.slice.arr = handed[n].slice.arr \/ h.slice.arr > Len(arrays)
    PROVE  MemoryInv' /\ Remembered' = Remembered
  <1> DEFINE a == handed[n].slice.arr
  <1>1. /\ handed' \in Seq(HandedType) /\ Len(handed') = Len(handed)
        /\ \A m \in 1..Len(handed) : handed'[m] = IF m = n THEN h ELSE handed[m]
    BY NowFacts, ExceptSeq
  <1>2. a \in 1..Len(arrays) /\ a # conversation.arr /\ Len(arrays) \in Nat
        /\ conversation.arr \in 0..Len(arrays)
    BY NowFacts DEF Lies
  <1>3. \A m \in 1..Len(handed) :
          /\ handed[m].slice.arr \in 1..Len(arrays)
          /\ m # n => handed[m].slice.arr # a
    BY NowFacts DEF MemoryInv, Apart
  <1>4. More(variants, variants) /\ More(contents, contents) /\ More(blocks, blocks)
    BY NowFacts, HeapTypes, Same
  <1>5. Grows(variants, contents, blocks, variants', contents', blocks')
    BY <1>4 DEF Grows
  <1>6. KeptBut(arrays', arrays, a) /\ conversation' = conversation /\ sent' \in Nat
    BY NowFacts
  <1> HIDE DEF a
  <1>7. Committed' /\ Remembered' = Remembered
    BY <1>2, <1>5, <1>6, ConversationKept
  <1>8. \A m \in 1..Len(handed') :
          m # n => m \in 1..Len(handed) /\ handed'[m] = handed[m] /\ handed[m].slice.arr # a
    BY <1>1, <1>3
  <1>9. handed'[n] = h /\ h.slice.arr # conversation'.arr
    BY <1>1, <1>2, <1>6 DEF a
  <1>10. \A m \in 1..Len(handed) : m # n => handed'[n].slice.arr # handed[m].slice.arr
    <2> SUFFICES ASSUME NEW m \in 1..Len(handed), m # n
                 PROVE  h.slice.arr # handed[m].slice.arr
      BY <1>9
    <2>1. handed[m].slice.arr \in 1..Len(arrays) /\ handed[m].slice.arr # a
      BY <1>3
    <2>2. h.slice.arr = a \/ h.slice.arr > Len(arrays)
      BY DEF a
    <2> QED
      BY <1>2, <2>1, <2>2
  <1>11. MemoryInv'
    <2>1. conversation'.arr = conversation.arr
      BY <1>6
    <2> QED
      BY <1>1, <1>5, <1>6, <1>7, <1>8, <1>9, <1>10, <2>1, StepFacts
  <1> QED
    BY <1>7, <1>11

\* What the host writes into its slices.
LEMMA ForeignFacts ==
    ASSUME Heap(arrays, variants, contents, blocks)
    PROVE  /\ Foreign \in 1..Len(variants) /\ Foreign \in Nat
           /\ blocks[contents[variants[Foreign]]] = BlockOf(Foreign) /\ BlockOf(Foreign) \in Block
  <1>1. BlockOf(Foreign) = [says |-> Host, marked |-> FALSE]
    BY DEF Heap, BlockOf, Foreign
  <1>2. [says |-> Host, marked |-> FALSE] \in Block
    BY DEF Block, Host
  <1> QED
    BY <1>1, <1>2, HeapTypes DEF BlockOf, Foreign

LEMMA Overwritten ==
    ASSUME NEW g \in HandedType, NEW f
    PROVE  [[g EXCEPT !.reads = f] EXCEPT !.kind = "written"]
             = [slice |-> g.slice, kind |-> "written", reads |-> f]
  <1>1. g = [slice |-> g.slice, kind |-> g.kind, reads |-> g.reads]
    BY DEF HandedType
  <1> DEFINE a == g.slice
             b == g.kind
             c == g.reads
  <1>2. g = [slice |-> a, kind |-> b, reads |-> c] /\ g.slice = a
    BY <1>1
  <1> HIDE DEF a, b, c
  <1>3. [g EXCEPT !.reads = f] = [slice |-> a, kind |-> b, reads |-> f]
    BY <1>2
  <1>4. [[slice |-> a, kind |-> b, reads |-> f] EXCEPT !.kind = "written"]
          = [slice |-> a, kind |-> "written", reads |-> f]
    OBVIOUS
  <1>5. [[g EXCEPT !.reads = f] EXCEPT !.kind = "written"]
          = [slice |-> a, kind |-> "written", reads |-> f]
    BY <1>3, <1>4
  <1> QED
    BY <1>2, <1>5

LEMMA HostWritesStep ==
    ASSUME MemoryInv, HostWrites
    PROVE  /\ MemoryInv' /\ Remembered' = Remembered
           /\ \E n \in 1..Len(handed), h \in HandedType :
                handed' = [handed EXCEPT ![n] = h] /\ h.kind = "written"
  <1>0. PICK n \in DOMAIN handed :
          /\ \E i \in 1..handed[n].slice.len :
               /\ arrays' = [arrays EXCEPT ![handed[n].slice.arr][i] = Foreign]
               /\ handed' = [handed EXCEPT ![n].reads[i] = BlockOf(Foreign), ![n].kind = "written"]
          /\ UNCHANGED <<variants, contents, blocks, conversation, sent>>
    BY DEF HostWrites
  <1>1. PICK i \in 1..handed[n].slice.len :
          /\ arrays' = [arrays EXCEPT ![handed[n].slice.arr][i] = Foreign]
          /\ handed' = [handed EXCEPT ![n].reads[i] = BlockOf(Foreign), ![n].kind = "written"]
          /\ UNCHANGED <<variants, contents, blocks, conversation, sent>>
    BY <1>0
  <1> DEFINE g == handed[n]
             s == g.slice
             a == s.arr
             c == BlockOf(Foreign)
             f == [g.reads EXCEPT ![i] = c]
             h == [slice |-> s, kind |-> "written", reads |-> f]
  <1>2. n \in 1..Len(handed) /\ g \in HandedType
    BY NowFacts, LenProperties
  <1>3. /\ Lies(arrays, Len(variants), s) /\ a > 0 /\ s \in SliceType
        /\ g.reads = Shown(arrays, variants, contents, blocks, s)
    BY <1>2 DEF MemoryInv, Truthful, Held, Lies
  <1>4. g.reads \in Seq(Block) /\ Len(g.reads) = s.len /\ s.len \in Nat /\ i \in 1..s.len
        /\ \A j \in 1..s.len : g.reads[j] = blocks[contents[variants[arrays[a][j]]]]
    <2>1. i \in 1..s.len
      OBVIOUS
    <2> HIDE DEF s
    <2>2. Heap(arrays, variants, contents, blocks) /\ Lies(arrays, Len(variants), s)
      BY <1>3, NowFacts
    <2>3. g.reads \in Seq(Block) /\ Len(g.reads) = s.len /\ s.len \in Nat
      BY <1>3, <2>2, ShownNow
    <2>4. \A j \in 1..s.len : g.reads[j] = blocks[contents[variants[arrays[a][j]]]]
      BY <1>3 DEF Shown
    <2> QED
      BY <2>1, <2>3, <2>4
  <1>5. c \in Block /\ Foreign \in Nat /\ Foreign \in 1..Len(variants)
        /\ blocks[contents[variants[Foreign]]] = c
    BY NowFacts, ForeignFacts
  <1>6. handed' = [handed EXCEPT ![n] = h]
    <2>1. [g EXCEPT !.reads[i] = c] = [g EXCEPT !.reads = f]
      OBVIOUS
    <2>2. [[g EXCEPT !.reads[i] = c] EXCEPT !.kind = "written"] = h
      <3> HIDE DEF f, g
      <3>1. [[g EXCEPT !.reads = f] EXCEPT !.kind = "written"]
              = [slice |-> g.slice, kind |-> "written", reads |-> f]
        BY <1>2, Overwritten
      <3> QED
        BY <2>1, <3>1
    <2>3. handed' = [handed EXCEPT ![n] = [[g EXCEPT !.reads[i] = c] EXCEPT !.kind = "written"]]
      BY <1>1
    <2> QED
      BY <2>2, <2>3
  <1>7. f \in Seq(Block) /\ Len(f) = s.len /\ \A j \in 1..s.len : f[j] = IF j = i THEN c ELSE g.reads[j]
    <2> DEFINE q == g.reads
    <2>1. q \in Seq(Block) /\ i \in 1..Len(q) /\ c \in Block
      BY <1>4, <1>5
    <2> HIDE DEF q, c
    <2>2. /\ [q EXCEPT ![i] = c] \in Seq(Block) /\ Len([q EXCEPT ![i] = c]) = Len(q)
          /\ \A j \in 1..Len(q) : [q EXCEPT ![i] = c][j] = IF j = i THEN c ELSE q[j]
      BY <2>1, ExceptSeq
    <2> QED
      BY <1>4, <2>2 DEF q
  <1>8. h \in HandedType /\ h.kind = "written" /\ h.slice = s /\ h.reads = f
    <2> HIDE DEF f, s
    <2> QED
      BY <1>3, <1>7 DEF HandedType, Kinds
  <1>9. a \in 1..Len(arrays) /\ arrays[a] \in Seq(Nat) /\ i \in 1..Len(arrays[a]) /\ s.len <= Len(arrays[a])
    <2>1. a \in 0..Len(arrays) /\ s.len <= Len(arrays[a])
      BY <1>3 DEF Lies
    <2>2. a \in 1..Len(arrays)
      BY <1>3, <2>1
    <2>3. arrays[a] \in Seq(Nat)
      BY <2>2, NowFacts, ElementOfSeq
    <2>4. Len(arrays[a]) \in Nat
      BY <2>3, LenProperties
    <2> DEFINE m == Len(arrays[a])
               l == s.len
    <2>5. m \in Nat /\ l \in Nat /\ l <= m /\ i \in 1..l
      BY <1>4, <2>1, <2>4
    <2> HIDE DEF m, l
    <2>6. i \in 1..m
      BY <2>5
    <2> QED
      BY <2>1, <2>2, <2>3, <2>6 DEF m
  <1> HIDE DEF g, s, a, c, f, h
  <1> DEFINE x == [arrays[a] EXCEPT ![i] = Foreign]
  <1>10. /\ arrays' = [arrays EXCEPT ![a] = x] /\ x \in Seq(Nat) /\ Len(x) = Len(arrays[a])
         /\ \A j \in 1..Len(arrays[a]) : x[j] = IF j = i THEN Foreign ELSE arrays[a][j]
    <2>1. arrays' = [arrays EXCEPT ![a] = x]
      BY <1>1 DEF g, s, a
    <2>2. /\ x \in Seq(Nat) /\ Len(x) = Len(arrays[a])
          /\ \A j \in 1..Len(arrays[a]) : x[j] = IF j = i THEN Foreign ELSE arrays[a][j]
      BY <1>5, <1>9
    <2> QED
      BY <2>1, <2>2
  <1> HIDE DEF x
  <1>11. /\ arrays' \in Seq(Seq(Nat)) /\ Len(arrays') = Len(arrays) /\ arrays'[a] = x
         /\ KeptBut(arrays', arrays, a)
    <2> DEFINE S == Seq(Nat)
    <2>1. arrays \in Seq(S) /\ x \in S /\ a \in 1..Len(arrays)
      BY <1>9, <1>10, NowFacts
    <2> HIDE DEF S
    <2>2. /\ arrays' \in Seq(S) /\ Len(arrays') = Len(arrays)
          /\ \A j \in 1..Len(arrays) : arrays'[j] = IF j = a THEN x ELSE arrays[j]
      BY <1>10, <2>1, ExceptSeq
    <2>3. arrays'[a] = x /\ \A j \in 1..Len(arrays) : j # a => arrays'[j] = arrays[j]
      BY <1>9, <2>2
    <2>4. Len(arrays) \in Nat
      BY NowFacts
    <2>5. KeptBut(arrays', arrays, a)
      BY <2>2, <2>3, <2>4 DEF KeptBut
    <2> QED
      BY <2>2, <2>3, <2>5 DEF S
  <1>12. Heap(arrays', variants', contents', blocks')
    BY <1>1, <1>11, NowFacts, NothingAllocated
  <1>13. \A j \in 1..s.len : j \in 1..Len(arrays[a])
    <2>1. Len(arrays[a]) \in Nat
      BY <1>9, LenProperties
    <2> QED
      BY <1>4, <1>9, <2>1
  <1>14. \A j \in 1..s.len : x[j] = IF j = i THEN Foreign ELSE arrays[a][j]
    BY <1>10, <1>13
  <1>15. Lies(arrays', Len(variants'), s)
    <2>1. \A j \in 1..s.len : arrays[a][j] \in 1..Len(variants)
      BY <1>3 DEF Lies, a
    <2>2. \A j \in 1..s.len : arrays'[s.arr][j] \in 1..Len(variants)
      BY <1>5, <1>11, <1>14, <2>1 DEF a
    <2>3. s.arr \in 0..Len(arrays') /\ s.arr # 0 /\ s.len <= Len(arrays'[s.arr])
      <3>1. Len(arrays'[a]) = Len(arrays[a]) /\ s.len <= Len(arrays'[a])
        BY <1>9, <1>10, <1>11
      <3>2. a \in 0..Len(arrays') /\ a # 0
        BY <1>9, <1>11, NowFacts
      <3> QED
        BY <3>1, <3>2 DEF a
    <2>4. variants' = variants
      BY <1>1
    <2> QED
      BY <1>3, <2>2, <2>3, <2>4 DEF Lies
  <1>16. Shown(arrays', variants', contents', blocks', s) = f
    <2>1. Shown(arrays', variants', contents', blocks', s) = [j \in 1..s.len |-> blocks[contents[variants[x[j]]]]]
      <3>1. arrays'[s.arr] = x
        BY <1>11 DEF a
      <3>2. variants' = variants /\ contents' = contents /\ blocks' = blocks
        BY <1>1
      <3> QED
        BY <3>1, <3>2 DEF Shown
    <2>2. \A j \in 1..s.len : blocks[contents[variants[x[j]]]] = f[j]
      BY <1>4, <1>5, <1>7, <1>14
    <2>3. f = [j \in 1..s.len |-> f[j]]
      BY <1>7, LenProperties
    <2> QED
      BY <2>1, <2>2, <2>3
  <1>17. Held(arrays', variants', contents', blocks', h)
    BY <1>3, <1>8, <1>15, <1>16 DEF Held, a
  <1>18. KeptBut(arrays', arrays, handed[n].slice.arr) /\ h.slice.arr = handed[n].slice.arr
    BY <1>8, <1>11 DEF a, s, g
  <1>19. MemoryInv' /\ Remembered' = Remembered
    BY <1>1, <1>2, <1>6, <1>8, <1>12, <1>17, <1>18, Rewrite
  <1> QED
    BY <1>2, <1>6, <1>8, <1>19

LEMMA HostAppendsStep ==
    ASSUME MemoryInv, HostAppends
    PROVE  /\ MemoryInv' /\ Remembered' = Remembered
           /\ \E n \in 1..Len(handed), h \in HandedType :
                handed' = [handed EXCEPT ![n] = h] /\ h.kind = "written"
  <1>1. PICK n \in DOMAIN handed :
          /\ arrays' = AppendTo(handed[n].slice, Foreign).arrays
          /\ handed' = [handed EXCEPT ![n] =
                          [slice |-> AppendTo(handed[n].slice, Foreign).slice, kind |-> "written",
                           reads |-> Append(handed[n].reads, BlockOf(Foreign))]]
          /\ UNCHANGED <<variants, contents, blocks, conversation, sent>>
    BY DEF HostAppends
  <1> DEFINE s == handed[n].slice
             t == AppendTo(s, Foreign).slice
             c == BlockOf(Foreign)
             q == handed[n].reads
             f == Append(q, c)
             h == [slice |-> t, kind |-> "written", reads |-> f]
  <1>2. n \in 1..Len(handed)
    BY NowFacts, LenProperties
  <1>3. /\ Lies(arrays, Len(variants), s) /\ s.arr > 0
        /\ q = Shown(arrays, variants, contents, blocks, s)
    BY <1>2 DEF MemoryInv, Truthful, Held
  <1>4. q \in Seq(Block)
    BY <1>3, NowFacts, ShownNow
  <1>5. c \in Block /\ Foreign \in Nat /\ Foreign \in 1..Len(variants)
        /\ blocks[contents[variants[Foreign]]] = c
    BY NowFacts, ForeignFacts
  <1> HIDE DEF s, q, c
  <1>6. /\ arrays' \in Seq(Seq(Nat)) /\ KeptBut(arrays', arrays, s.arr) /\ t \in SliceType
        /\ t.arr = s.arr \/ t.arr = Len(arrays) + 1
    <2>1. arrays' = AppendTo(s, Foreign).arrays
      BY <1>1 DEF s
    <2> QED
      BY <1>3, <1>5, <2>1, NowFacts, AppendFacts
  <1>7. /\ Heap(arrays', variants', contents', blocks')
        /\ Grows(variants, contents, blocks, variants', contents', blocks')
    BY <1>1, <1>6, NowFacts, NothingAllocated
  <1>8. /\ Lies(arrays', Len(variants'), t)
        /\ Shown(arrays', variants', contents', blocks', t) = f
    <2>1. arrays' = AppendTo(s, Foreign).arrays
      BY <1>1 DEF s
    <2>2. Foreign \in 1..Len(variants') /\ blocks'[contents'[variants'[Foreign]]] = c
      BY <1>1, <1>5
    <2>3. /\ Heap(arrays, variants, contents, blocks)
          /\ Heap(AppendTo(s, Foreign).arrays, variants', contents', blocks')
      BY <1>7, <2>1, NowFacts
    <2>4. LET r == AppendTo(s, Foreign)
          IN  /\ Lies(r.arrays, Len(variants'), r.slice)
              /\ Shown(r.arrays, variants', contents', blocks', r.slice)
                   = Append(Shown(arrays, variants, contents, blocks, s),
                            blocks'[contents'[variants'[Foreign]]])
      BY <1>3, <1>7, <2>2, <2>3, AppendShown
    <2> QED
      BY <1>3, <2>1, <2>2, <2>4
  <1>9. f \in Seq(Block)
    BY <1>4, <1>5, AppendProperties
  <1>10. (t.arr = s.arr \/ t.arr > Len(arrays)) /\ t.arr > 0
    <2>1. Len(arrays) \in Nat /\ (t.arr = s.arr \/ t.arr = Len(arrays) + 1)
      BY <1>6, NowFacts
    <2>2. CASE t.arr = s.arr
      BY <1>3, <2>2
    <2>3. CASE t.arr = Len(arrays) + 1
      BY <2>1, <2>3
    <2> QED
      BY <2>1, <2>2, <2>3
  <1>11. t.arr > 0
    BY <1>10
  <1> HIDE DEF t, f
  <1>12. h \in HandedType /\ h.kind = "written" /\ h.slice = t /\ h.reads = f
    BY <1>6, <1>9 DEF HandedType, Kinds
  <1>13. handed' = [handed EXCEPT ![n] = h]
    BY <1>1 DEF t, f, s, q, c
  <1> HIDE DEF h
  <1>14. Held(arrays', variants', contents', blocks', h)
    BY <1>8, <1>11, <1>12 DEF Held
  <1>15. KeptBut(arrays', arrays, handed[n].slice.arr)
         /\ (h.slice.arr = handed[n].slice.arr \/ h.slice.arr > Len(arrays))
    BY <1>6, <1>10, <1>12 DEF s
  <1>16. MemoryInv' /\ Remembered' = Remembered
    BY <1>1, <1>2, <1>7, <1>12, <1>13, <1>14, <1>15, Rewrite
  <1> QED
    BY <1>2, <1>12, <1>13, <1>16

-----------------------------------------------------------------------------
(* The theorems                                                            *)

LEMMA InitHolds ==
    ASSUME Init
    PROVE  MemoryInv /\ Remembered = <<>>
  <1>1. /\ arrays = <<>> /\ variants = <<1>> /\ contents = <<1>>
        /\ blocks = <<[says |-> Host, marked |-> FALSE]>>
        /\ conversation = [arr |-> 0, len |-> 0] /\ handed = <<>> /\ sent = 0
    BY DEF Init, NilSlice, Slice
  <1>2. [says |-> Host, marked |-> FALSE] \in Block
    BY DEF Block, Host
  <1>3. Typed
    <2>1. arrays \in Seq(Seq(Nat)) /\ variants \in Seq(Nat) /\ contents \in Seq(Nat)
          /\ handed \in Seq(HandedType) /\ sent \in Nat
      BY <1>1
    <2>2. blocks \in Seq(Block)
      BY <1>1, <1>2
    <2>3. /\ \A v \in 1..Len(variants) : variants[v] \in 1..Len(contents)
          /\ \A v \in 1..Len(contents) : contents[v] \in 1..Len(blocks)
          /\ Len(variants) >= 1 /\ blocks[contents[variants[1]]] = [says |-> Host, marked |-> FALSE]
      BY <1>1
    <2> QED
      BY <2>1, <2>2, <2>3 DEF Typed, Heap
  <1>4. Remembered = <<>>
    BY <1>1 DEF Remembered, Shown
  <1>5. Lies(arrays, Len(variants), conversation)
    BY <1>1 DEF Lies, SliceType
  <1>6. Unmarked(Remembered)
    BY <1>4 DEF Unmarked
  <1>7. Truthful /\ Apart
    BY <1>1 DEF Truthful, Apart
  <1> QED
    BY <1>3, <1>4, <1>5, <1>6, <1>7 DEF MemoryInv, Committed

LEMMA Stuttering ==
    ASSUME MemoryInv, UNCHANGED vars
    PROVE  MemoryInv' /\ Remembered' = Remembered /\ handed' = handed
  BY DEF vars, heap, MemoryInv, Typed, Committed, Truthful, Apart, Remembered

\* Slices stay apart, and the host reads in each what it was given or wrote.
THEOREM MemoryInvariance == Spec => []MemoryInv
  <1>1. Init => MemoryInv
    BY InitHolds
  <1>2. MemoryInv /\ [Next]_vars => MemoryInv'
    BY AppendMessageStep, RollbackStep, GiveConversationStep, ResumeStep, SummarizeStep,
       CompactCommittedStep, BuildRequestStep, HostWritesStep, HostAppendsStep, Stuttering DEF Next
  <1> QED
    BY <1>1, <1>2, PTL DEF Spec

\* What the host was handed, a copy of the conversation, a request, a replacement or an
\* archived prefix, reads as it did then but for the host's own writes (ConversationState.Messages and Clone,
\* agent/conversation.go).
THEOREM HandedUnchangedAlways == Spec => []HandedUnchanged
  <1>1. MemoryInv => HandedUnchanged
    <2> SUFFICES ASSUME MemoryInv, NEW h \in ToSet(handed)
                 PROVE  Read(h.slice) = h.reads
      BY DEF HandedUnchanged
    <2>1. PICK n \in 1..Len(handed) : h = handed[n]
      BY NowFacts, LenProperties DEF ToSet
    <2>2. h.reads = Shown(arrays, variants, contents, blocks, h.slice)
      BY <2>1 DEF MemoryInv, Truthful, Held
    <2> QED
      BY <2>2, ReadIsShown
  <1> QED
    BY <1>1, MemoryInvariance, PTL

\* A request carries one marker, on its second-to-last message when that takes one
\* (buildRequestFrom, agent/agent.go).
THEOREM OneMarkerAlways == Spec => []OneMarker
  <1>1. MemoryInv => OneMarker
    <2> SUFFICES ASSUME MemoryInv, NEW h \in ToSet(handed), h.kind = "request"
                 PROVE  MarkedOnce(h.reads)
      BY DEF OneMarker, MarkedOnce
    <2>1. PICK n \in 1..Len(handed) : h = handed[n]
      BY NowFacts, LenProperties DEF ToSet
    <2> QED
      BY <2>1 DEF MemoryInv, Truthful, Held
  <1> QED
    BY <1>1, MemoryInvariance, PTL

\* No marker is ever left in the history (buildRequestFrom, agent/agent.go).
THEOREM HistoryUnmarkedAlways == Spec => []HistoryUnmarked
  <1>1. MemoryInv => HistoryUnmarked
    <2> SUFFICES ASSUME MemoryInv, NEW i \in 1..conversation.len
                 PROVE  ~Read(conversation)[i].marked
      BY DEF HistoryUnmarked
    <2>1. Read(conversation) = Remembered /\ DOMAIN Remembered = 1..conversation.len
      BY ReadIsShown DEF Remembered, Shown
    <2> QED
      BY <2>1, NowFacts DEF Unmarked
  <1> QED
    BY <1>1, MemoryInvariance, PTL

-----------------------------------------------------------------------------
(* Step by step, the conversation is the value that Conversation specifies *)

History == Says(Read(conversation))

Given == {Says(h.reads) : h \in {g \in ToSet(handed) : g.kind = "history"}}

LEMMA SaysFacts ==
    ASSUME NEW f \in Seq(Block)
    PROVE  /\ Says(f) \in Seq(Int) /\ Len(Says(f)) = Len(f) /\ DOMAIN Says(f) = 1..Len(f)
           /\ \A i \in 1..Len(f) : Says(f)[i] = f[i].says
  <1>1. Len(f) \in Nat /\ DOMAIN f = 1..Len(f) /\ \A i \in 1..Len(f) : f[i].says \in Int
    <2>1. \A i \in 1..Len(f) : f[i] \in Block
      BY ElementOfSeq
    <2>2. \A i \in 1..Len(f) : f[i].says \in Int
      BY <2>1 DEF Block
    <2>3. Len(f) \in Nat /\ DOMAIN f = 1..Len(f)
      BY LenProperties
    <2> QED
      BY <2>2, <2>3
  <1> DEFINE n == Len(f)
             g == Says(f)
  <1>2. g \in [1..n -> Int] /\ \A i \in 1..n : g[i] = f[i].says
    BY <1>1 DEF Says
  <1>3. n \in Nat
    BY <1>1
  <1> HIDE DEF n, g
  <1>4. g \in Seq(Int) /\ Len(g) = n /\ DOMAIN g = 1..n
    BY <1>2, <1>3
  <1> QED
    BY <1>2, <1>4 DEF n, g

LEMMA SaysAppend ==
    ASSUME NEW f \in Seq(Block), NEW b \in Block
    PROVE  Says(Append(f, b)) = Append(Says(f), b.says)
  <1> DEFINE g == Append(f, b)
             n == Len(f)
             x == Says(g)
             y == Append(Says(f), b.says)
  <1>1. g \in Seq(Block) /\ Len(g) = n + 1 /\ g[n + 1] = b /\ \A i \in 1..n : g[i] = f[i]
    BY AppendProperties
  <1>2. Says(f) \in Seq(Int) /\ Len(Says(f)) = n /\ \A i \in 1..n : Says(f)[i] = f[i].says
    BY SaysFacts
  <1>3. b.says \in Int /\ n \in Nat
    BY LenProperties DEF Block
  <1> HIDE DEF g, n
  <1>4. x \in Seq(Int) /\ Len(x) = n + 1 /\ \A i \in 1..n + 1 : x[i] = g[i].says
    BY <1>1, SaysFacts
  <1>5. y \in Seq(Int) /\ Len(y) = n + 1 /\ y[n + 1] = b.says /\ \A i \in 1..n : y[i] = Says(f)[i]
    BY <1>2, <1>3
  <1> HIDE DEF x, y
  <1>6. \A i \in 1..n + 1 : i \in 1..n \/ i = n + 1
    BY <1>3
  <1>7. n + 1 \in 1..n + 1 /\ 1..n \subseteq 1..n + 1
    BY <1>3
  <1>8. \A i \in 1..n + 1 : x[i] = y[i]
    <2>1. \A i \in 1..n : x[i] = y[i]
      <3> TAKE i \in 1..n
      <3>1. x[i] = f[i].says
        BY <1>1, <1>4, <1>7
      <3>2. y[i] = f[i].says
        BY <1>2, <1>5
      <3> QED
        BY <3>1, <3>2
    <2>2. x[n + 1] = y[n + 1]
      BY <1>1, <1>4, <1>5, <1>7
    <2> QED
      BY <1>6, <2>1, <2>2
  <1>9. x = y
    BY <1>4, <1>5, <1>8, SeqEqual
  <1> QED
    BY <1>9 DEF x, y, g

LEMMA SaysShortened ==
    ASSUME NEW f \in Seq(Block), NEW n \in 0..Len(f)
    PROVE  Says(SubSeq(f, 1, n)) = SubSeq(Says(f), 1, n)
  <1> DEFINE g == SubSeq(f, 1, n)
             x == Says(g)
             s == Says(f)
             y == SubSeq(s, 1, n)
  <1>1. Len(f) \in Nat /\ n \in Nat /\ n <= Len(f) /\ 1..n \subseteq 1..Len(f)
    BY LenProperties
  <1>2. s \in Seq(Int) /\ Len(s) = Len(f) /\ \A i \in 1..Len(f) : s[i] = f[i].says
    BY SaysFacts
  <1> HIDE DEF s
  <1>3. g \in Seq(Block) /\ Len(g) = n /\ \A i \in 1..n : g[i] = f[i]
    BY <1>1
  <1> HIDE DEF g
  <1>4. y \in Seq(Int) /\ Len(y) = n /\ \A i \in 1..n : y[i] = s[i]
    BY <1>1, <1>2
  <1>5. x \in Seq(Int) /\ Len(x) = n /\ \A i \in 1..n : x[i] = g[i].says
    BY <1>3, SaysFacts
  <1> HIDE DEF x, y
  <1>6. \A i \in 1..n : x[i] = y[i]
    BY <1>1, <1>2, <1>3, <1>4, <1>5
  <1>7. x = y
    BY <1>4, <1>5, <1>6, SeqEqual
  <1> QED
    BY <1>7 DEF x, y, g, s

LEMMA SaysDropped ==
    ASSUME NEW f \in Seq(Block), NEW c \in 1..Len(f)
    PROVE  Says(SubSeq(f, c + 1, Len(f))) = SubSeq(Says(f), c + 1, Len(Says(f)))
  <1> DEFINE s == Says(f)
             g == SubSeq(f, c + 1, Len(f))
             x == Says(g)
             y == SubSeq(s, c + 1, Len(s))
  <1>1. s \in Seq(Int) /\ Len(s) = Len(f) /\ \A i \in 1..Len(f) : s[i] = f[i].says
    BY SaysFacts
  <1> HIDE DEF s
  <1>2. /\ g \in Seq(Block) /\ Len(g) = Len(f) - c
        /\ \A i \in 1..Len(f) - c : g[i] = f[c + i] /\ c + i \in 1..Len(f)
    BY Dropped
  <1>3. y \in Seq(Int) /\ Len(y) = Len(f) - c /\ \A i \in 1..Len(f) - c : y[i] = s[c + i]
    <2>1. c \in 1..Len(s)
      BY <1>1
    <2> QED
      BY <1>1, <2>1, Dropped
  <1> HIDE DEF g, y
  <1>4. x \in Seq(Int) /\ Len(x) = Len(g) /\ \A i \in 1..Len(g) : x[i] = g[i].says
    BY <1>2, SaysFacts
  <1> HIDE DEF x
  <1>5. \A i \in 1..Len(x) : x[i] = y[i]
    BY <1>1, <1>2, <1>3, <1>4
  <1>6. x = y
    BY <1>2, <1>3, <1>4, <1>5, SeqEqual
  <1> QED
    BY <1>6 DEF x, y, g, s

LEMMA SaysReplaced ==
    ASSUME NEW f \in Seq(Block), NEW c \in 1..Len(f), NEW b \in Block
    PROVE  Says(<<b>> \o SubSeq(f, c + 1, Len(f)))
             = <<b.says>> \o SubSeq(Says(f), c + 1, Len(Says(f)))
  <1> DEFINE n == Len(f)
             g == <<b>> \o SubSeq(f, c + 1, n)
             s == Says(f)
             x == Says(g)
             y == <<b.says>> \o SubSeq(s, c + 1, n)
             m == 1 + n - c
  <1>1. s \in Seq(Int) /\ Len(s) = n /\ \A i \in 1..n : s[i] = f[i].says
    BY SaysFacts
  <1>2. b.says \in Int /\ n \in Nat /\ c \in 1..n /\ n = Len(f)
    BY LenProperties DEF Block
  <1>3. g \in Seq(Block) /\ g[1] = b /\ Len(g) = m /\ \A i \in 2..m : g[i] = f[c + i - 1]
    BY Replaced
  <1> HIDE DEF s
  <1>4. y \in Seq(Int) /\ y[1] = b.says /\ Len(y) = m /\ \A i \in 2..m : y[i] = s[c + i - 1]
    <2> DEFINE S == Int
               e == b.says
               l == Len(s)
    <2>1. s \in Seq(S) /\ e \in S /\ c \in 1..l /\ l = n
      BY <1>1, <1>2
    <2> HIDE DEF S, e, n
    <2>2. LET t == <<e>> \o SubSeq(s, c + 1, Len(s))
          IN  /\ t \in Seq(S) /\ t[1] = e
              /\ Len(t) = 1 + Len(s) - c /\ Len(SubSeq(s, c + 1, Len(s))) = Len(s) - c
              /\ \A i \in 2..1 + Len(s) - c : t[i] = s[c + i - 1]
      BY <2>1, Replaced
    <2> QED
      BY <2>1, <2>2 DEF S, e
  <1> HIDE DEF g, y, n
  <1>5. x \in Seq(Int) /\ Len(x) = m /\ \A i \in 1..m : x[i] = g[i].says
    BY <1>3, SaysFacts
  <1> HIDE DEF x
  <1>6. \A i \in 2..m : i \in 1..m /\ c + i - 1 \in 1..n
    BY <1>2
  <1>7. \A i \in 1..m : i = 1 \/ i \in 2..m
    BY <1>2
  <1>8. 1 \in 1..m
    BY <1>2
  <1> HIDE DEF m
  <1>9. \A i \in 1..m : x[i] = y[i]
    <2>1. x[1] = y[1]
      BY <1>3, <1>4, <1>5, <1>8
    <2>2. ASSUME NEW i \in 2..m
          PROVE  x[i] = y[i]
      <3>1. i \in 1..m /\ c + i - 1 \in 1..n
        BY <1>6
      <3>2. x[i] = f[c + i - 1].says
        BY <1>3, <1>5, <3>1
      <3>3. y[i] = f[c + i - 1].says
        BY <1>1, <1>4, <3>1
      <3> QED
        BY <3>2, <3>3
    <2> QED
      BY <1>7, <2>1, <2>2
  <1>10. x = y
    BY <1>4, <1>5, <1>9, SeqEqual
  <1> QED
    BY <1>1, <1>10 DEF x, y, g, s, n

LEMMA HistoryIs ==
    ASSUME MemoryInv
    PROVE  /\ History = Says(Remembered) /\ Len(History) = Len(Remembered)
           /\ Remembered \in Seq(Block)
           /\ Given = {Says(handed[n].reads) : n \in {m \in 1..Len(handed) : handed[m].kind = "history"}}
  <1>1. History = Says(Remembered)
    BY ReadIsShown DEF History, Remembered
  <1>2. DOMAIN handed = 1..Len(handed)
    BY NowFacts, LenProperties
  <1>3. Remembered \in Seq(Block) /\ Len(History) = Len(Remembered)
    BY <1>1, NowFacts, SaysFacts
  <1>4. ToSet(handed) = {handed[m] : m \in 1..Len(handed)}
    BY <1>2 DEF ToSet
  <1>5. Given = {Says(handed[n].reads) : n \in {m \in 1..Len(handed) : handed[m].kind = "history"}}
    BY <1>4 DEF Given
  <1> QED
    BY <1>1, <1>3, <1>5

LEMMA GivenHandOut ==
    ASSUME MemoryInv, MemoryInv', NEW h \in HandedType, handed' = Append(handed, h)
    PROVE  Given' = Given \cup (IF h.kind = "history" THEN {Says(h.reads)} ELSE {})
  <1> DEFINE n == Len(handed)
  <1>1. handed \in Seq(HandedType) /\ n \in Nat
    BY NowFacts
  <1>2. Len(handed') = n + 1 /\ handed'[n + 1] = h /\ \A m \in 1..n : handed'[m] = handed[m]
    BY <1>1, AppendProperties
  <1>3. Given' = {Says(handed'[j].reads) : j \in {m \in 1..n + 1 : handed'[m].kind = "history"}}
    <2>1. DOMAIN handed' = 1..Len(handed')
      <3>1. handed' \in Seq(HandedType)
        BY <1>1, AppendProperties
      <3> QED
        BY <3>1, LenProperties
    <2> QED
      BY <1>2, <2>1 DEF Given, ToSet
  <1>4. Given = {Says(handed[j].reads) : j \in {m \in 1..n : handed[m].kind = "history"}}
    BY HistoryIs
  <1>5. \A j \in 1..n + 1 : j \in 1..n \/ j = n + 1
    BY <1>1
  <1>6. n + 1 \in 1..n + 1 /\ 1..n \subseteq 1..n + 1
    BY <1>1
  <1> HIDE DEF n
  <1>7. Given' \subseteq Given \cup (IF h.kind = "history" THEN {Says(h.reads)} ELSE {})
    BY <1>2, <1>3, <1>4, <1>5
  <1>8. Given \subseteq Given'
    BY <1>2, <1>3, <1>4, <1>6
  <1>9. h.kind = "history" => Says(h.reads) \in Given'
    BY <1>2, <1>3, <1>6
  <1> QED
    BY <1>7, <1>8, <1>9

LEMMA GivenRewrite ==
    ASSUME MemoryInv, NEW n \in 1..Len(handed), NEW h \in HandedType,
           handed' = [handed EXCEPT ![n] = h], h.kind = "written"
    PROVE  Given' \subseteq Given
  <1>1. /\ handed' \in Seq(HandedType) /\ Len(handed') = Len(handed)
        /\ \A m \in 1..Len(handed) : handed'[m] = IF m = n THEN h ELSE handed[m]
    BY NowFacts, ExceptSeq
  <1>2. DOMAIN handed' = 1..Len(handed)
    BY <1>1, LenProperties
  <1>3. Given' = {Says(handed'[j].reads) : j \in {m \in 1..Len(handed) : handed'[m].kind = "history"}}
    BY <1>2 DEF Given, ToSet
  <1>4. \A j \in 1..Len(handed) : handed'[j].kind = "history" => handed'[j] = handed[j]
    BY <1>1
  <1> QED
    BY <1>3, <1>4, HistoryIs

\* The conversation, with the slices given out, is a value that only its own operations
\* change (agent/conversation.go): the refinement of Conversation, step by step.
THEOREM ConversationRefined == Spec => ImplementsConversation
  <1>1. Init => C!Init
    <2> SUFFICES ASSUME Init
                 PROVE  C!Init
      OBVIOUS
    <2>1. History = <<>>
      BY InitHolds, HistoryIs DEF Says
    <2>2. Given = {}
      BY DEF Init, ToSet, Given
    <2> QED
      BY <2>1, <2>2 DEF C!Init, History, Given
  <1>2. MemoryInv /\ MemoryInv' /\ [Next]_vars => [C!Next]_<<History, Given>>
    <2> SUFFICES ASSUME MemoryInv, MemoryInv', [Next]_vars
                 PROVE  C!Next \/ UNCHANGED <<History, Given>>
      OBVIOUS
    <2> DEFINE Message == {Host, Summary} \cup 1..MaxMessages
    <2>1. /\ History = Says(Remembered) /\ Len(History) = Len(Remembered)
          /\ Remembered \in Seq(Block) /\ History' = Says(Remembered')
      <3>1. History' = Says(Remembered)'
        BY DEF History, Remembered, Says, Read, BlockOf, Shown
      <3> QED
        BY <3>1, HistoryIs
    <2>2. handed' = handed => Given' = Given
      BY DEF Given
    <2>3. Remembered' = Remembered => History' = History
      BY <2>1
    <2>4. CASE AppendMessage
      <3>1. Remembered' = Append(Remembered, [says |-> sent + 1, marked |-> FALSE])
        BY <2>4, AppendMessageStep
      <3>2. sent + 1 \in Message /\ sent + 1 \in Int
        BY <2>4, NowFacts, MemoryAssumption DEF AppendMessage
      <3>3. [says |-> sent + 1, marked |-> FALSE] \in Block
        BY <3>2 DEF Block
      <3>4. History' = Append(History, sent + 1)
        BY <2>1, <3>1, <3>3, SaysAppend
      <3>5. Given' = Given
        BY <2>2, <2>4 DEF AppendMessage
      <3> QED
        BY <3>2, <3>4, <3>5 DEF C!Next, C!AppendMessage, History, Given
    <2>5. CASE Rollback
      <3>1. PICK n \in 0..Len(Remembered) : Remembered' = SubSeq(Remembered, 1, n)
        BY <2>5, RollbackStep
      <3>2. History' = SubSeq(History, 1, n) /\ n \in 0..Len(History)
        BY <2>1, <3>1, SaysShortened
      <3>3. Given' = Given
        BY <2>2, <2>5 DEF Rollback
      <3> QED
        BY <3>2, <3>3 DEF C!Next, C!TakeBack, History, Given
    <2>6. CASE GiveConversation
      <3>1. PICK h \in HandedType :
              handed' = Append(handed, h) /\ h.kind = "history" /\ h.reads = Remembered
        BY <2>6, GiveConversationStep
      <3>2. Given' = Given \cup {History} /\ History' = History
        BY <2>1, <2>3, <2>6, <3>1, GiveConversationStep, GivenHandOut
      <3> QED
        BY <3>2 DEF C!Next, C!Give, History, Given
    <2>7. CASE Resume
      <3>1. PICK n \in 1..Len(handed) : handed[n].kind = "history" /\ Remembered' = handed[n].reads
        BY <2>7, ResumeStep
      <3>2. History' \in Given
        BY <2>1, <3>1, HistoryIs
      <3>3. Given' = Given
        BY <2>2, <2>7, ResumeStep
      <3> QED
        BY <3>2, <3>3 DEF C!Next, C!Resume, History, Given
    <2>8. CASE CompactCommitted
      <3>1. PICK cut \in 1..Len(Remembered) :
              LET u == SubSeq(Remembered, cut + 1, Len(Remembered))
              IN  Remembered' = u \/ Remembered' = <<SummaryBlock>> \o u
        BY <2>8, CompactCommittedStep
      <3> DEFINE t == SubSeq(History, cut + 1, Len(History))
      <3>2. SummaryBlock \in Block /\ SummaryBlock.says = Summary /\ Summary \in Message
        BY DEF Block, SummaryBlock, Summary
      <3>3. cut \in 1..Len(History) /\ t = <<>> \o t
        <4>1. History \in Seq(Int) /\ cut \in 1..Len(History)
          BY <2>1, SaysFacts
        <4>2. t \in Seq(Int)
          BY <4>1, Dropped
        <4> HIDE DEF t
        <4> QED
          BY <4>1, <4>2, NothingBefore
      <3>4. History' = <<>> \o t \/ History' = <<Summary>> \o t
        BY <2>1, <3>1, <3>2, <3>3, SaysReplaced, SaysDropped
      <3>5. Given' = Given
        <4>1. CASE handed' = handed
          BY <2>2, <4>1
        <4>2. CASE handed' # handed
          BY <2>8, <4>2, CompactCommittedStep, GivenHandOut
        <4> QED
          BY <4>1, <4>2
      <3> QED
        BY <3>2, <3>3, <3>4, <3>5 DEF C!Next, C!Compact, History, Given
    <2>s. CASE Summarize
      <3>1. Given' = Given /\ History' = History
        BY <2>3, <2>s, SummarizeStep, GivenHandOut
      <3> QED
        BY <3>1
    <2>9. CASE BuildRequest
      <3>1. Given' = Given /\ History' = History
        BY <2>3, <2>9, BuildRequestStep, GivenHandOut
      <3> QED
        BY <3>1
    <2>10. CASE HostWrites \/ HostAppends
      <3>1. Given' \subseteq Given /\ History' = History
        BY <2>3, <2>10, HostWritesStep, HostAppendsStep, GivenRewrite
      <3> QED
        BY <3>1 DEF C!Next, C!Forget, History, Given
    <2>11. CASE UNCHANGED vars
      BY <2>2, <2>3, <2>11, Stuttering
    <2> QED
      BY <2>4, <2>5, <2>6, <2>7, <2>8, <2>s, <2>9, <2>10, <2>11 DEF Next
  <1> QED
    BY <1>1, <1>2, MemoryInvariance, PTL
    DEF Spec, ImplementsConversation, C!Spec, History, Given
=============================================================================
