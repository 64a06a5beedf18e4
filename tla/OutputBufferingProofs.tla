------------------------ MODULE OutputBufferingProofs ------------------------
(***************************************************************************)
(* Proofs about OutputBuffering: its types, its safety properties and that *)
(* it implements OutputStream, for any program.                            *)
(*                                                                         *)
(* The operations on the stack come first: what a write, the deprecation   *)
(* and the end of a handler do to the stack (Grown) and to the texts       *)
(* (Moves).  Then the invariant: the handlers stand in the order of their  *)
(* ids (Ordered), a disabled one holds nothing (Silent), nothing takes a   *)
(* handler that runs off the stack (Running) and its calls stand in the    *)
(* order of the stack (Stacked), and every text is where it can be and     *)
(* nowhere twice (Faithful).                                               *)
(***************************************************************************)
EXTENDS OutputBuffering, SequenceLemmas

-----------------------------------------------------------------------------
(* Handlers and their texts                                                *)

LEMMA NumbersOfTexts == MaxTexts \in Nat /\ MaxStarts \in Nat /\ Diagnostic \in Texts
BY OutputAssumption DEF Texts, Diagnostic

LEMMA StateParts ==
  ASSUME NEW o \in OutputStates
  PROVE  /\ o.handlers \in Seq(Handlers) /\ o.client \in Seq(Texts)
         /\ o.dropped \subseteq Texts /\ o.lost \subseteq Texts
         /\ o.running \in Ids \cup {None} /\ o.due \in Ids \cup {None}
         /\ o.deactivated \in BOOLEAN
         /\ Len(o.handlers) \in Nat /\ DOMAIN o.handlers = 1 .. Len(o.handlers)
         /\ \A i \in 1 .. Len(o.handlers) :
              o.handlers[i] \in Handlers /\ o.handlers[i].buf \in Seq(Texts)
<1>1. o.handlers \in Seq(Handlers)
  BY DEF OutputStates
<1>2. /\ Len(o.handlers) \in Nat /\ DOMAIN o.handlers = 1 .. Len(o.handlers)
      /\ \A i \in 1 .. Len(o.handlers) : o.handlers[i] \in Handlers
  BY <1>1, LenProperties, ElementOfSeq
<1>3. \A h \in Handlers : h.buf \in Seq(Texts)
  BY DEF Handlers
<1> QED
  BY <1>1, <1>2, <1>3 DEF OutputStates

\* The texts in the n lowest handlers, and in those above them.
Ahead(o, n) == FlattenSeq([k \in 1 .. n |-> o.handlers[k].buf])
Behind(o, n) == FlattenSeq([k \in 1 .. Len(o.handlers) - n |-> o.handlers[n + k].buf])

LEMMA BufferSeqs ==
  ASSUME NEW o \in OutputStates, NEW n \in 0 .. Len(o.handlers)
  PROVE  /\ [k \in 1 .. n |-> o.handlers[k].buf] \in Seq(Seq(Texts))
         /\ Len([k \in 1 .. n |-> o.handlers[k].buf]) = n
         /\ [k \in 1 .. Len(o.handlers) - n |-> o.handlers[n + k].buf] \in Seq(Seq(Texts))
         /\ Len([k \in 1 .. Len(o.handlers) - n |-> o.handlers[n + k].buf]) = Len(o.handlers) - n
         /\ Ahead(o, n) \in Seq(Texts) /\ Behind(o, n) \in Seq(Texts)
<1> DEFINE m == Len(o.handlers) - n
           f == [k \in 1 .. n |-> o.handlers[k].buf]
           g == [k \in 1 .. m |-> o.handlers[n + k].buf]
<1>1. n \in Nat /\ Len(o.handlers) \in Nat /\ m \in Nat
  BY StateParts
<1>2. ASSUME NEW k \in 1 .. n PROVE o.handlers[k].buf \in Seq(Texts)
  <2>1. k \in 1 .. Len(o.handlers)
    BY <1>1
  <2> QED
    BY <2>1, StateParts
<1>3. ASSUME NEW k \in 1 .. m PROVE o.handlers[n + k].buf \in Seq(Texts)
  <2>1. n + k \in 1 .. Len(o.handlers)
    BY <1>1
  <2> QED
    BY <2>1, StateParts
<1>4. f \in [1 .. n -> Seq(Texts)] /\ g \in [1 .. m -> Seq(Texts)]
  BY <1>2, <1>3
<1> HIDE DEF m, f, g
<1>5. f \in Seq(Seq(Texts)) /\ Len(f) = n
  BY <1>1, <1>4
<1>6. g \in Seq(Seq(Texts)) /\ Len(g) = m
  BY <1>1, <1>4
<1>7. FlattenSeq(f) \in Seq(Texts) /\ FlattenSeq(g) \in Seq(Texts)
  BY <1>5, <1>6, FlattenType
<1> QED
  BY <1>5, <1>6, <1>7 DEF f, g, m, Ahead, Behind

LEMMA ContentsSplit ==
  ASSUME NEW o \in OutputStates, NEW n \in 0 .. Len(o.handlers)
  PROVE  /\ Contents(o) = Ahead(o, n) \o Behind(o, n)
         /\ Contents(o) \in Seq(Texts)
<1> DEFINE l == Len(o.handlers)
           m == l - n
           f == [k \in 1 .. n |-> o.handlers[k].buf]
           g == [k \in 1 .. m |-> o.handlers[n + k].buf]
           s == [k \in 1 .. l |-> o.handlers[k].buf]
<1>1. n \in Nat /\ l \in Nat /\ m \in Nat /\ DOMAIN o.handlers = 1 .. l
  BY StateParts
<1>2. f \in Seq(Seq(Texts)) /\ Len(f) = n /\ g \in Seq(Seq(Texts)) /\ Len(g) = m
  BY BufferSeqs
<1>3. s \in Seq(Seq(Texts)) /\ Len(s) = l
  <2>1. l \in 0 .. Len(o.handlers)
    BY <1>1
  <2> QED
    BY <2>1, BufferSeqs
<1>4. f \o g = s
  <2>1. /\ f \o g \in Seq(Seq(Texts)) /\ Len(f \o g) = Len(f) + Len(g)
        /\ \A i \in 1 .. Len(f) + Len(g) :
             (f \o g)[i] = IF i <= Len(f) THEN f[i] ELSE g[i - Len(f)]
    BY <1>2, ConcatProperties
  <2>2. Len(f \o g) = l
    BY <1>1, <1>2, <2>1
  <2>3. ASSUME NEW i \in 1 .. l PROVE (f \o g)[i] = s[i]
    <3>1. (f \o g)[i] = IF i <= n THEN f[i] ELSE g[i - n]
      BY <1>1, <1>2, <2>1
    <3>2. i <= n => i \in 1 .. n
      OBVIOUS
    <3>3. ~ (i <= n) => i - n \in 1 .. m /\ n + (i - n) = i
      BY <1>1
    <3> QED
      BY <3>1, <3>2, <3>3
  <2> HIDE DEF f, g, s, l, m
  <2> QED
    BY <1>3, <2>1, <2>2, <2>3, SeqEqual
<1>5. Contents(o) = FlattenSeq(s)
  BY <1>1 DEF Contents
<1>6. FlattenSeq(s) = FlattenSeq(f) \o FlattenSeq(g)
  <2> HIDE DEF f, g, s
  <2> QED
    BY <1>2, <1>4, FlattenConcat
<1>7. FlattenSeq(s) \in Seq(Texts)
  BY <1>3, FlattenType
<1> QED
  BY <1>5, <1>6, <1>7 DEF Ahead, Behind

\* Handlers with the same texts.
LEMMA AheadAgrees ==
  ASSUME NEW o, NEW p, NEW n,
         \A k \in 1 .. n : p.handlers[k].buf = o.handlers[k].buf
  PROVE  Ahead(p, n) = Ahead(o, n)
<1>1. [k \in 1 .. n |-> p.handlers[k].buf] = [k \in 1 .. n |-> o.handlers[k].buf]
  OBVIOUS
<1> QED
  BY <1>1 DEF Ahead

LEMMA BehindAgrees ==
  ASSUME NEW o \in OutputStates, NEW p, NEW n \in 0 .. Len(o.handlers),
         Len(p.handlers) = Len(o.handlers),
         \A k \in n + 1 .. Len(o.handlers) : p.handlers[k].buf = o.handlers[k].buf
  PROVE  Behind(p, n) = Behind(o, n)
<1> DEFINE m == Len(o.handlers) - n
<1>1. n \in Nat /\ Len(o.handlers) \in Nat
  BY StateParts
<1>2. ASSUME NEW k \in 1 .. m PROVE p.handlers[n + k].buf = o.handlers[n + k].buf
  <2>1. n + k \in n + 1 .. Len(o.handlers)
    BY <1>1
  <2> QED
    BY <2>1
<1> HIDE DEF m
<1>3. [k \in 1 .. m |-> p.handlers[n + k].buf] = [k \in 1 .. m |-> o.handlers[n + k].buf]
  BY <1>2
<1> QED
  BY <1>3 DEF Behind, m

LEMMA AheadOfNone == ASSUME NEW o \in OutputStates PROVE Ahead(o, 0) = <<>>
<1>1. 0 \in 0 .. Len(o.handlers)
  BY StateParts
<1> DEFINE f == [k \in 1 .. 0 |-> o.handlers[k].buf]
<1>2. f \in Seq(Seq(Texts)) /\ Len(f) = 0
  BY <1>1, BufferSeqs
<1>3. f = <<>>
  BY <1>2, EmptySeq
<1> QED
  BY <1>3, FlattenEmpty DEF Ahead

LEMMA BehindAll == ASSUME NEW o \in OutputStates PROVE Behind(o, Len(o.handlers)) = <<>>
<1> DEFINE l == Len(o.handlers)
           f == [k \in 1 .. l - l |-> o.handlers[l + k].buf]
<1>1. l \in 0 .. Len(o.handlers) /\ l \in Nat
  BY StateParts
<1>2. f \in Seq(Seq(Texts)) /\ Len(f) = l - l
  BY <1>1, BufferSeqs
<1>3. f = <<>>
  BY <1>1, <1>2, EmptySeq
<1> QED
  BY <1>3, FlattenEmpty DEF Behind

LEMMA AheadStep ==
  ASSUME NEW o \in OutputStates, NEW n \in Nat, n + 1 <= Len(o.handlers)
  PROVE  Ahead(o, n + 1) = Ahead(o, n) \o o.handlers[n + 1].buf
<1> DEFINE f == [k \in 1 .. n |-> o.handlers[k].buf]
           g == [k \in 1 .. n + 1 |-> o.handlers[k].buf]
           x == o.handlers[n + 1].buf
<1>1. n \in 0 .. Len(o.handlers) /\ n + 1 \in 0 .. Len(o.handlers) /\ n + 1 \in 1 .. Len(o.handlers)
  BY StateParts
<1>2. /\ f \in Seq(Seq(Texts)) /\ Len(f) = n /\ g \in Seq(Seq(Texts)) /\ Len(g) = n + 1
      /\ x \in Seq(Texts)
  BY <1>1, BufferSeqs, StateParts
<1>3. (\A k \in 1 .. n : g[k] = f[k]) /\ g[n + 1] = x
  OBVIOUS
<1> HIDE DEF f, g, x
<1>4. /\ Append(f, x) \in Seq(Seq(Texts)) /\ Len(Append(f, x)) = n + 1
      /\ (\A k \in 1 .. n : Append(f, x)[k] = f[k]) /\ Append(f, x)[n + 1] = x
  BY <1>2, AppendProperties
<1>5. g = Append(f, x)
  <2>1. \A k \in 1 .. n + 1 : g[k] = Append(f, x)[k]
    <3>1. \A k \in 1 .. n + 1 : k \in 1 .. n \/ k = n + 1
      OBVIOUS
    <3> QED
      BY <1>3, <1>4, <3>1
  <2> QED
    BY <1>2, <1>4, <2>1, SeqEqual
<1>6. FlattenSeq(Append(f, x)) = FlattenSeq(f) \o x
  BY <1>2, FlattenAppend
<1> QED
  BY <1>5, <1>6 DEF Ahead, f, g, x

\* Handlers that hold nothing add nothing.
LEMMA AheadSilent ==
  ASSUME NEW o \in OutputStates, NEW m \in Nat, NEW n \in Nat, m <= n, n <= Len(o.handlers),
         \A k \in m + 1 .. n : o.handlers[k].buf = <<>>
  PROVE  Ahead(o, n) = Ahead(o, m)
<1> DEFINE N == {d \in Nat : m + d <= n => Ahead(o, m + d) = Ahead(o, m)}
<1>1. 0 \in N
  OBVIOUS
<1>2. ASSUME NEW d \in Nat, d \in N
      PROVE  d + 1 \in N
  <2>0. d + 1 \in Nat
    OBVIOUS
  <2> SUFFICES ASSUME m + (d + 1) <= n PROVE Ahead(o, m + (d + 1)) = Ahead(o, m)
    BY <2>0
  <2>1. m + d <= n /\ m + d \in Nat /\ (m + d) + 1 = m + (d + 1) /\ (m + d) + 1 \in m + 1 .. n
        /\ Len(o.handlers) \in Nat
    BY StateParts
  <2>2. (m + d) + 1 <= Len(o.handlers) /\ m + d \in 0 .. Len(o.handlers)
    BY <2>1
  <2>3. Ahead(o, (m + d) + 1) = Ahead(o, m + d) \o o.handlers[(m + d) + 1].buf
    BY <2>1, <2>2, AheadStep
  <2>4. o.handlers[(m + d) + 1].buf = <<>>
    BY <2>1
  <2>5. Ahead(o, m + d) \in Seq(Texts)
    BY <2>2, BufferSeqs
  <2>6. Ahead(o, m + d) \o <<>> = Ahead(o, m + d)
    BY <2>5, ConcatEmptySeq
  <2>7. Ahead(o, m + d) = Ahead(o, m)
    BY <1>2, <2>1
  <2> QED
    BY <2>1, <2>3, <2>4, <2>6, <2>7
<1> HIDE DEF N
<1>3. n - m \in N
  <2>1. Nat \subseteq N
    BY <1>1, <1>2, NatSetInduction
  <2> QED
    BY <2>1
<1>4. m + (n - m) = n
  OBVIOUS
<1> QED
  BY <1>3, <1>4 DEF N

\* The handler at i holds its part of the contents.
LEMMA ContentsAt ==
  ASSUME NEW o \in OutputStates, NEW i \in 1 .. Len(o.handlers)
  PROVE  /\ i - 1 \in 0 .. Len(o.handlers) /\ i \in 0 .. Len(o.handlers)
         /\ Ahead(o, i) = Ahead(o, i - 1) \o o.handlers[i].buf
         /\ Contents(o) = (Ahead(o, i - 1) \o o.handlers[i].buf) \o Behind(o, i)
<1>1. /\ i - 1 \in Nat /\ (i - 1) + 1 = i /\ i <= Len(o.handlers)
      /\ i - 1 \in 0 .. Len(o.handlers) /\ i \in 0 .. Len(o.handlers)
  BY StateParts
<1>2. Ahead(o, (i - 1) + 1) = Ahead(o, i - 1) \o o.handlers[(i - 1) + 1].buf
  BY <1>1, AheadStep
<1>3. Contents(o) = Ahead(o, i) \o Behind(o, i)
  BY <1>1, ContentsSplit
<1> QED
  BY <1>1, <1>2, <1>3

-----------------------------------------------------------------------------
(* What is written                                                         *)

\* The handler g is h, or h with more text.
Alike(h, g) ==
  /\ g.id = h.id /\ g.user = h.user /\ g.size = h.size /\ g.disabled = h.disabled
  /\ IsPrefix(h.buf, g.buf)
  /\ h.disabled => g.buf = h.buf

\* p is o after writing: nothing moves, and a chunk is due only when no
\* handler runs and one with a size is there.
Grown(o, p) ==
  /\ p \in OutputStates /\ Len(p.handlers) = Len(o.handlers)
  /\ \A i \in 1 .. Len(o.handlers) : Alike(o.handlers[i], p.handlers[i])
  /\ IsPrefix(o.client, p.client)
  /\ p.running = o.running /\ p.deactivated = o.deactivated /\ p.dropped = o.dropped
  /\ o.running # None \/ (\A i \in 1 .. Len(o.handlers) : o.handlers[i].size = 0)
       => p.due = o.due

\* The write has found the handler at i.
Written(o, i, text) ==
  LET h == [o.handlers[i] EXCEPT !.buf = @ \o text, !.produced = @ \/ o.running # None]
  IN [o EXCEPT !.handlers[i] = h,
               !.due = IF Full(h) /\ o.running = None THEN h.id ELSE @]

LEMMA HandlerParts ==
  ASSUME NEW h \in Handlers
  PROVE  /\ h.id \in Ids /\ h.id # None /\ h.user \in BOOLEAN /\ h.size \in ChunkSizes
         /\ h.able \in Abilities /\ h.started \in BOOLEAN /\ h.disabled \in BOOLEAN
         /\ h.produced \in BOOLEAN /\ h.buf \in Seq(Texts)
BY DEF Handlers, Ids, None

LEMMA ProgramTextsType ==
  ASSUME NEW s \in Seq(Texts)
  PROVE  ProgramTexts(s) \in Seq(Texts)
BY KeepType DEF ProgramTexts

LEMMA ProgramTextsOfConcat ==
  ASSUME NEW s \in Seq(Texts), NEW t \in Seq(Texts)
  PROVE  ProgramTexts(s \o t) = ProgramTexts(s) \o ProgramTexts(t)
BY KeepConcat DEF ProgramTexts

LEMMA ProgramTextsOfThree ==
  ASSUME NEW a \in Seq(Texts), NEW b \in Seq(Texts), NEW c \in Seq(Texts)
  PROVE  ProgramTexts((a \o b) \o c) = (ProgramTexts(a) \o ProgramTexts(b)) \o ProgramTexts(c)
<1> DEFINE l == a \o b
<1>1. l \in Seq(Texts)
  BY ConcatProperties
<1>2. ProgramTexts(l) = ProgramTexts(a) \o ProgramTexts(b)
  BY ProgramTextsOfConcat
<1> HIDE DEF l
<1>3. ProgramTexts(l \o c) = ProgramTexts(l) \o ProgramTexts(c)
  BY <1>1, ProgramTextsOfConcat
<1> QED
  BY <1>2, <1>3 DEF l

LEMMA WriteBelowCases ==
  ASSUME NEW o \in OutputStates, NEW n \in 0 .. Len(o.handlers), NEW text \in Seq(Texts)
  PROVE  \/ text = <<>> /\ WriteBelow(o, n, text) = o
         \/ /\ \A k \in 1 .. n : o.handlers[k].disabled
            /\ WriteBelow(o, n, text) = [o EXCEPT !.client = @ \o ProgramTexts(text)]
         \/ \E i \in 1 .. n :
              /\ ~ o.handlers[i].disabled
              /\ \A k \in i + 1 .. n : o.handlers[k].disabled
              /\ WriteBelow(o, n, text) = Written(o, i, text)
<1> DEFINE enabled == {i \in 1 .. n : ~ o.handlers[i].disabled}
           i == Max(enabled)
<1>1. CASE text = <<>>
  BY <1>1 DEF WriteBelow
<1>2. CASE text # <<>> /\ enabled = {}
  <2>1. WriteBelow(o, n, text) = [o EXCEPT !.client = @ \o ProgramTexts(text)]
    BY <1>2 DEF WriteBelow
  <2>2. \A k \in 1 .. n : o.handlers[k].disabled
    BY <1>2
  <2> QED
    BY <2>1, <2>2
<1>3. CASE text # <<>> /\ enabled # {}
  <2>1. n \in Nat
    BY StateParts
  <2>2. i \in enabled /\ \A k \in enabled : k <= i
    BY <1>3, <2>1, MaxIs
  <2>3. WriteBelow(o, n, text) = Written(o, i, text)
    <3> HIDE DEF i
    <3>1. i = Max(enabled)
      BY DEF i
    <3> QED
      BY <1>3, <3>1, SMTT(30) DEF WriteBelow, Written
  <2> HIDE DEF i
  <2>4. \A k \in i + 1 .. n : o.handlers[k].disabled
    <3> SUFFICES ASSUME NEW k \in i + 1 .. n, ~ o.handlers[k].disabled PROVE FALSE
      OBVIOUS
    <3>1. i \in 1 .. n
      BY <2>2
    <3>2. k \in 1 .. n /\ ~ (k <= i)
      BY <2>1, <3>1
    <3> QED
      BY <2>2, <3>2
  <2> QED
    BY <2>2, <2>3, <2>4
<1> QED
  BY <1>1, <1>2, <1>3

LEMMA WrittenIs ==
  ASSUME NEW o \in OutputStates, NEW i \in 1 .. Len(o.handlers), NEW text \in Seq(Texts),
         ~ o.handlers[i].disabled
  PROVE  LET p == Written(o, i, text) IN
         /\ Grown(o, p)
         /\ p.client = o.client
         /\ p.handlers[i].buf = o.handlers[i].buf \o text
         /\ \A j \in 1 .. Len(o.handlers) : j # i => p.handlers[j] = o.handlers[j]
<1> DEFINE h == [o.handlers[i] EXCEPT !.buf = @ \o text, !.produced = @ \/ o.running # None]
           due == IF Full(h) /\ o.running = None THEN h.id ELSE o.due
           p == Written(o, i, text)
<1>0. o.handlers[i] \in Handlers /\ o.handlers[i].buf \in Seq(Texts)
  BY StateParts
<1>1. /\ o.handlers[i].buf \o text \in Seq(Texts)
      /\ IsPrefix(o.handlers[i].buf, o.handlers[i].buf \o text)
  BY <1>0, ConcatProperties, PrefixOfConcat
<1>2. h \in Handlers
  BY <1>0, <1>1 DEF Handlers
<1>3. /\ h.id = o.handlers[i].id /\ h.user = o.handlers[i].user /\ h.size = o.handlers[i].size
      /\ h.disabled = o.handlers[i].disabled
      /\ h.buf = o.handlers[i].buf \o text
  BY <1>0 DEF Handlers
<1>4. due \in Ids \cup {None} /\ (o.running # None \/ h.size = 0 => due = o.due)
  <2>1. h.id \in Ids
    BY <1>2 DEF Handlers
  <2>2. o.due \in Ids \cup {None}
    BY StateParts
  <2>3. h.size = 0 => ~ Full(h)
    BY DEF Full
  <2> HIDE DEF h
  <2> QED
    BY <2>1, <2>2, <2>3
<1>5. p = [o EXCEPT !.handlers[i] = h, !.due = due]
  BY DEF Written
<1> HIDE DEF h, due, p
<1>6. /\ [o.handlers EXCEPT ![i] = h] \in Seq(Handlers)
      /\ Len([o.handlers EXCEPT ![i] = h]) = Len(o.handlers)
      /\ \A j \in 1 .. Len(o.handlers) :
           [o.handlers EXCEPT ![i] = h][j] = IF j = i THEN h ELSE o.handlers[j]
  <2>1. o.handlers \in Seq(Handlers)
    BY StateParts
  <2> QED
    BY <1>2, <2>1, ExceptSeq
<1>7. /\ p \in OutputStates /\ p.handlers = [o.handlers EXCEPT ![i] = h] /\ p.due = due
      /\ p.client = o.client /\ p.running = o.running /\ p.deactivated = o.deactivated
      /\ p.dropped = o.dropped
  BY <1>4, <1>5, <1>6 DEF OutputStates
<1>8. \A j \in 1 .. Len(o.handlers) : p.handlers[j] = IF j = i THEN h ELSE o.handlers[j]
  BY <1>6, <1>7
<1>9. ASSUME NEW j \in 1 .. Len(o.handlers)
      PROVE  Alike(o.handlers[j], p.handlers[j])
  <2>1. CASE j = i
    BY <1>1, <1>3, <1>8, <2>1 DEF Alike
  <2>2. CASE j # i
    <3>1. p.handlers[j] = o.handlers[j] /\ o.handlers[j].buf \in Seq(Texts)
      BY <1>8, <2>2, StateParts
    <3>2. IsPrefix(o.handlers[j].buf, o.handlers[j].buf)
      BY <3>1, PrefixSelf
    <3> QED
      BY <3>1, <3>2 DEF Alike
  <2> QED
    BY <2>1, <2>2
<1>10. IsPrefix(o.client, p.client)
  <2>1. o.client \in Seq(Texts)
    BY StateParts
  <2> QED
    BY <1>7, <2>1, PrefixSelf
<1>11. o.running # None \/ (\A j \in 1 .. Len(o.handlers) : o.handlers[j].size = 0)
         => p.due = o.due
  BY <1>3, <1>4, <1>7
<1>12. Len(p.handlers) = Len(o.handlers)
  BY <1>6, <1>7
<1>13. Grown(o, p)
  BY <1>7, <1>9, <1>10, <1>11, <1>12 DEF Grown
<1>14. p.handlers[i].buf = o.handlers[i].buf \o text
  BY <1>3, <1>8
<1> QED
  BY <1>7, <1>8, <1>13, <1>14 DEF p

LEMMA GrownItself == ASSUME NEW o \in OutputStates PROVE Grown(o, o)
<1>1. o.client \in Seq(Texts) /\ \A i \in 1 .. Len(o.handlers) : o.handlers[i].buf \in Seq(Texts)
  BY StateParts
<1>2. IsPrefix(o.client, o.client)
  BY <1>1, PrefixSelf
<1>3. ASSUME NEW i \in 1 .. Len(o.handlers)
      PROVE  Alike(o.handlers[i], o.handlers[i])
  BY <1>1, PrefixSelf DEF Alike
<1> QED
  BY <1>2, <1>3 DEF Grown

\* Past every handler.
LEMMA ClientIs ==
  ASSUME NEW o \in OutputStates, NEW text \in Seq(Texts)
  PROVE  LET p == [o EXCEPT !.client = @ \o ProgramTexts(text)] IN
         /\ Grown(o, p) /\ p.handlers = o.handlers
         /\ p.client = o.client \o ProgramTexts(text)
<1> DEFINE p == [o EXCEPT !.client = @ \o ProgramTexts(text)]
<1>1. /\ o.client \in Seq(Texts) /\ o.client \o ProgramTexts(text) \in Seq(Texts)
      /\ IsPrefix(o.client, o.client \o ProgramTexts(text))
  BY ProgramTextsType, StateParts, ConcatProperties, PrefixOfConcat
<1>2. /\ p \in OutputStates /\ p.handlers = o.handlers /\ p.due = o.due
      /\ p.client = o.client \o ProgramTexts(text)
      /\ p.running = o.running /\ p.deactivated = o.deactivated /\ p.dropped = o.dropped
  BY <1>1 DEF OutputStates
<1> HIDE DEF p
<1>3. \A i \in 1 .. Len(o.handlers) : Alike(o.handlers[i], p.handlers[i])
  BY <1>2, GrownItself DEF Grown
<1>4. Grown(o, p)
  BY <1>1, <1>2, <1>3 DEF Grown
<1> QED
  BY <1>2, <1>4 DEF p

LEMMA WriteBelowGrows ==
  ASSUME NEW o \in OutputStates, NEW n \in 0 .. Len(o.handlers), NEW text \in Seq(Texts)
  PROVE  Grown(o, WriteBelow(o, n, text))
<1>1. CASE text = <<>> /\ WriteBelow(o, n, text) = o
  BY <1>1, GrownItself
<1>2. CASE WriteBelow(o, n, text) = [o EXCEPT !.client = @ \o ProgramTexts(text)]
  BY <1>2, ClientIs
<1>3. ASSUME NEW i \in 1 .. n, ~ o.handlers[i].disabled,
             WriteBelow(o, n, text) = Written(o, i, text)
      PROVE  Grown(o, WriteBelow(o, n, text))
  <2>1. i \in 1 .. Len(o.handlers)
    BY StateParts
  <2> QED
    BY <1>3, <2>1, WrittenIs
<1> QED
  BY <1>1, <1>2, <1>3, WriteBelowCases

-----------------------------------------------------------------------------
(* Where the texts are                                                     *)

\* A disabled handler holds nothing: what is written goes past it.
Silent(o) ==
  \A i \in 1 .. Len(o.handlers) : o.handlers[i].disabled => o.handlers[i].buf = <<>>

\* Same handlers, same texts.
LEMMA SameHandlers ==
  ASSUME NEW o, NEW p, p.handlers = o.handlers
  PROVE  /\ Contents(p) = Contents(o)
         /\ \A n : Ahead(p, n) = Ahead(o, n) /\ Behind(p, n) = Behind(o, n)
BY DEF Contents, Ahead, Behind

LEMMA TextsAssociate ==
  \A a, b, c \in Seq(Texts) : a \o (b \o c) = (a \o b) \o c /\ a \o b \in Seq(Texts)
BY ConcatAssociative, ConcatProperties

LEMMA ConcatFour ==
  ASSUME NEW U, NEW a \in Seq(U), NEW b \in Seq(U), NEW c \in Seq(U), NEW d \in Seq(U)
  PROVE  /\ a \o (b \o c) = (a \o b) \o c
         /\ (a \o b) \o (c \o d) = ((a \o b) \o c) \o d
         /\ a \o ((b \o c) \o d) = ((a \o b) \o c) \o d
         /\ a \o b \in Seq(U) /\ (a \o b) \o c \in Seq(U) /\ ((a \o b) \o c) \o d \in Seq(U)
<1> DEFINE l == a \o b
           r == b \o c
<1>1. l \in Seq(U) /\ r \in Seq(U)
  BY ConcatProperties
<1>2. l \o c = a \o r
  BY ConcatAssociative, SMTT(30)
<1> HIDE DEF l, r
<1>3. l \o c \in Seq(U) /\ (l \o c) \o d \in Seq(U)
  BY <1>1, ConcatProperties
<1>4. (l \o c) \o d = l \o (c \o d)
  BY <1>1, ConcatAssociative, SMTT(30)
<1>5. (a \o r) \o d = a \o (r \o d)
  BY <1>1, ConcatAssociative, SMTT(30)
<1>6. a \o (r \o d) = (l \o c) \o d
  BY <1>2, <1>5, Zenon
<1> QED
  BY <1>1, <1>2, <1>3, <1>4, <1>6, Zenon DEF l, r

\* The parts of the contents that a write into the handler at i leaves alone.
Wrote(o, p, i, text) ==
  /\ Grown(o, p) /\ p.client = o.client
  /\ p.handlers[i].buf = o.handlers[i].buf \o text
  /\ \A j \in 1 .. Len(o.handlers) : j # i => p.handlers[j] = o.handlers[j]
  /\ Ahead(p, i - 1) = Ahead(o, i - 1)
  /\ \A n \in i .. Len(o.handlers) : Behind(p, n) = Behind(o, n)

LEMMA WroteIs ==
  ASSUME NEW o \in OutputStates, NEW i \in 1 .. Len(o.handlers), NEW text \in Seq(Texts),
         ~ o.handlers[i].disabled, NEW p, p = Written(o, i, text)
  PROVE  Wrote(o, p, i, text)
<1>1. i \in Nat /\ Len(o.handlers) \in Nat
  BY StateParts
<1>2. /\ Grown(o, p) /\ p.client = o.client
      /\ p.handlers[i].buf = o.handlers[i].buf \o text
      /\ \A j \in 1 .. Len(o.handlers) : j # i => p.handlers[j] = o.handlers[j]
  BY WrittenIs
<1>3. Len(p.handlers) = Len(o.handlers)
  BY <1>2 DEF Grown
<1>4. Ahead(p, i - 1) = Ahead(o, i - 1)
  <2>1. ASSUME NEW k \in 1 .. i - 1 PROVE p.handlers[k].buf = o.handlers[k].buf
    <3>1. k \in 1 .. Len(o.handlers) /\ k # i
      BY <1>1
    <3> QED
      BY <1>2, <3>1
  <2> QED
    BY <2>1, AheadAgrees
<1>5. ASSUME NEW n \in i .. Len(o.handlers)
      PROVE  Behind(p, n) = Behind(o, n)
  <2>1. ASSUME NEW k \in n + 1 .. Len(o.handlers) PROVE p.handlers[k].buf = o.handlers[k].buf
    <3>1. k \in 1 .. Len(o.handlers) /\ k # i
      BY <1>1
    <3> QED
      BY <1>2, <3>1
  <2>2. n \in 0 .. Len(o.handlers)
    BY <1>1
  <2> QED
    BY <1>3, <2>1, <2>2, BehindAgrees
<1> QED
  BY <1>2, <1>4, <1>5 DEF Wrote

\* A write below n appends to what is there, or lets it out.
LEMMA WriteBelowMoves ==
  ASSUME NEW o \in OutputStates, NEW n \in 0 .. Len(o.handlers), NEW text \in Seq(Texts),
         Silent(o)
  PROVE  LET p == WriteBelow(o, n, text) IN
         /\ p.client \o ProgramTexts(Ahead(p, n))
              = (o.client \o ProgramTexts(Ahead(o, n))) \o ProgramTexts(text)
         /\ Behind(p, n) = Behind(o, n)
<1> DEFINE p == WriteBelow(o, n, text)
<1>1. /\ o.client \in Seq(Texts) /\ Ahead(o, n) \in Seq(Texts) /\ n \in Nat /\ Len(o.handlers) \in Nat
      /\ n <= Len(o.handlers)
      /\ ProgramTexts(Ahead(o, n)) \in Seq(Texts) /\ ProgramTexts(text) \in Seq(Texts)
  BY StateParts, BufferSeqs, ProgramTextsType
<1>2. o.client \o ProgramTexts(Ahead(o, n)) \in Seq(Texts)
  BY <1>1, ConcatProperties
<1>3. CASE text = <<>> /\ p = o
  <2>1. ProgramTexts(text) = <<>>
    BY <1>3, KeepEmpty DEF ProgramTexts
  <2>2. (o.client \o ProgramTexts(Ahead(o, n))) \o <<>> = o.client \o ProgramTexts(Ahead(o, n))
    BY <1>2, ConcatEmptySeq
  <2> QED
    BY <1>3, <2>1, <2>2
<1>4. CASE /\ \A k \in 1 .. n : o.handlers[k].disabled
           /\ p = [o EXCEPT !.client = @ \o ProgramTexts(text)]
  <2>1. p.handlers = o.handlers /\ p.client = o.client \o ProgramTexts(text)
    BY <1>4, ClientIs
  <2>2. Ahead(p, n) = Ahead(o, n) /\ Behind(p, n) = Behind(o, n)
    BY <2>1, SameHandlers
  <2>3. Ahead(o, n) = <<>>
    <3>1. \A k \in 0 + 1 .. n : o.handlers[k].buf = <<>>
      BY <1>1, <1>4 DEF Silent
    <3>2. Ahead(o, n) = Ahead(o, 0)
      BY <1>1, <3>1, AheadSilent
    <3> QED
      BY <3>2, AheadOfNone
  <2>4. ProgramTexts(Ahead(o, n)) = <<>>
    BY <2>3, KeepEmpty DEF ProgramTexts
  <2>5. p.client \o <<>> = p.client /\ o.client \o <<>> = o.client
    BY <1>1, <2>1, ConcatEmptySeq, ConcatProperties
  <2> QED
    BY <2>1, <2>2, <2>4, <2>5
<1>5. ASSUME NEW i \in 1 .. n, ~ o.handlers[i].disabled,
             \A k \in i + 1 .. n : o.handlers[k].disabled,
             p = Written(o, i, text)
      PROVE  /\ p.client \o ProgramTexts(Ahead(p, n))
                  = (o.client \o ProgramTexts(Ahead(o, n))) \o ProgramTexts(text)
             /\ Behind(p, n) = Behind(o, n)
  <2>1. i \in 1 .. Len(o.handlers) /\ i \in Nat /\ i <= n
    BY <1>1
  <2> HIDE DEF p
  <2>2. Wrote(o, p, i, text)
    BY <1>5, <2>1, WroteIs
  <2>3. p \in OutputStates /\ Len(p.handlers) = Len(o.handlers)
    BY <2>2 DEF Grown, Wrote
  <2>4. Behind(p, n) = Behind(o, n)
    <3>1. n \in i .. Len(o.handlers)
      BY <1>1, <2>1
    <3> QED
      BY <2>2, <3>1 DEF Wrote
  <2>5. \A k \in i + 1 .. n : o.handlers[k].buf = <<>> /\ p.handlers[k].buf = <<>>
    <3> SUFFICES ASSUME NEW k \in i + 1 .. n
                 PROVE  o.handlers[k].buf = <<>> /\ p.handlers[k].buf = <<>>
      OBVIOUS
    <3>1. k \in 1 .. Len(o.handlers) /\ k # i
      BY <1>1, <2>1
    <3> QED
      BY <1>5, <2>2, <3>1 DEF Silent, Wrote
  <2>6. Ahead(o, n) = Ahead(o, i)
    BY <1>1, <2>1, <2>5, AheadSilent
  <2>7. Ahead(p, n) = Ahead(p, i)
    BY <1>1, <2>1, <2>3, <2>5, AheadSilent
  <2>8. Ahead(o, i) = Ahead(o, i - 1) \o o.handlers[i].buf
    BY <2>1, ContentsAt
  <2>9. Ahead(p, i) = Ahead(p, i - 1) \o p.handlers[i].buf
    BY <2>1, <2>3, ContentsAt
  <2>10. Ahead(p, i - 1) = Ahead(o, i - 1) /\ p.handlers[i].buf = o.handlers[i].buf \o text
    BY <2>2 DEF Wrote
  <2>11. Ahead(p, n) = Ahead(o, n) \o text
    <3> DEFINE a == Ahead(o, i - 1)
               b == o.handlers[i].buf
    <3>1. a \in Seq(Texts) /\ b \in Seq(Texts) /\ text \in Seq(Texts)
      BY <2>1, ContentsAt, BufferSeqs, StateParts
    <3> HIDE DEF a, b
    <3>2. a \o (b \o text) = (a \o b) \o text
      BY <3>1, TextsAssociate, SMTT(30)
    <3> QED
      BY <2>6, <2>7, <2>8, <2>9, <2>10, <3>2 DEF a, b
  <2>12. ProgramTexts(Ahead(p, n)) = ProgramTexts(Ahead(o, n)) \o ProgramTexts(text)
    BY <1>1, <2>11, ProgramTextsOfConcat
  <2>13. p.client = o.client
    BY <2>2 DEF Wrote
  <2>14. o.client \o (ProgramTexts(Ahead(o, n)) \o ProgramTexts(text))
           = (o.client \o ProgramTexts(Ahead(o, n))) \o ProgramTexts(text)
    <3> DEFINE a == o.client
               b == ProgramTexts(Ahead(o, n))
               c == ProgramTexts(text)
    <3>1. a \in Seq(Texts) /\ b \in Seq(Texts) /\ c \in Seq(Texts)
      BY <1>1
    <3> HIDE DEF a, b, c
    <3>2. a \o (b \o c) = (a \o b) \o c
      BY <3>1, TextsAssociate, SMTT(30)
    <3> QED
      BY <3>2 DEF a, b, c
  <2> QED
    BY <2>4, <2>12, <2>13, <2>14, Zenon
<1> QED
  BY <1>3, <1>4, <1>5, WriteBelowCases DEF p

\* A diagnostic changes nothing the program wrote.
LEMMA DiagnosticMovesNothing ==
  ASSUME NEW o \in OutputStates, NEW n \in 0 .. Len(o.handlers), NEW text \in Seq(Texts),
         ProgramTexts(text) = <<>>
  PROVE  LET p == WriteBelow(o, n, text) IN
         /\ p.client = o.client
         /\ ProgramTexts(Contents(p)) = ProgramTexts(Contents(o))
<1> DEFINE p == WriteBelow(o, n, text)
<1>1. o.client \in Seq(Texts) /\ o.client \o <<>> = o.client
  BY StateParts, ConcatEmptySeq
<1>2. CASE p = o
  BY <1>2
<1>3. CASE p = [o EXCEPT !.client = @ \o ProgramTexts(text)]
  <2>1. p.handlers = o.handlers /\ p.client = o.client \o ProgramTexts(text)
    BY <1>3, ClientIs
  <2>2. Contents(p) = Contents(o)
    BY <2>1, SameHandlers
  <2> QED
    BY <1>1, <2>1, <2>2
<1>4. ASSUME NEW i \in 1 .. n, ~ o.handlers[i].disabled, p = Written(o, i, text)
      PROVE  p.client = o.client /\ ProgramTexts(Contents(p)) = ProgramTexts(Contents(o))
  <2>1. i \in 1 .. Len(o.handlers) /\ i \in Nat /\ Len(o.handlers) \in Nat
    BY StateParts
  <2> HIDE DEF p
  <2>2. Wrote(o, p, i, text)
    BY <1>4, <2>1, WroteIs
  <2>3. p \in OutputStates /\ Len(p.handlers) = Len(o.handlers)
    BY <2>2 DEF Grown, Wrote
  <2> DEFINE a == Ahead(o, i - 1)
             b == o.handlers[i].buf
             c == Behind(o, i)
  <2>4. a \in Seq(Texts) /\ b \in Seq(Texts) /\ c \in Seq(Texts) /\ Contents(o) = (a \o b) \o c
    BY <2>1, ContentsAt, BufferSeqs, StateParts
  <2>5. /\ Ahead(p, i - 1) = a /\ p.handlers[i].buf = b \o text
        /\ p.client = o.client
    BY <2>2 DEF Wrote
  <2>6. Behind(p, i) = c
    <3>1. i \in i .. Len(o.handlers)
      BY <2>1
    <3> QED
      BY <2>2, <3>1 DEF Wrote
  <2>7. Contents(p) = (a \o (b \o text)) \o c
    BY <2>1, <2>3, <2>5, <2>6, ContentsAt
  <2> HIDE DEF a, b, c
  <2>8. ProgramTexts(Contents(o)) = (ProgramTexts(a) \o ProgramTexts(b)) \o ProgramTexts(c)
    <3>1. a \in Seq(Texts) /\ b \in Seq(Texts) /\ c \in Seq(Texts)
      BY <2>4
    <3>2. ProgramTexts((a \o b) \o c) = (ProgramTexts(a) \o ProgramTexts(b)) \o ProgramTexts(c)
      BY <3>1, ProgramTextsOfThree
    <3> QED
      BY <2>4, <3>2, Zenon
  <2>9. ProgramTexts(Contents(p)) = (ProgramTexts(a) \o ProgramTexts(b \o text)) \o ProgramTexts(c)
    <3> DEFINE t == b \o text
    <3>1. t \in Seq(Texts) /\ Contents(p) = (a \o t) \o c
      BY <2>4, <2>7, ConcatProperties
    <3> HIDE DEF t
    <3>2. a \in Seq(Texts) /\ c \in Seq(Texts) /\ t \in Seq(Texts)
      BY <2>4, <3>1
    <3>3. ProgramTexts((a \o t) \o c) = (ProgramTexts(a) \o ProgramTexts(t)) \o ProgramTexts(c)
      BY <3>2, ProgramTextsOfThree
    <3> QED
      BY <3>1, <3>3, Zenon DEF t
  <2>10. ProgramTexts(b \o text) = ProgramTexts(b)
    <3>1. ProgramTexts(b) \in Seq(Texts) /\ ProgramTexts(b) \o <<>> = ProgramTexts(b)
      BY <2>4, ProgramTextsType, ConcatEmptySeq
    <3> QED
      BY <2>4, <3>1, ProgramTextsOfConcat
  <2> QED
    BY <2>5, <2>8, <2>9, <2>10
<1> QED
  BY <1>2, <1>3, <1>4, WriteBelowCases DEF p

-----------------------------------------------------------------------------
(* Finding a handler                                                       *)

\* The handlers stand in the order in which they were started.
Ordered(o) ==
  \A i, j \in 1 .. Len(o.handlers) : i < j => o.handlers[i].id < o.handlers[j].id

LEMMA IndexIs ==
  ASSUME NEW o \in OutputStates, NEW id
  PROVE  /\ Index(o, id) \in 0 .. Len(o.handlers)
         /\ Index(o, id) # 0 => /\ Index(o, id) \in 1 .. Len(o.handlers)
                                /\ o.handlers[Index(o, id)].id = id
         /\ Index(o, id) = 0 => \A i \in 1 .. Len(o.handlers) : o.handlers[i].id # id
<1>1. DOMAIN o.handlers = 1 .. Len(o.handlers) /\ Len(o.handlers) \in Nat
  BY StateParts
<1>2. CASE \E i \in DOMAIN o.handlers : o.handlers[i].id = id
  <2>1. Index(o, id) \in DOMAIN o.handlers /\ o.handlers[Index(o, id)].id = id
    BY <1>2, Zenon DEF Index
  <2> QED
    BY <1>1, <2>1
<1>3. CASE ~ \E i \in DOMAIN o.handlers : o.handlers[i].id = id
  <2>1. Index(o, id) = 0
    BY <1>3, Zenon DEF Index
  <2> QED
    BY <1>1, <1>3, <2>1
<1> QED
  BY <1>2, <1>3

LEMMA IndexUnique ==
  ASSUME NEW o \in OutputStates, Ordered(o), NEW i \in 1 .. Len(o.handlers)
  PROVE  Index(o, o.handlers[i].id) = i
<1> DEFINE j == Index(o, o.handlers[i].id)
<1>1. Len(o.handlers) \in Nat
  BY StateParts
<1>2. j # 0
  BY IndexIs
<1>3. j \in 1 .. Len(o.handlers) /\ o.handlers[j].id = o.handlers[i].id
  BY <1>2, IndexIs
<1> HIDE DEF j
<1>4. \A k \in 1 .. Len(o.handlers) : o.handlers[k].id \in Nat
  BY StateParts DEF Handlers, Ids
<1>5. i < j \/ j < i \/ i = j
  BY <1>1, <1>3
<1> QED
  BY <1>3, <1>4, <1>5 DEF Ordered, j

LEMMA NoHandlerHasNone ==
  ASSUME NEW o \in OutputStates
  PROVE  Index(o, None) = 0
<1>1. \A i \in 1 .. Len(o.handlers) : o.handlers[i].id # None
  BY StateParts, HandlerParts
<1> QED
  BY <1>1, IndexIs

\* The buffers are the same: so is what they hold.
LEMMA SameBuffers ==
  ASSUME NEW o \in OutputStates, NEW p \in OutputStates, Len(p.handlers) = Len(o.handlers),
         \A k \in 1 .. Len(o.handlers) : p.handlers[k].buf = o.handlers[k].buf
  PROVE  Contents(p) = Contents(o)
<1>1. Ahead(p, Len(o.handlers)) = Ahead(o, Len(o.handlers))
  BY AheadAgrees
<1>2. Len(o.handlers) \in 0 .. Len(o.handlers)
  BY StateParts
<1>3. /\ Contents(o) = Ahead(o, Len(o.handlers)) \o Behind(o, Len(o.handlers))
      /\ Contents(p) = Ahead(p, Len(p.handlers)) \o Behind(p, Len(p.handlers))
  BY <1>2, ContentsSplit
<1>4. Behind(o, Len(o.handlers)) = <<>> /\ Behind(p, Len(p.handlers)) = <<>>
  BY BehindAll
<1> QED
  BY <1>1, <1>3, <1>4

\* One handler is replaced.
LEMMA Replaced ==
  ASSUME NEW o \in OutputStates, NEW i \in 1 .. Len(o.handlers), NEW h \in Handlers
  PROVE  LET hs == [o.handlers EXCEPT ![i] = h] IN
         /\ hs \in Seq(Handlers) /\ Len(hs) = Len(o.handlers)
         /\ hs[i] = h
         /\ \A j \in 1 .. Len(o.handlers) : j # i => hs[j] = o.handlers[j]
<1>1. o.handlers \in Seq(Handlers)
  BY StateParts
<1> QED
  BY <1>1, ExceptSeq

LEMMA GrownSilent ==
  ASSUME NEW o, NEW p, Grown(o, p), Silent(o)
  PROVE  Silent(p)
BY DEF Grown, Alike, Silent

-----------------------------------------------------------------------------
(* The deprecation                                                         *)

\* The handler it is about stands aside, and is back afterwards.
LEMMA DeprecateIs ==
  ASSUME NEW o \in OutputStates, NEW id,
         Index(o, id) # 0 => ~ o.handlers[Index(o, id)].disabled
  PROVE  LET p == Deprecate(o, id) IN
         /\ Grown(o, p) /\ p.client = o.client
         /\ ProgramTexts(Contents(p)) = ProgramTexts(Contents(o))
<1> DEFINE i == Index(o, id)
           l == Len(o.handlers)
           h == [o.handlers[i] EXCEPT !.disabled = TRUE, !.produced = FALSE]
           muted == [o EXCEPT !.handlers[i].disabled = TRUE, !.handlers[i].produced = FALSE]
           w == Write(muted, << Diagnostic >>)
           g == [w.handlers[i] EXCEPT !.disabled = FALSE]
           p == [w EXCEPT !.handlers[i].disabled = FALSE]
<1>0. CASE ~ (i # 0 /\ o.handlers[i].produced)
  <2>1. Deprecate(o, id) = o
    BY <1>0 DEF Deprecate
  <2> QED
    BY <2>1, GrownItself
<1>1. CASE i # 0 /\ o.handlers[i].produced
  <2>1. Deprecate(o, id) = p
    BY <1>1 DEF Deprecate
  <2>2. i \in 1 .. l /\ l \in Nat /\ o.handlers[i] \in Handlers /\ o.handlers \in Seq(Handlers)
    BY <1>1, IndexIs, StateParts
  <2>3. ~ o.handlers[i].disabled
    BY <1>1
  <2> HIDE DEF i
  <2>4. /\ h \in Handlers /\ h.buf = o.handlers[i].buf /\ h.disabled
        /\ h.id = o.handlers[i].id /\ h.user = o.handlers[i].user /\ h.size = o.handlers[i].size
    BY <2>2 DEF Handlers
  <2>5. muted = [o EXCEPT !.handlers = [o.handlers EXCEPT ![i] = h]]
    <3>1. o.handlers = [k \in 1 .. l |-> o.handlers[k]]
      BY <2>2, LenProperties
    <3> QED
      BY <2>2, <3>1 DEF OutputStates
  <2> HIDE DEF h
  <2>6. /\ [o.handlers EXCEPT ![i] = h] \in Seq(Handlers)
        /\ Len([o.handlers EXCEPT ![i] = h]) = l
        /\ [o.handlers EXCEPT ![i] = h][i] = h
        /\ \A j \in 1 .. l : j # i => [o.handlers EXCEPT ![i] = h][j] = o.handlers[j]
    BY <2>2, <2>4, Replaced
  <2> HIDE DEF muted
  <2>7. /\ muted \in OutputStates /\ muted.handlers = [o.handlers EXCEPT ![i] = h]
        /\ muted.client = o.client /\ muted.running = o.running /\ muted.due = o.due
        /\ muted.deactivated = o.deactivated /\ muted.dropped = o.dropped
    BY <2>5, <2>6 DEF OutputStates
  <2>8. /\ Len(muted.handlers) = l /\ muted.handlers[i] = h
        /\ \A j \in 1 .. l : j # i => muted.handlers[j] = o.handlers[j]
    BY <2>6, <2>7
  <2>9. Contents(muted) = Contents(o)
    <3>1. \A k \in 1 .. l : muted.handlers[k].buf = o.handlers[k].buf
      BY <2>4, <2>8
    <3> HIDE DEF l
    <3>2. Len(muted.handlers) = Len(o.handlers)
      BY <2>8 DEF l
    <3> QED
      BY <2>7, <3>1, <3>2, SameBuffers DEF l
  <2>10. << Diagnostic >> \in Seq(Texts) /\ ProgramTexts(<< Diagnostic >>) = <<>>
    <3>1. << Diagnostic >> \in Seq(Texts) /\ Range(<< Diagnostic >>) \cap (Texts \ {Diagnostic}) = {}
      BY NumbersOfTexts DEF Range
    <3> QED
      BY <3>1, KeepNone DEF ProgramTexts
  <2>11. Len(muted.handlers) \in 0 .. Len(muted.handlers)
    BY <2>2, <2>8
  <2>12. /\ Grown(muted, w) /\ w.client = muted.client
         /\ ProgramTexts(Contents(w)) = ProgramTexts(Contents(muted))
    BY <2>7, <2>10, <2>11, WriteBelowGrows, DiagnosticMovesNothing DEF Write
  <2> HIDE DEF w
  <2>13. /\ w \in OutputStates /\ Len(w.handlers) = l
         /\ \A j \in 1 .. l : Alike(muted.handlers[j], w.handlers[j])
         /\ IsPrefix(muted.client, w.client)
         /\ w.running = o.running /\ w.deactivated = o.deactivated /\ w.dropped = o.dropped
         /\ muted.running # None \/ (\A j \in 1 .. l : muted.handlers[j].size = 0) => w.due = o.due
    BY <2>7, <2>8, <2>12 DEF Grown
  <2>14. Alike(h, w.handlers[i]) /\ w.handlers[i].buf = h.buf /\ w.handlers[i] \in Handlers
    <3>1. Alike(h, w.handlers[i])
      BY <2>2, <2>8, <2>13
    <3>2. w.handlers[i] \in Handlers
      BY <2>2, <2>13, StateParts
    <3> QED
      BY <2>4, <3>1, <3>2 DEF Alike
  <2>15. /\ g \in Handlers /\ g.buf = o.handlers[i].buf /\ ~ g.disabled
         /\ g.id = o.handlers[i].id /\ g.user = o.handlers[i].user /\ g.size = o.handlers[i].size
    BY <2>4, <2>14 DEF Handlers, Alike
  <2> HIDE DEF g
  <2>16. /\ [w.handlers EXCEPT ![i] = g] \in Seq(Handlers)
         /\ Len([w.handlers EXCEPT ![i] = g]) = l
         /\ [w.handlers EXCEPT ![i] = g][i] = g
         /\ \A j \in 1 .. l : j # i => [w.handlers EXCEPT ![i] = g][j] = w.handlers[j]
    BY <2>2, <2>13, <2>15, Replaced
  <2>17. p = [w EXCEPT !.handlers = [w.handlers EXCEPT ![i] = g]]
    BY DEF g
  <2> HIDE DEF p
  <2>18. /\ p \in OutputStates /\ p.handlers = [w.handlers EXCEPT ![i] = g]
         /\ p.client = w.client /\ p.running = w.running /\ p.due = w.due
         /\ p.deactivated = w.deactivated /\ p.dropped = w.dropped
    BY <2>13, <2>16, <2>17 DEF OutputStates
  <2>19. /\ Len(p.handlers) = l /\ p.handlers[i] = g
         /\ \A j \in 1 .. l : j # i => p.handlers[j] = w.handlers[j]
    BY <2>16, <2>18
  <2>20. ASSUME NEW j \in 1 .. l
         PROVE  Alike(o.handlers[j], p.handlers[j])
    <3>1. CASE j = i
      <4>1. IsPrefix(o.handlers[i].buf, o.handlers[i].buf)
        BY <2>2, StateParts, PrefixSelf
      <4>2. g.disabled = o.handlers[i].disabled
        <5>1. g.disabled \in BOOLEAN /\ o.handlers[i].disabled \in BOOLEAN
          BY <2>2, <2>15, HandlerParts
        <5> QED
          BY <2>3, <2>15, <5>1
      <4> QED
        BY <2>3, <2>15, <2>19, <3>1, <4>1, <4>2 DEF Alike
    <3>2. CASE j # i
      BY <2>8, <2>13, <2>19, <3>2
    <3> QED
      BY <3>1, <3>2
  <2>21. Contents(p) = Contents(w)
    <3>1. \A k \in 1 .. l : p.handlers[k].buf = w.handlers[k].buf
      BY <2>4, <2>14, <2>15, <2>19
    <3> HIDE DEF l
    <3>2. Len(p.handlers) = Len(w.handlers)
      BY <2>13, <2>19
    <3> QED
      BY <2>13, <2>18, <3>1, <3>2, SameBuffers
  <2>22. o.running # None \/ (\A j \in 1 .. l : o.handlers[j].size = 0) => p.due = o.due
    BY <2>4, <2>7, <2>8, <2>13, <2>18
  <2>23. IsPrefix(o.client, p.client) /\ p.client = o.client
    BY <2>7, <2>12, <2>13, <2>18
  <2>24. Grown(o, p)
    BY <2>13, <2>18, <2>19, <2>20, <2>22, <2>23 DEF Grown
  <2>25. ProgramTexts(Contents(p)) = ProgramTexts(Contents(o))
    BY <2>9, <2>12, <2>21
  <2> QED
    BY <2>1, <2>23, <2>24, <2>25
<1> QED
  BY <1>0, <1>1

-----------------------------------------------------------------------------
(* The end of a handler's run                                              *)

LEMMA CallParts ==
  ASSUME NEW call \in Calls
  PROVE  call.id \in Ids /\ call.by \in Callers /\ call.data \in Seq(Texts)
BY DEF Calls

LEMMA ResultIs ==
  ASSUME NEW o \in OutputStates, NEW call \in Calls, NEW status
  PROVE  LET i == Index(o, call.id)
             r == Result(o, call, status) IN
         /\ r \in Seq(Texts)
         /\ i # 0 /\ IsPrefix(call.data, o.handlers[i].buf) => IsPrefix(r, o.handlers[i].buf)
         /\ i = 0 /\ status # "success" => r = <<>>
<1> DEFINE i == Index(o, call.id)
           r == Result(o, call, status)
<1>1. i # 0 => o.handlers[i].buf \in Seq(Texts)
  BY IndexIs, StateParts
<1>2. call.data \in Seq(Texts) /\ <<>> \in Seq(Texts)
  BY CallParts, EmptySeq
<1>3. \/ status = "success" /\ r = call.data
      \/ status # "success" /\ i # 0 /\ r = o.handlers[i].buf
      \/ status # "success" /\ r = <<>>
  BY DEF Result
<1>4. i # 0 /\ status # "success" => r = o.handlers[i].buf \/ r = <<>>
  BY DEF Result
<1>5. i = 0 /\ status # "success" => r = <<>>
  BY DEF Result
<1> HIDE DEF r, i
<1>6. r \in Seq(Texts)
  BY <1>1, <1>2, <1>3
<1>7. ASSUME i # 0, IsPrefix(call.data, o.handlers[i].buf)
      PROVE  IsPrefix(r, o.handlers[i].buf)
  <2>1. IsPrefix(o.handlers[i].buf, o.handlers[i].buf)
    BY <1>1, <1>7, PrefixSelf
  <2>2. IsPrefix(<<>>, o.handlers[i].buf)
    <3> DEFINE b == o.handlers[i].buf
    <3>1. b \in Seq(Texts)
      BY <1>1, <1>7
    <3> HIDE DEF b
    <3>2. IsPrefix(<<>>, <<>> \o b) /\ <<>> \o b = b
      BY <1>2, <3>1, PrefixOfConcat, ConcatEmptySeq
    <3> QED
      BY <3>2 DEF b
  <2> QED
    BY <1>3, <1>7, <2>1, <2>2
<1> QED
  BY <1>5, <1>6, <1>7 DEF i, r

\* The state q is o with the handler at i emptied, which lets go of `gone`.
Emptied(o, q, i, gone) ==
  /\ q \in OutputStates /\ Len(q.handlers) = Len(o.handlers)
  /\ q.running = None /\ q.client = o.client /\ q.due = o.due /\ q.deactivated = o.deactivated
  /\ q.dropped = o.dropped \cup gone
  /\ \A j \in 1 .. Len(o.handlers) : j # i => q.handlers[j] = o.handlers[j]
  /\ i # 0 => /\ q.handlers[i].id = o.handlers[i].id /\ q.handlers[i].user = o.handlers[i].user
              /\ q.handlers[i].size = o.handlers[i].size /\ q.handlers[i].buf = <<>>

Gone(o, call, status) ==
  LET i == Index(o, call.id)
  IN  IF i = 0 THEN {} ELSE Range(o.handlers[i].buf) \ Range(Result(o, call, status))

LEMMA SettleIs ==
  ASSUME NEW o \in OutputStates, NEW call \in Calls, NEW status
  PROVE  Emptied(o, Settle(o, call, status), Index(o, call.id), Gone(o, call, status))
<1> DEFINE i == Index(o, call.id)
           h == [o.handlers[i] EXCEPT !.started = TRUE, !.buf = <<>>,
                                      !.disabled = @ \/ Disables(status)]
           idle == [o EXCEPT !.running = None]
           gone == Gone(o, call, status)
           lost == IF status = "error" /\ call.by \notin {"clean", "discard"} THEN gone ELSE {}
           q == Settle(o, call, status)
<1>0. None \in Ids \cup {None}
  OBVIOUS
<1>1. CASE i = 0
  <2>1. q = [o EXCEPT !.running = None] /\ gone = {}
    BY <1>1 DEF Settle, Gone
  <2> HIDE DEF q, gone
  <2>2. /\ q \in OutputStates /\ q.handlers = o.handlers
        /\ q.running = None /\ q.client = o.client /\ q.due = o.due
        /\ q.deactivated = o.deactivated /\ q.dropped = o.dropped
    BY <2>1 DEF OutputStates
  <2>3. Emptied(o, q, i, gone)
    BY <1>1, <2>1, <2>2 DEF Emptied
  <2> QED
    BY <2>3 DEF q, gone
<1>2. CASE i # 0
  <2>1. i \in 1 .. Len(o.handlers)
    BY <1>2, IndexIs
  <2>2. o.handlers[i] \in Handlers /\ o.handlers[i].buf \in Seq(Texts) /\ o.handlers \in Seq(Handlers)
    BY <2>1, StateParts
  <2>3. gone = Range(o.handlers[i].buf) \ Range(Result(o, call, status)) /\ gone \subseteq Texts
    <3>1. gone = Range(o.handlers[i].buf) \ Range(Result(o, call, status))
      BY <1>2 DEF Gone
    <3>2. Range(o.handlers[i].buf) \subseteq Texts
      BY <2>2, RangeOfSeq
    <3> QED
      BY <3>1, <3>2
  <2>4. q = Drop([idle EXCEPT !.handlers[i] = h, !.lost = @ \cup lost], gone)
    BY <1>2, <2>3 DEF Settle
  <2>a. lost \subseteq Texts
    BY <2>3
  <2> HIDE DEF i, gone, lost
  <2>5. /\ h \in Handlers /\ h.buf = <<>> /\ h.id = o.handlers[i].id
        /\ h.user = o.handlers[i].user /\ h.size = o.handlers[i].size
    <3>1. <<>> \in Seq(Texts)
      BY EmptySeq
    <3> QED
      BY <2>2, <3>1 DEF Handlers
  <2> HIDE DEF h
  <2>6. /\ [o.handlers EXCEPT ![i] = h] \in Seq(Handlers)
        /\ Len([o.handlers EXCEPT ![i] = h]) = Len(o.handlers)
        /\ [o.handlers EXCEPT ![i] = h][i] = h
        /\ \A j \in 1 .. Len(o.handlers) : j # i => [o.handlers EXCEPT ![i] = h][j] = o.handlers[j]
    BY <2>1, <2>5, Replaced
  <2>7. q = [o EXCEPT !.running = None, !.handlers = [o.handlers EXCEPT ![i] = h],
                      !.lost = o.lost \cup lost, !.dropped = o.dropped \cup gone]
    BY <2>4 DEF Drop, OutputStates
  <2> HIDE DEF q
  <2>8. /\ q \in OutputStates /\ q.handlers = [o.handlers EXCEPT ![i] = h]
        /\ q.running = None /\ q.client = o.client /\ q.due = o.due
        /\ q.deactivated = o.deactivated /\ q.dropped = o.dropped \cup gone
    <3>1. o.dropped \subseteq Texts /\ o.lost \subseteq Texts
      BY StateParts
    <3> QED
      BY <2>3, <2>a, <2>6, <2>7, <3>1 DEF OutputStates
  <2>9. Emptied(o, q, i, gone)
    BY <2>5, <2>6, <2>8 DEF Emptied
  <2> QED
    BY <2>9 DEF i, q, gone
<1> QED
  BY <1>1, <1>2

LEMMA DropIs ==
  ASSUME NEW o \in OutputStates, NEW gone, gone \subseteq Texts
  PROVE  LET p == Drop(o, gone) IN
         /\ p \in OutputStates /\ p.handlers = o.handlers /\ p.client = o.client
         /\ p.running = o.running /\ p.due = o.due /\ p.deactivated = o.deactivated
         /\ p.dropped = o.dropped \cup gone
<1>1. o.dropped \subseteq Texts
  BY StateParts
<1> QED
  BY <1>1 DEF Drop, OutputStates

LEMMA FrontIs ==
  ASSUME NEW U, NEW s \in Seq(U), s # <<>>
  PROVE  /\ Len(s) \in Nat /\ Len(s) >= 1 /\ Len(s) - 1 \in Nat
         /\ Front(s) \in Seq(U) /\ Len(Front(s)) = Len(s) - 1
         /\ \A j \in 1 .. Len(s) - 1 : Front(s)[j] = s[j]
<1>1. Len(s) \in Nat /\ Len(s) >= 1
  BY EmptySeq
<1>2. \A j \in 1 .. Len(s) - 1 : s[j] \in U
  BY <1>1, ElementOfSeq
<1>3. 1 \in Int /\ Len(s) - 1 \in Int
  BY <1>1
<1>4. /\ SubSeq(s, 1, Len(s) - 1) \in Seq(U)
      /\ Len(SubSeq(s, 1, Len(s) - 1)) = IF 1 <= Len(s) - 1 THEN Len(s) - 1 - 1 + 1 ELSE 0
      /\ \A j \in 1 .. Len(s) - 1 - 1 + 1 : SubSeq(s, 1, Len(s) - 1)[j] = s[1 + j - 1]
  BY <1>2, <1>3, SubSeqProperties
<1>5. Len(s) - 1 - 1 + 1 = Len(s) - 1 /\ Len(SubSeq(s, 1, Len(s) - 1)) = Len(s) - 1
  <2> DEFINE n == Len(s)
             m == Len(SubSeq(s, 1, n - 1))
  <2>1. n \in Nat /\ n >= 1 /\ m = IF 1 <= n - 1 THEN n - 1 - 1 + 1 ELSE 0
    BY <1>1, <1>4
  <2> HIDE DEF m, n
  <2>2. n - 1 - 1 + 1 = n - 1 /\ m = n - 1
    BY <2>1
  <2> QED
    BY <2>2 DEF m, n
<1>6. \A j \in 1 .. Len(s) - 1 : SubSeq(s, 1, Len(s) - 1)[j] = s[j]
  BY <1>1, <1>4, <1>5
<1> QED
  BY <1>1, <1>4, <1>5, <1>6 DEF Front

LEMMA DropLastIs ==
  ASSUME NEW o \in OutputStates
  PROVE  LET p == DropLast(o) IN
         /\ p \in OutputStates
         /\ p.client = o.client /\ p.running = o.running /\ p.due = o.due
         /\ p.deactivated = o.deactivated /\ p.dropped = o.dropped
         /\ o.handlers = <<>> => p.handlers = o.handlers
         /\ o.handlers # <<>> => Len(p.handlers) = Len(o.handlers) - 1
         /\ \A j \in 1 .. Len(p.handlers) : p.handlers[j] = o.handlers[j]
         /\ Len(p.handlers) <= Len(o.handlers) /\ Len(p.handlers) \in Nat
<1> DEFINE p == DropLast(o)
<1>1. o.handlers \in Seq(Handlers) /\ Len(o.handlers) \in Nat
  BY StateParts
<1>2. CASE o.handlers = <<>>
  <2>1. p.handlers = o.handlers /\ p = [o EXCEPT !.handlers = o.handlers]
    BY <1>2 DEF DropLast, OutputStates
  <2> HIDE DEF p
  <2>2. /\ p \in OutputStates /\ p.client = o.client /\ p.running = o.running /\ p.due = o.due
        /\ p.deactivated = o.deactivated /\ p.dropped = o.dropped
    BY <1>1, <2>1 DEF OutputStates
  <2> QED
    BY <1>1, <1>2, <2>1, <2>2 DEF p
<1>3. CASE o.handlers # <<>>
  <2>1. p = [o EXCEPT !.handlers = Front(o.handlers)]
    BY <1>3 DEF DropLast
  <2> HIDE DEF p
  <2>2. /\ Front(o.handlers) \in Seq(Handlers) /\ Len(Front(o.handlers)) = Len(o.handlers) - 1
        /\ \A j \in 1 .. Len(o.handlers) - 1 : Front(o.handlers)[j] = o.handlers[j]
        /\ Len(o.handlers) - 1 \in Nat
    BY <1>1, <1>3, FrontIs
  <2>3. /\ p \in OutputStates /\ p.client = o.client /\ p.running = o.running /\ p.due = o.due
        /\ p.deactivated = o.deactivated /\ p.dropped = o.dropped
        /\ p.handlers = Front(o.handlers)
    BY <2>1, <2>2 DEF OutputStates
  <2> QED
    BY <1>1, <1>3, <2>2, <2>3 DEF p
<1> QED
  BY <1>2, <1>3

\* How many handlers an operation leaves.
Left(o, by) ==
  IF by \in {"pop", "discard"} /\ o.handlers # <<>> THEN Len(o.handlers) - 1 ELSE Len(o.handlers)

\* The state p is o with what an operation did to it: the handlers that are
\* left are those that were there.
Carried(o, p, n) ==
  /\ p \in OutputStates /\ Len(p.handlers) = n
  /\ \A j \in 1 .. n : /\ p.handlers[j].id = o.handlers[j].id
                       /\ p.handlers[j].user = o.handlers[j].user
                       /\ p.handlers[j].size = o.handlers[j].size
  /\ p.deactivated = o.deactivated
  /\ Silent(o) => Silent(p)
  /\ o.dropped \subseteq p.dropped
  /\ (\A j \in 1 .. Len(o.handlers) : o.handlers[j].size = 0) => p.due = o.due

LEMMA GrownCarried ==
  ASSUME NEW o, NEW p, Grown(o, p)
  PROVE  Carried(o, p, Len(o.handlers)) /\ p.running = o.running
<1>1. Silent(o) => Silent(p)
  BY GrownSilent
<1>2. p \in OutputStates /\ Len(p.handlers) = Len(o.handlers) /\ p.running = o.running
      /\ p.deactivated = o.deactivated /\ p.dropped = o.dropped
      /\ ((\A j \in 1 .. Len(o.handlers) : o.handlers[j].size = 0) => p.due = o.due)
  BY DEF Grown
<1>3. \A j \in 1 .. Len(o.handlers) :
        /\ p.handlers[j].id = o.handlers[j].id
        /\ p.handlers[j].user = o.handlers[j].user
        /\ p.handlers[j].size = o.handlers[j].size
  BY DEF Grown, Alike
<1> QED
  BY <1>1, <1>2, <1>3 DEF Carried

LEMMA CarriedOn ==
  ASSUME NEW o, NEW p, NEW q, NEW m \in Nat, NEW n \in Nat, Len(o.handlers) \in Nat,
         Carried(o, q, m), Carried(q, p, n), m <= Len(o.handlers), n <= m
  PROVE  Carried(o, p, n)
<1>1. Len(q.handlers) = m /\ \A j \in 1 .. n : j \in 1 .. m
  BY DEF Carried
<1>2. \A j \in 1 .. m : j \in 1 .. Len(o.handlers) /\ q.handlers[j].size = o.handlers[j].size
  BY DEF Carried
<1>3. ASSUME \A j \in 1 .. Len(o.handlers) : o.handlers[j].size = 0
      PROVE  p.due = o.due
  <2>1. \A j \in 1 .. Len(q.handlers) : q.handlers[j].size = 0
    BY <1>1, <1>2, <1>3
  <2>2. q.due = o.due
    BY <1>3 DEF Carried
  <2>3. p.due = q.due
    BY <2>1 DEF Carried
  <2> QED
    BY <2>2, <2>3
<1>4. ASSUME NEW j \in 1 .. n
      PROVE  /\ p.handlers[j].id = o.handlers[j].id
             /\ p.handlers[j].user = o.handlers[j].user
             /\ p.handlers[j].size = o.handlers[j].size
  <2>1. j \in 1 .. m
    BY <1>1
  <2> QED
    BY <2>1 DEF Carried
<1>5. /\ p \in OutputStates /\ Len(p.handlers) = n
      /\ p.deactivated = o.deactivated
      /\ (Silent(o) => Silent(p)) /\ o.dropped \subseteq p.dropped
  BY DEF Carried
<1> QED
  BY <1>3, <1>4, <1>5 DEF Carried

LEMMA DropLastCarries ==
  ASSUME NEW o \in OutputStates
  PROVE  LET p == DropLast(o) IN
         Carried(o, p, Left(o, "pop")) /\ Left(o, "pop") \in Nat /\ Left(o, "pop") <= Len(o.handlers)
<1> DEFINE p == DropLast(o)
<1>1. Left(o, "pop") = Len(p.handlers)
  BY DropLastIs DEF Left
<1>2. /\ p \in OutputStates
      /\ p.due = o.due /\ p.deactivated = o.deactivated /\ p.dropped = o.dropped
      /\ \A j \in 1 .. Len(p.handlers) : p.handlers[j] = o.handlers[j]
      /\ Len(p.handlers) <= Len(o.handlers) /\ Len(p.handlers) \in Nat
      /\ Len(o.handlers) \in Nat
  BY DropLastIs, StateParts
<1> HIDE DEF p
<1>3. Silent(o) => Silent(p)
  <2>1. \A j \in 1 .. Len(p.handlers) : j \in 1 .. Len(o.handlers)
    BY <1>2
  <2> QED
    BY <1>2, <2>1 DEF Silent
<1>4. Carried(o, p, Len(p.handlers))
  BY <1>2, <1>3 DEF Carried
<1> QED
  BY <1>1, <1>2, <1>4 DEF p

LEMMA DropCarries ==
  ASSUME NEW o \in OutputStates, NEW gone, gone \subseteq Texts
  PROVE  LET p == Drop(o, gone) IN Carried(o, p, Len(o.handlers)) /\ p.running = o.running
<1> DEFINE p == Drop(o, gone)
<1>1. /\ p \in OutputStates /\ p.handlers = o.handlers
      /\ p.running = o.running /\ p.due = o.due /\ p.deactivated = o.deactivated
      /\ p.dropped = o.dropped \cup gone
  BY DropIs
<1> HIDE DEF p
<1>2. Silent(o) => Silent(p)
  BY <1>1 DEF Silent
<1>3. Carried(o, p, Len(o.handlers))
  BY <1>1, <1>2 DEF Carried
<1> QED
  BY <1>1, <1>3 DEF p

LEMMA CallerKinds ==
  ASSUME NEW call \in Calls
  PROVE  \/ call.by \in Drains \cup {"flush"}
         \/ call.by = "clean" \/ call.by = "pop" \/ call.by = "discard"
BY CallParts DEF Callers, Operations

LEMMA PassDownIs ==
  ASSUME NEW o \in OutputStates, NEW id, NEW text \in Seq(Texts)
  PROVE  /\ Grown(o, PassDown(o, id, text))
         /\ Index(o, id) # 0 => PassDown(o, id, text) = WriteBelow(o, Index(o, id) - 1, text)
<1> DEFINE n == IF Index(o, id) = 0 THEN Len(o.handlers) ELSE Index(o, id) - 1
<1>1. n \in 0 .. Len(o.handlers)
  BY IndexIs, StateParts
<1>2. PassDown(o, id, text) = WriteBelow(o, n, text)
  BY DEF PassDown
<1>3. Index(o, id) # 0 => n = Index(o, id) - 1
  OBVIOUS
<1> HIDE DEF n
<1> QED
  BY <1>1, <1>2, <1>3, WriteBelowGrows

LEMMA AnswerCarries ==
  ASSUME NEW o \in OutputStates, NEW call \in Calls, NEW text \in Seq(Texts)
  PROVE  LET p == Answer(o, call, text) IN
         Carried(o, p, Left(o, call.by)) /\ p.running = o.running
<1> DEFINE p == Answer(o, call, text)
           q == DropLast(o)
<1>0. Range(text) \subseteq Texts /\ Len(o.handlers) \in Nat
  BY RangeOfSeq, StateParts
<1>1. CASE call.by \in Drains \cup {"flush"}
  <2>1. p = PassDown(o, call.id, text) /\ Left(o, call.by) = Len(o.handlers)
    BY <1>1 DEF Answer, Left, Drains
  <2> QED
    BY <2>1, PassDownIs, GrownCarried
<1>2. CASE call.by = "clean"
  <2>1. p = Drop(o, Range(text)) /\ Left(o, call.by) = Len(o.handlers)
    BY <1>2 DEF Answer, Left, Drains
  <2> QED
    BY <1>0, <2>1, DropCarries
<1>3. q \in OutputStates /\ q.running = o.running /\ Len(q.handlers) = Left(o, "pop")
      /\ Len(q.handlers) \in Nat /\ Carried(o, q, Left(o, "pop"))
      /\ Left(o, "pop") <= Len(o.handlers)
  BY DropLastCarries, DropLastIs DEF Carried
<1>4. CASE call.by = "pop"
  <2>1. p = Write(q, text) /\ Left(o, call.by) = Left(o, "pop")
    BY <1>4 DEF Answer, Left, Drains
  <2> HIDE DEF q
  <2>2. Len(q.handlers) \in 0 .. Len(q.handlers)
    BY <1>3
  <2>3. Grown(q, Write(q, text))
    BY <1>3, <2>2, WriteBelowGrows DEF Write
  <2>4. Carried(q, p, Left(o, "pop")) /\ p.running = o.running
    BY <1>3, <2>1, <2>3, GrownCarried
  <2> HIDE DEF p
  <2>5. Carried(o, p, Left(o, "pop"))
    BY <1>0, <1>3, <2>4, CarriedOn
  <2> QED
    BY <2>1, <2>4, <2>5 DEF p
<1>5. CASE call.by = "discard"
  <2>1. p = Drop(q, Range(text)) /\ Left(o, call.by) = Left(o, "pop")
    BY <1>5 DEF Answer, Left, Drains
  <2> HIDE DEF q
  <2>2. Carried(q, p, Left(o, "pop")) /\ p.running = o.running
    BY <1>0, <1>3, <2>1, DropCarries
  <2> HIDE DEF p
  <2>3. Carried(o, p, Left(o, "pop"))
    BY <1>0, <1>3, <2>2, CarriedOn
  <2> QED
    BY <2>1, <2>2, <2>3 DEF p
<1> QED
  BY <1>1, <1>2, <1>4, <1>5, CallerKinds

LEMMA CompleteCarries ==
  ASSUME NEW o \in OutputStates, NEW call \in Calls, NEW status
  PROVE  LET p == Complete(o, call, status) IN
         /\ Carried(o, p, Left(o, call.by)) /\ p.running = None
         /\ Left(o, call.by) \in Nat /\ Left(o, call.by) <= Len(o.handlers)
<1> DEFINE i == Index(o, call.id)
           q == Settle(o, call, status)
           gone == Gone(o, call, status)
           r == Result(o, call, status)
           p == Complete(o, call, status)
<1>1. /\ Len(o.handlers) \in Nat /\ Left(o, call.by) \in Nat /\ Left(o, call.by) <= Len(o.handlers)
  <2>1. Len(o.handlers) \in Nat /\ (o.handlers # <<>> => Len(o.handlers) >= 1)
    BY StateParts, EmptySeq
  <2> QED
    BY <2>1 DEF Left
<1>2. Emptied(o, q, i, gone) /\ r \in Seq(Texts) /\ p = Answer(q, call, r)
  BY SettleIs, ResultIs DEF Complete
<1>3. i \in 0 .. Len(o.handlers)
  BY IndexIs
<1> HIDE DEF i, q, gone, r, p
<1>4. q \in OutputStates /\ Len(q.handlers) = Len(o.handlers) /\ q.running = None
  BY <1>2 DEF Emptied
<1>5. \A j \in 1 .. Len(o.handlers) :
        /\ q.handlers[j].id = o.handlers[j].id
        /\ q.handlers[j].user = o.handlers[j].user
        /\ q.handlers[j].size = o.handlers[j].size
  <2> SUFFICES ASSUME NEW j \in 1 .. Len(o.handlers)
               PROVE  /\ q.handlers[j].id = o.handlers[j].id
                      /\ q.handlers[j].user = o.handlers[j].user
                      /\ q.handlers[j].size = o.handlers[j].size
    OBVIOUS
  <2>1. CASE j # i
    BY <1>2, <2>1 DEF Emptied
  <2>2. CASE j = i
    <3>1. i # 0
      BY <2>2
    <3> QED
      BY <1>2, <2>2, <3>1 DEF Emptied
  <2> QED
    BY <2>1, <2>2
<1>6. Silent(o) => Silent(q)
  <2> SUFFICES ASSUME Silent(o), NEW j \in 1 .. Len(o.handlers), q.handlers[j].disabled
               PROVE  q.handlers[j].buf = <<>>
    BY <1>4 DEF Silent
  <2>1. CASE j # i
    <3>1. q.handlers[j] = o.handlers[j]
      BY <1>2, <2>1 DEF Emptied
    <3> QED
      BY <3>1 DEF Silent
  <2>2. CASE j = i
    <3>1. i # 0
      BY <2>2
    <3> QED
      BY <1>2, <2>2, <3>1 DEF Emptied
  <2> QED
    BY <2>1, <2>2
<1>7. q.deactivated = o.deactivated /\ q.due = o.due /\ o.dropped \subseteq q.dropped
  BY <1>2 DEF Emptied
<1>8. Carried(o, q, Len(o.handlers))
  BY <1>4, <1>5, <1>6, <1>7 DEF Carried
<1>9. Left(q, call.by) = Left(o, call.by)
  <2>1. o.handlers = <<>> <=> Len(o.handlers) = 0
    BY StateParts, EmptySeq
  <2>2. q.handlers = <<>> <=> Len(q.handlers) = 0
    BY <1>4, StateParts, EmptySeq
  <2> QED
    BY <1>4, <2>1, <2>2 DEF Left
<1>10. Carried(q, p, Left(o, call.by)) /\ p.running = None
  BY <1>2, <1>4, <1>9, AnswerCarries
<1>11. Carried(o, p, Left(o, call.by))
  BY <1>1, <1>8, <1>10, CarriedOn
<1> QED
  BY <1>1, <1>10, <1>11 DEF p

-----------------------------------------------------------------------------
(* Where the texts go                                                      *)

\* Of the texts held back (a, x, y, c, oldest first) the step drops y.
Dropping(o, p, a, x, y, c) ==
  /\ ProgramTexts(Contents(o)) = ((a \o x) \o y) \o c
  /\ p.client \o ProgramTexts(Contents(p)) = ((o.client \o a) \o x) \o c
  /\ Range(y) \ Range(x) \subseteq p.dropped

Moves(o, p) ==
  /\ o.client \in Seq(Texts) /\ p.client \in Seq(Texts)
  /\ ProgramTexts(Contents(p)) \in Seq(Texts)
  /\ IsPrefix(o.client, p.client) /\ o.dropped \subseteq p.dropped
  /\ \E a, x, y, c \in Seq(Texts) : Dropping(o, p, a, x, y, c)

LEMMA HeldBack ==
  ASSUME NEW o \in OutputStates
  PROVE  Contents(o) \in Seq(Texts) /\ ProgramTexts(Contents(o)) \in Seq(Texts)
<1>1. 0 \in 0 .. Len(o.handlers)
  BY StateParts
<1>2. Contents(o) \in Seq(Texts)
  BY <1>1, ContentsSplit
<1> QED
  BY <1>2, ProgramTextsType

\* Nothing the program can see has moved.
LEMMA MovesNothing ==
  ASSUME NEW o \in OutputStates, NEW p \in OutputStates, p.client = o.client,
         ProgramTexts(Contents(p)) = ProgramTexts(Contents(o)), o.dropped \subseteq p.dropped
  PROVE  Moves(o, p)
<1> DEFINE t == ProgramTexts(Contents(o))
           e == o.client
<1>1. t \in Seq(Texts) /\ <<>> \in Seq(Texts) /\ e \in Seq(Texts)
  BY HeldBack, EmptySeq, StateParts
<1>2. IsPrefix(o.client, p.client)
  BY <1>1, PrefixSelf
<1>3. Dropping(o, p, t, <<>>, <<>>, <<>>)
  <2> HIDE DEF t, e
  <2>1. ((t \o <<>>) \o <<>>) \o <<>> = t
    BY <1>1, ConcatEmptySeq
  <2>2. ((e \o t) \o <<>>) \o <<>> = e \o t
    BY <1>1, ConcatEmptySeq, ConcatProperties
  <2>3. Range(<<>>) = {}
    BY RangeEmpty
  <2> QED
    BY <2>1, <2>2, <2>3 DEF t, e, Dropping
<1> HIDE DEF t
<1> QED
  BY <1>1, <1>2, <1>3 DEF Moves, t, e

\* A move only looks at the client, the texts and what is dropped.
LEMMA MovesFrom ==
  ASSUME NEW o, NEW q, NEW p, Moves(q, p), q.client = o.client, o.dropped \subseteq q.dropped,
         ProgramTexts(Contents(q)) = ProgramTexts(Contents(o))
  PROVE  Moves(o, p)
BY DEF Moves, Dropping

\* A buffer is emptied: a prefix of it goes on, below it or with it.
LEMMA BufferMoves ==
  ASSUME NEW o \in OutputStates, NEW p \in OutputStates, NEW i \in 1 .. Len(o.handlers),
         NEW r \in Seq(Texts), IsPrefix(r, o.handlers[i].buf), IsPrefix(o.client, p.client),
         o.dropped \cup (Range(o.handlers[i].buf) \ Range(r)) \subseteq p.dropped,
         p.client \o ProgramTexts(Contents(p))
           = ((o.client \o ProgramTexts(Ahead(o, i - 1))) \o ProgramTexts(r)) \o ProgramTexts(Behind(o, i))
  PROVE  Moves(o, p)
<1> DEFINE b == o.handlers[i].buf
           s == SubSeq(b, Len(r) + 1, Len(b))
           aa == Ahead(o, i - 1)
           cc == Behind(o, i)
           a == ProgramTexts(aa)
           x == ProgramTexts(r)
           y == ProgramTexts(s)
           c == ProgramTexts(cc)
<1>1. /\ b \in Seq(Texts) /\ aa \in Seq(Texts) /\ cc \in Seq(Texts)
      /\ Contents(o) = (aa \o b) \o cc
  BY StateParts, ContentsAt, BufferSeqs
<1>2. s \in Seq(Texts) /\ b = r \o s
  BY <1>1, PrefixRest
<1>3. o.client \in Seq(Texts) /\ p.client \in Seq(Texts) /\ ProgramTexts(Contents(p)) \in Seq(Texts)
  BY StateParts, HeldBack
<1> HIDE DEF b, s, aa, cc
<1>4. a \in Seq(Texts) /\ x \in Seq(Texts) /\ y \in Seq(Texts) /\ c \in Seq(Texts)
  BY <1>1, <1>2, ProgramTextsType
<1>5. ProgramTexts(b) = x \o y
  BY <1>2, ProgramTextsOfConcat
<1>6. aa \o b \in Seq(Texts)
  BY <1>1, ConcatProperties
<1>7. ProgramTexts(Contents(o)) = (a \o (x \o y)) \o c
  <2>1. ProgramTexts((aa \o b) \o cc) = ProgramTexts(aa \o b) \o ProgramTexts(cc)
    BY <1>1, <1>6, ProgramTextsOfConcat
  <2>2. ProgramTexts(aa \o b) = ProgramTexts(aa) \o ProgramTexts(b)
    BY <1>1, ProgramTextsOfConcat
  <2> QED
    BY <1>1, <1>5, <2>1, <2>2
<1>8. Range(y) \ Range(x) \subseteq p.dropped
  <2>1. /\ Range(y) = Range(s) \cap (Texts \ {Diagnostic})
        /\ Range(x) = Range(r) \cap (Texts \ {Diagnostic})
    BY <1>2, KeepRange DEF ProgramTexts
  <2>2. Range(b) = Range(r) \cup Range(s)
    BY <1>2, RangeConcat
  <2> QED
    BY <2>1, <2>2 DEF b
<1> HIDE DEF a, x, y, c
<1>9. ProgramTexts(Contents(o)) = ((a \o x) \o y) \o c
  BY <1>4, <1>7, TextsAssociate, SMTT(30)
<1>10. p.client \o ProgramTexts(Contents(p)) = ((o.client \o a) \o x) \o c
  BY DEF a, x, c, aa, cc
<1>11. Dropping(o, p, a, x, y, c)
  BY <1>8, <1>9, <1>10 DEF Dropping
<1> QED
  BY <1>3, <1>4, <1>11 DEF Moves

\* Emptied, the handler at i leaves a gap between what is below and above it.
LEMMA EmptiedTexts ==
  ASSUME NEW o \in OutputStates, NEW q, NEW i \in 1 .. Len(o.handlers), NEW gone,
         Emptied(o, q, i, gone)
  PROVE  /\ Ahead(q, i - 1) = Ahead(o, i - 1)
         /\ Behind(q, i) = Behind(o, i) /\ Behind(q, i - 1) = Behind(o, i)
         /\ Contents(q) = Ahead(o, i - 1) \o Behind(o, i)
<1>1. /\ q \in OutputStates /\ Len(q.handlers) = Len(o.handlers) /\ q.handlers[i].buf = <<>>
      /\ \A j \in 1 .. Len(o.handlers) : j # i => q.handlers[j] = o.handlers[j]
  <2>1. i # 0
    OBVIOUS
  <2> QED
    BY <2>1 DEF Emptied
<1>2. i \in Nat /\ Len(o.handlers) \in Nat
  BY StateParts
<1>3. Ahead(q, i - 1) = Ahead(o, i - 1)
  <2>1. ASSUME NEW k \in 1 .. i - 1 PROVE q.handlers[k].buf = o.handlers[k].buf
    <3>1. k \in 1 .. Len(o.handlers) /\ k # i
      BY <1>2
    <3> QED
      BY <1>1, <3>1
  <2> QED
    BY <2>1, AheadAgrees
<1>4. Behind(q, i) = Behind(o, i)
  <2>1. ASSUME NEW k \in i + 1 .. Len(o.handlers) PROVE q.handlers[k].buf = o.handlers[k].buf
    <3>1. k \in 1 .. Len(o.handlers) /\ k # i
      BY <1>2
    <3> QED
      BY <1>1, <3>1
  <2>2. i \in 0 .. Len(o.handlers)
    BY <1>2
  <2> QED
    BY <1>1, <2>1, <2>2, BehindAgrees
<1> DEFINE a == Ahead(o, i - 1)
           c == Behind(o, i)
           d == Behind(q, i - 1)
<1>5. /\ a \in Seq(Texts) /\ c \in Seq(Texts) /\ d \in Seq(Texts)
      /\ Contents(q) = a \o d
      /\ Contents(q) = (a \o <<>>) \o c
  <2>1. i - 1 \in 0 .. Len(o.handlers) /\ i \in 0 .. Len(o.handlers)
    BY ContentsAt
  <2>2. Contents(q) = (Ahead(q, i - 1) \o q.handlers[i].buf) \o Behind(q, i)
    BY <1>1, ContentsAt
  <2>3. Contents(q) = Ahead(q, i - 1) \o Behind(q, i - 1)
    BY <1>1, <2>1, ContentsSplit
  <2> QED
    BY <1>1, <1>3, <1>4, <2>1, <2>2, <2>3, BufferSeqs
<1> HIDE DEF a, c, d
<1>6. a \o d = a \o c
  BY <1>5, ConcatEmptySeq
<1>7. d = c
  BY <1>5, <1>6, CancelLeft
<1> QED
  BY <1>3, <1>4, <1>5, <1>6, <1>7 DEF a, c, d

LEMMA TotalAt ==
  ASSUME NEW o \in OutputStates, NEW i \in 0 .. Len(o.handlers)
  PROVE  o.client \o ProgramTexts(Contents(o))
           = (o.client \o ProgramTexts(Ahead(o, i))) \o ProgramTexts(Behind(o, i))
<1> DEFINE a == ProgramTexts(Ahead(o, i))
           k == ProgramTexts(Behind(o, i))
           m == o.client
<1>1. Contents(o) = Ahead(o, i) \o Behind(o, i) /\ Ahead(o, i) \in Seq(Texts) /\ Behind(o, i) \in Seq(Texts)
  BY ContentsSplit, BufferSeqs
<1>2. ProgramTexts(Contents(o)) = a \o k
  BY <1>1, ProgramTextsOfConcat
<1>3. a \in Seq(Texts) /\ k \in Seq(Texts) /\ m \in Seq(Texts)
  BY <1>1, ProgramTextsType, StateParts
<1> HIDE DEF a, k, m
<1>4. m \o (a \o k) = (m \o a) \o k
  BY <1>3, TextsAssociate
<1> QED
  BY <1>2, <1>4 DEF a, k, m

\* What a handler hands on goes where its caller sends it, and the rest of
\* its buffer is dropped.
LEMMA CompleteMoves ==
  ASSUME NEW o \in OutputStates, Ordered(o), Silent(o), NEW call \in Calls, NEW status,
         NEW i \in 1 .. Len(o.handlers), o.handlers[i].id = call.id,
         IsPrefix(call.data, o.handlers[i].buf),
         call.by \in {"pop", "discard"} => i = Len(o.handlers)
  PROVE  Moves(o, Complete(o, call, status))
<1> DEFINE q == Settle(o, call, status)
           gone == Gone(o, call, status)
           r == Result(o, call, status)
           p == Complete(o, call, status)
           a == Ahead(o, i - 1)
           b == o.handlers[i].buf
           c == Behind(o, i)
           e == o.client \o ProgramTexts(a)
<1>1. Index(o, call.id) = i /\ i # 0 /\ i \in Nat /\ Len(o.handlers) \in Nat
  BY IndexUnique, StateParts
<1>2. /\ Emptied(o, q, i, gone) /\ r \in Seq(Texts) /\ IsPrefix(r, b)
      /\ p = Answer(q, call, r) /\ gone = Range(b) \ Range(r)
  <2>1. Emptied(o, q, i, gone)
    BY <1>1, SettleIs
  <2>2. r \in Seq(Texts) /\ IsPrefix(r, b)
    BY <1>1, ResultIs
  <2>3. gone = Range(b) \ Range(r)
    BY <1>1 DEF Gone
  <2> QED
    BY <2>1, <2>2, <2>3 DEF Complete
<1>3. /\ a \in Seq(Texts) /\ b \in Seq(Texts) /\ c \in Seq(Texts) /\ e \in Seq(Texts)
      /\ o.client \in Seq(Texts)
      /\ i - 1 \in 0 .. Len(o.handlers) /\ i \in 0 .. Len(o.handlers)
  <2>1. i - 1 \in 0 .. Len(o.handlers) /\ i \in 0 .. Len(o.handlers)
    BY ContentsAt
  <2>2. a \in Seq(Texts) /\ c \in Seq(Texts) /\ o.client \in Seq(Texts)
    BY <2>1, BufferSeqs, StateParts
  <2>3. e \in Seq(Texts)
    BY <2>2, ProgramTextsType, ConcatProperties
  <2> QED
    BY <2>1, <2>2, <2>3, StateParts
<1>4. p \in OutputStates /\ o.dropped \subseteq p.dropped
  BY CompleteCarries DEF Carried
<1>5. \A j \in 1 .. Len(o.handlers) : j # i => q.handlers[j] = o.handlers[j]
  BY <1>2 DEF Emptied
<1>6. /\ q \in OutputStates /\ Len(q.handlers) = Len(o.handlers)
      /\ q.client = o.client /\ q.dropped = o.dropped \cup gone
      /\ q.handlers[i].id = o.handlers[i].id /\ q.handlers[i].buf = <<>>
  BY <1>1, <1>2 DEF Emptied
<1>7. Ahead(q, i - 1) = a /\ Behind(q, i) = c /\ Behind(q, i - 1) = c /\ Contents(q) = a \o c
  BY <1>2, EmptiedTexts
<1>8. \A j \in 1 .. Len(o.handlers) : q.handlers[j].id = o.handlers[j].id
  BY <1>5, <1>6
<1>9. Ordered(q) /\ Silent(q)
  <2>1. Ordered(q)
    BY <1>6, <1>8 DEF Ordered
  <2>2. Silent(q)
    BY <1>5, <1>6 DEF Silent
  <2> QED
    BY <2>1, <2>2
<1>10. ASSUME IsPrefix(o.client, p.client), o.dropped \cup (Range(b) \ Range(r)) \subseteq p.dropped,
              p.client \o ProgramTexts(Contents(p)) = (e \o ProgramTexts(r)) \o ProgramTexts(c)
       PROVE  Moves(o, p)
  BY <1>2, <1>4, <1>10, BufferMoves
<1>11. ASSUME IsPrefix(o.client, p.client), o.dropped \cup Range(b) \subseteq p.dropped,
              p.client \o ProgramTexts(Contents(p)) = e \o ProgramTexts(c)
       PROVE  Moves(o, p)
  <2>1. <<>> \in Seq(Texts) /\ ProgramTexts(<<>>) = <<>> /\ e \o <<>> = e
    BY <1>3, EmptySeq, KeepEmpty, ConcatEmptySeq DEF ProgramTexts
  <2>2. IsPrefix(<<>>, b)
    <3> HIDE DEF b
    <3>1. IsPrefix(<<>>, <<>> \o b) /\ <<>> \o b = b
      BY <1>3, <2>1, PrefixOfConcat, ConcatEmptySeq
    <3> QED
      BY <3>1
  <2>3. p.client \o ProgramTexts(Contents(p)) = (e \o ProgramTexts(<<>>)) \o ProgramTexts(c)
    BY <1>11, <2>1
  <2>4. o.dropped \cup (Range(b) \ Range(<<>>)) \subseteq p.dropped
    BY <1>11
  <2> QED
    BY <1>4, <1>11, <2>1, <2>2, <2>3, <2>4, BufferMoves
<1>12. Range(r) \subseteq Texts /\ Range(b) \subseteq Range(r) \cup gone
  BY <1>2, RangeOfSeq
<1> HIDE DEF gone, r, q, p, a, b, c, e
<1>13. CASE call.by \in Drains \cup {"flush"}
  <2>1. p = PassDown(q, call.id, r)
    BY <1>2, <1>13 DEF Answer, Drains
  <2>2. Index(q, call.id) = i
    <3>1. i \in 1 .. Len(q.handlers) /\ q.handlers[i].id = call.id
      BY <1>6
    <3> QED
      BY <1>6, <1>9, <3>1, IndexUnique
  <2>3. p = WriteBelow(q, i - 1, r) /\ Grown(q, p)
    BY <1>1, <1>2, <1>6, <2>1, <2>2, PassDownIs
  <2>4. /\ p.client \o ProgramTexts(Ahead(p, i - 1)) = e \o ProgramTexts(r)
        /\ Behind(p, i - 1) = c
    <3>1. i - 1 \in 0 .. Len(q.handlers)
      BY <1>3, <1>6
    <3>2. /\ p.client \o ProgramTexts(Ahead(p, i - 1))
               = (q.client \o ProgramTexts(Ahead(q, i - 1))) \o ProgramTexts(r)
          /\ Behind(p, i - 1) = Behind(q, i - 1)
      BY <1>2, <1>6, <1>9, <2>3, <3>1, WriteBelowMoves, Zenon
    <3> QED
      BY <1>6, <1>7, <3>2 DEF e
  <2>5. p.client \o ProgramTexts(Contents(p)) = (e \o ProgramTexts(r)) \o ProgramTexts(c)
    <3>1. i - 1 \in 0 .. Len(p.handlers)
      BY <1>3, <1>6, <2>3 DEF Grown
    <3>2. p.client \o ProgramTexts(Contents(p))
            = (p.client \o ProgramTexts(Ahead(p, i - 1))) \o ProgramTexts(Behind(p, i - 1))
      BY <1>4, <3>1, TotalAt
    <3> QED
      BY <2>4, <3>2
  <2>6. IsPrefix(o.client, p.client) /\ p.dropped = q.dropped
    BY <1>6, <2>3 DEF Grown
  <2>7. o.dropped \cup (Range(b) \ Range(r)) \subseteq p.dropped
    BY <1>2, <1>6, <2>6
  <2> QED
    BY <1>10, <2>5, <2>6, <2>7 DEF p
<1>14. CASE call.by = "clean"
  <2>1. p = Drop(q, Range(r))
    BY <1>2, <1>14 DEF Answer, Drains
  <2>2. /\ p.handlers = q.handlers /\ p.client = o.client
        /\ p.dropped = (o.dropped \cup gone) \cup Range(r)
    BY <1>6, <1>12, <2>1, DropIs
  <2>3. Contents(p) = a \o c
    BY <1>7, <2>2, SameHandlers
  <2>4. p.client \o ProgramTexts(Contents(p)) = e \o ProgramTexts(c)
    <3> DEFINE f == o.client
               g == ProgramTexts(a)
               k == ProgramTexts(c)
    <3>1. ProgramTexts(Contents(p)) = g \o k
      BY <1>3, <2>3, ProgramTextsOfConcat DEF a, c
    <3>2. f \in Seq(Texts) /\ g \in Seq(Texts) /\ k \in Seq(Texts)
      BY <1>3, ProgramTextsType
    <3> HIDE DEF f, g, k
    <3>3. f \o (g \o k) = (f \o g) \o k
      BY <3>2, TextsAssociate, SMTT(30)
    <3> QED
      BY <2>2, <3>1, <3>3 DEF e, f, g, k
  <2>5. IsPrefix(o.client, p.client)
    BY <1>3, <2>2, PrefixSelf
  <2>6. o.dropped \cup Range(b) \subseteq p.dropped
    BY <1>12, <2>2
  <2> QED
    BY <1>11, <2>4, <2>5, <2>6 DEF p
<1> DEFINE s == DropLast(q)
<1>15. ASSUME i = Len(o.handlers)
       PROVE  /\ s \in OutputStates /\ Len(s.handlers) = i - 1 /\ Silent(s)
              /\ s.client = o.client /\ s.dropped = o.dropped \cup gone
              /\ Ahead(s, i - 1) = a /\ c = <<>>
  <2>1. q.handlers # <<>>
    BY <1>1, <1>6, <1>15, EmptySeq
  <2>2. /\ s \in OutputStates /\ Len(s.handlers) = i - 1 /\ s.client = o.client
        /\ s.dropped = o.dropped \cup gone
        /\ \A j \in 1 .. Len(s.handlers) : s.handlers[j] = q.handlers[j]
    BY <1>6, <1>15, <2>1, DropLastIs
  <2> HIDE DEF s
  <2>3. Ahead(s, i - 1) = Ahead(q, i - 1)
    <3>1. \A k \in 1 .. i - 1 : s.handlers[k].buf = q.handlers[k].buf
      BY <2>2
    <3> QED
      BY <3>1, AheadAgrees
  <2>4. c = <<>>
    BY <1>15, BehindAll DEF c
  <2>5. Silent(s)
    <3>1. \A j \in 1 .. i - 1 : j \in 1 .. Len(q.handlers)
      BY <1>1, <1>6, <1>15
    <3> QED
      BY <1>9, <2>2, <3>1 DEF Silent
  <2> QED
    BY <1>7, <2>2, <2>3, <2>4, <2>5
<1>16. CASE call.by = "pop"
  <2>0. i = Len(o.handlers)
    BY <1>16
  <2>1. p = WriteBelow(s, i - 1, r)
    BY <1>2, <1>15, <1>16, <2>0 DEF Answer, Write, Drains
  <2>2. i - 1 \in 0 .. Len(s.handlers) /\ i - 1 \in Nat
    BY <1>1, <1>15, <2>0
  <2>3. Grown(s, p)
    BY <1>2, <1>15, <2>0, <2>1, <2>2, WriteBelowGrows
  <2>4. Len(p.handlers) = i - 1 /\ p.dropped = o.dropped \cup gone /\ IsPrefix(o.client, p.client)
    BY <1>15, <2>0, <2>3 DEF Grown
  <2>5. p.client \o ProgramTexts(Ahead(p, i - 1)) = e \o ProgramTexts(r)
    <3>1. p.client \o ProgramTexts(Ahead(p, i - 1))
            = (s.client \o ProgramTexts(Ahead(s, i - 1))) \o ProgramTexts(r)
      <4>1. s \in OutputStates /\ Silent(s)
        BY <1>15, <2>0
      <4> HIDE DEF s
      <4> QED
        BY <1>2, <2>1, <2>2, <4>1, WriteBelowMoves
    <3>2. s.client = o.client /\ Ahead(s, i - 1) = a
      BY <1>15, <2>0
    <3> QED
      BY <3>1, <3>2 DEF e
  <2>6. i - 1 \in 0 .. Len(p.handlers) /\ Behind(p, i - 1) = c
    <3>1. Behind(p, Len(p.handlers)) = <<>>
      BY <1>4, BehindAll
    <3> QED
      BY <1>15, <2>0, <2>2, <2>4, <3>1
  <2>7. p.client \o ProgramTexts(Contents(p)) = (e \o ProgramTexts(r)) \o ProgramTexts(c)
    <3>1. p.client \o ProgramTexts(Contents(p))
            = (p.client \o ProgramTexts(Ahead(p, i - 1))) \o ProgramTexts(Behind(p, i - 1))
      BY <1>4, <2>6, TotalAt
    <3> QED
      BY <2>5, <2>6, <3>1
  <2>8. o.dropped \cup (Range(b) \ Range(r)) \subseteq p.dropped
    BY <1>2, <2>4
  <2> QED
    BY <1>10, <2>4, <2>7, <2>8 DEF p
<1>17. CASE call.by = "discard"
  <2>0. i = Len(o.handlers)
    BY <1>17
  <2>1. p = Drop(s, Range(r))
    BY <1>2, <1>17 DEF Answer, Drains
  <2>2. /\ p.handlers = s.handlers /\ p.client = o.client
        /\ p.dropped = (o.dropped \cup gone) \cup Range(r)
    BY <1>12, <1>15, <2>0, <2>1, DropIs
  <2>3. i - 1 \in 0 .. Len(s.handlers) /\ i - 1 \in Nat
    BY <1>1, <1>15, <2>0
  <2>4. Contents(p) = a \o <<>>
    <3>1. Contents(s) = Ahead(s, i - 1) \o Behind(s, i - 1)
      BY <1>15, <2>0, <2>3, ContentsSplit
    <3>2. Behind(s, i - 1) = <<>>
      BY <1>15, <2>0, BehindAll
    <3> QED
      BY <1>15, <2>0, <2>2, <3>1, <3>2, SameHandlers
  <2>5. p.client \o ProgramTexts(Contents(p)) = e \o ProgramTexts(c)
    <3>1. c = <<>> /\ ProgramTexts(<<>>) = <<>> /\ a \o <<>> = a /\ e \o <<>> = e
      BY <1>3, <1>15, <2>0, KeepEmpty, ConcatEmptySeq DEF ProgramTexts
    <3> QED
      BY <2>2, <2>4, <3>1 DEF e
  <2>6. IsPrefix(o.client, p.client)
    BY <1>3, <2>2, PrefixSelf
  <2>7. o.dropped \cup Range(b) \subseteq p.dropped
    BY <1>12, <2>2
  <2> QED
    BY <1>11, <2>5, <2>6, <2>7 DEF p
<1> QED
  BY <1>13, <1>14, <1>16, <1>17, CallerKinds DEF p

-----------------------------------------------------------------------------
(* What a step adds to the client                                          *)

Rest(o, p) == SubSeq(p.client, Len(o.client) + 1, Len(p.client))
Held(o) == ProgramTexts(Contents(o))

LEMMA MovesRest ==
  ASSUME NEW o, NEW p, Moves(o, p)
  PROVE  /\ IsPrefix(o.client, p.client)
         /\ Rest(o, p) \in Seq(Texts) /\ Held(p) \in Seq(Texts)
         /\ \E a, x, y, c \in Seq(Texts) :
              /\ Held(o) = ((a \o x) \o y) \o c
              /\ Rest(o, p) \o Held(p) = (a \o x) \o c
              /\ Range(y) \ Range(x) \subseteq p.dropped
<1>1. PICK a \in Seq(Texts), x \in Seq(Texts), y \in Seq(Texts), c \in Seq(Texts) :
        Dropping(o, p, a, x, y, c)
  BY DEF Moves
<1>2. /\ o.client \in Seq(Texts) /\ p.client \in Seq(Texts) /\ Held(p) \in Seq(Texts)
      /\ IsPrefix(o.client, p.client)
  BY DEF Moves, Held
<1>3. /\ Held(o) = ((a \o x) \o y) \o c /\ Range(y) \ Range(x) \subseteq p.dropped
      /\ p.client \o Held(p) = ((o.client \o a) \o x) \o c
  BY <1>1 DEF Dropping, Held
<1>4. PICK u \in Seq(Texts) : u = (a \o x) \o c
                              /\ Follows(((o.client \o a) \o x) \o c, o.client, u)
  BY <1>2, FollowsThree
<1>5. Follows(p.client \o Held(p), o.client, u)
  BY <1>3, <1>4, Zenon
<1>6. Rest(o, p) \in Seq(Texts) /\ Rest(o, p) \o Held(p) = u
  BY <1>2, <1>5, RestOfWhole DEF Rest
<1> QED
  BY <1>2, <1>3, <1>4, <1>6

\* Every text is with the client, in a buffer, or was dropped.
Accounted(o) == Range(o.client) \cup Range(Held(o)) \cup o.dropped

LEMMA RangeOfRest ==
  ASSUME NEW o, NEW p, o.client \in Seq(Texts), p.client \in Seq(Texts),
         IsPrefix(o.client, p.client)
  PROVE  Range(p.client) = Range(o.client) \cup Range(Rest(o, p))
<1>1. Rest(o, p) \in Seq(Texts) /\ p.client = o.client \o Rest(o, p)
  BY PrefixRest DEF Rest
<1> DEFINE m == o.client
           d == Rest(o, p)
           n == p.client
<1>2. m \in Seq(Texts) /\ d \in Seq(Texts) /\ n = m \o d
  BY <1>1
<1> HIDE DEF m, d, n
<1>3. Range(n) = Range(m) \cup Range(d)
  BY <1>2, RangeConcat
<1> QED
  BY <1>3 DEF m, d, n

LEMMA MovesAccounted ==
  ASSUME NEW o, NEW p, Moves(o, p)
  PROVE  Accounted(o) \subseteq Accounted(p)
<1>1. PICK a \in Seq(Texts), x \in Seq(Texts), y \in Seq(Texts), c \in Seq(Texts) :
        /\ Held(o) = ((a \o x) \o y) \o c
        /\ Rest(o, p) \o Held(p) = (a \o x) \o c
        /\ Range(y) \ Range(x) \subseteq p.dropped
  BY MovesRest
<1>2. Range(((a \o x) \o y) \o c) = Range(a) \cup Range(x) \cup Range(y) \cup Range(c)
  <2> DEFINE l == a \o x
  <2>1. l \in Seq(Texts) /\ Range(l) = Range(a) \cup Range(x)
    BY ConcatProperties, RangeConcat
  <2> HIDE DEF l
  <2>2. Range((l \o y) \o c) = Range(l) \cup Range(y) \cup Range(c)
    BY <2>1, RangeOfThree
  <2> QED
    BY <2>1, <2>2 DEF l
<1>3. Range((a \o x) \o c) = Range(a) \cup Range(x) \cup Range(c)
  BY RangeOfThree
<1>4. Range(Rest(o, p) \o Held(p)) = Range(Rest(o, p)) \cup Range(Held(p))
  <2> DEFINE d == Rest(o, p)
             h == Held(p)
  <2>1. d \in Seq(Texts) /\ h \in Seq(Texts)
    BY MovesRest
  <2> HIDE DEF d, h
  <2>2. Range(d \o h) = Range(d) \cup Range(h)
    BY <2>1, RangeConcat
  <2> QED
    BY <2>2 DEF d, h
<1>5. Range(p.client) = Range(o.client) \cup Range(Rest(o, p)) /\ o.dropped \subseteq p.dropped
  BY RangeOfRest DEF Moves
<1> QED
  BY <1>1, <1>2, <1>3, <1>4, <1>5 DEF Accounted

\* What is dropped is taken out, and the order of the others stays.
LEMMA MovesLeft ==
  ASSUME NEW o, NEW p, Moves(o, p), Distinct(Held(o))
  PROVE  /\ LeftOf(Rest(o, p) \o Held(p), Held(o))
         /\ Distinct(Held(p)) /\ Range(Held(p)) \subseteq Range(Held(o))
<1>1. PICK a \in Seq(Texts), x \in Seq(Texts), y \in Seq(Texts), c \in Seq(Texts) :
        /\ Held(o) = ((a \o x) \o y) \o c
        /\ Rest(o, p) \o Held(p) = (a \o x) \o c
        /\ Range(y) \ Range(x) \subseteq p.dropped
  BY MovesRest
<1> DEFINE l == a \o x
           d == Rest(o, p)
           h == Held(p)
           k == Held(o)
<1>2. d \in Seq(Texts) /\ h \in Seq(Texts)
  BY MovesRest
<1>3. l \in Seq(Texts)
  BY ConcatProperties
<1>4. k = (l \o y) \o c /\ d \o h = l \o c /\ Distinct(k)
  BY <1>1
<1> HIDE DEF l, d, h, k
<1>5. LeftOf(l \o c, (l \o y) \o c) /\ Distinct(l \o c)
  <2>1. Distinct((l \o y) \o c)
    BY <1>4
  <2> QED
    BY <1>3, <2>1, TakenOut
<1>6. Distinct(d \o h)
  BY <1>4, <1>5
<1>7. Distinct(h)
  BY <1>2, <1>6, DistinctConcat
<1>8. Range(d \o h) = Range(d) \cup Range(h)
  BY <1>2, RangeConcat
<1>9. Range(l \o c) = Range(l) \cup Range(c)
  BY <1>3, RangeConcat
<1>10. Range((l \o y) \o c) = Range(l) \cup Range(y) \cup Range(c)
  BY <1>3, RangeOfThree
<1>11. Range(h) \subseteq Range(k)
  BY <1>4, <1>8, <1>9, <1>10
<1>12. LeftOf(d \o h, k)
  BY <1>4, <1>5
<1> QED
  BY <1>7, <1>11, <1>12 DEF d, h, k

\* A text of the program comes after those held back.
LEMMA TextWritten ==
  ASSUME NEW o \in OutputStates, Silent(o), NEW w \in Texts, w # Diagnostic
  PROVE  LET p == Write(o, << w >>) IN
         /\ Grown(o, p)
         /\ Rest(o, p) \in Seq(Texts) /\ Held(p) \in Seq(Texts) /\ Held(o) \in Seq(Texts)
         /\ Rest(o, p) \o Held(p) = Append(Held(o), w)
<1> DEFINE p == Write(o, << w >>)
           n == Len(o.handlers)
<1>1. n \in 0 .. Len(o.handlers) /\ << w >> \in Seq(Texts) /\ p = WriteBelow(o, n, << w >>)
  BY StateParts DEF Write
<1> HIDE DEF p
<1>2. Grown(o, p)
  BY <1>1, WriteBelowGrows
<1>3. /\ p.client \o ProgramTexts(Ahead(p, n))
           = (o.client \o ProgramTexts(Ahead(o, n))) \o ProgramTexts(<< w >>)
  BY <1>1, WriteBelowMoves
<1>4. Len(p.handlers) = n /\ p \in OutputStates /\ IsPrefix(o.client, p.client)
  BY <1>2 DEF Grown
<1>5. Contents(o) = Ahead(o, n) /\ Contents(p) = Ahead(p, n)
  <2>1. Contents(o) = Ahead(o, n) \o Behind(o, n) /\ Ahead(o, n) \in Seq(Texts)
    BY <1>1, ContentsSplit, BufferSeqs
  <2>2. Contents(p) = Ahead(p, n) \o Behind(p, n) /\ Ahead(p, n) \in Seq(Texts)
    BY <1>1, <1>4, ContentsSplit, BufferSeqs
  <2>3. Behind(o, n) = <<>> /\ Behind(p, n) = <<>>
    BY <1>4, BehindAll
  <2> QED
    BY <2>1, <2>2, <2>3, ConcatEmptySeq
<1>6. ProgramTexts(<< w >>) = << w >>
  <2>1. Range(<< w >>) \subseteq Texts \ {Diagnostic}
    BY DEF Range
  <2> QED
    BY <1>1, <2>1, KeepAll DEF ProgramTexts
<1>7. p.client \o Held(p) = (o.client \o Held(o)) \o << w >>
  BY <1>3, <1>5, <1>6 DEF Held
<1>8. /\ o.client \in Seq(Texts) /\ p.client \in Seq(Texts)
      /\ Held(o) \in Seq(Texts) /\ Held(p) \in Seq(Texts)
  BY <1>4, StateParts, HeldBack DEF Held
<1>9. PICK u \in Seq(Texts) : u = Append(Held(o), w)
                              /\ Follows((o.client \o Held(o)) \o << w >>, o.client, u)
  BY <1>8, FollowsOne
<1>10. Follows(p.client \o Held(p), o.client, u)
  BY <1>7, <1>9, Zenon
<1>11. Rest(o, p) \in Seq(Texts) /\ Rest(o, p) \o Held(p) = u
  BY <1>4, <1>8, <1>10, RestOfWhole DEF Rest
<1> QED
  BY <1>2, <1>8, <1>9, <1>11 DEF p

-----------------------------------------------------------------------------
(* Types, and what holds for any program                                   *)

LEMMA NoHandlers ==
  ASSUME NEW o \in OutputStates
  PROVE  o.handlers = <<>> <=> Len(o.handlers) = 0
<1>1. o.handlers \in Seq(Handlers)
  BY StateParts
<1> QED
  BY <1>1, EmptySeq

\* The deprecation keeps the handlers, whatever their state.
LEMMA DeprecateType ==
  ASSUME NEW o \in OutputStates, NEW id
  PROVE  LET p == Deprecate(o, id) IN
         /\ p \in OutputStates /\ Len(p.handlers) = Len(o.handlers)
         /\ p.deactivated = o.deactivated
<1> DEFINE i == Index(o, id)
           l == Len(o.handlers)
           h == [o.handlers[i] EXCEPT !.disabled = TRUE, !.produced = FALSE]
           muted == [o EXCEPT !.handlers[i].disabled = TRUE, !.handlers[i].produced = FALSE]
           w == Write(muted, << Diagnostic >>)
           g == [w.handlers[i] EXCEPT !.disabled = FALSE]
           p == [w EXCEPT !.handlers[i].disabled = FALSE]
<1>0. CASE ~ (i # 0 /\ o.handlers[i].produced)
  BY <1>0 DEF Deprecate
<1>1. CASE i # 0 /\ o.handlers[i].produced
  <2>1. Deprecate(o, id) = p
    BY <1>1 DEF Deprecate
  <2>2. i \in 1 .. l /\ l \in Nat /\ o.handlers[i] \in Handlers /\ o.handlers \in Seq(Handlers)
    BY <1>1, IndexIs, StateParts
  <2> HIDE DEF i
  <2>3. h \in Handlers
    BY <2>2 DEF Handlers
  <2>4. muted = [o EXCEPT !.handlers = [o.handlers EXCEPT ![i] = h]]
    <3>1. o.handlers = [k \in 1 .. l |-> o.handlers[k]]
      BY <2>2, LenProperties
    <3> QED
      BY <2>2, <3>1 DEF OutputStates
  <2> HIDE DEF h
  <2>5. [o.handlers EXCEPT ![i] = h] \in Seq(Handlers) /\ Len([o.handlers EXCEPT ![i] = h]) = l
    BY <2>2, <2>3, Replaced
  <2> HIDE DEF muted
  <2>6. muted \in OutputStates /\ Len(muted.handlers) = l /\ muted.deactivated = o.deactivated
    BY <2>4, <2>5 DEF OutputStates
  <2>7. << Diagnostic >> \in Seq(Texts) /\ Len(muted.handlers) \in 0 .. Len(muted.handlers)
    BY <2>2, <2>6, NumbersOfTexts
  <2>8. Grown(muted, w)
    BY <2>6, <2>7, WriteBelowGrows DEF Write
  <2> HIDE DEF w
  <2>9. w \in OutputStates /\ Len(w.handlers) = l /\ w.deactivated = o.deactivated
    BY <2>6, <2>8 DEF Grown
  <2>10. w.handlers[i] \in Handlers
    BY <2>2, <2>9, StateParts
  <2>11. g \in Handlers
    BY <2>10 DEF Handlers
  <2>12. p = [w EXCEPT !.handlers = [w.handlers EXCEPT ![i] = g]]
    BY DEF g
  <2> HIDE DEF p, g
  <2>13. [w.handlers EXCEPT ![i] = g] \in Seq(Handlers) /\ Len([w.handlers EXCEPT ![i] = g]) = l
    BY <2>2, <2>9, <2>11, Replaced
  <2>14. p \in OutputStates /\ Len(p.handlers) = l /\ p.deactivated = o.deactivated
    BY <2>9, <2>12, <2>13 DEF OutputStates
  <2> QED
    BY <2>1, <2>14
<1> QED
  BY <1>0, <1>1

\* An operation and a deprecation find no handler to bring back.
Kept(o, p) ==
  /\ p \in OutputStates /\ p.deactivated = o.deactivated
  /\ o.handlers = <<>> => p.handlers = <<>>

LEMMA CompleteKeeps ==
  ASSUME NEW o \in OutputStates, NEW call \in Calls, NEW status
  PROVE  Kept(o, Complete(o, call, status))
<1> DEFINE p == Complete(o, call, status)
           n == Left(o, call.by)
<1>1. Carried(o, p, n) /\ n \in Nat /\ n <= Len(o.handlers)
  BY CompleteCarries
<1>2. o.handlers = <<>> => n = 0
  BY NoHandlers DEF Left
<1> HIDE DEF p, n
<1>3. p \in OutputStates /\ p.deactivated = o.deactivated /\ Len(p.handlers) = n
  BY <1>1 DEF Carried
<1> QED
  BY <1>2, <1>3, NoHandlers DEF Kept, p

LEMMA DeprecateKeeps ==
  ASSUME NEW o \in OutputStates, NEW id
  PROVE  Kept(o, Deprecate(o, id))
BY DeprecateType, NoHandlers DEF Kept

LEMMA WriteKeeps ==
  ASSUME NEW o \in OutputStates, NEW w \in Texts
  PROVE  Grown(o, Write(o, << w >>)) /\ Kept(o, Write(o, << w >>))
<1> DEFINE p == Write(o, << w >>)
           s == << w >>
<1>1. s \in Seq(Texts) /\ Len(o.handlers) \in 0 .. Len(o.handlers)
  BY StateParts
<1>2. Grown(o, p)
  BY <1>1, WriteBelowGrows DEF Write
<1> HIDE DEF p
<1>3. p \in OutputStates /\ Len(p.handlers) = Len(o.handlers) /\ p.deactivated = o.deactivated
  BY <1>2 DEF Grown
<1> QED
  BY <1>2, <1>3, NoHandlers DEF Kept, p

LEMMA DropLastKeeps ==
  ASSUME NEW o \in OutputStates
  PROVE  Kept(o, DropLast(o))
BY DropLastIs DEF Kept

\* What running the handler at i does.
CallOf(o, i, by) ==
  [id |-> o.handlers[i].id, by |-> by, data |-> o.handlers[i].buf,
   first |-> ~ o.handlers[i].started]

LEMMA RunIs ==
  ASSUME NEW o \in OutputStates, NEW i \in 1 .. Len(o.handlers), NEW by \in Callers,
         RunHandler(o, i, by)
  PROVE  LET call == CallOf(o, i, by) IN
         /\ call \in Calls /\ call.id = o.handlers[i].id /\ call.by = by
         /\ call.data = o.handlers[i].buf /\ call.id \in Ids
         /\ \/ /\ o.handlers[i].user
               /\ ob' = [o EXCEPT !.running = call.id] /\ ob' \in OutputStates
               /\ calls' = Append(calls, call) /\ mode' = "run"
            \/ /\ \E status : ob' = Complete(o, call, status)
               /\ mode' = Resume(by, InEndAll, Unwinding) /\ calls' = calls
<1> DEFINE call == CallOf(o, i, by)
           h == o.handlers[i]
<1>1. h \in Handlers
  BY StateParts
<1>2. call \in Calls /\ call.id = h.id /\ call.by = by /\ call.data = h.buf /\ call.id \in Ids
  BY <1>1 DEF Handlers, Calls, CallOf
<1>3. [o EXCEPT !.running = call.id] \in OutputStates
  BY <1>2 DEF OutputStates
<1>4. \/ h.user /\ ob' = [o EXCEPT !.running = h.id] /\ calls' = Append(calls, call) /\ mode' = "run"
      \/ /\ \E status : ob' = Complete(o, call, status)
         /\ mode' = Resume(by, InEndAll, Unwinding) /\ calls' = calls
  BY Zenon DEF RunHandler, CallOf
<1> QED
  BY <1>2, <1>3, <1>4

LEMMA ResumeIs ==
  ASSUME NEW by \in Callers, NEW inEndAll \in BOOLEAN, NEW stopped \in BOOLEAN
  PROVE  LET r == Resume(by, inEndAll, stopped) IN
         /\ r \in Modes /\ r # "over"
         /\ inEndAll => r = "run"
         /\ ~ inEndAll => r # "run"
BY DEF Resume, Callers, Operations, Drains, Modes

LEMMA RunKeeps ==
  ASSUME NEW o \in OutputStates, NEW i \in 1 .. Len(o.handlers), NEW by \in Callers,
         RunHandler(o, i, by), calls \in Seq(Calls)
  PROVE  /\ Kept(o, ob') /\ calls' \in Seq(Calls) /\ mode' \in Modes
<1> DEFINE call == CallOf(o, i, by)
<1>1. call \in Calls
  BY RunIs
<1>2. CASE /\ ob' = [o EXCEPT !.running = call.id] /\ ob' \in OutputStates
           /\ calls' = Append(calls, call) /\ mode' = "run"
  <2>1. Kept(o, ob')
    BY <1>2 DEF Kept, OutputStates
  <2>2. calls' \in Seq(Calls)
    BY <1>1, <1>2, AppendProperties
  <2> QED
    BY <1>2, <2>1, <2>2 DEF Modes
<1>3. CASE /\ \E status : ob' = Complete(o, call, status)
           /\ mode' = Resume(by, InEndAll, Unwinding) /\ calls' = calls
  <2>1. Kept(o, ob')
    BY <1>1, <1>3, CompleteKeeps
  <2>2. InEndAll \in BOOLEAN /\ Unwinding \in BOOLEAN
    BY DEF InEndAll, Unwinding
  <2>3. mode' \in Modes
    BY <1>3, <2>2, ResumeIs
  <2> QED
    BY <1>3, <2>1, <2>3
<1> QED
  BY <1>2, <1>3, RunIs

Sound == TypeOK /\ DeactivatedForGood

\* What is left of the stack when the handlers and the mode are looked after.
LEMMA SoundStep ==
  ASSUME Sound, Kept(ob, ob'), calls' \in Seq(Calls), mode' \in Modes,
         starts' = starts, unwinding' \in {"none", "throw", "exit"}, failed' \in BOOLEAN,
         ending' \in BOOLEAN, written' \in 0 .. MaxTexts + 1
  PROVE  Sound'
<1>1. TypeOK'
  BY DEF Sound, TypeOK, Kept
<1>2. DeactivatedForGood'
  BY DEF Sound, Kept, DeactivatedForGood
<1> QED
  BY <1>1, <1>2 DEF Sound

LEMMA SoundParts ==
  ASSUME Sound
  PROVE  /\ ob \in OutputStates /\ calls \in Seq(Calls) /\ mode \in Modes
         /\ starts \in 0 .. MaxStarts /\ unwinding \in {"none", "throw", "exit"}
         /\ failed \in BOOLEAN /\ ending \in BOOLEAN /\ written \in 0 .. MaxTexts + 1
         /\ Unwinding \in BOOLEAN /\ MaxTexts \in Nat /\ Kept(ob, ob)
BY NumbersOfTexts DEF Sound, TypeOK, Unwinding, Kept

LEMMA SoundInit == Init => Sound
<1> SUFFICES ASSUME Init PROVE Sound
  OBVIOUS
<1>1. ob \in OutputStates
  BY EmptySeq DEF Init, OutputStates, None
<1>2. calls \in Seq(Calls)
  BY EmptySeq DEF Init
<1>3. starts \in 0 .. MaxStarts /\ written \in 0 .. MaxTexts + 1
  BY NumbersOfTexts DEF Init
<1>4. mode \in Modes /\ unwinding \in {"none", "throw", "exit"}
  BY DEF Init, Modes
<1>5. failed \in BOOLEAN /\ ending \in BOOLEAN /\ ~ ob.deactivated
  BY DEF Init
<1> QED
  BY <1>1, <1>2, <1>3, <1>4, <1>5 DEF Sound, TypeOK, DeactivatedForGood

\* A text is written at the end of all there is, and the type of it is right.
LEMMA NewText ==
  ASSUME written \in 0 .. MaxTexts + 1, written <= MaxTexts, written' = written + 1
  PROVE  written' \in Texts /\ written' # Diagnostic /\ written' \in 0 .. MaxTexts + 1
BY NumbersOfTexts DEF Texts, Diagnostic

LEMMA SoundProgram ==
  ASSUME Sound, Program
  PROVE  Sound'
<1> USE SoundParts
<1>1. CASE Echo
  <2>1. written' \in Texts /\ written' \in 0 .. MaxTexts + 1
    BY <1>1, NewText DEF Echo
  <2>2. Kept(ob, ob')
    BY <1>1, <2>1, WriteKeeps DEF Echo
  <2> QED
    BY <1>1, <2>1, <2>2, SoundStep DEF Echo, Modes, Drains
<1>2. CASE ObStart
  <2>1. PICK user \in BOOLEAN, size \in ChunkSizes, able \in Abilities :
          ob' = [ob EXCEPT !.handlers = Append(@,
                  [id |-> starts + 1, user |-> user, size |-> size, able |-> able,
                   started |-> FALSE, disabled |-> FALSE, produced |-> FALSE,
                   buf |-> <<>>])]
    BY <1>2 DEF ObStart
  <2> DEFINE h == [id |-> starts + 1, user |-> user, size |-> size, able |-> able,
                   started |-> FALSE, disabled |-> FALSE, produced |-> FALSE,
                   buf |-> <<>>]
  <2>2. starts + 1 \in Ids /\ starts' \in 0 .. MaxStarts
    BY <1>2, NumbersOfTexts DEF ObStart, Ids
  <2>3. h \in Handlers
    BY <2>2, EmptySeq DEF Handlers
  <2> HIDE DEF h
  <2>4. Append(ob.handlers, h) \in Seq(Handlers)
    BY <2>3, StateParts, AppendProperties
  <2>5. ob' \in OutputStates /\ ~ ob'.deactivated
    BY <1>2, <2>1, <2>4 DEF OutputStates, h, ObStart
  <2> QED
    BY <1>2, <2>2, <2>5 DEF ObStart, Sound, TypeOK, DeactivatedForGood, Modes, Drains
<1>3. CASE LockError
  <2>1. Range(Contents(ob)) \subseteq Texts
    <3>1. Contents(ob) \in Seq(Texts)
      BY HeldBack
    <3> QED
      BY <3>1, RangeOfSeq
  <2>2. ob' \in OutputStates /\ ob'.handlers = <<>>
    BY <1>3, <2>1, EmptySeq DEF LockError, OutputStates, None
  <2> QED
    BY <1>3, <2>2 DEF LockError, Sound, TypeOK, DeactivatedForGood, Modes
<1>4. CASE Throw \/ Exit \/ Fatal \/ Catch \/ Finally \/ Boundary
  <2>1. Kept(ob, ob') /\ mode' \in Modes
    BY <1>4 DEF Throw, Exit, Fatal, Catch, Finally, Boundary, Modes, Drains, Kept
  <2> QED
    BY <1>4, <2>1, SoundStep DEF Throw, Exit, Fatal, Catch, Finally, Boundary
<1>5. ASSUME NEW by \in Operations, Operate(by)
      PROVE  Sound'
  <2>1. Len(ob.handlers) \in 1 .. Len(ob.handlers) /\ by \in Callers
    BY <1>5, StateParts, NoHandlers DEF Operate, Allowed, Callers
  <2>2. Kept(ob, ob') /\ calls' \in Seq(Calls) /\ mode' \in Modes
    BY <1>5, <2>1, RunKeeps DEF Operate
  <2> QED
    BY <1>5, <2>2, SoundStep DEF Operate
<1>6. ASSUME NEW by \in Operations, OperateDisabled(by)
      PROVE  Sound'
  <2>1. Kept(ob, ob')
    BY <1>6, DropLastKeeps DEF OperateDisabled
  <2> QED
    BY <1>6, <2>1, SoundStep DEF OperateDisabled, Modes, Drains
<1> QED
  BY <1>1, <1>2, <1>3, <1>4, <1>5, <1>6 DEF Program

LEMMA LastCall ==
  ASSUME calls \in Seq(Calls), calls # <<>>
  PROVE  Last(calls) \in Calls /\ Front(calls) \in Seq(Calls)
<1>1. Len(calls) \in 1 .. Len(calls)
  BY EmptySeq, LenProperties
<1>2. Last(calls) \in Calls
  BY <1>1, ElementOfSeq DEF Last
<1> QED
  BY <1>2, FrontIs

LEMMA SoundHandlerEnds ==
  ASSUME Sound, NEW status, NEW o, Kept(ob, o), calls # <<>>, HandlerEnds(status, o)
  PROVE  Sound'
<1> USE SoundParts
<1> DEFINE call == Last(calls)
<1>1. call \in Calls /\ Front(calls) \in Seq(Calls) /\ call.by \in Callers
  BY LastCall, CallParts
<1>2. Kept(o, ob')
  BY <1>1, CompleteKeeps DEF HandlerEnds, Kept
<1>3. Kept(ob, ob')
  BY <1>2 DEF Kept
<1>4. mode' \in Modes
  BY <1>1, ResumeIs DEF HandlerEnds
<1> QED
  BY <1>1, <1>3, <1>4, SoundStep DEF HandlerEnds

LEMMA SoundHandlerDone ==
  ASSUME Sound, HandlerDone
  PROVE  Sound'
<1> USE SoundParts
<1>1. CASE HandlerReturns
  <2>1. PICK status : HandlerEnds(status, Deprecate(ob, Last(calls).id))
    BY <1>1 DEF HandlerReturns
  <2>2. Kept(ob, Deprecate(ob, Last(calls).id))
    BY DeprecateKeeps
  <2> QED
    BY <1>1, <2>1, <2>2, SoundHandlerEnds DEF HandlerReturns
<1>2. CASE HandlerFails
  BY <1>2, SoundHandlerEnds DEF HandlerFails
<1> QED
  BY <1>1, <1>2 DEF HandlerDone

LEMMA SoundEngine ==
  ASSUME Sound, Engine
  PROVE  Sound'
<1> USE SoundParts
<1>1. CASE DrainChunk /\ Due
  <2> DEFINE o == [ob EXCEPT !.due = None]
             i == Index(ob, ob.due)
  <2>1. o \in OutputStates /\ o.handlers = ob.handlers /\ Kept(ob, o)
    BY DEF OutputStates, Kept, None
  <2>2. i \in 1 .. Len(o.handlers) /\ mode \in Callers
    BY <1>1, <2>1, IndexIs DEF DrainChunk, Due, Callers
  <2>3. RunHandler(o, i, mode)
    BY <1>1 DEF DrainChunk
  <2> HIDE DEF o, i
  <2>4. Kept(o, ob') /\ calls' \in Seq(Calls) /\ mode' \in Modes
    BY <2>1, <2>2, <2>3, RunKeeps
  <2>5. Kept(ob, ob')
    BY <2>1, <2>4 DEF Kept
  <2> QED
    BY <1>1, <2>4, <2>5, SoundStep DEF DrainChunk
<1>2. CASE DrainChunk /\ ~ Due
  <2>1. Kept(ob, ob')
    BY <1>2 DEF DrainChunk, OutputStates, Kept, None
  <2> QED
    BY <1>2, <2>1, SoundStep DEF DrainChunk
<1>3. CASE DrainDone
  BY <1>3, SoundStep DEF DrainDone, Modes, Kept
<1>4. CASE ScriptUnwound
  <2>1. Kept(ob, ob') /\ written' \in 0 .. MaxTexts + 1
    <3>1. CASE written' = written + 1 /\ ob' = Write(ob, << written' >>) /\ written <= MaxTexts
      BY <3>1, NewText, WriteKeeps
    <3>2. CASE UNCHANGED <<written, ob>>
      BY <3>2 DEF Kept
    <3> QED
      BY <1>4, <3>1, <3>2 DEF ScriptUnwound
  <2> QED
    BY <1>4, <2>1, SoundStep DEF ScriptUnwound, Modes
<1>5. CASE FinalizeTop
  <2>1. CASE ob' = DropLast(ob) /\ UNCHANGED <<calls, mode>>
    <3>1. Kept(ob, ob')
      BY <2>1, DropLastKeeps
    <3> QED
      BY <1>5, <2>1, <3>1, SoundStep DEF FinalizeTop
  <2>2. CASE RunHandler(ob, Len(ob.handlers), "pop")
    <3>1. Len(ob.handlers) \in 1 .. Len(ob.handlers) /\ "pop" \in Callers
      BY <1>5, StateParts, NoHandlers DEF FinalizeTop, Callers, Operations
    <3>2. Kept(ob, ob') /\ calls' \in Seq(Calls) /\ mode' \in Modes
      BY <2>2, <3>1, RunKeeps
    <3> QED
      BY <1>5, <3>2, SoundStep DEF FinalizeTop
  <2> QED
    BY <1>5, <2>1, <2>2 DEF FinalizeTop
<1>6. CASE Finalized
  BY <1>6 DEF Finalized, Sound, TypeOK, OutputStates, None, Modes, DeactivatedForGood
<1> QED
  BY <1>1, <1>2, <1>3, <1>4, <1>5, <1>6 DEF Engine

LEMMA SoundNext == Sound /\ [Next]_vars => Sound'
<1> SUFFICES ASSUME Sound, [Next]_vars PROVE Sound'
  OBVIOUS
<1>1. CASE UNCHANGED vars
  BY <1>1 DEF vars, Sound, TypeOK, DeactivatedForGood
<1>2. CASE EndAll
  BY <1>2, SoundParts, SoundStep DEF EndAll, Kept, Php, Modes
<1>3. CASE Terminated
  BY <1>1, <1>3 DEF Terminated
<1> QED
  BY <1>1, <1>2, <1>3, SoundProgram, SoundEngine, SoundHandlerDone DEF Next

\* Every reachable state is sound.
LEMMA AlwaysSound == Spec => []Sound
BY SoundInit, SoundNext, PTL DEF Spec

\* The types of the state hold in every reachable state (TypeOK).
THEOREM TypeCorrect == Spec => []TypeOK
<1>1. Sound => TypeOK
  BY DEF Sound
<1> QED
  BY <1>1, AlwaysSound, PTL

\* After the lock error no handler is ever on the stack again, whatever the
\* program does: OutputState.deactivated is set once and ob_start refuses.
THEOREM StaysDeactivated == Spec => []DeactivatedForGood
<1>1. Sound => DeactivatedForGood
  BY DEF Sound
<1> QED
  BY <1>1, AlwaysSound, PTL

-----------------------------------------------------------------------------
(* The stack while the chunks are drained in time                          *)

\* The handlers are numbered in their order, up to n; a disabled one holds
\* nothing; and when end_all runs none has a chunk size.
Stacked(o, n, e) ==
  /\ Ordered(o) /\ Silent(o)
  /\ \A i \in 1 .. Len(o.handlers) : o.handlers[i].id <= n /\ (e => o.handlers[i].size = 0)

\* The handler at i has been called and not come back.
RunsAt(o, call, i) ==
  /\ i \in 1 .. Len(o.handlers) /\ o.handlers[i].id = call.id /\ o.running = call.id
  /\ ~ o.handlers[i].disabled /\ IsPrefix(call.data, o.handlers[i].buf)
  /\ call.by \in Operations => i = Len(o.handlers)

\* One handler runs at a time, and stays on the stack or the lock error has
\* emptied it.
Running ==
  /\ Len(calls) <= 1
  /\ calls = <<>> => ob.running = None
  /\ calls # <<>> =>
       IF ob.deactivated THEN failed \/ LockSurvived
       ELSE \E i \in 1 .. Len(ob.handlers) : RunsAt(ob, calls[1], i)

\* A chunk is due only while a builtin or the wrapper around it may drain.
NothingDue == mode = "run" \/ calls # <<>> \/ ending => ob.due = None

ShutDown == ob.deactivated => ob.running = None /\ ob.due = None

Orderly == Stacked(ob, starts, ending) /\ Running /\ NothingDue /\ ShutDown

LEMMA CarriedStacked ==
  ASSUME NEW o, NEW p, NEW n, NEW e, NEW m \in Nat, Len(o.handlers) \in Nat,
         m <= Len(o.handlers), Carried(o, p, m), Stacked(o, n, e)
  PROVE  Stacked(p, n, e) /\ (e => p.due = o.due)
<1>1. /\ Len(p.handlers) = m
      /\ \A j \in 1 .. m : p.handlers[j].id = o.handlers[j].id /\ p.handlers[j].size = o.handlers[j].size
      /\ Silent(p)
      /\ (\A j \in 1 .. Len(o.handlers) : o.handlers[j].size = 0) => p.due = o.due
  BY DEF Carried, Stacked
<1>2. \A j \in 1 .. m : j \in 1 .. Len(o.handlers)
  OBVIOUS
<1>3. Ordered(p)
  BY <1>1, <1>2 DEF Ordered, Stacked
<1> QED
  BY <1>1, <1>2, <1>3 DEF Stacked

LEMMA GrownStacked ==
  ASSUME NEW o \in OutputStates, NEW p, NEW n, NEW e, Grown(o, p), Stacked(o, n, e)
  PROVE  Stacked(p, n, e) /\ (e => p.due = o.due)
<1>1. Carried(o, p, Len(o.handlers)) /\ Len(o.handlers) \in Nat
  BY GrownCarried, StateParts
<1> QED
  BY <1>1, CarriedStacked

\* The handler that runs is still there after a write.
LEMMA GrownRuns ==
  ASSUME NEW o \in OutputStates, NEW p, Grown(o, p), NEW call \in Calls, NEW i, RunsAt(o, call, i)
  PROVE  RunsAt(p, call, i) /\ i \in 1 .. Len(p.handlers) /\ p.due = o.due
<1>1. /\ i \in 1 .. Len(o.handlers) /\ o.handlers[i].id = call.id /\ o.running = call.id
      /\ ~ o.handlers[i].disabled /\ IsPrefix(call.data, o.handlers[i].buf)
      /\ call.by \in Operations => i = Len(o.handlers)
  BY DEF RunsAt
<1>2. /\ p \in OutputStates /\ Len(p.handlers) = Len(o.handlers) /\ p.running = o.running
      /\ Alike(o.handlers[i], p.handlers[i])
      /\ o.running # None => p.due = o.due
  BY <1>1 DEF Grown
<1>3. p.handlers[i].id = call.id /\ ~ p.handlers[i].disabled
  BY <1>1, <1>2 DEF Alike
<1>4. IsPrefix(call.data, p.handlers[i].buf)
  <2>1. call.data \in Seq(Texts) /\ o.handlers[i].buf \in Seq(Texts) /\ p.handlers[i].buf \in Seq(Texts)
    BY <1>1, <1>2, StateParts, CallParts
  <2>2. IsPrefix(o.handlers[i].buf, p.handlers[i].buf)
    BY <1>2 DEF Alike
  <2> QED
    BY <1>1, <2>1, <2>2, PrefixTransitive
<1>5. o.running # None
  BY <1>1, CallParts DEF Ids, None
<1> QED
  BY <1>1, <1>2, <1>3, <1>4, <1>5 DEF RunsAt

\* With the stack empty a write makes nothing due.
LEMMA GrownEmpty ==
  ASSUME NEW o \in OutputStates, NEW p, Grown(o, p), o.handlers = <<>>
  PROVE  p.due = o.due /\ p.handlers = <<>> /\ p.running = o.running
<1>1. Len(o.handlers) = 0
  BY NoHandlers
<1>2. p \in OutputStates /\ Len(p.handlers) = 0 /\ p.due = o.due /\ p.running = o.running
  BY <1>1 DEF Grown
<1> QED
  BY <1>2, NoHandlers

LEMMA OneCall ==
  ASSUME calls \in Seq(Calls), Running, calls # <<>>
  PROVE  /\ Len(calls) = 1 /\ Last(calls) = calls[1] /\ calls[1] \in Calls /\ Front(calls) = <<>>
         /\ calls[1].id \in Ids /\ calls[1].id # None
<1>1. Len(calls) = 1
  <2>1. Len(calls) <= 1
    BY Zenon DEF Running
  <2>2. Len(calls) \in Nat /\ Len(calls) # 0
    BY EmptySeq, LenProperties
  <2> QED
    BY <2>1, <2>2
<1>2. calls[1] \in Calls
  BY <1>1, ElementOfSeq
<1>3. Front(calls) = <<>>
  <2>1. Front(calls) \in Seq(Calls) /\ Len(Front(calls)) = 0
    BY <1>1, FrontIs
  <2> QED
    BY <2>1, EmptySeq
<1> QED
  BY <1>1, <1>2, <1>3, CallParts DEF Last, Ids, None

\* Nobody runs when the stack is free to be used.
LEMMA FreeIsIdle ==
  ASSUME Sound, Orderly, ob.handlers = <<>> \/ ob.running = None, ~ ob.deactivated
  PROVE  calls = <<>>
<1> SUFFICES ASSUME calls # <<>> PROVE FALSE
  OBVIOUS
<1>1. calls[1].id # None /\ \E i \in 1 .. Len(ob.handlers) : RunsAt(ob, calls[1], i)
  BY SoundParts, OneCall DEF Orderly, Running
<1>2. ob.running # None /\ Len(ob.handlers) # 0
  BY <1>1, SoundParts, StateParts DEF RunsAt
<1> QED
  BY <1>2, SoundParts, NoHandlers

-----------------------------------------------------------------------------
(* Every step keeps the stack orderly                                      *)

LEMMA OrderlyRun ==
  ASSUME Sound, NEW o \in OutputStates, NEW i \in 1 .. Len(o.handlers), NEW by \in Callers,
         RunHandler(o, i, by), calls = <<>>, ~ o.deactivated, o.due = None,
         Stacked(o, starts, ending), ~ o.handlers[i].disabled,
         by \in Operations => i = Len(o.handlers),
         starts' = starts, ending' = ending
  PROVE  Orderly'
<1> DEFINE call == CallOf(o, i, by)
<1>1. /\ call \in Calls /\ call.id = o.handlers[i].id /\ call.by = by
      /\ call.data = o.handlers[i].buf /\ call.id \in Ids
  BY RunIs
<1>2. CASE /\ ob' = [o EXCEPT !.running = call.id] /\ ob' \in OutputStates
           /\ calls' = Append(calls, call) /\ mode' = "run"
  <2> HIDE DEF call
  <2>1. calls' = << call >> /\ Len(calls') = 1 /\ calls'[1] = call /\ calls' # <<>>
    BY <1>1, <1>2
  <2>2. /\ ob'.handlers = o.handlers /\ ob'.running = call.id /\ ob'.due = None /\ ~ ob'.deactivated
    BY <1>2 DEF OutputStates
  <2>3. Stacked(ob', starts', ending')
    BY <2>2 DEF Stacked, Ordered, Silent
  <2>4. IsPrefix(call.data, ob'.handlers[i].buf)
    BY <1>1, <2>2, StateParts, PrefixSelf
  <2>5. RunsAt(ob', call, i)
    BY <1>1, <2>2, <2>4 DEF RunsAt
  <2>6. Running'
    BY <2>1, <2>2, <2>5 DEF Running
  <2>7. NothingDue' /\ ShutDown'
    BY <2>2 DEF NothingDue, ShutDown
  <2> QED
    BY <2>3, <2>6, <2>7 DEF Orderly
<1>3. CASE /\ \E status : ob' = Complete(o, call, status)
           /\ mode' = Resume(by, InEndAll, Unwinding) /\ calls' = calls
  <2> HIDE DEF call
  <2>1. /\ Carried(o, ob', Left(o, by)) /\ ob'.running = None
        /\ Left(o, by) \in Nat /\ Left(o, by) <= Len(o.handlers)
    BY <1>1, <1>3, CompleteCarries
  <2>2. Stacked(ob', starts, ending) /\ (ending => ob'.due = None)
    BY <2>1, StateParts, CarriedStacked
  <2>3. ~ ob'.deactivated
    BY <2>1 DEF Carried
  <2>4. mode' = "run" => ending
    <3>1. InEndAll \in BOOLEAN /\ Unwinding \in BOOLEAN /\ (InEndAll => ending)
      BY DEF InEndAll, Unwinding
    <3> QED
      BY <1>3, <3>1, ResumeIs
  <2>5. Running'
    BY <1>3, <2>1 DEF Running
  <2>6. NothingDue' /\ ShutDown'
    BY <1>3, <2>2, <2>3, <2>4 DEF NothingDue, ShutDown
  <2> QED
    BY <2>2, <2>5, <2>6 DEF Orderly
<1> QED
  BY <1>2, <1>3, RunIs

\* A text is written, and the handlers stay where they are.
LEMMA OrderlyWrite ==
  ASSUME Sound, Orderly, NEW w \in Texts, ob' = Write(ob, << w >>),
         UNCHANGED <<starts, calls, failed, ending>>
  PROVE  /\ Stacked(ob', starts', ending') /\ Running' /\ ShutDown'
         /\ ob.due = None /\ (calls # <<>> \/ ending) => ob'.due = None
<1>1. ob \in OutputStates /\ calls \in Seq(Calls)
  BY SoundParts
<1>2. Grown(ob, ob')
  BY <1>1, WriteKeeps
<1>3. Stacked(ob', starts, ending) /\ (ending => ob'.due = ob.due)
  BY <1>1, <1>2, GrownStacked DEF Orderly
<1>4. ob'.running = ob.running /\ ob'.deactivated = ob.deactivated
  BY <1>2 DEF Grown
<1>5. ASSUME ob.deactivated
      PROVE  ob'.due = ob.due
  BY <1>1, <1>2, <1>5, GrownEmpty DEF Sound, DeactivatedForGood
<1>6. ASSUME calls # <<>>, ~ ob.deactivated
      PROVE  (\E i \in 1 .. Len(ob'.handlers) : RunsAt(ob', calls[1], i)) /\ ob'.due = ob.due
  <2>1. calls[1] \in Calls /\ \E i \in 1 .. Len(ob.handlers) : RunsAt(ob, calls[1], i)
    BY <1>1, <1>6, OneCall DEF Orderly, Running
  <2> QED
    BY <1>1, <1>2, <2>1, GrownRuns
<1>7. Running'
  BY <1>4, <1>6 DEF Orderly, Running
<1>8. ShutDown'
  BY <1>4, <1>5 DEF Orderly, ShutDown
<1> QED
  BY <1>3, <1>5, <1>6, <1>7, <1>8

\* The stack is left alone.
LEMMA OrderlySame ==
  ASSUME Sound, Orderly, UNCHANGED <<starts, calls, ob, ending>>,
         ob.deactivated /\ failed => failed' \/ LockSurvived,
         mode' = "run" => ob.due = None
  PROVE  Orderly'
<1>1. Stacked(ob', starts', ending')
  BY DEF Orderly
<1>2. Running'
  BY DEF Orderly, Running
<1>3. NothingDue' /\ ShutDown'
  BY DEF Orderly, NothingDue, ShutDown
<1> QED
  BY <1>1, <1>2, <1>3 DEF Orderly

\* A disabled handler is popped without being run.
LEMMA OrderlyDropLast ==
  ASSUME Sound, Orderly, ob.handlers # <<>>, Last(ob.handlers).disabled, ob.due = None,
         ob' = DropLast(ob), UNCHANGED <<starts, calls, failed, ending>>
  PROVE  Orderly'
<1>1. /\ ob \in OutputStates /\ calls \in Seq(Calls)
      /\ Len(ob.handlers) \in Nat /\ ob.handlers[Len(ob.handlers)].disabled
  BY SoundParts, StateParts DEF Last
<1>2. /\ ob' \in OutputStates /\ ob'.running = ob.running /\ ob'.due = None
      /\ ob'.deactivated = ob.deactivated
      /\ Len(ob'.handlers) = Len(ob.handlers) - 1
      /\ \A j \in 1 .. Len(ob'.handlers) : ob'.handlers[j] = ob.handlers[j]
  BY <1>1, DropLastIs
<1>3. Stacked(ob', starts, ending)
  <2>1. Carried(ob, ob', Left(ob, "pop")) /\ Left(ob, "pop") \in Nat /\ Left(ob, "pop") <= Len(ob.handlers)
    BY <1>1, DropLastCarries
  <2> QED
    BY <1>1, <2>1, CarriedStacked DEF Orderly
<1>4. ASSUME calls # <<>>, ~ ob.deactivated
      PROVE  \E i \in 1 .. Len(ob'.handlers) : RunsAt(ob', calls[1], i)
  <2>1. PICK i \in 1 .. Len(ob.handlers) : RunsAt(ob, calls[1], i)
    BY <1>4 DEF Orderly, Running
  <2>2. i # Len(ob.handlers) /\ calls[1].by \notin Operations
    BY <1>1, <2>1 DEF RunsAt
  <2>3. i \in 1 .. Len(ob'.handlers) /\ ob'.handlers[i] = ob.handlers[i]
    BY <1>1, <1>2, <2>2
  <2> QED
    BY <1>2, <2>1, <2>2, <2>3 DEF RunsAt
<1>5. Running'
  BY <1>2, <1>4 DEF Orderly, Running
<1>6. NothingDue' /\ ShutDown'
  BY <1>2 DEF Orderly, NothingDue, ShutDown
<1> QED
  BY <1>3, <1>5, <1>6 DEF Orderly

\* What a handler is taken down in: the state it returned in, or that with
\* the deprecation written.
Ending(o, status) ==
  \/ o = ob
  \/ ~ ob.deactivated /\ o = Deprecate(ob, Last(calls).id)

LEMMA EndingIs ==
  ASSUME Sound, Orderly, calls # <<>>, NEW o, NEW status, Ending(o, status)
  PROVE  /\ Grown(ob, o) /\ o.client = ob.client /\ Held(o) = Held(ob)
         /\ Stacked(o, starts, ending) /\ o.due = None
         /\ ~ ob.deactivated => \E i \in 1 .. Len(o.handlers) : RunsAt(o, calls[1], i)
<1>1. ob \in OutputStates /\ calls \in Seq(Calls) /\ calls[1] \in Calls /\ Last(calls) = calls[1]
  BY SoundParts, OneCall DEF Orderly
<1>2. ob.due = None
  BY DEF Orderly, NothingDue
<1>3. Grown(ob, o) /\ o.client = ob.client /\ Held(o) = Held(ob)
  <2>1. CASE o = ob
    BY <1>1, <2>1, GrownItself
  <2>2. CASE ~ ob.deactivated /\ o = Deprecate(ob, Last(calls).id)
    <3>1. PICK i \in 1 .. Len(ob.handlers) : RunsAt(ob, calls[1], i)
      BY <2>2 DEF Orderly, Running
    <3>2. Index(ob, calls[1].id) = i /\ ~ ob.handlers[i].disabled
      <4>1. ob.handlers[i].id = calls[1].id /\ ~ ob.handlers[i].disabled
        BY <3>1 DEF RunsAt
      <4>2. Index(ob, ob.handlers[i].id) = i
        BY <1>1, IndexUnique DEF Orderly, Stacked
      <4> QED
        BY <4>1, <4>2
    <3> QED
      BY <1>1, <2>2, <3>2, DeprecateIs DEF Held
  <2> QED
    BY <2>1, <2>2 DEF Ending
<1>4. Stacked(o, starts, ending)
  BY <1>1, <1>3, GrownStacked DEF Orderly
<1>5. CASE ob.deactivated
  BY <1>1, <1>2, <1>3, <1>4, <1>5, GrownEmpty DEF Sound, DeactivatedForGood
<1>6. CASE ~ ob.deactivated
  <2>1. PICK i \in 1 .. Len(ob.handlers) : RunsAt(ob, calls[1], i)
    BY <1>6 DEF Orderly, Running
  <2>2. RunsAt(o, calls[1], i) /\ i \in 1 .. Len(o.handlers) /\ o.due = ob.due
    BY <1>1, <1>3, <2>1, GrownRuns
  <2> QED
    BY <1>2, <1>3, <1>4, <2>2
<1> QED
  BY <1>5, <1>6

LEMMA HandlerEndsIn ==
  ASSUME Sound, Orderly, HandlerDone
  PROVE  /\ calls # <<>> /\ UNCHANGED <<starts, unwinding, ending, written>>
         /\ \E o, status : /\ Ending(o, status) /\ HandlerEnds(status, o)
                           /\ ob.deactivated => status # "success" \/ LockSurvived
<1>1. CASE HandlerReturns
  <2>1. PICK status : HandlerEnds(status, Deprecate(ob, Last(calls).id))
    BY <1>1 DEF HandlerReturns
  <2>2. calls # <<>> /\ ~ failed
    BY <1>1 DEF HandlerReturns
  <2>3. ob.deactivated => LockSurvived
    BY <2>2, Zenon DEF Orderly, Running
  <2>4. ob.deactivated => Deprecate(ob, Last(calls).id) = ob
    <3> SUFFICES ASSUME ob.deactivated PROVE Deprecate(ob, Last(calls).id) = ob
      OBVIOUS
    <3>1. ob.handlers = <<>> /\ ob \in OutputStates
      BY SoundParts DEF Sound, DeactivatedForGood
    <3>2. Index(ob, Last(calls).id) = 0
      BY <3>1, IndexIs, NoHandlers
    <3> QED
      BY <3>2 DEF Deprecate
  <2> QED
    BY <2>1, <2>2, <2>3, <2>4 DEF Ending, HandlerEnds
<1>2. CASE HandlerFails
  <2>1. PICK status : calls # <<>> /\ HandlerEnds(status, ob) /\ status # "success"
    BY <1>2 DEF HandlerFails
  <2> QED
    BY <2>1 DEF Ending, HandlerEnds
<1> QED
  BY <1>1, <1>2 DEF HandlerDone

LEMMA OrderlyHandlerDone ==
  ASSUME Sound, Orderly, HandlerDone
  PROVE  Orderly'
<1>1. calls # <<>> /\ UNCHANGED <<starts, ending>>
  BY HandlerEndsIn
<1>2. PICK o, status : Ending(o, status) /\ HandlerEnds(status, o)
  BY HandlerEndsIn
<1> DEFINE call == calls[1]
<1>3. /\ ob \in OutputStates /\ calls \in Seq(Calls) /\ call \in Calls /\ Last(calls) = call
      /\ Len(calls) = 1 /\ Front(calls) = <<>> /\ Unwinding \in BOOLEAN /\ failed \in BOOLEAN
      /\ ending \in BOOLEAN
  BY <1>1, SoundParts, OneCall DEF Orderly
<1>4. Grown(ob, o) /\ Stacked(o, starts, ending) /\ o.due = None
  BY <1>1, <1>2, EndingIs
<1> HIDE DEF call
<1>5. /\ ob' = Complete(o, call, status) /\ calls' = <<>>
      /\ mode' = Resume(call.by, ending, Unwinding \/ failed)
  <2>1. (ending /\ Len(calls) = 1) = ending
    BY <1>3
  <2> QED
    BY <1>2, <1>3, <2>1 DEF HandlerEnds
<1>6. o \in OutputStates /\ o.deactivated = ob.deactivated /\ Len(o.handlers) = Len(ob.handlers)
  BY <1>4 DEF Grown
<1>7. /\ Carried(o, ob', Left(o, call.by)) /\ ob'.running = None
      /\ Left(o, call.by) \in Nat /\ Left(o, call.by) <= Len(o.handlers)
  BY <1>3, <1>5, <1>6, CompleteCarries
<1>8. Stacked(ob', starts, ending) /\ (ending => ob'.due = None)
  <2> DEFINE m == Left(o, call.by)
  <2>1. m \in Nat /\ m <= Len(o.handlers) /\ Carried(o, ob', m)
    BY <1>7
  <2>2. Len(o.handlers) \in Nat
    BY <1>6, StateParts
  <2> HIDE DEF m
  <2>3. Stacked(ob', starts, ending) /\ (ending => ob'.due = o.due)
    BY <1>4, <2>1, <2>2, CarriedStacked
  <2> QED
    BY <1>4, <2>3
<1>9. mode' = "run" => ending
  BY <1>3, <1>5, CallParts, ResumeIs
<1>10. ob'.deactivated => ob'.due = None
  <2> SUFFICES ASSUME ob'.deactivated PROVE ob'.due = None
    OBVIOUS
  <2>1. Len(o.handlers) = 0
    BY <1>3, <1>6, <1>7, NoHandlers DEF Carried, Sound, DeactivatedForGood
  <2>2. ob'.due = o.due
    BY <1>7, <2>1 DEF Carried
  <2> QED
    BY <1>4, <2>2
<1>11. Running' /\ NothingDue' /\ ShutDown'
  BY <1>1, <1>5, <1>7, <1>8, <1>9, <1>10 DEF Running, NothingDue, ShutDown
<1> QED
  BY <1>1, <1>8, <1>11 DEF Orderly

LEMMA OrderlyInit == Init => Orderly
<1> SUFFICES ASSUME Init PROVE Orderly
  OBVIOUS
<1>1. ob.handlers = <<>> /\ ob.running = None /\ ob.due = None /\ calls = <<>>
  BY DEF Init
<1>2. Len(ob.handlers) = 0 /\ Len(calls) = 0
  BY <1>1
<1>3. Stacked(ob, starts, ending)
  BY <1>2 DEF Stacked, Ordered, Silent
<1>4. Running /\ NothingDue /\ ShutDown
  BY <1>1, <1>2 DEF Running, NothingDue, ShutDown
<1> QED
  BY <1>3, <1>4 DEF Orderly

LEMMA OrderlyStart ==
  ASSUME Sound, Orderly, ObStart
  PROVE  Orderly'
<1>1. PICK user \in BOOLEAN, size \in ChunkSizes, able \in Abilities :
        ob' = [ob EXCEPT !.handlers = Append(@,
                [id |-> starts + 1, user |-> user, size |-> size, able |-> able,
                 started |-> FALSE, disabled |-> FALSE, produced |-> FALSE,
                 buf |-> <<>>])]
  BY DEF ObStart
<1> DEFINE h == [id |-> starts + 1, user |-> user, size |-> size, able |-> able,
                 started |-> FALSE, disabled |-> FALSE, produced |-> FALSE,
                 buf |-> <<>>]
           l == Len(ob.handlers)
<1>2. /\ ob \in OutputStates /\ starts \in Nat /\ l \in Nat
      /\ \A i \in 1 .. l : ob.handlers[i].id \in Nat
  <2>1. ob \in OutputStates /\ starts \in Nat
    BY SoundParts
  <2>2. \A i \in 1 .. l : ob.handlers[i].id \in Ids
    BY <2>1, StateParts, HandlerParts
  <2> QED
    BY <2>1, <2>2, StateParts DEF Ids
<1>3. h.id = starts + 1 /\ ~ h.disabled
  OBVIOUS
<1>4. ob' = [ob EXCEPT !.handlers = Append(@, h)]
  BY <1>1
<1>5. calls = <<>> /\ ~ ending /\ ~ ob.deactivated
  BY FreeIsIdle DEF ObStart, Locked, Php, InEndAll
<1> HIDE DEF h
<1>6. /\ Len(ob'.handlers) = l + 1 /\ ob'.handlers[l + 1] = h
      /\ \A i \in 1 .. l : ob'.handlers[i] = ob.handlers[i]
      /\ ob'.running = ob.running /\ ob'.due = ob.due /\ ob'.deactivated = ob.deactivated
  <2>1. ob.handlers \in Seq(Handlers)
    BY <1>2, StateParts
  <2>2. ob'.handlers = Append(ob.handlers, h)
    BY <1>2, <1>4 DEF OutputStates
  <2>3. /\ Len(Append(ob.handlers, h)) = l + 1 /\ Append(ob.handlers, h)[l + 1] = h
        /\ \A i \in 1 .. l : Append(ob.handlers, h)[i] = ob.handlers[i]
    BY <2>1
  <2> QED
    BY <1>2, <1>4, <2>2, <2>3 DEF OutputStates
<1>7. starts' = starts + 1 /\ calls' = <<>> /\ ~ ending' /\ mode' # "run"
  BY <1>5 DEF ObStart
<1>8. \A i \in 1 .. l : ob.handlers[i].id <= starts
  BY DEF Orderly, Stacked
<1>a. \A i \in 1 .. l : /\ ob'.handlers[i].id = ob.handlers[i].id /\ ob.handlers[i].id <= starts
                        /\ ob.handlers[i].id \in Nat
  BY <1>2, <1>6, <1>8
<1>b. ob'.handlers[l + 1].id = starts + 1
  BY <1>3, <1>6
<1>9. Ordered(ob')
  <2>1. ASSUME NEW i \in 1 .. l + 1, NEW j \in 1 .. l + 1, i < j
        PROVE  ob'.handlers[i].id < ob'.handlers[j].id
    <3>1. i \in 1 .. l
      BY <1>2, <2>1
    <3>2. CASE j = l + 1
      <4>1. ob'.handlers[i].id <= starts /\ ob'.handlers[i].id \in Nat
        BY <1>a, <3>1
      <4>2. ob'.handlers[j].id = starts + 1
        BY <1>b, <3>2
      <4> QED
        BY <1>2, <4>1, <4>2
    <3>3. CASE j \in 1 .. l
      <4>1. ob.handlers[i].id < ob.handlers[j].id
        BY <2>1, <3>1, <3>3 DEF Orderly, Stacked, Ordered
      <4> QED
        BY <1>a, <3>1, <3>3, <4>1
    <3> QED
      BY <1>2, <3>2, <3>3
  <2>2. Len(ob'.handlers) = l + 1
    BY <1>6
  <2> QED
    BY <2>1, <2>2 DEF Ordered
<1>10. Silent(ob')
  <2>1. ASSUME NEW i \in 1 .. l + 1, ob'.handlers[i].disabled
        PROVE  ob'.handlers[i].buf = <<>>
    <3>1. i \in 1 .. l /\ ob'.handlers[i] = ob.handlers[i]
      BY <1>2, <1>3, <1>6, <2>1
    <3> QED
      BY <2>1, <3>1 DEF Orderly, Stacked, Silent
  <2> QED
    BY <1>6, <2>1 DEF Silent
<1>11. ASSUME NEW i \in 1 .. l + 1
       PROVE  ob'.handlers[i].id <= starts + 1
  <2>1. CASE i = l + 1
    BY <1>2, <1>b, <2>1
  <2>2. CASE i \in 1 .. l
    <3>1. ob'.handlers[i].id <= starts /\ ob'.handlers[i].id \in Nat
      BY <1>a, <2>2
    <3> QED
      BY <1>2, <3>1
  <2> QED
    BY <1>2, <2>1, <2>2
<1>12. Stacked(ob', starts', ending')
  BY <1>6, <1>7, <1>9, <1>10, <1>11 DEF Stacked
<1>13. Len(calls') = 0
  BY <1>7
<1>14. Running' /\ NothingDue' /\ ShutDown'
  BY <1>5, <1>6, <1>7, <1>13 DEF Orderly, Running, NothingDue, ShutDown
<1> QED
  BY <1>12, <1>14 DEF Orderly

LEMMA OrderlyProgram ==
  ASSUME Sound, Orderly, ~ LateChunks, Program
  PROVE  Orderly'
<1> USE SoundParts
<1>1. CASE Echo
  <2>1. mode = "run" /\ mode' = "drain" /\ UNCHANGED <<starts, calls, failed, ending>>
    BY <1>1 DEF Echo, Php
  <2>2. written' \in Texts /\ ob' = Write(ob, << written' >>)
    BY <1>1, NewText DEF Echo
  <2>3. ob.due = None
    BY <2>1 DEF Orderly, NothingDue
  <2>4. /\ Stacked(ob', starts', ending') /\ Running' /\ ShutDown'
        /\ (calls # <<>> \/ ending) => ob'.due = None
    BY <2>1, <2>2, <2>3, OrderlyWrite
  <2>5. NothingDue'
    BY <2>1, <2>4 DEF NothingDue
  <2> QED
    BY <2>4, <2>5 DEF Orderly
<1>2. CASE ObStart
  BY <1>2, OrderlyStart
<1>3. CASE LockError
  <2>1. /\ ob'.handlers = <<>> /\ ob'.running = None /\ ob'.due = None /\ ob'.deactivated
        /\ failed' /\ calls' = calls
    BY <1>3 DEF LockError, OutputStates
  <2>2. Len(ob'.handlers) = 0
    BY <2>1
  <2>3. Stacked(ob', starts', ending')
    BY <2>2 DEF Stacked, Ordered, Silent
  <2>4. Running' /\ NothingDue' /\ ShutDown'
    BY <2>1 DEF Orderly, Running, NothingDue, ShutDown
  <2> QED
    BY <2>3, <2>4 DEF Orderly
<1>4. CASE Throw \/ Exit \/ Fatal \/ Catch \/ Finally \/ Boundary
  <2>1. /\ UNCHANGED <<starts, calls, ob, ending>> 
        /\ ob.deactivated /\ failed => failed' \/ LockSurvived
        /\ mode' = "run" => ob.due = None
    BY <1>4 DEF Throw, Exit, Fatal, Catch, Finally, Boundary
  <2> QED
    BY <2>1, OrderlySame
<1>5. ASSUME NEW by \in Operations, Operate(by)
      PROVE  Orderly'
  <2> DEFINE n == Len(ob.handlers)
  <2>1. n \in 1 .. n /\ by \in Callers /\ RunHandler(ob, n, by) /\ ~ ob.handlers[n].disabled
    BY <1>5, StateParts, NoHandlers DEF Operate, Allowed, Callers, Last
  <2>2. ob.handlers # <<>> /\ ob.running = None /\ mode = "run"
    BY <1>5 DEF Operate, Allowed, Locked, Php
  <2>3. ~ ob.deactivated
    BY <2>2 DEF Sound, DeactivatedForGood
  <2>4. calls = <<>>
    BY <2>2, <2>3, FreeIsIdle
  <2>5. ob.due = None /\ Stacked(ob, starts, ending)
    BY <2>2 DEF Orderly, NothingDue
  <2>6. starts' = starts /\ ending' = ending
    BY <1>5 DEF Operate
  <2> QED
    BY <2>1, <2>3, <2>4, <2>5, <2>6, OrderlyRun
<1>6. ASSUME NEW by \in Operations, OperateDisabled(by)
      PROVE  Orderly'
  <2>1. /\ ob.handlers # <<>> /\ Last(ob.handlers).disabled /\ mode = "run"
        /\ UNCHANGED <<starts, calls, failed, ending>>
    BY <1>6 DEF OperateDisabled, Allowed, Php
  <2>2. ob.due = None
    BY <2>1 DEF Orderly, NothingDue
  <2>3. ob' = DropLast(ob) \/ ob' = ob
    BY <1>6 DEF OperateDisabled
  <2> QED
    BY <2>1, <2>2, <2>3, OrderlyDropLast, OrderlySame
<1> QED
  BY <1>1, <1>2, <1>3, <1>4, <1>5, <1>6 DEF Program

LEMMA OrderlyEngine ==
  ASSUME Sound, Orderly, ~ LateChunks, Engine
  PROVE  Orderly'
<1> USE SoundParts
<1>1. CASE DrainChunk /\ Due
  <2> DEFINE o == [ob EXCEPT !.due = None]
             i == Index(ob, ob.due)
  <2>1. /\ o \in OutputStates /\ o.handlers = ob.handlers /\ o.due = None
        /\ o.deactivated = ob.deactivated
    BY DEF OutputStates, None
  <2>2. i \in 1 .. Len(o.handlers) /\ mode \in Callers /\ ~ ob.handlers[i].disabled
    BY <1>1, <2>1, IndexIs DEF DrainChunk, Due, Callers
  <2>3. RunHandler(o, i, mode) /\ starts' = starts /\ ending' = ending
    BY <1>1 DEF DrainChunk
  <2>4. mode \notin Operations
    BY <1>1 DEF DrainChunk, Drains, Operations
  <2>5. calls = <<>> /\ ~ ob.deactivated
    <3>1. ob.due # None
      BY <1>1 DEF DrainChunk
    <3> QED
      BY <3>1 DEF Orderly, NothingDue, ShutDown
  <2> HIDE DEF o, i
  <2>6. Stacked(o, starts, ending)
    BY <2>1 DEF Orderly, Stacked, Ordered, Silent
  <2> QED
    BY <2>1, <2>2, <2>3, <2>4, <2>5, <2>6, OrderlyRun
<1>2. CASE DrainChunk /\ ~ Due
  <2>1. /\ ob'.handlers = ob.handlers /\ ob'.running = ob.running /\ ob'.due = None
        /\ ob'.deactivated = ob.deactivated /\ UNCHANGED <<starts, calls, failed, ending>>
    BY <1>2 DEF DrainChunk, OutputStates
  <2>2. Stacked(ob', starts', ending')
    BY <2>1 DEF Orderly, Stacked, Ordered, Silent
  <2>3. calls = <<>>
    BY <1>2 DEF DrainChunk, Orderly, NothingDue
  <2>4. Running'
    BY <2>1, <2>3 DEF Orderly, Running
  <2>5. NothingDue' /\ ShutDown'
    BY <2>1 DEF NothingDue, Orderly, ShutDown
  <2> QED
    BY <2>2, <2>4, <2>5 DEF Orderly
<1>3. CASE DrainDone
  BY <1>3, OrderlySame DEF DrainDone
<1>4. CASE ScriptUnwound
  <2>1. /\ UNCHANGED <<starts, calls, ending>> /\ calls = <<>> /\ ~ ending /\ ob'.due = None
    BY <1>4 DEF ScriptUnwound
  <2>2. CASE written' = written + 1 /\ ob' = Write(ob, << written' >>) /\ written <= MaxTexts
    <3>1. written' \in Texts /\ Grown(ob, ob')
      BY <2>2, NewText, WriteKeeps
    <3>2. Stacked(ob', starts, ending)
      BY <3>1, GrownStacked DEF Orderly
    <3>3. ob'.running = ob.running /\ ob'.deactivated = ob.deactivated
      BY <3>1 DEF Grown
    <3>4. Running' /\ NothingDue' /\ ShutDown'
      BY <2>1, <3>3 DEF Orderly, Running, NothingDue, ShutDown
    <3> QED
      BY <2>1, <3>2, <3>4 DEF Orderly
  <2>3. CASE UNCHANGED <<written, ob>>
    <3>1. Running' /\ NothingDue' /\ ShutDown' /\ Stacked(ob', starts', ending')
      BY <2>1, <2>3 DEF Orderly, Running, NothingDue, ShutDown
    <3> QED
      BY <3>1 DEF Orderly
  <2> QED
    BY <1>4, <2>2, <2>3 DEF ScriptUnwound
<1>5. CASE FinalizeTop
  <2> DEFINE n == Len(ob.handlers)
  <2>1. /\ ob.handlers # <<>> /\ ob.due = None /\ calls = <<>>
        /\ UNCHANGED <<starts, failed, ending>> /\ Stacked(ob, starts, ending)
    BY <1>5 DEF FinalizeTop, InEndAll, Orderly, NothingDue
  <2>2. ~ ob.deactivated
    BY <2>1 DEF Sound, DeactivatedForGood
  <2>3. CASE Last(ob.handlers).disabled
    BY <1>5, <2>1, <2>3, OrderlyDropLast DEF FinalizeTop
  <2>4. CASE ~ Last(ob.handlers).disabled
    <3>1. n \in 1 .. n /\ "pop" \in Callers /\ RunHandler(ob, n, "pop") /\ ~ ob.handlers[n].disabled
      BY <1>5, <2>1, <2>4, StateParts, NoHandlers DEF FinalizeTop, Callers, Operations, Last
    <3> QED
      BY <2>1, <2>2, <3>1, OrderlyRun
  <2> QED
    BY <2>3, <2>4
<1>6. CASE Finalized
  <2>1. /\ ob'.handlers = ob.handlers /\ ob'.running = ob.running /\ ob'.due = None
        /\ ob'.deactivated = ob.deactivated /\ calls = <<>>
        /\ UNCHANGED <<starts, calls, failed, ending>>
    BY <1>6 DEF Finalized, OutputStates, InEndAll
  <2>2. Stacked(ob', starts', ending')
    BY <2>1 DEF Orderly, Stacked, Ordered, Silent
  <2>3. Running' /\ NothingDue' /\ ShutDown'
    BY <2>1 DEF Orderly, Running, NothingDue, ShutDown
  <2> QED
    BY <2>2, <2>3 DEF Orderly
<1> QED
  BY <1>1, <1>2, <1>3, <1>4, <1>5, <1>6 DEF Engine

LEMMA OrderlyNext ==
  ASSUME ~ LateChunks, Sound, Orderly, [Next]_vars
  PROVE  Orderly'
<1>1. CASE UNCHANGED vars
  BY <1>1 DEF vars, Orderly, Running, NothingDue, ShutDown
<1>2. CASE EndAll
  <2>1. /\ UNCHANGED <<starts, calls, ob, mode>> /\ ending' /\ mode = "run" /\ calls = <<>>
        /\ \A i \in DOMAIN ob.handlers : ob.handlers[i].size = 0
    BY <1>2 DEF EndAll, Php
  <2>2. \A i \in 1 .. Len(ob.handlers) : ob.handlers[i].size = 0
    BY <2>1, SoundParts, StateParts
  <2>3. Stacked(ob', starts', ending')
    BY <2>1, <2>2 DEF Orderly, Stacked
  <2>4. Running' /\ NothingDue' /\ ShutDown'
    BY <2>1 DEF Orderly, Running, NothingDue, ShutDown
  <2> QED
    BY <2>3, <2>4 DEF Orderly
<1>3. CASE Terminated
  BY <1>1, <1>3 DEF Terminated
<1> QED
  BY <1>1, <1>2, <1>3, OrderlyProgram, OrderlyEngine, OrderlyHandlerDone DEF Next

-----------------------------------------------------------------------------
(* Every step moves the texts, or writes one                               *)

\* A disabled handler held nothing.
LEMMA DropSilent ==
  ASSUME NEW o \in OutputStates, Silent(o), o.handlers # <<>>, Last(o.handlers).disabled
  PROVE  Moves(o, DropLast(o))
<1> DEFINE p == DropLast(o)
           n == Len(o.handlers) - 1
<1>1. n \in Nat /\ Len(o.handlers) = n + 1 /\ o.handlers[n + 1].disabled
  BY StateParts, NoHandlers DEF Last
<1>2. /\ p \in OutputStates /\ Len(p.handlers) = n /\ p.client = o.client /\ p.dropped = o.dropped
      /\ \A j \in 1 .. n : p.handlers[j] = o.handlers[j]
  BY <1>1, DropLastIs
<1> HIDE DEF p, n
<1>3. o.handlers[n + 1].buf = <<>>
  BY <1>1 DEF Silent
<1>4. Ahead(o, n + 1) = Ahead(o, n)
  <2>1. \A k \in n + 1 .. n + 1 : o.handlers[k].buf = <<>>
    BY <1>1, <1>3
  <2> QED
    BY <1>1, <2>1, AheadSilent
<1>5. Ahead(p, n) = Ahead(o, n)
  BY <1>2, AheadAgrees
<1>6. Contents(o) = Ahead(o, n + 1)
  <2>1. Behind(o, Len(o.handlers)) = <<>> /\ n + 1 \in 0 .. Len(o.handlers)
    BY <1>1, BehindAll
  <2>2. Contents(o) = Ahead(o, n + 1) \o Behind(o, n + 1) /\ Ahead(o, n + 1) \in Seq(Texts)
    BY <2>1, ContentsSplit, BufferSeqs
  <2> QED
    BY <1>1, <2>1, <2>2, ConcatEmptySeq
<1>7. Contents(p) = Ahead(p, n)
  <2>1. Behind(p, Len(p.handlers)) = <<>> /\ n \in 0 .. Len(p.handlers)
    BY <1>1, <1>2, BehindAll
  <2>2. Contents(p) = Ahead(p, n) \o Behind(p, n) /\ Ahead(p, n) \in Seq(Texts)
    BY <1>2, <2>1, ContentsSplit, BufferSeqs
  <2> QED
    BY <1>2, <2>1, <2>2, ConcatEmptySeq
<1>8. Contents(p) = Contents(o)
  BY <1>4, <1>5, <1>6, <1>7
<1> QED
  BY <1>2, <1>8, MovesNothing DEF p

\* The lock error drops all that is held back.
LEMMA LockErrorMoves ==
  ASSUME NEW o \in OutputStates, NEW p \in OutputStates, p.handlers = <<>>,
         p.client = o.client, p.dropped = o.dropped \cup Range(Contents(o))
  PROVE  Moves(o, p)
<1> DEFINE e == <<>>
           k == ProgramTexts(Contents(o))
           h == ProgramTexts(Contents(p))
           m == o.client
<1>1. Contents(o) \in Seq(Texts) /\ k \in Seq(Texts) /\ e \in Seq(Texts) /\ m \in Seq(Texts)
  BY HeldBack, EmptySeq, StateParts
<1>2. h = e
  <2>1. Contents(p) = <<>>
    <3>1. Len(p.handlers) = 0
      OBVIOUS
    <3>2. Contents(p) = Ahead(p, 0) \o Behind(p, 0) /\ Behind(p, 0) = <<>> /\ Ahead(p, 0) = <<>>
      BY <3>1, ContentsSplit, BehindAll, AheadOfNone
    <3>3. <<>> \o <<>> = <<>>
      BY <1>1, ConcatEmptySeq
    <3> QED
      BY <3>2, <3>3
  <2> QED
    BY <2>1, KeepEmpty DEF ProgramTexts
<1>3. Range(k) \ Range(e) \subseteq p.dropped
  BY <1>1, KeepRange DEF ProgramTexts
<1> HIDE DEF e, k, h, m
<1>4. /\ ((e \o e) \o k) \o e = k
      /\ ((m \o e) \o e) \o e = m /\ m \o e = m
  BY <1>1, ConcatEmptySeq DEF e
<1>5. Dropping(o, p, e, e, k, e)
  BY <1>2, <1>3, <1>4 DEF Dropping, k, h, m
<1>6. IsPrefix(o.client, p.client) /\ h \in Seq(Texts)
  BY <1>1, <1>2, PrefixSelf DEF m
<1> QED
  BY <1>1, <1>5, <1>6 DEF Moves, m, h

LEMMA NothingWritten ==
  ASSUME NEW o, NEW n
  PROVE  WriteBelow(o, n, <<>>) = o
BY Zenon DEF WriteBelow

\* A handler the lock error took off the stack hands nothing on.
LEMMA GoneMoves ==
  ASSUME NEW o \in OutputStates, o.handlers = <<>>, NEW call \in Calls, NEW status, status # "success"
  PROVE  Moves(o, Complete(o, call, status))
<1> DEFINE q == Settle(o, call, status)
           p == Complete(o, call, status)
           r == Result(o, call, status)
<1>1. Index(o, call.id) = 0
  BY IndexIs, NoHandlers
<1>2. r = <<>>
  BY <1>1, ResultIs
<1>3. q \in OutputStates /\ Len(q.handlers) = Len(o.handlers) /\ q.client = o.client
  BY SettleIs DEF Emptied
<1>4. Range(r) \subseteq Texts
  BY <1>2, RangeEmpty
<1>5. p = Answer(q, call, r)
  BY DEF Complete
<1> HIDE DEF p, q, r
<1>6. Answer(q, call, r).client = q.client
  <2>1. PassDown(q, call.id, r) = q /\ Write(DropLast(q), r) = DropLast(q)
    BY <1>2, NothingWritten DEF PassDown, Write
  <2>2. Drop(q, Range(r)).client = q.client
    BY <1>3, <1>4, DropIs
  <2>3. DropLast(q) \in OutputStates /\ DropLast(q).client = q.client
    BY <1>3, DropLastIs
  <2>4. Drop(DropLast(q), Range(r)).client = q.client
    BY <1>4, <2>3, DropIs
  <2> QED
    BY <2>1, <2>2, <2>3, <2>4, CallerKinds, Zenon DEF Answer
<1>7. Carried(o, p, Left(o, call.by)) /\ Kept(o, p)
  BY CompleteCarries, CompleteKeeps DEF p
<1>8. p \in OutputStates /\ p.handlers = o.handlers /\ o.dropped \subseteq p.dropped
  BY <1>7 DEF Carried, Kept
<1>9. Contents(p) = Contents(o)
  BY <1>8, SameHandlers
<1>10. p.client = o.client
  BY <1>3, <1>5, <1>6
<1> QED
  BY <1>8, <1>9, <1>10, MovesNothing DEF p

LEMMA RunMoves ==
  ASSUME NEW o \in OutputStates, NEW i \in 1 .. Len(o.handlers), NEW by \in Callers,
         Ordered(o), Silent(o), RunHandler(o, i, by), by \in Operations => i = Len(o.handlers)
  PROVE  Moves(o, ob')
<1> DEFINE call == CallOf(o, i, by)
<1>1. /\ call \in Calls /\ call.id = o.handlers[i].id /\ call.by = by
      /\ call.data = o.handlers[i].buf
  BY RunIs
<1>2. CASE /\ ob' = [o EXCEPT !.running = call.id] /\ ob' \in OutputStates
           /\ calls' = Append(calls, call) /\ mode' = "run"
  <2>1. ob'.handlers = o.handlers /\ ob'.client = o.client /\ ob'.dropped = o.dropped
    BY <1>2 DEF OutputStates
  <2>2. Contents(ob') = Contents(o)
    BY <2>1, SameHandlers
  <2> QED
    BY <1>2, <2>1, <2>2, MovesNothing
<1>3. ASSUME NEW status, ob' = Complete(o, call, status)
      PROVE  Moves(o, ob')
  <2>1. IsPrefix(call.data, o.handlers[i].buf)
    BY <1>1, StateParts, PrefixSelf
  <2>2. call.by \in {"pop", "discard"} => i = Len(o.handlers)
    BY <1>1 DEF Operations
  <2> HIDE DEF call
  <2> QED
    BY <1>1, <1>3, <2>1, <2>2, CompleteMoves
<1> QED
  BY <1>2, <1>3, RunIs

\* A step moves what is held back, or writes the next text.
Moved == written' = written /\ Moves(ob, ob')
WroteText ==
  /\ written' = written + 1 /\ written' \in Texts /\ written' # Diagnostic
  /\ ob' = Write(ob, << written' >>)

LEMMA SameTexts ==
  ASSUME Sound, written' = written, ob' \in OutputStates, ob'.handlers = ob.handlers,
         ob'.client = ob.client, ob'.dropped = ob.dropped
  PROVE  Moved
<1>1. Contents(ob') = Contents(ob) /\ ob \in OutputStates
  BY SameHandlers, SoundParts
<1> QED
  BY <1>1, MovesNothing DEF Moved

LEMMA ProgramTextsMove ==
  ASSUME Sound, Orderly, Program
  PROVE  Moved \/ WroteText
<1> USE SoundParts
<1>1. CASE Echo
  BY <1>1, NewText DEF Echo, WroteText
<1>2. CASE ObStart
  <2>1. PICK user \in BOOLEAN, size \in ChunkSizes, able \in Abilities :
          ob' = [ob EXCEPT !.handlers = Append(@,
                  [id |-> starts + 1, user |-> user, size |-> size, able |-> able,
                   started |-> FALSE, disabled |-> FALSE, produced |-> FALSE,
                   buf |-> <<>>])]
    BY <1>2 DEF ObStart
  <2> DEFINE h == [id |-> starts + 1, user |-> user, size |-> size, able |-> able,
                   started |-> FALSE, disabled |-> FALSE, produced |-> FALSE,
                   buf |-> <<>>]
             l == Len(ob.handlers)
  <2>2. starts + 1 \in Ids
    BY <1>2, NumbersOfTexts DEF ObStart, Ids
  <2>3. h \in Handlers /\ h.buf = <<>>
    BY <2>2, EmptySeq DEF Handlers
  <2>4. ob' = [ob EXCEPT !.handlers = Append(@, h)]
    BY <2>1
  <2> HIDE DEF h
  <2>5. /\ l \in Nat /\ ob.handlers \in Seq(Handlers) /\ Append(ob.handlers, h) \in Seq(Handlers)
        /\ Len(Append(ob.handlers, h)) = l + 1 /\ Append(ob.handlers, h)[l + 1] = h
        /\ \A i \in 1 .. l : Append(ob.handlers, h)[i] = ob.handlers[i]
    BY <2>3, StateParts, AppendProperties
  <2>6. /\ ob' \in OutputStates /\ ob'.handlers = Append(ob.handlers, h)
        /\ ob'.client = ob.client /\ ob'.dropped = ob.dropped
    BY <2>4, <2>5 DEF OutputStates
  <2>7. Len(ob'.handlers) = l + 1 /\ ob'.handlers[l + 1].buf = <<>>
    BY <2>3, <2>5, <2>6
  <2>8. \A i \in 1 .. l : ob'.handlers[i].buf = ob.handlers[i].buf
    BY <2>5, <2>6
  <2>9. Contents(ob') = Contents(ob)
    <3>1. \A k \in l + 1 .. l + 1 : ob'.handlers[k].buf = <<>>
      BY <2>5, <2>7
    <3>2. Ahead(ob', l + 1) = Ahead(ob', l)
      <4>1. l \in Nat /\ l + 1 \in Nat /\ l <= l + 1 /\ l + 1 <= Len(ob'.handlers) /\ ob' \in OutputStates
        BY <2>5, <2>6, <2>7
      <4> HIDE DEF l
      <4> QED
        BY <3>1, <4>1, AheadSilent
    <3>3. Ahead(ob', l) = Ahead(ob, l)
      BY <2>8, AheadAgrees
    <3>4. Contents(ob) = Ahead(ob, l)
      <4>1. Behind(ob, l) = <<>> /\ l \in 0 .. Len(ob.handlers)
        BY <2>5, BehindAll
      <4>2. Contents(ob) = Ahead(ob, l) \o Behind(ob, l) /\ Ahead(ob, l) \in Seq(Texts)
        BY <4>1, ContentsSplit, BufferSeqs
      <4> QED
        BY <4>1, <4>2, ConcatEmptySeq
    <3>5. Contents(ob') = Ahead(ob', l + 1)
      <4>1. Behind(ob', l + 1) = <<>> /\ l + 1 \in 0 .. Len(ob'.handlers)
        BY <2>5, <2>6, <2>7, BehindAll
      <4>2. Contents(ob') = Ahead(ob', l + 1) \o Behind(ob', l + 1) /\ Ahead(ob', l + 1) \in Seq(Texts)
        BY <2>6, <4>1, ContentsSplit, BufferSeqs
      <4> QED
        BY <4>1, <4>2, ConcatEmptySeq
    <3> QED
      BY <3>2, <3>3, <3>4, <3>5
  <2> QED
    BY <1>2, <2>6, <2>9, MovesNothing DEF Moved, ObStart
<1>3. CASE LockError
  <2>1. Range(Contents(ob)) \subseteq Texts
    <3>1. Contents(ob) \in Seq(Texts)
      BY HeldBack
    <3> QED
      BY <3>1, RangeOfSeq
  <2>2. /\ ob' \in OutputStates /\ ob'.handlers = <<>> /\ ob'.client = ob.client
        /\ ob'.dropped = ob.dropped \cup Range(Contents(ob))
    BY <1>3, <2>1, EmptySeq DEF LockError, OutputStates, None
  <2> QED
    BY <1>3, <2>2, LockErrorMoves DEF Moved, LockError
<1>4. CASE Throw \/ Exit \/ Fatal \/ Catch \/ Finally \/ Boundary
  <2>1. written' = written /\ ob' = ob
    BY <1>4 DEF Throw, Exit, Fatal, Catch, Finally, Boundary
  <2> QED
    BY <2>1, SameTexts
<1>5. ASSUME NEW by \in Operations, Operate(by)
      PROVE  Moved
  <2> DEFINE n == Len(ob.handlers)
  <2>1. n \in 1 .. n /\ by \in Callers /\ RunHandler(ob, n, by)
    BY <1>5, StateParts, NoHandlers DEF Operate, Allowed, Callers
  <2>2. Ordered(ob) /\ Silent(ob) /\ written' = written
    BY <1>5 DEF Orderly, Stacked, Operate
  <2> QED
    BY <2>1, <2>2, RunMoves DEF Moved
<1>6. ASSUME NEW by \in Operations, OperateDisabled(by)
      PROVE  Moved
  <2>1. /\ ob.handlers # <<>> /\ Last(ob.handlers).disabled /\ written' = written
        /\ ob' = DropLast(ob) \/ ob' = ob
    BY <1>6 DEF OperateDisabled, Allowed
  <2>2. Silent(ob)
    BY DEF Orderly, Stacked
  <2> QED
    BY <2>1, <2>2, DropSilent, SameTexts DEF Moved
<1> QED
  BY <1>1, <1>2, <1>3, <1>4, <1>5, <1>6 DEF Program

LEMMA HandlerTextsMove ==
  ASSUME ~ LockSurvived, Sound, Orderly, HandlerDone
  PROVE  Moved
<1>1. calls # <<>> /\ written' = written
  BY HandlerEndsIn
<1>2. PICK o, status : /\ Ending(o, status) /\ HandlerEnds(status, o)
                       /\ ob.deactivated => status # "success" \/ LockSurvived
  BY HandlerEndsIn
<1> DEFINE call == calls[1]
<1>3. /\ ob \in OutputStates /\ calls \in Seq(Calls) /\ call \in Calls /\ Last(calls) = call
  BY <1>1, SoundParts, OneCall DEF Orderly
<1>4. /\ Grown(ob, o) /\ o.client = ob.client /\ Held(o) = Held(ob) /\ Stacked(o, starts, ending)
      /\ ~ ob.deactivated => \E i \in 1 .. Len(o.handlers) : RunsAt(o, call, i)
  BY <1>1, <1>2, EndingIs
<1> HIDE DEF call
<1>5. ob' = Complete(o, call, status)
  BY <1>2, <1>3 DEF HandlerEnds
<1>6. /\ o \in OutputStates /\ o.deactivated = ob.deactivated /\ o.dropped = ob.dropped
      /\ Len(o.handlers) = Len(ob.handlers) /\ Ordered(o) /\ Silent(o)
  BY <1>4 DEF Grown, Stacked
<1>7. Moves(o, ob')
  <2>1. CASE ob.deactivated
    <3>1. o.handlers = <<>>
      BY <1>3, <1>6, <2>1, NoHandlers DEF Sound, DeactivatedForGood
    <3> QED
      BY <1>2, <1>3, <1>5, <1>6, <2>1, <3>1, GoneMoves
  <2>2. CASE ~ ob.deactivated
    <3>1. PICK i \in 1 .. Len(o.handlers) : RunsAt(o, call, i)
      BY <1>4, <2>2
    <3>2. /\ o.handlers[i].id = call.id /\ IsPrefix(call.data, o.handlers[i].buf)
          /\ call.by \in {"pop", "discard"} => i = Len(o.handlers)
      BY <3>1 DEF RunsAt, Operations
    <3> QED
      BY <1>3, <1>5, <1>6, <3>2, CompleteMoves
  <2> QED
    BY <2>1, <2>2
<1>8. Moves(ob, ob')
  BY <1>4, <1>6, <1>7, MovesFrom DEF Held
<1> QED
  BY <1>1, <1>8 DEF Moved

LEMMA EngineTextsMove ==
  ASSUME Sound, Orderly, Engine
  PROVE  Moved \/ WroteText
<1> USE SoundParts
<1>1. CASE DrainChunk /\ Due
  <2> DEFINE o == [ob EXCEPT !.due = None]
             i == Index(ob, ob.due)
  <2>1. /\ o \in OutputStates /\ o.handlers = ob.handlers /\ o.client = ob.client
        /\ o.dropped = ob.dropped
    BY DEF OutputStates, None
  <2>2. i \in 1 .. Len(o.handlers) /\ mode \in Callers
    BY <1>1, <2>1, IndexIs DEF DrainChunk, Due, Callers
  <2>3. RunHandler(o, i, mode) /\ written' = written
    BY <1>1 DEF DrainChunk
  <2>4. mode \notin Operations
    BY <1>1 DEF DrainChunk, Drains, Operations
  <2> HIDE DEF o, i
  <2>5. Ordered(o) /\ Silent(o)
    BY <2>1 DEF Orderly, Stacked, Ordered, Silent
  <2>6. Moves(o, ob')
    BY <2>1, <2>2, <2>3, <2>4, <2>5, RunMoves
  <2>7. ProgramTexts(Contents(o)) = ProgramTexts(Contents(ob))
    <3>1. Contents(o) = Contents(ob)
      BY <2>1, SameHandlers
    <3> QED
      BY <3>1
  <2>8. Moves(ob, ob')
    BY <2>1, <2>6, <2>7, MovesFrom
  <2> QED
    BY <2>3, <2>8 DEF Moved
<1>2. CASE DrainChunk /\ ~ Due
  <2>1. /\ ob' \in OutputStates /\ ob'.handlers = ob.handlers /\ ob'.client = ob.client
        /\ ob'.dropped = ob.dropped /\ written' = written
    BY <1>2 DEF DrainChunk, OutputStates, None
  <2> QED
    BY <2>1, SameTexts
<1>3. CASE DrainDone
  BY <1>3, SameTexts DEF DrainDone
<1>4. CASE ScriptUnwound
  <2>1. CASE written' = written + 1 /\ ob' = Write(ob, << written' >>) /\ written <= MaxTexts
    BY <2>1, NewText DEF WroteText
  <2>2. CASE UNCHANGED <<written, ob>>
    BY <2>2, SameTexts
  <2> QED
    BY <1>4, <2>1, <2>2 DEF ScriptUnwound
<1>5. CASE FinalizeTop
  <2> DEFINE n == Len(ob.handlers)
  <2>1. /\ ob.handlers # <<>> /\ written' = written /\ Ordered(ob) /\ Silent(ob)
    BY <1>5 DEF FinalizeTop, Orderly, Stacked
  <2>2. CASE Last(ob.handlers).disabled
    BY <1>5, <2>1, <2>2, DropSilent DEF FinalizeTop, Moved
  <2>3. CASE ~ Last(ob.handlers).disabled
    <3>1. n \in 1 .. n /\ "pop" \in Callers /\ RunHandler(ob, n, "pop")
      BY <1>5, <2>1, <2>3, StateParts, NoHandlers DEF FinalizeTop, Callers, Operations
    <3> QED
      BY <2>1, <3>1, RunMoves DEF Moved
  <2> QED
    BY <2>2, <2>3
<1>6. CASE Finalized
  <2>1. /\ ob' \in OutputStates /\ ob'.handlers = ob.handlers /\ ob'.client = ob.client
        /\ ob'.dropped = ob.dropped /\ written' = written
    BY <1>6 DEF Finalized, OutputStates, None
  <2> QED
    BY <2>1, SameTexts
<1> QED
  BY <1>1, <1>2, <1>3, <1>4, <1>5, <1>6 DEF Engine

LEMMA TextsMove ==
  ASSUME ~ LockSurvived, Sound, Orderly, [Next]_vars
  PROVE  Moved \/ WroteText
<1>1. CASE UNCHANGED vars \/ EndAll \/ Terminated
  <2>1. written' = written /\ ob' = ob
    BY <1>1 DEF vars, EndAll, Terminated
  <2> QED
    BY <2>1, SoundParts, SameTexts
<1> QED
  BY <1>1, ProgramTextsMove, EngineTextsMove, HandlerTextsMove DEF Next

-----------------------------------------------------------------------------
(* Every text is where it should be                                        *)

\* What is held back is what was written, each text once; and every text has
\* gone to the client, is held back, or was dropped.
Faithful ==
  /\ Distinct(Held(ob)) /\ Range(Held(ob)) \subseteq 1 .. written
  /\ 1 .. written \subseteq Accounted(ob)

\* The refinement's operators are those of the module Sublists.
LEMMA StreamPrefix == ASSUME NEW s, NEW t PROVE Stream!IsPrefix(s, t) <=> IsPrefix(s, t)
BY DEF Stream!IsPrefix, IsPrefix

LEMMA StreamLeftOf == ASSUME NEW s, NEW t PROVE Stream!LeftOf(s, t) <=> LeftOf(s, t)
BY DEF Stream!LeftOf, LeftOf, Stream!Keep, Keep, Stream!Range, Range

LEMMA HeldParts ==
  ASSUME Sound
  PROVE  /\ Held(ob) \in Seq(Texts) /\ ob.client \in Seq(Texts) /\ ob.dropped \subseteq Texts
         /\ written \in Nat
BY SoundParts, HeldBack, StateParts DEF Held

LEMMA FaithfulMoved ==
  ASSUME Sound, Faithful, Moved
  PROVE  Faithful' /\ Stream!Next
<1>1. Moves(ob, ob') /\ written' = written
  BY DEF Moved
<1>2. /\ LeftOf(Rest(ob, ob') \o Held(ob'), Held(ob))
      /\ Distinct(Held(ob')) /\ Range(Held(ob')) \subseteq Range(Held(ob))
      /\ Accounted(ob) \subseteq Accounted(ob') /\ IsPrefix(ob.client, ob'.client)
  BY <1>1, MovesLeft, MovesAccounted, MovesRest DEF Faithful
<1>3. Faithful'
  BY <1>1, <1>2 DEF Faithful
<1>4. Stream!Advance(Held(ob))
  BY <1>2, StreamPrefix, StreamLeftOf DEF Stream!Advance, Rest, Held
<1> QED
  BY <1>1, <1>3, <1>4 DEF Stream!Next, Stream!Release, Held

LEMMA LeftOfItself ==
  ASSUME NEW U, NEW s \in Seq(U)
  PROVE  LeftOf(s, s)
BY KeepAll DEF LeftOf

LEMMA FaithfulWritten ==
  ASSUME Sound, Orderly, Faithful, WroteText
  PROVE  Faithful' /\ Stream!Next
<1> DEFINE w == written + 1
           h == Held(ob)
           k == Held(ob')
           r == Rest(ob, ob')
<1>1. /\ ob \in OutputStates /\ Silent(ob) /\ written \in Nat
      /\ w \in Texts /\ w # Diagnostic /\ ob' = Write(ob, << w >>) /\ written' = w
  BY SoundParts DEF Orderly, Stacked, WroteText
<1>2. /\ Grown(ob, ob') /\ r \in Seq(Texts) /\ k \in Seq(Texts) /\ h \in Seq(Texts)
      /\ r \o k = Append(h, w)
  <2> HIDE DEF w
  <2> QED
    BY <1>1, TextWritten
<1>3. /\ ob'.dropped = ob.dropped /\ IsPrefix(ob.client, ob'.client)
      /\ ob.client \in Seq(Texts) /\ ob'.client \in Seq(Texts)
  <2>1. ob' \in OutputStates /\ ob'.dropped = ob.dropped /\ IsPrefix(ob.client, ob'.client)
    BY <1>2 DEF Grown
  <2> QED
    BY <1>1, <2>1, StateParts
<1>4. Range(ob'.client) = Range(ob.client) \cup Range(r)
  BY <1>3, RangeOfRest
<1>5. /\ Distinct(h) /\ Range(h) \subseteq 1 .. written
      /\ 1 .. written \subseteq Range(ob.client) \cup Range(h) \cup ob.dropped
  BY DEF Faithful, Accounted
<1>a. w \notin Range(h) /\ 1 .. w = 1 .. written \cup {w}
  BY <1>1, <1>5
<1>6. /\ Append(h, w) \in Seq(Texts) /\ Range(Append(h, w)) = Range(h) \cup {w}
      /\ Distinct(Append(h, w)) /\ LeftOf(Append(h, w), Append(h, w))
  <2> HIDE DEF w, h
  <2>1. Append(h, w) \in Seq(Texts) /\ Range(Append(h, w)) = Range(h) \cup {w}
    BY <1>1, <1>2, AppendProperties, RangeAppend
  <2>2. << w >> \in Seq(Texts) /\ Distinct(<< w >>) /\ Range(<< w >>) = {w}
    BY <1>1 DEF Distinct, Range
  <2> DEFINE v == << w >>
  <2>3. Append(h, w) = h \o v
    BY <1>1, <1>2, AppendIsConcat
  <2>4. v \in Seq(Texts) /\ Distinct(v) /\ Range(v) = {w}
    BY <2>2
  <2> HIDE DEF v
  <2>5. Distinct(h \o v)
    BY <1>2, <1>5, <1>a, <2>4, DistinctConcat
  <2> QED
    BY <2>1, <2>3, <2>5, LeftOfItself
<1> HIDE DEF w, h, k, r
<1>7. Distinct(r \o k) /\ Range(r \o k) = Range(h) \cup {w}
  BY <1>2, <1>6
<1>8. Distinct(k)
  BY <1>2, <1>7, DistinctConcat
<1>9. Range(r) \cup Range(k) = Range(h) \cup {w}
  <2>1. r \in Seq(Texts) /\ k \in Seq(Texts)
    BY <1>2
  <2>2. Range(r \o k) = Range(r) \cup Range(k)
    BY <2>1, RangeConcat
  <2> QED
    BY <1>7, <2>2
<1>10. Range(k) \subseteq 1 .. w
  BY <1>5, <1>9, <1>a
<1>11. 1 .. w \subseteq Range(ob'.client) \cup Range(k) \cup ob'.dropped
  BY <1>3, <1>4, <1>5, <1>9, <1>a
<1>12. Faithful'
  BY <1>1, <1>8, <1>10, <1>11 DEF Faithful, Accounted, k
<1>13. LeftOf(r \o k, Append(h, w))
  BY <1>2, <1>6
<1>14. Stream!Advance(Append(h, w))
  BY <1>3, <1>13, StreamPrefix, StreamLeftOf DEF Stream!Advance, r, k, Rest, Held
<1> QED
  BY <1>1, <1>12, <1>14 DEF Stream!Next, Stream!Write, Held, h, w

Tidy == Sound /\ Orderly /\ Faithful

LEMMA TidyInit == Init => Tidy /\ Stream!Init
<1> SUFFICES ASSUME Init PROVE Tidy /\ Stream!Init
  OBVIOUS
<1>1. Sound /\ Orderly
  BY SoundInit, OrderlyInit
<1>2. ob.handlers = <<>> /\ ob.client = <<>> /\ written = 0
  BY DEF Init
<1>3. Held(ob) = <<>>
  <2>1. Contents(ob) = FlattenSeq(<<>>)
    BY <1>2 DEF Contents
  <2> QED
    BY <2>1, FlattenEmpty, KeepEmpty DEF Held, ProgramTexts
<1>4. Faithful
  BY <1>2, <1>3 DEF Faithful, Distinct, Range
<1> QED
  BY <1>1, <1>2, <1>3, <1>4 DEF Tidy, Stream!Init, Held

LEMMA TidyNext ==
  ASSUME ~ LateChunks, ~ LockSurvived, Tidy, [Next]_vars
  PROVE  Tidy' /\ Stream!Next
<1>1. Sound' /\ Orderly'
  BY SoundNext, OrderlyNext DEF Tidy
<1>2. Moved \/ WroteText
  BY TextsMove DEF Tidy
<1>3. Faithful' /\ Stream!Next
  BY <1>2, FaithfulMoved, FaithfulWritten DEF Tidy
<1> QED
  BY <1>1, <1>3 DEF Tidy

LEMMA AlwaysOrderly ==
  ASSUME ~ LateChunks
  PROVE  Spec => [](Sound /\ Orderly)
<1>1. Init => Sound /\ Orderly
  BY SoundInit, OrderlyInit
<1>2. Sound /\ Orderly /\ [Next]_vars => (Sound /\ Orderly)'
  BY SoundNext, OrderlyNext
<1> QED
  BY <1>1, <1>2, PTL DEF Spec

LEMMA AlwaysTidy ==
  ASSUME ~ LateChunks, ~ LockSurvived
  PROVE  Spec => []Tidy
<1>1. Init => Tidy
  BY TidyInit
<1>2. Tidy /\ [Next]_vars => Tidy'
  BY TidyNext
<1> QED
  BY <1>1, <1>2, PTL DEF Spec

\* A handler does not run inside itself (OB_LOCKED in handler_op): whatever
\* it does, no second user handler starts before it has come back.
THEOREM OneAtATime ==
  ASSUME ~ LateChunks
  PROVE  Spec => []NotReentered
<1>1. Sound /\ Orderly => NotReentered
  <2> SUFFICES ASSUME Sound, Orderly, NEW j \in DOMAIN calls, NEW k \in DOMAIN calls
               PROVE  j = k
    BY DEF NotReentered
  <2>1. Len(calls) <= 1
    BY Zenon DEF Orderly, Running
  <2>2. DOMAIN calls = 1 .. Len(calls) /\ Len(calls) \in Nat
    BY SoundParts, LenProperties
  <2> QED
    BY <2>1, <2>2
<1> QED
  BY <1>1, AlwaysOrderly, PTL

\* handler_op finds its handler again by its id: what runs is on the stack,
\* or the lock error has taken everything off it.
THEOREM StaysWhileItRuns ==
  ASSUME ~ LateChunks
  PROVE  Spec => []HandlerOutlivesItsRun
<1>1. Sound /\ Orderly => HandlerOutlivesItsRun
  <2> SUFFICES ASSUME Sound, Orderly, NEW k \in DOMAIN calls, ~ ob.deactivated
               PROVE  Index(ob, calls[k].id) # 0
    BY DEF HandlerOutlivesItsRun
  <2>1. calls \in Seq(Calls) /\ ob \in OutputStates /\ Running
    BY SoundParts DEF Orderly
  <2>2. calls # <<>>
    BY <2>1, LenProperties
  <2>3. Len(calls) = 1 /\ k = 1
    BY <2>1, <2>2, OneCall, LenProperties
  <2>4. PICK i \in 1 .. Len(ob.handlers) : RunsAt(ob, calls[1], i)
    BY <2>1, <2>2, Zenon DEF Running
  <2>5. ob.handlers[i].id = calls[1].id
    BY <2>4 DEF RunsAt
  <2> QED
    BY <2>1, <2>3, <2>5, IndexIs
<1> QED
  BY <1>1, AlwaysOrderly, PTL

\* A text is given up only by an operation that says so or by a handler that
\* ends with a fatal error: every text written is with the client, in a
\* buffer or among those dropped (as long as no finally ends the lock error).
THEOREM EveryTextIsSomewhere ==
  ASSUME ~ LateChunks, ~ LockSurvived
  PROVE  Spec => []EveryTextSomewhere
<1>1. Tidy => EveryTextSomewhere
  <2> SUFFICES ASSUME Tidy PROVE EveryTextSomewhere
    OBVIOUS
  <2>1. 1 .. written \subseteq Range(ob.client) \cup Range(Held(ob)) \cup ob.dropped
    BY DEF Tidy, Faithful, Accounted
  <2>2. Range(Held(ob)) \subseteq Range(Contents(ob))
    <3>1. Contents(ob) \in Seq(Texts)
      BY SoundParts, HeldBack DEF Tidy
    <3> QED
      BY <3>1, KeepRange DEF Held, ProgramTexts
  <2> QED
    BY <2>1, <2>2 DEF EveryTextSomewhere
<1> QED
  BY <1>1, AlwaysTidy, PTL

\* The client gets the texts in the order they were written, each at most
\* once, whatever the handlers do and however they fail, unless a finally
\* ends the lock error: the buffers implement OutputStream.
THEOREM BuffersImplementStream ==
  ASSUME ~ LateChunks, ~ LockSurvived
  PROVE  Spec => ImplementsStream
<1>1. Init => Tidy /\ Stream!Init
  BY TidyInit
<1>2. Tidy /\ [Next]_vars => Tidy' /\ [Stream!Next]_(Stream!vars)
  BY TidyNext
<1> QED
  BY <1>1, <1>2, PTL DEF Spec, ImplementsStream, Stream!Spec

=============================================================================
