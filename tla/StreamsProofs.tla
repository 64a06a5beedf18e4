---------------------------- MODULE StreamsProofs ----------------------------
(***************************************************************************)
(* Theorems about Streams, for any number of streams and files, any data   *)
(* and any bounds: the disk follows the streams (Types and Alone), appends *)
(* only add, the mark of the end is told when all has been read, and       *)
(* streams implement the shared files of the module Files.                 *)
(***************************************************************************)
EXTENDS Streams, FiniteSetTheorems, SequenceTheorems, WellFoundedInduction, TLAPS

-----------------------------------------------------------------------------
(* Numbers and sequences *)

LEMMA MinOfTwo ==
  ASSUME NEW a \in Nat, NEW b \in Nat
  PROVE  Min({a, b}) = IF a <= b THEN a ELSE b
BY DEF Min

LEMMA Least ==
  ASSUME NEW S \in SUBSET Nat, S # {}
  PROVE  Min(S) \in S
<1>1. PICK x \in S : \A y \in S : <<y, x>> \notin OpToRel(<, Nat)
  BY NatLessThanWellFounded, WFMin, Zenon
<1>2. \A y \in S : <<y, x>> \notin {p \in Nat \X Nat : p[1] < p[2]}
  BY <1>1, Zenon DEF OpToRel
<1>3. ASSUME NEW y \in S, y < x
      PROVE  FALSE
  <2>1. <<y, x>> \in {p \in Nat \X Nat : p[1] < p[2]}
    BY <1>3
  <2> QED
    BY <2>1, <1>2, Zenon
<1>4. \A y \in S : x <= y
  BY <1>3
<1> QED
  BY <1>4 DEF Min

LEMMA ResizeType ==
  ASSUME NEW s \in Seq(Nat), NEW n \in Nat
  PROVE  Resize(s, n) \in Seq(Nat) /\ Len(Resize(s, n)) = n
BY DEF Resize, Nul

LEMMA DataType ==
  ASSUME NEW d \in Data
  PROVE  d \in Seq(Nat)
<1>1. PICK n \in 0 .. MaxData : d \in [1 .. n -> Characters]
  BY DEF Data
<1>2. n \in Nat
  <2>1. MaxData \in Nat
    BY StreamsAssumption
  <2> QED
    BY <1>1, <2>1
<1>3. \A i \in 1 .. n : d[i] \in Nat
  BY <1>1, StreamsAssumption
<1>4. d \in [1 .. n -> Nat]
  BY <1>1, <1>3
<1> QED
  BY <1>2, <1>4, SeqDef

\* What there is to know of a stream, and of one whose buffer and position
\* have changed.
LEMMA StreamFields ==
  ASSUME NEW s \in Stream
  PROVE  /\ s.buf \in Seq(Nat) /\ Len(s.buf) \in Nat /\ s.pos \in Nat
         /\ s.kind \in {"plain", "memory"} /\ s.path \in Paths \cup {""}
         /\ s.readable \in BOOLEAN /\ s.writable \in BOOLEAN /\ s.append \in BOOLEAN
         /\ s.eof \in BOOLEAN /\ s.dirty \in BOOLEAN /\ s.closed \in BOOLEAN
<1>1. s.buf \in Seq(Nat) /\ s.pos \in Nat
         /\ s.kind \in {"plain", "memory"} /\ s.path \in Paths \cup {""}
         /\ s.readable \in BOOLEAN /\ s.writable \in BOOLEAN /\ s.append \in BOOLEAN
         /\ s.eof \in BOOLEAN /\ s.dirty \in BOOLEAN /\ s.closed \in BOOLEAN
  BY DEF Stream
<1> QED
  BY <1>1, LenProperties

LEMMA StreamChanged ==
  ASSUME NEW s \in Stream, NEW buf \in Seq(Nat), NEW pos \in Nat, NEW dirty \in BOOLEAN
  PROVE  /\ [s EXCEPT !.buf = buf, !.pos = pos, !.dirty = dirty] \in Stream
         /\ [s EXCEPT !.buf = buf, !.dirty = dirty] \in Stream
         /\ [s EXCEPT !.dirty = dirty] \in Stream
BY DEF Stream

\* The streams that are s but for the position and the mark of the end.
Moved(s) ==
  {t \in Stream : /\ t.kind = s.kind /\ t.path = s.path /\ t.buf = s.buf
                  /\ t.closed = s.closed /\ t.dirty = s.dirty
                  /\ t.append = s.append /\ t.writable = s.writable}

LEMMA StreamMoved ==
  ASSUME NEW s \in Stream, NEW pos \in Nat, NEW eof \in BOOLEAN
  PROVE  /\ [s EXCEPT !.eof = eof, !.pos = pos] \in Moved(s)
         /\ [s EXCEPT !.pos = pos, !.eof = eof] \in Moved(s)
         /\ [s EXCEPT !.eof = eof] \in Moved(s)
BY DEF Stream, Moved

LEMMA WriteType ==
  ASSUME NEW s \in Stream, NEW d \in Seq(Nat)
  PROVE  LET t == WriteAtCursor(s, d) IN
         /\ t \in Stream /\ t.dirty
         /\ t.kind = s.kind /\ t.path = s.path /\ t.closed = s.closed
         /\ t.append = s.append /\ t.writable = s.writable
<1> DEFINE at == IF s.append THEN Len(s.buf) ELSE s.pos
           padded == IF at > Len(s.buf) THEN Resize(s.buf, at) ELSE s.buf
           kept == SubSeq(padded, at + Len(d) + 1, Len(padded))
           buf == SubSeq(padded, 1, at) \o d \o kept
<1>0. s.buf \in Seq(Nat) /\ Len(s.buf) \in Nat /\ s.pos \in Nat
  BY StreamFields
<1>1. at \in Nat /\ Len(d) \in Nat /\ s.pos + Len(d) \in Nat
  BY <1>0
<1> HIDE DEF at
<1>2. padded \in Seq(Nat) /\ at <= Len(padded) /\ Len(padded) \in Nat
  <2>1. CASE at > Len(s.buf)
    <3>1. Resize(s.buf, at) \in Seq(Nat) /\ Len(Resize(s.buf, at)) = at
      BY <1>0, <1>1, ResizeType
    <3>2. padded = Resize(s.buf, at)
      BY <2>1
    <3> QED
      BY <1>1, <3>1, <3>2
  <2>2. CASE ~(at > Len(s.buf))
    BY <1>0, <1>1, <2>2
  <2> QED
    BY <2>1, <2>2
<1> HIDE DEF padded
<1>3. SubSeq(padded, 1, at) \in Seq(Nat) /\ kept \in Seq(Nat)
  BY <1>1, <1>2, SubSeqProperties
<1> HIDE DEF kept
<1>4. buf \in Seq(Nat)
  BY <1>3, ConcatProperties
<1>5. WriteAtCursor(s, d) = [s EXCEPT !.buf = buf, !.pos = s.pos + Len(d), !.dirty = TRUE]
  BY DEF WriteAtCursor, at, padded, kept
<1> HIDE DEF buf
<1> QED
  <2> DEFINE t == [s EXCEPT !.buf = buf, !.pos = s.pos + Len(d), !.dirty = TRUE]
  <2>1. t \in Stream
    BY <1>1, <1>4, StreamChanged
  <2>2. /\ t.dirty /\ t.kind = s.kind /\ t.path = s.path /\ t.closed = s.closed
        /\ t.append = s.append /\ t.writable = s.writable
    BY DEF Stream
  <2> HIDE DEF t
  <2> QED
    BY <2>1, <2>2, <1>5 DEF t

LEMMA Fetched ==
  ASSUME NEW s \in Stream, NEW n \in Nat
  PROVE  Fetch(s, n).data \in Seq(Nat) /\ Fetch(s, n).next \in Moved(s)
<1> DEFINE start == Min({s.pos, Len(s.buf)})
           end == Min({start + n, Len(s.buf)})
<1>0. s.buf \in Seq(Nat) /\ Len(s.buf) \in Nat /\ s.pos \in Nat /\ s.eof \in BOOLEAN
  BY StreamFields
<1>1. start \in Nat
  BY <1>0, MinOfTwo
<1> HIDE DEF start
<1>2. end \in Nat /\ end <= Len(s.buf)
  <2>1. start + n \in Nat
    BY <1>1
  <2> QED
    BY <1>0, <2>1, MinOfTwo
<1> HIDE DEF end
<1>3. SubSeq(s.buf, start + 1, end) \in Seq(Nat)
  BY <1>0, <1>1, <1>2, SubSeqProperties
<1> DEFINE pos == IF end > start THEN end ELSE s.pos
           eof == s.eof \/ end - start < n
<1>4. pos \in Nat /\ eof \in BOOLEAN
  BY <1>0, <1>1, <1>2
<1>5. Fetch(s, n) = [data |-> SubSeq(s.buf, start + 1, end),
                     next |-> [s EXCEPT !.eof = eof, !.pos = pos]]
  BY DEF Fetch, start, end
<1> HIDE DEF pos, eof
<1>6. [s EXCEPT !.eof = eof, !.pos = pos] \in Moved(s)
  BY <1>4, StreamMoved
<1> QED
  BY <1>3, <1>5, <1>6

LEMMA LineEndType ==
  ASSUME NEW s \in Stream, NEW cap \in Nat, cap <= Len(s.buf)
  PROVE  LineEnd(s, cap) \in Nat /\ LineEnd(s, cap) <= Len(s.buf)
<1> DEFINE at == {i \in s.pos + 1 .. cap : s.buf[i] = NewLine}
<1>0. s.pos \in Nat /\ Len(s.buf) \in Nat
  BY StreamFields
<1>1. at \in SUBSET Nat /\ \A i \in at : i <= cap
  BY <1>0
<1>2. LineEnd(s, cap) = IF at = {} THEN cap ELSE Min(at)
  BY DEF LineEnd
<1> HIDE DEF at
<1>3. CASE at = {}
  BY <1>0, <1>2, <1>3
<1>4. CASE at # {}
  <2>1. Min(at) \in at
    BY <1>1, <1>4, Least
  <2>2. Min(at) \in Nat /\ Min(at) <= cap
    BY <1>1, <2>1
  <2>3. LineEnd(s, cap) = Min(at)
    BY <1>2, <1>4
  <2> QED
    BY <1>0, <2>2, <2>3
<1> QED
  BY <1>3, <1>4

-----------------------------------------------------------------------------
(* The inductive invariant *)

\* A plain stream names a file, one that appends may be written, and nothing
\* in it waits for the disk.
Clean(s) ==
  ~s.closed /\ s.kind = "plain" => /\ s.path \in Paths /\ ~s.dirty
                                   /\ s.append => s.writable

DiskType(d) == DOMAIN d \subseteq Paths /\ \A p \in DOMAIN d : d[p] \in Seq(Nat)
Answer(g) == Cardinality(g) <= 1 /\ \A answer \in g : answer \in Seq(Nat)

Types ==
  /\ streams \in [Handles -> Stream] /\ \A o \in Handles : Clean(streams[o])
  /\ DiskType(disk)
  /\ Answer(got)

On(s, p) == ~s.closed /\ s.kind = "plain" /\ s.path = p

\* What a plain stream carries is the file, and who may write has the file
\* alone.
Alone ==
  Exclusive =>
    /\ \A o \in Handles, p \in Paths :
         On(streams[o], p) => p \in DOMAIN disk /\ disk[p] = streams[o].buf
    /\ \A o, q \in Handles, p \in Paths :
         On(streams[o], p) /\ On(streams[q], p) /\ o # q => ~streams[o].writable

LEMMA ClosedType == Closed \in Stream /\ Clean(Closed) /\ \A p : ~On(Closed, p)
<1>1. <<>> \in Seq(Nat)
  OBVIOUS
<1> QED
  BY <1>1 DEF Closed, Stream, Clean, On

LEMMA Answers ==
  /\ Answer({})
  /\ \A a \in Seq(Nat) : Answer({a})
<1>1. Cardinality({}) = 0
  BY FS_EmptySet, Zenon
<1>2. \A a \in Seq(Nat) : Cardinality({a}) = 1
  BY FS_Singleton, Zenon
<1> QED
  BY <1>1, <1>2 DEF Answer

LEMMA StoredType ==
  ASSUME NEW p \in Paths, NEW content \in Seq(Nat), DiskType(disk)
  PROVE  /\ DOMAIN Stored(p, content) = DOMAIN disk \cup {p}
         /\ Stored(p, content)[p] = content
         /\ \A q \in DOMAIN disk \ {p} : Stored(p, content)[q] = disk[q]
         /\ DiskType(Stored(p, content))
BY DEF Stored, DiskType

\* What a flush does: a plain stream is clean after it, and what it carries is
\* in the file if anything had changed.
LEMMA FlushStep ==
  ASSUME Types, NEW o \in Handles, IsOpen(o), NEW s \in Stream, Flush(o, s),
         s.kind = streams[o].kind, s.path = streams[o].path,
         s.closed = streams[o].closed, s.append => s.writable
  PROVE  /\ streams' \in [Handles -> Stream] /\ \A q \in Handles : Clean(streams'[q])
         /\ DiskType(disk')
         /\ streams'[o].buf = s.buf
         /\ s.kind = "plain" /\ s.dirty => disk' = Stored(s.path, s.buf)
         /\ s.kind # "plain" \/ ~s.dirty => disk' = disk
<1> DEFINE due == s.kind = "plain" /\ s.dirty
           t == [s EXCEPT !.dirty = s.dirty /\ ~due]
<1>0. s.kind \in {"plain", "memory"} /\ s.dirty \in BOOLEAN /\ s.buf \in Seq(Nat)
  BY StreamFields
<1>1. streams' = [streams EXCEPT ![o] = t]
  BY DEF Flush
<1>2. disk' = IF due THEN Stored(s.path, s.buf) ELSE disk
  BY DEF Flush
<1>3. t \in Stream
  <2>1. (s.dirty /\ ~due) \in BOOLEAN
    BY <1>0
  <2> HIDE DEF due
  <2> QED
    BY <2>1, <1>0, StreamChanged
<1>4. Clean(t) /\ t.buf = s.buf
  BY <1>0 DEF Types, Clean, Stream, IsOpen
<1>5. DiskType(disk')
  <2>1. due => s.path \in Paths
    BY DEF Types, Clean, IsOpen
  <2>2. due => DiskType(Stored(s.path, s.buf))
    BY <1>0, <2>1, StoredType DEF Types
  <2> QED
    BY <1>2, <2>2 DEF Types
<1> QED
  BY <1>1, <1>2, <1>3, <1>4, <1>5 DEF Types

-----------------------------------------------------------------------------
(* Every operation preserves it *)

\* The buffers and the disk, and who uses them, are as they were.
LEMMA Quiet ==
  ASSUME Types, Alone, NEW o \in Handles, IsOpen(o), NEW s \in Stream,
         streams' = [streams EXCEPT ![o] = s], disk' = disk, Answer(got'),
         s.kind = streams[o].kind, s.path = streams[o].path, s.buf = streams[o].buf,
         s.closed = streams[o].closed, s.dirty = streams[o].dirty,
         s.append = streams[o].append, s.writable = streams[o].writable
  PROVE  Types' /\ Alone'
<1>1. \A p : On(s, p) <=> On(streams[o], p)
  BY DEF On
<1>2. Clean(s)
  BY DEF Types, Clean
<1>3. Types'
  BY <1>2 DEF Types
<1>4. Alone'
  BY <1>1 DEF Types, Alone
<1> QED
  BY <1>3, <1>4


\* A stream whose content changed has its file alone, and the disk follows it.
LEMMA Changed ==
  ASSUME Types, Alone, NEW o \in Handles, IsOpen(o), NEW s \in Stream, Flush(o, s),
         Answer(got'), s.kind = streams[o].kind, s.path = streams[o].path,
         s.closed = streams[o].closed, s.append = streams[o].append,
         s.writable = streams[o].writable, s.writable, s.dirty
  PROVE  Types' /\ Alone'
<1>0. /\ s.append => s.writable
      /\ s.kind = "plain" => s.path \in Paths
      /\ s.buf \in Seq(Nat)
  BY StreamFields DEF Types, Clean, IsOpen
<1>1. /\ streams' \in [Handles -> Stream] /\ \A q \in Handles : Clean(streams'[q])
      /\ DiskType(disk')
      /\ streams'[o].buf = s.buf
      /\ s.kind = "plain" => disk' = Stored(s.path, s.buf)
      /\ s.kind # "plain" => disk' = disk
  BY <1>0, FlushStep
<1>2. \A q \in Handles : /\ q # o => streams'[q] = streams[q]
                         /\ streams'[q].writable = streams[q].writable
                         /\ \A p : On(streams'[q], p) <=> On(streams[q], p)
  BY DEF Flush, On, Types, Stream
<1>3. ASSUME Exclusive, NEW q \in Handles, NEW p \in Paths, On(streams'[q], p)
      PROVE  p \in DOMAIN disk' /\ disk'[p] = streams'[q].buf
  <2>1. On(streams[q], p) /\ p \in DOMAIN disk /\ disk[p] = streams[q].buf
    BY <1>2, <1>3 DEF Alone
  <2>2. CASE s.kind # "plain"
    <3>1. q # o
      BY <2>1, <2>2 DEF On
    <3> QED
      BY <1>1, <1>2, <2>1, <2>2, <3>1
  <2>3. CASE s.kind = "plain"
    <3>1. /\ DOMAIN disk' = DOMAIN disk \cup {s.path}
          /\ disk'[s.path] = s.buf
          /\ \A r \in DOMAIN disk \ {s.path} : disk'[r] = disk[r]
      <4>1. s.path \in Paths /\ s.buf \in Seq(Nat) /\ DiskType(disk)
        BY <1>0, <2>3 DEF Types
      <4>2. /\ DOMAIN Stored(s.path, s.buf) = DOMAIN disk \cup {s.path}
            /\ Stored(s.path, s.buf)[s.path] = s.buf
            /\ \A r \in DOMAIN disk \ {s.path} : Stored(s.path, s.buf)[r] = disk[r]
        BY <4>1, StoredType
      <4> QED
        BY <1>1, <2>3, <4>2
    <3>2. On(streams[o], s.path)
      BY <2>3 DEF On, IsOpen
    <3>3. q # o => p # s.path
      <4>1. s.path \in Paths /\ streams[o].writable
        BY <1>0, <2>3
      <4>2. On(streams[q], s.path) /\ q # o => ~streams[o].writable
        BY <1>3, <3>2, <4>1 DEF Alone
      <4> QED
        BY <2>1, <4>1, <4>2
    <3>4. q = o => p = s.path
      BY <2>1 DEF On
    <3>5. CASE q = o
      BY <1>1, <3>1, <3>4, <3>5
    <3>6. CASE q # o
      BY <1>2, <2>1, <3>1, <3>3, <3>6
    <3> QED
      BY <3>5, <3>6
  <2> QED
    BY <2>2, <2>3
<1>4. Types'
  BY <1>1 DEF Types
<1>5. Alone'
  BY <1>2, <1>3 DEF Alone
<1> QED
  BY <1>4, <1>5

LEMMA Delivered ==
  ASSUME Types, Alone, NEW o \in Handles, NEW answer, Answer(answer),
         NEW next \in Moved(streams[o]), Deliver(o, answer, next)
  PROVE  Types' /\ Alone'
<1>1. CASE streams[o].readable
  <2>1. streams[o] \in Stream
    BY DEF Types
  <2>2. /\ IsOpen(o) /\ disk' = disk /\ got' = answer
        /\ streams' = [streams EXCEPT ![o] = next]
    BY <1>1 DEF Deliver
  <2>3. Answer(got')
    BY <2>2
  <2> QED
    BY <2>1, <2>2, <2>3, Quiet DEF Moved
<1>2. CASE ~streams[o].readable
  <2>1. got' = {} /\ streams' = streams /\ disk' = disk
    BY <1>2 DEF Deliver
  <2> QED
    BY <2>1, Answers DEF Types, Alone
<1> QED
  BY <1>1, <1>2

LEMMA Reads ==
  ASSUME Types, Alone, NEW o \in Handles, NEW n \in Nat, FRead(o, n)
  PROVE  Types' /\ Alone'
<1>1. streams[o] \in Stream
  BY DEF Types
<1>2. /\ Fetch(streams[o], n).data \in Seq(Nat)
      /\ Fetch(streams[o], n).next \in Moved(streams[o])
  BY <1>1, Fetched
<1>3. Answer({Fetch(streams[o], n).data})
  BY <1>2, Answers
<1> QED
  BY <1>2, <1>3, Delivered DEF FRead

LEMMA GetsLine ==
  ASSUME Types, Alone, NEW o \in Handles, NEW n \in Nat, FGets(o, n)
  PROVE  Types' /\ Alone'
<1> DEFINE s == streams[o]
           cap == Min({s.pos + n, Len(s.buf)})
           end == LineEnd(s, cap)
           short == end = Len(s.buf) /\ end < s.pos + n /\ s.buf[end] # NewLine
<1>0. /\ s \in Stream /\ s.buf \in Seq(Nat) /\ s.pos \in Nat /\ Len(s.buf) \in Nat
      /\ s.eof \in BOOLEAN
  BY StreamFields DEF Types
<1> HIDE DEF s
<1>1. cap \in Nat /\ cap <= Len(s.buf)
  <2>1. s.pos + n \in Nat
    BY <1>0
  <2>2. cap = IF s.pos + n <= Len(s.buf) THEN s.pos + n ELSE Len(s.buf)
    BY <1>0, <2>1, MinOfTwo, Zenon
  <2> QED
    BY <1>0, <2>1, <2>2
<1>2. end \in Nat /\ end <= Len(s.buf)
  BY <1>0, <1>1, LineEndType
<1> HIDE DEF cap
<1>3. CASE s.pos >= Len(s.buf)
  <2>1. [s EXCEPT !.eof = TRUE] \in Moved(s)
    BY <1>0, StreamMoved
  <2>2. Deliver(o, {}, [s EXCEPT !.eof = TRUE])
    BY <1>3 DEF FGets, s
  <2> QED
    BY <2>1, <2>2, Answers, Delivered DEF s
<1>4. CASE ~(s.pos >= Len(s.buf))
  <2> DEFINE line == SubSeq(s.buf, s.pos + 1, end)
             next == [s EXCEPT !.pos = end, !.eof = @ \/ short]
  <2>1. line \in Seq(Nat)
    BY <1>0, <1>2, SubSeqProperties
  <2>2. next \in Moved(s)
    <3>1. (s.eof \/ short) \in BOOLEAN
      BY <1>0
    <3>2. next = [s EXCEPT !.pos = end, !.eof = s.eof \/ short]
      OBVIOUS
    <3> HIDE DEF short, end, next
    <3> QED
      BY <1>0, <1>2, <3>1, <3>2, StreamMoved
  <2>3. Deliver(o, {line}, next)
    BY <1>4 DEF FGets, s, cap
  <2>4. Answer({line})
    BY <2>1, Answers
  <2> HIDE DEF line, next
  <2> QED
    BY <2>2, <2>3, <2>4, Delivered DEF s
<1> QED
  BY <1>3, <1>4

LEMMA Seeks ==
  ASSUME Types, Alone, NEW o \in Handles, NEW pos \in Nat, FSeek(o, pos)
  PROVE  Types' /\ Alone'
<1> DEFINE t == [streams[o] EXCEPT !.pos = pos, !.eof = FALSE]
<1>1. streams[o] \in Stream
  BY DEF Types
<1>2. t \in Moved(streams[o])
  BY <1>1, StreamMoved
<1>3. /\ IsOpen(o) /\ disk' = disk /\ got' = {}
      /\ streams' = [streams EXCEPT ![o] = t]
  BY DEF FSeek
<1>4. Answer(got')
  BY <1>3, Answers
<1> HIDE DEF t
<1> QED
  BY <1>1, <1>2, <1>3, <1>4, Quiet DEF Moved

LEMMA FlushesNothing ==
  ASSUME Types, Alone, NEW o \in Handles, IsOpen(o), Flush(o, streams[o]), Answer(got')
  PROVE  Types' /\ Alone'
<1> DEFINE s == streams[o]
           due == s.kind = "plain" /\ s.dirty
           t == [s EXCEPT !.dirty = s.dirty /\ ~due]
<1>1. s \in Stream /\ s.dirty \in BOOLEAN /\ ~due
  BY StreamFields DEF Types, Clean, IsOpen
<1>2. streams' = [streams EXCEPT ![o] = t] /\ disk' = disk
  BY <1>1 DEF Flush
<1>3. (s.dirty /\ ~due) \in BOOLEAN /\ (s.dirty /\ ~due) = s.dirty
  BY <1>1
<1>4. t \in Stream
  <2> HIDE DEF due
  <2> QED
    BY <1>1, <1>3, StreamFields, StreamChanged
<1>5. /\ t.kind = s.kind /\ t.path = s.path /\ t.buf = s.buf /\ t.closed = s.closed
      /\ t.dirty = s.dirty /\ t.append = s.append /\ t.writable = s.writable
  BY <1>1, <1>3 DEF Stream
<1> HIDE DEF t
<1> QED
  BY <1>2, <1>4, <1>5, Quiet

LEMMA Writes ==
  ASSUME Types, Alone, NEW o \in Handles, NEW d \in Data, FWrite(o, d)
  PROVE  Types' /\ Alone'
<1>0. IsOpen(o) /\ got' = {} /\ streams[o] \in Stream
  BY DEF FWrite, Types
<1>1. Answer(got')
  BY <1>0, Answers
<1>2. CASE streams[o].writable
  <2> DEFINE s == WriteAtCursor(streams[o], d)
  <2>1. /\ s \in Stream /\ s.dirty
        /\ s.kind = streams[o].kind /\ s.path = streams[o].path
        /\ s.closed = streams[o].closed /\ s.append = streams[o].append
        /\ s.writable = streams[o].writable
    BY <1>0, DataType, WriteType
  <2>2. Flush(o, s)
    BY <1>2 DEF FWrite
  <2> HIDE DEF s
  <2> QED
    BY <1>0, <1>1, <1>2, <2>1, <2>2, Changed
<1>3. CASE ~streams[o].writable
  <2>1. streams' = streams /\ disk' = disk
    BY <1>3 DEF FWrite
  <2> QED
    BY <1>1, <2>1 DEF Types, Alone
<1> QED
  BY <1>2, <1>3

LEMMA Truncates ==
  ASSUME Types, Alone, NEW o \in Handles, NEW n \in Nat, FTruncate(o, n)
  PROVE  Types' /\ Alone'
<1>0. IsOpen(o) /\ got' = {} /\ streams[o] \in Stream /\ streams[o].buf \in Seq(Nat)
  BY StreamFields DEF FTruncate, Types
<1>1. Answer(got')
  BY <1>0, Answers
<1>2. CASE streams[o].writable
  <2> DEFINE buf == Resize(streams[o].buf, n)
             s == [streams[o] EXCEPT !.buf = buf, !.dirty = TRUE]
  <2>1. buf \in Seq(Nat)
    BY <1>0, ResizeType
  <2>2. Flush(o, s)
    BY <1>2 DEF FTruncate
  <2> HIDE DEF buf
  <2>3. s \in Stream
    BY <1>0, <2>1, StreamChanged
  <2>4. /\ s.dirty
        /\ s.kind = streams[o].kind /\ s.path = streams[o].path
        /\ s.closed = streams[o].closed /\ s.append = streams[o].append
        /\ s.writable = streams[o].writable
    BY <1>0 DEF Stream
  <2> HIDE DEF s
  <2> QED
    BY <1>0, <1>1, <1>2, <2>2, <2>3, <2>4, Changed
<1>3. CASE ~streams[o].writable
  <2>1. Flush(o, streams[o])
    BY <1>3 DEF FTruncate
  <2> QED
    BY <1>0, <1>1, <2>1, FlushesNothing
<1> QED
  BY <1>2, <1>3

LEMMA Closes ==
  ASSUME Types, Alone, NEW o \in Handles, FClose(o)
  PROVE  Types' /\ Alone'
<1>1. /\ streams' = [streams EXCEPT ![o] = Closed] /\ disk' = disk /\ got' = {}
  BY DEF FClose, Types, Clean, IsOpen
<1>2. Types'
  BY <1>1, ClosedType, Answers DEF Types
<1>3. \A q \in Handles, p \in Paths : On(streams'[q], p) => q # o /\ streams'[q] = streams[q]
  BY <1>1, ClosedType DEF Types
<1>4. Alone'
  BY <1>1, <1>3 DEF Alone
<1> QED
  BY <1>2, <1>4

\* Nobody has the file p open, and it gets what it likes: the others are as
\* they were.
LEMMA FreeFile ==
  ASSUME Types, Alone, NEW p \in Paths, Free(p), streams' = streams,
         DiskType(disk'), Answer(got'),
         \A q \in DOMAIN disk \ {p} : q \in DOMAIN disk' /\ disk'[q] = disk[q]
  PROVE  Types' /\ Alone'
<1>1. Types'
  BY DEF Types
<1>2. ASSUME Exclusive, NEW o \in Handles, NEW q \in Paths, On(streams[o], q)
      PROVE  q # p
  <2>1. o \notin Users(p)
    BY <1>2 DEF Free
  <2> QED
    BY <1>2, <2>1 DEF Users, IsOpen, On
<1>3. Alone'
  BY <1>2 DEF Alone
<1> QED
  BY <1>1, <1>3

LEMMA Puts ==
  ASSUME Types, Alone, NEW p \in Paths, NEW d \in Data, NEW append \in BOOLEAN,
         FilePutContents(p, d, append)
  PROVE  Types' /\ Alone'
<1> DEFINE content == IF append /\ OnDisk(p) THEN disk[p] \o d ELSE d
<1>1. content \in Seq(Nat)
  <2>1. d \in Seq(Nat)
    BY DataType
  <2>2. OnDisk(p) => disk[p] \in Seq(Nat)
    BY DEF OnDisk, Types, DiskType
  <2> QED
    BY <2>1, <2>2, ConcatProperties
<1>2. Free(p) /\ disk' = Stored(p, content) /\ got' = {} /\ streams' = streams
  BY DEF FilePutContents
<1> HIDE DEF content
<1>3. /\ DiskType(disk')
      /\ \A q \in DOMAIN disk \ {p} : q \in DOMAIN disk' /\ disk'[q] = disk[q]
  BY <1>1, <1>2, StoredType DEF Types
<1>4. Answer(got')
  BY <1>2, Answers
<1> QED
  BY <1>2, <1>3, <1>4, FreeFile

LEMMA Unlinks ==
  ASSUME Types, Alone, NEW p \in Paths, Unlink(p)
  PROVE  Types' /\ Alone'
<1>1. /\ Free(p) /\ got' = {} /\ streams' = streams
      /\ disk' = [q \in DOMAIN disk \ {p} |-> disk[q]]
  BY DEF Unlink
<1>2. /\ DiskType(disk')
      /\ \A q \in DOMAIN disk \ {p} : q \in DOMAIN disk' /\ disk'[q] = disk[q]
  BY <1>1 DEF Types, DiskType
<1>3. Answer(got')
  BY <1>1, Answers
<1> QED
  BY <1>1, <1>2, <1>3, FreeFile

LEMMA OpensMemory ==
  ASSUME Types, Alone, NEW o \in Handles, NEW mode \in Modes, NEW plus \in BOOLEAN,
         OpenMemory(o, mode, plus)
  PROVE  Types' /\ Alone'
<1> DEFINE s == [Closed EXCEPT !.closed = FALSE, !.readable = TRUE,
                   !.writable = mode # "r" \/ plus, !.append = mode = "a"]
<1>1. streams' = [streams EXCEPT ![o] = s] /\ disk' = disk /\ got' = {}
  BY DEF OpenMemory
<1>2. s \in Stream /\ Clean(s) /\ \A p : ~On(s, p)
  BY ClosedType DEF Closed, Stream, Clean, On
<1> HIDE DEF s
<1>3. Types'
  BY <1>1, <1>2, Answers DEF Types
<1>4. \A q \in Handles, p \in Paths : On(streams'[q], p) => q # o /\ streams'[q] = streams[q]
  BY <1>1, <1>2 DEF Types
<1>5. Alone'
  BY <1>1, <1>4 DEF Alone
<1> QED
  BY <1>3, <1>5

LEMMA Opens ==
  ASSUME Types, Alone, NEW o \in Handles, NEW p \in Paths, NEW mode \in Modes,
         NEW plus \in BOOLEAN, FOpen(o, p, mode, plus)
  PROVE  Types' /\ Alone'
<1> DEFINE buf == IF mode # "w" /\ OnDisk(p) THEN disk[p] ELSE <<>>
           s == [Closed EXCEPT !.kind = "plain", !.path = p, !.closed = FALSE,
                   !.readable = mode = "r" \/ plus, !.writable = mode # "r" \/ plus,
                   !.append = mode = "a", !.buf = buf]
           new == mode = "w" \/ ~OnDisk(p)
<1>1. /\ streams' = [streams EXCEPT ![o] = s] /\ got' = {}
      /\ disk' = IF new THEN Stored(p, <<>>) ELSE disk
      /\ IF mode = "r" /\ ~plus THEN Readable(p) ELSE Free(p)
      /\ CanOpen(p, mode)
  BY DEF FOpen
<1>2. buf \in Seq(Nat)
  BY DEF OnDisk, Types, DiskType
<1>3. /\ DiskType(disk') /\ p \in DOMAIN disk' /\ disk'[p] = buf
      /\ \A q \in DOMAIN disk \ {p} : q \in DOMAIN disk' /\ disk'[q] = disk[q]
      /\ ~new => disk' = disk
  <2>1. CASE new
    <3>1. buf = <<>> /\ <<>> \in Seq(Nat)
      BY <2>1
    <3> QED
      BY <1>1, <2>1, <3>1, StoredType DEF Types
  <2>2. CASE ~new
    BY <1>1, <2>2 DEF Types, OnDisk
  <2> QED
    BY <2>1, <2>2
<1>4. mode = "r" => ~new
  BY <1>1 DEF CanOpen
<1> HIDE DEF buf, new
<1>5. /\ s \in Stream /\ Clean(s) /\ s.buf = buf /\ s.writable = (mode # "r" \/ plus)
      /\ \A q : On(s, q) <=> q = p
  <2>1. Closed \in Stream
    BY ClosedType
  <2> QED
    BY <1>2, <2>1 DEF Closed, Stream, Clean, On, Modes
<1> HIDE DEF s
<1>6. Types'
  BY <1>1, <1>3, <1>5, Answers DEF Types
<1>7. /\ streams'[o] = s
      /\ \A q \in Handles \ {o} : streams'[q] = streams[q]
  BY <1>1 DEF Types
<1>8. ASSUME Exclusive, NEW q \in Handles \ {o}, On(streams[q], p)
      PROVE  mode = "r" /\ ~plus /\ ~streams[q].writable
  <2>1. q \in Users(p)
    BY <1>8 DEF Users, On, IsOpen
  <2> QED
    BY <1>1, <1>8, <2>1 DEF Free, Readable
<1>9. ASSUME Exclusive, NEW q \in Handles, NEW r \in Paths, On(streams'[q], r)
      PROVE  r \in DOMAIN disk' /\ disk'[r] = streams'[q].buf
  <2>1. CASE q = o
    BY <1>3, <1>5, <1>7, <1>9, <2>1
  <2>2. CASE q # o
    <3>1. On(streams[q], r) /\ r \in DOMAIN disk /\ disk[r] = streams[q].buf
      BY <1>7, <1>9, <2>2 DEF Alone
    <3>2. CASE r = p
      BY <1>3, <1>4, <1>7, <1>8, <1>9, <2>2, <3>1, <3>2
    <3>3. CASE r # p
      BY <1>3, <1>7, <2>2, <3>1, <3>3
    <3> QED
      BY <3>2, <3>3
  <2> QED
    BY <2>1, <2>2
<1>10. ASSUME Exclusive, NEW q \in Handles, NEW q2 \in Handles, NEW r \in Paths,
              On(streams'[q], r), On(streams'[q2], r), q # q2
       PROVE  ~streams'[q].writable
  <2>1. CASE q = o
    <3>1. r = p /\ q2 # o /\ On(streams[q2], p)
      BY <1>5, <1>7, <1>10, <2>1
    <3> QED
      BY <1>5, <1>7, <1>8, <1>10, <2>1, <3>1
  <2>2. CASE q2 = o
    <3>1. r = p /\ q # o /\ On(streams[q], p)
      BY <1>5, <1>7, <1>10, <2>2
    <3> QED
      BY <1>7, <1>8, <1>10, <2>2, <3>1
  <2>3. CASE q # o /\ q2 # o
    BY <1>7, <1>10, <2>3 DEF Alone
  <2> QED
    BY <2>1, <2>2, <2>3
<1>11. Alone'
  BY <1>9, <1>10 DEF Alone
<1> QED
  BY <1>6, <1>11

-----------------------------------------------------------------------------
(* The theorems *)

LEMMA Start == Init => Types /\ Alone
<1> SUFFICES ASSUME Init PROVE Types /\ Alone
  OBVIOUS
<1>1. streams = [o \in Handles |-> Closed] /\ got = {}
  BY DEF Init
<1>2. DiskType(disk)
  <2>1. PICK ps \in SUBSET Paths : disk \in [ps -> {<<>>} \cup Data]
    BY DEF Init
  <2>2. \A x \in {<<>>} \cup Data : x \in Seq(Nat)
    <3>1. <<>> \in Seq(Nat)
      OBVIOUS
    <3> QED
      BY <3>1, DataType
  <2> QED
    BY <2>1, <2>2 DEF DiskType
<1>3. Types
  BY <1>1, <1>2, ClosedType, Answers DEF Types
<1>4. Alone
  BY <1>1, ClosedType DEF Alone
<1> QED
  BY <1>3, <1>4

LEMMA Step == Types /\ Alone /\ [Next]_vars => Types' /\ Alone'
<1> SUFFICES ASSUME Types, Alone, [Next]_vars PROVE Types' /\ Alone'
  OBVIOUS
<1>0. MaxLen \in Nat
  BY StreamsAssumption
<1>1. ASSUME NEW o \in Handles, OnStream(o)
      PROVE  Types' /\ Alone'
  <2>1. CASE \E p \in Paths, mode \in Modes, plus \in BOOLEAN : FOpen(o, p, mode, plus)
    BY <2>1, Opens
  <2>2. CASE \E p \in Paths, mode \in Modes : FOpenFails(o, p, mode)
    <3>1. got' = {} /\ streams' = streams /\ disk' = disk
      BY <2>2 DEF FOpenFails
    <3> QED
      BY <3>1, Answers DEF Types, Alone
  <2>3. CASE \E mode \in Modes, plus \in BOOLEAN : OpenMemory(o, mode, plus)
    BY <2>3, OpensMemory
  <2>4. CASE \E n \in 1 .. MaxLen + 1 : FRead(o, n)
    BY <1>0, <2>4, Reads
  <2>5. CASE \E n \in 0 .. MaxLen + 1 : FGets(o, n)
    BY <1>0, <2>5, GetsLine
  <2>6. CASE \E d \in Data : FWrite(o, d)
    BY <2>6, Writes
  <2>7. CASE \E n \in Sizes : FSeek(o, n) \/ FTruncate(o, n)
    <3>1. PICK n \in Sizes : FSeek(o, n) \/ FTruncate(o, n)
      BY <2>7
    <3>2. n \in Nat
      BY <1>0, <3>1 DEF Sizes
    <3> QED
      BY <3>1, <3>2, Seeks, Truncates
  <2>8. CASE FStat(o)
    <3>1. /\ got' = {<<Len(streams[o].buf)>>} /\ streams' = streams /\ disk' = disk
      BY <2>8 DEF FStat
    <3>2. <<Len(streams[o].buf)>> \in Seq(Nat)
      <4>1. Len(streams[o].buf) \in Nat
        BY StreamFields DEF Types
      <4> QED
        BY <4>1
    <3> QED
      BY <3>1, <3>2, Answers DEF Types, Alone
  <2>9. CASE FFlush(o)
    <3>1. IsOpen(o) /\ got' = {} /\ Flush(o, streams[o])
      BY <2>9 DEF FFlush
    <3>2. Answer(got')
      BY <3>1, Answers
    <3> QED
      BY <3>1, <3>2, FlushesNothing
  <2>10. CASE FClose(o)
    BY <2>10, Closes
  <2> QED
    BY <1>1, <2>1, <2>2, <2>3, <2>4, <2>5, <2>6, <2>7, <2>8, <2>9, <2>10 DEF OnStream
<1>2. ASSUME NEW p \in Paths, NEW d \in Data, NEW append \in BOOLEAN,
             FilePutContents(p, d, append)
      PROVE  Types' /\ Alone'
  BY <1>2, Puts
<1>3. ASSUME NEW p \in Paths, Unlink(p)
      PROVE  Types' /\ Alone'
  BY <1>3, Unlinks
<1>4. CASE UNCHANGED vars
  BY <1>4 DEF vars, Types, Alone
<1> QED
  BY <1>1, <1>2, <1>3, <1>4 DEF Next

LEMMA Inductive == Spec => [](Types /\ Alone)
BY Start, Step, PTL DEF Spec

\* Every state is of the shape TypeOK gives it: a handle holds a whole stream,
\* a file bytes, and a call answers with bytes or with nothing.
THEOREM TypeCorrect == Spec => []TypeOK
<1>1. Types => TypeOK
  BY DEF Types, TypeOK, DiskType, Answer
<1> QED
  BY <1>1, Inductive, PTL

\* "Every write is flushed to disk immediately" (fileres.rs): with one writer
\* or several readers to a path, the file is what its streams carry, whatever
\* was opened, written, truncated, closed, replaced or removed before.
THEOREM DiskFollowsStreams == Spec => []DiskIsBuffer
<1>1. Types /\ Alone => DiskIsBuffer
  BY DEF Types, Alone, DiskIsBuffer, Clean, On, IsOpen, OnDisk
<1> QED
  BY <1>1, Inductive, PTL

LEMMA AppendStep ==
  ASSUME Types, Alone, Exclusive, NEW o \in Handles, NEW d \in Data, FWrite(o, d),
         streams[o].kind = "plain", streams[o].append
  PROVE  disk'[streams[o].path] = disk[streams[o].path] \o d
<1> DEFINE s == streams[o]
           t == WriteAtCursor(s, d)
<1>0. /\ s \in Stream /\ s.buf \in Seq(Nat) /\ Len(s.buf) \in Nat
      /\ IsOpen(o) /\ s.path \in Paths /\ s.writable
  BY StreamFields DEF Types, Clean, FWrite, IsOpen
<1>1. d \in Seq(Nat)
  BY DataType
<1>2. On(s, s.path)
  BY <1>0 DEF On, IsOpen
<1>3. disk[s.path] = s.buf
  BY <1>0, <1>2 DEF Alone
<1>4. /\ t \in Stream /\ t.dirty /\ t.kind = "plain" /\ t.path = s.path
  BY <1>0, <1>1, WriteType
<1>5. t.buf = s.buf \o d
  <2> DEFINE kept == SubSeq(s.buf, Len(s.buf) + Len(d) + 1, Len(s.buf))
  <2>1. t.buf = SubSeq(s.buf, 1, Len(s.buf)) \o d \o kept
    <3> DEFINE at == IF s.append THEN Len(s.buf) ELSE s.pos
               padded == IF at > Len(s.buf) THEN Resize(s.buf, at) ELSE s.buf
               buf == SubSeq(padded, 1, at) \o d \o SubSeq(padded, at + Len(d) + 1, Len(padded))
    <3>1. t = [s EXCEPT !.buf = buf, !.pos = s.pos + Len(d), !.dirty = TRUE]
      BY DEF WriteAtCursor
    <3>2. at = Len(s.buf)
      OBVIOUS
    <3> HIDE DEF at
    <3>3. padded = s.buf
      BY <1>0, <3>2
    <3> HIDE DEF padded
    <3>4. buf = SubSeq(s.buf, 1, Len(s.buf)) \o d \o kept
      BY <3>2, <3>3
    <3> HIDE DEF buf, t
    <3>5. t.buf = buf
      BY <1>0, <3>1 DEF Stream
    <3> QED
      BY <3>4, <3>5
  <2>2. SubSeq(s.buf, 1, Len(s.buf)) = s.buf
    BY <1>0
  <2>3. kept = <<>>
    BY <1>0, <1>1
  <2>4. s.buf \o d \in Seq(Nat)
    BY <1>0, <1>1
  <2> HIDE DEF kept
  <2>5. (s.buf \o d) \o <<>> = s.buf \o d
    BY <2>4
  <2> QED
    BY <2>1, <2>2, <2>3, <2>5
<1>6. Flush(o, t)
  BY <1>0 DEF FWrite
<1> HIDE DEF t
<1>7. disk' = Stored(s.path, t.buf)
  BY <1>4, <1>6 DEF Flush
<1>8. t.buf \in Seq(Nat)
  BY <1>4, StreamFields
<1>9. Stored(s.path, t.buf)[s.path] = t.buf
  BY <1>0, <1>8, StoredType DEF Types
<1> QED
  BY <1>3, <1>5, <1>7, <1>9

\* "Every write lands at the end whatever the cursor says" (fileres.rs): with
\* one writer or several readers to a path, what is appended is put behind all
\* that is in the file.  Without, it is not: the run streams_shared.
THEOREM AppendsAreKept == Exclusive => (Spec => AppendsLand)
<1> SUFFICES ASSUME Exclusive PROVE Spec => AppendsLand
  OBVIOUS
<1>1. Types /\ Alone /\ [Next]_vars =>
        [\A o \in Handles, d \in Data :
           /\ FWrite(o, d) /\ streams[o].kind = "plain"
           /\ streams[o].append /\ OnDisk(streams[o].path)
           => disk'[streams[o].path] = disk[streams[o].path] \o d]_vars
  BY AppendStep
<1> QED
  BY <1>1, Inductive, PTL DEF Spec, AppendsLand


-----------------------------------------------------------------------------
(* What reads and writes come to                                           *)

\* The greatest of two or three.
LEMMA MaxOfTwo ==
  ASSUME NEW a \in Nat, NEW b \in Nat
  PROVE  Abstract!Max({a, b}) = IF a >= b THEN a ELSE b
<1> DEFINE S == {a, b}
           m == IF a >= b THEN a ELSE b
<1>1. m \in S /\ \A y \in S : m >= y
  OBVIOUS
<1>2. \A x \in S : (\A y \in S : x >= y) => x = m
  OBVIOUS
<1> HIDE DEF S, m
<1>3. Abstract!Max(S) = m
  BY <1>1, <1>2 DEF Abstract!Max
<1> QED
  BY <1>3 DEF S, m

LEMMA MaxOfThree ==
  ASSUME NEW a \in Nat, NEW b \in Nat, NEW c \in Nat, b <= c
  PROVE  Abstract!Max({a, b, c}) = IF a >= c THEN a ELSE c
<1> DEFINE S == {a, b, c}
           m == IF a >= c THEN a ELSE c
<1>1. m \in S /\ \A y \in S : m >= y
  OBVIOUS
<1>2. \A x \in S : (\A y \in S : x >= y) => x = m
  OBVIOUS
<1> HIDE DEF S, m
<1>3. Abstract!Max(S) = m
  BY <1>1, <1>2 DEF Abstract!Max
<1> QED
  BY <1>3 DEF S, m

LEMMA MinIs ==
  ASSUME NEW S \in SUBSET Nat, NEW m \in S, \A y \in S : m <= y
  PROVE  Min(S) = m /\ Abstract!Min(S) = m
<1>1. \A x \in S : (\A y \in S : x <= y) => x = m
  OBVIOUS
<1> QED
  BY <1>1 DEF Min, Abstract!Min

\* A sequence put together of three.
LEMMA TwoParts ==
  ASSUME NEW h \in Seq(Nat), NEW d \in Seq(Nat)
  PROVE  /\ h \o d \in Seq(Nat) /\ Len(h \o d) = Len(h) + Len(d)
         /\ \A i \in 1 .. Len(h) : (h \o d)[i] = h[i]
         /\ \A i \in 1 .. Len(d) : (h \o d)[Len(h) + i] = d[i]
<1>1. /\ h \o d \in Seq(Nat) /\ Len(h \o d) = Len(h) + Len(d)
      /\ \A i \in 1 .. Len(h) + Len(d) :
           (h \o d)[i] = IF i <= Len(h) THEN h[i] ELSE d[i - Len(h)]
  BY ConcatProperties
<1>2. Len(h) \in Nat /\ Len(d) \in Nat
  OBVIOUS
<1> QED
  BY <1>1, <1>2

LEMMA ThreeParts ==
  ASSUME NEW h \in Seq(Nat), NEW d \in Seq(Nat), NEW k \in Seq(Nat)
  PROVE  LET w == h \o d \o k IN
         /\ w \in Seq(Nat) /\ Len(w) = Len(h) + Len(d) + Len(k)
         /\ \A i \in 1 .. Len(h) : w[i] = h[i]
         /\ \A i \in 1 .. Len(d) : w[Len(h) + i] = d[i]
         /\ \A i \in 1 .. Len(k) : w[Len(h) + Len(d) + i] = k[i]
<1>1. PICK a : a = h \o d
  OBVIOUS
<1>2. /\ a \in Seq(Nat) /\ Len(a) = Len(h) + Len(d)
      /\ \A i \in 1 .. Len(h) : a[i] = h[i]
      /\ \A i \in 1 .. Len(d) : a[Len(h) + i] = d[i]
  BY <1>1, TwoParts
<1>3. PICK w : w = a \o k
  OBVIOUS
<1>4. /\ w \in Seq(Nat) /\ Len(w) = Len(a) + Len(k)
      /\ \A i \in 1 .. Len(a) : w[i] = a[i]
      /\ \A i \in 1 .. Len(k) : w[Len(a) + i] = k[i]
  BY <1>2, <1>3, TwoParts
<1>5. w = h \o d \o k
  BY <1>1, <1>3
<1>6. Len(h) \in Nat /\ Len(d) \in Nat /\ Len(k) \in Nat
  OBVIOUS
<1>7. \A i \in 1 .. Len(h) : i \in 1 .. Len(a)
  BY <1>2, <1>6
<1>8. \A i \in 1 .. Len(d) : Len(h) + i \in 1 .. Len(a)
  BY <1>2, <1>6
<1> QED
  BY <1>2, <1>4, <1>5, <1>7, <1>8

\* Writing into the buffer: padding it, cutting it and putting it together
\* again leaves every byte but those written over where it was.
LEMMA WriteOverwrites ==
  ASSUME NEW s \in Stream, NEW d \in Seq(Nat)
  PROVE  LET at == IF s.append THEN Len(s.buf) ELSE s.pos IN
         /\ at \in Nat
         /\ WriteAtCursor(s, d).buf = Abstract!Overwritten(s.buf, at, d)
         /\ WriteAtCursor(s, d).pos = s.pos + Len(d)
         /\ WriteAtCursor(s, d).eof = s.eof
         /\ WriteAtCursor(s, d).readable = s.readable
         /\ Len(WriteAtCursor(s, d).buf) =
              IF Len(s.buf) >= at + Len(d) THEN Len(s.buf) ELSE at + Len(d)
<1> DEFINE at == IF s.append THEN Len(s.buf) ELSE s.pos
           padded == IF at > Len(s.buf) THEN Resize(s.buf, at) ELSE s.buf
           kept == SubSeq(padded, at + Len(d) + 1, Len(padded))
           head == SubSeq(padded, 1, at)
           buf == head \o d \o kept
           size == IF Len(s.buf) >= at + Len(d) THEN Len(s.buf) ELSE at + Len(d)
<1>0. s.buf \in Seq(Nat) /\ Len(s.buf) \in Nat /\ s.pos \in Nat
  BY StreamFields
<1>1. at \in Nat /\ Len(d) \in Nat /\ s.pos + Len(d) \in Nat
  BY <1>0
<1>2. WriteAtCursor(s, d) = [s EXCEPT !.buf = buf, !.pos = s.pos + Len(d), !.dirty = TRUE]
  BY DEF WriteAtCursor
<1> HIDE DEF at
<1>3. /\ padded \in Seq(Nat) /\ Len(padded) \in Nat
      /\ Len(padded) = IF at > Len(s.buf) THEN at ELSE Len(s.buf)
      /\ \A i \in 1 .. Len(padded) : padded[i] = IF i <= Len(s.buf) THEN s.buf[i] ELSE Nul
  <2>1. CASE at > Len(s.buf)
    <3>1. /\ Resize(s.buf, at) \in Seq(Nat) /\ Len(Resize(s.buf, at)) = at
          /\ \A i \in 1 .. at : Resize(s.buf, at)[i] = IF i <= Len(s.buf) THEN s.buf[i] ELSE Nul
      BY <1>0, <1>1, ResizeType DEF Resize
    <3>2. padded = Resize(s.buf, at)
      BY <2>1
    <3> QED
      BY <1>1, <2>1, <3>1, <3>2
  <2>2. CASE ~(at > Len(s.buf))
    BY <1>0, <1>1, <2>2
  <2> QED
    BY <2>1, <2>2
<1> HIDE DEF padded
<1>4. /\ head \in Seq(Nat) /\ Len(head) = at
      /\ \A i \in 1 .. at : head[i] = padded[i]
  <2>1. at <= Len(padded)
    BY <1>0, <1>1, <1>3
  <2>2. /\ head \in Seq(Nat)
        /\ Len(head) = IF 1 <= at THEN at - 1 + 1 ELSE 0
        /\ \A i \in 1 .. at - 1 + 1 : head[i] = padded[1 + i - 1]
    BY <1>1, <1>3, <2>1, SubSeqProperties
  <2> HIDE DEF head
  <2> QED
    BY <1>1, <2>2
<1>5. /\ kept \in Seq(Nat)
      /\ Len(kept) = IF at + Len(d) < Len(padded) THEN Len(padded) - at - Len(d) ELSE 0
      /\ \A i \in 1 .. Len(kept) : kept[i] = padded[at + Len(d) + i]
  <2> DEFINE m == at + Len(d) + 1
  <2>1. m \in Nat /\ m >= 1
    BY <1>1
  <2>2. CASE m <= Len(padded)
    <3>1. kept \in Seq(Nat) /\ Len(kept) = Len(padded) - m + 1
          /\ \A i \in 1 .. Len(padded) - m + 1 : kept[i] = padded[m + i - 1]
      BY <1>3, <2>1, <2>2, SubSeqProperties
    <3> HIDE DEF kept
    <3> QED
      BY <1>1, <1>3, <2>2, <3>1
  <2>3. CASE ~(m <= Len(padded))
    <3>1. kept = <<>>
      BY <1>3, <2>1, <2>3
    <3> QED
      BY <1>1, <1>3, <2>3, <3>1
  <2> QED
    BY <2>2, <2>3
<1> HIDE DEF head, kept
<1>6. /\ buf \in Seq(Nat) /\ Len(buf) = at + Len(d) + Len(kept)
      /\ \A i \in 1 .. at : buf[i] = head[i]
      /\ \A i \in 1 .. Len(d) : buf[at + i] = d[i]
      /\ \A i \in 1 .. Len(kept) : buf[at + Len(d) + i] = kept[i]
  <2>1. /\ buf \in Seq(Nat) /\ Len(buf) = Len(head) + Len(d) + Len(kept)
        /\ \A i \in 1 .. Len(head) : buf[i] = head[i]
        /\ \A i \in 1 .. Len(d) : buf[Len(head) + i] = d[i]
        /\ \A i \in 1 .. Len(kept) : buf[Len(head) + Len(d) + i] = kept[i]
    BY <1>4, <1>5, ThreeParts
  <2> QED
    BY <1>4, <2>1
<1> HIDE DEF buf
<1>7. size \in Nat /\ Len(buf) = size
  <2>1. PICK l \in Nat : l = Len(s.buf)
    BY <1>0
  <2>2. PICK k : k = Len(kept)
    OBVIOUS
  <2>3. PICK n \in Nat : n = Len(d)
    BY <1>1
  <2>4. PICK p \in Nat : p = Len(padded)
    BY <1>3
  <2>5. /\ p = IF at > l THEN at ELSE l
        /\ k = IF at + n < p THEN p - at - n ELSE 0
        /\ Len(buf) = at + n + k
    BY <1>3, <1>5, <1>6, <2>1, <2>2, <2>3, <2>4
  <2>6. size = IF l >= at + n THEN l ELSE at + n
    BY <2>1, <2>3
  <2> HIDE DEF size
  <2> QED
    BY <1>1, <2>5, <2>6
<1>8. ASSUME NEW i \in 1 .. size
      PROVE  buf[i] = IF i > at /\ i <= at + Len(d) THEN d[i - at]
                      ELSE IF i <= Len(s.buf) THEN s.buf[i] ELSE Nul
  <2>0. i \in Nat /\ i >= 1
    BY <1>7
  <2>1. CASE i <= at
    <3>1. buf[i] = padded[i]
      BY <1>1, <1>4, <1>6, <2>0, <2>1
    <3>2. i \in 1 .. Len(padded)
      BY <1>0, <1>1, <1>3, <2>0, <2>1
    <3> HIDE DEF size
    <3> QED
      BY <1>1, <1>3, <2>0, <2>1, <3>1, <3>2
  <2>2. CASE i > at /\ i <= at + Len(d)
    <3>1. PICK j \in 1 .. Len(d) : i = at + j
      <4>1. i - at \in 1 .. Len(d) /\ i = at + (i - at)
        BY <1>1, <2>2
      <4> QED
        BY <4>1
    <3>2. buf[i] = d[j] /\ i - at = j
      BY <1>1, <1>6, <3>1
    <3> QED
      BY <2>2, <3>2
  <2>3. CASE i > at + Len(d)
    <3>1. PICK j \in 1 .. Len(kept) : i = at + Len(d) + j
      <4>1. i - at - Len(d) \in 1 .. Len(kept) /\ i = at + Len(d) + (i - at - Len(d))
        BY <1>0, <1>1, <1>3, <1>5, <1>7, <2>3
      <4> QED
        BY <4>1
    <3>2. buf[i] = kept[j] /\ kept[j] = padded[i]
      BY <1>5, <1>6, <3>1
    <3>3. i \in 1 .. Len(padded)
      BY <1>0, <1>1, <1>3, <1>5, <3>1
    <3> QED
      BY <1>1, <1>3, <2>3, <3>2, <3>3
  <2> QED
    BY <1>1, <2>1, <2>2, <2>3
<1>9. buf = [i \in 1 .. size |-> IF i > at /\ i <= at + Len(d) THEN d[i - at]
                                 ELSE IF i <= Len(s.buf) THEN s.buf[i] ELSE Nul]
  <2>1. DOMAIN buf = 1 .. size /\ buf = [i \in DOMAIN buf |-> buf[i]]
    BY <1>6, <1>7
  <2> HIDE DEF size
  <2> QED
    BY <1>8, <2>1
<1>10. Abstract!Max({Len(s.buf), at, at + Len(d)}) = size
  <2>1. at + Len(d) \in Nat /\ at <= at + Len(d)
    BY <1>1
  <2> QED
    BY <1>0, <1>1, <2>1, MaxOfThree
<1> HIDE DEF size
<1>11. buf = Abstract!Overwritten(s.buf, at, d)
  BY <1>9, <1>10 DEF Abstract!Overwritten, Nul, Abstract!Nul
<1>12. /\ WriteAtCursor(s, d).buf = buf /\ WriteAtCursor(s, d).pos = s.pos + Len(d)
       /\ WriteAtCursor(s, d).eof = s.eof /\ WriteAtCursor(s, d).readable = s.readable
  <2>1. PICK p : p = s.pos + Len(d)
    OBVIOUS
  <2>2. WriteAtCursor(s, d) = [s EXCEPT !.buf = buf, !.pos = p, !.dirty = TRUE]
    BY <1>2, <2>1
  <2> QED
    BY <2>1, <2>2 DEF Stream
<1> QED
  BY <1>1, <1>7, <1>11, <1>12 DEF at, size


\* What a read does to the position: it ends at the end of the buffer if it
\* came out short.
LEMMA FetchIs ==
  ASSUME NEW s \in Stream, NEW n \in Nat
  PROVE  LET short == Len(s.buf) < s.pos + n
             end == IF short THEN Len(s.buf) ELSE s.pos + n
         IN  /\ end \in Nat
             /\ Fetch(s, n).data = SubSeq(s.buf, s.pos + 1, end)
             /\ n > 0 => Fetch(s, n).next =
                  [s EXCEPT !.eof = s.eof \/ short, !.pos = IF end > s.pos THEN end ELSE s.pos]
<1> DEFINE start == Min({s.pos, Len(s.buf)})
           to == Min({start + n, Len(s.buf)})
           short == Len(s.buf) < s.pos + n
           end == IF short THEN Len(s.buf) ELSE s.pos + n
<1>a. s.buf \in Seq(Nat) /\ Len(s.buf) \in Nat /\ s.pos \in Nat /\ s.eof \in BOOLEAN
  BY StreamFields
<1>0. PICK p \in Nat, l \in Nat : p = s.pos /\ l = Len(s.buf)
  BY <1>a
<1>1. start \in Nat /\ start = IF p <= l THEN p ELSE l
  BY <1>0, MinOfTwo
<1> HIDE DEF start
<1>3. to = IF start + n <= l THEN start + n ELSE l
  <2>1. start + n \in Nat
    BY <1>1
  <2> QED
    BY <1>0, <2>1, MinOfTwo
<1> HIDE DEF to
<1>4. /\ Fetch(s, n).data = SubSeq(s.buf, start + 1, to)
      /\ Fetch(s, n).next = [s EXCEPT !.eof = s.eof \/ to - start < n,
                                      !.pos = IF to > start THEN to ELSE s.pos]
  BY DEF Fetch, start, to
<1>5. end \in Nat /\ end = (IF l < p + n THEN l ELSE p + n) /\ short = (l < p + n)
  BY <1>0
<1>6. SubSeq(s.buf, start + 1, to) = SubSeq(s.buf, s.pos + 1, end)
  <2>1. CASE p <= l
    <3>1. start = p /\ to = end
      <4> HIDE DEF end, short
      <4> QED
        BY <1>1, <1>3, <1>5, <2>1
    <3> QED
      BY <1>0, <3>1
  <2>2. CASE ~(p <= l)
    <3>1. start + 1 > to /\ s.pos + 1 > end /\ to \in Nat
      <4> HIDE DEF end, short
      <4> QED
        BY <1>0, <1>1, <1>3, <1>5, <2>2
    <3> HIDE DEF end, short
    <3>2. /\ SubSeq(s.buf, start + 1, to) = <<>>
          /\ SubSeq(s.buf, s.pos + 1, end) = <<>>
      BY <1>a, <1>1, <1>5, <3>1
    <3> QED
      BY <3>2
  <2> QED
    BY <2>1, <2>2
<1>7. ASSUME n > 0
      PROVE  /\ (to - start < n) = short
             /\ (IF to > start THEN to ELSE s.pos) = (IF end > s.pos THEN end ELSE s.pos)
  <2>1. short \in BOOLEAN
    OBVIOUS
  <2> HIDE DEF end, short
  <2>2. CASE p <= l
    <3>1. start = p /\ to = end
      BY <1>1, <1>3, <1>5, <2>2
    <3>2. (to - start < n) <=> (l < p + n)
      BY <1>0, <1>1, <1>3, <2>2
    <3> QED
      BY <1>0, <1>5, <2>1, <3>1, <3>2
  <2>3. CASE ~(p <= l)
    <3>1. start = l /\ to = l /\ end = l /\ l < p + n
      BY <1>0, <1>1, <1>3, <1>5, <2>3
    <3>2. to - start < n /\ ~(to > start) /\ ~(end > p)
      BY <1>0, <1>7, <2>3, <3>1
    <3> QED
      BY <1>0, <1>5, <2>1, <3>1, <3>2
  <2> QED
    BY <2>2, <2>3
<1> HIDE DEF end, short
<1>8. ASSUME n > 0
      PROVE  Fetch(s, n).next = [s EXCEPT !.eof = s.eof \/ short,
                                          !.pos = IF end > s.pos THEN end ELSE s.pos]
  <2>1. PICK q : q = (IF to > start THEN to ELSE s.pos)
    OBVIOUS
  <2>2. PICK e : e = (to - start < n)
    OBVIOUS
  <2>3. Fetch(s, n).next = [s EXCEPT !.eof = s.eof \/ e, !.pos = q]
    BY <1>4, <2>1, <2>2
  <2>4. e = short /\ q = (IF end > s.pos THEN end ELSE s.pos)
    BY <1>7, <1>8, <2>1, <2>2
  <2> QED
    BY <2>3, <2>4
<1>9. /\ end \in Nat
      /\ Fetch(s, n).data = SubSeq(s.buf, s.pos + 1, end)
      /\ n > 0 => Fetch(s, n).next =
           [s EXCEPT !.eof = s.eof \/ short, !.pos = IF end > s.pos THEN end ELSE s.pos]
  BY <1>4, <1>5, <1>6, <1>8
<1> QED
  BY <1>9 DEF short, end

LEMMA FetchMisses ==
  ASSUME NEW s \in Stream, NEW n \in Nat, n > 0, Missed(Fetch(s, n).next)
  PROVE  Missed(s)
<1> DEFINE short == Len(s.buf) < s.pos + n
           end == IF short THEN Len(s.buf) ELSE s.pos + n
           pos == IF end > s.pos THEN end ELSE s.pos
           eof == s.eof \/ short
<1>0. /\ s.buf \in Seq(Nat) /\ Len(s.buf) \in Nat /\ s.pos \in Nat /\ s.eof \in BOOLEAN
  BY StreamFields
<1>1. Fetch(s, n).next = [s EXCEPT !.eof = eof, !.pos = pos] /\ end \in Nat
  BY FetchIs
<1>2. /\ short => pos >= Len(s.buf)
      /\ pos >= s.pos /\ pos \in Nat
  BY <1>0, <1>1
<1> HIDE DEF pos, end, short
<1>3. /\ Fetch(s, n).next.pos = pos /\ Fetch(s, n).next.eof = (s.eof \/ short)
      /\ Fetch(s, n).next.buf = s.buf /\ Fetch(s, n).next.closed = s.closed
  BY <1>1 DEF Stream
<1> QED
  BY <1>0, <1>2, <1>3 DEF Missed

\* One operation on the stream o, seen from the mark of its end.
LEMMA EofOperation ==
  ASSUME Types, NEW o \in Handles, OnStream(o),
         Missed(streams'[o]), ~Missed(streams[o])
  PROVE  \E n \in Sizes : n > Len(streams[o].buf) /\ FTruncate(o, n)
<1>a. PICK s : s = streams[o]
  OBVIOUS
<1>b. PICK t : t = streams'[o]
  OBVIOUS
<1>c. /\ ~t.closed /\ t.eof /\ t.pos < Len(t.buf)
      /\ ~(~s.closed /\ s.eof /\ s.pos < Len(s.buf))
  BY <1>a, <1>b DEF Missed
<1>d. ASSUME NEW u, t.closed = u.closed, t.eof = u.eof, t.pos = u.pos, t.buf = u.buf
      PROVE  ~u.closed /\ u.eof /\ u.pos < Len(u.buf) /\ u # s
  BY <1>c, <1>d
<1>0. /\ s \in Stream /\ s.buf \in Seq(Nat) /\ Len(s.buf) \in Nat /\ s.pos \in Nat
      /\ s.eof \in BOOLEAN /\ s.closed \in BOOLEAN /\ MaxLen \in Nat /\ o \in DOMAIN streams
  BY <1>a, StreamFields, StreamsAssumption DEF Types
<1>1. ASSUME NEW answer, NEW next, Deliver(o, answer, next)
      PROVE  t = next \/ t = s
  BY <1>0, <1>1, <1>a, <1>b DEF Deliver
<1>2. ASSUME NEW u, Flush(o, u), u \in Stream
      PROVE  t.closed = u.closed /\ t.eof = u.eof /\ t.pos = u.pos /\ t.buf = u.buf
  <2>1. PICK b : b = (u.dirty /\ ~(u.kind = "plain" /\ u.dirty))
    OBVIOUS
  <2>2. t = [u EXCEPT !.dirty = b]
    BY <1>0, <1>2, <2>1, <1>b DEF Flush
  <2> QED
    BY <1>2, <2>2 DEF Stream
<1>3. CASE \E p \in Paths, mode \in Modes, plus \in BOOLEAN : FOpen(o, p, mode, plus)
  <2>1. PICK p \in Paths, mode \in Modes, plus \in BOOLEAN : FOpen(o, p, mode, plus)
    BY <1>3
  <2>2. PICK r, w, a, buf : t = [Closed EXCEPT !.kind = "plain", !.path = p, !.closed = FALSE,
                                   !.readable = r, !.writable = w, !.append = a, !.buf = buf]
    BY <1>0, <1>b, <2>1 DEF FOpen
  <2>3. t.eof = FALSE
    BY <2>2 DEF Closed
  <2> QED
    BY <1>c, <2>3
<1>4. CASE \E p \in Paths, mode \in Modes : FOpenFails(o, p, mode)
  BY <1>4, <1>a, <1>b, <1>c DEF FOpenFails
<1>5. CASE \E mode \in Modes, plus \in BOOLEAN : OpenMemory(o, mode, plus)
  <2>1. PICK mode \in Modes, plus \in BOOLEAN : OpenMemory(o, mode, plus)
    BY <1>5
  <2>2. PICK w, a : t = [Closed EXCEPT !.closed = FALSE, !.readable = TRUE,
                           !.writable = w, !.append = a]
    BY <1>0, <1>b, <2>1 DEF OpenMemory
  <2>3. t.eof = FALSE
    BY <2>2 DEF Closed
  <2> QED
    BY <1>c, <2>3
<1>6. CASE \E n \in 1 .. MaxLen + 1 : FRead(o, n)
  <2>1. PICK n \in 1 .. MaxLen + 1 : FRead(o, n)
    BY <1>6
  <2>2. n \in Nat /\ n > 0
    BY <1>0, <2>1
  <2>3. t = Fetch(s, n).next \/ t = s
    BY <1>1, <1>a, <2>1 DEF FRead
  <2>4. Missed(t) /\ ~Missed(s)
    BY <1>c DEF Missed
  <2> QED
    BY <1>0, <2>2, <2>3, <2>4, FetchMisses
<1>7. CASE \E n \in 0 .. MaxLen + 1 : FGets(o, n)
  <2>1. PICK n \in 0 .. MaxLen + 1 : FGets(o, n)
    BY <1>7
  <2> DEFINE end == LineEnd(s, Min({s.pos + n, Len(s.buf)}))
             short == end = Len(s.buf) /\ end < s.pos + n /\ s.buf[end] # NewLine
  <2>2. CASE s.pos >= Len(s.buf)
    <3>1. Deliver(o, {}, [s EXCEPT !.eof = TRUE])
      BY <1>a, <2>1, <2>2 DEF FGets
    <3>2. t = [s EXCEPT !.eof = TRUE] \/ t = s
      BY <1>1, <3>1
    <3>3. [s EXCEPT !.eof = TRUE].pos = s.pos /\ [s EXCEPT !.eof = TRUE].buf = s.buf
      BY <1>0 DEF Stream
    <3>4. t.pos = s.pos /\ t.buf = s.buf
      BY <3>2, <3>3
    <3>5. t.pos < Len(t.buf)
      BY <1>c
    <3> QED
      BY <1>0, <2>2, <3>4, <3>5
  <2>3. CASE ~(s.pos >= Len(s.buf))
    <3> HIDE DEF end
    <3>1. Deliver(o, {SubSeq(s.buf, s.pos + 1, end)}, [s EXCEPT !.pos = end, !.eof = s.eof \/ short])
      BY <1>a, <2>1, <2>3 DEF FGets, end
    <3>2. PICK e : e = (s.eof \/ short)
      OBVIOUS
    <3>3. Deliver(o, {SubSeq(s.buf, s.pos + 1, end)}, [s EXCEPT !.pos = end, !.eof = e])
      BY <3>1, <3>2
    <3>4. t = [s EXCEPT !.pos = end, !.eof = e] \/ t = s
      BY <1>1, <3>3
    <3>5. LET u == [s EXCEPT !.pos = end, !.eof = e]
          IN  u.pos = end /\ u.eof = e /\ u.buf = s.buf /\ u.closed = s.closed
      BY <1>0 DEF Stream
    <3>6. t = [s EXCEPT !.pos = end, !.eof = e]
      BY <1>c, <3>4
    <3> HIDE DEF short
    <3>7. t.pos = end /\ t.eof = e /\ t.buf = s.buf /\ t.closed = s.closed
      BY <3>5, <3>6
    <3>8. ~s.closed /\ s.pos < Len(s.buf)
      BY <1>0, <1>c, <2>3, <3>7
    <3>9. ~s.eof
      BY <1>c, <3>8
    <3>10. short
      BY <1>c, <3>2, <3>7, <3>9
    <3>11. t.pos = Len(t.buf)
      BY <3>7, <3>10 DEF short
    <3>12. t.pos < Len(t.buf)
      BY <1>c
    <3> QED
      BY <1>0, <3>7, <3>11, <3>12
  <2> QED
    BY <2>2, <2>3
<1>8. CASE \E d \in Data : FWrite(o, d)
  <2>1. PICK d \in Data : FWrite(o, d)
    BY <1>8
  <2> DEFINE u == WriteAtCursor(s, d)
             at == IF s.append THEN Len(s.buf) ELSE s.pos
  <2>2. d \in Seq(Nat) /\ Len(d) \in Nat
    BY DataType, LenProperties
  <2>3. /\ u \in Stream /\ u.closed = s.closed /\ u.eof = s.eof /\ u.pos = s.pos + Len(d)
        /\ Len(u.buf) = IF Len(s.buf) >= at + Len(d) THEN Len(s.buf) ELSE at + Len(d)
    BY <1>0, <2>2, WriteType, WriteOverwrites
  <2> HIDE DEF u
  <2>4. t = s \/ Flush(o, u)
    BY <1>a, <1>b, <2>1 DEF FWrite, u
  <2>5. t.closed = u.closed /\ t.eof = u.eof /\ t.pos = u.pos /\ t.buf = u.buf
    BY <1>2, <1>c, <2>3, <2>4
  <2>6. ~s.closed /\ s.eof /\ s.pos + Len(d) < Len(u.buf)
    BY <1>c, <2>3, <2>5
  <2>7. ~(s.pos < Len(s.buf))
    BY <1>c, <2>6
  <2> HIDE DEF at
  <2>8. at = Len(s.buf) \/ at = s.pos
    BY DEF at
  <2> QED
    BY <1>0, <2>2, <2>3, <2>6, <2>7, <2>8
<1>9. CASE \E n \in Sizes : FSeek(o, n)
  <2>1. PICK n \in Sizes : FSeek(o, n)
    BY <1>9
  <2>2. t = [s EXCEPT !.pos = n, !.eof = FALSE]
    BY <1>0, <1>a, <1>b, <2>1 DEF FSeek
  <2>3. t.eof = FALSE
    BY <1>0, <2>2 DEF Stream
  <2> QED
    BY <1>c, <2>3
<1>10. CASE \E n \in Sizes : FTruncate(o, n)
  <2>1. PICK n \in Sizes : FTruncate(o, n)
    BY <1>10
  <2>2. n \in Nat
    BY <1>0, <2>1 DEF Sizes
  <2>3. PICK buf : buf = Resize(s.buf, n)
    OBVIOUS
  <2>4. buf \in Seq(Nat) /\ Len(buf) = n
    BY <1>0, <2>2, <2>3, ResizeType
  <2>5. PICK u : u = [s EXCEPT !.buf = buf, !.dirty = TRUE]
    OBVIOUS
  <2>6. u \in Stream /\ u.buf = buf /\ u.eof = s.eof /\ u.pos = s.pos /\ u.closed = s.closed
    BY <1>0, <2>4, <2>5 DEF Stream
  <2>7. Flush(o, u) \/ Flush(o, s)
    BY <1>a, <2>1, <2>3, <2>5 DEF FTruncate
  <2>8. n > Len(s.buf)
    <3>1. t.closed = u.closed /\ t.eof = u.eof /\ t.pos = u.pos /\ t.buf = u.buf
      <4>1. CASE Flush(o, u)
        BY <1>2, <2>6, <4>1
      <4>2. CASE Flush(o, s)
        BY <1>0, <1>2, <1>d, <4>2
      <4> QED
        BY <2>7, <4>1, <4>2
    <3>2. ~s.closed /\ s.eof /\ s.pos < n
      BY <1>c, <2>4, <2>6, <3>1
    <3>3. ~(s.pos < Len(s.buf))
      BY <1>c, <3>2
    <3> QED
      BY <1>0, <2>2, <3>2, <3>3
  <2> QED
    BY <1>a, <2>1, <2>8
<1>11. CASE FStat(o)
  BY <1>11, <1>a, <1>b, <1>c DEF FStat
<1>12. CASE FFlush(o)
  BY <1>0, <1>2, <1>a, <1>c, <1>12 DEF FFlush
<1>13. CASE FClose(o)
  <2>1. t = Closed
    BY <1>0, <1>b, <1>13 DEF FClose
  <2>2. Closed.closed = TRUE
    BY DEF Closed
  <2> QED
    BY <1>c, <2>1, <2>2
<1> QED
  BY <1>3, <1>4, <1>5, <1>6, <1>7, <1>8, <1>9, <1>10, <1>11, <1>12, <1>13 DEF OnStream

\* An operation leaves the other streams alone.
LEMMA OthersUntouched ==
  ASSUME Types, NEW o \in Handles, OnStream(o), NEW q \in Handles, q # o
  PROVE  streams'[q] = streams[q]
<1>1. /\ \A answer, next : Deliver(o, answer, next) => streams'[q] = streams[q]
      /\ \A s : Flush(o, s) => streams'[q] = streams[q]
      /\ \A s : streams' = [streams EXCEPT ![o] = s] => streams'[q] = streams[q]
  BY DEF Types, Deliver, Flush
<1> QED
  BY <1>1 DEF OnStream, FOpen, FOpenFails, OpenMemory, FRead, FGets, FWrite, FSeek,
              FTruncate, FStat, FFlush, FClose

\* A loop on feof misses nothing: a stream comes to its end with bytes unread
\* only when ftruncate lengthens the file behind its position.
THEOREM EndsAreTold == Spec => EofMeansAllRead
<1>1. ASSUME Types, Next, NEW o \in Handles, Missed(streams'[o]), ~Missed(streams[o])
      PROVE  \E n \in Sizes : n > Len(streams[o].buf) /\ FTruncate(o, n)
  <2>1. CASE \E q \in Handles : OnStream(q)
    BY <1>1, <2>1, EofOperation, OthersUntouched
  <2>2. CASE \E p \in Paths :
              \/ \E d \in Data, append \in BOOLEAN : FilePutContents(p, d, append)
              \/ Unlink(p)
    BY <1>1, <2>2 DEF FilePutContents, Unlink
  <2> QED
    BY <1>1, <2>1, <2>2 DEF Next
<1>2. Types /\ Alone /\ [Next]_vars =>
        [\A o \in Handles : Missed(streams'[o]) /\ ~Missed(streams[o])
           => \E n \in Sizes : n > Len(streams[o].buf) /\ FTruncate(o, n)]_vars
  BY <1>1
<1> QED
  BY <1>2, Inductive, PTL DEF Spec, EofMeansAllRead


-----------------------------------------------------------------------------
(* Streams are positions on shared files: the refinement, step by step     *)

\* What the script sees of a stream.
View(o, s) ==
  [file |-> IF s.kind = "plain" THEN s.path ELSE o, pos |-> s.pos,
   access |-> {a \in {"read", "write"} : IF a = "read" THEN s.readable ELSE s.writable},
   append |-> s.append, eof |-> s.eof]

LEMMA Views ==
  /\ DOMAIN FdsSeen = OpenHandles
  /\ \A o \in OpenHandles : FdsSeen[o] = View(o, streams[o])
BY DEF FdsSeen, File, Access, View

\* The content of a file is what any stream on it carries.
LEMMA SeenContent ==
  ASSUME Types, Alone, Exclusive, NEW o \in Handles, IsOpen(o)
  PROVE  /\ o \in OpenHandles /\ FdsSeen[o] = View(o, streams[o])
         /\ FdsSeen[o].file \in DOMAIN FilesSeen
         /\ FilesSeen[FdsSeen[o].file] = streams[o].buf
<1> DEFINE s == streams[o]
<1>0. s \in Stream /\ s.kind \in {"plain", "memory"} /\ o \notin Paths /\ DOMAIN disk \subseteq Paths
  BY StreamFields, StreamsAssumption DEF Types, DiskType
<1>1. o \in OpenHandles /\ FdsSeen[o] = View(o, s)
  BY Views DEF OpenHandles
<1>2. FdsSeen[o].file = IF s.kind = "plain" THEN s.path ELSE o
  BY <1>1 DEF View
<1>3. CASE s.kind = "plain"
  <2>1. On(s, s.path) /\ s.path \in Paths
    BY <1>3 DEF On, IsOpen, Types, Clean
  <2>2. s.path \in DOMAIN disk /\ disk[s.path] = s.buf
    BY <2>1 DEF Alone
  <2> QED
    BY <1>1, <1>2, <1>3, <2>2 DEF FilesSeen
<1>4. CASE s.kind = "memory"
  <2>1. o \in InMemory /\ o \notin DOMAIN disk
    BY <1>0, <1>1, <1>4 DEF InMemory
  <2> QED
    BY <1>1, <1>2, <1>4, <2>1 DEF FilesSeen
<1> QED
  BY <1>0, <1>3, <1>4

\* A stream is opened or changed: the others are seen as before.
LEMMA Looked ==
  ASSUME Types, NEW o \in Handles, NEW t, ~t.closed,
         streams' = [streams EXCEPT ![o] = t]
  PROVE  /\ OpenHandles' = OpenHandles \cup {o}
         /\ FdsSeen' = [x \in OpenHandles \cup {o} |->
                          IF x = o THEN View(o, t) ELSE FdsSeen[x]]
<1>1. \A x \in Handles : streams'[x] = IF x = o THEN t ELSE streams[x]
  BY DEF Types
<1>2. OpenHandles' = OpenHandles \cup {o}
  BY <1>1 DEF OpenHandles, IsOpen
<1>3. FdsSeen' = [x \in OpenHandles' |-> View(x, streams'[x])]
  BY DEF FdsSeen, File, Access, View
<1>4. \A x \in OpenHandles : x \in Handles
  BY DEF OpenHandles
<1>5. \A x \in OpenHandles \cup {o} :
        View(x, streams'[x]) = IF x = o THEN View(o, t) ELSE FdsSeen[x]
  BY <1>1, <1>4, Views
<1> QED
  BY <1>2, <1>3, <1>5

\* The file of a plain stream, or the content of a memory stream, is replaced.
LEMMA Replaced ==
  ASSUME Types, NEW o \in Handles, NEW t \in Stream, ~t.closed,
         streams' = [streams EXCEPT ![o] = t],
         IsOpen(o) => t.kind = streams[o].kind,
         disk' = IF t.kind = "plain" THEN Stored(t.path, t.buf) ELSE disk
  PROVE  FilesSeen' = Abstract!With(FilesSeen, View(o, t).file, t.buf)
<1>0. t.kind \in {"plain", "memory"} /\ o \notin Paths /\ DOMAIN disk \subseteq Paths
  BY StreamFields, StreamsAssumption DEF Types, DiskType
<1>1. \A x \in Handles : streams'[x] = IF x = o THEN t ELSE streams[x]
  BY DEF Types
<1>2. OpenHandles' = OpenHandles \cup {o} /\ OpenHandles \subseteq Handles
  BY Looked DEF OpenHandles
<1>3. InMemory' = {x \in OpenHandles' : streams'[x].kind = "memory"}
  BY DEF InMemory
<1>4. FilesSeen' = [x \in DOMAIN disk' \cup InMemory' |->
                      IF x \in DOMAIN disk' THEN disk'[x] ELSE streams'[x].buf]
  BY DEF FilesSeen
<1>5. CASE t.kind = "plain"
  <2>1. InMemory' = InMemory /\ o \notin InMemory
    BY <1>1, <1>2, <1>3, <1>5 DEF InMemory, OpenHandles
  <2>2. /\ DOMAIN disk' = DOMAIN disk \cup {t.path}
        /\ \A q \in DOMAIN disk' : disk'[q] = IF q = t.path THEN t.buf ELSE disk[q]
    BY <1>5 DEF Stored
  <2>3. View(o, t).file = t.path
    BY <1>5 DEF View
  <2>4. \A x \in InMemory : (x \in Handles /\ x # o /\ x # t.path) \/ x \in DOMAIN disk'
    BY <1>2, <2>1, <2>2 DEF InMemory
  <2> QED
    BY <1>1, <1>4, <2>1, <2>2, <2>3, <2>4 DEF FilesSeen, Abstract!With
<1>6. CASE t.kind = "memory"
  <2>1. InMemory' = InMemory \cup {o} /\ InMemory \subseteq Handles
    BY <1>1, <1>2, <1>3, <1>6 DEF InMemory, OpenHandles
  <2>2. disk' = disk /\ o \notin DOMAIN disk
    BY <1>0, <1>6
  <2>3. View(o, t).file = o
    BY <1>6 DEF View
  <2> QED
    BY <1>1, <1>4, <2>1, <2>2, <2>3 DEF FilesSeen, Abstract!With
<1> QED
  BY <1>0, <1>5, <1>6

\* A position, or the mark of the end, changes, and no content.
LEMMA Kept ==
  ASSUME Types, NEW o \in Handles, IsOpen(o), NEW t, ~t.closed,
         streams' = [streams EXCEPT ![o] = t],
         t.kind = streams[o].kind, t.buf = streams[o].buf, disk' = disk
  PROVE  FilesSeen' = FilesSeen
<1>1. \A x \in Handles : streams'[x] = IF x = o THEN t ELSE streams[x]
  BY DEF Types
<1>2. OpenHandles' = OpenHandles \cup {o} /\ OpenHandles \subseteq Handles /\ o \in OpenHandles
  BY Looked DEF OpenHandles
<1>3. InMemory' = {x \in OpenHandles' : streams'[x].kind = "memory"}
  BY DEF InMemory
<1>4. InMemory' = InMemory /\ InMemory \subseteq Handles
  BY <1>1, <1>2, <1>3 DEF InMemory
<1>5. \A x \in InMemory : streams'[x].buf = streams[x].buf
  BY <1>1, <1>4
<1> QED
  BY <1>4, <1>5 DEF FilesSeen

\* Nothing happens but an answer.
LEMMA Unseen ==
  ASSUME streams' = streams, disk' = disk
  PROVE  FilesSeen' = FilesSeen /\ FdsSeen' = FdsSeen
BY DEF FilesSeen, FdsSeen, OpenHandles, InMemory, IsOpen, File, Access

LEMMA Refused ==
  ASSUME streams' = streams, disk' = disk, got' = {}
  PROVE  Abstract!Refuse
BY Unseen DEF Abstract!Refuse


At(s, pos, eof) == [s EXCEPT !.eof = eof, !.pos = pos]
Shifted(v, pos, eof) == [v EXCEPT !.pos = pos, !.eof = eof]

\* A record of that shape with two of its fields changed.
LEMMA ShiftedIs ==
  ASSUME NEW name, NEW p, NEW A, NEW f, NEW e, NEW q, NEW g
  PROVE  Shifted([file |-> name, pos |-> p, access |-> A, append |-> f, eof |-> e], q, g) =
           [file |-> name, pos |-> q, access |-> A, append |-> f, eof |-> g]
<1> DEFINE u == [file |-> name, pos |-> q, access |-> A, append |-> f, eof |-> g]
<1>1. PICK v : v = [file |-> name, pos |-> p, access |-> A, append |-> f, eof |-> e]
  OBVIOUS
<1>2. PICK w : w = [v EXCEPT !.pos = q, !.eof = g]
  OBVIOUS
<1>3. w = [i \in DOMAIN w |-> w[i]] /\ u = [i \in DOMAIN u |-> u[i]]
  BY <1>2
<1>4. DOMAIN w = DOMAIN u /\ DOMAIN u = {"file", "pos", "access", "append", "eof"}
  BY <1>1, <1>2
<1>5. /\ w.file = u.file /\ w.pos = u.pos /\ w.access = u.access
      /\ w.append = u.append /\ w.eof = u.eof
  BY <1>1, <1>2
<1>6. \A i \in DOMAIN u : w[i] = u[i]
  BY <1>4, <1>5
<1>7. w = u
  BY <1>3, <1>4, <1>6
<1> HIDE DEF u
<1>8. Shifted(v, q, g) = u
  BY <1>2, <1>7 DEF Shifted
<1> QED
  BY <1>1, <1>8 DEF u

\* A stream that has moved is seen at its new position.
LEMMA ViewOf ==
  ASSUME NEW o, NEW s, NEW t, t.kind = s.kind, t.path = s.path, t.readable = s.readable,
         t.writable = s.writable, t.append = s.append
  PROVE  View(o, t) = Shifted(View(o, s), t.pos, t.eof)
<1>1. PICK A : A = {a \in {"read", "write"} : IF a = "read" THEN s.readable ELSE s.writable}
  OBVIOUS
<1>2. A = {a \in {"read", "write"} : IF a = "read" THEN t.readable ELSE t.writable}
  BY <1>1
<1>3. PICK name : name = IF s.kind = "plain" THEN s.path ELSE o
  OBVIOUS
<1>4. name = IF t.kind = "plain" THEN t.path ELSE o
  BY <1>3
<1>5. View(o, s) = [file |-> name, pos |-> s.pos, access |-> A,
                    append |-> s.append, eof |-> s.eof]
  BY <1>1, <1>3 DEF View
<1>6. View(o, t) = [file |-> name, pos |-> t.pos, access |-> A,
                    append |-> s.append, eof |-> t.eof]
  BY <1>2, <1>4 DEF View
<1> QED
  BY <1>5, <1>6, ShiftedIs

LEMMA ViewMoved ==
  ASSUME NEW o, NEW s \in Stream, NEW pos, NEW eof
  PROVE  View(o, At(s, pos, eof)) = Shifted(View(o, s), pos, eof)
<1> DEFINE t == At(s, pos, eof)
<1>1. /\ t.kind = s.kind /\ t.path = s.path /\ t.readable = s.readable
      /\ t.writable = s.writable /\ t.append = s.append /\ t.pos = pos /\ t.eof = eof
  BY DEF At, Stream
<1> HIDE DEF t
<1>2. View(o, t) = Shifted(View(o, s), t.pos, t.eof)
  BY <1>1, ViewOf
<1> QED
  BY <1>1, <1>2 DEF t

LEMMA Turned ==
  ASSUME Types, NEW o \in Handles, IsOpen(o), NEW t, ~t.closed,
         streams' = [streams EXCEPT ![o] = t]
  PROVE  Abstract!Change(o, View(o, t))
<1>1. /\ FdsSeen' = [x \in OpenHandles \cup {o} |->
                       IF x = o THEN View(o, t) ELSE FdsSeen[x]]
      /\ o \in OpenHandles
  BY Looked DEF OpenHandles
<1>2. DOMAIN FdsSeen = OpenHandles /\ FdsSeen = [x \in OpenHandles |-> FdsSeen[x]]
  BY Views DEF FdsSeen
<1> QED
  BY <1>1, <1>2 DEF Abstract!Change

\* A reader that is given an answer and moves, or is not allowed to read.
LEMMA ReadSeen ==
  ASSUME Types, Alone, Exclusive, NEW o \in Handles, NEW answer,
         NEW pos, NEW eof, Deliver(o, answer, At(streams[o], pos, eof)), streams[o].readable
  PROVE  /\ Abstract!Change(o, Shifted(FdsSeen[o], pos, eof))
         /\ FilesSeen' = FilesSeen /\ got' = answer
         /\ "read" \in FdsSeen[o].access
<1> DEFINE next == At(streams[o], pos, eof)
<1>0. /\ streams[o] \in Stream /\ IsOpen(o) /\ disk' = disk /\ got' = answer
      /\ streams' = [streams EXCEPT ![o] = next]
  BY DEF Types, Deliver
<1>1. FdsSeen[o] = View(o, streams[o])
  BY <1>0, SeenContent
<1>2. /\ next.closed = streams[o].closed /\ next.kind = streams[o].kind
      /\ next.buf = streams[o].buf
  BY <1>0 DEF At, Stream
<1>3. View(o, next) = Shifted(FdsSeen[o], pos, eof)
  BY <1>0, <1>1, ViewMoved
<1> HIDE DEF next
<1>4. ~next.closed
  BY <1>0, <1>2 DEF IsOpen
<1>5. FilesSeen' = FilesSeen
  BY <1>0, <1>2, <1>4, Kept
<1>6. Abstract!Change(o, View(o, next))
  BY <1>0, <1>4, Turned
<1>7. "read" \in View(o, streams[o]).access
  BY DEF View
<1> QED
  BY <1>0, <1>1, <1>3, <1>5, <1>6, <1>7

LEMMA NotReadable ==
  ASSUME NEW o \in Handles, NEW answer, NEW next,
         Deliver(o, answer, next), ~streams[o].readable
  PROVE  Abstract!Refuse
<1>1. streams' = streams /\ disk' = disk /\ got' = {}
  BY DEF Deliver
<1> QED
  BY <1>1, Refused

\* What there is to know of a stream and of its view.
LEMMA Seen ==
  ASSUME Types, Alone, Exclusive, NEW o \in Handles, IsOpen(o)
  PROVE  /\ streams[o] \in Stream
         /\ o \in DOMAIN FdsSeen
         /\ FdsSeen[o] = View(o, streams[o])
         /\ Abstract!Content(o) = streams[o].buf
         /\ FdsSeen[o].pos = streams[o].pos /\ FdsSeen[o].eof = streams[o].eof
         /\ FdsSeen[o].append = streams[o].append
         /\ streams[o].buf \in Seq(Nat) /\ Len(streams[o].buf) \in Nat
         /\ streams[o].pos \in Nat /\ streams[o].eof \in BOOLEAN
<1>1. streams[o] \in Stream
  BY DEF Types
<1>2. FdsSeen[o] = View(o, streams[o]) /\ o \in OpenHandles
      /\ FilesSeen[FdsSeen[o].file] = streams[o].buf
  BY SeenContent
<1>3. /\ View(o, streams[o]).pos = streams[o].pos
      /\ View(o, streams[o]).eof = streams[o].eof
      /\ View(o, streams[o]).append = streams[o].append
  BY DEF View
<1> QED
  BY <1>1, <1>2, <1>3, Views, StreamFields DEF Abstract!Content

LEMMA ReadImplements ==
  ASSUME Types, Alone, Exclusive, NEW o \in Handles, NEW n \in Nat, n > 0, FRead(o, n)
  PROVE  Abstract!Read(o, n) \/ Abstract!Refuse
<1> DEFINE f == Fetch(streams[o], n)
<1>1. Deliver(o, {f.data}, f.next) /\ IsOpen(o)
  BY DEF FRead, Deliver
<1>2. CASE ~streams[o].readable
  BY <1>1, <1>2, NotReadable
<1>3. CASE streams[o].readable
  <2>1. PICK s : s = streams[o]
    OBVIOUS
  <2>2. PICK fd : fd = FdsSeen[o]
    OBVIOUS
  <2>3. /\ s \in Stream /\ fd.pos = s.pos /\ fd.eof = s.eof /\ Abstract!Content(o) = s.buf
        /\ s.buf \in Seq(Nat) /\ Len(s.buf) \in Nat /\ s.pos \in Nat /\ s.eof \in BOOLEAN
    BY <1>1, <2>1, <2>2, Seen
  <2>4. PICK end : end = IF Len(s.buf) < s.pos + n THEN Len(s.buf) ELSE s.pos + n
    OBVIOUS
  <2>5. PICK short : short = (Len(s.buf) < s.pos + n)
    OBVIOUS
  <2>6. PICK pos : pos = IF end > s.pos THEN end ELSE s.pos
    OBVIOUS
  <2>7. end \in Nat
    BY <2>3, <2>4
  <2>8. f.data = SubSeq(s.buf, s.pos + 1, end) /\ f.next = [s EXCEPT !.eof = s.eof \/ short, !.pos = pos]
    BY <2>1, <2>3, <2>4, <2>5, <2>6, FetchIs
  <2> HIDE DEF f
  <2>9. PICK eof : eof = (s.eof \/ short)
    OBVIOUS
  <2>10. f.next = At(streams[o], pos, eof)
    BY <2>1, <2>8, <2>9 DEF At
  <2>11. /\ Abstract!Change(o, Shifted(fd, pos, eof))
         /\ FilesSeen' = FilesSeen /\ got' = {f.data}
         /\ "read" \in fd.access
    BY <1>1, <1>3, <2>2, <2>10, ReadSeen
  <2>12. Abstract!Min({Len(s.buf), s.pos + n}) = end
    <3>1. Len(s.buf) \in Nat /\ s.pos + n \in Nat
      BY <2>3
    <3> DEFINE S == {Len(s.buf), s.pos + n}
    <3>2. S \in SUBSET Nat /\ end \in S /\ \A y \in S : end <= y
      BY <2>4, <3>1
    <3> HIDE DEF S
    <3>3. Abstract!Min(S) = end
      BY <3>2, MinIs
    <3> QED
      BY <3>3 DEF S
  <2>13. Abstract!Max({s.pos, end}) = pos
    <3>1. pos = IF s.pos >= end THEN s.pos ELSE end
      BY <2>3, <2>6, <2>7
    <3> QED
      BY <2>3, <2>7, <3>1, MaxOfTwo
  <2>14. (end < s.pos + n) = short
    <3>1. Len(s.buf) \in Nat /\ s.pos + n \in Nat
      BY <2>3
    <3> QED
      BY <2>4, <2>5, <3>1
  <2>15. [fd EXCEPT !.pos = Abstract!Max({fd.pos, end}), !.eof = fd.eof \/ end < fd.pos + n] =
         Shifted(fd, pos, eof)
    BY <2>3, <2>9, <2>13, <2>14 DEF Shifted
  <2>16. got' = {SubSeq(Abstract!Content(o), fd.pos + 1, end)}
    BY <2>3, <2>8, <2>11
  <2>17. Abstract!Min({Len(Abstract!Content(o)), fd.pos + n}) = end
    BY <2>3, <2>12
  <2> QED
    BY <2>2, <2>11, <2>15, <2>16, <2>17 DEF Abstract!Read
<1> QED
  BY <1>2, <1>3


\* The line gets looks for ends where the first of three things is: the limit,
\* the end of the file, a newline.
LEMMA LineEndIs ==
  ASSUME NEW s \in Stream, NEW n \in Nat, s.pos < Len(s.buf)
  PROVE  LET end == LineEnd(s, Min({s.pos + n, Len(s.buf)})) IN
         /\ end \in Nat /\ end >= s.pos /\ end <= Len(s.buf)
         /\ end = Abstract!Min({i \in Abstract!LineEnds(s.buf, s.pos, n) : i >= s.pos})
         /\ end < s.pos + n /\ s.buf[end] # NewLine => end = Len(s.buf)
<1>a. s.buf \in Seq(Nat) /\ Len(s.buf) \in Nat /\ s.pos \in Nat
  BY StreamFields
<1>0. PICK p \in Nat, l \in Nat : p = s.pos /\ l = Len(s.buf)
  BY <1>a
<1> DEFINE cap == Min({p + n, l})
           at == {i \in p + 1 .. cap : s.buf[i] = NewLine}
           end == LineEnd(s, cap)
           N == {i \in p + 1 .. l : s.buf[i] = NewLine}
           S == {i \in Abstract!LineEnds(s.buf, p, n) : i >= p}
<1>1. cap = IF p + n <= l THEN p + n ELSE l
  <2>1. p + n \in Nat
    OBVIOUS
  <2> QED
    BY <1>0, <2>1, MinOfTwo
<1>2. cap \in Nat /\ cap <= l /\ cap <= p + n /\ cap >= p /\ (cap = l \/ cap = p + n)
  <2>1. p < l
    BY <1>0
  <2> HIDE DEF cap
  <2> QED
    BY <1>1, <2>1
<1> HIDE DEF cap
<1>3. end = IF at = {} THEN cap ELSE Min(at)
  BY <1>0 DEF LineEnd
<1>4. S = {i \in {p + n, l} \cup N : i >= p}
  BY <1>0 DEF Abstract!LineEnds, NewLine, Abstract!NewLine
<1>5. S = {p + n, l} \cup N
  BY <1>0, <1>4
<1>6. /\ at \in SUBSET Nat /\ at \subseteq N /\ S \in SUBSET Nat
      /\ \A i \in at : i > p /\ i <= cap
      /\ \A i \in N \ at : i > cap /\ i <= l
  BY <1>2, <1>5
<1>7. end \in Nat /\ end >= p /\ end <= cap /\ (\A i \in N : end <= i) /\ (end = cap \/ end \in N)
  <2>1. CASE at = {}
    <3>1. end = cap
      BY <1>3, <2>1
    <3> HIDE DEF end, at, N
    <3> QED
      BY <1>2, <1>6, <2>1, <3>1
  <2>2. CASE at # {}
    <3>1. end = Min(at)
      BY <1>3, <2>2
    <3>2. PICK m \in at : \A y \in at : m <= y
      <4>1. PICK x \in at : \A y \in at : <<y, x>> \notin OpToRel(<, Nat)
        BY <1>6, <2>2, NatLessThanWellFounded, WFMin, Zenon
      <4>2. ASSUME NEW y \in at PROVE x <= y
        <5>1. x \in Nat /\ y \in Nat
          BY <1>6
        <5>2. <<y, x>> \notin {q \in Nat \X Nat : q[1] < q[2]}
          BY <4>1, Zenon DEF OpToRel
        <5>3. ~(y < x)
          BY <5>1, <5>2
        <5> QED
          BY <5>1, <5>3
      <4> QED
        BY <4>2
    <3> HIDE DEF at, end, N
    <3>3. Min(at) = m
      BY <1>6, <3>2, MinIs
    <3>4. m \in Nat /\ m > p /\ m <= cap /\ m \in N
      BY <1>6
    <3>5. \A i \in N : m <= i
      BY <1>2, <1>6, <3>2, <3>4
    <3> QED
      BY <3>1, <3>3, <3>4, <3>5
  <2> QED
    BY <2>1, <2>2
<1>8. end \in S /\ \A i \in S : end <= i
  <2> HIDE DEF end, S, N, at
  <2> QED
    BY <1>2, <1>5, <1>7
<1>9. Abstract!Min(S) = end
  <2> HIDE DEF end, S
  <2> QED
    BY <1>6, <1>8, MinIs
<1>10. end < p + n /\ s.buf[end] # NewLine => end = l
  <2>1. end \in N => s.buf[end] = NewLine
    OBVIOUS
  <2> HIDE DEF end, N
  <2> QED
    BY <1>2, <1>7, <2>1
<1>11. end <= l
  <2> HIDE DEF end
  <2> QED
    BY <1>2, <1>7
<1>12. /\ end = LineEnd(s, Min({s.pos + n, Len(s.buf)}))
       /\ S = {i \in Abstract!LineEnds(s.buf, s.pos, n) : i >= s.pos}
  BY <1>0 DEF cap
<1> HIDE DEF end, S
<1> QED
  BY <1>0, <1>7, <1>9, <1>10, <1>11, <1>12

LEMMA LineImplements ==
  ASSUME Types, Alone, Exclusive, NEW o \in Handles, NEW n \in Nat, FGets(o, n)
  PROVE  Abstract!ReadLine(o, n) \/ Abstract!Refuse
<1>1. PICK s : s = streams[o]
  OBVIOUS
<1>2. PICK fd : fd = FdsSeen[o]
  OBVIOUS
<1>3. PICK end : end = LineEnd(s, Min({s.pos + n, Len(s.buf)}))
  OBVIOUS
<1>4. PICK short : short = (end = Len(s.buf) /\ end < s.pos + n /\ s.buf[end] # NewLine)
  OBVIOUS
<1>5. PICK eof : eof = (s.eof \/ short)
  OBVIOUS
<1>6. IF s.pos >= Len(s.buf)
        THEN Deliver(o, {}, [s EXCEPT !.eof = TRUE])
        ELSE Deliver(o, {SubSeq(s.buf, s.pos + 1, end)}, [s EXCEPT !.pos = end, !.eof = eof])
  BY <1>1, <1>3, <1>4, <1>5 DEF FGets
<1>7. IsOpen(o)
  BY <1>6 DEF Deliver
<1>8. /\ s \in Stream /\ fd.pos = s.pos /\ fd.eof = s.eof /\ Abstract!Content(o) = s.buf
      /\ s.buf \in Seq(Nat) /\ Len(s.buf) \in Nat /\ s.pos \in Nat /\ s.eof \in BOOLEAN
      /\ fd = View(o, s)
  BY <1>1, <1>2, <1>7, Seen
<1>9. CASE ~streams[o].readable
  BY <1>6, <1>9, NotReadable
<1>10. CASE streams[o].readable /\ s.pos >= Len(s.buf)
  <2>1. [s EXCEPT !.eof = TRUE] = At(s, s.pos, TRUE)
    BY <1>8 DEF At, Stream
  <2>2. Deliver(o, {}, At(streams[o], s.pos, TRUE))
    BY <1>1, <1>6, <1>10, <2>1
  <2>3. /\ Abstract!Change(o, Shifted(fd, s.pos, TRUE))
        /\ FilesSeen' = FilesSeen /\ got' = {} /\ "read" \in fd.access
    BY <1>2, <1>10, <2>2, ReadSeen
  <2>4. Shifted(fd, s.pos, TRUE) = [fd EXCEPT !.eof = TRUE]
    BY <1>8 DEF Shifted, View
  <2> QED
    BY <1>2, <1>8, <1>10, <2>3, <2>4 DEF Abstract!ReadLine
<1>11. CASE streams[o].readable /\ ~(s.pos >= Len(s.buf))
  <2>1. /\ end \in Nat
        /\ end = Abstract!Min({i \in Abstract!LineEnds(s.buf, s.pos, n) : i >= s.pos})
        /\ end < s.pos + n /\ s.buf[end] # NewLine => end = Len(s.buf)
    <3>1. s.pos < Len(s.buf)
      BY <1>8, <1>11
    <3> QED
      BY <1>3, <1>8, <3>1, LineEndIs
  <2>2. [s EXCEPT !.pos = end, !.eof = eof] = At(s, end, eof)
    BY <1>8 DEF At, Stream
  <2>3. Deliver(o, {SubSeq(s.buf, s.pos + 1, end)}, At(streams[o], end, eof))
    BY <1>1, <1>6, <1>11, <2>2
  <2>4. /\ Abstract!Change(o, Shifted(fd, end, eof))
        /\ FilesSeen' = FilesSeen /\ got' = {SubSeq(s.buf, s.pos + 1, end)}
        /\ "read" \in fd.access
    BY <1>2, <1>11, <2>3, ReadSeen
  <2>5. short = (end < s.pos + n /\ s.buf[end] # NewLine)
    BY <1>4, <2>1
  <2>6. Shifted(fd, end, eof) =
          [fd EXCEPT !.pos = end, !.eof = fd.eof \/ (end < fd.pos + n /\ s.buf[end] # Abstract!NewLine)]
    BY <1>5, <1>8, <2>5 DEF Shifted, NewLine, Abstract!NewLine
  <2>7. ~(fd.pos >= Len(Abstract!Content(o)))
    BY <1>8, <1>11
  <2> QED
    BY <1>2, <1>8, <2>1, <2>4, <2>6, <2>7 DEF Abstract!ReadLine
<1> QED
  BY <1>9, <1>10, <1>11


\* A change that is flushed: the file has the new content, and only this
\* stream has moved.
LEMMA FlushSeen ==
  ASSUME Types, Alone, Exclusive, NEW o \in Handles, IsOpen(o), NEW u \in Stream,
         Flush(o, u), u.dirty, u.kind = streams[o].kind, u.path = streams[o].path,
         u.readable = streams[o].readable, u.writable = streams[o].writable,
         u.append = streams[o].append, u.closed = streams[o].closed
  PROVE  /\ Abstract!Change(o, Shifted(FdsSeen[o], u.pos, u.eof))
         /\ Abstract!Put(FdsSeen[o].file, u.buf)
<1>1. PICK s : s = streams[o]
  OBVIOUS
<1>2. s \in Stream /\ FdsSeen[o] = View(o, s) /\ u.kind \in {"plain", "memory"}
  BY <1>1, Seen, StreamFields
<1>3. PICK b \in BOOLEAN : b = (u.dirty /\ ~(u.kind = "plain" /\ u.dirty))
  OBVIOUS
<1>4. PICK t : t = [u EXCEPT !.dirty = b]
  OBVIOUS
<1>5. /\ streams' = [streams EXCEPT ![o] = t]
      /\ disk' = IF u.kind = "plain" THEN Stored(u.path, u.buf) ELSE disk
  BY <1>3, <1>4 DEF Flush
<1>6. /\ t \in Stream /\ t.kind = s.kind /\ t.path = s.path /\ t.readable = s.readable
      /\ t.writable = s.writable /\ t.append = s.append /\ t.closed = s.closed
      /\ t.pos = u.pos /\ t.eof = u.eof /\ t.buf = u.buf /\ t.kind = u.kind /\ t.path = u.path
  BY <1>1, <1>3, <1>4 DEF Stream
<1>7. ~t.closed
  BY <1>1, <1>6 DEF IsOpen
<1>8. Abstract!Change(o, View(o, t))
  BY <1>5, <1>7, Turned
<1>9. View(o, t) = Shifted(View(o, s), u.pos, u.eof)
  <2>1. View(o, t) = Shifted(View(o, s), t.pos, t.eof)
    <3>1. /\ t.kind = s.kind /\ t.path = s.path /\ t.readable = s.readable
          /\ t.writable = s.writable /\ t.append = s.append
      BY <1>6
    <3> QED
      BY <3>1, ViewOf
  <2> QED
    BY <1>6, <2>1
<1>10. FilesSeen' = Abstract!With(FilesSeen, View(o, t).file, t.buf)
  <2>1. disk' = IF t.kind = "plain" THEN Stored(t.path, t.buf) ELSE disk
    BY <1>5, <1>6
  <2>2. t.kind = streams[o].kind
    BY <1>1, <1>6
  <2> QED
    BY <1>5, <1>6, <1>7, <2>1, <2>2, Replaced
<1>11. View(o, t).file = View(o, s).file
  BY <1>6 DEF View
<1> QED
  BY <1>2, <1>6, <1>8, <1>9, <1>10, <1>11 DEF Abstract!Put

\* A flush with nothing to write back shows nowhere.
LEMMA FlushUnseen ==
  ASSUME Types, NEW o \in Handles, IsOpen(o), Flush(o, streams[o])
  PROVE  streams' = streams /\ disk' = disk
<1>1. PICK s : s = streams[o]
  OBVIOUS
<1>2. s \in Stream /\ s.dirty \in BOOLEAN /\ (s.kind = "plain" => ~s.dirty)
  BY <1>1, StreamFields DEF Types, Clean, IsOpen
<1>3. PICK b : b = (s.dirty /\ ~(s.kind = "plain" /\ s.dirty))
  OBVIOUS
<1>4. b = s.dirty
  BY <1>2, <1>3
<1>5. PICK t : t = [s EXCEPT !.dirty = b]
  OBVIOUS
<1>6. t = s
  BY <1>2, <1>4, <1>5 DEF Stream
<1>7. streams' = [streams EXCEPT ![o] = t] /\ disk' = disk
  BY <1>1, <1>2, <1>3, <1>5 DEF Flush
<1> QED
  BY <1>1, <1>6, <1>7 DEF Types

\* Only the position moves.
LEMMA PositionMoved ==
  ASSUME NEW o, NEW s, NEW p
  PROVE  Shifted(View(o, s), p, s.eof) = [View(o, s) EXCEPT !.pos = p]
<1>1. PICK v : v = View(o, s)
  OBVIOUS
<1>2. PICK w : w = [v EXCEPT !.pos = p]
  OBVIOUS
<1>3. PICK u : u = Shifted(v, p, s.eof)
  OBVIOUS
<1>4. DOMAIN v = {"file", "pos", "access", "append", "eof"} /\ v.eof = s.eof
  BY <1>1 DEF View
<1>5. w = [i \in DOMAIN v |-> IF i = "pos" THEN p ELSE v[i]]
  BY <1>2
<1>6. u = [i \in DOMAIN v |-> IF i = "pos" THEN p ELSE IF i = "eof" THEN s.eof ELSE v[i]]
  BY <1>3, <1>4 DEF Shifted
<1>7. \A i \in DOMAIN v : (IF i = "pos" THEN p ELSE IF i = "eof" THEN s.eof ELSE v[i]) =
                          (IF i = "pos" THEN p ELSE v[i])
  BY <1>4
<1>8. u = w
  BY <1>5, <1>6, <1>7
<1> QED
  BY <1>1, <1>2, <1>3, <1>8

LEMMA WriteImplements ==
  ASSUME Types, Alone, Exclusive, NEW o \in Handles, NEW d \in Data, FWrite(o, d)
  PROVE  Abstract!Write(o, d) \/ Abstract!Refuse
<1>0. IsOpen(o) /\ got' = {} /\ d \in Seq(Nat) /\ streams[o] \in Stream
  BY DataType DEF FWrite, Types
<1>1. CASE ~streams[o].writable
  <2>1. streams' = streams /\ disk' = disk
    BY <1>1 DEF FWrite
  <2> QED
    BY <1>0, <2>1, Refused
<1>2. CASE streams[o].writable
  <2>1. PICK s : s = streams[o]
    OBVIOUS
  <2>2. PICK fd : fd = FdsSeen[o]
    OBVIOUS
  <2>3. /\ s \in Stream /\ fd.pos = s.pos /\ fd.eof = s.eof /\ Abstract!Content(o) = s.buf
        /\ fd = View(o, s) /\ fd.append = s.append /\ o \in DOMAIN FdsSeen
    BY <1>0, <2>1, <2>2, Seen
  <2>4. PICK u : u = WriteAtCursor(s, d)
    OBVIOUS
  <2>5. PICK at : at = IF s.append THEN Len(s.buf) ELSE s.pos
    OBVIOUS
  <2>6. /\ u.buf = Abstract!Overwritten(s.buf, at, d) /\ u.pos = s.pos + Len(d)
        /\ u.eof = s.eof /\ u.readable = s.readable
    BY <1>0, <2>3, <2>4, <2>5, WriteOverwrites
  <2>7. /\ u \in Stream /\ u.dirty /\ u.kind = s.kind /\ u.path = s.path /\ u.closed = s.closed
        /\ u.append = s.append /\ u.writable = s.writable
    BY <1>0, <2>3, <2>4, WriteType
  <2>8. Flush(o, u)
    BY <1>2, <2>1, <2>4 DEF FWrite
  <2>9. /\ Abstract!Change(o, Shifted(fd, u.pos, u.eof))
        /\ Abstract!Put(fd.file, u.buf)
    BY <1>0, <2>1, <2>2, <2>6, <2>7, <2>8, FlushSeen
  <2>10. Shifted(fd, u.pos, u.eof) = [fd EXCEPT !.pos = fd.pos + Len(d)]
    <3>1. PICK p : p = s.pos + Len(d)
      OBVIOUS
    <3>2. Shifted(View(o, s), p, s.eof) = [View(o, s) EXCEPT !.pos = p]
      BY PositionMoved
    <3> QED
      BY <2>3, <2>6, <3>1, <3>2
  <2>11. "write" \in fd.access
    BY <1>2, <2>1, <2>3 DEF View
  <2>12. at = IF fd.append THEN Len(Abstract!Content(o)) ELSE fd.pos
    BY <2>3, <2>5
  <2>13. u.buf = Abstract!Overwritten(Abstract!Content(o), at, d)
    BY <2>3, <2>6
  <2> QED
    BY <1>0, <2>2, <2>9, <2>10, <2>11, <2>12, <2>13 DEF Abstract!Write
<1> QED
  BY <1>1, <1>2

LEMMA TruncateImplements ==
  ASSUME Types, Alone, Exclusive, NEW o \in Handles, NEW n \in Nat, FTruncate(o, n)
  PROVE  Abstract!Truncate(o, n) \/ Abstract!Refuse
<1>0. IsOpen(o) /\ got' = {}
  BY DEF FTruncate
<1>1. CASE ~streams[o].writable
  <2>1. streams' = streams /\ disk' = disk
    BY <1>0, <1>1, FlushUnseen DEF FTruncate
  <2> QED
    BY <1>0, <2>1, Refused
<1>2. CASE streams[o].writable
  <2>1. PICK s : s = streams[o]
    OBVIOUS
  <2>2. PICK fd : fd = FdsSeen[o]
    OBVIOUS
  <2>3. /\ s \in Stream /\ fd.pos = s.pos /\ fd.eof = s.eof /\ Abstract!Content(o) = s.buf
        /\ fd = View(o, s) /\ o \in DOMAIN FdsSeen /\ s.buf \in Seq(Nat)
    BY <1>0, <2>1, <2>2, Seen
  <2>4. PICK buf : buf = Resize(s.buf, n)
    OBVIOUS
  <2>5. PICK u : u = [s EXCEPT !.buf = buf, !.dirty = TRUE]
    OBVIOUS
  <2>6. buf \in Seq(Nat)
    BY <2>3, <2>4, ResizeType
  <2>7. /\ u \in Stream /\ u.dirty /\ u.kind = s.kind /\ u.path = s.path /\ u.closed = s.closed
        /\ u.append = s.append /\ u.writable = s.writable /\ u.readable = s.readable
        /\ u.pos = s.pos /\ u.eof = s.eof /\ u.buf = buf
    BY <2>3, <2>5, <2>6 DEF Stream
  <2>8. Flush(o, u)
    BY <1>2, <2>1, <2>4, <2>5 DEF FTruncate
  <2>9. /\ Abstract!Change(o, Shifted(fd, s.pos, s.eof))
        /\ Abstract!Put(fd.file, buf)
    BY <1>0, <2>1, <2>2, <2>7, <2>8, FlushSeen
  <2>10. Shifted(fd, s.pos, s.eof) = fd
    BY <2>3 DEF Shifted, View
  <2>11. FdsSeen' = FdsSeen
    <3>1. FdsSeen' = [FdsSeen EXCEPT ![o] = fd] /\ FdsSeen = [x \in OpenHandles |-> FdsSeen[x]]
      BY <2>9, <2>10, Views DEF Abstract!Change, FdsSeen
    <3> QED
      BY <2>2, <2>3, <3>1, Views
  <2>12. "write" \in fd.access
    BY <1>2, <2>1, <2>3 DEF View
  <2>13. buf = [i \in 1 .. n |-> IF i <= Len(Abstract!Content(o))
                                  THEN Abstract!Content(o)[i] ELSE Abstract!Nul]
    BY <2>3, <2>4 DEF Resize, Nul, Abstract!Nul
  <2> QED
    BY <1>0, <2>2, <2>9, <2>11, <2>12, <2>13 DEF Abstract!Truncate
<1> QED
  BY <1>1, <1>2

LEMMA SeekImplements ==
  ASSUME Types, Alone, Exclusive, NEW o \in Handles, NEW pos \in Nat, FSeek(o, pos)
  PROVE  Abstract!Seek(o, pos)
<1>1. PICK s : s = streams[o]
  OBVIOUS
<1>2. PICK t : t = At(s, pos, FALSE)
  OBVIOUS
<1>3. IsOpen(o) /\ got' = {} /\ disk' = disk /\ s \in Stream
  BY <1>1 DEF FSeek, Types
<1>4. t = [s EXCEPT !.pos = pos, !.eof = FALSE]
  BY <1>2, <1>3 DEF At, Stream
<1>5. streams' = [streams EXCEPT ![o] = t]
  BY <1>1, <1>4 DEF FSeek
<1>6. t.closed = s.closed /\ t.kind = s.kind /\ t.buf = s.buf
  BY <1>2, <1>3 DEF At, Stream
<1>7. ~t.closed
  BY <1>1, <1>3, <1>6 DEF IsOpen
<1>8. FilesSeen' = FilesSeen
  BY <1>1, <1>3, <1>5, <1>6, <1>7, Kept
<1>9. Abstract!Change(o, View(o, t))
  BY <1>3, <1>5, <1>7, Turned
<1>10. FdsSeen[o] = View(o, s)
  BY <1>1, <1>3, Seen
<1>11. View(o, t) = Shifted(View(o, s), pos, FALSE)
  BY <1>2, <1>3, ViewMoved
<1>12. Shifted(View(o, s), pos, FALSE) = [View(o, s) EXCEPT !.pos = pos, !.eof = FALSE]
  BY DEF Shifted
<1> QED
  BY <1>3, <1>8, <1>9, <1>10, <1>11, <1>12 DEF Abstract!Seek


LEMMA StatImplements ==
  ASSUME Types, Alone, Exclusive, NEW o \in Handles, FStat(o)
  PROVE  Abstract!Size(o)
<1>1. IsOpen(o) /\ got' = {<<Len(streams[o].buf)>>} /\ streams' = streams /\ disk' = disk
  BY DEF FStat
<1>2. Abstract!Content(o) = streams[o].buf
  BY <1>1, Seen
<1>3. FilesSeen' = FilesSeen /\ FdsSeen' = FdsSeen
  BY <1>1, Unseen
<1> QED
  BY <1>1, <1>2, <1>3 DEF Abstract!Size

\* Closing takes the view away, and a memory stream's content with it.
LEMMA CloseImplements ==
  ASSUME Types, NEW o \in Handles, FClose(o)
  PROVE  Abstract!Close(o)
<1>1. IsOpen(o) /\ got' = {} /\ streams' = [streams EXCEPT ![o] = Closed]
  BY DEF FClose
<1>2. disk' = disk
  BY <1>1 DEF FClose, Types, Clean, IsOpen
<1>3. Closed.closed = TRUE
  BY DEF Closed
<1>4. \A x \in Handles : streams'[x] = IF x = o THEN Closed ELSE streams[x]
  BY <1>1 DEF Types
<1>5. OpenHandles' = OpenHandles \ {o} /\ OpenHandles \subseteq Handles /\ o \in OpenHandles
  BY <1>1, <1>3, <1>4 DEF OpenHandles, IsOpen
<1>6. DOMAIN FdsSeen = OpenHandles /\ \A x \in OpenHandles : FdsSeen[x] = View(x, streams[x])
  BY Views
<1>7. FdsSeen' = [x \in OpenHandles' |-> View(x, streams'[x])]
  BY DEF FdsSeen, File, Access, View
<1>8. \A x \in OpenHandles \ {o} : View(x, streams'[x]) = FdsSeen[x]
  BY <1>4, <1>5, <1>6
<1>9. FdsSeen' = [x \in DOMAIN FdsSeen \ {o} |-> FdsSeen[x]]
  BY <1>5, <1>6, <1>7, <1>8
<1>10. InMemory' = InMemory \ {o} /\ InMemory \subseteq Handles
  BY <1>4, <1>5 DEF InMemory
<1>11. o \notin DOMAIN disk
  BY StreamsAssumption DEF Types, DiskType
<1>12. DOMAIN FilesSeen = DOMAIN disk \cup InMemory
  BY DEF FilesSeen
<1>13. \A x \in DOMAIN FilesSeen : FilesSeen[x] = IF x \in DOMAIN disk THEN disk[x] ELSE streams[x].buf
  BY DEF FilesSeen
<1>14. FilesSeen' = [x \in DOMAIN disk' \cup InMemory' |->
                       IF x \in DOMAIN disk' THEN disk'[x] ELSE streams'[x].buf]
  BY DEF FilesSeen
<1>15. DOMAIN disk' \cup InMemory' = DOMAIN FilesSeen \ {o}
  BY <1>2, <1>10, <1>11, <1>12
<1>16. \A x \in DOMAIN FilesSeen \ {o} :
         (IF x \in DOMAIN disk' THEN disk'[x] ELSE streams'[x].buf) = FilesSeen[x]
  BY <1>2, <1>4, <1>10, <1>12, <1>13
<1>17. FilesSeen' = [x \in DOMAIN FilesSeen \ {o} |-> FilesSeen[x]]
  BY <1>14, <1>15, <1>16
<1> QED
  BY <1>1, <1>9, <1>17 DEF Abstract!Close

\* A stream that was closed is given to the handle.
LEMMA Granted ==
  ASSUME Types, NEW o \in Handles, ~IsOpen(o), NEW t \in Stream, ~t.closed, t.pos = 0, ~t.eof,
         streams' = [streams EXCEPT ![o] = t]
  PROVE  /\ o \notin DOMAIN FdsSeen
         /\ Abstract!Grant(o, View(o, t).file, View(o, t).access, t.append)
<1>1. OpenHandles' = OpenHandles \cup {o} /\ o \notin OpenHandles
      /\ FdsSeen' = [x \in OpenHandles \cup {o} |-> IF x = o THEN View(o, t) ELSE FdsSeen[x]]
  BY Looked DEF OpenHandles
<1>2. DOMAIN FdsSeen = OpenHandles
  BY Views
<1>3. t.eof = FALSE
  BY StreamFields
<1>4. PICK A : A = {a \in {"read", "write"} : IF a = "read" THEN t.readable ELSE t.writable}
  OBVIOUS
<1>5. PICK name : name = IF t.kind = "plain" THEN t.path ELSE o
  OBVIOUS
<1>6. View(o, t) = [file |-> name, pos |-> t.pos, access |-> A, append |-> t.append, eof |-> t.eof]
  BY <1>4, <1>5 DEF View
<1>7. View(o, t) = [file |-> name, pos |-> 0, access |-> A, append |-> t.append, eof |-> FALSE]
  BY <1>3, <1>6
<1>8. View(o, t).file = name /\ View(o, t).access = A
  BY <1>7
<1> QED
  BY <1>1, <1>2, <1>7, <1>8 DEF Abstract!Grant, Abstract!With

LEMMA MemoryImplements ==
  ASSUME Types, NEW o \in Handles, NEW mode \in Modes, NEW plus \in BOOLEAN,
         OpenMemory(o, mode, plus)
  PROVE  Abstract!OpenMemory(o)
<1>1. PICK w \in BOOLEAN : w = (mode # "r" \/ plus)
  OBVIOUS
<1>2. PICK a \in BOOLEAN : a = (mode = "a")
  OBVIOUS
<1>3. PICK t : t = [Closed EXCEPT !.closed = FALSE, !.readable = TRUE, !.writable = w, !.append = a]
  OBVIOUS
<1>4. ~IsOpen(o) /\ got' = {} /\ disk' = disk /\ streams' = [streams EXCEPT ![o] = t]
  BY <1>1, <1>2, <1>3 DEF OpenMemory
<1>5. /\ t.kind = "memory" /\ t.buf = <<>> /\ t.pos = 0 /\ t.eof = FALSE /\ t.closed = FALSE
      /\ t.readable = TRUE /\ t.writable = w /\ t.append = a
  BY <1>3 DEF Closed
<1>6. t \in Stream
  BY <1>3, ClosedType DEF Stream
<1>7. /\ o \notin DOMAIN FdsSeen
      /\ Abstract!Grant(o, View(o, t).file, View(o, t).access, t.append)
  BY <1>4, <1>5, <1>6, Granted
<1>8. FilesSeen' = Abstract!With(FilesSeen, View(o, t).file, t.buf)
  BY <1>4, <1>5, <1>6, Replaced
<1>9. View(o, t).file = o
  BY <1>5 DEF View
<1>10. View(o, t).access = IF w THEN {"read", "write"} ELSE {"read"}
  BY <1>5 DEF View
<1> QED
  BY <1>2, <1>4, <1>5, <1>7, <1>8, <1>9, <1>10
     DEF Abstract!OpenMemory, Abstract!Opened, Abstract!Put


LEMMA OpenImplements ==
  ASSUME Types, NEW o \in Handles, NEW p \in Paths, NEW mode \in Modes, NEW plus \in BOOLEAN,
         FOpen(o, p, mode, plus)
  PROVE  Abstract!Open(o, p)
<1>1. PICK r \in BOOLEAN : r = (mode = "r" \/ plus)
  OBVIOUS
<1>2. PICK w \in BOOLEAN : w = (mode # "r" \/ plus)
  OBVIOUS
<1>3. PICK a \in BOOLEAN : a = (mode = "a")
  OBVIOUS
<1>4. PICK buf : buf = IF mode # "w" /\ OnDisk(p) THEN disk[p] ELSE <<>>
  OBVIOUS
<1>5. PICK t : t = [Closed EXCEPT !.kind = "plain", !.path = p, !.closed = FALSE, !.readable = r,
                                  !.writable = w, !.append = a, !.buf = buf]
  OBVIOUS
<1>6. /\ ~IsOpen(o) /\ got' = {} /\ streams' = [streams EXCEPT ![o] = t]
      /\ disk' = IF mode = "w" \/ ~OnDisk(p) THEN Stored(p, <<>>) ELSE disk
  BY <1>1, <1>2, <1>3, <1>4, <1>5 DEF FOpen
<1>7. /\ t.kind = "plain" /\ t.path = p /\ t.buf = buf /\ t.pos = 0 /\ t.eof = FALSE
      /\ t.closed = FALSE /\ t.readable = r /\ t.writable = w /\ t.append = a
  BY <1>5 DEF Closed
<1>8. buf \in Seq(Nat)
  BY <1>4 DEF Types, DiskType, OnDisk
<1>9. t \in Stream
  BY <1>5, <1>8, ClosedType DEF Stream
<1>10. /\ o \notin DOMAIN FdsSeen
       /\ Abstract!Grant(o, View(o, t).file, View(o, t).access, t.append)
  BY <1>6, <1>7, <1>9, Granted
<1>11. View(o, t).file = p
  BY <1>7 DEF View
<1>12. PICK A : A = View(o, t).access
  OBVIOUS
<1>13. A = {x \in {"read", "write"} : IF x = "read" THEN r ELSE w}
  BY <1>7, <1>12 DEF View
<1>14. A \in (SUBSET {"read", "write"}) \ {{}} /\ (a => "write" \in A)
  <2>1. r \/ w
    BY <1>1, <1>2
  <2>2. a => w
    BY <1>2, <1>3
  <2>3. ("read" \in A <=> r) /\ ("write" \in A <=> w) /\ A \subseteq {"read", "write"}
    BY <1>13
  <2> QED
    BY <2>1, <2>2, <2>3
<1>15. Abstract!Grant(o, p, A, a)
  BY <1>7, <1>10, <1>11, <1>12
<1>16. (p \in DOMAIN FilesSeen /\ FilesSeen' = FilesSeen) \/ Abstract!Put(p, <<>>)
  <2>1. CASE mode = "w" \/ ~OnDisk(p)
    <3>1. buf = <<>>
      BY <1>4, <2>1
    <3>2. disk' = IF t.kind = "plain" THEN Stored(t.path, t.buf) ELSE disk
      BY <1>6, <1>7, <2>1, <3>1
    <3>3. FilesSeen' = Abstract!With(FilesSeen, View(o, t).file, t.buf)
      BY <1>6, <1>7, <1>9, <3>2, Replaced
    <3> QED
      BY <1>7, <1>11, <3>1, <3>3 DEF Abstract!Put
  <2>2. CASE ~(mode = "w" \/ ~OnDisk(p))
    <3>1. disk' = disk /\ p \in DOMAIN disk
      BY <1>6, <2>2 DEF OnDisk
    <3>2. \A x \in Handles : streams'[x] = IF x = o THEN t ELSE streams[x]
      BY <1>6 DEF Types
    <3>3. OpenHandles' = OpenHandles \cup {o} /\ o \notin OpenHandles /\ OpenHandles \subseteq Handles
      BY <1>6, <1>7, Looked DEF OpenHandles
    <3>4. InMemory' = InMemory /\ o \notin InMemory /\ InMemory \subseteq Handles
      BY <1>7, <3>2, <3>3 DEF InMemory
    <3>5. FilesSeen' = FilesSeen
      BY <3>1, <3>2, <3>4 DEF FilesSeen
    <3> QED
      BY <3>1, <3>5 DEF FilesSeen
  <2> QED
    BY <2>1, <2>2
<1> QED
  BY <1>3, <1>6, <1>10, <1>14, <1>15, <1>16 DEF Abstract!Open, Abstract!Opened

\* The streams stay as they are, and so do their views.
LEMMA StreamsStay ==
  ASSUME streams' = streams
  PROVE  FdsSeen' = FdsSeen /\ InMemory' = InMemory
BY DEF FdsSeen, OpenHandles, InMemory, IsOpen, File, Access

LEMMA PathsOnly ==
  ASSUME NEW p \in Paths
  PROVE  p \notin InMemory
BY StreamsAssumption DEF InMemory, OpenHandles

LEMMA PutImplements ==
  ASSUME Types, NEW p \in Paths, NEW d \in Data, NEW append \in BOOLEAN,
         FilePutContents(p, d, append)
  PROVE  Abstract!Replace(p)
<1>1. PICK content : content = IF append /\ OnDisk(p) THEN disk[p] \o d ELSE d
  OBVIOUS
<1>2. got' = {} /\ streams' = streams /\ disk' = Stored(p, content)
  BY <1>1 DEF FilePutContents
<1>3. FdsSeen' = FdsSeen /\ InMemory' = InMemory /\ p \notin InMemory
  BY <1>2, StreamsStay, PathsOnly
<1>4. FilesSeen' = Abstract!With(FilesSeen, p, content)
  <2>1. /\ DOMAIN disk' = DOMAIN disk \cup {p}
        /\ \A q \in DOMAIN disk' : disk'[q] = IF q = p THEN content ELSE disk[q]
    BY <1>2 DEF Stored
  <2>2. FilesSeen' = [x \in DOMAIN disk' \cup InMemory |->
                        IF x \in DOMAIN disk' THEN disk'[x] ELSE streams[x].buf]
    BY <1>2, <1>3 DEF FilesSeen
  <2> QED
    BY <1>3, <2>1, <2>2 DEF FilesSeen, Abstract!With
<1>5. CASE append /\ OnDisk(p)
  <2>1. p \in DOMAIN FilesSeen /\ FilesSeen[p] = disk[p]
    BY <1>5 DEF FilesSeen, OnDisk
  <2>2. content = FilesSeen[p] \o d
    BY <1>1, <1>5, <2>1
  <2> QED
    BY <1>2, <1>3, <1>4, <2>1, <2>2 DEF Abstract!Replace, Abstract!Put
<1>6. CASE ~(append /\ OnDisk(p))
  <2>1. content = d
    BY <1>1, <1>6
  <2> QED
    BY <1>2, <1>3, <1>4, <2>1 DEF Abstract!Replace, Abstract!Put
<1> QED
  BY <1>5, <1>6

LEMMA UnlinkImplements ==
  ASSUME NEW p \in Paths, Unlink(p)
  PROVE  Abstract!Replace(p)
<1>1. got' = {} /\ streams' = streams /\ disk' = [q \in DOMAIN disk \ {p} |-> disk[q]]
  BY DEF Unlink
<1>2. FdsSeen' = FdsSeen /\ InMemory' = InMemory /\ p \notin InMemory
  BY <1>1, StreamsStay, PathsOnly
<1>3. FilesSeen' = [x \in DOMAIN FilesSeen \ {p} |-> FilesSeen[x]]
  <2>1. DOMAIN FilesSeen = DOMAIN disk \cup InMemory
    BY DEF FilesSeen
  <2>2. FilesSeen' = [x \in (DOMAIN disk \ {p}) \cup InMemory |->
                        IF x \in DOMAIN disk \ {p} THEN disk[x] ELSE streams[x].buf]
    BY <1>1, <1>2 DEF FilesSeen
  <2>3. (DOMAIN disk \ {p}) \cup InMemory = DOMAIN FilesSeen \ {p}
    BY <1>2, <2>1
  <2>4. \A x \in DOMAIN FilesSeen \ {p} :
          (IF x \in DOMAIN disk \ {p} THEN disk[x] ELSE streams[x].buf) = FilesSeen[x]
    BY DEF FilesSeen
  <2> QED
    BY <2>2, <2>3, <2>4
<1> QED
  BY <1>1, <1>2, <1>3 DEF Abstract!Replace

LEMMA InitImplements == Init => Abstract!Init
<1> SUFFICES ASSUME Init PROVE Abstract!Init
  OBVIOUS
<1>1. PICK ps \in SUBSET Paths : disk \in [ps -> {<<>>} \cup Data]
  BY DEF Init
<1>2. OpenHandles = {} /\ InMemory = {}
  BY DEF Init, OpenHandles, InMemory, IsOpen, Closed
<1>3. FilesSeen = disk
  BY <1>1, <1>2 DEF FilesSeen
<1>4. FdsSeen = [o \in {} |-> 0]
  BY <1>2 DEF FdsSeen
<1> QED
  BY <1>1, <1>3, <1>4 DEF Init, Abstract!Init

\* Every step of the streams is a step of the files, or none.
LEMMA StepImplements ==
  ASSUME Types, Alone, Exclusive, [Next]_vars
  PROVE  [Abstract!Next]_(Abstract!vars)
<1>0. MaxLen \in Nat
  BY StreamsAssumption
<1>1. ASSUME NEW o \in Handles, OnStream(o)
      PROVE  Abstract!Next
  <2>1. ASSUME NEW p \in Paths, NEW mode \in Modes, NEW plus \in BOOLEAN, FOpen(o, p, mode, plus)
        PROVE  Abstract!Next
    BY <2>1, OpenImplements DEF Abstract!Next
  <2>2. ASSUME NEW p \in Paths, NEW mode \in Modes, FOpenFails(o, p, mode)
        PROVE  Abstract!Next
    BY <2>2, Refused DEF FOpenFails, Abstract!Next
  <2>3. ASSUME NEW mode \in Modes, NEW plus \in BOOLEAN, OpenMemory(o, mode, plus)
        PROVE  Abstract!Next
    BY <2>3, MemoryImplements DEF Abstract!Next
  <2>4. ASSUME NEW n \in 1 .. MaxLen + 1, FRead(o, n)
        PROVE  Abstract!Next
    <3>1. n \in Nat /\ n > 0 /\ n \in 0 .. MaxLen + 1
      BY <1>0
    <3>2. IsOpen(o)
      BY <2>4 DEF FRead, Deliver
    <3>3. o \in DOMAIN FdsSeen
      BY <3>2, Seen
    <3>4. Abstract!Read(o, n) \/ Abstract!Refuse
      BY <2>4, <3>1, ReadImplements
    <3> QED
      BY <3>1, <3>3, <3>4 DEF Abstract!Next
  <2>5. ASSUME NEW n \in 0 .. MaxLen + 1, FGets(o, n)
        PROVE  Abstract!Next
    <3>1. n \in Nat
      BY <1>0
    <3>2. IsOpen(o)
      BY <2>5 DEF FGets, Deliver
    <3>3. o \in DOMAIN FdsSeen
      BY <3>2, Seen
    <3>4. Abstract!ReadLine(o, n) \/ Abstract!Refuse
      BY <2>5, <3>1, LineImplements
    <3> QED
      BY <3>3, <3>4 DEF Abstract!Next
  <2>6. ASSUME NEW d \in Data, FWrite(o, d)
        PROVE  Abstract!Next
    <3>1. IsOpen(o)
      BY <2>6 DEF FWrite
    <3>2. o \in DOMAIN FdsSeen
      BY <3>1, Seen
    <3>3. Abstract!Write(o, d) \/ Abstract!Refuse
      BY <2>6, WriteImplements
    <3> QED
      BY <3>2, <3>3 DEF Abstract!Next
  <2>7. ASSUME NEW n \in Sizes, FSeek(o, n) \/ FTruncate(o, n)
        PROVE  Abstract!Next
    <3>1. n \in Nat /\ n \in 0 .. MaxLen + 1
      BY <1>0 DEF Sizes
    <3>2. IsOpen(o)
      BY <2>7 DEF FSeek, FTruncate
    <3>3. o \in DOMAIN FdsSeen
      BY <3>2, Seen
    <3>4. Abstract!Seek(o, n) \/ Abstract!Truncate(o, n) \/ Abstract!Refuse
      BY <2>7, <3>1, SeekImplements, TruncateImplements
    <3> QED
      BY <3>1, <3>3, <3>4 DEF Abstract!Next
  <2>8. ASSUME FStat(o)
        PROVE  Abstract!Next
    <3>1. o \in DOMAIN FdsSeen
      BY <2>8, Seen DEF FStat
    <3> QED
      BY <2>8, <3>1, StatImplements DEF Abstract!Next
  <2>9. ASSUME FFlush(o)
        PROVE  Abstract!Next
    <3>1. streams' = streams /\ disk' = disk /\ got' = {}
      BY <2>9, FlushUnseen DEF FFlush
    <3> QED
      BY <3>1, Refused DEF Abstract!Next
  <2>10. ASSUME FClose(o)
         PROVE  Abstract!Next
    <3>1. o \in DOMAIN FdsSeen
      BY <2>10, Seen DEF FClose
    <3> QED
      BY <2>10, <3>1, CloseImplements DEF Abstract!Next
  <2> QED
    BY <1>1, <2>1, <2>2, <2>3, <2>4, <2>5, <2>6, <2>7, <2>8, <2>9, <2>10, Zenon DEF OnStream
<1>2. ASSUME NEW p \in Paths, NEW d \in Data, NEW append \in BOOLEAN, FilePutContents(p, d, append)
      PROVE  Abstract!Next
  BY <1>2, PutImplements DEF Abstract!Next
<1>3. ASSUME NEW p \in Paths, Unlink(p)
      PROVE  Abstract!Next
  BY <1>3, UnlinkImplements DEF Abstract!Next
<1>4. ASSUME UNCHANGED vars
      PROVE  UNCHANGED Abstract!vars
  <2>1. streams' = streams /\ disk' = disk /\ got' = got
    BY <1>4 DEF vars
  <2> QED
    BY <2>1, Unseen DEF Abstract!vars
<1> QED
  BY <1>1, <1>2, <1>3, <1>4, Zenon DEF Next

(***************************************************************************)
(* Streams.ImplementsFiles, where a file has several readers or one writer: *)
(* the whole contents that streams carry and write back cannot be told from *)
(* positions on files that everybody shares.                                *)
(***************************************************************************)
THEOREM StreamsShareFiles == Exclusive => (Spec => ImplementsFiles)
<1> SUFFICES ASSUME Exclusive
             PROVE  Spec => ImplementsFiles
  OBVIOUS
<1>1. Types /\ Alone /\ [Next]_vars => [Abstract!Next]_(Abstract!vars)
  BY StepImplements
<1> QED
  BY <1>1, Inductive, InitImplements, PTL DEF Spec, ImplementsFiles, Abstract!Spec
=============================================================================
