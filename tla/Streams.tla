------------------------------- MODULE Streams -------------------------------
(***************************************************************************)
(* Plain files and memory streams of stdlib/fileres.rs.  A stream carries  *)
(* the WHOLE content: fopen loads it, reads and writes work on the copy,   *)
(* and flush writes all of it back after every change.  The whole-file     *)
(* functions of stdlib/fileio.rs go to the disk directly.                  *)
(*                                                                         *)
(* What a script does is not fixed: any open stream may be read, written,  *)
(* moved, truncated and closed at any time.  With Exclusive, a path has    *)
(* several readers or one writer, and the whole-file functions leave a     *)
(* path alone while a stream is open on it.                                *)
(***************************************************************************)
EXTENDS Integers, FiniteSets, SequencesExt

CONSTANTS
  Handles,    \* the variables that hold streams
  Paths,      \* the files
  Characters, \* the bytes a script writes
  MaxData,    \* bound on the length of what it writes in one call
  MaxLen,     \* bound on the length of a file and on a position
  Exclusive   \* does a file have several readers or one writer?

ASSUME StreamsAssumption ==
  /\ MaxLen \in Nat /\ MaxData \in Nat /\ Exclusive \in BOOLEAN
  /\ Characters \subseteq Nat
  /\ "" \notin Paths /\ Handles \cap Paths = {}

VARIABLES
  streams,  \* the stream each handle holds
  disk,     \* the content of each file there is
  got       \* what the last operation gave the script: {} is false

vars == <<streams, disk, got>>

-----------------------------------------------------------------------------
Nul == 0
NewLine == 1
Sizes == 0 .. MaxLen
Data == UNION {[1 .. n -> Characters] : n \in 0 .. MaxData}

\* Stream; the kinds that hand their text on at once are not here.
Stream ==
  [kind : {"plain", "memory"}, path : Paths \cup {""}, buf : Seq(Nat), pos : Nat,
   readable : BOOLEAN, writable : BOOLEAN, append : BOOLEAN, eof : BOOLEAN,
   dirty : BOOLEAN, closed : BOOLEAN]

\* What a closed stream held is never looked at again.
Closed ==
  [kind |-> "memory", path |-> "", buf |-> <<>>, pos |-> 0, readable |-> FALSE,
   writable |-> FALSE, append |-> FALSE, eof |-> FALSE, dirty |-> FALSE, closed |-> TRUE]

Modes == {"r", "w", "a", "x", "c"}

IsOpen(o) == ~streams[o].closed
OnDisk(p) == p \in DOMAIN disk
Users(p) == {o \in Handles : IsOpen(o) /\ streams[o].kind = "plain" /\ streams[o].path = p}
Readable(p) == Exclusive => \A o \in Users(p) : ~streams[o].writable
Free(p) == Exclusive => Users(p) = {}

\* Vec::resize.
Resize(s, n) == [i \in 1 .. n |-> IF i <= Len(s) THEN s[i] ELSE Nul]

\* The loop of gets: past the newline if there is one before `cap`.
LineEnd(s, cap) ==
  LET at == {i \in s.pos + 1 .. cap : s.buf[i] = NewLine}
  IN  IF at = {} THEN cap ELSE Min(at)

\* The disk with `content` in the file p.
Stored(p, content) == [q \in DOMAIN disk \cup {p} |-> IF q = p THEN content ELSE disk[q]]

\* Mutant: what follows the written bytes is cut off.
WriteCutsOff(s, d) ==
  LET at == IF s.append THEN Len(s.buf) ELSE s.pos
      padded == IF at > Len(s.buf) THEN Resize(s.buf, at) ELSE s.buf
  IN  [s EXCEPT !.buf = SubSeq(padded, 1, at) \o d, !.pos = @ + Len(d), !.dirty = TRUE]

\* Mutant: an append does not move the position.
AppendStaysPut(s, d) ==
  LET at == IF s.append THEN Len(s.buf) ELSE s.pos
      padded == IF at > Len(s.buf) THEN Resize(s.buf, at) ELSE s.buf
      kept == SubSeq(padded, at + Len(d) + 1, Len(padded))
  IN  [s EXCEPT !.buf = SubSeq(padded, 1, at) \o d \o kept,
                !.pos = IF s.append THEN @ ELSE @ + Len(d), !.dirty = TRUE]

\* write_at_cursor
WriteAtCursor(s, d) ==
  LET at == IF s.append THEN Len(s.buf) ELSE s.pos
      padded == IF at > Len(s.buf) THEN Resize(s.buf, at) ELSE s.buf
      kept == SubSeq(padded, at + Len(d) + 1, Len(padded))
  IN  [s EXCEPT !.buf = SubSeq(padded, 1, at) \o d \o kept, !.pos = @ + Len(d), !.dirty = TRUE]

\* flush: the stream becomes s, and the file its buffer if there are changes.
Flush(o, s) ==
  LET due == s.kind = "plain" /\ s.dirty IN
  /\ streams' = [streams EXCEPT ![o] = [s EXCEPT !.dirty = @ /\ ~due]]
  /\ disk' = IF due THEN Stored(s.path, s.buf) ELSE disk

-----------------------------------------------------------------------------
Init ==
  /\ streams = [o \in Handles |-> Closed]
  /\ \E ps \in SUBSET Paths : disk \in [ps -> {<<>>} \cup Data]
  /\ got = {}

\* fopen($path, $mode) of a file that cannot be opened that way gives false.
CanOpen(p, mode) == IF mode = "r" THEN OnDisk(p) ELSE mode = "x" => ~OnDisk(p)

FOpen(o, p, mode, plus) ==
  /\ ~IsOpen(o) /\ CanOpen(p, mode)
  /\ IF mode = "r" /\ ~plus THEN Readable(p) ELSE Free(p)
  /\ streams' = [streams EXCEPT ![o] =
       [Closed EXCEPT !.kind = "plain", !.path = p, !.closed = FALSE,
          !.readable = mode = "r" \/ plus, !.writable = mode # "r" \/ plus,
          !.append = mode = "a",
          !.buf = IF mode # "w" /\ OnDisk(p) THEN disk[p] ELSE <<>>]]
  /\ disk' = IF mode = "w" \/ ~OnDisk(p) THEN Stored(p, <<>>) ELSE disk
  /\ got' = {}

FOpenFails(o, p, mode) ==
  ~IsOpen(o) /\ ~CanOpen(p, mode) /\ got' = {} /\ UNCHANGED <<streams, disk>>

\* php://memory, php://temp and tmpfile()
OpenMemory(o, mode, plus) ==
  /\ ~IsOpen(o)
  /\ streams' = [streams EXCEPT ![o] =
       [Closed EXCEPT !.closed = FALSE, !.readable = TRUE,
          !.writable = mode # "r" \/ plus, !.append = mode = "a"]]
  /\ got' = {} /\ UNCHANGED disk

\* Stream::read, for fread, fgetc and the readers of all the rest, which ask
\* for more than any file has.
Fetch(s, n) ==
  LET start == Min({s.pos, Len(s.buf)})
      end == Min({start + n, Len(s.buf)})
  IN  [data |-> SubSeq(s.buf, start + 1, end),
       next |-> [s EXCEPT !.eof = @ \/ end - start < n,
                          !.pos = IF end > start THEN end ELSE @]]

\* A stream that was not opened for reading gives false.
Deliver(o, answer, next) ==
  /\ IsOpen(o) /\ UNCHANGED disk
  /\ IF streams[o].readable
       THEN got' = answer /\ streams' = [streams EXCEPT ![o] = next]
       ELSE got' = {} /\ UNCHANGED streams

FRead(o, n) == LET f == Fetch(streams[o], n) IN Deliver(o, {f.data}, f.next)

\* fgets, of n bytes at most
FGets(o, n) ==
  LET s == streams[o]
      end == LineEnd(s, Min({s.pos + n, Len(s.buf)}))
      short == end = Len(s.buf) /\ end < s.pos + n /\ s.buf[end] # NewLine
  IN  IF s.pos >= Len(s.buf)
        THEN Deliver(o, {}, [s EXCEPT !.eof = TRUE])
        ELSE Deliver(o, {SubSeq(s.buf, s.pos + 1, end)},
                     [s EXCEPT !.pos = end, !.eof = @ \/ short])

\* Mutant: a write is left to fflush and fclose.
FWriteLazily(o, d) ==
  /\ IsOpen(o) /\ got' = {}
  /\ IF streams[o].writable
       THEN streams' = [streams EXCEPT ![o] = WriteAtCursor(@, d)]
       ELSE UNCHANGED streams
  /\ Len(streams'[o].buf) <= MaxLen /\ streams'[o].pos <= MaxLen
  /\ UNCHANGED disk

FWrite(o, d) ==
  /\ IsOpen(o) /\ got' = {}
  /\ IF streams[o].writable
       THEN Flush(o, WriteAtCursor(streams[o], d))
       ELSE UNCHANGED <<streams, disk>>
  /\ Len(streams'[o].buf) <= MaxLen /\ streams'[o].pos <= MaxLen

\* Mutant: a target before the start of the file is not refused.
FSeekUnchecked(o, pos) ==
  /\ IsOpen(o) /\ got' = {}
  /\ streams' = [streams EXCEPT ![o] = [@ EXCEPT !.pos = pos - 1, !.eof = FALSE]]
  /\ UNCHANGED disk

\* fseek and rewind, to a position that is not negative
FSeek(o, pos) ==
  /\ IsOpen(o) /\ got' = {}
  /\ streams' = [streams EXCEPT ![o] = [@ EXCEPT !.pos = pos, !.eof = FALSE]]
  /\ UNCHANGED disk

FTruncate(o, size) ==
  /\ IsOpen(o) /\ got' = {}
  /\ LET s == streams[o] IN
     Flush(o, IF s.writable THEN [s EXCEPT !.buf = Resize(@, size), !.dirty = TRUE] ELSE s)

\* fstat's size is the buffer's.
FStat(o) ==
  /\ IsOpen(o) /\ got' = {<<Len(streams[o].buf)>>} /\ UNCHANGED <<streams, disk>>

FFlush(o) == IsOpen(o) /\ got' = {} /\ Flush(o, streams[o])

FClose(o) ==
  /\ IsOpen(o) /\ got' = {}
  /\ disk' = IF streams[o].kind = "plain" /\ streams[o].dirty
               THEN Stored(streams[o].path, streams[o].buf) ELSE disk
  /\ streams' = [streams EXCEPT ![o] = Closed]

FilePutContents(p, d, append) ==
  LET content == IF append /\ OnDisk(p) THEN disk[p] \o d ELSE d IN
  /\ Free(p) /\ Len(content) <= MaxLen
  /\ disk' = Stored(p, content)
  /\ got' = {} /\ UNCHANGED streams

Unlink(p) ==
  /\ Free(p) /\ OnDisk(p)
  /\ disk' = [q \in DOMAIN disk \ {p} |-> disk[q]]
  /\ got' = {} /\ UNCHANGED streams

OnStream(o) ==
  \/ \E p \in Paths, mode \in Modes, plus \in BOOLEAN : FOpen(o, p, mode, plus)
  \/ \E p \in Paths, mode \in Modes : FOpenFails(o, p, mode)
  \/ \E mode \in Modes, plus \in BOOLEAN : OpenMemory(o, mode, plus)
  \/ \E n \in 1 .. MaxLen + 1 : FRead(o, n)
  \/ \E n \in 0 .. MaxLen + 1 : FGets(o, n)
  \/ \E d \in Data : FWrite(o, d)
  \/ \E n \in Sizes : FSeek(o, n) \/ FTruncate(o, n)
  \/ FStat(o) \/ FFlush(o) \/ FClose(o)

Next ==
  \/ \E o \in Handles : OnStream(o)
  \/ \E p \in Paths :
       \/ \E d \in Data, append \in BOOLEAN : FilePutContents(p, d, append)
       \/ Unlink(p)

Spec == Init /\ [][Next]_vars

-----------------------------------------------------------------------------
TypeOK ==
  /\ streams \in [Handles -> Stream]
  /\ DOMAIN disk \subseteq Paths /\ \A p \in DOMAIN disk : disk[p] \in Seq(Nat)
  /\ Cardinality(got) <= 1 /\ \A answer \in got : answer \in Seq(Nat)

\* A stream at its end has given everything: a loop on feof misses nothing,
\* unless the file was lengthened with ftruncate behind its position.
Missed(s) == ~s.closed /\ s.eof /\ s.pos < Len(s.buf)
EofMeansAllRead ==
  [][\A o \in Handles : Missed(streams'[o]) /\ ~Missed(streams[o])
       => \E n \in Sizes : n > Len(streams[o].buf) /\ FTruncate(o, n)]_vars

\* "Every write is flushed to disk immediately": between two calls the file
\* of a stream that has it alone is what the stream carries.
DiskIsBuffer ==
  Exclusive => \A o \in Handles :
    IsOpen(o) /\ streams[o].kind = "plain"
      => /\ OnDisk(streams[o].path) /\ disk[streams[o].path] = streams[o].buf
         /\ ~streams[o].dirty

\* "Every write lands at the end whatever the cursor says": appending adds to
\* the file and takes nothing away.
AppendsLand ==
  [][\A o \in Handles, d \in Data :
       /\ FWrite(o, d) /\ streams[o].kind = "plain"
       /\ streams[o].append /\ OnDisk(streams[o].path)
       => disk'[streams[o].path] = disk[streams[o].path] \o d]_vars

\* Seen from the script, streams are positions on files they share with
\* everybody: the copies cannot be told apart from the files.
OpenHandles == {o \in Handles : IsOpen(o)}
InMemory == {o \in OpenHandles : streams[o].kind = "memory"}
File(o) == IF streams[o].kind = "plain" THEN streams[o].path ELSE o
Access(o) == {a \in {"read", "write"} : IF a = "read" THEN streams[o].readable ELSE streams[o].writable}

FilesSeen ==
  [x \in DOMAIN disk \cup InMemory |-> IF x \in DOMAIN disk THEN disk[x] ELSE streams[x].buf]
FdsSeen ==
  [o \in OpenHandles |->
     [file |-> File(o), pos |-> streams[o].pos, access |-> Access(o),
      append |-> streams[o].append, eof |-> streams[o].eof]]

Abstract == INSTANCE Files WITH files <- FilesSeen, fds <- FdsSeen

ImplementsFiles == Abstract!Spec
=============================================================================
