-------------------------------- MODULE Files --------------------------------
(***************************************************************************)
(* What a script expects of its files: one content per name, which every   *)
(* stream on it shares, and a position per stream.  A memory stream is a   *)
(* file of its own that goes with it.  Nothing here buffers anything.      *)
(***************************************************************************)
EXTENDS Integers, SequencesExt

CONSTANTS Handles, Paths, Data, MaxLen

VARIABLES
  files,   \* the contents, by name: a path, or the handle of a memory stream
  fds,     \* the open streams, by handle
  got      \* what the last operation gave the script: {} is false

vars == <<files, fds, got>>

-----------------------------------------------------------------------------
Nul == 0
NewLine == 1
Sizes == 0 .. MaxLen

\* f with f[x] = y, whether x was in its domain or not.
With(f, x, y) == [z \in DOMAIN f \cup {x} |-> IF z = x THEN y ELSE f[z]]

Put(name, content) == files' = With(files, name, content)

\* `content` with d from offset `at` on; a hole reads as NULs.
Overwritten(content, at, d) ==
  LET Covers(i) == i > at /\ i <= at + Len(d)
  IN  [i \in 1 .. Max({Len(content), at, at + Len(d)}) |->
         IF Covers(i) THEN d[i - at] ELSE IF i <= Len(content) THEN content[i] ELSE Nul]

\* A line is what is left up to and with the first newline, n bytes at most.
LineEnds(content, from, n) ==
  {from + n, Len(content)} \cup {i \in from + 1 .. Len(content) : content[i] = NewLine}

Opened(o) == o \in DOMAIN fds
Content(o) == files[fds[o].file]
Change(o, fd) == fds' = [fds EXCEPT ![o] = fd]

-----------------------------------------------------------------------------
Init ==
  /\ \E ps \in SUBSET Paths : files \in [ps -> {<<>>} \cup Data]
  /\ fds = [o \in {} |-> 0] /\ got = {}

Grant(o, name, access, append) ==
  fds' = With(fds, o,
    [file |-> name, pos |-> 0, access |-> access, append |-> append, eof |-> FALSE])

\* Opening may create the file or empty it.
Open(o, p) ==
  /\ ~Opened(o) /\ got' = {}
  /\ \E access \in (SUBSET {"read", "write"}) \ {{}}, append \in BOOLEAN :
       /\ append => "write" \in access
       /\ Grant(o, p, access, append)
  /\ \/ p \in DOMAIN files /\ UNCHANGED files
     \/ Put(p, <<>>)

OpenMemory(o) ==
  /\ ~Opened(o) /\ got' = {}
  /\ \E access \in {{"read"}, {"read", "write"}}, append \in BOOLEAN :
       Grant(o, o, access, append)
  /\ Put(o, <<>>)

\* At most n bytes; wanting more than there is is the end of the file.
Read(o, n) ==
  LET fd == fds[o] end == Min({Len(Content(o)), fd.pos + n}) IN
  /\ "read" \in fd.access
  /\ got' = {SubSeq(Content(o), fd.pos + 1, end)}
  /\ Change(o, [fd EXCEPT !.pos = Max({@, end}), !.eof = @ \/ end < fd.pos + n])
  /\ UNCHANGED files

ReadLine(o, n) ==
  LET fd == fds[o] end == Min({i \in LineEnds(Content(o), fd.pos, n) : i >= fd.pos}) IN
  /\ "read" \in fd.access
  /\ IF fd.pos >= Len(Content(o))
       THEN got' = {} /\ Change(o, [fd EXCEPT !.eof = TRUE])
       ELSE /\ got' = {SubSeq(Content(o), fd.pos + 1, end)}
            /\ Change(o, [fd EXCEPT !.pos = end,
                 !.eof = @ \/ (end < fd.pos + n /\ Content(o)[end] # NewLine)])
  /\ UNCHANGED files

\* Appending goes to the end as it is now; the position counts on from where
\* it was.
Write(o, d) ==
  LET fd == fds[o] at == IF fd.append THEN Len(Content(o)) ELSE fd.pos IN
  /\ "write" \in fd.access
  /\ Put(fd.file, Overwritten(Content(o), at, d))
  /\ Change(o, [fd EXCEPT !.pos = @ + Len(d)])
  /\ got' = {}

Truncate(o, n) ==
  /\ "write" \in fds[o].access
  /\ Put(fds[o].file, [i \in 1 .. n |-> IF i <= Len(Content(o)) THEN Content(o)[i] ELSE Nul])
  /\ UNCHANGED fds /\ got' = {}

Seek(o, pos) ==
  /\ Change(o, [fds[o] EXCEPT !.pos = pos, !.eof = FALSE])
  /\ UNCHANGED files /\ got' = {}

Size(o) == got' = {<<Len(Content(o))>>} /\ UNCHANGED <<files, fds>>

Refuse == got' = {} /\ UNCHANGED <<files, fds>>

Close(o) ==
  /\ fds' = [x \in DOMAIN fds \ {o} |-> fds[x]]
  /\ files' = [x \in DOMAIN files \ {o} |-> files[x]]
  /\ got' = {}

\* The functions on whole files.
Replace(p) ==
  /\ got' = {} /\ UNCHANGED fds
  /\ \/ \E d \in Data : Put(p, d) \/ (p \in DOMAIN files /\ Put(p, files[p] \o d))
     \/ files' = [x \in DOMAIN files \ {p} |-> files[x]]

Next ==
  \/ \E o \in Handles, p \in Paths : Open(o, p)
  \/ \E o \in Handles : OpenMemory(o)
  \/ \E o \in DOMAIN fds :
       \/ \E n \in 0 .. MaxLen + 1 : Read(o, n) \/ ReadLine(o, n) \/ Truncate(o, n) \/ Seek(o, n)
       \/ \E d \in Data : Write(o, d)
       \/ Size(o) \/ Close(o)
  \/ \E p \in Paths : Replace(p)
  \/ Refuse

Spec == Init /\ [][Next]_vars
=============================================================================
