---------------------------- MODULE OutputStream ----------------------------
(***************************************************************************)
(* What output buffering promises the program: text reaches the client in  *)
(* the order it was written, each text at most once and never taken back.  *)
(* A buffer may hold text back, and text held back may be dropped, but     *)
(* never overtaken or repeated.                                            *)
(***************************************************************************)
EXTENDS Naturals, Sublists

VARIABLES
  client,   \* the texts the client has
  pending,  \* the texts written and held back, oldest first
  written   \* how many texts have been written; they are numbered from 1

vars == <<client, pending, written>>

Init == client = <<>> /\ pending = <<>> /\ written = 0

\* Oldest first, some of what is held back is dropped and some released.
Advance(held) ==
  /\ IsPrefix(client, client')
  /\ LeftOf(SubSeq(client', Len(client) + 1, Len(client')) \o pending', held)

Write == written' = written + 1 /\ Advance(Append(pending, written'))

Release == written' = written /\ Advance(pending)

Next == Write \/ Release

Spec == Init /\ [][Next]_vars
=============================================================================
