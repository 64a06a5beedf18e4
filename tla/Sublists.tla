------------------------------- MODULE Sublists -------------------------------
(***************************************************************************)
(* What is left of a sequence when elements are taken out of it.           *)
(***************************************************************************)
EXTENDS SequencesExt

\* The elements of s that are in `kept`, in their order.
Keep(s, kept) ==
  LET left[i \in 0 .. Len(s)] ==
        IF i = 0 THEN <<>>
        ELSE IF s[i] \in kept THEN Append(left[i - 1], s[i]) ELSE left[i - 1]
  IN  left[Len(s)]

\* For distinct elements: s is what is left of t when some are taken out.
LeftOf(s, t) == s = Keep(t, Range(s))
=============================================================================
