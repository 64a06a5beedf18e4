---------------------------- MODULE TryCompletion ----------------------------
(***************************************************************************)
(* What a `try` statement promises the program, with no chunks, signals or *)
(* host fields: the completion of a body (normal, return, throw, break,    *)
(* continue, exit or fatal) travels outwards; a catch may claim a throw; a *)
(* finally holds any completion but an exit back until it has run, and     *)
(* replaces it when it does not end normally itself; a break or continue   *)
(* ends at the loop it was aimed at, however many tries it leaves.         *)
(*                                                                         *)
(* A break names its loop once, when it is issued, by the number of loops  *)
(* of the function that stay open (`aim`); TryFinally carries a relative   *)
(* level through the host instead and implements this specification.       *)
(***************************************************************************)
EXTENDS Naturals, Sequences

CONSTANTS MaxFrames, MaxLoops

VARIABLES
  frames,  \* the bodies in execution, innermost last
  flow,    \* the completion under way, or Running, or Over
  outcome  \* how the program ended

vars == <<frames, flow, outcome>>

Relayed == {"break", "continue"}
Running == [type |-> "running", aim |-> 0]
Over == [type |-> "over", aim |-> 0]
Normal == [type |-> "normal", aim |-> 0]
Plain == {"normal", "return", "throw", "exit", "fatal"}

New(kind, hasFinally, outer) ==
  [kind |-> kind, phase |-> "body", hasFinally |-> hasFinally,
   outer |-> outer, loops |-> 0, pending |-> Normal]

top == frames[Len(frames)]
Below == SubSeq(frames, 1, Len(frames) - 1)
WithTop(f) == [frames EXCEPT ![Len(frames)] = f]

Init ==
  /\ frames = << New("main", FALSE, 0) >>
  /\ flow = Running
  /\ outcome = "none"

\* A loop is entered, left, or the target of a jump inside the body.
Loop ==
  /\ flow = Running /\ UNCHANGED <<flow, outcome>>
  /\ \E l \in 0 .. MaxLoops - top.outer : frames' = WithTop([top EXCEPT !.loops = l])

Enter ==
  /\ flow = Running /\ Len(frames) < MaxFrames /\ UNCHANGED <<flow, outcome>>
  /\ \/ frames' = Append(frames, New("fn", FALSE, 0))
     \/ \E hasFinally \in BOOLEAN :
          frames' = Append(frames, New("try", hasFinally, top.outer + top.loops))

\* The loops that a break, or a continue, out of a body can be aimed at.
Aims(type, outer) == IF type = "break" THEN 0 .. outer - 1 ELSE 1 .. outer

\* The body ends.  A finally that ends normally resumes what it held back.
Complete ==
  /\ flow = Running
  /\ \/ \E type \in Plain :
          flow' = IF type = "normal" THEN top.pending ELSE [type |-> type, aim |-> 0]
     \/ \E type \in Relayed : \E aim \in Aims(type, top.outer) :
          flow' = [type |-> type, aim |-> aim]
  /\ frames' = WithTop([top EXCEPT !.loops = 0, !.pending = Normal])
  /\ UNCHANGED outcome

Catch ==
  /\ flow.type = "throw" /\ top.kind = "try" /\ top.phase = "body"
  /\ flow' = Running
  /\ frames' = WithTop([top EXCEPT !.phase = "catch"])
  /\ UNCHANGED outcome

Finally ==
  /\ flow # Running /\ flow.type # "exit"
  /\ top.kind = "try" /\ top.hasFinally /\ top.phase # "finally"
  /\ flow' = Running
  /\ frames' = WithTop([top EXCEPT !.phase = "finally", !.pending = flow])
  /\ UNCHANGED outcome

\* The loop a completion is aimed at stands in the body with `outer` loops
\* around it.
Lands(c, outer) == c.type \in Relayed /\ c.aim \in outer + (IF c.type = "break" THEN 0 ELSE 1) .. MaxLoops

Leave ==
  /\ flow # Running /\ top.kind = "try"
  /\ top.hasFinally => top.phase = "finally" \/ flow.type = "exit"
  /\ LET parent == Below[Len(Below)]
         lands == Lands(flow, parent.outer)
     IN /\ flow' = IF lands \/ flow = Normal THEN Running ELSE flow
        /\ frames' = CASE flow = Normal -> Below
                       [] lands -> [Below EXCEPT ![Len(Below)].loops = flow.aim - parent.outer]
                       [] OTHER -> [Below EXCEPT ![Len(Below)].loops = 0,
                                                 ![Len(Below)].pending = Normal]
  /\ UNCHANGED outcome

ReturnFromCall ==
  /\ flow.type \in Plain /\ top.kind = "fn"
  /\ IF flow.type \in {"normal", "return"}
       THEN frames' = Below /\ flow' = Running
       ELSE /\ frames' = [Below EXCEPT ![Len(Below)].loops = 0,
                                       ![Len(Below)].pending = Normal]
            /\ flow' = flow
  /\ UNCHANGED outcome

End ==
  /\ flow.type \in Plain /\ top.kind = "main"
  /\ flow' = Over
  /\ outcome' = CASE flow.type = "throw" -> "uncaught"
                  [] flow.type \in {"fatal", "exit"} -> flow.type
                  [] OTHER -> "normal"
  /\ UNCHANGED frames

Next == Loop \/ Enter \/ Complete \/ Catch \/ Finally \/ Leave \/ ReturnFromCall \/ End

Spec == Init /\ [][Next]_vars
=============================================================================
