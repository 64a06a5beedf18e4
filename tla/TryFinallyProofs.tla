--------------------------- MODULE TryFinallyProofs ---------------------------
(***************************************************************************)
(* Proofs about TryFinally, for every bound: the types and what a running  *)
(* body may count on (FInv), where an exit stops (Leaving), that a break   *)
(* finds its own level (Levels, Aimed), and on top of all of them that     *)
(* detached chunks implement the try statement of TryCompletion.           *)
(***************************************************************************)
EXTENDS TryFinally, SequenceTheorems, TLAPS

-----------------------------------------------------------------------------
(* The operations on the stack of chunks.                                  *)

\* The innermost chunk of a non-empty stack is a frame.
LEMMA TopIsFrame ==
  ASSUME NEW s \in Seq(Frames), Len(s) >= 1
  PROVE  s[Len(s)] \in Frames
  BY LenProperties, ElementOfSeq

\* Starting a chunk leaves the others as they are.
LEMMA PushProperties ==
  ASSUME NEW s \in Seq(Frames), NEW f \in Frames
  PROVE  /\ Append(s, f) \in Seq(Frames)
         /\ Len(Append(s, f)) = Len(s) + 1
         /\ Append(s, f)[Len(s) + 1] = f
         /\ \A i \in 1 .. Len(s) : Append(s, f)[i] = s[i]
  BY AppendProperties, LenProperties

\* Ending a chunk leaves the others as they are.
LEMMA PopProperties ==
  ASSUME NEW s \in Seq(Frames), Len(s) >= 2
  PROVE  /\ Pop(s) \in Seq(Frames)
         /\ Len(Pop(s)) = Len(s) - 1
         /\ \A i \in 1 .. Len(s) - 1 : Pop(s)[i] = s[i]
<1>1. Len(s) \in Nat /\ \A i \in 1 .. Len(s) - 1 : s[i] \in Frames
  BY LenProperties, ElementOfSeq
<1>2. QED
  BY <1>1, SubSeqProperties DEF Pop

\* Replacing the innermost frame leaves the others as they are.
LEMMA WithTopProperties ==
  ASSUME NEW s \in Seq(Frames), Len(s) >= 1, NEW f \in Frames
  PROVE  /\ WithTop(s, f) \in Seq(Frames)
         /\ Len(WithTop(s, f)) = Len(s)
         /\ WithTop(s, f)[Len(s)] = f
         /\ \A i \in 1 .. Len(s) - 1 : WithTop(s, f)[i] = s[i]
<1>1. Len(s) \in Nat
  BY LenProperties
<1>2. QED
  BY <1>1, ExceptSeq DEF WithTop

\* Halting a chunk closes its loops and regions and changes nothing else.
LEMMA AbandonProperties ==
  ASSUME NEW s \in Seq(Frames), Len(s) >= 1
  PROVE  /\ [s[Len(s)] EXCEPT !.loops = 0, !.at = 0] \in Frames
         /\ Abandon(s) \in Seq(Frames)
         /\ Len(Abandon(s)) = Len(s)
         /\ \A i \in 1 .. Len(s) - 1 : Abandon(s)[i] = s[i]
         /\ Abandon(s)[Len(s)] = [s[Len(s)] EXCEPT !.loops = 0, !.at = 0]
<1>1. [s[Len(s)] EXCEPT !.loops = 0, !.at = 0] \in Frames
  BY TopIsFrame DEF Frames
<1>2. QED
  BY <1>1, WithTopProperties DEF Abandon

-----------------------------------------------------------------------------
(* The invariant.                                                          *)

\* The stack is one main chunk with bodies and calls on top of it; a try
\* body knows the loops around it, and every chunk the regions around it.
StackOK(s) ==
  /\ s \in Seq(Frames)
  /\ Len(s) \in 1 .. MaxFrames
  /\ \A i \in 1 .. Len(s) :
       /\ s[i].kind = "main" <=> i = 1
       /\ i > 1 => s[i].base = Regions(s[i - 1])
       /\ s[i].kind = "try" => /\ s[i].outer = OpenLoops(s[i - 1])
                               /\ s[i].depth >= s[i].base
       /\ s[i].kind # "try" => s[i].outer = 0

Clean == signal = NoSignal /\ ~throwing /\ ~error

SignalsOK ==
  /\ mode \in {"run", "orchestrate"} /\ ~exiting => Clean
  /\ OneReason

ModeOK ==
  /\ mode = "orchestrate" => top.kind = "try"
  /\ mode # "run" => top.loops = 0 /\ top.at = 0

Covered == suppress >= Regions(top)

FInv == TypeOK /\ StackOK(stack) /\ ModeOK /\ SignalsOK /\ Covered

\* A frame replaced by one of the same construct keeps the stack well formed.
LEMMA StackWithTop ==
  ASSUME NEW s, StackOK(s), NEW f \in Frames,
         f.kind = s[Len(s)].kind, f.base = s[Len(s)].base,
         f.outer = s[Len(s)].outer, f.depth = s[Len(s)].depth
  PROVE  /\ StackOK(WithTop(s, f))
         /\ Len(WithTop(s, f)) = Len(s)
         /\ WithTop(s, f)[Len(s)] = f
<1>1. /\ WithTop(s, f) \in Seq(Frames)
      /\ Len(WithTop(s, f)) = Len(s)
      /\ WithTop(s, f)[Len(s)] = f
      /\ \A i \in 1 .. Len(s) - 1 : WithTop(s, f)[i] = s[i]
  BY WithTopProperties DEF StackOK
<1>2. Len(s) \in Nat
  BY LenProperties DEF StackOK
<1>3. QED
  BY <1>1, <1>2 DEF StackOK

\* Halting the innermost chunk keeps the stack well formed.
LEMMA StackAbandon ==
  ASSUME NEW s, StackOK(s)
  PROVE  /\ StackOK(Abandon(s))
         /\ Len(Abandon(s)) = Len(s)
         /\ Abandon(s)[Len(s)] = [s[Len(s)] EXCEPT !.loops = 0, !.at = 0]
<1>1. Len(s) >= 1 /\ s \in Seq(Frames)
  BY DEF StackOK
<1>2. s[Len(s)] \in Frames
  BY <1>1, TopIsFrame
<1> DEFINE f == [s[Len(s)] EXCEPT !.loops = 0, !.at = 0]
<1>3. /\ f \in Frames /\ f.kind = s[Len(s)].kind /\ f.base = s[Len(s)].base
      /\ f.outer = s[Len(s)].outer /\ f.depth = s[Len(s)].depth
  BY <1>2 DEF Frames
<1>4. Abandon(s) = WithTop(s, f)
  BY DEF Abandon
<1> HIDE DEF f
<1>5. StackOK(WithTop(s, f)) /\ Len(WithTop(s, f)) = Len(s) /\ WithTop(s, f)[Len(s)] = f
  BY <1>3, StackWithTop
<1>6. QED
  BY <1>4, <1>5 DEF f

\* A try body or a callee started under the innermost chunk.
LEMMA StackPush ==
  ASSUME NEW s, StackOK(s), Len(s) < MaxFrames, MaxFrames \in Nat, NEW f \in Frames,
         f.kind # "main", f.base = Regions(s[Len(s)]),
         f.kind = "try" => f.outer = OpenLoops(s[Len(s)]) /\ f.depth >= f.base,
         f.kind # "try" => f.outer = 0
  PROVE  /\ StackOK(Append(s, f))
         /\ Len(Append(s, f)) = Len(s) + 1
         /\ Append(s, f)[Len(s) + 1] = f
<1>1. /\ Append(s, f) \in Seq(Frames)
      /\ Len(Append(s, f)) = Len(s) + 1
      /\ Append(s, f)[Len(s) + 1] = f
      /\ \A i \in 1 .. Len(s) : Append(s, f)[i] = s[i]
  BY PushProperties DEF StackOK
<1>2. Len(s) \in Nat
  BY LenProperties DEF StackOK
<1>3. QED
  BY <1>1, <1>2 DEF StackOK

\* Below a chunk that is not main stands another one, whose regions are those
\* the ended chunk had around it.
LEMMA StackPop ==
  ASSUME NEW s, StackOK(s), s[Len(s)].kind # "main"
  PROVE  /\ StackOK(Pop(s))
         /\ Len(s) >= 2
         /\ Len(Pop(s)) = Len(s) - 1
         /\ Pop(s)[Len(s) - 1] = s[Len(s) - 1]
         /\ Pop(s)[Len(s) - 1] \in Frames
         /\ Regions(Pop(s)[Len(s) - 1]) = s[Len(s)].base
<1>1. Len(s) \in Nat /\ Len(s) >= 2
  BY LenProperties DEF StackOK
<1>2. /\ Pop(s) \in Seq(Frames)
      /\ Len(Pop(s)) = Len(s) - 1
      /\ \A i \in 1 .. Len(s) - 1 : Pop(s)[i] = s[i]
  BY <1>1, PopProperties DEF StackOK
<1>3. Pop(s)[Len(s) - 1] \in Frames
  BY <1>1, <1>2, TopIsFrame
<1>4. StackOK(Pop(s))
  <2>1. Len(Pop(s)) \in 1 .. MaxFrames
    BY <1>1, <1>2, BoundsAssumption DEF StackOK
  <2>2. ASSUME NEW i \in 1 .. Len(Pop(s))
        PROVE  /\ i \in 1 .. Len(s) /\ Pop(s)[i] = s[i]
               /\ i > 1 => i - 1 \in 1 .. Len(Pop(s)) /\ Pop(s)[i - 1] = s[i - 1]
    BY <1>1, <1>2
  <2>3. ASSUME NEW i \in 1 .. Len(s)
        PROVE  /\ s[i].kind = "main" <=> i = 1
               /\ i > 1 => s[i].base = Regions(s[i - 1])
               /\ s[i].kind = "try" => /\ s[i].outer = OpenLoops(s[i - 1])
                                       /\ s[i].depth >= s[i].base
               /\ s[i].kind # "try" => s[i].outer = 0
    BY DEF StackOK
  <2>4. ASSUME NEW i \in 1 .. Len(Pop(s)), i = 1
        PROVE  Pop(s)[i].kind # "try"
    BY <2>2, <2>3, <2>4
  <2>5. QED
    BY <1>2, <2>1, <2>2, <2>3, <2>4 DEF StackOK
<1>5. QED
  BY <1>1, <1>2, <1>3, <1>4 DEF StackOK

\* The program starts in the invariant.
LEMMA FInvInit == Init => FInv
<1> SUFFICES ASSUME Init PROVE FInv
  OBVIOUS
<1> DEFINE f == Body("main", FALSE, 0, 0, 0)
<1>1. f \in Frames /\ f.kind = "main" /\ f.outer = 0 /\ f.base = 0 /\ f.loops = 0 /\ f.at = 0
  BY DEF Body, Frames, Statuses, Normal
<1>2. stack = <<f>>
  BY DEF Init
<1> HIDE DEF f
<1>3. stack \in Seq(Frames) /\ Len(stack) = 1 /\ stack[1] = f
  BY <1>1, <1>2
<1>4. StackOK(stack)
  BY <1>1, <1>3, BoundsAssumption DEF StackOK
<1>5. top = f
  BY <1>3 DEF top
<1>6. TypeOK
  <2>1. Len(stack) \in 1 .. MaxFrames
    BY <1>3, BoundsAssumption
  <2>2. signal \in Signals
    BY DEF Init, NoSignal, Signals
  <2>3. QED
    BY <1>3, <2>1, <2>2 DEF Init, TypeOK
<1>7. Covered /\ ModeOK
  BY <1>1, <1>5 DEF Init, Covered, ModeOK, Regions
<1>8. SignalsOK
  BY DEF Init, SignalsOK, Clean, OneReason
<1>9. QED
  BY <1>4, <1>6, <1>7, <1>8 DEF FInv

\* What the steps need of the innermost chunk.
LEMMA TopFacts ==
  ASSUME FInv
  PROVE  /\ stack \in Seq(Frames) /\ Len(stack) \in Nat /\ Len(stack) >= 1
         /\ top \in Frames /\ top = stack[Len(stack)]
         /\ StackOK(stack)
<1>1. stack \in Seq(Frames) /\ Len(stack) \in Nat /\ Len(stack) >= 1 /\ StackOK(stack)
  BY LenProperties DEF FInv, StackOK
<1>2. QED
  BY <1>1, TopIsFrame DEF top

\* The fields of a frame, and its updates.
LEMMA FrameFields ==
  ASSUME NEW f \in Frames
  PROVE  /\ f.kind \in {"main", "fn", "try"} /\ f.phase \in {"body", "catch", "finally"}
         /\ f.hasFinally \in BOOLEAN /\ f.held \in Statuses
         /\ f.outer \in Nat /\ f.loops \in Nat /\ f.base \in Nat /\ f.at \in Nat
         /\ f.depth \in Nat
  BY DEF Frames

LEMMA FrameUpdates ==
  ASSUME NEW f \in Frames, NEW l \in Nat
  PROVE  /\ LET g == [f EXCEPT !.loops = l] IN
              /\ g \in Frames /\ g.loops = l /\ g.at = f.at
              /\ g.kind = f.kind /\ g.base = f.base /\ g.outer = f.outer /\ g.depth = f.depth
         /\ LET g == [f EXCEPT !.at = l] IN
              /\ g \in Frames /\ g.at = l /\ g.loops = f.loops
              /\ g.kind = f.kind /\ g.base = f.base /\ g.outer = f.outer /\ g.depth = f.depth
  BY DEF Frames

\* A step that leaves the program running, in the same chunk.
LEMMA FInvSameChunk ==
  ASSUME FInv, NEW f \in Frames, stack' = WithTop(stack, f),
         f.kind = top.kind, f.base = top.base, f.outer = top.outer, f.depth = top.depth,
         suppress' \in Nat, suppress' >= f.base + f.at,
         mode' = "run", Clean \/ exiting,
         UNCHANGED <<host, lastBreakLevel, outcome>>
  PROVE  FInv'
<1>1. StackOK(stack') /\ Len(stack') = Len(stack) /\ stack'[Len(stack)] = f
  BY TopFacts, StackWithTop
<1>2. TypeOK'
  BY <1>1 DEF FInv, TypeOK, StackOK, host
<1>3. top' = f
  BY <1>1 DEF top
<1>4. QED
  BY <1>1, <1>2, <1>3 DEF FInv, ModeOK, SignalsOK, OneReason, Clean, Covered, Regions, host

\* Loops and regions are opened and closed, and jumps land, in the running
\* chunk.
LEMMA FInvLoops ==
  ASSUME FInv, mode = "run", NEW l \in Nat,
         stack' = WithTop(stack, [top EXCEPT !.loops = l]),
         UNCHANGED <<mode, host, lastBreakLevel, suppress, outcome>>
  PROVE  FInv'
<1> DEFINE f == [top EXCEPT !.loops = l]
<1>1. /\ f \in Frames /\ f.at = top.at
      /\ f.kind = top.kind /\ f.base = top.base /\ f.outer = top.outer /\ f.depth = top.depth
  BY TopFacts, FrameUpdates
<1>2. suppress \in Nat /\ suppress >= top.base + top.at
  BY DEF FInv, TypeOK, Covered, Regions
<1>3. Clean \/ exiting
  BY DEF FInv, SignalsOK
<1>4. stack' = WithTop(stack, f)
  OBVIOUS
<1> HIDE DEF f
<1>5. QED
  BY <1>1, <1>2, <1>3, <1>4, FInvSameChunk DEF host

LEMMA FInvRegions ==
  ASSUME FInv, mode = "run", NEW a \in Nat,
         stack' = WithTop(stack, [top EXCEPT !.at = a]),
         suppress' \in Nat, suppress' + top.at = suppress + a,
         UNCHANGED <<mode, host, lastBreakLevel, outcome>>
  PROVE  FInv'
<1> DEFINE f == [top EXCEPT !.at = a]
<1>1. /\ f \in Frames /\ f.at = a
      /\ f.kind = top.kind /\ f.base = top.base /\ f.outer = top.outer /\ f.depth = top.depth
  BY TopFacts, FrameUpdates
<1>2. suppress' \in Nat /\ suppress' >= top.base + a
  BY TopFacts, FrameFields DEF FInv, TypeOK, Covered, Regions
<1>3. Clean \/ exiting
  BY DEF FInv, SignalsOK
<1>4. stack' = WithTop(stack, f)
  OBVIOUS
<1> HIDE DEF f
<1>5. QED
  BY <1>1, <1>2, <1>3, <1>4, FInvSameChunk DEF host

LEMMA FInvInside ==
  ASSUME FInv,
         \/ OpenLoop \/ CloseLoop \/ Silence \/ Unsilence
         \/ \E kind \in Relayed, n \in 1 .. MaxLoops : Jump(kind, n) /\ n <= top.loops
  PROVE  FInv'
<1>0. /\ top.loops \in Nat /\ top.at \in Nat /\ top.base \in Nat
      /\ suppress \in Nat /\ suppress >= top.base + top.at
  BY TopFacts, FrameFields DEF FInv, TypeOK, Covered, Regions
<1>1. CASE OpenLoop
  BY <1>0, <1>1, FInvLoops, top.loops + 1 \in Nat DEF OpenLoop, Statement
<1>2. CASE CloseLoop
  <2>1. top.loops - 1 \in Nat
    BY <1>0, <1>2 DEF CloseLoop
  <2>2. QED
    BY <1>2, <2>1, FInvLoops DEF CloseLoop, Statement
<1>3. CASE Silence
  <2>1. PICK a \in Nat : a = top.at + 1
    BY <1>0
  <2>2. suppress' \in Nat /\ suppress' + top.at = suppress + a
    BY <1>0, <1>3, <2>1 DEF Silence
  <2>3. stack' = WithTop(stack, [top EXCEPT !.at = a])
    BY <1>3, <2>1 DEF Silence
  <2>4. QED
    BY <1>3, <2>2, <2>3, FInvRegions DEF Silence, Expression
<1>4. CASE Unsilence
  <2>1. PICK a \in Nat : a = top.at - 1
    BY <1>0, <1>4 DEF Unsilence
  <2>2. suppress' \in Nat /\ suppress' + top.at = suppress + a
    BY <1>0, <1>4, <2>1 DEF Unsilence
  <2>3. stack' = WithTop(stack, [top EXCEPT !.at = a])
    BY <1>4, <2>1 DEF Unsilence
  <2>4. QED
    BY <1>4, <2>2, <2>3, FInvRegions DEF Unsilence, Expression
<1>5. CASE \E kind \in Relayed, n \in 1 .. MaxLoops : Jump(kind, n) /\ n <= top.loops
  <2>1. PICK kind \in Relayed, n \in 1 .. MaxLoops : Jump(kind, n) /\ n <= top.loops
    BY <1>5
  <2>2. LoopsLeft(kind, n, top.loops) \in Nat
    BY <1>0, <2>1, BoundsAssumption DEF LoopsLeft
  <2>3. QED
    BY <2>1, <2>2, FInvLoops DEF Jump, Statement, host
<1>6. QED
  BY <1>1, <1>2, <1>3, <1>4, <1>5

\* ... the statements that end the chunk ...
LEMMA FInvHalt ==
  ASSUME FInv, mode = "run", stack' = Abandon(stack), mode' = "ended",
         signal' \in Signals,
         throwing' \in BOOLEAN, exiting' \in BOOLEAN, error' \in BOOLEAN, OneReason',
         UNCHANGED <<lastBreakLevel, suppress, outcome>>
  PROVE  FInv'
<1>1. /\ StackOK(stack') /\ Len(stack') = Len(stack)
      /\ top' = [top EXCEPT !.loops = 0, !.at = 0]
  BY TopFacts, StackAbandon DEF top
<1>2. /\ top'.loops = 0 /\ top'.at = 0 /\ top'.base = top.base
      /\ top.base \in Nat /\ top.at \in Nat
  BY <1>1, TopFacts DEF Frames
<1>3. Covered'
  BY <1>2 DEF FInv, TypeOK, Covered, Regions
<1>4. TypeOK'
  BY <1>1 DEF FInv, TypeOK, StackOK
<1>5. QED
  BY <1>1, <1>2, <1>3, <1>4 DEF FInv, ModeOK, SignalsOK

LEMMA FInvEnds ==
  ASSUME FInv,
         \/ \E kind \in Relayed, n \in 1 .. MaxLoops : Jump(kind, n) /\ ~ n <= top.loops
         \/ Return \/ Throw \/ Exit \/ Fatal \/ FallOff
  PROVE  FInv'
<1>1. mode = "run" /\ (Clean \/ exiting)
  BY DEF Jump, Return, Throw, Exit, Fatal, FallOff, Statement, Expression, FInv, SignalsOK
<1>2. /\ signal \in Signals /\ throwing \in BOOLEAN
      /\ exiting \in BOOLEAN /\ error \in BOOLEAN
  BY DEF FInv, TypeOK
<1>3. CASE \E kind \in Relayed, n \in 1 .. MaxLoops : Jump(kind, n) /\ ~ n <= top.loops
  <2>1. PICK kind \in Relayed, n \in 1 .. MaxLoops : Jump(kind, n) /\ ~ n <= top.loops
    BY <1>3
  <2>2. n \in Nat
    BY <2>1, BoundsAssumption
  <2>3. [type |-> kind, level |-> n] \in Signals
    BY <2>2 DEF Signals
  <2>4. HaltWith([type |-> kind, level |-> n])
    BY <2>1 DEF Jump
  <2>5. QED
    BY <1>1, <1>2, <2>1, <2>3, <2>4, FInvHalt DEF Jump, HaltWith, OneReason, Clean
<1>4. CASE Return
  <2>1. [type |-> "return", level |-> 0] \in Signals
    BY DEF Signals
  <2>2. QED
    BY <1>1, <1>2, <1>4, <2>1, FInvHalt DEF Return, HaltWith, OneReason, Clean
<1>5. CASE Throw
  BY <1>1, <1>2, <1>5, FInvHalt DEF Throw, HaltWith, OneReason, Clean
<1>6. CASE Exit
  BY <1>1, <1>2, <1>6, FInvHalt DEF Exit, HaltWith, OneReason, Clean
<1>7. CASE Fatal
  BY <1>1, <1>2, <1>7, FInvHalt DEF Fatal, HaltWith, OneReason, Clean
<1>8. CASE FallOff
  BY <1>1, <1>2, <1>8, FInvHalt DEF FallOff, HaltWith, OneReason, Clean
<1>9. QED
  BY <1>3, <1>4, <1>5, <1>6, <1>7, <1>8

\* ... and those that start another one.
LEMMA FInvPush ==
  ASSUME FInv, mode = "run", Len(stack) < MaxFrames, NEW f \in Frames,
         stack' = Append(stack, f),
         f.kind \in {"try", "fn"}, f.base = Regions(top), f.at = 0, f.loops = 0,
         f.kind = "try" => f.outer = OpenLoops(top) /\ f.depth = suppress,
         f.kind = "fn" => f.outer = 0,
         UNCHANGED <<mode, host, lastBreakLevel, suppress, outcome>>
  PROVE  FInv'
<1>1. suppress >= f.base /\ suppress \in Nat /\ f.base \in Nat /\ top = stack[Len(stack)]
  BY TopFacts, FrameFields DEF FInv, Covered, TypeOK
<1>2. /\ StackOK(stack') /\ Len(stack') = Len(stack) + 1
      /\ stack'[Len(stack) + 1] = f
  BY <1>1, TopFacts, StackPush, BoundsAssumption
<1>3. top' = f
  BY <1>2 DEF top
<1>4. TypeOK'
  BY <1>2 DEF FInv, TypeOK, StackOK, host
<1>5. Covered'
  BY <1>1, <1>3 DEF Covered, Regions
<1>6. QED
  BY <1>2, <1>3, <1>4, <1>5 DEF FInv, ModeOK, SignalsOK, OneReason, Clean, host

LEMMA FInvStarts ==
  ASSUME FInv, Call \/ \E hasFinally \in BOOLEAN : EnterTry(hasFinally)
  PROVE  FInv'
<1>0. /\ OpenLoops(top) \in Nat /\ Regions(top) \in Nat /\ suppress \in Nat
  BY TopFacts, FrameFields DEF OpenLoops, Regions, FInv, TypeOK
<1>1. CASE Call
  <2>1. PICK f : f = Body("fn", FALSE, 0, Regions(top), 0)
    OBVIOUS
  <2>2. /\ f \in Frames /\ f.kind = "fn" /\ f.base = Regions(top) /\ f.at = 0
        /\ f.loops = 0 /\ f.outer = 0
    BY <1>0, <2>1 DEF Body, Frames, Statuses, Normal
  <2>3. stack' = Append(stack, f)
    BY <1>1, <2>1 DEF Call
  <2>4. QED
    BY <1>1, <2>2, <2>3, FInvPush DEF Call, Expression
<1>2. CASE \E hasFinally \in BOOLEAN : EnterTry(hasFinally)
  <2>1. PICK hasFinally \in BOOLEAN : EnterTry(hasFinally)
    BY <1>2
  <2>2. PICK f : f = Body("try", hasFinally, OpenLoops(top), Regions(top), suppress)
    OBVIOUS
  <2>3. /\ f \in Frames /\ f.kind = "try" /\ f.base = Regions(top) /\ f.at = 0
        /\ f.loops = 0 /\ f.outer = OpenLoops(top) /\ f.depth = suppress
    BY <1>0, <2>2 DEF Body, Frames, Statuses, Normal
  <2>4. stack' = Append(stack, f)
    BY <2>1, <2>2 DEF EnterTry
  <2>5. QED
    BY <2>1, <2>3, <2>4, FInvPush DEF EnterTry, Statement
<1>3. QED
  BY <1>1, <1>2

\* run_body gives a status, and takes the signal it reads: afterwards no
\* signal is left, unless the request has been ended by exit.
LEMMA TakeSignalClean ==
  ASSUME FInv, mode = "ended", TakeSignal
  PROVE  /\ EndedStatus \in Statuses
         /\ signal' \in Signals /\ throwing' \in BOOLEAN
         /\ exiting' = exiting /\ error' = FALSE /\ lastBreakLevel' \in Nat
         /\ exiting' \/ Clean'
<1>1. /\ signal \in Signals /\ throwing \in BOOLEAN /\ exiting \in BOOLEAN
      /\ error \in BOOLEAN /\ lastBreakLevel \in Nat /\ OneReason
  BY DEF FInv, TypeOK, SignalsOK
<1>2. signal.type \in {"none", "return"} \cup Relayed /\ signal.level \in Nat
  BY <1>1 DEF Signals, NoSignal
<1>3. EndedStatus \in Statuses
  BY <1>2 DEF EndedStatus, Statuses, Normal
<1>4. NoSignal \in Signals
  BY DEF NoSignal, Signals
<1>5. /\ signal' \in Signals /\ throwing' \in BOOLEAN
      /\ exiting' = exiting /\ error' = FALSE /\ lastBreakLevel' \in Nat
  BY <1>1, <1>2, <1>4 DEF TakeSignal
<1>6. ASSUME ~exiting PROVE Clean'
  <2>1. CASE error
    <3>1. EndedStatus.type = "fatal" /\ ~throwing /\ signal = NoSignal
      BY <1>1, <1>6, <2>1 DEF EndedStatus, Normal, OneReason
    <3>2. QED
      BY <3>1 DEF TakeSignal, Clean, Relayed
  <2>2. CASE ~error /\ throwing
    <3>1. EndedStatus.type = "throw" /\ signal = NoSignal
      BY <1>1, <1>6, <2>2 DEF EndedStatus, Normal, OneReason
    <3>2. QED
      BY <3>1 DEF TakeSignal, Clean, Relayed
  <2>3. CASE ~error /\ ~throwing /\ signal.type # "none"
    <3>1. EndedStatus.type = signal.type
      BY <1>6, <2>3 DEF EndedStatus
    <3>2. QED
      BY <1>2, <2>3, <3>1 DEF TakeSignal, Clean
  <2>4. CASE ~error /\ ~throwing /\ signal.type = "none"
    <3>1. EndedStatus.type = "normal"
      BY <1>6, <2>4 DEF EndedStatus, Normal
    <3>2. signal = NoSignal
      BY <1>1, <2>4 DEF Signals, Relayed
    <3>3. QED
      BY <2>4, <3>1, <3>2 DEF TakeSignal, Clean, Relayed
  <2>5. QED
    BY <1>1, <2>1, <2>2, <2>3, <2>4
<1>7. QED
  BY <1>1, <1>3, <1>5, <1>6

\* What the interpreter does keeps the invariant: a body comes back to its
\* orchestrator ...
LEMMA FInvBodyReturns ==
  ASSUME FInv, TryBodyReturns \/ CatchReturns \/ FinallyReturns
  PROVE  FInv'
<1>0. /\ mode = "ended" /\ top.kind = "try" /\ TakeSignal
      /\ mode' = "orchestrate" /\ outcome' = outcome
  BY DEF TryBodyReturns, CatchReturns, FinallyReturns, BodyReturns
<1>1. /\ EndedStatus \in Statuses
      /\ signal' \in Signals /\ throwing' \in BOOLEAN
      /\ exiting' = exiting /\ error' = FALSE /\ lastBreakLevel' \in Nat
      /\ exiting' \/ Clean'
  BY <1>0, TakeSignalClean
<1>2. /\ top \in Frames /\ top = stack[Len(stack)] /\ StackOK(stack)
      /\ top.base \in Nat /\ top.depth \in Nat /\ top.loops = 0 /\ top.at = 0
      /\ suppress \in Nat /\ suppress >= top.base
  BY <1>0, TopFacts, FrameFields DEF FInv, TypeOK, ModeOK, Covered, Regions
<1>3. top.depth >= top.base
  BY <1>0, <1>2 DEF StackOK
<1>4. suppress' \in Nat /\ suppress' >= top.base
  BY <1>2, <1>3 DEF TryBodyReturns, CatchReturns, FinallyReturns
<1>5. stack' = stack \/ stack' = WithTop(stack, [top EXCEPT !.held = EndedStatus])
  BY DEF TryBodyReturns, CatchReturns, FinallyReturns
<1>6. /\ StackOK(stack') /\ Len(stack') = Len(stack)
      /\ top'.kind = "try" /\ top'.loops = 0 /\ top'.at = 0 /\ top'.base = top.base
  <2>1. CASE stack' = stack
    BY <1>0, <1>2, <2>1 DEF top
  <2>2. CASE stack' = WithTop(stack, [top EXCEPT !.held = EndedStatus])
    <3>1. PICK f : f = [top EXCEPT !.held = EndedStatus]
      OBVIOUS
    <3>2. /\ f \in Frames /\ f.kind = top.kind /\ f.base = top.base
          /\ f.outer = top.outer /\ f.depth = top.depth
          /\ f.loops = top.loops /\ f.at = top.at
      BY <1>1, <1>2, <3>1 DEF Frames
    <3>3. stack' = WithTop(stack, f)
      BY <2>2, <3>1
    <3>4. StackOK(stack') /\ Len(stack') = Len(stack) /\ stack'[Len(stack)] = f
      BY <1>2, <3>2, <3>3, StackWithTop
    <3>5. top' = f
      BY <3>4 DEF top
    <3>6. QED
      BY <1>0, <1>2, <3>2, <3>4, <3>5
  <2>3. QED
    BY <1>5, <2>1, <2>2
<1>7. TypeOK'
  BY <1>0, <1>1, <1>4, <1>6 DEF FInv, TypeOK, StackOK
<1>8. SignalsOK'
  BY <1>1 DEF SignalsOK, OneReason, Clean
<1>9. Covered'
  BY <1>2, <1>4, <1>6 DEF Covered, Regions
<1>10. ModeOK'
  BY <1>6 DEF ModeOK
<1>11. QED
  BY <1>6, <1>7, <1>8, <1>9, <1>10 DEF FInv

\* ... which may run a clause or the finally ...
LEMMA FInvClause ==
  ASSUME FInv, RunCatch \/ RunFinally
  PROVE  FInv'
<1>1. /\ mode = "orchestrate" /\ mode' = "run"
      /\ UNCHANGED <<host, lastBreakLevel, suppress, outcome>>
  BY DEF RunCatch, RunFinally, Orchestrating
<1>2. Clean \/ exiting
  BY <1>1 DEF FInv, SignalsOK
<1>3. top \in Frames /\ suppress \in Nat /\ suppress >= top.base + top.at
  BY TopFacts DEF FInv, TypeOK, Covered, Regions
<1>4. PICK f \in Frames : /\ stack' = WithTop(stack, f)
                          /\ f.kind = top.kind /\ f.base = top.base
                          /\ f.outer = top.outer /\ f.depth = top.depth /\ f.at = top.at
  <2>1. CASE RunCatch
    <3>1. PICK f : f = [top EXCEPT !.phase = "catch", !.held = Normal]
      OBVIOUS
    <3>2. f \in Frames /\ f.kind = top.kind /\ f.base = top.base
          /\ f.outer = top.outer /\ f.depth = top.depth /\ f.at = top.at
      BY <1>3, <3>1 DEF Frames, Normal, Statuses
    <3>3. stack' = WithTop(stack, f)
      BY <2>1, <3>1 DEF RunCatch
    <3>4. QED
      BY <3>2, <3>3
  <2>2. CASE RunFinally
    <3>1. PICK f : f = [top EXCEPT !.phase = "finally"]
      OBVIOUS
    <3>2. f \in Frames /\ f.kind = top.kind /\ f.base = top.base
          /\ f.outer = top.outer /\ f.depth = top.depth /\ f.at = top.at
      BY <1>3, <3>1 DEF Frames
    <3>3. stack' = WithTop(stack, f)
      BY <2>2, <3>1 DEF RunFinally
    <3>4. QED
      BY <3>2, <3>3
  <2>3. QED
    BY <2>1, <2>2
<1>5. suppress' \in Nat /\ suppress' >= f.base + f.at
  BY <1>1, <1>3, <1>4
<1>6. QED
  BY <1>1, <1>2, <1>4, <1>5, FInvSameChunk

\* ... and when it is done, the chunk below goes on ...
LEMMA FInvResume ==
  ASSUME FInv, top.kind # "main", mode # "run",
         stack' = Pop(stack) \/ \E l \in Nat :
            stack' = WithTop(Pop(stack), [Pop(stack)[Len(Pop(stack))] EXCEPT !.loops = l]),
         mode' = "run", Clean' \/ exiting', signal' \in Signals,
         throwing' \in BOOLEAN, exiting' \in BOOLEAN, error' \in BOOLEAN,
         UNCHANGED <<lastBreakLevel, suppress, outcome>>
  PROVE  FInv'
<1> DEFINE b == Pop(stack)
           p == b[Len(b)]
<1>1. /\ StackOK(b) /\ Len(b) = Len(stack) - 1 /\ p \in Frames /\ Len(stack) >= 2
      /\ Regions(p) = top.base /\ p = stack[Len(stack) - 1]
  BY TopFacts, StackPop
<1> HIDE DEF b
<1>2. suppress \in Nat /\ suppress >= Regions(p)
  BY <1>1, TopFacts, FrameFields DEF FInv, TypeOK, ModeOK, Covered, Regions
<1>3. StackOK(stack') /\ Regions(top') = Regions(p)
  <2>1. CASE stack' = b
    BY <1>1, <2>1 DEF top
  <2>2. ASSUME NEW l \in Nat, stack' = WithTop(b, [p EXCEPT !.loops = l])
        PROVE  StackOK(stack') /\ Regions(top') = Regions(p)
    <3>1. PICK f : f = [p EXCEPT !.loops = l]
      OBVIOUS
    <3> HIDE DEF p
    <3>2. /\ f \in Frames /\ f.kind = p.kind /\ f.base = p.base /\ f.outer = p.outer
          /\ f.depth = p.depth /\ f.at = p.at
      BY <1>1, <3>1 DEF Frames
    <3>3. stack' = WithTop(b, f)
      BY <2>2, <3>1
    <3>4. StackOK(stack') /\ Len(stack') = Len(b) /\ stack'[Len(b)] = f
      BY <1>1, <3>2, <3>3, StackWithTop DEF p
    <3>5. top' = f
      BY <3>4 DEF top
    <3>6. QED
      BY <3>2, <3>4, <3>5 DEF Regions
  <2>3. QED
    BY <2>1, <2>2 DEF b
<1>4. TypeOK'
  BY <1>3 DEF FInv, TypeOK, StackOK
<1>5. QED
  BY <1>2, <1>3, <1>4 DEF FInv, ModeOK, SignalsOK, OneReason, Clean, Covered

\* ... or halts as well.
LEMMA FInvUnwind ==
  ASSUME FInv, top.kind # "main", mode # "run", stack' = Abandon(Pop(stack)),
         mode' = "ended", OneReason', signal' \in Signals,
         throwing' \in BOOLEAN, exiting' \in BOOLEAN, error' \in BOOLEAN,
         UNCHANGED <<lastBreakLevel, suppress, outcome>>
  PROVE  FInv'
<1> DEFINE b == Pop(stack)
           p == b[Len(b)]
<1>1. /\ StackOK(b) /\ Len(b) = Len(stack) - 1 /\ p \in Frames
      /\ Regions(p) = top.base
  BY TopFacts, StackPop
<1> HIDE DEF b
<1>2. suppress \in Nat /\ suppress >= Regions(p)
  BY <1>1, TopFacts, FrameFields DEF FInv, TypeOK, ModeOK, Covered, Regions
<1>3. /\ StackOK(stack') /\ top' = [p EXCEPT !.loops = 0, !.at = 0]
  BY <1>1, StackAbandon DEF top, b
<1> HIDE DEF p
<1>4. /\ top'.loops = 0 /\ top'.at = 0 /\ top'.base = p.base
      /\ p.base \in Nat /\ p.at \in Nat
  BY <1>1, <1>3 DEF Frames
<1>5. Covered'
  BY <1>2, <1>4 DEF Covered, Regions
<1>6. TypeOK'
  BY <1>3 DEF FInv, TypeOK, StackOK
<1>7. QED
  BY <1>3, <1>4, <1>5, <1>6 DEF FInv, ModeOK, SignalsOK

LEMMA FInvFinishes ==
  ASSUME FInv, FinishNormal \/ FinishHalting \/ FinishRelaying \/ CallReturns
  PROVE  FInv'
<1>1. mode # "run" /\ top.kind # "main"
  BY DEF FinishNormal, FinishHalting, FinishRelaying, Finishing, Orchestrating,
         CallReturns, FInv, ModeOK
<1>2. /\ signal \in Signals /\ throwing \in BOOLEAN /\ exiting \in BOOLEAN
      /\ error \in BOOLEAN /\ lastBreakLevel \in Nat
  BY DEF FInv, TypeOK
<1>3. mode = "orchestrate" => Clean \/ exiting
  BY DEF FInv, SignalsOK
<1>4. CASE FinishNormal
  <2>1. stack' = Pop(stack) /\ mode' = "run" /\ mode = "orchestrate"
        /\ UNCHANGED <<signal, throwing, exiting, error, lastBreakLevel, suppress, outcome>>
    BY <1>4 DEF FinishNormal, Finishing, Orchestrating, host
  <2>2. QED
    BY <1>1, <1>2, <1>3, <2>1, FInvResume DEF Clean
<1>5. CASE FinishHalting
  <2>1. mode = "orchestrate" /\ stack' = Abandon(Pop(stack)) /\ mode' = "ended"
        /\ UNCHANGED <<exiting, lastBreakLevel, suppress, outcome>>
    BY <1>5 DEF FinishHalting, Finishing, Orchestrating
  <2>2. [NoSignal EXCEPT !.type = "return"] \in Signals
    BY DEF NoSignal, Signals
  <2>3. signal' \in Signals /\ throwing' \in BOOLEAN /\ error' \in BOOLEAN
    BY <1>2, <1>5, <2>2 DEF FinishHalting
  <2>4. OneReason'
    <3>1. ASSUME ~exiting
          PROVE  /\ throwing' <=> top.held.type = "throw"
                 /\ error' <=> top.held.type = "fatal"
                 /\ top.held.type # "return" => signal' = NoSignal
      BY <1>2, <1>3, <1>5, <2>1, <3>1 DEF FinishHalting, Clean
    <3>2. QED
      BY <2>1, <3>1 DEF OneReason
  <2>5. QED
    BY <1>1, <1>2, <2>1, <2>3, <2>4, FInvUnwind
<1>6. CASE FinishRelaying
  <2> DEFINE b == Pop(stack)
             depth == b[Len(b)].loops
             rest == IF lastBreakLevel > depth THEN lastBreakLevel - depth ELSE 1
             kind == top.held.type
  <2>1. mode = "orchestrate" /\ kind \in Relayed
        /\ UNCHANGED <<throwing, exiting, error, lastBreakLevel, suppress, outcome>>
    BY <1>6 DEF FinishRelaying, Finishing, Orchestrating
  <2>2. depth \in Nat
    BY <1>1, TopFacts, StackPop, FrameFields
  <2>3. CASE lastBreakLevel \in 1 .. depth
    <3>1. PICK l : l = LoopsLeft(kind, lastBreakLevel, depth)
      OBVIOUS
    <3>2. l \in Nat
      BY <1>2, <2>2, <2>3, <3>1 DEF LoopsLeft
    <3>3. /\ stack' = WithTop(b, [b[Len(b)] EXCEPT !.loops = l])
          /\ mode' = "run" /\ signal' = signal
      BY <1>6, <2>3, <3>1 DEF FinishRelaying
    <3>4. Clean' \/ exiting'
      BY <1>3, <2>1, <3>3 DEF Clean
    <3>5. QED
      BY <1>1, <1>2, <2>1, <3>2, <3>3, <3>4, FInvResume
  <2>4. CASE lastBreakLevel \notin 1 .. depth
    <3>1. /\ stack' = Abandon(b) /\ mode' = "ended"
          /\ signal' = [type |-> kind, level |-> rest]
      BY <1>6, <2>4 DEF FinishRelaying
    <3>2. rest \in Nat
      BY <1>2, <2>2
    <3>3. signal' \in Signals
      BY <2>1, <3>1, <3>2 DEF Signals
    <3>4. OneReason'
      BY <1>3, <2>1 DEF OneReason, Clean
    <3>5. QED
      BY <1>1, <1>2, <2>1, <3>1, <3>3, <3>4, FInvUnwind
  <2>5. QED
    BY <2>3, <2>4
<1>7. CASE CallReturns
  <2>1. /\ signal' = NoSignal /\ error' \in BOOLEAN
        /\ UNCHANGED <<throwing, exiting, lastBreakLevel, suppress, outcome>>
    BY <1>2, <1>7 DEF CallReturns
  <2>2. NoSignal \in Signals
    BY DEF Signals
  <2>3. OneReason \/ exiting
    BY DEF FInv, SignalsOK
  <2>4. CASE error' \/ throwing \/ exiting
    <3>1. stack' = Abandon(Pop(stack)) /\ mode' = "ended"
      BY <1>7, <2>4 DEF CallReturns
    <3>2. error' => error
      BY <1>2, <1>7 DEF CallReturns
    <3>3. OneReason'
      BY <1>2, <2>1, <2>3, <3>2 DEF OneReason
    <3>4. QED
      BY <1>1, <1>2, <2>1, <2>2, <3>1, <3>3, FInvUnwind
  <2>5. CASE ~ (error' \/ throwing \/ exiting)
    <3>1. stack' = Pop(stack) /\ mode' = "run"
      BY <1>7, <2>5 DEF CallReturns
    <3>2. Clean'
      BY <2>1, <2>5 DEF Clean
    <3>3. QED
      BY <1>1, <1>2, <2>1, <2>2, <3>1, <3>2, FInvResume
  <2>6. QED
    BY <2>4, <2>5
<1>8. QED
  BY <1>4, <1>5, <1>6, <1>7

LEMMA FInvMainReturns ==
  ASSUME FInv, MainReturns
  PROVE  FInv'
<1>1. /\ stack' = stack /\ top' = top /\ mode' = "done" /\ suppress' = suppress
      /\ signal' = NoSignal /\ throwing' = FALSE /\ error' = FALSE
      /\ UNCHANGED <<exiting, lastBreakLevel>>
      /\ outcome' \in {"none", "normal", "exit", "fatal", "uncaught"}
      /\ top.loops = 0 /\ top.at = 0
  BY DEF MainReturns, top, FInv, ModeOK
<1>2. NoSignal \in Signals
  BY DEF Signals
<1>3. QED
  BY <1>1, <1>2 DEF FInv, TypeOK, ModeOK, SignalsOK, OneReason, Covered

\* Every step keeps the invariant.
LEMMA FInvNext == FInv /\ [Next]_vars => FInv'
<1> SUFFICES ASSUME FInv, [Next]_vars PROVE FInv'
  OBVIOUS
<1>1. CASE Program
  BY <1>1, FInvInside, FInvEnds, FInvStarts DEF Program
<1>2. CASE Engine
  BY <1>2, FInvBodyReturns, FInvClause, FInvFinishes, FInvMainReturns DEF Engine
<1>3. CASE UNCHANGED vars
  BY <1>3 DEF vars, FInv, TypeOK, ModeOK, SignalsOK, OneReason, Clean, Covered, top, Finishing
<1>4. QED
  BY <1>1, <1>2, <1>3 DEF Next, Terminated

LEMMA FInvAlways == Spec => []FInv
  BY FInvInit, FInvNext, PTL DEF Spec

\* The state of the interpreter is well typed, for every bound.
THEOREM TypeCorrect == Spec => []TypeOK
<1>1. FInv => TypeOK
  BY DEF FInv
<1>2. QED
  BY <1>1, FInvAlways, PTL

\* No body starts, and no statement runs, on a signal another body left.
THEOREM BodiesRunClean == Spec => []RunsClean
<1>1. FInv => RunsClean
  BY DEF FInv, SignalsOK, Clean, RunsClean
<1>2. QED
  BY <1>1, FInvAlways, PTL

\* run_body never has to choose between two signals.
THEOREM OneReasonToEnd == Spec => []OneReason
<1>1. FInv => OneReason
  BY DEF FInv, SignalsOK
<1>2. QED
  BY <1>1, FInvAlways, PTL

\* Diagnostics inside an @-region stay silenced however the program got there.
THEOREM SilenceCovers == Spec => []SilenceHolds
<1>1. FInv => SilenceHolds
  BY DEF FInv, Covered, SilenceHolds
<1>2. QED
  BY <1>1, FInvAlways, PTL

-----------------------------------------------------------------------------
(* After exit.  Without a catch body that has a finally behind it, an exit *)
(* under way meets no clause that would run: every try it leaves reads the *)
(* status "exit" back.                                                     *)

NoFinallyBehindCatch(s) ==
  \A i \in 1 .. Len(s) : ~ (s[i].phase = "catch" /\ s[i].hasFinally)

Leaving ==
  exiting => /\ mode # "run"
             /\ ~error
             /\ NoFinallyBehindCatch(stack)
             /\ mode = "orchestrate" => top.held.type = "exit"

\* Only the innermost frame changes, and it stays in its phase.
LEMMA SamePhases ==
  ASSUME NEW s \in Seq(Frames), Len(s) >= 1, NoFinallyBehindCatch(s),
         NEW f \in Frames, f.phase = s[Len(s)].phase,
         f.hasFinally = s[Len(s)].hasFinally
  PROVE  NoFinallyBehindCatch(WithTop(s, f))
<1>1. /\ Len(WithTop(s, f)) = Len(s) /\ Len(s) \in Nat
      /\ WithTop(s, f)[Len(s)] = f
      /\ \A i \in 1 .. Len(s) - 1 : WithTop(s, f)[i] = s[i]
  BY WithTopProperties, LenProperties
<1>2. QED
  BY <1>1 DEF NoFinallyBehindCatch

LEMMA SamePhasesAbandon ==
  ASSUME NEW s \in Seq(Frames), Len(s) >= 1, NoFinallyBehindCatch(s)
  PROVE  NoFinallyBehindCatch(Abandon(s))
<1>1. PICK f : f = [s[Len(s)] EXCEPT !.loops = 0, !.at = 0]
  OBVIOUS
<1>2. s[Len(s)] \in Frames
  BY TopIsFrame
<1>3. /\ f \in Frames /\ f.phase = s[Len(s)].phase
      /\ f.hasFinally = s[Len(s)].hasFinally
  BY <1>1, <1>2 DEF Frames
<1>4. QED
  BY <1>1, <1>3, SamePhases DEF Abandon

LEMMA SamePhasesPop ==
  ASSUME NEW s \in Seq(Frames), Len(s) >= 2, NoFinallyBehindCatch(s)
  PROVE  NoFinallyBehindCatch(Pop(s))
<1>1. /\ Len(Pop(s)) = Len(s) - 1 /\ Len(s) \in Nat
      /\ \A i \in 1 .. Len(s) - 1 : Pop(s)[i] = s[i]
  BY PopProperties, LenProperties
<1>2. QED
  BY <1>1 DEF NoFinallyBehindCatch

\* The program runs exit.
LEMMA LeavingStarts ==
  ASSUME FInv, Leaving, ~ExitUnderCatch, Exit
  PROVE  Leaving'
<1>1. mode = "run" /\ mode' = "ended" /\ stack' = Abandon(stack) /\ error' = error
  BY DEF Exit, Expression, HaltWith
<1>2. ~error
  BY <1>1 DEF Leaving, FInv, SignalsOK, Clean
<1>3. NoFinallyBehindCatch(stack)
  BY DEF Exit, NoFinallyBehindCatch
<1>4. NoFinallyBehindCatch(stack')
  BY <1>1, <1>3, TopFacts, SamePhasesAbandon
<1>5. QED
  BY <1>1, <1>2, <1>4 DEF Leaving, NoFinallyBehindCatch

\* No other statement sets pending_exit, and none runs once it is set.
LEMMA LeavingRuns ==
  ASSUME Leaving, Program, ~Exit
  PROVE  Leaving'
<1>1. mode = "run" /\ exiting' = exiting
  BY DEF Program, OpenLoop, CloseLoop, Silence, Unsilence, Jump, Return, Throw, Fatal,
         FallOff, Call, EnterTry, Statement, Expression, host
<1>2. QED
  BY <1>1 DEF Leaving

\* The interpreter does not set pending_exit either ...
LEMMA EngineKeepsExiting ==
  ASSUME Engine
  PROVE  exiting' = exiting /\ mode # "run"
BY DEF Engine, TryBodyReturns, CatchReturns, FinallyReturns, BodyReturns, TakeSignal,
       RunCatch, RunFinally, FinishNormal, FinishHalting, FinishRelaying, Finishing,
       Orchestrating, CallReturns, MainReturns, host

\* ... and carries an exit outwards: a body hands it to its orchestrator ...
LEMMA LeavingBodyReturns ==
  ASSUME FInv, Leaving, exiting, TryBodyReturns \/ CatchReturns \/ FinallyReturns
  PROVE  Leaving'
<1>1. /\ mode = "ended" /\ mode' = "orchestrate" /\ error' = FALSE /\ TakeSignal
  BY DEF TryBodyReturns, CatchReturns, FinallyReturns, BodyReturns, TakeSignal
<1>2. EndedStatus.type = "exit" /\ EndedStatus # Normal
  BY DEF EndedStatus, Leaving, Normal
<1>3. EndedStatus \in Statuses
  BY <1>1, TakeSignalClean
<1>4. stack' = WithTop(stack, [top EXCEPT !.held = EndedStatus])
  BY <1>2 DEF TryBodyReturns, CatchReturns, FinallyReturns
<1>5. PICK f : f = [top EXCEPT !.held = EndedStatus]
  OBVIOUS
<1>6. /\ f \in Frames /\ f.held.type = "exit" /\ f.phase = top.phase
      /\ f.hasFinally = top.hasFinally
  BY <1>2, <1>3, <1>5, TopFacts DEF Frames
<1>7. NoFinallyBehindCatch(WithTop(stack, f))
  BY <1>6, TopFacts, SamePhases DEF Leaving
<1>8. stack' = WithTop(stack, f)
  BY <1>4, <1>5
<1>9. top' = f
  <2>1. Len(WithTop(stack, f)) = Len(stack) /\ WithTop(stack, f)[Len(stack)] = f
    BY <1>6, TopFacts, WithTopProperties
  <2>2. QED
    BY <1>8, <2>1 DEF top
<1>10. NoFinallyBehindCatch(stack')
  BY <1>7, <1>8
<1>11. QED
  BY <1>1, <1>6, <1>9, <1>10 DEF Leaving, NoFinallyBehindCatch

\* ... which runs neither a clause nor the finally, and halts the chunk below.
LEMMA LeavingFinishes ==
  ASSUME FInv, Leaving, exiting,
         \/ RunCatch \/ RunFinally
         \/ FinishNormal \/ FinishHalting \/ FinishRelaying \/ CallReturns
  PROVE  Leaving'
<1>1. mode \in {"orchestrate", "ended"} /\ top.kind # "main" /\ NoFinallyBehindCatch(stack)
  BY DEF RunCatch, RunFinally, FinishNormal, FinishHalting, FinishRelaying, Finishing,
         Orchestrating, CallReturns, FInv, ModeOK, Leaving
<1>2. mode = "orchestrate" => top.held.type = "exit"
  BY DEF Leaving
<1>3. ~RunCatch /\ ~FinishNormal /\ ~FinishRelaying
  BY <1>2 DEF RunCatch, FinishNormal, FinishRelaying, Finishing, Orchestrating, Relayed
<1>4. ~RunFinally
  <2>1. SUFFICES ASSUME RunFinally PROVE FALSE
    OBVIOUS
  <2>2. top.phase = "catch" /\ top.hasFinally
    BY <1>2, <2>1, TopFacts, FrameFields DEF RunFinally, SkipsFinally, Orchestrating
  <2>3. QED
    BY <1>1, <2>2, TopFacts DEF NoFinallyBehindCatch
<1>5. /\ stack' = Abandon(Pop(stack)) /\ mode' = "ended" /\ ~error'
  BY <1>2, <1>3, <1>4 DEF FinishHalting, CallReturns, Finishing, Orchestrating, Leaving
<1>6. StackOK(Pop(stack)) /\ Len(stack) >= 2
  BY <1>1, TopFacts, StackPop
<1>7. NoFinallyBehindCatch(stack')
  BY <1>1, <1>5, <1>6, TopFacts, SamePhasesPop, SamePhasesAbandon, LenProperties DEF StackOK
<1>8. QED
  BY <1>5, <1>7 DEF Leaving, NoFinallyBehindCatch

LEMMA LeavingNext ==
  ASSUME ~ExitUnderCatch
  PROVE  FInv /\ Leaving /\ [Next]_vars => Leaving'
<1> SUFFICES ASSUME FInv, Leaving, [Next]_vars PROVE Leaving'
  OBVIOUS
<1>1. CASE Program
  BY <1>1, LeavingStarts, LeavingRuns
<1>2. CASE Engine /\ exiting
  <2>1. CASE MainReturns
    BY <2>1 DEF MainReturns, Leaving, NoFinallyBehindCatch
  <2>2. QED
    BY <1>2, <2>1, LeavingBodyReturns, LeavingFinishes DEF Engine
<1>3. CASE Engine /\ ~exiting
  BY <1>3, EngineKeepsExiting DEF Leaving
<1>4. CASE UNCHANGED vars
  BY <1>4 DEF vars, Leaving, NoFinallyBehindCatch, top
<1>5. QED
  BY <1>1, <1>2, <1>3, <1>4 DEF Next, Terminated

\* Once exit has run, no statement of the program does, provided that it did
\* not run below a catch clause with a finally: that finally still runs.
THEOREM ExitStops ==
  ASSUME ~ExitUnderCatch
  PROVE  Spec => []ExitStopsProgram
<1>1. Init => Leaving
  BY DEF Init, Leaving
<1>2. FInv /\ Leaving /\ [Next]_vars => Leaving'
  BY LeavingNext
<1>3. Leaving => ExitStopsProgram
  BY DEF Leaving, ExitStopsProgram
<1>4. QED
  BY <1>1, <1>2, <1>3, FInvAlways, PTL DEF Spec

-----------------------------------------------------------------------------
(* Levels.  Without a break that leaves a try while an enclosing finally    *)
(* runs, last_break_level is the level of every break that is held back:    *)
(* there is one at most, and nothing below it has a finally under way.      *)

NoneBelow(n) == \A j \in 1 .. n - 1 : stack[j].phase # "finally"

Levels ==
  \A i \in 1 .. Len(stack) :
    /\ stack[i].kind # "try" => stack[i].phase = "body"
    /\ OpenLoops(stack[i]) <= MaxLoops
    /\ stack[i].held.type = "exit" => exiting
    /\ stack[i].held.type \in Relayed =>
         /\ stack[i].held.level \in 1 .. stack[i].outer
         /\ stack[i].held.level = lastBreakLevel
         /\ NoneBelow(i)
    /\ stack[i].phase # "finally" /\ ~(i = Len(stack) /\ mode = "orchestrate")
         => stack[i].held = Normal

Aimed ==
  /\ exiting => ~throwing /\ signal = NoSignal
  /\ signal.type \in Relayed => signal.level \in 1 .. top.outer /\ NoneBelow(Len(stack))

\* What Levels asks of the innermost chunk.
TopFits ==
  /\ top.kind # "try" => top.phase = "body"
  /\ OpenLoops(top) <= MaxLoops
  /\ top.held.type = "exit" => exiting
  /\ top.held.type \in Relayed =>
       /\ top.held.level \in 1 .. top.outer
       /\ top.held.level = lastBreakLevel
       /\ NoneBelow(Len(stack))
  /\ top.phase # "finally" /\ mode # "orchestrate" => top.held = Normal

\* A step changes the innermost chunk, ends it or starts one.  The level
\* changes only where nothing below holds a break back.
LEMMA LevelsStep ==
  ASSUME FInv, Levels, TopFits', NEW n \in Nat, Len(stack') = n, n >= 1, n <= Len(stack) + 1,
         n = Len(stack) + 1 => mode # "orchestrate",
         \A i \in 1 .. n - 1 : stack'[i] = stack[i],
         exiting => exiting',
         lastBreakLevel' = lastBreakLevel \/ NoneBelow(n)
  PROVE  Levels'
<1>0. Len(stack) \in Nat
  BY TopFacts
<1>1. ASSUME NEW i \in 1 .. n - 1
      PROVE  /\ i \in 1 .. Len(stack) /\ stack'[i] = stack[i]
             /\ ~(i = Len(stack) /\ mode = "orchestrate")
             /\ ~(i = Len(stack') /\ mode' = "orchestrate")
             /\ \A j \in 1 .. i - 1 : stack'[j] = stack[j]
  BY <1>0
<1>2. ASSUME NEW i \in 1 .. n - 1
      PROVE  /\ stack'[i].kind # "try" => stack'[i].phase = "body"
             /\ OpenLoops(stack'[i]) <= MaxLoops
             /\ stack'[i].held.type = "exit" => exiting'
             /\ stack'[i].held.type \in Relayed =>
                  /\ stack'[i].held.level \in 1 .. stack'[i].outer
                  /\ stack'[i].held.level = lastBreakLevel'
                  /\ NoneBelow(i)'
             /\ stack'[i].phase # "finally" => stack'[i].held = Normal
  <2>1. PICK f : f = stack[i]
    OBVIOUS
  <2>2. /\ f.kind # "try" => f.phase = "body"
        /\ OpenLoops(f) <= MaxLoops
        /\ f.held.type = "exit" => exiting
        /\ f.held.type \in Relayed =>
             f.held.level \in 1 .. f.outer /\ f.held.level = lastBreakLevel /\ NoneBelow(i)
        /\ f.phase # "finally" => f.held = Normal
    BY <1>1, <2>1 DEF Levels
  <2>3. NoneBelow(i) => NoneBelow(i)'
    BY <1>1 DEF NoneBelow
  <2>4. f.held.type \in Relayed => lastBreakLevel' = lastBreakLevel
    <3>1. f.held.type \in Relayed => f.phase = "finally"
      BY <2>2 DEF Normal, Relayed
    <3>2. NoneBelow(n) => f.phase # "finally"
      BY <2>1 DEF NoneBelow
    <3> QED
      BY <3>1, <3>2
  <2>5. stack'[i] = f
    BY <1>1, <2>1
  <2> QED
    BY <2>2, <2>3, <2>4, <2>5
<1>3. top' = stack'[n]
  BY DEF top
<1>4. \A i \in 1 .. n : i = n \/ i \in 1 .. n - 1
  OBVIOUS
<1>5. ASSUME NEW i \in 1 .. n
      PROVE  /\ stack'[i].kind # "try" => stack'[i].phase = "body"
             /\ OpenLoops(stack'[i]) <= MaxLoops
             /\ stack'[i].held.type = "exit" => exiting'
             /\ stack'[i].held.type \in Relayed =>
                  /\ stack'[i].held.level \in 1 .. stack'[i].outer
                  /\ stack'[i].held.level = lastBreakLevel'
                  /\ NoneBelow(i)'
             /\ stack'[i].phase # "finally" /\ ~(i = Len(stack') /\ mode' = "orchestrate")
                  => stack'[i].held = Normal
  <2>1. CASE i = n
    BY <1>3, <2>1 DEF TopFits
  <2>2. CASE i \in 1 .. n - 1
    BY <1>2, <2>2
  <2> QED
    BY <1>4, <2>1, <2>2
<1> QED
  BY <1>5 DEF Levels

\* The chunk that is innermost afterwards is one there was, with other loops
\* or regions open.
LEMMA LevelsSame ==
  ASSUME FInv, Levels, NEW n \in 1 .. Len(stack), Len(stack') = n,
         \A i \in 1 .. n - 1 : stack'[i] = stack[i],
         NEW f, f = stack'[n],
         f.kind = stack[n].kind, f.phase = stack[n].phase, f.outer = stack[n].outer,
         f.held = stack[n].held, OpenLoops(f) <= MaxLoops,
         mode' # "orchestrate", n = Len(stack) => mode # "orchestrate",
         exiting => exiting', lastBreakLevel' = lastBreakLevel
  PROVE  Levels'
<1>0. Len(stack) \in Nat /\ n \in Nat /\ n >= 1 /\ n <= Len(stack) + 1 /\ n # Len(stack) + 1
  BY TopFacts
<1>1. top' = f
  BY DEF top
<1>2. PICK g : g = stack[n]
  OBVIOUS
<1>3. /\ g.kind # "try" => g.phase = "body"
      /\ g.held.type = "exit" => exiting
      /\ g.held.type \in Relayed =>
           g.held.level \in 1 .. g.outer /\ g.held.level = lastBreakLevel /\ NoneBelow(n)
      /\ g.phase # "finally" => g.held = Normal
  BY <1>2 DEF Levels
<1>4. NoneBelow(n) => NoneBelow(n)'
  BY DEF NoneBelow
<1>5. NoneBelow(Len(stack))' <=> NoneBelow(n)'
  BY DEF NoneBelow
<1>6. TopFits'
  BY <1>1, <1>2, <1>3, <1>4, <1>5 DEF TopFits
<1> QED
  BY <1>0, <1>6, LevelsStep

\* Halting a chunk closes what is open in it.
LEMMA Abandoned ==
  ASSUME NEW s, StackOK(s), NEW n \in Nat, n = Len(s)
  PROVE  /\ Len(Abandon(s)) = n /\ n >= 1
         /\ \A i \in 1 .. n - 1 : Abandon(s)[i] = s[i]
         /\ Abandon(s)[n].loops = 0 /\ Abandon(s)[n].at = 0
         /\ Abandon(s)[n].kind = s[n].kind /\ Abandon(s)[n].phase = s[n].phase
         /\ Abandon(s)[n].outer = s[n].outer /\ Abandon(s)[n].held = s[n].held
         /\ Abandon(s)[n].hasFinally = s[n].hasFinally
<1>1. Len(s) >= 1 /\ s \in Seq(Frames)
  BY DEF StackOK
<1>2. PICK g : g = s[n]
  OBVIOUS
<1>3. g \in Frames
  BY <1>1, <1>2, TopIsFrame
<1>4. PICK f : f = [g EXCEPT !.loops = 0, !.at = 0]
  OBVIOUS
<1>5. /\ f.loops = 0 /\ f.at = 0 /\ f.kind = g.kind /\ f.phase = g.phase /\ f.outer = g.outer
      /\ f.held = g.held /\ f.hasFinally = g.hasFinally
  BY <1>3, <1>4 DEF Frames
<1>6. Abandon(s)[n] = f
  BY <1>1, <1>2, <1>4, AbandonProperties
<1> QED
  BY <1>1, <1>2, <1>5, <1>6, AbandonProperties

\* The running chunk opens and closes loops and regions, or jumps ...
LEMMA PlacedInside ==
  ASSUME FInv, Leaving, Levels, Aimed,
         \/ OpenLoop \/ CloseLoop \/ Silence \/ Unsilence
         \/ \E kind \in Relayed, n \in 1 .. MaxLoops : Jump(kind, n) /\ n <= top.loops
  PROVE  Levels' /\ Aimed'
<1>0. /\ stack \in Seq(Frames) /\ Len(stack) \in Nat /\ Len(stack) >= 1
      /\ top \in Frames /\ top = stack[Len(stack)]
      /\ top.loops \in Nat /\ top.outer \in Nat /\ MaxLoops \in Nat
      /\ top.outer + top.loops <= MaxLoops
  <2>1. /\ stack \in Seq(Frames) /\ Len(stack) \in Nat /\ Len(stack) >= 1
        /\ top \in Frames /\ top = stack[Len(stack)]
    BY TopFacts
  <2>2. top.loops \in Nat /\ top.outer \in Nat /\ MaxLoops \in Nat
    BY <2>1, FrameFields, BoundsAssumption
  <2>3. OpenLoops(top) <= MaxLoops
    BY <2>1 DEF Levels
  <2> QED
    BY <2>1, <2>2, <2>3 DEF OpenLoops
<1>1. mode = "run" /\ mode' = "run" /\ signal' = signal /\ throwing' = throwing
      /\ exiting' = exiting /\ lastBreakLevel' = lastBreakLevel
  BY DEF OpenLoop, CloseLoop, Silence, Unsilence, Jump, Statement, Expression, host
<1>2. PICK f \in Frames : /\ stack' = WithTop(stack, f)
                          /\ f.kind = top.kind /\ f.phase = top.phase /\ f.outer = top.outer
                          /\ f.held = top.held /\ OpenLoops(f) <= MaxLoops
  <2>1. ASSUME NEW l \in Nat, top.outer + l <= MaxLoops,
               stack' = WithTop(stack, [top EXCEPT !.loops = l])
        PROVE  \E f \in Frames :
                 /\ stack' = WithTop(stack, f)
                 /\ f.kind = top.kind /\ f.phase = top.phase /\ f.outer = top.outer
                 /\ f.held = top.held /\ OpenLoops(f) <= MaxLoops
    <3>1. PICK f : f = [top EXCEPT !.loops = l]
      OBVIOUS
    <3>2. /\ f \in Frames /\ f.kind = top.kind /\ f.phase = top.phase /\ f.outer = top.outer
          /\ f.held = top.held /\ f.loops = l
      BY <1>0, <3>1 DEF Frames
    <3> QED
      BY <2>1, <3>1, <3>2 DEF OpenLoops
  <2>2. ASSUME NEW a \in Nat, stack' = WithTop(stack, [top EXCEPT !.at = a])
        PROVE  \E f \in Frames :
                 /\ stack' = WithTop(stack, f)
                 /\ f.kind = top.kind /\ f.phase = top.phase /\ f.outer = top.outer
                 /\ f.held = top.held /\ OpenLoops(f) <= MaxLoops
    <3>1. PICK f : f = [top EXCEPT !.at = a]
      OBVIOUS
    <3>2. /\ f \in Frames /\ f.kind = top.kind /\ f.phase = top.phase /\ f.outer = top.outer
          /\ f.held = top.held /\ f.loops = top.loops
      BY <1>0, <3>1 DEF Frames
    <3> QED
      BY <1>0, <2>2, <3>1, <3>2 DEF OpenLoops
  <2>3. CASE OpenLoop
    <3>1. PICK l \in Nat : l = top.loops + 1
      BY <1>0
    <3>2. top.outer + l <= MaxLoops /\ stack' = WithTop(stack, [top EXCEPT !.loops = l])
      BY <1>0, <2>3, <3>1 DEF OpenLoop, OpenLoops
    <3> QED
      BY <2>1, <3>2
  <2>4. CASE CloseLoop
    <3>1. PICK l \in Nat : l = top.loops - 1
      BY <1>0, <2>4 DEF CloseLoop
    <3>2. top.outer + l <= MaxLoops /\ stack' = WithTop(stack, [top EXCEPT !.loops = l])
      BY <1>0, <2>4, <3>1 DEF CloseLoop
    <3> QED
      BY <2>1, <3>2
  <2>5. CASE Silence
    <3>1. PICK a \in Nat : a = top.at + 1
      BY <1>0, FrameFields
    <3>2. stack' = WithTop(stack, [top EXCEPT !.at = a])
      BY <2>5, <3>1 DEF Silence
    <3> QED
      BY <2>2, <3>2
  <2>6. CASE Unsilence
    <3>1. PICK a \in Nat : a = top.at - 1
      BY <1>0, <2>6, FrameFields DEF Unsilence
    <3>2. stack' = WithTop(stack, [top EXCEPT !.at = a])
      BY <2>6, <3>1 DEF Unsilence
    <3> QED
      BY <2>2, <3>2
  <2>7. CASE \E kind \in Relayed, n \in 1 .. MaxLoops : Jump(kind, n) /\ n <= top.loops
    <3>1. PICK kind \in Relayed, n \in 1 .. MaxLoops : Jump(kind, n) /\ n <= top.loops
      BY <2>7
    <3>2. PICK l : l = LoopsLeft(kind, n, top.loops)
      OBVIOUS
    <3>3. l \in Nat /\ l <= top.loops
      BY <1>0, <3>1, <3>2 DEF LoopsLeft
    <3>4. top.outer + l <= MaxLoops /\ stack' = WithTop(stack, [top EXCEPT !.loops = l])
      BY <1>0, <3>1, <3>2, <3>3 DEF Jump
    <3> QED
      BY <2>1, <3>3, <3>4
  <2> QED
    BY <2>3, <2>4, <2>5, <2>6, <2>7
<1>3. /\ Len(stack') = Len(stack) /\ stack'[Len(stack)] = f
      /\ \A i \in 1 .. Len(stack) - 1 : stack'[i] = stack[i]
  BY <1>0, <1>2, WithTopProperties
<1>4. Levels'
  BY <1>0, <1>1, <1>2, <1>3, LevelsSame
<1>5. top' = f
  BY <1>3 DEF top
<1>6. signal = NoSignal \/ exiting
  BY <1>1 DEF FInv, SignalsOK, Clean
<1>7. Aimed'
  BY <1>1, <1>6 DEF Aimed, NoSignal, Relayed
<1> QED
  BY <1>4, <1>7

\* ... or ends: a break that leaves the chunk from none of its own loops
\* names a loop around it, and leaves no finally under way.
LEMMA PlacedEnds ==
  ASSUME FInv, Leaving, Levels, Aimed, ~BreakUnderFinally, ~BreakFromLoop,
         \/ \E kind \in Relayed, n \in 1 .. MaxLoops : Jump(kind, n) /\ ~ n <= top.loops
         \/ Return \/ Throw \/ Exit \/ Fatal \/ FallOff
  PROVE  Levels' /\ Aimed'
<1>0. /\ Len(stack) \in Nat /\ Len(stack) >= 1 /\ StackOK(stack)
      /\ top \in Frames /\ top = stack[Len(stack)]
      /\ top.loops \in Nat /\ top.outer \in Nat /\ MaxLoops \in Nat
      /\ top.outer + top.loops <= MaxLoops
  <2>1. /\ Len(stack) \in Nat /\ Len(stack) >= 1 /\ StackOK(stack)
        /\ top \in Frames /\ top = stack[Len(stack)]
    BY TopFacts
  <2>2. top.loops \in Nat /\ top.outer \in Nat /\ MaxLoops \in Nat
    BY <2>1, FrameFields, BoundsAssumption
  <2>3. OpenLoops(top) <= MaxLoops
    BY <2>1 DEF Levels
  <2> QED
    BY <2>1, <2>2, <2>3 DEF OpenLoops
<1>1. mode = "run" /\ mode' = "ended" /\ lastBreakLevel' = lastBreakLevel
      /\ stack' = Abandon(stack)
  BY DEF Jump, Return, Throw, Exit, Fatal, FallOff, Statement, Expression, HaltWith
<1>2. ~exiting /\ signal = NoSignal /\ ~throwing /\ ~error
  BY <1>1 DEF Leaving, FInv, SignalsOK, Clean
<1>3. /\ Len(stack') = Len(stack)
      /\ \A i \in 1 .. Len(stack) - 1 : stack'[i] = stack[i]
      /\ stack'[Len(stack)].loops = 0 /\ stack'[Len(stack)].kind = top.kind
      /\ stack'[Len(stack)].phase = top.phase /\ stack'[Len(stack)].outer = top.outer
      /\ stack'[Len(stack)].held = top.held
  BY <1>0, <1>1, Abandoned
<1>4. PICK f : f = stack'[Len(stack)]
  OBVIOUS
<1>5. OpenLoops(f) <= MaxLoops
  BY <1>0, <1>3, <1>4 DEF OpenLoops
<1>6. Levels'
  <2>1. PICK n \in 1 .. Len(stack) : n = Len(stack)
    BY <1>0
  <2>2. /\ \A i \in 1 .. n - 1 : stack'[i] = stack[i]
        /\ Len(stack') = n /\ f = stack'[n]
    BY <1>3, <1>4, <2>1
  <2>3. /\ f.kind = stack[n].kind /\ f.phase = stack[n].phase /\ f.outer = stack[n].outer
        /\ f.held = stack[n].held
    BY <1>0, <1>3, <1>4, <2>1
  <2>4. mode' # "orchestrate" /\ mode # "orchestrate" /\ (exiting => exiting')
    BY <1>1, <1>2
  <2> QED
    BY <1>1, <1>5, <2>2, <2>3, <2>4, LevelsSame
<1>7. top' = f /\ top'.outer = top.outer
  BY <1>3, <1>4 DEF top
<1>8. CASE \E kind \in Relayed, n \in 1 .. MaxLoops : Jump(kind, n) /\ ~ n <= top.loops
  <2>1. PICK kind \in Relayed, n \in 1 .. MaxLoops : Jump(kind, n) /\ ~ n <= top.loops
    BY <1>8
  <2>2. /\ signal' = [type |-> kind, level |-> n] /\ exiting' = exiting
        /\ n \in 1 .. OpenLoops(top) /\ NoneBelow(Len(stack)) /\ top.loops = 0
    BY <2>1 DEF Jump, HaltWith, NoneBelow
  <2>3. signal'.level \in 1 .. top'.outer
    BY <1>0, <1>7, <2>1, <2>2 DEF OpenLoops
  <2>4. NoneBelow(Len(stack))'
    BY <1>3, <2>2 DEF NoneBelow
  <2> QED
    BY <1>2, <1>6, <2>2, <2>3, <2>4 DEF Aimed
<1>9. CASE Return \/ Throw \/ Fatal \/ FallOff
  <2>1. exiting' = exiting /\ (signal' = signal \/ signal'.type = "return")
    BY <1>9 DEF Return, Throw, Fatal, FallOff, HaltWith
  <2> QED
    BY <1>2, <1>6, <2>1 DEF Aimed, NoSignal, Relayed
<1>10. CASE Exit
  <2>1. throwing' = throwing /\ signal' = signal
    BY <1>10 DEF Exit, HaltWith
  <2> QED
    BY <1>2, <1>6, <2>1 DEF Aimed, NoSignal, Relayed
<1> QED
  BY <1>8, <1>9, <1>10

\* A try or a call starts with nothing held back.
LEMMA PlacedStarts ==
  ASSUME FInv, Leaving, Levels, Aimed, Call \/ \E hasFinally \in BOOLEAN : EnterTry(hasFinally)
  PROVE  Levels' /\ Aimed'
<1>0. /\ stack \in Seq(Frames) /\ Len(stack) \in Nat /\ Len(stack) >= 1
      /\ top \in Frames /\ top = stack[Len(stack)]
      /\ top.loops \in Nat /\ top.outer \in Nat /\ MaxLoops \in Nat
      /\ OpenLoops(top) \in Nat /\ OpenLoops(top) <= MaxLoops /\ Regions(top) \in Nat
  <2>1. /\ stack \in Seq(Frames) /\ Len(stack) \in Nat /\ Len(stack) >= 1
        /\ top \in Frames /\ top = stack[Len(stack)]
    BY TopFacts
  <2>2. /\ top.loops \in Nat /\ top.outer \in Nat /\ MaxLoops \in Nat
        /\ top.base \in Nat /\ top.at \in Nat
    BY <2>1, FrameFields, BoundsAssumption
  <2>3. OpenLoops(top) <= MaxLoops
    BY <2>1 DEF Levels
  <2> QED
    BY <2>1, <2>2, <2>3 DEF OpenLoops, Regions
<1>1. mode = "run" /\ mode' = "run" /\ signal' = signal /\ throwing' = throwing
      /\ exiting' = exiting /\ lastBreakLevel' = lastBreakLevel
  BY DEF Call, EnterTry, Statement, Expression, host
<1>2. PICK f \in Frames : /\ stack' = Append(stack, f) /\ f.phase = "body" /\ f.held = Normal
                          /\ OpenLoops(f) <= MaxLoops
  <2>1. CASE Call
    <3>1. PICK f : f = Body("fn", FALSE, 0, Regions(top), 0)
      OBVIOUS
    <3>2. f \in Frames /\ f.phase = "body" /\ f.held = Normal /\ f.outer = 0 /\ f.loops = 0
      BY <1>0, <3>1 DEF Body, Frames, Statuses, Normal
    <3>3. OpenLoops(f) <= MaxLoops
      BY <1>0, <3>2 DEF OpenLoops
    <3>4. stack' = Append(stack, f)
      BY <2>1, <3>1 DEF Call
    <3> QED
      BY <3>2, <3>3, <3>4
  <2>2. ASSUME NEW hasFinally \in BOOLEAN, EnterTry(hasFinally)
        PROVE  \E f \in Frames : /\ stack' = Append(stack, f) /\ f.phase = "body"
                                 /\ f.held = Normal /\ OpenLoops(f) <= MaxLoops
    <3>1. PICK f : f = Body("try", hasFinally, OpenLoops(top), Regions(top), suppress)
      OBVIOUS
    <3>2. /\ f \in Frames /\ f.phase = "body" /\ f.held = Normal
          /\ f.outer = OpenLoops(top) /\ f.loops = 0
      BY <1>0, <3>1 DEF Body, Frames, Statuses, Normal, FInv, TypeOK
    <3>3. OpenLoops(f) <= MaxLoops
      BY <1>0, <3>2 DEF OpenLoops
    <3> QED
      BY <2>2, <3>1, <3>2, <3>3 DEF EnterTry
  <2> QED
    BY <2>1, <2>2
<1>3. /\ Len(stack') = Len(stack) + 1 /\ stack'[Len(stack) + 1] = f
      /\ \A i \in 1 .. Len(stack) : stack'[i] = stack[i]
  BY <1>0, <1>2, PushProperties
<1>4. top' = f
  BY <1>3 DEF top
<1>5. TopFits'
  BY <1>2, <1>4 DEF TopFits, Normal, Relayed
<1>6. Levels'
  <2>1. PICK n \in Nat : n = Len(stack) + 1
    BY <1>0
  <2>2. n >= 1 /\ n <= Len(stack) + 1 /\ \A i \in 1 .. n - 1 : stack'[i] = stack[i]
    BY <1>0, <1>3, <2>1
  <2> QED
    BY <1>1, <1>3, <1>5, <2>1, <2>2, LevelsStep
<1>7. signal = NoSignal \/ exiting
  BY <1>1 DEF FInv, SignalsOK, Clean
<1> QED
  BY <1>1, <1>6, <1>7 DEF Aimed, NoSignal, Relayed

\* The innermost chunk is replaced by another state of it.
LEMMA LevelsTop ==
  ASSUME FInv, Levels, NEW f \in Frames, stack' = WithTop(stack, f),
         f.kind # "try" => f.phase = "body", OpenLoops(f) <= MaxLoops,
         f.held.type = "exit" => exiting',
         f.held.type \in Relayed =>
           f.held.level \in 1 .. f.outer /\ f.held.level = lastBreakLevel' /\ NoneBelow(Len(stack)),
         f.phase # "finally" /\ mode' # "orchestrate" => f.held = Normal,
         exiting => exiting',
         lastBreakLevel' = lastBreakLevel \/ NoneBelow(Len(stack))
  PROVE  Levels' /\ top' = f
<1>1. PICK n \in Nat : n = Len(stack) /\ n >= 1
  BY TopFacts
<1>2. /\ Len(stack') = n /\ stack'[n] = f /\ \A i \in 1 .. n - 1 : stack'[i] = stack[i]
  BY <1>1, TopFacts, WithTopProperties
<1>3. top' = f
  BY <1>2 DEF top
<1>4. NoneBelow(n) => NoneBelow(n)'
  BY <1>2 DEF NoneBelow
<1>5. NoneBelow(Len(stack))' <=> NoneBelow(n)'
  BY <1>2 DEF NoneBelow
<1>6. TopFits'
  BY <1>1, <1>3, <1>4, <1>5 DEF TopFits
<1>7. n <= Len(stack) + 1 /\ n # Len(stack) + 1
  BY <1>1
<1>8. Levels'
  BY <1>1, <1>2, <1>6, <1>7, LevelsStep
<1> QED
  BY <1>3, <1>8

\* A body hands its status to the orchestrator, and the level with it.
LEMMA PlacedReturns ==
  ASSUME FInv, Leaving, Levels, Aimed, TryBodyReturns \/ CatchReturns \/ FinallyReturns
  PROVE  Levels' /\ Aimed'
<1>0. /\ mode = "ended" /\ mode' = "orchestrate" /\ top.kind = "try" /\ TakeSignal
      /\ exiting' = exiting
  BY DEF TryBodyReturns, CatchReturns, FinallyReturns, BodyReturns, TakeSignal
<1>1. PICK status : status = EndedStatus
  OBVIOUS
<1>2. status \in Statuses /\ (exiting' \/ Clean')
  BY <1>0, <1>1, TakeSignalClean
<1>3. /\ exiting => ~error /\ ~throwing /\ signal = NoSignal
      /\ error \in BOOLEAN /\ exiting \in BOOLEAN /\ throwing \in BOOLEAN /\ signal \in Signals
  BY DEF Leaving, Aimed, FInv, TypeOK
<1>4. status.type = "exit" => exiting
  BY <1>1, <1>3 DEF EndedStatus, Normal, Relayed, Signals, NoSignal
<1>5. status.type \in Relayed =>
        /\ status.level = signal.level /\ signal.type \in Relayed /\ lastBreakLevel' = signal.level
  BY <1>0, <1>1, <1>3 DEF EndedStatus, Normal, Relayed, TakeSignal
<1>6. status.type \notin Relayed => lastBreakLevel' = lastBreakLevel
  BY <1>0, <1>1 DEF TakeSignal
<1>7. status.type \in Relayed =>
        status.level \in 1 .. top.outer /\ status.level = lastBreakLevel' /\ NoneBelow(Len(stack))
  BY <1>5 DEF Aimed
<1>8. Levels'
  <2>1. CASE stack' = WithTop(stack, [top EXCEPT !.held = status])
    <3>1. PICK f : f = [top EXCEPT !.held = status]
      OBVIOUS
    <3>2. /\ f \in Frames /\ f.kind = top.kind /\ f.held = status /\ f.outer = top.outer
          /\ OpenLoops(f) = OpenLoops(top)
      BY <1>2, <3>1, TopFacts DEF Frames, OpenLoops
    <3>3. OpenLoops(f) <= MaxLoops
      BY <3>2, TopFacts DEF Levels
    <3>4. stack' = WithTop(stack, f)
      BY <2>1, <3>1
    <3> QED
      BY <1>0, <1>4, <1>6, <1>7, <3>2, <3>3, <3>4, LevelsTop
  <2>2. CASE stack' = stack /\ status = Normal
    <3>1. PICK n \in Nat : n = Len(stack) /\ n >= 1 /\ n <= Len(stack) + 1 /\ n # Len(stack) + 1
      BY TopFacts
    <3>2. lastBreakLevel' = lastBreakLevel
      BY <1>6, <2>2 DEF Normal, Relayed
    <3>3. /\ top.held.type = "exit" => exiting
          /\ OpenLoops(top) <= MaxLoops
          /\ top.held.type \in Relayed =>
               /\ top.held.level \in 1 .. top.outer
               /\ top.held.level = lastBreakLevel
               /\ NoneBelow(Len(stack))
      BY TopFacts DEF Levels
    <3>4. top' = top /\ (NoneBelow(Len(stack)) => NoneBelow(Len(stack))')
      BY <2>2 DEF top, NoneBelow
    <3>5. TopFits'
      BY <1>0, <3>2, <3>3, <3>4 DEF TopFits
    <3> QED
      BY <1>0, <2>2, <3>1, <3>2, <3>5, LevelsStep
  <2> QED
    BY <1>1, <2>1, <2>2 DEF TryBodyReturns, CatchReturns, FinallyReturns
<1>9. signal' = NoSignal /\ (exiting' => ~throwing')
  BY <1>0, <1>2, <1>3 DEF Clean, TakeSignal
<1> QED
  BY <1>8, <1>9 DEF Aimed, NoSignal, Relayed

\* While an orchestrator runs, nothing is left on the host but pending_exit.
LEMMA Orderly ==
  ASSUME FInv, Leaving, Aimed, mode = "orchestrate"
  PROVE  /\ signal = NoSignal /\ ~throwing /\ ~error
         /\ exiting => top.held.type = "exit"
         /\ top.kind = "try" /\ top.loops = 0 /\ top.at = 0
BY DEF FInv, SignalsOK, Clean, Leaving, Aimed, ModeOK

\* An exit meets no finally: it is not held back.
LEMMA ExitNotHeld ==
  ASSUME FInv, Leaving, Levels, RunFinally
  PROVE  top.held.type # "exit"
<1> SUFFICES ASSUME top.held.type = "exit" PROVE FALSE
  OBVIOUS
<1>1. top.phase = "catch" /\ top.hasFinally
  BY TopFacts, FrameFields DEF RunFinally, SkipsFinally, Orchestrating
<1>2. exiting
  BY TopFacts DEF Levels
<1>3. NoFinallyBehindCatch(stack)
  BY <1>2 DEF Leaving
<1> QED
  BY <1>1, <1>3, TopFacts DEF NoFinallyBehindCatch

LEMMA PlacedClause ==
  ASSUME FInv, Leaving, Levels, Aimed, RunCatch \/ RunFinally
  PROVE  Levels' /\ Aimed'
<1>1. /\ mode = "orchestrate" /\ mode' = "run" /\ signal' = signal /\ throwing' = throwing
      /\ exiting' = exiting /\ lastBreakLevel' = lastBreakLevel
  BY DEF RunCatch, RunFinally, Orchestrating, host
<1>2. top.kind = "try" /\ signal = NoSignal /\ ~throwing
  BY <1>1, Orderly
<1>3. /\ top.held.type = "exit" => exiting
      /\ OpenLoops(top) <= MaxLoops
      /\ top.held.type \in Relayed =>
           /\ top.held.level \in 1 .. top.outer
           /\ top.held.level = lastBreakLevel
           /\ NoneBelow(Len(stack))
  BY TopFacts DEF Levels
<1>4. CASE RunCatch
  <2>1. PICK f : f = [top EXCEPT !.phase = "catch", !.held = Normal]
    OBVIOUS
  <2>2. /\ f \in Frames /\ f.kind = top.kind /\ f.held = Normal
        /\ OpenLoops(f) = OpenLoops(top)
    BY <2>1, TopFacts DEF Frames, OpenLoops, Normal, Statuses
  <2>3. stack' = WithTop(stack, f)
    BY <1>4, <2>1 DEF RunCatch
  <2>4. Levels'
    BY <1>1, <1>2, <1>3, <2>2, <2>3, LevelsTop DEF Normal, Relayed
  <2> QED
    BY <1>1, <1>2, <2>4 DEF Aimed, NoSignal, Relayed
<1>5. CASE RunFinally
  <2>1. PICK f : f = [top EXCEPT !.phase = "finally"]
    OBVIOUS
  <2>2. /\ f \in Frames /\ f.kind = top.kind /\ f.held = top.held /\ f.outer = top.outer
        /\ f.phase = "finally" /\ OpenLoops(f) = OpenLoops(top)
    BY <2>1, TopFacts DEF Frames, OpenLoops
  <2>3. stack' = WithTop(stack, f)
    BY <1>5, <2>1 DEF RunFinally
  <2>4. Levels'
    BY <1>1, <1>2, <1>3, <2>2, <2>3, LevelsTop
  <2> QED
    BY <1>1, <1>2, <2>4 DEF Aimed, NoSignal, Relayed
<1> QED
  BY <1>4, <1>5

\* The chunk a try or a call stands in.
LEMMA Parent ==
  ASSUME FInv, Levels, top.kind # "main", NEW n, n = Len(stack) - 1
  PROVE  /\ n \in 1 .. Len(stack) /\ n \in Nat /\ n # Len(stack) /\ Len(stack) = n + 1
         /\ stack[n] \in Frames /\ StackOK(Pop(stack)) /\ Len(Pop(stack)) = n
         /\ \A i \in 1 .. n : Pop(stack)[i] = stack[i]
         /\ top.kind = "try" => top.outer = OpenLoops(stack[n])
         /\ OpenLoops(stack[n]) <= MaxLoops
         /\ stack[n].outer \in Nat /\ stack[n].loops \in Nat
         /\ stack[n].kind # "try" => stack[n].outer = 0
         /\ stack[n].phase # "finally" => stack[n].held = Normal
<1>0. /\ stack \in Seq(Frames) /\ Len(stack) \in Nat /\ Len(stack) >= 1
      /\ top = stack[Len(stack)] /\ StackOK(stack)
  BY TopFacts
<1>1. Len(stack) >= 2 /\ StackOK(Pop(stack)) /\ Len(Pop(stack)) = n
      /\ Pop(stack)[n] = stack[n] /\ Pop(stack)[n] \in Frames
  BY <1>0, StackPop
<1>2. /\ n \in 1 .. Len(stack) /\ n \in Nat /\ n # Len(stack) /\ Len(stack) = n + 1
  BY <1>0, <1>1
<1>3. \A i \in 1 .. n : Pop(stack)[i] = stack[i]
  BY <1>0, <1>1, PopProperties
<1>4. top.kind = "try" => top.outer = OpenLoops(stack[n])
  BY <1>0, <1>2 DEF StackOK
<1>5. stack[n].kind # "try" => stack[n].outer = 0
  BY <1>0, <1>2 DEF StackOK
<1>6. /\ OpenLoops(stack[n]) <= MaxLoops
      /\ stack[n].phase # "finally" => stack[n].held = Normal
  BY <1>2 DEF Levels
<1> QED
  BY <1>1, <1>2, <1>3, <1>4, <1>5, <1>6, FrameFields

\* The chunk below goes on, or halts as well.
LEMMA LevelsPop ==
  ASSUME FInv, Levels, top.kind # "main", NEW n, n = Len(stack) - 1,
         \/ stack' = Pop(stack)
         \/ stack' = Abandon(Pop(stack))
         \/ \E l \in 0 .. stack[n].loops :
              stack' = WithTop(Pop(stack), [Pop(stack)[n] EXCEPT !.loops = l]),
         mode' # "orchestrate", exiting' = exiting, lastBreakLevel' = lastBreakLevel
  PROVE  /\ Levels' /\ Len(stack') = n /\ top' = stack'[n]
         /\ \A i \in 1 .. n - 1 : stack'[i] = stack[i]
         /\ top'.kind = stack[n].kind /\ top'.phase = stack[n].phase
         /\ top'.outer = stack[n].outer /\ top'.held = stack[n].held
         /\ top'.hasFinally = stack[n].hasFinally
         /\ stack' = Abandon(Pop(stack)) => top'.loops = 0
<1>1. /\ n \in 1 .. Len(stack) /\ n \in Nat /\ n # Len(stack)
      /\ stack[n] \in Frames /\ StackOK(Pop(stack)) /\ Len(Pop(stack)) = n
      /\ \A i \in 1 .. n : Pop(stack)[i] = stack[i]
      /\ OpenLoops(stack[n]) <= MaxLoops
      /\ stack[n].outer \in Nat /\ stack[n].loops \in Nat /\ MaxLoops \in Nat
  BY Parent, BoundsAssumption
<1>2. PICK p \in Frames : p = stack[n] /\ p = Pop(stack)[n]
  BY <1>1
<1>3. /\ Len(stack') = n /\ \A i \in 1 .. n - 1 : stack'[i] = stack[i]
      /\ stack'[n].kind = p.kind /\ stack'[n].phase = p.phase
      /\ stack'[n].outer = p.outer /\ stack'[n].held = p.held
      /\ stack'[n].hasFinally = p.hasFinally
      /\ OpenLoops(stack'[n]) <= MaxLoops
      /\ stack' = Abandon(Pop(stack)) => stack'[n].loops = 0
  <2>1. CASE stack' = Abandon(Pop(stack))
    <3>1. /\ Len(stack') = n
          /\ \A i \in 1 .. n - 1 : stack'[i] = Pop(stack)[i]
          /\ stack'[n].loops = 0 /\ stack'[n].kind = p.kind /\ stack'[n].phase = p.phase
          /\ stack'[n].outer = p.outer /\ stack'[n].held = p.held
          /\ stack'[n].hasFinally = p.hasFinally
      BY <1>1, <1>2, <2>1, Abandoned
    <3>2. OpenLoops(stack'[n]) <= MaxLoops
      BY <1>1, <1>2, <3>1 DEF OpenLoops
    <3> QED
      BY <1>1, <3>1, <3>2
  <2>2. CASE stack' = Pop(stack) /\ stack' # Abandon(Pop(stack))
    BY <1>1, <1>2, <2>2
  <2>3. ASSUME NEW l \in 0 .. stack[n].loops, stack' # Abandon(Pop(stack)),
               stack' = WithTop(Pop(stack), [Pop(stack)[n] EXCEPT !.loops = l])
        PROVE  /\ Len(stack') = n /\ \A i \in 1 .. n - 1 : stack'[i] = stack[i]
               /\ stack'[n].kind = p.kind /\ stack'[n].phase = p.phase
               /\ stack'[n].outer = p.outer /\ stack'[n].held = p.held
               /\ stack'[n].hasFinally = p.hasFinally
               /\ OpenLoops(stack'[n]) <= MaxLoops
    <3>1. PICK f : f = [p EXCEPT !.loops = l]
      OBVIOUS
    <3>2. /\ f \in Frames /\ f.kind = p.kind /\ f.phase = p.phase /\ f.outer = p.outer
          /\ f.held = p.held /\ f.hasFinally = p.hasFinally /\ f.loops = l
      BY <1>1, <1>2, <3>1 DEF Frames
    <3>3. OpenLoops(f) <= MaxLoops
      BY <1>1, <1>2, <3>2 DEF OpenLoops
    <3>4. stack' = WithTop(Pop(stack), f) /\ Pop(stack) \in Seq(Frames) /\ Len(Pop(stack)) >= 1
      BY <1>1, <1>2, <2>3, <3>1 DEF StackOK
    <3>5. Len(stack') = n /\ stack'[n] = f /\ \A i \in 1 .. n - 1 : stack'[i] = Pop(stack)[i]
      <4>1. PICK b : b = Pop(stack)
        OBVIOUS
      <4>2. stack' = WithTop(b, f) /\ b \in Seq(Frames) /\ Len(b) >= 1 /\ Len(b) = n
        BY <1>1, <3>4, <4>1
      <4>3. /\ Len(WithTop(b, f)) = Len(b) /\ WithTop(b, f)[Len(b)] = f
            /\ \A i \in 1 .. Len(b) - 1 : WithTop(b, f)[i] = b[i]
        BY <3>2, <4>2, WithTopProperties
      <4> QED
        BY <4>1, <4>2, <4>3
    <3> QED
      BY <1>1, <3>2, <3>3, <3>5
  <2> QED
    BY <2>1, <2>2, <2>3
<1>4. PICK f : f = stack'[n]
  OBVIOUS
<1>5. Levels'
  BY <1>1, <1>2, <1>3, <1>4, LevelsSame
<1>6. top' = stack'[n]
  BY <1>3 DEF top
<1> QED
  BY <1>2, <1>3, <1>5, <1>6

\* The dispatch behind a try reads the level of the break that ended it.
LEMMA OwnLevel ==
  ASSUME FInv, Levels
  PROVE  DispatchReadsOwnLevel
BY TopFacts DEF Levels, DispatchReadsOwnLevel, Finishing

LEMMA PlacedFinishes ==
  ASSUME FInv, Leaving, Levels, Aimed,
         FinishNormal \/ FinishHalting \/ FinishRelaying \/ CallReturns
  PROVE  Levels' /\ Aimed'
<1>0. /\ top.kind # "main" /\ mode' # "orchestrate" /\ exiting' = exiting
      /\ lastBreakLevel' = lastBreakLevel
  BY DEF FinishNormal, FinishHalting, FinishRelaying, Finishing, Orchestrating,
         CallReturns, FInv, ModeOK, host
<1>1. PICK n : n = Len(stack) - 1
  OBVIOUS
<1>2. /\ n \in Nat /\ stack[n] \in Frames /\ Len(Pop(stack)) = n
      /\ Pop(stack)[n] = stack[n]
      /\ top.kind = "try" => top.outer = OpenLoops(stack[n])
      /\ stack[n].outer \in Nat /\ stack[n].loops \in Nat /\ Len(stack) = n + 1
  <2>1. /\ n \in Nat /\ stack[n] \in Frames /\ Len(Pop(stack)) = n /\ n \in 1 .. n + 1
        /\ \A i \in 1 .. n : Pop(stack)[i] = stack[i]
        /\ top.kind = "try" => top.outer = OpenLoops(stack[n])
        /\ stack[n].outer \in Nat /\ stack[n].loops \in Nat /\ Len(stack) = n + 1
    BY <1>0, <1>1, Parent
  <2>2. n \in 1 .. n
    BY <2>1
  <2> QED
    BY <2>1, <2>2
<1>3. CASE FinishNormal
  <2>1. stack' = Pop(stack) /\ signal' = signal /\ throwing' = throwing /\ mode = "orchestrate"
    BY <1>3 DEF FinishNormal, Finishing, Orchestrating, host
  <2>2. Levels'
    BY <1>0, <1>1, <2>1, LevelsPop
  <2> QED
    BY <2>1, <2>2, Orderly DEF Aimed, NoSignal, Relayed
<1>4. CASE FinishHalting
  <2>1. /\ stack' = Abandon(Pop(stack)) /\ mode = "orchestrate"
        /\ signal' = signal \/ (signal'.type = "return" /\ top.held.type = "return")
        /\ throwing' = (throwing \/ top.held.type = "throw")
    BY <1>4 DEF FinishHalting, Finishing, Orchestrating, NoSignal
  <2>2. Levels'
    BY <1>0, <1>1, <2>1, LevelsPop
  <2>3. signal = NoSignal /\ ~throwing /\ (exiting => top.held.type = "exit")
    BY <2>1, Orderly
  <2>4. ASSUME exiting'
        PROVE  ~throwing' /\ signal' = NoSignal
    <3>1. top.held.type = "exit"
      BY <1>0, <2>3, <2>4
    <3> QED
      BY <2>1, <2>3, <3>1
  <2>5. signal'.type \notin Relayed
    BY <2>1, <2>3 DEF NoSignal, Relayed
  <2> QED
    BY <2>2, <2>4, <2>5 DEF Aimed
<1>5. CASE FinishRelaying
  <2>1. /\ mode = "orchestrate" /\ Finishing /\ top.held.type \in Relayed /\ throwing' = throwing
    BY <1>5 DEF FinishRelaying, Finishing, Orchestrating
  <2>2. signal = NoSignal /\ ~throwing /\ ~exiting /\ top.kind = "try"
    BY <2>1, Orderly DEF Relayed
  <2>3. /\ lastBreakLevel \in 1 .. top.outer /\ NoneBelow(n + 1) /\ top.outer \in Nat
    <3>1. top = stack[n + 1] /\ n + 1 \in 1 .. Len(stack) /\ top.outer \in Nat
      BY <1>2, TopFacts, FrameFields
    <3>2. /\ top.held.level \in 1 .. top.outer /\ top.held.level = lastBreakLevel
          /\ NoneBelow(n + 1)
      BY <2>1, <3>1 DEF Levels
    <3> QED
      BY <3>1, <3>2
  <2>4. PICK depth \in Nat : depth = stack[n].loops /\ depth = Pop(stack)[n].loops
    BY <1>2
  <2>5. CASE lastBreakLevel \in 1 .. depth
    <3>1. PICK l : l = LoopsLeft(top.held.type, lastBreakLevel, depth)
      OBVIOUS
    <3>2. l \in 0 .. depth
      BY <2>3, <2>4, <2>5, <3>1 DEF LoopsLeft
    <3>3. stack' = WithTop(Pop(stack), [Pop(stack)[n] EXCEPT !.loops = l]) /\ signal' = signal
      BY <1>2, <1>5, <2>4, <2>5, <3>1 DEF FinishRelaying
    <3>4. Levels'
      BY <1>0, <1>1, <2>4, <3>2, <3>3, LevelsPop
    <3> QED
      BY <1>0, <2>1, <2>2, <3>3, <3>4 DEF Aimed, NoSignal, Relayed
  <2>6. CASE lastBreakLevel \notin 1 .. depth
    <3>1. /\ stack' = Abandon(Pop(stack))
          /\ signal'.level = IF lastBreakLevel > depth THEN lastBreakLevel - depth ELSE 1
      BY <1>2, <1>5, <2>4, <2>6 DEF FinishRelaying
    <3>2. /\ Levels' /\ Len(stack') = n /\ top'.outer = stack[n].outer
          /\ \A i \in 1 .. n - 1 : stack'[i] = stack[i]
      BY <1>0, <1>1, <3>1, LevelsPop
    <3>3. signal'.level \in 1 .. top'.outer
      BY <1>2, <2>2, <2>3, <2>4, <2>6, <3>1, <3>2 DEF OpenLoops
    <3>4. NoneBelow(Len(stack))'
      BY <1>2, <2>3, <3>2 DEF NoneBelow
    <3> QED
      BY <1>0, <2>1, <2>2, <3>2, <3>3, <3>4 DEF Aimed
  <2> QED
    BY <2>5, <2>6
<1>6. CASE CallReturns
  <2>1. /\ stack' = Pop(stack) \/ stack' = Abandon(Pop(stack))
        /\ signal' = NoSignal /\ throwing' = throwing
    BY <1>6 DEF CallReturns
  <2>2. Levels'
    BY <1>0, <1>1, <2>1, LevelsPop
  <2> QED
    BY <1>0, <2>1, <2>2 DEF Aimed, NoSignal, Relayed
<1> QED
  BY <1>3, <1>4, <1>5, <1>6

LEMMA PlacedRests ==
  ASSUME FInv, Levels, Aimed, MainReturns \/ UNCHANGED vars
  PROVE  Levels' /\ Aimed'
<1>1. CASE UNCHANGED vars
  BY <1>1 DEF vars, Levels, Aimed, NoneBelow, top
<1>2. CASE MainReturns
  <2>1. /\ stack' = stack /\ top' = top /\ signal' = NoSignal /\ throwing' = FALSE
        /\ exiting' = exiting /\ lastBreakLevel' = lastBreakLevel /\ mode = "ended" /\ mode' = "done"
    BY <1>2 DEF MainReturns, top
  <2>2. \A i \in 1 .. Len(stack) : NoneBelow(i)' <=> NoneBelow(i)
    BY <2>1 DEF NoneBelow
  <2> QED
    BY <2>1, <2>2 DEF Levels, Aimed, NoSignal, Relayed
<1> QED
  BY <1>1, <1>2

LEMMA PlacedNext ==
  ASSUME ~BreakUnderFinally, ~BreakFromLoop
  PROVE  FInv /\ Leaving /\ Levels /\ Aimed /\ [Next]_vars => Levels' /\ Aimed'
<1> SUFFICES ASSUME FInv, Leaving, Levels, Aimed, [Next]_vars
             PROVE  Levels' /\ Aimed'
  OBVIOUS
<1>1. CASE Program
  BY <1>1, PlacedInside, PlacedEnds, PlacedStarts DEF Program
<1>2. CASE Engine
  BY <1>2, PlacedReturns, PlacedClause, PlacedFinishes, PlacedRests DEF Engine
<1>3. CASE UNCHANGED vars
  BY <1>3, PlacedRests
<1> QED
  BY <1>1, <1>2, <1>3 DEF Next, Terminated

LEMMA PlacedInit == Init => Levels /\ Aimed
<1> SUFFICES ASSUME Init PROVE Levels /\ Aimed
  OBVIOUS
<1>1. PICK f : f = Body("main", FALSE, 0, 0, 0)
  OBVIOUS
<1>2. stack = <<f>> /\ Len(stack) = 1 /\ stack[1] = f
  BY <1>1 DEF Init
<1>3. /\ f.kind = "main" /\ f.phase = "body" /\ f.outer = 0 /\ f.loops = 0 /\ f.held = Normal
  BY <1>1 DEF Body
<1>4. OpenLoops(f) <= MaxLoops
  BY <1>3, BoundsAssumption DEF OpenLoops
<1>5. Levels
  BY <1>2, <1>3, <1>4 DEF Levels, Normal, Relayed
<1> QED
  BY <1>5 DEF Init, Aimed, NoSignal, Relayed

LEMMA PlacedAlways ==
  ASSUME ~BreakUnderFinally, ~BreakFromLoop, ~ExitUnderCatch
  PROVE  Spec => [](FInv /\ Leaving /\ Levels /\ Aimed)
<1>1. Init => Leaving
  BY DEF Init, Leaving
<1>2. FInv /\ Leaving /\ [Next]_vars => Leaving'
  BY LeavingNext
<1>3. FInv /\ Leaving /\ Levels /\ Aimed /\ [Next]_vars => Levels' /\ Aimed'
  BY PlacedNext
<1> QED
  BY <1>1, <1>2, <1>3, PlacedInit, FInvAlways, PTL DEF Spec

\* The level the compiled dispatch reads from last_break_level is the level
\* of the break that ended this try, for every depth of loops and tries,
\* provided that no break leaves a try while an enclosing finally runs or out
\* of a loop in that try: the runs try_break_level_clobbered and
\* try_break_level_too_deep show what happens when one does.
THEOREM BreaksFindTheirLevel ==
  ASSUME ~BreakUnderFinally, ~BreakFromLoop, ~ExitUnderCatch
  PROVE  Spec => []DispatchReadsOwnLevel
<1>1. FInv /\ Levels => DispatchReadsOwnLevel
  BY OwnLevel
<1> QED
  BY <1>1, PlacedAlways, PTL

-----------------------------------------------------------------------------
(* The refinement: what is seen of the interpreter is the try statement.   *)

\* Append and SubSeq, of sequences of anything.
LEMMA AppendIs ==
  ASSUME NEW n \in Nat, NEW s, DOMAIN s = 1 .. n - 1, Len(s) = n - 1, n >= 1, NEW g,
         s = [i \in DOMAIN s |-> s[i]]
  PROVE  Append(s, g) = [i \in 1 .. n |-> IF i = n THEN g ELSE s[i]]
<1>1. PICK S : S = {s[i] : i \in 1 .. n - 1} \cup {g}
  OBVIOUS
<1>2. s \in [1 .. n - 1 -> S] /\ n - 1 \in Nat /\ g \in S
  BY <1>1
<1>3. s \in Seq(S)
  BY <1>2, SeqDef
<1>4. PICK t : t = [i \in 1 .. n |-> IF i = n THEN g ELSE s[i]]
  OBVIOUS
<1>5. t \in [1 .. n -> S]
  BY <1>2, <1>4
<1>6. t \in Seq(S) /\ Len(t) = n
  BY <1>4, <1>5, SeqDef
<1>7. /\ Append(s, g) \in Seq(S) /\ Len(Append(s, g)) = n
      /\ \A i \in 1 .. n - 1 : Append(s, g)[i] = s[i]
      /\ Append(s, g)[n] = g
  BY <1>2, <1>3, AppendProperties
<1>8. \A i \in 1 .. n : Append(s, g)[i] = t[i]
  BY <1>4, <1>7
<1> QED
  BY <1>4, <1>6, <1>7, <1>8, SeqEqual

LEMMA FrontIs ==
  ASSUME NEW n \in Nat, NEW s, DOMAIN s = 1 .. n + 1
  PROVE  SubSeq(s, 1, n) = [i \in 1 .. n |-> s[i]]
<1>1. PICK S : S = {s[i] : i \in 1 .. n}
  OBVIOUS
<1>2. PICK t : t = [i \in 1 .. n |-> s[i]]
  OBVIOUS
<1>3. t \in [1 .. n -> S] /\ \A i \in 1 .. n : s[i] \in S
  BY <1>1, <1>2
<1>4. t \in Seq(S) /\ Len(t) = n
  BY <1>2, <1>3, SeqDef
<1>5. /\ SubSeq(s, 1, n) \in Seq(S) /\ Len(SubSeq(s, 1, n)) = n
      /\ \A i \in 1 .. n : SubSeq(s, 1, n)[i] = s[i]
  BY <1>3, SubSeqProperties
<1>6. \A i \in 1 .. n : SubSeq(s, 1, n)[i] = t[i]
  BY <1>2, <1>5
<1> QED
  BY <1>2, <1>4, <1>5, <1>6, SeqEqual

\* What is seen of a chunk; one that has ended holds nothing back any more.
Shown(f, ended) ==
  [kind |-> f.kind, phase |-> f.phase, hasFinally |-> f.hasFinally,
   outer |-> f.outer, loops |-> f.loops,
   pending |-> IF ended THEN [type |-> "normal", aim |-> 0] ELSE FlowOf(f.held, f.outer)]

LEMMA Appended ==
  ASSUME NEW n \in Nat, n >= 1, NEW F, F = [i \in 1 .. n |-> F[i]]
  PROVE  Append([i \in 1 .. n - 1 |-> F[i]], F[n]) = F
<1> DEFINE S == {F[i] : i \in 1 .. n}
<1>1. PICK b : b = [i \in 1 .. n - 1 |-> F[i]]
  OBVIOUS
<1>2. b \in Seq(S) /\ Len(b) = n - 1
  BY <1>1
<1>3. F \in Seq(S) /\ Len(F) = n
  OBVIOUS
<1>4. PICK a : a = Append(b, F[n])
  OBVIOUS
<1>5. F[n] \in S
  OBVIOUS
<1>6. a \in Seq(S) /\ Len(a) = n /\ a[n] = F[n] /\ \A i \in 1 .. n - 1 : a[i] = b[i]
  BY <1>2, <1>4, <1>5, AppendProperties
<1>7. \A i \in 1 .. n : a[i] = F[i]
  <2>1. ASSUME NEW i \in 1 .. n PROVE a[i] = F[i]
    <3>1. CASE i = n
      BY <1>6, <3>1
    <3>2. CASE i # n
      <4>1. i \in 1 .. n - 1
        BY <3>2
      <4>2. b[i] = F[i]
        BY <1>1, <4>1
      <4> QED
        BY <1>6, <4>1, <4>2
    <3> QED
      BY <3>1, <3>2
  <2> QED
    BY <2>1
<1>8. a = F
  BY <1>3, <1>6, <1>7, SeqEqual
<1> QED
  BY <1>1, <1>4, <1>8

LEMMA FramesListed ==
  ASSUME Len(stack) \in Nat, Len(stack) >= 1
  PROVE  FramesSeen = [i \in 1 .. Len(stack) |-> Shown(stack[i], i = Len(stack) /\ mode # "run")]
<1>1. PICK n \in Nat : n = Len(stack) /\ n >= 1
  OBVIOUS
<1>2. PICK g : g = [i \in 1 .. n |-> AbstractFrame(i)]
  OBVIOUS
<1>3. g = [i \in 1 .. n |-> g[i]] /\ g[n] = AbstractFrame(n)
  BY <1>1, <1>2
<1>4. [i \in 1 .. n - 1 |-> AbstractFrame(i)] = [i \in 1 .. n - 1 |-> g[i]]
  BY <1>1, <1>2
<1>5. FramesSeen = g
  <2>1. Append([i \in 1 .. n - 1 |-> g[i]], g[n]) = g
    BY <1>1, <1>3, Appended
  <2>2. FramesSeen = Append([i \in 1 .. n - 1 |-> AbstractFrame(i)], AbstractFrame(n))
    BY <1>1 DEF FramesSeen
  <2> QED
    BY <1>3, <1>4, <2>1, <2>2
<1> QED
  BY <1>1, <1>2, <1>5 DEF AbstractFrame, Shown

LEMMA FramesListedNext ==
  ASSUME Len(stack') \in Nat, Len(stack') >= 1
  PROVE  FramesSeen' = [i \in 1 .. Len(stack') |-> Shown(stack'[i], i = Len(stack') /\ mode' # "run")]
<1>1. PICK n \in Nat : n = Len(stack') /\ n >= 1
  OBVIOUS
<1>2. PICK g : g = [i \in 1 .. n |-> AbstractFrame(i)']
  OBVIOUS
<1>3. g = [i \in 1 .. n |-> g[i]] /\ g[n] = AbstractFrame(n)'
  BY <1>1, <1>2
<1>4. [i \in 1 .. n - 1 |-> AbstractFrame(i)'] = [i \in 1 .. n - 1 |-> g[i]]
  BY <1>1, <1>2
<1>5. FramesSeen' = g
  <2>1. Append([i \in 1 .. n - 1 |-> g[i]], g[n]) = g
    BY <1>1, <1>3, Appended
  <2>2. FramesSeen' = Append([i \in 1 .. n - 1 |-> AbstractFrame(i)'], AbstractFrame(n)')
    BY <1>1 DEF FramesSeen
  <2> QED
    BY <1>3, <1>4, <2>1, <2>2
<1> QED
  BY <1>1, <1>2, <1>5 DEF AbstractFrame, Shown

LEMMA FramesAre ==
  ASSUME FInv
  PROVE  /\ DOMAIN FramesSeen = 1 .. Len(stack)
         /\ Len(FramesSeen) = Len(stack) /\ Len(stack) \in Nat
         /\ FramesSeen = [i \in DOMAIN FramesSeen |-> FramesSeen[i]]
         /\ \A i \in 1 .. Len(stack) :
              FramesSeen[i] = Shown(stack[i], i = Len(stack) /\ mode # "run")
         /\ Language!top = Shown(top, mode # "run")
<1>0. Len(stack) \in Nat /\ Len(stack) >= 1 /\ top = stack[Len(stack)]
  BY TopFacts
<1>1. DOMAIN FramesSeen = 1 .. Len(stack) /\ Len(FramesSeen) = Len(stack)
  BY <1>0, FramesListed
<1>2. \A i \in 1 .. Len(stack) :
        FramesSeen[i] = Shown(stack[i], i = Len(stack) /\ mode # "run")
  BY <1>0, FramesListed
<1>3. Len(stack) \in 1 .. Len(stack)
  BY <1>0
<1>4. FramesSeen[Len(stack)] = Shown(stack[Len(stack)], mode # "run")
  BY <1>2, <1>3
<1>5. FramesSeen = [i \in DOMAIN FramesSeen |-> FramesSeen[i]]
  BY <1>0, FramesListed
<1> QED
  BY <1>0, <1>1, <1>2, <1>4, <1>5 DEF Language!top

\* The frames below the innermost are seen as before: the next three lemmas
\* are the three ways a stack can change.
LEMMA SeenBelow ==
  ASSUME FInv, NEW n \in Nat, Len(stack') = n, n >= 1, n <= Len(stack) + 1,
         n = Len(stack) + 1 => mode = "run",
         \A i \in 1 .. n - 1 : stack'[i] = stack[i]
  PROVE  FramesSeen' = [i \in 1 .. n |-> IF i = n THEN Shown(stack'[n], mode' # "run")
                                         ELSE FramesSeen[i]]
<1>1. FramesSeen' = [i \in 1 .. n |-> Shown(stack'[i], i = n /\ mode' # "run")]
  BY FramesListedNext
<1>2. ASSUME NEW i \in 1 .. n, i # n
      PROVE  Shown(stack'[i], i = n /\ mode' # "run") = FramesSeen[i]
  <2>1. i \in 1 .. Len(stack) /\ i \in 1 .. n - 1 /\ (i = Len(stack) => mode = "run")
    BY <1>2, TopFacts
  <2>2. FramesSeen[i] = Shown(stack[i], i = Len(stack) /\ mode # "run")
    BY <2>1, FramesAre
  <2>3. (i = Len(stack) /\ mode # "run") = FALSE /\ (i = n /\ mode' # "run") = FALSE
    BY <1>2, <2>1
  <2>4. stack'[i] = stack[i]
    BY <2>1
  <2> QED
    BY <2>2, <2>3, <2>4
<1>3. ASSUME NEW i \in 1 .. n, i = n
      PROVE  Shown(stack'[i], i = n /\ mode' # "run") = Shown(stack'[n], mode' # "run")
  <2>1. (i = n /\ mode' # "run") = (mode' # "run")
    BY <1>3
  <2> QED
    BY <1>3, <2>1
<1> QED
  BY <1>1, <1>2, <1>3

LEMMA SeenTop ==
  ASSUME FInv, Len(stack') = Len(stack),
         \A i \in 1 .. Len(stack) - 1 : stack'[i] = stack[i]
  PROVE  /\ top' = stack'[Len(stack)]
         /\ FramesSeen' = Language!WithTop(Shown(top', mode' # "run"))
<1>1. PICK n \in Nat : n = Len(stack) /\ n >= 1
  BY TopFacts
<1>2. top' = stack'[n]
  BY <1>1 DEF top
<1>3. FramesSeen' = [i \in 1 .. n |-> IF i = n THEN Shown(stack'[n], mode' # "run")
                                      ELSE FramesSeen[i]]
  BY <1>1, SeenBelow
<1>4. PICK g : g = Shown(stack'[n], mode' # "run")
  OBVIOUS
<1>5. PICK fs : fs = FramesSeen
  OBVIOUS
<1>6. DOMAIN fs = 1 .. n /\ Len(fs) = n
  BY <1>1, <1>5, FramesAre
<1>7. [i \in 1 .. n |-> IF i = n THEN g ELSE fs[i]] = [fs EXCEPT ![n] = g]
  BY <1>6
<1>8. FramesSeen' = [fs EXCEPT ![Len(fs)] = g]
  BY <1>3, <1>4, <1>5, <1>6, <1>7
<1> QED
  BY <1>1, <1>2, <1>4, <1>5, <1>8 DEF Language!WithTop

LEMMA SeenPush ==
  ASSUME FInv, mode = "run", mode' = "run", NEW f \in Frames, stack' = Append(stack, f)
  PROVE  FramesSeen' = Append(FramesSeen, Shown(f, FALSE))
<1>1. PICK n \in Nat : n = Len(stack) + 1 /\ n >= 1
  BY TopFacts
<1>2. /\ Len(stack') = n /\ stack'[n] = f /\ \A i \in 1 .. n - 1 : stack'[i] = stack[i]
  BY <1>1, TopFacts, PushProperties
<1>3. FramesSeen' = [i \in 1 .. n |-> IF i = n THEN Shown(stack'[n], mode' # "run")
                                      ELSE FramesSeen[i]]
  BY <1>1, <1>2, SeenBelow
<1>4. PICK fs : fs = FramesSeen
  OBVIOUS
<1>5. /\ DOMAIN fs = 1 .. n - 1 /\ Len(fs) = n - 1 /\ n - 1 \in Nat
      /\ fs = [i \in DOMAIN fs |-> fs[i]]
  BY <1>1, <1>4, FramesAre
<1>6. PICK g : g = Shown(f, FALSE)
  OBVIOUS
<1>7. Shown(stack'[n], mode' # "run") = g
  <2>1. (mode' # "run") = FALSE
    OBVIOUS
  <2> QED
    BY <1>2, <1>6, <2>1
<1>8. Append(fs, g) = [i \in 1 .. n |-> IF i = n THEN g ELSE fs[i]]
  BY <1>5, AppendIs
<1> QED
  BY <1>3, <1>4, <1>6, <1>7, <1>8

BelowSet(b, n, v) == [b EXCEPT ![n] = v]

LEMMA SeenPop ==
  ASSUME FInv, NEW n \in Nat, n >= 1, Len(stack) = n + 1, Len(stack') = n,
         \A i \in 1 .. n - 1 : stack'[i] = stack[i]
  PROVE  /\ top' = stack'[n]
         /\ Len(Language!Below) = n
         /\ Language!Below = [i \in 1 .. n |-> Language!Below[i]]
         /\ Language!Below[n] = Shown(stack[n], FALSE)
         /\ FramesSeen' = BelowSet(Language!Below, n, Shown(top', mode' # "run"))
<1>2. top' = stack'[n]
  BY DEF top
<1>3. FramesSeen' = [i \in 1 .. n |-> IF i = n THEN Shown(stack'[n], mode' # "run")
                                      ELSE FramesSeen[i]]
  BY SeenBelow
<1>4. PICK fs : fs = FramesSeen
  OBVIOUS
<1>5. DOMAIN fs = 1 .. n + 1 /\ Len(fs) = n + 1
  BY <1>4, FramesAre
<1>6. PICK g : g = Shown(stack'[n], mode' # "run")
  OBVIOUS
<1>7. PICK b : b = [i \in 1 .. n |-> fs[i]]
  OBVIOUS
<1>8. SubSeq(fs, 1, n) = b
  BY <1>5, <1>7, FrontIs
<1>9. Language!Below = b
  BY <1>4, <1>5, <1>8 DEF Language!Below
<1>10. b = [i \in 1 .. n |-> b[i]] /\ Len(b) = n /\ b[n] = fs[n]
  BY <1>7
<1>11. [b EXCEPT ![n] = g] = [i \in 1 .. n |-> IF i = n THEN g ELSE fs[i]]
  BY <1>7
<1>12. fs[n] = Shown(stack[n], FALSE)
  <2>1. n \in 1 .. Len(stack) /\ (n = Len(stack) /\ mode # "run") = FALSE
    OBVIOUS
  <2> QED
    BY <1>4, <2>1, FramesAre
<1> QED
  BY <1>2, <1>3, <1>4, <1>6, <1>9, <1>10, <1>11, <1>12 DEF BelowSet

\* The record that is seen of a chunk, and what becomes of it.
Seen(k, h, x, o, l, p) ==
  [kind |-> k, phase |-> h, hasFinally |-> x, outer |-> o, loops |-> l, pending |-> p]

SetLoops(v, l) == [v EXCEPT !.loops = l]
SetEnded(v, l, p) == [v EXCEPT !.loops = l, !.pending = p]
SetCatch(v, h) == [v EXCEPT !.phase = h]
SetFinally(v, h, p) == [v EXCEPT !.phase = h, !.pending = p]

LEMMA SeenChanges ==
  ASSUME NEW k, NEW h, NEW x, NEW o, NEW l, NEW p, NEW h2, NEW l2, NEW p2,
         NEW v, v = Seen(k, h, x, o, l, p)
  PROVE  /\ SetLoops(v, l2) = Seen(k, h, x, o, l2, p)
         /\ SetEnded(v, l2, p2) = Seen(k, h, x, o, l2, p2)
         /\ SetCatch(v, h2) = Seen(k, h2, x, o, l, p)
         /\ SetFinally(v, h2, p2) = Seen(k, h2, x, o, l, p2)
<1>2. /\ DOMAIN v = {"kind", "phase", "hasFinally", "outer", "loops", "pending"}
      /\ v.kind = k /\ v.phase = h /\ v.hasFinally = x /\ v.outer = o /\ v.loops = l
      /\ v.pending = p
  BY DEF Seen
<1>3. ASSUME NEW w, NEW h3, NEW l3, NEW p3,
             w = [i \in DOMAIN v |-> w[i]],
             w.kind = k, w.phase = h3, w.hasFinally = x, w.outer = o, w.loops = l3,
             w.pending = p3
      PROVE  w = Seen(k, h3, x, o, l3, p3)
  <2>1. PICK u : u = Seen(k, h3, x, o, l3, p3)
    OBVIOUS
  <2>2. /\ DOMAIN u = DOMAIN v /\ u = [i \in DOMAIN u |-> u[i]]
        /\ u.kind = k /\ u.phase = h3 /\ u.hasFinally = x /\ u.outer = o /\ u.loops = l3
        /\ u.pending = p3
    BY <1>2, <2>1 DEF Seen
  <2>3. \A i \in DOMAIN v : w[i] = u[i]
    BY <1>2, <1>3, <2>2
  <2> QED
    BY <1>3, <2>1, <2>2, <2>3
<1>4. [v EXCEPT !.loops = l2] = Seen(k, h, x, o, l2, p)
  <2>1. PICK w : w = [v EXCEPT !.loops = l2]
    OBVIOUS
  <2>2. /\ w = [i \in DOMAIN v |-> w[i]]
        /\ w.kind = k /\ w.phase = h /\ w.hasFinally = x /\ w.outer = o /\ w.loops = l2
        /\ w.pending = p
    BY <1>2, <2>1
  <2>3. w = Seen(k, h, x, o, l2, p)
    BY <1>3, <2>2
  <2> QED
    BY <2>1, <2>3
<1>5. [v EXCEPT !.loops = l2, !.pending = p2] = Seen(k, h, x, o, l2, p2)
  <2>1. PICK w : w = [v EXCEPT !.loops = l2, !.pending = p2]
    OBVIOUS
  <2>2. /\ w = [i \in DOMAIN v |-> w[i]]
        /\ w.kind = k /\ w.phase = h /\ w.hasFinally = x /\ w.outer = o /\ w.loops = l2
        /\ w.pending = p2
    BY <1>2, <2>1
  <2>3. w = Seen(k, h, x, o, l2, p2)
    BY <1>3, <2>2
  <2> QED
    BY <2>1, <2>3
<1>6. [v EXCEPT !.phase = h2] = Seen(k, h2, x, o, l, p)
  <2>1. PICK w : w = [v EXCEPT !.phase = h2]
    OBVIOUS
  <2>2. /\ w = [i \in DOMAIN v |-> w[i]]
        /\ w.kind = k /\ w.phase = h2 /\ w.hasFinally = x /\ w.outer = o /\ w.loops = l
        /\ w.pending = p
    BY <1>2, <2>1
  <2>3. w = Seen(k, h2, x, o, l, p)
    BY <1>3, <2>2
  <2> QED
    BY <2>1, <2>3
<1>7. [v EXCEPT !.phase = h2, !.pending = p2] = Seen(k, h2, x, o, l, p2)
  <2>1. PICK w : w = [v EXCEPT !.phase = h2, !.pending = p2]
    OBVIOUS
  <2>2. /\ w = [i \in DOMAIN v |-> w[i]]
        /\ w.kind = k /\ w.phase = h2 /\ w.hasFinally = x /\ w.outer = o /\ w.loops = l
        /\ w.pending = p2
    BY <1>2, <2>1
  <2>3. w = Seen(k, h2, x, o, l, p2)
    BY <1>3, <2>2
  <2> QED
    BY <2>1, <2>3
<1> QED
  BY <1>4, <1>5, <1>6, <1>7 DEF SetLoops, SetEnded, SetCatch, SetFinally

LEMMA SeenLoops ==
  ASSUME NEW k, NEW h, NEW x, NEW o, NEW l, NEW p, NEW l2
  PROVE  SetLoops(Seen(k, h, x, o, l, p), l2) = Seen(k, h, x, o, l2, p)
<1>1. PICK v : v = Seen(k, h, x, o, l, p)
  OBVIOUS
<1> QED
  BY <1>1, SeenChanges

LEMMA SeenEnded ==
  ASSUME NEW k, NEW h, NEW x, NEW o, NEW l, NEW p, NEW l2, NEW p2
  PROVE  SetEnded(Seen(k, h, x, o, l, p), l2, p2) = Seen(k, h, x, o, l2, p2)
<1>1. PICK v : v = Seen(k, h, x, o, l, p)
  OBVIOUS
<1> QED
  BY <1>1, SeenChanges

LEMMA SeenCatch ==
  ASSUME NEW k, NEW h, NEW x, NEW o, NEW l, NEW p, NEW h2
  PROVE  SetCatch(Seen(k, h, x, o, l, p), h2) = Seen(k, h2, x, o, l, p)
<1>1. PICK v : v = Seen(k, h, x, o, l, p)
  OBVIOUS
<1> QED
  BY <1>1, SeenChanges

LEMMA SeenFinally ==
  ASSUME NEW k, NEW h, NEW x, NEW o, NEW l, NEW p, NEW h2, NEW p2
  PROVE  SetFinally(Seen(k, h, x, o, l, p), h2, p2) = Seen(k, h2, x, o, l, p2)
<1>1. PICK v : v = Seen(k, h, x, o, l, p)
  OBVIOUS
<1> QED
  BY <1>1, SeenChanges

LEMMA ShownIs ==
  ASSUME NEW f, NEW ended \in BOOLEAN
  PROVE  /\ Shown(f, TRUE) =
              Seen(f.kind, f.phase, f.hasFinally, f.outer, f.loops, [type |-> "normal", aim |-> 0])
         /\ Shown(f, FALSE) =
              Seen(f.kind, f.phase, f.hasFinally, f.outer, f.loops, FlowOf(f.held, f.outer))
         /\ Shown(f, ended).kind = f.kind /\ Shown(f, ended).phase = f.phase
         /\ Shown(f, ended).hasFinally = f.hasFinally
         /\ Shown(f, ended).outer = f.outer /\ Shown(f, ended).loops = f.loops
         /\ Shown(f, TRUE).pending = [type |-> "normal", aim |-> 0]
         /\ Shown(f, FALSE).pending = FlowOf(f.held, f.outer)
BY DEF Shown, Seen

LEMMA FlowSeen ==
  /\ mode = "run" => AbstractFlow = Language!Running
  /\ mode = "ended" => AbstractFlow = FlowOf(Carried, top.outer)
  /\ mode = "orchestrate" => AbstractFlow = FlowOf(top.held, top.outer)
  /\ mode = "done" => AbstractFlow = Language!Over
<1>1. mode = "run" => AbstractFlow = Language!Running
  BY DEF AbstractFlow, Language!Running
<1>2. mode = "ended" => AbstractFlow = FlowOf(Carried, top.outer)
  BY DEF AbstractFlow
<1>3. mode = "orchestrate" => AbstractFlow = FlowOf(top.held, top.outer)
  BY DEF AbstractFlow
<1>4. mode = "done" => AbstractFlow = Language!Over
  BY DEF AbstractFlow, Language!Over
<1> QED
  BY <1>1, <1>2, <1>3, <1>4

LEMMA FlowNext ==
  /\ mode' = "run" => AbstractFlow' = Language!Running
  /\ mode' = "ended" => AbstractFlow' = FlowOf(Carried', top'.outer)
  /\ mode' = "orchestrate" => AbstractFlow' = FlowOf(top'.held, top'.outer)
  /\ mode' = "done" => AbstractFlow' = Language!Over
<1>1. mode' = "run" => AbstractFlow' = Language!Running
  BY DEF AbstractFlow, Language!Running
<1>2. mode' = "ended" => AbstractFlow' = FlowOf(Carried', top'.outer)
  BY DEF AbstractFlow
<1>3. mode' = "orchestrate" => AbstractFlow' = FlowOf(top'.held, top'.outer)
  BY DEF AbstractFlow
<1>4. mode' = "done" => AbstractFlow' = Language!Over
  BY DEF AbstractFlow, Language!Over
<1> QED
  BY <1>1, <1>2, <1>3, <1>4

LEMMA FlowIs ==
  ASSUME NEW status, NEW outer
  PROVE  /\ FlowOf(status, outer).type = status.type
         /\ FlowOf(status, outer) = [type |-> status.type, aim |-> Aim(status.type, outer, status.level)]
         /\ status.type \notin Relayed => FlowOf(status, outer) = [type |-> status.type, aim |-> 0]
         /\ FlowOf(Normal, outer) = [type |-> "normal", aim |-> 0]
         /\ status.type # "running" => FlowOf(status, outer) # Language!Running
BY DEF FlowOf, Aim, Normal, Relayed, Language!Running

\* How the host's fields are read when a chunk has ended.
LEMMA StatusIs ==
  ASSUME FInv, Leaving, Aimed, mode = "ended"
  PROVE  /\ EndedStatus.type \in {"normal", "return", "throw", "exit", "fatal"} \cup Relayed
         /\ EndedStatus.type \in {"normal", "return"} <=> ~error /\ ~exiting /\ ~throwing
                                                       /\ signal.type \notin Relayed
         /\ EndedStatus.type \in Relayed =>
              /\ EndedStatus = signal /\ signal.type \in Relayed
              /\ ~error /\ ~exiting /\ ~throwing
         /\ EndedStatus.type = "normal" <=> EndedStatus = Normal
         /\ EndedStatus.type = "throw" <=> throwing
         /\ EndedStatus.type = "fatal" <=> error
         /\ EndedStatus.type = "exit" <=> exiting
<1>1. /\ signal \in Signals /\ throwing \in BOOLEAN /\ exiting \in BOOLEAN
      /\ error \in BOOLEAN /\ OneReason
  BY DEF FInv, TypeOK, SignalsOK
<1>2. /\ exiting => ~error /\ ~throwing /\ signal = NoSignal
  BY DEF Leaving, Aimed
<1>3. signal.type \in {"none", "return"} \cup Relayed
      /\ signal = [type |-> signal.type, level |-> signal.level]
  BY <1>1 DEF Signals, NoSignal
<1>4. CASE error
  BY <1>1, <1>2, <1>4 DEF EndedStatus, Normal, OneReason, Relayed, NoSignal
<1>5. CASE ~error /\ exiting
  BY <1>1, <1>2, <1>5 DEF EndedStatus, Normal, Relayed, NoSignal
<1>6. CASE ~error /\ ~exiting /\ throwing
  BY <1>1, <1>6 DEF EndedStatus, Normal, OneReason, Relayed, NoSignal
<1>7. CASE ~error /\ ~exiting /\ ~throwing /\ signal.type # "none"
  <2>1. EndedStatus = signal
    BY <1>3, <1>7 DEF EndedStatus
  <2> QED
    BY <1>3, <1>7, <2>1 DEF Normal, Relayed
<1>8. CASE ~error /\ ~exiting /\ ~throwing /\ signal.type = "none"
  <2>1. EndedStatus = Normal
    BY <1>8 DEF EndedStatus
  <2> QED
    BY <1>8, <2>1 DEF Normal, Relayed
<1> QED
  BY <1>1, <1>4, <1>5, <1>6, <1>7, <1>8

\* Nothing that is seen of the innermost chunk changes.
LEMMA TopUnseen ==
  ASSUME FInv, NEW g, g = Language!top
  PROVE  Language!WithTop(g) = FramesSeen
<1>1. PICK fs : fs = FramesSeen
  OBVIOUS
<1>2. DOMAIN fs = 1 .. Len(stack) /\ Len(fs) = Len(stack) /\ Len(stack) \in Nat /\ Len(stack) >= 1
      /\ fs = [i \in DOMAIN fs |-> fs[i]]
  BY <1>1, FramesAre, TopFacts
<1>3. g = fs[Len(fs)]
  BY <1>1 DEF Language!top
<1>4. [fs EXCEPT ![Len(fs)] = g] = fs
  BY <1>2, <1>3
<1> QED
  BY <1>1, <1>4 DEF Language!WithTop

\* Loops are opened, closed and left; regions are not seen.
LEMMA InsideSeen ==
  ASSUME FInv, Levels,
         \/ OpenLoop \/ CloseLoop
         \/ \E kind \in Relayed, n \in 1 .. MaxLoops : Jump(kind, n) /\ n <= top.loops
  PROVE  Language!Loop
<1>0. /\ stack \in Seq(Frames) /\ Len(stack) \in Nat /\ Len(stack) >= 1 /\ top \in Frames
      /\ top = stack[Len(stack)] /\ top.loops \in Nat /\ top.outer \in Nat /\ MaxLoops \in Nat
      /\ top.outer + top.loops <= MaxLoops
  <2>1. /\ stack \in Seq(Frames) /\ Len(stack) \in Nat /\ Len(stack) >= 1
        /\ top \in Frames /\ top = stack[Len(stack)]
    BY TopFacts
  <2>2. top.loops \in Nat /\ top.outer \in Nat /\ MaxLoops \in Nat
    BY <2>1, FrameFields, BoundsAssumption
  <2>3. OpenLoops(top) <= MaxLoops
    BY <2>1 DEF Levels
  <2> QED
    BY <2>1, <2>2, <2>3 DEF OpenLoops
<1>1. mode = "run" /\ mode' = "run" /\ outcome' = outcome
  BY DEF OpenLoop, CloseLoop, Jump, Statement
<1>2. PICK l \in Nat : top.outer + l <= MaxLoops /\ stack' = WithTop(stack, [top EXCEPT !.loops = l])
  <2>1. CASE OpenLoop
    <3>1. PICK l \in Nat : l = top.loops + 1
      BY <1>0
    <3>2. top.outer + l <= MaxLoops /\ stack' = WithTop(stack, [top EXCEPT !.loops = l])
      BY <1>0, <2>1, <3>1 DEF OpenLoop, OpenLoops
    <3> QED
      BY <3>2
  <2>2. CASE CloseLoop
    <3>1. PICK l \in Nat : l = top.loops - 1
      BY <1>0, <2>2 DEF CloseLoop
    <3>2. top.outer + l <= MaxLoops /\ stack' = WithTop(stack, [top EXCEPT !.loops = l])
      BY <1>0, <2>2, <3>1 DEF CloseLoop
    <3> QED
      BY <3>2
  <2>3. CASE \E kind \in Relayed, n \in 1 .. MaxLoops : Jump(kind, n) /\ n <= top.loops
    <3>1. PICK kind \in Relayed, n \in 1 .. MaxLoops : Jump(kind, n) /\ n <= top.loops
      BY <2>3
    <3>2. PICK l : l = LoopsLeft(kind, n, top.loops)
      OBVIOUS
    <3>3. l \in Nat /\ l <= top.loops
      BY <1>0, <3>1, <3>2 DEF LoopsLeft
    <3>4. top.outer + l <= MaxLoops /\ stack' = WithTop(stack, [top EXCEPT !.loops = l])
      BY <1>0, <3>1, <3>2, <3>3 DEF Jump
    <3> QED
      BY <3>3, <3>4
  <2> QED
    BY <2>1, <2>2, <2>3
<1>3. PICK f : f = [top EXCEPT !.loops = l]
  OBVIOUS
<1>4. /\ f \in Frames /\ f.kind = top.kind /\ f.phase = top.phase /\ f.outer = top.outer
      /\ f.held = top.held /\ f.hasFinally = top.hasFinally /\ f.loops = l
  BY <1>0, <1>3 DEF Frames
<1>5. stack' = WithTop(stack, f)
  BY <1>2, <1>3
<1>6. /\ Len(stack') = Len(stack) /\ stack'[Len(stack)] = f
      /\ \A i \in 1 .. Len(stack) - 1 : stack'[i] = stack[i]
  BY <1>0, <1>4, <1>5, WithTopProperties
<1>7. FramesSeen' = Language!WithTop(Shown(f, FALSE))
  <2>1. FramesSeen' = Language!WithTop(Shown(top', mode' # "run")) /\ top' = f
    BY <1>6, SeenTop
  <2>2. (mode' # "run") = FALSE
    BY <1>1
  <2> QED
    BY <2>1, <2>2
<1>8. Language!top = Shown(top, FALSE)
  <2>1. (mode # "run") = FALSE
    BY <1>1
  <2> QED
    BY <2>1, FramesAre
<1>9. Shown(f, FALSE) = [Shown(top, FALSE) EXCEPT !.loops = l]
  <2>0. PICK v : v = Shown(top, FALSE)
    OBVIOUS
  <2>1. PICK p : p = FlowOf(top.held, top.outer)
    OBVIOUS
  <2>2. /\ Shown(top, FALSE) = Seen(top.kind, top.phase, top.hasFinally, top.outer, top.loops, p)
        /\ Shown(f, FALSE) = Seen(top.kind, top.phase, top.hasFinally, top.outer, l, p)
    BY <1>4, <2>1, ShownIs
  <2>3. v = Seen(top.kind, top.phase, top.hasFinally, top.outer, top.loops, p)
    BY <2>0, <2>2
  <2>4. SetLoops(Seen(top.kind, top.phase, top.hasFinally, top.outer, top.loops, p), l)
          = Seen(top.kind, top.phase, top.hasFinally, top.outer, l, p)
    BY SeenLoops
  <2> QED
    BY <2>0, <2>2, <2>3, <2>4 DEF SetLoops
<1>10. AbstractFlow = Language!Running /\ AbstractFlow' = Language!Running
  BY <1>1, FlowSeen, FlowNext
<1>11. l \in 0 .. MaxLoops - Language!top.outer
  <2>1. Language!top.outer = top.outer
    BY <1>8, ShownIs
  <2> QED
    BY <1>0, <1>2, <2>1
<1> QED
  BY <1>1, <1>7, <1>8, <1>9, <1>10, <1>11 DEF Language!Loop

LEMMA RegionsUnseen ==
  ASSUME FInv, Silence \/ Unsilence
  PROVE  FramesSeen' = FramesSeen /\ AbstractFlow' = AbstractFlow /\ outcome' = outcome
<1>0. /\ stack \in Seq(Frames) /\ Len(stack) \in Nat /\ Len(stack) >= 1 /\ top \in Frames
      /\ top = stack[Len(stack)] /\ top.at \in Nat
  BY TopFacts, FrameFields
<1>1. mode = "run" /\ mode' = "run" /\ outcome' = outcome
  BY DEF Silence, Unsilence, Expression
<1>2. PICK a \in Nat : stack' = WithTop(stack, [top EXCEPT !.at = a])
  <2>1. CASE Silence
    <3>1. PICK a \in Nat : a = top.at + 1
      BY <1>0
    <3> QED
      BY <2>1, <3>1 DEF Silence
  <2>2. CASE Unsilence
    <3>1. PICK a \in Nat : a = top.at - 1
      BY <1>0, <2>2 DEF Unsilence
    <3> QED
      BY <2>2, <3>1 DEF Unsilence
  <2> QED
    BY <2>1, <2>2
<1>3. PICK f : f = [top EXCEPT !.at = a]
  OBVIOUS
<1>4. /\ f \in Frames /\ f.kind = top.kind /\ f.phase = top.phase /\ f.outer = top.outer
      /\ f.held = top.held /\ f.hasFinally = top.hasFinally /\ f.loops = top.loops
  BY <1>0, <1>3 DEF Frames
<1>5. stack' = WithTop(stack, f)
  BY <1>2, <1>3
<1>6. /\ Len(stack') = Len(stack) /\ stack'[Len(stack)] = f
      /\ \A i \in 1 .. Len(stack) - 1 : stack'[i] = stack[i]
  BY <1>0, <1>4, <1>5, WithTopProperties
<1>7. FramesSeen' = Language!WithTop(Shown(f, FALSE))
  <2>1. FramesSeen' = Language!WithTop(Shown(top', mode' # "run")) /\ top' = f
    BY <1>6, SeenTop
  <2>2. (mode' # "run") = FALSE
    BY <1>1
  <2> QED
    BY <2>1, <2>2
<1>8. Language!top = Shown(f, FALSE)
  <2>1. (mode # "run") = FALSE
    BY <1>1
  <2>2. Shown(f, FALSE) = Shown(top, FALSE)
    BY <1>4 DEF Shown
  <2> QED
    BY <2>1, <2>2, FramesAre
<1>9. FramesSeen' = FramesSeen
  BY <1>7, <1>8, TopUnseen
<1>10. AbstractFlow = Language!Running /\ AbstractFlow' = Language!Running
  BY <1>1, FlowSeen, FlowNext
<1> QED
  BY <1>1, <1>9, <1>10

\* What the updates of a chunk look like: it goes on with other loops open,
\* it ends, it goes on in a catch clause, and in the finally.
LEMMA ShownRuns ==
  ASSUME NEW f, NEW g, NEW l, g.kind = f.kind, g.phase = f.phase,
         g.hasFinally = f.hasFinally, g.outer = f.outer, g.held = f.held, g.loops = l
  PROVE  Shown(g, FALSE) = SetLoops(Shown(f, FALSE), l)
<1>1. PICK p : p = FlowOf(f.held, f.outer)
  OBVIOUS
<1>2. /\ Shown(f, FALSE) = Seen(f.kind, f.phase, f.hasFinally, f.outer, f.loops, p)
      /\ Shown(g, FALSE) = Seen(f.kind, f.phase, f.hasFinally, f.outer, l, p)
  BY <1>1, ShownIs
<1>3. SetLoops(Seen(f.kind, f.phase, f.hasFinally, f.outer, f.loops, p), l)
        = Seen(f.kind, f.phase, f.hasFinally, f.outer, l, p)
  BY SeenLoops
<1> QED
  BY <1>2, <1>3

LEMMA ShownEnds ==
  ASSUME NEW f, NEW g, g.kind = f.kind, g.phase = f.phase,
         g.hasFinally = f.hasFinally, g.outer = f.outer, g.loops = 0
  PROVE  Shown(g, TRUE) = [Shown(f, FALSE) EXCEPT !.loops = 0, !.pending = Language!Normal]
<1>1. PICK p : p = FlowOf(f.held, f.outer)
  OBVIOUS
<1>2. /\ Shown(f, FALSE) = Seen(f.kind, f.phase, f.hasFinally, f.outer, f.loops, p)
      /\ Shown(g, TRUE) = Seen(f.kind, f.phase, f.hasFinally, f.outer, 0, Language!Normal)
  BY <1>1, ShownIs DEF Language!Normal
<1>3. SetEnded(Seen(f.kind, f.phase, f.hasFinally, f.outer, f.loops, p), 0, Language!Normal)
        = Seen(f.kind, f.phase, f.hasFinally, f.outer, 0, Language!Normal)
  BY SeenEnded
<1> QED
  BY <1>2, <1>3 DEF SetEnded

LEMMA ShownCatches ==
  ASSUME NEW f, NEW g, g.kind = f.kind, g.phase = "catch",
         g.hasFinally = f.hasFinally, g.outer = f.outer, g.loops = f.loops, g.held = Normal
  PROVE  Shown(g, FALSE) = [Shown(f, TRUE) EXCEPT !.phase = "catch"]
<1>1. PICK p : p = [type |-> "normal", aim |-> 0]
  OBVIOUS
<1>2. /\ Shown(f, TRUE) = Seen(f.kind, f.phase, f.hasFinally, f.outer, f.loops, p)
      /\ Shown(g, FALSE) = Seen(f.kind, "catch", f.hasFinally, f.outer, f.loops, p)
  BY <1>1, ShownIs, FlowIs
<1>3. SetCatch(Seen(f.kind, f.phase, f.hasFinally, f.outer, f.loops, p), "catch")
        = Seen(f.kind, "catch", f.hasFinally, f.outer, f.loops, p)
  BY SeenCatch
<1> QED
  BY <1>2, <1>3 DEF SetCatch

LEMMA ShownHolds ==
  ASSUME NEW f, NEW g, NEW p, g.kind = f.kind, g.phase = "finally",
         g.hasFinally = f.hasFinally, g.outer = f.outer, g.loops = f.loops, g.held = f.held,
         p = FlowOf(f.held, f.outer)
  PROVE  Shown(g, FALSE) = SetFinally(Shown(f, TRUE), "finally", p)
<1>1. PICK q : q = [type |-> "normal", aim |-> 0]
  OBVIOUS
<1>2. /\ Shown(f, TRUE) = Seen(f.kind, f.phase, f.hasFinally, f.outer, f.loops, q)
      /\ Shown(g, FALSE) = Seen(f.kind, "finally", f.hasFinally, f.outer, f.loops, p)
  BY <1>1, ShownIs
<1>3. SetFinally(Seen(f.kind, f.phase, f.hasFinally, f.outer, f.loops, q), "finally", p)
        = Seen(f.kind, "finally", f.hasFinally, f.outer, f.loops, p)
  BY SeenFinally
<1> QED
  BY <1>2, <1>3

\* A chunk that a signal, or its last statement, ends.
LEMMA HaltSeen ==
  ASSUME FInv, mode = "run", mode' = "ended", stack' = Abandon(stack)
  PROVE  /\ top'.outer = top.outer /\ top'.phase = top.phase /\ top'.held = top.held
         /\ top'.kind = top.kind
         /\ FramesSeen' = Language!WithTop([Language!top EXCEPT !.loops = 0,
                                                                !.pending = Language!Normal])
<1>1. PICK n \in Nat : n = Len(stack) /\ n >= 1
  BY TopFacts
<1>2. PICK f : f = stack'[n]
  OBVIOUS
<1>3. /\ Len(stack') = n /\ \A i \in 1 .. n - 1 : stack'[i] = stack[i]
      /\ f.loops = 0 /\ f.kind = top.kind /\ f.phase = top.phase /\ f.outer = top.outer
      /\ f.held = top.held /\ f.hasFinally = top.hasFinally
  BY <1>1, <1>2, TopFacts, Abandoned
<1>4. top' = f /\ FramesSeen' = Language!WithTop(Shown(f, TRUE))
  <2>1. top' = f /\ FramesSeen' = Language!WithTop(Shown(top', mode' # "run"))
    BY <1>1, <1>2, <1>3, SeenTop
  <2>2. (mode' # "run") = TRUE
    OBVIOUS
  <2> QED
    BY <2>1, <2>2
<1>5. Language!top = Shown(top, FALSE)
  <2>1. (mode # "run") = FALSE
    OBVIOUS
  <2> QED
    BY <2>1, FramesAre
<1>6. Shown(f, TRUE) = [Shown(top, FALSE) EXCEPT !.loops = 0, !.pending = Language!Normal]
  BY <1>3, ShownEnds
<1> QED
  BY <1>3, <1>4, <1>5, <1>6

\* What ended it is the completion the language sees.
LEMMA HaltFlow ==
  ASSUME FInv, Levels, mode = "run", mode' = "ended", stack' = Abandon(stack),
         NEW status, EndedStatus' = status
  PROVE  /\ status # Normal => AbstractFlow' = FlowOf(status, top.outer)
         /\ status = Normal => AbstractFlow' = FlowOf(top.held, top.outer)
<1>1. /\ top'.outer = top.outer /\ top'.phase = top.phase /\ top'.held = top.held
  BY HaltSeen
<1>2. AbstractFlow' = FlowOf(Carried', top'.outer)
  BY FlowNext
<1>3. Carried' = IF top.phase = "finally" /\ status = Normal THEN top.held ELSE status
  BY <1>1 DEF Carried
<1>4. top.phase # "finally" => top.held = Normal
  BY TopFacts DEF Levels
<1> QED
  BY <1>1, <1>2, <1>3, <1>4

LEMMA EndsSeen ==
  ASSUME FInv, Leaving, Levels, ~BreakFromLoop,
         \/ \E kind \in Relayed, n \in 1 .. MaxLoops : Jump(kind, n) /\ ~ n <= top.loops
         \/ Return \/ Throw \/ Exit \/ Fatal \/ FallOff
  PROVE  Language!Complete
<1>0. /\ top \in Frames /\ top.loops \in Nat /\ top.outer \in Nat /\ MaxLoops \in Nat
  BY TopFacts, FrameFields, BoundsAssumption
<1>1. mode = "run" /\ mode' = "ended" /\ outcome' = outcome /\ stack' = Abandon(stack)
  BY DEF Jump, Return, Throw, Exit, Fatal, FallOff, Statement, Expression, HaltWith
<1>2. ~exiting /\ signal = NoSignal /\ ~throwing /\ ~error
  BY <1>1 DEF Leaving, FInv, SignalsOK, Clean
<1>3. PICK status : status = EndedStatus'
  OBVIOUS
<1>4. /\ status # Normal => AbstractFlow' = FlowOf(status, top.outer)
      /\ status = Normal => AbstractFlow' = FlowOf(top.held, top.outer)
  BY <1>1, <1>3, HaltFlow
<1>5. /\ Language!top.outer = top.outer
      /\ Language!top.pending = FlowOf(top.held, top.outer)
  <2>1. (mode # "run") = FALSE
    BY <1>1
  <2> QED
    BY <2>1, FramesAre, ShownIs
<1>6. ASSUME NEW type \in {"return", "throw", "exit", "fatal"}, status = [type |-> type, level |-> 0]
      PROVE  AbstractFlow' = [type |-> type, aim |-> 0]
  <2>1. status # Normal /\ status.type = type /\ type \notin Relayed
    BY <1>6 DEF Normal, Relayed
  <2> QED
    BY <1>4, <2>1, FlowIs
<1>7. \/ \E type \in Language!Plain :
            AbstractFlow' = IF type = "normal" THEN Language!top.pending
                            ELSE [type |-> type, aim |-> 0]
      \/ \E type \in Language!Relayed : \E aim \in Language!Aims(type, Language!top.outer) :
            AbstractFlow' = [type |-> type, aim |-> aim]
  <2>1. CASE \E kind \in Relayed, n \in 1 .. MaxLoops : Jump(kind, n) /\ ~ n <= top.loops
    <3>1. PICK kind \in Relayed, n \in 1 .. MaxLoops : Jump(kind, n) /\ ~ n <= top.loops
      BY <2>1
    <3>2. PICK level : level = n
      OBVIOUS
    <3>3. /\ signal' = [type |-> kind, level |-> level]
          /\ throwing' = throwing /\ exiting' = exiting /\ error' = error
          /\ n \in 1 .. OpenLoops(top) /\ top.loops = 0
      BY <3>1, <3>2 DEF Jump, HaltWith
    <3>4. status = [type |-> kind, level |-> level]
      BY <1>2, <1>3, <3>3 DEF EndedStatus, Relayed
    <3>5. level \in 1 .. top.outer
      BY <1>0, <3>1, <3>2, <3>3 DEF OpenLoops
    <3>6. PICK aim : aim = Aim(kind, top.outer, level)
      OBVIOUS
    <3>7. AbstractFlow' = [type |-> kind, aim |-> aim]
      <4>1. status # Normal /\ status.type = kind /\ status.level = level
        BY <3>4 DEF Normal, Relayed
      <4> QED
        BY <1>4, <3>6, <4>1, FlowIs
    <3>8. aim \in Language!Aims(kind, top.outer)
      BY <1>0, <3>5, <3>6 DEF Aim, Language!Aims, Relayed
    <3> QED
      BY <1>5, <3>7, <3>8 DEF Relayed, Language!Relayed
  <2>2. CASE Return
    <3>1. signal' = [type |-> "return", level |-> 0] /\ throwing' = throwing
          /\ exiting' = exiting /\ error' = error
      BY <2>2 DEF Return, HaltWith
    <3>2. status = [type |-> "return", level |-> 0]
      BY <1>2, <1>3, <3>1 DEF EndedStatus
    <3> QED
      BY <1>6, <3>2 DEF Language!Plain
  <2>3. CASE Throw
    <3>1. throwing' = TRUE /\ exiting' = exiting /\ error' = error
      BY <2>3 DEF Throw
    <3>2. status = [type |-> "throw", level |-> 0]
      BY <1>2, <1>3, <3>1 DEF EndedStatus, Normal
    <3> QED
      BY <1>6, <3>2 DEF Language!Plain
  <2>4. CASE Exit
    <3>1. exiting' = TRUE /\ error' = error
      BY <2>4 DEF Exit
    <3>2. status = [type |-> "exit", level |-> 0]
      BY <1>2, <1>3, <3>1 DEF EndedStatus, Normal
    <3> QED
      BY <1>6, <3>2 DEF Language!Plain
  <2>5. CASE Fatal
    <3>1. error' = TRUE
      BY <2>5 DEF Fatal
    <3>2. status = [type |-> "fatal", level |-> 0]
      BY <1>2, <1>3, <3>1 DEF EndedStatus, Normal
    <3> QED
      BY <1>6, <3>2 DEF Language!Plain
  <2>6. CASE FallOff
    <3>1. signal' = signal /\ throwing' = throwing /\ exiting' = exiting /\ error' = error
      BY <2>6 DEF FallOff, HaltWith
    <3>2. status = Normal
      BY <1>2, <1>3, <3>1 DEF EndedStatus, NoSignal
    <3>3. AbstractFlow' = Language!top.pending
      BY <1>4, <1>5, <3>2
    <3> QED
      BY <3>3 DEF Language!Plain
  <2> QED
    BY <2>1, <2>2, <2>3, <2>4, <2>5, <2>6
<1>8. AbstractFlow = Language!Running
  BY <1>1, FlowSeen
<1>9. FramesSeen' = Language!WithTop([Language!top EXCEPT !.loops = 0,
                                                          !.pending = Language!Normal])
  BY <1>1, HaltSeen
<1> QED
  BY <1>1, <1>7, <1>8, <1>9 DEF Language!Complete

\* A call or a try starts a body.
LEMMA StartsSeen ==
  ASSUME FInv, Call \/ \E hasFinally \in BOOLEAN : EnterTry(hasFinally)
  PROVE  Language!Enter
<1>0. /\ Len(stack) \in Nat /\ top \in Frames /\ OpenLoops(top) \in Nat /\ Regions(top) \in Nat
      /\ suppress \in Nat
  BY TopFacts, FrameFields DEF OpenLoops, Regions, FInv, TypeOK
<1>1. mode = "run" /\ mode' = "run" /\ Len(stack) < MaxFrames /\ outcome' = outcome
  BY DEF Call, EnterTry, Statement, Expression
<1>2. AbstractFlow = Language!Running /\ AbstractFlow' = Language!Running
  BY <1>1, FlowSeen, FlowNext
<1>3. Len(FramesSeen) < MaxFrames
  BY <1>1, FramesAre
<1>4. ASSUME NEW kind \in {"fn", "try"}, NEW hasFinally \in BOOLEAN, NEW outer \in Nat,
             NEW depth \in Nat,
             stack' = Append(stack, Body(kind, hasFinally, outer, Regions(top), depth))
      PROVE  FramesSeen' = Append(FramesSeen, Language!New(kind, hasFinally, outer))
  <2>1. PICK f : f = Body(kind, hasFinally, outer, Regions(top), depth)
    OBVIOUS
  <2>2. /\ f \in Frames /\ f.kind = kind /\ f.phase = "body" /\ f.hasFinally = hasFinally
        /\ f.outer = outer /\ f.loops = 0 /\ f.held = Normal
    BY <1>0, <2>1 DEF Body, Frames, Statuses, Normal
  <2>3. FramesSeen' = Append(FramesSeen, Shown(f, FALSE))
    BY <1>1, <1>4, <2>1, <2>2, SeenPush
  <2>4. FlowOf(f.held, f.outer) = Language!Normal
    BY <2>2, FlowIs DEF Language!Normal
  <2>5. Shown(f, FALSE) = Language!New(kind, hasFinally, outer)
    BY <2>2, <2>4 DEF Shown, Language!New
  <2> QED
    BY <2>3, <2>5
<1>5. CASE Call
  <2>1. FramesSeen' = Append(FramesSeen, Language!New("fn", FALSE, 0))
    BY <1>4, <1>5 DEF Call
  <2> QED
    BY <1>1, <1>2, <1>3, <2>1 DEF Language!Enter
<1>6. ASSUME NEW hasFinally \in BOOLEAN, EnterTry(hasFinally)
      PROVE  Language!Enter
  <2>1. FramesSeen' = Append(FramesSeen, Language!New("try", hasFinally, OpenLoops(top)))
    BY <1>0, <1>4, <1>6 DEF EnterTry
  <2>2. OpenLoops(top) = Language!top.outer + Language!top.loops
    <3>1. (mode # "run") = FALSE
      BY <1>1
    <3> QED
      BY <3>1, FramesAre, ShownIs DEF OpenLoops
  <2> QED
    BY <1>1, <1>2, <1>3, <2>1, <2>2 DEF Language!Enter
<1> QED
  BY <1>5, <1>6

\* Reading a body's status back is not seen.
LEMMA ReturnsSeen ==
  ASSUME FInv, Leaving, Levels, Aimed, TryBodyReturns \/ CatchReturns \/ FinallyReturns
  PROVE  FramesSeen' = FramesSeen /\ AbstractFlow' = AbstractFlow /\ outcome' = outcome
<1>0. /\ mode = "ended" /\ mode' = "orchestrate" /\ outcome' = outcome
  BY DEF TryBodyReturns, CatchReturns, FinallyReturns, BodyReturns
<1>1. PICK n \in Nat : n = Len(stack) /\ n >= 1
  BY TopFacts
<1>2. EndedStatus \in Statuses
  BY <1>0, TakeSignalClean DEF TryBodyReturns, CatchReturns, FinallyReturns, BodyReturns
<1>3. PICK f : f = IF top.phase = "finally" /\ EndedStatus = Normal THEN top
                   ELSE [top EXCEPT !.held = EndedStatus]
  OBVIOUS
<1>4. /\ f \in Frames /\ f.kind = top.kind /\ f.phase = top.phase /\ f.outer = top.outer
      /\ f.loops = top.loops /\ f.hasFinally = top.hasFinally /\ f.held = Carried
  BY <1>2, <1>3, TopFacts DEF Frames, Carried
<1>5. stack' = WithTop(stack, f)
  <2>1. CASE TryBodyReturns \/ CatchReturns
    BY <1>3, <2>1 DEF TryBodyReturns, CatchReturns, BodyReturns
  <2>2. CASE FinallyReturns
    <3>1. top.phase = "finally"
      BY <2>2 DEF FinallyReturns, BodyReturns
    <3>2. CASE EndedStatus = Normal
      <4>1. stack' = stack /\ f = top
        BY <1>3, <2>2, <3>1, <3>2 DEF FinallyReturns
      <4>2. WithTop(stack, top) = stack
        BY TopFacts, LenProperties DEF WithTop
      <4> QED
        BY <4>1, <4>2
    <3>3. CASE EndedStatus # Normal
      BY <1>3, <2>2, <3>3 DEF FinallyReturns
    <3> QED
      BY <3>2, <3>3
  <2> QED
    BY <2>1, <2>2
<1>6. /\ Len(stack') = n /\ stack'[n] = f /\ \A i \in 1 .. n - 1 : stack'[i] = stack[i]
  BY <1>1, <1>4, <1>5, TopFacts, WithTopProperties
<1>7. top' = f /\ FramesSeen' = Language!WithTop(Shown(f, TRUE))
  <2>1. top' = stack'[n] /\ FramesSeen' = Language!WithTop(Shown(top', mode' # "run"))
    BY <1>1, <1>6, SeenTop
  <2>2. (mode' # "run") = TRUE
    BY <1>0
  <2> QED
    BY <1>6, <2>1, <2>2
<1>8. Language!top = Shown(f, TRUE)
  <2>1. (mode # "run") = TRUE
    BY <1>0
  <2>2. Shown(f, TRUE) = Shown(top, TRUE)
    BY <1>4 DEF Shown
  <2> QED
    BY <2>1, <2>2, FramesAre
<1>9. FramesSeen' = FramesSeen
  BY <1>7, <1>8, TopUnseen
<1>10. AbstractFlow' = FlowOf(f.held, f.outer)
  BY <1>0, <1>7, FlowNext
<1>11. AbstractFlow = FlowOf(Carried, top.outer)
  BY <1>0, FlowSeen
<1> QED
  BY <1>0, <1>4, <1>9, <1>10, <1>11

\* A catch claims the throw, or the finally holds the completion back.
LEMMA ClauseSeen ==
  ASSUME FInv, Leaving, Levels, Aimed, RunCatch \/ RunFinally
  PROVE  Language!Catch \/ Language!Finally
<1>0. /\ mode = "orchestrate" /\ mode' = "run" /\ outcome' = outcome
  BY DEF RunCatch, RunFinally, Orchestrating
<1>1. PICK n \in Nat : n = Len(stack) /\ n >= 1
  BY TopFacts
<1>2. top.kind = "try" /\ top.held \in Statuses
  BY <1>0, Orderly, TopFacts, FrameFields
<1>3. AbstractFlow = FlowOf(top.held, top.outer) /\ AbstractFlow' = Language!Running
  BY <1>0, FlowSeen, FlowNext
<1>4. AbstractFlow.type = top.held.type /\ AbstractFlow # Language!Running
  <2>1. top.held.type # "running"
    BY <1>2 DEF Statuses, Relayed
  <2> QED
    BY <1>3, <2>1, FlowIs
<1>5. Language!top = Shown(top, TRUE)
  <2>1. (mode # "run") = TRUE
    BY <1>0
  <2> QED
    BY <2>1, FramesAre
<1>6. /\ Language!top.kind = "try" /\ Language!top.phase = top.phase
      /\ Language!top.hasFinally = top.hasFinally
  BY <1>2, <1>5, ShownIs
<1>7. ASSUME NEW f \in Frames, stack' = WithTop(stack, f)
      PROVE  FramesSeen' = Language!WithTop(Shown(f, FALSE))
  <2>1. /\ Len(stack') = n /\ stack'[n] = f /\ \A i \in 1 .. n - 1 : stack'[i] = stack[i]
    BY <1>1, <1>7, TopFacts, WithTopProperties
  <2>2. top' = f /\ FramesSeen' = Language!WithTop(Shown(top', mode' # "run"))
    BY <1>1, <2>1, SeenTop
  <2>3. (mode' # "run") = FALSE
    BY <1>0
  <2> QED
    BY <2>2, <2>3
<1>8. CASE RunCatch
  <2>1. top.phase = "body" /\ top.held.type = "throw"
        /\ stack' = WithTop(stack, [top EXCEPT !.phase = "catch", !.held = Normal])
    BY <1>8 DEF RunCatch
  <2>2. PICK f : f = [top EXCEPT !.phase = "catch", !.held = Normal]
    OBVIOUS
  <2>3. /\ f \in Frames /\ f.kind = top.kind /\ f.phase = "catch" /\ f.outer = top.outer
        /\ f.loops = top.loops /\ f.hasFinally = top.hasFinally /\ f.held = Normal
    BY <2>2, TopFacts DEF Frames, Statuses, Normal
  <2>4. FramesSeen' = Language!WithTop(Shown(f, FALSE))
    BY <1>7, <2>1, <2>2, <2>3
  <2>5. Shown(f, FALSE) = [Shown(top, TRUE) EXCEPT !.phase = "catch"]
    BY <2>3, ShownCatches
  <2> QED
    BY <1>0, <1>3, <1>4, <1>5, <1>6, <2>1, <2>4, <2>5 DEF Language!Catch
<1>9. CASE RunFinally
  <2>1. /\ top.phase # "finally" /\ top.hasFinally /\ top.held.type # "exit"
        /\ stack' = WithTop(stack, [top EXCEPT !.phase = "finally"])
    BY <1>9, ExitNotHeld DEF RunFinally
  <2>2. PICK f : f = [top EXCEPT !.phase = "finally"]
    OBVIOUS
  <2>3. /\ f \in Frames /\ f.kind = top.kind /\ f.phase = "finally" /\ f.outer = top.outer
        /\ f.loops = top.loops /\ f.hasFinally = top.hasFinally /\ f.held = top.held
    BY <2>2, TopFacts DEF Frames
  <2>4. FramesSeen' = Language!WithTop(Shown(f, FALSE))
    BY <1>7, <2>1, <2>2, <2>3
  <2>5. PICK p : p = AbstractFlow
    OBVIOUS
  <2>6. SetFinally(Shown(top, TRUE), "finally", p)
          = [Shown(top, TRUE) EXCEPT !.phase = "finally", !.pending = p]
    BY DEF SetFinally
  <2>7. Shown(f, FALSE) = SetFinally(Shown(top, TRUE), "finally", p)
    BY <1>3, <2>3, <2>5, ShownHolds
  <2> QED
    BY <1>0, <1>3, <1>4, <1>5, <1>6, <2>1, <2>4, <2>5, <2>6, <2>7 DEF Language!Finally
<1> QED
  BY <1>8, <1>9

\* run_main reads what ended the program.
LEMMA MainSeen ==
  ASSUME FInv, Leaving, Levels, Aimed, MainReturns
  PROVE  Language!End
<1>0. /\ mode = "ended" /\ mode' = "done" /\ top.kind = "main" /\ stack' = stack
  BY DEF MainReturns
<1>1. top.outer = 0 /\ top.phase = "body"
  BY <1>0, TopFacts DEF StackOK, Levels
<1>2. signal.type \notin Relayed
  BY <1>1 DEF Aimed
<1>3. EndedStatus.type \in {"normal", "return", "throw", "exit", "fatal"}
  BY <1>0, <1>2, StatusIs
<1>4. AbstractFlow = FlowOf(EndedStatus, top.outer) /\ AbstractFlow' = Language!Over
  BY <1>0, <1>1, FlowSeen, FlowNext DEF Carried
<1>5. AbstractFlow.type = EndedStatus.type
  BY <1>4, FlowIs
<1>6. outcome' = CASE EndedStatus.type = "throw" -> "uncaught"
                   [] EndedStatus.type \in {"fatal", "exit"} -> EndedStatus.type
                   [] OTHER -> "normal"
  <2>1. PICK t : t = EndedStatus.type
    OBVIOUS
  <2>2. (t = "throw" <=> throwing) /\ (t = "fatal" <=> error) /\ (t = "exit" <=> exiting)
    BY <1>0, <2>1, StatusIs
  <2>3. outcome' = CASE throwing -> "uncaught"
                     [] ~throwing /\ error -> "fatal"
                     [] ~throwing /\ ~error /\ exiting -> "exit"
                     [] OTHER -> "normal"
    BY DEF MainReturns
  <2>4. CASE t = "throw"
    BY <2>1, <2>2, <2>3, <2>4
  <2>5. CASE t = "fatal"
    BY <2>1, <2>2, <2>3, <2>5
  <2>6. CASE t = "exit"
    BY <2>1, <2>2, <2>3, <2>6
  <2>7. CASE t \notin {"throw", "fatal", "exit"}
    BY <2>1, <2>2, <2>3, <2>7
  <2> QED
    BY <2>4, <2>5, <2>6, <2>7
<1>7. Language!top.kind = "main"
  <2>1. (mode # "run") = TRUE
    BY <1>0
  <2> QED
    BY <1>0, <2>1, FramesAre, ShownIs
<1>8. FramesSeen' = FramesSeen
  BY <1>0 DEF FramesSeen, AbstractFrame
<1> QED
  BY <1>3, <1>4, <1>5, <1>6, <1>7, <1>8 DEF Language!End, Language!Plain

\* The update of a field of the innermost of the bodies below.
BelowRuns(b, n, l) == [b EXCEPT ![n].loops = l]
BelowEnds(b, n) == [b EXCEPT ![n].loops = 0, ![n].pending = Language!Normal]

LEMMA BelowIs ==
  ASSUME NEW b, NEW n, n \in DOMAIN b, NEW l
  PROVE  /\ BelowRuns(b, n, l) = BelowSet(b, n, SetLoops(b[n], l))
         /\ BelowEnds(b, n) = BelowSet(b, n, SetEnded(b[n], 0, Language!Normal))
BY DEF BelowSet, BelowRuns, BelowEnds, SetLoops, SetEnded

\* The body a try or a call stands in goes on, or halts as well.
LEMMA PopSeen ==
  ASSUME FInv, Levels, top.kind # "main", NEW n, n = Len(stack) - 1,
         \/ stack' = Pop(stack)
         \/ stack' = Abandon(Pop(stack))
         \/ \E l \in 0 .. stack[n].loops :
              stack' = WithTop(Pop(stack), [Pop(stack)[n] EXCEPT !.loops = l]),
         mode' # "orchestrate", exiting' = exiting, lastBreakLevel' = lastBreakLevel
  PROVE  /\ Len(Language!Below) = n
         /\ Language!Below[Len(Language!Below)].outer = stack[n].outer
         /\ top'.outer = stack[n].outer /\ top'.phase = stack[n].phase
         /\ top'.phase # "finally" => top'.held = Normal
         /\ mode' = "run" => FramesSeen' = BelowRuns(Language!Below, n, top'.loops)
         /\ mode' # "run" /\ top'.loops = 0 => FramesSeen' = BelowEnds(Language!Below, n)
         /\ mode' = "run" /\ top'.loops = stack[n].loops => FramesSeen' = Language!Below
<1>1. /\ n \in 1 .. Len(stack) /\ n \in Nat /\ n # Len(stack) /\ Len(stack) = n + 1
      /\ stack[n].phase # "finally" => stack[n].held = Normal
  BY Parent
<1>2. /\ Len(stack') = n /\ top' = stack'[n]
      /\ \A i \in 1 .. n - 1 : stack'[i] = stack[i]
      /\ top'.kind = stack[n].kind /\ top'.phase = stack[n].phase
      /\ top'.outer = stack[n].outer /\ top'.held = stack[n].held
      /\ top'.hasFinally = stack[n].hasFinally
  BY LevelsPop
<1>3. PICK p : p = stack[n]
  OBVIOUS
<1>4. PICK q : q = top'
  OBVIOUS
<1>5. PICK b : b = Language!Below
  OBVIOUS
<1>6. n >= 1
  <2>1. PICK m \in Nat : m = Len(stack)
    BY TopFacts
  <2>2. n \in 1 .. m
    BY <1>1, <2>1
  <2> QED
    BY <2>2
<1>7. /\ Len(b) = n /\ b = [i \in 1 .. n |-> b[i]] /\ b[n] = Shown(p, FALSE)
      /\ FramesSeen' = BelowSet(b, n, Shown(q, mode' # "run"))
  BY <1>1, <1>2, <1>3, <1>4, <1>5, <1>6, SeenPop
<1>7a. n \in DOMAIN b
  <2>1. DOMAIN b = 1 .. n
    BY <1>7
  <2>2. PICK m \in Nat : m = n /\ m >= 1
    BY <1>1, <1>6
  <2>3. m \in 1 .. m
    BY <2>2
  <2> QED
    BY <2>1, <2>2, <2>3
<1>8. /\ q.kind = p.kind /\ q.phase = p.phase /\ q.outer = p.outer /\ q.held = p.held
      /\ q.hasFinally = p.hasFinally
  BY <1>2, <1>3, <1>4
<1>9. mode' = "run" => FramesSeen' = BelowRuns(b, n, q.loops)
  <2> SUFFICES ASSUME mode' = "run" PROVE FramesSeen' = BelowRuns(b, n, q.loops)
    OBVIOUS
  <2>1. (mode' # "run") = FALSE
    OBVIOUS
  <2>2. FramesSeen' = BelowSet(b, n, Shown(q, FALSE))
    BY <1>7, <2>1
  <2>0. PICK l : l = q.loops
    OBVIOUS
  <2>3. Shown(q, FALSE) = SetLoops(Shown(p, FALSE), l)
    BY <1>8, <2>0, ShownRuns
  <2>4. BelowRuns(b, n, l) = BelowSet(b, n, SetLoops(b[n], l))
    BY <1>7a, BelowIs
  <2> QED
    BY <1>7, <2>0, <2>2, <2>3, <2>4
<1>10. mode' # "run" /\ q.loops = 0 => FramesSeen' = BelowEnds(b, n)
  <2> SUFFICES ASSUME mode' # "run", q.loops = 0 PROVE FramesSeen' = BelowEnds(b, n)
    OBVIOUS
  <2>1. (mode' # "run") = TRUE
    OBVIOUS
  <2>2. FramesSeen' = BelowSet(b, n, Shown(q, TRUE))
    BY <1>7, <2>1
  <2>3. Shown(q, TRUE) = SetEnded(Shown(p, FALSE), 0, Language!Normal)
    BY <1>8, ShownEnds DEF SetEnded
  <2>4. BelowEnds(b, n) = BelowSet(b, n, SetEnded(b[n], 0, Language!Normal))
    BY <1>7a, BelowIs
  <2> QED
    BY <1>7, <2>2, <2>3, <2>4
<1>11. mode' = "run" /\ q.loops = p.loops => FramesSeen' = b
  <2> SUFFICES ASSUME mode' = "run", q.loops = p.loops PROVE FramesSeen' = b
    OBVIOUS
  <2>1. (mode' # "run") = FALSE
    OBVIOUS
  <2>2. FramesSeen' = BelowSet(b, n, Shown(q, FALSE))
    BY <1>7, <2>1
  <2>3. Shown(q, FALSE) = Shown(p, FALSE)
    BY <1>8 DEF Shown
  <2>4. BelowSet(b, n, b[n]) = b
    BY <1>1, <1>7 DEF BelowSet
  <2> QED
    BY <1>7, <2>2, <2>3, <2>4
<1>12. b[Len(b)].outer = p.outer
  <2>1. b[Len(b)] = Shown(p, FALSE)
    BY <1>7
  <2>2. Shown(p, FALSE).outer = p.outer
    BY ShownIs
  <2> QED
    BY <2>1, <2>2
<1> QED
  BY <1>1, <1>2, <1>3, <1>4, <1>5, <1>7, <1>9, <1>10, <1>11, <1>12

\* A try ends: the completion goes on outwards, or the chunk below goes on.
\* The level dispatched on and the aim of the language name the same loop.
LEMMA LeaveSeen ==
  ASSUME FInv, Leaving, Levels, Aimed, FinishNormal \/ FinishHalting \/ FinishRelaying
  PROVE  Language!Leave
<1>0. /\ mode = "orchestrate" /\ mode' # "orchestrate" /\ exiting' = exiting
      /\ lastBreakLevel' = lastBreakLevel /\ outcome' = outcome /\ Finishing
  BY DEF FinishNormal, FinishHalting, FinishRelaying, Finishing, Orchestrating, host
<1>1. /\ top.kind = "try" /\ signal = NoSignal /\ ~throwing /\ ~error
      /\ exiting => top.held.type = "exit"
  BY <1>0, Orderly
<1>2. PICK n : n = Len(stack) - 1
  OBVIOUS
<1>3. PICK p : p = stack[n]
  OBVIOUS
<1>4. /\ n \in Nat /\ top.outer = p.outer + p.loops /\ top.outer <= MaxLoops
      /\ p.outer \in Nat /\ p.loops \in Nat /\ Pop(stack)[Len(Pop(stack))] = p
      /\ Pop(stack)[n] = p /\ Len(Pop(stack)) = n
  <2>1. /\ n \in Nat /\ n \in 1 .. Len(stack) /\ Len(stack) = n + 1 /\ Len(Pop(stack)) = n
        /\ \A i \in 1 .. n : Pop(stack)[i] = stack[i]
        /\ top.outer = OpenLoops(p) /\ OpenLoops(p) <= MaxLoops
        /\ p.outer \in Nat /\ p.loops \in Nat
    BY <1>1, <1>2, <1>3, Parent
  <2>2. PICK m \in Nat : m = n
    BY <2>1
  <2>3. m \in 1 .. m
    BY <2>1, <2>2
  <2> QED
    BY <1>3, <2>1, <2>2, <2>3 DEF OpenLoops
<1>5. PICK held : held = top.held
  OBVIOUS
<1>6. /\ held \in Statuses
      /\ held.type = "exit" => exiting
      /\ held.type \in Relayed => held.level \in 1 .. top.outer /\ held.level = lastBreakLevel
  BY <1>5, TopFacts, FrameFields DEF Levels
<1>7. held.type \in {"normal", "return", "throw", "exit", "fatal"} \cup Relayed
  BY <1>6 DEF Statuses
<1>8. PICK flow : flow = AbstractFlow
  OBVIOUS
<1>9. /\ flow = FlowOf(held, top.outer) /\ flow.type = held.type
      /\ flow # Language!Running
  <2>1. flow = FlowOf(held, top.outer)
    BY <1>0, <1>5, <1>8, FlowSeen
  <2>2. held.type # "running"
    BY <1>7 DEF Relayed
  <2> QED
    BY <2>1, <2>2, FlowIs
<1>10. /\ Language!top.kind = "try"
       /\ Language!top.hasFinally => Language!top.phase = "finally" \/ flow.type = "exit"
  <2>1. (mode # "run") = TRUE
    BY <1>0
  <2>2. /\ Language!top.kind = "try" /\ Language!top.hasFinally = top.hasFinally
        /\ Language!top.phase = top.phase
    BY <1>1, <2>1, FramesAre, ShownIs
  <2> QED
    BY <1>0, <1>5, <1>9, <2>2 DEF Finishing, SkipsFinally
<1>11. PICK b : b = Language!Below
  OBVIOUS
<1>12. ASSUME \/ stack' = Pop(stack)
              \/ stack' = Abandon(Pop(stack))
              \/ \E l \in 0 .. p.loops :
                   stack' = WithTop(Pop(stack), [Pop(stack)[n] EXCEPT !.loops = l])
       PROVE  /\ Len(b) = n /\ b[Len(b)].outer = p.outer
              /\ top'.outer = p.outer /\ top'.phase = p.phase
              /\ top'.phase # "finally" => top'.held = Normal
              /\ mode' = "run" => FramesSeen' = BelowRuns(b, n, top'.loops)
              /\ mode' # "run" /\ top'.loops = 0 => FramesSeen' = BelowEnds(b, n)
              /\ mode' = "run" /\ top'.loops = p.loops => FramesSeen' = b
              /\ stack' = Abandon(Pop(stack)) => top'.loops = 0
              /\ Len(stack') = n /\ top' = stack'[n]
  BY <1>0, <1>1, <1>2, <1>3, <1>11, <1>12, PopSeen, LevelsPop
<1>13. Language!Lands(flow, p.outer) <=>
         /\ flow.type \in Relayed
         /\ flow.aim \in p.outer + (IF flow.type = "break" THEN 0 ELSE 1) .. MaxLoops
  BY DEF Language!Lands, Language!Relayed, Relayed
<1>14. CASE FinishNormal
  <2>1. held.type = "normal" /\ stack' = Pop(stack) /\ mode' = "run"
    BY <1>5, <1>14 DEF FinishNormal
  <2>2. /\ Len(b) = n /\ b[Len(b)].outer = p.outer
        /\ FramesSeen' = b
    <3>1. top' = p
      BY <1>3, <1>4, <1>12, <2>1
    <3> QED
      BY <1>12, <2>1, <3>1
  <2>3. flow = Language!Normal
    <3>1. held.type \notin Relayed
      BY <2>1 DEF Relayed
    <3> QED
      BY <1>9, <2>1, <3>1, FlowIs DEF Language!Normal
  <2>4. AbstractFlow' = Language!Running
    BY <2>1, FlowNext
  <2>5. ~Language!Lands(flow, p.outer)
    BY <1>9, <1>13, <2>1 DEF Relayed
  <2> QED
    BY <1>0, <1>8, <1>9, <1>10, <1>11, <2>2, <2>3, <2>4, <2>5 DEF Language!Leave
<1>15. CASE FinishHalting
  <2>1. /\ held.type \in {"return", "throw", "exit", "fatal"}
        /\ signal' = IF held.type = "return" THEN [NoSignal EXCEPT !.type = "return"] ELSE signal
        /\ throwing' = (throwing \/ held.type = "throw")
        /\ error' = (held.type = "fatal")
        /\ stack' = Abandon(Pop(stack)) /\ mode' = "ended"
    BY <1>5, <1>15 DEF FinishHalting
  <2>2. /\ Len(b) = n /\ b[Len(b)].outer = p.outer
        /\ FramesSeen' = BelowEnds(b, n)
    BY <1>12, <2>1
  <2>3. EndedStatus' = [type |-> held.type, level |-> 0]
    <3>1. CASE held.type = "return"
      <4>1. signal' = [type |-> "return", level |-> 0] /\ ~throwing' /\ ~error' /\ ~exiting'
        BY <1>0, <1>1, <1>5, <2>1, <3>1 DEF NoSignal
      <4> QED
        BY <3>1, <4>1 DEF EndedStatus
    <3>2. CASE held.type = "throw"
      <4>1. throwing' /\ ~error' /\ ~exiting'
        BY <1>0, <1>1, <1>5, <2>1, <3>2
      <4> QED
        BY <3>2, <4>1 DEF EndedStatus, Normal
    <3>3. CASE held.type = "exit"
      <4>1. ~error' /\ exiting'
        BY <1>0, <1>6, <2>1, <3>3
      <4> QED
        BY <3>3, <4>1 DEF EndedStatus, Normal
    <3>4. CASE held.type = "fatal"
      BY <2>1, <3>4 DEF EndedStatus, Normal
    <3> QED
      BY <2>1, <3>1, <3>2, <3>3, <3>4
  <2>4. AbstractFlow' = flow
    <3>1. PICK status : status = [type |-> held.type, level |-> 0]
      OBVIOUS
    <3>2. /\ status.type = held.type /\ status # Normal
          /\ held.type \notin Relayed
      BY <2>1, <3>1 DEF Normal, Relayed
    <3>3. Carried' = status
      BY <2>3, <3>1, <3>2 DEF Carried
    <3>4. AbstractFlow' = FlowOf(status, top'.outer)
      BY <2>1, <3>3, FlowNext
    <3> QED
      BY <1>9, <3>2, <3>4, FlowIs
  <2>5. flow # Language!Normal /\ ~Language!Lands(flow, p.outer)
    BY <1>9, <1>13, <2>1 DEF Relayed, Language!Normal
  <2> QED
    BY <1>0, <1>8, <1>9, <1>10, <1>11, <2>2, <2>4, <2>5 DEF Language!Leave, BelowEnds
<1>16. CASE FinishRelaying
  <2>1. held.type \in Relayed /\ throwing' = throwing /\ error' = error
    BY <1>5, <1>16 DEF FinishRelaying
  <2>2. PICK level : level = lastBreakLevel
    OBVIOUS
  <2>3. level \in 1 .. top.outer /\ held.level = level /\ ~exiting
    BY <1>1, <1>5, <1>6, <2>1, <2>2 DEF Relayed
  <2>4. flow.aim = IF held.type = "break" THEN top.outer - level ELSE top.outer - level + 1
    BY <1>9, <2>1, <2>3, FlowIs DEF Aim, Relayed
  <2>5. flow # Language!Normal
    BY <1>9, <2>1 DEF Language!Normal, Relayed
  <2>6. Language!Lands(flow, p.outer) <=> level \in 1 .. p.loops
    <3>1. MaxLoops \in Nat
      BY BoundsAssumption
    <3>2. CASE held.type = "break"
      <4>1. flow.aim = top.outer - level /\ flow.type = "break"
        BY <1>9, <2>4, <3>2
      <4>2. Language!Lands(flow, p.outer) <=> top.outer - level \in p.outer + 0 .. MaxLoops
        BY <1>13, <4>1 DEF Relayed
      <4> QED
        BY <1>4, <2>3, <3>1, <4>2
    <3>3. CASE held.type = "continue"
      <4>1. flow.aim = top.outer - level + 1 /\ flow.type = "continue"
        BY <1>9, <2>4, <3>3
      <4>2. Language!Lands(flow, p.outer) <=> top.outer - level + 1 \in p.outer + 1 .. MaxLoops
        BY <1>13, <4>1 DEF Relayed
      <4> QED
        BY <1>4, <2>3, <3>1, <4>2
    <3> QED
      BY <2>1, <3>2, <3>3 DEF Relayed
  <2>7. CASE level \in 1 .. p.loops
    <3>1. PICK l : l = LoopsLeft(held.type, level, p.loops)
      OBVIOUS
    <3>2. l \in 0 .. p.loops /\ l = flow.aim - p.outer
      BY <1>4, <2>1, <2>3, <2>4, <2>7, <3>1 DEF LoopsLeft, Relayed
    <3>3. stack' = WithTop(Pop(stack), [Pop(stack)[n] EXCEPT !.loops = l]) /\ mode' = "run"
      BY <1>4, <1>5, <1>16, <2>2, <2>7, <3>1 DEF FinishRelaying
    <3>4. /\ Len(b) = n /\ b[Len(b)].outer = p.outer
          /\ FramesSeen' = BelowRuns(b, n, top'.loops)
      BY <1>12, <3>2, <3>3
    <3>5. top'.loops = l
      <4>1. /\ Pop(stack) \in Seq(Frames) /\ Len(Pop(stack)) >= 1 /\ p \in Frames
        BY <1>1, <1>2, <1>3, Parent DEF StackOK
      <4>2. PICK g : g = [p EXCEPT !.loops = l]
        OBVIOUS
      <4>0. l \in Nat
        BY <1>4, <3>2
      <4>3. g \in Frames /\ g.loops = l
        BY <4>0, <4>1, <4>2 DEF Frames
      <4>4. stack' = WithTop(Pop(stack), g)
        BY <1>4, <3>3, <4>2
      <4>5. stack'[n] = g
        BY <1>4, <4>1, <4>3, <4>4, WithTopProperties
      <4>6. top' = stack'[n]
        BY <1>12, <3>2, <3>3
      <4> QED
        BY <4>3, <4>5, <4>6
    <3>6. AbstractFlow' = Language!Running
      BY <3>3, FlowNext
    <3>7. FramesSeen' = [b EXCEPT ![n].loops = flow.aim - p.outer]
      BY <3>2, <3>4, <3>5 DEF BelowRuns
    <3> QED
      BY <1>0, <1>8, <1>9, <1>10, <1>11, <2>5, <2>6, <2>7, <3>4, <3>6, <3>7 DEF Language!Leave
  <2>8. CASE level \notin 1 .. p.loops
    <3>1. PICK rest : rest = IF level > p.loops THEN level - p.loops ELSE 1
      OBVIOUS
    <3>2. rest = level - p.loops /\ rest \in Nat
      BY <1>4, <2>3, <2>8, <3>1
    <3>3. /\ stack' = Abandon(Pop(stack)) /\ mode' = "ended"
          /\ signal' = [type |-> held.type, level |-> rest]
      BY <1>4, <1>5, <1>16, <2>2, <2>8, <3>1 DEF FinishRelaying
    <3>4. /\ Len(b) = n /\ b[Len(b)].outer = p.outer /\ top'.outer = p.outer
          /\ FramesSeen' = BelowEnds(b, n)
      BY <1>12, <3>3
    <3>5. PICK status : status = [type |-> held.type, level |-> rest]
      OBVIOUS
    <3>6. EndedStatus' = status /\ status # Normal
      BY <1>0, <1>1, <2>1, <2>3, <3>3, <3>5 DEF EndedStatus, Normal, Relayed
    <3>7. AbstractFlow' = FlowOf(status, p.outer)
      BY <3>3, <3>4, <3>6, FlowNext DEF Carried
    <3>8. Aim(held.type, p.outer, rest) = Aim(held.type, top.outer, level)
      BY <1>4, <2>1, <2>3, <3>2 DEF Aim, Relayed
    <3>9. AbstractFlow' = flow
      <4>1. AbstractFlow' = [type |-> held.type, aim |-> Aim(held.type, p.outer, rest)]
        BY <3>5, <3>7, FlowIs
      <4>2. flow = [type |-> held.type, aim |-> Aim(held.type, top.outer, level)]
        BY <1>9, <2>3, FlowIs
      <4> QED
        BY <3>8, <4>1, <4>2
    <3> QED
      BY <1>0, <1>8, <1>9, <1>10, <1>11, <2>5, <2>6, <2>8, <3>4, <3>9
         DEF Language!Leave, BelowEnds
  <2> QED
    BY <2>7, <2>8
<1> QED
  BY <1>14, <1>15, <1>16

\* A call returns: what unwinds goes on, and a return is consumed.
LEMMA CallSeen ==
  ASSUME FInv, Leaving, Levels, Aimed, CallReturns
  PROVE  Language!ReturnFromCall
<1>0. /\ mode = "ended" /\ mode' # "orchestrate" /\ top.kind = "fn" /\ exiting' = exiting
      /\ throwing' = throwing /\ lastBreakLevel' = lastBreakLevel /\ outcome' = outcome
      /\ signal' = NoSignal /\ error' = (error /\ signal.type # "return")
  BY DEF CallReturns
<1>1. PICK n : n = Len(stack) - 1
  OBVIOUS
<1>2. top.outer = 0 /\ top.phase = "body"
  BY <1>0, TopFacts DEF StackOK, Levels
<1>3. signal.type \notin Relayed
  BY <1>2 DEF Aimed
<1>4. PICK status : status = EndedStatus
  OBVIOUS
<1>5. /\ status.type \in {"normal", "return", "throw", "exit", "fatal"}
      /\ status.type \in {"normal", "return"} <=> ~error /\ ~exiting /\ ~throwing
      /\ status.type = "throw" <=> throwing
      /\ status.type = "fatal" <=> error
      /\ status.type = "exit" <=> exiting
  BY <1>0, <1>3, <1>4, StatusIs
<1>6. PICK flow : flow = AbstractFlow
  OBVIOUS
<1>7. flow = [type |-> status.type, aim |-> 0] /\ flow.type = status.type
  <2>1. flow = FlowOf(status, top.outer)
    BY <1>0, <1>2, <1>4, <1>6, FlowSeen DEF Carried
  <2>2. status.type \notin Relayed
    BY <1>5 DEF Relayed
  <2> QED
    BY <2>1, <2>2, FlowIs
<1>8. error' = error
  <2>1. error => ~exiting /\ signal = NoSignal
    BY DEF Leaving, FInv, SignalsOK, OneReason
  <2> QED
    BY <1>0, <2>1 DEF NoSignal, FInv, TypeOK
<1>9. flow.type \in Language!Plain /\ Language!top.kind = "fn"
  <2>1. (mode # "run") = TRUE
    BY <1>0
  <2> QED
    BY <1>0, <1>5, <1>7, <2>1, FramesAre, ShownIs DEF Language!Plain
<1>10. PICK b : b = Language!Below
  OBVIOUS
<1>11. top.kind # "main"
  BY <1>0
<1>12. CASE error \/ throwing \/ exiting
  <2>1. stack' = Abandon(Pop(stack)) /\ mode' = "ended"
    BY <1>8, <1>12 DEF CallReturns
  <2>2. /\ Len(b) = n /\ FramesSeen' = BelowEnds(b, n)
    <3>1. top'.loops = 0
      BY <1>0, <1>1, <1>11, <2>1, LevelsPop
    <3>2. mode' # "run"
      BY <2>1
    <3> QED
      BY <1>0, <1>1, <1>10, <1>11, <2>1, <3>1, <3>2, PopSeen
  <2>3. EndedStatus' = [type |-> status.type, level |-> 0]
    BY <1>0, <1>5, <1>8, <1>12 DEF EndedStatus, Normal
  <2>4. AbstractFlow' = flow
    <3>1. PICK next : next = [type |-> status.type, level |-> 0]
      OBVIOUS
    <3>2. next.type = status.type /\ next # Normal /\ next.type \notin Relayed
      BY <1>5, <1>12, <3>1 DEF Normal, Relayed
    <3>3. Carried' = next
      BY <2>3, <3>1, <3>2 DEF Carried
    <3>4. AbstractFlow' = FlowOf(next, top'.outer)
      BY <2>1, <3>3, FlowNext
    <3> QED
      BY <1>7, <3>2, <3>4, FlowIs
  <2>5. flow.type \notin {"normal", "return"}
    BY <1>5, <1>7, <1>12
  <2> QED
    BY <1>0, <1>6, <1>9, <1>10, <2>2, <2>4, <2>5 DEF Language!ReturnFromCall, BelowEnds
<1>13. CASE ~(error \/ throwing \/ exiting)
  <2>1. stack' = Pop(stack) /\ mode' = "run"
    BY <1>8, <1>13 DEF CallReturns
  <2>2. FramesSeen' = b
    <3>1. top' = stack[n]
      <4>1. /\ n \in Nat /\ n \in 1 .. Len(stack) /\ Len(stack) = n + 1 /\ Len(Pop(stack)) = n
            /\ \A i \in 1 .. n : Pop(stack)[i] = stack[i]
        BY <1>1, <1>11, Parent
      <4>2. PICK m \in Nat : m = n
        BY <4>1
      <4>3. m \in 1 .. m
        BY <4>1, <4>2
      <4> QED
        BY <2>1, <4>1, <4>2, <4>3 DEF top
    <3>2. top'.loops = stack[n].loops
      BY <3>1
    <3> QED
      BY <1>0, <1>1, <1>10, <1>11, <2>1, <3>2, PopSeen
  <2>3. AbstractFlow' = Language!Running
    BY <2>1, FlowNext
  <2>4. flow.type \in {"normal", "return"}
    BY <1>5, <1>7, <1>13
  <2> QED
    BY <1>0, <1>6, <1>9, <1>10, <2>2, <2>3, <2>4 DEF Language!ReturnFromCall
<1> QED
  BY <1>12, <1>13

LEMMA SeenInit == Init => Language!Init
<1> SUFFICES ASSUME Init PROVE Language!Init
  OBVIOUS
<1>1. PICK f : f = Body("main", FALSE, 0, 0, 0)
  OBVIOUS
<1>2. stack = <<f>> /\ Len(stack) = 1 /\ stack[1] = f /\ mode = "run" /\ outcome = "none"
  BY <1>1 DEF Init
<1>3. /\ f.kind = "main" /\ f.phase = "body" /\ f.hasFinally = FALSE /\ f.outer = 0
      /\ f.loops = 0 /\ f.held = Normal
  BY <1>1 DEF Body
<1>4. FlowOf(f.held, f.outer) = Language!Normal
  BY <1>3, FlowIs DEF Language!Normal
<1>5. AbstractFrame(1) = Language!New("main", FALSE, 0)
  BY <1>2, <1>3, <1>4 DEF AbstractFrame, Language!New
<1>6. FramesSeen = << Language!New("main", FALSE, 0) >>
  <2>1. PICK g : g = Language!New("main", FALSE, 0)
    OBVIOUS
  <2>2. FramesSeen = [i \in 1 .. 1 |-> AbstractFrame(i)]
    <3>1. FramesSeen = [i \in 1 .. 1 |-> Shown(stack[i], i = 1 /\ mode # "run")]
      BY <1>2, FramesListed
    <3> QED
      BY <1>2, <3>1 DEF AbstractFrame, Shown
  <2>3. [i \in 1 .. 1 |-> AbstractFrame(i)] = [i \in 1 .. 1 |-> g]
    <3>1. ASSUME NEW i \in 1 .. 1 PROVE AbstractFrame(i) = g
      <4>1. i = 1
        OBVIOUS
      <4> QED
        BY <1>5, <2>1, <4>1
    <3> QED
      BY <3>1
  <2>4. [i \in 1 .. 1 |-> g] = << g >>
    OBVIOUS
  <2> QED
    BY <2>1, <2>2, <2>3, <2>4
<1>7. AbstractFlow = Language!Running
  BY <1>2, FlowSeen
<1> QED
  BY <1>2, <1>6, <1>7 DEF Language!Init

LEMMA SeenNext ==
  ASSUME ~BreakFromLoop
  PROVE  FInv /\ Leaving /\ Levels /\ Aimed /\ [Next]_vars => [Language!Next]_(Language!vars)
<1> SUFFICES ASSUME FInv, Leaving, Levels, Aimed, [Next]_vars
             PROVE  Language!Next \/ UNCHANGED Language!vars
  OBVIOUS
<1>1. CASE \/ OpenLoop \/ CloseLoop
           \/ \E kind \in Relayed, n \in 1 .. MaxLoops : Jump(kind, n) /\ n <= top.loops
  BY <1>1, InsideSeen DEF Language!Next
<1>2. CASE Silence \/ Unsilence
  BY <1>2, RegionsUnseen DEF Language!vars
<1>3. CASE \/ \E kind \in Relayed, n \in 1 .. MaxLoops : Jump(kind, n) /\ ~ n <= top.loops
           \/ Return \/ Throw \/ Exit \/ Fatal \/ FallOff
  BY <1>3, EndsSeen DEF Language!Next
<1>4. CASE Call \/ \E hasFinally \in BOOLEAN : EnterTry(hasFinally)
  BY <1>4, StartsSeen DEF Language!Next
<1>5. CASE TryBodyReturns \/ CatchReturns \/ FinallyReturns
  BY <1>5, ReturnsSeen DEF Language!vars
<1>6. CASE RunCatch \/ RunFinally
  BY <1>6, ClauseSeen DEF Language!Next
<1>7. CASE FinishNormal \/ FinishHalting \/ FinishRelaying
  BY <1>7, LeaveSeen DEF Language!Next
<1>8. CASE CallReturns
  BY <1>8, CallSeen DEF Language!Next
<1>9. CASE MainReturns
  BY <1>9, MainSeen DEF Language!Next
<1>10. CASE UNCHANGED vars
  <2>1. stack' = stack /\ mode' = mode /\ outcome' = outcome /\ signal' = signal
        /\ throwing' = throwing /\ exiting' = exiting /\ error' = error
    BY <1>10 DEF vars
  <2>2. FramesSeen' = FramesSeen
    BY <2>1 DEF FramesSeen, AbstractFrame
  <2>3. AbstractFlow' = AbstractFlow
    BY <2>1 DEF AbstractFlow, Carried, EndedStatus, top
  <2> QED
    BY <2>1, <2>2, <2>3 DEF Language!vars
<1> QED
  BY <1>1, <1>2, <1>3, <1>4, <1>5, <1>6, <1>7, <1>8, <1>9, <1>10
     DEF Next, Program, Engine, Terminated

\* Running try, catch and finally bodies as detached chunks that signal
\* through the host's fields, with a level relative to the chunk, implements
\* the try statement: every completion goes where the language sends it, for
\* every depth of tries, calls and loops, provided that no break leaves a try
\* under an enclosing finally or from a loop of its own body, and no exit runs
\* below a catch with a finally.
THEOREM TryIsImplemented ==
  ASSUME ~BreakUnderFinally, ~BreakFromLoop, ~ExitUnderCatch
  PROVE  Spec => ImplementsLanguage
BY PlacedAlways, SeenInit, SeenNext, PTL DEF Spec, ImplementsLanguage, Language!Spec

=============================================================================
