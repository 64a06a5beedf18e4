------------------------- MODULE ErrorHandlersProofs -------------------------
(***************************************************************************)
(* Theorems about ErrorHandlers, whatever the bounds, the masks and the    *)
(* number of diagnostics that wait together: its types, that a handler is  *)
(* called for the levels it was set for, that a halt leaves nothing queued *)
(* unless an operator threw, that every diagnostic is dealt with once, and *)
(* that handlers run one at a time and start while nothing unwinds.        *)
(***************************************************************************)
EXTENDS ErrorHandlers, TLAPS

-----------------------------------------------------------------------------
(* Sequences *)

LEMMA PopType ==
  ASSUME NEW S, NEW s \in Seq(S), s # <<>>
  PROVE  /\ Pop(s) \in Seq(S)
         /\ Len(Pop(s)) = Len(s) - 1
         /\ \A j \in DOMAIN Pop(s) : j \in DOMAIN s /\ Pop(s)[j] = s[j]
<1>1. Len(s) \in Nat /\ Len(s) > 0 /\ DOMAIN s = 1 .. Len(s)
  OBVIOUS
<1>2. Pop(s) = [j \in 1 .. Len(s) - 1 |-> s[j]]
  BY <1>1 DEF Pop
<1> QED
  BY <1>1, <1>2

LEMMA TopType ==
  ASSUME NEW S, NEW s \in Seq(S), s # <<>>
  PROVE  Top(s) \in S /\ Len(s) \in DOMAIN s /\ Top(s) = s[Len(s)]
  BY DEF Top

LEMMA AppendElements ==
  ASSUME NEW S, NEW s \in Seq(S), NEW e \in S
  PROVE  /\ Append(s, e) \in Seq(S)
         /\ Append(s, e) # <<>>
         /\ Top(Append(s, e)) = e
         /\ Len(Append(s, e)) = Len(s) + 1
         /\ \A j \in DOMAIN Append(s, e) :
              \/ j \in DOMAIN s /\ Append(s, e)[j] = s[j]
              \/ j = Len(s) + 1 /\ Append(s, e)[j] = e
  BY DEF Top

LEMMA TailElements ==
  ASSUME NEW S, NEW s \in Seq(S), s # <<>>
  PROVE  /\ Tail(s) \in Seq(S)
         /\ Head(s) \in S /\ 1 \in DOMAIN s /\ Head(s) = s[1]
         /\ \A j \in DOMAIN Tail(s) : j + 1 \in DOMAIN s /\ Tail(s)[j] = s[j + 1]
  OBVIOUS

LEMMA BecomesType ==
  ASSUME NEW f \in Seq(Fates), NEW items, NEW what \in Fates
  PROVE  Becomes(f, items, what) \in Seq(Fates) /\ Len(Becomes(f, items, what)) = Len(f)
<1>1. DOMAIN f = 1 .. Len(f) /\ Len(f) \in Nat /\ \A k \in DOMAIN f : f[k] \in Fates
  OBVIOUS
<1>2. Becomes(f, items, what) \in [1 .. Len(f) -> Fates]
  BY <1>1 DEF Becomes
<1> QED
  BY <1>1, <1>2

-----------------------------------------------------------------------------
(* Types *)

\* Under every frame but main there is one; under the handler that
\* trigger_error called there is the frame of trigger_error.
StackOK ==
  /\ frames[1].kind = "main"
  /\ \A j \in DOMAIN frames :
       frames[j].kind = "handler" /\ frames[j].by = "trigger"
         => j > 1 /\ frames[j - 1].kind = "trigger"
  /\ mode = "trigger" => Top(frames).kind = "trigger"

TInv == TypeOK /\ StackOK

LEMMA FrameType ==
  ASSUME NEW kind \in {"main", "calling", "call", "handler", "trigger"},
         NEW by \in {"none", "drain", "trigger"},
         NEW n \in Nat, NEW level \in Levels, NEW item,
         item.n = n, item.level = level,
         NEW mask \in SUBSET Levels
  PROVE  /\ Frame(kind, by, item, mask) \in Frames
         /\ Frame(kind, by, item, mask).kind = kind
         /\ Frame(kind, by, item, mask).by = by
         /\ Frame(kind, by, item, mask).level = level
         /\ Frame(kind, by, item, mask).mask = mask
         /\ Frame(kind, by, item, mask).n = n
  BY DEF Frame, Frames

LEMMA PushFrame ==
  ASSUME frames \in Seq(Frames), frames # <<>>, StackOK,
         NEW e \in Frames,
         frames' = Append(frames, e),
         e.kind = "handler" /\ e.by = "trigger" => Top(frames).kind = "trigger",
         mode' # "trigger"
  PROVE  frames' \in Seq(Frames) /\ frames' # <<>> /\ StackOK'
<1>1. DOMAIN frames = 1 .. Len(frames) /\ Len(frames) \in Nat /\ Len(frames) > 0
  OBVIOUS
<1>2. /\ frames' \in Seq(Frames) /\ frames' # <<>>
      /\ DOMAIN frames' = 1 .. Len(frames) + 1
      /\ \A j \in 1 .. Len(frames) : frames'[j] = frames[j]
      /\ frames'[Len(frames) + 1] = e
  BY <1>1
<1>3. frames'[1].kind = "main"
  BY <1>1, <1>2 DEF StackOK
<1>4. ASSUME NEW j \in DOMAIN frames', frames'[j].kind = "handler", frames'[j].by = "trigger"
      PROVE  j > 1 /\ frames'[j - 1].kind = "trigger"
  <2>1. CASE j = Len(frames) + 1
    <3>1. frames'[j] = e /\ j - 1 = Len(frames) /\ j > 1
      BY <1>1, <1>2, <2>1
    <3>2. Top(frames).kind = "trigger"
      BY <1>4, <3>1
    <3>3. Len(frames) \in 1 .. Len(frames)
      BY <1>1
    <3> QED
      BY <1>2, <3>1, <3>2, <3>3 DEF Top
  <2>2. CASE j \in 1 .. Len(frames)
    <3>0. j \in DOMAIN frames /\ frames'[j] = frames[j]
      BY <1>1, <1>2, <2>2
    <3>a. frames[j].kind = "handler" /\ frames[j].by = "trigger"
      BY <1>4, <3>0
    <3>1. j > 1 /\ frames[j - 1].kind = "trigger"
      BY <3>a, <3>0 DEF StackOK
    <3>2. j - 1 \in 1 .. Len(frames)
      BY <1>1, <2>2, <3>1
    <3> QED
      BY <1>2, <3>1, <3>2
  <2> QED
    BY <1>2, <2>1, <2>2, <1>1
<1> QED
  BY <1>2, <1>3, <1>4 DEF StackOK

\* What is left of the stack when the frames above m go.
LEMMA CutFrames ==
  ASSUME frames \in Seq(Frames), StackOK,
         NEW m \in 1 .. Len(frames),
         frames' = SubSeq(frames, 1, m),
         mode' # "trigger"
  PROVE  frames' \in Seq(Frames) /\ frames' # <<>> /\ StackOK'
<1>1. /\ Len(frames) \in Nat /\ DOMAIN frames = 1 .. Len(frames) /\ m \in Nat /\ 1 <= m /\ m <= Len(frames)
      /\ \A j \in 1 .. Len(frames) : frames[j] \in Frames
  OBVIOUS
<1>2. frames' = [j \in 1 .. m |-> frames[j]]
  BY <1>1
<1>3. frames' \in Seq(Frames) /\ DOMAIN frames' = 1 .. m /\ frames' # <<>>
  BY <1>1, <1>2
<1>4. \A j \in 1 .. m : frames'[j] = frames[j] /\ j \in DOMAIN frames /\ (j > 1 => j - 1 \in 1 .. m)
  BY <1>1, <1>2
<1> QED
  BY <1>1, <1>3, <1>4 DEF StackOK

\* The stack above main can be cut, twice above the handler of trigger_error.
LEMMA CutBelow ==
  ASSUME frames \in Seq(Frames), frames # <<>>, StackOK
  PROVE  /\ Top(frames).kind # "main" => Len(frames) - 1 \in 1 .. Len(frames)
         /\ Top(frames).kind = "handler" /\ Top(frames).by = "trigger"
              => Len(frames) - 2 \in 1 .. Len(frames)
<1>1. /\ Len(frames) \in Nat /\ Len(frames) > 0 /\ DOMAIN frames = 1 .. Len(frames)
      /\ Top(frames) = frames[Len(frames)] /\ Len(frames) \in DOMAIN frames
  BY DEF Top
<1>2. Top(frames).kind # "main" => Len(frames) # 1
  BY <1>1 DEF StackOK
<1>3. Top(frames).kind = "handler" /\ Top(frames).by = "trigger" => frames[Len(frames) - 1].kind = "trigger"
  BY <1>1 DEF StackOK
<1>4. Top(frames).kind = "handler" /\ Top(frames).by = "trigger" => Len(frames) # 1 /\ Len(frames) - 1 # 1
  BY <1>1, <1>3, <1>2 DEF StackOK
<1> QED
  BY <1>1, <1>2, <1>4

\* The top of the stack, which is no handler's, is replaced by another such one.
LEMMA ReplaceTop ==
  ASSUME frames \in Seq(Frames), StackOK,
         Len(frames) - 1 \in 1 .. Len(frames),
         NEW e \in Frames, e.kind = "call",
         frames' = Append(Pop(frames), e),
         mode' # "trigger"
  PROVE  frames' \in Seq(Frames) /\ frames' # <<>> /\ StackOK'
<1>1. DOMAIN frames = 1 .. Len(frames) /\ Len(frames) \in Nat /\ Len(frames) > 1
      /\ Pop(frames) \in Seq(Frames) /\ Len(Pop(frames)) = Len(frames) - 1
      /\ \A j \in 1 .. Len(frames) - 1 : Pop(frames)[j] = frames[j]
  BY PopType
<1> DEFINE low == Pop(frames)
<1>2. /\ frames' \in Seq(Frames) /\ frames' # <<>>
      /\ DOMAIN frames' = 1 .. Len(frames)
      /\ \A j \in 1 .. Len(frames) - 1 : frames'[j] = frames[j]
      /\ frames'[Len(frames)] = e
  <2>1. low \in Seq(Frames) /\ Len(low) = Len(frames) - 1 /\ frames' = Append(low, e)
    BY <1>1
  <2> HIDE DEF low
  <2>2. /\ Append(low, e) \in Seq(Frames) /\ Append(low, e) # <<>>
        /\ Len(Append(low, e)) = Len(low) + 1
        /\ \A j \in 1 .. Len(low) : Append(low, e)[j] = low[j]
        /\ Append(low, e)[Len(low) + 1] = e
    BY <2>1
  <2>5. Len(low) + 1 = Len(frames)
    BY <1>1, <2>1
  <2>3. DOMAIN frames' = 1 .. Len(frames)
    BY <2>1, <2>2, <2>5
  <2>4. \A j \in 1 .. Len(frames) - 1 : low[j] = frames[j]
    BY <1>1 DEF low
  <2> QED
    BY <2>1, <2>2, <2>3, <2>4, <2>5
<1>3. frames'[1].kind = "main"
  <2>1. 1 \in 1 .. Len(frames) - 1
    BY <1>1
  <2> QED
    BY <1>2, <2>1 DEF StackOK
<1>4. ASSUME NEW j \in DOMAIN frames', frames'[j].kind = "handler", frames'[j].by = "trigger"
      PROVE  j > 1 /\ frames'[j - 1].kind = "trigger"
  <2>0. j # Len(frames)
    BY <1>2, <1>4
  <2>a. j \in 1 .. Len(frames) /\ Len(frames) \in Nat
    BY <1>1, <1>2, <1>4
  <2>1. j \in 1 .. Len(frames) - 1 /\ j \in DOMAIN frames
    BY <1>1, <2>a, <2>0
  <2>2. j > 1 /\ frames[j - 1].kind = "trigger"
    BY <1>2, <1>4, <2>1 DEF StackOK
  <2>3. j - 1 \in 1 .. Len(frames) - 1
    BY <1>1, <2>1, <2>2
  <2> QED
    BY <1>2, <2>2, <2>3
<1> QED
  BY <1>2, <1>3, <1>4 DEF StackOK

LEMMA InitTypes == Init => TInv
<1> SUFFICES ASSUME Init PROVE TInv
  OBVIOUS
<1>1. frames \in Seq(Frames) /\ frames # <<>> /\ frames[1].kind = "main" /\ DOMAIN frames = {1}
  BY DEF Init, Frames, Levels
<1>2. TypeOK
  <2>1. handlers \in Seq(Handlers) /\ queue \in Seq(Diagnostics) /\ fate \in Seq(Fates) /\ Len(fate) = 0
    BY DEF Init
  <2> QED
    BY <1>1, <2>1 DEF Init, TypeOK, Modes
<1>3. StackOK
  BY <1>1 DEF Init, StackOK
<1> QED
  BY <1>2, <1>3 DEF TInv

LEMMA LiveType ==
  ASSUME handlers \in Seq(Handlers), Live
  PROVE  Top(handlers).mask \in SUBSET Levels
<1>1. Top(handlers) \in Handlers
  BY TopType DEF Live
<1> QED
  BY <1>1 DEF Handlers

\* What diagnose leaves.
LEMMA DiagnoseTypes ==
  ASSUME TypeOK, NEW level \in Levels, Diagnose(level)
  PROVE  /\ queue' \in Seq(Diagnostics)
         /\ raised' \in Nat
         /\ fate' \in Seq(Fates) /\ Len(fate') = raised'
<1>1. raised' = raised + 1 /\ raised \in Nat /\ fate \in Seq(Fates) /\ Len(fate) = raised
      /\ queue \in Seq(Diagnostics)
  BY DEF Diagnose, TypeOK
<1>2. PICK x \in Fates : fate' = Append(fate, x)
  BY DEF Diagnose, Fates
<1>3. [n |-> raised + 1, level |-> level] \in Diagnostics
  BY <1>1 DEF Diagnostics
<1> DEFINE item == [n |-> raised + 1, level |-> level]
<1>4. queue' = Append(queue, item) \/ queue' = queue
  BY DEF Diagnose
<1>5. queue' \in Seq(Diagnostics)
  <2> HIDE DEF item
  <2> QED
    BY <1>1, <1>3, <1>4 DEF item
<1>6. fate' \in Seq(Fates) /\ Len(fate') = Len(fate) + 1
  BY <1>1, <1>2
<1> QED
  BY <1>1, <1>5, <1>6

LEMMA OddType == TypeOK /\ [Next]_vars => odd' \subseteq Oddities
<1> SUFFICES ASSUME odd \subseteq Oddities, [Next]_vars PROVE odd' \subseteq Oddities
  BY DEF TypeOK
<1>1. ASSUME NEW oddity \in Oddities, NEW when, Occurs(oddity, when) PROVE odd' \subseteq Oddities
  BY <1>1 DEF Occurs
<1>2. CASE \/ Raise \/ SetHandler \/ RestoreHandler \/ Unwind \/ OperatorThrows
           \/ DrainDone
  BY <1>1, <1>2 DEF Raise, SetHandler, RestoreHandler, Unwind, OperatorThrows, DrainDone, Oddities
<1>3. CASE \/ Boundary \/ Catch \/ TriggerError \/ CallDeprecated \/ CallEnds
           \/ MainEnds \/ DrainInvoke \/ DrainDefault \/ TriggerInvoke \/ TriggerFatal
           \/ HandlerReturns \/ HandlerHalts \/ UNCHANGED vars
  BY <1>3 DEF Boundary, Catch, TriggerError, CallDeprecated, CallEnds, MainEnds,
     DrainInvoke, DrainDefault, TriggerInvoke, TriggerFatal, Invoke, HandlerReturns,
     HandlerHalts, HandlerOver, vars
<1> QED
  BY <1>2, <1>3 DEF Next

LEMMA StepTypes == TInv /\ [Next]_vars => TInv'
<1> SUFFICES ASSUME TInv, [Next]_vars PROVE TInv'
  OBVIOUS
<1> USE DEF Modes
<1>0. /\ handlers \in Seq(Handlers) /\ queue \in Seq(Diagnostics) /\ inHandler \in BOOLEAN
      /\ frames \in Seq(Frames) /\ frames # <<>> /\ mode \in Modes
      /\ unwinding \in {"none", "throw", "exit"} /\ raised \in Nat
      /\ fate \in Seq(Fates) /\ Len(fate) = raised /\ StackOK /\ TypeOK
      /\ odd' \subseteq Oddities
  BY OddType DEF TInv, TypeOK
<1>1. Top(frames) \in Frames /\ Len(frames) \in Nat /\ Len(frames) > 0
  BY <1>0, TopType
<1>2. NoItem.n \in Nat /\ NoItem.level \in Levels /\ {} \in SUBSET Levels
  BY DEF NoItem, Levels
<1>3. ASSUME frames' = frames, mode' # "trigger" PROVE StackOK'
  BY <1>0, <1>3 DEF StackOK
<1>4. CASE Raise
  <2>1. PICK level \in Levels : Diagnose(level)
    BY <1>4 DEF Raise, Levels
  <2>2. StackOK'
    BY <1>3, <1>4 DEF Raise, Php
  <2> QED
    BY <1>0, <1>4, <2>1, <2>2, DiagnoseTypes DEF Raise, TypeOK, TInv
<1>5. CASE Boundary
  <2>1. StackOK'
    BY <1>3, <1>5 DEF Boundary
  <2> QED
    BY <1>0, <1>5, <2>1 DEF Boundary, TypeOK, TInv
<1>6. CASE SetHandler
  <2>1. PICK set \in BOOLEAN, mask \in Masks : handlers' = Append(handlers, [set |-> set, mask |-> mask])
    BY <1>6 DEF SetHandler
  <2>2. [set |-> set, mask |-> mask] \in Handlers
    BY HandlersAssumption DEF Handlers
  <2>3. handlers' \in Seq(Handlers)
    BY <1>0, <2>1, <2>2
  <2>4. StackOK'
    BY <1>3, <1>6 DEF SetHandler, Php
  <2> QED
    BY <1>0, <1>6, <2>3, <2>4 DEF SetHandler, TypeOK, TInv
<1>7. CASE RestoreHandler
  <2>1. handlers' \in Seq(Handlers)
    BY <1>0, <1>7, PopType DEF RestoreHandler
  <2>2. StackOK'
    BY <1>3, <1>7 DEF RestoreHandler, Php
  <2> QED
    BY <1>0, <1>7, <2>1, <2>2 DEF RestoreHandler, TypeOK, TInv
<1>8. CASE Unwind \/ OperatorThrows
  <2>1. StackOK'
    BY <1>3, <1>8 DEF Unwind, OperatorThrows
  <2> QED
    BY <1>0, <1>8, <2>1 DEF Unwind, OperatorThrows, TypeOK, TInv
<1>9. CASE Catch
  <2>1. StackOK'
    BY <1>3, <1>9 DEF Catch
  <2> QED
    BY <1>0, <1>9, <2>1 DEF Catch, TypeOK, TInv
<1>10. CASE TriggerError
  <2>1. Diagnose("deprecated") /\ "deprecated" \in Levels
    BY <1>10 DEF TriggerError, Levels
  <2> DEFINE e == Frame("trigger", "none", NoItem, {})
  <2>2. e \in Frames /\ e.kind = "trigger"
    BY <1>2, FrameType
  <2>3. frames' = Append(frames, e) /\ mode' = "drain"
    BY <1>10 DEF TriggerError
  <2> HIDE DEF e
  <2>4. frames' \in Seq(Frames) /\ frames' # <<>> /\ StackOK'
    BY <1>0, <2>2, <2>3, PushFrame
  <2> QED
    BY <1>0, <1>10, <2>1, <2>3, <2>4, DiagnoseTypes DEF TriggerError, TypeOK, TInv
<1>11. CASE CallDeprecated
  <2>1. Diagnose("deprecated") /\ "deprecated" \in Levels
    BY <1>11 DEF CallDeprecated, Levels
  <2> DEFINE e == Frame("calling", "none", NoItem, {})
  <2>2. e \in Frames /\ e.kind = "calling"
    BY <1>2, FrameType
  <2>3. frames' = Append(frames, e) /\ mode' = "drain"
    BY <1>11 DEF CallDeprecated
  <2> HIDE DEF e
  <2>4. frames' \in Seq(Frames) /\ frames' # <<>> /\ StackOK'
    BY <1>0, <2>2, <2>3, PushFrame
  <2> QED
    BY <1>0, <1>11, <2>1, <2>3, <2>4, DiagnoseTypes DEF CallDeprecated, TypeOK, TInv
<1>12. CASE CallEnds
  <2>1. Top(frames).kind = "call" /\ frames' = SubSeq(frames, 1, Len(frames) - 1)
        /\ mode' \in {"halt", "drain"}
    BY <1>12 DEF CallEnds, Pop
  <2>2. frames' \in Seq(Frames) /\ frames' # <<>> /\ StackOK'
    BY <1>0, <2>1, CutBelow, CutFrames
  <2> QED
    BY <1>0, <1>12, <2>1, <2>2 DEF CallEnds, TypeOK, TInv
<1>13. CASE MainEnds
  <2>1. StackOK'
    BY <1>3, <1>13 DEF MainEnds
  <2> QED
    BY <1>0, <1>13, <2>1 DEF MainEnds, TypeOK, TInv
<1>14. CASE DrainInvoke
  <2>1. /\ Tail(queue) \in Seq(Diagnostics)
        /\ Head(queue).n \in Nat /\ Head(queue).level \in Levels
    <3>1. Tail(queue) \in Seq(Diagnostics) /\ Head(queue) \in Diagnostics
      BY <1>0, <1>14, TailElements DEF DrainInvoke
    <3> QED
      BY <3>1 DEF Diagnostics
  <2>2. Top(handlers).mask \in SUBSET Levels
    BY <1>0, <1>14, LiveType DEF DrainInvoke
  <2> DEFINE e == Frame("handler", "drain", Head(queue), Top(handlers).mask)
  <2>3. e \in Frames /\ e.by = "drain"
    BY <2>1, <2>2, FrameType
  <2>4. frames' = Append(frames, e) /\ mode' = "php" /\ inHandler' = TRUE
    BY <1>14 DEF DrainInvoke, Invoke
  <2> HIDE DEF e
  <2>5. frames' \in Seq(Frames) /\ frames' # <<>> /\ StackOK'
    BY <1>0, <2>3, <2>4, PushFrame
  <2> QED
    BY <1>0, <1>14, <2>1, <2>4, <2>5 DEF DrainInvoke, TypeOK, TInv
<1>15. CASE DrainDefault
  <2>1. Tail(queue) \in Seq(Diagnostics)
    BY <1>0, <1>15, TailElements DEF DrainDefault
  <2>2. fate' \in Seq(Fates) /\ Len(fate') = raised'
    BY <1>0, <1>15, BecomesType DEF DrainDefault, Fates
  <2>3. StackOK'
    BY <1>3, <1>15 DEF DrainDefault
  <2> QED
    BY <1>0, <1>15, <2>1, <2>2, <2>3 DEF DrainDefault, TypeOK, TInv
<1>16. CASE DrainDone
  <2>1. frames' \in Seq(Frames) /\ frames' # <<>> /\ StackOK' /\ mode' \in Modes
    <3>1. CASE Top(frames).kind = "trigger" /\ unwinding = "none"
      <4>1. frames' = frames /\ mode' = "trigger"
        BY <1>16, <3>1 DEF DrainDone
      <4> QED
        BY <1>0, <3>1, <4>1 DEF StackOK
    <3>2. CASE \/ Top(frames).kind = "trigger" /\ unwinding # "none"
               \/ Top(frames).kind = "calling" /\ unwinding = "throw"
      <4>1. frames' = SubSeq(frames, 1, Len(frames) - 1) /\ mode' = "halt"
        BY <1>16, <3>2 DEF DrainDone, Pop
      <4> QED
        BY <1>0, <3>2, <4>1, CutBelow, CutFrames
    <3>3. CASE Top(frames).kind = "calling" /\ unwinding # "throw"
      <4> DEFINE e == Frame("call", "none", NoItem, {})
      <4>1. e \in Frames /\ e.kind = "call"
        BY <1>2, FrameType
      <4>2. frames' = Append(Pop(frames), e) /\ mode' = "php"
        BY <1>16, <3>3 DEF DrainDone
      <4> HIDE DEF e
      <4>3. Len(frames) - 1 \in 1 .. Len(frames)
        BY <1>0, <3>3, CutBelow
      <4> QED
        BY <1>0, <1>1, <4>1, <4>2, <4>3, ReplaceTop
    <3>4. CASE Top(frames).kind \notin {"trigger", "calling"}
      <4>1. frames' = frames /\ mode' \in {"php", "halt"}
        BY <1>16, <3>4 DEF DrainDone
      <4> QED
        BY <1>0, <1>3, <4>1
    <3> QED
      BY <3>1, <3>2, <3>3, <3>4
  <2> QED
    BY <1>0, <1>16, <2>1 DEF DrainDone, TypeOK, TInv
<1>17. CASE TriggerInvoke
  <2>1. Top(handlers).mask \in SUBSET Levels
    BY <1>0, <1>17, LiveType DEF TriggerInvoke, Taken
  <2> DEFINE item == [n |-> raised + 1, level |-> "error"]
             e == Frame("handler", "trigger", item, Top(handlers).mask)
  <2>2. item.n = raised + 1 /\ item.level = "error" /\ raised + 1 \in Nat /\ "error" \in Levels
    BY <1>0 DEF Levels
  <2>3. e \in Frames /\ e.by = "trigger"
    <3> HIDE DEF item
    <3> QED
      BY <2>1, <2>2, FrameType
  <2>4. frames' = Append(frames, e) /\ mode' = "php" /\ inHandler' = TRUE
    BY <1>17 DEF TriggerInvoke, Invoke
  <2>5. Top(frames).kind = "trigger"
    BY <1>0, <1>17 DEF TriggerInvoke, StackOK
  <2> HIDE DEF e, item
  <2>6. frames' \in Seq(Frames) /\ frames' # <<>> /\ StackOK'
    BY <1>0, <2>3, <2>4, <2>5, PushFrame
  <2>7. fate' \in Seq(Fates) /\ Len(fate') = raised' /\ raised' \in Nat
    BY <1>0, <1>17 DEF TriggerInvoke, Fates
  <2> QED
    BY <1>0, <1>17, <2>4, <2>6, <2>7 DEF TriggerInvoke, TypeOK, TInv
<1>18. CASE TriggerFatal
  <2>1. Top(frames).kind = "trigger"
    BY <1>0, <1>18 DEF TriggerFatal, StackOK
  <2>2. frames' = SubSeq(frames, 1, Len(frames) - 1) /\ mode' = "drain"
    BY <1>18 DEF TriggerFatal, Pop
  <2>3. frames' \in Seq(Frames) /\ frames' # <<>> /\ StackOK'
    BY <1>0, <2>1, <2>2, CutBelow, CutFrames
  <2> QED
    BY <1>0, <1>18, <2>2, <2>3 DEF TriggerFatal, TypeOK, TInv
<1>19. ASSUME NEW verdict \in {"handled", "shown"}, HandlerOver(verdict)
       PROVE  TInv'
  <2>0. verdict \in Fates /\ "dropped" \in Fates
    BY DEF Fates
  <2> DEFINE told == Becomes(fate, << Top(frames) >>, verdict)
  <2>1. told \in Seq(Fates) /\ Len(told) = raised
    BY <1>0, <2>0, BecomesType
  <2>2. Becomes(told, queue, "dropped") \in Seq(Fates) /\ Len(Becomes(told, queue, "dropped")) = raised
    <3> HIDE DEF told
    <3> QED
      BY <2>0, <2>1, BecomesType
  <2>3. fate' \in Seq(Fates) /\ Len(fate') = raised'
    BY <1>19, <2>1, <2>2 DEF HandlerOver
  <2>4. /\ Top(frames).kind = "handler" /\ mode' = "drain"
        /\ \/ frames' = SubSeq(frames, 1, Len(frames) - 1)
           \/ Top(frames).by = "trigger" /\ frames' = SubSeq(frames, 1, Len(frames) - 2)
    BY <1>19 DEF HandlerOver, Pop, Drop2
  <2>5. frames' \in Seq(Frames) /\ frames' # <<>> /\ StackOK'
    BY <1>0, <2>4, CutBelow, CutFrames
  <2>6. queue' \in Seq(Diagnostics) /\ unwinding' \in {"none", "throw", "exit"}
    <3>1. queue' = queue \/ queue' = <<>>
      BY <1>19 DEF HandlerOver
    <3>2. unwinding' = unwinding \/ unwinding' = "exit"
      BY <1>19 DEF HandlerOver
    <3>3. << >> \in Seq(Diagnostics)
      OBVIOUS
    <3> QED
      BY <1>0, <3>1, <3>2, <3>3
  <2> QED
    BY <1>0, <1>19, <2>3, <2>4, <2>5, <2>6 DEF HandlerOver, TypeOK, TInv
<1>20. CASE HandlerReturns
  BY <1>19, <1>20 DEF HandlerReturns
<1>21. CASE HandlerHalts
  BY <1>19, <1>21 DEF HandlerHalts
<1>22. CASE UNCHANGED vars
  BY <1>0, <1>22 DEF vars, TypeOK, TInv, StackOK
<1> QED
  BY <1>4, <1>5, <1>6, <1>7, <1>8, <1>9, <1>10, <1>11, <1>12, <1>13, <1>14, <1>15,
     <1>16, <1>17, <1>18, <1>20, <1>21, <1>22 DEF Next

\* Every reachable state is well typed, and the frames under a handler or a
\* trigger_error are the ones its end takes away.
THEOREM TypeCorrect == Spec => []TypeOK
<1>1. TInv => TypeOK
  BY DEF TInv
<1>2. Spec => []TInv
  BY InitTypes, StepTypes, PTL DEF Spec
<1> QED
  BY <1>1, <1>2, PTL

-----------------------------------------------------------------------------
(* Handlers are called for their levels *)

\* While a diagnostic waits, the handler it waits for is the live one.
Waiting ==
  "indirect" \notin odd /\ queue # <<>> =>
    Live /\ \A i \in DOMAIN queue : queue[i].level \in Top(handlers).mask

LInv == TypeOK /\ Waiting /\ HandlerTakesLevel

LEMMA OddGrows == [Next]_vars => odd \subseteq odd'
<1> SUFFICES ASSUME [Next]_vars PROVE odd \subseteq odd'
  OBVIOUS
<1>1. ASSUME NEW oddity, NEW when, Occurs(oddity, when) PROVE odd \subseteq odd'
  BY <1>1 DEF Occurs
<1>2. CASE \/ Raise \/ SetHandler \/ RestoreHandler \/ Unwind \/ OperatorThrows
           \/ DrainDone
  BY <1>1, <1>2 DEF Raise, SetHandler, RestoreHandler, Unwind, OperatorThrows, DrainDone
<1>3. CASE \/ Boundary \/ Catch \/ TriggerError \/ CallDeprecated \/ CallEnds
           \/ MainEnds \/ DrainInvoke \/ DrainDefault \/ TriggerInvoke \/ TriggerFatal
           \/ HandlerReturns \/ HandlerHalts \/ UNCHANGED vars
  BY <1>3 DEF Boundary, Catch, TriggerError, CallDeprecated, CallEnds, MainEnds,
     DrainInvoke, DrainDefault, TriggerInvoke, TriggerFatal, Invoke, HandlerReturns,
     HandlerHalts, HandlerOver, vars
<1> QED
  BY <1>2, <1>3 DEF Next

LEMMA StepWaiting == TypeOK /\ Waiting /\ [Next]_vars => Waiting'
<1> SUFFICES ASSUME TypeOK, Waiting, [Next]_vars, "indirect" \notin odd', queue' # <<>>
             PROVE  Live' /\ \A i \in DOMAIN queue' : queue'[i].level \in Top(handlers').mask
  BY DEF Waiting
<1>1. "indirect" \notin odd
  BY OddGrows
<1>2. queue \in Seq(Diagnostics)
  BY DEF TypeOK
<1>3. ASSUME handlers' = handlers, queue' = queue \/ queue' = <<>>
      PROVE  Live' /\ \A i \in DOMAIN queue' : queue'[i].level \in Top(handlers').mask
  BY <1>1, <1>3 DEF Waiting, Live
<1>4. ASSUME handlers' = handlers, queue # <<>>, queue' = Tail(queue)
      PROVE  Live' /\ \A i \in DOMAIN queue' : queue'[i].level \in Top(handlers').mask
  <2>1. \A i \in DOMAIN queue' : i + 1 \in DOMAIN queue /\ queue'[i] = queue[i + 1]
    BY <1>2, <1>4, TailElements
  <2> QED
    BY <1>1, <1>4, <2>1 DEF Waiting, Live
<1>5. ASSUME NEW level \in Levels, Diagnose(level), handlers' = handlers
      PROVE  Live' /\ \A i \in DOMAIN queue' : queue'[i].level \in Top(handlers').mask
  <2>1. CASE ~Taken(level)
    BY <1>3, <1>5, <2>1 DEF Diagnose
  <2>2. CASE Taken(level)
    <3> DEFINE e == [n |-> raised + 1, level |-> level]
    <3>1. e \in Diagnostics /\ e.level = level
      BY DEF Diagnostics, TypeOK
    <3>2. queue' = Append(queue, e)
      BY <1>5, <2>2 DEF Diagnose
    <3> HIDE DEF e
    <3>3. \A i \in DOMAIN queue' : (i \in DOMAIN queue /\ queue'[i] = queue[i]) \/ queue'[i] = e
      BY <1>2, <3>1, <3>2, AppendElements
    <3>4. Live' /\ level \in Top(handlers').mask
      BY <1>5, <2>2 DEF Taken, Live
    <3>5. \A i \in DOMAIN queue : queue[i].level \in Top(handlers').mask
      BY <1>1, <1>5 DEF Waiting
    <3> QED
      BY <3>1, <3>3, <3>4, <3>5
  <2> QED
    BY <2>1, <2>2
<1>6. CASE Raise
  BY <1>5, <1>6 DEF Raise, Levels
<1>7. CASE TriggerError \/ CallDeprecated
  BY <1>5, <1>7 DEF TriggerError, CallDeprecated, Levels
<1>8. CASE SetHandler \/ RestoreHandler
  BY <1>8 DEF SetHandler, RestoreHandler, Occurs
<1>9. CASE DrainInvoke \/ DrainDefault
  BY <1>4, <1>9 DEF DrainInvoke, DrainDefault
<1>10. CASE \/ Boundary \/ Unwind \/ OperatorThrows \/ Catch \/ CallEnds \/ MainEnds \/ DrainDone
            \/ TriggerInvoke \/ TriggerFatal \/ HandlerReturns \/ HandlerHalts
            \/ UNCHANGED vars
  BY <1>3, <1>10 DEF Boundary, Unwind, OperatorThrows, Catch, CallEnds, MainEnds, DrainDone, TriggerInvoke,
     TriggerFatal, HandlerReturns, HandlerHalts, HandlerOver, vars
<1> QED
  BY <1>6, <1>7, <1>8, <1>9, <1>10 DEF Next

\* How a step may change the handlers among the frames.
LEMMA StepFrames ==
  ASSUME TypeOK, [Next]_vars
  PROVE  \/ \A j \in DOMAIN frames' : frames'[j].kind = "handler" =>
                j \in DOMAIN frames /\ frames'[j] = frames[j]
         \/ DrainInvoke \/ TriggerInvoke
<1> DEFINE Kept == \A j \in DOMAIN frames' : frames'[j].kind = "handler" =>
                      j \in DOMAIN frames /\ frames'[j] = frames[j]
<1>0. frames \in Seq(Frames) /\ frames # <<>> /\ Len(frames) \in Nat /\ Len(frames) > 0
      /\ DOMAIN frames = 1 .. Len(frames)
  BY DEF TypeOK
<1>1. frames' = frames => Kept
  OBVIOUS
<1>2. frames' = Pop(frames) => Kept
  BY <1>0, PopType
<1>3. frames' = Drop2(frames) => Kept
  <2>1. Len(frames) - 2 > 0 => DOMAIN SubSeq(frames, 1, Len(frames) - 2) = 1 .. Len(frames) - 2
    BY <1>0
  <2>2. Len(frames) - 2 <= 0 => SubSeq(frames, 1, Len(frames) - 2) = <<>>
    BY <1>0
  <2>3. \A j \in 1 .. Len(frames) - 2 : SubSeq(frames, 1, Len(frames) - 2)[j] = frames[j]
    BY <1>0
  <2> QED
    BY <1>0, <2>1, <2>2, <2>3 DEF Drop2
<1>4. ASSUME NEW s \in Seq(Frames), s = frames \/ s = Pop(frames),
             NEW kind \in {"calling", "call", "trigger"},
             frames' = Append(s, Frame(kind, "none", NoItem, {}))
      PROVE  Kept
  <2> DEFINE e == Frame(kind, "none", NoItem, {})
  <2>1. e \in Frames /\ e.kind = kind
    BY FrameType DEF NoItem, Levels
  <2>2. frames' = Append(s, e)
    BY <1>4
  <2> HIDE DEF e
  <2>3. \A j \in DOMAIN frames' : (j \in DOMAIN s /\ frames'[j] = s[j]) \/ frames'[j] = e
    BY <2>1, <2>2, AppendElements
  <2>4. \A j \in DOMAIN s : j \in DOMAIN frames /\ s[j] = frames[j]
    BY <1>0, <1>4, PopType
  <2> QED
    BY <1>4, <2>1, <2>3, <2>4
<1>5. CASE \/ Raise \/ Boundary \/ SetHandler \/ RestoreHandler \/ Unwind \/ OperatorThrows \/ Catch
           \/ MainEnds \/ DrainDefault \/ UNCHANGED vars
  BY <1>1, <1>5 DEF Raise, Boundary, SetHandler, RestoreHandler, Unwind, OperatorThrows, Catch, MainEnds,
     DrainDefault, vars
<1>6. CASE CallEnds \/ TriggerFatal
  BY <1>2, <1>6 DEF CallEnds, TriggerFatal
<1>7. CASE HandlerReturns \/ HandlerHalts
  BY <1>2, <1>3, <1>7 DEF HandlerReturns, HandlerHalts, HandlerOver
<1>8. CASE TriggerError \/ CallDeprecated
  BY <1>0, <1>4, <1>8 DEF TriggerError, CallDeprecated
<1>9. CASE DrainDone
  <2>1. Pop(frames) \in Seq(Frames)
    BY <1>0, PopType
  <2>2. \/ frames' = frames \/ frames' = Pop(frames)
        \/ frames' = Append(Pop(frames), Frame("call", "none", NoItem, {}))
    BY <1>9 DEF DrainDone
  <2> QED
    BY <1>1, <1>2, <1>4, <2>1, <2>2
<1> QED
  BY <1>5, <1>6, <1>7, <1>8, <1>9 DEF Next

LEMMA StepTakes ==
  TypeOK /\ Waiting /\ HandlerTakesLevel /\ [Next]_vars => HandlerTakesLevel'
<1> SUFFICES ASSUME TypeOK, Waiting, HandlerTakesLevel, [Next]_vars, "indirect" \notin odd',
                    NEW j \in DOMAIN frames', frames'[j].kind = "handler"
             PROVE  frames'[j].level \in frames'[j].mask
  BY DEF HandlerTakesLevel
<1>1. "indirect" \notin odd /\ frames \in Seq(Frames) /\ handlers \in Seq(Handlers)
      /\ queue \in Seq(Diagnostics) /\ raised \in Nat
  BY OddGrows DEF TypeOK
<1>2. CASE j \in DOMAIN frames /\ frames'[j] = frames[j]
  BY <1>1, <1>2 DEF HandlerTakesLevel
<1>3. ASSUME NEW item, NEW by \in {"drain", "trigger"}, Invoke(item, by), Live,
             item.n \in Nat, item.level \in Levels, item.level \in Top(handlers).mask
      PROVE  frames'[j].level \in frames'[j].mask
  <2> DEFINE mask == Top(handlers).mask
             e == Frame("handler", by, item, mask)
  <2>1. mask \in SUBSET Levels
    BY <1>1, <1>3, LiveType
  <2>2. frames' = Append(frames, e)
    BY <1>3 DEF Invoke
  <2>3. item.level \in mask
    BY <1>3
  <2>4. e \in Frames /\ e.level = item.level /\ e.mask = mask
    <3> HIDE DEF mask
    <3> QED
      BY <1>3, <2>1, FrameType
  <2> HIDE DEF e, mask
  <2>5. (j \in DOMAIN frames /\ frames'[j] = frames[j]) \/ frames'[j] = e
    BY <1>1, <2>2, <2>4, AppendElements
  <2> QED
    BY <1>2, <2>3, <2>4, <2>5
<1>4. CASE DrainInvoke
  <2>1. Live /\ queue # <<>> /\ Invoke(Head(queue), "drain")
    BY <1>4 DEF DrainInvoke
  <2>2. Head(queue) \in Diagnostics /\ 1 \in DOMAIN queue /\ Head(queue) = queue[1]
    BY <1>1, <2>1, TailElements
  <2>3. Head(queue).n \in Nat /\ Head(queue).level \in Levels
    BY <2>2 DEF Diagnostics
  <2>4. Head(queue).level \in Top(handlers).mask
    BY <1>1, <2>1, <2>2 DEF Waiting
  <2> QED
    BY <1>3, <2>1, <2>3, <2>4
<1>5. CASE TriggerInvoke
  <2> DEFINE item == [n |-> raised + 1, level |-> "error"]
  <2>1. item.n = raised + 1 /\ raised + 1 \in Nat /\ item.level = "error" /\ "error" \in Levels
    BY <1>1 DEF Levels
  <2>2. Live /\ "error" \in Top(handlers).mask /\ Invoke(item, "trigger")
    BY <1>5 DEF TriggerInvoke, Taken
  <2> HIDE DEF item
  <2> QED
    BY <1>3, <2>1, <2>2
<1> QED
  BY <1>2, <1>4, <1>5, StepFrames

\* A handler is called for the levels it was set for, whatever other handlers
\* come and go in the meantime, through builtins with a wrapper.
THEOREM HandlersTakeTheirLevels == Spec => []HandlerTakesLevel
<1>1. Init => LInv
  <2>1. Init => TypeOK
    BY InitTypes DEF TInv
  <2>2. Init => Waiting
    BY DEF Init, Waiting
  <2>3. Init => HandlerTakesLevel
    BY DEF Init, HandlerTakesLevel
  <2> QED
    BY <2>1, <2>2, <2>3 DEF LInv
<1>2. LInv /\ TypeOK' /\ [Next]_vars => LInv'
  BY StepWaiting, StepTakes DEF LInv
<1>3. Spec => []LInv
  BY <1>1, <1>2, TypeCorrect, PTL DEF Spec
<1>4. LInv => HandlerTakesLevel
  BY DEF LInv
<1> QED
  BY <1>3, <1>4, PTL

\* Nothing waits when trigger_error goes on or the script is over, nor when a
\* chunk has halted for anything but the throw of an operator.
Emptied ==
  /\ mode \in {"trigger", "done"} => queue = <<>>
  /\ "native throw" \notin odd /\ mode = "halt" => queue = <<>>

LEMMA EmptiedStep ==
  ASSUME Emptied, [Next]_vars
  PROVE  Emptied'
<1> SUFFICES ASSUME mode' \in {"trigger", "halt", "done"},
                    mode' = "halt" => "native throw" \notin odd'
             PROVE  queue' = <<>>
  BY DEF Emptied
<1>0. odd \subseteq odd'
  BY OddGrows
<1>1. CASE DrainDone
  BY <1>1 DEF DrainDone
<1>2. CASE CallEnds \/ MainEnds
  BY <1>2 DEF CallEnds, MainEnds
<1>3. CASE Raise \/ SetHandler \/ RestoreHandler \/ UNCHANGED vars
  BY <1>3 DEF Raise, SetHandler, RestoreHandler, Php, vars, Emptied
<1>4. CASE OperatorThrows
  BY <1>4 DEF OperatorThrows, Occurs
<1>5. CASE \/ Boundary \/ Unwind \/ Catch \/ TriggerError \/ CallDeprecated \/ DrainInvoke
           \/ DrainDefault \/ TriggerInvoke \/ TriggerFatal \/ HandlerReturns \/ HandlerHalts
  BY <1>5 DEF Boundary, Unwind, Catch, TriggerError, CallDeprecated, DrainInvoke,
     DrainDefault, TriggerInvoke, TriggerFatal, HandlerReturns, HandlerHalts, HandlerOver, Invoke
<1> QED
  BY <1>1, <1>2, <1>3, <1>4, <1>5 DEF Next

\* What waits when a statement is left is dropped with it: nothing waits when
\* the script is over, nor when a chunk has halted, unless an operator threw.
THEOREM StatementsLeaveNothing == Spec => []NothingOutlivesItsStatement
<1>1. Init => Emptied
  BY DEF Init, Emptied
<1>2. Emptied /\ [Next]_vars => Emptied'
  BY EmptiedStep
<1>3. Emptied => NothingOutlivesItsStatement
  BY DEF Emptied, NothingOutlivesItsStatement
<1> QED
  BY <1>1, <1>2, <1>3, PTL DEF Spec

-----------------------------------------------------------------------------
(* Diagnostics are dealt with once *)

Open(f, k) == k \in DOMAIN f /\ f[k] = "open"

IsHandler(s, j) == j \in DOMAIN s /\ s[j].kind = "handler"

\* The open fates of f are those of the items of q and of the handlers in s, and
\* no two of these are the same diagnostic.
OpenOnce(q, s, f) ==
  /\ \A i \in DOMAIN q : Open(f, q[i].n)
  /\ \A j \in DOMAIN s : IsHandler(s, j) => Open(f, s[j].n)
  /\ \A i, j \in DOMAIN q : q[i].n = q[j].n => i = j
  /\ \A i, j \in DOMAIN s : IsHandler(s, i) /\ IsHandler(s, j) /\ s[i].n = s[j].n => i = j
  /\ \A i \in DOMAIN q, j \in DOMAIN s : IsHandler(s, j) => q[i].n # s[j].n
  /\ \A k \in DOMAIN f : Open(f, k) =>
       \/ \E i \in DOMAIN q : q[i].n = k
       \/ \E j \in DOMAIN s : IsHandler(s, j) /\ s[j].n = k

\* The handlers of s are the handlers of r, at the same place.
SameHandlers(r, s) ==
  \A j : /\ IsHandler(s, j) => IsHandler(r, j) /\ s[j] = r[j]
         /\ IsHandler(r, j) => IsHandler(s, j) /\ s[j] = r[j]

LEMMA KeepHandlers ==
  ASSUME NEW q, NEW r, NEW s, NEW f, OpenOnce(q, r, f), SameHandlers(r, s)
  PROVE  OpenOnce(q, s, f)
<1>1. \A j \in DOMAIN s : IsHandler(s, j) => IsHandler(r, j) /\ j \in DOMAIN r /\ s[j] = r[j]
  BY DEF SameHandlers, IsHandler
<1>2. \A j \in DOMAIN r : IsHandler(r, j) => IsHandler(s, j) /\ j \in DOMAIN s /\ s[j] = r[j]
  BY DEF SameHandlers, IsHandler
<1>3. \A k \in DOMAIN f : Open(f, k) =>
        \/ \E i \in DOMAIN q : q[i].n = k
        \/ \E j \in DOMAIN s : IsHandler(s, j) /\ s[j].n = k
  BY <1>2 DEF OpenOnce
<1>4. /\ \A i \in DOMAIN q : Open(f, q[i].n)
      /\ \A i, j \in DOMAIN q : q[i].n = q[j].n => i = j
  BY DEF OpenOnce
<1>5. \A j \in DOMAIN s : IsHandler(s, j) => Open(f, s[j].n)
  BY <1>1 DEF OpenOnce
<1>6. \A i, j \in DOMAIN s : IsHandler(s, i) /\ IsHandler(s, j) /\ s[i].n = s[j].n => i = j
  BY <1>1 DEF OpenOnce
<1>7. \A i \in DOMAIN q, j \in DOMAIN s : IsHandler(s, j) => q[i].n # s[j].n
  BY <1>1 DEF OpenOnce
<1> QED
  BY <1>3, <1>4, <1>5, <1>6, <1>7 DEF OpenOnce

\* A fate that is decided at once changes nothing.
LEMMA ShownAtOnce ==
  ASSUME NEW q, NEW s, NEW f \in Seq(Fates), OpenOnce(q, s, f), NEW x \in Fates, x # "open"
  PROVE  OpenOnce(q, s, Append(f, x))
<1>1. \A k : Open(Append(f, x), k) <=> Open(f, k)
  BY DEF Open
<1>2. \A k : Open(f, k) => k \in DOMAIN f
  BY DEF Open
<1> QED
  BY <1>1, <1>2 DEF OpenOnce

\* A diagnostic that joins the queue.
LEMMA JoinsQueue ==
  ASSUME NEW q \in Seq(Diagnostics), NEW s, NEW f \in Seq(Fates), OpenOnce(q, s, f),
         NEW e \in Diagnostics, e.n = Len(f) + 1
  PROVE  OpenOnce(Append(q, e), s, Append(f, "open"))
<1> DEFINE p == Append(q, e)
           g == Append(f, "open")
<1>1. "open" \in Fates
  BY DEF Fates
<1>2. /\ DOMAIN p = (DOMAIN q) \cup {Len(q) + 1} /\ Len(q) + 1 \notin DOMAIN q
      /\ \A i \in DOMAIN q : p[i] = q[i]
      /\ p[Len(q) + 1] = e
  OBVIOUS
<1>3. /\ e.n \notin DOMAIN f
      /\ \A k : Open(g, k) <=> Open(f, k) \/ k = e.n
  BY <1>1 DEF Open
<1> HIDE DEF p, g
<1>4. \A k : Open(f, k) => k # e.n /\ k \in DOMAIN f
  BY <1>3 DEF Open
<1>5. \A i \in DOMAIN p : Open(g, p[i].n)
  BY <1>2, <1>3 DEF OpenOnce
<1>6. \A j \in DOMAIN s : IsHandler(s, j) => Open(g, s[j].n) /\ s[j].n # e.n
  BY <1>3, <1>4 DEF OpenOnce
<1>7. \A i \in DOMAIN q : q[i].n # e.n
  BY <1>4 DEF OpenOnce
<1>8. \A i, j \in DOMAIN p : p[i].n = p[j].n => i = j
  BY <1>2, <1>7 DEF OpenOnce
<1>9. \A i \in DOMAIN p, j \in DOMAIN s : IsHandler(s, j) => p[i].n # s[j].n
  BY <1>2, <1>6 DEF OpenOnce
<1>10. \A k \in DOMAIN g : Open(g, k) =>
         \/ \E i \in DOMAIN p : p[i].n = k
         \/ \E j \in DOMAIN s : IsHandler(s, j) /\ s[j].n = k
  BY <1>2, <1>3, <1>4 DEF OpenOnce
<1>11. OpenOnce(p, s, g)
  BY <1>5, <1>6, <1>8, <1>9, <1>10 DEF OpenOnce
<1> QED
  BY <1>11 DEF p, g

\* The handlers of s are those of r and one more, e.
OneHandlerMore(r, s, e) ==
  \E m : /\ ~IsHandler(r, m) /\ IsHandler(s, m) /\ s[m] = e
         /\ \A j : /\ IsHandler(s, j) => j = m \/ (IsHandler(r, j) /\ s[j] = r[j])
                   /\ IsHandler(r, j) => IsHandler(s, j) /\ s[j] = r[j]

\* A diagnostic that a handler is called for without waiting.
LEMMA HandledAtOnce ==
  ASSUME NEW q, NEW r, NEW s, NEW f \in Seq(Fates), OpenOnce(q, r, f),
         NEW e, e.n = Len(f) + 1, OneHandlerMore(r, s, e)
  PROVE  OpenOnce(q, s, Append(f, "open"))
<1> DEFINE g == Append(f, "open")
<1>1. "open" \in Fates
  BY DEF Fates
<1>2. PICK m : /\ ~IsHandler(r, m) /\ IsHandler(s, m) /\ s[m] = e
               /\ \A j : /\ IsHandler(s, j) => j = m \/ (IsHandler(r, j) /\ s[j] = r[j])
                         /\ IsHandler(r, j) => IsHandler(s, j) /\ s[j] = r[j]
  BY DEF OneHandlerMore
<1>3. /\ e.n \notin DOMAIN f
      /\ \A k : Open(g, k) <=> Open(f, k) \/ k = e.n
  BY <1>1 DEF Open
<1> HIDE DEF g
<1>4. \A k : Open(f, k) => k # e.n /\ k \in DOMAIN f
  BY <1>3 DEF Open
<1>5. \A j : IsHandler(r, j) => j \in DOMAIN r /\ Open(f, r[j].n) /\ r[j].n # e.n
  BY <1>4 DEF OpenOnce, IsHandler
<1>6. \A i \in DOMAIN q : Open(g, q[i].n) /\ q[i].n # e.n
  BY <1>3, <1>4 DEF OpenOnce
<1>7. \A j \in DOMAIN s : IsHandler(s, j) => Open(g, s[j].n)
  BY <1>2, <1>3, <1>5
<1>8. \A i, j \in DOMAIN s : IsHandler(s, i) /\ IsHandler(s, j) /\ s[i].n = s[j].n => i = j
  BY <1>2, <1>5 DEF OpenOnce
<1>9. \A i \in DOMAIN q, j \in DOMAIN s : IsHandler(s, j) => q[i].n # s[j].n
  BY <1>2, <1>5, <1>6 DEF OpenOnce
<1>10. \A k \in DOMAIN g : Open(g, k) =>
         \/ \E i \in DOMAIN q : q[i].n = k
         \/ \E j \in DOMAIN s : IsHandler(s, j) /\ s[j].n = k
  <2>1. \A j : IsHandler(s, j) => j \in DOMAIN s
    BY DEF IsHandler
  <2> QED
    BY <1>2, <1>3, <1>4, <2>1 DEF OpenOnce
<1>11. OpenOnce(q, s, g)
  BY <1>6, <1>7, <1>8, <1>9, <1>10 DEF OpenOnce
<1> QED
  BY <1>11 DEF g

\* The first in the queue gets its handler.
LEMMA LeavesQueue ==
  ASSUME NEW q \in Seq(Diagnostics), q # <<>>, NEW r, NEW s, NEW f, OpenOnce(q, r, f),
         NEW e, e.n = Head(q).n, OneHandlerMore(r, s, e)
  PROVE  OpenOnce(Tail(q), s, f)
<1> DEFINE p == Tail(q)
<1>1. /\ 1 \in DOMAIN q /\ Head(q) = q[1]
      /\ \A i \in DOMAIN p : i + 1 \in DOMAIN q /\ p[i] = q[i + 1] /\ i + 1 # 1 /\ i \in Nat
      /\ \A i \in DOMAIN q : i # 1 => i - 1 \in DOMAIN p /\ p[i - 1] = q[i]
  OBVIOUS
<1>2. PICK m : /\ ~IsHandler(r, m) /\ IsHandler(s, m) /\ s[m] = e
               /\ \A j : /\ IsHandler(s, j) => j = m \/ (IsHandler(r, j) /\ s[j] = r[j])
                         /\ IsHandler(r, j) => IsHandler(s, j) /\ s[j] = r[j]
  BY DEF OneHandlerMore
<1> HIDE DEF p
<1>3. \A j : IsHandler(r, j) => j \in DOMAIN r /\ Open(f, r[j].n) /\ r[j].n # e.n
  BY <1>1 DEF OpenOnce, IsHandler
<1>4. \A i \in DOMAIN p : Open(f, p[i].n) /\ p[i].n # e.n
  BY <1>1 DEF OpenOnce
<1>5. \A i, j \in DOMAIN p : p[i].n = p[j].n => i = j
  <2> SUFFICES ASSUME NEW i \in DOMAIN p, NEW j \in DOMAIN p, p[i].n = p[j].n PROVE i = j
    OBVIOUS
  <2>1. /\ i + 1 \in DOMAIN q /\ p[i] = q[i + 1] /\ i \in Nat
        /\ j + 1 \in DOMAIN q /\ p[j] = q[j + 1] /\ j \in Nat
    BY <1>1
  <2>2. \A a, b \in DOMAIN q : q[a].n = q[b].n => a = b
    BY DEF OpenOnce
  <2>3. q[i + 1].n = q[j + 1].n
    BY <2>1
  <2>4. i + 1 = j + 1
    BY <2>1, <2>2, <2>3, Zenon
  <2> QED
    BY <2>1, <2>4
<1>6. \A j \in DOMAIN s : IsHandler(s, j) => Open(f, s[j].n)
  BY <1>1, <1>2, <1>3 DEF OpenOnce
<1>7. \A i, j \in DOMAIN s : IsHandler(s, i) /\ IsHandler(s, j) /\ s[i].n = s[j].n => i = j
  BY <1>2, <1>3 DEF OpenOnce
<1>8. \A i \in DOMAIN p, j \in DOMAIN s : IsHandler(s, j) => p[i].n # s[j].n
  <2> SUFFICES ASSUME NEW i \in DOMAIN p, NEW j \in DOMAIN s, IsHandler(s, j)
               PROVE  p[i].n # s[j].n
    OBVIOUS
  <2>1. CASE j = m
    BY <1>2, <1>4, <2>1
  <2>2. CASE IsHandler(r, j) /\ s[j] = r[j]
    BY <1>1, <1>3, <2>2 DEF OpenOnce
  <2> QED
    BY <1>2, <2>1, <2>2
<1>9. \A k \in DOMAIN f : Open(f, k) =>
        \/ \E i \in DOMAIN p : p[i].n = k
        \/ \E j \in DOMAIN s : IsHandler(s, j) /\ s[j].n = k
  <2> SUFFICES ASSUME NEW k \in DOMAIN f, Open(f, k)
               PROVE  \/ \E i \in DOMAIN p : p[i].n = k
                      \/ \E j \in DOMAIN s : IsHandler(s, j) /\ s[j].n = k
    OBVIOUS
  <2>1. \A j : IsHandler(s, j) => j \in DOMAIN s
    BY DEF IsHandler
  <2>2. CASE \E i \in DOMAIN q : q[i].n = k
    <3>1. PICK i \in DOMAIN q : q[i].n = k
      BY <2>2
    <3>2. CASE i = 1
      BY <1>1, <1>2, <2>1, <3>1, <3>2
    <3>3. CASE i # 1
      BY <1>1, <3>1, <3>3
    <3> QED
      BY <3>2, <3>3
  <2>3. CASE \E j \in DOMAIN r : IsHandler(r, j) /\ r[j].n = k
    BY <1>2, <2>1, <2>3
  <2> QED
    BY <2>2, <2>3 DEF OpenOnce
<1>10. OpenOnce(p, s, f)
  BY <1>4, <1>5, <1>6, <1>7, <1>8, <1>9 DEF OpenOnce
<1> QED
  BY <1>10 DEF p

\* Fates that are decided: every diagnostic of `items`, and no other.
LEMMA Closes ==
  ASSUME NEW f \in Seq(Fates), NEW items, NEW x \in Fates, x # "open"
  PROVE  \A k : Open(Becomes(f, items, x), k)
               <=> Open(f, k) /\ \A i \in DOMAIN items : items[i].n # k
<1>1. DOMAIN Becomes(f, items, x) = DOMAIN f
  BY DEF Becomes
<1>2. \A k \in DOMAIN f : Becomes(f, items, x)[k]
                         = IF \E i \in DOMAIN items : items[i].n = k THEN x ELSE f[k]
  BY DEF Becomes
<1> QED
  BY <1>1, <1>2 DEF Open

\* One diagnostic is over: nothing is left of it, and all else is as it was.
LEMMA ClosesOne ==
  ASSUME NEW p, NEW s, NEW f, NEW g, NEW n,
         \A i \in DOMAIN p : Open(f, p[i].n) /\ p[i].n # n,
         \A j \in DOMAIN s : IsHandler(s, j) => Open(f, s[j].n) /\ s[j].n # n,
         \A i, j \in DOMAIN p : p[i].n = p[j].n => i = j,
         \A i, j \in DOMAIN s : IsHandler(s, i) /\ IsHandler(s, j) /\ s[i].n = s[j].n => i = j,
         \A i \in DOMAIN p, j \in DOMAIN s : IsHandler(s, j) => p[i].n # s[j].n,
         \A k \in DOMAIN f : Open(f, k) /\ k # n =>
           \/ \E i \in DOMAIN p : p[i].n = k
           \/ \E j \in DOMAIN s : IsHandler(s, j) /\ s[j].n = k,
         \A k : Open(g, k) <=> Open(f, k) /\ k # n
  PROVE  OpenOnce(p, s, g)
<1>1. \A k : Open(g, k) => k \in DOMAIN f
  BY DEF Open
<1> QED
  BY <1>1 DEF OpenOnce

\* The first in the queue is shown.
LEMMA ShownFromQueue ==
  ASSUME NEW q \in Seq(Diagnostics), q # <<>>, NEW s, NEW f \in Seq(Fates), OpenOnce(q, s, f)
  PROVE  OpenOnce(Tail(q), s, Becomes(f, << Head(q) >>, "shown"))
<1> DEFINE p == Tail(q)
           n == Head(q).n
           g == Becomes(f, << Head(q) >>, "shown")
<1>1. /\ 1 \in DOMAIN q /\ Head(q) = q[1]
      /\ \A i \in DOMAIN p : i + 1 \in DOMAIN q /\ p[i] = q[i + 1] /\ i + 1 # 1 /\ i \in Nat
      /\ \A i \in DOMAIN q : i # 1 => i - 1 \in DOMAIN p /\ p[i - 1] = q[i]
  OBVIOUS
<1>2. \A k : Open(g, k) <=> Open(f, k) /\ k # n
  <2>1. "shown" \in Fates
    BY DEF Fates
  <2>2. \A k : (\A i \in DOMAIN << Head(q) >> : << Head(q) >>[i].n # k) <=> k # n
    OBVIOUS
  <2>3. \A k : Open(g, k) <=> Open(f, k) /\ \A i \in DOMAIN << Head(q) >> : << Head(q) >>[i].n # k
    BY <2>1, Closes
  <2> QED
    BY <2>2, <2>3
<1>3. q[1].n = n
  BY <1>1
<1> HIDE DEF p, n, g
<1>4. \A i \in DOMAIN p : Open(f, p[i].n) /\ p[i].n # n
  BY <1>1, <1>3 DEF OpenOnce
<1>5. \A j \in DOMAIN s : IsHandler(s, j) => Open(f, s[j].n) /\ s[j].n # n
  BY <1>1, <1>3 DEF OpenOnce
<1>6. \A i, j \in DOMAIN p : p[i].n = p[j].n => i = j
  <2> SUFFICES ASSUME NEW i \in DOMAIN p, NEW j \in DOMAIN p, p[i].n = p[j].n PROVE i = j
    OBVIOUS
  <2>1. /\ i + 1 \in DOMAIN q /\ p[i] = q[i + 1] /\ i \in Nat
        /\ j + 1 \in DOMAIN q /\ p[j] = q[j + 1] /\ j \in Nat
    BY <1>1
  <2>2. \A a, b \in DOMAIN q : q[a].n = q[b].n => a = b
    BY DEF OpenOnce
  <2>3. q[i + 1].n = q[j + 1].n
    BY <2>1
  <2>4. i + 1 = j + 1
    BY <2>1, <2>2, <2>3, Zenon
  <2> QED
    BY <2>1, <2>4
<1>7. \A i \in DOMAIN p, j \in DOMAIN s : IsHandler(s, j) => p[i].n # s[j].n
  BY <1>1 DEF OpenOnce
<1>8. ASSUME NEW k \in DOMAIN f, Open(f, k), k # n
      PROVE  \/ \E i \in DOMAIN p : p[i].n = k
             \/ \E j \in DOMAIN s : IsHandler(s, j) /\ s[j].n = k
  <2>1. CASE \E i \in DOMAIN q : q[i].n = k
    <3>1. PICK i \in DOMAIN q : q[i].n = k
      BY <2>1
    <3>2. i # 1
      BY <1>3, <1>8, <3>1
    <3> QED
      BY <1>1, <3>1, <3>2
  <2>2. CASE ~ \E i \in DOMAIN q : q[i].n = k
    BY <1>8, <2>2 DEF OpenOnce
  <2> QED
    BY <2>1, <2>2
<1>9. \A i, j \in DOMAIN s : IsHandler(s, i) /\ IsHandler(s, j) /\ s[i].n = s[j].n => i = j
  BY DEF OpenOnce
<1>a. \A k \in DOMAIN f : Open(f, k) /\ k # n =>
         \/ \E i \in DOMAIN p : p[i].n = k
         \/ \E j \in DOMAIN s : IsHandler(s, j) /\ s[j].n = k
  BY <1>8
<1>10. OpenOnce(p, s, g)
  BY <1>2, <1>4, <1>5, <1>6, <1>7, <1>a, <1>9, ClosesOne, ZenonT(60)
<1> QED
  BY <1>10 DEF p, g

\* A handler is over.
LEMMA HandlerGoes ==
  ASSUME NEW q, NEW r, NEW s, NEW f \in Seq(Fates), OpenOnce(q, r, f),
         NEW h, OneHandlerMore(s, r, h),
         NEW x \in Fates, x # "open"
  PROVE  OpenOnce(q, s, Becomes(f, << h >>, x))
<1> DEFINE g == Becomes(f, << h >>, x)
<1>1. PICK m : /\ ~IsHandler(s, m) /\ IsHandler(r, m) /\ r[m] = h
               /\ \A j : /\ IsHandler(r, j) => j = m \/ (IsHandler(s, j) /\ r[j] = s[j])
                         /\ IsHandler(s, j) => IsHandler(r, j) /\ r[j] = s[j]
  BY DEF OneHandlerMore
<1>2. \A k : Open(g, k) <=> Open(f, k) /\ k # h.n
  <2>1. \A k : (\A i \in DOMAIN << h >> : << h >>[i].n # k) <=> k # h.n
    OBVIOUS
  <2>2. \A k : Open(g, k) <=> Open(f, k) /\ \A i \in DOMAIN << h >> : << h >>[i].n # k
    BY Closes
  <2> QED
    BY <2>1, <2>2
<1> HIDE DEF g
<1>3. \A j : IsHandler(r, j) => j \in DOMAIN r
  BY DEF IsHandler
<1>4. \A j : IsHandler(s, j) => j \in DOMAIN s /\ j # m
  BY <1>1 DEF IsHandler
<1>5. \A i \in DOMAIN q : Open(f, q[i].n) /\ q[i].n # h.n
  BY <1>1, <1>3 DEF OpenOnce
<1>6. \A j \in DOMAIN s : IsHandler(s, j) => Open(f, s[j].n) /\ s[j].n # h.n
  BY <1>1, <1>3, <1>4 DEF OpenOnce
<1>7. \A i, j \in DOMAIN q : q[i].n = q[j].n => i = j
  BY DEF OpenOnce
<1>8. \A i, j \in DOMAIN s : IsHandler(s, i) /\ IsHandler(s, j) /\ s[i].n = s[j].n => i = j
  BY <1>1, <1>3 DEF OpenOnce
<1>9. \A i \in DOMAIN q, j \in DOMAIN s : IsHandler(s, j) => q[i].n # s[j].n
  BY <1>1, <1>3 DEF OpenOnce
<1>10. \A k \in DOMAIN f : Open(f, k) /\ k # h.n =>
         \/ \E i \in DOMAIN q : q[i].n = k
         \/ \E j \in DOMAIN s : IsHandler(s, j) /\ s[j].n = k
  BY <1>1, <1>4 DEF OpenOnce
<1>11. OpenOnce(q, s, g)
  BY <1>2, <1>5, <1>6, <1>7, <1>8, <1>9, <1>10, ClosesOne
<1> QED
  BY <1>11 DEF g

\* The queue is dropped.
LEMMA DropsQueue ==
  ASSUME NEW q, NEW s, NEW f \in Seq(Fates), OpenOnce(q, s, f)
  PROVE  OpenOnce(<<>>, s, Becomes(f, q, "dropped"))
<1> DEFINE g == Becomes(f, q, "dropped")
<1>1. "dropped" \in Fates
  BY DEF Fates
<1>2. \A k : Open(g, k) <=> Open(f, k) /\ \A i \in DOMAIN q : q[i].n # k
  BY <1>1, Closes
<1> HIDE DEF g
<1>3. \A k : Open(f, k) => k \in DOMAIN f
  BY DEF Open
<1>4. DOMAIN << >> = {}
  OBVIOUS
<1>5. OpenOnce(<<>>, s, g)
  BY <1>2, <1>3, <1>4 DEF OpenOnce
<1> QED
  BY <1>5 DEF g

\* The handlers of a stack that is pushed or popped.
LEMMA PushesHandler ==
  ASSUME NEW s \in Seq(Frames), NEW e \in Frames, e.kind = "handler"
  PROVE  OneHandlerMore(s, Append(s, e), e)
<1> DEFINE r == Append(s, e)
           m == Len(s) + 1
<1>1. /\ DOMAIN r = (DOMAIN s) \cup {m} /\ m \notin DOMAIN s /\ r[m] = e
      /\ \A j \in DOMAIN s : r[j] = s[j]
  OBVIOUS
<1> HIDE DEF r, m
<1>2. OneHandlerMore(s, r, e)
  BY <1>1 DEF OneHandlerMore, IsHandler
<1> QED
  BY <1>2 DEF r

LEMMA PushesOther ==
  ASSUME NEW s \in Seq(Frames), NEW e \in Frames, e.kind # "handler"
  PROVE  SameHandlers(s, Append(s, e))
<1> DEFINE r == Append(s, e)
           m == Len(s) + 1
<1>1. /\ DOMAIN r = (DOMAIN s) \cup {m} /\ r[m] = e
      /\ \A j \in DOMAIN s : r[j] = s[j] \/ j = m
      /\ m \notin DOMAIN s
  OBVIOUS
<1> HIDE DEF r, m
<1>2. SameHandlers(s, r)
  BY <1>1 DEF SameHandlers, IsHandler
<1> QED
  BY <1>2 DEF r

\* The frames below the top.
LEMMA BelowTop ==
  ASSUME NEW s \in Seq(Frames), s # <<>>
  PROVE  /\ DOMAIN s = (DOMAIN Pop(s)) \cup {Len(s)} /\ Len(s) \notin DOMAIN Pop(s)
         /\ \A j \in DOMAIN Pop(s) : Pop(s)[j] = s[j]
         /\ Top(s) = s[Len(s)]
<1>1. Len(s) \in Nat /\ Len(s) > 0 /\ DOMAIN s = 1 .. Len(s)
  OBVIOUS
<1>2. DOMAIN Pop(s) = 1 .. Len(s) - 1
  BY <1>1 DEF Pop
<1>3. 1 .. Len(s) = (1 .. Len(s) - 1) \cup {Len(s)} /\ Len(s) \notin 1 .. Len(s) - 1
  BY <1>1
<1> QED
  BY <1>1, <1>2, <1>3, PopType DEF Top

LEMMA PopsHandler ==
  ASSUME NEW s \in Seq(Frames), s # <<>>, Top(s).kind = "handler"
  PROVE  OneHandlerMore(Pop(s), s, Top(s))
<1> DEFINE r == Pop(s)
           m == Len(s)
<1>1. /\ DOMAIN s = (DOMAIN r) \cup {m} /\ m \notin DOMAIN r
      /\ \A j \in DOMAIN r : r[j] = s[j]
      /\ Top(s) = s[m]
  BY BelowTop
<1> HIDE DEF r, m
<1>2. OneHandlerMore(r, s, Top(s))
  BY <1>1 DEF OneHandlerMore, IsHandler
<1> QED
  BY <1>2 DEF r

LEMMA PopsOther ==
  ASSUME NEW s \in Seq(Frames), s # <<>>, Top(s).kind # "handler"
  PROVE  SameHandlers(s, Pop(s))
<1> DEFINE r == Pop(s)
           m == Len(s)
<1>1. /\ DOMAIN s = (DOMAIN r) \cup {m} /\ m \notin DOMAIN r
      /\ \A j \in DOMAIN r : r[j] = s[j]
      /\ Top(s) = s[m]
  BY BelowTop
<1> HIDE DEF r, m
<1>2. SameHandlers(s, r)
  BY <1>1 DEF SameHandlers, IsHandler
<1> QED
  BY <1>2 DEF r

LEMMA PopsTrigger ==
  ASSUME NEW s \in Seq(Frames), Len(s) - 2 \in 1 .. Len(s), Top(s).kind = "handler",
         s[Len(s) - 1].kind = "trigger"
  PROVE  OneHandlerMore(Drop2(s), s, Top(s))
<1> DEFINE r == Drop2(s)
           m == Len(s)
           k == m - 1
<1>1. m \in Nat /\ m > 2 /\ DOMAIN s = 1 .. m
  OBVIOUS
<1>2. DOMAIN r = 1 .. m - 2 /\ \A j \in 1 .. m - 2 : r[j] = s[j]
  BY <1>1 DEF Drop2
<1>3. 1 .. m = (1 .. m - 2) \cup {k, m} /\ m \notin 1 .. m - 2 /\ k \notin 1 .. m - 2
  BY <1>1
<1>4. /\ DOMAIN s = (DOMAIN r) \cup {k, m} /\ m \notin DOMAIN r /\ k \notin DOMAIN r
      /\ \A j \in DOMAIN r : r[j] = s[j]
      /\ Top(s) = s[m] /\ s[k].kind = "trigger"
  BY <1>1, <1>2, <1>3 DEF Top
<1> HIDE DEF r, m, k
<1>5. OneHandlerMore(r, s, Top(s))
  BY <1>4 DEF OneHandlerMore, IsHandler
<1> QED
  BY <1>5 DEF r

DInv == TInv /\ OpenOnce(queue, frames, fate)

LEMMA StepOnce == DInv /\ [Next]_vars => OpenOnce(queue, frames, fate)'
<1> SUFFICES ASSUME DInv, [Next]_vars PROVE OpenOnce(queue', frames', fate')
  OBVIOUS
<1>0. /\ handlers \in Seq(Handlers) /\ queue \in Seq(Diagnostics)
      /\ frames \in Seq(Frames) /\ frames # <<>>
      /\ raised \in Nat /\ fate \in Seq(Fates) /\ Len(fate) = raised
      /\ OpenOnce(queue, frames, fate) /\ StackOK
  BY DEF DInv, TInv, TypeOK
<1>1. NoItem.n \in Nat /\ NoItem.level \in Levels /\ {} \in SUBSET Levels
  BY DEF NoItem, Levels
<1>2. ASSUME NEW level \in Levels, Diagnose(level)
      PROVE  OpenOnce(queue', frames, fate')
  <2> DEFINE e == [n |-> raised + 1, level |-> level]
  <2>1. e \in Diagnostics /\ e.n = Len(fate) + 1
    BY <1>0 DEF Diagnostics
  <2>2. \/ queue' = Append(queue, e) /\ fate' = Append(fate, "open")
        \/ queue' = queue /\ fate' = Append(fate, "shown")
    BY <1>2 DEF Diagnose
  <2> HIDE DEF e
  <2>3. "shown" \in Fates
    BY DEF Fates
  <2> QED
    BY <1>0, <2>1, <2>2, <2>3, JoinsQueue, ShownAtOnce
<1>3. ASSUME OpenOnce(queue', frames, fate'),
             NEW kind \in {"calling", "call", "trigger"},
             frames' = Append(frames, Frame(kind, "none", NoItem, {}))
      PROVE  OpenOnce(queue', frames', fate')
  <2> DEFINE e == Frame(kind, "none", NoItem, {})
  <2>1. e \in Frames /\ e.kind = kind
    BY <1>1, FrameType
  <2>2. frames' = Append(frames, e)
    BY <1>3
  <2> HIDE DEF e
  <2>3. SameHandlers(frames, frames')
    BY <1>0, <2>1, <2>2, PushesOther
  <2> QED
    BY <1>3, <2>3, KeepHandlers
<1>4. ASSUME queue' = queue, fate' = fate, frames' = Pop(frames), Top(frames).kind # "handler"
      PROVE  OpenOnce(queue', frames', fate')
  BY <1>0, <1>4, PopsOther, KeepHandlers
<1>5. CASE Raise
  <2>1. PICK level \in {"warning", "deprecated"} : Diagnose(level)
    BY <1>5 DEF Raise
  <2>2. level \in Levels
    BY DEF Levels
  <2>3. OpenOnce(queue', frames, fate')
    BY <1>2, <2>1, <2>2
  <2> QED
    BY <1>5, <2>3 DEF Raise
<1>6. CASE \/ Boundary \/ SetHandler \/ RestoreHandler \/ Unwind \/ OperatorThrows \/ Catch \/ MainEnds
           \/ UNCHANGED vars
  BY <1>0, <1>6 DEF Boundary, SetHandler, RestoreHandler, Unwind, OperatorThrows, Catch, MainEnds, vars
<1>7. CASE TriggerError \/ CallDeprecated
  <2>1. Diagnose("deprecated") /\ "deprecated" \in Levels
    BY <1>7 DEF TriggerError, CallDeprecated, Levels
  <2>2. OpenOnce(queue', frames, fate')
    BY <1>2, <2>1
  <2>3. PICK kind \in {"calling", "trigger"} :
          frames' = Append(frames, Frame(kind, "none", NoItem, {}))
    BY <1>7 DEF TriggerError, CallDeprecated
  <2> QED
    BY <1>3, <2>2, <2>3
<1>8. CASE CallEnds
  BY <1>4, <1>8 DEF CallEnds
<1>9. CASE DrainInvoke
  <2>1. Top(handlers).mask \in SUBSET Levels
    BY <1>0, <1>9, LiveType DEF DrainInvoke
  <2>2. Head(queue) \in Diagnostics /\ queue # <<>>
    BY <1>0, <1>9, TailElements DEF DrainInvoke
  <2>3. Head(queue).n \in Nat /\ Head(queue).level \in Levels
    BY <2>2 DEF Diagnostics
  <2> DEFINE e == Frame("handler", "drain", Head(queue), Top(handlers).mask)
  <2>4. e \in Frames /\ e.kind = "handler" /\ e.n = Head(queue).n
    BY <2>1, <2>3, FrameType
  <2>5. frames' = Append(frames, e) /\ queue' = Tail(queue) /\ fate' = fate
    BY <1>9 DEF DrainInvoke, Invoke
  <2> HIDE DEF e
  <2>6. OneHandlerMore(frames, frames', e)
    BY <1>0, <2>4, <2>5, PushesHandler
  <2>7. OpenOnce(Tail(queue), frames', fate)
    BY <1>0, <2>2, <2>4, <2>6, LeavesQueue
  <2> QED
    BY <2>5, <2>7
<1>10. CASE DrainDefault
  BY <1>0, <1>10, ShownFromQueue DEF DrainDefault
<1>11. CASE DrainDone
  <2>1. queue' = queue /\ fate' = fate
    BY <1>11 DEF DrainDone
  <2>2. CASE frames' = frames
    BY <1>0, <2>1, <2>2
  <2>3. CASE frames' = Pop(frames) /\ Top(frames).kind # "handler"
    BY <1>4, <2>1, <2>3
  <2>4. CASE /\ frames' = Append(Pop(frames), Frame("call", "none", NoItem, {}))
             /\ Top(frames).kind # "handler"
    <3> DEFINE e == Frame("call", "none", NoItem, {})
               low == Pop(frames)
    <3>1. e \in Frames /\ e.kind = "call"
      BY <1>1, FrameType
    <3>2. low \in Seq(Frames) /\ frames' = Append(low, e)
      BY <1>0, <2>4, PopType
    <3>3. OpenOnce(queue, low, fate)
      BY <1>0, <2>4, PopsOther, KeepHandlers
    <3> HIDE DEF e, low
    <3>4. SameHandlers(low, frames')
      BY <3>1, <3>2, PushesOther
    <3> QED
      BY <2>1, <3>3, <3>4, KeepHandlers
  <2> QED
    BY <1>11, <2>2, <2>3, <2>4 DEF DrainDone
<1>12. CASE TriggerInvoke
  <2>1. Top(handlers).mask \in SUBSET Levels
    BY <1>0, <1>12, LiveType DEF TriggerInvoke, Taken
  <2> DEFINE item == [n |-> raised + 1, level |-> "error"]
             e == Frame("handler", "trigger", item, Top(handlers).mask)
  <2>2. item.n = Len(fate) + 1 /\ item.n \in Nat /\ item.level = "error" /\ "error" \in Levels
    BY <1>0 DEF Levels
  <2>3. e \in Frames /\ e.kind = "handler" /\ e.n = Len(fate) + 1
    <3> HIDE DEF item
    <3> QED
      BY <2>1, <2>2, FrameType
  <2>4. frames' = Append(frames, e) /\ queue' = queue /\ fate' = Append(fate, "open")
    BY <1>12 DEF TriggerInvoke, Invoke
  <2> HIDE DEF e, item
  <2>5. OneHandlerMore(frames, frames', e)
    BY <1>0, <2>3, <2>4, PushesHandler
  <2> QED
    BY <1>0, <2>3, <2>4, <2>5, HandledAtOnce
<1>13. CASE TriggerFatal
  <2>1. Top(frames).kind = "trigger"
    BY <1>0, <1>13 DEF TriggerFatal, StackOK
  <2> QED
    BY <1>4, <1>13, <2>1 DEF TriggerFatal
<1>14. ASSUME NEW verdict \in {"handled", "shown"}, HandlerOver(verdict)
       PROVE  OpenOnce(queue', frames', fate')
  <2> DEFINE h == Top(frames)
             told == Becomes(fate, << h >>, verdict)
  <2>1. verdict \in Fates /\ verdict # "open"
    BY DEF Fates
  <2>2. told \in Seq(Fates)
    BY <1>0, <2>1, BecomesType
  <2>3. /\ h.kind = "handler"
        /\ \/ frames' = Pop(frames)
           \/ h.by = "trigger" /\ frames' = Drop2(frames)
        /\ \/ queue' = queue /\ fate' = told
           \/ queue' = <<>> /\ fate' = Becomes(told, queue, "dropped")
    BY <1>14 DEF HandlerOver
  <2>4. OneHandlerMore(frames', frames, h)
    <3>1. CASE frames' = Pop(frames)
      BY <1>0, <2>3, <3>1, PopsHandler
    <3>2. CASE h.by = "trigger" /\ frames' = Drop2(frames)
      <4>1. Len(frames) - 2 \in 1 .. Len(frames)
        BY <1>0, <2>3, <3>2, CutBelow
      <4>2. Len(frames) \in DOMAIN frames /\ frames[Len(frames)] = h
        BY <1>0, TopType
      <4>3. frames[Len(frames) - 1].kind = "trigger"
        BY <1>0, <2>3, <3>2, <4>2 DEF StackOK
      <4> QED
        BY <1>0, <2>3, <3>2, <4>1, <4>3, PopsTrigger
    <3> QED
      BY <2>3, <3>1, <3>2
  <2>5. OpenOnce(queue, frames', told)
    BY <1>0, <2>1, <2>4, HandlerGoes
  <2> HIDE DEF told
  <2> QED
    BY <2>2, <2>3, <2>5, DropsQueue
<1>15. CASE HandlerReturns \/ HandlerHalts
  BY <1>14, <1>15 DEF HandlerReturns, HandlerHalts
<1> QED
  BY <1>5, <1>6, <1>7, <1>8, <1>9, <1>10, <1>11, <1>12, <1>13, <1>15 DEF Next

\* A diagnostic is dealt with once: it waits in one place, or one handler is at
\* work on it, until it is shown, handled or dropped, and from then on neither.
THEOREM DealtWithExactlyOnce == Spec => []DealtWithOnce
<1>1. Init => OpenOnce(queue, frames, fate)
  BY DEF Init, OpenOnce, IsHandler
<1>2. Spec => []DInv
  <2>1. Init => DInv
    BY <1>1, InitTypes DEF DInv
  <2>2. DInv /\ [Next]_vars => DInv'
    BY StepTypes, StepOnce DEF DInv
  <2> QED
    BY <2>1, <2>2, PTL DEF Spec
<1>3. DInv => DealtWithOnce
  <2> SUFFICES ASSUME DInv, NEW k \in DOMAIN fate
               PROVE  LET waits == {i \in DOMAIN queue : queue[i].n = k}
                          works == {j \in DOMAIN frames : frames[j].kind = "handler" /\ frames[j].n = k}
                      IN IF fate[k] = "open"
                           THEN \/ waits = {} /\ \E j \in works : works = {j}
                                \/ works = {} /\ \E i \in waits : waits = {i}
                           ELSE waits = {} /\ works = {}
    BY DEF DealtWithOnce
  <2> DEFINE waits == {i \in DOMAIN queue : queue[i].n = k}
             works == {j \in DOMAIN frames : frames[j].kind = "handler" /\ frames[j].n = k}
  <2>1. OpenOnce(queue, frames, fate) /\ \A j : j \in works <=> IsHandler(frames, j) /\ frames[j].n = k
    BY DEF DInv, IsHandler
  <2>2. Open(fate, k) <=> fate[k] = "open"
    BY DEF Open
  <2>3. CASE fate[k] # "open"
    BY <2>1, <2>2, <2>3 DEF OpenOnce, IsHandler
  <2>4. CASE fate[k] = "open"
    <3>1. (\E i \in waits : TRUE) \/ (\E j \in works : TRUE)
      BY <2>1, <2>2, <2>4 DEF OpenOnce
    <3>2. \A i, j \in waits : i = j
      BY <2>1 DEF OpenOnce
    <3>3. \A i, j \in works : i = j
      BY <2>1 DEF OpenOnce, IsHandler
    <3>4. ~ \E i \in waits, j \in works : TRUE
      BY <2>1 DEF OpenOnce, IsHandler
    <3> HIDE DEF waits, works
    <3>5. \/ waits = {} /\ \E j \in works : works = {j}
          \/ works = {} /\ \E i \in waits : waits = {i}
      BY <3>1, <3>2, <3>3, <3>4
    <3> QED
      BY <2>4, <3>5 DEF waits, works
  <2> QED
    BY <2>3, <2>4
<1> QED
  BY <1>2, <1>3, PTL

-----------------------------------------------------------------------------
(* Handlers one at a time, each from a state in which nothing unwinds *)

Starts == DrainInvoke \/ TriggerInvoke
Ends == \E verdict \in {"handled", "shown"} : HandlerOver(verdict)

LEMMA HandlersMove ==
  ASSUME TInv, [Next]_vars
  PROVE  /\ Starts => \E e : OneHandlerMore(frames, frames', e) /\ (e.sound <=> unwinding = "none")
         /\ Ends => OneHandlerMore(frames', frames, Top(frames))
         /\ ~Starts /\ ~Ends => SameHandlers(frames, frames')
<1>0. /\ handlers \in Seq(Handlers) /\ queue \in Seq(Diagnostics)
      /\ frames \in Seq(Frames) /\ frames # <<>> /\ raised \in Nat /\ StackOK
  BY DEF TInv, TypeOK
<1>1. NoItem.n \in Nat /\ NoItem.level \in Levels /\ {} \in SUBSET Levels
  BY DEF NoItem, Levels
<1>2. ASSUME NEW by \in {"drain", "trigger"}, NEW item, Invoke(item, by), Live,
             item.n \in Nat, item.level \in Levels
      PROVE  \E e : OneHandlerMore(frames, frames', e) /\ (e.sound <=> unwinding = "none")
  <2> DEFINE e == Frame("handler", by, item, Top(handlers).mask)
  <2>1. Top(handlers).mask \in SUBSET Levels
    BY <1>0, <1>2, LiveType
  <2>2. e \in Frames /\ e.kind = "handler" /\ e.sound = (unwinding = "none")
    <3>1. e.sound = (unwinding = "none")
      BY DEF Frame
    <3> QED
      BY <1>2, <2>1, <3>1, FrameType
  <2>3. frames' = Append(frames, e)
    BY <1>2 DEF Invoke
  <2> HIDE DEF e
  <2>4. OneHandlerMore(frames, frames', e)
    BY <1>0, <2>2, <2>3, PushesHandler
  <2> QED
    BY <2>2, <2>4
<1>3. ASSUME DrainInvoke
      PROVE  \E e : OneHandlerMore(frames, frames', e) /\ (e.sound <=> unwinding = "none")
  <2>1. Head(queue) \in Diagnostics /\ Live /\ Invoke(Head(queue), "drain")
    BY <1>0, <1>3, TailElements DEF DrainInvoke
  <2>2. Head(queue).n \in Nat /\ Head(queue).level \in Levels
    BY <2>1 DEF Diagnostics
  <2> QED
    BY <1>2, <2>1, <2>2
<1>4. ASSUME TriggerInvoke
      PROVE  \E e : OneHandlerMore(frames, frames', e) /\ (e.sound <=> unwinding = "none")
  <2> DEFINE item == [n |-> raised + 1, level |-> "error"]
  <2>1. Live /\ Invoke(item, "trigger") /\ item.n = raised + 1 /\ item.level = "error"
    BY <1>4 DEF TriggerInvoke, Taken
  <2>2. raised + 1 \in Nat /\ "error" \in Levels
    BY <1>0 DEF Levels
  <2> HIDE DEF item
  <2> QED
    BY <1>2, <2>1, <2>2
<1>5. ASSUME NEW verdict \in {"handled", "shown"}, HandlerOver(verdict)
      PROVE  OneHandlerMore(frames', frames, Top(frames))
  <2>1. /\ Top(frames).kind = "handler"
        /\ \/ frames' = Pop(frames)
           \/ Top(frames).by = "trigger" /\ frames' = Drop2(frames)
    BY <1>5 DEF HandlerOver
  <2>2. CASE frames' = Pop(frames)
    BY <1>0, <2>1, <2>2, PopsHandler
  <2>3. CASE Top(frames).by = "trigger" /\ frames' = Drop2(frames)
    <3>1. Len(frames) - 2 \in 1 .. Len(frames)
      BY <1>0, <2>1, <2>3, CutBelow
    <3>2. Len(frames) \in DOMAIN frames /\ frames[Len(frames)] = Top(frames)
      BY <1>0, TopType
    <3>3. frames[Len(frames) - 1].kind = "trigger"
      BY <1>0, <2>1, <2>3, <3>2 DEF StackOK
    <3> QED
      BY <1>0, <2>1, <2>3, <3>1, <3>3, PopsTrigger
  <2> QED
    BY <2>1, <2>2, <2>3
<1>6. ASSUME frames' = frames PROVE SameHandlers(frames, frames')
  BY <1>6 DEF SameHandlers
<1>7. ASSUME frames' = Pop(frames), Top(frames).kind # "handler" PROVE SameHandlers(frames, frames')
  BY <1>0, <1>7, PopsOther
<1>8. ASSUME NEW kind \in {"calling", "call", "trigger"}, frames' = Append(frames, Frame(kind, "none", NoItem, {}))
      PROVE  SameHandlers(frames, frames')
  <2> DEFINE e == Frame(kind, "none", NoItem, {})
  <2>1. e \in Frames /\ e.kind = kind /\ frames' = Append(frames, e)
    BY <1>1, <1>8, FrameType
  <2> HIDE DEF e
  <2> QED
    BY <1>0, <2>1, PushesOther
<1>9. ASSUME frames' = Append(Pop(frames), Frame("call", "none", NoItem, {})), Top(frames).kind # "handler"
      PROVE  SameHandlers(frames, frames')
  <2> DEFINE e == Frame("call", "none", NoItem, {})
             low == Pop(frames)
  <2>1. e \in Frames /\ e.kind = "call"
    BY <1>1, FrameType
  <2>2. low \in Seq(Frames) /\ frames' = Append(low, e) /\ SameHandlers(frames, low)
    BY <1>0, <1>9, PopType, PopsOther
  <2> HIDE DEF e, low
  <2>3. SameHandlers(low, frames')
    BY <2>1, <2>2, PushesOther
  <2> QED
    BY <2>2, <2>3 DEF SameHandlers
<1>10. ASSUME ~Starts, ~Ends PROVE SameHandlers(frames, frames')
  <2>1. CASE \/ Raise \/ Boundary \/ SetHandler \/ RestoreHandler \/ Unwind \/ OperatorThrows \/ Catch \/ MainEnds \/ DrainDefault
             \/ UNCHANGED vars
    BY <1>6, <2>1 DEF Raise, Boundary, SetHandler, RestoreHandler, Unwind, OperatorThrows, Catch, MainEnds, DrainDefault, vars
  <2>2. CASE TriggerError \/ CallDeprecated
    BY <1>8, <2>2 DEF TriggerError, CallDeprecated
  <2>3. CASE CallEnds
    BY <1>7, <2>3 DEF CallEnds
  <2>4. CASE TriggerFatal
    BY <1>0, <1>7, <2>4 DEF TriggerFatal, StackOK
  <2>5. CASE DrainDone
    BY <1>6, <1>7, <1>9, <2>5 DEF DrainDone
  <2>6. ~HandlerReturns /\ ~HandlerHalts
    BY <1>10 DEF HandlerReturns, HandlerHalts, Ends
  <2> QED
    BY <1>10, <2>1, <2>2, <2>3, <2>4, <2>5, <2>6 DEF Next, Starts
<1> QED
  BY <1>3, <1>4, <1>5, <1>10 DEF Starts, Ends

\* A queue of one.
LEMMA OneLeaves ==
  ASSUME NEW S, NEW s \in Seq(S), s # <<>>, Len(s) <= 1
  PROVE  Tail(s) = <<>>
<1>1. Len(s) \in Nat /\ Len(s) # 0
  OBVIOUS
<1>2. PICK n \in Nat : n = Len(s)
  BY <1>1
<1>3. n <= 1 /\ n # 0
  BY <1>1, <1>2
<1>4. Len(s) = 1
  BY <1>2, <1>3
<1>5. Tail(s) \in Seq(S) /\ Len(Tail(s)) = 0
  BY <1>4
<1> QED
  BY <1>5

LEMMA OneJoins ==
  ASSUME NEW s, s = <<>>, NEW x
  PROVE  Len(Append(s, x)) <= 1
<1>1. Append(s, x) = <<x>>
  OBVIOUS
<1>2. Len(<<x>>) = 1
  OBVIOUS
<1> QED
  BY <1>1, <1>2

\* As long as no two diagnostics wait together, the flag is up while a handler
\* runs, and then nothing waits and no other handler runs.
AloneInv ==
  "burst" \notin odd =>
    /\ Len(queue) <= 1
    /\ inHandler => queue = <<>>
    /\ inHandler <=> \E j : IsHandler(frames, j)
    /\ \A i, j : IsHandler(frames, i) /\ IsHandler(frames, j) => i = j

LEMMA AloneStep ==
  ASSUME TInv, Emptied, AloneInv, [Next]_vars
  PROVE  AloneInv'
<1> SUFFICES ASSUME "burst" \notin odd'
             PROVE  /\ Len(queue') <= 1
                    /\ inHandler' => queue' = <<>>
                    /\ inHandler' <=> \E j : IsHandler(frames', j)
                    /\ \A i, j : IsHandler(frames', i) /\ IsHandler(frames', j) => i = j
  BY DEF AloneInv
<1> DEFINE Goal == /\ Len(queue') <= 1
                   /\ inHandler' => queue' = <<>>
                   /\ inHandler' <=> \E j : IsHandler(frames', j)
                   /\ \A i, j : IsHandler(frames', i) /\ IsHandler(frames', j) => i = j
<1> SUFFICES Goal
  OBVIOUS
<1>0. /\ queue \in Seq(Diagnostics) /\ Len(queue) <= 1 /\ (inHandler => queue = <<>>)
      /\ (inHandler <=> \E j : IsHandler(frames, j))
      /\ \A i, j : IsHandler(frames, i) /\ IsHandler(frames, j) => i = j
      /\ inHandler \in BOOLEAN /\ inHandler' \in BOOLEAN
  BY OddGrows, StepTypes DEF AloneInv, TInv, TypeOK
<1>1. Len(<<>>) = 0 /\ Len(queue) \in Nat
  BY <1>0
<1>2. CASE Starts
  <2>1. ~inHandler /\ queue' = <<>> /\ inHandler'
    <3>1. CASE DrainInvoke
      <4>1. queue # <<>> /\ queue' = Tail(queue) /\ inHandler'
        BY <3>1 DEF DrainInvoke, Invoke
      <4>2. Tail(queue) = <<>>
        BY <1>0, <4>1, OneLeaves
      <4> QED
        BY <1>0, <4>1, <4>2
    <3>2. CASE TriggerInvoke
      <4>1. ~inHandler /\ queue' = queue /\ inHandler' /\ mode = "trigger"
        BY <3>2 DEF TriggerInvoke, Taken, Invoke
      <4> QED
        BY <4>1 DEF Emptied
    <3> QED
      BY <1>2, <3>1, <3>2 DEF Starts
  <2>2. PICK e : OneHandlerMore(frames, frames', e)
    BY <1>2, HandlersMove
  <2> QED
    BY <1>0, <1>1, <2>1, <2>2 DEF OneHandlerMore
<1>3. CASE Ends
  <2>1. OneHandlerMore(frames', frames, Top(frames))
    BY <1>3, HandlersMove
  <2>2. ~inHandler' /\ (queue' = queue \/ queue' = <<>>)
    BY <1>3 DEF Ends, HandlerOver
  <2>3. ~\E j : IsHandler(frames', j)
    BY <1>0, <2>1 DEF OneHandlerMore
  <2> QED
    BY <1>0, <1>1, <2>2, <2>3
<1>4. CASE ~Starts /\ ~Ends
  <2>1. SameHandlers(frames, frames')
    BY <1>4, HandlersMove
  <2>2. inHandler' = inHandler
    BY <1>4 DEF Next, Starts, Ends, Raise, Boundary, SetHandler, RestoreHandler, Unwind, OperatorThrows, Catch, TriggerError,
         CallDeprecated, CallEnds, MainEnds, DrainDefault, DrainDone, TriggerFatal, HandlerReturns, HandlerHalts, vars
  <2>3. ASSUME NEW level, Diagnose(level), Len(queue') <= 1 PROVE Len(queue') <= 1 /\ (inHandler => queue' = <<>>)
    BY <1>0, <2>3 DEF Diagnose, Taken
  <2>4. Len(queue') <= 1 /\ (inHandler => queue' = <<>>)
    <3>1. CASE Raise
      <4>1. Len(queue') <= 1
        <5>1. Len(queue') \in Nat
          BY StepTypes DEF TInv, TypeOK
        <5> QED
          BY <3>1, <5>1 DEF Raise, Occurs
      <4> QED
        BY <2>3, <3>1, <4>1 DEF Raise
    <3>2. CASE TriggerError \/ CallDeprecated
      <4>1. Diagnose("deprecated") /\ queue = <<>>
        BY <3>2 DEF TriggerError, CallDeprecated, AtBuiltin
      <4>2. queue' = queue \/ \E x : queue' = Append(queue, x)
        BY <4>1 DEF Diagnose
      <4>3. Len(queue') <= 1
        BY <1>0, <4>1, <4>2, OneJoins
      <4> QED
        BY <2>3, <4>1, <4>3
    <3>3. CASE DrainDefault
      <4>1. Len(queue') <= Len(queue) /\ queue # <<>>
        BY <1>0, <3>3 DEF DrainDefault
      <4> QED
        BY <1>0, <1>1, <4>1
    <3>4. CASE queue' = queue
      BY <1>0, <3>4
    <3> QED
      BY <1>4, <3>1, <3>2, <3>3, <3>4 DEF Next, Starts, Ends, Boundary, SetHandler, RestoreHandler, Unwind, OperatorThrows, Catch,
         CallEnds, MainEnds, DrainDone, TriggerFatal, HandlerReturns, HandlerHalts, vars
  <2> QED
    BY <1>0, <2>1, <2>2, <2>4 DEF SameHandlers
<1> QED
  BY <1>2, <1>3, <1>4

\* No handler runs inside another, and the one that runs is protected, as long
\* as no two diagnostics wait together: however handlers raise, trigger, call
\* and replace each other.
THEOREM NoNestedHandlersHolds == Spec => []NoNestedHandlers
<1> DEFINE I == TInv /\ Emptied /\ AloneInv
<1>1. Init => I
  <2> SUFFICES ASSUME Init PROVE Emptied /\ AloneInv
    BY InitTypes
  <2>1. \A j : ~IsHandler(frames, j)
    BY DEF Init, IsHandler
  <2>2. Len(<<>>) = 0
    OBVIOUS
  <2> QED
    BY <2>1, <2>2 DEF Init, Emptied, AloneInv
<1>2. I /\ [Next]_vars => I'
  BY StepTypes, EmptiedStep, AloneStep
<1>3. I => NoNestedHandlers
  BY DEF AloneInv, NoNestedHandlers, HandlerRuns, IsHandler, TInv, TypeOK
<1> HIDE DEF I
<1> QED
  BY <1>1, <1>2, <1>3, PTL DEF Spec

\* Unless a builtin or an operator throws while a diagnostic of its own waits, or
\* a function is entered in spite of an exit, nothing unwinds where PHP code runs, where
\* trigger_error goes on, or while anything waits for a drain.
Calm ==
  odd \cap {"late throw", "native throw", "late call"} = {} =>
    /\ mode \in {"php", "trigger"} => unwinding = "none"
    /\ mode = "drain" /\ queue # <<>> => unwinding = "none"
    /\ \A j : IsHandler(frames, j) => frames[j].sound

LEMMA CalmStep ==
  ASSUME TInv, Emptied, Calm, [Next]_vars
  PROVE  Calm'
<1> SUFFICES ASSUME odd' \cap {"late throw", "native throw", "late call"} = {}
             PROVE  /\ mode' \in {"php", "trigger"} => unwinding' = "none"
                    /\ mode' = "drain" /\ queue' # <<>> => unwinding' = "none"
                    /\ \A j : IsHandler(frames', j) => frames'[j].sound
  BY DEF Calm
<1>0. /\ mode \in {"php", "trigger"} => unwinding = "none"
      /\ mode = "drain" /\ queue # <<>> => unwinding = "none"
      /\ \A j : IsHandler(frames, j) => frames[j].sound
      /\ unwinding \in {"none", "throw", "exit"}
  BY OddGrows DEF Calm, TInv, TypeOK
<1>1. \A j : IsHandler(frames', j) => frames'[j].sound
  <2>1. CASE Starts
    <3>1. unwinding = "none"
      BY <1>0, <2>1 DEF Starts, DrainInvoke, TriggerInvoke
    <3>2. PICK e : OneHandlerMore(frames, frames', e) /\ e.sound
      BY <2>1, <3>1, HandlersMove
    <3> QED
      BY <1>0, <3>2 DEF OneHandlerMore
  <2>2. CASE Ends
    <3>1. OneHandlerMore(frames', frames, Top(frames))
      BY <2>2, HandlersMove
    <3> QED
      BY <1>0, <3>1 DEF OneHandlerMore
  <2>3. CASE ~Starts /\ ~Ends
    <3>1. SameHandlers(frames, frames')
      BY <2>3, HandlersMove
    <3> QED
      BY <1>0, <3>1 DEF SameHandlers
  <2> QED
    BY <2>1, <2>2, <2>3
<1> DEFINE Goal == /\ mode' \in {"php", "trigger"} => unwinding' = "none"
                   /\ mode' = "drain" /\ queue' # <<>> => unwinding' = "none"
<1> SUFFICES Goal
  BY <1>1
<1>a. "native throw" \notin odd
  BY OddGrows
<1>2. CASE Raise \/ SetHandler \/ RestoreHandler \/ Boundary
  BY <1>0, <1>a, <1>2 DEF Raise, SetHandler, RestoreHandler, Boundary, Php, Emptied
<1>3. CASE Unwind \/ OperatorThrows
  BY <1>0, <1>3 DEF Unwind, OperatorThrows, Occurs
<1>4. CASE Catch \/ TriggerError \/ CallDeprecated \/ MainEnds
  BY <1>0, <1>4 DEF Catch, TriggerError, CallDeprecated, MainEnds
<1>5. CASE CallEnds
  BY <1>0, <1>a, <1>5 DEF CallEnds, Php, Emptied
<1>6. CASE DrainInvoke \/ DrainDefault
  BY <1>0, <1>6 DEF DrainInvoke, DrainDefault, Invoke
<1>7. CASE DrainDone
  BY <1>0, <1>7 DEF DrainDone, Occurs
<1>8. CASE TriggerInvoke \/ TriggerFatal
  BY <1>0, <1>8 DEF TriggerInvoke, TriggerFatal, Invoke, Emptied
<1>9. CASE HandlerReturns
  BY <1>0, <1>9 DEF HandlerReturns, HandlerOver, Php
<1>10. CASE HandlerHalts
  BY <1>0, <1>a, <1>10 DEF HandlerHalts, HandlerOver, Emptied
<1>11. CASE UNCHANGED vars
  BY <1>0, <1>11 DEF vars
<1> QED
  BY <1>2, <1>3, <1>4, <1>5, <1>6, <1>7, <1>8, <1>9, <1>10, <1>11 DEF Next

\* A handler is called while no exception and no exit is in flight, and so runs
\* to its end, however it was reached: a drain, trigger_error, a deprecated
\* call. The three ways in which the code fails to are the hypotheses of the
\* property.
THEOREM HandlersStartSoundHolds == Spec => []HandlersStartSound
<1> DEFINE I == TInv /\ Emptied /\ Calm
<1>1. Init => I
  <2> SUFFICES ASSUME Init PROVE Emptied /\ Calm
    BY InitTypes
  <2>1. \A j : ~IsHandler(frames, j)
    BY DEF Init, IsHandler
  <2> QED
    BY <2>1 DEF Init, Emptied, Calm
<1>2. I /\ [Next]_vars => I'
  BY StepTypes, EmptiedStep, CalmStep
<1>3. I => HandlersStartSound
  BY DEF Calm, HandlersStartSound, IsHandler
<1> HIDE DEF I
<1> QED
  BY <1>1, <1>2, <1>3, PTL DEF Spec

=============================================================================
