-------------------------- MODULE RequestEndProofs --------------------------
(***************************************************************************)
(* Theorems about RequestEnd, for every heap, any number of callbacks and  *)
(* any bounds.                                                             *)
(*                                                                         *)
(* Noted is about the destructors alone.  The others are built up in       *)
(* layers: StatusInv (the shape of what is left to do, and the status),    *)
(* Typed and Ranged (the heap, and the places in its lists), Placed (where *)
(* calls stand), Clean (how a sweep begins), Reached (what it has come     *)
(* to), which together are Sound, and at last Counted (what it frees).     *)
(***************************************************************************)
EXTENDS RequestEnd, SequenceTheorems, FiniteSetTheorems, TLAPS

-----------------------------------------------------------------------------
(* Destructors *)

\* What was called once is noted, and nothing is called that is.
Noted ==
  /\ DOMAIN begun = Handles
  /\ \A o \in Handles : begun[o] = IF o \in spent THEN 1 ELSE 0

LEMMA BeginNotes ==
  ASSUME Noted, NEW o, o \notin spent, Begin(o)
  PROVE  Noted'
BY DEF Noted, Begin

LEMMA NotedStep == Noted /\ [Next]_vars => Noted'
<1> SUFFICES ASSUME Noted, [Next]_vars PROVE Noted'
  OBVIOUS
<1>1. CASE Program
  <2>1. spent' = spent /\ begun' = begun
    BY <1>1 DEF Program, New, Store, Unset, Register, Throw, Exit, Fail, Act
  <2> QED
    BY <2>1 DEF Noted
<1>2. CASE Destruct
  <2>1. CASE Due(Subject)
    <3>1. Subject \notin spent /\ Begin(Subject)
      BY <1>2, <2>1 DEF Destruct, Due
    <3> QED
      BY <3>1, BeginNotes
  <2>2. CASE ~Due(Subject)
    BY <1>2, <2>2 DEF Destruct, Noted
  <2> QED
    BY <2>1, <2>2
<1>3. CASE Generator
  <2>1. CASE objects[Subject].kind = "generator" /\ Due(Subject)
    <3>1. Subject \notin spent /\ Begin(Subject)
      BY <1>3, <2>1 DEF Generator, Due
    <3> QED
      BY <3>1, BeginNotes
  <2>2. CASE ~(objects[Subject].kind = "generator" /\ Due(Subject))
    BY <1>3, <2>2 DEF Generator, Noted
  <2> QED
    BY <2>1, <2>2
<1>4. CASE Host /\ ~Destruct /\ ~Generator
  <2>1. spent' = spent /\ begun' = begun
    BY <1>4 DEF Host, CodeEnds, MainEnds, Handled, Report, Uncaught, Shutdown, ShutdownFn,
         AfterFn, Escaped, Destructors, Pass, NextGlobal, Free, Children, Child, Rest,
         AfterDestructor, Restore, Generators, AfterGenerator, GeneratorsEnd, history
  <2> QED
    BY <2>1 DEF Noted
<1>5. CASE Terminated \/ UNCHANGED vars
  BY <1>5 DEF Terminated, vars, history, Noted
<1> QED
  BY <1>1, <1>2, <1>3, <1>4, <1>5 DEF Next

\* "Neither pass runs it twice" (host.rs), nor do both, nor one of them and
\* shutdown_generators, whatever a destructor does to the heap meanwhile.
THEOREM NothingDestructedTwice == Spec => []DestructedOnce
<1>1. Init => Noted
  BY DEF Init, Noted
<1>2. Noted => DestructedOnce
  BY DEF Noted, DestructedOnce
<1> QED
  BY <1>1, <1>2, NotedStep, PTL DEF Spec

-----------------------------------------------------------------------------
(* What is left to do *)

\* A call in progress has steps above it in `todo`, a phase of the request is
\* always its last step; the exception that escapes a shutdown function is
\* reported as a phase, a destructor's above one.
Inner == {"report", "reported", "free", "children", "child", "destruct", "escape", "escaped", "code"}
Unparked == {"main", "handled", "uncaught", "shutdown", "generators", "over"}
Phases == Unparked \cup {"function", "after", "escaped", "destructors", "pass", "next", "again",
                         "rest", "restore", "generator", "destroyed", "unwound"}

LastStep(t) == t[Len(t)].step

Shape(t) ==
  /\ t # <<>> /\ \E S : t \in Seq(S)
  /\ \A i \in 1 .. Len(t) - 1 : t[i].step \in Inner
  /\ LastStep(t) \in Phases

LEMMA Fields ==
  ASSUME NEW step, NEW o
  PROVE  To(step, o).step = step /\ Do(step).step = step
BY DEF To, Do

LEMMA PhaseAlone ==
  ASSUME Shape(todo), Head(todo).step \notin Inner
  PROVE  Len(todo) = 1 /\ Tail(todo) = <<>> /\ LastStep(todo) = Head(todo).step
<1>1. PICK S : todo \in Seq(S)
  BY DEF Shape
<1>2. Len(todo) \in Nat /\ Len(todo) >= 1 /\ Head(todo) = todo[1]
  BY <1>1 DEF Shape
<1>3. Len(todo) = 1
  <2> SUFFICES ASSUME Len(todo) # 1 PROVE FALSE
    OBVIOUS
  <2>1. 1 \in 1 .. Len(todo) - 1
    BY <1>2
  <2> QED
    BY <1>2, <2>1 DEF Shape
<1>4. Tail(todo) = <<>>
  <2>1. Tail(todo) \in Seq(S) /\ Len(Tail(todo)) = 0
    BY <1>1, <1>2, <1>3
  <2> QED
    BY <2>1, EmptySeq
<1> QED
  BY <1>2, <1>3, <1>4 DEF LastStep

LEMMA CallNotAlone ==
  ASSUME Shape(todo), Head(todo).step \notin Phases
  PROVE  Len(todo) > 1
<1>1. PICK S : todo \in Seq(S)
  BY DEF Shape
<1>2. Len(todo) \in Nat /\ Len(todo) >= 1 /\ Head(todo) = todo[1]
  BY <1>1 DEF Shape
<1> QED
  BY <1>2 DEF Shape, LastStep

LEMMA InACall ==
  ASSUME Shape(todo), Len(todo) > 1, NEW T, NEW ops \in Seq(T), Then(ops),
         \A i \in 1 .. Len(ops) : ops[i].step \in Inner
  PROVE  Shape(todo') /\ LastStep(todo') = LastStep(todo)
<1>1. PICK S : todo \in Seq(S)
  BY DEF Shape
<1> DEFINE U == S \cup T
           t == Tail(todo)
<1>2. ops \in Seq(U) /\ todo \in Seq(U)
  BY <1>1
<1>3. /\ t \in Seq(U) /\ Len(t) = Len(todo) - 1
      /\ \A i \in 1 .. Len(t) : t[i] = todo[i + 1]
  BY <1>2
<1> HIDE DEF U, t
<1>4. Len(todo) \in Nat /\ Len(t) \in Nat /\ Len(ops) \in Nat
  BY <1>2, <1>3, LenProperties
<1>5. todo' = ops \o t
  BY DEF Then, t
<1>6. /\ todo' \in Seq(U) /\ Len(todo') = Len(ops) + Len(t)
      /\ \A i \in 1 .. Len(ops) : todo'[i] = ops[i]
      /\ \A i \in 1 .. Len(t) : todo'[Len(ops) + i] = t[i]
  <2>1. /\ ops \o t \in Seq(U) /\ Len(ops \o t) = Len(ops) + Len(t)
        /\ \A i \in 1 .. Len(ops) + Len(t) :
             (ops \o t)[i] = IF i <= Len(ops) THEN ops[i] ELSE t[i - Len(ops)]
    BY <1>2, <1>3, ConcatProperties
  <2> QED
    BY <1>4, <1>5, <2>1
<1>7. todo'[Len(todo')] = todo[Len(todo)]
  BY <1>3, <1>4, <1>6
<1>8. ASSUME NEW i \in 1 .. Len(todo') - 1
      PROVE  todo'[i].step \in Inner
  <2>1. CASE i <= Len(ops)
    BY <1>4, <1>6, <2>1
  <2>2. CASE i > Len(ops)
    <3>1. i - Len(ops) \in 1 .. Len(t) - 1
      BY <1>4, <1>6, <2>2
    <3>2. todo'[i] = todo[i - Len(ops) + 1]
      <4>1. Len(ops) + (i - Len(ops)) = i /\ i - Len(ops) \in 1 .. Len(t)
        BY <1>4, <3>1
      <4>2. todo'[Len(ops) + (i - Len(ops))] = t[i - Len(ops)]
        BY <1>6, <4>1
      <4>3. t[i - Len(ops)] = todo[i - Len(ops) + 1]
        BY <1>3, <4>1
      <4> QED
        BY <4>1, <4>2, <4>3
    <3>3. i - Len(ops) + 1 \in 1 .. Len(todo) - 1
      BY <1>3, <1>4, <3>1
    <3> QED
      BY <3>2, <3>3 DEF Shape
  <2> QED
    BY <1>4, <2>1, <2>2
<1>9. todo' # <<>>
  BY <1>3, <1>4, <1>6
<1> QED
  BY <1>6, <1>7, <1>8, <1>9 DEF Shape, LastStep

LEMMA NextPhase ==
  ASSUME NEW op, op.step \in Phases, todo' = <<op>>
  PROVE  Shape(todo') /\ LastStep(todo') = op.step
<1>1. <<op>> \in Seq({op}) /\ Len(<<op>>) = 1
  OBVIOUS
<1>2. \E S : todo' \in Seq(S)
  BY <1>1
<1>3. todo' # <<>> /\ Len(todo') = 1 /\ todo'[1] = op
  BY <1>1
<1> QED
  BY <1>2, <1>3 DEF Shape, LastStep

LEMMA CallAndPhase ==
  ASSUME NEW call, call.step \in Inner, NEW op, op.step \in Phases, todo' = <<call, op>>
  PROVE  Shape(todo') /\ LastStep(todo') = op.step
<1>1. <<call, op>> \in Seq({call, op}) /\ Len(<<call, op>>) = 2
  OBVIOUS
<1>2. \E S : todo' \in Seq(S)
  BY <1>1
<1>3. todo' # <<>> /\ Len(todo') = 2 /\ todo'[1] = call /\ todo'[2] = op
  BY <1>1
<1> QED
  BY <1>2, <1>3 DEF Shape, LastStep

\* What a phase does next.
LEMMA Onwards ==
  ASSUME Shape(todo), Head(todo).step \notin Inner
  PROVE  /\ \A op : Then(<<op>>) => todo' = <<op>>
         /\ \A call, op : Then(<<call, op>>) => todo' = <<call, op>>
<1>1. Tail(todo) = <<>>
  BY PhaseAlone
<1>2. \A op : <<op>> \o <<>> = <<op>>
  OBVIOUS
<1>3. \A call, op : <<call, op>> \o <<>> = <<call, op>>
  OBVIOUS
<1> QED
  BY <1>1, <1>2, <1>3 DEF Then

-----------------------------------------------------------------------------
(* The exit status *)

\* The status of the last exit is pending, or put aside while nothing is
\* pending; and nothing is aside outside of the two sweeps that put it there.
Status ==
  /\ last \in Nat
  /\ IF exit = 0 THEN parked = last ELSE exit = last
  /\ LastStep(todo) \in Unparked => parked = 0

StatusInv == Shape(todo) /\ Status

\* A step that leaves the status and does not enter one of the phases in which
\* nothing may be aside.
LEMMA SameStatus ==
  ASSUME Status, exit' = exit, parked' = parked, last' = last,
         \/ LastStep(todo') = LastStep(todo)
         \/ LastStep(todo') \notin Unparked
         \/ LastStep(todo) \in Unparked
  PROVE  Status'
BY DEF Status

LEMMA Calling ==
  ASSUME StatusInv, Head(todo).step \notin Phases, NEW T, NEW ops \in Seq(T), Then(ops),
         \A i \in 1 .. Len(ops) : ops[i].step \in Inner,
         exit' = exit, parked' = parked, last' = last
  PROVE  StatusInv'
<1>1. Len(todo) > 1
  BY CallNotAlone DEF StatusInv
<1>2. Shape(todo') /\ LastStep(todo') = LastStep(todo)
  BY <1>1, InACall DEF StatusInv
<1> QED
  BY <1>2, SameStatus DEF StatusInv

LEMMA CallingNone ==
  ASSUME StatusInv, Head(todo).step \notin Phases, Then(<<>>),
         exit' = exit, parked' = parked, last' = last
  PROVE  StatusInv'
<1>1. <<>> \in Seq({})
  OBVIOUS
<1>2. \A i \in 1 .. Len(<<>>) : <<>>[i].step \in Inner
  BY EmptySeq
<1> QED
  BY <1>1, <1>2, Calling

LEMMA CallingOne ==
  ASSUME StatusInv, Head(todo).step \notin Phases, NEW op, op.step \in Inner, Then(<<op>>),
         exit' = exit, parked' = parked, last' = last
  PROVE  StatusInv'
<1>1. <<op>> \in Seq({op}) /\ \A i \in 1 .. Len(<<op>>) : <<op>>[i].step \in Inner
  OBVIOUS
<1> QED
  BY <1>1, Calling

LEMMA CallingTwo ==
  ASSUME StatusInv, Head(todo).step \notin Phases, NEW call, call.step \in Inner,
         NEW op, op.step \in Inner, Then(<<call, op>>),
         exit' = exit, parked' = parked, last' = last
  PROVE  StatusInv'
<1> DEFINE ops == <<call, op>>
<1>1. ops \in Seq({call, op}) /\ Len(ops) = 2 /\ ops[1] = call /\ ops[2] = op
  OBVIOUS
<1>2. Then(ops)
  OBVIOUS
<1> HIDE DEF ops
<1>3. \A i \in 1 .. Len(ops) : ops[i].step \in Inner
  <2>1. \A i \in 1 .. Len(ops) : i = 1 \/ i = 2
    BY <1>1
  <2> QED
    BY <1>1, <2>1
<1> QED
  BY <1>1, <1>2, <1>3, Calling

LEMMA Entering ==
  ASSUME StatusInv, NEW op, op.step \in Phases, Then(<<op>>), Head(todo).step \notin Inner,
         op.step \in Unparked => Head(todo).step \in Unparked,
         exit' = exit, parked' = parked, last' = last
  PROVE  StatusInv'
<1>1. todo' = <<op>> /\ LastStep(todo) = Head(todo).step
  BY Onwards, PhaseAlone DEF StatusInv
<1>2. Shape(todo') /\ LastStep(todo') = op.step
  BY <1>1, NextPhase
<1> QED
  BY <1>1, <1>2, SameStatus DEF StatusInv

LEMMA CallingFirst ==
  ASSUME StatusInv, NEW call, call.step \in Inner, NEW op, op.step \in Phases,
         Then(<<call, op>>), Head(todo).step \notin Inner,
         op.step \in Unparked => Head(todo).step \in Unparked,
         exit' = exit, parked' = parked, last' = last
  PROVE  StatusInv'
<1>1. todo' = <<call, op>> /\ LastStep(todo) = Head(todo).step
  BY Onwards, PhaseAlone DEF StatusInv
<1>2. Shape(todo') /\ LastStep(todo') = op.step
  BY <1>1, CallAndPhase
<1> QED
  BY <1>1, <1>2, SameStatus DEF StatusInv

\* A phase is left in the middle of whatever it was calling.
LEMMA Skipping ==
  ASSUME StatusInv, NEW step \in Phases, Skip(step), step \notin Unparked \/ LastStep(todo) \in Unparked,
         exit' = exit, parked' = parked, last' = last
  PROVE  StatusInv'
<1>1. todo' = <<Do(step)>> /\ Do(step).step = step
  BY Fields DEF Skip
<1>2. Shape(todo') /\ LastStep(todo') = step
  BY <1>1, NextPhase
<1> QED
  BY <1>2, SameStatus DEF StatusInv

LEMMA Parking ==
  ASSUME StatusInv, Head(todo).step \in {"shutdown", "generators"},
         NEW op, op.step \in Phases \ Unparked, Then(<<op>>), Park, last' = last
  PROVE  StatusInv'
<1>1. todo' = <<op>> /\ LastStep(todo) = Head(todo).step
  BY Onwards, PhaseAlone DEF StatusInv, Inner
<1>2. Shape(todo') /\ LastStep(todo') = op.step
  BY <1>1, NextPhase
<1>3. parked = 0
  BY <1>1 DEF StatusInv, Status, Unparked
<1>4. Status'
  BY <1>2, <1>3 DEF StatusInv, Status, Park
<1> QED
  BY <1>2, <1>4 DEF StatusInv

LEMMA Unparking ==
  ASSUME StatusInv, Head(todo).step \notin Inner,
         NEW op, op.step \in Phases, Then(<<op>>), Unpark, last' = last
  PROVE  StatusInv'
<1>1. todo' = <<op>>
  BY Onwards DEF StatusInv
<1>2. Shape(todo') /\ LastStep(todo') = op.step
  BY <1>1, NextPhase
<1>3. Status'
  BY DEF StatusInv, Status, Unpark
<1> QED
  BY <1>2, <1>3 DEF StatusInv

LEMMA ProgramKeeps ==
  ASSUME StatusInv, Program
  PROVE  StatusInv'
<1>1. todo' = todo /\ parked' = parked
  BY DEF Program, New, Store, Unset, Register, Throw, Exit, Fail, Act, request
<1>2. CASE Exit
  BY <1>1, <1>2 DEF Exit, StatusInv, Status
<1>3. CASE ~Exit
  <2>1. exit' = exit /\ last' = last
    BY <1>3 DEF Program, New, Store, Unset, Register, Throw, Fail, signals
  <2> QED
    BY <1>1, <2>1 DEF StatusInv, Status
<1> QED
  BY <1>2, <1>3

LEMMA MainKeeps ==
  ASSUME StatusInv, MainEnds \/ Handled \/ Report \/ Uncaught
  PROVE  StatusInv'
<1>0. exit' = exit /\ parked' = parked /\ last' = last
  <2>1. CASE MainEnds
    BY <2>1 DEF MainEnds, TakeThrow, signals, history
  <2>2. CASE Handled
    BY <2>2 DEF Handled, signals, history
  <2>3. CASE Report
    BY <2>3 DEF Report, TakeThrow, signals, history, request
  <2>4. CASE Uncaught
    BY <2>4 DEF Uncaught, signals, history
  <2> QED
    BY <2>1, <2>2, <2>3, <2>4
<1> USE Fields DEF At, Inner, Phases, Unparked
<1>1. CASE MainEnds
  <2>1. Head(todo).step = "main" /\ LastStep(todo) = "main"
    BY <1>1, PhaseAlone DEF MainEnds, StatusInv
  <2>2. CASE Call(0, Do("handled"))
    <3>1. Then(<<To("code", 0), Do("handled")>>)
      BY <2>2 DEF Call
    <3> QED
      BY <1>0, <2>1, <3>1, CallingFirst
  <2>3. CASE Then(<<Do("report"), Do("uncaught")>>)
    BY <1>0, <2>1, <2>3, CallingFirst
  <2>4. CASE Skip("shutdown")
    BY <1>0, <2>1, <2>4, Skipping
  <2>5. CASE Skip("generators")
    BY <1>0, <2>1, <2>5, Skipping
  <2> QED
    BY <1>1, <2>2, <2>3, <2>4, <2>5 DEF MainEnds
<1>2. CASE Handled
  <2>1. Head(todo).step = "handled" /\ LastStep(todo) = "handled"
    BY <1>2, PhaseAlone DEF Handled, StatusInv
  <2>2. CASE Then(<<Do("report"), Do("uncaught")>>)
    BY <1>0, <2>1, <2>2, CallingFirst
  <2>3. CASE Skip("shutdown")
    BY <1>0, <2>1, <2>3, Skipping
  <2> QED
    BY <1>2, <2>2, <2>3 DEF Handled
<1>3. CASE Report
  <2>1. Head(todo).step \notin Phases
    BY <1>3 DEF Report
  <2>2. CASE Call(0, Do("reported"))
    <3>1. Then(<<To("code", 0), Do("reported")>>)
      BY <2>2 DEF Call
    <3> QED
      BY <1>0, <2>1, <3>1, CallingTwo
  <2>3. CASE Then(<<>>)
    BY <1>0, <2>1, <2>3, CallingNone
  <2> QED
    BY <1>3, <2>2, <2>3 DEF Report
<1>4. CASE Uncaught
  <2>1. Head(todo).step = "uncaught" /\ LastStep(todo) = "uncaught"
    BY <1>4, PhaseAlone DEF Uncaught, StatusInv
  <2> QED
    BY <1>0, <1>4, <2>1, Skipping DEF Uncaught
<1> QED
  BY <1>1, <1>2, <1>3, <1>4

LEMMA SweepsKeep ==
  ASSUME StatusInv, Shutdown \/ ShutdownFn \/ Destructors \/ Pass \/ NextGlobal \/ Restore
                      \/ Generators \/ AfterGenerator \/ GeneratorsEnd
  PROVE  StatusInv'
<1> USE Fields DEF At, Inner, Phases, Unparked
<1>0. last' = last
  BY DEF Shutdown, ShutdownFn, Destructors, Pass, NextGlobal, Restore, Generators,
         AfterGenerator, GeneratorsEnd, history
<1>1. CASE Shutdown
  BY <1>0, <1>1, Parking DEF Shutdown
<1>2. CASE Generators
  BY <1>0, <1>2, Parking DEF Generators
<1>3. CASE Restore
  BY <1>0, <1>3, Unparking DEF Restore
<1>4. CASE GeneratorsEnd
  BY <1>0, <1>4, Unparking DEF GeneratorsEnd
<1>5. CASE ShutdownFn
  <2>1. exit' = exit /\ parked' = parked
    BY <1>5 DEF ShutdownFn, signals, request
  <2>2. CASE Call(0, To("after", Subject))
    <3>1. Then(<<To("code", 0), To("after", Subject)>>)
      BY <2>2 DEF Call
    <3> QED
      BY <1>0, <1>5, <2>1, <3>1, CallingFirst DEF ShutdownFn
  <2>3. CASE Then(<<Do("destructors")>>)
    BY <1>0, <1>5, <2>1, <2>3, Entering DEF ShutdownFn
  <2> QED
    BY <1>5, <2>2, <2>3 DEF ShutdownFn
<1>6. CASE Destructors
  <2>1. exit' = exit /\ parked' = parked
    BY <1>6 DEF Destructors, signals, request
  <2> QED
    BY <1>0, <1>6, <2>1, Entering DEF Destructors
<1>7. CASE Pass
  <2> DEFINE op == [Do("next") EXCEPT !.list = HeldByGlobals]
  <2>1. exit' = exit /\ parked' = parked
    BY <1>7 DEF Pass, signals, request
  <2>2. op.step = "next" /\ Then(<<op>>)
    BY <1>7 DEF Pass, Do, To
  <2> HIDE DEF op
  <2> QED
    BY <1>0, <1>7, <2>1, <2>2, Entering DEF Pass
<1>8. CASE NextGlobal
  <2>0. exit' = exit /\ parked' = parked /\ Head(todo).step \in {"next", "again"}
    BY <1>8 DEF NextGlobal, signals, request
  <2>1. CASE Then(<<Do("pass")>>) \/ Then(<<To("rest", 1)>>)
    BY <1>0, <2>0, <2>1, Entering
  <2>2. ASSUME NEW list, Then(<<[Head(todo) EXCEPT !.list = list]>>)
        PROVE  StatusInv'
    <3> DEFINE op == [Head(todo) EXCEPT !.list = list]
    <3>1. op.step = Head(todo).step
      BY <2>0
    <3> QED
      BY <1>0, <2>0, <2>2, <3>1, Entering
  <2>3. ASSUME NEW o, NEW list, Then(<<To("free", o), [Do("again") EXCEPT !.list = list]>>)
        PROVE  StatusInv'
    <3> DEFINE op == [Do("again") EXCEPT !.list = list]
    <3>1. op.step = "again"
      BY DEF Do, To
    <3>2. Then(<<To("free", o), op>>)
      BY <2>3
    <3> HIDE DEF op
    <3> QED
      BY <1>0, <2>0, <3>1, <3>2, CallingFirst
  <2> QED
    BY <1>8, <2>1, <2>2, <2>3 DEF NextGlobal
<1>9. CASE AfterGenerator
  <2>1. exit' = exit /\ parked' = parked
    BY <1>9 DEF AfterGenerator, signals, request
  <2> QED
    BY <1>0, <1>9, <2>1, Entering DEF AfterGenerator
<1> QED
  BY <1>1, <1>2, <1>3, <1>4, <1>5, <1>6, <1>7, <1>8, <1>9

LEMMA CallsKeep ==
  ASSUME StatusInv, CodeEnds \/ AfterFn \/ Escaped \/ Free \/ Children \/ Child \/ Rest
                      \/ Destruct \/ AfterDestructor \/ Generator
  PROVE  StatusInv'
<1> USE Fields DEF At, Inner, Phases, Unparked
<1>0. exit' = exit /\ parked' = parked /\ last' = last
  <2>1. CASE AfterFn
    BY <2>1 DEF AfterFn, Cut, Escapes, signals, history
  <2>2. CASE Escaped
    BY <2>2 DEF Escaped, Cut, history
  <2>3. CASE AfterDestructor
    BY <2>3 DEF AfterDestructor, Cut, Escapes, signals, history
  <2>4. CASE Rest
    BY <2>4 DEF Rest, signals, history
  <2>5. CASE CodeEnds \/ Free \/ Children \/ Child \/ Destruct \/ Generator
    BY <2>5 DEF CodeEnds, Free, Children, Child, Destruct, Generator, signals, history, request
  <2> QED
    BY <2>1, <2>2, <2>3, <2>4, <2>5
<1>c. ASSUME Cut
      PROVE  StatusInv'
  BY <1>0, <1>c, Skipping DEF Cut
<1>1. CASE CodeEnds
  BY <1>0, <1>1, CallingNone DEF CodeEnds
<1>2. CASE AfterFn
  <2>1. Head(todo).step = "after"
    BY <1>2 DEF AfterFn
  <2>2. CASE Then(<<Do("report"), Do("escaped")>>)
    BY <1>0, <2>1, <2>2, CallingFirst
  <2>3. CASE Then(<<Do("destructors")>>) \/ Then(<<To("function", Subject + 1)>>)
    BY <1>0, <2>1, <2>3, Entering
  <2> QED
    BY <1>2, <1>c, <2>2, <2>3 DEF AfterFn, Escapes
<1>3. CASE Escaped
  BY <1>3, <1>c DEF Escaped
<1>4. CASE Free
  <2>1. Head(todo).step = "free"
    BY <1>4 DEF Free
  <2>2. CASE Then(<<>>)
    BY <1>0, <2>1, <2>2, CallingNone
  <2>3. CASE Then(<<To("destruct", Subject), To("children", Subject)>>)
    BY <1>0, <2>1, <2>3, CallingTwo
  <2> QED
    BY <1>4, <2>2, <2>3 DEF Free
<1>5. CASE Children
  <2>1. PICK n \in 0 .. MaxObjects : \E held \in Bijection(1 .. n, objects[Subject].holds) :
          Then([i \in DOMAIN held |-> To("child", held[i])])
    BY <1>5 DEF Children
  <2>2. PICK held \in Bijection(1 .. n, objects[Subject].holds) :
          Then([i \in DOMAIN held |-> To("child", held[i])])
    BY <2>1
  <2> DEFINE T == {To("child", o) : o \in objects[Subject].holds}
             ops == [i \in DOMAIN held |-> To("child", held[i])]
  <2>3. held \in [1 .. n -> objects[Subject].holds]
    BY DEF Bijection, Injection
  <2>4. n \in Nat
    BY <2>1, RequestEndAssumption
  <2>5. ops \in [1 .. n -> T]
    BY <2>3
  <2>6. ops \in Seq(T)
    BY <2>4, <2>5
  <2>7. \A i \in 1 .. Len(ops) : ops[i].step \in Inner
    <3>1. DOMAIN ops = 1 .. Len(ops)
      BY <2>6
    <3> QED
      BY <2>3, <3>1
  <2>8. Head(todo).step \notin Phases /\ Then(ops)
    BY <1>5, <2>2 DEF Children
  <2> HIDE DEF T, ops
  <2> QED
    BY <1>0, <2>6, <2>7, <2>8, Calling
<1>6. CASE Child
  <2>1. Head(todo).step = "child"
    BY <1>6 DEF Child
  <2>2. CASE Then(<<>>)
    BY <1>0, <2>1, <2>2, CallingNone
  <2>3. CASE Then(<<To("free", Subject)>>)
    BY <1>0, <2>1, <2>3, CallingOne
  <2> QED
    BY <1>6, <2>2, <2>3 DEF Child
<1>7. CASE Rest
  <2>1. Head(todo).step = "rest"
    BY <1>7 DEF Rest
  <2>2. CASE Then(<<Do("restore")>>) \/ Then(<<To("rest", Subject + 1)>>)
    BY <1>0, <2>1, <2>2, Entering
  <2>3. CASE Then(<<To("destruct", Subject), To("rest", Subject + 1)>>)
    BY <1>0, <2>1, <2>3, CallingFirst
  <2> QED
    BY <1>7, <2>2, <2>3 DEF Rest
<1>8. CASE Destruct
  <2>1. Head(todo).step = "destruct"
    BY <1>8 DEF Destruct
  <2>2. CASE Then(<<>>)
    BY <1>0, <2>1, <2>2, CallingNone
  <2>3. CASE Then(<<To("code", Subject), To("escape", Subject)>>)
    BY <1>0, <2>1, <2>3, CallingTwo
  <2> QED
    BY <1>8, <2>2, <2>3 DEF Destruct, Call
<1>9. CASE AfterDestructor
  <2>1. Head(todo).step = "escape"
    BY <1>9 DEF AfterDestructor
  <2>2. CASE Then(<<>>)
    BY <1>0, <2>1, <2>2, CallingNone
  <2>3. CASE Then(<<Do("report"), Do("escaped")>>)
    BY <1>0, <2>1, <2>3, CallingTwo
  <2> QED
    BY <1>9, <1>c, <2>2, <2>3 DEF AfterDestructor, Escapes
<1>10. CASE Generator
  <2>1. Head(todo).step = "generator"
    BY <1>10 DEF Generator
  <2>2. CASE Then(<<To("generator", Subject + 1)>>) \/ Then(<<To("destroyed", Subject)>>)
    BY <1>0, <2>1, <2>2, Entering
  <2>3. CASE Then(<<To("code", Subject), To("destroyed", Subject)>>)
    BY <1>0, <2>1, <2>3, CallingFirst
  <2>4. CASE Then(<<To("code", Subject), To("unwound", Subject)>>)
    BY <1>0, <2>1, <2>4, CallingFirst
  <2> QED
    BY <1>10, <2>2, <2>3, <2>4 DEF Generator, Call
<1> QED
  BY <1>1, <1>2, <1>3, <1>4, <1>5, <1>6, <1>7, <1>8, <1>9, <1>10

LEMMA StatusStep == StatusInv /\ [Next]_vars => StatusInv'
<1> SUFFICES ASSUME StatusInv, [Next]_vars PROVE StatusInv'
  OBVIOUS
<1>1. CASE Program
  BY <1>1, ProgramKeeps
<1>2. CASE Host
  BY <1>2, MainKeeps, SweepsKeep, CallsKeep DEF Host
<1>3. CASE Terminated \/ UNCHANGED vars
  BY <1>3 DEF Terminated, vars, signals, request, history, StatusInv, Status
<1> QED
  BY <1>1, <1>2, <1>3 DEF Next

\* The status of the process is that of the last exit, whoever exited: the
\* program, a shutdown function, a destructor, a generator's finally, an
\* exception handler; although request_shutdown and shutdown_generators both
\* put the status aside.
THEOREM ExitStatusIsTheLast == Spec => []LastExitWins
<1>1. Init => StatusInv
  <2> SUFFICES ASSUME Init PROVE StatusInv
    OBVIOUS
  <2>1. todo = <<Do("main")>> /\ parked = 0 /\ last = exit /\ exit \in Nat
    BY DEF Init
  <2>2. todo \in Seq({Do("main")}) /\ Len(todo) = 1 /\ todo # <<>> /\ todo[1] = Do("main")
    BY <2>1
  <2>3. \E S : todo \in Seq(S)
    BY <2>2
  <2>4. Shape(todo)
    BY <2>2, <2>3, Fields DEF Shape, LastStep, Phases, Unparked
  <2> QED
    BY <2>1, <2>4 DEF StatusInv, Status
<1>2. StatusInv => LastExitWins
  <2> SUFFICES ASSUME StatusInv, At("over") PROVE exit = last
    BY DEF LastExitWins
  <2>1. LastStep(todo) = "over"
    BY PhaseAlone DEF StatusInv, At, Inner
  <2> QED
    BY <2>1 DEF StatusInv, Status, Unparked
<1> QED
  BY <1>1, <1>2, StatusStep, PTL DEF Spec

-----------------------------------------------------------------------------
(* How `todo` moves: inside a call, or from phase to phase.                *)

LEMMA PutIs ==
  ASSUME Shape(todo), NEW T, NEW ops \in Seq(T), Then(ops)
  PROVE  /\ Len(ops) \in Nat /\ Len(todo) \in Nat \ {0} /\ Head(todo) = todo[1]
         /\ Len(todo') = Len(ops) + Len(todo) - 1
         /\ \A i \in 1 .. Len(ops) : todo'[i] = ops[i]
         /\ \A k \in 2 .. Len(todo) : todo'[Len(ops) + k - 1] = todo[k]
<1>1. PICK S : todo \in Seq(S)
  BY DEF Shape
<1> DEFINE U == S \cup T
           t == Tail(todo)
<1>2. ops \in Seq(U) /\ todo \in Seq(U)
  BY <1>1
<1>3. Len(todo) \in Nat \ {0} /\ Head(todo) = todo[1]
  BY <1>1, EmptySeq DEF Shape
<1>4. /\ t \in Seq(U) /\ Len(t) = Len(todo) - 1
      /\ \A i \in 1 .. Len(t) : t[i] = todo[i + 1]
  BY <1>2, <1>3
<1> HIDE DEF U, t
<1>5. Len(t) \in Nat /\ Len(ops) \in Nat
  BY <1>2, <1>4, LenProperties
<1>6. todo' = ops \o t
  BY DEF Then, t
<1>7. /\ Len(ops \o t) = Len(ops) + Len(t)
      /\ \A i \in 1 .. Len(ops) + Len(t) :
           (ops \o t)[i] = IF i <= Len(ops) THEN ops[i] ELSE t[i - Len(ops)]
  BY <1>2, <1>4, ConcatProperties
<1>8. \A i \in 1 .. Len(ops) : todo'[i] = ops[i]
  BY <1>5, <1>6, <1>7
<1>9. ASSUME NEW k \in 2 .. Len(todo)
      PROVE  todo'[Len(ops) + k - 1] = todo[k]
  <2>1. /\ k - 1 \in 1 .. Len(t) /\ Len(ops) + k - 1 \in 1 .. Len(ops) + Len(t)
        /\ ~(Len(ops) + k - 1 <= Len(ops)) /\ (Len(ops) + k - 1) - Len(ops) = k - 1
        /\ k - 1 + 1 = k
    BY <1>3, <1>4, <1>5
  <2>2. todo'[Len(ops) + k - 1] = t[k - 1]
    BY <1>6, <1>7, <2>1
  <2> QED
    BY <1>4, <2>1, <2>2
<1>10. Len(todo') = Len(ops) + Len(todo) - 1
  BY <1>3, <1>4, <1>5, <1>6, <1>7
<1> QED
  BY <1>3, <1>5, <1>8, <1>9, <1>10

LEMMA HeadIs ==
  ASSUME Shape(todo)
  PROVE  Len(todo) \in Nat \ {0} /\ Head(todo) = todo[1] /\ todo # <<>>
<1>1. PICK S : todo \in Seq(S)
  BY DEF Shape
<1> QED
  BY <1>1, EmptySeq DEF Shape

\* The steps taken inside a call.
InsideStep ==
  CodeEnds \/ Report \/ Free \/ Children \/ Child \/ Destruct \/ (AfterDestructor /\ ~failed /\ ~Raised)

\* What they put before the rest of it.
Added(i, op) ==
  \/ Report /\ ((i = 1 /\ op = To("code", 0)) \/ op = Do("reported"))
  \/ Free /\ Subject \notin freed /\ ((i = 1 /\ op = To("destruct", Subject)) \/ op = To("children", Subject))
  \/ Children /\ op.step = "child" /\ op.obj \in objects[Subject].holds
  \/ Child /\ i = 1 /\ op = To("free", Subject) /\ Subject \notin freed /\ Refs(Subject) = 0
  \/ Destruct /\ ((i = 1 /\ op = To("code", Subject)) \/ op = To("escape", Subject))
  \/ AfterDestructor /\ thrown /\ (op = Do("report") \/ op = Do("escaped"))

LEMMA Puts ==
  ASSUME StatusInv, Head(todo).step \notin Phases, NEW T, NEW ops \in Seq(T), Then(ops),
         \A i \in 1 .. Len(ops) : ops[i].step \in Inner /\ Added(i, ops[i])
  PROVE  /\ Shape(todo') /\ Len(todo) > 1
         /\ todo'[Len(todo')] = todo[Len(todo)]
         /\ \A k \in 2 .. Len(todo) : \E i \in 1 .. Len(todo') : todo'[i] = todo[k]
         /\ \A i \in 1 .. Len(todo') :
              (\E k \in 2 .. Len(todo) : todo'[i] = todo[k]) \/ Added(i, todo'[i])
         /\ \A i \in 1 .. Len(ops) : i \in 1 .. Len(todo') /\ todo'[i] = ops[i]
<1>1. Shape(todo) /\ Len(todo) > 1
  BY CallNotAlone DEF StatusInv
<1>2. Shape(todo')
  BY <1>1, InACall
<1>3. /\ Len(ops) \in Nat /\ Len(todo) \in Nat \ {0}
      /\ Len(todo') = Len(ops) + Len(todo) - 1
      /\ \A i \in 1 .. Len(ops) : todo'[i] = ops[i]
      /\ \A k \in 2 .. Len(todo) : todo'[Len(ops) + k - 1] = todo[k]
  BY <1>1, PutIs
<1> HIDE DEF Then
<1>4. todo'[Len(todo')] = todo[Len(todo)]
  <2>1. Len(todo) \in 2 .. Len(todo) /\ Len(ops) + Len(todo) - 1 = Len(todo')
    BY <1>1, <1>3
  <2> QED
    BY <1>3, <2>1
<1>5. ASSUME NEW k \in 2 .. Len(todo)
      PROVE  \E i \in 1 .. Len(todo') : todo'[i] = todo[k]
  <2>1. Len(ops) + k - 1 \in 1 .. Len(todo')
    BY <1>3
  <2> QED
    BY <1>3, <2>1
<1>6. ASSUME NEW i \in 1 .. Len(todo')
      PROVE  (\E k \in 2 .. Len(todo) : todo'[i] = todo[k]) \/ Added(i, todo'[i])
  <2>1. CASE i <= Len(ops)
    <3>1. i \in 1 .. Len(ops)
      BY <1>3, <2>1
    <3> QED
      BY <1>3, <3>1
  <2>2. CASE i > Len(ops)
    <3> DEFINE k == i - Len(ops) + 1
    <3>1. k \in 2 .. Len(todo) /\ Len(ops) + k - 1 = i
      BY <1>3, <2>2
    <3> QED
      BY <1>3, <3>1
  <2> QED
    BY <1>3, <2>1, <2>2
<1>7. \A i \in 1 .. Len(ops) : i \in 1 .. Len(todo') /\ todo'[i] = ops[i]
  BY <1>1, <1>3
<1> QED
  BY <1>1, <1>2, <1>4, <1>5, <1>6, <1>7

LEMMA InsideIs ==
  ASSUME StatusInv, InsideStep
  PROVE  /\ Shape(todo') /\ Len(todo) > 1
         /\ todo'[Len(todo')] = todo[Len(todo)]
         /\ \A k \in 2 .. Len(todo) : \E i \in 1 .. Len(todo') : todo'[i] = todo[k]
         /\ \A i \in 1 .. Len(todo') :
              (\E k \in 2 .. Len(todo) : todo'[i] = todo[k]) \/ Added(i, todo'[i])
         /\ AfterDestructor /\ thrown => \E i \in 1 .. Len(todo') : todo'[i].step = "escaped"
         /\ Free /\ Subject \notin freed => todo'[1] = To("destruct", Subject)
<1> DEFINE Goal ==
             /\ Shape(todo') /\ Len(todo) > 1
             /\ todo'[Len(todo')] = todo[Len(todo)]
             /\ \A k \in 2 .. Len(todo) : \E i \in 1 .. Len(todo') : todo'[i] = todo[k]
             /\ \A i \in 1 .. Len(todo') :
                  (\E k \in 2 .. Len(todo) : todo'[i] = todo[k]) \/ Added(i, todo'[i])
<1> USE Fields DEF Inner
<1>0. Head(todo).step \notin Phases
  BY DEF InsideStep, CodeEnds, Report, Free, Children, Child, Destruct, AfterDestructor, At, Phases, Unparked
<1>a. ASSUME Then(<<>>) PROVE Goal
  <2>1. <<>> \in Seq({}) /\ Len(<<>>) = 0
    OBVIOUS
  <2>2. \A i \in 1 .. Len(<<>>) : <<>>[i].step \in Inner /\ Added(i, <<>>[i])
    BY <2>1
  <2> QED
    BY <1>0, <1>a, <2>1, <2>2, Puts
<1>b. ASSUME NEW op, op.step \in Inner, Added(1, op), Then(<<op>>) PROVE Goal
  <2> DEFINE ops == << op >>
  <2>1. ops \in Seq({op}) /\ Len(ops) = 1 /\ ops[1] = op /\ Then(ops)
    BY <1>b
  <2> HIDE DEF ops
  <2>2. \A i \in 1 .. Len(ops) : ops[i].step \in Inner /\ Added(i, ops[i])
    <3>1. \A i \in 1 .. Len(ops) : i = 1
      BY <2>1
    <3> QED
      BY <1>b, <2>1, <3>1
  <2> QED
    BY <1>0, <2>1, <2>2, Puts
<1>c. ASSUME NEW call, call.step \in Inner, Added(1, call), NEW op, op.step \in Inner, Added(2, op),
             Then(<<call, op>>)
      PROVE  Goal /\ todo'[1] = call /\ 2 \in 1 .. Len(todo') /\ todo'[2] = op
  <2> DEFINE ops == <<call, op>>
  <2>1. ops \in Seq({call, op}) /\ Len(ops) = 2 /\ ops[1] = call /\ ops[2] = op /\ Then(ops)
    BY <1>c
  <2> HIDE DEF ops
  <2>2. \A i \in 1 .. Len(ops) : ops[i].step \in Inner /\ Added(i, ops[i])
    <3>1. \A i \in 1 .. Len(ops) : i = 1 \/ i = 2
      BY <2>1
    <3> QED
      BY <1>c, <2>1, <3>1
  <2>3. 1 \in 1 .. Len(ops) /\ 2 \in 1 .. Len(ops)
    BY <2>1
  <2>4. Goal /\ \A i \in 1 .. Len(ops) : i \in 1 .. Len(todo') /\ todo'[i] = ops[i]
    BY <1>0, <2>1, <2>2, Puts
  <2> QED
    BY <2>1, <2>3, <2>4
<1> HIDE DEF Goal
<1>1. CASE CodeEnds
  <2>1. ~Free /\ ~AfterDestructor
    BY <1>1 DEF CodeEnds, Free, AfterDestructor, At
  <2> QED
    BY <1>1, <1>a, <2>1 DEF CodeEnds, Goal
<1>2. CASE Report
  <2>1. ~Free /\ ~AfterDestructor
    BY <1>2 DEF Report, Free, AfterDestructor, At
  <2>2. CASE Call(0, Do("reported"))
    <3>1. Then(<<To("code", 0), Do("reported")>>)
      BY <2>2 DEF Call
    <3>2. Added(1, To("code", 0)) /\ Added(2, Do("reported"))
      BY <1>2 DEF Added
    <3>3. Goal
      BY <1>c, <3>1, <3>2
    <3> QED
      BY <2>1, <3>3 DEF Goal
  <2>3. CASE Then(<<>>)
    BY <1>a, <2>1, <2>3 DEF Goal
  <2> QED
    BY <1>2, <2>2, <2>3 DEF Report
<1>3. CASE Free
  <2>1. ~AfterDestructor
    BY <1>3 DEF Free, AfterDestructor, At
  <2>2. CASE Subject \in freed
    <3>1. Then(<<>>)
      BY <1>3, <2>2 DEF Free
    <3> QED
      BY <1>a, <2>1, <2>2, <3>1 DEF Goal
  <2>3. CASE Subject \notin freed
    <3>1. Then(<<To("destruct", Subject), To("children", Subject)>>)
      BY <1>3, <2>3 DEF Free
    <3>2. Added(1, To("destruct", Subject)) /\ Added(2, To("children", Subject))
      BY <1>3, <2>3 DEF Added
    <3>3. Goal /\ todo'[1] = To("destruct", Subject)
      BY <1>c, <3>1, <3>2
    <3> QED
      BY <2>1, <3>3 DEF Goal
  <2> QED
    BY <2>2, <2>3
<1>4. CASE Children
  <2>0. ~Free /\ ~AfterDestructor
    BY <1>4 DEF Children, Free, AfterDestructor, At
  <2>1. PICK n \in 0 .. MaxObjects : \E held \in Bijection(1 .. n, objects[Subject].holds) :
          Then([i \in DOMAIN held |-> To("child", held[i])])
    BY <1>4 DEF Children
  <2>2. PICK held \in Bijection(1 .. n, objects[Subject].holds) :
          Then([i \in DOMAIN held |-> To("child", held[i])])
    BY <2>1
  <2> DEFINE T == {To("child", o) : o \in objects[Subject].holds}
             ops == [i \in DOMAIN held |-> To("child", held[i])]
  <2>3. held \in [1 .. n -> objects[Subject].holds]
    BY DEF Bijection, Injection
  <2>4. n \in Nat
    BY <2>1, RequestEndAssumption
  <2>5. ops \in [1 .. n -> T]
    BY <2>3
  <2>6. ops \in Seq(T)
    BY <2>4, <2>5
  <2>7. \A i \in 1 .. Len(ops) : ops[i].step \in Inner /\ Added(i, ops[i])
    <3>1. DOMAIN ops = 1 .. Len(ops)
      BY <2>6
    <3>2. ASSUME NEW i \in 1 .. Len(ops) PROVE ops[i].step = "child" /\ ops[i].obj \in objects[Subject].holds
      BY <2>3, <3>1 DEF To
    <3> QED
      BY <1>4, <3>2 DEF Added
  <2>8. Then(ops)
    BY <2>2
  <2> HIDE DEF T, ops
  <2>9. Goal
    BY <1>0, <2>6, <2>7, <2>8, Puts DEF Goal
  <2> QED
    BY <2>0, <2>9 DEF Goal
<1>5. CASE Child
  <2>1. ~Free /\ ~AfterDestructor
    BY <1>5 DEF Child, Free, AfterDestructor, At
  <2>2. CASE Subject \notin freed /\ Refs(Subject) = 0
    <3>1. Then(<<To("free", Subject)>>)
      BY <1>5, <2>2 DEF Child
    <3>2. Added(1, To("free", Subject))
      BY <1>5, <2>2 DEF Added
    <3>3. Goal
      BY <1>b, <3>1, <3>2
    <3> QED
      BY <2>1, <3>3 DEF Goal
  <2>3. CASE ~(Subject \notin freed /\ Refs(Subject) = 0)
    <3>1. Then(<<>>)
      BY <1>5, <2>3 DEF Child
    <3> QED
      BY <1>a, <2>1, <3>1 DEF Goal
  <2> QED
    BY <2>2, <2>3
<1>6. CASE Destruct
  <2>1. ~Free /\ ~AfterDestructor
    BY <1>6 DEF Destruct, Free, AfterDestructor, At
  <2>2. CASE Then(<<To("code", Subject), To("escape", Subject)>>)
    <3>1. Added(1, To("code", Subject)) /\ Added(2, To("escape", Subject))
      BY <1>6 DEF Added
    <3>2. Goal
      BY <1>c, <2>2, <3>1
    <3> QED
      BY <2>1, <3>2 DEF Goal
  <2>3. CASE Then(<<>>)
    BY <1>a, <2>1, <2>3 DEF Goal
  <2> QED
    BY <1>6, <2>2, <2>3 DEF Destruct, Call
<1>7. CASE AfterDestructor /\ ~failed /\ ~Raised
  <2>1. ~Free
    BY <1>7 DEF Free, AfterDestructor, At
  <2>2. CASE thrown
    <3>1. Then(<<Do("report"), Do("escaped")>>)
      BY <1>7, <2>2 DEF AfterDestructor, Escapes
    <3>2. Added(1, Do("report")) /\ Added(2, Do("escaped"))
      BY <1>7, <2>2 DEF Added
    <3>3. Goal /\ 2 \in 1 .. Len(todo') /\ todo'[2] = Do("escaped")
      BY <1>c, <3>1, <3>2
    <3> QED
      BY <2>1, <3>3 DEF Goal
  <2>3. CASE ~thrown
    <3>1. Then(<<>>)
      BY <1>7, <2>3 DEF AfterDestructor
    <3> QED
      BY <1>a, <2>1, <2>3, <3>1 DEF Goal
  <2> QED
    BY <2>2, <2>3
<1> QED
  BY <1>1, <1>2, <1>3, <1>4, <1>5, <1>6, <1>7 DEF InsideStep

\* What the phases of the request go on with.
Onto(step) ==
  \/ MainEnds /\ step \in {"handled", "uncaught", "shutdown", "generators"}
  \/ Handled /\ step \in {"uncaught", "shutdown"}
  \/ Uncaught /\ step = "shutdown"
  \/ Shutdown /\ step = "function"
  \/ ShutdownFn /\ step \in {"after", "destructors"}
  \/ AfterFn /\ ~Cut /\ step \in {"escaped", "destructors", "function"}
  \/ (AfterFn \/ Escaped \/ AfterDestructor) /\ Cut /\ step = "restore"
  \/ Destructors /\ step = (IF result \in {"ok", "uncaught"} /\ ~off THEN "pass" ELSE "restore")
  \/ Pass /\ step = "next"
  \/ NextGlobal /\ step \in {"pass", "rest", "next", "again"}
  \/ Rest /\ step = (IF Subject > count THEN "restore" ELSE "rest")
  \/ Restore /\ step = "generators"
  \/ Generators /\ step = "generator"
  \/ Generator /\ step \in {"generator", "destroyed", "unwound"}
  \/ AfterGenerator /\ step = "generator"
  \/ GeneratorsEnd /\ step = "over"

\* What they call.
From(call, op) ==
  \/ (MainEnds \/ ShutdownFn) /\ call = To("code", 0)
  \/ (MainEnds \/ Handled \/ AfterFn) /\ call = Do("report")
  \/ /\ NextGlobal /\ op.step = "again"
     /\ \E held \in Newest(Head(todo).list) : call = To("free", held[2])
  \/ Rest /\ Subject \notin freed /\ ~(Subject > count) /\ call = To("destruct", Subject)
  \/ /\ Generator /\ Subject <= count /\ objects[Subject].kind = "generator"
     /\ call = To("code", Subject)

Ahead ==
  \/ Len(todo') = 1
  \/ Len(todo') = 2 /\ From(todo'[1], todo'[2])

LEMMA OneAhead ==
  ASSUME NEW op, todo' = << op >>
  PROVE  Len(todo') = 1 /\ todo'[1] = op /\ Head(todo') = op /\ LastStep(todo') = op.step
BY DEF LastStep

LEMMA TwoAhead ==
  ASSUME NEW call, NEW op, todo' = << call, op >>
  PROVE  Len(todo') = 2 /\ todo'[1] = call /\ todo'[2] = op /\ Head(todo') = call /\ LastStep(todo') = op.step
BY DEF LastStep

LEMMA PhaseIs ==
  ASSUME StatusInv, Host, ~InsideStep
  PROVE  Ahead /\ Onto(LastStep(todo'))
<1> DEFINE Goal == Ahead /\ Onto(LastStep(todo'))
<1> USE Fields DEF At
<1>s. ASSUME NEW op, todo' = << op >>, Onto(op.step) PROVE Goal
  BY <1>s, OneAhead DEF Ahead
<1>d. ASSUME NEW call, NEW op, todo' = << call, op >>, Onto(op.step), From(call, op) PROVE Goal
  BY <1>d, TwoAhead DEF Ahead
<1>k. ASSUME NEW step, Skip(step), Onto(step) PROVE Goal
  BY <1>k, <1>s DEF Skip
<1>o. ASSUME Head(todo).step \notin Inner
      PROVE  /\ \A op : Then(<<op>>) => todo' = <<op>>
             /\ \A call, op : Then(<<call, op>>) => todo' = <<call, op>>
  BY <1>o, Onwards DEF StatusInv
<1>c. ASSUME AfterFn \/ Escaped \/ AfterDestructor, Cut PROVE Goal
  BY <1>c, <1>k DEF Cut, Onto
<1> SUFFICES Goal
  OBVIOUS
<1> HIDE DEF Goal
<1>1. CASE MainEnds
  <2>0. Head(todo).step \notin Inner
    BY <1>1 DEF MainEnds, Inner
  <2>1. CASE Call(0, Do("handled"))
    <3>1. todo' = <<To("code", 0), Do("handled")>>
      BY <1>o, <2>0, <2>1 DEF Call
    <3>2. From(To("code", 0), Do("handled")) /\ Onto("handled")
      BY <1>1 DEF From, Onto
    <3> QED
      BY <1>d, <3>1, <3>2
  <2>2. CASE Then(<<Do("report"), Do("uncaught")>>)
    <3>1. todo' = <<Do("report"), Do("uncaught")>>
      BY <1>o, <2>0, <2>2
    <3>2. From(Do("report"), Do("uncaught")) /\ Onto("uncaught")
      BY <1>1 DEF From, Onto
    <3> QED
      BY <1>d, <3>1, <3>2
  <2>3. CASE Skip("shutdown") \/ Skip("generators")
    <3>1. Onto("shutdown") /\ Onto("generators")
      BY <1>1 DEF Onto
    <3> QED
      BY <1>k, <2>3, <3>1
  <2> QED
    BY <1>1, <2>1, <2>2, <2>3 DEF MainEnds
<1>2. CASE Handled
  <2>0. Head(todo).step \notin Inner
    BY <1>2 DEF Handled, Inner
  <2>1. Onto("uncaught") /\ Onto("shutdown") /\ From(Do("report"), Do("uncaught"))
    BY <1>2 DEF From, Onto
  <2>2. CASE Then(<<Do("report"), Do("uncaught")>>)
    <3>1. todo' = <<Do("report"), Do("uncaught")>>
      BY <1>o, <2>0, <2>2
    <3> QED
      BY <1>d, <2>1, <3>1
  <2>3. CASE Skip("shutdown")
    BY <1>k, <2>1, <2>3
  <2> QED
    BY <1>2, <2>2, <2>3 DEF Handled
<1>3. CASE Uncaught
  BY <1>3, <1>k DEF Uncaught, Onto
<1>4. CASE Shutdown
  <2>1. todo' = <<To("function", 1)>>
    BY <1>4, <1>o DEF Shutdown, Inner
  <2> QED
    BY <1>4, <1>s, <2>1 DEF Onto
<1>5. CASE ShutdownFn
  <2>0. Head(todo).step \notin Inner
    BY <1>5 DEF ShutdownFn, Inner
  <2>1. CASE Call(0, To("after", Subject))
    <3>1. todo' = <<To("code", 0), To("after", Subject)>>
      BY <1>o, <2>0, <2>1 DEF Call
    <3>2. From(To("code", 0), To("after", Subject)) /\ Onto("after")
      BY <1>5 DEF From, Onto
    <3> QED
      BY <1>d, <3>1, <3>2
  <2>2. CASE Then(<<Do("destructors")>>)
    <3>1. todo' = <<Do("destructors")>>
      BY <1>o, <2>0, <2>2
    <3> QED
      BY <1>5, <1>s, <3>1 DEF Onto
  <2> QED
    BY <1>5, <2>1, <2>2 DEF ShutdownFn
<1>6. CASE AfterFn /\ ~Cut
  <2>0. Head(todo).step \notin Inner
    BY <1>6 DEF AfterFn, Inner
  <2>1. CASE Then(<<Do("report"), Do("escaped")>>)
    <3>1. todo' = <<Do("report"), Do("escaped")>>
      BY <1>o, <2>0, <2>1
    <3>2. From(Do("report"), Do("escaped")) /\ Onto("escaped")
      BY <1>6 DEF From, Onto
    <3> QED
      BY <1>d, <3>1, <3>2
  <2>2. CASE Then(<<Do("destructors")>>) \/ Then(<<To("function", Subject + 1)>>)
    <3>1. todo' = <<Do("destructors")>> \/ todo' = <<To("function", Subject + 1)>>
      BY <1>o, <2>0, <2>2
    <3>2. Onto("destructors") /\ Onto("function")
      BY <1>6 DEF Onto
    <3> QED
      BY <1>s, <3>1, <3>2
  <2> QED
    BY <1>6, <2>1, <2>2 DEF AfterFn, Escapes
<1>7. CASE Escaped
  BY <1>7, <1>c DEF Escaped
<1>8. CASE Destructors
  <2> DEFINE s == IF result \in {"ok", "uncaught"} /\ ~off THEN "pass" ELSE "restore"
  <2>1. todo' = <<Do(s)>>
    BY <1>8, <1>o DEF Destructors, Inner
  <2>2. Onto(s)
    BY <1>8 DEF Onto
  <2> HIDE DEF s
  <2> QED
    BY <1>s, <2>1, <2>2
<1>9. CASE Pass
  <2> DEFINE op == [Do("next") EXCEPT !.list = HeldByGlobals]
  <2>1. op.step = "next" /\ Then(<<op>>)
    BY <1>9 DEF Pass, Do, To
  <2> HIDE DEF op
  <2>2. todo' = << op >>
    BY <1>9, <1>o, <2>1 DEF Pass, Inner
  <2> QED
    BY <1>9, <1>s, <2>1, <2>2 DEF Onto
<1>10. CASE NextGlobal
  <2>0. Head(todo).step \in {"next", "again"} /\ Head(todo).step \notin Inner
    BY <1>10 DEF NextGlobal, Inner
  <2>1. Onto("pass") /\ Onto("rest") /\ Onto("next") /\ Onto("again")
    BY <1>10 DEF Onto
  <2>2. CASE Then(<<Do("pass")>>) \/ Then(<<To("rest", 1)>>)
    <3>1. todo' = <<Do("pass")>> \/ todo' = <<To("rest", 1)>>
      BY <1>o, <2>0, <2>2
    <3> QED
      BY <1>s, <2>1, <3>1
  <2>3. ASSUME NEW list, Then(<<[Head(todo) EXCEPT !.list = list]>>) PROVE Goal
    <3> DEFINE op == [Head(todo) EXCEPT !.list = list]
    <3>1. op.step = Head(todo).step /\ Then(<<op>>)
      BY <2>0, <2>3
    <3> HIDE DEF op
    <3>2. todo' = << op >> /\ Onto(op.step)
      BY <1>o, <2>0, <2>1, <3>1
    <3> QED
      BY <1>s, <3>2
  <2>4. ASSUME NEW held \in Newest(Head(todo).list), NEW list,
               Then(<<To("free", held[2]), [Do("again") EXCEPT !.list = list]>>)
        PROVE  Goal
    <3> DEFINE op == [Do("again") EXCEPT !.list = list]
    <3>1. op.step = "again"
      BY DEF Do, To
    <3>2. Then(<<To("free", held[2]), op>>)
      BY <2>4
    <3> HIDE DEF op
    <3>3. todo' = <<To("free", held[2]), op>>
      BY <1>o, <2>0, <3>2
    <3>4. From(To("free", held[2]), op)
      BY <1>10, <3>1 DEF From
    <3> QED
      BY <1>d, <2>1, <3>1, <3>3, <3>4
  <2> QED
    BY <1>10, <2>2, <2>3, <2>4 DEF NextGlobal
<1>11. CASE Rest
  <2>0. Head(todo).step \notin Inner
    BY <1>11 DEF Rest, Inner
  <2>1. CASE Subject > count
    <3>1. todo' = <<Do("restore")>>
      BY <1>11, <1>o, <2>0, <2>1 DEF Rest
    <3>2. Onto("restore")
      BY <1>11, <2>1 DEF Onto
    <3> QED
      BY <1>s, <3>1, <3>2
  <2>2. CASE ~(Subject > count)
    <3>0. Onto("rest")
      BY <1>11, <2>2 DEF Onto
    <3>1. CASE Subject \in freed
      <4>1. todo' = <<To("rest", Subject + 1)>>
        BY <1>11, <1>o, <2>0, <2>2, <3>1 DEF Rest
      <4> QED
        BY <1>s, <3>0, <4>1
    <3>2. CASE Subject \notin freed
      <4>1. todo' = <<To("destruct", Subject), To("rest", Subject + 1)>>
        BY <1>11, <1>o, <2>0, <2>2, <3>2 DEF Rest
      <4>2. From(To("destruct", Subject), To("rest", Subject + 1))
        BY <1>11, <2>2, <3>2 DEF From
      <4> QED
        BY <1>d, <3>0, <4>1, <4>2
    <3> QED
      BY <3>1, <3>2
  <2> QED
    BY <2>1, <2>2
<1>12. CASE AfterDestructor /\ (failed \/ Raised)
  BY <1>12, <1>c DEF AfterDestructor, Raised
<1>13. CASE Restore
  <2>1. todo' = <<Do("generators")>>
    BY <1>13, <1>o DEF Restore, Inner
  <2> QED
    BY <1>13, <1>s, <2>1 DEF Onto
<1>14. CASE Generators
  <2>1. todo' = <<To("generator", 1)>>
    BY <1>14, <1>o DEF Generators, Inner
  <2> QED
    BY <1>14, <1>s, <2>1 DEF Onto
<1>15. CASE Generator
  <2>0. Head(todo).step \notin Inner
    BY <1>15 DEF Generator, Inner
  <2>1. Onto("generator") /\ Onto("destroyed") /\ Onto("unwound")
    BY <1>15 DEF Onto
  <2>2. CASE Then(<<To("generator", Subject + 1)>>) \/ Then(<<To("destroyed", Subject)>>)
    <3>1. todo' = <<To("generator", Subject + 1)>> \/ todo' = <<To("destroyed", Subject)>>
      BY <1>o, <2>0, <2>2
    <3> QED
      BY <1>s, <2>1, <3>1
  <2>3. CASE objects[Subject].kind = "generator" /\ Call(Subject, To("destroyed", Subject))
    <3>1. todo' = <<To("code", Subject), To("destroyed", Subject)>>
      BY <1>o, <2>0, <2>3 DEF Call
    <3>2. From(To("code", Subject), To("destroyed", Subject))
      BY <1>15, <2>3 DEF From, Generator
    <3> QED
      BY <1>d, <2>1, <3>1, <3>2
  <2>4. CASE objects[Subject].kind = "generator" /\ Call(Subject, To("unwound", Subject))
    <3>1. todo' = <<To("code", Subject), To("unwound", Subject)>>
      BY <1>o, <2>0, <2>4 DEF Call
    <3>2. From(To("code", Subject), To("unwound", Subject))
      BY <1>15, <2>4 DEF From, Generator
    <3> QED
      BY <1>d, <2>1, <3>1, <3>2
  <2> QED
    BY <1>15, <2>2, <2>3, <2>4 DEF Generator
<1>16. CASE AfterGenerator
  <2>1. todo' = <<To("generator", Subject + 1)>>
    BY <1>16, <1>o DEF AfterGenerator, Inner
  <2> QED
    BY <1>16, <1>s, <2>1 DEF Onto
<1>17. CASE GeneratorsEnd
  <2>1. todo' = <<Do("over")>>
    BY <1>17, <1>o DEF GeneratorsEnd, Inner
  <2> QED
    BY <1>17, <1>s, <2>1 DEF Onto
<1> QED
  BY <1>1, <1>2, <1>3, <1>4, <1>5, <1>6, <1>7, <1>8, <1>9, <1>10, <1>11, <1>12, <1>13, <1>14, <1>15,
     <1>16, <1>17, <1>c DEF Host, InsideStep

-----------------------------------------------------------------------------
(* The heap *)

Typed ==
  /\ objects \in Seq(Object) /\ Len(objects) <= MaxObjects
  /\ \A o \in Made : objects[o].holds \subseteq Made
  /\ global \in [Names -> 0 .. Len(objects)] /\ count \in 0 .. Len(objects)

LEMMA MadeIs ==
  ASSUME Typed
  PROVE  /\ Made = 1 .. Len(objects) /\ Len(objects) \in Nat /\ MaxObjects \in Nat
         /\ Made \subseteq Handles
         /\ \A o \in Made : objects[o] \in Object
<1>1. objects \in Seq(Object) /\ Len(objects) \in Nat /\ MaxObjects \in Nat /\ Len(objects) <= MaxObjects
  BY LenProperties, RequestEndAssumption DEF Typed
<1> QED
  BY <1>1 DEF Made, Handles

\* Objects stay what they are.
LEMMA HeapStep ==
  ASSUME Typed, [Next]_vars
  PROVE  /\ Typed' /\ Made \subseteq Made'
         /\ \A o \in Made : objects'[o].kind = objects[o].kind
<1> DEFINE Goal == /\ Typed' /\ Made \subseteq Made'
                   /\ \A o \in Made : objects'[o].kind = objects[o].kind
           n == Len(objects)
<1>0. /\ Made = 1 .. n /\ n \in Nat /\ MaxObjects \in Nat /\ n <= MaxObjects /\ Made \subseteq Handles
      /\ \A o \in Made : objects[o] \in Object
      /\ objects \in Seq(Object) /\ global \in [Names -> 0 .. n] /\ count \in 0 .. n
      /\ \A o \in Made : objects[o].holds \subseteq Made
  BY MadeIs DEF Typed
<1>a. ASSUME objects' = objects, global' \in [Names -> 0 .. n], count' \in 0 .. n
      PROVE  Goal
  BY <1>0, <1>a DEF Typed, Made
<1>1. CASE New
  <2>1. PICK kind \in Kinds : objects' = Append(objects, [kind |-> kind, holds |-> {}])
    BY <1>1 DEF New
  <2> DEFINE new == [kind |-> kind, holds |-> {}]
  <2>2. new \in Object /\ new.holds = {}
    BY DEF Object
  <2> HIDE DEF new
  <2>3. /\ objects' \in Seq(Object) /\ Len(objects') = n + 1 /\ objects'[n + 1] = new
        /\ \A o \in 1 .. n : objects'[o] = objects[o]
    BY <1>0, <2>1, <2>2, AppendProperties DEF new
  <2>4. Made' = 1 .. n + 1
    BY <2>3 DEF Made
  <2>5. n + 1 <= MaxObjects /\ count' = count
    BY <1>0, <1>1 DEF New, Act
  <2>6. global' \in [Names -> 0 .. n + 1]
    <3>1. PICK g \in Names : global' = [global EXCEPT ![g] = n + 1]
      BY <1>1 DEF New
    <3> QED
      BY <1>0, <3>1
  <2>7. \A o \in Made' : objects'[o].holds \subseteq Made'
    <3>1. ASSUME NEW o \in 1 .. n + 1 PROVE objects'[o].holds \subseteq 1 .. n + 1
      <4>1. CASE o = n + 1
        BY <2>2, <2>3, <4>1
      <4>2. CASE o \in 1 .. n
        BY <1>0, <2>3, <4>2
      <4> QED
        BY <1>0, <4>1, <4>2
    <3> QED
      BY <2>4, <3>1
  <2> QED
    BY <1>0, <2>3, <2>4, <2>5, <2>6, <2>7 DEF Typed
<1>2. CASE Store
  <2>1. PICK o, p \in Reachable : objects' = [objects EXCEPT ![p].holds = @ \cup {o}]
    BY <1>2 DEF Store
  <2>2. o \in Made /\ p \in Made
    BY DEF Reachable
  <2> DEFINE new == [objects[p] EXCEPT !.holds = @ \cup {o}]
  <2>3. new \in Object /\ new.holds = objects[p].holds \cup {o} /\ new.kind = objects[p].kind
    BY <1>0, <2>2 DEF Object
  <2>4. objects' = [objects EXCEPT ![p] = new]
    BY <2>1
  <2> HIDE DEF new
  <2>5. /\ objects' \in Seq(Object) /\ Len(objects') = n /\ objects'[p] = new
        /\ \A q \in 1 .. n : q # p => objects'[q] = objects[q]
    BY <1>0, <2>2, <2>3, <2>4
  <2>6. Made' = 1 .. n /\ count' = count /\ global' = global
    BY <1>2, <2>5 DEF Made, Store, Act
  <2>7. ASSUME NEW q \in 1 .. n
        PROVE  objects'[q].holds \subseteq 1 .. n /\ objects'[q].kind = objects[q].kind
    BY <1>0, <2>2, <2>3, <2>5
  <2> QED
    BY <1>0, <2>5, <2>6, <2>7 DEF Typed
<1>3. CASE Unset
  <2>1. objects' = objects /\ count' = count /\ \E g \in Names : global' = [global EXCEPT ![g] = 0]
    BY <1>3 DEF Unset, Act
  <2> QED
    BY <1>0, <1>a, <2>1
<1>4. CASE NextGlobal
  <2>1. objects' = objects /\ (count' = count \/ count' = n)
    BY <1>4 DEF NextGlobal
  <2>2. global' = global \/ \E g : global' = [global EXCEPT ![g] = 0]
    BY <1>4 DEF NextGlobal
  <2> QED
    BY <1>0, <1>a, <2>1, <2>2
<1>5. CASE Generators
  BY <1>0, <1>5, <1>a DEF Generators, heap
<1>6. CASE Register \/ Throw \/ Exit \/ Fail
  BY <1>0, <1>6, <1>a DEF Register, Throw, Exit, Fail, Act, heap
<1>7. CASE Host /\ ~NextGlobal /\ ~Generators
  <2>1. UNCHANGED <<objects, global, count>>
    BY <1>7 DEF Host, CodeEnds, MainEnds, Handled, Report, Uncaught, Shutdown, ShutdownFn, AfterFn, Escaped,
         Destructors, Pass, Free, Children, Child, Rest, Destruct, AfterDestructor, Restore, Generator,
         AfterGenerator, GeneratorsEnd, heap
  <2> QED
    BY <1>0, <1>a, <2>1
<1>8. CASE Terminated \/ UNCHANGED vars
  BY <1>0, <1>8, <1>a DEF Terminated, vars, heap
<1> QED
  BY <1>1, <1>2, <1>3, <1>4, <1>5, <1>6, <1>7, <1>8 DEF Next, Program

-----------------------------------------------------------------------------
(* Where the sweeps stand *)

\* A place in a list is one of the list, and what a pass looks at exists.
Ranged ==
  /\ LastStep(todo) \in {"rest", "generator", "destroyed"} => todo[Len(todo)].obj \in Nat \ {0}
  /\ LastStep(todo) \in {"next", "again"} => todo[Len(todo)].list \subseteq Names \X Made

LEMMA Moves ==
  ASSUME StatusInv, [Next]_vars
  PROVE  \/ todo' = todo /\ (Program \/ UNCHANGED vars)
         \/ InsideStep
         \/ Host /\ ~InsideStep
<1>1. Program => todo' = todo
  BY DEF Program, New, Store, Unset, Register, Throw, Exit, Fail, Act
<1> QED
  BY <1>1 DEF Next, Terminated, vars

\* What the innermost call is about.
LEMMA SubjectIs ==
  ASSUME StatusInv
  PROVE  /\ Len(todo) \in Nat \ {0} /\ todo # <<>> /\ Subject = todo[1].obj /\ 1 \in 1 .. Len(todo)
         /\ \A step : At(step) <=> todo[1].step = step
<1>1. Len(todo) \in Nat \ {0} /\ Head(todo) = todo[1] /\ todo # <<>>
  BY HeadIs DEF StatusInv
<1> QED
  BY <1>1 DEF Subject, At

LEMMA PhaseSubject ==
  ASSUME StatusInv, Head(todo).step \notin Inner
  PROVE  Head(todo) = todo[Len(todo)] /\ LastStep(todo) = Head(todo).step /\ Subject = todo[Len(todo)].obj
<1>1. Len(todo) = 1 /\ LastStep(todo) = Head(todo).step
  BY PhaseAlone DEF StatusInv
<1>2. Head(todo) = todo[1]
  BY SubjectIs, HeadIs DEF StatusInv
<1> QED
  BY <1>1, <1>2 DEF Subject

LEMMA RangedStep ==
  ASSUME StatusInv, Typed, Ranged, [Next]_vars
  PROVE  Ranged'
<1>1. Made \subseteq Made'
  BY HeapStep
<1>s. ASSUME NEW op, todo' = << op >>,
             op.step \in {"rest", "generator", "destroyed"} => op.obj \in Nat \ {0},
             op.step \in {"next", "again"} => op.list \subseteq Names \X Made
      PROVE  Ranged'
  <2>1. LastStep(todo') = op.step /\ todo'[Len(todo')] = op
    BY <1>s, OneAhead DEF LastStep
  <2> QED
    BY <1>1, <1>s, <2>1 DEF Ranged
<1>d. ASSUME NEW call, NEW op, todo' = << call, op >>,
             op.step \in {"rest", "generator", "destroyed"} => op.obj \in Nat \ {0},
             op.step \in {"next", "again"} => op.list \subseteq Names \X Made
      PROVE  Ranged'
  <2>1. LastStep(todo') = op.step /\ todo'[Len(todo')] = op
    BY <1>d, TwoAhead DEF LastStep
  <2> QED
    BY <1>1, <1>d, <2>1 DEF Ranged
<1>2. CASE todo'[Len(todo')] = todo[Len(todo)]
  BY <1>1, <1>2 DEF Ranged, LastStep
<1>3. CASE todo' = todo
  BY <1>2, <1>3
<1>4. CASE InsideStep
  BY <1>2, <1>4, InsideIs
<1>o. ASSUME Head(todo).step \notin Inner
      PROVE  /\ \A op : Then(<<op>>) => todo' = <<op>>
             /\ \A call, op : Then(<<call, op>>) => todo' = <<call, op>>
             /\ Head(todo) = todo[Len(todo)] /\ LastStep(todo) = Head(todo).step /\ Subject = todo[Len(todo)].obj
  BY <1>o, Onwards, PhaseSubject DEF StatusInv
<1>t. \A step, o : To(step, o).step = step /\ To(step, o).obj = o /\ To(step, o).list = {}
  BY DEF To
<1>5. CASE NextGlobal
  <2>0. Head(todo).step \in {"next", "again"} /\ Head(todo).step \notin Inner
    BY <1>5 DEF NextGlobal, At, Inner
  <2>1. Head(todo).list \subseteq Names \X Made
    BY <1>o, <2>0 DEF Ranged
  <2>2. CASE Then(<<Do("pass")>>)
    <3>1. Do("pass").step = "pass"
      BY Fields
    <3> QED
      BY <1>o, <1>s, <2>0, <2>2, <3>1
  <2>3. CASE Then(<<To("rest", 1)>>)
    BY <1>o, <1>s, <1>t, <2>0, <2>3
  <2>4. ASSUME NEW list, list \subseteq Head(todo).list, Then(<<[Head(todo) EXCEPT !.list = list]>>) PROVE Ranged'
    <3> DEFINE op == [Head(todo) EXCEPT !.list = list]
    <3>1. op.step = Head(todo).step /\ Then(<<op>>)
      BY <2>0, <2>4
    <3>2. op.list \subseteq Head(todo).list
      BY <2>4
    <3> HIDE DEF op
    <3> QED
      BY <1>o, <1>s, <2>0, <2>1, <3>1, <3>2
  <2>5. ASSUME NEW call, NEW list, list \subseteq Head(todo).list,
               Then(<<call, [Do("again") EXCEPT !.list = list]>>)
        PROVE  Ranged'
    <3> DEFINE op == [Do("again") EXCEPT !.list = list]
    <3>1. op.step = "again" /\ op.list = list
      BY DEF Do, To
    <3>2. Then(<<call, op>>)
      BY <2>5
    <3> HIDE DEF op
    <3> QED
      BY <1>d, <1>o, <2>0, <2>1, <2>5, <3>1, <3>2
  <2>6. \A held : Head(todo).list \ {held} \subseteq Head(todo).list
    OBVIOUS
  <2> QED
    BY <1>5, <2>2, <2>3, <2>4, <2>5, <2>6 DEF NextGlobal
<1>6. CASE Pass
  <2> DEFINE op == [Do("next") EXCEPT !.list = HeldByGlobals]
  <2>1. op.step = "next" /\ op.list = HeldByGlobals /\ Then(<<op>>)
    BY <1>6 DEF Pass, Do, To
  <2> HIDE DEF op
  <2>2. todo' = << op >>
    BY <1>6, <1>o, <2>1 DEF Pass, At, Inner
  <2>3. HeldByGlobals \subseteq Names \X Made
    <3>1. global \in [Names -> 0 .. Len(objects)] /\ Made = 1 .. Len(objects) /\ Len(objects) \in Nat
      BY MadeIs DEF Typed
    <3> QED
      BY <3>1 DEF HeldByGlobals
  <2> QED
    BY <1>s, <2>1, <2>2, <2>3
<1>7. CASE Rest
  <2>0. Head(todo).step \notin Inner /\ Head(todo).step = "rest"
    BY <1>7 DEF Rest, At, Inner
  <2>1. Subject \in Nat \ {0}
    BY <1>o, <2>0 DEF Ranged
  <2>2. CASE Then(<<Do("restore")>>)
    <3>1. Do("restore").step = "restore"
      BY Fields
    <3> QED
      BY <1>o, <1>s, <2>0, <2>2, <3>1
  <2>3. CASE Then(<<To("rest", Subject + 1)>>)
    BY <1>o, <1>s, <1>t, <2>0, <2>1, <2>3
  <2>4. CASE Then(<<To("destruct", Subject), To("rest", Subject + 1)>>)
    BY <1>d, <1>o, <1>t, <2>0, <2>1, <2>4
  <2> QED
    BY <1>7, <2>2, <2>3, <2>4 DEF Rest
<1>8. CASE Generators
  BY <1>8, <1>o, <1>s, <1>t DEF Generators, At, Inner
<1>9. CASE Generator
  <2>0. Head(todo).step \notin Inner /\ Head(todo).step = "generator"
    BY <1>9 DEF Generator, At, Inner
  <2>1. Subject \in Nat \ {0}
    BY <1>o, <2>0 DEF Ranged
  <2>2. CASE Then(<<To("generator", Subject + 1)>>) \/ Then(<<To("destroyed", Subject)>>)
    BY <1>o, <1>s, <1>t, <2>0, <2>1, <2>2
  <2>3. CASE Then(<<To("code", Subject), To("destroyed", Subject)>>)
    BY <1>d, <1>o, <1>t, <2>0, <2>1, <2>3
  <2>4. CASE Then(<<To("code", Subject), To("unwound", Subject)>>)
    BY <1>d, <1>o, <1>t, <2>0, <2>1, <2>4
  <2> QED
    BY <1>9, <2>2, <2>3, <2>4 DEF Generator, Call
<1>10. CASE AfterGenerator
  <2>0. Head(todo).step \notin Inner /\ Head(todo).step = "destroyed"
    BY <1>10 DEF AfterGenerator, At, Inner
  <2>1. Subject \in Nat \ {0}
    BY <1>o, <2>0 DEF Ranged
  <2> QED
    BY <1>10, <1>o, <1>s, <1>t, <2>0, <2>1 DEF AfterGenerator
<1>11. CASE Host /\ ~InsideStep /\ ~NextGlobal /\ ~Pass /\ ~Rest /\ ~Generators /\ ~Generator /\ ~AfterGenerator
  <2>1. Onto(LastStep(todo'))
    BY <1>11, PhaseIs
  <2>2. LastStep(todo') \notin {"rest", "generator", "destroyed", "next", "again"}
    BY <1>11, <2>1 DEF Onto
  <2> QED
    BY <2>2 DEF Ranged
<1> QED
  BY <1>3, <1>4, <1>5, <1>6, <1>7, <1>8, <1>9, <1>10, <1>11, Moves

-----------------------------------------------------------------------------
(* Where the calls of a sweep stand *)

Sweeping == LastStep(todo) \in {"next", "again", "rest"}

\* Only the innermost call runs code, frees or destructs; and what is freed
\* or destructed, a sweep has come to, but for the generators.
Placed ==
  /\ \A i \in 2 .. Len(todo) : todo[i].step \notin {"free", "destruct", "code"}
  /\ \A i \in 1 .. Len(todo) :
       todo[i].step \in {"free", "children", "child", "destruct"} => todo[i].obj \in Made /\ Sweeping
  /\ At("code") /\ Subject # 0 => Subject \in Made /\ (Sweeping \/ objects[Subject].kind = "generator")

\* The phases of the request go by different steps.
LEMMA PhaseOf ==
  ASSUME Rest, Onto(LastStep(todo'))
  PROVE  LastStep(todo') = IF Subject > count THEN "restore" ELSE "rest"
BY DEF Onto, Rest, At, MainEnds, Handled, Uncaught, Shutdown, ShutdownFn, AfterFn, Escaped, Destructors, Pass,
       NextGlobal, AfterDestructor, Restore, Generators, Generator, AfterGenerator, GeneratorsEnd

LEMMA PlacedStep ==
  ASSUME StatusInv, Typed, Ranged, Placed, [Next]_vars
  PROVE  Placed'
<1>0. /\ Len(todo) \in Nat \ {0} /\ Subject = todo[1].obj /\ 1 \in 1 .. Len(todo)
      /\ \A step : At(step) <=> todo[1].step = step
  BY SubjectIs
<1>1. /\ Made \subseteq Made' /\ \A o \in Made : objects'[o].kind = objects[o].kind
      /\ \A o \in Made : objects[o].holds \subseteq Made
  BY HeapStep DEF Typed
<1>2. StatusInv' /\ Len(todo') \in Nat \ {0} /\ Head(todo') = todo'[1] /\ todo' # <<>>
  <2>1. StatusInv' /\ Shape(todo')
    BY StatusStep DEF StatusInv
  <2>2. PICK S : todo' \in Seq(S)
    BY <2>1 DEF Shape
  <2> QED
    BY <2>1, <2>2, EmptySeq DEF Shape
<1>g. ASSUME /\ \A i \in 2 .. Len(todo') : todo'[i].step \notin {"free", "destruct", "code"},
             /\ \A i \in 1 .. Len(todo') :
                  todo'[i].step \in {"free", "children", "child", "destruct"} =>
                    todo'[i].obj \in Made /\ Sweeping',
             /\ todo'[1].step = "code" /\ todo'[1].obj # 0 =>
                  /\ todo'[1].obj \in Made
                  /\ Sweeping' \/ objects[todo'[1].obj].kind = "generator"
      PROVE  Placed'
  BY <1>1, <1>2, <1>g DEF Placed, At, Subject
<1>3. CASE todo' = todo
  <2>1. Sweeping' = Sweeping
    BY <1>3 DEF Sweeping, LastStep
  <2> QED
    BY <1>0, <1>3, <1>g, <2>1 DEF Placed
<1>4. CASE InsideStep
  <2>1. /\ todo'[Len(todo')] = todo[Len(todo)]
        /\ \A i \in 1 .. Len(todo') :
             (\E k \in 2 .. Len(todo) : todo'[i] = todo[k]) \/ Added(i, todo'[i])
    BY <1>4, InsideIs
  <2>2. Sweeping' = Sweeping
    BY <2>1 DEF Sweeping, LastStep
  <2>3. ASSUME NEW i, NEW op, Added(i, op)
        PROVE  /\ op.step \in {"free", "destruct", "code"} => i = 1
               /\ op.step \in {"free", "children", "child", "destruct"} => op.obj \in Made /\ Sweeping
               /\ op.step = "code" /\ op.obj # 0 => op.obj \in Made /\ Sweeping
    <3> USE DEF To, Do
    <3>1. CASE Report
      BY <1>0, <2>3, <3>1 DEF Added, Report, Free, Children, Child, Destruct, AfterDestructor
    <3>2. CASE Free
      <4>1. Subject \in Made /\ Sweeping
        BY <1>0, <3>2 DEF Free, Placed
      <4>2. (op = To("destruct", Subject) /\ i = 1) \/ op = To("children", Subject)
        BY <1>0, <2>3, <3>2 DEF Added, Report, Free, Children, Child, Destruct, AfterDestructor
      <4> QED
        BY <4>1, <4>2
    <3>3. CASE Children
      <4>1. Subject \in Made /\ Sweeping
        BY <1>0, <3>3 DEF Children, Placed
      <4>2. op.step = "child" /\ op.obj \in objects[Subject].holds
        BY <1>0, <2>3, <3>3 DEF Added, Report, Free, Children, Child, Destruct, AfterDestructor
      <4> QED
        BY <1>1, <4>1, <4>2
    <3>4. CASE Child
      <4>1. Subject \in Made /\ Sweeping
        BY <1>0, <3>4 DEF Child, Placed
      <4>2. op = To("free", Subject) /\ i = 1
        BY <1>0, <2>3, <3>4 DEF Added, Report, Free, Children, Child, Destruct, AfterDestructor
      <4> QED
        BY <4>1, <4>2
    <3>5. CASE Destruct
      <4>1. Subject \in Made /\ Sweeping
        BY <1>0, <3>5 DEF Destruct, Placed
      <4>2. (op = To("code", Subject) /\ i = 1) \/ op = To("escape", Subject)
        BY <1>0, <2>3, <3>5 DEF Added, Report, Free, Children, Child, Destruct, AfterDestructor
      <4> QED
        BY <4>1, <4>2
    <3>6. CASE AfterDestructor
      BY <1>0, <2>3, <3>6 DEF Added, Report, Free, Children, Child, Destruct, AfterDestructor
    <3> QED
      BY <2>3, <3>1, <3>2, <3>3, <3>4, <3>5, <3>6 DEF Added
  <2>4. \A i \in 2 .. Len(todo') : todo'[i].step \notin {"free", "destruct", "code"}
    <3> SUFFICES ASSUME NEW i \in 2 .. Len(todo') PROVE todo'[i].step \notin {"free", "destruct", "code"}
      OBVIOUS
    <3>1. i \in 1 .. Len(todo') /\ i # 1
      BY <1>2
    <3>2. CASE \E k \in 2 .. Len(todo) : todo'[i] = todo[k]
      BY <3>2 DEF Placed
    <3>3. CASE Added(i, todo'[i])
      BY <2>3, <3>1, <3>3
    <3> QED
      BY <2>1, <3>1, <3>2, <3>3
  <2>5. ASSUME NEW i \in 1 .. Len(todo'), todo'[i].step \in {"free", "children", "child", "destruct"}
        PROVE  todo'[i].obj \in Made /\ Sweeping'
    <3>1. CASE \E k \in 2 .. Len(todo) : todo'[i] = todo[k]
      <4>1. PICK k \in 2 .. Len(todo) : todo'[i] = todo[k]
        BY <3>1
      <4>2. k \in 1 .. Len(todo)
        BY <1>0
      <4> QED
        BY <2>2, <2>5, <4>1, <4>2 DEF Placed
    <3>2. CASE Added(i, todo'[i])
      BY <2>2, <2>3, <2>5, <3>2
    <3> QED
      BY <2>1, <3>1, <3>2
  <2>6. ASSUME todo'[1].step = "code", todo'[1].obj # 0
        PROVE  todo'[1].obj \in Made /\ Sweeping'
    <3>0. 1 \in 1 .. Len(todo')
      BY <1>2
    <3>1. ~\E k \in 2 .. Len(todo) : todo'[1] = todo[k]
      BY <2>6 DEF Placed
    <3> QED
      BY <2>1, <2>2, <2>3, <2>6, <3>0, <3>1
  <2> QED
    BY <1>g, <2>4, <2>5, <2>6
<1>5. CASE Host /\ ~InsideStep
  <2>1. Ahead /\ Onto(LastStep(todo')) /\ LastStep(todo') \in Phases
    <3>1. Shape(todo')
      BY <1>2 DEF StatusInv
    <3> QED
      BY <1>5, <3>1, PhaseIs DEF Shape
  <2>2. LastStep(todo') \notin {"free", "children", "child", "destruct", "code"}
    BY <2>1 DEF Phases, Unparked
  <2>3. CASE Len(todo') = 1
    BY <1>g, <2>2, <2>3 DEF LastStep
  <2>4. CASE Len(todo') = 2 /\ From(todo'[1], todo'[2])
    <3> DEFINE call == todo'[1]
               op == todo'[2]
    <3>1. LastStep(todo') = op.step
      BY <2>4 DEF LastStep
    <3>2. \A i \in 1 .. Len(todo') : i = 1 \/ i = 2
      BY <2>4
    <3>3. /\ call.step \in {"free", "children", "child", "destruct"} => call.obj \in Made /\ Sweeping'
          /\ call.step = "code" /\ call.obj # 0 =>
               call.obj \in Made /\ (Sweeping' \/ objects[call.obj].kind = "generator")
      <4> USE DEF To, Do
      <4>1. CASE call = To("code", 0) \/ call = Do("report")
        BY <4>1
      <4>2. CASE NextGlobal /\ op.step = "again" /\ \E held \in Newest(Head(todo).list) : call = To("free", held[2])
        <5>1. Sweeping'
          BY <3>1, <4>2 DEF Sweeping
        <5>2. Head(todo).list \subseteq Names \X Made
          <6>1. Head(todo).step \in {"next", "again"} /\ Head(todo).step \notin Inner
            BY <4>2 DEF NextGlobal, At, Inner
          <6> QED
            BY <6>1, PhaseSubject DEF Ranged
        <5>3. PICK held \in Newest(Head(todo).list) : call = To("free", held[2])
          BY <4>2
        <5>4. held[2] \in Made
          BY <5>2, <5>3 DEF Newest
        <5> HIDE DEF call
        <5> QED
          BY <5>1, <5>3, <5>4
      <4>3. CASE Rest /\ ~(Subject > count) /\ call = To("destruct", Subject)
        <5>1. Head(todo).step = "rest" /\ Head(todo).step \notin Inner
          BY <4>3 DEF Rest, At, Inner
        <5>2. Subject \in Nat \ {0}
          BY <5>1, PhaseSubject DEF Ranged
        <5>3. Subject \in Made
          BY <4>3, <5>2, MadeIs DEF Typed
        <5>4. Sweeping'
          BY <2>1, <4>3, PhaseOf DEF Sweeping
        <5> HIDE DEF call
        <5> QED
          BY <4>3, <5>3, <5>4
      <4>4. CASE Generator /\ Subject <= count /\ objects[Subject].kind = "generator" /\ call = To("code", Subject)
        <5>1. Head(todo).step = "generator" /\ Head(todo).step \notin Inner
          BY <4>4 DEF Generator, At, Inner
        <5>2. Subject \in Nat \ {0}
          BY <5>1, PhaseSubject DEF Ranged
        <5>3. Subject \in Made
          BY <4>4, <5>2, MadeIs DEF Typed
        <5> HIDE DEF call
        <5> QED
          BY <4>4, <5>3
      <4> QED
        BY <2>4, <4>1, <4>2, <4>3, <4>4 DEF From
    <3> QED
      BY <1>g, <2>2, <2>4, <3>1, <3>2, <3>3
  <2> QED
    BY <2>1, <2>3, <2>4 DEF Ahead
<1> QED
  BY <1>3, <1>4, <1>5, Moves

-----------------------------------------------------------------------------
(* After a fatal error *)

\* A sweep begins after a clean end or an uncaught exception, and what turns
\* the destructors off exits, which lasts until the sweep is over.
Clean ==
  /\ LastStep(todo) \in {"pass", "next", "again", "rest"} => result \in {"ok", "uncaught"} /\ (off => exit # 0)
  /\ LastStep(todo) \notin {"restore", "generators", "generator", "destroyed", "unwound", "over"} => sweep = "none"

LEMMA CleanStep ==
  ASSUME StatusInv, Clean, [Next]_vars
  PROVE  Clean'
<1>c. ASSUME LastStep(todo') = LastStep(todo), result' = result, sweep' = sweep, off' => off \/ exit' # 0,
             exit' = exit \/ exit' # 0
      PROVE  Clean'
  BY <1>c DEF Clean
<1>1. CASE todo' = todo /\ (Program \/ UNCHANGED vars)
  <2>1. LastStep(todo') = LastStep(todo)
    BY <1>1 DEF LastStep
  <2>2. CASE Exit
    <3>1. last \in Nat
      BY DEF StatusInv, Status
    <3>2. exit' # 0 /\ UNCHANGED request
      BY <2>2, <3>1 DEF Exit, Act
    <3> QED
      BY <1>c, <2>1, <3>2 DEF request
  <2>3. CASE ~Exit
    <3>1. UNCHANGED <<request, exit, off>>
      BY <1>1, <2>3 DEF Program, New, Store, Unset, Register, Throw, Fail, Act, vars, signals
    <3> QED
      BY <1>c, <2>1, <3>1 DEF request
  <2> QED
    BY <2>2, <2>3
<1>2. CASE InsideStep
  <2>1. LastStep(todo') = LastStep(todo)
    BY <1>2, InsideIs DEF LastStep
  <2>2. UNCHANGED <<result, sweep, off, exit>>
    BY <1>2 DEF InsideStep, CodeEnds, Report, Free, Children, Child, Destruct, AfterDestructor, TakeThrow, Escapes,
                Cut, signals, request
  <2> QED
    BY <1>c, <2>1, <2>2
<1>3. CASE Host /\ ~InsideStep
  <2>1. Onto(LastStep(todo'))
    BY <1>3, PhaseIs
  <2>p. Head(todo).step \notin Inner => LastStep(todo) = Head(todo).step
    BY PhaseSubject
  <2>2. CASE MainEnds \/ Handled \/ Uncaught \/ Shutdown \/ ShutdownFn \/ (AfterFn /\ ~Cut)
    <3>1. LastStep(todo) \in {"main", "handled", "uncaught", "shutdown", "function", "after"} /\ sweep' = sweep
      BY <2>2, <2>p DEF MainEnds, Handled, Uncaught, Shutdown, ShutdownFn, AfterFn, Escapes, At, Inner, request
    <3>2. LastStep(todo') \in {"handled", "uncaught", "shutdown", "generators", "function", "after", "destructors",
                               "escaped"}
      BY <2>1, <2>2, <2>p, <3>1 DEF Onto, Escaped, AfterDestructor, Destructors, Pass, NextGlobal, Rest, Restore,
           Generators, Generator, AfterGenerator, GeneratorsEnd, MainEnds, Handled, Uncaught, Shutdown, ShutdownFn,
           AfterFn, At
    <3> QED
      BY <3>1, <3>2 DEF Clean
  <2>3. CASE LastStep(todo') \in {"restore", "generators", "generator", "destroyed", "unwound", "over"}
    BY <2>3 DEF Clean
  <2>4. CASE Destructors
    <3>1. /\ LastStep(todo) = "destructors"
          /\ UNCHANGED <<result, sweep, off, exit>>
      BY <2>4, <2>p DEF Destructors, At, Inner, request, signals
    <3>2. LastStep(todo') = IF result \in {"ok", "uncaught"} /\ ~off THEN "pass" ELSE "restore"
      BY <2>1, <2>4 DEF Onto, Escaped, AfterDestructor, Destructors, Pass, NextGlobal, Rest, Restore,
           Generators, Generator, AfterGenerator, GeneratorsEnd, MainEnds, Handled, Uncaught, Shutdown, ShutdownFn,
           AfterFn, At
    <3> QED
      BY <3>1, <3>2 DEF Clean
  <2>5. CASE Pass \/ NextGlobal \/ Rest
    <3>1. Head(todo).step \in {"pass", "next", "again", "rest"} /\ LastStep(todo) = Head(todo).step
      BY <2>5, <2>p DEF Pass, NextGlobal, Rest, At, Inner
    <3>2. UNCHANGED <<result, off, exit>> /\ (sweep' = sweep \/ LastStep(todo') = "restore")
      BY <2>1, <2>5, PhaseOf DEF Pass, NextGlobal, Rest, request, signals
    <3> QED
      BY <2>3, <3>1, <3>2 DEF Clean
  <2>6. CASE Cut /\ (AfterFn \/ Escaped \/ AfterDestructor)
    <3>1. LastStep(todo') = "restore"
      <4>1. todo' = << Do("restore") >>
        BY <2>6 DEF Cut, Skip
      <4> QED
        BY <4>1, OneAhead, Fields
    <3> QED
      BY <2>3, <3>1
  <2>7. CASE Restore \/ Generators \/ Generator \/ AfterGenerator \/ GeneratorsEnd
    <3>1. LastStep(todo') \in {"generators", "generator", "destroyed", "unwound", "over"}
      BY <2>1, <2>7 DEF Onto, Escaped, AfterDestructor, Destructors, Pass, NextGlobal, Rest, Restore,
           Generators, Generator, AfterGenerator, GeneratorsEnd, MainEnds, Handled, Uncaught, Shutdown, ShutdownFn,
           AfterFn, At
    <3> QED
      BY <2>3, <3>1
  <2> QED
    BY <1>3, <2>2, <2>4, <2>5, <2>6, <2>7 DEF Host, InsideStep, Escaped, AfterDestructor, Raised
<1> QED
  BY <1>1, <1>2, <1>3, Moves

-----------------------------------------------------------------------------
(* What a sweep has come to *)

Settled(o) == ~Due(o) \/ (At("destruct") /\ Subject = o)

\* What is freed is destructed next; and so is what creation order passes by.
Reached ==
  /\ \A o \in freed : o \in Made /\ Settled(o)
  /\ LastStep(todo) = "rest" => \A o \in 1 .. count : o < todo[Len(todo)].obj => Settled(o)
  /\ LastStep(todo) = "restore" /\ sweep = "whole" => \A o \in 1 .. count : ~Due(o)

LEMMA HeadOf ==
  ASSUME NEW t, Shape(t)
  PROVE  Head(t) = t[1] /\ t # <<>>
<1>1. PICK S : t \in Seq(S)
  BY DEF Shape
<1> QED
  BY <1>1, EmptySeq DEF Shape

LEMMA SpentStays ==
  ASSUME [Next]_vars
  PROVE  spent \subseteq spent'
<1>1. CASE Destruct \/ Generator
  BY <1>1 DEF Destruct, Generator, Begin
<1>2. CASE Program
  BY <1>2 DEF Program, New, Store, Unset, Register, Throw, Exit, Fail, Act
<1>3. CASE Host /\ ~Destruct /\ ~Generator
  BY <1>3 DEF Host, CodeEnds, MainEnds, Handled, Report, Uncaught, Shutdown, ShutdownFn, AfterFn, Escaped,
       Destructors, Pass, NextGlobal, Free, Children, Child, Rest, AfterDestructor, Restore, Generators,
       AfterGenerator, GeneratorsEnd
<1>4. CASE Terminated \/ UNCHANGED vars
  BY <1>4 DEF Terminated, vars
<1> QED
  BY <1>1, <1>2, <1>3, <1>4 DEF Next

LEMMA SettledStays ==
  ASSUME StatusInv, Typed, [Next]_vars, NEW o \in Made, Settled(o)
  PROVE  Settled(o)' /\ (~Due(o) => ~Due(o)')
<1>1. spent \subseteq spent' /\ objects'[o].kind = objects[o].kind
  BY SpentStays, HeapStep
<1>2. ~Due(o) => ~Due(o)'
  BY <1>1 DEF Due
<1>3. CASE Due(o) /\ At("destruct") /\ Subject = o
  <2>1. CASE Destruct
    <3>1. o \in spent'
      BY <1>3, <2>1 DEF Destruct, Begin
    <3> QED
      BY <1>2, <3>1 DEF Due, Settled
  <2>2. CASE UNCHANGED vars
    <3>1. todo' = todo
      BY <2>2 DEF vars
    <3> QED
      BY <1>2, <1>3, <3>1 DEF Settled, At, Subject
  <2>3. ~Program /\ ~Terminated
    BY <1>3 DEF Program, New, Store, Unset, Register, Throw, Exit, Fail, Act, Code, At, Terminated
  <2>4. Host => Destruct
    BY <1>3 DEF Host, CodeEnds, MainEnds, Handled, Report, Uncaught, Shutdown, ShutdownFn, AfterFn, Escaped,
         Destructors, Pass, NextGlobal, Free, Children, Child, Rest, AfterDestructor, Restore, Generators,
         Generator, AfterGenerator, GeneratorsEnd, At
  <2> QED
    BY <2>1, <2>2, <2>3, <2>4 DEF Next
<1> QED
  BY <1>2, <1>3 DEF Settled

LEMMA ReachedStep ==
  ASSUME StatusInv, Typed, Ranged, Placed, Clean, Reached, [Next]_vars
  PROVE  Reached'
<1>0. /\ Made \subseteq Made' /\ Made = 1 .. Len(objects) /\ Len(objects) \in Nat /\ count \in 0 .. Len(objects)
      /\ StatusInv'
  BY HeapStep, MadeIs, StatusStep DEF Typed
<1>f. \A o \in freed' : o \in Made' /\ Settled(o)'
  <2>1. ASSUME NEW o \in freed PROVE o \in Made' /\ Settled(o)'
    BY <1>0, <2>1, SettledStays DEF Reached
  <2>2. CASE freed' = freed
    BY <2>1, <2>2
  <2>3. CASE Free /\ Subject \notin freed
    <3>1. freed' = freed \cup {Subject} /\ todo'[1] = To("destruct", Subject) /\ At("free")
      <4>1. InsideStep
        BY <2>3 DEF InsideStep
      <4> QED
        BY <2>3, <4>1, InsideIs DEF Free
    <3>2. PICK s : s = Subject
      OBVIOUS
    <3>3. s \in Made
      BY <3>1, <3>2, SubjectIs DEF Placed
    <3>4. Head(todo').step = "destruct" /\ Head(todo').obj = s /\ todo' # <<>>
      BY <1>0, <3>1, <3>2, HeadOf DEF To, StatusInv
    <3>5. Settled(s)'
      BY <3>4 DEF Settled, At, Subject
    <3> QED
      BY <1>0, <2>1, <3>1, <3>2, <3>3, <3>5
  <2>4. freed' = freed \/ (Free /\ Subject \notin freed)
    <3>1. CASE Program
      BY <3>1 DEF Program, New, Store, Unset, Register, Throw, Exit, Fail, Act
    <3>2. CASE Host
      BY <3>2 DEF Host, CodeEnds, MainEnds, Handled, Report, Uncaught, Shutdown, ShutdownFn, AfterFn, Escaped,
           Destructors, Pass, NextGlobal, Free, Children, Child, Rest, Destruct, AfterDestructor, Restore, Generators,
           Generator, AfterGenerator, GeneratorsEnd
    <3> QED
      BY <3>1, <3>2 DEF Next, Terminated, vars
  <2> QED
    BY <2>2, <2>3, <2>4
<1>s. ASSUME NEW o \in 1 .. count, Settled(o)
      PROVE  Settled(o)' /\ (~Due(o) => ~Due(o)')
  BY <1>0, <1>s, SettledStays
<1>k. ASSUME todo'[Len(todo')] = todo[Len(todo)], count' = count, sweep' = sweep
      PROVE  Reached'
  <2>1. LastStep(todo') = LastStep(todo)
    BY <1>k DEF LastStep
  <2>2. LastStep(todo) = "rest" => \A o \in 1 .. count : o < todo[Len(todo)].obj => Settled(o)'
    BY <1>s DEF Reached
  <2>3. LastStep(todo) = "restore" /\ sweep = "whole" => \A o \in 1 .. count : ~Due(o)'
    BY <1>s DEF Reached, Settled
  <2> QED
    BY <1>f, <1>k, <2>1, <2>2, <2>3 DEF Reached
<1>1. CASE todo' = todo /\ (Program \/ UNCHANGED vars)
  <2>1. count' = count /\ sweep' = sweep
    BY <1>1 DEF Program, New, Store, Unset, Register, Throw, Exit, Fail, Act, vars, request
  <2> QED
    BY <1>1, <1>k, <2>1
<1>2. CASE InsideStep
  <2>1. count' = count /\ sweep' = sweep
    BY <1>2 DEF InsideStep, CodeEnds, Report, Free, Children, Child, Destruct, AfterDestructor, Escapes, Cut, request
  <2> QED
    BY <1>2, <1>k, <2>1, InsideIs
<1>3. CASE Host /\ ~InsideStep
  <2>1. Onto(LastStep(todo'))
    BY <1>3, PhaseIs
  <2>o. ASSUME Head(todo).step \notin Inner
        PROVE  /\ \A op : Then(<<op>>) => todo' = <<op>>
               /\ \A call, op : Then(<<call, op>>) => todo' = <<call, op>>
               /\ LastStep(todo) = Head(todo).step /\ Subject = todo[Len(todo)].obj
    BY <2>o, Onwards, PhaseSubject DEF StatusInv
  <2>2. CASE LastStep(todo') \notin {"rest", "restore"}
    BY <1>f, <2>2 DEF Reached
  <2>3. CASE Rest
    <3>1. Head(todo).step = "rest" /\ Head(todo).step \notin Inner /\ At("rest") /\ count' = count
      BY <2>3 DEF Rest, At, Inner
    <3>2. /\ LastStep(todo) = "rest" /\ Subject \in Nat \ {0}
          /\ \A o \in 1 .. count : o < Subject => Settled(o)
      BY <2>o, <3>1 DEF Ranged, Reached
    <3>3. \A o : Settled(o) => ~Due(o)
      BY <3>1 DEF Settled, At
    <3>4. CASE Subject > count
      <4>1. ASSUME NEW o \in 1 .. count PROVE ~Due(o)'
        <5>1. o < Subject
          BY <1>0, <3>2, <3>4
        <5> QED
          BY <1>s, <3>2, <3>3, <5>1
      <4>2. LastStep(todo') = "restore"
        BY <2>1, <2>3, <3>4, PhaseOf
      <4> QED
        BY <1>f, <3>1, <4>1, <4>2 DEF Reached
    <3>5. CASE ~(Subject > count)
      <4>0. PICK s \in Nat \ {0} : s = Subject
        BY <3>2
      <4>1. ASSUME NEW o \in 1 .. count, o < s PROVE Settled(o)'
        BY <1>s, <3>2, <4>0, <4>1
      <4>2. /\ LastStep(todo') = "rest" /\ todo'[Len(todo')].obj = s + 1
            /\ Settled(s)'
        <5>1. CASE Subject \in freed
          <6>1. todo' = <<To("rest", s + 1)>>
            BY <2>3, <2>o, <3>1, <3>5, <4>0, <5>1 DEF Rest
          <6>2. LastStep(todo') = "rest" /\ todo'[Len(todo')].obj = s + 1
            BY <6>1, OneAhead DEF To
          <6>3. Settled(s)'
            BY <4>0, <5>1, SettledStays DEF Reached
          <6> QED
            BY <6>2, <6>3
        <5>2. CASE Subject \notin freed
          <6>1. todo' = <<To("destruct", s), To("rest", s + 1)>>
            BY <2>3, <2>o, <3>1, <3>5, <4>0, <5>2 DEF Rest
          <6>2. LastStep(todo') = "rest" /\ todo'[Len(todo')].obj = s + 1 /\ Head(todo') = To("destruct", s)
            BY <6>1, TwoAhead DEF To
          <6>3. Settled(s)'
            BY <6>1, <6>2 DEF Settled, At, Subject, To
          <6> QED
            BY <6>2, <6>3
        <5> QED
          BY <5>1, <5>2
      <4>3. ASSUME NEW o \in 1 .. count, o < s + 1 PROVE Settled(o)'
        <5>1. o = s \/ o < s
          BY <1>0, <4>3
        <5> QED
          BY <4>1, <4>2, <5>1
      <4>4. \A o \in 1 .. count' : o < todo'[Len(todo')].obj => Settled(o)'
        BY <3>1, <4>2, <4>3
      <4> QED
        BY <1>f, <4>2, <4>4 DEF Reached
    <3> QED
      BY <3>4, <3>5
  <2>4. CASE NextGlobal
    <3>1. Head(todo).step \in {"next", "again"} /\ Head(todo).step \notin Inner
      BY <2>4 DEF NextGlobal, At, Inner
    <3>2. CASE Then(<<To("rest", 1)>>)
      <4>1. todo' = <<To("rest", 1)>>
        BY <2>o, <3>1, <3>2
      <4>2. LastStep(todo') = "rest" /\ todo'[Len(todo')].obj = 1
        BY <4>1, OneAhead DEF To
      <4>3. \A o \in 1 .. count' : ~(o < 1)
        OBVIOUS
      <4>4. \A o \in 1 .. count' : o < todo'[Len(todo')].obj => Settled(o)'
        BY <4>2, <4>3
      <4> QED
        BY <1>f, <4>2, <4>4 DEF Reached
    <3>3. ASSUME NEW op, op.step \notin {"rest", "restore"},
                 todo' = << op >> \/ \E call : todo' = << call, op >>
          PROVE  Reached'
      BY <2>2, <3>3, OneAhead, TwoAhead
    <3>4. CASE Then(<<Do("pass")>>)
      BY <2>o, <3>1, <3>3, <3>4, Fields
    <3>5. ASSUME NEW list, Then(<<[Head(todo) EXCEPT !.list = list]>>) PROVE Reached'
      <4> DEFINE op == [Head(todo) EXCEPT !.list = list]
      <4>1. op.step = Head(todo).step /\ Then(<<op>>)
        BY <3>1, <3>5
      <4> HIDE DEF op
      <4> QED
        BY <2>o, <3>1, <3>3, <4>1
    <3>6. ASSUME NEW call, NEW list, Then(<<call, [Do("again") EXCEPT !.list = list]>>) PROVE Reached'
      <4> DEFINE op == [Do("again") EXCEPT !.list = list]
      <4>1. op.step = "again"
        BY DEF Do, To
      <4>2. Then(<<call, op>>)
        BY <3>6
      <4> HIDE DEF op
      <4> QED
        BY <2>o, <3>1, <3>3, <4>1, <4>2
    <3> QED
      BY <2>4, <3>2, <3>4, <3>5, <3>6 DEF NextGlobal
  <2>5. CASE Cut /\ (AfterFn \/ Escaped \/ AfterDestructor)
    <3>1. LastStep(todo') = "restore" /\ sweep' = "cut"
      <4>1. todo' = << Do("restore") >> /\ sweep' = "cut"
        BY <2>5 DEF Cut, Skip
      <4> QED
        BY <4>1, OneAhead, Fields
    <3> QED
      BY <1>f, <3>1 DEF Reached
  <2>6. CASE Destructors
    <3>1. LastStep(todo) = "destructors" /\ sweep' = sweep
      BY <2>6, <2>o DEF Destructors, At, Inner, request
    <3>2. sweep' = "none"
      BY <3>1 DEF Clean
    <3>3. LastStep(todo') # "rest"
      BY <2>1, <2>6 DEF Onto, Escaped, AfterDestructor, Destructors, Pass, NextGlobal, Rest, Restore,
           Generators, Generator, AfterGenerator, GeneratorsEnd, MainEnds, Handled, Uncaught, Shutdown, ShutdownFn,
           AfterFn, At
    <3> QED
      BY <1>f, <3>2, <3>3 DEF Reached
  <2>7. CASE LastStep(todo') \in {"rest", "restore"} /\ ~Rest /\ ~NextGlobal /\ ~Destructors
    BY <2>1, <2>5, <2>7 DEF Onto
  <2> QED
    BY <2>2, <2>3, <2>4, <2>6, <2>7
<1> QED
  BY <1>1, <1>2, <1>3, Moves

-----------------------------------------------------------------------------
(* What is freed is held by nothing                                        *)

LEMMA Holders ==
  ASSUME Typed, NEW o
  PROVE  LET G == {g \in Names : global[g] = o}
             H == {p \in Made \ freed : o \in objects[p].holds}
         IN  /\ Refs(o) = Cardinality(G) + Cardinality(H)
             /\ IsFiniteSet(G) /\ IsFiniteSet(H)
             /\ Cardinality(G) \in Nat /\ Cardinality(H) \in Nat
             /\ Cardinality(G) = 0 <=> G = {}
             /\ Cardinality(H) = 0 <=> H = {}
<1> DEFINE G == {g \in Names : global[g] = o}
           H == {p \in Made \ freed : o \in objects[p].holds}
<1>1. IsFiniteSet(Names) /\ IsFiniteSet(Made)
  <2>1. MaxGlobals \in Nat /\ Made = 1 .. Len(objects) /\ Len(objects) \in Nat
    BY MadeIs, RequestEndAssumption
  <2> QED
    BY <2>1, FS_Interval DEF Names
<1>2. IsFiniteSet(G) /\ IsFiniteSet(H)
  <2>1. G \subseteq Names /\ H \subseteq Made
    OBVIOUS
  <2> QED
    BY <1>1, <2>1, FS_Subset
<1>3. Refs(o) = Cardinality(G) + Cardinality(H)
  BY DEF Refs
<1> HIDE DEF G, H
<1>4. /\ Cardinality(G) \in Nat /\ Cardinality(H) \in Nat
      /\ Cardinality(G) = 0 <=> G = {}
      /\ Cardinality(H) = 0 <=> H = {}
  BY <1>2, FS_CardinalityType, FS_EmptySet
<1> QED
  BY <1>2, <1>3, <1>4 DEF G, H

LEMMA NoRefs ==
  ASSUME Typed, NEW o
  PROVE  Refs(o) = 0 <=> /\ \A g \in Names : global[g] # o
                         /\ \A p \in Made \ freed : o \notin objects[p].holds
<1> DEFINE G == {g \in Names : global[g] = o}
           H == {p \in Made \ freed : o \in objects[p].holds}
<1>1. /\ Refs(o) = Cardinality(G) + Cardinality(H)
      /\ Cardinality(G) \in Nat /\ Cardinality(H) \in Nat
      /\ Cardinality(G) = 0 <=> G = {}
      /\ Cardinality(H) = 0 <=> H = {}
  BY Holders
<1>2. /\ G = {} <=> \A g \in Names : global[g] # o
      /\ H = {} <=> \A p \in Made \ freed : o \notin objects[p].holds
  OBVIOUS
<1> HIDE DEF G, H
<1> QED
  BY <1>1, <1>2

\* A global that alone holds an object.
LEMMA OneRef ==
  ASSUME Typed, NEW o, Refs(o) = 1, NEW n \in Names, global[n] = o
  PROVE  /\ \A g \in Names : global[g] = o => g = n
         /\ \A p \in Made \ freed : o \notin objects[p].holds
<1> DEFINE G == {g \in Names : global[g] = o}
           H == {p \in Made \ freed : o \in objects[p].holds}
<1>1. /\ Refs(o) = Cardinality(G) + Cardinality(H)
      /\ IsFiniteSet(G)
      /\ Cardinality(G) \in Nat /\ Cardinality(H) \in Nat
      /\ Cardinality(G) = 0 <=> G = {}
      /\ Cardinality(H) = 0 <=> H = {}
  BY ONLY Typed, Holders
<1>2. n \in G
  OBVIOUS
<1>3. /\ (\A g \in Names : global[g] = o => g = n) <=> G \ {n} = {}
      /\ (\A p \in Made \ freed : o \notin objects[p].holds) <=> H = {}
  OBVIOUS
<1> HIDE DEF G, H
<1>4. Cardinality(G) = 1 /\ Cardinality(H) = 0
  BY <1>1, <1>2
<1>5. IsFiniteSet(G \ {n}) /\ Cardinality(G \ {n}) = Cardinality(G) - 1
  BY <1>1, <1>2, FS_RemoveElement
<1>6. G \ {n} = {}
  BY <1>4, <1>5, FS_EmptySet
<1> QED
  BY <1>1, <1>3, <1>4, <1>6

\* Freeing leaves no more holders.
LEMMA RefsFall ==
  ASSUME Typed, Typed', NEW o, Refs(o) = 0, objects' = objects, global' = global, freed \subseteq freed'
  PROVE  Refs(o)' = 0
<1>1. /\ \A g \in Names : global[g] # o
      /\ \A p \in Made \ freed : o \notin objects[p].holds
  BY NoRefs
<1>2. /\ \A g \in Names : global'[g] # o
      /\ \A p \in Made' \ freed' : o \notin objects'[p].holds
  BY <1>1 DEF Made
<1> DEFINE G == {g \in Names : global'[g] = o}
           H == {p \in Made' \ freed' : o \in objects'[p].holds}
<1>3. Refs(o)' = Cardinality(G) + Cardinality(H)
  BY DEF Refs
<1>4. G = {} /\ H = {}
  BY <1>2
<1> HIDE DEF G, H
<1> QED
  BY <1>3, <1>4, FS_EmptySet

LEMMA RefsCleared ==
  ASSUME Typed, NEW o \in Made, Refs(o) = 1, NEW g \in Names, global[g] = o,
         objects' = objects, global' = [global EXCEPT ![g] = 0], freed' = freed
  PROVE  Refs(o)' = 0
<1>1. /\ \A h \in Names : global[h] = o => h = g
      /\ \A p \in Made \ freed : o \notin objects[p].holds
  BY OneRef
<1>2. /\ o # 0 /\ global \in [Names -> 0 .. Len(objects)]
  BY MadeIs DEF Typed
<1>3. /\ \A h \in Names : global'[h] # o
      /\ \A p \in Made' \ freed' : o \notin objects'[p].holds
  BY <1>1, <1>2 DEF Made
<1> DEFINE G == {h \in Names : global'[h] = o}
           H == {p \in Made' \ freed' : o \in objects'[p].holds}
<1>4. Refs(o)' = Cardinality(G) + Cardinality(H)
  BY DEF Refs
<1>5. G = {} /\ H = {}
  BY <1>3
<1> HIDE DEF G, H
<1> QED
  BY <1>4, <1>5, FS_EmptySet

\* What a pass looked up still is what it was, unless an exception has
\* escaped, which ends the sweep: no destructor unsets a global.
Escaping == \E i \in 1 .. Len(todo) : todo[i].step = "escaped"
Current ==
  /\ \A held \in todo[Len(todo)].list : global[held[1]] = held[2]
  /\ \A i \in 1 .. Len(todo) : todo[i].step \notin {"report", "reported"}
  /\ At("code") => Subject # 0

Counted ==
  /\ At("free") => Refs(Subject) = 0
  /\ At("destruct") /\ Subject \in freed => Refs(Subject) = 0
  /\ LastStep(todo) \in {"next", "again"} => Escaping \/ Current

LEMMA FreedUnheld ==
  ASSUME StatusInv, Typed, Placed, Counted, [Next]_vars, ~NextGlobal,
         NEW o, todo'[1].obj = o, todo'[1].step \in {"free", "destruct"},
         todo'[1].step = "destruct" => o \in freed'
  PROVE  Refs(o)' = 0
<1>0. /\ Typed' /\ StatusInv'
      /\ Len(todo) \in Nat \ {0} /\ Subject = todo[1].obj /\ 1 \in 1 .. Len(todo)
      /\ \A step : At(step) <=> todo[1].step = step
  BY HeapStep, StatusStep, SubjectIs
<1>1. CASE todo' = todo /\ (Program \/ UNCHANGED vars)
  <2>1. ~Program
    <3>1. ~At("code")
      BY <1>0, <1>1
    <3> QED
      BY <3>1 DEF Program, New, Store, Unset, Register, Throw, Exit, Fail, Act, Code
  <2>2. objects' = objects /\ global' = global /\ freed' = freed
    BY <1>1, <2>1 DEF vars, heap
  <2>3. Refs(o) = 0
    BY <1>0, <1>1, <2>2 DEF Counted
  <2> QED
    BY <1>0, <2>2, <2>3, RefsFall
<1>2. CASE InsideStep
  <2>1. 1 \in 1 .. Len(todo')
    <3>1. Shape(todo')
      BY <1>0 DEF StatusInv
    <3>2. PICK S : todo' \in Seq(S)
      BY <3>1 DEF Shape
    <3> QED
      BY <3>1, <3>2, EmptySeq DEF Shape
  <2>2. (\E k \in 2 .. Len(todo) : todo'[1] = todo[k]) \/ Added(1, todo'[1])
    BY <1>2, <2>1, InsideIs
  <2>3. Added(1, todo'[1])
    BY <2>2 DEF Placed
  <2>4. CASE Free /\ Subject \notin freed
    <3>1. At("free") /\ freed \subseteq freed' /\ objects' = objects /\ global' = global
      BY <2>4 DEF Free, heap
    <3>2. o = Subject
      BY <1>0, <2>3, <3>1 DEF Added, Report, Children, Child, Destruct, AfterDestructor, To
    <3>3. Refs(o) = 0
      BY <3>1, <3>2 DEF Counted
    <3> QED
      BY <1>0, <3>1, <3>3, RefsFall
  <2>5. CASE Child /\ Refs(Subject) = 0
    <3>1. At("child") /\ freed' = freed /\ objects' = objects /\ global' = global
      BY <2>5 DEF Child, heap
    <3>2. o = Subject
      BY <1>0, <2>3, <3>1 DEF Added, Report, Children, Free, Destruct, AfterDestructor, To
    <3> QED
      BY <1>0, <2>5, <3>1, <3>2, RefsFall
  <2>6. (Free /\ Subject \notin freed) \/ (Child /\ Refs(Subject) = 0)
    BY <2>3 DEF Added, To, Do
  <2> QED
    BY <2>4, <2>5, <2>6
<1>3. CASE Host /\ ~InsideStep
  <2>1. Ahead /\ LastStep(todo') \in Phases
    BY <1>0, <1>3, PhaseIs DEF StatusInv, Shape
  <2>2. Len(todo') = 2 /\ From(todo'[1], todo'[2])
    BY <2>1 DEF Ahead, Phases, Unparked, LastStep
  <2>3. Rest /\ Subject \notin freed /\ todo'[1] = To("destruct", Subject)
    BY <2>2 DEF From, To, Do
  <2>4. freed' = freed /\ o = Subject /\ todo'[1].step = "destruct"
    BY <2>3 DEF Rest, To
  <2> QED
    BY <2>3, <2>4
<1> QED
  BY <1>1, <1>2, <1>3, Moves

LEMMA CountedStep ==
  ASSUME "unset" \notin Acts, StatusInv, Typed, Ranged, Placed, Counted, [Next]_vars
  PROVE  Counted'
<1>0. /\ Typed' /\ StatusInv'
      /\ Len(todo) \in Nat \ {0} /\ Subject = todo[1].obj /\ 1 \in 1 .. Len(todo)
      /\ \A step : At(step) <=> todo[1].step = step
  BY HeapStep, StatusStep, SubjectIs
<1>1. Len(todo') \in Nat \ {0} /\ Head(todo') = todo'[1] /\ todo' # <<>>
  <2>1. Shape(todo')
    BY <1>0 DEF StatusInv
  <2>2. PICK S : todo' \in Seq(S)
    BY <2>1 DEF Shape
  <2> QED
    BY <2>1, <2>2, EmptySeq DEF Shape
<1>g. ASSUME NEW o, o = todo'[1].obj,
             todo'[1].step = "free" => Refs(o)' = 0,
             todo'[1].step = "destruct" /\ o \in freed' => Refs(o)' = 0,
             LastStep(todo') \in {"next", "again"} => Escaping' \/ Current'
      PROVE  Counted'
  BY <1>1, <1>g DEF Counted, At, Subject, Refs
<1>c. ASSUME LastStep(todo') \in {"next", "again"} => Escaping' \/ Current', ~NextGlobal
      PROVE  Counted'
  <2>1. PICK o : o = todo'[1].obj
    OBVIOUS
  <2>2. todo'[1].step = "free" => Refs(o)' = 0
    BY <1>c, <2>1, FreedUnheld
  <2>3. todo'[1].step = "destruct" /\ o \in freed' => Refs(o)' = 0
    BY <1>c, <2>1, FreedUnheld
  <2> QED
    BY <1>c, <1>g, <2>1, <2>2, <2>3
<1>m. ASSUME \A held \in todo'[Len(todo')].list : global'[held[1]] = held[2],
             \A i \in 1 .. Len(todo') : todo'[i].step \notin {"report", "reported"},
             todo'[1].step = "code" => todo'[1].obj # 0
      PROVE  Current'
  BY <1>1, <1>m DEF Current, At, Subject
<1>2. CASE Program /\ todo' = todo
  <2>1. At("code") /\ ~NextGlobal
    <3>1. At("code")
      BY <1>2 DEF Program, New, Store, Unset, Register, Throw, Exit, Fail, Act, Code
    <3> QED
      BY <1>0, <3>1 DEF NextGlobal
  <2>2. ASSUME LastStep(todo) \in {"next", "again"}, ~Escaping PROVE Current'
    <3>1. Current /\ Subject # 0 /\ todo[Len(todo)].list \subseteq Names \X Made
      BY <2>1, <2>2 DEF Counted, Current, Ranged
    <3>2. ASSUME NEW held \in todo[Len(todo)].list PROVE global'[held[1]] = held[2]
      <4>1. held[1] \in Names /\ held[2] # 0 /\ global[held[1]] = held[2]
        BY <3>1, MadeIs DEF Current
      <4>2. CASE New
        <5>1. PICK g \in Names : global[g] = 0 /\ global' = [global EXCEPT ![g] = Len(objects) + 1]
          BY <4>2 DEF New
        <5> QED
          BY <4>1, <5>1 DEF Typed
      <4>3. ~Unset
        BY <3>1 DEF Unset
      <4>4. CASE ~New
        <5>1. global' = global
          BY <1>2, <4>3, <4>4 DEF Program, Store, Register, Throw, Exit, Fail, heap
        <5> QED
          BY <4>1, <5>1
      <4> QED
        BY <4>2, <4>4
    <3>3. \A i \in 1 .. Len(todo) : todo[i].step \notin {"report", "reported"}
      BY <3>1 DEF Current
    <3> QED
      BY <1>0, <1>2, <1>m, <3>1, <3>2, <3>3
  <2>3. LastStep(todo') \in {"next", "again"} => Escaping' \/ Current'
    BY <1>2, <2>2 DEF Escaping
  <2> QED
    BY <1>c, <2>1, <2>3
<1>3. CASE UNCHANGED vars
  BY <1>3 DEF vars, heap, Counted, At, Subject, Refs, Made, Escaping, Current
<1>4. CASE InsideStep
  <2>1. ~NextGlobal
    BY <1>0, <1>4 DEF NextGlobal, InsideStep, CodeEnds, Report, Free, Children, Child, Destruct, AfterDestructor
  <2>2. todo[1].step # "escaped"
    BY <1>0, <1>4 DEF InsideStep, CodeEnds, Report, Free, Children, Child, Destruct, AfterDestructor
  <2>3. /\ todo'[Len(todo')] = todo[Len(todo)] /\ LastStep(todo') = LastStep(todo)
        /\ \A k \in 2 .. Len(todo) : \E i \in 1 .. Len(todo') : todo'[i] = todo[k]
        /\ \A i \in 1 .. Len(todo') :
             (\E k \in 2 .. Len(todo) : todo'[i] = todo[k]) \/ Added(i, todo'[i])
        /\ AfterDestructor /\ thrown => \E i \in 1 .. Len(todo') : todo'[i].step = "escaped"
    BY <1>4, InsideIs DEF LastStep
  <2>4. ASSUME Escaping PROVE Escaping'
    <3>1. PICK k \in 1 .. Len(todo) : todo[k].step = "escaped"
      BY <2>4 DEF Escaping
    <3>2. k \in 2 .. Len(todo)
      BY <1>0, <2>2, <3>1
    <3> QED
      BY <2>3, <3>1, <3>2 DEF Escaping
  <2>5. CASE AfterDestructor /\ thrown
    BY <1>c, <2>1, <2>3, <2>5 DEF Escaping
  <2>6. ASSUME ~(AfterDestructor /\ thrown), Current PROVE Current'
    <3>1. ~Report /\ \A i \in 1 .. Len(todo) : todo[i].step \notin {"report", "reported"}
      BY <1>0, <2>6 DEF Current, Report
    <3>2. global' = global
      BY <1>4 DEF InsideStep, CodeEnds, Report, Free, Children, Child, Destruct, AfterDestructor, heap
    <3>3. \A held \in todo'[Len(todo')].list : global'[held[1]] = held[2]
      BY <2>3, <2>6, <3>2 DEF Current
    <3>4. ASSUME NEW i \in 1 .. Len(todo') PROVE todo'[i].step \notin {"report", "reported"}
      <4>1. CASE \E k \in 2 .. Len(todo) : todo'[i] = todo[k]
        BY <1>0, <3>1, <4>1
      <4>2. CASE Added(i, todo'[i])
        BY <2>6, <3>1, <4>2 DEF Added, To, Do
      <4> QED
        BY <2>3, <4>1, <4>2
    <3>5. ASSUME todo'[1].step = "code" PROVE todo'[1].obj # 0
      <4>1. ~\E k \in 2 .. Len(todo) : todo'[1] = todo[k]
        BY <3>5 DEF Placed
      <4>2. Added(1, todo'[1])
        BY <1>1, <2>3, <4>1
      <4>3. Destruct /\ todo'[1].obj = Subject
        BY <2>6, <3>1, <3>5, <4>2 DEF Added, To, Do
      <4>4. Subject \in Made
        BY <1>0, <4>3 DEF Placed, Destruct
      <4> QED
        BY <4>3, <4>4, MadeIs
    <3> QED
      BY <1>m, <3>3, <3>4, <3>5
  <2>7. CASE ~(AfterDestructor /\ thrown)
    <3>1. LastStep(todo') \in {"next", "again"} => Escaping' \/ Current'
      BY <2>3, <2>4, <2>6, <2>7 DEF Counted
    <3> QED
      BY <1>c, <2>1, <3>1
  <2> QED
    BY <2>5, <2>7
<1>5. CASE Pass
  <2> DEFINE op == [Do("next") EXCEPT !.list = HeldByGlobals]
  <2>1. op.step = "next" /\ op.list = HeldByGlobals /\ Then(<<op>>)
    BY <1>5 DEF Pass, Do, To
  <2> HIDE DEF op
  <2>2. todo' = << op >> /\ global' = global /\ ~NextGlobal
    BY <1>5, <2>1, Onwards DEF Pass, NextGlobal, At, Inner, heap, StatusInv
  <2>3. Len(todo') = 1 /\ todo'[1] = op
    BY <2>2, OneAhead
  <2>4. \A held \in HeldByGlobals : global[held[1]] = held[2]
    BY DEF HeldByGlobals
  <2>5. \A held \in todo'[Len(todo')].list : global'[held[1]] = held[2]
    BY <2>1, <2>2, <2>3, <2>4
  <2>6. \A i \in 1 .. Len(todo') : todo'[i].step = "next"
    BY <2>1, <2>3
  <2>7. Current'
    BY <1>m, <2>1, <2>3, <2>5, <2>6
  <2> QED
    BY <1>c, <2>2, <2>7
<1>6. CASE NextGlobal
  <2>0. Head(todo).step \in {"next", "again"} /\ Head(todo).step \notin Inner
    BY <1>6 DEF NextGlobal, At, Inner
  <2>1. /\ Len(todo) = 1 /\ Head(todo) = todo[1] /\ LastStep(todo) = Head(todo).step
        /\ objects' = objects /\ freed' = freed
    BY <1>6, <2>0, PhaseAlone, PhaseSubject DEF NextGlobal, StatusInv
  <2>2. PICK list : list = Head(todo).list
    OBVIOUS
  <2>3. /\ list \subseteq Names \X Made
        /\ \A held \in list : global[held[1]] = held[2]
    <3>1. ~Escaping
      BY <2>0, <2>1 DEF Escaping
    <3> QED
      BY <2>0, <2>1, <2>2, <3>1 DEF Counted, Current, Ranged
  <2>o. /\ \A op : Then(<<op>>) => todo' = <<op>>
        /\ \A call, op : Then(<<call, op>>) => todo' = <<call, op>>
    BY <2>0, Onwards DEF StatusInv
  <2>s. ASSUME NEW op, todo' = << op >>, op.step \in {"pass", "rest"} PROVE Counted'
    <3>1. todo'[1] = op /\ LastStep(todo') = op.step
      BY <2>s, OneAhead
    <3>2. PICK o : o = todo'[1].obj
      OBVIOUS
    <3> QED
      BY <1>g, <2>s, <3>1, <3>2
  <2>4. CASE Then(<<Do("pass")>>)
    BY <2>4, <2>o, <2>s, Fields
  <2>5. CASE Then(<<To("rest", 1)>>)
    BY <2>5, <2>o, <2>s, Fields
  <2>6. ASSUME NEW held \in Newest(list),
               Then(<<[Head(todo) EXCEPT !.list = list \ {held}]>>), global' = global
        PROVE  Counted'
    <3> DEFINE op == [Head(todo) EXCEPT !.list = list \ {held}]
    <3>1. op.step = Head(todo).step /\ Then(<<op>>)
      BY <2>0, <2>6
    <3>2. op.list \subseteq list
      BY <2>2
    <3> HIDE DEF op
    <3>3. todo' = << op >>
      BY <2>o, <3>1
    <3>4. Len(todo') = 1 /\ todo'[1] = op
      BY <3>3, OneAhead
    <3>5. \A other \in todo'[Len(todo')].list : global'[other[1]] = other[2]
      BY <2>3, <2>6, <3>2, <3>4
    <3>6. \A i \in 1 .. Len(todo') : todo'[i].step \in {"next", "again"}
      BY <2>0, <3>1, <3>4
    <3>7. Current'
      BY <1>m, <2>0, <3>1, <3>4, <3>5, <3>6
    <3>8. PICK o : o = todo'[1].obj
      OBVIOUS
    <3> QED
      BY <1>g, <2>0, <3>1, <3>4, <3>7, <3>8
  <2>7. ASSUME NEW held \in Newest(list), Refs(held[2]) = 1, global' = [global EXCEPT ![held[1]] = 0],
               Then(<<To("free", held[2]), [Do("again") EXCEPT !.list = list \ {held}]>>)
        PROVE  Counted'
    <3> DEFINE op == [Do("again") EXCEPT !.list = list \ {held}]
    <3>1. op.step = "again" /\ op.list = list \ {held}
      BY DEF Do, To
    <3>2. Then(<<To("free", held[2]), op>>)
      BY <2>7
    <3> HIDE DEF op
    <3>3. todo' = <<To("free", held[2]), op>>
      BY <2>o, <3>2
    <3>4. Len(todo') = 2 /\ todo'[1] = To("free", held[2]) /\ todo'[2] = op
      BY <3>3, TwoAhead
    <3>5. held \in list /\ held \in Names \X Made /\ global[held[1]] = held[2]
      BY <2>3 DEF Newest
    <3>6. PICK n \in Names : n = held[1]
      BY <3>5
    <3>7. PICK o \in Made : o = held[2]
      BY <3>5
    <3>8. Refs(o)' = 0
      BY <2>1, <2>7, <3>5, <3>6, <3>7, RefsCleared
    <3>9. ASSUME NEW other \in list \ {held} PROVE global'[other[1]] = other[2]
      <4>1. other \in Names \X Made /\ global[other[1]] = other[2]
        BY <2>3
      <4>2. other[1] # held[1]
        BY <3>5, <4>1
      <4> QED
        BY <2>7, <4>1, <4>2 DEF Typed
    <3>10. \A i \in 1 .. Len(todo') : todo'[i].step \in {"free", "again"}
      <4>1. \A i \in 1 .. Len(todo') : i = 1 \/ i = 2
        BY <3>4
      <4> QED
        BY <3>1, <3>4, <4>1 DEF To
    <3>11. Current'
      <4>1. \A other \in todo'[Len(todo')].list : global'[other[1]] = other[2]
        BY <3>1, <3>4, <3>9
      <4>2. todo'[1].step = "free"
        BY <3>4 DEF To
      <4> QED
        BY <1>m, <3>10, <4>1, <4>2
    <3>12. todo'[1].step = "free" /\ todo'[1].obj = o
      BY <3>4, <3>7 DEF To
    <3> QED
      BY <1>g, <3>8, <3>11, <3>12
  <2> HIDE DEF Then
  <2> QED
    BY <1>6, <2>2, <2>4, <2>5, <2>6, <2>7 DEF NextGlobal
<1>7. CASE Host /\ ~InsideStep /\ ~Pass /\ ~NextGlobal
  <2>1. LastStep(todo') \notin {"next", "again"}
    BY <1>7, PhaseIs DEF Onto
  <2> QED
    BY <1>7, <1>c, <2>1
<1> QED
  BY <1>2, <1>3, <1>4, <1>5, <1>6, <1>7, Moves

-----------------------------------------------------------------------------
(* The main chunk has ended *)

LEMMA Beginning ==
  ASSUME Init
  PROVE  StatusInv /\ Typed /\ Ranged /\ Placed /\ Clean /\ Reached /\ Counted
<1>1. PICK n \in 0 .. MaxLeft : objects \in [1 .. n -> [kind : Kinds, holds : SUBSET (1 .. n)]]
  BY DEF Init
<1>2. n \in Nat /\ MaxObjects \in Nat /\ n <= MaxObjects
  BY RequestEndAssumption
<1>3. objects \in Seq(Object) /\ Len(objects) = n /\ Made = 1 .. n
  <2>1. [kind : Kinds, holds : SUBSET (1 .. n)] \subseteq Object
    BY <1>2 DEF Object, Handles
  <2>2. objects \in [1 .. n -> Object]
    BY <1>1, <2>1
  <2> QED
    BY <1>2, <2>2 DEF Made
<1>4. todo = <<Do("main")>> /\ todo # <<>> /\ Len(todo) = 1 /\ todo[1] = Do("main") /\ Head(todo) = todo[1]
  BY DEF Init
<1>5. /\ LastStep(todo) = "main" /\ \A step : At(step) <=> step = "main"
      /\ \A i \in 1 .. Len(todo) : todo[i].step = "main"
  BY <1>4, Fields DEF LastStep, At
<1>6. StatusInv
  <2>1. Shape(todo)
    <3>1. todo \in Seq({Do("main")})
      BY <1>4
    <3>2. 1 .. Len(todo) - 1 = {} /\ LastStep(todo) \in Phases
      BY <1>4, <1>5 DEF Phases, Unparked
    <3> QED
      BY <1>4, <3>1, <3>2 DEF Shape
  <2>2. Status
    BY DEF Init, Status
  <2> QED
    BY <2>1, <2>2 DEF StatusInv
<1>7. Typed
  <2>1. \A o \in Made : objects[o].holds \subseteq Made
    BY <1>1, <1>3
  <2> QED
    BY <1>2, <1>3, <2>1 DEF Init, Typed
<1>8. Ranged /\ Clean /\ Counted
  BY <1>5 DEF Init, Ranged, Clean, Counted
<1>9. Placed
  BY <1>4, <1>5 DEF Placed
<1>10. Reached
  BY <1>5 DEF Init, Reached
<1> QED
  BY <1>6, <1>7, <1>8, <1>9, <1>10

\* The invariants the theorems rest on, in the order in which they do on
\* one another.
Sound == StatusInv /\ Typed /\ Ranged /\ Placed /\ Clean /\ Reached

LEMMA SoundStep == Sound /\ [Next]_vars => Sound'
BY StatusStep, HeapStep, RangedStep, PlacedStep, CleanStep, ReachedStep DEF Sound

\* "Destructors only after a clean end, an exit, or an uncaught exception":
\* no __destruct runs after a fatal error, whether the request ended with it
\* or a callback of the sweep did, or after E_USER_ERROR.
THEOREM NoDestructorAfterFatalHolds == Spec => []NoDestructorAfterFatal
<1>1. Init => Sound
  BY Beginning DEF Sound
<1>2. Sound => NoDestructorAfterFatal
  <2> SUFFICES ASSUME Sound, At("code"), Subject # 0, objects[Subject].kind = "destructor", ~Unwinding
               PROVE  result \in {"ok", "uncaught"} /\ ~off /\ sweep # "cut"
    BY DEF NoDestructorAfterFatal
  <2>1. Sweeping
    BY DEF Sound, Placed
  <2> QED
    BY <2>1 DEF Sound, Sweeping, Clean, Unwinding
<1> QED
  BY <1>1, <1>2, SoundStep, PTL DEF Spec

\* A sweep that no callback cuts short passes by no object there was when its
\* second pass began: freed by the first, or reached in creation order, it is
\* not due any more.
THEOREM SweepReachesAllHolds == Spec => []SweepReachesAll
<1>1. Init => Sound
  BY Beginning DEF Sound
<1>2. Sound => SweepReachesAll
  <2> SUFFICES ASSUME Sound, At("restore"), sweep = "whole" PROVE \A o \in 1 .. count : ~Due(o)
    BY DEF SweepReachesAll
  <2>1. LastStep(todo) = "restore"
    BY PhaseSubject DEF Sound, At, Inner
  <2> QED
    BY <2>1 DEF Sound, Reached
<1> QED
  BY <1>1, <1>2, SoundStep, PTL DEF Spec

\* "First the globals that alone hold an object are freed", then "whatever
\* only they were holding": nothing that is not itself freed holds what is
\* destructed as freed, as long as no destructor unsets a global the pass has
\* already looked up.
THEOREM FreesOnlyGarbageHolds ==
  ASSUME "unset" \notin Acts
  PROVE  Spec => []FreesOnlyGarbage
<1> DEFINE I == Sound /\ Counted
<1>1. Init => I
  BY Beginning DEF Sound
<1>2. I /\ [Next]_vars => I'
  <2>1. Sound /\ Counted /\ [Next]_vars => Counted'
    BY CountedStep DEF Sound
  <2> QED
    BY <2>1, SoundStep
<1>3. I => FreesOnlyGarbage
  BY DEF Counted, FreesOnlyGarbage
<1> HIDE DEF I
<1> QED
  BY <1>1, <1>2, <1>3, PTL DEF Spec

=============================================================================
