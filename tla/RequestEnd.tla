----------------------------- MODULE RequestEnd -----------------------------
(***************************************************************************)
(* What happens once the main chunk is over: run_main hands what escaped   *)
(* it to the exception handler or reports it, request_shutdown runs the    *)
(* shutdown functions and then the destructors, shutdown_generators        *)
(* destroys the generators still suspended.                                *)
(*                                                                         *)
(* The heap the program leaves is any heap.  Every callback is code of the *)
(* program: it may change the heap, register more shutdown functions,      *)
(* throw, exit and fail.                                                   *)
(***************************************************************************)
EXTENDS Naturals, SequencesExt

CONSTANTS
  MaxLeft,      \* bound on the objects the main chunk leaves
  MaxObjects,   \* bound on the objects made, by the callbacks too
  MaxGlobals,   \* how many global variables there are, the newest last
  MaxEdges,     \* bound on what the objects of the program hold
  MaxFns,       \* bound on the shutdown functions registered
  MaxActs,      \* bound on what the callbacks do altogether
  Acts          \* what callbacks may do to the heap: new and store, and unset
                \* for a destructor

ASSUME RequestEndAssumption ==
  /\ MaxObjects \in Nat /\ MaxLeft \in 0 .. MaxObjects /\ MaxGlobals \in Nat /\ MaxEdges \in Nat
  /\ MaxFns \in Nat /\ MaxActs \in Nat
  /\ Acts \subseteq {"new", "store", "unset"}

VARIABLES
  objects,  \* the heap, in creation order: what each is, and what it holds
  global,   \* the object each global variable holds, 0 for none
  spent,    \* PhpHost.destructed, and the generators that are done
  freed,    \* call_destructors: what its first pass has freed
  count,    \* how many objects there are to go through
  fns,      \* how many shutdown functions are registered
  todo,     \* what is left to do, the innermost call first
  thrown,   \* pending_throw is set
  exit,     \* pending_exit, 0 for none
  parked,   \* the status request_shutdown, shutdown_generators put aside
  failed,   \* a fatal error is on its way up
  off,      \* PhpHost.destructors_off
  result,   \* what run_main returned
  sweep,    \* how far call_destructors got
  acts,     \* how much the callbacks have done
  last,     \* the status of the last exit
  begun     \* per object, how often its destructor or finally was called

heap == <<objects, global>>
request == <<parked, result, sweep>>
signals == <<thrown, exit, failed, off>>
history == <<acts, last, begun>>
vars == <<heap, spent, freed, count, fns, todo, signals, request, history>>

-----------------------------------------------------------------------------
Handles == 1 .. MaxObjects
Names == 1 .. MaxGlobals
Made == DOMAIN objects

\* A generator is one suspended inside a try with a finally; arrays are on the
\* heap too.
Kinds == {"destructor", "generator", "array"}
Object == [kind : Kinds, holds : SUBSET Handles]

\* The steps of the host.  `obj` is the object, or the place in a list, the
\* step is about, `list` the globals a pass has yet to look at.
Steps == {"main", "handled", "report", "reported", "uncaught", "shutdown",
          "function", "after", "destructors", "pass", "next", "again", "free",
          "children", "child", "rest", "destruct", "escape", "escaped",
          "restore", "generators", "generator", "destroyed", "unwound", "over",
          "code"}
Op == [step : Steps, obj : Nat, list : SUBSET (Names \X Handles)]
To(step, o) == [step |-> step, obj |-> o, list |-> {}]
Do(step) == To(step, 0)

At(step) == todo # <<>> /\ Head(todo).step = step
Subject == Head(todo).obj
Then(ops) == todo' = ops \o Tail(todo)
Call(o, then) == Then(<<To("code", o), then>>)

Unwinding == thrown \/ exit # 0

\* How many hold o, the freed left out.
Refs(o) ==
  Cardinality({g \in Names : global[g] = o})
    + Cardinality({p \in Made \ freed : o \in objects[p].holds})

\* The globals that hold an object; a pass takes the newest first.
HeldByGlobals ==
  {<<g, global[g]>> : g \in {g \in Names : global[g] # 0 /\ objects[global[g]].kind # "array"}}
Newest(list) == {held \in list : \A other \in list : other[1] <= held[1]}

-----------------------------------------------------------------------------
\* The main chunk has just ended: by itself, by a throw, by exit, by
\* E_USER_ERROR, by a fatal error.
Endings == {"end", "throw", "exit", "userError", "fatal"}

Init ==
  /\ \E n \in 0 .. MaxLeft : objects \in [1 .. n -> [kind : Kinds, holds : SUBSET (1 .. n)]]
  /\ \A o \in Made : objects[o].kind = "generator" => objects[o].holds = {}
  /\ SumFunction([o \in Made |-> Cardinality(objects[o].holds)]) <= MaxEdges
  /\ global \in [Names -> 0 .. Len(objects)]
  /\ spent = {} /\ freed = {} /\ count = 0
  /\ fns \in 0 .. MaxFns
  /\ todo = <<Do("main")>>
  /\ \E ending \in Endings :
       /\ thrown = (ending = "throw")
       /\ exit = (IF ending \in {"exit", "userError"} THEN 1 ELSE 0)
       /\ failed = (ending = "fatal")
       /\ off = (ending = "userError")
  /\ parked = 0 /\ result = "none" /\ sweep = "none"
  /\ acts = 0 /\ last = exit /\ begun = [o \in Handles |-> 0]

-----------------------------------------------------------------------------
(* The callbacks.                                                          *)

Code == At("code") /\ ~Unwinding /\ ~failed /\ acts < MaxActs
Act == Code /\ acts' = acts + 1 /\ UNCHANGED <<spent, freed, count, request, begun>>

\* What the callback can get at: $this, the globals, and what they hold.
Reachable ==
  LET start == (IF Subject = 0 THEN {} ELSE {Subject}) \cup (Range(global) \ {0})
      Closed(S) == start \subseteq S /\ \A o \in S : objects[o].holds \subseteq S
  IN  {o \in Made : \A S \in SUBSET Made : Closed(S) => o \in S}

New ==
  /\ "new" \in Acts /\ Act /\ Len(objects) < MaxObjects
  /\ \E kind \in Kinds : objects' = Append(objects, [kind |-> kind, holds |-> {}])
  /\ \E g \in Names : global[g] = 0 /\ global' = [global EXCEPT ![g] = Len(objects) + 1]
  /\ UNCHANGED <<fns, todo, signals, last>>

Store ==
  /\ "store" \in Acts /\ Act
  /\ \E o, p \in Reachable :
       /\ objects[p].kind # "generator"
       /\ objects' = [objects EXCEPT ![p].holds = @ \cup {o}]
  /\ UNCHANGED <<global, fns, todo, signals, last>>

\* Something else than a destructor, or a destructor, if Acts says so.
Unset ==
  /\ Act
  /\ Subject = 0 \/ "unset" \in Acts
  /\ \E g \in Names : global[g] # 0 /\ global' = [global EXCEPT ![g] = 0]
  /\ UNCHANGED <<objects, fns, todo, signals, last>>

\* register_shutdown_fn
Register ==
  /\ Act /\ fns < MaxFns /\ fns' = fns + 1
  /\ UNCHANGED <<heap, todo, signals, last>>

Throw ==
  /\ Act /\ thrown' = TRUE
  /\ UNCHANGED <<heap, fns, todo, exit, failed, off, last>>

\* set_pending_exit; E_USER_ERROR turns the destructors off and exits.
Exit ==
  /\ Act /\ exit' = last + 1 /\ last' = exit'
  /\ off' \in {off, TRUE}
  /\ UNCHANGED <<heap, fns, todo, thrown, failed>>

\* A fatal error: an Err that no code of the program sees.
Fail ==
  /\ Act /\ failed' = TRUE
  /\ UNCHANGED <<heap, fns, todo, thrown, exit, off, last>>

CodeEnds ==
  /\ At("code") /\ Then(<<>>)
  /\ UNCHANGED <<heap, spent, freed, count, fns, signals, request, history>>

-----------------------------------------------------------------------------
(* run_main, report_uncaught, run_program.                                 *)

\* What is left is replaced, up to the step that is always taken.
Skip(step) == todo' = <<Do(step)>>

TakeThrow == thrown' = FALSE /\ failed' = FALSE /\ UNCHANGED <<exit, off>>

MainEnds ==
  /\ At("main")
  /\ \/ thrown /\ TakeThrow /\ Call(0, Do("handled")) /\ UNCHANGED result
     \/ thrown /\ Then(<<Do("report"), Do("uncaught")>>) /\ UNCHANGED <<signals, result>>
     \* an uncaught ParseError is reported without its __toString
     \/ thrown /\ TakeThrow /\ result' = "fatal" /\ Skip("shutdown")
     \/ /\ ~thrown /\ result' \in (IF failed THEN {"fatal", "silent"} ELSE {"ok"})
        /\ failed' = FALSE /\ UNCHANGED <<thrown, exit, off>>
        /\ Skip(IF result' = "silent" THEN "generators" ELSE "shutdown")
  /\ UNCHANGED <<heap, spent, freed, count, fns, parked, sweep, history>>

\* The handler's own failure is dropped.
Handled ==
  /\ At("handled") /\ failed' = FALSE /\ UNCHANGED <<thrown, exit, off>>
  /\ IF thrown
       THEN Then(<<Do("report"), Do("uncaught")>>) /\ UNCHANGED result
       ELSE Skip("shutdown") /\ result' = "ok"
  /\ UNCHANGED <<heap, spent, freed, count, fns, parked, sweep, history>>

\* What __toString throws is reported instead, and so on.
Report ==
  /\ At("report") \/ At("reported")
  /\ IF thrown
       THEN TakeThrow /\ Call(0, Do("reported"))
       ELSE failed' = FALSE /\ Then(<<>>) /\ UNCHANGED <<thrown, exit, off>>
  /\ UNCHANGED <<heap, spent, freed, count, fns, request, history>>

Uncaught ==
  /\ At("uncaught") /\ result' = "uncaught" /\ Skip("shutdown")
  /\ UNCHANGED <<heap, spent, freed, count, fns, signals, parked, sweep, history>>

-----------------------------------------------------------------------------
(* request_shutdown.                                                       *)

Park == parked' = exit /\ exit' = 0
\* Mutant: the status put aside always comes back.
UnparkAlways == exit' = (IF parked # 0 THEN parked ELSE exit) /\ parked' = 0

Unpark == exit' = (IF exit = 0 THEN parked ELSE exit) /\ parked' = 0

Shutdown ==
  /\ At("shutdown") /\ Park /\ Then(<<To("function", 1)>>)
  /\ UNCHANGED <<heap, spent, freed, count, fns, thrown, failed, off, result, sweep, history>>

\* run_shutdown_fns: one registered meanwhile is run too.
ShutdownFn ==
  /\ At("function")
  /\ IF Subject <= fns THEN Call(0, To("after", Subject)) ELSE Then(<<Do("destructors")>>)
  /\ UNCHANGED <<heap, spent, freed, count, fns, signals, request, history>>

\* A callback's fatal error, and an exception it lets escape, end the sweep.
Cut == Skip("restore") /\ failed' = FALSE /\ sweep' = "cut" /\ UNCHANGED <<thrown, exit, off>>
Escapes == Then(<<Do("report"), Do("escaped")>>) /\ UNCHANGED <<signals, sweep>>

AfterFn ==
  /\ At("after")
  /\ \/ failed /\ Cut
     \/ ~failed /\ thrown /\ Escapes
     \/ /\ ~failed /\ ~thrown /\ UNCHANGED <<signals, sweep>>
        /\ Then(<<IF exit # 0 THEN Do("destructors") ELSE To("function", Subject + 1)>>)
  /\ UNCHANGED <<heap, spent, freed, count, fns, parked, result, history>>

Escaped ==
  /\ At("escaped") /\ Cut
  /\ UNCHANGED <<heap, spent, freed, count, fns, parked, result, history>>

\* Mutant: destructors_off is not looked at.
DestructorsAlways ==
  /\ At("destructors")
  /\ Then(<<Do(IF result \in {"ok", "uncaught"} THEN "pass" ELSE "restore")>>)
  /\ UNCHANGED <<heap, spent, freed, count, fns, signals, request, history>>

Destructors ==
  /\ At("destructors")
  /\ Then(<<Do(IF result \in {"ok", "uncaught"} /\ ~off THEN "pass" ELSE "restore")>>)
  /\ UNCHANGED <<heap, spent, freed, count, fns, signals, request, history>>

-----------------------------------------------------------------------------
(* call_destructors.                                                       *)

\* The globals of a pass are looked up before the first destructor runs.
Pass ==
  /\ At("pass") /\ Then(<<[Do("next") EXCEPT !.list = HeldByGlobals]>>)
  /\ UNCHANGED <<heap, spent, freed, count, fns, signals, request, history>>

\* Mutant: a pass that only skipped objects is followed by another.
NextGlobalAgain ==
  /\ At("next") \/ At("again")
  /\ LET list == Head(todo).list IN
     \/ /\ list = {} /\ At("again") /\ Then(<<Do("pass")>>)
        /\ UNCHANGED <<global, count>>
     \/ /\ list = {} /\ At("next") /\ Then(<<To("rest", 1)>>) /\ count' = Len(objects)
        /\ UNCHANGED global
     \/ /\ UNCHANGED count
        /\ \E held \in Newest(list) :
             LET o == held[2]
                 rest == [Do("again") EXCEPT !.list = list \ {held}]
             IN  IF o \in freed \/ Refs(o) # 1
                   THEN Then(<<rest>>) /\ UNCHANGED global
                   ELSE /\ global' = [global EXCEPT ![held[1]] = 0]
                        /\ Then(<<To("free", o), rest>>)
  /\ UNCHANGED <<objects, spent, freed, fns, signals, request, history>>

\* "again" is "next" once the pass has freed something.
NextGlobal ==
  /\ At("next") \/ At("again")
  /\ LET list == Head(todo).list IN
     \/ /\ list = {} /\ At("again") /\ Then(<<Do("pass")>>)
        /\ UNCHANGED <<global, count>>
     \/ /\ list = {} /\ At("next") /\ Then(<<To("rest", 1)>>) /\ count' = Len(objects)
        /\ UNCHANGED global
     \/ /\ UNCHANGED count
        /\ \E held \in Newest(list) :
             LET o == held[2] IN
             IF o \in freed \/ Refs(o) # 1
               THEN Then(<<[Head(todo) EXCEPT !.list = list \ {held}]>>) /\ UNCHANGED global
               ELSE /\ global' = [global EXCEPT ![held[1]] = 0]
                    /\ Then(<<To("free", o), [Do("again") EXCEPT !.list = list \ {held}]>>)
  /\ UNCHANGED <<objects, spent, freed, fns, signals, request, history>>

\* free_object
Free ==
  /\ At("free")
  /\ IF Subject \in freed
       THEN Then(<<>>) /\ UNCHANGED freed
       ELSE Then(<<To("destruct", Subject), To("children", Subject)>>) /\ freed' = freed \cup {Subject}
  /\ UNCHANGED <<heap, spent, count, fns, signals, request, history>>

Children ==
  /\ At("children")
  /\ \E n \in 0 .. MaxObjects : \E held \in Bijection(1 .. n, objects[Subject].holds) :
       Then([i \in DOMAIN held |-> To("child", held[i])])
  /\ UNCHANGED <<heap, spent, freed, count, fns, signals, request, history>>

\* Mutant: everything the freed object held is freed with it.
ChildUncounted ==
  /\ At("child")
  /\ Then(IF Subject \notin freed THEN <<To("free", Subject)>> ELSE <<>>)
  /\ UNCHANGED <<heap, spent, freed, count, fns, signals, request, history>>

Child ==
  /\ At("child")
  /\ Then(IF Subject \notin freed /\ Refs(Subject) = 0 THEN <<To("free", Subject)>> ELSE <<>>)
  /\ UNCHANGED <<heap, spent, freed, count, fns, signals, request, history>>

\* Mutant: the newest object is left out.
RestButLast ==
  /\ At("rest")
  /\ IF Subject >= count
       THEN Then(<<Do("restore")>>) /\ sweep' = "whole"
       ELSE /\ Then(IF Subject \in freed THEN <<To("rest", Subject + 1)>>
                    ELSE <<To("destruct", Subject), To("rest", Subject + 1)>>)
            /\ UNCHANGED sweep
  /\ UNCHANGED <<heap, spent, freed, count, fns, signals, parked, result, history>>

\* Every object that is left, in creation order.
Rest ==
  /\ At("rest")
  /\ IF Subject > count
       THEN Then(<<Do("restore")>>) /\ sweep' = "whole"
       ELSE /\ Then(IF Subject \in freed THEN <<To("rest", Subject + 1)>>
                    ELSE <<To("destruct", Subject), To("rest", Subject + 1)>>)
            /\ UNCHANGED sweep
  /\ UNCHANGED <<heap, spent, freed, count, fns, signals, parked, result, history>>

\* destruct_one, and gen_destroy
Due(o) == o \notin spent /\ objects[o].kind # "array"
\* Mutant: what has been destroyed is not noted.
BeginUnmarked(o) == spent' = spent /\ begun' = [begun EXCEPT ![o] = @ + 1]

Begin(o) == spent' = spent \cup {o} /\ begun' = [begun EXCEPT ![o] = @ + 1]

Destruct ==
  /\ At("destruct")
  /\ IF Due(Subject)
       THEN Begin(Subject) /\ Call(Subject, To("escape", Subject))
       ELSE Then(<<>>) /\ UNCHANGED <<spent, begun>>
  /\ UNCHANGED <<heap, freed, count, fns, signals, request, acts, last>>

\* What a finally throws, gen_resume hands on as an error: it cuts the sweep
\* before shutdown_escape could report it, and stays pending.
Raised == thrown /\ objects[Subject].kind = "generator"

AfterDestructor ==
  /\ At("escape")
  /\ \/ (failed \/ Raised) /\ Cut
     \/ ~failed /\ ~Raised /\ thrown /\ Escapes
     \/ ~failed /\ ~thrown /\ Then(<<>>) /\ UNCHANGED <<signals, sweep>>
  /\ UNCHANGED <<heap, spent, freed, count, fns, parked, result, history>>

Restore ==
  /\ At("restore") /\ Unpark /\ Then(<<Do("generators")>>)
  /\ UNCHANGED <<heap, spent, freed, count, fns, thrown, failed, off, result, sweep, history>>

-----------------------------------------------------------------------------
(* shutdown_generators.                                                    *)

Generators ==
  /\ At("generators") /\ Park /\ count' = Len(objects) /\ Then(<<To("generator", 1)>>)
  /\ UNCHANGED <<heap, spent, freed, fns, thrown, failed, off, result, sweep, history>>

\* In creation order.  The first runs even while an exception of the sweep is
\* pending: gen_resume gives its body a context of its own, and puts the
\* exception back after it.
Generator ==
  /\ At("generator") /\ Subject <= count
  /\ \/ /\ objects[Subject].kind # "generator"
        /\ Then(<<To("generator", Subject + 1)>>) /\ UNCHANGED <<spent, begun, thrown>>
     \/ /\ objects[Subject].kind = "generator" /\ Due(Subject) /\ Begin(Subject) /\ thrown' = FALSE
        /\ Call(Subject, To(IF thrown THEN "unwound" ELSE "destroyed", Subject))
     \/ /\ objects[Subject].kind = "generator" /\ ~Due(Subject)
        /\ Then(<<To("destroyed", Subject)>>) /\ UNCHANGED <<spent, begun, thrown>>
  /\ UNCHANGED <<heap, freed, count, fns, exit, failed, off, request, acts, last>>

AfterGenerator ==
  /\ At("destroyed") /\ ~failed /\ ~Unwinding /\ Then(<<To("generator", Subject + 1)>>)
  /\ UNCHANGED <<heap, spent, freed, count, fns, signals, request, history>>

\* The first that leaves something unwinding is the last.
GeneratorsEnd ==
  /\ \/ At("generator") /\ Subject > count
     \/ At("destroyed") /\ (failed \/ Unwinding)
     \/ At("unwound")
  /\ Unpark /\ failed' = FALSE /\ thrown' = (thrown \/ At("unwound")) /\ Then(<<Do("over")>>)
  /\ UNCHANGED <<heap, spent, freed, count, fns, off, result, sweep, history>>

Terminated == At("over") /\ UNCHANGED vars

-----------------------------------------------------------------------------
Program == New \/ Store \/ Unset \/ Register \/ Throw \/ Exit \/ Fail

Host ==
  \/ CodeEnds \/ MainEnds \/ Handled \/ Report \/ Uncaught
  \/ Shutdown \/ ShutdownFn \/ AfterFn \/ Escaped \/ Destructors
  \/ Pass \/ NextGlobal \/ Free \/ Children \/ Child \/ Rest \/ Destruct \/ AfterDestructor
  \/ Restore \/ Generators \/ Generator \/ AfterGenerator \/ GeneratorsEnd

Next == Program \/ Host \/ Terminated

\* The host does not stop between its steps, and a callback comes to an end.
Spec == Init /\ [][Next]_vars /\ WF_vars(Host)

-----------------------------------------------------------------------------
TypeOK ==
  /\ objects \in Seq(Object) /\ Len(objects) <= MaxObjects
  /\ global \in [Names -> 0 .. MaxObjects]
  /\ spent \subseteq Made /\ freed \subseteq Made
  /\ count \in 0 .. MaxObjects /\ fns \in 0 .. MaxFns
  /\ todo \in Seq(Op) /\ \A i \in DOMAIN todo : todo[i].step \in Steps
  /\ thrown \in BOOLEAN /\ failed \in BOOLEAN /\ off \in BOOLEAN
  /\ exit \in 0 .. last /\ parked \in 0 .. last /\ last \in 0 .. MaxActs + 1
  /\ result \in {"none", "ok", "uncaught", "fatal", "silent"}
  /\ sweep \in {"none", "whole", "cut"}
  /\ acts \in 0 .. MaxActs /\ begun \in [Handles -> 0 .. 2]

\* "Objects whose __destruct the request-end sweep has already run, so neither
\* pass runs it twice"; nor does shutdown_generators after the sweep.
DestructedOnce == \A o \in Handles : begun[o] <= 1

\* "First the globals that alone hold an object are freed", then "whatever only
\* they were holding": what is freed is held by nothing that is not.
FreesOnlyGarbage ==
  At("destruct") /\ Subject \in freed /\ Due(Subject) => Refs(Subject) = 0

\* A sweep that nothing cuts short reaches every object there was.
SweepReachesAll ==
  At("restore") /\ sweep = "whole" => \A o \in 1 .. count : ~Due(o)

\* "Destructors only after a clean end, an exit, or an uncaught exception":
\* after a fatal error, one of the sweep's own included, no __destruct runs.
NoDestructorAfterFatal ==
  At("code") /\ Subject # 0 /\ objects[Subject].kind = "destructor" /\ ~Unwinding
    => result \in {"ok", "uncaught"} /\ ~off /\ sweep # "cut"

\* The status of the process is that of the last exit, although a status is
\* put aside twice while callbacks run that may exit themselves.
LastExitWins == At("over") => exit = last

\* "An exit status already set is parked across the sweep, or every callback
\* would see the run unwinding and return at once": no callback of the sweep
\* is called while the run unwinds.
CallbacksRun == At("destruct") /\ Due(Subject) => ~Unwinding

\* "An exception either lets escape is reported uncaught": none is pending
\* once the sweep is over.
EscapesReported == At("restore") => ~thrown

\* The request ends although the callbacks throw, exit, fail and register
\* others, which run_shutdown_fns runs too, as long as they register finitely
\* many; one that always registers itself again never ends.
RequestEnds == <>At("over")
=============================================================================
