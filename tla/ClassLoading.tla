---------------------------- MODULE ClassLoading ----------------------------
(***************************************************************************)
(* How classes come to be: a file is compiled and loaded by include, which *)
(* binds some of its classes at once and leaves the others to their        *)
(* statements; a class that is asked for and not there is looked up by     *)
(* calling the registered loaders, whose code includes files, asks for     *)
(* classes and changes the chain of loaders itself.                        *)
(*                                                                         *)
(* What the files hold is any short sequence of statements, made up when   *)
(* the file is first read.  The main program and the loaders are any code. *)
(***************************************************************************)
EXTENDS Naturals, SequencesExt

CONSTANTS
  Classes, Files, Loaders,
  NoClass,      \* what a class without a parent extends
  NoFile,       \* of what is not about a file
  MaxLen,       \* bound on the statements of a file
  MaxSource,    \* bound on the statements of the files together
  MaxLoads,     \* bound on the loads of files; after that they are missing
  MaxActs,      \* bound on what the main program and the loaders do
  Nested        \* whether functions declare classes too

ASSUME ClassLoadingAssumption ==
  /\ NoClass \notin Classes /\ NoFile \notin Files /\ IsFiniteSet(Loaders)
  /\ MaxLen \in Nat /\ MaxSource \in Nat /\ MaxLoads \in Nat /\ MaxActs \in Nat
  /\ Nested \in BOOLEAN

VARIABLES
  texts,        \* what the files hold, once they were read
  classes,      \* PhpHost.classes: for a class that is there, the load that declared it
  included,     \* PhpHost.included_files
  loaders,      \* PhpHost.autoloaders
  autoloading,  \* PhpHost.autoloading
  stack,        \* the code and the lookups under way, innermost last
  unwinding,    \* an exception, or a fatal error, is on its way up
  loads,        \* the loads so far, oldest first
  plain,        \* the files that a construct without _once has loaded
  acts          \* how much the main program and the loaders have done

vars == <<texts, classes, included, loaders, autoloading, stack, unwinding, loads, plain, acts>>

-----------------------------------------------------------------------------
\* A statement of a file: a class declaration, early if it neither implements
\* nor uses anything; a call of a function, the last of the file, that declares
\* a class; an include; an expression that needs a class.
Parents(c) == (Classes \cup {NoClass}) \ {c}
ClassStatements ==
  UNION {[does : {"early", "late"} \cup (IF Nested THEN {"nested"} ELSE {}), class : {c},
          parent : Parents(c), file : {NoFile}, once : {FALSE}] : c \in Classes}
IncludeStatements ==
  [does : {"include"}, class : {NoClass}, parent : {NoClass}, file : Files, once : BOOLEAN]
UseStatements ==
  [does : {"use"}, class : Classes, parent : {NoClass}, file : {NoFile}, once : {FALSE}]
Statements == ClassStatements \cup IncludeStatements \cup UseStatements
Texts == SeqOf(Statements, MaxLen)

\* What f may hold, given the files read so far.
TextsOf(f) ==
  IF f \in DOMAIN texts THEN {texts[f]}
  ELSE {text \in Texts : Len(text) + SumFunction([g \in DOMAIN texts |-> Len(texts[g])]) <= MaxSource}

\* What statements are compiled to: see Code.
Ops == [does : {"link", "declare", "redeclared", "include", "use", "found"}, class : Classes \cup {NoClass},
        parent : Classes \cup {NoClass}, file : Files \cup {NoFile}, once : BOOLEAN]

\* What is under way: the main program, a load of a file with what is left of it, the
\* lookup of a class with the loaders not yet called, a loader.
Frame == [kind : {"main", "file", "lookup", "loader"}, ops : Seq(Ops),
          class : Classes \cup {NoClass}, rest : Seq(Loaders), load : 0 .. MaxLoads]

Main == [kind |-> "main", ops |-> <<>>, class |-> NoClass, rest |-> <<>>, load |-> 0]
File(ops, load) == [Main EXCEPT !.kind = "file", !.ops = ops, !.load = load]
Lookup(c) == [Main EXCEPT !.kind = "lookup", !.class = c, !.rest = loaders]
Loader(l) == [Main EXCEPT !.kind = "loader", !.rest = <<l>>]

Declared == DOMAIN classes
Top == Last(stack)
Running == unwinding = "none"
Push(frame) == stack' = Append(stack, frame)
Pop == stack' = Front(stack)
OpsBecome(ops) == [stack EXCEPT ![Len(stack)].ops = ops]
With(map, key, value) == [x \in DOMAIN map \cup {key} |-> IF x = key THEN value ELSE map[x]]

-----------------------------------------------------------------------------
(* The compiler.                                                           *)

\* Whether a class statement is bound early where the classes of `bound` are already.
Binds(s, bound) ==
  /\ s.does = "early" /\ s.class \notin bound \cup Declared
  /\ s.parent \in bound \cup Declared \cup {NoClass}

\* early_bind: in source order, what is bound after the first i statements.
BoundBy(text) ==
  LET bound[i \in 0 .. Len(text)] ==
        IF i = 0 THEN {}
        ELSE bound[i - 1] \cup (IF Binds(text[i], bound[i - 1]) THEN {text[i].class} ELSE {})
  IN  bound

EarlyBound(text) == BoundBy(text)[Len(text)]

\* The statements that were bound early; a class bound twice is bound by the first.
EarlyAt(text) == {i \in DOMAIN text : Binds(text[i], BoundBy(text)[i - 1])}

\* Mutant: a class further down counts as declared.
BoundAnywhere(text, i) ==
  EarlyBound(text)
    \cup {text[j].class : j \in {k \in DOMAIN text \ {i} : text[k].does \in {"early", "late"}}}

\* class_decls when statement i is compiled: all that is early, and what the
\* statements before it bind; when the function at the end is, everything.
Bound(text, i) ==
  EarlyBound(text)
    \cup {text[j].class : j \in {k \in 1 .. i - 1 : text[k].does \in {"early", "late"}}}

Known(c, bound) == c \in bound \cup Declared \cup {NoClass}

Op(does, s) == [s EXCEPT !.does = does]

\* emit_link_checks and the declaration.  Only a parent that this compilation
\* cannot see declared is looked for when the declaration runs.
Declaration(s, bound) ==
  (IF Known(s.parent, bound) THEN <<>> ELSE <<Op("link", [s EXCEPT !.class = s.parent])>>)
    \o <<Op("declare", s)>>

Compiled(text, i) ==
  LET s == text[i] IN
  CASE s.does \in {"include", "use"} -> <<s>>
    [] s.does = "nested" -> Declaration(s, Bound(text, Len(text) + 1))
    [] OTHER -> IF i \in EarlyAt(text) THEN <<>>
                ELSE IF s.class \in Bound(text, i) \cup Declared THEN <<Op("redeclared", s)>>
                ELSE Declaration(s, Bound(text, i) \cup {s.class})

Code(text) == FlattenSeq([i \in DOMAIN text |-> Compiled(text, i)])

\* load_classes: what is bound early is there before the file runs.
Loaded(text, load) ==
  LET Definition(c) == [load |-> load, parent |-> text[CHOOSE i \in EarlyAt(text) : text[i].class = c].parent]
  IN  [c \in Declared \cup EarlyBound(text) |-> IF c \in EarlyBound(text) THEN Definition(c) ELSE classes[c]]

-----------------------------------------------------------------------------
\* The main program has registered some loaders; which ones does not matter.
Init ==
  /\ texts = << >> /\ classes = << >>
  /\ included = {} /\ autoloading = {}
  /\ loaders \in {SubSeq(SetToSeq(Loaders), 1, n) : n \in 0 .. Cardinality(Loaders)}
  /\ stack = <<Main>> /\ unwinding = "none"
  /\ loads = <<>> /\ plain = {} /\ acts = 0

-----------------------------------------------------------------------------
(* What code may ask for; `rest` is the stack as the asking code leaves it. *)

\* Mutant: a file is noted once it has compiled.
ReadThenRecorded(f, once, rest) ==
  /\ loads' = Append(loads, f)
  /\ plain' = IF once THEN plain ELSE plain \cup {f}
  /\ \/ /\ unwinding' = "throw" /\ stack' = rest /\ UNCHANGED <<texts, classes, included>>
     \/ \E text \in TextsOf(f) :
          /\ included' = included \cup {f}
          /\ texts' = With(texts, f, text)
          /\ IF f \in Range(loads) /\ \E i \in DOMAIN text : text[i].does = "nested"
               THEN unwinding' = "fatal" /\ stack' = rest /\ UNCHANGED classes
               ELSE /\ classes' = Loaded(text, Len(loads'))
                    /\ stack' = Append(rest, File(Code(text), Len(loads'))) /\ UNCHANGED unwinding

\* run_include and run_loaded.  A file counts as included before it is compiled.
Read(f, once, rest) ==
  /\ included' = included \cup {f}
  /\ loads' = Append(loads, f)
  /\ plain' = IF once THEN plain ELSE plain \cup {f}
  /\ \/ unwinding' = "throw" /\ stack' = rest /\ UNCHANGED <<texts, classes>>
     \/ \E text \in TextsOf(f) :
          /\ texts' = With(texts, f, text)
          /\ IF f \in Range(loads) /\ \E i \in DOMAIN text : text[i].does = "nested"
               THEN unwinding' = "fatal" /\ stack' = rest /\ UNCHANGED classes
               ELSE /\ classes' = Loaded(text, Len(loads'))
                    /\ stack' = Append(rest, File(Code(text), Len(loads'))) /\ UNCHANGED unwinding

Include(f, once, rest) ==
  LET missing == Len(loads) = MaxLoads
      seen == once /\ f \in included
  IN  \/ ~missing /\ ~seen /\ Read(f, once, rest)
      \/ /\ missing \/ seen
         /\ unwinding' = (IF missing THEN "throw" ELSE "none") /\ stack' = rest
         /\ UNCHANGED <<texts, classes, included, loads, plain>>

\* autoload: whether the chain is called at all.
CanLookup(c) == loaders # <<>> /\ c \notin autoloading

StartLookup(c, rest) ==
  /\ autoloading' = autoloading \cup {c}
  /\ stack' = Append(rest, Lookup(c))

-----------------------------------------------------------------------------
(* The main program and the loaders.                                       *)

AnyCode == Top.kind \in {"main", "loader"}
Act == AnyCode /\ Running /\ acts < MaxActs /\ acts' = acts + 1

CodeIncludes ==
  /\ Act /\ \E f \in Files, once \in BOOLEAN : Include(f, once, stack)
  /\ UNCHANGED <<loaders, autoloading>>

CodeAsks ==
  /\ Act /\ \E c \in Classes \ Declared : CanLookup(c) /\ StartLookup(c, stack)
  /\ UNCHANGED <<texts, classes, included, loaders, unwinding, loads, plain>>

CodeThrows ==
  /\ Act /\ unwinding' = "throw"
  /\ UNCHANGED <<texts, classes, included, loaders, autoloading, stack, loads, plain>>

\* autoload_register: a loader already in the chain stays where it is.
Register ==
  /\ Act
  /\ \E l \in Loaders \ Range(loaders) : loaders' \in {<<l>> \o loaders, Append(loaders, l)}
  /\ UNCHANGED <<texts, classes, included, autoloading, stack, unwinding, loads, plain>>

\* autoload_unregister
Unregister ==
  /\ Act /\ \E i \in DOMAIN loaders : loaders' = RemoveAt(loaders, i)
  /\ UNCHANGED <<texts, classes, included, autoloading, stack, unwinding, loads, plain>>

Catch ==
  /\ AnyCode /\ unwinding = "throw" /\ unwinding' = "none"
  /\ UNCHANGED <<texts, classes, included, loaders, autoloading, stack, loads, plain, acts>>

-----------------------------------------------------------------------------
(* A file runs.                                                            *)

InFile(does) == Top.kind = "file" /\ Running /\ Top.ops # <<>> /\ Head(Top.ops).does = does
Done == OpsBecome(Tail(Top.ops))

FileIncludes ==
  /\ InFile("include")
  /\ Include(Head(Top.ops).file, Head(Top.ops).once, Done)
  /\ UNCHANGED <<loaders, autoloading, acts>>

\* class_or_autoload: for an expression, and for what a declaration extends.
Asks ==
  /\ InFile("use") \/ InFile("link")
  /\ LET c == Head(Top.ops).class IN
     \/ c \in Declared /\ stack' = Done /\ UNCHANGED <<autoloading, unwinding>>
     \/ /\ c \notin Declared /\ CanLookup(c) /\ UNCHANGED unwinding
        /\ StartLookup(c, OpsBecome(<<[Head(Top.ops) EXCEPT !.does = "found"]>> \o Tail(Top.ops)))
     \/ /\ c \notin Declared /\ ~CanLookup(c)
        /\ unwinding' = "throw" /\ stack' = Done /\ UNCHANGED autoloading
  /\ UNCHANGED <<texts, classes, included, loaders, loads, plain, acts>>

\* Class "..." not found
Answered ==
  /\ InFile("found") /\ stack' = Done
  /\ unwinding' = (IF Head(Top.ops).class \in Declared THEN "none" ELSE "throw")
  /\ UNCHANGED <<texts, classes, included, loaders, autoloading, loads, plain, acts>>

\* Mutant: a class that a lookup has brought meanwhile is declared over.
DeclareOver ==
  /\ InFile("declare") /\ stack' = Done
  /\ LET s == Head(Top.ops) IN
     classes' = With(classes, s.class, [load |-> Top.load, parent |-> s.parent])
  /\ UNCHANGED <<texts, included, loaders, autoloading, unwinding, loads, plain, acts>>

\* declare_class_at
Declare ==
  /\ InFile("declare") /\ stack' = Done
  /\ LET s == Head(Top.ops) IN
     IF s.class \in Declared
       THEN unwinding' = "fatal" /\ UNCHANGED classes
       ELSE /\ classes' = With(classes, s.class, [load |-> Top.load, parent |-> s.parent])
            /\ UNCHANGED unwinding
  /\ UNCHANGED <<texts, included, loaders, autoloading, loads, plain, acts>>

\* Cannot redeclare class
Redeclared ==
  /\ InFile("redeclared") /\ stack' = Done /\ unwinding' = "fatal"
  /\ UNCHANGED <<texts, classes, included, loaders, autoloading, loads, plain, acts>>

-----------------------------------------------------------------------------
(* A lookup: the chain as it was when the lookup began.                    *)

\* Mutant: the chain starts over after every loader.
CallLoaderAgain ==
  /\ Top.kind = "lookup" /\ Running /\ Top.class \notin Declared /\ Top.rest # <<>>
  /\ stack' = Append(stack, Loader(Head(Top.rest)))
  /\ UNCHANGED <<texts, classes, included, loaders, autoloading, unwinding, loads, plain, acts>>

CallLoader ==
  /\ Top.kind = "lookup" /\ Running /\ Top.class \notin Declared /\ Top.rest # <<>>
  /\ stack' = Append([stack EXCEPT ![Len(stack)].rest = Tail(@)], Loader(Head(Top.rest)))
  /\ UNCHANGED <<texts, classes, included, loaders, autoloading, unwinding, loads, plain, acts>>

\* Mutant: a loader's error leaves the lookup before the mark is taken back.
LookupEndsMarked ==
  /\ Top.kind = "lookup" /\ (~Running \/ Top.class \in Declared \/ Top.rest = <<>>)
  /\ Pop /\ autoloading' = (IF Running THEN autoloading \ {Top.class} ELSE autoloading)
  /\ UNCHANGED <<texts, classes, included, loaders, unwinding, loads, plain, acts>>

LookupEnds ==
  /\ Top.kind = "lookup" /\ (~Running \/ Top.class \in Declared \/ Top.rest = <<>>)
  /\ Pop /\ autoloading' = autoloading \ {Top.class}
  /\ UNCHANGED <<texts, classes, included, loaders, unwinding, loads, plain, acts>>

\* A file that is over or halted, a loader that returns or is.
CodeEnds ==
  /\ Top.kind = "loader" \/ (Top.kind = "file" /\ (~Running \/ Top.ops = <<>>))
  /\ Pop
  /\ UNCHANGED <<texts, classes, included, loaders, autoloading, unwinding, loads, plain, acts>>

Terminated == stack = <<Main>> /\ UNCHANGED vars

-----------------------------------------------------------------------------
Program == CodeIncludes \/ CodeAsks \/ CodeThrows \/ Register \/ Unregister \/ Catch
Engine ==
  \/ FileIncludes \/ Asks \/ Answered \/ Declare \/ Redeclared
  \/ CallLoader \/ LookupEnds \/ CodeEnds
Next == Program \/ Engine \/ Terminated

\* The interpreter does not stop between its steps, a loader comes to an end.
Spec == Init /\ [][Next]_vars /\ WF_vars(Engine)

-----------------------------------------------------------------------------
TypeOK ==
  /\ DOMAIN texts \subseteq Files /\ Range(texts) \subseteq Texts
  /\ Declared \subseteq Classes
  /\ Range(classes) \subseteq [load : 1 .. MaxLoads, parent : Classes \cup {NoClass}]
  /\ included \subseteq Files /\ plain \subseteq included /\ Range(loads) = included
  /\ loaders \in Seq(Loaders) /\ autoloading \subseteq Classes
  /\ stack \in Seq(Frame) /\ Head(stack) = Main
  /\ unwinding \in {"none", "throw", "fatal"} /\ acts \in 0 .. MaxActs

\* However the files that declare a class include each other while one of them
\* waits for a parent, a class that is there stays the one it is.
NeverReplaced == [][\A c \in Declared : c \in DOMAIN classes' /\ classes'[c] = classes[c]]_vars

\* CLASS_LINK_CHECK: the parent of a class is "autoloaded if it is not declared
\* yet, and Class X not found if it is still missing": no class without it.
ParentsFirst == \A c \in Declared : classes[c].parent \in Declared \cup {NoClass}

\* "A loader that asks for the class it is loading is answered false": no class
\* is looked up twice at a time, and none stays marked when its lookup is over,
\* whatever ended it.
LookupsMarked ==
  LET asked == {i \in DOMAIN stack : stack[i].kind = "lookup"}
  IN  /\ autoloading = {stack[i].class : i \in asked}
      /\ \A i, j \in asked : stack[i].class = stack[j].class => i = j

\* A file that only _once constructs load runs once, although it may be asked
\* for while it is being loaded.
OnceLoadsOnce ==
  \A i, j \in DOMAIN loads : loads[i] = loads[j] /\ loads[i] \notin plain => i = j

\* "Each registered loader is called": one that has been unregistered is not.
CallsRegistered ==
  [][Len(stack') > Len(stack) /\ Last(stack').kind = "loader" => Last(stack').rest[1] \in Range(loaders)]_vars

\* Loaders that load, include and ask again do not keep a lookup from ending.
LookupsEnd == \A c \in Classes : c \in autoloading ~> c \notin autoloading
=============================================================================
