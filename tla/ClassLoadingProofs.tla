-------------------------- MODULE ClassLoadingProofs --------------------------
(***************************************************************************)
(* Theorems about ClassLoading, for any files, classes and loaders and any *)
(* bounds.                                                                 *)
(*                                                                         *)
(* Types comes first; on it rest, each by itself, that classes stay        *)
(* (Kept), that _once loads once, what is marked (Marked), and that        *)
(* parents are there (ParentsInv).                                         *)
(***************************************************************************)
EXTENDS ClassLoading, SequenceLemmas, FiniteSetTheorems

-----------------------------------------------------------------------------
(* What statements are compiled to.                                        *)

\* Class statements, includes and uses differ in the fields that mean something.
Shape ==
  [does : {"early", "late", "nested", "include", "use"}, class : Classes \cup {NoClass},
   parent : Classes \cup {NoClass}, file : Files \cup {NoFile}, once : BOOLEAN]

LEMMA StatementShape ==
  ASSUME NEW s \in Statements
  PROVE  /\ s \in Shape
         /\ s.does = "nested" => Nested
         /\ s.does \in {"early", "late", "nested"} => s.class \in Classes /\ s.parent # s.class
         /\ s.does = "use" => s.class \in Classes
         /\ s.does = "include" => s.file \in Files
<1>1. CASE s \in ClassStatements
  <2>1. PICK c \in Classes :
          s \in [does : {"early", "late"} \cup (IF Nested THEN {"nested"} ELSE {}), class : {c},
                 parent : Parents(c), file : {NoFile}, once : {FALSE}]
    BY <1>1 DEF ClassStatements
  <2> QED
    BY <2>1 DEF Parents, Shape
<1>2. CASE s \in IncludeStatements
  BY <1>2 DEF IncludeStatements, Shape
<1>3. CASE s \in UseStatements
  BY <1>3 DEF UseStatements, Shape
<1> QED
  BY <1>1, <1>2, <1>3 DEF Statements

LEMMA TextProperties ==
  ASSUME NEW text \in Texts
  PROVE  text \in Seq(Statements) /\ Len(text) \in Nat /\ DOMAIN text = 1 .. Len(text)
<1>1. PICK m \in 0 .. MaxLen : text \in [1 .. m -> Statements]
  BY DEF Texts, SeqOf
<1>2. m \in Nat
  BY ClassLoadingAssumption
<1> QED
  BY <1>1, <1>2, SeqDef

LEMMA TextsOfProperties ==
  ASSUME NEW f, NEW text \in TextsOf(f), \A g \in DOMAIN texts : texts[g] \in Texts
  PROVE  text \in Texts
BY DEF TextsOf

-----------------------------------------------------------------------------
(* What is bound early.                                                    *)

\* The recursive function in the definition of BoundBy.
Binding(b, text) ==
  b = [i \in 0 .. Len(text) |->
         IF i = 0 THEN {}
         ELSE b[i - 1] \cup (IF Binds(text[i], b[i - 1]) THEN {text[i].class} ELSE {})]

BindingTo(b, text, n) ==
  /\ b[0] = {}
  /\ \A i \in 1 .. n :
       b[i] = b[i - 1] \cup (IF Binds(text[i], b[i - 1]) THEN {text[i].class} ELSE {})

LEMMA BindingExists ==
  ASSUME NEW text
  PROVE  \A n \in Nat : \E b : BindingTo(b, text, n) /\ DOMAIN b = 0 .. n
<1> DEFINE N == {n \in Nat : \E b : BindingTo(b, text, n) /\ DOMAIN b = 0 .. n}
<1>1. 0 \in N
  <2> DEFINE b == [i \in 0 .. 0 |-> {}]
  <2>1. BindingTo(b, text, 0) /\ DOMAIN b = 0 .. 0
    BY DEF BindingTo
  <2> QED
    BY <2>1
<1>2. ASSUME NEW n \in Nat, n \in N
      PROVE  n + 1 \in N
  <2>1. PICK b : BindingTo(b, text, n) /\ DOMAIN b = 0 .. n
    BY <1>2
  <2> DEFINE x == b[n] \cup (IF Binds(text[n + 1], b[n]) THEN {text[n + 1].class} ELSE {})
             d == [i \in 0 .. n + 1 |-> IF i <= n THEN b[i] ELSE x]
  <2>2. d[0] = {} /\ \A i \in 0 .. n : d[i] = b[i]
    BY <2>1 DEF BindingTo
  <2>3. d[n + 1] = x
    OBVIOUS
  <2>4. DOMAIN d = 0 .. n + 1
    OBVIOUS
  <2> HIDE DEF d
  <2>5. ASSUME NEW i \in 1 .. n + 1
        PROVE  d[i] = d[i - 1] \cup (IF Binds(text[i], d[i - 1]) THEN {text[i].class} ELSE {})
    <3>1. CASE i <= n
      <4>1. b[i] = b[i - 1] \cup (IF Binds(text[i], b[i - 1]) THEN {text[i].class} ELSE {})
        BY <2>1, <3>1 DEF BindingTo
      <4>2. d[i] = b[i] /\ d[i - 1] = b[i - 1]
        BY <2>2, <3>1
      <4> QED
        BY <4>1, <4>2
    <3>2. CASE i = n + 1
      <4>1. d[i - 1] = b[n] /\ i - 1 = n
        BY <2>2, <3>2
      <4> QED
        BY <2>3, <3>2, <4>1
    <3> QED
      BY <3>1, <3>2
  <2>6. BindingTo(d, text, n + 1)
    BY <2>2, <2>5 DEF BindingTo
  <2> QED
    BY <2>4, <2>6
<1> HIDE DEF N
<1>3. Nat \subseteq N
  BY <1>1, <1>2, NatSetInduction
<1> QED
  BY <1>3 DEF N

LEMMA BoundByIs ==
  ASSUME NEW text \in Texts
  PROVE  BindingTo(BoundBy(text), text, Len(text))
<1> DEFINE b == CHOOSE d : Binding(d, text)
<1>1. Len(text) \in Nat
  BY TextProperties
<1>2. PICK d : BindingTo(d, text, Len(text)) /\ DOMAIN d = 0 .. Len(text)
  BY <1>1, BindingExists
<1> DEFINE f == [i \in 0 .. Len(text) |-> d[i]]
<1>3. Binding(f, text)
  <2>1. \A i \in 1 .. Len(text) : f[i - 1] = d[i - 1] /\ f[i] = d[i]
    BY <1>1
  <2>2. f[0] = {}
    BY <1>1, <1>2 DEF BindingTo
  <2>3. ASSUME NEW i \in 0 .. Len(text)
        PROVE  f[i] = IF i = 0 THEN {}
                      ELSE f[i - 1] \cup (IF Binds(text[i], f[i - 1]) THEN {text[i].class} ELSE {})
    <3>1. CASE i = 0
      BY <2>2, <3>1
    <3>2. CASE i # 0
      <4>1. d[i] = d[i - 1] \cup (IF Binds(text[i], d[i - 1]) THEN {text[i].class} ELSE {})
        BY <1>2, <3>2 DEF BindingTo
      <4> QED
        BY <2>1, <3>2, <4>1
    <3> QED
      BY <3>1, <3>2
  <2>4. f = [i \in 0 .. Len(text) |-> f[i]]
    OBVIOUS
  <2> HIDE DEF f
  <2>5. f = [i \in 0 .. Len(text) |->
               IF i = 0 THEN {}
               ELSE f[i - 1] \cup (IF Binds(text[i], f[i - 1]) THEN {text[i].class} ELSE {})]
    BY <2>3, <2>4
  <2> QED
    BY <2>5 DEF Binding
<1>4. Binding(b, text)
  BY <1>3
<1>5. BoundBy(text) = b
  BY Zenon DEF BoundBy, Binding
<1> HIDE DEF b
<1>6. ASSUME NEW i \in 0 .. Len(text)
      PROVE  b[i] = IF i = 0 THEN {}
                    ELSE b[i - 1] \cup (IF Binds(text[i], b[i - 1]) THEN {text[i].class} ELSE {})
  <2> DEFINE g == [k \in 0 .. Len(text) |->
                     IF k = 0 THEN {}
                     ELSE b[k - 1] \cup (IF Binds(text[k], b[k - 1]) THEN {text[k].class} ELSE {})]
  <2>1. g[i] = IF i = 0 THEN {}
               ELSE b[i - 1] \cup (IF Binds(text[i], b[i - 1]) THEN {text[i].class} ELSE {})
    OBVIOUS
  <2>2. b = g
    BY <1>4, Zenon DEF Binding
  <2> HIDE DEF g
  <2> QED
    BY <2>1, <2>2, Zenon
<1> HIDE DEF f
<1>7. b[0] = {}
  <2>1. 0 \in 0 .. Len(text)
    BY <1>1
  <2>2. b[0] = IF 0 = 0 THEN {}
               ELSE b[0 - 1] \cup (IF Binds(text[0], b[0 - 1]) THEN {text[0].class} ELSE {})
    BY <1>6, <2>1, Zenon
  <2> QED
    BY <2>2, Zenon
<1>8. ASSUME NEW i \in 1 .. Len(text)
      PROVE  b[i] = b[i - 1] \cup (IF Binds(text[i], b[i - 1]) THEN {text[i].class} ELSE {})
  <2>1. i \in 0 .. Len(text) /\ i # 0
    BY <1>1
  <2>2. b[i] = IF i = 0 THEN {}
               ELSE b[i - 1] \cup (IF Binds(text[i], b[i - 1]) THEN {text[i].class} ELSE {})
    BY <1>6, <2>1, Zenon
  <2> QED
    BY <2>1, <2>2
<1> QED
  BY <1>5, <1>7, <1>8 DEF BindingTo

\* What is bound early is new, has a statement, and that statement's parent is
\* there when all early classes are.
LEMMA EarlyProperties ==
  ASSUME NEW text \in Texts
  PROVE  /\ EarlyBound(text) \subseteq Classes
         /\ EarlyBound(text) \cap Declared = {}
         /\ \A c \in EarlyBound(text) : \E i \in EarlyAt(text) : text[i].class = c
         /\ \A i \in EarlyAt(text) :
              /\ text[i].class \in EarlyBound(text)
              /\ text[i].parent \in EarlyBound(text) \cup Declared \cup {NoClass}
<1> DEFINE b == BoundBy(text)
           n == Len(text)
<1>1. n \in Nat /\ DOMAIN text = 1 .. n /\ \A i \in 1 .. n : text[i] \in Statements
  BY TextProperties, ElementOfSeq
<1>2. BindingTo(b, text, n)
  BY BoundByIs
<1>3. EarlyAt(text) = {i \in 1 .. n : Binds(text[i], b[i - 1])}
  BY <1>1 DEF EarlyAt
<1> HIDE DEF b
<1> DEFINE N == {k \in Nat : k \in 0 .. n =>
                   /\ b[k] \subseteq Classes /\ b[k] \cap Declared = {}
                   /\ \A c \in b[k] : \E i \in EarlyAt(text) : text[i].class = c
                   /\ \A i \in EarlyAt(text) : i <= k =>
                        /\ text[i].class \in b[k]
                        /\ text[i].parent \in b[k] \cup Declared \cup {NoClass}}
<1>4. 0 \in N
  <2>1. b[0] = {}
    BY <1>2 DEF BindingTo
  <2>2. \A i \in EarlyAt(text) : ~ (i <= 0)
    BY <1>1, <1>3
  <2> QED
    BY <2>1, <2>2
<1>5. ASSUME NEW k \in Nat, k \in N
      PROVE  k + 1 \in N
  <2> SUFFICES ASSUME k + 1 \in 1 .. n PROVE k + 1 \in N
    BY <1>1
  <2> DEFINE s == text[k + 1]
  <2>1. /\ b[k] \subseteq Classes /\ b[k] \cap Declared = {}
        /\ \A c \in b[k] : \E i \in EarlyAt(text) : text[i].class = c
        /\ \A i \in EarlyAt(text) : i <= k =>
                        /\ text[i].class \in b[k]
                        /\ text[i].parent \in b[k] \cup Declared \cup {NoClass}
    BY <1>1, <1>5
  <2>2. b[k + 1] = b[k] \cup (IF Binds(s, b[k]) THEN {s.class} ELSE {})
    <3>1. \A i \in 1 .. n :
            b[i] = b[i - 1] \cup (IF Binds(text[i], b[i - 1]) THEN {text[i].class} ELSE {})
      BY <1>2 DEF BindingTo
    <3>2. (k + 1) - 1 = k
      OBVIOUS
    <3> QED
      BY <3>1, <3>2
  <2>3. k + 1 \in EarlyAt(text) <=> Binds(s, b[k])
    BY <1>3
  <2>4. s \in Statements
    BY <1>1
  <2>5. Binds(s, b[k]) => /\ s.class \in Classes /\ s.class \notin Declared
                          /\ s.parent \in b[k] \cup Declared \cup {NoClass}
    BY <2>4, StatementShape DEF Binds
  <2>6. \A i \in EarlyAt(text) : i <= k + 1 => i <= k \/ i = k + 1
    BY <1>1, <1>3
  <2> HIDE DEF s
  <2>7. b[k + 1] \subseteq Classes /\ b[k + 1] \cap Declared = {}
    BY <2>1, <2>2, <2>5
  <2>8. \A c \in b[k + 1] : \E i \in EarlyAt(text) : text[i].class = c
    BY <2>1, <2>2, <2>3 DEF s
  <2>9. \A i \in EarlyAt(text) : i <= k + 1 =>
                        /\ text[i].class \in b[k + 1]
                        /\ text[i].parent \in b[k + 1] \cup Declared \cup {NoClass}
    BY <2>1, <2>2, <2>3, <2>5, <2>6 DEF s
  <2> QED
    BY <2>7, <2>8, <2>9
<1> HIDE DEF N
<1>6. Nat \subseteq N
  BY <1>4, <1>5, NatSetInduction
<1>7. n \in N /\ n \in 0 .. n /\ \A i \in EarlyAt(text) : i <= n
  BY <1>1, <1>3, <1>6
<1> QED
  BY <1>7 DEF N, EarlyBound, b

-----------------------------------------------------------------------------
(* Types.                                                                  *)

\* An operation that means a class or a file has one.
ProperOps ==
  {o \in Ops : /\ o.does \in {"link", "declare", "use", "found"} => o.class \in Classes
               /\ o.does = "include" => o.file \in Files}

ProperFrames ==
  {x \in Frame : /\ x.ops \in Seq(ProperOps)
                 /\ x.kind = "file" => x.load # 0
                 /\ x.kind = "lookup" => x.class \in Classes}

\* The main program is at the bottom and nowhere else.
ProperStack(s) ==
  /\ s \in Seq(ProperFrames) /\ s # <<>> /\ s[1] = Main
  /\ \A i \in 1 .. Len(s) : s[i].kind = "main" <=> i = 1

LoadTypes ==
  /\ DOMAIN texts \subseteq Files /\ \A f \in DOMAIN texts : texts[f] \in Texts
  /\ Declared \subseteq Classes
  /\ \A c \in Declared : classes[c] \in [load : 1 .. MaxLoads, parent : Classes \cup {NoClass}]
  /\ included \subseteq Files /\ plain \subseteq included /\ Range(loads) = included
  /\ loads \in Seq(Files) /\ Len(loads) <= MaxLoads

ChainTypes ==
  loaders \in Seq(Loaders) /\ autoloading \subseteq Classes /\ acts \in 0 .. MaxActs

Types ==
  LoadTypes /\ ChainTypes /\ ProperStack(stack) /\ unwinding \in {"none", "throw", "fatal"}

LEMMA ProperDeclaration ==
  ASSUME NEW s \in Statements, s.does \in {"early", "late", "nested"}, NEW bound
  PROVE  Declaration(s, bound) \in Seq(ProperOps)
<1>1. s \in Shape /\ s.class \in Classes
  BY StatementShape
<1>2. Op("declare", s) \in ProperOps
  BY <1>1 DEF Shape, Ops, Op, ProperOps
<1>3. ~ Known(s.parent, bound) => Op("link", [s EXCEPT !.class = s.parent]) \in ProperOps
  BY <1>1 DEF Shape, Ops, Op, ProperOps, Known
<1> QED
  BY <1>2, <1>3 DEF Declaration

LEMMA ProperCompiled ==
  ASSUME NEW text \in Texts, NEW i \in DOMAIN text
  PROVE  Compiled(text, i) \in Seq(ProperOps)
<1> DEFINE s == text[i]
<1>1. s \in Statements
  BY TextProperties, ElementOfSeq
<1>2. s \in Shape /\ (s.does = "use" => s.class \in Classes) /\ (s.does = "include" => s.file \in Files)
  BY <1>1, StatementShape
<1> HIDE DEF s
<1>3. s.does \in {"include", "use"} => <<s>> \in Seq(ProperOps)
  <2>1. s.does \in {"include", "use"} => s \in ProperOps
    BY <1>2 DEF Shape, Ops, ProperOps
  <2> QED
    BY <2>1
<1>4. <<Op("redeclared", s)>> \in Seq(ProperOps)
  BY <1>2 DEF Shape, Ops, Op, ProperOps
<1>5. s.does \in {"early", "late", "nested"} => \A bound : Declaration(s, bound) \in Seq(ProperOps)
  BY <1>1, ProperDeclaration
<1>6. s.does \in {"early", "late", "nested", "include", "use"}
  BY <1>2 DEF Shape
<1>7. CASE s.does \in {"include", "use"}
  BY <1>3, <1>7 DEF Compiled, s
<1>8. CASE s.does = "nested"
  BY <1>5, <1>8 DEF Compiled, s
<1>9. CASE s.does \in {"early", "late"}
  <2>1. <<>> \in Seq(ProperOps)
    OBVIOUS
  <2>2. Compiled(text, i) = IF i \in EarlyAt(text) THEN <<>>
                ELSE IF s.class \in Bound(text, i) \cup Declared THEN <<Op("redeclared", s)>>
                ELSE Declaration(s, Bound(text, i) \cup {s.class})
    BY <1>9 DEF Compiled, s
  <2> QED
    BY <1>4, <1>5, <1>9, <2>1, <2>2
<1> QED
  BY <1>6, <1>7, <1>8, <1>9

LEMMA CodeSeq ==
  ASSUME NEW text \in Texts
  PROVE  [i \in DOMAIN text |-> Compiled(text, i)] \in Seq(Seq(ProperOps))
<1>1. DOMAIN text = 1 .. Len(text) /\ Len(text) \in Nat
  BY TextProperties
<1>2. [i \in DOMAIN text |-> Compiled(text, i)] \in [1 .. Len(text) -> Seq(ProperOps)]
  BY <1>1, ProperCompiled
<1> QED
  BY <1>1, <1>2, SeqDef

LEMMA ProperCode ==
  ASSUME NEW text \in Texts
  PROVE  Code(text) \in Seq(ProperOps)
BY CodeSeq, FlattenType DEF Code

\* What loading a file declares: the early classes, beside what was there.
Loads(map, text, load) ==
  /\ DOMAIN map = Declared \cup EarlyBound(text)
  /\ \A c \in Declared : map[c] = classes[c]
  /\ \A c \in EarlyBound(text) :
       \E i \in EarlyAt(text) : text[i].class = c /\ map[c] = [load |-> load, parent |-> text[i].parent]

LEMMA LoadedProperties ==
  ASSUME NEW text \in Texts, NEW load
  PROVE  Loads(Loaded(text, load), text, load)
<1> DEFINE Definition(c) ==
             [load |-> load, parent |-> text[CHOOSE i \in EarlyAt(text) : text[i].class = c].parent]
<1>1. Loaded(text, load) =
        [c \in Declared \cup EarlyBound(text) |-> IF c \in EarlyBound(text) THEN Definition(c) ELSE classes[c]]
  BY DEF Loaded
<1>2. EarlyBound(text) \cap Declared = {}
  BY EarlyProperties
<1>3. \A c \in EarlyBound(text) : \E i \in EarlyAt(text) : text[i].class = c
  BY EarlyProperties
<1>4. \A c \in EarlyBound(text) :
        \E i \in EarlyAt(text) :
          text[i].class = c /\ Definition(c) = [load |-> load, parent |-> text[i].parent]
  BY <1>3
<1> HIDE DEF Definition
<1> QED
  BY <1>1, <1>2, <1>4 DEF Loads

\* The stack after the changes that the actions make to it.
LEMMA StackAppend ==
  ASSUME NEW s, ProperStack(s), NEW x \in ProperFrames, x.kind # "main"
  PROVE  ProperStack(Append(s, x))
<1>1. s \in Seq(ProperFrames) /\ s # <<>> /\ Len(s) \in Nat
  BY DEF ProperStack
<1>2. /\ Append(s, x) \in Seq(ProperFrames)
      /\ Len(Append(s, x)) = Len(s) + 1
      /\ \A i \in 1 .. Len(s) : Append(s, x)[i] = s[i]
      /\ Append(s, x)[Len(s) + 1] = x
  BY <1>1, AppendProperties
<1>3. Len(s) >= 1
  BY <1>1, EmptySeq
<1> QED
  BY <1>1, <1>2, <1>3, EmptySeq DEF ProperStack

LEMMA StackTop ==
  ASSUME ProperStack(stack)
  PROVE  /\ Len(stack) \in Nat /\ Len(stack) >= 1
         /\ Top = stack[Len(stack)] /\ Top \in ProperFrames
         /\ Top.kind = "main" <=> Len(stack) = 1
<1>1. stack \in Seq(ProperFrames) /\ Len(stack) \in Nat /\ Len(stack) >= 1
  BY EmptySeq DEF ProperStack
<1>2. Top = stack[Len(stack)]
  BY DEF Top, Last
<1>3. Len(stack) \in 1 .. Len(stack)
  BY <1>1
<1>4. Top \in ProperFrames
  BY <1>1, <1>2, <1>3, ElementOfSeq
<1>5. Top.kind = "main" <=> Len(stack) = 1
  BY <1>2, <1>3 DEF ProperStack
<1> QED
  BY <1>1, <1>2, <1>4, <1>5

LEMMA StackOps ==
  ASSUME ProperStack(stack), Top.kind = "file", NEW ops \in Seq(ProperOps)
  PROVE  /\ ProperStack(OpsBecome(ops))
         /\ Len(OpsBecome(ops)) = Len(stack)
         /\ \A i \in 1 .. Len(stack) :
              OpsBecome(ops)[i] = IF i = Len(stack) THEN [Top EXCEPT !.ops = ops] ELSE stack[i]
<1> DEFINE s == OpsBecome(ops)
           x == [Top EXCEPT !.ops = ops]
<1>1. /\ Len(stack) \in Nat /\ Len(stack) >= 1 /\ Top = stack[Len(stack)] /\ Top \in ProperFrames
      /\ stack \in Seq(ProperFrames) /\ Len(stack) # 1
  BY StackTop DEF ProperStack
<1>2. x \in ProperFrames /\ x.kind = "file"
  <2>1. Seq(ProperOps) \subseteq Seq(Ops)
    BY DEF ProperOps
  <2> QED
    BY <1>1, <2>1 DEF ProperFrames, Frame
<1>3. \A i \in 1 .. Len(stack) : s[i] = IF i = Len(stack) THEN x ELSE stack[i]
  BY <1>1 DEF OpsBecome
<1>4. s \in Seq(ProperFrames) /\ Len(s) = Len(stack)
  BY <1>1, <1>2 DEF OpsBecome
<1> HIDE DEF s, x
<1>5. ProperStack(s)
  BY <1>1, <1>2, <1>3, <1>4 DEF ProperStack
<1> QED
  BY <1>3, <1>4, <1>5 DEF s, x

LEMMA StackRest ==
  ASSUME ProperStack(stack), Top.kind = "lookup", Tail(Top.rest) \in Seq(Loaders)
  PROVE  /\ ProperStack([stack EXCEPT ![Len(stack)].rest = Tail(@)])
         /\ Len([stack EXCEPT ![Len(stack)].rest = Tail(@)]) = Len(stack)
         /\ \A i \in 1 .. Len(stack) :
              [stack EXCEPT ![Len(stack)].rest = Tail(@)][i] =
                IF i = Len(stack) THEN [Top EXCEPT !.rest = Tail(Top.rest)] ELSE stack[i]
<1> DEFINE s == [stack EXCEPT ![Len(stack)].rest = Tail(@)]
           x == [Top EXCEPT !.rest = Tail(Top.rest)]
<1>1. /\ Len(stack) \in Nat /\ Len(stack) >= 1 /\ Top = stack[Len(stack)] /\ Top \in ProperFrames
      /\ stack \in Seq(ProperFrames) /\ Len(stack) # 1
  BY StackTop DEF ProperStack
<1>2. x \in ProperFrames /\ x.kind = "lookup"
  BY <1>1 DEF ProperFrames, Frame
<1>3. \A i \in 1 .. Len(stack) : s[i] = IF i = Len(stack) THEN x ELSE stack[i]
  BY <1>1
<1>4. s \in Seq(ProperFrames) /\ Len(s) = Len(stack)
  BY <1>1, <1>2
<1> HIDE DEF s, x
<1>5. ProperStack(s)
  BY <1>1, <1>2, <1>3, <1>4 DEF ProperStack
<1> QED
  BY <1>3, <1>4, <1>5 DEF s, x

LEMMA StackFront ==
  ASSUME ProperStack(stack), Top.kind # "main"
  PROVE  /\ ProperStack(Front(stack)) /\ Len(Front(stack)) = Len(stack) - 1
         /\ \A i \in 1 .. Len(stack) - 1 : Front(stack)[i] = stack[i]
<1>1. /\ stack \in Seq(ProperFrames) /\ stack # <<>> /\ Len(stack) \in Nat /\ Len(stack) # 1 /\ Len(stack) >= 1
  BY StackTop DEF ProperStack
<1>2. /\ Front(stack) \in Seq(ProperFrames) /\ Len(Front(stack)) = Len(stack) - 1
      /\ \A i \in 1 .. Len(stack) - 1 : Front(stack)[i] = stack[i]
  <2>1. \A i \in 1 .. Len(stack) - 1 : stack[i] \in ProperFrames
    BY <1>1, ElementOfSeq
  <2> DEFINE m == Len(stack) - 1
             t == SubSeq(stack, 1, m)
  <2>2. m \in Nat /\ m >= 1
    <3> DEFINE n == Len(stack)
    <3>1. n \in Nat /\ n >= 1 /\ n # 1
      BY <1>1
    <3> HIDE DEF n
    <3>2. n - 1 \in Nat /\ n - 1 >= 1
      BY <3>1
    <3> QED
      BY <3>2 DEF n
  <2> HIDE DEF m
  <2>3. /\ t \in Seq(ProperFrames) /\ Len(t) = IF 1 <= m THEN m - 1 + 1 ELSE 0
        /\ \A i \in 1 .. m - 1 + 1 : t[i] = stack[1 + i - 1]
    BY <2>1, <2>2, SubSeqProperties DEF m
  <2> HIDE DEF t
  <2>4. t \in Seq(ProperFrames) /\ Len(t) = m /\ \A i \in 1 .. m : t[i] = stack[i]
    BY <2>2, <2>3
  <2> QED
    BY <2>4 DEF Front, m, t
<1> HIDE DEF Front
<1> QED
  BY <1>1, <1>2 DEF ProperStack

\* Pushing what the actions push.
LEMMA FrameTypes ==
  /\ Main \in ProperFrames
  /\ \A ops \in Seq(ProperOps), load \in 1 .. MaxLoads :
       File(ops, load) \in ProperFrames /\ File(ops, load).kind = "file" /\ File(ops, load).ops = ops
         /\ File(ops, load).class = NoClass
  /\ \A c \in Classes :
       ChainTypes => Lookup(c) \in ProperFrames /\ Lookup(c).kind = "lookup" /\ Lookup(c).class = c
  /\ \A l \in Loaders : Loader(l) \in ProperFrames /\ Loader(l).kind = "loader"
<1>1. Seq(ProperOps) \subseteq Seq(Ops)
  BY DEF ProperOps
<1>2. 0 \in 0 .. MaxLoads /\ 1 .. MaxLoads \subseteq 0 .. MaxLoads \ {0}
  BY ClassLoadingAssumption
<1>3. <<>> \in Seq(ProperOps) /\ <<>> \in Seq(Loaders) /\ \A l \in Loaders : <<l>> \in Seq(Loaders)
  OBVIOUS
<1>4. Main \in ProperFrames
  BY <1>1, <1>2, <1>3 DEF Main, ProperFrames, Frame
<1>5. ASSUME NEW ops \in Seq(ProperOps), NEW load \in 1 .. MaxLoads
      PROVE  /\ File(ops, load) \in ProperFrames /\ File(ops, load).kind = "file"
             /\ File(ops, load).ops = ops /\ File(ops, load).class = NoClass
  BY <1>1, <1>2, <1>3 DEF Main, ProperFrames, Frame, File
<1>6. ASSUME NEW c \in Classes, ChainTypes
      PROVE  Lookup(c) \in ProperFrames /\ Lookup(c).kind = "lookup" /\ Lookup(c).class = c
  BY <1>1, <1>2, <1>3, <1>6 DEF Main, ProperFrames, Frame, Lookup, ChainTypes
<1>7. ASSUME NEW l \in Loaders
      PROVE  Loader(l) \in ProperFrames /\ Loader(l).kind = "loader"
  BY <1>1, <1>2, <1>3 DEF Main, ProperFrames, Frame, Loader
<1> QED
  BY <1>4, <1>5, <1>6, <1>7

LEMMA TypesImplyTypeOK == Types => TypeOK
<1> SUFFICES ASSUME Types PROVE TypeOK
  OBVIOUS
<1>1. Seq(ProperFrames) \subseteq Seq(Frame)
  BY DEF ProperFrames
<1>2. stack \in Seq(Frame) /\ Head(stack) = Main
  BY <1>1 DEF Types, ProperStack
<1> QED
  BY <1>2 DEF Types, TypeOK, LoadTypes, ChainTypes, Range, Declared

\* What an include leaves, whichever way it goes.
LEMMA IncludeTypes ==
  ASSUME LoadTypes, unwinding = "none", NEW f \in Files, NEW once \in BOOLEAN,
         NEW rest, ProperStack(rest), Include(f, once, rest)
  PROVE  LoadTypes' /\ ProperStack(stack') /\ unwinding' \in {"none", "throw", "fatal"}
<1>1. Len(loads) \in Nat /\ MaxLoads \in Nat
  BY ClassLoadingAssumption DEF LoadTypes
<1>2. CASE Read(f, once, rest) /\ Len(loads) # MaxLoads
  <2>1. /\ loads' \in Seq(Files) /\ Len(loads') = Len(loads) + 1 /\ Len(loads') \in 1 .. MaxLoads
        /\ Range(loads') = Range(loads) \cup {f}
    <3>1. loads' = Append(loads, f) /\ loads \in Seq(Files) /\ Len(loads) <= MaxLoads
      BY <1>2 DEF LoadTypes, Read
    <3>2. loads' \in Seq(Files) /\ Len(loads') = Len(loads) + 1
      BY <3>1
    <3>3. Len(loads') \in 1 .. MaxLoads
      BY <1>1, <1>2, <3>1, <3>2
    <3>4. Range(loads') = Range(loads) \cup {f}
      BY <3>1 DEF Range
    <3> QED
      BY <3>2, <3>3, <3>4
  <2>2. included' = included \cup {f} /\ plain' \subseteq included' /\ Range(loads') = included'
        /\ included' \subseteq Files
    BY <1>2, <2>1 DEF Read, LoadTypes
  <2>3. CASE unwinding' = "throw" /\ stack' = rest /\ UNCHANGED <<texts, classes>>
    BY <2>1, <2>2, <2>3 DEF LoadTypes, Declared
  <2>4. ASSUME NEW text \in TextsOf(f), texts' = With(texts, f, text)
        PROVE  text \in Texts /\ DOMAIN texts' \subseteq Files /\ \A g \in DOMAIN texts' : texts'[g] \in Texts
    BY <2>4, TextsOfProperties DEF LoadTypes, With
  <2>5. ASSUME NEW text \in TextsOf(f), texts' = With(texts, f, text),
               unwinding' = "fatal", stack' = rest, UNCHANGED classes
        PROVE  LoadTypes' /\ ProperStack(stack') /\ unwinding' \in {"none", "throw", "fatal"}
    BY <2>1, <2>2, <2>4, <2>5 DEF LoadTypes, Declared
  <2>6. ASSUME NEW text \in TextsOf(f), texts' = With(texts, f, text),
               classes' = Loaded(text, Len(loads')),
               stack' = Append(rest, File(Code(text), Len(loads'))), UNCHANGED unwinding
        PROVE  LoadTypes' /\ ProperStack(stack') /\ unwinding' \in {"none", "throw", "fatal"}
    <3>1. text \in Texts
      BY <2>4, <2>6
    <3>2. /\ DOMAIN classes' \subseteq Classes
          /\ \A c \in DOMAIN classes' : classes'[c] \in [load : 1 .. MaxLoads, parent : Classes \cup {NoClass}]
      <4>1. /\ DOMAIN classes' = Declared \cup EarlyBound(text)
            /\ \A c \in Declared : classes'[c] = classes[c]
            /\ \A c \in EarlyBound(text) :
                 \E i \in EarlyAt(text) :
                   text[i].class = c /\ classes'[c] = [load |-> Len(loads'), parent |-> text[i].parent]
        <5> DEFINE n == Len(loads')
        <5>1. classes' = Loaded(text, n)
          BY <2>6
        <5> HIDE DEF n
        <5>2. Loads(classes', text, n)
          BY <3>1, <5>1, LoadedProperties
        <5> QED
          BY <5>2 DEF n, Loads
      <4>2. \A i \in EarlyAt(text) : text[i].parent \in Classes \cup {NoClass}
        <5>1. \A i \in EarlyAt(text) : text[i] \in Statements
          BY <3>1, TextProperties, ElementOfSeq DEF EarlyAt
        <5> QED
          BY <5>1, StatementShape DEF Shape
      <4> QED
        BY <2>1, <3>1, <4>1, <4>2, EarlyProperties DEF LoadTypes
    <3>3. ProperStack(stack')
      <4>1. Code(text) \in Seq(ProperOps)
        BY <3>1, ProperCode
      <4>2. /\ File(Code(text), Len(loads')) \in ProperFrames
            /\ File(Code(text), Len(loads')).kind = "file"
        BY <2>1, <4>1, FrameTypes
      <4> QED
        BY <2>6, <4>2, StackAppend
    <3> QED
      BY <2>1, <2>2, <2>4, <2>6, <3>2, <3>3 DEF LoadTypes, Declared
  <2> QED
    BY <1>2, <2>3, <2>5, <2>6 DEF Read
<1>3. CASE /\ unwinding' \in {"throw", "none"} /\ stack' = rest
           /\ UNCHANGED <<texts, classes, included, loads, plain>>
  BY <1>3 DEF LoadTypes, Declared
<1> QED
  BY <1>2, <1>3 DEF Include

LEMMA InFileTop ==
  ASSUME ProperStack(stack), NEW does, InFile(does)
  PROVE  /\ Top.kind = "file" /\ Top.ops \in Seq(ProperOps) /\ Top.ops # <<>> /\ Running
         /\ Head(Top.ops) \in ProperOps /\ Tail(Top.ops) \in Seq(ProperOps) /\ Head(Top.ops).does = does
         /\ ProperStack(Done)
<1>1. Top.kind = "file" /\ Top.ops \in Seq(ProperOps) /\ Top.ops # <<>>
  BY StackTop DEF InFile, ProperFrames
<1>2. Head(Top.ops) \in ProperOps /\ Tail(Top.ops) \in Seq(ProperOps)
  BY <1>1
<1>3. ProperStack(Done)
  BY <1>1, <1>2, StackOps DEF Done
<1> QED
  BY <1>1, <1>2, <1>3 DEF InFile

LEMMA InitTypes == Init => Types
<1> SUFFICES ASSUME Init PROVE Types
  OBVIOUS
<1>1. LoadTypes
  <2>1. DOMAIN texts = {} /\ DOMAIN classes = {} /\ DOMAIN loads = {} /\ loads = <<>>
    BY DEF Init
  <2>2. Range(loads) = {}
    BY <2>1 DEF Range
  <2>3. loads \in Seq(Files) /\ Len(loads) = 0 /\ 0 <= MaxLoads
    BY <2>1, ClassLoadingAssumption
  <2>4. included = {} /\ plain = {}
    BY DEF Init
  <2> QED
    BY <2>1, <2>2, <2>3, <2>4 DEF LoadTypes, Declared
<1>2. loaders \in Seq(Loaders)
  <2>1. IsFiniteSet(Loaders)
    BY ClassLoadingAssumption
  <2> DEFINE n == Cardinality(Loaders)
  <2>2. n \in Nat /\ \E f : f \in Bijection(1 .. n, Loaders)
    BY <2>1, FS_CardinalityType DEF ExistsBijection
  <2>3. \E f \in [1 .. n -> Loaders] : IsInjective(f)
    BY <2>2 DEF Bijection, Injection, IsInjective
  <2>4. SetToSeq(Loaders) \in [1 .. n -> Loaders]
    BY <2>3 DEF SetToSeq
  <2>5. PICK m \in 0 .. n : loaders = SubSeq(SetToSeq(Loaders), 1, m)
    BY DEF Init
  <2> HIDE DEF n
  <2>6. m \in Int /\ 1 \in Int /\ \A i \in 1 .. m : SetToSeq(Loaders)[i] \in Loaders
    BY <2>2, <2>4
  <2>7. SubSeq(SetToSeq(Loaders), 1, m) \in Seq(Loaders)
    BY <2>6, SubSeqProperties
  <2> QED
    BY <2>5, <2>7
<1>3. ChainTypes
  BY <1>2, ClassLoadingAssumption DEF Init, ChainTypes
<1>4. ProperStack(stack)
  <2>1. <<Main>> \in Seq(ProperFrames) /\ Len(<<Main>>) = 1 /\ <<Main>>[1] = Main
    BY FrameTypes
  <2>2. Main.kind = "main"
    BY DEF Main
  <2> QED
    BY <2>1, <2>2, EmptySeq DEF Init, ProperStack
<1> QED
  BY <1>1, <1>3, <1>4 DEF Types, Init

LEMMA TypesStep == Types /\ [Next]_vars => Types'
<1> SUFFICES ASSUME Types, [Next]_vars PROVE Types'
  OBVIOUS
<1>0. /\ LoadTypes /\ ChainTypes /\ ProperStack(stack)
      /\ unwinding \in {"none", "throw", "fatal"}
  BY DEF Types
<1> USE DEF Types
<1>1. CASE CodeIncludes
  <2>1. PICK f \in Files, once \in BOOLEAN : Include(f, once, stack)
    BY <1>1 DEF CodeIncludes
  <2>2. LoadTypes' /\ ProperStack(stack') /\ unwinding' \in {"none", "throw", "fatal"}
    BY <1>0, <1>1, <2>1, IncludeTypes DEF CodeIncludes, Act, Running
  <2>3. ChainTypes'
    BY <1>0, <1>1, ClassLoadingAssumption DEF CodeIncludes, Act, ChainTypes
  <2> QED
    BY <2>2, <2>3
<1>2. CASE CodeAsks
  <2>1. PICK c \in Classes : StartLookup(c, stack)
    BY <1>2 DEF CodeAsks
  <2>2. ProperStack(stack')
    BY <1>0, <2>1, FrameTypes, StackAppend DEF StartLookup
  <2>3. ChainTypes'
    BY <1>0, <1>2, <2>1, ClassLoadingAssumption DEF CodeAsks, Act, ChainTypes, StartLookup
  <2> QED
    BY <1>0, <1>2, <2>2, <2>3 DEF CodeAsks, LoadTypes, Declared
<1>3. CASE CodeThrows
  BY <1>0, <1>3, ClassLoadingAssumption DEF CodeThrows, Act, ChainTypes, LoadTypes, Declared
<1>4. CASE Register
  <2>1. loaders' \in Seq(Loaders)
    <3>1. PICK l \in Loaders : loaders' \in {<<l>> \o loaders, Append(loaders, l)}
      BY <1>4 DEF Register
    <3>2. loaders \in Seq(Loaders)
      BY <1>0 DEF ChainTypes
    <3>3. <<l>> \o loaders \in Seq(Loaders) /\ Append(loaders, l) \in Seq(Loaders)
      BY <3>2
    <3> QED
      BY <3>1, <3>3
  <2> QED
    BY <1>0, <1>4, <2>1, ClassLoadingAssumption DEF Register, Act, ChainTypes, LoadTypes, Declared
<1>5. CASE Unregister
  <2>1. loaders' \in Seq(Loaders)
    <3>1. PICK i \in DOMAIN loaders : loaders' = RemoveAt(loaders, i)
      BY <1>5 DEF Unregister
    <3>2. loaders \in Seq(Loaders) /\ i \in 1 .. Len(loaders) /\ Len(loaders) \in Nat
      BY <1>0 DEF ChainTypes
    <3>3. \A j \in 1 .. Len(loaders) : loaders[j] \in Loaders
      BY <3>2, ElementOfSeq
    <3>4. SubSeq(loaders, 1, i - 1) \in Seq(Loaders) /\ SubSeq(loaders, i + 1, Len(loaders)) \in Seq(Loaders)
      BY <3>2, <3>3
    <3>5. RemoveAt(loaders, i) \in Seq(Loaders)
      BY <3>4, ConcatProperties DEF RemoveAt
    <3> QED
      BY <3>1, <3>5
  <2> QED
    BY <1>0, <1>5, <2>1, ClassLoadingAssumption DEF Unregister, Act, ChainTypes, LoadTypes, Declared
<1>6. CASE Catch
  BY <1>0, <1>6 DEF Catch, ChainTypes, LoadTypes, Declared
<1>7. CASE FileIncludes
  <2> DEFINE o == Head(Top.ops)
  <2>1. InFile("include") /\ Include(o.file, o.once, Done)
    BY <1>7 DEF FileIncludes
  <2>2. o \in ProperOps /\ o.does = "include" /\ ProperStack(Done) /\ Running
    BY <1>0, <2>1, InFileTop
  <2>3. o.file \in Files /\ o.once \in BOOLEAN
    BY <2>2 DEF ProperOps, Ops
  <2>4. LoadTypes' /\ ProperStack(stack') /\ unwinding' \in {"none", "throw", "fatal"}
    BY <1>0, <2>1, <2>2, <2>3, IncludeTypes DEF Running
  <2> QED
    BY <1>0, <1>7, <2>4 DEF FileIncludes, ChainTypes
<1>8. CASE Asks
  <2> DEFINE o == Head(Top.ops)
             found == <<[o EXCEPT !.does = "found"]>> \o Tail(Top.ops)
  <2>1. PICK does \in {"use", "link"} : InFile(does)
    BY <1>8 DEF Asks
  <2>2. /\ Top.kind = "file" /\ o \in ProperOps /\ o.does = does /\ o.class \in Classes
        /\ ProperStack(Done) /\ Tail(Top.ops) \in Seq(ProperOps)
    BY <1>0, <2>1, InFileTop DEF ProperOps
  <2>3. [o EXCEPT !.does = "found"] \in ProperOps
    BY <2>2 DEF ProperOps, Ops
  <2>4. found \in Seq(ProperOps)
    BY <2>2, <2>3
  <2>5. ProperStack(OpsBecome(found))
    BY <1>0, <2>2, <2>4, StackOps
  <2>6. ProperStack(Append(OpsBecome(found), Lookup(o.class)))
    BY <1>0, <2>2, <2>5, FrameTypes, StackAppend
  <2>7. /\ ProperStack(stack') /\ autoloading' \subseteq Classes
        /\ unwinding' \in {"none", "throw", "fatal"}
    <3>1. CASE stack' = Done /\ UNCHANGED autoloading /\ (unwinding' = "throw" \/ UNCHANGED unwinding)
      BY <1>0, <2>2, <3>1 DEF ChainTypes
    <3>2. CASE StartLookup(o.class, OpsBecome(found)) /\ UNCHANGED unwinding
      BY <1>0, <2>2, <2>6, <3>2 DEF ChainTypes, StartLookup
    <3> QED
      BY <1>8, <3>1, <3>2 DEF Asks
  <2> QED
    BY <1>0, <1>8, <2>7 DEF Asks, ChainTypes, LoadTypes, Declared
<1>9. CASE Answered
  <2>1. ProperStack(stack')
    BY <1>0, <1>9, InFileTop DEF Answered
  <2> QED
    BY <1>0, <1>9, <2>1 DEF Answered, ChainTypes, LoadTypes, Declared
<1>10. CASE Declare
  <2> DEFINE o == Head(Top.ops)
  <2>1. InFile("declare")
    BY <1>10 DEF Declare
  <2>2. o \in ProperOps /\ o.class \in Classes /\ ProperStack(stack') /\ Top.kind = "file"
    BY <1>0, <1>10, <2>1, InFileTop DEF Declare, ProperOps
  <2>3. Top.load \in 1 .. MaxLoads
    <3>1. Top \in ProperFrames
      BY <1>0, StackTop
    <3> QED
      BY <2>2, <3>1, ClassLoadingAssumption DEF ProperFrames, Frame
  <2>4. [load |-> Top.load, parent |-> o.parent] \in [load : 1 .. MaxLoads, parent : Classes \cup {NoClass}]
    BY <2>2, <2>3 DEF ProperOps, Ops
  <2>5. CASE o.class \in Declared
    BY <1>0, <1>10, <2>2, <2>5 DEF Declare, ChainTypes, LoadTypes, Declared
  <2>6. CASE o.class \notin Declared
    <3>1. classes' = With(classes, o.class, [load |-> Top.load, parent |-> o.parent]) /\ UNCHANGED unwinding
      BY <1>10, <2>6 DEF Declare
    <3>2. /\ Declared' \subseteq Classes
          /\ \A c \in Declared' : classes'[c] \in [load : 1 .. MaxLoads, parent : Classes \cup {NoClass}]
      BY <1>0, <2>2, <2>4, <3>1 DEF LoadTypes, Declared, With
    <3> QED
      BY <1>0, <1>10, <2>2, <3>1, <3>2 DEF Declare, ChainTypes, LoadTypes
  <2> QED
    BY <2>5, <2>6
<1>11. CASE Redeclared
  <2>1. ProperStack(stack')
    BY <1>0, <1>11, InFileTop DEF Redeclared
  <2> QED
    BY <1>0, <1>11, <2>1 DEF Redeclared, ChainTypes, LoadTypes, Declared
<1>12. CASE CallLoader
  <2>1. ProperStack(stack')
    <3>1. Top.rest \in Seq(Loaders) /\ Top.rest # <<>> /\ Top \in ProperFrames /\ Top.kind = "lookup"
      BY <1>0, <1>12, StackTop DEF CallLoader, ProperFrames, Frame
    <3>2. Head(Top.rest) \in Loaders /\ Tail(Top.rest) \in Seq(Loaders)
      BY <3>1
    <3>3. ProperStack([stack EXCEPT ![Len(stack)].rest = Tail(@)])
      BY <1>0, <3>1, <3>2, StackRest
    <3>4. Loader(Head(Top.rest)) \in ProperFrames /\ Loader(Head(Top.rest)).kind = "loader"
      BY <3>2, FrameTypes
    <3> QED
      BY <1>12, <3>3, <3>4, StackAppend DEF CallLoader
  <2> QED
    BY <1>0, <1>12, <2>1 DEF CallLoader, ChainTypes, LoadTypes, Declared
<1>13. CASE LookupEnds
  <2>1. ProperStack(stack')
    BY <1>0, <1>13, StackFront DEF LookupEnds, Pop
  <2> QED
    BY <1>0, <1>13, <2>1 DEF LookupEnds, ChainTypes, LoadTypes, Declared
<1>14. CASE CodeEnds
  <2>1. ProperStack(stack')
    BY <1>0, <1>14, StackFront DEF CodeEnds, Pop
  <2> QED
    BY <1>0, <1>14, <2>1 DEF CodeEnds, ChainTypes, LoadTypes, Declared
<1>15. CASE UNCHANGED vars
  BY <1>0, <1>15 DEF vars, ChainTypes, LoadTypes, Declared
<1> QED
  BY <1>1, <1>2, <1>3, <1>4, <1>5, <1>6, <1>7, <1>8, <1>9, <1>10, <1>11, <1>12, <1>13, <1>14, <1>15
  DEF Next, Program, Engine, Terminated

\* What is stored names files, classes and loaders of the program.
THEOREM TypesHold == Spec => []Types
BY InitTypes, TypesStep, PTL DEF Spec

\* The state has its type: what is on the stack, in the chain, among the classes.
THEOREM TypeCorrect == Spec => []TypeOK
BY TypesHold, TypesImplyTypeOK, PTL

-----------------------------------------------------------------------------
(* Classes are not replaced.                                               *)

Kept == \A c \in Declared : c \in DOMAIN classes' /\ classes'[c] = classes[c]

LEMMA IncludeKeeps ==
  ASSUME LoadTypes, NEW f \in Files, NEW once, NEW rest, Include(f, once, rest)
  PROVE  Kept
<1>1. CASE UNCHANGED classes
  BY <1>1 DEF Kept, Declared
<1>2. ASSUME NEW text \in TextsOf(f), classes' = Loaded(text, Len(loads'))
      PROVE  Kept
  <2> DEFINE n == Len(loads')
  <2>1. classes' = Loaded(text, n)
    BY <1>2
  <2> HIDE DEF n
  <2>2. text \in Texts
    BY TextsOfProperties DEF LoadTypes
  <2>3. Loads(classes', text, n)
    BY <2>1, <2>2, LoadedProperties
  <2> QED
    BY <2>3 DEF Kept, Loads
<1> QED
  BY <1>1, <1>2 DEF Include, Read

LEMMA StepKeeps == Types /\ [Next]_vars => Kept
<1> SUFFICES ASSUME Types, [Next]_vars PROVE Kept
  OBVIOUS
<1>0. LoadTypes /\ ProperStack(stack)
  BY DEF Types
<1>1. CASE UNCHANGED classes
  BY <1>1 DEF Kept, Declared
<1>2. CASE CodeIncludes
  BY <1>0, <1>2, IncludeKeeps DEF CodeIncludes
<1>3. CASE FileIncludes
  <2>1. Head(Top.ops) \in ProperOps /\ Head(Top.ops).does = "include"
    BY <1>0, <1>3, InFileTop DEF FileIncludes
  <2>2. Head(Top.ops).file \in Files
    BY <2>1 DEF ProperOps
  <2> QED
    BY <1>0, <1>3, <2>2, IncludeKeeps DEF FileIncludes
<1>4. CASE Declare
  <2> DEFINE o == Head(Top.ops)
  <2>1. \/ UNCHANGED classes
        \/ /\ o.class \notin Declared
           /\ classes' = With(classes, o.class, [load |-> Top.load, parent |-> o.parent])
    BY <1>4 DEF Declare
  <2> QED
    BY <1>1, <2>1 DEF Kept, With, Declared
<1> QED
  BY <1>1, <1>2, <1>3, <1>4
  DEF Next, Program, Engine, Terminated, vars, CodeAsks, CodeThrows, Register, Unregister, Catch,
      Asks, Answered, Redeclared, CallLoader, LookupEnds, CodeEnds

\* Whatever the files that declare a class do to each other meanwhile, a class
\* that is there stays the one it is.
THEOREM ClassesStay == Spec => NeverReplaced
<1>1. Types /\ [Next]_vars => [Kept]_vars
  BY StepKeeps
<1> QED
  BY <1>1, TypesHold, PTL DEF Spec, NeverReplaced, Kept

-----------------------------------------------------------------------------
(* Files that only _once constructs load.                                  *)

LEMMA OnceStep == Types /\ OnceLoadsOnce /\ [Next]_vars => OnceLoadsOnce'
<1> SUFFICES ASSUME Types, OnceLoadsOnce, [Next]_vars PROVE OnceLoadsOnce'
  OBVIOUS
<1>0. LoadTypes /\ ProperStack(stack)
  BY DEF Types
<1>1. CASE UNCHANGED <<loads, plain>>
  BY <1>1 DEF OnceLoadsOnce
<1>2. ASSUME NEW f, NEW once \in BOOLEAN, NEW rest, Include(f, once, rest)
      PROVE  OnceLoadsOnce'
  <2>1. CASE Read(f, once, rest) /\ ~ (once /\ f \in included)
    <3>1. /\ loads \in Seq(Files) /\ Len(loads) \in Nat
          /\ loads' = Append(loads, f) /\ plain' = IF once THEN plain ELSE plain \cup {f}
      BY <1>0, <2>1 DEF Read, LoadTypes
    <3>2. /\ DOMAIN loads = 1 .. Len(loads) /\ DOMAIN loads' = 1 .. Len(loads) + 1
          /\ \A i \in 1 .. Len(loads) : loads'[i] = loads[i]
          /\ loads'[Len(loads) + 1] = f
      BY <3>1
    <3>3. ~ once \/ \A i \in 1 .. Len(loads) : loads[i] # f
      BY <1>0, <2>1, <3>2 DEF LoadTypes, Range
    <3>4. f \in plain' \/ \A i \in 1 .. Len(loads) : loads[i] # f
      BY <3>1, <3>3
    <3>5. plain \subseteq plain'
      BY <3>1
    <3>6. SUFFICES ASSUME NEW i \in 1 .. Len(loads) + 1, NEW j \in 1 .. Len(loads) + 1,
                          loads'[i] = loads'[j], loads'[i] \notin plain'
                   PROVE  i = j
      BY <3>2 DEF OnceLoadsOnce
    <3>7. CASE i \in 1 .. Len(loads) /\ j \in 1 .. Len(loads)
      BY <3>2, <3>5, <3>6, <3>7 DEF OnceLoadsOnce
    <3>8. CASE i = Len(loads) + 1 \/ j = Len(loads) + 1
      BY <3>1, <3>2, <3>4, <3>6, <3>8
    <3> QED
      BY <3>1, <3>7, <3>8
  <2> QED
    BY <1>1, <1>2, <2>1 DEF Include
<1>3. CASE CodeIncludes
  BY <1>2, <1>3 DEF CodeIncludes
<1>4. CASE FileIncludes
  <2>1. Head(Top.ops).once \in BOOLEAN
    BY <1>0, <1>4, InFileTop DEF FileIncludes, ProperOps, Ops
  <2> QED
    BY <1>2, <1>4, <2>1 DEF FileIncludes
<1> QED
  BY <1>1, <1>3, <1>4
  DEF Next, Program, Engine, Terminated, vars, CodeAsks, CodeThrows, Register, Unregister, Catch,
      Asks, Answered, Declare, Redeclared, CallLoader, LookupEnds, CodeEnds

\* A file that is loaded by _once constructs alone runs once, although it is
\* asked for again while it is being loaded, by itself or by a loader.
THEOREM OnceIsOnce == Spec => []OnceLoadsOnce
<1>1. Init => OnceLoadsOnce
  <2> SUFFICES ASSUME Init PROVE OnceLoadsOnce
    OBVIOUS
  <2>1. DOMAIN loads = {}
    BY DEF Init
  <2> QED
    BY <2>1 DEF OnceLoadsOnce
<1> QED
  BY <1>1, OnceStep, TypesHold, PTL DEF Spec

-----------------------------------------------------------------------------
(* The marks of the lookups under way.                                     *)

Asked(s) == {i \in 1 .. Len(s) : s[i].kind = "lookup"}
Marked(s, marks) ==
  /\ marks = {s[i].class : i \in Asked(s)}
  /\ \A i, j \in Asked(s) : s[i].class = s[j].class => i = j

LEMMA MarkedIsInvariant == ProperStack(stack) => (LookupsMarked <=> Marked(stack, autoloading))
<1> SUFFICES ASSUME ProperStack(stack) PROVE LookupsMarked <=> Marked(stack, autoloading)
  OBVIOUS
<1>1. DOMAIN stack = 1 .. Len(stack)
  BY DEF ProperStack
<1> QED
  BY <1>1 DEF LookupsMarked, Marked, Asked

\* Another frame on top.
LEMMA MarkedAppend ==
  ASSUME NEW s, NEW marks, ProperStack(s), Marked(s, marks), NEW x
  PROVE  /\ x.kind # "lookup" => Marked(Append(s, x), marks)
         /\ x.kind = "lookup" /\ x.class \notin marks => Marked(Append(s, x), marks \cup {x.class})
<1> DEFINE t == Append(s, x)
<1>1. s \in Seq(ProperFrames) /\ Len(s) \in Nat
  BY DEF ProperStack
<1>2. /\ Len(t) = Len(s) + 1 /\ t[Len(s) + 1] = x
      /\ \A i \in 1 .. Len(s) : t[i] = s[i]
  BY <1>1
<1> HIDE DEF t
<1>3. Asked(t) = Asked(s) \cup (IF x.kind = "lookup" THEN {Len(s) + 1} ELSE {})
  BY <1>1, <1>2 DEF Asked
<1>4. /\ marks = {s[i].class : i \in Asked(s)}
      /\ \A i, j \in Asked(s) : s[i].class = s[j].class => i = j
      /\ Asked(s) \subseteq 1 .. Len(s)
  BY DEF Marked, Asked
<1>5. \A i \in Asked(s) : t[i].class = s[i].class
  BY <1>2, <1>4
<1>6. CASE x.kind # "lookup"
  BY <1>3, <1>4, <1>5, <1>6 DEF Marked, t
<1>7. CASE x.kind = "lookup" /\ x.class \notin marks
  <2>1. \A i \in Asked(s) : t[i].class # t[Len(s) + 1].class
    BY <1>2, <1>4, <1>5, <1>7
  <2>2. \A i, j \in Asked(t) : t[i].class = t[j].class => i = j
    BY <1>3, <1>4, <1>5, <1>7, <2>1
  <2>3. marks \cup {x.class} = {t[i].class : i \in Asked(t)}
    BY <1>2, <1>3, <1>4, <1>5, <1>7
  <2> QED
    BY <1>7, <2>2, <2>3 DEF Marked, t
<1> QED
  BY <1>6, <1>7 DEF t

\* Frames that stay what they are.
LEMMA MarkedSame ==
  ASSUME NEW s, NEW t, NEW marks, Marked(s, marks), Len(t) = Len(s),
         \A i \in 1 .. Len(s) : t[i].kind = s[i].kind /\ t[i].class = s[i].class
  PROVE  Marked(t, marks)
<1>1. Asked(t) = Asked(s) /\ \A i \in Asked(s) : t[i].class = s[i].class
  BY DEF Asked
<1> QED
  BY <1>1 DEF Marked

LEMMA MarkedOps ==
  ASSUME NEW marks, ProperStack(stack), Marked(stack, marks), Top.kind = "file", NEW ops \in Seq(ProperOps)
  PROVE  Marked(OpsBecome(ops), marks)
<1> DEFINE t == OpsBecome(ops)
<1>1. /\ Len(t) = Len(stack)
      /\ \A i \in 1 .. Len(stack) : t[i] = IF i = Len(stack) THEN [Top EXCEPT !.ops = ops] ELSE stack[i]
  BY StackOps
<1>2. Top = stack[Len(stack)] /\ Top \in Frame
  BY StackTop DEF ProperFrames
<1>3. [Top EXCEPT !.ops = ops].kind = Top.kind /\ [Top EXCEPT !.ops = ops].class = Top.class
  BY <1>2 DEF Frame
<1> HIDE DEF t
<1> QED
  BY <1>1, <1>2, <1>3, MarkedSame DEF t

\* The top is taken off.
LEMMA MarkedFront ==
  ASSUME NEW marks, ProperStack(stack), Marked(stack, marks), Top.kind # "main"
  PROVE  Marked(Front(stack), IF Top.kind = "lookup" THEN marks \ {Top.class} ELSE marks)
<1> DEFINE t == Front(stack)
           n == Len(stack)
<1>1. n \in Nat /\ n >= 1 /\ Top = stack[n]
  BY StackTop
<1>2. Len(t) = n - 1 /\ \A i \in 1 .. n - 1 : t[i] = stack[i]
  BY StackFront
<1>3. /\ marks = {stack[i].class : i \in Asked(stack)}
      /\ \A i, j \in Asked(stack) : stack[i].class = stack[j].class => i = j
  BY DEF Marked
<1>4. Asked(stack) = {i \in 1 .. n : stack[i].kind = "lookup"}
  BY DEF Asked
<1> HIDE DEF t, n
<1>5. Asked(t) = Asked(stack) \ {n} /\ \A i \in Asked(t) : t[i].class = stack[i].class
  BY <1>1, <1>2, <1>4 DEF Asked
<1>6. n \in Asked(stack) <=> Top.kind = "lookup"
  BY <1>1, <1>4
<1>7. \A i, j \in Asked(t) : t[i].class = t[j].class => i = j
  BY <1>3, <1>5
<1>8. CASE Top.kind = "lookup"
  <2>1. {t[i].class : i \in Asked(t)} = marks \ {Top.class}
    BY <1>1, <1>3, <1>5, <1>6, <1>8
  <2> QED
    BY <1>7, <1>8, <2>1 DEF Marked, t
<1>9. CASE Top.kind # "lookup"
  <2>1. {t[i].class : i \in Asked(t)} = marks
    BY <1>3, <1>5, <1>6, <1>9
  <2> QED
    BY <1>7, <1>9, <2>1 DEF Marked, t
<1> QED
  BY <1>8, <1>9

LEMMA IncludeMarks ==
  ASSUME LoadTypes, NEW f \in Files, NEW once, NEW rest, Include(f, once, rest),
         ProperStack(rest), Marked(rest, autoloading)
  PROVE  Marked(stack', autoloading)
<1>1. CASE stack' = rest
  BY <1>1
<1>2. ASSUME NEW text, stack' = Append(rest, File(Code(text), Len(loads')))
      PROVE  Marked(stack', autoloading)
  <2> DEFINE x == File(Code(text), Len(loads'))
  <2>1. x.kind # "lookup"
    BY DEF File, Main
  <2> HIDE DEF x
  <2>2. Marked(Append(rest, x), autoloading)
    BY <2>1, MarkedAppend
  <2> QED
    BY <1>2, <2>2 DEF x
<1> QED
  BY <1>1, <1>2 DEF Include, Read

LEMMA MarksStep == Types /\ Marked(stack, autoloading) /\ [Next]_vars => Marked(stack', autoloading')
<1> SUFFICES ASSUME Types, Marked(stack, autoloading), [Next]_vars
             PROVE  Marked(stack', autoloading')
  OBVIOUS
<1>0. LoadTypes /\ ChainTypes /\ ProperStack(stack)
  BY DEF Types
<1>1. CASE UNCHANGED <<stack, autoloading>>
  BY <1>1
<1>2. CASE CodeIncludes
  <2>1. PICK f \in Files, once \in BOOLEAN : Include(f, once, stack)
    BY <1>2 DEF CodeIncludes
  <2>2. Marked(stack', autoloading)
    BY <1>0, <2>1, IncludeMarks
  <2> QED
    BY <1>2, <2>2 DEF CodeIncludes
<1>3. CASE CodeAsks
  <2>1. PICK c \in Classes : CanLookup(c) /\ StartLookup(c, stack)
    BY <1>3 DEF CodeAsks
  <2>2. Lookup(c).kind = "lookup" /\ Lookup(c).class = c
    BY <1>0, FrameTypes
  <2> QED
    BY <1>0, <2>1, <2>2, MarkedAppend DEF CanLookup, StartLookup
<1>4. CASE FileIncludes
  <2> DEFINE o == Head(Top.ops)
  <2>1. InFile("include") /\ Include(o.file, o.once, Done) /\ UNCHANGED autoloading
    BY <1>4 DEF FileIncludes
  <2>2. /\ o \in ProperOps /\ o.does = "include" /\ ProperStack(Done)
        /\ Tail(Top.ops) \in Seq(ProperOps) /\ Top.kind = "file"
    BY <1>0, <2>1, InFileTop
  <2>3. o.file \in Files
    BY <2>2 DEF ProperOps
  <2>4. Marked(Done, autoloading)
    BY <1>0, <2>2, MarkedOps DEF Done
  <2>5. Marked(stack', autoloading)
    BY <1>0, <2>1, <2>2, <2>3, <2>4, IncludeMarks
  <2> QED
    BY <2>1, <2>5
<1>5. CASE Asks
  <2> DEFINE o == Head(Top.ops)
             found == <<[o EXCEPT !.does = "found"]>> \o Tail(Top.ops)
  <2>1. PICK does \in {"use", "link"} : InFile(does)
    BY <1>5 DEF Asks
  <2>2. /\ Top.kind = "file" /\ o \in ProperOps /\ o.does = does /\ o.class \in Classes
        /\ Tail(Top.ops) \in Seq(ProperOps)
    BY <1>0, <2>1, InFileTop DEF ProperOps
  <2>3. Marked(Done, autoloading)
    BY <1>0, <2>2, MarkedOps DEF Done
  <2>4. found \in Seq(ProperOps)
    <3>1. [o EXCEPT !.does = "found"] \in ProperOps
      BY <2>2 DEF ProperOps, Ops
    <3> QED
      BY <2>2, <3>1
  <2>5. ProperStack(OpsBecome(found)) /\ Marked(OpsBecome(found), autoloading)
    BY <1>0, <2>2, <2>4, MarkedOps, StackOps
  <2>6. Lookup(o.class).kind = "lookup" /\ Lookup(o.class).class = o.class
    BY <1>0, <2>2, FrameTypes
  <2>7. CASE stack' = Done /\ UNCHANGED autoloading
    BY <2>3, <2>7
  <2>8. CASE CanLookup(o.class) /\ StartLookup(o.class, OpsBecome(found))
    BY <2>5, <2>6, <2>8, MarkedAppend DEF CanLookup, StartLookup
  <2> QED
    BY <1>5, <2>7, <2>8 DEF Asks
<1>6. CASE \E does : InFile(does) /\ stack' = Done /\ UNCHANGED autoloading
  <2>1. Tail(Top.ops) \in Seq(ProperOps) /\ Top.kind = "file"
    BY <1>0, <1>6, InFileTop
  <2> QED
    BY <1>0, <1>6, <2>1, MarkedOps DEF Done
<1>7. CASE CallLoader
  <2> DEFINE t == [stack EXCEPT ![Len(stack)].rest = Tail(@)]
             x == Loader(Head(Top.rest))
  <2>1. Top.rest \in Seq(Loaders) /\ Top.rest # <<>> /\ Top \in Frame /\ Top.kind = "lookup"
        /\ stack' = Append(t, x) /\ UNCHANGED autoloading
    BY <1>0, <1>7, StackTop DEF CallLoader, ProperFrames, Frame
  <2>2. Tail(Top.rest) \in Seq(Loaders)
    BY <2>1
  <2>3. /\ ProperStack(t) /\ Len(t) = Len(stack)
        /\ \A i \in 1 .. Len(stack) :
             t[i] = IF i = Len(stack) THEN [Top EXCEPT !.rest = Tail(Top.rest)] ELSE stack[i]
    BY <1>0, <2>1, <2>2, StackRest
  <2>4. [Top EXCEPT !.rest = Tail(Top.rest)].kind = Top.kind /\ [Top EXCEPT !.rest = Tail(Top.rest)].class = Top.class
        /\ Top = stack[Len(stack)]
    BY <1>0, <2>1, StackTop DEF Frame
  <2>5. x.kind # "lookup"
    BY DEF Loader, Main
  <2> HIDE DEF t, x
  <2>6. Marked(t, autoloading)
    BY <2>3, <2>4, MarkedSame
  <2> QED
    BY <2>1, <2>3, <2>5, <2>6, MarkedAppend
<1>8. CASE LookupEnds
  <2>1. Top.kind = "lookup" /\ stack' = Front(stack) /\ autoloading' = autoloading \ {Top.class}
    BY <1>8 DEF LookupEnds, Pop
  <2>2. Marked(Front(stack), IF Top.kind = "lookup" THEN autoloading \ {Top.class} ELSE autoloading)
    BY <1>0, <2>1, MarkedFront
  <2> QED
    BY <2>1, <2>2
<1>9. CASE CodeEnds
  <2>1. Top.kind \in {"file", "loader"} /\ stack' = Front(stack) /\ autoloading' = autoloading
    BY <1>9 DEF CodeEnds, Pop
  <2>2. Marked(Front(stack), IF Top.kind = "lookup" THEN autoloading \ {Top.class} ELSE autoloading)
    BY <1>0, <2>1, MarkedFront
  <2> QED
    BY <2>1, <2>2
<1> QED
  BY <1>1, <1>2, <1>3, <1>4, <1>5, <1>6, <1>7, <1>8, <1>9
  DEF Next, Program, Engine, Terminated, vars, CodeThrows, Register, Unregister, Catch,
      Answered, Declare, Redeclared

\* However lookups nest and whatever ends them, the classes marked are those
\* being looked up, each of them by one lookup.
THEOREM MarksAreLookups == Spec => []LookupsMarked
<1> DEFINE Inv == Marked(stack, autoloading)
<1>1. Init => Inv
  <2> SUFFICES ASSUME Init PROVE Inv
    OBVIOUS
  <2>1. Len(stack) = 1 /\ stack[1].kind = "main" /\ autoloading = {}
    BY DEF Init, Main
  <2> QED
    BY <2>1 DEF Marked, Asked
<1>2. Types /\ Inv /\ [Next]_vars => Inv'
  BY MarksStep
<1>3. Types /\ Inv => LookupsMarked
  BY MarkedIsInvariant DEF Types
<1> QED
  BY <1>1, <1>2, <1>3, TypesHold, PTL DEF Spec

-----------------------------------------------------------------------------
(* A class has its parent, in programs whose functions declare none.       *)

\* An operation after which the class it names is there.
Brings(o) == o.does \in {"declare", "link", "found"}

\* Code in which every declaration finds its parent among the known classes or
\* has it brought by an operation before it.
Ready(ops, known) ==
  \A j \in 1 .. Len(ops) : ops[j].does = "declare" =>
    \/ ops[j].parent \in known \cup {NoClass}
    \/ \E k \in 1 .. j - 1 : Brings(ops[k]) /\ ops[k].class = ops[j].parent

LEMMA ReadyMore ==
  ASSUME NEW ops, NEW known, Ready(ops, known), NEW more, known \subseteq more
  PROVE  Ready(ops, more)
BY DEF Ready

LEMMA ReadyExtend ==
  ASSUME NEW f \in Seq(ProperOps), NEW g \in Seq(ProperOps), NEW known, Ready(f, known),
         \A j \in 1 .. Len(g) : g[j].does = "declare" =>
           \/ g[j].parent \in known \cup {NoClass}
           \/ \E k \in 1 .. Len(f) : Brings(f[k]) /\ f[k].class = g[j].parent
           \/ \E k \in 1 .. j - 1 : Brings(g[k]) /\ g[k].class = g[j].parent
  PROVE  Ready(f \o g, known)
<1> DEFINE h == f \o g
<1>1. /\ Len(f) \in Nat /\ Len(g) \in Nat /\ Len(h) = Len(f) + Len(g)
      /\ \A i \in 1 .. Len(f) : h[i] = f[i]
      /\ \A i \in 1 .. Len(g) : h[Len(f) + i] = g[i]
  BY ConcatProperties
<1> HIDE DEF h
<1> SUFFICES ASSUME NEW j \in 1 .. Len(h), h[j].does = "declare", h[j].parent \notin known \cup {NoClass}
             PROVE  \E k \in 1 .. j - 1 : Brings(h[k]) /\ h[k].class = h[j].parent
  BY DEF Ready, h
<1>2. CASE j \in 1 .. Len(f)
  <2>1. PICK k \in 1 .. j - 1 : Brings(f[k]) /\ f[k].class = f[j].parent
    BY <1>1, <1>2 DEF Ready
  <2>2. k \in 1 .. Len(f)
    BY <1>1, <1>2
  <2>3. h[k] = f[k] /\ h[j] = f[j]
    BY <1>1, <1>2, <2>2
  <2> QED
    BY <2>1, <2>3
<1>3. CASE j \notin 1 .. Len(f)
  <2> DEFINE i == j - Len(f)
  <2>1. i \in 1 .. Len(g) /\ j = Len(f) + i
    BY <1>1, <1>3
  <2> HIDE DEF i
  <2>2. h[j] = g[i]
    BY <1>1, <2>1
  <2>3. CASE \E k \in 1 .. Len(f) : Brings(f[k]) /\ f[k].class = g[i].parent
    <3>1. PICK k \in 1 .. Len(f) : Brings(f[k]) /\ f[k].class = g[i].parent
      BY <2>3
    <3>2. h[k] = f[k] /\ k \in 1 .. j - 1
      BY <1>1, <2>1
    <3> QED
      BY <2>2, <3>1, <3>2
  <2>4. CASE \E k \in 1 .. i - 1 : Brings(g[k]) /\ g[k].class = g[i].parent
    <3>1. PICK k \in 1 .. i - 1 : Brings(g[k]) /\ g[k].class = g[i].parent
      BY <2>4
    <3>2. k \in 1 .. Len(g) /\ Len(f) + k \in 1 .. j - 1
      BY <1>1, <2>1
    <3>3. h[Len(f) + k] = g[k]
      BY <1>1, <3>2
    <3> QED
      BY <2>2, <3>1, <3>2, <3>3
  <2> QED
    BY <2>1, <2>2, <2>3, <2>4
<1> QED
  BY <1>2, <1>3

\* What is left once the first operation is over.
LEMMA ReadyTail ==
  ASSUME NEW ops \in Seq(ProperOps), ops # <<>>, NEW known, Ready(ops, known),
         NEW more, known \subseteq more, Brings(Head(ops)) => Head(ops).class \in more
  PROVE  Ready(Tail(ops), more)
<1> DEFINE t == Tail(ops)
<1>1. /\ Len(ops) \in Nat /\ Len(t) = Len(ops) - 1 /\ Head(ops) = ops[1]
      /\ \A i \in 1 .. Len(t) : t[i] = ops[i + 1]
  BY HeadTailProperties
<1> HIDE DEF t
<1> SUFFICES ASSUME NEW j \in 1 .. Len(t), t[j].does = "declare", t[j].parent \notin more \cup {NoClass}
             PROVE  \E k \in 1 .. j - 1 : Brings(t[k]) /\ t[k].class = t[j].parent
  BY DEF Ready, t
<1>2. j + 1 \in 1 .. Len(ops) /\ t[j] = ops[j + 1] /\ (j + 1) - 1 = j
  BY <1>1
<1>3. PICK k \in 1 .. j : Brings(ops[k]) /\ ops[k].class = ops[j + 1].parent
  BY <1>2 DEF Ready
<1>4. k # 1
  BY <1>1, <1>2, <1>3
<1>5. k - 1 \in 1 .. j - 1 /\ k - 1 \in 1 .. Len(t) /\ (k - 1) + 1 = k
  BY <1>1, <1>2, <1>4
<1>6. t[k - 1] = ops[k]
  BY <1>1, <1>5
<1> QED
  BY <1>2, <1>3, <1>5, <1>6

\* A lookup has begun.
LEMMA ReadyFound ==
  ASSUME NEW ops \in Seq(ProperOps), ops # <<>>, NEW known, Ready(ops, known),
         Head(ops).does \in {"use", "link"}
  PROVE  Ready(<<[Head(ops) EXCEPT !.does = "found"]>> \o Tail(ops), known)
<1> DEFINE x == [Head(ops) EXCEPT !.does = "found"]
           t == <<x>> \o Tail(ops)
<1>1. /\ Len(ops) \in Nat /\ Len(ops) >= 1 /\ Head(ops) = ops[1] /\ Head(ops) \in Ops
      /\ Tail(ops) \in Seq(ProperOps) /\ Len(Tail(ops)) = Len(ops) - 1
      /\ \A i \in 1 .. Len(ops) - 1 : Tail(ops)[i] = ops[i + 1]
  <2>1. ops[1] \in ProperOps
    BY EmptySeq, ElementOfSeq
  <2> QED
    BY <2>1, HeadTailProperties DEF ProperOps
<1>2. x.does = "found" /\ x.class = ops[1].class
  BY <1>1 DEF Ops
<1>3. Len(t) = Len(ops) /\ t[1] = x /\ \A i \in 2 .. Len(ops) : t[i] = ops[i]
  <2>1. x \in ProperOps
    <3>1. Head(ops) \in ProperOps
      BY <1>1, ElementOfSeq
    <3> QED
      BY <3>1, <1>1 DEF ProperOps, Ops
  <2>2. Len(<<x>>) = 1 /\ <<x>> \in Seq(ProperOps) /\ <<x>>[1] = x
    BY <2>1
  <2>3. /\ Len(t) = 1 + (Len(ops) - 1) /\ t[1] = x
        /\ \A i \in 1 .. Len(ops) - 1 : t[1 + i] = Tail(ops)[i]
    BY <1>1, <2>2, ConcatProperties
  <2>4. ASSUME NEW i \in 2 .. Len(ops)
        PROVE  t[i] = ops[i]
    <3>1. i - 1 \in 1 .. Len(ops) - 1 /\ 1 + (i - 1) = i /\ (i - 1) + 1 = i
      BY <1>1
    <3> QED
      BY <1>1, <2>3, <3>1
  <2> QED
    BY <1>1, <2>3, <2>4
<1> HIDE DEF t, x
<1> SUFFICES ASSUME NEW j \in 1 .. Len(t), t[j].does = "declare", t[j].parent \notin known \cup {NoClass}
             PROVE  \E k \in 1 .. j - 1 : Brings(t[k]) /\ t[k].class = t[j].parent
  BY DEF Ready, t, x
<1>4. j # 1 /\ j \in 1 .. Len(ops) /\ j \in 2 .. Len(ops)
  BY <1>1, <1>2, <1>3
<1>5. t[j] = ops[j]
  BY <1>3, <1>4
<1>6. PICK k \in 1 .. j - 1 : Brings(ops[k]) /\ ops[k].class = ops[j].parent
  BY <1>4, <1>5 DEF Ready
<1>7. CASE k = 1
  BY <1>2, <1>3, <1>5, <1>6, <1>7 DEF Brings
<1>8. CASE k # 1
  <2>1. t[k] = ops[k]
    BY <1>3, <1>4, <1>8
  <2> QED
    BY <1>5, <1>6, <2>1
<1> QED
  BY <1>7, <1>8

\* What a declaration is compiled to brings the class, and its parent when the
\* compiler has not seen it.
LEMMA DeclarationBrings ==
  ASSUME NEW s \in Statements, s.does \in {"early", "late", "nested"}, NEW bound
  PROVE  LET g == Declaration(s, bound) IN
         /\ \A j \in 1 .. Len(g) : g[j].does = "declare" =>
              /\ g[j].parent = s.parent
              /\ \/ Known(s.parent, bound)
                 \/ \E k \in 1 .. j - 1 : Brings(g[k]) /\ g[k].class = g[j].parent
         /\ \E j \in 1 .. Len(g) : g[j].does = "declare" /\ g[j].class = s.class
<1> DEFINE link == Op("link", [s EXCEPT !.class = s.parent])
           decl == Op("declare", s)
<1>1. s \in Shape
  BY StatementShape
<1>2. /\ decl.does = "declare" /\ decl.parent = s.parent /\ decl.class = s.class
      /\ link.does = "link" /\ link.class = s.parent
  BY <1>1 DEF Op, Shape
<1> HIDE DEF link, decl
<1>3. CASE Known(s.parent, bound)
  <2>1. Declaration(s, bound) = <<decl>>
    BY <1>3 DEF Declaration, decl
  <2> QED
    BY <1>2, <1>3, <2>1
<1>4. CASE ~ Known(s.parent, bound)
  <2> DEFINE g == <<link>> \o <<decl>>
  <2>1. Declaration(s, bound) = g
    BY <1>4, Zenon DEF Declaration, decl, link
  <2>2. Len(g) = 2 /\ g[1] = link /\ g[2] = decl
    <3>1. /\ <<link>> \in Seq({link, decl}) /\ <<decl>> \in Seq({link, decl})
          /\ Len(<<link>>) = 1 /\ Len(<<decl>>) = 1 /\ <<link>>[1] = link /\ <<decl>>[1] = decl
      OBVIOUS
    <3> QED
      BY <3>1, ConcatProperties
  <2> HIDE DEF g
  <2>3. ASSUME NEW j \in 1 .. 2, g[j].does = "declare"
        PROVE  j = 2
    BY <1>2, <2>2, <2>3
  <2>4. Brings(link)
    BY <1>2 DEF Brings
  <2> QED
    BY <1>2, <2>1, <2>2, <2>3, <2>4
<1> QED
  BY <1>3, <1>4

\* The compiler's order is enough: when the file starts to run, with the early
\* classes loaded, its code is ready.
LEMMA CodeReady ==
  ASSUME ~Nested, NEW text \in Texts
  PROVE  Ready(Code(text), Declared \cup EarlyBound(text))
<1> DEFINE known == Declared \cup EarlyBound(text)
           n == Len(text)
           C(k) == [i \in 1 .. k |-> Compiled(text, i)]
           F(k) == FlattenSeq(C(k))
           There(k) == \A i \in 1 .. k : text[i].does \in {"early", "late"} =>
                         \/ text[i].class \in known
                         \/ \E m \in 1 .. Len(F(k)) : Brings(F(k)[m]) /\ F(k)[m].class = text[i].class
           N == {k \in Nat : k \in 0 .. n => Ready(F(k), known) /\ There(k)}
<1>1. n \in Nat /\ DOMAIN text = 1 .. n /\ \A i \in 1 .. n : text[i] \in Statements
  BY TextProperties, ElementOfSeq
<1>2. \A k \in 0 .. n : C(k) \in Seq(Seq(ProperOps)) /\ Len(C(k)) = k /\ F(k) \in Seq(ProperOps)
  <2>1. \A i \in 1 .. n : Compiled(text, i) \in Seq(ProperOps)
    BY <1>1, ProperCompiled
  <2>2. \A k \in 0 .. n : C(k) \in Seq(Seq(ProperOps)) /\ Len(C(k)) = k
    BY <1>1, <2>1
  <2> QED
    BY <2>2, FlattenType
<1>3. 0 \in N
  <2>1. C(0) = <<>>
    OBVIOUS
  <2>2. F(0) = <<>>
    BY <2>1, FlattenEmpty
  <2>3. Ready(<<>>, known)
    BY DEF Ready
  <2> QED
    BY <2>2, <2>3
<1>4. ASSUME NEW k \in Nat, k \in N
      PROVE  k + 1 \in N
  <2>a. k + 1 \in Nat
    OBVIOUS
  <2> SUFFICES ASSUME k + 1 \in 0 .. n PROVE Ready(F(k + 1), known) /\ There(k + 1)
    BY <2>a, Zenon
  <2>0. k + 1 \in 1 .. n
    BY <1>1
  <2> DEFINE s == text[k + 1]
             g == Compiled(text, k + 1)
             f == F(k)
  <2>1. k \in 0 .. n /\ Ready(f, known) /\ There(k)
    BY <1>1, <1>4, <2>0
  <2>2. F(k + 1) = f \o g
    <3>1. C(k + 1) = Append(C(k), g)
      BY <1>1, <2>0, <2>1
    <3>2. C(k) \in Seq(Seq(ProperOps)) /\ g \in Seq(ProperOps)
      BY <1>1, <1>2, <2>0, <2>1, ProperCompiled
    <3> HIDE DEF C, g
    <3>3. FlattenSeq(Append(C(k), g)) = FlattenSeq(C(k)) \o g
      BY <3>2, FlattenAppend
    <3> QED
      BY <3>1, <3>3
  <2>3. f \in Seq(ProperOps) /\ g \in Seq(ProperOps)
    BY <1>1, <1>2, <2>0, <2>1, ProperCompiled
  <2>4. s \in Statements /\ s.does \in {"early", "late", "include", "use"}
        /\ (s.does \in {"early", "late"} => s.class \in Classes /\ s.parent # s.class)
    <3>1. s \in Statements
      BY <1>1, <2>0
    <3> QED
      BY <3>1, StatementShape DEF Shape
  \* What the compiler counts as bound before this statement is known or brought.
  <2>5. \A c \in Bound(text, k + 1) : c \in known \/ \E m \in 1 .. Len(f) : Brings(f[m]) /\ f[m].class = c
    <3> SUFFICES ASSUME NEW c \in Bound(text, k + 1), c \notin known
                 PROVE  \E m \in 1 .. Len(f) : Brings(f[m]) /\ f[m].class = c
      OBVIOUS
    <3>1. PICK i \in 1 .. (k + 1) - 1 : text[i].does \in {"early", "late"} /\ text[i].class = c
      BY DEF Bound
    <3>2. i \in 1 .. k
      OBVIOUS
    <3> HIDE DEF f
    <3> QED
      BY <2>1, <3>1, <3>2 DEF f
  <2> HIDE DEF f, F, C
  \* It is enough that the new code is ready behind the old and brings its class.
  <2>6. ASSUME \A j \in 1 .. Len(g) : g[j].does = "declare" =>
                 \/ g[j].parent \in known \cup {NoClass}
                 \/ \E m \in 1 .. Len(f) : Brings(f[m]) /\ f[m].class = g[j].parent
                 \/ \E m \in 1 .. j - 1 : Brings(g[m]) /\ g[m].class = g[j].parent,
               s.does \in {"early", "late"} =>
                 \/ s.class \in known
                 \/ \E m \in 1 .. Len(f) : Brings(f[m]) /\ f[m].class = s.class
                 \/ \E m \in 1 .. Len(g) : Brings(g[m]) /\ g[m].class = s.class
        PROVE  Ready(F(k + 1), known) /\ There(k + 1)
    <3> HIDE DEF g
    <3>1. Ready(f \o g, known)
      BY <2>1, <2>3, <2>6, ReadyExtend
    <3>2. /\ Len(f) \in Nat /\ Len(g) \in Nat /\ Len(f \o g) = Len(f) + Len(g)
          /\ \A i \in 1 .. Len(f) : (f \o g)[i] = f[i]
          /\ \A i \in 1 .. Len(g) : (f \o g)[Len(f) + i] = g[i]
      BY <2>3, ConcatProperties
    <3>3. ASSUME NEW c,
                 \/ \E m \in 1 .. Len(f) : Brings(f[m]) /\ f[m].class = c
                 \/ \E m \in 1 .. Len(g) : Brings(g[m]) /\ g[m].class = c
          PROVE  \E m \in 1 .. Len(f \o g) : Brings((f \o g)[m]) /\ (f \o g)[m].class = c
      <4>1. CASE \E m \in 1 .. Len(f) : Brings(f[m]) /\ f[m].class = c
        <5>1. PICK m \in 1 .. Len(f) : Brings(f[m]) /\ f[m].class = c
          BY <4>1
        <5>2. m \in 1 .. Len(f \o g) /\ (f \o g)[m] = f[m]
          BY <3>2
        <5> QED
          BY <5>1, <5>2
      <4>2. CASE \E m \in 1 .. Len(g) : Brings(g[m]) /\ g[m].class = c
        <5>1. PICK m \in 1 .. Len(g) : Brings(g[m]) /\ g[m].class = c
          BY <4>2
        <5>2. Len(f) + m \in 1 .. Len(f \o g) /\ (f \o g)[Len(f) + m] = g[m]
          BY <3>2
        <5> QED
          BY <5>1, <5>2
      <4> QED
        BY <3>3, <4>1, <4>2
    <3>4. ASSUME NEW i \in 1 .. k + 1, text[i].does \in {"early", "late"}, text[i].class \notin known
          PROVE  \E m \in 1 .. Len(f \o g) : Brings((f \o g)[m]) /\ (f \o g)[m].class = text[i].class
      <4>1. CASE i = k + 1
        BY <2>6, <3>3, <3>4, <4>1
      <4>2. CASE i \in 1 .. k
        <5>1. \E m \in 1 .. Len(f) : Brings(f[m]) /\ f[m].class = text[i].class
          BY <2>1, <3>4, <4>2 DEF f
        <5> QED
          BY <3>3, <5>1
      <4> QED
        BY <4>1, <4>2
    <3> QED
      BY <2>2, <3>1, <3>4
  <2>7. CASE s.does \in {"include", "use"}
    <3>1. g = <<s>>
      BY <2>7 DEF Compiled
    <3>2. Len(g) = 1 /\ g[1].does # "declare"
      BY <2>7, <3>1
    <3> HIDE DEF g, s
    <3> QED
      BY <2>6, <2>7, <3>2
  <2>8. CASE s.does \in {"early", "late"}
    <3>0. g = IF k + 1 \in EarlyAt(text) THEN <<>>
              ELSE IF s.class \in Bound(text, k + 1) \cup Declared THEN <<Op("redeclared", s)>>
              ELSE Declaration(s, Bound(text, k + 1) \cup {s.class})
      BY <2>8 DEF Compiled
    <3>1. CASE k + 1 \in EarlyAt(text)
      <4>1. g = <<>> /\ s.class \in known
        BY <3>0, <3>1, EarlyProperties
      <4>2. Len(g) = 0
        BY <4>1
      <4> HIDE DEF g, s
      <4> QED
        BY <2>6, <4>1, <4>2
    <3>2. CASE k + 1 \notin EarlyAt(text) /\ s.class \in Bound(text, k + 1) \cup Declared
      <4>1. g = <<Op("redeclared", s)>>
        BY <3>0, <3>2
      <4>2. s \in Shape
        BY <2>4, StatementShape
      <4>3. Len(g) = 1 /\ g[1].does # "declare"
        BY <4>1, <4>2 DEF Op, Shape
      <4>4. s.class \in known \/ \E m \in 1 .. Len(f) : Brings(f[m]) /\ f[m].class = s.class
        BY <2>5, <3>2
      <4> HIDE DEF g, s
      <4> QED
        BY <2>6, <4>3, <4>4
    <3>3. CASE k + 1 \notin EarlyAt(text) /\ s.class \notin Bound(text, k + 1) \cup Declared
      <4> DEFINE bound == Bound(text, k + 1) \cup {s.class}
      <4>1. g = Declaration(s, bound)
        BY <3>0, <3>3
      <4> HIDE DEF s, g, bound
      <4>2. /\ \A j \in 1 .. Len(g) : g[j].does = "declare" =>
                 /\ g[j].parent = s.parent
                 /\ \/ Known(s.parent, bound)
                    \/ \E m \in 1 .. j - 1 : Brings(g[m]) /\ g[m].class = g[j].parent
            /\ \E j \in 1 .. Len(g) : g[j].does = "declare" /\ g[j].class = s.class
        <5>1. LET h == Declaration(s, bound) IN
              /\ \A j \in 1 .. Len(h) : h[j].does = "declare" =>
                   /\ h[j].parent = s.parent
                   /\ \/ Known(s.parent, bound)
                      \/ \E m \in 1 .. j - 1 : Brings(h[m]) /\ h[m].class = h[j].parent
              /\ \E j \in 1 .. Len(h) : h[j].does = "declare" /\ h[j].class = s.class
          <6>1. s \in Statements /\ s.does \in {"early", "late", "nested"}
            BY <2>4, <2>8
          <6> QED
            BY <6>1, DeclarationBrings, Zenon
        <5> QED
          BY <4>1, <5>1, Zenon
      <4>3. Known(s.parent, bound) =>
              \/ s.parent \in known \cup {NoClass}
              \/ \E m \in 1 .. Len(f) : Brings(f[m]) /\ f[m].class = s.parent
        BY <2>4, <2>5, <2>8 DEF Known, bound
      <4>4. \E m \in 1 .. Len(g) : Brings(g[m]) /\ g[m].class = s.class
        BY <4>2 DEF Brings
      <4>5. \A j \in 1 .. Len(g) : g[j].does = "declare" =>
                 \/ g[j].parent \in known \cup {NoClass}
                 \/ \E m \in 1 .. Len(f) : Brings(f[m]) /\ f[m].class = g[j].parent
                 \/ \E m \in 1 .. j - 1 : Brings(g[m]) /\ g[m].class = g[j].parent
        BY <4>2, <4>3
      <4> QED
        BY <2>6, <4>4, <4>5
    <3> QED
      BY <3>1, <3>2, <3>3
  <2> QED
    BY <2>4, <2>7, <2>8
<1> HIDE DEF N
<1>5. Nat \subseteq N
  BY <1>3, <1>4, NatSetInduction
<1>6. n \in N /\ n \in 0 .. n
  BY <1>1, <1>5
<1>7. C(n) = [i \in DOMAIN text |-> Compiled(text, i)]
  BY <1>1
<1> QED
  BY <1>6, <1>7 DEF N, Code

StackReady(s, known, n) == \A i \in 1 .. n : s[i].kind = "file" => Ready(s[i].ops, known)

\* Files under way are ready; a file that an error has reached on its way up will not go on.
FilesReady ==
  /\ StackReady(stack, Declared, Len(stack) - 1)
  /\ Running => StackReady(stack, Declared, Len(stack))

ParentsInv == ParentsFirst /\ FilesReady

LEMMA StackReadyMore ==
  ASSUME NEW s, NEW known, NEW n \in Int, StackReady(s, known, n),
         NEW t, NEW more, NEW m \in Int, known \subseteq more, m <= n,
         \A i \in 1 .. m : t[i] = s[i]
  PROVE  StackReady(t, more, m)
BY ReadyMore DEF StackReady

\* The steps that load nothing and take nothing but an operation off a file.
LEMMA DoneReady ==
  ASSUME ProperStack(stack), NEW does, InFile(does), FilesReady,
         NEW more, Declared \subseteq more
  PROVE  /\ StackReady(Done, more, Len(Done) - 1)
         /\ (Brings(Head(Top.ops)) => Head(Top.ops).class \in more)
              => StackReady(Done, more, Len(Done))
<1>1. /\ Top.kind = "file" /\ Top.ops \in Seq(ProperOps) /\ Top.ops # <<>> /\ Running
      /\ Tail(Top.ops) \in Seq(ProperOps)
  BY InFileTop
<1>2. /\ Len(Done) = Len(stack)
      /\ \A i \in 1 .. Len(stack) :
           Done[i] = IF i = Len(stack) THEN [Top EXCEPT !.ops = Tail(Top.ops)] ELSE stack[i]
  BY <1>1, StackOps DEF Done
<1>3. Len(stack) \in Nat /\ Top = stack[Len(stack)] /\ Len(stack) >= 1 /\ Top \in Frame
  BY StackTop DEF ProperFrames
<1>4. Ready(Top.ops, Declared) /\ StackReady(stack, Declared, Len(stack) - 1)
  BY <1>1, <1>3 DEF FilesReady, StackReady
<1>5. [Top EXCEPT !.ops = Tail(Top.ops)].ops = Tail(Top.ops)
  BY <1>3 DEF Frame
<1> HIDE DEF Done
<1>6. StackReady(Done, more, Len(Done) - 1)
  BY <1>2, <1>3, <1>4, StackReadyMore
<1>7. ASSUME Brings(Head(Top.ops)) => Head(Top.ops).class \in more
      PROVE  StackReady(Done, more, Len(Done))
  <2>1. Ready(Tail(Top.ops), more)
    BY <1>1, <1>4, <1>7, ReadyTail
  <2>2. Ready(Done[Len(Done)].ops, more)
    <3>1. Len(stack) \in 1 .. Len(stack)
      BY <1>3
    <3>2. Done[Len(stack)] = [Top EXCEPT !.ops = Tail(Top.ops)]
      BY <1>2, <3>1
    <3> QED
      BY <1>2, <1>5, <2>1, <3>2, Zenon
  <2> QED
    BY <1>2, <1>3, <1>6, <2>2 DEF StackReady
<1> QED
  BY <1>6, <1>7

LEMMA AppendReady ==
  ASSUME NEW s, ProperStack(s), NEW known, StackReady(s, known, Len(s)),
         NEW x, x.kind = "file" => Ready(x.ops, known)
  PROVE  StackReady(Append(s, x), known, Len(Append(s, x)))
<1>1. s \in Seq(ProperFrames) /\ Len(s) \in Nat
  BY DEF ProperStack
<1>2. /\ Len(Append(s, x)) = Len(s) + 1 /\ Append(s, x)[Len(s) + 1] = x
      /\ \A i \in 1 .. Len(s) : Append(s, x)[i] = s[i]
  BY <1>1
<1> QED
  BY <1>1, <1>2 DEF StackReady

LEMMA IncludeReady ==
  ASSUME ~Nested, LoadTypes, Running, NEW f \in Files, NEW once, NEW rest, Include(f, once, rest),
         ProperStack(rest), ParentsFirst, StackReady(rest, Declared, Len(rest))
  PROVE  ParentsFirst' /\ StackReady(stack', Declared', Len(stack'))
<1>1. CASE stack' = rest /\ UNCHANGED classes
  BY <1>1 DEF ParentsFirst, Declared
<1>2. ASSUME NEW text \in TextsOf(f), classes' = Loaded(text, Len(loads')),
             stack' = Append(rest, File(Code(text), Len(loads')))
      PROVE  ParentsFirst' /\ StackReady(stack', Declared', Len(stack'))
  <2> DEFINE n == Len(loads')
             x == File(Code(text), n)
  <2>1. classes' = Loaded(text, n) /\ stack' = Append(rest, x)
    BY <1>2
  <2>2. x.ops = Code(text)
    BY DEF File, Main
  <2> HIDE DEF n, x
  <2>3. text \in Texts
    BY TextsOfProperties DEF LoadTypes
  <2>4. Loads(classes', text, n)
    BY <2>1, <2>3, LoadedProperties
  <2>5. Declared' = Declared \cup EarlyBound(text)
    BY <2>4 DEF Declared, Loads
  <2>6. ASSUME NEW c \in Declared'
        PROVE  classes'[c].parent \in Declared' \cup {NoClass}
    <3>1. CASE c \in Declared
      BY <2>4, <2>5, <3>1 DEF ParentsFirst, Loads
    <3>2. CASE c \in EarlyBound(text)
      <4>1. PICK i \in EarlyAt(text) : classes'[c] = [load |-> n, parent |-> text[i].parent]
        BY <2>4, <3>2 DEF Loads
      <4>2. text[i].parent \in EarlyBound(text) \cup Declared \cup {NoClass}
        BY <2>3, EarlyProperties
      <4> QED
        BY <2>5, <4>1, <4>2
    <3> QED
      BY <2>5, <3>1, <3>2
  <2>7. Ready(Code(text), Declared')
    BY <2>3, <2>5, CodeReady
  <2>8. StackReady(rest, Declared', Len(rest))
    BY <2>5, ReadyMore DEF StackReady
  <2>9. StackReady(Append(rest, x), Declared', Len(Append(rest, x)))
    BY <2>2, <2>7, <2>8, AppendReady
  <2> QED
    BY <2>1, <2>6, <2>9 DEF ParentsFirst
<1> QED
  BY <1>1, <1>2 DEF Include, Read

LEMMA ParentsStep == ~Nested /\ Types /\ ParentsInv /\ [Next]_vars => ParentsInv'
<1> SUFFICES ASSUME ~Nested, Types, ParentsInv, [Next]_vars PROVE ParentsInv'
  OBVIOUS
<1>0. LoadTypes /\ ChainTypes /\ ProperStack(stack) /\ ParentsFirst /\ FilesReady
  BY DEF Types, ParentsInv
<1>a. Len(stack) \in Nat /\ Len(stack) >= 1 /\ Top = stack[Len(stack)]
  BY <1>0, StackTop
<1>b. ProperStack(stack') /\ Len(stack') \in Nat /\ Len(stack') >= 1
  <2>1. ProperStack(stack')
    BY TypesStep DEF Types
  <2>2. stack' \in Seq(ProperFrames) /\ stack' # <<>>
    BY <2>1 DEF ProperStack
  <2> QED
    BY <2>1, <2>2, EmptySeq, LenProperties
\* It is enough that all files are ready, or that the step ends in an error and those
\* below the top are.
<1>c. ASSUME ParentsFirst', StackReady(stack', Declared', Len(stack'))
      PROVE  ParentsInv'
  <2>1. StackReady(stack', Declared', Len(stack') - 1)
    BY <1>b, <1>c DEF StackReady
  <2> QED
    BY <1>c, <2>1 DEF ParentsInv, FilesReady
<1>d. ASSUME ParentsFirst', StackReady(stack', Declared', Len(stack') - 1), unwinding' # "none"
      PROVE  ParentsInv'
  BY <1>d DEF ParentsInv, FilesReady, Running
<1>e. UNCHANGED classes => ParentsFirst' /\ Declared' = Declared
  BY <1>0 DEF ParentsFirst, Declared
<1>1. CASE UNCHANGED <<stack, classes, unwinding>>
  BY <1>0, <1>1, <1>e DEF ParentsInv, FilesReady, Running
<1>2. CASE CodeIncludes
  <2>1. PICK f \in Files, once \in BOOLEAN : Include(f, once, stack)
    BY <1>2 DEF CodeIncludes
  <2>2. Running
    BY <1>2 DEF CodeIncludes, Act
  <2>3. ParentsFirst' /\ StackReady(stack', Declared', Len(stack'))
    BY <1>0, <2>1, <2>2, IncludeReady DEF FilesReady
  <2> QED
    BY <1>c, <2>3
<1>3. CASE CodeAsks
  <2>1. PICK c \in Classes : StartLookup(c, stack)
    BY <1>3 DEF CodeAsks
  <2>2. Lookup(c).kind # "file"
    BY DEF Lookup, Main
  <2>3. Running /\ UNCHANGED classes
    BY <1>3 DEF CodeAsks, Act
  <2>4. StackReady(stack', Declared', Len(stack'))
    BY <1>0, <1>e, <2>1, <2>2, <2>3, AppendReady DEF StartLookup, FilesReady
  <2> QED
    BY <1>c, <1>e, <2>3, <2>4
<1>4. CASE CodeThrows
  BY <1>0, <1>4, <1>d, <1>e DEF CodeThrows, FilesReady
<1>5. CASE Catch
  <2>1. Top.kind # "file" /\ UNCHANGED <<stack, classes>>
    BY <1>5 DEF Catch, AnyCode
  <2>2. StackReady(stack, Declared, Len(stack))
    BY <1>0, <1>a, <2>1 DEF FilesReady, StackReady
  <2> QED
    BY <1>c, <1>e, <2>1, <2>2
<1>6. CASE FileIncludes
  <2> DEFINE o == Head(Top.ops)
  <2>1. InFile("include") /\ Include(o.file, o.once, Done)
    BY <1>6 DEF FileIncludes
  <2>2. o \in ProperOps /\ o.does = "include" /\ ProperStack(Done) /\ Running
    BY <1>0, <2>1, InFileTop
  <2>3. o.file \in Files /\ ~ Brings(o)
    BY <2>2 DEF ProperOps, Brings
  <2>4. StackReady(Done, Declared, Len(Done))
    BY <1>0, <2>1, <2>3, DoneReady
  <2>5. ParentsFirst' /\ StackReady(stack', Declared', Len(stack'))
    BY <1>0, <2>1, <2>2, <2>3, <2>4, IncludeReady
  <2> QED
    BY <1>c, <2>5
<1>7. CASE Asks
  <2> DEFINE o == Head(Top.ops)
             found == <<[o EXCEPT !.does = "found"]>> \o Tail(Top.ops)
  <2>1. PICK does \in {"use", "link"} : InFile(does)
    BY <1>7 DEF Asks
  <2>2. /\ Top.kind = "file" /\ o \in ProperOps /\ o.does \in {"use", "link"} /\ Running
        /\ Top.ops \in Seq(ProperOps) /\ Top.ops # <<>> /\ Tail(Top.ops) \in Seq(ProperOps)
    BY <1>0, <2>1, InFileTop
  <2>3. UNCHANGED classes
    BY <1>7 DEF Asks
  <2>4. CASE o.class \in Declared /\ stack' = Done
    <3>1. StackReady(Done, Declared, Len(Done))
      BY <1>0, <2>1, <2>4, DoneReady
    <3> QED
      BY <1>c, <1>e, <2>3, <2>4, <3>1
  <2>5. CASE unwinding' = "throw" /\ stack' = Done
    <3>1. StackReady(Done, Declared, Len(Done) - 1)
      BY <1>0, <2>1, DoneReady
    <3> QED
      BY <1>d, <1>e, <2>3, <2>5, <3>1
  <2>6. CASE StartLookup(o.class, OpsBecome(found))
    <3>1. Ready(Top.ops, Declared) /\ StackReady(stack, Declared, Len(stack))
      BY <1>0, <1>a, <2>2 DEF FilesReady, StackReady
    <3>2. Ready(found, Declared)
      BY <2>2, <3>1, ReadyFound
    <3>3. found \in Seq(ProperOps)
      <4>1. [o EXCEPT !.does = "found"] \in ProperOps
        BY <2>2 DEF ProperOps, Ops
      <4> QED
        BY <2>2, <4>1
    <3> DEFINE t == OpsBecome(found)
    <3>4. /\ ProperStack(t) /\ Len(t) = Len(stack)
          /\ \A i \in 1 .. Len(stack) : t[i] = IF i = Len(stack) THEN [Top EXCEPT !.ops = found] ELSE stack[i]
      BY <1>0, <2>2, <3>3, StackOps
    <3>5. [Top EXCEPT !.ops = found].ops = found
      <4>1. Top \in Frame
        BY <1>0, StackTop DEF ProperFrames
      <4> QED
        BY <4>1 DEF Frame
    <3> HIDE DEF t, found
    <3>6. StackReady(t, Declared, Len(t))
      BY <1>a, <3>1, <3>2, <3>4, <3>5 DEF StackReady
    <3>7. Lookup(o.class).kind # "file"
      BY DEF Lookup, Main
    <3>8. stack' = Append(t, Lookup(o.class))
      BY <2>6 DEF StartLookup, t, found
    <3>9. StackReady(stack', Declared, Len(stack'))
      BY <3>4, <3>6, <3>7, <3>8, AppendReady
    <3> QED
      BY <1>c, <1>e, <2>3, <3>9
  <2> QED
    BY <1>7, <2>4, <2>5, <2>6 DEF Asks
<1>8. CASE Answered
  <2>1. InFile("found") /\ stack' = Done /\ UNCHANGED classes
    BY <1>8 DEF Answered
  <2>2. CASE Head(Top.ops).class \in Declared
    <3>1. StackReady(Done, Declared, Len(Done))
      BY <1>0, <2>1, <2>2, DoneReady
    <3> QED
      BY <1>c, <1>e, <2>1, <3>1
  <2>3. CASE unwinding' = "throw"
    <3>1. StackReady(Done, Declared, Len(Done) - 1)
      BY <1>0, <2>1, DoneReady
    <3> QED
      BY <1>d, <1>e, <2>1, <2>3, <3>1
  <2> QED
    BY <1>8, <2>2, <2>3 DEF Answered
<1>9. CASE Declare
  <2> DEFINE o == Head(Top.ops)
  <2>1. InFile("declare") /\ stack' = Done
    BY <1>9 DEF Declare
  <2>2. CASE unwinding' = "fatal" /\ UNCHANGED classes
    <3>1. StackReady(Done, Declared, Len(Done) - 1)
      BY <1>0, <2>1, DoneReady
    <3> QED
      BY <1>d, <1>e, <2>1, <2>2, <3>1
  <2>3. CASE o.class \notin Declared /\ classes' = With(classes, o.class, [load |-> Top.load, parent |-> o.parent])
    <3>1. Declared' = Declared \cup {o.class}
      BY <2>3 DEF Declared, With
    <3>2. StackReady(Done, Declared', Len(Done))
      BY <1>0, <2>1, <3>1, DoneReady
    <3>3. o.parent \in Declared \cup {NoClass}
      <4>1. Top.kind = "file" /\ Top.ops \in Seq(ProperOps) /\ Top.ops # <<>> /\ Running
            /\ o.does = "declare"
        BY <1>0, <2>1, InFileTop
      <4>2. Ready(Top.ops, Declared)
        BY <1>0, <1>a, <4>1 DEF FilesReady, StackReady
      <4>3. o = Top.ops[1] /\ 1 \in 1 .. Len(Top.ops) /\ 1 .. 1 - 1 = {}
        BY <4>1, EmptySeq
      <4> QED
        BY <4>1, <4>2, <4>3 DEF Ready
    <3>4. \A c \in Declared' : classes'[c].parent \in Declared' \cup {NoClass}
      BY <1>0, <2>3, <3>1, <3>3 DEF ParentsFirst, With, Declared
    <3>5. ParentsFirst'
      BY <3>4 DEF ParentsFirst
    <3> QED
      BY <1>c, <2>1, <3>2, <3>5
  <2> QED
    BY <1>9, <2>2, <2>3 DEF Declare
<1>10. CASE Redeclared
  <2>1. InFile("redeclared") /\ stack' = Done /\ UNCHANGED classes /\ unwinding' = "fatal"
    BY <1>10 DEF Redeclared
  <2>2. StackReady(Done, Declared, Len(Done) - 1)
    BY <1>0, <2>1, DoneReady
  <2> QED
    BY <1>d, <1>e, <2>1, <2>2
<1>11. CASE CallLoader
  <2> DEFINE t == [stack EXCEPT ![Len(stack)].rest = Tail(@)]
             x == Loader(Head(Top.rest))
  <2>1. Top.rest \in Seq(Loaders) /\ Top.rest # <<>> /\ Top \in Frame /\ Top.kind = "lookup" /\ Running
        /\ stack' = Append(t, x) /\ UNCHANGED classes
    BY <1>0, <1>11, StackTop DEF CallLoader, ProperFrames, Frame
  <2>2. Tail(Top.rest) \in Seq(Loaders)
    BY <2>1
  <2>3. /\ ProperStack(t) /\ Len(t) = Len(stack)
        /\ \A i \in 1 .. Len(stack) :
             t[i] = IF i = Len(stack) THEN [Top EXCEPT !.rest = Tail(Top.rest)] ELSE stack[i]
    BY <1>0, <2>1, <2>2, StackRest
  <2>4. [Top EXCEPT !.rest = Tail(Top.rest)].kind = "lookup"
    BY <2>1 DEF Frame
  <2>5. x.kind # "file"
    BY DEF Loader, Main
  <2> HIDE DEF t, x
  <2>6. StackReady(t, Declared, Len(t))
    BY <1>0, <1>a, <2>1, <2>3, <2>4 DEF FilesReady, StackReady
  <2>7. StackReady(stack', Declared, Len(stack'))
    BY <2>1, <2>3, <2>5, <2>6, AppendReady
  <2> QED
    BY <1>c, <1>e, <2>1, <2>7
<1>12. CASE LookupEnds \/ CodeEnds
  <2>1. Top.kind # "main" /\ stack' = Front(stack) /\ UNCHANGED classes
    BY <1>12 DEF LookupEnds, CodeEnds, Pop
  <2>2. Len(Front(stack)) = Len(stack) - 1 /\ \A i \in 1 .. Len(stack) - 1 : Front(stack)[i] = stack[i]
    BY <1>0, <2>1, StackFront
  <2>3. StackReady(stack', Declared, Len(stack'))
    BY <1>0, <2>1, <2>2 DEF FilesReady, StackReady
  <2> QED
    BY <1>c, <1>e, <2>1, <2>3
<1> QED
  BY <1>1, <1>2, <1>3, <1>4, <1>5, <1>6, <1>7, <1>8, <1>9, <1>10, <1>11, <1>12
  DEF Next, Program, Engine, Terminated, vars, Register, Unregister

\* In programs whose functions declare no classes, a class that is there has its
\* parent, whatever the files include and the loaders do while it waits for it.
THEOREM ParentsAreThere ==
  ASSUME ~Nested
  PROVE  Spec => []ParentsFirst
<1>1. Init => ParentsInv
  <2> SUFFICES ASSUME Init PROVE ParentsInv
    OBVIOUS
  <2>1. Declared = {} /\ Len(stack) = 1 /\ stack[1].kind = "main"
    BY DEF Init, Main, Declared
  <2>2. ParentsFirst
    BY <2>1 DEF ParentsFirst
  <2>3. StackReady(stack, Declared, Len(stack)) /\ StackReady(stack, Declared, Len(stack) - 1)
    BY <2>1 DEF StackReady
  <2> QED
    BY <2>2, <2>3 DEF ParentsInv, FilesReady
<1>2. Types /\ ParentsInv /\ [Next]_vars => ParentsInv'
  BY ParentsStep
<1>3. ParentsInv => ParentsFirst
  BY DEF ParentsInv
<1> QED
  BY <1>1, <1>2, <1>3, TypesHold, PTL DEF Spec

=============================================================================
