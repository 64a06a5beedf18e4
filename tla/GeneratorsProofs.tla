--------------------------- MODULE GeneratorsProofs ---------------------------
(***************************************************************************)
(* Theorems about Generators, for any number of generators, any depth of   *)
(* regions and any of the constructs, but that what is injected needs      *)
(* programs which do not throw() into a generator that runs.               *)
(*                                                                         *)
(* The invariant is built up in layers, each of which uses those before:   *)
(* Types (what is stored, and that it names generators that exist), Chain  *)
(* (who has resumed whom), Tame (the order of the steps of what is left of *)
(* a host function), Starts (what has begun, and what the flag of rewind   *)
(* means), Injected, and at last Owners, Ended and Closing (who can        *)
(* destroy a generator, and when).                                         *)
(***************************************************************************)
EXTENDS Generators, SequenceLemmas

-----------------------------------------------------------------------------
(* Types: steps, regions and resumers name generators that exist.          *)

OpOf(n) == {op \in Op : op.gen \in 1 .. n \/ (op.step = "return" /\ op.gen = Main)}
RegionOf(n) == {r \in Region : r.kind = "loop" => r.gen \in 1 .. n}
CellOf(n) == {c \in Cell : c.cont \in Seq(OpOf(n))}
ResumerOf(n) == {r \in Resumer : r.gen \in 1 .. n /\ r.ops \in Seq(OpOf(n))}

Types ==
  /\ gens \in Seq(CellOf(Len(gens))) /\ Len(gens) <= MaxGens
  /\ regions \in [Codes -> Seq(RegionOf(Len(gens)))]
  /\ ctx \in Context
  /\ resumed \in Seq(ResumerOf(Len(gens))) /\ ops \in Seq(OpOf(Len(gens)))
  /\ exit \in BOOLEAN
  /\ phase \in {"run", "shutdown", "over"} /\ count \in 0 .. Len(gens) /\ next \in 1 .. MaxGens + 1

LEMMA OfMore ==
  ASSUME NEW n \in Nat, NEW m \in Nat, n <= m
  PROVE  /\ OpOf(n) \subseteq OpOf(m) /\ Seq(OpOf(n)) \subseteq Seq(OpOf(m))
         /\ RegionOf(n) \subseteq RegionOf(m) /\ Seq(RegionOf(n)) \subseteq Seq(RegionOf(m))
         /\ CellOf(n) \subseteq CellOf(m) /\ Seq(CellOf(n)) \subseteq Seq(CellOf(m))
         /\ ResumerOf(n) \subseteq ResumerOf(m) /\ Seq(ResumerOf(n)) \subseteq Seq(ResumerOf(m))
<1>1. OpOf(n) \subseteq OpOf(m) /\ RegionOf(n) \subseteq RegionOf(m)
  BY DEF OpOf, RegionOf
<1>2. Seq(OpOf(n)) \subseteq Seq(OpOf(m)) /\ Seq(RegionOf(n)) \subseteq Seq(RegionOf(m))
  BY <1>1, SeqMonotonic
<1>3. CellOf(n) \subseteq CellOf(m) /\ ResumerOf(n) \subseteq ResumerOf(m)
  BY <1>2 DEF CellOf, ResumerOf
<1> QED
  BY <1>1, <1>2, <1>3, SeqMonotonic

LEMMA Plainly ==
  ASSUME NEW n \in Nat
  PROVE  /\ OpOf(n) \subseteq Op /\ Seq(OpOf(n)) \subseteq Seq(Op)
         /\ RegionOf(n) \subseteq Region /\ Seq(RegionOf(n)) \subseteq Seq(Region)
         /\ CellOf(n) \subseteq Cell /\ Seq(CellOf(n)) \subseteq Seq(Cell)
         /\ ResumerOf(n) \subseteq Resumer /\ Seq(ResumerOf(n)) \subseteq Seq(Resumer)
<1>1. /\ OpOf(n) \subseteq Op /\ RegionOf(n) \subseteq Region
      /\ CellOf(n) \subseteq Cell /\ ResumerOf(n) \subseteq Resumer
  BY DEF OpOf, RegionOf, CellOf, ResumerOf
<1> QED
  BY <1>1, SeqMonotonic

LEMMA TypesImplyTypeOK == Types => TypeOK
<1> SUFFICES ASSUME Types PROVE TypeOK
  OBVIOUS
<1>1. Len(gens) \in Nat
  BY LenProperties DEF Types
<1>2. regions \in [Codes -> Seq(Region)]
  BY <1>1, Plainly DEF Types
<1>3. count \in 0 .. MaxGens
  BY <1>1, GeneratorsAssumption DEF Types
<1> QED
  BY <1>1, <1>2, <1>3, Plainly DEF Types, TypeOK

\* What a sequence is made of.
LEMMA SeqParts ==
  ASSUME NEW S, NEW s \in Seq(S)
  PROVE  /\ Len(s) \in Nat /\ DOMAIN s = 1 .. Len(s) /\ \A i \in 1 .. Len(s) : s[i] \in S
         /\ s # <<>> => Len(s) # 0 /\ Head(s) \in S /\ Head(s) = s[1] /\ Tail(s) \in Seq(S) /\ Len(Tail(s)) = Len(s) - 1
              /\ \A i \in 1 .. Len(s) - 1 : Tail(s)[i] = s[i + 1]
         /\ s # <<>> => Last(s) \in S /\ Front(s) \in Seq(S) /\ Len(Front(s)) = Len(s) - 1
              /\ \A i \in 1 .. Len(s) - 1 : Front(s)[i] = s[i]
<1>1. Len(s) \in Nat /\ DOMAIN s = 1 .. Len(s) /\ \A i \in 1 .. Len(s) : s[i] \in S
  BY LenProperties, ElementOfSeq
<1>2. ASSUME s # <<>> PROVE Len(s) # 0
  BY <1>2, EmptySeq
<1>3. ASSUME s # <<>>
      PROVE  /\ Head(s) \in S /\ Head(s) = s[1] /\ Tail(s) \in Seq(S) /\ Len(Tail(s)) = Len(s) - 1
             /\ \A i \in 1 .. Len(s) - 1 : Tail(s)[i] = s[i + 1]
  BY <1>1, <1>2, <1>3, HeadTailProperties
<1>4. ASSUME s # <<>>
      PROVE  /\ Last(s) \in S /\ Front(s) \in Seq(S) /\ Len(Front(s)) = Len(s) - 1
             /\ \A i \in 1 .. Len(s) - 1 : Front(s)[i] = s[i]
  BY <1>1, <1>2, <1>4, SubSeqProperties DEF Last, Front
<1> QED
  BY <1>1, <1>2, <1>3, <1>4

\* The lists of steps that host functions begin with; first those of methods.
CallLists ==
  {<<"init">>, <<"init", "resume">>, <<"init", "check">>, <<"closed", "init", "check">>,
   <<"prime", "resume">>, <<"init", "inject", "resume">>, <<"init", "each">>}
Lists ==
  CallLists \cup
  {<<"closed", "init", "check", "bubble", "init", "bubble", "turn">>,
   <<"init", "resume", "bubble", "init", "bubble", "turn">>, <<"release">>,
   <<"release", "bubble">>, <<"force", "over">>, <<"first">>, <<"resume", "each">>,
   <<"resume">>, <<"over">>}

LEMMA ListsAreSteps ==
  ASSUME NEW l \in Lists
  PROVE  l \in Seq(Steps \ {"return"}) /\ Len(l) \in Nat /\ Len(l) # 0
<1> DEFINE T == Steps \ {"return"}
           Fine(x) == x \in Seq(T) /\ Len(x) \in Nat /\ Len(x) # 0
<1>0. /\ "closed" \in T /\ "init" \in T /\ "first" \in T /\ "check" \in T /\ "prime" \in T
      /\ "resume" \in T /\ "inject" \in T /\ "each" \in T /\ "release" \in T /\ "force" \in T
      /\ "over" \in T /\ "bubble" \in T /\ "turn" \in T
  BY DEF Steps
<1> HIDE DEF T
<1>1. Fine(<<"init">>)
  BY <1>0
<1>2. Fine(<<"init", "resume">>)
  BY <1>0
<1>3. Fine(<<"init", "check">>)
  BY <1>0
<1>4. Fine(<<"closed", "init", "check">>)
  BY <1>0
<1>5. Fine(<<"prime", "resume">>)
  BY <1>0
<1>6. Fine(<<"init", "inject", "resume">>)
  BY <1>0
<1>7. Fine(<<"init", "each">>)
  BY <1>0
<1>8. Fine(<<"closed", "init", "check", "bubble", "init", "bubble", "turn">>)
  BY <1>0
<1>9. Fine(<<"init", "resume", "bubble", "init", "bubble", "turn">>)
  BY <1>0
<1>10. Fine(<<"release">>)
  BY <1>0
<1>11. Fine(<<"release", "bubble">>)
  BY <1>0
<1>12. Fine(<<"force", "over">>)
  BY <1>0
<1>13. Fine(<<"first">>)
  BY <1>0
<1>14. Fine(<<"resume", "each">>)
  BY <1>0
<1>15. Fine(<<"resume">>)
  BY <1>0
<1>16. Fine(<<"over">>)
  BY <1>0
<1> HIDE DEF Fine
<1>20. Fine(l)
  BY <1>1, <1>2, <1>3, <1>4, <1>5, <1>6, <1>7, <1>8, <1>9, <1>10, <1>11, <1>12, <1>13, <1>14, <1>15, <1>16, Zenon DEF Lists, CallLists
<1> QED
  BY <1>20 DEF Fine, T

LEMMA DoIs ==
  ASSUME NEW n \in Nat, n <= MaxGens, NEW g \in 1 .. n, NEW l \in Lists
  PROVE  /\ Do(l, g) \in Seq(OpOf(n)) /\ Len(Do(l, g)) = Len(l)
         /\ \A i \in 1 .. Len(l) : Do(l, g)[i] = [step |-> l[i], gen |-> g]
<1>1. l \in Seq(Steps \ {"return"}) /\ Len(l) \in Nat
  BY ListsAreSteps
<1>2. \A i \in 1 .. Len(l) : l[i] \in Steps
  BY <1>1, ElementOfSeq
<1>3. g \in Codes
  BY GeneratorsAssumption DEF Codes, Ids
<1>4. \A i \in 1 .. Len(l) : [step |-> l[i], gen |-> g] \in OpOf(n)
  BY <1>2, <1>3 DEF OpOf, Op
<1>5. Do(l, g) = [i \in 1 .. Len(l) |-> [step |-> l[i], gen |-> g]]
  BY DEF Do
<1> QED
  BY <1>1, <1>4, <1>5

-----------------------------------------------------------------------------
(* What Types says of the code that runs.                                  *)

LEMMA CurIs ==
  ASSUME Types
  PROVE  /\ Len(gens) \in Nat /\ Len(gens) <= MaxGens /\ MaxGens \in Nat
         /\ Made = 1 .. Len(gens) /\ Made \subseteq Ids /\ Main \notin Ids /\ Main \notin Made
         /\ Made \subseteq Codes /\ Main \in Codes /\ Cur \in Codes
         /\ resumed = <<>> => Cur = Main
         /\ resumed # <<>> => /\ Cur \in Made /\ Cur # Main /\ Cur = Last(resumed).gen
                              /\ Last(resumed) \in ResumerOf(Len(gens))
                              /\ Front(resumed) \in Seq(ResumerOf(Len(gens)))
         /\ \A g \in Made : gens[g] \in CellOf(Len(gens))
         /\ \A c \in Codes : regions[c] \in Seq(RegionOf(Len(gens)))
<1> DEFINE n == Len(gens)
<1>1. /\ n \in Nat /\ n <= MaxGens /\ MaxGens \in Nat /\ Made = 1 .. n
      /\ \A g \in Made : gens[g] \in CellOf(n)
  BY SeqParts, GeneratorsAssumption DEF Types, Made
<1>2. /\ Made \subseteq Ids /\ Main \notin Ids /\ Main \notin Made
      /\ Made \subseteq Codes /\ Main \in Codes
  BY <1>1 DEF Ids, Main, Codes
<1>3. ASSUME resumed # <<>>
      PROVE  Last(resumed) \in ResumerOf(n) /\ Front(resumed) \in Seq(ResumerOf(n))
  <2>1. resumed \in Seq(ResumerOf(n))
    BY DEF Types
  <2> QED
    BY <1>3, <2>1, SeqParts
<1>4. ASSUME resumed # <<>> PROVE Cur = Last(resumed).gen /\ Cur \in Made /\ Cur # Main
  BY <1>1, <1>2, <1>3, <1>4 DEF Cur, ResumerOf
<1> QED
  BY <1>1, <1>2, <1>3, <1>4 DEF Types, Cur

LEMMA OpsAre ==
  ASSUME Types, ops # <<>>
  PROVE  /\ Head(ops) \in OpOf(Len(gens)) /\ Head(ops) = ops[1] /\ Target = ops[1].gen
         /\ Rest \in Seq(OpOf(Len(gens))) /\ Len(Rest) = Len(ops) - 1
         /\ Len(ops) \in Nat \ {0} /\ DOMAIN ops = 1 .. Len(ops)
         /\ \A i \in 1 .. Len(ops) - 1 : Rest[i] = ops[i + 1]
         /\ Head(ops).step # "return" => Target \in Made
<1>1. ops \in Seq(OpOf(Len(gens)))
  BY DEF Types
<1>2. /\ Head(ops) \in OpOf(Len(gens)) /\ Head(ops) = ops[1]
      /\ Rest \in Seq(OpOf(Len(gens))) /\ Len(Rest) = Len(ops) - 1
      /\ Len(ops) \in Nat \ {0} /\ DOMAIN ops = 1 .. Len(ops)
      /\ \A i \in 1 .. Len(ops) - 1 : Rest[i] = ops[i + 1]
  BY <1>1, SeqParts DEF Rest
<1> QED
  BY <1>2, CurIs DEF OpOf, Target

LEMMA TopIs ==
  ASSUME Types
  PROVE  /\ regions[Cur] = <<>> => Inner = "none"
         /\ regions[Cur] # <<>> =>
              /\ Top = Last(regions[Cur]) /\ Top \in RegionOf(Len(gens))
              /\ Inner \in Kinds /\ Inner # "none"
              /\ Front(regions[Cur]) \in Seq(RegionOf(Len(gens)))
<1> DEFINE rs == regions[Cur]
           R == RegionOf(Len(gens))
           S == {NoRegion} \cup R
           one == << NoRegion >>
<1>1. rs \in Seq(R)
  BY CurIs
<1>2. NoRegion.kind = "none"
  BY DEF NoRegion
<1>3. one \in Seq(S) /\ Len(one) = 1 /\ one[1] = NoRegion
  BY DEF NoRegion
<1>4. rs \in Seq(S) /\ Len(rs) \in Nat
  BY <1>1, SeqMonotonic, LenProperties
<1> HIDE DEF one, S, rs
<1>5. /\ one \o rs \in Seq(S) /\ Len(one \o rs) = 1 + Len(rs)
      /\ \A i \in 1 .. 1 + Len(rs) : (one \o rs)[i] = IF i <= 1 THEN one[i] ELSE rs[i - 1]
  <2>1. /\ one \o rs \in Seq(S) /\ Len(one \o rs) = Len(one) + Len(rs)
        /\ \A i \in 1 .. Len(one) + Len(rs) :
             (one \o rs)[i] = IF i <= Len(one) THEN one[i] ELSE rs[i - Len(one)]
    BY <1>3, <1>4, ConcatProperties, Zenon
  <2> QED
    BY <1>3, <1>4, <2>1
<1>6. Top = (one \o rs)[1 + Len(rs)]
  BY <1>5 DEF Top, Last, one, rs
<1>7. ASSUME rs = <<>> PROVE Inner = "none"
  BY <1>2, <1>3, <1>5, <1>6, <1>7, EmptySeq DEF Inner
<1>8. ASSUME rs # <<>> PROVE Top = Last(rs) /\ Top \in R /\ Front(rs) \in Seq(R)
  <2>1. Len(rs) # 0 /\ Last(rs) \in R /\ Front(rs) \in Seq(R)
    BY <1>1, <1>8, SeqParts
  <2>2. Top = rs[Len(rs)]
    BY <1>4, <1>5, <1>6, <2>1
  <2> QED
    BY <2>1, <2>2 DEF Last
<1>9. ASSUME rs # <<>> PROVE Inner \in Kinds /\ Inner # "none"
  BY <1>8, <1>9 DEF Inner, RegionOf, Region, Kinds
<1> QED
  BY <1>7, <1>8, <1>9 DEF rs

\* What entering and leaving regions does to them.
LEMMA RegionSteps ==
  ASSUME Types, NEW rs \in Seq(RegionOf(Len(gens))),
         regions' = [regions EXCEPT ![Cur] = rs]
  PROVE  regions' \in [Codes -> Seq(RegionOf(Len(gens)))]
BY CurIs DEF Types

LEMMA InIs ==
  ASSUME Types, NEW kind \in Kinds, NEW g \in Codes, NEW s \in Signals, kind # "loop" \/ g \in Made
  PROVE  In(kind, g, s) \in RegionOf(Len(gens))
BY CurIs DEF In, RegionOf, Region

LEMMA LeaveTypes ==
  ASSUME Types, regions[Cur] # <<>>, Leave
  PROVE  regions' \in [Codes -> Seq(RegionOf(Len(gens)))]
BY CurIs, TopIs DEF Leave, Types

LEMMA StartFinallyTypes ==
  ASSUME Types, regions[Cur] # <<>>, StartFinally
  PROVE  regions' \in [Codes -> Seq(RegionOf(Len(gens)))]
<1>1. ctx.signal \in Signals
  BY DEF Types, Context
<1>2. In("ending", Main, ctx.signal) \in RegionOf(Len(gens))
  BY <1>1, InIs, CurIs DEF Kinds
<1>3. Append(Front(regions[Cur]), In("ending", Main, ctx.signal)) \in Seq(RegionOf(Len(gens)))
  BY <1>2, TopIs, AppendProperties
<1> QED
  BY <1>3, CurIs DEF StartFinally, Types

LEMMA SignalTypes ==
  ASSUME Types, NEW s \in Signals, SetSignal(s)
  PROVE  ctx' \in Context /\ ctx'.frames = ctx.frames /\ ctx'.signal = s
BY DEF Types, SetSignal, Context

\* The loops of a chunk are the innermost regions up to one of another kind.
LEMMA LoopsAre ==
  ASSUME NEW n \in Nat, NEW rs \in Seq(RegionOf(n))
  PROVE  /\ Loops(rs) \in Seq(RegionOf(n)) /\ Len(Loops(rs)) \in 0 .. Len(rs) /\ Len(rs) \in Nat
         /\ \A i \in 1 .. Len(Loops(rs)) :
              /\ Loops(rs)[i] = rs[(Len(rs) - Len(Loops(rs))) + i]
              /\ Loops(rs)[i].kind = "loop"
              /\ Loops(rs)[i].gen \in 1 .. n
<1> DEFINE outer == {i \in 1 .. Len(rs) : rs[i].kind # "loop"}
           T == {0} \cup outer
           m == Max(T)
<1>1. Len(rs) \in Nat /\ \A i \in 1 .. Len(rs) : rs[i] \in RegionOf(n)
  BY SeqParts
<1>2. m \in T /\ \A y \in T : m >= y
  <2>1. \E x \in T : \A y \in T : x >= y
    <3>1. CASE outer = {}
      BY <3>1
    <3>2. CASE outer # {}
      <4>1. Max(outer) \in outer /\ \A y \in outer : y <= Max(outer)
        BY <1>1, <3>2, MaxIs
      <4> QED
        BY <1>1, <4>1
    <3> QED
      BY <3>1, <3>2
  <2> QED
    BY <2>1 DEF Max
<1> DEFINE l == SubSeq(rs, m + 1, Len(rs))
<1>4. Loops(rs) = l
  BY DEF Loops
<1> HIDE DEF m
<1>3. m \in 0 .. Len(rs) /\ \A i \in m + 1 .. Len(rs) : rs[i].kind = "loop"
  <2>1. m \in 0 .. Len(rs) /\ \A y \in outer : m >= y
    BY <1>1, <1>2
  <2>2. ASSUME NEW i \in m + 1 .. Len(rs) PROVE rs[i].kind = "loop"
    BY <1>1, <2>1, <2>2
  <2> QED
    BY <2>1, <2>2
<1>5. /\ l \in Seq(RegionOf(n)) /\ Len(l) = Len(rs) - m
      /\ \A i \in 1 .. Len(rs) - m : l[i] = rs[m + i]
  BY <1>1, <1>3, SubSeqProperties
<1>6. ASSUME NEW i \in 1 .. Len(rs) - m
      PROVE  l[i] = rs[m + i] /\ rs[m + i].kind = "loop" /\ rs[m + i].gen \in 1 .. n
  BY <1>1, <1>3, <1>5 DEF RegionOf
<1> HIDE DEF l
<1>7. Len(rs) - Len(l) = m
  BY <1>1, <1>3, <1>5
<1> QED
  BY <1>1, <1>3, <1>4, <1>5, <1>6, <1>7

LoopsOver(rs) == {rs[i].gen : i \in {j \in 1 .. Len(rs) : rs[j].kind = "loop"}}

\* What return has to do: release, one after the other, the loops it leaves.
ReturnOps == {op \in Op : \/ op.step = "return" /\ op.gen = Main
                          \/ op.step \in {"release", "bubble"} /\ op.gen \in LoopsOver(regions[Cur])}

LEMMA ReturnIs ==
  ASSUME Types, Return
  PROVE  ops' \in Seq(ReturnOps) /\ ReturnOps \subseteq OpOf(Len(gens))
<1> DEFINE n == Len(gens)
           rs == regions[Cur]
           ls == Loops(rs)
           loops == Reverse(ls)
           each == [i \in 1 .. Len(loops) |-> Do(<<"release", "bubble">>, loops[i].gen)]
           last == Do(<<"return">>, Main)
<1>1. n \in Nat /\ n <= MaxGens /\ MaxGens \in Nat /\ rs \in Seq(RegionOf(n)) /\ Main \in Codes
  BY CurIs
<1>2. /\ Len(ls) \in Nat /\ Len(rs) \in Nat
      /\ \A i \in 1 .. Len(ls) : ls[i].gen \in 1 .. n /\ ls[i].gen \in LoopsOver(rs)
  <2>1. /\ Len(ls) \in 0 .. Len(rs) /\ Len(rs) \in Nat
        /\ \A i \in 1 .. Len(ls) : /\ ls[i] = rs[(Len(rs) - Len(ls)) + i]
                                   /\ ls[i].kind = "loop" /\ ls[i].gen \in 1 .. n
    BY <1>1, LoopsAre
  <2> HIDE DEF ls, rs
  <2>2. ASSUME NEW i \in 1 .. Len(ls) PROVE ls[i].gen \in LoopsOver(rs)
    <3>1. (Len(rs) - Len(ls)) + i \in 1 .. Len(rs)
      BY <2>1
    <3> QED
      BY <2>1, <3>1 DEF LoopsOver
  <2> QED
    BY <2>1, <2>2
<1> HIDE DEF ls
<1>3. Len(loops) = Len(ls) /\ \A i \in 1 .. Len(loops) : loops[i] = ls[(Len(ls) - i) + 1]
  BY <1>2 DEF Reverse
<1>4. \A i \in 1 .. Len(loops) : loops[i].gen \in 1 .. n /\ loops[i].gen \in LoopsOver(rs)
  BY <1>2, <1>3
<1> HIDE DEF loops
<1>5. ASSUME NEW i \in 1 .. Len(loops)
      PROVE  Do(<<"release", "bubble">>, loops[i].gen) \in Seq(ReturnOps)
  <2> DEFINE g == loops[i].gen
  <2>1. g \in 1 .. n /\ g \in LoopsOver(rs) /\ g \in Codes
    BY <1>1, <1>4 DEF Codes, Ids
  <2>2. [step |-> "release", gen |-> g] \in ReturnOps /\ [step |-> "bubble", gen |-> g] \in ReturnOps
    BY <2>1 DEF ReturnOps, Op, Steps
  <2> HIDE DEF g
  <2> DEFINE a == [step |-> "release", gen |-> g]
             b == [step |-> "bubble", gen |-> g]
  <2>3. Do(<<"release", "bubble">>, g) = << a, b >>
    BY DEF Do
  <2> HIDE DEF a, b
  <2>4. << a, b >> \in Seq(ReturnOps)
    BY <2>2 DEF a, b
  <2> QED
    BY <2>3, <2>4 DEF g
<1>6. each \in Seq(Seq(ReturnOps))
  BY <1>2, <1>3, <1>5
<1>7. last \in Seq(ReturnOps)
  <2>1. last = << [step |-> "return", gen |-> Main] >>
    BY DEF Do
  <2>2. [step |-> "return", gen |-> Main] \in ReturnOps
    BY <1>1 DEF ReturnOps, Op, Steps
  <2> HIDE DEF last
  <2> QED
    BY <2>1, <2>2
<1>8. ops' = FlattenSeq(each) \o last
  BY DEF Return, loops, ls
<1> HIDE DEF each, last
<1>9. FlattenSeq(each) \in Seq(ReturnOps)
  BY <1>6, FlattenType
<1>10. ops' \in Seq(ReturnOps)
  BY <1>7, <1>8, <1>9, ConcatProperties
<1>11. LoopsOver(rs) \subseteq 1 .. n
  BY <1>1, SeqParts DEF LoopsOver, RegionOf
<1> QED
  BY <1>10, <1>11 DEF ReturnOps, OpOf

-----------------------------------------------------------------------------
(* Switching.                                                              *)

Forced(g) == gens[g].started /\ gens[g].inject # "none"
Woken(g) ==
  [gens[g] EXCEPT !.coro = "taken", !.first = gens[g].first /\ ~gens[g].started, !.started = TRUE,
     !.inject = IF Forced(g) THEN "none" ELSE gens[g].inject, !.cont = <<>>,
     !.saved = [frames |-> <<>>, signal |-> "none"]]

\* gen_resume goes into the body of g; `rest` waits for it in the resumer.
Switched(g, rest) ==
  /\ ~gens[g].done /\ gens[g].coro = "here"
  /\ gens' = [gens EXCEPT ![g] = Woken(g)]
  /\ resumed' = Append(resumed, [gen |-> g, ops |-> rest, saved |-> ctx])
  /\ ctx' \in Context /\ ctx'.frames = gens[g].saved.frames
  /\ ops' = IF Forced(g) THEN <<>> ELSE gens[g].cont

LEMMA SwitchCases ==
  ASSUME Types, NEW g \in Made, NEW rest, SwitchTo(g, rest)
  PROVE  \/ gens[g].done /\ ops' = rest /\ UNCHANGED <<gens, ctx, resumed>>
         \/ /\ ~gens[g].done /\ gens[g].coro = "taken" /\ ctx' \in Context /\ ctx'.frames = ctx.frames
            /\ ops' = AfterError(rest) /\ UNCHANGED <<gens, resumed>>
         \/ Switched(g, rest)
<1>1. gens[g] \in Cell /\ gens[g].saved \in Context /\ gens[g].done \in BOOLEAN /\ gens[g].coro \in {"here", "taken"}
  BY CurIs DEF CellOf, Cell
<1>2. CASE gens[g].done
  BY <1>2 DEF SwitchTo
<1>3. CASE ~gens[g].done /\ gens[g].coro = "taken"
  <2>1. SetSignal("fatal") /\ ops' = AfterError(rest) /\ UNCHANGED <<gens, resumed>>
    BY <1>3 DEF SwitchTo
  <2>2. ctx' \in Context /\ ctx'.frames = ctx.frames
    BY <2>1, SignalTypes DEF Signals
  <2> QED
    BY <1>3, <2>1, <2>2
<1>4. CASE ~gens[g].done /\ gens[g].coro # "taken"
  <2>1. gens[g].coro = "here"
    BY <1>1, <1>4
  <2>2. /\ resumed' = Append(resumed, [gen |-> g, ops |-> rest, saved |-> ctx])
        /\ ops' = IF Forced(g) THEN <<>> ELSE gens[g].cont
    BY <1>4 DEF SwitchTo, Forced
  <2>3. gens' = [gens EXCEPT ![g] = Woken(g)]
    BY <1>4 DEF SwitchTo, Forced, Woken
  <2>4. ctx' \in Context /\ ctx'.frames = gens[g].saved.frames
    BY <1>1, <1>4 DEF SwitchTo, Context, Signals
  <2> QED
    BY <1>4, <2>1, <2>2, <2>3, <2>4 DEF Switched
<1> QED
  BY <1>1, <1>2, <1>3, <1>4

LEMMA WokenIs ==
  ASSUME Types, NEW g \in Made
  PROVE  /\ Woken(g) \in CellOf(Len(gens))
         /\ Woken(g).coro = "taken" /\ Woken(g).first = (gens[g].first /\ ~gens[g].started)
         /\ Woken(g).started = TRUE /\ Woken(g).inject = (IF Forced(g) THEN "none" ELSE gens[g].inject)
         /\ Woken(g).cont = <<>> /\ Woken(g).saved.frames = <<>>
         /\ Woken(g).done = gens[g].done /\ Woken(g).destroying = gens[g].destroying
         /\ Woken(g).held = gens[g].held /\ Woken(g).yields = gens[g].yields
<1>1. gens[g] \in Cell
  BY CurIs DEF CellOf
<1>2. [frames |-> <<>>, signal |-> "none"] \in Context
  BY EmptySeq DEF Context, Signals
<1>3. <<>> \in Seq(OpOf(Len(gens))) /\ <<>> \in Seq(Op)
  BY EmptySeq
<1>4. (IF Forced(g) THEN "none" ELSE gens[g].inject) \in {"none", "throw", "destroy"}
  BY <1>1 DEF Cell
<1> QED
  BY <1>1, <1>2, <1>3, <1>4 DEF Woken, CellOf, Cell

LEMMA AfterErrorIs ==
  ASSUME NEW n \in Nat, NEW rest \in Seq(OpOf(n))
  PROVE  /\ AfterError(rest) \in Seq(OpOf(n))
         /\ AfterError(rest) = <<>> \/ (rest # <<>> /\ rest[1].step = "over" /\ AfterError(rest) = << rest[1] >>)
<1>1. rest # <<>> => rest[1] \in OpOf(n) /\ Head(rest) = rest[1]
  BY SeqParts
<1> QED
  BY <1>1, EmptySeq DEF AfterError

Slept(rest) ==
  [gens[Cur] EXCEPT !.coro = "here", !.saved = ctx, !.cont = rest,
     !.yields = IF gens[Cur].yields < 2 THEN gens[Cur].yields + 1 ELSE 2]
Finished == [gens[Cur] EXCEPT !.coro = "here", !.done = TRUE, !.saved = [ctx EXCEPT !.signal = "none"]]

LEMMA SleptIs ==
  ASSUME Types, resumed # <<>>, NEW rest \in Seq(OpOf(Len(gens)))
  PROVE  /\ Slept(rest) \in CellOf(Len(gens))
         /\ Slept(rest).coro = "here" /\ Slept(rest).saved = ctx /\ Slept(rest).cont = rest
         /\ gens[Cur].yields = 0 => Slept(rest).yields = 1
         /\ Slept(rest).first = gens[Cur].first /\ Slept(rest).started = gens[Cur].started
         /\ Slept(rest).inject = gens[Cur].inject /\ Slept(rest).done = gens[Cur].done
         /\ Slept(rest).destroying = gens[Cur].destroying /\ Slept(rest).held = gens[Cur].held
<1>1. gens[Cur] \in Cell /\ ctx \in Context
  BY CurIs DEF CellOf, Types
<1>2. rest \in Seq(Op)
  BY Plainly, CurIs
<1> DEFINE y == IF gens[Cur].yields < 2 THEN gens[Cur].yields + 1 ELSE 2
<1>3. y \in 0 .. 2 /\ (gens[Cur].yields = 0 => y = 1)
  BY <1>1 DEF Cell
<1>4. Slept(rest) = [gens[Cur] EXCEPT !.coro = "here", !.saved = ctx, !.cont = rest, !.yields = y]
  BY DEF Slept
<1> HIDE DEF y
<1> QED
  BY <1>1, <1>2, <1>3, <1>4 DEF CellOf, Cell

LEMMA FinishedIs ==
  ASSUME Types, resumed # <<>>
  PROVE  /\ Finished \in CellOf(Len(gens))
         /\ Finished.coro = "here" /\ Finished.saved.frames = ctx.frames /\ Finished.done = TRUE
         /\ Finished.cont = gens[Cur].cont /\ Finished.yields = gens[Cur].yields
         /\ Finished.first = gens[Cur].first /\ Finished.started = gens[Cur].started
         /\ Finished.inject = gens[Cur].inject
         /\ Finished.destroying = gens[Cur].destroying /\ Finished.held = gens[Cur].held
<1>1. gens[Cur] \in CellOf(Len(gens)) /\ ctx \in Context
  BY CurIs DEF Types
<1>2. [ctx EXCEPT !.signal = "none"] \in Context /\ [ctx EXCEPT !.signal = "none"].frames = ctx.frames
  BY <1>1 DEF Context, Signals
<1> QED
  BY <1>1, <1>2 DEF Finished, CellOf, Cell

-----------------------------------------------------------------------------
(* Each step keeps the types.                                              *)

ThrowSteps == <<"init", "inject", "resume">>
Called(l, g) ==
  /\ Code /\ ops' = Do(l, g)
  /\ UNCHANGED <<gens, regions, ctx, resumed, exit, phase, count, next>>

LEMMA ReachableIs ==
  ASSUME Reachable
  PROVE  \E l \in CallLists, g \in Made :
           /\ gens[g].held /\ Called(l, g) /\ (l = <<"init", "each">> => Cur # Main)
           /\ l = ThrowSteps => gens[g].coro = "here" \/ "reenter" \in Constructs
<1>1. PICK g \in Made :
        \/ Valid(g) \/ NextValue(g) \/ Rewind(g) \/ ForeachRewind(g)
        \/ Send(g) \/ ThrowInto(g) \/ YieldFrom(g)
  BY DEF Reachable
<1> DEFINE Is(l) == /\ gens[g].held /\ Called(l, g) /\ (l = <<"init", "each">> => Cur # Main)
                    /\ l = ThrowSteps => gens[g].coro = "here" \/ "reenter" \in Constructs
<1> USE DEF ThrowSteps
<1>2. ASSUME NEW l \in CallLists, Call(l, g), l # <<"init", "each">> \/ Cur # Main,
             l # ThrowSteps \/ gens[g].coro = "here" \/ "reenter" \in Constructs
      PROVE  \E k \in CallLists : Is(k)
  BY <1>2 DEF Call, Called
<1>3. CASE Valid(g)
  BY <1>2, <1>3 DEF Valid, CallLists
<1>4. CASE NextValue(g)
  BY <1>2, <1>4 DEF NextValue, CallLists
<1>5. CASE Rewind(g)
  BY <1>2, <1>5 DEF Rewind, CallLists
<1>6. CASE ForeachRewind(g)
  BY <1>2, <1>6 DEF ForeachRewind, CallLists
<1>7. CASE Send(g)
  BY <1>2, <1>7 DEF Send, CallLists
<1>8. CASE ThrowInto(g)
  BY <1>2, <1>8 DEF ThrowInto, CallLists
<1>9. CASE YieldFrom(g)
  BY <1>2, <1>9 DEF YieldFrom, CallLists
<1> QED
  BY <1>1, <1>3, <1>4, <1>5, <1>6, <1>7, <1>8, <1>9

LEMMA LoopLists ==
  /\ <<"closed", "init", "check", "bubble", "init", "bubble", "turn">> \in Lists
  /\ <<"init", "resume", "bubble", "init", "bubble", "turn">> \in Lists
  /\ <<"release">> \in Lists /\ <<"release", "bubble">> \in Lists /\ <<"force", "over">> \in Lists
  /\ <<"first">> \in Lists /\ <<"resume", "each">> \in Lists /\ <<"resume">> \in Lists
  /\ <<"over">> \in Lists /\ CallLists \subseteq Lists
BY DEF Lists

\* A host function's first steps, with what is left behind them.
LEMMA DoThen ==
  ASSUME NEW n \in Nat, n <= MaxGens, NEW g \in 1 .. n, NEW l \in Lists, NEW rest \in Seq(OpOf(n))
  PROVE  /\ Do(l, g) \o rest \in Seq(OpOf(n)) /\ Len(Do(l, g) \o rest) = Len(l) + Len(rest)
         /\ Len(l) \in Nat /\ Len(l) # 0 /\ Len(rest) \in Nat
         /\ \A i \in 1 .. Len(l) : (Do(l, g) \o rest)[i] = [step |-> l[i], gen |-> g]
         /\ \A i \in Len(l) + 1 .. Len(l) + Len(rest) : (Do(l, g) \o rest)[i] = rest[i - Len(l)]
<1> DEFINE d == Do(l, g)
           O == OpOf(n)
<1>1. d \in Seq(O) /\ Len(d) = Len(l) /\ \A i \in 1 .. Len(l) : d[i] = [step |-> l[i], gen |-> g]
  BY DoIs
<1>2. Len(l) \in Nat /\ Len(l) # 0 /\ Len(rest) \in Nat
  BY ListsAreSteps, LenProperties
<1> HIDE DEF d, O
<1>3. rest \in Seq(O)
  BY DEF O
<1>4. /\ d \o rest \in Seq(O) /\ Len(d \o rest) = Len(d) + Len(rest)
      /\ \A i \in 1 .. Len(d) + Len(rest) :
           (d \o rest)[i] = IF i <= Len(d) THEN d[i] ELSE rest[i - Len(d)]
  BY <1>1, <1>3, ConcatProperties, Zenon
<1>5. \A i \in 1 .. Len(l) : (d \o rest)[i] = [step |-> l[i], gen |-> g]
  BY <1>1, <1>2, <1>4
<1>6. \A i \in Len(l) + 1 .. Len(l) + Len(rest) : (d \o rest)[i] = rest[i - Len(l)]
  BY <1>1, <1>2, <1>4
<1> QED
  BY <1>1, <1>2, <1>4, <1>5, <1>6 DEF d, O

LEMMA SwitchTypes ==
  ASSUME Types, NEW g \in Made, NEW rest \in Seq(OpOf(Len(gens))), SwitchTo(g, rest)
  PROVE  /\ gens' \in Seq(CellOf(Len(gens))) /\ Len(gens') = Len(gens)
         /\ resumed' \in Seq(ResumerOf(Len(gens))) /\ ctx' \in Context
         /\ ops' \in Seq(OpOf(Len(gens)))
<1> DEFINE n == Len(gens)
<1>0. /\ n \in Nat /\ Made = 1 .. n /\ Made \subseteq Ids /\ gens[g] \in CellOf(n)
      /\ gens \in Seq(CellOf(n)) /\ resumed \in Seq(ResumerOf(n)) /\ ctx \in Context
  BY CurIs DEF Types
<1>1. CASE gens[g].done /\ ops' = rest /\ UNCHANGED <<gens, ctx, resumed>>
  BY <1>0, <1>1
<1>2. CASE ctx' \in Context /\ ops' = AfterError(rest) /\ UNCHANGED <<gens, resumed>>
  BY <1>0, <1>2, AfterErrorIs
<1>3. CASE Switched(g, rest)
  <2>1. gens' \in Seq(CellOf(n)) /\ Len(gens') = n
    <3>1. Woken(g) \in CellOf(n) /\ g \in 1 .. n
      BY <1>0, WokenIs
    <3>2. gens' = [gens EXCEPT ![g] = Woken(g)]
      BY <1>3 DEF Switched
    <3> QED
      BY <1>0, <3>1, <3>2, ExceptSeq
  <2>2. [gen |-> g, ops |-> rest, saved |-> ctx] \in ResumerOf(n)
    BY <1>0, Plainly DEF ResumerOf, Resumer
  <2>3. resumed' \in Seq(ResumerOf(n))
    BY <1>0, <1>3, <2>2, AppendProperties DEF Switched
  <2>4. ops' \in Seq(OpOf(n))
    BY <1>0, <1>3, EmptySeq DEF Switched, CellOf
  <2> QED
    BY <1>0, <1>3, <2>1, <2>3, <2>4 DEF Switched
<1> QED
  BY <1>1, <1>2, <1>3, SwitchCases

\* gen_yield, back to the code that resumed.
LEMMA SuspendTypes ==
  ASSUME Types, resumed # <<>>, NEW rest \in Seq(OpOf(Len(gens))), Suspend(rest)
  PROVE  /\ gens' = [gens EXCEPT ![Cur] = Slept(rest)]
         /\ gens' \in Seq(CellOf(Len(gens))) /\ Len(gens') = Len(gens)
         /\ resumed' = Front(resumed) /\ resumed' \in Seq(ResumerOf(Len(gens)))
         /\ ctx' = Last(resumed).saved /\ ctx' \in Context
         /\ ops' = Last(resumed).ops /\ ops' \in Seq(OpOf(Len(gens)))
<1>1. gens' = [gens EXCEPT ![Cur] = Slept(rest)]
  BY DEF Suspend, Slept
<1>2. Slept(rest) \in CellOf(Len(gens))
  BY SleptIs
<1>3. gens \in Seq(CellOf(Len(gens))) /\ Cur \in 1 .. Len(gens)
  BY CurIs DEF Types
<1>4. gens' \in Seq(CellOf(Len(gens))) /\ Len(gens') = Len(gens)
  BY <1>1, <1>2, <1>3, ExceptSeq
<1>5. resumed' = Front(resumed) /\ ctx' = Last(resumed).saved /\ ops' = Last(resumed).ops
  BY DEF Suspend
<1> QED
  BY <1>1, <1>4, <1>5, CurIs DEF ResumerOf, Resumer

\* The body is over: back to the code that resumed, with what ended it.
LEMMA BodyEndsTypes ==
  ASSUME Types, BodyEnds
  PROVE  /\ resumed # <<>> /\ regions[Cur] = <<>> /\ ops = <<>>
         /\ gens' = [gens EXCEPT ![Cur] = Finished]
         /\ gens' \in Seq(CellOf(Len(gens))) /\ Len(gens') = Len(gens)
         /\ resumed' = Front(resumed) /\ resumed' \in Seq(ResumerOf(Len(gens)))
         /\ ctx' \in Context /\ ctx'.frames = Last(resumed).saved.frames
         /\ ops' \in Seq(OpOf(Len(gens)))
         /\ ops' = Last(resumed).ops \/ ops' = AfterError(Last(resumed).ops)
         /\ UNCHANGED <<regions, exit, phase, count, next>>
<1>1. resumed # <<>> /\ ops = <<>> /\ Inner = "none"
  BY CurIs DEF BodyEnds, Running
<1>2. regions[Cur] = <<>>
  BY <1>1, TopIs
<1>3. gens' = [gens EXCEPT ![Cur] = Finished]
  BY DEF BodyEnds, Finished
<1>4. gens \in Seq(CellOf(Len(gens))) /\ Cur \in 1 .. Len(gens)
  BY <1>1, CurIs DEF Types
<1>5. gens' \in Seq(CellOf(Len(gens))) /\ Len(gens') = Len(gens)
  BY <1>1, <1>3, <1>4, FinishedIs, ExceptSeq
<1>6. Last(resumed) \in ResumerOf(Len(gens)) /\ Len(gens) \in Nat
  BY <1>1, CurIs
<1>7. Last(resumed).saved \in Context /\ Last(resumed).ops \in Seq(OpOf(Len(gens)))
  BY <1>6 DEF ResumerOf, Resumer
<1>8. AfterError(Last(resumed).ops) \in Seq(OpOf(Len(gens)))
  BY <1>6, <1>7, AfterErrorIs
<1>9. ops' = Last(resumed).ops \/ ops' = AfterError(Last(resumed).ops)
  BY DEF BodyEnds
<1>10. ctx' \in Context /\ ctx'.frames = Last(resumed).saved.frames
  <2>1. ctx.signal \in Signals
    BY DEF Types, Context
  <2> QED
    BY <1>7, <2>1 DEF BodyEnds, Context
<1>11. resumed' = Front(resumed) /\ UNCHANGED <<regions, exit, phase, count, next>>
  BY DEF BodyEnds
<1> QED
  BY <1>1, <1>2, <1>3, <1>5, <1>7, <1>8, <1>9, <1>10, <1>11, CurIs

LEMMA MakeTypes ==
  ASSUME Types, NEW h \in BOOLEAN, Len(gens) < MaxGens, Make(h)
  PROVE  /\ Len(gens') = Len(gens) + 1
         /\ gens' \in Seq(CellOf(Len(gens'))) /\ Len(gens') <= MaxGens
         /\ count \in 0 .. Len(gens')
         /\ resumed \in Seq(ResumerOf(Len(gens'))) /\ ops \in Seq(OpOf(Len(gens')))
         /\ regions \in [Codes -> Seq(RegionOf(Len(gens')))]
         /\ \A g \in Made : gens'[g] = gens[g]
         /\ gens'[Len(gens) + 1] = NewCell(Len(gens) + 1, h)
<1> DEFINE n == Len(gens)
           c == NewCell(n + 1, h)
<1>1. /\ n \in Nat /\ n + 1 \in Nat /\ n <= n + 1 /\ n + 1 <= MaxGens /\ MaxGens \in Nat /\ n + 1 \in Codes
      /\ gens \in Seq(CellOf(n)) /\ Made = 1 .. n
  BY CurIs DEF Codes, Ids, Types
<1>2. c \in CellOf(n + 1)
  <2> DEFINE new == [frames |-> << n + 1 >>, signal |-> "none"]
             none == <<>>
  <2>1. new \in Context
    BY <1>1 DEF Context, Signals
  <2>2. none \in Seq(Op) /\ none \in Seq(OpOf(n + 1))
    BY EmptySeq
  <2>3. c = [coro |-> "here", saved |-> new, cont |-> none, started |-> FALSE, first |-> FALSE,
             done |-> FALSE, inject |-> "none", destroying |-> FALSE, held |-> h, yields |-> 0]
    BY DEF NewCell
  <2> HIDE DEF new, none, c
  <2>4. c \in Cell
    BY <2>1, <2>2, <2>3 DEF Cell
  <2> QED
    BY <2>2, <2>3, <2>4 DEF CellOf
<1>3. gens \in Seq(CellOf(n + 1))
  BY <1>1, OfMore
<1>4. gens' = Append(gens, c)
  BY DEF Make
<1> HIDE DEF c
<1>5. /\ gens' \in Seq(CellOf(n + 1)) /\ Len(gens') = n + 1 /\ gens'[n + 1] = c
      /\ \A g \in 1 .. n : gens'[g] = gens[g]
  BY <1>2, <1>3, <1>4, AppendProperties
<1>6. /\ Seq(RegionOf(n)) \subseteq Seq(RegionOf(n + 1)) /\ Seq(OpOf(n)) \subseteq Seq(OpOf(n + 1))
      /\ Seq(ResumerOf(n)) \subseteq Seq(ResumerOf(n + 1))
  BY <1>1, OfMore
<1>7. /\ resumed \in Seq(ResumerOf(n + 1)) /\ ops \in Seq(OpOf(n + 1))
      /\ regions \in [Codes -> Seq(RegionOf(n + 1))] /\ count \in 0 .. n + 1
  BY <1>1, <1>6 DEF Types
<1> QED
  BY <1>1, <1>5, <1>7 DEF c

LEMMA LoopOverTypes ==
  ASSUME Types, LoopOver
  PROVE  /\ \E h \in BOOLEAN : Make(h)
         /\ Len(gens) < MaxGens
         /\ regions' \in [Codes -> Seq(RegionOf(Len(gens')))]
         /\ ops' = Do(<<"closed", "init", "check", "bubble", "init", "bubble", "turn">>, Len(gens) + 1)
         /\ ops' \in Seq(OpOf(Len(gens')))
<1> DEFINE n == Len(gens)
<1>1. PICK h \in BOOLEAN : Make(h)
  BY DEF LoopOver
<1>2. n < MaxGens /\ n \in Nat /\ MaxGens \in Nat /\ Cur \in Codes
  BY CurIs DEF LoopOver
<1>3. Len(gens') = n + 1 /\ regions \in [Codes -> Seq(RegionOf(n + 1))]
  BY <1>1, <1>2, MakeTypes
<1>4. In("loop", n + 1, "none") \in RegionOf(n + 1)
  BY <1>2 DEF In, RegionOf, Region, Kinds, Signals, Codes, Ids
<1>5. regions' = [regions EXCEPT ![Cur] = Append(regions[Cur], In("loop", n + 1, "none"))]
  BY DEF LoopOver, Enter
<1>6. Append(regions[Cur], In("loop", n + 1, "none")) \in Seq(RegionOf(n + 1))
  BY <1>2, <1>3, <1>4, AppendProperties
<1>7. ops' = Do(<<"closed", "init", "check", "bubble", "init", "bubble", "turn">>, n + 1)
  BY DEF LoopOver
<1>8. ops' \in Seq(OpOf(n + 1))
  <2> DEFINE list == <<"closed", "init", "check", "bubble", "init", "bubble", "turn">>
  <2>1. n + 1 \in Nat /\ n + 1 <= MaxGens /\ n + 1 \in 1 .. n + 1 /\ list \in Lists
    BY <1>2, LoopLists
  <2> HIDE DEF list
  <2>2. Do(list, n + 1) \in Seq(OpOf(n + 1))
    BY <2>1, DoIs
  <2> QED
    BY <1>7, <2>2 DEF list
<1> QED
  BY <1>1, <1>2, <1>3, <1>5, <1>6, <1>7, <1>8

\* A break of n loops: what it leaves, and the loop it ends at.
LEMMA BreakIs ==
  ASSUME Types, NEW n \in 1 .. 2, Break(n)
  PROVE  LET rs == regions[Cur]
             target == Len(rs) - n + 1
         IN  /\ Code /\ target \in 1 .. Len(rs) /\ rs[target].kind = "loop" /\ rs[target].gen \in Made
             /\ SubSeq(rs, 1, target - 1) \in Seq(RegionOf(Len(gens)))
             /\ Len(SubSeq(rs, 1, target - 1)) = target - 1
             /\ \A i \in 1 .. target - 1 : SubSeq(rs, 1, target - 1)[i] = rs[i]
             /\ regions' = [regions EXCEPT ![Cur] = SubSeq(rs, 1, target - 1)]
             /\ ops' = Do(<<"release">>, rs[target].gen)
             /\ UNCHANGED <<gens, ctx, resumed, exit, phase, count, next>>
<1> DEFINE rs == regions[Cur]
           l == Loops(rs)
           target == Len(rs) - n + 1
           R == RegionOf(Len(gens))
<1>1. Len(gens) \in Nat /\ Made = 1 .. Len(gens) /\ rs \in Seq(R) /\ Len(l) >= n /\ n \in Nat /\ n >= 1 /\ Code
  BY CurIs DEF Break
<1>2. /\ Len(l) \in 0 .. Len(rs) /\ Len(rs) \in Nat
      /\ \A i \in 1 .. Len(l) : l[i] = rs[(Len(rs) - Len(l)) + i] /\ l[i].kind = "loop" /\ l[i].gen \in 1 .. Len(gens)
  BY <1>1, LoopsAre
<1>3. /\ regions' = [regions EXCEPT ![Cur] = SubSeq(rs, 1, target - 1)]
      /\ ops' = Do(<<"release">>, rs[target].gen)
      /\ UNCHANGED <<gens, ctx, resumed, exit, phase, count, next>>
  BY DEF Break
<1> HIDE DEF l, rs
<1>4. /\ target \in 1 .. Len(rs) /\ (Len(l) - n) + 1 \in 1 .. Len(l)
      /\ (Len(rs) - Len(l)) + ((Len(l) - n) + 1) = target
  BY <1>1, <1>2
<1>5. rs[target] = l[(Len(l) - n) + 1]
  BY <1>2, <1>4
<1>6. rs[target].kind = "loop" /\ rs[target].gen \in Made
  BY <1>1, <1>2, <1>4, <1>5
<1> HIDE DEF target, R
<1>7. /\ SubSeq(rs, 1, target - 1) \in Seq(R) /\ Len(SubSeq(rs, 1, target - 1)) = target - 1
      /\ \A i \in 1 .. target - 1 : SubSeq(rs, 1, target - 1)[i] = rs[i]
  <2>1. 1 \in 1 .. Len(rs) + 1 /\ target - 1 \in 0 .. Len(rs)
    BY <1>2, <1>4
  <2> QED
    BY <1>1, <1>2, <1>4, <2>1, SubSeqProperties
<1> QED
  BY <1>1, <1>3, <1>4, <1>6, <1>7 DEF target, R, rs

LEMMA LoopNextIs ==
  ASSUME Types, LoopNext
  PROVE  /\ Code /\ Top.gen \in Made /\ regions[Cur] # <<>> /\ Top = Last(regions[Cur]) /\ Top.kind = "loop"
         /\ ops' = Do(<<"init", "resume", "bubble", "init", "bubble", "turn">>, Top.gen)
         /\ UNCHANGED <<gens, regions, ctx, resumed, exit, phase, count, next>>
<1>1. Code /\ Inner = "loop" /\ Top.kind = "loop"
  BY DEF LoopNext, Inner
<1>2. regions[Cur] # <<>>
  BY <1>1, TopIs
<1>3. Top = Last(regions[Cur]) /\ Top \in RegionOf(Len(gens))
  BY <1>2, TopIs
<1>4. Top.gen \in Made
  BY <1>1, <1>3, CurIs DEF RegionOf
<1> QED
  BY <1>1, <1>2, <1>3, <1>4 DEF LoopNext

-----------------------------------------------------------------------------
(* The steps of host functions, sorted by what they do to the state.       *)

Dropped(steps) == Head(ops).step \in steps /\ ops' = Rest /\ UNCHANGED <<gens, ctx, resumed>>
Stopped(steps) ==
  /\ Head(ops).step \in steps /\ ops' = <<>>
  /\ ctx' \in Context /\ ctx'.frames = ctx.frames
  /\ UNCHANGED <<gens, resumed>>
Returned ==
  /\ Head(ops).step = "return" /\ ops' = Rest
  /\ ctx' \in Context /\ ctx'.frames = ctx.frames
  /\ UNCHANGED <<gens, resumed>>
Flagged == Head(ops).step = "first" /\ Update([gens[Target] EXCEPT !.first = TRUE])
Loaded == Head(ops).step = "inject" /\ ~gens[Target].done /\ Update([gens[Target] EXCEPT !.inject = "throw"])
Closed == Head(ops).step = "over" /\ Update([gens[Target] EXCEPT !.done = TRUE])
Doomed ==
  /\ Head(ops).step = "force" /\ Live(Target)
  /\ gens' = [gens EXCEPT ![Target] = [gens[Target] EXCEPT !.destroying = TRUE, !.inject = "destroy"]]
  /\ ops' = Do(<<"resume">>, Target) \o Rest
  /\ UNCHANGED <<ctx, resumed>>
Freed ==
  /\ Head(ops).step = "release" /\ gens[Target].started /\ ~gens[Target].done /\ ~gens[Target].held
  /\ ops' = Do(<<"force", "over">>, Target) \o Rest
  /\ UNCHANGED <<gens, ctx, resumed>>
Begun == /\ Head(ops).step = "init" /\ ~gens[Target].started
         /\ SwitchTo(Target, Do(<<"first">>, Target) \o Rest)
Primed == Head(ops).step = "prime" /\ ~gens[Target].started /\ SwitchTo(Target, Rest)
Resumed == Head(ops).step = "resume" /\ SwitchTo(Target, Rest)
Delegated ==
  /\ Head(ops).step = "each" /\ ~gens[Target].done /\ ~gens[Cur].destroying
  /\ Suspend(Do(<<"resume", "each">>, Target))

HostMoves ==
  \/ Dropped({"init", "prime"}) /\ gens[Target].started
  \/ Dropped({"check", "closed", "release", "bubble"})
  \/ Dropped({"each"}) /\ gens[Target].done
  \/ Dropped({"force"}) /\ ~Live(Target)
  \/ Stopped({"check", "closed", "inject", "each", "bubble"})
  \/ Returned \/ Flagged \/ Loaded \/ Closed \/ Doomed \/ Freed
  \/ Begun \/ Primed \/ Resumed \/ Delegated

LEMMA HostCases ==
  ASSUME Types, HostStep
  PROVE  HostMoves /\ ops # <<>> /\ UNCHANGED <<regions, exit, phase, count, next>>
<1>11. ops # <<>>
  BY DEF HostStep, Initialise, Resume, RewindCheck, Inject, Delegate, Release, Destroy, Bubble, SetReturn, Step
<1>12. UNCHANGED <<regions, exit, phase, count, next>>
  BY DEF HostStep
<1> SUFFICES HostMoves
  BY <1>11, <1>12
<1>1. CASE Initialise
  <2>1. CASE Step("init")
    BY <2>1, <1>1 DEF Initialise, Step, Skip, HostMoves, Dropped, Begun
  <2>2. CASE Step("first")
    BY <2>2, <1>1 DEF Initialise, Step, HostMoves, Flagged
  <2>3. CASE Step("prime")
    BY <2>3, <1>1 DEF Initialise, Step, Skip, HostMoves, Dropped, Primed
  <2> QED
    BY <1>1, <2>1, <2>2, <2>3 DEF Initialise, Step
<1>2. CASE Resume
  BY <1>2 DEF Resume, Step, HostMoves, Resumed
<1>0. "throw" \in Signals /\ "return" \in Signals
  BY DEF Signals
<1>3. ASSUME Refuse, NEW steps, Head(ops).step \in steps PROVE Stopped(steps)
  BY <1>0, <1>3, SignalTypes DEF Refuse, Stopped
<1>4. CASE RewindCheck
  BY <1>3, <1>4 DEF RewindCheck, Step, Skip, HostMoves, Dropped
<1>5. CASE Inject
  BY <1>3, <1>5 DEF Inject, Step, HostMoves, Loaded
<1>6. CASE Delegate
  <2>1. CASE gens[Target].done
    BY <1>6, <2>1 DEF Delegate, Step, Skip, HostMoves, Dropped
  <2>2. CASE ~gens[Target].done /\ gens[Cur].destroying
    BY <1>0, <1>6, <2>2, SignalTypes DEF Delegate, Step, YieldOr, HostMoves, Stopped
  <2>3. CASE ~gens[Target].done /\ ~gens[Cur].destroying
    BY <1>6, <2>3 DEF Delegate, Step, YieldOr, HostMoves, Delegated
  <2> QED
    BY <2>1, <2>2, <2>3
<1>7. CASE Release
  BY <1>7 DEF Release, Step, Skip, HostMoves, Dropped, Freed
<1>8. CASE Destroy
  BY <1>8 DEF Destroy, Step, Skip, HostMoves, Dropped, Doomed, Closed
<1>9. CASE Bubble
  <2>1. ctx \in Context
    BY DEF Types
  <2> QED
    BY <1>9, <2>1 DEF Bubble, Step, HostMoves, Dropped, Stopped
<1>10. CASE SetReturn
  BY <1>0, <1>10, SignalTypes DEF SetReturn, Step, HostMoves, Returned
<1> QED
  BY <1>1, <1>2, <1>4, <1>5, <1>6, <1>7, <1>8, <1>9, <1>10 DEF HostStep

\* A cell that is written keeps what the switching is about.
LEMMA UpdateTypes ==
  ASSUME Types, NEW g \in Made, NEW cell \in CellOf(Len(gens)), gens' = [gens EXCEPT ![g] = cell]
  PROVE  gens' \in Seq(CellOf(Len(gens))) /\ Len(gens') = Len(gens)
<1>1. gens \in Seq(CellOf(Len(gens))) /\ g \in 1 .. Len(gens)
  BY CurIs DEF Types
<1> QED
  BY <1>1, ExceptSeq

LEMMA Cells ==
  ASSUME Types, NEW g \in Made
  PROVE  /\ [gens[g] EXCEPT !.first = TRUE] \in CellOf(Len(gens))
         /\ [gens[g] EXCEPT !.inject = "throw"] \in CellOf(Len(gens))
         /\ [gens[g] EXCEPT !.done = TRUE] \in CellOf(Len(gens))
         /\ [gens[g] EXCEPT !.destroying = TRUE, !.inject = "destroy"] \in CellOf(Len(gens))
BY CurIs DEF CellOf, Cell

\* The main program delegates to nothing.
ByBodies ==
  /\ resumed = <<>> => \A i \in 1 .. Len(ops) : ops[i].step # "each"
  /\ resumed # <<>> => \A i \in 1 .. Len(resumed[1].ops) : resumed[1].ops[i].step # "each"

LEMMA HostTypes ==
  ASSUME Types, ByBodies, HostStep
  PROVE  Types'
<1> DEFINE n == Len(gens)
<1>0. /\ HostMoves /\ ops # <<>> /\ UNCHANGED <<regions, exit, phase, count, next>>
      /\ n \in Nat /\ n <= MaxGens /\ Made = 1 .. n
  BY HostCases, CurIs
<1>1. /\ gens \in Seq(CellOf(n)) /\ resumed \in Seq(ResumerOf(n)) /\ ctx \in Context
      /\ ops \in Seq(OpOf(n))
  BY DEF Types
<1>2. Rest \in Seq(OpOf(n)) /\ <<>> \in Seq(OpOf(n))
  BY <1>0, OpsAre, EmptySeq
<1>3. ASSUME gens' \in Seq(CellOf(n)) /\ Len(gens') = n, resumed' \in Seq(ResumerOf(n)),
             ctx' \in Context, ops' \in Seq(OpOf(n))
      PROVE  Types'
  BY <1>0, <1>3 DEF Types
<1>4. CASE \E steps : Dropped(steps)
  BY <1>1, <1>2, <1>3, <1>4 DEF Dropped
<1>5. CASE \E steps : Stopped(steps)
  BY <1>1, <1>2, <1>3, <1>5 DEF Stopped
<1>6. CASE Returned
  BY <1>1, <1>2, <1>3, <1>6 DEF Returned
<1>7. ASSUME Head(ops).step # "return"
      PROVE  /\ Target \in Made
             /\ \A l \in Lists : Do(l, Target) \in Seq(OpOf(n)) /\ Do(l, Target) \o Rest \in Seq(OpOf(n))
  <2>1. Target \in Made
    BY <1>0, <1>7, OpsAre
  <2> QED
    BY <1>0, <1>2, <2>1, DoIs, DoThen
<1>8. CASE Flagged
  <2>1. gens' \in Seq(CellOf(n)) /\ Len(gens') = n
    BY <1>7, <1>8, Cells, UpdateTypes DEF Flagged, Update
  <2> QED
    BY <1>1, <1>2, <1>3, <1>8, <2>1 DEF Flagged, Update
<1>9. CASE Loaded
  <2>1. gens' \in Seq(CellOf(n)) /\ Len(gens') = n
    BY <1>7, <1>9, Cells, UpdateTypes DEF Loaded, Update
  <2> QED
    BY <1>1, <1>2, <1>3, <1>9, <2>1 DEF Loaded, Update
<1>10. CASE Closed
  <2>1. gens' \in Seq(CellOf(n)) /\ Len(gens') = n
    BY <1>7, <1>10, Cells, UpdateTypes DEF Closed, Update
  <2> QED
    BY <1>1, <1>2, <1>3, <1>10, <2>1 DEF Closed, Update
<1>11. CASE Doomed
  <2>1. gens' \in Seq(CellOf(n)) /\ Len(gens') = n
    BY <1>7, <1>11, Cells, UpdateTypes DEF Doomed
  <2> QED
    BY <1>1, <1>3, <1>7, <1>11, <2>1, LoopLists DEF Doomed
<1>12. CASE Freed
  BY <1>1, <1>3, <1>7, <1>12, LoopLists DEF Freed
<1>13. CASE Begun
  BY <1>3, <1>7, <1>13, LoopLists, SwitchTypes DEF Begun
<1>14. CASE Primed
  BY <1>2, <1>3, <1>7, <1>14, SwitchTypes DEF Primed
<1>15. CASE Resumed
  BY <1>2, <1>3, <1>7, <1>15, SwitchTypes DEF Resumed
<1>16. CASE Delegated
  <2>1. resumed # <<>>
    <3>1. 1 \in 1 .. Len(ops) /\ Head(ops) = ops[1]
      BY <1>0, OpsAre
    <3> QED
      BY <1>16, <3>1 DEF Delegated, ByBodies
  <2>2. Do(<<"resume", "each">>, Target) \in Seq(OpOf(n))
    BY <1>7, <1>16, LoopLists DEF Delegated
  <2> QED
    BY <1>1, <1>3, <1>16, <2>1, <2>2, SuspendTypes DEF Delegated
<1> QED
  BY <1>0, <1>4, <1>5, <1>6, <1>8, <1>9, <1>10, <1>11, <1>12, <1>13, <1>14, <1>15, <1>16 DEF HostMoves

LEMMA TypesStep ==
  ASSUME Types, ByBodies, [Next]_vars
  PROVE  Types'
<1> DEFINE n == Len(gens)
<1>0. /\ n \in Nat /\ n <= MaxGens /\ MaxGens \in Nat /\ Made = 1 .. n /\ Cur \in Codes
      /\ gens \in Seq(CellOf(n)) /\ resumed \in Seq(ResumerOf(n)) /\ ctx \in Context
      /\ ops \in Seq(OpOf(n)) /\ regions \in [Codes -> Seq(RegionOf(n))]
      /\ exit \in BOOLEAN
      /\ phase \in {"run", "shutdown", "over"} /\ count \in 0 .. n /\ next \in 1 .. MaxGens + 1
  BY CurIs DEF Types
<1>s. "throw" \in Signals /\ "none" \in Signals /\ ctx.signal \in Signals
  BY <1>0 DEF Signals, Context
<1>a. ASSUME UNCHANGED <<gens, resumed, count, next, phase>>,
             regions' \in [Codes -> Seq(RegionOf(n))], ctx' \in Context, ops' \in Seq(OpOf(n)),
             exit' \in BOOLEAN
      PROVE  Types'
  BY <1>0, <1>a DEF Types
<1>1. CASE Create
  <2>1. PICK h \in BOOLEAN : Make(h)
    BY <1>1 DEF Create
  <2> QED
    BY <1>0, <1>1, <2>1, MakeTypes DEF Create, Types
<1>2. CASE EnterTry
  <2>1. PICK kind \in {"catch", "finally"} : Enter(kind, Main)
    BY <1>2 DEF EnterTry
  <2>2. In(kind, Main, "none") \in RegionOf(n)
    BY <1>s, InIs, CurIs DEF Kinds
  <2>3. regions' \in [Codes -> Seq(RegionOf(n))]
    BY <1>0, <2>1, <2>2, AppendProperties DEF Enter
  <2> QED
    BY <1>0, <1>2, <1>a, <2>3 DEF EnterTry
<1>3. CASE LeaveTry
  <2>1. regions[Cur] # <<>>
    BY <1>3, TopIs DEF LeaveTry
  <2>2. regions' \in [Codes -> Seq(RegionOf(n))]
    BY <1>3, <2>1, LeaveTypes, StartFinallyTypes DEF LeaveTry
  <2>3. Top.signal \in Signals
    BY <2>1, TopIs DEF RegionOf, Region
  <2>4. ctx' \in Context
    BY <1>0, <1>3, <2>3, SignalTypes DEF LeaveTry
  <2> QED
    BY <1>0, <1>3, <1>a, <2>2, <2>4 DEF LeaveTry
<1>4. CASE Throw
  BY <1>0, <1>4, <1>a, <1>s, SignalTypes DEF Throw
<1>5. CASE Exit
  BY <1>0, <1>5, <1>a DEF Exit
<1>6. CASE Return
  <2>1. ops' \in Seq(OpOf(n))
    BY <1>6, ReturnIs, SeqMonotonic
  <2> QED
    BY <1>0, <1>6, <1>a, <2>1 DEF Return
<1>7. CASE Unwind
  <2>1. regions[Cur] # <<>>
    BY <1>7, TopIs DEF Unwind
  <2>2. regions' \in [Codes -> Seq(RegionOf(n))]
    BY <1>7, <2>1, LeaveTypes, StartFinallyTypes DEF Unwind
  <2>3. ctx' \in Context
    <3>1. SetSignal("none") \/ ctx' = ctx
      BY <1>7 DEF Unwind
    <3> QED
      BY <1>0, <1>s, <3>1, SignalTypes
  <2> QED
    BY <1>0, <1>7, <1>a, <2>2, <2>3 DEF Unwind
<1>8. CASE Reachable
  <2>1. PICK l \in CallLists, g \in Made : Called(l, g)
    BY <1>8, ReachableIs
  <2>2. Do(l, g) \in Seq(OpOf(n))
    BY <1>0, <2>1, LoopLists, DoIs
  <2> QED
    BY <1>0, <1>a, <2>1, <2>2 DEF Called
<1>9. CASE LoopOver
  <2>1. PICK h \in BOOLEAN : Make(h)
    BY <1>9, LoopOverTypes
  <2> QED
    BY <1>0, <1>9, <2>1, MakeTypes, LoopOverTypes DEF LoopOver, Types
<1>10. CASE LoopNext
  <2> DEFINE l == <<"init", "resume", "bubble", "init", "bubble", "turn">>
  <2>1. Top.gen \in 1 .. n /\ l \in Lists
    BY <1>0, <1>10, LoopNextIs, LoopLists
  <2>2. ops' = Do(l, Top.gen)
    BY <1>10, LoopNextIs
  <2> HIDE DEF l
  <2>3. ops' \in Seq(OpOf(n))
    BY <1>0, <2>1, <2>2, DoIs
  <2> QED
    BY <1>0, <1>10, <1>a, <2>3 DEF LoopNext
<1>11. ASSUME NEW k \in 1 .. 2, Break(k) PROVE Types'
  <2> DEFINE rs == regions[Cur]
             t == Len(rs) - k + 1
  <2>1. /\ rs[t].gen \in 1 .. n /\ SubSeq(rs, 1, t - 1) \in Seq(RegionOf(n))
        /\ regions' = [regions EXCEPT ![Cur] = SubSeq(rs, 1, t - 1)]
        /\ ops' = Do(<<"release">>, rs[t].gen)
        /\ UNCHANGED <<gens, ctx, resumed, exit, phase, count, next>>
    BY <1>0, <1>11, BreakIs
  <2> HIDE DEF rs, t
  <2>2. ops' \in Seq(OpOf(n))
    BY <1>0, <2>1, LoopLists, DoIs
  <2>3. regions' \in [Codes -> Seq(RegionOf(n))]
    BY <1>0, <2>1
  <2> QED
    BY <1>0, <1>a, <2>1, <2>2, <2>3
<1>12. CASE Yield
  <2>0. resumed # <<>>
    BY <1>12, CurIs DEF Yield
  <2>1. CASE gens[Cur].destroying
    <3>1. ctx' \in Context /\ ops' = <<>> /\ UNCHANGED <<gens, resumed, regions, exit, phase, count, next>>
      BY <1>12, <1>s, <2>1, SignalTypes DEF Yield, YieldOr
    <3> QED
      BY <1>0, <1>a, <3>1, EmptySeq
  <2>2. CASE ~gens[Cur].destroying
    <3>1. Suspend(<<>>) /\ UNCHANGED <<regions, exit, phase, count, next>>
      BY <1>12, <2>2 DEF Yield, YieldOr
    <3>2. <<>> \in Seq(OpOf(n))
      BY EmptySeq
    <3> QED
      BY <1>0, <2>0, <3>1, <3>2, SuspendTypes DEF Types
  <2> QED
    BY <2>1, <2>2
<1>13. CASE BodyEnds
  BY <1>0, <1>13, BodyEndsTypes DEF Types
<1>14. CASE HostStep
  BY <1>14, HostTypes
<1>15. CASE Turn
  <2>1. ops # <<>> /\ ops' = Rest
    BY <1>15 DEF Turn, Step
  <2>2. ops' \in Seq(OpOf(n))
    BY <2>1, OpsAre
  <2>3. regions' \in [Codes -> Seq(RegionOf(n))]
    <3>1. CASE regions[Cur] # <<>>
      BY <1>0, <1>15, <3>1, LeaveTypes DEF Turn
    <3>2. CASE regions[Cur] = <<>>
      <4>1. Front(<<>>) = <<>>
        BY DEF Front
      <4> QED
        BY <1>0, <1>15, <3>2, <4>1, EmptySeq DEF Turn, Leave
    <3> QED
      BY <3>1, <3>2
  <2> QED
    BY <1>0, <1>15, <1>a, <2>2, <2>3 DEF Turn
<1>16. CASE MainEnds
  <2>1. ctx' \in Context /\ count' \in 0 .. n
    BY <1>0, <1>16, <1>s, SignalTypes DEF MainEnds
  <2> QED
    BY <1>0, <1>16, <2>1 DEF MainEnds, Types
<1>17. CASE ShutdownNext
  <2> DEFINE l == <<"force", "over">>
  <2>1. /\ ops' = Do(l, next) /\ next <= count /\ next' = next + 1 /\ l \in Lists
        /\ UNCHANGED <<gens, regions, ctx, resumed, exit, phase, count>>
    BY <1>17, LoopLists DEF ShutdownNext
  <2> HIDE DEF l
  <2>2. next \in 1 .. n /\ next' \in 1 .. MaxGens + 1
    BY <1>0, <2>1
  <2>3. ops' \in Seq(OpOf(n))
    BY <1>0, <2>1, <2>2, DoIs
  <2> QED
    BY <1>0, <2>1, <2>2, <2>3 DEF Types
<1>18. CASE ShutdownEnds
  BY <1>0, <1>18 DEF ShutdownEnds, Types
<1>19. CASE UNCHANGED vars
  BY <1>0, <1>19 DEF vars, Types
<1> QED
  BY <1>1, <1>2, <1>3, <1>4, <1>5, <1>6, <1>7, <1>8, <1>9, <1>10, <1>11, <1>12, <1>13, <1>14,
     <1>15, <1>16, <1>17, <1>18, <1>19 DEF Next

NoEach(s) == \A i \in 1 .. Len(s) : s[i].step # "each"

LEMMA NoEachIn ==
  ASSUME NEW n \in Nat, n <= MaxGens, NEW s \in Seq(OpOf(n)), NoEach(s)
  PROVE  /\ s # <<>> => NoEach(Tail(s))
         /\ NoEach(<<>>) /\ NoEach(AfterError(s))
<1>1. ASSUME s # <<>> PROVE NoEach(Tail(s))
  <2>1. /\ Len(s) \in Nat /\ Len(Tail(s)) = Len(s) - 1
        /\ \A i \in 1 .. Len(s) - 1 : Tail(s)[i] = s[i + 1]
    BY <1>1, SeqParts
  <2> QED
    BY <2>1 DEF NoEach
<1>2. NoEach(<<>>)
  BY DEF NoEach
<1>3. NoEach(AfterError(s))
  BY <1>2, AfterErrorIs DEF NoEach
<1> QED
  BY <1>1, <1>2, <1>3

LEMMA NoEachDo ==
  ASSUME NEW n \in Nat, n <= MaxGens, NEW g \in 1 .. n, NEW l \in Lists,
         l # <<"init", "each">>, l # <<"resume", "each">>
  PROVE  /\ NoEach(Do(l, g))
         /\ \A rest \in Seq(OpOf(n)) : NoEach(rest) => NoEach(Do(l, g) \o rest)
<1>1. \A i \in 1 .. Len(l) : l[i] # "each"
  BY SMTT(30) DEF Lists, CallLists
<1>2. NoEach(Do(l, g))
  <2> DEFINE d == Do(l, g)
  <2>1. Len(d) = Len(l) /\ \A i \in 1 .. Len(l) : d[i] = [step |-> l[i], gen |-> g]
    BY DoIs
  <2> HIDE DEF d
  <2>2. ASSUME NEW i \in 1 .. Len(d) PROVE d[i].step # "each"
    <3>1. i \in 1 .. Len(l) /\ d[i] = [step |-> l[i], gen |-> g]
      BY <2>1, <2>2
    <3>2. d[i].step = l[i]
      BY <3>1
    <3> QED
      BY <1>1, <3>1, <3>2
  <2>3. NoEach(d)
    BY <2>2 DEF NoEach
  <2> QED
    BY <2>3 DEF d
<1>3. ASSUME NEW rest \in Seq(OpOf(n)), NoEach(rest) PROVE NoEach(Do(l, g) \o rest)
  <2> DEFINE s == Do(l, g) \o rest
  <2>1. /\ Len(s) = Len(l) + Len(rest) /\ Len(l) \in Nat /\ Len(rest) \in Nat
        /\ \A i \in 1 .. Len(l) : s[i] = [step |-> l[i], gen |-> g]
        /\ \A i \in Len(l) + 1 .. Len(l) + Len(rest) : s[i] = rest[i - Len(l)]
    BY DoThen
  <2> HIDE DEF s
  <2>2. ASSUME NEW i \in 1 .. Len(l) PROVE s[i].step # "each"
    <3>1. s[i] = [step |-> l[i], gen |-> g]
      BY <2>1, <2>2
    <3>2. s[i].step = l[i]
      BY <3>1
    <3> QED
      BY <1>1, <3>2
  <2>3. \A i \in Len(l) + 1 .. Len(l) + Len(rest) : s[i].step # "each"
    BY <1>3, <2>1 DEF NoEach
  <2>4. NoEach(s)
    BY <2>1, <2>2, <2>3 DEF NoEach
  <2> QED
    BY <2>4 DEF s
<1> QED
  BY <1>2, <1>3

\* What the main program is in the middle of.
Base == IF resumed = <<>> THEN ops ELSE resumed[1].ops

LEMMA ByBodiesIs == Types => (ByBodies <=> NoEach(Base))
BY DEF ByBodies, NoEach, Base

\* Switching back and forth leaves it where it is.
LEMMA BaseSwitched ==
  ASSUME Types, NEW g \in Made, NEW rest \in Seq(OpOf(Len(gens))), Switched(g, rest)
  PROVE  /\ resumed' # <<>> /\ Len(resumed') = Len(resumed) + 1 /\ Len(resumed) \in Nat
         /\ resumed'[Len(resumed) + 1] = [gen |-> g, ops |-> rest, saved |-> ctx]
         /\ \A k \in 1 .. Len(resumed) : resumed'[k] = resumed[k]
         /\ Cur' = g
         /\ Base' = IF resumed = <<>> THEN rest ELSE Base
<1> DEFINE r == [gen |-> g, ops |-> rest, saved |-> ctx]
<1>1. r \in ResumerOf(Len(gens)) /\ resumed \in Seq(ResumerOf(Len(gens))) /\ r.ops = rest /\ r.gen = g
  BY CurIs, Plainly DEF ResumerOf, Resumer, Types
<1>2. resumed' = Append(resumed, r)
  BY DEF Switched
<1> HIDE DEF r
<1>3. /\ resumed' \in Seq(ResumerOf(Len(gens)))
      /\ Len(resumed') = Len(resumed) + 1 /\ Len(resumed) \in Nat
      /\ resumed'[Len(resumed) + 1] = r
      /\ \A k \in 1 .. Len(resumed) : resumed'[k] = resumed[k]
  BY <1>1, <1>2, AppendProperties, LenProperties
<1>4. resumed' # <<>>
  BY <1>3, EmptySeq
<1>5. resumed = <<>> <=> Len(resumed) = 0
  BY <1>1, EmptySeq
<1>6. Last(resumed') = r
  BY <1>3 DEF Last
<1>7. Cur' = g
  BY <1>1, <1>4, <1>6 DEF Cur
<1>8. Base' = resumed'[1].ops
  BY <1>4 DEF Base
<1>9. CASE resumed = <<>>
  BY <1>1, <1>3, <1>4, <1>5, <1>7, <1>8, <1>9 DEF r
<1>10. CASE resumed # <<>>
  <2>1. resumed'[1] = resumed[1]
    BY <1>3, <1>5, <1>10
  <2> QED
    BY <1>3, <1>4, <1>7, <1>8, <1>10, <2>1 DEF r, Base
<1> QED
  BY <1>9, <1>10

\* What the code that resumed finds, by its place in the chain.
Resuming(k) == IF k = 1 THEN Main ELSE resumed[k - 1].gen

LEMMA FrontIs ==
  ASSUME Types, resumed # <<>>, resumed' = Front(resumed)
  PROVE  /\ Len(resumed) \in Nat \ {0} /\ Len(resumed') = Len(resumed) - 1
         /\ \A k \in 1 .. Len(resumed) - 1 : resumed'[k] = resumed[k]
         /\ Last(resumed) = resumed[Len(resumed)]
         /\ Cur' = Resuming(Len(resumed))
         /\ Base' = IF Len(resumed) = 1 THEN ops' ELSE Base
         /\ resumed' = <<>> <=> Len(resumed) = 1
<1>1. /\ resumed \in Seq(ResumerOf(Len(gens))) /\ Len(resumed) \in Nat \ {0}
      /\ Front(resumed) \in Seq(ResumerOf(Len(gens))) /\ Len(Front(resumed)) = Len(resumed) - 1
      /\ \A k \in 1 .. Len(resumed) - 1 : Front(resumed)[k] = resumed[k]
  <2>1. resumed \in Seq(ResumerOf(Len(gens)))
    BY DEF Types
  <2> QED
    BY <2>1, SeqParts
<1>2. resumed' = <<>> <=> Len(resumed) = 1
  BY <1>1, EmptySeq
<1>3. CASE Len(resumed) = 1
  BY <1>1, <1>2, <1>3 DEF Cur, Resuming, Base, Last
<1>4. CASE Len(resumed) # 1
  <2>1. Len(resumed) - 1 \in 1 .. Len(resumed) - 1 /\ 1 \in 1 .. Len(resumed) - 1
    BY <1>1, <1>4
  <2>2. resumed'[Len(resumed) - 1] = resumed[Len(resumed) - 1] /\ resumed'[1] = resumed[1]
    BY <1>1, <2>1
  <2>3. Last(resumed') = resumed[Len(resumed) - 1]
    BY <1>1, <2>2 DEF Last
  <2> QED
    BY <1>1, <1>2, <1>4, <2>2, <2>3 DEF Cur, Resuming, Base, Last
<1> QED
  BY <1>3, <1>4

LEMMA NoEachReturn ==
  ASSUME Types, Return
  PROVE  NoEach(ops')
<1>1. ops' \in Seq(ReturnOps)
  BY ReturnIs
<1>2. \A i \in 1 .. Len(ops') : ops'[i] \in ReturnOps
  BY <1>1, SeqParts
<1> QED
  BY <1>2 DEF NoEach, ReturnOps

LEMMA CallListsAre ==
  ASSUME NEW l \in CallLists
  PROVE  l \in Lists /\ l # <<"resume", "each">>
<1>1. l # <<"resume", "each">>
  BY DEF CallLists
<1> QED
  BY <1>1 DEF Lists

LEMMA LongLists ==
  /\ <<"closed", "init", "check", "bubble", "init", "bubble", "turn">> \in Lists \ {<<"init", "each">>, <<"resume", "each">>}
  /\ <<"init", "resume", "bubble", "init", "bubble", "turn">> \in Lists \ {<<"init", "each">>, <<"resume", "each">>}
  /\ <<"release">> \in Lists \ {<<"init", "each">>, <<"resume", "each">>}
  /\ <<"force", "over">> \in Lists \ {<<"init", "each">>, <<"resume", "each">>}
  /\ <<"resume">> \in Lists \ {<<"init", "each">>, <<"resume", "each">>}
  /\ <<"first">> \in Lists \ {<<"init", "each">>, <<"resume", "each">>}
BY LoopLists

\* The main program is not inside a delegation: none begins there.
LEMMA BodiesStep ==
  ASSUME Types, ByBodies, [Next]_vars
  PROVE  ByBodies'
<1> DEFINE n == Len(gens)
<1>0. /\ n \in Nat /\ n <= MaxGens /\ MaxGens \in Nat /\ Made = 1 .. n /\ ops \in Seq(OpOf(n)) /\ NoEach(Base)
      /\ resumed \in Seq(ResumerOf(n))
  BY CurIs, ByBodiesIs DEF Types
<1>a. ASSUME UNCHANGED resumed, resumed = <<>> => NoEach(ops') PROVE ByBodies'
  BY <1>a DEF ByBodies, NoEach
<1>b. ASSUME UNCHANGED resumed, UNCHANGED ops PROVE ByBodies'
  BY <1>b DEF ByBodies
<1>c. ASSUME NEW g \in Made, NEW rest \in Seq(OpOf(n)), Switched(g, rest), resumed = <<>> => NoEach(rest)
      PROVE  ByBodies'
  <2>1. resumed' # <<>> /\ Base' = IF resumed = <<>> THEN rest ELSE Base
    BY <1>0, <1>c, BaseSwitched
  <2>2. Base' = resumed'[1].ops
    BY <2>1 DEF Base
  <2>3. NoEach(resumed'[1].ops)
    BY <1>0, <1>c, <2>1, <2>2
  <2> QED
    BY <2>1, <2>3 DEF ByBodies, NoEach
<1>d. ASSUME resumed # <<>>, resumed' = Front(resumed),
             ops' = Last(resumed).ops \/ ops' = AfterError(Last(resumed).ops)
      PROVE  ByBodies'
  <2>1. /\ Last(resumed) = resumed[Len(resumed)] /\ (resumed' = <<>> <=> Len(resumed) = 1)
        /\ Base' = IF Len(resumed) = 1 THEN ops' ELSE Base
    BY <1>d, FrontIs
  <2>2. Base = resumed[1].ops
    BY <1>d DEF Base
  <2>3. CASE Len(resumed) = 1
    <3>1. NoEach(Last(resumed).ops) /\ Last(resumed).ops \in Seq(OpOf(n))
      BY <1>0, <1>d, <2>1, <2>2, <2>3, CurIs DEF ResumerOf
    <3>2. NoEach(ops')
      BY <1>0, <1>d, <3>1, NoEachIn
    <3> QED
      BY <2>1, <2>3, <3>2 DEF ByBodies, NoEach
  <2>4. CASE Len(resumed) # 1
    <3>1. resumed' # <<>> /\ Base' = Base
      BY <2>1, <2>4
    <3>2. NoEach(resumed'[1].ops)
      BY <1>0, <3>1 DEF Base
    <3> QED
      BY <3>1, <3>2 DEF ByBodies, NoEach
  <2> QED
    BY <2>3, <2>4
<1>e. resumed = <<>> => NoEach(ops)
  BY <1>0 DEF Base
<1>1. CASE Create \/ EnterTry \/ LeaveTry \/ Throw \/ Exit \/ Unwind \/ MainEnds \/ ShutdownEnds \/ UNCHANGED vars
  BY <1>b, <1>1 DEF Create, EnterTry, LeaveTry, Throw, Exit, Unwind, MainEnds, ShutdownEnds, vars
<1>2. CASE Return
  BY <1>a, <1>2, NoEachReturn DEF Return
<1>3. CASE Reachable
  <2>1. PICK l \in CallLists, g \in Made : Called(l, g) /\ (l = <<"init", "each">> => Cur # Main)
    BY <1>3, ReachableIs
  <2>2. ASSUME resumed = <<>> PROVE NoEach(ops')
    <3>1. l # <<"init", "each">>
      BY <2>1, <2>2, CurIs
    <3>2. l \in Lists /\ l # <<"resume", "each">>
      BY CallListsAre
    <3> QED
      BY <1>0, <2>1, <3>1, <3>2, NoEachDo DEF Called
  <2> QED
    BY <1>a, <2>1, <2>2 DEF Called
<1>4. CASE LoopOver
  <2> DEFINE l == <<"closed", "init", "check", "bubble", "init", "bubble", "turn">>
  <2>1. ops' = Do(l, n + 1) /\ n < MaxGens /\ resumed' = resumed
    BY <1>4 DEF LoopOver
  <2>2. l \in Lists \ {<<"init", "each">>, <<"resume", "each">>}
    BY LongLists
  <2>3. n + 1 \in Nat /\ n + 1 <= MaxGens /\ n + 1 \in 1 .. n + 1
    BY <1>0, <2>1
  <2> HIDE DEF l
  <2>4. NoEach(ops')
    BY <2>1, <2>2, <2>3, NoEachDo
  <2> QED
    BY <1>a, <2>1, <2>4
<1>5. CASE LoopNext
  <2> DEFINE l == <<"init", "resume", "bubble", "init", "bubble", "turn">>
  <2>1. ops' = Do(l, Top.gen) /\ Top.gen \in 1 .. n /\ resumed' = resumed
    BY <1>0, <1>5, LoopNextIs
  <2>2. l \in Lists \ {<<"init", "each">>, <<"resume", "each">>}
    BY LongLists
  <2> HIDE DEF l
  <2>3. NoEach(ops')
    BY <1>0, <2>1, <2>2, NoEachDo
  <2> QED
    BY <1>a, <2>1, <2>3
<1>6. ASSUME NEW k \in 1 .. 2, Break(k) PROVE ByBodies'
  <2> DEFINE g == regions[Cur][Len(regions[Cur]) - k + 1].gen
             l == <<"release">>
  <2>1. g \in 1 .. n /\ ops' = Do(l, g) /\ resumed' = resumed
    BY <1>0, <1>6, BreakIs
  <2>2. l \in Lists \ {<<"init", "each">>, <<"resume", "each">>}
    BY LongLists
  <2> HIDE DEF l, g
  <2>3. NoEach(ops')
    BY <1>0, <2>1, <2>2, NoEachDo
  <2> QED
    BY <1>a, <2>1, <2>3
<1>7. CASE Yield
  <2>0. resumed # <<>>
    BY <1>7, CurIs DEF Yield
  <2>1. CASE gens[Cur].destroying
    BY <1>7, <1>a, <2>0, <2>1 DEF Yield, YieldOr
  <2>2. CASE ~gens[Cur].destroying
    <3>1. resumed' = Front(resumed) /\ ops' = Last(resumed).ops
      BY <1>7, <2>2 DEF Yield, YieldOr, Suspend
    <3> QED
      BY <1>d, <2>0, <3>1
  <2> QED
    BY <2>1, <2>2
<1>8. CASE BodyEnds
  BY <1>8, <1>d, BodyEndsTypes
<1>9. CASE HostStep
  <2>0. HostMoves /\ ops # <<>>
    BY <1>9, HostCases
  <2>1. /\ Rest \in Seq(OpOf(n)) /\ (resumed = <<>> => NoEach(Rest)) /\ NoEach(<<>>)
        /\ Head(ops).step # "return" => Target \in 1 .. n
    <3>1. Rest \in Seq(OpOf(n)) /\ (Head(ops).step # "return" => Target \in 1 .. n)
      BY <1>0, <2>0, OpsAre
    <3>2. resumed = <<>> => NoEach(Tail(ops))
      BY <1>0, <1>e, <2>0, NoEachIn
    <3>3. NoEach(<<>>)
      BY DEF NoEach
    <3> QED
      BY <3>1, <3>2, <3>3 DEF Rest
  <2>2. CASE \E steps : Dropped(steps) \/ Stopped(steps)
    BY <1>a, <2>1, <2>2 DEF Dropped, Stopped
  <2>3. CASE Returned \/ Flagged \/ Loaded \/ Closed
    BY <1>a, <2>1, <2>3 DEF Returned, Flagged, Loaded, Closed, Update
  <2>4. ASSUME Head(ops).step # "return", NEW l \in Lists \ {<<"init", "each">>, <<"resume", "each">>}
        PROVE  /\ resumed = <<>> => NoEach(Do(l, Target) \o Rest)
               /\ Do(l, Target) \o Rest \in Seq(OpOf(n))
    BY <1>0, <2>1, <2>4, NoEachDo, DoThen
  <2>5. CASE Doomed
    BY <1>a, <2>4, <2>5, LongLists DEF Doomed
  <2>6. CASE Freed
    BY <1>a, <2>4, <2>6, LongLists DEF Freed
  <2>7. ASSUME Head(ops).step # "return", NEW rest \in Seq(OpOf(n)), resumed = <<>> => NoEach(rest),
               SwitchTo(Target, rest)
        PROVE  ByBodies'
    <3>1. Target \in Made /\ (resumed = <<>> => NoEach(AfterError(rest)))
      BY <1>0, <2>1, <2>7, NoEachIn
    <3> QED
      BY <1>0, <1>a, <1>c, <2>7, <3>1, SwitchCases
  <2>8. CASE Begun
    BY <2>4, <2>7, <2>8, LongLists DEF Begun
  <2>9. CASE Primed \/ Resumed
    BY <2>1, <2>7, <2>9 DEF Primed, Resumed
  <2>10. CASE Delegated
    <3>1. resumed # <<>>
      <4>1. 1 \in 1 .. Len(ops) /\ Head(ops) = ops[1]
        BY <2>0, OpsAre
      <4> QED
        BY <2>10, <4>1 DEF Delegated, ByBodies
    <3>2. resumed' = Front(resumed) /\ ops' = Last(resumed).ops
      BY <2>10 DEF Delegated, Suspend
    <3> QED
      BY <1>d, <3>1, <3>2
  <2> QED
    BY <2>0, <2>2, <2>3, <2>5, <2>6, <2>8, <2>9, <2>10 DEF HostMoves
<1>10. CASE Turn
  <2>1. ops # <<>> /\ ops' = Rest /\ resumed' = resumed
    BY <1>10 DEF Turn, Step
  <2> QED
    BY <1>0, <1>a, <1>e, <2>1, NoEachIn DEF Rest
<1>11. CASE ShutdownNext
  <2> DEFINE l == <<"force", "over">>
  <2>1. ops' = Do(l, next) /\ next <= count /\ resumed' = resumed
    BY <1>11 DEF ShutdownNext
  <2>2. l \in Lists \ {<<"init", "each">>, <<"resume", "each">>}
    BY LongLists
  <2> HIDE DEF l
  <2>3. next \in 1 .. n
    BY <1>0, <2>1 DEF Types
  <2>4. NoEach(ops')
    BY <1>0, <2>1, <2>2, <2>3, NoEachDo
  <2> QED
    BY <1>a, <2>1, <2>4
<1> QED
  BY <1>1, <1>2, <1>3, <1>4, <1>5, <1>6, <1>7, <1>8, <1>9, <1>10, <1>11 DEF Next

LEMMA TypesInit == Init => Types /\ ByBodies
<1> SUFFICES ASSUME Init PROVE Types /\ ByBodies
  OBVIOUS
<1>1. /\ gens = <<>> /\ resumed = <<>> /\ ops = <<>> /\ regions = [c \in Codes |-> <<>>]
      /\ ctx = [frames |-> << Main >>, signal |-> "none"] /\ exit = FALSE
      /\ phase = "run" /\ count = 0 /\ next = 1 /\ MaxGens \in Nat
  BY GeneratorsAssumption DEF Init
<1>2. Len(gens) = 0
  BY <1>1
<1>3. gens \in Seq(CellOf(0)) /\ resumed \in Seq(ResumerOf(0)) /\ ops \in Seq(OpOf(0))
  BY <1>1, EmptySeq
<1>4. regions \in [Codes -> Seq(RegionOf(0))]
  BY <1>1, EmptySeq
<1>5. << Main >> \in Seq(Codes)
  BY DEF Codes
<1>6. ctx \in Context
  BY <1>1, <1>5 DEF Context, Signals
<1>7. Types
  <2>1. Len(gens) <= MaxGens /\ count \in 0 .. Len(gens) /\ next \in 1 .. MaxGens + 1
    BY <1>1, <1>2
  <2>2. /\ gens \in Seq(CellOf(Len(gens))) /\ resumed \in Seq(ResumerOf(Len(gens)))
        /\ ops \in Seq(OpOf(Len(gens))) /\ regions \in [Codes -> Seq(RegionOf(Len(gens)))]
    BY <1>2, <1>3, <1>4
  <2> QED
    BY <1>1, <1>6, <2>1, <2>2 DEF Types
<1>8. ByBodies
  BY <1>1 DEF ByBodies
<1> QED
  BY <1>7, <1>8

\* What is stored names generators that exist; only bodies delegate.
THEOREM TypesHold == Spec => [](Types /\ ByBodies)
<1>1. Types /\ ByBodies /\ [Next]_vars => (Types /\ ByBodies)'
  BY TypesStep, BodiesStep
<1> QED
  BY <1>1, TypesInit, PTL DEF Spec

\* TypeOK: whatever programs do with generators, the records of gen_resume
\* name generators that exist and the steps left of every host function are
\* about one of them.
THEOREM TypeCorrect == Spec => []TypeOK
<1>1. Types /\ ByBodies => TypeOK
  BY TypesImplyTypeOK
<1> QED
  BY <1>1, TypesHold, PTL

-----------------------------------------------------------------------------
(* Every step leaves the chain of resumptions alone, or goes into a body,  *)
(* or comes back from one.                                                 *)

\* A cell that only its flags change in.
Marked(cell) ==
  /\ cell \in CellOf(Len(gens)) /\ Target \in Made
  /\ cell.saved = gens[Target].saved /\ cell.coro = gens[Target].coro /\ cell.cont = gens[Target].cont
  /\ cell.started = gens[Target].started /\ cell.held = gens[Target].held /\ cell.yields = gens[Target].yields
  /\ gens[Target].destroying => cell.destroying
  /\ gens[Target].done => cell.done
  /\ gens' = [gens EXCEPT ![Target] = cell]

Still ==
  /\ resumed' = resumed /\ ctx'.frames = ctx.frames
  /\ \/ gens' = gens
     \/ Len(gens) < MaxGens /\ \E h \in BOOLEAN : Make(h)
     \/ \E cell : Marked(cell)

Kept == UNCHANGED <<exit, phase, count, next>>

\* What gen_resume leaves to be done when it is called; it finds a generator
\* that is over, or one whose body is on the stack, or goes into the body.
Leaving(rest) ==
  /\ ops # <<>> /\ Target \in Made
  /\ \/ Head(ops).step = "init" /\ ~gens[Target].started /\ rest = Do(<<"first">>, Target) \o Rest
     \/ Head(ops).step = "prime" /\ ~gens[Target].started /\ rest = Rest
     \/ Head(ops).step = "resume" /\ rest = Rest
Rests == Seq(OpOf(Len(gens)))
Passed == \E rest \in Rests :
  /\ Leaving(rest) /\ gens[Target].done /\ ops' = rest
  /\ UNCHANGED <<gens, regions, ctx, resumed>> /\ Kept
Blocked == \E rest \in Rests :
  /\ Leaving(rest) /\ ~gens[Target].done /\ gens[Target].coro = "taken"
  /\ ctx'.frames = ctx.frames /\ ops' = AfterError(rest)
  /\ UNCHANGED <<gens, regions, resumed, exit, phase, count, next>>
Into == \E rest \in Rests : Leaving(rest) /\ Switched(Target, rest) /\ UNCHANGED regions /\ Kept
Back == \E rest \in Rests :
  /\ resumed # <<>> /\ ~gens[Cur].destroying /\ Suspend(rest) /\ UNCHANGED regions /\ Kept
  /\ \/ Code /\ rest = <<>>
     \/ /\ ops # <<>> /\ Head(ops).step = "each" /\ Target \in Made
        /\ rest = Do(<<"resume", "each">>, Target)

\* The steps of host functions that switch to nobody.
Here ==
  /\ ops # <<>> /\ (Head(ops).step # "return" => Target \in Made)
  /\ \/ Dropped({"init", "prime"}) /\ gens[Target].started
     \/ Dropped({"check", "closed", "release", "bubble"})
     \/ Dropped({"each"}) /\ gens[Target].done
     \/ Dropped({"force"}) /\ ~Live(Target)
     \/ Stopped({"check", "closed", "inject", "each", "bubble"})
     \/ Returned \/ Flagged \/ Loaded \/ Closed \/ Doomed \/ Freed
  /\ UNCHANGED <<regions, exit, phase, count, next>>

LEMMA MarkedCells ==
  ASSUME Types, ops # <<>>, Target \in Made
  PROVE  /\ Closed => \E cell : Marked(cell)
         /\ Flagged => \E cell : Marked(cell)
         /\ Loaded => \E cell : Marked(cell)
         /\ Doomed => \E cell : Marked(cell)
<1>0. gens[Target] \in CellOf(Len(gens)) /\ gens[Target] \in Cell
  BY CurIs DEF CellOf
<1>1. ASSUME Closed PROVE \E cell : Marked(cell)
  <2>1. Marked([gens[Target] EXCEPT !.done = TRUE])
    BY <1>0, <1>1, Cells DEF Marked, Closed, Update, Cell
  <2> QED
    BY <2>1
<1>2. ASSUME Flagged PROVE \E cell : Marked(cell)
  <2>1. Marked([gens[Target] EXCEPT !.first = TRUE])
    BY <1>0, <1>2, Cells DEF Marked, Flagged, Update, Cell
  <2> QED
    BY <2>1
<1>3. ASSUME Loaded PROVE \E cell : Marked(cell)
  <2>1. Marked([gens[Target] EXCEPT !.inject = "throw"])
    BY <1>0, <1>3, Cells DEF Marked, Loaded, Update, Cell
  <2> QED
    BY <2>1
<1>4. ASSUME Doomed PROVE \E cell : Marked(cell)
  <2>1. Marked([gens[Target] EXCEPT !.destroying = TRUE, !.inject = "destroy"])
    BY <1>0, <1>4, Cells DEF Marked, Doomed, Cell
  <2> QED
    BY <2>1
<1> QED
  BY <1>1, <1>2, <1>3, <1>4

LEMMA HostIs ==
  ASSUME Types, ByBodies, HostStep
  PROVE  Here \/ Passed \/ Blocked \/ Into \/ Back
<1> DEFINE n == Len(gens)
<1>0. /\ HostMoves /\ ops # <<>> /\ UNCHANGED <<regions, exit, phase, count, next>>
      /\ n \in Nat /\ n <= MaxGens /\ Made = 1 .. n
  BY HostCases, CurIs
<1>1. Rest \in Rests /\ (Head(ops).step # "return" => Target \in Made)
  BY <1>0, OpsAre DEF Rests
<1>2. ASSUME NEW rest \in Rests, Leaving(rest), SwitchTo(Target, rest)
      PROVE  Passed \/ Blocked \/ Into
  <2>1. Target \in Made
    BY <1>2 DEF Leaving
  <2>2. CASE gens[Target].done /\ ops' = rest /\ UNCHANGED <<gens, ctx, resumed>>
    BY <1>0, <1>2, <2>2 DEF Passed, Kept
  <2>3. CASE /\ ~gens[Target].done /\ gens[Target].coro = "taken" /\ ctx'.frames = ctx.frames
             /\ ops' = AfterError(rest) /\ UNCHANGED <<gens, resumed>>
    BY <1>0, <1>2, <2>3 DEF Blocked
  <2>4. CASE Switched(Target, rest)
    BY <1>0, <1>2, <2>4 DEF Into, Kept, Switched
  <2> QED
    BY <1>2, <2>1, <2>2, <2>3, <2>4, SwitchCases
<1>3. CASE Begun
  <2>1. Target \in 1 .. n
    BY <1>0, <1>1, <1>3 DEF Begun
  <2>2. Do(<<"first">>, Target) \o Rest \in Rests
    BY <1>0, <1>1, <2>1, LoopLists, DoThen DEF Rests
  <2> QED
    BY <1>0, <1>2, <1>3, <2>1, <2>2 DEF Begun, Leaving
<1>4. CASE Primed
  BY <1>0, <1>1, <1>2, <1>4 DEF Primed, Leaving
<1>5. CASE Resumed
  BY <1>0, <1>1, <1>2, <1>5 DEF Resumed, Leaving
<1>6. CASE Delegated
  <2>1. resumed # <<>>
    <3>1. 1 \in 1 .. Len(ops) /\ Head(ops) = ops[1]
      BY <1>0, OpsAre
    <3> QED
      BY <1>6, <3>1 DEF Delegated, ByBodies
  <2>2. Target \in 1 .. n /\ Head(ops).step = "each"
    BY <1>0, <1>1, <1>6 DEF Delegated
  <2>3. Do(<<"resume", "each">>, Target) \in Rests
    BY <1>0, <2>2, LoopLists, DoIs DEF Rests
  <2> QED
    BY <1>0, <1>6, <2>1, <2>2, <2>3 DEF Delegated, Back, Kept
<1>7. CASE ~(Begun \/ Primed \/ Resumed \/ Delegated)
  BY <1>0, <1>1, <1>7 DEF HostMoves, Here
<1> QED
  BY <1>3, <1>4, <1>5, <1>6, <1>7

\* The regions left over are among those there were.
Trimmed == \E rs \in Seq(RegionOf(Len(gens))) :
  regions' = [regions EXCEPT ![Cur] = rs] /\ LoopsOver(rs) \subseteq LoopsOver(regions[Cur])

LEMMA TrimIs ==
  ASSUME Types
  PROVE  /\ Leave => Trimmed
         /\ StartFinally /\ regions[Cur] # <<>> => Trimmed
         /\ \A kind \in {"catch", "finally"} : Enter(kind, Main) => Trimmed
<1> DEFINE R == RegionOf(Len(gens))
           old == regions[Cur]
<1>0. old \in Seq(R) /\ Len(old) \in Nat /\ \A i \in 1 .. Len(old) : old[i] \in R
  BY CurIs, SeqParts
<1>1. ASSUME NEW s \in Seq(R), NEW r \in R, r.kind # "loop", LoopsOver(s) \subseteq LoopsOver(old)
      PROVE  Append(s, r) \in Seq(R) /\ LoopsOver(Append(s, r)) \subseteq LoopsOver(old)
  <2> DEFINE t == Append(s, r)
  <2>1. /\ t \in Seq(R) /\ Len(t) = Len(s) + 1 /\ Len(s) \in Nat /\ t[Len(s) + 1] = r
        /\ \A i \in 1 .. Len(s) : t[i] = s[i]
    BY AppendProperties, LenProperties
  <2> HIDE DEF t
  <2>2. ASSUME NEW i \in 1 .. Len(t), t[i].kind = "loop" PROVE t[i].gen \in LoopsOver(s)
    <3>1. i \in 1 .. Len(s) /\ s[i].kind = "loop"
      BY <1>1, <2>1, <2>2
    <3> QED
      BY <2>1, <3>1 DEF LoopsOver
  <2>3. LoopsOver(t) \subseteq LoopsOver(s)
    BY <2>2 DEF LoopsOver
  <2> QED
    BY <1>1, <2>1, <2>3 DEF t
<1>2. Front(old) \in Seq(R) /\ LoopsOver(Front(old)) \subseteq LoopsOver(old)
  <2>1. CASE old = <<>>
    <3>1. Front(<<>>) = <<>>
      BY DEF Front
    <3> QED
      BY <1>0, <2>1, <3>1
  <2>2. CASE old # <<>>
    <3> DEFINE f == Front(old)
    <3>1. f \in Seq(R) /\ Len(f) = Len(old) - 1 /\ \A i \in 1 .. Len(old) - 1 : f[i] = old[i]
      BY <1>0, <2>2, SeqParts
    <3> HIDE DEF f, old
    <3>2. ASSUME NEW i \in 1 .. Len(f), f[i].kind = "loop" PROVE f[i].gen \in LoopsOver(old)
      <4>1. i \in 1 .. Len(old) /\ old[i].kind = "loop" /\ f[i] = old[i]
        BY <1>0, <3>1, <3>2
      <4> QED
        BY <4>1 DEF LoopsOver
    <3>3. LoopsOver(f) \subseteq LoopsOver(old)
      BY <3>2 DEF LoopsOver
    <3> QED
      BY <3>1, <3>3 DEF f
  <2> QED
    BY <2>1, <2>2
<1>3. Main \in Codes /\ "none" \in Signals /\ ctx.signal \in Signals
  BY CurIs DEF Signals, Types, Context
<1>4. ASSUME Leave PROVE Trimmed
  BY <1>2, <1>4 DEF Leave, Trimmed
<1>5. ASSUME StartFinally PROVE Trimmed
  <2>1. In("ending", Main, ctx.signal) \in R /\ In("ending", Main, ctx.signal).kind # "loop"
    BY <1>3, InIs DEF Kinds, In
  <2> QED
    BY <1>1, <1>2, <1>5, <2>1 DEF StartFinally, Trimmed
<1>6. ASSUME NEW kind \in {"catch", "finally"}, Enter(kind, Main) PROVE Trimmed
  <2>1. In(kind, Main, "none") \in R /\ In(kind, Main, "none").kind # "loop"
    BY <1>3, InIs DEF Kinds, In
  <2> QED
    BY <1>0, <1>1, <1>6, <2>1 DEF Enter, Trimmed
<1> QED
  BY <1>4, <1>5, <1>6

\* Steps that neither ask anything of a generator nor answer.
Quiet ==
  /\ UNCHANGED <<resumed, ops>> /\ ctx'.frames = ctx.frames
  /\ gens' = gens \/ (Code /\ regions' = regions /\ Len(gens) < MaxGens /\ \E h \in BOOLEAN : Make(h))
  /\ regions' = regions \/ (Running /\ Trimmed)
  /\ UNCHANGED <<phase, count, next>> \/ MainEnds \/ ShutdownEnds

\* What host functions called by code begin with.
Begins ==
  CallLists \cup
  {<<"closed", "init", "check", "bubble", "init", "bubble", "turn">>,
   <<"init", "resume", "bubble", "init", "bubble", "turn">>, <<"release">>}
Asked == \E l \in Begins, g \in Made :
  /\ Code /\ ops' = Do(l, g)
  /\ gens[g].held \/ g \in LoopsOver(regions[Cur])
  /\ l = <<"init", "each">> => Cur # Main
  /\ l = ThrowSteps => gens[g].coro = "here" \/ "reenter" \in Constructs
  /\ regions' = regions \/ Trimmed
  /\ UNCHANGED <<gens, ctx, resumed>> /\ Kept

LEMMA NextIs ==
  ASSUME Types, ByBodies, [Next]_vars
  PROVE  \/ Quiet \/ Asked \/ Return \/ LoopOver \/ Here \/ Turn \/ ShutdownNext
         \/ Passed \/ Blocked \/ Into \/ Back \/ BodyEnds
<1>0. ctx.signal \in Signals /\ "none" \in Signals /\ "throw" \in Signals
  BY DEF Types, Context, Signals
<1>1. CASE Create
  BY <1>1 DEF Create, Quiet
<1>2. CASE EnterTry
  BY <1>2, TrimIs DEF EnterTry, Quiet, Code
<1>3. CASE LeaveTry
  <2>1. regions[Cur] # <<>>
    BY <1>3, TopIs DEF LeaveTry
  <2>2. Top.signal \in Signals
    BY <2>1, TopIs DEF RegionOf, Region
  <2>3. ctx'.frames = ctx.frames
    BY <1>3, <2>2, SignalTypes DEF LeaveTry
  <2>4. Trimmed
    BY <1>3, <2>1, TrimIs DEF LeaveTry
  <2> QED
    BY <1>3, <2>3, <2>4 DEF LeaveTry, Quiet, Code
<1>4. CASE Throw
  BY <1>0, <1>4, SignalTypes DEF Throw, Quiet
<1>5. CASE Exit \/ UNCHANGED vars
  BY <1>5 DEF Exit, Quiet, vars
<1>6. CASE Unwind
  <2>1. regions[Cur] # <<>>
    BY <1>6, TopIs DEF Unwind
  <2>2. ctx' = ctx \/ SetSignal("none")
    BY <1>6 DEF Unwind
  <2>3. ctx'.frames = ctx.frames
    BY <1>0, <2>2, SignalTypes
  <2>4. Trimmed
    BY <1>6, <2>1, TrimIs DEF Unwind
  <2> QED
    BY <1>6, <2>3, <2>4 DEF Unwind, Quiet
<1>7. CASE Reachable
  <2>1. PICK l \in CallLists, g \in Made :
          /\ gens[g].held /\ Called(l, g) /\ (l = <<"init", "each">> => Cur # Main)
          /\ l = ThrowSteps => gens[g].coro = "here" \/ "reenter" \in Constructs
    BY <1>7, ReachableIs
  <2>2. l \in Begins
    BY DEF Begins
  <2> QED
    BY <2>1, <2>2 DEF Called, Asked, Kept
<1>8. CASE LoopNext
  <2> DEFINE l == <<"init", "resume", "bubble", "init", "bubble", "turn">>
  <2>1. /\ Code /\ Top.gen \in Made /\ regions[Cur] # <<>> /\ Top = Last(regions[Cur]) /\ Top.kind = "loop"
        /\ ops' = Do(l, Top.gen)
        /\ UNCHANGED <<gens, regions, ctx, resumed, exit, phase, count, next>>
    BY <1>8, LoopNextIs
  <2>2. l \in Begins /\ l # <<"init", "each">> /\ l # ThrowSteps
    BY DEF Begins, ThrowSteps
  <2> HIDE DEF l
  <2>3. Top.gen \in LoopsOver(regions[Cur])
    <3>1. regions[Cur] \in Seq(RegionOf(Len(gens)))
      BY CurIs
    <3>2. Len(regions[Cur]) \in 1 .. Len(regions[Cur])
      BY <2>1, <3>1, SeqParts
    <3> QED
      BY <2>1, <3>2 DEF LoopsOver, Last
  <2> QED
    BY <2>1, <2>2, <2>3 DEF Asked, Kept
<1>9. ASSUME NEW k \in 1 .. 2, Break(k) PROVE Asked
  <2> DEFINE rs == regions[Cur]
             t == Len(rs) - k + 1
             new == SubSeq(rs, 1, t - 1)
             l == <<"release">>
  <2>1. /\ Code /\ t \in 1 .. Len(rs) /\ rs[t].kind = "loop" /\ rs[t].gen \in Made
        /\ new \in Seq(RegionOf(Len(gens))) /\ Len(new) = t - 1
        /\ \A i \in 1 .. t - 1 : new[i] = rs[i]
        /\ regions' = [regions EXCEPT ![Cur] = new] /\ ops' = Do(l, rs[t].gen)
        /\ UNCHANGED <<gens, ctx, resumed, exit, phase, count, next>>
    BY <1>9, BreakIs
  <2>2. Len(rs) \in Nat
    BY CurIs, LenProperties
  <2>3. l \in Begins /\ l # <<"init", "each">> /\ l # ThrowSteps
    BY DEF Begins, ThrowSteps
  <2> HIDE DEF l, t, new
  <2>4. rs[t].gen \in LoopsOver(rs)
    BY <2>1 DEF LoopsOver
  <2>5. LoopsOver(new) \subseteq LoopsOver(rs)
    <3>1. ASSUME NEW i \in 1 .. Len(new), new[i].kind = "loop" PROVE new[i].gen \in LoopsOver(rs)
      <4>1. i \in 1 .. Len(rs) /\ new[i] = rs[i]
        BY <2>1, <2>2, <3>1
      <4> QED
        BY <3>1, <4>1 DEF LoopsOver
    <3> QED
      BY <3>1 DEF LoopsOver
  <2>6. Trimmed
    BY <2>1, <2>5 DEF Trimmed
  <2> QED
    BY <2>1, <2>3, <2>4, <2>6 DEF Asked, Kept
<1>10. CASE Yield
  <2>1. CASE gens[Cur].destroying
    <3>1. Code /\ SetSignal("throw") /\ ops' = <<>> /\ UNCHANGED <<gens, resumed, regions, phase, count, next>>
      BY <1>10, <2>1 DEF Yield, YieldOr
    <3>2. ctx'.frames = ctx.frames
      BY <1>0, <3>1, SignalTypes
    <3> QED
      BY <3>1, <3>2 DEF Quiet, Code, Running
  <2>2. CASE ~gens[Cur].destroying
    <3>1. resumed # <<>> /\ <<>> \in Rests
      BY <1>10, CurIs, EmptySeq DEF Yield, Rests
    <3>2. Code /\ Suspend(<<>>) /\ UNCHANGED regions /\ Kept
      BY <1>10, <2>2 DEF Yield, YieldOr, Kept
    <3> QED
      BY <2>2, <3>1, <3>2 DEF Back
  <2> QED
    BY <2>1, <2>2
<1>11. CASE HostStep
  BY <1>11, HostIs
<1>12. CASE MainEnds
  <2>1. ctx'.frames = ctx.frames
    BY <1>0, <1>12, SignalTypes DEF MainEnds
  <2> QED
    BY <1>12, <2>1 DEF MainEnds, Quiet
<1>13. CASE ShutdownEnds
  BY <1>13 DEF ShutdownEnds, Quiet
<1> QED
  BY <1>1, <1>2, <1>3, <1>4, <1>5, <1>6, <1>7, <1>8, <1>9, <1>10, <1>11, <1>12, <1>13 DEF Next

LEMMA Moves ==
  ASSUME Types, ByBodies, [Next]_vars
  PROVE  Still \/ Into \/ Back \/ BodyEnds
<1>1. CASE Quiet \/ Asked \/ Return \/ LoopOver \/ Turn \/ ShutdownNext \/ Passed \/ Blocked
  BY <1>1 DEF Quiet, Asked, Return, LoopOver, Turn, ShutdownNext, Passed, Blocked, Still
<1>2. CASE Here
  <2>1. CASE \E steps : Dropped(steps) \/ Stopped(steps)
    BY <2>1 DEF Dropped, Stopped, Still
  <2>2. CASE Returned \/ Freed
    BY <2>2 DEF Returned, Freed, Still
  <2>3. CASE Closed \/ Flagged \/ Loaded \/ Doomed
    <3>1. Target \in Made /\ resumed' = resumed /\ ctx' = ctx /\ ops # <<>>
      BY <1>2, <2>3 DEF Here, Closed, Flagged, Loaded, Doomed, Update
    <3> QED
      BY <2>3, <3>1, MarkedCells DEF Still
  <2> QED
    BY <1>2, <2>1, <2>2, <2>3 DEF Here
<1> QED
  BY <1>1, <1>2, NextIs

-----------------------------------------------------------------------------
(* Chain: nobody is resumed twice, and the frames of each piece of code    *)
(* are in one place.                                                       *)

Active(g) == \E k \in 1 .. Len(resumed) : resumed[k].gen = g

\* Two codes of the chain are one only at one place of it.
Apart ==
  /\ \A j, k \in 1 .. Len(resumed) : resumed[j].gen = resumed[k].gen => j = k
  /\ \A j, k \in 1 .. Len(resumed) : Resuming(j) = Resuming(k) => j = k
  /\ \A k \in 1 .. Len(resumed) : Resuming(k) # Cur

Framed ==
  /\ ctx.frames = << Cur >>
  /\ \A k \in 1 .. Len(resumed) : resumed[k].saved.frames = << Resuming(k) >>
  /\ \A g \in Made :
       /\ Active(g) => gens[g].saved.frames = <<>> /\ gens[g].coro = "taken"
       /\ ~Active(g) => gens[g].saved.frames = << g >> /\ gens[g].coro = "here"

Chain ==
  /\ \A j, k \in 1 .. Len(resumed) : resumed[j].gen = resumed[k].gen => j = k
  /\ Framed

LEMMA FramedIs == Types => (Framed => FramesOnce)
<1> SUFFICES ASSUME Types, Framed PROVE FramesOnce
  OBVIOUS
<1> DEFINE active == {resumed[i].gen : i \in DOMAIN resumed}
<1>1. DOMAIN resumed = 1 .. Len(resumed)
  BY SeqParts DEF Types
<1>2. \A g \in Made : g \in active <=> Active(g)
  BY <1>1 DEF Active
<1>3. FramesOnce <=>
        /\ ctx.frames = << Cur >>
        /\ \A g \in Made :
             /\ gens[g].saved.frames = IF g \in active THEN <<>> ELSE << g >>
             /\ gens[g].coro = IF g \in active THEN "taken" ELSE "here"
  BY DEF FramesOnce
<1> HIDE DEF active
<1> QED
  BY <1>2, <1>3 DEF Framed

LEMMA ApartIs == Types /\ Chain => Apart
<1> SUFFICES ASSUME Types, Chain PROVE Apart
  OBVIOUS
<1>1. /\ Len(resumed) \in Nat /\ \A k \in 1 .. Len(resumed) : resumed[k] \in ResumerOf(Len(gens))
      /\ resumed # <<>> => Len(resumed) # 0
      /\ resumed = <<>> => Len(resumed) = 0
  BY SeqParts, EmptySeq DEF Types
<1>2. \A k \in 1 .. Len(resumed) : resumed[k].gen \in Made /\ resumed[k].gen # Main
  BY <1>1, CurIs DEF ResumerOf
<1>3. ASSUME NEW j \in 1 .. Len(resumed), NEW k \in 1 .. Len(resumed), Resuming(j) = Resuming(k)
      PROVE  j = k
  <2>1. CASE j = 1 /\ k # 1
    <3>1. k - 1 \in 1 .. Len(resumed)
      BY <1>1, <2>1
    <3> QED
      BY <1>2, <1>3, <2>1, <3>1 DEF Resuming
  <2>2. CASE j # 1 /\ k = 1
    <3>1. j - 1 \in 1 .. Len(resumed)
      BY <1>1, <2>2
    <3> QED
      BY <1>2, <1>3, <2>2, <3>1 DEF Resuming
  <2>3. CASE j # 1 /\ k # 1
    <3>1. j - 1 \in 1 .. Len(resumed) /\ k - 1 \in 1 .. Len(resumed)
      BY <1>1, <2>3
    <3>2. j - 1 = k - 1
      BY <1>3, <2>3, <3>1 DEF Resuming, Chain
    <3> QED
      BY <1>1, <3>2
  <2> QED
    BY <2>1, <2>2, <2>3
<1>4. ASSUME NEW k \in 1 .. Len(resumed) PROVE Resuming(k) # Cur
  <2>1. Len(resumed) \in 1 .. Len(resumed) /\ Cur = resumed[Len(resumed)].gen
    BY <1>1, <1>4, CurIs DEF Last
  <2>2. CASE k = 1
    BY <1>2, <2>1, <2>2 DEF Resuming
  <2>3. CASE k # 1
    <3>1. k - 1 \in 1 .. Len(resumed) /\ k - 1 # Len(resumed)
      BY <1>1, <2>3
    <3> QED
      BY <2>1, <2>3, <3>1 DEF Resuming, Chain
  <2> QED
    BY <2>2, <2>3
<1> QED
  BY <1>3, <1>4 DEF Apart, Chain

\* Who runs, waits and sleeps after going into a body...
LEMMA AfterInto ==
  ASSUME Types, Chain, NEW g \in Made, NEW rest \in Seq(OpOf(Len(gens))), Switched(g, rest)
  PROVE  /\ Len(resumed) \in Nat /\ Len(resumed') = Len(resumed) + 1 /\ Cur' = g /\ ~Active(g)
         /\ resumed'[Len(resumed) + 1] = [gen |-> g, ops |-> rest, saved |-> ctx]
         /\ \A k \in 1 .. Len(resumed) : resumed'[k] = resumed[k] /\ Resuming(k)' = Resuming(k)
         /\ \A m : m = Len(resumed) + 1 => Resuming(m)' = Cur
         /\ \A h : Active(h)' <=> Active(h) \/ h = g
<1> DEFINE n == Len(resumed)
           r == [gen |-> g, ops |-> rest, saved |-> ctx]
<1>1. /\ n \in Nat /\ Len(resumed') = n + 1 /\ Cur' = g /\ resumed'[n + 1] = r /\ r.gen = g
      /\ \A k \in 1 .. n : resumed'[k] = resumed[k]
  BY BaseSwitched
<1> HIDE DEF r
<1>2. ~Active(g)
  BY DEF Chain, Framed, Switched
<1>3. \A k \in 1 .. n : Resuming(k)' = Resuming(k)
  <2>1. \A k \in 1 .. n : k # 1 => k - 1 \in 1 .. n
    BY <1>1
  <2> QED
    BY <1>1, <2>1 DEF Resuming
<1>4. ASSUME NEW m, m = n + 1 PROVE Resuming(m)' = Cur
  <2>1. resumed = <<>> <=> n = 0
    BY EmptySeq DEF Types
  <2>2. CASE n = 0
    BY <1>4, <2>1, <2>2, CurIs DEF Resuming
  <2>3. CASE n # 0
    <3>1. n \in 1 .. n /\ m # 1 /\ m - 1 = n
      BY <1>1, <1>4, <2>3
    <3>2. Cur = resumed[n].gen
      BY <2>1, <2>3, CurIs DEF Last
    <3> QED
      BY <1>1, <3>1, <3>2 DEF Resuming
  <2> QED
    BY <2>2, <2>3
<1>5. ASSUME NEW h PROVE Active(h)' <=> Active(h) \/ h = g
  <2>1. ASSUME Active(h)' PROVE Active(h) \/ h = g
    <3>1. PICK k \in 1 .. n + 1 : resumed'[k].gen = h
      BY <1>1, <2>1 DEF Active
    <3>2. CASE k = n + 1
      BY <1>1, <3>1, <3>2
    <3>3. CASE k # n + 1
      <4>1. k \in 1 .. n
        BY <1>1, <3>1, <3>3
      <4> QED
        BY <1>1, <3>1, <4>1 DEF Active
    <3> QED
      BY <3>2, <3>3
  <2>2. ASSUME Active(h) PROVE Active(h)'
    <3>1. PICK k \in 1 .. n : resumed[k].gen = h
      BY <2>2 DEF Active
    <3>2. k \in 1 .. n + 1 /\ resumed'[k].gen = h
      BY <1>1, <3>1
    <3> QED
      BY <1>1, <3>2 DEF Active
  <2>3. Active(g)'
    <3>1. n + 1 \in 1 .. n + 1 /\ resumed'[n + 1].gen = g
      BY <1>1
    <3> QED
      BY <1>1, <3>1 DEF Active
  <2> QED
    BY <2>1, <2>2, <2>3
<1> QED
  BY <1>1, <1>2, <1>3, <1>4, <1>5 DEF r

\* ... and after coming back from one.
LEMMA AfterBack ==
  ASSUME Types, Chain, resumed # <<>>, resumed' = Front(resumed)
  PROVE  /\ Len(resumed) \in Nat \ {0} /\ Len(resumed') = Len(resumed) - 1 /\ Last(resumed) = resumed[Len(resumed)]
         /\ Cur' = Resuming(Len(resumed)) /\ Cur = resumed[Len(resumed)].gen /\ Active(Cur)
         /\ \A k \in 1 .. Len(resumed) - 1 :
              resumed'[k] = resumed[k] /\ Resuming(k)' = Resuming(k) /\ resumed[k].gen # Cur
         /\ \A h : Active(h)' <=> Active(h) /\ h # Cur
<1> DEFINE n == Len(resumed)
<1>1. /\ n \in Nat \ {0} /\ Len(resumed') = n - 1 /\ Last(resumed) = resumed[n]
      /\ Cur' = Resuming(n)
      /\ \A k \in 1 .. n - 1 : resumed'[k] = resumed[k]
  BY FrontIs
<1>2. n \in 1 .. n /\ Cur = resumed[n].gen
  BY <1>1, CurIs
<1>3. Active(Cur)
  BY <1>2 DEF Active
<1>4. ASSUME NEW k \in 1 .. n - 1 PROVE Resuming(k)' = Resuming(k) /\ resumed[k].gen # Cur
  <2>1. k # 1 => k - 1 \in 1 .. n - 1
    BY <1>1
  <2>2. k \in 1 .. n /\ k # n
    BY <1>1
  <2> QED
    BY <1>1, <1>2, <2>1, <2>2 DEF Resuming, Chain
<1>5. ASSUME NEW h PROVE Active(h)' <=> Active(h) /\ h # Cur
  <2>1. ASSUME Active(h)' PROVE Active(h) /\ h # Cur
    <3>1. PICK k \in 1 .. n - 1 : resumed'[k].gen = h
      BY <1>1, <2>1 DEF Active
    <3>2. k \in 1 .. n
      BY <1>1, <3>1
    <3> QED
      BY <1>1, <1>4, <3>1, <3>2 DEF Active
  <2>2. ASSUME Active(h), h # Cur PROVE Active(h)'
    <3>1. PICK k \in 1 .. n : resumed[k].gen = h
      BY <2>2 DEF Active
    <3>2. k \in 1 .. n - 1
      BY <1>1, <1>2, <2>2, <3>1
    <3> QED
      BY <1>1, <3>1, <3>2 DEF Active
  <2> QED
    BY <2>1, <2>2
<1> QED
  BY <1>1, <1>2, <1>3, <1>4, <1>5

LEMMA StillChain ==
  ASSUME Types, Chain, Still
  PROVE  /\ Cur' = Cur /\ \A h : Active(h)' <=> Active(h)
         /\ \A k : Resuming(k)' = Resuming(k)
BY DEF Still, Cur, Active, Resuming

\* A cell of Made is what it was, or the new cell.
LEMMA CellWritten ==
  ASSUME Types, NEW g \in Made, NEW cell, gens' = [gens EXCEPT ![g] = cell]
  PROVE  /\ Made' = Made /\ Len(gens') = Len(gens) /\ gens'[g] = cell
         /\ \A h \in Made : h # g => gens'[h] = gens[h]
<1>1. gens \in Seq(CellOf(Len(gens))) /\ Made = 1 .. Len(gens) /\ Len(gens) \in Nat
  BY CurIs DEF Types
<1>2. gens = [i \in 1 .. Len(gens) |-> gens[i]]
  BY <1>1
<1>3. DOMAIN gens' = 1 .. Len(gens) /\ Len(gens') = Len(gens)
  BY <1>1, <1>2
<1> QED
  BY <1>1, <1>3 DEF Made

LEMMA MakeIs ==
  ASSUME Types, NEW h \in BOOLEAN, Len(gens) < MaxGens, Make(h)
  PROVE  /\ Made' = Made \cup {Len(gens) + 1} /\ Len(gens) + 1 \notin Made
         /\ \A g \in Made : gens'[g] = gens[g]
         /\ gens'[Len(gens) + 1] = NewCell(Len(gens) + 1, h)
         /\ Len(gens) + 1 \in Ids
         /\ NewCell(Len(gens) + 1, h).saved.frames = << Len(gens) + 1 >>
         /\ NewCell(Len(gens) + 1, h).coro = "here"
         /\ NewCell(Len(gens) + 1, h).cont = <<>> /\ NewCell(Len(gens) + 1, h).started = FALSE
         /\ NewCell(Len(gens) + 1, h).first = FALSE /\ NewCell(Len(gens) + 1, h).done = FALSE
         /\ NewCell(Len(gens) + 1, h).inject = "none" /\ NewCell(Len(gens) + 1, h).yields = 0
         /\ NewCell(Len(gens) + 1, h).destroying = FALSE
         /\ NewCell(Len(gens) + 1, h).held = h
<1>1. /\ Len(gens') = Len(gens) + 1 /\ gens' \in Seq(CellOf(Len(gens')))
      /\ \A g \in Made : gens'[g] = gens[g]
      /\ gens'[Len(gens) + 1] = NewCell(Len(gens) + 1, h)
  BY MakeTypes
<1>2. /\ Len(gens) \in Nat /\ MaxGens \in Nat /\ Made = 1 .. Len(gens)
  BY CurIs
<1>3. DOMAIN gens' = 1 .. Len(gens')
  BY <1>1, SeqParts
<1>4. Made' = 1 .. Len(gens) + 1
  BY <1>1, <1>3 DEF Made
<1>5. Made' = Made \cup {Len(gens) + 1} /\ Len(gens) + 1 \notin Made /\ Len(gens) + 1 \in Ids
  BY <1>2, <1>4 DEF Ids
<1> QED
  BY <1>1, <1>5 DEF NewCell

LEMMA NotActiveYet ==
  ASSUME Types
  PROVE  ~Active(Len(gens) + 1) /\ \A g : Active(g) => g \in Made
<1>1. \A k \in 1 .. Len(resumed) : resumed[k] \in ResumerOf(Len(gens))
  BY SeqParts DEF Types
<1>2. \A k \in 1 .. Len(resumed) : resumed[k].gen \in 1 .. Len(gens)
  BY <1>1 DEF ResumerOf
<1> QED
  BY <1>2, CurIs DEF Active

LEMMA ChainStep ==
  ASSUME Types, ByBodies, Chain, [Next]_vars
  PROVE  Chain'
<1>0. Made = 1 .. Len(gens) /\ Len(gens) \in Nat
  BY CurIs
<1>1. CASE Still
  <2>1. Cur' = Cur /\ (\A h : Active(h)' <=> Active(h)) /\ \A k : Resuming(k)' = Resuming(k)
    BY <1>1, StillChain
  <2>2. ctx'.frames = << Cur' >> /\ \A k \in 1 .. Len(resumed') : resumed'[k].saved.frames = << Resuming(k)' >>
    BY <1>1, <2>1 DEF Still, Chain, Framed
  <2>3. \A j, k \in 1 .. Len(resumed') : resumed'[j].gen = resumed'[k].gen => j = k
    BY <1>1 DEF Still, Chain
  <2>4. ASSUME NEW g \in Made'
        PROVE  /\ Active(g)' => gens'[g].saved.frames = <<>> /\ gens'[g].coro = "taken"
               /\ ~Active(g)' => gens'[g].saved.frames = << g >> /\ gens'[g].coro = "here"
    <3>1. CASE gens' = gens
      BY <2>1, <2>4, <3>1 DEF Chain, Framed, Made
    <3>2. ASSUME NEW h \in BOOLEAN, Len(gens) < MaxGens, Make(h)
          PROVE  /\ Active(g)' => gens'[g].saved.frames = <<>> /\ gens'[g].coro = "taken"
                 /\ ~Active(g)' => gens'[g].saved.frames = << g >> /\ gens'[g].coro = "here"
      <4>1. CASE g \in Made
        <5>1. gens'[g] = gens[g]
          BY <3>2, <4>1, MakeIs
        <5> QED
          BY <2>1, <4>1, <5>1 DEF Chain, Framed
      <4>2. CASE g = Len(gens) + 1
        <5>1. ~Active(g)'
          BY <2>1, <4>2, NotActiveYet
        <5> QED
          BY <3>2, <4>2, <5>1, MakeIs
      <4> QED
        BY <2>4, <3>2, <4>1, <4>2, MakeIs
    <3>3. ASSUME NEW cell, Marked(cell)
          PROVE  /\ Active(g)' => gens'[g].saved.frames = <<>> /\ gens'[g].coro = "taken"
                 /\ ~Active(g)' => gens'[g].saved.frames = << g >> /\ gens'[g].coro = "here"
      <4>1. Target \in Made /\ gens' = [gens EXCEPT ![Target] = cell]
            /\ cell.saved = gens[Target].saved /\ cell.coro = gens[Target].coro
        BY <3>3 DEF Marked
      <4>2. g \in Made /\ gens'[g].saved = gens[g].saved /\ gens'[g].coro = gens[g].coro
        BY <2>4, <4>1, CellWritten
      <4> QED
        BY <2>1, <4>2 DEF Chain, Framed
    <3> QED
      BY <1>1, <3>1, <3>2, <3>3 DEF Still
  <2> QED
    BY <2>2, <2>3, <2>4 DEF Chain, Framed
<1>2. ASSUME NEW g \in Made, NEW rest \in Seq(OpOf(Len(gens))), Switched(g, rest)
      PROVE  Chain'
  <2> DEFINE n == Len(resumed)
             r == [gen |-> g, ops |-> rest, saved |-> ctx]
  <2>1. /\ n \in Nat /\ Len(resumed') = n + 1 /\ Cur' = g /\ ~Active(g)
        /\ resumed'[n + 1] = r /\ r.gen = g /\ r.saved = ctx
        /\ \A k \in 1 .. n : resumed'[k] = resumed[k] /\ Resuming(k)' = Resuming(k)
        /\ \A m : m = n + 1 => Resuming(m)' = Cur
        /\ \A h : Active(h)' <=> Active(h) \/ h = g
    BY <1>2, AfterInto
  <2> HIDE DEF r, n
  <2>2. \A k \in 1 .. n + 1 : k = n + 1 \/ k \in 1 .. n
    BY <2>1
  <2>3. \A k \in 1 .. n : resumed[k].gen # g
    BY <2>1 DEF Active, n
  <2>4. ASSUME NEW j \in 1 .. n + 1, NEW k \in 1 .. n + 1, resumed'[j].gen = resumed'[k].gen PROVE j = k
    BY <2>1, <2>2, <2>3, <2>4 DEF Chain, n
  <2>5. ctx'.frames = << Cur' >>
    BY <1>2, <2>1 DEF Switched, Chain, Framed
  <2>6. ASSUME NEW k \in 1 .. n + 1 PROVE resumed'[k].saved.frames = << Resuming(k)' >>
    BY <2>1, <2>2 DEF Chain, Framed, n
  <2>7. ASSUME NEW h \in Made'
        PROVE  /\ Active(h)' => gens'[h].saved.frames = <<>> /\ gens'[h].coro = "taken"
               /\ ~Active(h)' => gens'[h].saved.frames = << h >> /\ gens'[h].coro = "here"
    <3>1. h \in Made /\ gens'[g] = Woken(g) /\ (h # g => gens'[h] = gens[h])
      BY <1>2, <2>7, CellWritten DEF Switched
    <3>2. Woken(g).saved.frames = <<>> /\ Woken(g).coro = "taken"
      BY <1>2, WokenIs
    <3>3. CASE h = g
      BY <2>1, <3>1, <3>2, <3>3
    <3>4. CASE h # g
      BY <2>1, <3>1, <3>4 DEF Chain, Framed
    <3> QED
      BY <3>3, <3>4
  <2> QED
    BY <2>1, <2>4, <2>5, <2>6, <2>7 DEF Chain, Framed
<1>3. ASSUME resumed # <<>>, resumed' = Front(resumed), ctx'.frames = Last(resumed).saved.frames,
             NEW cell, gens' = [gens EXCEPT ![Cur] = cell],
             cell.saved.frames = ctx.frames, cell.coro = "here"
      PROVE  Chain'
  <2> DEFINE n == Len(resumed)
  <2>1. /\ n \in Nat \ {0} /\ Len(resumed') = n - 1 /\ Last(resumed) = resumed[n]
        /\ Cur' = Resuming(n) /\ Cur = resumed[n].gen
        /\ \A k \in 1 .. n - 1 :
             resumed'[k] = resumed[k] /\ Resuming(k)' = Resuming(k) /\ resumed[k].gen # Cur
        /\ \A h : Active(h)' <=> Active(h) /\ h # Cur
    BY <1>3, AfterBack
  <2>2. n \in 1 .. n /\ \A k \in 1 .. n - 1 : k \in 1 .. n
    BY <2>1
  <2> HIDE DEF n
  <2>3. ctx'.frames = << Cur' >>
    BY <1>3, <2>1, <2>2 DEF Chain, Framed, n
  <2>4. \A j, k \in 1 .. n - 1 : resumed'[j].gen = resumed'[k].gen => j = k
    BY <2>1, <2>2 DEF Chain, n
  <2>5. \A k \in 1 .. n - 1 : resumed'[k].saved.frames = << Resuming(k)' >>
    BY <2>1, <2>2 DEF Chain, Framed, n
  <2>6. ASSUME NEW h \in Made'
        PROVE  /\ Active(h)' => gens'[h].saved.frames = <<>> /\ gens'[h].coro = "taken"
               /\ ~Active(h)' => gens'[h].saved.frames = << h >> /\ gens'[h].coro = "here"
    <3>1. h \in Made /\ gens'[Cur] = cell /\ (h # Cur => gens'[h] = gens[h])
      BY <1>3, <2>6, CurIs, CellWritten
    <3>2. CASE h = Cur
      BY <1>3, <2>1, <3>1, <3>2 DEF Chain, Framed
    <3>3. CASE h # Cur
      BY <2>1, <3>1, <3>3 DEF Chain, Framed
    <3> QED
      BY <3>2, <3>3
  <2> QED
    BY <2>1, <2>3, <2>4, <2>5, <2>6 DEF Chain, Framed
<1>4. CASE Into
  BY <1>2, <1>4 DEF Into, Leaving, Rests
<1>5. CASE Back
  <2>1. PICK rest \in Seq(OpOf(Len(gens))) : resumed # <<>> /\ Suspend(rest)
    BY <1>5 DEF Back, Rests
  <2>2. /\ gens' = [gens EXCEPT ![Cur] = Slept(rest)] /\ resumed' = Front(resumed)
        /\ ctx' = Last(resumed).saved
    BY <2>1, SuspendTypes
  <2>3. Slept(rest).saved.frames = ctx.frames /\ Slept(rest).coro = "here"
    BY <2>1, SleptIs
  <2> QED
    BY <1>3, <2>1, <2>2, <2>3
<1>6. CASE BodyEnds
  <2>1. /\ gens' = [gens EXCEPT ![Cur] = Finished] /\ resumed' = Front(resumed) /\ resumed # <<>>
        /\ ctx'.frames = Last(resumed).saved.frames
    BY <1>6, BodyEndsTypes
  <2>2. Finished.saved.frames = ctx.frames /\ Finished.coro = "here"
    BY <2>1, FinishedIs
  <2> QED
    BY <1>3, <2>1, <2>2
<1> QED
  BY <1>1, <1>4, <1>5, <1>6, Moves

LEMMA ChainInit == Init => Chain
<1> SUFFICES ASSUME Init PROVE Chain
  OBVIOUS
<1>1. gens = <<>> /\ resumed = <<>> /\ ctx.frames = << Main >>
  BY DEF Init
<1>2. Len(resumed) = 0 /\ Made = {} /\ Cur = Main
  BY <1>1 DEF Made, Cur
<1> QED
  BY <1>1, <1>2 DEF Chain, Framed

\* Nobody is resumed who is active, and the frames of each piece of code are
\* in one place.
THEOREM ChainHolds == Spec => [](Types /\ ByBodies /\ Chain)
<1>1. Types /\ ByBodies /\ Chain /\ [Next]_vars => (Types /\ ByBodies /\ Chain)'
  BY TypesStep, BodiesStep, ChainStep
<1> QED
  BY <1>1, TypesInit, ChainInit, PTL DEF Spec

\* FramesOnce: the frames of each piece of code, and the coroutine of each
\* generator, are in one place, however generators resume one another.
THEOREM FramesOnceHolds == Spec => []FramesOnce
<1>1. Types /\ ByBodies /\ Chain => FramesOnce
  BY FramedIs DEF Chain
<1> QED
  BY <1>1, ChainHolds, PTL

-----------------------------------------------------------------------------
(* Tame: the order of the steps left of a host function.                   *)

HeadIs(s, step) == s # <<>> /\ s[1].step = step

Tame(s) == \A i \in 1 .. Len(s) :
  /\ s[i].step = "first" => i = 1
  /\ s[i].step = "over" => i = 1 \/ (i = 2 /\ s[1].step \in {"force", "resume"} /\ s[1].gen = s[i].gen)
  /\ s[i].step = "force" => i = 1 /\ Len(s) >= 2 /\ s[2].step = "over"
  /\ s[i].step = "inject" =>
       /\ i + 1 <= Len(s) /\ s[i + 1].step = "resume" /\ s[i + 1].gen = s[i].gen
       /\ i # 1 => s[i - 1].step \in {"init", "first"} /\ s[i - 1].gen = s[i].gen

TameList(l) == \A i \in 1 .. Len(l) :
  /\ l[i] = "first" => i = 1
  /\ l[i] = "over" => i = 1 \/ (i = 2 /\ l[1] \in {"force", "resume"})
  /\ l[i] = "force" => i = 1 /\ Len(l) >= 2 /\ l[2] = "over"
  /\ l[i] = "inject" => i + 1 <= Len(l) /\ l[i + 1] = "resume" /\ (i # 1 => l[i - 1] \in {"init", "first"})

LEMMA ListsAreTame == ASSUME NEW l \in Lists PROVE TameList(l)
<1> USE DEF TameList
<1>1. TameList(<<"init">>)
  OBVIOUS
<1>2. TameList(<<"init", "resume">>)
  OBVIOUS
<1>3. TameList(<<"init", "check">>)
  OBVIOUS
<1>4. TameList(<<"closed", "init", "check">>)
  OBVIOUS
<1>5. TameList(<<"prime", "resume">>)
  OBVIOUS
<1>6. TameList(<<"init", "inject", "resume">>)
  OBVIOUS
<1>7. TameList(<<"init", "each">>)
  OBVIOUS
<1>8. TameList(<<"closed", "init", "check", "bubble", "init", "bubble", "turn">>)
  OBVIOUS
<1>9. TameList(<<"init", "resume", "bubble", "init", "bubble", "turn">>)
  OBVIOUS
<1>10. TameList(<<"release">>)
  OBVIOUS
<1>11. TameList(<<"release", "bubble">>)
  OBVIOUS
<1>12. TameList(<<"force", "over">>)
  OBVIOUS
<1>13. TameList(<<"first">>)
  OBVIOUS
<1>14. TameList(<<"resume", "each">>)
  OBVIOUS
<1>15. TameList(<<"resume">>)
  OBVIOUS
<1>16. TameList(<<"over">>)
  OBVIOUS
<1> HIDE DEF TameList
<1> QED
  BY <1>1, <1>2, <1>3, <1>4, <1>5, <1>6, <1>7, <1>8, <1>9, <1>10, <1>11, <1>12, <1>13, <1>14, <1>15, <1>16, Zenon DEF Lists, CallLists

LEMMA TameDo ==
  ASSUME NEW n \in Nat, n <= MaxGens, NEW g \in 1 .. n, NEW l \in Lists
  PROVE  Tame(Do(l, g))
<1> DEFINE d == Do(l, g)
<1>1. Len(d) = Len(l) /\ Len(l) \in Nat /\ \A i \in 1 .. Len(l) : d[i] = [step |-> l[i], gen |-> g]
  BY DoIs, ListsAreSteps
<1>2. TameList(l)
  BY ListsAreTame
<1> HIDE DEF d
<1>3. ASSUME NEW i \in 1 .. Len(l) PROVE d[i].step = l[i] /\ d[i].gen = g
  <2>1. d[i] = [step |-> l[i], gen |-> g]
    BY <1>1
  <2> QED
    BY <2>1
<1>4. ASSUME NEW i \in 1 .. Len(d)
      PROVE  /\ d[i].step = "first" => i = 1
             /\ d[i].step = "over" => i = 1 \/ (i = 2 /\ d[1].step \in {"force", "resume"} /\ d[1].gen = d[i].gen)
             /\ d[i].step = "force" => i = 1 /\ Len(d) >= 2 /\ d[2].step = "over"
  <2>1. 1 \in 1 .. Len(l) /\ (Len(l) >= 2 => 2 \in 1 .. Len(l))
    BY <1>1, <1>4
  <2> QED
    BY <1>1, <1>2, <1>3, <1>4, <2>1 DEF TameList
<1>5. ASSUME NEW i \in 1 .. Len(d), d[i].step = "inject"
      PROVE  /\ i + 1 <= Len(d) /\ d[i + 1].step = "resume" /\ d[i + 1].gen = d[i].gen
             /\ i # 1 => d[i - 1].step \in {"init", "first"} /\ d[i - 1].gen = d[i].gen
  <2>1. i + 1 <= Len(l) /\ l[i + 1] = "resume" /\ (i # 1 => l[i - 1] \in {"init", "first"})
    BY <1>1, <1>2, <1>3, <1>5 DEF TameList
  <2>2. i \in 1 .. Len(l) /\ i + 1 \in 1 .. Len(l) /\ (i # 1 => i - 1 \in 1 .. Len(l))
    BY <1>1, <1>5, <2>1
  <2> QED
    BY <1>1, <1>3, <2>1, <2>2
<1>6. Tame(d)
  BY <1>4, <1>5 DEF Tame
<1> QED
  BY <1>6 DEF d

LEMMA TameTail ==
  ASSUME NEW S, NEW s \in Seq(S), s # <<>>, Tame(s)
  PROVE  Tame(Tail(s))
<1> DEFINE t == Tail(s)
<1>1. Len(s) \in Nat \ {0} /\ Len(t) = Len(s) - 1 /\ \A i \in 1 .. Len(s) - 1 : t[i] = s[i + 1]
  BY SeqParts
<1> HIDE DEF t
<1>2. ASSUME NEW i \in 1 .. Len(t)
      PROVE  /\ t[i].step = "first" => i = 1
             /\ t[i].step = "over" => i = 1 \/ (i = 2 /\ t[1].step \in {"force", "resume"} /\ t[1].gen = t[i].gen)
             /\ t[i].step = "force" => i = 1 /\ Len(t) >= 2 /\ t[2].step = "over"
  <2>1. i + 1 \in 1 .. Len(s) /\ t[i] = s[i + 1] /\ i + 1 # 1
    BY <1>1, <1>2
  <2> QED
    BY <2>1 DEF Tame
<1>3. ASSUME NEW i \in 1 .. Len(t), t[i].step = "inject"
      PROVE  /\ i + 1 <= Len(t) /\ t[i + 1].step = "resume" /\ t[i + 1].gen = t[i].gen
             /\ i # 1 => t[i - 1].step \in {"init", "first"} /\ t[i - 1].gen = t[i].gen
  <2> DEFINE j == i + 1
  <2>1. j \in 1 .. Len(s) /\ t[i] = s[j] /\ j # 1 /\ j - 1 = i
    BY <1>1, <1>3
  <2>2. /\ j + 1 <= Len(s) /\ s[j + 1].step = "resume" /\ s[j + 1].gen = s[j].gen
        /\ s[j - 1].step \in {"init", "first"} /\ s[j - 1].gen = s[j].gen
    BY <1>3, <2>1 DEF Tame
  <2>3. i + 1 <= Len(t) /\ t[i + 1] = s[j + 1]
    BY <1>1, <2>1, <2>2
  <2>4. i # 1 => t[i - 1] = s[j - 1]
    BY <1>1, <2>1
  <2> QED
    BY <2>1, <2>2, <2>3, <2>4
<1>4. Tame(t)
  BY <1>2, <1>3 DEF Tame
<1> QED
  BY <1>4 DEF t

\* The first step of a host function, replaced by others.
Replaced(t, s, l, g) ==
  /\ t # <<>> /\ Len(t) = Len(l) + Len(s) - 1
  /\ \A i \in 1 .. Len(l) : t[i].step = l[i] /\ t[i].gen = g
  /\ \A i \in 2 .. Len(s) : t[Len(l) + i - 1] = s[i]

LEMMA HeadReplaced ==
  ASSUME NEW n \in Nat, n <= MaxGens, NEW s \in Seq(OpOf(n)), s # <<>>, NEW g \in 1 .. n, NEW l \in Lists
  PROVE  Do(l, g) \o Tail(s) \in Seq(OpOf(n)) /\ Replaced(Do(l, g) \o Tail(s), s, l, g)
<1> DEFINE rest == Tail(s)
           t == Do(l, g) \o rest
<1>1. /\ Len(s) \in Nat \ {0} /\ rest \in Seq(OpOf(n)) /\ Len(rest) = Len(s) - 1
      /\ \A i \in 1 .. Len(s) - 1 : rest[i] = s[i + 1]
  BY SeqParts
<1> HIDE DEF rest
<1>0. rest \in Seq(OpOf(n))
  BY <1>1
<1>2. /\ t \in Seq(OpOf(n)) /\ Len(t) = Len(l) + Len(rest) /\ Len(l) \in Nat /\ Len(l) # 0
      /\ \A i \in 1 .. Len(l) : t[i] = [step |-> l[i], gen |-> g]
      /\ \A i \in Len(l) + 1 .. Len(l) + Len(rest) : t[i] = rest[i - Len(l)]
  BY <1>0, DoThen
<1> HIDE DEF t
<1>3. ASSUME NEW i \in 1 .. Len(l) PROVE t[i].step = l[i] /\ t[i].gen = g
  <2>1. t[i] = [step |-> l[i], gen |-> g]
    BY <1>2
  <2> QED
    BY <2>1
<1>4. ASSUME NEW i \in 2 .. Len(s) PROVE t[Len(l) + i - 1] = s[i]
  <2>1. Len(l) + i - 1 \in Len(l) + 1 .. Len(l) + Len(rest) /\ (Len(l) + i - 1) - Len(l) = i - 1
        /\ i - 1 \in 1 .. Len(s) - 1 /\ (i - 1) + 1 = i
    BY <1>1, <1>2
  <2> QED
    BY <1>1, <1>2, <2>1
<1>5. Len(t) = Len(l) + Len(s) - 1 /\ t # <<>>
  BY <1>1, <1>2, EmptySeq
<1>6. Replaced(t, s, l, g)
  BY <1>3, <1>4, <1>5 DEF Replaced
<1> QED
  BY <1>2, <1>6 DEF t, rest

LEMMA ReplacedByOne ==
  ASSUME NEW s, NEW t, NEW g, NEW l \in {<<"first">>, <<"resume">>}, Len(s) \in Nat, Replaced(t, s, l, g)
  PROVE  /\ t # <<>> /\ Len(t) = Len(s) /\ t[1].step = l[1] /\ t[1].gen = g
         /\ \A i \in 2 .. Len(s) : t[i] = s[i]
<1>1. Len(l) = 1
  OBVIOUS
<1> QED
  BY <1>1 DEF Replaced

LEMMA ReplacedByTwo ==
  ASSUME NEW s, NEW t, NEW g, Len(s) \in Nat, Replaced(t, s, <<"force", "over">>, g)
  PROVE  /\ t # <<>> /\ Len(t) = Len(s) + 1 /\ t[1].step = "force" /\ t[1].gen = g /\ t[2].step = "over" /\ t[2].gen = g
         /\ \A i \in 3 .. Len(s) + 1 : t[i] = s[i - 1]
<1> DEFINE l == <<"force", "over">>
<1>1. Len(l) = 2 /\ l[1] = "force" /\ l[2] = "over"
  OBVIOUS
<1> HIDE DEF l
<1>2. Replaced(t, s, l, g)
  BY DEF l
<1>3. t # <<>> /\ Len(t) = Len(s) + 1 /\ \A i \in 1 .. 2 : t[i].step = l[i] /\ t[i].gen = g
  BY <1>1, <1>2 DEF Replaced
<1>4. ASSUME NEW i \in 3 .. Len(s) + 1 PROVE t[i] = s[i - 1]
  <2>1. i - 1 \in 2 .. Len(s) /\ 2 + (i - 1) - 1 = i
    BY <1>4
  <2> QED
    BY <1>1, <1>2, <2>1 DEF Replaced
<1> QED
  BY <1>1, <1>3, <1>4

LEMMA TameReplaced ==
  ASSUME NEW n \in Nat, n <= MaxGens, NEW s \in Seq(OpOf(n)), s # <<>>, Tame(s), NEW g \in 1 .. n, g = s[1].gen
  PROVE  /\ s[1].step = "init" => Tame(Do(<<"first">>, g) \o Tail(s))
         /\ s[1].step = "force" => Tame(Do(<<"resume">>, g) \o Tail(s))
         /\ s[1].step = "release" => Tame(Do(<<"force", "over">>, g) \o Tail(s))
<1>0. Len(s) \in Nat \ {0}
  BY SeqParts
<1>1. ASSUME NEW l \in {<<"first">>, <<"resume">>},
             (s[1].step = "init" /\ l[1] = "first") \/ (s[1].step = "force" /\ l[1] = "resume")
      PROVE  Tame(Do(l, g) \o Tail(s))
  <2> DEFINE t == Do(l, g) \o Tail(s)
  <2>1. /\ Len(t) = Len(s) /\ t[1].step = l[1] /\ t[1].gen = s[1].gen
        /\ \A i \in 2 .. Len(s) : t[i] = s[i]
    <3>1. l \in Lists
      BY <1>1, LoopLists
    <3>2. Replaced(t, s, l, g)
      BY <3>1, HeadReplaced
    <3> HIDE DEF t
    <3> QED
      BY <1>0, <1>1, <3>2, ReplacedByOne
  <2> HIDE DEF t
  <2>2. ASSUME NEW i \in 1 .. Len(t)
        PROVE  /\ t[i].step = "first" => i = 1
               /\ t[i].step = "over" => i = 1 \/ (i = 2 /\ t[1].step \in {"force", "resume"} /\ t[1].gen = t[i].gen)
               /\ t[i].step = "force" => i = 1 /\ Len(t) >= 2 /\ t[2].step = "over"
    <3>1. CASE i = 1
      BY <1>1, <2>1, <3>1
    <3>2. CASE i # 1
      <4>1. i \in 1 .. Len(s) /\ t[i] = s[i]
        BY <1>0, <2>1, <2>2, <3>2
      <4> QED
        BY <1>1, <2>1, <3>2, <4>1 DEF Tame
    <3> QED
      BY <3>1, <3>2
  <2>3. ASSUME NEW i \in 1 .. Len(t), t[i].step = "inject"
        PROVE  /\ i + 1 <= Len(t) /\ t[i + 1].step = "resume" /\ t[i + 1].gen = t[i].gen
               /\ i # 1 => t[i - 1].step \in {"init", "first"} /\ t[i - 1].gen = t[i].gen
    <3>1. i # 1
      BY <1>1, <2>1, <2>3
    <3>2. i \in 2 .. Len(s) /\ t[i] = s[i] /\ i \in 1 .. Len(s)
      BY <1>0, <2>1, <2>3, <3>1
    <3>3. /\ i + 1 <= Len(s) /\ s[i + 1].step = "resume" /\ s[i + 1].gen = s[i].gen
          /\ s[i - 1].step \in {"init", "first"} /\ s[i - 1].gen = s[i].gen
      BY <2>3, <3>1, <3>2 DEF Tame
    <3>4. i + 1 \in 2 .. Len(s) /\ t[i + 1] = s[i + 1]
      BY <1>0, <2>1, <3>2, <3>3
    <3>5. CASE i = 2
      <4>1. s[1].step = "init" /\ s[1].gen = s[2].gen
        BY <1>1, <3>3, <3>5
      <4> QED
        BY <1>1, <2>1, <3>2, <3>3, <3>4, <3>5, <4>1
    <3>6. CASE i # 2
      <4>1. t[i - 1] = s[i - 1]
        BY <1>0, <2>1, <3>2, <3>6
      <4> QED
        BY <2>1, <3>2, <3>3, <3>4, <4>1
    <3> QED
      BY <3>5, <3>6
  <2>4. Tame(t)
    BY <2>2, <2>3 DEF Tame
  <2> QED
    BY <2>4 DEF t
<1>2. ASSUME s[1].step = "release" PROVE Tame(Do(<<"force", "over">>, g) \o Tail(s))
  <2> DEFINE t == Do(<<"force", "over">>, g) \o Tail(s)
  <2>1. /\ Len(t) = Len(s) + 1 /\ t[1].step = "force" /\ t[2].step = "over"
        /\ t[1].gen = s[1].gen /\ t[2].gen = s[1].gen
        /\ \A i \in 3 .. Len(s) + 1 : t[i] = s[i - 1]
    <3>1. Replaced(t, s, <<"force", "over">>, g)
      BY LoopLists, HeadReplaced
    <3> HIDE DEF t
    <3> QED
      BY <1>0, <3>1, ReplacedByTwo
  <2> HIDE DEF t
  <2>2. ASSUME NEW i \in 3 .. Len(t)
        PROVE  i - 1 \in 1 .. Len(s) /\ t[i] = s[i - 1] /\ s[i - 1].step \notin {"first", "over", "force"}
    <3>1. i - 1 \in 2 .. Len(s) /\ t[i] = s[i - 1] /\ i - 1 \in 1 .. Len(s) /\ i - 1 # 1
      BY <1>0, <2>1, <2>2
    <3> QED
      BY <1>2, <3>1 DEF Tame
  <2>3. ASSUME NEW i \in 1 .. Len(t)
        PROVE  /\ t[i].step = "first" => i = 1
               /\ t[i].step = "over" => i = 1 \/ (i = 2 /\ t[1].step \in {"force", "resume"} /\ t[1].gen = t[i].gen)
               /\ t[i].step = "force" => i = 1 /\ Len(t) >= 2 /\ t[2].step = "over"
    <3>1. i = 1 \/ i = 2 \/ i \in 3 .. Len(t)
      BY <1>0, <2>1, <2>3
    <3> QED
      BY <1>0, <2>1, <2>2, <3>1
  <2>4. ASSUME NEW i \in 1 .. Len(t), t[i].step = "inject"
        PROVE  /\ i + 1 <= Len(t) /\ t[i + 1].step = "resume" /\ t[i + 1].gen = t[i].gen
               /\ i # 1 => t[i - 1].step \in {"init", "first"} /\ t[i - 1].gen = t[i].gen
    <3> DEFINE j == i - 1
    <3>1. i \in 3 .. Len(t)
      BY <1>0, <2>1, <2>4
    <3>2. j \in 1 .. Len(s) /\ t[i] = s[j] /\ j # 1
      BY <1>0, <2>1, <2>2, <3>1
    <3>3. /\ j + 1 <= Len(s) /\ s[j + 1].step = "resume" /\ s[j + 1].gen = s[j].gen
          /\ s[j - 1].step \in {"init", "first"} /\ s[j - 1].gen = s[j].gen
      BY <2>4, <3>2 DEF Tame
    <3>4. i + 1 <= Len(t) /\ t[i + 1] = s[j + 1]
      <4>1. i + 1 \in 3 .. Len(s) + 1 /\ (i + 1) - 1 = j + 1
        BY <1>0, <2>1, <3>1, <3>3
      <4> QED
        BY <2>1, <4>1
    <3>5. j # 2
      BY <1>2, <3>3
    <3>6. t[i - 1] = s[j - 1]
      <4>1. i - 1 \in 3 .. Len(s) + 1 /\ (i - 1) - 1 = j - 1
        BY <1>0, <2>1, <3>1, <3>2, <3>5
      <4> QED
        BY <2>1, <4>1
    <3> QED
      BY <3>2, <3>3, <3>4, <3>6
  <2>5. Tame(t)
    BY <2>3, <2>4 DEF Tame
  <2> QED
    BY <2>5 DEF t
<1> QED
  BY <1>1, <1>2

LEMMA TameEnds ==
  ASSUME NEW n \in Nat, NEW rest \in Seq(OpOf(n))
  PROVE  Tame(<<>>) /\ Tame(AfterError(rest))
<1>1. Tame(<<>>)
  BY DEF Tame
<1>2. ASSUME NEW x, x.step = "over" PROVE Tame(<< x >>)
  BY <1>2 DEF Tame
<1> QED
  BY <1>1, <1>2, AfterErrorIs

TameAll ==
  /\ Tame(ops) /\ \A k \in 1 .. Len(resumed) : Tame(resumed[k].ops)
  /\ \A g \in Made : gens[g].cont = <<>> \/ \E t \in Made : gens[g].cont = Do(<<"resume", "each">>, t)

LEMMA BeginsAre ==
  ASSUME NEW l \in Begins
  PROVE  /\ l \in Lists /\ Len(l) # 0 /\ Len(l) \in Nat /\ l[1] \in {"init", "closed", "prime", "release"}
         /\ \A i \in 1 .. Len(l) : l[i] \notin {"over", "force", "first"} /\ (l[i] = "inject" => l = ThrowSteps)
<1> DEFINE Fine(x) == /\ Len(x) # 0 /\ Len(x) \in Nat /\ x[1] \in {"init", "closed", "prime", "release"}
                      /\ \A i \in 1 .. Len(x) : x[i] \notin {"over", "force", "first"} /\ (x[i] = "inject" => x = ThrowSteps)
<1>1. Fine(<<"init">>)
  OBVIOUS
<1>2. Fine(<<"init", "resume">>)
  OBVIOUS
<1>3. Fine(<<"init", "check">>)
  OBVIOUS
<1>4. Fine(<<"closed", "init", "check">>)
  OBVIOUS
<1>5. Fine(<<"prime", "resume">>)
  OBVIOUS
<1>6. Fine(<<"init", "inject", "resume">>)
  BY DEF ThrowSteps
<1>7. Fine(<<"init", "each">>)
  OBVIOUS
<1>8. Fine(<<"closed", "init", "check", "bubble", "init", "bubble", "turn">>)
  OBVIOUS
<1>9. Fine(<<"init", "resume", "bubble", "init", "bubble", "turn">>)
  OBVIOUS
<1>10. Fine(<<"release">>)
  OBVIOUS
<1> HIDE DEF Fine
<1>11. Fine(l)
  BY <1>1, <1>2, <1>3, <1>4, <1>5, <1>6, <1>7, <1>8, <1>9, <1>10, Zenon DEF Begins, CallLists
<1>12. l \in Lists
  BY Zenon DEF Begins, Lists
<1> QED
  BY <1>11, <1>12 DEF Fine

\* Where what waits for a switch comes from.
LEMMA LeavingIs ==
  ASSUME Types, Tame(ops), NEW rest \in Rests, Leaving(rest)
  PROVE  /\ ops # <<>> /\ Head(ops) = ops[1] /\ Target = ops[1].gen /\ Target \in Made /\ Tame(rest)
         /\ \/ /\ HeadIs(ops, "init") /\ ~gens[Target].started
               /\ Replaced(rest, ops, <<"first">>, Target)
               /\ HeadIs(rest, "first") /\ rest[1].gen = Target
            \/ HeadIs(ops, "prime") /\ ~gens[Target].started /\ rest = Rest
            \/ HeadIs(ops, "resume") /\ rest = Rest
<1> DEFINE n == Len(gens)
<1>1. /\ n \in Nat /\ n <= MaxGens /\ Made = 1 .. n /\ ops # <<>> /\ Head(ops) = ops[1] /\ Target = ops[1].gen
      /\ ops \in Seq(OpOf(n)) /\ Target \in Made
  BY CurIs, OpsAre DEF Leaving, Types
<1>2. Tame(Rest)
  BY <1>1, TameTail DEF Rest
<1>3. CASE Head(ops).step = "init" /\ ~gens[Target].started /\ rest = Do(<<"first">>, Target) \o Rest
  <2>1. Tame(rest)
    BY <1>1, <1>3, TameReplaced DEF Rest
  <2>2. Replaced(rest, ops, <<"first">>, Target)
    BY <1>1, <1>3, LoopLists, HeadReplaced DEF Rest
  <2>3. rest # <<>> /\ rest[1].step = "first" /\ rest[1].gen = Target
    <3>1. Len(ops) \in Nat
      BY <1>1, LenProperties
    <3> QED
      BY <2>2, <3>1, ReplacedByOne
  <2> QED
    BY <1>1, <1>3, <2>1, <2>2, <2>3 DEF HeadIs
<1> QED
  BY <1>1, <1>2, <1>3 DEF Leaving, HeadIs

LEMMA TameOps ==
  ASSUME Types, ByBodies, TameAll, [Next]_vars
  PROVE  Tame(ops')
<1> DEFINE n == Len(gens)
<1>0. /\ n \in Nat /\ n <= MaxGens /\ MaxGens \in Nat /\ Made = 1 .. n /\ Tame(ops) /\ ops \in Seq(OpOf(n))
      /\ Tame(<<>>) /\ count \in 0 .. n /\ next \in 1 .. MaxGens + 1
  BY CurIs, TameEnds, EmptySeq DEF TameAll, Types
<1>t. ops # <<>> => Tame(Rest)
  BY <1>0, TameTail DEF Rest
<1>k. resumed # <<>> => Tame(Last(resumed).ops) /\ Last(resumed).ops \in Seq(OpOf(n))
  <2>1. ASSUME resumed # <<>> PROVE Len(resumed) \in 1 .. Len(resumed) /\ Last(resumed) \in ResumerOf(n)
    <3>1. resumed \in Seq(ResumerOf(n))
      BY DEF Types
    <3> QED
      BY <2>1, <3>1, SeqParts
  <2> QED
    BY <2>1 DEF TameAll, Last, ResumerOf
<1>1. CASE Quiet
  BY <1>0, <1>1 DEF Quiet
<1>2. CASE Asked
  BY <1>0, <1>2, BeginsAre, TameDo DEF Asked
<1>3. CASE Return
  <2>1. ops' \in Seq(ReturnOps)
    BY <1>3, ReturnIs
  <2>2. \A i \in 1 .. Len(ops') : ops'[i].step \notin {"first", "over", "force", "inject"}
    BY <2>1, SeqParts DEF ReturnOps
  <2> QED
    BY <2>2 DEF Tame
<1>4. CASE LoopOver
  <2> DEFINE l == <<"closed", "init", "check", "bubble", "init", "bubble", "turn">>
  <2>1. ops' = Do(l, n + 1) /\ n < MaxGens /\ l \in Lists
    BY <1>4, LoopLists DEF LoopOver
  <2>2. n + 1 \in Nat /\ n + 1 <= MaxGens /\ n + 1 \in 1 .. n + 1
    BY <1>0, <2>1
  <2> HIDE DEF l
  <2> QED
    BY <2>1, <2>2, TameDo
<1>5. CASE Here
  <2>1. ops # <<>> /\ Head(ops) = ops[1] /\ Target = ops[1].gen /\ (Head(ops).step # "return" => Target \in 1 .. n)
    BY <1>0, <1>5, OpsAre DEF Here
  <2>2. CASE \E steps : Dropped(steps) \/ Stopped(steps)
    BY <1>0, <1>t, <2>1, <2>2 DEF Dropped, Stopped
  <2>3. CASE Returned \/ Flagged \/ Loaded \/ Closed
    BY <1>t, <2>1, <2>3 DEF Returned, Flagged, Loaded, Closed, Update
  <2>4. CASE Doomed
    BY <1>0, <2>1, <2>4, TameReplaced DEF Doomed, Rest
  <2>5. CASE Freed
    BY <1>0, <2>1, <2>5, TameReplaced DEF Freed, Rest
  <2> QED
    BY <1>5, <2>2, <2>3, <2>4, <2>5 DEF Here
<1>6. CASE Turn
  BY <1>t, <1>6 DEF Turn, Step
<1>7. CASE ShutdownNext
  <2>1. next \in 1 .. n /\ ops' = Do(<<"force", "over">>, next)
    BY <1>0, <1>7 DEF ShutdownNext
  <2> QED
    BY <1>0, <2>1, LoopLists, TameDo
<1>8. CASE Passed
  BY <1>0, <1>8, LeavingIs DEF Passed
<1>9. CASE Blocked
  BY <1>0, <1>9, TameEnds DEF Blocked, Rests
<1>10. CASE Into
  <2>1. PICK rest \in Rests : Leaving(rest) /\ Switched(Target, rest)
    BY <1>10 DEF Into
  <2>2. Target \in Made /\ (ops' = <<>> \/ ops' = gens[Target].cont)
    BY <2>1 DEF Leaving, Switched
  <2>3. CASE ops' = <<>>
    BY <1>0, <2>3
  <2>4. CASE ops' # <<>> /\ ops' = gens[Target].cont
    <3>1. PICK t \in Made : ops' = Do(<<"resume", "each">>, t)
      BY <2>2, <2>4 DEF TameAll
    <3> QED
      BY <1>0, <3>1, LoopLists, TameDo
  <2> QED
    BY <2>2, <2>3, <2>4
<1>11. CASE Back
  <2>1. resumed # <<>> /\ ops' = Last(resumed).ops
    BY <1>11, SuspendTypes DEF Back, Rests
  <2> QED
    BY <1>k, <2>1
<1>12. CASE BodyEnds
  <2>1. resumed # <<>> /\ (ops' = Last(resumed).ops \/ ops' = AfterError(Last(resumed).ops))
    BY <1>12, BodyEndsTypes
  <2> QED
    BY <1>0, <1>k, <2>1, TameEnds
<1> QED
  BY <1>1, <1>2, <1>3, <1>4, <1>5, <1>6, <1>7, <1>8, <1>9, <1>10, <1>11, <1>12, NextIs

LEMMA TameStep ==
  ASSUME Types, ByBodies, Chain, TameAll, [Next]_vars
  PROVE  TameAll'
<1> DEFINE Cont(c) == c = <<>> \/ \E t \in Made : c = Do(<<"resume", "each">>, t)
<1>0. \A g \in Made : Cont(gens[g].cont)
  BY DEF TameAll
<1>1. ASSUME Made \subseteq Made', \A g \in Made' : Cont(gens'[g].cont),
             \A k \in 1 .. Len(resumed') : Tame(resumed'[k].ops)
      PROVE  TameAll'
  <2>1. \A g \in Made' : gens'[g].cont = <<>> \/ \E t \in Made' : gens'[g].cont = Do(<<"resume", "each">>, t)
    BY <1>1
  <2> QED
    BY <1>1, <2>1, TameOps DEF TameAll
<1>2. CASE Still
  <2>1. \A k \in 1 .. Len(resumed') : Tame(resumed'[k].ops)
    BY <1>2 DEF Still, TameAll
  <2>2. CASE gens' = gens
    BY <1>0, <1>1, <2>1, <2>2 DEF Made
  <2>3. ASSUME Len(gens) < MaxGens, NEW h \in BOOLEAN, Make(h) PROVE TameAll'
    <3>1. Made \subseteq Made' /\ \A g \in Made' : g \in Made \/ gens'[g].cont = <<>>
      BY <2>3, MakeIs
    <3>2. \A g \in Made' : Cont(gens'[g].cont)
      BY <1>0, <2>3, <3>1, MakeIs
    <3> QED
      BY <1>1, <2>1, <3>1, <3>2
  <2>4. ASSUME NEW cell, Marked(cell) PROVE TameAll'
    <3>1. Target \in Made /\ gens' = [gens EXCEPT ![Target] = cell] /\ cell.cont = gens[Target].cont
      BY <2>4 DEF Marked
    <3>2. Made' = Made /\ \A g \in Made : gens'[g].cont = gens[g].cont
      BY <3>1, CellWritten
    <3> QED
      BY <1>0, <1>1, <2>1, <3>2
  <2> QED
    BY <1>2, <2>2, <2>3, <2>4 DEF Still
<1>3. CASE Into
  <2>1. PICK rest \in Rests : Leaving(rest) /\ Switched(Target, rest)
    BY <1>3 DEF Into
  <2>2. Target \in Made /\ Tame(rest)
    BY <2>1, LeavingIs DEF TameAll
  <2> DEFINE g == Target
             r == [gen |-> g, ops |-> rest, saved |-> ctx]
  <2>3. /\ Len(resumed) \in Nat /\ Len(resumed') = Len(resumed) + 1
        /\ resumed'[Len(resumed) + 1] = r /\ r.ops = rest
        /\ \A k \in 1 .. Len(resumed) : resumed'[k] = resumed[k]
    BY <2>1, <2>2, AfterInto DEF Rests
  <2> HIDE DEF r
  <2>4. ASSUME NEW k \in 1 .. Len(resumed') PROVE Tame(resumed'[k].ops)
    <3>1. k = Len(resumed) + 1 \/ k \in 1 .. Len(resumed)
      BY <2>3
    <3> QED
      BY <2>2, <2>3, <3>1 DEF TameAll
  <2>5. gens' = [gens EXCEPT ![g] = Woken(g)] /\ Woken(g).cont = <<>>
    BY <2>1, <2>2, WokenIs DEF Switched
  <2>6. Made' = Made /\ \A h \in Made : gens'[h].cont = <<>> \/ gens'[h].cont = gens[h].cont
    BY <2>2, <2>5, CellWritten
  <2> QED
    BY <1>0, <1>1, <2>4, <2>6
<1>4. ASSUME resumed # <<>>, resumed' = Front(resumed), NEW cell, gens' = [gens EXCEPT ![Cur] = cell], Cont(cell.cont)
      PROVE  TameAll'
  <2>1. /\ Len(resumed) \in Nat \ {0} /\ Len(resumed') = Len(resumed) - 1
        /\ \A k \in 1 .. Len(resumed) - 1 : resumed'[k] = resumed[k]
    BY <1>4, AfterBack
  <2>2. ASSUME NEW k \in 1 .. Len(resumed') PROVE Tame(resumed'[k].ops)
    <3>1. k \in 1 .. Len(resumed) - 1 /\ k \in 1 .. Len(resumed)
      BY <2>1
    <3> QED
      BY <2>1, <3>1 DEF TameAll
  <2>3. Made' = Made /\ \A h \in Made : gens'[h] = cell \/ gens'[h].cont = gens[h].cont
    BY <1>4, CurIs, CellWritten
  <2> QED
    BY <1>0, <1>1, <1>4, <2>2, <2>3
<1>5. CASE Back
  <2>1. PICK rest \in Rests :
          /\ resumed # <<>> /\ Suspend(rest)
          /\ rest = <<>> \/ (Target \in Made /\ rest = Do(<<"resume", "each">>, Target))
    BY <1>5 DEF Back
  <2>2. resumed' = Front(resumed) /\ gens' = [gens EXCEPT ![Cur] = Slept(rest)] /\ Slept(rest).cont = rest
    BY <2>1, SuspendTypes, SleptIs DEF Rests
  <2>3. Cont(rest)
    BY <2>1
  <2> QED
    BY <1>4, <2>1, <2>2, <2>3
<1>6. CASE BodyEnds
  <2>1. /\ resumed # <<>> /\ resumed' = Front(resumed) /\ gens' = [gens EXCEPT ![Cur] = Finished]
        /\ Finished.cont = gens[Cur].cont /\ Cur \in Made
    BY <1>6, BodyEndsTypes, FinishedIs, CurIs
  <2> QED
    BY <1>0, <1>4, <2>1
<1> QED
  BY <1>2, <1>3, <1>5, <1>6, Moves

LEMMA TameInit == Init => TameAll
<1> SUFFICES ASSUME Init PROVE TameAll
  OBVIOUS
<1>1. ops = <<>> /\ resumed = <<>> /\ gens = <<>> /\ Len(resumed) = 0 /\ Made = {}
  BY DEF Init, Made
<1> QED
  BY <1>1 DEF TameAll, Tame

\* What can come first once the first step is done.
LEMMA RestIs ==
  ASSUME Types, Tame(ops), ops # <<>>
  PROVE  /\ HeadIs(Rest, "inject") => ops[1].step \in {"init", "first"} /\ Rest[1].gen = Target
         /\ HeadIs(Rest, "over") => ops[1].step \in {"force", "resume"} /\ Rest[1].gen = Target
         /\ ~HeadIs(Rest, "first") /\ ~HeadIs(Rest, "force")
         /\ Len(Rest) >= 2 => Rest[2].step # "over"
         /\ ops[1].step = "inject" => HeadIs(Rest, "resume") /\ Rest[1].gen = Target
         /\ ops[1].step = "force" => HeadIs(Rest, "over") /\ Rest[1].gen = Target
         /\ Rest # <<>> => Len(Rest) \in Nat \ {0} /\ 2 \in 1 .. Len(ops)
         /\ Head(ops) = ops[1] /\ Target = ops[1].gen
<1>1. /\ Head(ops) = ops[1] /\ Target = ops[1].gen /\ Rest \in Seq(OpOf(Len(gens))) /\ Len(Rest) = Len(ops) - 1
      /\ Len(ops) \in Nat \ {0} /\ \A i \in 1 .. Len(ops) - 1 : Rest[i] = ops[i + 1]
  BY OpsAre
<1>2. Rest # <<>> <=> Len(ops) >= 2
  BY <1>1, EmptySeq
<1>3. Len(ops) >= 2 => Rest[1] = ops[2] /\ 2 \in 1 .. Len(ops) /\ 1 \in 1 .. Len(ops) /\ Len(Rest) \in Nat \ {0}
  BY <1>1
<1>4. ASSUME HeadIs(Rest, "inject") PROVE ops[1].step \in {"init", "first"} /\ Rest[1].gen = Target
  <2>1. ops[2].step = "inject" /\ 2 \in 1 .. Len(ops) /\ 2 - 1 = 1
    BY <1>2, <1>3, <1>4 DEF HeadIs
  <2> QED
    BY <1>1, <1>2, <1>3, <1>4, <2>1 DEF Tame, HeadIs
<1>5. ASSUME HeadIs(Rest, "over") PROVE ops[1].step \in {"force", "resume"} /\ Rest[1].gen = Target
  BY <1>1, <1>2, <1>3, <1>5 DEF Tame, HeadIs
<1>6. ~HeadIs(Rest, "first") /\ ~HeadIs(Rest, "force")
  BY <1>1, <1>2, <1>3 DEF Tame, HeadIs
<1>7. ASSUME Len(Rest) >= 2 PROVE Rest[2].step # "over"
  <2>1. Rest[2] = ops[3] /\ 3 \in 1 .. Len(ops)
    BY <1>1, <1>7
  <2> QED
    BY <2>1 DEF Tame
<1>8. ASSUME ops[1].step = "inject" PROVE HeadIs(Rest, "resume") /\ Rest[1].gen = Target
  <2>1. 1 \in 1 .. Len(ops) /\ 1 + 1 = 2
    BY <1>1
  <2>2. Len(ops) >= 2 /\ ops[2].step = "resume" /\ ops[2].gen = ops[1].gen
    BY <1>1, <1>8, <2>1 DEF Tame
  <2> QED
    BY <1>1, <1>2, <1>3, <2>2 DEF HeadIs
<1>9. ASSUME ops[1].step = "force" PROVE HeadIs(Rest, "over") /\ Rest[1].gen = Target
  <2>1. 1 \in 1 .. Len(ops)
    BY <1>1
  <2>2. Len(ops) >= 2 /\ ops[2].step = "over"
    BY <1>9, <2>1 DEF Tame
  <2>3. ops[2].gen = ops[1].gen
    BY <1>1, <1>3, <2>2 DEF Tame
  <2> QED
    BY <1>1, <1>2, <1>3, <2>2, <2>3 DEF HeadIs
<1> QED
  BY <1>1, <1>2, <1>3, <1>4, <1>5, <1>6, <1>7, <1>8, <1>9

\* The head of what a host function begins with.
LEMMA DoHead ==
  ASSUME NEW n \in Nat, n <= MaxGens, NEW g \in 1 .. n, NEW l \in Lists
  PROVE  Do(l, g) # <<>> /\ Do(l, g)[1].step = l[1] /\ Do(l, g)[1].gen = g
<1>1. Len(Do(l, g)) = Len(l) /\ Len(l) \in Nat /\ Len(l) # 0 /\ Do(l, g) \in Seq(OpOf(n))
  BY DoIs, ListsAreSteps
<1>2. 1 \in 1 .. Len(l)
  BY <1>1
<1>3. Do(l, g)[1] = [step |-> l[1], gen |-> g]
  BY <1>2, DoIs
<1>4. Do(l, g) # <<>>
  <2> DEFINE d == Do(l, g)
  <2>1. d \in Seq(OpOf(n)) /\ Len(d) # 0
    BY <1>1
  <2> HIDE DEF d
  <2>2. d # <<>>
    BY <2>1, EmptySeq
  <2> QED
    BY <2>2 DEF d
<1> QED
  BY <1>3, <1>4

LEMMA AfterErrorHead ==
  ASSUME NEW n \in Nat, NEW rest \in Seq(OpOf(n)), NEW step, HeadIs(AfterError(rest), step)
  PROVE  step = "over" /\ HeadIs(rest, "over") /\ AfterError(rest) = << rest[1] >>
BY AfterErrorIs DEF HeadIs

\* What host functions find first when code has just called them.
LEMMA CalledHeads ==
  ASSUME Types, Asked \/ Return \/ LoopOver \/ ShutdownNext, NEW step, HeadIs(ops', step)
  PROVE  /\ step \in {"init", "closed", "prime", "release", "return", "bubble", "force"}
         /\ step = "force" => ShutdownNext
<1> DEFINE n == Len(gens)
<1>0. /\ n \in Nat /\ n <= MaxGens /\ MaxGens \in Nat /\ Made = 1 .. n /\ count \in 0 .. n /\ next \in 1 .. MaxGens + 1
  BY CurIs DEF Types
<1>1. CASE Asked
  <2>1. PICK l \in Begins, g \in Made : ops' = Do(l, g)
    BY <1>1 DEF Asked
  <2>2. ops'[1].step = l[1] /\ l[1] \in {"init", "closed", "prime", "release"}
    BY <1>0, <2>1, BeginsAre, DoHead
  <2> QED
    BY <2>2 DEF HeadIs
<1>2. CASE Return
  <2>1. ops' \in Seq(ReturnOps) /\ ops' # <<>>
    BY <1>2, ReturnIs DEF HeadIs
  <2>2. ops'[1] \in ReturnOps
    BY <2>1, SeqParts
  <2> QED
    BY <2>2 DEF HeadIs, ReturnOps
<1>3. CASE LoopOver
  <2> DEFINE l == <<"closed", "init", "check", "bubble", "init", "bubble", "turn">>
  <2>1. ops' = Do(l, n + 1) /\ n < MaxGens /\ l \in Lists /\ l[1] = "closed"
    BY <1>3, LoopLists DEF LoopOver
  <2>2. n + 1 \in Nat /\ n + 1 <= MaxGens /\ n + 1 \in 1 .. n + 1
    BY <1>0, <2>1
  <2> HIDE DEF l
  <2>3. ops'[1].step = l[1]
    BY <2>1, <2>2, DoHead
  <2> QED
    BY <2>1, <2>3 DEF HeadIs
<1>4. CASE ShutdownNext
  <2> DEFINE l == <<"force", "over">>
  <2>1. next \in 1 .. n /\ ops' = Do(l, next) /\ l \in Lists /\ l[1] = "force"
    BY <1>0, <1>4, LoopLists DEF ShutdownNext
  <2> HIDE DEF l
  <2>2. ops'[1].step = l[1]
    BY <1>0, <2>1, DoHead
  <2> QED
    BY <1>4, <2>1, <2>2 DEF HeadIs
<1> QED
  BY <1>1, <1>2, <1>3, <1>4

-----------------------------------------------------------------------------
(* Starts: what has begun.                                                 *)

Begin(g) ==
  /\ ~gens[g].started =>
       /\ ~Active(g) /\ regions[g] = <<>> /\ gens[g].cont = <<>> /\ gens[g].inject = "none" /\ gens[g].yields = 0
       /\ gens[g].first => gens[g].done
  /\ Active(g) => ~gens[g].first /\ gens[g].cont = <<>>
  /\ gens[g].first => gens[g].yields <= 1

Starts ==
  /\ \A g \in Ids \ Made : regions[g] = <<>>
  /\ \A g \in Made : Begin(g)
  /\ HeadIs(ops, "inject") => gens[ops[1].gen].started \/ gens[ops[1].gen].done
  /\ HeadIs(ops, "first") =>
       /\ ~Active(ops[1].gen) /\ gens[ops[1].gen].yields <= 1
       /\ gens[ops[1].gen].started \/ gens[ops[1].gen].done
  /\ \A k \in 1 .. Len(resumed) :
       /\ ~HeadIs(resumed[k].ops, "inject")
       /\ HeadIs(resumed[k].ops, "first") =>
            resumed[k].ops[1].gen = resumed[k].gen /\ gens[resumed[k].gen].yields = 0

LEMMA OwnRegions ==
  ASSUME Types, ByBodies, [Next]_vars
  PROVE  \A c \in Codes : c # Cur => regions'[c] = regions[c]
<1>0. regions \in [Codes -> Seq(RegionOf(Len(gens)))]
  BY DEF Types
<1>1. CASE UNCHANGED regions
  BY <1>1
<1>2. CASE \E rs : regions' = [regions EXCEPT ![Cur] = rs]
  BY <1>0, <1>2
<1>3. Trimmed \/ Leave => \E rs : regions' = [regions EXCEPT ![Cur] = rs]
  BY DEF Trimmed, Leave
<1>4. LoopOver => \E rs : regions' = [regions EXCEPT ![Cur] = rs]
  BY DEF LoopOver, Enter
<1>5. CASE Quiet \/ Asked \/ Return \/ Here \/ Turn \/ ShutdownNext
  BY <1>1, <1>2, <1>3, <1>5 DEF Quiet, Asked, Return, Here, Turn, ShutdownNext
<1>6. CASE Passed \/ Blocked \/ Into \/ Back \/ BodyEnds
  BY <1>1, <1>6 DEF Passed, Blocked, Into, Back, BodyEnds
<1> QED
  BY <1>2, <1>4, <1>5, <1>6, NextIs

\* Which codes run or wait: all but those that are not made.
LEMMA CurActive ==
  ASSUME Types
  PROVE  /\ Cur = Main \/ Active(Cur)
         /\ \A g \in Made : ~Active(g) => g # Cur
         /\ \A g \in Ids \ Made : g # Cur
<1>1. ASSUME resumed # <<>> PROVE Active(Cur)
  <2>1. Len(resumed) \in 1 .. Len(resumed) /\ Cur = resumed[Len(resumed)].gen
    <3>1. resumed \in Seq(ResumerOf(Len(gens)))
      BY DEF Types
    <3> QED
      BY <1>1, <3>1, SeqParts, CurIs DEF Last
  <2> QED
    BY <2>1 DEF Active
<1>2. resumed = <<>> => Cur = Main
  BY CurIs
<1> QED
  BY <1>1, <1>2, CurIs

LEMMA BeginKept ==
  ASSUME Types, ByBodies, [Next]_vars, NEW g \in Made, Begin(g),
         gens'[g].started = gens[g].started, gens'[g].cont = gens[g].cont, gens'[g].inject = gens[g].inject,
         gens'[g].yields = gens[g].yields, gens'[g].first = gens[g].first, gens[g].done => gens'[g].done,
         Active(g)' => Active(g)
  PROVE  Begin(g)'
<1>1. gens[g].started \/ regions'[g] = regions[g]
  BY OwnRegions, CurActive, CurIs DEF Begin
<1> QED
  BY <1>1 DEF Begin

LEMMA StartsCells ==
  ASSUME Types, ByBodies, Chain, TameAll, Starts, [Next]_vars
  PROVE  \A g \in Made' : Begin(g)'
<1>0. Tame(ops) /\ Made \subseteq Codes /\ Made \subseteq Ids
  BY CurIs DEF TameAll
<1>1. ASSUME gens' = gens, resumed' = resumed PROVE \A g \in Made' : Begin(g)'
  <2>1. ASSUME NEW g \in Made' PROVE Begin(g)'
    <3>1. g \in Made /\ Begin(g) /\ (Active(g)' => Active(g))
      BY <1>1, <2>1 DEF Starts, Made, Active
    <3> QED
      BY <1>1, <3>1, BeginKept
  <2> QED
    BY <2>1
<1>2. ASSUME NEW h \in BOOLEAN, Len(gens) < MaxGens, Make(h), resumed' = resumed
      PROVE  \A g \in Made' : Begin(g)'
  <2>1. ASSUME NEW g \in Made PROVE Begin(g)'
    <3>1. Begin(g) /\ (Active(g)' => Active(g)) /\ gens'[g] = gens[g]
      BY <1>2, <2>1, MakeIs DEF Starts, Active
    <3> QED
      BY <3>1, BeginKept
  <2>2. ASSUME NEW g, g = Len(gens) + 1 PROVE Begin(g)'
    <3>1. g \in Ids \ Made /\ gens'[g] = NewCell(g, h)
      BY <1>2, <2>2, MakeIs
    <3>2. regions'[g] = <<>>
      <4>1. g # Cur /\ g \in Codes
        BY <3>1, CurActive DEF Codes
      <4> QED
        BY <3>1, <4>1, OwnRegions DEF Starts
    <3>3. ~Active(g)'
      BY <1>2, <2>2, NotActiveYet DEF Active
    <3>4. /\ gens'[g].started = FALSE /\ gens'[g].cont = <<>> /\ gens'[g].inject = "none"
          /\ gens'[g].yields = 0 /\ gens'[g].first = FALSE
      BY <1>2, <2>2, <3>1, MakeIs
    <3> QED
      BY <3>2, <3>3, <3>4 DEF Begin
  <2> QED
    BY <1>2, <2>1, <2>2, MakeIs
<1>3. CASE Quiet \/ Asked \/ Return \/ LoopOver \/ Turn \/ ShutdownNext \/ Passed \/ Blocked
  BY <1>1, <1>2, <1>3 DEF Quiet, Asked, Return, LoopOver, Turn, ShutdownNext, Passed, Blocked
<1>4. CASE Here
  <2>0. /\ ops # <<>> /\ Head(ops) = ops[1] /\ Target = ops[1].gen /\ (Head(ops).step # "return" => Target \in Made)
        /\ \A g : Active(g)' <=> Active(g)
    BY <1>4, OpsAre DEF Here, Active, Dropped, Stopped, Returned, Flagged, Loaded, Closed, Doomed, Freed, Update
  <2>1. CASE (\E steps : Dropped(steps) \/ Stopped(steps)) \/ Returned \/ Freed
    BY <1>1, <2>1 DEF Dropped, Stopped, Returned, Freed
  <2>2. ASSUME NEW t \in Made, NEW cell, gens' = [gens EXCEPT ![t] = cell], Begin(t)'
        PROVE  \A g \in Made' : Begin(g)'
    <3>1. Made' = Made /\ \A g \in Made : g # t => gens'[g] = gens[g]
      BY <2>2, CellWritten
    <3>2. ASSUME NEW g \in Made, g # t PROVE Begin(g)'
      BY <2>0, <3>1, <3>2, BeginKept DEF Starts
    <3> QED
      BY <2>2, <3>1, <3>2
  <2>3. ASSUME NEW t \in Made, t = Target
        PROVE  /\ Begin(t) /\ t \in Codes
               /\ gens[t].started \/ regions'[t] = regions[t]
               /\ gens[t] \in Cell
    BY <1>0, <2>3, OwnRegions, CurActive, CurIs DEF Starts, Begin, CellOf
  <2>4. CASE Flagged
    <3>1. PICK t \in Made : t = Target
      BY <2>0, <2>4 DEF Flagged
    <3>2. gens' = [gens EXCEPT ![t] = [gens[t] EXCEPT !.first = TRUE]]
      BY <2>4, <3>1 DEF Flagged, Update
    <3>3. ~Active(t) /\ gens[t].yields <= 1 /\ (gens[t].started \/ gens[t].done)
      BY <2>0, <2>4, <3>1 DEF Flagged, Starts, HeadIs
    <3>4. gens'[t] = [gens[t] EXCEPT !.first = TRUE]
      BY <3>2, CellWritten
    <3>5. Begin(t)'
      BY <2>0, <2>3, <3>1, <3>3, <3>4 DEF Begin, Cell
    <3> QED
      BY <2>2, <3>2, <3>5
  <2>5. CASE Loaded
    <3>1. PICK t \in Made : t = Target
      BY <2>0, <2>5 DEF Loaded
    <3>2. gens' = [gens EXCEPT ![t] = [gens[t] EXCEPT !.inject = "throw"]]
      BY <2>5, <3>1 DEF Loaded, Update
    <3>3. gens[t].started
      BY <2>0, <2>5, <3>1 DEF Loaded, Starts, HeadIs
    <3>4. gens'[t] = [gens[t] EXCEPT !.inject = "throw"]
      BY <3>2, CellWritten
    <3>5. Begin(t)'
      BY <2>0, <2>3, <3>1, <3>3, <3>4 DEF Begin, Cell
    <3> QED
      BY <2>2, <3>2, <3>5
  <2>6. CASE Closed
    <3>1. PICK t \in Made : t = Target
      BY <2>0, <2>6 DEF Closed
    <3>2. gens' = [gens EXCEPT ![t] = [gens[t] EXCEPT !.done = TRUE]]
      BY <2>6, <3>1 DEF Closed, Update
    <3>3. gens'[t] = [gens[t] EXCEPT !.done = TRUE]
      BY <3>2, CellWritten
    <3>4. Begin(t)'
      BY <2>0, <2>3, <3>1, <3>3 DEF Begin, Cell
    <3> QED
      BY <2>2, <3>2, <3>4
  <2>7. CASE Doomed
    <3>1. PICK t \in Made : t = Target
      BY <2>0, <2>7 DEF Doomed
    <3>2. gens' = [gens EXCEPT ![t] = [gens[t] EXCEPT !.destroying = TRUE, !.inject = "destroy"]]
      BY <2>7, <3>1 DEF Doomed
    <3>3. gens[t].started
      BY <2>7, <3>1 DEF Doomed, Live
    <3>4. gens'[t] = [gens[t] EXCEPT !.destroying = TRUE, !.inject = "destroy"]
      BY <3>2, CellWritten
    <3>5. Begin(t)'
      BY <2>0, <2>3, <3>1, <3>3, <3>4 DEF Begin, Cell
    <3> QED
      BY <2>2, <3>2, <3>5
  <2> QED
    BY <1>4, <2>1, <2>4, <2>5, <2>6, <2>7 DEF Here
<1>5. CASE Into
  <2>1. PICK rest \in Rests : Leaving(rest) /\ Switched(Target, rest)
    BY <1>5 DEF Into
  <2>2. PICK t \in Made : t = Target
    BY <2>1 DEF Leaving
  <2>3. /\ gens' = [gens EXCEPT ![t] = Woken(t)] /\ ~gens[t].done
        /\ \A g : Active(g)' <=> Active(g) \/ g = t
    BY <2>1, <2>2, AfterInto DEF Switched, Rests
  <2>4. Made' = Made /\ gens'[t] = Woken(t) /\ \A g \in Made : g # t => gens'[g] = gens[g]
    BY <2>3, CellWritten
  <2>5. Woken(t).started = TRUE /\ Woken(t).cont = <<>> /\ Woken(t).first = (gens[t].first /\ ~gens[t].started)
    BY WokenIs
  <2>6. gens[t].first => gens[t].started
    BY <2>3 DEF Starts, Begin
  <2>7. Begin(t)'
    BY <2>4, <2>5, <2>6 DEF Begin
  <2>8. ASSUME NEW g \in Made, g # t PROVE Begin(g)'
    BY <2>3, <2>4, <2>8, BeginKept DEF Starts
  <2> QED
    BY <2>4, <2>7, <2>8
<1>6. ASSUME resumed # <<>>, resumed' = Front(resumed), NEW t \in Made, t = Cur,
             NEW cell, gens' = [gens EXCEPT ![t] = cell], cell.first = gens[t].first, cell.started = gens[t].started
      PROVE  \A g \in Made' : Begin(g)'
  <2>1. Active(t) /\ \A g : Active(g)' <=> Active(g) /\ g # t
    BY <1>6, AfterBack
  <2>2. Made' = Made /\ gens'[t] = cell /\ \A g \in Made : g # t => gens'[g] = gens[g]
    BY <1>6, CellWritten
  <2>3. gens[t].started /\ ~gens[t].first
    <3>1. Begin(t)
      BY DEF Starts
    <3> QED
      BY <2>1, <3>1 DEF Begin
  <2>4. Begin(t)'
    BY <1>6, <2>1, <2>2, <2>3 DEF Begin
  <2>5. ASSUME NEW g \in Made, g # t PROVE Begin(g)'
    BY <2>1, <2>2, <2>5, BeginKept DEF Starts
  <2> QED
    BY <2>2, <2>4, <2>5
<1>7. CASE Back
  <2>1. PICK rest \in Rests : resumed # <<>> /\ Suspend(rest)
    BY <1>7 DEF Back
  <2>2. PICK t \in Made : t = Cur
    BY <2>1, CurIs
  <2>3. /\ resumed' = Front(resumed) /\ gens' = [gens EXCEPT ![t] = Slept(rest)]
        /\ Slept(rest).first = gens[t].first /\ Slept(rest).started = gens[t].started
    BY <2>1, <2>2, SuspendTypes, SleptIs DEF Rests
  <2> QED
    BY <1>6, <2>1, <2>2, <2>3
<1>8. CASE BodyEnds
  <2>1. resumed # <<>>
    BY <1>8, BodyEndsTypes
  <2>2. PICK t \in Made : t = Cur
    BY <2>1, CurIs
  <2>3. /\ resumed' = Front(resumed) /\ gens' = [gens EXCEPT ![t] = Finished]
        /\ Finished.first = gens[t].first /\ Finished.started = gens[t].started
    BY <1>8, <2>1, <2>2, BodyEndsTypes, FinishedIs
  <2> QED
    BY <1>6, <2>1, <2>2, <2>3
<1> QED
  BY <1>3, <1>4, <1>5, <1>7, <1>8, NextIs

\* What a step leaves of each cell that is not its own.
LEMMA MadeStays ==
  ASSUME Types, ByBodies, Chain, [Next]_vars
  PROVE  Made \subseteq Made'
<1>1. CASE Still
  <2>1. CASE gens' = gens
    BY <2>1 DEF Made
  <2>2. CASE Len(gens) < MaxGens /\ \E h \in BOOLEAN : Make(h)
    BY <2>2, MakeIs
  <2>3. CASE \E cell : Marked(cell)
    BY <2>3, CellWritten DEF Marked
  <2> QED
    BY <1>1, <2>1, <2>2, <2>3 DEF Still
<1>2. CASE Into
  BY <1>2, CellWritten DEF Into, Leaving, Switched
<1>3. CASE Back
  <2>1. PICK rest \in Rests : resumed # <<>> /\ Suspend(rest)
    BY <1>3 DEF Back
  <2> QED
    BY <2>1, SuspendTypes, CurIs, CellWritten DEF Rests
<1>4. CASE BodyEnds
  BY <1>4, BodyEndsTypes, CurIs, CellWritten
<1> QED
  BY <1>1, <1>2, <1>3, <1>4, Moves

\* What the innermost resumer has left is what the steps back begin with.
LEMMA BackHeads ==
  ASSUME Types, Chain, Back \/ BodyEnds
  PROVE  /\ resumed # <<>> /\ resumed' = Front(resumed)
         /\ Len(resumed) \in 1 .. Len(resumed) /\ Len(resumed) \in Nat /\ Cur = resumed[Len(resumed)].gen /\ Cur \in Made
         /\ \A step : HeadIs(ops', step) => HeadIs(resumed[Len(resumed)].ops, step) /\ ops'[1] = resumed[Len(resumed)].ops[1]
<1> DEFINE top == resumed[Len(resumed)]
           n == Len(gens)
<1>1. /\ resumed # <<>> /\ resumed' = Front(resumed)
      /\ ops' = Last(resumed).ops \/ ops' = AfterError(Last(resumed).ops)
  BY SuspendTypes, BodyEndsTypes DEF Back, Rests
<1>2. /\ Len(resumed) \in Nat \ {0} /\ Last(resumed) = top /\ Cur = top.gen /\ Cur \in Made
      /\ Last(resumed) \in ResumerOf(n) /\ n \in Nat
  BY <1>1, AfterBack, CurIs
<1>3. top.ops \in Seq(OpOf(n))
  BY <1>2 DEF ResumerOf
<1> HIDE DEF top
<1>4. ASSUME NEW step, HeadIs(ops', step) PROVE HeadIs(top.ops, step) /\ ops'[1] = top.ops[1]
  <2>1. CASE ops' = top.ops
    BY <1>4, <2>1
  <2>2. CASE ops' = AfterError(top.ops)
    <3>1. step = "over" /\ HeadIs(top.ops, "over") /\ ops' = << top.ops[1] >>
      BY <1>2, <1>3, <1>4, <2>2, AfterErrorHead
    <3> QED
      BY <3>1
  <2> QED
    BY <1>1, <1>2, <2>1, <2>2
<1> QED
  BY <1>1, <1>2, <1>4 DEF top

LEMMA StartsHeads ==
  ASSUME Types, ByBodies, Chain, TameAll, Starts, [Next]_vars
  PROVE  /\ HeadIs(ops', "inject") => gens'[ops'[1].gen].started \/ gens'[ops'[1].gen].done
         /\ \A t : HeadIs(ops', "first") /\ t = ops'[1].gen =>
              ~Active(t)' /\ gens'[t].yields <= 1 /\ (gens'[t].started \/ gens'[t].done)
<1> DEFINE n == Len(gens)
           Good ==
             /\ HeadIs(ops', "inject") => gens'[ops'[1].gen].started \/ gens'[ops'[1].gen].done
             /\ \A t : HeadIs(ops', "first") /\ t = ops'[1].gen =>
                  ~Active(t)' /\ gens'[t].yields <= 1 /\ (gens'[t].started \/ gens'[t].done)
<1>0. Tame(ops) /\ n \in Nat /\ n <= MaxGens /\ Made = 1 .. n /\ ~HeadIs(<<>>, "inject") /\ ~HeadIs(<<>>, "first")
  BY CurIs DEF TameAll, HeadIs
<1>1. ASSUME ~HeadIs(ops', "inject"), ~HeadIs(ops', "first") PROVE Good
  BY <1>1
<1>2. CASE Quiet
  <2>1. CASE gens' = gens
    BY <1>2, <2>1 DEF Quiet, Starts, Active
  <2>2. CASE Code
    BY <1>0, <1>1, <1>2, <2>2 DEF Quiet, Code, Running
  <2> QED
    BY <1>2, <2>1, <2>2 DEF Quiet
<1>3. CASE Asked \/ Return \/ LoopOver \/ ShutdownNext
  BY <1>1, <1>3, CalledHeads
<1>4. CASE Here
  <2>0. /\ ops # <<>> /\ Head(ops) = ops[1] /\ Target = ops[1].gen /\ (Head(ops).step # "return" => Target \in 1 .. n)
    BY <1>0, <1>4, OpsAre DEF Here
  <2>1. /\ HeadIs(Rest, "inject") => ops[1].step \in {"init", "first"} /\ Rest[1].gen = Target
        /\ ~HeadIs(Rest, "first")
        /\ ops[1].step = "inject" => HeadIs(Rest, "resume")
    BY <1>0, <2>0, RestIs
  <2>2. CASE Dropped({"init", "prime"}) /\ gens[Target].started
    BY <2>1, <2>2 DEF Dropped
  <2>3. CASE Dropped({"check", "closed", "release", "bubble"}) \/ Dropped({"each"}) \/ Dropped({"force"})
    BY <1>1, <2>0, <2>1, <2>3 DEF Dropped
  <2>4. CASE \E steps : Stopped(steps)
    BY <1>0, <1>1, <2>4 DEF Stopped
  <2>5. CASE Returned \/ Loaded \/ Closed
    <3>1. ops' = Rest /\ ops[1].step \in {"return", "inject", "over"}
      BY <2>0, <2>5 DEF Returned, Loaded, Closed, Update
    <3> QED
      BY <1>1, <2>1, <3>1
  <2>6. CASE Flagged
    <3>1. PICK t \in Made : t = Target
      BY <1>0, <2>0, <2>6 DEF Flagged
    <3>2. gens' = [gens EXCEPT ![t] = [gens[t] EXCEPT !.first = TRUE]] /\ ops' = Rest /\ ops[1].step = "first"
      BY <2>0, <2>6, <3>1 DEF Flagged, Update
    <3>3. gens[t].started \/ gens[t].done
      BY <2>0, <3>1, <3>2 DEF Starts, HeadIs
    <3>4. gens'[t].started \/ gens'[t].done
      <4>1. gens'[t] = [gens[t] EXCEPT !.first = TRUE]
        BY <3>2, CellWritten
      <4>2. gens[t] \in Cell
        BY CurIs DEF CellOf
      <4> QED
        BY <3>3, <4>1, <4>2 DEF Cell
    <3> QED
      BY <2>1, <3>1, <3>2, <3>4
  <2>7. CASE Doomed \/ Freed
    <3>1. HeadIs(ops', "resume") \/ HeadIs(ops', "force")
      <4>1. CASE Doomed
        <5>1. Replaced(ops', ops, <<"resume">>, Target) /\ Len(ops) \in Nat
          BY <1>0, <2>0, <4>1, LoopLists, HeadReplaced, LenProperties DEF Doomed, Types, Rest
        <5> QED
          BY <5>1, ReplacedByOne DEF HeadIs
      <4>2. CASE Freed
        <5>1. Replaced(ops', ops, <<"force", "over">>, Target) /\ Len(ops) \in Nat
          BY <1>0, <2>0, <4>2, LoopLists, HeadReplaced, LenProperties DEF Freed, Types, Rest
        <5> QED
          BY <5>1, ReplacedByTwo DEF HeadIs
      <4> QED
        BY <2>7, <4>1, <4>2
    <3> QED
      BY <1>1, <3>1 DEF HeadIs
  <2> QED
    BY <1>4, <2>2, <2>3, <2>4, <2>5, <2>6, <2>7 DEF Here
<1>5. CASE Turn
  <2>1. ops # <<>> /\ ops' = Rest /\ Head(ops).step = "turn"
    BY <1>5 DEF Turn, Step
  <2> QED
    BY <1>0, <1>1, <2>1, RestIs
<1>6. ASSUME NEW rest \in Rests, Leaving(rest) PROVE ~HeadIs(rest, "inject") /\ (HeadIs(rest, "first") => HeadIs(ops, "init") /\ ~gens[Target].started /\ rest[1].gen = Target)
  <2>1. /\ ops # <<>> /\ Head(ops) = ops[1]
        /\ \/ HeadIs(ops, "init") /\ ~gens[Target].started /\ HeadIs(rest, "first") /\ rest[1].gen = Target
           \/ HeadIs(ops, "prime") /\ rest = Rest
           \/ HeadIs(ops, "resume") /\ rest = Rest
    BY <1>0, <1>6, LeavingIs
  <2> QED
    BY <1>0, <2>1, RestIs DEF HeadIs
<1>7. CASE Passed
  <2>1. PICK rest \in Rests : Leaving(rest) /\ gens[Target].done /\ ops' = rest /\ UNCHANGED <<gens, resumed>>
    BY <1>7 DEF Passed
  <2>2. Target \in Made
    BY <2>1 DEF Leaving
  <2>3. ~HeadIs(ops', "inject")
    BY <1>6, <2>1
  <2>4. ASSUME HeadIs(ops', "first"), NEW t, t = ops'[1].gen
        PROVE  ~Active(t)' /\ gens'[t].yields <= 1 /\ (gens'[t].started \/ gens'[t].done)
    <3>1. ~gens[Target].started /\ t = Target
      BY <1>6, <2>1, <2>4
    <3>2. ~Active(t) /\ gens[t].yields = 0
      BY <2>2, <3>1 DEF Starts, Begin
    <3>3. ~Active(t)'
      BY <2>1, <3>2 DEF Active
    <3> QED
      BY <2>1, <3>1, <3>2, <3>3
  <2> QED
    BY <2>3, <2>4
<1>8. CASE Blocked
  BY <1>0, <1>1, <1>8, AfterErrorHead DEF Blocked, Rests
<1>9. CASE Into
  <2>1. Target \in Made /\ (ops' = <<>> \/ ops' = gens[Target].cont)
    BY <1>9 DEF Into, Leaving, Switched
  <2>2. ASSUME ops' # <<>> PROVE HeadIs(ops', "resume")
    <3>1. PICK t \in Made : ops' = Do(<<"resume", "each">>, t)
      BY <2>1, <2>2 DEF TameAll
    <3> DEFINE l == <<"resume", "each">>
    <3>2. ops' = Do(l, t) /\ l \in Lists /\ l[1] = "resume"
      BY <3>1, LoopLists
    <3> HIDE DEF l
    <3> QED
      BY <1>0, <3>2, DoHead DEF HeadIs
  <2> QED
    BY <1>1, <2>2 DEF HeadIs
<1>10. ASSUME Back \/ BodyEnds, NEW c \in Made, c = Cur, NEW cell, gens' = [gens EXCEPT ![c] = cell],
              gens[c].yields = 0 => cell.yields <= 1, cell.started = gens[c].started
       PROVE  Good
  <2>1. /\ resumed # <<>> /\ resumed' = Front(resumed)
        /\ Len(resumed) \in 1 .. Len(resumed) /\ c = resumed[Len(resumed)].gen
        /\ \A step : HeadIs(ops', step) => HeadIs(resumed[Len(resumed)].ops, step) /\ ops'[1] = resumed[Len(resumed)].ops[1]
    BY <1>10, BackHeads
  <2>2. ~HeadIs(ops', "inject") /\ (HeadIs(ops', "first") => ops'[1].gen = c /\ gens[c].yields = 0)
    BY <2>1 DEF Starts
  <2>3. ~Active(c)' /\ Active(c)
    BY <1>10, <2>1, AfterBack
  <2>4. gens'[c] = cell
    BY <1>10, CellWritten
  <2>5. gens[c].started
    BY <2>3 DEF Starts, Begin
  <2> QED
    BY <1>10, <2>2, <2>3, <2>4, <2>5
<1>11. CASE Back
  <2>1. PICK rest \in Rests : resumed # <<>> /\ Suspend(rest)
    BY <1>11 DEF Back
  <2>2. PICK c \in Made : c = Cur
    BY <2>1, CurIs
  <2>3. /\ gens' = [gens EXCEPT ![c] = Slept(rest)] /\ Slept(rest).started = gens[c].started
        /\ gens[c].yields = 0 => Slept(rest).yields = 1
    BY <2>1, <2>2, SuspendTypes, SleptIs DEF Rests
  <2>4. gens[c].yields = 0 => Slept(rest).yields <= 1
    BY <2>3
  <2> HIDE DEF Good
  <2>5. Good
    BY <1>10, <1>11, <2>2, <2>3, <2>4
  <2> QED
    BY <2>5 DEF Good
<1>12. CASE BodyEnds
  <2>1. resumed # <<>>
    BY <1>12, BodyEndsTypes
  <2>2. PICK c \in Made : c = Cur
    BY <2>1, CurIs
  <2>3. /\ gens' = [gens EXCEPT ![c] = Finished] /\ Finished.started = gens[c].started
        /\ Finished.yields = gens[c].yields
    BY <1>12, <2>1, <2>2, BodyEndsTypes, FinishedIs
  <2>4. gens[c].yields = 0 => Finished.yields <= 1
    BY <2>3
  <2> HIDE DEF Good
  <2>5. Good
    BY <1>10, <1>12, <2>2, <2>3, <2>4
  <2> QED
    BY <2>5 DEF Good
<1> QED
  BY <1>2, <1>3, <1>4, <1>5, <1>7, <1>8, <1>9, <1>11, <1>12, NextIs

LEMMA StartsWaiting ==
  ASSUME Types, ByBodies, Chain, TameAll, Starts, [Next]_vars
  PROVE  \A k \in 1 .. Len(resumed') :
           /\ ~HeadIs(resumed'[k].ops, "inject")
           /\ HeadIs(resumed'[k].ops, "first") =>
                resumed'[k].ops[1].gen = resumed'[k].gen /\ gens'[resumed'[k].gen].yields = 0
<1> DEFINE Fine(r) == ~HeadIs(r.ops, "inject") /\ (HeadIs(r.ops, "first") => r.ops[1].gen = r.gen /\ gens'[r.gen].yields = 0)
<1>0. \A k \in 1 .. Len(resumed) : resumed[k].gen \in Made
  BY NotActiveYet DEF Active
<1>1. ASSUME NEW k \in 1 .. Len(resumed), gens'[resumed[k].gen].yields = gens[resumed[k].gen].yields
      PROVE  Fine(resumed[k])
  BY <1>1 DEF Starts
<1>2. CASE Still
  <2>1. \A g \in Made : gens'[g].yields = gens[g].yields
    <3>1. CASE Len(gens) < MaxGens /\ \E h \in BOOLEAN : Make(h)
      BY <3>1, MakeIs
    <3>2. ASSUME NEW cell, Marked(cell) PROVE \A g \in Made : gens'[g].yields = gens[g].yields
      <4>1. Target \in Made /\ gens' = [gens EXCEPT ![Target] = cell] /\ cell.yields = gens[Target].yields
        BY <3>2 DEF Marked
      <4> QED
        BY <4>1, CellWritten
    <3> QED
      BY <1>2, <3>1, <3>2 DEF Still
  <2> QED
    BY <1>0, <1>1, <1>2, <2>1 DEF Still
<1>3. CASE Into
  <2>1. PICK rest \in Rests : Leaving(rest) /\ Switched(Target, rest)
    BY <1>3 DEF Into
  <2>2. PICK t \in Made : t = Target
    BY <2>1 DEF Leaving
  <2> DEFINE r == [gen |-> t, ops |-> rest, saved |-> ctx]
             n == Len(resumed)
  <2>3. /\ n \in Nat /\ Len(resumed') = n + 1 /\ resumed'[n + 1] = r /\ r.ops = rest /\ r.gen = t
        /\ \A k \in 1 .. n : resumed'[k] = resumed[k]
    BY <2>1, <2>2, AfterInto DEF Rests
  <2>4. gens' = [gens EXCEPT ![t] = Woken(t)] /\ Woken(t).yields = gens[t].yields
    BY <2>1, <2>2, WokenIs DEF Switched
  <2>5. \A g \in Made : gens'[g].yields = gens[g].yields
    BY <2>4, CellWritten
  <2> HIDE DEF r, n
  <2>6. Fine(r)
    <3>1. /\ ops # <<>> /\ Head(ops) = ops[1]
          /\ \/ HeadIs(ops, "init") /\ ~gens[t].started /\ HeadIs(rest, "first") /\ rest[1].gen = t
             \/ HeadIs(ops, "prime") /\ rest = Rest
             \/ HeadIs(ops, "resume") /\ rest = Rest
      BY <2>1, <2>2, LeavingIs DEF TameAll
    <3>2. HeadIs(rest, "first") => rest[1].gen = t /\ ~gens[t].started
      BY <3>1, RestIs DEF TameAll
    <3>3. ~HeadIs(rest, "inject")
      BY <3>1, RestIs DEF TameAll, HeadIs
    <3>4. ~gens[t].started => gens[t].yields = 0
      BY DEF Starts, Begin
    <3> QED
      BY <2>3, <2>5, <3>2, <3>3, <3>4
  <2>7. ASSUME NEW k \in 1 .. n + 1 PROVE Fine(resumed'[k])
    <3>1. k = n + 1 \/ k \in 1 .. n
      BY <2>3
    <3>2. CASE k = n + 1
      BY <2>3, <2>6, <3>2
    <3>3. CASE k \in 1 .. n
      BY <1>0, <1>1, <2>3, <2>5, <3>3 DEF n
    <3> QED
      BY <3>1, <3>2, <3>3
  <2> QED
    BY <2>3, <2>7
<1>4. CASE Back \/ BodyEnds
  <2>1. resumed # <<>> /\ resumed' = Front(resumed) /\ Cur \in Made
    BY <1>4, BackHeads
  <2>2. \E cell : gens' = [gens EXCEPT ![Cur] = cell]
    BY <1>4 DEF Back, Suspend, BodyEnds
  <2>3. \A g \in Made : g # Cur => gens'[g] = gens[g]
    BY <2>1, <2>2, CellWritten
  <2>4. /\ Len(resumed) \in Nat \ {0} /\ Len(resumed') = Len(resumed) - 1
        /\ \A k \in 1 .. Len(resumed) - 1 : resumed'[k] = resumed[k] /\ resumed[k].gen # Cur
    BY <2>1, AfterBack
  <2>5. ASSUME NEW k \in 1 .. Len(resumed') PROVE Fine(resumed'[k])
    <3>1. k \in 1 .. Len(resumed) - 1 /\ k \in 1 .. Len(resumed)
      BY <2>4
    <3> QED
      BY <1>0, <1>1, <2>3, <2>4, <3>1
  <2> QED
    BY <2>5
<1> QED
  BY <1>2, <1>3, <1>4, Moves

LEMMA StartsStep ==
  ASSUME Types, ByBodies, Chain, TameAll, Starts, [Next]_vars
  PROVE  Starts'
<1>1. ASSUME NEW g \in Ids \ Made' PROVE regions'[g] = <<>>
  <2>1. g \in Ids \ Made /\ g # Cur /\ g \in Codes
    BY <1>1, MadeStays, CurActive DEF Codes
  <2> QED
    BY <2>1, OwnRegions DEF Starts
<1>2. ASSUME NEW t, HeadIs(ops', "first"), t = ops'[1].gen
      PROVE  ~Active(t)' /\ gens'[t].yields <= 1 /\ (gens'[t].started \/ gens'[t].done)
  BY <1>2, StartsHeads
<1>3. HeadIs(ops, "first")' =>
        /\ ~Active(ops[1].gen)' /\ gens'[ops'[1].gen].yields <= 1
        /\ gens'[ops'[1].gen].started \/ gens'[ops'[1].gen].done
  BY <1>2 DEF HeadIs, Active
<1>4. HeadIs(ops, "inject")' => gens'[ops'[1].gen].started \/ gens'[ops'[1].gen].done
  BY StartsHeads DEF HeadIs
<1> QED
  BY <1>1, <1>3, <1>4, StartsCells, StartsWaiting DEF Starts, HeadIs

LEMMA StartsInit == Init => Starts
<1> SUFFICES ASSUME Init PROVE Starts
  OBVIOUS
<1>1. /\ ops = <<>> /\ resumed = <<>> /\ gens = <<>> /\ Len(resumed) = 0 /\ Made = {}
      /\ regions = [c \in Codes |-> <<>>]
  BY DEF Init, Made
<1> QED
  BY <1>1 DEF Starts, HeadIs, Codes

\* The steps of host functions stay in order, and the flag rewind() goes by
\* is set for generators that have begun.
THEOREM StartsHold == Spec => [](Types /\ ByBodies /\ Chain /\ TameAll /\ Starts)
<1>1. Types /\ ByBodies /\ Chain /\ TameAll /\ Starts /\ [Next]_vars
        => (Types /\ ByBodies /\ Chain /\ TameAll /\ Starts)'
  BY TypesStep, BodiesStep, ChainStep, TameStep, StartsStep
<1> QED
  BY <1>1, TypesInit, ChainInit, TameInit, StartsInit, PTL DEF Spec

\* RewindLosesNothing: rewind() is accepted, by the flag gen_ensure_init
\* sets, only by a generator that has yielded at most once.
THEOREM RewindLosesNothingHolds == Spec => []RewindLosesNothing
<1>1. Starts => RewindLosesNothing
  BY DEF Starts, Begin, RewindLosesNothing
<1> QED
  BY <1>1, StartsHold, PTL

-----------------------------------------------------------------------------
(* Injected: what is thrown into a generator reaches it, in a program that *)
(* calls throw() only on generators whose bodies do not run.               *)

\* Something waits in the cell of g for a resumption.
Loose(g) == gens[g].inject # "none" /\ ~gens[g].done

Idle == {g \in Ids : ~Active(g)}

\* What will be injected goes into a generator of A, which all the rest of
\* the host function is about, too.
Aimed(s, A) == \A i, j \in 1 .. Len(s) : s[i].step = "inject" => s[i].gen \in A /\ s[j].gen = s[i].gen

Injected ==
  /\ Aimed(ops, Idle)
  /\ \A k \in 1 .. Len(resumed) : Aimed(resumed[k].ops, {resumed[k].gen})
  /\ \A g \in Made : Loose(g) => HeadIs(ops, "resume") /\ ops[1].gen = g /\ ~Active(g)

LEMMA AimedEnds ==
  ASSUME NEW A, NEW n \in Nat, NEW rest \in Seq(OpOf(n))
  PROVE  Aimed(<<>>, A) /\ Aimed(AfterError(rest), A)
<1>1. Aimed(<<>>, A)
  BY DEF Aimed
<1>2. ASSUME NEW x, x.step = "over" PROVE Aimed(<< x >>, A)
  BY <1>2 DEF Aimed
<1> QED
  BY <1>1, <1>2, AfterErrorIs

LEMMA AimedTail ==
  ASSUME NEW A, NEW S, NEW s \in Seq(S), s # <<>>, Aimed(s, A)
  PROVE  Aimed(Tail(s), A) /\ Aimed(Tail(s), {s[1].gen}) /\ Aimed(s, {s[1].gen})
<1> DEFINE t == Tail(s)
<1>1. /\ Len(s) \in Nat \ {0} /\ Len(t) = Len(s) - 1 /\ \A i \in 1 .. Len(s) - 1 : t[i] = s[i + 1]
  BY SeqParts
<1> HIDE DEF t
<1>2. 1 \in 1 .. Len(s) /\ \A i \in 1 .. Len(t) : i + 1 \in 1 .. Len(s) /\ t[i] = s[i + 1]
  BY <1>1
<1>3. ASSUME NEW i \in 1 .. Len(s), s[i].step = "inject"
      PROVE  s[i].gen \in A /\ s[i].gen = s[1].gen /\ \A j \in 1 .. Len(s) : s[j].gen = s[i].gen
  BY <1>2, <1>3 DEF Aimed
<1>4. ASSUME NEW i \in 1 .. Len(t), t[i].step = "inject"
      PROVE  t[i].gen \in A /\ t[i].gen = s[1].gen /\ \A j \in 1 .. Len(t) : t[j].gen = t[i].gen
  <2>1. PICK k \in 1 .. Len(s) : t[i] = s[k]
    BY <1>2
  <2>2. t[i].gen \in A /\ t[i].gen = s[1].gen /\ \A j \in 1 .. Len(s) : s[j].gen = t[i].gen
    BY <1>3, <1>4, <2>1
  <2>3. \A j \in 1 .. Len(t) : t[j].gen = t[i].gen
    BY <1>2, <2>2
  <2> QED
    BY <2>2, <2>3
<1>5. Aimed(t, A) /\ Aimed(t, {s[1].gen}) /\ Aimed(s, {s[1].gen})
  BY <1>3, <1>4 DEF Aimed
<1> QED
  BY <1>5 DEF t

LEMMA AimedReplaced ==
  ASSUME NEW A, NEW S, NEW s \in Seq(S), s # <<>>, Aimed(s, A), NEW t, NEW g, g = s[1].gen,
         NEW l, Len(l) \in Nat, \A i \in 1 .. Len(l) : l[i] # "inject", Replaced(t, s, l, g)
  PROVE  Aimed(t, A)
<1>1. /\ Len(s) \in Nat \ {0} /\ Len(t) = Len(l) + Len(s) - 1
  BY SeqParts DEF Replaced
<1>2. ASSUME NEW i \in 1 .. Len(t)
      PROVE  \/ t[i].step # "inject" /\ t[i].gen = g
             \/ \E j \in 1 .. Len(s) : t[i] = s[j]
  <2>1. CASE i <= Len(l)
    <3>1. i \in 1 .. Len(l)
      BY <1>1, <2>1
    <3> QED
      BY <3>1 DEF Replaced
  <2>2. CASE i > Len(l)
    <3> DEFINE j == i - Len(l) + 1
    <3>1. j \in 2 .. Len(s) /\ j \in 1 .. Len(s) /\ Len(l) + j - 1 = i
      BY <1>1, <2>2
    <3> HIDE DEF j
    <3>2. t[i] = s[j]
      BY <3>1 DEF Replaced
    <3> QED
      BY <3>1, <3>2
  <2> QED
    BY <1>1, <2>1, <2>2
<1>3. ASSUME NEW i \in 1 .. Len(t), t[i].step = "inject", NEW j \in 1 .. Len(t)
      PROVE  t[i].gen \in A /\ t[j].gen = t[i].gen
  <2>1. PICK k \in 1 .. Len(s) : t[i] = s[k]
    BY <1>2, <1>3
  <2>2. 1 \in 1 .. Len(s)
    BY <1>1
  <2>3. t[i].gen \in A /\ t[i].gen = g /\ \A m \in 1 .. Len(s) : s[m].gen = t[i].gen
    BY <1>3, <2>1, <2>2 DEF Aimed
  <2> QED
    BY <1>2, <2>3
<1> QED
  BY <1>3 DEF Aimed

\* Steps that are all about one generator.
LEMMA AimedDo ==
  ASSUME NEW n \in Nat, n <= MaxGens, NEW g \in 1 .. n, NEW l \in Lists, NEW A,
         g \in A \/ \A i \in 1 .. Len(l) : l[i] # "inject"
  PROVE  Aimed(Do(l, g), A)
<1> DEFINE d == Do(l, g)
<1>1. Len(d) = Len(l) /\ \A i \in 1 .. Len(l) : d[i] = [step |-> l[i], gen |-> g]
  BY DoIs
<1> HIDE DEF d
<1>2. ASSUME NEW i \in 1 .. Len(d) PROVE d[i].step = l[i] /\ d[i].gen = g /\ i \in 1 .. Len(l)
  <2>1. d[i] = [step |-> l[i], gen |-> g] /\ i \in 1 .. Len(l)
    BY <1>1
  <2> QED
    BY <2>1
<1>3. ASSUME NEW i \in 1 .. Len(d), d[i].step = "inject" PROVE g \in A
  BY <1>2, <1>3
<1>4. Aimed(d, A)
  BY <1>2, <1>3 DEF Aimed
<1> QED
  BY <1>4 DEF d

LEMMA AimlessLists ==
  \A l \in {<<"first">>, <<"resume">>, <<"force", "over">>, <<"resume", "each">>,
            <<"closed", "init", "check", "bubble", "init", "bubble", "turn">>} :
    l \in Lists /\ Len(l) \in Nat /\ \A i \in 1 .. Len(l) : l[i] # "inject"
<1> DEFINE Fine(x) == Len(x) \in Nat /\ \A i \in 1 .. Len(x) : x[i] # "inject"
<1>1. Fine(<<"first">>) /\ Fine(<<"resume">>)
  OBVIOUS
<1>2. Fine(<<"force", "over">>) /\ Fine(<<"resume", "each">>)
  OBVIOUS
<1>3. Fine(<<"closed", "init", "check", "bubble", "init", "bubble", "turn">>)
  OBVIOUS
<1> HIDE DEF Fine
<1>4. \A l \in {<<"first">>, <<"resume">>, <<"force", "over">>, <<"resume", "each">>,
                <<"closed", "init", "check", "bubble", "init", "bubble", "turn">>} : Fine(l)
  BY <1>1, <1>2, <1>3, Zenon
<1> QED
  BY <1>4, LoopLists DEF Fine

LEMMA AimedLeaving ==
  ASSUME Types, Tame(ops), Injected, NEW rest \in Rests, Leaving(rest)
  PROVE  Aimed(rest, Idle) /\ Aimed(rest, {Target})
<1> DEFINE n == Len(gens)
<1>0. ops \in Seq(OpOf(n)) /\ ops # <<>> /\ Target = ops[1].gen
  BY LeavingIs DEF Types
<1>1. Aimed(ops, Idle) /\ Aimed(ops, {Target}) /\ Aimed(Rest, Idle) /\ Aimed(Rest, {Target})
  BY <1>0, AimedTail DEF Injected, Rest
<1>2. CASE Replaced(rest, ops, <<"first">>, Target)
  BY <1>0, <1>1, <1>2, AimlessLists, AimedReplaced
<1> QED
  BY <1>1, <1>2, LeavingIs

\* What is left to do in the code that has control.
LEMMA AimedOps ==
  ASSUME Types, ByBodies, Chain, TameAll, Injected, "reenter" \notin Constructs, [Next]_vars
  PROVE  Aimed(ops', Idle')
<1> DEFINE n == Len(gens)
           Goal == Aimed(ops', Idle')
<1>0. /\ n \in Nat /\ n <= MaxGens /\ MaxGens \in Nat /\ Made = 1 .. n /\ Made \subseteq Ids
      /\ Tame(ops) /\ ops \in Seq(OpOf(n)) /\ Aimed(ops, Idle)
      /\ Aimed(<<>>, Idle') /\ count \in 0 .. n /\ next \in 1 .. MaxGens + 1
  BY CurIs, AimedEnds, EmptySeq DEF TameAll, Types, Injected
<1>t. ops # <<>> => Aimed(Rest, Idle) /\ Target = ops[1].gen
  BY <1>0, AimedTail, OpsAre DEF Rest
<1>i. resumed' = resumed => Idle' = Idle
  BY DEF Idle, Active
<1>1. CASE Quiet
  BY <1>0, <1>i, <1>1 DEF Quiet
<1>2. CASE Asked
  <2>1. PICK l \in Begins, g \in Made :
          /\ ops' = Do(l, g) /\ resumed' = resumed
          /\ l = ThrowSteps => gens[g].coro = "here" \/ "reenter" \in Constructs
    BY <1>2 DEF Asked
  <2>2. l \in Lists /\ \A i \in 1 .. Len(l) : l[i] = "inject" => l = ThrowSteps
    BY BeginsAre
  <2>3. l = ThrowSteps => g \in Idle
    BY <1>0, <2>1 DEF Chain, Framed, Idle
  <2>4. g \in Idle \/ \A i \in 1 .. Len(l) : l[i] # "inject"
    BY <2>2, <2>3
  <2> QED
    BY <1>0, <1>i, <2>1, <2>2, <2>4, AimedDo
<1>3. CASE Return
  <2>1. ops' \in Seq(ReturnOps)
    BY <1>3, ReturnIs
  <2>2. \A i \in 1 .. Len(ops') : ops'[i].step # "inject"
    BY <2>1, SeqParts DEF ReturnOps
  <2> QED
    BY <2>2 DEF Aimed
<1>4. CASE LoopOver
  <2> DEFINE l == <<"closed", "init", "check", "bubble", "init", "bubble", "turn">>
  <2>1. ops' = Do(l, n + 1) /\ n < MaxGens /\ l \in Lists /\ \A i \in 1 .. Len(l) : l[i] # "inject"
    BY <1>4, AimlessLists DEF LoopOver
  <2>2. n + 1 \in Nat /\ n + 1 <= MaxGens /\ n + 1 \in 1 .. n + 1
    BY <1>0, <2>1
  <2> HIDE DEF l
  <2> QED
    BY <2>1, <2>2, AimedDo
<1>5. CASE Here
  <2>0. /\ ops # <<>> /\ (Head(ops).step # "return" => Target \in 1 .. n)
        /\ resumed' = resumed
    BY <1>0, <1>5 DEF Here, Dropped, Stopped, Returned, Flagged, Loaded, Closed, Doomed, Freed, Update
  <2>2. CASE \E steps : Dropped(steps) \/ Stopped(steps)
    BY <1>0, <1>i, <1>t, <2>0, <2>2 DEF Dropped, Stopped
  <2>3. CASE Returned \/ Flagged \/ Loaded \/ Closed
    BY <1>i, <1>t, <2>0, <2>3 DEF Returned, Flagged, Loaded, Closed, Update
  <2>4. ASSUME NEW l \in {<<"resume">>, <<"force", "over">>}, ops' = Do(l, Target) \o Tail(ops), Target \in 1 .. n
        PROVE  Goal
    <3>1. l \in Lists /\ Len(l) \in Nat /\ \A i \in 1 .. Len(l) : l[i] # "inject"
      BY AimlessLists
    <3>2. Replaced(ops', ops, l, Target)
      BY <1>0, <2>0, <2>4, <3>1, HeadReplaced
    <3> QED
      BY <1>0, <1>i, <1>t, <2>0, <3>1, <3>2, AimedReplaced
  <2>5. CASE Doomed
    <3>1. ops' = Do(<<"resume">>, Target) \o Tail(ops) /\ Target \in 1 .. n
      BY <2>0, <2>5 DEF Doomed, Rest
    <3> QED
      BY <2>4, <3>1
  <2>6. CASE Freed
    <3>1. ops' = Do(<<"force", "over">>, Target) \o Tail(ops) /\ Target \in 1 .. n
      BY <2>0, <2>6 DEF Freed, Rest
    <3> QED
      BY <2>4, <3>1
  <2> QED
    BY <1>5, <2>2, <2>3, <2>5, <2>6 DEF Here
<1>6. CASE Turn
  BY <1>i, <1>t, <1>6 DEF Turn, Step
<1>7. CASE ShutdownNext
  <2>1. next \in 1 .. n /\ ops' = Do(<<"force", "over">>, next)
    BY <1>0, <1>7 DEF ShutdownNext
  <2> QED
    BY <1>0, <2>1, AimlessLists, AimedDo
<1>8. CASE Passed
  BY <1>0, <1>i, <1>8, AimedLeaving DEF Passed
<1>9. CASE Blocked
  BY <1>0, <1>9, AimedEnds DEF Blocked, Rests
<1>10. CASE Into
  <2>1. Target \in Made /\ (ops' = <<>> \/ ops' = gens[Target].cont)
    BY <1>10 DEF Into, Leaving, Switched
  <2>2. CASE ops' # <<>> /\ ops' = gens[Target].cont
    <3>1. PICK t \in Made : ops' = Do(<<"resume", "each">>, t)
      BY <2>1, <2>2 DEF TameAll
    <3> QED
      BY <1>0, <3>1, AimlessLists, AimedDo
  <2> QED
    BY <1>0, <2>1, <2>2
<1>11. CASE Back \/ BodyEnds
  <2>1. /\ resumed # <<>> /\ resumed' = Front(resumed)
        /\ ops' = Last(resumed).ops \/ ops' = AfterError(Last(resumed).ops)
    BY <1>11, SuspendTypes, BodyEndsTypes DEF Back, Rests
  <2>2. PICK c \in Made : c = Cur
    BY <2>1, CurIs
  <2>3. /\ Last(resumed) = resumed[Len(resumed)] /\ Len(resumed) \in 1 .. Len(resumed)
        /\ resumed[Len(resumed)].gen = c /\ ~Active(c)'
    <3>1. Len(resumed) \in Nat \ {0} => Len(resumed) \in 1 .. Len(resumed)
      OBVIOUS
    <3> QED
      BY <2>1, <2>2, <3>1, AfterBack
  <2>4. Aimed(Last(resumed).ops, {c}) /\ c \in Idle' /\ Last(resumed).ops \in Seq(OpOf(n))
    <3>1. Last(resumed) \in ResumerOf(n)
      BY <2>1, CurIs
    <3> QED
      BY <1>0, <2>2, <2>3, <3>1 DEF Injected, Idle, ResumerOf
  <2>5. Aimed(Last(resumed).ops, Idle')
    BY <2>4 DEF Aimed
  <2> QED
    BY <1>0, <2>1, <2>4, <2>5, AimedEnds
<1> QED
  BY <1>1, <1>2, <1>3, <1>4, <1>5, <1>6, <1>7, <1>8, <1>9, <1>10, <1>11, NextIs

\* What waits in the resumers.
LEMMA AimedWaiting ==
  ASSUME Types, ByBodies, Chain, TameAll, Injected, [Next]_vars
  PROVE  \A k \in 1 .. Len(resumed') : Aimed(resumed'[k].ops, {resumed'[k].gen})
<1>1. CASE Still
  BY <1>1 DEF Still, Injected
<1>2. CASE Into
  <2>1. PICK rest \in Rests : Leaving(rest) /\ Switched(Target, rest)
    BY <1>2 DEF Into
  <2>2. PICK t \in Made : t = Target
    BY <2>1 DEF Leaving
  <2> DEFINE r == [gen |-> t, ops |-> rest, saved |-> ctx]
             n == Len(resumed)
  <2>3. /\ n \in Nat /\ Len(resumed') = n + 1 /\ resumed'[n + 1] = r /\ r.ops = rest /\ r.gen = t
        /\ \A k \in 1 .. n : resumed'[k] = resumed[k]
    BY <2>1, <2>2, AfterInto DEF Rests
  <2>4. Aimed(rest, {t})
    BY <2>1, <2>2, AimedLeaving DEF TameAll
  <2> HIDE DEF r, n
  <2>5. ASSUME NEW k \in 1 .. n + 1 PROVE Aimed(resumed'[k].ops, {resumed'[k].gen})
    <3>1. CASE k = n + 1
      BY <2>3, <2>4, <3>1
    <3>2. CASE k # n + 1
      <4>1. k \in 1 .. n
        BY <2>3, <3>2
      <4> QED
        BY <2>3, <4>1 DEF Injected, n
    <3> QED
      BY <3>1, <3>2
  <2> QED
    BY <2>3, <2>5
<1>3. CASE Back \/ BodyEnds
  <2>1. resumed # <<>> /\ resumed' = Front(resumed)
    BY <1>3, BackHeads
  <2>2. /\ Len(resumed) \in Nat \ {0} /\ Len(resumed') = Len(resumed) - 1
        /\ \A k \in 1 .. Len(resumed) - 1 : resumed'[k] = resumed[k]
    BY <2>1, AfterBack
  <2>3. ASSUME NEW k \in 1 .. Len(resumed') PROVE Aimed(resumed'[k].ops, {resumed'[k].gen})
    <3>1. k \in 1 .. Len(resumed) - 1 /\ k \in 1 .. Len(resumed)
      BY <2>2
    <3> QED
      BY <2>2, <3>1 DEF Injected
  <2> QED
    BY <2>3
<1> QED
  BY <1>1, <1>2, <1>3, Moves

LEMMA LooseStep ==
  ASSUME Types, ByBodies, Chain, TameAll, Starts, Injected, [Next]_vars,
         NEW g \in Made', Loose(g)'
  PROVE  HeadIs(ops', "resume") /\ ops'[1].gen = g /\ ~Active(g)'
<1> DEFINE Goal == HeadIs(ops', "resume") /\ ops'[1].gen = g /\ ~Active(g)'
<1>0. /\ Tame(ops) /\ (ops # <<>> => Head(ops) = ops[1] /\ Target = ops[1].gen)
      /\ Made = 1 .. Len(gens) /\ Len(gens) \in Nat /\ Len(gens) <= MaxGens /\ Made \subseteq Ids /\ Main \notin Made
      /\ ops \in Seq(OpOf(Len(gens)))
  BY CurIs, OpsAre DEF TameAll, Types
<1>l. g \in Made /\ Loose(g) => HeadIs(ops, "resume") /\ ops[1].gen = g /\ ~Active(g)
  BY DEF Injected
\* A step that leaves the cell as it was, and comes from compiled code.
<1>n. ASSUME gens' = gens \/ (Len(gens) < MaxGens /\ \E h \in BOOLEAN : Make(h)) PROVE g \in Made /\ Loose(g)
  <2>1. CASE gens' = gens
    BY <2>1 DEF Loose, Made
  <2>2. ASSUME NEW h \in BOOLEAN, Len(gens) < MaxGens, Make(h) PROVE g \in Made /\ Loose(g)
    BY <2>2, MakeIs DEF Loose
  <2> QED
    BY <1>n, <2>1, <2>2
<1>1. CASE Quiet
  <2>1. g \in Made /\ Loose(g)
    BY <1>1, <1>n DEF Quiet
  <2> QED
    BY <1>1, <1>l, <2>1 DEF Quiet, HeadIs, Active
<1>2. CASE Asked \/ Return \/ LoopOver \/ ShutdownNext
  <2>1. g \in Made /\ Loose(g)
    BY <1>2, <1>n DEF Asked, Return, LoopOver, ShutdownNext
  <2>2. ops = <<>>
    BY <1>2 DEF Asked, Return, LoopOver, ShutdownNext, Code, Running
  <2> QED
    BY <1>l, <2>1, <2>2 DEF HeadIs
<1>3. CASE Here
  <2>0. /\ ops # <<>> /\ (ops[1].step # "return" => Target \in Made)
        /\ resumed' = resumed /\ ops[1].step # "resume"
    BY <1>0, <1>3 DEF Here, Dropped, Stopped, Returned, Flagged, Loaded, Closed, Doomed, Freed, Update
  <2>1. ASSUME g \in Made, Loose(g) PROVE Goal
    BY <1>l, <2>0, <2>1 DEF HeadIs
  <2>2. CASE (\E steps : Dropped(steps) \/ Stopped(steps)) \/ Returned \/ Freed
    BY <1>n, <2>1, <2>2 DEF Dropped, Stopped, Returned, Freed
  <2>3. ASSUME NEW t \in Made, t = Target, NEW cell, gens' = [gens EXCEPT ![t] = cell],
               \/ cell.inject = gens[t].inject /\ cell.done = gens[t].done
               \/ cell.done
               \/ HeadIs(ops', "resume") /\ ops'[1].gen = t /\ ~Active(t)
        PROVE  Goal
    <3>1. g \in Made /\ (g = t => gens'[g] = cell) /\ (g # t => gens'[g] = gens[g])
      BY <2>3, CellWritten
    <3>2. CASE g # t
      BY <2>1, <3>1, <3>2 DEF Loose
    <3>3. CASE g = t
      BY <2>0, <2>1, <2>3, <3>1, <3>3 DEF Loose, Active
    <3> QED
      BY <3>2, <3>3
  <2>4. CASE Flagged
    <3>1. PICK t \in Made : t = Target
      BY <1>0, <2>0, <2>4 DEF Flagged
    <3>2. gens[t] \in Cell
      BY CurIs DEF CellOf
    <3>3. gens' = [gens EXCEPT ![t] = [gens[t] EXCEPT !.first = TRUE]]
      BY <2>4, <3>1 DEF Flagged, Update
    <3> QED
      BY <2>3, <3>1, <3>2, <3>3 DEF Cell
  <2>5. CASE Closed
    <3>1. PICK t \in Made : t = Target
      BY <1>0, <2>0, <2>5 DEF Closed
    <3>2. gens[t] \in Cell
      BY CurIs DEF CellOf
    <3>3. gens' = [gens EXCEPT ![t] = [gens[t] EXCEPT !.done = TRUE]]
      BY <2>5, <3>1 DEF Closed, Update
    <3> QED
      BY <2>3, <3>1, <3>2, <3>3 DEF Cell
  <2>6. CASE Loaded
    <3>1. PICK t \in Made : t = Target
      BY <1>0, <2>0, <2>6 DEF Loaded
    <3>2. gens' = [gens EXCEPT ![t] = [gens[t] EXCEPT !.inject = "throw"]] /\ ops' = Rest /\ ops[1].step = "inject"
      BY <1>0, <2>0, <2>6, <3>1 DEF Loaded, Update
    <3>3. HeadIs(ops', "resume") /\ ops'[1].gen = t
      BY <1>0, <2>0, <3>1, <3>2, RestIs
    <3>4. ~Active(t)
      <4>1. Len(ops) \in Nat \ {0}
        BY <1>0, <2>0, SeqParts
      <4>2. 1 \in 1 .. Len(ops)
        BY <4>1
      <4>3. ops[1].gen \in Idle
        BY <3>2, <4>2 DEF Injected, Aimed
      <4> QED
        BY <1>0, <2>0, <3>1, <4>3 DEF Idle
    <3> QED
      BY <2>3, <3>1, <3>2, <3>3, <3>4
  <2>7. CASE Doomed
    <3>1. PICK t \in Made : t = Target
      BY <1>0, <2>0, <2>7 DEF Doomed
    <3>2. /\ gens' = [gens EXCEPT ![t] = [gens[t] EXCEPT !.destroying = TRUE, !.inject = "destroy"]]
          /\ ops' = Do(<<"resume">>, t) \o Tail(ops)
      BY <2>7, <3>1 DEF Doomed, Rest
    <3>3. Replaced(ops', ops, <<"resume">>, t) /\ Len(ops) \in Nat
      BY <1>0, <2>0, <3>1, <3>2, LoopLists, HeadReplaced, LenProperties
    <3>4. HeadIs(ops', "resume") /\ ops'[1].gen = t
      BY <3>3, ReplacedByOne DEF HeadIs
    <3>5. ~Active(t)
      <4>1. gens[t].coro = "here"
        BY <2>7, <3>1 DEF Doomed, Live
      <4> QED
        BY <4>1 DEF Chain, Framed
    <3> QED
      BY <2>3, <3>1, <3>2, <3>4, <3>5
  <2> QED
    BY <1>3, <2>2, <2>4, <2>5, <2>6, <2>7 DEF Here
<1>4. CASE Turn
  <2>1. g \in Made /\ Loose(g) /\ ops # <<>> /\ ops[1].step = "turn"
    BY <1>0, <1>4, <1>n DEF Turn, Step
  <2> QED
    BY <1>l, <2>1 DEF HeadIs
<1>5. ASSUME NEW rest \in Rests, Leaving(rest)
      PROVE  ops # <<>> /\ Target \in Made /\ (g \in Made /\ Loose(g) => ops[1].step = "resume" /\ Target = g /\ ~Active(g))
  BY <1>0, <1>l, <1>5, LeavingIs DEF HeadIs, Leaving
<1>6. CASE Passed
  <2>1. g \in Made /\ Loose(g)
    BY <1>6, <1>n DEF Passed
  <2> QED
    BY <1>5, <1>6, <2>1 DEF Passed, Loose
<1>7. CASE Blocked
  <2>1. g \in Made /\ Loose(g) /\ Target = g /\ ~Active(g)
    BY <1>5, <1>7, <1>n DEF Blocked
  <2>2. gens[g].coro = "taken"
    BY <1>7, <2>1 DEF Blocked
  <2> QED
    BY <2>1, <2>2 DEF Chain, Framed
<1>8. CASE Into
  <2>1. PICK rest \in Rests : Leaving(rest) /\ Switched(Target, rest)
    BY <1>8 DEF Into
  <2>2. PICK t \in Made : t = Target
    BY <2>1 DEF Leaving
  <2>3. gens' = [gens EXCEPT ![t] = Woken(t)]
    BY <2>1, <2>2 DEF Switched
  <2>4. g \in Made /\ (g = t => gens'[g] = Woken(t)) /\ (g # t => gens'[g] = gens[g])
    BY <2>3, CellWritten
  <2>5. Woken(t).inject = "none"
    <3>1. gens[t].started \/ gens[t].inject = "none"
      BY DEF Starts, Begin
    <3> QED
      BY <3>1, WokenIs DEF Forced
  <2> QED
    BY <1>5, <2>1, <2>2, <2>4, <2>5 DEF Loose
<1>9. CASE Back
  <2>1. PICK rest \in Rests : resumed # <<>> /\ Suspend(rest) /\ (Code \/ (ops # <<>> /\ Head(ops).step = "each"))
    BY <1>9 DEF Back
  <2>2. ~HeadIs(ops, "resume")
    BY <1>0, <2>1 DEF Code, Running, HeadIs
  <2>3. PICK c \in Made : c = Cur
    BY <2>1, CurIs
  <2>4. gens' = [gens EXCEPT ![c] = Slept(rest)] /\ Slept(rest).inject = gens[c].inject /\ Slept(rest).done = gens[c].done
    BY <2>1, <2>3, SuspendTypes, SleptIs DEF Rests
  <2>5. g \in Made /\ (g = c => gens'[g] = Slept(rest)) /\ (g # c => gens'[g] = gens[g])
    BY <2>4, CellWritten
  <2> QED
    BY <1>l, <2>2, <2>4, <2>5 DEF Loose
<1>10. CASE BodyEnds
  <2>1. /\ resumed # <<>> /\ ops = <<>>
        /\ gens' = [gens EXCEPT ![Cur] = Finished] /\ Finished.done = TRUE
    BY <1>10, BodyEndsTypes, FinishedIs
  <2>2. PICK c \in Made : c = Cur
    BY <2>1, CurIs
  <2>3. g \in Made /\ (g = c => gens'[g] = Finished) /\ (g # c => gens'[g] = gens[g])
    BY <2>1, <2>2, CellWritten
  <2> QED
    BY <1>l, <2>1, <2>3 DEF Loose, HeadIs
<1> QED
  BY <1>1, <1>2, <1>3, <1>4, <1>6, <1>7, <1>8, <1>9, <1>10, NextIs

LEMMA InjectedStep ==
  ASSUME Types, ByBodies, Chain, TameAll, Starts, Injected, "reenter" \notin Constructs, [Next]_vars
  PROVE  Injected'
<1>1. \A g \in Made' : Loose(g)' => HeadIs(ops', "resume") /\ ops'[1].gen = g /\ ~Active(g)'
  BY LooseStep
<1>2. Aimed(ops', Idle') /\ \A k \in 1 .. Len(resumed') : Aimed(resumed'[k].ops, {resumed'[k].gen})
  BY AimedOps, AimedWaiting
<1> QED
  BY <1>1, <1>2 DEF Injected, HeadIs, Aimed

LEMMA InjectedInit == Init => Injected
<1> SUFFICES ASSUME Init PROVE Injected
  OBVIOUS
<1>1. ops = <<>> /\ gens = <<>> /\ Made = {} /\ resumed = <<>> /\ Len(resumed) = 0 /\ Len(ops) = 0
  BY DEF Init, Made
<1> QED
  BY <1>1 DEF Injected, Aimed

\* What is stored to be thrown is about to be taken.
THEOREM InjectedHolds ==
  ASSUME "reenter" \notin Constructs
  PROVE  Spec => [](Types /\ ByBodies /\ Chain /\ TameAll /\ Starts /\ Injected)
<1>1. Types /\ ByBodies /\ Chain /\ TameAll /\ Starts /\ Injected /\ [Next]_vars => Injected'
  BY InjectedStep
<1>2. Init => Injected
  BY InjectedInit
<1> QED
  BY <1>1, <1>2, StartsHold, PTL DEF Spec

\* NothingInjectedLater: what gen_throw or gen_destroy stores in a generator
\* is taken by the resumption it was stored for, and by no later one.
THEOREM NothingInjectedLaterHolds ==
  ASSUME "reenter" \notin Constructs PROVE Spec => []NothingInjectedLater
<1>1. Types /\ Injected => NothingInjectedLater
  BY OpsAre DEF Injected, Loose, HeadIs, NothingInjectedLater
<1> QED
  BY <1>1, InjectedHolds, PTL

-----------------------------------------------------------------------------
(* Owners: what a loop over a generator nobody else holds refers to.       *)

About(s) == {s[i].gen : i \in 1 .. Len(s)}

LEMMA AboutRest ==
  ASSUME NEW S, NEW s \in Seq(S), s # <<>>
  PROVE  About(Tail(s)) \subseteq About(s) /\ s[1].gen \in About(s)
<1>1. /\ Len(s) \in Nat \ {0} /\ Len(Tail(s)) = Len(s) - 1
      /\ \A i \in 1 .. Len(s) - 1 : Tail(s)[i] = s[i + 1]
  BY SeqParts
<1>2. \A i \in 1 .. Len(s) - 1 : i + 1 \in 1 .. Len(s)
  BY <1>1
<1>3. 1 \in 1 .. Len(s)
  BY <1>1
<1> QED
  BY <1>1, <1>2, <1>3 DEF About

LEMMA AboutDo ==
  ASSUME NEW n \in Nat, n <= MaxGens, NEW g \in 1 .. n, NEW l \in Lists
  PROVE  About(Do(l, g)) \subseteq {g}
<1> DEFINE d == Do(l, g)
<1>1. Len(d) = Len(l) /\ \A i \in 1 .. Len(l) : d[i] = [step |-> l[i], gen |-> g]
  BY DoIs
<1> HIDE DEF d
<1>2. ASSUME NEW i \in 1 .. Len(d) PROVE d[i].gen = g
  <2>1. d[i] = [step |-> l[i], gen |-> g]
    BY <1>1
  <2> QED
    BY <2>1
<1>3. About(d) \subseteq {g}
  BY <1>2 DEF About
<1> QED
  BY <1>3 DEF d

LEMMA AboutReplaced ==
  ASSUME NEW n \in Nat, NEW s \in Seq(OpOf(n)), s # <<>>, NEW t, NEW g, NEW l,
         Replaced(t, s, l, g), Len(l) \in Nat
  PROVE  About(t) \subseteq About(s) \cup {g}
<1>1. Len(s) \in Nat \ {0} /\ Len(t) = Len(l) + Len(s) - 1
  BY SeqParts DEF Replaced
<1>2. ASSUME NEW i \in 1 .. Len(t) PROVE t[i].gen \in About(s) \cup {g}
  <2>1. CASE i <= Len(l)
    <3>1. i \in 1 .. Len(l)
      BY <1>1, <2>1
    <3> QED
      BY <3>1 DEF Replaced
  <2>2. CASE i > Len(l)
    <3> DEFINE j == i - Len(l) + 1
    <3>1. j \in 2 .. Len(s) /\ j \in 1 .. Len(s) /\ Len(l) + j - 1 = i
      BY <1>1, <2>2
    <3> HIDE DEF j
    <3>2. t[i] = s[j]
      BY <3>1 DEF Replaced
    <3> QED
      BY <3>1, <3>2 DEF About
  <2> QED
    BY <1>1, <2>1, <2>2
<1> QED
  BY <1>2 DEF About

LEMMA AboutEnds ==
  ASSUME NEW n \in Nat, NEW rest \in Seq(OpOf(n))
  PROVE  About(<<>>) = {} /\ About(AfterError(rest)) \subseteq About(rest)
<1>1. About(<<>>) = {}
  BY DEF About
<1>2. ASSUME rest # <<>> PROVE About(<< rest[1] >>) \subseteq About(rest)
  <2>1. About(<< rest[1] >>) = {rest[1].gen}
    BY DEF About
  <2> QED
    BY <1>2, <2>1, AboutRest
<1> QED
  BY <1>1, <1>2, AfterErrorIs

LEMMA AboutLeaving ==
  ASSUME Types, Tame(ops), NEW rest \in Rests, Leaving(rest)
  PROVE  About(rest) \subseteq About(ops) /\ Target \in About(ops)
<1> DEFINE n == Len(gens)
<1>0. n \in Nat /\ ops \in Seq(OpOf(n)) /\ ops # <<>> /\ Target = ops[1].gen
  BY CurIs, LeavingIs DEF Types
<1>1. About(Rest) \subseteq About(ops) /\ Target \in About(ops)
  BY <1>0, AboutRest DEF Rest
<1>2. CASE Replaced(rest, ops, <<"first">>, Target)
  <2>1. Len(<<"first">>) \in Nat
    OBVIOUS
  <2>2. About(rest) \subseteq About(ops) \cup {Target}
    BY <1>0, <1>2, <2>1, AboutReplaced
  <2> QED
    BY <1>1, <2>2
<1> QED
  BY <1>1, <1>2, LeavingIs

\* A step that stays in its code takes up nothing but what that code could
\* reach: a generator that is held, or one of its own loops.
LEMMA AboutStill ==
  ASSUME Types, ByBodies, TameAll,
         Quiet \/ Asked \/ Return \/ LoopOver \/ Here \/ Turn \/ Passed \/ Blocked,
         NEW g \in Made, ~gens[g].held, g \in About(ops')
  PROVE  g \in About(ops) \/ g \in LoopsOver(regions[Cur])
<1> DEFINE n == Len(gens)
<1>0. /\ n \in Nat /\ n <= MaxGens /\ MaxGens \in Nat /\ Made = 1 .. n /\ Tame(ops) /\ ops \in Seq(OpOf(n))
      /\ About(<<>>) = {} /\ Main \notin Made
  BY CurIs, AboutEnds, EmptySeq DEF TameAll, Types
<1>t. ops # <<>> => About(Rest) \subseteq About(ops) /\ Target \in About(ops) /\ Target = ops[1].gen
  BY <1>0, AboutRest, OpsAre DEF Rest
<1>1. CASE Quiet
  BY <1>1 DEF Quiet
<1>2. CASE Asked
  <2>1. PICK l \in Begins, t \in Made : ops' = Do(l, t) /\ (gens[t].held \/ t \in LoopsOver(regions[Cur]))
    BY <1>2 DEF Asked
  <2>2. About(ops') \subseteq {t}
    BY <1>0, <2>1, BeginsAre, AboutDo
  <2> QED
    BY <2>1, <2>2
<1>3. CASE Return
  <2>1. ops' \in Seq(ReturnOps) /\ ReturnOps \subseteq OpOf(n)
    BY <1>3, ReturnIs
  <2>2. PICK i \in 1 .. Len(ops') : ops'[i].gen = g
    BY DEF About
  <2>3. ops'[i] \in ReturnOps
    BY <2>1, SeqParts
  <2> QED
    BY <1>0, <2>2, <2>3 DEF ReturnOps
<1>4. CASE LoopOver
  <2> DEFINE l == <<"closed", "init", "check", "bubble", "init", "bubble", "turn">>
  <2>1. ops' = Do(l, n + 1) /\ n < MaxGens /\ l \in Lists
    BY <1>4, LoopLists DEF LoopOver
  <2>2. n + 1 \in Nat /\ n + 1 <= MaxGens /\ n + 1 \in 1 .. n + 1
    BY <1>0, <2>1
  <2> HIDE DEF l
  <2>3. About(ops') \subseteq {n + 1}
    BY <2>1, <2>2, AboutDo
  <2> QED
    BY <1>0, <2>3
<1>5. CASE Here
  <2>1. ops # <<>> /\ Head(ops) = ops[1] /\ (Head(ops).step # "return" => Target \in 1 .. n)
    BY <1>0, <1>5, OpsAre DEF Here
  <2>2. CASE (\E steps : Dropped(steps) \/ Stopped(steps)) \/ Returned \/ Flagged \/ Loaded \/ Closed
    BY <1>0, <1>t, <2>1, <2>2 DEF Dropped, Stopped, Returned, Flagged, Loaded, Closed, Update
  <2>3. ASSUME NEW l \in {<<"resume">>, <<"force", "over">>}, ops' = Do(l, Target) \o Tail(ops), Target \in 1 .. n
        PROVE  g \in About(ops)
    <3>1. l \in Lists
      BY LoopLists
    <3>2. Replaced(ops', ops, l, Target) /\ Len(l) \in Nat
      BY <1>0, <2>1, <2>3, <3>1, HeadReplaced, ListsAreSteps
    <3>3. About(ops') \subseteq About(ops) \cup {Target}
      BY <1>0, <2>1, <3>2, AboutReplaced
    <3> QED
      BY <1>t, <2>1, <3>3
  <2>4. CASE Doomed
    <3>1. ops' = Do(<<"resume">>, Target) \o Tail(ops) /\ Target \in 1 .. n
      BY <2>1, <2>4 DEF Doomed, Rest
    <3> QED
      BY <2>3, <3>1
  <2>5. CASE Freed
    <3>1. ops' = Do(<<"force", "over">>, Target) \o Tail(ops) /\ Target \in 1 .. n
      BY <2>1, <2>5 DEF Freed, Rest
    <3> QED
      BY <2>3, <3>1
  <2> QED
    BY <1>5, <2>2, <2>4, <2>5 DEF Here
<1>6. CASE Turn
  BY <1>t, <1>6 DEF Turn, Step
<1>7. CASE Passed
  BY <1>0, <1>7, AboutLeaving DEF Passed
<1>8. CASE Blocked
  <2>1. PICK rest \in Rests : Leaving(rest) /\ ops' = AfterError(rest)
    BY <1>8 DEF Blocked
  <2>2. About(ops') \subseteq About(rest) /\ About(rest) \subseteq About(ops)
    BY <1>0, <2>1, AboutEnds, AboutLeaving DEF Rests
  <2> QED
    BY <2>2
<1> QED
  BY <1>1, <1>2, <1>3, <1>4, <1>5, <1>6, <1>7, <1>8

\* The code c has something to do with g: it is inside of a loop over it, or
\* runs, waits or sleeps in a host function that is about it.
Refers(c, g) ==
  \/ g \in LoopsOver(regions[c])
  \/ c = Cur /\ g \in About(ops)
  \/ \E k \in 1 .. Len(resumed) : Resuming(k) = c /\ g \in About(resumed[k].ops)
  \/ c \in Made /\ g \in About(gens[c].cont)

\* Only c has, which is older, and nobody else resumes g.
Owned(g, c) ==
  /\ c < g
  /\ \A d \in Codes : Refers(d, g) => d = c
  /\ \A k \in 1 .. Len(resumed) : resumed[k].gen = g => Resuming(k) = c

Owners == \A g \in Made : ~gens[g].held => \E c \in Codes : Owned(g, c)

LEMMA LoopsShrink ==
  ASSUME Types, ByBodies, [Next]_vars, NEW d \in Codes, NEW g \in Made, g \in LoopsOver(regions'[d])
  PROVE  g \in LoopsOver(regions[d])
<1> DEFINE n == Len(gens)
           R == RegionOf(n)
<1>0. regions \in [Codes -> Seq(R)] /\ Cur \in Codes /\ n \in Nat /\ Made = 1 .. n /\ regions[Cur] \in Seq(R)
  BY CurIs DEF Types
<1>1. CASE UNCHANGED regions
  BY <1>1
<1>2. CASE Trimmed
  BY <1>0, <1>2 DEF Trimmed
<1>3. CASE LoopOver
  <2> DEFINE r == In("loop", n + 1, "none")
             old == regions[Cur]
  <2>1. regions' = [regions EXCEPT ![Cur] = Append(old, r)]
    BY <1>3 DEF LoopOver, Enter
  <2>2. r.gen = n + 1
    BY DEF In
  <2> HIDE DEF r
  <2>3. CASE d # Cur
    BY <1>0, <2>1, <2>3
  <2>4. CASE d = Cur
    <3> DEFINE new == Append(old, r)
    <3>1. regions'[d] = new
      BY <1>0, <2>1, <2>4
    <3>2. /\ Len(old) \in Nat /\ Len(new) = Len(old) + 1 /\ new[Len(old) + 1] = r
          /\ \A i \in 1 .. Len(old) : new[i] = old[i]
      BY <1>0, SeqParts, AppendProperties
    <3> HIDE DEF new
    <3>3. PICK i \in 1 .. Len(new) : new[i].kind = "loop" /\ new[i].gen = g
      BY <3>1 DEF LoopsOver
    <3>4. i \in 1 .. Len(old)
      <4>1. g # n + 1
        BY <1>0
      <4> QED
        BY <2>2, <3>2, <3>3, <4>1
    <3> QED
      BY <2>4, <3>2, <3>3, <3>4 DEF LoopsOver
  <2> QED
    BY <2>3, <2>4
<1>4. CASE Turn
  BY <1>1, <1>2, <1>4, TrimIs DEF Turn
<1>5. CASE Quiet \/ Asked \/ Return \/ Here \/ ShutdownNext
  BY <1>1, <1>2, <1>5 DEF Quiet, Asked, Return, Here, ShutdownNext
<1>6. CASE Passed \/ Blocked \/ Into \/ Back \/ BodyEnds
  BY <1>1, <1>6 DEF Passed, Blocked, Into, Back, BodyEnds
<1> QED
  BY <1>3, <1>4, <1>5, <1>6, NextIs

\* A generator that is asleep, or waits, has the rest of its delegation where
\* it was, and a new one has none.
LEMMA ContIs ==
  ASSUME Types, ByBodies, Still \/ BodyEnds, NEW d \in Made', NEW g, g \in About(gens'[d].cont)
  PROVE  d \in Made /\ g \in About(gens[d].cont)
<1>0. About(<<>>) = {}
  BY AboutEnds DEF About
<1>1. ASSUME NEW h \in BOOLEAN, Len(gens) < MaxGens, Make(h) PROVE d \in Made /\ g \in About(gens[d].cont)
  BY <1>0, <1>1, MakeIs
<1>2. ASSUME NEW cell, Marked(cell) PROVE d \in Made /\ g \in About(gens[d].cont)
  <2>1. Target \in Made /\ gens' = [gens EXCEPT ![Target] = cell] /\ cell.cont = gens[Target].cont
    BY <1>2 DEF Marked
  <2> QED
    BY <2>1, CellWritten
<1>3. CASE BodyEnds
  <2>1. gens' = [gens EXCEPT ![Cur] = Finished] /\ Finished.cont = gens[Cur].cont /\ Cur \in Made
    BY <1>3, BodyEndsTypes, FinishedIs, CurIs
  <2> QED
    BY <2>1, CellWritten
<1>4. CASE gens' = gens
  BY <1>4 DEF Made
<1> QED
  BY <1>1, <1>2, <1>3, <1>4 DEF Still

\* Nobody takes up anything that was another's.
LEMMA RefersShrinks ==
  ASSUME Types, ByBodies, Chain, TameAll, [Next]_vars, ~ShutdownNext,
         NEW g \in Made, ~gens[g].held, NEW d \in Codes, Refers(d, g)'
  PROVE  Refers(d, g)
<1> DEFINE n == Len(resumed)
<1>0. Tame(ops) /\ Made = 1 .. Len(gens) /\ Len(gens) \in Nat /\ ops \in Seq(OpOf(Len(gens))) /\ About(<<>>) = {}
  BY CurIs, AboutEnds DEF TameAll, Types
<1>1. CASE g \in LoopsOver(regions'[d])
  BY <1>1, LoopsShrink DEF Refers
<1>2. CASE Quiet \/ Asked \/ Return \/ LoopOver \/ Here \/ Turn \/ Passed \/ Blocked
  <2>1. Still
    <3>1. Still \/ Into \/ Back \/ BodyEnds
      BY Moves
    <3>2. resumed' = resumed
      BY <1>2 DEF Quiet, Asked, Return, LoopOver, Here, Turn, Passed, Blocked, Dropped, Stopped, Returned, Flagged, Loaded, Closed, Doomed, Freed, Update
    <3>3. Into \/ Back \/ BodyEnds => Len(resumed') # Len(resumed)
      <4>1. CASE Into
        <5>1. PICK rest \in Rests : Leaving(rest) /\ Switched(Target, rest)
          BY <4>1 DEF Into
        <5>2. Target \in Made
          BY <5>1 DEF Leaving
        <5>3. Len(resumed) \in Nat /\ Len(resumed') = Len(resumed) + 1
          BY <5>1, <5>2, AfterInto DEF Rests
        <5> QED
          BY <5>3
      <4>2. CASE Back \/ BodyEnds
        <5>1. Len(resumed) \in Nat \ {0} /\ Len(resumed') = Len(resumed) - 1
          BY <4>2, BackHeads, AfterBack
        <5> QED
          BY <5>1
      <4> QED
        BY <4>1, <4>2
    <3> QED
      BY <3>1, <3>2, <3>3
  <2>2. Cur' = Cur /\ resumed' = resumed /\ \A k : Resuming(k)' = Resuming(k)
    BY <2>1, StillChain DEF Still
  <2>3. CASE d = Cur' /\ g \in About(ops')
    BY <1>2, <2>2, <2>3, AboutStill DEF Refers
  <2>4. CASE \E k \in 1 .. Len(resumed') : Resuming(k)' = d /\ g \in About(resumed'[k].ops)
    BY <2>2, <2>4 DEF Refers
  <2>5. CASE d \in Made' /\ g \in About(gens'[d].cont)
    BY <2>1, <2>5, ContIs DEF Refers
  <2> QED
    BY <1>1, <2>3, <2>4, <2>5 DEF Refers
<1>3. CASE Into
  <2>1. PICK rest \in Rests : Leaving(rest) /\ Switched(Target, rest)
    BY <1>3 DEF Into
  <2>2. PICK t \in Made : t = Target
    BY <2>1 DEF Leaving
  <2> DEFINE r == [gen |-> t, ops |-> rest, saved |-> ctx]
  <2>3. /\ n \in Nat /\ Len(resumed') = n + 1 /\ Cur' = t /\ resumed'[n + 1] = r /\ r.ops = rest
        /\ \A k \in 1 .. n : resumed'[k] = resumed[k] /\ Resuming(k)' = Resuming(k)
        /\ \A m : m = n + 1 => Resuming(m)' = Cur
    BY <2>1, <2>2, AfterInto DEF Rests
  <2> HIDE DEF r, n
  <2>4. Made' = Made /\ gens'[t].cont = <<>> /\ \A h \in Made : h # t => gens'[h] = gens[h]
    <3>1. gens' = [gens EXCEPT ![t] = Woken(t)] /\ Woken(t).cont = <<>>
      BY <2>1, <2>2, WokenIs DEF Switched
    <3> QED
      BY <3>1, CellWritten
  <2>5. CASE d = Cur' /\ g \in About(ops')
    <3>1. ops' = <<>> \/ ops' = gens[t].cont
      BY <2>1, <2>2 DEF Switched
    <3>2. g \in About(gens[t].cont) /\ d = t
      BY <1>0, <2>3, <2>5, <3>1
    <3> QED
      BY <3>2 DEF Refers
  <2>6. ASSUME NEW k \in 1 .. n + 1, Resuming(k)' = d, g \in About(resumed'[k].ops) PROVE Refers(d, g)
    <3>1. CASE k = n + 1
      <4>1. d = Cur /\ g \in About(rest)
        BY <2>3, <2>6, <3>1
      <4>2. g \in About(ops)
        BY <1>0, <2>1, <4>1, AboutLeaving
      <4> QED
        BY <4>1, <4>2 DEF Refers
    <3>2. CASE k \in 1 .. n
      BY <2>3, <2>6, <3>2 DEF Refers, n
    <3> QED
      BY <2>3, <3>1, <3>2
  <2>7. CASE d \in Made' /\ g \in About(gens'[d].cont)
    <3>1. d # t
      BY <1>0, <2>4, <2>7
    <3> QED
      BY <2>4, <2>7, <3>1 DEF Refers
  <2> QED
    BY <1>1, <2>3, <2>5, <2>6, <2>7 DEF Refers
<1>4. ASSUME resumed # <<>>, resumed' = Front(resumed),
             About(ops') \subseteq About(Last(resumed).ops),
             d \in Made' /\ g \in About(gens'[d].cont) => Refers(d, g)
      PROVE  Refers(d, g)
  <2>1. /\ n \in Nat \ {0} /\ Len(resumed') = n - 1 /\ Last(resumed) = resumed[n]
        /\ Cur' = Resuming(n)
        /\ \A k \in 1 .. n - 1 : resumed'[k] = resumed[k] /\ Resuming(k)' = Resuming(k)
    BY <1>4, AfterBack
  <2>2. n \in 1 .. n /\ \A k \in 1 .. n - 1 : k \in 1 .. n
    BY <2>1
  <2> HIDE DEF n
  <2>3. CASE d = Cur' /\ g \in About(ops')
    <3>1. Resuming(n) = d /\ g \in About(resumed[n].ops)
      BY <1>4, <2>1, <2>3
    <3> QED
      BY <2>2, <3>1 DEF Refers, n
  <2>4. ASSUME NEW k \in 1 .. n - 1, Resuming(k)' = d, g \in About(resumed'[k].ops) PROVE Refers(d, g)
    BY <2>1, <2>2, <2>4 DEF Refers, n
  <2> QED
    BY <1>1, <1>4, <2>1, <2>3, <2>4 DEF Refers
<1>5. CASE Back
  <2>1. PICK rest \in Rests :
          /\ resumed # <<>> /\ Suspend(rest)
          /\ rest = <<>> \/ (ops # <<>> /\ Target \in Made /\ rest = Do(<<"resume", "each">>, Target))
    BY <1>5 DEF Back
  <2>2. /\ gens' = [gens EXCEPT ![Cur] = Slept(rest)] /\ resumed' = Front(resumed) /\ ops' = Last(resumed).ops
        /\ Cur \in Made /\ Slept(rest).cont = rest
    BY <2>1, SuspendTypes, SleptIs, CurIs DEF Rests
  <2>3. ASSUME d \in Made', g \in About(gens'[d].cont) PROVE Refers(d, g)
    <3>1. d \in Made /\ (d = Cur => gens'[d] = Slept(rest)) /\ (d # Cur => gens'[d] = gens[d])
      BY <2>2, <2>3, CellWritten
    <3>2. CASE d # Cur
      BY <2>3, <3>1, <3>2 DEF Refers
    <3>3. CASE d = Cur
      <4>1. g \in About(rest)
        BY <2>2, <2>3, <3>1, <3>3
      <4>2. ops # <<>> /\ Target \in Made /\ rest = Do(<<"resume", "each">>, Target)
        BY <1>0, <2>1, <4>1
      <4>3. g = Target
        <5> DEFINE l == <<"resume", "each">>
        <5>1. l \in Lists /\ rest = Do(l, Target)
          BY <4>2, LoopLists
        <5> HIDE DEF l
        <5>2. About(rest) \subseteq {Target}
          BY <1>0, <4>2, <5>1, AboutDo, CurIs
        <5> QED
          BY <4>1, <5>2
      <4>4. Target \in About(ops)
        BY <1>0, <4>2, AboutRest, OpsAre
      <4> QED
        BY <3>3, <4>3, <4>4 DEF Refers
    <3> QED
      BY <3>2, <3>3
  <2> QED
    BY <1>4, <2>1, <2>2, <2>3
<1>6. CASE BodyEnds
  <2>1. /\ resumed # <<>> /\ resumed' = Front(resumed)
        /\ ops' = Last(resumed).ops \/ ops' = AfterError(Last(resumed).ops)
    BY <1>6, BodyEndsTypes
  <2>2. Last(resumed).ops \in Rests
    BY <2>1, CurIs DEF ResumerOf, Rests
  <2>3. About(ops') \subseteq About(Last(resumed).ops)
    BY <1>0, <2>1, <2>2, AboutEnds DEF Rests
  <2>4. d \in Made' /\ g \in About(gens'[d].cont) => Refers(d, g)
    BY <1>6, ContIs DEF Refers
  <2> QED
    BY <1>4, <2>1, <2>3, <2>4
<1> QED
  BY <1>2, <1>3, <1>5, <1>6, NextIs

\* Ended: how a generator comes to be over, and that nothing is left of it.
Ended ==
  /\ \A g \in Made : gens[g].done => regions[g] = <<>> /\ gens[g].cont = <<>> /\ ~Active(g)
  /\ HeadIs(ops, "over") => gens[ops[1].gen].done \/ ~gens[ops[1].gen].started
  /\ HeadIs(ops, "force") => ~Active(ops[1].gen)
  /\ HeadIs(ops, "resume") /\ Len(ops) >= 2 /\ ops[2].step = "over" =>
       ~Active(ops[1].gen) /\ gens[ops[1].gen].destroying
  /\ \A k \in 1 .. Len(resumed) :
       /\ HeadIs(resumed[k].ops, "over") =>
            resumed[k].ops[1].gen = resumed[k].gen /\ gens[resumed[k].gen].destroying
       /\ ~HeadIs(resumed[k].ops, "force")
       /\ ~(HeadIs(resumed[k].ops, "resume") /\ Len(resumed[k].ops) >= 2 /\ resumed[k].ops[2].step = "over")

\* Closing: shutdown_generators destroys one generator after the other, and
\* the main program has nothing else to do.
Pair(s, g) ==
  /\ Len(s) = 2 /\ s[1].step \in {"force", "resume"} /\ s[1].gen = g
  /\ s[2].step = "over" /\ s[2].gen = g
Single(s, g) == Len(s) = 1 /\ s[1].step = "over" /\ s[1].gen = g

Destruction ==
  \/ resumed = <<>> /\ ops = <<>>
  \/ resumed = <<>> /\ Pair(ops, next - 1)
  \/ Single(Base, next - 1)

Closing ==
  /\ phase = "run" => next = 1
  /\ phase # "run" =>
       /\ regions[Main] = <<>> /\ next - 1 <= Len(gens)
       /\ \A g \in 1 .. next - 1 : gens[g].done \/ (g = next - 1 /\ Base # <<>>)
       /\ Destruction
  /\ phase = "over" => resumed = <<>> /\ ops = <<>> /\ (Unwinding \/ next > count)

\* What a step does to any cell.
LEMMA CellStep ==
  ASSUME Types, ByBodies, Chain, [Next]_vars, NEW g \in Made
  PROVE  /\ gens'[g].held = gens[g].held
         /\ gens[g].destroying => gens'[g].destroying
         /\ gens[g].done => gens'[g].done
         /\ gens[g].started => gens'[g].started
<1>1. CASE Still
  <2>1. CASE gens' = gens
    BY <2>1
  <2>2. CASE Len(gens) < MaxGens /\ \E h \in BOOLEAN : Make(h)
    BY <2>2, MakeIs
  <2>3. ASSUME NEW cell, Marked(cell)
        PROVE  /\ gens'[g].held = gens[g].held
               /\ gens[g].destroying => gens'[g].destroying
               /\ gens[g].done => gens'[g].done
               /\ gens[g].started => gens'[g].started
    <3>1. /\ Target \in Made /\ gens' = [gens EXCEPT ![Target] = cell] /\ cell.held = gens[Target].held
          /\ gens[Target].destroying => cell.destroying
          /\ gens[Target].done => cell.done
          /\ gens[Target].started => cell.started
      BY <2>3 DEF Marked
    <3> QED
      BY <3>1, CellWritten
  <2> QED
    BY <1>1, <2>1, <2>2, <2>3 DEF Still
<1>2. CASE Into
  <2>1. PICK t \in Made : gens' = [gens EXCEPT ![t] = Woken(t)]
    BY <1>2 DEF Into, Leaving, Switched
  <2>2. /\ Woken(t).held = gens[t].held /\ Woken(t).destroying = gens[t].destroying
        /\ Woken(t).done = gens[t].done /\ Woken(t).started = TRUE
    BY WokenIs
  <2>3. (g = t => gens'[g] = Woken(t)) /\ (g # t => gens'[g] = gens[g])
    BY <2>1, CellWritten
  <2> QED
    BY <2>2, <2>3
<1>3. CASE Back
  <2>1. PICK rest \in Rests : resumed # <<>> /\ Suspend(rest)
    BY <1>3 DEF Back
  <2>2. Cur \in Made /\ gens' = [gens EXCEPT ![Cur] = Slept(rest)]
    BY <2>1, SuspendTypes, CurIs DEF Rests
  <2>3. /\ Slept(rest).held = gens[Cur].held /\ Slept(rest).destroying = gens[Cur].destroying
        /\ Slept(rest).done = gens[Cur].done /\ Slept(rest).started = gens[Cur].started
    BY <2>1, SleptIs DEF Rests
  <2> QED
    BY <2>2, <2>3, CellWritten
<1>4. CASE BodyEnds
  <2>1. Cur \in Made /\ gens' = [gens EXCEPT ![Cur] = Finished]
    BY <1>4, BodyEndsTypes, CurIs
  <2>2. /\ Finished.held = gens[Cur].held /\ Finished.destroying = gens[Cur].destroying
        /\ Finished.done = TRUE /\ Finished.started = gens[Cur].started
    BY <1>4, BodyEndsTypes, FinishedIs
  <2> QED
    BY <2>1, <2>2, CellWritten
<1> QED
  BY <1>1, <1>2, <1>3, <1>4, Moves

LEMMA NewMade ==
  ASSUME Types, ByBodies, Chain, [Next]_vars, NEW g \in Made', g \notin Made
  PROVE  \E h \in BOOLEAN : Len(gens) < MaxGens /\ Make(h) /\ resumed' = resumed
<1>1. CASE Still
  <2>1. gens' # gens /\ ~\E cell : Marked(cell)
    BY CellWritten DEF Made, Marked
  <2> QED
    BY <1>1, <2>1 DEF Still
<1>2. CASE Into
  BY <1>2, CellWritten DEF Into, Leaving, Switched
<1>3. CASE Back
  <2>1. PICK rest \in Rests : resumed # <<>> /\ Suspend(rest)
    BY <1>3 DEF Back
  <2> QED
    BY <2>1, SuspendTypes, CurIs, CellWritten DEF Rests
<1>4. CASE BodyEnds
  BY <1>4, BodyEndsTypes, CurIs, CellWritten
<1> QED
  BY <1>1, <1>2, <1>3, <1>4, Moves

\* A generator just made is the business of the code that made it.
LEMMA NewOwned ==
  ASSUME Types, ByBodies, [Next]_vars, NEW h \in BOOLEAN, Len(gens) < MaxGens, Make(h),
         resumed' = resumed, NEW g, g = Len(gens) + 1
  PROVE  \E c \in Codes : Owned(g, c)'
<1> DEFINE n == Len(gens)
<1>m. Main = 0
  BY DEF Main
<1>0. /\ n \in Nat /\ Made = 1 .. n /\ Cur \in Codes /\ Main = 0
      /\ Cur = Main \/ Cur \in Made
  BY <1>m, CurIs
<1>1. Cur' = Cur /\ \A k : Resuming(k)' = Resuming(k)
  BY DEF Cur, Resuming
<1>2. Cur < g
  BY <1>0
<1>3. ASSUME NEW s \in Seq(OpOf(n)) PROVE g \notin About(s)
  <2>1. ASSUME NEW i \in 1 .. Len(s) PROVE s[i].gen # g
    <3>1. s[i] \in OpOf(n)
      BY <1>3, SeqParts
    <3>2. s[i].gen \in 1 .. n \/ s[i].gen = Main
      BY <3>1 DEF OpOf
    <3> QED
      BY <1>0, <3>2
  <2> QED
    BY <2>1 DEF About
<1>4. \A d \in Codes : g \notin LoopsOver(regions[d])
  <2>1. ASSUME NEW d \in Codes, NEW i \in 1 .. Len(regions[d]), regions[d][i].kind = "loop"
        PROVE  regions[d][i].gen # g
    <3>1. regions[d] \in Seq(RegionOf(n))
      BY DEF Types
    <3>2. regions[d][i] \in RegionOf(n)
      BY <3>1, SeqParts
    <3>3. regions[d][i].gen \in 1 .. n
      BY <2>1, <3>2 DEF RegionOf
    <3> QED
      BY <1>0, <3>3
  <2> QED
    BY <2>1 DEF LoopsOver
<1>5. \A k \in 1 .. Len(resumed) : resumed[k].ops \in Seq(OpOf(n)) /\ resumed[k].gen # g
  <2>1. \A k \in 1 .. Len(resumed) : resumed[k] \in ResumerOf(n)
    BY SeqParts DEF Types
  <2> QED
    BY <1>0, <2>1 DEF ResumerOf
<1>6. \A d \in Made' : g \notin About(gens'[d].cont)
  <2>1. ASSUME NEW d \in Made PROVE gens'[d].cont \in Seq(OpOf(n))
    <3>1. gens[d] \in CellOf(n) /\ gens'[d] = gens[d]
      BY <2>1, CurIs, MakeIs
    <3> QED
      BY <3>1 DEF CellOf
  <2>2. About(<<>>) = {}
    BY DEF About
  <2> QED
    BY <1>0, <1>3, <2>1, <2>2, MakeIs
<1>7. ASSUME NEW d \in Codes, Refers(d, g)' PROVE d = Cur
  <2>1. CASE g \in LoopsOver(regions'[d])
    BY <1>4, <2>1, OwnRegions
  <2>2. CASE d = Cur' /\ g \in About(ops')
    BY <1>1, <2>2
  <2>3. ~(\E k \in 1 .. Len(resumed') : Resuming(k)' = d /\ g \in About(resumed'[k].ops))
    BY <1>3, <1>5
  <2>4. ~(d \in Made' /\ g \in About(gens'[d].cont))
    BY <1>6
  <2> QED
    BY <1>7, <2>1, <2>2, <2>3, <2>4 DEF Refers
<1>8. \A k \in 1 .. Len(resumed') : resumed'[k].gen # g
  BY <1>5
<1>9. ASSUME NEW c, c = Cur PROVE Owned(g, c)'
  BY <1>2, <1>7, <1>8, <1>9 DEF Owned
<1> QED
  BY <1>0, <1>9

\* A generator is resumed by nobody but the code it is the business of.
LEMMA ResumesOwned ==
  ASSUME Types, ByBodies, Chain, TameAll, [Next]_vars, NEW g \in Made, NEW c \in Codes, Owned(g, c)
  PROVE  \A k \in 1 .. Len(resumed') : resumed'[k].gen = g => Resuming(k)' = c
<1> DEFINE n == Len(resumed)
<1>1. CASE Still
  <2>1. resumed' = resumed /\ \A k : Resuming(k)' = Resuming(k)
    BY <1>1, StillChain DEF Still
  <2> QED
    BY <2>1 DEF Owned
<1>2. CASE Into
  <2>1. PICK rest \in Rests : Leaving(rest) /\ Switched(Target, rest)
    BY <1>2 DEF Into
  <2>2. PICK t \in Made : t = Target
    BY <2>1 DEF Leaving
  <2> DEFINE r == [gen |-> t, ops |-> rest, saved |-> ctx]
  <2>3. /\ n \in Nat /\ Len(resumed') = n + 1 /\ resumed'[n + 1] = r /\ r.gen = t
        /\ \A k \in 1 .. n : resumed'[k] = resumed[k] /\ Resuming(k)' = Resuming(k)
        /\ \A m : m = n + 1 => Resuming(m)' = Cur
    BY <2>1, <2>2, AfterInto DEF Rests
  <2> HIDE DEF r, n
  <2>4. ASSUME NEW k \in 1 .. n + 1, resumed'[k].gen = g PROVE Resuming(k)' = c
    <3>1. CASE k = n + 1
      <4>1. g = t /\ Resuming(k)' = Cur
        BY <2>3, <2>4, <3>1
      <4>2. g \in About(ops)
        BY <2>1, <2>2, <4>1, AboutLeaving DEF TameAll
      <4>3. Refers(Cur, g) /\ Cur \in Codes
        BY <4>2, CurIs DEF Refers
      <4> QED
        BY <4>1, <4>3 DEF Owned
    <3>2. CASE k \in 1 .. n
      BY <2>3, <2>4, <3>2 DEF Owned, n
    <3> QED
      BY <2>3, <3>1, <3>2
  <2> QED
    BY <2>3, <2>4
<1>3. CASE Back \/ BodyEnds
  <2>1. /\ n \in Nat \ {0} /\ Len(resumed') = n - 1
        /\ \A k \in 1 .. n - 1 : resumed'[k] = resumed[k] /\ Resuming(k)' = Resuming(k)
    BY <1>3, BackHeads, AfterBack
  <2>2. \A k \in 1 .. n - 1 : k \in 1 .. n
    BY <2>1
  <2> QED
    BY <2>1, <2>2 DEF Owned
<1> QED
  BY <1>1, <1>2, <1>3, Moves

LEMMA OwnersStep ==
  ASSUME Types, ByBodies, Chain, TameAll, Starts, Owners, Ended, Closing, [Next]_vars
  PROVE  Owners'
<1>m. Main = 0
  BY DEF Main
<1>a. About(<<>>) = {}
  BY DEF About
<1>0. /\ Made = 1 .. Len(gens) /\ Len(gens) \in Nat /\ Len(gens) <= MaxGens /\ MaxGens \in Nat
      /\ Main \in Codes /\ Main = 0 /\ About(<<>>) = {} /\ Made \subseteq Codes
  BY <1>m, <1>a, CurIs
<1>1. ASSUME NEW g \in Made, ~gens'[g].held, ~(ShutdownNext /\ g = next) PROVE \E c \in Codes : Owned(g, c)'
  <2>0. ~gens[g].held
    BY <1>1, CellStep
  <2>1. PICK c \in Codes : Owned(g, c)
    BY <2>0 DEF Owners
  <2>2. ASSUME NEW d \in Codes, Refers(d, g)' PROVE d = c
    <3>1. CASE ~ShutdownNext
      BY <2>0, <2>1, <2>2, <3>1, RefersShrinks DEF Owned
    <3>2. CASE ShutdownNext
      <4>1. next \in 1 .. Len(gens) /\ ops' = Do(<<"force", "over">>, next)
        BY <1>0, <3>2 DEF ShutdownNext, Types
      <4>2. About(ops') \subseteq {next}
        BY <1>0, <4>1, LoopLists, AboutDo
      <4>3. UNCHANGED <<gens, regions, resumed>>
        BY <3>2 DEF ShutdownNext
      <4>4. g \notin About(ops')
        BY <1>1, <3>2, <4>2
      <4>5. Refers(d, g)
        BY <2>2, <4>3, <4>4 DEF Refers, Resuming, Made
      <4> QED
        BY <2>1, <4>5 DEF Owned
    <3> QED
      BY <3>1, <3>2
  <2>3. \A k \in 1 .. Len(resumed') : resumed'[k].gen = g => Resuming(k)' = c
    BY <2>1, ResumesOwned
  <2>4. Owned(g, c)'
    BY <2>1, <2>2, <2>3 DEF Owned
  <2> QED
    BY <2>4
<1>2. ASSUME ShutdownNext, NEW g \in Made, g = next, ~gens[g].held PROVE Owned(g, Main)'
  <2>1. /\ phase = "shutdown" /\ resumed = <<>> /\ ops = <<>> /\ resumed' = <<>>
        /\ UNCHANGED <<gens, regions>>
    BY <1>2 DEF ShutdownNext
  <2>2. \A h \in 1 .. next - 1 : gens[h].done
    BY <2>1 DEF Closing, Base
  <2>3. PICK c \in Codes : Owned(g, c)
    BY <1>2 DEF Owners
  <2>4. ASSUME NEW d \in Codes, Refers(d, g)', d # Main PROVE FALSE
    <3>1. Cur' = Main
      BY <2>1 DEF Cur
    <3>2. Refers(d, g)
      <4>1. ~(\E k \in 1 .. Len(resumed') : TRUE)
        BY <2>1
      <4> QED
        BY <2>1, <2>4, <3>1, <4>1 DEF Refers, Made
    <3>3. d = c /\ c < g
      BY <2>3, <3>2 DEF Owned
    <3>4. d \in 1 .. next - 1 /\ d \in Made
      <4>1. d \in Ids
        BY <2>4 DEF Codes
      <4> QED
        BY <1>0, <1>2, <3>3, <4>1 DEF Ids
    <3>5. regions[d] = <<>> /\ gens[d].cont = <<>>
      BY <2>2, <3>4 DEF Ended
    <3>6. LoopsOver(<<>>) = {}
      BY DEF LoopsOver
    <3>7. g \in LoopsOver(regions'[d]) \/ g \in About(gens'[d].cont)
      <4>1. ~(\E k \in 1 .. Len(resumed') : TRUE)
        BY <2>1
      <4> QED
        BY <2>4, <3>1, <4>1 DEF Refers
    <3> QED
      BY <1>0, <2>1, <3>5, <3>6, <3>7
  <2>5. \A k \in 1 .. Len(resumed') : resumed'[k].gen = g => Resuming(k)' = Main
    BY <2>1
  <2>6. Main < g
    BY <1>0, <1>2
  <2> QED
    BY <2>4, <2>5, <2>6 DEF Owned
<1>3. ASSUME NEW g \in Made', g \notin Made PROVE \E c \in Codes : Owned(g, c)'
  <2>1. PICK h \in BOOLEAN : Len(gens) < MaxGens /\ Make(h) /\ resumed' = resumed
    BY <1>3, NewMade
  <2>2. g = Len(gens) + 1
    BY <1>3, <2>1, MakeIs
  <2> QED
    BY <2>1, <2>2, NewOwned
<1>4. ASSUME NEW g \in Made', ~gens'[g].held PROVE \E c \in Codes : Owned(g, c)'
  <2>1. CASE g \notin Made
    BY <1>3, <2>1
  <2>2. CASE g \in Made /\ ~(ShutdownNext /\ g = next)
    BY <1>1, <1>4, <2>2
  <2>3. CASE g \in Made /\ ShutdownNext /\ g = next
    <3>1. ~gens[g].held
      BY <1>4, <2>3, CellStep
    <3> QED
      BY <1>0, <1>2, <2>3, <3>1
  <2> QED
    BY <2>1, <2>2, <2>3
<1> QED
  BY <1>4 DEF Owners

\* A generator is over when its body is, or when gen_destroy says so.
LEMMA DoneBy ==
  ASSUME Types, ByBodies, Chain, [Next]_vars, NEW g \in Made, gens'[g].done, ~gens[g].done
  PROVE  (Here /\ Closed /\ g = Target) \/ (BodyEnds /\ g = Cur)
<1>1. CASE Quiet \/ Asked \/ Return \/ LoopOver \/ Turn \/ ShutdownNext \/ Passed \/ Blocked
  <2>1. CASE gens' = gens
    BY <2>1
  <2>2. CASE Len(gens) < MaxGens /\ \E h \in BOOLEAN : Make(h)
    BY <2>2, MakeIs
  <2> QED
    BY <1>1, <2>1, <2>2, LoopOverTypes DEF Quiet, Asked, Return, Turn, ShutdownNext, Passed, Blocked
<1>2. CASE Here
  <2>1. CASE (\E steps : Dropped(steps) \/ Stopped(steps)) \/ Returned \/ Freed
    BY <2>1 DEF Dropped, Stopped, Returned, Freed
  <2>2. ASSUME Flagged \/ Loaded \/ Doomed \/ Closed PROVE Target \in Made /\ gens[Target] \in Cell
    BY <1>2, <2>2, CurIs DEF Here, Flagged, Loaded, Doomed, Closed, CellOf
  <2>3. CASE Closed
    <3>1. gens' = [gens EXCEPT ![Target] = [gens[Target] EXCEPT !.done = TRUE]]
      BY <2>3 DEF Closed, Update
    <3>2. g # Target => gens'[g] = gens[g]
      BY <2>2, <2>3, <3>1, CellWritten
    <3> QED
      BY <1>2, <2>3, <3>2
  <2>4. ASSUME NEW cell, gens' = [gens EXCEPT ![Target] = cell], cell.done = gens[Target].done, Target \in Made
        PROVE  FALSE
    BY <2>4, CellWritten
  <2>5. CASE Flagged
    <3>1. gens' = [gens EXCEPT ![Target] = [gens[Target] EXCEPT !.first = TRUE]]
      BY <2>5 DEF Flagged, Update
    <3> QED
      BY <2>2, <2>4, <2>5, <3>1 DEF Cell
  <2>6. CASE Loaded
    <3>1. gens' = [gens EXCEPT ![Target] = [gens[Target] EXCEPT !.inject = "throw"]]
      BY <2>6 DEF Loaded, Update
    <3> QED
      BY <2>2, <2>4, <2>6, <3>1 DEF Cell
  <2>7. CASE Doomed
    <3>1. gens' = [gens EXCEPT ![Target] = [gens[Target] EXCEPT !.destroying = TRUE, !.inject = "destroy"]]
      BY <2>7 DEF Doomed
    <3> QED
      BY <2>2, <2>4, <2>7, <3>1 DEF Cell
  <2> QED
    BY <1>2, <2>1, <2>3, <2>5, <2>6, <2>7 DEF Here
<1>3. CASE Into
  <2>1. PICK t \in Made : gens' = [gens EXCEPT ![t] = Woken(t)] /\ ~gens[t].done
    BY <1>3 DEF Into, Leaving, Switched
  <2>2. Woken(t).done = gens[t].done
    BY WokenIs
  <2> QED
    BY <2>1, <2>2, CellWritten
<1>4. CASE Back
  <2>1. PICK rest \in Rests : resumed # <<>> /\ Suspend(rest)
    BY <1>4 DEF Back
  <2>2. Cur \in Made /\ gens' = [gens EXCEPT ![Cur] = Slept(rest)] /\ Slept(rest).done = gens[Cur].done
    BY <2>1, SuspendTypes, SleptIs, CurIs DEF Rests
  <2> QED
    BY <2>2, CellWritten
<1>5. CASE BodyEnds
  <2>1. Cur \in Made /\ gens' = [gens EXCEPT ![Cur] = Finished]
    BY <1>5, BodyEndsTypes, CurIs
  <2>2. g # Cur => gens'[g] = gens[g]
    BY <2>1, CellWritten
  <2> QED
    BY <1>5, <2>2
<1> QED
  BY <1>1, <1>2, <1>3, <1>4, <1>5, NextIs

\* What sleeps keeps the rest of its delegation, but for what runs.
LEMMA ContKept ==
  ASSUME Types, ByBodies, Chain, [Next]_vars, NEW g \in Made, gens[g].cont = <<>>, g # Cur \/ BodyEnds
  PROVE  gens'[g].cont = <<>>
<1>1. CASE Still
  <2>1. CASE gens' = gens
    BY <2>1
  <2>2. CASE Len(gens) < MaxGens /\ \E h \in BOOLEAN : Make(h)
    BY <2>2, MakeIs
  <2>3. ASSUME NEW cell, Marked(cell) PROVE gens'[g].cont = <<>>
    <3>1. Target \in Made /\ gens' = [gens EXCEPT ![Target] = cell] /\ cell.cont = gens[Target].cont
      BY <2>3 DEF Marked
    <3> QED
      BY <3>1, CellWritten
  <2> QED
    BY <1>1, <2>1, <2>2, <2>3 DEF Still
<1>2. CASE Into
  <2>1. PICK t \in Made : gens' = [gens EXCEPT ![t] = Woken(t)]
    BY <1>2 DEF Into, Leaving, Switched
  <2>2. Woken(t).cont = <<>>
    BY WokenIs
  <2> QED
    BY <2>1, <2>2, CellWritten
<1>3. CASE BodyEnds
  <2>1. Cur \in Made /\ gens' = [gens EXCEPT ![Cur] = Finished] /\ Finished.cont = gens[Cur].cont
    BY <1>3, BodyEndsTypes, FinishedIs, CurIs
  <2> QED
    BY <2>1, CellWritten
<1>4. CASE Back /\ ~BodyEnds
  <2>1. PICK rest \in Rests : resumed # <<>> /\ Suspend(rest)
    BY <1>4 DEF Back
  <2>2. Cur \in Made /\ gens' = [gens EXCEPT ![Cur] = Slept(rest)]
    BY <2>1, SuspendTypes, CurIs DEF Rests
  <2> QED
    BY <1>4, <2>2, CellWritten
<1> QED
  BY <1>1, <1>2, <1>3, <1>4, Moves

\* Only what gen_resume goes into becomes active.
LEMMA ActiveBy ==
  ASSUME Types, ByBodies, Chain, [Next]_vars, NEW g, Active(g)', ~Active(g)
  PROVE  Into /\ g = Target /\ ~gens[g].done
<1>1. CASE Still
  BY <1>1, StillChain
<1>2. CASE Into
  <2>1. PICK rest \in Rests : Leaving(rest) /\ Switched(Target, rest)
    BY <1>2 DEF Into
  <2>2. PICK t \in Made : t = Target
    BY <2>1 DEF Leaving
  <2>3. Active(g)' <=> Active(g) \/ g = t
    BY <2>1, <2>2, AfterInto DEF Rests
  <2> QED
    BY <1>2, <2>1, <2>2, <2>3 DEF Switched
<1>3. CASE Back \/ BodyEnds
  BY <1>3, BackHeads, AfterBack
<1> QED
  BY <1>1, <1>2, <1>3, Moves

LEMMA EndedCells ==
  ASSUME Types, ByBodies, Chain, TameAll, Starts, Ended, [Next]_vars
  PROVE  \A g \in Made' : gens'[g].done => regions'[g] = <<>> /\ gens'[g].cont = <<>> /\ ~Active(g)'
<1>0. Made \subseteq Codes
  BY CurIs
<1>1. ASSUME NEW g \in Made, gens'[g].done PROVE regions'[g] = <<>> /\ gens'[g].cont = <<>> /\ ~Active(g)'
  <2>1. CASE gens[g].done
    <3>1. regions[g] = <<>> /\ gens[g].cont = <<>> /\ ~Active(g)
      BY <2>1 DEF Ended
    <3>2. g # Cur
      BY <3>1, CurActive
    <3> QED
      BY <1>0, <2>1, <3>1, <3>2, OwnRegions, ContKept, ActiveBy
  <2>2. CASE Here /\ Closed /\ g = Target /\ ~gens[g].done
    <3>1. ops # <<>> /\ ops[1].gen = g /\ HeadIs(ops, "over")
      BY <2>2, OpsAre DEF Here, Closed, HeadIs
    <3>2. ~gens[g].started
      BY <2>2, <3>1 DEF Ended
    <3>3. regions[g] = <<>> /\ gens[g].cont = <<>> /\ ~Active(g)
      BY <3>2 DEF Starts, Begin
    <3>4. g # Cur
      BY <3>3, CurActive
    <3>5. resumed' = resumed
      BY <2>2 DEF Closed, Update
    <3> QED
      BY <1>0, <3>3, <3>4, <3>5, OwnRegions, ContKept DEF Active
  <2>3. CASE BodyEnds /\ g = Cur
    <3>1. resumed # <<>> /\ resumed' = Front(resumed) /\ regions[Cur] = <<>> /\ regions' = regions
      BY <2>3, BodyEndsTypes
    <3>2. Active(g) /\ ~Active(g)'
      BY <2>3, <3>1, AfterBack
    <3>3. gens[g].cont = <<>>
      BY <3>2 DEF Starts, Begin
    <3> QED
      BY <2>3, <3>1, <3>2, <3>3, ContKept
  <2> QED
    BY <1>1, <2>1, <2>2, <2>3, DoneBy
<1>2. ASSUME NEW g \in Made', g \notin Made PROVE ~gens'[g].done
  <2>1. PICK h \in BOOLEAN : Len(gens) < MaxGens /\ Make(h)
    BY <1>2, NewMade
  <2> QED
    BY <1>2, <2>1, MakeIs
<1> QED
  BY <1>1, <1>2

\* What waits for the end of a body that is being destroyed.
Waits(r) ==
  /\ HeadIs(r.ops, "over") => r.ops[1].gen = r.gen /\ gens[r.gen].destroying
  /\ ~HeadIs(r.ops, "force")
  /\ ~(HeadIs(r.ops, "resume") /\ Len(r.ops) >= 2 /\ r.ops[2].step = "over")

LEMMA LastWaits ==
  ASSUME Types, ByBodies, Chain, TameAll, Ended, [Next]_vars, Back \/ BodyEnds
  PROVE  /\ HeadIs(ops', "over") => gens'[ops'[1].gen].done
         /\ ~HeadIs(ops', "force")
         /\ ~(HeadIs(ops', "resume") /\ Len(ops') >= 2 /\ ops'[2].step = "over")
<1> DEFINE top == resumed[Len(resumed)]
<1>1. /\ resumed # <<>> /\ Len(resumed) \in 1 .. Len(resumed) /\ Cur = top.gen /\ Cur \in Made
      /\ \A step : HeadIs(ops', step) => HeadIs(top.ops, step) /\ ops'[1] = top.ops[1]
  BY BackHeads
<1>2. Waits(top)
  BY <1>1 DEF Ended, Waits
<1>3. ops' = Last(resumed).ops \/ ops' = AfterError(Last(resumed).ops)
  BY SuspendTypes, BodyEndsTypes DEF Back, Rests
<1>4. Last(resumed) = top /\ Last(resumed) \in ResumerOf(Len(gens)) /\ Len(gens) \in Nat
  BY <1>1, AfterBack, BackHeads, CurIs
<1>5. top.ops \in Seq(OpOf(Len(gens)))
  BY <1>4 DEF ResumerOf
<1> HIDE DEF top
<1>6. ASSUME HeadIs(ops', "over") PROVE gens'[ops'[1].gen].done
  <2>1. ops'[1].gen = Cur /\ gens[Cur].destroying
    BY <1>1, <1>2, <1>6 DEF Waits
  <2>2. CASE Back
    BY <2>1, <2>2 DEF Back
  <2>3. CASE BodyEnds
    <3>1. gens' = [gens EXCEPT ![Cur] = Finished] /\ Finished.done = TRUE
      BY <2>3, BodyEndsTypes, FinishedIs
    <3> QED
      BY <1>1, <2>1, <3>1, CellWritten
  <2> QED
    BY <2>2, <2>3
<1>7. ~HeadIs(ops', "force")
  BY <1>1, <1>2 DEF Waits
<1>8. ~(HeadIs(ops', "resume") /\ Len(ops') >= 2 /\ ops'[2].step = "over")
  <2>1. CASE ops' = top.ops
    BY <1>2, <2>1 DEF Waits
  <2>2. CASE ops' = AfterError(top.ops)
    <3>1. HeadIs(ops', "resume") => "resume" = "over"
      BY <1>4, <1>5, <2>2, AfterErrorHead
    <3> QED
      BY <3>1
  <2> QED
    BY <1>3, <1>4, <2>1, <2>2
<1> QED
  BY <1>6, <1>7, <1>8

\* Nobody but its loop can destroy a generator that only the loop holds, and
\* while the loop's code runs the generator does not.
LEMMA FreedAsleep ==
  ASSUME Types, Chain, Owners, Freed, ops # <<>>
  PROVE  ~Active(Target)
<1>1. Target \in Made /\ ~gens[Target].held /\ Target = ops[1].gen /\ ops \in Seq(OpOf(Len(gens)))
  BY OpsAre DEF Freed, Types
<1>2. PICK c \in Codes : Owned(Target, c)
  BY <1>1 DEF Owners
<1>3. Refers(Cur, Target) /\ Cur \in Codes
  BY <1>1, AboutRest, CurIs DEF Refers
<1>4. Cur = c
  BY <1>2, <1>3 DEF Owned
<1>5. ASSUME NEW k \in 1 .. Len(resumed), resumed[k].gen = Target PROVE FALSE
  <2>1. Resuming(k) = Cur
    BY <1>2, <1>4, <1>5 DEF Owned
  <2> QED
    BY <2>1, ApartIs DEF Apart
<1> QED
  BY <1>5 DEF Active

\* What a resumption leaves to be done, when that is the end of a destruction.
LEMMA LeavesOver ==
  ASSUME Types, Tame(ops), Ended, NEW rest \in Rests, Leaving(rest)
  PROVE  /\ ops # <<>> /\ Target \in Made /\ ops[1].step \in {"init", "prime", "resume"}
         /\ \/ HeadIs(rest, "first")
            \/ rest = Rest
         /\ HeadIs(rest, "over") =>
              ops[1].step = "resume" /\ rest[1].gen = Target /\ ~Active(Target) /\ gens[Target].destroying
         /\ ~HeadIs(rest, "force")
         /\ ~(HeadIs(rest, "resume") /\ Len(rest) >= 2 /\ rest[2].step = "over")
<1>1. /\ ops # <<>> /\ Target \in Made /\ Target = ops[1].gen
      /\ \/ HeadIs(ops, "init") /\ HeadIs(rest, "first")
         \/ HeadIs(ops, "prime") /\ rest = Rest
         \/ HeadIs(ops, "resume") /\ rest = Rest
  BY LeavingIs
<1>2. CASE HeadIs(ops, "init") /\ HeadIs(rest, "first")
  BY <1>1, <1>2 DEF HeadIs
<1>3. CASE (HeadIs(ops, "prime") \/ HeadIs(ops, "resume")) /\ rest = Rest
  <2>1. /\ HeadIs(rest, "over") => ops[1].step \in {"force", "resume"} /\ rest[1].gen = Target
        /\ ~HeadIs(rest, "force")
        /\ Len(rest) >= 2 => rest[2].step # "over"
    BY <1>1, <1>3, RestIs
  <2>2. ASSUME HeadIs(rest, "over") PROVE HeadIs(ops, "resume") /\ Len(ops) >= 2 /\ ops[2].step = "over"
    <3>1. Len(ops) - 1 = Len(rest) /\ Len(ops) \in Nat /\ \A i \in 1 .. Len(ops) - 1 : rest[i] = ops[i + 1]
      BY <1>1, <1>3, OpsAre
    <3>2. Len(rest) # 0
      BY <1>1, <1>3, <2>2, OpsAre, EmptySeq DEF HeadIs
    <3>3. 1 \in 1 .. Len(ops) - 1 /\ 1 + 1 = 2
      BY <3>1, <3>2
    <3> QED
      BY <1>3, <2>1, <2>2, <3>1, <3>3 DEF HeadIs
  <2> QED
    BY <1>1, <1>3, <2>1, <2>2 DEF Ended, HeadIs
<1> QED
  BY <1>1, <1>2, <1>3

LEMMA EndedHeads ==
  ASSUME Types, ByBodies, Chain, TameAll, Starts, Owners, Ended, [Next]_vars
  PROVE  \A t : ops' # <<>> /\ t = ops'[1].gen =>
           /\ ops'[1].step = "over" => gens'[t].done \/ ~gens'[t].started
           /\ ops'[1].step = "force" => ~Active(t)'
           /\ ops'[1].step = "resume" /\ Len(ops') >= 2 /\ ops'[2].step = "over" => ~Active(t)' /\ gens'[t].destroying
<1> SUFFICES ASSUME NEW t, ops' # <<>>, t = ops'[1].gen
             PROVE  /\ ops'[1].step = "over" => gens'[t].done \/ ~gens'[t].started
                    /\ ops'[1].step = "force" => ~Active(t)'
                    /\ ops'[1].step = "resume" /\ Len(ops') >= 2 /\ ops'[2].step = "over" =>
                         ~Active(t)' /\ gens'[t].destroying
  OBVIOUS
<1> DEFINE n == Len(gens)
           Good == /\ ops'[1].step = "over" => gens'[t].done \/ ~gens'[t].started
                   /\ ops'[1].step = "force" => ~Active(t)'
                   /\ ops'[1].step = "resume" /\ Len(ops') >= 2 /\ ops'[2].step = "over" =>
                        ~Active(t)' /\ gens'[t].destroying
           Plain == /\ ops'[1].step # "over" /\ ops'[1].step # "force"
                    /\ ~(ops'[1].step = "resume" /\ Len(ops') >= 2 /\ ops'[2].step = "over")
<1> SUFFICES Good
  OBVIOUS
<1>0. /\ Tame(ops) /\ n \in Nat /\ n <= MaxGens /\ Made = 1 .. n /\ ops \in Seq(OpOf(n))
      /\ ops # <<>> => ops[1] = Head(ops) /\ Target = ops[1].gen
  BY CurIs, OpsAre DEF TameAll, Types
<1>p. Plain => Good
  OBVIOUS
<1>r. ASSUME ops # <<>>, ops' = Rest, ops[1].step \notin {"force", "resume"} PROVE Plain
  BY <1>0, <1>r, RestIs DEF HeadIs
<1> HIDE DEF Plain
<1>1. CASE Quiet
  <2>1. ops' = ops /\ resumed' = resumed /\ gens' = gens
    BY <1>1 DEF Quiet, Code, Running
  <2>2. /\ ops[1].step = "over" => gens[t].done \/ ~gens[t].started
        /\ ops[1].step = "force" => ~Active(t)
        /\ ops[1].step = "resume" /\ Len(ops) >= 2 /\ ops[2].step = "over" => ~Active(t) /\ gens[t].destroying
    BY <2>1 DEF Ended, HeadIs
  <2>3. Active(t)' <=> Active(t)
    BY <2>1 DEF Active
  <2> QED
    BY <2>1, <2>2, <2>3
<1>2. CASE Asked \/ Return \/ LoopOver \/ ShutdownNext
  <2>1. HeadIs(ops', ops'[1].step)
    BY DEF HeadIs
  <2>2. /\ ops'[1].step \in {"init", "closed", "prime", "release", "return", "bubble", "force"}
        /\ ops'[1].step = "force" => ShutdownNext
    BY <1>2, <2>1, CalledHeads
  <2>3. ShutdownNext => ~Active(t)'
    BY DEF ShutdownNext, Active
  <2> QED
    BY <2>2, <2>3
<1>3. CASE Here
  <2>1. ops # <<>> /\ (ops[1].step # "return" => Target \in 1 .. n)
    BY <1>0, <1>3 DEF Here
  <2>2. CASE \E steps : Stopped(steps)
    BY <2>2 DEF Stopped
  <2>3. CASE Dropped({"force"}) /\ ~Live(Target)
    <3>1. /\ ops[1].step = "force" /\ ops' = Rest /\ gens' = gens /\ resumed' = resumed /\ Target \in Made
      BY <1>0, <2>1, <2>3 DEF Dropped
    <3>2. ops'[1].step = "over" /\ t = Target
      BY <1>0, <2>1, <3>1, RestIs DEF HeadIs
    <3>3. ~Active(Target)
      BY <1>0, <2>1, <3>1 DEF Ended, HeadIs
    <3>4. gens[Target].coro = "here"
      BY <3>1, <3>3 DEF Chain, Framed
    <3> QED
      BY <2>3, <3>1, <3>2, <3>4 DEF Live
  <2>4. CASE \/ Dropped({"init", "prime"}) \/ Dropped({"check", "closed", "release", "bubble"}) \/ Dropped({"each"})
             \/ Returned \/ Flagged \/ Loaded \/ Closed
    <3>1. ops' = Rest /\ ops[1].step \notin {"force", "resume"}
      BY <1>0, <2>1, <2>4 DEF Dropped, Returned, Flagged, Loaded, Closed, Update
    <3> QED
      BY <1>p, <1>r, <2>1, <3>1
  <2>5. CASE Doomed
    <3>1. /\ gens' = [gens EXCEPT ![Target] = [gens[Target] EXCEPT !.destroying = TRUE, !.inject = "destroy"]]
          /\ ops' = Do(<<"resume">>, Target) \o Tail(ops) /\ resumed' = resumed /\ Live(Target) /\ Target \in 1 .. n
      BY <1>0, <2>1, <2>5 DEF Doomed, Rest
    <3>2. Replaced(ops', ops, <<"resume">>, Target) /\ Len(ops) \in Nat
      BY <1>0, <2>1, <3>1, LoopLists, HeadReplaced, LenProperties
    <3>3. ops'[1].step = "resume" /\ t = Target
      BY <3>2, ReplacedByOne
    <3>4. ~Active(t)
      BY <1>0, <3>1, <3>3 DEF Live, Chain, Framed
    <3>5. gens'[Target].destroying
      <4>1. gens[Target] \in Cell
        BY <1>0, <3>1, CurIs DEF CellOf
      <4>2. gens'[Target] = [gens[Target] EXCEPT !.destroying = TRUE, !.inject = "destroy"]
        BY <1>0, <3>1, CellWritten
      <4> QED
        BY <4>1, <4>2 DEF Cell
    <3> QED
      BY <3>1, <3>3, <3>4, <3>5 DEF Active
  <2>6. CASE Freed
    <3>1. ops' = Do(<<"force", "over">>, Target) \o Tail(ops) /\ resumed' = resumed /\ Target \in 1 .. n
      BY <1>0, <2>1, <2>6 DEF Freed, Rest
    <3>2. Replaced(ops', ops, <<"force", "over">>, Target) /\ Len(ops) \in Nat
      BY <1>0, <2>1, <3>1, LoopLists, HeadReplaced, LenProperties
    <3>3. ops'[1].step = "force" /\ t = Target
      BY <3>2, ReplacedByTwo
    <3>4. ~Active(t)
      BY <2>1, <2>6, <3>3, FreedAsleep
    <3> QED
      BY <3>1, <3>3, <3>4 DEF Active
  <2> QED
    BY <1>3, <2>2, <2>3, <2>4, <2>5, <2>6 DEF Here
<1>4. CASE Turn
  BY <1>0, <1>4, <1>p, <1>r DEF Turn, Step
<1>5. ASSUME NEW rest \in Rests, Leaving(rest)
      PROVE  /\ ops # <<>> /\ Target \in Made /\ ops[1].step \in {"init", "prime", "resume"}
             /\ \/ HeadIs(rest, "first")
                \/ rest = Rest
             /\ HeadIs(rest, "over") =>
                  ops[1].step = "resume" /\ rest[1].gen = Target /\ ~Active(Target) /\ gens[Target].destroying
             /\ ~HeadIs(rest, "force")
             /\ ~(HeadIs(rest, "resume") /\ Len(rest) >= 2 /\ rest[2].step = "over")
  BY <1>0, <1>5, LeavesOver
<1>6. CASE Passed
  <2>1. PICK rest \in Rests : Leaving(rest) /\ gens[Target].done /\ ops' = rest /\ gens' = gens
    BY <1>6 DEF Passed
  <2>2. /\ ~HeadIs(rest, "force") /\ ~(HeadIs(rest, "resume") /\ Len(rest) >= 2 /\ rest[2].step = "over")
        /\ HeadIs(rest, "over") => rest[1].gen = Target
    BY <1>5, <2>1
  <2> QED
    BY <2>1, <2>2 DEF HeadIs
<1>7. CASE Blocked
  <2>1. PICK rest \in Rests : Leaving(rest) /\ gens[Target].coro = "taken" /\ ops' = AfterError(rest)
    BY <1>7 DEF Blocked
  <2>2. HeadIs(ops', ops'[1].step)
    BY DEF HeadIs
  <2>3. HeadIs(rest, "over")
    BY <1>0, <2>1, <2>2, AfterErrorHead DEF Rests
  <2>4. ~Active(Target) /\ Target \in Made
    BY <1>5, <2>1, <2>3
  <2> QED
    BY <2>1, <2>4 DEF Chain, Framed
<1>8. CASE Into
  <2>1. Target \in Made /\ (ops' = <<>> \/ ops' = gens[Target].cont)
    BY <1>8 DEF Into, Leaving, Switched
  <2>2. PICK h \in Made : ops' = Do(<<"resume", "each">>, h)
    BY <2>1 DEF TameAll
  <2> DEFINE l == <<"resume", "each">>
  <2>3. l \in Lists /\ ops' = Do(l, h) /\ l[1] = "resume" /\ l[2] = "each" /\ Len(l) = 2
    BY <2>2, LoopLists
  <2> HIDE DEF l
  <2>4. ops'[1] = [step |-> "resume", gen |-> h] /\ ops'[2] = [step |-> "each", gen |-> h]
    <3>1. 1 \in 1 .. Len(l) /\ 2 \in 1 .. Len(l)
      BY <2>3
    <3> QED
      BY <1>0, <2>3, <3>1, DoIs
  <2>5. ops'[1].step = "resume" /\ ops'[2].step = "each"
    BY <2>4
  <2> QED
    BY <1>p, <2>5 DEF Plain
<1>9. CASE Back \/ BodyEnds
  BY <1>9, LastWaits DEF HeadIs
<1> QED
  BY <1>1, <1>2, <1>3, <1>4, <1>6, <1>7, <1>8, <1>9, NextIs

LEMMA EndedWaiting ==
  ASSUME Types, ByBodies, Chain, TameAll, Ended, [Next]_vars
  PROVE  \A k \in 1 .. Len(resumed') :
           /\ HeadIs(resumed'[k].ops, "over") =>
                resumed'[k].ops[1].gen = resumed'[k].gen /\ gens'[resumed'[k].gen].destroying
           /\ ~HeadIs(resumed'[k].ops, "force")
           /\ ~(HeadIs(resumed'[k].ops, "resume") /\ Len(resumed'[k].ops) >= 2 /\ resumed'[k].ops[2].step = "over")
<1> DEFINE n == Len(resumed)
           Fine(r) == /\ HeadIs(r.ops, "over") => r.ops[1].gen = r.gen /\ gens'[r.gen].destroying
                      /\ ~HeadIs(r.ops, "force")
                      /\ ~(HeadIs(r.ops, "resume") /\ Len(r.ops) >= 2 /\ r.ops[2].step = "over")
<1>1. ASSUME NEW k \in 1 .. n PROVE Fine(resumed[k])
  <2>1. resumed[k].gen \in Made
    BY <1>1, NotActiveYet DEF Active
  <2>2. gens[resumed[k].gen].destroying => gens'[resumed[k].gen].destroying
    BY <2>1, CellStep
  <2> QED
    BY <1>1, <2>2 DEF Ended
<1>2. CASE Still
  BY <1>1, <1>2 DEF Still
<1>3. CASE Into
  <2>1. PICK rest \in Rests : Leaving(rest) /\ Switched(Target, rest)
    BY <1>3 DEF Into
  <2>2. PICK t \in Made : t = Target
    BY <2>1 DEF Leaving
  <2> DEFINE r == [gen |-> t, ops |-> rest, saved |-> ctx]
  <2>3. /\ n \in Nat /\ Len(resumed') = n + 1 /\ resumed'[n + 1] = r /\ r.ops = rest /\ r.gen = t
        /\ \A k \in 1 .. n : resumed'[k] = resumed[k]
    BY <2>1, <2>2, AfterInto DEF Rests
  <2>4. /\ HeadIs(rest, "over") => rest[1].gen = t /\ gens[t].destroying
        /\ ~HeadIs(rest, "force")
        /\ ~(HeadIs(rest, "resume") /\ Len(rest) >= 2 /\ rest[2].step = "over")
    BY <2>1, <2>2, LeavesOver DEF TameAll
  <2>5. gens[t].destroying => gens'[t].destroying
    BY CellStep
  <2> HIDE DEF r
  <2>6. Fine(r)
    BY <2>3, <2>4, <2>5
  <2>7. ASSUME NEW k \in 1 .. n + 1 PROVE Fine(resumed'[k])
    <3>1. k = n + 1 \/ k \in 1 .. n
      BY <2>3
    <3> HIDE DEF n, Fine
    <3> QED
      BY <1>1, <2>3, <2>6, <3>1
  <2> QED
    BY <2>3, <2>7
<1>4. CASE Back \/ BodyEnds
  <2>1. /\ n \in Nat \ {0} /\ Len(resumed') = n - 1
        /\ \A k \in 1 .. n - 1 : resumed'[k] = resumed[k]
    BY <1>4, BackHeads, AfterBack
  <2>2. ASSUME NEW k \in 1 .. n - 1 PROVE Fine(resumed'[k])
    <3>1. k \in 1 .. n /\ resumed'[k] = resumed[k]
      BY <2>1
    <3> QED
      BY <1>1, <3>1
  <2> QED
    BY <2>1, <2>2
<1> QED
  BY <1>2, <1>3, <1>4, Moves

LEMMA EndedStep ==
  ASSUME Types, ByBodies, Chain, TameAll, Starts, Owners, Ended, [Next]_vars
  PROVE  Ended'
<1>1. \A g \in Made' : gens'[g].done => regions'[g] = <<>> /\ gens'[g].cont = <<>> /\ ~Active(g)'
  BY EndedCells
<1>2. ASSUME ops' # <<>>, NEW t, t = ops'[1].gen
      PROVE  /\ ops'[1].step = "over" => gens'[t].done \/ ~gens'[t].started
             /\ ops'[1].step = "force" => ~Active(t)'
             /\ ops'[1].step = "resume" /\ Len(ops') >= 2 /\ ops'[2].step = "over" => ~Active(t)' /\ gens'[t].destroying
  BY <1>2, EndedHeads
<1>3. HeadIs(ops, "over")' => gens'[ops'[1].gen].done \/ ~gens'[ops'[1].gen].started
  BY <1>2 DEF HeadIs
<1>4. HeadIs(ops, "force")' => ~Active(ops[1].gen)'
  BY <1>2 DEF HeadIs, Active
<1>5. HeadIs(ops, "resume")' /\ Len(ops') >= 2 /\ ops'[2].step = "over" =>
        ~Active(ops[1].gen)' /\ gens'[ops'[1].gen].destroying
  BY <1>2 DEF HeadIs, Active
<1> QED
  BY <1>1, <1>3, <1>4, <1>5, EndedWaiting DEF Ended, HeadIs

\* Nothing happens after the end.
LEMMA OverIsOver ==
  ASSUME Types, ByBodies, phase = "over", resumed = <<>>, ops = <<>>, [Next]_vars
  PROVE  UNCHANGED vars
<1>1. Cur = Main /\ ~Running /\ ~Code
  BY CurIs DEF Running, Code
<1>2. ~HostStep
  BY HostCases
<1>3. ~Reachable
  BY <1>1, ReachableIs DEF Called
<1>4. ~BodyEnds /\ ~Yield /\ ~MainEnds /\ ~Unwind
  BY <1>1 DEF BodyEnds, Yield, MainEnds, Unwind
<1>5. ~ShutdownNext /\ ~ShutdownEnds
  BY DEF ShutdownNext, ShutdownEnds
<1>6. ~Turn
  BY DEF Turn, Step
<1>7. ~Create /\ ~EnterTry /\ ~LeaveTry /\ ~Throw /\ ~Exit /\ ~Return /\ ~LoopOver /\ ~LoopNext
  BY <1>1 DEF Create, EnterTry, LeaveTry, Throw, Exit, Return, LoopOver, LoopNext
<1>8. \A k \in 1 .. 2 : ~Break(k)
  BY <1>1 DEF Break
<1> QED
  BY <1>2, <1>3, <1>4, <1>5, <1>6, <1>7, <1>8 DEF Next

\* shutdown_generators goes on with one destruction until it is done.
LEMMA DestructionStep ==
  ASSUME Types, ByBodies, Chain, TameAll, Closing, phase # "run", ~ShutdownNext, [Next]_vars
  PROVE  /\ next' = next /\ Destruction' /\ regions'[Main] = regions[Main]
         /\ Base' # <<>> \/ Base = <<>> \/ gens'[next - 1].done
<1> DEFINE n == Len(gens)
           w == next - 1
<1>0. /\ n \in Nat /\ n <= MaxGens /\ Made = 1 .. n /\ ops \in Seq(OpOf(n)) /\ Tame(ops)
      /\ ops # <<>> => ops[1] = Head(ops) /\ Target = ops[1].gen
      /\ resumed # <<>> => Cur # Main
      /\ resumed = <<>> => Cur = Main
      /\ Main \in Codes
      /\ Destruction
  BY CurIs, OpsAre DEF TameAll, Types, Closing
<1>a. \A s : Pair(s, w) \/ Single(s, w) => s # <<>>
  BY DEF Pair, Single
<1>b. Base = <<>> \/ Single(Base, w) \/ (resumed = <<>> /\ Pair(ops, w))
  BY <1>0 DEF Destruction, Base
<1>c. ASSUME next' = next, resumed' = <<>>, Pair(ops', w) PROVE Destruction' /\ Base' # <<>>
  BY <1>a, <1>c DEF Destruction, Base, Pair
<1>d. ASSUME next' = next, Single(Base', w) PROVE Destruction' /\ Base' # <<>>
  BY <1>a, <1>d DEF Destruction, Single
<1>e. ASSUME NEW rest \in Rests, Single(rest, w) PROVE Single(AfterError(rest), w)
  <2>1. rest # <<>> /\ rest[1].step = "over" /\ rest[1].gen = w
    BY <1>a, <1>e DEF Single
  <2>2. AfterError(rest) = << rest[1] >>
    <3>1. Head(rest) = rest[1]
      BY <1>0, <2>1, SeqParts DEF Rests
    <3> QED
      BY <2>1, <3>1 DEF AfterError
  <2>3. Len(<< rest[1] >>) = 1 /\ << rest[1] >>[1] = rest[1]
    OBVIOUS
  <2> QED
    BY <2>1, <2>2, <2>3 DEF Single
<1>f. ASSUME ops # <<>>, Pair(ops, w) PROVE Single(Rest, w) /\ ops[1].step \in {"force", "resume"} /\ Target = w
  <2>1. Len(ops) = 2 /\ Len(Rest) = Len(ops) - 1 /\ \A i \in 1 .. Len(ops) - 1 : Rest[i] = ops[i + 1]
    BY <1>f, OpsAre DEF Pair
  <2>2. Len(Rest) = 1 /\ Rest[1] = ops[2]
    <3>1. 1 \in 1 .. Len(ops) - 1 /\ 1 + 1 = 2
      BY <2>1
    <3> QED
      BY <2>1, <3>1
  <2> QED
    BY <1>0, <1>f, <2>2 DEF Pair, Single
<1>g. ASSUME resumed = <<>>, ops # <<>>
      PROVE  (ops[1].step \in {"force", "resume"} /\ Pair(ops, w)) \/ (ops[1].step = "over" /\ Single(ops, w) /\ Target = w)
  BY <1>0, <1>g DEF Destruction, Base, Pair, Single
<1>h. Cur = Main => ~Running
  BY DEF Running
<1>i. ASSUME next' = next, resumed' = resumed, resumed # <<>> PROVE Destruction' /\ Base' = Base
  BY <1>0, <1>i DEF Destruction, Base
<1>1. CASE Quiet
  <2>1. UNCHANGED <<resumed, ops, next>>
    <3>1. ~MainEnds
      BY <1>h DEF MainEnds
    <3> QED
      BY <1>1, <3>1 DEF Quiet, ShutdownEnds
  <2>2. regions'[Main] = regions[Main]
    <3>1. CASE Cur = Main
      BY <1>1, <1>h, <3>1 DEF Quiet
    <3>2. CASE Cur # Main
      BY <1>0, <3>2, OwnRegions
    <3> QED
      BY <3>1, <3>2
  <2>3. Destruction' /\ Base' = Base
    BY <1>0, <2>1 DEF Destruction, Base
  <2> QED
    BY <2>1, <2>2, <2>3
<1>2. CASE Asked \/ Return \/ LoopOver
  <2>1. Code /\ next' = next /\ resumed' = resumed
    BY <1>2 DEF Asked, Return, LoopOver, Kept
  <2>2. resumed # <<>> /\ Cur # Main
    BY <1>0, <1>h, <2>1 DEF Code
  <2>3. regions'[Main] = regions[Main]
    BY <1>0, <2>2, OwnRegions
  <2> QED
    BY <1>i, <2>1, <2>2, <2>3
<1>3. CASE Here \/ Turn \/ Passed \/ Blocked
  <2>1. resumed' = resumed /\ next' = next /\ ops # <<>>
    BY <1>3 DEF Here, Turn, Passed, Blocked, Kept, Leaving, Step, Dropped, Stopped, Returned, Flagged, Loaded, Closed, Doomed, Freed, Update
  <2>2. CASE resumed # <<>>
    <3>1. regions'[Main] = regions[Main]
      BY <1>0, <2>2, OwnRegions
    <3> QED
      BY <1>i, <2>1, <2>2, <3>1
  <2>3. CASE resumed = <<>>
    <3>0. /\ Base' = ops' /\ Base = ops
          /\ (ops[1].step \in {"force", "resume"} /\ Pair(ops, w)) \/ (ops[1].step = "over" /\ Single(ops, w) /\ Target = w)
      BY <1>g, <2>1, <2>3 DEF Base
    <3>1. regions' = regions
      BY <1>0, <1>3, <2>1, <3>0 DEF Here, Turn, Passed, Blocked, Step
    <3>2. CASE ops' = Rest /\ ops[1].step \in {"force", "resume"}
      BY <1>d, <1>f, <2>1, <3>0, <3>1, <3>2
    <3>3. CASE Here
      <4>1. CASE ops[1].step = "over"
        <5>1. Closed /\ Target = w /\ Target \in Made
          BY <1>0, <2>1, <3>0, <3>3, <4>1 DEF Here, Dropped, Stopped, Returned, Flagged, Loaded, Doomed, Freed
        <5>2. ops' = Rest /\ gens' = [gens EXCEPT ![Target] = [gens[Target] EXCEPT !.done = TRUE]]
          BY <5>1 DEF Closed, Update
        <5>3. gens'[w].done
          <6>1. gens[Target] \in Cell
            BY <5>1, CurIs DEF CellOf
          <6>2. gens'[Target] = [gens[Target] EXCEPT !.done = TRUE]
            BY <5>1, <5>2, CellWritten
          <6> QED
            BY <5>1, <6>1, <6>2 DEF Cell
        <5>4. Rest = <<>>
          BY <2>1, <3>0, <4>1, OpsAre, EmptySeq DEF Single
        <5>5. Destruction'
          BY <2>1, <2>3, <5>2, <5>4 DEF Destruction
        <5> QED
          BY <2>1, <3>1, <5>3, <5>5
      <4>2. CASE ops[1].step = "force" /\ Doomed
        <5>1. Target \in 1 .. n /\ Target = w /\ ops' = Do(<<"resume">>, Target) \o Tail(ops) /\ Pair(ops, w)
          BY <1>0, <1>f, <2>1, <3>0, <3>3, <4>2 DEF Here, Doomed, Rest
        <5>2. Replaced(ops', ops, <<"resume">>, Target) /\ Len(ops) = 2
          BY <1>0, <2>1, <5>1, LoopLists, HeadReplaced DEF Pair
        <5>3. /\ Len(ops') = Len(ops) /\ ops'[1].step = "resume" /\ ops'[1].gen = w
              /\ \A i \in 2 .. Len(ops) : ops'[i] = ops[i]
          <6>1. Len(ops) \in Nat
            BY <5>2
          <6>2. /\ Len(ops') = Len(ops) /\ ops'[1].step = "resume" /\ ops'[1].gen = Target
                /\ \A i \in 2 .. Len(ops) : ops'[i] = ops[i]
            BY <5>2, <6>1, ReplacedByOne
          <6> QED
            BY <5>1, <6>2
        <5>4. ops'[2] = ops[2]
          BY <5>2, <5>3
        <5>5. Pair(ops', w)
          BY <5>1, <5>2, <5>3, <5>4 DEF Pair
        <5> QED
          BY <1>c, <2>1, <2>3, <3>1, <5>5
      <4>3. CASE ops[1].step = "force" /\ ~Doomed
        <5>1. ops' = Rest
          BY <1>0, <2>1, <3>3, <4>3 DEF Here, Dropped, Stopped, Returned, Flagged, Loaded, Closed, Freed
        <5> QED
          BY <3>2, <4>3, <5>1
      <4>4. ops[1].step # "resume"
        BY <1>0, <2>1, <3>3 DEF Here, Dropped, Stopped, Returned, Flagged, Loaded, Closed, Doomed, Freed
      <4> QED
        BY <3>0, <4>1, <4>2, <4>3, <4>4
    <3>4. ~Turn
      BY <1>0, <2>1, <3>0 DEF Turn, Step
    <3>5. ASSUME NEW rest \in Rests, Leaving(rest) PROVE rest = Rest /\ ops[1].step = "resume" /\ Single(rest, w)
      BY <1>0, <1>f, <2>1, <3>0, <3>5 DEF Leaving
    <3>6. CASE Passed
      BY <3>2, <3>5, <3>6 DEF Passed
    <3>7. CASE Blocked
      <4>1. PICK rest \in Rests : Leaving(rest) /\ ops' = AfterError(rest)
        BY <3>7 DEF Blocked
      <4>2. Single(Base', w)
        BY <1>e, <3>0, <3>5, <4>1
      <4> QED
        BY <1>d, <2>1, <3>1, <4>2
    <3> QED
      BY <1>3, <3>3, <3>4, <3>6, <3>7
  <2> QED
    BY <2>2, <2>3
<1>4. CASE Into
  <2>1. PICK rest \in Rests : Leaving(rest) /\ Switched(Target, rest) /\ next' = next /\ regions' = regions
    BY <1>4 DEF Into, Kept
  <2>2. PICK t \in Made : t = Target
    BY <2>1 DEF Leaving
  <2>3. Base' = IF resumed = <<>> THEN rest ELSE Base
    BY <2>1, <2>2, BaseSwitched DEF Switched, Rests
  <2>4. Single(Base', w)
    <3>1. CASE resumed = <<>>
      <4>1. ops # <<>>
        BY <2>1 DEF Leaving
      <4>2. rest = Rest /\ Pair(ops, w)
        BY <1>0, <1>g, <2>1, <3>1, <4>1 DEF Leaving
      <4> QED
        BY <1>f, <2>3, <3>1, <4>1, <4>2
    <3>2. CASE resumed # <<>>
      BY <1>0, <2>3, <3>2 DEF Destruction
    <3> QED
      BY <3>1, <3>2
  <2> QED
    BY <1>d, <2>1, <2>4
<1>5. CASE Back \/ BodyEnds
  <2>1. /\ resumed # <<>> /\ resumed' = Front(resumed) /\ next' = next /\ regions' = regions
        /\ ops' = Last(resumed).ops \/ ops' = AfterError(Last(resumed).ops)
    BY <1>5, SuspendTypes, BodyEndsTypes DEF Back, Rests, Kept
  <2>2. Single(Base, w)
    BY <1>0, <2>1 DEF Destruction
  <2>3. Base' = IF Len(resumed) = 1 THEN ops' ELSE Base
    BY <2>1, FrontIs
  <2>4. Len(resumed) = 1 => Last(resumed).ops = Base
    BY <2>1, FrontIs DEF Base
  <2>5. Last(resumed).ops \in Rests
    BY <2>1, CurIs DEF ResumerOf, Rests
  <2>6. Single(Base', w)
    BY <1>e, <2>1, <2>2, <2>3, <2>4, <2>5
  <2> QED
    BY <1>d, <2>1, <2>6
<1> QED
  BY <1>1, <1>2, <1>3, <1>4, <1>5, NextIs

\* Until the main program ends nothing is destroyed at shutdown.
LEMMA RunStays ==
  ASSUME Types, ByBodies, phase' = "run", [Next]_vars
  PROVE  phase = "run" /\ next' = next
<1>1. CASE Quiet
  BY <1>1 DEF Quiet, MainEnds, ShutdownEnds
<1>2. CASE Asked \/ Return \/ LoopOver \/ Here \/ Turn \/ Passed \/ Blocked
  BY <1>2 DEF Asked, Return, LoopOver, Here, Turn, Passed, Blocked, Kept, Step, Dropped, Stopped,
              Returned, Flagged, Loaded, Closed, Doomed, Freed
<1>3. CASE ShutdownNext
  BY <1>3 DEF ShutdownNext
<1>4. CASE Into \/ Back \/ BodyEnds
  BY <1>4 DEF Into, Back, BodyEnds, Kept
<1> QED
  BY <1>1, <1>2, <1>3, <1>4, NextIs

LEMMA RunEnds ==
  ASSUME Types, ByBodies, phase = "run", phase' # "run", [Next]_vars
  PROVE  MainEnds
<1>1. CASE Quiet
  BY <1>1 DEF Quiet, ShutdownEnds
<1>2. CASE Asked \/ Return \/ LoopOver \/ Here \/ Turn \/ Passed \/ Blocked
  BY <1>2 DEF Asked, Return, LoopOver, Here, Turn, Passed, Blocked, Kept, Step, Dropped, Stopped,
              Returned, Flagged, Loaded, Closed, Doomed, Freed
<1>3. CASE ShutdownNext
  BY <1>3 DEF ShutdownNext
<1>4. CASE Into \/ Back \/ BodyEnds
  BY <1>4 DEF Into, Back, BodyEnds, Kept
<1> QED
  BY <1>1, <1>2, <1>3, <1>4, NextIs

LEMMA ShutdownStays ==
  ASSUME Types, ByBodies, phase = "shutdown", [Next]_vars
  PROVE  phase' = "shutdown" \/ ShutdownEnds
<1>1. CASE Quiet
  <2>1. ~MainEnds
    BY DEF MainEnds, Running
  <2> QED
    BY <1>1, <2>1 DEF Quiet
<1>2. CASE Asked \/ Return \/ LoopOver \/ Here \/ Turn \/ Passed \/ Blocked
  BY <1>2 DEF Asked, Return, LoopOver, Here, Turn, Passed, Blocked, Kept, Step, Dropped, Stopped,
              Returned, Flagged, Loaded, Closed, Doomed, Freed
<1>3. CASE ShutdownNext
  BY <1>3 DEF ShutdownNext
<1>4. CASE Into \/ Back \/ BodyEnds
  BY <1>4 DEF Into, Back, BodyEnds, Kept
<1> QED
  BY <1>1, <1>2, <1>3, <1>4, NextIs

\* The main program ends where no construct of its own is open.
LEMMA AtTheEnd ==
  ASSUME Types, MainEnds
  PROVE  resumed' = <<>> /\ ops' = <<>> /\ regions'[Main] = <<>> /\ next' = next
<1>1. Running /\ Cur = Main /\ Inner = "none" /\ UNCHANGED <<regions, resumed, ops, next>>
  BY DEF MainEnds
<1>2. ops = <<>> /\ resumed = <<>>
  BY <1>1, CurIs DEF Running
<1>3. regions[Main] = <<>>
  BY <1>1, TopIs
<1> QED
  BY <1>1, <1>2, <1>3

LEMMA ClosingStep ==
  ASSUME Types, ByBodies, Chain, TameAll, Closing, [Next]_vars
  PROVE  Closing'
<1>0. /\ phase \in {"run", "shutdown", "over"} /\ count \in 0 .. Len(gens) /\ next \in 1 .. MaxGens + 1
      /\ Len(gens) \in Nat /\ MaxGens \in Nat /\ Len(gens) <= MaxGens /\ Made = 1 .. Len(gens)
  BY CurIs DEF Types
<1>1. CASE phase' = "run"
  BY <1>1, RunStays DEF Closing
<1>2. CASE phase = "run" /\ phase' # "run"
  <2>1. MainEnds
    BY <1>2, RunEnds
  <2>2. next' = 1 /\ resumed' = <<>> /\ ops' = <<>> /\ regions'[Main] = <<>> /\ gens' = gens /\ phase' = "shutdown"
    BY <1>2, <2>1, AtTheEnd DEF Closing, MainEnds
  <2> QED
    BY <1>0, <2>2 DEF Closing, Destruction
<1>3. CASE phase = "over"
  <2>1. UNCHANGED vars
    BY <1>3, OverIsOver DEF Closing
  <2> QED
    BY <2>1 DEF Closing, Destruction, Base, Pair, Single, Unwinding, vars
<1>4. CASE phase = "shutdown"
  <2>0. /\ regions[Main] = <<>> /\ next - 1 <= Len(gens)
        /\ \A g \in 1 .. next - 1 : gens[g].done \/ (g = next - 1 /\ Base # <<>>)
        /\ Destruction
    BY <1>4 DEF Closing
  <2>1. CASE ShutdownNext
    <3>1. /\ resumed = <<>> /\ ops = <<>> /\ next <= count /\ ops' = Do(<<"force", "over">>, next)
          /\ next' = next + 1 /\ resumed' = resumed /\ gens' = gens /\ regions' = regions
          /\ phase' = phase
      BY <2>1 DEF ShutdownNext
    <3>2. next \in 1 .. Len(gens)
      BY <1>0, <3>1
    <3>3. PICK t \in 1 .. Len(gens) : t = next
      BY <3>2
    <3> DEFINE l == <<"force", "over">>
    <3>4. Len(l) = 2 /\ l[1] = "force" /\ l[2] = "over" /\ l \in Lists
      BY LoopLists
    <3> HIDE DEF l
    <3>5. Len(ops') = 2 /\ \A i \in 1 .. 2 : ops'[i] = [step |-> l[i], gen |-> t]
      <4>1. ops' = Do(l, t)
        BY <3>1, <3>3 DEF l
      <4> QED
        BY <1>0, <3>4, <4>1, DoIs
    <3>6. /\ ops'[1].step = "force" /\ ops'[1].gen = t
          /\ ops'[2].step = "over" /\ ops'[2].gen = t
      BY <3>4, <3>5
    <3>7. ops' # <<>> /\ next' - 1 = t
      BY <1>0, <3>1, <3>3, <3>5
    <3>8. Pair(ops', t)
      BY <3>5, <3>6 DEF Pair
    <3>9. Destruction' /\ Base' # <<>>
      BY <3>1, <3>7, <3>8 DEF Destruction, Base, Pair
    <3>10. Base = <<>>
      BY <3>1 DEF Base
    <3>11. \A g \in 1 .. next' - 1 : gens'[g].done \/ g = next' - 1
      BY <1>0, <2>0, <3>1, <3>10
    <3> QED
      BY <1>0, <1>4, <2>0, <3>1, <3>2, <3>9, <3>11 DEF Closing
  <2>2. CASE ~ShutdownNext
    <3>1. /\ next' = next /\ Destruction' /\ regions'[Main] = <<>>
          /\ Base' # <<>> \/ Base = <<>> \/ gens'[next - 1].done
      BY <1>4, <2>0, <2>2, DestructionStep
    <3>2. Len(gens) <= Len(gens')
      <4>1. Made \subseteq Made' /\ Made = 1 .. Len(gens) /\ Made' = 1 .. Len(gens') /\ Len(gens') \in Nat
        <5>1. Types'
          BY TypesStep
        <5>2. Made' = 1 .. Len(gens') /\ Len(gens') \in Nat
          BY <5>1, LenProperties DEF Types, Made
        <5> QED
          BY <1>0, <5>2, MadeStays
      <4>2. CASE Len(gens) = 0
        BY <4>1, <4>2
      <4>3. CASE Len(gens) # 0
        <5>1. Len(gens) \in Made
          BY <1>0, <4>3
        <5> QED
          BY <4>1, <5>1
      <4> QED
        BY <4>2, <4>3
    <3>3. ASSUME NEW g \in 1 .. next' - 1
          PROVE  gens'[g].done \/ (g = next' - 1 /\ Base' # <<>>)
      <4>1. g \in Made /\ g \in 1 .. next - 1
        BY <1>0, <2>0, <3>1
      <4>2. gens[g].done => gens'[g].done
        BY <4>1, CellStep
      <4> QED
        BY <2>0, <3>1, <4>1, <4>2
    <3>4. phase' = "over" => resumed' = <<>> /\ ops' = <<>> /\ (Unwinding' \/ next' > count')
      <4> SUFFICES ASSUME phase' = "over" PROVE resumed' = <<>> /\ ops' = <<>> /\ (Unwinding' \/ next' > count')
        OBVIOUS
      <4>1. ShutdownEnds
        BY <1>4, ShutdownStays
      <4> QED
        BY <4>1 DEF ShutdownEnds, Unwinding
    <3>5. phase' # "run"
      <4>1. phase' = "shutdown" \/ phase' = "over"
        BY <1>4, ShutdownStays DEF ShutdownEnds
      <4> QED
        BY <4>1
    <3>6. next' - 1 <= Len(gens')
      <4>1. Len(gens') \in Nat
        BY TypesStep, LenProperties DEF Types
      <4> QED
        BY <1>0, <2>0, <3>1, <3>2, <4>1
    <3> QED
      BY <3>1, <3>3, <3>4, <3>5, <3>6 DEF Closing
  <2> QED
    BY <2>1, <2>2
<1> QED
  BY <1>0, <1>1, <1>2, <1>3, <1>4

LEMMA ClosingInit == Init => Owners /\ Ended /\ Closing
<1> SUFFICES ASSUME Init PROVE Owners /\ Ended /\ Closing
  OBVIOUS
<1>1. /\ ops = <<>> /\ resumed = <<>> /\ gens = <<>> /\ Len(resumed) = 0 /\ Made = {}
      /\ phase = "run" /\ next = 1
  BY DEF Init, Made
<1>2. Ended
  BY <1>1 DEF Ended, HeadIs
<1> QED
  BY <1>1, <1>2 DEF Owners, Closing

\* Loops own what only they hold, what is over is still, and the shutdown
\* destroys one generator after the other.
THEOREM ClosingHolds == Spec => [](Types /\ ByBodies /\ Ended /\ Closing)
<1>1. ASSUME Types, ByBodies, Chain, TameAll, Starts, Owners, Ended, Closing, [Next]_vars
      PROVE  (Owners /\ Ended /\ Closing)'
  <2>1. Owners'
    BY <1>1, OwnersStep
  <2>2. Ended'
    BY <1>1, EndedStep
  <2>3. Closing'
    BY <1>1, ClosingStep
  <2> QED
    BY <2>1, <2>2, <2>3
<1> QED
  BY <1>1, ClosingInit, StartsHold, PTL DEF Spec

\* OverMeansOver: a generator marked done, by its body's end or by a
\* destruction, holds no open construct and its coroutine is back.
THEOREM OverMeansOverHolds == Spec => []OverMeansOver
<1>1. Types /\ Framed /\ Ended => OverMeansOver
  BY DEF Framed, Ended, OverMeansOver
<1> QED
  BY <1>1, ChainHolds, ClosingHolds, PTL DEF Chain

\* ShutdownReachesAll: unless one of them unwinds again, shutdown_generators
\* leaves no generator that existed when the program ended suspended.
THEOREM ShutdownReachesAllHolds == Spec => []ShutdownReachesAll
<1>1. Types /\ Closing => ShutdownReachesAll
  <2> SUFFICES ASSUME Types, Closing, phase = "over", ~Unwinding, NEW g \in 1 .. count PROVE gens[g].done
    BY DEF ShutdownReachesAll
  <2>1. Base = <<>> /\ next > count
    BY DEF Closing, Base
  <2>2. g \in 1 .. next - 1
    BY <2>1 DEF Types
  <2> QED
    BY <2>1, <2>2 DEF Closing
<1> QED
  BY <1>1, ClosingHolds, PTL

=============================================================================
