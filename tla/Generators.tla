------------------------------ MODULE Generators ------------------------------
(***************************************************************************)
(* The generators of host.rs: a body runs on a coroutine of its own, a     *)
(* yield switches back to the code that resumed it, and gen_resume swaps   *)
(* the call frames and the pending signal at every switch.  Generators     *)
(* resume each other, are delegated to with yield from, looped over, and   *)
(* destroyed while suspended: by the loop that made them, or at the end of *)
(* the request.                                                            *)
(*                                                                         *)
(* Neither the main program nor a body is fixed: code may open try regions *)
(* and loops, call every method on every generator it can reach, yield,    *)
(* throw, return and exit at every point.  Resuming a generator that runs  *)
(* is a fatal error, and a finally runs on its way up too.  A try has a    *)
(* catch or a finally, never both: what a finally does after an exit in    *)
(* the catch beside it is in TryFinally.                                   *)
(***************************************************************************)
EXTENDS Naturals, SequencesExt

CONSTANTS
  MaxGens,    \* bound on the generators made
  MaxDepth,   \* bound on the regions a piece of code is inside of
  Constructs  \* what the programs are written with; "reenter": they call
              \* throw() on generators that are running, too

ASSUME GeneratorsAssumption ==
  /\ MaxGens \in Nat /\ MaxDepth \in Nat
  /\ Constructs \subseteq {"try", "loop", "methods", "exits", "reenter"}

VARIABLES
  gens,     \* PhpHost.generators, with what runs in each: see Cell
  regions,  \* per code, 0 being the main program: the regions it is inside of
  ctx,      \* the installed GenContext
  resumed,  \* the coroutines switched to, innermost last, with their resumers
  ops,      \* what is left to do of the host functions the code called
  exit,     \* pending_exit is set
  phase,    \* run: the main program; shutdown: shutdown_generators; over
  count,    \* shutdown_generators: how many there were
  next      \* shutdown_generators: the one to destroy next

vars == <<gens, regions, ctx, resumed, ops, exit, phase, count, next>>

-----------------------------------------------------------------------------
Ids == 1 .. MaxGens
Main == 0
Codes == {Main} \cup Ids

\* What compiled code is inside of: a try with a catch or a finally, a finally
\* that runs, with the signal it interrupted, a loop over a fresh generator.
\* "fatal" is an Err that the chunks return one to another.
Signals == {"none", "return", "throw", "fatal"}
Kinds == {"catch", "finally", "ending", "loop"}
Region == [kind : Kinds, gen : Codes, signal : Signals]

\* GenContext: whose frames are above the global scope, and the signal.
Context == [frames : Seq(Codes), signal : Signals]

\* The steps the gen_* functions are made of; gen is the generator they are
\* about.
Steps == {"closed", "init", "first", "check", "prime", "resume", "inject", "each",
          "release", "force", "over", "bubble", "turn", "return"}
Op == [step : Steps, gen : Codes]
Do(steps, g) == [i \in 1 .. Len(steps) |-> [step |-> steps[i], gen |-> g]]

\* GenCell.  `cont` is what the body's own stack has left of a yield from;
\* `held` tells whether anything but the loop that made it holds the handle;
\* `yields` counts to 2.
Cell ==
  [coro : {"here", "taken"}, saved : Context, cont : Seq(Op), started : BOOLEAN,
   first : BOOLEAN, done : BOOLEAN, inject : {"none", "throw", "destroy"},
   destroying : BOOLEAN, held : BOOLEAN, yields : 0 .. 2]

Resumer == [gen : Ids, ops : Seq(Op), saved : Context]

NewCell(id, isHeld) ==
  [coro |-> "here", saved |-> [frames |-> <<id>>, signal |-> "none"], cont |-> <<>>,
   started |-> FALSE, first |-> FALSE, done |-> FALSE, inject |-> "none",
   destroying |-> FALSE, held |-> isHeld, yields |-> 0]

Made == DOMAIN gens
Cur == IF resumed = <<>> THEN Main ELSE Last(resumed).gen
NoRegion == [kind |-> "none", gen |-> Main, signal |-> "none"]
Top == Last(<<NoRegion>> \o regions[Cur])
Inner == Top.kind

\* Compiled code has control, and nothing unwinds it.
Unwinding == ctx.signal # "none" \/ exit
Running == ops = <<>> /\ (Cur # Main \/ phase = "run")
Code == Running /\ ~Unwinding
Deep == Len(regions[Cur]) >= MaxDepth

SetSignal(s) == ctx' = [ctx EXCEPT !.signal = s]
In(kind, g, s) == [kind |-> kind, gen |-> g, signal |-> s]
Enter(kind, g) == regions' = [regions EXCEPT ![Cur] = Append(@, In(kind, g, "none"))]
Leave == regions' = [regions EXCEPT ![Cur] = Front(@)]
StartFinally == regions' = [regions EXCEPT ![Cur] = Append(Front(@), In("ending", Main, ctx.signal))]

-----------------------------------------------------------------------------
Init ==
  /\ gens = <<>>
  /\ regions = [c \in Codes |-> <<>>]
  /\ ctx = [frames |-> <<Main>>, signal |-> "none"]
  /\ resumed = <<>> /\ ops = <<>>
  /\ exit = FALSE
  /\ phase = "run" /\ count = 0 /\ next = 1

-----------------------------------------------------------------------------
(* What code does by itself.                                               *)

\* make_generator
Make(isHeld) == gens' = Append(gens, NewCell(Len(gens) + 1, isHeld))

Create ==
  /\ "methods" \in Constructs
  /\ Code /\ Len(gens) < MaxGens /\ Make(TRUE)
  /\ UNCHANGED <<regions, ctx, resumed, ops, exit, phase, count, next>>

EnterTry ==
  /\ "try" \in Constructs /\ Code /\ ~Deep
  /\ \E kind \in {"catch", "finally"} : Enter(kind, Main)
  /\ UNCHANGED <<gens, ctx, resumed, ops, exit, phase, count, next>>

\* The end of a try body, and of a finally, which lets go on what it
\* interrupted.
LeaveTry ==
  /\ Code
  /\ \/ Inner = "catch" /\ Leave /\ UNCHANGED ctx
     \/ Inner = "finally" /\ StartFinally /\ UNCHANGED ctx
     \/ Inner = "ending" /\ Leave /\ SetSignal(Top.signal)
  /\ UNCHANGED <<gens, resumed, ops, exit, phase, count, next>>

Throw ==
  /\ "exits" \in Constructs /\ Code /\ SetSignal("throw")
  /\ UNCHANGED <<gens, regions, resumed, ops, exit, phase, count, next>>

Exit ==
  /\ "exits" \in Constructs /\ Code /\ exit' = TRUE
  /\ UNCHANGED <<gens, regions, ctx, resumed, ops, phase, count, next>>

\* The loops of this chunk; what is outside a try region is another chunk's.
Loops(rs) ==
  LET outer == {i \in 1 .. Len(rs) : rs[i].kind # "loop"}
  IN  SubSeq(rs, Max({0} \cup outer) + 1, Len(rs))

\* return frees the iterators of the loops it leaves, innermost first.
Return ==
  LET loops == Reverse(Loops(regions[Cur])) IN
  /\ Code
  /\ ops' = FlattenSeq([i \in 1 .. Len(loops) |-> Do(<<"release", "bubble">>, loops[i].gen)])
              \o Do(<<"return">>, Main)
  /\ UNCHANGED <<gens, regions, ctx, resumed, exit, phase, count, next>>

\* A region is left by what unwinds the code, a finally only by way of its
\* own body, after a fatal error as well; after exit nothing of it runs.
Unwind ==
  /\ Running /\ Unwinding /\ Inner # "none"
  /\ LET stops == Inner = "finally" \/ (Inner = "catch" /\ ctx.signal = "throw")
     IN  IF stops /\ ~exit THEN SetSignal("none") ELSE UNCHANGED ctx
  /\ IF Inner = "finally" /\ ~exit THEN StartFinally ELSE Leave
  /\ UNCHANGED <<gens, resumed, ops, exit, phase, count, next>>

-----------------------------------------------------------------------------
(* What code asks of generators.                                           *)

Call(steps, g) ==
  /\ "methods" \in Constructs /\ Code /\ gens[g].held
  /\ ops' = Do(steps, g)
  /\ UNCHANGED <<gens, regions, ctx, resumed, exit, phase, count, next>>

Valid(g) == Call(<<"init">>, g)
NextValue(g) == Call(<<"init", "resume">>, g)
Rewind(g) == Call(<<"init", "check">>, g)
ForeachRewind(g) == Call(<<"closed", "init", "check">>, g)
Send(g) == Call(<<"prime", "resume">>, g)
\* Mutant: the exception is stored before the generator is primed.
ThrowBeforeStart(g) ==
  /\ gens[g].coro = "here" \/ "reenter" \in Constructs
  /\ Call(<<"inject", "init", "resume">>, g)

ThrowInto(g) ==
  /\ gens[g].coro = "here" \/ "reenter" \in Constructs
  /\ Call(<<"init", "inject", "resume">>, g)
YieldFrom(g) == Cur # Main /\ Call(<<"init", "each">>, g)

\* foreach over a generator its subject expression makes
LoopOver ==
  /\ "loop" \in Constructs /\ Code /\ ~Deep /\ Len(gens) < MaxGens
  /\ \E isHeld \in BOOLEAN : Make(isHeld)
  /\ Enter("loop", Len(gens) + 1)
  /\ ops' = Do(<<"closed", "init", "check", "bubble", "init", "bubble", "turn">>, Len(gens) + 1)
  /\ UNCHANGED <<ctx, resumed, exit, phase, count, next>>

\* The end of the loop's body, and continue
LoopNext ==
  /\ Code /\ Inner = "loop"
  /\ ops' = Do(<<"init", "resume", "bubble", "init", "bubble", "turn">>, Top.gen)
  /\ UNCHANGED <<gens, regions, ctx, resumed, exit, phase, count, next>>

\* break n jumps behind the n-th loop, where that loop's iterator is freed.
Break(n) ==
  LET target == Len(regions[Cur]) - n + 1 IN
  /\ Code /\ Len(Loops(regions[Cur])) >= n
  /\ regions' = [regions EXCEPT ![Cur] = SubSeq(@, 1, target - 1)]
  /\ ops' = Do(<<"release">>, regions[Cur][target].gen)
  /\ UNCHANGED <<gens, ctx, resumed, exit, phase, count, next>>

-----------------------------------------------------------------------------
(* Switching.                                                              *)

\* A failed resume ends the host function, but gen_destroy goes on.
AfterError(rest) == IF rest # <<>> /\ Head(rest).step = "over" THEN <<Head(rest)>> ELSE <<>>

\* gen_resume: nothing when the generator is over, an error when its body is
\* on the stack; else into the body, which first takes what was injected.
SwitchTo(g, rest) ==
  CASE gens[g].done -> ops' = rest /\ UNCHANGED <<gens, ctx, resumed>>
    [] ~gens[g].done /\ gens[g].coro = "taken" ->
         SetSignal("fatal") /\ ops' = AfterError(rest) /\ UNCHANGED <<gens, resumed>>
    [] OTHER ->
         LET force == gens[g].started /\ gens[g].inject # "none" IN
         /\ resumed' = Append(resumed, [gen |-> g, ops |-> rest, saved |-> ctx])
         /\ ctx' = IF ~force THEN gens[g].saved
                   ELSE [gens[g].saved EXCEPT !.signal =
                           IF gens[g].inject = "throw" THEN "throw" ELSE "return"]
         /\ ops' = IF force THEN <<>> ELSE gens[g].cont
         /\ gens' = [gens EXCEPT ![g] =
              [gens[g] EXCEPT !.coro = "taken", !.first = @ /\ ~gens[g].started, !.started = TRUE,
                 !.inject = IF force THEN "none" ELSE @, !.cont = <<>>,
                 !.saved = [frames |-> <<>>, signal |-> "none"]]]

\* Mutant: the body's frames stay installed above the resumer's.
SuspendKeepsFrames(rest) ==
  LET top == Last(resumed) IN
  /\ gens' = [gens EXCEPT ![Cur] =
       [gens[Cur] EXCEPT !.coro = "here", !.saved = [ctx EXCEPT !.frames = <<>>], !.cont = rest,
          !.yields = IF @ < 2 THEN @ + 1 ELSE 2]]
  /\ ctx' = [top.saved EXCEPT !.frames = @ \o ctx.frames] /\ ops' = top.ops
  /\ resumed' = Front(resumed)

\* gen_yield: the rest is what the body's stack keeps.
Suspend(rest) ==
  LET top == Last(resumed) IN
  /\ gens' = [gens EXCEPT ![Cur] =
       [gens[Cur] EXCEPT !.coro = "here", !.saved = ctx, !.cont = rest,
          !.yields = IF @ < 2 THEN @ + 1 ELSE 2]]
  /\ ctx' = top.saved /\ ops' = top.ops
  /\ resumed' = Front(resumed)

\* Mutant: a yield in a generator that is being destroyed suspends it.
YieldAlways(rest) == Suspend(rest)

\* A yield in a generator that is being destroyed throws.
YieldOr(rest) ==
  IF gens[Cur].destroying
    THEN SetSignal("throw") /\ ops' = <<>> /\ UNCHANGED <<gens, resumed>>
    ELSE Suspend(rest)

Yield ==
  /\ Code /\ Cur # Main /\ YieldOr(<<>>)
  /\ UNCHANGED <<regions, exit, phase, count, next>>

\* The body is over, and gen_resume goes on in its resumer, with the
\* exception or the fatal error that ended it.
BodyEnds ==
  LET top == Last(resumed)
      fails == ctx.signal \in {"throw", "fatal"} IN
  /\ Running /\ Cur # Main /\ Inner = "none"
  /\ gens' = [gens EXCEPT ![Cur] =
       [gens[Cur] EXCEPT !.coro = "here", !.done = TRUE, !.saved = [ctx EXCEPT !.signal = "none"]]]
  /\ ctx' = IF fails THEN [top.saved EXCEPT !.signal = ctx.signal] ELSE top.saved
  /\ ops' = IF fails THEN AfterError(top.ops) ELSE top.ops
  /\ resumed' = Front(resumed)
  /\ UNCHANGED <<regions, exit, phase, count, next>>

-----------------------------------------------------------------------------
(* The steps of the host functions.                                        *)

Step(name) == ops # <<>> /\ Head(ops).step = name
Target == Head(ops).gen
Rest == Tail(ops)
Skip == ops' = Rest /\ UNCHANGED <<gens, ctx, resumed>>
Update(cell) == gens' = [gens EXCEPT ![Target] = cell] /\ ops' = Rest /\ UNCHANGED <<ctx, resumed>>
Refuse == SetSignal("throw") /\ ops' = <<>> /\ UNCHANGED <<gens, resumed>>

\* Mutant: the flag is set for a generator that was started before, too.
InitialiseAlways ==
  \/ Step("init") /\ IF gens[Target].started THEN Update([gens[Target] EXCEPT !.first = TRUE])
                     ELSE SwitchTo(Target, Do(<<"first">>, Target) \o Rest)
  \/ Step("first") /\ Update([gens[Target] EXCEPT !.first = TRUE])
  \/ Step("prime") /\ IF gens[Target].started THEN Skip ELSE SwitchTo(Target, Rest)

\* gen_ensure_init, and the priming of gen_send, which sets no flag
Initialise ==
  \/ Step("init") /\ IF gens[Target].started THEN Skip
                     ELSE SwitchTo(Target, Do(<<"first">>, Target) \o Rest)
  \/ Step("first") /\ Update([gens[Target] EXCEPT !.first = TRUE])
  \/ Step("prime") /\ IF gens[Target].started THEN Skip ELSE SwitchTo(Target, Rest)

Resume == Step("resume") /\ SwitchTo(Target, Rest)

\* gen_rewind and gen_foreach_rewind
RewindCheck ==
  \/ Step("check") /\ IF gens[Target].first THEN Skip ELSE Refuse
  \/ Step("closed") /\ IF gens[Target].done THEN Refuse ELSE Skip

\* gen_throw: an exception for a generator that is over is the caller's.
Inject ==
  /\ Step("inject")
  /\ IF gens[Target].done THEN Refuse ELSE Update([gens[Target] EXCEPT !.inject = "throw"])

\* gen_yield_from: pass on what the inner generator yielded, and later what
\* was sent to the outer one.
Delegate ==
  /\ Step("each")
  /\ IF gens[Target].done THEN Skip
     ELSE YieldOr(Do(<<"resume", "each">>, Target))

\* gen_release
Release ==
  /\ Step("release")
  /\ IF gens[Target].started /\ ~gens[Target].done /\ ~gens[Target].held
       THEN ops' = Do(<<"force", "over">>, Target) \o Rest /\ UNCHANGED <<gens, ctx, resumed>>
       ELSE Skip

\* gen_destroy
Live(g) == gens[g].started /\ ~gens[g].done /\ gens[g].coro = "here"
\* Mutant: only a body that ran ends a generator.
DestroyLiveOnly ==
  \/ /\ Step("force")
     /\ IF Live(Target)
          THEN /\ gens' = [gens EXCEPT ![Target] = [gens[Target] EXCEPT !.destroying = TRUE, !.inject = "destroy"]]
               /\ ops' = Do(<<"resume">>, Target) \o Rest
               /\ UNCHANGED <<ctx, resumed>>
          ELSE Skip
  \/ Step("over") /\ Skip

Destroy ==
  \/ /\ Step("force")
     /\ IF Live(Target)
          THEN /\ gens' = [gens EXCEPT ![Target] = [gens[Target] EXCEPT !.destroying = TRUE, !.inject = "destroy"]]
               /\ ops' = Do(<<"resume">>, Target) \o Rest
               /\ UNCHANGED <<ctx, resumed>>
          ELSE Skip
  \/ Step("over") /\ Update([gens[Target] EXCEPT !.done = TRUE])

\* A builtin's return to compiled code that has more to do (bubble_throw)
Bubble ==
  /\ Step("bubble")
  /\ ops' = IF Unwinding THEN <<>> ELSE Rest
  /\ UNCHANGED <<gens, ctx, resumed>>

SetReturn ==
  /\ Step("return") /\ SetSignal("return") /\ ops' = Rest
  /\ UNCHANGED <<gens, resumed>>

HostStep ==
  /\ Initialise \/ Resume \/ RewindCheck \/ Inject \/ Delegate \/ Release \/ Destroy
       \/ Bubble \/ SetReturn
  /\ UNCHANGED <<regions, exit, phase, count, next>>

\* The loop tests valid(): at the end it is left, with nothing to free.
Turn ==
  /\ Step("turn") /\ ops' = Rest
  /\ IF gens[Target].done THEN Leave ELSE UNCHANGED regions
  /\ UNCHANGED <<gens, ctx, resumed, exit, phase, count, next>>

-----------------------------------------------------------------------------
(* The end of the request.                                                 *)

\* run_main has reported what went wrong; then shutdown_generators starts.
MainEnds ==
  /\ Running /\ Cur = Main /\ Inner = "none"
  /\ SetSignal("none")
  /\ phase' = "shutdown" /\ count' = Len(gens)
  /\ exit' = FALSE
  /\ UNCHANGED <<gens, regions, resumed, ops, next>>

\* In the order they were made; those made meanwhile are not among them.
ShutdownNext ==
  /\ phase = "shutdown" /\ resumed = <<>> /\ ops = <<>> /\ ~Unwinding
  /\ next <= count
  /\ ops' = Do(<<"force", "over">>, next) /\ next' = next + 1
  /\ UNCHANGED <<gens, regions, ctx, resumed, exit, phase, count>>

ShutdownEnds ==
  /\ phase = "shutdown" /\ resumed = <<>> /\ ops = <<>>
  /\ Unwinding \/ next > count
  /\ phase' = "over"
  /\ UNCHANGED <<gens, regions, ctx, resumed, ops, exit, count, next>>

Reachable == \E g \in Made :
  \/ Valid(g) \/ NextValue(g) \/ Rewind(g) \/ ForeachRewind(g)
  \/ Send(g) \/ ThrowInto(g) \/ YieldFrom(g)

Next ==
  \/ Create \/ EnterTry \/ LeaveTry \/ Throw \/ Exit \/ Return \/ Unwind
  \/ Reachable
  \/ LoopOver \/ LoopNext \/ \E n \in 1 .. 2 : Break(n)
  \/ Yield \/ BodyEnds
  \/ HostStep \/ Turn
  \/ MainEnds \/ ShutdownNext \/ ShutdownEnds

Spec == Init /\ [][Next]_vars

-----------------------------------------------------------------------------
TypeOK ==
  /\ gens \in Seq(Cell) /\ Len(gens) <= MaxGens
  /\ regions \in [Codes -> Seq(Region)]
  /\ ctx \in Context /\ resumed \in Seq(Resumer) /\ ops \in Seq(Op)
  /\ exit \in BOOLEAN
  /\ phase \in {"run", "shutdown", "over"} /\ count \in 0 .. MaxGens /\ next \in 1 .. MaxGens + 1

\* The call frames of each piece of code are in one place: installed when it
\* runs, with its resumer's record when it waits, in its cell when it sleeps;
\* and its coroutine is in the cell exactly then.
FramesOnce ==
  LET active == {resumed[i].gen : i \in DOMAIN resumed} IN
  /\ ctx.frames = <<Cur>>
  /\ \A g \in Made :
       /\ gens[g].saved.frames = IF g \in active THEN <<>> ELSE <<g>>
       /\ gens[g].coro = IF g \in active THEN "taken" ELSE "here"

\* What is thrown into a generator, or forces it to return, reaches the yield
\* it was meant for: none waits in a generator that can still be resumed.
\* False in a program with "reenter": see GeneratorsReenter.cfg.
NothingInjectedLater ==
  \A g \in Made : gens[g].inject # "none" /\ ~gens[g].done
    => ops # <<>> /\ Target = g /\ Head(ops).step = "resume"

\* A generator that is over has left all its regions: no finally of it waits
\* for a resumption that will not come, whichever way it ended.
OverMeansOver ==
  \A g \in Made : gens[g].done => regions[g] = <<>> /\ gens[g].coro = "here"

\* "Destroy every generator still suspended", after an exit as well: those the
\* program made are over at the end, unless one of them unwinds again.
ShutdownReachesAll ==
  phase = "over" /\ ~Unwinding => \A g \in 1 .. count : gens[g].done

\* rewind() is accepted only while nothing has been consumed.
RewindLosesNothing == \A g \in Made : gens[g].first => gens[g].yields <= 1

\* "Leaving the loop (exhausted, or by break) frees the iterator": a break
\* releases every generator whose loop it leaves.
BreakFrees ==
  [][\A n \in 1 .. 2 : Break(n) =>
       \A i \in Len(regions'[Cur]) + 1 .. Len(regions[Cur]) :
         \E op \in Range(ops') : op.step = "release" /\ op.gen = regions[Cur][i].gen]_vars
=============================================================================
