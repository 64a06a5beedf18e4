----------------------------- MODULE TryFinally -----------------------------
(***************************************************************************)
(* How phplang runs `try`/`catch`/`finally`, `break n`, `continue n`,      *)
(* `return`, `throw`, `exit` and `@expr` across detached chunks.           *)
(*                                                                         *)
(* The compiler lowers every try, catch and finally body to a chunk of its *)
(* own (compiler.rs, compile_detached); run_try_orchestrator (host.rs)     *)
(* runs them one after the other on the Rust stack and reads the control   *)
(* signal each one left on the host: pending_exit, pending_throw, signal   *)
(* or an error.  A chunk that a signal ends is "halted" by moving its      *)
(* instruction pointer to the end, so the host fields are the only channel *)
(* between a body, its orchestrator and the chunk the `try` stands in.     *)
(*                                                                         *)
(* The program is not fixed: at every point the running chunk may do any   *)
(* statement the compiler would accept there.                              *)
(***************************************************************************)
EXTENDS Naturals, Sequences

CONSTANTS
  MaxFrames,     \* bound on the chunks stacked on each other
  MaxLoops,      \* bound on the loops open around a statement, per function
  MaxSilence,    \* bound on the host's @-region counter
  BreakUnderFinally, \* may a break leave a try while an enclosing finally runs?
  BreakFromLoop,     \* may a break leave a try from a loop inside that try?
  ExitUnderCatch     \* may exit run below a catch clause that has a finally?

ASSUME BoundsAssumption ==
  /\ MaxFrames \in Nat \ {0}
  /\ MaxLoops \in Nat
  /\ MaxSilence \in Nat
  /\ BreakUnderFinally \in BOOLEAN
  /\ BreakFromLoop \in BOOLEAN
  /\ ExitUnderCatch \in BOOLEAN

VARIABLES
  stack,          \* the chunks in execution, innermost last
  mode,           \* what the interpreter does next with the last of them
  signal,         \* PhpHost.signal
  throwing,       \* PhpHost.pending_throw is set
  exiting,        \* PhpHost.pending_exit is set
  error,          \* PhpHost.error is set: a fatal that no catch can claim
  lastBreakLevel, \* PhpHost.last_break_level
  suppress,       \* PhpHost.suppress, the count of open @-regions
  outcome         \* how run_main ended

vars == <<stack, mode, signal, throwing, exiting, error, lastBreakLevel,
          suppress, outcome>>

host == <<signal, throwing, exiting, error>>

-----------------------------------------------------------------------------
Relayed == {"break", "continue"}

NoSignal == [type |-> "none", level |-> 0]
Signals == {NoSignal} \cup [type : {"return"} \cup Relayed, level : Nat]

\* TryStatus.  `level` is a history field: the code's Break and Continue
\* statuses carry no level, it travels in last_break_level.
Statuses ==
  [type : {"normal", "return", "throw", "exit", "fatal"} \cup Relayed, level : Nat]
Normal == [type |-> "normal", level |-> 0]

(***************************************************************************)
(* A chunk in execution.  `outer` is the compiler's outer_loops.len(), the *)
(* loops around this chunk in the same function; `loops` are those open in *)
(* the chunk itself.  `at` counts its open @-regions, and `base` those of  *)
(* the chunks below (a history field: the host only has the counter).      *)
(* `depth` and `held` are the locals suppress_depth and status of          *)
(* run_try_orchestrator.                                                   *)
(***************************************************************************)
Frames ==
  [kind : {"main", "fn", "try"}, phase : {"body", "catch", "finally"},
   hasFinally : BOOLEAN, outer : Nat, loops : Nat, base : Nat, at : Nat,
   depth : Nat, held : Statuses]

Body(kind, hasFinally, outer, base, depth) ==
  [kind |-> kind, phase |-> "body", hasFinally |-> hasFinally,
   outer |-> outer, loops |-> 0, base |-> base, at |-> 0,
   depth |-> depth, held |-> Normal]

top == stack[Len(stack)]
Pop(s) == SubSeq(s, 1, Len(s) - 1)
WithTop(s, f) == [s EXCEPT ![Len(s)] = f]

\* A halted chunk leaves its loops and its @-regions at once.
Abandon(s) == WithTop(s, [s[Len(s)] EXCEPT !.loops = 0, !.at = 0])

OpenLoops(f) == f.outer + f.loops
Regions(f) == f.base + f.at

Init ==
  /\ stack = << Body("main", FALSE, 0, 0, 0) >>
  /\ mode = "run"
  /\ signal = NoSignal
  /\ throwing = FALSE /\ exiting = FALSE /\ error = FALSE
  /\ lastBreakLevel = 0
  /\ suppress = 0
  /\ outcome = "none"

-----------------------------------------------------------------------------
(* What the running chunk does.  A statement cannot stand inside an        *)
(* expression, so it needs every @-region of the chunk to be closed; calls,*)
(* throws and exits are expressions.                                       *)

Expression == mode = "run"
Statement == mode = "run" /\ top.at = 0

OpenLoop ==
  /\ Statement /\ OpenLoops(top) < MaxLoops
  /\ stack' = WithTop(stack, [top EXCEPT !.loops = @ + 1])
  /\ UNCHANGED <<mode, host, lastBreakLevel, suppress, outcome>>

CloseLoop ==
  /\ Statement /\ top.loops > 0
  /\ stack' = WithTop(stack, [top EXCEPT !.loops = @ - 1])
  /\ UNCHANGED <<mode, host, lastBreakLevel, suppress, outcome>>

\* SUPPRESS_PUSH and SUPPRESS_POP around the operand of @.
Silence ==
  /\ Expression /\ suppress < MaxSilence
  /\ stack' = WithTop(stack, [top EXCEPT !.at = @ + 1])
  /\ suppress' = suppress + 1
  /\ UNCHANGED <<mode, host, lastBreakLevel, outcome>>

Unsilence ==
  /\ Expression /\ top.at > 0
  /\ stack' = WithTop(stack, [top EXCEPT !.at = @ - 1])
  /\ suppress' = IF suppress > 0 THEN suppress - 1 ELSE 0
  /\ UNCHANGED <<mode, host, lastBreakLevel, outcome>>

\* Mutant: a jump leaves one loop too many.
JumpTooFar(kind, n, l) == IF kind = "break" THEN l - n - 1 ELSE l - n

\* A break or continue whose loop is in this chunk is a jump: LoopsLeft is
\* how many of the chunk's `l` loops are open once it has landed.
LoopsLeft(kind, n, l) == IF kind = "break" THEN l - n ELSE l - n + 1

\* The chunk ends here; `s` is the signal, if any, it leaves on the host.
HaltWith(s) ==
  /\ signal' = s
  /\ mode' = "ended"
  /\ stack' = Abandon(stack)

\* `break n` and `continue n`.  break_target refuses a level deeper than the
\* loops of the function; a loop outside the chunk is reached by a signal.
\* It carries the whole level, the loops of this chunk included, although
\* they end with it.
Jump(kind, n) ==
  /\ Statement /\ n \in 1 .. OpenLoops(top)
  /\ IF n <= top.loops
       THEN /\ stack' = WithTop(stack, [top EXCEPT !.loops = LoopsLeft(kind, n, @)])
            /\ UNCHANGED <<mode, signal>>
       ELSE /\ BreakUnderFinally
                 \/ \A i \in 1 .. Len(stack) - 1 : stack[i].phase # "finally"
            /\ BreakFromLoop \/ top.loops = 0
            /\ HaltWith([type |-> kind, level |-> n])
  /\ UNCHANGED <<throwing, exiting, error, lastBreakLevel, suppress, outcome>>

Return ==
  /\ Statement
  /\ HaltWith([type |-> "return", level |-> 0])
  /\ UNCHANGED <<throwing, exiting, error, lastBreakLevel, suppress, outcome>>

Throw ==
  /\ Expression
  /\ throwing' = TRUE
  /\ HaltWith(signal)
  /\ UNCHANGED <<exiting, error, lastBreakLevel, suppress, outcome>>

Exit ==
  /\ Expression
  /\ ExitUnderCatch
       \/ \A i \in 1 .. Len(stack) : ~ (stack[i].phase = "catch" /\ stack[i].hasFinally)
  /\ exiting' = TRUE
  /\ HaltWith(signal)
  /\ UNCHANGED <<throwing, error, lastBreakLevel, suppress, outcome>>

\* fail(): an error no PHP exception stands for, such as a refused opcode.
Fatal ==
  /\ Expression
  /\ error' = TRUE
  /\ HaltWith(signal)
  /\ UNCHANGED <<throwing, exiting, lastBreakLevel, suppress, outcome>>

\* The last statement of the chunk has run.
FallOff ==
  /\ Statement /\ top.loops = 0
  /\ HaltWith(signal)
  /\ UNCHANGED <<throwing, exiting, error, lastBreakLevel, suppress, outcome>>

\* Mutant: the silence depth to restore is taken to be none.
EnterTryForgetsDepth(hasFinally) ==
  /\ Statement /\ Len(stack) < MaxFrames
  /\ stack' = Append(stack, Body("try", hasFinally, OpenLoops(top), Regions(top), 0))
  /\ UNCHANGED <<mode, host, lastBreakLevel, suppress, outcome>>

\* RUN_TRY enters run_try_orchestrator, which runs the try body.
EnterTry(hasFinally) ==
  /\ Statement /\ Len(stack) < MaxFrames
  /\ stack' = Append(stack,
        Body("try", hasFinally, OpenLoops(top), Regions(top), suppress))
  /\ UNCHANGED <<mode, host, lastBreakLevel, suppress, outcome>>

Call ==
  /\ Expression /\ Len(stack) < MaxFrames
  /\ stack' = Append(stack, Body("fn", FALSE, 0, Regions(top), 0))
  /\ UNCHANGED <<mode, host, lastBreakLevel, suppress, outcome>>

-----------------------------------------------------------------------------
(* What the interpreter does when a chunk has ended.                       *)

\* run_body: the status the ended chunk is read back as ...
EndedStatus ==
  CASE error -> [Normal EXCEPT !.type = "fatal"]
    [] ~error /\ exiting -> [Normal EXCEPT !.type = "exit"]
    [] ~error /\ ~exiting /\ throwing -> [Normal EXCEPT !.type = "throw"]
    [] ~error /\ ~exiting /\ ~throwing /\ signal.type # "none" ->
         [type |-> signal.type, level |-> signal.level]
    [] OTHER -> Normal

\* Mutant: the pending exception is copied, not taken.
TakeKeepsThrow ==
  LET status == EndedStatus.type IN
  /\ error' = FALSE
  /\ throwing' = throwing
  /\ signal' = IF status \in {"return"} \cup Relayed THEN NoSignal ELSE signal
  /\ lastBreakLevel' = IF status \in Relayed THEN signal.level ELSE lastBreakLevel
  /\ exiting' = exiting

\* ... and the host fields it takes: only the one it returns.
TakeSignal ==
  LET status == EndedStatus.type IN
  /\ error' = FALSE
  /\ throwing' = (throwing /\ status # "throw")
  /\ signal' = IF status \in {"return"} \cup Relayed THEN NoSignal ELSE signal
  /\ lastBreakLevel' = IF status \in Relayed THEN signal.level ELSE lastBreakLevel
  /\ exiting' = exiting

BodyReturns(phase) ==
  /\ mode = "ended" /\ top.kind = "try" /\ top.phase = phase
  /\ TakeSignal
  /\ mode' = "orchestrate"
  /\ outcome' = outcome

\* Only the try body's @-regions are put back.
TryBodyReturns ==
  /\ BodyReturns("body")
  /\ stack' = WithTop(stack, [top EXCEPT !.held = EndedStatus])
  /\ suppress' = top.depth

CatchReturns ==
  /\ BodyReturns("catch")
  /\ stack' = WithTop(stack, [top EXCEPT !.held = EndedStatus])
  /\ suppress' = suppress

\* Mutant: the pending status survives whatever the finally does.
FinallyCannotOverride ==
  /\ BodyReturns("finally")
  /\ stack' = stack
  /\ suppress' = suppress

\* A finally that did not end normally replaces the pending status.
FinallyReturns ==
  /\ BodyReturns("finally")
  /\ stack' = IF EndedStatus = Normal THEN stack
              ELSE WithTop(stack, [top EXCEPT !.held = EndedStatus])
  /\ suppress' = suppress

Orchestrating == mode = "orchestrate"

\* Some clause may name the thrown class; whether one does is the program's.
RunCatch ==
  /\ Orchestrating /\ top.phase = "body" /\ top.held.type = "throw"
  /\ stack' = WithTop(stack, [top EXCEPT !.phase = "catch", !.held = Normal])
  /\ mode' = "run"
  /\ UNCHANGED <<host, lastBreakLevel, suppress, outcome>>

\* Mutant: exit in the try body runs the finally.
FinallyAlwaysRuns == FALSE

SkipsFinally == top.phase = "body" /\ top.held.type = "exit"

RunFinally ==
  /\ Orchestrating /\ top.phase # "finally" /\ top.hasFinally /\ ~SkipsFinally
  /\ stack' = WithTop(stack, [top EXCEPT !.phase = "finally"])
  /\ mode' = "run"
  /\ UNCHANGED <<host, lastBreakLevel, suppress, outcome>>

Finishing ==
  /\ Orchestrating
  /\ top.phase = "finally" \/ ~top.hasFinally \/ SkipsFinally

\* Status 0: the parent chunk goes on after the construct.
FinishNormal ==
  /\ Finishing /\ top.held.type = "normal"
  /\ stack' = Pop(stack)
  /\ mode' = "run"
  /\ UNCHANGED <<host, lastBreakLevel, suppress, outcome>>

\* Statuses 1 and 2, and a fatal: the value is stashed again and the parent
\* chunk halts.
FinishHalting ==
  /\ Finishing /\ top.held.type \in {"return", "throw", "exit", "fatal"}
  /\ signal' = IF top.held.type = "return" THEN [NoSignal EXCEPT !.type = "return"]
               ELSE signal
  /\ throwing' = (throwing \/ top.held.type = "throw")
  /\ error' = (top.held.type = "fatal")
  /\ stack' = Abandon(Pop(stack))
  /\ mode' = "ended"
  /\ UNCHANGED <<exiting, lastBreakLevel, suppress, outcome>>

\* Statuses 3 and 4, with the dispatch emit_break_dispatch compiles behind
\* them: the level comes from last_break_level, one test per loop of the
\* parent chunk, and what is left of it goes to the next chunk out.
FinishRelaying ==
  /\ Finishing /\ top.held.type \in Relayed
  /\ LET below == Pop(stack)
         depth == below[Len(below)].loops
         rest == IF lastBreakLevel > depth THEN lastBreakLevel - depth ELSE 1
     IN IF lastBreakLevel \in 1 .. depth
          THEN /\ stack' = WithTop(below, [below[Len(below)] EXCEPT !.loops =
                              LoopsLeft(top.held.type, lastBreakLevel, @)])
               /\ mode' = "run"
               /\ signal' = signal
          ELSE /\ stack' = Abandon(below)
               /\ mode' = "ended"
               /\ signal' = [type |-> top.held.type, level |-> rest]
  /\ UNCHANGED <<throwing, exiting, error, lastBreakLevel, suppress, outcome>>

\* Mutant: the dispatcher leaves the callee's signal on the host.
CallLeavesSignal ==
  /\ mode = "ended" /\ top.kind = "fn"
  /\ signal' = signal
  /\ error' = (error /\ signal.type # "return")
  /\ IF error' \/ throwing \/ exiting
       THEN stack' = Abandon(Pop(stack)) /\ mode' = "ended"
       ELSE stack' = Pop(stack) /\ mode' = "run"
  /\ UNCHANGED <<throwing, exiting, lastBreakLevel, suppress, outcome>>

\* Mutant: the dispatcher looks for the throw alone.
CallReturnsIgnoringExit ==
  /\ mode = "ended" /\ top.kind = "fn"
  /\ signal' = NoSignal
  /\ error' = (error /\ signal.type # "return")
  /\ IF error' \/ throwing
       THEN stack' = Abandon(Pop(stack)) /\ mode' = "ended"
       ELSE stack' = Pop(stack) /\ mode' = "run"
  /\ UNCHANGED <<throwing, exiting, lastBreakLevel, suppress, outcome>>

\* invoke_with_locals after the body: the signal is consumed whatever it is,
\* and the caller halts on anything that unwinds.
CallReturns ==
  /\ mode = "ended" /\ top.kind = "fn"
  /\ signal' = NoSignal
  /\ error' = (error /\ signal.type # "return")
  /\ IF error' \/ throwing \/ exiting
       THEN stack' = Abandon(Pop(stack)) /\ mode' = "ended"
       ELSE stack' = Pop(stack) /\ mode' = "run"
  /\ UNCHANGED <<throwing, exiting, lastBreakLevel, suppress, outcome>>

\* run_main.
MainReturns ==
  /\ mode = "ended" /\ top.kind = "main"
  /\ outcome' = CASE throwing -> "uncaught"
                  [] ~throwing /\ error -> "fatal"
                  [] ~throwing /\ ~error /\ exiting -> "exit"
                  [] OTHER -> "normal"
  /\ signal' = NoSignal /\ throwing' = FALSE /\ error' = FALSE
  /\ mode' = "done"
  /\ UNCHANGED <<stack, exiting, lastBreakLevel, suppress>>

-----------------------------------------------------------------------------
Program ==
  \/ OpenLoop \/ CloseLoop \/ Silence \/ Unsilence
  \/ \E kind \in Relayed, n \in 1 .. MaxLoops : Jump(kind, n)
  \/ Return \/ Throw \/ Exit \/ Fatal \/ FallOff \/ Call
  \/ \E hasFinally \in BOOLEAN : EnterTry(hasFinally)

Engine ==
  \/ TryBodyReturns \/ CatchReturns \/ FinallyReturns
  \/ RunCatch \/ RunFinally
  \/ FinishNormal \/ FinishHalting \/ FinishRelaying
  \/ CallReturns \/ MainReturns

\* run_main has returned: nothing is left to do.
Terminated == mode = "done" /\ UNCHANGED vars

Next == Program \/ Engine \/ Terminated

\* The interpreter never stops between two of its own steps; the program may
\* loop for ever, so nothing is assumed of it.
Spec == Init /\ [][Next]_vars /\ WF_vars(Engine)

-----------------------------------------------------------------------------
TypeOK ==
  /\ stack \in Seq(Frames) /\ Len(stack) \in 1 .. MaxFrames
  /\ mode \in {"run", "ended", "orchestrate", "done"}
  /\ signal \in Signals
  /\ throwing \in BOOLEAN /\ exiting \in BOOLEAN /\ error \in BOOLEAN
  /\ lastBreakLevel \in Nat
  /\ suppress \in Nat
  /\ outcome \in {"none", "normal", "exit", "fatal", "uncaught"}

\* No signal leaks from one construct into another: while the program runs,
\* nothing a body left on the host is still there (run_body takes what it
\* reads; "Signals are taken here so the next body runs clean").
RunsClean ==
  mode = "run" /\ ~exiting => signal = NoSignal /\ ~throwing /\ ~error

\* A body ends for one reason: the host never holds two signals between
\* which run_body's precedence would have to choose.
OneReason ==
  ~exiting => \/ ~throwing /\ ~error
              \/ ~throwing /\ signal = NoSignal
              \/ ~error /\ signal = NoSignal

\* "a signal carrying the levels still to unwind" (compiler.rs:1852): the
\* break that ended a chunk names a loop around that chunk.
SignalNamesALoop == mode = "ended" /\ signal.type \in Relayed => signal.level \in 1 .. top.outer

\* The level the compiled dispatch reads from last_break_level is the level
\* of the break that ended this try, not of one that ran in between.
DispatchReadsOwnLevel ==
  Finishing /\ top.held.type \in Relayed => lastBreakLevel = top.held.level

\* A diagnostic raised inside @expr is silenced: the counter covers every
\* region open around the running statement.
SilenceHolds == mode = "run" => suppress >= Regions(top)

\* ... and once every region is closed or abandoned, diagnostics are heard.
SilenceEnds == mode = "run" => suppress = Regions(top)

\* "no catch may claim it and no finally runs after it": once exit has run,
\* no statement of the program does.
ExitStopsProgram == exiting => mode # "run"

\* exit ends the request, and the status it asked for is what it ends with.
ExitEndsRequest == exiting ~> mode = "done" /\ outcome = "exit"

\* The try statement as the program sees it.
Aim(type, outer, level) ==
  CASE type = "break" -> outer - level
    [] type = "continue" -> outer - level + 1
    [] OTHER -> 0

FlowOf(status, outer) ==
  [type |-> status.type, aim |-> Aim(status.type, outer, status.level)]

\* What ended the chunk, or what its finally held back.
Carried == IF top.phase = "finally" /\ EndedStatus = Normal THEN top.held ELSE EndedStatus

AbstractFlow ==
  CASE mode = "run" -> [type |-> "running", aim |-> 0]
    [] mode = "ended" -> FlowOf(Carried, top.outer)
    [] mode = "orchestrate" -> FlowOf(top.held, top.outer)
    [] mode = "done" -> [type |-> "over", aim |-> 0]

AbstractFrame(i) ==
  LET f == stack[i] IN
  [kind |-> f.kind, phase |-> f.phase, hasFinally |-> f.hasFinally,
   outer |-> f.outer, loops |-> f.loops,
   pending |-> IF i = Len(stack) /\ mode # "run" THEN [type |-> "normal", aim |-> 0]
               ELSE FlowOf(f.held, f.outer)]

FramesSeen ==
  Append([i \in 1 .. Len(stack) - 1 |-> AbstractFrame(i)], AbstractFrame(Len(stack)))

Language == INSTANCE TryCompletion WITH frames <- FramesSeen, flow <- AbstractFlow

\* Running bodies as detached chunks that signal through the host implements
\* the try statement.
ImplementsLanguage == Language!Spec
=============================================================================
