---------------------------- MODULE ErrorHandlers ----------------------------
(***************************************************************************)
(* User error handlers of phplang (set_error_handler).  A diagnostic is    *)
(* raised inside a borrow of the host, where no PHP code can run; one that *)
(* the live handler takes is queued (PhpHost::diagnose) and handed over at *)
(* the next boundary of a builtin (drain_error_handlers).  The handler is  *)
(* PHP code: it raises diagnostics, changes the handlers, throws, exits.   *)
(*                                                                         *)
(* The wrapper around every builtin drains before and after the builtin,   *)
(* so a builtin starts with an empty queue; only an arithmetic operation   *)
(* or a builtin at work, which may raise several, adds to it.  Arithmetic  *)
(* is no builtin: one that throws halts its chunk without a drain.         *)
(***************************************************************************)
EXTENDS Naturals, Sequences

CONSTANTS
  MaxRaised,    \* bound on the diagnostics of a run
  MaxHandlers,  \* bound on the stack of handlers
  Masks,        \* the sets of levels handlers are set for
  Batch         \* bound on the diagnostics that wait at a time

\* The handleable levels; trigger_error(E_USER_ERROR) uses the last two.
Levels == {"warning", "deprecated", "error"}

ASSUME HandlersAssumption ==
  /\ MaxRaised \in Nat /\ MaxHandlers \in Nat /\ Batch \in Nat
  /\ Masks \subseteq SUBSET Levels

VARIABLES
  handlers,   \* PhpHost.error_handlers, the live one last
  queue,      \* PhpHost.queued_errors
  inHandler,  \* PhpHost.in_error_handler
  frames,     \* the code in execution: main, functions, handlers, trigger_error
  mode,       \* what the innermost frame does
  unwinding,  \* pending_throw, or pending_exit (or an error no catch takes)
  raised,     \* history: the number of diagnostics raised
  fate,       \* history: what has become of each that is over
  odd         \* history: which of the Oddities have occurred

vars == <<handlers, queue, inHandler, frames, mode, unwinding, raised, fate, odd>>

\* What the hand-over of diagnostics does not allow for: two that wait together,
\* a builtin that throws or exits while one waits, an arithmetic operator that
\* does, a builtin called by another that changes the handlers while one waits,
\* and a function entered although its deprecation made a handler exit.
Oddities == {"burst", "late throw", "native throw", "indirect", "late call"}

-----------------------------------------------------------------------------
\* `set` is FALSE for set_error_handler(null).
Handlers == [set : BOOLEAN, mask : SUBSET Levels]
Diagnostics == [n : Nat, level : Levels]

\* A function is "calling" until it is entered.  `by` is who called
\* invoke_error_handler.  History fields: the diagnostic of a handler, its mask,
\* and whether the frame started while nothing unwound.
Frames ==
  [kind : {"main", "calling", "call", "handler", "trigger"}, by : {"none", "drain", "trigger"},
   n : Nat, level : Levels, mask : SUBSET Levels, sound : BOOLEAN]

Frame(kind, by, item, mask) ==
  [kind |-> kind, by |-> by, n |-> item.n, level |-> item.level, mask |-> mask,
   sound |-> unwinding = "none"]

NoItem == [n |-> 0, level |-> "warning"]

Top(s) == s[Len(s)]
Pop(s) == SubSeq(s, 1, Len(s) - 1)
Drop2(s) == SubSeq(s, 1, Len(s) - 2)

Modes == {"php", "drain", "trigger", "halt", "done"}

Init ==
  /\ handlers = <<>> /\ queue = <<>> /\ inHandler = FALSE
  /\ unwinding = "none"
  /\ frames = << [kind |-> "main", by |-> "none", n |-> 0, level |-> "warning",
                  mask |-> {}, sound |-> TRUE] >>
  /\ mode = "php"
  /\ raised = 0 /\ fate = <<>> /\ odd = {}

-----------------------------------------------------------------------------
Live == handlers # <<>> /\ Top(handlers).set

\* Mutant: in_error_handler is not tested.
TakenWhileRunning(level) == Live /\ level \in Top(handlers).mask

\* Mutant: diagnose does not test the mask.
TakenAtAnyLevel(level) == ~inHandler /\ Live

\* error_handler_for: the live handler takes this level, and none runs.
Taken(level) ==
  ~inHandler /\ Live /\ level \in Top(handlers).mask

\* Diagnostics are numbered, so their fates are a sequence; `open` is a fate
\* still to be decided.
Becomes(f, items, what) ==
  [k \in DOMAIN f |-> IF \E i \in DOMAIN items : items[i].n = k THEN what ELSE f[k]]

\* diagnose, and diagnose_default when no handler takes the level.
Diagnose(level) ==
  /\ raised < MaxRaised
  /\ raised' = raised + 1
  /\ IF Taken(level)
       THEN /\ queue' = Append(queue, [n |-> raised + 1, level |-> level])
            /\ fate' = Append(fate, "open")
       ELSE /\ queue' = queue
            /\ fate' = Append(fate, "shown")

-----------------------------------------------------------------------------
(* PHP code *)

Occurs(oddity, when) == odd' = IF when THEN odd \cup {oddity} ELSE odd

Php == mode = "php"

\* A builtin is entered with nothing queued: its wrapper has drained.
AtBuiltin == Php /\ queue = <<>>

Raise ==
  /\ Php /\ Len(queue) < Batch
  /\ \E level \in {"warning", "deprecated"} : Diagnose(level)
  /\ Occurs("burst", Len(queue') > 1)
  /\ UNCHANGED <<handlers, inHandler, frames, mode, unwinding>>

\* A chunk that halts is in the end that of a builtin (RUN_TRY, a call), whose
\* wrapper drains after it, or the main one, after which run_main does.
Boundary ==
  /\ Php \/ mode = "halt"
  /\ queue # <<>>
  /\ mode' = "drain"
  /\ UNCHANGED <<handlers, queue, inHandler, frames, unwinding, raised, fate, odd>>

\* There is no wrapper around a builtin that another one calls, as call_user_func
\* or array_map do: it may find the queue of its caller.
SetHandler ==
  /\ Php /\ Len(handlers) < MaxHandlers
  /\ \E set \in BOOLEAN, mask \in Masks :
       handlers' = Append(handlers, [set |-> set, mask |-> mask])
  /\ Occurs("indirect", queue # <<>>)
  /\ UNCHANGED <<queue, inHandler, frames, mode, unwinding, raised, fate>>

RestoreHandler ==
  /\ Php /\ handlers # <<>>
  /\ handlers' = Pop(handlers)
  /\ Occurs("indirect", queue # <<>>)
  /\ UNCHANGED <<queue, inHandler, frames, mode, unwinding, raised, fate>>

\* throw, exit, or a builtin that fails after it has raised a diagnostic; the
\* wrapper drains before the chunk halts.
Unwind ==
  /\ Php /\ unwinding = "none"
  /\ unwinding' \in {"throw", "exit"}
  /\ mode' = "drain"
  /\ Occurs("late throw", queue # <<>>)
  /\ UNCHANGED <<handlers, queue, inHandler, frames, raised, fate>>

\* An arithmetic operator refuses its operands, maybe after a warning about the
\* left one: no wrapper is there to drain.
OperatorThrows ==
  /\ Php /\ unwinding = "none"
  /\ unwinding' = "throw"
  /\ mode' = "halt"
  /\ Occurs("native throw", queue # <<>>)
  /\ UNCHANGED <<handlers, queue, inHandler, frames, raised, fate>>

Catch ==
  /\ mode = "halt" /\ unwinding = "throw"
  /\ unwinding' = "none" /\ mode' = "php"
  /\ UNCHANGED <<handlers, queue, inHandler, frames, raised, fate, odd>>

\* trigger_error(E_USER_ERROR) raises a deprecation first and drains itself.
TriggerError ==
  /\ AtBuiltin /\ unwinding = "none"
  /\ Diagnose("deprecated")
  /\ frames' = Append(frames, Frame("trigger", "none", NoItem, {}))
  /\ mode' = "drain"
  /\ UNCHANGED <<handlers, inHandler, unwinding, odd>>

\* A call of a deprecated function raises the deprecation and drains before the
\* function is entered.
CallDeprecated ==
  /\ AtBuiltin /\ unwinding = "none"
  /\ Diagnose("deprecated")
  /\ frames' = Append(frames, Frame("calling", "none", NoItem, {}))
  /\ mode' = "drain"
  /\ UNCHANGED <<handlers, inHandler, unwinding, odd>>

\* The builtin that called the function drains once more.
CallEnds ==
  /\ Php \/ mode = "halt"
  /\ Top(frames).kind = "call"
  /\ frames' = Pop(frames)
  /\ mode' = "drain"
  /\ UNCHANGED <<handlers, queue, inHandler, unwinding, raised, fate, odd>>

\* run_main drains once more when the program has run.
MainEnds ==
  /\ Len(frames) = 1
  /\ Php \/ mode = "halt"
  /\ queue = <<>>
  /\ mode' = "done"
  /\ UNCHANGED <<handlers, queue, inHandler, frames, unwinding, raised, fate, odd>>

-----------------------------------------------------------------------------
(* drain_error_handlers and invoke_error_handler *)

Invoke(item, by) ==
  /\ frames' = Append(frames, Frame("handler", by, item, Top(handlers).mask))
  /\ inHandler' = TRUE /\ odd' = odd
  /\ mode' = "php"

\* Mutant: the item is read, and not removed before its handler runs.
DrainPeeks ==
  /\ mode = "drain" /\ queue # <<>> /\ Live
  /\ Invoke(Head(queue), "drain")
  /\ UNCHANGED <<handlers, queue, unwinding, raised, fate>>

\* The handler live now is called, whichever was when the item was queued.
DrainInvoke ==
  /\ mode = "drain" /\ queue # <<>> /\ Live
  /\ queue' = Tail(queue)
  /\ Invoke(Head(queue), "drain")
  /\ UNCHANGED <<handlers, unwinding, raised, fate>>

DrainDefault ==
  /\ mode = "drain" /\ queue # <<>> /\ ~Live
  /\ queue' = Tail(queue)
  /\ fate' = Becomes(fate, << Head(queue) >>, "shown")
  /\ UNCHANGED <<handlers, inHandler, frames, mode, unwinding, raised, odd>>

\* Mutant: a drain that halts abandons its caller's frame.
DrainPopsCaller ==
  LET quiet == unwinding = "none"
  IN
  /\ mode = "drain" /\ queue = <<>>
  /\ mode' = IF quiet THEN "php" ELSE "halt"
  /\ frames' = IF quiet THEN frames ELSE Pop(frames)
  /\ UNCHANGED <<handlers, queue, inHandler, unwinding, raised, fate, odd>>

\* Mutant: the callers do not look at the drain's answer.
DrainAnswerIgnored ==
  /\ mode = "drain" /\ queue = <<>>
  /\ mode' = IF Top(frames).kind = "trigger" THEN "trigger" ELSE "php"
  /\ UNCHANGED <<handlers, queue, inHandler, frames, unwinding, raised, fate, odd>>

\* What follows the drain: trigger_error goes on unless something unwinds, a
\* call unless an exception does, PHP code halts if anything does.
DrainDone ==
  LET quiet == unwinding = "none"
      kind == Top(frames).kind
  IN
  /\ mode = "drain" /\ queue = <<>>
  /\ CASE kind = "trigger" ->
            /\ mode' = IF quiet THEN "trigger" ELSE "halt"
            /\ frames' = IF quiet THEN frames ELSE Pop(frames)
       [] kind = "calling" ->
            IF unwinding = "throw"
              THEN mode' = "halt" /\ frames' = Pop(frames)
              ELSE /\ mode' = "php"
                   /\ frames' = Append(Pop(frames), Frame("call", "none", NoItem, {}))
       [] OTHER ->
            /\ mode' = IF quiet THEN "php" ELSE "halt"
            /\ frames' = frames
  /\ Occurs("late call", kind = "calling" /\ unwinding = "exit")
  /\ UNCHANGED <<handlers, queue, inHandler, unwinding, raised, fate>>

\* user_error, after the deprecation.
TriggerInvoke ==
  /\ mode = "trigger" /\ Taken("error")
  /\ raised' = raised + 1
  /\ fate' = Append(fate, "open")
  /\ Invoke([n |-> raised + 1, level |-> "error"], "trigger")
  /\ UNCHANGED <<handlers, queue, unwinding>>

TriggerFatal ==
  /\ mode = "trigger" /\ ~Taken("error")
  /\ frames' = Pop(frames)
  /\ unwinding' = "exit"
  /\ mode' = "drain"
  /\ UNCHANGED <<handlers, queue, inHandler, raised, fate, odd>>

\* Mutant: the rest of the queue is kept when a handler throws.
HandlerHaltsAtOnce(verdict) ==
  LET h == Top(frames)
      quiet == unwinding = "none"
  IN
  /\ h.kind = "handler"
  /\ inHandler' = FALSE
  /\ mode' = IF quiet THEN "drain" ELSE "halt"
  /\ frames' = IF h.by = "drain" THEN Pop(frames) ELSE Drop2(frames)
  /\ fate' = Becomes(fate, << h >>, verdict)
  /\ UNCHANGED <<handlers, queue, unwinding, raised, odd>>

\* A handler is over; `verdict` is what becomes of its diagnostic.  If it left
\* something unwinding, a drain drops what is still queued.
HandlerOver(verdict) ==
  LET h == Top(frames)
      told == Becomes(fate, << h >>, verdict)
      quiet == unwinding = "none"
  IN
  /\ h.kind = "handler"
  /\ inHandler' = FALSE
  /\ mode' = "drain"
  /\ \/ /\ h.by = "drain"
        /\ frames' = Pop(frames)
        /\ unwinding' = unwinding
        /\ queue' = IF quiet THEN queue ELSE <<>>
        /\ fate' = IF quiet THEN told ELSE Becomes(told, queue, "dropped")
     \/ /\ h.by = "trigger"
        /\ frames' = Drop2(frames)
        /\ unwinding' = IF quiet /\ verdict = "shown" THEN "exit" ELSE unwinding
        /\ queue' = queue /\ fate' = told
  /\ UNCHANGED <<handlers, raised, odd>>

HandlerReturns ==
  /\ Php
  /\ \/ HandlerOver("handled")
     \/ queue = <<>> /\ HandlerOver("shown")

HandlerHalts == mode = "halt" /\ HandlerOver("handled")

-----------------------------------------------------------------------------
Next ==
  \/ Raise \/ Boundary \/ SetHandler \/ RestoreHandler
  \/ Unwind \/ OperatorThrows \/ Catch
  \/ TriggerError \/ CallDeprecated \/ CallEnds \/ MainEnds
  \/ DrainInvoke \/ DrainDefault \/ DrainDone
  \/ TriggerInvoke \/ TriggerFatal \/ HandlerReturns \/ HandlerHalts
  \/ (mode = "done" /\ UNCHANGED vars)

Spec == Init /\ [][Next]_vars

-----------------------------------------------------------------------------
Fates == {"open", "shown", "handled", "dropped"}

TypeOK ==
  /\ handlers \in Seq(Handlers)
  /\ queue \in Seq(Diagnostics)
  /\ inHandler \in BOOLEAN
  /\ frames \in Seq(Frames) /\ frames # <<>>
  /\ mode \in Modes
  /\ unwinding \in {"none", "throw", "exit"}
  /\ raised \in Nat /\ odd \subseteq Oddities
  /\ fate \in Seq(Fates) /\ Len(fate) = raised

\* A diagnostic is dealt with once: while its fate is open it waits in the
\* queue or has one handler at work, and then it is in neither.
DealtWithOnce ==
  \A k \in DOMAIN fate :
    LET waits == {i \in DOMAIN queue : queue[i].n = k}
        works == {j \in DOMAIN frames : frames[j].kind = "handler" /\ frames[j].n = k}
    IN IF fate[k] = "open"
         THEN \/ waits = {} /\ \E j \in works : works = {j}
              \/ works = {} /\ \E i \in waits : waits = {i}
         ELSE waits = {} /\ works = {}

\* A handler is only called for the levels it was set for, although the drain
\* does not look at the mask again, unless a builtin that another one called
\* replaced the handler a diagnostic waited for.
HandlerTakesLevel ==
  "indirect" \notin odd =>
    \A j \in DOMAIN frames :
      frames[j].kind = "handler" => frames[j].level \in frames[j].mask

\* "Whatever is still queued is dropped with the statement that raised it":
\* the end of the script finds nothing, nor does the code that catches an
\* exception, unless an arithmetic operator threw while a diagnostic waited.
NothingOutlivesItsStatement ==
  /\ mode = "done" => queue = <<>>
  /\ "native throw" \notin odd /\ mode = "halt" => queue = <<>>

\* The same of every exception: it does not hold, the warning of an operator
\* that then throws is still queued when the catch body starts.
NothingOutlivesAThrow == mode = "halt" => queue = <<>>

HandlerRuns == \E j \in DOMAIN frames : frames[j].kind = "handler"

\* "While a handler runs, its own diagnostics take the default path."
OwnDiagnosticsDefault == Php /\ HandlerRuns => inHandler

\* No handler runs inside another, and the handler that runs is protected,
\* unless two diagnostics waited together.
NoNestedHandlers ==
  "burst" \notin odd =>
    /\ \A i, j \in DOMAIN frames :
         frames[i].kind = "handler" /\ frames[j].kind = "handler" => i = j
    /\ inHandler <=> HandlerRuns

\* A handler starts before an exception or exit is in flight, so that it runs to
\* its end, unless the builtin or the operator that raised the diagnostic threw,
\* or a function was entered in spite of an exit.
HandlersStartSound ==
  odd \cap {"late throw", "native throw", "late call"} = {} =>
    \A j \in DOMAIN frames : frames[j].kind = "handler" => frames[j].sound

\* A function whose deprecation made a handler exit is not entered: the drain
\* "answers whether the caller has to halt".
NoCallAfterExit ==
  \A j \in DOMAIN frames : frames[j].kind = "call" => frames[j].sound
=============================================================================
