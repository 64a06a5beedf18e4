--------------------------- MODULE OutputBuffering ---------------------------
(***************************************************************************)
(* The output buffers of stdlib/output.rs: a stack of handlers on the host *)
(* (PhpHost.ob), each holding the text written above the one below it.     *)
(* A user handler is PHP code that handler_op calls in the middle of an    *)
(* ob_* function, of the end of the request (end_all) or of a write that   *)
(* filled a chunk (drain_chunks); that code may write, call the same       *)
(* functions, throw or exit while the stack is being worked on.            *)
(*                                                                         *)
(* The program is not fixed: it may do any of these at every point.  Texts *)
(* are numbered in the order they are written and count as one character;  *)
(* a handler that returns a string returns the text it was given.          *)
(***************************************************************************)
EXTENDS Naturals, Sublists

CONSTANTS
  MaxTexts,    \* bound on the texts a program writes
  MaxStarts,   \* bound on the handlers it starts
  MaxDiagnostics, \* bound on the deprecations held in buffers
  ChunkSizes,  \* the chunk sizes it asks for; 0 is none
  Abilities,   \* the sets of operations it lets a handler refuse
  Throws,      \* may it throw, or fail?
  LateChunks,  \* may a chunk stay due when its drain was cut short, or fill
               \* when nothing drains it, while end_all runs?
  LockSurvived \* may a finally end the lock error, so that its handler goes on?

ASSUME OutputAssumption ==
  /\ MaxTexts \in Nat /\ MaxStarts \in Nat /\ MaxDiagnostics \in Nat
  /\ ChunkSizes \subseteq Nat
  /\ Abilities \subseteq SUBSET {"clean", "flush", "remove"}
  /\ Throws \in BOOLEAN /\ LateChunks \in BOOLEAN /\ LockSurvived \in BOOLEAN

VARIABLES
  ob,         \* PhpHost.ob, with what went past it: see OutputStates
  starts,     \* OutputState.next_id
  calls,      \* the user handlers in execution, innermost last
  mode,       \* who has control: see Modes
  unwinding,  \* pending_throw or pending_exit is set
  failed,     \* a fatal error is on its way up the Rust stack
  ending,     \* end_all runs
  written     \* history: how many texts have been written

vars == <<ob, starts, calls, mode, unwinding, failed, ending, written>>

-----------------------------------------------------------------------------
None == 0
Ids == 1 .. MaxStarts

\* A diagnostic's text; those of the program are 1, 2, ...
Diagnostic == 0
Texts == 0 .. MaxTexts + 1
ProgramTexts(s) == Keep(s, Texts \ {Diagnostic})

\* ObHandler; `produced` is the flag PRODUCED_OUTPUT.
Handlers ==
  [id : Ids, user : BOOLEAN, size : ChunkSizes, able : Abilities,
   started : BOOLEAN, disabled : BOOLEAN, produced : BOOLEAN, buf : Seq(Texts)]

\* OutputState.  `client` is what write_unbuffered let out, diagnostics left
\* aside; `dropped` the texts given up, and `lost` those among them that no
\* operation was meant to give up: they went with a handler's fatal error.
OutputStates ==
  [handlers : Seq(Handlers), running : Ids \cup {None}, due : Ids \cup {None},
   deactivated : BOOLEAN, client : Seq(Texts),
   dropped : SUBSET Texts, lost : SUBSET Texts]

\* Who called handler_op, and with which operation.
Drains == {"drain", "boundary"}
Operations == {"flush", "clean", "pop", "discard"}
Callers == Drains \cup Operations
Calls == [id : Ids, by : Callers, data : Seq(Texts), first : BOOLEAN]

\* run: the innermost PHP code, or end_all, goes on.  drain and boundary:
\* drain_chunks is in its loop, called by a builtin or, after it, by the
\* wrapper around every builtin.  halt: the innermost PHP code has stopped.
Modes == Drains \cup {"run", "halt", "over"}

Init ==
  /\ ob = [handlers |-> <<>>, running |-> None, due |-> None,
           deactivated |-> FALSE, client |-> <<>>, dropped |-> {}, lost |-> {}]
  /\ starts = 0 /\ calls = <<>> /\ mode = "run"
  /\ unwinding = "none" /\ failed = FALSE /\ ending = FALSE /\ written = 0

-----------------------------------------------------------------------------
(* The operations on the stack, as functions of the output state o.        *)

Index(o, id) ==
  IF \E i \in DOMAIN o.handlers : o.handlers[i].id = id
    THEN CHOOSE i \in DOMAIN o.handlers : o.handlers[i].id = id ELSE 0

\* What the buffers hold, oldest first.
Contents(o) == FlattenSeq([i \in DOMAIN o.handlers |-> o.handlers[i].buf])

Full(h) == h.size > 0 /\ Len(h.buf) >= h.size

\* ob_write_below: into the first enabled of the n lowest handlers.
WriteBelow(o, n, text) ==
  LET enabled == {i \in 1 .. n : ~ o.handlers[i].disabled}
      i == Max(enabled)
      h == [o.handlers[i] EXCEPT !.buf = @ \o text,
                                 !.produced = @ \/ o.running # None]
  IN CASE text = <<>> -> o
       [] text # <<>> /\ enabled = {} ->
            [o EXCEPT !.client = @ \o ProgramTexts(text)]
       [] OTHER ->
            [o EXCEPT !.handlers[i] = h,
                      !.due = IF Full(h) /\ o.running = None THEN h.id ELSE @]

Write(o, text) == WriteBelow(o, Len(o.handlers), text)

\* write_below: passed down from a handler, or from the top when it is gone.
PassDown(o, id, text) ==
  WriteBelow(o, IF Index(o, id) = 0 THEN Len(o.handlers) ELSE Index(o, id) - 1, text)

Drop(o, texts) == [o EXCEPT !.dropped = @ \cup texts]
DropLast(o) == [o EXCEPT !.handlers = IF @ = <<>> THEN @ ELSE Front(@)]

\* produced_output_check: the deprecation goes past the handler it is about.
Deprecate(o, id) ==
  LET i == Index(o, id)
      muted == [o EXCEPT !.handlers[i].disabled = TRUE, !.handlers[i].produced = FALSE]
  IN IF i # 0 /\ o.handlers[i].produced
       THEN [Write(muted, << Diagnostic >>) EXCEPT !.handlers[i].disabled = FALSE]
       ELSE o

\* The end of handler_op: what the handler hands on, and its new state.  A
\* failure (FALSE, an exception) hands the buffer down; a fatal error of the
\* handler ("error") is returned in its place, and the buffer is gone.
Result(o, call, status) ==
  CASE status = "success" -> call.data
    [] status = "failure" /\ Index(o, call.id) # 0 -> o.handlers[Index(o, call.id)].buf
    [] OTHER -> <<>>

Disables(status) == status \in {"failure", "error"}

\* Mutant: the text stays in the buffer after the handler has had it.
SettleKeepsText(o, call, status) ==
  LET i == Index(o, call.id)
  IN IF i = 0 THEN [o EXCEPT !.running = None]
     ELSE [o EXCEPT !.running = None,
                    !.handlers[i] = [@ EXCEPT !.started = TRUE,
                                              !.disabled = @ \/ Disables(status)]]

Settle(o, call, status) ==
  LET i == Index(o, call.id)
      h == [o.handlers[i] EXCEPT !.started = TRUE, !.buf = <<>>,
                                 !.disabled = @ \/ Disables(status)]
      idle == [o EXCEPT !.running = None]
      gone == Range(o.handlers[i].buf) \ Range(Result(o, call, status))
      lost == IF status = "error" /\ call.by \notin {"clean", "discard"} THEN gone ELSE {}
  IN IF i = 0 THEN idle
     ELSE Drop([idle EXCEPT !.handlers[i] = h, !.lost = @ \cup lost], gone)

\* Mutant: what the last run produced is not written.
AnswerForgetsOutput(o, call, text) ==
  CASE call.by \in Drains \cup {"flush"} -> PassDown(o, call.id, text)
    [] call.by = "clean" -> Drop(o, Range(text))
    [] call.by = "pop" -> DropLast(o)
    [] call.by = "discard" -> Drop(DropLast(o), Range(text))

\* What the caller of handler_op does with its answer.
Answer(o, call, text) ==
  CASE call.by \in Drains \cup {"flush"} -> PassDown(o, call.id, text)
    [] call.by = "clean" -> Drop(o, Range(text))
    [] call.by = "pop" -> Write(DropLast(o), text)
    [] call.by = "discard" -> Drop(DropLast(o), Range(text))

Complete(o, call, status) ==
  Answer(Settle(o, call, status), call, Result(o, call, status))

-----------------------------------------------------------------------------
Unwinding == unwinding # "none"

InEndAll == ending /\ calls = <<>>
Php == mode = "run" /\ ~InEndAll

\* What follows a handler's run.  An operation of end_all is not followed by
\* a drain, any other is; a drain goes on, unless the run left an exception,
\* an exit or an error: then only the wrapper's own drain is still to come.
Resume(by, inEndAll, stopped) ==
  CASE inEndAll -> "run"
    [] ~inEndAll /\ by \in Operations -> "drain"
    [] ~inEndAll /\ by \in Drains /\ ~stopped -> by
    [] ~inEndAll /\ by = "drain" /\ stopped -> "boundary"
    [] ~inEndAll /\ by = "boundary" /\ stopped -> "halt"

\* handler_op: the default handler passes its text on, a user handler runs.
RunHandler(o, i, by) ==
  LET h == o.handlers[i]
      call == [id |-> h.id, by |-> by, data |-> h.buf, first |-> ~h.started]
      status == IF h.buf = <<>> THEN "nodata" ELSE "success"
  IN IF h.user
       THEN /\ ob' = [o EXCEPT !.running = h.id]
            /\ calls' = Append(calls, call)
            /\ mode' = "run"
       ELSE /\ ob' = Complete(o, call, status)
            /\ mode' = Resume(by, InEndAll, Unwinding)
            /\ calls' = calls

-----------------------------------------------------------------------------
(* What PHP code does.                                                     *)

\* echo; also an ob_* call that is refused, which writes a notice and leaves
\* everything else alone.
Echo ==
  /\ Php /\ written < MaxTexts
  /\ written' = written + 1
  /\ ob' = Write(ob, << written' >>)
  /\ mode' = "drain"
  /\ UNCHANGED <<starts, calls, unwinding, failed, ending>>

\* Mutant: handlers may use output buffering.
NeverLocked == FALSE

Locked == ob.handlers # <<>> /\ ob.running # None

\* Mutant: the flag of the lock error is not tested.
StartAfterDeactivation ==
  /\ Php /\ ~Locked /\ starts < MaxStarts
  /\ \E user \in BOOLEAN, size \in ChunkSizes, able \in Abilities :
       ob' = [ob EXCEPT !.handlers = Append(@,
                [id |-> starts + 1, user |-> user, size |-> size, able |-> able,
                 started |-> FALSE, disabled |-> FALSE, produced |-> FALSE,
                 buf |-> <<>>])]
  /\ starts' = starts + 1
  /\ mode' = "drain"
  /\ UNCHANGED <<calls, unwinding, failed, ending, written>>

ObStart ==
  /\ Php /\ ~Locked /\ ~ob.deactivated /\ starts < MaxStarts
  /\ \E user \in BOOLEAN, size \in ChunkSizes, able \in Abilities :
       ob' = [ob EXCEPT !.handlers = Append(@,
                [id |-> starts + 1, user |-> user, size |-> size, able |-> able,
                 started |-> FALSE, disabled |-> FALSE, produced |-> FALSE,
                 buf |-> <<>>])]
  /\ starts' = starts + 1
  /\ mode' = "drain"
  /\ UNCHANGED <<calls, unwinding, failed, ending, written>>

Needs(by) == CASE by = "flush" -> "flush" [] by = "clean" -> "clean" [] OTHER -> "remove"

\* ob_flush, ob_clean, ob_end_flush and ob_end_clean (ob_get_flush and
\* ob_get_clean only read the buffer first).
Allowed(by) ==
  Php /\ ob.handlers # <<>> /\ Needs(by) \in Last(ob.handlers).able

Operate(by) ==
  /\ Allowed(by) /\ ~Last(ob.handlers).disabled /\ ~Locked
  /\ Len(Keep(Contents(ob), {Diagnostic})) <= MaxDiagnostics
  /\ RunHandler(ob, Len(ob.handlers), by)
  /\ UNCHANGED <<starts, unwinding, failed, ending, written>>

\* A disabled handler is not run, and not protected by the lock either.
OperateDisabled(by) ==
  /\ Allowed(by) /\ Last(ob.handlers).disabled
  /\ ob' = IF by \in {"pop", "discard"} THEN DropLast(ob) ELSE ob
  /\ mode' = "drain"
  /\ UNCHANGED <<starts, calls, unwinding, failed, ending, written>>

\* lock_error: output buffering ends and the program with it.
LockError ==
  /\ Php /\ Locked
  /\ \/ starts < MaxStarts
     \/ \E by \in Operations : (Allowed(by) /\ ~Last(ob.handlers).disabled)
  /\ ob' = [ob EXCEPT !.handlers = <<>>, !.running = None, !.due = None,
                      !.deactivated = TRUE, !.dropped = @ \cup Range(Contents(ob))]
  /\ failed' = TRUE
  /\ mode' = "halt"
  /\ UNCHANGED <<starts, calls, unwinding, ending, written>>

Throw ==
  /\ Throws /\ Php /\ ~Unwinding
  /\ unwinding' = "throw" /\ mode' = "halt"
  /\ UNCHANGED <<ob, starts, calls, failed, ending, written>>

Exit ==
  /\ Php /\ ~Unwinding
  /\ unwinding' = "exit" /\ mode' = "halt"
  /\ UNCHANGED <<ob, starts, calls, failed, ending, written>>

\* An error that is no exception, such as a refused opcode (its message is
\* left aside).  With a chunk due, the handler that the builtin's boundary
\* runs would start with the error set: this is left out.
Fatal ==
  /\ Throws /\ Php /\ ~Unwinding /\ ob.due = None
  /\ failed' = TRUE /\ mode' = "halt"
  /\ UNCHANGED <<ob, starts, calls, unwinding, ending, written>>

\* A finally runs after a fatal error, which run_body has taken, and may end
\* it; one that starts with an exception or an exit pending goes on unwinding.
Finally ==
  /\ mode = "halt" /\ failed
  /\ LockSurvived \/ ~ob.deactivated
  /\ LateChunks \/ ob.due = None
  /\ failed' = FALSE
  /\ mode' \in IF Unwinding THEN {"run", "halt"} ELSE {"run"}
  /\ UNCHANGED <<ob, starts, calls, unwinding, ending, written>>

Catch ==
  /\ mode = "halt" /\ unwinding = "throw" /\ ~failed
  /\ LateChunks \/ ob.due = None
  /\ unwinding' = "none" /\ mode' = "run"
  /\ UNCHANGED <<ob, starts, calls, failed, ending, written>>

\* Any other builtin: it drains too.
Boundary ==
  /\ Php \/ mode = "halt"
  /\ ob.due # None
  /\ mode' = "boundary"
  /\ UNCHANGED <<ob, starts, calls, unwinding, failed, ending, written>>

-----------------------------------------------------------------------------
(* The end of a user handler: false fails, true and "" swallow the text.   *)

HandlerEnds(status, o) ==
  LET call == Last(calls) IN
  /\ ob' = Complete(o, call, status)
  /\ calls' = Front(calls)
  /\ failed' = (failed /\ ~(ending /\ Len(calls) = 1))
  /\ mode' = Resume(call.by, ending /\ Len(calls) = 1, Unwinding \/ failed)
  /\ UNCHANGED <<starts, unwinding, ending, written>>

HandlerReturns ==
  /\ Php /\ calls # <<>> /\ ~Unwinding /\ ~failed
  /\ \E status \in {"failure", "nodata", "success"} :
       /\ status = "success" => Last(calls).data # <<>>
       /\ HandlerEnds(status, Deprecate(ob, Last(calls).id))

HandlerFails ==
  /\ calls # <<>>
  /\ mode = "halt" \/ (Php /\ (Unwinding \/ failed))
  /\ HandlerEnds(IF failed THEN "error" ELSE "failure", ob)

-----------------------------------------------------------------------------
(* drain_chunks *)

Due == LET i == Index(ob, ob.due) IN
  i # 0 /\ ~ob.handlers[i].disabled /\ Full(ob.handlers[i])

\* Mutant: chunk_due is read, not taken.
DrainKeepsChunkDue ==
  /\ mode \in Drains /\ ob.due # None
  /\ IF Due THEN RunHandler(ob, Index(ob, ob.due), mode)
            ELSE ob' = [ob EXCEPT !.due = None] /\ UNCHANGED <<calls, mode>>
  /\ UNCHANGED <<starts, unwinding, failed, ending, written>>

\* A handler that is due no more (popped, disabled or emptied since) is passed.
DrainChunk ==
  /\ mode \in Drains /\ ob.due # None
  /\ LET taken == [ob EXCEPT !.due = None] IN
     IF Due THEN RunHandler(taken, Index(ob, ob.due), mode)
            ELSE ob' = taken /\ UNCHANGED <<calls, mode>>
  /\ UNCHANGED <<starts, unwinding, failed, ending, written>>

DrainDone ==
  /\ mode \in Drains /\ ob.due = None
  /\ mode' = IF Unwinding \/ failed THEN "halt" ELSE "run"
  /\ UNCHANGED <<ob, starts, calls, unwinding, failed, ending, written>>

-----------------------------------------------------------------------------
(* The end of the request.                                                 *)

\* An uncaught exception is reported, an exit parked; what follows, shutdown
\* functions and destructors, is more of the program.
ScriptUnwound ==
  /\ mode = "halt" \/ (Php /\ Unwinding)
  /\ calls = <<>> /\ ~ending
  /\ IF unwinding = "throw" /\ ~failed /\ written <= MaxTexts
       THEN written' = written + 1 /\ ob' = Write(ob, << written' >>)
       ELSE UNCHANGED <<written, ob>>
  /\ LateChunks \/ ob'.due = None
  /\ unwinding' = "none" /\ failed' = FALSE /\ mode' = "run"
  /\ UNCHANGED <<starts, calls, ending>>

EndAll ==
  /\ Php /\ calls = <<>> /\ ~Unwinding
  /\ LateChunks \/ \A i \in DOMAIN ob.handlers : ob.handlers[i].size = 0
  /\ ending' = TRUE
  /\ UNCHANGED <<ob, starts, calls, mode, unwinding, failed, written>>

\* Mutant: a disabled handler is skipped, not popped.
FinalizeEnabled ==
  /\ mode = "run" /\ InEndAll /\ ob.handlers # <<>>
  /\ IF Last(ob.handlers).disabled
       THEN UNCHANGED <<ob, calls, mode>>
       ELSE RunHandler(ob, Len(ob.handlers), "pop")
  /\ UNCHANGED <<starts, unwinding, failed, ending, written>>

\* stack_pop with POP_FORCE, once for every handler still open ...
FinalizeTop ==
  /\ mode = "run" /\ InEndAll /\ ob.handlers # <<>>
  /\ IF Last(ob.handlers).disabled
       THEN ob' = DropLast(ob) /\ UNCHANGED <<calls, mode>>
       ELSE RunHandler(ob, Len(ob.handlers), "pop")
  /\ UNCHANGED <<starts, unwinding, failed, ending, written>>

\* ... and a drain that finds no handler left.
Finalized ==
  /\ mode = "run" /\ InEndAll /\ ob.handlers = <<>>
  /\ ob' = [ob EXCEPT !.due = None]
  /\ mode' = "over"
  /\ UNCHANGED <<starts, calls, unwinding, failed, ending, written>>

Terminated == mode = "over" /\ UNCHANGED vars

-----------------------------------------------------------------------------
Program ==
  \/ Echo \/ ObStart \/ LockError \/ Boundary
  \/ Throw \/ Exit \/ Fatal \/ Catch \/ Finally
  \/ \E by \in Operations : Operate(by) \/ OperateDisabled(by)

Engine ==
  \/ DrainChunk \/ DrainDone
  \/ ScriptUnwound \/ FinalizeTop \/ Finalized

HandlerDone == HandlerReturns \/ HandlerFails

Next == Program \/ Engine \/ HandlerDone \/ EndAll \/ Terminated

\* The interpreter does not stop between its own steps, and a handler, which
\* may loop and catch what it throws, does not do so for ever.
Spec == Init /\ [][Next]_vars /\ WF_vars(Engine) /\ SF_vars(HandlerDone)

-----------------------------------------------------------------------------
TypeOK ==
  /\ ob \in OutputStates
  /\ starts \in 0 .. MaxStarts
  /\ calls \in Seq(Calls)
  /\ mode \in Modes
  /\ unwinding \in {"none", "throw", "exit"}
  /\ failed \in BOOLEAN /\ ending \in BOOLEAN
  /\ written \in 0 .. MaxTexts + 1

\* Every text written is with the client, held, dropped by an operation that
\* says so (a clean, a handler that swallows or replaces it, the lock error),
\* or gone with a handler that ended by a fatal error: an operation never
\* throws away a buffer that is not the one it works on.
EveryTextSomewhere ==
  1 .. written \subseteq Range(ob.client) \cup Range(Contents(ob)) \cup ob.dropped

\* "Disabled, and its whole buffer goes down unprocessed" (output.rs:244): the
\* text of a handler that fails is handed down, however it fails.
FailureHandsDown == ob.lost = {}

\* handler_op keeps an id "across a callback, which may change the stack
\* under it": while a handler runs it stays on the stack, or the lock error
\* has emptied the stack.
HandlerOutlivesItsRun ==
  \A k \in DOMAIN calls : Index(ob, calls[k].id) # 0 \/ ob.deactivated

\* A handler does not run inside itself.
NotReentered ==
  \A j, k \in DOMAIN calls : calls[j].id = calls[k].id => j = k

\* "PHP_OUTPUT_HANDLER_START on its first run": no run that gets the bit
\* begins while another that got it is still going on.
StartsOnce ==
  \A j, k \in DOMAIN calls :
    calls[j].id = calls[k].id /\ calls[j].first /\ calls[k].first => j = k

\* After the lock error no handler is ever on the stack again.
DeactivatedForGood == ob.deactivated => ob.handlers = <<>>

\* end_all gets through every handler, whatever the handlers do.
EndAllEnds == ending ~> mode = "over"

Stream == INSTANCE OutputStream WITH
  client <- ob.client,
  pending <- ProgramTexts(Contents(ob))

\* However the handlers are nested, flushed and drained, the client gets the
\* texts in the order they were written, each at most once.
ImplementsStream == Stream!Spec
=============================================================================
