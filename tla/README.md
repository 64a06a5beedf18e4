# phplang: a verification project

phplang runs PHP. A lexer, a parser and a compiler (`src/src/compiler.rs`) lower a script to
chunks of bytecode for the fusevm machine; a host (`src/src/host.rs`, one `PhpHost` per
thread) holds everything a chunk cannot: the heap, the scopes, the signals of control flow
and the state of the request. Builtins (`src/src/builtins.rs`, `src/src/stdlib/`) are the
only place where the machine reaches the host.

There is one thread and no lock. What makes this program hard is *re-entrance*: almost every
builtin may run PHP code (a callback, a destructor, an error handler, an output handler, an
autoloader, a generator body), and that code may call the builtin again while it is running,
throw through it, or end the request. Control leaves a chunk only by moving its instruction
pointer to the end; *why* it ended is recorded in host fields that the Rust caller reads
afterwards. Most of the invariants of the system are about those fields.

## Inventory

| Component | State | Operations | What is hard |
|---|---|---|---|
| try/catch/finally and control signals (`run_try_orchestrator`, `run_body`, `compile_try`) | `signal`, `pending_throw`, `pending_exit`, `error`, `last_break_level`, `suppress`; the Rust stack | running a body, choosing a clause, running the finally, relaying a break, returning from a call | signals shared by all bodies; what a finally may override; exit, which is not a signal |
| output buffering (`stdlib/output.rs`, `write_out`) | the stack of buffers with their handlers and flags, the buffer whose handler is due, the one whose handler is running | echo, ob_start, the flush/clean/get/end family, the end of the request | a handler runs PHP code that may echo and call ob_* while the stack is being changed |
| error handlers and diagnostics (`diagnose`, `drain_error_handlers`, `set_error_handler`) | the handler stack, the queue of diagnostics, `in_error_handler`, `suppress` | raising, draining at a builtin boundary, calling the handler, throwing from it | a diagnostic is queued where no PHP code can run and handled later, in another state |
| generators (`host.rs` 8178-8812) | a coroutine per generator with its own frames and signal; the resumer of each running body; what is to be injected | resume, send, throw, rewind, yield, `yield from`, foreach, release, destroy | bodies that resume, throw into and destroy each other; a suspended body with an open finally |
| the end of a request (`run_main`, `run_program`, `request_shutdown`, `call_destructors`, `shutdown_generators`) | the heap and its globals, what has been destructed, the shutdown functions, the exit status | uncaught exceptions, the exception handler, shutdown functions, the passes of destructors, suspended generators | each phase runs PHP code that may throw, exit, fail, change the heap and register more of the earlier phases |
| autoload, include and class declaration (`autoload`, `run_include`, `run_class_decl`, `early_bind`, `emit_link_checks`) | class table, included files, chain of loaders, the names being looked up | include, include_once, lookup, register and unregister, binding a class early or late | a loader that needs the class it loads, a file that includes itself, a parent whose file declares the child |
| streams and files (`stdlib/fileres.rs`, `fileio.rs`) | per stream a copy of the whole file, a position, an end-of-file flag; the disk | open, read, write, seek, truncate, flush, close, the whole-file functions | a copy that must be indistinguishable from the file |
| references and value semantics | ref cells, slots, arrays copied on assignment | binding, writing through, `global`, `static`, foreach by reference | two names of one cell; a copy that must not share |
| classes, properties and magic methods | class tables, guards of `__get`/`__set`, readonly initialisation | property access, cloning | a magic method that touches the property it stands in for |
| arrays | ordered map, `next_index`, internal pointer | append, insert, unset, sort | the next index at the integer boundary; a sort whose callback changes the array |
| strings and byte escapes (`bytes.rs`) | none | concatenation at a seam, conversion | two halves of a character that meet |
| lexer, parser, compiler, execution tiers, debugger, language server, tables, formats, dates, encodings, hashing | | | see *Not modelled* |

How they meet: every modelled component runs PHP code in the middle of its own operation and
shares the signal fields of the host (`signal`, `pending_throw`, `pending_exit`, `error`) with
the others. The compiler's jump to the end of a chunk and the host's `unwinding()` are the whole
interface. A builtin's boundary (`builtins.rs:31`) drains diagnostics and output chunks; the end
of the request runs, in this order, the exception handler, shutdown functions, destructors, the
generators still suspended, and the output buffers.

## Modules

### TryFinally, TryCompletion

`TryFinally` is the interpreter's control flow: `compile_try`, `compile_break_continue` and
`emit_break_dispatch` on the compiler's side, `run_body`, `run_try_orchestrator`,
`invoke_with_locals` and `run_main` on the host's. `stack` is the Rust stack of chunks (the
script, functions, and the try/catch/finally bodies, each with the loops and @-regions open in
it); `signal`, `throwing`, `exiting`, `error`, `lastBreakLevel` and `suppress` are the host
fields `signal`, `pending_throw`, `pending_exit`, `error`, `last_break_level` and `suppress`.
`mode` says whose turn it is: the chunk's (`run`), the caller's after the chunk ended (`ended`),
the orchestrator's (`orchestrate`).

The actions in `Program` are what a statement or an expression can do: open and close loops,
`@`, `break n`, `continue n`, `return`, `throw`, `exit`, a fatal error, a call, a `try`. No
program is fixed: the running chunk may do anything the compiler would accept at that point, so
the behaviours are those of all programs within the bounds. The actions in `Engine` are the
code's: `TryBodyReturns`, `CatchReturns`, `FinallyReturns` (`run_body` and what the orchestrator
does with its status), `RunCatch`, `RunFinally`, `FinishNormal`, `FinishHalting`,
`FinishRelaying` (the status codes and the compiled dispatch), `CallReturns`, `MainReturns`.
Fields that the code does not have and that only properties read are marked as history: `base`,
and the level inside `held`.

`TryCompletion` is the language: completions travel outwards, a `break` names its loop once.
There are no chunks, no signals and no levels in it. `ImplementsLanguage` is the refinement; the
mapping (`FramesSeen`, `AbstractFlow`) turns the relative level on the host into the loop aimed
at, so a level lost or counted wrongly anywhere on the way breaks it. A chunk that has ended holds
nothing back any more: what its finally carried on (`Carried`) is the completion under way.

A `break n` that leaves its chunk signals its whole level, as the compiler emits it
(`compiler.rs:1854`), the loops of its own chunk included, although those end with the chunk. So
`while (1) { try { while (1) { break 2; } } finally {} }` looks for a second loop outside the try.

Three constants take out of the program the three constructs where the code departs from the
language: a `break` that leaves a try from a loop inside that try (`BreakFromLoop`), a `break` that
leaves a try while an enclosing finally runs (`BreakUnderFinally`) and an `exit` below a catch that
has a finally (`ExitUnderCatch`). With all three left out the refinement and the levels hold, and
both are proved; `try_break_level_too_deep`, `try_break_level_clobbered` and
`TryFinallyExitInCatch.cfg` put one in each and show how they fail. What is proved about signals
and silence is proved with all in.

### OutputBuffering, OutputStream

`OutputBuffering` is `stdlib/output.rs` with `write_out`: `ob` is `PhpHost.ob` (the stack, the
handler that is `running`, the one whose chunk is `due`, `deactivated`), `calls` the user
handlers in execution with the operation that runs each, `mode` whether PHP code or a drain of
`drain_chunks` has control. `Echo`, `ObStart`, `Operate`, `OperateDisabled`, `LockError`,
`Throw`, `Exit`, `Fatal`, `Catch`, `Finally` and `Boundary` are the program's, in the script and in
handlers alike; `HandlerReturns` and `HandlerFails` are the part of `handler_op` behind the call,
together with what its caller then does; `DrainChunk`, `DrainDone` are `drain_chunks`;
`ScriptUnwound`, `EndAll`, `FinalizeTop`, `Finalized` the end of the request.

A handler ends in one of three ways. It answers; it ends by an exception or an exit, and its buffer
is handed down unprocessed; or it ends by a fatal error, `Err` in the callback, and `handler_op`
returns at once with the text it had already taken (`stdlib/output.rs` 241-256, 361-364), which is
lost. (The lock error drops all there is by itself.) A fatal error is on its way (`failed`) until
the script's end, and a `finally` on the way may run (`Finally`) and end it by a `return` or an
exception of its own.

A text counts as one character and is known by its number, so "in order", "lost" and "twice" can
be told; a handler that answers with a string answers with the text it was given. `client`
collects what `write_unbuffered` lets out, `dropped` what was given up, and `lost` those of them
that no operation meant to give up: `OutputBufferingFatal.cfg` shows that there are such texts.

`OutputStream` is the promise: texts reach the client in the order they were written, each at
most once. `ImplementsStream` is the refinement. Two constants take out of the program
what breaks it. `LateChunks` is a chunk that is due outside a drain, when `end_all` runs or after
an exception that cut a drain short; `OutputBufferingStartTwice.cfg` puts it back. `LockSurvived`
is a `finally` that ends the lock error inside a handler: the lock error has emptied the stack, the
handler goes on and may write straight to the client, and what it returns, the text it was given,
is sent behind that although the lock error has dropped it.
`ob_end_all` has it in.

### ErrorHandlers

`ErrorHandlers` is `diagnose`, `error_handler_for`, `drain_error_handlers`,
`invoke_error_handler`, the wrapper around every builtin, `set_error_handler`,
`restore_error_handler`, the call of a deprecated function and `user_error`. `handlers`, `queue`
and `inHandler` are `error_handlers`, `queued_errors` and `in_error_handler`; `frames` is the
code in execution, and `mode` whether PHP code runs, a drain does, `trigger_error` does, or the
innermost chunk has halted. A handler may raise, throw, exit, install and remove handlers, call
deprecated functions and `trigger_error`.

`fate` says of every diagnostic raised what became of it. `odd` remembers which of five things
that the hand-over does not allow for have occurred: two diagnostics waiting together, a builtin
that throws while one waits, an arithmetic operator that does (`OperatorThrows`), a builtin called
by another one that changes the handlers, and a function entered although its deprecation made a
handler exit. The properties that these break are stated for the behaviours without them, so that
one run covers all programs.

What the code does in those cases: an operator is no builtin, so when `"5 apples" + []` warns and
then throws no wrapper drains the warning, and it is still queued when the catch body starts
(`ErrorHandlersOperator.cfg`); a handler for the second diagnostic of a burst runs inside
the handler of the first and leaves it unprotected (`ErrorHandlersNested.cfg`); a handler for a
warning starts with the exception of the same builtin pending and halts at its first call;
`array_map("call_user_func", ["restore_error_handler"])` hands a waiting diagnostic to a handler
that never asked for its level; a deprecated function, and a deprecated member
(`raise_deprecated_member`), is entered after its handler has ended the request
(`ErrorHandlersExit.cfg`).

### Generators

`Generators` is the generator part of the host (`gen_resume`, `gen_yield`, `gen_send`,
`gen_throw`, `gen_rewind`, `gen_foreach_rewind`, `gen_yield_from`, `gen_release`, `gen_destroy`,
`shutdown_generators`, `install_gen_ctx`) with the loops the compiler writes around them
(`compile_foreach`, the release behind a loop, `break` out of several). `gens` is
`PhpHost.generators`: per generator where its coroutine is, the frames and signal put aside with
it, what is injected at its next resumption, `started`, `first`, `done`, `destroying`. `resumed`
is the stack of coroutines switched to, with what their resumers still have to do; `ctx` the
installed frames and signal; `regions` what each piece of code is inside of: a try with a catch or
a finally, a finally that runs, a loop over a fresh generator.

A host function is a sequence of `ops` that is worked off: `Initialise`, `Resume`, `RewindCheck`,
`Inject`, `Delegate`, `Release`, `Destroy`, `Bubble`, `SetReturn`. It is interrupted by every
switch (`SwitchTo`, `Suspend`, `BodyEnds`), and the rest waits with the resumer or, for
`yield from`, on the body's own stack (`cont`). Code in the main program and in every body is
free: `Create`, `EnterTry`, `LeaveTry`, `Throw`, `Exit`, `Return`, `LoopOver`, `LoopNext`,
`Break`, `Yield`, and the method calls, each on any generator that is held. `Unwind` leaves
regions for a signal, and runs a finally on the way. A fatal error (resuming a generator that
runs) is a signal like a throw, but no catch takes it; a finally does run on its way up, and may
yield, or end it by a `return`, a throw or an exit. Keys and values are abstracted away; a
generator held only by its loop (`held` false) is the one the loop frees.

`Constructs` says what the programs are written with. `"reenter"` is `throw()` on a generator
whose body runs: the exception is stored first (`host.rs:8633`), the resumption is refused, and
when a finally yields on that error's way up the exception is still there for a later resumption
(`GeneratorsReenter.cfg`). A try has a catch or a finally here, not both, and no `break` leaves
one: what a finally does after an exit in the catch beside it, and the levels of breaks, are the
subject of `TryFinally`.

### RequestEnd

`RequestEnd` starts where the main chunk has ended, in one of five ways, over *any* heap of the
bounds: `objects` are objects with a destructor, arrays, and generators suspended inside a finally,
each with what it `holds`; `global` says what the globals hold. `todo` is the Rust stack, written as
the list of what is left to do, innermost first: one step of it per action. `MainEnds`, `Handled`,
`Report`, `Uncaught` are `run_main` and `report_uncaught`; `Shutdown`, `ShutdownFn`, `AfterFn`,
`Escaped`, `Destructors`, `Restore` are `request_shutdown`; `Pass`, `NextGlobal`, `Free`,
`Children`, `Child`, `Rest`, `Destruct`, `AfterDestructor` are `call_destructors` with `free_object`
and `destruct_one`; `Generators` to `GeneratorsEnd` are `shutdown_generators`. A callback of any of
these is the step `code`: it may make and link objects, unset globals, register a shutdown function,
throw, exit and fail (`Program`), and it does so at every point where the host calls it. An
exception out of a destructor is reported at once; one out of the finally of a generator that the
sweep frees is not (`Raised`): it ends the sweep, stays pending, and `shutdown_generators` then runs
the first generator's finally before it notices (`Generator`, and the step `unwound`, which puts the
exception back). What a pass has still to do is the set of its objects, taken newest or oldest
first. `last` and `begun` are history: the status of the last exit, and how often each destructor
was called.

### ClassLoading

`ClassLoading` has a compiler and a host. The compiler: a file is a short sequence of statements
(a class that can be bound early or must wait, a call of a function that declares one, an include,
a use of a class), made up when the file is first read; `EarlyBound`, `Bound` and `Code` say which
declarations happen at load time, which wait for their statement, and which of those look for
their parent. The host: `stack` holds the files being run, the lookups under way with the loaders
not yet called, and the loaders; `Include`/`Read` are `run_include` and `run_loaded`,
`StartLookup`, `CallLoader`, `LookupEnds` are `autoload`, `Declare` and `Redeclared` the
declaration op. The main program and the loaders are any code: they include, ask for classes,
throw, register and unregister loaders. `Nested` adds functions that declare classes, where the
code departs from its comment.

### Streams, Files

`Streams` is `stdlib/fileres.rs` with the whole-file functions: a stream is a record with the copy
of its file (`buf`), position, flags and `dirty`; `disk` is the file system. Every function of a
stream is an action, `Flush` the write-back they end with. `Files` is what a script expects: a
descriptor is a position on a file that all share, and there are no copies. `ImplementsFiles` is the
refinement; `FilesSeen` and `FdsSeen` are what is seen of the streams: a file is what an open plain
stream carries, or what is on the disk. `Exclusive` restricts a path to several readers or one
writer: with two users of a file the copies are told apart from the file, which `streams_shared`
shows.

## Runs

| Run | Asks | Bounds |
|---|---|---|
| `try_language` | Do chunks and signals implement the try statement? Does exit stop everything and end the request? Is an @-region silent? | 4 chunks deep, 2 loops per function, 1 @-region |
| `try_break_level_clobbered` | Is the level read after a finally the break's own? (No.) | 4 chunks, 2 loops |
| `try_break_level_too_deep` | Does a break that leaves a try from a loop inside it name a loop there is? (No.) | 3 chunks, 2 loops |
| `ob_stream` | Is the output in order, once, and nowhere thrown away but by a fatal error, whatever handlers do? Is the lock error final? | 3 handlers, 2 texts and one of the engine's own, chunk sizes none and 1 |
| `ob_end_all` | Does the end of the request come through all handlers? (Liveness.) | 2 handlers that can or cannot be removed, 1 text |
| `error_handlers` | Is every diagnostic dealt with once, by a handler that takes it, and does nothing but an operator's throw leave one for a later statement? | 4 diagnostics, 2 handlers, 2 masks, 2 waiting together |
| `generators` | Do frames, injections and finally blocks stay with their generator however the bodies use each other? Does the end of the request reach all? | 2 generators and the main program, 1 region each |
| `request_end` | Each destructor once, only for garbage, none left out, none after a fatal error; the last exit's status; does the request end? | 2 objects, 2 globals, 2 links, 2 shutdown functions, 2 acts of the callbacks |
| `class_loading` | No class replaced or without its parent, no lookup that stays marked or never ends, nothing loaded twice by `_once`? | 2 classes, 2 files of at most 2 and together 3 statements, 2 loads, 2 loaders, 2 acts |
| `class_loading_nested` | The same parents with functions that declare classes. (One is declared without.) | 2 classes, 3 loads |
| `streams` | Can a stream's copy be told from the file? Does feof miss anything? | 1 stream, 1 file, 2 characters, writes of at most 2, files of at most 3 |
| `streams_shared` | Does an append with a second user keep what is in the file? (No.) | 2 streams on 1 file |

Why the bounds are enough to be interesting. Four chunks are a try in the script, a try in its body
or its finally, a call, and a try in the callee: every pair of constructs nests, and a completion
crosses up to three of them. Two loops tell `break 1` from `break 2`, one relayed from one consumed.
Three buffers have one below and one above the buffer worked on; two texts can be exchanged, one
lost or doubled. Four diagnostics are a burst of two, one raised by a handler and one after it. Two
generators can resume, throw into, delegate to and destroy each other and the main program's loop
can hold one of them; one region suffices to have a finally that yields, or a loop that is left. Two
objects are one that holds and one that is held, in either creation order and reached from either
pass; two acts let one callback undo what another did, and with two shutdown functions one can
register the other while the queue runs. Two loads are a file included by itself or by the loader of
a class it needs. A file of three characters has a write before, at and behind its end.

All bounds (`Max...`, `Batch`, the sets of masks, characters, chunk sizes and abilities) appear in
guards and initial states only. Nine restrictions are semantic and named: `BreakFromLoop`,
`BreakUnderFinally`, `ExitUnderCatch`, `LateChunks`, `LockSurvived`, `Nested`, `Exclusive`, in
`Constructs` the `throw()` on a running generator, and in `Acts` destructors that unset globals.
Each takes out of the program the one construct where the code does not keep the promise a passing
run states. What happens with it in is shown by a run or a configuration listed below, except for
two: with `LockSurvived` or `"unset"` put into a passing configuration, TLC finds its property
violated, and the text on `OutputBuffering` above and the one on `FreesOnlyGarbage` below say how.

`TypeOK` is checked for `TryFinally`, `ErrorHandlers` and `Streams`; the other modules state it,
and any configuration of theirs can name it.

## Fairness

`TryFinally` assumes weak fairness of `Engine`: between a chunk's end and the next chunk's start
the host's code is straight-line Rust and does not stop. Nothing is assumed of the program,
which may loop for ever; `ExitEndsRequest` holds all the same because exit leaves it nothing to
do. `OutputBuffering` assumes the same of its `Engine`, and strong fairness of `HandlerDone`: a
handler may loop, write, throw and catch its own exceptions, so that "it could return now" holds
only now and then, but it does not loop for ever. (A handler that does is a script that does not
end, not a fault of `end_all`.) With chunks due at any moment a handler whose lock was cleared by
a nested run can call itself for ever, in its own code; `ob_end_all` therefore excludes them.

`RequestEnd` assumes weak fairness of `Host` and `ClassLoading` of `Engine`, which include the end
of a callback (`CodeEnds`): a shutdown function, a destructor or a loader that returns. The bounds
on what callbacks do keep the request finite for the model, and one of them is a condition of the
claim: a shutdown function that registers itself again at every call never ends in the code either,
so `RequestEnds` speaks of finitely many registrations (`MaxFns`, `MaxActs`). What `RequestEnds` and
`LookupsEnd` show is that the host's own loops (callbacks registered meanwhile, exceptions thrown by
the report of an exception, passes repeated as long as one frees something, loaders that ask for
what is being looked for) do not go on by themselves. The other modules state no fairness.

## Proofs

Every safety property, action property and refinement of the passing runs is also a theorem, for
every value of the constants: 40 of them in seven modules, one beside each component.
`SequenceLemmas` has the lemmas several of them need (heads, tails and replaced elements of
sequences, and `Sublists`: what `Keep` keeps, in which order, and what is left of an element).
Where a proof needs induction, over numbers or along a sequence, it takes the least number that
fails (`WFMin` of the well-foundedness library), as the induction theorems themselves are out of
the provers' reach.

Some theorems have a hypothesis beyond the named assumptions on the bounds. Each is one of the
nine restrictions, which the passing run makes too: `~BreakFromLoop`, `~BreakUnderFinally`,
`~ExitUnderCatch`, `~LateChunks`, `~LockSurvived`, `~Nested`, `Exclusive`,
`"reenter" \notin Constructs`, `"unset" \notin Acts`. A theorem below not named with one does not
need it.

`TryFinallyProofs` (`BoundsAssumption`).
- For all programs: `TypeCorrect`, `BodiesRunClean` (`RunsClean`), `OneReasonToEnd` (`OneReason`)
  and `SilenceCovers` (`SilenceHolds`), from `FInv`: the types, `StackOK`, `ModeOK`, `SignalsOK`
  and `Covered`. None of the properties is inductive by itself. `RunsClean` needs to know what is
  on the host while a body is being *ended* (`OneReason`) and that the orchestrator, which runs
  between, has taken what it read (`SignalsOK`). `SilenceHolds` speaks of the running chunk, but a
  chunk is resumed when one above it is popped, so `StackOK` relates every frame to its neighbour:
  its `base` is the number of regions below it, and the depth its try will put back covers them.
- `ExitStops` (`ExitStopsProgram`), under `~ExitUnderCatch`: `Leaving` says that while an exit
  is under way no catch body that has a finally behind it is among the chunks still to end.
- `BreaksFindTheirLevel` (`DispatchReadsOwnLevel`, the property `try_break_level_clobbered` finds
  violated), under all three restrictions: a try that holds a break
  back has the level that is in `last_break_level`, and no try below it is in its finally
  (`Levels`), nor is one below a chunk that ends by a break (`Aimed`): one break is held back at
  most, and nothing overwrites its level.
- `TryIsImplemented` (`ImplementsLanguage`), under all three: `Spec` implements `TryCompletion`
  under the refinement mapping. Lemmas say what is seen of the stack when a chunk is pushed, popped
  or its frame changed; then each action is a step of the language or a stutter: what happens inside
  a chunk is a loop or an `@` (a stutter), what ends one a `Complete`, what starts one an `Enter`;
  `RunCatch` is `Catch`, `RunFinally` is `Finally`, the three `Finish` actions are `Leave`,
  `CallReturns` and `MainReturns` the end of a function and of the script, and the return of a body
  to the orchestrator is not seen. `FinishRelaying` is the step that needs `Levels`.

`OutputBufferingProofs` (`OutputAssumption`).
- For all programs, chunks due at any moment included: `TypeCorrect` and `StaysDeactivated`
  (`DeactivatedForGood`), which are inductive together.
- Under `~LateChunks`: `OneAtATime` (`NotReentered`) and `StaysWhileItRuns`
  (`HandlerOutlivesItsRun`); under `~LateChunks` and `~LockSurvived`: `EveryTextIsSomewhere`
  (`EveryTextSomewhere`) and the refinement `BuffersImplementStream` (`ImplementsStream`). `Orderly`
  says how the stack of handlers and the runs under way fit (identities ascend, and a disabled
  handler holds nothing; one runs at a time, is what the lock names, and is on the stack unless the
  lock error has emptied it; nothing is due while the program or a handler runs or the request
  ends). `Faithful` says that what is held back was written, each text once, and that every text is
  sent, held or dropped; what a fatal error loses counts as dropped there, and `lost` tells it from
  the rest. Every operation on the buffers keeps the order of what it keeps, sends a part from the
  front or drops texts (`Moves`), which is the step of `OutputStream`; only `Write` adds one.

`ErrorHandlersProofs` (`HandlersAssumption`).
- `TypeCorrect` needs that the handler `trigger_error` runs stands on its frame, as ending it pops
  both (`StackOK`). `StatementsLeaveNothing` rests on `Emptied`: the wrapper's drain is the last
  thing before its chunk goes on or halts, an operator's throw excepted.
- `HandlersTakeTheirLevels` rests on `Waiting`: as long as only outermost builtins change the
  handlers, a diagnostic that waits is one the live handler takes, because the wrapper has emptied
  the queue before any such builtin starts.
- `DealtWithExactlyOnce` rests on `OpenOnce`: the undecided diagnostics are exactly those in the
  queue and in the running handlers, with no two places for one. The lemmas say how each step
  moves one of them (joins or leaves the queue, is handled, shown or dropped).
- `NoNestedHandlersHolds` and `HandlersStartSoundHolds` rest on when the queue is empty
  (`Emptied`), on the flag telling that a handler runs, with nothing waiting then, as long as no
  two diagnostics wait together (`AloneInv`), and on nothing unwinding where PHP code runs or
  anything waits for a drain (`Calm`).

`GeneratorsProofs` (`GeneratorsAssumption`), in layers, each of which uses those before it: `Types`
and `ByBodies` (what is stored, that it names generators that exist, and that only bodies delegate)
give `TypeCorrect`; `Chain` (no generator is resumed twice, and the frames and the coroutine of each
are where that says) gives `FramesOnceHolds`; `TameAll` (in which order the steps of the host
function under way, or of one that waits, stand) and `Starts` (what has begun, and what the flag of
rewind means) give `RewindLosesNothingHolds`; `Injected` (what is put in a cell waits there for the
very next resumption, which is the next step of the code that stored it) gives
`NothingInjectedLaterHolds` under `"reenter" \notin Constructs`; `Owners`, `Ended` and `Closing`
(who can destroy a generator, what is left of one that is over, and how far the pass at the end has
come) give `OverMeansOverHolds` and `ShutdownReachesAllHolds`.

`RequestEndProofs` (`RequestEndAssumption`), for every heap and any number of callbacks:
- `NothingDestructedTwice` (`DestructedOnce`), by `Noted`.
- `ExitStatusIsTheLast` (`LastExitWins`) needs the shape of `todo`: calls stand above the one phase
  the request is in (`Shape`), so that `Shutdown` and `Generators`, which put a status aside, are
  reached only with nothing aside already (`Status`).
- `NoDestructorAfterFatalHolds` and `SweepReachesAllHolds` rest on `Placed` (only the innermost
  call runs code, frees or destructs, in a sweep), `Clean` (a sweep starts only after an end that
  was no fatal error, and whatever turns destructors off exits) and `Reached` (what was freed, and
  what creation order has passed, is destructed or being destructed).
- `FreesOnlyGarbageHolds`, for programs whose callbacks do not unset globals
  (`"unset" \notin Acts`): `Counted` says that what is freed, or freed and about to be destructed,
  is held by nothing, and that what a pass has looked up is still so.

`ClassLoadingProofs` (`LoadingAssumption`): `TypeCorrect`; `ClassesStay` (`NeverReplaced`);
`OnceIsOnce` (`OnceLoadsOnce`), as a text is loaded by `_once` only when it is not in the record
that every load is written to; `MarksAreLookups` (`LookupsMarked`), where each step is shown to
take a mark off with the lookup that put it on, also when an exception ends it; and
`ParentsAreThere` (`ParentsFirst`), under `~Nested`, where `FilesReady` says of every file under
way that each class it has still to declare finds its parent declared, or declared before it in
the same text.

`StreamsProofs` (`StreamsAssumption`), for any number of streams and files: `TypeCorrect`,
`DiskFollowsStreams` (`DiskIsBuffer`) and `EndsAreTold` (`EofMeansAllRead`) from `Types`, where
every plain stream is clean and names a file, and `Alone`: what an open plain stream carries is the
file, and one that may write has the file to itself. Opening needs the second part to be kept,
writing the first. Under `Exclusive`, `AppendsAreKept` (`AppendsLand`) is the other side of
`streams_shared`, where the loss of an append needs a second user of the file; and
`StreamsShareFiles` (`ImplementsFiles`) is the refinement: lemmas say what is seen of the files
and descriptors when one stream's position, flags or copy change, and each operation is the
operation of the same name on the shared file.

Model-checked only: the four liveness properties (`ExitEndsRequest`, `EndAllEnds`, `RequestEnds`,
`LookupsEnd`), which are outside the prover's reach as is anything with ENABLED.


## What disagrees with the code's own words

Four runs contradict a comment of the code; `PROJECT.json` quotes each.

1. `host.rs:12665`: the level of a pending `break` is overwritten by a try that a break leaves
   inside the finally; the outer break then reaches the wrong loop (`try_break_level_clobbered`).
2. `stdlib/fileres.rs:581`: a write puts back the stream's whole copy of the file, so an append
   removes what others wrote since fopen (`streams_shared`).
3. `compiler.rs:1854`: a `break` that leaves a try from a loop inside it signals its whole level,
   not "the levels still to unwind" (`compiler.rs:1852`), as the loops of its own chunk, which end
   with the chunk, are counted once more by the dispatch behind the try (`compiler.rs` 4093-4126)
   against the loops around it (`try_break_level_too_deep`).
4. `compiler.rs:3065`: a class declared by a function is declared without the check of its parent
   when a later top-level statement of the file declares that parent (`class_loading_nested`).

Ten configurations beside the runs show more; each names one property, and TLC finds it violated.

| Configuration | Property | What happens |
|---|---|---|
| `TryFinallyExitInCatch.cfg` | `ExitStopsProgram` | After `exit` in a catch body the finally still runs (`host.rs:12724`; the comment is at 12631). |
| `TryFinallySilenceLeak.cfg` | `SilenceEnds` | A throw inside `@` in a catch or finally body leaves the request silenced (`host.rs:12717`; 12691). |
| `OutputBufferingStartTwice.cfg` | `StartsOnce` | At the end of the request a chunked handler runs inside itself with the START bit set twice, and its text comes out twice (`stdlib/output.rs:386`; :12). |
| `OutputBufferingFatal.cfg` | `FailureHandsDown` | The text given to a handler that ends by a fatal error is neither handed down nor sent (`stdlib/output.rs:253`; 244). |
| `ErrorHandlersNested.cfg` | `OwnDiagnosticsDefault` | A handler that ran inside another one leaves it unprotected (`host.rs:14381`; 2769). |
| `ErrorHandlersExit.cfg` | `NoCallAfterExit` | A deprecated function is entered after its handler has exited (`host.rs:9981`; 14306). |
| `ErrorHandlersOperator.cfg` | `NothingOutlivesAThrow` | The warning of an operator that then throws is still queued in the catch body, and handled there (`builtins.rs:4625`). |
| `GeneratorsReenter.cfg` | `NothingInjectedLater` | `throw()` on a running generator is refused, but a finally that yields on the way leaves the exception stored for a later resumption (`host.rs:8633`; 8623). |
| `RequestEndEscapes.cfg` | `EscapesReported` | An exception that leaves the finally of a generator freed in the sweep is not reported (`host.rs:14248`; 14141). |
| `GeneratorsBreak.cfg` | `BreakFrees` | `break 2` frees the outer loop's generator and not the inner one's (`compiler.rs:2635`; 2632). |

Seen while modelling, with the property that shows it where there is one:

- `CallbacksRun` of `RequestEnd` does not hold: after an exit in a shutdown function the
  destructors are called while the run unwinds, and return at once, which the comment at
  `host.rs:14145` says the parking avoids (`host.rs:14187`).
- `FreesOnlyGarbage` does not hold when destructors may unset globals (`MaxLeft` = `MaxObjects` = 3,
  `Acts` = {"store", "unset"}): the globals of a pass are looked up before the first destructor runs
  (`host.rs:14205`), and a destructor that unsets and relinks frees an object that is held.
- `CallsRegistered` of `ClassLoading` does not hold: the chain is copied before the first loader is
  called, so one that was unregistered meanwhile is called (`host.rs:10554`).
- The exception handler's own fatal error is dropped (`host.rs:8939`), and so is an exception that
  leaves a finally during `shutdown_generators`.
- Objects made during the pass in creation order are not destructed, generators made during
  `shutdown_generators` not destroyed.
- `throw()` into a generator suspended in `yield from` reaches the outer generator only.
- A `return` inside a try nested in a loop over a generator does not release the generator.

## Not modelled

The lexer, parser, formats, dates, encodings, hashes, regular expressions and most of the builtin
library are functions of their arguments, tested by differential runs against the reference; a
state machine of them would say nothing. They, with generated tables and tooling, are most of the
lines of the repository. Dates, encodings and hashes range over domains no bounded check covers.
Slot promotion and the execution tiers are meant not to change meaning; the debugger and the
language server are tools beside the interpreter.

Inside the modelled parts: `goto` (refused by the compiler out of a try); the class matching of
catch clauses (whether one matches is left open); what a diagnostic prints, error_reporting and
`display_errors`; the byte size of texts, handler names, `ob_get_status`, compression; the nesting
limit of the Rust stack; the keys and values of generators, and `@` inside them; objects freed
during the run (destructors before the end of the request); traits, interfaces and enums by name,
namespaces, eval; the standard streams, directories, locks, and a file system that fails after
fopen.

## Plan

Done: 1. `TryFinally` with `TryCompletion` and `TryFinallyProofs`; 2. `OutputBuffering` with
`OutputStream` and `OutputBufferingProofs`; 3. `ErrorHandlers` with `ErrorHandlersProofs`;
4. `Generators` with `GeneratorsProofs`; 5. `RequestEnd` with `RequestEndProofs`;
6. `ClassLoading` with `ClassLoadingProofs`; 7. `Streams` with `Files` and `StreamsProofs`;
8. proofs of all the safety properties and of the three refinements.

Next, each written to be proved about as well as checked (bounds as CONSTANTS with a named
assumption, one action per operation, no RECURSIVE operator):

9. `MagicProperties` (the guards of `__get` and `__set`), `References` (cells, copies, foreach by
   reference), `Arrays` (the next key at the integer boundary).
10. The @-counter across generator switches, in a composition of `TryFinally` and `Generators`.
11. What the restricted theorems leave open: the levels of breaks and the refinement of the try
    statement in programs that exit in a catch body, where only the exit itself goes wrong.
