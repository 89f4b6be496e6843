# hxcppdbg in TLA+

hxcppdbg debugs Haxe programs compiled to C++. It maps Haxe source positions to
generated C++ and drives a native debugger engine, dbgeng on Windows and LLDB
elsewhere, behind a debug adapter (DAP) and a command line. This directory holds
its specifications, their model checking configurations and their proofs.

Paths below are shortened: `core/` is
`hxcppdbg-core/src/hxcppdbg/core/`, `dap/` is `hxcppdbg-dap/src/hxcppdbg/dap/`,
`cli/` is `hxcppdbg-cli/src/hxcppdbg/`.

## 1. Inventory

### Threads and how the parts meet

Two threads run the adapter. The *callback thread* runs `DapSession`, `Session`
and every callback in one event loop (`cpp.asio` for the socket,
`sys.thread.EventLoop` for callbacks). The *debug thread* owns the engine: a
driver method posts a closure to it with `dbgThread.events.run` and the closure
posts the answer back with `cbThread.events.run`. There is no lock. Two things
cross between the threads beside the queues: `pause` calls `interrupt()` of the
engine on the callback thread, while the debug thread may be inside a wait; and the
lazy models of locals (`Indexable`, `Keyable` and the native models behind them)
are read on the callback thread, after the debug thread has made them, through
`dbgmodel` objects of the stopped target.

A *run* takes two calls. `resume(cb)` or `step(.., cb)` sets the execution
status; on success its callback gets a function `run`, and calling that posts a
task in which the debug thread blocks until the target stops.

### Components

| component | state | operations | hard behaviour | what makes it correct |
|---|---|---|---|---|
| dbgeng driver (`core/drivers/dbgeng/*.hx`) | the two event queues, the blocked debug thread | start, resume, step, pause, stop, breakpoints create/remove, frames, locals, threads | interrupt from another thread; nested waits of thread events share one callback; stop destroys the session | one run at a time; every callback once; a pause is answered when the target has stopped; no use after stop |
| dbgeng engine session (`native/DbgEngSession.cpp`, `DebugEventCallbacks.cpp`, `DbgEngContext.cpp`) | execution status, breakpoints, `stepOutBreakpointId`, pending exit interrupt | go, step, end, interrupt, wait, create/removeBreakpoint, reads | status test and SetInterrupt are not atomic; second WaitForEvent after an exit interrupt; step out by a one shot breakpoint | a run means a running target; step modes survive thread events; internal breakpoints never look like the user's |
| Session and step loop (`core/Session.hx`, `StopReason.hx`, `cache/Cache.hx`) | cached stop reason, the loop's base frame | start, resume, pause, stop, step | a loop over asynchronous calls; the cache is cleared in three places | the cache is empty while the target runs; a stop is reported as what it was |
| DapSession (`dap/DapSession.hx`, `Dap.hx`) | message queue, writes in flight, session, launch request | onInput, one handler per request, run callback, events | one request at a time; promises that resolve later; an un-awaited resume; exceptions out of callbacks | the client's view is true; requests are answered; the queue drains; an edit at a stop resumes nothing |
| Breakpoints (`core/breakpoints/`) | active breakpoints, id counter | create, delete, list | composites of several native breakpoints, removed one by one | a native breakpoint always has an owner |
| LLDB driver (`core/drivers/lldb/`) | the same two queues, exception breakpoint, interrupt event | the same interface | the pause broadcasts to the listener; several threads stop at once | implements the same `Driver` promise |
| VariableCache (`dap/VariableCache.hx`) | next number, what each reference opens | createScope, fetch, addModel, clear | requests of a stop the target has left; bit packing; ranges that differ by kind | a reference opens what it was given for |
| locals and frame cache (`core/locals/`, `ds/FrameUID.hx`, `cache/LocalCache.hx`) | locals per frame | getLocals, clear | the cache is tested before and filled after an asynchronous call | no locals of an earlier stop |
| model caches (`core/model/Indexable.hx`, `Keyable.hx`) | children read so far | at, get, count | the same check-then-fill | a child is the one asked for |
| InputBuffer (`dap/InputBuffer.hx`) | the buffered text | append | messages cut anywhere by chunks; bytes against characters | the messages out are the messages in |
| stack and source map (`core/stack/`, `core/sourcemap/`, `core/ds/Path.hx`) | none | map frames, find expressions, match paths | boundaries of ranges, closures | a frame maps to the innermost expression |
| evaluator and printer (`core/evaluator/`, `core/model/Printer.hx`) | none | evaluate, print | the stop reason is read before the locals are asked for | what is evaluated is of the stop its request is answered in |
| native data models (`native/models/`) | lazy children | read | layout of hxcpp objects, hash buckets | every element once |
| command line (`cli/`) | one Session | break, step, resume, print | Ctrl-C pauses from outside of a command; the promise it makes is lazy and nobody handles it (`Cli.hx:45`) | the same as Session |
| protocol types, vendored `DbgModelClientEx.hpp` | - | - | - | - |

The hazards are listed with their lines and the properties that cover them in
`PROJECT.json`.

## 2. Modules

```
Driver                what both drivers promise                         (abstract)
 ^           ^
 | implements| implements
DbgEngDriver          both threads of the driver, engine and target     (open: no caller)
 |- DbgEngDriverProofs        what an action does to the calls on their way
 |- DriverClient      + any caller                                      (closed)
 |   |- MCDriverClient        instance for TLC
 |   `- DriverClientProofs    types, one run, calls once; implements Driver
 `- Session           + stop reason cache, active breakpoints, step loop (open)
     `- DapSession    + the adapter and its client                       (closed)
         |- DapProperties     properties; INSTANCE DriverClient as the
         |                    abstract specification
         `- DapSessionProofs  types, what the adapter waits for;
             |                implements DriverClient
             `- DapPropertiesProofs   answers, the cache, breakpoints, and
                                      what the client is told
LLDBDriver            both threads, listener, target of LLDB            (open)
 `- LLDBClient        + a caller with one run at a time                 (closed)
     `- LLDBClientProofs      types, true reports, pauses, calls once; implements Driver
SourceMap             positions to lines of C++ and back                (operators)
 `- Breakpoints       breakpoints of several native parts over an engine (closed)
     |- MCBreakpoints         two source maps
     `- BreakpointsProofs     types, no orphans, one owner
Variables             locals cache, VariableCache, evaluation, what a client may hold (closed)
 |- MCVariables               a small memory
 `- VariablesProofs           types, nothing stale, references stand and open
InputBuffer           messages out of chunks                            (closed)
NativeModels          maps, objects, locals behind Indexable and Keyable (closed)
NativeValues          what a value in memory is read as                 (operators)
SymbolNames           function names of the two engines                 (closed)
ThreadList            the list of threads of the dbgeng driver          (closed)
 |- MCReaders         the five of them in one run
 `- ReadersProofs     the threads, the containers, the messages and the names
```

### Driver, DbgEngDriver, DriverClient

`Driver` has two variables: the calls `asked` and those of them that are `runs`. A
call becomes a run when the engine lets the target go, is not answered before the
run ends, and there is one run at a time.

In `DbgEngDriver` `tasks` is `dbgThread.events`, `replies` is `cbThread.events`,
both sequences of records. A call is a name; the same name goes from the task to the
reply and from a successful go or step to the wait of its run, as the closures of the
code carry one callback. `dbgThread` says where the debug thread is: idle, inside the
`WaitForEvent` of `wait()`, in the second `WaitForEvent` that follows an exit
interrupt (`breaking`), inside the nested `go()` of a thread event, or dead.

Each task is one action (`GoTask` is `go()` with its answer, and so on), each event
of the target is one (`HitBreakpoint`, `ProcessExits`, ..), and `interrupt()` is two,
`PauseBegin` for the status test and `PauseEnd` for the rest, because the debug thread
runs between them. `EngineFails` lets every engine function return a failure code at
the place the code tests it. `FrameTask` of a target that runs ends the debug thread:
the `try` of `getFrame` has no `catch`. `DanglingTask` is a task that dereferences the
session after `session.destroy()`: undefined behaviour, modelled as any answer.

### Session, DapSession, DapProperties

The callbacks of `Session` call the front end back before they return, so `Session` is
a set of pieces of actions (`Resumed`, `Stopped`, `StepAgain`, ..) and `DapSession` has
the actions, one per handler of a request, per reply of the driver, and per completion
of a write, with everything the code does before it returns to the event loop.
`messages` is `messageQueue`, whose head is being handled; `Resolve` is the resolution
of a handler's promise, after which the next message is consumed. `writes` holds the
writes in flight, each with the continuation of its promise. `turn` says that the
callback thread has more to do before it is back in its loop. `crashed` is an
exception that left a callback. Two variables are not in the code: `view` is what the
client was last told of the target, and is what the properties compare with the engine;
`dropped` are the requests that were finished and have no answer, of which a launch gets one
later, when the target has started.

### LLDBDriver, LLDBClient

The same two queues; what differs is the wait. `interrupt()` broadcasts a pause to a
listener, `wait()` takes events off it, and an event nobody took is there for the next
wait: `events` is the queue of the listener, `reasons` what `GetStopReason` says of
every thread. A stop event of an earlier run may be in the queue when the next begins
(`LateStops`). `Stop()` may fail inside the wait, and then the exception ends the debug
thread. `stop()` of this driver throws a `NotImplementedException` and has no action.
The client resumes only when it has no call open and pauses only a run it has posted
the wait of, as the command line does; the disagreement of section 4 is about a client
that does not keep to that.

### SourceMap, Breakpoints

A source map is data. `FindExprs` is what `findExprs` and `mapHaxeToCpp` collect, `MapNativeFrame` is `Stack.mapNativeFrame` with its second look one line
above. `Breakpoints` has one driver call in flight: `pending` is the sequence
`Future.inSequence` works off, with what has succeeded (`done`) and whether anything
has failed. The engine gives the ids of removed breakpoints again, and may fail to
remove one (`removeFails`).

### Variables

A behaviour is a sequence of stops. `locals` is `Cache.locals`, filled over two calls
of the driver and cleared when the target is resumed; `entries` is what the three maps
of `VariableCache` hold, under references that pack a type and a number; `held` is what
the client was given each reference for. `thrown` is the exception `Cache.stopReason`
holds; an evaluation takes it along (`exn`) when it asks for the locals, and may come to
whatever `Accessed` leads to from a local or from that exception. Requests are handled one at a time, but the
resume of a `setBreakpoints` is not awaited, so that a request for locals can be in any
order with it: `tasks` and `replies` are the two queues, in which such a request finds
the target about to run, running, or stopped only to run again. Values carry the stop
they were read in. `Listed` goes through the children of a `fetch`, any of which may be
unreadable.

### InputBuffer, NativeModels, NativeValues, SymbolNames, ThreadList

`InputBuffer` works on bytes and on characters of one or two bytes, because
`Content-Length` counts the one and `String.length` the other. `NativeModels` walks the
chains of a hash map and the fields of objects of a class, anonymous objects and locals behind
the caches of `count`, `at` and `get`; what is caught of a read is a value of the caches (`Failure`). `NativeValues` has an operator per model, from a box, a pointer or a `Variant`
to a `NativeModelData`, or to an exception. `SymbolNames` is the loop of
`cleanFunctionName` and that of `LLDBContext::getStackFrame` over tokens, one turn of each
an operator (`DbgEngStep`, `LLDBStep`); its one variable is the function that is shown. In `ThreadList`
the debug thread tells the callback thread of the threads it sees begin and end, of which
`activeThreads` is kept; of the waits of `DbgEngDriver` only that is here.

## 3. What each run checks

| run | question | bounds |
|---|---|---|
| `driver_client` | Whatever a client does: types, one run at a time (`OneRun`), a run only of a running target (`RunMeansRunning`), each call in one place until its callback (`EveryCallOnce`), and the promise of `Driver` (`ImplementsDriver`). Engine failures on, interrupts kept or lost. | 3 calls, 1 breakpoint, 2 replies |
| `lldb` | What a run is told is still true (`ReportsAreTrue`), a pause is answered after the stop and brings one about (`PauseAnsweredStopped`, `PauseStops`, liveness), each call once, and the promise of `Driver` again. | 3 calls, 2 threads, 1 breakpoint, 1 event left in the listener |
| `dap_client` | The adapter, from the connection on, with engine failures and breakpoints set while running, refines `DriverClient` (`ImplementsDriverClient`). | 5 requests, 1 breakpoint |
| `dap_control` | With a client that edits breakpoints only while stopped: what it was told is true whenever nothing is in flight (`ViewAgrees`), no exception ends the adapter while the process lives (`CrashOnlyAfterExit`), its edits never have the target resumed (`EditsResumeNothing`), the cache is clear during a run (`CacheClearWhileRunning`), the debug thread lives (`DebugThreadLives`), a pause is answered after the stop (`PauseAnsweredStopped`), only a step, and a disconnect from a running target, can hold up the queue (`QueueDrains`, liveness). | 7 requests, 2 breakpoints, no thread events |
| `dap_edits` | With breakpoints set and removed while the target runs, a reported breakpoint is one the session knows (`BreakpointsKnown`). | 6 requests, 2 breakpoints |
| `dap_lifecycle` | From launch to disconnect: each request the adapter knows is answered, but a launch that has made its session (`EveryRequestAnswered`), and that by the start of the target once the configuration is done (`LaunchAnswered`, liveness); nothing uses the destroyed session (`NoUseAfterStop`). | 6 requests |
| `breakpoints` | However the parts of breakpoints fail: no native breakpoint is forgotten (`NoOrphans`) or has two owners (`OneOwner`), and the frame of a hit is mapped back to what was asked for (`HitsAreHaxeFrames`). | 3 native ids, 2 breakpoints, 2 source maps, 3 paths |
| `variables` | Nothing of an earlier stop is served, also by an evaluation (`StopsDoNotMix`), a reference opens what it was given for (`ReferencesStand`) and can be opened (`ReferencesOpen`). | 3 stops, 2 threads of 2 frames, 4 references |
| `readers` | Messages arrive whole and in order (`MessagesArrive`, `FramesAligned`), each element of a container once and under its key, also where some cannot be read (`ElementsOnce`, `KeysAgree`), names keep what tells functions apart (`NamesKept`), a value is shown as what it is wherever it is kept (`ValuesShown`), who knows of a stop sees the threads of that stop (`ThreadsListed`). | 4 messages of 3 bodies, maps of up to 4 keys, 36 symbols, 12 values in 9 places, 4 threads, 3 notices |
| `pause_answer`, `lldb_stop`, `most_specific` | Disagreements, section 4. | 3 requests; 2 calls, 2 events; as `breakpoints` |

Bounds. A run is made of at most three calls that can be in flight together: the wait,
a pause, and one more request of the client; with three names `driver_client` and
`lldb` have every interleaving of these, and of a name that is used again. Two
breakpoints tell the hit one from another that is being removed. `MaxReplies` bounds
thread events only and `MaxWrites` their notifications. Four requests reach every pair
of overlapping handlers with one request before and one after; the known races take two
or three. `MaxLines = 1` is one new breakpoint per request, which with the removal of the
old one exercises both loops of `onSetBreakpoints`. Two threads of the target make a stop
of which only one is the cause; one event left over is what a wait can mistake for its
own. Three native ids and two breakpoints of up to three parts make ids run out, be given
again, and a removal fail in the middle. Three stops let what was cached in one be
served in the next and in the one after; `FrameLimit = 2` is the least that two threads
of two frames fit in, so that an index that spills over would be seen. A map of four
keys over one, two and four chains has colliding hashes, colliding buckets and empty
ones. Three more threads than the first are enough for one in the middle of the list to
end, and three notices for a stop, a request and one of a thread to be queued together. Requests, messages, stops and references are counted, not queued: these bounds
make the state space finite and are no limits of the code. References do not wrap at
2^24 (`Keep`).

Deadlock is checked nowhere: the debug thread may be dead, clients may have nothing to
ask, readers may be done, a bound may be reached. Where something must go on it is a
liveness property.

Each property of a passing run has a mutant of the code's definitions that breaks it
(`PROJECT.json`, "mutants"); the mutants stand in the modules before the definition
they change.

Fairness. `QueueDrains` and `LaunchAnswered` assume that the callback thread goes on while its loop has a
reply, a write completion or a message (`WF` on those actions together) and that the
debug thread takes its next task or leaves a wait that can end by itself. `LLDBClient`
assumes the same of its two threads, the middle of `interrupt()` being a step of the
callback thread. An event loop guarantees both. Nothing is assumed of a client, nor of
the target: it may run for ever, and then only a pause ends the wait.

## 4. Disagreements found

Each is a run that TLC ends with a counterexample.

* `pause_answer` - the hop that is to delay the answer of a pause is only behind the wait
  if the wait was posted first. After `setBreakpoints` on a running target the resume is
  not awaited, and a pause in between is answered while the target runs, against the
  comment at `DbgEngDriver.hx:70`.
* `lldb_stop` - `wait()` of LLDB reports the first thread whose stop reason is valid, and
  the reason of a thread that has not caused the stop, none, is valid too. A breakpoint
  hit by the second thread is told as a pause nobody asked for.
* `most_specific` - a breakpoint with a character is set on every expression that covers
  the character; the function that takes the most specific one is never called.

Seen while modelling, and either left out of the runs that pass or stated in their
properties:

*Drivers.*
* A pause that reads the status inside a thread event finds a break, is answered as
  stopped, and the nested `go()` runs the target on; the same `go()` turns a step in
  progress into a go. `dap_control` has no thread events.
* The one shot breakpoint of a step out that something else interrupted is forgotten by
  the next step out, and is later reported as a breakpoint nobody knows; `onRunCallback`
  throws. The adapter's runs have no `stepOut`.
* `getFrame` has no `catch`: what the engine throws for a frame of a running target ends
  the debug thread. With `EditsRunning = TRUE` a step after an un-awaited resume does
  this, and `DebugThreadLives` fails.
* The end of a thread triggers the created signal (`DbgEngThreads.hx:70`). A thread that
  begins or ends in the second wait of a pause is told to nobody, and stays missing or
  listed for good (`ThreadsListed` excepts this). The first thread is never listed, so that
  an index of the list is that of the thread before it, and the last has none.
* In `cleanFunctionName` the `break` at an opening bracket leaves only the switch, so the
  arguments stay in the name with their closing bracket, despite the comment at
  `DbgEngSession.cpp:645`; `NamesKept` says they stay, and of LLDB that they go. The LLDB
  loop ends the arguments at the first closing bracket, nested or not.
* `stop()` is not implemented for LLDB, and its `wait()` blocks in a GC free zone until
  an event comes.

*Adapter.*
* An unknown request and a step without a session, or one that fails, are finished without any
  response (`DapSession.hx:222`, `onStep`). A launch is answered only by the start of the target
  (`DapSession.hx:286`): never if that fails (288, 289), if the client disconnects first, or if it sent
  `configurationDone` before `launch`. The client waits. `EveryRequestAnswered` excepts a launch
  that has made its session and no other request; `LaunchAnswered` says when it is answered.
* `setBreakpoints` decides to resume from the fact that its pause had to interrupt, also
  if the target has by then stopped at a breakpoint or for an exception: that stop is lost
  (`DapSession.hx:614`-`616`). This is so for a client that edits while the target runs;
  `EditsResumeNothing` is what is left for one that edits only at a stop it was told of.
* `interrupt()` is called on the session object whatever has become of it. A pause after a
  disconnect would use the one `stop()` has destroyed: `UseSession` allows any outcome, and
  `NoUseAfterStop` shows that the adapter makes no such pause.
* Two `setBreakpoints` while the target runs can put a second exit interrupt into the
  break in of the first, whose `WaitForEvent` then fails: the error is thrown out of
  `onRunCallback`, and a resume that fails is thrown from `DapSession.hx:625`. This is why
  `dap_control` has `EditsRunning = FALSE`; and `setBreakpoints` followed by `disconnect`
  lets the resume use the destroyed session, so `dap_lifecycle` has it too.
* A pause is followed by a stopped event whatever its answer was, also when there is no
  session (`sendPauseStoppedEvent`), and after the exit of the process.
* A step that does not stop holds up the pause behind it. So does a disconnect from a target that
  runs: `stop()` posts `end()` behind the wait of the run (`DbgEngDriver.hx:86`-`105`), nothing
  interrupts the wait, and `onDisconnect` holds the queue until the target stops by itself
  (`DapSession.hx:540`-`561`). `QueueDrains` excepts these two. A step that ends in a pause
  leaves the cached stop reason at "not suspended" (`Session.hx:192`).
* A message that is not ASCII is held until the next one arrives and is then cut too far
  (`InputBuffer` compares a length in bytes with one in characters, and
  `DapSession.write` sends one in characters). A header of more than one field is not
  read, and an exception in `append` loses what was cut before.

*Values.*
* A pointer to a scalar, and an empty container, get a reference that cannot be opened
  without an error (`ReferencesOpen` says exactly which).
* `ModelObjectPtr` and `ModelVariant` follow null pointers: an element or a field that is
  null is left out of its listing, while a local is shown as null (`ValuesShown` excepts
  exactly these). A wide string in a `Variant` is read as chars; strings end at NUL; a null
  `String` is shown as an empty one; 64 bit integers go through `As<int>`.
* `LazyEnumArguments` steps by the size of the enum, not of a `Variant`; only the first
  argument is in `ValuesShown`. `NativeModelData.cpp:71` makes an anonymous
  object with the tag of an enum.
* `ModelAnonObj.get` has a path without a return (`ModelAnonObj.cpp:57`), where the result is
  whatever the build makes of it, and the fields an object gets at run time are asked for with too few
  arguments: listed they are failures, looked up anything (`ElementsOnce`, `KeysAgree`).
* A name that is not there is null in a map and an anonymous object, and an exception of
  `FieldValue` or `KeyValue` in an object of a class and among the locals
  (`ModelClassObj.cpp:56`, `LazyLocalStore.cpp:58`). A value behind a null pointer is null in the
  lookup of a map and the listing of locals, which test first, and an exception in the listing of a
  map and the rest (`ModelHash.cpp:99` and `139`). `LazyLocalStore` also lists native locals for
  which its `get` throws.

## 5. What is external, and assumed

* *dbgeng.* What becomes of an exit interrupt that is set at, or still pending at, a
  break is not documented. `KeepsInterrupt` is the set of answers a run allows:
  `{TRUE, FALSE}` leaves it open for each interrupt, `{FALSE}` (in `dap_control` and
  `pause_answer`) says a break discards it. With a kept interrupt a later wait ends early, and
  a second one ends the wait for the break with a failure code, which `onRunCallback` throws:
  `CrashOnlyAfterExit` depends on it, and nothing else does. The status after the event
  of a process exit is a break, as the event callbacks answer. The engine has neither
  frames nor variables of a target that runs.
* *Source maps.* The compiler, which is not in the repository, names generated files from
  the output directory on, `src/` first. So no generated file's path ends with another's, which
  `Path.matches` needs to find the file of a frame: of `Main.cpp` and `pkg/Main.cpp`
  the second would be taken for the first (`MapsAssumption`). Files, functions, closures and
  expressions are finite lists; nothing else is assumed of them.
* *LLDB.* `Stop()` of a running target stops it and leaves its stop event in the listener
  or takes it along (`LateStops`). A thread has no stop reason while the target runs.
* *The socket.* Writes complete in order and do not fail. Chunks end anywhere.
* *The client of the adapter* (`MayRequest`) asks to go on or to inspect only when it
  believes the target is stopped and has no request open, launches once, is done with its
  configuration once, and only disconnects from an exited target. It opens only references
  it was given in the current stop (`Variables`).
* *Data.* In `DapSession` frames, locals, scopes, evaluation and exception information are
  one request, `inspect`, with one engine query; what they hold is in `SourceMap` and
  `Variables`. A `setBreakpoints` is about one source file. The decision of the step loop to
  go on, which compares frames, is a choice.
* *hxcpp.* The layouts of its maps, strings, boxes and `Variant`s, how it hashes and where it
  puts new elements, as the models in `native/models/` take them to be; that an object read
  through a null pointer is an exception. Of a map, that its elements are in the chains of
  their hashes, no key twice, and that the keys with their hashes are cached; of an object, that no
  two fields have one name (`ContainersAssumption`). That the hash computed from a key, in the
  lazy maps, is the one hxcpp has stored with it (`HashAssumption`).
* *Messages.* A body is not empty, and its characters take one byte or two (`BodiesAssumption`): two
  stands for all that is not ASCII. Any header has one length.
* *Symbols.* No identifier is one of the marks an engine puts into a name, or ends with
  "operator", behind which both loops keep a bracket (`WordsAssumption`). The arguments of a
  function have no brackets in them: with a function type among them LLDB's loop would go on
  at the first closing bracket (`SymbolsAssumption`). A name of dbgeng is taken with and without
  arguments.
* *Names.* A run callback that is not awaited may still be in flight when the next is made,
  so `continue` and the resume of `setBreakpoints` have two names each. `Fresh` picks the
  free one; TLC would report a choice from the empty set if two were not enough.

### Not modelled

* The vendored `DbgModelClientEx.hpp` is third party code: 11073 of the 15426 lines of C++
  (72%), so that a model of all the rest would cover 28% of those lines. The rest of the
  unmapped C++ is the registration of the models and their COM plumbing.
* The operators of the evaluator, whose results are scalars, and the printer: they have no
  state and no order in which they could go wrong. The protocol types are declarations; the command line awaits one command at a time over the same
  `Session` and makes calls `DriverClient` allows.
* The creation of a process, which is an initial state.

## 6. What is proved

For every value of the constants, with the assumptions named `..Assumption` in the modules.

**DriverClientProofs** (dbgeng): `TypeCorrect`, `RunsNeverOverlap` (`OneRun`),
`RunsOnlyWhileRunning` (`RunMeansRunning`). The argument is that of a token. A run in flight
is a reply of a go or step that succeeded, then a wait among the tasks, then the debug
thread outside of idle, then nothing. `OneRun` says there is at most one token in these
places. Alone it is not inductive: a second `GoTask` could make a second token. It cannot
because `go()` needs a break and `RunMeansRunning` says a token means no break; and that in
turn needs `OneRun`, since the event that ends one run leaves a break that a second token
would contradict. So `RunInv`, the conjunction with `TypeOK`, is the inductive invariant.
Two clauses are needed for what the code does after `stop()`: `OneRun` excepts a dangling
session, where any answer may come, and `RunMeansRunning` a session that is no longer live.

`CallsOnce` (`EveryCallOnce`) and `DriverImplemented` (`ImplementsDriver`) follow. A call is
one entry of one queue or in one place of a thread (`OnePlace`), seen through the sets of
calls of the queues; every action moves a call or takes one away. The refinement is then step
by step: the calls of runs change only at a go that succeeds, where `RunInv` says there was
none, and at the end of a wait. What an action of the driver does to the calls is the same
for any caller: these lemmas are in **DbgEngDriverProofs**, which both `DriverClientProofs`
and `DapSessionProofs` extend.

**DapSessionProofs** (the adapter): `AdapterTypeCorrect` (`TypeOK`), `AdapterRuns` (`OneRun`
and `RunMeansRunning`) and `AdapterIsClient` (`ImplementsDriverClient`: what is proved of any
client of the driver holds of the adapter), with engine failures and with edits of a running
target. `AdapterCorrect` is the inductive invariant `DapInv`. Its centre is `Control`: the head of
`messages` waits for exactly one thing, which is a call of the driver it made (`OnDriver`),
the completion of a write (`OnWrite`), the creation of the process (`OnCreation`), or nothing
because it is about to be handled (`Idle`), and the kind of message says which calls it can be
(`Awaits`). From this follows that a name a handler takes for a call is free, which `Call`
demands, and that a reply finds the handler that waits for it. The calls nobody waits for
break the pattern and have parts of their own: `RunsInOrder` (the wait of an earlier resume is before the
next), `ResumeToCome` and the two names a resume may have; `StartOnce` and `LaunchInv` for the start of
the target; `ReplyInv` for which results an operation can have. The session outlives what is
asked of it: a disconnect is last.

**DapPropertiesProofs** (the adapter) rests on `DapInv`, by which a reply is handled in a
known situation.

* `EveryRequestIsAnswered` (`EveryRequestAnswered`), by `AnswersInv`: whoever waits for a write,
  or for the start of the target, has answered already. What is finished without an answer is
  counted for every request, a launch too, until the start answers it: `RequestsAnswered` says,
  without a hypothesis on the commands and whatever the engine does, that this is an unknown request, a
  step, or a launch whose session was made. That the start then comes is liveness
  (`LaunchAnswered`), and TLC's.
* `CacheIsClear` (`CacheClearWhileRunning`), without hypotheses. `CacheClear` is the property with
  the reply of a run added. A stop reason is stored when a wait ends, and by the last frame of
  the step loop, so the argument is about order: the replies of runs that have ended are
  before those of runs that begin (`EndsFirst`), the frame of the loop is asked for when no
  other run can begin (`LoopAlone`, `FrameLast`), and a resume waiting among the tasks is before
  the wait that would follow it (`ResumesFirst`).
* `BreakpointsAreKnown` (`BreakpointsKnown`), by `KnownInv`: an engine breakpoint belongs to the
  session or to a create in progress (`SetKnown`), and a hit one is known unless its removal is
  behind the report (`HitKnown`, `RemovedLast`). It has two hypotheses: `EngineFails = FALSE`, as
  a removal that fails is forgotten by the session all the same and its breakpoint hit later; and no
  `stepOut` among the commands, whose one shot breakpoint is nobody's (section 4).

The second half is about what the client of the adapter is told: `ClientIsToldTheTruth` (`ViewAgrees`),
`PausesAreAnsweredStopped` (`PauseAnsweredStopped`), `DebugThreadOutlivesRequests`
(`DebugThreadLives`), `StoppedSessionIsLeftAlone` (`NoUseAfterStop`) and
`SetBreakpointsResumesNothing` (`EditsResumeNothing`). They assume `Orderly`:
no engine function fails, no thread event comes (`MaxReplies = 0`), and the client edits
breakpoints only while it believes the target is stopped (`EditsRunning = FALSE`). Each of the
three is needed, section 4 has what the code does without it. What the client believes is what it was told, so the
property cannot be proved by itself: the client's good behaviour depends on it. `ViewInv`
closes the circle in four parts.

* `ClientInv`: what needs a stopped target is asked for when the client has no request open, so
  it is the first message, and the view it was asked in still holds when it is handled.
* `OrderInv`: of the runs nobody waits for there is one at most, and in the queue it is before the
  next go, the hop of a pause and the end of the session (`WaitsFirst`); `setBreakpoints` of this client
  finds a break and resumes nothing (`NoResumes`), which needs the view as much as the view needs it; a view of "running" has its run on the way (`ViewRuns`).
* `RunsInv`: a target that is not at a break has a run on its way, or a reply that will make one
  (`RunningKnown`), and the client was told so (`RunsAreTold`); the end of a run that is still to be
  taken up is true of the target, so that nothing has resumed it in between (`EndedStill`); every
  frame, go and step among the tasks finds a break (`StillInv`).
* `ExitInv`: the exit of the process is known to the client, or on its way to it, when the engine has
  no debuggee (`GoneKnown`), and nothing says so earlier (`ExitTrue`); after the session has ended
  no task is left (`EndedQuiet`).

`CallbackThread` keeps it by one argument for most actions, which only pass something on
(`Aside`), and one each for the four that change what the client was told: the reply to a go
(`GoesOnNow`), a step that goes on (`StepGoesOn`), the end of a run and an event. The debug
thread either takes a task that resumes nothing, resumes the target, brings it to a break,
goes on waiting, or ends the session.

**LLDBClientProofs**: `LLDBTypeCorrect`, `ReportsCorrect` (`ReportsAreTrue`),
`PausesCorrect` (`PauseAnsweredStopped`), `LLDBCallsOnce`, `LLDBImplemented`. The inductive
invariant adds to the properties: calls in one place (`CallInv`); one run on its way from
request to answer, without which a second could resume the target between a report and its
delivery (`OneRunInv`); a target runs only for a run and has no reasons meanwhile
(`EngineInv`); the hop of a pause is behind the wait of the run (`HopInv`), which is what
delays its answer; and what a report says of the target (`ReportInv`). A stop left over in
the listener is skipped because the state is asked, not the event: `EngineInv` is where that
enters.

**BreakpointsProofs**: `BreakpointTypes`, `NothingForgotten` (`NoOrphans`), `NothingShared`
(`OneOwner`), for any source maps, paths and ids. Between operations these are what is
wanted; within one the invariant says what the operation in progress owns (`NoneForgotten`:
what a create has made so far), that what a delete has done is gone and what it has to do is
still the rest of its breakpoint (`Removing`), and, while no removal has failed, that nothing
is shared and everything owned is known to the engine (`NoneShared`, `AllKnown`). Without
`AllKnown` a new id could be one somebody still lists; a removal that fails is exactly how
that comes about. `HitsAreMappedBack` (`HitsAreHaxeFrames`) is about the two readers of a
source map. `Flattened` says which elements `FlattenSeq` puts together and `Filtered` what
`Filter` keeps, both by induction along the sequence (`Induct`); with them `PlacesFound` says
that all that `findExprs` finds are places of the files a path may mean, and `MappedBack` that
`mapNativeFrame` finds the file and an expression of the line again. `PlacesKept` carries
that through the operations: what a create is still to ask for, what it has been given and what
every breakpoint has are places of its own position. It needs `AllKnown` too, as an id given
again has to be nobody's, and of the source maps that a path of the engine is that of
one generated file (`MapsAssumption`, section 5).

**VariablesProofs**: `VariablesTypes`, `NothingStale` (`StopsDoNotMix`),
`ReferencesOpenTheirOwn` (`ReferencesStand`), `ReferencesCanBeOpened` (`ReferencesOpen`), for
any memory, threads, frames and number of stops. `Phase` lists what the two queues can hold
with each request in progress: a resume and its wait go round, and a request for locals is
behind or before them. `Fresh` is the heart: while the target is about to run, runs, or has
stopped only to run again (`Resuming`), the client holds no reference and, from when the
resume is answered, no locals are kept; otherwise all are of the current stop. The order of
the queues gives it: a frame asked for before the resume is answered can only be read after
the next stop, because both go through the debug thread. `LocalsKept` says locals are those
of the frame they are kept under, which needs that a frame id tells its thread and frame
(`UidTells`); `Caught` that `$exn` of an evaluation in progress is an exception of the stop
its locals will be read in: once the resume is answered there is none, and before that a
frame cannot be read behind the resume; `CacheCorrect` that numbers in use are below the next one. `ListedCorrect`
needs induction along a listing: the lemma `Induct` states induction over a set, and follows
from the well-foundedness of `<` on the naturals. References that wrap are outside
(`Keep` ends a behaviour there).

**ReadersProofs** has four independent parts.

* *Threads.* `ThreadsCorrect` (`ThreadsListed`), for any number of threads and any ids, given again
  or not. The list of the driver lags behind the target, so the invariant `ListInv` is about
  the queue between: the notices in it lead, one list after the other, from `activeThreads` to the
  threads of the target but the first (`Leads`). That is lost when the second wait of a pause has
  passed over a thread (`unseen`), and the property excepts it. While the target is
  stopped a stop is behind every notice of a thread (`StopBehind`): so when the client knows of the
  stop no notice is left that changes the list. That `remove` takes away the first of
  equal ids and not all needs the first thread, which the list of the driver does not have, to be
  unlike all others: `Leads` would break if `Tail` and removal did not commute.
* *Containers.* `ElementsCorrect` (`ElementsOnce`), `KeysCorrect` (`KeysAgree`), for any well-formed
  maps, objects, locals and anonymous objects, errors being cached like values. `ModelsCorrect` says that the caches hold what the memory does, whatever was asked
  and refreshed. `WalkFinds` and `WalkFindsNone` are the walk of a chain: it ends at the one
  element of the key, past all that collide with it, or at the end of the chain. `AllAtOnce` is the
  listing by index, which is a bijection with the elements.
* *Messages.* `ArriveCorrect` (`MessagesArrive`), `FramesCorrect` (`FramesAligned`), for any
  messages, any length of the header and any reads. The invariant `BufferInv`: the buffer with what
  is still on the wire is the stream behind the messages that were taken (`Follows`); no whole message
  is left in it; and an exception is blamed on a message that has arrived and is not ASCII. `Cuts`
  is what has been read of the next message, so that everything follows from how far that goes:
  a header cut anywhere is waited for (`EndsShort`), a whole one is found at its place
  (`EndsLong`), and then `getMessage` takes exactly the message or waits (`MessageShort` and its
  neighbours). The length counts bytes and the text has characters: with a character of two
  bytes the text is never longer than it should be (`CharsSeq`), so a body may be taken late or
  a wrong text thrown, but `splice` still cuts where the message ends. `ReadOnInv` carries this through
  the loop of `append`, which is a recursive function here so that one can reason about it; the loop
  ends as each turn but the last takes at least a byte.
* *Names.* `NamesCorrect` (`NamesKept`), for any path, any nesting of closures and any arguments without
  brackets, which one loop leaves out and the other keeps. Both loops are recursive functions of the position, of which `Reaches` is the state
  after a whole name, so that a token or a part can be put behind a name (`ReachesOn`). Along a
  path a loop keeps everything but the anonymous namespaces (`PathRead`), and is never behind
  "operator" between two parts, so that a bracket there is that of arguments (`PathPart`). The
  marks of a closure leave the loop outside of quotes again (`ClosureRead`); the backticks
  counted at the front are as many as the closures (`BackticksCounted`), as a path does not begin with one
  (`PathBegins`).

What is needed of induction (along a sequence, a queue, a loop) is always the same two
lemmas, `Induct` and `SeqInduct`, over a set of numbers or sequences instead of a predicate.

The invariants were invariants of TLC on small instances before they were proved. Only
model-checked are liveness (`QueueDrains`, `LaunchAnswered`, `PauseStops`), which with `ENABLED` is out of the
prover's reach, `CrashOnlyAfterExit`, which rests on what the engine does with an interrupt
(section 5), and `ValuesShown` of `readers`: what a recursion over values of any depth
computes, for all inputs. The properties of the three violated runs are refuted
by TLC and have no theorem.

## 7. Plan

Done: everything in section 2. What would come next, in this order:

1. The adapter over LLDB, when the code has a `stop()` for it.
2. Thread events in `dap_control`, and the list of threads in the adapter's `onThreads`.
3. The registration of the models.
4. The command line over `Session`, with its Ctrl-C.
