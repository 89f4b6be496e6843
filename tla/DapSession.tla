------------------------------- MODULE DapSession -------------------------------
(***************************************************************************)
(* The debug adapter over the session and the dbgeng driver.  DapSession   *)
(* runs on the callback thread: its event loop takes replies of the driver,*)
(* messages of the client and completions of its own writes.               *)
(*                                                                         *)
(* Messages are handled one at a time, from their arrival to the moment    *)
(* their promise resolves.  A handler that waits is found by what it waits *)
(* for: the name of the driver call, or the continuation of a write.       *)
(***************************************************************************)
EXTENDS Session

CONSTANTS
    Commands,       \* the requests the client makes
    MaxRequests,    \* bound on their number
    MaxWrites,      \* bound on the writes past which no thread event is taken up
    MaxLines,       \* bound on the breakpoints of one setBreakpoints
    EditsRunning    \* does the client set breakpoints while the target runs?

ASSUME RequestsAssumption == MaxRequests \in Nat /\ MaxLines \in Nat /\ MaxWrites \in Nat
ASSUME EditsAssumption    == EditsRunning \in BOOLEAN

VARIABLES
    messages,       \* messageQueue; its head is being handled
    turn,           \* what the callback thread has still to do before its loop
    writes,         \* writes not yet completed, with what follows each
    launch,         \* the session and launch fields
    setBps,         \* locals of the setBreakpoints being handled
    crashed,        \* an exception has left a callback: the event loop has ended
    closed,         \* close() has been called
    view,           \* what the client has been told of the target
    answered,       \* has the message being handled been answered?
    dropped,        \* the requests that are finished and have not been answered
    sent            \* how many requests the client has made

dapVars == <<messages, turn, writes, launch, setBps, crashed, closed>>
clientVars == <<view, answered, dropped, sent>>
vars == <<driverVars, sessionVars, dapVars, clientVars>>

(* A continue and the resume of a setBreakpoints may be made while the end *)
(* of the run before is still to be reported: a second name keeps the two  *)
(* callbacks apart.                                                        *)
Continues == {"continue", "continue2"}
Resumes   == {"bpResume", "bpResume2"}
RunCalls  == {"start"} \union Continues \union Resumes

DapCalls == RunCalls \union {"stepFrame", "step", "stepTop",
             "pause", "bpPause", "bpRemove", "bpCreate", "inspect", "threads", "stop"}

AllCommands == {"initialize", "setExceptionBreakpoints", "launch", "configurationDone",
                "setBreakpoints", "threads", "pause", "continue", "next", "stepIn",
                "stepOut", "inspect", "disconnect", "unknown"}

ASSUME CommandsAssumption == Commands \subseteq AllCommands /\ DapCalls \subseteq Calls

(* What follows a write: "event" has the ending of a step to report. *)
Continuations == {"none", "resolve", "initialized", "start", "pauseEvent", "stepEvent", "close"}

TypeOK ==
    /\ DriverTypeOK
    /\ SessionTypeOK
    /\ messages \in Seq(Commands)
    /\ turn \in {"loop", "consume", "setBps"}
    /\ writes \in Seq([then : Continuations, ending : Endings])
    /\ launch \in {"none", "creating", "created", "ended"}
    /\ setBps \in [remove : SUBSET BpIds, create : 0 .. MaxLines,
                   paused : BOOLEAN, failed : BOOLEAN]
    /\ crashed \in BOOLEAN
    /\ closed \in BOOLEAN
    /\ view \in {"none", "running", "stopped", "exited"}
    /\ answered \in BOOLEAN
    /\ dropped \subseteq Commands
    /\ sent \in 0 .. MaxRequests

NoSetBps == [remove |-> {}, create |-> 0, paused |-> FALSE, failed |-> FALSE]

DapInit ==
    /\ messages = <<>>
    /\ turn = "loop"
    /\ writes = <<>>
    /\ setBps = NoSetBps
    /\ crashed = FALSE
    /\ closed = FALSE
    /\ answered = FALSE
    /\ dropped = {}
    /\ sent = 0
    /\ SessionInit

(* A client has connected. *)
Init == DriverInit /\ DapInit /\ launch = "none" /\ view = "none"

(* The state launch and configurationDone lead to: the target runs. *)
InitRunning ==
    /\ DapInit
    /\ launch = "created"
    /\ view = "running"
    /\ tasks = <<>>
    /\ replies = <<>>
    /\ dbgThread = [at |-> "wait", call |-> "start"]
    /\ interrupting = NoCall
    /\ status = "go"
    /\ process = "alive"
    /\ exitInterrupt = FALSE
    /\ breakpoints = {}
    /\ oneShots = {}
    /\ stepOutBreakpointId = NoBp
    /\ session = "live"

-----------------------------------------------------------------------------
(* The callback thread is in its event loop. *)
Loop == turn = "loop" /\ interrupting = NoCall /\ ~crashed

(* consumeMessage has come to a request. *)
Consume(command) ==
    turn = "consume" /\ interrupting = NoCall /\ ~crashed /\ Head(messages) = command

HasSession == launch = "created"

Fresh(names) == CHOOSE call \in names : call \notin InFlight

Write(then, ending) == <<[then |-> then, ending |-> ending]>>

(* respond(): the answer to the message being handled. *)
Respond(then, ending) ==
    /\ writes' = writes \o Write(then, ending)
    /\ answered' = TRUE
    /\ turn' = "loop"
    /\ UNCHANGED <<messages, dropped, sent>>

(* The promise of the handler resolves: the next message is consumed at    *)
(* once, whether or not this one has been answered.                        *)
Resolve ==
    /\ messages' = Tail(messages)
    /\ turn' = IF Len(messages) > 1 THEN "consume" ELSE "loop"
    /\ answered' = FALSE
    /\ dropped' = IF answered THEN dropped ELSE dropped \union {Head(messages)}
    /\ UNCHANGED sent

(* The handler waits for the driver. *)
Await == turn' = "loop" /\ UNCHANGED <<messages, writes, answered, dropped, sent>>

(* What the client is told; it takes an exited event for the last word. *)
Tell(v) == view' = IF view = "exited" THEN "exited" ELSE v

(* interruptOptionToEvent: what the client learns from an ending. *)
ViewOf(ending) == IF ending = "exited" THEN "exited" ELSE "stopped"

-----------------------------------------------------------------------------
(* onInput.  A client asks to go on only when it believes the target is    *)
(* stopped and has no request unanswered, launches once, is done with its  *)
(* configuration once, and only disconnects from a target that ended.      *)
MayRequest(command) ==
    /\ command \in {"continue", "next", "stepIn", "stepOut", "inspect"}
       => view = "stopped" /\ messages = <<>>
    /\ command = "setBreakpoints"
       => EditsRunning \/ (view \in {"none", "stopped"} /\ messages = <<>>)
    /\ command = "launch" => launch = "none" /\ messages = <<>>
    /\ command = "configurationDone"
       => view = "none" /\ \A i \in DOMAIN messages : messages[i] # command
    /\ view = "exited" => command = "disconnect"

Receive ==
    /\ Loop
    /\ ~closed
    /\ sent < MaxRequests
    /\ \E command \in Commands :
          /\ MayRequest(command)
          /\ messages' = Append(messages, command)
    /\ sent' = sent + 1
    /\ turn' = IF messages = <<>> THEN "consume" ELSE "loop"
    /\ UNCHANGED <<driverVars, sessionVars, writes, launch, setBps, crashed, closed,
                   view, answered, dropped>>

(* A command makeRequest does not know. *)
Unknown ==
    /\ Consume("unknown")
    /\ Resolve
    /\ UNCHANGED <<driverVars, sessionVars, writes, launch, setBps, crashed, closed, view>>

(* Requests that are answered without asking the session. *)
AnswerAtOnce ==
    /\ \/ Consume("initialize") /\ Respond("initialized", "paused")
       \/ Consume("setExceptionBreakpoints") /\ Respond("resolve", "paused")
       \/ Consume("configurationDone") /\ Respond("start", "paused")
    /\ UNCHANGED <<driverVars, sessionVars, launch, setBps, crashed, closed, view>>

(* Every request that needs a session answers with an error when there is  *)
(* none, and then goes on as after any other answer; a step does not       *)
(* answer.                                                                 *)
WithoutSession ==
    /\ ~HasSession
    /\ \/ /\ \/ \E command \in {"continue", "setBreakpoints", "threads", "inspect"} :
                   Consume(command) /\ Respond("resolve", "error")
             \/ Consume("pause") /\ Respond("pauseEvent", "error")
             \/ Consume("disconnect") /\ Respond("close", "error")
       \/ /\ \E command \in {"next", "stepIn", "stepOut"} : Consume(command)
          /\ Resolve
          /\ UNCHANGED writes
    /\ UNCHANGED <<driverVars, sessionVars, launch, setBps, crashed, closed, view>>

(* Requests that make one driver call and wait for its answer. *)
Request(command, op, call) ==
    /\ HasSession
    /\ Consume(command)
    /\ Await
    /\ Post(op, call, NoBp)
    /\ UNCHANGED <<replies, dbgThread, interrupting, engineVars, session, sessionVars,
                   launch, setBps, crashed, closed, view>>

OnContinue   == Request("continue", "go", Fresh(Continues))
OnDisconnect == Request("disconnect", "end", "stop")

(* stackTrace asks for the call stack; scopes and evaluate ask for a frame *)
(* and then for its locals; variables asks nothing of the debug thread.    *)
OnInspect ==
    \/ \E op \in {"query", "frame"} : Request("inspect", op, "inspect")
    \/ /\ HasSession
       /\ Consume("inspect")
       /\ Respond("resolve", "paused")
       /\ UNCHANGED <<driverVars, sessionVars, launch, setBps, crashed, closed, view>>

OnThreads ==
    /\ HasSession
    /\ Consume("threads")
    /\ Await
    /\ GetThreads("threads")
    /\ UNCHANGED <<sessionVars, launch, setBps, crashed, closed, view>>

OnStep ==
    /\ HasSession
    /\ \/ Consume("next") /\ StepBegin("stepOver")
       \/ Consume("stepIn") /\ StepBegin("stepInto")
       \/ Consume("stepOut") /\ StepBegin("stepOut")
    /\ Await
    /\ UNCHANGED <<replies, dbgThread, interrupting, engineVars, session,
                   launch, setBps, crashed, closed, view>>

(* Session.create makes the driver on a thread of its own. *)
OnLaunch ==
    /\ Consume("launch")
    /\ launch' = "creating"
    /\ Await
    /\ UNCHANGED <<driverVars, sessionVars, setBps, crashed, closed, view>>

Launched ==
    /\ Loop
    /\ launch = "creating"
    /\ \/ /\ launch' = "created"
          /\ Resolve
          /\ UNCHANGED writes
       \/ /\ launch' = "none"
          /\ Respond("resolve", "error")
    /\ UNCHANGED <<driverVars, sessionVars, setBps, crashed, closed, view>>

-----------------------------------------------------------------------------
(* onPause, and the pause setBreakpoints begins with. *)

(* A mutant of BeginSetBps: the target is always resumed. *)
BeginSetBpsResuming(paused) ==
    \E lines \in 0 .. MaxLines :
        setBps' = [remove |-> active, create |-> lines, paused |-> TRUE, failed |-> FALSE]

(* The number of breakpoints the request asks for is chosen here; those    *)
(* active are all of the request's source file.                            *)
BeginSetBps(paused) ==
    \E lines \in 0 .. MaxLines :
        setBps' = [remove |-> active, create |-> lines, paused |-> paused, failed |-> FALSE]

(* pause() answers at once when the engine is at a break, or fails to say. *)
PauseAtOnce ==
    /\ HasSession
    /\ PauseStopped
    /\ \/ /\ Consume("pause")
          /\ Respond("pauseEvent", "paused")
          /\ UNCHANGED setBps
       \/ /\ EngineFails
          /\ Consume("setBreakpoints")
          /\ Respond("resolve", "error")
          /\ UNCHANGED setBps
       \/ /\ Consume("setBreakpoints")
          /\ turn' = "setBps"
          /\ BeginSetBps(FALSE)
          /\ UNCHANGED <<messages, writes, answered, dropped, sent>>
    /\ UNCHANGED <<sessionVars, launch, crashed, closed, view>>

OnPause ==
    /\ HasSession
    /\ \/ Consume("pause") /\ PauseBegin("pause")
       \/ Consume("setBreakpoints") /\ PauseBegin("bpPause")
    /\ Await
    /\ UNCHANGED <<sessionVars, launch, setBps, crashed, closed, view>>

PauseIssued == PauseEnd /\ UNCHANGED <<sessionVars, dapVars, clientVars>>

PauseRefused ==
    /\ PauseFails
    /\ IF interrupting = "pause" THEN Respond("pauseEvent", "error") ELSE Respond("resolve", "error")
    /\ UNCHANGED <<sessionVars, launch, setBps, crashed, closed, view>>

(* The rest of onSetBreakpoints: remove the old ones one after the other,  *)
(* then create the new ones, then go on if the pause stopped the target,   *)
(* without waiting for it to go on.                                        *)
SetBpsNext ==
    /\ turn = "setBps"
    /\ ~crashed
    /\ \/ /\ ~setBps.failed
          /\ \E b \in setBps.remove :
                /\ Post("remove", "bpRemove", b)
                /\ setBps' = [setBps EXCEPT !.remove = @ \ {b}]
          /\ Await
       \/ /\ ~setBps.failed
          /\ setBps.remove = {}
          /\ setBps.create > 0
          /\ Post("create", "bpCreate", NoBp)
          /\ setBps' = [setBps EXCEPT !.create = @ - 1]
          /\ Await
       \/ /\ setBps.failed \/ (setBps.remove = {} /\ setBps.create = 0)
          /\ IF setBps.paused THEN Post("go", Fresh(Resumes), NoBp) ELSE UNCHANGED tasks
          /\ Respond("resolve", "paused")
          /\ setBps' = NoSetBps
    /\ UNCHANGED <<replies, dbgThread, interrupting, engineVars, session, sessionVars,
                   launch, crashed, closed, view>>

-----------------------------------------------------------------------------
(* The replies of the driver. *)

Deliver(call) ==
    /\ Loop
    /\ replies # <<>>
    /\ Head(replies).call = call
    /\ replies' = Tail(replies)

reply == Head(replies)
Ok == reply.res = "ok"

DriverAsIs == UNCHANGED <<dbgThread, interrupting, engineVars, session>>

(* A mutant of RespondGo: the start answers configurationDone once more.   *)
RespondGoAgain == Respond("resolve", "paused")

(* respond() for a go that succeeded: that of the start answers launch,    *)
(* which is finished by then, as configurationDone has been answered.      *)
RespondGo ==
    /\ writes' = writes \o Write("resolve", "paused")
    /\ answered' = TRUE
    /\ dropped' = IF reply.call = "start" THEN dropped \ {"launch"} ELSE dropped
    /\ turn' = "loop"
    /\ UNCHANGED <<messages, sent>>

(* A go that was waited for: run, then the answer.  A start that fails is  *)
(* reported to nobody.                                                     *)
GoReplied ==
    /\ \E call \in {"start"} \union Continues : Deliver(call)
    /\ reply.op = "go"
    /\ \/ /\ Ok
          /\ Resumed(reply.call)
          /\ RespondGo
          /\ Tell("running")
       \/ /\ ~Ok
          /\ IF reply.call \in Continues
             THEN Respond("resolve", "error")
             ELSE Resolve /\ UNCHANGED writes
          /\ UNCHANGED <<tasks, sessionVars, view>>
    /\ DriverAsIs
    /\ UNCHANGED <<launch, setBps, crashed, closed>>

(* The go of setBreakpoints: its failure is thrown out of the callback. *)
BpResumeReplied ==
    /\ \E call \in Resumes : Deliver(call)
    /\ reply.op = "go"
    /\ \/ Ok /\ Resumed(reply.call) /\ UNCHANGED crashed
       \/ ~Ok /\ crashed' = TRUE /\ UNCHANGED <<tasks, sessionVars>>
    /\ DriverAsIs
    /\ UNCHANGED <<messages, turn, writes, launch, setBps, closed, clientVars>>

(* onRunCallback: an event for the client, or an exception out of the      *)
(* callback.                                                               *)
RunEnded ==
    /\ \E call \in RunCalls : Deliver(call)
    /\ reply.op = "wait"
    /\ Stopped(reply)
    /\ IF BreakReason(reply) = "error"
       THEN crashed' = TRUE /\ UNCHANGED <<writes, view>>
       ELSE /\ writes' = writes \o Write("none", "paused")
            /\ Tell(ViewOf(reply.res))
            /\ UNCHANGED crashed
    /\ DriverAsIs
    /\ UNCHANGED <<tasks, messages, turn, launch, setBps, closed, answered, dropped, sent>>

(* onThreadCreated and onThreadExited: a thread event for the client. *)
ThreadNotified ==
    /\ Deliver(NoCall)
    /\ Len(writes) < MaxWrites
    /\ writes' = writes \o Write("none", "paused")
    /\ DriverAsIs
    /\ UNCHANGED <<tasks, sessionVars, messages, turn, launch, setBps, crashed, closed, clientVars>>

(* The result of a step: only a success is answered, and its event follows *)
(* the answer.                                                             *)
StepDone(ending) ==
    IF ending = "error" THEN Resolve /\ UNCHANGED writes ELSE Respond("stepEvent", ending)

StepFrameReplied ==
    /\ Deliver("stepFrame")
    /\ \/ Ok /\ StepFromBase /\ Await
       \/ ~Ok /\ StepDone("error") /\ UNCHANGED <<tasks, sessionVars>>
    /\ DriverAsIs
    /\ UNCHANGED <<launch, setBps, crashed, closed, view>>

StepReplied ==
    /\ Deliver("step")
    /\ \/ /\ reply.op \in StepOps
          /\ \/ Ok /\ StepRun /\ Await
             \/ ~Ok /\ StepDone("error") /\ UNCHANGED <<tasks, sessionVars>>
       \/ /\ reply.op = "wait"
          /\ \/ reply.res = "paused" /\ StepPaused /\ Await
             \/ /\ reply.res # "paused"
                /\ Stopped(reply)
                /\ StepDone(BreakReason(reply))
                /\ UNCHANGED tasks
    /\ DriverAsIs
    /\ UNCHANGED <<launch, setBps, crashed, closed, view>>

StepTopReplied ==
    /\ Deliver("stepTop")
    /\ \/ Ok /\ StepAgain /\ Await
       \/ Ok /\ StepDone("paused") /\ UNCHANGED <<tasks, sessionVars>>
       \/ ~Ok /\ StepDone("error") /\ UNCHANGED <<tasks, sessionVars>>
    /\ DriverAsIs
    /\ UNCHANGED <<launch, setBps, crashed, closed, view>>

(* The answer to a pause, which does not look at the target. *)
PauseReplied ==
    /\ Deliver("pause")
    /\ Respond("pauseEvent", "paused")
    /\ DriverAsIs
    /\ UNCHANGED <<tasks, sessionVars, launch, setBps, crashed, closed, view>>

(* The pause of setBreakpoints. *)
BpPauseReplied ==
    /\ Deliver("bpPause")
    /\ BeginSetBps(TRUE)
    /\ turn' = "setBps"
    /\ DriverAsIs
    /\ UNCHANGED <<tasks, sessionVars, messages, writes, launch, crashed, closed, clientVars>>

(* Breakpoints.delete: a breakpoint that cannot be removed stays active    *)
(* and ends the request.                                                   *)
BpRemoved ==
    /\ Deliver("bpRemove")
    /\ active' = IF Ok THEN active \ {reply.bp} ELSE active
    /\ setBps' = [setBps EXCEPT !.failed = ~Ok]
    /\ turn' = "setBps"
    /\ DriverAsIs
    /\ UNCHANGED <<tasks, stopReason, stepType, messages, writes, launch, crashed, closed, clientVars>>

(* A mutant of BpCreated: the created breakpoint is not kept. *)
BpCreatedUnknown ==
    /\ Deliver("bpCreate")
    /\ turn' = "setBps"
    /\ DriverAsIs
    /\ UNCHANGED <<tasks, sessionVars, messages, writes, launch, setBps, crashed, closed, clientVars>>

(* Breakpoints.create: one that cannot be created is reported and passed   *)
(* over.                                                                   *)
BpCreated ==
    /\ Deliver("bpCreate")
    /\ active' = IF Ok THEN active \union {reply.bp} ELSE active
    /\ turn' = "setBps"
    /\ DriverAsIs
    /\ UNCHANGED <<tasks, stopReason, stepType, messages, writes, launch, setBps, crashed, closed, clientVars>>

(* getLocals: a frame of haxe code is followed by its variables. *)
InspectedFrame ==
    /\ Deliver("inspect")
    /\ reply.op = "frame" /\ Ok
    /\ Post("query", "inspect", NoBp)
    /\ Await
    /\ DriverAsIs
    /\ UNCHANGED <<sessionVars, launch, setBps, crashed, closed, view>>

(* A mutant of PassedOn: the answer of the driver is not passed on. *)
PassedOnSilently ==
    /\ \/ \E call \in {"inspect", "threads"} : Deliver(call) /\ Resolve /\ UNCHANGED writes
       \/ Deliver("stop") /\ Respond("close", "paused")
    /\ DriverAsIs
    /\ UNCHANGED <<tasks, sessionVars, launch, setBps, crashed, closed, view>>

(* Answers that are passed on as they are. *)
PassedOn ==
    /\ \/ \E call \in {"inspect", "threads"} : Deliver(call) /\ Respond("resolve", "paused")
       \/ Deliver("stop") /\ Respond("close", "paused")
    /\ DriverAsIs
    /\ UNCHANGED <<tasks, sessionVars, launch, setBps, crashed, closed, view>>

-----------------------------------------------------------------------------
(* The completion of a write. *)

WriteDone(then) ==
    /\ Loop
    /\ writes # <<>>
    /\ Head(writes).then = then

Ending == Head(writes).ending

NothingFollows ==
    /\ WriteDone("none")
    /\ writes' = Tail(writes)
    /\ UNCHANGED <<driverVars, sessionVars, messages, turn, launch, setBps, crashed, closed, clientVars>>

ResolveFollows ==
    /\ WriteDone("resolve")
    /\ writes' = Tail(writes)
    /\ Resolve
    /\ UNCHANGED <<driverVars, sessionVars, launch, setBps, crashed, closed, view>>

(* sendInitialisedEvent, sendPauseStoppedEvent and the event of a step.    *)
(* That of a pause is sent whatever the answer was.                        *)
EventFollows ==
    /\ \/ WriteDone("initialized") /\ UNCHANGED view
       \/ WriteDone("pauseEvent") /\ Tell("stopped")
       \/ WriteDone("stepEvent") /\ Tell(ViewOf(Ending))
    /\ writes' = Tail(writes) \o Write("resolve", "paused")
    /\ UNCHANGED <<driverVars, sessionVars, messages, turn, launch, setBps, crashed, closed,
                   answered, dropped, sent>>

(* startTargetAfterConfiguration. *)
StartFollows ==
    /\ WriteDone("start")
    /\ writes' = Tail(writes)
    /\ \/ /\ HasSession
          /\ Post("go", "start", NoBp)
          /\ UNCHANGED <<messages, turn, answered, dropped, sent>>
       \/ ~HasSession /\ Resolve /\ UNCHANGED tasks
    /\ UNCHANGED <<replies, dbgThread, interrupting, engineVars, session, sessionVars,
                   launch, setBps, crashed, closed, view>>

(* A mutant of CloseFollows: the session field is not cleared. *)
CloseFollowsKeepsSession ==
    /\ WriteDone("close")
    /\ writes' = Tail(writes)
    /\ closed' = TRUE
    /\ Resolve
    /\ UNCHANGED <<driverVars, sessionVars, launch, setBps, crashed, view>>

(* onDisconnect: the session is forgotten and the connection closed. *)
CloseFollows ==
    /\ WriteDone("close")
    /\ writes' = Tail(writes)
    /\ launch' = "ended"
    /\ closed' = TRUE
    /\ Resolve
    /\ UNCHANGED <<driverVars, sessionVars, setBps, crashed, view>>

-----------------------------------------------------------------------------
Handle ==
    \/ Unknown \/ AnswerAtOnce \/ WithoutSession \/ OnContinue \/ OnInspect
    \/ OnDisconnect \/ OnThreads \/ OnStep \/ OnLaunch \/ OnPause \/ PauseAtOnce
    \/ PauseIssued \/ PauseRefused \/ SetBpsNext

HandleReply ==
    \/ GoReplied \/ BpResumeReplied \/ RunEnded \/ ThreadNotified
    \/ StepFrameReplied \/ StepReplied \/ StepTopReplied
    \/ PauseReplied \/ BpPauseReplied \/ BpRemoved \/ BpCreated
    \/ InspectedFrame \/ PassedOn

HandleWrite ==
    NothingFollows \/ ResolveFollows \/ EventFollows \/ StartFollows \/ CloseFollows

CallbackThread == Receive \/ Launched \/ Handle \/ HandleReply \/ HandleWrite

Driver == DebugThread /\ UNCHANGED <<sessionVars, dapVars, clientVars>>

Next == CallbackThread \/ Driver

Spec == Init /\ [][Next]_vars

SpecRunning == InitRunning /\ [][Next]_vars

(* The callback thread goes on while it has something to do, the debug     *)
(* thread while it has a task or its wait can return by itself.  Nothing   *)
(* makes the client send or the target stop.                               *)
Fairness ==
    /\ WF_vars(Launched \/ Handle \/ HandleReply \/ HandleWrite)
    /\ WF_vars((RunTask \/ WaitStep) /\ UNCHANGED <<sessionVars, dapVars, clientVars>>)

FairSpec == Spec /\ Fairness

FairSpecRunning == SpecRunning /\ Fairness
=============================================================================
