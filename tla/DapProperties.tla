----------------------------- MODULE DapProperties -----------------------------
(* What the debug adapter promises its client. *)
EXTENDS DapSession

(* Nothing is on its way between the client and the target. *)
Quiet ==
    /\ Loop
    /\ messages = <<>> /\ writes = <<>> /\ replies = <<>> /\ tasks = <<>>
    /\ dbgThread.at \in {"idle", "wait"}
    /\ ~exitInterrupt

(* When nothing is on its way, what the client was last told of the target *)
(* is true: after a stopped event it is at a break, after the answer to a  *)
(* continue the adapter is waiting for it (onPause, onContinue, onStep and *)
(* onRunCallback of DapSession.hx report independently of each other).     *)
ViewAgrees ==
    Quiet /\ HasSession =>
        /\ view = "stopped" => ~Running
        /\ view = "running" => Running /\ dbgThread.at = "wait"
        /\ view = "exited" => process # "alive"

(* The callback of a pause that had to interrupt the target is not invoked *)
(* while the target runs (the comment at DbgEngDriver.hx:70).              *)
PauseAnsweredStopped ==
    [][replies # <<>> /\ Head(replies).op = "hop" /\ replies' = Tail(replies)
       => ~Running]_vars

(* No exception leaves a callback of the session while the process is      *)
(* alive: the throws of onRunCallback and onSetBreakpoints end the adapter.*)
CrashOnlyAfterExit == crashed => process # "alive"

(* A breakpoint the target reports is one the session still knows: the     *)
(* reply of a run and the removal of its breakpoint never cross            *)
(* (Session.mapBreakReason, Breakpoints.delete).                           *)
BreakpointsKnown ==
    replies # <<>> /\ reply.res = "breakpoint" => reply.bp \in active

(* A client that sets breakpoints only at a stop it was told of never has  *)
(* its target resumed by that: its view may be behind the engine when it   *)
(* asks, not when its request is handled (onSetBreakpoints resumes without *)
(* looking why the target has stopped, which loses the stop of a client    *)
(* that sets breakpoints while the target runs).                           *)
EditsResumeNothing ==
    ~setBps.paused /\ \A i \in DOMAIN tasks : tasks[i].call \notin Resumes

(* While the debug thread waits for the target, the cache holds neither a  *)
(* stop reason of an earlier stop nor one of this run: evaluate and        *)
(* exceptionInfo read it without asking the driver (Cache.clear and        *)
(* Session.mapBreakReason).                                                *)
CacheClearWhileRunning ==
    InWait => stopReason = "notSuspended"

(* No request is finished without an answer but a launch that has made its *)
(* session, which is answered by the start of the target.  Commands        *)
(* makeRequest does not know and steps that fail are never answered: the   *)
(* run leaves them out (makeRequest, onLaunch, onStep).                    *)
EveryRequestAnswered ==
    /\ dropped \subseteq {"launch"}
    /\ "launch" \in dropped => launch \in {"created", "ended"}

(* A launch is answered once configurationDone is handled after it: by     *)
(* then nothing the client has sent keeps the start from succeeding        *)
(* (startTargetAfterConfiguration).  It stays unanswered if the client     *)
(* never sends configurationDone after it, or disconnects first, and if    *)
(* the engine fails to start the target, which this run leaves out.        *)
LaunchAnswered ==
    Consume("configurationDone") /\ HasSession /\ "launch" \in dropped
    ~> "launch" \notin dropped

(* The debug thread outlives every request: none asks for a frame of a     *)
(* target that runs, which would end its event loop (DbgEngStack.getFrame).*)
DebugThreadLives == dbgThread.at # "dead"

(* stop() destroys the session object: nothing uses it afterwards          *)
(* (DbgEngDriver.stop, onDisconnect).                                      *)
NoUseAfterStop == session # "dangling"

(* The request being handled is held up by the target. *)
HeldByTarget ==
    /\ messages # <<>>
    /\ \/ Head(messages) \in {"next", "stepIn", "stepOut"}
       \/ Head(messages) = "disconnect" /\ InWait

(* Only a step, and a disconnect while the debug thread waits for the      *)
(* target, can hold the queue.  Every other request is finished: the queue *)
(* does not stay behind a handler that waits for an answer of the driver   *)
(* that never comes (makeMessage, consumeMessage, DbgEngDriver.stop, whose *)
(* end() is behind the wait of the run).                                   *)
QueueDrains == messages # <<>> ~> messages = <<>> \/ HeldByTarget

(* The adapter is one of the clients DriverClient allows: it runs the      *)
(* target exactly when a go or a step has succeeded, makes no call under a *)
(* name still in use, and answers none twice.  What is proved of every     *)
(* client holds of it (the nested callbacks of DapSession.hx, Session.hx   *)
(* and Breakpoints.hx).                                                    *)
Client == INSTANCE DriverClient WITH outstanding <- InFlight

ImplementsDriverClient == Client!Spec
=============================================================================
