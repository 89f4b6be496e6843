------------------------------ MODULE DbgEngDriver ------------------------------
(***************************************************************************)
(* The dbgeng driver: a callback thread that calls the driver, a debug     *)
(* thread that owns the engine, and the target behind the engine.          *)
(*                                                                         *)
(* The two threads share nothing but two event queues (`tasks` runs on the *)
(* debug thread, `replies` on the callback thread), except for interrupt(),*)
(* which the callback thread calls on the engine directly.  A driver call  *)
(* is named by a member of Calls; the same name travels from the task to   *)
(* the reply, and from a successful go or step to the wait of its run.     *)
(*                                                                         *)
(* This module is the driver alone.  Its callers are added by the modules  *)
(* that extend it.                                                         *)
(***************************************************************************)
EXTENDS Naturals, Sequences

CONSTANTS
    Calls,          \* names of the calls made on the driver
    NoCall,         \* no call
    BpIds,          \* the ids the engine gives to breakpoints
    NoBp,           \* DEBUG_ANY_ID: no breakpoint
    EngineFails,    \* may an engine function return a failure code?
    KeepsInterrupt, \* whether an exit interrupt may be kept at a break, and may be lost
    MaxReplies      \* bound on the callback queue past which no thread event comes

ASSUME CallsAssumption   == NoCall \notin Calls
ASSUME BpsAssumption     == NoBp \notin BpIds
ASSUME FlagsAssumption   == EngineFails \in BOOLEAN /\ KeepsInterrupt \subseteq BOOLEAN
ASSUME RepliesAssumption == MaxReplies \in Nat

VARIABLES
    tasks,               \* dbgThread.events: what the debug thread has still to run
    replies,             \* cbThread.events: what the callback thread has still to run
    dbgThread,           \* where the debug thread is, and the call of its run
    interrupting,        \* the pause whose interrupt() is past its status test
    status,              \* GetExecutionStatus
    process,             \* the target process
    exitInterrupt,       \* a DEBUG_INTERRUPT_EXIT not yet taken by a wait
    breakpoints,         \* breakpoints set in the engine
    oneShots,            \* those of them that disappear when hit
    stepOutBreakpointId, \* DbgEngSession::stepOutBreakpointId
    session              \* the DbgEngSession object

driverVars == <<tasks, replies, dbgThread, interrupting, status, process,
                exitInterrupt, breakpoints, oneShots, stepOutBreakpointId, session>>

engineVars == <<status, process, exitInterrupt, breakpoints, oneShots, stepOutBreakpointId>>

StepOps   == {"stepInto", "stepOver", "stepOut"}
ResumeOps == {"go"} \union StepOps
TaskOps   == ResumeOps \union {"wait", "hop", "end", "create", "remove", "query", "frame"}
Results   == {"ok", "error", "paused", "breakpoint", "exception", "exited",
              "threadCreated", "threadExited"}

Task  == [op : TaskOps, call : Calls, bp : BpIds \union {NoBp}]
Reply == [op : TaskOps, call : Calls, res : Results, bp : BpIds \union {NoBp}]
         \union [op : {"thread"}, call : {NoCall}, res : Results, bp : {NoBp}]

Running == status \in {"go", "step"}

(* The debug thread is inside wait() or one of its callbacks. *)
InWait == dbgThread.at \in {"wait", "breaking", "threadEvent"}

DriverTypeOK ==
    /\ tasks \in Seq(Task)
    /\ replies \in Seq(Reply)
    /\ dbgThread \in [at : {"idle", "wait", "breaking", "threadEvent", "dead"},
                      call : Calls \union {NoCall}]
    /\ (dbgThread.at = "idle") <=> (dbgThread.call = NoCall)
    /\ interrupting \in Calls \union {NoCall}
    /\ status \in {"break", "go", "step", "noDebuggee"}
    /\ process \in {"alive", "exiting", "gone"}
    /\ exitInterrupt \in BOOLEAN
    /\ breakpoints \subseteq BpIds
    /\ oneShots \subseteq BpIds
    /\ stepOutBreakpointId \in BpIds \union {NoBp}
    /\ session \in {"live", "destroyed", "dangling"}

(* A session whose process was created and has stopped at its creation. *)
DriverInit ==
    /\ tasks = <<>>
    /\ replies = <<>>
    /\ dbgThread = [at |-> "idle", call |-> NoCall]
    /\ interrupting = NoCall
    /\ status = "break"
    /\ process = "alive"
    /\ exitInterrupt = FALSE
    /\ breakpoints = {}
    /\ oneShots = {}
    /\ stepOutBreakpointId = NoBp
    /\ session = "live"

-----------------------------------------------------------------------------
(* The calls, made on the callback thread. *)

(* dbgThread.events.run: go, step, run, stop, create, remove and the       *)
(* queries of frames and locals all post one task and return.              *)
Post(op, call, bp) ==
    tasks' = Append(tasks, [op |-> op, call |-> call, bp |-> bp])

(* cbThread.events.run: the debug thread answers a call. *)
Answer(op, call, res, bp) ==
    replies' = Append(replies, [op |-> op, call |-> call, res |-> res, bp |-> bp])

(* getThreads(): the threads are kept on the callback thread, which answers *)
(* the call over its own queue.                                            *)
GetThreads(call) ==
    /\ Answer("query", call, "ok", NoBp)
    /\ UNCHANGED <<tasks, dbgThread, interrupting, engineVars, session>>

(* interrupt() is called on the session object whatever has become of it.  *)
(* Of one that stop() has destroyed nothing is defined: each outcome below *)
(* is then possible.                                                       *)
SessionGone == session # "live"
UseSession  == session' = IF SessionGone THEN "dangling" ELSE "live"

(* pause() while the engine says the target is stopped: the callback is    *)
(* invoked with false before pause() returns.                              *)
PauseStopped ==
    /\ status = "break" \/ SessionGone
    /\ UseSession
    /\ UNCHANGED <<tasks, replies, dbgThread, interrupting, engineVars>>

(* interrupt() has read a status other than break, and has yet to set the  *)
(* interrupt.  The debug thread and the target go on meanwhile.            *)
PauseBegin(call) ==
    /\ status # "break" \/ SessionGone
    /\ interrupting' = call
    /\ UseSession
    /\ UNCHANGED <<tasks, replies, dbgThread, engineVars>>

(* Mutants of PauseEnd: the pause is answered without the hop, or its       *)
(* interrupt is not set.                                                   *)
PauseEndAtOnce ==
    /\ interrupting # NoCall
    /\ exitInterrupt' = TRUE
    /\ Answer("hop", interrupting, "ok", NoBp)
    /\ interrupting' = NoCall
    /\ UseSession
    /\ UNCHANGED <<tasks, dbgThread, status, process, breakpoints, oneShots,
                   stepOutBreakpointId>>

PauseEndWithoutInterrupt ==
    /\ interrupting # NoCall
    /\ Post("hop", interrupting, NoBp)
    /\ interrupting' = NoCall
    /\ UseSession
    /\ UNCHANGED <<replies, dbgThread, engineVars>>

(* SetInterrupt(DEBUG_INTERRUPT_EXIT), then the hop over the debug thread  *)
(* that answers the pause with true.  What the engine does with the        *)
(* interrupt if the target has come to a break in between is not           *)
(* documented: see KeepsInterrupt.                                         *)
PauseEnd ==
    /\ interrupting # NoCall
    /\ \E keeps \in KeepsInterrupt : exitInterrupt' = (keeps \/ status # "break")
    /\ Post("hop", interrupting, NoBp)
    /\ interrupting' = NoCall
    /\ UseSession
    /\ UNCHANGED <<replies, dbgThread, status, process, breakpoints, oneShots,
                   stepOutBreakpointId>>

(* A mutant of PauseFails: the refused pause is answered by the hop too. *)
PauseFailsAndHops ==
    /\ EngineFails \/ SessionGone
    /\ interrupting # NoCall
    /\ Post("hop", interrupting, NoBp)
    /\ interrupting' = NoCall
    /\ UseSession
    /\ UNCHANGED <<replies, dbgThread, engineVars>>

(* SetInterrupt fails: the callback is invoked with an error at once. *)
PauseFails ==
    /\ EngineFails \/ SessionGone
    /\ interrupting # NoCall
    /\ interrupting' = NoCall
    /\ UseSession
    /\ UNCHANGED <<tasks, replies, dbgThread, engineVars>>

-----------------------------------------------------------------------------
(* The tasks, run by the debug thread one at a time and in order. *)

AnswerTask(res, bp) == Answer(Head(tasks).op, Head(tasks).call, res, bp)

Take(ops) ==
    /\ dbgThread.at = "idle"
    /\ tasks # <<>>
    /\ Head(tasks).op \in ops
    /\ tasks' = Tail(tasks)

TakeLive(ops) == session = "live" /\ Take(ops)

(* A mutant of GoTask: a target that runs can be told to go. *)
GoTaskAnyTime ==
    /\ TakeLive({"go"})
    /\ status' = "go"
    /\ AnswerTask("ok", NoBp)
    /\ UNCHANGED <<dbgThread, interrupting, process, exitInterrupt, breakpoints,
                   oneShots, stepOutBreakpointId, session>>

(* go(): only from a break. *)
GoTask ==
    /\ TakeLive({"go"})
    /\ \/ /\ status = "break"
          /\ status' = "go"
          /\ AnswerTask("ok", NoBp)
       \/ /\ status # "break" \/ EngineFails
          /\ UNCHANGED status
          /\ AnswerTask("error", NoBp)
    /\ UNCHANGED <<dbgThread, interrupting, process, exitInterrupt, breakpoints,
                   oneShots, stepOutBreakpointId, session>>

(* step() into or over: only from a break. *)
StepTask ==
    /\ TakeLive({"stepInto", "stepOver"})
    /\ \/ /\ status = "break"
          /\ status' = "step"
          /\ AnswerTask("ok", NoBp)
       \/ /\ status # "break" \/ EngineFails
          /\ UNCHANGED status
          /\ AnswerTask("error", NoBp)
    /\ UNCHANGED <<dbgThread, interrupting, process, exitInterrupt, breakpoints,
                   oneShots, stepOutBreakpointId, session>>

(* step() out: a one shot breakpoint at the return address, then go.  A    *)
(* failure may come before the breakpoint is set, before its id is read or *)
(* after.                                                                  *)
StepOutTask ==
    /\ TakeLive({"stepOut"})
    /\ \/ /\ status = "break"
          /\ \E b \in BpIds \ breakpoints :
                /\ breakpoints' = breakpoints \union {b}
                /\ oneShots' = oneShots \union {b}
                /\ \/ /\ stepOutBreakpointId' = b
                      /\ status' = "go"
                      /\ AnswerTask("ok", NoBp)
                   \/ /\ EngineFails
                      /\ stepOutBreakpointId' \in {stepOutBreakpointId, b}
                      /\ UNCHANGED status
                      /\ AnswerTask("error", NoBp)
       \/ /\ status # "break" \/ breakpoints = BpIds \/ EngineFails
          /\ AnswerTask("error", NoBp)
          /\ UNCHANGED <<status, breakpoints, oneShots, stepOutBreakpointId>>
    /\ UNCHANGED <<dbgThread, interrupting, process, exitInterrupt, session>>

(* The second hop of a pause, which does not touch the session. *)
HopTask ==
    /\ Take({"hop"})
    /\ AnswerTask("ok", NoBp)
    /\ UNCHANGED <<dbgThread, interrupting, engineVars, session>>

(* end(), then the session object is destroyed. *)
EndTask ==
    /\ TakeLive({"end"})
    /\ \/ /\ process # "gone"
          /\ process' = "gone"
          /\ session' = "destroyed"
          /\ AnswerTask("ok", NoBp)
       \/ /\ process # "alive" \/ EngineFails
          /\ AnswerTask("error", NoBp)
          /\ UNCHANGED <<process, session>>
    /\ UNCHANGED <<dbgThread, interrupting, status, exitInterrupt, breakpoints,
                   oneShots, stepOutBreakpointId>>

(* createBreakpoint(): the engine chooses a free id, or has no code at     *)
(* the line.  A breakpoint whose id cannot be read stays in the engine.    *)
CreateTask ==
    /\ TakeLive({"create"})
    /\ \/ \E b \in BpIds \ breakpoints :
             /\ breakpoints' = breakpoints \union {b}
             /\ \/ AnswerTask("ok", b)
                \/ EngineFails /\ AnswerTask("error", NoBp)
       \/ UNCHANGED breakpoints /\ AnswerTask("error", NoBp)
    /\ UNCHANGED <<dbgThread, interrupting, status, process, exitInterrupt,
                   oneShots, stepOutBreakpointId, session>>

(* removeBreakpoint(): an id the engine does not know is an error. *)
RemoveTask ==
    /\ TakeLive({"remove"})
    /\ LET b == Head(tasks).bp IN
       \/ /\ b \in breakpoints
          /\ breakpoints' = breakpoints \ {b}
          /\ oneShots' = oneShots \ {b}
          /\ AnswerTask("ok", b)
       \/ /\ b \notin breakpoints \/ EngineFails
          /\ AnswerTask("error", b)
          /\ UNCHANGED <<breakpoints, oneShots>>
    /\ UNCHANGED <<dbgThread, interrupting, status, process, exitInterrupt,
                   stepOutBreakpointId, session>>

(* Call stacks and locals: engine state is read, none is changed. *)
QueryTask ==
    /\ TakeLive({"query"})
    /\ \E res \in {"ok", "error"} : AnswerTask(res, NoBp)
    /\ UNCHANGED <<dbgThread, interrupting, engineVars, session>>

(* getFrame() of a target that stands still.  Its try has no catch: what   *)
(* the engine throws leaves the task and the event loop of the debug       *)
(* thread, and the call is never answered.                                 *)
FrameTask ==
    /\ TakeLive({"frame"})
    /\ \/ status = "break" /\ AnswerTask("ok", NoBp) /\ UNCHANGED dbgThread
       \/ /\ status # "break" \/ EngineFails
          /\ dbgThread' = [at |-> "dead", call |-> Head(tasks).call]
          /\ UNCHANGED replies
    /\ UNCHANGED <<interrupting, engineVars, session>>

(* run(): the debug thread enters wait() and blocks in WaitForEvent. *)
WaitTask ==
    /\ TakeLive({"wait"})
    /\ dbgThread' = [at |-> "wait", call |-> Head(tasks).call]
    /\ UNCHANGED <<replies, interrupting, engineVars, session>>

(* A task that dereferences the destroyed session: undefined behaviour,    *)
(* which may look like a success or a failure.                             *)
DanglingTask ==
    /\ session # "live"
    /\ Take(TaskOps \ {"hop"})
    /\ session' = "dangling"
    /\ \E res \in {IF Head(tasks).op = "wait" THEN "exited" ELSE "ok", "error"} :
          AnswerTask(res, NoBp)
    /\ UNCHANGED <<dbgThread, interrupting, engineVars>>

-----------------------------------------------------------------------------
(* Inside wait(). *)

Waiting == dbgThread.at = "wait" /\ process = "alive"

(* WaitForEvent has returned for an event: the callbacks of                *)
(* DebugEventCallbacks have answered DEBUG_STATUS_BREAK.                   *)
BreakForEvent ==
    /\ status' = "break"
    /\ \E keeps \in KeepsInterrupt : exitInterrupt' = (keeps /\ exitInterrupt)

(* Mutants of EndRun: the callback of the run is kept, or the debug thread  *)
(* does not leave wait().                                                  *)
EndRunKeepsCall(res, bp) ==
    /\ dbgThread' = [dbgThread EXCEPT !.at = "idle"]
    /\ Answer("wait", dbgThread.call, res, bp)

EndRunStays(res, bp) == UNCHANGED dbgThread /\ Answer("wait", dbgThread.call, res, bp)

EndRun(res, bp) ==
    /\ dbgThread' = [at |-> "idle", call |-> NoCall]
    /\ Answer("wait", dbgThread.call, res, bp)

(* A breakpoint: the one of the last step out is reported as a pause. *)
HitBreakpoint ==
    /\ Waiting
    /\ BreakForEvent
    /\ \E b \in breakpoints :
          /\ breakpoints' = breakpoints \ (oneShots \intersect {b})
          /\ oneShots' = oneShots \ {b}
          /\ IF b = stepOutBreakpointId
             THEN stepOutBreakpointId' = NoBp /\ EndRun("paused", NoBp)
             ELSE UNCHANGED stepOutBreakpointId /\ EndRun("breakpoint", b)
    /\ UNCHANGED <<tasks, interrupting, process, session>>

HitException ==
    /\ Waiting
    /\ BreakForEvent
    /\ EndRun("exception", NoBp)
    /\ UNCHANGED <<tasks, interrupting, process, breakpoints, oneShots,
                   stepOutBreakpointId, session>>

(* An event of type 0 ends a step. *)
StepComplete ==
    /\ Waiting
    /\ status = "step"
    /\ BreakForEvent
    /\ EndRun("paused", NoBp)
    /\ UNCHANGED <<tasks, interrupting, process, breakpoints, oneShots,
                   stepOutBreakpointId, session>>

(* The exit code of the process may not be readable. *)
ProcessExits ==
    /\ Waiting
    /\ BreakForEvent
    /\ process' = "exiting"
    /\ EndRun("exited", NoBp) \/ (EngineFails /\ EndRun("error", NoBp))
    /\ UNCHANGED <<tasks, interrupting, breakpoints, oneShots,
                   stepOutBreakpointId, session>>

(* An event wait() has no case for, a failure to read the event, or a      *)
(* failure of WaitForEvent itself, which brings the target to no break.    *)
UnknownEvent ==
    /\ EngineFails
    /\ Waiting
    /\ BreakForEvent \/ UNCHANGED <<status, exitInterrupt>>
    /\ EndRun("error", NoBp)
    /\ UNCHANGED <<tasks, interrupting, process, breakpoints, oneShots,
                   stepOutBreakpointId, session>>

(* A thread of the target starts or ends: the callback thread is notified  *)
(* while the engine is at a break.                                         *)
ThreadEvent ==
    /\ Waiting
    /\ Len(replies) < MaxReplies
    /\ BreakForEvent
    /\ dbgThread' = [dbgThread EXCEPT !.at = "threadEvent"]
    /\ \E res \in {"threadCreated", "threadExited"} : Answer("thread", NoCall, res, NoBp)
    /\ UNCHANGED <<tasks, interrupting, process, breakpoints, oneShots,
                   stepOutBreakpointId, session>>

(* The nested go() and wait() of onThreadCreated and onThreadExited. *)
ThreadEventContinue ==
    /\ dbgThread.at = "threadEvent"
    /\ \/ /\ status = "break"
          /\ status' = "go"
          /\ dbgThread' = [dbgThread EXCEPT !.at = "wait"]
          /\ UNCHANGED replies
       \/ /\ status # "break" \/ EngineFails
          /\ UNCHANGED status
          /\ EndRun("error", NoBp)
    /\ UNCHANGED <<tasks, interrupting, process, exitInterrupt, breakpoints,
                   oneShots, stepOutBreakpointId, session>>

(* E_UNEXPECTED: there is no process left to wait for, and its exit code   *)
(* may be lost.                                                            *)
WaitForNothing ==
    /\ dbgThread.at = "wait"
    /\ process # "alive"
    /\ process' = "gone"
    /\ status' = "noDebuggee"
    /\ EndRun("exited", NoBp) \/ (EngineFails /\ EndRun("error", NoBp))
    /\ UNCHANGED <<tasks, interrupting, exitInterrupt, breakpoints, oneShots,
                   stepOutBreakpointId, session>>

(* E_PENDING: an exit interrupt ended the wait.  The target goes on and is *)
(* broken into by DEBUG_INTERRUPT_ACTIVE.                                  *)
WaitInterrupted ==
    /\ Waiting
    /\ exitInterrupt
    /\ exitInterrupt' = FALSE
    /\ \/ /\ status' = "go"
          /\ dbgThread' = [dbgThread EXCEPT !.at = "breaking"]
          /\ UNCHANGED replies
       \/ /\ EngineFails
          /\ status' \in {status, "go"}
          /\ EndRun("error", NoBp)
    /\ UNCHANGED <<tasks, interrupting, process, breakpoints, oneShots,
                   stepOutBreakpointId, session>>

(* The second WaitForEvent returns, for the break or for any other event   *)
(* of the target, and a pause is reported whatever it was.                 *)
BreakIn ==
    /\ dbgThread.at = "breaking"
    /\ BreakForEvent
    /\ process' \in {"alive", "exiting"}
    /\ \E hit \in {{}} \union {{b} : b \in breakpoints} :
          /\ breakpoints' = breakpoints \ (hit \intersect oneShots)
          /\ oneShots' = oneShots \ hit
    /\ EndRun("paused", NoBp)
    /\ UNCHANGED <<tasks, interrupting, stepOutBreakpointId, session>>

(* An exit interrupt ends the second WaitForEvent: a failure code there.   *)
BreakInInterrupted ==
    /\ dbgThread.at = "breaking"
    /\ exitInterrupt \/ EngineFails
    /\ exitInterrupt' = FALSE
    /\ EndRun("error", NoBp)
    /\ UNCHANGED <<tasks, interrupting, status, process, breakpoints, oneShots,
                   stepOutBreakpointId, session>>

-----------------------------------------------------------------------------
(* What the debug thread does by itself. *)
RunTask ==
    \/ GoTask \/ StepTask \/ StepOutTask \/ HopTask \/ EndTask
    \/ CreateTask \/ RemoveTask \/ QueryTask \/ FrameTask \/ WaitTask \/ DanglingTask

(* What the target does while the debug thread waits for it. *)
TargetEvent ==
    \/ HitBreakpoint \/ HitException \/ StepComplete \/ ProcessExits
    \/ UnknownEvent \/ ThreadEvent

(* How wait() goes on by itself. *)
WaitStep ==
    \/ ThreadEventContinue \/ WaitForNothing \/ WaitInterrupted
    \/ BreakIn \/ BreakInInterrupted

DebugThread == RunTask \/ TargetEvent \/ WaitStep

-----------------------------------------------------------------------------
(* The calls that are somewhere on their way to an answer. *)
CallOf(q) == {q[i].call : i \in DOMAIN q}
InTasks   == CallOf(tasks)
InReplies == {replies[i].call : i \in {j \in DOMAIN replies : replies[j].op # "thread"}}
InThreads == {dbgThread.call, interrupting} \ {NoCall}
InFlight  == InTasks \union InReplies \union InThreads

-----------------------------------------------------------------------------
(* The runs: a go or a step that succeeded, through to the answer of wait. *)

ResumedReply(i) == replies[i].op \in ResumeOps /\ replies[i].res = "ok"
WaitingTask(i)  == tasks[i].op = "wait"

ReplyInFlight == \E i \in DOMAIN replies : ResumedReply(i)
TaskInFlight  == \E i \in DOMAIN tasks : WaitingTask(i)
RunInFlight   == ReplyInFlight \/ TaskInFlight \/ InWait

(* Of a run in flight there is never a second one, whatever order the      *)
(* callback thread makes its calls in: two waits on one target would take  *)
(* each other's events (DbgEngDriver.run).                                 *)
OneRun ==
    session # "dangling" =>
    /\ \A i, j \in DOMAIN replies : ResumedReply(i) /\ ResumedReply(j) => i = j
    /\ \A i, j \in DOMAIN tasks : WaitingTask(i) /\ WaitingTask(j) => i = j
    /\ ~(ReplyInFlight /\ TaskInFlight)
    /\ InWait => ~ReplyInFlight /\ ~TaskInFlight

(* While a run is in flight the engine is not left at a break, other than  *)
(* inside a thread event: a go, a step or a query made then would act on a *)
(* target the caller believes to be running (DbgEngSession::go, ::step).   *)
RunMeansRunning ==
    session = "live" /\ RunInFlight /\ dbgThread.at # "threadEvent" => Running
=============================================================================
