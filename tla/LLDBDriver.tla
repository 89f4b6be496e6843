------------------------------- MODULE LLDBDriver -------------------------------
(***************************************************************************)
(* The LLDB driver: a callback thread that calls the driver, a debug       *)
(* thread that owns the LLDBContext, and the target behind LLDB.           *)
(*                                                                         *)
(* As in the dbgeng driver two event queues lie between the threads, and   *)
(* interrupt() is called on the engine directly.  Unlike there, a wait     *)
(* takes events from a listener, in which one that was not taken stays     *)
(* for the next wait, and the target may stop while nobody waits.          *)
(*                                                                         *)
(* stop() throws a NotImplementedException and changes nothing: it has no  *)
(* action.  Nor has pause() of a target that is stopped, which answers     *)
(* false before it returns.                                                *)
(***************************************************************************)
EXTENDS Naturals, Sequences

CONSTANTS
    Calls,          \* names of the calls made on the driver
    NoCall,         \* no call
    BpIds,          \* the ids LLDB gives to the breakpoints of the user
    NoBp,           \* no breakpoint
    NumThreads,     \* threads of the target
    EngineFails,    \* may a function of LLDB fail?
    LateStops,      \* whether Stop() leaves its stop event in the listener
    MaxEvents       \* bound on the listener's queue past which no pause is begun

ASSUME CallsAssumption  == NoCall \notin Calls
ASSUME BpsAssumption    == NoBp \notin BpIds
ASSUME ThreadAssumption == NumThreads \in Nat \ {0}
ASSUME FlagsAssumption  == EngineFails \in BOOLEAN /\ LateStops \subseteq BOOLEAN
ASSUME EventsAssumption == MaxEvents \in Nat

VARIABLES
    tasks,          \* dbgThread.events: what the debug thread has still to run
    replies,        \* cbThread.events: what the callback thread has still to run
    dbgThread,      \* where the debug thread is, and the call of its run
    interrupting,   \* the pause whose interrupt() is past its state test
    events,         \* the queue of the listener
    target,         \* GetState
    reasons,        \* GetStopReason of every thread
    breakpoints     \* breakpoints of the target, other than exceptionBreakpoint

lldbVars == <<tasks, replies, dbgThread, interrupting, events, target, reasons, breakpoints>>

engineVars == <<events, target, reasons, breakpoints>>

Threads == 1 .. NumThreads

ResumeOps == {"go", "step"}
TaskOps   == ResumeOps \union {"wait", "hop", "create", "remove", "query"}
Results   == {"ok", "error", "paused", "breakpoint", "exception", "exited"}

(* What GetStopReason tells of a thread: "none" of one that has not caused  *)
(* the stop, "invalid" of every thread while the target runs.               *)
Causes  == BpIds \union {"exceptionBreakpoint", "exception", "other"}
Reasons == Causes \union {"none", "invalid"}

Task  == [op : TaskOps, call : Calls, bp : BpIds \union {NoBp}]
Reply == [op : TaskOps \union {"open"}, call : Calls, res : Results,
          thread : Threads, bp : BpIds \union {NoBp}]

LLDBTypeOK ==
    /\ tasks \in Seq(Task)
    /\ replies \in Seq(Reply)
    /\ dbgThread \in [at : {"opening", "failed", "idle", "wait", "dead"},
                      call : Calls \union {NoCall}]
    /\ (dbgThread.at \in {"failed", "idle"}) <=> (dbgThread.call = NoCall)
    /\ interrupting \in Calls \union {NoCall}
    /\ events \in Seq({"stopped", "exited", "pause"})
    /\ target \in {"stopped", "running", "exited"}
    /\ reasons \in [Threads -> Reasons]
    /\ breakpoints \subseteq BpIds

(* The reasons of a target that does not stand still, and those of a stop, *)
(* which at least one thread has caused.                                   *)
NoReasons == [t \in Threads |-> "invalid"]
StopReasons ==
    {r \in [Threads -> breakpoints \union {"exceptionBreakpoint", "exception", "other", "none"}] :
        \E t \in Threads : r[t] # "none"}

(* The debug thread has been started to create the context. *)
LLDBInit(call) ==
    /\ tasks = <<>>
    /\ replies = <<>>
    /\ dbgThread = [at |-> "opening", call |-> call]
    /\ interrupting = NoCall
    /\ events = <<>>
    /\ target = "exited"
    /\ reasons = NoReasons
    /\ breakpoints = {}

-----------------------------------------------------------------------------
(* The calls, made on the callback thread. *)

(* dbgThread.events.run: everything but a pause posts one task. *)
Post(op, call, bp) ==
    tasks' = Append(tasks, [op |-> op, call |-> call, bp |-> bp])

(* cbThread.events.run: the debug thread answers a call. *)
Answer(op, call, res, thread, bp) ==
    replies' = Append(replies,
        [op |-> op, call |-> call, res |-> res, thread |-> thread, bp |-> bp])

(* interrupt() has read a state other than stopped, and has yet to         *)
(* broadcast.  The debug thread and the target go on meanwhile.            *)
PauseBegin(call) ==
    /\ target # "stopped"
    /\ Len(events) < MaxEvents
    /\ interrupting' = call
    /\ UNCHANGED <<tasks, replies, dbgThread, engineVars>>

(* A mutant of PauseEnd: the pause is answered without the hop. *)
PauseEndAtOnce ==
    /\ interrupting # NoCall
    /\ events' = Append(events, "pause")
    /\ Answer("hop", interrupting, "ok", 1, NoBp)
    /\ interrupting' = NoCall
    /\ UNCHANGED <<tasks, dbgThread, target, reasons, breakpoints>>

(* The broadcast, then the hop over the debug thread that answers true. *)
PauseEnd ==
    /\ interrupting # NoCall
    /\ events' = Append(events, "pause")
    /\ Post("hop", interrupting, NoBp)
    /\ interrupting' = NoCall
    /\ UNCHANGED <<replies, dbgThread, target, reasons, breakpoints>>

-----------------------------------------------------------------------------
(* The tasks, run by the debug thread one at a time and in order. *)

AnswerTask(res, bp) == Answer(Head(tasks).op, Head(tasks).call, res, 1, bp)

Take(ops) ==
    /\ dbgThread.at = "idle"
    /\ tasks # <<>>
    /\ Head(tasks).op \in ops
    /\ tasks' = Tail(tasks)

(* create(): the process is launched and stops at its entry.  When a step  *)
(* of it fails nothing keeps the event loop of the thread alive.           *)
Open ==
    /\ dbgThread.at = "opening"
    /\ \/ /\ target' = "stopped"
          /\ reasons' = [t \in Threads |-> IF t = 1 THEN "other" ELSE "none"]
          /\ events' \in {<<>>, <<"stopped">>}
          /\ dbgThread' = [at |-> "idle", call |-> NoCall]
          /\ Answer("open", dbgThread.call, "ok", 1, NoBp)
       \/ /\ EngineFails
          /\ dbgThread' = [at |-> "failed", call |-> NoCall]
          /\ Answer("open", dbgThread.call, "error", 1, NoBp)
          /\ UNCHANGED <<events, target, reasons>>
    /\ UNCHANGED <<tasks, interrupting, breakpoints>>

Runs == target' = "running" /\ reasons' = NoReasons

(* start() and resume(): a target that is not stopped cannot be continued. *)
GoTask ==
    /\ Take({"go"})
    /\ \/ target = "stopped" /\ Runs /\ AnswerTask("ok", NoBp)
       \/ /\ target # "stopped" \/ EngineFails
          /\ AnswerTask("error", NoBp)
          /\ UNCHANGED <<target, reasons>>
    /\ UNCHANGED <<dbgThread, interrupting, events, breakpoints>>

(* step(): only a thread that does not exist is an error.  Whether LLDB    *)
(* has begun the step is not asked.                                        *)
StepTask ==
    /\ Take({"step"})
    /\ \/ target = "stopped" /\ Runs /\ AnswerTask("ok", NoBp)
       \/ /\ target # "stopped" \/ EngineFails
          /\ \E res \in {"ok", "error"} : AnswerTask(res, NoBp)
          /\ UNCHANGED <<target, reasons>>
    /\ UNCHANGED <<dbgThread, interrupting, events, breakpoints>>

(* The second hop of a pause. *)
HopTask ==
    /\ Take({"hop"})
    /\ AnswerTask("ok", NoBp)
    /\ UNCHANGED <<dbgThread, interrupting, engineVars>>

CreateTask ==
    /\ Take({"create"})
    /\ \/ \E b \in BpIds \ breakpoints :
             breakpoints' = breakpoints \union {b} /\ AnswerTask("ok", b)
       \/ UNCHANGED breakpoints /\ AnswerTask("error", NoBp)
    /\ UNCHANGED <<dbgThread, interrupting, events, target, reasons>>

RemoveTask ==
    /\ Take({"remove"})
    /\ LET b == Head(tasks).bp IN
       \/ /\ b \in breakpoints
          /\ breakpoints' = breakpoints \ {b}
          /\ AnswerTask("ok", b)
       \/ /\ b \notin breakpoints
          /\ AnswerTask("error", b)
          /\ UNCHANGED breakpoints
    /\ UNCHANGED <<dbgThread, interrupting, events, target, reasons>>

(* Frames and threads are read; locals and arguments are not implemented. *)
QueryTask ==
    /\ Take({"query"})
    /\ \E res \in {"ok", "error"} : AnswerTask(res, NoBp)
    /\ UNCHANGED <<dbgThread, interrupting, engineVars>>

(* run(): the debug thread enters wait(). *)
WaitTask ==
    /\ Take({"wait"})
    /\ dbgThread' = [at |-> "wait", call |-> Head(tasks).call]
    /\ UNCHANGED <<replies, interrupting, engineVars>>

-----------------------------------------------------------------------------
(* Inside wait(). *)

TakeEvent(event) ==
    /\ dbgThread.at = "wait"
    /\ events # <<>>
    /\ Head(events) = event

(* Mutants of EndRun: the call of the run is kept, or wait() does not   *)
(* return after its callback.                                              *)
EndRunKeepsCall(res, thread, bp) ==
    /\ dbgThread' = [dbgThread EXCEPT !.at = "idle"]
    /\ Answer("wait", dbgThread.call, res, thread, bp)

EndRunStays(res, thread, bp) ==
    UNCHANGED dbgThread /\ Answer("wait", dbgThread.call, res, thread, bp)

EndRun(res, thread, bp) ==
    /\ dbgThread' = [at |-> "idle", call |-> NoCall]
    /\ Answer("wait", dbgThread.call, res, thread, bp)

(* What is told of the stop of a thread. *)
Report(t) ==
    \/ reasons[t] \in BpIds /\ EndRun("breakpoint", t, reasons[t])
    \/ reasons[t] \in {"exceptionBreakpoint", "exception"} /\ EndRun("exception", t, NoBp)
    \/ reasons[t] \in {"none", "other", "invalid"} /\ EndRun("paused", t, NoBp)

(* A mutant of FirstStopped: the first thread is taken whatever it says. *)
FirstOfAll(t) == t = 1

FirstStopped(t) ==
    /\ reasons[t] # "invalid"
    /\ \A s \in 1 .. (t - 1) : reasons[s] = "invalid"

(* A stop event: the first thread with a valid reason tells what happened. *)
(* There is none when the event is an old one and the target runs.         *)
TakeStopped ==
    /\ TakeEvent("stopped")
    /\ events' = Tail(events)
    /\ \/ \E t \in Threads : FirstStopped(t) /\ Report(t)
       \/ /\ \A t \in Threads : ~FirstStopped(t)
          /\ UNCHANGED <<replies, dbgThread>>
    /\ UNCHANGED <<tasks, interrupting, target, reasons, breakpoints>>

TakeExited ==
    /\ TakeEvent("exited")
    /\ events' = Tail(events)
    /\ EndRun("exited", 1, NoBp)
    /\ UNCHANGED <<tasks, interrupting, target, reasons, breakpoints>>

(* A mutant of TakePause: nothing is done with the event. *)
TakePauseInVain ==
    /\ TakeEvent("pause")
    /\ events' = Tail(events)
    /\ UNCHANGED <<tasks, replies, dbgThread, interrupting, target, reasons, breakpoints>>

(* An interrupt of the user: Stop() brings a running target to a stop,     *)
(* which threads may have caused otherwise, and may leave the event of it  *)
(* to be taken later.  What it says of a target that does not run is not   *)
(* documented.                                                             *)
TakePause ==
    /\ TakeEvent("pause")
    /\ \/ /\ target = "running"
          /\ target' = "stopped"
          /\ reasons' \in StopReasons
          /\ \E late \in LateStops :
                events' = IF late THEN Append(Tail(events), "stopped") ELSE Tail(events)
       \/ /\ target # "running"
          /\ events' = Tail(events)
          /\ UNCHANGED <<target, reasons>>
    /\ EndRun("paused", 1, NoBp)
    /\ UNCHANGED <<tasks, interrupting, breakpoints>>

(* Stop() fails: what is thrown leaves the task, which has no handler, and *)
(* the thread with it.                                                     *)
StopFails ==
    /\ TakeEvent("pause")
    /\ target # "running" \/ EngineFails
    /\ events' = Tail(events)
    /\ dbgThread' = [dbgThread EXCEPT !.at = "dead"]
    /\ UNCHANGED <<tasks, replies, interrupting, target, reasons, breakpoints>>

-----------------------------------------------------------------------------
(* The target, which runs whether or not it is waited for. *)

TargetStops ==
    /\ target = "running"
    /\ target' = "stopped"
    /\ reasons' \in StopReasons
    /\ events' = Append(events, "stopped")
    /\ UNCHANGED <<tasks, replies, dbgThread, interrupting, breakpoints>>

TargetExits ==
    /\ target = "running"
    /\ target' = "exited"
    /\ events' = Append(events, "exited")
    /\ UNCHANGED <<tasks, replies, dbgThread, interrupting, reasons, breakpoints>>

RunTask ==
    \/ Open \/ GoTask \/ StepTask \/ HopTask \/ CreateTask \/ RemoveTask
    \/ QueryTask \/ WaitTask

WaitStep == TakeStopped \/ TakeExited \/ TakePause \/ StopFails

Engine == RunTask \/ WaitStep \/ TargetStops \/ TargetExits
=============================================================================
