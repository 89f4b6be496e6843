------------------------------- MODULE LLDBClient -------------------------------
(***************************************************************************)
(* The LLDB driver under a careful client: it starts, resumes or steps the *)
(* target only when none of its calls is open, as the command line         *)
(* interface does, and pauses only a run it has posted the wait of.        *)
(***************************************************************************)
EXTENDS LLDBDriver

CONSTANT ClientOps      \* what the client does

ASSUME OpsAssumption ==
    ClientOps \subseteq {"go", "step", "pause", "create", "remove", "query"}

VARIABLE outstanding    \* the calls made and not yet answered

vars == <<lldbVars, outstanding>>

TypeOK == LLDBTypeOK /\ outstanding \subseteq Calls

(* The client has asked for a driver and waits for it. *)
Init == \E call \in Calls : LLDBInit(call) /\ outstanding = {call}

-----------------------------------------------------------------------------
CallOf(q)  == {q[i].call : i \in DOMAIN q}
Answered(op) == \E i \in DOMAIN replies : replies[i].op = op
Queued(op)   == \E i \in DOMAIN tasks : tasks[i].op = op

(* The callback thread is free unless it is inside interrupt(), and has a  *)
(* driver once the answer of create has been delivered with success.       *)
Free ==
    /\ interrupting = NoCall
    /\ dbgThread.at \notin {"opening", "failed"} /\ ~Answered("open")

(* No resume is on its way to its run. *)
Settled == \A op \in ResumeOps : ~Answered(op) /\ ~Queued(op)

(* A call of its name, of those the client makes. *)
New(op, call) ==
    /\ op \in ClientOps
    /\ Free
    /\ call \in Calls \ outstanding
    /\ outstanding' = outstanding \union {call}

MakeRun ==
    \E op \in ResumeOps, call \in Calls :
        /\ outstanding = {}
        /\ New(op, call)
        /\ Post(op, call, NoBp)
        /\ UNCHANGED <<replies, dbgThread, interrupting, engineVars>>

MakeCall ==
    \E call \in Calls :
        /\ \/ \E op \in {"create", "query"} : New(op, call) /\ Post(op, call, NoBp)
           \/ \E b \in BpIds : New("remove", call) /\ Post("remove", call, b)
        /\ UNCHANGED <<replies, dbgThread, interrupting, engineVars>>

Pause == \E call \in Calls : Settled /\ New("pause", call) /\ PauseBegin(call)

PauseIssued == PauseEnd /\ UNCHANGED outstanding

(* The callback thread runs the head of its queue: a start, a resume or a  *)
(* step that succeeded is followed by its run.                             *)
Deliver ==
    /\ interrupting = NoCall
    /\ replies # <<>>
    /\ replies' = Tail(replies)
    /\ LET r == Head(replies)
       IN IF r.op \in ResumeOps /\ r.res = "ok"
          THEN Post("wait", r.call, NoBp) /\ UNCHANGED outstanding
          ELSE outstanding' = outstanding \ {r.call} /\ UNCHANGED tasks
    /\ UNCHANGED <<dbgThread, interrupting, engineVars>>

DebugThread == (RunTask \/ WaitStep) /\ UNCHANGED outstanding

TargetActs == (TargetStops \/ TargetExits) /\ UNCHANGED outstanding

Next ==
    \/ MakeRun \/ MakeCall \/ Pause \/ PauseIssued \/ Deliver
    \/ DebugThread \/ TargetActs

(* Both threads run what is in their queues, and a wait that has an event  *)
(* takes it.  The target need not stop.                                    *)
Fairness ==
    /\ WF_vars(Deliver) /\ WF_vars(PauseIssued) /\ WF_vars(DebugThread)

Spec == Init /\ [][Next]_vars /\ Fairness

-----------------------------------------------------------------------------
(* What a run is told of its target is still true when it is told: a stop  *)
(* that is reported has not been run away from, the breakpoint it names is *)
(* one a thread stands at, and an exit has happened, although stop events  *)
(* of earlier runs stay in the listener (LLDBContext::wait).               *)
ReportsAreTrue ==
    \A i \in DOMAIN replies :
        LET r == replies[i] IN
        r.op = "wait" =>
            /\ target # "running"
            /\ r.res = "breakpoint" => reasons[r.thread] = r.bp
            /\ r.res = "exception" => reasons[r.thread] \in {"exceptionBreakpoint", "exception"}
            /\ r.res = "exited" => target = "exited"

(* Every call is in exactly one place until it is answered: no callback is *)
(* lost, other than that of a run whose debug thread has died, and none is *)
(* invoked twice.                                                          *)
EveryCallOnce ==
    LET InThreads == {dbgThread.call, interrupting} \ {NoCall}
        InQueues  == CallOf(tasks) \union CallOf(replies)
    IN /\ outstanding = InQueues \union InThreads
       /\ CallOf(tasks) \intersect CallOf(replies) = {}
       /\ InQueues \intersect InThreads = {}
       /\ dbgThread.call = interrupting => interrupting = NoCall
       /\ \A q \in {tasks, replies} : \A i, j \in DOMAIN q : q[i].call = q[j].call => i = j

(* A pause that is answered with true finds the target stopped: its hop is *)
(* behind the wait of the run (LLDBDriver.pause).                          *)
PauseAnsweredStopped == Answered("hop") => target # "running"

(* A pause that was broadcast to a run brings the target to a stop, unless *)
(* Stop() fails and takes the debug thread with it.                        *)
PauseStops ==
    (\E i \in DOMAIN events : events[i] = "pause")
        ~> (target # "running" \/ dbgThread.at = "dead")

(* A run that is answered with a pause nobody asked for has not stopped at *)
(* a breakpoint or for an exception: those are reported for what they are  *)
(* (stated of runs of a client that does not pause).                       *)
StopsReported ==
    \A i \in DOMAIN replies :
        replies[i].op = "wait" /\ replies[i].res = "paused"
        => \A t \in Threads : reasons[t] \in {"none", "other"}

(* The calls that run the target: from the go or the step that succeeded   *)
(* to the end of its wait.                                                 *)
RunCalls ==
    {replies[i].call : i \in {j \in DOMAIN replies :
                              replies[j].op \in ResumeOps /\ replies[j].res = "ok"}}
    \union {tasks[i].call : i \in {j \in DOMAIN tasks : tasks[j].op = "wait"}}
    \union (IF dbgThread.at \in {"wait", "dead"} THEN {dbgThread.call} ELSE {})

Abstract == INSTANCE Driver WITH asked <- outstanding, runs <- RunCalls

(* Whatever the client does, the driver does what Driver promises: the     *)
(* first call is that for the driver itself, and a call makes or ends at   *)
(* most one run.                                                           *)
ImplementsDriver == [][Abstract!Next]_(Abstract!vars)
=============================================================================
