------------------------------ MODULE DriverClient ------------------------------
(***************************************************************************)
(* The dbgeng driver under any client: the callback thread may make any    *)
(* call at any time, as often as it has names for calls.  As every caller  *)
(* in the repository does, it runs the target as soon as a go or a step is *)
(* answered with success.  The clients of the repository are more careful, *)
(* so what holds here holds of each of them.                               *)
(***************************************************************************)
EXTENDS DbgEngDriver

VARIABLE outstanding    \* the calls made and not yet answered

vars == <<driverVars, outstanding>>

TypeOK == DriverTypeOK /\ outstanding \subseteq Calls

Init == DriverInit /\ outstanding = {}

-----------------------------------------------------------------------------
(* The callback thread is free unless it is inside interrupt(). *)
Free == interrupting = NoCall

(* start, resume, step, stop, create, remove, getFrame, getVariables: one  *)
(* task for the debug thread, answered later, when no name but those of    *)
(* `pending` is in use.                                                    *)
Call(pending) ==
    \E call \in Calls \ pending :
        /\ outstanding' = pending \union {call}
        /\ \/ \E op \in ResumeOps \union {"end", "create", "query", "frame"} : Post(op, call, NoBp)
           \/ \E b \in BpIds : Post("remove", call, b)

MakeCall ==
    /\ Free
    /\ Call(outstanding)
    /\ UNCHANGED <<replies, dbgThread, interrupting, engineVars, session>>

ListThreads ==
    /\ Free
    /\ \E call \in Calls \ outstanding :
          /\ outstanding' = outstanding \union {call}
          /\ GetThreads(call)

(* pause() of a target that is at a break is answered before it returns. *)
PauseAnswered == Free /\ PauseStopped /\ UNCHANGED outstanding

(* pause() of a target that is not at a break. *)
Pause ==
    /\ Free
    /\ \E call \in Calls \ outstanding :
          /\ outstanding' = outstanding \union {call}
          /\ PauseBegin(call)

(* The interrupt is set: the answer will come over the debug thread. *)
PauseIssued == PauseEnd /\ UNCHANGED outstanding

(* The interrupt cannot be set: pause() answers before it returns. *)
PauseRefused == PauseFails /\ outstanding' = outstanding \ {interrupting}

(* The callback thread runs the head of its queue.  A go or a step that    *)
(* succeeded is followed by its run.  Any other callback is done with, and *)
(* may call the driver again before it returns; that of a thread event     *)
(* answers nothing.                                                        *)
Deliver ==
    /\ Free
    /\ replies # <<>>
    /\ replies' = Tail(replies)
    /\ LET r    == Head(replies)
           rest == outstanding \ {r.call}
       IN IF r.op \in ResumeOps /\ r.res = "ok"
          THEN Post("wait", r.call, NoBp) /\ UNCHANGED outstanding
          ELSE (outstanding' = rest /\ UNCHANGED tasks) \/ Call(rest)
    /\ UNCHANGED <<dbgThread, interrupting, engineVars, session>>

CallbackThread ==
    MakeCall \/ ListThreads \/ Pause \/ PauseAnswered \/ PauseIssued \/ PauseRefused \/ Deliver

Next == CallbackThread \/ (DebugThread /\ UNCHANGED outstanding)

Spec == Init /\ [][Next]_vars

-----------------------------------------------------------------------------
(* No callback is lost and none is invoked twice: every call not yet       *)
(* answered is in exactly one place, and only such calls are anywhere      *)
(* (the nested waits of DbgEngDriver.run share one callback).              *)
EveryCallOnce ==
    /\ outstanding = InFlight
    /\ InTasks \intersect InReplies = {}
    /\ (InTasks \union InReplies) \intersect InThreads = {}
    /\ dbgThread.call = interrupting => interrupting = NoCall
    /\ \A i, j \in DOMAIN tasks : tasks[i].call = tasks[j].call => i = j
    /\ \A i, j \in DOMAIN replies :
          /\ replies[i].op # "thread" /\ replies[j].op # "thread"
          /\ replies[i].call = replies[j].call
          => i = j

(* The calls that run the target: from the go or the step that succeeded   *)
(* to the end of its wait.                                                 *)
RunCalls ==
    {replies[i].call : i \in {j \in DOMAIN replies : ResumedReply(j)}}
    \union {tasks[i].call : i \in {j \in DOMAIN tasks : WaitingTask(j)}}
    \union {call \in {dbgThread.call} : InWait}

Abstract == INSTANCE Driver WITH asked <- outstanding, runs <- RunCalls

(* Whatever the client does, the driver does what Driver promises, until a *)
(* task touches the session that stop() has destroyed: a run is begun only *)
(* when there is none, and answered only when it has ended.                *)
ImplementsDriver == [][Abstract!Next \/ session' = "dangling"]_(Abstract!vars)
=============================================================================
