--------------------------- MODULE DriverClientProofs ---------------------------
(***************************************************************************)
(* Proofs about the dbgeng driver under any client, for any sets of calls  *)
(* and breakpoints and whatever the engine does with its failures and its  *)
(* interrupts: type correctness, one run at a time and a run only of a     *)
(* target that runs, a call in one place until it is answered, and what    *)
(* Driver promises of its calls and its runs.                              *)
(***************************************************************************)
EXTENDS DriverClient, DbgEngDriverProofs

(* The client's record of its calls is what is in flight. *)
ClientInv == DriverInv /\ outstanding = InFlight /\ outstanding \subseteq Calls

(* What the client does is what a caller may do. *)
LEMMA ClientIsCaller ==
    ASSUME ClientInv, CallbackThread
    PROVE  Caller /\ outstanding' = InFlight' /\ outstanding' \subseteq Calls
  <1> USE DEF Free
  <1>1. DriverOnce
    BY DEF ClientInv, DriverInv, DriverRuns, DriverOnce
  <1>2. ASSUME NEW pending, Call(pending)
        PROVE  \E call \in Calls \ pending : NewCall(call) /\ outstanding' = pending \union {call}
    BY <1>2 DEF Call, NewCall, CallOps
  <1>3. CASE MakeCall
    <2>1. PICK call : Calling(call) /\ outstanding' = outstanding \union {call}
      BY <1>2, <1>3 DEF MakeCall, Calling, ClientInv
    <2> QED
      BY <1>1, <2>1, OnceCaller DEF Caller, ClientInv, Calling
  <1>4. CASE ListThreads
    <2>1. PICK call : Listing(call) /\ outstanding' = outstanding \union {call}
      BY <1>4 DEF ListThreads, Listing, ClientInv
    <2> QED
      BY <1>1, <2>1, OnceCaller DEF Caller, ClientInv, Listing
  <1>5. CASE Pause
    <2>1. PICK call : Pausing(call) /\ outstanding' = outstanding \union {call}
      BY <1>5 DEF Pause, Pausing, ClientInv
    <2> QED
      BY <1>1, <2>1, OnceCaller DEF Caller, ClientInv, Pausing
  <1>6. CASE PauseIssued
    BY <1>1, <1>6, OnceCaller DEF PauseIssued, Caller, ClientInv
  <1>7. CASE PauseRefused
    BY <1>1, <1>7, OnceCaller DEF PauseRefused, Caller, ClientInv
  <1>9. CASE PauseAnswered
    BY <1>1, <1>9, OnceCaller DEF PauseAnswered, Caller, ClientInv
  <1>8. CASE Deliver
    <2>1. Taking /\ UNCHANGED <<dbgThread, interrupting, engineVars, session>>
      BY <1>8 DEF Deliver, Taking
    <2>2. CASE Resuming
      <3>1. RunsOn /\ UNCHANGED outstanding
        BY <1>8, <2>1, <2>2 DEF Deliver, RunsOn, Resuming
      <3> QED
        BY <1>1, <3>1, OnceCaller DEF Caller, ClientInv
    <2>3. CASE ~Resuming
      <3>1. \/ outstanding' = outstanding \ {Head(replies).call} /\ UNCHANGED tasks
            \/ Call(outstanding \ {Head(replies).call})
        BY <1>8, <2>3 DEF Deliver, Resuming
      <3>2. CASE outstanding' = outstanding \ {Head(replies).call} /\ UNCHANGED tasks
        <4>1. Done
          BY <2>1, <2>3, <3>2 DEF Done
        <4> QED
          BY <1>1, <3>2, <4>1, OnceCaller DEF Caller, ClientInv
      <3>3. CASE Call(outstanding \ {Head(replies).call})
        <4>1. PICK call \in Calls :
                 GoesOn(call) /\ outstanding' = (outstanding \ {Head(replies).call}) \union {call}
          BY <1>2, <2>1, <2>3, <3>3 DEF GoesOn, ClientInv
        <4> QED
          BY <1>1, <4>1, OnceCaller DEF Caller, ClientInv
      <3> QED
        BY <3>1, <3>2, <3>3
    <2> QED
      BY <2>2, <2>3
  <1> QED
    BY <1>3, <1>4, <1>5, <1>6, <1>7, <1>8, <1>9 DEF CallbackThread

(* The inductive invariant: the runs and the calls need the types, the     *)
(* runs need each other, and a call is in one place because its name was   *)
(* free when it was made.                                                  *)
THEOREM ClientCorrect == Spec => []ClientInv
  <1>1. Init => ClientInv
    BY DriverBegins DEF Init, ClientInv
  <1>2. ClientInv /\ [Next]_vars => ClientInv'
    <2> SUFFICES ASSUME ClientInv, [Next]_vars PROVE ClientInv'
      OBVIOUS
    <2>1. CASE CallbackThread
      BY <2>1, ClientIsCaller, CallerKeeps DEF ClientInv
    <2>2. CASE DebugThread /\ UNCHANGED outstanding
      BY <2>2, DebugThreadKeeps DEF ClientInv
    <2>3. CASE UNCHANGED vars
      BY <2>3, DriverUnchanged DEF vars, ClientInv
    <2> QED
      BY <2>1, <2>2, <2>3 DEF Next
  <1> QED
    BY <1>1, <1>2, PTL DEF Spec

(* The module's type invariant: the two queues, the debug thread and the   *)
(* engine always have the shapes the code gives them, and the debug thread *)
(* has the callback of a run exactly while it is inside one.               *)
THEOREM TypeCorrect == Spec => []TypeOK
  <1>1. ClientInv => TypeOK
    BY DEF ClientInv, DriverInv, DriverRuns, TypeOK
  <1> QED
    BY <1>1, ClientCorrect, PTL

(* There is never a second run (OneRun), for any sets of calls and         *)
(* breakpoints.                                                            *)
THEOREM RunsNeverOverlap == Spec => []OneRun
  <1>1. ClientInv => OneRun
    BY DEF ClientInv, DriverInv, DriverRuns
  <1> QED
    BY <1>1, ClientCorrect, PTL

(* While a run is in flight the engine is not left at a break              *)
(* (RunMeansRunning).                                                      *)
THEOREM RunsOnlyWhileRunning == Spec => []RunMeansRunning
  <1>1. ClientInv => RunMeansRunning
    BY DEF ClientInv, DriverInv, DriverRuns
  <1> QED
    BY <1>1, ClientCorrect, PTL

(* No callback is lost and none is invoked twice (EveryCallOnce), for any  *)
(* sets of calls and breakpoints.                                          *)
THEOREM CallsOnce == Spec => []EveryCallOnce
  <1>1. ClientInv => EveryCallOnce
    <2>1. InThreads = InDebug \union InInterrupt
      BY DEF InThreads, InDebug, InInterrupt
    <2>2. InDebug \intersect InInterrupt = {}
          <=> (dbgThread.call = interrupting => interrupting = NoCall)
      BY DEF InDebug, InInterrupt
    <2> QED
      BY <2>1, <2>2
         DEF ClientInv, DriverInv, Apart, OnceInTasks, OnceInReplies, EveryCallOnce
  <1> QED
    BY <1>1, ClientCorrect, PTL

-----------------------------------------------------------------------------
(* The refinement.  The runs of Driver are the tokens of OneRun: they are  *)
(* followed from queue to queue, as the calls were.                        *)

(* Where the debug thread is, dbgThread.at alone tells. *)
USE DEF InWait

InReplyRuns == {replies[i].call : i \in {j \in DOMAIN replies : ResumedReply(j)}}
InTaskRuns  == {tasks[i].call : i \in {j \in DOMAIN tasks : WaitingTask(j)}}
InWaitRuns  == {call \in {dbgThread.call} : InWait}

(* RunCalls and RunInFlight in these words. *)
LEMMA RunCallsAre ==
    /\ RunCalls = InReplyRuns \union InTaskRuns \union InWaitRuns
    /\ InReplyRuns # {} <=> ReplyInFlight
    /\ InTaskRuns # {} <=> TaskInFlight
    /\ InWaitRuns # {} <=> InWait
    /\ InTaskRuns \subseteq InTasks
  BY DEF RunCalls, InReplyRuns, InTaskRuns, InWaitRuns, ReplyInFlight, TaskInFlight,
         InTasks, CallOf

(* The replies that start a run are no thread events. *)
LEMMA ReplyRunsIn == InReplyRuns \subseteq InReplies
  BY DEF InReplyRuns, InReplies, ResumedReply, ResumeOps, StepOps

(* A post is a run's only if it is a wait. *)
LEMMA PostRuns ==
    ASSUME DriverTypeOK, NEW op, NEW call, NEW bp, Post(op, call, bp)
    PROVE  InTaskRuns' = IF op = "wait" THEN InTaskRuns \union {call} ELSE InTaskRuns
  <1> DEFINE n == Len(tasks) + 1
  <1>1. /\ DOMAIN tasks = 1 .. Len(tasks)
        /\ DOMAIN tasks' = 1 .. Len(tasks) + 1
        /\ \A i \in 1 .. Len(tasks) : tasks'[i] = tasks[i]
        /\ tasks'[n].call = call /\ tasks'[n].op = op
        /\ Len(tasks) \in Nat
    BY DEF Post, DriverTypeOK
  <1>2. DOMAIN tasks' = DOMAIN tasks \union {n} /\ n \notin DOMAIN tasks
    BY <1>1
  <1>3. \A i \in DOMAIN tasks : tasks'[i] = tasks[i]
    BY <1>1
  <1> HIDE DEF n
  <1> QED
    BY <1>1, <1>2, <1>3 DEF InTaskRuns, WaitingTask

(* Taking a task takes a run only with a wait. *)
LEMMA TakeRuns ==
    ASSUME DriverTypeOK, NEW ops, Take(ops)
    PROVE  InTaskRuns = IF Head(tasks).op = "wait" THEN InTaskRuns' \union {Head(tasks).call}
                        ELSE InTaskRuns'
  <1>1. /\ DOMAIN tasks = 1 .. Len(tasks)
        /\ DOMAIN tasks' = 1 .. Len(tasks) - 1
        /\ \A i \in 1 .. Len(tasks) - 1 : tasks'[i] = tasks[i + 1]
        /\ Head(tasks) = tasks[1]
        /\ Len(tasks) \in Nat \ {0}
    BY DEF Take, DriverTypeOK
  <1>2. \A i \in DOMAIN tasks' : i + 1 \in DOMAIN tasks \ {1} /\ tasks'[i] = tasks[i + 1]
    BY <1>1
  <1>3. \A i \in DOMAIN tasks \ {1} : i - 1 \in DOMAIN tasks' /\ tasks'[i - 1] = tasks[i]
    BY <1>1
  <1>4. 1 \in DOMAIN tasks
    BY <1>1
  <1>5. InTaskRuns' \subseteq InTaskRuns
    BY <1>2 DEF InTaskRuns, WaitingTask
  <1>6. Head(tasks).op = "wait" => Head(tasks).call \in InTaskRuns
    BY <1>1, <1>4 DEF InTaskRuns, WaitingTask
  <1>7. ASSUME NEW call \in InTaskRuns
        PROVE  call \in InTaskRuns' \/ (Head(tasks).op = "wait" /\ call = Head(tasks).call)
    <2>1. PICK i \in DOMAIN tasks : tasks[i].op = "wait" /\ tasks[i].call = call
      BY DEF InTaskRuns, WaitingTask
    <2>2. CASE i = 1
      BY <1>1, <2>1, <2>2
    <2>3. CASE i # 1
      BY <1>3, <2>1, <2>3 DEF InTaskRuns, WaitingTask
    <2> QED
      BY <2>2, <2>3
  <1> QED
    BY <1>5, <1>6, <1>7

(* An answer is a run's only if it is the success of a go or a step. *)
LEMMA AnswerRuns ==
    ASSUME DriverTypeOK, NEW op, NEW call, NEW res, NEW bp, Answer(op, call, res, bp)
    PROVE  InReplyRuns' = IF op \in ResumeOps /\ res = "ok" THEN InReplyRuns \union {call}
                          ELSE InReplyRuns
  <1> DEFINE n == Len(replies) + 1
  <1>1. /\ DOMAIN replies = 1 .. Len(replies)
        /\ DOMAIN replies' = 1 .. Len(replies) + 1
        /\ \A i \in 1 .. Len(replies) : replies'[i] = replies[i]
        /\ replies'[n].call = call /\ replies'[n].op = op /\ replies'[n].res = res
        /\ Len(replies) \in Nat
    BY DEF Answer, DriverTypeOK
  <1>2. DOMAIN replies' = DOMAIN replies \union {n} /\ n \notin DOMAIN replies
    BY <1>1
  <1>3. \A i \in DOMAIN replies : replies'[i] = replies[i]
    BY <1>1
  <1> HIDE DEF n
  <1> QED
    BY <1>1, <1>2, <1>3 DEF InReplyRuns, ResumedReply

(* Delivering a reply takes a run only with the success of a go or a step. *)
LEMMA DeliverRuns ==
    ASSUME DriverTypeOK, replies # <<>>, replies' = Tail(replies)
    PROVE  InReplyRuns = IF Head(replies).op \in ResumeOps /\ Head(replies).res = "ok"
                         THEN InReplyRuns' \union {Head(replies).call} ELSE InReplyRuns'
  <1>1. /\ DOMAIN replies = 1 .. Len(replies)
        /\ DOMAIN replies' = 1 .. Len(replies) - 1
        /\ \A i \in 1 .. Len(replies) - 1 : replies'[i] = replies[i + 1]
        /\ Head(replies) = replies[1]
        /\ Len(replies) \in Nat \ {0}
    BY DEF DriverTypeOK
  <1>2. \A i \in DOMAIN replies' : i + 1 \in DOMAIN replies \ {1} /\ replies'[i] = replies[i + 1]
    BY <1>1
  <1>3. \A i \in DOMAIN replies \ {1} : i - 1 \in DOMAIN replies' /\ replies'[i - 1] = replies[i]
    BY <1>1
  <1>4. 1 \in DOMAIN replies
    BY <1>1
  <1> DEFINE R(reply) == reply.op \in ResumeOps /\ reply.res = "ok"
  <1>5. InReplyRuns' \subseteq InReplyRuns
    BY <1>2 DEF InReplyRuns, ResumedReply
  <1>6. R(Head(replies)) => Head(replies).call \in InReplyRuns
    BY <1>1, <1>4 DEF InReplyRuns, ResumedReply
  <1>7. ASSUME NEW call \in InReplyRuns
        PROVE  call \in InReplyRuns' \/ (R(Head(replies)) /\ call = Head(replies).call)
    <2>1. PICK i \in DOMAIN replies : R(replies[i]) /\ replies[i].call = call
      BY DEF InReplyRuns, ResumedReply
    <2>2. CASE i = 1
      BY <1>1, <2>1, <2>2
    <2>3. CASE i # 1
      BY <1>3, <2>1, <2>3 DEF InReplyRuns, ResumedReply
    <2> QED
      BY <2>2, <2>3
  <1> QED
    BY <1>5, <1>6, <1>7

(* What does not change keeps its runs. *)
LEMMA SameRuns ==
    /\ UNCHANGED tasks => InTaskRuns' = InTaskRuns
    /\ UNCHANGED replies => InReplyRuns' = InReplyRuns
    /\ UNCHANGED dbgThread => InWaitRuns' = InWaitRuns
  BY DEF InTaskRuns, WaitingTask, InReplyRuns, ResumedReply, InWaitRuns

-----------------------------------------------------------------------------
(* The steps of the driver as steps of Driver. *)

(* A step that changes neither calls nor runs is none of Driver's. *)
Unseen == UNCHANGED outstanding /\ RunCalls' = RunCalls

(* The end of a run: what Driver calls End. *)
LEMMA EndRunEnds ==
    ASSUME ClientInv, session # "dangling", InWait, NEW res, NEW bp, EndRun(res, bp),
           UNCHANGED <<tasks, outstanding>>
    PROVE  Abstract!End
  <1>1. InReplyRuns = {} /\ InTaskRuns = {} /\ InWaitRuns # {}
    BY RunCallsAre DEF ClientInv, DriverInv, DriverRuns, OneRun
  <1>2. InReplyRuns' = InReplyRuns
    BY AnswerRuns DEF EndRun, ResumeOps, StepOps, ClientInv, DriverInv, DriverRuns
  <1>3. InTaskRuns' = InTaskRuns /\ InWaitRuns' = {}
    BY SameRuns DEF EndRun, InWaitRuns
  <1>4. RunCalls' = InReplyRuns' \union InTaskRuns' \union InWaitRuns'
    BY DEF RunCalls, InReplyRuns, InTaskRuns, InWaitRuns
  <1> QED
    BY <1>1, <1>2, <1>3, <1>4, RunCallsAre DEF Abstract!End

(* A task that starts no run and is no wait. *)
LEMMA QuietTaskUnseen ==
    ASSUME ClientInv, NEW ops, Take(ops), NEW res, NEW bp, AnswerTask(res, bp),
           ~(Head(tasks).op \in ResumeOps /\ res = "ok"), Head(tasks).op # "wait",
           UNCHANGED <<dbgThread, outstanding>>
    PROVE  Unseen
  <1>1. InReplyRuns' = InReplyRuns
    BY AnswerRuns DEF AnswerTask, ClientInv, DriverInv, DriverRuns
  <1>2. InTaskRuns' = InTaskRuns /\ InWaitRuns' = InWaitRuns
    BY TakeRuns, SameRuns DEF ClientInv, DriverInv, DriverRuns
  <1> QED
    BY <1>1, <1>2 DEF Unseen, RunCalls, InReplyRuns, InTaskRuns, InWaitRuns

(* A go or a step that succeeds: what Driver calls Begin. *)
LEMMA ResumingTaskBegins ==
    ASSUME ClientInv, session = "live", NEW ops, Take(ops), NEW bp, AnswerTask("ok", bp),
           Head(tasks).op \in ResumeOps, status = "break",
           UNCHANGED <<dbgThread, outstanding>>
    PROVE  Abstract!Begin
  <1>1. dbgThread.at = "idle" /\ Head(tasks).op # "wait"
    BY DEF Take, ResumeOps, StepOps
  <1>2. ~RunInFlight
    BY <1>1 DEF ClientInv, DriverInv, DriverRuns, RunMeansRunning, Running
  <1>3. InReplyRuns = {} /\ InTaskRuns = {} /\ InWaitRuns = {}
    BY <1>2, RunCallsAre DEF RunInFlight
  <1>4. InReplyRuns' = {Head(tasks).call}
    BY <1>3, AnswerRuns DEF AnswerTask, ClientInv, DriverInv, DriverRuns
  <1>5. InTaskRuns' = {} /\ InWaitRuns' = {}
    BY <1>1, <1>3, TakeRuns, SameRuns DEF ClientInv, DriverInv, DriverRuns
  <1>6. RunCalls' = {Head(tasks).call}
    BY <1>4, <1>5 DEF RunCalls, InReplyRuns, InTaskRuns, InWaitRuns
  <1>7. Head(tasks).call \in outstanding
    BY TakePlaces, FlightIs DEF ClientInv, DriverInv, DriverRuns
  <1> QED
    BY <1>3, <1>6, <1>7, RunCallsAre DEF Abstract!Begin

(* Every task but one of the destroyed session is Begin or is not seen. *)
LEMMA RunTaskRefines ==
    ASSUME ClientInv, RunTask, UNCHANGED outstanding, session' # "dangling"
    PROVE  Abstract!Begin \/ Unseen
  <1> USE DEF TakeLive
  <1>1. \A op \in ResumeOps : op # "wait"
    BY DEF ResumeOps, StepOps
  <1>2. CASE GoTask
    <2>1. session = "live" /\ Take({"go"}) /\ UNCHANGED <<dbgThread, outstanding>>
      BY <1>2 DEF GoTask
    <2>2. Head(tasks).op \in ResumeOps
      BY <2>1 DEF Take, ResumeOps
    <2> QED
      BY <1>1, <1>2, <2>1, <2>2, QuietTaskUnseen, ResumingTaskBegins DEF GoTask
  <1>3. CASE StepTask
    <2>1. session = "live" /\ Take({"stepInto", "stepOver"}) /\ UNCHANGED <<dbgThread, outstanding>>
      BY <1>3 DEF StepTask
    <2>2. Head(tasks).op \in ResumeOps
      BY <2>1 DEF Take, ResumeOps, StepOps
    <2> QED
      BY <1>1, <1>3, <2>1, <2>2, QuietTaskUnseen, ResumingTaskBegins DEF StepTask
  <1>4. CASE StepOutTask
    <2>1. session = "live" /\ Take({"stepOut"}) /\ UNCHANGED <<dbgThread, outstanding>>
      BY <1>4 DEF StepOutTask
    <2>2. Head(tasks).op \in ResumeOps
      BY <2>1 DEF Take, ResumeOps, StepOps
    <2>3. \/ status = "break" /\ AnswerTask("ok", NoBp)
          \/ AnswerTask("error", NoBp)
      BY <1>4 DEF StepOutTask
    <2> QED
      BY <1>1, <2>1, <2>2, <2>3, QuietTaskUnseen, ResumingTaskBegins
  <1>5. ASSUME NEW ops, Take(ops), ops \intersect (ResumeOps \union {"wait"}) = {},
               NEW res, NEW bp, AnswerTask(res, bp), UNCHANGED dbgThread
        PROVE  Unseen
    <2>1. Head(tasks).op \notin ResumeOps /\ Head(tasks).op # "wait"
      BY <1>5 DEF Take
    <2> QED
      BY <1>5, <2>1, QuietTaskUnseen
  <1>6. \A op \in {"hop", "end", "create", "remove", "query", "frame"} :
           {op} \intersect (ResumeOps \union {"wait"}) = {}
    BY DEF ResumeOps, StepOps
  <1>7. CASE HopTask
    BY <1>5, <1>6, <1>7 DEF HopTask
  <1>8. CASE EndTask
    BY <1>5, <1>6, <1>8 DEF EndTask
  <1>9. CASE CreateTask
    BY <1>5, <1>6, <1>9 DEF CreateTask
  <1>10. CASE RemoveTask
    BY <1>5, <1>6, <1>10 DEF RemoveTask
  <1>11. CASE QueryTask
    BY <1>5, <1>6, <1>11 DEF QueryTask
  <1>12. CASE FrameTask
    <2>1. CASE AnswerTask("ok", NoBp) /\ UNCHANGED dbgThread
      BY <1>5, <1>6, <1>12, <2>1 DEF FrameTask
    <2>2. CASE ~(AnswerTask("ok", NoBp) /\ UNCHANGED dbgThread)
      <3>1. /\ dbgThread.at = "idle" /\ dbgThread'.at = "dead"
            /\ Take({"frame"}) /\ UNCHANGED replies
        BY <1>12, <2>2 DEF FrameTask, Take
      <3>2. InTaskRuns' = InTaskRuns
        BY <3>1, TakeRuns DEF Take, ClientInv, DriverInv, DriverRuns
      <3>3. InReplyRuns' = InReplyRuns /\ InWaitRuns = {} /\ InWaitRuns' = {}
        BY <3>1, SameRuns DEF InWaitRuns
      <3> QED
        BY <3>2, <3>3 DEF Unseen, RunCalls, InReplyRuns, InTaskRuns, InWaitRuns
    <2> QED
      BY <2>1, <2>2
  <1>13. CASE WaitTask
    <2>1. /\ session = "live" /\ Take({"wait"}) /\ Head(tasks).op = "wait"
          /\ dbgThread.at = "idle" /\ dbgThread' = [at |-> "wait", call |-> Head(tasks).call]
          /\ UNCHANGED replies
      BY <1>13 DEF WaitTask, Take
    <2>2. InTaskRuns = InTaskRuns' \union {Head(tasks).call}
      BY <2>1, TakeRuns DEF ClientInv, DriverInv, DriverRuns
    <2>3. InWaitRuns = {} /\ InWaitRuns' = {Head(tasks).call}
      BY <2>1 DEF InWaitRuns
    <2>4. InReplyRuns' = InReplyRuns
      BY <2>1, SameRuns
    <2> QED
      BY <2>2, <2>3, <2>4 DEF Unseen, RunCalls, InReplyRuns, InTaskRuns, InWaitRuns
  <1>14. CASE DanglingTask
    BY <1>14 DEF DanglingTask
  <1> QED
    BY <1>2, <1>3, <1>4, <1>7, <1>8, <1>9, <1>10, <1>11, <1>12, <1>13, <1>14 DEF RunTask

(* Every event of the target and every step of wait() is End or not seen. *)
LEMMA WaitRefines ==
    ASSUME ClientInv, TargetEvent \/ WaitStep, UNCHANGED outstanding, session # "dangling"
    PROVE  Abstract!End \/ Unseen
  <1> USE DEF Waiting
  <1>1. DriverTypeOK
    BY DEF ClientInv, DriverInv, DriverRuns
  <1>2. ASSUME InWait, InWait', dbgThread'.call = dbgThread.call,
               UNCHANGED tasks, InReplyRuns' = InReplyRuns
        PROVE  Unseen
    BY <1>2, SameRuns DEF Unseen, RunCalls, InReplyRuns, InTaskRuns, InWaitRuns
  <1>3. CASE HitBreakpoint
    BY <1>3, EndRunEnds DEF HitBreakpoint
  <1>4. CASE HitException
    BY <1>4, EndRunEnds DEF HitException
  <1>5. CASE StepComplete
    BY <1>5, EndRunEnds DEF StepComplete
  <1>6. CASE ProcessExits
    BY <1>6, EndRunEnds DEF ProcessExits
  <1>7. CASE UnknownEvent
    BY <1>7, EndRunEnds DEF UnknownEvent
  <1>8. CASE ThreadEvent
    <2>1. PICK res : Answer("thread", NoCall, res, NoBp)
      BY <1>8 DEF ThreadEvent
    <2>2. InReplyRuns' = InReplyRuns
      BY <1>1, <2>1, AnswerRuns DEF ResumeOps, StepOps
    <2> QED
      BY <1>1, <1>2, <1>8, <2>2 DEF ThreadEvent, DriverTypeOK
  <1>9. CASE ThreadEventContinue
    <2>1. CASE \E res, bp : EndRun(res, bp)
      BY <1>9, <2>1, EndRunEnds DEF ThreadEventContinue
    <2>2. CASE ~\E res, bp : EndRun(res, bp)
      BY <1>1, <1>2, <1>9, <2>2, SameRuns DEF ThreadEventContinue, DriverTypeOK
    <2> QED
      BY <2>1, <2>2
  <1>10. CASE WaitForNothing
    BY <1>10, EndRunEnds DEF WaitForNothing
  <1>11. CASE WaitInterrupted
    <2>1. CASE \E res, bp : EndRun(res, bp)
      BY <1>11, <2>1, EndRunEnds DEF WaitInterrupted
    <2>2. CASE ~\E res, bp : EndRun(res, bp)
      BY <1>1, <1>2, <1>11, <2>2, SameRuns DEF WaitInterrupted, DriverTypeOK
    <2> QED
      BY <2>1, <2>2
  <1>12. CASE BreakIn
    BY <1>12, EndRunEnds DEF BreakIn
  <1>13. CASE BreakInInterrupted
    BY <1>13, EndRunEnds DEF BreakInInterrupted
  <1> QED
    BY <1>3, <1>4, <1>5, <1>6, <1>7, <1>8, <1>9, <1>10, <1>11, <1>12, <1>13
       DEF TargetEvent, WaitStep

(* The delivery of an answer that starts no run is a callback, that of a   *)
(* thread event no more than a new call.                                   *)
LEMMA AnswerDelivered ==
    ASSUME ClientInv, Deliver,
           ~(Head(replies).op \in ResumeOps /\ Head(replies).res = "ok")
    PROVE  Abstract!Ask \/ Abstract!Callback \/ Unseen
  <1> DEFINE r == Head(replies)
  <1>1. DriverTypeOK
    BY DEF ClientInv, DriverInv, DriverRuns
  <1>2. /\ replies # <<>> /\ replies' = Tail(replies)
        /\ r \in Reply /\ 1 \in DOMAIN replies /\ r = replies[1]
        /\ UNCHANGED dbgThread
    BY <1>1 DEF Deliver, DriverTypeOK
  <1>3. \/ outstanding' = outstanding \ {r.call} /\ UNCHANGED tasks
        \/ \E new \in Calls \ (outstanding \ {r.call}) :
              /\ outstanding' = (outstanding \ {r.call}) \union {new}
              /\ \E op, bp : op # "wait" /\ Post(op, new, bp)
    BY DEF Deliver, Call, ResumeOps, StepOps
  <1>4. UNCHANGED RunCalls
    <2>1. InReplyRuns' = InReplyRuns
      BY <1>1, <1>2, DeliverRuns
    <2>2. InTaskRuns' = InTaskRuns
      BY <1>1, <1>3, PostRuns, SameRuns
    <2> QED
      BY <1>2, <2>1, <2>2, SameRuns DEF RunCalls, InReplyRuns, InTaskRuns, InWaitRuns
  <1>5. CASE r.op = "thread"
    <2>1. r.call = NoCall
      BY <1>2, <1>5 DEF Reply, TaskOps, ResumeOps, StepOps
    <2>2. outstanding \ {r.call} = outstanding
      BY <2>1, CallsAssumption DEF ClientInv, DriverInv, DriverRuns
    <2>3. CASE outstanding' = outstanding \ {r.call}
      BY <1>4, <2>2, <2>3 DEF Unseen
    <2>4. CASE \E new \in Calls \ (outstanding \ {r.call}) :
                  outstanding' = (outstanding \ {r.call}) \union {new}
      BY <1>4, <2>2, <2>4 DEF Abstract!Ask
    <2> QED
      BY <1>3, <2>3, <2>4
  <1>6. CASE r.op # "thread"
    <2>1. r.call \in InReplies
      BY <1>2, <1>6 DEF InReplies
    <2>2. r.call \in outstanding /\ r.call \notin InTasks /\ r.call \notin InDebug
      BY <2>1, FlightIs DEF ClientInv, DriverInv, Apart
    <2>3. r.call \notin InReplyRuns
      BY <1>2, <1>6 DEF InReplyRuns, ResumedReply, ResumeOps, StepOps, ClientInv, DriverInv, OnceInReplies
    <2>4. InWaitRuns \subseteq InDebug
      BY <1>1, CallsAssumption DEF InWaitRuns, InDebug, DriverTypeOK
    <2>5. r.call \notin RunCalls
      BY <2>2, <2>3, <2>4, RunCallsAre
    <2> QED
      BY <1>3, <1>4, <2>2, <2>5 DEF Abstract!Callback
  <1> QED
    BY <1>5, <1>6

(* The callback thread makes calls and runs callbacks. *)
LEMMA CallbackThreadRefines ==
    ASSUME ClientInv, CallbackThread
    PROVE  Abstract!Ask \/ Abstract!Callback \/ Unseen
  <1> USE DEF Free
  <1>1. DriverTypeOK
    BY DEF ClientInv, DriverInv, DriverRuns
  <1>2. ASSUME UNCHANGED <<tasks, replies, dbgThread>>
        PROVE  UNCHANGED RunCalls
    BY <1>2, SameRuns DEF RunCalls, InReplyRuns, InTaskRuns, InWaitRuns
  <1>3. CASE MakeCall
    <2>1. PICK call, op, bp :
             /\ call \in Calls \ outstanding /\ outstanding' = outstanding \union {call}
             /\ op # "wait" /\ Post(op, call, bp)
      BY <1>3 DEF MakeCall, Call, ResumeOps, StepOps
    <2>2. InTaskRuns' = InTaskRuns /\ InReplyRuns' = InReplyRuns /\ InWaitRuns' = InWaitRuns
      BY <1>1, <1>3, <2>1, PostRuns, SameRuns DEF MakeCall
    <2>3. UNCHANGED RunCalls
      BY <2>2 DEF RunCalls, InReplyRuns, InTaskRuns, InWaitRuns
    <2> QED
      BY <2>1, <2>3 DEF Abstract!Ask
  <1>4. CASE ListThreads
    <2>1. PICK call \in Calls \ outstanding :
             outstanding' = outstanding \union {call} /\ GetThreads(call)
      BY <1>4 DEF ListThreads
    <2>2. InReplyRuns' = InReplyRuns
      BY <1>1, <2>1, AnswerRuns DEF GetThreads, ResumeOps, StepOps
    <2>3. InTaskRuns' = InTaskRuns /\ InWaitRuns' = InWaitRuns
      BY <2>1, SameRuns DEF GetThreads
    <2>4. UNCHANGED RunCalls
      BY <2>2, <2>3 DEF RunCalls, InReplyRuns, InTaskRuns, InWaitRuns
    <2> QED
      BY <2>1, <2>4 DEF Abstract!Ask
  <1>5. CASE Pause
    BY <1>2, <1>5 DEF Pause, PauseBegin, Abstract!Ask
  <1>6. CASE PauseIssued
    <2>1. /\ Post("hop", interrupting, NoBp)
          /\ UNCHANGED <<replies, dbgThread, outstanding>>
      BY <1>6 DEF PauseIssued, PauseEnd
    <2>2. InTaskRuns' = InTaskRuns /\ InReplyRuns' = InReplyRuns /\ InWaitRuns' = InWaitRuns
      BY <1>1, <2>1, PostRuns, SameRuns
    <2> QED
      BY <2>1, <2>2 DEF Unseen, RunCalls, InReplyRuns, InTaskRuns, InWaitRuns
  <1>7. CASE PauseRefused
    <2>1. /\ interrupting # NoCall
          /\ outstanding' = outstanding \ {interrupting}
          /\ UNCHANGED <<tasks, replies, dbgThread>>
      BY <1>7 DEF PauseRefused, PauseFails
    <2>2. interrupting \in InInterrupt
      BY <2>1 DEF InInterrupt
    <2>3. interrupting \in outstanding
      BY <2>2, FlightIs DEF ClientInv, DriverInv, Apart
    <2>4. /\ interrupting \notin InTasks /\ interrupting \notin InReplies
          /\ interrupting \notin InDebug
      BY <2>2 DEF ClientInv, DriverInv, Apart
    <2>5. InWaitRuns \subseteq InDebug
      BY <1>1, CallsAssumption DEF InWaitRuns, InDebug, DriverTypeOK
    <2>6. interrupting \notin RunCalls
      BY <2>4, <2>5, RunCallsAre, ReplyRunsIn
    <2> QED
      BY <1>2, <2>1, <2>3, <2>6 DEF Abstract!Callback
  <1>8. CASE Deliver
    <2>1. CASE Head(replies).op \in ResumeOps /\ Head(replies).res = "ok"
      <3>1. /\ replies # <<>> /\ replies' = Tail(replies)
            /\ Post("wait", Head(replies).call, NoBp)
            /\ UNCHANGED <<outstanding, dbgThread>>
        BY <1>8, <2>1 DEF Deliver
      <3>2. InReplyRuns = InReplyRuns' \union {Head(replies).call}
        BY <1>1, <2>1, <3>1, DeliverRuns
      <3>3. InTaskRuns' = InTaskRuns \union {Head(replies).call}
        BY <1>1, <3>1, PostRuns
      <3> QED
        BY <3>1, <3>2, <3>3, SameRuns DEF Unseen, RunCalls, InReplyRuns, InTaskRuns, InWaitRuns
    <2>2. CASE ~(Head(replies).op \in ResumeOps /\ Head(replies).res = "ok")
      BY <1>8, <2>2, AnswerDelivered
    <2> QED
      BY <2>1, <2>2
  <1>9. CASE PauseAnswered
    <2>1. UNCHANGED <<tasks, replies, dbgThread, outstanding>>
      BY <1>9 DEF PauseAnswered, PauseStopped
    <2> QED
      BY <1>2, <2>1 DEF Unseen
  <1> QED
    BY <1>3, <1>4, <1>5, <1>6, <1>7, <1>8, <1>9 DEF CallbackThread

(* What has touched the destroyed session stays that way. *)
LEMMA DanglingForEver ==
    ASSUME session = "dangling", [Next]_vars PROVE session' = "dangling"
  <1>1. CASE CallbackThread
    BY <1>1 DEF CallbackThread, MakeCall, ListThreads, GetThreads, Pause, PauseBegin,
                PauseAnswered, PauseStopped, UseSession, SessionGone, PauseIssued, PauseEnd, PauseRefused, PauseFails, Deliver
  <1>2. CASE RunTask
    BY <1>2 DEF RunTask, TakeLive, GoTask, StepTask, StepOutTask, HopTask, EndTask, CreateTask,
                RemoveTask, QueryTask, FrameTask, WaitTask, DanglingTask
  <1>3. CASE TargetEvent
    BY <1>3 DEF TargetEvent, HitBreakpoint, HitException, StepComplete, ProcessExits,
                UnknownEvent, ThreadEvent
  <1>4. CASE WaitStep
    BY <1>4 DEF WaitStep, ThreadEventContinue, WaitForNothing, WaitInterrupted, BreakIn,
                BreakInInterrupted
  <1>5. CASE UNCHANGED vars
    BY <1>5 DEF vars, driverVars
  <1> QED
    BY <1>1, <1>2, <1>3, <1>4, <1>5 DEF Next, DebugThread

(* The driver implements Driver under any client (ImplementsDriver): a run *)
(* is begun only when there is none and a callback invoked once, that of a *)
(* run after its end, until a task touches the session stop() destroyed.   *)
THEOREM DriverImplemented == Spec => ImplementsDriver
  <1>1. ClientInv /\ [Next]_vars => [Abstract!Next \/ session' = "dangling"]_(Abstract!vars)
    <2> SUFFICES ASSUME ClientInv, [Next]_vars, session' # "dangling"
                 PROVE  Abstract!Next \/ Unseen
      BY DEF Unseen, Abstract!vars
    <2>1. session # "dangling"
      BY DanglingForEver
    <2>2. CASE CallbackThread
      BY <2>2, CallbackThreadRefines DEF Abstract!Next
    <2>3. CASE DebugThread /\ UNCHANGED outstanding
      BY <2>1, <2>3, RunTaskRefines, WaitRefines DEF DebugThread, Abstract!Next
    <2>4. CASE UNCHANGED vars
      BY <2>4, SameRuns
         DEF vars, driverVars, Unseen, RunCalls, InReplyRuns, InTaskRuns, InWaitRuns
    <2> QED
      BY <2>2, <2>3, <2>4 DEF Next
  <1> QED
    BY <1>1, ClientCorrect, PTL DEF Spec, ImplementsDriver
=============================================================================
