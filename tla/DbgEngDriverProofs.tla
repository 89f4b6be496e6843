--------------------------- MODULE DbgEngDriverProofs ---------------------------
(***************************************************************************)
(* Proofs about the dbgeng driver that hold whoever calls it: its types,   *)
(* its runs, its calls on their way through the two queues, and the order  *)
(* they keep there.  The proofs about a client of the driver rest on them. *)
(***************************************************************************)
EXTENDS DbgEngDriver, TLAPS

(* Where the debug thread is, is told by dbgThread.at alone. *)
USE DEF InWait

-----------------------------------------------------------------------------
(* The two queues. *)

(* Answer adds a well formed reply at the end of the replies. *)
LEMMA AnswerAppends ==
    ASSUME DriverTypeOK,
           NEW op \in TaskOps, NEW call \in Calls,
           NEW res \in Results, NEW bp \in BpIds \union {NoBp},
           Answer(op, call, res, bp)
    PROVE  replies' \in Seq(Reply)
  BY DEF DriverTypeOK, Answer, Reply

(* Post adds a well formed task at the end of the tasks. *)
LEMMA PostAppends ==
    ASSUME DriverTypeOK,
           NEW op \in TaskOps, NEW call \in Calls, NEW bp \in BpIds \union {NoBp},
           Post(op, call, bp)
    PROVE  tasks' \in Seq(Task)
  BY DEF DriverTypeOK, Post, Task

(* Take leaves a queue of tasks, and its head is one. *)
LEMMA TakeRemoves ==
    ASSUME DriverTypeOK, NEW ops, Take(ops)
    PROVE  /\ Head(tasks) \in Task
           /\ tasks' \in Seq(Task)
  BY DEF DriverTypeOK, Take

(* A task is answered with a well formed reply. *)
LEMMA AnswerTaskAppends ==
    ASSUME DriverTypeOK, NEW ops, Take(ops),
           NEW res \in Results, NEW bp \in BpIds \union {NoBp}, AnswerTask(res, bp)
    PROVE  replies' \in Seq(Reply)
  <1>1. Head(tasks).op \in TaskOps /\ Head(tasks).call \in Calls
    BY TakeRemoves DEF Task
  <1> QED
    BY <1>1, AnswerAppends DEF AnswerTask

(* The end of a run answers it and leaves the debug thread idle. *)
LEMMA EndRunAppends ==
    ASSUME DriverTypeOK, InWait,
           NEW res \in Results, NEW bp \in BpIds \union {NoBp}, EndRun(res, bp)
    PROVE  /\ replies' \in Seq(Reply)
           /\ dbgThread' = [at |-> "idle", call |-> NoCall]
  <1>1. dbgThread.call \in Calls /\ "wait" \in TaskOps
    BY DEF DriverTypeOK, TaskOps
  <1> QED
    BY <1>1, AnswerAppends DEF EndRun

-----------------------------------------------------------------------------
(* Type correctness. *)

(* Every task the debug thread runs leaves the driver well typed. *)
LEMMA TypeRunTask ==
    ASSUME DriverTypeOK, RunTask PROVE DriverTypeOK'
  <1> USE CallsAssumption DEF TakeLive
  <1>1. {"ok", "error", "exited"} \subseteq Results /\ NoBp \in BpIds \union {NoBp}
    BY DEF Results
  <1>2. PICK ops : Take(ops)
    BY DEF RunTask, GoTask, StepTask, StepOutTask, HopTask, EndTask, CreateTask,
           RemoveTask, QueryTask, FrameTask, WaitTask, DanglingTask
  <1>3. Head(tasks) \in Task /\ tasks' \in Seq(Task)
    BY <1>2, TakeRemoves
  <1>4. ASSUME NEW res \in {"ok", "error", "exited"}, NEW bp \in BpIds \union {NoBp},
               AnswerTask(res, bp)
        PROVE  replies' \in Seq(Reply)
    BY <1>1, <1>2, <1>4, AnswerTaskAppends
  <1>5. CASE GoTask
    BY <1>1, <1>3, <1>4, <1>5 DEF GoTask, DriverTypeOK
  <1>6. CASE StepTask
    BY <1>1, <1>3, <1>4, <1>6 DEF StepTask, DriverTypeOK
  <1>7. CASE StepOutTask
    <2>1. replies' \in Seq(Reply)
      BY <1>1, <1>4, <1>7 DEF StepOutTask
    <2>2. /\ status' \in {"break", "go", "step", "noDebuggee"}
          /\ breakpoints' \subseteq BpIds
          /\ oneShots' \subseteq BpIds
          /\ stepOutBreakpointId' \in BpIds \union {NoBp}
      BY <1>7 DEF StepOutTask, DriverTypeOK
    <2> QED
      BY <1>3, <1>7, <2>1, <2>2 DEF StepOutTask, DriverTypeOK
  <1>8. CASE HopTask
    BY <1>1, <1>3, <1>4, <1>8 DEF HopTask, DriverTypeOK, engineVars
  <1>9. CASE EndTask
    BY <1>1, <1>3, <1>4, <1>9 DEF EndTask, DriverTypeOK
  <1>10. CASE CreateTask
    BY <1>1, <1>3, <1>4, <1>10 DEF CreateTask, DriverTypeOK
  <1>11. CASE RemoveTask
    BY <1>1, <1>3, <1>4, <1>11 DEF RemoveTask, DriverTypeOK, Task
  <1>12. CASE QueryTask
    BY <1>1, <1>3, <1>4, <1>12 DEF QueryTask, DriverTypeOK, engineVars
  <1>13. CASE WaitTask
    BY <1>3, <1>13 DEF WaitTask, DriverTypeOK, engineVars, Task
  <1>14. CASE DanglingTask
    BY <1>1, <1>3, <1>4, <1>14 DEF DanglingTask, DriverTypeOK, engineVars
  <1>15. CASE FrameTask
    BY <1>1, <1>3, <1>4, <1>15 DEF FrameTask, DriverTypeOK, engineVars, Task
  <1> QED
    BY <1>5, <1>6, <1>7, <1>8, <1>9, <1>10, <1>11, <1>12, <1>13, <1>14, <1>15 DEF RunTask

(* Every event of the target leaves the driver well typed. *)
LEMMA TypeTargetEvent ==
    ASSUME DriverTypeOK, TargetEvent PROVE DriverTypeOK'
  <1> USE CallsAssumption, FlagsAssumption DEF Waiting, BreakForEvent
  <1>1. /\ {"paused", "breakpoint", "exception", "exited", "error",
            "threadCreated", "threadExited"} \subseteq Results
        /\ NoBp \in BpIds \union {NoBp}
    BY DEF Results
  <1>2. CASE HitBreakpoint
    <2>1. PICK b \in breakpoints :
             /\ breakpoints' = breakpoints \ (oneShots \intersect {b})
             /\ oneShots' = oneShots \ {b}
             /\ IF b = stepOutBreakpointId
                THEN stepOutBreakpointId' = NoBp /\ EndRun("paused", NoBp)
                ELSE UNCHANGED stepOutBreakpointId /\ EndRun("breakpoint", b)
      BY <1>2 DEF HitBreakpoint
    <2>2. b \in BpIds /\ InWait
      BY <1>2 DEF HitBreakpoint, DriverTypeOK
    <2>3. /\ replies' \in Seq(Reply)
          /\ dbgThread' = [at |-> "idle", call |-> NoCall]
          /\ stepOutBreakpointId' \in BpIds \union {NoBp}
      BY <1>1, <2>1, <2>2, EndRunAppends DEF DriverTypeOK
    <2> QED
      BY <1>2, <2>1, <2>3 DEF HitBreakpoint, DriverTypeOK
  <1>3. CASE HitException
    BY <1>1, <1>3, EndRunAppends DEF HitException, DriverTypeOK
  <1>4. CASE StepComplete
    BY <1>1, <1>4, EndRunAppends DEF StepComplete, DriverTypeOK
  <1>5. CASE ProcessExits
    BY <1>1, <1>5, EndRunAppends DEF ProcessExits, DriverTypeOK
  <1>6. CASE UnknownEvent
    BY <1>1, <1>6, EndRunAppends DEF UnknownEvent, DriverTypeOK
  <1>7. CASE ThreadEvent
    <2>1. replies' \in Seq(Reply)
      BY <1>1, <1>7 DEF ThreadEvent, Answer, DriverTypeOK, Reply
    <2> QED
      BY <1>7, <2>1 DEF ThreadEvent, DriverTypeOK
  <1> QED
    BY <1>2, <1>3, <1>4, <1>5, <1>6, <1>7 DEF TargetEvent

(* Every step wait() takes by itself leaves the driver well typed. *)
LEMMA TypeWaitStep ==
    ASSUME DriverTypeOK, WaitStep PROVE DriverTypeOK'
  <1> USE CallsAssumption, FlagsAssumption
  <1>1. {"paused", "exited", "error"} \subseteq Results /\ NoBp \in BpIds \union {NoBp}
    BY DEF Results
  <1>2. CASE ThreadEventContinue
    BY <1>1, <1>2, EndRunAppends DEF ThreadEventContinue, DriverTypeOK
  <1>3. CASE WaitForNothing
    BY <1>1, <1>3, EndRunAppends DEF WaitForNothing, DriverTypeOK
  <1>4. CASE WaitInterrupted
    <2>1. /\ dbgThread.at = "wait"
          /\ exitInterrupt' \in BOOLEAN
          /\ \/ /\ status' = "go"
                /\ dbgThread' = [dbgThread EXCEPT !.at = "breaking"]
                /\ UNCHANGED replies
             \/ status' \in {status, "go"} /\ EndRun("error", NoBp)
      BY <1>4 DEF WaitInterrupted, Waiting
    <2>2. UNCHANGED <<tasks, interrupting, process, breakpoints, oneShots,
                      stepOutBreakpointId, session>>
      BY <1>4 DEF WaitInterrupted
    <2> QED
      BY <1>1, <2>1, <2>2, EndRunAppends DEF DriverTypeOK
  <1>5. CASE BreakIn
    <2>1. /\ replies' \in Seq(Reply)
          /\ dbgThread' = [at |-> "idle", call |-> NoCall]
      BY <1>1, <1>5, EndRunAppends DEF BreakIn
    <2>2. breakpoints' \subseteq BpIds /\ oneShots' \subseteq BpIds
      BY <1>5 DEF BreakIn, DriverTypeOK
    <2>3. status' \in {"break"} /\ exitInterrupt' \in BOOLEAN
      BY <1>5 DEF BreakIn, BreakForEvent
    <2> QED
      BY <1>5, <2>1, <2>2, <2>3 DEF BreakIn, DriverTypeOK
  <1>6. CASE BreakInInterrupted
    <2>1. /\ replies' \in Seq(Reply)
          /\ dbgThread' = [at |-> "idle", call |-> NoCall]
      BY <1>1, <1>6, EndRunAppends DEF BreakInInterrupted
    <2>2. exitInterrupt' \in BOOLEAN
      BY <1>6 DEF BreakInInterrupted
    <2> QED
      BY <1>6, <2>1, <2>2 DEF BreakInInterrupted, DriverTypeOK
  <1> QED
    BY <1>2, <1>3, <1>4, <1>5, <1>6 DEF WaitStep

-----------------------------------------------------------------------------
(* The runs.  A run travels as a token: a reply of a go or step that       *)
(* succeeded becomes a task to wait, which becomes the wait of the debug   *)
(* thread.  OneRun and RunMeansRunning need each other: a second run could *)
(* only start from a break, and at a break there is no token left.         *)

OneReply == \A i, j \in DOMAIN replies : ResumedReply(i) /\ ResumedReply(j) => i = j
OneTask  == \A i, j \in DOMAIN tasks : WaitingTask(i) /\ WaitingTask(j) => i = j

DriverRuns == DriverTypeOK /\ OneRun /\ RunMeansRunning

(* An answer that starts no run adds no token to the replies. *)
LEMMA QuietAnswer ==
    ASSUME DriverTypeOK, NEW op, NEW call, NEW res, NEW bp, Answer(op, call, res, bp),
           ~(op \in ResumeOps /\ res = "ok")
    PROVE  /\ OneReply => OneReply'
           /\ ReplyInFlight' => ReplyInFlight
  <1>1. /\ DOMAIN replies = 1 .. Len(replies)
        /\ DOMAIN replies' = 1 .. Len(replies) + 1
        /\ \A i \in 1 .. Len(replies) : replies'[i] = replies[i]
        /\ replies'[Len(replies) + 1] = [op |-> op, call |-> call, res |-> res, bp |-> bp]
        /\ Len(replies) \in Nat
    BY DEF Answer, DriverTypeOK
  <1>2. \A i \in DOMAIN replies' : ResumedReply(i)' => i \in DOMAIN replies /\ ResumedReply(i)
    BY <1>1 DEF ResumedReply
  <1> QED
    BY <1>2 DEF OneReply, ReplyInFlight

(* An answer that starts a run adds one token where there was none. *)
LEMMA ResumingAnswer ==
    ASSUME DriverTypeOK, NEW op, NEW call, NEW res, NEW bp, Answer(op, call, res, bp),
           ~ReplyInFlight
    PROVE  OneReply'
  <1>1. /\ DOMAIN replies = 1 .. Len(replies)
        /\ DOMAIN replies' = 1 .. Len(replies) + 1
        /\ \A i \in 1 .. Len(replies) : replies'[i] = replies[i]
        /\ Len(replies) \in Nat
    BY DEF Answer, DriverTypeOK
  <1>2. \A i \in DOMAIN replies' : ResumedReply(i)' => i = Len(replies) + 1
    BY <1>1 DEF ReplyInFlight, ResumedReply
  <1> QED
    BY <1>2 DEF OneReply

(* A call other than run adds no token to the tasks. *)
LEMMA QuietPost ==
    ASSUME DriverTypeOK, NEW op, NEW call, NEW bp, Post(op, call, bp), op # "wait"
    PROVE  /\ OneTask => OneTask'
           /\ TaskInFlight' => TaskInFlight
  <1>1. /\ DOMAIN tasks = 1 .. Len(tasks)
        /\ DOMAIN tasks' = 1 .. Len(tasks) + 1
        /\ \A i \in 1 .. Len(tasks) : tasks'[i] = tasks[i]
        /\ tasks'[Len(tasks) + 1] = [op |-> op, call |-> call, bp |-> bp]
        /\ Len(tasks) \in Nat
    BY DEF Post, DriverTypeOK
  <1>2. \A i \in DOMAIN tasks' : WaitingTask(i)' => i \in DOMAIN tasks /\ WaitingTask(i)
    BY <1>1 DEF WaitingTask
  <1> QED
    BY <1>2 DEF OneTask, TaskInFlight

(* run adds one token to the tasks where there was none. *)
LEMMA WaitingPost ==
    ASSUME DriverTypeOK, NEW op, NEW call, NEW bp, Post(op, call, bp), ~TaskInFlight
    PROVE  OneTask'
  <1>1. /\ DOMAIN tasks = 1 .. Len(tasks)
        /\ DOMAIN tasks' = 1 .. Len(tasks) + 1
        /\ \A i \in 1 .. Len(tasks) : tasks'[i] = tasks[i]
        /\ Len(tasks) \in Nat
    BY DEF Post, DriverTypeOK
  <1>2. \A i \in DOMAIN tasks' : WaitingTask(i)' => i = Len(tasks) + 1
    BY <1>1 DEF TaskInFlight, WaitingTask
  <1> QED
    BY <1>2 DEF OneTask

(* Taking a task adds no token, and takes the only one with a wait. *)
LEMMA TakeTokens ==
    ASSUME DriverTypeOK, NEW ops, Take(ops)
    PROVE  /\ OneTask => OneTask'
           /\ TaskInFlight' => TaskInFlight
           /\ OneTask /\ Head(tasks).op = "wait" => TaskInFlight /\ ~TaskInFlight'
  <1>1. /\ DOMAIN tasks = 1 .. Len(tasks)
        /\ DOMAIN tasks' = 1 .. Len(tasks) - 1
        /\ \A i \in 1 .. Len(tasks) - 1 : tasks'[i] = tasks[i + 1]
        /\ Head(tasks) = tasks[1]
        /\ Len(tasks) \in Nat \ {0}
    BY DEF Take, DriverTypeOK
  <1>2. \A i \in DOMAIN tasks' :
           /\ i \in Nat
           /\ i + 1 \in DOMAIN tasks
           /\ i + 1 # 1
           /\ WaitingTask(i)' => WaitingTask(i + 1)
    BY <1>1 DEF WaitingTask
  <1>3. OneTask => OneTask'
    <2> SUFFICES ASSUME OneTask, NEW i \in DOMAIN tasks', NEW j \in DOMAIN tasks',
                        WaitingTask(i)', WaitingTask(j)'
                 PROVE  i = j
      BY DEF OneTask
    <2>1. i + 1 = j + 1
      BY <1>2 DEF OneTask
    <2> QED
      BY <1>2, <2>1
  <1>4. TaskInFlight' => TaskInFlight
    BY <1>2 DEF TaskInFlight
  <1>5. ASSUME OneTask, Head(tasks).op = "wait"
        PROVE  TaskInFlight /\ ~TaskInFlight'
    <2>1. 1 \in DOMAIN tasks /\ WaitingTask(1)
      BY <1>1, <1>5 DEF WaitingTask
    <2> QED
      BY <1>2, <1>5, <2>1 DEF OneTask, TaskInFlight
  <1> QED
    BY <1>3, <1>4, <1>5

(* Delivering a reply adds no token, and takes the only one with a         *)
(* success of go or step.                                                  *)
LEMMA DeliverTokens ==
    ASSUME DriverTypeOK, replies # <<>>, replies' = Tail(replies)
    PROVE  /\ OneReply => OneReply'
           /\ ReplyInFlight' => ReplyInFlight
           /\ OneReply /\ Head(replies).op \in ResumeOps /\ Head(replies).res = "ok"
              => ReplyInFlight /\ ~ReplyInFlight'
  <1>1. /\ DOMAIN replies = 1 .. Len(replies)
        /\ DOMAIN replies' = 1 .. Len(replies) - 1
        /\ \A i \in 1 .. Len(replies) - 1 : replies'[i] = replies[i + 1]
        /\ Head(replies) = replies[1]
        /\ Len(replies) \in Nat \ {0}
    BY DEF DriverTypeOK
  <1>2. \A i \in DOMAIN replies' :
           /\ i \in Nat
           /\ i + 1 \in DOMAIN replies
           /\ i + 1 # 1
           /\ ResumedReply(i)' => ResumedReply(i + 1)
    BY <1>1 DEF ResumedReply
  <1>3. OneReply => OneReply'
    <2> SUFFICES ASSUME OneReply, NEW i \in DOMAIN replies', NEW j \in DOMAIN replies',
                        ResumedReply(i)', ResumedReply(j)'
                 PROVE  i = j
      BY DEF OneReply
    <2>1. i + 1 = j + 1
      BY <1>2 DEF OneReply
    <2> QED
      BY <1>2, <2>1
  <1>4. ReplyInFlight' => ReplyInFlight
    BY <1>2 DEF ReplyInFlight
  <1>5. ASSUME OneReply, Head(replies).op \in ResumeOps, Head(replies).res = "ok"
        PROVE  ReplyInFlight /\ ~ReplyInFlight'
    <2>1. 1 \in DOMAIN replies /\ ResumedReply(1)
      BY <1>1, <1>5 DEF ResumedReply
    <2> QED
      BY <1>2, <1>5, <2>1 DEF OneReply, ReplyInFlight
  <1> QED
    BY <1>3, <1>4, <1>5

(* A queue that does not change keeps its tokens. *)
LEMMA SameReplies ==
    ASSUME UNCHANGED replies
    PROVE  (OneReply' <=> OneReply) /\ (ReplyInFlight' <=> ReplyInFlight)
  BY DEF OneReply, ReplyInFlight, ResumedReply

(* The same of the tasks. *)
LEMMA SameTasks ==
    ASSUME UNCHANGED tasks
    PROVE  (OneTask' <=> OneTask) /\ (TaskInFlight' <=> TaskInFlight)
  BY DEF OneTask, TaskInFlight, WaitingTask

(* The end of a run takes the token of the debug thread: none is left. *)
LEMMA RunEndsTokens ==
    ASSUME DriverRuns, InWait, UNCHANGED <<tasks, session>>,
           NEW res, NEW bp, EndRun(res, bp)
    PROVE  (OneRun /\ RunMeansRunning)'
  <1>1. Answer("wait", dbgThread.call, res, bp) /\ dbgThread'.at = "idle"
    BY DEF EndRun
  <1>2. "wait" \notin ResumeOps
    BY DEF ResumeOps, StepOps
  <1>3. (OneReply => OneReply') /\ (ReplyInFlight' => ReplyInFlight)
    BY <1>1, <1>2, QuietAnswer DEF DriverRuns
  <1> QED
    BY <1>1, <1>3, SameTasks
       DEF DriverRuns, OneRun, RunMeansRunning, RunInFlight, OneReply, OneTask

-----------------------------------------------------------------------------
(* A task that does not resume the target leaves the tokens as they are. *)
LEMMA QuietTask ==
    ASSUME DriverRuns, NEW ops, Take(ops), NEW res, NEW bp, AnswerTask(res, bp),
           ~(Head(tasks).op \in ResumeOps /\ res = "ok"),
           UNCHANGED <<dbgThread, status>>,
           session' = "live" => session = "live",
           session' # "dangling" => session # "dangling"
    PROVE  (OneRun /\ RunMeansRunning)'
  <1>1. DriverTypeOK
    BY DEF DriverRuns
  <1>2. (OneReply => OneReply') /\ (ReplyInFlight' => ReplyInFlight)
    BY <1>1, QuietAnswer DEF AnswerTask
  <1>3. (OneTask => OneTask') /\ (TaskInFlight' => TaskInFlight)
    BY <1>1, TakeTokens
  <1> QED
    BY <1>2, <1>3
       DEF DriverRuns, OneRun, RunMeansRunning, RunInFlight, Running, OneReply, OneTask

(* A go or a step that succeeds does so at a break, where no token is left. *)
LEMMA ResumingTask ==
    ASSUME DriverRuns, session = "live", NEW ops, Take(ops), NEW bp, AnswerTask("ok", bp),
           status = "break", status' \in {"go", "step"},
           UNCHANGED <<dbgThread, session>>
    PROVE  (OneRun /\ RunMeansRunning)'
  <1>1. DriverTypeOK
    BY DEF DriverRuns
  <1>2. ~ReplyInFlight /\ ~TaskInFlight /\ dbgThread.at = "idle"
    BY DEF DriverRuns, RunMeansRunning, RunInFlight, Running, Take
  <1>3. OneReply'
    BY <1>1, <1>2, ResumingAnswer DEF AnswerTask
  <1>4. OneTask' /\ ~TaskInFlight'
    BY <1>1, <1>2, TakeTokens DEF DriverRuns, OneRun, OneTask
  <1> QED
    BY <1>2, <1>3, <1>4 DEF OneRun, RunMeansRunning, Running, OneReply, OneTask

(* Every task keeps the runs apart. *)
LEMMA RunsRunTask ==
    ASSUME DriverRuns, RunTask PROVE (OneRun /\ RunMeansRunning)'
  <1> USE DEF TakeLive
  <1>1. CASE GoTask
    BY <1>1, QuietTask, ResumingTask DEF GoTask
  <1>2. CASE StepTask
    BY <1>2, QuietTask, ResumingTask DEF StepTask
  <1>3. CASE StepOutTask
    BY <1>3, QuietTask, ResumingTask DEF StepOutTask
  <1>4. CASE HopTask
    <2>1. Head(tasks).op \notin ResumeOps
      BY <1>4 DEF HopTask, Take, ResumeOps, StepOps
    <2>2. Take({"hop"}) /\ AnswerTask("ok", NoBp)
      BY <1>4 DEF HopTask
    <2>3. UNCHANGED <<dbgThread, status>> /\ session' = session
      BY <1>4 DEF HopTask, engineVars
    <2> QED
      BY <2>1, <2>2, <2>3, QuietTask
  <1>5. CASE EndTask
    <2>1. Head(tasks).op \notin ResumeOps
      BY <1>5 DEF EndTask, Take, ResumeOps, StepOps
    <2> QED
      BY <1>5, <2>1, QuietTask DEF EndTask
  <1>6. CASE CreateTask
    <2>1. Head(tasks).op \notin ResumeOps
      BY <1>6 DEF CreateTask, Take, ResumeOps, StepOps
    <2> QED
      BY <1>6, <2>1, QuietTask DEF CreateTask
  <1>7. CASE RemoveTask
    <2>1. Head(tasks).op \notin ResumeOps
      BY <1>7 DEF RemoveTask, Take, ResumeOps, StepOps
    <2> QED
      BY <1>7, <2>1, QuietTask DEF RemoveTask
  <1>8. CASE QueryTask
    <2>1. Head(tasks).op \notin ResumeOps
      BY <1>8 DEF QueryTask, Take, ResumeOps, StepOps
    <2> QED
      BY <1>8, <2>1, QuietTask DEF QueryTask, engineVars
  <1>9. CASE WaitTask
    <2>1. /\ session = "live" /\ session' = "live"
          /\ Take({"wait"}) /\ Head(tasks).op = "wait"
          /\ dbgThread'.at = "wait"
          /\ UNCHANGED <<replies, status>>
      BY <1>9 DEF WaitTask, Take, engineVars
    <2>2. OneTask /\ OneReply
      BY <2>1 DEF DriverRuns, OneRun, OneTask, OneReply
    <2>3. OneTask' /\ TaskInFlight /\ ~TaskInFlight'
      BY <2>1, <2>2, TakeTokens DEF DriverRuns
    <2>4. ~ReplyInFlight' /\ OneReply'
      BY <2>1, <2>2, <2>3, SameReplies DEF DriverRuns, OneRun
    <2> QED
      BY <2>1, <2>3, <2>4
         DEF DriverRuns, OneRun, RunMeansRunning, RunInFlight, Running, OneReply, OneTask, Take
  <1>10. CASE DanglingTask
    BY <1>10 DEF DanglingTask, OneRun, RunMeansRunning
  <1>11. CASE FrameTask
    <2>1. Head(tasks).op \notin ResumeOps
      BY <1>11 DEF FrameTask, Take, ResumeOps, StepOps
    <2>2. CASE AnswerTask("ok", NoBp) /\ UNCHANGED dbgThread
      BY <1>11, <2>1, <2>2, QuietTask DEF FrameTask, engineVars
    <2>3. CASE ~(AnswerTask("ok", NoBp) /\ UNCHANGED dbgThread)
      <3>1. /\ dbgThread'.at = "dead" /\ dbgThread.at = "idle"
            /\ UNCHANGED <<replies, status, session>>
        BY <1>11, <2>3 DEF FrameTask, engineVars, Take
      <3>2. (OneTask => OneTask') /\ (TaskInFlight' => TaskInFlight)
        BY <1>11, TakeTokens DEF FrameTask, DriverRuns
      <3> QED
        BY <3>1, <3>2, SameReplies
           DEF DriverRuns, OneRun, RunMeansRunning, RunInFlight, Running, OneReply, OneTask
    <2> QED
      BY <2>2, <2>3
  <1> QED
    BY <1>1, <1>2, <1>3, <1>4, <1>5, <1>6, <1>7, <1>8, <1>9, <1>10, <1>11 DEF RunTask

(* Every event of the target keeps the runs apart. *)
LEMMA RunsTargetEvent ==
    ASSUME DriverRuns, TargetEvent PROVE (OneRun /\ RunMeansRunning)'
  <1> USE DEF Waiting
  <1>1. CASE HitBreakpoint
    BY <1>1, RunEndsTokens DEF HitBreakpoint
  <1>2. CASE HitException
    BY <1>2, RunEndsTokens DEF HitException
  <1>3. CASE StepComplete
    BY <1>3, RunEndsTokens DEF StepComplete
  <1>4. CASE ProcessExits
    BY <1>4, RunEndsTokens DEF ProcessExits
  <1>5. CASE UnknownEvent
    BY <1>5, RunEndsTokens DEF UnknownEvent
  <1>6. CASE ThreadEvent
    <2>1. PICK res \in {"threadCreated", "threadExited"} : Answer("thread", NoCall, res, NoBp)
      BY <1>6 DEF ThreadEvent
    <2>2. "thread" \notin ResumeOps
      BY DEF ResumeOps, StepOps
    <2>3. (OneReply => OneReply') /\ (ReplyInFlight' => ReplyInFlight)
      BY <2>1, <2>2, QuietAnswer DEF DriverRuns
    <2>4. dbgThread.at = "wait" /\ dbgThread'.at = "threadEvent" /\ UNCHANGED <<tasks, session>>
      BY <1>6 DEF ThreadEvent, DriverRuns, DriverTypeOK
    <2> QED
      BY <2>3, <2>4, SameTasks
         DEF DriverRuns, OneRun, RunMeansRunning, RunInFlight, OneReply, OneTask
  <1> QED
    BY <1>1, <1>2, <1>3, <1>4, <1>5, <1>6 DEF TargetEvent

(* Every step of wait() keeps the runs apart. *)
LEMMA RunsWaitStep ==
    ASSUME DriverRuns, WaitStep PROVE (OneRun /\ RunMeansRunning)'
  <1>1. ASSUME InWait, InWait', status' = "go",
               UNCHANGED <<tasks, replies, session>>
        PROVE  (OneRun /\ RunMeansRunning)'
    BY <1>1, SameTasks, SameReplies
       DEF DriverRuns, OneRun, RunMeansRunning, Running, OneReply, OneTask
  <1>2. CASE ThreadEventContinue
    <2>1. CASE \E res, bp : EndRun(res, bp)
      BY <1>2, <2>1, RunEndsTokens DEF ThreadEventContinue
    <2>2. CASE ~\E res, bp : EndRun(res, bp)
      BY <1>1, <1>2, <2>2 DEF ThreadEventContinue, DriverRuns, DriverTypeOK
    <2> QED
      BY <2>1, <2>2
  <1>3. CASE WaitForNothing
    BY <1>3, RunEndsTokens DEF WaitForNothing
  <1>4. CASE WaitInterrupted
    <2>1. CASE \E res, bp : EndRun(res, bp)
      BY <1>4, <2>1, RunEndsTokens DEF WaitInterrupted, Waiting
    <2>2. CASE ~\E res, bp : EndRun(res, bp)
      BY <1>1, <1>4, <2>2 DEF WaitInterrupted, Waiting, DriverRuns, DriverTypeOK
    <2> QED
      BY <2>1, <2>2
  <1>5. CASE BreakIn
    BY <1>5, RunEndsTokens DEF BreakIn
  <1>6. CASE BreakInInterrupted
    BY <1>6, RunEndsTokens DEF BreakInInterrupted
  <1> QED
    BY <1>2, <1>3, <1>4, <1>5, <1>6 DEF WaitStep

-----------------------------------------------------------------------------
(* The calls: each is in one place, a queue or one of the threads, until   *)
(* its callback is invoked.                                                *)
InDebug     == {dbgThread.call} \ {NoCall}
InInterrupt == {interrupting} \ {NoCall}

OnceInTasks   == \A i, j \in DOMAIN tasks : tasks[i].call = tasks[j].call => i = j
OnceInReplies == \A i, j \in DOMAIN replies :
                    /\ replies[i].op # "thread" /\ replies[j].op # "thread"
                    /\ replies[i].call = replies[j].call
                    => i = j

Apart ==
    /\ InTasks \intersect InReplies = {}
    /\ (InTasks \union InReplies) \intersect (InDebug \union InInterrupt) = {}
    /\ InDebug \intersect InInterrupt = {}

DriverOnce == DriverTypeOK /\ Apart /\ OnceInTasks /\ OnceInReplies

(* The four places of a call. *)
LEMMA FlightIs ==
    /\ InFlight = InTasks \union InReplies \union InDebug \union InInterrupt
    /\ InFlight' = (InTasks \union InReplies \union InDebug \union InInterrupt)'
  BY DEF InFlight, InThreads, InDebug, InInterrupt

(* A call posted to the debug thread is one more in the tasks. *)
LEMMA PostPlaces ==
    ASSUME DriverTypeOK, NEW op, NEW call, NEW bp, Post(op, call, bp)
    PROVE  /\ InTasks' = InTasks \union {call}
           /\ OnceInTasks /\ call \notin InTasks => OnceInTasks'
  <1>1. /\ DOMAIN tasks = 1 .. Len(tasks)
        /\ DOMAIN tasks' = 1 .. Len(tasks) + 1
        /\ \A i \in 1 .. Len(tasks) : tasks'[i] = tasks[i]
        /\ tasks'[Len(tasks) + 1].call = call
        /\ Len(tasks) \in Nat
    BY DEF Post, DriverTypeOK
  <1> QED
    BY <1>1 DEF InTasks, CallOf, OnceInTasks

(* Taking a task takes its call out of the tasks. *)
LEMMA TakePlaces ==
    ASSUME DriverTypeOK, NEW ops, Take(ops)
    PROVE  /\ InTasks = InTasks' \union {Head(tasks).call}
           /\ OnceInTasks => OnceInTasks' /\ Head(tasks).call \notin InTasks'
  <1>1. /\ DOMAIN tasks = 1 .. Len(tasks)
        /\ DOMAIN tasks' = 1 .. Len(tasks) - 1
        /\ \A i \in 1 .. Len(tasks) - 1 : tasks'[i] = tasks[i + 1]
        /\ Head(tasks) = tasks[1]
        /\ Len(tasks) \in Nat \ {0}
    BY DEF Take, DriverTypeOK
  <1>2. ASSUME NEW i \in DOMAIN tasks'
        PROVE  i + 1 \in DOMAIN tasks /\ i + 1 # 1 /\ tasks'[i] = tasks[i + 1] /\ i \in Nat
    BY <1>1
  <1>3. 1 \in DOMAIN tasks /\ \A i \in DOMAIN tasks \ {1} :
           i - 1 \in DOMAIN tasks' /\ tasks'[i - 1] = tasks[i]
    BY <1>1
  <1>4. InTasks' \subseteq InTasks /\ Head(tasks).call \in InTasks
    BY <1>1, <1>2, <1>3 DEF InTasks, CallOf
  <1>5. InTasks \subseteq InTasks' \union {Head(tasks).call}
    BY <1>1, <1>3 DEF InTasks, CallOf
  <1>6. ASSUME OnceInTasks PROVE OnceInTasks' /\ Head(tasks).call \notin InTasks'
    <2>1. Head(tasks).call \notin InTasks'
      BY <1>1, <1>2, <1>3, <1>6 DEF InTasks, CallOf, OnceInTasks
    <2>2. ASSUME NEW i \in DOMAIN tasks', NEW j \in DOMAIN tasks',
                 tasks'[i].call = tasks'[j].call
          PROVE  i = j
      <3>1. i + 1 = j + 1
        BY <1>2, <1>6, <2>2 DEF OnceInTasks
      <3> QED
        BY <1>2, <3>1
    <2> QED
      BY <2>1, <2>2 DEF OnceInTasks
  <1> QED
    BY <1>4, <1>5, <1>6

(* An answer is one more call in the replies, a thread event is none. *)
LEMMA AnswerPlaces ==
    ASSUME DriverTypeOK, NEW op, NEW call, NEW res, NEW bp, Answer(op, call, res, bp)
    PROVE  /\ InReplies' = IF op = "thread" THEN InReplies ELSE InReplies \union {call}
           /\ OnceInReplies /\ (op # "thread" => call \notin InReplies) => OnceInReplies'
  <1>1. /\ DOMAIN replies = 1 .. Len(replies)
        /\ DOMAIN replies' = 1 .. Len(replies) + 1
        /\ \A i \in 1 .. Len(replies) : replies'[i] = replies[i]
        /\ replies'[Len(replies) + 1].call = call
        /\ replies'[Len(replies) + 1].op = op
        /\ Len(replies) \in Nat
    BY DEF Answer, DriverTypeOK
  <1> DEFINE n == Len(replies) + 1
  <1>2. DOMAIN replies' = DOMAIN replies \union {n} /\ n \notin DOMAIN replies
    BY <1>1
  <1>3. \A i \in DOMAIN replies : replies'[i] = replies[i]
    BY <1>1
  <1>4. replies'[n].call = call /\ replies'[n].op = op
    BY <1>1
  <1> HIDE DEF n
  <1>5. InReplies' = IF op = "thread" THEN InReplies ELSE InReplies \union {call}
    BY <1>2, <1>3, <1>4 DEF InReplies
  <1>6. ASSUME OnceInReplies, op # "thread" => call \notin InReplies
        PROVE  OnceInReplies'
    BY <1>2, <1>3, <1>4, <1>6 DEF OnceInReplies, InReplies
  <1> QED
    BY <1>5, <1>6

(* Delivering a reply takes its call out of the replies. *)
LEMMA DeliverPlaces ==
    ASSUME DriverTypeOK, replies # <<>>, replies' = Tail(replies)
    PROVE  /\ InReplies = IF Head(replies).op = "thread" THEN InReplies'
                          ELSE InReplies' \union {Head(replies).call}
           /\ OnceInReplies =>
                 OnceInReplies' /\ (Head(replies).op # "thread" => Head(replies).call \notin InReplies')
  <1>1. /\ DOMAIN replies = 1 .. Len(replies)
        /\ DOMAIN replies' = 1 .. Len(replies) - 1
        /\ \A i \in 1 .. Len(replies) - 1 : replies'[i] = replies[i + 1]
        /\ Head(replies) = replies[1]
        /\ Len(replies) \in Nat \ {0}
    BY DEF DriverTypeOK
  <1>2. ASSUME NEW i \in DOMAIN replies'
        PROVE  i + 1 \in DOMAIN replies /\ i + 1 # 1 /\ replies'[i] = replies[i + 1] /\ i \in Nat
    BY <1>1
  <1>3. 1 \in DOMAIN replies /\ \A i \in DOMAIN replies \ {1} :
           i - 1 \in DOMAIN replies' /\ replies'[i - 1] = replies[i]
    BY <1>1
  <1>4. InReplies' \subseteq InReplies
    BY <1>2 DEF InReplies
  <1>5. Head(replies).op # "thread" => Head(replies).call \in InReplies
    BY <1>1, <1>3 DEF InReplies
  <1>6. ASSUME NEW call \in InReplies
        PROVE  call \in InReplies' \/ (Head(replies).op # "thread" /\ call = Head(replies).call)
    <2>1. PICK i \in DOMAIN replies : replies[i].op # "thread" /\ replies[i].call = call
      BY DEF InReplies
    <2>2. CASE i = 1
      BY <1>1, <2>1, <2>2
    <2>3. CASE i # 1
      BY <1>3, <2>1, <2>3 DEF InReplies
    <2> QED
      BY <2>2, <2>3
  <1>7. ASSUME OnceInReplies
        PROVE  OnceInReplies' /\ (Head(replies).op # "thread" => Head(replies).call \notin InReplies')
    <2>1. Head(replies).op # "thread" => Head(replies).call \notin InReplies'
      BY <1>1, <1>2, <1>3, <1>7 DEF InReplies, OnceInReplies
    <2>2. ASSUME NEW i \in DOMAIN replies', NEW j \in DOMAIN replies',
                 replies'[i].op # "thread", replies'[j].op # "thread",
                 replies'[i].call = replies'[j].call
          PROVE  i = j
      <3>1. i + 1 = j + 1
        BY <1>2, <1>7, <2>2 DEF OnceInReplies
      <3> QED
        BY <1>2, <3>1
    <2> QED
      BY <2>1, <2>2 DEF OnceInReplies
  <1> QED
    BY <1>4, <1>5, <1>6, <1>7

(* A queue that does not change keeps its calls. *)
LEMMA SamePlaces ==
    /\ UNCHANGED tasks => InTasks' = InTasks /\ (OnceInTasks' <=> OnceInTasks)
    /\ UNCHANGED replies => InReplies' = InReplies /\ (OnceInReplies' <=> OnceInReplies)
    /\ UNCHANGED dbgThread => InDebug' = InDebug
    /\ UNCHANGED interrupting => InInterrupt' = InInterrupt
  BY DEF InTasks, CallOf, OnceInTasks, InReplies, OnceInReplies, InDebug, InInterrupt

-----------------------------------------------------------------------------
(* The debug thread. *)

(* A task that is answered takes its call from one queue to the other. *)
LEMMA OnceAnswered ==
    ASSUME DriverOnce, NEW ops, Take(ops), NEW res, NEW bp, AnswerTask(res, bp),
           UNCHANGED <<dbgThread, interrupting>>
    PROVE  (Apart /\ OnceInTasks /\ OnceInReplies)' /\ InFlight' = InFlight
  <1>1. DriverTypeOK
    BY DEF DriverOnce
  <1>2. Head(tasks).op # "thread"
    BY <1>1, TakeRemoves DEF Task, TaskOps, ResumeOps, StepOps
  <1>3. /\ InTasks = InTasks' \union {Head(tasks).call}
        /\ OnceInTasks' /\ Head(tasks).call \notin InTasks'
    BY <1>1, TakePlaces DEF DriverOnce
  <1>4. Head(tasks).call \notin InReplies
    BY <1>3 DEF DriverOnce, Apart
  <1>5. InReplies' = InReplies \union {Head(tasks).call} /\ OnceInReplies'
    BY <1>1, <1>2, <1>4, AnswerPlaces DEF AnswerTask, DriverOnce
  <1> QED
    BY <1>3, <1>4, <1>5, SamePlaces, FlightIs DEF DriverOnce, Apart

(* A task the debug thread stays in keeps its call there. *)
LEMMA OnceKept ==
    ASSUME DriverOnce, NEW ops, Take(ops), dbgThread'.call = Head(tasks).call,
           UNCHANGED <<replies, interrupting>>
    PROVE  (Apart /\ OnceInTasks /\ OnceInReplies)' /\ InFlight' = InFlight
  <1>1. DriverTypeOK
    BY DEF DriverOnce
  <1>2. /\ InTasks = InTasks' \union {Head(tasks).call}
        /\ OnceInTasks' /\ Head(tasks).call \notin InTasks'
    BY <1>1, TakePlaces DEF DriverOnce
  <1>3. Head(tasks).call \in Calls
    BY <1>1, TakeRemoves DEF Task
  <1>4. InDebug = {} /\ InDebug' = {Head(tasks).call}
    BY <1>1, <1>3, CallsAssumption DEF InDebug, Take, DriverTypeOK
  <1> QED
    BY <1>2, <1>4, SamePlaces, FlightIs DEF DriverOnce, Apart

(* The end of a run takes its call from the debug thread to the replies. *)
LEMMA OnceRunEnds ==
    ASSUME DriverOnce, InWait, NEW res, NEW bp, EndRun(res, bp),
           UNCHANGED <<tasks, interrupting>>
    PROVE  (Apart /\ OnceInTasks /\ OnceInReplies)' /\ InFlight' = InFlight
  <1>1. DriverTypeOK
    BY DEF DriverOnce
  <1>2. dbgThread.call \in Calls
    BY <1>1 DEF DriverTypeOK
  <1>3. InDebug = {dbgThread.call} /\ InDebug' = {}
    BY <1>2, CallsAssumption DEF InDebug, EndRun
  <1>4. dbgThread.call \notin InReplies
    BY <1>3 DEF DriverOnce, Apart
  <1>5. InReplies' = InReplies \union {dbgThread.call} /\ OnceInReplies'
    BY <1>1, <1>4, AnswerPlaces DEF EndRun, DriverOnce
  <1> QED
    BY <1>3, <1>4, <1>5, SamePlaces, FlightIs DEF DriverOnce, Apart

(* A step that leaves the queues and the call of the debug thread alone. *)
LEMMA OnceUnmoved ==
    ASSUME DriverOnce, dbgThread'.call = dbgThread.call,
           UNCHANGED <<tasks, replies, interrupting>>
    PROVE  (Apart /\ OnceInTasks /\ OnceInReplies)' /\ InFlight' = InFlight
  BY SamePlaces, FlightIs DEF DriverOnce, Apart, InDebug

(* Every task keeps its call in one place. *)
LEMMA OnceRunTask ==
    ASSUME DriverOnce, RunTask
    PROVE  (Apart /\ OnceInTasks /\ OnceInReplies)' /\ InFlight' = InFlight
  <1> USE DEF TakeLive
  <1>1. CASE GoTask
    BY <1>1, OnceAnswered DEF GoTask
  <1>2. CASE StepTask
    BY <1>2, OnceAnswered DEF StepTask
  <1>3. CASE StepOutTask
    BY <1>3, OnceAnswered DEF StepOutTask
  <1>4. CASE HopTask
    BY <1>4, OnceAnswered DEF HopTask
  <1>5. CASE EndTask
    BY <1>5, OnceAnswered DEF EndTask
  <1>6. CASE CreateTask
    BY <1>6, OnceAnswered DEF CreateTask
  <1>7. CASE RemoveTask
    BY <1>7, OnceAnswered DEF RemoveTask
  <1>8. CASE QueryTask
    BY <1>8, OnceAnswered DEF QueryTask
  <1>9. CASE FrameTask
    BY <1>9, OnceAnswered, OnceKept DEF FrameTask
  <1>10. CASE WaitTask
    BY <1>10, OnceKept DEF WaitTask
  <1>11. CASE DanglingTask
    BY <1>11, OnceAnswered DEF DanglingTask
  <1> QED
    BY <1>1, <1>2, <1>3, <1>4, <1>5, <1>6, <1>7, <1>8, <1>9, <1>10, <1>11 DEF RunTask

(* Every event of the target does. *)
LEMMA OnceTargetEvent ==
    ASSUME DriverOnce, TargetEvent
    PROVE  (Apart /\ OnceInTasks /\ OnceInReplies)' /\ InFlight' = InFlight
  <1> USE DEF Waiting
  <1>1. CASE HitBreakpoint
    BY <1>1, OnceRunEnds DEF HitBreakpoint
  <1>2. CASE HitException
    BY <1>2, OnceRunEnds DEF HitException
  <1>3. CASE StepComplete
    BY <1>3, OnceRunEnds DEF StepComplete
  <1>4. CASE ProcessExits
    BY <1>4, OnceRunEnds DEF ProcessExits
  <1>5. CASE UnknownEvent
    BY <1>5, OnceRunEnds DEF UnknownEvent
  <1>6. CASE ThreadEvent
    <2>1. PICK res : Answer("thread", NoCall, res, NoBp)
      BY <1>6 DEF ThreadEvent
    <2>2. InReplies' = InReplies /\ OnceInReplies'
      BY <2>1, AnswerPlaces DEF DriverOnce
    <2>3. dbgThread'.call = dbgThread.call /\ UNCHANGED <<tasks, interrupting>>
      BY <1>6 DEF ThreadEvent, DriverOnce, DriverTypeOK
    <2> QED
      BY <2>2, <2>3, SamePlaces, FlightIs DEF DriverOnce, Apart, InDebug
  <1> QED
    BY <1>1, <1>2, <1>3, <1>4, <1>5, <1>6 DEF TargetEvent

(* Every step of wait() does. *)
LEMMA OnceWaitStep ==
    ASSUME DriverOnce, WaitStep
    PROVE  (Apart /\ OnceInTasks /\ OnceInReplies)' /\ InFlight' = InFlight
  <1> USE DEF DriverOnce, DriverTypeOK, Waiting
  <1>1. CASE ThreadEventContinue
    <2>1. CASE \E res, bp : EndRun(res, bp)
      BY <1>1, <2>1, OnceRunEnds DEF ThreadEventContinue
    <2>2. CASE ~\E res, bp : EndRun(res, bp)
      BY <1>1, <2>2, OnceUnmoved DEF ThreadEventContinue
    <2> QED
      BY <2>1, <2>2
  <1>2. CASE WaitForNothing
    BY <1>2, OnceRunEnds DEF WaitForNothing
  <1>3. CASE WaitInterrupted
    <2>1. CASE \E res, bp : EndRun(res, bp)
      BY <1>3, <2>1, OnceRunEnds DEF WaitInterrupted
    <2>2. CASE ~\E res, bp : EndRun(res, bp)
      BY <1>3, <2>2, OnceUnmoved DEF WaitInterrupted
    <2> QED
      BY <2>1, <2>2
  <1>4. CASE BreakIn
    BY <1>4, OnceRunEnds DEF BreakIn
  <1>5. CASE BreakInInterrupted
    BY <1>5, OnceRunEnds DEF BreakInInterrupted
  <1> QED
    BY <1>1, <1>2, <1>3, <1>4, <1>5 DEF WaitStep

(* The debug thread keeps the driver well typed, its runs apart and every  *)
(* call in one place, and neither takes up nor drops a call.               *)
DriverInv == DriverRuns /\ Apart /\ OnceInTasks /\ OnceInReplies

LEMMA DebugThreadKeeps ==
    ASSUME DriverInv, DebugThread
    PROVE  DriverInv' /\ InFlight' = InFlight
  <1>1. DriverTypeOK'
    BY TypeRunTask, TypeTargetEvent, TypeWaitStep DEF DebugThread, DriverInv, DriverRuns
  <1>2. (OneRun /\ RunMeansRunning)'
    BY RunsRunTask, RunsTargetEvent, RunsWaitStep DEF DebugThread, DriverInv
  <1>3. (Apart /\ OnceInTasks /\ OnceInReplies)' /\ InFlight' = InFlight
    <2>1. DriverOnce
      BY DEF DriverInv, DriverRuns, DriverOnce
    <2> QED
      BY <2>1, OnceRunTask, OnceTargetEvent, OnceWaitStep DEF DebugThread
  <1> QED
    BY <1>1, <1>2, <1>3 DEF DriverInv, DriverRuns

-----------------------------------------------------------------------------
(* The steps of a caller, as far as the driver sees them: DriverClient and *)
(* the debug adapter are two of them.  A new call takes a name that is not *)
(* in use, and a go or a step that succeeded is followed by its run.       *)

CallOps == ResumeOps \union {"end", "create", "query", "frame"}

NewCall(call) ==
    \/ \E op \in CallOps : Post(op, call, NoBp)
    \/ \E b \in BpIds : Post("remove", call, b)

Calling(call) ==
    /\ call \in Calls \ InFlight
    /\ NewCall(call)
    /\ UNCHANGED <<replies, dbgThread, interrupting, engineVars, session>>

Listing(call) == call \in Calls \ InFlight /\ GetThreads(call)

Pausing(call) == interrupting = NoCall /\ call \in Calls \ InFlight /\ PauseBegin(call)

Taking == interrupting = NoCall /\ replies # <<>> /\ replies' = Tail(replies)

Resuming == Head(replies).op \in ResumeOps /\ Head(replies).res = "ok"

RunsOn ==
    /\ Taking
    /\ Resuming
    /\ Post("wait", Head(replies).call, NoBp)
    /\ UNCHANGED <<dbgThread, interrupting, engineVars, session>>

Done ==
    /\ Taking
    /\ ~Resuming
    /\ UNCHANGED <<tasks, dbgThread, interrupting, engineVars, session>>

GoesOn(call) ==
    /\ Taking
    /\ ~Resuming
    /\ call \in Calls \ (InFlight \ {Head(replies).call})
    /\ NewCall(call)
    /\ UNCHANGED <<dbgThread, interrupting, engineVars, session>>

Caller ==
    \/ \E call : Calling(call) \/ Listing(call) \/ Pausing(call) \/ GoesOn(call)
    \/ PauseEnd \/ PauseFails \/ RunsOn \/ Done
    \/ PauseStopped

(* Every step of a caller leaves the driver well typed. *)
LEMMA TypeCaller ==
    ASSUME DriverTypeOK, Caller PROVE DriverTypeOK'
  <1> USE CallsAssumption, FlagsAssumption
  <1>1. CallOps \union {"remove", "hop", "wait"} \subseteq TaskOps
    BY DEF CallOps, TaskOps, ResumeOps, StepOps
  <1>2. ASSUME NEW call \in Calls, NewCall(call) PROVE tasks' \in Seq(Task)
    BY <1>1, <1>2, PostAppends DEF NewCall
  <1>3. ASSUME Taking PROVE Head(replies) \in Reply /\ replies' \in Seq(Reply)
    BY <1>3 DEF Taking, DriverTypeOK
  <1>4. ASSUME NEW call, Calling(call) PROVE DriverTypeOK'
    <2>1. tasks' \in Seq(Task)
      BY <1>2, <1>4 DEF Calling
    <2> QED
      BY <1>4, <2>1 DEF Calling, DriverTypeOK, engineVars
  <1>5. ASSUME NEW call, Listing(call) PROVE DriverTypeOK'
    <2>1. replies' \in Seq(Reply)
      BY <1>1, <1>5, AnswerAppends DEF Listing, GetThreads, Results, CallOps
    <2> QED
      BY <1>5, <2>1 DEF Listing, GetThreads, DriverTypeOK, engineVars
  <1>6. ASSUME NEW call, Pausing(call) PROVE DriverTypeOK'
    BY <1>6 DEF Pausing, PauseBegin, UseSession, DriverTypeOK, engineVars
  <1>7. CASE PauseEnd
    <2>1. tasks' \in Seq(Task)
      BY <1>1, <1>7, PostAppends DEF PauseEnd, DriverTypeOK
    <2>2. exitInterrupt' \in BOOLEAN
      BY <1>7 DEF PauseEnd
    <2> QED
      BY <1>7, <2>1, <2>2 DEF PauseEnd, UseSession, DriverTypeOK
  <1>8. CASE PauseFails
    BY <1>8 DEF PauseFails, UseSession, DriverTypeOK, engineVars
  <1>9. CASE RunsOn
    <2>1. Head(replies).call \in Calls /\ replies' \in Seq(Reply)
      BY <1>3, <1>9 DEF RunsOn, Resuming, Reply, ResumeOps, StepOps
    <2>2. tasks' \in Seq(Task)
      BY <1>1, <1>9, <2>1, PostAppends DEF RunsOn
    <2> QED
      BY <1>9, <2>1, <2>2 DEF RunsOn, DriverTypeOK, engineVars
  <1>10. CASE Done
    BY <1>3, <1>10 DEF Done, DriverTypeOK, engineVars
  <1>11. ASSUME NEW call, GoesOn(call) PROVE DriverTypeOK'
    <2>1. tasks' \in Seq(Task) /\ replies' \in Seq(Reply)
      BY <1>2, <1>3, <1>11 DEF GoesOn
    <2> QED
      BY <1>11, <2>1 DEF GoesOn, DriverTypeOK, engineVars
  <1>12. CASE PauseStopped
    BY <1>12 DEF PauseStopped, UseSession, DriverTypeOK, engineVars
  <1> QED
    BY <1>4, <1>5, <1>6, <1>7, <1>8, <1>9, <1>10, <1>11, <1>12 DEF Caller

(* Every step of a caller keeps the runs apart. *)
LEMMA RunsCaller ==
    ASSUME DriverRuns, Caller PROVE (OneRun /\ RunMeansRunning)'
  <1>1. DriverTypeOK
    BY DEF DriverRuns
  <1>2. ASSUME NEW call, NewCall(call)
        PROVE  (OneTask => OneTask') /\ (TaskInFlight' => TaskInFlight)
    <2>1. "wait" \notin CallOps \union {"remove"}
      BY DEF CallOps, ResumeOps, StepOps
    <2>2. PICK op, bp : Post(op, call, bp) /\ op # "wait"
      BY <1>2, <2>1 DEF NewCall
    <2> QED
      BY <1>1, <2>2, QuietPost
  <1>3. ASSUME (OneTask => OneTask') /\ (TaskInFlight' => TaskInFlight),
               (OneReply => OneReply') /\ (ReplyInFlight' => ReplyInFlight),
               UNCHANGED <<dbgThread, status>>, UseSession \/ UNCHANGED session
        PROVE  (OneRun /\ RunMeansRunning)'
    BY <1>3 DEF DriverRuns, OneRun, RunMeansRunning, RunInFlight, Running, OneReply, OneTask,
                UseSession, SessionGone
  <1>4. ASSUME NEW call, Calling(call) PROVE (OneRun /\ RunMeansRunning)'
    BY <1>2, <1>3, <1>4, SameReplies DEF Calling, engineVars
  <1>5. ASSUME NEW call, Listing(call) PROVE (OneRun /\ RunMeansRunning)'
    <2>1. "query" \notin ResumeOps
      BY DEF ResumeOps, StepOps
    <2>2. (OneReply => OneReply') /\ (ReplyInFlight' => ReplyInFlight)
      BY <1>1, <1>5, <2>1, QuietAnswer DEF Listing, GetThreads
    <2> QED
      BY <1>3, <1>5, <2>2, SameTasks DEF Listing, GetThreads, engineVars
  <1>6. ASSUME NEW call, Pausing(call) PROVE (OneRun /\ RunMeansRunning)'
    BY <1>3, <1>6, SameTasks, SameReplies DEF Pausing, PauseBegin, engineVars
  <1>7. CASE PauseEnd
    <2>1. Post("hop", interrupting, NoBp) /\ UNCHANGED <<replies, dbgThread, status>> /\ UseSession
      BY <1>7 DEF PauseEnd
    <2> QED
      BY <1>1, <1>3, <2>1, QuietPost, SameReplies
  <1>8. CASE PauseFails
    BY <1>3, <1>8, SameTasks, SameReplies DEF PauseFails, engineVars
  <1>9. CASE RunsOn
    <2>1. /\ replies # <<>> /\ replies' = Tail(replies)
          /\ Head(replies).op \in ResumeOps /\ Head(replies).res = "ok"
          /\ Post("wait", Head(replies).call, NoBp)
          /\ UNCHANGED <<dbgThread, status, session>>
      BY <1>9 DEF RunsOn, Taking, Resuming, engineVars
    <2>2. SUFFICES ASSUME session # "dangling" PROVE (OneRun /\ RunMeansRunning)'
      BY <2>1 DEF OneRun, RunMeansRunning
    <2>3. OneReply' /\ ReplyInFlight /\ ~ReplyInFlight'
      BY <1>1, <2>1, <2>2, DeliverTokens DEF DriverRuns, OneRun, OneReply
    <2>4. ~TaskInFlight /\ ~InWait
      BY <2>2, <2>3 DEF DriverRuns, OneRun
    <2>5. OneTask'
      BY <1>1, <2>1, <2>4, WaitingPost
    <2> QED
      BY <2>1, <2>3, <2>4, <2>5
         DEF DriverRuns, OneRun, RunMeansRunning, RunInFlight, Running, OneReply, OneTask
  <1>10. CASE Done
    BY <1>1, <1>3, <1>10, SameTasks, DeliverTokens DEF Done, Taking, engineVars
  <1>11. ASSUME NEW call, GoesOn(call) PROVE (OneRun /\ RunMeansRunning)'
    BY <1>1, <1>2, <1>3, <1>11, DeliverTokens DEF GoesOn, Taking, engineVars
  <1>12. CASE PauseStopped
    BY <1>3, <1>12, SameTasks, SameReplies DEF PauseStopped, engineVars
  <1> QED
    BY <1>4, <1>5, <1>6, <1>7, <1>8, <1>9, <1>10, <1>11, <1>12 DEF Caller

(* A post under a name that is not in use is one more call in flight. *)
LEMMA OncePosted ==
    ASSUME DriverOnce, NEW op, NEW call, NEW bp, Post(op, call, bp), call \notin InFlight,
           UNCHANGED <<replies, dbgThread, interrupting>>
    PROVE  /\ (Apart /\ OnceInTasks /\ OnceInReplies)'
           /\ InFlight' = InFlight \union {call}
  <1>1. InTasks' = InTasks \union {call} /\ OnceInTasks'
    BY PostPlaces, FlightIs DEF DriverOnce
  <1>2. /\ InReplies' = InReplies /\ InDebug' = InDebug /\ InInterrupt' = InInterrupt
        /\ OnceInReplies'
    BY SamePlaces DEF DriverOnce
  <1> QED
    BY <1>1, <1>2, FlightIs DEF DriverOnce, Apart

(* What delivering a reply leaves: its call is in flight no more. *)
LEMMA OnceTaken ==
    ASSUME DriverOnce, Taking, UNCHANGED <<dbgThread, interrupting>>
    PROVE  /\ OnceInReplies'
           /\ InReplies' \subseteq InReplies
           /\ Head(replies).call \notin InReplies' \union InTasks \union InDebug \union InInterrupt
           /\ InFlight \ {Head(replies).call} = InTasks \union InReplies' \union InDebug \union InInterrupt
  <1>1. DriverTypeOK /\ Head(replies) \in Reply
    BY DEF DriverOnce, Taking, DriverTypeOK
  <1>2. /\ InReplies = IF Head(replies).op = "thread" THEN InReplies'
                       ELSE InReplies' \union {Head(replies).call}
        /\ OnceInReplies'
        /\ Head(replies).op # "thread" => Head(replies).call \notin InReplies'
    BY <1>1, DeliverPlaces DEF DriverOnce, Taking
  <1>3. CASE Head(replies).op = "thread"
    <2>1. Head(replies).call = NoCall
      BY <1>1, <1>3 DEF Reply, TaskOps, ResumeOps, StepOps
    <2>2. InTasks \subseteq Calls /\ InReplies \subseteq Calls
      <3>1. \A i \in DOMAIN tasks : tasks[i] \in Task
        BY <1>1 DEF DriverTypeOK
      <3>2. \A i \in DOMAIN replies : replies[i] \in Reply
        BY <1>1 DEF DriverTypeOK
      <3> QED
        BY <3>1, <3>2 DEF InTasks, CallOf, Task, InReplies, Reply
    <2> QED
      BY <1>2, <1>3, <2>1, <2>2, CallsAssumption, FlightIs DEF InDebug, InInterrupt
  <1>4. CASE Head(replies).op # "thread"
    BY <1>2, <1>4, FlightIs DEF DriverOnce, Apart
  <1> QED
    BY <1>2, <1>3, <1>4

(* Every step of a caller keeps each call in one place, and takes up and   *)
(* drops the calls it is about.                                            *)
LEMMA OnceCaller ==
    ASSUME DriverOnce
    PROVE  /\ Caller => (Apart /\ OnceInTasks /\ OnceInReplies)'
           /\ \A call : Calling(call) \/ Listing(call) \/ Pausing(call)
                        => InFlight' = InFlight \union {call}
           /\ PauseStopped \/ PauseEnd \/ RunsOn => InFlight' = InFlight
           /\ PauseFails => InFlight' = InFlight \ {interrupting}
           /\ Done => InFlight' = InFlight \ {Head(replies).call}
           /\ \A call : GoesOn(call) => InFlight' = (InFlight \ {Head(replies).call}) \union {call}
  <1> DEFINE Kept == (Apart /\ OnceInTasks /\ OnceInReplies)'
  <1>1. DriverTypeOK
    BY DEF DriverOnce
  <1>2. ASSUME NEW call, Calling(call) PROVE Kept /\ InFlight' = InFlight \union {call}
    BY <1>2, OncePosted DEF Calling, NewCall
  <1>3. ASSUME NEW call, Listing(call) PROVE Kept /\ InFlight' = InFlight \union {call}
    <2>1. call \notin InReplies /\ Answer("query", call, "ok", NoBp)
      BY <1>3, FlightIs DEF Listing, GetThreads
    <2>2. InReplies' = InReplies \union {call} /\ OnceInReplies'
      BY <1>1, <2>1, AnswerPlaces DEF DriverOnce
    <2>3. /\ InTasks' = InTasks /\ InDebug' = InDebug /\ InInterrupt' = InInterrupt
          /\ OnceInTasks'
      BY <1>3, SamePlaces DEF Listing, GetThreads, DriverOnce
    <2> QED
      BY <1>3, <2>2, <2>3, FlightIs DEF Listing, DriverOnce, Apart
  <1>4. ASSUME NEW call, Pausing(call) PROVE Kept /\ InFlight' = InFlight \union {call}
    <2>1. InInterrupt = {} /\ InInterrupt' = {call}
      BY <1>4, CallsAssumption DEF Pausing, PauseBegin, InInterrupt
    <2>2. /\ InTasks' = InTasks /\ InReplies' = InReplies /\ InDebug' = InDebug
          /\ OnceInTasks' /\ OnceInReplies'
      BY <1>4, SamePlaces DEF Pausing, PauseBegin, DriverOnce
    <2> QED
      BY <1>4, <2>1, <2>2, FlightIs DEF Pausing, DriverOnce, Apart
  <1>5. ASSUME PauseEnd PROVE Kept /\ InFlight' = InFlight
    <2>1. /\ interrupting # NoCall /\ interrupting' = NoCall
          /\ Post("hop", interrupting, NoBp)
          /\ UNCHANGED <<replies, dbgThread>>
      BY <1>5 DEF PauseEnd
    <2>2. InInterrupt = {interrupting} /\ InInterrupt' = {}
      BY <2>1 DEF InInterrupt
    <2>3. InTasks' = InTasks \union {interrupting} /\ OnceInTasks'
      BY <1>1, <2>1, <2>2, PostPlaces DEF DriverOnce, Apart
    <2>4. InReplies' = InReplies /\ InDebug' = InDebug /\ OnceInReplies'
      BY <2>1, SamePlaces DEF DriverOnce
    <2> QED
      BY <2>2, <2>3, <2>4, FlightIs DEF DriverOnce, Apart
  <1>6. ASSUME PauseFails PROVE Kept /\ InFlight' = InFlight \ {interrupting}
    <2>1. /\ interrupting # NoCall /\ interrupting' = NoCall
          /\ UNCHANGED <<tasks, replies, dbgThread>>
      BY <1>6 DEF PauseFails
    <2>2. InInterrupt = {interrupting} /\ InInterrupt' = {}
      BY <2>1 DEF InInterrupt
    <2>3. /\ InTasks' = InTasks /\ InReplies' = InReplies /\ InDebug' = InDebug
          /\ OnceInTasks' /\ OnceInReplies'
      BY <2>1, SamePlaces DEF DriverOnce
    <2> QED
      BY <2>2, <2>3, FlightIs DEF DriverOnce, Apart
  <1> DEFINE r == Head(replies)
  <1>7. ASSUME RunsOn PROVE Kept /\ InFlight' = InFlight
    <2>1. /\ Post("wait", r.call, NoBp) /\ Taking /\ UNCHANGED <<dbgThread, interrupting>>
          /\ r.op # "thread" /\ 1 \in DOMAIN replies /\ r = replies[1]
      BY <1>1, <1>7 DEF RunsOn, Resuming, ResumeOps, StepOps, Taking, DriverTypeOK
    <2>2. r.call \in InReplies
      BY <2>1 DEF InReplies
    <2>3. InTasks' = InTasks \union {r.call} /\ OnceInTasks'
      BY <1>1, <2>1, OnceTaken, PostPlaces DEF DriverOnce
    <2>4. InDebug' = InDebug /\ InInterrupt' = InInterrupt
      BY <2>1, SamePlaces
    <2> HIDE DEF r
    <2> QED
      BY <2>1, <2>2, <2>3, <2>4, OnceTaken, FlightIs DEF DriverOnce, Apart, r
  <1>8. ASSUME Done PROVE Kept /\ InFlight' = InFlight \ {r.call}
    <2>1. Taking /\ UNCHANGED <<tasks, dbgThread, interrupting>>
      BY <1>8 DEF Done
    <2>2. InTasks' = InTasks /\ InDebug' = InDebug /\ InInterrupt' = InInterrupt /\ OnceInTasks'
      BY <2>1, SamePlaces DEF DriverOnce
    <2> QED
      BY <2>1, <2>2, OnceTaken, FlightIs DEF DriverOnce, Apart
  <1>9. ASSUME NEW call, GoesOn(call)
        PROVE  Kept /\ InFlight' = (InFlight \ {r.call}) \union {call}
    <2>1. /\ Taking /\ UNCHANGED <<dbgThread, interrupting>>
          /\ call \notin InFlight \ {r.call}
          /\ \E op, bp : Post(op, call, bp)
      BY <1>9 DEF GoesOn, NewCall
    <2>2. call \notin InTasks \union InReplies' \union InDebug \union InInterrupt
      BY <2>1, OnceTaken
    <2>3. InTasks' = InTasks \union {call} /\ OnceInTasks'
      BY <1>1, <2>1, <2>2, PostPlaces DEF DriverOnce
    <2>4. InDebug' = InDebug /\ InInterrupt' = InInterrupt
      BY <2>1, SamePlaces
    <2> QED
      BY <2>1, <2>2, <2>3, <2>4, OnceTaken, FlightIs DEF DriverOnce, Apart
  <1>10. ASSUME PauseStopped PROVE Kept /\ InFlight' = InFlight
    <2>1. UNCHANGED <<tasks, replies, dbgThread, interrupting>>
      BY <1>10 DEF PauseStopped
    <2> QED
      BY <2>1, OnceUnmoved
  <1> QED
    BY <1>2, <1>3, <1>4, <1>5, <1>6, <1>7, <1>8, <1>9, <1>10 DEF Caller

(* The caller keeps the driver well typed, its runs apart and every call   *)
(* in one place.                                                           *)
LEMMA CallerKeeps ==
    ASSUME DriverInv, Caller PROVE DriverInv'
  <1>1. DriverRuns /\ DriverTypeOK /\ DriverOnce
    BY DEF DriverInv, DriverRuns, DriverOnce
  <1> QED
    BY <1>1, TypeCaller, RunsCaller, OnceCaller DEF DriverInv, DriverRuns

(* What the driver is when it begins. *)
LEMMA DriverBegins == DriverInit => DriverInv /\ InFlight = {}
  <1> SUFFICES ASSUME DriverInit PROVE DriverInv /\ InFlight = {}
    OBVIOUS
  <1>1. tasks \in Seq(Task) /\ replies \in Seq(Reply) /\ tasks = <<>> /\ replies = <<>>
    BY DEF DriverInit
  <1>2. DriverTypeOK
    BY <1>1 DEF DriverInit, DriverTypeOK
  <1>3. InTasks = {} /\ InReplies = {} /\ InDebug = {} /\ InInterrupt = {}
    BY <1>1 DEF DriverInit, InTasks, CallOf, InReplies, InDebug, InInterrupt
  <1>4. OneRun /\ RunMeansRunning
    BY <1>1 DEF DriverInit, OneRun, RunMeansRunning, RunInFlight, ReplyInFlight, TaskInFlight
  <1> QED
    BY <1>1, <1>2, <1>3, <1>4, FlightIs
       DEF DriverInv, DriverRuns, Apart, OnceInTasks, OnceInReplies

(* A step that leaves the driver alone keeps all of this. *)
LEMMA DriverUnchanged ==
    ASSUME DriverInv, UNCHANGED driverVars PROVE DriverInv' /\ InFlight' = InFlight
  <1>1. DriverTypeOK'
    BY DEF DriverInv, DriverRuns, DriverTypeOK, driverVars
  <1>2. (OneRun /\ RunMeansRunning)'
    BY SameTasks, SameReplies
       DEF driverVars, DriverInv, DriverRuns, OneRun, RunMeansRunning, RunInFlight, Running,
           OneReply, OneTask
  <1>3. (Apart /\ OnceInTasks /\ OnceInReplies)' /\ InFlight' = InFlight
    <2>1. DriverOnce
      BY DEF DriverInv, DriverRuns, DriverOnce
    <2> QED
      BY <2>1, OnceUnmoved DEF driverVars
  <1> QED
    BY <1>1, <1>2, <1>3 DEF DriverInv, DriverRuns

-----------------------------------------------------------------------------
(* The order of the calls.  The debug thread takes its tasks in order, one *)
(* at a time, and answers them in order: the replies, what the debug       *)
(* thread is in and the tasks are one queue, in which nothing overtakes    *)
(* another.  Of a call it matters what is asked or answered: its kind.     *)

KindOf(x) == <<x.op, x.call>>

Kinds(s) == {KindOf(s[i]) : i \in DOMAIN s}

DebugKinds ==
    IF InWait THEN {<<"wait", dbgThread.call>>}
    ELSE IF dbgThread.at = "dead" THEN {<<"frame", dbgThread.call>>} ELSE {}

ThreadKind == <<"thread", NoCall>>

AllKinds(ts, d, rs) == Kinds(ts) \union d \union (Kinds(rs) \ {ThreadKind})

Pipe == AllKinds(tasks, DebugKinds, replies)

(* Of a queue s: whatever is of a kind in E comes before whatever is of a  *)
(* kind in L.                                                              *)
Before(E, L, s) == \A i, j \in DOMAIN s : KindOf(s[i]) \in L /\ KindOf(s[j]) \in E => j < i

(* The same of tasks ts, what the debug thread is in d, and replies rs. *)
Ordered(E, L, ts, d, rs) ==
    /\ Before(E, L, ts)
    /\ Before(E, L, rs)
    /\ Kinds(rs) \intersect L # {} => d \intersect E = {} /\ Kinds(ts) \intersect E = {}
    /\ d \intersect L # {} => Kinds(ts) \intersect E = {}

InOrder(E, L) == Ordered(E, L, tasks, DebugKinds, replies)

(* The kinds of a queue and of the queue without its head. *)
LEMMA TailKinds ==
    ASSUME NEW S, NEW s \in Seq(S), s # <<>>
    PROVE  /\ Kinds(s) = {KindOf(Head(s))} \union Kinds(Tail(s))
           /\ \A i \in DOMAIN Tail(s) : i + 1 \in DOMAIN s /\ Tail(s)[i] = s[i + 1] /\ i \in Nat
           /\ \A i \in DOMAIN s : i # 1 => i - 1 \in DOMAIN Tail(s) /\ Tail(s)[i - 1] = s[i] /\ i \in Nat
           /\ 1 \in DOMAIN s /\ Head(s) = s[1]
  <1>1. /\ DOMAIN s = 1 .. Len(s)
        /\ DOMAIN Tail(s) = 1 .. Len(s) - 1
        /\ \A i \in 1 .. Len(s) - 1 : Tail(s)[i] = s[i + 1]
        /\ Head(s) = s[1]
        /\ Len(s) \in Nat \ {0}
    OBVIOUS
  <1>2. \A i \in DOMAIN Tail(s) : i + 1 \in DOMAIN s /\ Tail(s)[i] = s[i + 1] /\ i \in Nat
    BY <1>1
  <1>3. \A i \in DOMAIN s : i # 1 => i - 1 \in DOMAIN Tail(s) /\ Tail(s)[i - 1] = s[i] /\ i \in Nat
    BY <1>1
  <1>4. 1 \in DOMAIN s /\ Head(s) = s[1]
    BY <1>1
  <1> DEFINE t == Tail(s)
             h == Head(s)
  <1> HIDE DEF t, h
  <1>5. Kinds(t) \subseteq Kinds(s) /\ KindOf(h) \in Kinds(s)
    BY <1>2, <1>4 DEF Kinds, t, h
  <1>6. ASSUME NEW k \in Kinds(s) PROVE k = KindOf(h) \/ k \in Kinds(t)
    <2>1. PICK i \in DOMAIN s : k = KindOf(s[i])
      BY DEF Kinds
    <2> QED
      BY <1>3, <1>4, <2>1 DEF Kinds, t, h
  <1> QED
    BY <1>2, <1>3, <1>4, <1>5, <1>6 DEF t, h

(* The kinds of a queue with one more element. *)
LEMMA AppendKinds ==
    ASSUME NEW S, NEW s \in Seq(S), NEW x
    PROVE  /\ Kinds(Append(s, x)) = Kinds(s) \union {KindOf(x)}
           /\ DOMAIN Append(s, x) = DOMAIN s \union {Len(s) + 1}
           /\ \A i \in DOMAIN s : i < Len(s) + 1 /\ i \in Nat /\ Append(s, x)[i] = s[i]
           /\ Append(s, x)[Len(s) + 1] = x
           /\ Len(s) + 1 \in Nat
  <1> DEFINE n == Len(s) + 1
  <1>1. /\ DOMAIN Append(s, x) = DOMAIN s \union {n}
        /\ \A i \in DOMAIN s : i < n /\ i \in Nat /\ Append(s, x)[i] = s[i]
        /\ Append(s, x)[n] = x
        /\ n \in Nat
    OBVIOUS
  <1> HIDE DEF n
  <1>2. Kinds(Append(s, x)) = Kinds(s) \union {KindOf(x)}
    BY <1>1 DEF Kinds
  <1> QED
    BY <1>1, <1>2 DEF n

(* Order of one queue, without its head and with one more element. *)
LEMMA TailBefore ==
    ASSUME NEW S, NEW s \in Seq(S), s # <<>>, NEW E, NEW L, Before(E, L, s)
    PROVE  /\ Before(E, L, Tail(s))
           /\ KindOf(Head(s)) \in L => Kinds(Tail(s)) \intersect E = {}
  <1>1. ASSUME NEW i \in DOMAIN Tail(s), NEW j \in DOMAIN Tail(s),
               KindOf(Tail(s)[i]) \in L, KindOf(Tail(s)[j]) \in E
        PROVE  j < i
    <2>1. /\ i + 1 \in DOMAIN s /\ j + 1 \in DOMAIN s /\ i \in Nat /\ j \in Nat
          /\ Tail(s)[i] = s[i + 1] /\ Tail(s)[j] = s[j + 1]
      BY TailKinds
    <2>2. j + 1 < i + 1
      BY <1>1, <2>1 DEF Before
    <2> QED
      BY <2>1, <2>2
  <1>2. ASSUME KindOf(Head(s)) \in L, NEW j \in DOMAIN Tail(s), KindOf(Tail(s)[j]) \in E
        PROVE  FALSE
    <2>1. j + 1 \in DOMAIN s /\ j \in Nat /\ Tail(s)[j] = s[j + 1] /\ 1 \in DOMAIN s /\ Head(s) = s[1]
      BY TailKinds
    <2>2. j + 1 < 1
      BY <1>2, <2>1 DEF Before
    <2>3. DOMAIN Tail(s) = 1 .. Len(s) - 1
      OBVIOUS
    <2> QED
      BY <2>1, <2>2, <2>3
  <1> QED
    BY <1>1, <1>2 DEF Before, Kinds

LEMMA AppendBefore ==
    ASSUME NEW S, NEW s \in Seq(S), NEW x, NEW E, NEW L, Before(E, L, s),
           KindOf(x) \in E => Kinds(s) \intersect L = {} /\ KindOf(x) \notin L
    PROVE  Before(E, L, Append(s, x))
  <1> DEFINE n == Len(s) + 1
             t == Append(s, x)
  <1>1. /\ DOMAIN t = DOMAIN s \union {n}
        /\ \A i \in DOMAIN s : i < n /\ i \in Nat /\ t[i] = s[i]
        /\ t[n] = x
        /\ n \in Nat
    BY AppendKinds
  <1> HIDE DEF n, t
  <1>2. ASSUME NEW i \in DOMAIN t, NEW j \in DOMAIN t, KindOf(t[i]) \in L, KindOf(t[j]) \in E
        PROVE  j < i
    <2>1. CASE j \in DOMAIN s /\ i \in DOMAIN s
      BY <1>1, <1>2, <2>1 DEF Before
    <2>2. CASE j \in DOMAIN s /\ i = n
      BY <1>1, <2>2
    <2>3. CASE j = n
      <3>1. Kinds(s) \intersect L = {} /\ KindOf(x) \notin L
        BY <1>1, <1>2, <2>3
      <3> QED
        BY <1>1, <1>2, <3>1 DEF Kinds
    <2> QED
      BY <1>1, <2>1, <2>2, <2>3
  <1> QED
    BY <1>2 DEF Before, t

(* What the debug thread does to the two queues and to itself: it answers  *)
(* the task it takes, stays in it, answers what it stayed in, does nothing *)
(* the queues show, or notifies the callback thread.                       *)
Answers(ts, d, rs, tn, dn, rn) ==
    /\ ts # <<>> /\ tn = Tail(ts) /\ d = {} /\ dn = {}
    /\ \E x : rn = Append(rs, x) /\ KindOf(x) = KindOf(Head(ts))

StaysIn(ts, d, rs, tn, dn, rn) ==
    ts # <<>> /\ tn = Tail(ts) /\ d = {} /\ dn = {KindOf(Head(ts))} /\ rn = rs

Leaves(ts, d, rs, tn, dn, rn) ==
    /\ tn = ts /\ dn = {}
    /\ \E x : rn = Append(rs, x) /\ d = {KindOf(x)}

Notifies(ts, d, rs, tn, dn, rn) ==
    /\ tn = ts /\ dn = d
    /\ rn = rs \/ \E x : rn = Append(rs, x) /\ KindOf(x) = ThreadKind

Moves(ts, d, rs, tn, dn, rn) ==
    \/ Answers(ts, d, rs, tn, dn, rn)
    \/ StaysIn(ts, d, rs, tn, dn, rn)
    \/ Leaves(ts, d, rs, tn, dn, rn)
    \/ Notifies(ts, d, rs, tn, dn, rn)

(* Such a step lets nothing overtake anything, and nothing be lost. *)
LEMMA MovesOrdered ==
    ASSUME NEW S, NEW ts \in Seq(S), NEW tn, NEW d, NEW dn, NEW R, NEW rs \in Seq(R), NEW rn,
           NEW E, NEW L, E \intersect L = {}, ThreadKind \notin E \union L,
           Ordered(E, L, ts, d, rs), Moves(ts, d, rs, tn, dn, rn)
    PROVE  Ordered(E, L, tn, dn, rn)
  <1>1. CASE Answers(ts, d, rs, tn, dn, rn)
    <2>1. PICK x : rn = Append(rs, x) /\ KindOf(x) = KindOf(Head(ts))
      BY <1>1 DEF Answers
    <2>2. /\ Kinds(ts) = {KindOf(x)} \union Kinds(tn)
          /\ Kinds(rn) = Kinds(rs) \union {KindOf(x)}
      BY <1>1, <2>1, TailKinds, AppendKinds DEF Answers
    <2>3. Before(E, L, tn) /\ (KindOf(x) \in L => Kinds(tn) \intersect E = {})
      BY <1>1, <2>1, TailBefore DEF Answers, Ordered
    <2>4. Before(E, L, rn)
      BY <2>1, <2>2, AppendBefore DEF Ordered
    <2> QED
      BY <1>1, <2>2, <2>3, <2>4 DEF Answers, Ordered
  <1>2. CASE StaysIn(ts, d, rs, tn, dn, rn)
    <2>1. Kinds(ts) = {KindOf(Head(ts))} \union Kinds(tn)
      BY <1>2, TailKinds DEF StaysIn
    <2>2. Before(E, L, tn) /\ (KindOf(Head(ts)) \in L => Kinds(tn) \intersect E = {})
      BY <1>2, TailBefore DEF StaysIn, Ordered
    <2> QED
      BY <1>2, <2>1, <2>2 DEF StaysIn, Ordered
  <1>3. CASE Leaves(ts, d, rs, tn, dn, rn)
    <2>1. PICK x : rn = Append(rs, x) /\ d = {KindOf(x)}
      BY <1>3 DEF Leaves
    <2>2. Kinds(rn) = Kinds(rs) \union {KindOf(x)}
      BY <2>1, AppendKinds
    <2>3. Before(E, L, rn)
      BY <2>1, <2>2, AppendBefore DEF Ordered
    <2> QED
      BY <1>3, <2>1, <2>2, <2>3 DEF Leaves, Ordered
  <1>4. CASE Notifies(ts, d, rs, tn, dn, rn)
    <2>1. CASE rn = rs
      BY <1>4, <2>1 DEF Notifies, Ordered
    <2>2. CASE \E x : rn = Append(rs, x) /\ KindOf(x) = ThreadKind
      <3>1. PICK x : rn = Append(rs, x) /\ KindOf(x) = ThreadKind
        BY <2>2
      <3>2. Kinds(rn) = Kinds(rs) \union {KindOf(x)}
        BY <3>1, AppendKinds
      <3>3. Before(E, L, rn)
        BY <3>1, <3>2, AppendBefore DEF Ordered
      <3> QED
        BY <1>4, <3>1, <3>2, <3>3 DEF Notifies, Ordered
    <2> QED
      BY <1>4, <2>1, <2>2 DEF Notifies
  <1> QED
    BY <1>1, <1>2, <1>3, <1>4 DEF Moves

LEMMA MovesKinds ==
    ASSUME NEW S, NEW ts \in Seq(S), NEW tn, NEW d, NEW dn, NEW R, NEW rs \in Seq(R), NEW rn,
           ThreadKind \notin Kinds(ts) \union d, Moves(ts, d, rs, tn, dn, rn)
    PROVE  AllKinds(tn, dn, rn) = AllKinds(ts, d, rs)
  <1> USE DEF AllKinds
  <1>1. CASE Answers(ts, d, rs, tn, dn, rn)
    <2>1. PICK x : rn = Append(rs, x) /\ KindOf(x) = KindOf(Head(ts))
      BY <1>1 DEF Answers
    <2>2. /\ Kinds(ts) = {KindOf(x)} \union Kinds(tn)
          /\ Kinds(rn) = Kinds(rs) \union {KindOf(x)}
      BY <1>1, <2>1, TailKinds, AppendKinds DEF Answers
    <2> QED
      BY <1>1, <2>2 DEF Answers
  <1>2. CASE StaysIn(ts, d, rs, tn, dn, rn)
    <2>1. Kinds(ts) = {KindOf(Head(ts))} \union Kinds(tn)
      BY <1>2, TailKinds DEF StaysIn
    <2> QED
      BY <1>2, <2>1 DEF StaysIn
  <1>3. CASE Leaves(ts, d, rs, tn, dn, rn)
    <2>1. PICK x : rn = Append(rs, x) /\ d = {KindOf(x)}
      BY <1>3 DEF Leaves
    <2>2. Kinds(rn) = Kinds(rs) \union {KindOf(x)}
      BY <2>1, AppendKinds
    <2> QED
      BY <1>3, <2>1, <2>2 DEF Leaves
  <1>4. CASE Notifies(ts, d, rs, tn, dn, rn)
    <2>1. CASE \E x : rn = Append(rs, x) /\ KindOf(x) = ThreadKind
      <3>1. PICK x : rn = Append(rs, x) /\ KindOf(x) = ThreadKind
        BY <2>1
      <3>2. Kinds(rn) = Kinds(rs) \union {ThreadKind}
        BY <3>1, AppendKinds
      <3> QED
        BY <1>4, <3>2 DEF Notifies
    <2> QED
      BY <1>4, <2>1 DEF Notifies
  <1> QED
    BY <1>1, <1>2, <1>3, <1>4 DEF Moves

(* The debug thread makes only such steps. *)
Moved == Moves(tasks, DebugKinds, replies, tasks', DebugKinds', replies')

LEMMA AnswersMoves ==
    ASSUME DriverTypeOK, NEW ops, Take(ops), NEW res, NEW bp, AnswerTask(res, bp), UNCHANGED dbgThread
    PROVE  Moved
  <1>1. DebugKinds = {} /\ DebugKinds' = {}
    BY DEF DebugKinds, Take
  <1> DEFINE h == Head(tasks)
             x == [op |-> h.op, call |-> h.call, res |-> res, bp |-> bp]
  <1>2. KindOf(x) = KindOf(h) /\ replies' = Append(replies, x)
    BY DEF KindOf, AnswerTask, Answer
  <1> HIDE DEF x
  <1> QED
    BY <1>1, <1>2 DEF Moved, Moves, Answers, Take

LEMMA LeavesMoves ==
    ASSUME DriverTypeOK, InWait, NEW res, NEW bp, EndRun(res, bp), UNCHANGED tasks
    PROVE  Moved
  <1>1. DebugKinds = {<<"wait", dbgThread.call>>} /\ DebugKinds' = {}
    BY DEF DebugKinds, EndRun
  <1> DEFINE x == [op |-> "wait", call |-> dbgThread.call, res |-> res, bp |-> bp]
  <1>2. KindOf(x) = <<"wait", dbgThread.call>> /\ replies' = Append(replies, x)
    BY DEF KindOf, EndRun, Answer
  <1> HIDE DEF x
  <1> QED
    BY <1>1, <1>2 DEF Moved, Moves, Leaves

LEMMA StillMoves ==
    ASSUME UNCHANGED <<tasks, replies>>, DebugKinds' = DebugKinds
    PROVE  Moved
  BY DEF Moved, Moves, Notifies

LEMMA StaysMoves ==
    ASSUME DriverTypeOK, NEW ops, Take(ops), UNCHANGED replies,
           DebugKinds' = {KindOf(Head(tasks))}
    PROVE  Moved
  BY DEF Moved, Moves, StaysIn, Take, DebugKinds

LEMMA MovesRunTask == DriverTypeOK /\ RunTask => Moved
  <1> SUFFICES ASSUME DriverTypeOK, RunTask PROVE Moved
    OBVIOUS
  <1> USE DEF TakeLive
  <1>1. CASE GoTask
    BY <1>1, AnswersMoves DEF GoTask
  <1>2. CASE StepTask
    BY <1>2, AnswersMoves DEF StepTask
  <1>3. CASE StepOutTask
    BY <1>3, AnswersMoves DEF StepOutTask
  <1>4. CASE HopTask
    BY <1>4, AnswersMoves DEF HopTask
  <1>5. CASE EndTask
    BY <1>5, AnswersMoves DEF EndTask
  <1>6. CASE CreateTask
    BY <1>6, AnswersMoves DEF CreateTask
  <1>7. CASE RemoveTask
    BY <1>7, AnswersMoves DEF RemoveTask
  <1>8. CASE QueryTask
    BY <1>8, AnswersMoves DEF QueryTask
  <1>9. CASE FrameTask
    <2>1. CASE AnswerTask("ok", NoBp) /\ UNCHANGED dbgThread
      BY <1>9, <2>1, AnswersMoves DEF FrameTask
    <2>2. CASE dbgThread' = [at |-> "dead", call |-> Head(tasks).call] /\ UNCHANGED replies
      <3>1. Head(tasks).op = "frame" /\ DebugKinds' = {KindOf(Head(tasks))}
        BY <1>9, <2>2 DEF FrameTask, Take, DebugKinds, KindOf
      <3> QED
        BY <1>9, <2>2, <3>1, StaysMoves DEF FrameTask
    <2> QED
      BY <1>9, <2>1, <2>2 DEF FrameTask
  <1>10. CASE WaitTask
    <2>1. Head(tasks).op = "wait" /\ DebugKinds' = {KindOf(Head(tasks))}
      BY <1>10 DEF WaitTask, Take, DebugKinds, KindOf
    <2> QED
      BY <1>10, <2>1, StaysMoves DEF WaitTask
  <1>11. CASE DanglingTask
    BY <1>11, AnswersMoves DEF DanglingTask
  <1> QED
    BY <1>1, <1>2, <1>3, <1>4, <1>5, <1>6, <1>7, <1>8, <1>9, <1>10, <1>11 DEF RunTask

LEMMA MovesTargetEvent == DriverTypeOK /\ TargetEvent => Moved
  <1> SUFFICES ASSUME DriverTypeOK, TargetEvent PROVE Moved
    OBVIOUS
  <1> USE DEF Waiting
  <1>1. CASE HitBreakpoint
    BY <1>1, LeavesMoves DEF HitBreakpoint
  <1>2. CASE HitException
    BY <1>2, LeavesMoves DEF HitException
  <1>3. CASE StepComplete
    BY <1>3, LeavesMoves DEF StepComplete
  <1>4. CASE ProcessExits
    BY <1>4, LeavesMoves DEF ProcessExits
  <1>5. CASE UnknownEvent
    BY <1>5, LeavesMoves DEF UnknownEvent
  <1>6. CASE ThreadEvent
    <2>1. PICK res : Answer("thread", NoCall, res, NoBp)
      BY <1>6 DEF ThreadEvent
    <2> DEFINE x == [op |-> "thread", call |-> NoCall, res |-> res, bp |-> NoBp]
    <2>2. KindOf(x) = ThreadKind /\ replies' = Append(replies, x)
      BY <2>1 DEF KindOf, ThreadKind, Answer
    <2>3. DebugKinds' = DebugKinds /\ UNCHANGED tasks
      BY <1>6 DEF ThreadEvent, DebugKinds, DriverTypeOK
    <2> HIDE DEF x
    <2> QED
      BY <2>2, <2>3 DEF Moved, Moves, Notifies
  <1> QED
    BY <1>1, <1>2, <1>3, <1>4, <1>5, <1>6 DEF TargetEvent

LEMMA MovesWaitStep == DriverTypeOK /\ WaitStep => Moved
  <1> SUFFICES ASSUME DriverTypeOK, WaitStep PROVE Moved
    OBVIOUS
  <1>1. CASE \E res, bp : EndRun(res, bp)
    <2>1. InWait /\ UNCHANGED tasks
      BY DEF WaitStep, ThreadEventContinue, WaitForNothing, WaitInterrupted, Waiting, BreakIn,
             BreakInInterrupted
    <2> QED
      BY <1>1, <2>1, LeavesMoves
  <1>2. CASE ~\E res, bp : EndRun(res, bp)
    <2>1. UNCHANGED <<tasks, replies>> /\ DebugKinds' = DebugKinds
      BY <1>2 DEF WaitStep, ThreadEventContinue, WaitForNothing, WaitInterrupted, Waiting, BreakIn,
             BreakInInterrupted, DebugKinds, DriverTypeOK
    <2> QED
      BY <2>1, StillMoves
  <1> QED
    BY <1>1, <1>2

(* The kinds of tasks and of what the debug thread is in are no thread     *)
(* events, and every call in flight is of a kind in the queue, or is a     *)
(* pause that is still to set its interrupt.                               *)
LEMMA KindsAre ==
    ASSUME DriverTypeOK
    PROVE  /\ ThreadKind \notin Kinds(tasks) \union DebugKinds
           /\ \A k \in Kinds(tasks) : k \in TaskOps \X Calls /\ k[2] \in InTasks
           /\ \A k \in DebugKinds : k \in TaskOps \X Calls /\ k[2] \in InDebug
           /\ \A k \in Kinds(replies) \ {ThreadKind} : k \in TaskOps \X Calls /\ k[2] \in InReplies
           /\ \A call \in InTasks : \E k \in Kinds(tasks) : k[2] = call
           /\ \A call \in InDebug : \E k \in DebugKinds : k[2] = call
           /\ \A call \in InReplies : \E k \in Kinds(replies) \ {ThreadKind} : k[2] = call
  <1>1. \A i \in DOMAIN tasks : tasks[i] \in Task
    BY DEF DriverTypeOK
  <1>2. \A i \in DOMAIN replies : replies[i] \in Reply
    BY DEF DriverTypeOK
  <1>3. "thread" \notin TaskOps /\ {"wait", "frame"} \subseteq TaskOps
    BY DEF TaskOps, ResumeOps, StepOps
  <1>4. \A k \in Kinds(tasks) : k \in TaskOps \X Calls /\ k[2] \in InTasks
    BY <1>1 DEF Kinds, KindOf, InTasks, CallOf, Task
  <1>5. \A k \in DebugKinds : k \in TaskOps \X Calls /\ k[2] \in InDebug
    BY <1>3, CallsAssumption DEF DebugKinds, InDebug, DriverTypeOK
  <1>6. ASSUME NEW i \in DOMAIN replies
        PROVE  \/ KindOf(replies[i]) = ThreadKind /\ replies[i].op = "thread"
               \/ /\ KindOf(replies[i]) \in TaskOps \X Calls
                  /\ replies[i].op # "thread" /\ KindOf(replies[i]) # ThreadKind
    BY <1>2, <1>3 DEF KindOf, ThreadKind, Reply
  <1>7. ASSUME NEW k \in Kinds(replies) \ {ThreadKind}
        PROVE  k \in TaskOps \X Calls /\ k[2] \in InReplies
    <2>1. PICK i \in DOMAIN replies : k = KindOf(replies[i])
      BY DEF Kinds
    <2>2. k \in TaskOps \X Calls /\ replies[i].op # "thread"
      BY <1>6, <2>1
    <2>3. k[2] = replies[i].call
      BY <2>1 DEF KindOf
    <2> QED
      BY <2>2, <2>3 DEF InReplies
  <1>8. ASSUME NEW call \in InTasks PROVE \E k \in Kinds(tasks) : k[2] = call
    <2>1. PICK i \in DOMAIN tasks : tasks[i].call = call
      BY DEF InTasks, CallOf
    <2>2. KindOf(tasks[i]) \in Kinds(tasks) /\ KindOf(tasks[i])[2] = call
      BY <2>1 DEF Kinds, KindOf
    <2> QED
      BY <2>2
  <1>9. \A call \in InDebug : \E k \in DebugKinds : k[2] = call
    BY DEF DebugKinds, InDebug, DriverTypeOK
  <1>10. \A call \in InReplies : \E k \in Kinds(replies) \ {ThreadKind} : k[2] = call
    <2>1. ASSUME NEW call \in InReplies PROVE \E k \in Kinds(replies) \ {ThreadKind} : k[2] = call
      <3>1. PICK i \in DOMAIN replies : replies[i].op # "thread" /\ replies[i].call = call
        BY DEF InReplies
      <3>2. KindOf(replies[i]) \in Kinds(replies) \ {ThreadKind} /\ KindOf(replies[i])[2] = call
        BY <1>6, <3>1 DEF Kinds, KindOf
      <3> QED
        BY <3>2
    <2> QED
      BY <2>1
  <1>11. ThreadKind \notin Kinds(tasks) \union DebugKinds
    BY <1>3, <1>4, <1>5 DEF ThreadKind
  <1> QED
    BY <1>4, <1>5, <1>7, <1>8, <1>9, <1>10, <1>11

(* What the debug thread does neither takes a call up nor drops one, and   *)
(* reorders none.                                                          *)
LEMMA PipeDebugThread ==
    ASSUME DriverTypeOK, DebugThread PROVE Pipe' = Pipe
  <1>1. Moved
    BY MovesRunTask, MovesTargetEvent, MovesWaitStep DEF DebugThread
  <1>2. tasks \in Seq(Task) /\ replies \in Seq(Reply)
    BY DEF DriverTypeOK
  <1>3. ThreadKind \notin Kinds(tasks) \union DebugKinds
    BY KindsAre
  <1> QED
    BY <1>1, <1>2, <1>3, MovesKinds DEF Moved, Pipe

LEMMA OrderDebugThread ==
    ASSUME DriverTypeOK, DebugThread,
           NEW E, NEW L, E \intersect L = {}, ThreadKind \notin E \union L, InOrder(E, L)
    PROVE  InOrder(E, L)'
  <1>1. Moved
    BY MovesRunTask, MovesTargetEvent, MovesWaitStep DEF DebugThread
  <1>2. tasks \in Seq(Task) /\ replies \in Seq(Reply)
    BY DEF DriverTypeOK
  <1> QED
    BY <1>1, <1>2, MovesOrdered DEF Moved, InOrder

(* Order without the head of the replies, and with one more task. *)
LEMMA TailOrdered ==
    ASSUME NEW R, NEW rs \in Seq(R), rs # <<>>, NEW ts, NEW d, NEW E, NEW L, Ordered(E, L, ts, d, rs)
    PROVE  /\ Ordered(E, L, ts, d, Tail(rs))
           /\ KindOf(Head(rs)) \in L => (Kinds(ts) \union d \union Kinds(Tail(rs))) \intersect E = {}
  <1>1. Kinds(rs) = {KindOf(Head(rs))} \union Kinds(Tail(rs))
    BY TailKinds
  <1>2. Before(E, L, Tail(rs)) /\ (KindOf(Head(rs)) \in L => Kinds(Tail(rs)) \intersect E = {})
    BY TailBefore DEF Ordered
  <1> QED
    BY <1>1, <1>2 DEF Ordered

LEMMA AppendOrdered ==
    ASSUME NEW S, NEW ts \in Seq(S), NEW rs, NEW d, NEW x, NEW E, NEW L, Ordered(E, L, ts, d, rs),
           KindOf(x) \in E =>
              KindOf(x) \notin L /\ (Kinds(ts) \union d \union Kinds(rs)) \intersect L = {}
    PROVE  Ordered(E, L, Append(ts, x), d, rs)
  <1>1. Kinds(Append(ts, x)) = Kinds(ts) \union {KindOf(x)}
    BY AppendKinds
  <1>2. Before(E, L, Append(ts, x))
    BY AppendBefore DEF Ordered
  <1> QED
    BY <1>1, <1>2 DEF Ordered

LEMMA ReplyOrdered ==
    ASSUME NEW R, NEW rs \in Seq(R), NEW ts, NEW d, NEW x, NEW E, NEW L, Ordered(E, L, ts, d, rs),
           KindOf(x) \notin E \union L
    PROVE  Ordered(E, L, ts, d, Append(rs, x))
  <1>1. Kinds(Append(rs, x)) = Kinds(rs) \union {KindOf(x)}
    BY AppendKinds
  <1>2. Before(E, L, Append(rs, x))
    BY AppendBefore DEF Ordered
  <1> QED
    BY <1>1, <1>2 DEF Ordered

(* A call posted by the callback thread comes last. *)
LEMMA PipePosted ==
    ASSUME DriverTypeOK, NEW op, NEW call, NEW bp, Post(op, call, bp), UNCHANGED <<replies, dbgThread>>
    PROVE  Pipe' = Pipe \union {<<op, call>>}
  <1> DEFINE x == [op |-> op, call |-> call, bp |-> bp]
  <1>1. tasks' = Append(tasks, x) /\ KindOf(x) = <<op, call>>
    BY DEF Post, KindOf
  <1> HIDE DEF x
  <1>2. Kinds(tasks') = Kinds(tasks) \union {<<op, call>>}
    BY <1>1, AppendKinds DEF DriverTypeOK
  <1> QED
    BY <1>2 DEF Pipe, AllKinds, DebugKinds

LEMMA OrderPosted ==
    ASSUME DriverTypeOK, NEW op, NEW call, NEW bp, Post(op, call, bp), UNCHANGED <<replies, dbgThread>>,
           NEW E, NEW L, ThreadKind \notin L, InOrder(E, L),
           <<op, call>> \in E => <<op, call>> \notin L /\ Pipe \intersect L = {}
    PROVE  InOrder(E, L)'
  <1> DEFINE x == [op |-> op, call |-> call, bp |-> bp]
  <1>1. tasks' = Append(tasks, x) /\ KindOf(x) = <<op, call>>
    BY DEF Post, KindOf
  <1> HIDE DEF x
  <1>2. tasks \in Seq(Task) /\ replies \in Seq(Reply)
    BY DEF DriverTypeOK
  <1>3. Pipe \intersect L = {} => (Kinds(tasks) \union DebugKinds \union Kinds(replies)) \intersect L = {}
    BY DEF Pipe, AllKinds
  <1>4. Ordered(E, L, Append(tasks, x), DebugKinds, replies)
    BY <1>1, <1>2, <1>3, AppendOrdered DEF InOrder
  <1> QED
    BY <1>1, <1>4 DEF InOrder, DebugKinds

(* A call answered on the callback thread's own queue. *)
LEMMA PipeListed ==
    ASSUME DriverTypeOK, NEW call \in Calls, GetThreads(call)
    PROVE  /\ Pipe' = Pipe \union {<<"query", call>>}
           /\ \A E, L : InOrder(E, L) /\ <<"query", call>> \notin E \union L => InOrder(E, L)'
  <1> DEFINE x == [op |-> "query", call |-> call, res |-> "ok", bp |-> NoBp]
  <1>1. replies' = Append(replies, x) /\ KindOf(x) = <<"query", call>> /\ KindOf(x) # ThreadKind
    BY DEF GetThreads, Answer, KindOf, ThreadKind
  <1> HIDE DEF x
  <1>2. UNCHANGED <<tasks, dbgThread>> /\ replies \in Seq(Reply)
    BY DEF GetThreads, DriverTypeOK
  <1>3. Kinds(replies') = Kinds(replies) \union {<<"query", call>>}
    BY <1>1, <1>2, AppendKinds
  <1>4. Pipe' = Pipe \union {<<"query", call>>}
    BY <1>1, <1>2, <1>3 DEF Pipe, AllKinds, DebugKinds
  <1>5. ASSUME NEW E, NEW L, InOrder(E, L), <<"query", call>> \notin E \union L
        PROVE  InOrder(E, L)'
    <2>1. Ordered(E, L, tasks, DebugKinds, Append(replies, x))
      BY <1>1, <1>2, <1>5, ReplyOrdered DEF InOrder
    <2> QED
      BY <1>1, <1>2, <2>1 DEF InOrder, DebugKinds
  <1> QED
    BY <1>4, <1>5

(* A reply taken off the queue leaves it for good, and was not overtaken:  *)
(* if it is of a late kind, nothing of an early kind is left.              *)
ReplyKind == KindOf(Head(replies))

LEMMA RestOfPipe ==
    ASSUME DriverOnce, Taking, UNCHANGED <<dbgThread, interrupting>>
    PROVE  /\ Kinds(tasks) \union DebugKinds \union (Kinds(replies') \ {ThreadKind})
              = Pipe \ {ReplyKind}
           /\ ReplyKind = ThreadKind \/ (ReplyKind \in Pipe /\ ReplyKind \in TaskOps \X Calls)
           /\ ReplyKind[2] \notin {k[2] : k \in Pipe \ {ReplyKind}}
  <1>1. DriverTypeOK /\ replies \in Seq(Reply) /\ replies # <<>> /\ replies' = Tail(replies)
    BY DEF DriverOnce, DriverTypeOK, Taking
  <1>2. Kinds(replies) = {ReplyKind} \union Kinds(replies')
    BY <1>1, TailKinds DEF ReplyKind
  <1>3. ReplyKind[2] \notin InReplies' \union InTasks \union InDebug
    BY OnceTaken DEF ReplyKind, KindOf
  <1>4. replies' \in Seq(Reply)
    BY <1>1
  <1>5. \A i \in DOMAIN replies' : replies'[i] \in Reply
    BY <1>4
  <1>6. ASSUME NEW k \in Kinds(replies') \ {ThreadKind} PROVE k[2] \in InReplies'
    <2>1. PICK i \in DOMAIN replies' : k = KindOf(replies'[i])
      BY DEF Kinds
    <2>2. replies'[i] \in Reply /\ KindOf(replies'[i]) # ThreadKind
      BY <1>5, <1>6, <2>1
    <2>3. replies'[i].op # "thread"
      BY <2>2 DEF KindOf, ThreadKind, Reply, TaskOps, ResumeOps, StepOps
    <2>4. k[2] = replies'[i].call
      BY <2>1 DEF KindOf
    <2> QED
      BY <2>3, <2>4 DEF InReplies
  <1>7. \A k \in Kinds(tasks) \union DebugKinds : k[2] \in InTasks \union InDebug
    BY <1>1, KindsAre
  <1>8. \A k \in Kinds(tasks) \union DebugKinds \union (Kinds(replies') \ {ThreadKind}) :
           k # ReplyKind /\ k[2] # ReplyKind[2]
    BY <1>3, <1>6, <1>7
  <1>9. Kinds(tasks) \union DebugKinds \union (Kinds(replies') \ {ThreadKind}) = Pipe \ {ReplyKind}
    BY <1>2, <1>8 DEF Pipe, AllKinds
  <1>10. ReplyKind = ThreadKind \/ (ReplyKind \in Pipe /\ ReplyKind \in TaskOps \X Calls)
    BY <1>1, <1>2, KindsAre DEF Pipe, AllKinds
  <1> QED
    BY <1>8, <1>9, <1>10

LEMMA PipeTaken ==
    ASSUME DriverOnce, Taking, UNCHANGED <<dbgThread, interrupting>>
    PROVE  /\ UNCHANGED tasks => Pipe' = Pipe \ {ReplyKind}
           /\ \A op, call, bp : Post(op, call, bp) => Pipe' = (Pipe \ {ReplyKind}) \union {<<op, call>>}
  <1>1. Kinds(tasks) \union DebugKinds \union (Kinds(replies') \ {ThreadKind}) = Pipe \ {ReplyKind}
    BY RestOfPipe
  <1>2. DebugKinds' = DebugKinds
    BY DEF DebugKinds
  <1>3. ASSUME NEW op, NEW call, NEW bp, Post(op, call, bp)
        PROVE  Kinds(tasks') = Kinds(tasks) \union {<<op, call>>}
    <2> DEFINE x == [op |-> op, call |-> call, bp |-> bp]
    <2>1. tasks' = Append(tasks, x) /\ KindOf(x) = <<op, call>> /\ tasks \in Seq(Task)
      BY <1>3 DEF Post, KindOf, DriverOnce, DriverTypeOK
    <2> HIDE DEF x
    <2> QED
      BY <2>1, AppendKinds
  <1>4. UNCHANGED tasks => Kinds(tasks') = Kinds(tasks)
    OBVIOUS
  <1> QED
    BY <1>1, <1>2, <1>3, <1>4 DEF Pipe, AllKinds

LEMMA OrderTaken ==
    ASSUME DriverOnce, Taking, UNCHANGED <<dbgThread, interrupting>>,
           NEW E, NEW L, ThreadKind \notin E \union L, InOrder(E, L)
    PROVE  /\ ReplyKind \in L => (Pipe \ {ReplyKind}) \intersect E = {}
           /\ UNCHANGED tasks => InOrder(E, L)'
           /\ \A op, call, bp :
                 /\ Post(op, call, bp)
                 /\ <<op, call>> \in E => <<op, call>> \notin L /\ (Pipe \ {ReplyKind}) \intersect L = {}
                 => InOrder(E, L)'
  <1>1. /\ tasks \in Seq(Task)
        /\ replies \in Seq(Reply) /\ replies # <<>> /\ replies' = Tail(replies)
    BY DEF DriverOnce, DriverTypeOK, Taking
  <1>2. Kinds(tasks) \union DebugKinds \union (Kinds(replies') \ {ThreadKind}) = Pipe \ {ReplyKind}
    BY RestOfPipe
  <1>3. Ordered(E, L, tasks, DebugKinds, replies')
    BY <1>1, TailOrdered DEF InOrder
  <1>4. ReplyKind \in L => (Kinds(tasks) \union DebugKinds \union Kinds(replies')) \intersect E = {}
    BY <1>1, TailOrdered DEF InOrder, ReplyKind
  <1>5. DebugKinds' = DebugKinds
    BY DEF DebugKinds
  <1>6. ASSUME NEW op, NEW call, NEW bp, Post(op, call, bp),
               <<op, call>> \in E => <<op, call>> \notin L /\ (Pipe \ {ReplyKind}) \intersect L = {}
        PROVE  InOrder(E, L)'
    <2> DEFINE x == [op |-> op, call |-> call, bp |-> bp]
    <2>1. tasks' = Append(tasks, x) /\ KindOf(x) = <<op, call>>
      BY <1>6 DEF Post, KindOf
    <2> HIDE DEF x
    <2>2. (Pipe \ {ReplyKind}) \intersect L = {}
          => (Kinds(tasks) \union DebugKinds \union Kinds(replies')) \intersect L = {}
      BY <1>2
    <2>3. Ordered(E, L, Append(tasks, x), DebugKinds, replies')
      BY <1>1, <1>3, <1>6, <2>1, <2>2, AppendOrdered
    <2> QED
      BY <1>5, <2>1, <2>3 DEF InOrder
  <1>7. UNCHANGED tasks => InOrder(E, L)'
    BY <1>3, <1>5 DEF InOrder
  <1> QED
    BY <1>2, <1>4, <1>6, <1>7
=============================================================================
