---------------------------- MODULE DapSessionProofs ----------------------------
(***************************************************************************)
(* The debug adapter is well typed and is one of the clients DriverClient  *)
(* allows, proved for every number of requests, writes, lines, calls and   *)
(* breakpoints.                                                            *)
(*                                                                         *)
(* The types alone are not inductive: what a reply may be depends on the   *)
(* handler that waits for it.  The invariant below says which one that is. *)
(* The queue of the driver holds at most one call a handler waits for, and *)
(* besides it only runs, and resumptions by setBreakpoints, which nobody   *)
(* waits for.                                                              *)
(***************************************************************************)
EXTENDS DapProperties, DbgEngDriverProofs

(* Where the debug thread is, dbgThread.at alone tells. *)
USE DEF InWait

-----------------------------------------------------------------------------
(* What the callback thread waits for. *)

Stepping == {"next", "stepIn", "stepOut"}

(* The calls whose answers are reported when they come. *)
Unawaited == ({"wait"} \X RunCalls) \union ({"go"} \X Resumes)

(* The calls a handler waits for. *)
Busy == (Pipe \ Unawaited) \union {<<"hop", call>> : call \in InInterrupt}

(* The handler of command waits for a call of kind k. *)
Awaits(command, k) ==
    \/ command = "configurationDone" /\ k = <<"go", "start">>
    \/ command = "continue" /\ k \in {"go"} \X Continues
    \/ command \in Stepping /\ k \in {"frame"} \X {"stepFrame", "stepTop"}
    \/ command \in Stepping /\ k \in (StepOps \union {"wait"}) \X {"step"}
    \/ command = "pause" /\ k = <<"hop", "pause">>
    \/ command = "setBreakpoints" /\ k \in {<<"hop", "bpPause">>, <<"remove", "bpRemove">>, <<"create", "bpCreate">>}
    \/ command = "inspect" /\ k \in {"query", "frame"} \X {"inspect"}
    \/ command = "threads" /\ k = <<"query", "threads">>
    \/ command = "disconnect" /\ k = <<"end", "stop">>

(* What follows the writes that are not yet complete. *)
Follow(s)  == {s[i].then : i \in DOMAIN s} \ {"none"}
Following  == Follow(writes)
OneFollows(s) == \A i, j \in DOMAIN s : s[i].then # "none" /\ s[j].then # "none" => i = j

(* The handler of command waits for a write that then follows. *)
CanFollow(command, then) ==
    \/ then = "resolve" /\ command # "disconnect"
    \/ then = "initialized" /\ command = "initialize"
    \/ then = "start" /\ command = "configurationDone"
    \/ then = "pauseEvent" /\ command = "pause"
    \/ then = "stepEvent" /\ command \in Stepping
    \/ then = "close" /\ command = "disconnect"

Idle == Busy = {} /\ Following = {} /\ launch # "creating"

OnDriver(command) ==
    /\ Following = {} /\ launch # "creating"
    /\ \E k : Busy = {k} /\ Awaits(command, k)

OnWrite(command) ==
    /\ Busy = {} /\ launch # "creating"
    /\ \E then : Following = {then} /\ CanFollow(command, then)

OnCreation(command) ==
    Busy = {} /\ Following = {} /\ launch = "creating" /\ command = "launch"

(* The head of the messages waits for exactly one thing, and nothing else  *)
(* is waited for.                                                          *)
Control ==
    /\ turn # "loop" => messages # <<>> /\ Idle
    /\ turn = "setBps" => Head(messages) = "setBreakpoints"
    /\ messages = <<>> => Idle
    /\ messages # <<>> /\ turn = "loop" =>
          OnDriver(Head(messages)) \/ OnWrite(Head(messages)) \/ OnCreation(Head(messages))
    /\ OneFollows(writes)

(* Of the two names of a continue, and of a resumption, the later is taken *)
(* only when the run before is all but reported: its end is ahead of it.   *)
OneOf(op, names) == \A c, d \in names : <<op, c>> \in Pipe /\ <<op, d>> \in Pipe => c = d

RunsInOrder ==
    /\ InOrder({"wait"} \X Continues, {"go"} \X Continues)
    /\ InOrder({"wait"} \X Resumes, {"go"} \X Resumes)
    /\ InOrder({"go"} \X Resumes, {<<"hop", "bpPause">>})
    /\ OneOf("wait", Continues)
    /\ OneOf("wait", Resumes)
    /\ OneOf("go", Resumes)

ResumeToCome == setBps.paused => \A c \in Resumes : <<"go", c>> \notin Pipe

(* The target is started once. *)
StartOnce ==
    /\ \A i, j \in DOMAIN messages :
          messages[i] = "configurationDone" /\ messages[j] = "configurationDone" => i = j
    /\ <<"wait", "start">> \in Pipe =>
          /\ view # "none"
          /\ "start" \notin Following
          /\ \A i \in DOMAIN messages : messages[i] = "configurationDone" => i = 1 /\ turn = "loop"

(* The session object outlives what is asked of it. *)
LaunchInv ==
    /\ \A i \in DOMAIN messages : messages[i] = "launch" => i = 1 /\ launch # "ended"
    /\ launch = "ended" => Busy = {} /\ turn # "setBps"
    /\ session # "live" => launch = "ended" \/ (messages # <<>> /\ Head(messages) = "disconnect")

(* What the replies may be. *)
ReplyInv ==
    \A i \in DOMAIN replies :
        /\ replies[i].op = "wait" => replies[i].res \in Endings
        /\ replies[i].op = "create" /\ replies[i].res = "ok" => replies[i].bp \in BpIds

(* The types of the two halves of the adapter. *)
MessagesTypeOK ==
    /\ messages \in Seq(Commands)
    /\ turn \in {"loop", "consume", "setBps"}
    /\ writes \in Seq([then : Continuations, ending : Endings])
    /\ answered \in BOOLEAN
    /\ dropped \subseteq Commands
    /\ sent \in 0 .. MaxRequests

HandlerTypeOK ==
    /\ SessionTypeOK
    /\ launch \in {"none", "creating", "created", "ended"}
    /\ setBps \in [remove : SUBSET BpIds, create : 0 .. MaxLines,
                   paused : BOOLEAN, failed : BOOLEAN]
    /\ crashed \in BOOLEAN
    /\ closed \in BOOLEAN
    /\ view \in {"none", "running", "stopped", "exited"}

DriverPart  == DriverInv /\ RunsInOrder /\ ReplyInv
MessagePart == MessagesTypeOK /\ Control /\ StartOnce /\ LaunchInv
DapInv      == DriverPart /\ MessagePart /\ HandlerTypeOK /\ ResumeToCome

-----------------------------------------------------------------------------
(* What the steps of the driver do to the calls that are waited for. *)

LEMMA RunsTheSame ==
    ASSUME Pipe' = Pipe, RunsInOrder,
           \A E, L : InOrder(E, L) /\ E \intersect L = {} /\ ThreadKind \notin E \union L => InOrder(E, L)'
    PROVE  RunsInOrder'
  <1> USE DEF RunsInOrder, ThreadKind
  <1>1. InOrder({"wait"} \X Continues, {"go"} \X Continues)'
    OBVIOUS
  <1>2. InOrder({"wait"} \X Resumes, {"go"} \X Resumes)'
    OBVIOUS
  <1>3. InOrder({"go"} \X Resumes, {<<"hop", "bpPause">>})'
    OBVIOUS
  <1>4. (OneOf("wait", Continues) /\ OneOf("wait", Resumes) /\ OneOf("go", Resumes))'
    BY DEF OneOf
  <1> QED
    BY <1>1, <1>2, <1>3, <1>4

LEMMA SameBusy ==
    ASSUME Pipe' = Pipe, UNCHANGED interrupting PROVE Busy' = Busy
  BY DEF Busy, InInterrupt

(* The driver is left alone. *)
LEMMA PartUnchanged ==
    ASSUME DriverPart, UNCHANGED driverVars
    PROVE  DriverPart' /\ Pipe' = Pipe /\ Busy' = Busy
  <1>1. DriverInv'
    BY DriverUnchanged DEF DriverPart
  <1>2. DebugKinds' = DebugKinds /\ UNCHANGED <<tasks, replies, interrupting>>
    BY DEF driverVars, DebugKinds
  <1>3. Pipe' = Pipe
    BY <1>2 DEF Pipe
  <1>4. \A E, L : InOrder(E, L) => InOrder(E, L)'
    BY <1>2 DEF InOrder
  <1>5. RunsInOrder'
    BY <1>3, <1>4, RunsTheSame DEF DriverPart
  <1>6. ReplyInv'
    BY <1>2 DEF ReplyInv, DriverPart
  <1> QED
    BY <1>1, <1>2, <1>3, <1>5, <1>6, SameBusy DEF DriverPart

(* Nothing of what the debug thread does changes what is waited for. *)
LEMMA AnswerInv ==
    ASSUME DriverTypeOK, ReplyInv, NEW op, NEW call, NEW res, NEW bp, Answer(op, call, res, bp),
           op = "wait" => res \in Endings,
           op = "create" /\ res = "ok" => bp \in BpIds
    PROVE  ReplyInv'
  <1> DEFINE x == [op |-> op, call |-> call, res |-> res, bp |-> bp]
             n == Len(replies) + 1
  <1>1. /\ DOMAIN replies' = DOMAIN replies \union {n}
        /\ \A i \in DOMAIN replies : replies'[i] = replies[i]
        /\ replies'[n] = x
    BY DEF Answer, DriverTypeOK
  <1>2. x.op = op /\ x.res = res /\ x.bp = bp
    OBVIOUS
  <1> HIDE DEF n, x
  <1> QED
    BY <1>1, <1>2 DEF ReplyInv

LEMMA ReplyRunTask ==
    ASSUME DriverTypeOK, ReplyInv, RunTask,
           session # "live" => \A k \in Pipe : k[1] # "create"
    PROVE  ReplyInv'
  <1>1. UNCHANGED replies => ReplyInv'
    BY DEF ReplyInv
  <1>2. ASSUME NEW res, NEW bp, AnswerTask(res, bp),
               Head(tasks).op = "wait" => res \in Endings,
               Head(tasks).op = "create" /\ res = "ok" => bp \in BpIds
        PROVE  ReplyInv'
    BY <1>2, AnswerInv DEF AnswerTask
  <1> USE DEF TakeLive, Take
  <1>3. CASE GoTask
    BY <1>2, <1>3 DEF GoTask
  <1>4. CASE StepTask
    BY <1>2, <1>4 DEF StepTask
  <1>5. CASE StepOutTask
    BY <1>2, <1>5 DEF StepOutTask
  <1>6. CASE HopTask
    BY <1>2, <1>6 DEF HopTask
  <1>7. CASE EndTask
    BY <1>2, <1>7 DEF EndTask
  <1>8. CASE CreateTask
    BY <1>2, <1>8 DEF CreateTask
  <1>9. CASE RemoveTask
    BY <1>2, <1>9 DEF RemoveTask
  <1>10. CASE QueryTask
    BY <1>2, <1>10 DEF QueryTask
  <1>11. CASE FrameTask
    BY <1>1, <1>2, <1>11 DEF FrameTask
  <1>12. CASE WaitTask
    BY <1>1, <1>12 DEF WaitTask
  <1>13. CASE DanglingTask
    <2>1. tasks # <<>> /\ session # "live"
      BY <1>13 DEF DanglingTask
    <2>2. KindOf(Head(tasks)) \in Kinds(tasks) /\ KindOf(Head(tasks))[1] = Head(tasks).op
      BY <2>1, TailKinds DEF KindOf, DriverTypeOK
    <2>3. Head(tasks).op # "create"
      BY <2>1, <2>2 DEF Pipe, AllKinds
    <2> QED
      BY <1>2, <1>13, <2>3 DEF DanglingTask, Endings, StopReasons
  <1> QED
    BY <1>3, <1>4, <1>5, <1>6, <1>7, <1>8, <1>9, <1>10, <1>11, <1>12, <1>13 DEF RunTask

LEMMA ReplyWait ==
    ASSUME DriverTypeOK, ReplyInv, TargetEvent \/ WaitStep PROVE ReplyInv'
  <1>1. UNCHANGED replies => ReplyInv'
    BY DEF ReplyInv
  <1>2. ASSUME NEW res \in Endings, NEW bp, EndRun(res, bp) PROVE ReplyInv'
    BY <1>2, AnswerInv DEF EndRun
  <1>3. {"paused", "breakpoint", "exception", "exited", "error"} \subseteq Endings
    BY DEF Endings, StopReasons
  <1>4. CASE HitBreakpoint
    BY <1>2, <1>3, <1>4 DEF HitBreakpoint
  <1>5. CASE HitException
    BY <1>2, <1>3, <1>5 DEF HitException
  <1>6. CASE StepComplete
    BY <1>2, <1>3, <1>6 DEF StepComplete
  <1>7. CASE ProcessExits
    BY <1>2, <1>3, <1>7 DEF ProcessExits
  <1>8. CASE UnknownEvent
    BY <1>2, <1>3, <1>8 DEF UnknownEvent
  <1>9. CASE ThreadEvent
    BY <1>9, AnswerInv DEF ThreadEvent
  <1>10. CASE ThreadEventContinue
    BY <1>1, <1>2, <1>3, <1>10 DEF ThreadEventContinue
  <1>11. CASE WaitForNothing
    BY <1>2, <1>3, <1>11 DEF WaitForNothing
  <1>12. CASE WaitInterrupted
    BY <1>1, <1>2, <1>3, <1>12 DEF WaitInterrupted
  <1>13. CASE BreakIn
    BY <1>2, <1>3, <1>13 DEF BreakIn
  <1>14. CASE BreakInInterrupted
    BY <1>2, <1>3, <1>14 DEF BreakInInterrupted
  <1> QED
    BY <1>4, <1>5, <1>6, <1>7, <1>8, <1>9, <1>10, <1>11, <1>12, <1>13, <1>14 DEF TargetEvent, WaitStep

LEMMA PartDebugThread ==
    ASSUME DriverPart, DebugThread,
           session # "live" => \A k \in Pipe : k[1] # "create"
    PROVE  DriverPart' /\ Pipe' = Pipe /\ Busy' = Busy
  <1>1. DriverTypeOK /\ DriverInv
    BY DEF DriverPart, DriverInv, DriverRuns
  <1>2. DriverInv' /\ Pipe' = Pipe
    BY <1>1, DebugThreadKeeps, PipeDebugThread
  <1>3. \A E, L : InOrder(E, L) /\ E \intersect L = {} /\ ThreadKind \notin E \union L => InOrder(E, L)'
    BY <1>1, OrderDebugThread
  <1>4. RunsInOrder'
    BY <1>2, <1>3, RunsTheSame DEF DriverPart
  <1>5. ReplyInv'
    BY <1>1, ReplyRunTask, ReplyWait DEF DebugThread, DriverPart
  <1>6. UNCHANGED interrupting
    BY DEF DebugThread, RunTask, GoTask, StepTask, StepOutTask, HopTask, EndTask, CreateTask,
           RemoveTask, QueryTask, FrameTask, WaitTask, DanglingTask, TargetEvent, HitBreakpoint,
           HitException, StepComplete, ProcessExits, UnknownEvent, ThreadEvent, WaitStep,
           ThreadEventContinue, WaitForNothing, WaitInterrupted, BreakIn, BreakInInterrupted
  <1> QED
    BY <1>2, <1>4, <1>5, <1>6, SameBusy DEF DriverPart

(* A call is posted that is no run.  Nothing is resumed twice, or while    *)
(* the pause that is to be resumed from is on its way.                     *)
LEMMA PartPosted ==
    ASSUME DriverPart, NEW op \in CallOps \union {"remove"}, NEW call, NEW bp,
           Calling(call), Post(op, call, bp),
           <<op, call>> \in {"go"} \X Resumes =>
              Pipe \intersect ({"go"} \X Resumes) = {} /\ <<"hop", "bpPause">> \notin Pipe
    PROVE  /\ DriverPart'
           /\ Pipe' = Pipe \union {<<op, call>>}
           /\ Busy' = Busy \union ({<<op, call>>} \ Unawaited)
  <1> DEFINE k == <<op, call>>
  <1>1. DriverTypeOK /\ DriverInv
    BY DEF DriverPart, DriverInv, DriverRuns
  <1>2. UNCHANGED <<replies, dbgThread, interrupting>>
    BY DEF Calling
  <1>3. DriverInv'
    BY <1>1, CallerKeeps DEF Caller
  <1>4. Pipe' = Pipe \union {k}
    BY <1>1, <1>2, PipePosted
  <1>5. op # "wait" /\ k \notin ({"wait"} \X Continues) \union ({"wait"} \X Resumes)
    BY DEF CallOps, ResumeOps, StepOps
  <1>6. RunsInOrder'
    <2>1. k \notin {<<"hop", "bpPause">>} /\ "go" # "hop" /\ "thread" \notin {"hop", "go", "wait"}
      BY DEF CallOps, ResumeOps, StepOps
    <2>2. InOrder({"wait"} \X Continues, {"go"} \X Continues)'
      BY <1>1, <1>2, <1>5, OrderPosted DEF RunsInOrder, DriverPart, ThreadKind
    <2>3. InOrder({"wait"} \X Resumes, {"go"} \X Resumes)'
      BY <1>1, <1>2, <1>5, OrderPosted DEF RunsInOrder, DriverPart, ThreadKind
    <2>4. InOrder({"go"} \X Resumes, {<<"hop", "bpPause">>})'
      BY <1>1, <1>2, <2>1, OrderPosted DEF RunsInOrder, DriverPart, ThreadKind
    <2>5. (OneOf("wait", Continues) /\ OneOf("wait", Resumes))'
      BY <1>4, <1>5 DEF RunsInOrder, DriverPart, OneOf
    <2>6. OneOf("go", Resumes)'
      BY <1>4 DEF RunsInOrder, DriverPart, OneOf
    <2> QED
      BY <2>2, <2>3, <2>4, <2>5, <2>6 DEF RunsInOrder
  <1>7. ReplyInv'
    BY <1>2 DEF ReplyInv, DriverPart
  <1>8. Busy' = Busy \union ({k} \ Unawaited)
    BY <1>2, <1>4 DEF Busy, InInterrupt
  <1> QED
    BY <1>3, <1>4, <1>6, <1>7, <1>8 DEF DriverPart

(* The list of threads is asked for. *)
LEMMA PartListed ==
    ASSUME DriverPart, NEW call, Listing(call)
    PROVE  /\ DriverPart'
           /\ Pipe' = Pipe \union {<<"query", call>>}
           /\ Busy' = Busy \union {<<"query", call>>}
  <1>1. DriverTypeOK /\ DriverInv /\ call \in Calls
    BY DEF DriverPart, DriverInv, DriverRuns, Listing
  <1>2. GetThreads(call) /\ UNCHANGED interrupting
    BY DEF Listing, GetThreads
  <1>3. DriverInv'
    BY <1>1, CallerKeeps DEF Caller
  <1>4. /\ Pipe' = Pipe \union {<<"query", call>>}
        /\ \A E, L : InOrder(E, L) /\ <<"query", call>> \notin E \union L => InOrder(E, L)'
    BY <1>1, <1>2, PipeListed
  <1>5. RunsInOrder'
    BY <1>4 DEF RunsInOrder, DriverPart, OneOf
  <1>6. ReplyInv'
    BY <1>1, <1>2, AnswerInv DEF GetThreads, DriverPart
  <1>7. Busy' = Busy \union {<<"query", call>>}
    BY <1>2, <1>4 DEF Busy, InInterrupt, Unawaited
  <1> QED
    BY <1>3, <1>4, <1>5, <1>6, <1>7 DEF DriverPart

(* A pause begins, is on its way to the target, or is refused. *)
LEMMA PartPausing ==
    ASSUME DriverPart, NEW call, Pausing(call)
    PROVE  /\ DriverPart'
           /\ Pipe' = Pipe
           /\ Busy' = Busy \union {<<"hop", call>>}
  <1>1. DriverTypeOK /\ DriverInv /\ call \in Calls
    BY DEF DriverPart, DriverInv, DriverRuns, Pausing
  <1>2. /\ UNCHANGED <<tasks, replies, dbgThread>>
        /\ interrupting = NoCall /\ interrupting' = call /\ call # NoCall
    BY <1>1, CallsAssumption DEF Pausing, PauseBegin
  <1>3. DriverInv'
    BY <1>1, CallerKeeps DEF Caller
  <1>4. Pipe' = Pipe /\ \A E, L : InOrder(E, L) => InOrder(E, L)'
    BY <1>2 DEF Pipe, DebugKinds, InOrder
  <1>5. RunsInOrder'
    BY <1>4, RunsTheSame DEF DriverPart
  <1>6. ReplyInv'
    BY <1>2 DEF ReplyInv, DriverPart
  <1>7. Busy' = Busy \union {<<"hop", call>>}
    BY <1>2, <1>4 DEF Busy, InInterrupt
  <1> QED
    BY <1>3, <1>4, <1>5, <1>6, <1>7 DEF DriverPart

LEMMA PartPauseEnd ==
    ASSUME DriverPart, PauseEnd
    PROVE  /\ DriverPart'
           /\ Pipe' = Pipe \union {<<"hop", interrupting>>}
           /\ Busy' = Busy
  <1>1. DriverTypeOK /\ DriverInv
    BY DEF DriverPart, DriverInv, DriverRuns
  <1>2. /\ Post("hop", interrupting, NoBp)
        /\ UNCHANGED <<replies, dbgThread>>
        /\ interrupting # NoCall /\ interrupting' = NoCall
    BY DEF PauseEnd
  <1>3. DriverInv'
    BY <1>1, CallerKeeps DEF Caller
  <1>4. Pipe' = Pipe \union {<<"hop", interrupting>>}
    BY <1>1, <1>2, PipePosted
  <1>5. RunsInOrder'
    <2>1. <<"hop", interrupting>> \notin ({"wait"} \X Continues) \union ({"wait"} \X Resumes)
                                         \union ({"go"} \X Resumes)
      OBVIOUS
    <2>2. InOrder({"wait"} \X Continues, {"go"} \X Continues)'
      BY <1>1, <1>2, <2>1, OrderPosted DEF RunsInOrder, DriverPart, ThreadKind
    <2>3. InOrder({"wait"} \X Resumes, {"go"} \X Resumes)'
      BY <1>1, <1>2, <2>1, OrderPosted DEF RunsInOrder, DriverPart, ThreadKind
    <2>4. InOrder({"go"} \X Resumes, {<<"hop", "bpPause">>})'
      BY <1>1, <1>2, <2>1, OrderPosted DEF RunsInOrder, DriverPart, ThreadKind
    <2>5. (OneOf("wait", Continues) /\ OneOf("wait", Resumes) /\ OneOf("go", Resumes))'
      BY <1>4 DEF RunsInOrder, DriverPart, OneOf
    <2> QED
      BY <2>2, <2>3, <2>4, <2>5 DEF RunsInOrder
  <1>6. ReplyInv'
    BY <1>2 DEF ReplyInv, DriverPart
  <1>7. Busy' = Busy
    <2>1. InInterrupt = {interrupting} /\ InInterrupt' = {}
      BY <1>2 DEF InInterrupt
    <2>2. <<"hop", interrupting>> \notin Unawaited
      BY DEF Unawaited
    <2> QED
      BY <1>4, <2>1, <2>2 DEF Busy
  <1> QED
    BY <1>3, <1>4, <1>5, <1>6, <1>7 DEF DriverPart

LEMMA PartPauseFails ==
    ASSUME DriverPart, PauseFails
    PROVE  /\ DriverPart'
           /\ Pipe' = Pipe
           /\ Busy = Busy' \union {<<"hop", interrupting>>}
           /\ <<"hop", interrupting>> \notin Busy'
  <1>1. DriverTypeOK /\ DriverInv
    BY DEF DriverPart, DriverInv, DriverRuns
  <1>2. /\ UNCHANGED <<tasks, replies, dbgThread>>
        /\ interrupting # NoCall /\ interrupting' = NoCall
    BY DEF PauseFails
  <1>3. DriverInv'
    BY <1>1, CallerKeeps DEF Caller
  <1>4. Pipe' = Pipe /\ \A E, L : InOrder(E, L) => InOrder(E, L)'
    BY <1>2 DEF Pipe, DebugKinds, InOrder
  <1>5. RunsInOrder'
    BY <1>4, RunsTheSame DEF DriverPart
  <1>6. ReplyInv'
    BY <1>2 DEF ReplyInv, DriverPart
  <1>7. InInterrupt = {interrupting} /\ InInterrupt' = {}
    BY <1>2 DEF InInterrupt
  <1>8. <<"hop", interrupting>> \notin Pipe
    <2>1. interrupting \notin InTasks \union InReplies \union InDebug
      BY <1>1, <1>7 DEF DriverInv, Apart
    <2>2. ASSUME NEW k \in Pipe PROVE k[2] \in InTasks \union InReplies \union InDebug
      BY <1>1, KindsAre DEF Pipe, AllKinds
    <2> QED
      BY <2>1, <2>2
  <1>9. Busy = Busy' \union {<<"hop", interrupting>>} /\ <<"hop", interrupting>> \notin Busy'
    BY <1>4, <1>7, <1>8 DEF Busy
  <1> QED
    BY <1>3, <1>4, <1>5, <1>6, <1>9 DEF DriverPart

(* A reply is taken, and nothing is called. *)
LEMMA PartTaken ==
    ASSUME DriverPart, Done
    PROVE  /\ DriverPart'
           /\ Pipe' = Pipe \ {ReplyKind}
           /\ Busy' = Busy \ {ReplyKind}
  <1>1. DriverTypeOK /\ DriverInv /\ DriverOnce
    BY DEF DriverPart, DriverInv, DriverRuns, DriverOnce
  <1>2. Taking /\ UNCHANGED <<tasks, dbgThread, interrupting>> /\ interrupting = NoCall
    BY DEF Done, Taking
  <1>3. DriverInv'
    BY <1>1, CallerKeeps DEF Caller
  <1>4. Pipe' = Pipe \ {ReplyKind}
    BY <1>1, <1>2, PipeTaken
  <1>5. RunsInOrder'
    <2>1. InOrder({"wait"} \X Continues, {"go"} \X Continues)'
      BY <1>1, <1>2, OrderTaken DEF RunsInOrder, DriverPart, ThreadKind
    <2>2. InOrder({"wait"} \X Resumes, {"go"} \X Resumes)'
      BY <1>1, <1>2, OrderTaken DEF RunsInOrder, DriverPart, ThreadKind
    <2>3. InOrder({"go"} \X Resumes, {<<"hop", "bpPause">>})'
      BY <1>1, <1>2, OrderTaken DEF RunsInOrder, DriverPart, ThreadKind
    <2> QED
      BY <1>4, <2>1, <2>2, <2>3 DEF RunsInOrder, DriverPart, OneOf
  <1>6. ReplyInv'
    BY <1>1, <1>2 DEF ReplyInv, DriverPart, Taking, DriverTypeOK
  <1>7. Busy' = Busy \ {ReplyKind}
    BY <1>2, <1>4 DEF Busy, InInterrupt
  <1> QED
    BY <1>3, <1>4, <1>5, <1>6, <1>7 DEF DriverPart

(* A reply is taken, and another call is made that is no run. *)
LEMMA PartGoesOn ==
    ASSUME DriverPart, NEW op \in CallOps \union {"remove"}, NEW call, NEW bp,
           GoesOn(call), Post(op, call, bp), <<op, call>> \notin {"go"} \X Resumes
    PROVE  /\ DriverPart'
           /\ Pipe' = (Pipe \ {ReplyKind}) \union {<<op, call>>}
           /\ Busy' = (Busy \ {ReplyKind}) \union ({<<op, call>>} \ Unawaited)
  <1> DEFINE k == <<op, call>>
  <1>1. DriverTypeOK /\ DriverInv /\ DriverOnce
    BY DEF DriverPart, DriverInv, DriverRuns, DriverOnce
  <1>2. Taking /\ UNCHANGED <<dbgThread, interrupting>> /\ interrupting = NoCall
    BY DEF GoesOn, Taking
  <1>3. DriverInv'
    BY <1>1, CallerKeeps DEF Caller
  <1>4. Pipe' = (Pipe \ {ReplyKind}) \union {k}
    BY <1>1, <1>2, PipeTaken
  <1>5. RunsInOrder'
    <2>1. k \notin ({"wait"} \X Continues) \union ({"wait"} \X Resumes) \union ({"go"} \X Resumes)
      BY DEF CallOps, ResumeOps, StepOps
    <2>2. InOrder({"wait"} \X Continues, {"go"} \X Continues)'
      BY <1>1, <1>2, <2>1, OrderTaken DEF RunsInOrder, DriverPart, ThreadKind
    <2>3. InOrder({"wait"} \X Resumes, {"go"} \X Resumes)'
      BY <1>1, <1>2, <2>1, OrderTaken DEF RunsInOrder, DriverPart, ThreadKind
    <2>4. InOrder({"go"} \X Resumes, {<<"hop", "bpPause">>})'
      BY <1>1, <1>2, <2>1, OrderTaken DEF RunsInOrder, DriverPart, ThreadKind
    <2> HIDE DEF k
    <2> QED
      BY <1>4, <2>1, <2>2, <2>3, <2>4 DEF RunsInOrder, DriverPart, OneOf
  <1>6. ReplyInv'
    BY <1>1, <1>2 DEF ReplyInv, DriverPart, Taking, DriverTypeOK
  <1>7. Busy' = (Busy \ {ReplyKind}) \union ({k} \ Unawaited)
    BY <1>2, <1>4 DEF Busy, InInterrupt
  <1> QED
    BY <1>3, <1>4, <1>5, <1>6, <1>7 DEF DriverPart

(* A go or a step is followed by its run. *)
LEMMA PartRunsOn ==
    ASSUME DriverPart, RunsOn,
           Head(replies).call \in Continues =>
              Head(replies).op = "go" /\ (Pipe \ {ReplyKind}) \intersect ({"go"} \X Continues) = {},
           Head(replies).call \in Resumes => Head(replies).op = "go"
    PROVE  /\ DriverPart'
           /\ Pipe' = (Pipe \ {ReplyKind}) \union {<<"wait", Head(replies).call>>}
           /\ Busy' = (Busy \ {ReplyKind}) \union ({<<"wait", Head(replies).call>>} \ Unawaited)
  <1> DEFINE call == Head(replies).call
             k == <<"wait", call>>
  <1>1. DriverTypeOK /\ DriverInv /\ DriverOnce
    BY DEF DriverPart, DriverInv, DriverRuns, DriverOnce
  <1>2. /\ Taking /\ UNCHANGED <<dbgThread, interrupting>> /\ interrupting = NoCall
        /\ Post("wait", call, NoBp)
        /\ ReplyKind = <<Head(replies).op, call>>
    BY DEF RunsOn, Taking, ReplyKind, KindOf
  <1> HIDE DEF call
  <1>3. DriverInv'
    BY <1>1, CallerKeeps DEF Caller
  <1>4. Pipe' = (Pipe \ {ReplyKind}) \union {k}
    BY <1>1, <1>2, PipeTaken
  <1>5. ReplyKind \in Pipe
    BY <1>1, <1>2, RestOfPipe DEF ThreadKind, RunsOn, Resuming, ResumeOps, StepOps
  <1>6. /\ call \in Continues => ReplyKind = <<"go", call>>
        /\ call \in Resumes => ReplyKind = <<"go", call>>
    BY <1>2 DEF call
  <1>7. /\ call \in Continues => (Pipe \ {ReplyKind}) \intersect ({"wait"} \X Continues) = {}
        /\ InOrder({"wait"} \X Continues, {"go"} \X Continues)'
    <2>1. k \in {"wait"} \X Continues
          => k \notin {"go"} \X Continues /\ (Pipe \ {ReplyKind}) \intersect ({"go"} \X Continues) = {}
      BY DEF call
    <2>2. InOrder({"wait"} \X Continues, {"go"} \X Continues)
      BY DEF DriverPart, RunsInOrder
    <2> QED
      BY <1>1, <1>2, <1>6, <2>1, <2>2, OrderTaken DEF ThreadKind
  <1>8. /\ call \in Resumes => (Pipe \ {ReplyKind}) \intersect ({"wait"} \X Resumes) = {}
        /\ InOrder({"wait"} \X Resumes, {"go"} \X Resumes)'
    <2>1. k \in {"wait"} \X Resumes
          => k \notin {"go"} \X Resumes /\ (Pipe \ {ReplyKind}) \intersect ({"go"} \X Resumes) = {}
      BY <1>5, <1>6 DEF DriverPart, RunsInOrder, OneOf
    <2>2. InOrder({"wait"} \X Resumes, {"go"} \X Resumes)
      BY DEF DriverPart, RunsInOrder
    <2> QED
      BY <1>1, <1>2, <1>6, <2>1, <2>2, OrderTaken DEF ThreadKind
  <1>9. InOrder({"go"} \X Resumes, {<<"hop", "bpPause">>})'
    BY <1>1, <1>2, OrderTaken DEF RunsInOrder, DriverPart, ThreadKind
  <1>10. (OneOf("wait", Continues) /\ OneOf("wait", Resumes) /\ OneOf("go", Resumes))'
    BY <1>4, <1>7, <1>8 DEF RunsInOrder, DriverPart, OneOf
  <1>11. ReplyInv'
    BY <1>1, <1>2 DEF ReplyInv, DriverPart, Taking, DriverTypeOK
  <1>12. Busy' = (Busy \ {ReplyKind}) \union ({k} \ Unawaited)
    BY <1>2, <1>4 DEF Busy, InInterrupt
  <1>13. RunsInOrder'
    BY <1>7, <1>8, <1>9, <1>10 DEF RunsInOrder
  <1> QED
    BY <1>3, <1>4, <1>11, <1>12, <1>13 DEF DriverPart, call

-----------------------------------------------------------------------------
(* What the ends of a handler do to the messages and the writes. *)

Writes == [then : Continuations, ending : Endings]

(* One more write, and the first write done. *)
LEMMA FollowAppend ==
    ASSUME NEW s \in Seq(Writes), NEW then \in Continuations, NEW ending \in Endings, NEW t,
           t = s \o Write(then, ending)
    PROVE  /\ t \in Seq(Writes)
           /\ Follow(t) = Follow(s) \union ({then} \ {"none"})
           /\ OneFollows(s) /\ (then = "none" \/ Follow(s) = {}) => OneFollows(t)
  <1> DEFINE n == Len(s) + 1
             x == [then |-> then, ending |-> ending]
  <1>1. /\ t \in Seq(Writes)
        /\ DOMAIN t = DOMAIN s \union {n}
        /\ \A i \in DOMAIN s : t[i] = s[i]
        /\ t[n] = x
    BY DEF Writes, Write
  <1>2. x.then = then
    OBVIOUS
  <1> HIDE DEF n, x
  <1>3. Follow(t) = Follow(s) \union ({then} \ {"none"})
    BY <1>1, <1>2 DEF Follow
  <1>4. ASSUME OneFollows(s), then = "none" \/ Follow(s) = {} PROVE OneFollows(t)
    <2>1. ASSUME NEW i \in DOMAIN t, NEW j \in DOMAIN t, t[i].then # "none", t[j].then # "none"
          PROVE  i = j
      <3>1. CASE then = "none"
        <4>1. i \in DOMAIN s /\ j \in DOMAIN s
          BY <1>1, <1>2, <2>1, <3>1
        <4> QED
          BY <1>1, <1>4, <2>1, <4>1 DEF OneFollows
      <3>2. CASE Follow(s) = {}
        <4>1. i = n /\ j = n
          BY <1>1, <2>1, <3>2 DEF Follow
        <4> QED
          BY <4>1
      <3> QED
        BY <1>4, <3>1, <3>2
    <2> QED
      BY <2>1 DEF OneFollows
  <1> QED
    BY <1>1, <1>3, <1>4

LEMMA FollowTail ==
    ASSUME NEW s \in Seq(Writes), s # <<>>
    PROVE  /\ Tail(s) \in Seq(Writes)
           /\ Head(s) \in Writes
           /\ Head(s).then = "none" => Follow(Tail(s)) = Follow(s)
           /\ OneFollows(s) => OneFollows(Tail(s))
           /\ OneFollows(s) /\ Head(s).then # "none" =>
                 Follow(s) = {Head(s).then} /\ Follow(Tail(s)) = {}
  <1> DEFINE t == Tail(s)
             h == Head(s)
  <1>1. /\ t \in Seq(Writes)
        /\ h \in Writes
        /\ DOMAIN s = 1 .. Len(s)
        /\ DOMAIN t = 1 .. Len(s) - 1
        /\ \A i \in 1 .. Len(s) - 1 : t[i] = s[i + 1]
        /\ h = s[1]
        /\ Len(s) \in Nat \ {0}
    OBVIOUS
  <1> HIDE DEF t, h
  <1>2. 1 \in DOMAIN s /\ \A i \in DOMAIN t : i \in Nat /\ i + 1 \in DOMAIN s /\ i + 1 # 1 /\ t[i] = s[i + 1]
    BY <1>1
  <1>3. \A i \in DOMAIN s \ {1} : i - 1 \in DOMAIN t /\ t[i - 1] = s[i]
    BY <1>1
  <1>4. Follow(t) \subseteq Follow(s)
    BY <1>2 DEF Follow
  <1>5. ASSUME NEW then \in Follow(s) PROVE then \in Follow(t) \/ then = h.then
    <2>1. PICK i \in DOMAIN s : s[i].then = then /\ then # "none"
      BY DEF Follow
    <2> QED
      BY <1>1, <1>3, <2>1 DEF Follow
  <1>6. h.then = "none" => Follow(t) = Follow(s)
    BY <1>4, <1>5 DEF Follow
  <1>7. ASSUME OneFollows(s) PROVE OneFollows(t)
    <2>1. ASSUME NEW i \in DOMAIN t, NEW j \in DOMAIN t, t[i].then # "none", t[j].then # "none"
          PROVE  i = j
      <3>1. i + 1 = j + 1
        BY <1>2, <1>7, <2>1 DEF OneFollows
      <3> QED
        BY <1>2, <3>1
    <2> QED
      BY <2>1 DEF OneFollows
  <1>8. ASSUME OneFollows(s), h.then # "none" PROVE Follow(s) = {h.then} /\ Follow(t) = {}
    <2>1. \A i \in DOMAIN s : s[i].then # "none" => i = 1
      BY <1>1, <1>2, <1>8 DEF OneFollows
    <2>2. Follow(t) = {}
      BY <1>2, <2>1 DEF Follow
    <2>3. h.then \in Follow(s)
      BY <1>1, <1>2, <1>8 DEF Follow
    <2> QED
      BY <1>5, <2>2, <2>3
  <1> QED
    BY <1>1, <1>6, <1>7, <1>8 DEF t, h

(* The messages without the first. *)
LEMMA MessagesTail ==
    ASSUME messages \in Seq(Commands), messages # <<>>, messages' = Tail(messages)
    PROVE  /\ messages' \in Seq(Commands)
           /\ Head(messages) \in Commands
           /\ 1 \in DOMAIN messages /\ Head(messages) = messages[1]
           /\ \A i \in DOMAIN messages' :
                 i \in Nat /\ i + 1 \in DOMAIN messages /\ i + 1 # 1 /\ messages'[i] = messages[i + 1]
           /\ messages' = <<>> <=> ~(Len(messages) > 1)
  OBVIOUS

LEMMA MessagesHead ==
    ASSUME messages \in Seq(Commands), messages # <<>>
    PROVE  Head(messages) \in Commands /\ 1 \in DOMAIN messages /\ Head(messages) = messages[1]
  OBVIOUS

StartKept ==
    /\ <<"wait", "start">> \in Pipe' => <<"wait", "start">> \in Pipe
    /\ view # "none" => view' # "none"

(* The promise of a handler resolves, with nothing left to wait for. *)
LEMMA ResolveKeeps ==
    ASSUME MessagePart, messages # <<>>, Resolve, StartKept,
           writes' \in Seq(Writes), OneFollows(writes'),
           Following' = {}, Busy' = {}, launch' # "creating",
           session' # "live" => launch' = "ended"
    PROVE  MessagePart'
  <1>1. messages \in Seq(Commands) /\ messages' = Tail(messages)
    BY DEF MessagePart, MessagesTypeOK, Resolve
  <1>2. /\ messages' \in Seq(Commands)
        /\ Head(messages) \in Commands
        /\ \A i \in DOMAIN messages' :
              i \in Nat /\ i + 1 \in DOMAIN messages /\ i + 1 # 1 /\ messages'[i] = messages[i + 1]
        /\ turn' = IF messages' = <<>> THEN "loop" ELSE "consume"
    BY <1>1, MessagesTail DEF Resolve
  <1>3. MessagesTypeOK'
    BY <1>2 DEF Resolve, MessagePart, MessagesTypeOK, Writes
  <1>4. Control'
    BY <1>2 DEF Control, Idle
  <1>5. StartOnce'
    <2>1. ASSUME NEW i \in DOMAIN messages', NEW j \in DOMAIN messages',
                 messages'[i] = "configurationDone", messages'[j] = "configurationDone"
          PROVE  i = j
      <3>1. i + 1 = j + 1
        BY <1>2, <2>1 DEF MessagePart, StartOnce
      <3> QED
        BY <1>2, <3>1
    <2>2. <<"wait", "start">> \in Pipe' =>
            /\ view' # "none"
            /\ \A i \in DOMAIN messages' : messages'[i] # "configurationDone"
      BY <1>2 DEF StartKept, MessagePart, StartOnce
    <2> QED
      BY <2>1, <2>2 DEF StartOnce
  <1>6. LaunchInv'
    <2>1. \A i \in DOMAIN messages' : messages'[i] # "launch"
      BY <1>2 DEF MessagePart, LaunchInv
    <2> QED
      BY <1>2, <2>1 DEF LaunchInv
  <1> QED
    BY <1>3, <1>4, <1>5, <1>6 DEF MessagePart

(* A handler answers, whatever else it takes off the list of the dropped. *)
RespondsWith(then, ending) ==
    /\ writes' = writes \o Write(then, ending)
    /\ answered' = TRUE
    /\ turn' = "loop"
    /\ dropped' \subseteq dropped
    /\ UNCHANGED <<messages, sent>>

(* A handler that waits for nothing else answers. *)
LEMMA RespondsKeep ==
    ASSUME MessagePart, messages # <<>>, Following = {}, Busy' = {},
           NEW then \in Continuations \ {"none"}, NEW ending \in Endings, RespondsWith(then, ending),
           CanFollow(Head(messages), then),
           launch' # "creating", launch' = "ended" <=> launch = "ended",
           UNCHANGED session,
           <<"wait", "start">> \in Pipe' =>
              /\ view' # "none"
              /\ then # "start"
              /\ <<"wait", "start">> \in Pipe \/ Head(messages) = "configurationDone"
    PROVE  MessagePart'
  <1>1. /\ messages \in Seq(Commands) /\ writes \in Seq(Writes) /\ OneFollows(writes)
        /\ writes' = writes \o Write(then, ending)
        /\ turn' = "loop" /\ UNCHANGED messages
    BY DEF MessagePart, MessagesTypeOK, Control, RespondsWith, Writes
  <1>2. writes' \in Seq(Writes) /\ Following' = {then} /\ OneFollows(writes')
    <2>1. then \in Continuations /\ {then} \ {"none"} = {then} /\ Follow(writes) = {}
      BY DEF Following
    <2>2. /\ writes' \in Seq(Writes)
          /\ Follow(writes') = Follow(writes) \union ({then} \ {"none"})
          /\ OneFollows(writes')
      BY <1>1, <2>1, FollowAppend
    <2> QED
      BY <2>1, <2>2 DEF Following
  <1>3. MessagesTypeOK'
    BY <1>1, <1>2 DEF RespondsWith, MessagePart, MessagesTypeOK, Writes
  <1>4. Control'
    BY <1>1, <1>2 DEF Control, OnWrite
  <1>5. StartOnce'
    <2>1. 1 \in DOMAIN messages /\ Head(messages) = messages[1]
      BY <1>1, MessagesHead
    <2>2. Head(messages) = "configurationDone" =>
            \A i \in DOMAIN messages : messages[i] = "configurationDone" => i = 1
      BY <2>1 DEF MessagePart, StartOnce
    <2> QED
      BY <1>1, <1>2, <2>2 DEF MessagePart, StartOnce
  <1>6. LaunchInv'
    BY <1>1 DEF LaunchInv, MessagePart
  <1> QED
    BY <1>3, <1>4, <1>5, <1>6 DEF MessagePart

LEMMA RespondKeeps ==
    ASSUME MessagePart, messages # <<>>, Following = {}, Busy' = {},
           NEW then \in Continuations \ {"none"}, NEW ending \in Endings, Respond(then, ending),
           CanFollow(Head(messages), then),
           launch' # "creating", launch' = "ended" <=> launch = "ended",
           UNCHANGED session,
           <<"wait", "start">> \in Pipe' =>
              /\ view' # "none"
              /\ then # "start"
              /\ <<"wait", "start">> \in Pipe \/ Head(messages) = "configurationDone"
    PROVE  MessagePart'
  BY RespondsKeep DEF Respond, RespondsWith

(* A handler waits for the driver. *)
LEMMA AwaitKeeps ==
    ASSUME MessagePart, messages # <<>>, Following' = {}, NEW k, Busy' = {k},
           Awaits(Head(messages), k),
           turn' = "loop", UNCHANGED <<messages, answered, dropped, sent>>,
           writes' \in Seq(Writes), OneFollows(writes'),
           launch \notin {"creating", "ended"}, UNCHANGED <<launch, session>>,
           StartKept
    PROVE  MessagePart'
  <1>1. MessagesTypeOK'
    BY DEF MessagePart, MessagesTypeOK, Writes
  <1>2. Control'
    BY DEF Control, OnDriver
  <1>3. StartOnce'
    BY DEF MessagePart, StartOnce, StartKept
  <1>4. LaunchInv'
    BY DEF LaunchInv, MessagePart
  <1> QED
    BY <1>1, <1>2, <1>3, <1>4 DEF MessagePart

(* setBreakpoints goes on with its breakpoints. *)
LEMMA SetBpsKeeps ==
    ASSUME MessagePart, messages # <<>>, Head(messages) = "setBreakpoints",
           turn' = "setBps", UNCHANGED <<messages, writes, answered, dropped, sent>>,
           Following = {}, Busy' = {}, launch \notin {"creating", "ended"}, UNCHANGED <<launch, session>>,
           StartKept
    PROVE  MessagePart'
  <1>1. MessagesTypeOK'
    BY DEF MessagePart, MessagesTypeOK
  <1>2. Control'
    BY DEF MessagePart, Control, Idle, Following
  <1>3. StartOnce'
    <2>1. messages \in Seq(Commands)
      BY DEF MessagePart, MessagesTypeOK
    <2>2. \A i \in DOMAIN messages : messages[i] = "configurationDone" => i # 1
      BY <2>1, MessagesHead
    <2> QED
      BY <2>2 DEF MessagePart, StartOnce, StartKept, Following
  <1>4. LaunchInv'
    BY DEF LaunchInv, MessagePart
  <1> QED
    BY <1>1, <1>2, <1>3, <1>4 DEF MessagePart

(* What is done aside leaves what is waited for as it is. *)
LEMMA AsideKeeps ==
    ASSUME MessagePart, UNCHANGED <<messages, turn, answered, dropped, sent, launch>>,
           session' = session \/ (messages # <<>> /\ Head(messages) = "disconnect"),
           writes' \in Seq(Writes), OneFollows(writes'), Following' = Following, Busy' = Busy,
           StartKept
    PROVE  MessagePart'
  <1>1. MessagesTypeOK'
    BY DEF MessagePart, MessagesTypeOK, Writes
  <1>2. Control'
    BY DEF MessagePart, Control, Idle, OnDriver, OnWrite, OnCreation
  <1>3. StartOnce'
    BY DEF MessagePart, StartOnce, StartKept
  <1>4. LaunchInv'
    BY DEF LaunchInv, MessagePart
  <1> QED
    BY <1>1, <1>2, <1>3, <1>4 DEF MessagePart

-----------------------------------------------------------------------------
(* What the invariant says of the calls in flight. *)

CallerStep == Caller \/ UNCHANGED driverVars

LEMMA InvParts ==
    ASSUME DapInv
    PROVE  /\ DriverTypeOK /\ DriverInv /\ DriverOnce
           /\ messages \in Seq(Commands) /\ writes \in Seq(Writes) /\ OneFollows(writes)
           /\ turn \in {"loop", "consume", "setBps"}
           /\ turn # "loop" => messages # <<>> /\ Idle
           /\ messages # <<>> => Head(messages) \in Commands /\ Head(messages) = messages[1] /\ 1 \in DOMAIN messages
  BY DEF DapInv, DriverPart, DriverInv, DriverRuns, DriverOnce, MessagePart, MessagesTypeOK, Writes, Control

(* Every name in use is that of a call in the queue, or of a pause that is *)
(* still to set its interrupt.                                             *)
LEMMA NamesInUse ==
    ASSUME DapInv, NEW call \in InFlight
    PROVE  \/ call = interrupting /\ <<"hop", call>> \in Busy
           \/ \E op : <<op, call>> \in Pipe
  <1>1. call \in InTasks \union InReplies \union InDebug \union InInterrupt
    BY FlightIs
  <1>2. CASE call \in InInterrupt
    BY <1>2 DEF Busy, InInterrupt
  <1>3. CASE call \in InTasks \union InReplies \union InDebug
    <2>1. PICK k : k \in Pipe /\ k[2] = call /\ k \in TaskOps \X Calls
      BY <1>3, InvParts, KindsAre DEF Pipe, AllKinds
    <2>2. k = <<k[1], call>>
      BY <2>1
    <2> QED
      BY <2>1, <2>2
  <1> QED
    BY <1>1, <1>2, <1>3

(* A reply to one of the adapter's calls is awaited by the head of the     *)
(* messages, unless nobody waits for it.                                   *)
LEMMA Delivered ==
    ASSUME DapInv, NEW call \in DapCalls, Deliver(call)
    PROVE  /\ Taking /\ turn = "loop"
           /\ reply \in Reply /\ reply.op \in TaskOps /\ reply.call = call
           /\ ReplyKind = <<reply.op, call>> /\ ReplyKind \in Pipe
           /\ ReplyKind \notin Unawaited =>
                 /\ Busy = {ReplyKind}
                 /\ messages # <<>>
                 /\ Following = {}
                 /\ launch \notin {"creating", "ended"}
                 /\ Awaits(Head(messages), ReplyKind)
  <1>1. call \in Calls /\ call # NoCall
    BY CommandsAssumption, CallsAssumption
  <1>2. Taking /\ turn = "loop" /\ reply \in Reply /\ reply.call = call
    BY InvParts DEF Deliver, Loop, Taking, reply, DriverTypeOK
  <1>3. reply.op \in TaskOps
    BY <1>1, <1>2 DEF Reply
  <1>4. ReplyKind = <<reply.op, call>>
    BY <1>2 DEF ReplyKind, KindOf, reply
  <1>5. ReplyKind \in Pipe
    <2>1. KindOf(Head(replies)) \in Kinds(replies)
      BY <1>2, InvParts, TailKinds DEF Taking, DriverTypeOK
    <2>2. "thread" \notin TaskOps
      BY DEF TaskOps, ResumeOps, StepOps
    <2> QED
      BY <1>3, <1>4, <2>1, <2>2 DEF Pipe, AllKinds, ThreadKind, ReplyKind
  <1>6. ASSUME ReplyKind \notin Unawaited
        PROVE  /\ Busy = {ReplyKind}
               /\ messages # <<>>
               /\ Following = {}
               /\ launch \notin {"creating", "ended"}
               /\ Awaits(Head(messages), ReplyKind)
    <2>1. ReplyKind \in Busy
      BY <1>5, <1>6 DEF Busy
    <2> QED
      BY <1>2, <2>1 DEF DapInv, MessagePart, Control, Idle, OnDriver, OnWrite, OnCreation, LaunchInv
  <1> QED
    BY <1>2, <1>3, <1>4, <1>5, <1>6

(* Nobody waits for the kinds that are reported when they come. *)
LEMMA AwaitedKinds ==
    ASSUME NEW command, NEW op, NEW call, Awaits(command, <<op, call>>)
    PROVE  <<op, call>> \notin Unawaited /\ <<op, call>> \notin {"go"} \X Resumes
  <1>1. \/ op = "go" /\ call \in {"start"} \union Continues
        \/ op \notin {"go", "wait"}
        \/ call = "step"
    BY DEF Awaits, StepOps
  <1>2. call \in {"start", "step"} \union Continues => call \notin Resumes
    BY DEF Continues, Resumes
  <1>3. call = "step" => call \notin RunCalls
    BY DEF RunCalls, Continues, Resumes
  <1> QED
    BY <1>1, <1>2, <1>3 DEF Unawaited

(* A handler that begins, or setBreakpoints that goes on, asks the driver  *)
(* for something under a name that is free, and waits for the answer.      *)
LEMMA Requests ==
    ASSUME DapInv, turn # "loop", launch # "ended", Await,
           NEW op \in CallOps \union {"remove"}, NEW call \in Calls \ InFlight,
           NEW bp, IF op = "remove" THEN bp \in BpIds ELSE bp = NoBp,
           Post(op, call, bp),
           UNCHANGED <<replies, dbgThread, interrupting, engineVars, session, launch, view>>,
           Awaits(Head(messages), <<op, call>>),
           setBps'.paused = setBps.paused, HandlerTypeOK'
    PROVE  DapInv' /\ CallerStep
  <1>1. messages # <<>> /\ Busy = {} /\ Following = {} /\ launch # "creating" /\ writes \in Seq(Writes) /\ OneFollows(writes)
    BY InvParts DEF Idle
  <1>2. Calling(call)
    BY DEF Calling, NewCall
  <1>3. <<op, call>> \notin Unawaited /\ <<op, call>> \notin {"go"} \X Resumes /\ op # "wait"
    BY AwaitedKinds DEF CallOps, ResumeOps, StepOps
  <1>4. /\ DriverPart'
        /\ Pipe' = Pipe \union {<<op, call>>}
        /\ Busy' = {<<op, call>>}
    <2>1. DriverPart
      BY DEF DapInv
    <2>2. /\ DriverPart'
          /\ Pipe' = Pipe \union {<<op, call>>}
          /\ Busy' = Busy \union ({<<op, call>>} \ Unawaited)
      BY <1>2, <1>3, <2>1, PartPosted
    <2> QED
      BY <1>1, <1>3, <2>2
  <1>5. StartKept
    BY <1>3, <1>4 DEF StartKept
  <1>6. MessagePart'
    BY <1>1, <1>4, <1>5, AwaitKeeps DEF DapInv, Await, Following
  <1>7. ResumeToCome'
    BY <1>3, <1>4 DEF DapInv, ResumeToCome
  <1> QED
    BY <1>2, <1>4, <1>6, <1>7 DEF DapInv, CallerStep, Caller

(* A handler that begins answers at once, or is done with at once. *)
LEMMA AnswersAtOnce ==
    ASSUME DapInv, turn # "loop",
           NEW then \in Continuations \ {"none"}, NEW ending \in Endings, Respond(then, ending),
           CanFollow(Head(messages), then), then = "start" => Head(messages) = "configurationDone" /\ turn = "consume",
           UNCHANGED <<driverVars, launch, view>>,
           setBps'.paused => setBps.paused, HandlerTypeOK'
    PROVE  DapInv' /\ CallerStep
  <1>1. messages # <<>> /\ Busy = {} /\ Following = {} /\ launch # "creating"
    BY InvParts DEF Idle
  <1>2. DriverPart' /\ Pipe' = Pipe /\ Busy' = {}
    BY <1>1, PartUnchanged DEF DapInv
  <1>3. <<"wait", "start">> \in Pipe => view # "none" /\ then # "start"
    <2>1. Head(messages) = messages[1] /\ 1 \in DOMAIN messages
      BY <1>1, InvParts
    <2> QED
      BY <2>1 DEF DapInv, MessagePart, StartOnce
  <1>4. UNCHANGED session
    BY DEF driverVars
  <1>5. MessagePart'
    BY <1>1, <1>2, <1>3, <1>4, RespondKeeps DEF DapInv
  <1> QED
    BY <1>2, <1>5 DEF DapInv, CallerStep, ResumeToCome

(* What a session that has been destroyed implies. *)
LEMMA Destroyed ==
    ASSUME DapInv, session # "live", Head(messages) # "disconnect" \/ messages = <<>>
    PROVE  launch = "ended"
  BY DEF DapInv, MessagePart, LaunchInv

(* The names that are free when no handler waits for the driver. *)
LEMMA FreeNames ==
    ASSUME DapInv, Busy = {}
    PROVE  /\ \A call : call \notin RunCalls => call \notin InFlight
           /\ \A call \in RunCalls \intersect InFlight :
                 \E op \in {"wait", "go"} :
                    <<op, call>> \in Pipe /\ (op = "go" => call \in Resumes)
  <1>1. Pipe \subseteq Unawaited
    BY DEF Busy
  <1>2. ASSUME NEW call \in InFlight
        PROVE  \E op \in {"wait", "go"} :
                  <<op, call>> \in Pipe /\ (op = "go" => call \in Resumes) /\ call \in RunCalls
    <2>1. PICK op : <<op, call>> \in Pipe
      BY NamesInUse
    <2>2. <<op, call>> \in Unawaited
      BY <1>1, <2>1
    <2>3. op \in {"wait", "go"} /\ (op = "go" => call \in Resumes) /\ call \in RunCalls
      BY <2>2 DEF Unawaited, RunCalls
    <2> QED
      BY <2>1, <2>3
  <1> QED
    BY <1>2

LEMMA FreshContinue ==
    ASSUME DapInv, Busy = {}
    PROVE  Fresh(Continues) \in Continues \ InFlight
  <1>1. \E call \in Continues : call \notin InFlight
    <2> SUFFICES ASSUME "continue" \in InFlight, "continue2" \in InFlight PROVE FALSE
      BY DEF Continues
    <2>1. {"continue", "continue2"} \subseteq RunCalls \ Resumes
      BY DEF RunCalls, Continues, Resumes
    <2>2. <<"wait", "continue">> \in Pipe /\ <<"wait", "continue2">> \in Pipe
      BY <2>1, FreeNames
    <2>3. OneOf("wait", Continues)
      BY DEF DapInv, DriverPart, RunsInOrder
    <2> QED
      BY <2>2, <2>3 DEF OneOf, Continues
  <1> QED
    BY <1>1 DEF Fresh

LEMMA FreshResume ==
    ASSUME DapInv, Busy = {}, setBps.paused
    PROVE  Fresh(Resumes) \in Resumes \ InFlight
  <1>1. \E call \in Resumes : call \notin InFlight
    <2> SUFFICES ASSUME "bpResume" \in InFlight, "bpResume2" \in InFlight PROVE FALSE
      BY DEF Resumes
    <2>1. {"bpResume", "bpResume2"} \subseteq RunCalls /\ Resumes = {"bpResume", "bpResume2"}
      BY DEF RunCalls, Continues, Resumes
    <2>2. \A c \in Resumes : <<"go", c>> \notin Pipe
      BY DEF DapInv, ResumeToCome
    <2>3. <<"wait", "bpResume">> \in Pipe /\ <<"wait", "bpResume2">> \in Pipe
      BY <2>1, <2>2, FreeNames
    <2>4. OneOf("wait", Resumes)
      BY DEF DapInv, DriverPart, RunsInOrder
    <2> QED
      BY <2>1, <2>3, <2>4 DEF OneOf
  <1> QED
    BY <1>1 DEF Fresh

-----------------------------------------------------------------------------
(* The requests. *)

LEMMA SameHandler ==
    ASSUME HandlerTypeOK, UNCHANGED <<sessionVars, launch, setBps, crashed, closed, view>>
    PROVE  HandlerTypeOK'
  BY DEF HandlerTypeOK, SessionTypeOK, sessionVars

LEMMA SameMessages ==
    ASSUME DapInv, UNCHANGED <<messages, writes, turn>>
    PROVE  writes' \in Seq(Writes) /\ OneFollows(writes') /\ Following' = Following
  BY InvParts DEF Following

LEMMA StepReceive == DapInv /\ Receive => DapInv' /\ CallerStep
  <1> SUFFICES ASSUME DapInv, Receive PROVE DapInv' /\ CallerStep
    OBVIOUS
  <1>1. PICK command \in Commands : MayRequest(command) /\ messages' = Append(messages, command)
    BY DEF Receive
  <1>2. /\ Loop /\ UNCHANGED <<driverVars, sessionVars, writes, launch, setBps, crashed, closed, view,
                             answered, dropped>>
        /\ sent < MaxRequests /\ sent' = sent + 1
        /\ turn' = IF messages = <<>> THEN "consume" ELSE "loop"
    BY DEF Receive
  <1> DEFINE n == Len(messages) + 1
  <1>3. /\ messages \in Seq(Commands) /\ messages' \in Seq(Commands) /\ messages' # <<>>
        /\ DOMAIN messages' = DOMAIN messages \union {n}
        /\ \A i \in DOMAIN messages : messages'[i] = messages[i]
        /\ messages'[n] = command
        /\ messages = <<>> => n = 1 /\ Head(messages') = command /\ DOMAIN messages = {}
        /\ messages # <<>> => Head(messages') = Head(messages)
    BY <1>1, InvParts
  <1> HIDE DEF n
  <1>4. DriverPart' /\ Pipe' = Pipe /\ Busy' = Busy
    BY <1>2, PartUnchanged DEF DapInv
  <1>5. UNCHANGED session
    BY <1>2 DEF driverVars
  <1>6. MessagesTypeOK'
    BY <1>2, <1>3, RequestsAssumption DEF DapInv, MessagePart, MessagesTypeOK
  <1>7. Control'
    BY <1>2, <1>3, <1>4
       DEF DapInv, MessagePart, Control, Idle, OnDriver, OnWrite, OnCreation, Following, Loop
  <1>8. StartOnce'
    <2>1. command = "configurationDone" =>
            view = "none" /\ \A i \in DOMAIN messages : messages[i] # "configurationDone"
      BY <1>1 DEF MayRequest
    <2> QED
      BY <1>2, <1>3, <1>4, <2>1 DEF DapInv, MessagePart, StartOnce, Following, Loop
  <1>9. LaunchInv'
    <2>1. command = "launch" => launch = "none" /\ messages = <<>>
      BY <1>1 DEF MayRequest
    <2> QED
      BY <1>2, <1>3, <1>4, <1>5, <2>1 DEF DapInv, MessagePart, LaunchInv
  <1>10. HandlerTypeOK'
    BY <1>2, SameHandler DEF DapInv
  <1> QED
    BY <1>2, <1>4, <1>6, <1>7, <1>8, <1>9, <1>10 DEF DapInv, MessagePart, ResumeToCome, CallerStep

LEMMA StepUnknown == DapInv /\ Unknown => DapInv' /\ CallerStep
  <1> SUFFICES ASSUME DapInv, Unknown PROVE DapInv' /\ CallerStep
    OBVIOUS
  <1>1. /\ turn # "loop" /\ Head(messages) = "unknown" /\ Resolve
        /\ UNCHANGED <<driverVars, sessionVars, writes, launch, setBps, crashed, closed, view>>
    BY DEF Unknown, Consume
  <1>2. messages # <<>> /\ Busy = {} /\ Following = {} /\ launch # "creating"
        /\ writes \in Seq(Writes) /\ OneFollows(writes)
    BY <1>1, InvParts DEF Idle
  <1>3. DriverPart' /\ Pipe' = Pipe /\ Busy' = {} /\ UNCHANGED session
    BY <1>1, <1>2, PartUnchanged DEF DapInv, driverVars
  <1>4. session # "live" => launch = "ended"
    BY <1>1, Destroyed
  <1>5. MessagePart'
    BY <1>1, <1>2, <1>3, <1>4, ResolveKeeps DEF DapInv, StartKept, Following
  <1> QED
    BY <1>1, <1>3, <1>5, SameHandler DEF DapInv, CallerStep, ResumeToCome

LEMMA StepAnswerAtOnce == DapInv /\ AnswerAtOnce => DapInv' /\ CallerStep
  <1> SUFFICES ASSUME DapInv, AnswerAtOnce PROVE DapInv' /\ CallerStep
    OBVIOUS
  <1>1. UNCHANGED <<driverVars, sessionVars, launch, setBps, crashed, closed, view>>
    BY DEF AnswerAtOnce
  <1>2. HandlerTypeOK' /\ "paused" \in Endings
        /\ {"initialized", "resolve", "start"} \subseteq Continuations \ {"none"}
    BY <1>1, SameHandler DEF DapInv, Endings, StopReasons, Continuations
  <1>3. CASE Consume("initialize") /\ Respond("initialized", "paused")
    BY <1>1, <1>2, <1>3, AnswersAtOnce DEF Consume, CanFollow
  <1>4. CASE Consume("setExceptionBreakpoints") /\ Respond("resolve", "paused")
    BY <1>1, <1>2, <1>4, AnswersAtOnce DEF Consume, CanFollow
  <1>5. CASE Consume("configurationDone") /\ Respond("start", "paused")
    BY <1>1, <1>2, <1>5, AnswersAtOnce DEF Consume, CanFollow
  <1> QED
    BY <1>3, <1>4, <1>5 DEF AnswerAtOnce

LEMMA StepWithoutSession == DapInv /\ WithoutSession => DapInv' /\ CallerStep
  <1> SUFFICES ASSUME DapInv, WithoutSession PROVE DapInv' /\ CallerStep
    OBVIOUS
  <1>1. UNCHANGED <<driverVars, sessionVars, launch, setBps, crashed, closed, view>>
    BY DEF WithoutSession
  <1>2. HandlerTypeOK' /\ "error" \in Endings
        /\ {"resolve", "pauseEvent", "close"} \subseteq Continuations \ {"none"}
    BY <1>1, SameHandler DEF DapInv, Endings, Continuations
  <1>3. ASSUME NEW command \in {"continue", "setBreakpoints", "threads", "inspect"},
               Consume(command), Respond("resolve", "error")
        PROVE  DapInv' /\ CallerStep
    BY <1>1, <1>2, <1>3, AnswersAtOnce DEF Consume, CanFollow
  <1>4. CASE Consume("pause") /\ Respond("pauseEvent", "error")
    BY <1>1, <1>2, <1>4, AnswersAtOnce DEF Consume, CanFollow
  <1>5. CASE Consume("disconnect") /\ Respond("close", "error")
    BY <1>1, <1>2, <1>5, AnswersAtOnce DEF Consume, CanFollow
  <1>6. ASSUME NEW command \in Stepping, Consume(command), Resolve, UNCHANGED writes
        PROVE  DapInv' /\ CallerStep
    <2>1. turn # "loop" /\ Head(messages) # "disconnect"
      BY <1>6 DEF Consume, Stepping
    <2>2. messages # <<>> /\ Busy = {} /\ Following = {} /\ launch # "creating"
          /\ writes \in Seq(Writes) /\ OneFollows(writes)
      BY <2>1, InvParts DEF Idle
    <2>3. DriverPart' /\ Pipe' = Pipe /\ Busy' = {} /\ UNCHANGED session
      BY <1>1, <2>2, PartUnchanged DEF DapInv, driverVars
    <2>4. session # "live" => launch = "ended"
      BY <2>1, Destroyed
    <2>5. MessagePart'
      BY <1>1, <1>6, <2>2, <2>3, <2>4, ResolveKeeps DEF DapInv, StartKept, Following
    <2> QED
      BY <1>1, <1>2, <2>3, <2>5 DEF DapInv, CallerStep, ResumeToCome
  <1> QED
    BY <1>3, <1>4, <1>5, <1>6 DEF WithoutSession, Stepping

(* The requests that make one call and wait for its answer. *)
LEMMA StepRequest ==
    ASSUME DapInv, NEW command, NEW op \in CallOps, NEW call \in Calls \ InFlight,
           Request(command, op, call), Awaits(command, <<op, call>>)
    PROVE  DapInv' /\ CallerStep
  <1>1. /\ turn # "loop" /\ Head(messages) = command /\ HasSession /\ Await /\ Post(op, call, NoBp)
        /\ UNCHANGED <<replies, dbgThread, interrupting, engineVars, session, sessionVars,
                       launch, setBps, crashed, closed, view>>
    BY DEF Request, Consume
  <1>2. HandlerTypeOK' /\ op # "remove"
    BY <1>1, SameHandler DEF DapInv, CallOps, ResumeOps, StepOps
  <1> QED
    BY <1>1, <1>2, Requests DEF HasSession

LEMMA StepOnContinue == DapInv /\ OnContinue => DapInv' /\ CallerStep
  <1> SUFFICES ASSUME DapInv, OnContinue PROVE DapInv' /\ CallerStep
    OBVIOUS
  <1> DEFINE call == Fresh(Continues)
  <1>1. Busy = {}
    BY InvParts DEF OnContinue, Request, Consume, Idle
  <1>2. call \in Continues \ InFlight
    BY <1>1, FreshContinue
  <1> HIDE DEF call
  <1>3. call \in Calls \ InFlight /\ "go" \in CallOps
    BY <1>2, CommandsAssumption DEF DapCalls, RunCalls, CallOps, ResumeOps
  <1>4. Awaits("continue", <<"go", call>>)
    BY <1>2 DEF Awaits
  <1> QED
    BY <1>3, <1>4, StepRequest DEF OnContinue, call

LEMMA StepOnDisconnect == DapInv /\ OnDisconnect => DapInv' /\ CallerStep
  <1> SUFFICES ASSUME DapInv, OnDisconnect PROVE DapInv' /\ CallerStep
    OBVIOUS
  <1>1. Busy = {}
    BY InvParts DEF OnDisconnect, Request, Consume, Idle
  <1>2. "stop" \in Calls /\ "stop" \notin RunCalls
    BY CommandsAssumption DEF DapCalls, RunCalls, Continues, Resumes
  <1>3. "stop" \in Calls \ InFlight /\ "end" \in CallOps
    BY <1>1, <1>2, FreeNames DEF CallOps
  <1>4. Awaits("disconnect", <<"end", "stop">>)
    BY DEF Awaits
  <1> QED
    BY <1>3, <1>4, StepRequest DEF OnDisconnect

LEMMA StepOnInspect == DapInv /\ OnInspect => DapInv' /\ CallerStep
  <1> SUFFICES ASSUME DapInv, OnInspect PROVE DapInv' /\ CallerStep
    OBVIOUS
  <1>1. CASE \E op \in {"query", "frame"} : Request("inspect", op, "inspect")
    <2>1. PICK op \in {"query", "frame"} : Request("inspect", op, "inspect")
      BY <1>1
    <2>2. Busy = {}
      BY <2>1, InvParts DEF Request, Consume, Idle
    <2>3. "inspect" \in Calls /\ "inspect" \notin RunCalls
      BY CommandsAssumption DEF DapCalls, RunCalls, Continues, Resumes
    <2>4. "inspect" \in Calls \ InFlight /\ op \in CallOps
      BY <2>2, <2>3, FreeNames DEF CallOps
    <2>5. Awaits("inspect", <<op, "inspect">>)
      BY DEF Awaits
    <2> QED
      BY <2>1, <2>4, <2>5, StepRequest
  <1>2. CASE /\ Consume("inspect") /\ Respond("resolve", "paused")
             /\ UNCHANGED <<driverVars, sessionVars, launch, setBps, crashed, closed, view>>
    <2>1. HandlerTypeOK' /\ "paused" \in Endings /\ "resolve" \in Continuations \ {"none"}
      BY <1>2, SameHandler DEF DapInv, Endings, StopReasons, Continuations
    <2> QED
      BY <1>2, <2>1, AnswersAtOnce DEF Consume, CanFollow
  <1> QED
    BY <1>1, <1>2 DEF OnInspect

LEMMA StepOnStep == DapInv /\ OnStep => DapInv' /\ CallerStep
  <1> SUFFICES ASSUME DapInv, OnStep PROVE DapInv' /\ CallerStep
    OBVIOUS
  <1>1. PICK command \in Stepping, type \in StepOps :
           Consume(command) /\ StepBegin(type)
    BY DEF OnStep, Stepping, StepOps
  <1>2. /\ turn # "loop" /\ Head(messages) = command /\ HasSession /\ Await
        /\ Post("frame", "stepFrame", NoBp) /\ stepType' = type
        /\ UNCHANGED <<replies, dbgThread, interrupting, engineVars, session, stopReason, active,
                       launch, setBps, crashed, closed, view>>
    BY <1>1 DEF OnStep, Consume, StepBegin
  <1>3. Busy = {}
    BY <1>2, InvParts DEF Idle
  <1>4. "stepFrame" \in Calls /\ "stepFrame" \notin RunCalls
    BY CommandsAssumption DEF DapCalls, RunCalls, Continues, Resumes
  <1>5. "stepFrame" \in Calls \ InFlight /\ "frame" \in CallOps
    BY <1>3, <1>4, FreeNames DEF CallOps
  <1>6. Awaits(command, <<"frame", "stepFrame">>)
    BY DEF Awaits
  <1>7. HandlerTypeOK'
    BY <1>2 DEF DapInv, HandlerTypeOK, SessionTypeOK
  <1> QED
    BY <1>2, <1>5, <1>6, <1>7, Requests DEF HasSession

LEMMA StepOnThreads == DapInv /\ OnThreads => DapInv' /\ CallerStep
  <1> SUFFICES ASSUME DapInv, OnThreads PROVE DapInv' /\ CallerStep
    OBVIOUS
  <1>1. /\ turn # "loop" /\ Head(messages) = "threads" /\ HasSession /\ Await
        /\ GetThreads("threads")
        /\ UNCHANGED <<session, sessionVars, launch, setBps, crashed, closed, view>>
    BY DEF OnThreads, Consume, GetThreads
  <1>2. messages # <<>> /\ Busy = {} /\ Following = {} /\ writes \in Seq(Writes) /\ OneFollows(writes)
    BY <1>1, InvParts DEF Idle
  <1>3. "threads" \in Calls /\ "threads" \notin RunCalls
    BY CommandsAssumption DEF DapCalls, RunCalls, Continues, Resumes
  <1>4. Listing("threads")
    BY <1>1, <1>2, <1>3, FreeNames DEF Listing
  <1>5. /\ DriverPart'
        /\ Pipe' = Pipe \union {<<"query", "threads">>}
        /\ Busy' = {<<"query", "threads">>}
    BY <1>2, <1>4, PartListed DEF DapInv
  <1>6. Awaits(Head(messages), <<"query", "threads">>)
    BY <1>1 DEF Awaits
  <1>7. StartKept
    BY <1>1, <1>5 DEF StartKept
  <1>8. MessagePart'
    BY <1>1, <1>2, <1>5, <1>6, <1>7, AwaitKeeps DEF DapInv, Await, HasSession, Following
  <1> QED
    BY <1>1, <1>4, <1>5, <1>8, SameHandler DEF DapInv, CallerStep, Caller, ResumeToCome

LEMMA StepOnLaunch == DapInv /\ OnLaunch => DapInv' /\ CallerStep
  <1> SUFFICES ASSUME DapInv, OnLaunch PROVE DapInv' /\ CallerStep
    OBVIOUS
  <1>1. /\ turn # "loop" /\ Head(messages) = "launch" /\ launch' = "creating" /\ Await
        /\ UNCHANGED <<driverVars, sessionVars, setBps, crashed, closed, view>>
    BY DEF OnLaunch, Consume
  <1>2. messages # <<>> /\ Busy = {} /\ Following = {} /\ launch # "creating"
        /\ Head(messages) = messages[1] /\ 1 \in DOMAIN messages
    BY <1>1, InvParts DEF Idle
  <1>3. launch # "ended"
    BY <1>1, <1>2 DEF DapInv, MessagePart, LaunchInv
  <1>4. DriverPart' /\ Pipe' = Pipe /\ Busy' = {} /\ UNCHANGED session
    BY <1>1, <1>2, PartUnchanged DEF DapInv, driverVars
  <1>5. MessagesTypeOK'
    BY <1>1 DEF DapInv, MessagePart, MessagesTypeOK, Await
  <1>6. Control'
    BY <1>1, <1>2, <1>4 DEF DapInv, MessagePart, Control, OnCreation, Await, Following
  <1>7. StartOnce'
    BY <1>1, <1>4 DEF DapInv, MessagePart, StartOnce, Await, Following
  <1>8. LaunchInv'
    BY <1>1, <1>3, <1>4 DEF DapInv, MessagePart, LaunchInv, Await
  <1>9. HandlerTypeOK'
    BY <1>1 DEF DapInv, HandlerTypeOK, SessionTypeOK, sessionVars
  <1> QED
    BY <1>1, <1>4, <1>5, <1>6, <1>7, <1>8, <1>9 DEF DapInv, MessagePart, ResumeToCome, CallerStep

LEMMA StepLaunched == DapInv /\ Launched => DapInv' /\ CallerStep
  <1> SUFFICES ASSUME DapInv, Launched PROVE DapInv' /\ CallerStep
    OBVIOUS
  <1>1. /\ turn = "loop" /\ launch = "creating"
        /\ UNCHANGED <<driverVars, sessionVars, setBps, crashed, closed, view>>
    BY DEF Launched, Loop
  <1>2. /\ messages # <<>> /\ Head(messages) = "launch" /\ Busy = {} /\ Following = {}
        /\ writes \in Seq(Writes) /\ OneFollows(writes)
    BY <1>1, InvParts DEF DapInv, MessagePart, Control, Idle, OnDriver, OnWrite, OnCreation
  <1>3. DriverPart' /\ Pipe' = Pipe /\ Busy' = {} /\ UNCHANGED session
    BY <1>1, <1>2, PartUnchanged DEF DapInv, driverVars
  <1>4. session # "live" => launch = "ended"
    BY <1>2, Destroyed
  <1>5. CASE launch' = "created" /\ Resolve /\ UNCHANGED writes
    <2>1. MessagePart'
      BY <1>1, <1>2, <1>3, <1>4, <1>5, ResolveKeeps DEF DapInv, StartKept, Following
    <2>2. HandlerTypeOK'
      BY <1>1, <1>5 DEF DapInv, HandlerTypeOK, SessionTypeOK, sessionVars
    <2> QED
      BY <1>1, <1>3, <2>1, <2>2 DEF DapInv, ResumeToCome, CallerStep
  <1>6. CASE launch' = "none" /\ Respond("resolve", "error")
    <2>1. "error" \in Endings /\ "resolve" \in Continuations \ {"none"}
          /\ CanFollow(Head(messages), "resolve")
      BY <1>2 DEF Endings, Continuations, CanFollow
    <2>2. <<"wait", "start">> \in Pipe => view # "none"
      BY DEF DapInv, MessagePart, StartOnce
    <2>3. MessagePart'
      BY <1>1, <1>2, <1>3, <1>6, <2>1, <2>2, RespondKeeps DEF DapInv
    <2>4. HandlerTypeOK'
      BY <1>1, <1>6 DEF DapInv, HandlerTypeOK, SessionTypeOK, sessionVars
    <2> QED
      BY <1>1, <1>3, <2>3, <2>4 DEF DapInv, ResumeToCome, CallerStep
  <1> QED
    BY <1>5, <1>6 DEF Launched

-----------------------------------------------------------------------------
(* The pauses, and setBreakpoints. *)

LEMMA BeginTypeOK ==
    ASSUME HandlerTypeOK, NEW paused \in BOOLEAN, BeginSetBps(paused)
    PROVE  /\ setBps' \in [remove : SUBSET BpIds, create : 0 .. MaxLines,
                           paused : BOOLEAN, failed : BOOLEAN]
           /\ setBps'.paused = paused
  BY DEF BeginSetBps, HandlerTypeOK, SessionTypeOK

(* The session is there when it is interrupted. *)
LEMMA InterruptsLive ==
    ASSUME DapInv, UseSession,
           interrupting # NoCall
           \/ (launch # "ended" /\ messages # <<>> /\ Head(messages) \in {"pause", "setBreakpoints"})
    PROVE  session = "live" /\ UNCHANGED session
  <1>1. ASSUME interrupting # NoCall
        PROVE  launch # "ended" /\ messages # <<>> /\ Head(messages) # "disconnect"
    <2>1. <<"hop", interrupting>> \in Busy
      BY <1>1 DEF Busy, InInterrupt
    <2>2. messages # <<>> /\ Awaits(Head(messages), <<"hop", interrupting>>)
      BY <2>1 DEF DapInv, MessagePart, Control, Idle, OnDriver, OnWrite, OnCreation
    <2>3. launch # "ended"
      BY <2>1 DEF DapInv, MessagePart, LaunchInv
    <2> QED
      BY <2>2, <2>3 DEF Awaits, StepOps
  <1> QED
    BY <1>1 DEF DapInv, MessagePart, LaunchInv, UseSession, SessionGone

LEMMA StepPauseAtOnce == DapInv /\ PauseAtOnce => DapInv' /\ CallerStep
  <1> SUFFICES ASSUME DapInv, PauseAtOnce PROVE DapInv' /\ CallerStep
    OBVIOUS
  <1>1. HasSession /\ UNCHANGED <<driverVars, sessionVars, launch, crashed, closed, view>>
    <2>1. /\ HasSession /\ PauseStopped /\ turn # "loop" /\ Head(messages) \in {"pause", "setBreakpoints"}
          /\ UNCHANGED <<sessionVars, launch, crashed, closed, view>>
      BY DEF PauseAtOnce, Consume
    <2>2. UNCHANGED session
      BY <2>1, InterruptsLive, InvParts DEF PauseStopped, HasSession
    <2> QED
      BY <2>1, <2>2 DEF PauseStopped, driverVars, engineVars
  <1>2. {"paused", "error"} \subseteq Endings
        /\ {"pauseEvent", "resolve"} \subseteq Continuations \ {"none"}
    BY DEF Endings, StopReasons, Continuations
  <1>3. CASE Consume("pause") /\ Respond("pauseEvent", "paused") /\ UNCHANGED setBps
    BY <1>1, <1>2, <1>3, SameHandler, AnswersAtOnce DEF Consume, CanFollow, DapInv
  <1>4. CASE Consume("setBreakpoints") /\ Respond("resolve", "error") /\ UNCHANGED setBps
    BY <1>1, <1>2, <1>4, SameHandler, AnswersAtOnce DEF Consume, CanFollow, DapInv
  <1>5. CASE /\ Consume("setBreakpoints") /\ turn' = "setBps" /\ BeginSetBps(FALSE)
             /\ UNCHANGED <<messages, writes, answered, dropped, sent>>
    <2>1. messages # <<>> /\ Busy = {} /\ Following = {} /\ Head(messages) = "setBreakpoints"
      BY <1>5, InvParts DEF Consume, Idle
    <2>2. DriverPart' /\ Pipe' = Pipe /\ Busy' = {} /\ UNCHANGED session
      BY <1>1, <2>1, PartUnchanged DEF DapInv, driverVars
    <2>3. HandlerTypeOK /\ setBps'.paused = FALSE
          /\ setBps' \in [remove : SUBSET BpIds, create : 0 .. MaxLines,
                          paused : BOOLEAN, failed : BOOLEAN]
      BY <1>5, BeginTypeOK DEF DapInv
    <2>4. HandlerTypeOK'
      BY <1>1, <2>3 DEF HandlerTypeOK, SessionTypeOK, sessionVars
    <2>5. MessagePart'
      BY <1>1, <1>5, <2>1, <2>2, SetBpsKeeps DEF DapInv, HasSession, StartKept
    <2> QED
      BY <1>1, <2>2, <2>3, <2>4, <2>5 DEF DapInv, ResumeToCome, CallerStep
  <1> QED
    BY <1>3, <1>4, <1>5 DEF PauseAtOnce

LEMMA StepOnPause == DapInv /\ OnPause => DapInv' /\ CallerStep
  <1> SUFFICES ASSUME DapInv, OnPause PROVE DapInv' /\ CallerStep
    OBVIOUS
  <1>1. /\ turn # "loop" /\ interrupting = NoCall /\ HasSession /\ Await
        /\ UNCHANGED <<sessionVars, launch, setBps, crashed, closed, view>>
    BY DEF OnPause, Consume
  <1>2. PICK call : /\ PauseBegin(call)
                    /\ \/ call = "pause" /\ Head(messages) = "pause"
                       \/ call = "bpPause" /\ Head(messages) = "setBreakpoints"
    BY DEF OnPause, Consume
  <1>3. messages # <<>> /\ Busy = {} /\ Following = {} /\ writes \in Seq(Writes) /\ OneFollows(writes)
    BY <1>1, InvParts DEF Idle
  <1>4. call \in Calls /\ call \notin RunCalls
    BY <1>2, CommandsAssumption DEF DapCalls, RunCalls, Continues, Resumes
  <1>5. Pausing(call)
    BY <1>1, <1>2, <1>3, <1>4, FreeNames DEF Pausing
  <1>6. DriverPart' /\ Pipe' = Pipe /\ Busy' = {<<"hop", call>>}
    BY <1>3, <1>5, PartPausing DEF DapInv
  <1>7. UNCHANGED session
    BY <1>1, <1>2, <1>3, InterruptsLive DEF PauseBegin, HasSession
  <1>8. Awaits(Head(messages), <<"hop", call>>)
    BY <1>2 DEF Awaits
  <1>9. MessagePart'
    BY <1>1, <1>3, <1>6, <1>7, <1>8, AwaitKeeps DEF DapInv, Await, HasSession, Following, StartKept
  <1> QED
    BY <1>1, <1>5, <1>6, <1>9, SameHandler DEF DapInv, CallerStep, Caller, ResumeToCome

LEMMA StepPauseIssued == DapInv /\ PauseIssued => DapInv' /\ CallerStep
  <1> SUFFICES ASSUME DapInv, PauseIssued PROVE DapInv' /\ CallerStep
    OBVIOUS
  <1>1. PauseEnd /\ UNCHANGED <<sessionVars, messages, turn, writes, launch, setBps, crashed, closed,
                                view, answered, dropped, sent, session>>
    BY InterruptsLive DEF PauseIssued, PauseEnd, dapVars, clientVars
  <1>2. DriverPart' /\ Pipe' = Pipe \union {<<"hop", interrupting>>} /\ Busy' = Busy
    BY <1>1, PartPauseEnd DEF DapInv
  <1>3. MessagePart'
    BY <1>1, <1>2, SameMessages, AsideKeeps DEF DapInv, StartKept
  <1> QED
    BY <1>1, <1>2, <1>3, SameHandler DEF DapInv, CallerStep, Caller, ResumeToCome

LEMMA StepPauseRefused == DapInv /\ PauseRefused => DapInv' /\ CallerStep
  <1> SUFFICES ASSUME DapInv, PauseRefused PROVE DapInv' /\ CallerStep
    OBVIOUS
  <1>1. PauseFails /\ UNCHANGED <<sessionVars, launch, setBps, crashed, closed, view, session>>
    BY InterruptsLive DEF PauseRefused, PauseFails
  <1>2. /\ DriverPart' /\ Pipe' = Pipe
        /\ Busy = Busy' \union {<<"hop", interrupting>>}
        /\ <<"hop", interrupting>> \notin Busy'
    BY <1>1, PartPauseFails DEF DapInv
  <1>3. /\ messages # <<>> /\ Following = {} /\ launch # "creating"
        /\ Busy = {<<"hop", interrupting>>}
        /\ Awaits(Head(messages), <<"hop", interrupting>>)
    BY <1>2, InvParts DEF DapInv, MessagePart, Control, Idle, OnDriver, OnWrite, OnCreation
  <1>4. Busy' = {}
    BY <1>2, <1>3
  <1>5. IF interrupting = "pause" THEN Head(messages) = "pause" ELSE Head(messages) = "setBreakpoints"
    BY <1>3 DEF Awaits, StepOps
  <1>6. "error" \in Endings /\ {"pauseEvent", "resolve"} \subseteq Continuations \ {"none"}
    BY DEF Endings, Continuations
  <1>7. PICK then \in {"pauseEvent", "resolve"} :
           Respond(then, "error") /\ CanFollow(Head(messages), then)
    BY <1>5 DEF PauseRefused, CanFollow
  <1>8. <<"wait", "start">> \in Pipe => view # "none"
    BY DEF DapInv, MessagePart, StartOnce
  <1>9. MessagePart'
    BY <1>1, <1>2, <1>3, <1>4, <1>6, <1>7, <1>8, RespondKeeps DEF DapInv
  <1> QED
    BY <1>1, <1>2, <1>9, SameHandler DEF DapInv, CallerStep, Caller, ResumeToCome

LEMMA StepSetBpsNext == DapInv /\ SetBpsNext => DapInv' /\ CallerStep
  <1> SUFFICES ASSUME DapInv, SetBpsNext PROVE DapInv' /\ CallerStep
    OBVIOUS
  <1>1. /\ turn = "setBps"
        /\ UNCHANGED <<replies, dbgThread, interrupting, engineVars, session, sessionVars,
                       launch, crashed, closed, view>>
    BY DEF SetBpsNext
  <1>2. /\ messages # <<>> /\ Busy = {} /\ Following = {} /\ launch # "creating"
        /\ Head(messages) = "setBreakpoints" /\ launch # "ended"
    BY <1>1, InvParts DEF Idle, DapInv, MessagePart, Control, LaunchInv
  <1> DEFINE SetBps == [remove : SUBSET BpIds, create : 0 .. MaxLines,
                        paused : BOOLEAN, failed : BOOLEAN]
  <1>3. HandlerTypeOK /\ setBps \in SetBps
    BY DEF DapInv, HandlerTypeOK
  <1>4. ASSUME setBps' \in SetBps PROVE HandlerTypeOK'
    BY <1>1, <1>3, <1>4 DEF HandlerTypeOK, SessionTypeOK, sessionVars
  <1>5. {"bpRemove", "bpCreate"} \subseteq Calls \ InFlight
    BY <1>2, FreeNames, CommandsAssumption DEF DapCalls, RunCalls, Continues, Resumes
  <1>6. ASSUME NEW b \in setBps.remove, Post("remove", "bpRemove", b), Await,
               setBps' = [setBps EXCEPT !.remove = @ \ {b}]
        PROVE  DapInv' /\ CallerStep
    <2>1. b \in BpIds /\ setBps' \in SetBps /\ setBps'.paused = setBps.paused
      BY <1>3, <1>6
    <2>2. Awaits(Head(messages), <<"remove", "bpRemove">>)
      BY <1>2 DEF Awaits
    <2> QED
      BY <1>1, <1>2, <1>4, <1>5, <1>6, <2>1, <2>2, Requests
  <1>7. ASSUME setBps.create > 0, Post("create", "bpCreate", NoBp), Await,
               setBps' = [setBps EXCEPT !.create = @ - 1]
        PROVE  DapInv' /\ CallerStep
    <2>1. setBps' \in SetBps /\ setBps'.paused = setBps.paused
      BY <1>3, <1>7, RequestsAssumption
    <2>2. Awaits(Head(messages), <<"create", "bpCreate">>) /\ "create" \in CallOps
      BY <1>2 DEF Awaits, CallOps
    <2> QED
      BY <1>1, <1>2, <1>4, <1>5, <1>7, <2>1, <2>2, Requests
  <1>8. ASSUME IF setBps.paused THEN Post("go", Fresh(Resumes), NoBp) ELSE UNCHANGED tasks,
               Respond("resolve", "paused"), setBps' = NoSetBps
        PROVE  DapInv' /\ CallerStep
    <2>1. setBps' \in SetBps /\ setBps'.paused = FALSE
      BY <1>8, RequestsAssumption DEF NoSetBps
    <2>2. "paused" \in Endings /\ "resolve" \in Continuations \ {"none"}
          /\ CanFollow(Head(messages), "resolve")
      BY <1>2 DEF Endings, StopReasons, Continuations, CanFollow
    <2>3. CASE ~setBps.paused
      <3>1. UNCHANGED driverVars
        BY <1>1, <1>8, <2>3 DEF driverVars, engineVars
      <3> QED
        BY <1>1, <1>4, <1>8, <2>1, <2>2, <3>1, AnswersAtOnce
    <2>4. CASE setBps.paused
      <3> DEFINE call == Fresh(Resumes)
      <3>1. call \in Resumes \ InFlight /\ call \in Calls
        BY <1>2, <2>4, FreshResume, CommandsAssumption DEF DapCalls, RunCalls
      <3> HIDE DEF call
      <3>2. Post("go", call, NoBp)
        BY <1>8, <2>4 DEF call
      <3>3. Calling(call)
        BY <1>1, <3>1, <3>2 DEF Calling, NewCall, CallOps, ResumeOps
      <3>4. Pipe \intersect ({"go"} \X Resumes) = {} /\ <<"hop", "bpPause">> \notin Pipe
        <4>1. Pipe \intersect ({"go"} \X Resumes) = {}
          BY <2>4 DEF DapInv, ResumeToCome
        <4>2. <<"hop", "bpPause">> \notin Unawaited
          BY DEF Unawaited
        <4> QED
          BY <1>2, <4>1, <4>2 DEF Busy
      <3>5. DriverPart' /\ Pipe' = Pipe \union {<<"go", call>>} /\ Busy' = {}
        <4>1. "go" \in CallOps /\ <<"go", call>> \in Unawaited /\ DriverPart
          BY <3>1 DEF CallOps, ResumeOps, Unawaited, DapInv
        <4> QED
          BY <1>2, <3>2, <3>3, <3>4, <4>1, PartPosted
      <3>6. <<"wait", "start">> \in Pipe' => <<"wait", "start">> \in Pipe /\ view # "none"
        BY <3>5 DEF DapInv, MessagePart, StartOnce
      <3>7. MessagePart'
        BY <1>1, <1>2, <1>8, <2>2, <3>5, <3>6, RespondKeeps DEF DapInv
      <3> QED
        BY <1>4, <2>1, <3>3, <3>5, <3>7 DEF DapInv, CallerStep, Caller, ResumeToCome
    <2> QED
      BY <2>3, <2>4
  <1> QED
    BY <1>6, <1>7, <1>8 DEF SetBpsNext

-----------------------------------------------------------------------------
(* The replies of the driver. *)

ViewKept == view # "none" => view' # "none"

LEMMA TellKeeps == ASSUME NEW v \in {"running", "stopped", "exited"}, Tell(v), HandlerTypeOK
                   PROVE  view' \in {"running", "stopped", "exited"}
  BY DEF Tell, HandlerTypeOK

LEMMA ViewIs == ASSUME NEW ending PROVE ViewOf(ending) \in {"stopped", "exited"}
  BY DEF ViewOf

(* An answer a handler waited for ends its waiting. *)
LEMMA AnswerTaken ==
    ASSUME DapInv, NEW call \in DapCalls, Deliver(call), <<reply.op, call>> \notin Unawaited,
           ~Resuming, UNCHANGED tasks, DriverAsIs
    PROVE  /\ DriverPart' /\ CallerStep /\ Pipe' = Pipe \ {ReplyKind} /\ Busy' = {}
           /\ messages # <<>> /\ Following = {} /\ launch \notin {"creating", "ended"}
           /\ Awaits(Head(messages), <<reply.op, call>>)
           /\ writes \in Seq(Writes) /\ OneFollows(writes)
           /\ UNCHANGED session
  <1>1. /\ Taking /\ ReplyKind = <<reply.op, call>> /\ Busy = {ReplyKind}
        /\ messages # <<>> /\ Following = {} /\ launch \notin {"creating", "ended"}
        /\ Awaits(Head(messages), ReplyKind)
    BY Delivered
  <1>2. Done
    BY <1>1 DEF Done, DriverAsIs
  <1>3. DriverPart' /\ Pipe' = Pipe \ {ReplyKind} /\ Busy' = {}
    BY <1>1, <1>2, PartTaken DEF DapInv
  <1> QED
    BY <1>1, <1>2, <1>3, InvParts DEF CallerStep, Caller, DriverAsIs

LEMMA ReplyResponds ==
    ASSUME DapInv, NEW call \in DapCalls, Deliver(call), <<reply.op, call>> \notin Unawaited,
           ~Resuming, UNCHANGED <<tasks, launch>>, DriverAsIs,
           NEW then \in Continuations \ {"none", "start"}, NEW ending \in Endings, Respond(then, ending),
           CanFollow(Head(messages), then),
           ViewKept, setBps'.paused => setBps.paused, HandlerTypeOK'
    PROVE  DapInv' /\ CallerStep
  <1>1. /\ DriverPart' /\ CallerStep /\ Pipe' = Pipe \ {ReplyKind} /\ Busy' = {}
        /\ messages # <<>> /\ Following = {} /\ launch \notin {"creating", "ended"}
        /\ UNCHANGED session
    BY AnswerTaken
  <1>2. <<"wait", "start">> \in Pipe' => <<"wait", "start">> \in Pipe /\ view' # "none"
    BY <1>1 DEF DapInv, MessagePart, StartOnce, ViewKept
  <1>3. MessagePart'
    BY <1>1, <1>2, RespondKeeps DEF DapInv
  <1> QED
    BY <1>1, <1>3 DEF DapInv, ResumeToCome

LEMMA ReplyResolves ==
    ASSUME DapInv, NEW call \in DapCalls, Deliver(call), <<reply.op, call>> \notin Unawaited,
           ~Resuming, UNCHANGED <<tasks, launch, writes>>, DriverAsIs, Resolve,
           Head(messages) # "disconnect",
           ViewKept, setBps'.paused => setBps.paused, HandlerTypeOK'
    PROVE  DapInv' /\ CallerStep
  <1>1. /\ DriverPart' /\ CallerStep /\ Pipe' = Pipe \ {ReplyKind} /\ Busy' = {}
        /\ messages # <<>> /\ Following = {} /\ launch \notin {"creating", "ended"}
        /\ writes \in Seq(Writes) /\ OneFollows(writes)
        /\ UNCHANGED session
    BY AnswerTaken
  <1>2. StartKept
    BY <1>1 DEF StartKept, ViewKept
  <1>3. session # "live" => launch = "ended"
    BY Destroyed
  <1>4. MessagePart'
    BY <1>1, <1>2, <1>3, ResolveKeeps DEF DapInv, Following
  <1> QED
    BY <1>1, <1>4 DEF DapInv, ResumeToCome

LEMMA ReplyToSetBps ==
    ASSUME DapInv, NEW call \in DapCalls, Deliver(call), <<reply.op, call>> \notin Unawaited,
           ~Resuming, UNCHANGED <<tasks, launch, messages, writes, clientVars>>, DriverAsIs,
           turn' = "setBps", Head(messages) = "setBreakpoints",
           setBps'.paused => \A c \in Resumes : <<"go", c>> \notin Pipe',
           HandlerTypeOK'
    PROVE  DapInv' /\ CallerStep
  <1>1. /\ DriverPart' /\ CallerStep /\ Pipe' = Pipe \ {ReplyKind} /\ Busy' = {}
        /\ messages # <<>> /\ Following = {} /\ launch \notin {"creating", "ended"}
        /\ UNCHANGED session
    BY AnswerTaken
  <1>2. StartKept /\ UNCHANGED <<answered, dropped, sent>>
    BY <1>1 DEF StartKept, clientVars
  <1>3. MessagePart'
    BY <1>1, <1>2, SetBpsKeeps DEF DapInv
  <1> QED
    BY <1>1, <1>3 DEF DapInv, ResumeToCome

(* An answer a handler waited for makes it ask for something else. *)
LEMMA ReplyRequests ==
    ASSUME DapInv, NEW call \in DapCalls, Deliver(call), <<reply.op, call>> \notin Unawaited,
           ~Resuming, DriverAsIs, Await, UNCHANGED <<launch, setBps, view>>,
           NEW op \in CallOps, NEW next \in DapCalls \ RunCalls, Post(op, next, NoBp),
           Awaits(Head(messages), <<op, next>>), HandlerTypeOK'
    PROVE  DapInv' /\ CallerStep
  <1>1. /\ Taking /\ ReplyKind = <<reply.op, call>> /\ Busy = {ReplyKind}
        /\ messages # <<>> /\ Following = {} /\ launch \notin {"creating", "ended"}
        /\ reply.call = call
    BY Delivered
  <1>2. next \notin InFlight \ {call}
    <2> SUFFICES ASSUME next \in InFlight, next # call PROVE FALSE
      OBVIOUS
    <2>1. PICK o : <<o, next>> \in Pipe
      BY <1>1, NamesInUse
    <2>2. <<o, next>> \notin Unawaited
      BY DEF Unawaited, RunCalls
    <2>3. <<o, next>> = <<reply.op, call>>
      BY <1>1, <2>1, <2>2 DEF Busy
    <2> QED
      BY <2>3
  <1>3. next \in Calls
    BY CommandsAssumption
  <1>4. GoesOn(next)
    BY <1>1, <1>2, <1>3 DEF GoesOn, NewCall, DriverAsIs, reply
  <1>5. <<op, next>> \notin {"go"} \X Resumes /\ <<op, next>> \notin Unawaited
    BY AwaitedKinds
  <1>6. /\ DriverPart'
        /\ Pipe' = (Pipe \ {ReplyKind}) \union {<<op, next>>}
        /\ Busy' = {<<op, next>>}
    <2>1. DriverPart
      BY DEF DapInv
    <2>2. /\ DriverPart'
          /\ Pipe' = (Pipe \ {ReplyKind}) \union {<<op, next>>}
          /\ Busy' = (Busy \ {ReplyKind}) \union ({<<op, next>>} \ Unawaited)
      BY <1>4, <1>5, <2>1, PartGoesOn
    <2> QED
      BY <1>1, <1>5, <2>2
  <1>7. StartKept
    BY <1>5, <1>6 DEF StartKept, Unawaited, RunCalls
  <1>8. UNCHANGED session /\ writes \in Seq(Writes) /\ OneFollows(writes)
    BY InvParts DEF DriverAsIs
  <1>9. MessagePart'
    BY <1>1, <1>6, <1>7, <1>8, AwaitKeeps DEF DapInv, Await, Following
  <1>10. ResumeToCome'
    BY <1>5, <1>6 DEF DapInv, ResumeToCome
  <1> QED
    BY <1>4, <1>6, <1>9, <1>10 DEF DapInv, CallerStep, Caller

LEMMA StepPauseReplied == DapInv /\ PauseReplied => DapInv' /\ CallerStep
  <1> SUFFICES ASSUME DapInv, PauseReplied PROVE DapInv' /\ CallerStep
    OBVIOUS
  <1>1. /\ Deliver("pause") /\ Respond("pauseEvent", "paused") /\ DriverAsIs
        /\ UNCHANGED <<tasks, sessionVars, launch, setBps, crashed, closed, view>>
    BY DEF PauseReplied
  <1>2. "pause" \in DapCalls /\ "pause" \notin RunCalls
    BY DEF DapCalls, RunCalls, Continues, Resumes
  <1>3. <<reply.op, "pause">> \notin Unawaited
    BY <1>2 DEF Unawaited, RunCalls
  <1>4. Awaits(Head(messages), <<reply.op, "pause">>)
    BY <1>1, <1>2, <1>3, Delivered
  <1>5. Head(messages) = "pause" /\ reply.op = "hop"
    BY <1>4 DEF Awaits, Continues
  <1>6. ~Resuming /\ CanFollow(Head(messages), "pauseEvent")
        /\ "pauseEvent" \in Continuations \ {"none", "start"} /\ "paused" \in Endings
    BY <1>5 DEF Resuming, ResumeOps, StepOps, CanFollow, Continuations, Endings, StopReasons, reply
  <1> QED
    BY <1>1, <1>2, <1>3, <1>6, SameHandler, ReplyResponds DEF DapInv, ViewKept

LEMMA StepBpPauseReplied == DapInv /\ BpPauseReplied => DapInv' /\ CallerStep
  <1> SUFFICES ASSUME DapInv, BpPauseReplied PROVE DapInv' /\ CallerStep
    OBVIOUS
  <1>1. /\ Deliver("bpPause") /\ BeginSetBps(TRUE) /\ DriverAsIs /\ turn' = "setBps"
        /\ UNCHANGED <<tasks, sessionVars, messages, writes, launch, crashed, closed, clientVars, view>>
    BY DEF BpPauseReplied, clientVars
  <1>2. "bpPause" \in DapCalls /\ "bpPause" \notin RunCalls
    BY DEF DapCalls, RunCalls, Continues, Resumes
  <1>3. <<reply.op, "bpPause">> \notin Unawaited
    BY <1>2 DEF Unawaited, RunCalls
  <1>4. Taking /\ ReplyKind = <<reply.op, "bpPause">> /\ Awaits(Head(messages), <<reply.op, "bpPause">>)
    BY <1>1, <1>2, <1>3, Delivered
  <1>5. Head(messages) = "setBreakpoints" /\ reply.op = "hop"
    BY <1>4 DEF Awaits, Continues
  <1>6. ~Resuming
    BY <1>5 DEF Resuming, ResumeOps, StepOps, reply
  <1>7. HandlerTypeOK'
    <2>1. HandlerTypeOK
      BY DEF DapInv
    <2> QED
      BY <1>1, <2>1, BeginTypeOK DEF HandlerTypeOK, SessionTypeOK, sessionVars
  <1>8. Pipe' = Pipe \ {ReplyKind}
    BY <1>1, <1>2, <1>3, <1>6, AnswerTaken
  <1>9. (Pipe \ {ReplyKind}) \intersect ({"go"} \X Resumes) = {}
    <2>1. ReplyKind \in {<<"hop", "bpPause">>}
      BY <1>4, <1>5
    <2>2. DriverOnce /\ UNCHANGED <<dbgThread, interrupting>>
          /\ InOrder({"go"} \X Resumes, {<<"hop", "bpPause">>})
      BY <1>1, InvParts DEF DapInv, DriverPart, RunsInOrder, DriverAsIs
    <2> QED
      BY <1>4, <2>1, <2>2, OrderTaken DEF ThreadKind
  <1>10. \A c \in Resumes : <<"go", c>> \notin Pipe'
    BY <1>8, <1>9
  <1> QED
    BY <1>1, <1>2, <1>3, <1>5, <1>6, <1>7, <1>10, ReplyToSetBps

LEMMA StepBpRemoved == DapInv /\ BpRemoved => DapInv' /\ CallerStep
  <1> SUFFICES ASSUME DapInv, BpRemoved PROVE DapInv' /\ CallerStep
    OBVIOUS
  <1>1. /\ Deliver("bpRemove") /\ DriverAsIs /\ turn' = "setBps"
        /\ setBps' = [setBps EXCEPT !.failed = ~Ok]
        /\ active' = IF Ok THEN active \ {reply.bp} ELSE active
        /\ UNCHANGED <<tasks, stopReason, stepType, messages, writes, launch, crashed, closed,
                       clientVars, view>>
    BY DEF BpRemoved, clientVars
  <1>2. "bpRemove" \in DapCalls /\ "bpRemove" \notin RunCalls
    BY DEF DapCalls, RunCalls, Continues, Resumes
  <1>3. <<reply.op, "bpRemove">> \notin Unawaited
    BY <1>2 DEF Unawaited, RunCalls
  <1>4. Awaits(Head(messages), <<reply.op, "bpRemove">>)
    BY <1>1, <1>2, <1>3, Delivered
  <1>5. Head(messages) = "setBreakpoints" /\ reply.op = "remove"
    BY <1>4 DEF Awaits, Continues
  <1>6. ~Resuming
    BY <1>5 DEF Resuming, ResumeOps, StepOps, reply
  <1>7. HandlerTypeOK' /\ setBps'.paused = setBps.paused
    <2>1. HandlerTypeOK
      BY DEF DapInv
    <2> QED
      BY <1>1, <2>1 DEF HandlerTypeOK, SessionTypeOK, Ok
  <1>8. Pipe' = Pipe \ {ReplyKind}
    BY <1>1, <1>2, <1>3, <1>6, AnswerTaken
  <1>9. setBps'.paused => \A c \in Resumes : <<"go", c>> \notin Pipe'
    BY <1>7, <1>8 DEF DapInv, ResumeToCome
  <1> QED
    BY <1>1, <1>2, <1>3, <1>5, <1>6, <1>7, <1>9, ReplyToSetBps

LEMMA StepBpCreated == DapInv /\ BpCreated => DapInv' /\ CallerStep
  <1> SUFFICES ASSUME DapInv, BpCreated PROVE DapInv' /\ CallerStep
    OBVIOUS
  <1>1. /\ Deliver("bpCreate") /\ DriverAsIs /\ turn' = "setBps"
        /\ active' = IF Ok THEN active \union {reply.bp} ELSE active
        /\ UNCHANGED <<tasks, stopReason, stepType, messages, writes, launch, setBps, crashed, closed,
                       clientVars, view>>
    BY DEF BpCreated, clientVars
  <1>2. "bpCreate" \in DapCalls /\ "bpCreate" \notin RunCalls
    BY DEF DapCalls, RunCalls, Continues, Resumes
  <1>3. <<reply.op, "bpCreate">> \notin Unawaited
    BY <1>2 DEF Unawaited, RunCalls
  <1>4. Taking /\ Awaits(Head(messages), <<reply.op, "bpCreate">>)
    BY <1>1, <1>2, <1>3, Delivered
  <1>5. Head(messages) = "setBreakpoints" /\ reply.op = "create"
    BY <1>4 DEF Awaits, Continues
  <1>6. ~Resuming
    BY <1>5 DEF Resuming, ResumeOps, StepOps, reply
  <1>7. HandlerTypeOK'
    <2>1. HandlerTypeOK /\ replies \in Seq(Reply) /\ ReplyInv
      BY InvParts DEF DapInv, DriverTypeOK, DriverPart
    <2>2. 1 \in DOMAIN replies /\ reply = replies[1]
      BY <1>4, <2>1 DEF Taking, reply
    <2>3. Ok => reply.bp \in BpIds
      BY <1>5, <2>1, <2>2 DEF ReplyInv, Ok
    <2> QED
      BY <1>1, <2>1, <2>3 DEF HandlerTypeOK, SessionTypeOK
  <1>8. Pipe' = Pipe \ {ReplyKind}
    BY <1>1, <1>2, <1>3, <1>6, AnswerTaken
  <1>9. setBps'.paused => \A c \in Resumes : <<"go", c>> \notin Pipe'
    BY <1>1, <1>8 DEF DapInv, ResumeToCome
  <1> QED
    BY <1>1, <1>2, <1>3, <1>5, <1>6, <1>7, <1>9, ReplyToSetBps

LEMMA StepPassedOn == DapInv /\ PassedOn => DapInv' /\ CallerStep
  <1> SUFFICES ASSUME DapInv, PassedOn PROVE DapInv' /\ CallerStep
    OBVIOUS
  <1>1. PICK call \in {"inspect", "threads", "stop"}, then \in {"resolve", "close"} :
           /\ Deliver(call) /\ Respond(then, "paused")
           /\ then = IF call = "stop" THEN "close" ELSE "resolve"
    BY DEF PassedOn
  <1>2. DriverAsIs /\ UNCHANGED <<tasks, sessionVars, launch, setBps, crashed, closed, view>>
    BY DEF PassedOn
  <1>3. call \in DapCalls /\ call \notin RunCalls
    BY DEF DapCalls, RunCalls, Continues, Resumes
  <1>4. <<reply.op, call>> \notin Unawaited
    BY <1>3 DEF Unawaited, RunCalls
  <1>5. Awaits(Head(messages), <<reply.op, call>>)
    BY <1>1, <1>3, <1>4, Delivered
  <1>6. /\ reply.op \in {"query", "frame", "end"}
        /\ Head(messages) = IF call = "stop" THEN "disconnect" ELSE call
    BY <1>5 DEF Awaits, Continues
  <1>7. ~Resuming /\ CanFollow(Head(messages), then)
        /\ then \in Continuations \ {"none", "start"} /\ "paused" \in Endings
    BY <1>1, <1>6 DEF Resuming, ResumeOps, StepOps, CanFollow, Continuations, Endings, StopReasons, reply
  <1> QED
    BY <1>1, <1>2, <1>3, <1>4, <1>7, SameHandler, ReplyResponds DEF DapInv, ViewKept

LEMMA StepInspectedFrame == DapInv /\ InspectedFrame => DapInv' /\ CallerStep
  <1> SUFFICES ASSUME DapInv, InspectedFrame PROVE DapInv' /\ CallerStep
    OBVIOUS
  <1>1. /\ Deliver("inspect") /\ reply.op = "frame" /\ Post("query", "inspect", NoBp) /\ Await
        /\ DriverAsIs /\ UNCHANGED <<sessionVars, launch, setBps, crashed, closed, view>>
    BY DEF InspectedFrame
  <1>2. "inspect" \in DapCalls /\ "inspect" \notin RunCalls
    BY DEF DapCalls, RunCalls, Continues, Resumes
  <1>3. <<reply.op, "inspect">> \notin Unawaited
    BY <1>2 DEF Unawaited, RunCalls
  <1>4. Awaits(Head(messages), <<reply.op, "inspect">>)
    BY <1>1, <1>2, <1>3, Delivered
  <1>5. Awaits(Head(messages), <<"query", "inspect">>)
    BY <1>1, <1>4 DEF Awaits, Continues
  <1>6. ~Resuming /\ "query" \in CallOps
    BY <1>1 DEF Resuming, ResumeOps, StepOps, reply, CallOps
  <1> QED
    BY <1>1, <1>2, <1>3, <1>5, <1>6, SameHandler, ReplyRequests DEF DapInv

(* The result of a step. *)
LEMMA StepDoneKeeps ==
    ASSUME DapInv, NEW call \in DapCalls, Deliver(call), <<reply.op, call>> \notin Unawaited,
           ~Resuming, UNCHANGED <<tasks, launch, setBps, view>>, DriverAsIs, HandlerTypeOK',
           Head(messages) \in Stepping, NEW ending \in Endings, StepDone(ending)
    PROVE  DapInv' /\ CallerStep
  <1>1. CASE ending = "error"
    BY <1>1, ReplyResolves DEF StepDone, ViewKept, Stepping
  <1>2. CASE ending # "error"
    <2>1. CanFollow(Head(messages), "stepEvent") /\ "stepEvent" \in Continuations \ {"none", "start"}
      BY DEF CanFollow, Continuations
    <2> QED
      BY <1>2, <2>1, ReplyResponds DEF StepDone, ViewKept
  <1> QED
    BY <1>1, <1>2

LEMMA StepStepFrameReplied == DapInv /\ StepFrameReplied => DapInv' /\ CallerStep
  <1> SUFFICES ASSUME DapInv, StepFrameReplied PROVE DapInv' /\ CallerStep
    OBVIOUS
  <1>1. /\ Deliver("stepFrame") /\ DriverAsIs
        /\ UNCHANGED <<launch, setBps, crashed, closed, view>>
    BY DEF StepFrameReplied
  <1>2. {"stepFrame", "step"} \subseteq DapCalls \ RunCalls
    BY DEF DapCalls, RunCalls, Continues, Resumes
  <1>3. <<reply.op, "stepFrame">> \notin Unawaited
    BY <1>2 DEF Unawaited, RunCalls
  <1>4. Awaits(Head(messages), <<reply.op, "stepFrame">>)
    BY <1>1, <1>2, <1>3, Delivered
  <1>5. reply.op = "frame" /\ Head(messages) \in Stepping
    BY <1>4 DEF Awaits, Continues
  <1>6. ~Resuming /\ HandlerTypeOK
    BY <1>5 DEF Resuming, ResumeOps, StepOps, reply, DapInv
  <1>7. CASE StepFromBase /\ Await
    <2>1. stepType \in StepOps
      BY <1>6 DEF HandlerTypeOK, SessionTypeOK
    <2>2. HandlerTypeOK' /\ stepType \in CallOps /\ Awaits(Head(messages), <<stepType, "step">>)
      BY <1>1, <1>5, <1>6, <1>7, <2>1
         DEF StepFromBase, HandlerTypeOK, SessionTypeOK, CallOps, ResumeOps, Awaits
    <2> QED
      BY <1>1, <1>2, <1>3, <1>6, <1>7, <2>2, ReplyRequests DEF StepFromBase
  <1>8. CASE StepDone("error") /\ UNCHANGED <<tasks, sessionVars>>
    BY <1>1, <1>2, <1>3, <1>5, <1>6, <1>8, SameHandler, StepDoneKeeps DEF Endings
  <1> QED
    BY <1>7, <1>8 DEF StepFrameReplied

LEMMA StepStepTopReplied == DapInv /\ StepTopReplied => DapInv' /\ CallerStep
  <1> SUFFICES ASSUME DapInv, StepTopReplied PROVE DapInv' /\ CallerStep
    OBVIOUS
  <1>1. /\ Deliver("stepTop") /\ DriverAsIs
        /\ UNCHANGED <<launch, setBps, crashed, closed, view>>
    BY DEF StepTopReplied
  <1>2. {"stepTop", "step"} \subseteq DapCalls \ RunCalls
    BY DEF DapCalls, RunCalls, Continues, Resumes
  <1>3. <<reply.op, "stepTop">> \notin Unawaited
    BY <1>2 DEF Unawaited, RunCalls
  <1>4. Awaits(Head(messages), <<reply.op, "stepTop">>)
    BY <1>1, <1>2, <1>3, Delivered
  <1>5. reply.op = "frame" /\ Head(messages) \in Stepping
    BY <1>4 DEF Awaits, Continues
  <1>6. ~Resuming /\ HandlerTypeOK
    BY <1>5 DEF Resuming, ResumeOps, StepOps, reply, DapInv
  <1>7. CASE StepAgain /\ Await
    <2>1. stepType \in StepOps
      BY <1>6 DEF HandlerTypeOK, SessionTypeOK
    <2>2. stepType \in CallOps /\ Awaits(Head(messages), <<stepType, "step">>)
      BY <1>5, <2>1 DEF CallOps, ResumeOps, Awaits
    <2> QED
      BY <1>1, <1>2, <1>3, <1>6, <1>7, <2>2, SameHandler, ReplyRequests DEF StepAgain
  <1>8. ASSUME NEW ending \in {"paused", "error"}, StepDone(ending), UNCHANGED <<tasks, sessionVars>>
        PROVE  DapInv' /\ CallerStep
    BY <1>1, <1>2, <1>3, <1>5, <1>6, <1>8, SameHandler, StepDoneKeeps DEF Endings, StopReasons
  <1> QED
    BY <1>7, <1>8 DEF StepTopReplied

(* The end of a run that a callback was waiting for. *)
LEMMA StoppedTypeOK ==
    ASSUME DapInv, Taking, reply.op = "wait", Stopped(reply)
    PROVE  /\ reply.res \in Endings /\ BreakReason(reply) \in Endings
           /\ stopReason' \in Endings \union {"notSuspended"}
           /\ UNCHANGED <<active, stepType>>
  <1>1. replies \in Seq(Reply) /\ ReplyInv
    BY InvParts DEF DapInv, DriverTypeOK, DriverPart
  <1>2. 1 \in DOMAIN replies /\ reply = replies[1]
    BY <1>1 DEF Taking, reply
  <1>3. reply.res \in Endings
    BY <1>1, <1>2 DEF ReplyInv
  <1>4. BreakReason(reply) \in Endings
    BY <1>3 DEF BreakReason, Endings
  <1>5. stopReason \in Endings \union {"notSuspended"}
    BY DEF DapInv, HandlerTypeOK, SessionTypeOK
  <1> QED
    BY <1>3, <1>4, <1>5 DEF Stopped

LEMMA StepStepReplied == DapInv /\ StepReplied => DapInv' /\ CallerStep
  <1> SUFFICES ASSUME DapInv, StepReplied PROVE DapInv' /\ CallerStep
    OBVIOUS
  <1>1. /\ Deliver("step") /\ DriverAsIs
        /\ UNCHANGED <<launch, setBps, crashed, closed, view>>
    BY DEF StepReplied
  <1>2. {"stepTop", "step"} \subseteq DapCalls \ RunCalls
    BY DEF DapCalls, RunCalls, Continues, Resumes
  <1>3. <<reply.op, "step">> \notin Unawaited
    BY <1>2 DEF Unawaited, RunCalls
  <1>4. /\ Taking /\ ReplyKind = <<reply.op, "step">> /\ Busy = {ReplyKind}
        /\ messages # <<>> /\ Following = {} /\ launch \notin {"creating", "ended"}
        /\ Awaits(Head(messages), <<reply.op, "step">>)
        /\ reply.call = "step"
    BY <1>1, <1>2, <1>3, Delivered
  <1>5. reply.op \in StepOps \union {"wait"} /\ Head(messages) \in Stepping
    BY <1>4 DEF Awaits, Continues
  <1>6. HandlerTypeOK
    BY DEF DapInv
  <1>7. CASE reply.op \in StepOps /\ Ok /\ StepRun /\ Await
    <2>1. Post("wait", Head(replies).call, NoBp) /\ UNCHANGED sessionVars
          /\ Head(replies).call = "step" /\ Head(replies).op \in StepOps
      BY <1>4, <1>7 DEF StepRun, reply
    <2>2. RunsOn
      BY <1>1, <1>4, <1>7, <2>1 DEF RunsOn, Resuming, ResumeOps, DriverAsIs, Ok, reply
    <2>3. "step" \notin Continues \union Resumes /\ <<"wait", "step">> \notin Unawaited
      BY <1>2 DEF RunCalls, Unawaited
    <2>4. /\ DriverPart'
          /\ Pipe' = (Pipe \ {ReplyKind}) \union {<<"wait", "step">>}
          /\ Busy' = (Busy \ {ReplyKind}) \union ({<<"wait", "step">>} \ Unawaited)
      BY <2>1, <2>2, <2>3, PartRunsOn DEF DapInv
    <2>5. Busy' = {<<"wait", "step">>}
      BY <1>4, <2>3, <2>4
    <2>6. StartKept
      BY <1>1, <2>4 DEF StartKept
    <2>7. Awaits(Head(messages), <<"wait", "step">>)
      BY <1>5 DEF Awaits
    <2>8. UNCHANGED session /\ writes \in Seq(Writes) /\ OneFollows(writes)
      BY <1>1, InvParts DEF DriverAsIs
    <2>9. MessagePart'
      BY <1>1, <1>4, <1>7, <2>5, <2>6, <2>7, <2>8, AwaitKeeps DEF DapInv, Await, Following
    <2>10. ResumeToCome'
      BY <1>1, <2>4 DEF DapInv, ResumeToCome
    <2> QED
      BY <1>1, <1>6, <2>1, <2>2, <2>4, <2>9, <2>10, SameHandler DEF DapInv, CallerStep, Caller
  <1>8. CASE reply.op \in StepOps /\ ~Ok /\ StepDone("error") /\ UNCHANGED <<tasks, sessionVars>>
    <2>1. ~Resuming
      BY <1>8 DEF Resuming, Ok, reply
    <2> QED
      BY <1>1, <1>2, <1>3, <1>5, <1>6, <1>8, <2>1, SameHandler, StepDoneKeeps DEF Endings
  <1>9. ASSUME reply.op = "wait" PROVE ~Resuming
    BY <1>9 DEF Resuming, ResumeOps, StepOps, reply
  <1>10. CASE reply.op = "wait" /\ StepPaused /\ Await
    <2>1. Awaits(Head(messages), <<"frame", "stepTop">>) /\ "frame" \in CallOps
      BY <1>5 DEF Awaits, CallOps
    <2> QED
      BY <1>1, <1>2, <1>3, <1>6, <1>9, <1>10, <2>1, SameHandler, ReplyRequests DEF StepPaused
  <1>11. CASE reply.op = "wait" /\ Stopped(reply) /\ StepDone(BreakReason(reply)) /\ UNCHANGED tasks
    <2>1. BreakReason(reply) \in Endings /\ HandlerTypeOK'
      BY <1>1, <1>4, <1>6, <1>11, StoppedTypeOK DEF HandlerTypeOK, SessionTypeOK
    <2> QED
      BY <1>1, <1>2, <1>3, <1>5, <1>9, <1>11, <2>1, StepDoneKeeps
  <1> QED
    BY <1>7, <1>8, <1>10, <1>11 DEF StepReplied

LEMMA StepGoReplied == DapInv /\ GoReplied => DapInv' /\ CallerStep
  <1> SUFFICES ASSUME DapInv, GoReplied PROVE DapInv' /\ CallerStep
    OBVIOUS
  <1>1. PICK call \in {"start"} \union Continues : Deliver(call)
    BY DEF GoReplied
  <1>2. reply.op = "go" /\ DriverAsIs /\ UNCHANGED <<launch, setBps, crashed, closed>>
    BY DEF GoReplied
  <1>3. call \in DapCalls /\ call \notin Resumes /\ <<reply.op, call>> \notin Unawaited
    BY <1>2 DEF DapCalls, RunCalls, Continues, Resumes, Unawaited
  <1>4. /\ Taking /\ ReplyKind = <<"go", call>> /\ Busy = {ReplyKind} /\ reply.call = call
        /\ messages # <<>> /\ Following = {} /\ launch \notin {"creating", "ended"}
        /\ Awaits(Head(messages), <<"go", call>>)
    BY <1>1, <1>2, <1>3, Delivered
  <1>5. Head(messages) = IF call = "start" THEN "configurationDone" ELSE "continue"
    BY <1>1, <1>4 DEF Awaits, StepOps, Continues
  <1>6. HandlerTypeOK
    BY DEF DapInv
  <1>7. {"paused", "error"} \subseteq Endings /\ "resolve" \in Continuations \ {"none", "start"}
        /\ CanFollow(Head(messages), "resolve")
    BY <1>5 DEF Endings, StopReasons, Continuations, CanFollow
  <1>8. CASE Ok /\ Resumed(reply.call) /\ RespondGo /\ Tell("running")
    <2>1. Post("wait", call, NoBp) /\ stopReason' = "notSuspended" /\ UNCHANGED <<active, stepType>>
      BY <1>4, <1>8 DEF Resumed
    <2>2. RunsOn /\ Head(replies).call = call /\ Head(replies).op = "go"
      BY <1>2, <1>4, <1>8, <2>1 DEF RunsOn, Resuming, ResumeOps, DriverAsIs, Ok, reply
    <2>3. (Pipe \ {ReplyKind}) \intersect ({"go"} \X Continues) = {}
      <3>1. \A k \in {"go"} \X Continues : k \notin Unawaited
        BY DEF Unawaited, Continues, Resumes
      <3> QED
        BY <1>4, <3>1 DEF Busy
    <2>4. /\ DriverPart'
          /\ Pipe' = (Pipe \ {ReplyKind}) \union {<<"wait", call>>}
          /\ Busy' = (Busy \ {ReplyKind}) \union ({<<"wait", call>>} \ Unawaited)
      BY <1>3, <2>2, <2>3, PartRunsOn DEF DapInv
    <2>5. Busy' = {}
      BY <1>1, <1>4, <2>4 DEF Unawaited, RunCalls
    <2>6. view' \in {"running", "stopped", "exited"}
      BY <1>6, <1>8, TellKeeps
    <2>7. HandlerTypeOK'
      BY <1>2, <1>6, <2>1, <2>6 DEF HandlerTypeOK, SessionTypeOK
    <2>8. <<"wait", "start">> \in Pipe' => <<"wait", "start">> \in Pipe \/ Head(messages) = "configurationDone"
      BY <1>5, <2>4
    <2>9. UNCHANGED session
      BY <1>2 DEF DriverAsIs
    <2>11. RespondsWith("resolve", "paused")
      BY <1>8 DEF RespondGo, RespondsWith
    <2>10. MessagePart'
      BY <1>2, <1>4, <1>7, <2>5, <2>6, <2>8, <2>9, <2>11, RespondsKeep DEF DapInv
    <2>12. UNCHANGED messages
      BY <2>11 DEF RespondsWith
    <2> QED
      BY <1>2, <2>2, <2>4, <2>7, <2>10, <2>12 DEF DapInv, CallerStep, Caller, ResumeToCome
  <1>9. ASSUME ~Ok, UNCHANGED <<tasks, sessionVars, view>> PROVE ~Resuming /\ HandlerTypeOK' /\ ViewKept
    BY <1>2, <1>6, <1>9, SameHandler DEF Resuming, Ok, reply, ViewKept
  <1>10. CASE ~Ok /\ Respond("resolve", "error") /\ UNCHANGED <<tasks, sessionVars, view>>
    BY <1>1, <1>2, <1>3, <1>7, <1>9, <1>10, ReplyResponds
  <1>11. CASE ~Ok /\ Resolve /\ UNCHANGED <<writes, tasks, sessionVars, view>>
    BY <1>1, <1>2, <1>3, <1>5, <1>9, <1>11, ReplyResolves
  <1> QED
    BY <1>8, <1>10, <1>11 DEF GoReplied

(* The answers nobody waits for leave the handlers as they are. *)
LEMMA ReplyAside ==
    ASSUME DapInv, Done, ReplyKind \in Unawaited \union {ThreadKind},
           UNCHANGED <<messages, turn, answered, dropped, sent, launch, setBps>>,
           writes' = writes \/ writes' = writes \o Write("none", "paused"),
           ViewKept, HandlerTypeOK'
    PROVE  DapInv' /\ CallerStep
  <1>1. DriverPart' /\ Pipe' = Pipe \ {ReplyKind} /\ Busy' = Busy \ {ReplyKind}
    BY PartTaken DEF DapInv
  <1>2. ReplyKind \notin Busy
    <2>1. ReplyKind \notin Pipe \ Unawaited
      BY InvParts, KindsAre DEF Pipe, AllKinds
    <2>2. InInterrupt = {}
      BY DEF Done, Taking, InInterrupt
    <2> QED
      BY <2>1, <2>2 DEF Busy
  <1>3. Busy' = Busy
    BY <1>1, <1>2
  <1>4. writes' \in Seq(Writes) /\ OneFollows(writes') /\ Following' = Following
    <2>1. writes \in Seq(Writes) /\ OneFollows(writes)
          /\ "none" \in Continuations /\ "paused" \in Endings
      BY InvParts DEF Continuations, Endings, StopReasons
    <2>2. CASE writes' = writes
      BY <2>1, <2>2 DEF Following
    <2>3. CASE writes' = writes \o Write("none", "paused")
      <3>1. ASSUME NEW then \in Continuations, NEW ending \in Endings, then = "none",
                   writes' = writes \o Write(then, ending)
            PROVE  /\ writes' \in Seq(Writes)
                   /\ Follow(writes') = Follow(writes) \union ({then} \ {"none"})
                   /\ OneFollows(writes')
        BY <2>1, <3>1, FollowAppend
      <3> QED
        BY <2>1, <2>3, <3>1 DEF Following
    <2> QED
      BY <2>2, <2>3
  <1>5. StartKept /\ UNCHANGED session
    BY <1>1 DEF StartKept, ViewKept, Done
  <1>6. MessagePart'
    BY <1>3, <1>4, <1>5, AsideKeeps DEF DapInv
  <1> QED
    BY <1>1, <1>6 DEF DapInv, CallerStep, Caller, ResumeToCome

LEMMA StepBpResumeReplied == DapInv /\ BpResumeReplied => DapInv' /\ CallerStep
  <1> SUFFICES ASSUME DapInv, BpResumeReplied PROVE DapInv' /\ CallerStep
    OBVIOUS
  <1>1. PICK call \in Resumes : Deliver(call)
    BY DEF BpResumeReplied
  <1>2. reply.op = "go" /\ DriverAsIs
        /\ UNCHANGED <<messages, turn, writes, launch, setBps, closed, clientVars>>
    BY DEF BpResumeReplied
  <1>3. call \in DapCalls /\ call \notin Continues /\ call \in RunCalls
    BY DEF DapCalls, RunCalls, Continues, Resumes
  <1>4. Taking /\ ReplyKind = <<"go", call>> /\ reply.call = call
    BY <1>1, <1>2, <1>3, Delivered
  <1>5. HandlerTypeOK /\ UNCHANGED <<view, answered, dropped, sent>>
    BY <1>2 DEF DapInv, clientVars
  <1>6. CASE Ok /\ Resumed(reply.call) /\ UNCHANGED crashed
    <2>1. Post("wait", call, NoBp) /\ stopReason' = "notSuspended" /\ UNCHANGED <<active, stepType>>
      BY <1>4, <1>6 DEF Resumed
    <2>2. RunsOn /\ Head(replies).call = call /\ Head(replies).op = "go"
      BY <1>2, <1>4, <1>6, <2>1 DEF RunsOn, Resuming, ResumeOps, DriverAsIs, Ok, reply
    <2>3. /\ DriverPart'
          /\ Pipe' = (Pipe \ {ReplyKind}) \union {<<"wait", call>>}
          /\ Busy' = (Busy \ {ReplyKind}) \union ({<<"wait", call>>} \ Unawaited)
      BY <1>3, <2>2, PartRunsOn DEF DapInv
    <2>4. Busy' = Busy
      <3>1. ReplyKind \in Unawaited /\ <<"wait", call>> \in Unawaited
        BY <1>3, <1>4 DEF Unawaited
      <3>2. ReplyKind \notin Busy
        BY <1>4, <3>1 DEF Busy
      <3> QED
        BY <2>3, <3>1, <3>2
    <2>5. HandlerTypeOK'
      BY <1>2, <1>5, <1>6, <2>1 DEF HandlerTypeOK, SessionTypeOK
    <2>6. StartKept /\ UNCHANGED session
      <3>1. call # "start"
        BY DEF Resumes
      <3> QED
        BY <1>2, <1>5, <2>3, <3>1 DEF StartKept, DriverAsIs
    <2>7. MessagePart'
      BY <1>2, <1>5, <2>4, <2>6, SameMessages, AsideKeeps DEF DapInv
    <2> QED
      BY <1>2, <2>2, <2>3, <2>5, <2>7 DEF DapInv, CallerStep, Caller, ResumeToCome
  <1>7. CASE ~Ok /\ crashed' = TRUE /\ UNCHANGED <<tasks, sessionVars>>
    <2>1. Done
      BY <1>2, <1>4, <1>7 DEF Done, Resuming, DriverAsIs, Ok, reply
    <2>2. HandlerTypeOK'
      BY <1>2, <1>5, <1>7 DEF HandlerTypeOK, SessionTypeOK, sessionVars
    <2>3. ReplyKind \in Unawaited
      BY <1>4 DEF Unawaited
    <2> QED
      BY <1>2, <1>5, <2>1, <2>2, <2>3, ReplyAside DEF ViewKept
  <1> QED
    BY <1>6, <1>7 DEF BpResumeReplied

LEMMA StepRunEnded == DapInv /\ RunEnded => DapInv' /\ CallerStep
  <1> SUFFICES ASSUME DapInv, RunEnded PROVE DapInv' /\ CallerStep
    OBVIOUS
  <1>1. PICK call \in RunCalls : Deliver(call)
    BY DEF RunEnded
  <1>2. /\ reply.op = "wait" /\ DriverAsIs /\ Stopped(reply)
        /\ UNCHANGED <<tasks, messages, turn, launch, setBps, closed, answered, dropped, sent>>
    BY DEF RunEnded
  <1>3. call \in DapCalls
    BY DEF DapCalls
  <1>4. Taking /\ ReplyKind = <<"wait", call>>
    BY <1>1, <1>2, <1>3, Delivered
  <1>5. Done /\ ReplyKind \in Unawaited
    BY <1>2, <1>4 DEF Done, Resuming, ResumeOps, StepOps, DriverAsIs, reply, Unawaited
  <1>6. HandlerTypeOK
    BY DEF DapInv
  <1>7. stopReason' \in Endings \union {"notSuspended"} /\ UNCHANGED <<active, stepType>>
    BY <1>2, <1>4, StoppedTypeOK
  <1>8. ASSUME crashed' \in BOOLEAN, view' \in {"none", "running", "stopped", "exited"}
        PROVE  HandlerTypeOK'
    BY <1>2, <1>6, <1>7, <1>8 DEF HandlerTypeOK, SessionTypeOK
  <1>9. CASE crashed' = TRUE /\ UNCHANGED <<writes, view>>
    <2>1. HandlerTypeOK'
      BY <1>6, <1>8, <1>9 DEF HandlerTypeOK
    <2> QED
      BY <1>2, <1>5, <1>9, <2>1, ReplyAside DEF ViewKept
  <1>10. CASE /\ writes' = writes \o Write("none", "paused")
              /\ Tell(ViewOf(reply.res))
              /\ UNCHANGED crashed
    <2>1. view' \in {"running", "stopped", "exited"}
      BY <1>6, <1>10, ViewIs, TellKeeps
    <2>2. HandlerTypeOK'
      BY <1>6, <1>8, <1>10, <2>1 DEF HandlerTypeOK
    <2> QED
      BY <1>2, <1>5, <1>10, <2>1, <2>2, ReplyAside DEF ViewKept
  <1> QED
    BY <1>9, <1>10 DEF RunEnded

LEMMA StepThreadNotified == DapInv /\ ThreadNotified => DapInv' /\ CallerStep
  <1> SUFFICES ASSUME DapInv, ThreadNotified PROVE DapInv' /\ CallerStep
    OBVIOUS
  <1>1. /\ Deliver(NoCall) /\ DriverAsIs /\ writes' = writes \o Write("none", "paused")
        /\ UNCHANGED <<tasks, sessionVars, messages, turn, launch, setBps, crashed, closed, clientVars>>
    BY DEF ThreadNotified
  <1>2. Taking /\ reply \in Reply /\ reply.call = NoCall
    BY <1>1, InvParts DEF Deliver, Loop, Taking, reply, DriverTypeOK
  <1>3. reply.op = "thread"
    BY <1>2, CallsAssumption DEF Reply
  <1>4. Done /\ ReplyKind = ThreadKind
    BY <1>1, <1>2, <1>3
       DEF Done, Resuming, ResumeOps, StepOps, DriverAsIs, reply, ReplyKind, KindOf, ThreadKind
  <1>5. UNCHANGED <<view, answered, dropped, sent>>
    BY <1>1 DEF clientVars
  <1> QED
    BY <1>1, <1>4, <1>5, SameHandler, ReplyAside DEF DapInv, ViewKept

-----------------------------------------------------------------------------
(* The completion of a write. *)

(* The first write is done, and the head of the messages waited for it if  *)
(* something follows it.                                                   *)
LEMMA Completed ==
    ASSUME DapInv, NEW then \in Continuations, WriteDone(then)
    PROVE  /\ turn = "loop" /\ interrupting = NoCall
           /\ writes \in Seq(Writes) /\ Ending \in Endings
           /\ Tail(writes) \in Seq(Writes) /\ OneFollows(Tail(writes))
           /\ then = "none" => Follow(Tail(writes)) = Following
           /\ then # "none" =>
                 /\ Following = {then} /\ Follow(Tail(writes)) = {}
                 /\ Busy = {} /\ messages # <<>> /\ launch # "creating"
                 /\ CanFollow(Head(messages), then)
  <1>1. turn = "loop" /\ interrupting = NoCall /\ writes # <<>> /\ Head(writes).then = then
    BY DEF WriteDone, Loop
  <1>2. /\ writes \in Seq(Writes) /\ OneFollows(writes)
        /\ Tail(writes) \in Seq(Writes)
        /\ Head(writes) \in Writes
        /\ Head(writes).then = "none" => Follow(Tail(writes)) = Follow(writes)
        /\ OneFollows(Tail(writes))
        /\ Head(writes).then # "none" =>
              Follow(writes) = {Head(writes).then} /\ Follow(Tail(writes)) = {}
    BY <1>1, InvParts, FollowTail
  <1>3. Ending \in Endings
    BY <1>2 DEF Ending, Writes
  <1>4. ASSUME then # "none"
        PROVE  /\ Busy = {} /\ messages # <<>> /\ launch # "creating"
               /\ CanFollow(Head(messages), then)
    <2>1. Following = {then}
      BY <1>1, <1>2, <1>4 DEF Following
    <2> QED
      BY <1>1, <2>1 DEF DapInv, MessagePart, Control, Idle, OnDriver, OnWrite, OnCreation
  <1> QED
    BY <1>1, <1>2, <1>3, <1>4 DEF Following

LEMMA StepNothingFollows == DapInv /\ NothingFollows => DapInv' /\ CallerStep
  <1> SUFFICES ASSUME DapInv, NothingFollows PROVE DapInv' /\ CallerStep
    OBVIOUS
  <1>1. /\ WriteDone("none") /\ writes' = Tail(writes)
        /\ UNCHANGED <<driverVars, sessionVars, messages, turn, launch, setBps, crashed, closed,
                       view, answered, dropped, sent>>
    BY DEF NothingFollows, clientVars
  <1>2. writes' \in Seq(Writes) /\ OneFollows(writes') /\ Following' = Following
    BY <1>1, Completed DEF Continuations, Following
  <1>3. DriverPart' /\ Pipe' = Pipe /\ Busy' = Busy /\ UNCHANGED session
    BY <1>1, PartUnchanged DEF DapInv, driverVars
  <1>4. MessagePart'
    BY <1>1, <1>2, <1>3, AsideKeeps DEF DapInv, StartKept
  <1> QED
    BY <1>1, <1>3, <1>4, SameHandler DEF DapInv, CallerStep, ResumeToCome

(* The handler is done when its last write is. *)
LEMMA LastWrite ==
    ASSUME DapInv, NEW then \in Continuations \ {"none"}, WriteDone(then), writes' = Tail(writes),
           Resolve, launch' = launch \/ launch' = "ended",
           Head(messages) = "disconnect" => launch' = "ended",
           UNCHANGED <<driverVars, setBps, view>>, HandlerTypeOK'
    PROVE  DapInv' /\ CallerStep
  <1>1. /\ writes' \in Seq(Writes) /\ OneFollows(writes') /\ Follow(writes') = {}
        /\ Busy = {} /\ messages # <<>> /\ launch # "creating"
    BY Completed
  <1>2. DriverPart' /\ Pipe' = Pipe /\ Busy' = {} /\ UNCHANGED session
    BY <1>1, PartUnchanged DEF DapInv, driverVars
  <1>3. session' # "live" => launch' = "ended"
    BY <1>2, Destroyed
  <1>4. MessagePart'
    BY <1>1, <1>2, <1>3, ResolveKeeps DEF DapInv, StartKept, Following
  <1> QED
    BY <1>2, <1>4 DEF DapInv, CallerStep, ResumeToCome

LEMMA StepResolveFollows == DapInv /\ ResolveFollows => DapInv' /\ CallerStep
  <1> SUFFICES ASSUME DapInv, ResolveFollows PROVE DapInv' /\ CallerStep
    OBVIOUS
  <1>1. /\ WriteDone("resolve") /\ writes' = Tail(writes) /\ Resolve
        /\ UNCHANGED <<driverVars, sessionVars, launch, setBps, crashed, closed, view>>
    BY DEF ResolveFollows
  <1>2. "resolve" \in Continuations \ {"none"}
    BY DEF Continuations
  <1>3. Head(messages) # "disconnect"
    BY <1>1, <1>2, Completed DEF CanFollow
  <1> QED
    BY <1>1, <1>2, <1>3, SameHandler, LastWrite DEF DapInv

LEMMA StepCloseFollows == DapInv /\ CloseFollows => DapInv' /\ CallerStep
  <1> SUFFICES ASSUME DapInv, CloseFollows PROVE DapInv' /\ CallerStep
    OBVIOUS
  <1>1. /\ WriteDone("close") /\ writes' = Tail(writes) /\ Resolve
        /\ launch' = "ended" /\ closed' = TRUE
        /\ UNCHANGED <<driverVars, sessionVars, setBps, crashed, view>>
    BY DEF CloseFollows
  <1>2. "close" \in Continuations \ {"none"}
    BY DEF Continuations
  <1>3. HandlerTypeOK'
    BY <1>1 DEF DapInv, HandlerTypeOK, SessionTypeOK, sessionVars
  <1> QED
    BY <1>1, <1>2, <1>3, LastWrite

LEMMA StepEventFollows == DapInv /\ EventFollows => DapInv' /\ CallerStep
  <1> SUFFICES ASSUME DapInv, EventFollows PROVE DapInv' /\ CallerStep
    OBVIOUS
  <1>1. PICK then \in {"initialized", "pauseEvent", "stepEvent"} : WriteDone(then)
    BY DEF EventFollows
  <1>2. /\ writes' = Tail(writes) \o Write("resolve", "paused")
        /\ UNCHANGED <<driverVars, sessionVars, messages, turn, launch, setBps, crashed, closed,
                       answered, dropped, sent>>
    BY DEF EventFollows
  <1>3. then \in Continuations \ {"none"}
    BY DEF Continuations
  <1>4. /\ turn = "loop"
        /\ Tail(writes) \in Seq(Writes) /\ OneFollows(Tail(writes))
        /\ Following = {then} /\ Follow(Tail(writes)) = {}
        /\ Busy = {} /\ messages # <<>> /\ launch # "creating"
        /\ CanFollow(Head(messages), then)
    BY <1>1, <1>3, Completed
  <1>5. CanFollow(Head(messages), "resolve")
    BY <1>1, <1>4 DEF CanFollow, Stepping
  <1>6. writes' \in Seq(Writes) /\ OneFollows(writes') /\ Following' = {"resolve"}
    <2>1. "resolve" \in Continuations /\ "paused" \in Endings /\ {"resolve"} \ {"none"} = {"resolve"}
      BY DEF Continuations, Endings, StopReasons
    <2>2. ASSUME NEW next \in Continuations, NEW ending \in Endings,
                 writes' = Tail(writes) \o Write(next, ending)
          PROVE  /\ writes' \in Seq(Writes)
                 /\ Follow(writes') = Follow(Tail(writes)) \union ({next} \ {"none"})
                 /\ OneFollows(writes')
      BY <1>4, <2>2, FollowAppend
    <2> QED
      BY <1>2, <1>4, <2>1, <2>2 DEF Following
  <1>7. DriverPart' /\ Pipe' = Pipe /\ Busy' = {} /\ UNCHANGED session
    BY <1>2, <1>4, PartUnchanged DEF DapInv, driverVars
  <1>8. ViewKept /\ view' \in {"none", "running", "stopped", "exited"}
    <2>1. HandlerTypeOK
      BY DEF DapInv
    <2>2. CASE UNCHANGED view
      BY <2>1, <2>2 DEF HandlerTypeOK, ViewKept
    <2>3. ASSUME NEW v \in {"running", "stopped", "exited"}, Tell(v)
          PROVE  view' \in {"running", "stopped", "exited"}
      BY <2>1, <2>3, TellKeeps
    <2> QED
      BY <2>2, <2>3, ViewIs DEF EventFollows, ViewKept
  <1>9. HandlerTypeOK'
    BY <1>2, <1>8 DEF DapInv, HandlerTypeOK, SessionTypeOK, sessionVars
  <1>10. MessagesTypeOK'
    BY <1>2, <1>6 DEF DapInv, MessagePart, MessagesTypeOK, Writes
  <1>11. Control'
    BY <1>2, <1>4, <1>5, <1>6, <1>7 DEF Control, OnWrite
  <1>12. StartOnce'
    BY <1>2, <1>4, <1>6, <1>7, <1>8 DEF DapInv, MessagePart, StartOnce, ViewKept
  <1>13. LaunchInv'
    BY <1>2, <1>4, <1>7 DEF DapInv, MessagePart, LaunchInv
  <1> QED
    BY <1>2, <1>7, <1>9, <1>10, <1>11, <1>12, <1>13 DEF DapInv, MessagePart, CallerStep, ResumeToCome

LEMMA StepStartFollows == DapInv /\ StartFollows => DapInv' /\ CallerStep
  <1> SUFFICES ASSUME DapInv, StartFollows PROVE DapInv' /\ CallerStep
    OBVIOUS
  <1>1. /\ WriteDone("start") /\ writes' = Tail(writes)
        /\ UNCHANGED <<replies, dbgThread, interrupting, engineVars, session, sessionVars,
                       launch, setBps, crashed, closed, view>>
    BY DEF StartFollows
  <1>2. "start" \in Continuations \ {"none"}
    BY DEF Continuations
  <1>3. /\ turn = "loop"
        /\ writes' \in Seq(Writes) /\ OneFollows(writes')
        /\ Following = {"start"} /\ Following' = {}
        /\ Busy = {} /\ messages # <<>> /\ launch # "creating"
        /\ Head(messages) = "configurationDone"
    BY <1>1, <1>2, Completed DEF CanFollow, Following
  <1>4. HandlerTypeOK'
    BY <1>1, SameHandler DEF DapInv
  <1>5. CASE /\ HasSession /\ Post("go", "start", NoBp)
             /\ UNCHANGED <<messages, turn, answered, dropped, sent>>
    <2>1. "start" \in RunCalls /\ "start" \notin Resumes /\ "start" \in Calls
      BY CommandsAssumption DEF DapCalls, RunCalls, Resumes
    <2>2. <<"wait", "start">> \notin Pipe
      BY <1>3 DEF DapInv, MessagePart, StartOnce
    <2>3. "start" \notin InFlight
      BY <1>3, <2>1, <2>2, FreeNames
    <2>4. "go" \in CallOps /\ <<"go", "start">> \notin {"go"} \X Resumes /\ <<"go", "start">> \notin Unawaited
      BY <2>1 DEF CallOps, ResumeOps, Unawaited
    <2>5. Calling("start")
      BY <1>1, <1>5, <2>1, <2>3, <2>4 DEF Calling, NewCall
    <2>6. /\ DriverPart'
          /\ Pipe' = Pipe \union {<<"go", "start">>}
          /\ Busy' = {<<"go", "start">>}
      <3>1. DriverPart
        BY DEF DapInv
      <3>2. /\ DriverPart'
            /\ Pipe' = Pipe \union {<<"go", "start">>}
            /\ Busy' = Busy \union ({<<"go", "start">>} \ Unawaited)
        BY <1>5, <2>4, <2>5, <3>1, PartPosted
      <3> QED
        BY <1>3, <2>4, <3>2
    <2>7. Awaits(Head(messages), <<"go", "start">>)
      BY <1>3 DEF Awaits
    <2>8. MessagePart'
      BY <1>1, <1>3, <1>5, <2>6, <2>7, AwaitKeeps DEF DapInv, HasSession, StartKept
    <2>9. ResumeToCome'
      BY <1>1, <2>1, <2>6 DEF DapInv, ResumeToCome
    <2> QED
      BY <1>4, <2>5, <2>6, <2>8, <2>9 DEF DapInv, CallerStep, Caller
  <1>6. CASE Resolve /\ UNCHANGED tasks
    <2>1. UNCHANGED driverVars
      BY <1>1, <1>6 DEF driverVars, engineVars
    <2> QED
      BY <1>1, <1>2, <1>3, <1>4, <1>6, <2>1, LastWrite
  <1> QED
    BY <1>5, <1>6 DEF StartFollows

-----------------------------------------------------------------------------
(* The steps of the driver.  It is asked for nothing of its session after  *)
(* the session's end but the run that is then over, and it is ended only   *)
(* by a disconnect.                                                        *)
LEMMA NothingCreated ==
    ASSUME DapInv, session # "live" PROVE \A k \in Pipe : k[1] # "create"
  <1> SUFFICES ASSUME NEW k \in Pipe, k[1] = "create" PROVE FALSE
    OBVIOUS
  <1>1. k \in Busy
    BY DEF Busy, Unawaited
  <1>2. launch = "ended" \/ (messages # <<>> /\ Head(messages) = "disconnect")
    BY DEF DapInv, MessagePart, LaunchInv
  <1>3. launch # "ended"
    BY <1>1 DEF DapInv, MessagePart, LaunchInv
  <1>4. Awaits("disconnect", k)
    BY <1>1, <1>2, <1>3 DEF DapInv, MessagePart, Control, Idle, OnDriver, OnWrite, OnCreation
  <1> QED
    BY <1>4 DEF Awaits, StepOps

LEMMA Ended ==
    ASSUME DapInv, EndTask PROVE messages # <<>> /\ Head(messages) = "disconnect"
  <1>1. tasks # <<>> /\ Head(tasks).op = "end" /\ tasks \in Seq(Task)
    BY InvParts DEF EndTask, TakeLive, Take, DriverTypeOK
  <1>2. KindOf(Head(tasks)) \in Kinds(tasks) /\ KindOf(Head(tasks))[1] = "end"
    BY <1>1, TailKinds DEF KindOf
  <1>3. PICK k : k \in Busy /\ k[1] = "end"
    BY <1>2 DEF Busy, Unawaited, Pipe, AllKinds
  <1>4. messages # <<>> /\ Awaits(Head(messages), k)
    BY <1>3 DEF DapInv, MessagePart, Control, Idle, OnDriver, OnWrite, OnCreation
  <1> QED
    BY <1>3, <1>4 DEF Awaits, StepOps

LEMMA SessionEnds ==
    ASSUME DapInv, DebugThread, session = "live"
    PROVE  session' = session \/ (messages # <<>> /\ Head(messages) = "disconnect")
  <1>1. EndTask \/ session' = session
    BY DEF DebugThread, RunTask, GoTask, StepTask, StepOutTask, HopTask, CreateTask,
           RemoveTask, QueryTask, FrameTask, WaitTask, DanglingTask, TargetEvent, HitBreakpoint,
           HitException, StepComplete, ProcessExits, UnknownEvent, ThreadEvent, WaitStep,
           ThreadEventContinue, WaitForNothing, WaitInterrupted, BreakIn, BreakInInterrupted, engineVars
  <1> QED
    BY <1>1, Ended

LEMMA StepDriver == DapInv /\ Driver => DapInv' /\ DebugThread
  <1> SUFFICES ASSUME DapInv, Driver PROVE DapInv' /\ DebugThread
    OBVIOUS
  <1>1. DebugThread /\ UNCHANGED <<sessionVars, messages, turn, writes, launch, setBps, crashed, closed,
                                   view, answered, dropped, sent>>
    BY DEF Driver, dapVars, clientVars
  <1>2. DriverPart' /\ Pipe' = Pipe /\ Busy' = Busy
    BY <1>1, NothingCreated, PartDebugThread DEF DapInv
  <1>3. MessagesTypeOK' /\ Control' /\ StartOnce'
    BY <1>1, <1>2 DEF DapInv, MessagePart, MessagesTypeOK, Control, StartOnce,
                      Idle, OnDriver, OnWrite, OnCreation, Following
  <1>4. LaunchInv'
    BY <1>1, <1>2, SessionEnds DEF DapInv, MessagePart, LaunchInv
  <1> QED
    BY <1>1, <1>2, <1>3, <1>4, SameHandler DEF DapInv, MessagePart, ResumeToCome

LEMMA StepNothing == DapInv /\ UNCHANGED vars => DapInv'
  <1> SUFFICES ASSUME DapInv, UNCHANGED vars PROVE DapInv'
    OBVIOUS
  <1>1. UNCHANGED <<driverVars, session, sessionVars, messages, turn, writes, launch, setBps, crashed,
                    closed, view, answered, dropped, sent>>
    BY DEF vars, driverVars, dapVars, clientVars
  <1>2. DriverPart' /\ Pipe' = Pipe /\ Busy' = Busy
    BY <1>1, PartUnchanged DEF DapInv
  <1>3. MessagePart'
    BY <1>1, <1>2, SameMessages, AsideKeeps DEF DapInv, StartKept
  <1> QED
    BY <1>1, <1>2, <1>3, SameHandler DEF DapInv, ResumeToCome

-----------------------------------------------------------------------------
(* The two beginnings. *)

LEMMA Beginning ==
    ASSUME DriverInv, DapInit, tasks = <<>>, replies = <<>>, interrupting = NoCall, session = "live",
           Pipe \subseteq {<<"wait", "start">>}, <<"wait", "start">> \in Pipe => view # "none",
           launch \in {"none", "created"}, view \in {"none", "running"}
    PROVE  DapInv
  <1>1. \A op : \A c \in Continues \union Resumes : <<op, c>> \notin Pipe
    BY DEF Continues, Resumes
  <1>2. \A E, L : InOrder(E, L)
    <2>1. Kinds(tasks) = {} /\ Kinds(replies) = {}
      BY DEF Kinds
    <2> QED
      BY <2>1 DEF InOrder, Ordered, Before
  <1>3. DriverPart
    BY <1>1, <1>2 DEF DriverPart, RunsInOrder, OneOf, ReplyInv
  <1>4. Busy = {}
    BY DEF Busy, Unawaited, RunCalls, InInterrupt
  <1>5. Following = {} /\ OneFollows(writes)
    BY DEF DapInit, Following, Follow, OneFollows
  <1>6. messages = <<>> /\ writes = <<>> /\ turn = "loop" /\ setBps = NoSetBps
    BY DEF DapInit
  <1>7. MessagesTypeOK
    <2>1. 0 \in 0 .. MaxRequests /\ <<>> \in Seq(Commands)
          /\ <<>> \in Seq([then : Continuations, ending : Endings])
      BY RequestsAssumption
    <2> QED
      BY <2>1 DEF DapInit, MessagesTypeOK
  <1>8. Control
    BY <1>4, <1>5, <1>6 DEF Control, Idle
  <1>9. StartOnce /\ LaunchInv
    BY <1>4, <1>5, <1>6 DEF StartOnce, LaunchInv
  <1>10. HandlerTypeOK
    <2>1. NoSetBps \in [remove : SUBSET BpIds, create : 0 .. MaxLines,
                        paused : BOOLEAN, failed : BOOLEAN]
      BY RequestsAssumption DEF NoSetBps
    <2> QED
      BY <2>1 DEF DapInit, SessionInit, HandlerTypeOK, SessionTypeOK, StepOps
  <1>11. ResumeToCome
    BY <1>6 DEF ResumeToCome, NoSetBps
  <1> QED
    BY <1>3, <1>7, <1>8, <1>9, <1>10, <1>11 DEF DapInv, MessagePart

LEMMA Connected == Init => DapInv
  <1> SUFFICES ASSUME Init PROVE DapInv
    OBVIOUS
  <1>1. DriverInv /\ DapInit /\ launch = "none" /\ view = "none"
    BY DriverBegins DEF Init
  <1>2. /\ tasks = <<>> /\ replies = <<>> /\ interrupting = NoCall /\ session = "live"
        /\ dbgThread.at = "idle"
    BY DEF Init, DriverInit
  <1>3. Pipe = {}
    BY <1>2 DEF Pipe, AllKinds, Kinds, DebugKinds
  <1> QED
    BY <1>1, <1>2, <1>3, Beginning

LEMMA TargetRuns == InitRunning => DapInv
  <1> SUFFICES ASSUME InitRunning PROVE DapInv
    OBVIOUS
  <1>1. /\ DapInit /\ launch = "created" /\ view = "running"
        /\ tasks = <<>> /\ replies = <<>> /\ interrupting = NoCall /\ session = "live"
        /\ dbgThread = [at |-> "wait", call |-> "start"]
        /\ status = "go"
    BY DEF InitRunning
  <1>2. "start" \in Calls /\ "start" # NoCall
    BY CommandsAssumption, CallsAssumption DEF DapCalls, RunCalls
  <1>3. DriverTypeOK
    <2>1. tasks \in Seq(Task) /\ replies \in Seq(Reply)
      BY <1>1
    <2>2. dbgThread \in [at : {"idle", "wait", "breaking", "threadEvent", "dead"},
                        call : Calls \union {NoCall}]
          /\ ((dbgThread.at = "idle") <=> (dbgThread.call = NoCall))
      BY <1>1, <1>2
    <2> QED
      BY <1>1, <2>1, <2>2 DEF InitRunning, DriverTypeOK
  <1>4. OneRun /\ RunMeansRunning
    BY <1>1 DEF OneRun, RunMeansRunning, RunInFlight, ReplyInFlight, TaskInFlight, Running
  <1>5. Apart /\ OnceInTasks /\ OnceInReplies
    BY <1>1 DEF Apart, OnceInTasks, OnceInReplies, InTasks, CallOf, InReplies, InDebug, InInterrupt
  <1>6. Pipe = {<<"wait", "start">>}
    BY <1>1 DEF Pipe, AllKinds, Kinds, DebugKinds
  <1>7. DriverInv
    BY <1>3, <1>4, <1>5 DEF DriverInv, DriverRuns
  <1> QED
    BY <1>1, <1>6, <1>7, Beginning

-----------------------------------------------------------------------------
(* Every step keeps the invariant, and what the callback thread does to    *)
(* the driver is what a caller may do.                                     *)
LEMMA StepCallbackThread == DapInv /\ CallbackThread => DapInv' /\ CallerStep
  <1> SUFFICES ASSUME DapInv, CallbackThread PROVE DapInv' /\ CallerStep
    OBVIOUS
  <1>1. CASE Receive \/ Launched
    BY <1>1, StepReceive, StepLaunched
  <1>2. CASE Handle
    BY <1>2, StepUnknown, StepAnswerAtOnce, StepWithoutSession, StepOnContinue, StepOnInspect,
       StepOnDisconnect, StepOnThreads, StepOnStep, StepOnLaunch, StepOnPause, StepPauseAtOnce,
       StepPauseIssued, StepPauseRefused, StepSetBpsNext DEF Handle
  <1>3. CASE HandleReply
    BY <1>3, StepGoReplied, StepBpResumeReplied, StepRunEnded, StepThreadNotified,
       StepStepFrameReplied, StepStepReplied, StepStepTopReplied, StepPauseReplied,
       StepBpPauseReplied, StepBpRemoved, StepBpCreated, StepInspectedFrame, StepPassedOn
       DEF HandleReply
  <1>4. CASE HandleWrite
    BY <1>4, StepNothingFollows, StepResolveFollows, StepEventFollows, StepStartFollows,
       StepCloseFollows DEF HandleWrite
  <1> QED
    BY <1>1, <1>2, <1>3, <1>4 DEF CallbackThread

LEMMA StepDap == DapInv /\ [Next]_vars => DapInv'
  BY StepCallbackThread, StepDriver, StepNothing DEF Next

(* The adapter keeps DapInv from the connection of a client, and from a    *)
(* target that runs.                                                       *)
THEOREM AdapterCorrect == (Spec => []DapInv) /\ (SpecRunning => []DapInv)
  <1>1. (Init => DapInv) /\ (InitRunning => DapInv)
    BY Connected, TargetRuns
  <1>2. DapInv /\ [Next]_vars => DapInv'
    BY StepDap
  <1>3. Spec => []DapInv
    BY <1>1, <1>2, PTL DEF Spec
  <1>4. SpecRunning => []DapInv
    BY <1>1, <1>2, PTL DEF SpecRunning
  <1> QED
    BY <1>3, <1>4

(* The module's type invariant: the message queue, the writes, the handler *)
(* and the caches of the session always have the shapes the code gives     *)
(* them, with what the driver answers and whatever the client asks         *)
(* (TypeOK of DapSession).                                                 *)
THEOREM AdapterTypeCorrect == (Spec => []TypeOK) /\ (SpecRunning => []TypeOK)
  <1>1. DapInv => TypeOK
    BY InvParts DEF DapInv, MessagePart, MessagesTypeOK, HandlerTypeOK, TypeOK
  <1>2. Spec => []TypeOK
    BY <1>1, AdapterCorrect, PTL
  <1>3. SpecRunning => []TypeOK
    BY <1>1, AdapterCorrect, PTL
  <1> QED
    BY <1>2, <1>3

(* The adapter never has two runs of the target under way (OneRun), and    *)
(* does not leave the engine at a break while one is (RunMeansRunning): no *)
(* request, answer or event of DapSession.hx makes it run the target twice.*)
THEOREM AdapterRuns == (Spec => [](OneRun /\ RunMeansRunning))
                       /\ (SpecRunning => [](OneRun /\ RunMeansRunning))
  <1>1. DapInv => OneRun /\ RunMeansRunning
    BY InvParts DEF DriverInv, DriverRuns
  <1>2. Spec => [](OneRun /\ RunMeansRunning)
    BY <1>1, AdapterCorrect, PTL
  <1>3. SpecRunning => [](OneRun /\ RunMeansRunning)
    BY <1>1, AdapterCorrect, PTL
  <1> QED
    BY <1>2, <1>3

-----------------------------------------------------------------------------
(* The refinement of DriverClient: the calls in flight are its outstanding *)
(* ones.                                                                   *)

(* Unless it sets or is refused an interrupt, the callback thread is free. *)
LEMMA FreeToCall ==
    ASSUME DapInv, CallbackThread
    PROVE  interrupting = NoCall \/ PauseEnd \/ PauseFails
  <1>1. Busy = {} => interrupting = NoCall
    BY DEF Busy, InInterrupt
  <1>2. Loop \/ turn = "setBps" \/ (\E command : Consume(command)) \/ PauseIssued \/ PauseRefused
    <2>1. CASE Receive \/ Launched
      BY <2>1 DEF Receive, Launched
    <2>2. CASE Handle
      BY <2>2 DEF Handle, Unknown, AnswerAtOnce, WithoutSession, OnContinue, OnInspect, OnDisconnect,
                  Request, OnThreads, OnStep, OnLaunch, OnPause, PauseAtOnce, SetBpsNext
    <2>3. CASE HandleReply
      BY <2>3 DEF HandleReply, GoReplied, BpResumeReplied, RunEnded, ThreadNotified, StepFrameReplied,
                  StepReplied, StepTopReplied, PauseReplied, BpPauseReplied, BpRemoved, BpCreated,
                  InspectedFrame, PassedOn, Deliver
    <2>4. CASE HandleWrite
      BY <2>4 DEF HandleWrite, NothingFollows, ResolveFollows, EventFollows, StartFollows,
                  CloseFollows, WriteDone
    <2> QED
      BY <2>1, <2>2, <2>3, <2>4 DEF CallbackThread
  <1> QED
    BY <1>1, <1>2, InvParts DEF Loop, Consume, Idle, PauseIssued, PauseRefused

LEMMA CallerRefines ==
    ASSUME DapInv, CallerStep, interrupting = NoCall \/ PauseEnd \/ PauseFails
    PROVE  Client!CallbackThread \/ UNCHANGED Client!vars
  <1> USE DEF Client!Free, Client!Call, Client!Post, Client!engineVars,
              Post, engineVars, NewCall, CallOps, ResumeOps, StepOps, Client!ResumeOps, Client!StepOps,
              UseSession, SessionGone, Client!UseSession, Client!SessionGone
  <1>1. DriverOnce
    BY InvParts
  <1>2. ASSUME NEW call, Calling(call) PROVE Client!MakeCall
    <2>1. InFlight' = InFlight \union {call} /\ interrupting = NoCall
      BY <1>1, <1>2, OnceCaller DEF Calling, PauseEnd, PauseFails
    <2> QED
      BY <1>2, <2>1 DEF Calling, Client!MakeCall
  <1>3. ASSUME NEW call, Listing(call) PROVE Client!ListThreads
    <2>1. InFlight' = InFlight \union {call} /\ interrupting = NoCall
      BY <1>1, <1>3, OnceCaller DEF Listing, GetThreads, PauseEnd, PauseFails
    <2> QED
      BY <1>3, <2>1 DEF Listing, GetThreads, Answer,
                        Client!ListThreads, Client!GetThreads, Client!Answer
  <1>4. ASSUME NEW call, Pausing(call) PROVE Client!Pause
    <2>1. InFlight' = InFlight \union {call} /\ interrupting = NoCall
      BY <1>1, <1>4, OnceCaller DEF Pausing
    <2> QED
      BY <1>4, <2>1 DEF Pausing, PauseBegin, Client!Pause, Client!PauseBegin
  <1>5. CASE PauseEnd
    <2>1. InFlight' = InFlight
      BY <1>1, <1>5, OnceCaller
    <2> QED
      BY <1>5, <2>1 DEF PauseEnd, Client!PauseIssued, Client!PauseEnd, Client!CallbackThread
  <1>6. CASE PauseFails
    <2>1. InFlight' = InFlight \ {interrupting}
      BY <1>1, <1>6, OnceCaller
    <2> QED
      BY <1>6, <2>1 DEF PauseFails, Client!PauseRefused, Client!PauseFails, Client!CallbackThread
  <1>7. CASE RunsOn
    <2>1. InFlight' = InFlight
      BY <1>1, <1>7, OnceCaller
    <2> QED
      BY <1>7, <2>1 DEF RunsOn, Taking, Resuming, Client!Deliver, Client!CallbackThread
  <1>8. CASE Done
    <2>1. InFlight' = InFlight \ {Head(replies).call}
      BY <1>1, <1>8, OnceCaller
    <2> QED
      BY <1>8, <2>1 DEF Done, Taking, Resuming, Client!Deliver, Client!CallbackThread
  <1>9. ASSUME NEW call, GoesOn(call) PROVE Client!Deliver
    <2>1. InFlight' = (InFlight \ {Head(replies).call}) \union {call}
      BY <1>1, <1>9, OnceCaller
    <2>2. call \in Calls \ (InFlight \ {Head(replies).call})
      BY <1>9 DEF GoesOn
    <2>3. Client!Call(InFlight \ {Head(replies).call})
      BY <1>9, <2>1, <2>2 DEF GoesOn
    <2> QED
      BY <1>9, <2>3 DEF GoesOn, Taking, Resuming, Client!Deliver
  <1>10. CASE UNCHANGED driverVars
    <2>1. InFlight' = InFlight
      BY <1>10, InvParts, DriverUnchanged
    <2> QED
      BY <1>10, <2>1 DEF driverVars, Client!vars, Client!driverVars
  <1>11. CASE PauseStopped
    <2>1. InFlight' = InFlight
      BY <1>1, <1>11, OnceCaller
    <2>2. interrupting = NoCall
      BY <1>11 DEF PauseStopped, PauseEnd, PauseFails
    <2> QED
      BY <1>11, <2>1, <2>2 DEF PauseStopped, Client!PauseAnswered, Client!PauseStopped, Client!CallbackThread
  <1> QED
    BY <1>2, <1>3, <1>4, <1>5, <1>6, <1>7, <1>8, <1>9, <1>10, <1>11
       DEF CallerStep, Caller, Client!CallbackThread

LEMMA RunTaskRefines == RunTask => Client!RunTask
  <1> USE DEF TakeLive, Take, AnswerTask, Answer, engineVars,
              Client!TakeLive, Client!Take, Client!AnswerTask, Client!Answer, Client!engineVars
  <1>1. GoTask => Client!GoTask
    BY DEF GoTask, Client!GoTask
  <1>2. StepTask => Client!StepTask
    BY DEF StepTask, Client!StepTask
  <1>3. StepOutTask => Client!StepOutTask
    BY DEF StepOutTask, Client!StepOutTask
  <1>4. HopTask => Client!HopTask
    BY DEF HopTask, Client!HopTask
  <1>5. EndTask => Client!EndTask
    BY DEF EndTask, Client!EndTask
  <1>6. CreateTask => Client!CreateTask
    BY DEF CreateTask, Client!CreateTask
  <1>7. RemoveTask => Client!RemoveTask
    BY DEF RemoveTask, Client!RemoveTask
  <1>8. QueryTask => Client!QueryTask
    BY DEF QueryTask, Client!QueryTask
  <1>9. FrameTask => Client!FrameTask
    BY DEF FrameTask, Client!FrameTask
  <1>10. WaitTask => Client!WaitTask
    BY DEF WaitTask, Client!WaitTask
  <1>11. DanglingTask => Client!DanglingTask
    BY DEF DanglingTask, Client!DanglingTask, TaskOps, ResumeOps, StepOps,
           Client!TaskOps, Client!ResumeOps, Client!StepOps
  <1> QED
    BY <1>1, <1>2, <1>3, <1>4, <1>5, <1>6, <1>7, <1>8, <1>9, <1>10, <1>11
       DEF RunTask, Client!RunTask

LEMMA WaitRefines == TargetEvent \/ WaitStep => Client!TargetEvent \/ Client!WaitStep
  <1> USE DEF Waiting, BreakForEvent, EndRun, Answer,
              Client!Waiting, Client!BreakForEvent, Client!EndRun, Client!Answer
  <1>1. HitBreakpoint => Client!HitBreakpoint
    BY DEF HitBreakpoint, Client!HitBreakpoint
  <1>2. HitException => Client!HitException
    BY DEF HitException, Client!HitException
  <1>3. StepComplete => Client!StepComplete
    BY DEF StepComplete, Client!StepComplete
  <1>4. ProcessExits => Client!ProcessExits
    BY DEF ProcessExits, Client!ProcessExits
  <1>5. UnknownEvent => Client!UnknownEvent
    BY DEF UnknownEvent, Client!UnknownEvent
  <1>6. ThreadEvent => Client!ThreadEvent
    BY DEF ThreadEvent, Client!ThreadEvent
  <1>7. ThreadEventContinue => Client!ThreadEventContinue
    BY DEF ThreadEventContinue, Client!ThreadEventContinue
  <1>8. WaitForNothing => Client!WaitForNothing
    BY DEF WaitForNothing, Client!WaitForNothing
  <1>9. WaitInterrupted => Client!WaitInterrupted
    BY DEF WaitInterrupted, Client!WaitInterrupted
  <1>10. BreakIn => Client!BreakIn
    BY DEF BreakIn, Client!BreakIn
  <1>11. BreakInInterrupted => Client!BreakInInterrupted
    BY DEF BreakInInterrupted, Client!BreakInInterrupted
  <1> QED
    BY <1>1, <1>2, <1>3, <1>4, <1>5, <1>6, <1>7, <1>8, <1>9, <1>10, <1>11
       DEF TargetEvent, WaitStep, Client!TargetEvent, Client!WaitStep

(* The adapter is one of the clients DriverClient allows                   *)
(* (ImplementsDriverClient), whatever the client of the adapter asks: it   *)
(* runs the target exactly when a go or a step has succeeded and makes no  *)
(* call under a name in use, so what is proved of every client, Driver     *)
(* included, holds of it.                                                  *)
THEOREM AdapterIsClient == Spec => ImplementsDriverClient
  <1>1. Init => Client!Init
    <2> SUFFICES ASSUME Init PROVE Client!Init
      OBVIOUS
    <2>1. DriverInit /\ InFlight = {}
      BY DriverBegins DEF Init
    <2> QED
      BY <2>1 DEF DriverInit, Client!Init, Client!DriverInit
  <1>2. DapInv /\ [Next]_vars => [Client!Next]_(Client!vars)
    <2> SUFFICES ASSUME DapInv, [Next]_vars PROVE Client!Next \/ UNCHANGED Client!vars
      OBVIOUS
    <2>1. CASE CallbackThread
      BY <2>1, StepCallbackThread, FreeToCall, CallerRefines DEF Client!Next
    <2>2. CASE Driver
      <3>1. DebugThread /\ InFlight' = InFlight
        BY <2>2, InvParts, DebugThreadKeeps DEF Driver
      <3> QED
        BY <3>1, RunTaskRefines, WaitRefines DEF DebugThread, Client!Next, Client!DebugThread
    <2>3. CASE UNCHANGED vars
      <3>1. UNCHANGED driverVars
        BY <2>3 DEF vars
      <3>2. InFlight' = InFlight
        BY <3>1, InvParts, DriverUnchanged
      <3> QED
        BY <3>1, <3>2 DEF driverVars, Client!vars, Client!driverVars
    <2> QED
      BY <2>1, <2>2, <2>3 DEF Next
  <1> QED
    BY <1>1, <1>2, AdapterCorrect, PTL DEF Spec, ImplementsDriverClient, Client!Spec
=============================================================================
