-------------------------- MODULE DapPropertiesProofs --------------------------
(***************************************************************************)
(* What the debug adapter promises its client, proved for every number of  *)
(* requests, writes, lines, calls and breakpoints: requests are answered,  *)
(* the cache is clear while the target runs, the breakpoints that are      *)
(* reported are known, and what the client is told of the target is true.  *)
(*                                                                         *)
(* They rest on the invariant of DapSessionProofs, by which the head of    *)
(* the messages waits for one thing at a time.                             *)
(***************************************************************************)
EXTENDS DapSessionProofs

USE DEF InWait

StartCall == <<"go", "start">>

(* A pause finds the session, as the requests of the adapter do. *)
LEMMA PausesLive ==
    ASSUME DapInv, OnPause \/ PauseAtOnce \/ PauseIssued \/ PauseRefused
    PROVE  /\ session = "live" /\ UNCHANGED session
           /\ PauseAtOnce => UNCHANGED driverVars /\ status = "break"
           /\ PauseRefused => EngineFails
  <1>1. UseSession
    BY DEF OnPause, PauseAtOnce, PauseIssued, PauseRefused, PauseBegin, PauseStopped, PauseEnd, PauseFails
  <1>2. ASSUME session = "live"  PROVE session = "live" /\ UNCHANGED session
    BY <1>1, <1>2 DEF UseSession, SessionGone
  <1>3. session = "live"
    <2>1. CASE interrupting # NoCall
      BY <1>1, <2>1, InterruptsLive
    <2>2. CASE OnPause \/ PauseAtOnce
      <3>1. turn # "loop" /\ HasSession /\ Head(messages) \in {"pause", "setBreakpoints"}
        BY <2>2 DEF OnPause, PauseAtOnce, Consume
      <3> QED
        BY <1>1, <3>1, InvParts, InterruptsLive DEF HasSession
    <2> QED
      BY <2>1, <2>2 DEF PauseIssued, PauseRefused, PauseEnd, PauseFails
  <1>4. session = "live" /\ UNCHANGED session
    BY <1>2, <1>3
  <1>5. PauseAtOnce => UNCHANGED driverVars /\ status = "break"
    BY <1>4 DEF PauseAtOnce, PauseStopped, SessionGone, engineVars, driverVars
  <1>6. PauseRefused => EngineFails
    BY <1>4 DEF PauseRefused, PauseFails, SessionGone
  <1> QED
    BY <1>4, <1>5, <1>6

-----------------------------------------------------------------------------
(* Requests are answered. *)

(* Whoever waits for the completion of a write, or for the start of the    *)
(* target, has answered: answers come before what follows them.            *)
AnsweredInv == Following # {} \/ StartCall \in Pipe => answered

(* The requests the code itself finishes without an answer: one it does    *)
(* not know, and a step that fails.                                        *)
NeverAnswered == {"unknown"} \union Stepping
Unanswered    == {"launch"} \union NeverAnswered

(* A launch that is finished and not answered has made its session, and    *)
(* none is handled that could make a second one.                           *)
LaunchDropped == "launch" \in dropped => launch \in {"created", "ended"}
LaunchFirst   == turn = "consume" /\ Head(messages) = "launch" => launch = "none"

AnswersInv == AnsweredInv /\ dropped \subseteq Unanswered /\ LaunchDropped /\ LaunchFirst

(* The start is awaited by configurationDone, and by nobody else. *)
StartWaits ==
    /\ messages # <<>> /\ turn = "loop" /\ Following = {} /\ launch # "creating"
    /\ Head(messages) = "configurationDone"

LEMMA StartAwaited == DapInv /\ StartCall \in Pipe => StartWaits
  <1> SUFFICES ASSUME DapInv, StartCall \in Pipe PROVE StartWaits
    OBVIOUS
  <1>1. StartCall \in Busy
    BY DEF Busy, Unawaited, StartCall, Resumes
  <1>2. /\ messages # <<>> /\ turn = "loop" /\ Following = {} /\ launch # "creating"
        /\ Awaits(Head(messages), StartCall)
    BY <1>1 DEF DapInv, MessagePart, Control, Idle, OnDriver, OnWrite, OnCreation
  <1>3. "start" \notin {"stepFrame", "stepTop", "step", "inspect"} \union Continues /\ "go" \notin {"hop", "remove", "create", "query", "end"}
    BY DEF Continues
  <1> QED
    BY <1>2, <1>3 DEF Awaits, StartCall, StartWaits

LEMMA ResolveAnswers ==
    ASSUME DapInv, DapInv', AnswersInv, Resolve, messages # <<>>,
           \/ answered
           \/ Head(messages) = "launch" /\ launch' = "created"
           \/ Head(messages) \in NeverAnswered,
           launch' \in {launch, "created", "ended"}
    PROVE  AnswersInv'
  <1>1. messages \in Seq(Commands) /\ messages' = Tail(messages)
        /\ turn' = (IF Len(messages) > 1 THEN "consume" ELSE "loop")
    BY InvParts DEF Resolve
  <1>2. messages' = <<>> \/ turn' = "consume"
    BY <1>1
  <1>3. Idle'
    BY <1>2 DEF DapInv, MessagePart, Control
  <1>4. Following' = {} /\ StartCall \notin Pipe'
    BY <1>3 DEF Idle, Busy, Unawaited, StartCall, Resumes
  <1>5. dropped' \subseteq Unanswered
    BY DEF Resolve, AnswersInv, Unanswered
  <1>6. LaunchDropped'
    BY DEF Resolve, AnswersInv, LaunchDropped, NeverAnswered, Stepping
  <1>7. LaunchFirst'
    <2>1. CASE Len(messages) > 1
      <3>1. 2 \in DOMAIN messages /\ Head(messages') = messages[2]
        BY <1>1, <2>1
      <3>2. messages[2] # "launch"
        BY <3>1 DEF DapInv, MessagePart, LaunchInv
      <3> QED
        BY <3>1, <3>2 DEF LaunchFirst
    <2> QED
      BY <1>1, <2>1 DEF LaunchFirst
  <1> QED
    BY <1>4, <1>5, <1>6, <1>7 DEF AnswersInv, AnsweredInv

(* The launch is as it was, or has not been finished yet. *)
LaunchStays == launch' = launch \/ "launch" \notin dropped

LEMMA RespondsAnswers ==
    ASSUME AnswersInv, NEW then, NEW ending, RespondsWith(then, ending), LaunchStays
    PROVE  AnswersInv'
  BY DEF AnswersInv, AnsweredInv, RespondsWith, LaunchDropped, LaunchFirst, LaunchStays

LEMMA RespondAnswers ==
    ASSUME AnswersInv, NEW then, NEW ending, Respond(then, ending), LaunchStays
    PROVE  AnswersInv'
  BY RespondsAnswers DEF Respond, RespondsWith

(* A handler other than that of configurationDone goes on waiting. *)
LEMMA WaitAnswers ==
    ASSUME DapInv', AnswersInv, UNCHANGED <<messages, writes, answered, dropped>>,
           turn' # "consume", LaunchStays, Head(messages) # "configurationDone"
    PROVE  AnswersInv'
  <1>1. (DapInv /\ StartCall \in Pipe => StartWaits)'
    BY StartAwaited, PTL
  <1>2. StartCall \notin Pipe'
    BY <1>1 DEF StartWaits, StartCall
  <1> QED
    BY <1>2 DEF AnswersInv, AnsweredInv, Following, LaunchDropped, LaunchFirst, LaunchStays

(* What is neither a start nor a write that is followed by something. *)
LEMMA AsideAnswers ==
    ASSUME AnswersInv, UNCHANGED <<messages, turn, launch, answered, dropped>>,
           StartCall \in Pipe' => StartCall \in Pipe, Following' = Following
    PROVE  AnswersInv'
  BY DEF AnswersInv, AnsweredInv, LaunchDropped, LaunchFirst

LEMMA AnswersHandle == DapInv /\ DapInv' /\ AnswersInv /\ Handle => AnswersInv'
  <1> SUFFICES ASSUME DapInv, DapInv', AnswersInv, Handle PROVE AnswersInv'
    OBVIOUS
  <1>1. turn # "loop" => messages # <<>>
    BY InvParts
  <1>2. CASE Unknown
    BY <1>1, <1>2, ResolveAnswers DEF Unknown, Consume, NeverAnswered
  <1>3. CASE AnswerAtOnce
    BY <1>3, RespondAnswers DEF AnswerAtOnce, LaunchStays
  <1>4. CASE WithoutSession
    BY <1>1, <1>4, ResolveAnswers, RespondAnswers DEF WithoutSession, Consume, NeverAnswered, Stepping, LaunchStays
  <1>5. ASSUME NEW command, NEW op, NEW call, Request(command, op, call), command # "configurationDone"
        PROVE  AnswersInv'
    BY <1>5, WaitAnswers DEF Request, Consume, Await, LaunchStays
  <1>6. CASE OnContinue
    BY <1>5, <1>6 DEF OnContinue
  <1>7. CASE OnInspect
    BY <1>5, <1>7, RespondAnswers DEF OnInspect, LaunchStays
  <1>8. CASE OnDisconnect
    BY <1>5, <1>8 DEF OnDisconnect
  <1>9. CASE OnThreads
    BY <1>9, WaitAnswers DEF OnThreads, Consume, Await, LaunchStays
  <1>10. CASE OnStep
    BY <1>10, WaitAnswers DEF OnStep, Consume, Await, LaunchStays
  <1>11. CASE OnLaunch
    <2>1. "launch" \notin dropped
      BY <1>11 DEF OnLaunch, Consume, AnswersInv, LaunchDropped, LaunchFirst
    <2> QED
      BY <1>11, <2>1, WaitAnswers DEF OnLaunch, Consume, Await, LaunchStays
  <1>12. CASE OnPause
    BY <1>12, WaitAnswers DEF OnPause, Consume, Await, LaunchStays
  <1>13. CASE PauseAtOnce
    <2>1. CASE \E then, ending : Respond(then, ending)
      BY <1>13, <2>1, RespondAnswers DEF PauseAtOnce, LaunchStays
    <2>2. CASE /\ Consume("setBreakpoints") /\ turn' = "setBps"
               /\ UNCHANGED <<messages, writes, answered, dropped, sent>>
      BY <1>13, <2>2, WaitAnswers DEF Consume, PauseAtOnce, LaunchStays
    <2> QED
      BY <1>13, <2>1, <2>2 DEF PauseAtOnce
  <1>14. CASE PauseIssued
    <2>1. Pipe' = Pipe \union {<<"hop", interrupting>>}
      BY <1>14, InvParts, PipePosted DEF PauseIssued, PauseEnd
    <2>2. UNCHANGED <<messages, turn, launch, writes, answered, dropped>>
      BY <1>14 DEF PauseIssued, dapVars, clientVars
    <2> QED
      BY <2>1, <2>2, AsideAnswers DEF StartCall, Following
  <1>15. CASE PauseRefused
    BY <1>15, RespondAnswers DEF PauseRefused, LaunchStays
  <1>16. CASE SetBpsNext
    <2>1. Head(messages) = "setBreakpoints"
      BY <1>16 DEF SetBpsNext, DapInv, MessagePart, Control
    <2>2. CASE Await
      BY <1>16, <2>1, <2>2, WaitAnswers DEF Await, SetBpsNext, LaunchStays
    <2>3. CASE Respond("resolve", "paused")
      BY <1>16, <2>3, RespondAnswers DEF SetBpsNext, LaunchStays
    <2> QED
      BY <1>16, <2>2, <2>3 DEF SetBpsNext
  <1> QED
    BY <1>2, <1>3, <1>4, <1>6, <1>7, <1>8, <1>9, <1>10, <1>11, <1>12, <1>13, <1>14, <1>15, <1>16
       DEF Handle

(* A reply some handler waits for finds that handler at the head. *)
LEMMA ReplyTo ==
    ASSUME DapInv, NEW call \in DapCalls \ RunCalls, Deliver(call)
    PROVE  messages # <<>> /\ Awaits(Head(messages), <<reply.op, call>>)
  <1>1. <<reply.op, call>> \notin Unawaited
    BY DEF Unawaited, RunCalls
  <1> QED
    BY <1>1, Delivered

LEMMA AnswersReply == DapInv /\ DapInv' /\ AnswersInv /\ HandleReply => AnswersInv'
  <1> SUFFICES ASSUME DapInv, DapInv', AnswersInv, HandleReply PROVE AnswersInv'
    OBVIOUS
  <1> DEFINE Handlers == {"stepFrame", "step", "stepTop", "pause", "bpPause", "bpRemove", "bpCreate",
                          "inspect", "threads", "stop"}
  <1>1. \A call \in Handlers : call \in DapCalls \ RunCalls /\ call \notin Continues
    BY DEF DapCalls, RunCalls, Continues, Resumes
  <1>2. ASSUME NEW call \in Handlers, Deliver(call)
        PROVE  /\ messages # <<>> /\ Head(messages) # "configurationDone"
               /\ call \in {"stepFrame", "step", "stepTop"} => Head(messages) \in Stepping
    <2>1. messages # <<>> /\ Awaits(Head(messages), <<reply.op, call>>)
      BY <1>1, <1>2, ReplyTo
    <2> QED
      BY <1>1, <2>1 DEF Awaits, Stepping
  <1>3. ASSUME NEW call \in Handlers, Deliver(call), UNCHANGED <<messages, writes, answered, dropped, launch>>,
               turn' # "consume"
        PROVE  AnswersInv'
    BY <1>2, <1>3, WaitAnswers DEF LaunchStays
  <1>4. ASSUME NEW call \in {"stepFrame", "step", "stepTop"}, Deliver(call),
               NEW ending, StepDone(ending), UNCHANGED launch
        PROVE  AnswersInv'
    <2>1. messages # <<>> /\ Head(messages) \in NeverAnswered
      BY <1>2, <1>4 DEF NeverAnswered
    <2> QED
      BY <1>4, <2>1, ResolveAnswers, RespondAnswers DEF StepDone, LaunchStays
  <1> HIDE DEF Handlers
  <1>5. CASE GoReplied
    <2>0. UNCHANGED launch
      BY <1>5 DEF GoReplied
    <2>1. CASE \E then, ending : Respond(then, ending)
      BY <2>0, <2>1, RespondAnswers DEF LaunchStays
    <2>3. CASE RespondGo
      <3>1. RespondsWith("resolve", "paused")
        BY <2>3 DEF RespondGo, RespondsWith
      <3> QED
        BY <2>0, <3>1, RespondsAnswers DEF LaunchStays
    <2>2. CASE reply.call \notin Continues /\ Resolve
      <3>1. PICK call \in {"start"} \union Continues : Deliver(call) /\ reply.op = "go"
        BY <1>5 DEF GoReplied
      <3>2. call \in DapCalls
        BY DEF DapCalls, RunCalls
      <3>3. ReplyKind \in Pipe /\ ReplyKind = <<"go", call>> /\ reply.call = call
        BY <3>1, <3>2, Delivered
      <3>4. StartCall \in Pipe
        BY <2>2, <3>3 DEF StartCall
      <3>5. messages # <<>> /\ answered
        BY <3>4, StartAwaited DEF StartWaits, AnswersInv, AnsweredInv
      <3> QED
        BY <2>0, <2>2, <3>5, ResolveAnswers
    <2> QED
      BY <1>5, <2>1, <2>2, <2>3 DEF GoReplied
  <1>6. CASE BpResumeReplied \/ RunEnded \/ ThreadNotified
    <2>1. UNCHANGED <<messages, turn, launch, answered, dropped>>
      BY <1>6 DEF BpResumeReplied, RunEnded, ThreadNotified, clientVars
    <2>2. Following' = Following
      <3>1. writes \in Seq(Writes) /\ "none" \in Continuations /\ "paused" \in Endings
        BY InvParts DEF Continuations, Endings, StopReasons
      <3>2. writes' = writes \/ writes' = writes \o Write("none", "paused")
        BY <1>6 DEF BpResumeReplied, RunEnded, ThreadNotified
      <3> QED
        BY <3>1, <3>2, FollowAppend DEF Following
    <2>3. StartCall \in Pipe' => StartCall \in Pipe
      <3>1. Taking /\ UNCHANGED <<dbgThread, interrupting>>
        BY <1>6 DEF BpResumeReplied, RunEnded, ThreadNotified, Deliver, Loop, Taking, DriverAsIs
      <3>2. UNCHANGED tasks \/ \E call : Post("wait", call, NoBp)
        BY <1>6 DEF BpResumeReplied, RunEnded, ThreadNotified, Resumed
      <3> QED
        BY <3>1, <3>2, InvParts, PipeTaken DEF StartCall
    <2> QED
      BY <2>1, <2>2, <2>3, AsideAnswers
  <1>7. CASE StepFrameReplied
    BY <1>3, <1>4, <1>7 DEF StepFrameReplied, Await, Handlers
  <1>8. CASE StepReplied
    BY <1>3, <1>4, <1>8 DEF StepReplied, Await, Handlers
  <1>9. CASE StepTopReplied
    BY <1>3, <1>4, <1>9 DEF StepTopReplied, Await, Handlers
  <1>10. CASE PauseReplied
    BY <1>10, RespondAnswers DEF PauseReplied, LaunchStays
  <1>11. CASE BpPauseReplied
    BY <1>3, <1>11 DEF BpPauseReplied, clientVars, Handlers
  <1>12. CASE BpRemoved
    BY <1>3, <1>12 DEF BpRemoved, clientVars, Handlers
  <1>13. CASE BpCreated
    BY <1>3, <1>13 DEF BpCreated, clientVars, Handlers
  <1>14. CASE InspectedFrame
    BY <1>3, <1>14 DEF InspectedFrame, Await, Handlers
  <1>15. CASE PassedOn
    BY <1>15, RespondAnswers DEF PassedOn, LaunchStays
  <1> QED
    BY <1>5, <1>6, <1>7, <1>8, <1>9, <1>10, <1>11, <1>12, <1>13, <1>14, <1>15 DEF HandleReply
LEMMA AnswersWrite == DapInv /\ DapInv' /\ AnswersInv /\ HandleWrite => AnswersInv'
  <1> SUFFICES ASSUME DapInv, DapInv', AnswersInv, HandleWrite PROVE AnswersInv'
    OBVIOUS
  <1>1. ASSUME NEW then \in Continuations \ {"none"}, WriteDone(then)
        PROVE  messages # <<>> /\ answered
    BY <1>1, Completed DEF AnswersInv, AnsweredInv
  <1>2. {"none", "resolve", "initialized", "start", "pauseEvent", "stepEvent", "close"} \subseteq Continuations
    BY DEF Continuations
  <1>3. CASE NothingFollows
    <2>1. Following' = Following
      BY <1>2, <1>3, Completed DEF NothingFollows, Following
    <2>2. UNCHANGED <<messages, turn, launch, answered, dropped>> /\ Pipe' = Pipe
      BY <1>3, PartUnchanged DEF NothingFollows, clientVars, DapInv
    <2> QED
      BY <2>1, <2>2, AsideAnswers
  <1>4. CASE ResolveFollows
    BY <1>1, <1>2, <1>4, ResolveAnswers DEF ResolveFollows
  <1>5. CASE EventFollows
    <2>1. answered /\ UNCHANGED <<messages, turn, launch, answered, dropped>>
      BY <1>1, <1>2, <1>5 DEF EventFollows
    <2> QED
      BY <2>1 DEF AnswersInv, AnsweredInv, LaunchDropped, LaunchFirst
  <1>6. CASE StartFollows
    <2>1. messages # <<>> /\ answered /\ UNCHANGED launch
      BY <1>1, <1>2, <1>6 DEF StartFollows
    <2>2. CASE UNCHANGED <<messages, turn, answered, dropped, sent>>
      BY <2>1, <2>2 DEF AnswersInv, AnsweredInv, LaunchDropped, LaunchFirst
    <2>3. CASE Resolve
      BY <2>1, <2>3, ResolveAnswers
    <2> QED
      BY <1>6, <2>2, <2>3 DEF StartFollows
  <1>7. CASE CloseFollows
    BY <1>1, <1>2, <1>7, ResolveAnswers DEF CloseFollows
  <1> QED
    BY <1>3, <1>4, <1>5, <1>6, <1>7 DEF HandleWrite

LEMMA AnswersStep == DapInv /\ AnswersInv /\ [Next]_vars => AnswersInv'
  <1> SUFFICES ASSUME DapInv, AnswersInv, [Next]_vars PROVE AnswersInv'
    OBVIOUS
  <1>1. DapInv'
    BY StepDap
  <1>2. CASE Receive
    <2>1. /\ Pipe' = Pipe /\ Following' = Following /\ UNCHANGED <<launch, answered, dropped>>
      BY <1>2, PartUnchanged DEF Receive, DapInv, Following
    <2>2. LaunchFirst'
      <3>1. CASE messages = <<>>
        <4>1. PICK command \in Commands : MayRequest(command) /\ messages' = Append(messages, command)
          BY <1>2 DEF Receive
        <4>2. Head(messages') = command
          BY <3>1, <4>1
        <4> QED
          BY <2>1, <4>1, <4>2 DEF LaunchFirst, MayRequest
      <3>2. CASE messages # <<>>
        BY <1>2, <3>2 DEF LaunchFirst, Receive
      <3> QED
        BY <3>1, <3>2
    <2> QED
      BY <2>1, <2>2 DEF AnswersInv, AnsweredInv, LaunchDropped
  <1>3. CASE Launched
    <2>1. messages # <<>> /\ Head(messages) = "launch"
      BY <1>3 DEF Launched, Loop, DapInv, MessagePart, Control, Idle, OnDriver, OnWrite, OnCreation
    <2>2. "launch" \notin dropped
      BY <1>3 DEF Launched, AnswersInv, LaunchDropped
    <2> QED
      BY <1>1, <1>3, <2>1, <2>2, ResolveAnswers, RespondAnswers DEF Launched, LaunchStays
  <1>4. CASE Driver
    <2>1. Pipe' = Pipe
      BY <1>4, InvParts, PipeDebugThread DEF Driver
    <2>2. UNCHANGED <<messages, turn, launch, writes, answered, dropped>>
      BY <1>4 DEF Driver, dapVars, clientVars
    <2> QED
      BY <2>1, <2>2, AsideAnswers DEF Following
  <1>5. CASE UNCHANGED vars
    <2>1. UNCHANGED driverVars /\ UNCHANGED <<messages, turn, launch, writes, answered, dropped>>
      BY <1>5 DEF vars, dapVars, clientVars
    <2> QED
      BY <2>1, PartUnchanged, AsideAnswers DEF DapInv, Following
  <1> QED
    BY <1>1, <1>2, <1>3, <1>4, <1>5, AnswersHandle, AnswersReply, AnswersWrite DEF Next, CallbackThread

LEMMA AnswersBegin ==
    ASSUME DapInit, replies = <<>>, tasks = <<>>, dbgThread.call \in {NoCall, "start"}, dbgThread.at \in {"idle", "wait"}
    PROVE  AnswersInv
  <1>1. Following = {}
    BY DEF DapInit, Following, Follow
  <1>2. StartCall \notin Pipe
    BY DEF Pipe, AllKinds, Kinds, DebugKinds, StartCall
  <1> QED
    BY <1>1, <1>2 DEF AnswersInv, AnsweredInv, LaunchDropped, LaunchFirst, DapInit

(* Whatever the client asks and however calls end, every request is        *)
(* finished with an answer, but for those the code has no answer to:       *)
(* commands it does not know (makeRequest), steps that fail (onStep), and  *)
(* a launch that has made its session.  That one is left to the start of   *)
(* the target, and unanswered if there is none (onLaunch,                  *)
(* startTargetAfterConfiguration).                                         *)
THEOREM RequestsAnswered ==
    /\ Spec => [](dropped \subseteq Unanswered /\ LaunchDropped)
    /\ SpecRunning => [](dropped \subseteq Unanswered /\ LaunchDropped)
  <1>1. Init => AnswersInv
    BY AnswersBegin DEF Init, DriverInit
  <1>2. InitRunning => AnswersInv
    BY AnswersBegin DEF InitRunning
  <1>3. AnswersInv => dropped \subseteq Unanswered /\ LaunchDropped
    BY DEF AnswersInv
  <1> QED
    BY <1>1, <1>2, <1>3, AnswersStep, AdapterCorrect, PTL DEF Spec, SpecRunning

(* Of a client that makes only requests the adapter knows, and no steps,   *)
(* every request is answered before the next is handled, but a launch that *)
(* has made its session.  A launch that fails is answered as any other     *)
(* request; that one that succeeds is answered later is model-checked.     *)
THEOREM EveryRequestIsAnswered ==
    ASSUME Commands \intersect NeverAnswered = {}
    PROVE  Spec => []EveryRequestAnswered
  <1>1. TypeOK /\ dropped \subseteq Unanswered /\ LaunchDropped => EveryRequestAnswered
    BY DEF TypeOK, EveryRequestAnswered, Unanswered, LaunchDropped
  <1> QED
    BY <1>1, RequestsAnswered, AdapterTypeCorrect, PTL
-----------------------------------------------------------------------------
(* The cache is clear while the target runs. *)

StepFrame == <<"frame", "stepFrame">>

(* The calls of a step loop that has fetched its base frame. *)
LoopKinds == ((StepOps \union {"wait"}) \X {"step"}) \union {<<"frame", "stepTop">>}

WaitReplied == \E i \in DOMAIN replies : replies[i].op = "wait"

WaitsLive == InWait => session = "live"

(* Neither a stop reason nor the end of a run that would leave one is      *)
(* there when the debug thread is about to wait.                           *)
CacheClear ==
    session = "live" /\ (InWait \/ TaskInFlight) => stopReason = "notSuspended" /\ ~WaitReplied

(* The run before is reported before the go of the next. *)
EndsFirst ==
    session = "live" =>
        \A i, j \in DOMAIN replies : ResumedReply(i) /\ replies[j].op = "wait" => j < i

(* The step loop has the driver for itself. *)
LoopAlone == \A k \in LoopKinds \intersect Pipe : Pipe = {k} /\ stopReason = "notSuspended"

(* A base frame was read at a break, so that nothing is left behind it. *)
FrameLast ==
    \A i \in DOMAIN replies :
        KindOf(replies[i]) = StepFrame /\ replies[i].res = "ok"
        => i = Len(replies) /\ tasks = <<>> /\ DebugKinds = {} /\ ~ReplyInFlight

ResumesFirst == InOrder({"go"} \X Resumes, {StepFrame})

CacheInv == WaitsLive /\ CacheClear /\ EndsFirst /\ LoopAlone /\ FrameLast /\ ResumesFirst

(* What the steps of the debug thread do to the replies. *)
LEMMA RepliesAppended ==
    ASSUME DriverTypeOK, NEW op, NEW call, NEW res, NEW bp, Answer(op, call, res, bp)
    PROVE  /\ op # "wait" => (WaitReplied' => WaitReplied)
           /\ EndsFirst /\ session = "live" /\ (op = "wait" => ~ReplyInFlight) => EndsFirst'
  <1> DEFINE n == Len(replies) + 1
             x == [op |-> op, call |-> call, res |-> res, bp |-> bp]
  <1>1. /\ DOMAIN replies' = DOMAIN replies \union {n}
        /\ \A i \in DOMAIN replies : i < n /\ i \in Nat /\ replies'[i] = replies[i]
        /\ replies'[n] = x
        /\ n \in Nat
    BY DEF Answer, DriverTypeOK
  <1>2. x.op = op /\ x.res = res
    OBVIOUS
  <1> HIDE DEF n, x
  <1>3. op # "wait" => (WaitReplied' => WaitReplied)
    BY <1>1, <1>2 DEF WaitReplied
  <1>4. ASSUME EndsFirst, session = "live", op = "wait" => ~ReplyInFlight PROVE EndsFirst'
    <2>1. "wait" \notin ResumeOps
      BY DEF ResumeOps, StepOps
    <2> SUFFICES ASSUME NEW i \in DOMAIN replies', NEW j \in DOMAIN replies',
                        ResumedReply(i)', replies'[j].op = "wait"
                 PROVE  j < i
      BY DEF EndsFirst
    <2>2. CASE i \in DOMAIN replies /\ j \in DOMAIN replies
      BY <1>1, <1>4, <2>2 DEF EndsFirst, ResumedReply
    <2>3. CASE i = n /\ j \in DOMAIN replies
      BY <1>1, <2>3
    <2>4. CASE i = n /\ j = n
      BY <1>1, <1>2, <2>1, <2>4 DEF ResumedReply
    <2>5. CASE i \in DOMAIN replies /\ j = n
      BY <1>1, <1>2, <1>4, <2>5 DEF ResumedReply, ReplyInFlight
    <2> QED
      BY <1>1, <2>2, <2>3, <2>4, <2>5
  <1> QED
    BY <1>3, <1>4

LEMMA RepliesTaken ==
    ASSUME DriverTypeOK, replies # <<>>, replies' = Tail(replies)
    PROVE  /\ WaitReplied' => WaitReplied
           /\ EndsFirst /\ UNCHANGED session => EndsFirst'
           /\ reply.op = "wait" => WaitReplied
           /\ EndsFirst /\ session = "live" /\ Resuming => ~WaitReplied'
  <1>1. /\ DOMAIN replies = 1 .. Len(replies)
        /\ DOMAIN replies' = 1 .. Len(replies) - 1
        /\ \A i \in 1 .. Len(replies) - 1 : replies'[i] = replies[i + 1]
        /\ Head(replies) = replies[1]
        /\ Len(replies) \in Nat \ {0}
    BY DEF DriverTypeOK
  <1>2. \A i \in DOMAIN replies' :
           /\ i \in Nat
           /\ i + 1 \in DOMAIN replies
           /\ replies'[i] = replies[i + 1]
    BY <1>1
  <1>3. WaitReplied' => WaitReplied
    BY <1>2 DEF WaitReplied
  <1>4. ASSUME EndsFirst, UNCHANGED session PROVE EndsFirst'
    <2> SUFFICES ASSUME session = "live", NEW i \in DOMAIN replies', NEW j \in DOMAIN replies',
                        ResumedReply(i)', replies'[j].op = "wait"
                 PROVE  j < i
      BY <1>4 DEF EndsFirst
    <2>1. ResumedReply(i + 1) /\ replies[j + 1].op = "wait"
      BY <1>2 DEF ResumedReply
    <2>2. j + 1 < i + 1
      BY <1>2, <1>4, <2>1 DEF EndsFirst
    <2> QED
      BY <1>2, <2>2
  <1>5. reply.op = "wait" => WaitReplied
    BY <1>1 DEF WaitReplied, reply
  <1>6. ASSUME EndsFirst, session = "live", Resuming PROVE ~WaitReplied'
    <2>1. 1 \in DOMAIN replies /\ ResumedReply(1)
      BY <1>1, <1>6 DEF Resuming, ResumedReply
    <2> SUFFICES ASSUME NEW j \in DOMAIN replies', replies'[j].op = "wait" PROVE FALSE
      BY DEF WaitReplied
    <2>2. j + 1 < 1
      BY <1>2, <1>6, <2>1 DEF EndsFirst
    <2> QED
      BY <1>2, <2>2
  <1> QED
    BY <1>3, <1>4, <1>5, <1>6
LEMMA CacheRunTask ==
    ASSUME DriverTypeOK, WaitsLive, CacheClear, EndsFirst, RunTask, UNCHANGED stopReason
    PROVE  WaitsLive' /\ CacheClear' /\ EndsFirst'
  <1>1. ASSUME NEW ops, "wait" \notin ops, Take(ops), session = "live", NEW res, NEW bp,
               AnswerTask(res, bp), UNCHANGED dbgThread
        PROVE  WaitsLive' /\ CacheClear' /\ EndsFirst'
    <2>1. (WaitReplied' => WaitReplied) /\ EndsFirst'
      BY <1>1, RepliesAppended DEF AnswerTask, Take
    <2>2. TaskInFlight' => TaskInFlight
      BY <1>1, TakeTokens
    <2> QED
      BY <1>1, <2>1, <2>2 DEF Take, WaitsLive, CacheClear
  <1> USE DEF TakeLive
  <1>2. "wait" \notin StepOps /\ "wait" \notin {"go", "stepInto", "stepOver", "stepOut", "hop", "end", "create",
                                                 "remove", "query", "frame"}
    BY DEF StepOps
  <1>3. CASE GoTask
    BY <1>1, <1>2, <1>3 DEF GoTask
  <1>4. CASE StepTask
    BY <1>1, <1>2, <1>4 DEF StepTask
  <1>5. CASE StepOutTask
    BY <1>1, <1>2, <1>5 DEF StepOutTask
  <1>6. CASE HopTask
    <2>1. CASE session = "live"
      BY <1>1, <1>2, <1>6, <2>1 DEF HopTask
    <2>2. CASE session # "live"
      BY <1>6, <2>2 DEF HopTask, Take, WaitsLive, CacheClear, EndsFirst
    <2> QED
      BY <2>1, <2>2
  <1>7. CASE EndTask
    BY <1>1, <1>2, <1>7 DEF EndTask
  <1>8. CASE CreateTask
    BY <1>1, <1>2, <1>8 DEF CreateTask
  <1>9. CASE RemoveTask
    BY <1>1, <1>2, <1>9 DEF RemoveTask
  <1>10. CASE QueryTask
    BY <1>1, <1>2, <1>10 DEF QueryTask
  <1>11. CASE FrameTask
    <2>1. CASE UNCHANGED dbgThread /\ AnswerTask("ok", NoBp)
      BY <1>1, <1>2, <1>11, <2>1 DEF FrameTask
    <2>2. CASE dbgThread'.at = "dead" /\ UNCHANGED replies
      <3>1. TaskInFlight' => TaskInFlight
        BY <1>11, TakeTokens DEF FrameTask
      <3> QED
        BY <1>11, <2>2, <3>1 DEF FrameTask, WaitsLive, CacheClear, EndsFirst, WaitReplied, ResumedReply
    <2> QED
      BY <1>11, <2>1, <2>2 DEF FrameTask
  <1>12. CASE WaitTask
    <2>1. 1 \in DOMAIN tasks /\ WaitingTask(1)
      BY <1>12 DEF WaitTask, Take, WaitingTask, DriverTypeOK
    <2>2. TaskInFlight /\ session = "live" /\ UNCHANGED <<replies, session>>
      BY <1>12, <2>1 DEF WaitTask, TaskInFlight
    <2> QED
      BY <2>2 DEF WaitsLive, CacheClear, EndsFirst, WaitReplied, ResumedReply
  <1>13. CASE DanglingTask
    BY <1>13 DEF DanglingTask, Take, WaitsLive, CacheClear, EndsFirst
  <1> QED
    BY <1>3, <1>4, <1>5, <1>6, <1>7, <1>8, <1>9, <1>10, <1>11, <1>12, <1>13 DEF RunTask

LEMMA CacheWait ==
    ASSUME DriverRuns, WaitsLive, CacheClear, EndsFirst, TargetEvent \/ WaitStep, UNCHANGED stopReason
    PROVE  WaitsLive' /\ CacheClear' /\ EndsFirst'
  <1>1. InWait /\ UNCHANGED <<tasks, session>> /\ session = "live"
    BY DEF TargetEvent, HitBreakpoint, HitException, StepComplete, ProcessExits, UnknownEvent,
           ThreadEvent, Waiting, WaitStep, ThreadEventContinue, WaitForNothing, WaitInterrupted,
           BreakIn, BreakInInterrupted, WaitsLive
  <1>2. ~ReplyInFlight /\ ~TaskInFlight /\ DriverTypeOK
    BY <1>1 DEF DriverRuns, OneRun
  <1>3. ASSUME NEW res, NEW bp, EndRun(res, bp)
        PROVE  WaitsLive' /\ CacheClear' /\ EndsFirst'
    <2>1. EndsFirst'
      BY <1>1, <1>2, <1>3, RepliesAppended DEF EndRun
    <2>2. ~TaskInFlight' /\ dbgThread'.at = "idle"
      BY <1>1, <1>2, <1>3, SameTasks DEF EndRun
    <2> QED
      BY <1>1, <2>1, <2>2 DEF WaitsLive, CacheClear
  <1>4. ASSUME replies' = replies \/ \E call, res, bp : Answer("thread", call, res, bp)
        PROVE  WaitsLive' /\ CacheClear' /\ EndsFirst'
    <2>1. (WaitReplied' => WaitReplied) /\ EndsFirst'
      BY <1>1, <1>2, <1>4, RepliesAppended DEF EndsFirst, WaitReplied, ResumedReply
    <2> QED
      BY <1>1, <2>1 DEF WaitsLive, CacheClear
  <1>5. CASE TargetEvent
    BY <1>3, <1>4, <1>5 DEF TargetEvent, HitBreakpoint, HitException, StepComplete, ProcessExits,
                            UnknownEvent, ThreadEvent
  <1>6. CASE WaitStep
    BY <1>3, <1>4, <1>6 DEF WaitStep, ThreadEventContinue, WaitForNothing, WaitInterrupted,
                            BreakIn, BreakInInterrupted
  <1> QED
    BY <1>5, <1>6
(* The base frame is asked for by a step, of a session that lives. *)
LEMMA FrameAwaited ==
    ASSUME DapInv, StepFrame \in Pipe
    PROVE  /\ Busy = {StepFrame} /\ turn = "loop" /\ Following = {} /\ launch \notin {"creating", "ended"}
           /\ messages # <<>> /\ Head(messages) \in Stepping
           /\ session = "live" /\ interrupting = NoCall
  <1>1. StepFrame \in Busy
    BY DEF Busy, Unawaited, StepFrame
  <1>2. /\ Busy = {StepFrame} /\ turn = "loop" /\ Following = {} /\ launch \notin {"creating", "ended"}
        /\ messages # <<>> /\ Awaits(Head(messages), StepFrame)
    BY <1>1 DEF DapInv, MessagePart, Control, LaunchInv, Idle, OnDriver, OnWrite, OnCreation
  <1>3. Head(messages) \in Stepping
    BY <1>2 DEF Awaits, StepFrame, Continues
  <1>4. session = "live"
    BY <1>2, <1>3, Destroyed DEF Stepping
  <1>5. interrupting = NoCall
    <2> SUFFICES ASSUME interrupting # NoCall PROVE FALSE
      OBVIOUS
    <2>1. <<"hop", interrupting>> \in Busy
      BY DEF Busy, InInterrupt
    <2>2. <<"hop", interrupting>> = <<"frame", "stepFrame">>
      BY <1>2, <2>1 DEF StepFrame
    <2> QED
      BY <2>2
  <1> QED
    BY <1>2, <1>3, <1>4, <1>5

LEMMA FrameReadAlone ==
    ASSUME DapInv, ResumesFirst, tasks # <<>>, KindOf(Head(tasks)) = StepFrame,
           dbgThread.at = "idle", status = "break"
    PROVE  Tail(tasks) = <<>> /\ ~ReplyInFlight
  <1>1. tasks \in Seq(Task) /\ OneRun /\ RunMeansRunning /\ OnceInTasks
    BY InvParts DEF DriverTypeOK, DriverInv, DriverRuns
  <1>2. KindOf(Head(tasks)) \in Kinds(tasks) /\ Kinds(tasks) = {KindOf(Head(tasks))} \union Kinds(Tail(tasks))
    BY <1>1, TailKinds
  <1>3. StepFrame \in Pipe /\ Kinds(tasks) \subseteq Pipe
    BY <1>2 DEF Pipe, AllKinds
  <1>4. Busy = {StepFrame} /\ session = "live"
    BY <1>3, FrameAwaited
  <1>5. ~TaskInFlight /\ ~ReplyInFlight
    BY <1>1, <1>4 DEF RunMeansRunning, RunInFlight, Running
  <1>6. Kinds(Tail(tasks)) \intersect ({"go"} \X Resumes) = {}
    <2>1. Before({"go"} \X Resumes, {StepFrame}, tasks)
      BY DEF ResumesFirst, InOrder, Ordered
    <2> QED
      BY <1>1, <2>1, TailBefore
  <1>7. ASSUME Tail(tasks) # <<>> PROVE FALSE
    <2>1. /\ DOMAIN Tail(tasks) = 1 .. Len(tasks) - 1
          /\ 1 \in DOMAIN Tail(tasks) /\ 1 \in DOMAIN tasks /\ 2 \in DOMAIN tasks
          /\ Tail(tasks)[1] = tasks[2] /\ Head(tasks) = tasks[1]
      BY <1>1, <1>7
    <2>2. KindOf(tasks[2]) \in Kinds(Tail(tasks)) /\ KindOf(tasks[2]) \in Pipe
      BY <1>2, <1>3, <2>1 DEF Kinds
    <2>3. tasks[2].op # "wait"
      BY <1>5, <2>1 DEF TaskInFlight, WaitingTask
    <2>4. KindOf(tasks[2]) = StepFrame
      BY <1>4, <1>6, <2>2, <2>3 DEF Busy, Unawaited, KindOf
    <2>5. tasks[1].call = tasks[2].call
      BY <2>1, <2>4 DEF KindOf, StepFrame
    <2> QED
      BY <1>1, <2>1, <2>5 DEF OnceInTasks
  <1> QED
    BY <1>5, <1>7

(* The debug thread answers with the kind of the call it is asked for. *)
FrameRead == \E i \in DOMAIN replies : KindOf(replies[i]) = StepFrame /\ replies[i].res = "ok"

LEMMA FrameReads ==
    ASSUME DriverTypeOK, NEW op, NEW call, NEW res, NEW bp, Answer(op, call, res, bp), ~FrameRead, FrameRead'
    PROVE  /\ <<op, call>> = StepFrame
           /\ \A i \in DOMAIN replies' :
                 KindOf(replies'[i]) = StepFrame /\ replies'[i].res = "ok" => i = Len(replies')
  <1> DEFINE n == Len(replies) + 1
             x == [op |-> op, call |-> call, res |-> res, bp |-> bp]
  <1>1. /\ DOMAIN replies' = DOMAIN replies \union {n}
        /\ \A i \in DOMAIN replies : replies'[i] = replies[i]
        /\ replies'[n] = x
        /\ Len(replies') = n
    BY DEF Answer, DriverTypeOK
  <1>2. KindOf(x) = <<op, call>>
    BY DEF KindOf
  <1> HIDE DEF n, x
  <1> QED
    BY <1>1, <1>2 DEF FrameRead

LEMMA FrameDebugThread ==
    ASSUME DapInv, ResumesFirst, FrameLast, DebugThread PROVE FrameLast'
  <1>1. DriverTypeOK /\ tasks \in Seq(Task)
    BY InvParts DEF DriverTypeOK
  <1>2. ~FrameRead
    <2> SUFFICES ASSUME tasks = <<>>, DebugKinds = {} PROVE FALSE
      BY DEF FrameRead, FrameLast
    <2> QED
      BY DEF DebugThread, RunTask, GoTask, StepTask, StepOutTask, HopTask, EndTask, CreateTask,
             RemoveTask, QueryTask, FrameTask, WaitTask, DanglingTask, TakeLive, Take, TargetEvent,
             HitBreakpoint, HitException, StepComplete, ProcessExits, UnknownEvent, ThreadEvent, Waiting,
             WaitStep, ThreadEventContinue, WaitForNothing, WaitInterrupted, BreakIn,
             BreakInInterrupted, DebugKinds
  <1> SUFFICES ASSUME FrameRead' PROVE FrameLast'
    BY DEF FrameRead, FrameLast
  <1>3. ~UNCHANGED replies
    BY <1>2 DEF FrameRead
  <1>4. ASSUME NEW res, NEW bp, AnswerTask(res, bp), tasks # <<>>
        PROVE  /\ KindOf(Head(tasks)) = StepFrame /\ Head(tasks).op = "frame" /\ session = "live"
               /\ \A i \in DOMAIN replies' :
                     KindOf(replies'[i]) = StepFrame /\ replies'[i].res = "ok" => i = Len(replies')
    <2>1. /\ <<Head(tasks).op, Head(tasks).call>> = StepFrame
          /\ \A i \in DOMAIN replies' :
                KindOf(replies'[i]) = StepFrame /\ replies'[i].res = "ok" => i = Len(replies')
      BY <1>1, <1>2, <1>4, FrameReads DEF AnswerTask
    <2>2. KindOf(Head(tasks)) = StepFrame /\ Head(tasks).op = "frame"
      BY <2>1 DEF KindOf, StepFrame
    <2>3. StepFrame \in Pipe
      BY <1>1, <1>4, <2>2, TailKinds DEF Pipe, AllKinds
    <2> QED
      BY <2>1, <2>2, <2>3, FrameAwaited
  <1>5. ASSUME NEW op, NEW call, NEW res, NEW bp, Answer(op, call, res, bp), op # "frame" PROVE FALSE
    BY <1>1, <1>2, <1>5, FrameReads DEF StepFrame
  <1>6. CASE FrameTask
    <2>1. AnswerTask("ok", NoBp) /\ status = "break" /\ UNCHANGED dbgThread
      BY <1>3, <1>6 DEF FrameTask
    <2>2. tasks # <<>> /\ dbgThread.at = "idle" /\ tasks' = Tail(tasks)
      BY <1>6 DEF FrameTask, TakeLive, Take
    <2>3. /\ KindOf(Head(tasks)) = StepFrame /\ Head(tasks).op = "frame"
          /\ \A i \in DOMAIN replies' :
                KindOf(replies'[i]) = StepFrame /\ replies'[i].res = "ok" => i = Len(replies')
      BY <1>4, <2>1, <2>2
    <2>4. Tail(tasks) = <<>> /\ ~ReplyInFlight
      BY <2>1, <2>2, <2>3, FrameReadAlone
    <2>5. ~ReplyInFlight'
      BY <1>1, <2>1, <2>3, <2>4, QuietAnswer DEF AnswerTask, ResumeOps, StepOps
    <2>6. DebugKinds' = {}
      BY <2>1, <2>2 DEF DebugKinds
    <2> QED
      BY <2>2, <2>3, <2>4, <2>5, <2>6 DEF FrameLast
  <1>7. CASE RunTask /\ ~FrameTask
    <2>1. PICK res, bp, ops : Take(ops) /\ AnswerTask(res, bp) /\ (session = "live" => "frame" \notin ops)
      BY <1>3, <1>7 DEF RunTask, GoTask, StepTask, StepOutTask, HopTask, EndTask, CreateTask,
             RemoveTask, QueryTask, FrameTask, WaitTask, DanglingTask, TakeLive
    <2>2. tasks # <<>> /\ Head(tasks).op \in ops
      BY <2>1 DEF Take
    <2> QED
      BY <1>4, <2>1, <2>2
  <1>8. CASE TargetEvent \/ WaitStep
    <2>1. \E op, call, res, bp : Answer(op, call, res, bp) /\ op # "frame"
      BY <1>3, <1>8 DEF EndRun, TargetEvent, HitBreakpoint, HitException, StepComplete, ProcessExits,
             UnknownEvent, ThreadEvent, WaitStep, ThreadEventContinue, WaitForNothing,
             WaitInterrupted, BreakIn, BreakInInterrupted
    <2> QED
      BY <1>5, <2>1
  <1> QED
    BY <1>6, <1>7, <1>8 DEF DebugThread

LEMMA CacheDebugThread ==
    ASSUME DapInv, CacheInv, Driver PROVE CacheInv'
  <1>1. DebugThread /\ UNCHANGED stopReason /\ DriverTypeOK /\ DriverRuns
    BY InvParts DEF Driver, sessionVars, DriverInv
  <1>2. WaitsLive' /\ CacheClear' /\ EndsFirst'
    BY <1>1, CacheRunTask, CacheWait DEF CacheInv, DebugThread
  <1>3. FrameLast'
    BY <1>1, FrameDebugThread DEF CacheInv
  <1>4. Pipe' = Pipe
    BY <1>1, PipeDebugThread
  <1>5. LoopAlone'
    BY <1>1, <1>4 DEF CacheInv, LoopAlone
  <1>6. ResumesFirst'
    BY <1>1, OrderDebugThread DEF CacheInv, ResumesFirst, ThreadKind, StepFrame
  <1> QED
    BY <1>2, <1>3, <1>5, <1>6 DEF CacheInv
(* What a step of the callback thread may do to the driver and the cache. *)
NoStep == LoopKinds \intersect Pipe = {} /\ StepFrame \notin Pipe

(* A call other than run, by a handler that is no step. *)
Asks(op, call, bp) ==
    /\ NoStep
    /\ op # "wait" /\ <<op, call>> \notin LoopKinds
    /\ Post(op, call, bp)
    /\ UNCHANGED stopReason

CacheAside == UNCHANGED <<tasks, replies, dbgThread, session, stopReason>>

CacheAsked == UNCHANGED <<replies, dbgThread, session>> /\ \E op, call, bp : Asks(op, call, bp)

CacheListed == NoStep /\ UNCHANGED stopReason /\ \E call \in Calls : GetThreads(call)

CacheReply ==
    /\ Taking
    /\ UNCHANGED <<dbgThread, interrupting, session>>
    /\ \/ UNCHANGED tasks /\ (UNCHANGED stopReason \/ reply.op = "wait")
       \/ Resuming /\ reply.op = "go" /\ reply.call \in RunCalls /\ Resumed(reply.call)
       \/ ReplyKind = StepFrame /\ Ok /\ StepFromBase
       \/ /\ ReplyKind \in StepOps \X {"step"}
          /\ Post("wait", "step", NoBp)
          /\ UNCHANGED stopReason
       \/ /\ ReplyKind \in LoopKinds
          /\ UNCHANGED stopReason
          /\ \E k \in LoopKinds : k[1] # "wait" /\ Post(k[1], k[2], NoBp)
       \/ \E op, call, bp : Asks(op, call, bp)

(* A handler that begins finds no step under way, and nor does any but a   *)
(* step that waits for the driver.                                         *)
LEMMA NoStepIdle == DapInv /\ Busy = {} => NoStep
  <1> SUFFICES ASSUME DapInv, Busy = {}, NEW k \in LoopKinds \union {StepFrame}, k \in Pipe PROVE FALSE
    BY DEF NoStep
  <1>1. k \notin Unawaited
    BY DEF LoopKinds, StepFrame, Unawaited, RunCalls, StepOps, Continues, Resumes
  <1> QED
    BY <1>1 DEF Busy

LEMMA NoStepBusy ==
    ASSUME DapInv, NEW k, Busy = {k}, k \notin LoopKinds \union {StepFrame}
    PROVE  NoStep
  <1> SUFFICES ASSUME NEW l \in LoopKinds \union {StepFrame}, l \in Pipe PROVE FALSE
    BY DEF NoStep
  <1>1. l \notin Unawaited
    BY DEF LoopKinds, StepFrame, Unawaited, RunCalls, StepOps, Continues, Resumes
  <1> QED
    BY <1>1 DEF Busy

LEMMA CacheOfHandle == DapInv /\ Handle => CacheAside \/ CacheAsked \/ CacheListed
  <1> SUFFICES ASSUME DapInv, Handle PROVE CacheAside \/ CacheAsked \/ CacheListed
    OBVIOUS
  <1>1. turn # "loop" => NoStep
    BY InvParts, NoStepIdle DEF Idle
  <1>2. UNCHANGED <<driverVars, sessionVars>> => CacheAside
    BY DEF driverVars, sessionVars, CacheAside
  <1>3. CASE Unknown \/ AnswerAtOnce \/ WithoutSession \/ OnLaunch \/ PauseAtOnce
    BY <1>2, <1>3, PausesLive DEF Unknown, AnswerAtOnce, WithoutSession, OnLaunch, PauseAtOnce
  <1>4. ASSUME NEW command, NEW op, NEW call, Request(command, op, call),
               op # "wait", call \notin {"step", "stepTop"}
        PROVE  CacheAsked
    <2>1. <<op, call>> \notin LoopKinds
      BY <1>4 DEF LoopKinds
    <2>2. Asks(op, call, NoBp) /\ UNCHANGED <<replies, dbgThread, session>>
      BY <1>1, <1>4, <2>1 DEF Request, Consume, Asks, sessionVars
    <2> QED
      BY <2>2 DEF CacheAsked
  <1>5. CASE OnContinue
    <2>1. Fresh(Continues) \in Continues
      BY <1>5, InvParts, FreshContinue DEF OnContinue, Request, Consume, Idle
    <2>2. Fresh(Continues) \notin {"step", "stepTop"}
      BY <2>1 DEF Continues
    <2> QED
      BY <1>4, <1>5, <2>2 DEF OnContinue
  <1>6. CASE OnDisconnect
    BY <1>4, <1>6 DEF OnDisconnect
  <1>7. CASE OnInspect
    BY <1>2, <1>4, <1>7 DEF OnInspect
  <1>8. CASE OnThreads
    <2>1. "threads" \in Calls
      BY CommandsAssumption DEF DapCalls
    <2> QED
      BY <1>1, <1>8, <2>1 DEF OnThreads, Consume, CacheListed, sessionVars
  <1>9. CASE OnStep
    <2>1. <<"frame", "stepFrame">> \notin LoopKinds
      BY DEF LoopKinds, StepOps
    <2>2. Asks("frame", "stepFrame", NoBp) /\ UNCHANGED <<replies, dbgThread, session>>
      BY <1>1, <1>9, <2>1 DEF OnStep, Consume, StepBegin, Asks
    <2> QED
      BY <2>2 DEF CacheAsked
  <1>10. CASE OnPause
    BY <1>10, PausesLive DEF OnPause, PauseBegin, CacheAside, sessionVars
  <1>11. CASE PauseIssued
    <2>1. <<"hop", interrupting>> \in Busy
      BY <1>11 DEF PauseIssued, PauseEnd, Busy, InInterrupt
    <2>2. Busy = {<<"hop", interrupting>>}
      BY <2>1 DEF DapInv, MessagePart, Control, Idle, OnDriver, OnWrite, OnCreation
    <2>3. <<"hop", interrupting>> \notin LoopKinds \union {StepFrame}
      BY DEF LoopKinds, StepFrame, StepOps
    <2>4. NoStep
      BY <2>2, <2>3, NoStepBusy
    <2>5. Asks("hop", interrupting, NoBp) /\ UNCHANGED <<replies, dbgThread, session>>
      BY <1>11, <2>3, <2>4, PausesLive DEF PauseIssued, PauseEnd, Asks, sessionVars
    <2> QED
      BY <2>5 DEF CacheAsked
  <1>12. CASE PauseRefused
    BY <1>12, PausesLive DEF PauseRefused, PauseFails, CacheAside, sessionVars
  <1>13. CASE SetBpsNext
    <2>1. NoStep /\ UNCHANGED <<replies, dbgThread, session, stopReason>> /\ Busy = {}
      BY <1>1, <1>13, InvParts DEF SetBpsNext, sessionVars, Idle
    <2>2. ASSUME NEW op \in {"remove", "create", "go"}, NEW call, NEW bp, Post(op, call, bp),
                 call \notin {"step", "stepTop"}
          PROVE  CacheAsked
      BY <2>1, <2>2 DEF CacheAsked, Asks, LoopKinds
    <2>3. ASSUME setBps.paused PROVE Fresh(Resumes) \notin {"step", "stepTop"}
      BY <2>1, <2>3, FreshResume DEF Resumes
    <2> QED
      BY <1>13, <2>1, <2>2, <2>3 DEF SetBpsNext, CacheAside
  <1> QED
    BY <1>3, <1>5, <1>6, <1>7, <1>8, <1>9, <1>10, <1>11, <1>12, <1>13 DEF Handle

(* What the handlers of the replies do to them. *)
LEMMA CacheOfReply == DapInv /\ HandleReply => CacheReply
  <1> SUFFICES ASSUME DapInv, HandleReply PROVE CacheReply
    OBVIOUS
  <1> DEFINE Handlers == {"stepFrame", "step", "stepTop", "pause", "bpPause", "bpRemove", "bpCreate",
                          "inspect", "threads", "stop"}
  <1>1. Handlers \subseteq DapCalls \ RunCalls /\ RunCalls \subseteq DapCalls
    BY DEF DapCalls, RunCalls, Continues, Resumes
  <1> HIDE DEF Handlers
  <1>2. DriverAsIs => UNCHANGED <<dbgThread, interrupting, session>>
    BY DEF DriverAsIs
  <1>3. ASSUME NEW call \in DapCalls \union {NoCall}, Deliver(call) PROVE Taking
    BY <1>3 DEF Deliver, Loop, Taking
  <1>4. ASSUME NEW call \in DapCalls \union {NoCall}, Deliver(call), DriverAsIs,
               UNCHANGED tasks, UNCHANGED stopReason \/ reply.op = "wait"
        PROVE  CacheReply
    BY <1>2, <1>3, <1>4 DEF CacheReply
  <1>5. ASSUME NEW call \in Handlers, Deliver(call)
        PROVE  /\ ReplyKind = <<reply.op, call>> /\ Busy = {ReplyKind}
               /\ Awaits(Head(messages), ReplyKind)
    <2>1. call \in DapCalls \ RunCalls
      BY <1>1, <1>5
    <2>2. <<reply.op, call>> \notin Unawaited
      BY <2>1 DEF Unawaited, RunCalls
    <2> QED
      BY <1>5, <2>1, <2>2, Delivered
  <1>6. ASSUME NEW call \in RunCalls, Deliver(call), reply.op = "go", Ok, Resumed(call), DriverAsIs
        PROVE  CacheReply
    <2>1. call \in DapCalls
      BY <1>1
    <2>2. Taking /\ reply.call = call
      BY <1>6, <2>1, Delivered
    <2>3. Resuming
      BY <1>6 DEF Resuming, Ok, reply, ResumeOps
    <2> QED
      BY <1>2, <1>6, <2>2, <2>3 DEF CacheReply
  <1>7. CASE GoReplied
    <2>1. PICK call \in {"start"} \union Continues : Deliver(call)
      BY <1>7 DEF GoReplied
    <2>2. call \in RunCalls /\ call \in DapCalls
      BY <1>1 DEF RunCalls
    <2>3. reply.call = call
      BY <2>1, <2>2, Delivered
    <2> QED
      BY <1>4, <1>6, <1>7, <2>1, <2>2, <2>3 DEF GoReplied, sessionVars
  <1>8. CASE BpResumeReplied
    <2>1. PICK call \in Resumes : Deliver(call)
      BY <1>8 DEF BpResumeReplied
    <2>2. call \in RunCalls /\ call \in DapCalls
      BY <1>1 DEF RunCalls
    <2>3. reply.call = call
      BY <2>1, <2>2, Delivered
    <2> QED
      BY <1>4, <1>6, <1>8, <2>1, <2>2, <2>3 DEF BpResumeReplied, sessionVars
  <1>9. CASE RunEnded
    BY <1>1, <1>4, <1>9 DEF RunEnded
  <1>10. CASE ThreadNotified
    BY <1>4, <1>10 DEF ThreadNotified, sessionVars
  <1>11. {"stepFrame", "step", "stepTop", "inspect"} \subseteq Handlers
    BY DEF Handlers
  <1>12. \A op \in StepOps : <<op, "step">> \in LoopKinds /\ op # "wait"
    BY DEF LoopKinds, StepOps
  <1>13. stepType \in StepOps
    BY DEF DapInv, HandlerTypeOK, SessionTypeOK
  <1>14. CASE StepFrameReplied
    <2>1. Deliver("stepFrame") /\ DriverAsIs
      BY <1>14 DEF StepFrameReplied
    <2>2. ReplyKind = <<reply.op, "stepFrame">> /\ Awaits(Head(messages), ReplyKind) /\ Taking
      BY <1>1, <1>3, <1>5, <1>11, <2>1
    <2>3. ReplyKind = StepFrame
      BY <2>2 DEF Awaits, StepFrame, Continues
    <2> QED
      BY <1>1, <1>2, <1>4, <1>11, <1>14, <2>1, <2>2, <2>3 DEF StepFrameReplied, CacheReply, sessionVars
  <1>15. CASE StepReplied
    <2>1. Deliver("step") /\ DriverAsIs
      BY <1>15 DEF StepReplied
    <2>2. ReplyKind = <<reply.op, "step">> /\ Taking
      BY <1>1, <1>3, <1>5, <1>11, <2>1
    <2>3. CASE reply.op \in StepOps /\ Ok /\ StepRun
      BY <1>2, <2>1, <2>2, <2>3 DEF StepRun, CacheReply, sessionVars
    <2>4. CASE reply.op = "wait" /\ StepPaused
      <3>1. ReplyKind \in LoopKinds /\ <<"frame", "stepTop">> \in LoopKinds
        BY <2>2, <2>4 DEF LoopKinds
      <3>2. \E k \in LoopKinds : k[1] # "wait" /\ Post(k[1], k[2], NoBp)
        BY <2>4, <3>1 DEF StepPaused
      <3> QED
        BY <1>2, <2>1, <2>2, <2>4, <3>1, <3>2 DEF StepPaused, CacheReply, sessionVars
    <2>5. CASE UNCHANGED tasks /\ (UNCHANGED stopReason \/ reply.op = "wait")
      BY <1>1, <1>4, <1>11, <2>1, <2>5
    <2> QED
      BY <1>15, <2>3, <2>4, <2>5 DEF StepReplied, sessionVars
  <1>16. CASE StepTopReplied
    <2>1. Deliver("stepTop") /\ DriverAsIs
      BY <1>16 DEF StepTopReplied
    <2>2. ReplyKind = <<reply.op, "stepTop">> /\ Awaits(Head(messages), ReplyKind) /\ Taking
      BY <1>1, <1>3, <1>5, <1>11, <2>1
    <2>3. ReplyKind \in LoopKinds
      BY <2>2 DEF Awaits, LoopKinds, Continues
    <2>4. StepAgain => CacheReply
      <3>1. StepAgain => \E k \in LoopKinds : k[1] # "wait" /\ Post(k[1], k[2], NoBp)
        BY <1>12, <1>13 DEF StepAgain
      <3> QED
        BY <1>2, <2>1, <2>2, <2>3, <3>1 DEF StepAgain, CacheReply, sessionVars
    <2> QED
      BY <1>1, <1>4, <1>11, <1>16, <2>1, <2>4 DEF StepTopReplied, sessionVars
  <1>17. CASE PauseReplied \/ BpPauseReplied \/ BpRemoved \/ BpCreated \/ PassedOn
    <2>1. DriverAsIs /\ UNCHANGED <<tasks, stopReason>> /\ \E call \in Handlers : Deliver(call)
      BY <1>17 DEF PauseReplied, BpPauseReplied, BpRemoved, BpCreated, PassedOn, sessionVars, Handlers
    <2> QED
      BY <1>1, <1>4, <2>1
  <1>18. CASE InspectedFrame
    <2>1. Deliver("inspect") /\ DriverAsIs /\ Post("query", "inspect", NoBp) /\ UNCHANGED stopReason
      BY <1>18 DEF InspectedFrame, sessionVars
    <2>2. ReplyKind = <<reply.op, "inspect">> /\ Busy = {ReplyKind} /\ Taking
      BY <1>1, <1>3, <1>5, <1>11, <2>1
    <2>3. ReplyKind \notin LoopKinds \union {StepFrame} /\ <<"query", "inspect">> \notin LoopKinds
      BY <2>2 DEF LoopKinds, StepFrame
    <2>4. NoStep
      BY <2>2, <2>3, NoStepBusy
    <2>5. Asks("query", "inspect", NoBp)
      BY <2>1, <2>3, <2>4 DEF Asks
    <2> QED
      BY <1>2, <2>1, <2>2, <2>5 DEF CacheReply
  <1> QED
    BY <1>7, <1>8, <1>9, <1>10, <1>14, <1>15, <1>16, <1>17, <1>18 DEF HandleReply

LEMMA CacheOfOthers == DapInv /\ (Receive \/ Launched \/ HandleWrite) => CacheAside \/ CacheAsked
  <1> SUFFICES ASSUME DapInv, Receive \/ Launched \/ HandleWrite PROVE CacheAside \/ CacheAsked
    OBVIOUS
  <1>1. UNCHANGED <<driverVars, sessionVars>> => CacheAside
    BY DEF driverVars, sessionVars, CacheAside
  <1>2. CASE StartFollows
    <2>1. Busy = {} /\ UNCHANGED <<replies, dbgThread, session, stopReason>>
      <3>1. "start" \in Continuations
        BY DEF Continuations
      <3> QED
        BY <1>2, <3>1, Completed DEF StartFollows, sessionVars
    <2>2. <<"go", "start">> \notin LoopKinds
      BY DEF LoopKinds, StepOps
    <2>3. Post("go", "start", NoBp) => Asks("go", "start", NoBp)
      BY <2>1, <2>2, NoStepIdle DEF Asks
    <2> QED
      BY <1>2, <2>1, <2>3 DEF StartFollows, CacheAside, CacheAsked
  <1>3. CASE Receive \/ Launched \/ NothingFollows \/ ResolveFollows \/ EventFollows \/ CloseFollows
    BY <1>1, <1>3 DEF Receive, Launched, NothingFollows, ResolveFollows, EventFollows, CloseFollows
  <1> QED
    BY <1>2, <1>3 DEF HandleWrite

(* Each of these keeps the cache as promised.  First, the reply of a base  *)
(* frame has the kind of the call in the queue.                            *)
LEMMA FrameInPipe ==
    /\ FrameRead => StepFrame \in Pipe
    /\ FrameRead' => StepFrame \in Kinds(replies')
  <1>1. StepFrame # ThreadKind
    BY DEF StepFrame, ThreadKind
  <1> QED
    BY <1>1 DEF FrameRead, Kinds, Pipe, AllKinds

LEMMA CacheAsideKeeps == ASSUME DapInv, CacheInv, CacheAside PROVE CacheInv'
  <1>1. UNCHANGED <<tasks, replies, dbgThread, session, stopReason>>
    BY DEF CacheAside
  <1>2. Pipe' = Pipe /\ DebugKinds' = DebugKinds
    BY <1>1 DEF Pipe, DebugKinds
  <1>3. ResumesFirst'
    BY <1>1, <1>2 DEF CacheInv, ResumesFirst, InOrder
  <1>4. ReplyInFlight' = ReplyInFlight /\ WaitReplied' = WaitReplied /\ TaskInFlight' = TaskInFlight
    BY <1>1 DEF ReplyInFlight, ResumedReply, WaitReplied, TaskInFlight, WaitingTask
  <1> QED
    BY <1>1, <1>2, <1>3, <1>4
       DEF CacheInv, WaitsLive, CacheClear, EndsFirst, LoopAlone, FrameLast, ResumedReply

LEMMA CacheAskedKeeps == ASSUME DapInv, CacheInv, CacheAsked PROVE CacheInv'
  <1>1. PICK op, call, bp : Asks(op, call, bp)
    BY DEF CacheAsked
  <1>2. /\ NoStep /\ op # "wait" /\ <<op, call>> \notin LoopKinds
        /\ Post(op, call, bp) /\ UNCHANGED <<replies, dbgThread, session, stopReason>>
        /\ DriverTypeOK
    BY <1>1, InvParts DEF Asks, CacheAsked
  <1>3. Pipe' = Pipe \union {<<op, call>>}
    BY <1>2, PipePosted
  <1>4. TaskInFlight' => TaskInFlight
    BY <1>2, QuietPost
  <1>5. WaitsLive' /\ CacheClear' /\ EndsFirst'
    BY <1>2, <1>4 DEF CacheInv, WaitsLive, CacheClear, EndsFirst, WaitReplied, ResumedReply
  <1>6. LoopAlone'
    BY <1>2, <1>3 DEF LoopAlone, NoStep
  <1>7. FrameLast'
    <2>1. ~FrameRead
      BY <1>2, FrameInPipe DEF NoStep
    <2> QED
      BY <1>2, <2>1 DEF FrameRead, FrameLast
  <1>8. ResumesFirst'
    <2>1. Pipe \intersect {StepFrame} = {} /\ ThreadKind \notin {StepFrame}
      BY <1>2 DEF NoStep, ThreadKind, StepFrame
    <2>2. <<op, call>> \in {"go"} \X Resumes => <<op, call>> \notin {StepFrame}
      BY DEF StepFrame
    <2> QED
      BY <1>2, <2>1, <2>2, OrderPosted DEF CacheInv, ResumesFirst
  <1> QED
    BY <1>5, <1>6, <1>7, <1>8 DEF CacheInv

LEMMA CacheListedKeeps == ASSUME DapInv, CacheInv, CacheListed PROVE CacheInv'
  <1>1. PICK call \in Calls : GetThreads(call)
    BY DEF CacheListed
  <1>2. /\ NoStep /\ UNCHANGED <<tasks, dbgThread, session, stopReason>>
        /\ Answer("query", call, "ok", NoBp) /\ DriverTypeOK
    BY <1>1, InvParts DEF CacheListed, GetThreads
  <1>3. Pipe' = Pipe \union {<<"query", call>>} /\ \A E, L : InOrder(E, L) /\ <<"query", call>> \notin E \union L => InOrder(E, L)'
    BY <1>1, <1>2, PipeListed
  <1>4. (WaitReplied' => WaitReplied) /\ (EndsFirst /\ session = "live" => EndsFirst')
    BY <1>2, RepliesAppended
  <1>5. TaskInFlight' = TaskInFlight
    BY <1>2 DEF TaskInFlight, WaitingTask
  <1>6. WaitsLive' /\ CacheClear' /\ EndsFirst'
    BY <1>2, <1>4, <1>5 DEF CacheInv, WaitsLive, CacheClear, EndsFirst
  <1>7. <<"query", call>> \notin LoopKinds \union {StepFrame} \union ({"go"} \X Resumes)
    BY DEF LoopKinds, StepFrame, StepOps
  <1>8. LoopAlone'
    BY <1>2, <1>3, <1>7 DEF LoopAlone, NoStep
  <1>9. FrameLast'
    <2>1. ~FrameRead
      BY <1>2, FrameInPipe DEF NoStep
    <2>2. ~FrameRead'
      BY <1>2, <1>7, <2>1, FrameReads
    <2> QED
      BY <2>2 DEF FrameRead, FrameLast
  <1>10. ResumesFirst'
    BY <1>3, <1>7 DEF CacheInv, ResumesFirst
  <1> QED
    BY <1>6, <1>8, <1>9, <1>10 DEF CacheInv

(* What every reply that is taken leaves behind. *)
LEMMA CacheTaken ==
    ASSUME DapInv, CacheInv, Taking, UNCHANGED <<dbgThread, interrupting, session>>
    PROVE  /\ DriverTypeOK /\ WaitsLive' /\ EndsFirst'
           /\ WaitReplied' => WaitReplied
           /\ FrameRead' => FrameRead /\ ReplyKind # StepFrame /\ ~Resuming
           /\ UNCHANGED tasks => FrameLast'
           /\ UNCHANGED tasks => ResumesFirst'
           /\ \A op, call, bp : Post(op, call, bp) /\ <<op, call>> \notin {"go"} \X Resumes => ResumesFirst'
           /\ ReplyKind = ThreadKind \/ ReplyKind \in Pipe
           /\ ReplyKind \in Pipe /\ Pipe = {ReplyKind} => ~WaitReplied' /\ ~FrameRead'
           /\ Resuming => ReplyKind \in Pipe /\ ReplyInFlight
  <1>1. /\ DriverTypeOK /\ DriverOnce /\ replies \in Seq(Reply) /\ replies # <<>> /\ replies' = Tail(replies)
    BY InvParts DEF Taking, DriverTypeOK
  <1>2. /\ DOMAIN replies = 1 .. Len(replies) /\ Len(replies) \in Nat \ {0}
        /\ DOMAIN replies' = 1 .. Len(replies) - 1 /\ Len(replies') = Len(replies) - 1
        /\ \A i \in DOMAIN replies' : i \in Nat /\ i + 1 \in DOMAIN replies /\ replies'[i] = replies[i + 1]
        /\ Head(replies) = replies[1]
    BY <1>1
  <1>3. WaitsLive' /\ EndsFirst' /\ (WaitReplied' => WaitReplied)
    BY <1>1, RepliesTaken DEF CacheInv, WaitsLive
  <1>4. ReplyInFlight' => ReplyInFlight
    BY <1>1, DeliverTokens
  <1>5. Resuming => ReplyInFlight
    BY <1>2 DEF Resuming, ReplyInFlight, ResumedReply
  <1>6. ASSUME NEW i \in DOMAIN replies', KindOf(replies'[i]) = StepFrame, replies'[i].res = "ok"
        PROVE  /\ FrameRead /\ ~Resuming /\ ReplyKind # StepFrame
               /\ i = Len(replies') /\ tasks = <<>> /\ DebugKinds = {} /\ ~ReplyInFlight'
    <2>1. i + 1 \in DOMAIN replies /\ KindOf(replies[i + 1]) = StepFrame /\ replies[i + 1].res = "ok" /\ i \in Nat
      BY <1>2, <1>6
    <2>2. i + 1 = Len(replies) /\ tasks = <<>> /\ DebugKinds = {} /\ ~ReplyInFlight /\ FrameRead
      BY <2>1 DEF CacheInv, FrameLast, FrameRead
    <2>3. ReplyKind # StepFrame
      <3>1. i + 1 # 1
        BY <1>2, <2>1
      <3>2. OnceInReplies
        BY <1>1 DEF DriverOnce
      <3>3. 1 \in DOMAIN replies /\ ReplyKind = KindOf(replies[1])
        BY <1>2 DEF ReplyKind
      <3> SUFFICES ASSUME KindOf(replies[1]) = StepFrame PROVE FALSE
        BY <3>3
      <3>4. /\ replies[1].op = replies[i + 1].op /\ replies[1].call = replies[i + 1].call
            /\ replies[1].op = "frame"
        BY <2>1 DEF KindOf, StepFrame
      <3> QED
        BY <2>1, <3>1, <3>2, <3>3, <3>4 DEF OnceInReplies
    <2> QED
      BY <1>2, <1>4, <1>5, <2>1, <2>2, <2>3
  <1>7. FrameRead' => FrameRead /\ ReplyKind # StepFrame /\ ~Resuming
    BY <1>6 DEF FrameRead
  <1>8. UNCHANGED tasks => FrameLast'
    <2>1. DebugKinds' = DebugKinds
      BY DEF DebugKinds
    <2> QED
      BY <1>6, <2>1 DEF FrameLast
  <1>9. /\ UNCHANGED tasks => ResumesFirst'
        /\ \A op, call, bp : Post(op, call, bp) /\ <<op, call>> \notin {"go"} \X Resumes => ResumesFirst'
    <2>1. ThreadKind \notin ({"go"} \X Resumes) \union {StepFrame}
      BY DEF ThreadKind, StepFrame
    <2> QED
      BY <1>1, <2>1, OrderTaken DEF CacheInv, ResumesFirst
  <1>10. /\ ReplyKind = ThreadKind \/ ReplyKind \in Pipe
         /\ Kinds(replies') \ {ThreadKind} \subseteq Pipe \ {ReplyKind}
    BY <1>1, RestOfPipe
  <1>11. ASSUME Pipe = {ReplyKind} PROVE ~WaitReplied' /\ ~FrameRead'
    <2>1. Kinds(replies') \subseteq {ThreadKind}
      BY <1>10, <1>11
    <2>2. ~FrameRead'
      BY <2>1, FrameInPipe DEF StepFrame, ThreadKind
    <2>3. \A i \in DOMAIN replies' : KindOf(replies'[i]) = ThreadKind
      BY <2>1 DEF Kinds
    <2>4. ~WaitReplied'
      BY <2>3 DEF WaitReplied, KindOf, ThreadKind
    <2> QED
      BY <2>2, <2>4
  <1>12. Resuming => ReplyKind \in Pipe
    BY <1>10 DEF Resuming, ResumeOps, StepOps, ReplyKind, KindOf, ThreadKind
  <1> QED
    BY <1>1, <1>3, <1>5, <1>7, <1>8, <1>9, <1>10, <1>11, <1>12

LEMMA CacheReplyKeeps == ASSUME DapInv, CacheInv, CacheReply PROVE CacheInv'
  <1>1. Taking /\ UNCHANGED <<dbgThread, interrupting, session>> /\ DriverOnce
    BY InvParts DEF CacheReply
  <1>2. /\ DriverTypeOK /\ WaitsLive' /\ EndsFirst'
        /\ WaitReplied' => WaitReplied
        /\ FrameRead' => FrameRead /\ ReplyKind # StepFrame /\ ~Resuming
        /\ UNCHANGED tasks => FrameLast' /\ ResumesFirst'
        /\ \A op, call, bp : Post(op, call, bp) /\ <<op, call>> \notin {"go"} \X Resumes => ResumesFirst'
        /\ ReplyKind = ThreadKind \/ ReplyKind \in Pipe
        /\ ReplyKind \in Pipe /\ Pipe = {ReplyKind} => ~WaitReplied' /\ ~FrameRead'
        /\ Resuming => ReplyKind \in Pipe /\ ReplyInFlight
    BY <1>1, CacheTaken
  <1>3. /\ UNCHANGED tasks => Pipe' = Pipe \ {ReplyKind}
        /\ \A op, call, bp : Post(op, call, bp) => Pipe' = (Pipe \ {ReplyKind}) \union {<<op, call>>}
    BY <1>1, PipeTaken
  <1>4. ReplyKind[1] = reply.op /\ ReplyKind[2] = reply.call
    BY DEF ReplyKind, KindOf, reply
  <1>5. ~FrameRead' => FrameLast'
    BY DEF FrameRead, FrameLast
  <1>6. \A k \in LoopKinds : k[1] \notin {"go", "thread", "query"} /\ k[2] \in {"step", "stepTop"} /\ k # StepFrame
    BY DEF LoopKinds, StepFrame, StepOps
  <1>7. \A op, call, bp : Post(op, call, bp) /\ op # "wait" => (TaskInFlight' => TaskInFlight)
    BY <1>2, QuietPost
  (* A handler of a reply that calls nobody. *)
  <1>8. CASE UNCHANGED tasks /\ (UNCHANGED stopReason \/ reply.op = "wait")
    <2>1. TaskInFlight' = TaskInFlight
      BY <1>8 DEF TaskInFlight, WaitingTask
    <2>2. reply.op = "wait" => WaitReplied
      BY <1>1, <1>2, RepliesTaken DEF Taking
    <2>3. CacheClear'
      BY <1>1, <1>2, <1>8, <2>1, <2>2 DEF CacheInv, CacheClear
    <2>4. LoopAlone'
      <3> SUFFICES ASSUME NEW k \in LoopKinds, k \in Pipe' PROVE Pipe' = {k} /\ stopReason' = "notSuspended"
        BY DEF LoopAlone
      <3>1. k \in Pipe /\ k # ReplyKind
        BY <1>3, <1>8
      <3>2. Pipe = {k} /\ stopReason = "notSuspended"
        BY <3>1 DEF CacheInv, LoopAlone
      <3>3. ReplyKind = ThreadKind
        BY <1>2, <3>1, <3>2
      <3>4. reply.op # "wait"
        BY <1>4, <3>3 DEF ThreadKind
      <3> QED
        BY <1>3, <1>8, <3>1, <3>2, <3>4
    <2> QED
      BY <1>2, <1>8, <2>3, <2>4 DEF CacheInv
  (* A run that begins clears the cache. *)
  <1>9. CASE Resuming /\ reply.op = "go" /\ reply.call \in RunCalls /\ Resumed(reply.call)
    <2>1. Post("wait", reply.call, NoBp) /\ stopReason' = "notSuspended"
      BY <1>9 DEF Resumed
    <2>2. session = "live" => ~WaitReplied'
      BY <1>1, <1>2, <1>9, RepliesTaken DEF CacheInv, Taking
    <2>3. CacheClear'
      BY <1>1, <2>1, <2>2 DEF CacheClear
    <2>4. LoopAlone'
      <3> SUFFICES ASSUME NEW k \in LoopKinds, k \in Pipe' PROVE FALSE
        BY DEF LoopAlone
      <3>1. k # <<"wait", reply.call>>
        <4>1. reply.call \notin {"step", "stepTop"}
          BY <1>9 DEF RunCalls, Continues, Resumes
        <4> QED
          BY <1>6, <4>1
      <3>2. k \in Pipe /\ k # ReplyKind
        BY <1>3, <2>1, <3>1
      <3> QED
        BY <1>2, <1>9, <3>2 DEF CacheInv, LoopAlone
    <2>5. FrameLast'
      BY <1>2, <1>5, <1>9
    <2>6. ResumesFirst'
      <3>1. <<"wait", reply.call>> \notin {"go"} \X Resumes
        OBVIOUS
      <3> QED
        BY <1>2, <2>1, <3>1
    <2> QED
      BY <1>2, <2>3, <2>4, <2>5, <2>6 DEF CacheInv
  (* A step clears it too, and finds nothing on its way. *)
  <1>10. CASE ReplyKind = StepFrame /\ Ok /\ StepFromBase
    <2>1. Post(stepType, "step", NoBp) /\ stopReason' = "notSuspended" /\ stepType \in StepOps
      BY <1>10 DEF StepFromBase, DapInv, HandlerTypeOK, SessionTypeOK
    <2>2. /\ DOMAIN replies = 1 .. Len(replies) /\ Len(replies) \in Nat \ {0}
          /\ Head(replies) = replies[1] /\ DOMAIN replies' = 1 .. Len(replies) - 1
      BY <1>1, <1>2 DEF Taking, DriverTypeOK
    <2>3. 1 = Len(replies) /\ tasks = <<>> /\ DebugKinds = {}
      <3>1. 1 \in DOMAIN replies /\ KindOf(replies[1]) = StepFrame /\ replies[1].res = "ok"
        BY <1>10, <2>2 DEF ReplyKind, Ok, reply
      <3>2. ASSUME NEW i \in DOMAIN replies, KindOf(replies[i]) = StepFrame, replies[i].res = "ok"
            PROVE  i = Len(replies) /\ tasks = <<>> /\ DebugKinds = {}
        BY <3>2 DEF CacheInv, FrameLast
      <3> QED
        BY <3>1, <3>2
    <2>4. DOMAIN replies' = {}
      <3> SUFFICES ASSUME NEW i \in DOMAIN replies' PROVE FALSE
        OBVIOUS
      <3>1. i \in 1 .. Len(replies) - 1 /\ Len(replies) = 1
        BY <2>2, <2>3
      <3> QED
        BY <3>1
    <2>5. Pipe \subseteq {StepFrame}
      <3>1. Kinds(tasks) \union DebugKinds \union (Kinds(replies') \ {ThreadKind}) = Pipe \ {ReplyKind}
        BY <1>1, RestOfPipe
      <3>2. Kinds(tasks) = {} /\ Kinds(replies') = {}
        BY <2>3, <2>4 DEF Kinds
      <3> QED
        BY <1>10, <2>3, <3>1, <3>2
    <2>6. Pipe' = {<<stepType, "step">>}
      BY <1>3, <1>10, <2>1, <2>5
    <2>7. LoopAlone'
      BY <2>1, <2>6 DEF LoopAlone
    <2>8. ~TaskInFlight' /\ ~InWait
      <3>1. stepType # "wait"
        BY <2>1 DEF StepOps
      <3>2. ~TaskInFlight
        BY <2>3 DEF TaskInFlight
      <3>3. ~InWait
        BY <2>3 DEF DebugKinds
      <3> QED
        BY <1>7, <2>1, <3>1, <3>2, <3>3
    <2>9. CacheClear'
      BY <1>1, <2>8 DEF CacheClear
    <2>10. FrameLast'
      BY <2>4 DEF FrameLast
    <2>11. ResumesFirst'
      <3>1. <<stepType, "step">> \notin {"go"} \X Resumes
        BY <2>1 DEF StepOps
      <3> QED
        BY <1>2, <2>1, <3>1
    <2> QED
      BY <1>2, <2>7, <2>9, <2>10, <2>11 DEF CacheInv
  (* The step loop goes on, still alone. *)
  <1>11. ASSUME ReplyKind \in LoopKinds, UNCHANGED stopReason,
                NEW k \in LoopKinds, Post(k[1], k[2], NoBp)
         PROVE  CacheInv'
    <2>1. ReplyKind \in Pipe
      BY <1>2, <1>6, <1>11 DEF ThreadKind
    <2>2. Pipe = {ReplyKind} /\ stopReason = "notSuspended"
      BY <1>11, <2>1 DEF CacheInv, LoopAlone
    <2>3. k = <<k[1], k[2]>>
      BY <1>11 DEF LoopKinds
    <2>4. Pipe' = {k}
      BY <1>3, <1>11, <2>2, <2>3
    <2>5. LoopAlone'
      BY <1>11, <2>2, <2>4 DEF LoopAlone
    <2>6. ~WaitReplied' /\ ~FrameRead'
      BY <1>2, <2>1, <2>2
    <2>7. CacheClear' /\ FrameLast'
      BY <1>5, <1>11, <2>2, <2>6 DEF CacheClear
    <2>8. ResumesFirst'
      <3>1. <<k[1], k[2]>> \notin {"go"} \X Resumes
        BY <1>6, <1>11
      <3> QED
        BY <1>2, <1>11, <3>1
    <2> QED
      BY <1>2, <2>5, <2>7, <2>8 DEF CacheInv
  <1>12. CASE ReplyKind \in StepOps \X {"step"} /\ Post("wait", "step", NoBp) /\ UNCHANGED stopReason
    <2>1. ReplyKind \in LoopKinds /\ <<"wait", "step">> \in LoopKinds
      BY <1>12 DEF LoopKinds
    <2> QED
      BY <1>11, <1>12, <2>1
  <1>13. CASE \E op, call, bp : Asks(op, call, bp)
    <2>1. PICK op, call, bp : Asks(op, call, bp)
      BY <1>13
    <2>2. /\ NoStep /\ op # "wait" /\ <<op, call>> \notin LoopKinds
          /\ Post(op, call, bp) /\ UNCHANGED stopReason
      BY <2>1 DEF Asks
    <2>3. Pipe' = (Pipe \ {ReplyKind}) \union {<<op, call>>}
      BY <1>3, <2>2
    <2>4. CacheClear'
      BY <1>1, <1>2, <1>7, <2>2 DEF CacheInv, CacheClear
    <2>5. LoopAlone'
      BY <2>2, <2>3 DEF LoopAlone, NoStep
    <2>6. FrameLast'
      BY <1>2, <1>5, <2>2, FrameInPipe DEF NoStep
    <2>7. ResumesFirst'
      <3>1. Pipe \intersect {StepFrame} = {} /\ ThreadKind \notin ({"go"} \X Resumes) \union {StepFrame}
        BY <2>2 DEF NoStep, ThreadKind, StepFrame
      <3>2. <<op, call>> \in {"go"} \X Resumes => <<op, call>> \notin {StepFrame}
        BY DEF StepFrame
      <3> QED
        BY <1>1, <2>2, <3>1, <3>2, OrderTaken DEF CacheInv, ResumesFirst
    <2> QED
      BY <1>2, <2>4, <2>5, <2>6, <2>7 DEF CacheInv
  <1> QED
    BY <1>8, <1>9, <1>10, <1>11, <1>12, <1>13 DEF CacheReply

LEMMA CacheStep == DapInv /\ CacheInv /\ [Next]_vars => CacheInv'
  <1> SUFFICES ASSUME DapInv, CacheInv, [Next]_vars PROVE CacheInv'
    OBVIOUS
  <1>1. CASE UNCHANGED vars
    BY <1>1, CacheAsideKeeps DEF vars, driverVars, sessionVars, CacheAside
  <1>2. CASE CallbackThread
    BY <1>2, CacheOfHandle, CacheOfReply, CacheOfOthers,
       CacheAsideKeeps, CacheAskedKeeps, CacheListedKeeps, CacheReplyKeeps DEF CallbackThread
  <1> QED
    BY <1>1, <1>2, CacheDebugThread DEF Next

LEMMA CacheBegin ==
    ASSUME DapInit, session = "live", replies = <<>>, tasks = <<>>,
           dbgThread.call \in {NoCall, "start"}, dbgThread.at \in {"idle", "wait"}
    PROVE  CacheInv
  <1>1. DOMAIN replies = {} /\ DOMAIN tasks = {} /\ stopReason = "notSuspended"
    BY DEF DapInit, SessionInit
  <1>2. WaitsLive /\ CacheClear /\ EndsFirst /\ FrameLast
    BY <1>1 DEF WaitsLive, CacheClear, EndsFirst, FrameLast, WaitReplied, ResumedReply
  <1>3. Kinds(tasks) = {} /\ Kinds(replies) = {} /\ DebugKinds \subseteq {<<"wait", NoCall>>, <<"wait", "start">>}
    BY <1>1 DEF Kinds, DebugKinds
  <1>4. ResumesFirst
    BY <1>1, <1>3 DEF ResumesFirst, InOrder, Ordered, Before, StepFrame
  <1>5. LoopAlone
    <2>1. NoCall # "step"
      BY CommandsAssumption, CallsAssumption DEF DapCalls
    <2> SUFFICES ASSUME NEW k \in LoopKinds, k \in Pipe PROVE FALSE
      BY DEF LoopAlone
    <2>2. k \in {<<"wait", NoCall>>, <<"wait", "start">>}
      BY <1>3 DEF Pipe, AllKinds
    <2> QED
      BY <2>1, <2>2 DEF LoopKinds, StepOps
  <1> QED
    BY <1>2, <1>4, <1>5 DEF CacheInv

(* While the debug thread waits for the target, the cache holds no stop    *)
(* reason: resume, start and step clear it (Session.hx), and no end of an  *)
(* earlier run comes after that, since the replies of the driver are in    *)
(* the order of its calls.                                                 *)
THEOREM CacheIsClear ==
    /\ Spec => []CacheClearWhileRunning
    /\ SpecRunning => []CacheClearWhileRunning
  <1>1. Init => CacheInv
    BY CacheBegin DEF Init, DriverInit
  <1>2. InitRunning => CacheInv
    BY CacheBegin DEF InitRunning
  <1>3. CacheInv => CacheClearWhileRunning
    BY DEF CacheInv, WaitsLive, CacheClear, CacheClearWhileRunning
  <1> QED
    BY <1>1, <1>2, <1>3, CacheStep, AdapterCorrect, PTL DEF Spec, SpecRunning
-----------------------------------------------------------------------------
(* A breakpoint that is reported is known. *)

Created(i) == replies[i].op = "create" /\ replies[i].res = "ok"
Removed(i) == replies[i].op = "remove" /\ replies[i].res = "ok"
Hit(i)     == replies[i].res = "breakpoint"

(* No breakpoint is set by the engine for a step out. *)
NoStepOut == stepType # "stepOut" /\ \A i \in DOMAIN tasks : tasks[i].op # "stepOut"

(* What the engine has set is active, or about to be. *)
SetKnown ==
    session = "live" =>
        \A b \in breakpoints : b \in active \/ \E j \in DOMAIN replies : Created(j) /\ replies[j].bp = b

(* A breakpoint is active before its first hit is taken up, and no hit     *)
(* comes after its removal.                                                *)
HitKnown ==
    \A i \in DOMAIN replies :
        Hit(i) => \/ replies[i].bp \in active
                  \/ \E j \in DOMAIN replies : Created(j) /\ replies[j].bp = replies[i].bp /\ j < i

RemovedLast ==
    \A j \in DOMAIN replies :
        Removed(j) =>
            /\ session = "live" => replies[j].bp \notin breakpoints
            /\ \A i \in DOMAIN replies : Hit(i) /\ replies[i].bp = replies[j].bp => i < j

KnownInv == SetKnown /\ HitKnown /\ RemovedLast

LEMMA KnownKept ==
    ASSUME KnownInv, UNCHANGED <<replies, active>>, breakpoints' \subseteq breakpoints,
           session' = "live" => session = "live"
    PROVE  KnownInv'
  BY DEF KnownInv, SetKnown, HitKnown, RemovedLast, Hit, Created, Removed

LEMMA KnownAnswered ==
    ASSUME DriverTypeOK, KnownInv, NEW op, NEW call, NEW res, NEW bp, Answer(op, call, res, bp),
           UNCHANGED active, session' = "live" => session = "live",
           res = "breakpoint" => session = "live" /\ bp \in breakpoints,
           op = "remove" /\ res = "ok" /\ session' = "live" => bp \notin breakpoints',
           \A b \in breakpoints' \ breakpoints :
              /\ op = "create" /\ res = "ok" /\ bp = b
              /\ \A j \in DOMAIN replies : ~Removed(j)
    PROVE  KnownInv'
  <1> DEFINE x == [op |-> op, call |-> call, res |-> res, bp |-> bp]
  <1>1. PICK n \in Nat :
        /\ DOMAIN replies' = DOMAIN replies \union {n}
        /\ \A i \in DOMAIN replies : i < n /\ i \in Nat /\ replies'[i] = replies[i]
        /\ replies'[n] = x
    <2>1. Len(replies) + 1 \in Nat
      BY DEF DriverTypeOK
    <2> QED
      BY <2>1 DEF Answer, DriverTypeOK
  <1>2. x.op = op /\ x.res = res /\ x.bp = bp
    OBVIOUS
  <1> HIDE DEF x
  <1>3. \A i \in DOMAIN replies :
           (Created(i)' <=> Created(i)) /\ (Removed(i)' <=> Removed(i)) /\ (Hit(i)' <=> Hit(i))
    BY <1>1 DEF Created, Removed, Hit
  <1>4. /\ Created(n)' <=> op = "create" /\ res = "ok"
        /\ Removed(n)' <=> op = "remove" /\ res = "ok"
        /\ Hit(n)' <=> res = "breakpoint"
    BY <1>1, <1>2 DEF Created, Removed, Hit
  <1>5. SetKnown'
    <2> SUFFICES ASSUME session' = "live", NEW b \in breakpoints'
                 PROVE  b \in active' \/ \E j \in DOMAIN replies' : Created(j)' /\ replies'[j].bp = b
      BY DEF SetKnown
    <2>1. CASE b \in breakpoints
      <3>1. b \in active \/ \E j \in DOMAIN replies : Created(j) /\ replies[j].bp = b
        BY <2>1 DEF KnownInv, SetKnown
      <3> QED
        BY <1>1, <1>3, <3>1
    <2>2. CASE b \notin breakpoints
      BY <1>1, <1>2, <1>4, <2>2
    <2> QED
      BY <2>1, <2>2
  <1>6. HitKnown'
    <2> SUFFICES ASSUME NEW i \in DOMAIN replies', Hit(i)'
                 PROVE  \/ replies'[i].bp \in active'
                        \/ \E j \in DOMAIN replies' : Created(j)' /\ replies'[j].bp = replies'[i].bp /\ j < i
      BY DEF HitKnown
    <2>1. CASE i \in DOMAIN replies
      <3>1. \/ replies[i].bp \in active
            \/ \E j \in DOMAIN replies : Created(j) /\ replies[j].bp = replies[i].bp /\ j < i
        BY <1>3, <2>1 DEF KnownInv, HitKnown
      <3> QED
        BY <1>1, <1>3, <2>1, <3>1
    <2>2. CASE i = n
      <3>1. bp \in active \/ \E j \in DOMAIN replies : Created(j) /\ replies[j].bp = bp
        BY <1>4, <2>2 DEF KnownInv, SetKnown
      <3> QED
        BY <1>1, <1>2, <1>3, <2>2, <3>1
    <2> QED
      BY <1>1, <2>1, <2>2
  <1>7. RemovedLast'
    <2> SUFFICES ASSUME NEW j \in DOMAIN replies', Removed(j)'
                 PROVE  /\ session' = "live" => replies'[j].bp \notin breakpoints'
                        /\ \A i \in DOMAIN replies' : Hit(i)' /\ replies'[i].bp = replies'[j].bp => i < j
      BY DEF RemovedLast
    <2>1. CASE j \in DOMAIN replies
      <3>1. /\ session = "live" => replies[j].bp \notin breakpoints
            /\ \A i \in DOMAIN replies : Hit(i) /\ replies[i].bp = replies[j].bp => i < j
        BY <1>3, <2>1 DEF KnownInv, RemovedLast
      <3>2. session' = "live" => replies'[j].bp \notin breakpoints'
        BY <1>1, <1>3, <2>1, <3>1
      <3>3. ASSUME NEW i \in DOMAIN replies', Hit(i)', replies'[i].bp = replies'[j].bp PROVE i < j
        <4>1. CASE i \in DOMAIN replies
          BY <1>1, <1>3, <2>1, <3>1, <3>3, <4>1
        <4>2. CASE i = n
          BY <1>1, <1>2, <1>4, <2>1, <3>1, <3>3, <4>2
        <4> QED
          BY <1>1, <4>1, <4>2
      <3> QED
        BY <3>2, <3>3
    <2>2. CASE j = n
      <3>1. op = "remove" /\ res = "ok"
        BY <1>4, <2>2
      <3>2. ASSUME NEW i \in DOMAIN replies', Hit(i)' PROVE i < j
        BY <1>1, <1>4, <2>2, <3>1, <3>2
      <3> QED
        BY <1>1, <1>2, <2>2, <3>1, <3>2
    <2> QED
      BY <1>1, <2>1, <2>2
  <1> QED
    BY <1>5, <1>6, <1>7 DEF KnownInv

(* Breakpoints are set and removed one after the other. *)
LEMMA NoneRemoved ==
    ASSUME DapInv, tasks # <<>>, Head(tasks).op = "create", NEW j \in DOMAIN replies
    PROVE  ~Removed(j)
  <1> SUFFICES ASSUME Removed(j) PROVE FALSE
    OBVIOUS
  <1>1. tasks \in Seq(Task) /\ replies[j].op = "remove"
    BY InvParts DEF DriverTypeOK, Removed
  <1>2. KindOf(Head(tasks)) \in Pipe
    BY <1>1, TailKinds DEF Pipe, AllKinds
  <1>3. KindOf(replies[j]) \in Pipe
    BY <1>1 DEF Pipe, AllKinds, Kinds, KindOf, ThreadKind
  <1>4. KindOf(Head(tasks)) \in Busy /\ KindOf(replies[j]) \in Busy
    BY <1>1, <1>2, <1>3 DEF Busy, Unawaited, KindOf
  <1>5. KindOf(Head(tasks)) = KindOf(replies[j])
    BY <1>4 DEF DapInv, MessagePart, Control, Idle, OnDriver, OnWrite, OnCreation
  <1> QED
    BY <1>1, <1>5 DEF KindOf

LEMMA KnownDebugThread ==
    ASSUME EngineFails = FALSE, DapInv, WaitsLive, NoStepOut, KnownInv, Driver
    PROVE  KnownInv'
  <1>1. DebugThread /\ UNCHANGED active /\ DriverTypeOK
    BY InvParts DEF Driver, sessionVars
  <1>2. ASSUME NEW res \in {"ok", "error", "exited"}, NEW bp, AnswerTask(res, bp), UNCHANGED breakpoints,
               session' = "live" => session = "live",
               Head(tasks).op = "remove" /\ res = "ok" => session' # "live"
        PROVE  KnownInv'
    BY <1>1, <1>2, KnownAnswered DEF AnswerTask
  <1> USE DEF TakeLive, Take
  <1>3. CASE GoTask
    BY <1>2, <1>3 DEF GoTask
  <1>4. CASE StepTask
    BY <1>2, <1>4 DEF StepTask
  <1>5. CASE StepOutTask
    BY <1>1, <1>5 DEF StepOutTask, NoStepOut, DriverTypeOK
  <1>6. CASE HopTask
    BY <1>2, <1>6 DEF HopTask, engineVars
  <1>7. CASE EndTask
    BY <1>2, <1>7 DEF EndTask
  <1>8. CASE CreateTask
    <2>1. CASE UNCHANGED breakpoints /\ AnswerTask("error", NoBp)
      BY <1>2, <1>8, <2>1 DEF CreateTask
    <2>2. ASSUME NEW b \in BpIds \ breakpoints, breakpoints' = breakpoints \union {b}, AnswerTask("ok", b)
          PROVE  KnownInv'
      <3>1. \A j \in DOMAIN replies : ~Removed(j)
        BY <1>8, NoneRemoved DEF CreateTask
      <3> QED
        BY <1>1, <1>8, <2>2, <3>1, KnownAnswered DEF AnswerTask, CreateTask
    <2> QED
      BY <1>8, <2>1, <2>2 DEF CreateTask
  <1>9. CASE RemoveTask
    <2>1. CASE UNCHANGED breakpoints /\ AnswerTask("error", Head(tasks).bp)
      BY <1>2, <1>9, <2>1 DEF RemoveTask
    <2>2. CASE breakpoints' = breakpoints \ {Head(tasks).bp} /\ AnswerTask("ok", Head(tasks).bp)
      BY <1>1, <1>9, <2>2, KnownAnswered DEF AnswerTask, RemoveTask
    <2> QED
      BY <1>9, <2>1, <2>2 DEF RemoveTask
  <1>10. CASE QueryTask
    BY <1>2, <1>10 DEF QueryTask, engineVars
  <1>11. CASE FrameTask
    BY <1>1, <1>2, <1>11, KnownKept DEF FrameTask, engineVars
  <1>12. CASE WaitTask
    BY <1>1, <1>12, KnownKept DEF WaitTask, engineVars
  <1>13. CASE DanglingTask
    BY <1>2, <1>13 DEF DanglingTask, engineVars
  <1>14. ASSUME NEW res \in {"ok", "error", "exited", "paused", "exception"}, NEW bp, EndRun(res, bp),
                UNCHANGED session, breakpoints' \subseteq breakpoints
         PROVE  KnownInv'
    BY <1>1, <1>14, KnownAnswered DEF EndRun
  <1>15. CASE HitBreakpoint
    <2>1. session = "live" /\ UNCHANGED session
      BY <1>15 DEF HitBreakpoint, Waiting, WaitsLive
    <2>2. PICK b \in breakpoints :
             /\ breakpoints' = breakpoints \ (oneShots \intersect {b})
             /\ EndRun("paused", NoBp) \/ EndRun("breakpoint", b)
      BY <1>15 DEF HitBreakpoint
    <2>3. CASE EndRun("breakpoint", b)
      BY <1>1, <2>1, <2>2, <2>3, KnownAnswered DEF EndRun
    <2> QED
      BY <1>14, <2>1, <2>2, <2>3
  <1>16. CASE HitException \/ StepComplete \/ ProcessExits
    BY <1>14, <1>16 DEF HitException, StepComplete, ProcessExits
  <1>17. CASE UnknownEvent
    BY <1>17 DEF UnknownEvent
  <1>18. CASE ThreadEvent
    BY <1>1, <1>18, KnownAnswered DEF ThreadEvent
  <1>19. CASE WaitStep
    <2>1. CASE \E bp : \E res \in {"ok", "error", "exited", "paused", "exception"} : EndRun(res, bp)
      BY <1>14, <1>19, <2>1 DEF WaitStep, ThreadEventContinue, WaitForNothing, WaitInterrupted,
                               BreakIn, BreakInInterrupted
    <2>2. CASE UNCHANGED <<replies, breakpoints, session>>
      BY <1>1, <2>2, KnownKept
    <2> QED
      BY <1>19, <2>1, <2>2 DEF WaitStep, ThreadEventContinue, WaitForNothing, WaitInterrupted,
                               BreakIn, BreakInInterrupted
  <1> QED
    BY <1>1, <1>3, <1>4, <1>5, <1>6, <1>7, <1>8, <1>9, <1>10, <1>11, <1>12, <1>13, <1>15, <1>16,
       <1>17, <1>18, <1>19 DEF DebugThread, RunTask, TargetEvent

(* The callback thread. *)
LEMMA KnownListed ==
    ASSUME DapInv, KnownInv, NEW call, GetThreads(call), UNCHANGED active PROVE KnownInv'
  <1>1. Answer("query", call, "ok", NoBp) /\ UNCHANGED <<session, breakpoints>> /\ DriverTypeOK
    BY InvParts DEF GetThreads, engineVars
  <1> QED
    BY <1>1, KnownAnswered

LEMMA KnownTaken ==
    ASSUME DapInv, KnownInv, Taking, UNCHANGED <<session, breakpoints>>,
           \/ active \subseteq active' /\ (reply.op = "create" /\ Ok => reply.bp \in active')
           \/ reply.op = "remove" /\ Ok /\ active' = active \ {reply.bp}
    PROVE  KnownInv'
  <1>1. /\ DOMAIN replies = 1 .. Len(replies) /\ Len(replies) \in Nat \ {0}
        /\ DOMAIN replies' = 1 .. Len(replies) - 1
        /\ \A i \in 1 .. Len(replies) - 1 : replies'[i] = replies[i + 1]
        /\ reply = replies[1]
    BY InvParts DEF Taking, DriverTypeOK, reply
  <1>2. \A i \in DOMAIN replies' :
           /\ i \in Nat /\ i + 1 \in DOMAIN replies /\ replies'[i] = replies[i + 1] /\ 1 < i + 1
           /\ (Created(i)' <=> Created(i + 1)) /\ (Removed(i)' <=> Removed(i + 1)) /\ (Hit(i)' <=> Hit(i + 1))
    BY <1>1 DEF Created, Removed, Hit
  <1>3. 1 \in DOMAIN replies
    BY <1>1
  <1>4. \A j \in DOMAIN replies : j # 1 => \E i \in DOMAIN replies' : j = i + 1 /\ Created(j) = Created(i)' /\ replies[j] = replies'[i]
    <2> SUFFICES ASSUME NEW j \in DOMAIN replies, j # 1
                 PROVE  \E i \in DOMAIN replies' : j = i + 1 /\ Created(j) = Created(i)' /\ replies[j] = replies'[i]
      OBVIOUS
    <2>1. j - 1 \in DOMAIN replies' /\ j = (j - 1) + 1
      BY <1>1
    <2>2. replies'[j - 1] = replies[j]
      BY <1>1, <2>1
    <2> QED
      BY <2>1, <2>2 DEF Created
  (* Whatever breakpoint is removed by this reply is neither set nor hit. *)
  <1>5. ASSUME NEW b, b \in active \/ (Created(1) /\ replies[1].bp = b), b \notin active'
        PROVE  /\ session = "live" => b \notin breakpoints
               /\ \A i \in DOMAIN replies' : ~(Hit(i)' /\ replies'[i].bp = b)
    <2>1. Removed(1) /\ replies[1].bp = b
      BY <1>1, <1>5 DEF Created, Removed, Ok
    <2>2. /\ session = "live" => b \notin breakpoints
          /\ \A i \in DOMAIN replies : Hit(i) /\ replies[i].bp = b => i < 1
      BY <1>3, <2>1 DEF KnownInv, RemovedLast
    <2> QED
      BY <1>2, <2>2
  <1>6. SetKnown'
    <2> SUFFICES ASSUME session = "live", NEW b \in breakpoints, b \notin active'
                 PROVE  \E j \in DOMAIN replies' : Created(j)' /\ replies'[j].bp = b
      BY DEF SetKnown
    <2>1. PICK j \in DOMAIN replies : Created(j) /\ replies[j].bp = b /\ j # 1
      BY <1>3, <1>5 DEF KnownInv, SetKnown
    <2> QED
      BY <1>4, <2>1
  <1>7. HitKnown'
    <2> SUFFICES ASSUME NEW i \in DOMAIN replies', Hit(i)', replies'[i].bp \notin active'
                 PROVE  \E j \in DOMAIN replies' : Created(j)' /\ replies'[j].bp = replies'[i].bp /\ j < i
      BY DEF HitKnown
    <2>1. Hit(i + 1) /\ replies[i + 1].bp = replies'[i].bp /\ i + 1 \in DOMAIN replies
      BY <1>2
    <2>2. PICK j \in DOMAIN replies : Created(j) /\ replies[j].bp = replies'[i].bp /\ j < i + 1 /\ j # 1
      BY <1>3, <1>5, <2>1 DEF KnownInv, HitKnown
    <2>3. PICK k \in DOMAIN replies' : j = k + 1 /\ Created(j) = Created(k)' /\ replies[j] = replies'[k]
      BY <1>4, <2>2
    <2>4. k < i
      BY <1>2, <2>2, <2>3
    <2> QED
      BY <2>2, <2>3, <2>4
  <1>8. RemovedLast'
    <2> SUFFICES ASSUME NEW j \in DOMAIN replies', Removed(j)'
                 PROVE  /\ session = "live" => replies'[j].bp \notin breakpoints
                        /\ \A i \in DOMAIN replies' : Hit(i)' /\ replies'[i].bp = replies'[j].bp => i < j
      BY DEF RemovedLast
    <2>1. Removed(j + 1) /\ replies'[j] = replies[j + 1] /\ j + 1 \in DOMAIN replies
      BY <1>2
    <2>2. /\ session = "live" => replies[j + 1].bp \notin breakpoints
          /\ \A i \in DOMAIN replies : Hit(i) /\ replies[i].bp = replies[j + 1].bp => i < j + 1
      BY <2>1 DEF KnownInv, RemovedLast
    <2>3. ASSUME NEW i \in DOMAIN replies', Hit(i)', replies'[i].bp = replies'[j].bp PROVE i < j
      <3>1. i + 1 < j + 1
        BY <1>2, <2>1, <2>2, <2>3
      <3> QED
        BY <1>2, <3>1
    <2> QED
      BY <2>1, <2>2, <2>3
  <1> QED
    BY <1>6, <1>7, <1>8 DEF KnownInv

(* Only a creation or a removal changes what is active, and only their     *)
(* handlers take up their answers.                                         *)
LEMMA KnownReply == DapInv /\ KnownInv /\ HandleReply => KnownInv'
  <1> SUFFICES ASSUME DapInv, KnownInv, HandleReply PROVE KnownInv'
    OBVIOUS
  <1>1. Taking /\ UNCHANGED <<session, breakpoints>>
    <2>1. \E call \in DapCalls \union {NoCall} : Deliver(call)
      BY DEF HandleReply, GoReplied, BpResumeReplied, RunEnded, ThreadNotified, StepFrameReplied, StepReplied,
             StepTopReplied, PauseReplied, BpPauseReplied, BpRemoved, BpCreated, InspectedFrame,
             PassedOn, DapCalls, RunCalls
    <2>2. DriverAsIs
      BY DEF HandleReply, GoReplied, BpResumeReplied, RunEnded, ThreadNotified, StepFrameReplied, StepReplied,
             StepTopReplied, PauseReplied, BpPauseReplied, BpRemoved, BpCreated, InspectedFrame, PassedOn
    <2> QED
      BY <2>1, <2>2 DEF Deliver, Loop, Taking, DriverAsIs, engineVars
  <1>2. CASE BpRemoved
    <2>1. Deliver("bpRemove") /\ active' = IF Ok THEN active \ {reply.bp} ELSE active
      BY <1>2 DEF BpRemoved
    <2>2. "bpRemove" \in DapCalls \ RunCalls
      BY DEF DapCalls, RunCalls, Continues, Resumes
    <2>3. Awaits(Head(messages), <<reply.op, "bpRemove">>)
      BY <2>1, <2>2, ReplyTo
    <2>4. reply.op = "remove"
      BY <2>3 DEF Awaits, Continues
    <2> QED
      BY <1>1, <2>1, <2>4, KnownTaken
  <1>3. CASE BpCreated
    <2>1. active' = IF Ok THEN active \union {reply.bp} ELSE active
      BY <1>3 DEF BpCreated
    <2> QED
      BY <1>1, <2>1, KnownTaken
  <1>4. CASE ~BpRemoved /\ ~BpCreated
    <2>1. UNCHANGED active
      BY <1>4 DEF HandleReply, GoReplied, BpResumeReplied, RunEnded, ThreadNotified, StepFrameReplied, StepReplied,
             StepTopReplied, PauseReplied, BpPauseReplied, BpRemoved, BpCreated, InspectedFrame, PassedOn,
             sessionVars, Resumed, Stopped, StepFromBase, StepRun, StepPaused, StepAgain
    <2>2. reply.op # "create"
      <3>1. CASE GoReplied \/ BpResumeReplied \/ RunEnded
        BY <3>1 DEF GoReplied, BpResumeReplied, RunEnded
      <3>2. CASE ThreadNotified
        <4>1. Head(replies) \in Reply /\ Head(replies).call = NoCall
          BY <3>2, InvParts DEF ThreadNotified, Deliver, DriverTypeOK
        <4>2. NoCall \notin Calls
          BY CallsAssumption
        <4> QED
          BY <4>1, <4>2 DEF Reply, reply
      <3>3. CASE ~(GoReplied \/ BpResumeReplied \/ RunEnded \/ ThreadNotified)
        <4>1. PICK call \in {"stepFrame", "step", "stepTop", "pause", "bpPause", "inspect", "threads", "stop"} :
                 Deliver(call)
          BY <1>4, <3>3 DEF HandleReply, StepFrameReplied, StepReplied, StepTopReplied, PauseReplied,
                            BpPauseReplied, InspectedFrame, PassedOn
        <4>2. call \in DapCalls \ RunCalls /\ call # "bpCreate"
          BY <4>1 DEF DapCalls, RunCalls, Continues, Resumes
        <4>3. Awaits(Head(messages), <<reply.op, call>>)
          BY <4>1, <4>2, ReplyTo
        <4> QED
          BY <4>2, <4>3 DEF Awaits, StepOps
      <3> QED
        BY <3>1, <3>2, <3>3
    <2> QED
      BY <1>1, <2>1, <2>2, KnownTaken
  <1> QED
    BY <1>2, <1>3, <1>4

LEMMA KnownStep ==
    ASSUME EngineFails = FALSE, DapInv, WaitsLive, NoStepOut, KnownInv, [Next]_vars PROVE KnownInv'
  <1>1. CASE Handle
    <2>1. UNCHANGED <<active, breakpoints, session>> /\ (UNCHANGED replies \/ \E call : GetThreads(call))
      BY <1>1, PausesLive
         DEF Handle, Unknown, AnswerAtOnce, WithoutSession, OnContinue, OnInspect, OnDisconnect,
           OnThreads, OnStep, OnLaunch, OnPause, PauseAtOnce, PauseIssued, PauseRefused, SetBpsNext, Request,
           GetThreads, StepBegin, PauseBegin, PauseEnd, PauseFails, driverVars, sessionVars, engineVars
    <2> QED
      BY <2>1, KnownKept, KnownListed
  <1>2. CASE Receive \/ Launched \/ HandleWrite \/ UNCHANGED vars
    <2>1. UNCHANGED <<replies, active, breakpoints, session>>
      BY <1>2 DEF Receive, Launched, HandleWrite, NothingFollows, ResolveFollows, EventFollows, StartFollows,
           CloseFollows, vars, driverVars, sessionVars, engineVars
    <2> QED
      BY <2>1, KnownKept
  <1> QED
    BY <1>1, <1>2, KnownReply, KnownDebugThread DEF Next, CallbackThread

(* No step out is ever asked for. *)
LEMMA TaskPosted ==
    ASSUME DriverTypeOK, NoStepOut, NEW op, op # "stepOut", NEW call, NEW bp, Post(op, call, bp),
           stepType' # "stepOut"
    PROVE  NoStepOut'
  <1>1. /\ DOMAIN tasks' = DOMAIN tasks \union {Len(tasks) + 1}
        /\ \A i \in DOMAIN tasks : tasks'[i] = tasks[i]
        /\ tasks'[Len(tasks) + 1].op = op
    BY DEF Post, DriverTypeOK
  <1> QED
    BY <1>1 DEF NoStepOut

LEMMA TaskTaken ==
    ASSUME DriverTypeOK, NoStepOut, tasks # <<>>, tasks' = Tail(tasks), UNCHANGED stepType
    PROVE  NoStepOut'
  <1>1. \A i \in DOMAIN tasks' : i + 1 \in DOMAIN tasks /\ tasks'[i] = tasks[i + 1]
    BY DEF DriverTypeOK
  <1> QED
    BY <1>1 DEF NoStepOut

LEMMA StepOutKept ==
    ASSUME "stepOut" \notin Commands, DapInv, NoStepOut, [Next]_vars PROVE NoStepOut'
  <1>1. DriverTypeOK /\ stepType # "stepOut"
    BY InvParts DEF NoStepOut
  <1>2. UNCHANGED <<tasks, stepType>> => NoStepOut'
    BY DEF NoStepOut
  <1>3. ASSUME NEW op, op # "stepOut", NEW call, NEW bp, Post(op, call, bp), UNCHANGED stepType
        PROVE  NoStepOut'
    BY <1>1, <1>3, TaskPosted
  <1>4. CASE Driver
    <2>1. UNCHANGED stepType /\ (UNCHANGED tasks \/ (tasks # <<>> /\ tasks' = Tail(tasks)))
      BY <1>4 DEF Driver, DebugThread, RunTask, GoTask, StepTask, StepOutTask, HopTask, EndTask, CreateTask,
             RemoveTask, QueryTask, FrameTask, WaitTask, DanglingTask, TakeLive, Take, TargetEvent,
             HitBreakpoint, HitException, StepComplete, ProcessExits, UnknownEvent, ThreadEvent,
             WaitStep, ThreadEventContinue, WaitForNothing, WaitInterrupted, BreakIn,
             BreakInInterrupted, sessionVars
    <2> QED
      BY <1>1, <1>2, <2>1, TaskTaken
  <1>5. CASE OnStep
    <2>1. turn = "consume" /\ Head(messages) \in Commands
      BY <1>5, InvParts DEF OnStep, Consume
    <2>2. PICK type \in {"stepOver", "stepInto"} : StepBegin(type)
      BY <1>5, <2>1 DEF OnStep, Consume
    <2> QED
      BY <1>1, <2>2, TaskPosted DEF StepBegin
  <1>6. CASE Handle /\ ~OnStep
    <2>1. UNCHANGED stepType
      BY <1>6 DEF Handle, Unknown, AnswerAtOnce, WithoutSession, OnContinue, OnInspect, OnDisconnect,
           OnThreads, OnLaunch, OnPause, PauseAtOnce, PauseIssued, PauseRefused, SetBpsNext, Request, sessionVars
    <2>2. UNCHANGED tasks \/ \E op, call, bp : op # "stepOut" /\ Post(op, call, bp)
      BY <1>6, PausesLive
         DEF Handle, Unknown, AnswerAtOnce, WithoutSession, OnContinue, OnInspect, OnDisconnect,
           OnThreads, OnLaunch, OnPause, PauseAtOnce, PauseIssued, PauseRefused, SetBpsNext, Request,
           GetThreads, PauseBegin, PauseEnd, PauseFails, driverVars
    <2> QED
      BY <1>2, <1>3, <2>1, <2>2
  <1>7. CASE HandleReply
    <2>1. UNCHANGED stepType
      BY <1>7 DEF HandleReply, GoReplied, BpResumeReplied, RunEnded, ThreadNotified, StepFrameReplied, StepReplied,
             StepTopReplied, PauseReplied, BpPauseReplied, BpRemoved, BpCreated, InspectedFrame, PassedOn,
             sessionVars, Resumed, Stopped, StepFromBase, StepRun, StepPaused, StepAgain
    <2>2. UNCHANGED tasks \/ \E op, call, bp : op # "stepOut" /\ Post(op, call, bp)
      BY <1>1, <1>7 DEF HandleReply, GoReplied, BpResumeReplied, RunEnded, ThreadNotified, StepFrameReplied,
             StepReplied, StepTopReplied, PauseReplied, BpPauseReplied, BpRemoved, BpCreated, InspectedFrame,
             PassedOn, Resumed, StepFromBase, StepRun, StepPaused, StepAgain
    <2> QED
      BY <1>2, <1>3, <2>1, <2>2
  <1>8. CASE Receive \/ Launched \/ HandleWrite \/ UNCHANGED vars
    <2>1. UNCHANGED stepType /\ (UNCHANGED tasks \/ Post("go", "start", NoBp))
      BY <1>8 DEF Receive, Launched, HandleWrite, NothingFollows, ResolveFollows, EventFollows, StartFollows,
           CloseFollows, vars, driverVars, sessionVars
    <2> QED
      BY <1>2, <1>3, <2>1
  <1> QED
    BY <1>4, <1>5, <1>6, <1>7, <1>8 DEF Next, CallbackThread

LEMMA KnownBegin ==
    ASSUME DapInit, replies = <<>>, tasks = <<>>, breakpoints = {}
    PROVE  NoStepOut /\ KnownInv
  <1>1. DOMAIN replies = {} /\ DOMAIN tasks = {} /\ stepType # "stepOut"
    BY DEF DapInit, SessionInit
  <1> QED
    BY <1>1 DEF NoStepOut, KnownInv, SetKnown, HitKnown, RemovedLast

(* A breakpoint that is reported is one the session knows, even when       *)
(* breakpoints are set and removed while the target runs (Breakpoints.hx,  *)
(* onSetBreakpoints).  With engine failures a breakpoint may be set in the *)
(* engine and not in the session, and so it is after a step out that did   *)
(* not reach its one shot breakpoint; hence the hypotheses.                *)
THEOREM BreakpointsAreKnown ==
    ASSUME EngineFails = FALSE, "stepOut" \notin Commands
    PROVE  (Spec => []BreakpointsKnown) /\ (SpecRunning => []BreakpointsKnown)
  <1>1. Init => CacheInv /\ NoStepOut /\ KnownInv
    BY CacheBegin, KnownBegin DEF Init, DriverInit
  <1>2. InitRunning => CacheInv /\ NoStepOut /\ KnownInv
    BY CacheBegin, KnownBegin DEF InitRunning
  <1>3. DapInv /\ CacheInv /\ NoStepOut /\ KnownInv /\ [Next]_vars => (CacheInv /\ NoStepOut /\ KnownInv)'
    BY CacheStep, StepOutKept, KnownStep DEF CacheInv
  <1>4. DapInv /\ KnownInv => BreakpointsKnown
    <2> SUFFICES ASSUME DapInv, KnownInv, replies # <<>>, reply.res = "breakpoint"
                 PROVE  reply.bp \in active
      BY DEF BreakpointsKnown
    <2>1. 1 \in DOMAIN replies /\ reply = replies[1] /\ DOMAIN replies = 1 .. Len(replies)
      BY InvParts DEF reply, DriverTypeOK
    <2>2. \A j \in DOMAIN replies : ~(j < 1)
      BY <2>1
    <2> QED
      BY <2>1, <2>2 DEF KnownInv, HitKnown, Hit
  <1> QED
    BY <1>1, <1>2, <1>3, <1>4, AdapterCorrect, PTL DEF Spec, SpecRunning

-----------------------------------------------------------------------------
(* What the client is told of the target is true.                          *)
(*                                                                         *)
(* The client of the theorems from here on edits breakpoints only while it *)
(* believes the target is stopped, no engine function fails, and no thread *)
(* of the target begins or ends: section 4 of the README has what goes     *)
(* wrong otherwise.                                                        *)

Orderly == EngineFails = FALSE /\ MaxReplies = 0 /\ EditsRunning = FALSE

Live == session = "live"

-----------------------------------------------------------------------------
(* The client asks for what needs a stopped target with no request open,   *)
(* and its request is handled before it is told anything else.             *)

GoesOnFrom == {"continue"} \union Stepping
Needy      == GoesOnFrom \union {"inspect", "setBreakpoints"}

NeedyFirst == \A i \in DOMAIN messages : messages[i] \in Needy => i = 1

NeedyTold ==
    turn = "consume" =>
        /\ Head(messages) \in Needy => view \in {"none", "stopped"}
        /\ Head(messages) = "launch" => launch = "none"

(* A configuration that is done has still to start the target. *)
ConfPending ==
    \E i \in DOMAIN messages :
        messages[i] = "configurationDone" /\ (i # 1 \/ turn # "loop" \/ Following = {"start"})

(* Going on presupposes that the target was started. *)
ConfLast ==
    messages # <<>> /\ Head(messages) \in GoesOnFrom =>
        view # "none" /\ \A i \in DOMAIN messages : messages[i] # "configurationDone"

ClientInv == NeedyFirst /\ NeedyTold /\ ConfLast

-----------------------------------------------------------------------------
(* The runs nobody waits for, and their order. *)

RunWaits == {"wait"} \X RunCalls
Starts   == {"go"} \X ({"start"} \union Continues)

(* setBreakpoints finds the target stopped, and never resumes it. *)
NoResumes ==
    /\ Pipe \intersect (({"go", "wait"} \X Resumes) \union {<<"hop", "bpPause">>}) = {}
    /\ interrupting # "bpPause"
    /\ ~setBps.paused

(* A run ends before the next begins, before a pause of it is answered and *)
(* before the session ends.                                                *)
WaitsFirst == InOrder(RunWaits, Starts \union {<<"hop", "pause">>, <<"end", "stop">>})
OneWait    == OneOf("wait", RunCalls)

StepEventAlone == "stepEvent" \in Following => Pipe \intersect RunWaits = {}

NotYet ==
    view = "none" \/ ConfPending => view \in {"none", "stopped"} /\ Pipe \intersect RunWaits = {}

ViewRuns == view = "running" => crashed \/ Pipe \intersect RunWaits # {}

OrderInv == NoResumes /\ WaitsFirst /\ OneWait /\ StepEventAlone /\ NotYet /\ ViewRuns

-----------------------------------------------------------------------------
(* The target and what is on its way. *)

(* A target that is not at a break is one the client was told runs. *)
RunsAreTold ==
    Live /\ HasSession /\ status # "break" /\ Pipe \intersect RunWaits # {} =>
        ReplyInFlight \/ (view \in {"running", "exited"} /\ "pauseEvent" \notin Following)

RunningKnown == Live /\ Running => ReplyInFlight \/ crashed \/ \E k \in Pipe : k[1] = "wait"

(* The end of a run that is still to be taken up is true of the target. *)
EndedStill ==
    Live =>
        \A i \in DOMAIN replies : replies[i].op = "wait" =>
            /\ replies[i].call = "step" => replies[i].res # "error"
            /\ replies[i].res \notin {"error", "exited"} => status = "break" \/ ReplyInFlight
            /\ replies[i].res = "exited" => ~Running \/ ReplyInFlight

(* Frames are read, and the target resumed, at a break. *)
StillInv ==
    Live =>
        /\ \A k \in Pipe : k[1] = "frame" => status = "break"
        /\ \A i \in DOMAIN tasks : tasks[i].op \in ResumeOps => status = "break"

RunsInv == RunsAreTold /\ RunningKnown /\ EndedStill /\ StillInv

-----------------------------------------------------------------------------
(* The end of the process, of the session, and their beginning. *)

ExitReplied == \E i \in DOMAIN replies : replies[i].op = "wait" /\ replies[i].res = "exited"
ExitWritten == \E i \in DOMAIN writes : writes[i].then = "stepEvent" /\ writes[i].ending = "exited"
ExitKnown   == view = "exited" \/ ExitReplied \/ ExitWritten

GoneKnown == status = "noDebuggee" => ExitKnown
ExitTrue  == ExitKnown => process # "alive"

BreakingAlive ==
    dbgThread.at = "breaking" => process = "alive" /\ (dbgThread.call = "step" => ~exitInterrupt)

ThreadSound == dbgThread.at \in {"idle", "wait", "breaking"}

EndedQuiet ==
    ~Live =>
        /\ session = "destroyed" /\ tasks = <<>> /\ dbgThread.at = "idle"
        /\ launch = "ended" \/ turn = "loop"

Begun ==
    launch \in {"none", "creating"} =>
        /\ Live /\ status = "break" /\ dbgThread.at = "idle"
        /\ tasks = <<>> /\ replies = <<>> /\ interrupting = NoCall /\ turn # "setBps"

ExitInv == GoneKnown /\ ExitTrue /\ BreakingAlive /\ ThreadSound /\ EndedQuiet /\ Begun

ViewInv == ClientInv /\ OrderInv /\ RunsInv /\ ExitInv

-----------------------------------------------------------------------------
(* What a step leaves of the queues, and what it adds to them. *)

LEMMA RepliesLeft ==
    ASSUME DriverTypeOK, replies # <<>>, replies' = Tail(replies)
    PROVE  /\ \A i \in DOMAIN replies' : \E j \in DOMAIN replies : replies'[i] = replies[j]
           /\ 1 \in DOMAIN replies /\ reply = replies[1]
           /\ ReplyInFlight => ReplyInFlight' \/ Resuming
           /\ ExitReplied' => ExitReplied
           /\ ExitReplied => ExitReplied' \/ (reply.op = "wait" /\ reply.res = "exited")
  <1>1. /\ \A i \in DOMAIN replies' : i + 1 \in DOMAIN replies /\ replies'[i] = replies[i + 1]
        /\ \A i \in DOMAIN replies : i # 1 => i - 1 \in DOMAIN replies' /\ replies'[i - 1] = replies[i]
        /\ 1 \in DOMAIN replies /\ Head(replies) = replies[1]
    BY DEF DriverTypeOK
  <1>2. ReplyInFlight => ReplyInFlight' \/ Resuming
    <2> SUFFICES ASSUME NEW i \in DOMAIN replies, ResumedReply(i), ~Resuming PROVE ReplyInFlight'
      BY DEF ReplyInFlight
    <2>1. i # 1
      BY <1>1 DEF Resuming, ResumedReply
    <2>2. PICK j \in DOMAIN replies' : replies'[j] = replies[i]
      BY <1>1, <2>1
    <2> QED
      BY <2>2 DEF ReplyInFlight, ResumedReply
  <1>3. ExitReplied' => ExitReplied
    BY <1>1 DEF ExitReplied
  <1>4. ExitReplied => ExitReplied' \/ (reply.op = "wait" /\ reply.res = "exited")
    BY <1>1 DEF ExitReplied, reply
  <1> QED
    BY <1>1, <1>2, <1>3, <1>4 DEF reply

LEMMA RepliesGrow ==
    ASSUME DriverTypeOK, NEW op, NEW call, NEW res, NEW bp, Answer(op, call, res, bp)
    PROVE  /\ \A i \in DOMAIN replies' :
                 \/ \E j \in DOMAIN replies : replies'[i] = replies[j]
                 \/ replies'[i].op = op /\ replies'[i].call = call /\ replies'[i].res = res
           /\ ReplyInFlight \/ (op \in ResumeOps /\ res = "ok") => ReplyInFlight'
           /\ ExitReplied' <=> ExitReplied \/ (op = "wait" /\ res = "exited")
  <1> DEFINE n == Len(replies) + 1
             x == [op |-> op, call |-> call, res |-> res, bp |-> bp]
  <1>1. /\ DOMAIN replies' = DOMAIN replies \union {n}
        /\ \A i \in DOMAIN replies : replies'[i] = replies[i]
        /\ replies'[n] = x
    BY DEF Answer, DriverTypeOK
  <1>2. x.op = op /\ x.res = res /\ x.call = call
    OBVIOUS
  <1> HIDE DEF n, x
  <1> QED
    BY <1>1, <1>2 DEF ReplyInFlight, ResumedReply, ExitReplied

LEMMA TasksGrow ==
    ASSUME DriverTypeOK, NEW op, NEW call, NEW bp, Post(op, call, bp)
    PROVE  \A i \in DOMAIN tasks' : tasks'[i].op = op \/ \E j \in DOMAIN tasks : tasks'[i] = tasks[j]
  <1>1. /\ DOMAIN tasks' = DOMAIN tasks \union {Len(tasks) + 1}
        /\ \A i \in DOMAIN tasks : tasks'[i] = tasks[i]
        /\ tasks'[Len(tasks) + 1].op = op
    BY DEF Post, DriverTypeOK
  <1> QED
    BY <1>1

LEMMA TasksLeft ==
    ASSUME DriverTypeOK, tasks # <<>>, tasks' = Tail(tasks)
    PROVE  /\ \A i \in DOMAIN tasks' : \E j \in DOMAIN tasks : tasks'[i] = tasks[j]
           /\ 1 \in DOMAIN tasks /\ Head(tasks) = tasks[1]
  <1>1. \A i \in DOMAIN tasks' : i + 1 \in DOMAIN tasks /\ tasks'[i] = tasks[i + 1]
    BY DEF DriverTypeOK
  <1> QED
    BY <1>1 DEF DriverTypeOK

LEMMA WritesGrow ==
    ASSUME DapInv, NEW then \in Continuations, NEW ending \in Endings, NEW s,
           s = writes \/ (writes # <<>> /\ s = Tail(writes)),
           writes' = s \o Write(then, ending)
    PROVE  /\ ExitWritten' => ExitWritten \/ (then = "stepEvent" /\ ending = "exited")
           /\ then = "stepEvent" /\ ending = "exited" => ExitWritten'
           /\ s = writes => (ExitWritten => ExitWritten') /\ Following' = Following \union ({then} \ {"none"})
           /\ s # writes => Following' = Follow(s) \union ({then} \ {"none"})
  <1> DEFINE x == [then |-> then, ending |-> ending]
  <1>0. writes \in Seq(Writes)
    BY InvParts
  <1>1. /\ s \in Seq(Writes) /\ writes \in Seq(Writes)
        /\ \A i \in DOMAIN s : \E j \in DOMAIN writes : s[i] = writes[j]
    <2>1. CASE s = writes
      BY <1>0, <2>1
    <2>2. CASE writes # <<>> /\ s = Tail(writes)
      <3>1. \A i \in DOMAIN s : i + 1 \in DOMAIN writes /\ s[i] = writes[i + 1]
        BY <1>0, <2>2
      <3> QED
        BY <1>0, <2>2, <3>1
    <2> QED
      BY <2>1, <2>2
  <1>2. x.then = then /\ x.ending = ending
    OBVIOUS
  <1>4. /\ DOMAIN writes' = DOMAIN s \union {Len(s) + 1}
        /\ \A i \in DOMAIN s : writes'[i] = s[i]
        /\ writes'[Len(s) + 1] = x
    BY <1>1 DEF Write, Writes
  <1> HIDE DEF x
  <1>5. Follow(writes') = Follow(s) \union ({then} \ {"none"})
    <2>1. /\ writes' \in Seq(Writes)
          /\ Follow(writes') = Follow(s) \union ({then} \ {"none"})
          /\ OneFollows(s) /\ (then = "none" \/ Follow(s) = {}) => OneFollows(writes')
      BY <1>1, FollowAppend
    <2> QED
      BY <2>1
  <1> QED
    BY <1>1, <1>2, <1>4, <1>5 DEF ExitWritten, Following

LEMMA WritesLeft ==
    ASSUME DapInv, writes # <<>>, writes' = Tail(writes)
    PROVE  /\ ExitWritten' => ExitWritten
           /\ ExitWritten => ExitWritten' \/ (Head(writes).then = "stepEvent" /\ Ending = "exited")
  <1>1. /\ \A i \in DOMAIN writes' : i + 1 \in DOMAIN writes /\ writes'[i] = writes[i + 1]
        /\ \A i \in DOMAIN writes : i # 1 => i - 1 \in DOMAIN writes' /\ writes'[i - 1] = writes[i]
        /\ Head(writes) = writes[1]
    BY InvParts
  <1> QED
    BY <1>1 DEF ExitWritten, Ending

LEMMA ExitFollows == ExitWritten => "stepEvent" \in Following
  BY DEF ExitWritten, Following, Follow

(* What is nobody's call is a run, and its reply is in the queue. *)
LEMMA RunKinds ==
    ASSUME DapInv, NoResumes, NEW k \in Pipe, k \notin Busy PROVE k \in RunWaits
  BY DEF Busy, Unawaited, NoResumes, RunWaits

LEMMA RepliesInPipe ==
    ASSUME DapInv, NEW i \in DOMAIN replies, replies[i].op # "thread"
    PROVE  KindOf(replies[i]) \in Pipe
  BY DEF Pipe, AllKinds, Kinds, KindOf, ThreadKind

LEMMA NoReplyInFlight ==
    ASSUME DapInv, NoResumes, \A k \in Busy : k[1] \notin ResumeOps PROVE ~ReplyInFlight
  <1> SUFFICES ASSUME NEW i \in DOMAIN replies, ResumedReply(i) PROVE FALSE
    BY DEF ReplyInFlight
  <1>1. "thread" \notin ResumeOps /\ "wait" \notin ResumeOps
    BY DEF ResumeOps, StepOps
  <1>2. KindOf(replies[i]) \in Pipe /\ KindOf(replies[i])[1] \in ResumeOps
    BY <1>1, RepliesInPipe DEF ResumedReply, KindOf
  <1>3. KindOf(replies[i]) \in RunWaits
    BY <1>2, RunKinds
  <1> QED
    BY <1>1, <1>2, <1>3 DEF RunWaits

(* The client believes that the target is stopped, and nothing is asked of *)
(* the driver: the target is stopped.                                      *)
LEMMA Calm ==
    ASSUME DapInv, ViewInv, Live, HasSession, ~crashed, Busy = {}, "stepEvent" \notin Following,
           view \in {"none", "stopped"}
    PROVE  status = "break" /\ ~ReplyInFlight
  <1>1. NoResumes /\ RunsAreTold /\ RunningKnown /\ GoneKnown /\ ViewRuns /\ DriverTypeOK
    BY InvParts DEF ViewInv, OrderInv, RunsInv, ExitInv
  <1>2. ~ReplyInFlight
    BY <1>1, NoReplyInFlight
  <1>3. Pipe \subseteq RunWaits
    BY <1>1, RunKinds
  <1>4. status # "break" => Pipe \intersect RunWaits = {}
    BY <1>1, <1>2 DEF RunsAreTold
  <1>5. ~ExitWritten
    BY ExitFollows
  <1>6. ASSUME status # "break" PROVE FALSE
    <2>1. Pipe = {}
      BY <1>3, <1>4, <1>6
    <2>2. ~Running
      BY <1>1, <1>2, <2>1 DEF RunningKnown
    <2>3. status = "noDebuggee"
      BY <1>1, <1>6, <2>2 DEF DriverTypeOK, Running
    <2>4. ExitReplied
      BY <1>1, <1>5, <2>3 DEF GoneKnown, ExitKnown
    <2>5. PICK i \in DOMAIN replies : replies[i].op = "wait"
      BY <2>4 DEF ExitReplied
    <2>6. KindOf(replies[i]) \in Pipe
      BY <2>5, RepliesInPipe
    <2> QED
      BY <2>1, <2>6
  <1> QED
    BY <1>2, <1>6

-----------------------------------------------------------------------------
(* The callback thread passes the end of the process on, from the reply of *)
(* the run to the client, and invents none.                                *)

LEMMA ExitPassed ==
    ASSUME DapInv, CallbackThread PROVE ExitKnown' <=> ExitKnown
  <1> DEFINE SameReply == ExitReplied' <=> ExitReplied
             SameWrite == ExitWritten' <=> ExitWritten
             SameView  == view' = "exited" <=> view = "exited"
  <1>1. DriverTypeOK /\ ThreadKind = <<"thread", NoCall>> /\ "stepEvent" \in Continuations
    BY InvParts DEF ThreadKind, Continuations
  <1>2. ASSUME SameReply, SameWrite, SameView PROVE ExitKnown' <=> ExitKnown
    BY <1>2 DEF ExitKnown
  <1>3. view' = view \/ Tell("running") \/ Tell("stopped") => SameView
    BY DEF Tell
  <1>4. UNCHANGED replies \/ (\E call : GetThreads(call)) => SameReply
    BY <1>1, RepliesGrow DEF ExitReplied, GetThreads
  <1>5. ASSUME replies # <<>>, replies' = Tail(replies), reply.op # "wait" \/ reply.res # "exited"
        PROVE  SameReply
    BY <1>1, <1>5, RepliesLeft
  <1>6. UNCHANGED writes => SameWrite
    BY DEF ExitWritten
  <1>7. ASSUME NEW then \in Continuations, NEW ending \in Endings, writes' = writes \o Write(then, ending)
        PROVE  ExitWritten' <=> ExitWritten \/ (then = "stepEvent" /\ ending = "exited")
    BY <1>7, WritesGrow
  <1>8. ASSUME writes # <<>>, writes' = Tail(writes), Head(writes).then # "stepEvent" PROVE SameWrite
    BY <1>8, WritesLeft
  <1> HIDE DEF SameReply, SameWrite, SameView
  <1>9. /\ \A then, ending : Respond(then, ending) => writes' = writes \o Write(then, ending)
        /\ RespondGo => writes' = writes \o Write("resolve", "paused")
    BY DEF Respond, RespondGo
  <1>10. {"resolve", "initialized", "start", "pauseEvent", "close", "none", "stepEvent"} \subseteq Continuations
         /\ {"paused", "error", "exited"} \subseteq Endings
    BY DEF Continuations, Endings, StopReasons
  <1>11. ASSUME NEW then \in {"resolve", "initialized", "start", "pauseEvent", "close", "none"},
                NEW ending \in {"paused", "error"},
                writes' = writes \o Write(then, ending)
         PROVE  SameWrite
    BY <1>7, <1>10, <1>11 DEF SameWrite
  <1>12. CASE Handle
    <2>1. view' = view /\ (UNCHANGED replies \/ \E call : GetThreads(call))
      BY <1>12, PausesLive
         DEF Handle, Unknown, AnswerAtOnce, WithoutSession, OnContinue, OnInspect, OnDisconnect,
           OnThreads, OnStep, OnLaunch, OnPause, PauseAtOnce, PauseIssued, PauseRefused, SetBpsNext, Request,
           PauseBegin, PauseEnd, PauseFails, driverVars, clientVars
    <2>2. \/ UNCHANGED writes
          \/ \E then \in {"resolve", "initialized", "start", "pauseEvent", "close", "none"},
                ending \in {"paused", "error"} : writes' = writes \o Write(then, ending)
      BY <1>9, <1>12 DEF Handle, Unknown, AnswerAtOnce, WithoutSession, OnContinue, OnInspect, OnDisconnect,
           OnThreads, OnStep, OnLaunch, OnPause, PauseAtOnce, PauseIssued, PauseRefused, SetBpsNext, Request,
           Await, dapVars
    <2> QED
      BY <1>2, <1>3, <1>4, <1>6, <1>11, <2>1, <2>2
  <1>13. CASE Receive \/ Launched
    BY <1>2, <1>3, <1>4, <1>6, <1>9, <1>11, <1>13 DEF Receive, Launched, driverVars
  <1>14. CASE NothingFollows \/ ResolveFollows \/ StartFollows \/ CloseFollows
    <2>1. UNCHANGED <<replies, view>> /\ writes # <<>> /\ writes' = Tail(writes) /\ Head(writes).then # "stepEvent"
      BY <1>14 DEF NothingFollows, ResolveFollows, StartFollows, CloseFollows, WriteDone, driverVars, clientVars
    <2> QED
      BY <1>2, <1>3, <1>4, <1>8, <2>1
  <1>15. CASE EventFollows
    <2>1. UNCHANGED replies /\ writes # <<>> /\ writes' = Tail(writes) \o Write("resolve", "paused")
      BY <1>15 DEF EventFollows, WriteDone, driverVars
    <2>2. /\ ExitWritten' => ExitWritten
          /\ Follow(Tail(writes)) = {} => ~ExitWritten'
      <3>1. ASSUME NEW then \in Continuations, NEW ending \in Endings, then # "stepEvent",
                   writes' = Tail(writes) \o Write(then, ending)
            PROVE  (ExitWritten' => ExitWritten) /\ Following' = Follow(Tail(writes)) \union ({then} \ {"none"})
        <4>1. Tail(writes) # writes
          <5>1. writes \in Seq(Writes) /\ Len(Tail(writes)) = Len(writes) - 1 /\ Len(writes) \in Nat
            BY <2>1, InvParts
          <5> QED
            BY <5>1
        <4> QED
          BY <2>1, <3>1, <4>1, WritesGrow
      <3>2. ExitWritten' => "stepEvent" \in Following'
        BY DEF ExitWritten, Following, Follow
      <3>3. "resolve" \in Continuations /\ "paused" \in Endings
        BY <1>10
      <3>4. /\ ExitWritten' => ExitWritten
            /\ Following' = Follow(Tail(writes)) \union ({"resolve"} \ {"none"})
        BY <2>1, <3>1, <3>3
      <3> QED
        BY <3>2, <3>4
    <2>3. ASSUME NEW then \in Continuations \ {"none"}, WriteDone(then)
          PROVE  Following = {then} /\ ~ExitWritten'
      BY <2>2, <2>3, Completed
    <2>4. CASE WriteDone("initialized") /\ UNCHANGED view
      BY <1>2, <1>3, <1>4, <1>10, <2>1, <2>3, <2>4, ExitFollows DEF SameWrite
    <2>5. CASE WriteDone("pauseEvent") /\ Tell("stopped")
      BY <1>2, <1>3, <1>4, <1>10, <2>1, <2>3, <2>5, ExitFollows DEF SameWrite
    <2>6. CASE WriteDone("stepEvent") /\ Tell(ViewOf(Ending))
      <3>1. ~ExitWritten' /\ writes # <<>> /\ Head(writes).then = "stepEvent"
            /\ Following = {"stepEvent"}
        BY <1>10, <2>3, <2>6 DEF WriteDone
      <3>2. ExitWritten <=> Ending = "exited"
        <4>1. writes \in Seq(Writes) /\ OneFollows(writes) /\ 1 \in DOMAIN writes /\ Head(writes) = writes[1]
          BY <3>1, InvParts
        <4>2. \A i \in DOMAIN writes : writes[i].then = "stepEvent" => i = 1
          BY <3>1, <4>1 DEF OneFollows
        <4> QED
          BY <3>1, <4>1, <4>2 DEF ExitWritten, Ending
      <3>3. view' = "exited" <=> view = "exited" \/ Ending = "exited"
        BY <2>6 DEF Tell, ViewOf
      <3>4. ExitReplied' <=> ExitReplied
        BY <1>4, <2>1 DEF SameReply
      <3> QED
        BY <3>1, <3>2, <3>3, <3>4 DEF ExitKnown
    <2> QED
      BY <1>15, <2>4, <2>5, <2>6 DEF EventFollows
  <1>16. CASE RunEnded
    <2>1. /\ replies # <<>> /\ replies' = Tail(replies) /\ reply.op = "wait"
          /\ IF BreakReason(reply) = "error" THEN UNCHANGED <<writes, view>>
             ELSE writes' = writes \o Write("none", "paused") /\ Tell(ViewOf(reply.res))
      BY <1>16 DEF RunEnded, Deliver
    <2>2. SameWrite
      BY <1>6, <1>11, <2>1
    <2>3. CASE reply.res # "exited"
      <3>1. SameView
        BY <1>3, <2>1, <2>3 DEF ViewOf
      <3> QED
        BY <1>2, <1>5, <2>1, <2>2, <2>3, <3>1
    <2>4. CASE reply.res = "exited"
      <3>1. view' = "exited"
        BY <2>1, <2>4 DEF BreakReason, Tell, ViewOf
      <3>2. ExitReplied
        BY <1>1, <2>1, <2>4, RepliesLeft DEF ExitReplied
      <3> QED
        BY <3>1, <3>2 DEF ExitKnown
    <2> QED
      BY <2>3, <2>4
  <1>17. ASSUME NEW ending \in Endings, StepDone(ending)
         PROVE  ExitWritten' <=> ExitWritten \/ ending = "exited"
    BY <1>6, <1>7, <1>9, <1>10, <1>17 DEF StepDone, SameWrite
  <1>18. CASE StepReplied
    <2>1. /\ replies # <<>> /\ replies' = Tail(replies) /\ SameView
      BY <1>3, <1>18 DEF StepReplied, Deliver
    <2>2. CASE reply.op \in StepOps \/ reply.res # "exited"
      <3>1. "wait" \notin StepOps
        BY DEF StepOps
      <3>2. SameReply
        BY <1>5, <2>1, <2>2, <3>1
      <3>3. SameWrite
        <4>1. UNCHANGED writes \/ StepDone("error") \/ (StepDone(BreakReason(reply)) /\ reply.op = "wait")
          BY <1>18 DEF StepReplied, Await
        <4>2. reply.op = "wait" => BreakReason(reply) \in Endings
          <5>1. 1 \in DOMAIN replies /\ reply = replies[1]
            BY <1>1, <2>1, RepliesLeft
          <5> QED
            BY <1>10, <5>1 DEF BreakReason, DapInv, DriverPart, ReplyInv
        <4>3. reply.op = "wait" => BreakReason(reply) # "exited"
          BY <2>2, <3>1 DEF BreakReason
        <4> QED
          BY <1>6, <1>10, <1>17, <4>1, <4>2, <4>3 DEF SameWrite
      <3> QED
        BY <1>2, <2>1, <3>2, <3>3
    <2>3. CASE reply.op = "wait" /\ reply.res = "exited"
      <3>1. StepDone("exited")
        BY <1>18, <2>3 DEF StepReplied, BreakReason, StepOps
      <3>2. ExitWritten'
        BY <1>10, <1>17, <3>1
      <3>3. ExitReplied
        BY <1>1, <2>1, <2>3, RepliesLeft DEF ExitReplied
      <3> QED
        BY <3>2, <3>3 DEF ExitKnown
    <2> QED
      BY <1>18, <2>2, <2>3 DEF StepReplied
  <1>19. CASE HandleReply /\ ~RunEnded /\ ~StepReplied
    <2>1. replies # <<>> /\ replies' = Tail(replies)
      BY <1>19 DEF HandleReply, GoReplied, BpResumeReplied, ThreadNotified, StepFrameReplied,
           StepTopReplied, PauseReplied, BpPauseReplied, BpRemoved, BpCreated, InspectedFrame, PassedOn, Deliver
    <2>2. SameView
      BY <1>3, <1>19 DEF HandleReply, GoReplied, BpResumeReplied, ThreadNotified, StepFrameReplied,
           StepTopReplied, PauseReplied, BpPauseReplied, BpRemoved, BpCreated, InspectedFrame, PassedOn, clientVars
    <2>3. SameWrite
      <3>1. \/ UNCHANGED writes
            \/ \E then \in {"resolve", "pauseEvent", "close", "none"}, ending \in {"paused", "error"} :
                  writes' = writes \o Write(then, ending)
            \/ StepDone("error") \/ StepDone("paused")
        BY <1>9, <1>19 DEF HandleReply, GoReplied, BpResumeReplied, ThreadNotified, StepFrameReplied,
             StepTopReplied, PauseReplied, BpPauseReplied, BpRemoved, BpCreated, InspectedFrame, PassedOn, Await
      <3> QED
        BY <1>6, <1>10, <1>11, <1>17, <3>1 DEF SameWrite
    <2>4. reply.op # "wait"
      <3>1. ASSUME NEW call \in {"stepFrame", "stepTop", "pause", "bpPause", "bpRemove", "bpCreate",
                                 "inspect", "threads", "stop"}, Deliver(call)
            PROVE  reply.op # "wait"
        <4>1. call \in DapCalls \ RunCalls
          BY DEF DapCalls, RunCalls, Continues, Resumes
        <4>2. Awaits(Head(messages), <<reply.op, call>>)
          BY <3>1, <4>1, ReplyTo
        <4> QED
          BY <4>2 DEF Awaits, Continues
      <3>2. ASSUME Deliver(NoCall) PROVE reply.op # "wait"
        <4>1. reply \in Reply /\ reply.call = NoCall
          BY <1>1, <3>2 DEF Deliver, reply, DriverTypeOK
        <4> QED
          BY <4>1, CallsAssumption DEF Reply
      <3> QED
        BY <1>19, <3>1, <3>2 DEF HandleReply, GoReplied, BpResumeReplied, ThreadNotified, StepFrameReplied,
           StepTopReplied, PauseReplied, BpPauseReplied, BpRemoved, BpCreated, InspectedFrame, PassedOn
    <2> QED
      BY <1>2, <1>5, <2>1, <2>2, <2>3, <2>4
  <1> QED
    BY <1>12, <1>13, <1>14, <1>15, <1>16, <1>18, <1>19 DEF CallbackThread, HandleReply, HandleWrite

-----------------------------------------------------------------------------
(* A step takes a message up, or is done with one, or leaves them alone.   *)

LeavesMessages ==
    /\ UNCHANGED messages
    /\ turn' \in {turn, "loop"} \/ (turn' = "setBps" /\ Head(messages) = "setBreakpoints")
    /\ turn' = "consume" => UNCHANGED <<view, launch>>
    /\ turn = "loop" => Following' \subseteq Following \union (Continuations \ {"start"})

LEMMA MessageSteps ==
    ASSUME DapInv, [Next]_vars
    PROVE  /\ Receive \/ (messages # <<>> /\ Resolve) \/ LeavesMessages
           /\ ViewKept
  <1>1. HandlerTypeOK /\ (turn # "loop" => messages # <<>>) /\ writes \in Seq(Writes)
    BY InvParts DEF DapInv
  <1>2. ASSUME NEW v \in {"running", "stopped", "exited"}, Tell(v) PROVE ViewKept
    BY <1>1, <1>2, TellKeeps DEF ViewKept
  <1>3. UNCHANGED view => ViewKept
    BY DEF ViewKept
  <1>4. {"resolve", "initialized", "start", "pauseEvent", "close", "none", "stepEvent"} \subseteq Continuations
        /\ {"paused", "error", "exited"} \subseteq Endings
    BY DEF Continuations, Endings, StopReasons
  <1>5. ASSUME UNCHANGED messages, turn' = "loop", writes' = writes PROVE LeavesMessages
    BY <1>5 DEF LeavesMessages, Following
  <1>6. ASSUME NEW then \in Continuations, NEW ending \in Endings, writes' = writes \o Write(then, ending)
        PROVE  Following' = Following \union ({then} \ {"none"})
    BY <1>6, WritesGrow
  <1>7. ASSUME NEW then \in Continuations, NEW ending \in Endings, Respond(then, ending),
               turn # "loop" \/ then # "start"
        PROVE  LeavesMessages
    BY <1>6, <1>7 DEF Respond, LeavesMessages
  <1>8. ASSUME Await PROVE LeavesMessages
    BY <1>5, <1>8 DEF Await
  <1>21. ASSUME RespondGo, turn = "loop" PROVE LeavesMessages
    <2>1. writes' = writes \o Write("resolve", "paused")
      BY <1>21 DEF RespondGo
    <2>2. Following' = Following \union ({"resolve"} \ {"none"})
      BY <1>4, <1>6, <2>1
    <2> QED
      BY <1>4, <1>21, <2>2 DEF RespondGo, LeavesMessages
  <1> DEFINE Done1 == (messages # <<>> /\ Resolve) \/ LeavesMessages
  <1>9. CASE Handle
    <2>1. view' = view
      BY <1>9 DEF Handle, Unknown, AnswerAtOnce, WithoutSession, OnContinue, OnInspect, OnDisconnect,
           OnThreads, OnStep, OnLaunch, OnPause, PauseAtOnce, PauseIssued, PauseRefused, SetBpsNext, Request,
           clientVars
    <2>2. CASE PauseIssued
      <3>1. UNCHANGED <<messages, turn, view, launch, writes>>
        BY <2>2 DEF PauseIssued, dapVars, clientVars
      <3> QED
        BY <1>3, <3>1 DEF LeavesMessages, Following
    <2>3. CASE ~PauseIssued
      <3>1. \/ turn # "loop" /\ Resolve
            \/ Await
            \/ \E then \in Continuations, ending \in Endings :
                  Respond(then, ending) /\ (turn # "loop" \/ then # "start")
            \/ /\ turn = "consume" /\ turn' = "setBps" /\ Head(messages) = "setBreakpoints"
               /\ UNCHANGED <<messages, writes>>
        BY <1>4, <1>9, <2>3 DEF Handle, Unknown, AnswerAtOnce, WithoutSession, OnContinue, OnInspect, OnDisconnect,
           OnThreads, OnStep, OnLaunch, OnPause, PauseAtOnce, PauseRefused, SetBpsNext, Request, Consume
      <3> QED
        BY <1>1, <1>3, <1>7, <1>8, <2>1, <3>1 DEF LeavesMessages
    <2> QED
      BY <1>3, <2>1, <2>2, <2>3
  <1>10. CASE Receive
    BY <1>3, <1>10 DEF Receive
  <1>11. CASE Launched
    <2>1. messages # <<>> /\ turn = "loop"
      BY <1>11 DEF DapInv, MessagePart, Control, Idle, Launched, Loop
    <2> QED
      BY <1>3, <1>4, <1>7, <1>11, <2>1 DEF Launched
  <1>12. ASSUME NEW then \in Continuations \ {"none"}, WriteDone(then) PROVE messages # <<>>
    BY <1>12, Completed
  <1>13. CASE ResolveFollows \/ CloseFollows \/ (StartFollows /\ ~HasSession)
    BY <1>3, <1>4, <1>12, <1>13 DEF ResolveFollows, CloseFollows, StartFollows
  <1>14. CASE StartFollows /\ HasSession
    <2>1. writes # <<>> /\ writes' = Tail(writes) /\ UNCHANGED <<messages, turn, view, launch>>
          /\ Following = {"start"} /\ Follow(Tail(writes)) = {}
      BY <1>4, <1>14, Completed DEF StartFollows, WriteDone
    <2> QED
      BY <1>3, <2>1 DEF LeavesMessages, Following
  <1>15. CASE NothingFollows
    <2>1. writes' = Tail(writes) /\ UNCHANGED <<messages, turn, view, launch>>
          /\ Follow(Tail(writes)) = Following
      BY <1>4, <1>15, Completed DEF NothingFollows, clientVars
    <2> QED
      BY <1>3, <2>1 DEF LeavesMessages, Following
  <1>16. CASE EventFollows
    <2>1. PICK then \in Continuations \ {"none"} : WriteDone(then)
      BY <1>4, <1>16 DEF EventFollows
    <2>2. /\ turn = "loop" /\ writes # <<>> /\ Follow(Tail(writes)) = {}
          /\ writes' = Tail(writes) \o Write("resolve", "paused")
          /\ UNCHANGED <<messages, turn, launch>>
      BY <1>16, <2>1, Completed DEF EventFollows, WriteDone
    <2>3. Tail(writes) # writes
      <3>1. Len(Tail(writes)) = Len(writes) - 1 /\ Len(writes) \in Nat
        BY <1>1, <2>2
      <3> QED
        BY <3>1
    <2>4. Following' = Follow(Tail(writes)) \union ({"resolve"} \ {"none"})
      <3>1. "resolve" \in Continuations /\ "paused" \in Endings
        BY <1>4
      <3> QED
        BY <2>2, <2>3, <3>1, WritesGrow
    <2>5. LeavesMessages
      BY <1>4, <2>2, <2>4 DEF LeavesMessages
    <2>6. ViewKept
      BY <1>2, <1>3, <1>16, ViewIs DEF EventFollows
    <2> QED
      BY <2>5, <2>6
  <1>17. CASE HandleReply
    <2>1. turn = "loop"
      BY <1>17 DEF HandleReply, GoReplied, BpResumeReplied, RunEnded, ThreadNotified, StepFrameReplied, StepReplied,
           StepTopReplied, PauseReplied, BpPauseReplied, BpRemoved, BpCreated, InspectedFrame, PassedOn,
           Deliver, Loop
    <2>2. ViewKept
      BY <1>2, <1>3, <1>17, ViewIs
         DEF HandleReply, GoReplied, BpResumeReplied, RunEnded, ThreadNotified, StepFrameReplied, StepReplied,
           StepTopReplied, PauseReplied, BpPauseReplied, BpRemoved, BpCreated, InspectedFrame, PassedOn, clientVars
    <2>3. messages # <<>> \/ BpResumeReplied \/ RunEnded \/ ThreadNotified
      <3>1. ASSUME NEW call \in DapCalls, Deliver(call), call \notin RunCalls \/ (reply.op = "go" /\ call \notin Resumes)
            PROVE  messages # <<>>
        <4>1. <<reply.op, call>> \notin Unawaited
          BY <3>1 DEF Unawaited, RunCalls
        <4> QED
          BY <3>1, <4>1, Delivered
      <3>2. {"stepFrame", "step", "stepTop", "pause", "bpPause", "bpRemove", "bpCreate",
             "inspect", "threads", "stop"} \intersect RunCalls = {}
        BY DEF RunCalls, Continues, Resumes
      <3>3. /\ {"stepFrame", "step", "stepTop", "pause", "bpPause", "bpRemove", "bpCreate",
                "inspect", "threads", "stop"} \subseteq DapCalls
            /\ {"start"} \union Continues \subseteq DapCalls
            /\ ({"start"} \union Continues) \intersect Resumes = {}
        BY DEF DapCalls, RunCalls, Continues, Resumes
      <3> QED
        BY <1>17, <3>1, <3>2, <3>3
           DEF HandleReply, GoReplied, StepFrameReplied, StepReplied,
           StepTopReplied, PauseReplied, BpPauseReplied, BpRemoved, BpCreated, InspectedFrame, PassedOn
    <2>4. CASE BpResumeReplied \/ RunEnded \/ ThreadNotified
      <3>1. UNCHANGED <<messages, turn, launch>>
            /\ (UNCHANGED writes \/ writes' = writes \o Write("none", "paused"))
        BY <2>4 DEF BpResumeReplied, RunEnded, ThreadNotified, clientVars
      <3>2. Following' \subseteq Following
        <4>1. "none" \in Continuations /\ "paused" \in Endings
          BY <1>4
        <4>2. writes' = writes \o Write("none", "paused") => Following' = Following \union ({"none"} \ {"none"})
          BY <1>6, <4>1
        <4> QED
          BY <3>1, <4>2 DEF Following
      <3> QED
        BY <2>1, <2>2, <3>1, <3>2 DEF LeavesMessages
    <2>5. CASE BpPauseReplied \/ BpRemoved \/ BpCreated
      <3>1. UNCHANGED <<messages, writes>> /\ turn' = "setBps"
            /\ \E call \in {"bpPause", "bpRemove", "bpCreate"} : Deliver(call)
        BY <2>5 DEF BpPauseReplied, BpRemoved, BpCreated
      <3>2. PICK call \in {"bpPause", "bpRemove", "bpCreate"} : Deliver(call)
        BY <3>1
      <3>3. call \in DapCalls \ RunCalls
        BY DEF DapCalls, RunCalls, Continues, Resumes
      <3>4. Awaits(Head(messages), <<reply.op, call>>)
        BY <3>2, <3>3, ReplyTo
      <3>5. Head(messages) = "setBreakpoints"
        BY <3>4 DEF Awaits, Continues
      <3> QED
        BY <2>2, <3>1, <3>5 DEF LeavesMessages, Following
    <2>6. ASSUME messages # <<>>, GoReplied \/ StepFrameReplied \/ StepReplied \/ StepTopReplied \/ PauseReplied
                 \/ InspectedFrame \/ PassedOn
          PROVE  Done1
      <3>1. \/ Resolve \/ Await
            \/ \E then \in Continuations \ {"start"}, ending \in Endings : Respond(then, ending)
            \/ \E ending \in Endings : StepDone(ending)
            \/ RespondGo
        <4>1. StepReplied /\ reply.op = "wait" => BreakReason(reply) \in Endings
          <5>1. ASSUME StepReplied, reply.op = "wait" PROVE 1 \in DOMAIN replies /\ reply = replies[1]
            BY <5>1, InvParts DEF StepReplied, Deliver, reply, DriverTypeOK
          <5> QED
            BY <1>4, <5>1 DEF BreakReason, DapInv, DriverPart, ReplyInv
        <4> QED
          BY <1>4, <2>6, <4>1 DEF GoReplied, StepFrameReplied, StepReplied, StepTopReplied, PauseReplied,
               InspectedFrame, PassedOn
      <3>3. turn = "loop"
        BY <2>6 DEF GoReplied, StepFrameReplied, StepReplied, StepTopReplied, PauseReplied, InspectedFrame,
             PassedOn, Deliver, Loop
      <3>2. ASSUME NEW ending \in Endings, StepDone(ending) PROVE Done1
        BY <1>4, <1>7, <2>6, <3>2 DEF StepDone
      <3> QED
        BY <1>7, <1>8, <1>21, <2>6, <3>1, <3>2, <3>3
    <2> QED
      BY <1>17, <2>2, <2>3, <2>4, <2>5, <2>6 DEF HandleReply
  <1>18. CASE Driver \/ UNCHANGED vars
    BY <1>3, <1>18 DEF Driver, vars, dapVars, clientVars, LeavesMessages, Following
  <1> QED
    BY <1>9, <1>10, <1>11, <1>13, <1>14, <1>15, <1>16, <1>17, <1>18 DEF Next, CallbackThread, HandleWrite

LEMMA ClientStep ==
    ASSUME Orderly, DapInv, ClientInv, [Next]_vars
    PROVE  ClientInv' /\ (ConfPending' => ConfPending \/ view = "none")
  <1>1. NeedyFirst /\ NeedyTold /\ ConfLast /\ messages \in Seq(Commands) /\ ViewKept
    BY InvParts, MessageSteps DEF ClientInv
  <1>2. "setBreakpoints" # "configurationDone" /\ "launch" \notin Needy /\ GoesOnFrom \subseteq Needy
        /\ "configurationDone" \notin GoesOnFrom
    BY DEF Needy, GoesOnFrom, Stepping
  <1>3. CASE Receive
    <2>1. PICK command \in Commands : MayRequest(command) /\ messages' = Append(messages, command)
      BY <1>3 DEF Receive
    <2>2. /\ turn = "loop" /\ UNCHANGED <<writes, launch, view>>
          /\ turn' = IF messages = <<>> THEN "consume" ELSE "loop"
      BY <1>3 DEF Receive, Loop
    <2> DEFINE n == Len(messages) + 1
    <2>3. /\ DOMAIN messages' = DOMAIN messages \union {n}
          /\ \A i \in DOMAIN messages : messages'[i] = messages[i]
          /\ messages'[n] = command
          /\ messages = <<>> => n = 1 /\ Head(messages') = command /\ DOMAIN messages = {}
          /\ messages # <<>> => Head(messages') = Head(messages)
      BY <1>1, <2>1
    <2> HIDE DEF n
    <2>4. command \in Needy => view \in {"none", "stopped"} /\ messages = <<>>
      BY <2>1 DEF MayRequest, Needy, GoesOnFrom, Stepping, Orderly
    <2>5. command \in GoesOnFrom => view = "stopped"
      BY <2>1 DEF MayRequest, GoesOnFrom, Stepping
    <2>6. command = "launch" => launch = "none"
      BY <2>1 DEF MayRequest
    <2>7. command = "configurationDone" => view = "none"
      BY <2>1 DEF MayRequest
    <2>8. NeedyFirst'
      BY <1>1, <2>3, <2>4 DEF NeedyFirst
    <2>9. NeedyTold'
      BY <2>2, <2>3, <2>4, <2>6 DEF NeedyTold
    <2>10. ConfLast'
      BY <1>1, <1>2, <2>2, <2>3, <2>4, <2>5, <2>7 DEF ConfLast
    <2>11. ConfPending' => ConfPending \/ view = "none"
      <3>1. Following' = Following
        BY <2>2 DEF Following
      <3> QED
        BY <2>2, <2>3, <2>7, <3>1 DEF ConfPending
    <2> QED
      BY <2>8, <2>9, <2>10, <2>11 DEF ClientInv
  <1>4. CASE messages # <<>> /\ Resolve
    <2>1. /\ \A i \in DOMAIN messages' : i + 1 \in DOMAIN messages /\ i + 1 # 1 /\ messages'[i] = messages[i + 1]
          /\ turn' = "consume" => messages' # <<>>
          /\ messages' # <<>> => 1 \in DOMAIN messages' /\ Head(messages') = messages'[1]
      BY <1>1, <1>4, MessagesTail DEF Resolve
    <2>2. \A i \in DOMAIN messages' : messages'[i] \notin Needy /\ messages'[i] # "launch"
      BY <1>1, <2>1 DEF NeedyFirst, DapInv, MessagePart, LaunchInv
    <2>3. NeedyFirst' /\ NeedyTold' /\ ConfLast'
      BY <1>2, <2>1, <2>2 DEF NeedyFirst, NeedyTold, ConfLast
    <2>4. ConfPending' => ConfPending
      BY <2>1 DEF ConfPending
    <2> QED
      BY <2>3, <2>4 DEF ClientInv
  <1>5. CASE LeavesMessages
    <2>1. /\ UNCHANGED messages
          /\ turn' \in {turn, "loop"} \/ (turn' = "setBps" /\ Head(messages) = "setBreakpoints")
          /\ turn' = "consume" => UNCHANGED <<view, launch>>
          /\ turn = "loop" => Following' \subseteq Following \union (Continuations \ {"start"})
      BY <1>5 DEF LeavesMessages
    <2>2. NeedyFirst' /\ NeedyTold' /\ ConfLast'
      BY <1>1, <2>1 DEF NeedyFirst, NeedyTold, ConfLast, ViewKept
    <2>3. ASSUME ConfPending' PROVE ConfPending
      <3>1. PICK i \in DOMAIN messages : /\ messages[i] = "configurationDone"
                                         /\ i # 1 \/ turn' # "loop" \/ Following' = {"start"}
        BY <2>1, <2>3 DEF ConfPending
      <3>2. CASE i # 1 \/ turn # "loop"
        BY <3>1, <3>2 DEF ConfPending
      <3>3. CASE i = 1 /\ turn = "loop"
        <4>1. Head(messages) = "configurationDone" /\ messages # <<>>
          BY <1>1, <3>1, <3>3
        <4>2. "start" \in Following
          BY <1>2, <2>1, <3>1, <3>3, <4>1
        <4>3. Following = {"start"}
          BY <3>3, <4>1, <4>2 DEF DapInv, MessagePart, Control, OnDriver, OnWrite, OnCreation
        <4> QED
          BY <3>1, <4>3 DEF ConfPending
      <3> QED
        BY <3>2, <3>3
    <2> QED
      BY <2>2, <2>3 DEF ClientInv
  <1> QED
    BY <1>3, <1>4, <1>5, MessageSteps

-----------------------------------------------------------------------------
(* Most steps of the callback thread leave the runs nobody waits for, and  *)
(* what the client was told, as they are.                                  *)

AsideTasks ==
    \/ UNCHANGED tasks
    \/ \E op, call, bp :
          /\ Post(op, call, bp)
          /\ op # "wait" /\ <<op, call>> \notin ({"go"} \X Resumes) \union {<<"hop", "bpPause">>}
          /\ op \in ResumeOps \union {"frame"} => status = "break"

TakesAside ==
    /\ Taking /\ UNCHANGED interrupting
    /\ ReplyKind \notin RunWaits /\ ~Resuming
    /\ reply.op = "wait" => ~Running

AsideReplies ==
    \/ UNCHANGED replies
    \/ \E call \in Calls : GetThreads(call)
    \/ TakesAside

AsideEvents ==
    /\ "pauseEvent" \in Following' =>
          \/ "pauseEvent" \in Following \/ status = "break" \/ launch # "created"
          \/ Taking /\ ReplyKind = <<"hop", "pause">>
    /\ "stepEvent" \in Following' =>
          "stepEvent" \in Following \/ (Taking /\ UNCHANGED tasks /\ Pipe = {ReplyKind})

Aside ==
    /\ UNCHANGED <<dbgThread, status, process, session, view, crashed>>
    /\ HasSession' => HasSession \/ status = "break"
    /\ AsideTasks /\ AsideReplies /\ AsideEvents

(* What a step does to the events of the client. *)
LEMMA EventsAside ==
    ASSUME DapInv,
           \/ UNCHANGED writes
           \/ \E then, ending : then \in {"resolve", "initialized", "start", "close", "none"}
                                /\ ending \in {"paused", "error"} /\ writes' = writes \o Write(then, ending)
           \/ writes # <<>> /\ writes' = Tail(writes)
    PROVE  AsideEvents
  <1>1. CASE UNCHANGED writes
    BY <1>1 DEF AsideEvents, Following
  <1>2. ASSUME NEW then \in {"resolve", "initialized", "start", "close", "none"},
               NEW ending \in {"paused", "error"}, writes' = writes \o Write(then, ending)
        PROVE  AsideEvents
    <2>1. then \in Continuations /\ ending \in Endings
      BY DEF Continuations, Endings, StopReasons
    <2>2. Following' = Following \union ({then} \ {"none"})
      BY <1>2, <2>1, WritesGrow
    <2> QED
      BY <2>2 DEF AsideEvents
  <1>3. CASE writes # <<>> /\ writes' = Tail(writes)
    <2>1. Following' \subseteq Following
      <3>1. \A i \in DOMAIN writes' : i + 1 \in DOMAIN writes /\ writes'[i] = writes[i + 1]
        BY <1>3, InvParts
      <3> QED
        BY <3>1 DEF Following, Follow
    <2> QED
      BY <2>1 DEF AsideEvents
  <1> QED
    BY <1>1, <1>2, <1>3

LEMMA Considered ==
    ASSUME DapInv, NEW command, Consume(command)
    PROVE  /\ messages # <<>> /\ Head(messages) = command /\ command \in Commands
           /\ Busy = {} /\ Following = {} /\ ~crashed
           /\ HasSession /\ command # "disconnect" => Live
  <1>1. turn # "loop" /\ Head(messages) = command /\ ~crashed
    BY DEF Consume
  <1>2. messages # <<>> /\ Busy = {} /\ Following = {} /\ command \in Commands
    BY <1>1, InvParts DEF Idle
  <1>3. HasSession /\ command # "disconnect" => Live
    BY <1>1, Destroyed DEF HasSession, Live
  <1> QED
    BY <1>1, <1>2, <1>3

LEMMA StoppedToConsider ==
    ASSUME DapInv, ViewInv, NEW command \in Needy, Consume(command), HasSession
    PROVE  status = "break"
  <1>1. "disconnect" \notin Needy
    BY DEF Needy, GoesOnFrom, Stepping
  <1>2. Busy = {} /\ Following = {} /\ ~crashed /\ Live
    BY <1>1, Considered
  <1>3. view \in {"none", "stopped"}
    BY DEF Consume, ViewInv, ClientInv, NeedyTold
  <1> QED
    BY <1>2, <1>3, Calm

LEMMA AsideHandle ==
    ASSUME Orderly, DapInv, ViewInv, Handle PROVE Aside
  <1>1. \A then, ending : Respond(then, ending) => writes' = writes \o Write(then, ending)
    BY DEF Respond
  <1> DEFINE Quietly == UNCHANGED writes
                        \/ \E then \in {"resolve", "initialized", "start", "close", "none"},
                              ending \in {"paused", "error"} : writes' = writes \o Write(then, ending)
  <1>2. Quietly => AsideEvents
    BY EventsAside
  <1>3. ASSUME launch # "created" \/ status = "break", NEW ending \in {"paused", "error"},
               Respond("pauseEvent", ending)
        PROVE  AsideEvents
    <2>1. "pauseEvent" \in Continuations /\ ending \in Endings
      BY DEF Continuations, Endings, StopReasons
    <2>2. Following' = Following \union ({"pauseEvent"} \ {"none"})
      BY <1>1, <1>3, <2>1, WritesGrow
    <2> QED
      BY <1>3, <2>2 DEF AsideEvents
  <1>4. ASSUME UNCHANGED <<driverVars, view, crashed>>, HasSession' => HasSession, AsideEvents PROVE Aside
    BY <1>4 DEF Aside, AsideTasks, AsideReplies, driverVars
  <1>5. ASSUME UNCHANGED <<replies, dbgThread, status, process, session, launch, view, crashed, writes>>, AsideTasks
        PROVE  Aside
    BY <1>2, <1>5 DEF Aside, AsideReplies, HasSession
  <1>6. ASSUME NEW op, NEW call, NEW bp, Post(op, call, bp), op # "wait",
               <<op, call>> \notin ({"go"} \X Resumes) \union {<<"hop", "bpPause">>},
               op \in ResumeOps \union {"frame"} => status = "break"
        PROVE  AsideTasks
    BY <1>6 DEF AsideTasks
  <1>7. ASSUME NEW command, NEW op, NEW call, Request(command, op, call), op # "wait",
               <<op, call>> \notin ({"go"} \X Resumes) \union {<<"hop", "bpPause">>},
               op \in ResumeOps \union {"frame"} => status = "break"
        PROVE  Aside
    BY <1>5, <1>6, <1>7 DEF Request, Await, engineVars
  <1>8. CASE Unknown \/ AnswerAtOnce \/ OnLaunch
    <2>1. Quietly
      BY <1>1, <1>8 DEF Unknown, AnswerAtOnce, OnLaunch, Resolve, Await
    <2> QED
      BY <1>2, <1>4, <1>8, <2>1 DEF Unknown, AnswerAtOnce, OnLaunch, HasSession
  <1>9. CASE WithoutSession
    <2>1. Quietly \/ Respond("pauseEvent", "error")
      BY <1>1, <1>9 DEF WithoutSession
    <2> QED
      BY <1>2, <1>3, <1>4, <1>9, <2>1 DEF WithoutSession, HasSession
  <1>10. CASE OnContinue
    <2>1. Consume("continue") /\ HasSession /\ "continue" \in Needy
      BY <1>10 DEF OnContinue, Request, Needy, GoesOnFrom
    <2>2. status = "break" /\ Fresh(Continues) \in Continues
      BY <2>1, StoppedToConsider, Considered, FreshContinue
    <2>3. <<"go", Fresh(Continues)>> \notin ({"go"} \X Resumes) \union {<<"hop", "bpPause">>}
      BY <2>2 DEF Continues, Resumes
    <2> QED
      BY <1>7, <1>10, <2>2, <2>3 DEF OnContinue
  <1>11. CASE OnInspect
    <2>1. ASSUME NEW op \in {"query", "frame"}, Request("inspect", op, "inspect") PROVE Aside
      <3>1. status = "break"
        BY <2>1, StoppedToConsider DEF Request, Needy
      <3> QED
        BY <1>7, <2>1, <3>1
    <2>2. CASE Respond("resolve", "paused") /\ UNCHANGED <<driverVars, launch, crashed, view>>
      BY <1>1, <1>2, <1>4, <2>2 DEF HasSession
    <2> QED
      BY <1>11, <2>1, <2>2 DEF OnInspect
  <1>12. CASE OnDisconnect
    BY <1>7, <1>12 DEF OnDisconnect, ResumeOps, StepOps
  <1>13. CASE OnThreads
    <2>1. "threads" \in Calls
      BY CommandsAssumption DEF DapCalls
    <2>2. Quietly /\ GetThreads("threads") /\ UNCHANGED <<launch, view, crashed>>
      BY <1>13 DEF OnThreads, Await
    <2> QED
      BY <1>2, <2>1, <2>2 DEF Aside, AsideTasks, AsideReplies, HasSession, GetThreads, engineVars
  <1>14. CASE OnStep
    <2>1. PICK command \in Stepping : Consume(command) /\ HasSession
      BY <1>14 DEF OnStep, Stepping
    <2>2. status = "break"
      BY <2>1, StoppedToConsider DEF Needy, GoesOnFrom
    <2>3. AsideTasks
      BY <1>6, <1>14, <2>2 DEF OnStep, StepBegin
    <2> QED
      BY <1>5, <1>14, <2>3 DEF OnStep, Await, engineVars
  <1>15. CASE OnPause
    BY <1>5, <1>15, PausesLive DEF OnPause, PauseBegin, Await, engineVars, AsideTasks
  <1>16. CASE PauseAtOnce
    <2>1. status = "break"
      BY <1>16, PausesLive
    <2>2. Quietly \/ Respond("pauseEvent", "paused")
      BY <1>1, <1>16 DEF PauseAtOnce
    <2> QED
      BY <1>2, <1>3, <1>4, <1>16, <2>1, <2>2, PausesLive DEF PauseAtOnce, HasSession
  <1>17. CASE PauseIssued
    <2>1. interrupting # "bpPause"
      BY DEF ViewInv, OrderInv, NoResumes
    <2>2. AsideTasks
      BY <1>6, <1>17, <2>1 DEF PauseIssued, PauseEnd, ResumeOps, StepOps
    <2> QED
      BY <1>5, <1>17, <2>2, PausesLive DEF PauseIssued, PauseEnd, dapVars, clientVars
  <1>18. CASE PauseRefused
    BY <1>18, PausesLive DEF Orderly
  <1>19. CASE SetBpsNext
    <2>1. ~setBps.paused
      BY DEF ViewInv, OrderInv, NoResumes
    <2>2. Quietly
      BY <1>1, <1>19 DEF SetBpsNext, Await
    <2>3. AsideTasks
      <3>1. UNCHANGED tasks \/ \E op \in {"remove", "create"} : \E call, bp : Post(op, call, bp)
        BY <1>19, <2>1 DEF SetBpsNext
      <3> QED
        BY <1>6, <3>1 DEF AsideTasks, ResumeOps, StepOps
    <2> QED
      BY <1>2, <1>19, <2>2, <2>3 DEF SetBpsNext, Aside, AsideReplies, HasSession, engineVars
  <1> QED
    BY <1>8, <1>9, <1>10, <1>11, <1>12, <1>13, <1>14, <1>15, <1>16, <1>17, <1>18, <1>19 DEF Handle

(* The client is told of the target when a write is complete. *)
Telling ==
    \/ WriteDone("pauseEvent") /\ Tell("stopped")
    \/ WriteDone("stepEvent") /\ Tell(ViewOf(Ending))

LEMMA AsideOthers ==
    ASSUME DapInv, ViewInv, Receive \/ Launched \/ HandleWrite
    PROVE  Aside \/ (EventFollows /\ Telling)
  <1>1. \A then, ending : Respond(then, ending) => writes' = writes \o Write(then, ending)
    BY DEF Respond
  <1>2. ASSUME UNCHANGED <<driverVars, view, crashed>>, HasSession' => HasSession \/ status = "break", AsideEvents
        PROVE  Aside
    BY <1>2 DEF Aside, AsideTasks, AsideReplies, driverVars
  <1>3. CASE Receive
    BY <1>2, <1>3, EventsAside DEF Receive, HasSession
  <1>4. CASE Launched
    <2>1. status = "break"
      BY <1>4 DEF Launched, ViewInv, ExitInv, Begun
    <2>2. AsideEvents
      BY <1>1, <1>4, EventsAside DEF Launched
    <2> QED
      BY <1>2, <1>4, <2>1, <2>2 DEF Launched
  <1>5. CASE NothingFollows \/ ResolveFollows \/ CloseFollows \/ (StartFollows /\ ~HasSession)
    <2>1. AsideEvents
      BY <1>5, EventsAside DEF NothingFollows, ResolveFollows, CloseFollows, StartFollows, WriteDone
    <2>2. UNCHANGED <<driverVars, view, crashed>> /\ (HasSession' => HasSession)
      BY <1>5 DEF NothingFollows, ResolveFollows, CloseFollows, StartFollows, HasSession, clientVars, driverVars, engineVars
    <2> QED
      BY <1>2, <2>1, <2>2
  <1>6. CASE StartFollows /\ HasSession
    <2>1. "start" \in Continuations
      BY DEF Continuations
    <2>2. /\ Busy = {} /\ messages # <<>> /\ Following = {"start"} /\ turn = "loop" /\ ~crashed
          /\ Head(messages) = "configurationDone"
      BY <1>6, <2>1, Completed DEF StartFollows, WriteDone, Loop, CanFollow
    <2>3. ConfPending
      BY <2>2, InvParts DEF ConfPending
    <2>4. view \in {"none", "stopped"}
      BY <2>3 DEF ViewInv, OrderInv, NotYet
    <2>5. Live
      BY <1>6, <2>2, Destroyed DEF Live, HasSession
    <2>6. status = "break"
      BY <1>6, <2>2, <2>4, <2>5, Calm
    <2>7. AsideEvents
      BY <1>6, EventsAside DEF StartFollows, WriteDone
    <2>8. AsideTasks
      <3>1. <<"go", "start">> \notin ({"go"} \X Resumes) \union {<<"hop", "bpPause">>}
        BY DEF Resumes
      <3> QED
        BY <1>6, <2>6, <3>1 DEF StartFollows, AsideTasks
    <2> QED
      BY <1>6, <2>7, <2>8 DEF StartFollows, Aside, AsideReplies, HasSession, engineVars
  <1>7. CASE EventFollows /\ ~Telling
    <2>1. WriteDone("initialized") /\ UNCHANGED view
      BY <1>7 DEF EventFollows, Telling
    <2>2. "initialized" \in Continuations /\ "resolve" \in Continuations /\ "paused" \in Endings
      BY DEF Continuations, Endings, StopReasons
    <2>3. Follow(Tail(writes)) = {} /\ writes # <<>> /\ writes \in Seq(Writes)
      BY <2>1, <2>2, Completed, InvParts DEF WriteDone
    <2>4. Tail(writes) # writes
      <3>1. Len(Tail(writes)) = Len(writes) - 1 /\ Len(writes) \in Nat
        BY <2>3
      <3> QED
        BY <3>1
    <2>5. Following' = Follow(Tail(writes)) \union ({"resolve"} \ {"none"})
      BY <1>7, <2>2, <2>3, <2>4, WritesGrow DEF EventFollows
    <2>6. AsideEvents
      BY <2>3, <2>5 DEF AsideEvents
    <2> QED
      BY <1>2, <1>7, <2>1, <2>6 DEF EventFollows, HasSession
  <1> QED
    BY <1>3, <1>4, <1>5, <1>6, <1>7 DEF HandleWrite

(* The target goes on, a step goes on, and a run ends. *)
GoesOnNow   == GoReplied /\ Ok
StepGoesOn  == StepReplied /\ reply.op \in StepOps /\ Ok

LEMMA ReplyOf ==
    ASSUME DapInv, NEW call \in DapCalls \ RunCalls, Deliver(call)
    PROVE  /\ Taking /\ reply.call = call /\ ReplyKind = <<reply.op, call>> /\ ReplyKind \in Pipe
           /\ Busy = {ReplyKind} /\ messages # <<>> /\ Following = {} /\ ~crashed
           /\ Awaits(Head(messages), <<reply.op, call>>)
           /\ ReplyKind \notin RunWaits
           /\ Head(messages) # "disconnect" => Live
  <1>1. <<reply.op, call>> \notin Unawaited
    BY DEF Unawaited, RunCalls
  <1>2. /\ Taking /\ reply.call = call /\ ReplyKind = <<reply.op, call>> /\ ReplyKind \in Pipe
        /\ Busy = {ReplyKind} /\ messages # <<>> /\ Following = {} /\ launch # "ended"
        /\ Awaits(Head(messages), <<reply.op, call>>)
    BY <1>1, Delivered
  <1>3. Head(messages) # "disconnect" => Live
    BY <1>2, Destroyed DEF Live
  <1> QED
    BY <1>1, <1>2, <1>3 DEF Unawaited, RunWaits, Deliver, Loop

LEMMA AsideReply ==
    ASSUME Orderly, DapInv, CacheInv, ViewInv, HandleReply
    PROVE  Aside \/ GoesOnNow \/ StepGoesOn \/ RunEnded
  <1> DEFINE Handlers == {"stepFrame", "step", "stepTop", "pause", "bpPause", "bpRemove", "bpCreate",
                          "inspect", "threads", "stop"}
  <1>1. Handlers \subseteq DapCalls \ RunCalls
    BY DEF DapCalls, RunCalls, Continues, Resumes
  <1>2. /\ Pipe \intersect (({"go", "wait"} \X Resumes) \union {<<"hop", "bpPause">>}) = {}
        /\ StillInv /\ EndedStill /\ NoResumes
    BY DEF ViewInv, OrderInv, NoResumes, RunsInv
  <1>3. ASSUME NEW call \in Handlers, Deliver(call)
        PROVE  /\ Taking /\ reply.call = call /\ ReplyKind = <<reply.op, call>> /\ ReplyKind \in Pipe
               /\ Busy = {ReplyKind} /\ messages # <<>> /\ Following = {} /\ ~crashed
               /\ Awaits(Head(messages), <<reply.op, call>>)
               /\ ReplyKind \notin RunWaits
               /\ Head(messages) # "disconnect" => Live
    BY <1>1, <1>3, ReplyOf
  <1>4. ASSUME Taking, ReplyKind \notin RunWaits, ~Resuming, reply.op = "wait" => ~Running,
               DriverAsIs, UNCHANGED <<launch, view, crashed>>, AsideTasks, AsideEvents
        PROVE  Aside
    BY <1>4 DEF Aside, AsideReplies, TakesAside, DriverAsIs, HasSession, engineVars
  <1>5. \A then, ending : Respond(then, ending) => writes' = writes \o Write(then, ending)
    BY DEF Respond
  <1> DEFINE Quietly == UNCHANGED writes
                        \/ \E then \in {"resolve", "initialized", "start", "close", "none"},
                              ending \in {"paused", "error"} : writes' = writes \o Write(then, ending)
  <1>6. Quietly => AsideEvents
    BY EventsAside
  <1>7. UNCHANGED tasks => AsideTasks
    BY DEF AsideTasks
  <1>8. StepDone("error") => Quietly
    BY DEF StepDone
  <1> HIDE DEF Handlers, Quietly
  <1>9. ASSUME NEW ending \in Endings, StepDone(ending), Taking, UNCHANGED tasks, Pipe = {ReplyKind}
        PROVE  AsideEvents
    <2>1. CASE ending = "error"
      BY <1>6, <1>8, <1>9, <2>1
    <2>2. CASE ending # "error"
      <3>1. "stepEvent" \in Continuations
        BY DEF Continuations
      <3>2. Following' = Following \union ({"stepEvent"} \ {"none"})
        BY <1>5, <1>9, <2>2, <3>1, WritesGrow DEF StepDone
      <3> QED
        BY <1>9, <3>2 DEF AsideEvents
    <2> QED
      BY <2>1, <2>2
  <1>10. ASSUME NEW op, op # "wait", op # "go", op # "hop", NEW call, NEW bp, Post(op, call, bp),
                op \in ResumeOps \union {"frame"} => status = "break"
         PROVE  AsideTasks
    BY <1>10 DEF AsideTasks
  <1>11. stepType # "wait" /\ stepType # "go" /\ stepType # "hop" /\ stepType \in StepOps
    BY DEF DapInv, HandlerTypeOK, SessionTypeOK, StepOps
  <1>12. CASE GoReplied /\ ~Ok
    <2>1. PICK call \in {"start"} \union Continues : Deliver(call)
      BY <1>12 DEF GoReplied
    <2>2. call \in DapCalls
      BY DEF DapCalls, RunCalls
    <2>3. Taking /\ ReplyKind = <<reply.op, call>>
      BY <2>1, <2>2, Delivered
    <2>4. reply.op = "go" /\ DriverAsIs /\ UNCHANGED <<launch, view, crashed, tasks>> /\ Quietly
      BY <1>5, <1>12 DEF GoReplied, Quietly
    <2>5. ~Resuming /\ ReplyKind \notin RunWaits
      BY <1>12, <2>3, <2>4 DEF Resuming, Ok, reply, RunWaits
    <2> QED
      BY <1>4, <1>6, <1>7, <2>3, <2>4, <2>5
  <1>13. CASE BpResumeReplied
    <2>1. PICK call \in Resumes : Deliver(call)
      BY <1>13 DEF BpResumeReplied
    <2>2. call \in DapCalls
      BY DEF DapCalls, RunCalls
    <2>3. ReplyKind = <<"go", call>> /\ ReplyKind \in Pipe
      BY <1>13, <2>1, <2>2, Delivered DEF BpResumeReplied
    <2> QED
      BY <1>2, <2>1, <2>3
  <1>14. CASE ThreadNotified
    <2>1. Taking /\ reply \in Reply /\ reply.call = NoCall
      BY <1>14, InvParts DEF ThreadNotified, Deliver, Loop, Taking, reply, DriverTypeOK
    <2>2. reply.op = "thread"
      BY <2>1, CallsAssumption DEF Reply
    <2>3. ~Resuming /\ ReplyKind \notin RunWaits
      BY <2>2 DEF Resuming, reply, ResumeOps, StepOps, ReplyKind, KindOf, RunWaits
    <2> QED
      BY <1>4, <1>6, <1>7, <1>14, <2>1, <2>2, <2>3 DEF ThreadNotified, Quietly, clientVars
  <1>15. CASE StepFrameReplied
    <2>1. Deliver("stepFrame") /\ DriverAsIs /\ UNCHANGED <<launch, view, crashed>> /\ "stepFrame" \in Handlers
      BY <1>15 DEF StepFrameReplied, Handlers
    <2>2. Taking /\ ReplyKind = <<reply.op, "stepFrame">> /\ ReplyKind \in Pipe /\ ReplyKind \notin RunWaits
          /\ Awaits(Head(messages), <<reply.op, "stepFrame">>) /\ (Head(messages) # "disconnect" => Live)
      BY <1>3, <2>1
    <2>3. reply.op = "frame" /\ Head(messages) # "disconnect"
      BY <2>2 DEF Awaits, Continues, Stepping
    <2>4. status = "break"
      BY <1>2, <2>2, <2>3 DEF StillInv
    <2>5. ~Resuming
      BY <2>3 DEF Resuming, reply, ResumeOps, StepOps
    <2>6. Quietly /\ AsideTasks
      <3>1. CASE StepFromBase /\ Await
        BY <1>10, <1>11, <2>4, <3>1 DEF StepFromBase, Await, Quietly
      <3>2. CASE StepDone("error") /\ UNCHANGED tasks
        BY <1>7, <1>8, <3>2
      <3> QED
        BY <1>15, <3>1, <3>2 DEF StepFrameReplied
    <2> QED
      BY <1>4, <1>6, <2>1, <2>2, <2>3, <2>5, <2>6
  <1>16. CASE StepReplied /\ ~StepGoesOn
    <2>1. Deliver("step") /\ DriverAsIs /\ UNCHANGED <<launch, view, crashed>> /\ "step" \in Handlers
      BY <1>16 DEF StepReplied, Handlers
    <2>2. Taking /\ ReplyKind = <<reply.op, "step">> /\ ReplyKind \in Pipe /\ ReplyKind \notin RunWaits
          /\ reply.call = "step" /\ Busy = {ReplyKind}
          /\ Awaits(Head(messages), <<reply.op, "step">>) /\ (Head(messages) # "disconnect" => Live)
      BY <1>3, <2>1
    <2>3. Head(messages) # "disconnect"
      BY <2>2 DEF Awaits, Continues, Stepping
    <2>4. CASE reply.op \in StepOps /\ ~Ok
      <3>1. StepDone("error") /\ UNCHANGED tasks /\ ~Resuming /\ reply.op # "wait"
        BY <1>16, <2>4 DEF StepReplied, StepOps, Resuming, Ok, reply
      <3> QED
        BY <1>4, <1>6, <1>7, <1>8, <2>1, <2>2, <3>1
    <2>5. CASE reply.op = "wait"
      <3>1. Pipe = {ReplyKind}
        BY <2>2, <2>5 DEF CacheInv, LoopAlone, LoopKinds
      <3>2. ~Resuming /\ "wait" \notin ResumeOps /\ "wait" \notin StepOps
        BY <2>5 DEF Resuming, reply, ResumeOps, StepOps
      <3>3. ~ReplyInFlight
        BY <1>2, <2>2, <2>5, <3>2, NoReplyInFlight
      <3>4. 1 \in DOMAIN replies /\ reply = replies[1]
        BY <2>2, InvParts, RepliesLeft DEF Taking
      <3>5. /\ reply.res # "error"
            /\ reply.res # "exited" => status = "break"
            /\ ~Running
        BY <1>2, <2>2, <2>3, <2>5, <3>3, <3>4 DEF EndedStill, Running
      <3>6. CASE reply.res = "paused"
        <4>1. StepPaused /\ Await
          BY <1>16, <2>5, <3>2, <3>6 DEF StepReplied
        <4>2. AsideTasks
          BY <1>10, <3>5, <3>6, <4>1 DEF StepPaused
        <4> QED
          BY <1>4, <1>6, <2>1, <2>2, <3>2, <3>5, <4>1, <4>2 DEF Await, Quietly
      <3>7. CASE reply.res # "paused"
        <4>1. StepDone(BreakReason(reply)) /\ UNCHANGED tasks
          BY <1>16, <2>5, <3>2, <3>7 DEF StepReplied
        <4>2. BreakReason(reply) \in Endings
          <5>1. "error" \in Endings /\ reply.res \in Endings
            BY <2>5, <3>4 DEF DapInv, DriverPart, ReplyInv, Endings
          <5> QED
            BY <5>1 DEF BreakReason
        <4>3. AsideEvents
          BY <1>9, <2>2, <3>1, <4>1, <4>2
        <4> QED
          BY <1>4, <1>7, <2>1, <2>2, <3>2, <3>5, <4>1, <4>3
      <3> QED
        BY <3>6, <3>7
    <2> QED
      BY <1>16, <2>4, <2>5 DEF StepReplied, StepGoesOn
  <1>17. CASE StepTopReplied
    <2>1. Deliver("stepTop") /\ DriverAsIs /\ UNCHANGED <<launch, view, crashed>> /\ "stepTop" \in Handlers
      BY <1>17 DEF StepTopReplied, Handlers
    <2>2. Taking /\ ReplyKind = <<reply.op, "stepTop">> /\ ReplyKind \in Pipe /\ ReplyKind \notin RunWaits
          /\ Awaits(Head(messages), <<reply.op, "stepTop">>) /\ (Head(messages) # "disconnect" => Live)
      BY <1>3, <2>1
    <2>3. reply.op = "frame" /\ Head(messages) # "disconnect"
      BY <2>2 DEF Awaits, Continues, Stepping
    <2>4. status = "break"
      BY <1>2, <2>2, <2>3 DEF StillInv
    <2>5. ~Resuming
      BY <2>3 DEF Resuming, reply, ResumeOps, StepOps
    <2>6. Pipe = {ReplyKind}
      BY <2>2, <2>3 DEF CacheInv, LoopAlone, LoopKinds
    <2>7. CASE StepAgain /\ Await
      <3>1. AsideTasks
        BY <1>10, <1>11, <2>4, <2>7 DEF StepAgain
      <3> QED
        BY <1>4, <1>6, <2>1, <2>2, <2>3, <2>5, <2>7, <3>1 DEF Await, Quietly
    <2>8. ASSUME NEW ending \in {"paused", "error"}, StepDone(ending), UNCHANGED tasks PROVE Aside
      <3>1. ending \in Endings
        BY DEF Endings, StopReasons
      <3>2. AsideEvents
        BY <1>9, <2>2, <2>6, <2>8, <3>1
      <3> QED
        BY <1>4, <1>7, <2>1, <2>2, <2>3, <2>5, <2>8, <3>2
    <2> QED
      BY <1>17, <2>7, <2>8 DEF StepTopReplied
  <1>18. CASE PauseReplied
    <2>1. Deliver("pause") /\ DriverAsIs /\ UNCHANGED <<launch, view, crashed, tasks>> /\ "pause" \in Handlers
      BY <1>18 DEF PauseReplied, Handlers
    <2>2. Taking /\ ReplyKind = <<reply.op, "pause">> /\ ReplyKind \notin RunWaits /\ Following = {}
          /\ Awaits(Head(messages), <<reply.op, "pause">>)
      BY <1>3, <2>1
    <2>3. reply.op = "hop"
      BY <2>2 DEF Awaits, Continues, Stepping
    <2>4. ~Resuming
      BY <2>3 DEF Resuming, reply, ResumeOps, StepOps
    <2>5. AsideEvents
      <3>1. "pauseEvent" \in Continuations /\ "paused" \in Endings
        BY DEF Continuations, Endings, StopReasons
      <3>2. Following' = Following \union ({"pauseEvent"} \ {"none"})
        BY <1>5, <1>18, <3>1, WritesGrow DEF PauseReplied
      <3> QED
        BY <2>2, <2>3, <3>2 DEF AsideEvents
    <2> QED
      BY <1>4, <1>7, <2>1, <2>2, <2>3, <2>4, <2>5
  <1>19. CASE BpPauseReplied
    <2>1. Deliver("bpPause") /\ "bpPause" \in Handlers
      BY <1>19 DEF BpPauseReplied, Handlers
    <2>2. ReplyKind = <<reply.op, "bpPause">> /\ ReplyKind \in Pipe /\ Awaits(Head(messages), <<reply.op, "bpPause">>)
      BY <1>3, <2>1
    <2>3. reply.op = "hop"
      BY <2>2 DEF Awaits, Continues
    <2> QED
      BY <1>2, <2>2, <2>3
  <1>20. CASE BpRemoved \/ BpCreated \/ PassedOn
    <2>1. PICK call \in {"bpRemove", "bpCreate", "inspect", "threads", "stop"} : Deliver(call)
      BY <1>20 DEF BpRemoved, BpCreated, PassedOn
    <2>2. DriverAsIs /\ UNCHANGED <<launch, view, crashed, tasks>> /\ Quietly
      BY <1>5, <1>20 DEF BpRemoved, BpCreated, PassedOn, Quietly, clientVars
    <2>3. call \in Handlers
      BY DEF Handlers
    <2>4. Taking /\ ReplyKind \notin RunWaits /\ Awaits(Head(messages), <<reply.op, call>>)
      BY <1>3, <2>1, <2>3
    <2>5. reply.op \in {"remove", "create", "query", "frame", "end"}
      BY <2>1, <2>4 DEF Awaits, Continues
    <2>6. ~Resuming
      BY <2>5 DEF Resuming, reply, ResumeOps, StepOps
    <2> QED
      BY <1>4, <1>6, <1>7, <2>2, <2>4, <2>5, <2>6
  <1>21. CASE InspectedFrame
    <2>1. Deliver("inspect") /\ DriverAsIs /\ UNCHANGED <<launch, view, crashed>> /\ "inspect" \in Handlers
          /\ reply.op = "frame" /\ Post("query", "inspect", NoBp) /\ Quietly
      BY <1>21 DEF InspectedFrame, Handlers, Await, Quietly
    <2>2. Taking /\ ReplyKind \notin RunWaits
      BY <1>3, <2>1
    <2>3. ~Resuming
      BY <2>1 DEF Resuming, reply, ResumeOps, StepOps
    <2>4. AsideTasks
      BY <1>10, <2>1 DEF ResumeOps, StepOps
    <2> QED
      BY <1>4, <1>6, <2>1, <2>2, <2>3, <2>4
  <1> QED
    BY <1>12, <1>13, <1>14, <1>15, <1>16, <1>17, <1>18, <1>19, <1>20, <1>21 DEF HandleReply, GoesOnNow

(* What such a step keeps of the queues. *)
Later == Starts \union {<<"hop", "pause">>, <<"end", "stop">>}

LEMMA KindsApart ==
    /\ RunWaits \intersect Later = {}
    /\ ThreadKind \notin RunWaits \union Later
    /\ \A k \in RunWaits : k[1] = "wait" /\ k = <<"wait", k[2]>>
  BY DEF RunWaits, Later, Starts, ThreadKind

NoResume == (({"go", "wait"} \X Resumes) \union {<<"hop", "bpPause">>})

LEMMA AsideQueues ==
    ASSUME DapInv, ViewInv, Aside
    PROVE  /\ Pipe' \intersect RunWaits = Pipe \intersect RunWaits
           /\ Pipe' \intersect NoResume = {}
           /\ WaitsFirst'
           /\ \A k \in Pipe : k[1] = "wait" => k \in Pipe' \/ ~Running
           /\ \A k \in Pipe' : k[1] = "frame" => k \in Pipe \/ status = "break"
           /\ ReplyInFlight => ReplyInFlight'
           /\ \A i \in DOMAIN replies' : replies'[i].op = "wait" => \E j \in DOMAIN replies : replies'[i] = replies[j]
           /\ \A i \in DOMAIN tasks' : tasks'[i].op \in ResumeOps =>
                 status = "break" \/ \E j \in DOMAIN tasks : tasks'[i] = tasks[j]
           /\ Taking /\ ReplyKind = <<"hop", "pause">> => Pipe' \intersect RunWaits = {}
           /\ Taking => TakesAside
  <1>1. /\ DriverTypeOK /\ DriverOnce /\ WaitsFirst /\ Pipe \intersect NoResume = {}
        /\ UNCHANGED <<dbgThread, status, process, session, view, crashed>>
        /\ AsideTasks /\ AsideReplies
    BY InvParts DEF Aside, ViewInv, OrderInv, NoResumes, NoResume
  <1>2. \A i \in DOMAIN tasks' : tasks'[i].op \in ResumeOps =>
           status = "break" \/ \E j \in DOMAIN tasks : tasks'[i] = tasks[j]
    <2>1. CASE UNCHANGED tasks
      BY <2>1
    <2>2. ASSUME NEW op, NEW call, NEW bp, Post(op, call, bp), op \in ResumeOps \union {"frame"} => status = "break"
          PROVE  \A i \in DOMAIN tasks' : tasks'[i].op \in ResumeOps =>
                    status = "break" \/ \E j \in DOMAIN tasks : tasks'[i] = tasks[j]
      BY <1>1, <2>2, TasksGrow
    <2> QED
      BY <1>1, <2>1, <2>2 DEF AsideTasks
  <1>3. replies \in Seq(Reply)
    BY <1>1 DEF DriverTypeOK
  <1>4. WaitsFirst <=> InOrder(RunWaits, Later)
    BY DEF WaitsFirst, Later
  <1>5. WaitsFirst' <=> InOrder(RunWaits, Later)'
    BY DEF WaitsFirst, Later
  <1>6. CASE UNCHANGED replies
    <2>1. ~Taking
      <3>1. replies # <<>> => Len(Tail(replies)) = Len(replies) - 1 /\ Len(replies) \in Nat
        BY <1>3
      <3> QED
        BY <1>6, <3>1 DEF Taking
    <2>2. ReplyInFlight => ReplyInFlight'
      BY <1>6, SameReplies
    <2>3. /\ Pipe' \intersect RunWaits = Pipe \intersect RunWaits
          /\ Pipe' \intersect NoResume = {}
          /\ WaitsFirst'
          /\ Pipe \subseteq Pipe'
          /\ \A k \in Pipe' : k[1] = "frame" => k \in Pipe \/ status = "break"
      <3>1. CASE UNCHANGED tasks
        <4>1. Pipe' = Pipe /\ WaitsFirst'
          BY <1>1, <1>6, <3>1 DEF Pipe, DebugKinds, WaitsFirst, InOrder
        <4> QED
          BY <1>1, <4>1
      <3>2. ASSUME NEW op, NEW call, NEW bp, Post(op, call, bp), op # "wait",
                   <<op, call>> \notin ({"go"} \X Resumes) \union {<<"hop", "bpPause">>},
                   op \in ResumeOps \union {"frame"} => status = "break"
            PROVE  /\ Pipe' \intersect RunWaits = Pipe \intersect RunWaits
                   /\ Pipe' \intersect NoResume = {}
                   /\ WaitsFirst'
                   /\ Pipe \subseteq Pipe'
                   /\ \A k \in Pipe' : k[1] = "frame" => k \in Pipe \/ status = "break"
        <4>1. Pipe' = Pipe \union {<<op, call>>}
          BY <1>1, <1>6, <3>2, PipePosted
        <4>2. <<op, call>> \notin RunWaits /\ <<op, call>> \notin NoResume
          BY <3>2 DEF RunWaits, NoResume
        <4>3. WaitsFirst'
          BY <1>1, <1>4, <1>5, <1>6, <3>2, <4>2, KindsApart, OrderPosted
        <4> QED
          BY <1>1, <3>2, <4>1, <4>2, <4>3
      <3> QED
        BY <1>1, <3>1, <3>2 DEF AsideTasks
    <2> QED
      BY <1>2, <1>6, <2>1, <2>2, <2>3
  <1>7. ASSUME NEW thread \in Calls, GetThreads(thread)
        PROVE  /\ Pipe' \intersect RunWaits = Pipe \intersect RunWaits
               /\ Pipe' \intersect NoResume = {}
               /\ WaitsFirst'
               /\ \A k \in Pipe : k[1] = "wait" => k \in Pipe' \/ ~Running
               /\ \A k \in Pipe' : k[1] = "frame" => k \in Pipe \/ status = "break"
               /\ ReplyInFlight => ReplyInFlight'
               /\ \A i \in DOMAIN replies' : replies'[i].op = "wait" =>
                     \E j \in DOMAIN replies : replies'[i] = replies[j]
               /\ ~Taking
    <2>1. Answer("query", thread, "ok", NoBp)
      BY <1>7 DEF GetThreads
    <2>2. /\ ReplyInFlight => ReplyInFlight'
          /\ \A i \in DOMAIN replies' : replies'[i].op = "wait" => \E j \in DOMAIN replies : replies'[i] = replies[j]
      BY <1>1, <2>1, RepliesGrow
    <2>3. ~Taking
      <3>1. Len(replies') = Len(replies) + 1 /\ Len(replies) \in Nat
        BY <1>3, <2>1 DEF Answer
      <3>2. replies # <<>> => Len(Tail(replies)) = Len(replies) - 1
        BY <1>3
      <3> QED
        BY <3>1, <3>2 DEF Taking
    <2>4. /\ Pipe' = Pipe \union {<<"query", thread>>}
          /\ InOrder(RunWaits, Later) /\ <<"query", thread>> \notin RunWaits \union Later => InOrder(RunWaits, Later)'
      BY <1>1, <1>7, PipeListed
    <2>5. <<"query", thread>> \notin RunWaits \union Later \union NoResume
      BY DEF RunWaits, Later, Starts, NoResume
    <2> QED
      BY <1>1, <1>4, <1>5, <2>2, <2>3, <2>4, <2>5
  <1>8. CASE TakesAside
    <2>1. /\ Taking /\ UNCHANGED interrupting /\ ReplyKind \notin RunWaits /\ ~Resuming
          /\ reply.op = "wait" => ~Running
      BY <1>8 DEF TakesAside
    <2>2. /\ ReplyInFlight => ReplyInFlight'
          /\ \A i \in DOMAIN replies' : \E j \in DOMAIN replies : replies'[i] = replies[j]
      BY <1>1, <2>1, RepliesLeft DEF Taking
    <2>3. ReplyKind[1] = "wait" => ~Running
      BY <2>1 DEF ReplyKind, KindOf, reply
    <2>4. ReplyKind = <<"hop", "pause">> => (Pipe \ {ReplyKind}) \intersect RunWaits = {}
      <3>1. <<"hop", "pause">> \in Later
        BY DEF Later
      <3> QED
        BY <1>1, <1>4, <2>1, <3>1, KindsApart, OrderTaken
    <2>5. CASE UNCHANGED tasks
      <3>1. Pipe' = Pipe \ {ReplyKind} /\ InOrder(RunWaits, Later)'
        BY <1>1, <1>4, <2>1, <2>5, KindsApart, PipeTaken, OrderTaken
      <3> QED
        BY <1>1, <1>8, <1>2, <1>5, <2>1, <2>2, <2>3, <2>4, <3>1
    <2>6. ASSUME NEW op, NEW call, NEW bp, Post(op, call, bp), op # "wait",
                 <<op, call>> \notin ({"go"} \X Resumes) \union {<<"hop", "bpPause">>},
                 op \in ResumeOps \union {"frame"} => status = "break"
          PROVE  /\ Pipe' \intersect RunWaits = Pipe \intersect RunWaits
                 /\ Pipe' \intersect NoResume = {}
                 /\ WaitsFirst'
                 /\ \A k \in Pipe : k[1] = "wait" => k \in Pipe' \/ ~Running
                 /\ \A k \in Pipe' : k[1] = "frame" => k \in Pipe \/ status = "break"
                 /\ ReplyKind = <<"hop", "pause">> => Pipe' \intersect RunWaits = {}
      <3>1. Pipe' = (Pipe \ {ReplyKind}) \union {<<op, call>>}
        BY <1>1, <2>1, <2>6, PipeTaken
      <3>2. <<op, call>> \notin RunWaits /\ <<op, call>> \notin NoResume
        BY <2>6 DEF RunWaits, NoResume
      <3>3. InOrder(RunWaits, Later)'
        BY <1>1, <1>4, <2>1, <2>6, <3>2, KindsApart, OrderTaken
      <3> QED
        BY <1>1, <1>5, <2>1, <2>3, <2>4, <2>6, <3>1, <3>2, <3>3
    <2> QED
      BY <1>1, <1>2, <1>8, <2>2, <2>5, <2>6 DEF AsideTasks
  <1> QED
    BY <1>1, <1>2, <1>6, <1>7, <1>8 DEF AsideReplies

(* The parts of the invariant the callback thread keeps by such a step. *)
LEMMA AsideView ==
    ASSUME Orderly, DapInv, ViewInv, CallbackThread, Aside
    PROVE  /\ (WaitsFirst /\ OneWait /\ StepEventAlone /\ NotYet /\ ViewRuns)'
           /\ Pipe' \intersect NoResume = {} /\ RunsInv'
  <1>1. /\ UNCHANGED <<dbgThread, status, process, session, view, crashed>>
        /\ HasSession' => HasSession \/ status = "break"
        /\ AsideEvents
    BY DEF Aside
  <1>2. /\ NoResumes /\ WaitsFirst /\ OneWait /\ StepEventAlone /\ NotYet /\ ViewRuns
        /\ RunsAreTold /\ RunningKnown /\ EndedStill /\ StillInv
    BY DEF ViewInv, OrderInv, RunsInv
  <1>3. /\ Pipe' \intersect RunWaits = Pipe \intersect RunWaits
        /\ Pipe' \intersect NoResume = {}
        /\ WaitsFirst'
        /\ \A k \in Pipe : k[1] = "wait" => k \in Pipe' \/ ~Running
        /\ \A k \in Pipe' : k[1] = "frame" => k \in Pipe \/ status = "break"
        /\ ReplyInFlight => ReplyInFlight'
        /\ \A i \in DOMAIN replies' : replies'[i].op = "wait" => \E j \in DOMAIN replies : replies'[i] = replies[j]
        /\ \A i \in DOMAIN tasks' : tasks'[i].op \in ResumeOps =>
              status = "break" \/ \E j \in DOMAIN tasks : tasks'[i] = tasks[j]
        /\ Taking /\ ReplyKind = <<"hop", "pause">> => Pipe' \intersect RunWaits = {}
        /\ Taking => TakesAside
    BY AsideQueues
  <1>4. ConfPending' => ConfPending \/ view = "none"
    BY ClientStep DEF ViewInv, Next
  <1>5. OneWait'
    <2>1. \A c \in RunCalls : <<"wait", c>> \in RunWaits
      BY DEF RunWaits
    <2> QED
      BY <1>2, <1>3, <2>1 DEF OneWait, OneOf
  <1>6. StepEventAlone'
    <2>1. ASSUME Taking, Pipe = {ReplyKind} PROVE Pipe \intersect RunWaits = {}
      BY <1>3, <2>1 DEF TakesAside
    <2> QED
      BY <1>1, <1>2, <1>3, <2>1 DEF StepEventAlone, AsideEvents
  <1>7. NotYet' /\ ViewRuns'
    BY <1>1, <1>2, <1>3, <1>4 DEF NotYet, ViewRuns
  <1>8. Live' = Live /\ Running' = Running
    BY <1>1 DEF Live, Running
  <1>9. RunsAreTold'
    <2> SUFFICES ASSUME Live, HasSession', status # "break", Pipe' \intersect RunWaits # {}, ~ReplyInFlight'
                 PROVE  view \in {"running", "exited"} /\ "pauseEvent" \notin Following'
      BY <1>1, <1>8 DEF RunsAreTold
    <2>1. HasSession /\ ~ReplyInFlight
      BY <1>1, <1>3
    <2>2. view \in {"running", "exited"} /\ "pauseEvent" \notin Following
      BY <1>2, <1>3, <2>1 DEF RunsAreTold
    <2> QED
      BY <1>1, <1>3, <2>1, <2>2 DEF AsideEvents, HasSession
  <1>10. RunningKnown'
    BY <1>1, <1>2, <1>3, <1>8 DEF RunningKnown
  <1>11. EndedStill'
    BY <1>1, <1>2, <1>3, <1>8 DEF EndedStill
  <1>12. StillInv'
    BY <1>1, <1>2, <1>3, <1>8 DEF StillInv
  <1> QED
    BY <1>3, <1>5, <1>6, <1>7, <1>9, <1>10, <1>11, <1>12 DEF RunsInv

-----------------------------------------------------------------------------
(* The steps that do not leave them alone. *)

(* A reply to resume is the only call there is. *)
LEMMA GoesOnAlone ==
    ASSUME DapInv, ViewInv, GoesOnNow
    PROVE  /\ \E call \in {"start"} \union Continues : reply.call = call /\ ReplyKind = <<"go", call>>
           /\ Taking /\ Resuming /\ Pipe = {ReplyKind} /\ ReplyKind \in Later
           /\ Following = {} /\ messages # <<>> /\ Live
           /\ Head(messages) \in {"configurationDone", "continue"}
  <1>1. PICK call \in {"start"} \union Continues : Deliver(call)
    BY DEF GoesOnNow, GoReplied
  <1>2. reply.op = "go" /\ Ok
    BY DEF GoesOnNow, GoReplied
  <1>3. call \in DapCalls /\ call \in RunCalls \ Resumes
    BY DEF DapCalls, RunCalls, Continues, Resumes
  <1>4. <<"go", call>> \notin Unawaited
    BY <1>3 DEF Unawaited
  <1>5. /\ Taking /\ reply.call = call /\ ReplyKind = <<"go", call>> /\ ReplyKind \in Pipe
        /\ Busy = {ReplyKind} /\ messages # <<>> /\ Following = {}
        /\ launch # "ended" /\ Awaits(Head(messages), ReplyKind)
    BY <1>1, <1>2, <1>3, <1>4, Delivered
  <1>6. Head(messages) \in {"configurationDone", "continue"}
    BY <1>5 DEF Awaits, StepOps
  <1>7. Live
    BY <1>5, <1>6, Destroyed DEF Live
  <1>8. Resuming
    BY <1>2 DEF Resuming, reply, Ok, ResumeOps
  <1>9. ReplyKind \in Later
    BY <1>5 DEF Later, Starts
  <1>10. Pipe \subseteq {ReplyKind} \union RunWaits
    BY <1>5, RunKinds DEF ViewInv, OrderInv
  <1>11. (Pipe \ {ReplyKind}) \intersect RunWaits = {}
    <2>1. InOrder(RunWaits, Later) /\ ThreadKind \notin RunWaits \union Later
      BY KindsApart DEF ViewInv, OrderInv, WaitsFirst, Later
    <2>2. DriverOnce /\ UNCHANGED <<dbgThread, interrupting>>
      BY InvParts DEF GoesOnNow, GoReplied, DriverAsIs
    <2> QED
      BY <1>5, <1>9, <2>1, <2>2, OrderTaken
  <1> QED
    BY <1>5, <1>6, <1>7, <1>8, <1>9, <1>10, <1>11

(* What a reply to resume is followed by. *)
LEMMA RunsNow ==
    ASSUME DapInv, CacheInv, ViewInv, Taking, Resuming, Pipe = {ReplyKind}, Live,
           UNCHANGED <<dbgThread, interrupting, status, session>>,
           NEW call \in (RunCalls \ Resumes) \union {"step"}, Post("wait", call, NoBp)
    PROVE  /\ Pipe' = {<<"wait", call>>} /\ WaitsFirst' /\ OneWait'
           /\ Pipe' \intersect NoResume = {}
           /\ RunningKnown' /\ EndedStill' /\ StillInv'
  <1>1. DriverOnce /\ DriverTypeOK /\ EndsFirst
    BY InvParts DEF CacheInv
  <1>2. Pipe' = {<<"wait", call>>}
    BY <1>1, PipeTaken
  <1>3. WaitsFirst'
    <2>1. InOrder(RunWaits, Later) /\ ThreadKind \notin RunWaits \union Later
      BY KindsApart DEF ViewInv, OrderInv, WaitsFirst, Later
    <2>2. <<"wait", call>> \notin Later
      BY DEF Later, Starts
    <2>3. InOrder(RunWaits, Later)'
      BY <1>1, <2>1, <2>2, OrderTaken
    <2> QED
      BY <2>3 DEF WaitsFirst, Later
  <1>4. OneWait'
    BY <1>2 DEF OneWait, OneOf
  <1>5. Pipe' \intersect NoResume = {}
    <2>1. call \notin Resumes
      BY DEF Resumes
    <2> QED
      BY <1>2, <2>1 DEF NoResume
  <1>6. RunningKnown'
    BY <1>2 DEF RunningKnown
  <1>7. EndedStill'
    <2>1. ~WaitReplied'
      BY <1>1, RepliesTaken DEF Taking, Live
    <2> QED
      BY <2>1 DEF EndedStill, WaitReplied
  <1>8. StillInv'
    <2>1. \A i \in DOMAIN tasks' : tasks'[i].op = "wait" \/ \E j \in DOMAIN tasks : tasks'[i] = tasks[j]
      BY <1>1, TasksGrow
    <2>2. "wait" \notin ResumeOps /\ StillInv
      BY DEF ResumeOps, StepOps, ViewInv, RunsInv
    <2> QED
      BY <1>2, <2>1, <2>2 DEF StillInv, Live
  <1> QED
    BY <1>2, <1>3, <1>4, <1>5, <1>6, <1>7, <1>8

LEMMA GoesOnView ==
    ASSUME Orderly, DapInv, CacheInv, ViewInv, GoesOnNow
    PROVE  /\ (WaitsFirst /\ OneWait /\ StepEventAlone /\ NotYet /\ ViewRuns)'
           /\ Pipe' \intersect NoResume = {} /\ RunsInv'
  <1>1. PICK call \in {"start"} \union Continues : reply.call = call /\ ReplyKind = <<"go", call>>
    BY GoesOnAlone
  <1>2. /\ Taking /\ Resuming /\ Pipe = {ReplyKind} /\ Following = {} /\ messages # <<>> /\ Live
        /\ Head(messages) \in {"configurationDone", "continue"}
    BY GoesOnAlone
  <1>3. /\ Post("wait", call, NoBp) /\ writes' = writes \o Write("resolve", "paused") /\ Tell("running")
        /\ UNCHANGED <<dbgThread, interrupting, status, session, messages>> /\ turn' = "loop" /\ turn = "loop"
    BY <1>1 DEF GoesOnNow, GoReplied, Resumed, DriverAsIs, engineVars, Ok, RespondGo, Deliver, Loop
  <1>4. call \in RunCalls \ Resumes
    BY DEF RunCalls, Continues, Resumes
  <1>5. /\ Pipe' = {<<"wait", call>>} /\ WaitsFirst' /\ OneWait'
        /\ Pipe' \intersect NoResume = {}
        /\ RunningKnown' /\ EndedStill' /\ StillInv'
    BY <1>2, <1>3, <1>4, RunsNow
  <1>6. Following' = {"resolve"}
    <2>1. "resolve" \in Continuations /\ "paused" \in Endings
      BY DEF Continuations, Endings, StopReasons
    <2>2. Following' = Following \union ({"resolve"} \ {"none"})
      BY <1>3, <2>1, WritesGrow
    <2> QED
      BY <1>2, <2>2
  <1>7. view' \in {"running", "exited"}
    BY <1>3 DEF Tell
  <1>8. ~ConfPending'
    <2> SUFFICES ASSUME NEW i \in DOMAIN messages, messages[i] = "configurationDone", i # 1 PROVE FALSE
      BY <1>3, <1>6 DEF ConfPending
    <2>1. Head(messages) = messages[1] /\ 1 \in DOMAIN messages
      BY <1>2, InvParts
    <2>2. Head(messages) # "configurationDone"
      BY <2>1 DEF DapInv, MessagePart, StartOnce
    <2>3. Head(messages) \in GoesOnFrom
      BY <1>2, <2>2 DEF GoesOnFrom
    <2> QED
      BY <1>2, <2>3 DEF ViewInv, ClientInv, ConfLast
  <1>9. StepEventAlone' /\ NotYet'
    BY <1>6, <1>7, <1>8 DEF StepEventAlone, NotYet
  <1>10. ViewRuns' /\ RunsAreTold'
    <2>1. <<"wait", call>> \in Pipe' \intersect RunWaits
      BY <1>4, <1>5 DEF RunWaits
    <2>2. "pauseEvent" \notin Following'
      BY <1>6
    <2> QED
      BY <1>7, <2>1, <2>2 DEF ViewRuns, RunsAreTold
  <1> QED
    BY <1>5, <1>9, <1>10 DEF RunsInv

LEMMA StepGoesOnView ==
    ASSUME Orderly, DapInv, CacheInv, ViewInv, StepGoesOn
    PROVE  /\ (WaitsFirst /\ OneWait /\ StepEventAlone /\ NotYet /\ ViewRuns)'
           /\ Pipe' \intersect NoResume = {} /\ RunsInv'
  <1>1. Deliver("step") /\ reply.op \in StepOps /\ Ok
    BY DEF StepGoesOn, StepReplied
  <1>2. "step" \in DapCalls \ RunCalls
    BY DEF DapCalls, RunCalls, Continues, Resumes
  <1>3. /\ Taking /\ ReplyKind = <<reply.op, "step">> /\ ReplyKind \in Pipe /\ ReplyKind \notin RunWaits
        /\ Awaits(Head(messages), <<reply.op, "step">>) /\ (Head(messages) # "disconnect" => Live)
    BY <1>1, <1>2, ReplyOf
  <1>4. Live
    BY <1>3 DEF Awaits, Stepping, Continues
  <1>5. Pipe = {ReplyKind}
    BY <1>1, <1>3 DEF CacheInv, LoopAlone, LoopKinds
  <1>6. Resuming
    BY <1>1 DEF Resuming, reply, Ok, ResumeOps
  <1>7. /\ Post("wait", "step", NoBp) /\ UNCHANGED <<dbgThread, interrupting, status, session, view, crashed>>
    BY <1>1 DEF StepGoesOn, StepReplied, StepRun, StepOps, DriverAsIs, engineVars, Ok
  <1>8. /\ Pipe' = {<<"wait", "step">>} /\ WaitsFirst' /\ OneWait'
        /\ Pipe' \intersect NoResume = {}
        /\ RunningKnown' /\ EndedStill' /\ StillInv'
    <2>1. "step" \in (RunCalls \ Resumes) \union {"step"}
      OBVIOUS
    <2> QED
      BY <1>3, <1>4, <1>5, <1>6, <1>7, <2>1, RunsNow
  <1>9. Pipe' \intersect RunWaits = {}
    BY <1>2, <1>8 DEF RunWaits
  <1>10. ConfPending' => ConfPending \/ view = "none"
    BY ClientStep DEF ViewInv, Next, CallbackThread, HandleReply, StepGoesOn
  <1>11. NotYet /\ ViewRuns
    BY DEF ViewInv, OrderInv
  <1>12. StepEventAlone' /\ NotYet' /\ RunsAreTold'
    BY <1>7, <1>9, <1>10, <1>11 DEF StepEventAlone, NotYet, RunsAreTold
  <1>13. ViewRuns'
    BY <1>3, <1>5, <1>7, <1>11 DEF ViewRuns
  <1> QED
    BY <1>8, <1>12, <1>13 DEF RunsInv

LEMMA RunEndedView ==
    ASSUME Orderly, DapInv, ViewInv, RunEnded
    PROVE  /\ (WaitsFirst /\ OneWait /\ StepEventAlone /\ NotYet /\ ViewRuns)'
           /\ Pipe' \intersect NoResume = {} /\ RunsInv'
  <1>1. PICK call \in RunCalls : Deliver(call)
    BY DEF RunEnded
  <1>2. /\ reply.op = "wait" /\ UNCHANGED <<tasks, messages, turn, dbgThread, interrupting, status, session>>
        /\ IF BreakReason(reply) = "error" THEN crashed' = TRUE ELSE Tell(ViewOf(reply.res))
    BY DEF RunEnded, DriverAsIs, engineVars
  <1>3. /\ NoResumes /\ WaitsFirst /\ OneWait /\ NotYet
        /\ RunningKnown /\ EndedStill /\ StillInv /\ DriverOnce /\ DriverTypeOK
    BY InvParts DEF ViewInv, OrderInv, RunsInv
  <1>4. Taking /\ ReplyKind = <<"wait", call>> /\ ReplyKind \in Pipe /\ ReplyKind \in RunWaits
    <2>1. call \in DapCalls
      BY DEF DapCalls
    <2> QED
      BY <1>1, <1>2, <2>1, Delivered DEF RunWaits
  <1>5. Pipe' = Pipe \ {ReplyKind}
    BY <1>2, <1>3, <1>4, PipeTaken
  <1>6. Pipe' \intersect RunWaits = {}
    <2> SUFFICES ASSUME NEW d \in RunCalls, <<"wait", d>> \in Pipe, <<"wait", d>> # ReplyKind PROVE FALSE
      BY <1>5 DEF RunWaits
    <2> QED
      BY <1>3, <1>4 DEF OneWait, OneOf
  <1>7. WaitsFirst'
    <2>1. InOrder(RunWaits, Later) /\ ThreadKind \notin RunWaits \union Later
      BY <1>3, KindsApart DEF WaitsFirst, Later
    <2>2. InOrder(RunWaits, Later)'
      BY <1>2, <1>3, <1>4, <2>1, OrderTaken
    <2> QED
      BY <2>2 DEF WaitsFirst, Later
  <1>8. OneWait'
    BY <1>3, <1>5 DEF OneWait, OneOf
  <1>9. Pipe' \intersect NoResume = {}
    BY <1>3, <1>5 DEF NoResumes, NoResume
  <1>10. StepEventAlone' /\ RunsAreTold'
    BY <1>6 DEF StepEventAlone, RunsAreTold
  <1>11. [Next]_vars
    BY DEF Next, CallbackThread, HandleReply
  <1>12. NotYet'
    <2>1. view # "none" /\ ~ConfPending
      BY <1>3, <1>4 DEF NotYet
    <2>2. view' # "none"
      BY <1>11, <2>1, MessageSteps DEF ViewKept
    <2>3. ~ConfPending'
      BY <1>11, <2>1, ClientStep DEF ViewInv
    <2> QED
      BY <2>2, <2>3 DEF NotYet
  <1>13. ViewRuns'
    BY <1>2, ViewIs DEF ViewRuns, Tell
  <1>14. 1 \in DOMAIN replies /\ reply = replies[1]
         /\ (\A i \in DOMAIN replies' : \E j \in DOMAIN replies : replies'[i] = replies[j])
         /\ (ReplyInFlight => ReplyInFlight')
    <2>1. ~Resuming
      BY <1>2 DEF Resuming, reply, ResumeOps, StepOps
    <2> QED
      BY <1>3, <1>4, <2>1, RepliesLeft DEF Taking
  <1>15. Live' = Live /\ Running' = Running
    BY <1>2 DEF Live, Running
  <1>16. RunningKnown'
    <2> SUFFICES ASSUME Live, Running, ~ReplyInFlight, ~crashed' PROVE FALSE
      BY <1>14, <1>15 DEF RunningKnown
    <2>1. reply.res # "error"
      BY <1>2 DEF BreakReason
    <2> QED
      BY <1>2, <1>3, <1>14, <2>1 DEF EndedStill, Running
  <1>17. EndedStill'
    BY <1>2, <1>3, <1>14, <1>15 DEF EndedStill
  <1>18. StillInv'
    BY <1>2, <1>3, <1>5, <1>15 DEF StillInv
  <1> QED
    BY <1>7, <1>8, <1>9, <1>10, <1>12, <1>13, <1>16, <1>17, <1>18 DEF RunsInv

LEMMA TellingView ==
    ASSUME Orderly, DapInv, ViewInv, EventFollows, Telling
    PROVE  /\ (WaitsFirst /\ OneWait /\ StepEventAlone /\ NotYet /\ ViewRuns)'
           /\ Pipe' \intersect NoResume = {} /\ RunsInv'
  <1>1. PICK then \in {"pauseEvent", "stepEvent"} :
           /\ WriteDone(then)
           /\ Tell(IF then = "pauseEvent" THEN "stopped" ELSE ViewOf(Ending))
    BY DEF Telling
  <1>2. /\ NoResumes /\ WaitsFirst /\ OneWait /\ NotYet /\ StepEventAlone
        /\ RunsAreTold /\ RunningKnown /\ EndedStill /\ StillInv /\ ClientInv
    BY DEF ViewInv, OrderInv, RunsInv
  <1>3. then \in Continuations \ {"none"} /\ "resolve" \in Continuations /\ "paused" \in Endings
    BY DEF Continuations, Endings, StopReasons
  <1>4. /\ turn = "loop" /\ Following = {then} /\ Follow(Tail(writes)) = {}
        /\ Busy = {} /\ messages # <<>> /\ CanFollow(Head(messages), then)
    BY <1>1, <1>3, Completed
  <1>5. /\ writes # <<>> /\ writes' = Tail(writes) \o Write("resolve", "paused")
        /\ UNCHANGED <<driverVars, messages, turn, launch, crashed>>
    BY <1>1 DEF EventFollows, WriteDone
  <1>6. Following' = {"resolve"}
    <2>1. Tail(writes) # writes
      <3>1. Len(Tail(writes)) = Len(writes) - 1 /\ Len(writes) \in Nat
        BY <1>5, InvParts
      <3> QED
        BY <3>1
    <2>2. Following' = Follow(Tail(writes)) \union ({"resolve"} \ {"none"})
      BY <1>3, <1>5, <2>1, WritesGrow
    <2> QED
      BY <1>4, <2>2
  <1>7. UNCHANGED <<tasks, replies, dbgThread, status, session>> /\ Pipe' = Pipe
    BY <1>5, InvParts, PartUnchanged DEF driverVars, DapInv
  <1>8. ~ReplyInFlight
    BY <1>2, <1>4, NoReplyInFlight
  <1>9. Live' = Live /\ Running' = Running /\ HasSession' = HasSession /\ ReplyInFlight' = ReplyInFlight
    BY <1>5, <1>7 DEF Live, Running, HasSession, ReplyInFlight, ResumedReply
  <1>10. WaitsFirst' /\ OneWait' /\ Pipe' \intersect NoResume = {}
    BY <1>2, <1>7 DEF WaitsFirst, InOrder, DebugKinds, OneWait, OneOf, NoResumes, NoResume
  <1>11. view' \in {"stopped", "exited"} /\ (view' = "exited" => view = "exited" \/ then = "stepEvent")
    BY <1>1, ViewIs DEF Tell
  <1>12. StepEventAlone' /\ ViewRuns'
    BY <1>6, <1>11 DEF StepEventAlone, ViewRuns
  <1>13. NotYet'
    <2> SUFFICES ASSUME ConfPending' PROVE view' = "stopped" /\ Pipe \intersect RunWaits = {}
      BY <1>7, <1>11 DEF NotYet
    <2>1. PICK i \in DOMAIN messages : messages[i] = "configurationDone" /\ i # 1
      BY <1>4, <1>5, <1>6 DEF ConfPending
    <2>2. view \in {"none", "stopped"} /\ Pipe \intersect RunWaits = {}
      BY <1>2, <2>1 DEF ConfPending, NotYet
    <2>3. then # "stepEvent"
      BY <1>2, <1>4, <2>1 DEF CanFollow, ClientInv, ConfLast, GoesOnFrom
    <2> QED
      BY <1>11, <2>2, <2>3
  <1>14. RunsAreTold'
    <2> SUFFICES ASSUME Live, HasSession, status # "break", Pipe \intersect RunWaits # {} PROVE FALSE
      BY <1>7, <1>9 DEF RunsAreTold
    <2> QED
      BY <1>2, <1>4, <1>8 DEF RunsAreTold, StepEventAlone
  <1>15. RunningKnown'
    BY <1>2, <1>5, <1>7, <1>9 DEF RunningKnown
  <1>16. EndedStill'
    BY <1>2, <1>7, <1>9 DEF EndedStill
  <1>17. StillInv'
    BY <1>2, <1>7, <1>9 DEF StillInv
  <1> QED
    BY <1>10, <1>12, <1>13, <1>14, <1>15, <1>16, <1>17 DEF RunsInv

LEMMA ViewOfCallback ==
    ASSUME Orderly, DapInv, CacheInv, ViewInv, CallbackThread
    PROVE  /\ (WaitsFirst /\ OneWait /\ StepEventAlone /\ NotYet /\ ViewRuns)'
           /\ Pipe' \intersect NoResume = {} /\ RunsInv'
  <1>1. Aside \/ (EventFollows /\ Telling) \/ GoesOnNow \/ StepGoesOn \/ RunEnded
    BY AsideHandle, AsideOthers, AsideReply DEF CallbackThread
  <1> QED
    BY <1>1, AsideView, TellingView, GoesOnView, StepGoesOnView, RunEndedView

-----------------------------------------------------------------------------
(* setBreakpoints never finds the target running. *)
LEMMA ResumesNone ==
    ASSUME Orderly, DapInv, CacheInv, ViewInv, CallbackThread
    PROVE  NoResumes'
  <1>1. NoResumes /\ interrupting # "bpPause" /\ ~setBps.paused /\ <<"hop", "bpPause">> \notin Pipe
    BY DEF ViewInv, OrderInv, NoResumes
  <1>2. Pipe' \intersect NoResume = {}
    BY ViewOfCallback
  <1>3. ASSUME UNCHANGED <<interrupting, setBps>> PROVE NoResumes'
    BY <1>1, <1>2, <1>3 DEF NoResumes, NoResume
  <1>4. ASSUME UNCHANGED interrupting, ~setBps.paused => ~setBps'.paused PROVE NoResumes'
    BY <1>1, <1>2, <1>4 DEF NoResumes, NoResume
  <1>5. ASSUME UNCHANGED setBps, interrupting' # "bpPause" PROVE NoResumes'
    BY <1>1, <1>2, <1>5 DEF NoResumes, NoResume
  <1>6. CASE OnPause
    <2>1. ~Consume("setBreakpoints")
      <3>1. "setBreakpoints" \in Needy
        BY DEF Needy
      <3> QED
        BY <1>6, <3>1, PausesLive, StoppedToConsider DEF OnPause, PauseBegin, SessionGone
    <2> QED
      BY <1>5, <1>6, <2>1 DEF OnPause, PauseBegin
  <1>7. CASE PauseIssued \/ PauseRefused
    <2>1. NoCall # "bpPause"
      BY CommandsAssumption, CallsAssumption DEF DapCalls
    <2> QED
      BY <1>5, <1>7, <2>1 DEF PauseIssued, PauseRefused, PauseEnd, PauseFails, dapVars
  <1>8. CASE PauseAtOnce \/ SetBpsNext \/ BpRemoved
    <2>1. UNCHANGED interrupting
      BY <1>8 DEF PauseAtOnce, PauseStopped, SetBpsNext, BpRemoved, DriverAsIs
    <2>2. setBps \in [remove : SUBSET BpIds, create : 0 .. MaxLines, paused : BOOLEAN, failed : BOOLEAN]
      BY DEF DapInv, HandlerTypeOK
    <2>3. \/ UNCHANGED setBps \/ setBps' = NoSetBps \/ BeginSetBps(FALSE)
          \/ \E r : setBps' = [setBps EXCEPT !.remove = r] \/ setBps' = [setBps EXCEPT !.create = r]
                    \/ setBps' = [setBps EXCEPT !.failed = r]
      BY <1>8 DEF PauseAtOnce, SetBpsNext, BpRemoved
    <2>4. ~setBps'.paused
      BY <1>1, <2>2, <2>3 DEF NoSetBps, BeginSetBps
    <2> QED
      BY <1>4, <2>1, <2>4
  <1>9. CASE BpPauseReplied
    <2>1. "bpPause" \in DapCalls \ RunCalls
      BY DEF DapCalls, RunCalls, Continues, Resumes
    <2>2. ReplyKind = <<reply.op, "bpPause">> /\ ReplyKind \in Pipe /\ Awaits(Head(messages), <<reply.op, "bpPause">>)
      BY <1>9, <2>1, ReplyOf DEF BpPauseReplied
    <2>3. reply.op = "hop"
      BY <2>2 DEF Awaits, Continues
    <2> QED
      BY <1>1, <2>2, <2>3
  <1>10. CASE Handle /\ ~(OnPause \/ PauseIssued \/ PauseRefused \/ PauseAtOnce \/ SetBpsNext)
    BY <1>3, <1>10 DEF Handle, Unknown, AnswerAtOnce, WithoutSession, OnContinue, OnInspect, OnDisconnect,
         OnThreads, OnStep, OnLaunch, Request, GetThreads, driverVars
  <1>11. CASE HandleReply /\ ~BpPauseReplied /\ ~BpRemoved
    BY <1>3, <1>11 DEF HandleReply, GoReplied, BpResumeReplied, RunEnded, ThreadNotified, StepFrameReplied,
         StepReplied, StepTopReplied, PauseReplied, BpCreated, InspectedFrame, PassedOn, DriverAsIs
  <1>12. CASE Receive \/ Launched \/ HandleWrite
    BY <1>3, <1>12 DEF Receive, Launched, HandleWrite, NothingFollows, ResolveFollows, EventFollows,
         StartFollows, CloseFollows, driverVars
  <1> QED
    BY <1>6, <1>7, <1>8, <1>9, <1>10, <1>11, <1>12 DEF CallbackThread, Handle

-----------------------------------------------------------------------------
LEMMA SessionStays ==
    ASSUME DapInv, CallbackThread PROVE UNCHANGED session
  <1>1. CASE Handle
    BY <1>1, PausesLive
       DEF Handle, Unknown, AnswerAtOnce, WithoutSession, OnContinue, OnInspect, OnDisconnect, OnThreads,
           OnStep, OnLaunch, SetBpsNext, Request, GetThreads, driverVars
  <1>2. CASE HandleReply
    BY <1>2 DEF HandleReply, GoReplied, BpResumeReplied, RunEnded, ThreadNotified, StepFrameReplied,
         StepReplied, StepTopReplied, PauseReplied, BpPauseReplied, BpRemoved, BpCreated, InspectedFrame,
         PassedOn, DriverAsIs
  <1>3. CASE Receive \/ Launched \/ HandleWrite
    BY <1>3 DEF Receive, Launched, HandleWrite, NothingFollows, ResolveFollows, EventFollows, StartFollows,
         CloseFollows, driverVars
  <1> QED
    BY <1>1, <1>2, <1>3 DEF CallbackThread

(* The callback thread changes nothing of the engine but its interrupt. *)
LEMMA EngineAside ==
    ASSUME DapInv, CallbackThread
    PROVE  UNCHANGED <<dbgThread, status, process, session>> /\ (UNCHANGED exitInterrupt \/ PauseEnd)
  <1>1. Caller \/ UNCHANGED driverVars
    BY StepCallbackThread DEF CallerStep
  <1>2. UNCHANGED session
    BY SessionStays
  <1> QED
    BY <1>1, <1>2 DEF Caller, Calling, Listing, Pausing, GoesOn, PauseEnd, PauseFails, PauseStopped, RunsOn, Done,
         GetThreads, PauseBegin, engineVars, driverVars

LEMMA BusyOnce == DapInv => \A j, k \in Busy : j = k
  BY DEF DapInv, MessagePart, Control, Idle, OnDriver, OnWrite, OnCreation

LEMMA BreaksAlone ==
    ASSUME DapInv, dbgThread.at = "breaking", dbgThread.call = "step" PROVE interrupting = NoCall
  <1>1. <<"wait", "step">> \in Busy
    <2>1. "step" \notin RunCalls
      BY DEF RunCalls, Continues, Resumes
    <2>2. <<"wait", "step">> \in Pipe
      BY DEF Pipe, AllKinds, DebugKinds
    <2> QED
      BY <2>1, <2>2 DEF Busy, Unawaited
  <1>2. interrupting # NoCall => <<"hop", interrupting>> \in Busy
    BY DEF Busy, InInterrupt
  <1>3. <<"hop", interrupting>> # <<"wait", "step">>
    OBVIOUS
  <1> QED
    BY <1>1, <1>2, <1>3, BusyOnce

LEMMA ExitOfCallback ==
    ASSUME DapInv, ViewInv, CallbackThread
    PROVE  GoneKnown' /\ ExitTrue' /\ BreakingAlive' /\ ThreadSound'
  <1>1. UNCHANGED <<dbgThread, status, process, session>> /\ (UNCHANGED exitInterrupt \/ interrupting # NoCall)
    BY EngineAside DEF PauseEnd
  <1>2. GoneKnown /\ ExitTrue /\ BreakingAlive /\ ThreadSound
    BY DEF ViewInv, ExitInv
  <1>3. ExitKnown' <=> ExitKnown
    BY ExitPassed
  <1>4. BreakingAlive'
    BY <1>1, <1>2, BreaksAlone DEF BreakingAlive
  <1> QED
    BY <1>1, <1>2, <1>3, <1>4 DEF GoneKnown, ExitTrue, ThreadSound

(* Without a session nothing is asked of the driver. *)
LEMMA NotAsked ==
    ASSUME ~HasSession, turn # "setBps", interrupting = NoCall, Receive \/ Launched \/ Handle \/ HandleWrite
    PROVE  UNCHANGED <<tasks, replies, interrupting>> /\ turn' # "setBps"
  <1>1. Resolve \/ Await \/ (\E then, ending : Respond(then, ending)) => turn' # "setBps"
    BY DEF Resolve, Await, Respond
  <1>2. CASE Handle
    <2>1. Unknown \/ AnswerAtOnce \/ WithoutSession \/ OnLaunch
          \/ (Consume("inspect") /\ HasSession)
      BY <1>2 DEF Handle, OnContinue, OnInspect, OnDisconnect, OnThreads, OnStep, OnPause, PauseAtOnce,
           PauseIssued, PauseRefused, PauseEnd, PauseFails, SetBpsNext, Request
    <2>2. UNCHANGED driverVars /\ (Resolve \/ Await \/ \E then, ending : Respond(then, ending))
      BY <2>1 DEF Unknown, AnswerAtOnce, WithoutSession, OnLaunch
    <2> QED
      BY <1>1, <2>2 DEF driverVars
  <1>3. CASE Receive
    BY <1>3 DEF Receive, driverVars
  <1>4. CASE Launched
    BY <1>1, <1>4 DEF Launched, driverVars
  <1>5. CASE HandleWrite
    BY <1>1, <1>5 DEF HandleWrite, NothingFollows, ResolveFollows, EventFollows, StartFollows, CloseFollows, driverVars
  <1> QED
    BY <1>2, <1>3, <1>4, <1>5

LEMMA BegunKept ==
    ASSUME DapInv, ViewInv, CallbackThread PROVE Begun'
  <1> SUFFICES ASSUME launch' \in {"none", "creating"}
               PROVE  /\ launch \in {"none", "creating"}
                      /\ UNCHANGED <<session, status, dbgThread, tasks, replies, interrupting>> /\ turn' # "setBps"
    BY DEF ViewInv, ExitInv, Begun, Live
  <1>1. launch \in {"none", "creating"}
    <2>1. UNCHANGED launch \/ OnLaunch \/ Launched
      BY DEF CallbackThread, Handle, HandleReply, HandleWrite, Receive, Unknown, AnswerAtOnce, WithoutSession,
           OnContinue, OnInspect, OnDisconnect, OnThreads, OnStep, OnPause, PauseAtOnce, PauseIssued, PauseRefused,
           SetBpsNext, Request, GoReplied, BpResumeReplied, RunEnded, ThreadNotified, StepFrameReplied,
           StepReplied, StepTopReplied, PauseReplied, BpPauseReplied, BpRemoved, BpCreated, InspectedFrame, PassedOn,
           NothingFollows, ResolveFollows, EventFollows, StartFollows, CloseFollows, dapVars
    <2>2. OnLaunch => launch = "none"
      BY DEF OnLaunch, Consume, ViewInv, ClientInv, NeedyTold
    <2> QED
      BY <2>1, <2>2 DEF Launched
  <1>2. replies = <<>> /\ interrupting = NoCall /\ turn # "setBps" /\ ~HasSession
    BY <1>1 DEF ViewInv, ExitInv, Begun, HasSession
  <1>3. ~HandleReply
    BY <1>2 DEF HandleReply, GoReplied, BpResumeReplied, RunEnded, ThreadNotified, StepFrameReplied,
         StepReplied, StepTopReplied, PauseReplied, BpPauseReplied, BpRemoved, BpCreated, InspectedFrame, PassedOn, Deliver
  <1>4. UNCHANGED <<tasks, replies, interrupting>> /\ turn' # "setBps"
    BY <1>2, <1>3, NotAsked DEF CallbackThread
  <1> QED
    BY <1>1, <1>4, EngineAside

(* An answer to a handler comes to a session that lives, or to the         *)
(* disconnect.                                                             *)
LEMMA TakenAfterEnd ==
    ASSUME DapInv, ViewInv, ~Live, HandleReply
    PROVE  /\ UNCHANGED <<tasks, launch>> /\ turn = "loop" /\ turn' = "loop"
  <1>1. ASSUME NEW call \in DapCalls \ RunCalls, Deliver(call) PROVE call = "stop"
    <2>1. Head(messages) = "disconnect" /\ Awaits(Head(messages), <<reply.op, call>>)
      BY <1>1, ReplyOf
    <2> QED
      BY <2>1 DEF Awaits, Stepping
  <1>2. {"stepFrame", "step", "stepTop", "pause", "bpPause", "bpRemove", "bpCreate",
         "inspect", "threads", "stop"} \subseteq DapCalls \ RunCalls
    BY DEF DapCalls, RunCalls, Continues, Resumes
  <1>3. ~StepFrameReplied /\ ~StepReplied /\ ~StepTopReplied /\ ~PauseReplied /\ ~BpPauseReplied
        /\ ~BpRemoved /\ ~BpCreated /\ ~InspectedFrame
    BY <1>1, <1>2 DEF StepFrameReplied, StepReplied, StepTopReplied, PauseReplied, BpPauseReplied,
                      BpRemoved, BpCreated, InspectedFrame
  <1>4. ~GoReplied
    <2> SUFFICES ASSUME NEW call \in {"start"} \union Continues, Deliver(call), reply.op = "go" PROVE FALSE
      BY DEF GoReplied
    <2>1. call \in DapCalls /\ call \in RunCalls \ Resumes /\ <<"go", call>> \notin Unawaited
      BY DEF DapCalls, RunCalls, Continues, Resumes, Unawaited
    <2>2. messages # <<>> /\ launch # "ended" /\ Awaits(Head(messages), <<"go", call>>)
      BY <2>1, Delivered
    <2>3. Head(messages) = "disconnect"
      BY <2>2, Destroyed DEF Live
    <2> QED
      BY <2>2, <2>3 DEF Awaits, Stepping
  <1>5. ~BpResumeReplied
    <2> SUFFICES ASSUME NEW call \in Resumes, Deliver(call), reply.op = "go" PROVE FALSE
      BY DEF BpResumeReplied
    <2>1. call \in DapCalls
      BY DEF DapCalls, RunCalls
    <2>2. <<"go", call>> \in Pipe
      BY <2>1, Delivered
    <2> QED
      BY <2>2 DEF ViewInv, OrderInv, NoResumes
  <1>6. RunEnded \/ ThreadNotified \/ PassedOn
    BY <1>3, <1>4, <1>5 DEF HandleReply
  <1> QED
    BY <1>6 DEF RunEnded, ThreadNotified, PassedOn, Deliver, Loop, Respond, Resolve, clientVars

LEMMA EndedKept ==
    ASSUME DapInv, ViewInv, CallbackThread PROVE EndedQuiet'
  <1> SUFFICES ASSUME ~Live PROVE UNCHANGED tasks /\ (launch' = "ended" \/ turn' = "loop")
    BY EngineAside DEF ViewInv, ExitInv, EndedQuiet, Live
  <1>1. EndedQuiet /\ Begun /\ (turn = "loop" \/ launch = "ended")
    BY DEF ViewInv, ExitInv, EndedQuiet
  <1>2. CASE HandleReply
    BY <1>2, TakenAfterEnd
  <1>3. CASE launch = "ended" /\ ~HandleReply
    <2>1. Busy = {} /\ turn # "setBps" /\ ~HasSession
      BY <1>3 DEF DapInv, MessagePart, LaunchInv, HasSession
    <2>2. interrupting = NoCall
      BY <2>1 DEF Busy, InInterrupt
    <2>3. UNCHANGED tasks
      BY <1>3, <2>1, <2>2, NotAsked DEF CallbackThread
    <2>4. launch' = "ended"
      <3>1. ~OnLaunch
        <4> SUFFICES ASSUME Consume("launch") PROVE FALSE
          BY DEF OnLaunch
        <4>1. messages # <<>> /\ Head(messages) = "launch"
          BY Considered
        <4>2. 1 \in DOMAIN messages /\ messages[1] = "launch"
          BY <4>1, InvParts
        <4> QED
          BY <1>3, <4>2 DEF DapInv, MessagePart, LaunchInv
      <3>2. UNCHANGED launch \/ CloseFollows
        BY <1>3, <3>1 DEF CallbackThread, Handle, HandleWrite, Receive, Launched, Unknown, AnswerAtOnce,
           WithoutSession, OnContinue, OnInspect, OnDisconnect, OnThreads, OnStep, OnPause, PauseAtOnce,
           PauseIssued, PauseRefused, SetBpsNext, Request,
           NothingFollows, ResolveFollows, EventFollows, StartFollows, CloseFollows, dapVars
      <3> QED
        BY <1>3, <3>2 DEF CloseFollows
    <2> QED
      BY <2>3, <2>4
  <1>4. CASE launch # "ended" /\ ~HandleReply
    <2>1. messages # <<>> /\ Head(messages) = "disconnect" /\ turn = "loop"
      BY <1>1, <1>4 DEF DapInv, MessagePart, LaunchInv, Live
    <2>2. interrupting = NoCall
      <3> SUFFICES ASSUME interrupting # NoCall PROVE FALSE
        OBVIOUS
      <3>1. <<"hop", interrupting>> \in Busy
        BY DEF Busy, InInterrupt
      <3>2. Awaits("disconnect", <<"hop", interrupting>>)
        BY <2>1, <3>1 DEF DapInv, MessagePart, Control, OnDriver, OnWrite, OnCreation
      <3> QED
        BY <3>2 DEF Awaits, Stepping
    <2>3. ~Handle
      BY <2>1, <2>2 DEF Handle, Unknown, AnswerAtOnce, WithoutSession, OnContinue, OnInspect, OnDisconnect,
         OnThreads, OnStep, OnLaunch, OnPause, PauseAtOnce, PauseIssued, PauseRefused, PauseEnd, PauseFails,
         SetBpsNext, Request, Consume
    <2>4. ~Launched
      BY <1>1 DEF Launched, Begun
    <2>5. ASSUME NEW then \in Continuations \ {"none"}, WriteDone(then) PROVE then = "close"
      <3>1. CanFollow("disconnect", then)
        BY <2>1, <2>5, Completed
      <3> QED
        BY <3>1 DEF CanFollow, Stepping
    <2>6. Receive \/ NothingFollows \/ CloseFollows
      <3>1. {"resolve", "initialized", "start", "pauseEvent", "stepEvent"} \subseteq Continuations \ {"none"}
        BY DEF Continuations
      <3> QED
        BY <1>4, <2>3, <2>4, <2>5, <3>1
           DEF CallbackThread, HandleWrite, ResolveFollows, EventFollows, StartFollows
    <2> QED
      BY <2>1, <2>6 DEF Receive, NothingFollows, CloseFollows, driverVars
  <1> QED
    BY <1>2, <1>3, <1>4

LEMMA ViewCallback ==
    ASSUME Orderly, DapInv, CacheInv, ViewInv, CallbackThread PROVE ViewInv'
  <1>1. ClientInv'
    BY ClientStep DEF ViewInv, Next
  <1> QED
    BY <1>1, ViewOfCallback, ResumesNone, ExitOfCallback, BegunKept, EndedKept
       DEF ViewInv, OrderInv, ExitInv

-----------------------------------------------------------------------------
(* The debug thread. *)

LEMMA DebugLive ==
    ASSUME ViewInv, DebugThread
    PROVE  Live /\ launch \notin {"none", "creating"}
  <1>1. tasks # <<>> \/ dbgThread.at # "idle"
    BY DEF DebugThread, RunTask, GoTask, StepTask, StepOutTask, HopTask, EndTask, CreateTask,
           RemoveTask, QueryTask, FrameTask, WaitTask, DanglingTask, TakeLive, Take, TargetEvent,
           HitBreakpoint, HitException, StepComplete, ProcessExits, UnknownEvent, ThreadEvent, Waiting,
           WaitStep, ThreadEventContinue, WaitForNothing, WaitInterrupted, BreakIn, BreakInInterrupted
  <1> QED
    BY <1>1 DEF ViewInv, ExitInv, EndedQuiet, Begun

LEMMA DebugSame ==
    ASSUME DapInv, Driver
    PROVE  /\ DebugThread /\ DriverTypeOK /\ OneRun /\ RunMeansRunning
           /\ UNCHANGED <<messages, turn, writes, launch, setBps, crashed, view, interrupting>>
           /\ Pipe' = Pipe /\ Following' = Following /\ HasSession' = HasSession
           /\ ConfPending' = ConfPending /\ ExitWritten' = ExitWritten
  <1>1. DebugThread /\ UNCHANGED <<messages, turn, writes, launch, setBps, crashed, view>>
    BY DEF Driver, dapVars, clientVars
  <1>2. DriverTypeOK /\ OneRun /\ RunMeansRunning
    BY InvParts DEF DriverInv, DriverRuns
  <1>3. UNCHANGED interrupting
    BY <1>1 DEF DebugThread, RunTask, GoTask, StepTask, StepOutTask, HopTask, EndTask, CreateTask,
           RemoveTask, QueryTask, FrameTask, WaitTask, DanglingTask, TargetEvent, HitBreakpoint,
           HitException, StepComplete, ProcessExits, UnknownEvent, ThreadEvent, WaitStep,
           ThreadEventContinue, WaitForNothing, WaitInterrupted, BreakIn, BreakInInterrupted
  <1>4. Pipe' = Pipe
    BY <1>1, <1>2, PipeDebugThread
  <1> QED
    BY <1>1, <1>2, <1>3, <1>4 DEF Following, HasSession, ConfPending, ExitWritten

LEMMA OrderOfDebug ==
    ASSUME DapInv, ViewInv, Driver PROVE OrderInv'
  <1>1. OrderInv
    BY DEF ViewInv
  <1>2. WaitsFirst'
    <2>1. InOrder(RunWaits, Later) /\ RunWaits \intersect Later = {} /\ ThreadKind \notin RunWaits \union Later
      BY <1>1, KindsApart DEF OrderInv, WaitsFirst, Later
    <2>2. InOrder(RunWaits, Later)'
      BY <2>1, DebugSame, OrderDebugThread
    <2> QED
      BY <2>2 DEF WaitsFirst, Later
  <1> QED
    BY <1>1, <1>2, DebugSame DEF OrderInv, NoResumes, OneWait, OneOf, StepEventAlone, NotYet, ViewRuns

(* While the debug thread waits, the target runs and was said to. *)
LEMMA WaitRuns ==
    ASSUME DapInv, ViewInv, Live, InWait
    PROVE  /\ Running /\ status # "break" /\ ~ReplyInFlight
           /\ <<"wait", dbgThread.call>> \in Pipe
           /\ \A i \in DOMAIN replies : replies[i].op = "wait" =>
                 replies[i].res = "error" /\ replies[i].call # "step"
           /\ \A k \in Pipe : k[1] # "frame"
           /\ \A i \in DOMAIN tasks : tasks[i].op \notin ResumeOps
           /\ HasSession /\ Pipe \intersect RunWaits # {} =>
                 view \in {"running", "exited"} /\ "pauseEvent" \notin Following
  <1>1. DriverTypeOK /\ OneRun /\ RunMeansRunning /\ ThreadSound
        /\ RunsAreTold /\ EndedStill /\ StillInv
    BY InvParts DEF DriverInv, DriverRuns, ViewInv, ExitInv, RunsInv
  <1>2. Running /\ ~ReplyInFlight
    BY <1>1 DEF OneRun, RunMeansRunning, RunInFlight, ThreadSound, Live
  <1>3. status # "break"
    BY <1>2 DEF Running
  <1>4. <<"wait", dbgThread.call>> \in Pipe
    BY DEF Pipe, AllKinds, DebugKinds
  <1> QED
    BY <1>1, <1>2, <1>3, <1>4 DEF RunsAreTold, EndedStill, StillInv

(* Tasks that resume nothing, and the beginning of a wait. *)
QuietTaken ==
    /\ UNCHANGED <<status, process, session, exitInterrupt>>
    /\ tasks # <<>> /\ tasks' = Tail(tasks) /\ dbgThread.at = "idle"
    /\ \/ UNCHANGED replies /\ dbgThread'.at = "wait"
       \/ /\ UNCHANGED dbgThread
          /\ \E op, call, res, bp : op # "wait" /\ Answer(op, call, res, bp)

LEMMA QuietKeeps ==
    ASSUME DapInv, ViewInv, Live, Driver, QuietTaken PROVE RunsInv' /\ ExitInv'
  <1>1. /\ UNCHANGED <<status, process, session, exitInterrupt>>
        /\ tasks # <<>> /\ tasks' = Tail(tasks) /\ dbgThread.at = "idle" /\ dbgThread'.at \in {"idle", "wait"}
    BY DEF QuietTaken
  <1>2. /\ ReplyInFlight => ReplyInFlight'
        /\ ExitReplied' <=> ExitReplied
        /\ \A i \in DOMAIN replies' : replies'[i].op = "wait" => \E j \in DOMAIN replies : replies'[i] = replies[j]
    <2>1. CASE UNCHANGED replies
      BY <2>1 DEF ReplyInFlight, ResumedReply, ExitReplied
    <2>2. ASSUME NEW op, NEW call, NEW res, NEW bp, op # "wait", Answer(op, call, res, bp)
          PROVE  /\ ReplyInFlight => ReplyInFlight'
                 /\ ExitReplied' <=> ExitReplied
                 /\ \A i \in DOMAIN replies' : replies'[i].op = "wait" =>
                       \E j \in DOMAIN replies : replies'[i] = replies[j]
      BY <2>2, DebugSame, RepliesGrow
    <2> QED
      BY <2>1, <2>2 DEF QuietTaken
  <1>3. \A i \in DOMAIN tasks' : \E j \in DOMAIN tasks : tasks'[i] = tasks[j]
    BY <1>1, DebugSame, TasksLeft
  <1>4. Live' /\ (Running' <=> Running) /\ (ExitKnown' <=> ExitKnown)
    BY <1>1, <1>2, DebugSame DEF Live, Running, ExitKnown
  <1>5. RunsAreTold' /\ RunningKnown'
    BY <1>1, <1>2, <1>4, DebugSame DEF ViewInv, RunsInv, RunsAreTold, RunningKnown
  <1>6. EndedStill'
    BY <1>1, <1>2, <1>4 DEF ViewInv, RunsInv, EndedStill
  <1>7. StillInv'
    BY <1>1, <1>3, DebugSame DEF ViewInv, RunsInv, StillInv
  <1>8. GoneKnown' /\ ExitTrue' /\ BreakingAlive' /\ ThreadSound'
    BY <1>1, <1>4 DEF ViewInv, ExitInv, GoneKnown, ExitTrue, BreakingAlive, ThreadSound
  <1>9. EndedQuiet' /\ Begun'
    BY <1>4, DebugSame, DebugLive DEF EndedQuiet, Begun
  <1> QED
    BY <1>5, <1>6, <1>7, <1>8, <1>9 DEF RunsInv, ExitInv

(* The target is resumed: no other call is on its way that would find it   *)
(* running.                                                                *)
ResumesTaken ==
    /\ UNCHANGED <<process, session, exitInterrupt, dbgThread>>
    /\ tasks # <<>> /\ tasks' = Tail(tasks) /\ dbgThread.at = "idle"
    /\ status' \in {"go", "step"}
    /\ Head(tasks).op \in ResumeOps
    /\ AnswerTask("ok", NoBp)

LEMMA ResumedAlone ==
    ASSUME DapInv, ViewInv, tasks # <<>>, Head(tasks).op \in ResumeOps, tasks' = Tail(tasks)
    PROVE  /\ \A k \in Pipe : k[1] # "frame"
           /\ \A i \in DOMAIN tasks' : tasks'[i].op \notin ResumeOps
  <1>1. tasks \in Seq(Task) /\ OnceInTasks /\ "wait" \notin ResumeOps /\ "frame" \notin ResumeOps
    BY InvParts DEF DriverTypeOK, DriverInv, ResumeOps, StepOps
  <1>2. ASSUME NEW i \in DOMAIN tasks, tasks[i].op \in ResumeOps
        PROVE  KindOf(tasks[i]) \in Busy
    <2>1. KindOf(tasks[i]) \in Pipe
      BY DEF Pipe, AllKinds, Kinds
    <2>2. KindOf(tasks[i]) \notin RunWaits
      BY <1>1, <1>2 DEF RunWaits, KindOf
    <2> QED
      BY <2>1, <2>2, RunKinds DEF ViewInv, OrderInv
  <1>3. 1 \in DOMAIN tasks /\ Head(tasks) = tasks[1]
    BY <1>1
  <1>4. ASSUME NEW k \in Pipe, k[1] = "frame" PROVE FALSE
    <2>1. k \in Busy
      BY <1>4 DEF Busy, Unawaited
    <2>2. k = KindOf(tasks[1])
      BY <1>2, <1>3, <2>1, BusyOnce
    <2> QED
      BY <1>1, <1>3, <1>4, <2>2 DEF KindOf
  <1>5. ASSUME NEW i \in DOMAIN tasks', tasks'[i].op \in ResumeOps PROVE FALSE
    <2>1. i + 1 \in DOMAIN tasks /\ tasks'[i] = tasks[i + 1] /\ i + 1 # 1
      BY <1>1
    <2>2. KindOf(tasks[i + 1]) = KindOf(tasks[1])
      BY <1>2, <1>3, <1>5, <2>1, BusyOnce
    <2>3. tasks[i + 1].call = tasks[1].call
      BY <2>2 DEF KindOf
    <2> QED
      BY <1>1, <1>3, <2>1, <2>3 DEF OnceInTasks
  <1> QED
    BY <1>4, <1>5

LEMMA ResumesKeep ==
    ASSUME DapInv, ViewInv, Live, Driver, ResumesTaken PROVE RunsInv' /\ ExitInv'
  <1>1. /\ UNCHANGED <<process, session, exitInterrupt, dbgThread>>
        /\ tasks # <<>> /\ tasks' = Tail(tasks) /\ dbgThread.at = "idle" /\ Head(tasks).op \in ResumeOps
        /\ status' # "noDebuggee"
    BY DEF ResumesTaken
  <1>2. /\ ReplyInFlight'
        /\ ExitReplied' <=> ExitReplied
        /\ \A i \in DOMAIN replies' : replies'[i].op = "wait" => \E j \in DOMAIN replies : replies'[i] = replies[j]
    <2>1. Answer(Head(tasks).op, Head(tasks).call, "ok", NoBp) /\ Head(tasks).op # "wait"
      BY <1>1 DEF ResumesTaken, AnswerTask, ResumeOps, StepOps
    <2> QED
      BY <1>1, <2>1, DebugSame, RepliesGrow
  <1>3. Live' /\ (ExitKnown' <=> ExitKnown)
    BY <1>1, <1>2, DebugSame DEF Live, ExitKnown
  <1>4. RunsAreTold' /\ RunningKnown'
    BY <1>2 DEF RunsAreTold, RunningKnown
  <1>5. EndedStill'
    BY <1>2 DEF ViewInv, RunsInv, EndedStill
  <1>6. StillInv'
    BY <1>1, DebugSame, ResumedAlone DEF StillInv
  <1>7. GoneKnown' /\ ExitTrue' /\ BreakingAlive' /\ ThreadSound'
    BY <1>1, <1>3 DEF ViewInv, ExitInv, GoneKnown, ExitTrue, BreakingAlive, ThreadSound
  <1>8. EndedQuiet' /\ Begun'
    BY <1>3, DebugSame, DebugLive DEF EndedQuiet, Begun
  <1> QED
    BY <1>4, <1>5, <1>6, <1>7, <1>8 DEF RunsInv, ExitInv

(* A run ends, with the target at a break. *)
Breaks ==
    /\ UNCHANGED <<tasks, session>>
    /\ InWait /\ status' = "break"
    /\ \E res \in {"paused", "breakpoint", "exception", "exited"} : \E bp :
          EndRun(res, bp) /\ (res = "exited" => process' # "alive")
    /\ process' # "alive" \/ process = "alive"

LEMMA RunEndsWith ==
    ASSUME DriverTypeOK, NEW res, NEW bp, EndRun(res, bp)
    PROVE  /\ dbgThread'.at = "idle"
           /\ \A i \in DOMAIN replies' :
                 \/ \E j \in DOMAIN replies : replies'[i] = replies[j]
                 \/ replies'[i].op = "wait" /\ replies'[i].call = dbgThread.call /\ replies'[i].res = res
           /\ ExitReplied' <=> ExitReplied \/ res = "exited"
  <1>1. Answer("wait", dbgThread.call, res, bp) /\ dbgThread'.at = "idle"
    BY DEF EndRun
  <1>2. /\ \A i \in DOMAIN replies' :
              \/ \E j \in DOMAIN replies : replies'[i] = replies[j]
              \/ replies'[i].op = "wait" /\ replies'[i].call = dbgThread.call /\ replies'[i].res = res
        /\ ExitReplied' <=> ExitReplied \/ ("wait" = "wait" /\ res = "exited")
    BY <1>1, RepliesGrow
  <1> QED
    BY <1>1, <1>2

LEMMA BreaksKeep ==
    ASSUME DapInv, ViewInv, Live, Driver, Breaks PROVE RunsInv' /\ ExitInv'
  <1>1. PICK res, bp :
           /\ res \in {"paused", "breakpoint", "exception", "exited"}
           /\ EndRun(res, bp)
           /\ res = "exited" => process' # "alive"
    BY DEF Breaks
  <1>2. UNCHANGED <<tasks, session>> /\ InWait /\ status' = "break" /\ (process' # "alive" \/ process = "alive")
    BY DEF Breaks
  <1>3. /\ dbgThread'.at = "idle"
        /\ \A i \in DOMAIN replies' :
              \/ \E j \in DOMAIN replies : replies'[i] = replies[j]
              \/ replies'[i].op = "wait" /\ replies'[i].call = dbgThread.call /\ replies'[i].res = res
        /\ ExitReplied' <=> ExitReplied \/ res = "exited"
    BY <1>1, DebugSame, RunEndsWith
  <1>4. Live' /\ ~Running'
    BY <1>2 DEF Live, Running
  <1>5. RunsAreTold' /\ RunningKnown' /\ StillInv'
    BY <1>2, <1>4 DEF RunsAreTold, RunningKnown, StillInv
  <1>6. EndedStill'
    BY <1>1, <1>2, <1>3, <1>4 DEF ViewInv, RunsInv, EndedStill
  <1>7. ExitKnown' <=> ExitKnown \/ res = "exited"
    BY <1>3, DebugSame DEF ExitKnown
  <1>8. GoneKnown' /\ ExitTrue' /\ BreakingAlive' /\ ThreadSound'
    BY <1>1, <1>2, <1>3, <1>7 DEF ViewInv, ExitInv, GoneKnown, ExitTrue, BreakingAlive, ThreadSound
  <1>9. EndedQuiet' /\ Begun'
    BY <1>4, DebugSame, DebugLive DEF EndedQuiet, Begun
  <1> QED
    BY <1>5, <1>6, <1>8, <1>9 DEF RunsInv, ExitInv

(* A wait goes on, or ends without a break. *)
WaitGoesOn ==
    /\ UNCHANGED <<tasks, session>> /\ InWait
    /\ \/ WaitInterrupted \/ WaitForNothing \/ BreakInInterrupted

LEMMA WaitKeeps ==
    ASSUME Orderly, DapInv, ViewInv, Live, Driver, WaitGoesOn PROVE RunsInv' /\ ExitInv'
  <1>1. /\ Running /\ status # "break" /\ ~ReplyInFlight
        /\ <<"wait", dbgThread.call>> \in Pipe
        /\ \A i \in DOMAIN replies : replies[i].op = "wait" =>
              replies[i].res = "error" /\ replies[i].call # "step"
        /\ \A k \in Pipe : k[1] # "frame"
        /\ \A i \in DOMAIN tasks : tasks[i].op \notin ResumeOps
        /\ HasSession /\ Pipe \intersect RunWaits # {} =>
              view \in {"running", "exited"} /\ "pauseEvent" \notin Following
    BY WaitRuns DEF WaitGoesOn
  <1>2. UNCHANGED <<tasks, session>> /\ Live' /\ status # "noDebuggee"
    BY <1>1 DEF WaitGoesOn, Live, Running
  <1>3. StillInv'
    BY <1>1, <1>2, DebugSame DEF StillInv
  <1>4. RunsAreTold'
    BY <1>1, DebugSame DEF RunsAreTold
  <1>5. RunningKnown'
    BY <1>1, DebugSame DEF RunningKnown
  <1>6. EndedQuiet' /\ Begun'
    BY <1>2, DebugSame, DebugLive DEF EndedQuiet, Begun
  <1>7. CASE WaitInterrupted
    <2>1. UNCHANGED <<replies, process>> /\ status' = "go" /\ ~exitInterrupt' /\ dbgThread'.at = "breaking"
          /\ process = "alive"
      <3>1. dbgThread' = [dbgThread EXCEPT !.at = "breaking"]
            /\ UNCHANGED <<replies, process>> /\ status' = "go" /\ ~exitInterrupt' /\ process = "alive"
        BY <1>7 DEF WaitInterrupted, Orderly, Waiting
      <3>2. dbgThread'.at = "breaking"
        BY <3>1, DebugSame DEF DriverTypeOK
      <3> QED
        BY <3>1, <3>2
    <2>2. EndedStill'
      BY <1>1, <2>1 DEF EndedStill
    <2>3. ExitKnown' <=> ExitKnown
      BY <2>1, DebugSame DEF ExitKnown, ExitReplied
    <2>4. GoneKnown' /\ ExitTrue' /\ BreakingAlive' /\ ThreadSound'
      BY <2>1, <2>3 DEF ViewInv, ExitInv, GoneKnown, ExitTrue, BreakingAlive, ThreadSound
    <2> QED
      BY <1>3, <1>4, <1>5, <1>6, <2>2, <2>4 DEF RunsInv, ExitInv
  <1>8. CASE WaitForNothing
    <2>1. EndRun("exited", NoBp) /\ status' = "noDebuggee" /\ process' = "gone"
      BY <1>8 DEF WaitForNothing, Orderly
    <2>2. /\ dbgThread'.at = "idle"
          /\ \A i \in DOMAIN replies' :
                \/ \E j \in DOMAIN replies : replies'[i] = replies[j]
                \/ replies'[i].op = "wait" /\ replies'[i].call = dbgThread.call /\ replies'[i].res = "exited"
          /\ ExitReplied' <=> ExitReplied \/ "exited" = "exited"
      BY <2>1, DebugSame, RunEndsWith
    <2>3. ~Running'
      BY <2>1 DEF Running
    <2>4. EndedStill'
      BY <1>1, <2>2, <2>3 DEF EndedStill
    <2>5. GoneKnown' /\ ExitTrue' /\ BreakingAlive' /\ ThreadSound'
      BY <2>1, <2>2 DEF ExitKnown, GoneKnown, ExitTrue, BreakingAlive, ThreadSound
    <2> QED
      BY <1>3, <1>4, <1>5, <1>6, <2>4, <2>5 DEF RunsInv, ExitInv
  <1>9. CASE BreakInInterrupted
    <2>1. /\ EndRun("error", NoBp) /\ UNCHANGED <<status, process>>
          /\ dbgThread.at = "breaking" /\ exitInterrupt
      BY <1>9 DEF BreakInInterrupted, Orderly
    <2>2. dbgThread.call # "step"
      BY <2>1 DEF ViewInv, ExitInv, BreakingAlive
    <2>3. /\ dbgThread'.at = "idle"
          /\ \A i \in DOMAIN replies' :
                \/ \E j \in DOMAIN replies : replies'[i] = replies[j]
                \/ replies'[i].op = "wait" /\ replies'[i].call = dbgThread.call /\ replies'[i].res = "error"
          /\ ExitReplied' <=> ExitReplied \/ "error" = "exited"
      BY <2>1, DebugSame, RunEndsWith
    <2>4. EndedStill'
      BY <1>1, <2>2, <2>3 DEF EndedStill
    <2>5. ExitKnown' <=> ExitKnown
      BY <2>3, DebugSame DEF ExitKnown
    <2>6. GoneKnown' /\ ExitTrue' /\ BreakingAlive' /\ ThreadSound'
      BY <1>2, <2>1, <2>3, <2>5 DEF ViewInv, ExitInv, GoneKnown, ExitTrue, BreakingAlive, ThreadSound
    <2> QED
      BY <1>3, <1>4, <1>5, <1>6, <2>4, <2>6 DEF RunsInv, ExitInv
  <1> QED
    BY <1>7, <1>8, <1>9 DEF WaitGoesOn

(* The session ends behind everything that was asked of it. *)
LEMMA EndsLast ==
    ASSUME DapInv, ViewInv, EndTask
    PROVE  tasks' = <<>> /\ turn = "loop"
  <1>1. tasks # <<>> /\ Head(tasks).op = "end" /\ tasks \in Seq(Task) /\ tasks' = Tail(tasks) /\ OnceInTasks
    BY InvParts DEF EndTask, TakeLive, Take, DriverTypeOK, DriverInv
  <1>2. KindOf(Head(tasks)) \in Kinds(tasks) /\ Kinds(tasks) = {KindOf(Head(tasks))} \union Kinds(Tail(tasks))
    BY <1>1, TailKinds
  <1>3. Kinds(tasks) \subseteq Pipe
    BY DEF Pipe, AllKinds
  <1>4. KindOf(Head(tasks)) \in Busy
    BY <1>1, <1>2, <1>3 DEF Busy, Unawaited, KindOf
  <1>5. /\ turn = "loop" /\ messages # <<>> /\ Awaits(Head(messages), KindOf(Head(tasks)))
    BY <1>4 DEF DapInv, MessagePart, Control, Idle, OnDriver, OnWrite, OnCreation
  <1>6. KindOf(Head(tasks)) = <<"end", "stop">>
    BY <1>1, <1>5 DEF Awaits, KindOf, StepOps
  <1>7. Kinds(Tail(tasks)) \intersect RunWaits = {}
    <2>1. Before(RunWaits, Later, tasks)
      BY DEF ViewInv, OrderInv, WaitsFirst, Later, InOrder, Ordered
    <2>2. KindOf(Head(tasks)) \in Later
      BY <1>6 DEF Later
    <2> QED
      BY <1>1, <2>1, <2>2, TailBefore
  <1>8. ASSUME Tail(tasks) # <<>> PROVE FALSE
    <2>1. /\ 1 \in DOMAIN Tail(tasks) /\ 1 \in DOMAIN tasks /\ 2 \in DOMAIN tasks
          /\ Tail(tasks)[1] = tasks[2] /\ Head(tasks) = tasks[1]
      BY <1>1, <1>8
    <2>2. KindOf(tasks[2]) \in Kinds(Tail(tasks)) /\ KindOf(tasks[2]) \in Pipe
      BY <1>2, <1>3, <2>1 DEF Kinds
    <2>3. KindOf(tasks[2]) \in Busy
      BY <1>7, <2>2, RunKinds DEF ViewInv, OrderInv
    <2>4. KindOf(tasks[2]) = KindOf(tasks[1])
      BY <1>4, <2>1, <2>3, BusyOnce
    <2>5. tasks[1].call = tasks[2].call
      BY <2>4 DEF KindOf
    <2> QED
      BY <1>1, <2>1, <2>5 DEF OnceInTasks
  <1> QED
    BY <1>1, <1>5, <1>8

LEMMA EndKeeps ==
    ASSUME DapInv, ViewInv, Driver, EndTask, session' = "destroyed" PROVE RunsInv' /\ ExitInv'
  <1>1. /\ process' = "gone" /\ UNCHANGED <<dbgThread, status>> /\ dbgThread.at = "idle"
        /\ AnswerTask("ok", NoBp) /\ Head(tasks).op = "end" /\ session' # session
    BY DEF EndTask, TakeLive, Take
  <1>2. ~Live'
    BY DEF Live
  <1>3. RunsInv'
    BY <1>2 DEF RunsInv, RunsAreTold, RunningKnown, EndedStill, StillInv
  <1>4. ExitKnown' <=> ExitKnown
    <2>1. Answer(Head(tasks).op, Head(tasks).call, "ok", NoBp)
      BY <1>1 DEF AnswerTask
    <2>2. ExitReplied' <=> ExitReplied \/ (Head(tasks).op = "wait" /\ "ok" = "exited")
      BY <2>1, DebugSame, RepliesGrow
    <2> QED
      BY <2>2, DebugSame DEF ExitKnown
  <1>5. GoneKnown' /\ ExitTrue' /\ BreakingAlive' /\ ThreadSound'
    BY <1>1, <1>4 DEF ViewInv, ExitInv, GoneKnown, ExitTrue, BreakingAlive, ThreadSound
  <1>6. EndedQuiet'
    BY <1>1, DebugSame, EndsLast DEF EndedQuiet
  <1>7. Begun'
    BY DebugSame, DebugLive DEF Begun
  <1> QED
    BY <1>3, <1>5, <1>6, <1>7 DEF ExitInv

(* A task is one of these; none of them finds the target running that      *)
(* needs it at a break.                                                    *)
LEMMA TaskClasses ==
    ASSUME Orderly, DapInv, ViewInv, Driver, RunTask
    PROVE  QuietTaken \/ ResumesTaken \/ (EndTask /\ session' = "destroyed")
  <1>1. Live /\ EngineFails = FALSE /\ StillInv /\ tasks \in Seq(Task)
    BY DebugLive, DebugSame DEF Orderly, ViewInv, RunsInv, DriverTypeOK
  <1>2. ASSUME NEW ops, Take(ops), Head(tasks).op \in ResumeOps \union {"frame"} PROVE status = "break"
    <2>1. 1 \in DOMAIN tasks /\ Head(tasks) = tasks[1]
      BY <1>1, <1>2 DEF Take
    <2>2. KindOf(tasks[1]) \in Pipe
      BY <2>1 DEF Pipe, AllKinds, Kinds
    <2> QED
      BY <1>1, <1>2, <2>1, <2>2 DEF StillInv, KindOf
  <1>3. CASE GoTask
    BY <1>1, <1>2, <1>3 DEF GoTask, TakeLive, Take, ResumesTaken, ResumeOps
  <1>4. CASE StepTask
    BY <1>1, <1>2, <1>4 DEF StepTask, TakeLive, Take, ResumesTaken, ResumeOps, StepOps
  <1>5. CASE StepOutTask
    <2>1. Take({"stepOut"}) /\ Head(tasks).op = "stepOut"
          /\ UNCHANGED <<dbgThread, process, exitInterrupt, session>>
          /\ \/ status' = "go" /\ AnswerTask("ok", NoBp)
             \/ UNCHANGED status /\ AnswerTask("error", NoBp)
      BY <1>1, <1>5 DEF StepOutTask, TakeLive, Take
    <2> QED
      BY <2>1 DEF Take, ResumesTaken, QuietTaken, AnswerTask, ResumeOps, StepOps
  <1>6. CASE HopTask
    BY <1>6 DEF HopTask, Take, QuietTaken, AnswerTask, engineVars
  <1>7. CASE EndTask
    BY <1>7 DEF EndTask, TakeLive, Take, QuietTaken, AnswerTask
  <1>8. CASE CreateTask
    BY <1>8 DEF CreateTask, TakeLive, Take, QuietTaken, AnswerTask
  <1>9. CASE RemoveTask
    BY <1>9 DEF RemoveTask, TakeLive, Take, QuietTaken, AnswerTask
  <1>10. CASE QueryTask
    BY <1>10 DEF QueryTask, TakeLive, Take, QuietTaken, AnswerTask, engineVars
  <1>11. CASE FrameTask
    <2>1. status = "break"
      BY <1>2, <1>11 DEF FrameTask, TakeLive, Take
    <2> QED
      BY <1>1, <1>11, <2>1 DEF FrameTask, TakeLive, Take, QuietTaken, AnswerTask, engineVars
  <1>12. CASE WaitTask
    BY <1>12 DEF WaitTask, TakeLive, Take, QuietTaken, engineVars
  <1>13. ~DanglingTask
    BY <1>1 DEF DanglingTask, Live
  <1> QED
    BY <1>3, <1>4, <1>5, <1>6, <1>7, <1>8, <1>9, <1>10, <1>11, <1>12, <1>13 DEF RunTask

LEMMA EventClasses ==
    ASSUME Orderly, DapInv, ViewInv, Driver, TargetEvent \/ WaitStep
    PROVE  Breaks \/ WaitGoesOn
  <1>1. EngineFails = FALSE /\ MaxReplies = 0 /\ ThreadSound /\ BreakingAlive /\ replies \in Seq(Reply)
    BY DebugSame DEF Orderly, ViewInv, ExitInv, DriverTypeOK
  <1>2. CASE HitBreakpoint
    BY <1>2 DEF HitBreakpoint, Waiting, BreakForEvent, Breaks
  <1>3. CASE HitException
    BY <1>3 DEF HitException, Waiting, BreakForEvent, Breaks
  <1>4. CASE StepComplete
    BY <1>4 DEF StepComplete, Waiting, BreakForEvent, Breaks
  <1>5. CASE ProcessExits
    BY <1>1, <1>5 DEF ProcessExits, Waiting, BreakForEvent, Breaks
  <1>6. CASE BreakIn
    BY <1>1, <1>6 DEF BreakIn, BreakForEvent, Breaks, BreakingAlive
  <1>7. ~UnknownEvent /\ ~ThreadEvent /\ ~ThreadEventContinue
    <2>1. ~(Len(replies) < 0)
      BY <1>1
    <2> QED
      BY <1>1, <2>1 DEF UnknownEvent, ThreadEvent, ThreadEventContinue, ThreadSound
  <1>8. CASE WaitInterrupted
    BY <1>8 DEF WaitInterrupted, Waiting, WaitGoesOn
  <1>9. CASE WaitForNothing
    BY <1>9 DEF WaitForNothing, WaitGoesOn
  <1>10. CASE BreakInInterrupted
    BY <1>10 DEF BreakInInterrupted, WaitGoesOn
  <1> QED
    BY <1>2, <1>3, <1>4, <1>5, <1>6, <1>7, <1>8, <1>9, <1>10 DEF TargetEvent, WaitStep

LEMMA ViewDebug ==
    ASSUME Orderly, DapInv, ViewInv, Driver PROVE ViewInv'
  <1>1. Live
    BY DebugSame, DebugLive
  <1>2. RunsInv' /\ ExitInv'
    BY <1>1, DebugSame, TaskClasses, EventClasses, QuietKeeps, ResumesKeep, BreaksKeep, WaitKeeps, EndKeeps
       DEF DebugThread
  <1>3. ClientInv'
    BY ClientStep DEF ViewInv, Next
  <1> QED
    BY <1>2, <1>3, OrderOfDebug DEF ViewInv

LEMMA ViewStep ==
    ASSUME Orderly, DapInv, CacheInv, ViewInv, [Next]_vars PROVE ViewInv'
  <1>1. CASE UNCHANGED vars
    <2>1. UNCHANGED <<tasks, replies, dbgThread, interrupting, status, process, exitInterrupt, session,
                      messages, turn, writes, launch, setBps, crashed, view>>
      BY <1>1 DEF vars, driverVars, dapVars, clientVars
    <2>2. ClientInv'
      BY ClientStep DEF ViewInv
    <2>3. Pipe' = Pipe /\ Following' = Following
      BY <2>1 DEF Pipe, AllKinds, DebugKinds, InInterrupt, Kinds, Following
    <2>4. OrderInv'
      <3>1. WaitsFirst'
        BY <2>1 DEF ViewInv, OrderInv, WaitsFirst, InOrder, Ordered, InInterrupt, DebugKinds
      <3> QED
        BY <2>1, <2>3, <3>1 DEF ViewInv, OrderInv, NoResumes, OneWait, OneOf, StepEventAlone, NotYet,
           ConfPending, ViewRuns
    <2>5. RunsInv'
      BY <2>1, <2>3 DEF ViewInv, RunsInv, RunsAreTold, RunningKnown, EndedStill, StillInv, Live, HasSession,
         Running, ReplyInFlight, ResumedReply
    <2>6. ExitInv'
      BY <2>1 DEF ViewInv, ExitInv, GoneKnown, ExitTrue, ExitKnown, ExitReplied, ExitWritten, BreakingAlive,
         ThreadSound, EndedQuiet, Begun, Live
    <2> QED
      BY <2>2, <2>4, <2>5, <2>6 DEF ViewInv
  <1> QED
    BY <1>1, ViewCallback, ViewDebug DEF Next

(* A client has connected; or the target runs after launch and             *)
(* configurationDone.                                                      *)
LEMMA ViewBegin == ASSUME Init \/ InitRunning PROVE ViewInv
  <1>1. /\ messages = <<>> /\ replies = <<>> /\ tasks = <<>> /\ writes = <<>> /\ turn = "loop"
        /\ session = "live" /\ interrupting = NoCall /\ process = "alive" /\ ~exitInterrupt /\ ~crashed
        /\ setBps = NoSetBps
        /\ \/ /\ dbgThread = [at |-> "idle", call |-> NoCall] /\ status = "break" /\ view = "none"
           \/ /\ dbgThread = [at |-> "wait", call |-> "start"] /\ status = "go"
              /\ view = "running" /\ launch = "created"
    BY DEF Init, InitRunning, DriverInit, DapInit
  <1>2. Kinds(tasks) = {} /\ Kinds(replies) = {} /\ Following = {} /\ InInterrupt = {}
    BY <1>1 DEF Kinds, Following, Follow, InInterrupt
  <1>3. Pipe = DebugKinds /\ DebugKinds = IF InWait THEN {<<"wait", "start">>} ELSE {}
    <2>1. Pipe = DebugKinds
      BY <1>2 DEF Pipe, AllKinds
    <2>2. dbgThread = [at |-> "idle", call |-> NoCall] => DebugKinds = {} /\ ~InWait
      BY DEF DebugKinds
    <2>3. dbgThread = [at |-> "wait", call |-> "start"] => DebugKinds = {<<"wait", "start">>} /\ InWait
      BY DEF DebugKinds
    <2> QED
      BY <1>1, <2>1, <2>2, <2>3
  <1>4. ClientInv
    BY <1>1 DEF ClientInv, NeedyFirst, NeedyTold, ConfLast
  <1>5. NoResumes /\ OneWait /\ StepEventAlone
    <2>1. NoCall # "bpPause"
      BY CommandsAssumption, CallsAssumption DEF DapCalls
    <2>2. DebugKinds \subseteq {<<"wait", "start">>}
      BY <1>3
    <2>3. DebugKinds \intersect (({"go", "wait"} \X Resumes) \union {<<"hop", "bpPause">>}) = {}
      BY <2>2 DEF Resumes
    <2> QED
      BY <1>1, <1>2, <1>3, <2>1, <2>2, <2>3 DEF NoResumes, OneWait, OneOf, StepEventAlone, NoSetBps
  <1>6. WaitsFirst
    <2>1. DOMAIN tasks = {} /\ DOMAIN replies = {}
      BY <1>1
    <2> QED
      BY <1>2, <2>1 DEF WaitsFirst, InOrder, Ordered, Before
  <1>7. \/ Pipe = {} /\ status = "break" /\ view = "none"
        \/ Pipe = {<<"wait", "start">>} /\ status = "go" /\ view = "running"
    <2>1. dbgThread = [at |-> "idle", call |-> NoCall] => ~InWait
      OBVIOUS
    <2>2. dbgThread = [at |-> "wait", call |-> "start"] => InWait
      OBVIOUS
    <2> QED
      BY <1>1, <1>3, <2>1, <2>2
  <1>8. NotYet /\ ViewRuns
    <2>1. ~ConfPending /\ <<"wait", "start">> \in RunWaits
      BY <1>1 DEF ConfPending, RunWaits, RunCalls
    <2> QED
      BY <1>7, <2>1 DEF NotYet, ViewRuns
  <1>10. RunsInv
    <2>1. DOMAIN tasks = {} /\ DOMAIN replies = {}
      BY <1>1
    <2>2. RunsAreTold /\ EndedStill
      BY <1>2, <1>7, <2>1 DEF RunsAreTold, EndedStill
    <2>3. RunningKnown
      <3>1. CASE Pipe = {<<"wait", "start">>}
        BY <3>1 DEF RunningKnown
      <3> QED
        BY <1>7, <3>1 DEF RunningKnown, Running
    <2>4. StillInv
      BY <1>7, <2>1 DEF StillInv
    <2> QED
      BY <2>2, <2>3, <2>4 DEF RunsInv
  <1>9. ExitInv
    BY <1>1 DEF ExitInv, GoneKnown, ExitTrue, ExitKnown, ExitReplied, ExitWritten, BreakingAlive,
       ThreadSound, EndedQuiet, Begun, Live
  <1> QED
    BY <1>4, <1>5, <1>6, <1>7, <1>8, <1>9, <1>10 DEF ViewInv, OrderInv

-----------------------------------------------------------------------------
(* What follows from it. *)

LEMMA ViewTrue == ASSUME DapInv, ViewInv PROVE ViewAgrees
  <1> SUFFICES ASSUME Quiet, HasSession
               PROVE  /\ view = "stopped" => ~Running
                      /\ view = "running" => Running /\ dbgThread.at = "wait"
                      /\ view = "exited" => process # "alive"
    BY DEF ViewAgrees
  <1>1. ~crashed /\ messages = <<>> /\ replies = <<>> /\ tasks = <<>> /\ dbgThread.at \in {"idle", "wait"}
    BY DEF Quiet, Loop
  <1>2. Live /\ Busy = {}
    BY <1>1 DEF DapInv, MessagePart, LaunchInv, Control, Idle, Live, HasSession
  <1>3. DOMAIN tasks = {} /\ DOMAIN replies = {}
    BY <1>1
  <1>4. Pipe = DebugKinds /\ ~ReplyInFlight
    BY <1>3 DEF Pipe, AllKinds, Kinds, ReplyInFlight
  <1>5. InWait => dbgThread.at = "wait" /\ Running
    BY <1>1, <1>2, WaitRuns
  <1>6. Pipe # {} => InWait
    BY <1>1, <1>4 DEF DebugKinds
  <1>7. view = "stopped" => ~Running
    <2> SUFFICES ASSUME view = "stopped", Running PROVE FALSE
      OBVIOUS
    <2>1. PICK k \in Pipe : k[1] = "wait"
      BY <1>1, <1>2, <1>4 DEF ViewInv, RunsInv, RunningKnown
    <2>2. k \in RunWaits
      BY <1>2, <2>1, RunKinds DEF ViewInv, OrderInv
    <2> QED
      BY <1>2, <1>4, <2>1, <2>2 DEF ViewInv, RunsInv, RunsAreTold, Running
  <1>8. view = "running" => Running /\ dbgThread.at = "wait"
    BY <1>1, <1>5, <1>6 DEF ViewInv, OrderInv, ViewRuns
  <1>9. view = "exited" => process # "alive"
    BY DEF ViewInv, ExitInv, ExitTrue, ExitKnown
  <1> QED
    BY <1>7, <1>8, <1>9

LEMMA BothBegin == ASSUME Init \/ InitRunning PROVE CacheInv /\ ViewInv
  <1>0. ViewInv
    BY ViewBegin
  <1>1. Init => CacheInv
    BY CacheBegin DEF Init, DriverInit
  <1>2. InitRunning => CacheInv
    BY CacheBegin DEF InitRunning
  <1> QED
    BY <1>0, <1>1, <1>2

(* When nothing is on its way between the client and the target, what the  *)
(* client was last told of the target is true, whatever it asked for and   *)
(* in whatever order the answers came: a pause, a continue, a step and the *)
(* end of a run report independently of each other (onPause, onContinue,   *)
(* onStep and onRunCallback of DapSession.hx).                             *)
THEOREM ClientIsToldTheTruth ==
    ASSUME Orderly
    PROVE  (Spec => []ViewAgrees) /\ (SpecRunning => []ViewAgrees)
  <1>1. Init => CacheInv /\ ViewInv
    BY BothBegin
  <1>2. InitRunning => CacheInv /\ ViewInv
    BY BothBegin
  <1>3. DapInv /\ CacheInv /\ ViewInv /\ [Next]_vars => (CacheInv /\ ViewInv)'
    BY CacheStep, ViewStep
  <1>4. DapInv /\ ViewInv => ViewAgrees
    BY ViewTrue
  <1> QED
    BY <1>1, <1>2, <1>3, <1>4, AdapterCorrect, PTL DEF Spec, SpecRunning

(* No request reaches the debug thread with the target in a state that     *)
(* ends its event loop: a frame is asked for only at a break, and stays    *)
(* asked for at a break until it is read (DbgEngStack.getFrame).           *)
THEOREM DebugThreadOutlivesRequests ==
    ASSUME Orderly
    PROVE  (Spec => []DebugThreadLives) /\ (SpecRunning => []DebugThreadLives)
  <1>1. Init => CacheInv /\ ViewInv
    BY BothBegin
  <1>2. InitRunning => CacheInv /\ ViewInv
    BY BothBegin
  <1>3. DapInv /\ CacheInv /\ ViewInv /\ [Next]_vars => (CacheInv /\ ViewInv)'
    BY CacheStep, ViewStep
  <1>4. ViewInv => DebugThreadLives
    BY DEF ViewInv, ExitInv, ThreadSound, DebugThreadLives
  <1> QED
    BY <1>1, <1>2, <1>3, <1>4, AdapterCorrect, PTL DEF Spec, SpecRunning

(* The session object that stop() destroys is not used afterwards: the     *)
(* disconnect is the last task of its session (DbgEngDriver.stop,          *)
(* onDisconnect).                                                          *)
THEOREM StoppedSessionIsLeftAlone ==
    ASSUME Orderly
    PROVE  (Spec => []NoUseAfterStop) /\ (SpecRunning => []NoUseAfterStop)
  <1>1. Init => CacheInv /\ ViewInv
    BY BothBegin
  <1>2. InitRunning => CacheInv /\ ViewInv
    BY BothBegin
  <1>3. DapInv /\ CacheInv /\ ViewInv /\ [Next]_vars => (CacheInv /\ ViewInv)'
    BY CacheStep, ViewStep
  <1>4. ViewInv => NoUseAfterStop
    BY DEF ViewInv, ExitInv, EndedQuiet, Live, NoUseAfterStop
  <1> QED
    BY <1>1, <1>2, <1>3, <1>4, AdapterCorrect, PTL DEF Spec, SpecRunning

-----------------------------------------------------------------------------
(* A pause and the run it ends. *)

(* What becomes of the replies. *)
LEMMA RepliesMove ==
    ASSUME CallbackThread
    PROVE  \/ UNCHANGED replies
           \/ Answer("query", "threads", "ok", NoBp)
           \/ Loop /\ replies # <<>> /\ replies' = Tail(replies)
  <1>1. CASE Receive \/ Launched \/ HandleWrite
    BY <1>1 DEF Receive, Launched, HandleWrite, NothingFollows, ResolveFollows, EventFollows, StartFollows,
       CloseFollows, driverVars
  <1>2. CASE Handle
    BY <1>2 DEF Handle, Unknown, AnswerAtOnce, WithoutSession, OnContinue, OnInspect, OnDisconnect, OnThreads,
       OnStep, OnLaunch, OnPause, PauseAtOnce, PauseIssued, PauseRefused, SetBpsNext, Request, GetThreads,
       PauseBegin, PauseEnd, PauseFails, PauseStopped, driverVars
  <1>3. CASE HandleReply
    BY <1>3 DEF HandleReply, GoReplied, BpResumeReplied, RunEnded, ThreadNotified, StepFrameReplied,
       StepReplied, StepTopReplied, PauseReplied, BpPauseReplied, BpRemoved, BpCreated, InspectedFrame,
       PassedOn, Deliver
  <1> QED
    BY <1>1, <1>2, <1>3 DEF CallbackThread

LEMMA DebugReplies ==
    ASSUME DebugThread
    PROVE  UNCHANGED replies \/ \E op, call, res, bp : Answer(op, call, res, bp)
  <1>1. CASE RunTask
    BY <1>1 DEF RunTask, GoTask, StepTask, StepOutTask, HopTask, EndTask, CreateTask, RemoveTask,
       QueryTask, FrameTask, WaitTask, DanglingTask, AnswerTask
  <1>2. CASE TargetEvent
    BY <1>2 DEF TargetEvent, HitBreakpoint, HitException, StepComplete, ProcessExits, UnknownEvent,
       ThreadEvent, EndRun
  <1>3. CASE WaitStep
    BY <1>3 DEF WaitStep, ThreadEventContinue, WaitForNothing, WaitInterrupted, BreakIn,
       BreakInInterrupted, EndRun
  <1> QED
    BY <1>1, <1>2, <1>3 DEF DebugThread

LEMMA AnswerIsNoTail ==
    ASSUME DriverTypeOK, replies # <<>>,
           UNCHANGED replies \/ \E op, call, res, bp : Answer(op, call, res, bp)
    PROVE  replies' # Tail(replies)
  <1>1. replies \in Seq(Reply)
    BY DEF DriverTypeOK
  <1>2. Len(Tail(replies)) = Len(replies) - 1 /\ Len(replies) \in Nat
    BY <1>1
  <1>3. Len(replies') \in {Len(replies), Len(replies) + 1}
    <2>1. ASSUME NEW op, NEW call, NEW res, NEW bp, Answer(op, call, res, bp)
          PROVE  Len(replies') = Len(replies) + 1
      BY <1>1, <2>1 DEF Answer
    <2> QED
      BY <2>1
  <1> QED
    BY <1>2, <1>3

(* A pause is answered behind the run it ended, and before the next. *)
LEMMA PauseTaken ==
    ASSUME DapInv, ViewInv, ~crashed, replies # <<>>, Head(replies).op = "hop"
    PROVE  ~Running /\ ~InWait /\ KindOf(Head(replies)) = <<"hop", "pause">>
  <1> DEFINE k == KindOf(Head(replies))
  <1>1. 1 \in DOMAIN replies /\ Head(replies) = replies[1] /\ \A j \in DOMAIN replies : ~(j < 1)
    BY InvParts DEF DriverTypeOK
  <1>2. k \in Pipe /\ k \in Kinds(replies) /\ k = <<"hop", Head(replies).call>>
    BY <1>1, RepliesInPipe DEF Kinds, KindOf
  <1> HIDE DEF k
  <1>3. k \in Busy
    BY <1>2 DEF Busy, Unawaited
  <1>4. messages # <<>> /\ Awaits(Head(messages), k)
    BY <1>3 DEF DapInv, MessagePart, Control, Idle, OnDriver, OnWrite, OnCreation
  <1>5. k = <<"hop", "pause">> /\ Head(messages) = "pause"
    <2>1. k # <<"hop", "bpPause">>
      BY <1>2 DEF ViewInv, OrderInv, NoResumes
    <2> QED
      BY <1>2, <1>4, <2>1 DEF Awaits, StepOps
  <1>6. Live
    BY <1>3, <1>5 DEF Live, DapInv, MessagePart, LaunchInv
  <1>7. Pipe \intersect RunWaits = {}
    <2>1. k \in Later /\ InOrder(RunWaits, Later)
      BY <1>5 DEF Later, ViewInv, OrderInv, WaitsFirst
    <2>2. DebugKinds \intersect RunWaits = {} /\ Kinds(tasks) \intersect RunWaits = {}
      BY <1>2, <2>1 DEF InOrder, Ordered
    <2>3. ASSUME NEW j \in DOMAIN replies, KindOf(replies[j]) \in RunWaits PROVE FALSE
      BY <1>1, <2>1, <2>3 DEF InOrder, Ordered, Before, k
    <2> QED
      BY <2>2, <2>3 DEF Pipe, AllKinds, Kinds
  <1>8. \A q \in Busy : q = k
    BY <1>3, BusyOnce
  <1>9. \A q \in Pipe : q[1] # "wait"
    BY <1>5, <1>7, <1>8, RunKinds DEF ViewInv, OrderInv
  <1>10. ~ReplyInFlight
    BY <1>5, <1>8, NoReplyInFlight DEF ViewInv, OrderInv, ResumeOps, StepOps
  <1>11. ~Running
    BY <1>6, <1>9, <1>10 DEF ViewInv, RunsInv, RunningKnown
  <1>12. InWait => <<"wait", dbgThread.call>> \in Pipe
    BY DEF Pipe, AllKinds, DebugKinds
  <1> QED
    BY <1>5, <1>9, <1>11, <1>12 DEF k

(* The callback of a pause that had to interrupt the target is invoked     *)
(* when the target no longer runs: the second hop over the debug thread,   *)
(* which does not look at the target, is behind the run it waits for (the  *)
(* comment at DbgEngDriver.hx:70).                                         *)
THEOREM PausesAreAnsweredStopped ==
    ASSUME Orderly
    PROVE  (Spec => PauseAnsweredStopped) /\ (SpecRunning => PauseAnsweredStopped)
  <1>1. Init => CacheInv /\ ViewInv
    BY BothBegin
  <1>2. InitRunning => CacheInv /\ ViewInv
    BY BothBegin
  <1>3. DapInv /\ CacheInv /\ ViewInv /\ [Next]_vars => (CacheInv /\ ViewInv)'
    BY CacheStep, ViewStep
  <1>4. DapInv /\ ViewInv /\ [Next]_vars =>
           [replies # <<>> /\ Head(replies).op = "hop" /\ replies' = Tail(replies) => ~Running]_vars
    <2> SUFFICES ASSUME DapInv, ViewInv, Next, replies # <<>>, Head(replies).op = "hop",
                        replies' = Tail(replies)
                 PROVE  ~Running
      OBVIOUS
    <2>1. DriverTypeOK
      BY InvParts
    <2>2. CASE Driver
      BY <2>1, <2>2, DebugReplies, AnswerIsNoTail DEF Driver
    <2>3. CASE CallbackThread
      <3>1. Loop
        BY <2>1, <2>3, RepliesMove, AnswerIsNoTail
      <3> QED
        BY <3>1, PauseTaken DEF Loop
    <2> QED
      BY <2>2, <2>3 DEF Next
  <1> QED
    BY <1>1, <1>2, <1>3, <1>4, AdapterCorrect, PTL DEF Spec, SpecRunning, PauseAnsweredStopped

-----------------------------------------------------------------------------
(* No resume of setBreakpoints. *)

(* A client that sets breakpoints only at a stop it was told of never has  *)
(* its target resumed by that: setBreakpoints finds it stopped, whatever   *)
(* has happened since the client was told, so that it neither interrupts   *)
(* the target nor asks for a go (onSetBreakpoints).  Without the           *)
(* hypothesis it does, and a stop of the target is lost (section 4 of the  *)
(* README).                                                                *)
THEOREM SetBreakpointsResumesNothing ==
    ASSUME Orderly
    PROVE  (Spec => []EditsResumeNothing) /\ (SpecRunning => []EditsResumeNothing)
  <1>1. Init => CacheInv /\ ViewInv
    BY BothBegin
  <1>2. InitRunning => CacheInv /\ ViewInv
    BY BothBegin
  <1>3. DapInv /\ CacheInv /\ ViewInv /\ [Next]_vars => (CacheInv /\ ViewInv)'
    BY CacheStep, ViewStep
  <1>4. DapInv /\ ViewInv => EditsResumeNothing
    <2> SUFFICES ASSUME DapInv, ViewInv, NEW i \in DOMAIN tasks, tasks[i].call \in Resumes
                 PROVE  FALSE
      BY DEF EditsResumeNothing, ViewInv, OrderInv, NoResumes
    <2>1. KindOf(tasks[i]) \in Pipe /\ KindOf(tasks[i])[2] \in Resumes
      BY DEF Pipe, AllKinds, Kinds, KindOf
    <2>2. KindOf(tasks[i]) \notin Busy
      <3>1. KindOf(tasks[i])[2] \notin {"start", "stepFrame", "stepTop", "step", "pause", "bpPause", "bpRemove",
                                        "bpCreate", "inspect", "threads", "stop"} \union Continues
        BY <2>1 DEF Resumes, Continues
      <3>2. ~Awaits(Head(messages), KindOf(tasks[i]))
        BY <3>1 DEF Awaits
      <3> QED
        BY <3>2 DEF DapInv, MessagePart, Control, Idle, OnDriver, OnWrite, OnCreation
    <2> QED
      BY <2>1, <2>2 DEF ViewInv, OrderInv, NoResumes, Busy, Unawaited
  <1>5. Spec => []EditsResumeNothing
    BY <1>1, <1>3, <1>4, AdapterCorrect, PTL DEF Spec
  <1>6. SpecRunning => []EditsResumeNothing
    BY <1>2, <1>3, <1>4, AdapterCorrect, PTL DEF SpecRunning
  <1> QED
    BY <1>5, <1>6
=============================================================================
