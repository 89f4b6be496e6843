---------------------------- MODULE LLDBClientProofs ----------------------------
(***************************************************************************)
(* Proofs about the LLDB driver under its careful client, for any sets of  *)
(* calls and breakpoints, any number of threads of the target and any      *)
(* length of the listener's queue: what a run is told is true, a pause is  *)
(* answered after the stop, every call is answered at most once, and the   *)
(* driver implements Driver.                                               *)
(***************************************************************************)
EXTENDS LLDBClient, TLAPS

-----------------------------------------------------------------------------
(* Queues, seen as the sets of what is in them. *)

Members(q) == {q[i] : i \in DOMAIN q}

(* Of each call there is one entry. *)
Once(q) == \A i, j \in DOMAIN q : q[i].call = q[j].call => i = j

(* The waits are before the hops. *)
Ordered(q) == \A i, j \in DOMAIN q : q[i].op = "hop" /\ q[j].op = "wait" => j < i

(* Appending adds a member. *)
LEMMA AppendMembers ==
    ASSUME NEW S, NEW q \in Seq(S), NEW x
    PROVE  /\ Members(Append(q, x)) = Members(q) \union {x}
           /\ Once(q) /\ (\A y \in Members(q) : y.call # x.call) => Once(Append(q, x))
           /\ Ordered(q) /\ (x.op = "wait" => \A y \in Members(q) : y.op # "hop")
              => Ordered(Append(q, x))
  <1> DEFINE a == Append(q, x)
             n == Len(q) + 1
  <1>1. /\ DOMAIN a = DOMAIN q \union {n} /\ n \notin DOMAIN q
        /\ \A i \in DOMAIN q : a[i] = q[i] /\ i < n /\ i \in Nat
        /\ a[n] = x /\ n \in Nat
    OBVIOUS
  <1> HIDE DEF a, n
  <1>2. Members(a) = Members(q) \union {x}
    BY <1>1 DEF Members
  <1>3. ASSUME Once(q), \A y \in Members(q) : y.call # x.call PROVE Once(a)
    BY <1>1, <1>3 DEF Once, Members
  <1>4. ASSUME Ordered(q), x.op = "wait" => \A y \in Members(q) : y.op # "hop"
        PROVE  Ordered(a)
    <2> SUFFICES ASSUME NEW i \in DOMAIN a, NEW j \in DOMAIN a,
                        a[i].op = "hop", a[j].op = "wait"
                 PROVE  j < i
      BY DEF Ordered
    <2>1. CASE i \in DOMAIN q /\ j \in DOMAIN q
      BY <1>1, <1>4, <2>1 DEF Ordered
    <2>2. CASE i \in DOMAIN q /\ j = n
      BY <1>1, <1>4, <2>2 DEF Members
    <2>3. CASE i = n /\ j \in DOMAIN q
      BY <1>1, <2>3
    <2>4. CASE i = n /\ j = n
      BY <1>1, <2>4
    <2> QED
      BY <1>1, <2>1, <2>2, <2>3, <2>4
  <1> QED
    BY <1>2, <1>3, <1>4 DEF a

(* Taking the head removes one, and the hop only when no wait is left. *)
LEMMA TailMembers ==
    ASSUME NEW S, NEW q \in Seq(S), q # <<>>
    PROVE  /\ Members(q) = Members(Tail(q)) \union {Head(q)}
           /\ Once(q) => Once(Tail(q)) /\ \A y \in Members(Tail(q)) : y.call # Head(q).call
           /\ Ordered(q) => /\ Ordered(Tail(q))
                            /\ Head(q).op = "hop" => \A y \in Members(q) : y.op # "wait"
  <1> DEFINE t == Tail(q)
  <1>1. /\ Head(q) = q[1] /\ 1 \in DOMAIN q
        /\ \A i \in DOMAIN t : i \in Nat /\ i + 1 \in DOMAIN q \ {1} /\ t[i] = q[i + 1]
        /\ \A i \in DOMAIN q \ {1} : i - 1 \in DOMAIN t /\ t[i - 1] = q[i]
        /\ \A i \in DOMAIN q : i \in Nat /\ ~(i < 1)
    OBVIOUS
  <1> HIDE DEF t
  <1>2. Members(t) \subseteq Members(q) /\ Head(q) \in Members(q)
    BY <1>1 DEF Members
  <1>3. ASSUME NEW y \in Members(q) PROVE y \in Members(t) \/ y = Head(q)
    <2>1. PICK i \in DOMAIN q : y = q[i]
      BY DEF Members
    <2>2. CASE i = 1
      BY <1>1, <2>1, <2>2
    <2>3. CASE i # 1
      <3>1. i - 1 \in DOMAIN t /\ t[i - 1] = y
        BY <1>1, <2>1, <2>3
      <3> QED
        BY <3>1 DEF Members
    <2> QED
      BY <2>2, <2>3
  <1>4. ASSUME Once(q) PROVE Once(t) /\ \A y \in Members(t) : y.call # Head(q).call
    <2>1. ASSUME NEW i \in DOMAIN t, NEW j \in DOMAIN t, t[i].call = t[j].call
          PROVE  i = j
      <3>1. /\ i \in Nat /\ i + 1 \in DOMAIN q /\ t[i] = q[i + 1]
            /\ j \in Nat /\ j + 1 \in DOMAIN q /\ t[j] = q[j + 1]
        BY <1>1
      <3>2. i + 1 = j + 1
        BY <1>4, <2>1, <3>1 DEF Once
      <3> QED
        BY <3>1, <3>2
    <2>2. ASSUME NEW i \in DOMAIN t PROVE t[i].call # Head(q).call
      BY <1>1, <1>4 DEF Once
    <2> QED
      BY <2>1, <2>2 DEF Once, Members
  <1>5. ASSUME Ordered(q)
        PROVE  Ordered(t) /\ (Head(q).op = "hop" => \A y \in Members(q) : y.op # "wait")
    <2>1. ASSUME NEW i \in DOMAIN t, NEW j \in DOMAIN t, t[i].op = "hop", t[j].op = "wait"
          PROVE  j < i
      <3>1. i \in Nat /\ j \in Nat
        BY <1>1
      <3>2. j + 1 < i + 1
        BY <1>1, <1>5, <2>1 DEF Ordered
      <3> QED
        BY <3>1, <3>2
    <2>2. ASSUME Head(q).op = "hop", NEW j \in DOMAIN q PROVE q[j].op # "wait"
      BY <1>1, <1>5, <2>2 DEF Ordered
    <2> QED
      BY <2>1, <2>2 DEF Ordered, Members
  <1> QED
    BY <1>2, <1>3, <1>4, <1>5 DEF t

(* The calls of a queue are those of its members. *)
LEMMA CallOfMembers ==
    ASSUME NEW q
    PROVE  CallOf(q) = {x.call : x \in Members(q)}
  BY DEF CallOf, Members

LEMMA EmptyMembers ==
    ASSUME NEW q, q = <<>>
    PROVE  Members(q) = {} /\ Once(q) /\ Ordered(q)
  BY DEF Members, Once, Ordered

-----------------------------------------------------------------------------
(* The inductive invariant. *)

IsRun(x) == x.op \in ResumeOps \union {"wait"}
InRun    == dbgThread.at \in {"wait", "dead"}

(* A call is one entry of one queue or in one thread. *)
CallInv ==
    /\ Once(tasks) /\ Once(replies)
    /\ \A x \in Members(tasks), y \in Members(replies) : x.call # y.call
    /\ \A x \in Members(tasks) \union Members(replies) :
          x.call # dbgThread.call /\ x.call # interrupting
    /\ dbgThread.call = interrupting => interrupting = NoCall
    /\ outstanding = {x.call : x \in Members(tasks)} \union {x.call : x \in Members(replies)}
                     \union ({dbgThread.call, interrupting} \ {NoCall})

(* There is one run on its way at a time, from its request to its answer. *)
OneRunInv ==
    /\ \A x, y \in Members(tasks) : IsRun(x) /\ IsRun(y) => x = y
    /\ \A x, y \in Members(replies) : IsRun(x) /\ IsRun(y) => x = y
    /\ \A x \in Members(tasks), y \in Members(replies) : ~(IsRun(x) /\ IsRun(y))
    /\ InRun => \A x \in Members(tasks) \union Members(replies) : ~IsRun(x)

(* A target runs only for a run, and has no reasons meanwhile; one that    *)
(* has ended stays so.                                                     *)
EngineInv ==
    /\ target = "running" => reasons = NoReasons
    /\ "exited" \in Members(events) => target = "exited"
    /\ target = "running" =>
          \/ InRun
          \/ \E x \in Members(tasks) : x.op = "wait"
          \/ \E y \in Members(replies) : y.op \in ResumeOps /\ y.res = "ok"

(* While a pause is on its way no run is before its wait, and its hop is   *)
(* behind that wait.                                                       *)
HopInv ==
    /\ Ordered(tasks)
    /\ (interrupting # NoCall \/ \E x \in Members(tasks) \union Members(replies) : x.op = "hop")
       => \A x \in Members(tasks) \union Members(replies) : x.op \notin ResumeOps
    /\ (\E y \in Members(replies) : y.op = "hop")
       => ~InRun /\ \A x \in Members(tasks) : x.op # "wait"

(* What ReportsAreTrue says of an answer. *)
IsTrue(r) ==
    r.op = "wait" =>
        /\ target # "running"
        /\ r.res = "breakpoint" => reasons[r.thread] = r.bp
        /\ r.res = "exception" => reasons[r.thread] \in {"exceptionBreakpoint", "exception"}
        /\ r.res = "exited" => target = "exited"

ReportInv ==
    /\ \A r \in Members(replies) : IsTrue(r)
    /\ dbgThread.at = "opening" => replies = <<>>

IInv == TypeOK /\ CallInv /\ OneRunInv /\ EngineInv /\ HopInv /\ ReportInv

-----------------------------------------------------------------------------
(* Initially, and from one state to the next. *)

LEMMA InitInv ==
    ASSUME Init PROVE IInv
  <1>1. PICK call \in Calls : LLDBInit(call) /\ outstanding = {call}
    BY DEF Init
  <1>2. Members(tasks) = {} /\ Members(replies) = {} /\ Members(events) = {}
        /\ Once(tasks) /\ Once(replies) /\ Ordered(tasks)
    BY <1>1, EmptyMembers DEF LLDBInit
  <1>3. TypeOK
    <2>1. reasons \in [Threads -> Reasons]
      BY <1>1 DEF LLDBInit, NoReasons, Reasons
    <2>2. tasks \in Seq(Task) /\ replies \in Seq(Reply)
          /\ events \in Seq({"stopped", "exited", "pause"})
      BY <1>1 DEF LLDBInit
    <2>3. call # NoCall
      BY CallsAssumption
    <2> QED
      BY <1>1, <2>1, <2>2, <2>3 DEF TypeOK, LLDBTypeOK, LLDBInit
  <1>4. CallInv
    <2>1. call # NoCall /\ dbgThread.call = call /\ interrupting = NoCall
      BY <1>1, CallsAssumption DEF LLDBInit
    <2>2. \A S : S = {} => {x.call : x \in S} = {}
      OBVIOUS
    <2> QED
      BY <1>1, <1>2, <2>1, <2>2 DEF CallInv
  <1> QED
    BY <1>1, <1>2, <1>3, <1>4
    DEF IInv, OneRunInv, EngineInv, HopInv, ReportInv, InRun, LLDBInit

(* The debug thread answers the head of its queue. *)
LEMMA AnswerHead ==
    ASSUME IInv, tasks # <<>>, Head(tasks).op # "wait", NEW y \in Reply,
           y.op = Head(tasks).op, y.call = Head(tasks).call,
           dbgThread.at = "idle",
           tasks' = Tail(tasks), replies' = Append(replies, y),
           UNCHANGED <<dbgThread, interrupting, outstanding>>
    PROVE  /\ (tasks \in Seq(Task))' /\ (replies \in Seq(Reply))'
           /\ Members(tasks) = Members(tasks)' \union {Head(tasks)}
           /\ Members(replies)' = Members(replies) \union {y}
           /\ CallInv' /\ OneRunInv' /\ HopInv'
  <1> DEFINE h == Head(tasks)
  <1>1. tasks \in Seq(Task) /\ replies \in Seq(Reply)
    BY DEF IInv, TypeOK, LLDBTypeOK
  <1>2. /\ Members(tasks) = Members(tasks)' \union {h}
        /\ Once(tasks) => Once(tasks)' /\ \A x \in Members(tasks)' : x.call # h.call
        /\ Ordered(tasks) => /\ Ordered(tasks)'
                             /\ h.op = "hop" => \A x \in Members(tasks) : x.op # "wait"
    BY <1>1, TailMembers
  <1>3. /\ Members(replies)' = Members(replies) \union {y}
        /\ Once(replies) /\ (\A x \in Members(replies) : x.call # y.call) => Once(replies)'
    BY <1>1, AppendMembers
  <1>4. (tasks \in Seq(Task))' /\ (replies \in Seq(Reply))'
    BY <1>1
  <1> HIDE DEF h
  <1>5. h.op # "wait" /\ y.op = h.op /\ y.call = h.call
    BY DEF h
  <1>6. CallInv'
    BY <1>2, <1>3, <1>5 DEF IInv, CallInv
  <1>7. OneRunInv'
    <2>1. OneRunInv /\ CallInv
      BY DEF IInv
    <2>2. IsRun(h) <=> IsRun(y)
      BY <1>5 DEF IsRun
    <2>3. IsRun(h) => \A x \in Members(tasks)' : ~IsRun(x)
      BY <1>2, <2>1 DEF OneRunInv, CallInv
    <2>4. ~InRun'
      BY DEF InRun
    <2> QED
      BY <1>2, <1>3, <2>1, <2>2, <2>3, <2>4 DEF OneRunInv
  <1>8. HopInv'
    BY <1>2, <1>3, <1>5 DEF IInv, HopInv, InRun, ResumeOps
  <1> QED
    BY <1>2, <1>3, <1>4, <1>6, <1>7, <1>8 DEF h

(* A head that is answered without a change of the target. *)
LEMMA AnswerKeeps ==
    ASSUME IInv, tasks # <<>>, Head(tasks).op # "wait", NEW y \in Reply,
           y.op = Head(tasks).op, y.call = Head(tasks).call,
           dbgThread.at = "idle",
           tasks' = Tail(tasks), replies' = Append(replies, y),
           UNCHANGED <<dbgThread, interrupting, outstanding, events, target, reasons>>,
           breakpoints' \subseteq BpIds
    PROVE  IInv'
  <1>1. /\ (tasks \in Seq(Task))' /\ (replies \in Seq(Reply))'
        /\ Members(tasks) = Members(tasks)' \union {Head(tasks)}
        /\ Members(replies)' = Members(replies) \union {y}
        /\ CallInv' /\ OneRunInv' /\ HopInv'
    BY AnswerHead
  <1>2. TypeOK'
    BY <1>1 DEF IInv, TypeOK, LLDBTypeOK
  <1>3. EngineInv'
    BY <1>1 DEF IInv, EngineInv, InRun
  <1>4. ReportInv'
    BY <1>1 DEF IInv, ReportInv, IsTrue
  <1> QED
    BY <1>1, <1>2, <1>3, <1>4 DEF IInv

(* A head whose success lets the target run. *)
LEMMA AnswerRuns ==
    ASSUME IInv, tasks # <<>>, Head(tasks).op \in ResumeOps, NEW y \in Reply,
           y.op = Head(tasks).op, y.call = Head(tasks).call, y.res = "ok",
           dbgThread.at = "idle",
           tasks' = Tail(tasks), replies' = Append(replies, y),
           UNCHANGED <<dbgThread, interrupting, outstanding, events, breakpoints>>,
           target = "stopped", Runs
    PROVE  IInv'
  <1>0. Head(tasks).op # "wait"
    BY DEF ResumeOps
  <1>1. /\ (tasks \in Seq(Task))' /\ (replies \in Seq(Reply))'
        /\ Members(tasks) = Members(tasks)' \union {Head(tasks)}
        /\ Members(replies)' = Members(replies) \union {y}
        /\ CallInv' /\ OneRunInv' /\ HopInv'
    BY <1>0, AnswerHead
  <1>2. TypeOK'
    <2>1. reasons' \in [Threads -> Reasons]
      BY DEF Runs, NoReasons, Reasons
    <2> QED
      BY <1>1, <2>1 DEF IInv, TypeOK, LLDBTypeOK, Runs
  <1>3. EngineInv'
    <2>1. "exited" \notin Members(events)
      BY DEF IInv, EngineInv
    <2>2. "exited" \notin Members(events)'
      BY <2>1
    <2>3. y \in Members(replies)'
      BY <1>1
    <2> QED
      BY <2>2, <2>3 DEF EngineInv, Runs, InRun, NoReasons, Threads
  <1>4. ReportInv'
    <2>1. \A r \in Members(replies) : r.op # "wait"
      BY <1>1 DEF IInv, OneRunInv, IsRun
    <2> QED
      BY <1>0, <1>1, <2>1 DEF ReportInv, IsTrue
  <1> QED
    BY <1>1, <1>2, <1>3, <1>4 DEF IInv

-----------------------------------------------------------------------------
(* The tasks. *)

LEMMA AnswerTaskIs ==
    ASSUME IInv, NEW res \in Results, NEW bp \in BpIds \union {NoBp},
           tasks # <<>>, AnswerTask(res, bp)
    PROVE  \E y \in Reply : /\ replies' = Append(replies, y)
                            /\ y.op = Head(tasks).op /\ y.call = Head(tasks).call
                            /\ y.res = res
  <1>1. Head(tasks) \in Task
    BY DEF IInv, TypeOK, LLDBTypeOK
  <1> DEFINE y == [op |-> Head(tasks).op, call |-> Head(tasks).call, res |-> res,
                   thread |-> 1, bp |-> bp]
  <1>2. y \in Reply
    BY <1>1, ThreadAssumption DEF Task, Reply, Threads
  <1> QED
    BY <1>2 DEF AnswerTask, Answer

LEMMA GoTaskInv ==
    ASSUME IInv, GoTask, UNCHANGED outstanding PROVE IInv'
  <1>1. /\ tasks # <<>> /\ Head(tasks).op \in ResumeOps /\ Head(tasks).op # "wait"
        /\ dbgThread.at = "idle" /\ tasks' = Tail(tasks)
        /\ UNCHANGED <<dbgThread, interrupting, events, breakpoints>>
    BY DEF GoTask, Take, ResumeOps
  <1>2. breakpoints' \subseteq BpIds
    BY <1>1 DEF IInv, TypeOK, LLDBTypeOK
  <1>3. CASE target = "stopped" /\ Runs /\ AnswerTask("ok", NoBp)
    BY <1>1, <1>3, AnswerTaskIs, AnswerRuns DEF Results
  <1>4. CASE AnswerTask("error", NoBp) /\ UNCHANGED <<target, reasons>>
    BY <1>1, <1>2, <1>4, AnswerTaskIs, AnswerKeeps DEF Results
  <1> QED
    BY <1>3, <1>4 DEF GoTask

LEMMA StepTaskInv ==
    ASSUME IInv, StepTask, UNCHANGED outstanding PROVE IInv'
  <1>1. /\ tasks # <<>> /\ Head(tasks).op \in ResumeOps /\ Head(tasks).op # "wait"
        /\ dbgThread.at = "idle" /\ tasks' = Tail(tasks)
        /\ UNCHANGED <<dbgThread, interrupting, events, breakpoints>>
    BY DEF StepTask, Take, ResumeOps
  <1>2. breakpoints' \subseteq BpIds
    BY <1>1 DEF IInv, TypeOK, LLDBTypeOK
  <1>3. CASE target = "stopped" /\ Runs /\ AnswerTask("ok", NoBp)
    BY <1>1, <1>3, AnswerTaskIs, AnswerRuns DEF Results
  <1>4. ASSUME NEW res \in {"ok", "error"}, AnswerTask(res, NoBp), UNCHANGED <<target, reasons>>
        PROVE  IInv'
    BY <1>1, <1>2, <1>4, AnswerTaskIs, AnswerKeeps DEF Results
  <1> QED
    BY <1>3, <1>4 DEF StepTask

LEMMA QuietTaskInv ==
    ASSUME IInv, HopTask \/ CreateTask \/ RemoveTask \/ QueryTask, UNCHANGED outstanding
    PROVE  IInv'
  <1>1. /\ tasks # <<>> /\ Head(tasks).op # "wait"
        /\ dbgThread.at = "idle" /\ tasks' = Tail(tasks)
        /\ UNCHANGED <<dbgThread, interrupting, events, target, reasons>>
    BY DEF HopTask, CreateTask, RemoveTask, QueryTask, Take, engineVars
  <1>2. Head(tasks).bp \in BpIds \union {NoBp} /\ breakpoints \subseteq BpIds
    <2>1. tasks \in Seq(Task)
      BY DEF IInv, TypeOK, LLDBTypeOK
    <2>2. Head(tasks) \in Task
      BY <1>1, <2>1
    <2> QED
      BY <2>2 DEF IInv, TypeOK, LLDBTypeOK, Task
  <1>3. breakpoints' \subseteq BpIds
    BY <1>2 DEF HopTask, CreateTask, RemoveTask, QueryTask, engineVars
  <1>4. \E res \in Results, bp \in BpIds \union {NoBp} : AnswerTask(res, bp)
    BY <1>2 DEF HopTask, CreateTask, RemoveTask, QueryTask, Results
  <1> QED
    BY <1>1, <1>3, <1>4, AnswerTaskIs, AnswerKeeps

(* The debug thread enters wait(). *)
LEMMA WaitTaskInv ==
    ASSUME IInv, WaitTask, UNCHANGED outstanding PROVE IInv'
  <1> DEFINE h == Head(tasks)
  <1>1. /\ tasks # <<>> /\ h.op = "wait" /\ dbgThread.at = "idle" /\ tasks' = Tail(tasks)
        /\ dbgThread' = [at |-> "wait", call |-> h.call]
        /\ UNCHANGED <<replies, interrupting, outstanding, events, target, reasons, breakpoints>>
    BY DEF WaitTask, Take, engineVars
  <1>2. tasks \in Seq(Task) /\ h \in Task /\ h.call \in Calls /\ h.call # NoCall
    <2>1. tasks \in Seq(Task)
      BY DEF IInv, TypeOK, LLDBTypeOK
    <2>2. h \in Task
      BY <1>1, <2>1
    <2> QED
      BY <2>1, <2>2, CallsAssumption DEF Task
  <1>3. /\ Members(tasks) = Members(tasks)' \union {h}
        /\ Once(tasks) => Once(tasks)' /\ \A x \in Members(tasks)' : x.call # h.call
        /\ Ordered(tasks) => Ordered(tasks)'
    BY <1>1, <1>2, TailMembers
  <1>4. (tasks \in Seq(Task))' /\ Members(replies)' = Members(replies)
        /\ Members(events)' = Members(events) /\ (Once(replies))' = Once(replies)
    BY <1>1, <1>2
  <1> HIDE DEF h
  <1>5. dbgThread.call = NoCall
    BY <1>1 DEF IInv, TypeOK, LLDBTypeOK
  <1>6. TypeOK'
    BY <1>1, <1>2, <1>4 DEF IInv, TypeOK, LLDBTypeOK
  <1>7. CallInv'
    <2>1. CallInv /\ dbgThread'.call = h.call
      BY <1>1 DEF IInv
    <2>2. interrupting # h.call
      BY <1>3, <2>1 DEF CallInv
    <2>3. outstanding' = {x.call : x \in Members(tasks)'} \union {x.call : x \in Members(replies)'}
                     \union ({dbgThread'.call, interrupting'} \ {NoCall})
      BY <1>1, <1>2, <1>3, <1>4, <1>5, <2>1 DEF CallInv
    <2> QED
      BY <1>1, <1>2, <1>3, <1>4, <2>1, <2>2, <2>3 DEF CallInv
  <1>8. OneRunInv'
    <2>1. OneRunInv /\ CallInv /\ IsRun(h)
      BY <1>1 DEF IInv, IsRun
    <2>2. \A x \in Members(tasks)' \union Members(replies)' : ~IsRun(x)
      BY <1>3, <1>4, <2>1 DEF OneRunInv, CallInv
    <2> QED
      BY <1>3, <1>4, <2>1, <2>2 DEF OneRunInv
  <1>9. EngineInv'
    BY <1>1, <1>4 DEF IInv, EngineInv, InRun
  <1>10. HopInv'
    <2>1. HopInv /\ h \in Members(tasks)
      BY <1>3 DEF IInv
    <2>2. \A y \in Members(replies)' : y.op # "hop"
      BY <1>1, <1>4, <2>1 DEF HopInv
    <2> QED
      BY <1>1, <1>3, <1>4, <2>1, <2>2 DEF HopInv
  <1>11. ReportInv'
    BY <1>1, <1>4 DEF IInv, ReportInv, IsTrue
  <1> QED
    BY <1>6, <1>7, <1>8, <1>9, <1>10, <1>11 DEF IInv

(* The thread that creates the context answers. *)
LEMMA OpenInv ==
    ASSUME IInv, Open, UNCHANGED outstanding PROVE IInv'
  <1>1. PICK res \in {"ok", "error"} :
             /\ Answer("open", dbgThread.call, res, 1, NoBp)
             /\ target' \in {"stopped", target}
             /\ reasons' \in [Threads -> Reasons]
             /\ events' \in {<<>>, <<"stopped">>, events}
             /\ \/ target' = target /\ events' = events /\ reasons' = reasons
                \/ target' = "stopped" /\ events' \in {<<>>, <<"stopped">>}
             /\ dbgThread' \in {[at |-> "idle", call |-> NoCall], [at |-> "failed", call |-> NoCall]}
    <2>1. reasons \in [Threads -> Reasons]
      BY DEF IInv, TypeOK, LLDBTypeOK
    <2>2. [t \in Threads |-> IF t = 1 THEN "other" ELSE "none"] \in [Threads -> Reasons]
      BY DEF Reasons, Causes
    <2> QED
      BY <2>1, <2>2 DEF Open
  <1>2. /\ dbgThread.at = "opening"
        /\ UNCHANGED <<tasks, interrupting, breakpoints, outstanding>>
    BY DEF Open
  <1> DEFINE y == [op |-> "open", call |-> dbgThread.call, res |-> res, thread |-> 1, bp |-> NoBp]
  <1>3. dbgThread.call \in Calls /\ dbgThread.call # NoCall
    BY <1>2 DEF IInv, TypeOK, LLDBTypeOK
  <1>4. y \in Reply /\ replies \in Seq(Reply) /\ replies' = Append(replies, y)
        /\ replies = <<>>
    BY <1>1, <1>2, <1>3, ThreadAssumption
    DEF Answer, Reply, Results, Threads, IInv, TypeOK, LLDBTypeOK, ReportInv
  <1>5. y.op = "open" /\ y.call = dbgThread.call
    OBVIOUS
  <1> HIDE DEF y
  <1>6. /\ Members(replies) = {} /\ Members(replies)' = {y}
        /\ Once(replies)' /\ (replies \in Seq(Reply))'
    <2>1. Members(replies) = {} /\ Once(replies)
      BY <1>4, EmptyMembers
    <2>2. replies \in Seq(Reply) /\ y \in Reply /\ replies' = Append(replies, y)
      BY <1>4
    <2>3. /\ Members(replies)' = Members(replies) \union {y}
          /\ Once(replies) /\ (\A x \in Members(replies) : x.call # y.call) => Once(replies)'
      BY <2>2, AppendMembers
    <2>4. (replies \in Seq(Reply))'
      BY <2>2
    <2> QED
      BY <2>1, <2>3, <2>4
  <1>7. Members(tasks)' = Members(tasks) /\ Once(tasks)' = Once(tasks)
        /\ Ordered(tasks)' = Ordered(tasks)
    BY <1>2
  <1>8. TypeOK'
    <2>1. (events \in Seq({"stopped", "exited", "pause"}))'
      <3>1. events \in Seq({"stopped", "exited", "pause"})
        BY DEF IInv, TypeOK, LLDBTypeOK
      <3>2. <<"stopped">> \in Seq({"stopped", "exited", "pause"})
            /\ <<>> \in Seq({"stopped", "exited", "pause"})
        OBVIOUS
      <3>3. events' = <<>> \/ events' = <<"stopped">> \/ events' = events
        BY <1>1
      <3> QED
        BY <3>1, <3>2, <3>3, Zenon
    <2> QED
      BY <1>1, <1>2, <1>6, <2>1 DEF IInv, TypeOK, LLDBTypeOK
  <1>9. CallInv'
    <2>1. CallInv /\ dbgThread'.call = NoCall /\ dbgThread.call # NoCall
      BY <1>1, <1>3 DEF IInv
    <2>2. outstanding' = {x.call : x \in Members(tasks)'} \union {x.call : x \in Members(replies)'}
                     \union ({dbgThread'.call, interrupting'} \ {NoCall})
      BY <1>2, <1>5, <1>6, <1>7, <2>1 DEF CallInv
    <2>3. \A x \in Members(tasks) \union {y} : x.call \in Calls
      <3>1. tasks \in Seq(Task)
        BY DEF IInv, TypeOK, LLDBTypeOK
      <3>2. \A x \in Members(tasks) : x \in Task
        BY <3>1 DEF Members
      <3> QED
        BY <1>3, <1>5, <3>2 DEF Task
    <2> QED
      BY <1>2, <1>5, <1>6, <1>7, <2>1, <2>2, <2>3, CallsAssumption DEF CallInv
  <1>10. OneRunInv'
    BY <1>1, <1>5, <1>6, <1>7 DEF IInv, OneRunInv, IsRun, InRun, ResumeOps
  <1>11. EngineInv'
    <2>1. EngineInv /\ ~InRun
      BY <1>2 DEF IInv, InRun
    <2>2. "exited" \in Members(events)' => events' = events
      BY <1>1 DEF Members
    <2>3. CASE UNCHANGED <<target, events, reasons>>
      BY <1>6, <1>7, <2>1, <2>3 DEF EngineInv
    <2>4. CASE target' = "stopped" /\ events' \in {<<>>, <<"stopped">>}
      <3>1. "exited" \notin Members(events)'
        BY <2>4 DEF Members
      <3> QED
        BY <2>4, <3>1 DEF EngineInv
    <2> QED
      BY <1>1, <2>3, <2>4
  <1>12. HopInv'
    BY <1>1, <1>2, <1>5, <1>6, <1>7 DEF IInv, HopInv, InRun, ResumeOps
  <1>13. ReportInv'
    BY <1>1, <1>5, <1>6 DEF ReportInv, IsTrue
  <1> QED
    BY <1>8, <1>9, <1>10, <1>11, <1>12, <1>13 DEF IInv

-----------------------------------------------------------------------------
(* The calls. *)

(* A new call of another kind than a wait or a hop enters the queue.  A    *)
(* start, a resume or a step is alone.                                     *)
LEMMA EnterInv ==
    ASSUME IInv, NEW x \in Task, x.op \notin {"wait", "hop"},
           x.call \notin outstanding, outstanding' = outstanding \union {x.call},
           x.op \in ResumeOps => outstanding = {},
           interrupting = NoCall, dbgThread.at # "opening",
           tasks' = Append(tasks, x),
           UNCHANGED <<replies, dbgThread, interrupting, engineVars>>
    PROVE  IInv'
  <1>1. /\ tasks \in Seq(Task) /\ x.call \in Calls /\ x.call # NoCall
        /\ UNCHANGED <<target, reasons, events, breakpoints>>
    BY CallsAssumption DEF IInv, TypeOK, LLDBTypeOK, Task, engineVars
  <1>2. /\ Members(tasks)' = Members(tasks) \union {x}
        /\ Once(tasks) /\ (\A y \in Members(tasks) : y.call # x.call) => Once(tasks)'
        /\ Ordered(tasks) => Ordered(tasks)'
    BY <1>1, AppendMembers
  <1>3. (tasks \in Seq(Task))'
    BY <1>1
  <1>4. /\ Members(replies)' = Members(replies) /\ Once(replies)' = Once(replies)
        /\ Members(events)' = Members(events)
    BY <1>1
  <1>5. /\ \A y \in Members(tasks) \union Members(replies) : y.call \in outstanding
        /\ dbgThread.call # x.call
    BY <1>1 DEF IInv, CallInv
  <1>6. TypeOK'
    BY <1>1, <1>3 DEF IInv, TypeOK, LLDBTypeOK
  <1>7. CallInv'
    <2>1. CallInv
      BY DEF IInv
    <2>2. outstanding' = {y.call : y \in Members(tasks)'} \union {y.call : y \in Members(replies)'}
                     \union ({dbgThread'.call, interrupting'} \ {NoCall})
      BY <1>2, <1>4, <2>1 DEF CallInv
    <2>3. \A y \in Members(tasks)', z \in Members(replies)' : y.call # z.call
      BY <1>2, <1>4, <1>5, <2>1 DEF CallInv
    <2>4. \A y \in Members(tasks)' \union Members(replies)' :
             y.call # dbgThread'.call /\ y.call # interrupting'
      BY <1>1, <1>2, <1>4, <1>5, <2>1 DEF CallInv
    <2>5. Once(tasks)' /\ Once(replies)'
      BY <1>2, <1>4, <1>5, <2>1 DEF CallInv
    <2> QED
      BY <2>1, <2>2, <2>3, <2>4, <2>5 DEF CallInv
  <1>8. OneRunInv'
    <2>1. OneRunInv /\ (IsRun(x) => x.op \in ResumeOps)
      BY DEF IInv, IsRun
    <2>2. CASE outstanding = {}
      <3>1. Members(tasks) = {} /\ Members(replies) = {} /\ dbgThread.call = NoCall
        BY <1>5, <2>2 DEF IInv, CallInv
      <3>2. ~InRun
        BY <3>1 DEF InRun, IInv, TypeOK, LLDBTypeOK
      <3> QED
        BY <1>2, <1>4, <3>1, <3>2 DEF OneRunInv, InRun
    <2>3. CASE outstanding # {}
      BY <1>2, <1>4, <2>1, <2>3 DEF OneRunInv, InRun
    <2> QED
      BY <2>2, <2>3
  <1>9. EngineInv'
    BY <1>1, <1>2, <1>4 DEF IInv, EngineInv, InRun
  <1>10. HopInv'
    <2>1. CASE outstanding = {}
      <3>1. Members(tasks) = {} /\ Members(replies) = {}
        BY <1>5, <2>1
      <3> QED
        BY <1>2, <1>4, <3>1 DEF IInv, HopInv
    <2>2. CASE outstanding # {}
      BY <1>2, <1>4, <2>2 DEF IInv, HopInv, InRun
    <2> QED
      BY <2>1, <2>2
  <1>11. ReportInv'
    BY <1>1, <1>4 DEF IInv, ReportInv, IsTrue
  <1> QED
    BY <1>6, <1>7, <1>8, <1>9, <1>10, <1>11 DEF IInv

LEMMA MakeRunInv ==
    ASSUME IInv, MakeRun PROVE IInv'
  <1>1. PICK op \in ResumeOps, call \in Calls :
             /\ outstanding = {} /\ New(op, call) /\ Post(op, call, NoBp)
             /\ UNCHANGED <<replies, dbgThread, interrupting, engineVars>>
    BY DEF MakeRun
  <1> DEFINE x == [op |-> op, call |-> call, bp |-> NoBp]
  <1>2. x \in Task /\ x.op = op /\ x.call = call /\ tasks' = Append(tasks, x)
    BY <1>1 DEF Task, TaskOps, Post
  <1>3. /\ call \notin outstanding /\ outstanding' = outstanding \union {call}
        /\ interrupting = NoCall /\ dbgThread.at # "opening"
    BY <1>1 DEF New, Free
  <1>4. op \notin {"wait", "hop"}
    BY DEF ResumeOps
  <1> HIDE DEF x
  <1> QED
    BY <1>1, <1>2, <1>3, <1>4, EnterInv

LEMMA MakeCallInv ==
    ASSUME IInv, MakeCall PROVE IInv'
  <1>1. PICK op \in {"create", "query", "remove"}, call \in Calls, bp \in BpIds \union {NoBp} :
             /\ New(op, call) /\ Post(op, call, bp)
             /\ UNCHANGED <<replies, dbgThread, interrupting, engineVars>>
    BY DEF MakeCall
  <1> DEFINE x == [op |-> op, call |-> call, bp |-> bp]
  <1>2. x \in Task /\ x.op = op /\ x.call = call /\ tasks' = Append(tasks, x)
    BY <1>1 DEF Task, TaskOps, Post
  <1>3. /\ call \notin outstanding /\ outstanding' = outstanding \union {call}
        /\ interrupting = NoCall /\ dbgThread.at # "opening"
    BY <1>1 DEF New, Free
  <1>4. op \notin {"wait", "hop"} /\ op \notin ResumeOps
    BY DEF ResumeOps
  <1> HIDE DEF x
  <1> QED
    BY <1>1, <1>2, <1>3, <1>4, EnterInv

(* interrupt() is begun, with no resume before its wait. *)
LEMMA PauseInv ==
    ASSUME IInv, Pause PROVE IInv'
  <1>1. PICK call \in Calls : Settled /\ New("pause", call) /\ PauseBegin(call)
    BY DEF Pause
  <1>2. /\ interrupting = NoCall /\ call \notin outstanding
        /\ interrupting' = call /\ outstanding' = outstanding \union {call}
        /\ UNCHANGED <<tasks, replies, dbgThread, events, target, reasons, breakpoints>>
    BY <1>1 DEF New, Free, PauseBegin, engineVars
  <1>3. /\ Members(tasks)' = Members(tasks) /\ Members(replies)' = Members(replies)
        /\ Members(events)' = Members(events) /\ Once(tasks)' = Once(tasks)
        /\ Once(replies)' = Once(replies) /\ Ordered(tasks)' = Ordered(tasks)
    BY <1>2
  <1>4. \A x \in Members(tasks) \union Members(replies) : x.op \notin ResumeOps
    BY <1>1 DEF Settled, Answered, Queued, Members
  <1>5. TypeOK'
    BY <1>2 DEF IInv, TypeOK, LLDBTypeOK
  <1>6. CallInv'
    <2>1. CallInv /\ call # NoCall
      BY CallsAssumption DEF IInv
    <2>2. /\ \A x \in Members(tasks) \union Members(replies) : x.call # call
          /\ dbgThread.call # call
      BY <1>2, <2>1 DEF CallInv
    <2>3. outstanding' = {x.call : x \in Members(tasks)'} \union {x.call : x \in Members(replies)'}
                     \union ({dbgThread'.call, interrupting'} \ {NoCall})
      BY <1>2, <1>3, <2>1 DEF CallInv
    <2> QED
      BY <1>2, <1>3, <2>1, <2>2, <2>3 DEF CallInv
  <1>7. OneRunInv'
    BY <1>2, <1>3 DEF IInv, OneRunInv, InRun
  <1>8. EngineInv'
    BY <1>2, <1>3 DEF IInv, EngineInv, InRun
  <1>9. HopInv'
    BY <1>2, <1>3, <1>4 DEF IInv, HopInv, InRun
  <1>10. ReportInv'
    BY <1>2, <1>3 DEF IInv, ReportInv, IsTrue
  <1> QED
    BY <1>5, <1>6, <1>7, <1>8, <1>9, <1>10 DEF IInv

(* The broadcast and its hop. *)
LEMMA PauseIssuedInv ==
    ASSUME IInv, PauseIssued PROVE IInv'
  <1> DEFINE x == [op |-> "hop", call |-> interrupting, bp |-> NoBp]
  <1>1. /\ interrupting # NoCall /\ interrupting' = NoCall
        /\ events' = Append(events, "pause") /\ tasks' = Append(tasks, x)
        /\ UNCHANGED <<replies, dbgThread, target, reasons, breakpoints, outstanding>>
    BY DEF PauseIssued, PauseEnd, Post
  <1>2. /\ tasks \in Seq(Task) /\ events \in Seq({"stopped", "exited", "pause"})
        /\ interrupting \in Calls
    BY <1>1 DEF IInv, TypeOK, LLDBTypeOK
  <1>3. x \in Task /\ x.op = "hop" /\ x.call = interrupting
    BY <1>2 DEF Task, TaskOps
  <1> HIDE DEF x
  <1>4. /\ Members(tasks)' = Members(tasks) \union {x}
        /\ Once(tasks) /\ (\A y \in Members(tasks) : y.call # x.call) => Once(tasks)'
        /\ Ordered(tasks) => Ordered(tasks)'
    BY <1>1, <1>2, <1>3, AppendMembers
  <1>5. Members(events)' = Members(events) \union {"pause"}
    <2>1. "pause" \in {"stopped", "exited", "pause"}
      OBVIOUS
    <2> QED
      BY <1>1, <1>2, <2>1, AppendMembers
  <1>6. (tasks \in Seq(Task))' /\ (events \in Seq({"stopped", "exited", "pause"}))'
    BY <1>1, <1>2, <1>3
  <1>7. Members(replies)' = Members(replies) /\ Once(replies)' = Once(replies)
    BY <1>1
  <1>8. TypeOK'
    BY <1>1, <1>6 DEF IInv, TypeOK, LLDBTypeOK
  <1>9. CallInv'
    <2>1. CallInv
      BY DEF IInv
    <2>2. outstanding' = {y.call : y \in Members(tasks)'} \union {y.call : y \in Members(replies)'}
                     \union ({dbgThread'.call, interrupting'} \ {NoCall})
      BY <1>1, <1>3, <1>4, <1>7, <2>1 DEF CallInv
    <2>3. \A y \in Members(tasks)' \union Members(replies)' : y.call # NoCall
      <3>1. tasks \in Seq(Task) /\ replies \in Seq(Reply)
        BY DEF IInv, TypeOK, LLDBTypeOK
      <3>2. /\ \A y \in Members(tasks) : y \in Task
            /\ \A y \in Members(replies) : y \in Reply
        BY <3>1 DEF Members
      <3>3. \A y \in Members(tasks) \union Members(replies) : y.call \in Calls
        BY <3>2 DEF Task, Reply
      <3> QED
        BY <1>2, <1>3, <1>4, <1>7, <3>3, CallsAssumption
    <2>4. \A y \in Members(tasks)', z \in Members(replies)' : y.call # z.call
      BY <1>3, <1>4, <1>7, <2>1 DEF CallInv
    <2>5. Once(tasks)' /\ Once(replies)'
      BY <1>3, <1>4, <1>7, <2>1 DEF CallInv
    <2>6. \A y \in Members(tasks)' \union Members(replies)' : y.call # dbgThread'.call
      BY <1>1, <1>3, <1>4, <1>7, <2>1 DEF CallInv
    <2> QED
      BY <1>1, <2>1, <2>2, <2>3, <2>4, <2>5, <2>6 DEF CallInv
  <1>10. OneRunInv'
    <2>1. ~IsRun(x)
      BY <1>3 DEF IsRun, ResumeOps
    <2> QED
      BY <1>1, <1>4, <1>7, <2>1 DEF IInv, OneRunInv, InRun
  <1>11. EngineInv'
    BY <1>1, <1>4, <1>5, <1>7 DEF IInv, EngineInv, InRun
  <1>12. HopInv'
    BY <1>1, <1>3, <1>4, <1>7 DEF IInv, HopInv, InRun, ResumeOps
  <1>13. ReportInv'
    BY <1>1, <1>7 DEF IInv, ReportInv, IsTrue
  <1> QED
    BY <1>8, <1>9, <1>10, <1>11, <1>12, <1>13 DEF IInv

(* The answer of a resume that succeeded is followed by its wait; every    *)
(* other answer is delivered.                                              *)
LEMMA DeliverInv ==
    ASSUME IInv, Deliver PROVE IInv'
  <1> DEFINE r == Head(replies)
             x == [op |-> "wait", call |-> r.call, bp |-> NoBp]
  <1>1. /\ interrupting = NoCall /\ replies # <<>> /\ replies' = Tail(replies)
        /\ UNCHANGED <<dbgThread, interrupting, events, target, reasons, breakpoints>>
    BY DEF Deliver, engineVars
  <1>2. \/ /\ r.op \in ResumeOps /\ r.res = "ok"
           /\ tasks' = Append(tasks, x) /\ UNCHANGED outstanding
        \/ /\ ~(r.op \in ResumeOps /\ r.res = "ok")
           /\ outstanding' = outstanding \ {r.call} /\ UNCHANGED tasks
    BY DEF Deliver, Post
  <1>3. tasks \in Seq(Task) /\ replies \in Seq(Reply) /\ r \in Reply
    <2>1. tasks \in Seq(Task) /\ replies \in Seq(Reply)
      BY DEF IInv, TypeOK, LLDBTypeOK
    <2> QED
      BY <1>1, <2>1
  <1>4. x \in Task /\ x.op = "wait" /\ x.call = r.call
    BY <1>3 DEF Task, TaskOps, Reply
  <1>5. /\ Members(replies) = Members(replies)' \union {r}
        /\ Once(replies) => Once(replies)' /\ \A y \in Members(replies)' : y.call # r.call
    BY <1>1, <1>3, TailMembers
  <1>6. (replies \in Seq(Reply))' /\ Members(events)' = Members(events)
    BY <1>1, <1>3
  <1> HIDE DEF x, r
  <1>7. CallInv /\ OneRunInv /\ EngineInv /\ HopInv /\ ReportInv
        /\ dbgThread' = dbgThread /\ interrupting' = interrupting
    BY <1>1 DEF IInv
  <1>8. CASE r.op \in ResumeOps /\ r.res = "ok" /\ tasks' = Append(tasks, x) /\ UNCHANGED outstanding
    <2>1. /\ Members(tasks)' = Members(tasks) \union {x}
          /\ Once(tasks) /\ (\A y \in Members(tasks) : y.call # x.call) => Once(tasks)'
          /\ Ordered(tasks) /\ (x.op = "wait" => \A y \in Members(tasks) : y.op # "hop")
             => Ordered(tasks)'
      BY <1>3, <1>4, <1>8, AppendMembers
    <2>2. (tasks \in Seq(Task))'
      BY <1>3, <1>4, <1>8
    <2>3. IsRun(r) /\ IsRun(x) /\ \A y \in Members(tasks) \union Members(replies)' : ~IsRun(y)
      BY <1>4, <1>5, <1>7, <1>8 DEF IsRun, OneRunInv, CallInv
    <2>4. TypeOK'
      BY <1>1, <1>6, <1>8, <2>2 DEF IInv, TypeOK, LLDBTypeOK
    <2>5. CallInv'
      <3>1. outstanding' = {y.call : y \in Members(tasks)'} \union {y.call : y \in Members(replies)'}
                       \union ({dbgThread'.call, interrupting'} \ {NoCall})
        BY <1>1, <1>4, <1>5, <1>7, <1>8, <2>1 DEF CallInv
      <3>2. \A y \in Members(tasks)', z \in Members(replies)' : y.call # z.call
        BY <1>4, <1>5, <1>7, <2>1 DEF CallInv
      <3>3. \A y \in Members(tasks)' \union Members(replies)' :
               y.call # dbgThread'.call /\ y.call # interrupting'
        BY <1>4, <1>5, <1>7, <2>1 DEF CallInv
      <3>4. Once(tasks)' /\ Once(replies)'
        BY <1>4, <1>5, <1>7, <2>1 DEF CallInv
      <3> QED
        BY <1>7, <3>1, <3>2, <3>3, <3>4 DEF CallInv
    <2>6. OneRunInv'
      <3>1. ~InRun
        BY <1>5, <1>7, <2>3 DEF OneRunInv
      <3> QED
        BY <1>7, <2>1, <2>3, <3>1 DEF OneRunInv, InRun
    <2>7. EngineInv'
      BY <1>1, <1>4, <1>6, <1>7, <2>1 DEF EngineInv
    <2>8. HopInv'
      <3>1. \A y \in Members(tasks) \union Members(replies) : y.op # "hop"
        BY <1>5, <1>7, <1>8 DEF HopInv
      <3> QED
        BY <1>1, <1>4, <1>5, <1>7, <2>1, <3>1 DEF HopInv, ResumeOps
    <2>9. ReportInv'
      <3>1. replies # <<>>
        BY <1>1
      <3> QED
        BY <1>1, <1>5, <1>7, <3>1 DEF ReportInv, IsTrue
    <2> QED
      BY <2>4, <2>5, <2>6, <2>7, <2>8, <2>9 DEF IInv
  <1>9. CASE /\ ~(r.op \in ResumeOps /\ r.res = "ok")
             /\ outstanding' = outstanding \ {r.call} /\ UNCHANGED tasks
    <2>1. /\ Members(tasks)' = Members(tasks) /\ Once(tasks)' = Once(tasks)
          /\ Ordered(tasks)' = Ordered(tasks)
      BY <1>9
    <2>2. TypeOK'
      BY <1>1, <1>6, <1>9 DEF IInv, TypeOK, LLDBTypeOK
    <2>3. CallInv'
      <3>1. outstanding' = {y.call : y \in Members(tasks)'} \union {y.call : y \in Members(replies)'}
                       \union ({dbgThread'.call, interrupting'} \ {NoCall})
        BY <1>1, <1>5, <1>7, <1>9, <2>1 DEF CallInv
      <3> QED
        BY <1>5, <1>7, <2>1, <3>1 DEF CallInv
    <2>4. OneRunInv'
      BY <1>5, <1>7, <2>1 DEF OneRunInv, InRun
    <2>5. EngineInv'
      BY <1>1, <1>5, <1>6, <1>7, <1>9, <2>1 DEF EngineInv, InRun
    <2>6. HopInv'
      BY <1>5, <1>7, <2>1 DEF HopInv, InRun
    <2>7. ReportInv'
      BY <1>1, <1>5, <1>7 DEF ReportInv, IsTrue
    <2> QED
      BY <2>2, <2>3, <2>4, <2>5, <2>6, <2>7 DEF IInv
  <1> QED
    BY <1>2, <1>8, <1>9 DEF r, x

-----------------------------------------------------------------------------
(* Inside wait(). *)

(* A run is answered with the truth about a target that stands still. *)
LEMMA EndRunInv ==
    ASSUME IInv, dbgThread.at = "wait",
           NEW res \in Results, NEW thread \in Threads, NEW bp \in BpIds \union {NoBp},
           EndRun(res, thread, bp),
           UNCHANGED <<tasks, interrupting, breakpoints, outstanding>>,
           (events \in Seq({"stopped", "exited", "pause"}))',
           "exited" \in Members(events)' => "exited" \in Members(events),
           target' \in {"stopped", "exited"}, target = "exited" => target' = "exited",
           reasons' \in [Threads -> Reasons],
           res = "breakpoint" => reasons'[thread] = bp,
           res = "exception" => reasons'[thread] \in {"exceptionBreakpoint", "exception"},
           res = "exited" => target' = "exited"
    PROVE  IInv'
  <1>1. dbgThread' = [at |-> "idle", call |-> NoCall]
    BY DEF EndRun
  <1>2. /\ replies \in Seq(Reply) /\ dbgThread.call \in Calls /\ dbgThread.call # NoCall
        /\ tasks \in Seq(Task)
    BY DEF IInv, TypeOK, LLDBTypeOK
  <1>3. PICK y \in Reply :
             y = [op |-> "wait", call |-> dbgThread.call, res |-> res, thread |-> thread, bp |-> bp]
    BY <1>2 DEF Reply, TaskOps
  <1>4. /\ y.op = "wait" /\ y.call = dbgThread.call /\ y.res = res
        /\ y.thread = thread /\ y.bp = bp /\ replies' = Append(replies, y)
    BY <1>3 DEF EndRun, Answer
  <1>5. /\ Members(replies)' = Members(replies) \union {y}
        /\ Once(replies) /\ (\A z \in Members(replies) : z.call # y.call) => Once(replies)'
    BY <1>2, <1>4, AppendMembers
  <1>6. (replies \in Seq(Reply))'
    BY <1>2, <1>4
  <1>7. /\ Members(tasks)' = Members(tasks) /\ Once(tasks)' = Once(tasks)
        /\ Ordered(tasks)' = Ordered(tasks)
    OBVIOUS
  <1>8. CallInv /\ OneRunInv /\ EngineInv /\ HopInv /\ ReportInv
        /\ dbgThread'.call = NoCall /\ ~InRun' /\ InRun /\ IsRun(y)
    BY <1>1, <1>4 DEF IInv, InRun, IsRun
  <1>9. TypeOK'
    BY <1>1, <1>6 DEF IInv, TypeOK, LLDBTypeOK
  <1>10. CallInv'
    <2>1. outstanding' = {z.call : z \in Members(tasks)'} \union {z.call : z \in Members(replies)'}
                     \union ({dbgThread'.call, interrupting'} \ {NoCall})
      BY <1>2, <1>4, <1>5, <1>7, <1>8 DEF CallInv
    <2>2. \A z \in Members(tasks)' \union Members(replies)' : z.call # NoCall
      <3>1. /\ \A z \in Members(tasks) : z \in Task
            /\ \A z \in Members(replies) : z \in Reply
        BY <1>2 DEF Members
      <3>2. \A z \in Members(tasks) \union Members(replies) : z.call \in Calls
        BY <3>1 DEF Task, Reply
      <3> QED
        BY <1>2, <1>4, <1>5, <1>7, <3>2, CallsAssumption
    <2>3. \A z \in Members(tasks)', w \in Members(replies)' : z.call # w.call
      BY <1>4, <1>5, <1>7, <1>8 DEF CallInv
    <2>4. Once(tasks)' /\ Once(replies)'
      BY <1>4, <1>5, <1>7, <1>8 DEF CallInv
    <2>5. \A z \in Members(tasks)' \union Members(replies)' : z.call # interrupting'
      BY <1>2, <1>4, <1>5, <1>7, <1>8 DEF CallInv
    <2> QED
      BY <1>8, <2>1, <2>2, <2>3, <2>4, <2>5 DEF CallInv
  <1>11. OneRunInv'
    <2>1. \A z \in Members(tasks) \union Members(replies) : ~IsRun(z)
      BY <1>8 DEF OneRunInv
    <2> QED
      BY <1>5, <1>7, <1>8, <2>1 DEF OneRunInv
  <1>12. EngineInv'
    BY <1>8 DEF EngineInv
  <1>13. HopInv'
    BY <1>4, <1>5, <1>7, <1>8 DEF HopInv, ResumeOps
  <1>14. ReportInv'
    <2>1. \A z \in Members(replies) : z.op # "wait"
      BY <1>8 DEF OneRunInv, IsRun
    <2>2. IsTrue(y)'
      BY <1>1, <1>4 DEF IsTrue
    <2> QED
      BY <1>1, <1>5, <2>1, <2>2 DEF ReportInv, IsTrue
  <1> QED
    BY <1>9, <1>10, <1>11, <1>12, <1>13, <1>14 DEF IInv

(* An event is taken: the rest of the queue stays. *)
LEMMA EventTaken ==
    ASSUME IInv, NEW event, TakeEvent(event)
    PROVE  /\ dbgThread.at = "wait" /\ event \in Members(events)
           /\ Tail(events) \in Seq({"stopped", "exited", "pause"})
           /\ Members(Tail(events)) \subseteq Members(events)
  <1>1. /\ events \in Seq({"stopped", "exited", "pause"}) /\ events # <<>>
        /\ dbgThread.at = "wait" /\ Head(events) = event
    BY DEF TakeEvent, IInv, TypeOK, LLDBTypeOK
  <1>2. Members(events) = Members(Tail(events)) \union {Head(events)}
    BY <1>1, TailMembers
  <1> QED
    BY <1>1, <1>2

(* Nothing but the engine or the place of the debug thread in its run      *)
(* changes.                                                                *)
LEMMA EngineActs ==
    ASSUME IInv, InRun' <=> InRun, dbgThread'.call = dbgThread.call,
           dbgThread' = dbgThread \/ (InRun /\ dbgThread'.at # "opening"),
           dbgThread' \in [at : {"opening", "failed", "idle", "wait", "dead"},
                           call : Calls \union {NoCall}],
           InRun \/ target = "running",
           UNCHANGED <<tasks, replies, interrupting, breakpoints, outstanding>>,
           (events \in Seq({"stopped", "exited", "pause"}))',
           "exited" \in Members(events)' => target' = "exited",
           target' \in {"stopped", "running", "exited"},
           reasons' \in [Threads -> Reasons],
           target' = "running" => target = "running" /\ reasons' = NoReasons
    PROVE  IInv'
  <1>1. /\ Members(tasks)' = Members(tasks) /\ Members(replies)' = Members(replies)
        /\ Once(tasks)' = Once(tasks) /\ Once(replies)' = Once(replies)
        /\ Ordered(tasks)' = Ordered(tasks)
    OBVIOUS
  <1>2. TypeOK'
    <2>1. CASE dbgThread' = dbgThread
      BY <2>1 DEF IInv, TypeOK, LLDBTypeOK
    <2>2. CASE InRun /\ dbgThread'.at # "opening"
      <3>1. dbgThread.call # NoCall
        BY <2>2 DEF InRun, IInv, TypeOK, LLDBTypeOK
      <3> QED
        BY <2>2, <3>1 DEF InRun, IInv, TypeOK, LLDBTypeOK
    <2> QED
      BY <2>1, <2>2
  <1>3. CallInv'
    BY <1>1 DEF IInv, CallInv
  <1>4. OneRunInv' /\ HopInv'
    BY <1>1 DEF IInv, OneRunInv, HopInv
  <1>5. EngineInv'
    <2>1. target' = "running" => reasons' = NoReasons'
      BY DEF NoReasons, Threads
    <2> QED
      BY <1>1, <2>1 DEF IInv, EngineInv
  <1>6. ReportInv'
    <2>1. \A z \in Members(replies) : z.op # "wait"
      <3>1. CASE InRun
        BY <3>1 DEF IInv, OneRunInv, IsRun
      <3>2. CASE target = "running"
        BY <3>2 DEF IInv, ReportInv, IsTrue
      <3> QED
        BY <3>1, <3>2
    <2>2. dbgThread'.at = "opening" => dbgThread.at = "opening"
      OBVIOUS
    <2> QED
      BY <1>1, <2>1, <2>2 DEF IInv, ReportInv, IsTrue
  <1> QED
    BY <1>2, <1>3, <1>4, <1>5, <1>6 DEF IInv

LEMMA TakeStoppedInv ==
    ASSUME IInv, TakeStopped, UNCHANGED outstanding PROVE IInv'
  <1>1. /\ dbgThread.at = "wait"
        /\ events' \in Seq({"stopped", "exited", "pause"})
        /\ Members(events)' \subseteq Members(events)
        /\ UNCHANGED <<tasks, interrupting, target, reasons, breakpoints, outstanding>>
    <2>1. events' = Tail(events)
      BY DEF TakeStopped
    <2> QED
      BY <2>1, EventTaken DEF TakeStopped
  <1>2. /\ reasons \in [Threads -> Reasons] /\ target \in {"stopped", "running", "exited"}
        /\ target = "running" => reasons = NoReasons
        /\ "exited" \in Members(events) => target = "exited"
    BY DEF IInv, TypeOK, LLDBTypeOK, EngineInv
  <1>3. ASSUME NEW t \in Threads, FirstStopped(t), Report(t) PROVE IInv'
    <2>1. target # "running"
      BY <1>2, <1>3 DEF FirstStopped, NoReasons
    <2>2. CASE reasons[t] \in BpIds /\ EndRun("breakpoint", t, reasons[t])
      <3>1. "breakpoint" \in Results /\ "breakpoint" \notin {"exception", "exited"}
        BY DEF Results
      <3> QED
        BY <1>1, <1>2, <2>1, <2>2, <3>1, EndRunInv
    <2>3. CASE /\ reasons[t] \in {"exceptionBreakpoint", "exception"}
               /\ EndRun("exception", t, NoBp)
      <3>1. "exception" \in Results /\ "exception" \notin {"breakpoint", "exited"}
        BY DEF Results
      <3> QED
        BY <1>1, <1>2, <2>1, <2>3, <3>1, EndRunInv
    <2>4. CASE EndRun("paused", t, NoBp)
      <3>1. "paused" \in Results /\ "paused" \notin {"breakpoint", "exception", "exited"}
        BY DEF Results
      <3> QED
        BY <1>1, <1>2, <2>1, <2>4, <3>1, EndRunInv
    <2> QED
      BY <1>3, <2>2, <2>3, <2>4 DEF Report
  <1>4. CASE UNCHANGED <<replies, dbgThread>>
    BY <1>1, <1>2, <1>4, EngineActs DEF InRun, IInv, TypeOK, LLDBTypeOK
  <1> QED
    BY <1>3, <1>4 DEF TakeStopped

LEMMA TakeExitedInv ==
    ASSUME IInv, TakeExited, UNCHANGED outstanding PROVE IInv'
  <1>1. /\ dbgThread.at = "wait" /\ "exited" \in Members(events)
        /\ events' \in Seq({"stopped", "exited", "pause"})
        /\ Members(events)' \subseteq Members(events)
        /\ EndRun("exited", 1, NoBp)
        /\ UNCHANGED <<tasks, interrupting, target, reasons, breakpoints, outstanding>>
    <2>1. events' = Tail(events)
      BY DEF TakeExited
    <2> QED
      BY <2>1, EventTaken DEF TakeExited
  <1>2. reasons \in [Threads -> Reasons] /\ target = "exited"
    BY <1>1 DEF IInv, TypeOK, LLDBTypeOK, EngineInv
  <1>3. 1 \in Threads /\ "exited" \in Results /\ "exited" \notin {"breakpoint", "exception"}
    BY ThreadAssumption DEF Threads, Results
  <1> QED
    BY <1>1, <1>2, <1>3, EndRunInv

LEMMA TakePauseInv ==
    ASSUME IInv, TakePause, UNCHANGED outstanding PROVE IInv'
  <1> DEFINE E == {"stopped", "exited", "pause"}
  <1>1. /\ dbgThread.at = "wait" /\ Tail(events) \in Seq(E)
        /\ Members(Tail(events)) \subseteq Members(events)
        /\ EndRun("paused", 1, NoBp)
        /\ UNCHANGED <<tasks, interrupting, breakpoints, outstanding>>
    BY EventTaken DEF TakePause
  <1>2. /\ reasons \in [Threads -> Reasons] /\ target \in {"stopped", "running", "exited"}
        /\ breakpoints \subseteq BpIds
    BY DEF IInv, TypeOK, LLDBTypeOK
  <1>3. 1 \in Threads /\ "paused" \in Results
        /\ "paused" \notin {"breakpoint", "exception", "exited"}
    BY ThreadAssumption DEF Threads, Results
  <1>4. events' \in Seq(E) /\ ("exited" \in Members(events)' => "exited" \in Members(events))
    <2>1. CASE events' = Tail(events)
      BY <1>1, <2>1
    <2>2. CASE events' = Append(Tail(events), "stopped")
      <3>1. "stopped" \in E /\ "stopped" # "exited"
        OBVIOUS
      <3>2. Members(events)' = Members(Tail(events)) \union {"stopped"}
        BY <1>1, <2>2, <3>1, AppendMembers
      <3> QED
        BY <1>1, <2>2, <3>1, <3>2
    <2> QED
      BY <2>1, <2>2 DEF TakePause
  <1>5. /\ target' \in {"stopped", "exited"} /\ (target = "exited" => target' = "exited")
        /\ reasons' \in [Threads -> Reasons]
    <2>1. CASE target' = "stopped" /\ target = "running" /\ reasons' \in StopReasons
      BY <1>2, <2>1 DEF StopReasons, Reasons, Causes
    <2>2. CASE target # "running" /\ UNCHANGED <<target, reasons>>
      BY <1>2, <2>2
    <2> QED
      BY <2>1, <2>2 DEF TakePause
  <1> QED
    BY <1>1, <1>3, <1>4, <1>5, EndRunInv

LEMMA StopFailsInv ==
    ASSUME IInv, StopFails, UNCHANGED outstanding PROVE IInv'
  <1>1. /\ dbgThread.at = "wait" /\ dbgThread' = [dbgThread EXCEPT !.at = "dead"]
        /\ events' \in Seq({"stopped", "exited", "pause"})
        /\ Members(events)' \subseteq Members(events)
        /\ UNCHANGED <<tasks, replies, interrupting, target, reasons, breakpoints, outstanding>>
    <2>1. events' = Tail(events)
      BY DEF StopFails
    <2> QED
      BY <2>1, EventTaken DEF StopFails
  <1>2. dbgThread \in [at : {"opening", "failed", "idle", "wait", "dead"},
                       call : Calls \union {NoCall}]
    BY DEF IInv, TypeOK, LLDBTypeOK
  <1>3. /\ dbgThread'.at = "dead" /\ dbgThread'.call = dbgThread.call
        /\ dbgThread' \in [at : {"opening", "failed", "idle", "wait", "dead"},
                           call : Calls \union {NoCall}]
    BY <1>1, <1>2
  <1>4. InRun /\ InRun'
    BY <1>1, <1>3 DEF InRun
  <1>5. /\ reasons \in [Threads -> Reasons] /\ target \in {"stopped", "running", "exited"}
        /\ target = "running" => reasons = NoReasons
        /\ "exited" \in Members(events) => target = "exited"
    BY DEF IInv, TypeOK, LLDBTypeOK, EngineInv
  <1> QED
    BY <1>1, <1>3, <1>4, <1>5, EngineActs

-----------------------------------------------------------------------------
(* The target, and the whole step. *)

LEMMA TargetActsInv ==
    ASSUME IInv, TargetActs PROVE IInv'
  <1> DEFINE E == {"stopped", "exited", "pause"}
  <1>1. /\ target = "running"
        /\ UNCHANGED <<tasks, replies, dbgThread, interrupting, breakpoints, outstanding>>
        /\ \/ events' = Append(events, "stopped") /\ target' = "stopped" /\ reasons' \in StopReasons
           \/ events' = Append(events, "exited") /\ target' = "exited" /\ reasons' = reasons
    BY DEF TargetActs, TargetStops, TargetExits
  <1>2. /\ events \in Seq(E) /\ reasons \in [Threads -> Reasons] /\ breakpoints \subseteq BpIds
        /\ dbgThread \in [at : {"opening", "failed", "idle", "wait", "dead"},
                          call : Calls \union {NoCall}]
    BY DEF IInv, TypeOK, LLDBTypeOK
  <1>3. "exited" \notin Members(events)
    BY <1>1 DEF IInv, EngineInv
  <1>4. reasons' \in [Threads -> Reasons]
    BY <1>1, <1>2 DEF StopReasons, Reasons, Causes
  <1>5. events' \in Seq(E) /\ ("exited" \in Members(events)' => target' = "exited")
    <2>1. CASE events' = Append(events, "stopped")
      <3>1. "stopped" \in E /\ "stopped" # "exited"
        OBVIOUS
      <3>2. Members(events)' = Members(events) \union {"stopped"}
        BY <1>2, <2>1, <3>1, AppendMembers
      <3> QED
        BY <1>2, <1>3, <2>1, <3>1, <3>2
    <2>2. CASE events' = Append(events, "exited") /\ target' = "exited"
      <3>1. "exited" \in E
        OBVIOUS
      <3> QED
        BY <1>2, <2>2, <3>1
    <2> QED
      BY <1>1, <2>1, <2>2
  <1>6. InRun' <=> InRun
    BY <1>1 DEF InRun
  <1>7. /\ UNCHANGED <<tasks, replies, interrupting, breakpoints, outstanding>>
        /\ dbgThread'.call = dbgThread.call
        /\ dbgThread' = dbgThread \/ (InRun /\ dbgThread'.at # "opening")
        /\ dbgThread' \in [at : {"opening", "failed", "idle", "wait", "dead"},
                           call : Calls \union {NoCall}]
    <2>1. dbgThread' = dbgThread
      BY <1>1
    <2>2. dbgThread \in [at : {"opening", "failed", "idle", "wait", "dead"},
                         call : Calls \union {NoCall}]
      BY <1>2
    <2>3. dbgThread' \in [at : {"opening", "failed", "idle", "wait", "dead"},
                          call : Calls \union {NoCall}]
      BY <2>1, <2>2, Zenon
    <2>4. UNCHANGED <<tasks, replies, interrupting, breakpoints, outstanding>>
      BY <1>1
    <2>5. dbgThread'.call = dbgThread.call
      BY <2>1
    <2> QED
      BY <2>1, <2>3, <2>4, <2>5, Zenon
  <1>8. /\ InRun \/ target = "running"
        /\ target' \in {"stopped", "running", "exited"}
        /\ target' = "running" => target = "running" /\ reasons' = NoReasons
    BY <1>1
  <1>9. (events \in Seq({"stopped", "exited", "pause"}))'
    BY <1>5
  <1>10. "exited" \in Members(events)' => target' = "exited"
    BY <1>5
  <1> QED
    BY <1>4, <1>6, <1>7, <1>8, <1>9, <1>10, EngineActs, Zenon

LEMMA StepInv ==
    ASSUME IInv, [Next]_vars PROVE IInv'
  <1>1. CASE MakeRun
    BY <1>1, MakeRunInv
  <1>2. CASE MakeCall
    BY <1>2, MakeCallInv
  <1>3. CASE Pause
    BY <1>3, PauseInv
  <1>4. CASE PauseIssued
    BY <1>4, PauseIssuedInv
  <1>5. CASE Deliver
    BY <1>5, DeliverInv
  <1>6. CASE DebugThread
    BY <1>6, OpenInv, GoTaskInv, StepTaskInv, QuietTaskInv, WaitTaskInv, TakeStoppedInv,
       TakeExitedInv, TakePauseInv, StopFailsInv
    DEF DebugThread, RunTask, WaitStep
  <1>7. CASE TargetActs
    BY <1>7, TargetActsInv
  <1>8. CASE UNCHANGED vars
    BY <1>8 DEF vars, lldbVars, IInv, TypeOK, LLDBTypeOK, CallInv, OneRunInv, EngineInv,
       HopInv, ReportInv, IsTrue, InRun, Members, Once, Ordered
  <1> QED
    BY <1>1, <1>2, <1>3, <1>4, <1>5, <1>6, <1>7, <1>8 DEF Next

LEMMA Invariant == Spec => []IInv
  <1>1. Init => IInv
    BY InitInv
  <1>2. IInv /\ [Next]_vars => IInv'
    BY StepInv
  <1> QED
    BY <1>1, <1>2, PTL DEF Spec

-----------------------------------------------------------------------------
(* The variables keep their types, whatever the client does, fails or      *)
(* leaves unread in the listener.                                          *)
THEOREM LLDBTypeCorrect == Spec => []TypeOK
  <1>1. IInv => TypeOK
    BY DEF IInv
  <1> QED
    BY <1>1, Invariant, PTL

(* A run is told the truth about its target: LLDBContext::wait never takes *)
(* a stop left over from an earlier run for one of a target that runs.     *)
THEOREM ReportsCorrect == Spec => []ReportsAreTrue
  <1>1. IInv => ReportsAreTrue
    BY DEF IInv, ReportInv, IsTrue, ReportsAreTrue, Members
  <1> QED
    BY <1>1, Invariant, PTL

(* A pause is answered after the target has stopped.                       *)
THEOREM PausesCorrect == Spec => []PauseAnsweredStopped
  <1>1. ASSUME IInv PROVE PauseAnsweredStopped
    <2>1. Answered("hop") => \E y \in Members(replies) : y.op = "hop"
      BY DEF Answered, Members
    <2>2. (\E y \in Members(replies) : y.op = "hop") => target # "running"
      BY <1>1 DEF IInv, HopInv, EngineInv
    <2> QED
      BY <2>1, <2>2 DEF PauseAnsweredStopped
  <1> QED
    BY <1>1, Invariant, PTL

(* Every call is in one place until it is answered.                        *)
THEOREM LLDBCallsOnce == Spec => []EveryCallOnce
  <1>1. ASSUME IInv PROVE EveryCallOnce
    <2>1. CallInv
      BY <1>1 DEF IInv
    <2>2. /\ CallOf(tasks) = {x.call : x \in Members(tasks)}
          /\ CallOf(replies) = {x.call : x \in Members(replies)}
      BY CallOfMembers
    <2>3. \A q \in {tasks, replies} : \A i, j \in DOMAIN q : q[i].call = q[j].call => i = j
      BY <2>1 DEF CallInv, Once
    <2>4. (CallOf(tasks) \union CallOf(replies))
          \intersect ({dbgThread.call, interrupting} \ {NoCall}) = {}
      BY <2>1, <2>2 DEF CallInv
    <2> QED
      BY <2>1, <2>2, <2>3, <2>4 DEF CallInv, EveryCallOnce
  <1> QED
    BY <1>1, Invariant, PTL

-----------------------------------------------------------------------------
(* The driver implements Driver. *)

-----------------------------------------------------------------------------
(* The driver implements Driver. *)

(* The calls of the runs, by the members of the queues. *)
RunsIn(T, R, d) ==
    {y.call : y \in {z \in R : z.op \in ResumeOps /\ z.res = "ok"}}
    \union {x.call : x \in {z \in T : z.op = "wait"}}
    \union (IF d.at \in {"wait", "dead"} THEN {d.call} ELSE {})

LEMMA RunCallsAre ==
    /\ RunCalls = RunsIn(Members(tasks), Members(replies), dbgThread)
    /\ RunCalls' = RunsIn(Members(tasks)', Members(replies)', dbgThread')
  <1>1. ASSUME NEW q
        PROVE  /\ {y.call : y \in {z \in Members(q) : z.op \in ResumeOps /\ z.res = "ok"}} =
                  {q[i].call : i \in {j \in DOMAIN q : q[j].op \in ResumeOps /\ q[j].res = "ok"}}
               /\ {x.call : x \in {z \in Members(q) : z.op = "wait"}} =
                  {q[i].call : i \in {j \in DOMAIN q : q[j].op = "wait"}}
    BY DEF Members
  <1>2. RunCalls = RunsIn(Members(tasks), Members(replies), dbgThread)
    BY <1>1 DEF RunsIn, RunCalls
  <1>3. RunCalls' = RunsIn(Members(tasks)', Members(replies)', dbgThread')
    BY <1>1 DEF RunsIn, RunCalls
  <1> QED
    BY <1>2, <1>3

Unseen == UNCHANGED outstanding /\ RunCalls' = RunCalls

(* When a run is answered there is no other, and it ends. *)
LEMMA EndRunEnds ==
    ASSUME IInv, dbgThread.at = "wait", NEW res, NEW thread, NEW bp, EndRun(res, thread, bp),
           UNCHANGED <<tasks, outstanding>>
    PROVE  Abstract!End
  <1>1. PICK y : /\ replies' = Append(replies, y) /\ y.op = "wait"
                 /\ dbgThread' = [at |-> "idle", call |-> NoCall]
    BY DEF EndRun, Answer
  <1>2. Members(replies)' = Members(replies) \union {y} /\ Members(tasks)' = Members(tasks)
    <2>1. replies \in Seq(Reply \union {y}) /\ y \in Reply \union {y}
      BY DEF IInv, TypeOK, LLDBTypeOK
    <2> QED
      BY <1>1, <2>1, AppendMembers
  <1>3. \A z \in Members(tasks) \union Members(replies) : ~IsRun(z)
    BY DEF IInv, OneRunInv, InRun
  <1>4. RunCalls = {dbgThread.call}
    BY <1>3, RunCallsAre DEF RunsIn, IsRun
  <1>5. RunCalls' = {}
    BY <1>1, <1>2, <1>3, RunCallsAre DEF RunsIn, IsRun, ResumeOps
  <1> QED
    BY <1>4, <1>5 DEF Abstract!End

(* A task that is answered begins a run or is not seen. *)
LEMMA TaskBegins ==
    ASSUME IInv, tasks # <<>>, Head(tasks).op # "wait", NEW y \in Reply,
           y.op = Head(tasks).op, y.call = Head(tasks).call, dbgThread.at = "idle",
           tasks' = Tail(tasks), replies' = Append(replies, y),
           UNCHANGED <<dbgThread, outstanding>>
    PROVE  Abstract!Begin \/ Unseen
  <1> DEFINE h == Head(tasks)
  <1>1. tasks \in Seq(Task) /\ replies \in Seq(Reply)
    BY DEF IInv, TypeOK, LLDBTypeOK
  <1>2. Members(tasks) = Members(tasks)' \union {h}
    BY <1>1, TailMembers
  <1>3. Members(replies)' = Members(replies) \union {y}
    BY <1>1, AppendMembers
  <1> HIDE DEF h
  <1>4. h.op # "wait" /\ y.op = h.op /\ y.call = h.call /\ h.call \in outstanding
    BY <1>2 DEF h, IInv, CallInv
  <1>5. CASE y.op \in ResumeOps /\ y.res = "ok"
    <2>1. \A z \in Members(replies) : ~IsRun(z)
      BY <1>2, <1>4, <1>5 DEF IInv, OneRunInv, IsRun
    <2>2. \A z \in Members(tasks) : z.op # "wait"
      BY <1>2, <1>4, <1>5 DEF IInv, OneRunInv, IsRun
    <2>3. RunCalls = {}
      BY <2>1, <2>2, RunCallsAre DEF RunsIn, IsRun
    <2>4. RunCalls' = {y.call}
      BY <1>2, <1>3, <1>5, <2>1, <2>2, RunCallsAre DEF RunsIn, IsRun
    <2> QED
      BY <1>4, <2>3, <2>4 DEF Abstract!Begin
  <1>6. CASE ~(y.op \in ResumeOps /\ y.res = "ok")
    <2>1. RunCalls' = RunCalls
      BY <1>2, <1>3, <1>4, <1>6, RunCallsAre DEF RunsIn
    <2> QED
      BY <2>1 DEF Unseen
  <1> QED
    BY <1>5, <1>6

LEMMA RunTaskRefines ==
    ASSUME IInv, RunTask, UNCHANGED outstanding PROVE Abstract!Begin \/ Unseen
  <1>1. tasks \in Seq(Task) /\ replies \in Seq(Reply)
    BY DEF IInv, TypeOK, LLDBTypeOK
  <1>2. CASE Open
    <2>1. PICK y : replies' = Append(replies, y) /\ y.op = "open"
      BY <1>2 DEF Open, Answer
    <2>2. replies \in Seq(Reply \union {y}) /\ y \in Reply \union {y}
      BY <1>1
    <2>3. Members(replies)' = Members(replies) \union {y} /\ Members(tasks)' = Members(tasks)
      BY <1>2, <2>1, <2>2, AppendMembers DEF Open
    <2>4. dbgThread.at = "opening" /\ dbgThread'.at \in {"idle", "failed"}
      BY <1>2 DEF Open
    <2>5. RunCalls' = RunCalls
      BY <2>1, <2>3, <2>4, RunCallsAre DEF RunsIn, ResumeOps
    <2> QED
      BY <2>5 DEF Unseen
  <1>3. CASE GoTask \/ StepTask \/ HopTask \/ CreateTask \/ RemoveTask \/ QueryTask
    <2>1. /\ tasks # <<>> /\ Head(tasks).op # "wait" /\ dbgThread.at = "idle"
          /\ tasks' = Tail(tasks) /\ UNCHANGED <<dbgThread, outstanding>>
      BY <1>3
      DEF GoTask, StepTask, HopTask, CreateTask, RemoveTask, QueryTask, Take, ResumeOps
    <2>2. Head(tasks) \in Task
      BY <1>1, <2>1
    <2>3. \E res \in Results, bp \in BpIds \union {NoBp} : AnswerTask(res, bp)
      BY <1>3, <2>2
      DEF GoTask, StepTask, HopTask, CreateTask, RemoveTask, QueryTask, Results, Task
    <2> QED
      BY <2>1, <2>3, AnswerTaskIs, TaskBegins
  <1>4. CASE WaitTask
    <2> DEFINE h == Head(tasks)
    <2>1. /\ tasks # <<>> /\ h.op = "wait" /\ dbgThread.at = "idle" /\ tasks' = Tail(tasks)
          /\ dbgThread' = [at |-> "wait", call |-> h.call] /\ UNCHANGED replies
      BY <1>4 DEF WaitTask, Take
    <2>2. Members(tasks) = Members(tasks)' \union {h}
      BY <1>1, <2>1, TailMembers
    <2>3. Members(replies)' = Members(replies)
      BY <2>1
    <2> HIDE DEF h
    <2>4. \A z \in Members(tasks) : z.op = "wait" => z = h
      BY <2>1, <2>2 DEF IInv, OneRunInv, IsRun
    <2>5. {x.call : x \in {z \in Members(tasks) : z.op = "wait"}} = {h.call}
      BY <2>1, <2>2, <2>4
    <2>6. {x.call : x \in {z \in Members(tasks)' : z.op = "wait"}} \subseteq {h.call}
      BY <2>2, <2>4
    <2>7. RunCalls' = RunCalls
      BY <2>1, <2>3, <2>5, <2>6, RunCallsAre DEF RunsIn
    <2> QED
      BY <2>7 DEF Unseen
  <1> QED
    BY <1>2, <1>3, <1>4 DEF RunTask

LEMMA WaitStepRefines ==
    ASSUME IInv, WaitStep, UNCHANGED outstanding PROVE Abstract!End \/ Unseen
  <1>1. dbgThread.at = "wait" /\ UNCHANGED tasks
    BY DEF WaitStep, TakeStopped, TakeExited, TakePause, StopFails, TakeEvent
  <1>2. \/ \E res, thread, bp : EndRun(res, thread, bp)
        \/ UNCHANGED replies /\ dbgThread'.at \in {"wait", "dead"} /\ dbgThread'.call = dbgThread.call
    <2>1. CASE TakeStopped
      BY <1>1, <2>1 DEF TakeStopped, Report
    <2>2. CASE TakeExited \/ TakePause
      BY <2>2 DEF TakeExited, TakePause
    <2>3. CASE StopFails
      <3>1. dbgThread \in [at : {"opening", "failed", "idle", "wait", "dead"},
                           call : Calls \union {NoCall}]
        BY DEF IInv, TypeOK, LLDBTypeOK
      <3> QED
        BY <2>3, <3>1 DEF StopFails
    <2> QED
      BY <2>1, <2>2, <2>3 DEF WaitStep
  <1>3. ASSUME NEW res, NEW thread, NEW bp, EndRun(res, thread, bp) PROVE Abstract!End
    BY <1>1, <1>3, EndRunEnds
  <1>4. CASE UNCHANGED replies /\ dbgThread'.at \in {"wait", "dead"} /\ dbgThread'.call = dbgThread.call
    <2>1. Members(replies)' = Members(replies) /\ Members(tasks)' = Members(tasks)
      BY <1>1, <1>4
    <2>2. RunCalls' = RunCalls
      BY <1>1, <1>4, <2>1, RunCallsAre DEF RunsIn
    <2> QED
      BY <2>2 DEF Unseen
  <1> QED
    BY <1>2, <1>3, <1>4

(* The callback thread: a call is asked for or answered.                   *)
LEMMA CallsRefine ==
    ASSUME IInv, MakeRun \/ MakeCall \/ Pause PROVE Abstract!Ask
  <1>1. \E call \in Calls \ outstanding : outstanding' = outstanding \union {call}
    BY DEF MakeRun, MakeCall, Pause, New
  <1>2. UNCHANGED <<replies, dbgThread>>
    BY DEF MakeRun, MakeCall, Pause, PauseBegin
  <1>3. tasks' = tasks \/ \E x : x.op # "wait" /\ tasks' = Append(tasks, x)
    BY DEF MakeRun, MakeCall, Pause, PauseBegin, Post, ResumeOps
  <1>4. {z \in Members(tasks)' : z.op = "wait"} = {z \in Members(tasks) : z.op = "wait"}
    <2>1. CASE tasks' = tasks
      BY <2>1
    <2>2. ASSUME NEW x, x.op # "wait", tasks' = Append(tasks, x)
          PROVE  {z \in Members(tasks)' : z.op = "wait"} = {z \in Members(tasks) : z.op = "wait"}
      <3>1. tasks \in Seq(Task \union {x}) /\ x \in Task \union {x}
        BY DEF IInv, TypeOK, LLDBTypeOK
      <3>2. Members(tasks)' = Members(tasks) \union {x}
        BY <2>2, <3>1, AppendMembers
      <3> QED
        BY <2>2, <3>2
    <2> QED
      BY <1>3, <2>1, <2>2
  <1>5. Members(replies)' = Members(replies)
    BY <1>2
  <1>6. RunCalls' = RunCalls
    BY <1>2, <1>4, <1>5, RunCallsAre DEF RunsIn
  <1> QED
    BY <1>1, <1>6 DEF Abstract!Ask

LEMMA PauseIssuedRefines ==
    ASSUME IInv, PauseIssued PROVE Unseen
  <1>1. PICK x : x.op = "hop" /\ tasks' = Append(tasks, x)
    BY DEF PauseIssued, PauseEnd, Post
  <1>2. tasks \in Seq(Task \union {x}) /\ x \in Task \union {x}
    BY DEF IInv, TypeOK, LLDBTypeOK
  <1>3. Members(tasks)' = Members(tasks) \union {x}
    BY <1>1, <1>2, AppendMembers
  <1>4. {z \in Members(tasks)' : z.op = "wait"} = {z \in Members(tasks) : z.op = "wait"}
    BY <1>1, <1>3
  <1>5. Members(replies)' = Members(replies) /\ UNCHANGED <<dbgThread, outstanding>>
    BY DEF PauseIssued, PauseEnd
  <1>6. RunCalls' = RunCalls
    BY <1>4, <1>5, RunCallsAre DEF RunsIn
  <1> QED
    BY <1>5, <1>6 DEF Unseen

LEMMA DeliverRefines ==
    ASSUME IInv, Deliver PROVE Abstract!Callback \/ Unseen
  <1> DEFINE r == Head(replies)
             x == [op |-> "wait", call |-> r.call, bp |-> NoBp]
  <1>1. tasks \in Seq(Task) /\ replies \in Seq(Reply) /\ replies # <<>>
        /\ replies' = Tail(replies) /\ dbgThread' = dbgThread
    BY DEF Deliver, IInv, TypeOK, LLDBTypeOK
  <1>2. \/ /\ r.op \in ResumeOps /\ r.res = "ok"
           /\ tasks' = Append(tasks, x) /\ UNCHANGED outstanding
        \/ /\ ~(r.op \in ResumeOps /\ r.res = "ok")
           /\ outstanding' = outstanding \ {r.call} /\ UNCHANGED tasks
    BY DEF Deliver, Post
  <1>3. r \in Reply
    BY <1>1
  <1>4. x \in Task /\ x.op = "wait" /\ x.call = r.call
    BY <1>3 DEF Task, TaskOps, Reply
  <1>5. /\ Members(replies) = Members(replies)' \union {r}
        /\ Once(replies) => \A y \in Members(replies)' : y.call # r.call
    BY <1>1, TailMembers
  <1> HIDE DEF x, r
  <1>6. CallInv /\ OneRunInv
    BY DEF IInv
  <1>7. CASE r.op \in ResumeOps /\ r.res = "ok" /\ tasks' = Append(tasks, x) /\ UNCHANGED outstanding
    <2>1. Members(tasks)' = Members(tasks) \union {x}
      BY <1>1, <1>4, <1>7, AppendMembers
    <2>2. /\ \A z \in Members(replies)' : ~(z.op \in ResumeOps /\ z.res = "ok")
          /\ \A z \in Members(tasks) : z.op # "wait"
      BY <1>5, <1>6, <1>7 DEF OneRunInv, CallInv, IsRun
    <2>3. /\ {y.call : y \in {z \in Members(replies) : z.op \in ResumeOps /\ z.res = "ok"}} = {r.call}
          /\ {y.call : y \in {z \in Members(replies)' : z.op \in ResumeOps /\ z.res = "ok"}} = {}
      BY <1>5, <1>7, <2>2
    <2>4. /\ {y.call : y \in {z \in Members(tasks) : z.op = "wait"}} = {}
          /\ {y.call : y \in {z \in Members(tasks)' : z.op = "wait"}} = {r.call}
      BY <1>4, <2>1, <2>2
    <2>5. RunCalls' = RunCalls
      BY <1>1, <2>3, <2>4, RunCallsAre DEF RunsIn
    <2> QED
      BY <1>7, <2>5 DEF Unseen
  <1>8. CASE /\ ~(r.op \in ResumeOps /\ r.res = "ok")
             /\ outstanding' = outstanding \ {r.call} /\ UNCHANGED tasks
    <2>1. Members(tasks)' = Members(tasks)
      BY <1>8
    <2>2. {z \in Members(replies)' : z.op \in ResumeOps /\ z.res = "ok"}
          = {z \in Members(replies) : z.op \in ResumeOps /\ z.res = "ok"}
      BY <1>5, <1>8
    <2>3. RunCalls' = RunCalls
      BY <1>1, <2>1, <2>2, RunCallsAre DEF RunsIn
    <2>4. r.call \in outstanding
      BY <1>5, <1>6 DEF CallInv
    <2>5. /\ \A z \in Members(tasks) : z.call # r.call
          /\ dbgThread.call # r.call
          /\ \A z \in Members(replies) : z.op \in ResumeOps /\ z.res = "ok" => z.call # r.call
      BY <1>5, <1>6, <1>8 DEF CallInv
    <2>6. r.call \notin RunCalls
      BY <2>5, RunCallsAre DEF RunsIn
    <2> QED
      BY <1>8, <2>3, <2>4, <2>6 DEF Abstract!Callback
  <1> QED
    BY <1>2, <1>7, <1>8 DEF r, x

(* The LLDB driver implements Driver (ImplementsDriver): it begins a run   *)
(* only when there is none, and a run is answered after its end.           *)
THEOREM LLDBImplemented == Spec => ImplementsDriver
  <1>1. IInv /\ [Next]_vars => [Abstract!Next]_(Abstract!vars)
    <2> SUFFICES ASSUME IInv, [Next]_vars
                 PROVE  Abstract!Next \/ Unseen
      BY DEF Unseen, Abstract!vars
    <2>1. CASE MakeRun \/ MakeCall \/ Pause
      BY <2>1, CallsRefine DEF Abstract!Next
    <2>2. CASE PauseIssued
      BY <2>2, PauseIssuedRefines
    <2>3. CASE Deliver
      BY <2>3, DeliverRefines DEF Abstract!Next
    <2>4. CASE DebugThread
      BY <2>4, RunTaskRefines, WaitStepRefines DEF DebugThread, Abstract!Next
    <2>5. CASE TargetActs
      <3>1. /\ UNCHANGED <<tasks, replies, dbgThread, outstanding>>
        BY <2>5 DEF TargetActs, TargetStops, TargetExits
      <3> QED
        BY <3>1 DEF Unseen, RunCalls
    <2>6. CASE UNCHANGED vars
      BY <2>6 DEF vars, lldbVars, Unseen, RunCalls
    <2> QED
      BY <2>1, <2>2, <2>3, <2>4, <2>5, <2>6 DEF Next
  <1> QED
    BY <1>1, Invariant, PTL DEF Spec, ImplementsDriver
=============================================================================
