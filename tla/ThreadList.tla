------------------------------ MODULE ThreadList ------------------------------
(***************************************************************************)
(* The list of threads of the dbgeng driver.  The debug thread sees the    *)
(* threads of the target begin and end while it waits for the target, and  *)
(* tells the callback thread, which keeps the list and answers threads     *)
(* requests from it.  A thread is named by its system id, which the system *)
(* gives again; the first one, which the process was created with, is not  *)
(* listed.  Of the waits of DbgEngDriver only what decides whether the     *)
(* callback thread is told is here.                                        *)
(***************************************************************************)
EXTENDS Naturals, Sequences, SequencesExt, FiniteSetsExt

CONSTANTS
    FirstThread,    \* the system id of the thread the process begins with
    SystemIds,      \* those the others have
    MaxQueued       \* bound on the queue past which nothing is asked or run

VARIABLES
    systemThreads,  \* the threads of the target that are alive, in the order they began in
    waiting,        \* where the debug thread is
    queue,          \* cbThread.events
    activeThreads,  \* DbgEngThreads.activeThreads
    shown,          \* since the client knows of the stop: <<>>, or <<number of threads answered>>
    unseen          \* a thread event has ended a wait that does not tell what it was

listVars == <<systemThreads, waiting, queue, activeThreads, shown, unseen>>

ThreadsInit ==
    /\ systemThreads = <<FirstThread>>
    /\ waiting = "stopped"
    /\ queue = <<>>
    /\ activeThreads = <<>>
    /\ shown = <<>>
    /\ unseen = FALSE

-----------------------------------------------------------------------------
Notify(what, id) == queue' = Append(queue, [what |-> what, id |-> id])

(* The callback of the run has been, or is to be, invoked. *)
StopTold == \A i \in DOMAIN queue : queue[i].what # "stop"

(* A go or a step, and its wait.  What the list is once a thread has not   *)
(* been seen is not followed further.                                      *)
RunThreads ==
    /\ waiting = "stopped"
    /\ ~unseen                  \* bound: the list grows without end
    /\ Len(queue) < MaxQueued   \* bound
    /\ waiting' = "wait"
    /\ shown' = <<>>
    /\ UNCHANGED <<systemThreads, queue, activeThreads, unseen>>

(* What the system does to the threads of the target. *)
Begins(id) ==
    /\ id \notin Range(systemThreads)
    /\ systemThreads' = Append(systemThreads, id)

Ends(id) ==
    /\ id \in Range(Tail(systemThreads))
    /\ systemThreads' = RemoveFirst(systemThreads, id)

(* onThreadCreated and onThreadExited of the driver: the callback thread   *)
(* is told before the target goes on.                                      *)
TellThread ==
    /\ waiting = "wait"
    /\ Len(queue) < MaxQueued
    /\ waiting' = "threadEvent"
    /\ \E id \in SystemIds :
          \/ Begins(id) /\ Notify("created", id)
          \/ Ends(id) /\ Notify("exited", id)
    /\ UNCHANGED <<activeThreads, shown, unseen>>

(* The nested go() and wait(), or the failure that ends the run. *)
GoOn ==
    /\ waiting = "threadEvent"
    /\ \/ waiting' = "wait" /\ UNCHANGED queue
       \/ waiting' = "stopped" /\ Notify("stop", FirstThread)
    /\ UNCHANGED <<systemThreads, activeThreads, shown, unseen>>

(* Any other event ends the run. *)
StopForEvent ==
    /\ waiting = "wait"
    /\ waiting' = "stopped"
    /\ Notify("stop", FirstThread)
    /\ UNCHANGED <<systemThreads, activeThreads, shown, unseen>>

(* The second WaitForEvent of an interrupted wait, or an event that cannot *)
(* be read: the run ends whatever it was, also if a thread has begun or    *)
(* ended, and nobody is told of the thread.                                *)
StopUnasked ==
    /\ waiting = "wait"
    /\ waiting' = "stopped"
    /\ Notify("stop", FirstThread)
    /\ \/ UNCHANGED <<systemThreads, unseen>>
       \/ unseen' = TRUE /\ \E id \in SystemIds : Begins(id) \/ Ends(id)
    /\ UNCHANGED <<activeThreads, shown>>

-----------------------------------------------------------------------------
(* The callback thread. *)

(* getThreads: the list is taken when the answer comes up in the queue. *)
AskThreads ==
    /\ Len(queue) < MaxQueued
    /\ Notify("threads", FirstThread)
    /\ UNCHANGED <<systemThreads, waiting, activeThreads, shown, unseen>>

(* A mutant of WithoutThread: the last of the list is taken off. *)
WithoutLast(id) == IF Contains(activeThreads, id) THEN Front(activeThreads) ELSE activeThreads

(* onThreadExited: the first of that id is removed, if there is one. *)
WithoutThread(id) == RemoveFirst(activeThreads, id)

TakeNotice ==
    /\ queue # <<>>
    /\ queue' = Tail(queue)
    /\ LET notice == Head(queue)
       IN /\ activeThreads' = CASE notice.what = "created" -> Append(activeThreads, notice.id)
                                [] notice.what = "exited"  -> WithoutThread(notice.id)
                                [] OTHER -> activeThreads
          /\ shown' = CASE notice.what = "threads" -> <<Len(activeThreads)>>
                        [] notice.what = "stop"    -> <<>>
                        [] OTHER -> shown
    /\ UNCHANGED <<systemThreads, waiting, unseen>>

ThreadsNext ==
    \/ RunThreads \/ TellThread \/ GoOn \/ StopForEvent \/ StopUnasked
    \/ AskThreads \/ TakeNotice

ThreadsSpec == ThreadsInit /\ [][ThreadsNext]_listVars

-----------------------------------------------------------------------------
(* When the client knows of a stop the list is that of the threads of the  *)
(* target, without the first one and in the order they began in, and that  *)
(* is what it is answered from then on; unless a thread began or ended in  *)
(* a wait that does not tell (DbgEngDriver.run, DbgEngThreads).            *)
ThreadsListed ==
    waiting = "stopped" /\ StopTold /\ ~unseen =>
        /\ activeThreads = Tail(systemThreads)
        /\ shown \in {<<>>, <<Len(systemThreads) - 1>>}
=============================================================================
