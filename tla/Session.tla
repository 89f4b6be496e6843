-------------------------------- MODULE Session --------------------------------
(***************************************************************************)
(* hxcppdbg.core.Session over the dbgeng driver: the cached stop reason,   *)
(* the active breakpoints and the step loop.  Everything here runs on the  *)
(* callback thread; the definitions are the parts the front end's actions  *)
(* are made of, since the session's callbacks call the front end back      *)
(* before they return.                                                     *)
(***************************************************************************)
EXTENDS DbgEngDriver

VARIABLES
    stopReason,     \* cache.stopReason; notSuspended is the error cache.clear() leaves
    active,         \* the native ids of the active breakpoints
    stepType        \* what the step loop goes on with

sessionVars == <<stopReason, active, stepType>>

(* How a run may end for the front end; "error" is Result.Error. *)
StopReasons == {"paused", "breakpoint", "exception", "exited"}
Endings     == StopReasons \union {"error"}

SessionTypeOK ==
    /\ stopReason \in Endings \union {"notSuspended"}
    /\ active \subseteq BpIds
    /\ stepType \in StepOps

SessionInit ==
    /\ stopReason = "notSuspended"
    /\ active = {}
    /\ stepType = "stepOver"

-----------------------------------------------------------------------------
(* Mutants of Resumed: the cache is not cleared, or the target is not run. *)
ResumedStale(call) == Post("wait", call, NoBp) /\ UNCHANGED sessionVars

ResumedNotRun(call) ==
    stopReason' = "notSuspended" /\ UNCHANGED <<tasks, active, stepType>>

(* start and resume have succeeded: the cache is cleared and the front end *)
(* runs the target at once.                                                *)
Resumed(call) ==
    /\ stopReason' = "notSuspended"
    /\ Post("wait", call, NoBp)
    /\ UNCHANGED <<active, stepType>>

(* mapBreakReason: a breakpoint no active breakpoint owns is an error.  An *)
(* error of the run itself is passed on without being cached.              *)
BreakReason(r) ==
    IF r.res = "breakpoint" /\ r.bp \notin active THEN "error" ELSE r.res

Stopped(r) ==
    /\ stopReason' = IF r.res = "error" THEN stopReason ELSE BreakReason(r)
    /\ UNCHANGED <<active, stepType>>

-----------------------------------------------------------------------------
(* The step loop.  `Done(ending)` is what the front end does with the      *)
(* result of the step.                                                     *)

(* step(): the frame stepped from is fetched first. *)
StepBegin(type) ==
    /\ Post("frame", "stepFrame", NoBp)
    /\ stepType' = type
    /\ UNCHANGED <<stopReason, active>>

(* The base frame is known: the cache is cleared, once for the whole loop, *)
(* and the driver steps.                                                   *)
StepFromBase ==
    /\ stopReason' = "notSuspended"
    /\ Post(stepType, "step", NoBp)
    /\ UNCHANGED <<active, stepType>>

(* The driver has stepped: the target is run. *)
StepRun == Post("wait", "step", NoBp) /\ UNCHANGED sessionVars

(* The run of a step has ended in a pause: the top frame decides whether   *)
(* to go on.                                                               *)
StepPaused == Post("frame", "stepTop", NoBp) /\ UNCHANGED sessionVars

(* The top frame is native, or still on the line of the base frame. *)
StepAgain == Post(stepType, "step", NoBp) /\ UNCHANGED sessionVars
=============================================================================
