--------------------------------- MODULE Driver ---------------------------------
(***************************************************************************)
(* What the abstract class Driver promises to its callers, whichever       *)
(* engine is behind it.  Every call has a callback.  A start, a resume or  *)
(* a step that succeeds turns its call into a run, which is answered when  *)
(* the target has come to a stop; there is one run at a time.              *)
(***************************************************************************)
CONSTANT Calls          \* names of the calls made on the driver

VARIABLES
    asked,      \* the calls made and not yet answered
    runs        \* those of them for which the target runs

vars == <<asked, runs>>

Init == asked = {} /\ runs = {}

(* A call is made. *)
Ask == \E call \in Calls \ asked : asked' = asked \union {call} /\ UNCHANGED runs

(* A callback is invoked, that of a run only when the run has ended.  It   *)
(* may make another call before it returns.                                *)
Callback ==
    \E call \in asked \ runs :
        LET rest == asked \ {call} IN
        /\ \/ asked' = rest
           \/ \E new \in Calls \ rest : asked' = rest \union {new}
        /\ UNCHANGED runs

(* The engine lets the target run. *)
Begin ==
    /\ runs = {}
    /\ \E call \in asked : runs' = {call}
    /\ UNCHANGED asked

(* The target has stopped, ended, or could not be waited for. *)
End ==
    /\ runs # {}
    /\ runs' = {}
    /\ UNCHANGED asked

Next == Ask \/ Callback \/ Begin \/ End

Spec == Init /\ [][Next]_vars
=============================================================================
