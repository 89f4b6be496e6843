------------------------------ MODULE Breakpoints ------------------------------
(***************************************************************************)
(* The breakpoints of a session: each stands for one native breakpoint per *)
(* C++ line its position is mapped to.  They are created and removed one   *)
(* by one, each by a call of the driver that may fail, and the clients of  *)
(* the repository wait for one operation before they begin the next.       *)
(***************************************************************************)
EXTENDS SourceMap

CONSTANTS
    Maps,           \* the source maps considered
    Paths,          \* Haxe paths asked for
    Lines, Chars,   \* lines and characters asked for
    NativeIds,      \* ids the engine gives, and gives again, to breakpoints
    Failed,         \* the result of a driver call that failed
    MaxBreakpoints  \* bound on the ids given to breakpoints

ASSUME FailedAssumption == Failed \notin NativeIds
ASSUME BoundAssumption  == MaxBreakpoints \in Nat

(* What the engine calls a generated file: its path in the output          *)
(* directory, which the map leaves out.                                    *)
Built(cpp) == [abs |-> TRUE, name |-> <<"/", "out/">> \o cpp.name]

(* The compiler puts the generated files below one directory, whose name   *)
(* is in the map: no file of a map is the end of another's path, and a     *)
(* path the engine gives is that of one file.                              *)
ASSUME MapsAssumption ==
    \A map \in Maps :
        /\ IsSequence(map)
        /\ \A f \in Range(map) :
              /\ ~f.cpp.abs /\ IsSequence(f.cpp.name)
              /\ IsSequence(f.functions)
              /\ \A func \in Range(f.functions) :
                    /\ IsSequence(func.exprs) /\ IsSequence(func.closures)
                    /\ \A closure \in Range(func.closures) : IsSequence(closure)
        /\ \A f, g \in Range(map) : Matches(Built(f.cpp), g.cpp) => f = g

VARIABLES
    sourcemap,  \* Breakpoints::sourcemap, never changed
    removeFails,\* whether the engine may fail to remove a breakpoint it has
    active,     \* id of a breakpoint |-> its request and native breakpoints
    nextId,
    pending,    \* the operation under way
    engine      \* id of a native breakpoint |-> its place

vars == <<sourcemap, removeFails, active, nextId, pending, engine>>

(* Of an operation: what its calls are still to be made for, the ids of    *)
(* those that have succeeded, and whether one has not.                     *)
Idle == [op |-> "none", todo |-> <<>>, done |-> <<>>, failed |-> FALSE]

TypeOK ==
    /\ sourcemap \in Maps
    /\ removeFails \in BOOLEAN
    /\ nextId \in 0 .. MaxBreakpoints
    /\ DOMAIN active \subseteq 0 .. (nextId - 1)
    /\ \A id \in DOMAIN active : active[id].native \in Seq(NativeIds) \ {<<>>}
    /\ pending.op \in {"none", "create", "delete"}
    /\ pending.done \in Seq(NativeIds)
    /\ pending.failed \in BOOLEAN
    /\ pending.op = "none" <=> pending = Idle
    /\ pending.op = "delete" => /\ pending.id \in DOMAIN active
                               /\ pending.todo \in Seq(NativeIds) \ {<<>>}
    /\ DOMAIN engine \subseteq NativeIds

Init ==
    /\ sourcemap \in Maps
    /\ removeFails \in BOOLEAN
    /\ active = <<>>
    /\ nextId = 0
    /\ pending = Idle
    /\ engine = <<>>

-----------------------------------------------------------------------------
(* create(): a position with no file or no expression is an error at once. *)
Create ==
    /\ pending = Idle
    /\ nextId < MaxBreakpoints
    /\ \E path \in Paths, line \in Lines, char \in Chars :
          LET places == FindExprs(FilesOf(sourcemap, path), line, char) IN
          /\ places # <<>>
          /\ pending' = [op |-> "create", path |-> path, line |-> line, char |-> char,
                         todo |-> places, done |-> <<>>, failed |-> FALSE]
    /\ UNCHANGED <<sourcemap, removeFails, active, nextId, engine>>

(* delete(): an id that is not active is an error at once. *)
Delete ==
    /\ pending = Idle
    /\ \E id \in DOMAIN active :
          pending' = [op |-> "delete", id |-> id, todo |-> active[id].native, done |-> <<>>,
                      failed |-> FALSE]
    /\ UNCHANGED <<sourcemap, removeFails, active, nextId, engine>>

(* map[key] = value *)
Put(map, key, value) ==
    [k \in DOMAIN map \union {key} |-> IF k = key THEN value ELSE map[k]]

(* A mutant of Created: a breakpoint of which one part failed is given up. *)
CreatedWhole(done, failed) ==
    IF failed
    THEN UNCHANGED <<active, nextId>>
    ELSE /\ active' = Put(active, nextId, [path |-> pending.path, line |-> pending.line,
                                         char |-> pending.char, native |-> done])
         /\ nextId' = nextId + 1

(* The callback of create(): what succeeded is kept. *)
Created(done, failed) ==
    IF done = <<>>
    THEN UNCHANGED <<active, nextId>>
    ELSE /\ active' = Put(active, nextId, [path |-> pending.path, line |-> pending.line,
                                         char |-> pending.char, native |-> done])
         /\ nextId' = nextId + 1

(* A mutant of Deleted: one part removed is enough. *)
DeletedInPart(done, failed) ==
    /\ active' = IF done = <<>> THEN active
                 ELSE Restrict(active, DOMAIN active \ {pending.id})
    /\ UNCHANGED nextId

(* The callback of delete(): only when every part is removed. *)
Deleted(done, failed) ==
    /\ active' = IF failed THEN active
                 ELSE Restrict(active, DOMAIN active \ {pending.id})
    /\ UNCHANGED nextId

(* A mutant of Succeeded: calls that failed are not filtered out. *)
SucceededUnfiltered(results, result) == Append(results, result)

(* isSuccess and takeSuccess, with the result of one more call. *)
Succeeded(results, result) ==
    IF result = Failed THEN results ELSE Append(results, result)

(* The answer of one driver call: the next call is made, or after the last *)
(* one the operation ends.                                                 *)
Resolve(result) ==
    LET done   == Succeeded(pending.done, result)
        failed == pending.failed \/ result = Failed
    IN IF Len(pending.todo) > 1
       THEN /\ pending' = [pending EXCEPT !.todo = Tail(@), !.done = done, !.failed = failed]
            /\ UNCHANGED <<active, nextId>>
       ELSE /\ pending' = Idle
            /\ IF pending.op = "create" THEN Created(done, failed) ELSE Deleted(done, failed)

(* A native breakpoint is created at the next place, with any free id, or  *)
(* is not: there may be no code there.                                     *)
NativeCreate ==
    /\ pending.op = "create"
    /\ LET place == Head(pending.todo) IN
       \/ \E n \in NativeIds \ DOMAIN engine :
             /\ engine' = Put(engine, n, [file |-> place.file, line |-> place.expr.cpp])
             /\ Resolve(n)
       \/ UNCHANGED engine /\ Resolve(Failed)
    /\ UNCHANGED <<sourcemap, removeFails>>

(* A native breakpoint is removed, unless the engine does not know it.  An  *)
(* engine that fails may keep one it knows.                                *)
NativeRemove ==
    /\ pending.op = "delete"
    /\ LET n == Head(pending.todo) IN
       \/ /\ n \in DOMAIN engine
          /\ engine' = Restrict(engine, DOMAIN engine \ {n})
          /\ Resolve(n)
       \/ /\ n \notin DOMAIN engine \/ removeFails
          /\ UNCHANGED engine
          /\ Resolve(Failed)
    /\ UNCHANGED <<sourcemap, removeFails>>

Next == Create \/ Delete \/ NativeCreate \/ NativeRemove

Spec == Init /\ [][Next]_vars

-----------------------------------------------------------------------------
NativesOf(id) == Range(active[id].native)
Owned         == UNION {NativesOf(id) : id \in DOMAIN active}

(* Between operations every breakpoint of the engine belongs to a          *)
(* breakpoint of the session, whichever of the calls failed: Session finds *)
(* an owner for a native breakpoint that is hit, and delete can be asked   *)
(* for it (Breakpoints.create, Breakpoints.delete).                        *)
NoOrphans == pending = Idle => DOMAIN engine \subseteq Owned

(* With an engine that removes what it has, the breakpoints of the session *)
(* share out those of the engine, none of which is owned twice, although   *)
(* the engine gives the ids of removed breakpoints again.  After a removal *)
(* that failed half way the session still lists the ids it has removed,    *)
(* and the engine may give them to another breakpoint (Breakpoints.delete).*)
OneOwner ==
    pending = Idle /\ ~removeFails =>
        /\ DOMAIN engine = Owned
        /\ \A i, j \in DOMAIN active :
              i # j => NativesOf(i) \intersect NativesOf(j) = {}
        /\ \A id \in DOMAIN active : IsInjective(active[id].native)

(* The frame at which a native breakpoint is hit, whose file the engine    *)
(* gives with its directory, is mapped to an expression of the file asked  *)
(* for that has been generated at this line: what findExprs finds in       *)
(* closures and in all functions, mapNativeFrame finds again.  An id that  *)
(* is listed after a failed removal may by now stand for another place.    *)
HitsAreHaxeFrames ==
    pending = Idle =>
        \A id \in DOMAIN active : \A n \in NativesOf(id) \intersect DOMAIN engine :
            LET place == engine[n]
                frame == MapNativeFrame(sourcemap,
                                        [file |-> Built(place.file), line |-> place.line])
            IN ~removeFails =>
                  /\ frame.kind = "haxe"
                  /\ Matches(frame.file, active[id].path)
                  /\ frame.expr.cpp = place.line

(* "1 based character offset for finding the most specific haxe expression *)
(* in a line": with a character, no native breakpoint is asked for an      *)
(* expression while there is a more specific one at the position           *)
(* (Breakpoints.create).                                                   *)
MostSpecific ==
    pending.op = "create" /\ pending.char # 0 =>
        \A i, j \in DOMAIN pending.todo :
            ~MoreSpecific(pending.todo[i].expr, pending.todo[j].expr)
=============================================================================
