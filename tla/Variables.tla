------------------------------- MODULE Variables -------------------------------
(***************************************************************************)
(* What a client of the adapter sees of the variables of the target: the   *)
(* cache of locals of the session, filled by two calls of the driver and   *)
(* cleared when the target is resumed, the exception it has been stopped   *)
(* by, and the VariableCache of the adapter, which hands out references to *)
(* what has been listed or evaluated.                                      *)
(*                                                                         *)
(* Requests are handled one at a time, but a resume is not awaited by the  *)
(* setBreakpoints that asked for it.  The debug thread takes its tasks in  *)
(* order.  A value carries the number of the stop it was read in.          *)
(***************************************************************************)
EXTENDS Integers, Sequences, Functions

CONSTANTS
    Threads, Frames,    \* thread and frame indices
    FrameLimit,         \* what an index of a FrameUID is taken modulo (2^16)
    NumberLimit,        \* what the number of a reference is taken modulo (2^24)
    Values,             \* what the target holds
    KindOf,             \* their constructors
    ChildrenOf,         \* and what is below them
    LocalsOf,           \* the locals of a frame
    Thrown,             \* what may be thrown
    MaxStops            \* bound on the stops of the target

Kinds == {"scalar", "indexed", "map", "named", "pointer", "pair"}

ASSUME FramesAssumption == /\ FrameLimit \in Nat
                           /\ Threads \union Frames \subseteq 0 .. (FrameLimit - 1)
ASSUME NumberAssumption == NumberLimit \in Nat \ {0, 1}
ASSUME ValuesAssumption == /\ KindOf \in [Values -> Kinds]
                           /\ \A v \in Values :
                                 /\ ChildrenOf[v] \in Seq(Values)
                                 /\ KindOf[v] = "scalar"  => ChildrenOf[v] = <<>>
                                 /\ KindOf[v] = "pointer" => Len(ChildrenOf[v]) = 1
                                 /\ KindOf[v] = "pair"    => Len(ChildrenOf[v]) = 2
                                 /\ KindOf[v] = "map"     =>
                                       \A p \in Range(ChildrenOf[v]) : KindOf[p] = "pair"
ASSUME LocalsAssumption == LocalsOf \in [Threads \X Frames -> Seq(Values)]
ASSUME ThrownAssumption == Thrown \subseteq Values
ASSUME StopsAssumption  == MaxStops \in Nat \ {0}

VARIABLES
    target, stop,       \* whether the target runs, and the number of its last stop
    tasks, replies,     \* the queues of the two threads
    handler,            \* the request being handled
    locals,             \* Cache.locals: frame uid |-> the store of a frame
    thrown,             \* Cache.stopReason: the stop whose exception it is, 0 if it is none
    index, entries,     \* VariableCache: next number, reference |-> what it opens
    held                \* the references the client holds |-> what they were given for

vars == <<target, stop, tasks, replies, handler, locals, thrown, index, entries, held>>

cacheVars == <<index, entries, held>>

Idle == [op |-> "idle"]

Stops == 1 .. MaxStops
Store == [thread : Threads, frame : Frames, stop : Stops]
Entry == [type : {"scope"}, thread : Threads, frame : Frames, stop : Stops]
         \union [type : {"model", "keyValue"}, value : Values, stop : Stops]

TypeOK ==
    /\ target \in {"stopped", "running"} /\ stop \in Stops
    /\ tasks \in Seq({"go", "wait", "frame", "variables"})
    /\ replies \in Seq([res : {"go", "stopped", "frame", "error"}]
                       \union [res : {"locals"}, store : Store])
    /\ handler.op \in {"idle", "continue", "edit", "scopes", "evaluate"}
    /\ handler.op \in {"scopes", "evaluate"} <=>
          \/ \E i \in DOMAIN tasks : tasks[i] \in {"frame", "variables"}
          \/ \E i \in DOMAIN replies : replies[i].res \in {"frame", "error", "locals"}
    /\ handler.op = "evaluate" => handler.exn \in {0} \union Stops
    /\ Range(locals) \subseteq Store
    /\ thrown \in {0} \union Stops
    /\ index \in 1 .. NumberLimit
    /\ Range(entries) \union Range(held) \subseteq Entry

(* The target has stopped for the first time. *)
Init ==
    /\ target = "stopped" /\ stop = 1
    /\ tasks = <<>> /\ replies = <<>>
    /\ handler = Idle
    /\ locals = <<>> /\ thrown \in {0, stop}
    /\ index = 1 /\ entries = <<>> /\ held = <<>>

-----------------------------------------------------------------------------
(* FrameUID: thread and frame, 16 bits each.  Mutant: the thread is lost. *)
UidOfFrame(thread, frame) == frame % FrameLimit

Uid(thread, frame) == (thread % FrameLimit) * FrameLimit + (frame % FrameLimit)

(* VariableReference: type and number. *)
Reference(type, number) == <<type, number % NumberLimit>>

(* map[key] = value *)
Put(map, key, value) ==
    [k \in DOMAIN map \union {key} |-> IF k = key THEN value ELSE map[k]]

(* An entry is stored under the next number: createScope, addModel and     *)
(* addKeyValuePair.  `cache` is a record of index, entries and held.       *)
Cache == [index |-> index, entries |-> entries, held |-> held]

Give(cache, entry, meant) ==
    LET ref == Reference(entry.type, cache.index)
    IN [index   |-> cache.index + 1,
        entries |-> Put(cache.entries, ref, entry),
        held    |-> Put(cache.held, ref, meant)]

Model(value, at) == [type |-> "model", value |-> value, stop |-> at]

(* What a value is listed below: a pointer goes for what it points to. *)
Opened(value) == IF KindOf[value] = "pointer" THEN ChildrenOf[value][1] ELSE value

(* A mutant of AddModel: a scalar has a reference too. *)
AddModelAlways(cache, value, at) ==
    Give(cache, Model(Opened(value), at), Model(value, at))

(* addModel: a scalar has no reference. *)
AddModel(cache, value, at) ==
    IF KindOf[value] = "scalar" THEN cache
    ELSE Give(cache, Model(Opened(value), at), Model(value, at))

AddPair(cache, pair, at) ==
    LET entry == [type |-> "keyValue", value |-> pair, stop |-> at]
    IN Give(cache, entry, entry)

AddChild(cache, value, at) ==
    IF KindOf[value] = "pair" THEN AddPair(cache, value, at) ELSE AddModel(cache, value, at)

(* What fetch lists: the children one after the other, but those that      *)
(* cannot be read.                                                         *)
Listed(cache, children, unread, at) ==
    LET added[i \in 0 .. Len(children)] ==
            IF i = 0 THEN cache
            ELSE IF children[i] \in unread THEN added[i - 1]
            ELSE AddChild(added[i - 1], children[i], at)
    IN added[Len(children)]

Keep(cache) ==
    /\ cache.index <= NumberLimit       \* bound: the numbers do not wrap
    /\ index' = cache.index /\ entries' = cache.entries /\ held' = cache.held

Empty == [index |-> 1, entries |-> <<>>, held |-> <<>>]

CreateScope(cache, store, thread, frame) ==
    LET Scope(t, f) == [type |-> "scope", thread |-> t, frame |-> f, stop |-> store.stop]
    IN Give(cache, Scope(store.thread, store.frame), Scope(thread, frame))

-----------------------------------------------------------------------------
(* The requests. *)

(* continue: waits for the resume.  The client knows that its references   *)
(* end here.                                                               *)
Continue ==
    /\ handler = Idle
    /\ target = "stopped" /\ tasks = <<>> /\ replies = <<>>
    /\ handler' = [op |-> "continue"]
    /\ tasks' = Append(tasks, "go")
    /\ held' = <<>>
    /\ UNCHANGED <<target, stop, replies, locals, thrown, index, entries>>

(* setBreakpoints while the target runs: a pause, and when the target has  *)
(* stopped a resume that is not awaited.                                   *)
Edit ==
    /\ handler = Idle
    /\ tasks = <<"wait">>
    /\ handler' = [op |-> "edit"]
    /\ UNCHANGED <<target, stop, tasks, replies, locals, thrown, cacheVars>>

(* What a field access or an index leads to: the fields of an object, the  *)
(* elements of an array, the arguments of an enum, the values of a map.    *)
Accessed(value) ==
    LET below == Range(ChildrenOf[value])
    IN CASE KindOf[value] \in {"named", "indexed"} -> below
         [] KindOf[value] = "map" -> {ChildrenOf[pair][2] : pair \in below}
         [] OTHER -> {}

(* What an expression that begins with a value may come to: that value and *)
(* whatever is accessed from there on.                                     *)
Evaluated ==
    [root \in Values |->
        {v \in Values :
            \A S \in SUBSET Values :
                root \in S /\ (\A x \in S : Accessed(x) \subseteq S) => v \in S}]

(* What has been evaluated has a reference if it is a container of Haxe's. *)
AddEvaluated(cache, roots, at) ==
    \E root \in roots : \E v \in Evaluated[root] :
        Keep(IF KindOf[v] = "pointer" THEN cache ELSE AddModel(cache, v, at))

(* What becomes of a request for the locals of a frame that have been got. *)
(* An expression begins with a local, or with $exn if there was an         *)
(* exception when its evaluation began; or it is a constant or an error.   *)
GotLocals(op, cache, store, thread, frame, exn) ==
    \/ op = "scopes" /\ Keep(CreateScope(cache, store, thread, frame))
    \/ /\ op = "evaluate"
       /\ \/ Keep(cache)
          \/ AddEvaluated(cache, Range(LocalsOf[<<store.thread, store.frame>>]), store.stop)
          \/ exn # 0 /\ AddEvaluated(cache, Thrown, exn)

(* getLocals: what the cache holds for the frame is answered at once,      *)
(* otherwise the frame is asked for first.  scopes forgets all references  *)
(* before it begins.                                                       *)
GetLocals(op, thread, frame) ==
    LET cache == IF op = "scopes" THEN Empty ELSE Cache
    IN IF Uid(thread, frame) \in DOMAIN locals
       THEN /\ GotLocals(op, cache, locals[Uid(thread, frame)], thread, frame, thrown)
            /\ UNCHANGED <<tasks, handler>>
       ELSE /\ tasks' = Append(tasks, "frame")
            /\ handler' = [op |-> op, thread |-> thread, frame |-> frame,
                           exn |-> IF op = "evaluate" THEN thrown ELSE 0]
            /\ Keep(cache)

ScopesOrEvaluate ==
    /\ handler = Idle
    /\ \E op \in {"scopes", "evaluate"}, t \in Threads, f \in Frames : GetLocals(op, t, f)
    /\ UNCHANGED <<target, stop, replies, locals, thrown>>

(* The children of an entry, and whether it has any to ask for: a scope    *)
(* may be empty, anything else may not, and a scalar is refused.           *)
Children(entry) ==
    IF entry.type = "scope" THEN LocalsOf[<<entry.thread, entry.frame>>]
                            ELSE ChildrenOf[entry.value]

(* The two parts of a pair, and what a pointer points to, are listed       *)
(* whatever the range.                                                     *)
Whole(entry) ==
    \/ entry.type = "keyValue"
    \/ entry.type = "model" /\ KindOf[entry.value] = "pointer"

InRange(entry, start, count) ==
    /\ start + count <= Len(Children(entry))
    /\ entry.type = "model" => /\ KindOf[entry.value] # "scalar"
                               /\ start < Len(Children(entry))

(* variables: the children asked for that can be read, on the callback     *)
(* thread.  One that cannot is left out without a word.                    *)
Variables ==
    /\ handler = Idle
    /\ \E ref \in DOMAIN held \intersect DOMAIN entries :
          LET entry == entries[ref]
              all   == Children(entry)
              List(children, unread) == Keep(Listed(Cache, children, unread, entry.stop))
          IN \/ Whole(entry) /\ List(all, {})
             \/ \E start \in 0 .. Len(all) : \E count \in 0 .. (Len(all) - start) :
                   /\ ~Whole(entry)
                   /\ InRange(entry, start, count)
                   /\ LET asked == SubSeq(all, start + 1, start + count)
                      IN \E unread \in SUBSET Range(asked) : List(asked, unread)
    /\ UNCHANGED <<target, stop, tasks, replies, handler, locals, thrown>>

-----------------------------------------------------------------------------
(* The debug thread. *)

Reply(reply) == replies' = Append(replies, reply)

Take(task) == tasks # <<>> /\ Head(tasks) = task /\ tasks' = Tail(tasks)

GoTask ==
    /\ Take("go")
    /\ target' = "running"
    /\ Reply([res |-> "go"])
    /\ UNCHANGED <<stop, handler, locals, thrown, cacheVars>>

(* wait(), from the call to the stop. *)
WaitTask ==
    /\ Take("wait")
    /\ stop < MaxStops
    /\ target' = "stopped" /\ stop' = stop + 1
    /\ Reply([res |-> "stopped"])
    /\ UNCHANGED <<handler, locals, thrown, cacheVars>>

(* getFrame and getVariables: of a target that runs the engine has neither. *)
(* A native frame is an error to getLocals.  What the engine throws ends   *)
(* the debug thread: the task stays at the head of the queue for ever.     *)
FrameTask ==
    /\ target = "stopped"
    /\ Take("frame")
    /\ Reply([res |-> "frame"]) \/ Reply([res |-> "error"])
    /\ UNCHANGED <<target, stop, handler, locals, thrown, cacheVars>>

VariablesTask ==
    /\ Take("variables")
    /\ \/ Reply([res |-> "error"])
       \/ /\ target = "stopped"
          /\ Reply([res |-> "locals", store |-> [thread |-> handler.thread,
                                                 frame |-> handler.frame, stop |-> stop]])
    /\ UNCHANGED <<target, stop, handler, locals, thrown, cacheVars>>

-----------------------------------------------------------------------------
(* The callback thread takes the answers. *)

Deliver(res) == replies # <<>> /\ Head(replies).res = res /\ replies' = Tail(replies)

(* A mutant of GoReplied: the stop reason is kept. *)
GoRepliedKeeps ==
    /\ Deliver("go")
    /\ locals' = <<>>
    /\ tasks' = Append(tasks, "wait")
    /\ handler' = IF handler.op = "continue" THEN Idle ELSE handler
    /\ UNCHANGED <<target, stop, thrown, cacheVars>>

(* resume: the cache is cleared and the run begun.  The adapter keeps its  *)
(* references until the next scopes request.                               *)
GoReplied ==
    /\ Deliver("go")
    /\ locals' = <<>> /\ thrown' = 0
    /\ tasks' = Append(tasks, "wait")
    /\ handler' = IF handler.op = "continue" THEN Idle ELSE handler
    /\ UNCHANGED <<target, stop, cacheVars>>

(* The reason of the stop is kept: an exception, or anything else.  The    *)
(* stop a setBreakpoints has waited for is left again.                     *)
StopReplied ==
    /\ Deliver("stopped")
    /\ thrown' \in {0, stop}
    /\ IF handler.op = "edit"
       THEN tasks' = Append(tasks, "go") /\ handler' = Idle
       ELSE UNCHANGED <<tasks, handler>>
    /\ UNCHANGED <<target, stop, locals, cacheVars>>

FrameReplied ==
    /\ Deliver("frame")
    /\ tasks' = Append(tasks, "variables")
    /\ UNCHANGED <<target, stop, handler, locals, thrown, cacheVars>>

(* A mutant of FillFails: getLocals does not pass the error on. *)
FillFailsSilently ==
    /\ Deliver("error")
    /\ UNCHANGED <<target, stop, tasks, handler, locals, thrown, cacheVars>>

(* The frame or its variables cannot be read: nothing is cached, and the   *)
(* request is answered without a reference.                                *)
FillFails ==
    /\ Deliver("error")
    /\ handler' = Idle
    /\ UNCHANGED <<target, stop, tasks, locals, thrown, cacheVars>>

LocalsReplied ==
    /\ Deliver("locals")
    /\ locals' = Put(locals, Uid(handler.thread, handler.frame), Head(replies).store)
    /\ GotLocals(handler.op, Cache, Head(replies).store, handler.thread, handler.frame,
                 handler.exn)
    /\ handler' = Idle
    /\ UNCHANGED <<target, stop, tasks, thrown>>

Next ==
    \/ Continue \/ Edit \/ ScopesOrEvaluate \/ Variables
    \/ GoTask \/ WaitTask \/ FrameTask \/ VariablesTask
    \/ GoReplied \/ StopReplied \/ FrameReplied \/ FillFails \/ LocalsReplied

Spec == Init /\ [][Next]_vars

-----------------------------------------------------------------------------
(* Nothing is served from an earlier stop: what the references of the      *)
(* client open while the target is stopped, through whichever cache they   *)
(* were given, was read in that stop (Locals.getLocals, Session.resume).   *)
StopsDoNotMix ==
    target = "stopped" =>
        \A ref \in DOMAIN held \intersect DOMAIN entries : entries[ref].stop = stop

(* A reference opens what it was given for, until the next scopes request: *)
(* the value it was listed with, or the frame the scope was asked for      *)
(* (VariableCache.createScope, addModel, addKeyValuePair, FrameUID).       *)
ReferencesStand ==
    \A ref \in DOMAIN held :
        /\ ref \in DOMAIN entries
        /\ entries[ref] = IF held[ref].type = "model"
                          THEN Model(Opened(held[ref].value), held[ref].stop)
                          ELSE held[ref]

(* A reference the client holds can be opened without a range, other than  *)
(* that of an empty container and that of a pointer to a scalar            *)
(* (VariableCache.fetch).                                                  *)
ReferencesOpen ==
    \A ref \in DOMAIN held :
        /\ ref \in DOMAIN entries
        /\ \/ Whole(entries[ref])
           \/ InRange(entries[ref], 0, Len(Children(entries[ref])))
           \/ /\ Children(entries[ref]) = <<>>
              /\ KindOf[held[ref].value] # "scalar"
=============================================================================
