---------------------------- MODULE VariablesProofs ----------------------------
(***************************************************************************)
(* Proofs about Variables, for every memory of the target, any number of   *)
(* threads, frames and stops: nothing is served from an earlier stop, and  *)
(* a reference opens what it was given for.                                *)
(***************************************************************************)
EXTENDS Variables, SequenceTheorems, WellFoundedInduction, TLAPS
(* The phases of the two queues: a resume and its wait on their way, and   *)
(* behind or before them what fills the cache of locals.                   *)
Fills == {"scopes", "evaluate"}

Answer(res) == [res |-> res]

LocalsAnswer ==
    [res |-> "locals", store |-> [thread |-> handler.thread, frame |-> handler.frame,
                                  stop |-> stop]]

At(where, todo, answers) == target = where /\ tasks = todo /\ replies = answers

Quiet   == At("stopped", <<>>, <<>>)
Going   == At("stopped", <<"go">>, <<>>)
Gone    == At("running", <<>>, <<Answer("go")>>)
Running == At("running", <<"wait">>, <<>>)
Stopped == At("stopped", <<>>, <<Answer("stopped")>>)

FrameAsked ==
    \/ At("stopped", <<"frame">>, <<>>)
    \/ At("stopped", <<"go", "frame">>, <<>>)
    \/ At("running", <<"frame">>, <<Answer("go")>>)
    \/ At("running", <<"wait", "frame">>, <<>>)
    \/ At("running", <<"frame", "wait">>, <<>>)
    \/ At("stopped", <<"frame">>, <<Answer("stopped")>>)

FrameAnswered ==
    \E res \in {"frame", "error"} :
        \/ At("stopped", <<>>, <<Answer(res)>>)
        \/ At("stopped", <<>>, <<Answer("stopped"), Answer(res)>>)

VariablesAsked    == At("stopped", <<"variables">>, <<>>)
VariablesAnswered == At("stopped", <<>>, <<LocalsAnswer>>)

Phase ==
    \/ handler.op = "idle"     /\ (Quiet \/ Going \/ Gone \/ Running \/ Stopped)
    \/ handler.op = "continue" /\ (Going \/ Gone)
    \/ handler.op = "edit"     /\ (Running \/ Stopped)
    \/ /\ handler.op \in Fills
       /\ handler.thread \in Threads /\ handler.frame \in Frames
       /\ FrameAsked \/ FrameAnswered \/ VariablesAsked \/ VariablesAnswered

(* The locals that are kept are those of the frame they are kept under. *)
LocalsKept ==
    \A uid \in DOMAIN locals :
        /\ locals[uid] \in Store
        /\ uid = Uid(locals[uid].thread, locals[uid].frame)

(* A target that is about to run, or runs, or has stopped only to run      *)
(* again: the client holds no reference, and no locals are kept.           *)
Resuming ==
    \/ target = "running"
    \/ tasks \in {<<"go">>, <<"go", "frame">>}
    \/ handler.op = "edit"

Fresh ==
    /\ Resuming => /\ DOMAIN held = {}
                   /\ handler.op # "continue" => DOMAIN locals = {}
    /\ target = "stopped" => /\ \A uid \in DOMAIN locals : locals[uid].stop = stop
                             /\ \A ref \in DOMAIN held : held[ref].stop = stop

(* The exception that is kept, or that $exn stands for in an evaluation in *)
(* progress, is of the current stop; there is none from when the resume is *)
(* answered on.                                                            *)
Caught ==
    /\ thrown \in {0, stop}
    /\ target = "running" /\ replies = <<>> => thrown = 0
    /\ handler.op \in Fills => /\ handler.exn \in {0, stop}
                               /\ tasks = <<"wait", "frame">> => handler.exn = 0

(* What an entry stands for. *)
Standing(meant) ==
    IF meant.type = "model" THEN Model(Opened(meant.value), meant.stop) ELSE meant

(* Of a cache whose numbers do not wrap: they are all below the next one,  *)
(* and every reference of the client opens what it was given for.          *)
CacheCorrect(cache) ==
    /\ cache.index \in Nat \ {0}
    /\ cache.index <= NumberLimit =>
          /\ \A ref \in DOMAIN cache.entries :
                ref[2] \in 1 .. (cache.index - 1) /\ cache.entries[ref] \in Entry
          /\ \A ref \in DOMAIN cache.held :
                /\ ref \in DOMAIN cache.entries
                /\ cache.held[ref] \in Entry
                /\ cache.entries[ref] = Standing(cache.held[ref])
                /\ cache.held[ref].type = "model" => KindOf[cache.held[ref].value] # "scalar"

AllOfStop(cache, at) == \A ref \in DOMAIN cache.held : cache.held[ref].stop = at

IInv ==
    /\ stop \in Stops
    /\ Phase /\ LocalsKept /\ Fresh /\ Caught
    /\ index <= NumberLimit /\ CacheCorrect(Cache)

-----------------------------------------------------------------------------
(* A set of numbers has a least member.                                    *)
LEMMA Least ==
    ASSUME NEW T \in SUBSET Nat, T # {}
    PROVE  \E m \in T : \A k \in T : m <= k
  <1> DEFINE R == OpToRel(<, Nat)
  <1>1. IsWellFoundedOn(R, Nat)
    BY NatLessThanWellFounded
  <1>2. \A x, y \in Nat : <<x, y>> \in R <=> x < y
    BY DEF OpToRel
  <1> HIDE DEF R
  <1>3. PICK m \in T : \A y \in T : ~(<<y, m>> \in R)
    BY <1>1, WFMin
  <1>4. \A y \in T : ~(y < m)
    BY <1>2, <1>3
  <1> QED  BY <1>4

(* Induction, over a set instead of a predicate.                           *)
LEMMA Induct ==
    ASSUME NEW S, 0 \in S, \A n \in Nat : n \in S => n + 1 \in S
    PROVE  Nat \subseteq S
  <1> SUFFICES ASSUME Nat \ S # {}  PROVE FALSE
    OBVIOUS
  <1>1. PICK m \in Nat \ S : \A k \in Nat \ S : m <= k
    BY Least
  <1>2. m # 0 /\ m - 1 \in Nat /\ m - 1 \in S
    BY <1>1
  <1> QED  BY <1>1, <1>2

(* A number that does not wrap is the number of its reference.             *)
LEMMA NumberKept ==
    ASSUME NEW n \in Nat, n < NumberLimit
    PROVE  n % NumberLimit = n
  BY NumberAssumption

(* A FrameUID tells its thread and its frame.                              *)
LEMMA UidTells ==
    ASSUME NEW t \in Threads, NEW f \in Frames, NEW u \in Threads, NEW g \in Frames,
           Uid(t, f) = Uid(u, g)
    PROVE  t = u /\ f = g
  <1>1. /\ t \in Nat /\ f \in Nat /\ u \in Nat /\ g \in Nat /\ FrameLimit \in Nat
        /\ t < FrameLimit /\ f < FrameLimit /\ u < FrameLimit /\ g < FrameLimit
    BY FramesAssumption
  <1>2. t % FrameLimit = t /\ f % FrameLimit = f /\ u % FrameLimit = u /\ g % FrameLimit = g
    BY <1>1
  <1>3. t * FrameLimit + f = u * FrameLimit + g
    BY <1>2 DEF Uid
  <1> QED  BY <1>1, <1>3
-----------------------------------------------------------------------------
Meant(entry, meant) ==
    /\ entry \in Entry /\ meant \in Entry
    /\ entry = Standing(meant)
    /\ meant.type = "model" => KindOf[meant.value] # "scalar"

(* What is given under the next number leaves the other references alone.  *)
LEMMA GiveCorrect ==
    ASSUME NEW cache, NEW entry, NEW meant,
           CacheCorrect(cache), Meant(entry, meant)
    PROVE  /\ CacheCorrect(Give(cache, entry, meant))
           /\ \A at : AllOfStop(cache, at) /\ meant.stop = at
                         => AllOfStop(Give(cache, entry, meant), at)
  <1> DEFINE ref  == Reference(entry.type, cache.index)
             gave == Give(cache, entry, meant)
  <1>1. /\ gave.index   = cache.index + 1
        /\ gave.entries = Put(cache.entries, ref, entry)
        /\ gave.held    = Put(cache.held, ref, meant)
    BY DEF Give
  <1>2. /\ DOMAIN gave.entries = DOMAIN cache.entries \union {ref}
        /\ \A r \in DOMAIN gave.entries :
              gave.entries[r] = IF r = ref THEN entry ELSE cache.entries[r]
        /\ DOMAIN gave.held = DOMAIN cache.held \union {ref}
        /\ \A r \in DOMAIN gave.held :
              gave.held[r] = IF r = ref THEN meant ELSE cache.held[r]
    BY <1>1 DEF Put
  <1>3. cache.index \in Nat \ {0}
    BY DEF CacheCorrect
  <1>4. \A at : AllOfStop(cache, at) /\ meant.stop = at => AllOfStop(gave, at)
    BY <1>2 DEF AllOfStop
  <1>5. ASSUME cache.index + 1 <= NumberLimit
        PROVE  /\ \A r \in DOMAIN gave.entries :
                     r[2] \in 1 .. cache.index /\ gave.entries[r] \in Entry
               /\ \A r \in DOMAIN gave.held :
                     /\ r \in DOMAIN gave.entries
                     /\ gave.held[r] \in Entry
                     /\ gave.entries[r] = Standing(gave.held[r])
                     /\ gave.held[r].type = "model" => KindOf[gave.held[r].value] # "scalar"
    <2>1. NumberLimit \in Nat /\ cache.index <= NumberLimit /\ cache.index < NumberLimit
      BY <1>3, <1>5, NumberAssumption
    <2>2. ref[2] = cache.index
      BY <1>3, <2>1, NumberKept DEF Reference
    <2>3. /\ \A r \in DOMAIN cache.entries :
                r[2] \in 1 .. (cache.index - 1) /\ cache.entries[r] \in Entry
          /\ \A r \in DOMAIN cache.held :
                /\ r \in DOMAIN cache.entries
                /\ cache.held[r] \in Entry
                /\ cache.entries[r] = Standing(cache.held[r])
                /\ cache.held[r].type = "model" => KindOf[cache.held[r].value] # "scalar"
      BY <2>1 DEF CacheCorrect
    <2>4. ref \notin DOMAIN cache.entries
      BY <1>3, <2>2, <2>3
    <2> HIDE DEF ref, gave
    <2>5. \A r \in DOMAIN gave.entries : r[2] \in 1 .. cache.index /\ gave.entries[r] \in Entry
      BY <1>2, <1>3, <2>2, <2>3 DEF Meant
    <2> QED  BY <1>2, <2>3, <2>4, <2>5 DEF Meant
  <1>6. CacheCorrect(gave)
    <2>1. gave.index = cache.index + 1 /\ (gave.index - 1) = cache.index
      BY <1>1, <1>3
    <2> HIDE DEF gave
    <2> QED  BY <1>3, <1>5, <2>1 DEF CacheCorrect
  <1> QED  BY <1>4, <1>6

(* What a pointer points to is a value of the target.                      *)
LEMMA PointsTo ==
    ASSUME NEW v \in Values
    PROVE  Opened(v) \in Values
  BY ValuesAssumption DEF Opened

(* addModel.                                                               *)
LEMMA AddModelCorrect ==
    ASSUME NEW cache, NEW v \in Values, NEW at \in Stops, CacheCorrect(cache)
    PROVE  /\ CacheCorrect(AddModel(cache, v, at))
           /\ AllOfStop(cache, at) => AllOfStop(AddModel(cache, v, at), at)
  <1>1. CASE KindOf[v] = "scalar"
    BY <1>1 DEF AddModel
  <1>2. CASE KindOf[v] # "scalar"
    <2>1. Model(Opened(v), at) \in Entry /\ Model(v, at) \in Entry
      BY PointsTo DEF Model, Entry
    <2>2. Meant(Model(Opened(v), at), Model(v, at))
      BY <1>2, <2>1 DEF Meant, Standing, Model
    <2>3. Model(v, at).stop = at
      BY DEF Model
    <2> QED  BY <1>2, <2>2, <2>3, GiveCorrect DEF AddModel
  <1> QED  BY <1>1, <1>2

(* addKeyValuePair for a pair, addModel for anything else.                 *)
LEMMA AddChildCorrect ==
    ASSUME NEW cache, NEW v \in Values, NEW at \in Stops, CacheCorrect(cache)
    PROVE  /\ CacheCorrect(AddChild(cache, v, at))
           /\ AllOfStop(cache, at) => AllOfStop(AddChild(cache, v, at), at)
  <1> DEFINE pair == [type |-> "keyValue", value |-> v, stop |-> at]
  <1>1. Meant(pair, pair) /\ pair.stop = at
    BY DEF Meant, Standing, Entry
  <1>2. /\ CacheCorrect(AddPair(cache, v, at))
        /\ AllOfStop(cache, at) => AllOfStop(AddPair(cache, v, at), at)
    BY <1>1, GiveCorrect DEF AddPair
  <1> QED  BY <1>2, AddModelCorrect DEF AddChild

(* createScope, for the frame the store is of.                             *)
LEMMA CreateScopeCorrect ==
    ASSUME NEW cache, NEW store \in Store, CacheCorrect(cache)
    PROVE  /\ CacheCorrect(CreateScope(cache, store, store.thread, store.frame))
           /\ AllOfStop(cache, store.stop)
                 => AllOfStop(CreateScope(cache, store, store.thread, store.frame), store.stop)
  <1> DEFINE scope == [type |-> "scope", thread |-> store.thread, frame |-> store.frame,
                       stop |-> store.stop]
  <1>1. Meant(scope, scope) /\ scope.stop = store.stop
    BY DEF Meant, Standing, Entry, Store
  <1> QED  BY <1>1, GiveCorrect DEF CreateScope

(* clear.                                                                  *)
LEMMA EmptyCorrect ==
    /\ CacheCorrect(Empty)
    /\ \A at : AllOfStop(Empty, at)
  BY DEF CacheCorrect, Empty, AllOfStop

-----------------------------------------------------------------------------
(* Listing, child by child.                                                *)
LEMMA ListedCorrect ==
    ASSUME NEW cache, NEW children \in Seq(Values), NEW unread, NEW at \in Stops,
           CacheCorrect(cache)
    PROVE  /\ CacheCorrect(Listed(cache, children, unread, at))
           /\ AllOfStop(cache, at) => AllOfStop(Listed(cache, children, unread, at), at)
  <1> DEFINE Step(c, i) == IF children[i] \in unread THEN c ELSE AddChild(c, children[i], at)
             Fits(n, g) == g = [i \in 0 .. n |-> IF i = 0 THEN cache ELSE Step(g[i - 1], i)]
             added == CHOOSE g : Fits(Len(children), g)
  <1>1. Listed(cache, children, unread, at) = added[Len(children)]
    BY DEF Listed
  <1>2. \A c : \A i \in 1 .. Len(children) : CacheCorrect(c) =>
           /\ CacheCorrect(Step(c, i))
           /\ AllOfStop(c, at) => AllOfStop(Step(c, i), at)
    BY AddChildCorrect
  <1> HIDE DEF Step
  <1>3. \A n \in Nat : \E g : Fits(n, g)
    <2> DEFINE S == {n \in Nat : \E g : Fits(n, g)}
    <2>1. 0 \in S
      <3>1. Fits(0, [i \in 0 .. 0 |-> cache])
        OBVIOUS
      <3> QED  BY <3>1
    <2>2. ASSUME NEW n \in Nat, n \in S  PROVE n + 1 \in S
      <3>1. PICK g : Fits(n, g)
        BY <2>2
      <3> DEFINE h == [i \in 0 .. (n + 1) |-> IF i <= n THEN g[i] ELSE Step(g[n], n + 1)]
      <3>2. \A i \in 0 .. (n + 1) : h[i] = IF i = 0 THEN cache ELSE Step(h[i - 1], i)
        <4> TAKE i \in 0 .. (n + 1)
        <4>1. CASE i = 0
          BY <3>1, <4>1
        <4>2. CASE i \in 1 .. n
          BY <3>1, <4>2
        <4>3. CASE i = n + 1
          BY <3>1, <4>3
        <4> QED  BY <4>1, <4>2, <4>3
      <3>3. h = [i \in 0 .. (n + 1) |-> h[i]]
        OBVIOUS
      <3>4. Fits(n + 1, h)
        <4> HIDE DEF h
        <4> QED  BY <3>2, <3>3, Zenon
      <3>5. \E k : Fits(n + 1, k)
        <4> HIDE DEF h, Fits
        <4> QED  BY <3>4
      <3>6. n + 1 \in Nat
        OBVIOUS
      <3> HIDE DEF Fits
      <3> QED  BY <3>5, <3>6
    <2> HIDE DEF S
    <2>3. Nat \subseteq S
      BY <2>1, <2>2, Induct
    <2> QED  BY <2>3 DEF S
  <1>4. Fits(Len(children), added)
    <2> HIDE DEF Fits
    <2> QED  BY <1>3
  <1> HIDE DEF added
  <1>5. added[0] = cache /\ \A i \in 1 .. Len(children) : added[i] = Step(added[i - 1], i)
    BY <1>4
  <1> DEFINE Good(n) == n <= Len(children) =>
                           /\ CacheCorrect(added[n])
                           /\ AllOfStop(cache, at) => AllOfStop(added[n], at)
             T == {n \in Nat : Good(n)}
  <1>6. 0 \in T
    BY <1>5
  <1>7. ASSUME NEW n \in Nat, n \in T  PROVE n + 1 \in T
    <2>1. CASE n + 1 <= Len(children)
      <3>1. n <= Len(children) /\ n + 1 \in 1 .. Len(children) /\ (n + 1) - 1 = n
        BY <2>1
      <3>2. added[n + 1] = Step(added[n], n + 1)
        BY <1>5, <3>1
      <3> QED  BY <1>2, <1>7, <3>1, <3>2
    <2>2. CASE ~(n + 1 <= Len(children))
      BY <2>2
    <2> QED  BY <2>1, <2>2
  <1> HIDE DEF T
  <1>8. Nat \subseteq T
    BY <1>6, <1>7, Induct
  <1>9. Len(children) \in Nat /\ Len(children) \in T
    BY <1>8
  <1> QED  BY <1>1, <1>9 DEF T
-----------------------------------------------------------------------------
(* What becomes of queues of one or two.                                   *)
LEMMA Queues ==
    ASSUME NEW x, NEW y
    PROVE  /\ Append(<<>>, x) = <<x>> /\ Append(<<x>>, y) = <<x, y>>
           /\ Head(<<x>>) = x /\ Head(<<x, y>>) = x
           /\ Tail(<<x>>) = <<>> /\ Tail(<<x, y>>) = <<y>>
           /\ <<x>> # <<>> /\ <<x, y>> # <<>> /\ <<x>> # <<x, y>> /\ <<y>> # <<x, y>>
  <1>1. Append(<<>>, x) = <<x>>
    OBVIOUS
  <1>2. Append(<<x>>, y) = <<x, y>>
    <2>1. /\ Append(<<x>>, y) \in Seq({x, y}) /\ <<x, y>> \in Seq({x, y})
          /\ Len(Append(<<x>>, y)) = 2 /\ Len(<<x, y>>) = 2
          /\ \A i \in 1 .. 2 : Append(<<x>>, y)[i] = <<x, y>>[i]
      OBVIOUS
    <2> QED  BY <2>1, SeqEqual
  <1>3. Head(<<x>>) = x /\ Head(<<x, y>>) = x
    OBVIOUS
  <1>4. Tail(<<x>>) = <<>>
    OBVIOUS
  <1>5. Tail(<<x, y>>) = <<y>>
    OBVIOUS
  <1>6. <<x>> # <<>> /\ <<x, y>> # <<>>
    OBVIOUS
  <1>7. <<x>> # <<x, y>>
    OBVIOUS
  <1> QED  BY <1>1, <1>2, <1>3, <1>4, <1>5, <1>6, <1>7

(* Queues of one or two members of a set.                                  *)
LEMMA QueuesOf ==
    ASSUME NEW S, NEW x \in S, NEW y \in S
    PROVE  <<>> \in Seq(S) /\ <<x>> \in Seq(S) /\ <<x, y>> \in Seq(S)
  OBVIOUS

(* Cache as it is kept.                                                    *)
LEMMA KeepCorrect ==
    ASSUME NEW cache, CacheCorrect(cache), Keep(cache)
    PROVE  /\ index' <= NumberLimit /\ CacheCorrect(Cache)'
           /\ held' = cache.held
  <1>1. Cache'.index = cache.index /\ Cache'.entries = cache.entries /\ Cache'.held = cache.held
    BY DEF Keep, Cache
  <1>2. CacheCorrect(Cache')
    BY <1>1 DEF CacheCorrect
  <1> QED  BY <1>2 DEF Keep

(* The steps that leave the cache of references alone.                     *)
LEMMA CacheUnchanged ==
    ASSUME IInv, UNCHANGED cacheVars
    PROVE  index' <= NumberLimit /\ CacheCorrect(Cache)'
  <1>1. Cache' = Cache
    BY DEF cacheVars, Cache
  <1>2. CacheCorrect(Cache')
    BY <1>1 DEF IInv
  <1> QED  BY <1>2 DEF IInv, cacheVars

(* The first stop.                                                         *)
LEMMA Initially == Init => IInv
  <1> SUFFICES ASSUME Init  PROVE IInv
    OBVIOUS
  <1> USE DEF Init
  <1>1. stop \in Stops /\ index <= NumberLimit
    BY StopsAssumption, NumberAssumption DEF Stops
  <1>2. Phase
    BY DEF Phase, Idle, Quiet, At
  <1>3. LocalsKept /\ Fresh /\ Caught
    BY DEF LocalsKept, Fresh, Resuming, Idle, Caught, Fills
  <1>4. Cache = Empty
    BY DEF Cache, Empty
  <1> QED  BY <1>1, <1>2, <1>3, <1>4, EmptyCorrect DEF IInv

(* Continue keeps the invariant.                                           *)
LEMMA ContinueStep ==
    ASSUME IInv, Continue
    PROVE  IInv'
  <1> USE DEF Continue
  <1>1. Phase'
    BY DEF Phase, At, Going
  <1>2. LocalsKept'
    BY DEF IInv, LocalsKept
  <1>3. Fresh'
    BY DEF IInv, Fresh, Resuming
  <1>4. CacheCorrect(Cache')
    <2>1. /\ Cache'.index = index /\ Cache'.entries = entries /\ Cache'.held = <<>>
          /\ Cache.index = index /\ Cache.entries = entries
      BY DEF Cache
    <2> QED  BY <2>1 DEF IInv, CacheCorrect
  <1>5. Caught'
    BY DEF IInv, Caught, Fills
  <1> QED  BY <1>1, <1>2, <1>3, <1>4, <1>5 DEF IInv

(* Edit keeps the invariant.                                               *)
LEMMA EditStep ==
    ASSUME IInv, Edit
    PROVE  IInv'
  <1> USE DEF Edit
  <1>1. handler.op = "idle" /\ Running
    BY DEF Idle, IInv, Phase, Quiet, Going, Gone, Running, Stopped, At, Fills
  <1>2. Phase'
    BY <1>1 DEF Phase, At, Running
  <1>3. LocalsKept'
    BY DEF IInv, LocalsKept
  <1>4. Fresh'
    BY <1>1 DEF IInv, Fresh, Resuming, Running, At, cacheVars
  <1>5. Caught'
    BY DEF IInv, Caught, Fills
  <1> QED  BY <1>2, <1>3, <1>4, <1>5, CacheUnchanged DEF IInv

(* GoTask keeps the invariant.                                             *)
LEMMA GoTaskStep ==
    ASSUME IInv, GoTask
    PROVE  IInv'
  <1> USE DEF GoTask
  <1>1. \/ Going /\ handler.op \in {"idle", "continue"}
        \/ At("stopped", <<"go", "frame">>, <<>>) /\ handler.op \in Fills
           /\ handler.thread \in Threads /\ handler.frame \in Frames
    BY Queues DEF Take, IInv, Phase, Quiet, Going, Gone, Running, Stopped, FrameAsked,
                  FrameAnswered, VariablesAsked, VariablesAnswered, At
  <1>2. Phase'
    <2>1. \/ Gone' /\ handler.op \in {"idle", "continue"}
          \/ At("running", <<"frame">>, <<Answer("go")>>)' /\ handler.op \in Fills
      <3>1. CASE Going
        BY <1>1, <3>1, Queues DEF Take, Reply, Answer, Going, Gone, At, Fills
      <3>2. CASE At("stopped", <<"go", "frame">>, <<>>)
        BY <1>1, <3>2, Queues DEF Take, Reply, Answer, Going, Gone, At, Fills
      <3> QED  BY <1>1, <3>1, <3>2
    <2> QED  BY <1>1, <2>1 DEF Phase, FrameAsked, Fills
  <1>3. LocalsKept'
    BY DEF IInv, LocalsKept
  <1>4. Fresh'
    BY <1>1 DEF IInv, Fresh, Resuming, Going, At, cacheVars
  <1>5. Caught'
    <2>1. tasks' # <<"wait", "frame">> /\ replies' # <<>>
      BY <1>1, Queues DEF Take, Reply, Going, At
    <2> QED  BY <2>1 DEF IInv, Caught, cacheVars
  <1> QED  BY <1>2, <1>3, <1>4, <1>5, CacheUnchanged DEF IInv

(* WaitTask keeps the invariant.                                           *)
LEMMA WaitTaskStep ==
    ASSUME IInv, WaitTask
    PROVE  IInv'
  <1> USE DEF WaitTask
  <1>1. \/ Running /\ handler.op \in {"idle", "edit"}
        \/ At("running", <<"wait", "frame">>, <<>>) /\ handler.op \in Fills
           /\ handler.thread \in Threads /\ handler.frame \in Frames
    BY Queues DEF Take, IInv, Phase, Quiet, Going, Gone, Running, Stopped, FrameAsked,
                  FrameAnswered, VariablesAsked, VariablesAnswered, At
  <1>2. Phase'
    <2>1. \/ Stopped' /\ handler.op \in {"idle", "edit"}
          \/ At("stopped", <<"frame">>, <<Answer("stopped")>>)' /\ handler.op \in Fills
      <3>1. CASE Running
        BY <1>1, <3>1, Queues DEF Take, Reply, Answer, Running, Stopped, At, Fills
      <3>2. CASE At("running", <<"wait", "frame">>, <<>>)
        BY <1>1, <3>2, Queues DEF Take, Reply, Answer, Running, Stopped, At, Fills
      <3> QED  BY <1>1, <3>1, <3>2
    <2> QED  BY <1>1, <2>1 DEF Phase, FrameAsked, Fills
  <1>3. LocalsKept'
    BY DEF IInv, LocalsKept
  <1>4. stop' \in Stops
    BY StopsAssumption DEF IInv, Stops
  <1>5. Fresh'
    BY <1>1 DEF IInv, Fresh, Resuming, Running, At, cacheVars, Fills
  <1>6. Caught'
    <2>1. /\ thrown = 0 /\ target' = "stopped"
          /\ handler.op \in Fills => handler.exn = 0
      BY <1>1 DEF IInv, Caught, Running, At, Fills
    <2> QED  BY <2>1 DEF Caught, cacheVars
  <1> QED  BY <1>2, <1>3, <1>4, <1>5, <1>6, CacheUnchanged DEF IInv

(* FrameTask keeps the invariant.                                          *)
LEMMA FrameTaskStep ==
    ASSUME IInv, FrameTask
    PROVE  IInv'
  <1> USE DEF FrameTask
  <1>1. /\ \/ At("stopped", <<"frame">>, <<>>)
           \/ At("stopped", <<"frame">>, <<Answer("stopped")>>)
        /\ handler.op \in Fills
        /\ handler.thread \in Threads /\ handler.frame \in Frames
    BY Queues DEF Take, IInv, Phase, Quiet, Going, Gone, Running, Stopped, FrameAsked,
                  FrameAnswered, VariablesAsked, VariablesAnswered, At
  <1>2. Phase'
    <2>1. \E res \in {"frame", "error"} :
             \/ At("stopped", <<>>, <<Answer(res)>>)'
             \/ At("stopped", <<>>, <<Answer("stopped"), Answer(res)>>)'
      <3>1. PICK res \in {"frame", "error"} : replies' = Append(replies, Answer(res))
        BY DEF Reply, Answer
      <3>2. CASE At("stopped", <<"frame">>, <<>>)
        BY <3>1, <3>2, Queues DEF Take, At
      <3>3. CASE At("stopped", <<"frame">>, <<Answer("stopped")>>)
        <4>1. Append(<<Answer("stopped")>>, Answer(res)) = <<Answer("stopped"), Answer(res)>>
          BY Queues
        <4> QED  BY <3>1, <3>3, <4>1, Queues DEF Take, At
      <3> QED  BY <1>1, <3>2, <3>3
    <2> QED  BY <1>1, <2>1 DEF Phase, FrameAnswered, At
  <1>3. LocalsKept'
    BY DEF IInv, LocalsKept
  <1>4. Fresh'
    BY <1>1, <1>2, Queues DEF IInv, Fresh, Resuming, At, cacheVars, Take
  <1>5. Caught'
    <2>1. tasks' = <<>> /\ target' = "stopped"
      BY <1>2, <1>1, Queues DEF Take, At
    <2> QED  BY <2>1, Queues DEF IInv, Caught, cacheVars
  <1> QED  BY <1>2, <1>3, <1>4, <1>5, CacheUnchanged DEF IInv

(* VariablesTask keeps the invariant.                                      *)
LEMMA VariablesTaskStep ==
    ASSUME IInv, VariablesTask
    PROVE  IInv'
  <1> USE DEF VariablesTask
  <1>1. /\ VariablesAsked
        /\ handler.op \in Fills
        /\ handler.thread \in Threads /\ handler.frame \in Frames
    BY Queues DEF Take, IInv, Phase, Quiet, Going, Gone, Running, Stopped, FrameAsked,
                  FrameAnswered, VariablesAsked, VariablesAnswered, At
  <1>2. \/ At("stopped", <<>>, <<Answer("error")>>)'
        \/ VariablesAnswered'
    BY <1>1, Queues DEF VariablesAsked, VariablesAnswered, At, Take, Reply, Answer, LocalsAnswer
  <1>3. Phase'
    BY <1>1, <1>2 DEF Phase, FrameAnswered
  <1>4. LocalsKept'
    BY DEF IInv, LocalsKept
  <1>5. Fresh'
    BY <1>1, Queues DEF IInv, Fresh, Resuming, VariablesAsked, At, cacheVars, Take
  <1>6. Caught'
    <2>1. tasks' = <<>> /\ target' = "stopped"
      BY <1>1, Queues DEF Take, VariablesAsked, At
    <2> QED  BY <2>1, Queues DEF IInv, Caught, cacheVars
  <1> QED  BY <1>3, <1>4, <1>5, <1>6, CacheUnchanged DEF IInv

(* GoReplied keeps the invariant.                                          *)
LEMMA GoRepliedStep ==
    ASSUME IInv, GoReplied
    PROVE  IInv'
  <1> USE DEF GoReplied
  <1>1. \/ Gone /\ handler.op \in {"idle", "continue"}
        \/ At("running", <<"frame">>, <<Answer("go")>>) /\ handler.op \in Fills
           /\ handler.thread \in Threads /\ handler.frame \in Frames
    BY Queues DEF Deliver, IInv, Phase, Quiet, Going, Gone, Running, Stopped, FrameAsked,
                  FrameAnswered, VariablesAsked, VariablesAnswered, At, Answer, LocalsAnswer
  <1>2. Phase'
    <2>1. CASE Gone /\ handler.op \in {"idle", "continue"}
      <3>1. Running' /\ handler'.op = "idle"
        BY <2>1, Queues DEF Deliver, Gone, Running, At, Idle
      <3> QED  BY <3>1 DEF Phase
    <2>2. CASE /\ At("running", <<"frame">>, <<Answer("go")>>) /\ handler.op \in Fills
               /\ handler.thread \in Threads /\ handler.frame \in Frames
      <3>1. At("running", <<"frame", "wait">>, <<>>)' /\ handler' = handler
        BY <2>2, Queues DEF Deliver, At, Fills
      <3> QED  BY <2>2, <3>1 DEF Phase, FrameAsked
    <2> QED  BY <1>1, <2>1, <2>2
  <1>3. LocalsKept'
    BY DEF LocalsKept
  <1>4. Fresh'
    BY <1>1 DEF IInv, Fresh, Resuming, Gone, At, cacheVars
  <1>5. Caught'
    <2>1. CASE Gone /\ handler.op \in {"idle", "continue"}
      <3>1. handler'.op \notin Fills
        BY <2>1 DEF Idle, Fills
      <3> QED  BY <3>1 DEF Caught
    <2>2. CASE At("running", <<"frame">>, <<Answer("go")>>) /\ handler.op \in Fills
      <3>1. handler' = handler /\ tasks' = <<"frame", "wait">>
        BY <2>2, Queues DEF At, Fills
      <3>2. <<"frame", "wait">> # <<"wait", "frame">>
        OBVIOUS
      <3> QED  BY <2>2, <3>1, <3>2 DEF IInv, Caught
    <2> QED  BY <1>1, <2>1, <2>2
  <1> QED  BY <1>2, <1>3, <1>4, <1>5, CacheUnchanged DEF IInv

(* StopReplied keeps the invariant.                                        *)
LEMMA StopRepliedStep ==
    ASSUME IInv, StopReplied
    PROVE  IInv'
  <1> USE DEF StopReplied
  <1>1. \/ Stopped /\ handler.op \in {"idle", "edit"}
        \/ /\ \/ At("stopped", <<"frame">>, <<Answer("stopped")>>)
              \/ \E res \in {"frame", "error"} :
                    At("stopped", <<>>, <<Answer("stopped"), Answer(res)>>)
           /\ handler.op \in Fills
           /\ handler.thread \in Threads /\ handler.frame \in Frames
    BY Queues DEF Deliver, IInv, Phase, Quiet, Going, Gone, Running, Stopped, FrameAsked,
                  FrameAnswered, VariablesAsked, VariablesAnswered, At, Answer, LocalsAnswer
  <1>2. Phase'
    <2>1. CASE Stopped /\ handler.op = "idle"
      <3>1. Quiet' /\ handler'.op = "idle"
        BY <2>1, Queues DEF Deliver, Stopped, Quiet, At
      <3> QED  BY <3>1 DEF Phase
    <2>2. CASE Stopped /\ handler.op = "edit"
      <3>1. Going' /\ handler'.op = "idle"
        BY <2>2, Queues DEF Deliver, Stopped, Going, At, Idle
      <3> QED  BY <3>1 DEF Phase
    <2>3. CASE At("stopped", <<"frame">>, <<Answer("stopped")>>) /\ handler.op \in Fills
      <3>1. At("stopped", <<"frame">>, <<>>)' /\ handler' = handler
        BY <2>3, Queues DEF Deliver, At, Fills
      <3> QED  BY <1>1, <2>3, <3>1 DEF Phase, FrameAsked, Fills
    <2>4. ASSUME NEW res \in {"frame", "error"}, handler.op \in Fills,
                 At("stopped", <<>>, <<Answer("stopped"), Answer(res)>>)
          PROVE  Phase'
      <3>1. At("stopped", <<>>, <<Answer(res)>>)' /\ handler' = handler
        BY <2>4, Queues DEF Deliver, At, Fills
      <3> QED  BY <1>1, <2>4, <3>1 DEF Phase, FrameAnswered, Fills
    <2> QED  BY <1>1, <2>1, <2>2, <2>3, <2>4
  <1>3. LocalsKept'
    BY DEF IInv, LocalsKept
  <1>4. Fresh'
    <2>1. target = "stopped"
      BY <1>1 DEF Stopped, At
    <2>2. CASE handler.op = "edit"
      BY <2>1, <2>2 DEF IInv, Fresh, Resuming, cacheVars, Idle
    <2>3. CASE handler.op # "edit"
      <3>1. ~Resuming'
        BY <1>1, <2>1, <2>3, Queues DEF Resuming, Stopped, At
      <3> QED  BY <2>1, <3>1 DEF IInv, Fresh, cacheVars
    <2> QED  BY <2>2, <2>3
  <1>5. Caught'
    <2>1. CASE Stopped /\ handler.op \in {"idle", "edit"}
      <3>1. handler'.op \notin Fills /\ target' = "stopped"
        BY <2>1 DEF Idle, Fills, Stopped, At
      <3> QED  BY <3>1 DEF Caught
    <2>2. CASE handler.op \in Fills
      <3>1. handler' = handler /\ UNCHANGED tasks /\ target = "stopped" /\ target' = target
        BY <1>1, <2>2 DEF At, Fills, Stopped
      <3>2. tasks \in {<<>>, <<"frame">>}
        BY <1>1, <2>2 DEF At, Stopped
      <3>3. tasks' # <<"wait", "frame">>
        BY <3>1, <3>2, Queues
      <3> QED  BY <2>2, <3>1, <3>3 DEF IInv, Caught
    <2> QED  BY <1>1, <2>1, <2>2
  <1> QED  BY <1>2, <1>3, <1>4, <1>5, CacheUnchanged DEF IInv

(* FrameReplied keeps the invariant.                                       *)
LEMMA FrameRepliedStep ==
    ASSUME IInv, FrameReplied
    PROVE  IInv'
  <1> USE DEF FrameReplied
  <1>1. /\ At("stopped", <<>>, <<Answer("frame")>>)
        /\ handler.op \in Fills
        /\ handler.thread \in Threads /\ handler.frame \in Frames
    BY Queues DEF Deliver, IInv, Phase, Quiet, Going, Gone, Running, Stopped, FrameAsked,
                  FrameAnswered, VariablesAsked, VariablesAnswered, At, Answer, LocalsAnswer
  <1>2. VariablesAsked'
    BY <1>1, Queues DEF VariablesAsked, At, Deliver
  <1>3. Phase'
    BY <1>1, <1>2 DEF Phase, Fills
  <1>4. LocalsKept'
    BY DEF IInv, LocalsKept
  <1>5. Fresh'
    BY <1>1, <1>2, Queues DEF IInv, Fresh, Resuming, VariablesAsked, At, cacheVars
  <1>6. Caught'
    <2>1. tasks' = <<"variables">> /\ target' = "stopped" /\ <<"variables">> # <<"wait", "frame">>
      BY <1>2, Queues DEF VariablesAsked, At
    <2> QED  BY <2>1 DEF IInv, Caught, cacheVars
  <1> QED  BY <1>3, <1>4, <1>5, <1>6, CacheUnchanged DEF IInv

(* FillFails keeps the invariant.                                          *)
LEMMA FillFailsStep ==
    ASSUME IInv, FillFails
    PROVE  IInv'
  <1> USE DEF FillFails
  <1>1. At("stopped", <<>>, <<Answer("error")>>) /\ handler.op \in Fills
    BY Queues DEF Deliver, IInv, Phase, Quiet, Going, Gone, Running, Stopped, FrameAsked,
                  FrameAnswered, VariablesAsked, VariablesAnswered, At, Answer, LocalsAnswer
  <1>2. Quiet' /\ handler'.op = "idle"
    BY <1>1, Queues DEF Quiet, At, Deliver, Idle
  <1>3. Phase'
    BY <1>2 DEF Phase
  <1>4. LocalsKept'
    BY DEF IInv, LocalsKept
  <1>5. Fresh'
    BY <1>1, <1>2 DEF IInv, Fresh, Resuming, Quiet, At, cacheVars
  <1>6. Caught'
    BY <1>2 DEF IInv, Caught, Quiet, At, cacheVars, Fills
  <1> QED  BY <1>3, <1>4, <1>5, <1>6, CacheUnchanged DEF IInv

(* What is evaluated, from values of one stop.                             *)
LEMMA AddEvaluatedCorrect ==
    ASSUME NEW cache, NEW roots \in SUBSET Values, NEW at \in Stops, CacheCorrect(cache),
           AddEvaluated(cache, roots, at)
    PROVE  \E c : /\ Keep(c) /\ CacheCorrect(c)
                  /\ AllOfStop(cache, at) => AllOfStop(c, at)
  <1>1. PICK root \in roots : \E v \in Evaluated[root] :
           Keep(IF KindOf[v] = "pointer" THEN cache ELSE AddModel(cache, v, at))
    BY DEF AddEvaluated
  <1>2. Evaluated[root] \subseteq Values
    BY DEF Evaluated
  <1>3. PICK v \in Values :
           Keep(IF KindOf[v] = "pointer" THEN cache ELSE AddModel(cache, v, at))
    BY <1>1, <1>2
  <1>4. CASE KindOf[v] = "pointer"
    BY <1>3, <1>4
  <1>5. CASE KindOf[v] # "pointer"
    BY <1>3, <1>5, AddModelCorrect
  <1> QED  BY <1>4, <1>5

(* A request that has got the locals of its frame, with an exception of    *)
(* their stop.                                                             *)
LEMMA GotLocalsCorrect ==
    ASSUME NEW op, NEW cache, NEW store \in Store, NEW exn, CacheCorrect(cache),
           op = "evaluate" => exn \in {0, store.stop},
           GotLocals(op, cache, store, store.thread, store.frame, exn)
    PROVE  /\ index' <= NumberLimit /\ CacheCorrect(Cache)'
           /\ AllOfStop(cache, store.stop)
                 => \A ref \in DOMAIN held' : held'[ref].stop = store.stop
  <1>1. \E c : /\ Keep(c) /\ CacheCorrect(c)
               /\ AllOfStop(cache, store.stop) => AllOfStop(c, store.stop)
    <2>1. CASE Keep(CreateScope(cache, store, store.thread, store.frame))
      BY <2>1, CreateScopeCorrect
    <2>2. CASE Keep(cache)
      BY <2>2
    <2> DEFINE roots == Range(LocalsOf[<<store.thread, store.frame>>])
    <2>3. roots \in SUBSET Values /\ store.stop \in Stops
      <3>1. store.thread \in Threads /\ store.frame \in Frames /\ store.stop \in Stops
        BY DEF Store
      <3>2. LocalsOf[<<store.thread, store.frame>>] \in Seq(Values)
        BY <3>1, LocalsAssumption
      <3> QED  BY <3>1, <3>2 DEF Range
    <2> HIDE DEF roots
    <2>4. CASE AddEvaluated(cache, roots, store.stop)
      BY <2>3, <2>4, AddEvaluatedCorrect
    <2>5. CASE AddEvaluated(cache, Thrown, store.stop)
      BY <2>3, <2>5, AddEvaluatedCorrect, ThrownAssumption
    <2> QED  BY <2>1, <2>2, <2>4, <2>5 DEF GotLocals, roots
  <1>2. PICK c : /\ Keep(c) /\ CacheCorrect(c)
                 /\ AllOfStop(cache, store.stop) => AllOfStop(c, store.stop)
    BY <1>1
  <1> QED  BY <1>2, KeepCorrect DEF AllOfStop

(* A target that is not resumed is stopped.                                *)
LEMMA StoppedUnlessResuming ==
    ASSUME IInv, ~Resuming
    PROVE  target = "stopped"
  <1>1. target \in {"stopped", "running"}
    BY DEF IInv, Phase, Quiet, Going, Gone, Running, Stopped, FrameAsked, FrameAnswered,
           VariablesAsked, VariablesAnswered, At
  <1> QED  BY <1>1 DEF Resuming

(* What a reference opens is of the stop it was given in.                  *)
LEMMA EntryOfStop ==
    ASSUME IInv, NEW ref \in DOMAIN held
    PROVE  entries[ref].stop = held[ref].stop
  <1>1. entries[ref] = Standing(held[ref])
    BY DEF IInv, CacheCorrect, Cache
  <1> QED  BY <1>1 DEF Standing, Model

(* LocalsReplied keeps the invariant.                                      *)
LEMMA LocalsRepliedStep ==
    ASSUME IInv, LocalsReplied
    PROVE  IInv'
  <1> USE DEF LocalsReplied
  <1> DEFINE store == Head(replies).store
             uid   == Uid(handler.thread, handler.frame)
  <1>1. /\ At("stopped", <<>>, <<LocalsAnswer>>) /\ handler.op \in Fills
        /\ handler.thread \in Threads /\ handler.frame \in Frames
    BY Queues DEF Deliver, IInv, Phase, Quiet, Going, Gone, Running, Stopped, FrameAsked,
                  FrameAnswered, VariablesAsked, VariablesAnswered, At, Answer, LocalsAnswer
  <1>2. store = [thread |-> handler.thread, frame |-> handler.frame, stop |-> stop]
    BY <1>1, Queues DEF At, LocalsAnswer
  <1>3. /\ store \in Store /\ store.thread = handler.thread /\ store.frame = handler.frame
        /\ store.stop = stop
    BY <1>1, <1>2 DEF IInv, Store
  <1>4. /\ locals' = Put(locals, uid, store)
        /\ GotLocals(handler.op, Cache, store, store.thread, store.frame, handler.exn)
        /\ UNCHANGED <<target, stop, tasks, thrown>>
    BY <1>3
  <1>5. Quiet' /\ handler'.op = "idle"
    BY <1>1, Queues DEF Quiet, At, Deliver, Idle
  <1> HIDE DEF store, LocalsReplied
  <1>6. Phase'
    BY <1>5 DEF Phase
  <1>7. /\ DOMAIN locals' = DOMAIN locals \union {uid}
        /\ \A u \in DOMAIN locals' : locals'[u] = IF u = uid THEN store ELSE locals[u]
    BY <1>4 DEF Put
  <1>8. LocalsKept'
    BY <1>3, <1>7 DEF IInv, LocalsKept
  <1>9. AllOfStop(Cache, stop) /\ \A u \in DOMAIN locals : locals[u].stop = stop
    BY <1>1 DEF IInv, Fresh, At, AllOfStop, Cache
  <1>10. /\ index' <= NumberLimit /\ CacheCorrect(Cache)'
         /\ \A ref \in DOMAIN held' : held'[ref].stop = stop
    <2>1. handler.exn \in {0, store.stop}
      BY <1>1, <1>3 DEF IInv, Caught
    <2> QED  BY <1>3, <1>4, <1>9, <2>1, GotLocalsCorrect DEF IInv
  <1>11. Fresh'
    <2>1. ~Resuming'
      BY <1>5, Queues DEF Resuming, Quiet, At
    <2> QED  BY <1>3, <1>4, <1>7, <1>9, <1>10, <2>1 DEF Fresh
  <1>12. Caught'
    BY <1>4, <1>5 DEF IInv, Caught, Quiet, At, Fills
  <1> QED  BY <1>4, <1>6, <1>8, <1>10, <1>11, <1>12 DEF IInv

(* ScopesOrEvaluate keeps the invariant.                                   *)
LEMMA ScopesOrEvaluateStep ==
    ASSUME IInv, ScopesOrEvaluate
    PROVE  IInv'
  <1>1. PICK op \in Fills, t \in Threads, f \in Frames : GetLocals(op, t, f)
    BY DEF ScopesOrEvaluate, Fills
  <1>2. /\ handler = Idle /\ handler.op = "idle"
        /\ UNCHANGED <<target, stop, replies, locals, thrown>>
    BY DEF ScopesOrEvaluate, Idle
  <1> DEFINE cache == IF op = "scopes" THEN Empty ELSE Cache
             uid   == Uid(t, f)
  <1>3. CacheCorrect(cache) /\ cache.held \in {<<>>, held}
    BY EmptyCorrect DEF IInv, Empty, Cache
  <1>4. CASE uid \in DOMAIN locals
    <2> DEFINE store == locals[uid]
    <2>1. GotLocals(op, cache, store, t, f, thrown) /\ UNCHANGED <<tasks, handler>>
      BY <1>1, <1>4 DEF GetLocals
    <2>2. store \in Store /\ store.thread = t /\ store.frame = f
      <3>1. store \in Store /\ uid = Uid(store.thread, store.frame)
        BY <1>4 DEF IInv, LocalsKept
      <3>2. store.thread \in Threads /\ store.frame \in Frames
        BY <3>1 DEF Store
      <3> QED  BY <3>1, <3>2, UidTells
    <2>3. ~Resuming /\ target = "stopped"
      BY <1>2, <1>4, StoppedUnlessResuming DEF IInv, Fresh
    <2>4. store.stop = stop /\ AllOfStop(cache, stop)
      BY <1>3, <1>4, <2>3 DEF IInv, Fresh, AllOfStop
    <2>5. /\ index' <= NumberLimit /\ CacheCorrect(Cache)'
          /\ \A ref \in DOMAIN held' : held'[ref].stop = stop
      <3>1. thrown \in {0, store.stop}
        BY <2>4 DEF IInv, Caught
      <3> QED  BY <1>3, <2>1, <2>2, <2>4, <3>1, GotLocalsCorrect
    <2>6. Phase'
      BY <1>2, <2>1 DEF IInv, Phase, Quiet, Going, Gone, Running, Stopped, At, Fills
    <2>7. LocalsKept'
      BY <1>2 DEF IInv, LocalsKept
    <2>8. Fresh'
      BY <1>2, <2>1, <2>3, <2>5 DEF IInv, Fresh, Resuming
    <2>9. Caught'
      BY <1>2, <2>1 DEF IInv, Caught
    <2> QED  BY <1>2, <2>5, <2>6, <2>7, <2>8, <2>9 DEF IInv
  <1>5. CASE uid \notin DOMAIN locals
    <2>1. /\ tasks' = Append(tasks, "frame")
          /\ handler' = [op |-> op, thread |-> t, frame |-> f,
                         exn |-> IF op = "evaluate" THEN thrown ELSE 0]
          /\ Keep(cache)
      BY <1>1, <1>5 DEF GetLocals
    <2>2. /\ index' <= NumberLimit /\ CacheCorrect(Cache)'
          /\ held' = cache.held
      BY <1>3, <2>1, KeepCorrect
    <2>3. Quiet \/ Going \/ Gone \/ Running \/ Stopped
      BY <1>2 DEF IInv, Phase, Fills
    <2>4. /\ Quiet => At("stopped", <<"frame">>, <<>>)'
          /\ Going => At("stopped", <<"go", "frame">>, <<>>)'
          /\ Gone => At("running", <<"frame">>, <<Answer("go")>>)'
          /\ Running => At("running", <<"wait", "frame">>, <<>>)'
          /\ Stopped => At("stopped", <<"frame">>, <<Answer("stopped")>>)'
      <3>1. /\ Append(<<>>, "frame") = <<"frame">>
            /\ Append(<<"go">>, "frame") = <<"go", "frame">>
            /\ Append(<<"wait">>, "frame") = <<"wait", "frame">>
        BY Queues
      <3> QED  BY <1>2, <2>1, <3>1 DEF Quiet, Going, Gone, Running, Stopped, At
    <2>5. FrameAsked'
      BY <2>3, <2>4 DEF FrameAsked
    <2>6. Phase'
      BY <2>1, <2>5 DEF Phase
    <2>7. LocalsKept'
      BY <1>2 DEF IInv, LocalsKept
    <2>8. Resuming' => Resuming
      BY <1>2, <2>1, <2>3, <2>4, Queues
         DEF Resuming, Quiet, Going, Gone, Running, Stopped, At, Fills
    <2>9. Fresh'
      BY <1>2, <1>3, <2>2, <2>8 DEF IInv, Fresh
    <2>10. Caught'
      <3>1. handler'.exn \in {0, thrown} /\ thrown \in {0, stop}
        BY <2>1 DEF IInv, Caught
      <3>2. tasks' = <<"wait", "frame">> => Running
        BY <2>3, <2>4, Queues DEF At
      <3>3. Running => thrown = 0
        BY DEF IInv, Caught, Running, At
      <3>4. target' = "running" /\ replies' = <<>> => thrown' = 0
        BY <1>2 DEF IInv, Caught
      <3> QED  BY <1>2, <3>1, <3>2, <3>3, <3>4 DEF Caught
    <2> QED  BY <1>2, <2>2, <2>6, <2>7, <2>9, <2>10 DEF IInv
  <1> QED  BY <1>4, <1>5

(* What is below an entry are values of the target.                        *)
LEMMA ChildrenAreValues ==
    ASSUME NEW entry \in Entry
    PROVE  Children(entry) \in Seq(Values)
  BY LocalsAssumption, ValuesAssumption DEF Children, Entry

(* Variables keeps the invariant.                                          *)
LEMMA VariablesStep ==
    ASSUME IInv, Variables
    PROVE  IInv'
  <1>1. PICK ref \in DOMAIN held \intersect DOMAIN entries :
           \E children \in Seq(Values) : \E unread :
              Keep(Listed(Cache, children, unread, entries[ref].stop))
    <2>1. PICK ref \in DOMAIN held \intersect DOMAIN entries :
             LET entry == entries[ref]
                 all   == Children(entry)
                 List(children, unread) == Keep(Listed(Cache, children, unread, entry.stop))
             IN \/ Whole(entry) /\ List(all, {})
                \/ \E start \in 0 .. Len(all) : \E count \in 0 .. (Len(all) - start) :
                      /\ ~Whole(entry)
                      /\ InRange(entry, start, count)
                      /\ LET asked == SubSeq(all, start + 1, start + count)
                         IN \E unread \in SUBSET Range(asked) : List(asked, unread)
      BY DEF Variables
    <2> DEFINE all == Children(entries[ref])
    <2>2. all \in Seq(Values)
      <3>1. entries[ref] \in Entry
        BY DEF IInv, CacheCorrect, Cache
      <3> QED  BY <3>1, ChildrenAreValues
    <2> HIDE DEF all
    <2>3. CASE Keep(Listed(Cache, all, {}, entries[ref].stop))
      BY <2>2, <2>3
    <2>4. ASSUME NEW start \in 0 .. Len(all), NEW count \in 0 .. (Len(all) - start), NEW unread,
                 Keep(Listed(Cache, SubSeq(all, start + 1, start + count), unread,
                             entries[ref].stop))
          PROVE  \E children \in Seq(Values) : \E miss :
                    Keep(Listed(Cache, children, miss, entries[ref].stop))
      <3>1. SubSeq(all, start + 1, start + count) \in Seq(Values)
        BY <2>2
      <3> QED  BY <2>4, <3>1
    <2> QED  BY <2>1, <2>3, <2>4 DEF all
  <1>2. PICK children \in Seq(Values) :
           \E unread : Keep(Listed(Cache, children, unread, entries[ref].stop))
    BY <1>1
  <1>3. /\ ~Resuming /\ target = "stopped"
        /\ UNCHANGED <<target, stop, tasks, replies, handler, locals, thrown>>
    BY StoppedUnlessResuming DEF Variables, IInv, Fresh
  <1>4. AllOfStop(Cache, stop) /\ CacheCorrect(Cache)
    BY <1>3 DEF IInv, Fresh, AllOfStop, Cache
  <1>5. entries[ref].stop = stop /\ stop \in Stops
    BY <1>3, EntryOfStop DEF IInv, Fresh
  <1>6. /\ index' <= NumberLimit /\ CacheCorrect(Cache)'
        /\ \A r \in DOMAIN held' : held'[r].stop = stop
    BY <1>2, <1>4, <1>5, ListedCorrect, KeepCorrect DEF AllOfStop
  <1>7. Phase' /\ LocalsKept'
    BY <1>3 DEF IInv, LocalsKept, Phase, Quiet, Going, Gone, Running, Stopped, At, Fills,
                FrameAsked, FrameAnswered, VariablesAsked, VariablesAnswered, LocalsAnswer
  <1>8. Fresh'
    BY <1>3, <1>6 DEF IInv, Fresh, Resuming
  <1>9. Caught'
    BY <1>3 DEF IInv, Caught
  <1> QED  BY <1>3, <1>5, <1>6, <1>7, <1>8, <1>9 DEF IInv

(* Stuttering steps.                                                       *)
LEMMA Stutters ==
    ASSUME IInv, UNCHANGED vars
    PROVE  IInv'
  <1> USE DEF vars
  <1>1. Phase' /\ LocalsKept'
    BY DEF IInv, LocalsKept, Phase, Quiet, Going, Gone, Running, Stopped, At, Fills,
           FrameAsked, FrameAnswered, VariablesAsked, VariablesAnswered, LocalsAnswer
  <1>2. Fresh' /\ Caught'
    BY DEF IInv, Fresh, Resuming, Caught
  <1> QED  BY <1>1, <1>2, CacheUnchanged DEF IInv, cacheVars

-----------------------------------------------------------------------------
(* The invariant the other theorems follow from.                           *)
THEOREM VariablesCorrect == Spec => []IInv
  <1>1. IInv /\ [Next]_vars => IInv'
    BY ContinueStep, EditStep, ScopesOrEvaluateStep, VariablesStep, GoTaskStep, WaitTaskStep,
       FrameTaskStep, VariablesTaskStep, GoRepliedStep, StopRepliedStep, FrameRepliedStep,
       FillFailsStep, LocalsRepliedStep, Stutters DEF Next
  <1> QED  BY <1>1, Initially, PTL DEF Spec

(* TypeOK says too that a request for locals is in progress exactly while  *)
(* one of its tasks or answers is in the queues.                           *)
THEOREM VariablesTypes == Spec => []TypeOK
  <1> DEFINE Replies == [res : {"go", "stopped", "frame", "error"}]
                        \union [res : {"locals"}, store : Store]
             Asked   == \E i \in DOMAIN tasks : tasks[i] \in {"frame", "variables"}
             Replied == \E i \in DOMAIN replies : replies[i].res \in {"frame", "error", "locals"}
  <1>1. \A res \in {"go", "stopped", "frame", "error"} : Answer(res) \in Replies
    BY DEF Answer
  <1>2. \A a \in {<<>>, <<Answer("go")>>, <<Answer("stopped")>>} : a \in Seq(Replies)
    <2>1. Answer("go") \in Replies /\ Answer("stopped") \in Replies
      BY <1>1
    <2> HIDE DEF Replies
    <2>2. <<>> \in Seq(Replies) /\ <<Answer("go")>> \in Seq(Replies)
          /\ <<Answer("stopped")>> \in Seq(Replies)
      BY <2>1, QueuesOf
    <2> QED  BY <2>2
  <1>3. \A t \in {<<>>, <<"go">>, <<"wait">>, <<"frame">>, <<"go", "frame">>,
                  <<"wait", "frame">>, <<"frame", "wait">>} :
           t \in Seq({"go", "wait", "frame", "variables"})
    <2> DEFINE Tasks == {"go", "wait", "frame", "variables"}
    <2>1. "go" \in Tasks /\ "wait" \in Tasks /\ "frame" \in Tasks
      OBVIOUS
    <2> HIDE DEF Tasks
    <2>2. /\ <<>> \in Seq(Tasks) /\ <<"go">> \in Seq(Tasks) /\ <<"wait">> \in Seq(Tasks)
          /\ <<"frame">> \in Seq(Tasks) /\ <<"go", "frame">> \in Seq(Tasks)
          /\ <<"wait", "frame">> \in Seq(Tasks) /\ <<"frame", "wait">> \in Seq(Tasks)
      BY <2>1, QueuesOf
    <2> QED  BY <2>2 DEF Tasks
  <1>4. ASSUME IInv
        PROVE  /\ target \in {"stopped", "running"}
               /\ tasks \in Seq({"go", "wait", "frame", "variables"})
               /\ replies \in Seq(Replies)
               /\ handler.op \in {"idle", "continue", "edit"} \union Fills
               /\ handler.op \in Fills <=> Asked \/ Replied
    <2>1. CASE handler.op \in {"idle", "continue", "edit"}
      <3>1. /\ target \in {"stopped", "running"}
            /\ tasks \in {<<>>, <<"go">>, <<"wait">>}
            /\ replies \in {<<>>, <<Answer("go")>>, <<Answer("stopped")>>}
        BY <1>4, <2>1 DEF IInv, Phase, Quiet, Going, Gone, Running, Stopped, At, Fills
      <3>2. replies \in Seq(Replies)
        <4> HIDE DEF Replies
        <4> QED  BY <1>2, <3>1
      <3>3. ~Asked /\ ~Replied
        BY <3>1 DEF Answer
      <3>4. tasks \in Seq({"go", "wait", "frame", "variables"})
        BY <1>3, <3>1
      <3> QED  BY <2>1, <3>1, <3>2, <3>3, <3>4 DEF Fills
    <2>2. CASE handler.op \in Fills /\ FrameAsked
      <3>1. /\ target \in {"stopped", "running"}
            /\ tasks \in {<<"frame">>, <<"go", "frame">>, <<"wait", "frame">>, <<"frame", "wait">>}
            /\ replies \in {<<>>, <<Answer("go")>>, <<Answer("stopped")>>}
        BY <2>2 DEF FrameAsked, At
      <3>2. replies \in Seq(Replies)
        <4> HIDE DEF Replies
        <4> QED  BY <1>2, <3>1
      <3>3. Asked
        BY <3>1
      <3>4. tasks \in Seq({"go", "wait", "frame", "variables"})
        BY <1>3, <3>1
      <3> QED  BY <2>2, <3>1, <3>2, <3>3, <3>4
    <2>3. CASE handler.op \in Fills /\ FrameAnswered
      <3>1. PICK res \in {"frame", "error"} :
               /\ target = "stopped" /\ tasks = <<>>
               /\ replies \in {<<Answer(res)>>, <<Answer("stopped"), Answer(res)>>}
        BY <2>3 DEF FrameAnswered, At
      <3>2. replies \in Seq(Replies)
        <4> HIDE DEF Replies
        <4> QED  BY <1>1, <3>1, QueuesOf
      <3>3. Replied
        BY <3>1 DEF Answer
      <3> QED  BY <2>3, <3>1, <3>2, <3>3
    <2>4. CASE handler.op \in Fills /\ VariablesAsked
      <3>1. target = "stopped" /\ tasks = <<"variables">> /\ replies = <<>>
        BY <2>4 DEF VariablesAsked, At
      <3> QED  BY <2>4, <3>1
    <2>5. CASE /\ handler.op \in Fills /\ VariablesAnswered
               /\ handler.thread \in Threads /\ handler.frame \in Frames
      <3>1. target = "stopped" /\ tasks = <<>> /\ replies = <<LocalsAnswer>>
        BY <2>5 DEF VariablesAnswered, At
      <3>2. LocalsAnswer \in Replies /\ LocalsAnswer.res = "locals"
        BY <1>4, <2>5 DEF LocalsAnswer, Store, IInv
      <3> QED  BY <2>5, <3>1, <3>2
    <2> QED  BY <1>4, <2>1, <2>2, <2>3, <2>4, <2>5 DEF IInv, Phase
  <1>5. ASSUME IInv
        PROVE  /\ stop \in Stops /\ index \in 1 .. NumberLimit
               /\ thrown \in {0} \union Stops
               /\ handler.op = "evaluate" => handler.exn \in {0} \union Stops
               /\ Range(locals) \subseteq Store
               /\ Range(entries) \union Range(held) \subseteq Entry
    <2>1. index \in 1 .. NumberLimit
      BY <1>5, NumberAssumption DEF IInv, CacheCorrect, Cache
    <2>2. Range(locals) \subseteq Store
      BY <1>5 DEF IInv, LocalsKept, Range
    <2>3. Range(entries) \union Range(held) \subseteq Entry
      BY <1>5 DEF IInv, CacheCorrect, Cache, Range
    <2>4. thrown \in {0} \union Stops /\ (handler.op = "evaluate" => handler.exn \in {0} \union Stops)
      BY <1>5 DEF IInv, Caught, Fills
    <2> QED  BY <1>5, <2>1, <2>2, <2>3, <2>4 DEF IInv
  <1>6. IInv => TypeOK
    BY <1>4, <1>5 DEF TypeOK, Fills
  <1> QED  BY <1>6, VariablesCorrect, PTL

(* Nothing is served from an earlier stop, with any number of threads,     *)
(* frames and stops and whatever the target holds (Locals.getLocals,       *)
(* Session.resume, VariableCache).                                         *)
THEOREM NothingStale == Spec => []StopsDoNotMix
  <1>1. IInv => StopsDoNotMix
    BY EntryOfStop DEF IInv, StopsDoNotMix, Fresh
  <1> QED  BY <1>1, VariablesCorrect, PTL

(* Every reference opens what it was given for, as long as their numbers   *)
(* do not wrap (VariableReference, VariableCache.fetch).                   *)
THEOREM ReferencesOpenTheirOwn == Spec => []ReferencesStand
  <1>1. IInv => ReferencesStand
    BY DEF IInv, ReferencesStand, CacheCorrect, Cache, Standing
  <1> QED  BY <1>1, VariablesCorrect, PTL

(* Every reference can be opened without a range, but those of empty       *)
(* containers and of pointers to scalars (VariableCache.fetch).            *)
THEOREM ReferencesCanBeOpened == Spec => []ReferencesOpen
  <1>1. IInv => ReferencesOpen
    <2> SUFFICES ASSUME IInv, NEW ref \in DOMAIN held
                 PROVE  /\ ref \in DOMAIN entries
                        /\ \/ Whole(entries[ref])
                           \/ InRange(entries[ref], 0, Len(Children(entries[ref])))
                           \/ /\ Children(entries[ref]) = <<>>
                              /\ KindOf[held[ref].value] # "scalar"
      BY DEF ReferencesOpen
    <2> DEFINE entry == entries[ref]
    <2>1. /\ ref \in DOMAIN entries /\ entry \in Entry /\ held[ref] \in Entry
          /\ entry = Standing(held[ref])
          /\ held[ref].type = "model" => KindOf[held[ref].value] # "scalar"
      BY DEF IInv, CacheCorrect, Cache
    <2>2. Children(entry) \in Seq(Values)
      BY <2>1, ChildrenAreValues
    <2>3. CASE entry.type # "model"
      <3>1. Len(Children(entry)) \in Nat
        BY <2>2
      <3> QED  BY <2>1, <2>3, <3>1 DEF InRange
    <2>4. CASE entry.type = "model"
      <3>1. held[ref].type = "model" /\ KindOf[held[ref].value] # "scalar"
        BY <2>1, <2>4 DEF Standing
      <3>2. entry.value \in Values /\ Children(entry) = ChildrenOf[entry.value]
        BY <2>1, <2>4 DEF Entry, Children
      <3>3. CASE KindOf[entry.value] = "scalar"
        BY <2>1, <3>1, <3>2, <3>3, ValuesAssumption
      <3>4. CASE KindOf[entry.value] # "scalar"
        <4>1. Len(Children(entry)) \in Nat /\ (Children(entry) = <<>> \/ Len(Children(entry)) > 0)
          BY <2>2
        <4> QED  BY <2>1, <3>1, <3>4, <4>1 DEF InRange
      <3> QED  BY <3>3, <3>4
    <2> QED  BY <2>1, <2>3, <2>4
  <1> QED  BY <1>1, VariablesCorrect, PTL
===============================================================================
