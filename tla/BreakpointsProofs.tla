--------------------------- MODULE BreakpointsProofs ---------------------------
(***************************************************************************)
(* Proofs about Breakpoints, for every source map, any number of native    *)
(* ids and breakpoints: that none of the engine's breakpoints is forgotten *)
(* and none has two owners, whatever findExprs finds; and that what it     *)
(* finds of a position is mapped back to the position.                     *)
(***************************************************************************)
EXTENDS Breakpoints, SequenceTheorems, WellFoundedInduction, TLAPS

(* What is true within an operation too.  Of a create the ids it has been  *)
(* given so far belong to nobody else; of a delete the ids it has removed  *)
(* are no longer the engine's, and without a failure they and those still  *)
(* to be removed make up the breakpoint.                                   *)
CreateShape ==
    pending.op = "create" =>
        /\ nextId < MaxBreakpoints
        /\ pending = [op |-> "create", path |-> pending.path, line |-> pending.line,
                      char |-> pending.char, todo |-> pending.todo, done |-> pending.done,
                      failed |-> pending.failed]

DeleteShape ==
    pending.op = "delete" =>
        pending = [op |-> "delete", id |-> pending.id, todo |-> pending.todo,
                   done |-> pending.done, failed |-> pending.failed]

Removing ==
    pending.op = "delete" =>
        /\ Range(pending.done) \intersect DOMAIN engine = {}
        /\ ~pending.failed => active[pending.id].native = pending.done \o pending.todo

NoneForgotten ==
    DOMAIN engine \subseteq Owned \union (IF pending.op = "create" THEN Range(pending.done) ELSE {})

NoneShared ==
    /\ \A i, j \in DOMAIN active : i # j => NativesOf(i) \intersect NativesOf(j) = {}
    /\ \A id \in DOMAIN active : IsInjective(active[id].native)

AllKnown ==
    /\ pending.op = "none"   => Owned \subseteq DOMAIN engine
    /\ pending.op = "create" => /\ Owned \union Range(pending.done) \subseteq DOMAIN engine
                                /\ Owned \intersect Range(pending.done) = {}
                                /\ IsInjective(pending.done)
    /\ pending.op = "delete" => /\ Owned \subseteq DOMAIN engine \union Range(pending.done)
                                /\ ~pending.failed

IInv ==
    /\ TypeOK /\ CreateShape /\ DeleteShape
    /\ Removing /\ NoneForgotten
    /\ ~removeFails => NoneShared /\ AllKnown

-----------------------------------------------------------------------------
(* Sequences and functions. *)

LEMMA RangeAppend ==
    ASSUME NEW S, NEW s \in Seq(S), NEW x
    PROVE  Range(Append(s, x)) = Range(s) \union {x}
  <1>1. s \in Seq(S \union {x}) /\ x \in S \union {x}
    OBVIOUS
  <1>2. /\ Len(Append(s, x)) = Len(s) + 1 /\ Len(s) \in Nat
        /\ DOMAIN s = 1 .. Len(s) /\ DOMAIN Append(s, x) = 1 .. (Len(s) + 1)
        /\ \A i \in 1 .. Len(s) : Append(s, x)[i] = s[i]
        /\ Append(s, x)[Len(s) + 1] = x
    BY <1>1
  <1> QED  BY <1>2 DEF Range

LEMMA RangeConcat ==
    ASSUME NEW S, NEW s \in Seq(S), NEW t \in Seq(S)
    PROVE  Range(s \o t) = Range(s) \union Range(t)
  <1>1. /\ Len(s) \in Nat /\ Len(t) \in Nat
        /\ DOMAIN s = 1 .. Len(s) /\ DOMAIN t = 1 .. Len(t)
        /\ DOMAIN (s \o t) = 1 .. (Len(s) + Len(t))
        /\ \A i \in 1 .. (Len(s) + Len(t)) :
              (s \o t)[i] = IF i <= Len(s) THEN s[i] ELSE t[i - Len(s)]
    OBVIOUS
  <1>2. ASSUME NEW x \in Range(s \o t)  PROVE x \in Range(s) \union Range(t)
    <2>1. PICK i \in 1 .. (Len(s) + Len(t)) : x = (s \o t)[i]
      BY <1>1, <1>2 DEF Range
    <2>2. CASE i <= Len(s)
      BY <1>1, <2>1, <2>2 DEF Range
    <2>3. CASE ~(i <= Len(s))
      <3>1. i - Len(s) \in 1 .. Len(t)
        BY <1>1, <2>1, <2>3
      <3> QED  BY <1>1, <2>1, <2>3, <3>1 DEF Range
    <2> QED  BY <2>2, <2>3
  <1>3. ASSUME NEW x \in Range(s)  PROVE x \in Range(s \o t)
    <2>1. PICK i \in 1 .. Len(s) : x = s[i]
      BY <1>1, <1>3 DEF Range
    <2>2. i \in 1 .. (Len(s) + Len(t)) /\ (s \o t)[i] = x
      BY <1>1, <2>1
    <2> QED  BY <1>1, <2>2 DEF Range
  <1>4. ASSUME NEW x \in Range(t)  PROVE x \in Range(s \o t)
    <2>1. PICK i \in 1 .. Len(t) : x = t[i]
      BY <1>1, <1>4 DEF Range
    <2>2. i + Len(s) \in 1 .. (Len(s) + Len(t)) /\ (s \o t)[i + Len(s)] = x
      BY <1>1, <2>1
    <2> QED  BY <1>1, <2>2 DEF Range
  <1> QED  BY <1>2, <1>3, <1>4

LEMMA InjectiveAppend ==
    ASSUME NEW S, NEW s \in Seq(S), NEW x, IsInjective(s), x \notin Range(s)
    PROVE  IsInjective(Append(s, x))
  <1>1. s \in Seq(S \union {x}) /\ x \in S \union {x}
    OBVIOUS
  <1>2. /\ Len(s) \in Nat
        /\ DOMAIN s = 1 .. Len(s) /\ DOMAIN Append(s, x) = 1 .. (Len(s) + 1)
        /\ \A i \in 1 .. Len(s) : Append(s, x)[i] = s[i]
        /\ Append(s, x)[Len(s) + 1] = x
    BY <1>1
  <1>3. \A i \in 1 .. Len(s) : s[i] # x
    BY <1>2 DEF Range
  <1> QED  BY <1>2, <1>3 DEF IsInjective

(* Of an injective sequence nothing is left of what has been taken. *)
LEMMA InjectiveConcat ==
    ASSUME NEW S, NEW s \in Seq(S), NEW t \in Seq(S), t # <<>>, IsInjective(s \o t)
    PROVE  Head(t) \notin Range(s)
  <1>1. /\ Len(s) \in Nat /\ Len(t) \in Nat \ {0} /\ Head(t) = t[1]
        /\ DOMAIN s = 1 .. Len(s)
        /\ DOMAIN (s \o t) = 1 .. (Len(s) + Len(t))
        /\ \A i \in 1 .. Len(s) : (s \o t)[i] = s[i]
        /\ (s \o t)[Len(s) + 1] = t[1]
    OBVIOUS
  <1> QED  BY <1>1 DEF Range, IsInjective

LEMMA MoveHead ==
    ASSUME NEW S, NEW s \in Seq(S), NEW t \in Seq(S), t # <<>>
    PROVE  s \o t = Append(s, Head(t)) \o Tail(t)
  OBVIOUS

LEMMA MoreLeft ==
    ASSUME NEW S, NEW t \in Seq(S), Len(t) > 1
    PROVE  Tail(t) \in Seq(S) \ {<<>>}
  <1>1. t # <<>> /\ Len(t) \in Nat
    OBVIOUS
  <1>2. Tail(t) \in Seq(S) /\ Len(Tail(t)) = Len(t) - 1
    BY <1>1
  <1>3. Tail(t) # <<>>
    <2>1. Len(<<>>) = 0
      OBVIOUS
    <2>2. Len(Tail(t)) # 0
      BY <1>1, <1>2
    <2> QED  BY <2>1, <2>2, Zenon
  <1> QED  BY <1>2, <1>3

LEMMA NoneLeft ==
    ASSUME NEW S, NEW s \in Seq(S), NEW t \in Seq(S), t # <<>>, ~(Len(t) > 1)
    PROVE  s \o Tail(t) = s
  <1>1. Tail(t) = <<>>
    OBVIOUS
  <1> QED  BY <1>1

LEMMA Added ==
    ASSUME NEW f, NEW x, NEW v
    PROVE  /\ DOMAIN Put(f, x, v) = DOMAIN f \union {x}
           /\ Put(f, x, v)[x] = v
           /\ \A y \in DOMAIN f : y # x => Put(f, x, v)[y] = f[y]
  BY DEF Put

LEMMA Restricted ==
    ASSUME NEW f, NEW x
    PROVE  /\ DOMAIN Restrict(f, DOMAIN f \ {x}) = DOMAIN f \ {x}
           /\ \A y \in DOMAIN f \ {x} : Restrict(f, DOMAIN f \ {x})[y] = f[y]
  BY DEF Restrict

(* A set of numbers has a least member.                                    *)
LEMMA Least ==
    ASSUME NEW T \in SUBSET Nat, T # {}
    PROVE  \E m \in T : \A k \in T : m <= k
  <1> DEFINE R == OpToRel(<, Nat)
  <1>1. IsWellFoundedOn(R, Nat)
    BY NatLessThanWellFounded
  <1>2. \A x, y \in Nat : <<x, y>> \in R <=> x < y
    BY DEF OpToRel
  <1> HIDE DEF R
  <1>3. PICK m \in T : \A y \in T : ~(<<y, m>> \in R)
    BY <1>1, WFMin
  <1>4. \A y \in T : ~(y < m)
    BY <1>2, <1>3
  <1> QED  BY <1>4

(* Induction, over a set instead of a predicate.                           *)
LEMMA Induct ==
    ASSUME NEW S, 0 \in S, \A n \in Nat : n \in S => n + 1 \in S
    PROVE  Nat \subseteq S
  <1> SUFFICES ASSUME Nat \ S # {}  PROVE FALSE
    OBVIOUS
  <1>1. PICK m \in Nat \ S : \A k \in Nat \ S : m <= k
    BY Least
  <1>2. m # 0 /\ m - 1 \in Nat /\ m - 1 \in S
    BY <1>1
  <1> QED  BY <1>1, <1>2

(* The first sequences of several, put together: what FlattenSeq computes. *)
Flatten(seqs, F, n) ==
    F = [i \in 1 .. n |-> IF i = 1 THEN seqs[i] ELSE F[i - 1] \o seqs[i]]

LEMMA FlattenExists ==
    ASSUME NEW seqs, NEW n \in Nat
    PROVE  \E F : Flatten(seqs, F, n)
  <1> DEFINE T == {m \in Nat : \E F : Flatten(seqs, F, m)}
  <1>1. 0 \in T
    <2> DEFINE none == [i \in 1 .. 0 |-> seqs[i]]
    <2>1. Flatten(seqs, none, 0)
      BY DEF Flatten
    <2> QED
      BY <2>1
  <1>2. ASSUME NEW m \in Nat, m \in T PROVE m + 1 \in T
    <2>1. PICK F : Flatten(seqs, F, m)
      BY <1>2
    <2> DEFINE G == [i \in 1 .. (m + 1) |-> IF i <= m THEN F[i]
                                            ELSE IF i = 1 THEN seqs[i] ELSE F[i - 1] \o seqs[i]]
    <2>2. ASSUME NEW i \in 1 .. (m + 1)
          PROVE  G[i] = IF i = 1 THEN seqs[i] ELSE G[i - 1] \o seqs[i]
      <3>1. i # 1 => i - 1 \in 1 .. m /\ i - 1 <= m /\ G[i - 1] = F[i - 1]
        OBVIOUS
      <3>2. CASE i <= m
        <4>1. i \in 1 .. m /\ G[i] = F[i]
          BY <3>2
        <4>2. F[i] = IF i = 1 THEN seqs[i] ELSE F[i - 1] \o seqs[i]
          BY <2>1, <4>1 DEF Flatten
        <4> HIDE DEF G
        <4> QED
          BY <3>1, <4>1, <4>2
      <3>3. CASE ~(i <= m)
        <4>1. G[i] = IF i = 1 THEN seqs[i] ELSE F[i - 1] \o seqs[i]
          BY <3>3
        <4> HIDE DEF G
        <4> QED
          BY <3>1, <4>1
      <3> QED
        BY <3>2, <3>3
    <2>3. Flatten(seqs, G, m + 1)
      <3>1. G = [i \in 1 .. (m + 1) |-> G[i]]
        OBVIOUS
      <3> HIDE DEF G
      <3> QED
        BY <2>2, <3>1 DEF Flatten
    <2> HIDE DEF G
    <2> QED
      BY <2>3
  <1>3. Nat \subseteq T
    <2> HIDE DEF T
    <2> QED
      BY <1>1, <1>2, Induct
  <1> QED
    BY <1>3

LEMMA Flattened ==
    ASSUME NEW S, NEW seqs \in Seq(Seq(S))
    PROVE  /\ FlattenSeq(seqs) \in Seq(S)
           /\ Range(FlattenSeq(seqs)) = UNION {Range(seqs[i]) : i \in DOMAIN seqs}
  <1>1. Len(seqs) \in Nat /\ DOMAIN seqs = 1 .. Len(seqs) /\ \A i \in 1 .. Len(seqs) : seqs[i] \in Seq(S)
    OBVIOUS
  <1>2. CASE Len(seqs) = 0
    <2>1. seqs = <<>> /\ FlattenSeq(seqs) = seqs /\ DOMAIN seqs = {}
      BY <1>1, <1>2 DEF FlattenSeq
    <2>2. FlattenSeq(seqs) = <<>> /\ <<>> \in Seq(S)
      BY <2>1
    <2>3. Range(FlattenSeq(seqs)) = {} /\ UNION {Range(seqs[i]) : i \in DOMAIN seqs} = {}
      BY <2>1 DEF Range
    <2> QED
      BY <2>2, <2>3
  <1>3. CASE Len(seqs) # 0
    <2> DEFINE n == Len(seqs)
               F == CHOOSE f : Flatten(seqs, f, n)
    <2>1. Flatten(seqs, F, n)
      BY <1>1, FlattenExists
    <2>2. FlattenSeq(seqs) = F[n]
      BY <1>3 DEF FlattenSeq, Flatten
    <2> HIDE DEF F
    <2>3. \A i \in 1 .. n : F[i] = IF i = 1 THEN seqs[i] ELSE F[i - 1] \o seqs[i]
      BY <2>1 DEF Flatten
    <2> DEFINE T == {m \in Nat : m \in 1 .. n => /\ F[m] \in Seq(S)
                                              /\ Range(F[m]) = UNION {Range(seqs[i]) : i \in 1 .. m}}
    <2>4. 0 \in T
      OBVIOUS
    <2>5. ASSUME NEW m \in Nat, m \in T PROVE m + 1 \in T
      <3> SUFFICES ASSUME m + 1 \in 1 .. n
                   PROVE  /\ F[m + 1] \in Seq(S)
                          /\ Range(F[m + 1]) = UNION {Range(seqs[i]) : i \in 1 .. (m + 1)}
        OBVIOUS
      <3>1. seqs[m + 1] \in Seq(S)
        BY <1>1
      <3>2. CASE m = 0
        <4>1. F[m + 1] = seqs[1] /\ 1 .. (m + 1) = {1}
          BY <2>3, <3>2
        <4> QED
          BY <3>1, <3>2, <4>1
      <3>3. CASE m # 0
        <4>1. m \in 1 .. n
          BY <1>1, <3>3
        <4>2. F[m + 1] = F[m] \o seqs[m + 1]
          <5>1. (m + 1) - 1 = m /\ m + 1 # 1
            BY <3>3
          <5>2. F[m + 1] = IF m + 1 = 1 THEN seqs[m + 1] ELSE F[(m + 1) - 1] \o seqs[m + 1]
            BY <2>3
          <5> QED
            BY <5>1, <5>2, Zenon
        <4>3. /\ F[m] \in Seq(S)
              /\ Range(F[m]) = UNION {Range(seqs[i]) : i \in 1 .. m}
          BY <2>5, <4>1
        <4>4. F[m + 1] \in Seq(S) /\ Range(F[m + 1]) = Range(F[m]) \union Range(seqs[m + 1])
          BY <3>1, <4>2, <4>3, RangeConcat
        <4>5. 1 .. (m + 1) = (1 .. m) \union {m + 1}
          OBVIOUS
        <4> QED
          BY <4>3, <4>4, <4>5
      <3> QED
        BY <3>2, <3>3
    <2>6. n \in T
      <3>1. Nat \subseteq T
        <4> HIDE DEF T
        <4> QED
          BY <2>4, <2>5, Induct
      <3> QED
        BY <1>1, <3>1
    <2> QED
      BY <1>1, <1>3, <2>2, <2>6
  <1> QED
    BY <1>2, <1>3

(* A filter keeps the elements of some set. *)
Among(s, P) == FlattenSeq([i \in DOMAIN s |-> IF s[i] \in P THEN <<s[i]>> ELSE <<>>])

LEMMA Filtered ==
    ASSUME NEW S, NEW s \in Seq(S), NEW P
    PROVE  /\ Among(s, P) \in Seq(S \intersect P)
           /\ Range(Among(s, P)) = Range(s) \intersect P
  <1> DEFINE X == S \intersect P
             t == [i \in DOMAIN s |-> IF s[i] \in P THEN <<s[i]>> ELSE <<>>]
  <1>1. /\ Len(s) \in Nat /\ DOMAIN s = 1 .. Len(s)
        /\ \A i \in 1 .. Len(s) : s[i] \in S
    OBVIOUS
  <1>2. \A i \in 1 .. Len(s) : t[i] = IF s[i] \in P THEN <<s[i]>> ELSE <<>>
    BY <1>1
  <1>3. ASSUME NEW i \in 1 .. Len(s)
        PROVE  t[i] \in Seq(X) /\ Range(t[i]) = {s[i]} \intersect P
    <2>1. CASE s[i] \in P
      <3>1. t[i] = <<s[i]>> /\ s[i] \in X
        BY <1>1, <1>2, <2>1
      <3>2. Range(<<s[i]>>) = {s[i]}
        BY DEF Range
      <3>3. <<s[i]>> \in Seq(X) /\ {s[i]} = {s[i]} \intersect P
        BY <3>1
      <3> QED
        BY <3>1, <3>2, <3>3
    <2>2. CASE s[i] \notin P
      <3>1. t[i] = <<>> /\ Range(<<>>) = {}
        BY <1>2, <2>2 DEF Range
      <3> QED
        BY <2>2, <3>1
    <2> QED
      BY <2>1, <2>2
  <1>4. t \in Seq(Seq(X)) /\ DOMAIN t = 1 .. Len(s)
    <2>1. t \in [1 .. Len(s) -> Seq(X)]
      BY <1>1, <1>3
    <2> QED
      BY <1>1, <2>1
  <1>5. UNION {Range(t[i]) : i \in 1 .. Len(s)} = Range(s) \intersect P
    BY <1>1, <1>3 DEF Range
  <1>6. Among(s, P) = FlattenSeq(t)
    BY DEF Among
  <1> HIDE DEF t, X
  <1>7. /\ FlattenSeq(t) \in Seq(X)
        /\ Range(FlattenSeq(t)) = UNION {Range(t[i]) : i \in DOMAIN t}
    BY <1>4, Flattened
  <1>8. UNION {Range(t[i]) : i \in DOMAIN t} = UNION {Range(t[i]) : i \in 1 .. Len(s)}
    BY <1>4
  <1> QED
    BY <1>5, <1>6, <1>7, <1>8 DEF X

-----------------------------------------------------------------------------
(* The source map: what is found of a position is mapped back to it. *)

(* A sequence is one of the elements it has, and of more. *)
LEMMA SequenceOf ==
    ASSUME NEW s, IsSequence(s), NEW S, Range(s) \subseteq S
    PROVE  /\ s \in Seq(S) /\ Len(s) \in Nat /\ DOMAIN s = 1 .. Len(s)
           /\ \A i \in 1 .. Len(s) : s[i] \in Range(s)
  <1>1. s \in Seq(Range(s)) /\ Len(s) \in Nat /\ DOMAIN s = 1 .. Len(s)
    BY DEF IsSequence
  <1>2. \A i \in 1 .. Len(s) : s[i] \in Range(s)
    BY <1>1 DEF Range
  <1>3. s \in [1 .. Len(s) -> S]
    BY <1>1, <1>2
  <1> QED
    BY <1>1, <1>2, <1>3

(* The expressions of a function, and of a file. *)
Exprs(func) == Range(func.exprs) \union UNION {Range(closure) : closure \in Range(func.closures)}
FileExprs(f) == UNION {Exprs(func) : func \in Range(f.functions)}

LEMMA FunctionExprs ==
    ASSUME NEW map \in Maps, NEW f \in Range(map), NEW func \in Range(f.functions)
    PROVE  /\ ClosuresOf(func) \o func.exprs \in Seq(Exprs(func))
           /\ func.exprs \o ClosuresOf(func) \in Seq(Exprs(func))
           /\ Range(ClosuresOf(func) \o func.exprs) = Exprs(func)
           /\ Range(func.exprs \o ClosuresOf(func)) = Exprs(func)
  <1>1. /\ IsSequence(func.exprs) /\ IsSequence(func.closures)
        /\ \A closure \in Range(func.closures) : IsSequence(closure)
    BY MapsAssumption
  <1>2. func.exprs \in Seq(Exprs(func))
    BY <1>1, SequenceOf DEF Exprs
  <1>3. \A closure \in Range(func.closures) : closure \in Seq(Exprs(func))
    BY <1>1, SequenceOf DEF Exprs
  <1>4. /\ func.closures \in Seq(Seq(Exprs(func)))
        /\ Range(func.closures) = {func.closures[i] : i \in DOMAIN func.closures}
    BY <1>1, <1>3, SequenceOf DEF Range
  <1>5. /\ ClosuresOf(func) \in Seq(Exprs(func))
        /\ Range(ClosuresOf(func)) = UNION {Range(func.closures[i]) : i \in DOMAIN func.closures}
    BY <1>4, Flattened DEF ClosuresOf
  <1>6. UNION {Range(func.closures[i]) : i \in DOMAIN func.closures}
        = UNION {Range(closure) : closure \in Range(func.closures)}
    <2> DEFINE cs == func.closures
    <2>1. Range(cs) = {cs[i] : i \in DOMAIN cs}
      BY <1>4
    <2> HIDE DEF cs
    <2>2. UNION {Range(cs[i]) : i \in DOMAIN cs} = UNION {Range(closure) : closure \in Range(cs)}
      BY <2>1
    <2> QED
      BY <2>2 DEF cs
  <1>7. Range(func.exprs) \union Range(ClosuresOf(func)) = Exprs(func)
    BY <1>5, <1>6 DEF Exprs
  <1>8. /\ Range(ClosuresOf(func) \o func.exprs) = Range(ClosuresOf(func)) \union Range(func.exprs)
        /\ Range(func.exprs \o ClosuresOf(func)) = Range(func.exprs) \union Range(ClosuresOf(func))
    BY <1>2, <1>5, RangeConcat
  <1>9. /\ ClosuresOf(func) \o func.exprs \in Seq(Exprs(func))
        /\ func.exprs \o ClosuresOf(func) \in Seq(Exprs(func))
    BY <1>2, <1>5
  <1> QED
    BY <1>7, <1>8, <1>9

LEMMA InOrderExprs ==
    ASSUME NEW map \in Maps, NEW f \in Range(map)
    PROVE  /\ InOrder(f) \in Seq(FileExprs(f))
           /\ Range(InOrder(f)) = FileExprs(f)
  <1> DEFINE fs == f.functions
             t  == [i \in DOMAIN fs |-> fs[i].exprs \o ClosuresOf(fs[i])]
  <1>1. IsSequence(fs)
    BY MapsAssumption
  <1>2. Len(fs) \in Nat /\ DOMAIN fs = 1 .. Len(fs) /\ \A i \in 1 .. Len(fs) : fs[i] \in Range(fs)
    BY <1>1, SequenceOf
  <1>3. Range(fs) = {fs[i] : i \in 1 .. Len(fs)}
    BY <1>2 DEF Range
  <1>4. ASSUME NEW i \in 1 .. Len(fs)
        PROVE  t[i] \in Seq(FileExprs(f)) /\ Range(t[i]) = Exprs(fs[i])
    <2>1. fs[i].exprs \o ClosuresOf(fs[i]) \in Seq(Exprs(fs[i])) /\ Range(fs[i].exprs \o ClosuresOf(fs[i])) = Exprs(fs[i])
      BY <1>2, FunctionExprs
    <2>2. Exprs(fs[i]) \subseteq FileExprs(f)
      BY <1>2 DEF FileExprs
    <2> QED
      BY <1>2, <2>1, <2>2
  <1>5. t \in Seq(Seq(FileExprs(f))) /\ DOMAIN t = 1 .. Len(fs)
    <2>1. t \in [1 .. Len(fs) -> Seq(FileExprs(f))]
      BY <1>2, <1>4
    <2> QED
      BY <1>2, <2>1
  <1>6. UNION {Range(t[i]) : i \in 1 .. Len(fs)} = FileExprs(f)
    BY <1>3, <1>4 DEF FileExprs
  <1>7. InOrder(f) = FlattenSeq(t)
    BY DEF InOrder
  <1> HIDE DEF t
  <1> QED
    BY <1>5, <1>6, <1>7, Flattened

(* The files a path may mean, and the places of their expressions. *)
Meant(map, path)  == {f \in Range(map) : Matches(f.haxe, path)}
Places(map, path) == UNION {{[file |-> f.cpp, expr |-> e] : e \in FileExprs(f)} : f \in Meant(map, path)}

LEMMA FilesMeant ==
    ASSUME NEW map \in Maps, NEW path
    PROVE  /\ FilesOf(map, path) \in Seq(Meant(map, path))
           /\ Range(FilesOf(map, path)) = Meant(map, path)
  <1>1. IsSequence(map)
    BY MapsAssumption
  <1>2. map \in Seq(Range(map)) /\ \A i \in DOMAIN map : map[i] \in Range(map)
    BY <1>1, SequenceOf
  <1>3. FilesOf(map, path) = Among(map, Meant(map, path))
    BY <1>2 DEF FilesOf, Filter, Among, Meant
  <1>4. Range(map) \intersect Meant(map, path) = Meant(map, path)
    BY DEF Meant
  <1> QED
    BY <1>2, <1>3, <1>4, Filtered

(* What findExprs finds in a file are places of the file. *)
PlacesOf(f) == {[file |-> f.cpp, expr |-> e] : e \in FileExprs(f)}

LEMMA PlacesFound ==
    ASSUME NEW map \in Maps, NEW path, NEW line, NEW char
    PROVE  FindExprs(FilesOf(map, path), line, char) \in Seq(Places(map, path))
  <1> DEFINE P == Places(map, path)
             files == FilesOf(map, path)
             Found(f, exprs) == [i \in DOMAIN exprs |-> [file |-> f.cpp, expr |-> exprs[i]]]
             All(func) == ClosuresOf(func) \o func.exprs
             InFunction(f, func) == Found(f, Filter(All(func), LAMBDA e : Covers(e, line, char)))
             InFile(f) == FlattenSeq([i \in DOMAIN f.functions |-> InFunction(f, f.functions[i])])
  <1>1. FindExprs(files, line, char) = FlattenSeq([i \in DOMAIN files |-> InFile(files[i])])
    BY DEF FindExprs
  <1>2. ASSUME NEW f \in Meant(map, path), NEW func \in Range(f.functions)
        PROVE  InFunction(f, func) \in Seq(P)
    <2> DEFINE C == {e \in Exprs(func) : Covers(e, line, char)}
               es == Filter(All(func), LAMBDA e : Covers(e, line, char))
    <2>1. f \in Range(map)
      BY DEF Meant
    <2>2. All(func) \in Seq(Exprs(func))
      BY <2>1, FunctionExprs
    <2>3. Len(All(func)) \in Nat /\ DOMAIN All(func) = 1 .. Len(All(func)) /\ \A i \in DOMAIN All(func) : All(func)[i] \in Exprs(func)
      <3> HIDE DEF All
      <3> QED
        BY <2>2
    <2>4. es = Among(All(func), C)
      BY <2>3 DEF Among, Filter
    <2>5. es \in Seq(Exprs(func) \intersect C)
      <3> HIDE DEF All, C, es
      <3> QED
        BY <2>2, <2>4, Filtered
    <2>6. /\ Len(es) \in Nat /\ DOMAIN es = 1 .. Len(es)
          /\ \A i \in 1 .. Len(es) : es[i] \in Exprs(func)
      <3> HIDE DEF es, C
      <3> QED
        BY <2>5
    <2> HIDE DEF es
    <2>7. \A e \in Exprs(func) : [file |-> f.cpp, expr |-> e] \in P
      BY DEF Places, FileExprs
    <2> HIDE DEF P
    <2>8. Found(f, es) \in [1 .. Len(es) -> P]
      BY <2>6, <2>7
    <2>9. Found(f, es) \in Seq(P)
      <3> HIDE DEF Found
      <3> QED
        BY <2>6, <2>8
    <2> QED
      BY <2>9 DEF es
  <1> HIDE DEF InFunction
  <1>3. ASSUME NEW f \in Meant(map, path)
        PROVE  InFile(f) \in Seq(P)
    <2> DEFINE fs == f.functions
               t  == [i \in DOMAIN fs |-> InFunction(f, fs[i])]
    <2>1. IsSequence(fs)
      BY MapsAssumption DEF Meant
    <2>2. Len(fs) \in Nat /\ DOMAIN fs = 1 .. Len(fs) /\ \A i \in 1 .. Len(fs) : fs[i] \in Range(fs)
      BY <2>1, SequenceOf
    <2> HIDE DEF P
    <2>3. t \in [1 .. Len(fs) -> Seq(P)]
      BY <1>2, <2>2
    <2>4. t \in Seq(Seq(P))
      <3> HIDE DEF t
      <3> QED
        BY <2>2, <2>3
    <2>5. InFile(f) = FlattenSeq(t)
      OBVIOUS
    <2> HIDE DEF t
    <2> QED
      BY <2>4, <2>5, Flattened
  <1> HIDE DEF InFile, P
  <1> DEFINE t == [i \in DOMAIN files |-> InFile(files[i])]
  <1>4. files \in Seq(Meant(map, path))
    BY FilesMeant
  <1> HIDE DEF files
  <1>5. Len(files) \in Nat /\ DOMAIN files = 1 .. Len(files) /\ \A i \in 1 .. Len(files) : files[i] \in Meant(map, path)
    BY <1>4
  <1>6. t \in [1 .. Len(files) -> Seq(P)]
    BY <1>3, <1>5
  <1>7. t \in Seq(Seq(P))
    <2> HIDE DEF t
    <2> QED
      BY <1>5, <1>6
  <1>8. FlattenSeq(t) \in Seq(P)
    <2> HIDE DEF t
    <2> QED
      BY <1>7, Flattened
  <1> QED
    BY <1>1, <1>8 DEF P, files

(* A file is matched by the path the engine gives for it. *)
LEMMA MatchesItself ==
    ASSUME NEW map \in Maps, NEW f \in Range(map)
    PROVE  Matches(Built(f.cpp), f.cpp)
  <1> DEFINE s == f.cpp.name
             d == <<"/", "out/">>
             r == Reverse(s)
             q == Reverse(d \o s)
  <1>1. IsSequence(s) /\ ~f.cpp.abs
    BY MapsAssumption
  <1> DEFINE S == Range(s) \union {"/", "out/"}
  <1>2. s \in Seq(S) /\ d \in Seq(S) /\ Len(d) = 2 /\ Len(s) \in Nat
    BY <1>1, SequenceOf
  <1> HIDE DEF s, d, S
  <1>3. /\ Len(d \o s) = Len(s) + 2 /\ d \o s \in Seq(S)
        /\ \A i \in 1 .. Len(s) : (d \o s)[i + 2] = s[i]
    <2>1. /\ d \o s \in Seq(S) /\ Len(d \o s) = Len(s) + 2
          /\ \A i \in 1 .. (Len(s) + 2) : (d \o s)[i] = IF i <= 2 THEN d[i] ELSE s[i - 2]
      <3>1. /\ d \o s \in Seq(S) /\ Len(d \o s) = Len(d) + Len(s)
            /\ \A i \in 1 .. (Len(d) + Len(s)) : (d \o s)[i] = IF i <= Len(d) THEN d[i] ELSE s[i - Len(d)]
        BY <1>2, ConcatProperties
      <3>2. Len(d) = 2 /\ Len(d) + Len(s) = Len(s) + 2
        BY <1>2
      <3> QED
        BY <3>1, <3>2
    <2>2. ASSUME NEW i \in 1 .. Len(s) PROVE (d \o s)[i + 2] = s[i]
      <3>1. i + 2 \in 1 .. (Len(s) + 2) /\ ~(i + 2 <= 2) /\ (i + 2) - 2 = i
        BY <1>2
      <3>2. (d \o s)[i + 2] = s[(i + 2) - 2]
        BY <2>1, <3>1
      <3> QED
        BY <3>1, <3>2
    <2> QED
      BY <2>1, <2>2
  <1>4. /\ Len(r) = Len(s) /\ r \in Seq(S)
        /\ \A i \in 1 .. Len(s) : r[i] = s[(Len(s) - i) + 1]
    <2>1. r = [i \in 1 .. Len(s) |-> s[(Len(s) - i) + 1]]
      BY DEF Reverse
    <2> HIDE DEF r
    <2>2. \A i \in 1 .. Len(s) : s[(Len(s) - i) + 1] \in S
      BY <1>2
    <2> QED
      BY <1>2, <2>1, <2>2
  <1>5. /\ Len(q) = Len(s) + 2 /\ q \in Seq(S)
        /\ \A i \in 1 .. Len(s) : q[i] = s[(Len(s) - i) + 1]
    <2> DEFINE w == d \o s
    <2>1. q = [i \in 1 .. Len(w) |-> w[(Len(w) - i) + 1]]
      BY DEF Reverse
    <2>2. Len(w) = Len(s) + 2 /\ w \in Seq(S) /\ \A i \in 1 .. Len(s) : w[i + 2] = s[i]
      BY <1>3
    <2> HIDE DEF q, w
    <2>3. \A i \in 1 .. (Len(s) + 2) : w[(Len(w) - i) + 1] \in S
      BY <1>2, <2>2
    <2>4. q \in [1 .. (Len(s) + 2) -> S]
      BY <1>2, <2>1, <2>2, <2>3
    <2>5. Len(q) = Len(s) + 2 /\ q \in Seq(S)
      BY <1>2, <2>1, <2>2, <2>4
    <2>6. ASSUME NEW i \in 1 .. Len(s) PROVE q[i] = s[(Len(s) - i) + 1]
      <3>1. q[i] = w[(Len(w) - i) + 1]
        BY <1>2, <2>1, <2>2
      <3>2. (Len(s) - i) + 1 \in 1 .. Len(s) /\ (Len(w) - i) + 1 = ((Len(s) - i) + 1) + 2
        BY <1>2, <2>2
      <3> QED
        BY <2>2, <3>1, <3>2
    <2> QED
      BY <2>5, <2>6
  <1> HIDE DEF r, q
  <1>6. SubSeq(r, 1, Len(r)) = SubSeq(q, 1, Len(r))
    <2>1. /\ SubSeq(r, 1, Len(r)) \in Seq(S) /\ Len(SubSeq(r, 1, Len(r))) = Len(s)
          /\ \A i \in 1 .. Len(s) : SubSeq(r, 1, Len(r))[i] = r[i]
      BY <1>2, <1>4
    <2>2. /\ SubSeq(q, 1, Len(r)) \in Seq(S) /\ Len(SubSeq(q, 1, Len(r))) = Len(s)
          /\ \A i \in 1 .. Len(s) : SubSeq(q, 1, Len(r))[i] = q[i]
      BY <1>2, <1>4, <1>5
    <2> QED
      BY <1>4, <1>5, <2>1, <2>2, SeqEqual
  <1>7. IsSuffix(s, d \o s)
    BY <1>2, <1>4, <1>5, <1>6 DEF IsSuffix, IsPrefix, r, q
  <1> QED
    BY <1>1, <1>7 DEF Matches, Built, s, d

(* At a place of a file the file is found again, and an expression of the  *)
(* line (mapNativeFrame).                                                  *)
LEMMA MappedBack ==
    ASSUME NEW map \in Maps, NEW f \in Range(map), NEW e \in FileExprs(f)
    PROVE  LET frame == MapNativeFrame(map, [file |-> Built(f.cpp), line |-> e.cpp])
           IN /\ frame.kind = "haxe" /\ frame.file = f.haxe
              /\ frame.expr.cpp = e.cpp
  <1> DEFINE M     == {g \in Range(map) : Matches(Built(f.cpp), g.cpp)}
             files == Among(map, M)
             L     == {x \in FileExprs(f) : x.cpp = e.cpp}
             at    == Among(InOrder(f), L)
             frame == [file |-> Built(f.cpp), line |-> e.cpp]
  <1>1. M = {f}
    BY MatchesItself, MapsAssumption
  <1>2. map \in Seq(Range(map)) /\ \A i \in DOMAIN map : map[i] \in Range(map)
    <2>1. IsSequence(map)
      BY MapsAssumption
    <2> QED
      BY <2>1, SequenceOf
  <1>3. Filter(map, LAMBDA g : Matches(frame.file, g.cpp)) = files
    BY <1>2 DEF Filter, Among
  <1>4. files \in Seq({f}) /\ Range(files) = {f}
    <2>1. files \in Seq(Range(map) \intersect {f}) /\ Range(files) = Range(map) \intersect {f}
      <3> HIDE DEF M
      <3> QED
        BY <1>1, <1>2, Filtered
    <2>2. Range(map) \intersect {f} = {f}
      OBVIOUS
    <2> HIDE DEF files
    <2> QED
      BY <2>1, <2>2
  <1> HIDE DEF files
  <1>5. files # <<>> /\ Head(files) = f
    <2>1. files # <<>>
      <3>1. Range(<<>>) = {}
        BY DEF Range
      <3> QED
        BY <1>4, <3>1
    <2> QED
      BY <1>4, <2>1
  <1>6. InOrder(f) \in Seq(FileExprs(f)) /\ \A i \in DOMAIN InOrder(f) : InOrder(f)[i] \in FileExprs(f)
    BY InOrderExprs
  <1>7. Filter(InOrder(f), LAMBDA x : x.cpp = frame.line) = at
    BY <1>6 DEF Filter, Among
  <1>8. at \in Seq(L) /\ Range(at) = L
    <2>1. FileExprs(f) \intersect L = L /\ Range(InOrder(f)) \intersect L = L
      BY InOrderExprs
    <2> HIDE DEF L
    <2>2. at \in Seq(FileExprs(f) \intersect L) /\ Range(at) = Range(InOrder(f)) \intersect L
      BY <1>6, Filtered
    <2> HIDE DEF at
    <2> QED
      BY <2>1, <2>2
  <1>9. at # <<>> /\ Head(at) \in L
    <2>1. e \in L
      OBVIOUS
    <2> HIDE DEF at, L
    <2>2. at # <<>>
      BY <1>8, <2>1 DEF Range
    <2> QED
      BY <1>8, <2>2
  <1> HIDE DEF at
  <1>10. MapNativeFrame(map, frame) = [kind |-> "haxe", file |-> f.haxe, expr |-> Head(at)]
    BY <1>3, <1>5, <1>7, <1>9 DEF MapNativeFrame
  <1> QED
    BY <1>9, <1>10

-----------------------------------------------------------------------------
(* The steps. *)

LEMMA InitCorrect == Init => IInv
  <1> SUFFICES ASSUME Init  PROVE IInv
    OBVIOUS
  <1>1. DOMAIN active = {} /\ DOMAIN engine = {} /\ Range(pending.done) = {}
    BY DEF Init, Idle, Range
  <1>2. Owned = {}
    BY <1>1 DEF Owned
  <1>3. TypeOK
    BY <1>1, BoundAssumption DEF Init, TypeOK, Idle
  <1>4. pending.op = "none"
    BY DEF Init, Idle
  <1> QED
    BY <1>1, <1>2, <1>3, <1>4
       DEF IInv, CreateShape, DeleteShape, Removing, NoneForgotten, NoneShared, AllKnown

LEMMA CreateCorrect ==
    ASSUME IInv, Create
    PROVE  IInv'
  <1>1. /\ pending = Idle /\ pending.op = "none"
        /\ UNCHANGED <<sourcemap, removeFails, active, nextId, engine>>
    BY DEF Create, Idle
  <1>2. PICK path, line, char, places :
           pending' = [op |-> "create", path |-> path, line |-> line, char |-> char,
                       todo |-> places, done |-> <<>>, failed |-> FALSE]
    BY DEF Create
  <1>3. /\ pending'.op = "create" /\ pending'.done = <<>> /\ pending'.failed = FALSE
        /\ Range(pending'.done) = {} /\ IsInjective(pending'.done)
    BY <1>2 DEF Range, IsInjective
  <1>4. TypeOK'
    BY <1>1, <1>3 DEF IInv, TypeOK, Idle
  <1>5. CreateShape' /\ DeleteShape' /\ Removing'
    BY <1>1, <1>2, <1>3 DEF Create, CreateShape, DeleteShape, Removing
  <1>6. Owned' = Owned
    BY <1>1 DEF Owned, NativesOf
  <1>7. NoneForgotten'
    BY <1>1, <1>3, <1>6 DEF IInv, NoneForgotten
  <1>8. ~removeFails => NoneShared' /\ AllKnown'
    BY <1>1, <1>3, <1>6 DEF IInv, NoneShared, AllKnown, NativesOf
  <1> QED  BY <1>1, <1>4, <1>5, <1>7, <1>8 DEF IInv

LEMMA DeleteCorrect ==
    ASSUME IInv, Delete
    PROVE  IInv'
  <1>1. /\ pending = Idle /\ pending.op = "none"
        /\ UNCHANGED <<sourcemap, removeFails, active, nextId, engine>>
    BY DEF Delete, Idle
  <1>2. PICK id \in DOMAIN active :
           pending' = [op |-> "delete", id |-> id, todo |-> active[id].native, done |-> <<>>,
                       failed |-> FALSE]
    BY DEF Delete
  <1>3. /\ pending'.op = "delete" /\ pending'.done = <<>> /\ pending'.failed = FALSE
        /\ pending'.id = id /\ pending'.todo = active[id].native
        /\ Range(pending'.done) = {}
    BY <1>2 DEF Range
  <1>4. active[id].native \in Seq(NativeIds) \ {<<>>}
    BY <1>2 DEF IInv, TypeOK
  <1>5. TypeOK'
    BY <1>1, <1>3, <1>4 DEF IInv, TypeOK, Idle
  <1>6. CreateShape' /\ DeleteShape'
    BY <1>2, <1>3 DEF CreateShape, DeleteShape
  <1>7. <<>> \o active[id].native = active[id].native
    BY <1>4
  <1>8. Removing'
    BY <1>1, <1>3, <1>7 DEF Removing
  <1>9. Owned' = Owned
    BY <1>1 DEF Owned, NativesOf
  <1>10. NoneForgotten'
    BY <1>1, <1>3, <1>9 DEF IInv, NoneForgotten
  <1>11. ~removeFails => NoneShared' /\ AllKnown'
    BY <1>1, <1>3, <1>9 DEF IInv, NoneShared, AllKnown, NativesOf
  <1> QED  BY <1>1, <1>5, <1>6, <1>8, <1>10, <1>11 DEF IInv

(* What a call has been answered with. *)
LEMMA Answered ==
    ASSUME NEW done \in Seq(NativeIds), NEW result \in NativeIds \union {Failed}
    PROVE  /\ Succeeded(done, result) \in Seq(NativeIds)
           /\ Range(Succeeded(done, result)) = Range(done) \union ({result} \ {Failed})
  <1>1. CASE result = Failed
    BY <1>1 DEF Succeeded
  <1>2. CASE result # Failed
    BY <1>2, RangeAppend DEF Succeeded
  <1> QED  BY <1>1, <1>2

(* A create goes on, or ends: what it has been given so far is its own. *)
LEMMA CreateGoesOn ==
    ASSUME IInv, pending.op = "create",
           NEW done \in Seq(NativeIds), NEW failed \in BOOLEAN,
           pending' = [pending EXCEPT !.todo = Tail(@), !.done = done, !.failed = failed],
           UNCHANGED <<sourcemap, removeFails, active, nextId>>,
           DOMAIN engine' \subseteq NativeIds,
           DOMAIN engine' \subseteq Owned \union Range(done),
           ~removeFails => /\ Owned \union Range(done) \subseteq DOMAIN engine'
                           /\ Owned \intersect Range(done) = {}
                           /\ IsInjective(done)
    PROVE  IInv'
  <1>1. pending' = [op |-> "create", path |-> pending.path, line |-> pending.line,
                    char |-> pending.char, todo |-> Tail(pending.todo), done |-> done,
                    failed |-> failed]
    BY DEF IInv, CreateShape
  <1>2. pending'.op = "create" /\ pending'.done = done /\ pending'.failed = failed
    BY <1>1
  <1>3. TypeOK'
    BY <1>2 DEF IInv, TypeOK, Idle
  <1>4. CreateShape' /\ DeleteShape' /\ Removing'
    BY <1>1, <1>2 DEF IInv, CreateShape, DeleteShape, Removing
  <1>5. Owned' = Owned
    BY DEF Owned, NativesOf
  <1>6. NoneForgotten'
    BY <1>2, <1>5 DEF NoneForgotten
  <1>7. ~removeFails => NoneShared' /\ AllKnown'
    BY <1>2, <1>5 DEF IInv, NoneShared, AllKnown, NativesOf
  <1> QED  BY <1>3, <1>4, <1>6, <1>7 DEF IInv

LEMMA CreateEnds ==
    ASSUME IInv, pending.op = "create",
           NEW done \in Seq(NativeIds), NEW failed \in BOOLEAN,
           pending' = Idle, Created(done, failed),
           UNCHANGED <<sourcemap, removeFails>>,
           DOMAIN engine' \subseteq NativeIds,
           DOMAIN engine' \subseteq Owned \union Range(done),
           ~removeFails => /\ Owned \union Range(done) \subseteq DOMAIN engine'
                           /\ Owned \intersect Range(done) = {}
                           /\ IsInjective(done)
    PROVE  IInv'
  <1>1. /\ pending'.op = "none" /\ pending'.done = <<>> /\ pending'.failed = FALSE
        /\ nextId \in Nat /\ nextId < MaxBreakpoints
    BY BoundAssumption DEF Idle, IInv, TypeOK, CreateShape
  <1>2. CreateShape' /\ DeleteShape' /\ Removing'
    BY <1>1 DEF CreateShape, DeleteShape, Removing
  <1>3. CASE done = <<>>
    <2>1. UNCHANGED <<active, nextId>> /\ Range(done) = {}
      BY <1>3 DEF Created, Range
    <2>2. Owned' = Owned
      BY <2>1 DEF Owned, NativesOf
    <2>3. TypeOK'
      BY <1>1, <2>1 DEF IInv, TypeOK, Idle
    <2>4. NoneForgotten'
      BY <1>1, <2>1, <2>2 DEF NoneForgotten
    <2>5. ~removeFails => NoneShared' /\ AllKnown'
      BY <1>1, <2>1, <2>2 DEF IInv, NoneShared, AllKnown, NativesOf
    <2> QED  BY <1>2, <2>3, <2>4, <2>5 DEF IInv
  <1>4. CASE done # <<>>
    <2> DEFINE new == [path |-> pending.path, line |-> pending.line,
                       char |-> pending.char, native |-> done]
    <2>1. active' = Put(active, nextId, new) /\ nextId' = nextId + 1
      BY <1>4 DEF Created
    <2>2. nextId \notin DOMAIN active
      BY <1>1 DEF IInv, TypeOK
    <2>3. /\ DOMAIN active' = DOMAIN active \union {nextId}
          /\ active'[nextId].native = done
          /\ \A id \in DOMAIN active : active'[id] = active[id]
      <3>1. new.native = done
        OBVIOUS
      <3> HIDE DEF new
      <3>2. /\ DOMAIN Put(active, nextId, new) = DOMAIN active \union {nextId}
            /\ Put(active, nextId, new)[nextId] = new
            /\ \A y \in DOMAIN active : y # nextId => Put(active, nextId, new)[y] = active[y]
        BY DEF Put
      <3> QED  BY <2>1, <2>2, <3>1, <3>2
    <2> HIDE DEF new
    <2>4. /\ \A id \in DOMAIN active : NativesOf(id)' = NativesOf(id)
          /\ Range(active'[nextId].native) = Range(done)
      BY <2>3 DEF NativesOf
    <2>5. Owned' = Owned \union Range(done)
      BY <2>3, <2>4 DEF Owned, NativesOf
    <2>6. TypeOK'
      <3>1. DOMAIN active' \subseteq 0 .. (nextId' - 1) /\ nextId' \in 0 .. MaxBreakpoints
        BY <1>1, <2>1, <2>3, BoundAssumption DEF IInv, TypeOK
      <3>2. \A id \in DOMAIN active' : active'[id].native \in Seq(NativeIds) \ {<<>>}
        BY <1>4, <2>3 DEF IInv, TypeOK
      <3> QED  BY <1>1, <3>1, <3>2 DEF IInv, TypeOK, Idle
    <2>7. NoneForgotten'
      BY <1>1, <2>5 DEF NoneForgotten
    <2>8. ~removeFails => NoneShared'
      <3> SUFFICES ASSUME ~removeFails  PROVE NoneShared'
        OBVIOUS
      <3>1. \A id \in DOMAIN active : NativesOf(id) \subseteq Owned
        BY DEF Owned
      <3>2. \A id \in DOMAIN active' : IsInjective(active'[id].native)
        BY <2>3 DEF IInv, NoneShared
      <3>3. ASSUME NEW i \in DOMAIN active', NEW j \in DOMAIN active', i # j
            PROVE  NativesOf(i)' \intersect NativesOf(j)' = {}
        <4>1. ASSUME NEW k \in DOMAIN active, NEW new_k, new_k = nextId
              PROVE  NativesOf(k)' \intersect NativesOf(new_k)' = {}
          BY <2>3, <2>4, <3>1, <4>1 DEF NativesOf
        <4>2. CASE i \in DOMAIN active /\ j \in DOMAIN active
          BY <2>4, <3>3, <4>2 DEF IInv, NoneShared
        <4>3. CASE i = nextId
          BY <2>3, <3>3, <4>1, <4>3
        <4>4. CASE j = nextId
          BY <2>3, <3>3, <4>1, <4>4
        <4> QED  BY <2>3, <4>2, <4>3, <4>4
      <3> QED  BY <3>2, <3>3 DEF NoneShared
    <2>9. ~removeFails => AllKnown'
      BY <1>1, <2>5 DEF AllKnown
    <2> QED  BY <1>2, <2>6, <2>7, <2>8, <2>9 DEF IInv
  <1> QED  BY <1>3, <1>4

LEMMA NativeCreateCorrect ==
    ASSUME IInv, NativeCreate
    PROVE  IInv'
  <1>1. pending.op = "create" /\ UNCHANGED <<sourcemap, removeFails>>
    BY DEF NativeCreate
  <1>2. PICK result \in NativeIds \union {Failed} :
           /\ Resolve(result)
           /\ result # Failed => /\ result \in NativeIds \ DOMAIN engine
                                 /\ DOMAIN engine' = DOMAIN engine \union {result}
           /\ result = Failed => engine' = engine
    <2>1. CASE UNCHANGED engine /\ Resolve(Failed)
      BY <2>1
    <2>2. ASSUME NEW n \in NativeIds \ DOMAIN engine, NEW v,
                 engine' = Put(engine, n, v), Resolve(n)
          PROVE  /\ n # Failed /\ n \in NativeIds
                 /\ DOMAIN engine' = DOMAIN engine \union {n}
      BY <2>2, Added, FailedAssumption
    <2> QED  BY <2>1, <2>2 DEF NativeCreate
  <1> DEFINE done   == Succeeded(pending.done, result)
             failed == pending.failed \/ result = Failed
  <1>3. /\ pending.done \in Seq(NativeIds) /\ pending.failed \in BOOLEAN
        /\ DOMAIN engine \subseteq NativeIds
    BY DEF IInv, TypeOK
  <1>4. /\ done \in Seq(NativeIds) /\ failed \in BOOLEAN
        /\ Range(done) = Range(pending.done) \union ({result} \ {Failed})
    BY <1>3, Answered
  <1>5. /\ DOMAIN engine' \subseteq NativeIds
        /\ DOMAIN engine' \subseteq Owned \union Range(done)
    BY <1>1, <1>2, <1>3, <1>4 DEF IInv, NoneForgotten
  <1>6. ~removeFails => /\ Owned \union Range(done) \subseteq DOMAIN engine'
                        /\ Owned \intersect Range(done) = {}
                        /\ IsInjective(done)
    <2> SUFFICES ASSUME ~removeFails
                 PROVE  /\ Owned \union Range(done) \subseteq DOMAIN engine'
                        /\ Owned \intersect Range(done) = {}
                        /\ IsInjective(done)
      OBVIOUS
    <2>1. /\ Owned \union Range(pending.done) \subseteq DOMAIN engine
          /\ Owned \intersect Range(pending.done) = {}
          /\ IsInjective(pending.done)
      BY <1>1 DEF IInv, AllKnown
    <2>2. CASE result = Failed
      BY <1>2, <1>4, <2>1, <2>2 DEF Succeeded
    <2>3. CASE result # Failed
      <3>1. result \notin Owned /\ result \notin Range(pending.done)
        BY <1>2, <2>1, <2>3
      <3>2. IsInjective(done)
        BY <1>2, <1>3, <2>1, <2>3, <3>1, InjectiveAppend DEF Succeeded
      <3> QED  BY <1>2, <1>4, <2>1, <2>3, <3>1, <3>2
    <2> QED  BY <2>2, <2>3
  <1>7. CASE Len(pending.todo) > 1
    <2>1. /\ pending' = [pending EXCEPT !.todo = Tail(@), !.done = done, !.failed = failed]
          /\ UNCHANGED <<active, nextId>>
      BY <1>2, <1>7 DEF Resolve
    <2> HIDE DEF done, failed
    <2> QED  BY <1>1, <1>4, <1>5, <1>6, <2>1, CreateGoesOn
  <1>8. CASE ~(Len(pending.todo) > 1)
    <2>1. pending' = Idle /\ Created(done, failed)
      BY <1>1, <1>2, <1>8 DEF Resolve
    <2> HIDE DEF done, failed
    <2> QED  BY <1>1, <1>4, <1>5, <1>6, <2>1, CreateEnds
  <1> QED  BY <1>7, <1>8

(* A delete goes on, or ends: what it has removed is gone, and unless one  *)
(* could not be removed, the rest is still to come.                        *)
LEMMA DeleteGoesOn ==
    ASSUME IInv, pending.op = "delete",
           NEW done \in Seq(NativeIds), NEW failed \in BOOLEAN,
           Len(pending.todo) > 1,
           pending' = [pending EXCEPT !.todo = Tail(@), !.done = done, !.failed = failed],
           UNCHANGED <<sourcemap, removeFails, active, nextId>>,
           DOMAIN engine' \subseteq DOMAIN engine,
           DOMAIN engine \subseteq DOMAIN engine' \union Range(done),
           Range(pending.done) \subseteq Range(done),
           Range(done) \intersect DOMAIN engine' = {},
           ~failed => active[pending.id].native = done \o Tail(pending.todo),
           ~removeFails => ~failed
    PROVE  IInv'
  <1>1. pending' = [op |-> "delete", id |-> pending.id, todo |-> Tail(pending.todo),
                    done |-> done, failed |-> failed]
    BY DEF IInv, DeleteShape
  <1>2. /\ pending'.op = "delete" /\ pending'.done = done /\ pending'.failed = failed
        /\ pending'.id = pending.id /\ pending'.todo = Tail(pending.todo)
    BY <1>1
  <1>3. Tail(pending.todo) \in Seq(NativeIds) \ {<<>>}
    <2>1. pending.todo \in Seq(NativeIds)
      BY DEF IInv, TypeOK
    <2> QED  BY <2>1, MoreLeft
  <1>4. TypeOK'
    BY <1>2, <1>3 DEF IInv, TypeOK, Idle
  <1>5. CreateShape' /\ DeleteShape' /\ Removing'
    BY <1>1, <1>2 DEF CreateShape, DeleteShape, Removing
  <1>6. Owned' = Owned
    BY DEF Owned, NativesOf
  <1>7. NoneForgotten'
    BY <1>2, <1>6 DEF IInv, NoneForgotten
  <1>8. ~removeFails => NoneShared'
    BY DEF IInv, NoneShared, NativesOf
  <1>9. ~removeFails => AllKnown'
    BY <1>2, <1>6 DEF IInv, AllKnown
  <1> QED  BY <1>4, <1>5, <1>7, <1>8, <1>9 DEF IInv

LEMMA DeleteEnds ==
    ASSUME IInv, pending.op = "delete",
           NEW done \in Seq(NativeIds), NEW failed \in BOOLEAN,
           pending' = Idle, Deleted(done, failed),
           UNCHANGED <<sourcemap, removeFails>>,
           DOMAIN engine' \subseteq DOMAIN engine,
           DOMAIN engine \subseteq DOMAIN engine' \union Range(done),
           Range(pending.done) \subseteq Range(done),
           Range(done) \intersect DOMAIN engine' = {},
           ~failed => active[pending.id].native = done,
           ~removeFails => ~failed
    PROVE  IInv'
  <1>1. /\ pending'.op = "none" /\ pending'.done = <<>> /\ pending'.failed = FALSE
    BY DEF Idle
  <1>2. CreateShape' /\ DeleteShape' /\ Removing'
    BY <1>1 DEF CreateShape, DeleteShape, Removing
  <1>3. nextId' = nextId
    BY DEF Deleted
  <1>4. CASE failed
    <2>1. active' = active
      BY <1>4 DEF Deleted
    <2>2. Owned' = Owned
      BY <2>1 DEF Owned, NativesOf
    <2>3. TypeOK'
      BY <1>1, <1>3, <2>1 DEF IInv, TypeOK, Idle
    <2>4. NoneForgotten'
      BY <1>1, <2>2 DEF IInv, NoneForgotten
    <2> QED  BY <1>2, <1>4, <2>3, <2>4 DEF IInv
  <1>5. CASE ~failed
    <2> DEFINE id == pending.id
    <2>1. active' = Restrict(active, DOMAIN active \ {id})
      BY <1>5 DEF Deleted
    <2>2. id \in DOMAIN active
      BY DEF IInv, TypeOK
    <2>3. /\ DOMAIN active' = DOMAIN active \ {id}
          /\ \A i \in DOMAIN active' : active'[i] = active[i]
      <3> HIDE DEF id
      <3>1. /\ DOMAIN Restrict(active, DOMAIN active \ {id}) = DOMAIN active \ {id}
            /\ \A y \in DOMAIN active \ {id} :
                  Restrict(active, DOMAIN active \ {id})[y] = active[y]
        BY Restricted
      <3> QED  BY <2>1, <3>1
    <2>4. NativesOf(id) = Range(done)
      BY <1>5 DEF NativesOf
    <2>5. \A i \in DOMAIN active' : NativesOf(i)' = NativesOf(i)
      BY <2>3 DEF NativesOf
    <2> HIDE DEF id
    <2>6. Owned \subseteq Owned' \union Range(done) /\ Owned' \subseteq Owned
      BY <2>2, <2>3, <2>4, <2>5 DEF Owned, NativesOf
    <2>7. TypeOK'
      BY <1>1, <1>3, <2>3 DEF IInv, TypeOK, Idle
    <2>8. NoneForgotten'
      BY <1>1, <2>6 DEF IInv, NoneForgotten
    <2>9. ~removeFails => NoneShared'
      BY <2>3, <2>5 DEF IInv, NoneShared
    <2>10. ~removeFails => AllKnown'
      <3> SUFFICES ASSUME ~removeFails  PROVE Owned' \subseteq DOMAIN engine'
        BY <1>1 DEF AllKnown
      <3>1. Owned \subseteq DOMAIN engine \union Range(pending.done)
        BY DEF IInv, AllKnown
      <3>2. Owned' \intersect Range(done) = {}
        <4>1. \A i \in DOMAIN active' : NativesOf(i)' \intersect Range(done) = {}
          BY <2>2, <2>3, <2>4, <2>5 DEF IInv, NoneShared
        <4> QED  BY <4>1 DEF Owned
      <3> QED  BY <2>6, <3>1, <3>2
    <2> QED  BY <1>2, <2>7, <2>8, <2>9, <2>10 DEF IInv
  <1> QED  BY <1>4, <1>5

LEMMA NativeRemoveCorrect ==
    ASSUME IInv, NativeRemove
    PROVE  IInv'
  <1> DEFINE n      == Head(pending.todo)
             native == active[pending.id].native
  <1>1. pending.op = "delete" /\ UNCHANGED <<sourcemap, removeFails>>
    BY DEF NativeRemove
  <1>2. /\ pending.done \in Seq(NativeIds) /\ pending.failed \in BOOLEAN
        /\ pending.todo \in Seq(NativeIds) /\ pending.todo # <<>>
        /\ n \in NativeIds /\ n # Failed /\ pending.id \in DOMAIN active
    BY <1>1, FailedAssumption DEF IInv, TypeOK
  <1>3. PICK result \in {n, Failed} :
           /\ Resolve(result)
           /\ result = n => n \in DOMAIN engine /\ DOMAIN engine' = DOMAIN engine \ {n}
           /\ result = Failed => /\ n \notin DOMAIN engine \/ removeFails
                                 /\ engine' = engine
    BY <1>2, Restricted DEF NativeRemove
  <1> DEFINE done   == Succeeded(pending.done, result)
             failed == pending.failed \/ result = Failed
  <1>4. /\ done \in Seq(NativeIds) /\ failed \in BOOLEAN
        /\ Range(done) = Range(pending.done) \union ({result} \ {Failed})
    BY <1>2, Answered
  <1>5. /\ Range(pending.done) \intersect DOMAIN engine = {}
        /\ ~pending.failed => native = pending.done \o pending.todo
    BY <1>1 DEF IInv, Removing
  <1>6. /\ DOMAIN engine' \subseteq DOMAIN engine
        /\ DOMAIN engine \subseteq DOMAIN engine' \union Range(done)
        /\ Range(pending.done) \subseteq Range(done)
        /\ Range(done) \intersect DOMAIN engine' = {}
    <2>1. CASE result = n
      BY <1>2, <1>3, <1>4, <1>5, <2>1
    <2>2. CASE result = Failed
      BY <1>3, <1>4, <1>5, <2>2
    <2> QED  BY <1>3, <2>1, <2>2
  <1>7. ~failed => native = done \o Tail(pending.todo)
    BY <1>2, <1>3, <1>5, MoveHead DEF Succeeded
  <1>8. ~removeFails => ~failed
    <2> SUFFICES ASSUME ~removeFails  PROVE ~failed
      OBVIOUS
    <2>1. ~pending.failed /\ Owned \subseteq DOMAIN engine \union Range(pending.done)
      BY <1>1 DEF IInv, AllKnown
    <2>2. IsInjective(native)
      BY <1>2 DEF IInv, NoneShared
    <2>3. n \notin Range(pending.done)
      BY <1>2, <1>5, <2>1, <2>2, InjectiveConcat
    <2>4. n \in Range(pending.todo)
      BY <1>2 DEF Range
    <2>5. n \in Range(native)
      <3>1. Range(pending.done \o pending.todo) = Range(pending.done) \union Range(pending.todo)
        BY <1>2, RangeConcat
      <3> QED  BY <1>5, <2>1, <2>4, <3>1
    <2>6. n \in Owned
      BY <1>2, <2>5 DEF Owned, NativesOf
    <2>7. n \in DOMAIN engine
      BY <2>1, <2>3, <2>6
    <2> QED  BY <1>3, <2>1, <2>7
  <1>9. CASE Len(pending.todo) > 1
    <2>1. /\ pending' = [pending EXCEPT !.todo = Tail(@), !.done = done, !.failed = failed]
          /\ UNCHANGED <<active, nextId>>
      BY <1>3, <1>9 DEF Resolve
    <2> HIDE DEF done, failed
    <2> QED  BY <1>1, <1>4, <1>6, <1>7, <1>8, <1>9, <2>1, DeleteGoesOn
  <1>10. CASE ~(Len(pending.todo) > 1)
    <2>1. pending' = Idle /\ Deleted(done, failed)
      BY <1>1, <1>3, <1>10 DEF Resolve
    <2> HIDE DEF done, failed
    <2>2. done \o Tail(pending.todo) = done
      BY <1>2, <1>4, <1>10, NoneLeft
    <2>3. ~failed => native = done
      BY <1>7, <2>2
    <2> QED  BY <1>1, <1>4, <1>6, <1>8, <2>1, <2>3, DeleteEnds
  <1> QED  BY <1>9, <1>10

-----------------------------------------------------------------------------
(* What a native breakpoint of a position may stand for.  A create asks    *)
(* for places of its position only, and what it has been given so far, as  *)
(* what all breakpoints have, is at a place of its position.               *)
IsPlace(map, entry, path) ==
    \E f \in Meant(map, path) : \E e \in FileExprs(f) : entry.file = f.cpp /\ entry.line = e.cpp

PlacesKept ==
    /\ pending.op = "create" => pending.todo \in Seq(Places(sourcemap, pending.path)) \ {<<>>}
    /\ ~removeFails =>
          /\ pending.op = "create" =>
                \A n \in Range(pending.done) : IsPlace(sourcemap, engine[n], pending.path)
          /\ \A id \in DOMAIN active : \A n \in NativesOf(id) \intersect DOMAIN engine :
                IsPlace(sourcemap, engine[n], active[id].path)

LEMMA PlacesBegin == Init => PlacesKept
  <1> SUFFICES ASSUME Init  PROVE PlacesKept
    OBVIOUS
  <1>1. DOMAIN active = {} /\ pending.op = "none"
    BY DEF Init, Idle
  <1> QED  BY <1>1 DEF PlacesKept

LEMMA CreatePlaces ==
    ASSUME IInv, PlacesKept, Create
    PROVE  PlacesKept'
  <1>1. UNCHANGED <<sourcemap, removeFails, active, nextId, engine>>
    BY DEF Create
  <1>2. PICK path, line, char :
           /\ FindExprs(FilesOf(sourcemap, path), line, char) # <<>>
           /\ pending' = [op |-> "create", path |-> path, line |-> line, char |-> char,
                          todo |-> FindExprs(FilesOf(sourcemap, path), line, char),
                          done |-> <<>>, failed |-> FALSE]
    BY DEF Create
  <1> DEFINE found == FindExprs(FilesOf(sourcemap, path), line, char)
  <1>3. found \in Seq(Places(sourcemap, path)) \ {<<>>}
    <2>1. sourcemap \in Maps
      BY DEF IInv, TypeOK
    <2> QED  BY <1>2, <2>1, PlacesFound
  <1> HIDE DEF found
  <1>4. /\ pending'.op = "create" /\ pending'.path = path /\ pending'.todo = found
        /\ pending'.done = <<>> /\ Range(pending'.done) = {}
    BY <1>2 DEF found, Range
  <1> QED  BY <1>1, <1>3, <1>4 DEF PlacesKept, NativesOf

LEMMA DeletePlaces ==
    ASSUME IInv, PlacesKept, Delete
    PROVE  PlacesKept'
  <1>1. UNCHANGED <<sourcemap, removeFails, active, nextId, engine>> /\ pending'.op = "delete"
    BY DEF Delete
  <1> QED  BY <1>1 DEF PlacesKept, NativesOf

LEMMA NativeCreatePlaces ==
    ASSUME IInv, PlacesKept, NativeCreate
    PROVE  PlacesKept'
  <1> DEFINE place == Head(pending.todo)
             entry == [file |-> place.file, line |-> place.expr.cpp]
             path  == pending.path
  <1>1. pending.op = "create" /\ UNCHANGED <<sourcemap, removeFails>>
    BY DEF NativeCreate
  <1>2. IsPlace(sourcemap, entry, path)
    <2> DEFINE P == Places(sourcemap, path)
    <2>1. pending.todo \in Seq(P) \ {<<>>}
      BY <1>1 DEF PlacesKept
    <2>2. place \in P
      <3> HIDE DEF P
      <3> QED  BY <2>1
    <2>3. PICK f \in Meant(sourcemap, path) : \E e \in FileExprs(f) : place = [file |-> f.cpp, expr |-> e]
      BY <2>2 DEF Places
    <2>4. PICK e \in FileExprs(f) : place = [file |-> f.cpp, expr |-> e]
      BY <2>3
    <2> HIDE DEF place
    <2>5. entry.file = f.cpp /\ entry.line = e.cpp
      BY <2>4
    <2> HIDE DEF entry
    <2> QED  BY <2>5 DEF IsPlace
  <1> HIDE DEF place, entry
  <1>3. PICK result \in NativeIds \union {Failed} :
           /\ Resolve(result)
           /\ result # Failed => result \notin DOMAIN engine /\ engine' = Put(engine, result, entry)
           /\ result = Failed => engine' = engine
    BY FailedAssumption DEF NativeCreate, entry, place
  <1>4. /\ \A n \in DOMAIN engine : engine'[n] = engine[n]
        /\ result # Failed => engine'[result] = entry
    <2>1. CASE result = Failed
      BY <1>3, <2>1
    <2>2. CASE result # Failed
      <3>1. /\ Put(engine, result, entry)[result] = entry
            /\ \A n \in DOMAIN engine : n # result => Put(engine, result, entry)[n] = engine[n]
        BY DEF Put
      <3> QED  BY <1>3, <2>2, <3>1
    <2> QED  BY <2>1, <2>2
  <1> DEFINE done   == Succeeded(pending.done, result)
             failed == pending.failed \/ result = Failed
  <1>5. Range(done) = Range(pending.done) \union ({result} \ {Failed})
    <2>1. pending.done \in Seq(NativeIds)
      BY DEF IInv, TypeOK
    <2> QED  BY <2>1, Answered
  <1>6. ~removeFails =>
           /\ \A n \in Range(done) : IsPlace(sourcemap, engine'[n], path)
           /\ \A id \in DOMAIN active : \A n \in NativesOf(id) :
                 IsPlace(sourcemap, engine'[n], active[id].path)
    <2> SUFFICES ASSUME ~removeFails
                 PROVE  /\ \A n \in Range(done) : IsPlace(sourcemap, engine'[n], path)
                        /\ \A id \in DOMAIN active : \A n \in NativesOf(id) :
                              IsPlace(sourcemap, engine'[n], active[id].path)
      OBVIOUS
    <2>1. Owned \union Range(pending.done) \subseteq DOMAIN engine
      BY <1>1 DEF IInv, AllKnown
    <2>2. \A id \in DOMAIN active : NativesOf(id) \subseteq Owned
      BY DEF Owned
    <2>3. \A id \in DOMAIN active : \A n \in NativesOf(id) :
             IsPlace(sourcemap, engine'[n], active[id].path)
      BY <1>4, <2>1, <2>2 DEF PlacesKept
    <2>4. \A n \in Range(pending.done) : IsPlace(sourcemap, engine'[n], path)
      BY <1>1, <1>4, <2>1 DEF PlacesKept
    <2>5. result # Failed => IsPlace(sourcemap, engine'[result], path)
      BY <1>2, <1>4
    <2> QED  BY <1>5, <2>3, <2>4, <2>5
  <1> HIDE DEF done, failed
  <1>7. CASE Len(pending.todo) > 1
    <2>1. /\ pending' = [pending EXCEPT !.todo = Tail(@), !.done = done, !.failed = failed]
          /\ UNCHANGED <<active, nextId>>
      BY <1>3, <1>7 DEF Resolve, done, failed
    <2>2. pending' = [op |-> "create", path |-> path, line |-> pending.line,
                      char |-> pending.char, todo |-> Tail(pending.todo), done |-> done,
                      failed |-> failed]
      BY <1>1, <2>1 DEF IInv, CreateShape
    <2>3. /\ pending'.op = "create" /\ pending'.path = path
          /\ pending'.todo = Tail(pending.todo) /\ pending'.done = done
      BY <2>2
    <2>4. Tail(pending.todo) \in Seq(Places(sourcemap, path)) \ {<<>>}
      BY <1>1, <1>7, MoreLeft DEF PlacesKept
    <2> QED  BY <1>1, <1>6, <2>1, <2>3, <2>4 DEF PlacesKept, NativesOf
  <1>8. CASE ~(Len(pending.todo) > 1)
    <2>1. pending' = Idle /\ Created(done, failed) /\ pending'.op = "none"
      BY <1>1, <1>3, <1>8 DEF Resolve, done, failed, Idle
    <2>2. CASE done = <<>>
      <3>1. active' = active
        BY <2>1, <2>2 DEF Created
      <3> QED  BY <1>1, <1>6, <2>1, <3>1 DEF PlacesKept, NativesOf
    <2>3. CASE done # <<>>
      <3> DEFINE new == [path |-> path, line |-> pending.line, char |-> pending.char, native |-> done]
      <3>1. active' = Put(active, nextId, new)
        BY <2>1, <2>3 DEF Created
      <3>2. new.path = path /\ new.native = done
        OBVIOUS
      <3>3. nextId \notin DOMAIN active
        BY BoundAssumption DEF IInv, TypeOK
      <3> HIDE DEF new
      <3>4. /\ DOMAIN active' = DOMAIN active \union {nextId} /\ active'[nextId] = new
            /\ \A id \in DOMAIN active : active'[id] = active[id]
        <4>1. /\ DOMAIN Put(active, nextId, new) = DOMAIN active \union {nextId}
              /\ Put(active, nextId, new)[nextId] = new
              /\ \A y \in DOMAIN active : y # nextId => Put(active, nextId, new)[y] = active[y]
          BY DEF Put
        <4> QED  BY <3>1, <3>3, <4>1
      <3>5. ~removeFails => \A id \in DOMAIN active' : \A n \in Range(active'[id].native) :
               IsPlace(sourcemap, engine'[n], active'[id].path)
        <4> SUFFICES ASSUME ~removeFails, NEW id \in DOMAIN active', NEW n \in Range(active'[id].native)
                     PROVE  IsPlace(sourcemap, engine'[n], active'[id].path)
          OBVIOUS
        <4>1. CASE id = nextId
          BY <1>6, <3>2, <3>4, <4>1
        <4>2. CASE id \in DOMAIN active
          BY <1>6, <3>4, <4>2 DEF NativesOf
        <4> QED  BY <3>4, <4>1, <4>2
      <3> QED  BY <1>1, <2>1, <3>5 DEF PlacesKept, NativesOf
    <2> QED  BY <2>2, <2>3
  <1> QED  BY <1>7, <1>8

LEMMA NativeRemovePlaces ==
    ASSUME IInv, PlacesKept, NativeRemove
    PROVE  PlacesKept'
  <1>1. pending.op = "delete" /\ UNCHANGED <<sourcemap, removeFails>>
    BY DEF NativeRemove
  <1>2. /\ DOMAIN engine' \subseteq DOMAIN engine
        /\ \A n \in DOMAIN engine' : engine'[n] = engine[n]
    <2>1. CASE UNCHANGED engine
      BY <2>1
    <2>2. CASE engine' = Restrict(engine, DOMAIN engine \ {Head(pending.todo)})
      BY <2>2, Restricted
    <2> QED  BY <2>1, <2>2 DEF NativeRemove
  <1>3. PICK result : Resolve(result)
    BY DEF NativeRemove
  <1>4. /\ DOMAIN active' \subseteq DOMAIN active
        /\ \A id \in DOMAIN active' : active'[id] = active[id]
    <2>1. CASE active' = active
      BY <2>1
    <2>2. CASE active' = Restrict(active, DOMAIN active \ {pending.id})
      BY <2>2, Restricted
    <2> QED  BY <1>1, <1>3, <2>1, <2>2 DEF Resolve, Deleted
  <1>5. pending'.op # "create"
    <2>1. CASE Len(pending.todo) > 1
      <3>1. PICK done, failed :
               pending' = [pending EXCEPT !.todo = Tail(@), !.done = done, !.failed = failed]
        BY <1>3, <2>1 DEF Resolve
      <3>2. pending' = [op |-> "delete", id |-> pending.id, todo |-> Tail(pending.todo),
                        done |-> done, failed |-> failed]
        BY <1>1, <3>1 DEF IInv, DeleteShape
      <3> QED  BY <3>2
    <2>2. CASE ~(Len(pending.todo) > 1)
      BY <1>3, <2>2 DEF Resolve, Idle
    <2> QED  BY <2>1, <2>2
  <1>6. \A id \in DOMAIN active' : NativesOf(id)' = NativesOf(id)
    BY <1>4 DEF NativesOf
  <1> QED  BY <1>1, <1>2, <1>4, <1>5, <1>6 DEF PlacesKept

-----------------------------------------------------------------------------
(* The inductive invariant holds: what is listed, what the engine has and  *)
(* what an operation under way has done so far agree (Breakpoints.hx).     *)
THEOREM BreakpointsCorrect == Spec => []IInv
  <1>1. IInv /\ [Next]_vars => IInv'
    <2> SUFFICES ASSUME IInv, [Next]_vars  PROVE IInv'
      OBVIOUS
    <2>1. CASE Create
      BY <2>1, CreateCorrect
    <2>2. CASE Delete
      BY <2>2, DeleteCorrect
    <2>3. CASE NativeCreate
      BY <2>3, NativeCreateCorrect
    <2>4. CASE NativeRemove
      BY <2>4, NativeRemoveCorrect
    <2>5. CASE UNCHANGED vars
      <3>1. UNCHANGED <<sourcemap, removeFails, active, nextId, pending, engine>>
        BY <2>5 DEF vars
      <3>2. Owned' = Owned /\ \A id : NativesOf(id)' = NativesOf(id)
        BY <3>1 DEF Owned, NativesOf
      <3>3. TypeOK' /\ CreateShape' /\ DeleteShape'
        BY <3>1 DEF IInv, TypeOK, Idle, CreateShape, DeleteShape
      <3>4. Removing' /\ NoneForgotten'
        BY <3>1, <3>2 DEF IInv, Removing, NoneForgotten
      <3>5. ~removeFails => NoneShared' /\ AllKnown'
        BY <3>1, <3>2 DEF IInv, NoneShared, AllKnown
      <3> QED  BY <3>1, <3>3, <3>4, <3>5 DEF IInv
    <2> QED  BY <2>1, <2>2, <2>3, <2>4, <2>5 DEF Next
  <1> QED  BY <1>1, InitCorrect, PTL DEF Spec

(* The breakpoints, their ids and the operation under way keep their       *)
(* shapes, whatever findExprs finds.                                       *)
THEOREM BreakpointTypes == Spec => []TypeOK
  <1>1. IInv => TypeOK
    BY DEF IInv
  <1> QED  BY <1>1, BreakpointsCorrect, PTL

(* Between operations no native breakpoint is without an owner, whichever  *)
(* calls of the engine have failed (Breakpoints.create, Breakpoints.delete). *)
THEOREM NothingForgotten == Spec => []NoOrphans
  <1>1. IInv => NoOrphans
    BY DEF IInv, NoneForgotten, NoOrphans, Idle
  <1> QED  BY <1>1, BreakpointsCorrect, PTL

(* Between operations, with an engine that removes what it has, a native   *)
(* breakpoint has one owner, although its id may have been another's.      *)
THEOREM NothingShared == Spec => []OneOwner
  <1>1. IInv => OneOwner
    <2> SUFFICES ASSUME IInv, pending = Idle, ~removeFails
                 PROVE  DOMAIN engine = Owned /\ NoneShared
      BY DEF OneOwner, NoneShared
    <2>1. pending.op = "none"
      BY DEF Idle
    <2> QED  BY <2>1 DEF IInv, NoneForgotten, AllKnown
  <1> QED  BY <1>1, BreakpointsCorrect, PTL

(* A native breakpoint that is hit is reported at a Haxe frame, in a file  *)
(* its breakpoint was asked for in and at an expression of that line, for  *)
(* any source map whose files can be told apart: what findExprs finds, in  *)
(* functions and in their closures, mapNativeFrame finds again             *)
(* (Breakpoints.create, Stack.mapNativeFrame).                             *)
THEOREM HitsAreMappedBack == Spec => []HitsAreHaxeFrames
  <1>1. IInv /\ PlacesKept /\ [Next]_vars => PlacesKept'
    <2> SUFFICES ASSUME IInv, PlacesKept, [Next]_vars  PROVE PlacesKept'
      OBVIOUS
    <2>1. CASE Create
      BY <2>1, CreatePlaces
    <2>2. CASE Delete
      BY <2>2, DeletePlaces
    <2>3. CASE NativeCreate
      BY <2>3, NativeCreatePlaces
    <2>4. CASE NativeRemove
      BY <2>4, NativeRemovePlaces
    <2>5. CASE UNCHANGED vars
      BY <2>5 DEF vars, PlacesKept, NativesOf
    <2> QED  BY <2>1, <2>2, <2>3, <2>4, <2>5 DEF Next
  <1>2. IInv /\ PlacesKept => HitsAreHaxeFrames
    <2> SUFFICES ASSUME IInv, PlacesKept, NEW id \in DOMAIN active,
                        NEW n \in NativesOf(id) \intersect DOMAIN engine, ~removeFails
                 PROVE  LET frame == MapNativeFrame(sourcemap,
                                        [file |-> Built(engine[n].file), line |-> engine[n].line])
                        IN /\ frame.kind = "haxe"
                           /\ Matches(frame.file, active[id].path)
                           /\ frame.expr.cpp = engine[n].line
      BY DEF HitsAreHaxeFrames
    <2>1. IsPlace(sourcemap, engine[n], active[id].path)
      BY DEF PlacesKept
    <2>2. PICK f \in Meant(sourcemap, active[id].path) : \E e \in FileExprs(f) :
             engine[n].file = f.cpp /\ engine[n].line = e.cpp
      BY <2>1 DEF IsPlace
    <2>3. PICK e \in FileExprs(f) : engine[n].file = f.cpp /\ engine[n].line = e.cpp
      BY <2>2
    <2>4. f \in Range(sourcemap) /\ Matches(f.haxe, active[id].path) /\ sourcemap \in Maps
      BY DEF Meant, IInv, TypeOK
    <2> QED  BY <2>3, <2>4, MappedBack
  <1> QED  BY <1>1, <1>2, PlacesBegin, BreakpointsCorrect, PTL DEF Spec
=============================================================================
