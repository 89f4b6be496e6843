------------------------------ MODULE ReadersProofs ----------------------------
(***************************************************************************)
(* Proofs about the parts that read what others write: the list of threads *)
(* (ThreadList), the containers of the program that is debugged and their  *)
(* caches (NativeModels), the messages of the client (InputBuffer) and the *)
(* names of functions (SymbolNames).                                       *)
(*                                                                         *)
(* The invariants: the notices on their way lead from the list of the      *)
(* debugger to the threads of the target; the caches hold what the memory  *)
(* does; what has been read and not taken begins with the next message. Of *)
(* the names what is shown is followed token by token. The theorems are    *)
(* for any ids and threads, any well-formed containers and hashes, any     *)
(* messages, however they are cut into reads, and any functions.           *)
(***************************************************************************)
EXTENDS ThreadList, NativeModels, InputBuffer, SymbolNames, SequenceTheorems, FiniteSetTheorems, TLAPS

-----------------------------------------------------------------------------
(* Numbers and sequences. *)

(* A set of numbers has a least member. *)
LEMMA Least ==
    ASSUME NEW T \in SUBSET Nat, T # {}
    PROVE  \E m \in T : \A k \in T : m <= k
  <1> DEFINE R == OpToRel(<, Nat)
  <1>1. IsWellFoundedOn(R, Nat)
    BY NatLessThanWellFounded
  <1>2. \A x, y \in Nat : <<x, y>> \in R <=> x < y
    BY DEF OpToRel
  <1> HIDE DEF R
  <1>3. PICK m \in T : \A y \in T : ~(<<y, m>> \in R)
    BY <1>1, WFMin
  <1>4. \A y \in T : ~(y < m)
    BY <1>2, <1>3
  <1> QED  BY <1>4

(* Induction, over a set instead of a predicate. *)
LEMMA Induct ==
    ASSUME NEW S, 0 \in S, \A n \in Nat : n \in S => n + 1 \in S
    PROVE  Nat \subseteq S
  <1> SUFFICES ASSUME Nat \ S # {}  PROVE FALSE
    OBVIOUS
  <1>1. PICK m \in Nat \ S : \A k \in Nat \ S : m <= k
    BY Least
  <1>2. m # 0 /\ m - 1 \in Nat /\ m - 1 \in S
    BY <1>1
  <1> QED  BY <1>1, <1>2

(* An appended element is one more in the range. *)
LEMMA RangeAppend ==
    ASSUME NEW S, NEW s \in Seq(S), NEW x
    PROVE  Range(Append(s, x)) = Range(s) \union {x}
  <1>1. s \in Seq(S \union {x}) /\ x \in S \union {x}
    OBVIOUS
  <1>2. /\ Len(Append(s, x)) = Len(s) + 1 /\ Len(s) \in Nat
        /\ DOMAIN s = 1 .. Len(s) /\ DOMAIN Append(s, x) = 1 .. (Len(s) + 1)
        /\ \A i \in 1 .. Len(s) : Append(s, x)[i] = s[i]
        /\ Append(s, x)[Len(s) + 1] = x
    BY <1>1
  <1> QED  BY <1>2 DEF Range

(* The least number of a set is its minimum. *)
LEMMA LeastIsMin ==
    ASSUME NEW T \in SUBSET Nat, NEW m \in T, \A k \in T : m <= k
    PROVE  Min(T) = m
  <1>1. m \in T /\ \A y \in T : m <= y
    OBVIOUS
  <1>2. Min(T) \in T /\ \A y \in T : Min(T) <= y
    BY <1>1, Zenon DEF Min
  <1>3. \A n \in T : (\A y \in T : n <= y) => n = m
    BY <1>1
  <1> QED  BY <1>2, <1>3

(* What is removed is the element at the first place it is at. *)
LEMMA Removed ==
    ASSUME NEW S, NEW s \in Seq(S), NEW e, NEW i \in 1 .. Len(s),
           s[i] = e, \A j \in 1 .. Len(s) : s[j] = e => i <= j
    PROVE  RemoveFirst(s, e) = RemoveAt(s, i)
  <1> DEFINE I == {j \in 1 .. Len(s) : s[j] = e}
  <1>1. I \in SUBSET Nat /\ i \in I /\ \A j \in I : i <= j
    OBVIOUS
  <1> HIDE DEF I
  <1>2. Min(I) = i /\ I # {}
    BY <1>1, LeastIsMin
  <1>3. SelectInSeq(s, LAMBDA v : v = e) = i
    BY <1>2 DEF SelectInSeq, I
  <1> QED  BY <1>3 DEF RemoveFirst

(* What is in a sequence has a first place in it. *)
LEMMA FirstPlace ==
    ASSUME NEW S, NEW s \in Seq(S), NEW e, \E i \in 1 .. Len(s) : s[i] = e
    PROVE  \E i \in 1 .. Len(s) : s[i] = e /\ \A j \in 1 .. Len(s) : s[j] = e => i <= j
  <1> DEFINE I == {j \in 1 .. Len(s) : s[j] = e}
  <1>1. I \in SUBSET Nat /\ I # {}
    OBVIOUS
  <1> HIDE DEF I
  <1>2. PICK i \in I : \A j \in I : i <= j
    BY <1>1, Least
  <1> QED  BY <1>2 DEF I

(* A sequence without one place. *)
LEMMA RemoveAtSeq ==
    ASSUME NEW S, NEW s \in Seq(S), NEW i \in 1 .. Len(s)
    PROVE  /\ RemoveAt(s, i) \in Seq(S) /\ Len(RemoveAt(s, i)) = Len(s) - 1
           /\ \A j \in 1 .. Len(s) - 1 : RemoveAt(s, i)[j] = IF j < i THEN s[j] ELSE s[j + 1]
  <1> DEFINE a == SubSeq(s, 1, i - 1)
             b == SubSeq(s, i + 1, Len(s))
  <1>1. /\ a \in Seq(S) /\ Len(a) = i - 1 /\ Len(s) \in Nat
        /\ \A j \in 1 .. i - 1 : a[j] = s[j]
    OBVIOUS
  <1>2. /\ b \in Seq(S) /\ Len(b) = Len(s) - i
        /\ \A j \in 1 .. Len(s) - i : b[j] = s[i + j]
    <2>1. b \in Seq(S) /\ Len(b) = IF i + 1 <= Len(s) THEN Len(s) - (i + 1) + 1 ELSE 0
      OBVIOUS
    <2>2. \A j \in 1 .. Len(b) : b[j] = s[(i + 1) + j - 1]
      BY <2>1
    <2> QED  BY <2>1, <2>2
  <1> HIDE DEF a, b
  <1>3. RemoveAt(s, i) = a \o b
    BY DEF RemoveAt, a, b
  <1>4. a \o b \in Seq(S) /\ Len(a \o b) = Len(s) - 1
    <2>1. a \in Seq(S) /\ b \in Seq(S)
      BY <1>1, <1>2
    <2>2. Len(a \o b) = Len(a) + Len(b) /\ a \o b \in Seq(S)
      BY <2>1, ConcatProperties
    <2> QED  BY <1>1, <1>2, <2>2
  <1>5. ASSUME NEW j \in 1 .. Len(s) - 1
        PROVE  (a \o b)[j] = IF j < i THEN s[j] ELSE s[j + 1]
    <2>1. CASE j < i
      BY <1>1, <1>2, <1>5, <2>1
    <2>2. CASE ~(j < i)
      <3>1. j - (i - 1) \in 1 .. Len(s) - i /\ i + (j - (i - 1)) = j + 1
        BY <1>5, <2>2
      <3>2. (a \o b)[j] = b[j - (i - 1)]
        BY <1>1, <1>2, <1>5, <2>2
      <3> QED  BY <1>2, <2>2, <3>1, <3>2
    <2> QED  BY <2>1, <2>2
  <1> QED  BY <1>3, <1>4, <1>5

(* What is left of a sequence is a sequence of the same things. *)
LEMMA RemoveFirstSeq ==
    ASSUME NEW S, NEW s \in Seq(S), NEW e
    PROVE  RemoveFirst(s, e) \in Seq(S)
  <1>1. CASE \E i \in 1 .. Len(s) : s[i] = e
    <2>1. PICK i \in 1 .. Len(s) : s[i] = e /\ \A j \in 1 .. Len(s) : s[j] = e => i <= j
      BY <1>1, FirstPlace
    <2>2. RemoveFirst(s, e) = RemoveAt(s, i)
      BY <2>1, Removed
    <2> QED  BY <2>2, RemoveAtSeq
  <1>2. CASE ~\E i \in 1 .. Len(s) : s[i] = e
    BY <1>2 DEF RemoveFirst
  <1> QED  BY <1>1, <1>2

(* Taking an element off behind the head.  *)
LEMMA RemovedBehindHead ==
    ASSUME NEW S, NEW s \in Seq(S), s # <<>>, NEW e \in Range(Tail(s)), Head(s) # e
    PROVE  /\ RemoveFirst(s, e) # <<>>
           /\ Head(RemoveFirst(s, e)) = Head(s)
           /\ Tail(RemoveFirst(s, e)) = RemoveFirst(Tail(s), e)
           /\ Range(Tail(RemoveFirst(s, e))) \subseteq Range(Tail(s))
  <1>1. /\ Len(s) \in Nat \ {0} /\ Head(s) = s[1]
        /\ Tail(s) \in Seq(S) /\ Len(Tail(s)) = Len(s) - 1
        /\ DOMAIN Tail(s) = 1 .. (Len(s) - 1)
        /\ \A j \in 1 .. (Len(s) - 1) : Tail(s)[j] = s[j + 1]
    OBVIOUS
  <1>2. \E j \in 1 .. Len(Tail(s)) : Tail(s)[j] = e
    BY <1>1 DEF Range
  <1>3. PICK i \in 1 .. Len(Tail(s)) : Tail(s)[i] = e /\ \A j \in 1 .. Len(Tail(s)) : Tail(s)[j] = e => i <= j
    BY <1>1, <1>2, FirstPlace
  <1>4. RemoveFirst(Tail(s), e) = RemoveAt(Tail(s), i)
    BY <1>1, <1>3, Removed
  <1>5. i + 1 \in 1 .. Len(s) /\ s[i + 1] = e
    BY <1>1, <1>3
  <1>6. ASSUME NEW j \in 1 .. Len(s), s[j] = e  PROVE i + 1 <= j
    <2>1. j # 1
      BY <1>1, <1>6
    <2>2. j - 1 \in 1 .. Len(Tail(s)) /\ Tail(s)[j - 1] = e
      BY <1>1, <1>6, <2>1
    <2>3. i <= j - 1
      BY <1>3, <2>2
    <2> QED  BY <1>1, <1>3, <2>3
  <1>7. RemoveFirst(s, e) = RemoveAt(s, i + 1)
    BY <1>5, <1>6, Removed
  <1> DEFINE r == RemoveAt(s, i + 1)
             t == RemoveAt(Tail(s), i)
  <1>8. /\ r \in Seq(S) /\ Len(r) = Len(s) - 1
        /\ \A j \in 1 .. Len(s) - 1 : r[j] = IF j < i + 1 THEN s[j] ELSE s[j + 1]
    BY <1>5, RemoveAtSeq
  <1>9. /\ t \in Seq(S) /\ Len(t) = Len(Tail(s)) - 1
        /\ \A j \in 1 .. Len(Tail(s)) - 1 : t[j] = IF j < i THEN Tail(s)[j] ELSE Tail(s)[j + 1]
    BY <1>1, <1>3, RemoveAtSeq
  <1> HIDE DEF r, t
  <1>10. Len(s) - 1 >= 1
    BY <1>1, <1>3
  <1>11. r # <<>> /\ Head(r) = s[1]
    BY <1>1, <1>3, <1>8, <1>10
  <1>12. /\ Tail(r) \in Seq(S) /\ Len(Tail(r)) = Len(s) - 2
         /\ \A j \in 1 .. (Len(s) - 2) : Tail(r)[j] = r[j + 1]
    <2>1. /\ Tail(r) \in Seq(S) /\ Len(Tail(r)) = Len(r) - 1
          /\ \A j \in 1 .. Len(Tail(r)) : Tail(r)[j] = r[j + 1]
      BY <1>8, <1>11, HeadTailProperties
    <2>2. Len(Tail(r)) = Len(s) - 2
      <3>1. \A n \in Nat : (n - 1) - 1 = n - 2
        OBVIOUS
      <3> QED  BY <1>1, <1>8, <2>1, <3>1
    <2> QED  BY <2>1, <2>2
  <1>13. ASSUME NEW j \in 1 .. (Len(s) - 2)  PROVE Tail(r)[j] = t[j]
    <2>1. r[j + 1] = IF j + 1 < i + 1 THEN s[j + 1] ELSE s[j + 2]
      BY <1>1, <1>8, <1>13
    <2>2. t[j] = IF j < i THEN Tail(s)[j] ELSE Tail(s)[j + 1]
      BY <1>1, <1>9, <1>13
    <2>3. Tail(s)[j] = s[j + 1] /\ Tail(s)[j + 1] = s[j + 2]
      BY <1>1, <1>13
    <2> QED  BY <1>3, <1>12, <1>13, <2>1, <2>2, <2>3
  <1>14. Tail(r) = t
    <2>1. Len(t) = Len(s) - 2
      <3>1. \A n \in Nat : (n - 1) - 1 = n - 2
        OBVIOUS
      <3> QED  BY <1>1, <1>9, <3>1
    <2>2. Len(t) = Len(Tail(r)) /\ \A j \in 1 .. Len(Tail(r)) : Tail(r)[j] = t[j]
      BY <1>12, <1>13, <2>1
    <2> QED  BY <1>9, <1>12, <2>2, SeqEqual
  <1>15. ASSUME NEW x \in Range(t)  PROVE x \in Range(Tail(s))
    <2>1. PICK j \in 1 .. Len(t) : t[j] = x
      BY <1>9 DEF Range
    <2>2. Len(t) = Len(s) - 2
      BY <1>1, <1>9
    <2>3. \E k \in 1 .. Len(s) - 1 : Tail(s)[k] = x
      <3>1. j \in 1 .. Len(s) - 1 /\ j + 1 \in 1 .. Len(s) - 1 /\ j \in 1 .. Len(Tail(s)) - 1
        BY <1>1, <2>1, <2>2
      <3> QED  BY <1>9, <2>1, <3>1
    <2> QED  BY <1>1, <2>3 DEF Range
  <1> QED
    BY <1>1, <1>4, <1>7, <1>11, <1>14, <1>15 DEF r, t

-----------------------------------------------------------------------------
(* The list of threads. *)

ThreadIds == SystemIds \union {FirstThread}
Notices   == [what : {"created", "exited", "stop", "threads"}, id : ThreadIds]

ListTypeOK ==
    /\ systemThreads \in Seq(ThreadIds) \ {<<>>}
    /\ waiting \in {"stopped", "wait", "threadEvent"}
    /\ queue \in Seq(Notices)
    /\ activeThreads \in Seq(ThreadIds)
    /\ unseen \in BOOLEAN

(* The list after a notice. *)
After(notice, list) ==
    CASE notice.what = "created" -> Append(list, notice.id)
      [] notice.what = "exited"  -> RemoveFirst(list, notice.id)
      [] OTHER -> list

(* The lists to come, one after each notice of the queue, lead from the    *)
(* list the driver has to the one of the target.                           *)
Leads(lists, notices, from, to) ==
    /\ lists \in [0 .. Len(notices) -> Seq(ThreadIds)]
    /\ lists[0] = from /\ lists[Len(notices)] = to
    /\ \A i \in 1 .. Len(notices) : lists[i] = After(notices[i], lists[i - 1])

Listed == \E lists : Leads(lists, queue, activeThreads, Tail(systemThreads))

(* Behind whatever is told of a thread there is the end of its wait. *)
StopBehind ==
    waiting = "stopped" =>
        \A i \in DOMAIN queue : queue[i].what \in {"created", "exited"} =>
            \E j \in DOMAIN queue : j > i /\ queue[j].what = "stop"

ShownTrue ==
    waiting = "stopped" /\ StopTold => shown \in {<<>>, <<Len(activeThreads)>>}

ListInv ==
    /\ ListTypeOK
    /\ Head(systemThreads) \notin Range(Tail(systemThreads))
    /\ unseen => waiting = "stopped"
    /\ ~unseen => Listed /\ ShownTrue
    /\ StopBehind

(* A list of threads stays one when a notice is taken. *)
LEMMA AfterSeq ==
    ASSUME NEW notice \in Notices, NEW list \in Seq(ThreadIds)
    PROVE  After(notice, list) \in Seq(ThreadIds)
  <1>1. notice.id \in ThreadIds
    BY DEF Notices
  <1>2. Append(list, notice.id) \in Seq(ThreadIds)
    BY <1>1
  <1>3. RemoveFirst(list, notice.id) \in Seq(ThreadIds)
    BY RemoveFirstSeq
  <1> QED  BY <1>2, <1>3 DEF After

(* A notice at the end of the queue leads further. *)
LEMMA LeadsFurther ==
    ASSUME NEW notices \in Seq(Notices), NEW notice \in Notices, NEW from, NEW to,
           NEW lists, Leads(lists, notices, from, to)
    PROVE  \E more : Leads(more, Append(notices, notice), from, After(notice, to))
  <1> DEFINE n == Len(notices)
             longer == Append(notices, notice)
             more == [i \in 0 .. n + 1 |-> IF i <= n THEN lists[i] ELSE After(notice, to)]
  <1>1. /\ n \in Nat /\ Len(longer) = n + 1 /\ longer[n + 1] = notice
        /\ \A i \in 1 .. n : longer[i] = notices[i]
    OBVIOUS
  <1>2. /\ lists \in [0 .. n -> Seq(ThreadIds)]
        /\ lists[0] = from /\ lists[n] = to
        /\ \A i \in 1 .. n : lists[i] = After(notices[i], lists[i - 1])
    BY DEF Leads
  <1> HIDE DEF n, longer
  <1>3. After(notice, to) \in Seq(ThreadIds)
    BY <1>1, <1>2, AfterSeq
  <1>4. more \in [0 .. n + 1 -> Seq(ThreadIds)]
    BY <1>1, <1>2, <1>3
  <1>5. /\ \A i \in 0 .. n : more[i] = lists[i]
        /\ more[n + 1] = After(notice, to)
    BY <1>1
  <1> HIDE DEF more
  <1>6. more[0] = from /\ more[n] = to
    BY <1>1, <1>2, <1>5
  <1>7. ASSUME NEW i \in 1 .. n + 1  PROVE more[i] = After(longer[i], more[i - 1])
    <2>1. CASE i <= n
      <3>1. i \in 1 .. n /\ i \in 0 .. n /\ i - 1 \in 0 .. n
        BY <1>1, <1>7, <2>1
      <3> QED  BY <1>1, <1>2, <1>5, <3>1
    <2>2. CASE i = n + 1
      <3>1. i - 1 = n
        BY <1>1, <2>2
      <3> QED  BY <1>1, <1>5, <1>6, <2>2, <3>1
    <2> QED  BY <1>1, <1>7, <2>1, <2>2
  <1>8. Leads(more, longer, from, After(notice, to))
    BY <1>1, <1>4, <1>5, <1>6, <1>7 DEF Leads
  <1> QED  BY <1>8 DEF longer

(* The first notice is taken. *)
LEMMA LeadsOn ==
    ASSUME NEW notices \in Seq(Notices), notices # <<>>, NEW from, NEW to,
           NEW lists, Leads(lists, notices, from, to)
    PROVE  \E rest : Leads(rest, Tail(notices), After(Head(notices), from), to)
  <1> DEFINE n == Len(notices)
             fewer == Tail(notices)
             rest == [i \in 0 .. n - 1 |-> lists[i + 1]]
  <1>1. /\ n \in Nat \ {0} /\ Head(notices) = notices[1]
        /\ Len(fewer) = n - 1
        /\ \A i \in 1 .. n - 1 : fewer[i] = notices[i + 1]
    OBVIOUS
  <1>2. /\ lists \in [0 .. n -> Seq(ThreadIds)]
        /\ lists[0] = from /\ lists[n] = to
        /\ \A i \in 1 .. n : lists[i] = After(notices[i], lists[i - 1])
    BY DEF Leads
  <1> HIDE DEF n, fewer
  <1>3. rest \in [0 .. n - 1 -> Seq(ThreadIds)] /\ \A i \in 0 .. n - 1 : rest[i] = lists[i + 1]
    BY <1>1, <1>2
  <1> HIDE DEF rest
  <1>4. rest[0] = After(Head(notices), from)
    <2>1. lists[1] = After(notices[1], lists[1 - 1]) /\ 1 - 1 = 0 /\ 0 + 1 = 1
      BY <1>1, <1>2
    <2> QED  BY <1>1, <1>2, <1>3, <2>1
  <1>5. rest[n - 1] = to
    <2>1. n - 1 \in 0 .. n - 1 /\ (n - 1) + 1 = n
      BY <1>1
    <2> QED  BY <1>2, <1>3, <2>1
  <1>6. ASSUME NEW i \in 1 .. n - 1  PROVE rest[i] = After(fewer[i], rest[i - 1])
    <2>1. i \in 0 .. n - 1 /\ i - 1 \in 0 .. n - 1 /\ (i - 1) + 1 = i /\ (i + 1) - 1 = i /\ i + 1 \in 1 .. n
      BY <1>1, <1>6
    <2>2. lists[i + 1] = After(notices[i + 1], lists[(i + 1) - 1])
      BY <1>2, <2>1
    <2> QED  BY <1>1, <1>3, <1>6, <2>1, <2>2
  <1>7. Leads(rest, fewer, After(Head(notices), from), to)
    BY <1>1, <1>3, <1>4, <1>5, <1>6 DEF Leads
  <1> QED  BY <1>7 DEF fewer

(* Notices of no thread lead nowhere. *)
LEMMA LeadsNowhere ==
    ASSUME NEW notices \in Seq(Notices), NEW from, NEW to,
           NEW lists, Leads(lists, notices, from, to),
           \A i \in DOMAIN notices : notices[i].what \notin {"created", "exited"}
    PROVE  from = to
  <1> DEFINE n == Len(notices)
             Same == {i \in Nat : i <= n => lists[i] = from}
  <1>1. n \in Nat /\ DOMAIN notices = 1 .. n
    OBVIOUS
  <1>2. /\ lists[0] = from /\ lists[n] = to
        /\ \A i \in 1 .. n : lists[i] = After(notices[i], lists[i - 1])
    BY DEF Leads
  <1> HIDE DEF n
  <1>3. 0 \in Same
    BY <1>1, <1>2
  <1>4. ASSUME NEW i \in Nat, i \in Same  PROVE i + 1 \in Same
    <2>1. CASE i + 1 <= n
      <3>1. i + 1 \in 1 .. n /\ (i + 1) - 1 = i /\ i <= n
        BY <1>1, <1>4, <2>1
      <3>2. lists[i + 1] = After(notices[i + 1], lists[i])
        BY <1>2, <3>1
      <3>3. After(notices[i + 1], lists[i]) = lists[i]
        BY <1>1, <3>1 DEF After
      <3> QED  BY <1>4, <3>1, <3>2, <3>3
    <2> QED  BY <2>1, <1>1
  <1> HIDE DEF Same
  <1>5. n \in Same
    BY <1>1, <1>3, <1>4, Induct
  <1> QED  BY <1>1, <1>2, <1>5 DEF Same

(* A notice is put behind those that wait. *)
LEMMA NoticeAdded ==
    ASSUME ListTypeOK, NEW what \in {"created", "exited", "stop", "threads"}, NEW id \in ThreadIds,
           Notify(what, id)
    PROVE  /\ [what |-> what, id |-> id] \in Notices
           /\ queue' \in Seq(Notices)
           /\ DOMAIN queue = 1 .. Len(queue) /\ Len(queue) \in Nat
           /\ DOMAIN queue' = 1 .. Len(queue) + 1
           /\ \A i \in 1 .. Len(queue) : queue'[i] = queue[i]
           /\ queue'[Len(queue) + 1] = [what |-> what, id |-> id]
  <1>1. [what |-> what, id |-> id] \in Notices
    BY DEF Notices
  <1> QED  BY <1>1 DEF ListTypeOK, Notify

(* What is listed with a notice at the end of the queue. *)
LEMMA ListedFurther ==
    ASSUME ListTypeOK, Listed, NEW what \in {"created", "exited", "stop", "threads"},
           NEW id \in ThreadIds, Notify(what, id), activeThreads' = activeThreads,
           Tail(systemThreads') = After([what |-> what, id |-> id], Tail(systemThreads))
    PROVE  Listed'
  <1>1. [what |-> what, id |-> id] \in Notices /\ queue \in Seq(Notices)
    BY NoticeAdded DEF ListTypeOK
  <1>2. PICK lists : Leads(lists, queue, activeThreads, Tail(systemThreads))
    BY DEF Listed
  <1>3. queue' = Append(queue, [what |-> what, id |-> id])
    BY DEF Notify
  <1>4. \E more : Leads(more, queue', activeThreads, Tail(systemThreads'))
    BY <1>1, <1>2, <1>3, LeadsFurther
  <1> QED  BY <1>4 DEF Listed

(* The threads after one has begun or ended. *)
LEMMA ThreadBegins ==
    ASSUME ListInv, NEW id \in SystemIds, Begins(id)
    PROVE  /\ systemThreads' \in Seq(ThreadIds) \ {<<>>}
           /\ Tail(systemThreads') = Append(Tail(systemThreads), id)
           /\ Head(systemThreads') \notin Range(Tail(systemThreads'))
  <1>1. systemThreads \in Seq(ThreadIds) /\ systemThreads # <<>> /\ id \in ThreadIds
    BY DEF ListInv, ListTypeOK, ThreadIds
  <1>2. systemThreads' = Append(systemThreads, id) /\ id \notin Range(systemThreads)
    BY DEF Begins
  <1>3. /\ systemThreads' \in Seq(ThreadIds) /\ systemThreads' # <<>>
        /\ Head(systemThreads') = Head(systemThreads)
        /\ Tail(systemThreads') = Append(Tail(systemThreads), id)
        /\ Tail(systemThreads) \in Seq(ThreadIds)
    BY <1>1, <1>2
  <1>4. Range(Tail(systemThreads')) = Range(Tail(systemThreads)) \union {id}
    BY <1>1, <1>3, RangeAppend
  <1>5. Head(systemThreads) # id
    BY <1>1, <1>2 DEF Range
  <1> QED  BY <1>3, <1>4, <1>5 DEF ListInv

(* The thread the debugger asks through stays first, and its own, when     *)
(* another ends.                                                           *)
LEMMA ThreadEnds ==
    ASSUME ListInv, NEW id \in SystemIds, Ends(id)
    PROVE  /\ systemThreads' \in Seq(ThreadIds) \ {<<>>}
           /\ Tail(systemThreads') = RemoveFirst(Tail(systemThreads), id)
           /\ Head(systemThreads') \notin Range(Tail(systemThreads'))
  <1>1. systemThreads \in Seq(ThreadIds) /\ systemThreads # <<>>
    BY DEF ListInv, ListTypeOK
  <1>2. systemThreads' = RemoveFirst(systemThreads, id) /\ id \in Range(Tail(systemThreads))
    BY DEF Ends
  <1>3. Head(systemThreads) # id
    BY <1>2 DEF ListInv
  <1>4. /\ systemThreads' # <<>>
        /\ Head(systemThreads') = Head(systemThreads)
        /\ Tail(systemThreads') = RemoveFirst(Tail(systemThreads), id)
        /\ Range(Tail(systemThreads')) \subseteq Range(Tail(systemThreads))
    BY <1>1, <1>2, <1>3, RemovedBehindHead
  <1>5. systemThreads' \in Seq(ThreadIds)
    BY <1>1, <1>2, RemoveFirstSeq
  <1> QED  BY <1>4, <1>5 DEF ListInv

(* The two lists are the same at first. *)
LEMMA ListBegins == ThreadsInit => ListInv
  <1> SUFFICES ASSUME ThreadsInit  PROVE ListInv
    OBVIOUS
  <1> USE DEF ThreadsInit
  <1>1. ListTypeOK
    <2>1. FirstThread \in ThreadIds
      BY DEF ThreadIds
    <2>2. <<FirstThread>> \in Seq(ThreadIds) /\ <<FirstThread>> # <<>>
      BY <2>1
    <2>3. <<>> \in Seq(ThreadIds) /\ <<>> \in Seq(Notices)
      OBVIOUS
    <2> QED  BY <2>2, <2>3 DEF ListTypeOK
  <1>2. Tail(systemThreads) = <<>>
    OBVIOUS
  <1>3. Range(<<>>) = {}
    BY DEF Range
  <1>4. Listed
    <2> DEFINE lists == [i \in 0 .. 0 |-> <<>>]
    <2>1. Len(queue) = 0 /\ lists[0] = <<>> /\ lists \in [0 .. 0 -> Seq(ThreadIds)]
      OBVIOUS
    <2> HIDE DEF lists
    <2>2. Leads(lists, queue, activeThreads, Tail(systemThreads))
      BY <1>2, <2>1 DEF Leads
    <2> QED  BY <2>2 DEF Listed
  <1>5. StopBehind /\ ShownTrue
    BY DEF StopBehind, ShownTrue
  <1> QED  BY <1>1, <1>2, <1>3, <1>4, <1>5 DEF ListInv

(* A stop at the end of the queue: nobody is told yet.  *)
LEMMA StopComes ==
    ASSUME ListTypeOK, Notify("stop", FirstThread)
    PROVE  ~StopTold' /\ StopBehind'
  <1>1. FirstThread \in ThreadIds
    BY DEF ThreadIds
  <1>2. /\ DOMAIN queue' = 1 .. Len(queue) + 1 /\ Len(queue) \in Nat
        /\ queue'[Len(queue) + 1].what = "stop"
    <2>1. queue'[Len(queue) + 1] = [what |-> "stop", id |-> FirstThread]
      BY <1>1, NoticeAdded
    <2> QED  BY <1>1, <2>1, NoticeAdded
  <1>3. ~StopTold'
    BY <1>2 DEF StopTold
  <1>4. ASSUME NEW i \in DOMAIN queue', queue'[i].what \in {"created", "exited"}
        PROVE  \E j \in DOMAIN queue' : j > i /\ queue'[j].what = "stop"
    <2>1. i # Len(queue) + 1
      BY <1>2, <1>4
    <2>2. Len(queue) + 1 > i
      BY <1>2, <1>4, <2>1
    <2> QED  BY <1>2, <2>2
  <1> QED  BY <1>3, <1>4 DEF StopBehind

(* Notices of no thread change neither list. *)
LEMMA OtherNotice ==
    ASSUME ListTypeOK, Listed, NEW what \in {"stop", "threads"}, Notify(what, FirstThread),
           UNCHANGED <<systemThreads, activeThreads>>
    PROVE  Listed'
  <1>1. FirstThread \in ThreadIds /\ what \in {"created", "exited", "stop", "threads"}
    BY DEF ThreadIds
  <1>2. After([what |-> what, id |-> FirstThread], Tail(systemThreads)) = Tail(systemThreads)
    BY DEF After
  <1> QED  BY <1>1, <1>2, ListedFurther

(* Resuming the target leaves the lists alone. *)
LEMMA RunThreadsStep == ListInv /\ RunThreads => ListInv'
  <1> SUFFICES ASSUME ListInv, RunThreads  PROVE ListInv'
    OBVIOUS
  <1>1. Listed'
    BY DEF ListInv, RunThreads, Listed
  <1> QED  BY <1>1 DEF ListInv, ListTypeOK, RunThreads, StopBehind, ShownTrue

(* A thread that begins or ends is told behind the notices before it. *)
LEMMA TellThreadStep == ListInv /\ TellThread => ListInv'
  <1> SUFFICES ASSUME ListInv, TellThread  PROVE ListInv'
    OBVIOUS
  <1>1. ~unseen /\ ListTypeOK /\ Listed
    BY DEF ListInv, TellThread
  <1>2. PICK id \in SystemIds : (Begins(id) /\ Notify("created", id)) \/ (Ends(id) /\ Notify("exited", id))
    BY DEF TellThread
  <1>3. id \in ThreadIds
    BY DEF ThreadIds
  <1>4. /\ systemThreads' \in Seq(ThreadIds) \ {<<>>}
        /\ Head(systemThreads') \notin Range(Tail(systemThreads'))
        /\ Listed' /\ queue' \in Seq(Notices)
    <2>1. CASE Begins(id) /\ Notify("created", id)
      <3>1. Tail(systemThreads') = After([what |-> "created", id |-> id], Tail(systemThreads))
        BY <2>1, ThreadBegins DEF After
      <3>2. Listed' /\ queue' \in Seq(Notices)
        BY <1>1, <1>3, <2>1, <3>1, ListedFurther, NoticeAdded DEF TellThread
      <3> QED  BY <2>1, <3>2, ThreadBegins
    <2>2. CASE Ends(id) /\ Notify("exited", id)
      <3>1. Tail(systemThreads') = After([what |-> "exited", id |-> id], Tail(systemThreads))
        BY <2>2, ThreadEnds DEF After
      <3>2. Listed' /\ queue' \in Seq(Notices)
        BY <1>1, <1>3, <2>2, <3>1, ListedFurther, NoticeAdded DEF TellThread
      <3> QED  BY <2>2, <3>2, ThreadEnds
    <2> QED  BY <1>2, <2>1, <2>2
  <1>5. /\ waiting' = "threadEvent" /\ UNCHANGED <<activeThreads, shown, unseen>>
    BY DEF TellThread
  <1> QED  BY <1>1, <1>4, <1>5 DEF ListInv, ListTypeOK, StopBehind, ShownTrue

(* The wait for an event goes on, or its time is over. *)
LEMMA GoOnStep == ListInv /\ GoOn => ListInv'
  <1> SUFFICES ASSUME ListInv, GoOn  PROVE ListInv'
    OBVIOUS
  <1>1. ~unseen /\ ListTypeOK /\ Listed
    BY DEF ListInv, GoOn
  <1>2. CASE waiting' = "wait" /\ UNCHANGED queue
    <2>1. Listed'
      BY <1>1, <1>2 DEF Listed, GoOn
    <2> QED  BY <1>1, <1>2, <2>1 DEF ListInv, ListTypeOK, GoOn, StopBehind, ShownTrue
  <1>3. CASE waiting' = "stopped" /\ Notify("stop", FirstThread)
    <2>1. Listed' /\ ~StopTold' /\ StopBehind'
      BY <1>1, <1>3, OtherNotice, StopComes DEF GoOn
    <2>2. queue' \in Seq(Notices)
      BY <1>1, <1>3, NoticeAdded DEF ThreadIds
    <2> QED  BY <1>1, <1>3, <2>1, <2>2 DEF ListInv, ListTypeOK, GoOn, ShownTrue
  <1> QED  BY <1>2, <1>3 DEF GoOn

(* The target stops for the event of a thread, which is told before the    *)
(* stop.                                                                   *)
LEMMA StopForEventStep == ListInv /\ StopForEvent => ListInv'
  <1> SUFFICES ASSUME ListInv, StopForEvent  PROVE ListInv'
    OBVIOUS
  <1>1. ~unseen /\ ListTypeOK /\ Listed
    BY DEF ListInv, StopForEvent
  <1>2. Listed' /\ ~StopTold' /\ StopBehind'
    BY <1>1, OtherNotice, StopComes DEF StopForEvent
  <1>3. queue' \in Seq(Notices)
    BY <1>1, NoticeAdded DEF ThreadIds, StopForEvent
  <1> QED  BY <1>1, <1>2, <1>3 DEF ListInv, ListTypeOK, StopForEvent, ShownTrue

(* The target stops for another reason. *)
LEMMA StopUnaskedStep == ListInv /\ StopUnasked => ListInv'
  <1> SUFFICES ASSUME ListInv, StopUnasked  PROVE ListInv'
    OBVIOUS
  <1>1. ~unseen /\ ListTypeOK /\ Listed
    BY DEF ListInv, StopUnasked
  <1>2. ~StopTold' /\ StopBehind'
    BY <1>1, StopComes DEF StopUnasked
  <1>3. queue' \in Seq(Notices)
    BY <1>1, NoticeAdded DEF ThreadIds, StopUnasked
  <1>4. CASE UNCHANGED <<systemThreads, unseen>>
    <2>1. Listed'
      BY <1>1, <1>4, OtherNotice DEF StopUnasked
    <2> QED  BY <1>1, <1>2, <1>3, <1>4, <2>1 DEF ListInv, ListTypeOK, StopUnasked, ShownTrue
  <1>5. CASE unseen' = TRUE /\ \E id \in SystemIds : Begins(id) \/ Ends(id)
    <2>1. /\ systemThreads' \in Seq(ThreadIds) \ {<<>>}
          /\ Head(systemThreads') \notin Range(Tail(systemThreads'))
      BY <1>5, ThreadBegins, ThreadEnds
    <2> QED  BY <1>1, <1>2, <1>3, <1>5, <2>1 DEF ListInv, ListTypeOK, StopUnasked
  <1> QED  BY <1>4, <1>5 DEF StopUnasked

(* The client asks for the threads, behind what it has not been told yet. *)
LEMMA AskThreadsStep == ListInv /\ AskThreads => ListInv'
  <1> SUFFICES ASSUME ListInv, AskThreads  PROVE ListInv'
    OBVIOUS
  <1>1. FirstThread \in ThreadIds /\ ListTypeOK /\ Notify("threads", FirstThread)
    BY DEF ThreadIds, ListInv, AskThreads
  <1>2. /\ DOMAIN queue = 1 .. Len(queue) /\ Len(queue) \in Nat /\ queue' \in Seq(Notices)
        /\ DOMAIN queue' = 1 .. Len(queue) + 1
        /\ \A i \in 1 .. Len(queue) : queue'[i] = queue[i]
        /\ queue'[Len(queue) + 1].what = "threads"
    <2>1. queue'[Len(queue) + 1] = [what |-> "threads", id |-> FirstThread]
      BY <1>1, NoticeAdded
    <2> QED  BY <1>1, <2>1, NoticeAdded
  <1>3. UNCHANGED <<systemThreads, waiting, activeThreads, shown, unseen>>
    BY DEF AskThreads
  <1>4. ~unseen => Listed'
    BY <1>1, <1>3, OtherNotice DEF ListInv
  <1>5. StopTold' => StopTold
    <2>1. \A i \in DOMAIN queue : i \in DOMAIN queue' /\ queue'[i] = queue[i]
      BY <1>2
    <2> QED  BY <2>1 DEF StopTold
  <1>6. StopBehind'
    <2> SUFFICES ASSUME waiting = "stopped", NEW i \in DOMAIN queue', queue'[i].what \in {"created", "exited"}
                 PROVE  \E j \in DOMAIN queue' : j > i /\ queue'[j].what = "stop"
      BY <1>3 DEF StopBehind
    <2>1. i \in DOMAIN queue /\ queue[i] = queue'[i]
      <3>1. i # Len(queue) + 1
        BY <1>2
      <3> QED  BY <1>2, <3>1
    <2>2. PICK j \in DOMAIN queue : j > i /\ queue[j].what = "stop"
      BY <2>1 DEF ListInv, StopBehind
    <2> QED  BY <1>2, <2>2
  <1> QED  BY <1>1, <1>2, <1>3, <1>4, <1>5, <1>6 DEF ListInv, ListTypeOK, ShownTrue

(* The Haxe side takes the oldest notice. *)
LEMMA TakeNoticeStep == ListInv /\ TakeNotice => ListInv'
  <1> SUFFICES ASSUME ListInv, TakeNotice  PROVE ListInv'
    OBVIOUS
  <1> DEFINE notice == Head(queue)
  <1>1. queue \in Seq(Notices) /\ queue # <<>> /\ queue' = Tail(queue)
    BY DEF ListInv, ListTypeOK, TakeNotice
  <1>2. /\ notice \in Notices /\ Len(queue) \in Nat \ {0} /\ DOMAIN queue = 1 .. Len(queue)
        /\ notice = queue[1]
        /\ queue' \in Seq(Notices) /\ DOMAIN queue' = 1 .. Len(queue) - 1
        /\ \A i \in 1 .. Len(queue) - 1 : queue'[i] = queue[i + 1]
    BY <1>1
  <1> HIDE DEF notice
  <1>3. /\ activeThreads' = After(notice, activeThreads)
        /\ shown' = CASE notice.what = "threads" -> <<Len(activeThreads)>>
                      [] notice.what = "stop"    -> <<>>
                      [] OTHER -> shown
    BY DEF TakeNotice, notice, After, WithoutThread
  <1>4. UNCHANGED <<systemThreads, waiting, unseen>>
    BY DEF TakeNotice
  <1>5. activeThreads' \in Seq(ThreadIds)
    BY <1>2, <1>3, AfterSeq DEF ListInv, ListTypeOK
  <1>6. ~unseen => Listed'
    <2> SUFFICES ASSUME ~unseen  PROVE Listed'
      OBVIOUS
    <2>1. PICK lists : Leads(lists, queue, activeThreads, Tail(systemThreads))
      BY DEF ListInv, Listed
    <2>2. \E rest : Leads(rest, queue', activeThreads', Tail(systemThreads))
      BY <1>1, <1>3, <2>1, LeadsOn DEF notice
    <2> QED  BY <1>4, <2>2 DEF Listed
  <1>7. StopBehind'
    <2> SUFFICES ASSUME waiting = "stopped", NEW i \in DOMAIN queue', queue'[i].what \in {"created", "exited"}
                 PROVE  \E j \in DOMAIN queue' : j > i /\ queue'[j].what = "stop"
      BY <1>4 DEF StopBehind
    <2>1. i + 1 \in DOMAIN queue /\ queue[i + 1] = queue'[i]
      BY <1>2
    <2>2. PICK j \in DOMAIN queue : j > i + 1 /\ queue[j].what = "stop"
      BY <2>1 DEF ListInv, StopBehind
    <2>3. j - 1 \in DOMAIN queue' /\ j - 1 > i /\ (j - 1) + 1 = j
      BY <1>2, <2>2
    <2> QED  BY <1>2, <2>2, <2>3
  <1>8. ~unseen => ShownTrue'
    <2> SUFFICES ASSUME ~unseen, waiting = "stopped", StopTold'
                 PROVE  shown' \in {<<>>, <<Len(activeThreads')>>}
      BY <1>4 DEF ShownTrue
    <2>1. CASE notice.what = "stop"
      BY <1>3, <2>1
    <2>2. CASE notice.what # "stop"
      <3>1. ASSUME NEW i \in DOMAIN queue  PROVE queue[i].what # "stop"
        <4>1. CASE i = 1
          BY <1>2, <2>2, <4>1
        <4>2. CASE i # 1
          <5>1. i - 1 \in DOMAIN queue' /\ (i - 1) + 1 = i
            BY <1>2, <3>1, <4>2
          <5> QED  BY <1>2, <5>1 DEF StopTold
        <4> QED  BY <4>1, <4>2
      <3>2. notice.what \notin {"created", "exited"}
        BY <1>2, <3>1 DEF ListInv, StopBehind
      <3>3. activeThreads' = activeThreads
        BY <1>3, <3>2 DEF After
      <3>4. shown \in {<<>>, <<Len(activeThreads)>>}
        BY <3>1 DEF ListInv, ShownTrue, StopTold
      <3> QED  BY <1>3, <2>2, <3>3, <3>4
    <2> QED  BY <2>1, <2>2
  <1> QED  BY <1>2, <1>4, <1>5, <1>6, <1>7, <1>8 DEF ListInv, ListTypeOK

(* Every step keeps the invariant of the list. *)
LEMMA ListStep == ListInv /\ [ThreadsNext]_listVars => ListInv'
  <1> SUFFICES ASSUME ListInv, [ThreadsNext]_listVars  PROVE ListInv'
    OBVIOUS
  <1>1. CASE UNCHANGED listVars
    BY <1>1 DEF listVars, ListInv, ListTypeOK, Listed, ShownTrue, StopTold, StopBehind
  <1> QED
    BY <1>1, RunThreadsStep, TellThreadStep, GoOnStep, StopForEventStep, StopUnaskedStep,
       AskThreadsStep, TakeNoticeStep DEF ThreadsNext

(* Nothing is behind a stop the client knows of. *)
LEMMA ListedThen == ListInv => ThreadsListed
  <1> SUFFICES ASSUME ListInv, waiting = "stopped", StopTold, ~unseen
               PROVE  /\ activeThreads = Tail(systemThreads)
                      /\ shown \in {<<>>, <<Len(systemThreads) - 1>>}
    BY DEF ThreadsListed
  <1>1. PICK lists : Leads(lists, queue, activeThreads, Tail(systemThreads))
    BY DEF ListInv, Listed
  <1>2. \A i \in DOMAIN queue : queue[i].what \notin {"created", "exited"}
    BY DEF ListInv, StopBehind, StopTold
  <1>3. activeThreads = Tail(systemThreads)
    BY <1>1, <1>2, LeadsNowhere DEF ListInv, ListTypeOK
  <1>4. Len(activeThreads) = Len(systemThreads) - 1
    BY <1>3 DEF ListInv, ListTypeOK
  <1> QED  BY <1>3, <1>4 DEF ListInv, ShownTrue

(* The notices on their way lead from the list of the debugger to that of  *)
(* the target, in every state.                                             *)
THEOREM ListCorrect == ThreadsSpec => []ListInv
  BY ListBegins, ListStep, PTL DEF ThreadsSpec

(* When the client knows of a stop, the list of threads is that of the     *)
(* target, and that is what it is answered from, for any number of threads *)
(* and any ids the system gives again.                                     *)
THEOREM ThreadsCorrect == ThreadsSpec => []ThreadsListed
  BY ListCorrect, ListedThen, PTL

-----------------------------------------------------------------------------
(* The containers. *)

(* What the caches hold is what the models find in the memory. *)
ModelInv ==
    /\ container \in Containers
    /\ lazyCount \in {<<>>, <<Count>>}
    /\ DOMAIN indexCache \subseteq 1 .. Count
    /\ \A i \in DOMAIN indexCache : indexCache[i] = At(i)
    /\ DOMAIN keyCache \subseteq Keys
    /\ \A k \in DOMAIN keyCache : keyCache[k] \in Gets(k)

(* A chain there is has the elements of a hash. *)
LEMMA BucketThere ==
    ASSUME NEW map, MapShape(map), NEW hash \in Nat
    PROVE  hash % (map.mask + 1) \in DOMAIN map.chains
  <1>1. map.mask \in Nat /\ map.mask + 1 \in Nat \ {0} /\ DOMAIN map.chains = 0 .. map.mask
    BY DEF MapShape
  <1>2. \A n \in Nat, d \in Nat \ {0} : n % d \in 0 .. d - 1
    OBVIOUS
  <1>3. (map.mask + 1) - 1 = map.mask
    BY <1>1
  <1> QED  BY <1>1, <1>2, <1>3

(* No two elements have one key. *)
LEMMA KeyOnce ==
    ASSUME NEW map, MapShape(map),
           NEW b \in DOMAIN map.chains, NEW i \in DOMAIN map.chains[b],
           NEW c \in DOMAIN map.chains, NEW j \in DOMAIN map.chains[c],
           map.chains[b][i].key = map.chains[c][j].key
    PROVE  b = c /\ i = j
  BY DEF MapShape

(* The walk ends at the element that is the one asked for. *)
LEMMA WalkFinds ==
    ASSUME NEW map, MapShape(map), NEW hash \in Nat, NEW key,
           NEW j \in DOMAIN Bucket(map, hash), IsElement(map, Bucket(map, hash)[j], hash, key)
    PROVE  Walk(map, hash, key) = j /\ j \in Nat \ {0}
  <1> DEFINE b == hash % (map.mask + 1)
             I == {i \in 1 .. Len(Bucket(map, hash)) : IsElement(map, Bucket(map, hash)[i], hash, key)}
  <1>1. b \in DOMAIN map.chains /\ Bucket(map, hash) = map.chains[b]
    BY BucketThere DEF Bucket
  <1>2. Bucket(map, hash) \in Seq(Range(Bucket(map, hash)))
    BY <1>1 DEF MapShape
  <1>3. DOMAIN Bucket(map, hash) = 1 .. Len(Bucket(map, hash)) /\ Len(Bucket(map, hash)) \in Nat
    BY <1>2
  <1>4. I = {j}
    <2>1. j \in I
      BY <1>3
    <2>2. ASSUME NEW i \in I  PROVE i = j
      <3>1. map.chains[b][i].key = key /\ map.chains[b][j].key = key
        BY <1>1 DEF IsElement
      <3> QED  BY <1>1, <1>3, <3>1, KeyOnce
    <2> QED  BY <2>1, <2>2
  <1>5. j \in Nat \ {0}
    BY <1>3
  <1> HIDE DEF I
  <1>6. Min(I) = j /\ I # {}
    BY <1>4, <1>5, LeastIsMin
  <1>7. Walk(map, hash, key) = j
    BY <1>6 DEF Walk, SelectInSeq, I
  <1> QED  BY <1>5, <1>7

(* The walk ends at the end of the chain when no element is that of the    *)
(* key.                                                                    *)
LEMMA WalkFindsNone ==
    ASSUME NEW map, MapShape(map), NEW hash \in Nat, NEW key,
           \A j \in DOMAIN Bucket(map, hash) : ~IsElement(map, Bucket(map, hash)[j], hash, key)
    PROVE  Walk(map, hash, key) = 0
  <1> DEFINE I == {i \in 1 .. Len(Bucket(map, hash)) : IsElement(map, Bucket(map, hash)[i], hash, key)}
  <1>1. Bucket(map, hash) \in Seq(Range(Bucket(map, hash)))
    BY BucketThere DEF Bucket, MapShape
  <1>2. DOMAIN Bucket(map, hash) = 1 .. Len(Bucket(map, hash))
    BY <1>1
  <1>3. I = {}
    BY <1>2
  <1> HIDE DEF I
  <1> QED  BY <1>3 DEF Walk, SelectInSeq, I

(* The key at an index, with the hash at that index, leads to its element. *)
LEMMA KeyLeads ==
    ASSUME NEW map, MapShape(map), NEW i \in DOMAIN map.keyCache
    PROVE  /\ map.hashCache[i] \in Nat /\ map.bucket
           /\ \E j \in DOMAIN Bucket(map, map.hashCache[i]) :
                 /\ IsElement(map, Bucket(map, map.hashCache[i])[j], map.hashCache[i], map.keyCache[i])
                 /\ Walk(map, map.hashCache[i], map.keyCache[i]) = j /\ j # 0
                 /\ Bucket(map, map.hashCache[i])[j].key = map.keyCache[i]
  <1> DEFINE hash == map.hashCache[i]
  <1>1. hash \in Nat
    BY DEF MapShape
  <1>2. map.bucket
    <2>1. map.keyCache # <<>>
      BY DEF MapShape
    <2> QED  BY <2>1 DEF MapShape
  <1>3. PICK e \in Range(Bucket(map, hash)) : e.key = map.keyCache[i] /\ (map.ignore \/ e.hash = hash)
    BY DEF MapShape, Bucket
  <1>4. PICK j \in DOMAIN Bucket(map, hash) : Bucket(map, hash)[j] = e
    BY <1>3 DEF Range
  <1>5. IsElement(map, Bucket(map, hash)[j], hash, map.keyCache[i])
    BY <1>3, <1>4 DEF IsElement
  <1>6. Walk(map, hash, map.keyCache[i]) = j /\ j \in Nat \ {0}
    BY <1>1, <1>5, WalkFinds
  <1> QED  BY <1>1, <1>2, <1>3, <1>4, <1>5, <1>6

(* What is at an index of a map is an element of that key, as it is read. *)
FoundAt(map, i) ==
    \E b \in DOMAIN map.chains : \E j \in DOMAIN map.chains[b] :
        /\ map.chains[b][j].key = map.keyCache[i]
        /\ MapAt(map, i) = NamedData(map.chains[b][j].key, ByKeyValue(map.chains[b][j].value))

(* There is such an element. *)
LEMMA MapAtFinds ==
    ASSUME NEW map, MapShape(map), NEW i \in DOMAIN map.keyCache
    PROVE  FoundAt(map, i)
  <1> DEFINE hash == map.hashCache[i]
             b == hash % (map.mask + 1)
  <1>1. PICK j \in DOMAIN Bucket(map, hash) :
           /\ Walk(map, hash, map.keyCache[i]) = j /\ j # 0
           /\ Bucket(map, hash)[j].key = map.keyCache[i]
    BY KeyLeads
  <1>2. hash \in Nat /\ map.bucket
    BY KeyLeads
  <1>3. b \in DOMAIN map.chains /\ Bucket(map, hash) = map.chains[b]
    BY <1>2, BucketThere DEF Bucket
  <1>4. MapAt(map, i) = NamedData(Bucket(map, hash)[j].key, ByKeyValue(Bucket(map, hash)[j].value))
    BY <1>1, <1>2 DEF MapAt
  <1>5. Bucket(map, hash)[j] = map.chains[b][j] /\ j \in DOMAIN map.chains[b]
    BY <1>3
  <1>6. MapAt(map, i) = NamedData(map.chains[b][j].key, ByKeyValue(map.chains[b][j].value))
    BY <1>4, <1>5
  <1>7. map.chains[b][j].key = map.keyCache[i]
    BY <1>1, <1>5
  <1> QED  BY <1>3, <1>5, <1>6, <1>7 DEF FoundAt

(* The elements of a map. *)
MapElements(map) ==
    {[name |-> e.key, data |-> e.value] : e \in UNION {Range(map.chains[b]) : b \in DOMAIN map.chains}}

(* An element of a map is in one place of one chain. *)
LEMMA ElementOfMap ==
    ASSUME NEW map
    PROVE  \A x : x \in MapElements(map) <=>
              \E b \in DOMAIN map.chains : \E j \in DOMAIN map.chains[b] :
                 x = [name |-> map.chains[b][j].key, data |-> map.chains[b][j].value]
  <1>1. ASSUME NEW x \in MapElements(map)
        PROVE  \E b \in DOMAIN map.chains : \E j \in DOMAIN map.chains[b] :
                  x = [name |-> map.chains[b][j].key, data |-> map.chains[b][j].value]
    <2>1. PICK e \in UNION {Range(map.chains[b]) : b \in DOMAIN map.chains} :
             x = [name |-> e.key, data |-> e.value]
      BY <1>1 DEF MapElements
    <2>2. PICK b \in DOMAIN map.chains : e \in Range(map.chains[b])
      BY <2>1
    <2>3. PICK j \in DOMAIN map.chains[b] : map.chains[b][j] = e
      BY <2>2 DEF Range
    <2> QED  BY <2>1, <2>3
  <1>2. ASSUME NEW b \in DOMAIN map.chains, NEW j \in DOMAIN map.chains[b]
        PROVE  [name |-> map.chains[b][j].key, data |-> map.chains[b][j].value] \in MapElements(map)
    <2>1. map.chains[b][j] \in Range(map.chains[b])
      BY DEF Range
    <2>2. map.chains[b][j] \in UNION {Range(map.chains[c]) : c \in DOMAIN map.chains}
      BY <2>1
    <2> QED  BY <2>2 DEF MapElements
  <1> QED  BY <1>1, <1>2

(* One element of a map has a key. *)
LEMMA OneOfKey ==
    ASSUME NEW map, MapShape(map), NEW x \in MapElements(map), NEW y \in MapElements(map), x.name = y.name
    PROVE  x = y
  <1>1. PICK b \in DOMAIN map.chains : \E i \in DOMAIN map.chains[b] :
           x = [name |-> map.chains[b][i].key, data |-> map.chains[b][i].value]
    BY ElementOfMap
  <1>2. PICK i \in DOMAIN map.chains[b] :
           x = [name |-> map.chains[b][i].key, data |-> map.chains[b][i].value]
    BY <1>1
  <1>3. PICK c \in DOMAIN map.chains : \E j \in DOMAIN map.chains[c] :
           y = [name |-> map.chains[c][j].key, data |-> map.chains[c][j].value]
    BY ElementOfMap
  <1>4. PICK j \in DOMAIN map.chains[c] :
           y = [name |-> map.chains[c][j].key, data |-> map.chains[c][j].value]
    BY <1>3
  <1>5. map.chains[b][i].key = map.chains[c][j].key
    BY <1>2, <1>4
  <1>6. b = c /\ i = j
    BY <1>5, KeyOnce
  <1> QED  BY <1>2, <1>4, <1>6

(* An element of a map has a key that is cached. *)
LEMMA KeyCached ==
    ASSUME NEW map, MapShape(map), NEW x \in MapElements(map)
    PROVE  \E i \in DOMAIN map.keyCache : map.keyCache[i] = x.name
  <1>1. PICK b \in DOMAIN map.chains : \E j \in DOMAIN map.chains[b] :
           x = [name |-> map.chains[b][j].key, data |-> map.chains[b][j].value]
    BY ElementOfMap
  <1>2. PICK j \in DOMAIN map.chains[b] :
           x = [name |-> map.chains[b][j].key, data |-> map.chains[b][j].value]
    BY <1>1
  <1>3. map.chains[b][j] \in Range(map.chains[b])
    BY DEF Range
  <1>4. map.chains[b][j].key \in Range(map.keyCache)
    BY <1>3 DEF MapShape
  <1> QED  BY <1>2, <1>4 DEF Range

(* The element that is at an index, before it is read. *)
ElementAt(i) ==
    IF container.kind = "map" THEN CHOOSE x \in Elements : x.name = container.keyCache[i]
    ELSE container.fields[i]

(* What a value is read as. *)
LEMMA ReadAsOne ==
    ASSUME NEW data
    PROVE  ByKeyValue(data) \in ReadAs(data) /\ Checked(data) \in ReadAs(data)
  BY DEF ByKeyValue, Checked, ReadAs

(* What is at the indices is all there is, once. *)
LEMMA AllAtOnce ==
    ASSUME container \in Containers
    PROVE  /\ Count \in Nat
           /\ \A i \in 1 .. Count : ElementAt(i) \in Elements /\ At(i) \in ShownAs(ElementAt(i))
           /\ \A i, j \in 1 .. Count : ElementAt(i).name = ElementAt(j).name => i = j
           /\ \A e \in Elements : \E i \in 1 .. Count : ElementAt(i) = e
  <1>1. CASE MapShape(container)
    <2>1. /\ container.kind = "map" /\ Count = Len(container.keyCache)
          /\ Elements = MapElements(container)
          /\ \A i : At(i) = MapAt(container, i)
      BY <1>1 DEF MapShape, Count, Elements, At, MapElements
    <2>2. container.keyCache \in Seq(Range(container.keyCache)) /\ IsInjective(container.keyCache)
      BY <1>1 DEF MapShape
    <2>3. Count \in Nat /\ DOMAIN container.keyCache = 1 .. Count
      BY <2>1, <2>2
    <2>4. ASSUME NEW i \in 1 .. Count
          PROVE  /\ ElementAt(i) \in Elements /\ At(i) \in ShownAs(ElementAt(i))
                 /\ ElementAt(i).name = container.keyCache[i]
      <3>0. i \in DOMAIN container.keyCache
        BY <2>3
      <3>1. FoundAt(container, i)
        BY <1>1, <3>0, MapAtFinds
      <3>2. PICK b \in DOMAIN container.chains : \E j \in DOMAIN container.chains[b] :
               /\ container.chains[b][j].key = container.keyCache[i]
               /\ MapAt(container, i) = NamedData(container.chains[b][j].key, ByKeyValue(container.chains[b][j].value))
        BY <3>1 DEF FoundAt
      <3>3. PICK j \in DOMAIN container.chains[b] :
               /\ container.chains[b][j].key = container.keyCache[i]
               /\ MapAt(container, i) = NamedData(container.chains[b][j].key, ByKeyValue(container.chains[b][j].value))
        BY <3>2
      <3> DEFINE e == [name |-> container.chains[b][j].key, data |-> container.chains[b][j].value]
      <3>4. e \in Elements /\ e.name = container.keyCache[i]
        BY <2>1, <3>3, ElementOfMap
      <3>5. At(i) = NamedData(e.name, ByKeyValue(e.data))
        BY <2>1, <3>3
      <3> HIDE DEF e
      <3>6. ElementAt(i) = CHOOSE x \in Elements : x.name = container.keyCache[i]
        BY <2>1 DEF ElementAt
      <3>7. ElementAt(i) \in Elements /\ ElementAt(i).name = container.keyCache[i]
        BY <3>4, <3>6
      <3>8. ElementAt(i) = e
        BY <1>1, <2>1, <3>4, <3>7, OneOfKey
      <3>9. ~GivenLater(e)
        BY <2>1 DEF GivenLater
      <3>10. At(i) \in ShownAs(e)
        BY <3>5, <3>9, ReadAsOne DEF ShownAs
      <3> QED  BY <3>7, <3>8, <3>10
    <2>5. \A i, j \in 1 .. Count : ElementAt(i).name = ElementAt(j).name => i = j
      BY <2>2, <2>3, <2>4 DEF IsInjective
    <2>6. ASSUME NEW e \in Elements  PROVE \E i \in 1 .. Count : ElementAt(i) = e
      <3>1. PICK i \in DOMAIN container.keyCache : container.keyCache[i] = e.name
        BY <1>1, <2>1, KeyCached
      <3>2. ElementAt(i) \in Elements /\ ElementAt(i).name = e.name
        BY <2>3, <2>4, <3>1
      <3>3. ElementAt(i) = e
        BY <1>1, <2>1, <3>2, OneOfKey
      <3> QED  BY <2>3, <3>3
    <2> QED  BY <2>3, <2>4, <2>5, <2>6
  <1>2. CASE NamedShape(container)
    <2>1. /\ Count = Len(container.fields) /\ Elements = Range(container.fields)
          /\ container.kind # "map"
          /\ \A i : ElementAt(i) = container.fields[i] /\ At(i) = FieldAt(container, i)
      BY <1>2 DEF NamedShape, Count, Elements, At, ElementAt
    <2>2. container.fields \in Seq(Range(container.fields)) /\ container.fixed \in Nat
      BY <1>2 DEF NamedShape
    <2>3. Count \in Nat /\ DOMAIN container.fields = 1 .. Count
      BY <2>1, <2>2
    <2>4. \A i, j \in 1 .. Count : container.fields[i].name = container.fields[j].name => i = j
      BY <1>2, <2>3 DEF NamedShape
    <2>5. ASSUME NEW i \in 1 .. Count  PROVE At(i) \in ShownAs(container.fields[i])
      <3> DEFINE e == container.fields[i]
      <3>1. CASE i > container.fixed
        <4>1. GivenLater(e)
          BY <2>1, <2>3, <3>1 DEF GivenLater
        <4>2. At(i) = Failure
          BY <2>1, <3>1 DEF FieldAt
        <4> QED  BY <4>1, <4>2 DEF ShownAs
      <3>2. CASE ~(i > container.fixed)
        <4>1. ~GivenLater(e)
          BY <2>3, <2>4, <3>2 DEF GivenLater
        <4>2. \/ At(i) = NamedData(e.name, Checked(e.data))
              \/ At(i) = NamedData(e.name, ByKeyValue(e.data))
          BY <2>1, <3>2 DEF FieldAt
        <4> QED  BY <4>1, <4>2, ReadAsOne DEF ShownAs
      <3> QED  BY <3>1, <3>2
    <2> QED  BY <2>1, <2>3, <2>4, <2>5 DEF Range
  <1> QED  BY <1>1, <1>2, ContainersAssumption

(* The count of a container is the number of its elements. *)
LEMMA CountsElements ==
    ASSUME container \in Containers
    PROVE  Cardinality(Elements) = Count
  <1> DEFINE f == [i \in 1 .. Count |-> ElementAt(i)]
  <1>1. /\ Count \in Nat
        /\ \A i \in 1 .. Count : ElementAt(i) \in Elements
        /\ \A i, j \in 1 .. Count : ElementAt(i) = ElementAt(j) => i = j
        /\ \A e \in Elements : \E i \in 1 .. Count : ElementAt(i) = e
    BY AllAtOnce
  <1>2. f \in [1 .. Count -> Elements] /\ \A i \in 1 .. Count : f[i] = ElementAt(i)
    BY <1>1
  <1> HIDE DEF f
  <1>3. f \in Bijection(1 .. Count, Elements)
    BY <1>1, <1>2 DEF Bijection, Injection, Surjection, IsInjective
  <1>4. ExistsBijection(1 .. Count, Elements)
    BY <1>3 DEF ExistsBijection
  <1>5. IsFiniteSet(1 .. Count) /\ Cardinality(1 .. Count) = IF 1 > Count THEN 0 ELSE Count - 1 + 1
    BY <1>1, FS_Interval
  <1>6. Cardinality(Elements) = Cardinality(1 .. Count)
    BY <1>4, <1>5, FS_Bijection
  <1> QED  BY <1>1, <1>5, <1>6

-----------------------------------------------------------------------------
(* What is found of a key. *)
Named(key) == {e \in Elements : e.name = key}

Agrees(key, data) ==
    \/ \E e \in Named(key) : ~GivenLater(e) /\ data \in ReadAs(e.data)
    \/ Named(key) = {} /\ data = IF container.kind \in {"map", "anon"} THEN NNull ELSE Failure
    \/ /\ container.kind # "map" /\ container.table
       /\ \A e \in Named(key) : GivenLater(e)

(* A map is asked through the hash of the key and listed chain by chain. *)
LEMMA MapGetAgrees ==
    ASSUME container \in Containers, MapShape(container), NEW key \in Keys
    PROVE  Agrees(key, MapGet(container, key))
  <1> DEFINE hash == HashOf[key]
             b == hash % (container.mask + 1)
             chain == Bucket(container, hash)
  <1>1. hash \in Nat
    BY HashAssumption
  <1>2. b \in DOMAIN container.chains /\ chain = container.chains[b]
    BY <1>1, BucketThere DEF Bucket
  <1>3. Elements = MapElements(container) /\ container.kind = "map"
    BY DEF MapShape, Elements, MapElements
  <1>4. CASE key \in Range(container.keyCache)
    <2>1. PICK i \in DOMAIN container.keyCache : container.keyCache[i] = key
      BY <1>4 DEF Range
    <2>2. container.hashCache[i] = hash
      BY <2>1, HashAssumption DEF MapShape
    <2>3. PICK j \in DOMAIN chain : Walk(container, hash, key) = j /\ j # 0 /\ chain[j].key = key
      BY <2>1, <2>2, KeyLeads
    <2>4. container.bucket
      BY KeyLeads
    <2> DEFINE e == [name |-> chain[j].key, data |-> chain[j].value]
    <2>5. MapGet(container, key) = Checked(e.data)
      BY <2>3, <2>4 DEF MapGet
    <2>6. e \in Elements /\ e.name = key
      BY <1>2, <1>3, <2>3, ElementOfMap
    <2> HIDE DEF e
    <2>7. ~GivenLater(e)
      BY <1>3 DEF GivenLater
    <2> QED  BY <2>5, <2>6, <2>7, ReadAsOne DEF Agrees, Named
  <1>5. CASE key \notin Range(container.keyCache)
    <2>1. ASSUME NEW c \in DOMAIN container.chains, NEW k \in DOMAIN container.chains[c]
          PROVE  container.chains[c][k].key # key
      <3>1. container.chains[c][k] \in Range(container.chains[c])
        BY DEF Range
      <3>2. container.chains[c][k].key \in Range(container.keyCache)
        BY <3>1 DEF MapShape
      <3> QED  BY <1>5, <3>2
    <2>2. \A j \in DOMAIN chain : ~IsElement(container, chain[j], hash, key)
      BY <1>2, <2>1 DEF IsElement
    <2>3. Walk(container, hash, key) = 0
      BY <1>1, <2>2, WalkFindsNone
    <2>4. MapGet(container, key) = NNull
      BY <2>3 DEF MapGet
    <2>5. ASSUME NEW x \in Elements  PROVE x.name # key
      <3>1. PICK c \in DOMAIN container.chains : \E k \in DOMAIN container.chains[c] :
               x = [name |-> container.chains[c][k].key, data |-> container.chains[c][k].value]
        BY <1>3, <2>5, ElementOfMap
      <3> QED  BY <2>1, <3>1
    <2> QED  BY <1>3, <2>4, <2>5 DEF Agrees, Named
  <1> QED  BY <1>4, <1>5

(* The fields of an object are asked and listed in one sequence. *)
LEMMA FieldGetAgrees ==
    ASSUME NamedShape(container), NEW key, NEW data \in FieldGets(container, key)
    PROVE  Agrees(key, data)
  <1> DEFINE fields == container.fields
             I == {i \in 1 .. Len(fields) : fields[i].name = key}
             place == SelectInSeq(fields, LAMBDA f : f.name = key)
  <1>1. /\ fields \in Seq(Range(fields)) /\ Elements = Range(fields)
        /\ container.kind \in {"class", "locals", "anon"} /\ container.kind # "map"
        /\ container.fixed \in 0 .. Len(fields) /\ container.table => container.kind = "anon"
        /\ container.fixed < Len(fields) => container.table
    BY DEF NamedShape, Elements
  <1>2. DOMAIN fields = 1 .. Len(fields) /\ Len(fields) \in Nat
    BY <1>1
  <1>0. container.fixed \in Nat
    BY DEF NamedShape
  <1>3. CASE I # {}
    <2>1. PICK i \in 1 .. Len(fields) : fields[i].name = key
      BY <1>3
    <2>2. \A j \in DOMAIN fields : fields[j].name = key => j = i
      BY <1>2, <2>1 DEF NamedShape
    <2>3. I = {i} /\ i \in Nat \ {0}
      BY <1>2, <2>1, <2>2
    <2>4. Min(I) = i
      BY <2>3, LeastIsMin
    <2> HIDE DEF I
    <2>5. place = i
      BY <1>3, <2>3, <2>4 DEF SelectInSeq, I
    <2> HIDE DEF place
    <2>6. fields[i] \in Elements /\ fields[i].name = key
      BY <1>1, <1>2, <2>1 DEF Range
    <2>7. CASE i \in 1 .. container.fixed
      <3>1. data = ByKeyValue(fields[i].data)
        BY <2>5, <2>7 DEF FieldGets, place
      <3>2. ~GivenLater(fields[i])
        <4>1. ASSUME NEW j \in DOMAIN fields, j > container.fixed, fields[j] = fields[i]  PROVE FALSE
          <5>1. j = i
            BY <2>1, <2>2, <4>1
          <5>2. i \in 1 .. container.fixed /\ i > container.fixed
            BY <2>7, <4>1, <5>1
          <5> QED  BY <1>0, <5>2
        <4> QED  BY <4>1 DEF GivenLater
      <3> QED  BY <2>6, <3>1, <3>2, ReadAsOne DEF Agrees, Named
    <2>8. CASE i \notin 1 .. container.fixed
      <3>1. i > container.fixed /\ container.table
        <4>1. i \in Nat /\ i >= 1 /\ i <= Len(fields)
          BY <1>2, <2>1
        <4>2. i > container.fixed
          BY <1>0, <2>8, <4>1
        <4>3. container.fixed < Len(fields)
          BY <1>0, <1>2, <4>1, <4>2
        <4>4. container.table
          BY <1>1, <4>3
        <4> QED  BY <4>2, <4>4
      <3>2. ASSUME NEW e \in Named(key)  PROVE GivenLater(e)
        <4>1. PICK j \in DOMAIN fields : e = fields[j] /\ fields[j].name = key
          BY <1>1, <3>2 DEF Range, Named
        <4>2. j = i
          BY <2>2, <4>1
        <4>3. container.kind # "map" /\ j > container.fixed
          BY <1>1, <3>1, <4>2
        <4> QED  BY <4>1, <4>3 DEF GivenLater
      <3> QED  BY <1>1, <3>1, <3>2 DEF Agrees
    <2> QED  BY <2>7, <2>8
  <1>4. CASE I = {}
    <2>1. ASSUME NEW x \in Elements  PROVE x.name # key
      <3>1. PICK j \in DOMAIN fields : x = fields[j]
        BY <1>1, <2>1 DEF Range
      <3> QED  BY <1>2, <1>4, <3>1
    <2>2. Named(key) = {}
      BY <2>1 DEF Named
    <2> HIDE DEF I
    <2>3. place = 0
      BY <1>4 DEF SelectInSeq, I
    <2> HIDE DEF place
    <2>4. place \notin 1 .. container.fixed
      BY <1>1, <2>3
    <2>5. CASE container.table
      BY <1>1, <2>2, <2>5 DEF Agrees
    <2>6. CASE ~container.table
      <3>1. data = IF container.kind = "anon" THEN NNull ELSE Failure
        BY <2>4, <2>6 DEF FieldGets, place
      <3> QED  BY <1>1, <2>2, <3>1 DEF Agrees
    <2> QED  BY <2>5, <2>6
  <1> QED  BY <1>3, <1>4

(* Asking any container agrees with listing it. *)
LEMMA GetAgrees ==
    ASSUME container \in Containers, NEW key \in Keys, NEW data \in Gets(key)
    PROVE  Agrees(key, data)
  <1>1. CASE MapShape(container)
    <2>1. data = MapGet(container, key)
      BY <1>1 DEF MapShape, Gets
    <2> QED  BY <1>1, <2>1, MapGetAgrees
  <1>2. CASE NamedShape(container)
    <2>1. data \in FieldGets(container, key)
      BY <1>2 DEF NamedShape, Gets
    <2> QED  BY <1>2, <2>1, FieldGetAgrees
  <1> QED  BY <1>1, <1>2, ContainersAssumption

-----------------------------------------------------------------------------
(* The caches. *)

(* The caches are empty at first. *)
LEMMA ModelsBegin == ModelsInit => ModelInv
  BY DEF ModelsInit, ModelInv

(* A request fills the caches with what is found; nothing in memory        *)
(* changes meanwhile.                                                      *)
LEMMA ModelsStep == ModelInv /\ [ModelsNext]_modelVars => ModelInv'
  <1> SUFFICES ASSUME ModelInv, [ModelsNext]_modelVars  PROVE ModelInv'
    OBVIOUS
  <1>1. CASE container' = container /\ AskCount
    <2>1. Count' = Count /\ (\A i : At(i)' = At(i)) /\ (\A k : Gets(k)' = Gets(k))
      BY <1>1 DEF Count, At, Gets
    <2> QED  BY <1>1, <2>1 DEF AskCount, ModelInv
  <1>2. CASE AskAt
    <2>1. Count' = Count /\ (\A i : At(i)' = At(i)) /\ (\A k : Gets(k)' = Gets(k))
      BY <1>2 DEF AskAt, Count, At, Gets
    <2>2. PICK i \in 1 .. lazyCount[1] : indexCache' = Put(indexCache, i, At(i))
      BY <1>2 DEF AskAt
    <2>3. lazyCount[1] = Count /\ UNCHANGED <<container, lazyCount, keyCache>>
      BY <1>2 DEF AskAt, ModelInv
    <2>4. /\ DOMAIN indexCache' = DOMAIN indexCache \union {i}
          /\ indexCache'[i] = At(i)
          /\ \A y \in DOMAIN indexCache : y # i => indexCache'[y] = indexCache[y]
      BY <2>2 DEF Put
    <2> QED  BY <2>1, <2>2, <2>3, <2>4 DEF ModelInv
  <1>3. CASE AskGet
    <2>1. Count' = Count /\ (\A i : At(i)' = At(i)) /\ (\A k : Gets(k)' = Gets(k))
      BY <1>3 DEF AskGet, Count, At, Gets
    <2>2. PICK k \in Keys : \E data \in Gets(k) : keyCache' = Put(keyCache, k, data)
      BY <1>3 DEF AskGet
    <2>3. /\ DOMAIN keyCache' = DOMAIN keyCache \union {k}
          /\ keyCache'[k] \in Gets(k)
          /\ \A y \in DOMAIN keyCache : y # k => keyCache'[y] = keyCache[y]
      BY <2>2 DEF Put
    <2>4. UNCHANGED <<container, lazyCount, indexCache>>
      BY <1>3 DEF AskGet
    <2> QED  BY <2>1, <2>3, <2>4 DEF ModelInv
  <1>4. CASE Resume
    BY <1>4 DEF Resume, ModelInv
  <1>5. CASE UNCHANGED modelVars
    <2>1. Count' = Count /\ (\A i : At(i)' = At(i)) /\ (\A k : Gets(k)' = Gets(k))
      BY <1>5 DEF modelVars, Count, At, Gets
    <2> QED  BY <1>5, <2>1 DEF modelVars, ModelInv
  <1> QED  BY <1>1, <1>2, <1>3, <1>4, <1>5 DEF ModelsNext, AskCount

(* What is at two indices tells them apart. *)
LEMMA AtTellsApart ==
    ASSUME container \in Containers, NEW i \in 1 .. Count, NEW j \in 1 .. Count, At(i) = At(j)
    PROVE  i = j \/ At(i) = Failure
  <1> SUFFICES ASSUME At(i) # Failure  PROVE ElementAt(i).name = ElementAt(j).name
    BY AllAtOnce
  <1>1. ASSUME NEW k \in {i, j}
        PROVE  \E data : At(i) = [name |-> ElementAt(k).name, data |-> data]
    <2>1. At(i) \in ShownAs(ElementAt(k))
      BY <1>1, AllAtOnce
    <2>2. PICK data \in ReadAs(ElementAt(k).data) : At(i) = NamedData(ElementAt(k).name, data)
      BY <2>1 DEF ShownAs
    <2> QED  BY <2>2 DEF NamedData
  <1>2. PICK d : At(i) = [name |-> ElementAt(i).name, data |-> d]
    BY <1>1
  <1>3. PICK other : At(i) = [name |-> ElementAt(j).name, data |-> other]
    BY <1>1
  <1>4. At(i).name = ElementAt(i).name /\ At(i).name = ElementAt(j).name
    <2>1. At(i).name = ElementAt(i).name
      BY <1>2
    <2>2. At(i).name = ElementAt(j).name
      BY <1>3
    <2> QED  BY <2>1, <2>2
  <1> QED  BY <1>4

(* What the caches hold is the listing of the container. *)
LEMMA ModelsShow == ModelInv => ElementsOnce /\ KeysAgree
  <1> SUFFICES ASSUME ModelInv  PROVE ElementsOnce /\ KeysAgree
    OBVIOUS
  <1> USE DEF ModelInv
  <1>1. lazyCount # <<>> => lazyCount[1] = Cardinality(Elements) /\ lazyCount[1] = Count
    BY CountsElements
  <1>2. \A i \in DOMAIN indexCache : \E e \in Elements : indexCache[i] \in ShownAs(e)
    BY AllAtOnce
  <1>3. \A i, j \in DOMAIN indexCache : indexCache[i] = indexCache[j] => i = j \/ indexCache[i] = Failure
    BY AtTellsApart
  <1>4. ASSUME lazyCount # <<>>, DOMAIN indexCache = 1 .. lazyCount[1], NEW e \in Elements
        PROVE  \E i \in DOMAIN indexCache : indexCache[i] \in ShownAs(e)
    <2>1. PICK i \in 1 .. Count : ElementAt(i) = e
      BY AllAtOnce
    <2>2. i \in DOMAIN indexCache /\ indexCache[i] = At(i) /\ At(i) \in ShownAs(e)
      BY <1>1, <1>4, <2>1, AllAtOnce
    <2> QED  BY <2>2
  <1>5. ASSUME NEW k \in DOMAIN keyCache  PROVE Agrees(k, keyCache[k])
    BY <1>5, GetAgrees
  <1>6. ElementsOnce
    BY <1>1, <1>2, <1>3, <1>4 DEF ElementsOnce
  <1>7. KeysAgree
    BY <1>5 DEF KeysAgree, Agrees, Named
  <1> QED  BY <1>6, <1>7

(* The caches of the models never hold anything but what is in the memory. *)
THEOREM ModelsCorrect == ModelsSpec => []ModelInv
  BY ModelsBegin, ModelsStep, PTL DEF ModelsSpec

(* Every container is listed element by element, each of them once.        *)
THEOREM ElementsCorrect == ModelsSpec => []ElementsOnce
  BY ModelsCorrect, ModelsShow, PTL

(* What is found by a key is what is listed under it.                      *)
THEOREM KeysCorrect == ModelsSpec => []KeysAgree
  BY ModelsCorrect, ModelsShow, PTL

-----------------------------------------------------------------------------
(* Sequences, element by element, and sequences put together. *)

(* Induction along a sequence. *)
LEMMA SeqInduct ==
    ASSUME NEW X, NEW T, <<>> \in T,
           \A s \in Seq(X), x \in X : s \in T => Append(s, x) \in T
    PROVE  Seq(X) \subseteq T
  <1> DEFINE N == {n \in Nat : \A s \in Seq(X) : Len(s) = n => s \in T}
  <1>1. 0 \in N
    <2>1. \A s \in Seq(X) : Len(s) = 0 => s = <<>>
      OBVIOUS
    <2> QED  BY <2>1
  <1>2. ASSUME NEW n \in Nat, n \in N  PROVE n + 1 \in N
    <2> SUFFICES ASSUME NEW s \in Seq(X), Len(s) = n + 1  PROVE s \in T
      OBVIOUS
    <2> DEFINE f == SubSeq(s, 1, n)
    <2>1. f \in Seq(X) /\ Len(f) = n /\ s[n + 1] \in X /\ \A i \in 1 .. n : f[i] = s[i]
      OBVIOUS
    <2>2. s = Append(f, s[n + 1])
      OBVIOUS
    <2>3. f \in T
      BY <1>2, <2>1
    <2> HIDE DEF f
    <2>4. Append(f, s[n + 1]) \in T
      BY <2>1, <2>3
    <2> QED  BY <2>2, <2>4
  <1> HIDE DEF N
  <1>3. Nat \subseteq N
    BY <1>1, <1>2, Induct
  <1>4. ASSUME NEW s \in Seq(X)  PROVE s \in T
    <2>1. Len(s) \in N
      BY <1>3
    <2> QED  BY <2>1 DEF N
  <1> QED  BY <1>4

(* A function on the first numbers is a sequence. *)
LEMMA Written ==
    ASSUME NEW S, NEW n \in Nat, NEW f \in [1 .. n -> S]
    PROVE  f \in Seq(S) /\ Len(f) = n /\ DOMAIN f = 1 .. n
  OBVIOUS

(* Two sequences put together, element by element. *)
LEMMA ConcatAt ==
    ASSUME NEW S, NEW s \in Seq(S), NEW t \in Seq(S)
    PROVE  /\ s \o t \in Seq(S) /\ Len(s \o t) = Len(s) + Len(t)
           /\ Len(s) \in Nat /\ Len(t) \in Nat
           /\ \A i \in 1 .. Len(s) : (s \o t)[i] = s[i]
           /\ \A i \in 1 .. Len(t) : (s \o t)[Len(s) + i] = t[i]
  <1>1. /\ Len(s) \in Nat /\ Len(t) \in Nat
        /\ s \o t \in Seq(S) /\ Len(s \o t) = Len(s) + Len(t)
        /\ \A i \in 1 .. (Len(s) + Len(t)) :
              (s \o t)[i] = IF i <= Len(s) THEN s[i] ELSE t[i - Len(s)]
    OBVIOUS
  <1>2. ASSUME NEW i \in 1 .. Len(t)  PROVE (s \o t)[Len(s) + i] = t[i]
    <2>1. /\ Len(s) + i \in 1 .. (Len(s) + Len(t)) /\ ~(Len(s) + i <= Len(s))
          /\ (Len(s) + i) - Len(s) = i
      BY <1>1
    <2>2. (s \o t)[Len(s) + i] = IF Len(s) + i <= Len(s) THEN s[Len(s) + i] ELSE t[(Len(s) + i) - Len(s)]
      BY <1>1, <2>1
    <2> QED  BY <2>1, <2>2, Zenon
  <1> QED  BY <1>1, <1>2

(* A sequence and one more element, element by element. *)
LEMMA AppendAt ==
    ASSUME NEW S, NEW s \in Seq(S), NEW x \in S
    PROVE  /\ Append(s, x) \in Seq(S) /\ Len(Append(s, x)) = Len(s) + 1
           /\ \A i \in 1 .. Len(Append(s, x)) :
                 Append(s, x)[i] = IF i = Len(Append(s, x)) THEN x ELSE s[i]
  <1>1. Append(s, x) \in Seq(S) /\ Len(Append(s, x)) = Len(s) + 1 /\ Len(s) \in Nat
    OBVIOUS
  <1>2. ASSUME NEW i \in 1 .. Len(s) + 1
        PROVE  Append(s, x)[i] = IF i = Len(s) + 1 THEN x ELSE s[i]
    OBVIOUS
  <1> QED  BY <1>1, <1>2

(* A sequence cut in two. *)
LEMMA TakeDrop ==
    ASSUME NEW S, NEW s \in Seq(S), NEW n \in 0 .. Len(s)
    PROVE  LET front == SubSeq(s, 1, n)
               back  == SubSeq(s, n + 1, Len(s))
           IN  /\ front \in Seq(S) /\ Len(front) = n
               /\ back \in Seq(S) /\ Len(back) = Len(s) - n
               /\ \A i \in 1 .. n : front[i] = s[i]
               /\ \A i \in 1 .. Len(s) - n : back[i] = s[n + i]
               /\ s = front \o back
  <1> DEFINE front == SubSeq(s, 1, n)
             back  == SubSeq(s, n + 1, Len(s))
  <1>0. Len(s) \in Nat /\ n \in Nat /\ n <= Len(s)
    OBVIOUS
  <1>1. front \in Seq(S) /\ Len(front) = n /\ \A i \in 1 .. n : front[i] = s[i]
    BY <1>0
  <1>2. back \in Seq(S) /\ Len(back) = Len(s) - n /\ \A i \in 1 .. Len(s) - n : back[i] = s[n + i]
    <2>1. back \in Seq(S)
      BY <1>0
    <2>2. Len(back) = Len(s) - n
      BY <1>0
    <2>3. \A i \in 1 .. Len(s) - n : (n + 1) + i - 1 = n + i
      BY <1>0
    <2>4. \A i \in 1 .. Len(s) - n : back[i] = s[n + i]
      BY <1>0
    <2> QED  BY <2>1, <2>2, <2>4
  <1> HIDE DEF front, back
  <1>3. s = front \o back
    <2>1. front \o back \in Seq(S) /\ Len(front \o back) = Len(s)
      <3>1. front \in Seq(S) /\ back \in Seq(S)
        BY <1>1, <1>2
      <3>2. front \o back \in Seq(S) /\ Len(front \o back) = Len(front) + Len(back)
        BY <3>1, ConcatAt
      <3> QED  BY <1>0, <1>1, <1>2, <3>2
    <2>2. ASSUME NEW i \in 1 .. Len(s)  PROVE s[i] = (front \o back)[i]
      <3>1. CASE i <= n
        <4>1. i \in 1 .. Len(front) /\ i \in 1 .. n
          BY <1>0, <1>1, <3>1
        <4> QED  BY <1>1, <1>2, <4>1, ConcatAt
      <3>2. CASE ~(i <= n)
        <4>1. i - n \in 1 .. Len(back) /\ i - n \in 1 .. Len(s) - n /\ n + (i - n) = i
          BY <1>0, <1>2, <3>2
        <4>2. (front \o back)[Len(front) + (i - n)] = back[i - n]
          BY <1>1, <1>2, <4>1, ConcatAt
        <4> QED  BY <1>1, <1>2, <4>1, <4>2
      <3> QED  BY <3>1, <3>2
    <2> QED  BY <2>1, <2>2, SeqEqual
  <1> QED  BY <1>1, <1>2, <1>3 DEF front, back

(* The range of two sequences put together. *)
LEMMA RangeConcat ==
    ASSUME NEW S, NEW s \in Seq(S), NEW t \in Seq(S)
    PROVE  Range(s \o t) = Range(s) \union Range(t)
  <1>1. /\ Len(s) \in Nat /\ Len(t) \in Nat
        /\ DOMAIN s = 1 .. Len(s) /\ DOMAIN t = 1 .. Len(t)
        /\ DOMAIN (s \o t) = 1 .. (Len(s) + Len(t))
        /\ \A i \in 1 .. (Len(s) + Len(t)) :
              (s \o t)[i] = IF i <= Len(s) THEN s[i] ELSE t[i - Len(s)]
    OBVIOUS
  <1>2. ASSUME NEW x \in Range(s \o t)  PROVE x \in Range(s) \union Range(t)
    <2>1. PICK i \in 1 .. (Len(s) + Len(t)) : x = (s \o t)[i]
      BY <1>1, <1>2 DEF Range
    <2>2. CASE i <= Len(s)
      BY <1>1, <2>1, <2>2 DEF Range
    <2>3. CASE ~(i <= Len(s))
      <3>1. i - Len(s) \in 1 .. Len(t)
        BY <1>1, <2>1, <2>3
      <3> QED  BY <1>1, <2>1, <2>3, <3>1 DEF Range
    <2> QED  BY <2>2, <2>3
  <1>3. ASSUME NEW x \in Range(s)  PROVE x \in Range(s \o t)
    <2>1. PICK i \in 1 .. Len(s) : x = s[i]
      BY <1>1, <1>3 DEF Range
    <2>2. i \in 1 .. (Len(s) + Len(t)) /\ (s \o t)[i] = x
      BY <1>1, <2>1
    <2> QED  BY <1>1, <2>2 DEF Range
  <1>4. ASSUME NEW x \in Range(t)  PROVE x \in Range(s \o t)
    <2>1. PICK i \in 1 .. Len(t) : x = t[i]
      BY <1>1, <1>4 DEF Range
    <2>2. i + Len(s) \in 1 .. (Len(s) + Len(t)) /\ (s \o t)[i + Len(s)] = x
      BY <1>1, <2>1
    <2> QED  BY <1>1, <2>2 DEF Range
  <1> QED  BY <1>2, <1>3, <1>4

(* The sequences that come to be on the way of FlattenSeq. *)
Flatten(seqs, F, n) ==
    F = [i \in 1 .. n |-> IF i = 1 THEN seqs[i] ELSE F[i - 1] \o seqs[i]]

(* The recursion of FlattenSeq defines a function. *)
LEMMA FlattenExists ==
    ASSUME NEW seqs, NEW n \in Nat
    PROVE  \E F : Flatten(seqs, F, n)
  <1> DEFINE T == {m \in Nat : \E F : Flatten(seqs, F, m)}
  <1>1. 0 \in T
    <2> DEFINE none == [i \in 1 .. 0 |-> seqs[i]]
    <2>1. Flatten(seqs, none, 0)
      BY DEF Flatten
    <2> QED
      BY <2>1
  <1>2. ASSUME NEW m \in Nat, m \in T PROVE m + 1 \in T
    <2>1. PICK F : Flatten(seqs, F, m)
      BY <1>2
    <2> DEFINE G == [i \in 1 .. (m + 1) |-> IF i <= m THEN F[i]
                                            ELSE IF i = 1 THEN seqs[i] ELSE F[i - 1] \o seqs[i]]
    <2>2. ASSUME NEW i \in 1 .. (m + 1)
          PROVE  G[i] = IF i = 1 THEN seqs[i] ELSE G[i - 1] \o seqs[i]
      <3>1. i # 1 => i - 1 \in 1 .. m /\ i - 1 <= m /\ G[i - 1] = F[i - 1]
        OBVIOUS
      <3>2. CASE i <= m
        <4>1. i \in 1 .. m /\ G[i] = F[i]
          BY <3>2
        <4>2. F[i] = IF i = 1 THEN seqs[i] ELSE F[i - 1] \o seqs[i]
          BY <2>1, <4>1 DEF Flatten
        <4> HIDE DEF G
        <4> QED
          BY <3>1, <4>1, <4>2
      <3>3. CASE ~(i <= m)
        <4>1. G[i] = IF i = 1 THEN seqs[i] ELSE F[i - 1] \o seqs[i]
          BY <3>3
        <4> HIDE DEF G
        <4> QED
          BY <3>1, <4>1
      <3> QED
        BY <3>2, <3>3
    <2>3. Flatten(seqs, G, m + 1)
      <3>1. G = [i \in 1 .. (m + 1) |-> G[i]]
        OBVIOUS
      <3> HIDE DEF G
      <3> QED
        BY <2>2, <3>1 DEF Flatten
    <2> HIDE DEF G
    <2> QED
      BY <2>3
  <1>3. Nat \subseteq T
    <2> HIDE DEF T
    <2> QED
      BY <1>1, <1>2, Induct
  <1> QED
    BY <1>3

(* FlattenSeq is the last value of its recursion. *)
LEMMA FlattenEnd ==
    ASSUME NEW seqs, Len(seqs) \in Nat, Len(seqs) # 0
    PROVE  \E F : Flatten(seqs, F, Len(seqs)) /\ FlattenSeq(seqs) = F[Len(seqs)]
  <1> DEFINE F == CHOOSE f : Flatten(seqs, f, Len(seqs))
  <1>1. Flatten(seqs, F, Len(seqs))
    BY FlattenExists
  <1>2. FlattenSeq(seqs) = F[Len(seqs)]
    BY DEF FlattenSeq, Flatten
  <1> HIDE DEF F
  <1> QED  BY <1>1, <1>2

(* Of no sequences there is nothing to put together. *)
LEMMA FlattenNone == FlattenSeq(<<>>) = <<>>
  <1>1. Len(<<>>) = 0
    OBVIOUS
  <1> QED  BY <1>1 DEF FlattenSeq

(* One more sequence is put at the end. *)
LEMMA FlattenStep ==
    ASSUME NEW S, NEW seqs \in Seq(Seq(S)), NEW x \in Seq(S)
    PROVE  FlattenSeq(Append(seqs, x)) = FlattenSeq(seqs) \o x
  <1> DEFINE n == Len(seqs)
             more == Append(seqs, x)
  <1>1. /\ n \in Nat /\ Len(more) = n + 1 /\ n + 1 # 0
        /\ more[n + 1] = x /\ \A i \in 1 .. n : more[i] = seqs[i]
    OBVIOUS
  <1>2. n = 0 => seqs = <<>>
    OBVIOUS
  <1> HIDE DEF n, more
  <1>3. PICK F : Flatten(more, F, n + 1) /\ FlattenSeq(more) = F[n + 1]
    BY <1>1, FlattenEnd
  <1>4. \A i \in 1 .. n + 1 : F[i] = IF i = 1 THEN more[i] ELSE F[i - 1] \o more[i]
    BY <1>3 DEF Flatten
  <1>5. CASE n = 0
    <2>1. F[n + 1] = more[n + 1]
      BY <1>4, <1>5
    <2>2. FlattenSeq(seqs) = <<>>
      BY <1>2, <1>5, FlattenNone
    <2>3. <<>> \o x = x
      OBVIOUS
    <2> QED  BY <1>1, <1>3, <2>1, <2>2, <2>3 DEF more
  <1>6. CASE n # 0
    <2>1. PICK G : Flatten(seqs, G, n) /\ FlattenSeq(seqs) = G[n]
      BY <1>1, <1>6, FlattenEnd DEF n
    <2>2. \A i \in 1 .. n : G[i] = IF i = 1 THEN seqs[i] ELSE G[i - 1] \o seqs[i]
      BY <2>1 DEF Flatten
    <2> DEFINE T == {i \in Nat : i \in 1 .. n => F[i] = G[i]}
    <2>3. 0 \in T
      OBVIOUS
    <2>4. ASSUME NEW i \in Nat, i \in T  PROVE i + 1 \in T
      <3> SUFFICES ASSUME i + 1 \in 1 .. n  PROVE F[i + 1] = G[i + 1]
        OBVIOUS
      <3>1. more[i + 1] = seqs[i + 1] /\ i + 1 \in 1 .. n + 1
        BY <1>1
      <3>2. CASE i = 0
        BY <1>4, <2>2, <3>1, <3>2
      <3>3. CASE i # 0
        <4>1. i \in 1 .. n /\ i + 1 # 1 /\ (i + 1) - 1 = i
          BY <1>1, <3>3
        <4>2. F[i] = G[i]
          BY <2>4, <4>1
        <4>3. F[i + 1] = F[i] \o more[i + 1]
          <5>1. F[i + 1] = IF i + 1 = 1 THEN more[i + 1] ELSE F[(i + 1) - 1] \o more[i + 1]
            BY <1>4, <3>1
          <5> QED  BY <4>1, <5>1, Zenon
        <4>4. G[i + 1] = G[i] \o seqs[i + 1]
          <5>1. G[i + 1] = IF i + 1 = 1 THEN seqs[i + 1] ELSE G[(i + 1) - 1] \o seqs[i + 1]
            BY <2>2
          <5> QED  BY <4>1, <5>1, Zenon
        <4> QED  BY <3>1, <4>2, <4>3, <4>4
      <3> QED  BY <3>2, <3>3
    <2> HIDE DEF T
    <2>5. n \in T
      BY <1>1, <2>3, <2>4, Induct
    <2>6. F[n] = G[n]
      BY <1>1, <1>6, <2>5 DEF T
    <2>7. F[n + 1] = F[n] \o more[n + 1]
      <3>1. n + 1 # 1 /\ (n + 1) - 1 = n /\ n + 1 \in 1 .. n + 1
        BY <1>1, <1>6
      <3>2. F[n + 1] = IF n + 1 = 1 THEN more[n + 1] ELSE F[(n + 1) - 1] \o more[n + 1]
        BY <1>4, <3>1
      <3> QED  BY <3>1, <3>2, Zenon
    <2> QED  BY <1>1, <1>3, <2>1, <2>6, <2>7 DEF more
  <1> QED  BY <1>5, <1>6

(* What is put together, and of what. *)
LEMMA Flattened ==
    ASSUME NEW S
    PROVE  \A seqs \in Seq(Seq(S)) :
              /\ FlattenSeq(seqs) \in Seq(S)
              /\ \A b : b \in Range(FlattenSeq(seqs)) <=> \E i \in DOMAIN seqs : b \in Range(seqs[i])
  <1> DEFINE Good(seqs) ==
                /\ FlattenSeq(seqs) \in Seq(S)
                /\ \A b : b \in Range(FlattenSeq(seqs)) <=> \E i \in DOMAIN seqs : b \in Range(seqs[i])
             T == {seqs \in Seq(Seq(S)) : Good(seqs)}
  <1>1. <<>> \in T
    <2>1. Range(<<>>) = {} /\ DOMAIN <<>> = {} /\ <<>> \in Seq(S) /\ <<>> \in Seq(Seq(S))
      BY DEF Range
    <2> QED  BY <2>1, FlattenNone
  <1>2. ASSUME NEW seqs \in Seq(Seq(S)), NEW x \in Seq(S), seqs \in T
        PROVE  Append(seqs, x) \in T
    <2>1. /\ FlattenSeq(seqs) \in Seq(S)
          /\ \A b : b \in Range(FlattenSeq(seqs)) <=> \E i \in DOMAIN seqs : b \in Range(seqs[i])
      BY <1>2
    <2> DEFINE more == Append(seqs, x)
    <2>2. /\ more \in Seq(Seq(S)) /\ Len(seqs) \in Nat
          /\ DOMAIN seqs = 1 .. Len(seqs) /\ DOMAIN more = 1 .. Len(seqs) + 1
          /\ more[Len(seqs) + 1] = x /\ \A i \in 1 .. Len(seqs) : more[i] = seqs[i]
      OBVIOUS
    <2> HIDE DEF more
    <2>3. FlattenSeq(more) = FlattenSeq(seqs) \o x
      BY FlattenStep DEF more
    <2>4. FlattenSeq(more) \in Seq(S) /\ Range(FlattenSeq(more)) = Range(FlattenSeq(seqs)) \union Range(x)
      BY <2>1, <2>3, RangeConcat
    <2>5. ASSUME NEW b
          PROVE  b \in Range(FlattenSeq(more)) <=> \E i \in DOMAIN more : b \in Range(more[i])
      <3>1. b \in Range(FlattenSeq(more)) <=> (\E i \in DOMAIN seqs : b \in Range(seqs[i])) \/ b \in Range(x)
        BY <2>1, <2>4
      <3>2. (\E i \in DOMAIN more : b \in Range(more[i]))
              <=> (\E i \in DOMAIN seqs : b \in Range(more[i])) \/ b \in Range(more[Len(seqs) + 1])
        BY <2>2
      <3> QED  BY <2>2, <3>1, <3>2
    <2> QED  BY <2>2, <2>4, <2>5 DEF more
  <1>3. Seq(Seq(S)) \subseteq T
    <2> HIDE DEF T
    <2> QED  BY <1>1, <1>2, SeqInduct
  <1> QED  BY <1>3

(* Three sequences put together. *)
Together(s, t, u) == (s \o t) \o u = s \o (t \o u)

(* They may be put together in either order. *)
LEMMA PutTogether ==
    ASSUME NEW S, NEW s \in Seq(S), NEW t \in Seq(S), NEW u \in Seq(S)
    PROVE  Together(s, t, u)
  <1>1. (s \o t) \o u = s \o (t \o u)
    BY ConcatAssociative
  <1> QED  BY <1>1 DEF Together

(* Flattening distributes over putting together. *)
LEMMA FlattenConcat ==
    ASSUME NEW S, NEW a \in Seq(Seq(S))
    PROVE  \A b \in Seq(Seq(S)) : FlattenSeq(a \o b) = FlattenSeq(a) \o FlattenSeq(b)
  <1> DEFINE T == {b \in Seq(Seq(S)) : FlattenSeq(a \o b) = FlattenSeq(a) \o FlattenSeq(b)}
  <1>0. FlattenSeq(a) \in Seq(S)
    BY Flattened
  <1>1. <<>> \in T
    <2>1. <<>> \in Seq(Seq(S)) /\ a \o <<>> = a /\ FlattenSeq(a) \o <<>> = FlattenSeq(a)
      BY <1>0
    <2> QED  BY <2>1, FlattenNone
  <1>2. ASSUME NEW b \in Seq(Seq(S)), NEW x \in Seq(S), b \in T
        PROVE  Append(b, x) \in T
    <2>1. a \o Append(b, x) = Append(a \o b, x) /\ a \o b \in Seq(Seq(S)) /\ Append(b, x) \in Seq(Seq(S))
      OBVIOUS
    <2>2. FlattenSeq(Append(a \o b, x)) = FlattenSeq(a \o b) \o x
      BY <2>1, FlattenStep
    <2>3. FlattenSeq(Append(b, x)) = FlattenSeq(b) \o x /\ FlattenSeq(b) \in Seq(S)
      BY FlattenStep, Flattened
    <2>4. (FlattenSeq(a) \o FlattenSeq(b)) \o x = FlattenSeq(a) \o (FlattenSeq(b) \o x)
      <3>1. Together(FlattenSeq(a), FlattenSeq(b), x)
        BY <1>0, <2>3, PutTogether
      <3> QED  BY <3>1 DEF Together
    <2>5. FlattenSeq(a \o b) = FlattenSeq(a) \o FlattenSeq(b)
      BY <1>2
    <2>6. FlattenSeq(a \o Append(b, x)) = FlattenSeq(a) \o FlattenSeq(Append(b, x))
      BY <2>1, <2>2, <2>3, <2>4, <2>5
    <2> QED  BY <2>1, <2>6
  <1>3. Seq(Seq(S)) \subseteq T
    <2> HIDE DEF T
    <2> QED  BY <1>1, <1>2, SeqInduct
  <1> QED  BY <1>3

(* One sequence flattened is itself. *)
LEMMA FlattenOne ==
    ASSUME NEW S, NEW x \in Seq(S)
    PROVE  FlattenSeq(<<x>>) = x
  <1>1. <<>> \in Seq(Seq(S)) /\ Append(<<>>, x) = <<x>> /\ <<>> \o x = x
    OBVIOUS
  <1> QED  BY <1>1, FlattenStep, FlattenNone

(* Empty sequences flattened are empty. *)
LEMMA FlattenEmpties ==
    ASSUME NEW S, NEW seqs \in Seq(Seq(S)), \A i \in DOMAIN seqs : seqs[i] = <<>>
    PROVE  FlattenSeq(seqs) = <<>>
  <1>1. FlattenSeq(seqs) \in Seq(S)
    BY Flattened
  <1>2. Range(<<>>) = {}
    BY DEF Range
  <1>3. Range(FlattenSeq(seqs)) = {}
    <2>1. \A b : b \notin Range(FlattenSeq(seqs))
      BY <1>2, Flattened
    <2> QED  BY <2>1
  <1>4. DOMAIN FlattenSeq(seqs) = {}
    BY <1>3 DEF Range
  <1> QED  BY <1>1, <1>4

-----------------------------------------------------------------------------
(* The bytes of the messages. *)

AnyByte == [msg : Nat, part : {"head", "end", "body"}, at : Nat, first : BOOLEAN]

SentOK == sent \in Seq(Bodies)

(* The messages the client sends, and the widths of their characters. *)
LEMMA SentFacts ==
    ASSUME SentOK
    PROVE  /\ Len(sent) \in Nat /\ DOMAIN sent = 1 .. Len(sent)
           /\ \A m \in DOMAIN sent : /\ sent[m] \in Seq({1, 2}) /\ sent[m] # <<>>
                                     /\ Len(sent[m]) \in Nat \ {0} /\ DOMAIN sent[m] = 1 .. Len(sent[m])
                                     /\ \A i \in 1 .. Len(sent[m]) : sent[m][i] \in {1, 2}
  <1>1. Len(sent) \in Nat /\ DOMAIN sent = 1 .. Len(sent) /\ \A m \in 1 .. Len(sent) : sent[m] \in Bodies
    BY DEF SentOK
  <1>2. \A m \in DOMAIN sent : sent[m] \in Seq({1, 2}) /\ sent[m] # <<>>
    BY <1>1, BodiesAssumption
  <1> QED  BY <1>1, <1>2

(* The characters of a body, each a sequence of bytes. *)
Widths(m) == [i \in DOMAIN sent[m] |-> [h \in 1 .. sent[m][i] |-> Byte(m, "body", i, h = 1)]]

(* A body is its characters, each of one or two bytes. *)
LEMMA WidthsFacts ==
    ASSUME SentOK, NEW m \in DOMAIN sent
    PROVE  /\ Body(m) = FlattenSeq(Widths(m))
           /\ Widths(m) \in Seq(Seq(AnyByte)) /\ Len(Widths(m)) = Len(sent[m])
           /\ \A i \in DOMAIN sent[m] :
                 /\ Widths(m)[i] \in Seq(AnyByte) /\ Len(Widths(m)[i]) = sent[m][i]
                 /\ \A h \in 1 .. sent[m][i] :
                       /\ Widths(m)[i][h].msg = m /\ Widths(m)[i][h].part = "body"
                       /\ h = 1 => Widths(m)[i][h].first
  <1>1. /\ Len(sent[m]) \in Nat /\ DOMAIN sent[m] = 1 .. Len(sent[m]) /\ m \in Nat
        /\ \A i \in 1 .. Len(sent[m]) : sent[m][i] \in {1, 2}
    BY SentFacts
  <1>2. ASSUME NEW i \in 1 .. Len(sent[m])
        PROVE  /\ Widths(m)[i] \in Seq(AnyByte) /\ Len(Widths(m)[i]) = sent[m][i]
               /\ \A h \in 1 .. sent[m][i] :
                     /\ Widths(m)[i][h].msg = m /\ Widths(m)[i][h].part = "body"
                     /\ h = 1 => Widths(m)[i][h].first
    <2>1. Widths(m)[i] = [h \in 1 .. sent[m][i] |-> Byte(m, "body", i, h = 1)]
      BY <1>1 DEF Widths
    <2>2. \A h \in 1 .. sent[m][i] : Byte(m, "body", i, h = 1) \in AnyByte
      BY <1>1 DEF Byte, AnyByte
    <2>3. sent[m][i] \in Nat
      BY <1>1
    <2>4. Widths(m)[i] \in [1 .. sent[m][i] -> AnyByte]
      BY <2>1, <2>2
    <2>5. ASSUME NEW h \in 1 .. sent[m][i]
          PROVE  /\ Widths(m)[i][h].msg = m /\ Widths(m)[i][h].part = "body"
                 /\ h = 1 => Widths(m)[i][h].first
      <3>1. Widths(m)[i][h] = [msg |-> m, part |-> "body", at |-> i, first |-> h = 1]
        BY <2>1 DEF Byte
      <3>2. CASE h = 1
        <4>1. Widths(m)[i][h] = [msg |-> m, part |-> "body", at |-> i, first |-> TRUE]
          BY <2>1, <3>2 DEF Byte
        <4> QED  BY <4>1
      <3>3. CASE h # 1
        BY <3>1, <3>3
      <3> QED  BY <3>2, <3>3
    <2> QED  BY <2>3, <2>4, <2>5, Written
  <1>3. Widths(m) \in [1 .. Len(sent[m]) -> Seq(AnyByte)]
    <2>1. DOMAIN Widths(m) = 1 .. Len(sent[m]) /\ Widths(m) = [i \in 1 .. Len(sent[m]) |-> Widths(m)[i]]
      BY <1>1 DEF Widths
    <2> QED  BY <1>2, <2>1
  <1>4. Body(m) = FlattenSeq(Widths(m))
    BY DEF Body, Widths
  <1> QED  BY <1>1, <1>2, <1>3, <1>4

(* Bytes that each begin a character. *)
LEMMA Singles ==
    ASSUME NEW S
    PROVE  \A s \in Seq(S) : FlattenSeq([i \in DOMAIN s |-> <<s[i]>>]) = s
  <1> DEFINE One(s) == [i \in DOMAIN s |-> <<s[i]>>]
             T == {s \in Seq(S) : FlattenSeq(One(s)) = s}
  <1>1. <<>> \in T
    <2>1. One(<<>>) = <<>> /\ <<>> \in Seq(S)
      OBVIOUS
    <2> HIDE DEF One
    <2> QED  BY <2>1, FlattenNone
  <1>2. ASSUME NEW s \in Seq(S), NEW x \in S, s \in T
        PROVE  Append(s, x) \in T
    <2>0. /\ Len(s) \in Nat /\ DOMAIN s = 1 .. Len(s) /\ <<x>> \in Seq(S)
          /\ \A i \in 1 .. Len(s) : s[i] \in S
      OBVIOUS
    <2>1. One(s) \in Seq(Seq(S)) /\ <<x>> \in Seq(S)
      <3>1. \A i \in 1 .. Len(s) : <<s[i]>> \in Seq(S)
        BY <2>0
      <3>2. One(s) \in [1 .. Len(s) -> Seq(S)]
        BY <2>0, <3>1
      <3> QED  BY <2>0, <3>2
    <2>2. One(Append(s, x)) = Append(One(s), <<x>>)
      OBVIOUS
    <2>3. s \o <<x>> = Append(s, x) /\ Append(s, x) \in Seq(S)
      OBVIOUS
    <2> HIDE DEF One
    <2>4. FlattenSeq(One(Append(s, x))) = FlattenSeq(One(s)) \o <<x>>
      BY <2>1, <2>2, FlattenStep
    <2> QED  BY <1>2, <2>3, <2>4
  <1>3. Seq(S) \subseteq T
    <2> HIDE DEF T
    <2> QED  BY <1>1, <1>2, SeqInduct
  <1> QED  BY <1>3

(* The bytes of a body; of an ASCII body each byte is a character. *)
LEMMA BodyFacts ==
    ASSUME SentOK, NEW m \in DOMAIN sent
    PROVE  /\ Body(m) \in Seq(AnyByte) /\ Len(Body(m)) \in Nat \ {0}
           /\ \A i \in 1 .. Len(Body(m)) : Body(m)[i].msg = m /\ Body(m)[i].part = "body"
           /\ Body(m)[1].first
           /\ Ascii(m) => /\ Len(Body(m)) = Len(sent[m])
                          /\ \A i \in 1 .. Len(Body(m)) : Body(m)[i].first
  <1> DEFINE w == Widths(m)
  <1>1. /\ Body(m) = FlattenSeq(w)
        /\ w \in Seq(Seq(AnyByte)) /\ Len(w) = Len(sent[m]) /\ Len(w) \in Nat \ {0}
        /\ DOMAIN w = 1 .. Len(w) /\ DOMAIN sent[m] = 1 .. Len(w)
        /\ \A i \in 1 .. Len(w) :
              /\ sent[m][i] \in {1, 2}
              /\ w[i] \in Seq(AnyByte) /\ Len(w[i]) = sent[m][i]
              /\ \A h \in 1 .. sent[m][i] :
                    /\ w[i][h].msg = m /\ w[i][h].part = "body"
                    /\ h = 1 => w[i][h].first
    BY WidthsFacts, SentFacts
  <1> HIDE DEF w
  <1>2. Body(m) \in Seq(AnyByte)
    BY <1>1, Flattened
  <1>3. ASSUME NEW i \in 1 .. Len(Body(m))
        PROVE  Body(m)[i].msg = m /\ Body(m)[i].part = "body"
    <2>1. Body(m)[i] \in Range(FlattenSeq(w))
      BY <1>1, <1>2 DEF Range
    <2>2. PICK j \in DOMAIN w : Body(m)[i] \in Range(w[j])
      BY <1>1, <2>1, Flattened
    <2>3. PICK h \in DOMAIN w[j] : Body(m)[i] = w[j][h]
      BY <2>2 DEF Range
    <2>4. h \in 1 .. sent[m][j]
      BY <1>1, <2>3
    <2>5. j \in 1 .. Len(w)
      BY <1>1
    <2> QED  BY <1>1, <2>3, <2>4, <2>5
  <1>4. Len(Body(m)) # 0 /\ Body(m)[1].first
    <2> DEFINE rest == Tail(w)
    <2>1. w = <<w[1]>> \o rest /\ rest \in Seq(Seq(AnyByte)) /\ w[1] \in Seq(AnyByte) /\ <<w[1]>> \in Seq(Seq(AnyByte))
      BY <1>1
    <2> HIDE DEF rest
    <2>2. FlattenSeq(w) = FlattenSeq(<<w[1]>>) \o FlattenSeq(rest)
      BY <2>1, FlattenConcat
    <2>3. FlattenSeq(<<w[1]>>) = w[1] /\ FlattenSeq(rest) \in Seq(AnyByte)
      BY <2>1, FlattenOne, Flattened
    <2>4. Len(w[1]) \in {1, 2} /\ w[1][1].first
      <3>1. 1 \in 1 .. Len(w) /\ 1 \in 1 .. sent[m][1] /\ Len(w[1]) = sent[m][1] /\ sent[m][1] \in {1, 2}
        BY <1>1
      <3> QED  BY <1>1, <3>1
    <2>5. Body(m) = w[1] \o FlattenSeq(rest)
      BY <1>1, <2>2, <2>3
    <2>6. Len(Body(m)) # 0 /\ Body(m)[1] = w[1][1]
      <3>1. 1 \in 1 .. Len(w[1]) /\ Len(w[1]) \in Nat \ {0}
        BY <2>4
      <3> QED  BY <2>1, <2>3, <2>5, <3>1, ConcatAt
    <2> QED  BY <2>4, <2>6
  <1>5. ASSUME Ascii(m)
        PROVE  /\ Len(Body(m)) = Len(sent[m])
               /\ \A i \in 1 .. Len(Body(m)) : Body(m)[i].first
    <2>1. ASSUME NEW i \in 1 .. Len(w)
          PROVE  w[i] \in Seq(AnyByte) /\ Len(w[i]) = 1 /\ w[i][1].first /\ w[i][1] \in AnyByte
      <3>1. sent[m][i] = 1
        BY <1>1, <1>5 DEF Ascii
      <3>2. w[i] \in Seq(AnyByte) /\ Len(w[i]) = 1
        BY <1>1, <3>1
      <3>3. w[i][1].first
        BY <1>1, <3>1
      <3>4. w[i][1] \in AnyByte
        BY <3>2
      <3> QED  BY <3>2, <3>3, <3>4
    <2> DEFINE s == [i \in 1 .. Len(w) |-> w[i][1]]
    <2>2. s \in [1 .. Len(w) -> AnyByte]
      BY <2>1
    <2>3. \A i \in 1 .. Len(w) : s[i] = w[i][1]
      OBVIOUS
    <2> HIDE DEF s
    <2>4. s \in Seq(AnyByte) /\ Len(s) = Len(w) /\ DOMAIN s = 1 .. Len(w)
      BY <1>1, <2>2, Written
    <2>5. \A i \in 1 .. Len(w) : w[i] = <<s[i]>>
      BY <2>1, <2>3
    <2>6. w = [i \in DOMAIN s |-> <<s[i]>>]
      <3>1. w = [i \in 1 .. Len(w) |-> w[i]]
        BY <1>1
      <3> QED  BY <2>4, <2>5, <3>1
    <2>7. Body(m) = s
      BY <1>1, <2>4, <2>6, Singles
    <2>8. \A i \in 1 .. Len(w) : s[i].first
      BY <2>1, <2>3
    <2> QED  BY <1>1, <2>4, <2>7, <2>8
  <1> QED  BY <1>2, <1>3, <1>4, <1>5

(* Where the body of a message begins. *)
HeadLength == HeaderLength + EndLength

(* The length of a header with its end. *)
LEMMA HeadNat == HeadLength \in Nat /\ HeadLength = HeaderLength + 4 /\ HeaderLength \in Nat /\ HeaderLength > 0
  BY HeaderAssumption DEF HeadLength, EndLength

(* The bytes of one part of a message. *)
IsPart(bytes, m, part, n) ==
    /\ bytes \in Seq(AnyByte) /\ Len(bytes) = n
    /\ \A i \in 1 .. n : bytes[i].msg = m /\ bytes[i].part = part /\ bytes[i].first

LEMMA PartFacts ==
    ASSUME NEW m \in Nat, NEW part \in {"head", "end", "body"}, NEW n \in Nat
    PROVE  IsPart(Part(m, part, n), m, part, n)
  <1>1. ASSUME NEW i \in 1 .. n
        PROVE  /\ Part(m, part, n)[i] \in AnyByte
               /\ Part(m, part, n)[i].msg = m /\ Part(m, part, n)[i].part = part
               /\ Part(m, part, n)[i].first
    <2>1. Part(m, part, n)[i] = [msg |-> m, part |-> part, at |-> i, first |-> TRUE]
      BY DEF Part, Byte
    <2> QED  BY <2>1 DEF AnyByte
  <1>2. Part(m, part, n) \in [1 .. n -> AnyByte]
    <2>1. Part(m, part, n) = [i \in 1 .. n |-> Part(m, part, n)[i]]
      BY DEF Part
    <2> QED  BY <1>1, <2>1
  <1>3. Part(m, part, n) \in Seq(AnyByte) /\ Len(Part(m, part, n)) = n
    BY <1>2, Written
  <1> QED  BY <1>1, <1>3 DEF IsPart

(* The bytes of a message: header, end of the header, body. *)
LEMMA BytesFacts ==
    ASSUME SentOK, NEW m \in DOMAIN sent
    PROVE  /\ Bytes(m) \in Seq(AnyByte) /\ Len(Bytes(m)) = HeadLength + Len(Body(m))
           /\ \A i \in 1 .. HeadLength : /\ Bytes(m)[i].msg = m /\ Bytes(m)[i].first
                                         /\ Bytes(m)[i].part = IF i <= HeaderLength THEN "head" ELSE "end"
           /\ \A i \in 1 .. Len(Body(m)) : Bytes(m)[HeadLength + i] = Body(m)[i]
           /\ \A i \in 1 .. Len(Bytes(m)) : Bytes(m)[i].msg = m
  <1> DEFINE a == Part(m, "head", HeaderLength)
             b == Part(m, "end", EndLength)
             c == Body(m)
  <1>0. m \in Nat
    BY SentFacts
  <1>1. EndLength = 4 /\ HeaderLength \in Nat /\ HeadLength = HeaderLength + EndLength
    BY HeadNat DEF EndLength, HeadLength
  <1>2. /\ a \in Seq(AnyByte) /\ Len(a) = HeaderLength
        /\ \A i \in 1 .. HeaderLength : a[i].msg = m /\ a[i].part = "head" /\ a[i].first
    <2>1. HeaderLength \in Nat /\ "head" \in {"head", "end", "body"}
      BY <1>1
    <2>2. IsPart(a, m, "head", HeaderLength)
      BY <1>0, <2>1, PartFacts
    <2> HIDE DEF a
    <2> QED  BY <2>2 DEF IsPart
  <1>3. /\ b \in Seq(AnyByte) /\ Len(b) = EndLength
        /\ \A i \in 1 .. EndLength : b[i].msg = m /\ b[i].part = "end" /\ b[i].first
    <2>1. EndLength \in Nat /\ "end" \in {"head", "end", "body"}
      BY <1>1
    <2>2. IsPart(b, m, "end", EndLength)
      BY <1>0, <2>1, PartFacts
    <2> HIDE DEF b
    <2> QED  BY <2>2 DEF IsPart
  <1>4. /\ c \in Seq(AnyByte) /\ Len(c) \in Nat
        /\ \A i \in 1 .. Len(c) : c[i].msg = m
    BY BodyFacts
  <1>5. Bytes(m) = (a \o b) \o c
    BY DEF Bytes
  <1> HIDE DEF a, b, c
  <1> DEFINE h == a \o b
  <1>6. /\ h \in Seq(AnyByte) /\ Len(h) = Len(a) + Len(b)
        /\ \A i \in 1 .. Len(a) : h[i] = a[i]
        /\ \A i \in 1 .. Len(b) : h[Len(a) + i] = b[i]
    <2>1. a \in Seq(AnyByte) /\ b \in Seq(AnyByte)
      BY <1>2, <1>3
    <2> QED  BY <2>1, ConcatAt
  <1>7. Len(h) = HeadLength
    BY <1>1, <1>2, <1>3, <1>6
  <1>8. Bytes(m) = h \o c
    BY <1>5
  <1> HIDE DEF h
  <1>9. /\ Bytes(m) \in Seq(AnyByte) /\ Len(Bytes(m)) = Len(h) + Len(c)
        /\ \A i \in 1 .. Len(h) : Bytes(m)[i] = h[i]
        /\ \A i \in 1 .. Len(c) : Bytes(m)[Len(h) + i] = c[i]
    BY <1>4, <1>6, <1>8, ConcatAt
  <1>10. ASSUME NEW i \in 1 .. HeadLength
         PROVE  /\ Bytes(m)[i].msg = m /\ Bytes(m)[i].first
                /\ Bytes(m)[i].part = IF i <= HeaderLength THEN "head" ELSE "end"
    <2>1. Bytes(m)[i] = h[i]
      BY <1>7, <1>9
    <2>2. CASE i <= HeaderLength
      <3>1. i \in 1 .. HeaderLength /\ i \in 1 .. Len(a)
        BY <1>1, <1>2, <2>2
      <3>2. h[i] = a[i]
        BY <1>6, <3>1
      <3> QED  BY <1>2, <2>1, <2>2, <3>1, <3>2
    <2>3. CASE ~(i <= HeaderLength)
      <3>1. i - HeaderLength \in 1 .. EndLength /\ i - HeaderLength \in 1 .. Len(b) /\ Len(a) + (i - HeaderLength) = i
        BY <1>1, <1>2, <1>3, <2>3
      <3>2. h[Len(a) + (i - HeaderLength)] = b[i - HeaderLength]
        BY <1>6, <3>1
      <3> QED  BY <1>3, <2>1, <2>3, <3>1, <3>2
    <2> QED  BY <2>2, <2>3
  <1>11. ASSUME NEW i \in 1 .. HeadLength + Len(c)  PROVE Bytes(m)[i].msg = m
    <2>1. CASE i <= HeadLength
      <3>1. i \in 1 .. HeadLength
        BY <1>1, <1>4, <2>1
      <3> QED  BY <1>10, <3>1
    <2>2. CASE ~(i <= HeadLength)
      <3>1. i - HeadLength \in 1 .. Len(c) /\ Len(h) + (i - HeadLength) = i
        BY <1>1, <1>4, <1>7, <2>2
      <3>2. Bytes(m)[Len(h) + (i - HeadLength)] = c[i - HeadLength]
        BY <1>9, <3>1
      <3> QED  BY <1>4, <3>1, <3>2
    <2> QED  BY <2>1, <2>2
  <1> QED  BY <1>7, <1>9, <1>10, <1>11 DEF c

-----------------------------------------------------------------------------
(* A sequence cut in two, and two ways of cutting one. *)

Cuts(x, w, b, r) ==
    /\ x \in Seq(AnyByte) /\ w \in Seq(AnyByte) /\ b \in Seq(AnyByte) /\ r \in Seq(AnyByte)
    /\ x \o w = b \o r

(* Types and lengths of a cut. *)
LEMMA CutsLen ==
    ASSUME NEW x, NEW w, NEW b, NEW r, Cuts(x, w, b, r)
    PROVE  /\ x \in Seq(AnyByte) /\ w \in Seq(AnyByte) /\ b \in Seq(AnyByte) /\ r \in Seq(AnyByte)
           /\ Len(x) \in Nat /\ Len(w) \in Nat /\ Len(b) \in Nat /\ Len(r) \in Nat
           /\ Len(x) + Len(w) = Len(b) + Len(r)
  <1>1. x \in Seq(AnyByte) /\ w \in Seq(AnyByte) /\ b \in Seq(AnyByte) /\ r \in Seq(AnyByte)
    BY DEF Cuts
  <1>2. Len(x \o w) = Len(x) + Len(w) /\ Len(x) \in Nat /\ Len(w) \in Nat
    BY <1>1, ConcatAt
  <1>3. Len(b \o r) = Len(b) + Len(r) /\ Len(b) \in Nat /\ Len(r) \in Nat
    BY <1>1, ConcatAt
  <1>4. Len(x \o w) = Len(b \o r)
    BY DEF Cuts
  <1> QED  BY <1>1, <1>2, <1>3, <1>4

(* What has been read of a piece is its beginning. *)
LEMMA PrefixSame ==
    ASSUME NEW x, NEW w, NEW b, NEW r, Cuts(x, w, b, r), NEW i \in 1 .. Len(x), i <= Len(b)
    PROVE  x[i] = b[i]
  <1>0. x \in Seq(AnyByte) /\ w \in Seq(AnyByte) /\ b \in Seq(AnyByte) /\ r \in Seq(AnyByte) /\ Len(b) \in Nat
    BY CutsLen
  <1>1. i \in 1 .. Len(b)
    BY <1>0
  <1>2. (x \o w)[i] = x[i]
    BY <1>0, ConcatAt
  <1>3. (b \o r)[i] = b[i]
    BY <1>0, <1>1, ConcatAt
  <1>4. x \o w = b \o r
    BY DEF Cuts
  <1> QED  BY <1>2, <1>3, <1>4

Behind(y, x, w, b, r) ==
    y \in Seq(AnyByte) /\ x = b \o y /\ y \o w = r /\ Len(y) = Len(x) - Len(b)

(* A piece that is read whole leaves what is behind it. *)
LEMMA Cancel ==
    ASSUME NEW x, NEW w, NEW b, NEW r, Cuts(x, w, b, r), NEW y \in Seq(AnyByte), x = b \o y
    PROVE  Behind(y, x, w, b, r)
  <1> DEFINE v == y \o w
  <1>0. w \in Seq(AnyByte) /\ b \in Seq(AnyByte) /\ r \in Seq(AnyByte) /\ Len(b) \in Nat
    BY CutsLen
  <1>1. v \in Seq(AnyByte)
    BY <1>0
  <1>2. b \o v = b \o r
    <2>1. (b \o y) \o w = b \o (y \o w)
      BY <1>0, ConcatAssociative
    <2>2. x \o w = b \o r
      BY DEF Cuts
    <2> QED  BY <2>1, <2>2
  <1> HIDE DEF v
  <1>3. Len(v) = Len(r)
    <2>1. Len(b \o v) = Len(b) + Len(v) /\ Len(b \o r) = Len(b) + Len(r) /\ Len(v) \in Nat /\ Len(r) \in Nat
      BY <1>0, <1>1
    <2> QED  BY <1>0, <1>2, <2>1
  <1>4. ASSUME NEW i \in 1 .. Len(v)  PROVE v[i] = r[i]
    <2>1. (b \o v)[Len(b) + i] = v[i]
      BY <1>0, <1>1, ConcatAt
    <2>2. (b \o r)[Len(b) + i] = r[i]
      BY <1>0, <1>3, ConcatAt
    <2> QED  BY <1>2, <2>1, <2>2
  <1>5. v = r
    BY <1>0, <1>1, <1>3, <1>4, SeqEqual
  <1>6. Len(y) = Len(x) - Len(b)
    BY <1>0
  <1> QED  BY <1>5, <1>6 DEF v, Behind

(* A piece no longer than what has been read is at its beginning. *)
LEMMA PrefixCut ==
    ASSUME NEW x, NEW w, NEW b, NEW r, Cuts(x, w, b, r), Len(b) <= Len(x),
           NEW y, y = SubSeq(x, Len(b) + 1, Len(x))
    PROVE  Behind(y, x, w, b, r)
  <1>0. /\ x \in Seq(AnyByte) /\ w \in Seq(AnyByte) /\ b \in Seq(AnyByte) /\ r \in Seq(AnyByte)
        /\ Len(x) \in Nat /\ Len(b) \in Nat
    BY CutsLen
  <1> DEFINE front == SubSeq(x, 1, Len(b))
             z == SubSeq(x, Len(b) + 1, Len(x))
  <1>1. Len(b) \in 0 .. Len(x)
    BY <1>0
  <1>2. /\ front \in Seq(AnyByte) /\ Len(front) = Len(b) /\ z \in Seq(AnyByte) /\ Len(z) = Len(x) - Len(b)
        /\ \A i \in 1 .. Len(b) : front[i] = x[i]
        /\ x = front \o z
    BY <1>0, <1>1, TakeDrop
  <1>3. z = y
    OBVIOUS
  <1> HIDE DEF front, z
  <1>4. front = b
    <2>1. \A i \in 1 .. Len(b) : i \in 1 .. Len(x) /\ i <= Len(b)
      BY <1>0
    <2>2. \A i \in 1 .. Len(b) : front[i] = b[i]
      BY <1>2, <2>1, PrefixSame
    <2> QED  BY <1>0, <1>2, <2>2, SeqEqual
  <1>5. y \in Seq(AnyByte) /\ x = b \o y /\ Len(y) = Len(x) - Len(b)
    BY <1>2, <1>3, <1>4
  <1> QED  BY <1>5, Cancel

-----------------------------------------------------------------------------
(* The characters of some bytes. *)

CharsOf(s) == [i \in DOMAIN s |-> IF s[i].first THEN <<s[i]>> ELSE <<>>]

(* Each byte that begins a character is one, the others are none. *)
LEMMA CharsOfSeq ==
    ASSUME NEW s \in Seq(AnyByte)
    PROVE  /\ CharsOf(s) \in Seq(Seq(AnyByte)) /\ Len(CharsOf(s)) = Len(s)
           /\ \A i \in 1 .. Len(s) : CharsOf(s)[i] = IF s[i].first THEN <<s[i]>> ELSE <<>>
  <1>1. Len(s) \in Nat /\ DOMAIN s = 1 .. Len(s) /\ \A i \in 1 .. Len(s) : s[i] \in AnyByte
    OBVIOUS
  <1>2. \A i \in 1 .. Len(s) : CharsOf(s)[i] = IF s[i].first THEN <<s[i]>> ELSE <<>>
    BY <1>1 DEF CharsOf
  <1>3. \A i \in 1 .. Len(s) : CharsOf(s)[i] \in Seq(AnyByte)
    <2> TAKE i \in 1 .. Len(s)
    <2>1. <<s[i]>> \in Seq(AnyByte) /\ <<>> \in Seq(AnyByte)
      BY <1>1
    <2> QED  BY <1>2, <2>1, Zenon
  <1>4. CharsOf(s) \in [1 .. Len(s) -> Seq(AnyByte)]
    <2>1. CharsOf(s) = [i \in 1 .. Len(s) |-> CharsOf(s)[i]]
      BY <1>1 DEF CharsOf
    <2> QED  BY <1>3, <2>1
  <1> QED  BY <1>1, <1>2, <1>4, Written

(* The characters of two texts put together. *)
LEMMA CharsConcat ==
    ASSUME NEW s \in Seq(AnyByte), NEW t \in Seq(AnyByte)
    PROVE  Chars(s \o t) = Chars(s) \o Chars(t)
  <1>1. /\ s \o t \in Seq(AnyByte) /\ Len(s \o t) = Len(s) + Len(t)
        /\ Len(s) \in Nat /\ Len(t) \in Nat
        /\ \A i \in 1 .. Len(s) : (s \o t)[i] = s[i]
        /\ \A i \in 1 .. Len(t) : (s \o t)[Len(s) + i] = t[i]
    BY ConcatAt
  <1> DEFINE a == CharsOf(s)
             b == CharsOf(t)
             c == CharsOf(s \o t)
  <1>2. /\ a \in Seq(Seq(AnyByte)) /\ Len(a) = Len(s)
        /\ \A i \in 1 .. Len(s) : a[i] = IF s[i].first THEN <<s[i]>> ELSE <<>>
    BY CharsOfSeq
  <1>3. /\ b \in Seq(Seq(AnyByte)) /\ Len(b) = Len(t)
        /\ \A i \in 1 .. Len(t) : b[i] = IF t[i].first THEN <<t[i]>> ELSE <<>>
    BY CharsOfSeq
  <1>4. /\ c \in Seq(Seq(AnyByte)) /\ Len(c) = Len(s \o t)
        /\ \A i \in 1 .. Len(s \o t) : c[i] = IF (s \o t)[i].first THEN <<(s \o t)[i]>> ELSE <<>>
    BY <1>1, CharsOfSeq
  <1> HIDE DEF a, b, c
  <1>5. /\ a \o b \in Seq(Seq(AnyByte)) /\ Len(a \o b) = Len(s) + Len(t)
        /\ \A i \in 1 .. Len(s) : (a \o b)[i] = a[i]
        /\ \A i \in 1 .. Len(t) : (a \o b)[Len(s) + i] = b[i]
    <2>1. /\ a \o b \in Seq(Seq(AnyByte)) /\ Len(a \o b) = Len(a) + Len(b)
          /\ \A i \in 1 .. Len(a) : (a \o b)[i] = a[i]
          /\ \A i \in 1 .. Len(b) : (a \o b)[Len(a) + i] = b[i]
      <3>1. a \in Seq(Seq(AnyByte)) /\ b \in Seq(Seq(AnyByte))
        BY <1>2, <1>3
      <3> QED  BY <3>1, ConcatAt
    <2> QED  BY <1>2, <1>3, <2>1
  <1>6. ASSUME NEW i \in 1 .. Len(s) + Len(t)  PROVE c[i] = (a \o b)[i]
    <2>1. CASE i <= Len(s)
      <3>1. i \in 1 .. Len(s) /\ i \in 1 .. Len(s \o t)
        BY <1>1, <2>1
      <3>2. c[i] = IF s[i].first THEN <<s[i]>> ELSE <<>>
        BY <1>1, <1>4, <3>1
      <3> QED  BY <1>2, <1>5, <3>1, <3>2
    <2>2. CASE ~(i <= Len(s))
      <3> DEFINE j == i - Len(s)
      <3>1. j \in 1 .. Len(t) /\ i \in 1 .. Len(s \o t) /\ i = Len(s) + j
        BY <1>1, <2>2
      <3> HIDE DEF j
      <3>2. (s \o t)[i] = t[j]
        BY <1>1, <3>1
      <3>3. c[i] = IF t[j].first THEN <<t[j]>> ELSE <<>>
        BY <1>4, <3>1, <3>2
      <3>4. (a \o b)[i] = b[j]
        BY <1>5, <3>1
      <3> QED  BY <1>3, <3>1, <3>3, <3>4
    <2> QED  BY <2>1, <2>2
  <1>7. c = a \o b
    <2>1. Len(c) = Len(a \o b)
      BY <1>1, <1>4, <1>5
    <2>2. \A i \in 1 .. Len(c) : c[i] = (a \o b)[i]
      BY <1>1, <1>4, <1>6
    <2> QED  BY <1>4, <1>5, <2>1, <2>2, SeqEqual
  <1>8. FlattenSeq(a \o b) = FlattenSeq(a) \o FlattenSeq(b)
    BY <1>2, <1>3, FlattenConcat
  <1> QED  BY <1>7, <1>8 DEF a, b, c, Chars, CharsOf

(* Bytes that all begin a character are their own text. *)
LEMMA CharsAll ==
    ASSUME NEW s \in Seq(AnyByte), \A i \in 1 .. Len(s) : s[i].first
    PROVE  Chars(s) = s
  <1>1. [i \in DOMAIN s |-> IF s[i].first THEN <<s[i]>> ELSE <<>>] = [i \in DOMAIN s |-> <<s[i]>>]
    <2>1. DOMAIN s = 1 .. Len(s)
      OBVIOUS
    <2> QED  BY <2>1
  <1> QED  BY <1>1, Singles DEF Chars

(* A text has at most as many characters as bytes. *)
LEMMA CharsSeq ==
    \A s \in Seq(AnyByte) : Chars(s) \in Seq(AnyByte) /\ Len(Chars(s)) <= Len(s)
  <1> DEFINE T == {s \in Seq(AnyByte) : Chars(s) \in Seq(AnyByte) /\ Len(Chars(s)) <= Len(s)}
  <1>1. <<>> \in T
    <2>1. Chars(<<>>) = <<>>
      <3>1. <<>> \in Seq(AnyByte) /\ \A i \in 1 .. Len(<<>>) : <<>>[i].first
        OBVIOUS
      <3> HIDE DEF T
      <3> QED  BY <3>1, CharsAll
    <2>2. <<>> \in Seq(AnyByte) /\ Len(<<>>) <= Len(<<>>)
      OBVIOUS
    <2> QED  BY <2>1, <2>2
  <1>2. ASSUME NEW s \in Seq(AnyByte), NEW x \in AnyByte, s \in T
        PROVE  Append(s, x) \in T
    <2>1. <<x>> \in Seq(AnyByte) /\ Append(s, x) = s \o <<x>>
      OBVIOUS
    <2>2. Chars(Append(s, x)) = Chars(s) \o Chars(<<x>>)
      BY <2>1, CharsConcat
    <2>3. Chars(<<x>>) \in Seq(AnyByte) /\ Len(Chars(<<x>>)) <= 1
      <3>1. Chars(<<x>>) = FlattenSeq(CharsOf(<<x>>))
        BY DEF Chars, CharsOf
      <3>2. CharsOf(<<x>>) = << IF x.first THEN <<x>> ELSE <<>> >>
        BY DEF CharsOf
      <3>3. (IF x.first THEN <<x>> ELSE <<>>) \in Seq(AnyByte)
        BY <2>1
      <3>4. Chars(<<x>>) = IF x.first THEN <<x>> ELSE <<>>
        BY <3>1, <3>2, <3>3, FlattenOne
      <3>5. Len(<<x>>) <= 1 /\ Len(<<>>) <= 1 /\ <<>> \in Seq(AnyByte)
        OBVIOUS
      <3> HIDE DEF T
      <3>6. CASE x.first
        BY <2>1, <3>4, <3>5, <3>6
      <3>7. CASE ~x.first
        BY <2>1, <3>4, <3>5, <3>7
      <3> QED  BY <3>6, <3>7
    <2>4. Chars(s) \in Seq(AnyByte) /\ Len(Chars(s)) <= Len(s) /\ Len(s) \in Nat
      BY <1>2
    <2>5. Len(Append(s, x)) = Len(s) + 1 /\ Append(s, x) \in Seq(AnyByte)
      OBVIOUS
    <2>6. /\ Chars(s) \o Chars(<<x>>) \in Seq(AnyByte)
          /\ Len(Chars(s) \o Chars(<<x>>)) = Len(Chars(s)) + Len(Chars(<<x>>))
          /\ Len(Chars(s)) \in Nat /\ Len(Chars(<<x>>)) \in Nat
      BY <2>3, <2>4, ConcatAt
    <2>7. Chars(Append(s, x)) \in Seq(AnyByte)
      BY <2>2, <2>6
    <2>8. Len(Chars(Append(s, x))) <= Len(Append(s, x))
      BY <2>2, <2>3, <2>4, <2>5, <2>6
    <2> QED  BY <2>5, <2>7, <2>8
  <1>3. Seq(AnyByte) \subseteq T
    <2> HIDE DEF T
    <2> QED  BY <1>1, <1>2, SeqInduct
  <1> QED  BY <1>3

-----------------------------------------------------------------------------
(* The stream of the messages. *)

Parcels(k) == [m \in DOMAIN sent |-> IF m > k THEN Bytes(m) ELSE <<>>]

(* The messages behind the k-th, one by one. *)
LEMMA ParcelsSeq ==
    ASSUME SentOK, NEW k \in Nat
    PROVE  /\ Parcels(k) \in Seq(Seq(AnyByte)) /\ Len(Parcels(k)) = Len(sent)
           /\ DOMAIN Parcels(k) = 1 .. Len(sent)
           /\ \A m \in 1 .. Len(sent) : Parcels(k)[m] = IF m > k THEN Bytes(m) ELSE <<>>
           /\ Stream(k) = FlattenSeq(Parcels(k)) /\ Stream(k) \in Seq(AnyByte)
  <1>1. Len(sent) \in Nat /\ DOMAIN sent = 1 .. Len(sent)
    BY SentFacts
  <1>2. \A m \in 1 .. Len(sent) : Parcels(k)[m] = IF m > k THEN Bytes(m) ELSE <<>>
    BY <1>1 DEF Parcels
  <1>3. \A m \in 1 .. Len(sent) : Parcels(k)[m] \in Seq(AnyByte)
    <2> TAKE m \in 1 .. Len(sent)
    <2>1. Bytes(m) \in Seq(AnyByte) /\ <<>> \in Seq(AnyByte)
      BY <1>1, BytesFacts
    <2> QED  BY <1>2, <2>1, Zenon
  <1>4. Parcels(k) \in [1 .. Len(sent) -> Seq(AnyByte)]
    <2>1. Parcels(k) = [m \in 1 .. Len(sent) |-> Parcels(k)[m]]
      BY <1>1 DEF Parcels
    <2> QED  BY <1>3, <2>1
  <1>5. Parcels(k) \in Seq(Seq(AnyByte)) /\ Len(Parcels(k)) = Len(sent) /\ DOMAIN Parcels(k) = 1 .. Len(sent)
    BY <1>1, <1>4, Written
  <1>6. Stream(k) = FlattenSeq(Parcels(k))
    BY DEF Stream, Parcels
  <1> QED  BY <1>2, <1>5, <1>6, Flattened

(* The stream behind k messages is the next one and the stream behind that. *)
LEMMA StreamStep ==
    ASSUME SentOK, NEW k \in Nat, k + 1 \in DOMAIN sent
    PROVE  Stream(k) = Bytes(k + 1) \o Stream(k + 1)
  <1> DEFINE n == Len(sent)
             p == Parcels(k)
             q == Parcels(k + 1)
             a == SubSeq(p, 1, k)
             b == SubSeq(p, 1, k + 1)
             c == SubSeq(p, k + 2, n)
             d == SubSeq(q, 1, k + 1)
             e == SubSeq(q, k + 2, n)
  <1>1. n \in Nat /\ k + 1 \in 1 .. n /\ k \in 0 .. n /\ k + 1 \in 0 .. n /\ k + 1 \in Nat /\ (k + 1) + 1 = k + 2
    BY SentFacts
  <1>2. /\ p \in Seq(Seq(AnyByte)) /\ Len(p) = n
        /\ \A m \in 1 .. n : p[m] = IF m > k THEN Bytes(m) ELSE <<>>
        /\ Stream(k) = FlattenSeq(p)
    BY ParcelsSeq
  <1>3. /\ q \in Seq(Seq(AnyByte)) /\ Len(q) = n
        /\ \A m \in 1 .. n : q[m] = IF m > k + 1 THEN Bytes(m) ELSE <<>>
        /\ Stream(k + 1) = FlattenSeq(q)
    BY <1>1, ParcelsSeq
  <1>4. Bytes(k + 1) \in Seq(AnyByte)
    BY BytesFacts
  <1> HIDE DEF n, p, q
  <1>5. a \in Seq(Seq(AnyByte)) /\ Len(a) = k /\ \A i \in 1 .. k : a[i] = p[i]
    BY <1>1, <1>2, TakeDrop
  <1>6. /\ b \in Seq(Seq(AnyByte)) /\ Len(b) = k + 1 /\ \A i \in 1 .. k + 1 : b[i] = p[i]
        /\ c \in Seq(Seq(AnyByte)) /\ Len(c) = n - (k + 1) /\ \A i \in 1 .. n - (k + 1) : c[i] = p[(k + 1) + i]
        /\ p = b \o c
    <2>1. k + 1 \in 0 .. Len(p)
      BY <1>1, <1>2
    <2>2. b \in Seq(Seq(AnyByte)) /\ Len(b) = k + 1 /\ \A i \in 1 .. k + 1 : b[i] = p[i]
      BY <1>1, <1>2, <2>1, TakeDrop, SMTT(60)
    <2>3. /\ c \in Seq(Seq(AnyByte)) /\ Len(c) = n - (k + 1)
          /\ \A i \in 1 .. n - (k + 1) : c[i] = p[(k + 1) + i]
      BY <1>1, <1>2, <2>1, TakeDrop, SMTT(60)
    <2>4. p = b \o c
      BY <1>1, <1>2, <2>1, TakeDrop, SMTT(60)
    <2> QED  BY <2>2, <2>3, <2>4
  <1>7. /\ d \in Seq(Seq(AnyByte)) /\ Len(d) = k + 1 /\ \A i \in 1 .. k + 1 : d[i] = q[i]
        /\ e \in Seq(Seq(AnyByte)) /\ Len(e) = n - (k + 1) /\ \A i \in 1 .. n - (k + 1) : e[i] = q[(k + 1) + i]
        /\ q = d \o e
    <2>1. k + 1 \in 0 .. Len(q)
      BY <1>1, <1>3
    <2>2. d \in Seq(Seq(AnyByte)) /\ Len(d) = k + 1 /\ \A i \in 1 .. k + 1 : d[i] = q[i]
      BY <1>1, <1>3, <2>1, TakeDrop, SMTT(60)
    <2>3. /\ e \in Seq(Seq(AnyByte)) /\ Len(e) = n - (k + 1)
          /\ \A i \in 1 .. n - (k + 1) : e[i] = q[(k + 1) + i]
      BY <1>1, <1>3, <2>1, TakeDrop, SMTT(60)
    <2>4. q = d \o e
      BY <1>1, <1>3, <2>1, TakeDrop, SMTT(60)
    <2> QED  BY <2>2, <2>3, <2>4
  <1> HIDE DEF a, b, c, d, e
  <1>8. FlattenSeq(a) = <<>>
    <2>1. \A i \in 1 .. k : a[i] = <<>>
      <3> TAKE i \in 1 .. k
      <3>1. i \in 1 .. n /\ ~(i > k)
        BY <1>1
      <3> QED  BY <1>2, <1>5, <3>1
    <2>2. DOMAIN a = 1 .. k
      BY <1>5
    <2> QED  BY <1>5, <2>1, <2>2, FlattenEmpties
  <1>9. FlattenSeq(d) = <<>>
    <2>1. \A i \in 1 .. k + 1 : d[i] = <<>>
      <3> TAKE i \in 1 .. k + 1
      <3>1. i \in 1 .. n /\ ~(i > k + 1)
        BY <1>1
      <3> QED  BY <1>3, <1>7, <3>1
    <2>2. DOMAIN d = 1 .. k + 1
      BY <1>7
    <2> QED  BY <1>7, <2>1, <2>2, FlattenEmpties
  <1>10. c = e
    <2>1. \A i \in 1 .. n - (k + 1) : c[i] = e[i]
      <3> TAKE i \in 1 .. n - (k + 1)
      <3>1. (k + 1) + i \in 1 .. n /\ (k + 1) + i > k /\ (k + 1) + i > k + 1
        BY <1>1
      <3>2. p[(k + 1) + i] = Bytes((k + 1) + i) /\ q[(k + 1) + i] = Bytes((k + 1) + i)
        BY <1>2, <1>3, <3>1
      <3> QED  BY <1>6, <1>7, <3>2
    <2>2. Len(c) = Len(e) /\ \A i \in 1 .. Len(c) : c[i] = e[i]
      BY <1>6, <1>7, <2>1
    <2> QED  BY <1>6, <1>7, <2>2, SeqEqual
  <1>11. FlattenSeq(b) = Bytes(k + 1)
    <2>1. b = Append(a, Bytes(k + 1))
      <3>1. k + 1 > k
        BY <1>1
      <3>2. b[k + 1] = Bytes(k + 1)
        BY <1>1, <1>2, <1>6, <3>1
      <3>3. Append(a, Bytes(k + 1)) \in Seq(Seq(AnyByte)) /\ Len(Append(a, Bytes(k + 1))) = k + 1
            /\ Append(a, Bytes(k + 1))[k + 1] = Bytes(k + 1)
            /\ \A i \in 1 .. k : Append(a, Bytes(k + 1))[i] = a[i]
        BY <1>4, <1>5
      <3>4. \A i \in 1 .. k + 1 : i = k + 1 \/ i \in 1 .. k
        BY <1>1
      <3>5. \A i \in 1 .. k : i \in 1 .. k + 1
        BY <1>1
      <3>6. \A i \in 1 .. k + 1 : b[i] = Append(a, Bytes(k + 1))[i]
        BY <1>5, <1>6, <3>2, <3>3, <3>4, <3>5
      <3> QED  BY <1>6, <3>3, <3>6, SeqEqual
    <2>2. FlattenSeq(b) = <<>> \o Bytes(k + 1)
      BY <1>4, <1>5, <1>8, <2>1, FlattenStep
    <2> QED  BY <1>4, <2>2
  <1>12. FlattenSeq(e) \in Seq(AnyByte)
    BY <1>7, Flattened
  <1>13. FlattenSeq(p) = Bytes(k + 1) \o FlattenSeq(e)
    BY <1>6, <1>10, <1>11, FlattenConcat
  <1>14. FlattenSeq(q) = FlattenSeq(e)
    <2>1. FlattenSeq(q) = <<>> \o FlattenSeq(e)
      BY <1>7, <1>9, FlattenConcat
    <2> QED  BY <1>12, <2>1
  <1> QED  BY <1>2, <1>3, <1>13, <1>14

(* Nothing is behind the last message. *)
LEMMA StreamEnd ==
    ASSUME SentOK
    PROVE  Stream(Len(sent)) = <<>>
  <1> DEFINE n == Len(sent)
  <1>1. n \in Nat /\ \A m \in 1 .. n : ~(m > n)
    BY SentFacts
  <1>2. /\ Parcels(n) \in Seq(Seq(AnyByte)) /\ DOMAIN Parcels(n) = 1 .. n
        /\ \A m \in 1 .. n : Parcels(n)[m] = IF m > n THEN Bytes(m) ELSE <<>>
        /\ Stream(n) = FlattenSeq(Parcels(n))
    BY <1>1, ParcelsSeq
  <1> HIDE DEF n
  <1>3. \A m \in DOMAIN Parcels(n) : Parcels(n)[m] = <<>>
    BY <1>1, <1>2
  <1>4. Stream(n) = <<>>
    BY <1>2, <1>3, FlattenEmpties
  <1> QED  BY <1>4 DEF n

(* The stream behind k messages has the bytes of the later ones. *)
LEMMA StreamRange ==
    ASSUME SentOK, NEW k \in Nat
    PROVE  /\ \A b \in Range(Stream(k)) : b.msg \in DOMAIN sent /\ b.msg > k
           /\ \A m \in DOMAIN sent : m > k => Range(Bytes(m)) \subseteq Range(Stream(k))
  <1>1. /\ Parcels(k) \in Seq(Seq(AnyByte)) /\ DOMAIN Parcels(k) = DOMAIN sent
        /\ \A m \in DOMAIN sent : Parcels(k)[m] = IF m > k THEN Bytes(m) ELSE <<>>
        /\ Stream(k) = FlattenSeq(Parcels(k))
    BY ParcelsSeq, SentFacts
  <1>2. ASSUME NEW b \in Range(Stream(k))
        PROVE  b.msg \in DOMAIN sent /\ b.msg > k
    <2>1. PICK m \in DOMAIN sent : b \in Range(Parcels(k)[m])
      BY <1>1, <1>2, Flattened
    <2>2. CASE m > k
      <3>1. b \in Range(Bytes(m))
        BY <1>1, <2>1, <2>2
      <3>2. PICK i \in DOMAIN Bytes(m) : b = Bytes(m)[i]
        BY <3>1 DEF Range
      <3>3. i \in 1 .. Len(Bytes(m)) /\ \A j \in 1 .. Len(Bytes(m)) : Bytes(m)[j].msg = m
        BY BytesFacts
      <3> QED  BY <2>2, <3>2, <3>3
    <2>3. CASE ~(m > k)
      <3>1. Parcels(k)[m] = <<>> /\ DOMAIN <<>> = {}
        BY <1>1, <2>3
      <3> QED  BY <2>1, <3>1 DEF Range
    <2> QED  BY <2>2, <2>3
  <1>3. ASSUME NEW m \in DOMAIN sent, m > k, NEW b \in Range(Bytes(m))
        PROVE  b \in Range(Stream(k))
    <2>1. b \in Range(Parcels(k)[m])
      BY <1>1, <1>3
    <2> QED  BY <1>1, <2>1, Flattened
  <1> QED  BY <1>2, <1>3

-----------------------------------------------------------------------------
(* What getMessage cuts off a buffer that begins with the message m. *)

HeadBytes(m) == Part(m, "head", HeaderLength) \o Part(m, "end", EndLength)

(* The header with its end, byte by byte. *)
LEMMA HeadBytesFacts ==
    ASSUME SentOK, NEW m \in DOMAIN sent
    PROVE  /\ HeadBytes(m) \in Seq(AnyByte) /\ Len(HeadBytes(m)) = HeadLength
           /\ Bytes(m) = HeadBytes(m) \o Body(m)
           /\ \A i \in 1 .. HeadLength : /\ HeadBytes(m)[i].msg = m /\ HeadBytes(m)[i].first
                                         /\ HeadBytes(m)[i].part = IF i <= HeaderLength THEN "head" ELSE "end"
  <1>0. m \in Nat /\ EndLength \in Nat /\ HeaderLength \in Nat
    BY SentFacts, HeadNat DEF EndLength
  <1>1. /\ Part(m, "head", HeaderLength) \in Seq(AnyByte) /\ Len(Part(m, "head", HeaderLength)) = HeaderLength
        /\ Part(m, "end", EndLength) \in Seq(AnyByte) /\ Len(Part(m, "end", EndLength)) = EndLength
    <2>1. IsPart(Part(m, "head", HeaderLength), m, "head", HeaderLength)
      BY <1>0, PartFacts
    <2>2. IsPart(Part(m, "end", EndLength), m, "end", EndLength)
      BY <1>0, PartFacts
    <2> QED  BY <2>1, <2>2 DEF IsPart
  <1>2. HeadBytes(m) \in Seq(AnyByte) /\ Len(HeadBytes(m)) = HeadLength
    BY <1>1, ConcatAt DEF HeadBytes, HeadLength
  <1>3. Bytes(m) = HeadBytes(m) \o Body(m)
    BY DEF Bytes, HeadBytes
  <1>4. Body(m) \in Seq(AnyByte)
    BY BodyFacts
  <1>5. \A i \in 1 .. HeadLength : Bytes(m)[i] = HeadBytes(m)[i]
    BY <1>2, <1>3, <1>4, ConcatAt
  <1> QED  BY <1>2, <1>3, <1>5, BytesFacts

(* A cut of a message is one of its header. *)
LEMMA HeadCut ==
    ASSUME SentOK, NEW m \in DOMAIN sent, NEW x, NEW w, NEW r, Cuts(x, w, Bytes(m), r)
    PROVE  Cuts(x, w, HeadBytes(m), Body(m) \o r)
  <1>1. HeadBytes(m) \in Seq(AnyByte) /\ Bytes(m) = HeadBytes(m) \o Body(m)
    BY HeadBytesFacts
  <1>2. Body(m) \in Seq(AnyByte)
    BY BodyFacts
  <1>3. x \in Seq(AnyByte) /\ w \in Seq(AnyByte) /\ r \in Seq(AnyByte) /\ x \o w = Bytes(m) \o r
    BY DEF Cuts
  <1>4. (HeadBytes(m) \o Body(m)) \o r = HeadBytes(m) \o (Body(m) \o r)
    BY <1>1, <1>2, <1>3, ConcatAssociative
  <1>5. Body(m) \o r \in Seq(AnyByte)
    BY <1>2, <1>3, ConcatAt
  <1> QED  BY <1>1, <1>3, <1>4, <1>5 DEF Cuts

(* No end of a header is found before it has been read. *)
LEMMA EndsShort ==
    ASSUME SentOK, NEW m \in DOMAIN sent, NEW x, NEW w, NEW r, Cuts(x, w, Bytes(m), r), Len(x) < HeadLength
    PROVE  EndsAt(Chars(x)) = {}
  <1> DEFINE h == HeadBytes(m)
             z == Body(m) \o r
  <1>0. /\ HeaderLength \in Nat /\ HeadLength = HeaderLength + 4 /\ EndLength = 4
        /\ x \in Seq(AnyByte) /\ Len(x) \in Nat
    BY CutsLen, HeadNat DEF EndLength
  <1>1. /\ h \in Seq(AnyByte) /\ Len(h) = HeadLength
        /\ \A i \in 1 .. HeadLength : h[i].first /\ h[i].part = IF i <= HeaderLength THEN "head" ELSE "end"
    BY HeadBytesFacts
  <1>2. Cuts(x, w, h, z)
    BY HeadCut
  <1> HIDE DEF h, z
  <1>3. \A i \in 1 .. Len(x) : x[i] = h[i] /\ i \in 1 .. HeadLength
    <2>1. \A i \in 1 .. Len(x) : i <= Len(h) => x[i] = h[i]
      BY <1>1, <1>2, PrefixSame
    <2>2. \A i \in 1 .. Len(x) : i <= HeadLength /\ i \in 1 .. HeadLength
      BY <1>0
    <2> QED  BY <1>1, <2>1, <2>2
  <1>4. Chars(x) = x
    BY <1>0, <1>1, <1>3, CharsAll
  <1>5. ASSUME NEW i \in EndsAt(x)  PROVE FALSE
    <2>1. i \in 0 .. Len(x) - 4 /\ x[i + 1].part = "end"
      BY <1>0, <1>5 DEF EndsAt
    <2>2. i + 1 \in 1 .. Len(x) /\ i + 1 <= HeaderLength
      BY <1>0, <2>1
    <2>3. x[i + 1].part = "head"
      BY <1>1, <1>3, <2>2
    <2> QED  BY <2>1, <2>3
  <1> QED  BY <1>4, <1>5

(* A header that has been read is found at its place, and its body is      *)
(* behind it.                                                              *)
LEMMA EndsLong ==
    ASSUME SentOK, NEW m \in DOMAIN sent, NEW x, NEW w, NEW r, Cuts(x, w, Bytes(m), r), HeadLength <= Len(x)
    PROVE  LET text == Chars(x)
               q    == SubSeq(x, HeadLength + 1, Len(x))
           IN  /\ EndsAt(text) # {} /\ Nearest(EndsAt(text)) = HeaderLength /\ text[1].msg = m
               /\ Cuts(q, w, Body(m), r) /\ Len(q) = Len(x) - HeadLength
               /\ SubSeq(text, HeadLength + 1, Len(text)) = Chars(q)
  <1> DEFINE h == HeadBytes(m)
             z == Body(m) \o r
             text == Chars(x)
             q == SubSeq(x, HeadLength + 1, Len(x))
             c == Chars(q)
  <1>0. /\ HeaderLength \in Nat /\ HeaderLength > 0 /\ HeadLength = HeaderLength + 4 /\ EndLength = 4
        /\ x \in Seq(AnyByte) /\ w \in Seq(AnyByte) /\ r \in Seq(AnyByte)
        /\ Len(x) \in Nat /\ HeadLength \in 0 .. Len(x)
    BY CutsLen, HeadNat DEF EndLength
  <1>1. /\ h \in Seq(AnyByte) /\ Len(h) = HeadLength
        /\ \A i \in 1 .. HeadLength : h[i].first /\ h[i].part = IF i <= HeaderLength THEN "head" ELSE "end"
        /\ \A i \in 1 .. HeadLength : h[i].msg = m
    BY HeadBytesFacts
  <1>2. Cuts(x, w, h, z)
    BY HeadCut
  <1> HIDE DEF h, z
  <1>3. q \in Seq(AnyByte) /\ x = h \o q /\ q \o w = z /\ Len(q) = Len(x) - HeadLength
    <2> HIDE DEF text, c, q
    <2>1. Len(h) <= Len(x) /\ Len(h) = HeadLength
      BY <1>1
    <2>2. q = SubSeq(x, Len(h) + 1, Len(x))
      BY <2>1 DEF q
    <2>3. Behind(q, x, w, h, z)
      BY <1>2, <2>1, <2>2, PrefixCut
    <2> QED  BY <2>1, <2>3 DEF Behind
  <1>4. Cuts(q, w, Body(m), r)
    <2>1. Body(m) \in Seq(AnyByte)
      BY BodyFacts
    <2> QED  BY <1>0, <1>3, <2>1 DEF Cuts, z
  <1> HIDE DEF q
  <1>5. c \in Seq(AnyByte)
    BY <1>3, CharsSeq
  <1>6. text = h \o c
    <2>1. Chars(h \o q) = Chars(h) \o Chars(q)
      BY <1>1, <1>3, CharsConcat
    <2>2. \A i \in 1 .. Len(h) : h[i].first
      BY <1>1
    <2>3. Chars(h) = h
      BY <1>1, <2>2, CharsAll
    <2> QED  BY <1>3, <2>1, <2>3
  <1>7. text \in Seq(AnyByte) /\ Len(text) = HeadLength + Len(c) /\ Len(c) \in Nat /\ Len(text) \in Nat
        /\ \A i \in 1 .. HeadLength : text[i] = h[i]
    <2> HIDE DEF text, c
    <2>1. h \in Seq(AnyByte) /\ c \in Seq(AnyByte) /\ HeadLength = Len(h) /\ HeadLength \in Nat
      BY <1>0, <1>1, <1>5
    <2>2. /\ h \o c \in Seq(AnyByte) /\ Len(h \o c) = Len(h) + Len(c) /\ Len(c) \in Nat
          /\ \A i \in 1 .. Len(h) : (h \o c)[i] = h[i]
      BY <2>1, ConcatAt
    <2> QED  BY <1>6, <2>1, <2>2
  <1>8. SubSeq(text, HeadLength + 1, Len(text)) = c
    <2> HIDE DEF text, c
    <2>1. Cuts(text, <<>>, h, c)
      <3>1. text \o <<>> = text /\ <<>> \in Seq(AnyByte)
        BY <1>7
      <3> QED  BY <1>1, <1>5, <1>6, <1>7, <3>1 DEF Cuts
    <2> DEFINE y == SubSeq(text, HeadLength + 1, Len(text))
    <2>2. Len(h) <= Len(text) /\ y = SubSeq(text, Len(h) + 1, Len(text))
      BY <1>0, <1>1, <1>7
    <2> HIDE DEF y
    <2>3. Behind(y, text, <<>>, h, c)
      BY <2>1, <2>2, PrefixCut
    <2>4. y \in Seq(AnyByte) /\ y \o <<>> = c
      BY <2>3 DEF Behind
    <2>5. y = c
      BY <2>4
    <2> QED  BY <2>5 DEF y
  <1> HIDE DEF text, c
  <1>9. HeaderLength \in EndsAt(text)
    <2>1. HeaderLength \in 0 .. Len(text) - EndLength
      BY <1>0, <1>7
    <2>2. ASSUME NEW j \in 1 .. EndLength  PROVE text[HeaderLength + j].part = "end"
      <3>1. HeaderLength + j \in 1 .. HeadLength /\ ~(HeaderLength + j <= HeaderLength)
        BY <1>0
      <3> QED  BY <1>1, <1>7, <3>1
    <2> QED  BY <2>1, <2>2 DEF EndsAt
  <1>10. ASSUME NEW i \in EndsAt(text)  PROVE i \in Nat /\ HeaderLength <= i
    <2>1. i \in 0 .. Len(text) - 4 /\ text[i + 1].part = "end"
      BY <1>0, <1>10 DEF EndsAt
    <2>2. ASSUME ~(HeaderLength <= i)  PROVE FALSE
      <3>1. i + 1 \in 1 .. HeadLength /\ i + 1 <= HeaderLength
        BY <1>0, <1>7, <2>1, <2>2
      <3>2. text[i + 1].part = "head"
        BY <1>1, <1>7, <3>1
      <3> QED  BY <2>1, <3>2
    <2> QED  BY <1>7, <2>1, <2>2
  <1>11. Nearest(EndsAt(text)) = HeaderLength
    <2> DEFINE n == Nearest(EndsAt(text))
    <2>1. n \in EndsAt(text) /\ \A j \in EndsAt(text) : n <= j
      BY <1>9, <1>10 DEF Nearest
    <2> HIDE DEF n
    <2>2. n \in Nat /\ n <= HeaderLength /\ HeaderLength <= n
      BY <1>9, <1>10, <2>1
    <2>3. n = HeaderLength
      BY <1>0, <2>2
    <2> QED  BY <2>3 DEF n
  <1>12. text[1].msg = m
    <2>1. 1 \in 1 .. HeadLength
      BY <1>0
    <2> QED  BY <1>1, <1>7, <2>1
  <1> QED  BY <1>3, <1>4, <1>8, <1>9, <1>11, <1>12 DEF text, q, c

(* Behind the header that has been read the body begins. *)
LEMMA BehindHead ==
    ASSUME SentOK, NEW m \in DOMAIN sent, NEW x, NEW w, NEW r, Cuts(x, w, Bytes(m), r), HeadLength <= Len(x),
           NEW q, q = SubSeq(x, HeadLength + 1, Len(x))
    PROVE  Cuts(q, w, Body(m), r) /\ Len(q) = Len(x) - HeadLength
  BY EndsLong

(* What a cut returns. *)
LEMMA CutFacts ==
    ASSUME NEW x, NEW h, NEW p, NEW n
    PROVE  /\ Cut(x, h, p, n).found
           /\ Cut(x, h, p, n).text = SubSeq(p, 1, n)
           /\ Cut(x, h, p, n).rest = SubSeq(x, h + EndLength + n + 1, Len(x))
  BY DEF Cut

(* The second piece is the beginning of the text behind the header; it ends *)
(* where a further header does, which is not in a body.                     *)
PieceOf(p, c) ==
    /\ p \in Seq(AnyByte) /\ Len(p) <= Len(c)
    /\ \A i \in 1 .. Len(p) : p[i] = c[i]
    /\ \A n \in 0 .. Len(c) : (\A i \in 1 .. n : c[i].part = "body") => n <= Len(p)

(* The piece of a text that a split returns. *)
LEMMA PieceFacts ==
    ASSUME NEW text, NEW from, NEW c \in Seq(AnyByte), SubSeq(text, from, Len(text)) = c
    PROVE  PieceOf(Piece(text, from), c)
  <1> DEFINE p == Piece(text, from)
  <1>0. Len(c) \in Nat
    OBVIOUS
  <1>1. p = IF EndsAt(c) = {} THEN c ELSE SubSeq(c, 1, Nearest(EndsAt(c)))
    BY DEF Piece
  <1> HIDE DEF p
  <1>2. CASE EndsAt(c) = {}
    <2>1. p = c
      BY <1>1, <1>2
    <2>2. PieceOf(c, c)
      BY <1>0 DEF PieceOf
    <2> QED  BY <2>1, <2>2 DEF p
  <1>3. CASE EndsAt(c) # {}
    <2> DEFINE e == Nearest(EndsAt(c))
    <2>1. EndsAt(c) \in SUBSET Nat
      BY <1>0 DEF EndsAt, EndLength
    <2>2. e \in EndsAt(c)
      BY <1>3, <2>1, Least DEF Nearest
    <2> HIDE DEF e
    <2>3. e \in 0 .. Len(c) - 4 /\ c[e + 1].part = "end"
      BY <2>2 DEF EndsAt, EndLength
    <2>4. e \in 0 .. Len(c)
      BY <1>0, <2>3
    <2>5. p = SubSeq(c, 1, e)
      BY <1>1, <1>3 DEF e
    <2>6. p \in Seq(AnyByte) /\ Len(p) = e /\ \A i \in 1 .. e : p[i] = c[i]
      BY <2>4, <2>5, TakeDrop
    <2>7. ASSUME NEW n \in 0 .. Len(c), \A i \in 1 .. n : c[i].part = "body"
          PROVE  n <= e
      <3>1. SUFFICES ASSUME e < n  PROVE FALSE
        BY <1>0, <2>4
      <3>2. e + 1 \in 1 .. n
        BY <1>0, <2>4, <3>1
      <3>3. c[e + 1].part = "body"
        BY <2>7, <3>2
      <3> QED  BY <2>3, <3>3
    <2>8. PieceOf(p, c)
      BY <1>0, <2>4, <2>6, <2>7 DEF PieceOf
    <2> QED  BY <2>8 DEF p
  <1> QED  BY <1>2, <1>3 DEF p

(* A header that has not arrived is waited for. *)
LEMMA MessageShort ==
    ASSUME SentOK, NEW m \in DOMAIN sent, NEW x, NEW w, NEW r, Cuts(x, w, Bytes(m), r), Len(x) < HeadLength
    PROVE  ~GetMessage(x).found
  <1>1. EndsAt(Chars(x)) = {}
    BY EndsShort
  <1>2. GetMessage(x) = Incomplete
    BY <1>1 DEF GetMessage
  <1> QED  BY <1>2 DEF Incomplete

(* Behind a header there is a message as soon as the piece has as many      *)
(* characters as the body has bytes.                                        *)
LEMMA MessageLong ==
    ASSUME SentOK, NEW m \in DOMAIN sent, NEW x, NEW w, NEW r, Cuts(x, w, Bytes(m), r), HeadLength <= Len(x)
    PROVE  LET n == Len(Body(m))
               q == SubSeq(x, HeadLength + 1, Len(x))
           IN  \E p :
                  /\ PieceOf(p, Chars(q))
                  /\ GetMessage(x) = IF n > Len(p) THEN Incomplete ELSE Cut(x, HeaderLength, p, n)
  <1> DEFINE text == Chars(x)
             q == SubSeq(x, HeadLength + 1, Len(x))
             c == Chars(q)
             p == Piece(text, HeadLength + 1)
             n == Len(Body(m))
  <1>1. EndsAt(text) # {} /\ Nearest(EndsAt(text)) = HeaderLength /\ text[1].msg = m
    BY EndsLong
  <1>2. q \in Seq(AnyByte) /\ SubSeq(text, HeadLength + 1, Len(text)) = c
    BY EndsLong, BehindHead, CutsLen
  <1>3. c \in Seq(AnyByte)
    BY <1>2, CharsSeq
  <1>4. HeaderLength + EndLength + 1 = HeadLength + 1
    BY DEF HeadLength
  <1>5. n = ContentLength(text[1].msg)
    BY <1>1 DEF ContentLength
  <1>6. GetMessage(x) = IF EndsAt(text) = {} \/ n > Len(p) THEN Incomplete ELSE Cut(x, HeaderLength, p, n)
    BY <1>1, <1>4, <1>5 DEF GetMessage
  <1> HIDE DEF text, q, c, n
  <1>7. PieceOf(p, c)
    BY <1>2, <1>3, PieceFacts
  <1> HIDE DEF p
  <1>8. GetMessage(x) = IF n > Len(p) THEN Incomplete ELSE Cut(x, HeaderLength, p, n)
    BY <1>1, <1>6
  <1> QED  BY <1>7, <1>8 DEF n, c, q

(* A message is cut off whole: what is left of the buffer is what the       *)
(* stream goes on with, and the text begins with a byte of the message.     *)
LEMMA MessageFound ==
    ASSUME SentOK, NEW m \in DOMAIN sent, NEW x, NEW w, NEW r, Cuts(x, w, Bytes(m), r), GetMessage(x).found
    PROVE  /\ Len(Bytes(m)) <= Len(x)
           /\ GetMessage(x).rest = SubSeq(x, Len(Bytes(m)) + 1, Len(x))
           /\ Head(GetMessage(x).text).msg = m
  <1> DEFINE n == Len(Body(m))
             q == SubSeq(x, HeadLength + 1, Len(x))
             c == Chars(q)
             b == Body(m)
  <1>0. /\ Len(x) \in Nat /\ HeadLength \in Nat /\ HeaderLength + EndLength = HeadLength
        /\ HeaderLength \in Nat /\ EndLength = 4
        /\ w \in Seq(AnyByte) /\ r \in Seq(AnyByte)
    BY CutsLen, HeadNat DEF HeadLength, EndLength
  <1>1. HeadLength <= Len(x)
    BY <1>0, MessageShort
  <1>2. PICK p : PieceOf(p, c) /\ GetMessage(x) = IF n > Len(p) THEN Incomplete ELSE Cut(x, HeaderLength, p, n)
    BY <1>1, MessageLong
  <1>3. /\ b \in Seq(AnyByte) /\ Len(b) = n /\ n \in Nat \ {0}
        /\ b[1].first /\ b[1].msg = m
    BY BodyFacts
  <1>5. Len(q) = Len(x) - HeadLength
    BY <1>1, BehindHead
  <1>6. Cuts(q, w, b, r)
    BY <1>1, BehindHead
  <1>4. q \in Seq(AnyByte)
    BY <1>6, CutsLen
  <1>7. Len(Bytes(m)) = HeadLength + n
    BY BytesFacts
  <1> HIDE DEF n, q, b
  <1>8. c \in Seq(AnyByte) /\ Len(c) <= Len(q)
    BY <1>4, CharsSeq
  <1>9. ~(n > Len(p))
    BY <1>2 DEF Incomplete
  <1>10. p \in Seq(AnyByte) /\ Len(p) \in Nat /\ Len(p) <= Len(c) /\ \A i \in 1 .. Len(p) : p[i] = c[i]
    BY <1>2 DEF PieceOf
  <1>11. n <= Len(p) /\ n <= Len(q) /\ 1 \in 1 .. Len(p) /\ Len(c) \in Nat /\ Len(q) \in Nat
    BY <1>0, <1>3, <1>4, <1>8, <1>9, <1>10
  <1>12. Len(Bytes(m)) <= Len(x)
    BY <1>0, <1>1, <1>3, <1>5, <1>7, <1>11
  <1>13. /\ GetMessage(x).rest = SubSeq(x, HeaderLength + EndLength + n + 1, Len(x))
         /\ GetMessage(x).text = SubSeq(p, 1, n)
    <2>1. GetMessage(x) = Cut(x, HeaderLength, p, n)
      BY <1>2, <1>9
    <2> QED  BY <2>1, CutFacts
  <1>14. HeaderLength + EndLength + n + 1 = Len(Bytes(m)) + 1
    BY <1>0, <1>3, <1>7
  <1>15. c[1] = q[1]
    <2> DEFINE y == SubSeq(q, 2, Len(q))
    <2>1. <<q[1]>> \in Seq(AnyByte) /\ q[1] \in AnyByte
      BY <1>4, <1>11, <1>3
    <2>2. y \in Seq(AnyByte) /\ q = <<q[1]>> \o y
      BY <1>4, <1>11, <1>3
    <2>3. q[1] = b[1]
      <3>1. 1 \in 1 .. Len(q) /\ 1 <= Len(b)
        BY <1>3, <1>11
      <3> QED  BY <1>6, <3>1, PrefixSame
    <2> HIDE DEF y, c
    <2>4. Chars(q) = Chars(<<q[1]>>) \o Chars(y)
      BY <2>1, <2>2, CharsConcat
    <2>5. Chars(<<q[1]>>) = <<q[1]>>
      <3>1. Len(<<q[1]>>) = 1 /\ <<q[1]>>[1].first
        BY <1>3, <2>3
      <3>2. \A i \in 1 .. Len(<<q[1]>>) : <<q[1]>>[i].first
        BY <3>1
      <3> QED  BY <2>1, <3>2, CharsAll
    <2>6. Chars(y) \in Seq(AnyByte)
      BY <2>2, CharsSeq
    <2>7. (<<q[1]>> \o Chars(y))[1] = q[1]
      BY <2>1, <2>6
    <2> QED  BY <2>4, <2>5, <2>7 DEF c
  <1>16. Head(SubSeq(p, 1, n)) = p[1]
    BY <1>3, <1>10, <1>11
  <1>17. b[1] = q[1]
    <2>1. 1 \in 1 .. Len(q) /\ 1 <= Len(b)
      BY <1>3, <1>11
    <2> QED  BY <1>6, <2>1, PrefixSame
  <1>18. Head(GetMessage(x).text).msg = m
    BY <1>3, <1>10, <1>11, <1>13, <1>15, <1>16, <1>17
  <1> QED  BY <1>12, <1>13, <1>14, <1>18

(* An ASCII message is found once all its bytes are there, and is read.     *)
LEMMA AsciiFound ==
    ASSUME SentOK, NEW m \in DOMAIN sent, NEW x, NEW w, NEW r, Cuts(x, w, Bytes(m), r), Len(Bytes(m)) <= Len(x), Ascii(m)
    PROVE  GetMessage(x).found /\ Parses(GetMessage(x).text)
  <1> DEFINE n == Len(Body(m))
             q == SubSeq(x, HeadLength + 1, Len(x))
             c == Chars(q)
             b == Body(m)
             y == SubSeq(q, Len(b) + 1, Len(q))
  <1>0. /\ Len(x) \in Nat /\ HeadLength \in Nat
        /\ w \in Seq(AnyByte) /\ r \in Seq(AnyByte)
    BY CutsLen, HeadNat
  <1>1. Len(Bytes(m)) = HeadLength + n /\ n \in Nat \ {0}
    BY BytesFacts, BodyFacts
  <1>2. HeadLength <= Len(x)
    BY <1>0, <1>1
  <1>3. PICK p : PieceOf(p, c) /\ GetMessage(x) = IF n > Len(p) THEN Incomplete ELSE Cut(x, HeaderLength, p, n)
    BY <1>2, MessageLong
  <1>4. /\ b \in Seq(AnyByte) /\ Len(b) = n /\ n = Len(sent[m])
        /\ \A i \in 1 .. n : b[i].first /\ b[i].msg = m /\ b[i].part = "body"
    BY BodyFacts
  <1>6. Len(q) = Len(x) - HeadLength
    BY <1>2, BehindHead
  <1>7. Cuts(q, w, b, r)
    BY <1>2, BehindHead
  <1>5. q \in Seq(AnyByte)
    BY <1>7, CutsLen
  <1> HIDE DEF n, q, b
  <1>8. n <= Len(q) /\ Len(b) <= Len(q)
    BY <1>0, <1>1, <1>4, <1>6
  <1>9. y = SubSeq(q, Len(b) + 1, Len(q))
    OBVIOUS
  <1> HIDE DEF y
  <1>10. y \in Seq(AnyByte) /\ q = b \o y
    <2>1. Behind(y, q, w, b, r)
      BY <1>7, <1>8, <1>9, PrefixCut
    <2> QED  BY <2>1 DEF Behind
  <1>11. c = b \o Chars(y) /\ Chars(y) \in Seq(AnyByte)
    <2>1. Chars(b \o y) = Chars(b) \o Chars(y)
      BY <1>4, <1>10, CharsConcat
    <2>2. \A i \in 1 .. Len(b) : b[i].first
      BY <1>4
    <2>3. Chars(b) = b
      BY <1>4, <2>2, CharsAll
    <2>4. Chars(y) \in Seq(AnyByte)
      BY <1>10, CharsSeq
    <2> QED  BY <1>10, <2>1, <2>3, <2>4
  <1> HIDE DEF c
  <1>12. Len(c) \in Nat /\ n <= Len(c) /\ \A i \in 1 .. n : c[i] = b[i]
    <2>1. /\ Len(b \o Chars(y)) = Len(b) + Len(Chars(y)) /\ Len(Chars(y)) \in Nat
          /\ \A i \in 1 .. Len(b) : (b \o Chars(y))[i] = b[i]
      BY <1>4, <1>11, ConcatAt
    <2> QED  BY <1>1, <1>4, <1>11, <2>1
  <1>13. /\ p \in Seq(AnyByte) /\ Len(p) \in Nat /\ \A i \in 1 .. Len(p) : p[i] = c[i]
         /\ n <= Len(p)
    <2>1. n \in 0 .. Len(c) /\ \A i \in 1 .. n : c[i].part = "body"
      BY <1>1, <1>4, <1>12
    <2> QED  BY <1>3, <2>1 DEF PieceOf
  <1>14. GetMessage(x) = Cut(x, HeaderLength, p, n)
    BY <1>1, <1>3, <1>13
  <1> DEFINE text == SubSeq(p, 1, n)
  <1>15. GetMessage(x).found /\ GetMessage(x).text = text
    BY <1>14, CutFacts
  <1>16. text \in Seq(AnyByte) /\ Len(text) = n /\ \A i \in 1 .. n : text[i] = p[i]
    <2>1. n \in 0 .. Len(p)
      BY <1>1, <1>13
    <2> QED  BY <1>13, <2>1, TakeDrop
  <1> HIDE DEF text
  <1>17. DOMAIN text = 1 .. n /\ text # <<>> /\ Head(text) = text[1] /\ 1 \in 1 .. n
    BY <1>1, <1>16
  <1>18. \A i \in 1 .. n : text[i].msg = m /\ text[i].part = "body"
    <2> TAKE i \in 1 .. n
    <2>1. i \in 1 .. Len(p)
      BY <1>1, <1>13
    <2> QED  BY <1>4, <1>12, <1>13, <1>16, <2>1
  <1>19. Head(text).msg = m
    BY <1>17, <1>18
  <1>20. Parses(text)
    BY <1>4, <1>16, <1>17, <1>18, <1>19 DEF Parses
  <1> QED  BY <1>15, <1>20

-----------------------------------------------------------------------------
(* A buffer and a wire that hold the stream behind the k-th message.        *)

Follows(x, w, k) ==
    /\ x \in Seq(AnyByte) /\ w \in Seq(AnyByte) /\ k \in 0 .. Len(sent)
    /\ x \o w = Stream(k)

(* Types and lengths of what follows the first k messages. *)
LEMMA FollowsSeq ==
    ASSUME SentOK, NEW x, NEW w, NEW k, Follows(x, w, k)
    PROVE  /\ x \in Seq(AnyByte) /\ w \in Seq(AnyByte) /\ k \in Nat /\ k <= Len(sent)
           /\ Len(x) \in Nat /\ Len(w) \in Nat /\ Stream(k) \in Seq(AnyByte)
           /\ Len(Stream(k)) = Len(x) + Len(w)
  <1>1. x \in Seq(AnyByte) /\ w \in Seq(AnyByte) /\ k \in Nat /\ k <= Len(sent)
    BY SentFacts DEF Follows
  <1>2. Len(x \o w) = Len(x) + Len(w) /\ Len(x) \in Nat /\ Len(w) \in Nat
    BY <1>1, ConcatAt
  <1>3. x \o w = Stream(k)
    BY DEF Follows
  <1>4. Stream(k) \in Seq(AnyByte)
    BY <1>1, ParcelsSeq
  <1> QED  BY <1>1, <1>2, <1>3, <1>4

(* What has been read and not taken begins with the next message. *)
LEMMA FollowsCuts ==
    ASSUME SentOK, NEW x, NEW w, NEW k, Follows(x, w, k), k # Len(sent)
    PROVE  k + 1 \in DOMAIN sent /\ Cuts(x, w, Bytes(k + 1), Stream(k + 1))
  <1>1. x \in Seq(AnyByte) /\ w \in Seq(AnyByte) /\ k \in Nat /\ k <= Len(sent)
    BY FollowsSeq
  <1>2. k + 1 \in DOMAIN sent /\ k + 1 \in Nat
    <2>1. Len(sent) \in Nat /\ DOMAIN sent = 1 .. Len(sent)
      BY SentFacts
    <2>2. k \in Nat /\ k <= Len(sent) /\ k # Len(sent)
      BY <1>1
    <2>3. \A n \in Nat : k <= n /\ k # n => k + 1 \in Nat /\ k + 1 \in 1 .. n
      BY <2>2
    <2>4. k + 1 \in Nat /\ k + 1 \in 1 .. Len(sent)
      BY <2>1, <2>2, <2>3
    <2> QED  BY <2>1, <2>4
  <1>3. Bytes(k + 1) \in Seq(AnyByte) /\ Stream(k + 1) \in Seq(AnyByte)
    BY <1>2, BytesFacts, ParcelsSeq
  <1>4. Stream(k) = Bytes(k + 1) \o Stream(k + 1)
    BY <1>1, <1>2, StreamStep
  <1>5. x \o w = Stream(k)
    BY DEF Follows
  <1>6. x \o w = Bytes(k + 1) \o Stream(k + 1)
    BY <1>4, <1>5
  <1> QED  BY <1>1, <1>2, <1>3, <1>6 DEF Cuts

(* Behind the last message nothing is left to read. *)
LEMMA FollowsEnd ==
    ASSUME SentOK, NEW x, NEW w, Follows(x, w, Len(sent))
    PROVE  x = <<>>
  <1>1. x \in Seq(AnyByte) /\ Len(x) \in Nat /\ Len(w) \in Nat /\ Len(Stream(Len(sent))) = Len(x) + Len(w)
    BY FollowsSeq
  <1>2. Len(Stream(Len(sent))) = 0
    BY StreamEnd
  <1>3. Len(x) = 0
    <2>1. Len(x) + Len(w) = 0
      BY <1>1, <1>2
    <2> QED  BY <1>1, <2>1
  <1> QED  BY <1>1, <1>3

(* What is on the wire belongs to messages behind the k-th one. *)
LEMMA FollowsWire ==
    ASSUME SentOK, NEW x, NEW w, NEW k, Follows(x, w, k)
    PROVE  \A i \in DOMAIN w : w[i].msg > k
  <1>1. x \in Seq(AnyByte) /\ w \in Seq(AnyByte) /\ k \in Nat
    BY FollowsSeq
  <1>2. Range(x \o w) = Range(x) \union Range(w)
    BY <1>1, RangeConcat
  <1>3. x \o w = Stream(k)
    BY DEF Follows
  <1>4. \A b \in Range(Stream(k)) : b.msg > k
    BY <1>1, StreamRange
  <1>5. \A i \in DOMAIN w : w[i] \in Range(w)
    BY DEF Range
  <1> QED  BY <1>2, <1>3, <1>4, <1>5

(* No message is in an empty buffer. *)
LEMMA NoMessage == ~GetMessage(<<>>).found
  <1>1. Chars(<<>>) = <<>>
    <2>1. <<>> \in Seq(AnyByte) /\ \A i \in 1 .. Len(<<>>) : <<>>[i].first
      OBVIOUS
    <2> QED  BY <2>1, CharsAll
  <1>2. EndsAt(<<>>) = {}
    <2>1. 0 .. Len(<<>>) - EndLength = {}
      BY DEF EndLength
    <2> QED  BY <2>1 DEF EndsAt
  <1>3. GetMessage(<<>>) = Incomplete
    BY <1>1, <1>2 DEF GetMessage
  <1> QED  BY <1>3 DEF Incomplete

(* The loop of append, once: the next message and no other is cut off.      *)
LEMMA NextMessage ==
    ASSUME SentOK, NEW x, NEW w, NEW k, Follows(x, w, k), GetMessage(x).found
    PROVE  /\ k + 1 \in DOMAIN sent
           /\ Follows(GetMessage(x).rest, w, k + 1)
           /\ Len(GetMessage(x).rest) < Len(x)
           /\ Head(GetMessage(x).text).msg = k + 1
           /\ ~Parses(GetMessage(x).text) => ~Ascii(k + 1)
  <1> DEFINE b == Bytes(k + 1)
             y == GetMessage(x).rest
             text == GetMessage(x).text
  <1>1. k # Len(sent)
    <2> SUFFICES ASSUME k = Len(sent)  PROVE FALSE
      OBVIOUS
    <2>1. x = <<>>
      BY FollowsEnd
    <2> QED  BY <2>1, NoMessage
  <1>2. k + 1 \in DOMAIN sent /\ Cuts(x, w, b, Stream(k + 1))
    BY <1>1, FollowsCuts
  <1>3. Len(b) <= Len(x) /\ y = SubSeq(x, Len(b) + 1, Len(x)) /\ Head(text).msg = k + 1
    BY <1>2, MessageFound
  <1>4. ~Parses(text) => ~Ascii(k + 1)
    BY <1>2, <1>3, AsciiFound
  <1>5. Len(b) \in Nat /\ Len(b) > 0
    <2>1. Len(b) = HeadLength + Len(Body(k + 1)) /\ Len(Body(k + 1)) \in Nat
      BY <1>2, BytesFacts, BodyFacts
    <2> QED  BY <2>1, HeadNat
  <1> HIDE DEF b, y, text
  <1>6. Behind(y, x, w, b, Stream(k + 1))
    BY <1>2, <1>3, PrefixCut
  <1>7. y \in Seq(AnyByte) /\ y \o w = Stream(k + 1) /\ Len(y) = Len(x) - Len(b)
    BY <1>6 DEF Behind
  <1>8. w \in Seq(AnyByte) /\ Len(x) \in Nat
    BY FollowsSeq
  <1>9. k + 1 \in 0 .. Len(sent)
    BY <1>2, SentFacts
  <1>10. Follows(y, w, k + 1)
    BY <1>7, <1>8, <1>9 DEF Follows
  <1>11. Len(y) < Len(x)
    BY <1>5, <1>7, <1>8
  <1> QED  BY <1>2, <1>3, <1>4, <1>10, <1>11 DEF b, y, text

(* While there are messages in the buffer that are not read, a message that *)
(* has arrived and is the next one is not ASCII.                            *)
LEMMA NextArrived ==
    ASSUME SentOK, NEW x, NEW w, NEW k, Follows(x, w, k), ~GetMessage(x).found,
           NEW m \in DOMAIN sent, m > k, \A i \in DOMAIN w : w[i].msg # m
    PROVE  /\ k + 1 \in DOMAIN sent /\ ~Ascii(k + 1)
           /\ \A i \in DOMAIN w : w[i].msg # k + 1
  <1> DEFINE b == Bytes(k + 1)
             s == Stream(k + 1)
  <1>0. k \in Nat /\ k <= Len(sent) /\ m \in 1 .. Len(sent) /\ Len(sent) \in Nat
    BY FollowsSeq, SentFacts
  <1>1. k # Len(sent)
    BY <1>0
  <1>2. k + 1 \in DOMAIN sent /\ Cuts(x, w, b, s)
    BY <1>1, FollowsCuts
  <1>3. Len(b) \in Nat /\ Len(b) > 0 /\ \A i \in 1 .. Len(b) : b[i].msg = k + 1
    <2>1. Len(b) = HeadLength + Len(Body(k + 1)) /\ Len(Body(k + 1)) \in Nat /\ \A i \in 1 .. Len(b) : b[i].msg = k + 1
      BY <1>2, BytesFacts, BodyFacts
    <2> QED  BY <2>1, HeadNat
  <1>4. m = k + 1 \/ Range(Bytes(m)) \subseteq Range(s)
    <2>1. m # k + 1 => m > k + 1
      BY <1>0
    <2> QED  BY <1>0, <2>1, StreamRange
  <1> HIDE DEF s
  <1>5. x \in Seq(AnyByte) /\ w \in Seq(AnyByte) /\ s \in Seq(AnyByte) /\ b \in Seq(AnyByte) /\ Len(x) \in Nat
    BY <1>2, CutsLen
  <1>6. Len(b) <= Len(x)
    <2> SUFFICES ASSUME Len(x) < Len(b)  PROVE FALSE
      BY <1>3, <1>5
    <2> DEFINE t == SubSeq(b, Len(x) + 1, Len(b))
    <2>1. Cuts(b, s, x, w)
      BY <1>2 DEF Cuts
    <2>2. Len(x) <= Len(b) /\ t = SubSeq(b, Len(x) + 1, Len(b))
      BY <1>3, <1>5
    <2> HIDE DEF t, b
    <2>3. Behind(t, b, s, x, w)
      BY <2>1, <2>2, PrefixCut
    <2>4. t \in Seq(AnyByte) /\ b = x \o t /\ t \o s = w /\ Len(t) = Len(b) - Len(x)
      BY <2>3 DEF Behind
    <2>5. Range(w) = Range(t) \union Range(s)
      <3>1. Range(t \o s) = Range(t) \union Range(s)
        <4>1. t \in Seq(AnyByte) /\ s \in Seq(AnyByte)
          BY <1>5, <2>4
        <4> QED  BY <4>1, RangeConcat
      <3> QED  BY <2>4, <3>1
    <2>6. CASE m = k + 1
      <3>1. Len(t) \in 1 .. Len(t) /\ DOMAIN t = 1 .. Len(t)
        BY <1>3, <1>5, <2>4
      <3>2. t[Len(t)] = b[Len(b)]
        <4>1. (x \o t)[Len(x) + Len(t)] = t[Len(t)]
          BY <1>5, <2>4, <3>1, ConcatAt
        <4>2. Len(x) + Len(t) = Len(b)
          BY <1>3, <1>5, <2>4
        <4> QED  BY <2>4, <4>1, <4>2
      <3>3. t[Len(t)] \in Range(w)
        BY <2>5, <3>1 DEF Range
      <3>4. t[Len(t)].msg = m
        BY <1>3, <2>6, <3>2
      <3> QED  BY <3>3, <3>4 DEF Range
    <2>7. CASE Range(Bytes(m)) \subseteq Range(s)
      <3>1. Bytes(m)[1] \in Range(Bytes(m)) /\ Bytes(m)[1].msg = m
        <4>1. Bytes(m) \in Seq(AnyByte) /\ 1 \in 1 .. Len(Bytes(m)) /\ \A i \in 1 .. Len(Bytes(m)) : Bytes(m)[i].msg = m
          <5>1. Len(Bytes(m)) = HeadLength + Len(Body(m)) /\ Len(Body(m)) \in Nat
            BY BytesFacts, BodyFacts
          <5> QED  BY <5>1, BytesFacts, HeadNat
        <4>2. DOMAIN Bytes(m) = 1 .. Len(Bytes(m))
          BY <4>1
        <4> QED  BY <4>1, <4>2 DEF Range
      <3>2. Bytes(m)[1] \in Range(w)
        BY <2>5, <2>7, <3>1
      <3> QED  BY <3>1, <3>2 DEF Range
    <2> QED  BY <1>4, <2>6, <2>7
  <1>7. ~Ascii(k + 1)
    BY <1>2, <1>6, AsciiFound
  <1>8. \A i \in DOMAIN w : w[i].msg # k + 1
    <2> DEFINE y == SubSeq(x, Len(b) + 1, Len(x))
    <2>1. y = SubSeq(x, Len(b) + 1, Len(x))
      OBVIOUS
    <2> HIDE DEF y, b
    <2>2. Behind(y, x, w, b, s)
      BY <1>2, <1>6, <2>1, PrefixCut
    <2>3. y \in Seq(AnyByte) /\ y \o w = s
      BY <2>2 DEF Behind
    <2>4. k + 1 \in 0 .. Len(sent)
      BY <1>2, SentFacts
    <2>5. Follows(y, w, k + 1)
      BY <1>5, <2>3, <2>4 DEF Follows, s
    <2>6. \A i \in DOMAIN w : w[i].msg > k + 1
      BY <2>5, FollowsWire
    <2> QED  BY <1>0, <2>6
  <1> QED  BY <1>2, <1>7, <1>8

-----------------------------------------------------------------------------
(* The loop of append, from end to end. *)


Reads(bytes, f, n) ==
    f = [i \in 0 .. n |-> IF i = 0 THEN [rest |-> bytes, got |-> <<>>, going |-> TRUE, thrown |-> FALSE]
                          ELSE ReadOn(f[i - 1])]

(* The recursion of GetMessages defines a function. *)
LEMMA ReadsExists ==
    ASSUME NEW bytes, NEW n \in Nat
    PROVE  \E f : Reads(bytes, f, n)
  <1> DEFINE start == [rest |-> bytes, got |-> <<>>, going |-> TRUE, thrown |-> FALSE]
             T == {m \in Nat : \E f : Reads(bytes, f, m)}
  <1>1. 0 \in T
    <2> DEFINE f == [i \in 0 .. 0 |-> start]
    <2>1. \A i \in 0 .. 0 : i = 0
      OBVIOUS
    <2>2. f = [i \in 0 .. 0 |-> IF i = 0 THEN start ELSE ReadOn(f[i - 1])]
      BY <2>1
    <2>3. Reads(bytes, f, 0)
      BY <2>2 DEF Reads
    <2> HIDE DEF f
    <2> QED  BY <2>3
  <1>2. ASSUME NEW m \in Nat, m \in T PROVE m + 1 \in T
    <2>1. PICK f : Reads(bytes, f, m)
      BY <1>2
    <2>2. \A i \in 0 .. m : f[i] = IF i = 0 THEN start ELSE ReadOn(f[i - 1])
      BY <2>1 DEF Reads
    <2> DEFINE g == [i \in 0 .. m + 1 |-> IF i <= m THEN f[i] ELSE ReadOn(f[i - 1])]
    <2>3. ASSUME NEW i \in 0 .. m + 1
          PROVE  g[i] = IF i = 0 THEN start ELSE ReadOn(g[i - 1])
      <3>1. i # 0 => i - 1 \in 0 .. m /\ i - 1 <= m /\ i - 1 \in 0 .. m + 1
        OBVIOUS
      <3>2. i # 0 => g[i - 1] = f[i - 1]
        BY <3>1
      <3>3. CASE i <= m
        <4>1. i \in 0 .. m /\ g[i] = f[i]
          BY <3>3
        <4>2. f[i] = IF i = 0 THEN start ELSE ReadOn(f[i - 1])
          BY <2>2, <4>1
        <4> HIDE DEF g, start
        <4> QED  BY <3>2, <4>1, <4>2
      <3>4. CASE ~(i <= m)
        <4>1. g[i] = ReadOn(f[i - 1]) /\ i # 0
          BY <3>4
        <4> HIDE DEF g, start
        <4> QED  BY <3>2, <4>1
      <3> QED  BY <3>3, <3>4
    <2>4. Reads(bytes, g, m + 1)
      <3>1. g = [i \in 0 .. m + 1 |-> g[i]]
        OBVIOUS
      <3>2. [i \in 0 .. m + 1 |-> g[i]] = [i \in 0 .. m + 1 |-> IF i = 0 THEN start ELSE ReadOn(g[i - 1])]
        <4> HIDE DEF g, start
        <4> QED  BY <2>3
      <3> HIDE DEF g
      <3> QED  BY <3>1, <3>2 DEF Reads
    <2> HIDE DEF g
    <2> QED  BY <2>4
  <1>3. Nat \subseteq T
    <2> HIDE DEF T
    <2> QED  BY <1>1, <1>2, Induct
  <1> QED  BY <1>3

(* GetMessages is the last value of its recursion. *)
LEMMA ReadsEnd ==
    ASSUME NEW bytes, Len(bytes) \in Nat
    PROVE  \E f : Reads(bytes, f, Len(bytes) + 1) /\ GetMessages(bytes) = f[Len(bytes) + 1]
  <1> DEFINE F == CHOOSE f : Reads(bytes, f, Len(bytes) + 1)
  <1>1. Reads(bytes, F, Len(bytes) + 1)
    <2>1. Len(bytes) + 1 \in Nat
      OBVIOUS
    <2> QED  BY <2>1, ReadsExists
  <1>2. GetMessages(bytes) = F[Len(bytes) + 1]
    BY DEF GetMessages, Reads
  <1> HIDE DEF F
  <1> QED  BY <1>1, <1>2

(* A message that has arrived makes the exception: it is not ASCII. *)
Blamed(w) == \E m \in DOMAIN sent : ~Ascii(m) /\ \A i \in DOMAIN w : w[i].msg # m

Readings == [rest : Seq(AnyByte), got : Seq(Nat), going : BOOLEAN, thrown : BOOLEAN]

(* What append has done after n turns of the loop with the bytes behind the *)
(* k-th message; it takes a byte at least in a turn.                        *)
ReadInv(read, w, k, n, length) ==
    /\ read \in Readings
    /\ read.thrown => ~read.going /\ read.got = <<>> /\ Blamed(w)
    /\ ~read.thrown => /\ Follows(read.rest, w, k + Len(read.got))
                       /\ \A i \in 1 .. Len(read.got) : read.got[i] = k + i
                       /\ read.going => Len(read.rest) + n <= length
                       /\ ~read.going => ~GetMessage(read.rest).found

(* One more turn of the loop takes the next message, stops or throws. *)
LEMMA ReadOnInv ==
    ASSUME SentOK, NEW read, NEW w, NEW k \in Nat, NEW n \in Nat, NEW length \in Nat,
           ReadInv(read, w, k, n, length)
    PROVE  ReadInv(ReadOn(read), w, k, n + 1, length)
  <1> DEFINE next == GetMessage(read.rest)
             j == k + Len(read.got)
  <1>0. read \in Readings /\ read.rest \in Seq(AnyByte) /\ read.got \in Seq(Nat) /\ Len(read.got) \in Nat
        /\ Len(read.rest) \in Nat
    BY DEF ReadInv, Readings
  <1>1. CASE ~read.going
    <2>1. ReadOn(read) = read
      BY <1>1 DEF ReadOn
    <2>2. ReadInv(read, w, k, n + 1, length)
      BY <1>1 DEF ReadInv
    <2> QED  BY <2>1, <2>2
  <1>2. CASE read.going /\ ~next.found
    <2> DEFINE result == [read EXCEPT !.going = FALSE]
    <2>1. ReadOn(read) = result
      BY <1>2 DEF ReadOn
    <2>2. /\ result \in Readings /\ result.rest = read.rest /\ result.got = read.got
          /\ result.thrown = read.thrown /\ ~result.going
      BY <1>0 DEF Readings
    <2> HIDE DEF result
    <2>3. ReadInv(result, w, k, n + 1, length)
      BY <1>2, <2>2 DEF ReadInv
    <2> QED  BY <2>1, <2>3
  <1>3. CASE read.going /\ next.found
    <2>1. ~read.thrown /\ Follows(read.rest, w, j) /\ Len(read.rest) + n <= length
          /\ \A i \in 1 .. Len(read.got) : read.got[i] = k + i
      BY <1>3 DEF ReadInv
    <2>2. /\ j + 1 \in DOMAIN sent
          /\ Follows(next.rest, w, j + 1)
          /\ Len(next.rest) < Len(read.rest)
          /\ Head(next.text).msg = j + 1
          /\ ~Parses(next.text) => ~Ascii(j + 1)
      BY <1>3, <2>1, NextMessage
    <2>3. next.rest \in Seq(AnyByte) /\ Len(next.rest) \in Nat /\ j \in Nat
      BY <1>0, <2>2, FollowsSeq
    <2>4. CASE ~Parses(next.text)
      <3> DEFINE result == [rest |-> next.rest, got |-> <<>>, going |-> FALSE, thrown |-> TRUE]
      <3>1. ReadOn(read) = result
        BY <1>3, <2>4 DEF ReadOn
      <3>2. result \in Readings /\ result.thrown /\ ~result.going /\ result.got = <<>>
        BY <2>3 DEF Readings
      <3>3. Blamed(w)
        <4>1. \A i \in DOMAIN w : w[i].msg > j + 1
          BY <2>2, FollowsWire
        <4>2. \A i \in DOMAIN w : w[i].msg # j + 1
          BY <2>3, <4>1
        <4> QED  BY <2>2, <2>4, <4>2 DEF Blamed
      <3> HIDE DEF result
      <3>4. ReadInv(result, w, k, n + 1, length)
        BY <3>2, <3>3 DEF ReadInv
      <3> QED  BY <3>1, <3>4
    <2>5. CASE Parses(next.text)
      <3> DEFINE result == [read EXCEPT !.rest = next.rest, !.got = Append(@, Head(next.text).msg)]
                 got == Append(read.got, j + 1)
      <3>1. ReadOn(read) = result
        BY <1>3, <2>5 DEF ReadOn
      <3>2. got \in Seq(Nat) /\ Len(got) = Len(read.got) + 1
            /\ \A i \in 1 .. Len(got) : got[i] = IF i = Len(got) THEN j + 1 ELSE read.got[i]
        <4>1. read.got \in Seq(Nat) /\ j + 1 \in Nat
          BY <1>0, <2>3
        <4> QED  BY <4>1, AppendAt
      <3>3. /\ result \in Readings /\ result.rest = next.rest /\ result.got = got
            /\ ~result.thrown /\ result.going
        <4>1. Append(read.got, Head(next.text).msg) = got
          BY <2>2
        <4> HIDE DEF got
        <4> QED  BY <1>0, <1>3, <2>1, <2>3, <3>2, <4>1 DEF Readings
      <3> HIDE DEF result, got
      <3>4. k + Len(got) = j + 1
        BY <1>0, <3>2
      <3>5. \A i \in 1 .. Len(got) : got[i] = k + i
        <4> TAKE i \in 1 .. Len(got)
        <4>1. CASE i = Len(got)
          BY <3>2, <3>4, <4>1
        <4>2. CASE i # Len(got)
          <5>1. i \in 1 .. Len(read.got)
            BY <1>0, <3>2, <4>2
          <5> QED  BY <2>1, <3>2, <4>2, <5>1
        <4> QED  BY <4>1, <4>2
      <3>6. Len(next.rest) + (n + 1) <= length
        <4>1. \A a, b \in Nat : a < b /\ b + n <= length => a + (n + 1) <= length
          OBVIOUS
        <4> QED  BY <1>0, <2>1, <2>2, <2>3, <4>1
      <3>7. ReadInv(result, w, k, n + 1, length)
        <4> HIDE DEF j, next
        <4> QED  BY <2>2, <3>3, <3>4, <3>5, <3>6 DEF ReadInv
      <3> QED  BY <3>1, <3>7
    <2> QED  BY <2>4, <2>5
  <1>4. next.found \in BOOLEAN /\ read.going \in BOOLEAN
    BY <1>0 DEF Readings, GetMessage, Incomplete, Cut
  <1> QED  BY <1>1, <1>2, <1>3

(* All of append. *)
LEMMA GetMessagesInv ==
    ASSUME SentOK, NEW x, NEW w, NEW k \in Nat, Follows(x, w, k)
    PROVE  /\ ReadInv(GetMessages(x), w, k, Len(x) + 1, Len(x))
           /\ ~GetMessages(x).going
  <1> DEFINE l == Len(x)
             start == [rest |-> x, got |-> <<>>, going |-> TRUE, thrown |-> FALSE]
  <1>1. x \in Seq(AnyByte) /\ l \in Nat
    BY FollowsSeq
  <1>2. PICK f : Reads(x, f, l + 1) /\ GetMessages(x) = f[l + 1]
    BY <1>1, ReadsEnd
  <1>3. \A i \in 0 .. l + 1 : f[i] = IF i = 0 THEN start ELSE ReadOn(f[i - 1])
    BY <1>2 DEF Reads
  <1>4. ReadInv(start, w, k, 0, l)
    <2>1. /\ start.rest = x /\ start.got = <<>> /\ start.going /\ ~start.thrown /\ start \in Readings
      BY <1>1 DEF Readings
    <2> HIDE DEF start
    <2>2. Len(<<>>) = 0 /\ k + 0 = k
      OBVIOUS
    <2> QED  BY <1>1, <2>1, <2>2 DEF ReadInv
  <1> HIDE DEF start, l
  <1> DEFINE T == {i \in Nat : i <= l + 1 => ReadInv(f[i], w, k, i, l)}
  <1>5. 0 \in T
    <2>1. 0 \in 0 .. l + 1
      BY <1>1
    <2> QED  BY <1>3, <1>4, <2>1
  <1>6. ASSUME NEW i \in Nat, i \in T  PROVE i + 1 \in T
    <2> SUFFICES ASSUME i + 1 <= l + 1  PROVE ReadInv(f[i + 1], w, k, i + 1, l)
      OBVIOUS
    <2>1. i <= l + 1 /\ i + 1 \in 0 .. l + 1 /\ i + 1 # 0 /\ (i + 1) - 1 = i
      BY <1>1
    <2>2. ReadInv(f[i], w, k, i, l)
      BY <1>6, <2>1
    <2>3. f[i + 1] = ReadOn(f[i])
      <3>1. f[i + 1] = IF i + 1 = 0 THEN start ELSE ReadOn(f[(i + 1) - 1])
        BY <1>3, <2>1
      <3> QED  BY <2>1, <3>1, Zenon
    <2> QED  BY <1>1, <2>2, <2>3, ReadOnInv
  <1>7. Nat \subseteq T
    <2> HIDE DEF T
    <2> QED  BY <1>5, <1>6, Induct
  <1>8. ReadInv(f[l + 1], w, k, l + 1, l)
    <2>1. l + 1 \in Nat /\ l + 1 <= l + 1
      BY <1>1
    <2> QED  BY <1>7, <2>1
  <1> HIDE DEF T
  <1>9. ~f[l + 1].going
    <2> SUFFICES ASSUME f[l + 1].going  PROVE FALSE
      OBVIOUS
    <2>1. f[l + 1].rest \in Seq(AnyByte)
      BY <1>8 DEF ReadInv, Readings
    <2>2. Len(f[l + 1].rest) + (l + 1) <= l
      BY <1>8 DEF ReadInv
    <2>3. Len(f[l + 1].rest) \in Nat
      BY <2>1
    <2>4. \A a \in Nat : ~(a + (l + 1) <= l)
      BY <1>1
    <2> QED  BY <2>2, <2>3, <2>4
  <1> QED  BY <1>2, <1>8, <1>9 DEF l

-----------------------------------------------------------------------------
(* The messages arrive, however the stream is cut. *)

BufferInv ==
    /\ SentOK /\ messages \in Seq(Nat) /\ thrown \in BOOLEAN
    /\ ~thrown => /\ Follows(buffer, wire, Len(messages))
                  /\ \A i \in 1 .. Len(messages) : messages[i] = i
                  /\ ~GetMessage(buffer).found
    /\ thrown => Blamed(wire)

(* The messages that are sent do not change: nor do their bodies. *)
LEMMA SameBody ==
    ASSUME sent' = sent, NEW m
    PROVE  Body(m)' = Body(m)
  BY DEF Body

(* Nor do their bytes. *)
LEMMA SameBytes ==
    ASSUME sent' = sent, NEW m
    PROVE  Bytes(m)' = Bytes(m)
  <1>1. Body(m)' = Body(m)
    BY SameBody
  <1> QED  BY <1>1 DEF Bytes

(* Nothing has been read at first. *)
LEMMA BufferInit == Init => BufferInv
  <1> SUFFICES ASSUME Init  PROVE BufferInv
    OBVIOUS
  <1>1. SentOK
    <2>1. sent \in SeqOf(Bodies, MaxMessages)
      BY DEF Init
    <2>2. PICK n \in 0 .. MaxMessages : sent \in [1 .. n -> Bodies]
      BY <2>1 DEF SeqOf
    <2>3. n \in Nat
      BY BoundAssumption
    <2> QED  BY <2>2, <2>3, Written DEF SentOK
  <1>2. messages = <<>> /\ buffer = <<>> /\ thrown = FALSE /\ wire = Stream(0)
    BY DEF Init
  <1>3. Len(messages) = 0 /\ messages \in Seq(Nat) /\ buffer \in Seq(AnyByte)
    BY <1>2
  <1>4. Stream(0) \in Seq(AnyByte)
    BY <1>1, ParcelsSeq
  <1>5. <<>> \o Stream(0) = Stream(0)
    BY <1>4
  <1>6. 0 \in 0 .. Len(sent)
    BY <1>1, SentFacts
  <1>7. Follows(buffer, wire, Len(messages))
    BY <1>2, <1>3, <1>4, <1>5, <1>6 DEF Follows
  <1>8. \A i \in 1 .. Len(messages) : messages[i] = i
    BY <1>3
  <1>9. ~GetMessage(buffer).found
    BY <1>2, NoMessage
  <1> QED  BY <1>1, <1>2, <1>3, <1>7, <1>8, <1>9 DEF BufferInv

(* A read is put behind the buffer, and all that is whole is taken from it. *)
LEMMA BufferNext ==
    ASSUME BufferInv, OnInput
    PROVE  BufferInv'
  <1> DEFINE k == Len(messages)
  <1>1. SentOK /\ messages \in Seq(Nat) /\ sent' = sent
    BY DEF BufferInv, OnInput
  <1>2. /\ Follows(buffer, wire, k) /\ k \in Nat
        /\ \A i \in 1 .. k : messages[i] = i
    BY DEF BufferInv, OnInput
  <1>3. PICK n \in 1 .. Len(wire) :
           LET result == GetMessages(buffer \o SubSeq(wire, 1, n))
           IN /\ wire' = SubSeq(wire, n + 1, Len(wire))
              /\ buffer' = result.rest
              /\ messages' = messages \o result.got
              /\ thrown' = result.thrown
    BY DEF OnInput
  <1> DEFINE chunk == SubSeq(wire, 1, n)
             left == SubSeq(wire, n + 1, Len(wire))
             x == buffer \o chunk
             result == GetMessages(x)
  <1>4. /\ wire' = left /\ buffer' = result.rest /\ messages' = messages \o result.got
        /\ thrown' = result.thrown
    BY <1>3
  <1>5. /\ buffer \in Seq(AnyByte) /\ wire \in Seq(AnyByte) /\ Len(wire) \in Nat
        /\ k \in 0 .. Len(sent) /\ buffer \o wire = Stream(k)
    BY <1>1, <1>2, FollowsSeq DEF Follows
  <1>6. chunk \in Seq(AnyByte) /\ left \in Seq(AnyByte) /\ wire = chunk \o left
    <2>1. n \in 0 .. Len(wire)
      BY <1>5
    <2> QED  BY <1>5, <2>1, TakeDrop
  <1> HIDE DEF chunk, left, result, k
  <1>7. Follows(x, left, k)
    <2>1. x \o left = buffer \o (chunk \o left)
      <3>1. buffer \in Seq(AnyByte) /\ chunk \in Seq(AnyByte) /\ left \in Seq(AnyByte)
        BY <1>5, <1>6
      <3> QED  BY <3>1, ConcatAssociative
    <2>2. x \in Seq(AnyByte)
      BY <1>5, <1>6, ConcatAt
    <2>3. x \o left = Stream(k)
      BY <1>5, <1>6, <2>1
    <2> HIDE DEF x
    <2> QED  BY <1>5, <1>6, <2>2, <2>3 DEF Follows
  <1> HIDE DEF x
  <1>8. ReadInv(result, left, k, Len(x) + 1, Len(x)) /\ ~result.going
    BY <1>1, <1>2, <1>7, GetMessagesInv DEF result
  <1>9. result \in Readings /\ result.got \in Seq(Nat) /\ result.thrown \in BOOLEAN
        /\ Len(result.got) \in Nat
    BY <1>8 DEF ReadInv, Readings
  <1>10. SentOK' /\ (messages \in Seq(Nat))' /\ (thrown \in BOOLEAN)'
    <2>1. messages \o result.got \in Seq(Nat)
      BY <1>1, <1>9, ConcatAt
    <2> QED  BY <1>1, <1>4, <1>9, <2>1 DEF SentOK
  <1>11. ASSUME ~thrown'
         PROVE  /\ Follows(buffer, wire, Len(messages))'
                /\ (\A i \in 1 .. Len(messages) : messages[i] = i)'
                /\ ~GetMessage(buffer)'.found
    <2> DEFINE j == k + Len(result.got)
    <2>1. /\ Follows(result.rest, left, j)
          /\ \A i \in 1 .. Len(result.got) : result.got[i] = k + i
          /\ ~GetMessage(result.rest).found
      BY <1>4, <1>8, <1>11 DEF ReadInv
    <2>2. /\ Len(messages \o result.got) = j
          /\ \A i \in 1 .. k : (messages \o result.got)[i] = messages[i]
          /\ \A i \in 1 .. Len(result.got) : (messages \o result.got)[k + i] = result.got[i]
      BY <1>1, <1>9, ConcatAt DEF k
    <2>3. Len(messages') = j
      BY <1>4, <2>2
    <2>4. Follows(buffer', wire', j)
      BY <1>4, <2>1
    <2>5. Follows(buffer, wire, Len(messages))'
      <3>1. Stream(Len(messages))' = Stream(j)
        <4>1. \A m : Bytes(m)' = Bytes(m)
          BY <1>1, SameBytes
        <4> HIDE DEF j
        <4> QED  BY <1>1, <2>3, <4>1 DEF Stream
      <3>2. /\ buffer' \in Seq(AnyByte) /\ wire' \in Seq(AnyByte) /\ j \in 0 .. Len(sent)
            /\ buffer' \o wire' = Stream(j)
        BY <2>4 DEF Follows
      <3> HIDE DEF j
      <3> QED  BY <1>1, <2>3, <3>1, <3>2 DEF Follows
    <2>6. \A i \in 1 .. j : messages'[i] = i
      <3> TAKE i \in 1 .. j
      <3>1. CASE i <= k
        <4>1. i \in 1 .. k
          BY <1>2, <1>9, <3>1
        <4> QED  BY <1>2, <1>4, <2>2, <4>1
      <3>2. CASE ~(i <= k)
        <4>1. i - k \in 1 .. Len(result.got) /\ k + (i - k) = i
          BY <1>2, <1>9, <3>2
        <4>2. (messages \o result.got)[k + (i - k)] = result.got[i - k]
          BY <2>2, <4>1
        <4>3. result.got[i - k] = k + (i - k)
          BY <2>1, <4>1
        <4> QED  BY <1>4, <4>1, <4>2, <4>3
      <3> QED  BY <3>1, <3>2
    <2>7. ~GetMessage(buffer').found
      BY <1>4, <2>1
    <2>8. GetMessage(buffer)' = GetMessage(buffer')
      BY <1>1 DEF GetMessage, ContentLength, Body
    <2> QED  BY <2>3, <2>5, <2>6, <2>7, <2>8
  <1>12. ASSUME thrown'  PROVE Blamed(wire)'
    <2>1. Blamed(left)
      BY <1>4, <1>8, <1>12 DEF ReadInv
    <2> QED  BY <1>1, <1>4, <2>1 DEF Blamed, Ascii
  <1> QED  BY <1>10, <1>11, <1>12 DEF BufferInv

(* The invariant is about these variables alone. *)
LEMMA BufferStutter ==
    ASSUME BufferInv, UNCHANGED vars
    PROVE  BufferInv'
  BY DEF BufferInv, vars, SentOK, Blamed, Ascii, Follows, Stream, Bytes, Part, Byte, Body, GetMessage, ContentLength

(* The buffer begins where the next message does, in every state. *)
LEMMA BufferCorrect == InputSpec => []BufferInv
  <1>1. BufferInv /\ [OnInput]_vars => BufferInv'
    BY BufferNext, BufferStutter
  <1> QED  BY BufferInit, <1>1, PTL DEF InputSpec

(* From the invariant: the ASCII messages that are whole have been taken. *)
LEMMA ArrivesWhen == BufferInv => MessagesArrive
  <1> SUFFICES ASSUME BufferInv, \A m \in Complete : Ascii(m)
               PROVE  /\ ~thrown
                      /\ messages = [m \in 1 .. Len(messages) |-> m]
                      /\ Complete = 1 .. Len(messages)
    BY DEF MessagesArrive
  <1> DEFINE k == Len(messages)
  <1>1. SentOK /\ messages \in Seq(Nat) /\ thrown \in BOOLEAN /\ k \in Nat
    BY DEF BufferInv
  <1>2. ~thrown
    <2> SUFFICES ASSUME thrown  PROVE FALSE
      OBVIOUS
    <2>1. PICK m \in DOMAIN sent : ~Ascii(m) /\ \A i \in DOMAIN wire : wire[i].msg # m
      BY DEF BufferInv, Blamed
    <2>2. m \in Complete
      BY <2>1 DEF Complete, Arrived
    <2> QED  BY <2>1, <2>2
  <1>3. Follows(buffer, wire, k) /\ ~GetMessage(buffer).found /\ \A i \in 1 .. k : messages[i] = i
    BY <1>2 DEF BufferInv
  <1>4. messages = [m \in 1 .. k |-> m]
    <2>1. messages = [m \in 1 .. k |-> messages[m]]
      BY <1>1
    <2> QED  BY <1>3, <2>1
  <1> HIDE DEF k
  <1>5. k <= Len(sent) /\ Len(sent) \in Nat /\ DOMAIN sent = 1 .. Len(sent)
    BY <1>1, <1>3, FollowsSeq, SentFacts
  <1>6. ASSUME NEW m \in 1 .. k  PROVE m \in Complete
    <2>1. \A i \in DOMAIN wire : wire[i].msg > k
      BY <1>1, <1>3, FollowsWire
    <2>2. \A i \in DOMAIN wire : wire[i].msg # m
      BY <1>1, <2>1
    <2>3. m \in DOMAIN sent
      BY <1>1, <1>5
    <2> QED  BY <2>2, <2>3 DEF Complete, Arrived
  <1>7. ASSUME NEW m \in Complete  PROVE m \in 1 .. k
    <2>1. m \in DOMAIN sent /\ \A i \in DOMAIN wire : wire[i].msg # m
      BY <1>7 DEF Complete, Arrived
    <2>2. SUFFICES ASSUME m > k  PROVE FALSE
      BY <1>1, <1>5, <2>1
    <2>3. /\ k + 1 \in DOMAIN sent /\ ~Ascii(k + 1)
          /\ \A i \in DOMAIN wire : wire[i].msg # k + 1
      BY <1>1, <1>3, <2>1, <2>2, NextArrived
    <2>4. k + 1 \in Complete
      BY <2>3 DEF Complete, Arrived
    <2> QED  BY <2>3, <2>4
  <1> QED  BY <1>2, <1>4, <1>6, <1>7 DEF k

(* From the invariant: the buffer is what has arrived and was not taken. *)
LEMMA AlignedWhen == BufferInv => FramesAligned
  <1> SUFFICES ASSUME BufferInv, ~thrown  PROVE buffer = Unread
    BY DEF FramesAligned
  <1> DEFINE s == Stream(Len(messages))
             n == Len(buffer)
             front == SubSeq(s, 1, n)
  <1>1. SentOK /\ Follows(buffer, wire, Len(messages))
    BY DEF BufferInv
  <1>2. /\ buffer \in Seq(AnyByte) /\ wire \in Seq(AnyByte) /\ n \in Nat /\ Len(wire) \in Nat
        /\ s \in Seq(AnyByte) /\ Len(s) = n + Len(wire)
    BY <1>1, FollowsSeq
  <1>3. s = buffer \o wire
    BY <1>1 DEF Follows
  <1>4. Len(s) - Len(wire) = n
    BY <1>2
  <1>5. Unread = front
    BY <1>4 DEF Unread
  <1> HIDE DEF s
  <1>6. n \in 0 .. Len(s)
    BY <1>2
  <1>7. front \in Seq(AnyByte) /\ Len(front) = n /\ \A i \in 1 .. n : front[i] = s[i]
    BY <1>2, <1>6, TakeDrop
  <1> HIDE DEF front
  <1>8. \A i \in 1 .. n : s[i] = buffer[i]
    BY <1>2, <1>3, ConcatAt
  <1>9. buffer = front
    BY <1>2, <1>7, <1>8, SeqEqual
  <1> QED  BY <1>5, <1>9

-----------------------------------------------------------------------------
(* The theorems about the messages of the client. *)

(* As long as every message that has arrived whole is ASCII, each of them  *)
(* has been handed on, once, in order and nothing else, and nothing has    *)
(* been thrown: for any messages, any length of the header and any cuts of *)
(* the stream into reads.                                                  *)
THEOREM ArriveCorrect == InputSpec => []MessagesArrive
  BY BufferCorrect, ArrivesWhen, PTL

(* Until an exception the buffer begins with the first byte of the message *)
(* after the last one taken: no message, ASCII or not, leaves a byte       *)
(* behind or takes one of the next.                                        *)
THEOREM FramesCorrect == InputSpec => []FramesAligned
  BY BufferCorrect, AlignedWhen, PTL

-----------------------------------------------------------------------------
(* The names of functions. *)

Tokens == Words \union Marks

(* The two loops, of which the state after each token is followed. *)
Step(engine, seen, token) ==
    IF engine = "lldb" THEN LLDBStep(seen, token) ELSE DbgEngStep(seen, token)

Runs(engine, name, f) ==
    f = [n \in 0 .. Len(name) |-> IF n = 0 THEN Nothing ELSE Step(engine, f[n - 1], name[n])]

Reaches(engine, name, seen) == \E f : Runs(engine, name, f) /\ f[Len(name)] = seen

(* Before the first token nothing has been kept. *)
LEMMA ReachesNothing ==
    ASSUME NEW engine
    PROVE  Reaches(engine, <<>>, Nothing)
  <1> DEFINE f == [n \in 0 .. 0 |-> Nothing]
  <1>1. \A n \in 0 .. 0 : n = 0
    OBVIOUS
  <1>2. Len(<<>>) = 0
    OBVIOUS
  <1>3. f = [n \in 0 .. 0 |-> IF n = 0 THEN Nothing ELSE Step(engine, f[n - 1], <<>>[n])]
    BY <1>1
  <1>4. f[0] = Nothing
    OBVIOUS
  <1> HIDE DEF f
  <1> QED  BY <1>2, <1>3, <1>4 DEF Runs, Reaches

(* One more token is one more step. *)
LEMMA ReachesOn ==
    ASSUME NEW engine, NEW name \in Seq(Tokens), NEW token \in Tokens, NEW seen,
           Reaches(engine, name, seen)
    PROVE  Reaches(engine, Append(name, token), Step(engine, seen, token))
  <1> DEFINE m == Len(name)
             longer == Append(name, token)
  <1>1. /\ m \in Nat /\ Len(longer) = m + 1 /\ longer[m + 1] = token
        /\ \A i \in 1 .. m : longer[i] = name[i]
    OBVIOUS
  <1>2. PICK f : Runs(engine, name, f) /\ f[m] = seen
    BY DEF Reaches
  <1>3. \A i \in 0 .. m : f[i] = IF i = 0 THEN Nothing ELSE Step(engine, f[i - 1], name[i])
    BY <1>2 DEF Runs
  <1> HIDE DEF m, longer
  <1> DEFINE g == [i \in 0 .. m + 1 |-> IF i <= m THEN f[i] ELSE Step(engine, seen, token)]
  <1>4. /\ \A i \in 0 .. m : g[i] = f[i]
        /\ g[m + 1] = Step(engine, seen, token)
    BY <1>1
  <1>5. g = [i \in 0 .. m + 1 |-> g[i]]
    OBVIOUS
  <1> HIDE DEF g
  <1>6. ASSUME NEW i \in 0 .. m + 1
        PROVE  g[i] = IF i = 0 THEN Nothing ELSE Step(engine, g[i - 1], longer[i])
    <2>1. CASE i <= m /\ i # 0
      <3>1. i \in 0 .. m /\ i - 1 \in 0 .. m /\ i \in 1 .. m
        BY <1>1, <2>1
      <3>2. g[i] = f[i] /\ g[i - 1] = f[i - 1] /\ longer[i] = name[i]
        BY <1>1, <1>4, <3>1
      <3>3. f[i] = Step(engine, f[i - 1], name[i])
        BY <1>3, <2>1, <3>1
      <3> QED  BY <2>1, <3>2, <3>3
    <2>2. CASE i = 0
      <3>1. 0 \in 0 .. m
        BY <1>1
      <3> QED  BY <1>3, <1>4, <2>2, <3>1
    <2>3. CASE i = m + 1
      <3>1. i - 1 = m /\ m \in 0 .. m /\ i # 0
        BY <1>1, <2>3
      <3>2. g[i - 1] = seen
        BY <1>2, <1>4, <3>1
      <3> QED  BY <1>1, <1>4, <2>3, <3>1, <3>2
    <2> QED  BY <1>1, <2>1, <2>2, <2>3
  <1>7. [i \in 0 .. m + 1 |-> g[i]]
        = [i \in 0 .. m + 1 |-> IF i = 0 THEN Nothing ELSE Step(engine, g[i - 1], longer[i])]
    BY <1>6
  <1>8. Runs(engine, longer, g)
    BY <1>1, <1>5, <1>7 DEF Runs
  <1>9. Reaches(engine, longer, Step(engine, seen, token))
    BY <1>1, <1>4, <1>8 DEF Reaches
  <1> QED  BY <1>9 DEF longer

(* A name leads to one state. *)
LEMMA RunsAlike ==
    ASSUME NEW engine, NEW name, Len(name) \in Nat, NEW f, NEW g,
           Runs(engine, name, f), Runs(engine, name, g)
    PROVE  f[Len(name)] = g[Len(name)]
  <1> DEFINE T == {i \in Nat : i <= Len(name) => f[i] = g[i]}
  <1>1. /\ \A i \in 0 .. Len(name) : f[i] = IF i = 0 THEN Nothing ELSE Step(engine, f[i - 1], name[i])
        /\ \A i \in 0 .. Len(name) : g[i] = IF i = 0 THEN Nothing ELSE Step(engine, g[i - 1], name[i])
    BY DEF Runs
  <1>2. 0 \in T
    <2>1. 0 \in 0 .. Len(name)
      OBVIOUS
    <2> QED  BY <1>1, <2>1
  <1>3. ASSUME NEW i \in Nat, i \in T  PROVE i + 1 \in T
    <2> SUFFICES ASSUME i + 1 <= Len(name)  PROVE f[i + 1] = g[i + 1]
      OBVIOUS
    <2>1. i <= Len(name) /\ i + 1 \in 0 .. Len(name) /\ i + 1 # 0 /\ (i + 1) - 1 = i
      OBVIOUS
    <2>2. f[i] = g[i]
      BY <1>3, <2>1
    <2>3. f[i + 1] = Step(engine, f[i], name[i + 1])
      BY <1>1, <2>1
    <2>4. g[i + 1] = Step(engine, g[i], name[i + 1])
      BY <1>1, <2>1
    <2> QED  BY <2>2, <2>3, <2>4
  <1> HIDE DEF T
  <1>4. Nat \subseteq T
    BY <1>2, <1>3, Induct
  <1> QED  BY <1>4 DEF T

(* What LLDB's driver keeps of a name. *)
LEMMA LLDBCleans ==
    ASSUME NEW name, Len(name) \in Nat, NEW seen, Reaches("lldb", name, seen)
    PROVE  CleanLLDB(name) = seen.buffer
  <1> DEFINE F == CHOOSE f : f = [n \in 0 .. Len(name) |->
                                    IF n = 0 THEN Nothing ELSE LLDBStep(f[n - 1], name[n])]
  <1>1. CleanLLDB(name) = F[Len(name)].buffer
    BY DEF CleanLLDB
  <1>2. PICK g : Runs("lldb", name, g) /\ g[Len(name)] = seen
    BY DEF Reaches
  <1>3. g = [n \in 0 .. Len(name) |-> IF n = 0 THEN Nothing ELSE LLDBStep(g[n - 1], name[n])]
    BY <1>2 DEF Runs, Step
  <1>4. F = [n \in 0 .. Len(name) |-> IF n = 0 THEN Nothing ELSE LLDBStep(F[n - 1], name[n])]
    BY <1>3
  <1> HIDE DEF F
  <1>5. Runs("lldb", name, F)
    BY <1>4 DEF Runs, Step
  <1> QED  BY <1>1, <1>2, <1>5, RunsAlike

(* What the dbgeng driver keeps of a name. *)
LEMMA DbgEngCleans ==
    ASSUME NEW name, Len(Stripped(name)) \in Nat, NEW seen, Reaches("dbgeng", Stripped(name), seen)
    PROVE  CleanDbgEng(name) = seen.buffer
  <1> DEFINE from == Stripped(name)
             F == CHOOSE f : f = [n \in 0 .. Len(from) |->
                                    IF n = 0 THEN Nothing ELSE DbgEngStep(f[n - 1], from[n])]
  <1>1. CleanDbgEng(name) = F[Len(from)].buffer
    BY DEF CleanDbgEng
  <1> HIDE DEF from
  <1>2. PICK g : Runs("dbgeng", from, g) /\ g[Len(from)] = seen
    BY DEF Reaches, from
  <1>3. g = [n \in 0 .. Len(from) |-> IF n = 0 THEN Nothing ELSE DbgEngStep(g[n - 1], from[n])]
    BY <1>2 DEF Runs, Step
  <1>4. F = [n \in 0 .. Len(from) |-> IF n = 0 THEN Nothing ELSE DbgEngStep(F[n - 1], from[n])]
    BY <1>3
  <1> HIDE DEF F
  <1>5. Runs("dbgeng", from, F)
    BY <1>4 DEF Runs, Step
  <1>6. Len(from) \in Nat
    BY DEF from
  <1> QED  BY <1>1, <1>2, <1>5, <1>6, RunsAlike

(* A sequence put behind another one, element by element. *)
LEMMA ConcatAppend ==
    ASSUME NEW S, NEW s \in Seq(S), NEW t \in Seq(S), NEW x \in S
    PROVE  s \o Append(t, x) = Append(s \o t, x)
  <1> DEFINE a == s \o Append(t, x)
             b == Append(s \o t, x)
  <1>1. Append(t, x) \in Seq(S) /\ s \o t \in Seq(S)
    OBVIOUS
  <1>2. a \in Seq(S) /\ b \in Seq(S) /\ Len(a) = Len(b)
    BY <1>1
  <1>3. \A i \in 1 .. Len(a) : a[i] = b[i]
    BY <1>1, <1>2
  <1> HIDE DEF a, b
  <1>4. a = b
    BY <1>2, <1>3, SeqEqual
  <1> QED  BY <1>4 DEF a, b

(* A sequence whose last element is put behind the others. *)
LEMMA AppendIs ==
    ASSUME NEW S, NEW s \in Seq(S), NEW t \in Seq(S), Len(t) = Len(s) + 1,
           \A i \in 1 .. Len(s) : t[i] = s[i]
    PROVE  t[Len(t)] \in S /\ t = Append(s, t[Len(t)])
  <1> DEFINE x == t[Len(t)]
             u == Append(s, x)
  <1>1. x \in S /\ Len(s) \in Nat
    OBVIOUS
  <1>2. /\ u \in Seq(S) /\ Len(u) = Len(s) + 1
        /\ \A i \in 1 .. Len(u) : u[i] = IF i = Len(u) THEN x ELSE s[i]
    <2> HIDE DEF x
    <2> QED  BY <1>1, AppendAt
  <1> HIDE DEF u
  <1>3. \A i \in 1 .. Len(t) : t[i] = u[i]
    BY <1>1, <1>2
  <1> HIDE DEF x
  <1>4. t = u
    BY <1>2, <1>3, SeqEqual
  <1> QED  BY <1>1, <1>4 DEF u, x

(* The same behind another sequence. *)
Grows(s, t, u) == s \o u = Append(s \o t, u[Len(u)])

(* A sequence that has one more than another, behind a third. *)
LEMMA ConcatOn ==
    ASSUME NEW S, NEW s \in Seq(S), NEW t \in Seq(S), NEW u \in Seq(S), Len(u) = Len(t) + 1,
           \A i \in 1 .. Len(t) : u[i] = t[i]
    PROVE  Grows(s, t, u)
  <1> DEFINE x == u[Len(u)]
  <1>1. x \in S /\ u = Append(t, x)
    BY AppendIs
  <1> HIDE DEF x
  <1>2. s \o Append(t, x) = Append(s \o t, x)
    BY <1>1, ConcatAppend
  <1> QED  BY <1>1, <1>2 DEF x, Grows

(* What is left of a name without some tokens. *)
LEMMA WithoutNone ==
    ASSUME NEW tokens
    PROVE  Without(<<>>, tokens) = <<>>
  <1>1. DOMAIN <<>> = {}
    OBVIOUS
  <1>2. [i \in DOMAIN <<>> |-> IF <<>>[i] \in tokens THEN <<>> ELSE <<(<<>>)[i]>>] = <<>>
    BY <1>1
  <1> QED  BY <1>2, FlattenNone DEF Without

(* Without, of each token of a name. *)
WithoutEach(name, tokens) ==
    [i \in DOMAIN name |-> IF name[i] \in tokens THEN <<>> ELSE <<name[i]>>]

(* What is left of each token. *)
LEMMA WithoutEachSeq ==
    ASSUME NEW name \in Seq(Tokens), NEW tokens
    PROVE  /\ WithoutEach(name, tokens) \in Seq(Seq(Tokens))
           /\ Len(WithoutEach(name, tokens)) = Len(name)
           /\ \A i \in 1 .. Len(name) :
                 WithoutEach(name, tokens)[i] = IF name[i] \in tokens THEN <<>> ELSE <<name[i]>>
  <1>1. Len(name) \in Nat /\ DOMAIN name = 1 .. Len(name) /\ \A i \in 1 .. Len(name) : name[i] \in Tokens
    OBVIOUS
  <1>2. \A i \in 1 .. Len(name) :
           WithoutEach(name, tokens)[i] = IF name[i] \in tokens THEN <<>> ELSE <<name[i]>>
    BY <1>1 DEF WithoutEach
  <1>3. \A i \in 1 .. Len(name) : WithoutEach(name, tokens)[i] \in Seq(Tokens)
    <2> TAKE i \in 1 .. Len(name)
    <2>1. <<name[i]>> \in Seq(Tokens) /\ <<>> \in Seq(Tokens)
      BY <1>1
    <2> QED  BY <1>2, <2>1, Zenon
  <1>4. WithoutEach(name, tokens) \in [1 .. Len(name) -> Seq(Tokens)]
    <2>1. WithoutEach(name, tokens) = [i \in 1 .. Len(name) |-> WithoutEach(name, tokens)[i]]
      BY <1>1 DEF WithoutEach
    <2> QED  BY <1>3, <2>1
  <1> QED  BY <1>1, <1>2, <1>4, Written

(* One more token, which is left or not. *)
LEMMA WithoutOn ==
    ASSUME NEW name \in Seq(Tokens), NEW token \in Tokens, NEW tokens
    PROVE  /\ Without(name, tokens) \in Seq(Tokens)
           /\ token \in tokens => Without(Append(name, token), tokens) = Without(name, tokens)
           /\ token \notin tokens =>
                 Without(Append(name, token), tokens) = Append(Without(name, tokens), token)
  <1> DEFINE a == WithoutEach(name, tokens)
             more == Append(name, token)
             b == WithoutEach(more, tokens)
             x == IF token \in tokens THEN <<>> ELSE <<token>>
  <1>1. /\ more \in Seq(Tokens) /\ Len(more) = Len(name) + 1 /\ Len(name) \in Nat
        /\ \A i \in 1 .. Len(more) : more[i] = IF i = Len(more) THEN token ELSE name[i]
    BY AppendAt
  <1>2. /\ a \in Seq(Seq(Tokens)) /\ Len(a) = Len(name)
        /\ \A i \in 1 .. Len(name) : a[i] = IF name[i] \in tokens THEN <<>> ELSE <<name[i]>>
    BY WithoutEachSeq
  <1>3. /\ b \in Seq(Seq(Tokens)) /\ Len(b) = Len(more)
        /\ \A i \in 1 .. Len(more) : b[i] = IF more[i] \in tokens THEN <<>> ELSE <<more[i]>>
    BY <1>1, WithoutEachSeq
  <1>4. Without(name, tokens) = FlattenSeq(a) /\ Without(more, tokens) = FlattenSeq(b)
    BY DEF Without, WithoutEach
  <1>5. x \in Seq(Tokens)
    <2>1. <<token>> \in Seq(Tokens) /\ <<>> \in Seq(Tokens)
      OBVIOUS
    <2> QED  BY <2>1, Zenon
  <1> HIDE DEF a, b, more
  <1>6. b = Append(a, x)
    <2> DEFINE c == Append(a, x)
    <2>1. /\ c \in Seq(Seq(Tokens)) /\ Len(c) = Len(a) + 1
          /\ \A i \in 1 .. Len(c) : c[i] = IF i = Len(c) THEN x ELSE a[i]
      <3> HIDE DEF x
      <3> QED  BY <1>2, <1>5, AppendAt
    <2>2. Len(c) = Len(b)
      BY <1>1, <1>2, <1>3, <2>1
    <2> HIDE DEF c
    <2>3. ASSUME NEW i \in 1 .. Len(b)  PROVE b[i] = c[i]
      <3>1. CASE i = Len(b)
        <4>1. more[i] = token /\ c[i] = x
          BY <1>1, <1>3, <2>1, <2>2, <3>1
        <4> QED  BY <1>3, <4>1
      <3>2. CASE i # Len(b)
        <4>1. i \in 1 .. Len(name) /\ more[i] = name[i] /\ c[i] = a[i]
          BY <1>1, <1>2, <1>3, <2>1, <2>2, <3>2
        <4> QED  BY <1>2, <1>3, <4>1
      <3> QED  BY <3>1, <3>2
    <2>4. b = c
      BY <1>3, <2>1, <2>2, <2>3, SeqEqual
    <2> QED  BY <2>4 DEF c
  <1>7. FlattenSeq(a) \in Seq(Tokens)
    BY <1>2, Flattened
  <1>8. FlattenSeq(b) = FlattenSeq(a) \o x
    <2> HIDE DEF x
    <2> QED  BY <1>2, <1>5, <1>6, FlattenStep
  <1>9. token \in tokens => FlattenSeq(b) = FlattenSeq(a)
    BY <1>7, <1>8
  <1>10. token \notin tokens => FlattenSeq(b) = Append(FlattenSeq(a), token)
    BY <1>7, <1>8
  <1>11. /\ token \in tokens => Without(more, tokens) = Without(name, tokens)
         /\ token \notin tokens => Without(more, tokens) = Append(Without(name, tokens), token)
    BY <1>4, <1>9, <1>10
  <1> QED  BY <1>4, <1>7, <1>11 DEF more

(* The state of a loop, and what the assignments make of it. *)
States == [buffer : Seq(Tokens), skip : BOOLEAN]

(* Between quotes or brackets, or no longer. *)
LEMMA SkipIs ==
    ASSUME NEW seen \in States, NEW k \in BOOLEAN
    PROVE  [seen EXCEPT !.skip = k] = [buffer |-> seen.buffer, skip |-> k]
  <1> DEFINE r == [seen EXCEPT !.skip = k]
  <1>1. r \in States
    BY DEF States
  <1>2. r.buffer = seen.buffer /\ r.skip = k
    BY DEF States
  <1> HIDE DEF r
  <1>3. r = [buffer |-> r.buffer, skip |-> r.skip]
    BY <1>1 DEF States
  <1> QED  BY <1>2, <1>3 DEF r

(* A token is kept. *)
LEMMA PushIs ==
    ASSUME NEW seen \in States, NEW token \in Tokens
    PROVE  Push(seen, token) = [buffer |-> Append(seen.buffer, token), skip |-> seen.skip]
  <1> DEFINE b == Append(seen.buffer, token)
             r == [seen EXCEPT !.buffer = b]
  <1>1. b \in Seq(Tokens)
    BY DEF States
  <1>2. Push(seen, token) = r
    BY DEF Push
  <1> HIDE DEF b
  <1>3. r \in States
    BY <1>1 DEF States
  <1>4. r.buffer = b /\ r.skip = seen.skip
    BY DEF States
  <1> HIDE DEF r
  <1>5. r = [buffer |-> r.buffer, skip |-> r.skip]
    BY <1>3 DEF States
  <1> QED  BY <1>2, <1>4, <1>5 DEF b

(* A loop that has read a part of a path has kept all but the anonymous    *)
(* namespaces.                                                             *)
Kept(name) == Without(name, {"anonymous"})

PathRead(engine, name) ==
    /\ name \in Seq(Tokens)
    /\ Reaches(engine, name, [buffer |-> Kept(name), skip |-> FALSE])

AtOperator(name) == Kept(name) # <<>> /\ Last(Kept(name)) = "operator"

(* One more token of a path. *)
LEMMA PathToken ==
    ASSUME NEW engine \in {"lldb", "dbgeng"}, NEW name, PathRead(engine, name),
           NEW token \in Words \union {"::", "anonymous", "operator", "open", "close"},
           token = "open" => AtOperator(name), token = "anonymous" => ~AtOperator(name)
    PROVE  /\ PathRead(engine, Append(name, token))
           /\ token # "anonymous" => (AtOperator(Append(name, token)) <=> token = "operator")
           /\ token = "anonymous" => ~AtOperator(Append(name, token))
  <1> DEFINE more == Append(name, token)
             seen == [buffer |-> Kept(name), skip |-> FALSE]
  <1>1. name \in Seq(Tokens) /\ token \in Tokens /\ Reaches(engine, name, seen)
    BY DEF PathRead, Tokens, Marks
  <1>2. more \in Seq(Tokens) /\ Reaches(engine, more, Step(engine, seen, token))
    BY <1>1, ReachesOn
  <1>3. /\ Kept(name) \in Seq(Tokens)
        /\ token = "anonymous" => Kept(more) = Kept(name)
        /\ token # "anonymous" => Kept(more) = Append(Kept(name), token)
    BY <1>1, WithoutOn DEF Kept
  <1>4. token # "tick" /\ token # "quote"
    BY WordsAssumption DEF Marks
  <1>5. seen.buffer = Kept(name) /\ seen.skip = FALSE /\ (AfterOperator(seen) <=> AtOperator(name))
    BY DEF AfterOperator, AtOperator
  <1>6. Push(seen, token) = [buffer |-> Append(Kept(name), token), skip |-> FALSE]
    <2>1. seen \in States
      BY <1>3 DEF States
    <2> HIDE DEF seen
    <2> QED  BY <1>1, <1>5, <2>1, PushIs
  <1> HIDE DEF seen
  <1>7. token = "anonymous" => Step(engine, seen, token) = seen
    BY <1>5 DEF Step, LLDBStep, DbgEngStep
  <1>8. token # "anonymous" => Step(engine, seen, token) = Push(seen, token)
    BY <1>4, <1>5 DEF Step, LLDBStep, DbgEngStep
  <1>9. Step(engine, seen, token) = [buffer |-> Kept(more), skip |-> FALSE]
    <2>1. CASE token = "anonymous"
      BY <1>3, <1>7, <2>1 DEF seen
    <2>2. CASE token # "anonymous"
      BY <1>3, <1>6, <1>8, <2>2
    <2> QED  BY <2>1, <2>2
  <1>10. PathRead(engine, more)
    BY <1>2, <1>9 DEF PathRead
  <1>11. token # "anonymous" => (AtOperator(more) <=> token = "operator")
    <2>1. /\ Append(Kept(name), token) # <<>>
          /\ Last(Append(Kept(name), token)) = token
      BY <1>1, <1>3 DEF Last
    <2> QED  BY <1>3, <2>1 DEF AtOperator
  <1>12. token = "anonymous" => ~AtOperator(more)
    BY <1>3 DEF AtOperator
  <1> QED  BY <1>10, <1>11, <1>12

(* The parts of a path as they are in a name. *)
PathParts ==
    {<<"anonymous">>, <<"operator", "open", "close">>}
    \union {<<w>> : w \in Words} \union {<<w, "::">> : w \in Words}

(* One more part of a path. *)
LEMMA PathPart ==
    ASSUME NEW engine \in {"lldb", "dbgeng"}, NEW name, PathRead(engine, name), ~AtOperator(name),
           NEW part \in PathParts
    PROVE  PathRead(engine, name \o part) /\ ~AtOperator(name \o part)
  <1>0. name \in Seq(Tokens) /\ Words \subseteq Tokens /\ Marks \subseteq Tokens
    BY DEF PathRead, Tokens
  <1>w. \A w \in Words : w # "anonymous" /\ w # "operator" /\ w # "open"
    BY WordsAssumption DEF Marks
  <1>1. CASE part = <<"anonymous">>
    <2>1. name \o part = Append(name, "anonymous")
      BY <1>0, <1>1
    <2> QED  BY <2>1, PathToken
  <1>2. CASE part = <<"operator", "open", "close">>
    <2> DEFINE a == Append(name, "operator")
               b == Append(a, "open")
               c == Append(b, "close")
    <2>1. PathRead(engine, a) /\ AtOperator(a)
      BY PathToken
    <2> HIDE DEF a
    <2>2. PathRead(engine, b) /\ ~AtOperator(b)
      BY <2>1, PathToken
    <2> HIDE DEF b
    <2>3. PathRead(engine, c) /\ ~AtOperator(c)
      BY <2>2, PathToken
    <2>4. name \o part = c
      <3>1. "operator" \in Tokens /\ "open" \in Tokens /\ "close" \in Tokens
        BY <1>0 DEF Marks
      <3>2. name \o <<"operator">> = a
        BY <1>0 DEF a
      <3> DEFINE one == <<"operator">>
                 two == <<"operator", "open">>
      <3>3. /\ one \in Seq(Tokens) /\ two \in Seq(Tokens) /\ part \in Seq(Tokens)
            /\ Len(one) = 1 /\ Len(two) = 2 /\ Len(part) = 3
            /\ one[1] = "operator" /\ two[1] = "operator" /\ two[2] = "open"
            /\ part[1] = "operator" /\ part[2] = "open" /\ part[3] = "close"
        BY <1>2, <3>1
      <3> HIDE DEF one, two
      <3>4. \A i \in 1 .. Len(one) : two[i] = one[i]
        BY <3>3
      <3>5. \A i \in 1 .. Len(two) : part[i] = two[i]
        BY <3>3
      <3>6. name \o two = Append(name \o one, two[2])
        <4>1. Len(two) = Len(one) + 1 /\ two[Len(two)] = two[2]
          BY <3>3
        <4>2. Grows(name, one, two)
          BY <1>0, <3>3, <3>4, <4>1, ConcatOn
        <4> QED  BY <4>1, <4>2 DEF Grows
      <3>7. name \o part = Append(name \o two, part[3])
        <4>1. Len(part) = Len(two) + 1 /\ part[Len(part)] = part[3]
          BY <3>3
        <4>2. Grows(name, two, part)
          BY <1>0, <3>3, <3>5, <4>1, ConcatOn
        <4> QED  BY <4>1, <4>2 DEF Grows
      <3> QED  BY <3>2, <3>3, <3>6, <3>7 DEF one, b
    <2> QED  BY <2>3, <2>4
  <1>3. ASSUME NEW w \in Words, part = <<w>>  PROVE PathRead(engine, name \o part) /\ ~AtOperator(name \o part)
    <2>1. name \o part = Append(name, w)
      BY <1>0, <1>3
    <2> QED  BY <1>w, <2>1, PathToken
  <1>4. ASSUME NEW w \in Words, part = <<w, "::">>  PROVE PathRead(engine, name \o part) /\ ~AtOperator(name \o part)
    <2> DEFINE a == Append(name, w)
    <2>1. PathRead(engine, a) /\ ~AtOperator(a)
      BY <1>w, PathToken
    <2>2. name \o part = Append(a, "::")
      <3>1. "::" \in Tokens /\ w \in Tokens
        BY <1>0 DEF Marks
      <3>2. name \o <<w>> = a
        BY <1>0
      <3> DEFINE one == <<w>>
      <3>3. /\ one \in Seq(Tokens) /\ part \in Seq(Tokens) /\ Len(one) = 1 /\ Len(part) = 2
            /\ one[1] = w /\ part[1] = w /\ part[2] = "::"
        BY <1>4, <3>1
      <3> HIDE DEF one, a
      <3>4. \A i \in 1 .. Len(one) : part[i] = one[i]
        BY <3>3
      <3>5. name \o part = Append(name \o one, part[2])
        <4>1. Len(part) = Len(one) + 1 /\ part[Len(part)] = part[2]
          BY <3>3
        <4>2. Grows(name, one, part)
          BY <1>0, <3>3, <3>4, <4>1, ConcatOn
        <4> QED  BY <4>1, <4>2 DEF Grows
      <3> QED  BY <3>2, <3>3, <3>5 DEF one
    <2> HIDE DEF a
    <2> QED  BY <2>1, <2>2, PathToken
  <1> QED  BY <1>1, <1>2, <1>3, <1>4 DEF PathParts

(* All of a path. *)
LEMMA PathPartsRead ==
    ASSUME NEW engine \in {"lldb", "dbgeng"}
    PROVE  \A parts \in Seq(PathParts) :
              PathRead(engine, FlattenSeq(parts)) /\ ~AtOperator(FlattenSeq(parts))
  <1> DEFINE T == {parts \in Seq(PathParts) :
                      PathRead(engine, FlattenSeq(parts)) /\ ~AtOperator(FlattenSeq(parts))}
  <1>1. PathParts \subseteq Seq(Tokens)
    <2>1. Words \subseteq Tokens /\ {"::", "anonymous", "operator", "open", "close"} \subseteq Tokens
      BY DEF Tokens, Marks
    <2>2. <<"anonymous">> \in Seq(Tokens) /\ <<"operator", "open", "close">> \in Seq(Tokens)
      BY <2>1
    <2>3. ASSUME NEW w \in Words  PROVE <<w>> \in Seq(Tokens) /\ <<w, "::">> \in Seq(Tokens)
      BY <2>1
    <2> QED  BY <2>2, <2>3 DEF PathParts
  <1>2. <<>> \in T
    <2>1. FlattenSeq(<<>>) = <<>> /\ <<>> \in Seq(PathParts) /\ <<>> \in Seq(Tokens)
      BY FlattenNone
    <2>2. Kept(<<>>) = <<>>
      BY WithoutNone DEF Kept
    <2>3. PathRead(engine, <<>>)
      BY <2>1, <2>2, ReachesNothing DEF PathRead, Nothing
    <2>4. ~AtOperator(<<>>)
      BY <2>2 DEF AtOperator
    <2> QED  BY <2>1, <2>3, <2>4
  <1>3. ASSUME NEW parts \in Seq(PathParts), NEW part \in PathParts, parts \in T
        PROVE  Append(parts, part) \in T
    <2>1. parts \in Seq(Seq(Tokens)) /\ part \in Seq(Tokens)
      BY <1>1
    <2>2. FlattenSeq(Append(parts, part)) = FlattenSeq(parts) \o part
      BY <2>1, FlattenStep
    <2>3. PathRead(engine, FlattenSeq(parts) \o part) /\ ~AtOperator(FlattenSeq(parts) \o part)
      BY <1>3, PathPart
    <2>4. Append(parts, part) \in Seq(PathParts)
      OBVIOUS
    <2> QED  BY <2>2, <2>3, <2>4
  <1>4. Seq(PathParts) \subseteq T
    <2> HIDE DEF T
    <2> QED  BY <1>2, <1>3, SeqInduct
  <1> QED  BY <1>4

-----------------------------------------------------------------------------
(* The names LLDB gives. *)

(* The parts of a path. *)
PathNames == Words \union {"anonymous", "operator()"}

JoinParts(path) == [i \in DOMAIN path |-> PathTokens(path[i], i = Len(path))]

(* The parts of a path, one by one. *)
LEMMA JoinPartsSeq ==
    ASSUME NEW path \in Seq(PathNames)
    PROVE  /\ JoinParts(path) \in Seq(PathParts) /\ Len(JoinParts(path)) = Len(path)
           /\ JoinPath(path) = FlattenSeq(JoinParts(path))
  <1>1. Len(path) \in Nat /\ DOMAIN path = 1 .. Len(path) /\ \A i \in 1 .. Len(path) : path[i] \in PathNames
    OBVIOUS
  <1>2. ASSUME NEW part \in PathNames, NEW last \in BOOLEAN  PROVE PathTokens(part, last) \in PathParts
    <2>1. CASE part = "anonymous"
      BY <2>1 DEF PathTokens, PathParts
    <2>2. CASE part = "operator()"
      <3>1. PathTokens(part, last) = <<"operator", "open", "close">>
        BY <2>2 DEF PathTokens
      <3> QED  BY <3>1 DEF PathParts
    <2>3. CASE part # "anonymous" /\ part # "operator()"
      <3>1. PathTokens(part, last) = IF last THEN <<part>> ELSE <<part, "::">>
        BY <2>3 DEF PathTokens
      <3>2. part \in Words
        BY <2>3 DEF PathNames
      <3>3. CASE last
        BY <3>1, <3>2, <3>3 DEF PathParts
      <3>4. CASE ~last
        BY <3>1, <3>2, <3>4 DEF PathParts
      <3> QED  BY <3>3, <3>4
    <2> QED  BY <2>1, <2>2, <2>3
  <1>3. \A i \in 1 .. Len(path) : PathTokens(path[i], i = Len(path)) \in PathParts
    <2> TAKE i \in 1 .. Len(path)
    <2>1. path[i] \in PathNames /\ (i = Len(path)) \in BOOLEAN
      BY <1>1
    <2> QED  BY <1>2, <2>1
  <1>4. JoinParts(path) \in [1 .. Len(path) -> PathParts]
    BY <1>1, <1>3 DEF JoinParts
  <1>5. JoinParts(path) \in Seq(PathParts) /\ Len(JoinParts(path)) = Len(path)
    BY <1>1, <1>4, Written
  <1> QED  BY <1>5 DEF JoinPath, JoinParts

(* A path is read to its end. *)
LEMMA JoinPathRead ==
    ASSUME NEW engine \in {"lldb", "dbgeng"}, NEW path \in Seq(PathNames)
    PROVE  PathRead(engine, JoinPath(path)) /\ ~AtOperator(JoinPath(path))
  BY JoinPartsSeq, PathPartsRead

(* Between the brackets nothing is kept. *)
LEMMA ArgumentsSkipped ==
    ASSUME NEW name \in Seq(Tokens), NEW b \in Seq(Tokens),
           Reaches("lldb", name, [buffer |-> b, skip |-> TRUE])
    PROVE  \A arguments \in Seq(Words \union {"::"}) :
              Reaches("lldb", name \o arguments, [buffer |-> b, skip |-> TRUE])
  <1> DEFINE seen == [buffer |-> b, skip |-> TRUE]
             T == {arguments \in Seq(Words \union {"::"}) : Reaches("lldb", name \o arguments, seen)}
  <1>1. <<>> \in T
    <2>1. name \o <<>> = name /\ <<>> \in Seq(Words \union {"::"})
      OBVIOUS
    <2> QED  BY <2>1
  <1>2. ASSUME NEW arguments \in Seq(Words \union {"::"}), NEW token \in Words \union {"::"}, arguments \in T
        PROVE  Append(arguments, token) \in T
    <2>1. /\ token \in Tokens /\ token \notin {"anonymous", "open", "close"}
          /\ Words \union {"::"} \subseteq Tokens
      BY WordsAssumption DEF Marks, Tokens
    <2>2. arguments \in Seq(Tokens)
      BY <2>1
    <2>3. name \o Append(arguments, token) = Append(name \o arguments, token)
      BY <2>1, <2>2, ConcatAppend
    <2>4. name \o arguments \in Seq(Tokens)
      BY <2>2
    <2>5. Reaches("lldb", Append(name \o arguments, token), Step("lldb", seen, token))
      BY <1>2, <2>1, <2>4, ReachesOn
    <2>6. Step("lldb", seen, token) = seen
      <3>1. seen.skip
        OBVIOUS
      <3> HIDE DEF seen
      <3> QED  BY <2>1, <3>1 DEF Step, LLDBStep
    <2>7. Append(arguments, token) \in Seq(Words \union {"::"})
      OBVIOUS
    <2> HIDE DEF seen
    <2> QED  BY <2>3, <2>5, <2>6, <2>7
  <1>3. Seq(Words \union {"::"}) \subseteq T
    <2> HIDE DEF T
    <2> QED  BY <1>1, <1>2, SeqInduct
  <1> QED  BY <1>3

(* The path is what is left. *)
LEMMA LLDBKept ==
    ASSUME NEW path \in Seq(PathNames), NEW arguments \in Seq(Words \union {"::"})
    PROVE  CleanLLDB(LLDBName(path, arguments)) = Visible(path)
  <1> DEFINE join == JoinPath(path)
             b == Kept(join)
             opened == Append(join, "open")
             inside == opened \o arguments
             closed == Append(inside, "close")
             outer == [buffer |-> b, skip |-> FALSE]
             inner == [buffer |-> b, skip |-> TRUE]
  <1>1. join \in Seq(Tokens) /\ Reaches("lldb", join, outer) /\ ~AtOperator(join)
    BY JoinPathRead DEF PathRead
  <1>2. "open" \in Tokens /\ "close" \in Tokens /\ Words \union {"::"} \subseteq Tokens
    BY DEF Tokens, Marks
  <1>3. b \in Seq(Tokens)
    BY <1>1, <1>2, WithoutOn DEF Kept
  <1>4. outer \in States /\ inner \in States
    BY <1>3 DEF States
  <1>5. Step("lldb", outer, "open") = inner
    <2>1. ~AfterOperator(outer)
      BY <1>1 DEF AfterOperator, AtOperator
    <2>2. [outer EXCEPT !.skip = TRUE] = [buffer |-> outer.buffer, skip |-> TRUE]
      <3> HIDE DEF outer
      <3> QED  BY <1>4, SkipIs
    <2>3. outer.buffer = b
      OBVIOUS
    <2>4. Step("lldb", outer, "open") = [outer EXCEPT !.skip = TRUE]
      <3> HIDE DEF outer
      <3> QED  BY <2>1 DEF Step, LLDBStep
    <2> HIDE DEF outer, b
    <2> QED  BY <2>2, <2>3, <2>4
  <1>6. Step("lldb", inner, "close") = outer
    <2>2. [inner EXCEPT !.skip = FALSE] = [buffer |-> inner.buffer, skip |-> FALSE]
      <3> HIDE DEF inner
      <3> QED  BY <1>4, SkipIs
    <2>3. inner.buffer = b /\ inner.skip
      OBVIOUS
    <2>4. Step("lldb", inner, "close") = [inner EXCEPT !.skip = FALSE]
      <3> HIDE DEF inner
      <3> QED  BY <2>3 DEF Step, LLDBStep
    <2> HIDE DEF inner, b
    <2> QED  BY <2>2, <2>3, <2>4
  <1>7. opened \in Seq(Tokens) /\ Reaches("lldb", opened, inner)
    <2> HIDE DEF outer, inner, join
    <2> QED  BY <1>1, <1>2, <1>5, ReachesOn
  <1>8. arguments \in Seq(Tokens)
    BY <1>2
  <1>9. inside \in Seq(Tokens) /\ Reaches("lldb", inside, inner)
    <2> HIDE DEF opened, b
    <2> QED  BY <1>3, <1>7, <1>8, ArgumentsSkipped
  <1>10. closed \in Seq(Tokens) /\ Reaches("lldb", closed, outer)
    <2> HIDE DEF outer, inner, inside
    <2> QED  BY <1>2, <1>6, <1>9, ReachesOn
  <1>11. LLDBName(path, arguments) = closed
    <2>1. join \o <<"open">> = opened
      <3> HIDE DEF join
      <3> QED  BY <1>1, <1>2
    <2>2. inside \o <<"close">> = closed
      <3> HIDE DEF inside
      <3> QED  BY <1>2, <1>9
    <2>3. join \o ((<<"open">> \o arguments) \o <<"close">>) = ((join \o <<"open">>) \o arguments) \o <<"close">>
      <3> DEFINE begin == <<"open">>
                 end == <<"close">>
      <3>1. begin \in Seq(Tokens) /\ end \in Seq(Tokens)
        BY <1>2
      <3> HIDE DEF begin, end, join
      <3>2. begin \o arguments \in Seq(Tokens)
        BY <1>8, <3>1, ConcatAt
      <3>3. Together(join, begin, arguments)
        BY <1>1, <1>8, <3>1, PutTogether
      <3>4. Together(join, begin \o arguments, end)
        <4> DEFINE middle == begin \o arguments
        <4>1. middle \in Seq(Tokens)
          BY <3>2
        <4> HIDE DEF middle
        <4>2. Together(join, middle, end)
          BY <1>1, <3>1, <4>1, PutTogether
        <4> QED  BY <4>2 DEF middle
      <3>5. join \o ((begin \o arguments) \o end) = ((join \o begin) \o arguments) \o end
        BY <3>3, <3>4 DEF Together
      <3> QED  BY <3>5 DEF begin, end
    <2> QED  BY <2>1, <2>2, <2>3 DEF LLDBName, Bracketed
  <1>12. CleanLLDB(closed) = outer.buffer
    <2>1. Len(closed) \in Nat
      BY <1>10
    <2> HIDE DEF closed, outer
    <2> QED  BY <1>10, <2>1, LLDBCleans
  <1> QED  BY <1>11, <1>12 DEF Visible, Kept

-----------------------------------------------------------------------------
(* The names dbgeng gives. *)

(* What is behind the first of two sequences. *)
LEMMA BehindConcat ==
    ASSUME NEW S, NEW s \in Seq(S), NEW t \in Seq(S)
    PROVE  SubSeq(s \o t, Len(s) + 1, Len(s \o t)) = t
  <1> DEFINE all == s \o t
             back == SubSeq(all, Len(s) + 1, Len(all))
  <1>1. /\ all \in Seq(S) /\ Len(all) = Len(s) + Len(t) /\ Len(s) \in Nat /\ Len(t) \in Nat
        /\ \A i \in 1 .. Len(t) : all[Len(s) + i] = t[i]
    BY ConcatAt
  <1>2. Len(s) \in 0 .. Len(all)
    BY <1>1
  <1> HIDE DEF all
  <1>3. /\ back \in Seq(S) /\ Len(back) = Len(all) - Len(s)
        /\ \A i \in 1 .. Len(all) - Len(s) : back[i] = all[Len(s) + i]
    BY <1>1, <1>2, TakeDrop
  <1> HIDE DEF back
  <1>4. Len(back) = Len(t) /\ \A i \in 1 .. Len(t) : back[i] = t[i]
    BY <1>1, <1>3
  <1>5. back = t
    BY <1>3, <1>4, SeqEqual
  <1> QED  BY <1>5 DEF back, all

(* The module and its mark are left out. *)
LEMMA ModuleLeftOut ==
    ASSUME NEW S, "module" \in S, "!" \in S, NEW name \in Seq(S)
    PROVE  WithoutModule(<<"module", "!">> \o name) = name
  <1> DEFINE front == <<"module", "!">>
             all == front \o name
             pivots == {i \in DOMAIN all : all[i] = "!"}
             first == CHOOSE i \in pivots : \A j \in pivots : i <= j
  <1>1. front \in Seq(S) /\ Len(front) = 2 /\ front[1] = "module" /\ front[2] = "!"
    OBVIOUS
  <1> HIDE DEF front
  <1>2. /\ all \in Seq(S) /\ Len(all) = 2 + Len(name) /\ Len(name) \in Nat
        /\ \A i \in 1 .. 2 : all[i] = front[i]
    <2>1. /\ front \o name \in Seq(S) /\ Len(front \o name) = Len(front) + Len(name)
          /\ \A i \in 1 .. Len(front) : (front \o name)[i] = front[i]
      BY <1>1, ConcatAt
    <2>2. Len(name) \in Nat
      OBVIOUS
    <2> QED  BY <1>1, <2>1, <2>2
  <1>3. SubSeq(all, 3, Len(all)) = name
    <2>1. SubSeq(front \o name, Len(front) + 1, Len(front \o name)) = name
      BY <1>1, BehindConcat
    <2> QED  BY <1>1, <2>1
  <1> HIDE DEF all
  <1>4. DOMAIN all = 1 .. Len(all) /\ 1 \in 1 .. 2 /\ 2 \in 1 .. 2
    BY <1>2
  <1>5. 2 \in pivots /\ 1 \notin pivots /\ pivots \subseteq Nat \ {0}
    BY <1>1, <1>2, <1>4
  <1> HIDE DEF pivots
  <1>6. \A j \in pivots : 2 <= j
    BY <1>5
  <1>7. first \in pivots /\ \A j \in pivots : first <= j
    BY <1>5, <1>6
  <1> HIDE DEF first
  <1>8. first = 2
    BY <1>5, <1>6, <1>7
  <1>9. WithoutModule(all) = IF pivots = {} THEN all ELSE SubSeq(all, 1 + first, Len(all))
    BY DEF WithoutModule, pivots, first
  <1>10. pivots # {} /\ 1 + first = 3
    BY <1>5, <1>8
  <1> QED  BY <1>3, <1>9, <1>10 DEF all, front

(* The backticks before a name are counted. *)
LEMMA BackticksCounted ==
    ASSUME NEW S, NEW ticks \in Seq(S), \A i \in 1 .. Len(ticks) : ticks[i] = "tick",
           NEW name \in Seq(S), name # <<>>, name[1] # "tick"
    PROVE  BacktickCount(ticks \o name) = Len(ticks)
  <1> DEFINE all == ticks \o name
             others == {i \in DOMAIN all : all[i] # "tick"}
             first == CHOOSE i \in others : \A j \in others : i <= j
             n == Len(ticks)
  <1>1. /\ all \in Seq(S) /\ Len(all) = n + Len(name) /\ n \in Nat /\ Len(name) \in Nat
        /\ \A i \in 1 .. n : all[i] = ticks[i]
        /\ \A i \in 1 .. Len(name) : all[n + i] = name[i]
    BY ConcatAt
  <1>2. Len(name) > 0 /\ 1 \in 1 .. Len(name) /\ DOMAIN all = 1 .. Len(all)
    BY <1>1
  <1> HIDE DEF all, n
  <1>3. n + 1 \in others
    BY <1>1, <1>2
  <1>4. ASSUME NEW j \in others  PROVE n + 1 <= j
    <2>1. j \in 1 .. Len(all) /\ all[j] # "tick"
      BY <1>2
    <2>2. j \notin 1 .. n
      BY <1>1, <2>1 DEF n
    <2> QED  BY <1>1, <2>1, <2>2
  <1>5. others \subseteq Nat
    BY <1>1, <1>2
  <1> HIDE DEF others
  <1>6. first \in others /\ \A j \in others : first <= j
    BY <1>3, <1>4
  <1> HIDE DEF first
  <1>7. first = n + 1
    BY <1>1, <1>3, <1>4, <1>5, <1>6
  <1>8. BacktickCount(all) = IF others = {} THEN Len(all) ELSE first - 1
    BY DEF BacktickCount, others, first
  <1> QED  BY <1>1, <1>3, <1>7, <1>8 DEF all, n

(* What is behind the module and the backticks. *)
LEMMA StrippedIs ==
    ASSUME NEW n \in Nat, NEW name \in Seq(Tokens), name # <<>>, name[1] # "tick"
    PROVE  Stripped(<<"module", "!">> \o ([i \in 1 .. n |-> "tick"] \o name)) = name
  <1> DEFINE S == Tokens \union {"module"}
             ticks == [i \in 1 .. n |-> "tick"]
             plain == ticks \o name
  <1>1. "module" \in S /\ "!" \in S /\ "tick" \in S /\ Tokens \subseteq S
    BY DEF Tokens, Marks
  <1> HIDE DEF S
  <1>2. name \in Seq(S)
    BY <1>1
  <1>3. ticks \in [1 .. n -> S]
    BY <1>1
  <1>4. \A i \in 1 .. n : ticks[i] = "tick"
    OBVIOUS
  <1> HIDE DEF ticks
  <1>5. ticks \in Seq(S) /\ Len(ticks) = n
    BY <1>3, Written
  <1>6. plain \in Seq(S)
    BY <1>2, <1>5
  <1>7. BacktickCount(plain) = n
    BY <1>2, <1>4, <1>5, BackticksCounted
  <1>8. SubSeq(plain, n + 1, Len(plain)) = name
    <2>1. SubSeq(ticks \o name, Len(ticks) + 1, Len(ticks \o name)) = name
      BY <1>2, <1>5, BehindConcat
    <2> QED  BY <1>5, <2>1
  <1> HIDE DEF plain
  <1>9. WithoutModule(<<"module", "!">> \o plain) = plain
    BY <1>1, <1>6, ModuleLeftOut
  <1>10. Stripped(<<"module", "!">> \o plain) = name
    BY <1>7, <1>8, <1>9 DEF Stripped
  <1> QED  BY <1>10 DEF plain, ticks

(* A path does not begin with a backtick. *)
LEMMA PathBegins ==
    ASSUME NEW path \in Seq(PathNames), path # <<>>
    PROVE  JoinPath(path) \in Seq(Tokens) /\ JoinPath(path) # <<>> /\ JoinPath(path)[1] # "tick"
  <1> DEFINE parts == JoinParts(path)
             join == FlattenSeq(parts)
  <1>1. parts \in Seq(PathParts) /\ Len(parts) = Len(path) /\ JoinPath(path) = join
    BY JoinPartsSeq
  <1>2. "tick" \notin Words /\ "operator" # "tick"
    BY WordsAssumption DEF Marks
  <1>3. ASSUME NEW part \in PathParts
        PROVE  part \in Seq(Tokens) /\ Len(part) \in Nat \ {0} /\ \A i \in 1 .. Len(part) : part[i] # "tick"
    <2>0. Words \subseteq Tokens /\ {"::", "anonymous", "operator", "open", "close"} \subseteq Tokens
      BY DEF Tokens, Marks
    <2>1. CASE part = <<"anonymous">>
      BY <2>0, <2>1
    <2>2. CASE part = <<"operator", "open", "close">>
      <3>1. part \in Seq(Tokens) /\ Len(part) = 3
        BY <2>0, <2>2
      <3>2. part[1] # "tick" /\ part[2] # "tick" /\ part[3] # "tick"
        BY <2>2
      <3> QED  BY <3>1, <3>2
    <2>3. ASSUME NEW w \in Words, part = <<w>>
          PROVE  part \in Seq(Tokens) /\ Len(part) \in Nat \ {0} /\ \A i \in 1 .. Len(part) : part[i] # "tick"
      BY <1>2, <2>0, <2>3
    <2>4. ASSUME NEW w \in Words, part = <<w, "::">>
          PROVE  part \in Seq(Tokens) /\ Len(part) \in Nat \ {0} /\ \A i \in 1 .. Len(part) : part[i] # "tick"
      <3>1. part \in Seq(Tokens) /\ Len(part) = 2
        BY <2>0, <2>4
      <3>2. part[1] # "tick" /\ part[2] # "tick"
        BY <1>2, <2>4
      <3> QED  BY <3>1, <3>2
    <2> QED  BY <2>1, <2>2, <2>3, <2>4 DEF PathParts
  <1> HIDE DEF parts
  <1>4. parts \in Seq(Seq(Tokens))
    <2>1. PathParts \subseteq Seq(Tokens)
      BY <1>3
    <2> QED  BY <1>1, <2>1
  <1>5. join \in Seq(Tokens) /\ \A b : b \in Range(join) <=> \E i \in DOMAIN parts : b \in Range(parts[i])
    BY <1>4, Flattened
  <1> HIDE DEF join
  <1>6. Len(path) \in Nat \ {0} /\ DOMAIN parts = 1 .. Len(parts) /\ \A i \in DOMAIN parts : parts[i] \in PathParts
    BY <1>1
  <1>7. Range(join) # {}
    <2>1. 1 \in DOMAIN parts /\ parts[1] \in PathParts
      BY <1>1, <1>6
    <2>2. parts[1][1] \in Range(parts[1])
      <3>1. 1 \in 1 .. Len(parts[1]) /\ DOMAIN parts[1] = 1 .. Len(parts[1])
        BY <1>3, <2>1
      <3> QED  BY <3>1 DEF Range
    <2> QED  BY <1>5, <2>1, <2>2
  <1>8. join # <<>>
    BY <1>7 DEF Range
  <1>9. 1 \in DOMAIN join
    BY <1>5, <1>8
  <1>10. join[1] # "tick"
    <2>1. join[1] \in Range(join)
      BY <1>9 DEF Range
    <2>2. PICK i \in DOMAIN parts : join[1] \in Range(parts[i])
      BY <1>5, <2>1
    <2>3. parts[i] \in PathParts
      BY <1>6
    <2>4. DOMAIN parts[i] = 1 .. Len(parts[i])
      BY <1>3, <2>3
    <2>5. PICK j \in DOMAIN parts[i] : parts[i][j] = join[1]
      BY <2>2 DEF Range
    <2> QED  BY <1>3, <2>3, <2>4, <2>5
  <1> QED  BY <1>1, <1>5, <1>8, <1>10

-----------------------------------------------------------------------------
(* What dbgeng adds for closures. *)

EachClosure(closures) == [i \in DOMAIN closures |-> ClosureTokens(closures[i])]

Closures(closures) == FlattenSeq(EachClosure(closures))

(* What is added for one closure. *)
LEMMA ClosureIs ==
    ASSUME NEW c \in Words
    PROVE  ClosureTokens(c) \in Seq(Tokens) /\ Len(ClosureTokens(c)) = 7
  <1>1. Words \subseteq Tokens /\ {"quote", "::", "tick", "2"} \subseteq Tokens
    BY DEF Tokens, Marks
  <1> QED  BY <1>1 DEF ClosureTokens

(* What is added for each closure. *)
LEMMA EachClosureSeq ==
    ASSUME NEW closures \in Seq(Words)
    PROVE  /\ EachClosure(closures) \in Seq(Seq(Tokens)) /\ Len(EachClosure(closures)) = Len(closures)
           /\ \A i \in 1 .. Len(closures) : EachClosure(closures)[i] = ClosureTokens(closures[i])
  <1>1. /\ Len(closures) \in Nat /\ DOMAIN closures = 1 .. Len(closures)
        /\ \A i \in 1 .. Len(closures) : closures[i] \in Words
    OBVIOUS
  <1>2. \A i \in 1 .. Len(closures) : EachClosure(closures)[i] = ClosureTokens(closures[i])
    BY <1>1 DEF EachClosure
  <1>3. \A i \in 1 .. Len(closures) : ClosureTokens(closures[i]) \in Seq(Tokens)
    BY <1>1, ClosureIs
  <1>4. EachClosure(closures) \in [1 .. Len(closures) -> Seq(Tokens)]
    BY <1>1, <1>3 DEF EachClosure
  <1> QED  BY <1>1, <1>2, <1>4, Written

(* One more closure adds its tokens. *)
LEMMA ClosuresOn ==
    ASSUME NEW closures \in Seq(Words), NEW c \in Words
    PROVE  /\ Closures(closures) \in Seq(Tokens)
           /\ Closures(Append(closures, c)) = Closures(closures) \o ClosureTokens(c)
  <1> DEFINE a == EachClosure(closures)
             more == Append(closures, c)
             b == EachClosure(more)
             x == ClosureTokens(c)
             e == Append(a, x)
  <1>1. /\ more \in Seq(Words) /\ Len(more) = Len(closures) + 1 /\ Len(closures) \in Nat
        /\ \A i \in 1 .. Len(more) : more[i] = IF i = Len(more) THEN c ELSE closures[i]
    BY AppendAt
  <1>2. /\ a \in Seq(Seq(Tokens)) /\ Len(a) = Len(closures)
        /\ \A i \in 1 .. Len(closures) : a[i] = ClosureTokens(closures[i])
    BY EachClosureSeq
  <1> HIDE DEF a, more
  <1>3. /\ b \in Seq(Seq(Tokens)) /\ Len(b) = Len(more)
        /\ \A i \in 1 .. Len(more) : b[i] = ClosureTokens(more[i])
    BY <1>1, EachClosureSeq
  <1>4. x \in Seq(Tokens)
    BY ClosureIs
  <1> HIDE DEF b
  <1>5. /\ e \in Seq(Seq(Tokens)) /\ Len(e) = Len(a) + 1
        /\ \A i \in 1 .. Len(e) : e[i] = IF i = Len(e) THEN x ELSE a[i]
    <2> HIDE DEF x
    <2> QED  BY <1>2, <1>4, AppendAt
  <1> HIDE DEF e
  <1>6. ASSUME NEW i \in 1 .. Len(b)  PROVE b[i] = e[i]
    <2>1. CASE i = Len(b)
      BY <1>1, <1>2, <1>3, <1>5, <2>1
    <2>2. CASE i # Len(b)
      <3>1. i \in 1 .. Len(closures) /\ i # Len(e) /\ i \in 1 .. Len(e) /\ more[i] = closures[i]
        BY <1>1, <1>2, <1>3, <1>5, <2>2
      <3> QED  BY <1>2, <1>3, <1>5, <3>1
    <2> QED  BY <2>1, <2>2
  <1>7. b = e
    <2>1. Len(b) = Len(e)
      BY <1>1, <1>2, <1>3, <1>5
    <2> QED  BY <1>3, <1>5, <1>6, <2>1, SeqEqual
  <1> HIDE DEF x
  <1>8. FlattenSeq(a) \in Seq(Tokens)
    BY <1>2, Flattened
  <1>9. FlattenSeq(e) = FlattenSeq(a) \o x
    BY <1>2, <1>4, FlattenStep DEF e
  <1> QED  BY <1>7, <1>8, <1>9 DEF Closures, a, b, more, x

(* The tokens of a sequence put behind another one, one by one. *)
PutTo(s, u, k) == s \o SubSeq(u, 1, k)

(* One more of them is put at the end. *)
LEMMA PutToOn ==
    ASSUME NEW S, NEW s \in Seq(S), NEW u \in Seq(S), NEW k \in Nat, k + 1 \in 1 .. Len(u)
    PROVE  PutTo(s, u, k) \in Seq(S) /\ PutTo(s, u, k + 1) = Append(PutTo(s, u, k), u[k + 1])
  <1> DEFINE t == SubSeq(u, 1, k)
             v == SubSeq(u, 1, k + 1)
  <1>1. k \in 0 .. Len(u) /\ k + 1 \in 0 .. Len(u) /\ k + 1 \in 1 .. k + 1
    OBVIOUS
  <1>2. t \in Seq(S) /\ Len(t) = k /\ \A i \in 1 .. k : t[i] = u[i]
    BY <1>1, TakeDrop
  <1>3. v \in Seq(S) /\ Len(v) = k + 1 /\ \A i \in 1 .. k + 1 : v[i] = u[i]
    BY <1>1, TakeDrop
  <1> HIDE DEF t, v
  <1>4. Len(v) = Len(t) + 1 /\ \A i \in 1 .. Len(t) : v[i] = t[i]
    BY <1>2, <1>3
  <1>5. Grows(s, t, v)
    BY <1>2, <1>3, <1>4, ConcatOn
  <1>6. v[Len(v)] = u[k + 1]
    BY <1>1, <1>3
  <1>7. s \o t \in Seq(S)
    BY <1>2
  <1> QED  BY <1>5, <1>6, <1>7 DEF Grows, PutTo, t, v

(* None of them, and all of them. *)
LEMMA PutToEnds ==
    ASSUME NEW S, NEW s \in Seq(S), NEW u \in Seq(S)
    PROVE  PutTo(s, u, 0) = s /\ PutTo(s, u, Len(u)) = s \o u
  <1>1. SubSeq(u, 1, 0) = <<>> /\ SubSeq(u, 1, Len(u)) = u
    OBVIOUS
  <1>2. s \o <<>> = s
    OBVIOUS
  <1> QED  BY <1>1, <1>2 DEF PutTo

(* The loop over the name of dbgeng, with what it has kept. *)
ReadTo(name, b, k) ==
    /\ name \in Seq(Tokens) /\ b \in Seq(Tokens) /\ k \in BOOLEAN
    /\ Reaches("dbgeng", name, [buffer |-> b, skip |-> k])

(* What is kept does not end in an operator without its brackets. *)
Plain(b) == b # <<>> => Last(b) # "operator"

(* An opening bracket goes, as that of arguments. *)
LEMMA OpenRead ==
    ASSUME NEW name, NEW b, ReadTo(name, b, FALSE), Plain(b)
    PROVE  ReadTo(Append(name, "open"), b, FALSE)
  <1> DEFINE seen == [buffer |-> b, skip |-> FALSE]
  <1>1. name \in Seq(Tokens) /\ b \in Seq(Tokens) /\ Reaches("dbgeng", name, seen)
    BY DEF ReadTo
  <1>2. "open" \in Tokens
    BY DEF Tokens, Marks
  <1>3. ~AfterOperator(seen)
    BY DEF AfterOperator, Plain
  <1> HIDE DEF seen
  <1>4. Step("dbgeng", seen, "open") = seen
    BY <1>3 DEF Step, DbgEngStep
  <1>5. Reaches("dbgeng", Append(name, "open"), seen)
    BY <1>1, <1>2, <1>4, ReachesOn
  <1>6. Append(name, "open") \in Seq(Tokens)
    BY <1>1, <1>2
  <1> QED  BY <1>1, <1>5, <1>6 DEF ReadTo, seen

(* A quote goes, and what is behind it is between quotes or no longer. *)
LEMMA QuoteRead ==
    ASSUME NEW name, NEW b, NEW k, ReadTo(name, b, k)
    PROVE  ReadTo(Append(name, "quote"), b, ~k)
  <1> DEFINE seen == [buffer |-> b, skip |-> k]
  <1>1. name \in Seq(Tokens) /\ b \in Seq(Tokens) /\ k \in BOOLEAN /\ Reaches("dbgeng", name, seen)
    BY DEF ReadTo
  <1>2. "quote" \in Tokens
    BY DEF Tokens, Marks
  <1>3. seen \in States /\ seen.buffer = b /\ seen.skip = k
    BY <1>1 DEF States
  <1> HIDE DEF seen
  <1>4. Reaches("dbgeng", Append(name, "quote"), Step("dbgeng", seen, "quote"))
    BY <1>1, <1>2, ReachesOn
  <1>5. Step("dbgeng", seen, "quote") = [seen EXCEPT !.skip = ~@]
    BY DEF Step, DbgEngStep
  <1>6. [seen EXCEPT !.skip = ~@] = [seen EXCEPT !.skip = ~k]
    BY <1>3
  <1>7. [seen EXCEPT !.skip = ~k] = [buffer |-> b, skip |-> ~k]
    <2>1. (~k) \in BOOLEAN
      BY <1>1
    <2> QED  BY <1>3, <2>1, SkipIs
  <1>8. Append(name, "quote") \in Seq(Tokens) /\ (~k) \in BOOLEAN
    BY <1>1, <1>2
  <1> QED  BY <1>1, <1>4, <1>5, <1>6, <1>7, <1>8 DEF ReadTo

(* Any other token stays, a backtick between quotes only. *)
LEMMA OtherRead ==
    ASSUME NEW name, NEW b, NEW k, ReadTo(name, b, k),
           NEW token \in Tokens, token \notin {"anonymous", "quote", "open"}, token = "tick" => k
    PROVE  ReadTo(Append(name, token), Append(b, token), k)
  <1> DEFINE seen == [buffer |-> b, skip |-> k]
  <1>1. name \in Seq(Tokens) /\ b \in Seq(Tokens) /\ k \in BOOLEAN /\ Reaches("dbgeng", name, seen)
    BY DEF ReadTo
  <1>3. seen \in States /\ seen.buffer = b /\ seen.skip = k
    BY <1>1 DEF States
  <1> HIDE DEF seen
  <1>4. Reaches("dbgeng", Append(name, token), Step("dbgeng", seen, token))
    BY <1>1, ReachesOn
  <1>5. Step("dbgeng", seen, token) = Push(seen, token)
    BY <1>3 DEF Step, DbgEngStep
  <1>6. Push(seen, token) = [buffer |-> Append(b, token), skip |-> k]
    BY <1>3, PushIs
  <1>7. Append(name, token) \in Seq(Tokens) /\ Append(b, token) \in Seq(Tokens)
    BY <1>1
  <1> QED  BY <1>1, <1>4, <1>5, <1>6, <1>7 DEF ReadTo

(* Arguments stay. *)
LEMMA ArgumentsStay ==
    ASSUME NEW name, NEW b, ReadTo(name, b, FALSE)
    PROVE  \A arguments \in Seq(Words \union {"::"}) : ReadTo(name \o arguments, b \o arguments, FALSE)
  <1> DEFINE T == {arguments \in Seq(Words \union {"::"}) : ReadTo(name \o arguments, b \o arguments, FALSE)}
  <1>0. name \in Seq(Tokens) /\ b \in Seq(Tokens)
    BY DEF ReadTo
  <1>1. <<>> \in T
    <2>1. name \o <<>> = name /\ b \o <<>> = b /\ <<>> \in Seq(Words \union {"::"})
      BY <1>0
    <2> QED  BY <2>1
  <1>2. ASSUME NEW arguments \in Seq(Words \union {"::"}), NEW token \in Words \union {"::"}, arguments \in T
        PROVE  Append(arguments, token) \in T
    <2>1. /\ token \in Tokens /\ token \notin {"anonymous", "quote", "open"} /\ token # "tick"
          /\ Words \union {"::"} \subseteq Tokens
      BY WordsAssumption DEF Marks, Tokens
    <2>2. arguments \in Seq(Tokens)
      BY <2>1
    <2>3. /\ name \o Append(arguments, token) = Append(name \o arguments, token)
          /\ b \o Append(arguments, token) = Append(b \o arguments, token)
      BY <1>0, <2>1, <2>2, ConcatAppend
    <2>4. ReadTo(Append(name \o arguments, token), Append(b \o arguments, token), FALSE)
      BY <1>2, <2>1, OtherRead
    <2>5. Append(arguments, token) \in Seq(Words \union {"::"})
      OBVIOUS
    <2> QED  BY <2>3, <2>4, <2>5
  <1>3. Seq(Words \union {"::"}) \subseteq T
    <2> HIDE DEF T
    <2> QED  BY <1>1, <1>2, SeqInduct
  <1> QED  BY <1>3

(* Of arguments in brackets all stays but the opening bracket. *)
LEMMA BracketsRead ==
    ASSUME NEW name, NEW b, ReadTo(name, b, FALSE), Plain(b), NEW arguments \in Seq(Words \union {"::"})
    PROVE  /\ Bracketed(arguments) \in Seq(Tokens)
           /\ ReadTo(name \o Bracketed(arguments), (b \o arguments) \o <<"close">>, FALSE)
  <1> DEFINE begin == <<"open">>
             end == <<"close">>
             opened == Append(name, "open")
             inside == opened \o arguments
             kept == b \o arguments
  <1>1. "open" \in Tokens /\ "close" \in Tokens /\ Words \union {"::"} \subseteq Tokens
    BY DEF Tokens, Marks
  <1>2. arguments \in Seq(Tokens) /\ name \in Seq(Tokens) /\ b \in Seq(Tokens)
    BY <1>1 DEF ReadTo
  <1>3. begin \in Seq(Tokens) /\ end \in Seq(Tokens)
    BY <1>1
  <1>4. ReadTo(opened, b, FALSE)
    BY OpenRead
  <1>5. name \o begin = opened
    BY <1>1, <1>2
  <1> HIDE DEF opened
  <1>6. ReadTo(inside, kept, FALSE)
    BY <1>4, ArgumentsStay
  <1>7. inside \in Seq(Tokens) /\ kept \in Seq(Tokens)
    BY <1>6 DEF ReadTo
  <1>8. inside = (name \o begin) \o arguments
    BY <1>5
  <1> HIDE DEF inside, kept
  <1>9. ReadTo(Append(inside, "close"), Append(kept, "close"), FALSE)
    BY <1>1, <1>6, OtherRead
  <1>10. inside \o end = Append(inside, "close") /\ kept \o end = Append(kept, "close")
    BY <1>1, <1>7
  <1> HIDE DEF begin, end
  <1>11. begin \o arguments \in Seq(Tokens)
    BY <1>2, <1>3, ConcatAt
  <1>12. (begin \o arguments) \o end \in Seq(Tokens)
    BY <1>3, <1>11, ConcatAt
  <1>13. Together(name, begin \o arguments, end)
    <2> DEFINE middle == begin \o arguments
    <2>1. middle \in Seq(Tokens)
      BY <1>11
    <2> HIDE DEF middle
    <2>2. Together(name, middle, end)
      BY <1>2, <1>3, <2>1, PutTogether
    <2> QED  BY <2>2 DEF middle
  <1>14. Together(name, begin, arguments)
    BY <1>2, <1>3, PutTogether
  <1>15. name \o ((begin \o arguments) \o end) = inside \o end
    BY <1>8, <1>13, <1>14 DEF Together
  <1>16. Bracketed(arguments) = (begin \o arguments) \o end
    BY DEF Bracketed, begin, end
  <1>17. ReadTo(name \o Bracketed(arguments), kept \o end, FALSE)
    BY <1>9, <1>10, <1>15, <1>16
  <1> QED  BY <1>12, <1>16, <1>17 DEF kept, end

(* Of what is added for a closure its name stays, among marks. *)
LEMMA ClosureRead ==
    ASSUME NEW name, NEW b, ReadTo(name, b, FALSE), NEW c \in Words
    PROVE  \E d : ReadTo(name \o ClosureTokens(c), d, FALSE) /\ Parts(d) = Append(Parts(b), c) /\ Plain(d)
  <1> DEFINE u == ClosureTokens(c)
             b1 == Append(b, "::")
             b2 == Append(b1, "tick")
             b3 == Append(b2, "2")
             b4 == Append(b3, "::")
             b5 == Append(b4, c)
  <1>1. /\ name \in Seq(Tokens) /\ b \in Seq(Tokens)
        /\ "::" \in Tokens /\ "tick" \in Tokens /\ "2" \in Tokens /\ c \in Tokens
        /\ c \notin {"anonymous", "quote", "open"} /\ c # "tick" /\ c \notin {"::", "tick", "2", "anonymous"}
    BY WordsAssumption DEF ReadTo, Tokens, Marks
  <1>2. /\ u[1] = "quote" /\ u[2] = "::" /\ u[3] = "tick" /\ u[4] = "2"
        /\ u[5] = "quote" /\ u[6] = "::" /\ u[7] = c
    BY DEF ClosureTokens
  <1>3. u \in Seq(Tokens) /\ Len(u) = 7
    BY ClosureIs
  <1> HIDE DEF u
  <1>4. ASSUME NEW k \in {0, 1, 2, 3, 4, 5, 6}
        PROVE  PutTo(name, u, k + 1) = Append(PutTo(name, u, k), u[k + 1])
    <2>1. k \in Nat /\ k + 1 \in 1 .. Len(u)
      BY <1>3
    <2> QED  BY <1>1, <1>3, <2>1, PutToOn
  <1>5. /\ PutTo(name, u, 1) = Append(PutTo(name, u, 0), "quote")
        /\ PutTo(name, u, 2) = Append(PutTo(name, u, 1), "::")
        /\ PutTo(name, u, 3) = Append(PutTo(name, u, 2), "tick")
        /\ PutTo(name, u, 4) = Append(PutTo(name, u, 3), "2")
        /\ PutTo(name, u, 5) = Append(PutTo(name, u, 4), "quote")
        /\ PutTo(name, u, 6) = Append(PutTo(name, u, 5), "::")
        /\ PutTo(name, u, 7) = Append(PutTo(name, u, 6), c)
    <2>1. 0 + 1 = 1 /\ 1 + 1 = 2 /\ 2 + 1 = 3 /\ 3 + 1 = 4 /\ 4 + 1 = 5 /\ 5 + 1 = 6 /\ 6 + 1 = 7
      OBVIOUS
    <2> QED  BY <1>2, <1>4, <2>1
  <1>6. PutTo(name, u, 0) = name /\ PutTo(name, u, 7) = name \o u
    BY <1>1, <1>3, PutToEnds
  <1>7. ReadTo(PutTo(name, u, 0), b, FALSE)
    BY <1>6
  <1>8. ReadTo(PutTo(name, u, 1), b, TRUE)
    <2>1. ReadTo(Append(PutTo(name, u, 0), "quote"), b, ~FALSE)
      BY <1>7, QuoteRead
    <2> QED  BY <1>5, <2>1
  <1> HIDE DEF b1, b2, b3, b4, b5
  <1>9. ReadTo(PutTo(name, u, 2), b1, TRUE)
    BY <1>1, <1>5, <1>8, OtherRead DEF b1
  <1>10. ReadTo(PutTo(name, u, 3), b2, TRUE)
    BY <1>1, <1>5, <1>9, OtherRead DEF b2
  <1>11. ReadTo(PutTo(name, u, 4), b3, TRUE)
    BY <1>1, <1>5, <1>10, OtherRead DEF b3
  <1>12. ReadTo(PutTo(name, u, 5), b3, FALSE)
    <2>1. ReadTo(Append(PutTo(name, u, 4), "quote"), b3, ~TRUE)
      BY <1>11, QuoteRead
    <2> QED  BY <1>5, <2>1
  <1>13. ReadTo(PutTo(name, u, 6), b4, FALSE)
    BY <1>1, <1>5, <1>12, OtherRead DEF b4
  <1>14. ReadTo(PutTo(name, u, 7), b5, FALSE)
    BY <1>1, <1>5, <1>13, OtherRead DEF b5
  <1>15. /\ b1 \in Seq(Tokens) /\ b2 \in Seq(Tokens) /\ b3 \in Seq(Tokens)
         /\ b4 \in Seq(Tokens)
    BY <1>9, <1>10, <1>11, <1>13 DEF ReadTo
  <1>16. Parts(b1) = Parts(b)
    BY <1>1, WithoutOn DEF b1, Parts
  <1>17. Parts(b2) = Parts(b1)
    BY <1>1, <1>15, WithoutOn DEF b2, Parts
  <1>18. Parts(b3) = Parts(b2)
    BY <1>1, <1>15, WithoutOn DEF b3, Parts
  <1>19. Parts(b4) = Parts(b3)
    BY <1>1, <1>15, WithoutOn DEF b4, Parts
  <1>20. Parts(b5) = Append(Parts(b4), c)
    <2>1. Without(Append(b4, c), {"::", "tick", "2", "anonymous"})
          = Append(Without(b4, {"::", "tick", "2", "anonymous"}), c)
      <3> DEFINE M == {"::", "tick", "2", "anonymous"}
      <3>1. c \in Tokens /\ c \notin M /\ b4 \in Seq(Tokens)
        BY <1>1, <1>15
      <3> HIDE DEF M
      <3> QED  BY <3>1, WithoutOn DEF M
    <2> QED  BY <2>1 DEF b5, Parts
  <1>21. Plain(b5)
    <2>1. c # "operator"
      BY WordsAssumption DEF Marks
    <2>2. Last(Append(b4, c)) = c
      BY <1>1, <1>15 DEF Last
    <2> QED  BY <2>1, <2>2 DEF Plain, b5
  <1> QED  BY <1>6, <1>14, <1>16, <1>17, <1>18, <1>19, <1>20, <1>21 DEF u

(* The anonymous namespaces are no parts. *)
LEMMA PartsKept == \A name \in Seq(Tokens) : Parts(Kept(name)) = Parts(name)
  <1> DEFINE T == {name \in Seq(Tokens) : Parts(Kept(name)) = Parts(name)}
  <1>1. <<>> \in T
    BY WithoutNone DEF Parts, Kept
  <1>2. ASSUME NEW name \in Seq(Tokens), NEW token \in Tokens, name \in T
        PROVE  Append(name, token) \in T
    <2>0. Append(name, token) \in Seq(Tokens) /\ Parts(Kept(name)) = Parts(name)
      BY <1>2
    <2>1. Kept(name) \in Seq(Tokens)
      BY WithoutOn DEF Kept
    <2>2. CASE token = "anonymous"
      <3>1. Kept(Append(name, token)) = Kept(name)
        BY <2>2, WithoutOn DEF Kept
      <3>2. Parts(Append(name, token)) = Parts(name)
        BY <2>2, WithoutOn DEF Parts
      <3> QED  BY <2>0, <3>1, <3>2
    <2>3. CASE token # "anonymous" /\ token \in {"::", "tick", "2"}
      <3>1. Kept(Append(name, token)) = Append(Kept(name), token)
        BY <2>3, WithoutOn DEF Kept
      <3>2. Parts(Append(name, token)) = Parts(name)
        BY <2>3, WithoutOn DEF Parts
      <3>3. Parts(Append(Kept(name), token)) = Parts(Kept(name))
        BY <2>1, <2>3, WithoutOn DEF Parts
      <3> QED  BY <2>0, <3>1, <3>2, <3>3
    <2>4. CASE token \notin {"::", "tick", "2", "anonymous"}
      <3>1. Kept(Append(name, token)) = Append(Kept(name), token)
        BY <2>4, WithoutOn DEF Kept
      <3>2. Parts(Append(name, token)) = Append(Parts(name), token)
        BY <2>4, WithoutOn DEF Parts
      <3>3. Parts(Append(Kept(name), token)) = Append(Parts(Kept(name)), token)
        BY <2>1, <2>4, WithoutOn DEF Parts
      <3> QED  BY <2>0, <3>1, <3>2, <3>3
    <2> QED  BY <2>2, <2>3, <2>4
  <1>3. Seq(Tokens) \subseteq T
    <2> HIDE DEF T
    <2> QED  BY <1>1, <1>2, SeqInduct
  <1> QED  BY <1>3

-----------------------------------------------------------------------------
(* A function is shown by its own name. *)

(* A name of dbgeng is its module, the backticks and what follows. *)
LEMMA DbgEngPathIs ==
    ASSUME NEW path \in Seq(PathNames), path # <<>>, NEW closures \in Seq(Words)
    PROVE  LET name == JoinPath(path) \o Closures(closures)
           IN  /\ name \in Seq(Tokens) /\ name # <<>> /\ name[1] # "tick" /\ Len(closures) \in Nat
               /\ DbgEngPath(path, closures)
                  = <<"module", "!">> \o ([i \in 1 .. Len(closures) |-> "tick"] \o name)
  <1> DEFINE S == Tokens \union {"module"}
             before == <<"module", "!">>
             ticks == [i \in 1 .. Len(closures) |-> "tick"]
             join == JoinPath(path)
             added == Closures(closures)
             name == join \o added
  <1>1. join \in Seq(Tokens) /\ join # <<>> /\ join[1] # "tick"
    BY PathBegins
  <1>2. added \in Seq(Tokens)
    BY EachClosureSeq, Flattened DEF Closures
  <1>3. Len(closures) \in Nat /\ DOMAIN closures = 1 .. Len(closures)
    OBVIOUS
  <1>4. DbgEngPath(path, closures) = ((before \o ticks) \o join) \o added
    BY <1>3 DEF DbgEngPath, Closures, EachClosure
  <1>5. "module" \in S /\ "!" \in S /\ "tick" \in S /\ Tokens \subseteq S
    BY DEF Tokens, Marks
  <1> HIDE DEF S
  <1>6. before \in Seq(S)
    BY <1>5
  <1>7. ticks \in Seq(S)
    <2>1. ticks \in [1 .. Len(closures) -> S]
      BY <1>5
    <2> HIDE DEF ticks
    <2> QED  BY <1>3, <2>1, Written
  <1> HIDE DEF before, ticks, join, added
  <1>8. join \in Seq(S) /\ added \in Seq(S)
    BY <1>1, <1>2, <1>5
  <1>9. before \o ticks \in Seq(S) /\ ticks \o join \in Seq(S)
    BY <1>6, <1>7, <1>8, ConcatAt
  <1>10. Together(before, ticks, join)
    BY <1>6, <1>7, <1>8, PutTogether
  <1>11. Together(before, ticks \o join, added)
    <2> DEFINE rest == ticks \o join
    <2>1. rest \in Seq(S)
      BY <1>9
    <2> HIDE DEF rest
    <2>2. Together(before, rest, added)
      BY <1>6, <1>8, <2>1, PutTogether
    <2> QED  BY <2>2 DEF rest
  <1>12. Together(ticks, join, added)
    BY <1>7, <1>8, PutTogether
  <1>13. /\ name \in Seq(Tokens) /\ Len(name) = Len(join) + Len(added)
         /\ \A i \in 1 .. Len(join) : name[i] = join[i]
    BY <1>1, <1>2, ConcatAt
  <1>14. name # <<>> /\ name[1] # "tick"
    <2>1. 1 \in 1 .. Len(join) /\ Len(added) \in Nat /\ Len(join) \in Nat
      BY <1>1, <1>2
    <2>2. Len(name) # 0
      BY <1>13, <2>1
    <2>3. name[1] = join[1]
      BY <1>13, <2>1
    <2> HIDE DEF name
    <2> QED  BY <1>1, <1>13, <2>2, <2>3
  <1>15. DbgEngPath(path, closures) = before \o (ticks \o name)
    BY <1>4, <1>10, <1>11, <1>12 DEF Together
  <1> HIDE DEF name
  <1> QED  BY <1>3, <1>13, <1>14, <1>15 DEF name, join, added, before, ticks

(* What follows the module and the backticks. *)
LEMMA DbgEngNameStripped ==
    ASSUME NEW path \in Seq(PathNames), path # <<>>, NEW closures \in Seq(Words), NEW t \in Seq(Tokens)
    PROVE  /\ JoinPath(path) \o Closures(closures) \in Seq(Tokens)
           /\ Stripped(DbgEngPath(path, closures)) = JoinPath(path) \o Closures(closures)
           /\ Stripped(DbgEngPath(path, closures) \o t) = (JoinPath(path) \o Closures(closures)) \o t
  <1> DEFINE S == Tokens \union {"module"}
             name == JoinPath(path) \o Closures(closures)
             n == Len(closures)
             before == <<"module", "!">>
             ticks == [i \in 1 .. n |-> "tick"]
             all == name \o t
  <1>1. /\ name \in Seq(Tokens) /\ name # <<>> /\ name[1] # "tick" /\ n \in Nat
        /\ DbgEngPath(path, closures) = before \o (ticks \o name)
    BY DbgEngPathIs
  <1> HIDE DEF name, n
  <1>2. Stripped(before \o (ticks \o name)) = name
    BY <1>1, StrippedIs
  <1>3. /\ all \in Seq(Tokens) /\ Len(all) = Len(name) + Len(t)
        /\ Len(name) \in Nat /\ Len(t) \in Nat
        /\ \A i \in 1 .. Len(name) : all[i] = name[i]
    BY <1>1, ConcatAt
  <1>4. Len(name) # 0
    BY <1>1
  <1> HIDE DEF all
  <1>5. all # <<>> /\ all[1] # "tick"
    <2>1. Len(all) # 0
      BY <1>3, <1>4
    <2>2. 1 \in 1 .. Len(name)
      BY <1>3, <1>4
    <2> QED  BY <1>1, <1>3, <2>1, <2>2
  <1>6. Stripped(before \o (ticks \o all)) = all
    BY <1>1, <1>3, <1>5, StrippedIs
  <1>7. "module" \in S /\ "!" \in S /\ "tick" \in S /\ Tokens \subseteq S
    BY DEF Tokens, Marks
  <1> HIDE DEF S
  <1>8. before \in Seq(S) /\ name \in Seq(S) /\ t \in Seq(S)
    BY <1>1, <1>7
  <1>9. ticks \in Seq(S)
    <2>1. ticks \in [1 .. n -> S]
      BY <1>7
    <2> HIDE DEF ticks
    <2> QED  BY <1>1, <2>1, Written
  <1> HIDE DEF before, ticks
  <1>10. ticks \o name \in Seq(S)
    BY <1>8, <1>9, ConcatAt
  <1>11. Together(before, ticks \o name, t)
    <2> DEFINE middle == ticks \o name
    <2>1. middle \in Seq(S)
      BY <1>10
    <2> HIDE DEF middle
    <2>2. Together(before, middle, t)
      BY <1>8, <2>1, PutTogether
    <2> QED  BY <2>2 DEF middle
  <1>12. Together(ticks, name, t)
    BY <1>8, <1>9, PutTogether
  <1>13. DbgEngPath(path, closures) \o t = before \o (ticks \o all)
    BY <1>1, <1>11, <1>12 DEF all, Together
  <1>14. Stripped(DbgEngPath(path, closures)) = name
    BY <1>1, <1>2
  <1>15. Stripped(DbgEngPath(path, closures) \o t) = name \o t
    BY <1>6, <1>13 DEF all
  <1> QED  BY <1>1, <1>14, <1>15 DEF name

(* Without closures the path is what is left. *)
LEMMA DbgEngKept ==
    ASSUME NEW path \in Seq(PathNames), path # <<>>
    PROVE  CleanDbgEng(DbgEngPath(path, <<>>)) = Visible(path)
  <1> DEFINE join == JoinPath(path)
             seen == [buffer |-> Kept(join), skip |-> FALSE]
  <1>1. join \in Seq(Tokens) /\ Reaches("dbgeng", join, seen)
    BY JoinPathRead DEF PathRead
  <1>2. Closures(<<>>) = <<>>
    <2>1. EachClosure(<<>>) = <<>>
      <3>1. DOMAIN <<>> = {}
        OBVIOUS
      <3> QED  BY <3>1 DEF EachClosure
    <2> QED  BY <2>1, FlattenNone DEF Closures
  <1>3. join \o <<>> = join
    <2> HIDE DEF join
    <2> QED  BY <1>1
  <1>4. Stripped(DbgEngPath(path, <<>>)) = join
    <2>1. <<>> \in Seq(Words) /\ <<>> \in Seq(Tokens)
      OBVIOUS
    <2> QED  BY <1>2, <1>3, <2>1, DbgEngNameStripped
  <1>5. Len(join) \in Nat
    BY <1>1
  <1>6. seen.buffer = Kept(join)
    OBVIOUS
  <1> HIDE DEF seen, join
  <1>7. CleanDbgEng(DbgEngPath(path, <<>>)) = seen.buffer
    BY <1>1, <1>4, <1>5, DbgEngCleans
  <1> QED  BY <1>6, <1>7 DEF Visible, Kept, join

(* Any number of closures keeps the parts of the path and the closures. *)
LEMMA ClosuresRead ==
    ASSUME NEW path \in Seq(PathNames)
    PROVE  \A closures \in Seq(Words) :
              \E b : /\ ReadTo(JoinPath(path) \o Closures(closures), b, FALSE)
                     /\ Parts(b) = Parts(JoinPath(path) \o closures) /\ Plain(b)
  <1> DEFINE join == JoinPath(path)
             Read(closures) == \E b : /\ ReadTo(join \o Closures(closures), b, FALSE)
                                      /\ Parts(b) = Parts(join \o closures) /\ Plain(b)
             T == {closures \in Seq(Words) : Read(closures)}
  <1>1. /\ join \in Seq(Tokens) /\ Reaches("dbgeng", join, [buffer |-> Kept(join), skip |-> FALSE])
        /\ Plain(Kept(join))
    BY JoinPathRead DEF PathRead, AtOperator, Plain
  <1> HIDE DEF join
  <1>2. Words \subseteq Tokens
    BY DEF Tokens
  <1>3. <<>> \in T
    <2>1. EachClosure(<<>>) = <<>>
      <3>1. DOMAIN <<>> = {}
        OBVIOUS
      <3> QED  BY <3>1 DEF EachClosure
    <2>2. Closures(<<>>) = <<>> /\ <<>> \in Seq(Words)
      BY <2>1, FlattenNone DEF Closures
    <2>3. join \o <<>> = join
      BY <1>1
    <2>4. Kept(join) \in Seq(Tokens)
      <3>1. "open" \in Tokens
        BY DEF Tokens, Marks
      <3> QED  BY <1>1, <3>1, WithoutOn DEF Kept
    <2>5. ReadTo(join, Kept(join), FALSE)
      BY <1>1, <2>4 DEF ReadTo
    <2>6. Parts(Kept(join)) = Parts(join)
      BY <1>1, PartsKept
    <2> QED  BY <1>1, <2>2, <2>3, <2>5, <2>6
  <1>4. ASSUME NEW closures \in Seq(Words), NEW c \in Words, closures \in T
        PROVE  Append(closures, c) \in T
    <2> DEFINE name == join \o Closures(closures)
               x == ClosureTokens(c)
               more == Append(closures, c)
    <2>1. PICK b : ReadTo(name, b, FALSE) /\ Parts(b) = Parts(join \o closures)
      BY <1>4
    <2>2. PICK d : ReadTo(name \o x, d, FALSE) /\ Parts(d) = Append(Parts(b), c) /\ Plain(d)
      <3> HIDE DEF name
      <3> QED  BY <2>1, ClosureRead
    <2>3. Closures(closures) \in Seq(Tokens) /\ Closures(more) = Closures(closures) \o x
      BY ClosuresOn
    <2>4. x \in Seq(Tokens)
      BY ClosureIs
    <2> HIDE DEF x
    <2>5. name \o x = join \o Closures(more)
      <3>1. (join \o Closures(closures)) \o x = join \o (Closures(closures) \o x)
        BY <1>1, <2>3, <2>4, ConcatAssociative
      <3> QED  BY <2>3, <3>1
    <2>6. closures \in Seq(Tokens) /\ c \in Tokens
      BY <1>2
    <2>7. join \o more = Append(join \o closures, c)
      BY <1>1, <2>6, ConcatAppend
    <2>8. c \notin {"::", "tick", "2", "anonymous"}
      BY WordsAssumption DEF Marks
    <2>9. Parts(Append(join \o closures, c)) = Append(Parts(join \o closures), c)
      <3>1. join \o closures \in Seq(Tokens)
        BY <1>1, <2>6, ConcatAt
      <3> QED  BY <2>6, <2>8, <3>1, WithoutOn DEF Parts
    <2>10. more \in Seq(Words)
      OBVIOUS
    <2> HIDE DEF name, more
    <2>11. Parts(d) = Parts(join \o more)
      BY <2>1, <2>2, <2>7, <2>9
    <2> QED  BY <2>2, <2>5, <2>10, <2>11 DEF more
  <1>5. Seq(Words) \subseteq T
    <2> HIDE DEF T
    <2> QED  BY <1>3, <1>4, SeqInduct
  <1> QED  BY <1>5 DEF join

(* What has been kept when all is read is the name that is shown. *)
LEMMA ReadClean ==
    ASSUME NEW given, NEW name, NEW b, Stripped(given) = name, ReadTo(name, b, FALSE)
    PROVE  CleanDbgEng(given) = b
  <1> DEFINE seen == [buffer |-> b, skip |-> FALSE]
  <1>1. Reaches("dbgeng", name, seen) /\ Len(name) \in Nat
    BY DEF ReadTo
  <1>2. seen.buffer = b
    OBVIOUS
  <1> HIDE DEF seen
  <1>3. CleanDbgEng(given) = seen.buffer
    BY <1>1, DbgEngCleans
  <1> QED  BY <1>2, <1>3

(* For a closure all parts are left, and with them the arguments there     *)
(* are.                                                                    *)
LEMMA ClosuresKept ==
    ASSUME NEW path \in Seq(PathNames), path # <<>>, NEW closures \in Seq(Words),
           NEW arguments \in Seq(Words \union {"::"})
    PROVE  /\ Parts(CleanDbgEng(DbgEngPath(path, closures))) = Parts(JoinPath(path) \o closures)
           /\ CleanDbgEng(DbgEngName(path, closures, arguments))
              = (CleanDbgEng(DbgEngPath(path, closures)) \o arguments) \o <<"close">>
  <1> DEFINE name == JoinPath(path) \o Closures(closures)
             t == Bracketed(arguments)
  <1>1. PICK b : ReadTo(name, b, FALSE) /\ Parts(b) = Parts(JoinPath(path) \o closures) /\ Plain(b)
    BY ClosuresRead
  <1> HIDE DEF name
  <1>2. t \in Seq(Tokens) /\ ReadTo(name \o t, (b \o arguments) \o <<"close">>, FALSE)
    BY <1>1, BracketsRead
  <1> HIDE DEF t
  <1>3. Stripped(DbgEngPath(path, closures)) = name /\ Stripped(DbgEngPath(path, closures) \o t) = name \o t
    BY <1>2, DbgEngNameStripped DEF name
  <1>4. CleanDbgEng(DbgEngPath(path, closures)) = b
    BY <1>1, <1>3, ReadClean
  <1>5. CleanDbgEng(DbgEngPath(path, closures) \o t) = (b \o arguments) \o <<"close">>
    BY <1>2, <1>3, ReadClean
  <1> QED  BY <1>1, <1>4, <1>5 DEF DbgEngName, t

(* Every function of a call stack is shown by its own name, whatever its   *)
(* path, the closures it is within and its arguments, which are left out   *)
(* by LLDB's driver and kept by the one of dbgeng                          *)
(* (DbgEngSession::cleanFunctionName, LLDBContext::getStackFrame).         *)
THEOREM NamesCorrect == NamesSpec => []NamesKept
  <1>1. ASSUME symbol \in Symbols  PROVE NamesKept
    <2>1. /\ symbol.path \in Seq(PathNames) /\ symbol.path # <<>>
          /\ symbol.closures \in Seq(Words) /\ symbol.arguments \in Seq(Words \union {"::"})
      BY <1>1, SymbolsAssumption DEF AnySymbol, PathNames
    <2>2. CleanLLDB(LLDBName(symbol.path, symbol.arguments)) = Visible(symbol.path)
      BY <2>1, LLDBKept
    <2>3. CleanDbgEng(DbgEngPath(symbol.path, <<>>)) = Visible(symbol.path)
      BY <2>1, DbgEngKept
    <2>4. /\ Parts(CleanDbgEng(DbgEngPath(symbol.path, symbol.closures)))
             = Parts(JoinPath(symbol.path) \o symbol.closures)
          /\ CleanDbgEng(DbgEngName(symbol.path, symbol.closures, symbol.arguments))
             = (CleanDbgEng(DbgEngPath(symbol.path, symbol.closures)) \o symbol.arguments) \o <<"close">>
      BY <2>1, ClosuresKept
    <2> QED  BY <2>2, <2>3, <2>4 DEF NamesKept, NameKept
  <1>2. NamesInit => symbol \in Symbols
    BY DEF NamesInit
  <1>3. symbol \in Symbols /\ [UNCHANGED symbol]_symbol => (symbol \in Symbols)'
    OBVIOUS
  <1>4. NamesSpec => [](symbol \in Symbols)
    BY <1>2, <1>3, PTL DEF NamesSpec
  <1> QED  BY <1>1, <1>4, PTL
=============================================================================
