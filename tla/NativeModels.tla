------------------------------ MODULE NativeModels ------------------------------
(***************************************************************************)
(* How the containers of the target are read through dbgmodel while it is  *)
(* stopped, hash maps and what has named fields, element by element,       *)
(* behind the caches of Indexable and Keyable.  A container is given by    *)
(* what the models read of its memory:                                     *)
(*    [kind = "map", bucket, mask, ignore, chains, keyCache, hashCache]    *)
(*    [kind = "class", "locals" or "anon", fields, fixed, table]           *)
(* where fields is a sequence of [name, data], of which the fixed first    *)
(* ones are in the object and the others in the table that an anonymous    *)
(* object has once it was given fields at run time.                        *)
(* An element of a chain is [key, hash, value].  A key is found again by   *)
(* its value: an int, a text or an address.                                *)
(***************************************************************************)
EXTENDS Naturals, Sequences, SequencesExt, FiniteSetsExt, Functions

CONSTANTS
    Containers, \* the containers considered
    Keys,       \* keys and names asked for
    HashOf,     \* what the caller of get takes for the hash of a key
    NNull,      \* the value null
    Unchecked,  \* a null behind a pointer whose model follows it
    Failure,    \* what is caught of the models, as Result.Error
    Garbage     \* a result nobody has set

(***************************************************************************)
(* What hxcpp keeps to: an element is in the chain of its hash, no key is  *)
(* there twice, and the keys with their hashes are cached; the names of an *)
(* object are distinct.  As the program is stopped, nothing changes that.  *)
(***************************************************************************)
MapShape(map) ==
    /\ map.kind = "map" /\ map.mask \in Nat /\ map.bucket = (map.keyCache # <<>>)
    /\ map.keyCache \in Seq(Range(map.keyCache)) /\ IsInjective(map.keyCache)
    /\ map.hashCache \in [DOMAIN map.keyCache -> Nat]
    /\ DOMAIN map.chains = 0 .. map.mask
    /\ \A b \in DOMAIN map.chains : map.chains[b] \in Seq(Range(map.chains[b]))
    /\ \A b, c \in DOMAIN map.chains : \A i \in DOMAIN map.chains[b], j \in DOMAIN map.chains[c] :
          map.chains[b][i].key = map.chains[c][j].key => b = c /\ i = j
    /\ \A b \in DOMAIN map.chains : \A e \in Range(map.chains[b]) : e.key \in Range(map.keyCache)
    /\ \A i \in DOMAIN map.keyCache :
          \E e \in Range(map.chains[map.hashCache[i] % (map.mask + 1)]) :
              e.key = map.keyCache[i] /\ (map.ignore \/ e.hash = map.hashCache[i])

NamedShape(object) ==
    /\ object.kind \in {"class", "locals", "anon"}
    /\ object.fields \in Seq(Range(object.fields))
    /\ object.fixed \in 0 .. Len(object.fields)
    /\ object.fixed < Len(object.fields) => object.table
    /\ object.table => object.kind = "anon"
    /\ \A i, j \in DOMAIN object.fields : object.fields[i].name = object.fields[j].name => i = j

ASSUME ContainersAssumption == \A c \in Containers : MapShape(c) \/ NamedShape(c)

(* The hash computed from a key is the one hxcpp has computed. *)
ASSUME HashAssumption ==
    /\ HashOf \in [Keys -> Nat]
    /\ \A c \in Containers : c.kind = "map" =>
          \A i \in DOMAIN c.keyCache : c.keyCache[i] \in Keys => c.hashCache[i] = HashOf[c.keyCache[i]]

VARIABLES
    container,  \* what the target holds
    lazyCount,  \* Indexable::lazyCount: <<>> or <<count>>
    indexCache, \* Indexable::indexCache
    keyCache    \* Keyable::keyCache

modelVars == <<container, lazyCount, indexCache, keyCache>>

ModelsInit ==
    /\ container \in Containers
    /\ lazyCount = <<>> /\ indexCache = <<>> /\ keyCache = <<>>

-----------------------------------------------------------------------------
(* Reading the memory. *)

(* inHash & mask, where the mask is one less than a power of two. *)
Bucket(map, hash) == map.chains[hash % (map.mask + 1)]

(* CheckHash, which the elements of int keys have no hash for, and CheckKey. *)
IsElement(map, element, hash, key) ==
    /\ map.ignore \/ element.hash = hash
    /\ element.key = key

(* Mutants of Walk: only the head of a chain is looked at, or the key of   *)
(* an element is not compared.                                             *)
WalkHead(map, hash, key) ==
    LET chain == Bucket(map, hash)
    IN IF chain # <<>> /\ IsElement(map, chain[1], hash, key) THEN 1 ELSE 0

WalkAnyKey(map, hash, key) ==
    SelectInSeq(Bucket(map, hash), LAMBDA e : map.ignore \/ e.hash = hash)

(* The place in its chain of the first element that is the one asked for,  *)
(* or 0.                                                                   *)
Walk(map, hash, key) ==
    SelectInSeq(Bucket(map, hash), LAMBDA e : IsElement(map, e, hash, key))

(* KeyValue(L"HxcppdbgModelData"), and objectToHxcppdbgModelData, which    *)
(* looks at the pointer first.                                             *)
ByKeyValue(data) == IF data = Unchecked THEN Failure ELSE data
Checked(data)    == IF data = Unchecked THEN NNull ELSE data

(* NativeNamedModelData: an element is listed when its value is read. *)
NamedData(name, data) == IF data = Failure THEN Failure ELSE [name |-> name, data |-> data]

(* ModelHash::at: the key and the hash at an index of the caches of the    *)
(* map, and the element they lead to.                                      *)
MapAt(map, i) ==
    LET hash  == map.hashCache[i]
        place == Walk(map, hash, map.keyCache[i])
        found == Bucket(map, hash)[place]
    IN IF ~map.bucket \/ place = 0 THEN NNull ELSE NamedData(found.key, ByKeyValue(found.value))

(* ModelHash::get, with the hash the lazy map has computed. *)
MapGet(map, key) ==
    LET place == Walk(map, HashOf[key], key)
    IN IF ~map.bucket \/ place = 0 THEN NNull ELSE Checked(Bucket(map, HashOf[key])[place].value)

(* ModelClassObj::at, LazyLocalStore::at, ModelAnonObj::at: the table of   *)
(* an anonymous object is asked with too few arguments.                    *)
FieldAt(object, i) ==
    LET field == object.fields[i]
    IN IF i > object.fixed THEN Failure
       ELSE NamedData(field.name, IF object.kind = "locals" THEN Checked(field.data) ELSE ByKeyValue(field.data))

(* ModelClassObj::get and LazyLocalStore::get, where FieldValue or         *)
(* KeyValue throws for a name there is not, and ModelAnonObj::get, which   *)
(* asks the table and then has no result, so that there is any.            *)
FieldGets(object, name) ==
    LET place == SelectInSeq(object.fields, LAMBDA f : f.name = name)
    IN IF place \in 1 .. object.fixed THEN {ByKeyValue(object.fields[place].data)}
       ELSE IF object.table THEN {Failure, Garbage}
       ELSE IF object.kind = "anon" THEN {NNull} ELSE {Failure}

Count   == IF container.kind = "map" THEN Len(container.keyCache) ELSE Len(container.fields)
At(i)   == IF container.kind = "map" THEN MapAt(container, i) ELSE FieldAt(container, i)
Gets(k) == IF container.kind = "map" THEN {MapGet(container, k)} ELSE FieldGets(container, k)

-----------------------------------------------------------------------------
(* A Haxe map with one more entry, or another value of one it has. *)
Put(map, key, value) == [k \in DOMAIN map \union {key} |-> IF k = key THEN value ELSE map[k]]

(* Indexable.count *)
AskCount ==
    /\ lazyCount = <<>>
    /\ lazyCount' = <<Count>>
    /\ UNCHANGED <<container, indexCache, keyCache>>

(* Indexable.at: VariableCache refreshes what it lists, the expression     *)
(* evaluator takes what the cache has.                                     *)
AskAt ==
    /\ lazyCount # <<>>
    /\ \E i \in 1 .. lazyCount[1], refresh \in BOOLEAN :
          /\ refresh \/ i \notin DOMAIN indexCache
          /\ indexCache' = Put(indexCache, i, At(i))
    /\ UNCHANGED <<container, lazyCount, keyCache>>

(* Keyable.get *)
AskGet ==
    /\ \E k \in Keys, refresh \in BOOLEAN :
          /\ refresh \/ k \notin DOMAIN keyCache
          /\ \E data \in Gets(k) : keyCache' = Put(keyCache, k, data)
    /\ UNCHANGED <<container, lazyCount, indexCache>>

(* The target is resumed and stops again: what it holds has changed, and   *)
(* the cache of locals has been cleared, so it is read by new models.      *)
Resume ==
    /\ container' \in Containers
    /\ lazyCount' = <<>> /\ indexCache' = <<>> /\ keyCache' = <<>>

ModelsNext == AskCount \/ AskAt \/ AskGet \/ Resume

ModelsSpec == ModelsInit /\ [][ModelsNext]_modelVars

-----------------------------------------------------------------------------
(* What the container holds: all elements of all chains, or all fields. *)
Elements ==
    IF container.kind = "map"
    THEN {[name |-> e.key, data |-> e.value] :
             e \in UNION {Range(container.chains[b]) : b \in DOMAIN container.chains}}
    ELSE Range(container.fields)

(* A field an anonymous object was given at run time. *)
GivenLater(e) ==
    /\ container.kind # "map"
    /\ \E i \in DOMAIN container.fields : i > container.fixed /\ container.fields[i] = e

(* What may be read of a value: a null behind a pointer that is followed   *)
(* is null to some models and an exception to others.                      *)
ReadAs(data) == IF data = Unchecked THEN {NNull, Failure} ELSE {data}

ShownAs(e) == IF GivenLater(e) THEN {Failure} ELSE {NamedData(e.name, data) : data \in ReadAs(e.data)}

(* Listed from 0 to its count a container shows each of its elements once, *)
(* whatever buckets and collisions it has and in whichever order, with or  *)
(* without the cache, the elements are asked for (Indexable, ModelHash.at, *)
(* ModelClassObj.at, LazyLocalStore.at, ModelAnonObj.at).  Of the elements *)
(* that cannot be read only a failure is shown, at their place.            *)
ElementsOnce ==
    /\ lazyCount # <<>> => lazyCount[1] = Cardinality(Elements)
    /\ \A i \in DOMAIN indexCache : \E e \in Elements : indexCache[i] \in ShownAs(e)
    /\ \A i, j \in DOMAIN indexCache :
          indexCache[i] = indexCache[j] => i = j \/ indexCache[i] = Failure
    /\ lazyCount # <<>> /\ DOMAIN indexCache = 1 .. lazyCount[1] =>
          \A e \in Elements : \E i \in DOMAIN indexCache : indexCache[i] \in ShownAs(e)

(* What a name finds is the value that is in the container under it.  A    *)
(* name that is not there finds null in a map and in an anonymous object,  *)
(* and an error in an object of a class and among the locals (Keyable,     *)
(* ModelHash.get, ModelClassObj.get, LazyLocalStore.get,                   *)
(* ModelAnonObj.get); of an anonymous object with a table only the fixed   *)
(* fields can be relied on.                                                *)
KeysAgree ==
    \A k \in DOMAIN keyCache :
        LET named == {e \in Elements : e.name = k}
        IN \/ \E e \in named : ~GivenLater(e) /\ keyCache[k] \in ReadAs(e.data)
           \/ named = {} /\ keyCache[k] = IF container.kind \in {"map", "anon"} THEN NNull ELSE Failure
           \/ /\ container.kind # "map" /\ container.table
              /\ \A e \in named : GivenLater(e)
=============================================================================
