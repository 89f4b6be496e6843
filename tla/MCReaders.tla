------------------------------- MODULE MCReaders -------------------------------
(* Instances of what the adapter reads: the stream of its client, the      *)
(* containers, the values, the symbol names and the threads of the target. *)
(* The readers share nothing, so a behaviour has one of them at work.      *)
EXTENDS InputBuffer, NativeModels, NativeValues, SymbolNames, ThreadList, TLC

VARIABLES
    reader,     \* which of them
    kept        \* a value and the place where the program keeps it

readerVars == <<vars, modelVars, listVars, reader, symbol, kept>>

MCBodies == {<<1>>, <<1, 1>>, <<1, 2>>}

(* Keys 0 to 4, of which 1 and 3 share a bucket of two and 2 and 4 have    *)
(* the same hash.  The hash of an int is itself, and its map has no other. *)
MCKeys == 0 .. 4
MCHashOf == [k \in MCKeys |-> IF k = 4 THEN 2 ELSE k]

(* The value of key 0 is a null behind a pointer. *)
ValueOf(k) == IF k = 0 THEN Unchecked ELSE k + 10

(* The map of some keys in the order of their insertion: new elements are  *)
(* put at the head of a chain.                                             *)
Map(keys, mask, ignore) ==
    [kind |-> "map", bucket |-> keys # <<>>, mask |-> mask, ignore |-> ignore,
     chains |-> [b \in 0 .. mask |->
                   LET here == SelectSeq(Reverse(keys), LAMBDA k : MCHashOf[k] % (mask + 1) = b)
                   IN [i \in DOMAIN here |->
                         [key |-> here[i], hash |-> MCHashOf[here[i]], value |-> ValueOf(here[i])]]],
     keyCache |-> keys,
     hashCache |-> [i \in DOMAIN keys |-> MCHashOf[keys[i]]]]

Named(kind, keys, fixed, table) ==
    [kind |-> kind, fields |-> [i \in DOMAIN keys |-> [name |-> keys[i], data |-> ValueOf(keys[i])]],
     fixed |-> fixed, table |-> table]

MCContainers ==
    {Map(keys, mask, ignore) : keys \in {<<>>, <<1>>, <<1, 3>>, <<2, 4>>, <<4, 2>>, <<3, 2, 4>>, <<4, 1, 2>>, <<0, 4, 2, 1>>},
                               mask \in {0, 1, 3}, ignore \in BOOLEAN}
    \union {Named(kind, <<2, 0, 1>>, 3, FALSE) : kind \in {"class", "locals", "anon"}}
    \union {Named("anon", <<2, 0, 1>>, fixed, TRUE) : fixed \in {0, 2, 3}}
    \union {Named("locals", <<>>, 0, FALSE)}

MCWords == {"f", "g", "hx", "C_obj", "closure_0", "closure_1", "int", "Dynamic"}

MCSymbols ==
    [path : {<<"f">>, <<"hx", "g">>, <<"hx", "anonymous", "g">>, <<"hx", "C_obj", "operator()">>},
     closures : {<<>>, <<"closure_0">>, <<"closure_1", "closure_0">>},
     arguments : {<<>>, <<"int">>, <<"int", "::", "Dynamic">>}]

NoSymbol == [path |-> <<"f">>, closures |-> <<>>, arguments |-> <<>>]

(* Values of a Haxe program, as what reading them should give. *)
IntValue(i)    == [type |-> "intrinsic", kind |-> "int", carrier |-> "I4", value |-> i]
DoubleValue(x) == [type |-> "intrinsic", kind |-> "float", carrier |-> "R8", value |-> x]
BoolValue(b)   == [type |-> "intrinsic", kind |-> "bool", carrier |-> "BOOL", value |-> b]
Text(cs)       == [type |-> "String", wide |-> FALSE, chars |-> cs]
Wide(cs)       == [type |-> "String", wide |-> TRUE, chars |-> cs]
Many(t)        == [type |-> t, children |-> <<IntValue(1), IntValue(2)>>]

MCIntrinsics == {IntValue(0), IntValue(7), DoubleValue(2), BoolValue(TRUE)}
MCTexts      == {Text(<<>>), Text(<<3, 5>>), Wide(<<3, ByteLimit + 1>>)}
MCObjects    == {Many("Array"), Many("Class"), Many("Anon"), Many("Enum")}
MCNull       == [type |-> "null"]

Expected(value) ==
    CASE value = MCNull        -> NullData
      [] value \in MCTexts     -> Data("HxString", value.chars)
      [] value \in MCObjects   -> Data(value.type, value.children)
      [] value \in MCIntrinsics ->
            Data(CASE value.kind = "int" -> "NInt" [] value.kind = "float" -> "NFloat"
                   [] value.kind = "bool" -> "NBool", value.value)

(* How hxcpp keeps a value where the type is known, and where it is not. *)
Pointer(t, value) == [type |-> t, to |-> IF value = MCNull THEN <<>> ELSE <<value>>]

Typed(value) == IF value \in MCObjects \union {MCNull} THEN Pointer("ObjectPtr", value) ELSE value

Boxed(value) ==
    Pointer("Dynamic", CASE value \in MCIntrinsics -> [type |-> "Boxed", value |-> value]
                         [] value \in MCTexts      -> [type |-> "StringData", value |-> value]
                         [] OTHER                  -> value)

Variant(value) ==
    CASE value \in MCIntrinsics -> [type |-> "Variant", holds |-> "intrinsic", value |-> value]
      [] value \in MCTexts      -> [type |-> "Variant", holds |-> "string", string |-> value]
      [] OTHER -> [type |-> "Variant", holds |-> "object",
                   to |-> IF value = MCNull THEN <<>> ELSE <<value>>]

(* An array whose elements have no type keeps one of any. *)
Virtual(value) ==
    [type |-> "ObjectPtr", to |-> <<[type |-> "VirtualArray", to |->
        IF value = MCNull THEN <<>> ELSE <<value>>]>>]

MCPlaces == {"local", "dynamic local", "array local", "native field", "element", "dynamic element",
             "field", "argument", "anonymous field"}

MCKept ==
    {k \in [value : MCIntrinsics \union MCTexts \union MCObjects \union {MCNull}, place : MCPlaces] :
        k.place = "array local" => k.value \in {Many("Array"), MCNull}}

(* What is shown of it: NativeModelData, or an exception. *)
Shown ==
    LET Child(type, object) == ChildData([type |-> type, children |-> <<object>>], 1)
    IN CASE kept.place = "local"           -> ObjectData(Typed(kept.value))
         [] kept.place = "dynamic local"   -> ObjectData(Boxed(kept.value))
         [] kept.place = "array local"     -> ObjectData(Virtual(kept.value))
         [] kept.place = "native field"    -> Child("udt", Typed(kept.value))
         [] kept.place = "element"         -> Child("Array", Typed(kept.value))
         [] kept.place = "dynamic element" -> Child("Array", Boxed(kept.value))
         [] kept.place = "field"           -> Child("Class", Typed(kept.value))
         [] kept.place = "argument"        -> Child("Enum", Variant(kept.value))
         [] kept.place = "anonymous field" -> Child("Anon", Variant(kept.value))

MCInit ==
    /\ reader \in {"client", "memory", "names", "values", "threads"}
    /\ Init /\ ModelsInit /\ NamesInit /\ ThreadsInit
    /\ reader # "client" => sent = <<>>
    /\ reader # "memory" => container = Map(<<>>, 0, FALSE)
    /\ reader # "names" => symbol = NoSymbol
    /\ kept \in IF reader = "values" THEN MCKept ELSE {[value |-> MCNull, place |-> "local"]}

MCNext ==
    /\ UNCHANGED <<reader, symbol, kept>>
    /\ \/ reader = "client" /\ OnInput /\ UNCHANGED <<modelVars, listVars>>
       \/ reader = "memory" /\ ModelsNext /\ UNCHANGED <<vars, listVars>>
       \/ reader = "threads" /\ ThreadsNext /\ UNCHANGED <<vars, modelVars>>

MCSpec == MCInit /\ [][MCNext]_readerVars

(* A value is shown as what it is, wherever the program keeps it: in a     *)
(* variable, an element, a field, an argument of an enum, with or without  *)
(* a type (objectToHxcppdbgModelData and the models it leads through).     *)
(* Where a null is read through a pointer that is not looked at, the       *)
(* exception is instead of null; and a wide string in a Variant is none of *)
(* chars.                                                                  *)
ValuesShown ==
    \/ Shown = Expected(kept.value)
    \/ kept.value = MCNull /\ Shown = NoData
       /\ kept.place \in {"element", "field", "argument", "anonymous field"}
    \/ kept.value \in MCTexts /\ kept.value.wide
       /\ kept.place \in {"argument", "anonymous field"}
=============================================================================
