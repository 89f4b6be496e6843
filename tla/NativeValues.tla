------------------------------ MODULE NativeValues ------------------------------
(***************************************************************************)
(* How dbgmodel reads one value of the stopped target: the object of a     *)
(* variable, an element or a field leads through boxes and pointers, each  *)
(* type with its own model, to a NativeModelData.  An object is given by   *)
(* what the models read of it, what a pointer leads to by <<object>>, or   *)
(* <<>> when it is null:                                                   *)
(*    [type = "intrinsic", kind, carrier, value]                           *)
(*    [type = "String", wide, chars], with chars their codes               *)
(*    [type = "Dynamic" | "ObjectPtr" | "VirtualArray" | "pointer", to]    *)
(*    [type = "Boxed" | "StringData", value]                               *)
(*    [type = "Variant", holds, to | string | value]                       *)
(*    [type = "Array" | "Class" | "Anon" | "Enum" | "array" | "udt",       *)
(*     children]                                                           *)
(* "pointer", "array", "udt" and "member" (a pointer to a member) are types *)
(* that are not Haxe's and have no model.                                  *)
(***************************************************************************)
EXTENDS Naturals, Sequences, SequencesExt

CONSTANTS
    ByteLimit,  \* number of the values of a char (2^8)
    EnumStride  \* the size of an enum object, in Variants

ASSUME ByteAssumption   == ByteLimit \in Nat \ {0, 1}
ASSUME StrideAssumption == EnumStride \in Nat \ {0}

(* What reading gives: a constructor of NativeModelData, or an exception.  *)
NullData       == [data |-> "NNull"]
NoData         == [data |-> "exception"]
Data(name, of) == [data |-> name, of |-> of]

(* intrinsicObjectToHxcppdbgModelData: a carrier that is not one of the    *)
(* kind gives null.                                                        *)
IntrinsicData(object) ==
    LET Known == CASE object.kind = "int"   -> {"I1", "I2", "I4", "I8", "INT"}
                   [] object.kind = "uint"  -> {"UI1", "UI2", "UI4", "UI8", "UINT"}
                   [] object.kind = "float" -> {"R4", "R8"}
                   [] OTHER                 -> {object.carrier}
    IN IF object.carrier \notin Known \/ object.kind = "other" THEN NullData
       ELSE Data(CASE object.kind = "bool"  -> "NBool"
                   [] object.kind = "float" -> "NFloat"
                   [] OTHER                 -> "NInt", object.value)

(* String::create of a C string. *)
CString(chars) ==
    LET ends == {i \in DOMAIN chars : chars[i] = 0}
    IN IF ends = {} THEN chars
       ELSE SubSeq(chars, 1, (CHOOSE i \in ends : \A j \in ends : i <= j) - 1)

(* The memory of a string, which a Variant takes for one of chars. *)
VariantChars(string) ==
    IF string.wide
    THEN FlattenSeq([i \in DOMAIN string.chars |->
            <<string.chars[i] % ByteLimit, string.chars[i] \div ByteLimit>>])
    ELSE string.chars

(* The property HxcppdbgModelData, which every model of a type of hxcpp    *)
(* has: it leads from model to model.                                      *)
RECURSIVE ModelData(_)

ValueData(object) ==
    IF object.type = "intrinsic" THEN IntrinsicData(object) ELSE ModelData(object)

(* ModelObjectPtr: the pointer is followed whatever it is. *)
ObjectPtrData(object) == IF object.to = <<>> THEN NoData ELSE ModelData(object.to[1])

(* A mutant of DynamicData: it does not look for null. *)
DynamicDataNoNull(object) == ObjectPtrData(object)

(* ModelDynamic *)
DynamicData(object) == IF object.to = <<>> THEN NullData ELSE ModelData(object.to[1])

(* ModelVirtualArrayObj: the store of an array whose elements have no type. *)
VirtualArrayData(object) == IF object.to = <<>> THEN NullData ELSE ModelData(object.to[1])

(* ModelString: characters up to the first that is 0. *)
StringData(object) == Data("HxString", CString(object.chars))

(* ModelVariant: an object is followed as by ModelObjectPtr, a string is   *)
(* taken for one of chars, and as long as its characters are many.         *)
VariantData(object) ==
    CASE object.holds = "object" -> ObjectPtrData(object)
      [] object.holds = "string" ->
            Data("HxString", SubSeq(VariantChars(object.string), 1, Len(object.string.chars)))
      [] object.holds = "intrinsic" -> IntrinsicData(object.value)

ModelData(object) ==
    CASE object.type = "Dynamic"      -> DynamicData(object)
      [] object.type = "ObjectPtr"    -> ObjectPtrData(object)
      [] object.type = "VirtualArray" -> VirtualArrayData(object)
      [] object.type = "Boxed"        -> ValueData(object.value)
      [] object.type = "StringData"   -> ModelData(object.value)
      [] object.type = "String"       -> StringData(object)
      [] object.type = "Variant"      -> VariantData(object)
      [] object.type \in {"Array", "Class", "Anon", "Enum"} -> Data(object.type, object.children)
      [] OTHER -> NoData

(* objectToHxcppdbgModelData: a local, an element of a native array or a   *)
(* field of a native type.  What fails is taken for null.                  *)
RECURSIVE ObjectData(_)
ObjectData(object) ==
    CASE object.type = "intrinsic" -> IntrinsicData(object)
      [] object.type = "pointer"   ->
            Data("NPointer", IF object.to = <<>> THEN NullData ELSE ObjectData(object.to[1]))
      [] object.type = "array"     -> Data("NArray", object.children)
      [] object.type = "udt"       -> Data("NType", object.children)
      [] object.type = "member"    -> NullData
      [] OTHER -> IF ModelData(object) = NoData THEN NullData ELSE ModelData(object)

(* The children of what has been read, from 1: an argument of an enum is   *)
(* looked for as far behind the one before as the enum itself is long.     *)
ChildData(object, i) ==
    CASE object.type \in {"array", "udt"} -> ObjectData(object.children[i])
      [] object.type = "Enum" ->
            LET at == (i - 1) * EnumStride + 1
            IN IF at \in DOMAIN object.children THEN ModelData(object.children[at]) ELSE NoData
      [] OTHER -> ValueData(object.children[i])
=============================================================================
