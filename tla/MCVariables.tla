------------------------------ MODULE MCVariables ------------------------------
(* A small memory for Variables: a container of each kind, a pointer to a  *)
(* pointer and one to a scalar.                                            *)
EXTENDS Variables, TLC

MCValues == {"int", "empty", "object", "map", "pair", "pointer", "pointers"}

MCKindOf ==
    [v \in MCValues |-> CASE v = "int" -> "scalar" [] v = "empty" -> "indexed"
                          [] v = "object" -> "named" [] v = "map" -> "map"
                          [] v = "pair" -> "pair" [] OTHER -> "pointer"]

MCChildrenOf ==
    [v \in MCValues |-> CASE v = "object" -> <<"int", "pointer">>
                          [] v = "map" -> <<"pair", "pair">>
                          [] v = "pair" -> <<"int", "empty">>
                          [] v = "pointer" -> <<"int">>
                          [] v = "pointers" -> <<"pointer">>
                          [] OTHER -> <<>>]

MCLocalsOf ==
    [p \in Threads \X Frames |-> IF p = <<0, 0>> THEN <<"map", "pointers">> ELSE <<"object">>]
=============================================================================
