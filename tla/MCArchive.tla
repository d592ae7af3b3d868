------------------------------ MODULE MCArchive -----------------------------
(* Groups of 5 bits in integers of 11; tag 4 has a key that is cut short   *)
(* for wire type 0, as tag 16 has in the code.                             *)
EXTENDS Archive
MCTags == 1..10
TypesValue == <<"uint", "class", "sint", "bool", "optional", "pair", "string", "packed", "float", "unpacked">>
ValuesOfValue ==
  [ty \in Types |->
    CASE ty = "uint"     -> {32, 1056}
      [] ty = "sint"     -> {-512, 512}
      [] ty = "bool"     -> {0}
      [] ty = "float"    -> {5}
      [] ty = "double"   -> {6}
      [] ty = "string"   -> {<<>>, <<9, 40>>}
      [] ty = "pair"     -> {<<1, 33>>}
      [] ty = "optional" -> {Unset, 7}
      [] ty = "class"    -> {3}
      [] ty \in Containers -> {<<>>, <<32, 7>>}]

(* A value that stands for a constant in a .cfg is worked out at every use *)
(* of the constant, a name only looked up.                                 *)
MCTypes == TypesValue
MCValuesOf == ValuesOfValue
=============================================================================
