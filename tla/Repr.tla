-------------------------------- MODULE Repr --------------------------------
(***************************************************************************)
(* include/hegel/repr.h: a drawn value is printed as a C++ expression that *)
(* a user may paste into a test.  The literals are those of Literals; the  *)
(* rest is made of type names, casts and the values inside.                *)
(***************************************************************************)
EXTENDS Literals

CONSTANT Printed   \* the values printed, a sequence of distinct values

\* "a, b, c"
CommaSeparated(texts) ==
  FoldLeft(LAMBDA out, text : IF out = <<>> THEN text ELSE out \o <<",">> \o text,
           <<>>, texts)

-----------------------------------------------------------------------------
(* Type names *)

Fundamental == {"bool", "char", "signed char", "unsigned char", "short",
                "unsigned short"} \cup IntegerTypes \cup FloatTypes

Library == {"string", "monostate", "vector", "set", "map", "optional", "pair",
            "tuple", "variant", "array"}

\* Any other type has the name the compiler gives it.
RECURSIVE cpp_type_name(_)
cpp_type_name(T) ==
  CASE T.name \in Fundamental -> <<T.name>>
    [] T.name \in Library     ->
         <<"std::", T.name>> \o
           IF T.args = <<>> /\ T.name # "tuple" THEN <<>>
           ELSE <<"<">> \o CommaSeparated([i \in DOMAIN T.args |->
                                             cpp_type_name(T.args[i])]) \o <<">">>
    [] OTHER -> <<T.name>>

-----------------------------------------------------------------------------
(* repr.  The content of an enum or a variant is the value held (a          *)
(* variant's with its index), of anything else without a literal the        *)
(* sequence of its parts: the entries of a map are pairs, an empty optional *)
(* has none.  A struct is an aggregate when its fields have names.          *)

Cast(T, text) ==
  <<"static_cast", "<">> \o cpp_type_name(T) \o <<">", "(">> \o text \o <<")">>

Braced(T, texts) == cpp_type_name(T) \o <<"{">> \o CommaSeparated(texts) \o <<"}">>

RECURSIVE repr(_)
repr(v) ==
  LET T     == v.type
      parts == [i \in DOMAIN v.content |-> repr(v.content[i])]
  IN CASE T.name = "bool" -> <<IF v.content THEN "true" ELSE "false">>
       [] T.name \in {"char", "string"} \cup IntegerTypes \cup FloatTypes ->
            LiteralText(v)
       [] T.name \in {"signed char", "unsigned char", "short", "unsigned short"} ->
            Cast(T, to_string(v.content))
       [] T.name = "enum" -> Cast(Basic("E"), repr(v.content))
       [] T.name = "variant" ->
            Braced(T, <<<<"std::in_place_index", "<">> \o to_string(v.content.index)
                          \o <<">">>,
                        repr(v.content.held)>>)
       [] T.name = "map" ->
            Braced(T, [i \in DOMAIN v.content |->
                         <<"{">> \o CommaSeparated(<<repr(v.content[i].content[1]),
                                                     repr(v.content[i].content[2])>>)
                           \o <<"}">>])
       [] T.name \in {"monostate", "pair", "tuple", "optional", "vector", "set",
                      "array"} -> Braced(T, parts)
       [] T.name = "struct" ->
            Braced(Basic("S"), [i \in DOMAIN parts |->
                                  <<".", T.args[i].name, "=">> \o parts[i]])
       [] T.name = "streamed" -> v.content
       [] OTHER -> <<"<unprintable", T.name, ">">>

-----------------------------------------------------------------------------
Texts == [i \in DOMAIN Printed |-> repr(Printed[i])]

\* No two values are printed alike.
PrintedApart == Cardinality(ToSet(Texts)) = Len(Printed)
=============================================================================
