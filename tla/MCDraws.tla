------------------------------ MODULE MCDraws -------------------------------
(* Values for TLC: every range of a scaled integer, every combination of   *)
(* float parameters, sizes around the default maximum, short index ranges. *)
EXTENDS PrintedDraws, Repr

SameValues == Permutations(Values)

MCNames == {<<>>, <<"x">>, <<"x", 1>>}

MCRequests ==
  IntegerRequests \cup UNION {FloatRequests(width) : width \in {32, 64, 128}}
    \cup [type : {"size"}, min : 0 .. DefaultMax + 2, max : Optional(0 .. DefaultMax + 2)]
    \cup [type : {"index"}, size : 0 .. 3]

-----------------------------------------------------------------------------
(* Values to print: each type's own, and containers of them *)

Each(T, contents) == [i \in DOMAIN contents |-> Value(T, contents[i])]
Interval(T, min, max) == Each(Basic(T), [i \in 1 .. max - min + 1 |-> min + i - 1])

Integer == Interval("int", -4, 3) \o Interval("unsigned int", 0, 7)
             \o Interval("long", -8, 7) \o Interval("unsigned long", 0, 15)
             \o Interval("long long", -8, 7) \o Interval("unsigned long long", 0, 15)
             \o Interval("signed char", -2, 1) \o Interval("unsigned char", 0, 3)
             \o Interval("short", -2, 1) \o Interval("unsigned short", 0, 3)

Floating(T) ==
  Each(Basic(T), <<to_string(0), <<"-">> \o to_string(0), to_string(1),
                   to_string(1) \o <<".">> \o to_string(5),
                   to_string(1) \o <<"e", "+">> \o to_string(20),
                   <<"nan">>, <<"inf">>, <<"-", "inf">> >>)

\* Every sequence of at most two characters, and of three of those that an
\* octal escape or a NUL can swallow.
NUL == 0
BEL == 7
One == Digit(1)
Letters == <<NUL, BEL, Tab, Newline, Return, Quote, Apostrophe, One, 97, Backslash, 255>>
Pairs(S, T) == FlattenSeq([i \in DOMAIN S |-> [j \in DOMAIN T |-> S[i] \o T[j]]])
Ones(S) == [i \in DOMAIN S |-> <<S[i]>>]
Swallowed == Ones(<<NUL, BEL, One>>)
Long == [i \in 1 .. 12 |-> IF i = 6 THEN NUL ELSE One]

Strings == << <<>> >> \o Ones(Letters) \o Pairs(Ones(Letters), Ones(Letters))
             \o Pairs(Swallowed, Pairs(Swallowed, Swallowed)) \o <<Long>>
Text == Interval("char", 0, 255) \o Each(Basic("string"), Strings)

Simple == Each(Basic("bool"), <<TRUE, FALSE>>) \o Integer
            \o Floating("float") \o Floating("double") \o Floating("long double")
            \o Text \o Each(Basic("monostate"), << <<>> >>)
            \o Each(Basic("enum"), Interval("int", 0, 1))

IntType == Basic("int")
Ints == Each(IntType, <<0, 1>>)
Lists == << <<>>, <<Ints[1]>>, <<Ints[2]>>, Ints, <<Ints[2], Ints[1]>> >>
Sized(name, T) == Each(Type(name, <<T>>), Lists)
Product(name, A, B) == Type(name, <<A, B>>)
IntInt(name) == Each(Product(name, IntType, IntType), <<Ints, <<Ints[2], Ints[1]>> >>)

\* Lists of lists: where the braces are tells [[0], [1]] from [[0, 1]].
Nested == Each(Type("vector", <<Type("vector", <<IntType>>)>>),
               << <<>>, << Sized("vector", IntType)[1] >>, << Sized("vector", IntType)[4] >>,
                  << Sized("vector", IntType)[2], Sized("vector", IntType)[3] >> >>)

Compound ==
  Sized("vector", IntType) \o Nested
    \o Each(Type("set", <<IntType>>), << <<>>, <<Ints[1]>>, Ints >>)
    \o Each(Type("optional", <<IntType>>), << <<>>, <<Ints[1]>>, <<Ints[2]>> >>)
    \o Each(Type("array", <<IntType, Basic("2")>>), <<Ints, <<Ints[2], Ints[1]>> >>)
    \o IntInt("pair") \o IntInt("tuple") \o Each(Type("tuple", <<>>), << <<>> >>)
    \o Each(Product("map", IntType, IntType), << <<>>, <<IntInt("pair")[1]>>, IntInt("pair") >>)
    \o Each(Product("variant", IntType, IntType),
            << [index |-> 0, held |-> Ints[1]], [index |-> 1, held |-> Ints[1]],
               [index |-> 1, held |-> Ints[2]] >>)
    \o Each(Type("struct", <<[name |-> "retries"], [name |-> "host"]>>),
            <<Ints, <<Ints[2], Ints[1]>> >>)

MCPrinted == Simple \o Compound

MCLiterals == {v \in ToSet(Simple) : HasLiteral(v)}

MCChar == [c \in Byte |-> "c" \o ToString(c)]

ASSUME EveryValueApart == PrintedApart
=============================================================================
