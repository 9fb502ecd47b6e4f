------------------------------ MODULE Literals ------------------------------
(***************************************************************************)
(* include/hegel/repr.h: the literals a drawn value is printed as, and     *)
(* what a C++ compiler makes of them.  A type is a term [name, args], a    *)
(* value has a type and a content, and a text is a sequence of words:      *)
(* whole tokens, and one word for each character of a literal.             *)
(*                                                                         *)
(* The long types are the 64 bits of BasicDraws (scaled), int is narrower. *)
(* A floating value is the words that printf's %.*g writes for it, which   *)
(* with max_digits10 digits tell any two values apart.                     *)
(***************************************************************************)
EXTENDS BasicDraws, SequencesExt

CONSTANTS Char,      \* the word of each character, a byte
          NarrowMax  \* INT_MAX

Byte == 0 .. 255

\* The tokens that stand next to a literal.
Tokens == {"-", "+", ".", "e", "nan", "inf", ",", ")",
           "u", "l", "ul", "ll", "ull", "f", "L"}

ASSUME LiteralsAssumption ==
  /\ DOMAIN Char = Byte
  /\ \A b, c \in Byte : Char[b] = Char[c] => b = c
  /\ \A c \in Byte : Char[c] \notin Tokens
  /\ NarrowMax \in 0 .. IntMax

Type(name, args) == [name |-> name, args |-> args]
Basic(name) == Type(name, <<>>)
Value(type, content) == [type |-> type, content |-> content]

Written(codes) == [i \in DOMAIN codes |-> Char[codes[i]]]

-----------------------------------------------------------------------------
(* Characters *)

Tab == 9
Newline == 10
Return == 13
Quote == 34
Apostrophe == 39
Backslash == 92

Digit(d) == 48 + d                           \* '0' + d

\* Mutant of Octal: no leading zeros.
OctalUnpadded(c) ==
  (IF c >= 64 THEN <<Digit(c \div 64)>> ELSE <<>>)
    \o (IF c >= 8 THEN <<Digit((c \div 8) % 8)>> ELSE <<>>) \o <<Digit(c % 8)>>

Octal(c) == <<Digit(c \div 64), Digit((c \div 8) % 8), Digit(c % 8)>>

append_escaped(c, in_string) ==
  CASE c = Newline   -> <<Backslash, 110>>
    [] c = Tab       -> <<Backslash, 116>>
    [] c = Return    -> <<Backslash, 114>>
    [] c = Backslash -> <<Backslash, Backslash>>
    [] c = (IF in_string THEN Quote ELSE Apostrophe) -> <<Backslash, c>>
    [] OTHER         -> IF c \in 32 .. 126 THEN <<c>> ELSE <<Backslash>> \o Octal(c)

\* The loop over the characters of a string.
Escaped(s) ==
  LET out[i \in 0 .. Len(s)] ==
        IF i = 0 THEN <<>> ELSE out[i - 1] \o append_escaped(s[i], TRUE)
  IN  out[Len(s)]

-----------------------------------------------------------------------------
(* Numbers *)

Decimal(n) ==
  LET digits[k \in 0 .. n] == IF k < 10 THEN <<Digit(k)>>
                              ELSE Append(digits[k \div 10], Digit(k % 10))
  IN  digits[n]

to_string(n) == IF n < 0 THEN <<"-">> \o Written(Decimal(-n)) ELSE Written(Decimal(n))

IntegerTypes == {"int", "unsigned int", "long", "unsigned long", "long long",
                 "unsigned long long"}
FloatTypes == {"float", "double", "long double"}

Suffix(T) ==
  CASE T \in {"int", "double"}   -> <<>>
    [] T = "unsigned int"       -> <<"u">>
    [] T = "long"               -> <<"l">>
    [] T = "unsigned long"      -> <<"ul">>
    [] T = "long long"          -> <<"ll">>
    [] T = "unsigned long long" -> <<"ull">>
    [] T = "float"              -> <<"f">>
    [] T = "long double"        -> <<"L">>

NumericLimit(T, member) == <<"std::numeric_limits", "<", T, ">", "::", member, "()">>

\* The digits of %g have a point or an exponent only when they need one.
IsFloating(words) == Contains(words, ".") \/ Contains(words, "e")

FloatText(T, content) ==
  CASE content = <<"nan">>      -> NumericLimit(T, "quiet_NaN")
    [] content = <<"inf">>      -> NumericLimit(T, "infinity")
    [] content = <<"-", "inf">> -> <<"-">> \o NumericLimit(T, "infinity")
    [] OTHER -> content \o (IF IsFloating(content) THEN <<>>
                            ELSE <<".">> \o Written(<<Digit(0)>>)) \o Suffix(T)

-----------------------------------------------------------------------------
(* repr of the types that have literals: the content of a character is its  *)
(* byte, of a string the sequence of its bytes, of a number its value.      *)

CharText(c) == Written(<<Apostrophe>> \o append_escaped(c, FALSE) \o <<Apostrophe>>)

\* "std::string" takes a length when a NUL would end it too soon.
StringText(s) ==
  <<"std::", "string", "(">> \o Written(<<Quote>> \o Escaped(s) \o <<Quote>>)
    \o (IF Contains(s, 0) THEN <<",">> \o Written(Decimal(Len(s))) ELSE <<>>) \o <<")">>

LiteralText(v) ==
  CASE v.type.name = "char"          -> CharText(v.content)
    [] v.type.name = "string"        -> StringText(v.content)
    [] v.type.name \in IntegerTypes -> to_string(v.content) \o Suffix(v.type.name)
    [] v.type.name \in FloatTypes   -> FloatText(v.type.name, v.content)

-----------------------------------------------------------------------------
(* What a C++ compiler makes of a literal, by the rules of the language *)

Code(word) == CHOOSE c \in Byte : Char[c] = word

OctalDigits == Digit(0) .. Digit(7)

Named(c) == CASE c = 110 -> Newline [] c = 116 -> Tab [] c = 114 -> Return
              [] OTHER -> c

\* The bytes read so far, the octal escape that is being read, if any, and the
\* words behind the closing delimiter.
Opened == [mode |-> "plain", bytes |-> <<>>, value |-> 0, count |-> 0, rest |-> <<>>]

ReadPlain(s, c, delimiter) ==
  CASE c = delimiter -> [s EXCEPT !.mode = "done"]
    [] c = Backslash -> [s EXCEPT !.mode = "escape"]
    [] OTHER         -> [s EXCEPT !.bytes = Append(@, c)]

EndEscape(s) ==
  IF s.mode = "octal" THEN [s EXCEPT !.mode = "plain", !.bytes = Append(@, s.value)]
  ELSE s

\* An octal escape takes as many digits as there are, up to three.
ReadWord(s, word, delimiter) ==
  LET c == Code(word)
  IN CASE s.mode = "done" -> [s EXCEPT !.rest = Append(@, word)]
       [] s.mode = "escape" /\ c \in OctalDigits ->
            [s EXCEPT !.mode = "octal", !.value = c - Digit(0), !.count = 1]
       [] s.mode = "escape" /\ c \notin OctalDigits ->
            [s EXCEPT !.mode = "plain", !.bytes = Append(@, Named(c))]
       [] s.mode = "octal" /\ s.count < 3 /\ c \in OctalDigits ->
            [s EXCEPT !.value = 8 * @ + (c - Digit(0)), !.count = @ + 1]
       [] OTHER -> ReadPlain(EndEscape(s), c, delimiter)

\* The words that follow an opening delimiter.
ReadLiteral(words, delimiter) ==
  LET read[i \in 0 .. Len(words)] ==
        IF i = 0 THEN Opened ELSE ReadWord(read[i - 1], words[i], delimiter)
  IN  read[Len(words)]

ReadDecimal(words) ==
  LET value[i \in 0 .. Len(words)] ==
        IF i = 0 THEN 0 ELSE 10 * value[i - 1] + (Code(words[i]) - Digit(0))
  IN  value[Len(words)]

\* std::string(s) stops at the first NUL, std::string(s, n) takes n bytes of the
\* literal, which ends in a NUL; more than it has are no string.
ReadString(text) ==
  LET literal == ReadLiteral(SubSeq(text, 5, Len(text)), Quote)
      bytes   == Append(literal.bytes, 0)
      size    == IF literal.rest[1] = ","
                 THEN ReadDecimal(SubSeq(literal.rest, 2, Len(literal.rest) - 1))
                 ELSE Min({i \in DOMAIN bytes : bytes[i] = 0}) - 1
  IN IF size > Len(bytes) THEN <<>> ELSE SubSeq(bytes, 1, size)

IntegerMax(T) ==
  CASE T = "int"                    -> NarrowMax
    [] T = "unsigned int"           -> 2 * NarrowMax + 1
    [] T \in {"long", "long long"} -> IntMax
    [] T \in {"unsigned long", "unsigned long long"} -> 2 * IntMax + 1

SignedTypes == {"int", "long", "long long"}

IntegerMin(T) == IF T \in SignedTypes THEN -IntegerMax(T) - 1 ELSE 0

\* A literal has the first type of its suffix that holds it, if there is one; a
\* minus sign in front is an operator.
CandidateTypes(suffix) ==
  CASE suffix = <<>>      -> <<"int", "long", "long long">>
    [] suffix = <<"u">>   -> <<"unsigned int", "unsigned long", "unsigned long long">>
    [] suffix = <<"l">>   -> <<"long", "long long">>
    [] suffix = <<"ul">>  -> <<"unsigned long", "unsigned long long">>
    [] suffix = <<"ll">>  -> <<"long long">>
    [] suffix = <<"ull">> -> <<"unsigned long long">>

LiteralType(suffix, n) ==
  LET types == CandidateTypes(suffix)
      holds == {i \in DOMAIN types : n <= IntegerMax(types[i])}
  IN IF holds = {} THEN "none" ELSE types[Min(holds)]

ReadInteger(text) ==
  LET negative == Head(text) = "-"
      literal  == IF negative THEN Tail(text) ELSE text
      suffixed == Last(literal) \in Tokens
      digits   == IF suffixed THEN Front(literal) ELSE literal
      n        == ReadDecimal(digits)
  IN [type  |-> LiteralType(IF suffixed THEN <<Last(literal)>> ELSE <<>>, n),
      value |-> IF negative THEN -n ELSE n]

\* A literal with a point or an exponent is floating, of the type of its suffix.
ReadFloat(text) ==
  IF ~IsFloating(text) THEN "none"
  ELSE IF Last(text) = "f" THEN "float"
  ELSE IF Last(text) = "L" THEN "long double" ELSE "double"

-----------------------------------------------------------------------------
NotFinite == {<<"nan">>, <<"inf">>, <<"-", "inf">>}

FloatWords == {Char[Digit(d)] : d \in 0 .. 9} \cup {"-", "+", ".", "e"}

\* The values that have a literal.
HasLiteral(v) ==
  /\ v = Value(Basic(v.type.name), v.content)
  /\ \/ v.type.name = "char" /\ v.content \in Byte
     \/ v.type.name = "string" /\ v.content \in Seq(Byte)
     \/ /\ v.type.name \in IntegerTypes
        /\ v.content \in IntegerMin(v.type.name) .. IntegerMax(v.type.name)
     \/ /\ v.type.name \in FloatTypes
        /\ v.content \in NotFinite \/ v.content \in Seq(FloatWords) \ {<<>>}

\* The least value of a signed type: C++ has no literal for it, as a minus sign is
\* an operator, applied to a number that the type does not hold.
IsLeast(v) == v.type.name \in SignedTypes /\ v.content = IntegerMin(v.type.name)

\* The text is a literal of the value and of its type.
ReadsBack(v) ==
  LET T    == v.type.name
      text == LiteralText(v)
  IN CASE T = "string" -> ReadString(text) = v.content
       [] T = "char" -> LET read == ReadLiteral(Tail(text), Apostrophe)
                        IN read.mode = "done" /\ read.bytes = <<v.content>>
       [] T \in IntegerTypes ->
            LET read == ReadInteger(text)
            IN read.type = T /\ read.value = v.content
       [] T \in FloatTypes -> v.content \in NotFinite \/ ReadFloat(text) = T
=============================================================================
