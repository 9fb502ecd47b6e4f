---------------------------- MODULE PrintedDraws ----------------------------
(***************************************************************************)
(* Draws and the text of what they print: TestCase::draw hands the value   *)
(* of an outermost draw to repr().                                         *)
(***************************************************************************)
EXTENDS Draws, Literals

CONSTANT PrintedLiterals   \* values a user's generators make of what they drew

ASSUME PrintedDrawsAssumption == \A v \in PrintedLiterals : HasLiteral(v)

\* The value of a draw of numbers, as repr() is given it.
Digits(x) ==
  CASE x = NaN       -> <<"nan">>
    [] x = Infinity  -> <<"inf">>
    [] x = -Infinity -> <<"-", "inf">>
    [] OTHER         -> to_string(x)

Drawn(g, x) ==
  CASE g.type = "signed"   -> Value(Basic("long"), x)
    [] g.type = "unsigned" -> Value(Basic("unsigned long"), x)
    [] g.type = "float"    ->
         Value(Basic(IF g.width = 32 THEN "float" ELSE "double"), Digits(x))

\* The frame is a draw of a number, which the engine has answered.
NumberDrawn(frame) ==
  /\ frame.kind = "basic" /\ frame.value # Refused
  /\ frame.generator.type \in {"signed", "unsigned", "float"}

LiteralsReadBack == \A v \in PrintedLiterals : IsLeast(v) \/ ReadsBack(v)

\* A line of the report tells the value that was drawn: a compiler reads the
\* literal of every number a generator drew, and of every character, string and
\* number a user made of draws, as the value and the type it was printed for,
\* unless it is the least value of int, long or long long.
RendersExpressions ==
  /\ \A i \in DOMAIN stack :
       NumberDrawn(stack[i]) =>
         LET v == Drawn(stack[i].generator, stack[i].value)
         IN IsLeast(v) \/ ReadsBack(v)
  /\ LiteralsReadBack

\* include/hegel/repr.h:279: repr renders a value as one C++ expression.  Of the
\* numbers a generator drew, that is every one.
EveryNumberIsExpression ==
  \A i \in DOMAIN stack :
    NumberDrawn(stack[i]) => ReadsBack(Drawn(stack[i].generator, stack[i].value))
=============================================================================
