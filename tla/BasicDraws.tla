----------------------------- MODULE BasicDraws -----------------------------
(***************************************************************************)
(* The generators that make one draw of the engine: integers, floats,      *)
(* sized text and bytes, and the choice of an index.  What such a          *)
(* generator asks of the engine is worked out from the user's parameters   *)
(* when it is built; the engine answers any value its contract allows, or  *)
(* refuses the parameters.                                                 *)
(*                                                                         *)
(* Widths are scaled: an unsigned integer has Bytes digits of Base (the    *)
(* code: 8 of 256), a float32 reaches FloatMax and a float64 DoubleMax,    *)
(* and a size that is not given is capped at DefaultMax (the code: 100).   *)
(* A long double has 128 bits and, like every bound, goes to the engine as *)
(* a double.                                                               *)
(***************************************************************************)
EXTENDS Integers

CONSTANTS Base, Bytes, FloatMax, DoubleMax, DefaultMax,
          Unset,      \* a parameter the user left out
          NaN,
          Refused     \* HEGEL_E_INVALID_ARG

ASSUME BasicDrawsAssumption ==
  /\ Base \in Nat /\ Base >= 2 /\ Base % 2 = 0
  /\ {Bytes, FloatMax, DoubleMax, DefaultMax} \subseteq Nat \ {0}
  /\ FloatMax <= DoubleMax
  /\ {Unset, NaN, Refused} \cap Int = {}
  /\ Refused # NaN

\* What a digit counts for.
Weight[i \in 0 .. Bytes + 1] == IF i = 0 THEN 1 ELSE Base * Weight[i - 1]

Unsigned == 0 .. Weight[Bytes] - 1
IntMax == Weight[Bytes] \div 2 - 1
Signed == -IntMax - 1 .. IntMax
Infinity == DoubleMax + 1
Floats(width) == LET most == IF width = 32 THEN FloatMax ELSE DoubleMax
                 IN -most .. most

Optional(S) == S \cup {Unset}

Given(parameter, default) == IF parameter = Unset THEN default ELSE parameter

-----------------------------------------------------------------------------
(* Integers.  A range an int64_t holds goes to the engine as it is, a      *)
(* larger one as two's-complement digits, one more than the value has.     *)

AsSigned(n) == IF n > IntMax THEN n - Weight[Bytes] ELSE n

encode_u64_le(value) ==
  [i \in 0 .. Bytes |-> IF i = Bytes THEN 0 ELSE (value \div Weight[i]) % Base]

\* The loop over the digits, the least first: what n turns have put together.
Gathered(digits) ==
  LET value[n \in 0 .. Bytes + 1] ==
        IF n = 0 THEN 0 ELSE value[n - 1] + digits[n - 1] * Weight[n - 1]
  IN value

decode_u64_le(digits) == Gathered(digits)[Bytes]

TwosComplement(digits) ==
  Gathered(digits)[Bytes + 1]
    - (IF digits[Bytes] >= Base \div 2 THEN Weight[Bytes + 1] ELSE 0)

EngineInteger(lo, hi) == IF lo > hi THEN {Refused} ELSE lo .. hi

\* The range test on the wrong end of the range.
DrawUnsignedByMin(lo, hi) ==
  IF lo <= IntMax
  THEN EngineInteger(AsSigned(lo), AsSigned(hi))
  ELSE EngineInteger(TwosComplement(encode_u64_le(lo)),
                     TwosComplement(encode_u64_le(hi)))

draw_integer_unsigned(lo, hi) ==
  IF hi <= IntMax
  THEN EngineInteger(AsSigned(lo), AsSigned(hi))
  ELSE LET answers == EngineInteger(TwosComplement(encode_u64_le(lo)),
                                    TwosComplement(encode_u64_le(hi)))
       IN {IF v = Refused THEN v ELSE decode_u64_le(encode_u64_le(v)) :
             v \in answers}

IntegerGenerator(g) ==
  IF g.type = "signed"
  THEN EngineInteger(Given(g.min, -IntMax - 1), Given(g.max, IntMax))
  ELSE draw_integer_unsigned(Given(g.min, 0), Given(g.max, Weight[Bytes] - 1))

-----------------------------------------------------------------------------
(* Floats.  An unset bound becomes infinite when infinities may be drawn,  *)
(* and the extreme of the type otherwise.                                  *)

AllowNaN(g) == Given(g.nan, g.min = Unset /\ g.max = Unset)
AllowInfinity(g) == Given(g.infinity, g.min = Unset \/ g.max = Unset)

\* The engine draws floats of 32 and of 64 bits, no others.
EngineFloat(g, lo, hi) ==
  LET InBounds(x) == /\ IF g.exclude_min THEN lo < x ELSE lo <= x
                     /\ IF g.exclude_max THEN x < hi ELSE x <= hi
      exact   == {lo, hi} \subseteq Floats(g.width) \cup {Infinity, -Infinity}
      answers == {x \in Floats(g.width) : InBounds(x)}
                   \cup {x \in {lo, hi} \cap {Infinity, -Infinity} :
                           AllowInfinity(g)}
                   \cup {x \in {NaN} : AllowNaN(g)}
  IN IF g.width \in {32, 64} /\ exact /\ answers # {} THEN answers ELSE {Refused}

FloatGenerator(g) ==
  LET extreme == IF AllowInfinity(g) THEN Infinity
                 ELSE IF g.width = 32 THEN FloatMax ELSE DoubleMax
  IN EngineFloat(g, Given(g.min, -extreme), Given(g.max, extreme))

-----------------------------------------------------------------------------
(* The length of a text or of bytes, and the index into a vector of        *)
(* elements or of branches.                                                *)

default_max_size(min, max) ==
  Given(max, IF min > DefaultMax THEN min ELSE DefaultMax)

SizedGenerator(g) == EngineInteger(g.min, default_max_size(g.min, g.max))
IndexGenerator(g) == EngineInteger(0, g.size - 1)

\* What a user may ask for; a bound of a float is a finite number.
IntegerRequests ==
  [type : {"signed"}, min : Optional(Signed), max : Optional(Signed)]
    \cup [type : {"unsigned"}, min : Optional(Unsigned), max : Optional(Unsigned)]
FloatRequests(width) ==
  [type : {"float"}, width : {width},
   min : Optional(Floats(width)), max : Optional(Floats(width)),
   exclude_min : BOOLEAN, exclude_max : BOOLEAN,
   nan : Optional(BOOLEAN), infinity : Optional(BOOLEAN)]
SizeRequests == [type : {"size"}, min : Unsigned, max : Optional(Unsigned)]
IndexRequests == [type : {"index"}, size : Nat]
BasicRequests ==
  IntegerRequests \cup FloatRequests(32) \cup FloatRequests(64)
    \cup FloatRequests(128) \cup SizeRequests \cup IndexRequests

\* A generator the constructor does not throw std::invalid_argument for.
Built(g) ==
  /\ (g.type # "index" /\ Unset \notin {g.min, g.max}) => g.min <= g.max
  /\ g.type = "index" => g.size > 0
  /\ g.type = "float" =>
       /\ AllowNaN(g) => g.min = Unset /\ g.max = Unset
       /\ AllowInfinity(g) => Unset \in {g.min, g.max}

Answers(g) ==
  CASE g.type \in {"signed", "unsigned"} -> IntegerGenerator(g)
    [] g.type = "float" -> FloatGenerator(g)
    [] g.type = "size"  -> SizedGenerator(g)
    [] g.type = "index" -> IndexGenerator(g)

-----------------------------------------------------------------------------
(* What the documentation of the parameters promises, with no reference to *)
(* how the request to the engine is put together.                          *)

Between(x, min, max) == /\ min = Unset \/ x >= min
                        /\ max = Unset \/ x <= max

LegalFloats(g) ==
  {x \in Floats(g.width) : /\ Between(x, g.min, g.max)
                           /\ g.exclude_min => x # g.min
                           /\ g.exclude_max => x # g.max}
    \cup {x \in {-Infinity} : AllowInfinity(g) /\ g.min = Unset}
    \cup {x \in {Infinity} : AllowInfinity(g) /\ g.max = Unset}
    \cup {x \in {NaN} : AllowNaN(g)}

Legal(g) ==
  CASE g.type = "signed"   -> {n \in Signed : Between(n, g.min, g.max)}
    [] g.type = "unsigned" -> {n \in Unsigned : Between(n, g.min, g.max)}
    [] g.type = "float"    -> LegalFloats(g)
    [] g.type = "size"     -> {n \in Unsigned : Between(n, g.min, g.max)}
    [] g.type = "index"    -> 0 .. g.size - 1

\* Requests that may be refused although they allow a value: floats wider than
\* a double, and a flag that excludes a bound which was not given.
IllPosed(g) ==
  /\ g.type = "float"
  /\ \/ g.width \notin {32, 64}
     \/ g.exclude_min /\ g.min = Unset
     \/ g.exclude_max /\ g.max = Unset
=============================================================================
