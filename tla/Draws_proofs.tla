---------------------------- MODULE Draws_proofs ----------------------------
(***************************************************************************)
(* Draws of one thread, for any names, values, sizes and depth: the type   *)
(* of the call stack, the sizes of collections, the values of basic draws  *)
(* for integers of any width, the names of the printed draws, and the      *)
(* literals they are printed as, which a compiler reads back.              *)
(***************************************************************************)
EXTENDS PrintedDraws, FoldLemmas, FiniteSetTheorems

Word == (UNION {{name[i] : i \in 1 .. Len(name)} : name \in Names}) \cup {"draw"} \cup Nat
Displays == Seq(Word)
Line == [display : Displays, suffixed : BOOLEAN]

BasicFrames ==
  {f \in [kind : {"basic"}, generator : Generators,
          value : UNION {Answers(g) : g \in Generators}] :
     f.value \in Answers(f.generator)}
AllFrames ==
  DrawFrames(Displays) \cup CollectionFrames \cup PartsFrames \cup ComposeFrames
    \cup FilterFrames \cup RepeatFrames \cup BasicFrames

TypeInv ==
  /\ stack \in Seq(AllFrames)
  /\ Len(stack) <= MaxDepth
  /\ returned \in Values \cup {NoValue}
  /\ draw_name_counts \in [Bases -> Nat]
  /\ taken_display_names \subseteq Displays
  /\ IsFiniteSet(taken_display_names)
  /\ \A display \in taken_display_names : IsDisplayName(display)
  /\ shown \in Seq(Line)
  /\ over \in BOOLEAN

\* A function that waits for the value of another; code of the user's.
Wants(f) == \/ f.kind \in {"draw", "filter"}
            \/ f.kind \in Kinds /\ f.stage \in {"element", "value"}
            \/ f.kind = "parts" /\ f.left > 0
UserCode(f) == \/ f.kind = "compose"
               \/ f.kind = "repeat" /\ f.stage = "body"

\* Who may call whom, and who is given a value.
Calls(caller, f) == IF f.kind \in {"draw", "repeat"} THEN UserCode(caller) ELSE Wants(caller)

CallInv ==
  /\ stack # <<>> => stack[1].kind \in {"draw", "repeat"}
  /\ \A i \in 2 .. Len(stack) : Calls(stack[i-1], stack[i])
  /\ returned # NoValue => stack # <<>> /\ Wants(Top)

\* The engine's count is the number of elements kept, and the one being drawn.
Counted(f) ==
  /\ f.stage \in {"more", "done"} => f.count = Len(f.held)
  /\ f.stage \in {"element", "value"} => f.count = Len(f.held) + 1
  /\ f.stage = "value" => /\ f.kind = "map" /\ f.key \in Values
                          /\ \A i \in 1 .. Len(f.held) : f.held[i] # f.key
  /\ f.stage = "done" => f.count >= f.min
  /\ f.max # Unset => f.count <= f.max
  /\ f.kind # "vector" =>
       \A i, j \in 1 .. Len(f.held) : f.held[i] = f.held[j] => i = j

SizeInv == \A i \in 1 .. Len(stack) : stack[i].kind \in Kinds => Counted(stack[i])

\* draw_depth counts the draws on the call stack, and only the lowest of them is
\* an outermost one.
DepthInv ==
  /\ draw_depth = Cardinality(DrawsIn(stack))
  /\ OutermostDraws

\* A number is given to a base once it has passed the count of the base, or was
\* taken already.
GaplessIn(counts, taken, line) ==
  line.suffixed =>
    LET base == Front(line.display)
    IN /\ base \in Bases /\ Last(line.display) \in Nat \ {0}
       /\ \A m \in counts[base] .. Last(line.display) : Append(base, m) \in taken

Gapless(line) == GaplessIn(draw_name_counts, taken_display_names, line)

\* A line that is printed after another has another name and a greater number.
Precedes(x, y) ==
  y.suffixed =>
    /\ y.display # x.display
    /\ x.suffixed /\ Front(x.display) = Front(y.display) =>
         Last(x.display) < Last(y.display)

LinesInv ==
  /\ \A i \in 1 .. Len(shown) :
       shown[i].display \in taken_display_names /\ Gapless(shown[i])
  /\ \A i, j \in 1 .. Len(shown) : i < j => Precedes(shown[i], shown[j])

\* The draw that will be printed next has its name already.
PendingInv ==
  \A i \in DrawsIn(stack) :
    IF stack[i].outermost
    THEN /\ stack[i].display \in taken_display_names
         /\ Gapless(stack[i])
         /\ \A k \in 1 .. Len(shown) : Precedes(shown[k], stack[i])
    ELSE stack[i].display = <<>>

IInv == TypeInv /\ CallInv /\ SizeInv /\ DepthInv /\ LinesInv /\ PendingInv

-----------------------------------------------------------------------------
(* Frames *)

Kinded == Kinds \cup {"draw", "parts", "compose", "filter", "repeat", "basic"}

\* What the kind of a frame tells of it.
LEMMA FrameKinds ==
  ASSUME NEW f \in AllFrames
  PROVE  /\ f.kind \in Kinded
         /\ f.kind = "draw"    => f \in DrawFrames(Displays)
         /\ f.kind \in Kinds   => f \in CollectionFrames
         /\ f.kind = "parts"   => f \in PartsFrames
         /\ f.kind = "compose" => f \in ComposeFrames
         /\ f.kind = "filter"  => f \in FilterFrames
         /\ f.kind = "repeat"  => f \in RepeatFrames
         /\ f.kind = "basic"   => f \in BasicFrames
<1>1. CASE f \in DrawFrames(Displays)
  BY <1>1 DEF DrawFrames, Kinded, Kinds
<1>2. CASE f \in CollectionFrames
  BY <1>2 DEF CollectionFrames, Kinded, Kinds
<1>3. CASE f \in PartsFrames \cup ComposeFrames \cup FilterFrames
  BY <1>3 DEF PartsFrames, ComposeFrames, FilterFrames, Kinded, Kinds
<1>4. CASE f \in RepeatFrames \cup BasicFrames
  BY <1>4 DEF RepeatFrames, BasicFrames, Kinded, Kinds
<1> QED BY <1>1, <1>2, <1>3, <1>4 DEF AllFrames

\* The frames of a typed stack.
LEMMA StackTyped ==
  ASSUME TypeInv
  PROVE  /\ Len(stack) \in Nat
         /\ DOMAIN stack = 1 .. Len(stack)
         /\ \A i \in 1 .. Len(stack) : stack[i] \in AllFrames
         /\ stack # <<>> => Len(stack) >= 1 /\ Top \in AllFrames
         /\ stack = <<>> => Len(stack) = 0
  BY DEF TypeInv, Top

\* The first elements of a sequence.
LEMMA Prefix ==
  ASSUME NEW S, NEW s \in Seq(S), NEW k \in 0 .. Len(s)
  PROVE  /\ SubSeq(s, 1, k) \in Seq(S)
         /\ Len(SubSeq(s, 1, k)) = k
         /\ \A i \in 1 .. k : SubSeq(s, 1, k)[i] = s[i]
<1>1. \A i \in 1 .. k : s[i] \in S
  OBVIOUS
<1>2. /\ SubSeq(s, 1, k) \in Seq(S)
      /\ Len(SubSeq(s, 1, k)) = IF 1 <= k THEN k - 1 + 1 ELSE 0
      /\ \A i \in 1 .. k - 1 + 1 : SubSeq(s, 1, k)[i] = s[1 + i - 1]
  BY <1>1, SubSeqProperties
<1>3. k - 1 + 1 = k /\ \A i \in 1 .. k : 1 + i - 1 = i
  OBVIOUS
<1> QED BY <1>2, <1>3

\* Another last element.
LEMMA Relaid ==
  ASSUME NEW S, NEW s \in Seq(S), s # <<>>, NEW e \in S
  PROVE  LET t == Append(SubSeq(s, 1, Len(s) - 1), e)
         IN  /\ t \in Seq(S)
             /\ Len(t) = Len(s)
             /\ \A i \in 1 .. Len(s) - 1 : t[i] = s[i]
             /\ t[Len(s)] = e
<1> DEFINE b == SubSeq(s, 1, Len(s) - 1)
<1>1. Len(s) - 1 \in 0 .. Len(s)
  OBVIOUS
<1>2. /\ b \in Seq(S)
      /\ Len(b) = Len(s) - 1
      /\ \A i \in 1 .. Len(s) - 1 : b[i] = s[i]
  BY <1>1, Prefix
<1> HIDE DEF b
<1>3. /\ Append(b, e) \in Seq(S)
      /\ Len(Append(b, e)) = Len(b) + 1
      /\ \A i \in 1 .. Len(b) : Append(b, e)[i] = b[i]
      /\ Append(b, e)[Len(b) + 1] = e
  BY <1>2, AppendProperties
<1>4. Len(b) + 1 = Len(s)
  BY <1>2
<1>5. /\ Append(b, e) \in Seq(S)
      /\ Len(Append(b, e)) = Len(s)
      /\ \A i \in 1 .. Len(s) - 1 : Append(b, e)[i] = s[i]
      /\ Append(b, e)[Len(s)] = e
  BY <1>2, <1>3, <1>4
<1> QED BY <1>5 DEF b

\* A call.
LEMMA Pushed ==
  ASSUME TypeInv, NEW f \in AllFrames, Call(f)
  PROVE  /\ stack' \in Seq(AllFrames)
         /\ Len(stack') = Len(stack) + 1
         /\ Len(stack') <= MaxDepth
         /\ \A i \in 1 .. Len(stack) : stack'[i] = stack[i]
         /\ stack'[Len(stack) + 1] = f
<1>1. Len(stack) \in Nat /\ stack' = Append(stack, f) /\ Len(stack) < MaxDepth
  BY StackTyped DEF Call
<1>2. stack \in Seq(AllFrames) /\ MaxDepth \in Nat
  BY DrawsAssumption DEF TypeInv
<1>3. /\ Append(stack, f) \in Seq(AllFrames)
      /\ Len(Append(stack, f)) = Len(stack) + 1
      /\ \A i \in 1 .. Len(stack) : Append(stack, f)[i] = stack[i]
      /\ Append(stack, f)[Len(stack) + 1] = f
  BY <1>2, AppendProperties
<1> QED BY <1>1, <1>2, <1>3

\* A return.
LEMMA Popped ==
  ASSUME TypeInv, stack # <<>>, stack' = Below
  PROVE  /\ stack' \in Seq(AllFrames)
         /\ Len(stack') = Len(stack) - 1
         /\ \A i \in 1 .. Len(stack) - 1 : stack'[i] = stack[i]
<1>1. stack \in Seq(AllFrames) /\ Len(stack) - 1 \in 0 .. Len(stack)
  BY StackTyped DEF TypeInv
<1> QED BY <1>1, Prefix DEF Below

\* A step within a call.
LEMMA Replaced ==
  ASSUME TypeInv, stack # <<>>, NEW f \in AllFrames, Replace(f)
  PROVE  /\ stack' \in Seq(AllFrames)
         /\ Len(stack') = Len(stack)
         /\ \A i \in 1 .. Len(stack) - 1 : stack'[i] = stack[i]
         /\ stack'[Len(stack)] = f
<1>1. stack \in Seq(AllFrames)
  BY DEF TypeInv
<1> QED BY <1>1, Relaid DEF Replace, Below

\* The handler an exception ends at is a running repeat().
LEMMA Handler ==
  ASSUME TypeInv, Handlers # {}
  PROVE  Max(Handlers) \in Handlers
<1>1. Len(stack) \in Nat /\ Handlers \in SUBSET (1 .. Len(stack))
  BY StackTyped DEF Handlers
<1> QED BY <1>1, MaxIsMember

-----------------------------------------------------------------------------
(* The shapes of a step *)

\* The draws on a stack.
LEMMA DrawIndices ==
  ASSUME TypeInv
  PROVE  /\ DrawsIn(stack) = {i \in 1 .. Len(stack) : stack[i].kind = "draw"}
         /\ IsFiniteSet(DrawsIn(stack))
         /\ Cardinality(DrawsIn(stack)) \in Nat
         /\ Cardinality(DrawsIn(stack)) <= Len(stack)
         /\ Cardinality(DrawsIn(stack)) = 0 <=> DrawsIn(stack) = {}
<1>1. Len(stack) \in Nat
      /\ DrawsIn(stack) = {i \in 1 .. Len(stack) : stack[i].kind = "draw"}
  BY StackTyped DEF DrawsIn
<1>2. /\ IsFiniteSet(1 .. Len(stack))
      /\ Cardinality(1 .. Len(stack)) = Len(stack)
  <2>1. /\ IsFiniteSet(1 .. Len(stack))
        /\ Cardinality(1 .. Len(stack)) = IF 1 > Len(stack) THEN 0 ELSE Len(stack) - 1 + 1
    BY <1>1, FS_Interval
  <2> QED BY <1>1, <2>1
<1>3. DrawsIn(stack) \in SUBSET (1 .. Len(stack))
  BY <1>1
<1>4. /\ IsFiniteSet(DrawsIn(stack))
      /\ Cardinality(DrawsIn(stack)) <= Len(stack)
  BY <1>2, <1>3, FS_Subset
<1>5. /\ Cardinality(DrawsIn(stack)) \in Nat
      /\ Cardinality(DrawsIn(stack)) = 0 <=> DrawsIn(stack) = {}
  BY <1>4, FS_CardinalityType, FS_EmptySet
<1> QED BY <1>1, <1>4, <1>5

\* The names stay as they are while no outermost draw begins or is printed.
LEMMA LinesKept ==
  ASSUME LinesInv, UNCHANGED <<names, shown>>
  PROVE  LinesInv'
  BY DEF LinesInv, Gapless, GaplessIn, Precedes, names

LEMMA PendingKept ==
  ASSUME PendingInv, UNCHANGED <<names, shown>>, DrawsIn(stack') \subseteq DrawsIn(stack),
         \A i \in DrawsIn(stack') : stack'[i] = stack[i]
  PROVE  PendingInv'
<1>1. \A i \in DrawsIn(stack') : i \in DrawsIn(stack) /\ stack'[i] = stack[i]
  OBVIOUS
<1> QED BY <1>1 DEF PendingInv, Gapless, GaplessIn, Precedes, names

\* Whoever is called stands above its caller.
LEMMA PushCalls ==
  ASSUME IInv, NEW f \in AllFrames, Call(f),
         f.kind \in Kinds => Counted(f),
         IF stack = <<>> THEN f.kind \in {"draw", "repeat"} ELSE Calls(Top, f),
         returned' = NoValue
  PROVE  CallInv' /\ SizeInv'
<1>1. /\ stack' \in Seq(AllFrames)
      /\ Len(stack') = Len(stack) + 1
      /\ \A i \in 1 .. Len(stack) : stack'[i] = stack[i]
      /\ stack'[Len(stack) + 1] = f
  BY Pushed DEF IInv
<1>2. Len(stack) \in Nat /\ (stack = <<>> <=> Len(stack) = 0)
  BY StackTyped DEF IInv
<1>3. stack'[1].kind \in {"draw", "repeat"}
  <2>1. CASE stack = <<>>
    BY <1>1, <1>2, <2>1
  <2>2. CASE stack # <<>>
    BY <1>1, <1>2, <2>2 DEF IInv, CallInv
  <2> QED BY <2>1, <2>2
<1>4. ASSUME NEW i \in 2 .. Len(stack') PROVE Calls(stack'[i-1], stack'[i])
  <2>1. CASE i <= Len(stack)
    <3>1. stack'[i-1] = stack[i-1] /\ stack'[i] = stack[i] /\ i \in 2 .. Len(stack)
      BY <1>1, <1>2, <2>1
    <3> QED BY <3>1 DEF IInv, CallInv
  <2>2. CASE i = Len(stack) + 1
    <3>1. stack'[i-1] = Top /\ stack'[i] = f /\ stack # <<>>
      BY <1>1, <1>2, <2>2 DEF Top
    <3> QED BY <3>1
  <2> QED BY <1>1, <1>2, <2>1, <2>2
<1>5. ASSUME NEW i \in 1 .. Len(stack'), stack'[i].kind \in Kinds
      PROVE  Counted(stack'[i])
  <2>1. CASE i <= Len(stack)
    BY <1>1, <1>2, <1>5, <2>1 DEF IInv, SizeInv
  <2>2. CASE i = Len(stack) + 1
    BY <1>1, <1>5, <2>2
  <2> QED BY <1>1, <1>2, <2>1, <2>2
<1>6. SizeInv'
  BY <1>5 DEF SizeInv, Counted
<1> QED BY <1>3, <1>4, <1>6 DEF CallInv

\* A generator, the user's function or repeat() is called.
LEMMA PushInv ==
  ASSUME IInv, NEW f \in AllFrames, Call(f), f.kind # "draw",
         f.kind \in Kinds => Counted(f),
         IF stack = <<>> THEN f.kind = "repeat" ELSE Calls(Top, f),
         returned = NoValue,
         UNCHANGED <<returned, draw_depth, names, shown, over>>
  PROVE  IInv'
<1>1. /\ stack' \in Seq(AllFrames)
      /\ Len(stack') = Len(stack) + 1
      /\ Len(stack') <= MaxDepth
      /\ \A i \in 1 .. Len(stack) : stack'[i] = stack[i]
      /\ stack'[Len(stack) + 1] = f
  BY Pushed DEF IInv
<1>2. Len(stack) \in Nat
  BY StackTyped DEF IInv
<1>3. TypeInv'
  BY <1>1 DEF IInv, TypeInv, names
<1>4. CallInv' /\ SizeInv'
  BY PushCalls
<1>5. DrawsIn(stack') = DrawsIn(stack) /\ \A i \in DrawsIn(stack) : stack'[i] = stack[i]
  <2>1. DrawsIn(stack') = {i \in 1 .. Len(stack') : stack'[i].kind = "draw"}
    BY <1>1 DEF DrawsIn
  <2>2. DrawsIn(stack) = {i \in 1 .. Len(stack) : stack[i].kind = "draw"}
    BY DrawIndices DEF IInv
  <2> QED BY <1>1, <1>2, <2>1, <2>2
<1>6. DepthInv'
  BY <1>5 DEF IInv, DepthInv, OutermostDraws
<1>7. LinesInv' /\ PendingInv'
  BY <1>5, LinesKept, PendingKept DEF IInv
<1> QED BY <1>3, <1>4, <1>6, <1>7 DEF IInv

\* A function goes on.
LEMMA ReplaceInv ==
  ASSUME IInv, stack # <<>>, NEW f \in AllFrames, Replace(f),
         f.kind = Top.kind, f.kind # "draw",
         f.kind \in Kinds => Counted(f),
         returned' = NoValue, over' \in BOOLEAN,
         UNCHANGED <<draw_depth, names, shown>>
  PROVE  IInv'
<1>1. /\ stack' \in Seq(AllFrames)
      /\ Len(stack') = Len(stack)
      /\ \A i \in 1 .. Len(stack) - 1 : stack'[i] = stack[i]
      /\ stack'[Len(stack)] = f
  BY Replaced DEF IInv
<1>2. Len(stack) \in Nat /\ Len(stack) >= 1
  BY StackTyped DEF IInv
<1>3. TypeInv'
  BY <1>1 DEF IInv, TypeInv, names
<1>4. \A i \in 1 .. Len(stack) : stack'[i].kind = stack[i].kind
  BY <1>1, <1>2 DEF Top
<1>5. CallInv'
  <2>1. stack'[1].kind \in {"draw", "repeat"}
    BY <1>2, <1>4 DEF IInv, CallInv
  <2>2. ASSUME NEW i \in 2 .. Len(stack') PROVE Calls(stack'[i-1], stack'[i])
    <3>1. stack'[i-1] = stack[i-1] /\ stack'[i].kind = stack[i].kind
      BY <1>1, <1>2, <1>4
    <3>2. Calls(stack[i-1], stack[i])
      BY <1>1 DEF IInv, CallInv
    <3> QED BY <3>1, <3>2 DEF Calls
  <2> QED BY <2>1, <2>2 DEF CallInv
<1>6. SizeInv'
  <2> SUFFICES ASSUME NEW i \in 1 .. Len(stack'), stack'[i].kind \in Kinds
               PROVE  Counted(stack'[i])
    BY DEF SizeInv, Counted
  <2>1. CASE i < Len(stack)
    BY <1>1, <1>2, <2>1 DEF IInv, SizeInv
  <2>2. CASE i = Len(stack)
    BY <1>1, <2>2
  <2> QED BY <1>1, <1>2, <2>1, <2>2
<1>7. DrawsIn(stack') = DrawsIn(stack) /\ \A i \in DrawsIn(stack) : stack'[i] = stack[i]
  <2>1. DrawsIn(stack') = {i \in 1 .. Len(stack') : stack'[i].kind = "draw"}
    BY <1>1 DEF DrawsIn
  <2>2. DrawsIn(stack) = {i \in 1 .. Len(stack) : stack[i].kind = "draw"}
    BY DrawIndices DEF IInv
  <2>3. Len(stack) \notin DrawsIn(stack)
    BY <2>2 DEF Top
  <2> QED BY <1>1, <1>2, <1>4, <2>1, <2>2, <2>3
<1>8. DepthInv'
  BY <1>7 DEF IInv, DepthInv, OutermostDraws
<1>9. LinesInv' /\ PendingInv'
  BY <1>7, LinesKept, PendingKept DEF IInv
<1> QED BY <1>3, <1>5, <1>6, <1>8, <1>9 DEF IInv

\* What becomes of the calls below one that ends.
LEMMA PoppedCalls ==
  ASSUME IInv, stack # <<>>, stack' = Below
  PROVE  /\ stack' # <<>> => stack'[1].kind \in {"draw", "repeat"}
         /\ \A i \in 2 .. Len(stack') : Calls(stack'[i-1], stack'[i])
         /\ SizeInv'
<1>1. /\ stack' \in Seq(AllFrames)
      /\ Len(stack') = Len(stack) - 1
      /\ \A i \in 1 .. Len(stack) - 1 : stack'[i] = stack[i]
  BY Popped DEF IInv
<1>2. Len(stack) \in Nat /\ Len(stack) >= 1
  BY StackTyped DEF IInv
<1>3. stack' # <<>> => stack'[1].kind \in {"draw", "repeat"}
  BY <1>1, <1>2 DEF IInv, CallInv
<1>4. ASSUME NEW i \in 2 .. Len(stack') PROVE Calls(stack'[i-1], stack'[i])
  <2>1. stack'[i-1] = stack[i-1] /\ stack'[i] = stack[i] /\ i \in 2 .. Len(stack)
    BY <1>1, <1>2
  <2> QED BY <2>1 DEF IInv, CallInv
<1>5. SizeInv'
  <2> SUFFICES ASSUME NEW i \in 1 .. Len(stack'), stack'[i].kind \in Kinds
               PROVE  Counted(stack'[i])
    BY DEF SizeInv, Counted
  <2> QED BY <1>1, <1>2 DEF IInv, SizeInv
<1> QED BY <1>3, <1>4, <1>5

\* A function returns to its caller.
LEMMA GiveInv ==
  ASSUME IInv, stack # <<>>, Top.kind # "draw",
         NEW v \in Values \cup {NoValue}, Give(v),
         v # NoValue => Top.kind # "repeat",
         UNCHANGED <<draw_depth, names, shown, over>>
  PROVE  IInv'
<1>1. /\ stack' \in Seq(AllFrames)
      /\ Len(stack') = Len(stack) - 1
      /\ \A i \in 1 .. Len(stack) - 1 : stack'[i] = stack[i]
      /\ stack' = Below
      /\ returned' = v
  BY Popped DEF IInv, Give
<1>2. Len(stack) \in Nat /\ Len(stack) >= 1
  BY StackTyped DEF IInv
<1>3. TypeInv'
  <2>1. MaxDepth \in Nat /\ Len(stack) - 1 <= MaxDepth
    BY <1>2, DrawsAssumption DEF IInv, TypeInv
  <2> QED BY <1>1, <2>1 DEF IInv, TypeInv, names
<1>4. returned' # NoValue => stack' # <<>> /\ Wants(Top)'
  <2> SUFFICES ASSUME v # NoValue PROVE stack' # <<>> /\ Wants(Top)'
    BY <1>1
  <2>1. Len(stack) # 1
    BY DEF IInv, CallInv, Top
  <2>2. Len(stack) \in 2 .. Len(stack)
    <3>1. \A n \in Nat : n >= 1 /\ n # 1 => n \in 2 .. n
      OBVIOUS
    <3> QED BY <1>2, <2>1, <3>1
  <2>3. Calls(stack[Len(stack) - 1], Top)
    BY <2>2 DEF IInv, CallInv, Top
  <2>4. Wants(stack[Len(stack) - 1])
    BY <2>3 DEF Calls
  <2>5. Top' = stack[Len(stack) - 1] /\ stack' # <<>>
    BY <1>1, <1>2, <2>2 DEF Top
  <2> QED BY <2>4, <2>5 DEF Wants
<1>5. CallInv' /\ SizeInv'
  BY <1>1, <1>4, PoppedCalls DEF CallInv
<1>6. DrawsIn(stack') = DrawsIn(stack) /\ \A i \in DrawsIn(stack) : stack'[i] = stack[i]
  <2>1. DrawsIn(stack') = {i \in 1 .. Len(stack') : stack'[i].kind = "draw"}
    BY <1>1 DEF DrawsIn
  <2>2. DrawsIn(stack) = {i \in 1 .. Len(stack) : stack[i].kind = "draw"}
    BY DrawIndices DEF IInv
  <2>3. Len(stack) \notin DrawsIn(stack)
    BY <2>2 DEF Top
  <2> QED BY <1>1, <1>2, <2>1, <2>2, <2>3
<1>7. DepthInv'
  BY <1>6 DEF IInv, DepthInv, OutermostDraws
<1>8. LinesInv' /\ PendingInv'
  BY <1>6, LinesKept, PendingKept DEF IInv
<1> QED BY <1>3, <1>5, <1>7, <1>8 DEF IInv

\* A repeat() goes on after an exception.
LEMMA Resumed ==
  ASSUME NEW f \in AllFrames, f.kind = "repeat"
  PROVE  /\ [f EXCEPT !.stage = "more"] \in AllFrames
         /\ [f EXCEPT !.stage = "more"].kind = "repeat"
<1>1. f \in RepeatFrames
  BY FrameKinds
<1>2. [f EXCEPT !.stage = "more"] \in RepeatFrames
  BY <1>1 DEF RepeatFrames
<1> QED BY <1>1, <1>2 DEF AllFrames, RepeatFrames

\* An exception ends the calls above its handler.
LEMMA UnwindInv ==
  ASSUME IInv, NEW handlers \in {{}, Handlers}, Unwind(handlers), over' \in BOOLEAN
  PROVE  IInv'
<1> DEFINE n == IF handlers = {} THEN 0 ELSE Max(handlers)
<1>1. Len(stack) \in Nat
  BY StackTyped DEF IInv
<1>2. n \in 0 .. Len(stack) /\ (n # 0 => stack[n].kind = "repeat" /\ n \in 1 .. Len(stack))
  <2>1. CASE handlers = {}
    BY <1>1, <2>1
  <2>2. CASE handlers # {}
    <3>1. n \in Handlers
      BY <2>2, Handler DEF IInv
    <3> QED BY <1>1, <3>1, StackTyped DEF Handlers, IInv
  <2> QED BY <2>1, <2>2
<1>3. /\ stack' = IF n = 0 THEN <<>> ELSE [SubSeq(stack, 1, n) EXCEPT ![n].stage = "more"]
      /\ draw_depth' = draw_depth - Cardinality({i \in DrawsIn(stack) : i > n})
      /\ returned' = NoValue
      /\ UNCHANGED <<names, shown>>
  BY DEF Unwind
<1> HIDE DEF n
<1>4. /\ stack' \in Seq(AllFrames)
      /\ Len(stack') = n
      /\ \A i \in 1 .. n : i < n => stack'[i] = stack[i]
      /\ n # 0 => stack'[n] = [stack[n] EXCEPT !.stage = "more"] /\ stack'[n].kind = "repeat"
  <2>1. CASE n = 0
    BY <1>3, <2>1
  <2>2. CASE n # 0
    <3>1. n \in 1 .. Len(stack) /\ stack[n] \in AllFrames /\ stack[n].kind = "repeat"
      BY <1>2, <2>2, StackTyped DEF IInv
    <3> DEFINE left == SubSeq(stack, 1, n)
               resumed == [stack[n] EXCEPT !.stage = "more"]
    <3>2. resumed \in AllFrames /\ resumed.kind = "repeat"
      BY <3>1, Resumed
    <3>3. left \in Seq(AllFrames) /\ Len(left) = n /\ \A i \in 1 .. n : left[i] = stack[i]
      BY <1>2, Prefix DEF IInv, TypeInv
    <3>4. stack' = [left EXCEPT ![n] = resumed]
      <4>1. stack' = [left EXCEPT ![n] = [left[n] EXCEPT !.stage = "more"]]
        BY <1>3, <2>2
      <4>2. left[n] = stack[n]
        BY <3>1, <3>3
      <4> QED BY <4>1, <4>2
    <3> HIDE DEF left, resumed
    <3>5. n \in 1 .. Len(left)
      BY <3>1, <3>3
    <3>6. /\ stack' \in Seq(AllFrames)
          /\ Len(stack') = Len(left)
          /\ \A j \in 1 .. Len(left) : stack'[j] = IF j = n THEN resumed ELSE left[j]
      BY <3>2, <3>3, <3>4, <3>5, ExceptSeq
    <3>7. stack'[n] = resumed
      BY <3>5, <3>6
    <3> QED BY <3>1, <3>2, <3>3, <3>6, <3>7 DEF resumed
  <2> QED BY <2>1, <2>2
<1>5. \A i \in 1 .. n : stack'[i].kind = stack[i].kind /\ i \in 1 .. Len(stack)
  <2> SUFFICES ASSUME NEW i \in 1 .. n PROVE stack'[i].kind = stack[i].kind /\ i \in 1 .. Len(stack)
    OBVIOUS
  <2>1. CASE i < n
    BY <1>1, <1>2, <1>4, <2>1
  <2>2. CASE i = n
    BY <1>1, <1>2, <1>4, <2>2
  <2> QED BY <1>2, <2>1, <2>2
<1>6. TypeInv'
  <2>1. MaxDepth \in Nat /\ n <= MaxDepth
    BY <1>1, <1>2, DrawsAssumption DEF IInv, TypeInv
  <2> QED BY <1>3, <1>4, <2>1 DEF IInv, TypeInv, names
<1>7. CallInv'
  <2>1. stack' # <<>> => stack'[1].kind \in {"draw", "repeat"}
    <3> SUFFICES ASSUME stack' # <<>> PROVE stack'[1].kind \in {"draw", "repeat"}
      OBVIOUS
    <3>1. n # 0
      BY <1>3
    <3>2. stack'[1].kind = stack[1].kind /\ stack # <<>>
      BY <1>1, <1>2, <1>5, <3>1
    <3> QED BY <3>2 DEF IInv, CallInv
  <2>2. ASSUME NEW i \in 2 .. Len(stack') PROVE Calls(stack'[i-1], stack'[i])
    <3>1. stack'[i-1] = stack[i-1] /\ stack'[i].kind = stack[i].kind /\ i \in 2 .. Len(stack)
      BY <1>1, <1>2, <1>4, <1>5
    <3>2. Calls(stack[i-1], stack[i])
      BY <3>1 DEF IInv, CallInv
    <3> QED BY <3>1, <3>2 DEF Calls
  <2> QED BY <1>3, <2>1, <2>2 DEF CallInv
<1>8. SizeInv'
  <2> SUFFICES ASSUME NEW i \in 1 .. Len(stack'), stack'[i].kind \in Kinds
               PROVE  Counted(stack'[i])
    BY DEF SizeInv, Counted
  <2>1. CASE i < n
    BY <1>1, <1>2, <1>4, <1>5, <2>1 DEF IInv, SizeInv
  <2>2. CASE i = n
    <3>1. i >= 1
      OBVIOUS
    <3>2. n # 0
      BY <2>2, <3>1
    <3>3. stack'[i].kind = "repeat"
      BY <1>4, <2>2, <3>2
    <3> QED BY <3>3 DEF Kinds
  <2> QED BY <1>2, <1>4, <2>1, <2>2
<1>9. DrawsIn(stack') = DrawsIn(stack) \ {i \in DrawsIn(stack) : i > n}
      /\ \A i \in DrawsIn(stack') : stack'[i] = stack[i]
  <2>1. DrawsIn(stack') = {i \in 1 .. n : stack'[i].kind = "draw"}
    BY <1>4 DEF DrawsIn
  <2>2. DrawsIn(stack) = {i \in 1 .. Len(stack) : stack[i].kind = "draw"}
    BY DrawIndices DEF IInv
  <2>3. \A i \in DrawsIn(stack') : i # n /\ i \in 1 .. n
    BY <1>4, <2>1
  <2>4. \A i \in DrawsIn(stack') : stack'[i] = stack[i]
    BY <1>2, <1>4, <2>3
  <2>5. \A i \in DrawsIn(stack) : i <= n <=> i \in DrawsIn(stack')
    BY <1>1, <1>2, <1>5, <2>1, <2>2
  <2>6. \A i \in DrawsIn(stack') : i \in DrawsIn(stack)
    BY <1>5, <2>1, <2>2
  <2>7. \A i \in DrawsIn(stack) : i \in Nat
    BY <1>1, <2>2
  <2> QED BY <1>2, <2>4, <2>5, <2>6, <2>7
<1>10. DepthInv'
  <2> DEFINE gone == {i \in DrawsIn(stack) : i > n}
  <2>1. IsFiniteSet(DrawsIn(stack)) /\ gone \in SUBSET DrawsIn(stack)
    BY DrawIndices DEF IInv
  <2>2. IsFiniteSet(gone)
    BY <2>1, FS_Subset
  <2>3. Cardinality(DrawsIn(stack) \ gone)
          = Cardinality(DrawsIn(stack)) - Cardinality(DrawsIn(stack) \cap gone)
    BY <2>1, FS_Difference
  <2>4. DrawsIn(stack) \cap gone = gone
    OBVIOUS
  <2>5. draw_depth' = Cardinality(DrawsIn(stack'))
    BY <1>3, <1>9, <2>3, <2>4 DEF IInv, DepthInv
  <2>6. OutermostDraws'
    <3> SUFFICES ASSUME NEW i \in DrawsIn(stack')
                 PROVE  stack'[i].outermost <=> \A j \in DrawsIn(stack') : j >= i
      BY DEF OutermostDraws
    <3>1. stack'[i] = stack[i] /\ i \in DrawsIn(stack) /\ i <= n
      <4>1. i \in DrawsIn(stack) /\ ~(i > n) /\ i \in Int
        BY <1>9, DrawIndices DEF IInv
      <4> QED BY <1>1, <1>2, <1>9, <4>1
    <3>2. stack[i].outermost <=> \A j \in DrawsIn(stack) : j >= i
      BY <3>1 DEF IInv, DepthInv, OutermostDraws
    <3>3. \A j \in DrawsIn(stack) : j \notin DrawsIn(stack') => j > n
      BY <1>9
    <3>4. \A j \in DrawsIn(stack) : j \in Int
      BY DrawIndices DEF IInv
    <3>5. \A j \in DrawsIn(stack) : j \notin DrawsIn(stack') => j >= i
      BY <1>1, <1>2, <3>1, <3>3, <3>4
    <3> QED BY <1>9, <3>1, <3>2, <3>5
  <2> QED BY <2>5, <2>6 DEF DepthInv
<1>11. LinesInv' /\ PendingInv'
  BY <1>3, <1>9, LinesKept, PendingKept DEF IInv
<1> QED BY <1>6, <1>7, <1>8, <1>10, <1>11 DEF IInv

-----------------------------------------------------------------------------
(* Names *)

\* A name with a number behind it.
LEMMA Numbered ==
  ASSUME NEW base \in Displays, NEW n \in Nat
  PROVE  /\ Append(base, n) \in Displays
         /\ Front(Append(base, n)) = base
         /\ Last(Append(base, n)) = n
<1> DEFINE a == Append(base, n)
<1>1. n \in Word
  BY DEF Word
<1>2. /\ a \in Seq(Word)
      /\ Len(a) = Len(base) + 1
      /\ \A i \in 1 .. Len(base) : a[i] = base[i]
      /\ a[Len(base) + 1] = n
  BY <1>1, AppendProperties DEF Displays
<1> HIDE DEF a
<1>3. base \in Seq(Word) /\ Len(base) \in Nat /\ Len(base) \in 0 .. Len(a)
  BY <1>2 DEF Displays
<1>4. /\ SubSeq(a, 1, Len(base)) \in Seq(Word)
      /\ Len(SubSeq(a, 1, Len(base))) = Len(base)
      /\ \A i \in 1 .. Len(base) : SubSeq(a, 1, Len(base))[i] = a[i]
  BY <1>2, <1>3, Prefix
<1>5. SubSeq(a, 1, Len(base)) = base
  BY <1>2, <1>3, <1>4, SeqEqual
<1>6. Len(a) - 1 = Len(base)
  BY <1>2, <1>3
<1>7. Front(a) = base /\ Last(a) = n
  BY <1>2, <1>5, <1>6 DEF Front, Last
<1> QED BY <1>2, <1>7 DEF a, Displays

\* The bases are names.
LEMMA BasesAreNames == Bases \subseteq Displays
<1>1. \A name \in Names : name \in Displays
  <2> SUFFICES ASSUME NEW name \in Names PROVE name \in Displays
    OBVIOUS
  <2>1. Len(name) \in Nat /\ name = [i \in 1 .. Len(name) |-> name[i]]
    BY DrawsAssumption
  <2>2. \A i \in 1 .. Len(name) : name[i] \in Word
    BY DEF Word
  <2>3. [i \in 1 .. Len(name) |-> name[i]] \in Seq(Word)
    BY <2>1, <2>2
  <2> QED BY <2>1, <2>3 DEF Displays
<1>2. <<"draw">> \in Displays
  <2>1. "draw" \in Word
    BY DEF Word
  <2> QED BY <2>1 DEF Displays
<1> QED BY <1>1, <1>2 DEF Bases, BaseName, Unnamed

\* Of as many numbers as there are names and one more, one is free.
LEMMA OneIsFree ==
  ASSUME TypeInv, NEW base \in Displays, NEW count \in Nat
  PROVE  \E n \in count .. count + Cardinality(taken_display_names) :
           Append(base, n) \notin taken_display_names
<1> DEFINE size == Cardinality(taken_display_names)
           numbers == count .. count + size
           name == [n \in numbers |-> Append(base, n)]
<1>1. IsFiniteSet(taken_display_names) /\ size \in Nat
  BY FS_CardinalityType DEF TypeInv
<1> HIDE DEF size
<1>2. IsFiniteSet(numbers) /\ Cardinality(numbers) = size + 1
  <2>1. /\ IsFiniteSet(numbers)
        /\ Cardinality(numbers)
             = IF count > count + size THEN 0 ELSE count + size - count + 1
    BY <1>1, FS_Interval
  <2> QED BY <1>1, <2>1
<1>3. SUFFICES ASSUME \A n \in numbers : Append(base, n) \in taken_display_names
               PROVE  FALSE
  BY DEF size
<1>4. name \in [numbers -> taken_display_names]
  BY <1>3
<1>5. \A m, n \in numbers : name[m] = name[n] => m = n
  <2> SUFFICES ASSUME NEW m \in numbers, NEW n \in numbers, name[m] = name[n]
               PROVE  m = n
    OBVIOUS
  <2>1. m \in Nat /\ n \in Nat
    BY <1>1
  <2>2. Last(Append(base, m)) = m /\ Last(Append(base, n)) = n
    BY <2>1, Numbered
  <2> QED BY <2>2
<1>6. Cardinality(taken_display_names) < Cardinality(numbers)
  BY <1>1, <1>2 DEF size
<1> HIDE DEF numbers, name
<1>7. \E m, n \in numbers : m # n /\ name[m] = name[n]
  BY <1>1, <1>2, <1>4, <1>6, FS_PigeonHole
<1> QED BY <1>5, <1>7

\* The suffix is the first number from the count on that is free.
LEMMA FreshName ==
  ASSUME TypeInv, NEW base \in Displays, NEW count \in Nat
  PROVE  \E n \in Nat :
           /\ n >= count
           /\ Fresh(base, count) = Append(base, n)
           /\ Append(base, n) \notin taken_display_names
           /\ \A m \in count .. n - 1 : Append(base, m) \in taken_display_names
<1> DEFINE numbers == count .. count + Cardinality(taken_display_names)
           free == {n \in numbers : Append(base, n) \notin taken_display_names}
<1>1. Cardinality(taken_display_names) \in Nat
  BY FS_CardinalityType DEF TypeInv
<1>2. free # {} /\ free \subseteq Nat
  BY <1>1, OneIsFree
<1>3. PICK k \in free : \A m \in free : <<m, k>> \notin OpToRel(<, Nat)
  BY <1>2, NatLessThanWellFounded, WFMin
<1>4. \A m \in free : k <= m
  <2> SUFFICES ASSUME NEW m \in free PROVE k <= m
    OBVIOUS
  <2>1. k \in Nat /\ m \in Nat
    BY <1>2
  <2>2. ~(m < k)
    BY <1>3, <2>1 DEF OpToRel
  <2> QED BY <2>1, <2>2
<1>5. \A m \in count .. k - 1 : Append(base, m) \in taken_display_names
  <2> SUFFICES ASSUME NEW m \in count .. k - 1, Append(base, m) \notin taken_display_names
               PROVE  FALSE
    OBVIOUS
  <2>1. k \in Nat /\ count <= k /\ k <= count + Cardinality(taken_display_names)
    BY <1>1
  <2>2. m \in numbers /\ m < k /\ m \in Nat
    BY <1>1, <2>1
  <2> QED BY <1>4, <2>1, <2>2
<1> DEFINE chosen(n) == /\ Append(base, n) \notin taken_display_names
                        /\ \A m \in count .. n - 1 : Append(base, m) \in taken_display_names
<1>6. \E n \in numbers : chosen(n)
  BY <1>3, <1>5
<1>7. PICK n \in numbers : chosen(n) /\ Fresh(base, count) = Append(base, n)
  BY <1>6 DEF Fresh
<1>8. n \in Nat /\ n >= count
  BY <1>1
<1> QED BY <1>7, <1>8

\* Nothing is returned to the user's code before it asks.
LEMMA UserCodeIdle == ASSUME IInv, InUserCode PROVE returned = NoValue
<1>1. ASSUME returned # NoValue PROVE FALSE
  <2>1. stack # <<>> /\ Wants(Top)
    BY <1>1 DEF IInv, CallInv
  <2>2. Top.kind \in {"compose", "repeat"}
    BY <2>1 DEF InUserCode
  <2> QED BY <2>1, <2>2 DEF Wants, Kinds
<1> QED BY <1>1

\* The name of an outermost draw: a bare one, or one that no draw had before and
\* whose number is past all those of the base.
LEMMA NameChosen ==
  ASSUME IInv, NEW name \in Names, NEW repeatable \in BOOLEAN
  PROVE  LET base    == BaseName(name)
             display == DisplayName(name, repeatable)
             count   == draw_name_counts[base] + 1
         IN  /\ base \in Bases /\ count \in Nat \ {0}
             /\ display \in Displays
             /\ IsDisplayName(display)
             /\ name = <<>> \/ repeatable =>
                  /\ display \notin taken_display_names
                  /\ Front(display) = base
                  /\ Last(display) \in Nat \ {0}
                  /\ Last(display) >= count
                  /\ \A m \in count .. Last(display) - 1 :
                       Append(base, m) \in taken_display_names
                  /\ display = Append(base, Last(display))
<1> DEFINE base    == BaseName(name)
           display == DisplayName(name, repeatable)
           count   == draw_name_counts[base] + 1
<1>1. base \in Bases /\ base \in Displays
  BY BasesAreNames DEF Bases
<1>2. count \in Nat \ {0}
  BY <1>1 DEF IInv, TypeInv
<1>3. CASE name = <<>> \/ repeatable
  <2>1. display = Fresh(base, count)
    BY <1>3 DEF DisplayName
  <2> HIDE DEF display, base, count
  <2>2. PICK n \in Nat :
          /\ n >= count
          /\ Fresh(base, count) = Append(base, n)
          /\ Append(base, n) \notin taken_display_names
          /\ \A m \in count .. n - 1 : Append(base, m) \in taken_display_names
    BY <1>1, <1>2, FreshName DEF IInv
  <2>3. display \in Displays /\ Front(display) = base /\ Last(display) = n
    BY <1>1, <2>1, <2>2, Numbered
  <2>4. n \in Nat \ {0}
    BY <1>2, <2>2
  <2> QED BY <1>1, <1>2, <1>3, <2>1, <2>2, <2>3, <2>4 DEF IsDisplayName, base, display, count
<1>4. CASE ~(name = <<>> \/ repeatable)
  BY <1>1, <1>2, <1>4 DEF DisplayName, IsDisplayName
<1> QED BY <1>3, <1>4

\* More names are taken and a count grows: no gap opens.
LEMMA StillGapless ==
  ASSUME IInv, NEW base \in Bases, NEW display, NEW line, Gapless(line),
         draw_name_counts' = [draw_name_counts EXCEPT ![base] = @ + 1],
         taken_display_names' = taken_display_names \cup {display}
  PROVE  GaplessIn(draw_name_counts', taken_display_names', line)
<1> SUFFICES ASSUME line.suffixed
             PROVE  LET b == Front(line.display)
                    IN  /\ b \in Bases /\ Last(line.display) \in Nat \ {0}
                        /\ \A m \in draw_name_counts'[b] .. Last(line.display) :
                             Append(b, m) \in taken_display_names'
  BY DEF GaplessIn
<1> DEFINE b == Front(line.display)
<1>1. /\ b \in Bases /\ Last(line.display) \in Nat \ {0}
      /\ \A m \in draw_name_counts[b] .. Last(line.display) :
           Append(b, m) \in taken_display_names
  BY DEF Gapless, GaplessIn
<1>2. /\ draw_name_counts[b] \in Nat /\ draw_name_counts'[b] \in Nat
      /\ draw_name_counts'[b] >= draw_name_counts[b]
  BY <1>1 DEF IInv, TypeInv
<1> HIDE DEF b
<1>3. \A m \in draw_name_counts'[b] .. Last(line.display) :
        m \in draw_name_counts[b] .. Last(line.display)
  BY <1>1, <1>2
<1> QED BY <1>1, <1>3 DEF b

\* A draw of the body's own takes its name.
LEMMA OutermostPushed ==
  ASSUME IInv, draw_depth = 0, InUserCode,
         NEW base \in Bases, NEW display \in Displays, IsDisplayName(display),
         NEW f \in AllFrames, f.kind = "draw", f.outermost = TRUE, f.display = display,
         f.suffixed => /\ display \notin taken_display_names
                       /\ Front(display) = base
                       /\ Last(display) \in Nat \ {0}
                       /\ Last(display) >= draw_name_counts[base] + 1
                       /\ \A m \in draw_name_counts[base] + 1 .. Last(display) - 1 :
                            Append(base, m) \in taken_display_names
                       /\ display = Append(base, Last(display)),
         Call(f),
         draw_depth' = draw_depth + 1,
         draw_name_counts' = [draw_name_counts EXCEPT ![base] = @ + 1],
         taken_display_names' = taken_display_names \cup {display},
         UNCHANGED <<returned, shown, over>>
  PROVE  IInv'
<1>1. returned' = NoValue
  BY UserCodeIdle
<1>2. /\ stack' \in Seq(AllFrames)
      /\ Len(stack') = Len(stack) + 1
      /\ Len(stack') <= MaxDepth
      /\ \A i \in 1 .. Len(stack) : stack'[i] = stack[i]
      /\ stack'[Len(stack) + 1] = f
  BY Pushed DEF IInv
<1>3. TypeInv'
  <2>1. /\ taken_display_names' \subseteq Displays
        /\ IsFiniteSet(taken_display_names')
        /\ \A d \in taken_display_names' : IsDisplayName(d)
    BY FS_AddElement DEF IInv, TypeInv
  <2>2. draw_name_counts' \in [Bases -> Nat]
    BY DEF IInv, TypeInv
  <2>3. \A d \in taken_display_names' : IsDisplayName(d)'
    BY <2>1 DEF IsDisplayName
  <2> QED BY <1>2, <2>1, <2>2, <2>3 DEF IInv, TypeInv
<1>4. CallInv' /\ SizeInv'
  <2>1. f.kind \in Kinds => Counted(f)
    BY DEF Kinds
  <2>2. IF stack = <<>> THEN f.kind \in {"draw", "repeat"} ELSE Calls(Top, f)
    BY DEF InUserCode, Calls, UserCode
  <2> QED BY <1>1, <2>1, <2>2, PushCalls
<1>5. DrawsIn(stack) = {} /\ DrawsIn(stack') = {Len(stack) + 1}
  <2>1. DrawsIn(stack') = {i \in 1 .. Len(stack') : stack'[i].kind = "draw"}
    BY <1>2 DEF DrawsIn
  <2>2. DrawsIn(stack) = {i \in 1 .. Len(stack) : stack[i].kind = "draw"} /\ Len(stack) \in Nat
    BY DrawIndices, StackTyped DEF IInv
  <2>3. DrawsIn(stack) = {}
    BY DrawIndices DEF IInv, DepthInv
  <2>4. \A i \in 1 .. Len(stack') : stack'[i].kind = "draw" <=> i = Len(stack) + 1
    BY <1>2, <2>2, <2>3
  <2>5. Len(stack) + 1 \in 1 .. Len(stack')
    BY <1>2, <2>2
  <2> QED BY <2>1, <2>3, <2>4, <2>5
<1>6. DepthInv'
  <2>1. draw_depth' = Cardinality(DrawsIn(stack'))
    <3>1. Cardinality({Len(stack) + 1}) = 1
      BY FS_Singleton
    <3> QED BY <1>5, <3>1
  <2>2. Len(stack) \in Nat
    BY StackTyped DEF IInv
  <2>3. OutermostDraws'
    BY <1>2, <1>5, <2>2 DEF OutermostDraws
  <2> QED BY <2>1, <2>3 DEF DepthInv
<1>7. LinesInv'
  <2>1. ASSUME NEW i \in 1 .. Len(shown)
        PROVE  shown[i].display \in taken_display_names' /\ GaplessIn(draw_name_counts', taken_display_names', shown[i])
    <3>1. shown[i].display \in taken_display_names /\ Gapless(shown[i])
      BY DEF IInv, LinesInv
    <3> QED BY <3>1, StillGapless
  <2> QED BY <2>1 DEF IInv, LinesInv, Precedes, Gapless
<1>8. PendingInv'
  <2>1. f.display \in taken_display_names'
    OBVIOUS
  <2>2. GaplessIn(draw_name_counts', taken_display_names', f)
    <3> SUFFICES ASSUME f.suffixed
                 PROVE  /\ base \in Bases /\ Last(display) \in Nat \ {0}
                        /\ \A m \in draw_name_counts'[base] .. Last(display) :
                             Append(base, m) \in taken_display_names'
      BY DEF Gapless, GaplessIn
    <3>1. draw_name_counts'[base] = draw_name_counts[base] + 1
          /\ draw_name_counts[base] \in Nat
      BY DEF IInv, TypeInv
    <3>2. ASSUME NEW m \in draw_name_counts'[base] .. Last(display)
          PROVE  Append(base, m) \in taken_display_names'
      <4>1. CASE m = Last(display)
        BY <4>1
      <4>2. CASE m # Last(display)
        <5>1. m \in draw_name_counts[base] + 1 .. Last(display) - 1
          BY <3>1, <4>2
        <5> QED BY <5>1
      <4> QED BY <4>1, <4>2
    <3> QED BY <3>2
  <2>3. ASSUME NEW k \in 1 .. Len(shown) PROVE Precedes(shown[k], f)
    <3> SUFFICES ASSUME f.suffixed
                 PROVE  /\ display # shown[k].display
                        /\ shown[k].suffixed /\ Front(shown[k].display) = base =>
                             Last(shown[k].display) < Last(display)
      BY DEF Precedes
    <3>1. shown[k].display \in taken_display_names /\ Gapless(shown[k])
      BY DEF IInv, LinesInv
    <3>2. ASSUME shown[k].suffixed, Front(shown[k].display) = base,
                 Last(shown[k].display) >= Last(display)
          PROVE  FALSE
      <4>1. /\ Last(shown[k].display) \in Nat
            /\ \A m \in draw_name_counts[base] .. Last(shown[k].display) :
                 Append(base, m) \in taken_display_names
        BY <3>1, <3>2 DEF Gapless, GaplessIn
      <4>2. draw_name_counts[base] \in Nat
        BY DEF IInv, TypeInv
      <4>3. Last(display) \in draw_name_counts[base] .. Last(shown[k].display)
        BY <3>2, <4>1, <4>2
      <4> QED BY <4>1, <4>3
    <3>3. shown[k].suffixed => Last(shown[k].display) \in Nat
      BY <3>1 DEF Gapless, GaplessIn
    <3>4. shown[k].suffixed /\ Front(shown[k].display) = base =>
            Last(shown[k].display) < Last(display)
      BY <3>2, <3>3
    <3> QED BY <3>1, <3>4
  <2>4. ASSUME NEW k \in 1 .. Len(shown') PROVE Precedes(shown'[k], f)
    BY <2>3
  <2> SUFFICES ASSUME NEW i \in DrawsIn(stack')
               PROVE  IF stack'[i].outermost
                      THEN /\ stack'[i].display \in taken_display_names'
                           /\ GaplessIn(draw_name_counts', taken_display_names', stack'[i])
                           /\ \A k \in 1 .. Len(shown') : Precedes(shown'[k], stack'[i])
                      ELSE stack'[i].display = <<>>
    BY DEF PendingInv, Precedes, Gapless
  <2>5. stack'[i] = f
    BY <1>2, <1>5
  <2> QED BY <2>1, <2>2, <2>4, <2>5 DEF Gapless, GaplessIn
<1> QED BY <1>3, <1>4, <1>6, <1>7, <1>8 DEF IInv

\* The draw's name is chosen as it begins.
LEMMA OutermostInv ==
  ASSUME IInv, NEW name \in Names, NEW repeatable \in BOOLEAN,
         BeginDraw(name, repeatable), draw_depth = 0
  PROVE  IInv'
<1>1. PICK base : base = BaseName(name)
  OBVIOUS
<1>2. PICK display : display = DisplayName(name, repeatable)
  OBVIOUS
<1>3. PICK f : f = [kind |-> "draw", outermost |-> TRUE, display |-> display,
                    suffixed |-> name = <<>> \/ repeatable]
  OBVIOUS
<1>4. /\ base \in Bases
      /\ display \in Displays
      /\ IsDisplayName(display)
      /\ name = <<>> \/ repeatable =>
           /\ display \notin taken_display_names
           /\ Front(display) = base
           /\ Last(display) \in Nat \ {0}
           /\ Last(display) >= draw_name_counts[base] + 1
           /\ \A m \in draw_name_counts[base] + 1 .. Last(display) - 1 :
                Append(base, m) \in taken_display_names
           /\ display = Append(base, Last(display))
  BY <1>1, <1>2, NameChosen
<1>5. /\ Call(f)
      /\ draw_depth' = draw_depth + 1
      /\ draw_name_counts' = [draw_name_counts EXCEPT ![base] = @ + 1]
      /\ taken_display_names' = taken_display_names \cup {display}
      /\ InUserCode
      /\ UNCHANGED <<returned, shown, over>>
  BY <1>1, <1>2, <1>3 DEF BeginDraw, DrawLogScope
<1>6. /\ f \in AllFrames /\ f.kind = "draw" /\ f.outermost = TRUE /\ f.display = display
      /\ f.suffixed = (name = <<>> \/ repeatable)
  BY <1>3, <1>4 DEF AllFrames, DrawFrames
<1> QED BY <1>4, <1>5, <1>6, OutermostPushed

\* A draw inside another takes none.
LEMMA InnerInv ==
  ASSUME IInv, NEW name \in Names, NEW repeatable \in BOOLEAN,
         BeginDraw(name, repeatable), draw_depth # 0
  PROVE  IInv'
<1> DEFINE f == [kind |-> "draw", outermost |-> FALSE, display |-> <<>>, suffixed |-> FALSE]
<1>1. /\ Call(f)
      /\ draw_depth' = draw_depth + 1
      /\ InUserCode
      /\ UNCHANGED <<returned, names, shown, over>>
  BY DEF BeginDraw, DrawLogScope
<1>2. f.kind = "draw" /\ f.outermost = FALSE /\ f.display = <<>> /\ f \in AllFrames
  <2>1. <<>> \in Displays
    BY DEF Displays
  <2> QED BY <2>1 DEF AllFrames, DrawFrames
<1> HIDE DEF f
<1>3. returned' = NoValue
  BY <1>1, UserCodeIdle
<1>4. /\ stack' \in Seq(AllFrames)
      /\ Len(stack') = Len(stack) + 1
      /\ Len(stack') <= MaxDepth
      /\ \A i \in 1 .. Len(stack) : stack'[i] = stack[i]
      /\ stack'[Len(stack) + 1] = f
  BY <1>1, <1>2, Pushed DEF IInv
<1>5. TypeInv'
  BY <1>1, <1>4 DEF IInv, TypeInv, names
<1>6. CallInv' /\ SizeInv'
  <2>1. f.kind \in Kinds => Counted(f)
    BY <1>2 DEF Kinds
  <2>2. IF stack = <<>> THEN f.kind \in {"draw", "repeat"} ELSE Calls(Top, f)
    BY <1>1, <1>2 DEF InUserCode, Calls, UserCode
  <2> QED BY <1>1, <1>2, <1>3, <2>1, <2>2, PushCalls
<1>7. /\ DrawsIn(stack) # {}
      /\ DrawsIn(stack') = DrawsIn(stack) \cup {Len(stack) + 1}
      /\ \A i \in DrawsIn(stack) : i \in 1 .. Len(stack) /\ stack'[i] = stack[i]
      /\ Len(stack) \in Nat
  <2>1. DrawsIn(stack') = {i \in 1 .. Len(stack') : stack'[i].kind = "draw"}
    BY <1>4 DEF DrawsIn
  <2>2. DrawsIn(stack) = {i \in 1 .. Len(stack) : stack[i].kind = "draw"} /\ Len(stack) \in Nat
    BY DrawIndices, StackTyped DEF IInv
  <2>3. DrawsIn(stack) # {}
    BY DrawIndices DEF IInv, DepthInv
  <2>4. \A i \in 1 .. Len(stack') : i = Len(stack) + 1 \/ i \in 1 .. Len(stack)
    BY <1>4, <2>2
  <2>5. \A i \in 1 .. Len(stack) : i \in 1 .. Len(stack')
    BY <1>4, <2>2
  <2>6. Len(stack) + 1 \in 1 .. Len(stack')
    BY <1>4, <2>2
  <2> QED BY <1>2, <1>4, <2>1, <2>2, <2>3, <2>4, <2>5, <2>6
<1>8. DepthInv'
  <2>1. draw_depth' = Cardinality(DrawsIn(stack'))
    <3>1. Len(stack) + 1 \notin DrawsIn(stack)
      BY <1>7
    <3>2. Cardinality(DrawsIn(stack')) = Cardinality(DrawsIn(stack)) + 1
      BY <1>7, <3>1, DrawIndices, FS_AddElement DEF IInv
    <3> QED BY <1>1, <3>2 DEF IInv, DepthInv
  <2>2. OutermostDraws'
    <3> SUFFICES ASSUME NEW i \in DrawsIn(stack')
                 PROVE  stack'[i].outermost <=> \A j \in DrawsIn(stack') : j >= i
      BY DEF OutermostDraws
    <3>1. CASE i = Len(stack) + 1
      <4>1. PICK j \in DrawsIn(stack) : TRUE
        BY <1>7
      <4>2. j \in DrawsIn(stack') /\ ~(j >= i)
        BY <1>7, <3>1, <4>1
      <4> QED BY <1>2, <1>4, <3>1, <4>2
    <3>2. CASE i # Len(stack) + 1
      <4>1. i \in DrawsIn(stack) /\ stack'[i] = stack[i] /\ i \in 1 .. Len(stack)
        BY <1>7, <3>2
      <4>2. Len(stack) + 1 >= i
        BY <1>7, <4>1
      <4>3. stack[i].outermost <=> \A j \in DrawsIn(stack) : j >= i
        BY <4>1 DEF IInv, DepthInv, OutermostDraws
      <4> QED BY <1>7, <4>1, <4>2, <4>3
    <3> QED BY <3>1, <3>2
  <2> QED BY <2>1, <2>2 DEF DepthInv
<1>9. LinesInv'
  BY <1>1, LinesKept DEF IInv
<1>10. PendingInv'
  <2> SUFFICES ASSUME NEW i \in DrawsIn(stack')
               PROVE  (IF stack'[i].outermost
                       THEN /\ stack'[i].display \in taken_display_names
                            /\ Gapless(stack'[i])
                            /\ \A k \in 1 .. Len(shown) : Precedes(shown[k], stack'[i])
                       ELSE stack'[i].display = <<>>)
    BY <1>1 DEF PendingInv, Precedes, Gapless, names
  <2>1. CASE i = Len(stack) + 1
    BY <1>2, <1>4, <2>1
  <2>2. CASE i # Len(stack) + 1
    <3>1. i \in DrawsIn(stack) /\ stack'[i] = stack[i]
      BY <1>7, <2>2
    <3> QED BY <3>1 DEF IInv, PendingInv
  <2> QED BY <2>1, <2>2
<1> QED BY <1>5, <1>6, <1>8, <1>9, <1>10 DEF IInv

\* A draw ends, and its line is printed if it is the body's own.
LEMMA EndDrawInv == ASSUME IInv, EndDraw PROVE IInv'
<1>1. /\ stack # <<>> /\ Top.kind = "draw"
      /\ stack' = Below /\ returned' = NoValue
      /\ draw_depth' = draw_depth - 1
      /\ UNCHANGED <<names, over>>
  BY DEF EndDraw, Give
<1>2. PICK last : last = Len(stack)
  OBVIOUS
<1>3. last \in Nat /\ last >= 1 /\ Top = stack[last] /\ Top \in DrawFrames(Displays)
  BY <1>1, <1>2, StackTyped, FrameKinds DEF IInv, Top
<1>4. /\ stack' \in Seq(AllFrames)
      /\ Len(stack') = last - 1
      /\ \A i \in 1 .. last - 1 : stack'[i] = stack[i]
  BY <1>1, <1>2, Popped DEF IInv
<1>5. PICK line : line = [display |-> Top.display, suffixed |-> Top.suffixed]
  OBVIOUS
<1>6. line \in Line /\ line.display = Top.display /\ line.suffixed = Top.suffixed
  BY <1>3, <1>5 DEF DrawFrames, Line
<1>7. shown' = IF Top.outermost THEN Append(shown, line) ELSE shown
  BY <1>5 DEF EndDraw
<1>8. TypeInv'
  <2>1. MaxDepth \in Nat /\ last - 1 <= MaxDepth
    BY <1>2, <1>3, DrawsAssumption DEF IInv, TypeInv
  <2>2. shown' \in Seq(Line)
    BY <1>6, <1>7, AppendProperties DEF IInv, TypeInv
  <2> QED BY <1>1, <1>4, <2>1, <2>2 DEF IInv, TypeInv, names
<1>9. CallInv' /\ SizeInv'
  BY <1>1, PoppedCalls DEF CallInv
<1>10. /\ last \in DrawsIn(stack)
       /\ DrawsIn(stack') = DrawsIn(stack) \ {last}
       /\ \A i \in DrawsIn(stack') : stack'[i] = stack[i] /\ i \in Nat /\ i <= last
  <2>1. DrawsIn(stack') = {i \in 1 .. last - 1 : stack'[i].kind = "draw"}
    BY <1>4 DEF DrawsIn
  <2>2. DrawsIn(stack) = {i \in 1 .. last : stack[i].kind = "draw"}
    BY <1>2, DrawIndices DEF IInv
  <2> QED BY <1>1, <1>3, <1>4, <2>1, <2>2
<1>11. DepthInv'
  <2>1. draw_depth' = Cardinality(DrawsIn(stack'))
    <3>1. Cardinality(DrawsIn(stack) \ {last}) = Cardinality(DrawsIn(stack)) - 1
      BY <1>10, DrawIndices, FS_RemoveElement DEF IInv
    <3> QED BY <1>1, <1>10, <3>1 DEF IInv, DepthInv
  <2>2. OutermostDraws'
    <3> SUFFICES ASSUME NEW i \in DrawsIn(stack')
                 PROVE  stack'[i].outermost <=> \A j \in DrawsIn(stack') : j >= i
      BY DEF OutermostDraws
    <3>1. i \in DrawsIn(stack) /\ stack'[i] = stack[i] /\ last >= i
      BY <1>3, <1>10
    <3>2. stack[i].outermost <=> \A j \in DrawsIn(stack) : j >= i
      BY <3>1 DEF IInv, DepthInv, OutermostDraws
    <3> QED BY <1>10, <3>1, <3>2
  <2> QED BY <2>1, <2>2 DEF DepthInv
<1>12. LinesInv' /\ PendingInv'
  <2>1. CASE ~Top.outermost
    <3>1. shown' = shown
      BY <1>7, <2>1
    <3> QED BY <1>1, <1>10, <3>1, LinesKept, PendingKept DEF IInv
  <2>2. CASE Top.outermost
    <3>1. /\ line.display \in taken_display_names
          /\ GaplessIn(draw_name_counts, taken_display_names, line)
          /\ \A k \in 1 .. Len(shown) : Precedes(shown[k], line)
      BY <1>3, <1>6, <1>10, <2>2 DEF IInv, PendingInv, Gapless, GaplessIn, Precedes
    <3>2. PICK n : n = Len(shown)
      OBVIOUS
    <3>3. /\ n \in Nat
          /\ Len(shown') = n + 1
          /\ \A i \in 1 .. n : shown'[i] = shown[i]
          /\ shown'[n + 1] = line
      BY <1>6, <1>7, <2>2, <3>2, AppendProperties DEF IInv, TypeInv
    <3>4. UNCHANGED <<draw_name_counts, taken_display_names>>
      BY <1>1 DEF names
    <3>5. ASSUME NEW i \in 1 .. Len(shown')
          PROVE  /\ shown'[i].display \in taken_display_names
                 /\ GaplessIn(draw_name_counts, taken_display_names, shown'[i])
      <4>1. CASE i = n + 1
        BY <3>1, <3>3, <4>1
      <4>2. CASE i # n + 1
        BY <3>2, <3>3, <4>2 DEF IInv, LinesInv, Gapless
      <4> QED BY <4>1, <4>2
    <3>6. ASSUME NEW i \in 1 .. Len(shown'), NEW j \in 1 .. Len(shown'), i < j
          PROVE  Precedes(shown'[i], shown'[j])
      <4>1. CASE j = n + 1
        BY <3>1, <3>2, <3>3, <3>6, <4>1
      <4>2. CASE j # n + 1
        BY <3>2, <3>3, <3>6, <4>2 DEF IInv, LinesInv
      <4> QED BY <4>1, <4>2
    <3>7. LinesInv'
      BY <3>4, <3>5, <3>6 DEF LinesInv, Gapless, Precedes
    <3>8. DrawsIn(stack') = {}
      <4>1. \A j \in DrawsIn(stack) : j >= last
        BY <1>3, <1>10, <2>2 DEF IInv, DepthInv, OutermostDraws
      <4>2. ASSUME NEW i \in DrawsIn(stack') PROVE FALSE
        <5>1. i \in DrawsIn(stack) /\ i # last /\ i \in Nat /\ i <= last
          BY <1>10
        <5> QED BY <1>3, <4>1, <5>1
      <4> QED BY <4>2
    <3> QED BY <3>7, <3>8 DEF PendingInv
  <2> QED BY <2>1, <2>2
<1> QED BY <1>8, <1>9, <1>11, <1>12 DEF IInv

-----------------------------------------------------------------------------
(* The other steps *)

\* The function that waits for a value calls another.
LEMMA WantsInv ==
  ASSUME IInv, WantsElement, NEW f \in AllFrames, Call(f),
         f.kind \notin {"draw", "repeat"},
         f.kind \in Kinds => Counted(f),
         UNCHANGED <<returned, draw_depth, names, shown, over>>
  PROVE  IInv'
<1>1. stack # <<>> /\ returned = NoValue /\ Wants(Top)
  BY DEF WantsElement, Wants
<1>2. Calls(Top, f)
  BY <1>1 DEF Calls
<1> QED BY <1>1, <1>2, PushInv

\* Nothing is on its way to a function that has not asked.
LEMMA Idle ==
  ASSUME IInv, stack # <<>>, ~Wants(Top)
  PROVE  returned = NoValue
  BY DEF IInv, CallInv

LEMMA BeginCollectionInv ==
  ASSUME IInv, NEW kind \in Kinds, NEW s \in Sizes, BeginCollection(kind, s[1], s[2])
  PROVE  IInv'
<1>1. PICK f : f = [kind |-> kind, stage |-> "more", min |-> s[1], max |-> s[2],
                    count |-> 0, held |-> <<>>, key |-> NoValue]
  OBVIOUS
<1>2. s[1] \in 0 .. MaxSize /\ s[2] \in (0 .. MaxSize) \cup {Unset} /\ MaxSize \in Nat
  BY DrawsAssumption DEF Sizes
<1>3. f \in CollectionFrames
  BY <1>1, <1>2 DEF CollectionFrames
<1>4. Counted(f)
  BY <1>1, <1>2 DEF Counted
<1>5. f.kind = kind /\ f \in AllFrames /\ f.kind \notin {"draw", "repeat"}
  BY <1>1, <1>3 DEF AllFrames, Kinds
<1>6. WantsElement /\ Call(f) /\ UNCHANGED <<returned, draw_depth, names, shown, over>>
  BY <1>1 DEF BeginCollection
<1> QED BY <1>4, <1>5, <1>6, WantsInv

LEMMA BeginOtherInv ==
  ASSUME IInv, (\E n \in 0 .. 2 : BeginParts(n)) \/ BeginCompose \/ BeginFilter \/ BeginBasic
  PROVE  IInv'
<1>1. ASSUME NEW n \in 0 .. 2, BeginParts(n) PROVE IInv'
  <2>1. PICK f : f = [kind |-> "parts", left |-> n]
    OBVIOUS
  <2>2. f \in AllFrames /\ f.kind = "parts"
    BY <2>1 DEF AllFrames, PartsFrames
  <2>3. WantsElement /\ Call(f) /\ UNCHANGED <<returned, draw_depth, names, shown, over>>
    BY <1>1, <2>1 DEF BeginParts
  <2> QED BY <2>2, <2>3, WantsInv DEF Kinds
<1>2. ASSUME BeginCompose PROVE IInv'
  <2>1. PICK f : f = [kind |-> "compose"]
    OBVIOUS
  <2>2. f \in AllFrames /\ f.kind = "compose"
    BY <2>1 DEF AllFrames, ComposeFrames
  <2>3. WantsElement /\ Call(f) /\ UNCHANGED <<returned, draw_depth, names, shown, over>>
    BY <1>2, <2>1 DEF BeginCompose
  <2> QED BY <2>2, <2>3, WantsInv DEF Kinds
<1>3. ASSUME BeginFilter PROVE IInv'
  <2>1. PICK f : f = [kind |-> "filter", tries |-> 0]
    OBVIOUS
  <2>2. f \in AllFrames /\ f.kind = "filter"
    BY <2>1 DEF AllFrames, FilterFrames
  <2>3. WantsElement /\ Call(f) /\ UNCHANGED <<returned, draw_depth, names, shown, over>>
    BY <1>3, <2>1 DEF BeginFilter
  <2> QED BY <2>2, <2>3, WantsInv DEF Kinds
<1>4. ASSUME BeginBasic PROVE IInv'
  <2>1. PICK g \in Generators : \E v \in Answers(g) :
          Call([kind |-> "basic", generator |-> g, value |-> v])
    BY <1>4 DEF BeginBasic
  <2>2. PICK v \in Answers(g) : Call([kind |-> "basic", generator |-> g, value |-> v])
    BY <2>1
  <2>3. PICK f : f = [kind |-> "basic", generator |-> g, value |-> v]
    OBVIOUS
  <2>4. v \in UNION {Answers(h) : h \in Generators}
    OBVIOUS
  <2>5. f \in AllFrames /\ f.kind = "basic"
    BY <2>3, <2>4 DEF AllFrames, BasicFrames
  <2>6. WantsElement /\ Call(f) /\ UNCHANGED <<returned, draw_depth, names, shown, over>>
    BY <1>4, <2>2, <2>3 DEF BeginBasic
  <2> QED BY <2>5, <2>6, WantsInv DEF Kinds
<1> QED BY <1>1, <1>2, <1>3, <1>4

LEMMA DrawValueInv ==
  ASSUME IInv, NEW v \in Values, DrawValue(v)
  PROVE  IInv'
<1>1. /\ stack # <<>> /\ Wants(Top) /\ returned' = v
      /\ UNCHANGED <<stack, draw_depth, names, shown, over>>
  BY DEF DrawValue, WantsElement, Wants
<1>2. TypeInv' /\ SizeInv' /\ DepthInv' /\ LinesInv' /\ PendingInv'
  BY <1>1 DEF IInv, TypeInv, SizeInv, DepthInv, OutermostDraws, LinesInv, PendingInv,
              Gapless, GaplessIn, Precedes, names, Counted
<1>3. CallInv'
  BY <1>1 DEF IInv, CallInv, Calls, Wants, UserCode, Top
<1> QED BY <1>2, <1>3 DEF IInv

\* The frame of a collection, and what is known of it.
LEMMA CollectionTop ==
  ASSUME IInv, stack # <<>>, Top.kind \in Kinds
  PROVE  Top \in CollectionFrames /\ Counted(Top)
<1>1. Top \in AllFrames /\ Len(stack) \in 1 .. Len(stack)
  BY StackTyped DEF IInv
<1>2. Counted(Top)
  BY <1>1 DEF IInv, SizeInv, Top
<1> QED BY <1>1, <1>2, FrameKinds

\* The engine asks for an element or ends the collection.
LEMMA CollectionMoreInv == ASSUME IInv, CollectionMore PROVE IInv'
<1>1. /\ stack # <<>> /\ Top.kind \in Kinds /\ Top.stage = "more"
      /\ UNCHANGED <<returned, draw_depth, names, shown, over>>
  BY DEF CollectionMore, More, NoMore
<1>2. Top \in CollectionFrames /\ Counted(Top)
  BY <1>1, CollectionTop
<1>3. returned' = NoValue /\ over' \in BOOLEAN
  <2>1. ~Wants(Top)
    BY <1>1 DEF Wants, Kinds
  <2>2. over' = over /\ returned' = returned
    BY <1>1
  <2> QED BY <1>1, <2>1, <2>2, Idle DEF IInv, TypeInv
<1>4. \A f : f \in CollectionFrames => f \in AllFrames
  BY DEF AllFrames
<1>5. MaxSize \in Nat
  BY DrawsAssumption
<1>6. PICK t : t = Top
  OBVIOUS
<1>7. CASE More
  <2>1. PICK f : f = [t EXCEPT !.stage = "element", !.count = @ + 1]
    OBVIOUS
  <2>2. t.count < Given(t.max, MaxSize)
    BY <1>6, <1>7 DEF More
  <2>3. t.count \in 0 .. MaxSize /\ t.max \in (0 .. MaxSize) \cup {Unset}
    BY <1>2, <1>6 DEF CollectionFrames
  <2>4. PICK c : c = t.count + 1
    OBVIOUS
  <2>5. c \in 0 .. MaxSize
    BY <1>5, <2>2, <2>3, <2>4 DEF Given
  <2>6. f = [t EXCEPT !.stage = "element", !.count = c]
    BY <2>1, <2>4
  <2>7. f \in CollectionFrames /\ f.kind = t.kind
    BY <1>2, <1>6, <2>5, <2>6 DEF CollectionFrames
  <2>8. /\ f.stage = "element" /\ f.count = t.count + 1 /\ f.held = t.held
        /\ f.max = t.max
    BY <1>2, <1>6, <2>1 DEF CollectionFrames
  <2>9. t.count \in Nat /\ Len(t.held) \in Nat /\ t.max \in Nat \cup {Unset}
    BY <1>2, <1>5, <1>6 DEF CollectionFrames
  <2>10. t.stage = "more" /\ Counted(t) /\ f.kind = t.kind
    BY <1>1, <1>2, <1>6, <2>7
  <2>11. Counted(f)
    BY <2>2, <2>8, <2>9, <2>10 DEF Counted, Given
  <2>12. Replace(f)
    BY <1>6, <1>7, <2>1 DEF More
  <2> QED BY <1>1, <1>3, <1>4, <1>6, <2>7, <2>11, <2>12, ReplaceInv DEF Kinds
<1>8. CASE NoMore
  <2>1. PICK f : f = [t EXCEPT !.stage = "done"]
    OBVIOUS
  <2>2. t.count >= t.min
    BY <1>6, <1>8 DEF NoMore
  <2>3. f \in CollectionFrames /\ f.kind = t.kind
    BY <1>2, <1>6, <2>1 DEF CollectionFrames
  <2>4. /\ f.stage = "done" /\ f.count = t.count /\ f.held = t.held
        /\ f.max = t.max /\ f.min = t.min
    BY <1>2, <1>6, <2>1 DEF CollectionFrames
  <2>5. t.stage = "more" /\ Counted(t) /\ f.kind = t.kind
    BY <1>1, <1>2, <1>6, <2>3
  <2>6. Counted(f)
    BY <2>2, <2>4, <2>5 DEF Counted
  <2>7. Replace(f)
    BY <1>6, <1>8, <2>1 DEF NoMore
  <2> QED BY <1>1, <1>3, <1>4, <1>6, <2>3, <2>6, <2>7, ReplaceInv DEF Kinds
<1> QED BY <1>7, <1>8 DEF CollectionMore

\* An element is kept, handed back, or waits for the value of its key.
LEMMA ElementCounted ==
  ASSUME NEW t \in CollectionFrames, Counted(t), NEW v \in Values,
         t.stage \in {"element", "value"}
  PROVE  LET kept   == [t EXCEPT !.held = Append(@, v), !.stage = "more", !.key = NoValue]
             back   == [t EXCEPT !.count = @ - 1, !.stage = "more"]
             keyed  == [t EXCEPT !.key = v, !.stage = "value"]
             news   == \A i \in DOMAIN t.held : t.held[i] # v
         IN  /\ t.kind = "vector" \/ news =>
                  kept \in CollectionFrames /\ kept.kind = t.kind /\ Counted(kept)
             /\ back \in CollectionFrames /\ back.kind = t.kind /\ Counted(back)
             /\ t.kind = "map" /\ news =>
                  keyed \in CollectionFrames /\ keyed.kind = t.kind /\ Counted(keyed)
<1>1. MaxSize \in Nat
  BY DrawsAssumption
<1>2. /\ t.held \in Seq(Values) /\ Len(t.held) \in Nat
      /\ DOMAIN t.held = 1 .. Len(t.held)
      /\ t.count = Len(t.held) + 1 /\ t.count \in 1 .. MaxSize
  BY <1>1 DEF CollectionFrames, Counted
<1>3. PICK held : held = Append(t.held, v)
  OBVIOUS
<1>4. /\ held \in Seq(Values) /\ Len(held) = t.count
      /\ \A i \in 1 .. Len(t.held) : held[i] = t.held[i]
      /\ held[Len(t.held) + 1] = v
  BY <1>2, <1>3, AppendProperties
<1>5. ASSUME t.kind = "vector" \/ \A i \in DOMAIN t.held : t.held[i] # v
      PROVE  LET kept == [t EXCEPT !.held = Append(@, v), !.stage = "more", !.key = NoValue]
             IN  kept \in CollectionFrames /\ kept.kind = t.kind /\ Counted(kept)
  <2>1. PICK f : f = [t EXCEPT !.held = Append(@, v), !.stage = "more", !.key = NoValue]
    OBVIOUS
  <2>2. /\ f \in CollectionFrames /\ f.kind = t.kind
        /\ f.held = held /\ f.count = t.count /\ f.max = t.max /\ f.stage = "more"
    BY <1>3, <1>4, <2>1 DEF CollectionFrames
  <2>3. ASSUME f.kind # "vector", NEW i \in 1 .. Len(held), NEW j \in 1 .. Len(held),
               held[i] = held[j]
        PROVE  i = j
    <3>4. \A k \in 1 .. Len(t.held) : t.held[k] # v
      BY <1>2, <1>5, <2>2, <2>3, Zenon
    <3>1. \A k \in 1 .. Len(t.held) : held[k] # v
      BY <1>4, <3>4
    <3>2. \A k \in 1 .. Len(held) : k = Len(t.held) + 1 \/ k \in 1 .. Len(t.held)
      BY <1>2, <1>4
    <3>3. \A k, l \in 1 .. Len(t.held) : t.held[k] = t.held[l] => k = l
      BY <2>2, <2>3 DEF Counted
    <3> QED BY <1>4, <2>3, <3>1, <3>2, <3>3
  <2>4. Counted(f)
    BY <1>2, <1>4, <2>2, <2>3 DEF Counted
  <2> QED BY <2>1, <2>2, <2>4
<1>6. LET back == [t EXCEPT !.count = @ - 1, !.stage = "more"]
      IN  back \in CollectionFrames /\ back.kind = t.kind /\ Counted(back)
  <2>1. PICK f : f = [t EXCEPT !.count = @ - 1, !.stage = "more"]
    OBVIOUS
  <2>2. PICK c : c = t.count - 1
    OBVIOUS
  <2>3. c \in 0 .. MaxSize
    BY <1>1, <1>2, <2>2
  <2>4. f = [t EXCEPT !.count = c, !.stage = "more"]
    BY <2>1, <2>2
  <2>5. /\ f \in CollectionFrames /\ f.kind = t.kind
        /\ f.held = t.held /\ f.count = t.count - 1 /\ f.max = t.max /\ f.stage = "more"
    BY <2>2, <2>3, <2>4 DEF CollectionFrames
  <2>6. t.max \in Nat \cup {Unset}
    BY <1>1 DEF CollectionFrames
  <2>7. Counted(f)
    BY <1>2, <2>5, <2>6 DEF Counted
  <2> QED BY <2>1, <2>5, <2>7
<1>7. ASSUME t.kind = "map", \A i \in DOMAIN t.held : t.held[i] # v
      PROVE  LET keyed == [t EXCEPT !.key = v, !.stage = "value"]
             IN  keyed \in CollectionFrames /\ keyed.kind = t.kind /\ Counted(keyed)
  <2>1. PICK f : f = [t EXCEPT !.key = v, !.stage = "value"]
    OBVIOUS
  <2>2. /\ f \in CollectionFrames /\ f.kind = t.kind /\ f.key = v
        /\ f.held = t.held /\ f.count = t.count /\ f.max = t.max /\ f.stage = "value"
    BY <2>1 DEF CollectionFrames
  <2>3. Counted(f)
    BY <1>2, <1>7, <2>2 DEF Counted
  <2> QED BY <2>1, <2>2, <2>3
<1> QED BY <1>5, <1>6, <1>7

LEMMA CollectionElementInv == ASSUME IInv, CollectionElement PROVE IInv'
<1>1. /\ stack # <<>> /\ Top.kind \in Kinds /\ returned # NoValue
      /\ Replace(Element(returned)) /\ returned' = NoValue
      /\ UNCHANGED <<draw_depth, names, shown, over>>
  BY DEF CollectionElement
<1>2. Top \in CollectionFrames /\ Counted(Top)
  BY <1>1, CollectionTop
<1>3. Top.stage \in {"element", "value"}
  BY <1>1 DEF IInv, CallInv, Wants, Kinds
<1>4. returned \in Values
  BY <1>1 DEF IInv, TypeInv
<1>5. PICK f : f = Element(returned)
  OBVIOUS
<1>6. f \in CollectionFrames /\ f.kind = Top.kind /\ Counted(f)
  <2>1. CASE Top.kind = "vector"
    BY <1>2, <1>3, <1>4, <1>5, <2>1, ElementCounted DEF Element, Keep
  <2>2. CASE Top.kind \in {"unique vector", "set"}
    BY <1>2, <1>3, <1>4, <1>5, <2>2, ElementCounted DEF Element, Keep, HandBack, Holds
  <2>3. CASE Top.kind = "map" /\ Top.stage = "value"
    <3>1. Top.key \in Values /\ \A i \in DOMAIN Top.held : Top.held[i] # Top.key
      BY <1>2, <2>3 DEF Counted, CollectionFrames
    <3>2. f = Keep(Top.key)
      BY <1>5, <2>3 DEF Element
    <3> QED BY <1>2, <1>3, <3>1, <3>2, ElementCounted DEF Keep
  <2>4. CASE Top.kind = "map" /\ Top.stage # "value"
    BY <1>2, <1>3, <1>4, <1>5, <2>4, ElementCounted DEF Element, HandBack, Holds
  <2> QED BY <1>1, <2>1, <2>2, <2>3, <2>4 DEF Kinds
<1>7. f \in AllFrames /\ f.kind # "draw"
  BY <1>1, <1>6 DEF AllFrames, Kinds
<1>8. over' \in BOOLEAN /\ Replace(f)
  BY <1>1, <1>5 DEF IInv, TypeInv
<1> QED BY <1>1, <1>6, <1>7, <1>8, ReplaceInv

\* The loops of the combinators and of repeat().
LEMMA GoesOnInv ==
  ASSUME IInv, NextPart \/ FilterRetries \/ Repeat \/ EndIteration
  PROVE  IInv'
<1>1. MaxSize \in Nat /\ PartsFrames \cup FilterFrames \cup RepeatFrames \subseteq AllFrames
  BY DrawsAssumption DEF AllFrames
<1>2. stack # <<>> => Top \in AllFrames
  BY StackTyped DEF IInv
<1>3. PICK t : t = Top
  OBVIOUS
<1>4. over \in BOOLEAN
  BY DEF IInv, TypeInv
<1>5. CASE NextPart
  <2>1. /\ stack # <<>> /\ t.kind = "parts" /\ returned # NoValue
        /\ returned' = NoValue /\ UNCHANGED <<draw_depth, names, shown, over>>
    BY <1>3, <1>5 DEF NextPart
  <2>2. t \in PartsFrames
    BY <1>2, <1>3, <2>1, FrameKinds
  <2>3. t.left > 0
    BY <1>3, <2>1 DEF IInv, CallInv, Wants, Kinds
  <2>4. PICK left : left = t.left - 1
    OBVIOUS
  <2>5. left \in 0 .. 2
    BY <2>2, <2>3, <2>4 DEF PartsFrames
  <2>6. PICK f : f = [t EXCEPT !.left = left]
    OBVIOUS
  <2>7. f \in PartsFrames /\ f.kind = "parts"
    BY <2>1, <2>2, <2>5, <2>6 DEF PartsFrames
  <2>8. Replace(f)
    BY <1>3, <1>5, <2>4, <2>6 DEF NextPart
  <2> QED BY <1>1, <1>3, <1>4, <2>1, <2>7, <2>8, ReplaceInv DEF Kinds
<1>6. CASE FilterRetries
  <2>1. stack # <<>> /\ t.kind = "filter"
    BY <1>3, <1>6 DEF FilterRetries
  <2>2. t \in FilterFrames
    BY <1>2, <1>3, <2>1, FrameKinds
  <2>3. CASE Again(t.tries)
    <3>1. PICK tries : tries = t.tries + 1
      OBVIOUS
    <3>2. tries \in 0 .. 2
      BY <2>2, <2>3, <3>1 DEF FilterFrames, Again
    <3>3. PICK f : f = [t EXCEPT !.tries = tries]
      OBVIOUS
    <3>4. f \in FilterFrames /\ f.kind = "filter"
      BY <2>1, <2>2, <3>2, <3>3 DEF FilterFrames
    <3>5. Replace(f) /\ returned' = NoValue /\ UNCHANGED <<draw_depth, names, shown, over>>
      BY <1>3, <1>6, <2>3, <3>1, <3>3 DEF FilterRetries
    <3> QED BY <1>1, <1>3, <1>4, <2>1, <3>4, <3>5, ReplaceInv DEF Kinds
  <2>4. CASE ~Again(t.tries)
    <3>1. Unwind(Handlers) /\ over' \in BOOLEAN
      BY <1>3, <1>6, <2>4 DEF FilterRetries, Reject
    <3> QED BY <3>1, UnwindInv
  <2> QED BY <2>3, <2>4
<1>7. CASE Repeat
  <2>1. /\ stack # <<>> /\ t.kind = "repeat" /\ t.stage = "more" /\ t.count < MaxSize
        /\ UNCHANGED <<returned, draw_depth, names, shown, over>>
    BY <1>3, <1>7 DEF Repeat
  <2>2. t \in RepeatFrames
    BY <1>2, <1>3, <2>1, FrameKinds
  <2>3. PICK count : count = t.count + 1
    OBVIOUS
  <2>4. count \in 0 .. MaxSize
    BY <1>1, <2>1, <2>2, <2>3 DEF RepeatFrames
  <2>5. PICK f : f = [t EXCEPT !.stage = "body", !.count = count]
    OBVIOUS
  <2>6. f \in RepeatFrames /\ f.kind = "repeat"
    BY <2>1, <2>2, <2>4, <2>5 DEF RepeatFrames
  <2>7. Replace(f)
    BY <1>3, <1>7, <2>3, <2>5 DEF Repeat
  <2>8. returned' = NoValue
    BY <1>3, <2>1, Idle DEF Wants, Kinds
  <2> QED BY <1>1, <1>3, <1>4, <2>1, <2>6, <2>7, <2>8, ReplaceInv DEF Kinds
<1>8. CASE EndIteration
  <2>1. /\ stack # <<>> /\ t.kind = "repeat"
        /\ UNCHANGED <<returned, draw_depth, names, shown, over>>
    BY <1>3, <1>8 DEF EndIteration
  <2>2. t \in RepeatFrames
    BY <1>2, <1>3, <2>1, FrameKinds
  <2>3. PICK f : f = [t EXCEPT !.stage = "more"]
    OBVIOUS
  <2>4. f \in RepeatFrames /\ f.kind = "repeat"
    BY <2>1, <2>2, <2>3 DEF RepeatFrames
  <2>5. Replace(f)
    BY <1>3, <1>8, <2>3 DEF EndIteration
  <2>6. returned' = NoValue
    BY <1>3, <2>1, Idle DEF Wants, Kinds
  <2> QED BY <1>1, <1>3, <1>4, <2>1, <2>4, <2>5, <2>6, ReplaceInv DEF Kinds
<1> QED BY <1>5, <1>6, <1>7, <1>8

LEMMA BeginRepeatInv ==
  ASSUME IInv, NEW min \in 0 .. MaxSize, BeginRepeat(min)
  PROVE  IInv'
<1>1. PICK f : f = [kind |-> "repeat", stage |-> "more", min |-> min, count |-> 0]
  OBVIOUS
<1>2. /\ InUserCode /\ Call(f)
      /\ UNCHANGED <<returned, draw_depth, names, shown, over>>
  BY <1>1 DEF BeginRepeat
<1>3. f \in AllFrames /\ f.kind = "repeat"
  BY <1>1, DrawsAssumption DEF AllFrames, RepeatFrames
<1>4. stack # <<>> => Calls(Top, f)
  BY <1>2, <1>3 DEF InUserCode, Calls, UserCode
<1>5. returned = NoValue
  BY <1>2, UserCodeIdle
<1> QED BY <1>2, <1>3, <1>4, <1>5, PushInv DEF Kinds

\* A function returns, with a value or, repeat(), without.
LEMMA ReturnInv ==
  ASSUME IInv,
         \/ \E v \in Values : EndCollection(v) \/ EndParts(v) \/ EndCompose(v) \/ EndBasic(v)
         \/ FilterKeeps \/ EndRepeat
  PROVE  IInv'
<1>1. ASSUME NEW v \in Values, EndCollection(v) \/ EndParts(v) \/ EndCompose(v) PROVE IInv'
  <2>1. /\ stack # <<>> /\ Top.kind \in Kinds \cup {"parts", "compose"}
        /\ Give(v) /\ UNCHANGED <<draw_depth, names, shown, over>>
    BY <1>1 DEF EndCollection, EndParts, EndCompose
  <2> QED BY <2>1, GiveInv DEF Kinds
<1>2. ASSUME NEW v \in Values, EndBasic(v) PROVE IInv'
  <2>1. stack # <<>> /\ Top.kind = "basic"
    BY <1>2 DEF EndBasic
  <2>2. CASE Top.value = Refused
    <3>1. Unwind({}) /\ over' \in BOOLEAN
      BY <1>2, <2>2 DEF EndBasic, Fail
    <3> QED BY <3>1, UnwindInv
  <2>3. CASE Top.value # Refused
    <3>1. Give(v) /\ UNCHANGED <<draw_depth, names, shown, over>>
      BY <1>2, <2>3 DEF EndBasic
    <3> QED BY <2>1, <3>1, GiveInv
  <2> QED BY <2>2, <2>3
<1>3. ASSUME FilterKeeps PROVE IInv'
  <2>1. /\ stack # <<>> /\ Top.kind = "filter"
        /\ Give(returned) /\ UNCHANGED <<draw_depth, names, shown, over>>
    BY <1>3 DEF FilterKeeps
  <2>2. returned \in Values \cup {NoValue}
    BY DEF IInv, TypeInv
  <2> QED BY <2>1, <2>2, GiveInv
<1>4. ASSUME EndRepeat PROVE IInv'
  <2>1. /\ stack # <<>> /\ Top.kind = "repeat"
        /\ Give(NoValue) /\ UNCHANGED <<draw_depth, names, shown, over>>
    BY <1>4 DEF EndRepeat
  <2> QED BY <2>1, GiveInv
<1> QED BY <1>1, <1>2, <1>3, <1>4

LEMMA ThrowInv ==
  ASSUME IInv, UserRejects \/ UserFails \/ EngineStops \/ EngineRejects
  PROVE  IInv'
<1>1. (Unwind(Handlers) \/ Unwind({})) /\ over' \in BOOLEAN
  BY DEF UserRejects, UserFails, EngineStops, EngineRejects, Reject, Fail
<1> QED BY <1>1, UnwindInv

\* The body ends, or nothing happens.
LEMMA StandstillInv ==
  ASSUME IInv, UNCHANGED <<stack, returned, draw_depth, names, shown>>, over' \in BOOLEAN
  PROVE  IInv'
<1>1. TypeInv' /\ SizeInv' /\ DepthInv'
  BY DEF IInv, TypeInv, SizeInv, DepthInv, OutermostDraws, names, Counted
<1>2. CallInv'
  BY DEF IInv, CallInv, Calls, Wants, UserCode, Top
<1>3. LinesInv' /\ PendingInv'
  BY LinesKept, PendingKept DEF IInv
<1> QED BY <1>1, <1>2, <1>3 DEF IInv

LEMMA InitInv == Init => IInv
<1> SUFFICES ASSUME Init PROVE IInv
  OBVIOUS
<1>1. stack = <<>> /\ Len(stack) = 0 /\ stack \in Seq(AllFrames)
  BY DEF Init
<1>2. shown = <<>> /\ Len(shown) = 0 /\ shown \in Seq(Line)
  BY DEF Init
<1>3. TypeInv
  <2>1. IsFiniteSet({}) /\ MaxDepth \in Nat
    BY FS_EmptySet, DrawsAssumption
  <2>2. /\ taken_display_names \subseteq Displays
        /\ IsFiniteSet(taken_display_names)
        /\ \A display \in taken_display_names : IsDisplayName(display)
    BY <2>1 DEF Init
  <2>3. draw_name_counts \in [Bases -> Nat]
    BY DEF Init
  <2>4. returned \in Values \cup {NoValue} /\ over \in BOOLEAN
    BY DEF Init
  <2> QED BY <1>1, <1>2, <2>1, <2>2, <2>3, <2>4 DEF TypeInv
<1>4. DrawsIn(stack) = {}
  BY <1>1 DEF DrawsIn
<1>5. DepthInv
  BY <1>4, FS_EmptySet DEF Init, DepthInv, OutermostDraws
<1>6. CallInv /\ SizeInv
  BY <1>1 DEF Init, CallInv, SizeInv
<1>7. LinesInv /\ PendingInv
  BY <1>2, <1>4 DEF LinesInv, PendingInv
<1> QED BY <1>3, <1>5, <1>6, <1>7 DEF IInv

-----------------------------------------------------------------------------
(* Theorems *)

\* The invariant behind the others, whatever is drawn and whatever is thrown.
THEOREM DrawsInductive == Spec => []IInv
<1>1. ASSUME IInv, [Next]_vars PROVE IInv'
  <2>1. ASSUME NEW name \in Names, NEW repeatable \in BOOLEAN, BeginDraw(name, repeatable)
        PROVE  IInv'
    BY <1>1, <2>1, OutermostInv, InnerInv
  <2>2. CASE EndDraw
    BY <1>1, <2>2, EndDrawInv
  <2>3. ASSUME NEW kind \in Kinds, NEW s \in Sizes, BeginCollection(kind, s[1], s[2])
        PROVE  IInv'
    BY <1>1, <2>3, BeginCollectionInv
  <2>4. CASE CollectionMore \/ CollectionElement
    BY <1>1, <2>4, CollectionMoreInv, CollectionElementInv
  <2>5. ASSUME NEW v \in Values, DrawValue(v) PROVE IInv'
    BY <1>1, <2>5, DrawValueInv
  <2>6. CASE \E n \in 0 .. 2 : BeginParts(n)
    BY <1>1, <2>6, BeginOtherInv
  <2>7. CASE BeginCompose \/ BeginFilter \/ BeginBasic
    BY <1>1, <2>7, BeginOtherInv
  <2>8. CASE NextPart \/ FilterRetries \/ Repeat \/ EndIteration
    BY <1>1, <2>8, GoesOnInv
  <2>9. ASSUME NEW min \in 0 .. MaxSize, BeginRepeat(min) PROVE IInv'
    BY <1>1, <2>9, BeginRepeatInv
  <2>10. ASSUME NEW v \in Values,
                EndCollection(v) \/ EndParts(v) \/ EndCompose(v) \/ EndBasic(v)
         PROVE  IInv'
    BY <1>1, <2>10, ReturnInv
  <2>11. CASE FilterKeeps \/ EndRepeat
    BY <1>1, <2>11, ReturnInv
  <2>12. CASE UserRejects \/ UserFails \/ EngineStops \/ EngineRejects
    BY <1>1, <2>12, ThrowInv
  <2>13. CASE EndBody
    BY <1>1, <2>13, StandstillInv DEF EndBody, names
  <2>14. CASE UNCHANGED vars
    BY <1>1, <2>14, StandstillInv DEF vars, names, IInv, TypeInv
  <2>15. CASE Done
    BY <2>14, <2>15 DEF Done
  <2> QED BY <1>1, <2>1, <2>2, <2>3, <2>4, <2>5, <2>6, <2>7, <2>8, <2>9, <2>10, <2>11,
             <2>12, <2>13, <2>14, <2>15 DEF Next
<1> QED BY InitInv, <1>1, PTL DEF Spec

\* Every call on the stack is in a state its function can be in, a basic draw calls
\* nobody, and a printed name is a base or a base with a number.
THEOREM DrawsTyped == Spec => []TypeOK
<1>1. ASSUME IInv PROVE TypeOK
  <2>1. ASSUME NEW i \in 1 .. Len(stack)
        PROVE  \/ stack[i] \in DrawFrames(taken_display_names \cup {<<>>})
               \/ stack[i] \in CollectionFrames \cup PartsFrames \cup ComposeFrames
                                \cup FilterFrames \cup RepeatFrames
               \/ /\ stack[i].kind = "basic"
                  /\ stack[i].generator \in Generators
                  /\ i = Len(stack)
    <3>1. stack[i] \in AllFrames /\ Len(stack) \in Nat
      BY <1>1, StackTyped DEF IInv
    <3>2. CASE stack[i].kind = "draw"
      <4>1. i \in DrawsIn(stack) /\ stack[i] \in DrawFrames(Displays)
        BY <1>1, <3>1, <3>2, DrawIndices, FrameKinds DEF IInv
      <4>2. stack[i].display \in taken_display_names \cup {<<>>}
        BY <1>1, <4>1 DEF IInv, PendingInv
      <4>3. stack[i] \in DrawFrames(taken_display_names \cup {<<>>})
        BY <4>1, <4>2 DEF DrawFrames
      <4> QED BY <4>3
    <3>3. CASE stack[i].kind = "basic"
      <4>1. stack[i] \in BasicFrames
        BY <3>1, <3>3, FrameKinds
      <4>2. ASSUME i # Len(stack) PROVE FALSE
        <5>1. i + 1 \in 2 .. Len(stack) /\ i + 1 - 1 = i
          BY <3>1, <4>2
        <5>2. Calls(stack[i], stack[i + 1])
          BY <1>1, <5>1 DEF IInv, CallInv
        <5> QED BY <3>3, <5>2 DEF Calls, UserCode, Wants, Kinds
      <4>3. stack[i].generator \in Generators
        BY <4>1 DEF BasicFrames
      <4> QED BY <3>3, <4>2, <4>3
    <3>4. CASE stack[i].kind \notin {"draw", "basic"}
      BY <3>1, <3>4, FrameKinds DEF Kinded
    <3> QED BY <3>2, <3>3, <3>4
  <2>2. DOMAIN stack = 1 .. Len(stack)
    BY <1>1, StackTyped DEF IInv
  <2>3. draw_depth \in 0 .. MaxDepth
    <3>1. /\ draw_depth \in Nat /\ draw_depth <= Len(stack)
          /\ Len(stack) \in Nat /\ Len(stack) <= MaxDepth /\ MaxDepth \in Nat
      BY <1>1, DrawIndices, StackTyped, DrawsAssumption DEF IInv, DepthInv, TypeInv
    <3> QED BY <3>1
  <2>4. ASSUME NEW i \in DOMAIN shown
        PROVE  shown[i].display \in taken_display_names /\ shown[i].suffixed \in BOOLEAN
    <3>1. i \in 1 .. Len(shown) /\ shown[i] \in Line
      BY <1>1 DEF IInv, TypeInv
    <3> QED BY <1>1, <3>1 DEF IInv, LinesInv, Line
  <2> QED BY <1>1, <2>1, <2>2, <2>3, <2>4 DEF IInv, TypeInv, TypeOK
<1> QED BY DrawsInductive, <1>1, PTL

\* A complete collection has as many elements as it was asked for, and no element
\* twice where they must differ.
THEOREM SizesKept == Spec => []SizesHold
<1>1. ASSUME IInv PROVE SizesHold
  <2> SUFFICES ASSUME NEW i \in 1 .. Len(stack), stack[i].kind \in Kinds,
                      stack[i].stage = "done"
               PROVE  /\ Len(stack[i].held) >= stack[i].min
                      /\ stack[i].max # Unset => Len(stack[i].held) <= stack[i].max
                      /\ stack[i].kind # "vector" =>
                           \A j, k \in DOMAIN stack[i].held :
                             stack[i].held[j] = stack[i].held[k] => j = k
    BY <1>1, StackTyped DEF IInv, SizesHold
  <2>1. Counted(stack[i]) /\ stack[i] \in CollectionFrames
    BY <1>1, StackTyped, FrameKinds DEF IInv, SizeInv
  <2>2. DOMAIN stack[i].held = 1 .. Len(stack[i].held)
    BY <2>1 DEF CollectionFrames
  <2> QED BY <2>1, <2>2 DEF Counted
<1> QED BY DrawsInductive, <1>1, PTL

\* The report has one line for every draw of the body's own, and each numbered name
\* stands for one value.
THEOREM DrawsReported == Spec => []DrawsShown
<1>1. ASSUME IInv PROVE DrawsShown
  <2>1. OutermostDraws
    BY <1>1 DEF IInv, DepthInv
  <2>2. DOMAIN shown = 1 .. Len(shown)
    BY <1>1 DEF IInv, TypeInv
  <2>3. NamesFresh
    BY <1>1, <2>2 DEF IInv, LinesInv, Precedes, NamesFresh
  <2> QED BY <2>1, <2>3 DEF DrawsShown
<1> QED BY DrawsInductive, <1>1, PTL

-----------------------------------------------------------------------------
(* Digits *)

\* Each digit counts for Base times the one before it.
LEMMA Weights ==
  /\ Weight[0] = 1
  /\ \A i \in 0 .. Bytes : Weight[i + 1] = Base * Weight[i]
  /\ \A i \in 0 .. Bytes + 1 : Weight[i] \in Nat \ {0}
<1>1. Base \in Nat /\ Base >= 2 /\ Bytes \in Nat \ {0}
  BY BasicDrawsAssumption
<1> DEFINE step == [p \in (0 .. Bytes) \X Nat |-> Base * p[2]]
<1>2. step \in [(0 .. Bytes) \X Nat -> Nat]
  BY <1>1
<1>3. \E g \in [0 .. Bytes + 1 -> Nat] : IsIteration(1, step, Bytes + 1, g)
  <2> HIDE DEF step
  <2> QED BY <1>1, <1>2, IterationExists
<1>4. PICK g \in [0 .. Bytes + 1 -> Nat] : IsIteration(1, step, Bytes + 1, g)
  BY <1>3
<1>5. \A i \in 0 .. Bytes + 1 : i # 0 => step[<<i - 1, g[i - 1]>>] = Base * g[i - 1]
  <2> SUFFICES ASSUME NEW i \in 0 .. Bytes + 1, i # 0
               PROVE  step[<<i - 1, g[i - 1]>>] = Base * g[i - 1]
    OBVIOUS
  <2>1. i - 1 \in 0 .. Bytes /\ i - 1 \in 0 .. Bytes + 1
    BY <1>1
  <2>2. <<i - 1, g[i - 1]>> \in (0 .. Bytes) \X Nat
    BY <1>4, <2>1
  <2> QED BY <2>2
<1>6. g = [i \in 0 .. Bytes + 1 |-> IF i = 0 THEN 1 ELSE Base * g[i - 1]]
  BY <1>4, <1>5 DEF IsIteration
<1>7. Weight = [i \in 0 .. Bytes + 1 |-> IF i = 0 THEN 1 ELSE Base * Weight[i - 1]]
  BY <1>6 DEF Weight
<1>8. Weight[0] = 1
  <2>1. 0 \in 0 .. Bytes + 1
    BY <1>1
  <2> QED BY <1>7, <2>1
<1>9. ASSUME NEW i \in 0 .. Bytes PROVE Weight[i + 1] = Base * Weight[i]
  <2>1. i + 1 \in 0 .. Bytes + 1 /\ i + 1 # 0 /\ (i + 1) - 1 = i
    BY <1>1
  <2> QED BY <1>7, <2>1
<1>10. \A i \in 0 .. Bytes + 1 : Weight[i] \in Nat \ {0}
  <2> DEFINE P == {n \in Nat : n <= Bytes + 1 => Weight[n] \in Nat \ {0}}
  <2>1. 0 \in P
    BY <1>8
  <2>2. ASSUME NEW n \in P PROVE n + 1 \in P
    <3> SUFFICES ASSUME n + 1 <= Bytes + 1 PROVE Weight[n + 1] \in Nat \ {0}
      OBVIOUS
    <3>1. n \in 0 .. Bytes /\ Weight[n] \in Nat \ {0}
      BY <1>1
    <3>2. PICK w : w = Weight[n]
      OBVIOUS
    <3>3. Base * w \in Nat \ {0}
      BY <1>1, <3>1, <3>2
    <3> QED BY <1>9, <3>1, <3>2, <3>3
  <2>3. P = Nat
    <3>1. P \in SUBSET Nat
      OBVIOUS
    <3> HIDE DEF P
    <3> QED BY <2>1, <2>2, <3>1, SetInduction
  <2> QED BY <1>1, <2>3
<1> QED BY <1>8, <1>9, <1>10

\* A digit more of v gives a remainder of v by the next weight.
LEMMA NextDigit ==
  ASSUME NEW v \in Nat, NEW p \in Nat \ {0}, NEW b \in Nat \ {0}
  PROVE  v % (b * p) = (v % p) + ((v \div p) % b) * p
<1> DEFINE q == v \div p
           r == q \div b
<1>1. q \in Nat /\ v % p = v - p * q
  OBVIOUS
<1>2. r \in Nat /\ q % b = q - b * r
  BY <1>1
<1>3. b * p \in Nat \ {0} /\ b * p = p * b
  OBVIOUS
<1>4. v \div (p * b) = r
  OBVIOUS
<1> HIDE DEF q, r
<1>5. v % (b * p) = v - (p * b) * r
  <2>1. PICK m : m = p * b
    OBVIOUS
  <2>2. m \in Nat \ {0}
    BY <1>3, <2>1
  <2>3. \A x \in Nat, y \in Nat \ {0} : x % y = x - y * (x \div y)
    OBVIOUS
  <2>4. v % m = v - m * (v \div m)
    BY <2>2, <2>3
  <2> QED BY <1>3, <1>4, <2>1, <2>4
<1>6. (q - b * r) * p = p * q - (p * b) * r
  <2>1. PICK x : x = b * r
    OBVIOUS
  <2>2. x \in Nat /\ (q - x) * p = p * q - p * x
    BY <1>1, <1>2, <2>1
  <2>3. p * (b * r) = (p * b) * r
    BY <1>2
  <2> QED BY <2>1, <2>2, <2>3
<1>7. PICK y : y = q % b
  OBVIOUS
<1>8. y * p = p * q - (p * b) * r
  BY <1>2, <1>6, <1>7
<1>9. v % (b * p) = (v % p) + y * p
  <2>1. PICK z : z = p * q
    OBVIOUS
  <2>2. PICK u : u = (p * b) * r
    OBVIOUS
  <2>3. z \in Nat /\ u \in Nat
    BY <1>1, <1>2, <2>1, <2>2
  <2> QED BY <1>1, <1>5, <1>8, <2>1, <2>2, <2>3
<1> QED BY <1>7, <1>9 DEF q

\* What the loop over digits has gathered after each of its turns.
LEMMA Gathers ==
  ASSUME NEW digits \in [0 .. Bytes -> Nat]
  PROVE  /\ Gathered(digits)[0] = 0
         /\ \A n \in 0 .. Bytes :
              Gathered(digits)[n + 1] = Gathered(digits)[n] + digits[n] * Weight[n]
<1>1. Bytes \in Nat
  BY BasicDrawsAssumption
<1> DEFINE step == [p \in (0 .. Bytes) \X Nat |-> p[2] + digits[p[1]] * Weight[p[1]]]
           G == Gathered(digits)
<1>2. step \in [(0 .. Bytes) \X Nat -> Nat]
  <2> SUFFICES ASSUME NEW p \in (0 .. Bytes) \X Nat
               PROVE  p[2] + digits[p[1]] * Weight[p[1]] \in Nat
    OBVIOUS
  <2>1. digits[p[1]] \in Nat /\ Weight[p[1]] \in Nat /\ p[2] \in Nat
    BY <1>1, Weights
  <2> QED BY <2>1
<1>3. \E g \in [0 .. Bytes + 1 -> Nat] : IsIteration(0, step, Bytes + 1, g)
  <2> HIDE DEF step
  <2> QED BY <1>1, <1>2, IterationExists
<1>4. PICK g \in [0 .. Bytes + 1 -> Nat] : IsIteration(0, step, Bytes + 1, g)
  BY <1>3
<1>5. \A i \in 0 .. Bytes + 1 : i # 0 =>
        step[<<i - 1, g[i - 1]>>] = g[i - 1] + digits[i - 1] * Weight[i - 1]
  <2> SUFFICES ASSUME NEW i \in 0 .. Bytes + 1, i # 0
               PROVE  step[<<i - 1, g[i - 1]>>] = g[i - 1] + digits[i - 1] * Weight[i - 1]
    OBVIOUS
  <2>1. i - 1 \in 0 .. Bytes /\ i - 1 \in 0 .. Bytes + 1
    BY <1>1
  <2>2. <<i - 1, g[i - 1]>> \in (0 .. Bytes) \X Nat
    BY <1>4, <2>1
  <2> QED BY <2>2
<1>6. g = [n \in 0 .. Bytes + 1 |->
             IF n = 0 THEN 0 ELSE g[n - 1] + digits[n - 1] * Weight[n - 1]]
  BY <1>4, <1>5 DEF IsIteration
<1>7. G = [n \in 0 .. Bytes + 1 |->
             IF n = 0 THEN 0 ELSE G[n - 1] + digits[n - 1] * Weight[n - 1]]
  BY <1>6 DEF Gathered
<1> HIDE DEF G
<1>8. G[0] = 0
  <2>1. 0 \in 0 .. Bytes + 1
    BY <1>1
  <2> QED BY <1>7, <2>1
<1>9. ASSUME NEW n \in 0 .. Bytes PROVE G[n + 1] = G[n] + digits[n] * Weight[n]
  <2>1. n + 1 \in 0 .. Bytes + 1 /\ n + 1 # 0 /\ (n + 1) - 1 = n
    BY <1>1
  <2> QED BY <1>7, <2>1
<1> QED BY <1>8, <1>9 DEF G

\* encode_u64_le gives digits, the highest of which is no sign.
LEMMA Encodes ==
  ASSUME NEW v \in Nat
  PROVE  /\ encode_u64_le(v) \in [0 .. Bytes -> 0 .. Base - 1]
         /\ encode_u64_le(v)[Bytes] = 0
         /\ \A i \in 0 .. Bytes - 1 : encode_u64_le(v)[i] = (v \div Weight[i]) % Base
<1>1. Base \in Nat /\ Base >= 2 /\ Bytes \in Nat \ {0}
  BY BasicDrawsAssumption
<1>2. ASSUME NEW i \in 0 .. Bytes PROVE (v \div Weight[i]) % Base \in 0 .. Base - 1
  <2>1. PICK w : w = Weight[i]
    OBVIOUS
  <2>2. w \in Nat \ {0}
    BY <1>1, <2>1, Weights
  <2>3. v \div w \in Nat
    BY <2>2
  <2> QED BY <1>1, <2>1, <2>3
<1>3. encode_u64_le(v) = [i \in 0 .. Bytes |->
                            IF i = Bytes THEN 0 ELSE (v \div Weight[i]) % Base]
  BY DEF encode_u64_le
<1>4. 0 \in 0 .. Base - 1
  BY <1>1
<1>5. encode_u64_le(v) \in [0 .. Bytes -> 0 .. Base - 1]
  BY <1>2, <1>3, <1>4
<1>6. Bytes \in 0 .. Bytes /\ \A i \in 0 .. Bytes - 1 : i \in 0 .. Bytes /\ i # Bytes
  BY <1>1
<1> QED BY <1>3, <1>5, <1>6

\* The digits of a number below the last weight give it back, as an unsigned and
\* as a two's-complement number (encode_u64_le, decode_u64_le).
THEOREM DigitsRoundTrip ==
  ASSUME NEW v \in Unsigned
  PROVE  /\ decode_u64_le(encode_u64_le(v)) = v
         /\ TwosComplement(encode_u64_le(v)) = v
<1>1. Base \in Nat /\ Base >= 2 /\ Bytes \in Nat \ {0}
  BY BasicDrawsAssumption
<1>2. Weight[Bytes] \in Nat \ {0}
  BY <1>1, Weights
<1>3. v \in Nat /\ v < Weight[Bytes]
  BY <1>2 DEF Unsigned
<1> DEFINE e == encode_u64_le(v)
           G == Gathered(e)
<1>4. /\ e \in [0 .. Bytes -> 0 .. Base - 1]
      /\ e[Bytes] = 0
      /\ \A i \in 0 .. Bytes - 1 : e[i] = (v \div Weight[i]) % Base
  BY <1>3, Encodes
<1>5. /\ G[0] = 0
      /\ \A n \in 0 .. Bytes : G[n + 1] = G[n] + e[n] * Weight[n]
  <2>1. e \in [0 .. Bytes -> Nat]
    BY <1>1, <1>4
  <2> HIDE DEF e
  <2> QED BY <2>1, Gathers
<1> HIDE DEF e, G
<1> DEFINE P == {n \in Nat : n <= Bytes => G[n] = v % Weight[n]}
<1>6. 0 \in P
  <2>1. v % 1 = 0
    BY <1>3
  <2> QED BY <1>5, <2>1, Weights
<1>7. ASSUME NEW n \in P PROVE n + 1 \in P
  <2> SUFFICES ASSUME n + 1 <= Bytes PROVE G[n + 1] = v % Weight[n + 1]
    OBVIOUS
  <2>1. n \in 0 .. Bytes - 1 /\ n \in 0 .. Bytes /\ G[n] = v % Weight[n]
    BY <1>1
  <2>2. PICK w : w = Weight[n]
    OBVIOUS
  <2>3. w \in Nat \ {0} /\ Weight[n + 1] = Base * w
    BY <1>1, <2>1, <2>2, Weights
  <2>4. v % (Base * w) = (v % w) + ((v \div w) % Base) * w
    <3>1. v \in Nat /\ w \in Nat \ {0} /\ Base \in Nat \ {0}
      BY <1>1, <1>3, <2>3
    <3> QED BY <3>1, NextDigit, Zenon
  <2>5. G[n + 1] = G[n] + e[n] * w /\ e[n] = (v \div w) % Base
    BY <1>4, <1>5, <2>1, <2>2
  <2> QED BY <2>1, <2>2, <2>3, <2>4, <2>5
<1>8. P = Nat
  <2>1. P \in SUBSET Nat
    OBVIOUS
  <2> HIDE DEF P
  <2> QED BY <1>6, <1>7, <2>1, SetInduction
<1>9. G[Bytes] = v % Weight[Bytes]
  BY <1>1, <1>8
<1>10. v % Weight[Bytes] = v
  BY <1>2, <1>3
<1>11. G[Bytes + 1] = v
  <2>1. Bytes \in 0 .. Bytes /\ e[Bytes] * Weight[Bytes] = 0
    BY <1>1, <1>2, <1>4
  <2> QED BY <1>3, <1>5, <1>9, <1>10, <2>1
<1>12. ~(e[Bytes] >= Base \div 2)
  <2>1. Base \div 2 >= 1
    BY <1>1
  <2> QED BY <1>1, <1>4, <2>1
<1> QED BY <1>3, <1>9, <1>10, <1>11, <1>12 DEF decode_u64_le, TwosComplement, e, G

-----------------------------------------------------------------------------
(* The answers of basic draws *)

\* The widths of the integers.
LEMMA Widths ==
  /\ Weight[Bytes] \in Nat /\ Weight[Bytes] >= 2
  /\ IntMax \in Nat /\ IntMax < Weight[Bytes]
<1>1. Base \in Nat /\ Base >= 2 /\ Bytes \in Nat \ {0}
  BY BasicDrawsAssumption
<1>2. PICK w : w = Weight[Bytes - 1]
  OBVIOUS
<1>3. w \in Nat \ {0} /\ Weight[Bytes] = Base * w
  <2>1. Bytes - 1 \in 0 .. Bytes /\ Bytes - 1 \in 0 .. Bytes + 1 /\ (Bytes - 1) + 1 = Bytes
    BY <1>1
  <2> QED BY <1>2, <2>1, Weights
<1>4. Base * w \in Nat /\ Base * w >= 2
  <2>1. w >= 1 /\ w \in Nat
    BY <1>3
  <2>2. (Base - 2) * w \in Nat /\ Base * w = (Base - 2) * w + 2 * w
    BY <1>1, <2>1
  <2> QED BY <2>1, <2>2
<1>5. PICK m : m = Weight[Bytes]
  OBVIOUS
<1>6. m \in Nat /\ m >= 2 /\ IntMax = m \div 2 - 1
  BY <1>3, <1>4, <1>5 DEF IntMax
<1>7. m \div 2 - 1 \in Nat /\ m \div 2 - 1 < m
  BY <1>6
<1> QED BY <1>5, <1>6, <1>7

LEMMA EvenWidth == Weight[Bytes] % 2 = 0
<1>1. Base \in Nat /\ Base % 2 = 0 /\ Bytes \in Nat \ {0}
  BY BasicDrawsAssumption
<1>2. PICK b \in Nat : Base = 2 * b
  <2>1. Base \div 2 \in Nat /\ Base = 2 * (Base \div 2)
    BY <1>1
  <2> QED BY <2>1
<1>3. PICK w : w = Weight[Bytes - 1]
  OBVIOUS
<1>4. w \in Nat /\ Weight[Bytes] = Base * w
  <2>1. Bytes - 1 \in 0 .. Bytes /\ Bytes - 1 \in 0 .. Bytes + 1 /\ (Bytes - 1) + 1 = Bytes
    BY <1>1
  <2> QED BY <1>3, <2>1, Weights
<1>5. PICK m \in Nat : m = b * w
  BY <1>2, <1>4
<1>6. Weight[Bytes] = 2 * m
  BY <1>2, <1>4, <1>5
<1>7. (2 * m) % 2 = 0
  OBVIOUS
<1> QED BY <1>6, <1>7

\* The requests by their type.
LEMMA RequestTypes ==
  ASSUME NEW g \in Generators
  PROVE  /\ Built(g)
         /\ \/ g \in [type : {"signed"}, min : Optional(Signed), max : Optional(Signed)]
            \/ g \in [type : {"unsigned"}, min : Optional(Unsigned), max : Optional(Unsigned)]
            \/ g \in FloatRequests(32)
            \/ g \in FloatRequests(64)
            \/ g \in FloatRequests(128)
            \/ g \in SizeRequests
            \/ g \in IndexRequests
BY DrawsAssumption DEF Generators, BasicRequests, IntegerRequests

Truthful(g, v) ==
  IF v = Refused THEN Legal(g) = {} \/ IllPosed(g) ELSE v \in Legal(g)

LEMMA SignedTruthful ==
  ASSUME NEW g \in [type : {"signed"}, min : Optional(Signed), max : Optional(Signed)],
         Built(g), NEW v \in Answers(g)
  PROVE  Truthful(g, v)
<1>1. /\ g.type = "signed"
      /\ g.min \in Signed \/ g.min = Unset
      /\ g.max \in Signed \/ g.max = Unset
  BY DEF Optional
<1>2. g.min # Unset /\ g.max # Unset => g.min <= g.max
  BY <1>1 DEF Built
<1>3. Signed = -IntMax - 1 .. IntMax /\ IntMax \in Nat /\ Unset \notin Int /\ Refused \notin Int
  BY Widths, BasicDrawsAssumption DEF Signed
<1> DEFINE lo == Given(g.min, -IntMax - 1)
           hi == Given(g.max, IntMax)
<1>4. v \in EngineInteger(lo, hi)
  BY <1>1 DEF Answers, IntegerGenerator
<1>5. /\ lo \in Signed /\ hi \in Signed /\ lo <= hi
      /\ g.min # Unset => lo = g.min
      /\ g.max # Unset => hi = g.max
  BY <1>1, <1>2, <1>3 DEF Given
<1> HIDE DEF lo, hi
<1>6. v \in lo .. hi
  BY <1>3, <1>4, <1>5 DEF EngineInteger
<1>7. v \in Signed /\ Between(v, g.min, g.max) /\ v # Refused
  BY <1>3, <1>5, <1>6 DEF Between
<1>8. Legal(g) = {n \in Signed : Between(n, g.min, g.max)}
  BY <1>1 DEF Legal
<1> QED BY <1>7, <1>8 DEF Truthful

LEMMA UnsignedTruthful ==
  ASSUME NEW g \in [type : {"unsigned"}, min : Optional(Unsigned), max : Optional(Unsigned)],
         Built(g), NEW v \in Answers(g)
  PROVE  Truthful(g, v)
<1>1. /\ g.type = "unsigned"
      /\ g.min \in Unsigned \/ g.min = Unset
      /\ g.max \in Unsigned \/ g.max = Unset
  BY DEF Optional
<1>2. g.min # Unset /\ g.max # Unset => g.min <= g.max
  BY <1>1 DEF Built
<1>3. /\ Unsigned = 0 .. Weight[Bytes] - 1 /\ Weight[Bytes] \in Nat /\ Weight[Bytes] >= 2
      /\ IntMax \in Nat /\ Unset \notin Int /\ Refused \notin Int
  BY Widths, BasicDrawsAssumption DEF Unsigned
<1> DEFINE lo == Given(g.min, 0)
           hi == Given(g.max, Weight[Bytes] - 1)
<1>4. v \in draw_integer_unsigned(lo, hi)
  BY <1>1 DEF Answers, IntegerGenerator
<1>5. /\ lo \in Unsigned /\ hi \in Unsigned /\ lo <= hi
      /\ g.min # Unset => lo = g.min
      /\ g.max # Unset => hi = g.max
  BY <1>1, <1>2, <1>3 DEF Given
<1> HIDE DEF lo, hi
<1>6. lo \in Int /\ hi \in Int /\ \A n \in lo .. hi : n \in Unsigned
  BY <1>3, <1>5
<1>7. v \in lo .. hi
  <2>1. CASE hi <= IntMax
    <3>1. AsSigned(lo) = lo /\ AsSigned(hi) = hi
      BY <1>3, <1>5, <1>6, <2>1 DEF AsSigned
    <3>2. EngineInteger(lo, hi) = lo .. hi
      BY <1>5, <1>6 DEF EngineInteger
    <3>3. draw_integer_unsigned(lo, hi) = EngineInteger(lo, hi)
      BY <2>1, <3>1 DEF draw_integer_unsigned
    <3> QED BY <1>4, <3>2, <3>3
  <2>2. CASE ~(hi <= IntMax)
    <3>1. TwosComplement(encode_u64_le(lo)) = lo /\ TwosComplement(encode_u64_le(hi)) = hi
      BY <1>5, DigitsRoundTrip
    <3>2. EngineInteger(lo, hi) = lo .. hi
      BY <1>5, <1>6 DEF EngineInteger
    <3>3. v \in {IF n = Refused THEN n ELSE decode_u64_le(encode_u64_le(n)) : n \in lo .. hi}
      BY <1>4, <2>2, <3>1, <3>2 DEF draw_integer_unsigned
    <3>4. PICK n \in lo .. hi : v = IF n = Refused THEN n ELSE decode_u64_le(encode_u64_le(n))
      BY <3>3
    <3>5. n # Refused /\ decode_u64_le(encode_u64_le(n)) = n
      BY <1>3, <1>6, DigitsRoundTrip
    <3> QED BY <3>4, <3>5
  <2> QED BY <2>1, <2>2
<1>8. v \in Unsigned /\ Between(v, g.min, g.max) /\ v # Refused
  BY <1>3, <1>5, <1>6, <1>7 DEF Between
<1>9. Legal(g) = {n \in Unsigned : Between(n, g.min, g.max)}
  BY <1>1 DEF Legal
<1> QED BY <1>8, <1>9 DEF Truthful

LEMMA SizeTruthful ==
  ASSUME NEW g \in SizeRequests, Built(g), NEW v \in Answers(g)
  PROVE  Truthful(g, v)
<1>1. /\ g.type = "size"
      /\ g.min \in Unsigned
      /\ g.max \in Unsigned \/ g.max = Unset
  BY DEF SizeRequests, Optional
<1>2. /\ Unsigned = 0 .. Weight[Bytes] - 1 /\ Weight[Bytes] \in Nat
      /\ Unset \notin Int /\ Refused \notin Int /\ DefaultMax \in Unsigned
  BY Widths, BasicDrawsAssumption, DrawsAssumption DEF Unsigned
<1>3. g.min # Unset /\ (g.max # Unset => g.min <= g.max)
  BY <1>1, <1>2 DEF Built
<1> DEFINE hi == default_max_size(g.min, g.max)
<1>4. v \in EngineInteger(g.min, hi)
  BY <1>1 DEF Answers, SizedGenerator
<1>5. hi \in Unsigned /\ g.min <= hi /\ (g.max # Unset => hi = g.max)
  BY <1>1, <1>2, <1>3 DEF Given, default_max_size
<1> HIDE DEF hi
<1>6. v \in g.min .. hi
  BY <1>1, <1>2, <1>4, <1>5 DEF EngineInteger
<1>7. v \in Unsigned /\ Between(v, g.min, g.max) /\ v # Refused
  BY <1>1, <1>2, <1>5, <1>6 DEF Between
<1>8. Legal(g) = {n \in Unsigned : Between(n, g.min, g.max)}
  BY <1>1 DEF Legal
<1> QED BY <1>7, <1>8 DEF Truthful

LEMMA IndexTruthful ==
  ASSUME NEW g \in IndexRequests, Built(g), NEW v \in Answers(g)
  PROVE  Truthful(g, v)
<1>1. g.type = "index" /\ g.size \in Nat /\ g.size > 0 /\ Refused \notin Int
  BY BasicDrawsAssumption DEF IndexRequests, Built
<1>2. v \in EngineInteger(0, g.size - 1)
  BY <1>1 DEF Answers, IndexGenerator
<1>3. v \in 0 .. g.size - 1 /\ v # Refused
  BY <1>1, <1>2 DEF EngineInteger
<1>4. Legal(g) = 0 .. g.size - 1
  BY <1>1 DEF Legal
<1> QED BY <1>3, <1>4 DEF Truthful

LEMMA FloatTruthful ==
  ASSUME NEW width \in {32, 64, 128}, NEW g \in FloatRequests(width),
         NEW v \in Answers(g)
  PROVE  Truthful(g, v)
<1> DEFINE F == Floats(width)
           most == IF width = 32 THEN FloatMax ELSE DoubleMax
           inf == AllowInfinity(g)
           nan == AllowNaN(g)
           extreme == IF inf THEN Infinity ELSE most
           lo == Given(g.min, -extreme)
           hi == Given(g.max, extreme)
<1>1. /\ g.type = "float" /\ g.width = width
      /\ g.min \in F \/ g.min = Unset
      /\ g.max \in F \/ g.max = Unset
      /\ g.exclude_min \in BOOLEAN /\ g.exclude_max \in BOOLEAN
  BY DEF FloatRequests, Optional
<1>2. /\ F = -most .. most /\ most \in Nat \ {0} /\ Infinity \in Nat /\ most < Infinity
      /\ Unset \notin Int /\ NaN \notin Int /\ Refused \notin Int /\ Refused # NaN
  BY BasicDrawsAssumption DEF Floats, Infinity
<1> DEFINE InBounds(x) == /\ IF g.exclude_min THEN lo < x ELSE lo <= x
                          /\ IF g.exclude_max THEN x < hi ELSE x <= hi
           answers == {x \in F : InBounds(x)}
                        \cup {x \in {lo, hi} \cap {Infinity, -Infinity} : inf}
                        \cup {x \in {NaN} : nan}
           exact == {lo, hi} \subseteq F \cup {Infinity, -Infinity}
<1>3. v \in IF width \in {32, 64} /\ exact /\ answers # {} THEN answers ELSE {Refused}
  BY <1>1 DEF Answers, FloatGenerator, EngineFloat
<1>4. Legal(g) = {x \in F : /\ Between(x, g.min, g.max)
                            /\ g.exclude_min => x # g.min
                            /\ g.exclude_max => x # g.max}
                   \cup {x \in {-Infinity} : inf /\ g.min = Unset}
                   \cup {x \in {Infinity} : inf /\ g.max = Unset}
                   \cup {x \in {NaN} : nan}
  BY <1>1 DEF Legal, LegalFloats
<1>5. /\ lo \in Int /\ hi \in Int
      /\ g.min # Unset => lo = g.min /\ g.min \in F
      /\ g.max # Unset => hi = g.max /\ g.max \in F
      /\ g.min = Unset => lo = -extreme
      /\ g.max = Unset => hi = extreme
      /\ extreme \in Nat \ {0} /\ most <= extreme
      /\ inf => extreme = Infinity
      /\ ~inf => extreme = most
  BY <1>1, <1>2 DEF Given
<1> HIDE DEF F, most, inf, nan, extreme, lo, hi
<1>6. exact
  BY <1>2, <1>5
<1>7. ASSUME NEW x \in F
      PROVE  /\ InBounds(x) => /\ Between(x, g.min, g.max)
                               /\ g.exclude_min => x # g.min
                               /\ g.exclude_max => x # g.max
             /\ /\ ~IllPosed(g)
                /\ Between(x, g.min, g.max)
                /\ g.exclude_min => x # g.min
                /\ g.exclude_max => x # g.max
                => InBounds(x)
  <2>1. x \in Int /\ -extreme <= x /\ x <= extreme
    BY <1>2, <1>5
  <2>2. (IF g.exclude_min THEN lo < x ELSE lo <= x)
          <=> /\ g.min = Unset \/ x >= g.min
              /\ g.exclude_min => x # (IF g.min = Unset THEN -extreme ELSE g.min)
    BY <1>1, <1>2, <1>5, <2>1
  <2>3. (IF g.exclude_max THEN x < hi ELSE x <= hi)
          <=> /\ g.max = Unset \/ x <= g.max
              /\ g.exclude_max => x # (IF g.max = Unset THEN extreme ELSE g.max)
    BY <1>1, <1>2, <1>5, <2>1
  <2>4. x # Unset
    BY <1>2, <2>1
  <2>5. ~IllPosed(g) => /\ g.exclude_min => g.min # Unset
                        /\ g.exclude_max => g.max # Unset
    BY <1>1 DEF IllPosed
  <2> QED BY <2>2, <2>3, <2>4, <2>5 DEF Between
<1>8. answers \subseteq Legal(g)
  <2>1. ASSUME NEW x \in {lo, hi} \cap {Infinity, -Infinity}, inf PROVE x \in Legal(g)
    <3>1. (x = -Infinity /\ g.min = Unset) \/ (x = Infinity /\ g.max = Unset)
      BY <1>2, <1>5, <2>1
    <3> QED BY <1>4, <2>1, <3>1
  <2>2. ASSUME NEW x \in F, InBounds(x) PROVE x \in Legal(g)
    BY <1>4, <1>7, <2>2
  <2>3. ASSUME nan PROVE NaN \in Legal(g)
    BY <1>4, <2>3
  <2> QED BY <2>1, <2>2, <2>3
<1>9. answers = {} => Legal(g) = {} \/ IllPosed(g)
  <2> SUFFICES ASSUME NEW x \in Legal(g), ~IllPosed(g) PROVE answers # {}
    OBVIOUS
  <2>1. CASE x \in F /\ InBounds(x)
    BY <2>1
  <2>2. CASE inf /\ g.min = Unset
    <3>1. lo = -Infinity
      BY <1>5, <2>2
    <3>2. lo \in answers
      BY <2>2, <3>1
    <3> QED BY <3>2
  <2>3. CASE inf /\ g.max = Unset
    <3>1. hi = Infinity
      BY <1>5, <2>3
    <3>2. hi \in answers
      BY <2>3, <3>1
    <3> QED BY <3>2
  <2>4. CASE nan
    BY <2>4
  <2>5. \/ x \in F /\ InBounds(x)
        \/ inf /\ (g.min = Unset \/ g.max = Unset)
        \/ nan
    BY <1>4, <1>7
  <2> QED BY <2>1, <2>2, <2>3, <2>4, <2>5
<1>10. Refused \notin Legal(g)
  <2>1. Refused \notin F /\ Refused # Infinity /\ Refused # -Infinity
    BY <1>2
  <2> QED BY <1>2, <1>4, <2>1
<1> HIDE DEF answers, exact
<1>11. CASE answers = {} \/ width \notin {32, 64}
  <2>1. Legal(g) = {} \/ IllPosed(g)
    BY <1>1, <1>9, <1>11 DEF IllPosed
  <2> QED BY <1>3, <1>11, <2>1 DEF Truthful
<1>12. CASE answers # {} /\ width \in {32, 64}
  BY <1>3, <1>6, <1>8, <1>10, <1>12 DEF Truthful
<1> QED BY <1>11, <1>12

\* Whatever is asked for, the engine's answer is a value that the parameters
\* allow, and parameters are refused only when they allow none or are ill-posed
\* (integers(), floats(), text(), binary(), sampled_from(), one_of()).
LEMMA AnswersTruthful ==
  ASSUME NEW g \in Generators, NEW v \in Answers(g)
  PROVE  Truthful(g, v)
BY RequestTypes, SignedTruthful, UnsignedTruthful, FloatTruthful, SizeTruthful, IndexTruthful

\* A basic draw hands the user a value of the range that was asked for, whatever
\* the widths and the way the request is encoded, and throws invalid_argument only
\* when that range is empty, for floats wider than a double, and for an exclusion
\* flag whose bound was not given.
THEOREM ValuesLegal == Spec => []ValuesInRange
<1>1. ASSUME IInv PROVE ValuesInRange
  <2> SUFFICES ASSUME NEW i \in 1 .. Len(stack), stack[i].kind = "basic"
               PROVE  Truthful(stack[i].generator, stack[i].value)
    BY <1>1, StackTyped DEF IInv, ValuesInRange, Truthful
  <2>1. stack[i] \in BasicFrames
    BY <1>1, StackTyped, FrameKinds DEF IInv
  <2>2. stack[i].generator \in Generators /\ stack[i].value \in Answers(stack[i].generator)
    BY <2>1 DEF BasicFrames
  <2> QED BY <2>2, AnswersTruthful
<1> QED BY DrawsInductive, <1>1, PTL

-----------------------------------------------------------------------------
(* The words of characters, and their codes *)

Characters == {Char[c] : c \in Byte}
Texts == Characters \cup Tokens

LEMMA CodeOf ==
  ASSUME NEW c \in Byte
  PROVE  /\ Code(Char[c]) = c
         /\ Char[c] \in Characters /\ Char[c] \in Texts /\ Char[c] \notin Tokens
<1>1. \A b \in Byte : Char[b] = Char[c] => b = c
  BY LiteralsAssumption
<1>2. Code(Char[c]) \in Byte /\ Char[Code(Char[c])] = Char[c]
  BY DEF Code
<1> QED BY <1>1, <1>2, LiteralsAssumption DEF Characters, Texts

LEMMA WrittenTyped ==
  ASSUME NEW s \in Seq(Byte)
  PROVE  /\ Written(s) \in Seq(Characters) /\ Written(s) \in Seq(Texts)
         /\ Len(Written(s)) = Len(s)
         /\ \A i \in 1 .. Len(s) : Written(s)[i] = Char[s[i]]
<1> DEFINE n == Len(s)
<1>1. n \in Nat /\ DOMAIN s = 1 .. n /\ \A i \in 1 .. n : s[i] \in Byte
  OBVIOUS
<1>2. Written(s) = [i \in 1 .. n |-> Char[s[i]]]
  BY <1>1 DEF Written
<1>3. \A i \in 1 .. n : Char[s[i]] \in Characters
  BY <1>1 DEF Characters
<1> HIDE DEF n
<1>4. Written(s) \in Seq(Characters) /\ Len(Written(s)) = n
  BY <1>1, <1>2, <1>3
<1> QED BY <1>2, <1>4, SeqMonotonic DEF Texts, n

LEMMA WrittenJoined ==
  ASSUME NEW s \in Seq(Byte), NEW t \in Seq(Byte)
  PROVE  Written(s \o t) = Written(s) \o Written(t)
<1>1. s \o t \in Seq(Byte)
  OBVIOUS
<1> DEFINE u == Written(s)
           v == Written(t)
<1>2. /\ u \in Seq(Texts) /\ v \in Seq(Texts) /\ Len(u) = Len(s) /\ Len(v) = Len(t)
      /\ Written(s \o t) \in Seq(Texts) /\ Len(Written(s \o t)) = Len(s \o t)
  BY <1>1, WrittenTyped
<1> HIDE DEF u, v
<1>3. /\ Len(Written(s \o t)) = Len(s) + Len(t) /\ Len(s) \in Nat /\ Len(t) \in Nat
      /\ u \o v \in Seq(Texts) /\ Len(u \o v) = Len(s) + Len(t)
  BY <1>2
<1>4. ASSUME NEW i \in 1 .. Len(s) + Len(t)
      PROVE  Written(s \o t)[i] = (u \o v)[i]
  <2>1. Written(s \o t)[i] = Char[(s \o t)[i]]
    BY <1>1, <1>2, <1>3, WrittenTyped
  <2>2. CASE i <= Len(s)
    <3>1. i \in 1 .. Len(s) /\ (s \o t)[i] = s[i] /\ (u \o v)[i] = u[i]
      BY <1>2, <1>3, <2>2
    <3> QED BY <2>1, <3>1, WrittenTyped DEF u
  <2>3. CASE i > Len(s)
    <3>1. /\ i - Len(s) \in 1 .. Len(t) /\ (s \o t)[i] = t[i - Len(s)]
          /\ (u \o v)[i] = v[i - Len(s)]
      BY <1>2, <1>3, <2>3
    <3> QED BY <2>1, <3>1, WrittenTyped DEF v
  <2> QED BY <1>3, <2>2, <2>3
<1>5. Written(s \o t) = u \o v
  BY <1>2, <1>3, <1>4, SeqEqual
<1> QED BY <1>5 DEF u, v

LEMMA WrittenOne ==
  ASSUME NEW c \in Byte
  PROVE  Written(<<c>>) = <<Char[c]>>
<1>1. DOMAIN <<c>> = 1 .. 1
  OBVIOUS
<1> QED BY <1>1 DEF Written

LEMMA WrittenAppend ==
  ASSUME NEW s \in Seq(Byte), NEW c \in Byte
  PROVE  Written(Append(s, c)) = Append(Written(s), Char[c])
<1>1. Append(s, c) = s \o <<c>> /\ <<c>> \in Seq(Byte)
  OBVIOUS
<1>2. Written(s) \o <<Char[c]>> = Append(Written(s), Char[c])
  BY WrittenTyped, CodeOf
<1> QED BY <1>1, <1>2, WrittenJoined, WrittenOne

-----------------------------------------------------------------------------
(* Escapes *)

LEMMA EscapeTyped ==
  ASSUME NEW c \in Byte, NEW in_string \in BOOLEAN
  PROVE  append_escaped(c, in_string) \in Seq(Byte)
<1>1. c \div 64 \in 0 .. 3 /\ (c \div 8) % 8 \in 0 .. 7 /\ c % 8 \in 0 .. 7
  BY DEF Byte
<1>2. Octal(c) \in Seq(Byte)
  BY <1>1 DEF Octal, Digit, Byte
<1>3. <<Backslash>> \o Octal(c) \in Seq(Byte)
  BY <1>2 DEF Backslash, Byte
<1>4. /\ <<Backslash, 110>> \in Seq(Byte) /\ <<Backslash, 116>> \in Seq(Byte)
      /\ <<Backslash, 114>> \in Seq(Byte) /\ <<Backslash, Backslash>> \in Seq(Byte)
      /\ <<Backslash, c>> \in Seq(Byte) /\ <<c>> \in Seq(Byte)
  BY DEF Backslash, Byte
<1> QED BY <1>3, <1>4, Zenon DEF append_escaped

EscapeStep == [p \in Seq(Byte) \X Byte |-> p[1] \o append_escaped(p[2], TRUE)]

LEMMA EscapeStepTyped == EscapeStep \in [Seq(Byte) \X Byte -> Seq(Byte)]
<1>1. ASSUME NEW s \in Seq(Byte), NEW c \in Byte
      PROVE  s \o append_escaped(c, TRUE) \in Seq(Byte)
  <2>1. append_escaped(c, TRUE) \in Seq(Byte)
    BY EscapeTyped
  <2> QED BY <2>1, ConcatProperties
<1>2. ASSUME NEW p \in Seq(Byte) \X Byte
      PROVE  p[1] \o append_escaped(p[2], TRUE) \in Seq(Byte)
  <2>1. p[1] \in Seq(Byte) /\ p[2] \in Byte
    OBVIOUS
  <2> QED BY <1>1, <2>1, Zenon
<1> QED BY <1>2, Zenon DEF EscapeStep

LEMMA EscapedLoop ==
  ASSUME NEW s \in Seq(Byte)
  PROVE  Escaped(s) = LoopOf(<<>>, EscapeStep, s)
<1> DEFINE n == Len(s)
           IsOut(o) == o = [i \in 0 .. n |->
                              IF i = 0 THEN <<>> ELSE o[i - 1] \o append_escaped(s[i], TRUE)]
           out == CHOOSE o : IsOut(o)
<1>1. n \in Nat /\ \A i \in 1 .. n : s[i] \in Byte
  OBVIOUS
<1>2. \A a \in Seq(Byte), c \in Byte : EscapeStep[<<a, c>>] = a \o append_escaped(c, TRUE)
  BY DEF EscapeStep
<1>3. EscapeStep \in [Seq(Byte) \X Byte -> Seq(Byte)] /\ <<>> \in Seq(Byte)
  BY EscapeStepTyped, EmptySeq
<1>4. PICK g \in [0 .. n -> Seq(Byte)] : IsLoop(<<>>, EscapeStep, s, g)
  BY <1>3, LoopExists
<1>5. IsOut(g)
  <2>1. ASSUME NEW i \in 0 .. n, i # 0
        PROVE  EscapeStep[<<g[i - 1], s[i]>>] = g[i - 1] \o append_escaped(s[i], TRUE)
    <3>1. i - 1 \in 0 .. n /\ i \in 1 .. n
      BY <1>1, <2>1
    <3> QED BY <1>1, <1>2, <3>1
  <2>2. g = [i \in 0 .. n |-> IF i = 0 THEN <<>> ELSE EscapeStep[<<g[i - 1], s[i]>>]]
    BY <1>4 DEF IsLoop
  <2> QED BY <2>1, <2>2
<1>6. IsOut(out)
  <2> HIDE DEF IsOut
  <2> QED BY <1>5
<1>7. Escaped(s) = out[n]
  BY DEF Escaped
<1> HIDE DEF out
<1>8. TakesSteps(Seq(Byte), <<>>, EscapeStep, s, out)
  <2>1. out[0] = <<>> /\ \A i \in 1 .. n : out[i] = out[i - 1] \o append_escaped(s[i], TRUE)
    <3>1. 0 \in 0 .. n /\ \A i \in 1 .. n : i \in 0 .. n /\ i # 0
      BY <1>1
    <3> QED BY <1>6, <3>1
  <2> QED BY <1>1, <1>2, <2>1 DEF TakesSteps
<1>9. out[n] = LoopOf(<<>>, EscapeStep, s) /\ out[n] \in Seq(Byte)
  BY <1>3, <1>8, LoopIs, Zenon
<1> QED BY <1>7, <1>9

LEMMA EscapedAppend ==
  ASSUME NEW s \in Seq(Byte), NEW c \in Byte
  PROVE  /\ Escaped(<<>>) = <<>>
         /\ Escaped(s) \in Seq(Byte)
         /\ Escaped(Append(s, c)) = Escaped(s) \o append_escaped(c, TRUE)
<1>1. EscapeStep \in [Seq(Byte) \X Byte -> Seq(Byte)] /\ <<>> \in Seq(Byte)
  BY EscapeStepTyped, EmptySeq
<1>2. \A a \in Seq(Byte) : EscapeStep[<<a, c>>] = a \o append_escaped(c, TRUE)
  BY DEF EscapeStep
<1>3. LoopOf(<<>>, EscapeStep, <<>>) = <<>>
  BY <1>1, LoopEmpty
<1>4. /\ LoopOf(<<>>, EscapeStep, s) \in Seq(Byte)
      /\ LoopOf(<<>>, EscapeStep, Append(s, c)) = EscapeStep[<<LoopOf(<<>>, EscapeStep, s), c>>]
  <2>1. EscapeStep \in [Seq(Byte) \X Byte -> Seq(Byte)]
    BY <1>1
  <2>2. <<>> \in Seq(Byte)
    BY <1>1
  <2>3. /\ LoopOf(<<>>, EscapeStep, s) \in Seq(Byte)
        /\ LoopsOn(<<>>, EscapeStep, s, c)
    BY <2>1, <2>2, LoopAppend, Zenon
  <2> QED BY <2>3, Zenon DEF LoopsOn
<1>5. Append(s, c) \in Seq(Byte)
  OBVIOUS
<1> QED BY <1>1, <1>2, <1>3, <1>4, <1>5, EscapedLoop

-----------------------------------------------------------------------------
(* Reading a literal, one word at a time *)

Codes == Nat \cup {Code(w) : w \in Texts}
Modes == {"plain", "escape", "octal", "done"}
States == [mode : Modes, bytes : Seq(Codes), value : Nat, count : Nat, rest : Seq(Texts)]

LEMMA StateParts ==
  ASSUME NEW s \in States
  PROVE  /\ s.mode \in Modes /\ s.bytes \in Seq(Codes) /\ s.value \in Nat /\ s.count \in Nat
         /\ s.rest \in Seq(Texts)
         /\ \A mode \in Modes : [s EXCEPT !.mode = mode] \in States
         /\ \A bytes \in Seq(Codes) : [s EXCEPT !.bytes = bytes] \in States
         /\ \A mode \in Modes, bytes \in Seq(Codes) :
              [s EXCEPT !.mode = mode, !.bytes = bytes] \in States
         /\ \A rest \in Seq(Texts) : [s EXCEPT !.rest = rest] \in States
         /\ \A value, count \in Nat : [s EXCEPT !.value = value, !.count = count] \in States
         /\ \A mode \in Modes, value, count \in Nat :
              [s EXCEPT !.mode = mode, !.value = value, !.count = count] \in States
BY DEF States

LEMMA EndEscapeTyped ==
  ASSUME NEW s \in States
  PROVE  EndEscape(s) \in States
<1>1. s.value \in Codes /\ s.bytes \in Seq(Codes) /\ "plain" \in Modes
  BY StateParts DEF Codes, Modes
<1>2. Append(s.bytes, s.value) \in Seq(Codes)
  BY <1>1, AppendProperties
<1> QED BY <1>1, <1>2, StateParts, Zenon DEF EndEscape

LEMMA ReadWordTyped ==
  ASSUME NEW s \in States, NEW w \in Texts, NEW d \in Byte
  PROVE  ReadWord(s, w, d) \in States
<1> DEFINE c == Code(w)
<1>1. c \in Codes
  BY DEF Codes
<1>2. Named(c) \in Codes
  BY <1>1 DEF Named, Codes, Newline, Tab, Return
<1>3. c \in OctalDigits => c - Digit(0) \in Nat
  BY DEF OctalDigits, Digit
<1> HIDE DEF c
<1>4. "plain" \in Modes /\ "escape" \in Modes /\ "octal" \in Modes /\ "done" \in Modes
  BY DEF Modes
<1>5. ASSUME NEW r \in States PROVE ReadPlain(r, c, d) \in States
  <2>1. Append(r.bytes, c) \in Seq(Codes)
    BY <1>1, StateParts, AppendProperties
  <2> QED BY <1>4, <2>1, StateParts, Zenon DEF ReadPlain
<1>6. ReadPlain(EndEscape(s), c, d) \in States
  BY <1>5, EndEscapeTyped
<1>7. Append(s.bytes, Named(c)) \in Seq(Codes) /\ Append(s.rest, w) \in Seq(Texts)
  BY <1>2, StateParts, AppendProperties
<1>8. c \in OctalDigits => 8 * s.value + (c - Digit(0)) \in Nat /\ s.count + 1 \in Nat
  <2>1. s.value \in Nat /\ s.count \in Nat
    BY StateParts
  <2>2. \A m, k, a \in Nat : 8 * m + a \in Nat /\ k + 1 \in Nat
    OBVIOUS
  <2> QED BY <1>3, <2>1, <2>2, Zenon
<1>9. 1 \in Nat
  OBVIOUS
<1>10. CASE s.mode = "done"
  <2>1. ReadWord(s, w, d) = [s EXCEPT !.rest = Append(s.rest, w)]
    BY <1>10 DEF ReadWord
  <2> QED BY <1>7, <2>1, StateParts
<1>11. CASE s.mode = "escape" /\ c \in OctalDigits
  <2>1. ReadWord(s, w, d) = [s EXCEPT !.mode = "octal", !.value = c - Digit(0), !.count = 1]
    BY <1>11 DEF ReadWord, c
  <2>2. [s EXCEPT !.mode = "octal", !.value = c - Digit(0), !.count = 1] \in States
    BY <1>3, <1>4, <1>9, <1>11 DEF States
  <2> QED BY <2>1, <2>2
<1>12. CASE s.mode = "escape" /\ c \notin OctalDigits
  <2>1. ReadWord(s, w, d) = [s EXCEPT !.mode = "plain", !.bytes = Append(s.bytes, Named(c))]
    BY <1>12 DEF ReadWord, c
  <2>2. [s EXCEPT !.mode = "plain", !.bytes = Append(s.bytes, Named(c))] \in States
    BY <1>4, <1>7 DEF States
  <2> QED BY <2>1, <2>2
<1>13. CASE s.mode = "octal" /\ s.count < 3 /\ c \in OctalDigits
  <2>1. ReadWord(s, w, d) = [s EXCEPT !.value = 8 * s.value + (c - Digit(0)),
                                      !.count = s.count + 1]
    BY <1>13 DEF ReadWord, c
  <2>2. [s EXCEPT !.value = 8 * s.value + (c - Digit(0)), !.count = s.count + 1] \in States
    BY <1>8, <1>13 DEF States
  <2> QED BY <2>1, <2>2
<1>14. CASE /\ s.mode # "done" /\ s.mode # "escape"
            /\ ~(s.mode = "octal" /\ s.count < 3 /\ c \in OctalDigits)
  <2>1. ReadWord(s, w, d) = ReadPlain(EndEscape(s), c, d)
    BY <1>14, Zenon DEF ReadWord, c
  <2> QED BY <1>6, <2>1
<1> QED BY <1>10, <1>11, <1>12, <1>13, <1>14, Zenon

ReadStep(d) == [p \in States \X Texts |-> ReadWord(p[1], p[2], d)]

LEMMA ReadStepTyped ==
  ASSUME NEW d \in Byte
  PROVE  /\ ReadStep(d) \in [States \X Texts -> States]
         /\ Opened \in States
         /\ \A s \in States, w \in Texts : ReadStep(d)[<<s, w>>] = ReadWord(s, w, d)
<1>1. ASSUME NEW p \in States \X Texts PROVE ReadWord(p[1], p[2], d) \in States
  <2>1. p[1] \in States /\ p[2] \in Texts
    OBVIOUS
  <2> QED BY <2>1, ReadWordTyped
<1>2. ReadStep(d) \in [States \X Texts -> States]
  BY <1>1, Zenon DEF ReadStep
<1>3. Opened \in States
  BY EmptySeq DEF Opened, States, Modes
<1>4. ASSUME NEW s \in States, NEW w \in Texts
      PROVE  ReadStep(d)[<<s, w>>] = ReadWord(s, w, d)
  BY DEF ReadStep
<1> QED BY <1>2, <1>3, <1>4

LEMMA ReadLoop ==
  ASSUME NEW words \in Seq(Texts), NEW d \in Byte
  PROVE  ReadLiteral(words, d) = LoopOf(Opened, ReadStep(d), words)
<1> DEFINE n == Len(words)
           step == ReadStep(d)
           IsRead(r) == r = [i \in 0 .. n |->
                               IF i = 0 THEN Opened ELSE ReadWord(r[i - 1], words[i], d)]
           read == CHOOSE r : IsRead(r)
<1>1. n \in Nat /\ \A i \in 1 .. n : words[i] \in Texts
  OBVIOUS
<1>2. /\ step \in [States \X Texts -> States] /\ Opened \in States
      /\ \A s \in States, w \in Texts : step[<<s, w>>] = ReadWord(s, w, d)
  BY ReadStepTyped
<1> HIDE DEF step
<1>3. PICK g \in [0 .. n -> States] : IsLoop(Opened, step, words, g)
  BY <1>2, LoopExists
<1>4. IsRead(g)
  <2>1. ASSUME NEW i \in 0 .. n, i # 0
        PROVE  step[<<g[i - 1], words[i]>>] = ReadWord(g[i - 1], words[i], d)
    <3>1. i - 1 \in 0 .. n /\ i \in 1 .. n
      BY <1>1, <2>1
    <3> QED BY <1>1, <1>2, <3>1
  <2>2. g = [i \in 0 .. n |-> IF i = 0 THEN Opened ELSE step[<<g[i - 1], words[i]>>]]
    BY <1>3 DEF IsLoop
  <2> QED BY <2>1, <2>2
<1>5. IsRead(read)
  <2> HIDE DEF IsRead
  <2> QED BY <1>4
<1>6. ReadLiteral(words, d) = read[n]
  BY DEF ReadLiteral
<1> HIDE DEF read
<1>7. TakesSteps(States, Opened, step, words, read)
  <2>1. read[0] = Opened /\ \A i \in 1 .. n : read[i] = ReadWord(read[i - 1], words[i], d)
    <3>1. 0 \in 0 .. n /\ \A i \in 1 .. n : i \in 0 .. n /\ i # 0
      BY <1>1
    <3> QED BY <1>5, <3>1
  <2> QED BY <1>1, <1>2, <2>1 DEF TakesSteps
<1>8. read[n] = LoopOf(Opened, step, words) /\ read[n] \in States
  BY <1>2, <1>7, LoopIs, Zenon
<1> QED BY <1>6, <1>8 DEF step

\* What one more word makes of the literal that was read before it.
LEMMA ReadAppend ==
  ASSUME NEW words \in Seq(Texts), NEW w \in Texts, NEW d \in Byte
  PROVE  /\ ReadLiteral(<<>>, d) = Opened
         /\ ReadLiteral(words, d) \in States
         /\ ReadLiteral(Append(words, w), d) = ReadWord(ReadLiteral(words, d), w, d)
<1> DEFINE step == ReadStep(d)
<1>1. step \in [States \X Texts -> States]
  BY ReadStepTyped
<1>2. Opened \in States /\ \A s \in States : step[<<s, w>>] = ReadWord(s, w, d)
  BY ReadStepTyped
<1>3. \A s \in Seq(Texts) : ReadLiteral(s, d) = LoopOf(Opened, step, s)
  BY ReadLoop
<1> HIDE DEF step
<1>4. LoopOf(Opened, step, <<>>) = Opened
  BY <1>1, <1>2, LoopEmpty
<1>5. LoopOf(Opened, step, words) \in States /\ LoopsOn(Opened, step, words, w)
  BY <1>1, <1>2, LoopAppend, Zenon
<1>6. <<>> \in Seq(Texts) /\ Append(words, w) \in Seq(Texts)
  BY AppendProperties, EmptySeq
<1> QED BY <1>2, <1>3, <1>4, <1>5, <1>6, Zenon DEF LoopsOn

-----------------------------------------------------------------------------
(* The escape of a character reads as that character *)

Delimiter(in_string) == IF in_string THEN Quote ELSE Apostrophe

\* The bytes b have been read, and no escape goes on: the last may be an octal one
\* that takes no more digits.
Plainly(s, b) == s \in States /\ s.mode = "plain" /\ s.bytes = b /\ s.rest = <<>>
Ready(s, b) == /\ s \in States
               /\ s.mode = "plain" \/ (s.mode = "octal" /\ s.count = 3)
               /\ Plainly(EndEscape(s), b)
Escaping(s, b) == s \in States /\ s.mode = "escape" /\ s.bytes = b /\ s.rest = <<>>
Counting(s, b, value, count) ==
  /\ s \in States /\ s.mode = "octal" /\ s.bytes = b /\ s.rest = <<>>
  /\ s.value = value /\ s.count = count

LEMMA PlainlyReady ==
  ASSUME NEW s, NEW b, Plainly(s, b)
  PROVE  Ready(s, b)
BY DEF Plainly, Ready, EndEscape

LEMMA ReadyWord ==
  ASSUME NEW s, NEW b, Ready(s, b), NEW c \in Byte, NEW d \in Byte
  PROVE  ReadWord(s, Char[c], d) = ReadPlain(EndEscape(s), c, d)
<1>1. Code(Char[c]) = c
  BY CodeOf
<1>2. s.mode # "done" /\ s.mode # "escape" /\ ~(s.mode = "octal" /\ s.count < 3)
  BY DEF Ready
<1> QED BY <1>1, <1>2, Zenon DEF ReadWord

\* A character that stands for itself.
LEMMA ReadItself ==
  ASSUME NEW s, NEW b \in Seq(Byte), Ready(s, b), NEW c \in Byte, NEW d \in Byte,
         c # d, c # Backslash
  PROVE  Ready(ReadWord(s, Char[c], d), Append(b, c))
<1> DEFINE p == EndEscape(s)
<1>1. Plainly(p, b)
  BY DEF Ready
<1>2. ReadWord(s, Char[c], d) = ReadPlain(p, c, d)
  BY ReadyWord
<1> HIDE DEF p
<1>3. ReadPlain(p, c, d) = [p EXCEPT !.bytes = Append(p.bytes, c)]
  BY DEF ReadPlain
<1>4. ReadWord(s, Char[c], d) \in States
  BY CodeOf, ReadWordTyped DEF Ready
<1>5. Plainly(ReadWord(s, Char[c], d), Append(b, c))
  BY <1>1, <1>2, <1>3, <1>4 DEF Plainly, States
<1> QED BY <1>5, PlainlyReady

LEMMA ReadBackslash ==
  ASSUME NEW s, NEW b \in Seq(Byte), Ready(s, b), NEW d \in Byte, d # Backslash
  PROVE  Escaping(ReadWord(s, Char[Backslash], d), b)
<1> DEFINE p == EndEscape(s)
<1>1. Plainly(p, b) /\ Backslash \in Byte
  BY DEF Ready, Backslash, Byte
<1>2. ReadWord(s, Char[Backslash], d) = ReadPlain(p, Backslash, d)
  BY <1>1, ReadyWord
<1> HIDE DEF p
<1>3. ReadPlain(p, Backslash, d) = [p EXCEPT !.mode = "escape"]
  BY DEF ReadPlain
<1>4. ReadWord(s, Char[Backslash], d) \in States
  BY <1>1, CodeOf, ReadWordTyped DEF Ready
<1> QED BY <1>1, <1>2, <1>3, <1>4 DEF Plainly, Escaping, States

LEMMA ReadNamed ==
  ASSUME NEW s, NEW b \in Seq(Byte), Escaping(s, b), NEW c \in Byte, NEW d \in Byte,
         c \notin OctalDigits
  PROVE  Ready(ReadWord(s, Char[c], d), Append(b, Named(c)))
<1>1. Code(Char[c]) = c
  BY CodeOf
<1>2. ReadWord(s, Char[c], d) = [s EXCEPT !.mode = "plain", !.bytes = Append(s.bytes, Named(c))]
  BY <1>1 DEF ReadWord, Escaping
<1>3. ReadWord(s, Char[c], d) \in States
  BY CodeOf, ReadWordTyped DEF Escaping
<1>4. Plainly(ReadWord(s, Char[c], d), Append(b, Named(c)))
  BY <1>2, <1>3 DEF Plainly, Escaping, States
<1> QED BY <1>4, PlainlyReady

LEMMA ReadFirstDigit ==
  ASSUME NEW s, NEW b \in Seq(Byte), Escaping(s, b), NEW k \in 0 .. 7, NEW d \in Byte
  PROVE  Counting(ReadWord(s, Char[Digit(k)], d), b, k, 1)
<1> DEFINE c == Digit(k)
<1>1. c \in Byte /\ c \in OctalDigits /\ c - Digit(0) = k
  BY DEF Digit, Byte, OctalDigits
<1> HIDE DEF c
<1>2. Code(Char[c]) = c
  BY <1>1, CodeOf
<1>3. ReadWord(s, Char[c], d) = [s EXCEPT !.mode = "octal", !.value = k, !.count = 1]
  BY <1>1, <1>2 DEF ReadWord, Escaping
<1>4. ReadWord(s, Char[c], d) \in States
  BY <1>1, CodeOf, ReadWordTyped DEF Escaping
<1>5. Counting(ReadWord(s, Char[c], d), b, k, 1)
  BY <1>3, <1>4 DEF Counting, Escaping, States
<1> QED BY <1>5 DEF c

LEMMA ReadNextDigit ==
  ASSUME NEW s, NEW b \in Seq(Byte), NEW v \in Nat, NEW n \in Nat, n < 3,
         Counting(s, b, v, n), NEW k \in 0 .. 7, NEW d \in Byte
  PROVE  Counting(ReadWord(s, Char[Digit(k)], d), b, 8 * v + k, n + 1)
<1> DEFINE c == Digit(k)
<1>1. c \in Byte /\ c \in OctalDigits /\ c - Digit(0) = k
  BY DEF Digit, Byte, OctalDigits
<1> HIDE DEF c
<1>2. Code(Char[c]) = c
  BY <1>1, CodeOf
<1>3. ReadWord(s, Char[c], d) = [s EXCEPT !.value = 8 * s.value + k, !.count = s.count + 1]
  BY <1>1, <1>2 DEF ReadWord, Counting
<1>4. ReadWord(s, Char[c], d) \in States
  BY <1>1, CodeOf, ReadWordTyped DEF Counting
<1>5. Counting(ReadWord(s, Char[c], d), b, 8 * v + k, n + 1)
  BY <1>3, <1>4 DEF Counting, States
<1> QED BY <1>5 DEF c

LEMMA CountedReady ==
  ASSUME NEW s, NEW b \in Seq(Byte), NEW v \in Nat, Counting(s, b, v, 3)
  PROVE  Ready(s, Append(b, v))
<1>1. EndEscape(s) = [s EXCEPT !.mode = "plain", !.bytes = Append(s.bytes, s.value)]
  BY DEF EndEscape, Counting
<1>2. s \in States /\ EndEscape(s) \in States
  BY EndEscapeTyped DEF Counting
<1>3. Plainly(EndEscape(s), Append(b, v))
  BY <1>1, <1>2 DEF Plainly, Counting, States
<1> QED BY <1>2, <1>3 DEF Ready, Counting

LEMMA OctalValue ==
  ASSUME NEW c \in Byte
  PROVE  /\ c \div 64 \in 0 .. 7 /\ (c \div 8) % 8 \in 0 .. 7 /\ c % 8 \in 0 .. 7
         /\ 8 * (8 * (c \div 64) + ((c \div 8) % 8)) + (c % 8) = c
<1>1. c \in 0 .. 255
  BY DEF Byte
<1>2. PICK q \in Nat, r \in 0 .. 7 : c = 8 * q + r
  <2>1. c = 8 * (c \div 8) + (c % 8) /\ c \div 8 \in Nat /\ c % 8 \in 0 .. 7
    BY <1>1
  <2> QED BY <2>1
<1>3. PICK u \in Nat, v \in 0 .. 7 : q = 8 * u + v
  <2>1. q = 8 * (q \div 8) + (q % 8) /\ q \div 8 \in Nat /\ q % 8 \in 0 .. 7
    OBVIOUS
  <2> QED BY <2>1
<1>4. c \div 8 = q /\ c % 8 = r
  BY <1>1, <1>2
<1>5. q % 8 = v
  BY <1>3
<1>6. c = 64 * u + (8 * v + r) /\ 8 * v + r \in 0 .. 63 /\ u \in 0 .. 3
  BY <1>1, <1>2, <1>3
<1>7. c \div 64 = u
  BY <1>6
<1> QED BY <1>2, <1>3, <1>4, <1>5, <1>6, <1>7

\* What the escape of one character adds to a literal is that character.
LEMMA ReadEscape ==
  ASSUME NEW words \in Seq(Texts), NEW b \in Seq(Byte), NEW c \in Byte,
         NEW in_string \in BOOLEAN,
         Ready(ReadLiteral(words, Delimiter(in_string)), b)
  PROVE  Ready(ReadLiteral(words \o Written(append_escaped(c, in_string)),
                           Delimiter(in_string)), Append(b, c))
<1> DEFINE d == Delimiter(in_string)
           s == ReadLiteral(words, d)
           e == append_escaped(c, in_string)
<1> SUFFICES Ready(ReadLiteral(words \o Written(e), d), Append(b, c))
  OBVIOUS
<1>1. d \in Byte /\ d # Backslash /\ d \notin OctalDigits /\ Backslash \in Byte
  BY DEF Delimiter, Quote, Apostrophe, Backslash, Byte, OctalDigits, Digit
<1>2. Ready(s, b)
  OBVIOUS
<1>3. ASSUME NEW w \in Seq(Texts), NEW x \in Byte
      PROVE  ReadLiteral(Append(w, Char[x]), d) = ReadWord(ReadLiteral(w, d), Char[x], d)
  BY <1>1, CodeOf, ReadAppend
<1>4. ASSUME NEW x \in Byte, x \notin OctalDigits, Named(x) = c, e = <<Backslash, x>>
      PROVE  Ready(ReadLiteral(words \o Written(e), d), Append(b, c))
  <2> DEFINE w == Append(words, Char[Backslash])
  <2>1. words \o Written(e) = Append(w, Char[x])
    <3>1. DOMAIN <<Backslash, x>> = 1 .. 2
      OBVIOUS
    <3>2. Written(e) = <<Char[Backslash], Char[x]>>
      BY <1>4, <3>1 DEF Written
    <3>3. Char[Backslash] \in Texts /\ Char[x] \in Texts
      BY <1>1, CodeOf
    <3> HIDE DEF e
    <3> QED BY <3>2, <3>3
  <2>2. w \in Seq(Texts)
    BY <1>1, CodeOf, AppendProperties
  <2>3. Escaping(ReadLiteral(w, d), b)
    BY <1>1, <1>2, <1>3, ReadBackslash
  <2> HIDE DEF w
  <2>4. Ready(ReadWord(ReadLiteral(w, d), Char[x], d), Append(b, Named(x)))
    BY <1>1, <1>4, <2>3, ReadNamed
  <2>5. ReadLiteral(Append(w, Char[x]), d) = ReadWord(ReadLiteral(w, d), Char[x], d)
    BY <1>3, <2>2
  <2> HIDE DEF d, e
  <2> QED BY <1>4, <2>1, <2>4, <2>5
<1>5. CASE c = Newline
  <2>1. e = <<Backslash, 110>>
    BY <1>5 DEF append_escaped, Newline, Tab, Return, Backslash, Quote, Apostrophe
  <2>2. 110 \in Byte /\ 110 \notin OctalDigits /\ Named(110) = c
    BY <1>5 DEF Byte, OctalDigits, Digit, Named
  <2> HIDE DEF d, e
  <2> QED BY <1>4, <2>1, <2>2
<1>6. CASE c = Tab
  <2>1. c # Newline
    BY <1>6 DEF Tab, Newline
  <2>2. e = <<Backslash, 116>>
    BY <1>6 DEF append_escaped, Newline, Tab, Return, Backslash, Quote, Apostrophe
  <2>3. 116 \in Byte /\ 116 \notin OctalDigits /\ Named(116) = c
    BY <1>6 DEF Byte, OctalDigits, Digit, Named
  <2> HIDE DEF d, e
  <2> QED BY <1>4, <2>2, <2>3
<1>7. CASE c = Return
  <2>1. c # Newline /\ c # Tab
    BY <1>7 DEF Tab, Newline, Return
  <2>2. e = <<Backslash, 114>>
    BY <1>7 DEF append_escaped, Newline, Tab, Return, Backslash, Quote, Apostrophe
  <2>3. 114 \in Byte /\ 114 \notin OctalDigits /\ Named(114) = c
    BY <1>7 DEF Byte, OctalDigits, Digit, Named
  <2> HIDE DEF d, e
  <2> QED BY <1>4, <2>2, <2>3
<1>8. CASE c = Backslash
  <2>1. /\ e = <<Backslash, Backslash>> /\ Backslash \notin OctalDigits
        /\ Named(Backslash) = c
    BY <1>8 DEF append_escaped, OctalDigits, Digit, Named, Tab, Newline, Return, Backslash
  <2> HIDE DEF d, e
  <2> QED BY <1>1, <1>4, <2>1
<1>9. CASE c = d
  <2>1. e = <<Backslash, c>> /\ c \notin OctalDigits /\ Named(c) = c
    BY <1>9 DEF append_escaped, OctalDigits, Digit, Named, Tab, Newline, Return, Backslash,
                Delimiter, Quote, Apostrophe
  <2> HIDE DEF d, e
  <2> QED BY <1>4, <2>1
<1> DEFINE others == c \notin {Newline, Tab, Return, Backslash, d}
<1>10. CASE others /\ c \in 32 .. 126
  <2>1. e = <<c>>
    BY <1>10 DEF append_escaped, Delimiter
  <2>2. words \o Written(e) = Append(words, Char[c])
    <3>1. Char[c] \in Texts
      BY CodeOf
    <3>2. Written(e) = <<Char[c]>>
      BY <2>1, WrittenOne
    <3> HIDE DEF e
    <3> QED BY <3>1, <3>2
  <2>3. Ready(ReadWord(s, Char[c], d), Append(b, c))
    BY <1>1, <1>2, <1>10, ReadItself
  <2>4. ReadLiteral(Append(words, Char[c]), d) = ReadWord(s, Char[c], d)
    BY <1>3
  <2> HIDE DEF d, e, s
  <2> QED BY <2>2, <2>3, <2>4
<1>11. CASE others /\ c \notin 32 .. 126
  <2> DEFINE k1 == c \div 64
             k2 == (c \div 8) % 8
             k3 == c % 8
             x0 == Char[Backslash]
             x1 == Char[Digit(k1)]
             x2 == Char[Digit(k2)]
             x3 == Char[Digit(k3)]
             w1 == Append(words, x0)
             w2 == Append(w1, x1)
             w3 == Append(w2, x2)
             w4 == Append(w3, x3)
  <2>1. /\ k1 \in 0 .. 7 /\ k2 \in 0 .. 7 /\ k3 \in 0 .. 7
        /\ 8 * (8 * k1 + k2) + k3 = c
    BY OctalValue
  <2>2. e = <<Backslash>> \o Octal(c)
    BY <1>11, Zenon DEF append_escaped, Delimiter
  <2>3. Octal(c) = <<Digit(k1), Digit(k2), Digit(k3)>>
    BY DEF Octal
  <2> HIDE DEF k1, k2, k3
  <2>4. \A k \in 0 .. 7 : Digit(k) \in Byte
    BY DEF Digit, Byte
  <2>5. x0 \in Texts /\ x1 \in Texts /\ x2 \in Texts /\ x3 \in Texts
    BY <1>1, <2>1, <2>4, CodeOf
  <2>6. words \o Written(e) = w4
    <3>1. e = <<Backslash, Digit(k1), Digit(k2), Digit(k3)>>
      <4>1. ASSUME NEW a \in Byte, NEW u \in Byte, NEW v \in Byte, NEW w \in Byte
            PROVE  <<a>> \o <<u, v, w>> = <<a, u, v, w>>
        <5> DEFINE l == <<a>> \o <<u, v, w>>
                   r == <<a, u, v, w>>
        <5>1. l \in Seq(Byte) /\ Len(l) = 4 /\ r \in Seq(Byte) /\ Len(r) = 4
          OBVIOUS
        <5>2. /\ l[1] = a /\ l[2] = u /\ l[3] = v /\ l[4] = w
              /\ r[1] = a /\ r[2] = u /\ r[3] = v /\ r[4] = w
          OBVIOUS
        <5> HIDE DEF l, r
        <5>3. \A i \in 1 .. Len(l) : l[i] = r[i]
          BY <5>1, <5>2
        <5>4. l = r
          BY <5>1, <5>3, SeqEqual
        <5> QED BY <5>4 DEF l, r
      <4>2. Digit(k1) \in Byte /\ Digit(k2) \in Byte /\ Digit(k3) \in Byte
        BY <2>1, <2>4
      <4>3. <<Backslash>> \o <<Digit(k1), Digit(k2), Digit(k3)>>
              = <<Backslash, Digit(k1), Digit(k2), Digit(k3)>>
        BY <1>1, <4>1, <4>2
      <4> HIDE DEF e
      <4> QED BY <2>2, <2>3, <4>3, Zenon
    <3>2. DOMAIN <<Backslash, Digit(k1), Digit(k2), Digit(k3)>> = 1 .. 4
      OBVIOUS
    <3>3. Written(e) = <<x0, x1, x2, x3>>
      BY <3>1, <3>2 DEF Written
    <3> HIDE DEF e, x0, x1, x2, x3
    <3> QED BY <2>5, <3>3
  <2>7. w1 \in Seq(Texts) /\ w2 \in Seq(Texts) /\ w3 \in Seq(Texts)
    <3> HIDE DEF x0, x1, x2
    <3> QED BY <2>5, AppendProperties
  <2>8. Escaping(ReadLiteral(w1, d), b)
    BY <1>1, <1>2, <1>3, ReadBackslash
  <2>9. Counting(ReadLiteral(w2, d), b, k1, 1)
    <3> HIDE DEF w1
    <3>1. ReadLiteral(w2, d) = ReadWord(ReadLiteral(w1, d), x1, d)
      BY <1>3, <2>1, <2>4, <2>7
    <3>2. Counting(ReadWord(ReadLiteral(w1, d), x1, d), b, k1, 1)
      BY <1>1, <2>1, <2>8, ReadFirstDigit
    <3> HIDE DEF d, w2
    <3> QED BY <3>1, <3>2
  <2>10. Counting(ReadLiteral(w3, d), b, 8 * k1 + k2, 2)
    <3> HIDE DEF w2
    <3>1. ReadLiteral(w3, d) = ReadWord(ReadLiteral(w2, d), x2, d)
      BY <1>3, <2>1, <2>4, <2>7
    <3>2. k1 \in Nat /\ 1 \in Nat /\ 1 < 3 /\ 1 + 1 = 2
      BY <2>1
    <3>3. Counting(ReadWord(ReadLiteral(w2, d), x2, d), b, 8 * k1 + k2, 1 + 1)
      BY <1>1, <2>1, <2>9, <3>2, ReadNextDigit
    <3> HIDE DEF d, w3
    <3> QED BY <3>1, <3>2, <3>3
  <2>11. Counting(ReadLiteral(w4, d), b, c, 3)
    <3> HIDE DEF w3
    <3>1. ReadLiteral(w4, d) = ReadWord(ReadLiteral(w3, d), x3, d)
      BY <1>3, <2>1, <2>4, <2>7
    <3>2. 8 * k1 + k2 \in Nat /\ 2 \in Nat /\ 2 < 3 /\ 2 + 1 = 3
      BY <2>1
    <3>3. Counting(ReadWord(ReadLiteral(w3, d), x3, d), b, 8 * (8 * k1 + k2) + k3, 2 + 1)
      BY <1>1, <2>1, <2>10, <3>2, ReadNextDigit
    <3> HIDE DEF d, w4
    <3> QED BY <2>1, <3>1, <3>2, <3>3
  <2>12. c \in Nat
    BY DEF Byte
  <2> HIDE DEF d, e, w4
  <2> QED BY <2>6, <2>11, <2>12, CountedReady
<1> HIDE DEF d, e
<1> QED BY <1>5, <1>6, <1>7, <1>8, <1>9, <1>10, <1>11, Zenon DEF d, e

-----------------------------------------------------------------------------
(* Whole literals *)

LEMMA ReadEscaped ==
  ASSUME NEW s \in Seq(Byte)
  PROVE  Ready(ReadLiteral(Written(Escaped(s)), Quote), s)
<1> DEFINE P == {t \in Seq(Byte) : Ready(ReadLiteral(Written(Escaped(t)), Quote), t)}
<1>1. Quote \in Byte /\ Delimiter(TRUE) = Quote
  BY DEF Quote, Byte, Delimiter
<1>2. <<>> \in P
  <2>1. 0 \in Byte /\ <<>> \in Seq(Byte)
    BY EmptySeq DEF Byte
  <2>2. Escaped(<<>>) = <<>>
    BY <2>1, EscapedAppend
  <2>3. Written(<<>>) = <<>>
    <3>1. Written(<<>>) \in Seq(Texts) /\ Len(Written(<<>>)) = 0
      BY <2>1, EmptySeq, WrittenTyped
    <3> QED BY <3>1, EmptySeq
  <2>4. Char[0] \in Texts /\ <<>> \in Seq(Texts)
    BY <2>1, CodeOf, EmptySeq
  <2>5. ReadLiteral(<<>>, Quote) = Opened /\ Opened \in States
    BY <1>1, <2>4, ReadAppend, ReadStepTyped
  <2>6. Plainly(Opened, <<>>)
    BY <2>5 DEF Plainly, Opened
  <2>7. Ready(Opened, <<>>)
    BY <2>6, PlainlyReady
  <2> QED BY <2>1, <2>2, <2>3, <2>5, <2>7
<1>3. ASSUME NEW t \in P, NEW c \in Byte PROVE Append(t, c) \in P
  <2>1. t \in Seq(Byte) /\ Ready(ReadLiteral(Written(Escaped(t)), Delimiter(TRUE)), t)
    BY <1>1
  <2>2. Append(t, c) \in Seq(Byte)
    BY <2>1, AppendProperties
  <2>3. /\ Escaped(t) \in Seq(Byte)
        /\ Escaped(Append(t, c)) = Escaped(t) \o append_escaped(c, TRUE)
    BY <2>1, EscapedAppend
  <2>4. Written(Escaped(Append(t, c))) = Written(Escaped(t)) \o Written(append_escaped(c, TRUE))
    BY <2>3, EscapeTyped, WrittenJoined
  <2>5. Written(Escaped(t)) \in Seq(Texts)
    BY <2>3, WrittenTyped
  <2>6. Ready(ReadLiteral(Written(Escaped(t)) \o Written(append_escaped(c, TRUE)),
                          Delimiter(TRUE)), Append(t, c))
    BY <2>1, <2>5, ReadEscape
  <2> QED BY <1>1, <2>2, <2>4, <2>6
<1>4. P = Seq(Byte)
  <2> HIDE DEF P
  <2>1. P \in SUBSET Seq(Byte)
    BY DEF P
  <2>2. \A t \in P : \A c \in Byte : Append(t, c) \in P
    BY <1>3
  <2> QED BY <1>2, <2>1, <2>2, SeqInduction, Zenon
<1> QED BY <1>4

\* Behind the closing delimiter nothing is read.
Closed(s, b, rest) == s \in States /\ s.mode = "done" /\ s.bytes = b /\ s.rest = rest

LEMMA ReadClosed ==
  ASSUME NEW words \in Seq(Texts), NEW b \in Seq(Byte), NEW d \in Byte, d # Backslash,
         Ready(ReadLiteral(words, d), b), NEW rest \in Seq(Texts)
  PROVE  Closed(ReadLiteral(Append(words, Char[d]) \o rest, d), b, rest)
<1> DEFINE closed == Append(words, Char[d])
           P == {t \in Seq(Texts) : Closed(ReadLiteral(closed \o t, d), b, t)}
<1>1. closed \in Seq(Texts) /\ Char[d] \in Texts
  BY CodeOf, AppendProperties
<1>2. Closed(ReadLiteral(closed, d), b, <<>>)
  <2> DEFINE s == ReadLiteral(words, d)
             p == EndEscape(s)
  <2>1. ReadLiteral(closed, d) = ReadWord(s, Char[d], d) /\ s \in States
    BY <1>1, ReadAppend
  <2>2. ReadWord(s, Char[d], d) = ReadPlain(p, d, d) /\ ReadWord(s, Char[d], d) \in States
    BY <1>1, <2>1, ReadyWord, ReadWordTyped
  <2>3. Plainly(p, b)
    BY DEF Ready
  <2> HIDE DEF p, s, closed
  <2>4. ReadPlain(p, d, d) = [p EXCEPT !.mode = "done"]
    BY DEF ReadPlain
  <2> QED BY <2>1, <2>2, <2>3, <2>4 DEF Plainly, Closed, States
<1> HIDE DEF closed
<1>3. <<>> \in P
  <2>1. closed \o <<>> = closed /\ <<>> \in Seq(Texts)
    BY <1>1, ConcatEmptySeq, EmptySeq
  <2> QED BY <1>2, <2>1
<1>4. ASSUME NEW t \in P, NEW w \in Texts PROVE Append(t, w) \in P
  <2> DEFINE s == ReadLiteral(closed \o t, d)
  <2>1. t \in Seq(Texts) /\ Closed(s, b, t)
    OBVIOUS
  <2>2. /\ closed \o t \in Seq(Texts) /\ Append(t, w) \in Seq(Texts)
        /\ closed \o Append(t, w) = Append(closed \o t, w)
    BY <1>1, <2>1
  <2>3. ReadLiteral(closed \o Append(t, w), d) = ReadWord(s, w, d)
    <3>1. ReadLiteral(Append(closed \o t, w), d) = ReadWord(s, w, d)
      BY <2>2, ReadAppend
    <3> QED BY <2>2, <3>1, Zenon
  <2>4. ReadWord(s, w, d) \in States
    BY <2>1, ReadWordTyped DEF Closed
  <2> HIDE DEF s
  <2>5. ReadWord(s, w, d) = [s EXCEPT !.rest = Append(s.rest, w)]
    BY <2>1 DEF ReadWord, Closed
  <2>6. Closed(ReadWord(s, w, d), b, Append(t, w))
    BY <2>1, <2>4, <2>5 DEF Closed, States
  <2> QED BY <2>2, <2>3, <2>6
<1>5. P = Seq(Texts)
  <2> HIDE DEF P
  <2>1. P \in SUBSET Seq(Texts)
    BY DEF P
  <2>2. \A t \in P : \A w \in Texts : Append(t, w) \in P
    BY <1>4
  <2> QED BY <1>3, <2>1, <2>2, SeqInduction, Zenon
<1> QED BY <1>5 DEF closed

\* A character literal is the character.
LEMMA CharReadsBack ==
  ASSUME NEW c \in Byte
  PROVE  LET read == ReadLiteral(Tail(CharText(c)), Apostrophe)
         IN  read.mode = "done" /\ read.bytes = <<c>>
<1> DEFINE e == append_escaped(c, FALSE)
           q == Char[Apostrophe]
<1>1. Apostrophe \in Byte /\ Delimiter(FALSE) = Apostrophe /\ Apostrophe # Backslash
  BY DEF Apostrophe, Byte, Delimiter, Backslash
<1>2. e \in Seq(Byte)
  BY EscapeTyped
<1>3. Written(e) \in Seq(Texts) /\ q \in Texts
  BY <1>1, <1>2, CodeOf, WrittenTyped
<1>4. CharText(c) = (<<q>> \o Written(e)) \o <<q>>
  <2> HIDE DEF e
  <2>1. <<Apostrophe>> \in Seq(Byte) /\ <<Apostrophe>> \o e \in Seq(Byte)
    BY <1>1, <1>2
  <2>2. Written(<<Apostrophe>> \o e \o <<Apostrophe>>)
          = Written(<<Apostrophe>> \o e) \o Written(<<Apostrophe>>)
    BY <2>1, WrittenJoined
  <2>3. Written(<<Apostrophe>> \o e) = Written(<<Apostrophe>>) \o Written(e)
    BY <1>2, <2>1, WrittenJoined
  <2>4. Written(<<Apostrophe>>) = <<q>>
    BY <1>1, WrittenOne
  <2> QED BY <2>2, <2>3, <2>4, Zenon DEF CharText, e
<1>5. Tail(CharText(c)) = Append(Written(e), q) \o <<>>
  <2> DEFINE w == Written(e)
             l == (<<q>> \o w) \o <<q>>
  <2>1. w \in Seq(Texts) /\ q \in Texts
    BY <1>3
  <2> HIDE DEF w, q
  <2>2. /\ l \in Seq(Texts) /\ Len(l) = Len(w) + 2 /\ Len(w) \in Nat
        /\ \A i \in 1 .. Len(w) : l[i + 1] = w[i]
        /\ l[Len(w) + 2] = q
    BY <2>1
  <2>3. /\ Append(w, q) \in Seq(Texts) /\ Len(Append(w, q)) = Len(w) + 1
        /\ \A i \in 1 .. Len(w) : Append(w, q)[i] = w[i]
        /\ Append(w, q)[Len(w) + 1] = q
    BY <2>1
  <2> HIDE DEF l
  <2>4. /\ Tail(l) \in Seq(Texts) /\ Len(Tail(l)) = Len(w) + 1
        /\ \A i \in 1 .. Len(w) + 1 : Tail(l)[i] = l[i + 1]
    BY <2>2
  <2>5. \A i \in 1 .. Len(Tail(l)) : Tail(l)[i] = Append(w, q)[i]
    <3> TAKE i \in 1 .. Len(Tail(l))
    <3>1. i \in 1 .. Len(w) \/ i = Len(w) + 1
      BY <2>2, <2>4
    <3>2. CASE i \in 1 .. Len(w)
      BY <2>2, <2>3, <2>4, <3>2
    <3>3. CASE i = Len(w) + 1
      <4>1. i + 1 = Len(w) + 2 /\ i \in 1 .. Len(w) + 1
        BY <2>2, <3>3
      <4> QED BY <2>2, <2>3, <2>4, <3>3, <4>1
    <3> QED BY <3>1, <3>2, <3>3
  <2>6. Tail(l) = Append(w, q)
    BY <2>3, <2>4, <2>5, SeqEqual
  <2>7. Append(w, q) \o <<>> = Append(w, q)
    BY <2>3, ConcatEmptySeq
  <2> QED BY <1>4, <2>6, <2>7 DEF l, w
<1>6. Ready(ReadLiteral(Written(e), Apostrophe), Append(<<>>, c))
  <2>1. /\ <<>> \in Seq(Texts) /\ <<>> \in Seq(Byte)
        /\ ReadLiteral(<<>>, Apostrophe) = Opened /\ Opened \in States
    BY <1>1, <1>3, EmptySeq, ReadAppend, ReadStepTyped
  <2>2. Ready(Opened, <<>>)
    BY <2>1, PlainlyReady DEF Plainly, Opened
  <2>3. Ready(ReadLiteral(<<>> \o Written(e), Apostrophe), Append(<<>>, c))
    BY <1>1, <2>1, <2>2, ReadEscape
  <2>4. <<>> \o Written(e) = Written(e)
    BY <1>3, ConcatEmptySeq
  <2> QED BY <2>3, <2>4
<1>7. Append(<<>>, c) = <<c>> /\ <<c>> \in Seq(Byte) /\ <<>> \in Seq(Texts)
  OBVIOUS
<1>8. Closed(ReadLiteral(Append(Written(e), q) \o <<>>, Apostrophe), <<c>>, <<>>)
  BY <1>1, <1>3, <1>6, <1>7, ReadClosed
<1> QED BY <1>5, <1>8 DEF Closed

-----------------------------------------------------------------------------
(* Decimal numbers *)

Figures == Digit(0) .. Digit(9)

IsDigits(n, g) ==
  g = [k \in 0 .. n |-> IF k < 10 THEN <<Digit(k)>> ELSE Append(g[k \div 10], Digit(k % 10))]

DigitAt(g, k) == IF k < 10 THEN <<Digit(k)>> ELSE Append(g[k \div 10], Digit(k % 10))

LEMMA DigitsAt ==
  ASSUME NEW n \in Nat, NEW g, IsDigits(n, g), NEW k \in 0 .. n
  PROVE  g[k] = DigitAt(g, k)
<1> DEFINE F == [j \in 0 .. n |-> DigitAt(g, j)]
<1>1. g = F
  BY Zenon DEF IsDigits, DigitAt
<1>2. F[k] = DigitAt(g, k)
  OBVIOUS
<1> HIDE DEF F
<1> QED BY <1>1, <1>2, Zenon

LEMMA TenthIsLess ==
  ASSUME NEW k \in Nat, k >= 10
  PROVE  k \div 10 \in Nat /\ k \div 10 < k /\ k \div 10 >= 1 /\ k % 10 \in 0 .. 9
         /\ k = 10 * (k \div 10) + (k % 10)
OBVIOUS

LEMMA FigureTyped ==
  ASSUME NEW k \in 0 .. 9
  PROVE  Digit(k) \in Figures /\ Digit(k) \in Byte /\ Digit(k) - Digit(0) = k
BY DEF Digit, Figures, Byte

LEMMA DigitsExist ==
  ASSUME NEW n \in Nat
  PROVE  \E g \in [0 .. n -> Seq(Figures)] : IsDigits(n, g)
<1> DEFINE Good(m, g) == g \in [0 .. m -> Seq(Figures)] /\ IsDigits(m, g)
           P == {m \in Nat : \E g : Good(m, g)}
<1>1. 0 \in P
  <2> DEFINE g == [k \in 0 .. 0 |-> <<Digit(0)>>]
  <2>1. Digit(0) \in Figures
    BY FigureTyped
  <2>2. g \in [0 .. 0 -> Seq(Figures)]
    BY <2>1
  <2>3. \A k \in 0 .. 0 : k = 0 /\ k < 10
    OBVIOUS
  <2>4. IsDigits(0, g)
    BY <2>3 DEF IsDigits
  <2> QED BY <2>2, <2>4
<1>2. ASSUME NEW m \in P PROVE m + 1 \in P
  <2>1. m \in Nat
    OBVIOUS
  <2>2. PICK g : Good(m, g)
    OBVIOUS
  <2> DEFINE At(f, k) == IF k < 10 THEN <<Digit(k)>> ELSE Append(f[k \div 10], Digit(k % 10))
             h == [k \in 0 .. m + 1 |-> IF k = m + 1 THEN At(g, m + 1) ELSE g[k]]
  <2>3. At(g, m + 1) \in Seq(Figures)
    <3>1. CASE m + 1 < 10
      <4>1. m + 1 \in 0 .. 9
        BY <2>1, <3>1
      <4>2. Digit(m + 1) \in Figures
        BY <4>1, FigureTyped
      <4> QED BY <3>1, <4>2
    <3>2. CASE ~(m + 1 < 10)
      <4>1. (m + 1) \div 10 \in 0 .. m /\ (m + 1) % 10 \in 0 .. 9
        BY <2>1, <3>2, TenthIsLess
      <4>2. g[(m + 1) \div 10] \in Seq(Figures) /\ Digit((m + 1) % 10) \in Figures
        BY <2>2, <4>1, FigureTyped
      <4>3. Append(g[(m + 1) \div 10], Digit((m + 1) % 10)) \in Seq(Figures)
        BY <4>2, AppendProperties
      <4> QED BY <3>2, <4>3
    <3> QED BY <3>1, <3>2
  <2>4. \A k \in 0 .. m + 1 : k # m + 1 => k \in 0 .. m
    BY <2>1
  <2>5. h \in [0 .. m + 1 -> Seq(Figures)]
    <3> HIDE DEF At
    <3> QED BY <2>2, <2>3, <2>4
  <2>6. ASSUME NEW k \in 0 .. m + 1 PROVE At(g, k) = At(h, k)
    <3>1. k >= 10 => k \div 10 \in 0 .. m + 1 /\ k \div 10 # m + 1
      BY <2>1, TenthIsLess
    <3>2. k >= 10 => h[k \div 10] = g[k \div 10]
      <4> HIDE DEF At
      <4> QED BY <3>1
    <3>3. k < 10 \/ k >= 10
      BY <2>1
    <3> HIDE DEF h
    <3> QED BY <3>2, <3>3
  <2>7. \A k \in 0 .. m : g[k] = At(g, k)
    BY <2>2 DEF IsDigits
  <2>8. \A k \in 0 .. m + 1 : h[k] = At(g, k)
    <3> HIDE DEF At
    <3> QED BY <2>4, <2>7
  <2>9. h = [k \in 0 .. m + 1 |-> At(h, k)]
    <3>1. h = [k \in 0 .. m + 1 |-> h[k]]
      BY <2>5
    <3> HIDE DEF At, h
    <3> QED BY <2>6, <2>8, <3>1
  <2>10. IsDigits(m + 1, h)
    <3> HIDE DEF h
    <3> QED BY <2>9 DEF IsDigits
  <2>11. Good(m + 1, h)
    <3> HIDE DEF h
    <3> QED BY <2>5, <2>10
  <2> HIDE DEF h, Good
  <2> QED BY <2>1, <2>11
<1>3. P = Nat
  <2> HIDE DEF P
  <2>1. P \in SUBSET Nat
    BY DEF P
  <2> QED BY <1>1, <1>2, <2>1, SetInduction
<1>4. n \in P
  BY <1>3
<1> QED BY <1>4

\* The digits of a number do not depend on how far the function goes.
LEMMA DigitsAgree ==
  ASSUME NEW m \in Nat, NEW n \in Nat, m <= n, NEW f, NEW g, IsDigits(m, f), IsDigits(n, g)
  PROVE  f[m] = g[m]
<1> DEFINE P == {k \in Nat : \A j \in 0 .. k : j <= m => f[j] = g[j]}
<1>1. \A j \in 0 .. m : f[j] = DigitAt(f, j) /\ g[j] = DigitAt(g, j)
  <2>1. \A j \in 0 .. m : j \in 0 .. n
    OBVIOUS
  <2> QED BY <2>1, DigitsAt
<1>2. 0 \in P
  <2>1. DigitAt(f, 0) = DigitAt(g, 0)
    BY DEF DigitAt
  <2>2. 0 \in 0 .. m
    OBVIOUS
  <2>3. f[0] = g[0]
    BY <1>1, <2>1, <2>2, Zenon
  <2> QED BY <2>3
<1>3. ASSUME NEW k \in P PROVE k + 1 \in P
  <2>1. k \in Nat /\ \A j \in 0 .. k : j <= m => f[j] = g[j]
    OBVIOUS
  <2>2. ASSUME NEW j \in 0 .. k + 1, j <= m PROVE f[j] = g[j]
    <3>1. j < 10 \/ (j >= 10 /\ j \div 10 \in 0 .. k /\ j \div 10 <= m)
      BY <2>1, <2>2, TenthIsLess
    <3>2. DigitAt(f, j) = DigitAt(g, j)
      BY <2>1, <3>1 DEF DigitAt
    <3>3. j \in 0 .. m
      BY <2>1, <2>2
    <3> QED BY <1>1, <3>2, <3>3
  <2> QED BY <2>1, <2>2
<1>4. P = Nat
  <2> HIDE DEF P
  <2>1. P \in SUBSET Nat
    BY DEF P
  <2> QED BY <1>2, <1>3, <2>1, SetInduction
<1>5. m \in P
  BY <1>4
<1> QED BY <1>5

LEMMA DecimalUnfolds ==
  ASSUME NEW n \in Nat
  PROVE  /\ Decimal(n) \in Seq(Figures)
         /\ n < 10 => Decimal(n) = <<Digit(n)>>
         /\ n >= 10 => Decimal(n) = Append(Decimal(n \div 10), Digit(n % 10))
<1>1. ASSUME NEW m \in Nat
      PROVE  \E g : IsDigits(m, g) /\ Decimal(m) = g[m] /\ Decimal(m) \in Seq(Figures)
  <2> DEFINE g == CHOOSE h : IsDigits(m, h)
  <2>1. PICK f \in [0 .. m -> Seq(Figures)] : IsDigits(m, f)
    BY DigitsExist
  <2>2. IsDigits(m, g)
    BY <2>1
  <2>3. Decimal(m) = g[m]
    BY DEF Decimal, IsDigits
  <2> HIDE DEF g
  <2>4. f[m] = g[m]
    BY <2>1, <2>2, DigitsAgree
  <2>5. f[m] \in Seq(Figures)
    <3>1. m \in 0 .. m
      OBVIOUS
    <3> QED BY <2>1, <3>1
  <2> QED BY <2>2, <2>3, <2>4, <2>5
<1>2. PICK g : IsDigits(n, g) /\ Decimal(n) = g[n] /\ Decimal(n) \in Seq(Figures)
  BY <1>1
<1>3. g[n] = IF n < 10 THEN <<Digit(n)>> ELSE Append(g[n \div 10], Digit(n % 10))
  BY <1>2, DigitsAt DEF DigitAt
<1>4. CASE n < 10
  BY <1>2, <1>3, <1>4
<1>5. CASE n >= 10
  <2>1. n \div 10 \in Nat /\ n \div 10 <= n
    BY <1>5, TenthIsLess
  <2>2. PICK f : IsDigits(n \div 10, f) /\ Decimal(n \div 10) = f[n \div 10]
    BY <1>1, <2>1
  <2>3. f[n \div 10] = g[n \div 10]
    BY <1>2, <2>1, <2>2, DigitsAgree
  <2> QED BY <1>2, <1>3, <1>5, <2>2, <2>3
<1> QED BY <1>4, <1>5

ValueStep == [p \in Int \X Characters |-> 10 * p[1] + (Code(p[2]) - Digit(0))]

LEMMA ValueStepTyped ==
  /\ ValueStep \in [Int \X Characters -> Int]
  /\ \A v \in Int, w \in Characters : ValueStep[<<v, w>>] = 10 * v + (Code(w) - Digit(0))
<1>1. ASSUME NEW w \in Characters PROVE Code(w) - Digit(0) \in Int
  <2>1. PICK c \in Byte : w = Char[c]
    BY DEF Characters
  <2>2. Code(w) = c
    BY <2>1, CodeOf
  <2> QED BY <2>2 DEF Byte, Digit
<1>2. ASSUME NEW v \in Int, NEW w \in Characters
      PROVE  10 * v + (Code(w) - Digit(0)) \in Int
  <2>1. \A a, b \in Int : 10 * a + b \in Int
    OBVIOUS
  <2> QED BY <1>1, <2>1, Zenon
<1>3. ASSUME NEW p \in Int \X Characters PROVE 10 * p[1] + (Code(p[2]) - Digit(0)) \in Int
  <2>1. p[1] \in Int /\ p[2] \in Characters
    OBVIOUS
  <2> QED BY <1>2, <2>1, Zenon
<1>4. ValueStep \in [Int \X Characters -> Int]
  BY <1>3, Zenon DEF ValueStep
<1>5. ASSUME NEW v \in Int, NEW w \in Characters
      PROVE  ValueStep[<<v, w>>] = 10 * v + (Code(w) - Digit(0))
  BY DEF ValueStep
<1> QED BY <1>4, <1>5

LEMMA ValueLoop ==
  ASSUME NEW words \in Seq(Characters)
  PROVE  ReadDecimal(words) = LoopOf(0, ValueStep, words)
<1> DEFINE n == Len(words)
           IsValue(r) == r = [i \in 0 .. n |->
                                IF i = 0 THEN 0
                                ELSE 10 * r[i - 1] + (Code(words[i]) - Digit(0))]
           value == CHOOSE r : IsValue(r)
<1>1. n \in Nat /\ \A i \in 1 .. n : words[i] \in Characters
  OBVIOUS
<1>2. /\ ValueStep \in [Int \X Characters -> Int] /\ 0 \in Int
      /\ \A v \in Int, w \in Characters : ValueStep[<<v, w>>] = 10 * v + (Code(w) - Digit(0))
  BY ValueStepTyped
<1>3. PICK g \in [0 .. n -> Int] : IsLoop(0, ValueStep, words, g)
  BY <1>2, LoopExists
<1>4. IsValue(g)
  <2>1. ASSUME NEW i \in 0 .. n, i # 0
        PROVE  ValueStep[<<g[i - 1], words[i]>>] = 10 * g[i - 1] + (Code(words[i]) - Digit(0))
    <3>1. i - 1 \in 0 .. n /\ i \in 1 .. n
      BY <1>1, <2>1
    <3>2. g[i - 1] \in Int /\ words[i] \in Characters
      BY <1>1, <3>1
    <3> QED BY <1>2, <3>2, Zenon
  <2>2. g = [i \in 0 .. n |-> IF i = 0 THEN 0 ELSE ValueStep[<<g[i - 1], words[i]>>]]
    BY <1>3 DEF IsLoop
  <2> QED BY <2>1, <2>2, Zenon
<1>5. IsValue(value)
  <2> HIDE DEF IsValue
  <2> QED BY <1>4
<1>6. ReadDecimal(words) = value[n]
  BY DEF ReadDecimal
<1> HIDE DEF value
<1>7. TakesSteps(Int, 0, ValueStep, words, value)
  <2> DEFINE F == [i \in 0 .. n |-> IF i = 0 THEN 0
                                   ELSE 10 * value[i - 1] + (Code(words[i]) - Digit(0))]
  <2>1. value = F
    BY <1>5
  <2>2. 0 \in 0 .. n /\ \A i \in 1 .. n : i \in 0 .. n /\ i # 0
    BY <1>1
  <2>3. F[0] = 0 /\ \A i \in 1 .. n : F[i] = 10 * value[i - 1] + (Code(words[i]) - Digit(0))
    BY <2>2, Zenon
  <2> HIDE DEF F
  <2>4. value[0] = 0
    BY <2>1, <2>3, Zenon
  <2>5. \A i \in 1 .. n : value[i] = 10 * value[i - 1] + (Code(words[i]) - Digit(0))
    BY <2>1, <2>3, Zenon
  <2>6. \A i \in 1 .. n : value[i - 1] \in Int =>
          ValueStep[<<value[i - 1], words[i]>>] = 10 * value[i - 1] + (Code(words[i]) - Digit(0))
    BY <1>1, <1>2, Zenon
  <2>7. \A i \in 1 .. n : value[i - 1] \in Int =>
          value[i] = ValueStep[<<value[i - 1], words[i]>>]
    BY <2>5, <2>6, Zenon
  <2> QED BY <2>4, <2>7, Zenon DEF TakesSteps
<1>8. value[n] = LoopOf(0, ValueStep, words) /\ value[n] \in Int
  BY <1>2, <1>7, LoopIs, Zenon
<1> QED BY <1>6, <1>8

LEMMA ValueAppend ==
  ASSUME NEW words \in Seq(Characters), NEW c \in Byte
  PROVE  /\ ReadDecimal(<<>>) = 0
         /\ ReadDecimal(words) \in Int
         /\ ReadDecimal(Append(words, Char[c])) = 10 * ReadDecimal(words) + (c - Digit(0))
<1> DEFINE w == Char[c]
<1>1. w \in Characters /\ Code(w) = c
  BY CodeOf
<1> HIDE DEF w
<1>2. /\ ValueStep \in [Int \X Characters -> Int] /\ 0 \in Int
      /\ \A v \in Int : ValueStep[<<v, w>>] = 10 * v + (Code(w) - Digit(0))
  BY <1>1, ValueStepTyped
<1>3. \A s \in Seq(Characters) : ReadDecimal(s) = LoopOf(0, ValueStep, s)
  BY ValueLoop
<1>4. LoopOf(0, ValueStep, <<>>) = 0
  BY <1>2, LoopEmpty
<1>5. LoopOf(0, ValueStep, words) \in Int /\ LoopsOn(0, ValueStep, words, w)
  BY <1>1, <1>2, LoopAppend, Zenon
<1>6. <<>> \in Seq(Characters) /\ Append(words, w) \in Seq(Characters)
  BY <1>1, AppendProperties, EmptySeq
<1>7. LoopOf(0, ValueStep, Append(words, w))
        = 10 * LoopOf(0, ValueStep, words) + (Code(w) - Digit(0))
  BY <1>2, <1>5, Zenon DEF LoopsOn
<1>8. ReadDecimal(Append(words, w)) = 10 * ReadDecimal(words) + (Code(w) - Digit(0))
  BY <1>3, <1>6, <1>7, Zenon
<1>9. ReadDecimal(<<>>) = 0 /\ ReadDecimal(words) \in Int
  BY <1>3, <1>4, <1>5, <1>6, Zenon
<1> QED BY <1>1, <1>8, <1>9, Zenon DEF w

\* The decimal digits of a number read as that number.
LEMMA DecimalReadsBack ==
  ASSUME NEW n \in Nat
  PROVE  /\ ReadDecimal(Written(Decimal(n))) = n
         /\ Written(Decimal(n)) \in Seq(Characters) \ {<<>>}
<1>1. ASSUME NEW m \in Nat
      PROVE  /\ Decimal(m) \in Seq(Byte) /\ Decimal(m) # <<>>
             /\ Written(Decimal(m)) \in Seq(Characters) \ {<<>>}
  <2>1. Decimal(m) \in Seq(Figures)
    BY DecimalUnfolds
  <2>2. Figures \subseteq Byte
    BY DEF Figures, Byte, Digit
  <2>3. Decimal(m) \in Seq(Byte)
    BY <2>1, <2>2, SeqMonotonic
  <2>4. Decimal(m) # <<>>
    <3>1. CASE m < 10
      <4>1. Decimal(m) = <<Digit(m)>>
        BY <3>1, DecimalUnfolds
      <4> QED BY <4>1
    <3>2. CASE m >= 10
      <4>1. m \div 10 \in Nat /\ m % 10 \in 0 .. 9
        BY <3>2, TenthIsLess
      <4>2. Decimal(m) = Append(Decimal(m \div 10), Digit(m % 10))
        BY <3>2, DecimalUnfolds
      <4>3. Decimal(m \div 10) \in Seq(Figures) /\ Digit(m % 10) \in Figures
        BY <4>1, DecimalUnfolds, FigureTyped
      <4> QED BY <4>2, <4>3, AppendProperties
    <3> QED BY <3>1, <3>2
  <2>5. Len(Written(Decimal(m))) = Len(Decimal(m)) /\ Written(Decimal(m)) \in Seq(Characters)
    BY <2>3, WrittenTyped
  <2>6. Len(Decimal(m)) # 0
    BY <2>3, <2>4, EmptySeq
  <2> QED BY <2>3, <2>4, <2>5, <2>6, EmptySeq
<1> DEFINE P == {k \in Nat : \A m \in 0 .. k : ReadDecimal(Written(Decimal(m))) = m}
<1>2. ASSUME NEW m \in 0 .. 9 PROVE ReadDecimal(Written(Decimal(m))) = m
  <2>1. Decimal(m) = <<Digit(m)>> /\ Digit(m) \in Byte /\ Digit(m) - Digit(0) = m
    BY DecimalUnfolds, FigureTyped
  <2> DEFINE c == Digit(m)
  <2>2. Written(Decimal(m)) = <<Char[c]>> /\ Char[c] \in Characters
    BY <2>1, WrittenOne, CodeOf
  <2>3. <<Char[c]>> = Append(<<>>, Char[c]) /\ <<>> \in Seq(Characters)
    BY <2>2, EmptySeq
  <2> HIDE DEF c
  <2>4. ReadDecimal(Append(<<>>, Char[c])) = 10 * 0 + (c - Digit(0))
    <3>1. c \in Byte
      BY <2>1 DEF c
    <3>2. ReadDecimal(<<>>) = 0
      BY <2>3, <3>1, ValueAppend
    <3>3. ReadDecimal(Append(<<>>, Char[c])) = 10 * ReadDecimal(<<>>) + (c - Digit(0))
      BY <2>3, <3>1, ValueAppend
    <3> QED BY <3>2, <3>3, Zenon
  <2>5. 10 * 0 + (c - Digit(0)) = m
    BY <2>1 DEF c
  <2> QED BY <2>2, <2>3, <2>4, <2>5
<1>3. 0 \in P
  BY <1>2
<1>4. ASSUME NEW k \in P PROVE k + 1 \in P
  <2>1. k \in Nat /\ \A m \in 0 .. k : ReadDecimal(Written(Decimal(m))) = m
    OBVIOUS
  <2>2. ASSUME NEW m \in 0 .. k + 1, m >= 10 PROVE ReadDecimal(Written(Decimal(m))) = m
    <3> DEFINE q == m \div 10
               r == m % 10
    <3>1. q \in 0 .. k /\ r \in 0 .. 9 /\ m = 10 * q + r
      BY <2>1, <2>2, TenthIsLess
    <3>0. m \in Nat
      BY <2>1
    <3>2. Decimal(m) = Append(Decimal(q), Digit(r))
      BY <2>2, <3>0, DecimalUnfolds
    <3> HIDE DEF q, r
    <3>3. Digit(r) \in Byte /\ Digit(r) - Digit(0) = r
      BY <3>1, FigureTyped
    <3>4. Decimal(q) \in Seq(Byte) /\ Written(Decimal(q)) \in Seq(Characters)
      BY <1>1, <3>1
    <3>5. Written(Decimal(m)) = Append(Written(Decimal(q)), Char[Digit(r)])
      BY <3>2, <3>3, <3>4, WrittenAppend
    <3>6. ReadDecimal(Written(Decimal(q))) = q
      BY <2>1, <3>1
    <3>7. ReadDecimal(Append(Written(Decimal(q)), Char[Digit(r)]))
            = 10 * ReadDecimal(Written(Decimal(q))) + (Digit(r) - Digit(0))
      BY <3>3, <3>4, ValueAppend
    <3>8. ReadDecimal(Written(Decimal(m))) = 10 * q + r
      BY <3>3, <3>5, <3>6, <3>7, Zenon
    <3> QED BY <3>1, <3>8
  <2>3. ASSUME NEW m \in 0 .. k + 1 PROVE ReadDecimal(Written(Decimal(m))) = m
    <3>1. m \in 0 .. 9 \/ m >= 10
      BY <2>1
    <3> QED BY <1>2, <2>2, <3>1
  <2> QED BY <2>1, <2>3
<1>5. P = Nat
  <2> HIDE DEF P
  <2>1. P \in SUBSET Nat
    BY DEF P
  <2> QED BY <1>3, <1>4, <2>1, SetInduction
<1>6. n \in P
  BY <1>5
<1> QED BY <1>1, <1>6

-----------------------------------------------------------------------------
(* Strings *)

Associate(a, b, c) == (a \o b) \o c = a \o (b \o c)

LEMMA Associated ==
  ASSUME NEW S, NEW a \in Seq(S), NEW b \in Seq(S), NEW c \in Seq(S)
  PROVE  Associate(a, b, c)
BY DEF Associate

LEMMA OneWord ==
  ASSUME NEW S, NEW x \in S
  PROVE  <<x>> \in Seq(S) /\ Len(<<x>>) = 1 /\ <<x>>[1] = x
OBVIOUS

Regroups(a, b, c, d, e, f) ==
  ((a \o ((b \o c) \o d)) \o e) \o f = (a \o b) \o ((c \o d) \o (e \o f))

LEMMA Regrouped ==
  ASSUME NEW S, NEW a \in Seq(S), NEW b \in Seq(S), NEW c \in Seq(S), NEW d \in Seq(S),
         NEW e \in Seq(S), NEW f \in Seq(S)
  PROVE  Regroups(a, b, c, d, e, f)
<1>1. c \o d \in Seq(S) /\ e \o f \in Seq(S) /\ b \o c \in Seq(S) /\ (b \o c) \o d \in Seq(S)
  BY ConcatProperties
<1>2. a \o ((b \o c) \o d) \in Seq(S)
  BY <1>1, ConcatProperties
<1>3. Associate(a \o ((b \o c) \o d), e, f)
  BY <1>2, Associated, Zenon
<1>4. Associate(b, c, d)
  BY Associated, Zenon
<1>5. Associate(a, b, c \o d)
  BY <1>1, Associated, Zenon
<1>6. a \o b \in Seq(S)
  BY ConcatProperties
<1>7. Associate(a \o b, c \o d, e \o f)
  BY <1>1, <1>6, Associated, Zenon
<1> QED BY <1>3, <1>4, <1>5, <1>7, Zenon DEF Associate, Regroups

LEMMA WithoutPrefix ==
  ASSUME NEW S, NEW a \in Seq(S), NEW b \in Seq(S), b # <<>>
  PROVE  SubSeq(a \o b, Len(a) + 1, Len(a \o b)) = b
<1> DEFINE m == Len(a)
           n == Len(b)
<1>1. m \in Nat /\ n \in Nat \ {0} /\ Len(a \o b) = m + n
  BY EmptySeq, ConcatProperties
<1>2. SubSeq(a \o b, m + 1, m + n) = SubSeq(b, (m + 1) - m, (m + n) - m)
  <2>1. m + 1 \in m + 1 .. m + n /\ m + n \in m + 1 .. m + n
    BY <1>1
  <2> QED BY <2>1, SubSeqOfConcat2
<1>3. (m + 1) - m = 1 /\ (m + n) - m = n
  BY <1>1
<1>4. SubSeq(b, 1, n) = b
  BY SubSeqFull
<1> HIDE DEF m, n
<1>5. SubSeq(a \o b, m + 1, m + n) = b
  BY <1>2, <1>3, <1>4
<1> QED BY <1>1, <1>5 DEF m

LEMMA BeforeLast ==
  ASSUME NEW S, NEW s \in Seq(S), NEW x \in S
  PROVE  SubSeq(Append(s, x), 1, Len(s)) = s
<1>1. /\ Append(s, x) \in Seq(S) /\ Len(Append(s, x)) = Len(s) + 1 /\ Len(s) \in Nat
      /\ \A i \in 1 .. Len(s) : Append(s, x)[i] = s[i]
  OBVIOUS
<1> DEFINE t == Append(s, x)
           u == SubSeq(t, 1, Len(s))
<1> HIDE DEF t
<1>2. u \in Seq(S) /\ Len(u) = Len(s) /\ \A i \in 1 .. Len(s) : u[i] = t[i]
  BY <1>1 DEF t
<1> HIDE DEF u
<1>3. u = s
  BY <1>1, <1>2, SeqEqual DEF t
<1> QED BY <1>3 DEF u, t

LEMMA Enclosed ==
  ASSUME NEW S, NEW x \in S, NEW s \in Seq(S), NEW y \in S
  PROVE  /\ ((<<x>> \o s) \o <<y>>)[1] = x
         /\ SubSeq((<<x>> \o s) \o <<y>>, 2, Len((<<x>> \o s) \o <<y>>) - 1) = s
<1> DEFINE p == <<x>>
           t == s \o <<y>>
           r == (p \o s) \o <<y>>
           n == Len(s)
<1>1. n \in Nat /\ p \in Seq(S) /\ Len(p) = 1 /\ p[1] = x /\ <<y>> \in Seq(S) /\ Len(<<y>>) = 1
  BY OneWord
<1> HIDE DEF p
<1> HIDE DEF n
<1>2. /\ p \o s \in Seq(S) /\ Len(p \o s) = n + 1
      /\ \A i \in 1 .. n + 1 : (p \o s)[i] = IF i <= 1 THEN p[i] ELSE s[i - 1]
  <2>1. /\ p \o s \in Seq(S) /\ Len(p \o s) = Len(p) + Len(s)
        /\ \A i \in 1 .. Len(p) + Len(s) :
             (p \o s)[i] = IF i <= Len(p) THEN p[i] ELSE s[i - Len(p)]
    BY <1>1, ConcatProperties
  <2>2. Len(p) + Len(s) = n + 1
    BY <1>1 DEF n
  <2> QED BY <1>1, <2>1, <2>2
<1>3. r \in Seq(S) /\ Len(r) = n + 2 /\ \A i \in 1 .. n + 1 : r[i] = (p \o s)[i]
  <2> DEFINE u == p \o s
             e == <<y>>
  <2>1. u \in Seq(S) /\ Len(u) = n + 1 /\ e \in Seq(S) /\ Len(e) = 1
    BY <1>1, <1>2
  <2> HIDE DEF u, e
  <2>2. /\ u \o e \in Seq(S) /\ Len(u \o e) = Len(u) + Len(e)
        /\ \A i \in 1 .. Len(u) + Len(e) :
             (u \o e)[i] = IF i <= Len(u) THEN u[i] ELSE e[i - Len(u)]
    BY <2>1, ConcatProperties
  <2>3. Len(u) + Len(e) = n + 2 /\ \A i \in 1 .. n + 1 : i \in 1 .. n + 2 /\ i <= Len(u)
    BY <1>1, <2>1
  <2>4. u \o e \in Seq(S) /\ Len(u \o e) = n + 2 /\ \A i \in 1 .. n + 1 : (u \o e)[i] = u[i]
    BY <2>2, <2>3
  <2> QED BY <2>4 DEF u, e
<1> HIDE DEF r
<1>4. r[1] = x
  <2>1. 1 \in 1 .. n + 1 /\ 1 <= 1
    BY <1>1
  <2>2. (p \o s)[1] = p[1]
    BY <1>2, <2>1
  <2> QED BY <1>1, <1>3, <2>1, <2>2
<1>5. Len(r) - 1 = n + 1
  <2>1. \A k \in Nat : (k + 2) - 1 = k + 1
    OBVIOUS
  <2> QED BY <1>1, <1>3, <2>1
<1> DEFINE v == SubSeq(r, 2, n + 1)
<1>6. v \in Seq(S) /\ Len(v) = n /\ \A i \in 1 .. n : v[i] = r[i + 1]
  BY <1>1, <1>3
<1> HIDE DEF v
<1>7. \A i \in 1 .. n : v[i] = s[i]
  <2> TAKE i \in 1 .. n
  <2>1. i + 1 \in 1 .. n + 1 /\ ~(i + 1 <= 1) /\ (i + 1) - 1 = i
    BY <1>1
  <2> QED BY <1>2, <1>3, <1>6, <2>1
<1>8. v = s
  BY <1>6, <1>7, SeqEqual DEF n
<1> QED BY <1>4, <1>5, <1>8 DEF p, r, v

StringWords == Texts \cup {"std::", "string", "("}
SizePart(s) == IF Contains(s, 0) THEN <<",">> \o Written(Decimal(Len(s))) ELSE <<>>

LEMMA StringReadsBack ==
  ASSUME NEW s \in Seq(Byte)
  PROVE  ReadString(StringText(s)) = s
<1> DEFINE a == <<"std::", "string", "(">>
           q == Char[Quote]
           lit == Written(Escaped(s))
           num == Written(Decimal(Len(s)))
           rest == SizePart(s) \o <<")">>
           body == Append(lit, q) \o rest
           n == Len(s)
<1>1. n \in Nat /\ Quote \in Byte /\ Quote # Backslash /\ 0 \in Byte
  BY DEF Quote, Backslash, Byte
<1>2. /\ Escaped(s) \in Seq(Byte) /\ lit \in Seq(Texts)
      /\ q \in Texts /\ "," \in Texts /\ ")" \in Texts
  BY <1>1, EscapedAppend, WrittenTyped, CodeOf DEF Texts, Tokens
<1>3. num \in Seq(Texts) /\ ReadDecimal(num) = n
  BY <1>1, DecimalReadsBack, SeqMonotonic DEF Texts
<1>4. SizePart(s) \in Seq(Texts)
  <2> HIDE DEF num
  <2>1. <<",">> \in Seq(Texts) /\ <<>> \in Seq(Texts)
    BY <1>2, OneWord, EmptySeq
  <2>2. <<",">> \o num \in Seq(Texts)
    BY <1>3, <2>1, ConcatProperties
  <2> QED BY <2>1, <2>2, Zenon DEF SizePart, num
<1>5. rest \in Seq(Texts) /\ <<")">> \in Seq(Texts)
  <2>1. <<")">> \in Seq(Texts)
    BY <1>2, OneWord
  <2> QED BY <1>4, <2>1, ConcatProperties
<1>6. Closed(ReadLiteral(body, Quote), s, rest)
  BY <1>1, <1>2, <1>5, ReadEscaped, ReadClosed
<1>7. StringText(s) = (a \o <<q>>) \o body
  <2>1. Written(<<Quote>> \o Escaped(s) \o <<Quote>>) = (<<q>> \o lit) \o <<q>>
    <3>1. <<Quote>> \in Seq(Byte)
      BY <1>1
    <3>2. <<Quote>> \o Escaped(s) \in Seq(Byte)
      BY <1>2, <3>1, ConcatProperties
    <3>3. Written((<<Quote>> \o Escaped(s)) \o <<Quote>>)
            = Written(<<Quote>> \o Escaped(s)) \o Written(<<Quote>>)
      BY <3>1, <3>2, WrittenJoined
    <3>4. Written(<<Quote>> \o Escaped(s)) = Written(<<Quote>>) \o Written(Escaped(s))
      BY <1>2, <3>1, WrittenJoined
    <3>5. Written(<<Quote>>) = <<q>>
      BY <1>1, WrittenOne
    <3> QED BY <3>3, <3>4, <3>5, Zenon
  <2>2. StringText(s) = ((a \o ((<<q>> \o lit) \o <<q>>)) \o SizePart(s)) \o <<")">>
    BY <2>1, Zenon DEF StringText, SizePart
  <2>3. Texts \subseteq StringWords /\ a \in Seq(StringWords)
    BY DEF StringWords
  <2>4. /\ <<q>> \in Seq(StringWords) /\ lit \in Seq(StringWords)
        /\ SizePart(s) \in Seq(StringWords) /\ <<")">> \in Seq(StringWords)
    <3>1. <<q>> \in Seq(Texts)
      BY <1>2, OneWord
    <3> QED BY <1>2, <1>4, <1>5, <2>3, <3>1, SeqMonotonic
  <2>5. StringText(s) = (a \o <<q>>) \o ((lit \o <<q>>) \o rest)
    <3>1. Regroups(a, <<q>>, lit, <<q>>, SizePart(s), <<")">>)
      BY <2>3, <2>4, Regrouped, Zenon
    <3> QED BY <2>2, <3>1, Zenon DEF Regroups
  <2>6. lit \o <<q>> = Append(lit, q)
    BY <1>2, AppendIsConcat
  <2> QED BY <2>5, <2>6, Zenon
<1>8. SubSeq(StringText(s), 5, Len(StringText(s))) = body
  <2> DEFINE p == a \o <<q>>
  <2>1. a \in Seq(StringWords) /\ q \in StringWords
    <3>1. "std::" \in StringWords /\ "string" \in StringWords /\ "(" \in StringWords
      BY DEF StringWords
    <3>2. q \in StringWords
      BY <1>2 DEF StringWords
    <3> QED BY <3>1, <3>2
  <2>2. p \in Seq(StringWords) /\ Len(p) = 4
    <3> HIDE DEF q
    <3> QED BY <2>1
  <2>3. body \in Seq(Texts) /\ body # <<>>
    <3> HIDE DEF lit, q, rest
    <3>0. lit \in Seq(Texts) /\ q \in Texts
      BY <1>2
    <3>1. Append(lit, q) \in Seq(Texts) /\ Append(lit, q) # <<>>
      BY <3>0, AppendProperties
    <3> HIDE DEF body
    <3> QED BY <1>5, <3>1, ConcatProperties, ConcatSimplifications DEF body
  <2>4. body \in Seq(StringWords)
    BY <2>3, SeqMonotonic DEF StringWords
  <2> HIDE DEF p, body
  <2>5. SubSeq(p \o body, Len(p) + 1, Len(p \o body)) = body
    BY <2>2, <2>3, <2>4, WithoutPrefix
  <2>6. Len(p) + 1 = 5
    BY <2>2
  <2> QED BY <1>7, <2>5, <2>6 DEF p
<1> DEFINE literal == ReadLiteral(SubSeq(StringText(s), 5, Len(StringText(s))), Quote)
           bytes == Append(literal.bytes, 0)
           nuls == {i \in DOMAIN bytes : bytes[i] = 0}
           size == IF literal.rest[1] = ","
                   THEN ReadDecimal(SubSeq(literal.rest, 2, Len(literal.rest) - 1))
                   ELSE Min(nuls) - 1
<1>9. literal.bytes = s /\ literal.rest = rest
  BY <1>6, <1>8 DEF Closed
<1>10. ReadString(StringText(s)) = IF size > Len(bytes) THEN <<>> ELSE SubSeq(bytes, 1, size)
  BY DEF ReadString
<1>11. bytes = Append(s, 0)
  BY <1>9
<1>12. /\ Append(s, 0) \in Seq(Byte) /\ Len(Append(s, 0)) = n + 1
       /\ DOMAIN Append(s, 0) = 1 .. n + 1
       /\ Append(s, 0)[n + 1] = 0
       /\ \A i \in 1 .. n : Append(s, 0)[i] = s[i]
  BY <1>1
<1>13. size = n
  <2>1. CASE Contains(s, 0)
    <3>1. rest = (<<",">> \o num) \o <<")">>
      BY <2>1 DEF SizePart
    <3> DEFINE r == (<<",">> \o num) \o <<")">>
    <3>2. rest[1] = "," /\ SubSeq(rest, 2, Len(rest) - 1) = num
      <4>1. num \in Seq(Texts) /\ "," \in Texts /\ ")" \in Texts
        BY <1>2, <1>3
      <4> HIDE DEF num, rest
      <4>2. r[1] = "," /\ SubSeq(r, 2, Len(r) - 1) = num
        BY <4>1, Enclosed, Zenon
      <4> HIDE DEF r
      <4>3. rest = r
        BY <3>1 DEF r
      <4> QED BY <4>2, <4>3, Zenon
    <3> HIDE DEF literal, rest, num, nuls
    <3> QED BY <1>3, <1>9, <3>2
  <2>2. CASE ~Contains(s, 0)
    <3>1. SizePart(s) = <<>>
      BY <2>2 DEF SizePart
    <3>2. rest = <<")">>
      BY <3>1, <1>5, ConcatEmptySeq
    <3>3. rest[1] # ","
      <4> HIDE DEF rest
      <4> QED BY <3>2
    <3>4. \A i \in 1 .. n : s[i] # 0
      BY <2>2 DEF Contains
    <3>5. nuls = {n + 1}
      <4>1. \A i \in 1 .. n + 1 : i = n + 1 \/ i \in 1 .. n
        BY <1>1
      <4>2. n + 1 \in 1 .. n + 1
        BY <1>1
      <4>3. nuls = {i \in 1 .. n + 1 : Append(s, 0)[i] = 0}
        BY <1>11, <1>12
      <4> HIDE DEF nuls
      <4> QED BY <1>12, <3>4, <4>1, <4>2, <4>3
    <3>6. Min(nuls) = n + 1
      <4> HIDE DEF nuls
      <4>1. n + 1 <= n + 1
        BY <1>1
      <4> QED BY <3>5, <4>1 DEF Min
    <3>7. literal.rest[1] # ","
      <4> HIDE DEF literal, rest
      <4> QED BY <1>9, <3>3
    <3>8. size = Min(nuls) - 1
      <4> HIDE DEF literal, nuls
      <4> QED BY <3>7
    <3> HIDE DEF size, nuls
    <3> QED BY <1>1, <3>6, <3>8
  <2> QED BY <2>1, <2>2
<1> HIDE DEF size, literal
<1>14. SubSeq(Append(s, 0), 1, n) = s
  BY <1>1, BeforeLast
<1>15. ~(size > Len(bytes))
  BY <1>1, <1>11, <1>12, <1>13
<1>16. SubSeq(bytes, 1, size) = s
  BY <1>11, <1>13, <1>14
<1> QED BY <1>10, <1>15, <1>16

-----------------------------------------------------------------------------
(* Integers *)

LEMMA Suffixed ==
  ASSUME NEW d \in Seq(Characters) \ {<<>>}
  PROVE  /\ Last(d) \notin Tokens /\ Head(d) \notin Tokens /\ d \o <<>> = d
         /\ \A x \in Tokens : /\ Last(d \o <<x>>) = x /\ Head(d \o <<x>>) \notin Tokens
                             /\ Front(d \o <<x>>) = d
<1> DEFINE n == Len(d)
<1>1. n \in Nat \ {0} /\ d \in Seq(Texts) /\ d \in Seq(Characters)
  BY EmptySeq, SeqMonotonic DEF Texts
<1>2. \A i \in 1 .. n : d[i] \in Characters
  OBVIOUS
<1>3. \A w \in Characters : w \notin Tokens
  BY CodeOf DEF Characters
<1>4. d[n] \notin Tokens /\ d[1] \notin Tokens
  <2>1. 1 \in 1 .. n /\ n \in 1 .. n
    BY <1>1
  <2> QED BY <1>2, <1>3, <2>1, Zenon
<1>5. Head(d) = d[1]
  BY <1>1, HeadTailProperties
<1>6. d \o <<>> = d
  BY <1>1, ConcatEmptySeq
<1>7. ASSUME NEW x \in Tokens
      PROVE  /\ Last(d \o <<x>>) = x /\ Head(d \o <<x>>) \notin Tokens
             /\ Front(d \o <<x>>) = d
  <2> DEFINE t == Append(d, x)
  <2>1. x \in Texts
    BY DEF Texts
  <2>2. d \o <<x>> = t
    BY <1>1, <2>1, AppendIsConcat
  <2>3. /\ t \in Seq(Texts) /\ t # <<>> /\ Len(t) = n + 1
        /\ t[n + 1] = x /\ t[1] = d[1]
    <3>1. /\ t \in Seq(Texts) /\ t # <<>> /\ Len(t) = n + 1
          /\ \A i \in 1 .. n : t[i] = d[i]
          /\ t[n + 1] = x
      BY <1>1, <2>1, AppendProperties
    <3>2. 1 \in 1 .. n
      BY <1>1
    <3> QED BY <3>1, <3>2
  <2>4. SubSeq(t, 1, n) = d
    BY <1>1, <2>1, BeforeLast
  <2> HIDE DEF t
  <2>5. Last(t) = x
    BY <2>3 DEF Last
  <2>6. Head(t) = d[1]
    BY <2>3, HeadTailProperties
  <2>7. Front(t) = d
    <3>1. (n + 1) - 1 = n
      BY <1>1
    <3> QED BY <2>3, <2>4, <3>1, Zenon DEF Front
  <2> QED BY <1>4, <2>2, <2>5, <2>6, <2>7, Zenon
<1> QED BY <1>4, <1>5, <1>6, <1>7, Zenon DEF Last

\* An optional minus sign, the digits, and a suffix of one token or none.
LEMMA IntegerParts ==
  ASSUME NEW n \in Nat, NEW suf, suf = <<>> \/ \E x \in Tokens : suf = <<x>>
  PROVE  /\ ReadInteger(Written(Decimal(n)) \o suf)
               = [type |-> LiteralType(suf, n), value |-> n]
         /\ ReadInteger((<<"-">> \o Written(Decimal(n))) \o suf)
               = [type |-> LiteralType(suf, n), value |-> -n]
<1> DEFINE d == Written(Decimal(n))
           l == d \o suf
<1>1. ReadDecimal(d) = n /\ d \in Seq(Characters) \ {<<>>}
  BY DecimalReadsBack
<1> HIDE DEF d
<1> DEFINE suffixed == Last(l) \in Tokens
           digits == IF suffixed THEN Front(l) ELSE l
           suffix == IF suffixed THEN <<Last(l)>> ELSE <<>>
<1>2. digits = d /\ suffix = suf /\ Head(l) \notin Tokens
  <2>1. CASE suf = <<>>
    <3>1. l = d
      BY <1>1, <2>1, Suffixed
    <3>2. Last(l) \notin Tokens /\ Head(l) \notin Tokens
      BY <1>1, <3>1, Suffixed
    <3> HIDE DEF l
    <3> QED BY <2>1, <3>1, <3>2
  <2>2. CASE \E x \in Tokens : suf = <<x>>
    <3> PICK x \in Tokens : suf = <<x>>
      BY <2>2
    <3>1. Last(l) = x /\ Head(l) \notin Tokens /\ Front(l) = d
      BY <1>1, Suffixed
    <3> HIDE DEF l
    <3> QED BY <3>1
  <2> QED BY <2>1, <2>2
<1>3. l \in Seq(Texts) /\ l # <<>> /\ "-" \in Tokens /\ "-" \in Texts
  <2>1. d \in Seq(Texts) /\ d # <<>> /\ Len(d) \in Nat \ {0}
    BY <1>1, SeqMonotonic, EmptySeq DEF Texts
  <2>2. suf \in Seq(Texts)
    BY OneWord, EmptySeq DEF Texts
  <2>3. l \in Seq(Texts) /\ Len(l) = Len(d) + Len(suf) /\ Len(suf) \in Nat
    BY <2>1, <2>2, ConcatProperties, LenProperties
  <2>4. Len(l) # 0
    BY <2>1, <2>3
  <2> HIDE DEF l
  <2>5. l # <<>>
    BY <2>4, EmptySeq
  <2> QED BY <2>3, <2>5 DEF Tokens, Texts
<1>4. ReadInteger(l) = [type |-> LiteralType(suf, n), value |-> n]
  <2>1. Head(l) # "-"
    BY <1>2, <1>3
  <2>2. ReadInteger(l) = [type |-> LiteralType(suffix, ReadDecimal(digits)),
                          value |-> ReadDecimal(digits)]
    <3> HIDE DEF l
    <3> QED BY <2>1, Zenon DEF ReadInteger
  <2> HIDE DEF digits, suffix
  <2> QED BY <1>1, <1>2, <2>2
<1> DEFINE m == (<<"-">> \o d) \o suf
<1>5. Head(m) = "-" /\ Tail(m) = l
  <2> DEFINE h == <<"-">>
  <2>1. d \in Seq(Texts) /\ suf \in Seq(Texts) /\ h \in Seq(Texts) /\ Len(h) = 1 /\ h[1] = "-"
    BY <1>1, <1>3, SeqMonotonic, OneWord, EmptySeq DEF Texts
  <2> HIDE DEF h
  <2>2. Associate(h, d, suf)
    BY <2>1, Associated, Zenon
  <2>3. m = h \o l
    BY <2>2, Zenon DEF Associate, h
  <2> HIDE DEF l, m
  <2>4. /\ m \in Seq(Texts) /\ Len(m) = 1 + Len(l) /\ Len(l) \in Nat \ {0}
        /\ \A i \in 1 .. 1 + Len(l) : m[i] = IF i <= 1 THEN h[i] ELSE l[i - 1]
    <3>1. Len(l) \in Nat \ {0}
      BY <1>3, EmptySeq
    <3>2. /\ h \o l \in Seq(Texts) /\ Len(h \o l) = Len(h) + Len(l)
          /\ \A i \in 1 .. Len(h) + Len(l) :
               (h \o l)[i] = IF i <= Len(h) THEN h[i] ELSE l[i - Len(h)]
      BY <1>3, <2>1, ConcatProperties
    <3> QED BY <2>1, <2>3, <3>1, <3>2
  <2>5. m # <<>>
    BY <2>4, EmptySeq
  <2>6. Head(m) = m[1] /\ Tail(m) = SubSeq(m, 2, Len(m))
    BY <2>4, <2>5, HeadTailProperties, TailIsSubSeq
  <2>7. m[1] = h[1]
    BY <2>4
  <2>8. SubSeq(h \o l, Len(h) + 1, Len(h \o l)) = l
    BY <1>3, <2>1, WithoutPrefix
  <2>9. Len(h) + 1 = 2
    BY <2>1
  <2> QED BY <2>1, <2>3, <2>6, <2>7, <2>8, <2>9, Zenon
<1>6. ReadInteger(m) = [type |-> LiteralType(suf, n), value |-> -n]
  <2>1. ReadInteger(m) = [type |-> LiteralType(suffix, ReadDecimal(digits)),
                          value |-> -ReadDecimal(digits)]
    <3> HIDE DEF l, m
    <3> QED BY <1>5, Zenon DEF ReadInteger
  <2> HIDE DEF digits, suffix
  <2> QED BY <1>1, <1>2, <2>1
<1> QED BY <1>4, <1>6 DEF d

LEMMA LeastOf ==
  ASSUME NEW n \in Nat, NEW s \in SUBSET (1 .. n), s # {}
  PROVE  Min(s) \in s /\ \A i \in s : Min(s) <= i
<1>1. s \in SUBSET Nat /\ s # {}
  OBVIOUS
<1>2. PICK m \in s : \A k \in s : <<k, m>> \notin OpToRel(<, Nat)
  BY <1>1, NatLessThanWellFounded, WFMin
<1>3. \A k \in s : m <= k
  <2> TAKE k \in s
  <2>1. k \in Nat /\ m \in Nat
    BY <1>1
  <2>2. <<k, m>> \notin OpToRel(<, Nat)
    BY <1>2
  <2>3. ~(k < m)
    BY <2>1, <2>2 DEF OpToRel
  <2> QED BY <2>1, <2>3
<1> QED BY <1>3 DEF Min

\* A literal has the type its suffix was chosen for exactly when that type holds
\* it.
LEMMA LiteralTyped ==
  ASSUME NEW T \in IntegerTypes, NEW n \in Nat
  PROVE  n <= IntegerMax(T) <=> LiteralType(Suffix(T), n) = T
<1> DEFINE types == CandidateTypes(Suffix(T))
           holds == {i \in DOMAIN types : n <= IntegerMax(types[i])}
           Shape(k) == /\ DOMAIN types = 1 .. k
                       /\ \A i \in 1 .. k : types[i] \in IntegerTypes
                       /\ types[1] = T
                       /\ \A i \in 1 .. k : types[i] = T => i = 1
<1>1. \E k \in 1 .. 3 : Shape(k)
  <2>1. ASSUME NEW x \in IntegerTypes, types = <<x>>, x = T
        PROVE  \E k \in 1 .. 3 : Shape(k)
    <3>1. DOMAIN <<x>> = 1 .. 1 /\ <<x>>[1] = x /\ \A i \in 1 .. 1 : i = 1
      OBVIOUS
    <3> HIDE DEF types
    <3>2. Shape(1)
      BY <2>1, <3>1
    <3> QED BY <3>2
  <2>2. ASSUME NEW x \in IntegerTypes, NEW y \in IntegerTypes,
               types = <<x, y>>, x = T, y # T
        PROVE  \E k \in 1 .. 3 : Shape(k)
    <3>1. /\ DOMAIN <<x, y>> = 1 .. 2 /\ <<x, y>>[1] = x /\ <<x, y>>[2] = y
          /\ \A i \in 1 .. 2 : i = 1 \/ i = 2
      OBVIOUS
    <3> HIDE DEF types
    <3>2. Shape(2)
      BY <2>2, <3>1
    <3> QED BY <3>2
  <2>3. ASSUME NEW x \in IntegerTypes, NEW y \in IntegerTypes, NEW z \in IntegerTypes,
               types = <<x, y, z>>, x = T, y # T, z # T
        PROVE  \E k \in 1 .. 3 : Shape(k)
    <3>1. /\ DOMAIN <<x, y, z>> = 1 .. 3
          /\ <<x, y, z>>[1] = x /\ <<x, y, z>>[2] = y /\ <<x, y, z>>[3] = z
          /\ \A i \in 1 .. 3 : i = 1 \/ i = 2 \/ i = 3
      OBVIOUS
    <3> HIDE DEF types
    <3>2. Shape(3)
      BY <2>3, <3>1
    <3> QED BY <3>2
  <2>4. /\ "int" \in IntegerTypes /\ "unsigned int" \in IntegerTypes
        /\ "long" \in IntegerTypes /\ "unsigned long" \in IntegerTypes
        /\ "long long" \in IntegerTypes /\ "unsigned long long" \in IntegerTypes
    BY DEF IntegerTypes
  <2>5. CASE T = "int"
    <3>1. types = <<"int", "long", "long long">>
      BY <2>5 DEF Suffix, CandidateTypes
    <3> HIDE DEF types, Shape
    <3> QED BY <2>3, <2>4, <2>5, <3>1
  <2>6. CASE T = "unsigned int"
    <3>1. types = <<"unsigned int", "unsigned long", "unsigned long long">>
      BY <2>6 DEF Suffix, CandidateTypes
    <3> HIDE DEF types, Shape
    <3> QED BY <2>3, <2>4, <2>6, <3>1
  <2>7. CASE T = "long"
    <3>1. types = <<"long", "long long">>
      BY <2>7 DEF Suffix, CandidateTypes
    <3> HIDE DEF types, Shape
    <3> QED BY <2>2, <2>4, <2>7, <3>1
  <2>8. CASE T = "unsigned long"
    <3>1. types = <<"unsigned long", "unsigned long long">>
      BY <2>8 DEF Suffix, CandidateTypes
    <3> HIDE DEF types, Shape
    <3> QED BY <2>2, <2>4, <2>8, <3>1
  <2>9. CASE T = "long long"
    <3>1. types = <<"long long">>
      BY <2>9 DEF Suffix, CandidateTypes
    <3> HIDE DEF types, Shape
    <3> QED BY <2>1, <2>4, <2>9, <3>1
  <2>10. CASE T = "unsigned long long"
    <3>1. types = <<"unsigned long long">>
      BY <2>10 DEF Suffix, CandidateTypes
    <3> HIDE DEF types, Shape
    <3> QED BY <2>1, <2>4, <2>10, <3>1
  <2> HIDE DEF Shape
  <2> QED BY <2>5, <2>6, <2>7, <2>8, <2>9, <2>10 DEF IntegerTypes
<1> HIDE DEF types
<1>2. PICK k \in 1 .. 3 : Shape(k)
  BY <1>1
<1>3. LiteralType(Suffix(T), n) = IF holds = {} THEN "none" ELSE types[Min(holds)]
  BY DEF LiteralType, types
<1>4. holds \in SUBSET (1 .. k) /\ k \in Nat
  BY <1>2
<1>5. ASSUME n <= IntegerMax(T) PROVE LiteralType(Suffix(T), n) = T
  <2>1. 1 \in holds
    BY <1>2, <1>5
  <2> HIDE DEF holds
  <2>2. Min(holds) \in 1 .. k /\ Min(holds) <= 1
    BY <1>4, <2>1, LeastOf
  <2>3. Min(holds) = 1
    BY <2>2
  <2>4. LiteralType(Suffix(T), n) = T /\ T # "none"
    BY <1>2, <1>3, <2>1, <2>3 DEF IntegerTypes
  <2> QED BY <2>4
<1>6. ASSUME LiteralType(Suffix(T), n) = T PROVE n <= IntegerMax(T)
  <2>1. holds # {} /\ types[Min(holds)] = T
    BY <1>3, <1>6 DEF IntegerTypes
  <2>2. \A i \in holds : n <= IntegerMax(types[i])
    OBVIOUS
  <2> HIDE DEF holds
  <2>3. Min(holds) \in holds
    BY <1>4, <2>1, LeastOf
  <2> QED BY <2>1, <2>2, <2>3
<1> HIDE DEF holds
<1> QED BY <1>5, <1>6, Zenon

LEMMA IntegerReadsBack ==
  ASSUME NEW T \in IntegerTypes, NEW n \in IntegerMin(T) .. IntegerMax(T)
  PROVE  LET read == ReadInteger(to_string(n) \o Suffix(T))
         IN  (read.type = T /\ read.value = n) <=> ~(T \in SignedTypes /\ n = IntegerMin(T))
<1> DEFINE read == ReadInteger(to_string(n) \o Suffix(T))
           max == IntegerMax(T)
<1>1. NarrowMax \in Nat
  BY LiteralsAssumption
<1>2. max \in Nat
  <2>1. 2 * NarrowMax + 1 \in Nat /\ 2 * IntMax + 1 \in Nat
    BY <1>1, Widths
  <2> QED BY <1>1, <2>1, Widths DEF IntegerTypes, IntegerMax
<1>3. IntegerMin(T) = IF T \in SignedTypes THEN -max - 1 ELSE 0
  BY DEF IntegerMin
<1>4. n \in Int
  BY <1>2, <1>3
<1>5. Suffix(T) = <<>> \/ \E x \in Tokens : Suffix(T) = <<x>>
  BY DEF IntegerTypes, Suffix, Tokens
<1>6. CASE n >= 0
  <2>1. to_string(n) = Written(Decimal(n)) /\ n \in Nat
    BY <1>4, <1>6 DEF to_string
  <2>2. read = [type |-> LiteralType(Suffix(T), n), value |-> n]
    BY <1>5, <2>1, IntegerParts
  <2>3. LiteralType(Suffix(T), n) = T
    BY <1>2, <2>1, LiteralTyped
  <2>4. ~(T \in SignedTypes /\ n = IntegerMin(T))
    BY <1>2, <1>3, <1>6
  <2> HIDE DEF read
  <2> QED BY <2>2, <2>3, <2>4 DEF read
<1>7. CASE n < 0
  <2>1. PICK m \in Nat : m = -n
    BY <1>4, <1>7
  <2>2. to_string(n) = <<"-">> \o Written(Decimal(m)) /\ n = -m
    BY <1>4, <1>7, <2>1 DEF to_string
  <2>3. read = [type |-> LiteralType(Suffix(T), m), value |-> -m]
    BY <1>5, <2>2, IntegerParts
  <2>4. T \in SignedTypes /\ IntegerMin(T) = -max - 1
    BY <1>2, <1>3, <1>7
  <2>5. m <= max <=> n # IntegerMin(T)
    BY <1>2, <1>4, <2>1, <2>2, <2>4
  <2>6. m <= max <=> LiteralType(Suffix(T), m) = T
    BY LiteralTyped
  <2> HIDE DEF read
  <2>7. (read.type = T /\ read.value = n) <=> LiteralType(Suffix(T), m) = T
    BY <2>2, <2>3
  <2> QED BY <2>4, <2>5, <2>6, <2>7 DEF read
<1> QED BY <1>4, <1>6, <1>7

-----------------------------------------------------------------------------
(* Floating literals *)

AllWords == FloatWords \cup Tokens

LEMMA FloatWordsApart ==
  /\ "f" \notin FloatWords /\ "L" \notin FloatWords
  /\ Char[Digit(0)] \in FloatWords
  /\ \A w \in Characters : w # "." /\ w # "e"
<1>1. \A w \in Characters : w \notin Tokens
  BY CodeOf DEF Characters
<1>2. \A d \in 0 .. 9 : Char[Digit(d)] \in Characters
  BY FigureTyped, CodeOf
<1>3. "f" \in Tokens /\ "L" \in Tokens /\ "." \in Tokens /\ "e" \in Tokens
  BY DEF Tokens
<1>4. 0 \in 0 .. 9
  OBVIOUS
<1> QED BY <1>1, <1>2, <1>3, <1>4 DEF FloatWords

LEMMA LastJoined ==
  ASSUME NEW S, NEW s \in Seq(S), NEW x \in S
  PROVE  /\ s \o <<x>> \in Seq(S) /\ s \o <<x>> # <<>>
         /\ Last(s \o <<x>>) = x
         /\ \A y : Contains(s, y) => Contains(s \o <<x>>, y)
         /\ Contains(s \o <<x>>, x)
<1> DEFINE t == Append(s, x)
<1>1. s \o <<x>> = t
  BY AppendIsConcat
<1>2. /\ t \in Seq(S) /\ t # <<>> /\ Len(t) = Len(s) + 1 /\ Len(s) \in Nat
      /\ \A i \in 1 .. Len(s) : t[i] = s[i]
      /\ t[Len(s) + 1] = x
  BY AppendProperties, LenProperties
<1> HIDE DEF t
<1>3. Last(t) = x
  BY <1>2 DEF Last
<1>4. Len(s) + 1 \in 1 .. Len(t) /\ \A i \in 1 .. Len(s) : i \in 1 .. Len(t)
  BY <1>2
<1>5. Contains(t, x) /\ \A y : Contains(s, y) => Contains(t, y)
  BY <1>2, <1>4 DEF Contains
<1> QED BY <1>1, <1>2, <1>3, <1>5

LEMMA FloatReadsBack ==
  ASSUME NEW T \in FloatTypes, NEW content \in Seq(FloatWords) \ {<<>>},
         content \notin NotFinite
  PROVE  ReadFloat(FloatText(T, content)) = T
<1> DEFINE point == <<".">> \o Written(<<Digit(0)>>)
           digits == content \o (IF IsFloating(content) THEN <<>> ELSE point)
           zero == Char[Digit(0)]
<1>1. FloatText(T, content) = digits \o Suffix(T)
  BY Zenon DEF FloatText, NotFinite
<1>2. content \in Seq(FloatWords) /\ FloatWords \subseteq AllWords /\ Tokens \subseteq AllWords
  BY DEF AllWords
<1>3. /\ digits \in Seq(FloatWords) /\ digits # <<>> /\ IsFloating(digits)
      /\ Last(digits) \in FloatWords
  <2>1. CASE IsFloating(content)
    <3>1. digits = content
      <4>1. digits = content \o <<>>
        BY <2>1, Zenon
      <4> QED BY <1>2, <4>1, ConcatEmptySeq
    <3>2. Len(content) \in Nat \ {0}
      BY EmptySeq
    <3>3. Last(content) \in FloatWords
      BY <3>2 DEF Last
    <3> HIDE DEF digits
    <3> QED BY <2>1, <3>1, <3>3
  <2>2. CASE ~IsFloating(content)
    <3>1. Written(<<Digit(0)>>) = <<zero>>
      <4>1. Digit(0) \in Byte
        BY FigureTyped
      <4> QED BY <4>1, WrittenOne
    <3>2. digits = content \o (<<".">> \o <<zero>>)
      BY <2>2, <3>1, Zenon
    <3>3. "." \in FloatWords /\ zero \in FloatWords
      BY FloatWordsApart DEF FloatWords
    <3>4. <<".">> \in Seq(FloatWords) /\ <<zero>> \in Seq(FloatWords)
      BY <3>3, OneWord
    <3>5. Associate(content, <<".">>, <<zero>>)
      BY <1>2, <3>4, Associated, Zenon
    <3> DEFINE pointed == content \o <<".">>
    <3>6. pointed \in Seq(FloatWords) /\ Contains(pointed, ".")
      BY <1>2, <3>3, LastJoined
    <3>7. digits = pointed \o <<zero>>
      BY <3>2, <3>5, Zenon DEF Associate
    <3> HIDE DEF pointed, digits, zero
    <3>8. /\ digits \in Seq(FloatWords) /\ digits # <<>> /\ Last(digits) = zero
          /\ Contains(digits, ".")
      BY <3>3, <3>6, <3>7, LastJoined
    <3> QED BY <3>3, <3>8 DEF IsFloating
  <2> QED BY <2>1, <2>2
<1> HIDE DEF digits
<1>4. ASSUME NEW x \in {"f", "L"}
      PROVE  IsFloating(digits \o <<x>>) /\ Last(digits \o <<x>>) = x
  <2>1. x \in AllWords /\ digits \in Seq(AllWords)
    BY <1>2, <1>3, SeqMonotonic DEF Tokens
  <2>2. /\ Last(digits \o <<x>>) = x
        /\ \A y : Contains(digits, y) => Contains(digits \o <<x>>, y)
    BY <2>1, LastJoined
  <2> QED BY <1>3, <2>2, Zenon DEF IsFloating
<1>5. CASE T = "float"
  <2>1. Suffix(T) = <<"f">>
    BY <1>5 DEF Suffix
  <2>2. IsFloating(digits \o <<"f">>) /\ Last(digits \o <<"f">>) = "f"
    BY <1>4
  <2> QED BY <1>1, <1>5, <2>1, <2>2, Zenon DEF ReadFloat
<1>6. CASE T = "double"
  <2>1. Suffix(T) = <<>>
    BY <1>6 DEF Suffix
  <2>2. digits \o <<>> = digits
    BY <1>3, ConcatEmptySeq
  <2>3. Last(digits) # "f" /\ Last(digits) # "L"
    BY <1>3, FloatWordsApart
  <2> QED BY <1>1, <1>3, <1>6, <2>1, <2>2, <2>3, Zenon DEF ReadFloat
<1>7. CASE T = "long double"
  <2>1. Suffix(T) = <<"L">>
    BY <1>7 DEF Suffix
  <2>2. IsFloating(digits \o <<"L">>) /\ Last(digits \o <<"L">>) = "L"
    BY <1>4
  <2>3. Last(digits \o <<"L">>) # "f"
    BY <2>2
  <2> QED BY <1>1, <1>7, <2>1, <2>2, <2>3, Zenon DEF ReadFloat
<1> QED BY <1>5, <1>6, <1>7 DEF FloatTypes

-----------------------------------------------------------------------------
\* The text of a value that has a literal reads back as that value and its type,
\* unless it is the least value of int, long or long long, and then it does not.
THEOREM LiteralReadsBack ==
  ASSUME NEW v, HasLiteral(v)
  PROVE  ReadsBack(v) <=> ~IsLeast(v)
<1> DEFINE T == v.type.name
           x == v.content
<1>1. CASE T = "char" /\ x \in Byte
  <2>1. LiteralText(v) = CharText(x)
    BY <1>1 DEF LiteralText, IntegerTypes, FloatTypes
  <2>2. ReadsBack(v) <=> LET read == ReadLiteral(Tail(LiteralText(v)), Apostrophe)
                         IN  read.mode = "done" /\ read.bytes = <<x>>
    BY <1>1 DEF ReadsBack, IntegerTypes, FloatTypes
  <2>3. ~IsLeast(v)
    BY <1>1 DEF IsLeast, SignedTypes
  <2> HIDE DEF x
  <2> QED BY <1>1, <2>1, <2>2, <2>3, CharReadsBack
<1>2. CASE T = "string" /\ x \in Seq(Byte)
  <2>1. LiteralText(v) = StringText(x)
    BY <1>2 DEF LiteralText, IntegerTypes, FloatTypes
  <2>2. ReadsBack(v) <=> ReadString(LiteralText(v)) = x
    BY <1>2 DEF ReadsBack, IntegerTypes, FloatTypes
  <2>3. ~IsLeast(v)
    BY <1>2 DEF IsLeast, SignedTypes
  <2> HIDE DEF x
  <2> QED BY <1>2, <2>1, <2>2, <2>3, StringReadsBack
<1>3. CASE T \in IntegerTypes /\ x \in IntegerMin(T) .. IntegerMax(T)
  <2> DEFINE read(text) == ReadInteger(text)
             Back(text) == ReadInteger(text).type = T /\ ReadInteger(text).value = x
  <2>1. T # "char" /\ T # "string" /\ T \notin FloatTypes
    BY <1>3 DEF IntegerTypes, FloatTypes
  <2>2. LiteralText(v) = to_string(x) \o Suffix(T)
    BY <1>3, <2>1, Zenon DEF LiteralText
  <2>3. ReadsBack(v) <=> Back(LiteralText(v))
    BY <1>3, <2>1, Zenon DEF ReadsBack
  <2>4. Back(to_string(x) \o Suffix(T)) <=> ~(T \in SignedTypes /\ x = IntegerMin(T))
    <3> HIDE DEF T, x
    <3> QED BY <1>3, IntegerReadsBack
  <2>5. IsLeast(v) <=> T \in SignedTypes /\ x = IntegerMin(T)
    BY DEF IsLeast
  <2> HIDE DEF Back, T, x
  <2> QED BY <2>2, <2>3, <2>4, <2>5
<1>4. CASE T \in FloatTypes /\ (x \in NotFinite \/ x \in Seq(FloatWords) \ {<<>>})
  <2>1. T # "char" /\ T # "string" /\ T \notin IntegerTypes
    BY <1>4 DEF IntegerTypes, FloatTypes
  <2>2. LiteralText(v) = FloatText(T, x)
    BY <1>4, <2>1, Zenon DEF LiteralText
  <2>3. ReadsBack(v) <=> x \in NotFinite \/ ReadFloat(LiteralText(v)) = T
    BY <1>4, <2>1, Zenon DEF ReadsBack
  <2>4. ~IsLeast(v)
    BY <2>1 DEF IsLeast, SignedTypes, IntegerTypes
  <2> HIDE DEF T, x
  <2> QED BY <1>4, <2>2, <2>3, <2>4, FloatReadsBack
<1> QED BY <1>1, <1>2, <1>3, <1>4, Zenon DEF HasLiteral

\* What a float draw makes of the engine's answer is digits, or not finite.
LEMMA NumberWords ==
  ASSUME NEW n \in Int
  PROVE  to_string(n) \in Seq(FloatWords) \ {<<>>}
<1>1. ASSUME NEW m \in Nat
      PROVE  Written(Decimal(m)) \in Seq(FloatWords) \ {<<>>}
  <2> DEFINE s == Decimal(m)
             w == Written(s)
  <2>1. s \in Seq(Figures) /\ Figures \subseteq Byte
    BY DecimalUnfolds DEF Figures, Byte, Digit
  <2>2. s \in Seq(Byte)
    BY <2>1, SeqMonotonic
  <2>3. w # <<>>
    BY DecimalReadsBack
  <2> HIDE DEF s
  <2>4. /\ w \in Seq(Characters) /\ Len(w) = Len(s) /\ Len(s) \in Nat
        /\ \A i \in 1 .. Len(s) : w[i] = Char[s[i]]
    BY <2>2, WrittenTyped
  <2>5. ASSUME NEW i \in 1 .. Len(s) PROVE w[i] \in FloatWords
    <3>1. s[i] \in Figures
      BY <2>1
    <3>2. s[i] - 48 \in 0 .. 9 /\ Digit(s[i] - 48) = s[i]
      BY <3>1 DEF Figures, Digit
    <3>3. Char[Digit(s[i] - 48)] \in FloatWords
      BY <3>2 DEF FloatWords
    <3> QED BY <2>4, <3>2, <3>3
  <2> HIDE DEF w
  <2>6. w \in Seq(FloatWords)
    BY <2>4, <2>5
  <2> QED BY <2>3, <2>6 DEF w, s
<1>2. CASE n < 0
  <2>1. PICK m \in Nat : m = -n
    BY <1>2
  <2> DEFINE w == Written(Decimal(m))
  <2>2. w \in Seq(FloatWords) /\ to_string(n) = <<"-">> \o w
    BY <1>1, <1>2, <2>1 DEF to_string
  <2> HIDE DEF w
  <2>3. <<"-">> \in Seq(FloatWords) /\ Len(<<"-">>) = 1
    BY OneWord DEF FloatWords
  <2>4. <<"-">> \o w \in Seq(FloatWords) /\ Len(<<"-">> \o w) = 1 + Len(w) /\ Len(w) \in Nat
    BY <2>2, <2>3, ConcatProperties, LenProperties
  <2>5. 1 + Len(w) # 0
    BY <2>4
  <2> QED BY <2>2, <2>4, <2>5, EmptySeq
<1>3. CASE n >= 0
  BY <1>1, <1>3 DEF to_string
<1> QED BY <1>2, <1>3

\* A number that was drawn has a literal.
LEMMA DrawnHasLiteral ==
  ASSUME NEW g \in Generators, NEW x \in Answers(g), x # Refused,
         g.type \in {"signed", "unsigned", "float"}
  PROVE  HasLiteral(Drawn(g, x))
<1>1. x \in Legal(g)
  BY AnswersTruthful DEF Truthful
<1>2. CASE g.type = "signed"
  <2>1. Drawn(g, x) = Value(Basic("long"), x) /\ x \in Signed
    BY <1>1, <1>2 DEF Drawn, Legal
  <2>2. x \in IntegerMin("long") .. IntegerMax("long") /\ "long" \in IntegerTypes
    BY <2>1 DEF IntegerMin, IntegerMax, Signed, SignedTypes, IntegerTypes
  <2> QED BY <2>1, <2>2 DEF HasLiteral, Value, Basic, Type
<1>3. CASE g.type = "unsigned"
  <2>1. Drawn(g, x) = Value(Basic("unsigned long"), x) /\ x \in Unsigned
    BY <1>1, <1>3 DEF Drawn, Legal
  <2>2. Weight[Bytes] - 1 = 2 * IntMax + 1
    <3>1. Weight[Bytes] % 2 = 0 /\ Weight[Bytes] \in Nat
      BY Widths, EvenWidth
    <3> QED BY <3>1 DEF IntMax
  <2>3. /\ x \in IntegerMin("unsigned long") .. IntegerMax("unsigned long")
        /\ "unsigned long" \in IntegerTypes
    BY <2>1, <2>2 DEF IntegerMin, IntegerMax, Unsigned, SignedTypes, IntegerTypes
  <2> DEFINE v == Drawn(g, x)
  <2>4. v.type.name = "unsigned long" /\ v.content = x
    <3> DEFINE u == Value(Basic("unsigned long"), x)
    <3>1. u.type.name = "unsigned long" /\ u.content = x
      BY DEF Value, Basic, Type
    <3>2. v = u
      BY <2>1
    <3> HIDE DEF u, v
    <3> QED BY <3>1, <3>2
  <2>5. v = Value(Basic(v.type.name), v.content)
    BY <2>1, <2>4, Zenon
  <2> HIDE DEF v
  <2>6. HasLiteral(v)
    BY <2>3, <2>4, <2>5, Zenon DEF HasLiteral
  <2> QED BY <2>6 DEF v
<1>4. CASE g.type = "float"
  <2> DEFINE T == IF g.width = 32 THEN "float" ELSE "double"
  <2>1. Drawn(g, x) = Value(Basic(T), Digits(x)) /\ T \in FloatTypes
    BY <1>4 DEF Drawn, FloatTypes
  <2>2. x = NaN \/ x \in Int
    <3>1. x \in LegalFloats(g)
      BY <1>1, <1>4 DEF Legal
    <3>2. DoubleMax \in Int /\ FloatMax \in Int
      BY BasicDrawsAssumption
    <3> QED BY <3>1, <3>2 DEF LegalFloats, Floats, Infinity
  <2>3. Digits(x) \in NotFinite \/ Digits(x) \in Seq(FloatWords) \ {<<>>}
    <3>1. CASE x \in {NaN, Infinity, -Infinity}
      <4>1. Digits(x) \in NotFinite
        BY <3>1 DEF Digits, NotFinite
      <4> QED BY <4>1
    <3>2. CASE x \notin {NaN, Infinity, -Infinity}
      <4>1. Digits(x) = to_string(x)
        BY <3>2 DEF Digits
      <4> QED BY <2>2, <3>2, <4>1, NumberWords
    <3> QED BY <3>1, <3>2
  <2> HIDE DEF T
  <2> QED BY <2>1, <2>3 DEF HasLiteral, Value, Basic, Type
<1> QED BY <1>2, <1>3, <1>4

\* A line of the report tells the value that was drawn, unless it is the least of
\* int, long or long long (repr).
THEOREM DrawsRendered == Spec => []RendersExpressions
<1>1. LiteralsReadBack
  BY PrintedDrawsAssumption, LiteralReadsBack DEF PrintedDrawsAssumption, LiteralsReadBack
<1>2. ASSUME IInv PROVE RendersExpressions
  <2> SUFFICES ASSUME NEW i \in DOMAIN stack, NumberDrawn(stack[i])
               PROVE  LET v == Drawn(stack[i].generator, stack[i].value)
                      IN IsLeast(v) \/ ReadsBack(v)
    BY <1>1 DEF RendersExpressions
  <2>1. i \in 1 .. Len(stack)
    BY <1>2, StackTyped DEF IInv
  <2>2. stack[i] \in BasicFrames
    BY <1>2, <2>1, StackTyped, FrameKinds DEF IInv, NumberDrawn
  <2>3. stack[i].generator \in Generators /\ stack[i].value \in Answers(stack[i].generator)
    BY <2>2 DEF BasicFrames
  <2>4. HasLiteral(Drawn(stack[i].generator, stack[i].value))
    BY <2>3, DrawnHasLiteral DEF NumberDrawn
  <2> QED BY <2>4, LiteralReadsBack
<1> QED BY DrawsInductive, <1>2, PTL
=============================================================================
