------------------------------- MODULE Draws --------------------------------
(***************************************************************************)
(* Drawing values in one thread of one test case: TestCase::draw, the      *)
(* generators that call one another, the engine-managed collections, the   *)
(* combinators, filter's retries, TestCase::repeat and the names under     *)
(* which the outermost draws are printed.                                  *)
(*                                                                         *)
(* The call stack is a sequence of frames, the innermost last; an empty    *)
(* stack is the user's own body.  Of a drawn value only its identity       *)
(* counts (two elements may be equal), so Values is a small set; the       *)
(* basic draws, whose values are numbers, are in BasicDraws.               *)
(***************************************************************************)
EXTENDS BasicDraws, SequencesExt

CONSTANTS Values, NoValue,
          Names,        \* the names users give, as sequences; <<>> is none
          Requests,     \* the basic generators
          MaxSize, MaxDepth, MaxDraws          \* bounds

ASSUME DrawsAssumption ==
  /\ NoValue \notin Values
  /\ {MaxSize, MaxDepth, MaxDraws} \subseteq Nat
  /\ Requests \subseteq BasicRequests /\ DefaultMax \in Unsigned
  /\ \A name \in Names : Len(name) \in Nat /\ name = [i \in 1 .. Len(name) |-> name[i]]

Kinds == {"vector", "unique vector", "set", "map"}

VARIABLES
  stack,               \* the frames of the calls in progress
  returned,            \* what the call that just returned gave back
  draw_depth,          \* TestCaseData::draw_depth
  draw_name_counts,    \* TestCaseData::draw_name_counts
  taken_display_names, \* TestCaseData::taken_display_names
  shown,               \* the names printed, in order
  over                 \* the body has ended

vars == <<stack, returned, draw_depth, draw_name_counts, taken_display_names,
          shown, over>>
names == <<draw_name_counts, taken_display_names>>

Unnamed == <<"draw">>
BaseName(name) == IF name = <<>> THEN Unnamed ELSE name
Bases == {BaseName(name) : name \in Names}

Top == stack[Len(stack)]
Below == SubSeq(stack, 1, Len(stack) - 1)
Replace(frame) == stack' = Append(Below, frame)
DrawsIn(frames) == {i \in DOMAIN frames : frames[i].kind = "draw"}

Init ==
  /\ stack = <<>>
  /\ returned = NoValue
  /\ draw_depth = 0
  /\ draw_name_counts = [base \in Bases |-> 0]
  /\ taken_display_names = {}
  /\ shown = <<>>
  /\ over = FALSE

\* The user's code runs: the body itself, a compose() function, repeat()'s body.
InUserCode ==
  /\ ~over
  /\ stack # <<>> => \/ Top.kind = "compose"
                     \/ Top.kind = "repeat" /\ Top.stage = "body"

\* A generator calls do_draw of another, or TestCase::draw that of its own.
WantsElement ==
  /\ stack # <<>>
  /\ returned = NoValue
  /\ \/ Top.kind \in {"draw", "filter"}
     \/ Top.kind \in Kinds /\ Top.stage \in {"element", "value"}
     \/ Top.kind = "parts" /\ Top.left > 0

Call(frame) == /\ Len(stack) < MaxDepth
               /\ stack' = Append(stack, frame)

Give(v) == /\ stack' = Below
           /\ returned' = v

-----------------------------------------------------------------------------
(* An exception unwinds the stack to the handler that takes it.  repeat()  *)
(* takes a rejection; so does the loop over a state machine's rules, below *)
(* an empty stack, after which the next rule runs in the same test case.   *)

Handlers == {i \in DOMAIN stack :
               stack[i].kind = "repeat" /\ stack[i].stage = "body"}

\* A DrawLogScope whose destructor does not run when an exception passes.
UnwindKeepsDepth(handlers) ==
  LET n    == IF handlers = {} THEN 0 ELSE Max(handlers)
      left == SubSeq(stack, 1, n)
  IN /\ stack' = IF n = 0 THEN <<>> ELSE [left EXCEPT ![n].stage = "more"]
     /\ returned' = NoValue
     /\ UNCHANGED <<draw_depth, names, shown>>

Unwind(handlers) ==
  LET n    == IF handlers = {} THEN 0 ELSE Max(handlers)
      left == SubSeq(stack, 1, n)
  IN /\ stack' = IF n = 0 THEN <<>> ELSE [left EXCEPT ![n].stage = "more"]
     /\ draw_depth' = draw_depth - Cardinality({i \in DrawsIn(stack) : i > n})
     /\ returned' = NoValue
     /\ UNCHANGED <<names, shown>>

Reject ==
  /\ Unwind(Handlers)
  /\ over' \in IF Handlers = {} THEN BOOLEAN ELSE {FALSE}

Fail == /\ Unwind({})
        /\ over' = TRUE

\* assume(false) or reject() in the user's code; the user's own exceptions.
UserRejects == InUserCode /\ Reject
UserFails == InUserCode /\ Fail

-----------------------------------------------------------------------------
(* TestCase::draw: DrawLogScope's constructor chooses the name before the  *)
(* value is drawn, the line is printed after.                              *)

Fresh(base, count) ==
  Append(base, CHOOSE n \in count .. count + Cardinality(taken_display_names) :
                 /\ Append(base, n) \notin taken_display_names
                 /\ \A m \in count .. n - 1 :
                      Append(base, m) \in taken_display_names)

DisplayName(name, repeatable) ==
  LET base  == BaseName(name)
      count == draw_name_counts[base] + 1
  IN IF name # <<>> /\ ~repeatable THEN base ELSE Fresh(base, count)

DrawLogScope(name, repeatable) ==
  /\ draw_depth' = draw_depth + 1
  /\ IF draw_depth = 0
     THEN LET display == DisplayName(name, repeatable)
          IN /\ Call([kind |-> "draw", outermost |-> TRUE, display |-> display,
                      suffixed |-> name = <<>> \/ repeatable])
             /\ draw_name_counts' = [draw_name_counts EXCEPT ![BaseName(name)] = @ + 1]
             /\ taken_display_names' = taken_display_names \cup {display}
     ELSE /\ Call([kind |-> "draw", outermost |-> FALSE, display |-> <<>>,
                   suffixed |-> FALSE])
          /\ UNCHANGED names

OutermostSoFar == MapThenSumSet(LAMBDA base : draw_name_counts[base], Bases)

BeginDraw(name, repeatable) ==
  /\ InUserCode
  /\ draw_depth = 0 => OutermostSoFar < MaxDraws
  /\ DrawLogScope(name, repeatable)
  /\ UNCHANGED <<returned, shown, over>>

EndDraw ==
  /\ stack # <<>> /\ Top.kind = "draw"
  /\ returned # NoValue
  /\ shown' = IF Top.outermost
              THEN Append(shown, [display |-> Top.display, suffixed |-> Top.suffixed])
              ELSE shown
  /\ draw_depth' = draw_depth - 1
  /\ Give(NoValue)
  /\ UNCHANGED <<names, over>>

-----------------------------------------------------------------------------
(* Collections.  count is the engine's: the elements it asked for less     *)
(* those handed back with collection.reject.                               *)

(* The sizes are explored within the first draw, one collection deep.      *)

Collecting == \E i \in DOMAIN stack : stack[i].kind \in Kinds
Sizes == {s \in (0 .. MaxSize) \X ((0 .. MaxSize) \cup {Unset}) :
            s[2] # Unset => s[1] <= s[2]}

BeginCollection(kind, min, max) ==
  /\ WantsElement /\ ~Collecting /\ OutermostSoFar = 1
  /\ Call([kind |-> kind, stage |-> "more", min |-> min, max |-> max,
           count |-> 0, held |-> <<>>, key |-> NoValue])
  /\ UNCHANGED <<returned, draw_depth, names, shown, over>>

\* The engine may end the collection between its bounds, and only there.
More ==
  /\ Top.stage = "more"
  /\ Top.count < Given(Top.max, MaxSize)
  /\ Replace([Top EXCEPT !.stage = "element", !.count = @ + 1])

NoMore ==
  /\ Top.stage = "more"
  /\ Top.count >= Top.min
  /\ Replace([Top EXCEPT !.stage = "done"])

CollectionMore ==
  /\ stack # <<>> /\ Top.kind \in Kinds
  /\ More \/ NoMore
  /\ UNCHANGED <<returned, draw_depth, names, shown, over>>

Holds(v) == \E i \in DOMAIN Top.held : Top.held[i] = v

Keep(v) == [Top EXCEPT !.held = Append(@, v), !.stage = "more", !.key = NoValue]
HandBack == [Top EXCEPT !.count = @ - 1, !.stage = "more"]

\* A duplicate is dropped and the engine is not told.
ElementDropsSilently(v) ==
  CASE Top.kind = "vector" -> Keep(v)
    [] Top.kind \in {"unique vector", "set"} ->
         IF Holds(v) THEN [Top EXCEPT !.stage = "more"] ELSE Keep(v)
    [] Top.kind = "map" ->
         IF Top.stage = "value" THEN Keep(Top.key)
         ELSE IF Holds(v) THEN HandBack
         ELSE [Top EXCEPT !.key = v, !.stage = "value"]

Element(v) ==
  CASE Top.kind = "vector" -> Keep(v)
    [] Top.kind \in {"unique vector", "set"} ->
         IF Holds(v) THEN HandBack ELSE Keep(v)
    [] Top.kind = "map" ->
         IF Top.stage = "value" THEN Keep(Top.key)
         ELSE IF Holds(v) THEN HandBack
         ELSE [Top EXCEPT !.key = v, !.stage = "value"]

CollectionElement ==
  /\ stack # <<>> /\ Top.kind \in Kinds
  /\ returned # NoValue
  /\ Replace(Element(returned))
  /\ returned' = NoValue
  /\ UNCHANGED <<draw_depth, names, shown, over>>

EndCollection(v) ==
  /\ stack # <<>> /\ Top.kind \in Kinds /\ Top.stage = "done"
  /\ Give(v)
  /\ UNCHANGED <<draw_depth, names, shown, over>>

-----------------------------------------------------------------------------
(* The combinators: map and the chosen branch of one_of, variant or        *)
(* optional draw one part, nullopt none, flat_map two, tuples, arrays and  *)
(* builds one after another; compose runs the user's function.             *)

BeginParts(n) ==
  /\ WantsElement
  /\ Call([kind |-> "parts", left |-> n])
  /\ UNCHANGED <<returned, draw_depth, names, shown, over>>

NextPart ==
  /\ stack # <<>> /\ Top.kind = "parts"
  /\ returned # NoValue
  /\ Replace([Top EXCEPT !.left = @ - 1])
  /\ returned' = NoValue
  /\ UNCHANGED <<draw_depth, names, shown, over>>

EndParts(v) ==
  /\ stack # <<>> /\ Top.kind = "parts"
  /\ Top.left = 0 /\ returned = NoValue
  /\ Give(v)
  /\ UNCHANGED <<draw_depth, names, shown, over>>

BeginCompose ==
  /\ WantsElement
  /\ Call([kind |-> "compose"])
  /\ UNCHANGED <<returned, draw_depth, names, shown, over>>

EndCompose(v) ==
  /\ stack # <<>> /\ Top.kind = "compose"
  /\ Give(v)
  /\ UNCHANGED <<draw_depth, names, shown, over>>

BeginFilter ==
  /\ WantsElement
  /\ Call([kind |-> "filter", tries |-> 0])
  /\ UNCHANGED <<returned, draw_depth, names, shown, over>>

\* The predicate holds of the value, or it is drawn again, three times in all.
FilterKeeps ==
  /\ stack # <<>> /\ Top.kind = "filter"
  /\ returned # NoValue
  /\ Give(returned)
  /\ UNCHANGED <<draw_depth, names, shown, over>>

\* The loop ends one turn late.
AgainOnceMore(tries) == tries + 1 <= 3

Again(tries) == tries + 1 < 3

FilterRetries ==
  /\ stack # <<>> /\ Top.kind = "filter"
  /\ returned # NoValue
  /\ IF Again(Top.tries)
     THEN /\ Replace([Top EXCEPT !.tries = @ + 1])
          /\ returned' = NoValue
          /\ UNCHANGED <<draw_depth, names, shown, over>>
     ELSE Reject

-----------------------------------------------------------------------------
(* TestCase::repeat: a minimum, then a collection without an upper bound   *)
(* whose elements are the runs of the body, rejected ones included.        *)

BeginRepeat(min) ==
  /\ InUserCode
  /\ \A i \in DOMAIN stack : stack[i].kind # "repeat"
  /\ Call([kind |-> "repeat", stage |-> "more", min |-> min, count |-> 0])
  /\ UNCHANGED <<returned, draw_depth, names, shown, over>>

Repeat ==
  /\ stack # <<>> /\ Top.kind = "repeat" /\ Top.stage = "more"
  /\ Top.count < MaxSize
  /\ Replace([Top EXCEPT !.stage = "body", !.count = @ + 1])
  /\ UNCHANGED <<returned, draw_depth, names, shown, over>>

EndIteration ==
  /\ stack # <<>> /\ Top.kind = "repeat" /\ Top.stage = "body"
  /\ Replace([Top EXCEPT !.stage = "more"])
  /\ UNCHANGED <<returned, draw_depth, names, shown, over>>

EndRepeat ==
  /\ stack # <<>> /\ Top.kind = "repeat" /\ Top.stage = "more"
  /\ Top.count >= Top.min
  /\ Give(NoValue)
  /\ UNCHANGED <<draw_depth, names, shown, over>>

-----------------------------------------------------------------------------
(* Basic draws.  Which generator and which answer matters to a draw of its *)
(* own, and is enumerated for the first one; elsewhere a value is drawn.   *)

DrawValue(v) ==
  /\ WantsElement
  /\ returned' = v
  /\ UNCHANGED <<stack, draw_depth, names, shown, over>>

Generators == {g \in Requests : Built(g)}

BeginBasic ==
  /\ WantsElement
  /\ Len(stack) = 1 /\ taken_display_names = {Append(Unnamed, 1)}
  /\ \E g \in Generators : \E v \in Answers(g) :
       Call([kind |-> "basic", generator |-> g, value |-> v])
  /\ UNCHANGED <<returned, draw_depth, names, shown, over>>

EndBasic(v) ==
  /\ stack # <<>> /\ Top.kind = "basic"
  /\ IF Top.value = Refused
     THEN Fail                               \* std::invalid_argument
     ELSE /\ Give(v)
          /\ UNCHANGED <<draw_depth, names, shown, over>>

\* HegelRandom::operator() in the user's code draws 32 bits of the engine, past
\* TestCase::draw, and hands them to the caller.
HegelRandom == InUserCode

\* raise_for_rc: any draw, and any question about a collection, may be told
\* to stop (HegelStopTest) or that the case is rejected (HegelReject).
AsksEngine ==
  \/ WantsElement
  \/ HegelRandom
  \/ /\ stack # <<>> /\ Top.kind \in Kinds \cup {"repeat"}
     /\ Top.stage = "more"
EngineStops == AsksEngine /\ Fail
EngineRejects == AsksEngine /\ Reject

EndBody ==
  /\ stack = <<>> /\ ~over
  /\ over' = TRUE
  /\ UNCHANGED <<stack, returned, draw_depth, names, shown>>

Done == over /\ UNCHANGED vars

Next ==
  \/ \E name \in Names, repeatable \in BOOLEAN : BeginDraw(name, repeatable)
  \/ EndDraw
  \/ \E kind \in Kinds, s \in Sizes : BeginCollection(kind, s[1], s[2])
  \/ CollectionMore \/ CollectionElement
  \/ \E v \in Values : \/ DrawValue(v) \/ EndCollection(v) \/ EndParts(v)
                       \/ EndCompose(v) \/ EndBasic(v)
  \/ \E n \in 0 .. 2 : BeginParts(n)
  \/ NextPart
  \/ BeginCompose
  \/ BeginFilter \/ FilterKeeps \/ FilterRetries
  \/ \E min \in 0 .. MaxSize : BeginRepeat(min)
  \/ Repeat \/ EndIteration \/ EndRepeat
  \/ BeginBasic
  \/ UserRejects \/ UserFails \/ EngineStops \/ EngineRejects
  \/ EndBody \/ Done

Spec == Init /\ [][Next]_vars

-----------------------------------------------------------------------------
\* A base name, or one with a number behind it.
IsDisplayName(name) ==
  \/ name \in Bases
  \/ Front(name) \in Bases /\ Last(name) \in Nat \ {0}

DrawFrames(displays) == [kind : {"draw"}, outermost : BOOLEAN,
                         suffixed : BOOLEAN, display : displays]
CollectionFrames ==
  [kind : Kinds, stage : {"more", "element", "value", "done"},
   min : 0 .. MaxSize, max : (0 .. MaxSize) \cup {Unset},
   count : 0 .. MaxSize, key : Values \cup {NoValue}, held : Seq(Values)]
PartsFrames == [kind : {"parts"}, left : 0 .. 2]
ComposeFrames == [kind : {"compose"}]
FilterFrames == [kind : {"filter"}, tries : 0 .. 2]
RepeatFrames == [kind : {"repeat"}, stage : {"more", "body"},
                 min : 0 .. MaxSize, count : 0 .. MaxSize]

\* Every frame is in a state its function can be in: a filter is on one of
\* its three attempts, a collection never counts below zero.
TypeOK ==
  /\ \A i \in DOMAIN stack :
       \/ stack[i] \in DrawFrames(taken_display_names \cup {<<>>})
       \/ stack[i] \in CollectionFrames \cup PartsFrames \cup ComposeFrames
                        \cup FilterFrames \cup RepeatFrames
       \/ /\ stack[i].kind = "basic"
          /\ stack[i].generator \in Generators
          /\ i = Len(stack)
  /\ returned \in Values \cup {NoValue}
  /\ draw_depth \in 0 .. MaxDepth
  /\ draw_name_counts \in [Bases -> Nat]
  /\ \A display \in taken_display_names : IsDisplayName(display)
  /\ \A i \in DOMAIN shown :
       /\ shown[i].display \in taken_display_names
       /\ shown[i].suffixed \in BOOLEAN
  /\ over \in BOOLEAN

\* A collection that is complete has no fewer and no more elements than its
\* parameters say, and no element (key) twice where they must differ,
\* however many duplicates were drawn and handed back on the way.
SizesHold ==
  \A i \in DOMAIN stack :
    LET f == stack[i]
    IN f.kind \in Kinds /\ f.stage = "done" =>
         /\ Len(f.held) >= f.min
         /\ f.max # Unset => Len(f.held) <= f.max
         /\ f.kind # "vector" =>
              \A j, k \in DOMAIN f.held : f.held[j] = f.held[k] => j = k

\* A basic generator returns a value its parameters allow, at every boundary
\* of the widths, and parameters its constructor let through are refused by
\* the engine only when they allow no value at all, ask for floats wider than
\* a double, or exclude a bound that was not given.
ValuesInRange ==
  \A i \in DOMAIN stack :
    LET f == stack[i]
    IN f.kind = "basic" =>
         IF f.value = Refused THEN Legal(f.generator) = {} \/ IllPosed(f.generator)
                              ELSE f.value \in Legal(f.generator)

\* A draw of the body itself is printed and one inside another draw is not,
\* whatever exceptions have passed through draws before.
OutermostDraws ==
  \A i \in DrawsIn(stack) :
    stack[i].outermost <=> \A j \in DrawsIn(stack) : j >= i

\* A suffixed name is unlike every name printed before it, and the suffixes
\* of a base only grow.
NamesFresh ==
  \A i, j \in DOMAIN shown :
    i < j /\ shown[j].suffixed =>
      /\ shown[j].display # shown[i].display
      /\ shown[i].suffixed /\ Front(shown[i].display) = Front(shown[j].display)
           => Last(shown[i].display) < Last(shown[j].display)

\* What the reader of a report relies on: one line for every draw of the
\* body, each numbered name unlike all the names printed before it.  A bare
\* name is printed as it was given, also over a number that is taken.
DrawsShown == OutermostDraws /\ NamesFresh
=============================================================================
