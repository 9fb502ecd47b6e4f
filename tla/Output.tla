------------------------------- MODULE Output -------------------------------
(***************************************************************************)
(* The notes of one concurrent test case: TestCase::note                   *)
(* (src/test_case.cpp) and group_concurrent_output (src/hegel.cpp).  The   *)
(* main thread, the workers of run_concurrent and the threads a rule may   *)
(* spawn on a clone of its test case all write into one output, guarded by *)
(* output_mutex.  A nondeterministic case buffers its lines, each with the *)
(* worker it came from, and its report groups them.                        *)
(*                                                                         *)
(* The rounds are those of ConcurrentRounds, reduced to what decides when  *)
(* a thread may write: the main thread opens a round, and notes its        *)
(* header, while it holds the mutex a worker needs to see the round.       *)
(***************************************************************************)
EXTENDS Naturals, Sequences, SequencesExt

CONSTANTS
  N,          \* workers
  Spawned,    \* threads that rules spawn: their clone has no worker_index
  Main, Nobody,
  MaxRounds,  \* bound on the rounds
  MaxNotes    \* bound on the notes of a thread in one round

ASSUME ThreadsAssumption ==
  /\ Main # Nobody
  /\ {Main, Nobody} \cap (Spawned \cup 0 .. N-1) = {}
ASSUME BoundsAssumption == {N, MaxRounds, MaxNotes} \subseteq Nat

Workers == 0 .. N-1
Participants == Workers \cup Spawned
Threads == {Main} \cup Participants

VARIABLES
  verbosity, is_final, buffer_output,   \* TestCaseData, shared by the clones
  in_report,
  main,             \* where the main thread is
  round_number,
  busy,             \* the participants that are inside the round
  waiting,          \* the participants that have not begun it
  notes,            \* how many notes each has begun in this round
  message,          \* the lines each thread is still to write of its note
  output_mutex,     \* who holds it
  output_lines,     \* the buffered records
  live,             \* what std::cerr has received, line by line
  printed_output,
  report            \* what the framed report prints of the case

mode == <<verbosity, is_final, buffer_output, in_report>>
rounds == <<main, round_number, busy, waiting>>
output == <<output_lines, live, printed_output>>
vars == <<mode, rounds, notes, message, output_mutex, output, report>>

Blank == <<>>

\* A line is identified by the round, the thread, and its place in them.
Texts == (0..MaxRounds) \X Threads \X (0..MaxNotes) \X (1..2)

\* The worker_index of a thread's test case, or N when it has none.
Label(t) == IF t \in Workers THEN t ELSE N

\* A case of the generation loop is buffered when it is nondeterministic; the
\* replay of a found failure is final, and frames what it prints unless it is quiet.
\* Debug prints what Verbose does.
Init ==
  /\ verbosity \in {"Quiet", "Normal", "Verbose"}
  /\ is_final \in BOOLEAN
  /\ buffer_output = ~is_final
  /\ in_report = (is_final /\ verbosity # "Quiet")
  /\ main = "publish"
  /\ round_number = 0
  /\ busy = {}
  /\ waiting = {}
  /\ notes = [t \in Participants |-> 0]
  /\ message = [t \in Threads |-> <<>>]
  /\ output_mutex = Nobody
  /\ output_lines = <<>>
  /\ live = <<>>
  /\ printed_output = FALSE
  /\ report = <<>>

-----------------------------------------------------------------------------
(* TestCase::note *)

ShouldLog ==
  CASE verbosity = "Quiet"              -> FALSE
    [] verbosity = "Normal"             -> is_final \/ buffer_output
    [] verbosity = "Verbose"            -> TRUE

EmitLive == ~buffer_output \/ verbosity = "Verbose"

\* The n-th note of t in this round, of one or two lines; nothing when it is not
\* logged.
Message(t, n, length) ==
  IF ShouldLog THEN [i \in 1..length |-> <<round_number, t, n, i>>] ELSE <<>>

\* Mutant of LockOutput: the body does not open with a blank line.
LockOutputOnly(t) ==
  /\ message[t] # <<>>
  /\ output_mutex = Nobody
  /\ output_mutex' = t
  /\ printed_output' = TRUE
  /\ UNCHANGED <<mode, rounds, notes, message, output_lines, live, report>>

\* The first line of a report's body follows a blank one.
LockOutput(t) ==
  /\ message[t] # <<>>
  /\ output_mutex = Nobody
  /\ output_mutex' = t
  /\ printed_output' = TRUE
  /\ live' = IF in_report /\ ~printed_output /\ EmitLive THEN <<Blank>> ELSE live
  /\ UNCHANGED <<mode, rounds, notes, message, output_lines, report>>

\* Mutant of WriteLine: the guard covers one line.
WriteLineUnlocks(t) ==
  /\ output_mutex = t
  /\ message[t] # <<>>
  /\ output_lines' = IF buffer_output
                     THEN Append(output_lines, [worker |-> Label(t), text |-> Head(message[t])])
                     ELSE output_lines
  /\ live' = IF EmitLive THEN Append(live, Head(message[t])) ELSE live
  /\ message' = [message EXCEPT ![t] = Tail(@)]
  /\ output_mutex' = Nobody
  /\ UNCHANGED <<mode, rounds, notes, printed_output, report>>

\* One line is buffered, written, or both; after the last the mutex is released.
WriteLine(t) ==
  /\ output_mutex = t
  /\ message[t] # <<>>
  /\ output_lines' = IF buffer_output
                     THEN Append(output_lines, [worker |-> Label(t), text |-> Head(message[t])])
                     ELSE output_lines
  /\ live' = IF EmitLive THEN Append(live, Head(message[t])) ELSE live
  /\ message' = [message EXCEPT ![t] = Tail(@)]
  /\ output_mutex' = IF Len(message[t]) = 1 THEN Nobody ELSE t
  /\ UNCHANGED <<mode, rounds, notes, printed_output, report>>

Silent(t) == message[t] = <<>>

-----------------------------------------------------------------------------
(* The rounds *)

\* Mutant of OpenRound: the round is visible before its header is noted.
OpenRoundEarly ==
  /\ main = "publish"
  /\ round_number < MaxRounds
  /\ round_number' = round_number + 1
  /\ main' = "await"
  /\ waiting' = Participants
  /\ notes' = [t \in Participants |-> 0]
  /\ message' = [message EXCEPT ![Main] =
       IF ShouldLog THEN <<<<round_number + 1, Main, 0, 1>>>> ELSE <<>>]
  /\ UNCHANGED <<mode, busy, output_mutex, output, report>>

\* The round begins under the mutex, with a note of its number and group.
OpenRound ==
  /\ main = "publish"
  /\ round_number < MaxRounds
  /\ round_number' = round_number + 1
  /\ main' = "header"
  /\ waiting' = Participants
  /\ notes' = [t \in Participants |-> 0]
  /\ message' = [message EXCEPT ![Main] =
       IF ShouldLog THEN <<<<round_number + 1, Main, 0, 1>>>> ELSE <<>>]
  /\ UNCHANGED <<mode, busy, output_mutex, output, report>>

\* The header is written and the mutex is released.
Await ==
  /\ main = "header"
  /\ Silent(Main)
  /\ main' = "await"
  /\ UNCHANGED <<mode, round_number, busy, waiting, notes, message, output_mutex,
                 output, report>>

\* A worker sees the round, or a rule of one spawns a thread.
Enter(t) ==
  /\ t \in waiting
  /\ main # "header"
  /\ waiting' = waiting \ {t}
  /\ busy' = busy \cup {t}
  /\ UNCHANGED <<mode, main, round_number, notes, message, output_mutex, output,
                 report>>

\* A rule's name, a value it draws, or a note of its own.
Note(t) ==
  /\ t \in busy
  /\ Silent(t)
  /\ notes[t] < MaxNotes
  /\ notes' = [notes EXCEPT ![t] = @ + 1]
  /\ \E length \in 1..2 :
       message' = [message EXCEPT ![t] = Message(t, notes[t] + 1, length)]
  /\ UNCHANGED <<mode, rounds, output_mutex, output, report>>

Leave(t) ==
  /\ t \in busy
  /\ Silent(t)
  /\ busy' = busy \ {t}
  /\ UNCHANGED <<mode, main, round_number, waiting, notes, message, output_mutex,
                 output, report>>

\* All have reported: the main thread may note a violated invariant.
CloseRound ==
  /\ main = "await"
  /\ Silent(Main)
  /\ busy = {} /\ waiting = {}
  /\ main' = "between"
  /\ \E length \in 0..1 :
       message' = [message EXCEPT ![Main] = Message(Main, MaxNotes, length)]
  /\ UNCHANGED <<mode, round_number, busy, waiting, notes, output_mutex, output,
                 report>>

NextRound ==
  /\ main = "between"
  /\ Silent(Main)
  /\ main' \in {"publish", "ended"}
  /\ UNCHANGED <<mode, round_number, busy, waiting, notes, message, output_mutex,
                 output, report>>

-----------------------------------------------------------------------------
(* The report *)

TextsOf(records) == [i \in DOMAIN records |-> records[i].text]

\* The record takes its place behind those of its own worker and of the workers
\* before it.
InsertRecord(sorted, r) ==
  InsertAt(sorted, Max({0} \cup {i \in DOMAIN sorted : sorted[i].worker <= r.worker}) + 1, r)

\* std::stable_sort: the records of one worker after those of another, each in
\* their order.
ByWorker(records) == FoldLeft(InsertRecord, <<>>, records)

Ungrouped == [lines |-> <<>>, round |-> <<>>]

\* append_grouped_worker_lines
Flush(acc) == acc.lines \o TextsOf(ByWorker(acc.round))

\* A line of a worker waits; one of the main thread goes out behind those that do.
AddRecord(acc, r) ==
  IF r.worker < N THEN [acc EXCEPT !.round = Append(@, r)]
  ELSE [lines |-> Append(Flush(acc), r.text), round |-> <<>>]

\* Mutant of GroupConcurrentOutput: the lines after the last one of the main
\* thread are forgotten.
GroupWithoutTail(records) == FoldLeft(AddRecord, Ungrouped, records).lines

\* Lines of the main thread stay where they are; those between two of them are
\* sorted by worker.
GroupConcurrentOutput(records) == Flush(FoldLeft(AddRecord, Ungrouped, records))

\* The case has failed.  A replay has printed its lines as they came; a buffered
\* case prints them now, unless the run is quiet.  A blank line closes the body.
Report ==
  /\ main = "ended" \/ (main = "publish" /\ round_number = MaxRounds)
  /\ main' = "reported"
  /\ LET body == IF buffer_output THEN GroupConcurrentOutput(output_lines) ELSE live
         open == IF buffer_output THEN body # <<>> ELSE printed_output
     IN  report' = IF verbosity = "Quiet" THEN <<>>
                   ELSE IF open THEN Append(body, Blank) ELSE body
  /\ UNCHANGED <<mode, round_number, busy, waiting, notes, message, output_mutex,
                 output>>

Next ==
  \/ OpenRound \/ Await \/ CloseRound \/ NextRound \/ Report
  \/ \E t \in Participants : Enter(t) \/ Note(t) \/ Leave(t)
  \/ \E t \in Threads : LockOutput(t) \/ WriteLine(t)

Spec == Init /\ [][Next]_vars

-----------------------------------------------------------------------------
(* Properties *)

RoundOf(text) == text[1]
ThreadOf(text) == text[2]

IsLine(line) == line # Blank

\* Text is written by a thread whose test case has no worker_index.
Unlabelled(line) == IsLine(line) => ThreadOf(line) \notin Workers

\* The lines of a note follow each other, on std::cerr and in the report,
\* whatever other threads note at the same time.
NotesUnbroken ==
  \A printed \in {live, report} : \A i \in DOMAIN printed :
    IsLine(printed[i]) /\ printed[i][4] = 2 =>
      /\ i > 1
      /\ printed[i-1] = <<printed[i][1], printed[i][2], printed[i][3], 1>>

\* The report shows the rounds one after the other, each after its header.
RoundsStayApart ==
  \A i, j \in DOMAIN report :
    i < j /\ IsLine(report[i]) /\ IsLine(report[j]) =>
      /\ RoundOf(report[i]) <= RoundOf(report[j])
      /\ RoundOf(report[i]) < RoundOf(report[j]) =>
           \E k \in i+1 .. j : report[k] = <<RoundOf(report[j]), Main, 0, 1>>

\* A buffered case loses no line; between two lines of the main thread, or of a
\* thread that a rule spawned, the workers come one after the other, each with
\* its lines in the order it noted them.
WorkersGrouped ==
  main = "reported" /\ buffer_output /\ verbosity # "Quiet" =>
    LET lines == Front(report)   \* without the blank line that closes it
    IN  /\ Len(lines) = Len(output_lines)
        /\ \A i, j \in DOMAIN lines :
             i < j /\ (\A k \in i..j : ~Unlabelled(lines[k])) =>
               \/ ThreadOf(lines[i]) < ThreadOf(lines[j])
               \/ /\ ThreadOf(lines[i]) = ThreadOf(lines[j])
                  /\ \/ lines[i][3] < lines[j][3]
                     \/ lines[i][3] = lines[j][3] /\ lines[i][4] < lines[j][4]

\* The body of a framed report is set off by one blank line at each end, and by
\* none when the case printed nothing.
BodySetOff ==
  main = "reported" /\ in_report =>
    {i \in DOMAIN report : report[i] = Blank} =
      (IF printed_output THEN {1, Len(report)} ELSE {})
=============================================================================
