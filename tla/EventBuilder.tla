----------------------------- MODULE EventBuilder -----------------------------
(***************************************************************************)
(* larlight::event_builder (NevisDecoder/EventBuilder): run() merges files *)
(* of different readout streams into events.  The master stream gives the  *)
(* event number; every other stream is moved to that number, and all its   *)
(* entries of that number (one per readout module) are put together.       *)
(*                                                                         *)
(* run() is sequential; its steps are the calls it makes on the algorithm  *)
(* of one stream: process(), which alternates build() and find_next(), and *)
(* check_event_quality().  A storage_manager that reads is the number of   *)
(* entries it has read, as StorageManager has it.                          *)
(***************************************************************************)
EXTENDS Integers, SequencesExt

CONSTANTS
  Inputs,   \* the files: stream -> event number of each entry
  Setups    \* the calling programs: the master stream, whether it was given a
            \* file, and the others that were, in the order of add_input()

Trigger == "Trigger"
PMT == "PMTFIFO"
TPC == "TPCFIFO"
Streams == {Trigger, PMT, TPC}

\* Readout counts events, so numbers do not decrease along a file.
ASSUME InputsAssumption ==
  \A f \in Inputs : f \in [Streams -> Seq(Nat \ {0})]
    /\ \A s \in Streams : \A j, k \in DOMAIN f[s] : j <= k => f[s][j] <= f[s][k]
ASSUME SetupsAssumption ==
  \A u \in Setups :
    /\ u.master \in Streams /\ u.given \in BOOLEAN
    /\ u.slaves \in Seq(Streams \ {u.master}) /\ IsInjective(u.slaves)

Invalid == 0     \* DATA::INVALID_UINT, larger than any number
NoVector == -1   \* _fem_trig_frame is empty

VARIABLES
  input,    \* the files of this run
  setup,    \* its program
  debug,    \* _debug_mode
  plots,    \* set_ana_output_filename() was called, so that _fout is written
  pc,       \* what run() does next
  turn,     \* 0: the master; k: the k-th other stream
  status, eof, id,  \* the local variables of run(), id is event_id
  alg,      \* the algorithm of each stream
  out,      \* the products in memory: stream -> the entries they were built from
  outOpen,  \* the output is open
  result,   \* what run() returned
  stored    \* history: the events written, with their products

vars == <<input, setup, debug, plots, pc, turn, status, eof, id, alg, out,
          outOpen, result, stored>>
job == <<input, setup, debug, plots>>

master == setup.master
Slaves == setup.slaves
Used == Range(Slaves) \union IF setup.given THEN {master} ELSE {}
Current == IF turn = 0 THEN master ELSE Slaves[turn]
Wanted == IF turn = 0 THEN Invalid ELSE id

NewAlgo == [index |-> 0, current |-> 0, eof |-> FALSE,
            numFem |-> 0, first |-> Invalid, last |-> Invalid, count |-> NoVector]
Cleared == [s \in Streams |-> <<>>]

Init ==
  /\ input \in Inputs /\ setup \in Setups
  /\ debug \in BOOLEAN /\ plots \in BOOLEAN
  /\ pc = "run" /\ turn = 0
  /\ status = TRUE /\ eof = FALSE /\ id = 0
  /\ alg = [s \in Streams |-> NewAlgo]
  /\ out = Cleared /\ outOpen = FALSE /\ result = FALSE
  /\ stored = <<>>

\* _fout is never initialized: without an analysis file it is null or wild, and
\* the first use of a wild one ends the program.
UseFout == ~plots /\ pc' = "crashed"

-------------------------------------------------------------------------------
(* run() up to its loop *)

\* initialize() reads the first entry; a stream without entries fails, and the
\* ones after it are not initialized.
Initialized == [s \in Streams |->
  IF s \in Used /\ input[s] # <<>>
  THEN [NewAlgo EXCEPT !.index = 1, !.current = input[s][1]]
  ELSE [NewAlgo EXCEPT !.eof = s \in Used]]

Run ==
  /\ pc = "run"
  /\ \/ pc' = "done" /\ UNCHANGED outOpen    \* no input, or no output file
     \/ master \in Used /\ outOpen' = TRUE /\ pc' = "initialize"
  /\ UNCHANGED <<job, turn, status, eof, id, alg, out, result, stored>>

\* After a failure the algorithms are finalized, the output stays open.
Initialize ==
  /\ pc = "initialize"
  /\ status' = \A s \in Used : input[s] # <<>>
  /\ alg' = IF status' THEN Initialized ELSE alg
  /\ IF status' THEN pc' = "process"
     ELSE pc' = "done" \/ (Used # {Trigger} /\ UseFout)
  /\ UNCHANGED <<job, turn, eof, id, out, outOpen, result, stored>>

-------------------------------------------------------------------------------
(* process(), find_next() and build() of the algorithm whose turn it is.   *)

\* process() has returned ok, or thrown; the master's eof is looked at at once.
ProcessReturns(ok) ==
  IF turn = 0
  THEN /\ status' = ok /\ eof' = alg'[master].eof
       /\ pc' = "next"
  ELSE /\ status' = (ok /\ status)
       /\ pc' = "check" /\ UNCHANGED eof

\* An entry before the wanted one is left to find_next(), one after it throws.
Process ==
  LET a == alg[Current]
  IN /\ pc = "process" /\ UNCHANGED alg
     /\ IF a.eof \/ (Wanted # Invalid /\ a.current > Wanted)
        THEN ProcessReturns(FALSE)
        ELSE /\ pc' = IF Wanted \in {Invalid, a.current} THEN "build" ELSE "find"
             /\ UNCHANGED <<status, eof>>
     /\ UNCHANGED <<job, turn, id, out, outOpen, result, stored>>

\* The entry that skipping forward from the one after index stops at.
StopsAt(s, index, n) ==
  LET reached == {k \in index + 1 .. Len(input[s]) : input[s][k] >= n}
  IN IF reached = {} THEN Len(input[s])
     ELSE CHOOSE k \in reached : \A j \in reached : k <= j

\* Faulty: every entry is taken for a new event.
FoundAnother(s, a, n) ==
  IF a.index >= Len(input[s])
  THEN [alg |-> [a EXCEPT !.eof = TRUE], ok |-> FALSE]
  ELSE [alg |-> [a EXCEPT !.index = @ + 1, !.current = input[s][a.index + 1]],
        ok |-> TRUE]

\* Faulty: the stream ends with the entry that is read last.
FoundAtEnd(s, a, n) ==
  LET k == a.index + 1
  IN IF k > Len(input[s]) THEN [alg |-> [a EXCEPT !.eof = TRUE], ok |-> FALSE]
     ELSE [alg |-> [a EXCEPT !.index = k, !.current = input[s][k],
                             !.eof = k = Len(input[s])],
           ok |-> a.current # input[s][k]]

\* find_next(): whether the event is complete.  Skipping to a wanted number ends
\* the stream when it stops at the last entry, which then is not built.
Found(s, a, n) ==
  IF n # Invalid /\ a.current > n THEN [alg |-> a, ok |-> TRUE]
  ELSE IF a.index >= Len(input[s]) THEN [alg |-> [a EXCEPT !.eof = TRUE], ok |-> FALSE]
  ELSE IF n # Invalid /\ a.current < n
  THEN LET k == StopsAt(s, a.index, n)
       IN [alg |-> [a EXCEPT !.index = k, !.current = input[s][k],
                             !.eof = k = Len(input[s])],
           ok |-> input[s][k] > n]
  ELSE LET k == a.index + 1
       IN [alg |-> [a EXCEPT !.index = k, !.current = input[s][k]],
           ok |-> a.current # input[s][k]]

FindNext ==
  LET found == Found(Current, alg[Current], Wanted)
  IN /\ pc = "find"
     /\ alg' = [alg EXCEPT ![Current] = found.alg]
     /\ IF found.ok \/ found.alg.eof THEN ProcessReturns(TRUE)
        ELSE pc' = "build" /\ UNCHANGED <<status, eof>>
     /\ UNCHANGED <<job, turn, id, out, outOpen, result, stored>>

\* The count of modules that evb_algo_pmt and evb_algo_tpc keep: those of the
\* first event, and those of the last event built.
WithFem(a, n) ==
  [a EXCEPT !.first = IF @ = Invalid THEN n ELSE @,
            !.numFem = IF a.first \in {Invalid, n} THEN @ + 1 ELSE @,
            !.count = IF a.last # n THEN 1 ELSE @ + 1,
            !.last = n]

\* evb_algo_pmt looks at the event before when a new one begins.
PreviousDiffers(s, a, n) ==
  s = PMT /\ a.last # n /\ a.first \notin {Invalid, n} /\ a.count # a.numFem

\* A trigger is overwritten, the modules of an event are appended.
Filled(s, entry) == IF s = Trigger THEN <<entry>> ELSE Append(out[s], entry)

\* build() throws after it has filled the product and begun an empty vector.
Build ==
  LET s == Current
      a == alg[s]
      number == input[s][a.index]
  IN /\ pc = "build"
     /\ id' = IF turn = 0 THEN a.current ELSE id
     /\ IF Wanted \notin {Invalid, number}
        THEN ProcessReturns(FALSE) /\ UNCHANGED <<alg, out>>
        ELSE /\ out' = [out EXCEPT ![s] = Filled(s, a.index)]
             /\ IF PreviousDiffers(s, a, number)
                THEN /\ alg' = [alg EXCEPT ![s].count = 0]
                     /\ ProcessReturns(FALSE)
                ELSE /\ alg' = IF s = Trigger THEN alg
                               ELSE [alg EXCEPT ![s] = WithFem(a, number)]
                     /\ pc' = "find" /\ UNCHANGED <<status, eof>>
     /\ UNCHANGED <<job, turn, outOpen, result, stored>>

-------------------------------------------------------------------------------
(* The rest of the loop *)

\* A slave is processed and checked unless something has failed, in debug mode
\* always.
Asked == debug \/ status

NextAlgo ==
  /\ pc = "next"
  /\ IF turn = Len(Slaves) THEN pc' = "store" /\ UNCHANGED turn
     ELSE /\ turn' = turn + 1
          /\ pc' = IF Asked THEN "process" ELSE "check"
  /\ UNCHANGED <<job, status, eof, id, alg, out, outOpen, result, stored>>

\* Faulty: a module too many is let through.
QualitiesAtLeast(s) ==
  IF s # TPC THEN {TRUE}
  ELSE IF alg[s].count = NoVector THEN BOOLEAN ELSE {alg[s].count >= alg[s].numFem}

\* What check_event_quality() may answer, FALSE for a throw.  Before anything has
\* been built it looks in front of an empty vector.
Qualities(s) ==
  IF s # TPC THEN {TRUE}
  ELSE IF alg[s].count = NoVector THEN BOOLEAN ELSE {alg[s].count = alg[s].numFem}

Check ==
  /\ pc = "check"
  /\ \E good \in IF Asked THEN Qualities(Current) ELSE {FALSE} : status' = (good /\ status)
  /\ eof' = (eof \/ alg[Current].eof)
  /\ pc' = "next"
  /\ UNCHANGED <<job, turn, id, alg, out, outOpen, result, stored>>

\* Faulty: a failure does not end the loop.
GoesOnAnyway == ~eof

\* Faulty: without the parentheses of the condition.
GoesOnInDebug == debug \/ (status /\ ~eof)

\* The condition of the loop.
GoesOn == (debug \/ status) /\ ~eof

\* next_event() writes and clears the products; a failed event is cleared only.
Store ==
  /\ pc = "store"
  /\ stored' = IF status THEN Append(stored, [id |-> id, data |-> out]) ELSE stored
  /\ out' = Cleared
  /\ turn' = 0
  /\ pc' = IF GoesOn THEN "process" ELSE "finish"
  /\ UNCHANGED <<job, status, eof, id, alg, outOpen, result>>

\* finalize() of each algorithm if all went well, then both files are closed.
Finish ==
  /\ pc = "finish"
  /\ \/ pc' = "done" /\ outOpen' = FALSE /\ result' = status
     \/ UseFout /\ UNCHANGED <<outOpen, result>>
  /\ UNCHANGED <<job, turn, status, eof, id, alg, out, stored>>

Next == Run \/ Initialize \/ Process \/ FindNext \/ Build \/ NextAlgo \/ Check
        \/ Store \/ Finish

Spec == Init /\ [][Next]_vars /\ WF_vars(Next)

-------------------------------------------------------------------------------
(* Properties *)

Returned == pc \in {"done", "crashed"}
Entries(s, n) == {k \in DOMAIN input[s] : input[s][k] = n}
Numbers(s) == Range(input[s])

\* The product of stream s holds all that its file has of event n.
Whole(s, product, n) ==
  IF s = Trigger
  THEN Len(product) = 1 /\ Range(product) \subseteq Entries(s, n)
  ELSE Len(product) = Cardinality(Range(product)) /\ Range(product) = Entries(s, n)

\* A stored event is of one number.  The master's product is whole, that of any
\* other stream is whole or empty, whatever was skipped or failed before.  It is
\* empty although the file has the event only if that is one entry, the last of
\* the file and reached by skipping, and then the loop ends with this event.
NeverTorn ==
  \A j \in DOMAIN stored : \A s \in Used :
    LET n == stored[j].id
    IN \/ Whole(s, stored[j].data[s], n)
       \/ /\ s # master /\ stored[j].data[s] = <<>>
          /\ \/ Entries(s, n) = {}
             \/ j = Len(stored) /\ Entries(s, n) = {Len(input[s])}

\* Events are stored in increasing order, and without debug mode none of the
\* master's is left out before the last one stored.
StoredInOrder ==
  \A j \in DOMAIN stored :
    /\ \A k \in 1 .. j - 1 : stored[k].id < stored[j].id
    /\ debug \/ \A n \in Numbers(master) : n < stored[j].id =>
                  \E k \in 1 .. j - 1 : stored[k].id = n

\* Streams that have the same events, each with the same number of modules.
Agree ==
  /\ \A s \in Used : Numbers(s) = Numbers(master) /\ input[s] # <<>>
  /\ \A s \in Used \ {Trigger} : \A m, n \in Numbers(s) :
       Cardinality(Entries(s, m)) = Cardinality(Entries(s, n))

\* When the streams agree, the loop ends in success and every event has been stored
\* whole, however the last entries of the streams and their ends fall.
AgreedAllStored ==
  pc = "finish" /\ Agree =>
    /\ status
    /\ {stored[j].id : j \in DOMAIN stored} = Numbers(master)
    /\ \A j \in DOMAIN stored : \A s \in Used :
         Whole(s, stored[j].data[s], stored[j].id)

\* The streams of which run() asks check_event_quality(): it skips the master in that
\* loop (event_builder.cc:139).
Checked == Used \ {master}

\* Slaves of the TPC and any PMT stream: TPC data of another number of modules than
\* the first event's are not stored, and nothing is stored after such PMT data, as
\* build() looks at the event before.  A TPC master is never checked: its data are
\* stored with whatever number of modules, and nobody notices.
RegularStored ==
  \A j \in DOMAIN stored :
    /\ TPC \in Checked => Len(stored[j].data[TPC]) \in {0, alg[TPC].numFem}
    /\ PMT \in Used =>
         \/ Len(stored[j].data[PMT]) \in {0, alg[PMT].numFem}
         \/ \A k \in j + 1 .. Len(stored) : stored[k].data[PMT] = <<>>

\* Of any stream that has been stored, the master as well, the number that is
\* compared with is that of the first event in its file that was built.
HasStored(s) == \E j \in DOMAIN stored : stored[j].data[s] # <<>>
FirstCounted ==
  \A s \in Used \ {Trigger} :
    HasStored(s) => alg[s].numFem = Cardinality(Entries(s, alg[s].first))

\* Missing modules are noticed, but those of a TPC master: products with another
\* number of modules than the first event has in the file are not stored, or are the
\* last of their stream.
MissingModulesNoticed == RegularStored /\ FirstCounted

\* run() returns.  Debug mode with PMT as the master is left out: after the first
\* event with missing modules the same entry is built and thrown out for ever.
Returns == ~(debug /\ master = PMT) => <>Returned

===============================================================================
