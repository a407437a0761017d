----------------------------- MODULE AnaProcessor -----------------------------
(***************************************************************************)
(* larlight::ana_processor (core/Analysis/ana_processor.cc) drives the     *)
(* event loop: it opens the storage manager, moves it from event to event  *)
(* and calls the attached analyzers in order.  A user calls process_event()*)
(* or run(); each step of such a call up to its next call of an analyzer,  *)
(* or of the storage manager, is an action, pc says which comes next.      *)
(* Only an analyzer can call back, with get_data().                        *)
(***************************************************************************)
EXTENDS StorageManager

CONSTANTS
  NumAnalyzers,  \* analyzers attached with add_process()
  Asks,          \* types that an analyzer may get_data() in analyze()
  Jobs,          \* the set-ups: mode, input files, and style of the calling program
  MaxArg         \* bound on the arguments of process_event() and run()

ASSUME NumAnalyzersAssumption == NumAnalyzers \in Nat
ASSUME AsksAssumption == Asks \subseteq DataTypes
ASSUME JobsAssumption ==
  \A j \in Jobs : j.mode \in Modes /\ j.files \in Seq(Range(j.files))
ASSUME MaxArgAssumption == MaxArg \in Nat

VARIABLES
  st,        \* the storage manager
  process,   \* _process
  attached,  \* number of analyzers attached
  status,    \* _ana_status
  index,     \* _index
  nevents,   \* _nevents
  filter,    \* _filter_enable
  pc,        \* what the processor does next, "user" between its calls
  analyzer,  \* the analyzer that a loop has reached
  call,      \* the user's call in progress: "process_event", "run", or
             \* "leaving" when run() itself finalizes
  event,     \* the index that process_event() works on
  limit,     \* run()'s argument and then variable nevents
  result,    \* what the last process_event(), finalize() or run() returned
  analysed,  \* history: the events analysed since open()
  phase,     \* history: where each analyzer is in its life
  job        \* history: the set-up of the session

vars == <<st, process, attached, status, index, nevents, filter, pc, analyzer,
          call, event, limit, result, analysed, phase, job>>
control == <<filter, call, event, limit, job>>
data == <<status, index, nevents, analysed, phase>>

Analyzers == 1 .. NumAnalyzers

-------------------------------------------------------------------------------
(* The set-up: add_process(), set_io_mode(), add_input_file() and so on. *)

Init ==
  /\ job \in Jobs
  /\ st = [InitStorage EXCEPT !.mode = job.mode, !.inFiles = job.files,
                              !.outName = TRUE]
  /\ process = "INIT" /\ attached = NumAnalyzers
  /\ status = [a \in Analyzers |-> FALSE]
  /\ index = 0 /\ nevents = 0
  /\ filter \in BOOLEAN
  /\ pc = "user" /\ analyzer = 1 /\ call = "process_event" /\ event = 0
  /\ limit = 0 /\ result = TRUE
  /\ analysed = <<>>
  /\ phase = [a \in Analyzers |-> "new"]

Return(value) == pc' = "user" /\ result' = value

-------------------------------------------------------------------------------
(* initialize() *)

\* An output that cannot be created is left to StorageClient.
OpenStorage ==
  /\ pc = "open"
  /\ st' = Open(st, TRUE)
  /\ IF st'.ret THEN pc' = "initialize" /\ UNCHANGED result ELSE Return(FALSE)
  /\ analyzer' = 1
  /\ analysed' = <<>>
  /\ UNCHANGED <<process, attached, control, status, index, nevents, phase>>

InitializeAnalyzer(ok) ==
  /\ pc = "initialize" /\ analyzer <= attached
  /\ status' = [status EXCEPT ![analyzer] = ok]
  /\ phase' = [phase EXCEPT ![analyzer] = "initialized"]
  /\ analyzer' = analyzer + 1
  /\ UNCHANGED <<st, process, attached, index, nevents, control, pc, result, analysed>>

\* Faulty: after a failure the next call would initialize again.
InitializedOrNot ==
  LET ok == \A a \in 1 .. attached : status[a]
  IN /\ pc = "initialize" /\ analyzer > attached
     /\ index' = 0 /\ nevents' = 0
     /\ process' = IF ~ok THEN "INIT" ELSE IF call = "run" THEN "READY" ELSE "PROCESSING"
     /\ IF ~ok THEN Return(FALSE)
        ELSE pc' = (IF call = "run" THEN "limit" ELSE "go_to") /\ UNCHANGED result
     /\ UNCHANGED <<st, attached, status, control, analyzer, analysed, phase>>

\* The analyzers are ready even if one of them failed; only the call aborts.
Initialized ==
  LET ok == \A a \in 1 .. attached : status[a]
  IN /\ pc = "initialize" /\ analyzer > attached
     /\ index' = 0 /\ nevents' = 0
     /\ process' = IF ok /\ call = "process_event" THEN "PROCESSING" ELSE "READY"
     /\ IF ~ok THEN Return(FALSE)
        ELSE pc' = (IF call = "run" THEN "limit" ELSE "go_to") /\ UNCHANGED result
     /\ UNCHANGED <<st, attached, status, control, analyzer, analysed, phase>>

-------------------------------------------------------------------------------
(* process_event() *)

\* The index is fixed before initialize() sets _index to 0.
ProcessEvent(i) ==
  /\ pc = "user"
  /\ call' = "process_event"
  /\ event' = i
  /\ index' = i
  /\ process' = IF process = "READY" THEN "PROCESSING" ELSE process
  /\ pc' = IF process = "INIT" THEN "open" ELSE "go_to"
  /\ UNCHANGED <<st, attached, status, nevents, filter, analyzer, limit,
                 result, analysed, phase, job>>

\* Faulty: the position that initialize() has just set to 0.
GoToIndex ==
  /\ pc = "go_to"
  /\ st' = GoTo(st, index)
  /\ pc' = IF st'.ret THEN "analyze" ELSE "finalize"
  /\ result' = TRUE
  /\ analyzer' = 1
  /\ UNCHANGED <<process, attached, control, data>>

GoToEvent ==
  /\ pc = "go_to"
  /\ st' = GoTo(st, event)
  /\ pc' = IF st'.ret THEN "analyze" ELSE "finalize"
  /\ result' = TRUE
  /\ analyzer' = 1
  /\ UNCHANGED <<process, attached, control, data>>

\* The event that the products in memory belong to.
CurrentEvent ==
  IF Chained(st) = {} THEN Cleared ELSE st.chain[Min(Chained(st))][st.index]

\* What analyze() does to the storage: nothing, or get_data() of one type, to
\* read it or to fill a product of its own.
AnalyzerAccess(t, fills) ==
  LET s == GetData(st, t)
  IN st' = IF fills /\ s.ret /\ t \notin Chained(st)
           THEN [s EXCEPT !.ptr[t] = CurrentEvent] ELSE s

\* With the filter on, the analyzers behind one that rejects do not run.
AfterAnalyze(ok) == IF ~ok /\ filter THEN attached + 1 ELSE analyzer + 1

AnalyzeEvent(ok) ==
  /\ pc = "analyze" /\ analyzer <= attached
  /\ UNCHANGED st \/ \E t \in Asks, fills \in BOOLEAN : AnalyzerAccess(t, fills)
  /\ status' = [status EXCEPT ![analyzer] = ok]
  /\ phase' = [phase EXCEPT ![analyzer] = "used"]
  /\ analyzer' = AfterAnalyze(ok)
  /\ UNCHANGED <<process, attached, index, nevents, control, pc, result, analysed>>

EventDone ==
  /\ pc = "analyze" /\ analyzer > attached
  /\ index' = index + 1 /\ nevents' = nevents + 1
  /\ analysed' = Append(analysed, CurrentEvent)
  /\ IF call = "run" THEN pc' = "check" /\ result' = TRUE ELSE Return(TRUE)
  /\ UNCHANGED <<st, process, attached, status, control, analyzer, phase>>

-------------------------------------------------------------------------------
(* run() *)

Run(start, n) ==
  /\ pc = "user"
  /\ call' = "run" /\ event' = start /\ limit' = n
  /\ pc' = IF process = "INIT" THEN "open" ELSE "limit"
  /\ UNCHANGED <<st, process, attached, data, filter, analyzer, result, job>>

\* Faulty: the start is not taken into account.
RunLimitFromZero(start, n, entries) ==
  IF n = 0 \/ n > entries THEN entries ELSE n

\* entries - start is unsigned: beyond the end it wraps to a huge number.
RunLimit(start, n, entries) ==
  LET asked == IF n = 0 THEN entries ELSE n
  IN IF start <= entries /\ asked > entries - start THEN entries - start ELSE asked

SetLimit ==
  /\ pc = "limit"
  /\ limit' = RunLimit(event, limit, st.nevents)
  /\ index' = event
  /\ process' = "PROCESSING"
  /\ pc' = "go_to"
  /\ UNCHANGED <<st, attached, status, nevents, filter, analyzer, call, event,
                 result, analysed, phase, job>>

\* Faulty: the loop ends without the last event having been asked for.
AfterLastEventNothing(s) == s

\* In BOTH mode next_event() writes the event that was analysed last.
AfterLastEvent(s) == NextEvent(s)

CheckLoop ==
  /\ pc = "check"
  /\ event' = index
  /\ IF limit # 0 /\ limit = nevents
     THEN st' = AfterLastEvent(st) /\ pc' = "leave"
     ELSE /\ UNCHANGED st
          /\ pc' = IF process = "PROCESSING" /\ result THEN "go_to" ELSE "leave"
  /\ UNCHANGED <<process, attached, data, filter, analyzer, call, limit, result, job>>

\* run() finalizes unless _process is FINISHED, which it never is here; after a
\* finalize() in process_event() this second one is refused.
LeaveRun ==
  /\ pc = "leave"
  /\ IF process \in {"READY", "PROCESSING"}
     THEN pc' = "finalize" /\ result' = TRUE
     ELSE Return(FALSE)
  /\ analyzer' = 1
  /\ call' = IF pc' = "finalize" THEN "leaving" ELSE call
  /\ UNCHANGED <<st, process, attached, data, filter, event, limit, job>>

-------------------------------------------------------------------------------
(* finalize() and reset() *)

FinalizeAnalyzer(ok) ==
  /\ pc = "finalize" /\ analyzer <= attached
  /\ status' = [status EXCEPT ![analyzer] = ok /\ @]
  /\ result' = (result /\ status'[analyzer])
  /\ phase' = [phase EXCEPT ![analyzer] = "finalized"]
  /\ analyzer' = analyzer + 1
  /\ UNCHANGED <<st, process, attached, index, nevents, control, pc, analysed>>

\* FINISHED is overwritten by reset() before anyone can see it.
Finalized ==
  /\ pc = "finalize" /\ analyzer > attached
  /\ process' = "INIT"
  /\ st' = ResetStorage(st)
  /\ attached' = 0 /\ index' = 0 /\ nevents' = 0
  /\ status' = [a \in Analyzers |-> FALSE]
  /\ pc' = IF call = "run" THEN "check" ELSE "user"
  /\ UNCHANGED <<control, analyzer, result, analysed, phase>>

-------------------------------------------------------------------------------
Processor ==
  \/ OpenStorage \/ Initialized \/ GoToEvent \/ EventDone
  \/ SetLimit \/ CheckLoop \/ LeaveRun \/ Finalized
  \/ \E ok \in BOOLEAN :
       InitializeAnalyzer(ok) \/ AnalyzeEvent(ok) \/ FinalizeAnalyzer(ok)

Args == 0 .. MaxArg

\* The calling programs: one that calls anything in any order, one that only
\* calls run(), and the loop "while process_event()" of the scripts.
AnyCall ==
  /\ job.style = "any" /\ Len(analysed) < MaxArg
  /\ \/ \E i \in Args \union {index} : ProcessEvent(i)
     \/ \E start, n \in Args : Run(start, n)
RunCall ==
  /\ job.style = "run" /\ Len(analysed) < MaxArg
  /\ \E start, n \in Args : Run(start, n)
LoopCall == job.style = "loop" /\ result /\ ProcessEvent(index)

Next == AnyCall \/ RunCall \/ LoopCall \/ Processor

\* A call is run by the only thread, which goes on; the program that loops goes
\* on calling, the others may stop at any time.
Spec == Init /\ [][Next]_vars /\ WF_vars(Processor) /\ WF_vars(LoopCall)

-------------------------------------------------------------------------------
(* Properties *)

\* No analyzer is initialized twice, finalized twice, or used outside of its
\* initialize() and finalize(), whatever calls fail or are repeated.
AnalyzersLiveOnce ==
  analyzer <= attached =>
    /\ pc = "initialize" => phase[analyzer] = "new"
    /\ pc \in {"analyze", "finalize"} => phase[analyzer] \in {"initialized", "used"}

\* The analyzers see the event of the index that was asked for, in all products
\* loaded, also when the call had to initialize first.  An output tree has only
\* events that all of them have been through, each once and in that order.
EventsUnmixed ==
  /\ pc = "analyze" =>
       /\ st.status = "OPERATING" /\ st.index = event + 1
       /\ st.mode = "BOTH" =>
            \A t \in Chained(st) : st.ptr[t] = st.chain[t][event + 1]
  /\ st.mode = "BOTH" =>
       /\ st.nwritten <= Len(analysed)
       /\ \A t \in st.trees : \A k \in DOMAIN st.out[t] :
            LET e == st.out[t][k]
                a == analysed[st.nwritten - Len(st.out[t]) + k]
            IN e = Cleared \/ EventId[e] = EventId[a]

Ends(how) == pc = "finalize" /\ pc' # pc /\ call = how

Complete ==
  st.mode = "BOTH" => \A t \in Chained(st) : Len(st'.disk[t]) = Len(analysed)

\* In a program that only calls run(), one that comes to its last event leaves
\* all the events that were analysed in the output file.
RunSavesAll == [][job.style = "run" /\ Ends("leaving") => Complete]_vars

\* The same of a loop over process_event(), which ends when go_to() does.
LoopSavesAll == [][job.style = "loop" /\ Ends("process_event") => Complete]_vars

\* All input trees have the same events.
Aligned ==
  LET s == [InitStorage EXCEPT !.inFiles = job.files]
      full == {t \in DataTypes : ChainOf(s, t) # <<>>}
  IN \A t, u \in full : ChainOf(s, t) = ChainOf(s, u)

\* In a program that only calls run(), over an aligned input and from inside of
\* it: it stops at the last event it was asked for, so that it finalizes exactly
\* once and returns what that returned.
RunFinalizesOnce ==
  job.style = "run" /\ pc = "leave" /\ Aligned /\ analysed # <<>>
    => process = "PROCESSING" /\ limit = Len(analysed)

\* The loop over process_event() ends: the first call after the end of the
\* input starts a new session, and fails because reset() left no mode.
LoopEnds == job.style = "loop" => <>[](pc = "user" /\ ~result)
=============================================================================
