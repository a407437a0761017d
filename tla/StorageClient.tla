----------------------------- MODULE StorageClient -----------------------------
(***************************************************************************)
(* A program that uses storage_manager the way core/DataFormat/bin does:   *)
(* setters on a closed object, open(), a loop over next_event() or go_to() *)
(* with get_data() in it, close(), then the next file with or without      *)
(* reset().  The loop ends at the first call that returns false.           *)
(***************************************************************************)
EXTENDS StorageManager

CONSTANTS
  InLists(_),  \* lists of files, existing or not, that a program may add before
               \* an open(), by the number of open() calls already made
  ReadSets(_), \* sets of types that it may leave set to be read, likewise
  MaxOpens,    \* bound on open() calls
  MaxEvents    \* bound on next_event() calls from one open() to the next

ASSUME SessionsAssumption ==
  /\ MaxOpens \in Nat /\ MaxEvents \in Nat
  /\ \A k \in 0 .. MaxOpens :
       /\ ReadSets(k) \subseteq SUBSET DataTypes
       /\ \A l \in InLists(k) : l \in Seq(Range(l))
  /\ 0 .. MaxEvents + 1 \subseteq DOMAIN EventId   \* events that it may make

VARIABLES
  st,    \* the storage manager
  loop,  \* "set" by the setters, "running", or the call that ended the event loop
  late,  \* history: events written before the output tree of a type was made
  got,   \* history: types get_data() has returned for the current event
  calls, \* history: events asked for since open()
  opens  \* history: calls of open()

vars == <<st, loop, late, got, calls, opens>>

-------------------------------------------------------------------------------
Init ==
  /\ st = InitStorage
  /\ loop = "running"
  /\ late = [t \in DataTypes |-> 0]
  /\ got = {}
  /\ calls = 0
  /\ opens = 0

\* The calls of setters before an open(), in any order.  The output is read
\* back only once something was written to it, and never while it is written.
Configure(m, files, reads, aligned, named) ==
  /\ ~IsOpen(st) /\ opens < MaxOpens /\ loop # "set"
  /\ OutFile \in Range(files) =>
       m = "READ" /\ \E t \in DataTypes : st.disk[t] # <<>>
  /\ st' = [st EXCEPT !.mode = m, !.inFiles = @ \o files, !.reads = reads,
                      !.check = aligned, !.outName = @ \/ named]
  /\ loop' = "set"
  /\ UNCHANGED <<late, got, calls, opens>>

OpenFile(creatable) ==
  /\ ~IsOpen(st) /\ loop = "set" /\ opens < MaxOpens
  /\ opens' = opens + 1
  /\ st.mode # "READ" => OutFile \notin Range(st.inFiles)
  /\ st' = Open(st, creatable)
  /\ loop' = "running"
  /\ late' = [t \in DataTypes |-> 0]
  /\ got' = {}
  /\ calls' = 0

Looping(call) ==
  /\ IsOpen(st)
  /\ loop = "running"
  /\ calls < MaxEvents
  /\ calls' = calls + 1
  /\ loop' = IF st'.ret THEN "running" ELSE call
  /\ got' = {}
  /\ UNCHANGED <<late, opens>>

NextEventCall == st' = NextEvent(st) /\ Looping("next_event")

GoToCall(i) == st.mode # "WRITE" /\ st' = GoTo(st, i) /\ Looping("go_to")

\* The event that the program works on.
CurrentEvent ==
  IF st.mode = "WRITE" THEN st.nwritten + 1
  ELSE IF Chained(st) = {} THEN Cleared
  ELSE st.chain[Min(Chained(st))][st.index]

\* get_data(), after which the program may fill a product that is its own.
GetDataCall(t, fills) ==
  LET s == GetData(st, t)
      own == s.ret /\ t \notin Chained(st)
  IN /\ IsOpen(st)
     /\ loop = "running"
     /\ st' = IF fills /\ own THEN [s EXCEPT !.ptr[t] = CurrentEvent] ELSE s
     /\ got' = IF s.ret THEN got \union {t} ELSE got
     /\ late' = IF t \in s.trees \ st.trees
                THEN [late EXCEPT ![t] = st.nwritten] ELSE late
     /\ UNCHANGED <<loop, calls, opens>>

CloseFile == st' = Close(st) /\ UNCHANGED <<loop, late, got, calls, opens>>

ResetCall ==
  /\ st' = ResetStorage(st)
  /\ loop' = "running"
  /\ late' = [t \in DataTypes |-> 0]
  /\ got' = {}
  /\ calls' = 0
  /\ UNCHANGED opens

Next ==
  \/ \E m \in Modes, l \in InLists(opens), r \in ReadSets(opens), a, n \in BOOLEAN :
       Configure(m, l, r, a, n)
  \/ \E b \in BOOLEAN : OpenFile(b)
  \/ NextEventCall
  \/ \E i \in 0 .. MaxEvents : GoToCall(i)
  \/ \E t \in DataTypes, b \in BOOLEAN : GetDataCall(t, b)
  \/ CloseFile
  \/ ResetCall

Spec == Init /\ [][Next]_vars

-------------------------------------------------------------------------------
\* The event loop stays inside every tree it reads, also after a second open()
\* that starts from the number of events of the first, so that
\* TChain::GetEntry is never asked for an entry that does not exist.
LoopWithinTrees ==
  IsOpen(st) /\ st.mode # "WRITE" =>
    /\ st.index <= st.nevents /\ st.nevents > 0
    /\ \A t \in Chained(st) : st.nevents <= Len(st.chain[t])

\* In READ mode all products that get_data() returns between two next_event()
\* calls carry the same event number, that of the Event tree when there is one,
\* although each comes from a tree of its own and is read at its own time.
ProductsOfOneEvent ==
  st.mode = "READ" /\ st.check /\ loop = "running" =>
    \A t \in got, u \in got \union (Chained(st) \intersect {EVENT}) :
      EventId[st.ptr[t]] = EventId[st.ptr[u]]

\* In BOTH mode each event read is written once, when the next one is asked
\* for.  Only the end found by next_event() writes the last one.
WrittenAsRead ==
  IsOpen(st) /\ st.mode = "BOTH" =>
    /\ st.nread - st.nwritten \in {0, 1}
    /\ loop = "running" /\ st.nread > 0 => st.nread = st.nwritten + 1
    /\ loop = "next_event" => st.nread = st.nwritten

\* Entries of two output trees that are equally far from the end are of the
\* same event, unless the program left one of them empty: a tree that get_data()
\* makes late is short at its front.
OutputAligned ==
  st.check /\ st.mode \in {"WRITE", "BOTH"} =>
    \A t, u \in st.trees : \A k \in 0 .. Len(st.out[t]) - 1 :
      LET e == st.out[t][Len(st.out[t]) - k]
          f == st.out[u][Len(st.out[u]) - k]
      IN k < Len(st.out[u]) /\ e # Cleared /\ f # Cleared => EventId[e] = EventId[f]

\* close() leaves in the file, for each tree made by open() or by get_data(),
\* one entry per event written since the tree exists.
FileIsComplete ==
  [][st.status = "OPERATING" /\ st.mode # "READ" /\ ~IsOpen(st)'
       => \A t \in st.trees : Len(st'.disk[t]) + late[t] = st.nwritten]_vars
=============================================================================
