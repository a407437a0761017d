-------------------------- MODULE AnaProcessor_proofs --------------------------
(***************************************************************************)
(* The analysis processor, for any number of analyzers, any input files    *)
(* and any sequence of calls.                                              *)
(*                                                                         *)
(* The first part is about the life of the analyzers and looks at nothing  *)
(* of the storage manager's record; the second about the events that they  *)
(* see and that are written; the third about run(), which is the caller    *)
(* that saves the last event.                                              *)
(***************************************************************************)
EXTENDS AnaProcessor, SequenceLemmas

Phases == {"new", "initialized", "used", "finalized"}
Live == {"initialized", "used"}

\* reset() detaches all analyzers at once, so that a call which goes on after a
\* finalize() finds none.
Kinds ==
  /\ attached \in {0, NumAnalyzers}
  /\ analyzer \in Nat \ {0}
  /\ phase \in [Analyzers -> Phases]

\* Before initialize() is through.
Fresh ==
  /\ pc \in {"user", "open", "initialize"}
  /\ \A a \in Analyzers :
       phase[a] = IF pc = "initialize" /\ a < analyzer THEN "initialized" ELSE "new"

\* From there on, the ones that a failed call left behind included.
Running ==
  /\ pc \notin {"open", "initialize"}
  /\ \A a \in Analyzers :
       IF pc = "finalize" /\ a < analyzer THEN phase[a] = "finalized"
       ELSE phase[a] \in Live

\* The phases follow _process as long as analyzers are attached.
LInv ==
  /\ Kinds
  /\ attached # 0 => IF process = "INIT" THEN Fresh ELSE Running

USE DEF Kinds, Fresh, Running, LInv, Phases, Live, Analyzers

-------------------------------------------------------------------------------
(* LInv is what the property needs, and holds at first. *)

LEMMA LiveEnough == LInv => AnalyzersLiveOnce
BY NumAnalyzersAssumption DEF AnalyzersLiveOnce

LEMMA LiveInit == Init => LInv
BY NumAnalyzersAssumption DEF Init

-------------------------------------------------------------------------------
(* Every step preserves it. *)

\* The user's calls: only process_event() moves _process, and never to INIT.
LEMMA CallStep ==
  ASSUME LInv, \/ \E i \in Args \union {index} : ProcessEvent(i)
               \/ \E start, n \in Args : Run(start, n)
  PROVE  LInv'
<1>1. CASE \E i \in Args \union {index} : ProcessEvent(i)
  <2>. PICK i \in Args \union {index} : ProcessEvent(i)
    BY <1>1
  <2>. QED
    BY NumAnalyzersAssumption DEF ProcessEvent
<1>2. CASE \E start, n \in Args : Run(start, n)
  <2>. PICK start \in Args, n \in Args : Run(start, n)
    BY <1>2
  <2>. QED
    BY NumAnalyzersAssumption DEF Run, data
<1>. QED
  BY <1>1, <1>2

\* initialize(): one that fails leaves analyzers that are ready all the same.
LEMMA InitializeStep ==
  ASSUME LInv, \/ OpenStorage
               \/ \E ok \in BOOLEAN : InitializeAnalyzer(ok)
               \/ Initialized
  PROVE  LInv'
<1>1. CASE OpenStorage
  <2>1. pc = "open" /\ pc' \in {"initialize", "user"} /\ analyzer' = 1
    BY <1>1 DEF OpenStorage, Return
  <2>2. UNCHANGED <<process, attached, phase>>
    BY <1>1 DEF OpenStorage
  <2>. QED
    BY <2>1, <2>2, NumAnalyzersAssumption
<1>2. CASE \E ok \in BOOLEAN : InitializeAnalyzer(ok)
  <2>. PICK ok \in BOOLEAN : InitializeAnalyzer(ok)
    BY <1>2
  <2>. QED
    BY NumAnalyzersAssumption DEF InitializeAnalyzer, control
<1>3. CASE Initialized
  <2>1. process' \in {"READY", "PROCESSING"} /\ pc' \in {"user", "limit", "go_to"}
    BY <1>3 DEF Initialized, Return
  <2>. QED
    BY <1>3, <2>1, NumAnalyzersAssumption DEF Initialized
<1>. QED
  BY <1>1, <1>2, <1>3

\* The event loop.
LEMMA LoopStep ==
  ASSUME LInv, \/ GoToEvent \/ EventDone \/ SetLimit \/ CheckLoop \/ LeaveRun
               \/ \E ok \in BOOLEAN : AnalyzeEvent(ok)
  PROVE  LInv'
<1>1. CASE GoToEvent
  BY <1>1, NumAnalyzersAssumption DEF GoToEvent, control, data
<1>2. CASE EventDone
  BY <1>2, NumAnalyzersAssumption DEF EventDone, Return, control
<1>3. CASE SetLimit
  BY <1>3, NumAnalyzersAssumption DEF SetLimit
<1>4. CASE CheckLoop
  <2>1. pc' \in {"leave", "go_to"}
    BY <1>4 DEF CheckLoop
  <2>. QED
    BY <1>4, <2>1, NumAnalyzersAssumption DEF CheckLoop, data
<1>5. CASE LeaveRun
  BY <1>5, NumAnalyzersAssumption DEF LeaveRun, Return, data
<1>6. CASE \E ok \in BOOLEAN : AnalyzeEvent(ok)
  <2>. PICK ok \in BOOLEAN : AnalyzeEvent(ok)
    BY <1>6
  <2>. QED
    BY NumAnalyzersAssumption DEF AnalyzeEvent, AfterAnalyze, control
<1>. QED
  BY <1>1, <1>2, <1>3, <1>4, <1>5, <1>6

\* finalize() goes through the analyzers once, and reset() leaves none.
LEMMA FinalizeStep ==
  ASSUME LInv, \/ Finalized
               \/ \E ok \in BOOLEAN : FinalizeAnalyzer(ok)
  PROVE  LInv'
<1>1. CASE Finalized
  BY <1>1, NumAnalyzersAssumption DEF Finalized, control
<1>2. CASE \E ok \in BOOLEAN : FinalizeAnalyzer(ok)
  <2>. PICK ok \in BOOLEAN : FinalizeAnalyzer(ok)
    BY <1>2
  <2>. QED
    BY NumAnalyzersAssumption DEF FinalizeAnalyzer, control
<1>. QED
  BY <1>1, <1>2

-------------------------------------------------------------------------------
\* No analyzer is initialized or finalized twice or used outside of the two,
\* whatever the input and whichever calls of ana_processor fail or are repeated.
THEOREM AnalyzersLiveOnceAlways == Spec => []AnalyzersLiveOnce
<1>1. LInv /\ [Next]_vars => LInv'
  <2>. SUFFICES ASSUME LInv, [Next]_vars PROVE LInv'
    OBVIOUS
  <2>1. CASE AnyCall \/ RunCall \/ LoopCall
    BY <2>1, CallStep DEF AnyCall, RunCall, LoopCall
  <2>2. CASE Processor
    BY <2>2, InitializeStep, LoopStep, FinalizeStep DEF Processor
  <2>3. CASE UNCHANGED vars
    BY <2>3 DEF vars
  <2>. QED
    BY <2>1, <2>2, <2>3 DEF Next
<1>. QED
  BY <1>1, LiveInit, LiveEnough, PTL DEF Spec

-------------------------------------------------------------------------------
(***************************************************************************)
(* What the analyzers see and what is written.  The events, for any input  *)
(* files and any number of analyzers: from the storage manager's record it *)
(* takes one open(), as reset() leaves no mode to open with.               *)
(***************************************************************************)
HIDE DEF Kinds, Fresh, Running, LInv, Phases, Live, Analyzers

Members == DOMAIN InitStorage

\* The storage manager as the program has set it up, before its only open().
Given == [InitStorage EXCEPT !.inFiles = job.files]

\* Without an open file.  Once reset() has forgotten the mode open() fails.
Shut(s) ==
  /\ DOMAIN s = Members
  /\ s.status \in {"INIT", "CLOSED"}
  /\ s.check /\ s.reads = DataTypes /\ s.writes \subseteq DataTypes
  /\ s.nread = 0 /\ s.nwritten = 0
  /\ s.chain = NoTrees /\ s.trees = {} /\ s.out = NoTrees
  /\ s.held = {} /\ s.ptr = AllCleared
  /\ s.mode # "UNDEFINED" =>
       /\ s.mode = job.mode /\ s.inFiles = job.files
       /\ s.disk = NoTrees /\ s.nevents = 0

\* With one.  Each output tree has its product, and so has each input tree.
Opened(s) ==
  /\ DOMAIN s = Members
  /\ s.status \in {"READY_IO", "OPERATING"}
  /\ s.mode = job.mode /\ s.mode \in {"READ", "WRITE", "BOTH"}
  /\ s.check /\ s.reads = DataTypes
  /\ s.nread \in Nat /\ s.nwritten \in Nat /\ s.nevents \in Nat
  /\ s.trees \subseteq s.held /\ s.held \subseteq DataTypes
  /\ DOMAIN s.out = DataTypes /\ DOMAIN s.ptr = DataTypes
  /\ s.mode = "BOTH" => Chained(s) \subseteq s.trees
  /\ IF s.mode = "WRITE" THEN s.nevents = 0
     ELSE \A t \in DataTypes : s.chain[t] = ChainOf(Given, t)

LEMMA OpenedKept ==
  ASSUME NEW s, Opened(s), NEW r, DOMAIN r = Members,
         r.status \in {"READY_IO", "OPERATING"},
         \A f \in {"mode", "check", "reads", "nevents", "chain"} : r[f] = s[f],
         r.nread \in Nat, r.nwritten \in Nat,
         s.trees \subseteq r.trees, r.trees \subseteq r.held, r.held \subseteq DataTypes,
         DOMAIN r.out = DataTypes, DOMAIN r.ptr = DataTypes
  PROVE  Opened(r) /\ Chained(r) = Chained(s)
<1>1. Chained(r) = Chained(s)
  BY DEF Chained
<1>. QED
  BY <1>1 DEF Opened

-------------------------------------------------------------------------------
(* open() and reset()                                                      *)

Contents == DOMAIN EventId

LEMMA GivenChain ==
  ASSUME NEW s, s.inFiles = job.files, s.disk = NoTrees, NEW t \in DataTypes
  PROVE  ChainOf(s, t) = ChainOf(Given, t)
<1>1. Given.inFiles = job.files /\ Given.disk = NoTrees
  BY DEF Given, InitStorage
<1>. QED
  BY <1>1 DEF ChainOf, TreeOf

LEMMA GivenTyped ==
  ASSUME job \in Jobs, \A k \in DOMAIN job.files : Readable(Given, job.files[k]),
         NEW t \in DataTypes
  PROVE  ChainOf(Given, t) \in Seq(Contents)
<1>. DEFINE n == Len(job.files)
            parts == [k \in 1 .. n |-> TreeOf(Given, job.files[k], t)]
<1>1. n \in Nat /\ DOMAIN job.files = 1 .. n
  BY JobsAssumption
<1>2. Given.inFiles = job.files /\ Given.disk = NoTrees
  BY DEF Given, InitStorage
<1>3. ASSUME NEW k \in 1 .. n PROVE TreeOf(Given, job.files[k], t) \in Seq(Contents)
  <2>1. CASE job.files[k] = OutFile
    <3>1. TreeOf(Given, job.files[k], t) = <<>>
      BY <1>2, <2>1 DEF TreeOf, NoTrees
    <3>. QED
      BY <3>1
  <2>2. CASE job.files[k] # OutFile
    <3>1. job.files[k] \in DOMAIN Content
      BY <1>1, <2>2 DEF Readable
    <3>2. Content[job.files[k]][t] \in Seq(Contents \ {Cleared})
      BY <3>1, ContentAssumption DEF Contents
    <3>. QED
      BY <2>2, <3>2 DEF TreeOf
  <2>. QED
    BY <2>1, <2>2
<1>4. parts \in [1 .. n -> Seq(Contents)]
  BY <1>3
<1>5. ChainOf(Given, t) = FlattenSeq(parts)
  BY <1>1, <1>2 DEF ChainOf
<1>. HIDE DEF n, parts
<1>. QED
  BY <1>1, <1>4, <1>5, FlattenRange

LEMMA ResetShut ==
  ASSUME NEW s, Opened(s)
  PROVE  LET r == ResetStorage(s)
         IN Shut(r) /\ r.mode = "UNDEFINED" /\ r.disk = WrittenOut(s)
<1>. DEFINE c == Close(s)
            r == ResetStorage(s)
<1>1. IsOpen(s)
  BY DEF Opened, IsOpen, OpenStatus
<1>2. c.disk = WrittenOut(s) /\ c.fout = FALSE
  BY <1>1 DEF Close, Opened, Members, InitStorage
<1>3. r = [InitStorage EXCEPT !.outName = s.outName, !.check = s.check,
                              !.fout = c.fout, !.disk = c.disk]
  BY <1>1 DEF ResetStorage
<1>4. s.check
  BY DEF Opened
<1>. HIDE DEF c
<1>5. /\ DOMAIN r = Members /\ r.disk = c.disk /\ r.check = s.check
      /\ \A f \in Members \ {"outName", "check", "fout", "disk"} : r[f] = InitStorage[f]
  BY <1>3 DEF Members, InitStorage
<1>. HIDE DEF r
<1>6. /\ InitStorage.status = "INIT" /\ InitStorage.reads = DataTypes
      /\ InitStorage.writes = {} /\ InitStorage.nread = 0 /\ InitStorage.nwritten = 0
      /\ InitStorage.chain = NoTrees /\ InitStorage.trees = {} /\ InitStorage.out = NoTrees
      /\ InitStorage.held = {} /\ InitStorage.ptr = AllCleared
      /\ InitStorage.mode = "UNDEFINED"
      /\ {"status", "reads", "writes", "nread", "nwritten", "chain", "trees", "out",
          "held", "ptr", "mode"} \subseteq Members \ {"outName", "check", "fout", "disk"}
  BY DEF InitStorage, Members
<1>7. Shut(r) /\ r.mode = "UNDEFINED"
  BY <1>4, <1>5, <1>6 DEF Shut
<1>. QED
  BY <1>2, <1>5, <1>7 DEF r

\* What the only open() of a program finds in its files.
LEMMA PrepareOpens ==
  ASSUME NEW s, job \in Jobs, DOMAIN s = Members, s.status = "OPENED",
         s.check, s.reads = DataTypes, s.writes \subseteq DataTypes,
         s.chain = NoTrees, s.trees = {}, s.out = NoTrees, s.held = {},
         s.ptr = AllCleared, s.nevents = 0,
         s.mode = job.mode, s.mode \in {"READ", "WRITE", "BOTH"},
         s.inFiles = job.files, s.disk = NoTrees,
         s.mode # "WRITE" => \A k \in DOMAIN job.files : Readable(Given, job.files[k])
  PROVE  LET p == PrepareTree(s)
         IN \/ p.ret = FALSE /\ Shut(p)
            \/ /\ p.ret = TRUE /\ Opened(p) /\ p.nread = 0 /\ p.nwritten = 0
               /\ p.out = NoTrees /\ p.ptr = AllCleared
<1>. DEFINE reading == IF s.mode = "WRITE" THEN {} ELSE s.reads
            chain == [t \in DataTypes |-> IF t \in reading THEN ChainOf(s, t) ELSE s.chain[t]]
            found == {t \in reading : chain[t] # <<>>}
            writes == IF s.mode = "BOTH" THEN (s.writes \ reading) \union found ELSE s.writes
            made == IF s.mode = "READ" THEN {} ELSE writes
            lengths == {Len(chain[t]) : t \in found}
            shortest == EventsToRead(s, lengths)
            prepared ==
              [s EXCEPT !.chain = chain, !.writes = writes,
                        !.held = @ \union found \union made,
                        !.trees = @ \union made,
                        !.nevents = shortest,
                        !.index = 0, !.nread = 0, !.nwritten = 0]
            p == PrepareTree(s)
<1>1. /\ reading \subseteq DataTypes /\ writes \subseteq DataTypes
      /\ made \subseteq DataTypes /\ found \subseteq reading
      /\ s.mode = "BOTH" => found \subseteq made
  OBVIOUS
<1>2. s.mode # "WRITE" => \A t \in DataTypes : chain[t] = ChainOf(Given, t)
  BY GivenChain
<1>3. s.mode = "WRITE" => found = {} /\ lengths = {}
  OBVIOUS
<1>4. lengths \in SUBSET Nat
  <2>1. ASSUME NEW t \in found PROVE Len(chain[t]) \in Nat
    <3>1. t \in DataTypes /\ s.mode # "WRITE"
      BY <1>1
    <3>2. chain[t] \in Seq(Contents)
      BY <1>2, <3>1, GivenTyped
    <3>. QED
      BY <3>2
  <2>. QED
    BY <2>1
<1>5. shortest \in Nat /\ (s.mode = "WRITE" => shortest = 0)
  <2>1. shortest = IF lengths = {} THEN 0 ELSE Min(lengths)
    BY DEF EventsToRead
  <2>. HIDE DEF shortest, lengths
  <2>2. lengths # {} => Min(lengths) \in Nat
    BY <1>4, MinOf
  <2>. QED
    BY <1>3, <2>1, <2>2
<1>6. \A t \in DataTypes : chain[t] # <<>> /\ s.mode = "BOTH" => t \in found
  OBVIOUS
<1>. HIDE DEF chain, found, writes, made, lengths, shortest
<1>7. /\ DOMAIN prepared = Members
      /\ prepared.chain = chain /\ prepared.writes = writes
      /\ prepared.held = found \cup made /\ prepared.trees = made
      /\ prepared.nevents = shortest /\ prepared.nread = 0 /\ prepared.nwritten = 0
      /\ \A f \in {"status", "mode", "inFiles", "check", "reads", "out", "ptr", "disk"} :
           prepared[f] = s[f]
  BY DEF Members, InitStorage
<1>8. p = IF s.mode # "WRITE" /\ shortest = 0
          THEN [Close(prepared) EXCEPT !.ret = FALSE]
          ELSE [prepared EXCEPT !.status = "READY_IO", !.ret = TRUE]
  BY <1>7 DEF PrepareTree, chain, found, writes, made, lengths, shortest
<1>. HIDE DEF prepared, p
<1>9. CASE s.mode # "WRITE" /\ shortest = 0
  <2>. DEFINE c == Close(prepared)
  <2>1. IsOpen(prepared) /\ WrittenOut(prepared) = s.disk
    BY <1>7 DEF IsOpen, OpenStatus, WrittenOut
  <2>2. /\ DOMAIN c = Members /\ c.status = "CLOSED" /\ c.disk = s.disk
        /\ c.chain = NoTrees /\ c.trees = {} /\ c.out = NoTrees /\ c.held = {}
        /\ c.ptr = AllCleared
        /\ \A f \in {"mode", "inFiles", "check", "reads", "writes", "nevents",
                     "nread", "nwritten"} : c[f] = prepared[f]
    BY <1>7, <2>1 DEF Close, Members, InitStorage
  <2>. HIDE DEF c
  <2>3. /\ p.ret = FALSE /\ DOMAIN p = Members
        /\ \A f \in Members \ {"ret"} : p[f] = c[f]
    BY <1>8, <1>9, <2>2 DEF c, Members, InitStorage
  <2>4. \A f \in {"status", "mode", "inFiles", "check", "reads", "writes", "nevents", "nread",
                  "nwritten", "chain", "trees", "out", "held", "ptr", "disk"} : p[f] = c[f]
    BY <2>3 DEF Members, InitStorage
  <2>5. Shut(p)
    BY <1>1, <1>7, <1>9, <2>2, <2>3, <2>4 DEF Shut
  <2>. QED
    BY <2>3, <2>5 DEF p
<1>10. CASE ~(s.mode # "WRITE" /\ shortest = 0)
  <2>1. /\ p.ret = TRUE /\ p.status = "READY_IO" /\ DOMAIN p = Members
        /\ \A f \in Members \ {"status", "ret"} : p[f] = prepared[f]
    BY <1>7, <1>8, <1>10 DEF Members, InitStorage
  <2>2. \A f \in {"mode", "inFiles", "check", "reads", "writes", "nevents", "nread",
                  "nwritten", "chain", "trees", "out", "held", "ptr"} : p[f] = prepared[f]
    BY <2>1 DEF Members, InitStorage
  <2>3. p.mode = "BOTH" => Chained(p) \subseteq p.trees
    BY <1>1, <1>6, <1>7, <2>2 DEF Chained
  <2>4. p.trees \subseteq p.held /\ p.held \subseteq DataTypes
    BY <1>1, <1>7, <2>2
  <2>5. DOMAIN p.out = DataTypes /\ DOMAIN p.ptr = DataTypes
    BY <1>7, <2>2 DEF NoTrees, AllCleared
  <2>6. Opened(p)
    BY <1>2, <1>5, <1>7, <2>1, <2>2, <2>3, <2>4, <2>5 DEF Opened
  <2>. QED
    BY <1>7, <2>1, <2>2, <2>6 DEF p
<1>. QED
  BY <1>9, <1>10

LEMMA OpenOpens ==
  ASSUME NEW s, Shut(s), job \in Jobs
  PROVE  LET p == Open(s, TRUE)
         IN \/ p.ret = FALSE /\ Shut(p)
            \/ /\ p.ret = TRUE /\ Opened(p) /\ p.nread = 0 /\ p.nwritten = 0
               /\ p.out = NoTrees /\ p.ptr = AllCleared
<1>. DEFINE input == s.mode \in {"READ", "BOTH"}
            output == s.mode \in {"WRITE", "BOTH"}
            opened == IF ~output THEN s ELSE [s EXCEPT !.fout = TRUE, !.disk = NoTrees]
            ready == [opened EXCEPT !.status = "OPENED"]
            p == Open(s, TRUE)
<1>1. /\ DOMAIN opened = Members
      /\ \A f \in Members \ {"fout", "disk"} : opened[f] = s[f]
      /\ s.disk = NoTrees => opened.disk = NoTrees
      /\ Shut(opened)
  <2>1. /\ DOMAIN opened = Members
        /\ \A f \in Members \ {"fout", "disk"} : opened[f] = s[f]
        /\ opened.disk \in {s.disk, NoTrees}
    BY DEF Shut, Members, InitStorage
  <2>2. \A f \in {"status", "check", "reads", "writes", "nread", "nwritten", "chain", "trees",
                  "out", "held", "ptr", "mode", "inFiles", "nevents"} : opened[f] = s[f]
    BY <2>1 DEF Members, InitStorage
  <2>. HIDE DEF opened
  <2>3. Shut(opened)
    BY <2>1, <2>2 DEF Shut
  <2>. QED
    BY <2>1, <2>3
<1>2. \/ p = [s EXCEPT !.ret = FALSE]
      \/ p = [opened EXCEPT !.ret = FALSE]
      \/ /\ p = PrepareTree(ready)
         /\ s.mode # "UNDEFINED"
         /\ input => \A k \in DOMAIN s.inFiles : Readable(s, s.inFiles[k])
  BY DEF Open
<1>. HIDE DEF opened, p
<1>3. ASSUME NEW o \in {s, opened}, p = [o EXCEPT !.ret = FALSE]
      PROVE  p.ret = FALSE /\ Shut(p)
  <2>1. Shut(o) /\ DOMAIN o = Members
    BY <1>1 DEF Shut
  <2>2. /\ p.ret = FALSE /\ DOMAIN p = Members
        /\ \A f \in Members \ {"ret"} : p[f] = o[f]
    BY <1>3, <2>1 DEF Members, InitStorage
  <2>3. \A f \in {"status", "check", "reads", "writes", "nread", "nwritten", "chain", "trees",
                  "out", "held", "ptr", "mode", "inFiles", "nevents", "disk"} : p[f] = o[f]
    BY <2>2 DEF Members, InitStorage
  <2>. QED
    BY <2>1, <2>2, <2>3 DEF Shut
<1>4. CASE p = PrepareTree(ready) /\ s.mode # "UNDEFINED"
           /\ (input => \A k \in DOMAIN s.inFiles : Readable(s, s.inFiles[k]))
  <2>1. ready.status = "OPENED" /\ DOMAIN ready = Members
        /\ \A f \in Members \ {"status"} : ready[f] = opened[f]
    BY <1>1 DEF Members, InitStorage
  <2>. HIDE DEF ready
  <2>2. \A f \in {"check", "reads", "writes", "nread", "nwritten", "chain", "trees",
                  "out", "held", "ptr", "mode", "inFiles", "nevents"} :
           ready[f] = opened[f] /\ opened[f] = s[f]
    BY <1>1, <2>1 DEF Members, InitStorage
  <2>3. ready.disk = NoTrees /\ s.mode = job.mode /\ s.inFiles = job.files /\ s.nevents = 0
    <3>1. ready.disk = opened.disk
      BY <2>1 DEF Members, InitStorage
    <3>. QED
      BY <1>1, <1>4, <3>1 DEF Shut
  <2>4. s.mode \in {"READ", "WRITE", "BOTH"}
    BY <1>4, <2>3, JobsAssumption DEF Modes
  <2>5. s.mode # "WRITE" => \A k \in DOMAIN job.files : Readable(Given, job.files[k])
    BY <1>4, <2>3, <2>4 DEF Readable
  <2>6. /\ ready.check /\ ready.reads = DataTypes /\ ready.writes \subseteq DataTypes
        /\ ready.chain = NoTrees /\ ready.trees = {} /\ ready.out = NoTrees /\ ready.held = {}
        /\ ready.ptr = AllCleared /\ ready.nevents = 0
        /\ ready.mode = job.mode /\ ready.mode \in {"READ", "WRITE", "BOTH"}
        /\ ready.inFiles = job.files
        /\ ready.mode # "WRITE" => \A k \in DOMAIN job.files : Readable(Given, job.files[k])
    BY <2>2, <2>3, <2>4, <2>5 DEF Shut
  <2>. DEFINE c == PrepareTree(ready)
  <2>7. \/ c.ret = FALSE /\ Shut(c)
        \/ /\ c.ret = TRUE /\ Opened(c) /\ c.nread = 0 /\ c.nwritten = 0
           /\ c.out = NoTrees /\ c.ptr = AllCleared
    BY <2>1, <2>3, <2>6, PrepareOpens
  <2>8. p = c
    BY <1>4
  <2>. HIDE DEF c
  <2>9. \/ p.ret = FALSE /\ Shut(p)
        \/ /\ p.ret = TRUE /\ Opened(p) /\ p.nread = 0 /\ p.nwritten = 0
           /\ p.out = NoTrees /\ p.ptr = AllCleared
    BY <2>7, <2>8
  <2>. QED
    BY <2>9 DEF p
<1>5. CASE p = [s EXCEPT !.ret = FALSE] \/ p = [opened EXCEPT !.ret = FALSE]
  BY <1>3, <1>5 DEF p
<1>. QED
  BY <1>2, <1>4, <1>5

-------------------------------------------------------------------------------
(* next_event() and go_to()                                                *)

\* What a product may hold in the event a.
Matches(e, a) == e = Cleared \/ EventId[e] = EventId[a]

\* The tree q has events of those seen, in their order, up to the n-th.
Follows(q, n, seen) ==
  /\ IsSequence(q) /\ Len(q) <= n
  /\ \A k \in 1 .. Len(q) : Matches(q[k], seen[n - Len(q) + k])

\* So has each output tree, and the ones of the input's types have them all.
Recorded(s, seen) ==
  \A t \in s.trees :
    /\ Follows(s.out[t], s.nwritten, seen)
    /\ t \in Chained(s) => Len(s.out[t]) = s.nwritten

\* What is in memory and not yet written is of the event a.
Pending(s, a) == \A t \in s.trees : Matches(s.ptr[t], a)

Emptied(s) == \A t \in s.trees : s.ptr[t] = Cleared

\* The last event seen is not written until the next is asked for.
Between(s, seen) ==
  /\ s.nread = Len(seen)
  /\ IF s.nread = 0 THEN s.nwritten = 0 /\ Emptied(s)
     ELSE s.nwritten = Len(seen) - 1 /\ Pending(s, seen[Len(seen)])

\* CurrentEvent of any s.
Now(s) == IF Chained(s) = {} THEN Cleared ELSE s.chain[Min(Chained(s))][s.index]

\* The event of index e is read, and not yet one of those seen.
During(s, seen, e) ==
  /\ s.nread = Len(seen) + 1 /\ s.nwritten = Len(seen)
  /\ Pending(s, Now(s))
  /\ \A t \in Chained(s) : s.ptr[t] = s.chain[t][e + 1]

At(s, e) == s.status = "OPERATING" /\ s.index = e + 1

LEMMA FollowsOn ==
  ASSUME NEW q, NEW n \in Nat, NEW seen, Follows(q, n, seen),
         NEW e, Matches(e, seen[n + 1])
  PROVE  Follows(Append(q, e), n + 1, seen) /\ Len(Append(q, e)) = Len(q) + 1
<1>. DEFINE a == Append(q, e)
<1>1. /\ IsSequence(a) /\ Len(q) \in Nat /\ Len(a) = Len(q) + 1
      /\ \A k \in 1 .. Len(q) + 1 : a[k] = IF k = Len(q) + 1 THEN e ELSE q[k]
  BY Appended DEF Follows
<1>. HIDE DEF a
<1>2. ASSUME NEW k \in 1 .. Len(a) PROVE Matches(a[k], seen[n + 1 - Len(a) + k])
  <2>1. n + 1 - Len(a) + k = n - Len(q) + k
    BY <1>1
  <2>2. CASE k = Len(q) + 1
    <3>1. n + 1 - Len(a) + k = n + 1 /\ a[k] = e
      BY <1>1, <2>2
    <3>. QED
      BY <3>1
  <2>3. CASE k # Len(q) + 1
    <3>1. k \in 1 .. Len(q) /\ a[k] = q[k]
      BY <1>1, <2>3
    <3>. QED
      BY <2>1, <3>1 DEF Follows
  <2>. QED
    BY <2>2, <2>3
<1>. QED
  BY <1>1, <1>2 DEF Follows, a

LEMMA WriteKeeps ==
  ASSUME NEW s, Opened(s)
  PROVE  LET w == WriteEvent(s)
         IN /\ Opened(w) /\ Chained(w) = Chained(s) /\ w.trees = s.trees
            /\ w.nread = s.nread /\ w.nwritten = s.nwritten + 1
            /\ w.status = s.status /\ w.mode = s.mode /\ w.chain = s.chain
            /\ w.nevents = s.nevents
            /\ s.mode # "WRITE" => w.index = s.index
            /\ \A t \in s.trees : w.out[t] = Append(s.out[t], s.ptr[t])
            /\ Emptied(w)
<1>. DEFINE w == WriteEvent(s)
            outs == [t \in DataTypes |-> IF t \in s.trees THEN Append(s.out[t], s.ptr[t])
                                         ELSE s.out[t]]
<1>1. /\ DOMAIN w = Members /\ w.nwritten = s.nwritten + 1
      /\ w.out = outs /\ w.ptr = AfterFill(s)
      /\ \A f \in {"status", "mode", "check", "reads", "nread", "nevents", "chain", "trees",
                   "held"} : w[f] = s[f]
      /\ s.mode # "WRITE" => w.index = s.index
  BY DEF WriteEvent, Opened, Members, InitStorage
<1>. HIDE DEF w
<1>2. /\ DOMAIN w.out = DataTypes /\ DOMAIN w.ptr = DataTypes /\ s.trees \subseteq DataTypes
      /\ w.nread \in Nat /\ w.nwritten \in Nat
      /\ w.status \in {"READY_IO", "OPERATING"}
      /\ w.trees \subseteq w.held /\ w.held \subseteq DataTypes /\ s.trees \subseteq w.trees
  BY <1>1 DEF AfterFill, Opened
<1>3. Opened(w) /\ Chained(w) = Chained(s)
  BY <1>1, <1>2, OpenedKept
<1>4. \A t \in s.trees : w.out[t] = Append(s.out[t], s.ptr[t]) /\ w.ptr[t] = Cleared
  BY <1>1, <1>2 DEF AfterFill
<1>. HIDE DEF outs
<1>. QED
  BY <1>1, <1>3, <1>4 DEF w, Emptied

\* The event that waited is written behind the ones before it.
LEMMA WriteRecords ==
  ASSUME NEW s, Opened(s), s.mode = "BOTH", NEW seen, IsSequence(seen),
         Recorded(s, seen), Between(s, seen), s.nread # 0
  PROVE  LET w == WriteEvent(s)
         IN Recorded(w, seen) /\ w.nwritten = Len(seen)
<1>. DEFINE w == WriteEvent(s)
<1>1. Len(seen) \in Nat /\ s.nwritten \in Nat /\ s.nwritten + 1 = Len(seen)
      /\ Pending(s, seen[Len(seen)])
  <2>1. Len(seen) \in Nat
    BY DEF IsSequence
  <2>. QED
    BY <2>1 DEF Between, Opened
<1>2. /\ Chained(w) = Chained(s) /\ w.trees = s.trees /\ w.nwritten = s.nwritten + 1
      /\ \A t \in s.trees : w.out[t] = Append(s.out[t], s.ptr[t])
  BY WriteKeeps
<1>. HIDE DEF w
<1>3. ASSUME NEW t \in s.trees
      PROVE  /\ Follows(w.out[t], w.nwritten, seen)
             /\ t \in Chained(w) => Len(w.out[t]) = w.nwritten
  <2>1. /\ Follows(s.out[t], s.nwritten, seen)
        /\ t \in Chained(s) => Len(s.out[t]) = s.nwritten
    BY DEF Recorded
  <2>2. Matches(s.ptr[t], seen[s.nwritten + 1])
    BY <1>1 DEF Pending
  <2>3. /\ Follows(Append(s.out[t], s.ptr[t]), s.nwritten + 1, seen)
        /\ Len(Append(s.out[t], s.ptr[t])) = Len(s.out[t]) + 1
    BY <1>1, <2>1, <2>2, FollowsOn
  <2>. QED
    BY <1>2, <2>1, <2>3
<1>. QED
  BY <1>1, <1>2, <1>3 DEF Recorded, w

\* What reading an event loads.
Loads(s, r) ==
  /\ \A t \in Chained(s) : /\ r.ptr[t] = s.chain[t][s.index + 1]
                           /\ Matches(r.ptr[t], s.chain[Min(Chained(s))][s.index + 1])
  /\ \A t \in DataTypes \ Chained(s) : r.ptr[t] = s.ptr[t]

LEMMA ReadKeeps ==
  ASSUME NEW s, Opened(s)
  PROVE  LET r == ReadEvent(s)
         IN /\ Opened(r) /\ Chained(r) = Chained(s)
            /\ \A f \in {"status", "mode", "chain", "trees", "out", "nwritten", "nevents"} :
                 r[f] = s[f]
            /\ IF r.ret THEN r.index = s.index + 1 /\ r.nread = s.nread + 1
               ELSE r.nread = s.nread
            /\ r.ret \in BOOLEAN
            /\ r.ret /\ s.mode = "BOTH" => Loads(s, r)
            /\ ~r.ret => s.index >= s.nevents \/ (s.mode = "BOTH" /\ Misaligned(s) # {})
<1>. DEFINE bad == Misaligned(s)
            read == IF s.mode = "READ" THEN Chained(s) \intersect {EVENT}
                    ELSE {t \in Chained(s) : \A b \in bad : t <= b}
            named == IF s.mode = "READ" THEN read
                     ELSE IF s.check THEN Chained(s) \intersect s.reads ELSE {}
            id == IF named = {} THEN NoId ELSE EventId[Entry(s, Min(named))]
            buffers == Loaded(s, read)
            loaded == [s EXCEPT !.ptr = buffers, !.curId = id]
            r == ReadEvent(s)
<1>1. r = IF s.index >= s.nevents THEN [s EXCEPT !.ret = FALSE]
          ELSE IF s.mode = "BOTH" /\ bad # {} THEN [loaded EXCEPT !.ret = FALSE]
          ELSE [loaded EXCEPT !.index = @ + 1, !.nread = @ + 1, !.ret = TRUE]
  BY DEF ReadEvent
<1>2. DOMAIN buffers = DataTypes
  BY DEF Loaded
<1>3. ASSUME s.mode = "BOTH", bad = {}
      PROVE  /\ \A t \in Chained(s) : /\ buffers[t] = s.chain[t][s.index + 1]
                                      /\ Matches(buffers[t], s.chain[Min(Chained(s))][s.index + 1])
             /\ \A t \in DataTypes \ Chained(s) : buffers[t] = s.ptr[t]
  <2>1. read = Chained(s) /\ Chained(s) \subseteq DataTypes
    BY <1>3 DEF Chained
  <2>2. s.check /\ s.reads = DataTypes /\ Chained(s) \cap s.reads = Chained(s)
    BY <2>1 DEF Opened
  <2>3. \A t \in Chained(s) : EventId[Entry(s, t)] = EventId[Entry(s, Min(Chained(s)))]
    BY <1>3, <2>2 DEF Misaligned
  <2>. HIDE DEF read
  <2>. QED
    BY <2>1, <2>3 DEF Loaded, Entry, Matches
<1>. HIDE DEF bad, buffers, id
<1>4. /\ DOMAIN r = Members
      /\ r.ptr \in {s.ptr, buffers}
      /\ \A f \in Members \ {"ptr", "curId", "index", "nread", "ret"} : r[f] = s[f]
      /\ \/ r.ret = FALSE /\ r.nread = s.nread
            /\ (s.index >= s.nevents \/ (s.mode = "BOTH" /\ bad # {}))
         \/ /\ r.ret = TRUE /\ r.nread = s.nread + 1 /\ r.index = s.index + 1
            /\ r.ptr = buffers /\ ~(s.mode = "BOTH" /\ bad # {})
  <2>. DOMAIN s = Members
    BY DEF Opened
  <2>. HIDE DEF r
  <2>1. CASE s.index >= s.nevents
    <3>1. r = [s EXCEPT !.ret = FALSE]
      BY <1>1, <2>1
    <3>. QED
      BY <2>1, <3>1 DEF Members, InitStorage
  <2>2. CASE ~(s.index >= s.nevents) /\ s.mode = "BOTH" /\ bad # {}
    <3>1. r = [[s EXCEPT !.ptr = buffers, !.curId = id] EXCEPT !.ret = FALSE]
      BY <1>1, <2>2
    <3>. QED
      BY <2>2, <3>1 DEF Members, InitStorage
  <2>3. CASE ~(s.index >= s.nevents) /\ ~(s.mode = "BOTH" /\ bad # {})
    <3>1. r = [loaded EXCEPT !.index = @ + 1, !.nread = @ + 1, !.ret = TRUE]
      BY <1>1, <2>3
    <3>2. loaded.index = s.index /\ loaded.nread = s.nread
      BY DEF Members, InitStorage
    <3>. QED
      BY <2>3, <3>1, <3>2 DEF Members, InitStorage
  <2>. QED
    BY <2>1, <2>2, <2>3
<1>. HIDE DEF r, loaded
<1>5. \A f \in {"status", "mode", "check", "reads", "nwritten", "nevents", "chain", "trees",
                "held", "out"} : r[f] = s[f]
  BY <1>4 DEF Members, InitStorage
<1>6. /\ DOMAIN r.out = DataTypes /\ DOMAIN r.ptr = DataTypes
      /\ r.nread \in Nat /\ r.nwritten \in Nat
      /\ r.status \in {"READY_IO", "OPERATING"}
      /\ r.trees \subseteq r.held /\ r.held \subseteq DataTypes /\ s.trees \subseteq r.trees
  BY <1>2, <1>4, <1>5 DEF Opened
<1>7. Opened(r) /\ Chained(r) = Chained(s)
  BY <1>4, <1>5, <1>6, OpenedKept
<1>8. r.ret /\ s.mode = "BOTH" => Loads(s, r)
  BY <1>3, <1>4 DEF Loads
<1>. QED
  BY <1>4, <1>5, <1>7, <1>8 DEF r, bad

\* The last event is written, if any was read, and the next one read.
LEMMA NextRecords ==
  ASSUME NEW s, Opened(s), NEW seen, IsSequence(seen),
         s.mode = "BOTH" => Recorded(s, seen) /\ Between(s, seen)
  PROVE  LET n == NextEvent(s)
         IN /\ Opened(n) /\ n.ret \in BOOLEAN /\ Chained(n) = Chained(s)
            /\ n.chain = s.chain /\ n.mode = s.mode /\ n.nevents = s.nevents
            /\ n.mode = "BOTH" => Recorded(n, seen) /\ n.nwritten = Len(seen)
            /\ n.status = "OPERATING"
            /\ n.ret /\ s.mode # "WRITE" => n.index = s.index + 1
            /\ n.ret /\ s.mode = "BOTH" => During(n, seen, s.index)
            /\ ~n.ret => s.index >= s.nevents \/ (s.mode = "BOTH" /\ Misaligned(s) # {})
<1>. DEFINE op == [s EXCEPT !.status = "OPERATING"]
            n == NextEvent(s)
<1>1. /\ DOMAIN op = Members /\ op.status = "OPERATING"
      /\ \A f \in {"mode", "check", "reads", "nread", "nwritten", "nevents", "chain", "trees",
                   "held", "out", "ptr", "index"} : op[f] = s[f]
  BY DEF Opened, Members, InitStorage
<1>2. n = CASE s.mode = "READ" -> ReadEvent(op)
            [] s.mode = "WRITE" -> WriteEvent(op)
            [] s.mode = "BOTH" -> ReadEvent(IF s.nread > 0 THEN WriteEvent(op) ELSE op)
            [] OTHER -> [op EXCEPT !.ret = TRUE]
  <2>1. op.mode = s.mode /\ op.nread = s.nread /\ s.status \in {"READY_IO", "OPERATING"}
    BY <1>1 DEF Opened
  <2>. QED
    BY <2>1 DEF NextEvent
<1>. HIDE DEF op, n
<1>3. Opened(op) /\ Chained(op) = Chained(s)
  <2>1. /\ op.status \in {"READY_IO", "OPERATING"}
        /\ op.nread \in Nat /\ op.nwritten \in Nat
        /\ s.trees \subseteq op.trees /\ op.trees \subseteq op.held /\ op.held \subseteq DataTypes
        /\ DOMAIN op.out = DataTypes /\ DOMAIN op.ptr = DataTypes
    BY <1>1 DEF Opened
  <2>. QED
    BY <1>1, <2>1, OpenedKept
<1>4. s.mode \in {"READ", "WRITE", "BOTH"}
  BY DEF Opened
<1>5. CASE s.mode = "READ"
  <2>1. n = ReadEvent(op)
    BY <1>2, <1>5
  <2>2. /\ Opened(n) /\ Chained(n) = Chained(op) /\ n.ret \in BOOLEAN
        /\ n.status = op.status /\ n.mode = op.mode /\ n.chain = op.chain
        /\ n.nevents = op.nevents
        /\ n.ret => n.index = op.index + 1
        /\ ~n.ret => op.index >= op.nevents \/ (op.mode = "BOTH" /\ Misaligned(op) # {})
    BY <1>3, <2>1, ReadKeeps
  <2>. QED
    BY <1>1, <1>3, <1>5, <2>2 DEF n
<1>6. CASE s.mode = "WRITE"
  <2>1. n = WriteEvent(op)
    BY <1>2, <1>6
  <2>2. n.ret = TRUE
    BY <1>3, <2>1 DEF WriteEvent, Opened, Members, InitStorage
  <2>3. /\ Opened(n) /\ Chained(n) = Chained(op)
        /\ n.status = op.status /\ n.mode = op.mode /\ n.chain = op.chain
        /\ n.nevents = op.nevents
    BY <1>3, <2>1, WriteKeeps
  <2>. QED
    BY <1>1, <1>3, <1>6, <2>2, <2>3 DEF n
<1>7. CASE s.mode = "BOTH"
  <2>. DEFINE m == IF s.nread > 0 THEN WriteEvent(op) ELSE op
  <2>1. n = ReadEvent(m)
    BY <1>2, <1>7
  <2>2. Recorded(op, seen) /\ Between(op, seen) /\ op.mode = "BOTH"
    BY <1>1, <1>3, <1>7 DEF Recorded, Between, Emptied, Pending
  <2>3. s.nread \in Nat
    BY DEF Opened
  <2>4. /\ Opened(m) /\ Chained(m) = Chained(s) /\ Recorded(m, seen)
        /\ m.nwritten = Len(seen) /\ m.nread = Len(seen) /\ Emptied(m)
        /\ m.status = "OPERATING" /\ m.mode = "BOTH" /\ m.index = s.index
        /\ m.chain = s.chain /\ m.nevents = s.nevents
    <3>1. CASE s.nread = 0
      <4>1. m = op
        BY <3>1
      <4>2. op.nread = 0
        BY <1>1, <3>1
      <4>. HIDE DEF m
      <4>. QED
        BY <1>1, <1>3, <2>2, <4>1, <4>2 DEF Between
    <3>2. CASE s.nread # 0
      <4>1. m = WriteEvent(op) /\ op.nread # 0
        BY <1>1, <2>3, <3>2
      <4>. HIDE DEF m
      <4>2. /\ Opened(m) /\ Chained(m) = Chained(op) /\ m.nread = op.nread
            /\ m.status = op.status /\ m.mode = op.mode /\ m.chain = op.chain
            /\ m.nevents = op.nevents /\ m.index = op.index /\ Emptied(m)
        BY <1>3, <2>2, <4>1, WriteKeeps
      <4>3. Recorded(m, seen) /\ m.nwritten = Len(seen)
        BY <1>3, <2>2, <4>1, WriteRecords
      <4>4. op.nread = Len(seen)
        BY <2>2 DEF Between
      <4>. QED
        BY <1>1, <1>3, <2>2, <4>2, <4>3, <4>4
    <3>. QED
      BY <3>1, <3>2
  <2>5. Misaligned(m) # {} => Misaligned(s) # {}
    <3>1. m.check = s.check /\ m.reads = s.reads
      BY <2>4 DEF Opened
    <3>2. m.chain = s.chain /\ m.index = s.index /\ Chained(m) = Chained(s)
      BY <2>4
    <3>. HIDE DEF m
    <3>. QED
      BY <3>1, <3>2 DEF Misaligned, Entry
  <2>. HIDE DEF m
  <2>6. /\ Opened(n) /\ Chained(n) = Chained(m) /\ n.ret \in BOOLEAN
        /\ n.status = m.status /\ n.mode = m.mode /\ n.chain = m.chain
        /\ n.trees = m.trees /\ n.out = m.out /\ n.nwritten = m.nwritten
        /\ n.nevents = m.nevents
        /\ n.ret => n.index = m.index + 1 /\ n.nread = m.nread + 1
        /\ n.ret => Loads(m, n)
        /\ ~n.ret => m.index >= m.nevents \/ (m.mode = "BOTH" /\ Misaligned(m) # {})
    BY <2>1, <2>4, ReadKeeps
  <2>7. Recorded(n, seen) /\ n.nwritten = Len(seen)
    BY <2>4, <2>6 DEF Recorded
  <2>8. ASSUME n.ret PROVE During(n, seen, s.index)
    <3>1. Loads(m, n) /\ n.index = s.index + 1
      BY <2>4, <2>6, <2>8
    <3>2. \A t \in Chained(n) : n.ptr[t] = n.chain[t][s.index + 1]
      BY <2>4, <2>6, <3>1 DEF Loads
    <3>3. ASSUME NEW t \in n.trees PROVE Matches(n.ptr[t], Now(n))
      <4>1. CASE t \in Chained(n)
        <5>1. Now(n) = m.chain[Min(Chained(m))][m.index + 1]
          BY <2>4, <2>6, <3>1, <4>1 DEF Now
        <5>. QED
          BY <2>6, <3>1, <4>1, <5>1 DEF Loads
      <4>2. CASE t \notin Chained(n)
        <5>1. t \in DataTypes \ Chained(m) /\ m.ptr[t] = Cleared
          BY <2>4, <2>6, <4>2 DEF Emptied, Opened
        <5>. QED
          BY <3>1, <5>1 DEF Loads, Matches
      <4>. QED
        BY <4>1, <4>2
    <3>. QED
      BY <2>4, <2>6, <2>7, <2>8, <3>2, <3>3 DEF During, Pending
  <2>. QED
    BY <1>7, <2>4, <2>5, <2>6, <2>7, <2>8 DEF n
<1>. QED
  BY <1>4, <1>5, <1>6, <1>7

\* go_to() to the event of index i.
LEMMA GoToRecords ==
  ASSUME NEW s, Opened(s), NEW i, NEW seen, IsSequence(seen),
         s.mode = "BOTH" => Recorded(s, seen) /\ Between(s, seen)
  PROVE  LET g == GoTo(s, i)
         IN /\ Opened(g) /\ g.ret \in BOOLEAN
            /\ s.mode = "BOTH" => Recorded(g, seen) /\ g.nwritten <= Len(seen)
            /\ g.ret => At(g, i) /\ (s.mode = "BOTH" => During(g, seen, i))
            /\ g.nevents = s.nevents
            /\ g.ret => s.mode # "WRITE" /\ ~(i >= s.nevents)
            /\ Aligned /\ s.mode # "WRITE" /\ ~(i >= s.nevents) => g.ret
<1>. DEFINE at == [s EXCEPT !.index = i]
            g == GoTo(s, i)
<1>1. g = IF s.mode = "WRITE" \/ i >= s.nevents THEN [s EXCEPT !.ret = FALSE] ELSE NextEvent(at)
  BY DEF GoTo
<1>. HIDE DEF g
<1>2. CASE s.mode = "WRITE" \/ i >= s.nevents
  <2>1. /\ DOMAIN g = Members /\ g.ret = FALSE
        /\ \A f \in {"status", "mode", "check", "reads", "nread", "nwritten", "nevents", "chain",
                     "trees", "held", "out", "ptr"} : g[f] = s[f]
    BY <1>1, <1>2 DEF Opened, Members, InitStorage
  <2>2. Opened(g) /\ Chained(g) = Chained(s)
    <3>1. /\ g.status \in {"READY_IO", "OPERATING"}
          /\ g.nread \in Nat /\ g.nwritten \in Nat
          /\ s.trees \subseteq g.trees /\ g.trees \subseteq g.held /\ g.held \subseteq DataTypes
          /\ DOMAIN g.out = DataTypes /\ DOMAIN g.ptr = DataTypes
      BY <2>1 DEF Opened
    <3>. QED
      BY <2>1, <3>1, OpenedKept
  <2>3. s.mode = "BOTH" => Recorded(g, seen) /\ g.nwritten <= Len(seen)
    <3>1. Len(seen) \in Nat
      BY DEF IsSequence
    <3>. QED
      BY <2>1, <2>2, <3>1 DEF Recorded, Between
  <2>. QED
    BY <1>2, <2>1, <2>2, <2>3 DEF g
<1>3. CASE ~(s.mode = "WRITE" \/ i >= s.nevents)
  <2>1. g = NextEvent(at)
    BY <1>1, <1>3
  <2>2. /\ DOMAIN at = Members /\ at.index = i
        /\ \A f \in {"status", "mode", "check", "reads", "nread", "nwritten", "nevents", "chain",
                     "trees", "held", "out", "ptr"} : at[f] = s[f]
    BY DEF Opened, Members, InitStorage
  <2>. HIDE DEF at
  <2>3. Opened(at) /\ Chained(at) = Chained(s)
    <3>1. /\ at.status \in {"READY_IO", "OPERATING"}
          /\ at.nread \in Nat /\ at.nwritten \in Nat
          /\ s.trees \subseteq at.trees /\ at.trees \subseteq at.held
          /\ at.held \subseteq DataTypes
          /\ DOMAIN at.out = DataTypes /\ DOMAIN at.ptr = DataTypes
      BY <2>2 DEF Opened
    <3>. QED
      BY <2>2, <3>1, OpenedKept
  <2>4. at.mode = "BOTH" => Recorded(at, seen) /\ Between(at, seen)
    BY <2>2, <2>3 DEF Recorded, Between, Emptied, Pending
  <2>5. /\ Opened(g) /\ g.ret \in BOOLEAN /\ g.mode = at.mode /\ g.nevents = at.nevents
        /\ g.mode = "BOTH" => Recorded(g, seen) /\ g.nwritten = Len(seen)
        /\ g.status = "OPERATING"
        /\ g.ret /\ at.mode # "WRITE" => g.index = at.index + 1
        /\ g.ret /\ at.mode = "BOTH" => During(g, seen, at.index)
        /\ ~g.ret => at.index >= at.nevents \/ (at.mode = "BOTH" /\ Misaligned(at) # {})
    BY <2>1, <2>3, <2>4, NextRecords
  <2>6. Len(seen) \in Nat
    BY DEF IsSequence
  <2>7. Aligned /\ at.mode = "BOTH" => Misaligned(at) = {}
    <3>. SUFFICES ASSUME Aligned, at.mode = "BOTH" PROVE Misaligned(at) = {}
      OBVIOUS
    <3>1. \A t \in DataTypes : at.chain[t] = ChainOf(Given, t)
      BY <2>3 DEF Opened
    <3>2. \A t, u \in Chained(at) : at.chain[t] = at.chain[u]
      BY <3>1 DEF Aligned, Given, Chained
    <3>3. at.check /\ at.reads = DataTypes /\ Chained(at) \cap at.reads = Chained(at)
      BY <2>3 DEF Opened, Chained
    <3>4. ASSUME NEW t \in Chained(at)
          PROVE  at.chain[t] = at.chain[Min(Chained(at))]
      <4>1. Chained(at) \in SUBSET Nat
        BY DataTypesAssumption DEF Chained
      <4>2. Min(Chained(at)) \in Chained(at)
        BY <3>4, <4>1, MinOf
      <4>. QED
        BY <3>2, <4>2
    <3>. QED
      BY <3>3, <3>4 DEF Misaligned, Entry
  <2>. QED
    BY <1>3, <2>2, <2>5, <2>6, <2>7 DEF At, g
<1>. QED
  BY <1>2, <1>3

-------------------------------------------------------------------------------
(* get_data()                                                              *)

\* AnalyzerAccess() of any s, with v for the current event.
Accessed(s, t, fills, v) ==
  IF fills /\ GetData(s, t).ret /\ t \notin Chained(s)
  THEN [GetData(s, t) EXCEPT !.ptr[t] = v] ELSE GetData(s, t)

\* What an analyzer gets and fills is of the event that is being analysed.
LEMMA AccessKeeps ==
  ASSUME NEW s, Opened(s), NEW seen, NEW e \in Nat, At(s, e),
         s.mode = "BOTH" => Recorded(s, seen) /\ During(s, seen, e),
         NEW t \in DataTypes, NEW fills \in BOOLEAN
  PROVE  LET r == Accessed(s, t, fills, Now(s))
         IN /\ Opened(r) /\ At(r, e) /\ r.nevents = s.nevents
            /\ s.mode = "BOTH" => Recorded(r, seen) /\ During(r, seen, e)
<1>. DEFINE g == GetData(s, t)
            c == CreateProduct(s, t)
            r == Accessed(s, t, fills, Now(s))
<1>0. \/ r = g
      \/ r = [g EXCEPT !.ptr[t] = Now(s)] /\ t \notin Chained(s)
  BY DEF Accessed
<1>. HIDE DEF r
<1>1. s.index # 0
  BY DEF At
<1>2. g = IF s.mode = "READ" /\ s.chain[t] # <<>> THEN Fetch(s, t)
          ELSE [c EXCEPT !.ret = (t \in c.held)]
  BY <1>1 DEF GetData
<1>3. CASE s.mode = "READ" /\ s.chain[t] # <<>>
  <2>1. t \in Chained(s) /\ g = Fetch(s, t) /\ r = g
    BY <1>0, <1>2, <1>3 DEF Chained
  <2>. HIDE DEF g
  <2>2. /\ DOMAIN r = Members /\ DOMAIN r.ptr = DataTypes
        /\ \A f \in Members \ {"ptr", "ret", "curId"} : r[f] = s[f]
    BY <2>1 DEF Fetch, Opened, Members, InitStorage
  <2>3. \A f \in {"status", "mode", "check", "reads", "nread", "nwritten", "nevents", "chain",
                  "trees", "held", "out", "index"} : r[f] = s[f]
    BY <2>2 DEF Members, InitStorage
  <2>4. /\ r.status \in {"READY_IO", "OPERATING"}
        /\ r.nread \in Nat /\ r.nwritten \in Nat
        /\ s.trees \subseteq r.trees /\ r.trees \subseteq r.held /\ r.held \subseteq DataTypes
        /\ DOMAIN r.out = DataTypes
    BY <2>3 DEF Opened
  <2>5. Opened(r)
    BY <2>2, <2>3, <2>4, OpenedKept
  <2>. QED
    BY <1>3, <2>3, <2>5 DEF At, r
<1>4. CASE ~(s.mode = "READ" /\ s.chain[t] # <<>>)
  <2>. DEFINE new == ~(t \in s.held \/ s.mode = "READ")
  <2>1. g = [c EXCEPT !.ret = (t \in c.held)]
    BY <1>2, <1>4
  <2>2. /\ DOMAIN c = Members /\ DOMAIN c.ptr = DataTypes /\ DOMAIN c.out = DataTypes
        /\ \A f \in {"status", "mode", "check", "reads", "nread", "nwritten", "nevents", "chain",
                     "index"} : c[f] = s[f]
        /\ c.trees = IF new THEN s.trees \cup {t} ELSE s.trees
        /\ c.held = IF new THEN s.held \cup {t} ELSE s.held
        /\ c.ptr = IF new THEN [s.ptr EXCEPT ![t] = Cleared] ELSE s.ptr
        /\ c.out = IF new THEN [s.out EXCEPT ![t] = <<>>] ELSE s.out
    BY DEF CreateProduct, Opened, Members, InitStorage
  <2>. HIDE DEF c, new
  <2>3. /\ DOMAIN g = Members
        /\ \A f \in Members \ {"ret"} : g[f] = c[f]
    BY <2>1, <2>2 DEF Members, InitStorage
  <2>. HIDE DEF g
  <2>4. /\ DOMAIN r = Members /\ DOMAIN r.ptr = DataTypes
        /\ \A f \in Members \ {"ret", "ptr"} : r[f] = g[f]
        /\ \A u \in DataTypes : u # t => r.ptr[u] = c.ptr[u]
        /\ \/ r.ptr[t] = c.ptr[t]
           \/ r.ptr[t] = Now(s) /\ t \notin Chained(s)
    <3>1. CASE r = g
      <4>1. g.ptr = c.ptr
        BY <2>3 DEF Members, InitStorage
      <4>. QED
        BY <2>2, <2>3, <3>1, <4>1
    <3>2. CASE r = [g EXCEPT !.ptr[t] = Now(s)] /\ t \notin Chained(s)
      <4>1. g.ptr = c.ptr
        BY <2>3 DEF Members, InitStorage
      <4>2. /\ DOMAIN r = Members
            /\ r.ptr = [c.ptr EXCEPT ![t] = Now(s)]
            /\ \A f \in Members \ {"ret", "ptr"} : r[f] = g[f]
        BY <2>3, <3>2, <4>1 DEF Members, InitStorage
      <4>. QED
        BY <2>2, <3>2, <4>2
    <3>. QED
      BY <1>0, <3>1, <3>2 DEF g
  <2>5. /\ \A f \in {"status", "mode", "check", "reads", "nread", "nwritten", "nevents", "chain",
                     "index"} : r[f] = s[f]
        /\ r.trees = c.trees /\ r.held = c.held /\ r.out = c.out
    BY <2>2, <2>3, <2>4 DEF Members, InitStorage
  <2>6. /\ r.status \in {"READY_IO", "OPERATING"}
        /\ r.nread \in Nat /\ r.nwritten \in Nat
        /\ s.trees \subseteq r.trees /\ r.trees \subseteq r.held /\ r.held \subseteq DataTypes
        /\ DOMAIN r.out = DataTypes
    BY <2>2, <2>5 DEF Opened
  <2>7. Opened(r) /\ Chained(r) = Chained(s)
    BY <2>4, <2>5, <2>6, OpenedKept
  <2>8. ASSUME s.mode = "BOTH" PROVE Recorded(r, seen) /\ During(r, seen, e)
    <3>1. new => t \notin Chained(s)
      BY <2>8 DEF new, Opened
    <3>2. Now(r) = Now(s)
      BY <2>5, <2>7 DEF Now
    <3>3. ASSUME NEW u \in r.trees
          PROVE  /\ Follows(r.out[u], r.nwritten, seen)
                 /\ u \in Chained(r) => Len(r.out[u]) = r.nwritten
      <4>1. CASE new /\ u = t
        <5>1. r.out[u] = <<>> /\ u \notin Chained(r) /\ r.nwritten \in Nat
          BY <2>2, <2>5, <2>6, <2>7, <3>1, <4>1 DEF Opened
        <5>. QED
          BY <5>1, EmptySequence DEF Follows
      <4>2. CASE ~(new /\ u = t)
        <5>1. u \in s.trees /\ r.out[u] = s.out[u]
          BY <2>2, <2>5, <4>2
        <5>. QED
          BY <2>5, <2>7, <2>8, <5>1 DEF Recorded
      <4>. QED
        BY <4>1, <4>2
    <3>4. ASSUME NEW u \in r.trees PROVE Matches(r.ptr[u], Now(r))
      <4>1. CASE r.ptr[u] = Now(s)
        BY <3>2, <4>1 DEF Matches
      <4>2. CASE r.ptr[u] # Now(s)
        <5>1. u \in DataTypes /\ r.ptr[u] = c.ptr[u]
          BY <2>4, <2>6, <4>2
        <5>2. CASE new /\ u = t
          <6>1. c.ptr[u] = Cleared
            BY <2>2, <5>1, <5>2 DEF Opened
          <6>. QED
            BY <5>1, <6>1 DEF Matches
        <5>3. CASE ~(new /\ u = t)
          <6>1. u \in s.trees /\ c.ptr[u] = s.ptr[u]
            BY <2>2, <2>5, <5>1, <5>3 DEF Opened
          <6>. QED
            BY <2>8, <3>2, <5>1, <6>1 DEF During, Pending
        <5>. QED
          BY <5>2, <5>3
      <4>. QED
        BY <4>1, <4>2
    <3>5. ASSUME NEW u \in Chained(r) PROVE r.ptr[u] = r.chain[u][e + 1]
      <4>1. u \in DataTypes /\ s.ptr[u] = s.chain[u][e + 1] /\ u \in Chained(s)
        BY <2>7, <2>8 DEF During, Chained
      <4>2. c.ptr[u] = s.ptr[u]
        BY <2>2, <3>1, <4>1 DEF Opened
      <4>3. r.ptr[u] = c.ptr[u]
        BY <2>4, <4>1
      <4>. QED
        BY <2>5, <4>1, <4>2, <4>3
    <3>. QED
      BY <2>5, <2>8, <3>3, <3>4, <3>5 DEF Recorded, During, Pending
  <2>. QED
    BY <2>5, <2>7, <2>8 DEF At, r
<1>. QED
  BY <1>3, <1>4

-------------------------------------------------------------------------------
(* The invariant.                                                          *)

\* analysed and nevents go together while analyzers are attached.
Numbers ==
  /\ job \in Jobs
  /\ index \in Nat /\ event \in Nat /\ nevents \in Nat /\ limit \in Nat
  /\ IsSequence(analysed)

Stages ==
  /\ process \in {"INIT", "READY", "PROCESSING"}
  /\ call \in {"process_event", "run", "leaving"}
  /\ pc \in {"open", "initialize"} => process = "INIT"
  /\ pc \in {"limit", "finalize"} => process # "INIT"
  /\ pc \in {"go_to", "analyze"} => process = "PROCESSING"
  /\ pc = "check" => \/ process = "INIT" /\ nevents = 0
                     \/ process = "PROCESSING" /\ result
  /\ call = "leaving" => pc \in {"finalize", "user"}
  /\ pc = "initialize" => analysed = <<>>
  /\ process # "INIT" => nevents = Len(analysed)

\* Whether no file is open.
Closed == process = "INIT" /\ pc # "initialize"

\* run() leaves after a last next_event(), and process_event() when go_to()
\* has refused or failed: then the event that waited may be written or not.
Copied(s) ==
  /\ Recorded(s, analysed)
  /\ IF pc = "analyze" THEN During(s, analysed, event)
     ELSE IF pc \in {"leave", "finalize"}
     THEN /\ s.nwritten <= Len(analysed)
          /\ pc = "leave" \/ call = "leaving" =>
               s.nwritten = Len(analysed) /\ s.status = "OPERATING"
     ELSE Between(s, analysed)

UInv ==
  /\ Numbers /\ Stages
  /\ pc = "analyze" => At(st, event)
  /\ IF Closed THEN Shut(st) ELSE Opened(st) /\ (st.mode = "BOTH" => Copied(st))

\* UInv is what the property needs.
LEMMA UnmixedEnough == UInv => EventsUnmixed
<1>. SUFFICES ASSUME UInv PROVE EventsUnmixed
  OBVIOUS
<1>1. Len(analysed) \in Nat
  BY DEF UInv, Numbers, IsSequence
<1>2. CASE Closed
  <2>1. st.nwritten = 0 /\ st.trees = {} /\ pc # "analyze"
    BY <1>2 DEF UInv, Shut, Closed, Stages
  <2>. QED
    BY <1>1, <2>1 DEF EventsUnmixed
<1>3. CASE ~Closed
  <2>1. Opened(st) /\ (pc = "analyze" => At(st, event))
    BY <1>3 DEF UInv
  <2>2. ASSUME pc = "analyze"
        PROVE  /\ st.status = "OPERATING" /\ st.index = event + 1
               /\ st.mode = "BOTH" =>
                    \A t \in Chained(st) : st.ptr[t] = st.chain[t][event + 1]
    BY <1>3, <2>1, <2>2 DEF UInv, Copied, During, At
  <2>3. ASSUME st.mode = "BOTH"
        PROVE  st.nwritten <= Len(analysed)
    <3>1. Copied(st) /\ st.nwritten \in Nat
      BY <1>3, <2>1, <2>3 DEF UInv, Opened
    <3>. QED
      BY <1>1, <3>1 DEF Copied, During, Between
  <2>4. ASSUME st.mode = "BOTH", NEW t \in st.trees, NEW k \in DOMAIN st.out[t]
        PROVE  Matches(st.out[t][k], analysed[st.nwritten - Len(st.out[t]) + k])
    <3>1. Follows(st.out[t], st.nwritten, analysed)
      BY <1>3, <2>4 DEF UInv, Copied, Recorded
    <3>2. DOMAIN st.out[t] = 1 .. Len(st.out[t])
      BY <3>1 DEF Follows, IsSequence
    <3>. QED
      BY <3>1, <3>2 DEF Follows
  <2>. QED
    BY <2>2, <2>3, <2>4 DEF EventsUnmixed, Matches
<1>. QED
  BY <1>2, <1>3

LEMMA UnmixedInit == Init => UInv
<1>. SUFFICES ASSUME Init PROVE UInv
  OBVIOUS
<1>1. IsSequence(analysed) /\ Len(analysed) = 0
  BY EmptySequence DEF Init
<1>2. Numbers /\ Stages /\ Closed /\ pc # "analyze"
  BY <1>1 DEF Init, Numbers, Stages, Closed
<1>3. Shut(st)
  BY DEF Init, Shut, InitStorage, Members
<1>. QED
  BY <1>2, <1>3 DEF UInv

-------------------------------------------------------------------------------
(* Every step preserves it.                                                *)

LEMMA SameJob ==
  ASSUME job' = job
  PROVE  (Opened(st') => Opened(st)') /\ (Shut(st') => Shut(st)')
BY DEF Opened, Shut, Given

LEMMA NowIsCurrent == Now(st) = CurrentEvent
BY DEF Now, CurrentEvent

\* The user's calls, which leave the storage manager alone.
LEMMA UnmixedCall ==
  ASSUME UInv, \/ \E i \in Args \union {index} : ProcessEvent(i)
               \/ \E start, n \in Args : Run(start, n)
  PROVE  UInv'
<1>1. pc = "user" /\ UNCHANGED <<st, analysed, nevents, job>>
  BY DEF ProcessEvent, Run, data
<1>2. Args \subseteq Nat
  BY MaxArgAssumption DEF Args
<1>3. /\ index' \in Nat /\ event' \in Nat /\ limit' \in Nat
      /\ call' \in {"process_event", "run"}
      /\ pc' = IF process = "INIT" THEN "open" ELSE IF call' = "run" THEN "limit" ELSE "go_to"
      /\ process' \in {"INIT", "READY", "PROCESSING"}
      /\ process' = "INIT" <=> process = "INIT"
      /\ pc' = "go_to" => process' = "PROCESSING"
  <2>1. CASE \E i \in Args \union {index} : ProcessEvent(i)
    <3>. PICK i \in Args \union {index} : ProcessEvent(i)
      BY <2>1
    <3>1. index \in Nat /\ limit \in Nat /\ process \in {"INIT", "READY", "PROCESSING"}
      BY DEF UInv, Numbers, Stages
    <3>. QED
      BY <1>2, <3>1 DEF ProcessEvent
  <2>2. CASE \E start, n \in Args : Run(start, n)
    <3>. PICK start \in Args, n \in Args : Run(start, n)
      BY <2>2
    <3>1. index \in Nat /\ process \in {"INIT", "READY", "PROCESSING"}
      BY DEF UInv, Numbers, Stages
    <3>. QED
      BY <1>2, <3>1 DEF Run, data
  <2>. QED
    BY <2>1, <2>2
<1>4. Numbers' /\ Stages'
  BY <1>1, <1>3 DEF UInv, Numbers, Stages
<1>5. Closed' <=> Closed
  BY <1>1, <1>3 DEF Closed
<1>6. CASE Closed
  <2>1. Shut(st') /\ pc' # "analyze"
    BY <1>1, <1>3, <1>6 DEF UInv
  <2>. QED
    BY <1>1, <1>4, <1>5, <1>6, <2>1, SameJob DEF UInv
<1>7. CASE ~Closed
  <2>1. Opened(st) /\ (st.mode = "BOTH" => Copied(st))
    BY <1>7 DEF UInv
  <2>2. st.mode = "BOTH" => Copied(st)'
    BY <1>1, <1>3, <2>1 DEF Copied
  <2>3. Opened(st)'
    BY <1>1, <2>1, SameJob
  <2>4. pc' # "analyze"
    BY <1>3
  <2>. QED
    BY <1>1, <1>4, <1>5, <1>7, <2>2, <2>3, <2>4 DEF UInv
<1>. QED
  BY <1>6, <1>7

LEMMA UnmixedOpen ==
  ASSUME UInv, OpenStorage
  PROVE  UInv'
<1>1. /\ pc = "open" /\ st' = Open(st, TRUE) /\ analysed' = <<>>
      /\ pc' = IF st'.ret THEN "initialize" ELSE "user"
      /\ UNCHANGED <<process, index, nevents, event, limit, call, job>>
  BY DEF OpenStorage, control, Return
<1>2. process = "INIT" /\ Closed /\ job \in Jobs
  BY <1>1 DEF UInv, Stages, Closed, Numbers
<1>3. Shut(st)
  BY <1>2 DEF UInv
<1>4. \/ st'.ret = FALSE /\ Shut(st')
      \/ /\ st'.ret = TRUE /\ Opened(st') /\ st'.nread = 0 /\ st'.nwritten = 0
         /\ st'.out = NoTrees /\ st'.ptr = AllCleared
  BY <1>1, <1>2, <1>3, OpenOpens
<1>5. IsSequence(analysed') /\ Len(analysed') = 0
  BY <1>1, EmptySequence
<1>6. Numbers'
  BY <1>1, <1>5 DEF UInv, Numbers
<1>7. Stages'
  BY <1>1, <1>2, <1>4 DEF UInv, Stages
<1>8. CASE st'.ret = FALSE /\ Shut(st')
  <2>1. pc' = "user" /\ Closed'
    BY <1>1, <1>2, <1>8 DEF Closed
  <2>. QED
    BY <1>1, <1>6, <1>7, <1>8, <2>1, SameJob DEF UInv
<1>9. CASE st'.ret = TRUE /\ Opened(st') /\ st'.nread = 0 /\ st'.nwritten = 0
           /\ st'.out = NoTrees /\ st'.ptr = AllCleared
  <2>1. pc' = "initialize" /\ ~Closed'
    BY <1>1, <1>9 DEF Closed
  <2>2. \A t \in st'.trees : st'.out[t] = <<>> /\ st'.ptr[t] = Cleared
    BY <1>9 DEF Opened, NoTrees, AllCleared
  <2>3. Follows(<<>>, 0, <<>>)
    BY EmptySequence DEF Follows
  <2>4. Recorded(st', analysed')
    BY <1>1, <1>9, <2>2, <2>3, EmptySequence DEF Recorded
  <2>5. Between(st', analysed')
    BY <1>5, <1>9, <2>2 DEF Between, Emptied
  <2>6. Copied(st)'
    BY <2>1, <2>4, <2>5 DEF Copied
  <2>. QED
    BY <1>1, <1>6, <1>7, <1>9, <2>1, <2>6, SameJob DEF UInv
<1>. QED
  BY <1>4, <1>8, <1>9

LEMMA UnmixedInitialize ==
  ASSUME UInv, \/ \E ok \in BOOLEAN : InitializeAnalyzer(ok)
               \/ Initialized
  PROVE  UInv'
<1>1. /\ pc = "initialize" /\ UNCHANGED <<st, analysed, event, limit, call, job>>
      /\ \/ UNCHANGED <<pc, process, index, nevents>>
         \/ /\ index' = 0 /\ nevents' = 0 /\ process' \in {"READY", "PROCESSING"}
            /\ pc' \in {"user", "limit", "go_to"}
            /\ pc' = "go_to" => call # "process_event" \/ process' = "PROCESSING"
            /\ pc' = "go_to" => call # "run"
  BY DEF InitializeAnalyzer, Initialized, control, Return
<1>2. analysed = <<>> /\ ~Closed /\ call # "leaving"
  BY <1>1 DEF UInv, Stages, Closed
<1>3. Opened(st) /\ (st.mode = "BOTH" => Copied(st))
  BY <1>2 DEF UInv
<1>4. Numbers' /\ Stages' /\ ~Closed'
  BY <1>1, <1>2, EmptySequence DEF UInv, Numbers, Stages, Closed
<1>5. st.mode = "BOTH" => Copied(st)'
  BY <1>1, <1>3 DEF Copied
<1>6. Opened(st)'
  BY <1>1, <1>3, SameJob
<1>7. pc' # "analyze"
  BY <1>1
<1>. QED
  BY <1>1, <1>4, <1>5, <1>6, <1>7 DEF UInv

LEMMA UnmixedGoTo ==
  ASSUME UInv, GoToEvent
  PROVE  UInv'
<1>1. /\ pc = "go_to" /\ st' = GoTo(st, event)
      /\ pc' = IF st'.ret THEN "analyze" ELSE "finalize"
      /\ UNCHANGED <<process, index, nevents, event, limit, call, analysed, job>>
  BY DEF GoToEvent, control, data
<1>2. /\ process # "INIT" /\ ~Closed /\ call # "leaving" /\ IsSequence(analysed)
      /\ Opened(st) /\ (st.mode = "BOTH" => Copied(st))
  BY <1>1 DEF UInv, Stages, Closed, Numbers
<1>3. st.mode = "BOTH" => Recorded(st, analysed) /\ Between(st, analysed)
  BY <1>1, <1>2 DEF Copied
<1>4. /\ Opened(st') /\ st'.ret \in BOOLEAN
      /\ st.mode = "BOTH" => Recorded(st', analysed) /\ st'.nwritten <= Len(analysed)
      /\ st'.ret => At(st', event) /\ (st.mode = "BOTH" => During(st', analysed, event))
  BY <1>1, <1>2, <1>3, GoToRecords
<1>5. Numbers' /\ Stages' /\ ~Closed'
  BY <1>1, <1>2 DEF UInv, Numbers, Stages, Closed
<1>6. st'.mode = st.mode
  BY <1>2, <1>4 DEF Opened
<1>7. st.mode = "BOTH" => Copied(st)'
  BY <1>1, <1>2, <1>4 DEF Copied
<1>8. Opened(st)'
  BY <1>1, <1>4, SameJob
<1>9. pc' = "analyze" => At(st, event)'
  BY <1>1, <1>4 DEF At
<1>. QED
  BY <1>5, <1>6, <1>7, <1>8, <1>9 DEF UInv

LEMMA UnmixedAnalyze ==
  ASSUME UInv, NEW ok \in BOOLEAN, AnalyzeEvent(ok)
  PROVE  UInv'
<1>1. /\ pc = "analyze"
      /\ UNCHANGED <<process, pc, index, nevents, event, limit, call, analysed, job>>
      /\ \/ UNCHANGED st
         \/ \E t \in Asks, fills \in BOOLEAN : AnalyzerAccess(t, fills)
  BY DEF AnalyzeEvent, control
<1>2. /\ process # "INIT" /\ ~Closed /\ event \in Nat /\ At(st, event)
      /\ Opened(st) /\ (st.mode = "BOTH" => Copied(st))
  BY <1>1 DEF UInv, Stages, Closed, Numbers
<1>3. st.mode = "BOTH" => Recorded(st, analysed) /\ During(st, analysed, event)
  BY <1>1, <1>2 DEF Copied
<1>4. /\ Opened(st') /\ At(st', event)
      /\ st.mode = "BOTH" => Recorded(st', analysed) /\ During(st', analysed, event)
  <2>1. CASE UNCHANGED st
    BY <1>2, <1>3, <2>1
  <2>2. CASE \E t \in Asks, fills \in BOOLEAN : AnalyzerAccess(t, fills)
    <3>. PICK t \in Asks, fills \in BOOLEAN : AnalyzerAccess(t, fills)
      BY <2>2
    <3>1. st' = Accessed(st, t, fills, Now(st)) /\ t \in DataTypes
      BY NowIsCurrent, AsksAssumption DEF AnalyzerAccess, Accessed
    <3>. QED
      BY <1>2, <1>3, <3>1, AccessKeeps
  <2>. QED
    BY <1>1, <2>1, <2>2
<1>5. Numbers' /\ Stages' /\ ~Closed'
  BY <1>1, <1>2 DEF UInv, Numbers, Stages, Closed
<1>6. st'.mode = st.mode
  BY <1>2, <1>4 DEF Opened
<1>7. st.mode = "BOTH" => Copied(st)'
  BY <1>1, <1>4 DEF Copied
<1>8. Opened(st)'
  BY <1>1, <1>4, SameJob
<1>9. At(st, event)'
  BY <1>1, <1>4 DEF At
<1>. QED
  BY <1>5, <1>6, <1>7, <1>8, <1>9 DEF UInv

\* What was recorded of the events seen is not changed by one more.
LEMMA FollowsMore ==
  ASSUME NEW q, NEW n, NEW seen, NEW e, IsSequence(seen), n = Len(seen), Follows(q, n, seen)
  PROVE  Follows(q, n, Append(seen, e))
<1>1. /\ Len(seen) \in Nat
      /\ \A k \in 1 .. Len(seen) : Append(seen, e)[k] = seen[k]
  BY Appended
<1>2. Len(q) \in Nat /\ Len(q) <= n
  BY DEF Follows, IsSequence
<1>3. ASSUME NEW k \in 1 .. Len(q)
      PROVE  Matches(q[k], Append(seen, e)[n - Len(q) + k])
  <2>1. n - Len(q) + k \in 1 .. Len(seen)
    BY <1>1, <1>2
  <2>2. Append(seen, e)[n - Len(q) + k] = seen[n - Len(q) + k]
    BY <1>1, <2>1
  <2>. QED
    BY <2>2 DEF Follows
<1>. QED
  BY <1>3 DEF Follows

LEMMA UnmixedDone ==
  ASSUME UInv, EventDone
  PROVE  UInv'
<1>1. /\ pc = "analyze" /\ index' = index + 1 /\ nevents' = nevents + 1
      /\ analysed' = Append(analysed, CurrentEvent)
      /\ pc' = (IF call = "run" THEN "check" ELSE "user") /\ result' = TRUE
      /\ UNCHANGED <<st, process, event, limit, call, job>>
  BY DEF EventDone, Return, control
<1>2. /\ process # "INIT" /\ ~Closed /\ call # "leaving"
      /\ IsSequence(analysed) /\ nevents = Len(analysed)
      /\ Opened(st) /\ (st.mode = "BOTH" => Copied(st))
  BY <1>1 DEF UInv, Stages, Closed, Numbers
<1>3. /\ IsSequence(analysed') /\ Len(analysed) \in Nat /\ Len(analysed') = Len(analysed) + 1
      /\ analysed'[Len(analysed')] = CurrentEvent
  <2>1. Len(analysed) + 1 \in 1 .. Len(analysed) + 1
    BY <1>2, Appended
  <2>. QED
    BY <1>1, <1>2, <2>1, Appended
<1>4. Numbers' /\ Stages' /\ ~Closed'
  BY <1>1, <1>2, <1>3 DEF UInv, Numbers, Stages, Closed
<1>5. ASSUME st.mode = "BOTH" PROVE Copied(st)'
  <2>1. Recorded(st, analysed) /\ During(st, analysed, event)
    BY <1>1, <1>2, <1>5 DEF Copied
  <2>2. ASSUME NEW t \in st.trees PROVE Follows(st.out[t], st.nwritten, analysed')
    <3>1. Follows(st.out[t], st.nwritten, analysed) /\ st.nwritten = Len(analysed)
      BY <2>1 DEF Recorded, During
    <3>. QED
      BY <1>1, <1>2, <3>1, FollowsMore
  <2>3. Recorded(st, analysed')
    BY <2>1, <2>2 DEF Recorded
  <2>4. Between(st, analysed')
    BY <1>3, <2>1, NowIsCurrent DEF During, Between
  <2>. QED
    BY <1>1, <2>3, <2>4 DEF Copied
<1>6. Opened(st)'
  BY <1>1, <1>2, SameJob
<1>. QED
  BY <1>1, <1>4, <1>5, <1>6 DEF UInv

\* The steps of run() and finalize() that leave the storage manager alone.
LEMMA UnmixedControl ==
  ASSUME UInv, \/ SetLimit
               \/ LeaveRun
               \/ \E ok \in BOOLEAN : FinalizeAnalyzer(ok)
               \/ CheckLoop /\ UNCHANGED st /\ pc' \in {"go_to", "leave"}
                  /\ (pc' = "go_to" <=> process = "PROCESSING")
  PROVE  UInv'
<1>1. UNCHANGED <<st, analysed, nevents, job>> /\ pc \notin {"analyze", "initialize"}
  BY DEF SetLimit, LeaveRun, FinalizeAnalyzer, CheckLoop, control, data
<1>2. Numbers /\ Stages /\ (Closed <=> process = "INIT")
  BY <1>1 DEF UInv, Closed
<1>3. CASE SetLimit
  <2>1. /\ pc = "limit" /\ pc' = "go_to" /\ process' = "PROCESSING" /\ index' = event
        /\ limit' = RunLimit(event, limit, st.nevents) /\ UNCHANGED <<call, event>>
    BY <1>3 DEF SetLimit
  <2>2. process # "INIT" /\ ~Closed /\ Opened(st) /\ (st.mode = "BOTH" => Copied(st))
    BY <1>2, <2>1 DEF UInv, Stages
  <2>3. RunLimit(event, limit, st.nevents) \in Nat
    BY <1>2, <2>2 DEF RunLimit, Opened, Numbers
  <2>4. Numbers' /\ Stages' /\ ~Closed' /\ pc' # "analyze"
    BY <1>1, <1>2, <2>1, <2>2, <2>3 DEF Numbers, Stages, Closed
  <2>5. st.mode = "BOTH" => Copied(st)'
    BY <1>1, <2>1, <2>2 DEF Copied
  <2>6. Opened(st)'
    BY <1>1, <2>2, SameJob
  <2>. QED
    BY <1>1, <2>4, <2>5, <2>6 DEF UInv
<1>4. CASE LeaveRun
  <2>1. /\ pc = "leave" /\ UNCHANGED <<process, index, event, limit>>
        /\ IF process \in {"READY", "PROCESSING"}
           THEN pc' = "finalize" /\ call' = "leaving" ELSE pc' = "user" /\ call' = call
    BY <1>4 DEF LeaveRun, Return, data
  <2>2. Numbers' /\ Stages' /\ (Closed' <=> process = "INIT") /\ pc' # "analyze"
    BY <1>1, <1>2, <2>1 DEF Numbers, Stages, Closed
  <2>3. CASE process = "INIT"
    BY <1>1, <1>2, <2>2, <2>3, SameJob DEF UInv
  <2>4. CASE process # "INIT"
    <3>1. Opened(st) /\ (st.mode = "BOTH" => Copied(st)) /\ pc' = "finalize"
      BY <1>2, <2>1, <2>4 DEF UInv, Stages
    <3>2. st.mode = "BOTH" => Copied(st)'
      BY <1>1, <2>1, <3>1 DEF Copied
    <3>3. Opened(st)'
      BY <1>1, <3>1, SameJob
    <3>. QED
      BY <1>1, <2>2, <2>4, <3>2, <3>3 DEF UInv
  <2>. QED
    BY <2>3, <2>4
<1>5. CASE \E ok \in BOOLEAN : FinalizeAnalyzer(ok)
  <2>1. pc = "finalize" /\ UNCHANGED <<pc, process, call, index, event, limit>>
    BY <1>5 DEF FinalizeAnalyzer, control
  <2>2. process # "INIT" /\ Opened(st) /\ (st.mode = "BOTH" => Copied(st))
    BY <1>2, <2>1 DEF UInv, Stages
  <2>3. Numbers' /\ Stages' /\ ~Closed'
    BY <1>1, <1>2, <2>1, <2>2 DEF Numbers, Stages, Closed
  <2>4. st.mode = "BOTH" => Copied(st)'
    BY <1>1, <2>1, <2>2 DEF Copied
  <2>5. Opened(st)'
    BY <1>1, <2>2, SameJob
  <2>. QED
    BY <1>1, <2>1, <2>3, <2>4, <2>5 DEF UInv
<1>6. CASE CheckLoop /\ UNCHANGED st /\ pc' \in {"go_to", "leave"}
           /\ (pc' = "go_to" <=> process = "PROCESSING")
  <2>1. pc = "check" /\ event' = index /\ UNCHANGED <<process, call, index, limit>>
    BY <1>6 DEF CheckLoop, data
  <2>2. Numbers' /\ Stages' /\ (Closed' <=> process = "INIT") /\ pc' # "analyze"
    BY <1>1, <1>2, <1>6, <2>1 DEF Numbers, Stages, Closed
  <2>3. CASE process = "INIT"
    BY <1>1, <1>2, <2>2, <2>3, SameJob DEF UInv
  <2>4. CASE process = "PROCESSING"
    <3>1. Opened(st) /\ (st.mode = "BOTH" => Copied(st)) /\ pc' = "go_to"
      BY <1>2, <1>6, <2>4 DEF UInv
    <3>2. st.mode = "BOTH" => Copied(st)'
      BY <1>1, <2>1, <3>1 DEF Copied
    <3>3. Opened(st)'
      BY <1>1, <3>1, SameJob
    <3>. QED
      BY <1>1, <2>2, <2>4, <3>2, <3>3 DEF UInv
  <2>5. process \in {"INIT", "PROCESSING"}
    BY <1>2, <2>1 DEF Stages
  <2>. QED
    BY <2>3, <2>4, <2>5
<1>. QED
  BY <1>3, <1>4, <1>5, <1>6

\* The last event is written when run() has come to its limit.
LEMMA UnmixedLast ==
  ASSUME UInv, CheckLoop, st' = NextEvent(st), pc' = "leave", process # "INIT"
  PROVE  UInv'
<1>1. /\ pc = "check" /\ event' = index
      /\ UNCHANGED <<process, index, nevents, limit, call, analysed, job>>
  BY DEF CheckLoop, data
<1>2. /\ ~Closed /\ IsSequence(analysed) /\ Opened(st) /\ (st.mode = "BOTH" => Copied(st))
  BY <1>1 DEF UInv, Closed, Numbers
<1>3. st.mode = "BOTH" => Recorded(st, analysed) /\ Between(st, analysed)
  BY <1>1, <1>2 DEF Copied
<1>4. /\ Opened(st') /\ st'.mode = st.mode
      /\ st'.mode = "BOTH" => Recorded(st', analysed) /\ st'.nwritten = Len(analysed)
      /\ st'.status = "OPERATING"
  BY <1>2, <1>3, NextRecords
<1>5. Numbers' /\ Stages' /\ ~Closed'
  BY <1>1, <1>2 DEF UInv, Numbers, Stages, Closed
<1>6. Len(analysed) \in Nat
  BY <1>2 DEF IsSequence
<1>7. st.mode = "BOTH" => Copied(st)'
  BY <1>1, <1>4, <1>6 DEF Copied
<1>8. Opened(st)'
  BY <1>1, <1>4, SameJob
<1>9. pc' # "analyze"
  OBVIOUS
<1>. QED
  BY <1>4, <1>5, <1>7, <1>8, <1>9 DEF UInv

LEMMA UnmixedCheck ==
  ASSUME UInv, CheckLoop
  PROVE  UInv'
<1>1. pc = "check" /\ \/ process = "INIT" /\ nevents = 0
                      \/ process = "PROCESSING" /\ result
  BY DEF UInv, Stages, CheckLoop
<1>2. CASE limit # 0 /\ limit = nevents
  <2>1. st' = NextEvent(st) /\ pc' = "leave" /\ process # "INIT"
    BY <1>1, <1>2 DEF CheckLoop, AfterLastEvent
  <2>. QED
    BY <2>1, UnmixedLast
<1>3. CASE ~(limit # 0 /\ limit = nevents)
  <2>1. UNCHANGED st /\ pc' \in {"go_to", "leave"} /\ (pc' = "go_to" <=> process = "PROCESSING")
    BY <1>1, <1>3 DEF CheckLoop
  <2>. QED
    BY <2>1, UnmixedControl
<1>. QED
  BY <1>2, <1>3

LEMMA UnmixedFinalized ==
  ASSUME UInv, Finalized
  PROVE  UInv'
<1>1. /\ pc = "finalize" /\ process' = "INIT" /\ st' = ResetStorage(st)
      /\ index' = 0 /\ nevents' = 0 /\ pc' = IF call = "run" THEN "check" ELSE "user"
      /\ UNCHANGED <<call, event, limit, analysed, job>>
  BY DEF Finalized, control
<1>2. ~Closed /\ Opened(st)
  BY <1>1 DEF UInv, Stages, Closed
<1>3. Shut(st')
  BY <1>1, <1>2, ResetShut
<1>4. Numbers' /\ Stages' /\ Closed' /\ pc' # "analyze"
  BY <1>1 DEF UInv, Numbers, Stages, Closed
<1>. QED
  BY <1>1, <1>3, <1>4, SameJob DEF UInv

LEMMA UnmixedStepped == UInv /\ [Next]_vars => UInv'
<1>. SUFFICES ASSUME UInv, [Next]_vars PROVE UInv'
  OBVIOUS
<1>1. CASE AnyCall \/ RunCall \/ LoopCall
  BY <1>1, UnmixedCall DEF AnyCall, RunCall, LoopCall
<1>2. CASE OpenStorage
  BY <1>2, UnmixedOpen
<1>3. CASE Initialized \/ \E ok \in BOOLEAN : InitializeAnalyzer(ok)
  BY <1>3, UnmixedInitialize
<1>4. CASE GoToEvent
  BY <1>4, UnmixedGoTo
<1>5. CASE \E ok \in BOOLEAN : AnalyzeEvent(ok)
  BY <1>5, UnmixedAnalyze
<1>6. CASE EventDone
  BY <1>6, UnmixedDone
<1>7. CASE CheckLoop
  BY <1>7, UnmixedCheck
<1>8. CASE SetLimit \/ LeaveRun \/ \E ok \in BOOLEAN : FinalizeAnalyzer(ok)
  BY <1>8, UnmixedControl
<1>9. CASE Finalized
  BY <1>9, UnmixedFinalized
<1>10. CASE UNCHANGED vars
  <2>1. UNCHANGED <<st, process, index, nevents, pc, call, event, limit, result, analysed, job>>
    BY <1>10 DEF vars
  <2>2. Numbers' /\ Stages' /\ (Closed' <=> Closed)
    BY <2>1 DEF UInv, Numbers, Stages, Closed
  <2>3. pc' = "analyze" => At(st, event)'
    BY <2>1 DEF UInv, At
  <2>4. CASE Closed
    BY <2>1, <2>2, <2>3, <2>4, SameJob DEF UInv
  <2>5. CASE ~Closed
    <3>1. Opened(st) /\ (st.mode = "BOTH" => Copied(st))
      BY <2>5 DEF UInv
    <3>2. st'.mode = "BOTH" => Copied(st)'
      BY <2>1, <3>1 DEF Copied
    <3>3. Opened(st)'
      BY <2>1, <3>1, SameJob
    <3>. QED
      BY <2>2, <2>3, <2>5, <3>2, <3>3 DEF UInv
  <2>. QED
    BY <2>4, <2>5
<1>. QED
  BY <1>1, <1>2, <1>3, <1>4, <1>5, <1>6, <1>7, <1>8, <1>9, <1>10 DEF Next, Processor

\* The analyzers see the event that was asked for, and each output tree has the
\* events they have been through, in their order and no other, whatever calls
\* of process_event() and run() are made on whatever input.
THEOREM EventsUnmixedAlways == Spec => []EventsUnmixed
<1>. QED
  BY UnmixedInit, UnmixedStepped, UnmixedEnough, PTL DEF Spec

\* When run() has come to its last event and finalizes, the output file has, for
\* each product of the input, all events that were analysed: the next_event()
\* behind the loop has written the one that waited.
THEOREM RunAlwaysSavesAll == Spec => RunSavesAll
<1>1. UInv /\ [Next]_vars => [job.style = "run" /\ Ends("leaving") => Complete]_vars
  <2>. SUFFICES ASSUME UInv, Next, Ends("leaving"), st.mode = "BOTH", NEW t \in Chained(st)
                PROVE  Len(st'.disk[t]) = Len(analysed)
    BY DEF Complete
  <2>1. pc = "finalize" /\ pc' # pc /\ call = "leaving"
    BY DEF Ends
  <2>2. Finalized
    <3>1. ~(AnyCall \/ RunCall \/ LoopCall)
      BY <2>1 DEF AnyCall, RunCall, LoopCall, ProcessEvent, Run
    <3>2. ~(OpenStorage \/ Initialized \/ GoToEvent \/ EventDone \/ SetLimit \/ CheckLoop
            \/ LeaveRun)
      BY <2>1 DEF OpenStorage, Initialized, GoToEvent, EventDone, SetLimit, CheckLoop, LeaveRun
    <3>3. ASSUME NEW ok \in BOOLEAN
          PROVE  ~(InitializeAnalyzer(ok) \/ AnalyzeEvent(ok) \/ FinalizeAnalyzer(ok))
      BY <2>1 DEF InitializeAnalyzer, AnalyzeEvent, FinalizeAnalyzer
    <3>. QED
      BY <3>1, <3>2, <3>3 DEF Next, Processor
  <2>3. Opened(st) /\ Copied(st)
    BY <2>1 DEF UInv, Closed, Stages
  <2>4. t \in st.trees /\ t \in DataTypes /\ Len(st.out[t]) = Len(analysed)
        /\ st.status = "OPERATING"
    BY <2>1, <2>3 DEF Opened, Copied, Recorded, Chained
  <2>5. st'.disk = WrittenOut(st)
    BY <2>2, <2>3, ResetShut DEF Finalized
  <2>. QED
    BY <2>4, <2>5 DEF WrittenOut
<1>. QED
  BY <1>1, UnmixedInit, UnmixedStepped, PTL DEF Spec, RunSavesAll

-------------------------------------------------------------------------------
(***************************************************************************)
(* run(), in a program that calls nothing else, over trees that agree.     *)
(***************************************************************************)

\* From the event of index e on run() has limit - nevents to go, all of which
\* are inside of the input.
Inside(e) ==
  /\ nevents <= limit
  /\ e + (limit - nevents) <= st.nevents

\* The first go_to() is refused if it is to start behind the input.  No other
\* one is, and so _process is INIT again only if nothing was analysed.
RunSteps ==
  /\ pc = "user" => process # "PROCESSING"
  /\ pc # "user" => call # "process_event"
  /\ pc \in {"user", "limit"} /\ process = "READY" => analysed = <<>>
  /\ pc \in {"limit", "finalize"} /\ call = "run" => analysed = <<>>
  /\ pc \in {"go_to", "analyze"} => index = event
  /\ pc = "go_to" => \/ Inside(event) /\ limit # nevents
                     \/ analysed = <<>> /\ event >= st.nevents
  /\ pc = "analyze" => Inside(event) /\ limit # nevents
  /\ pc = "check" => \/ process = "INIT" /\ analysed = <<>>
                     \/ process # "INIT" /\ nevents # 0 /\ Inside(index)
  /\ pc = "leave" => \/ process = "INIT" /\ analysed = <<>>
                     \/ process = "PROCESSING" /\ limit = Len(analysed)

AlignedRun == job.style = "run" /\ Aligned

RInv == UInv /\ (AlignedRun => RunSteps)

LEMMA AlignedKept == job' = job => (AlignedRun' <=> AlignedRun)
BY DEF AlignedRun, Aligned

LEMMA RunInit == Init => RInv
<1>. SUFFICES ASSUME Init PROVE RunSteps
  BY UnmixedInit DEF RInv
<1>. QED
  BY DEF Init, RunSteps

LEMMA RunCalled ==
  ASSUME RInv, AlignedRun, AnyCall \/ RunCall \/ LoopCall
  PROVE  RunSteps'
<1>1. PICK start \in Args, n \in Args : Run(start, n)
  BY DEF AnyCall, RunCall, LoopCall, AlignedRun
<1>2. /\ pc = "user" /\ pc' = (IF process = "INIT" THEN "open" ELSE "limit") /\ call' = "run"
      /\ UNCHANGED <<process, analysed>>
  BY <1>1 DEF Run, data
<1>3. RunSteps /\ process \in {"INIT", "READY", "PROCESSING"}
  BY DEF RInv, UInv, Stages
<1>. QED
  BY <1>2, <1>3 DEF RunSteps

LEMMA RunInitialized ==
  ASSUME RInv, AlignedRun, \/ OpenStorage
                           \/ \E ok \in BOOLEAN : InitializeAnalyzer(ok)
                           \/ Initialized
  PROVE  RunSteps'
<1>1. /\ RunSteps /\ Stages /\ (pc = "open" => process = "INIT")
  BY DEF RInv, UInv, Stages
<1>2. CASE OpenStorage
  <2>1. pc = "open" /\ pc' \in {"initialize", "user"} /\ analysed' = <<>>
        /\ UNCHANGED <<process, call>>
    BY <1>2 DEF OpenStorage, Return, control
  <2>. QED
    BY <1>1, <2>1 DEF RunSteps
<1>3. CASE \E ok \in BOOLEAN : InitializeAnalyzer(ok)
  <2>1. pc = "initialize" /\ UNCHANGED <<pc, process, call, analysed>>
    BY <1>3 DEF InitializeAnalyzer, control
  <2>. QED
    BY <1>1, <2>1 DEF RunSteps
<1>4. CASE Initialized
  <2>1. pc = "initialize" /\ call = "run" /\ analysed = <<>>
    BY <1>1, <1>4 DEF Initialized, RunSteps, Stages
  <2>2. pc' \in {"limit", "user"} /\ process' = "READY" /\ UNCHANGED <<call, analysed>>
    BY <1>4, <2>1 DEF Initialized, Return, control
  <2>. QED
    BY <2>1, <2>2 DEF RunSteps
<1>. QED
  BY <1>2, <1>3, <1>4

LEMMA RunLimited ==
  ASSUME RInv, AlignedRun, SetLimit
  PROVE  RunSteps'
<1>1. /\ pc = "limit" /\ pc' = "go_to" /\ process' = "PROCESSING" /\ index' = event
      /\ limit' = RunLimit(event, limit, st.nevents)
      /\ UNCHANGED <<call, event, st, nevents, analysed>>
  BY DEF SetLimit
<1>2. /\ RunSteps /\ process # "INIT" /\ Opened(st) /\ nevents = Len(analysed)
      /\ call # "leaving" /\ call \in {"process_event", "run", "leaving"}
      /\ event \in Nat /\ limit \in Nat
  BY <1>1 DEF RInv, UInv, Closed, Stages, Numbers
<1>3. call = "run" /\ analysed = <<>> /\ nevents = 0 /\ st.nevents \in Nat
  BY <1>1, <1>2, EmptySequence DEF RunSteps, Opened
<1>4. event < st.nevents => limit' # 0 /\ event + limit' <= st.nevents /\ limit' \in Nat
  BY <1>1, <1>2, <1>3 DEF RunLimit
<1>5. event < st.nevents => Inside(event)' /\ limit' # nevents'
  BY <1>1, <1>2, <1>3, <1>4 DEF Inside
<1>6. event < st.nevents \/ event >= st.nevents
  BY <1>2, <1>3
<1>. QED
  BY <1>1, <1>3, <1>5, <1>6 DEF RunSteps

LEMMA RunWent ==
  ASSUME RInv, AlignedRun, GoToEvent
  PROVE  RunSteps'
<1>1. /\ pc = "go_to" /\ st' = GoTo(st, event)
      /\ pc' = IF st'.ret THEN "analyze" ELSE "finalize"
      /\ UNCHANGED <<process, index, nevents, event, limit, call, analysed>>
  BY DEF GoToEvent, control, data
<1>2. /\ RunSteps /\ Opened(st) /\ (st.mode = "BOTH" => Copied(st)) /\ IsSequence(analysed)
      /\ event \in Nat /\ nevents \in Nat /\ limit \in Nat
  BY <1>1 DEF RInv, UInv, Closed, Stages, Numbers
<1>3. st.mode = "BOTH" => Recorded(st, analysed) /\ Between(st, analysed)
  BY <1>1, <1>2 DEF Copied
<1>4. /\ st'.ret \in BOOLEAN /\ st'.nevents = st.nevents
      /\ st'.ret => st.mode # "WRITE" /\ ~(event >= st.nevents)
      /\ Aligned /\ st.mode # "WRITE" /\ ~(event >= st.nevents) => st'.ret
  BY <1>1, <1>2, <1>3, GoToRecords
<1>5. st.nevents \in Nat /\ (st.mode = "WRITE" => st.nevents = 0)
  BY <1>2 DEF Opened
<1>6. CASE Inside(event) /\ limit # nevents
  <2>1. event < st.nevents
    BY <1>2, <1>5, <1>6 DEF Inside
  <2>2. st'.ret
    BY <1>2, <1>4, <1>5, <2>1 DEF AlignedRun
  <2>3. Inside(event)'
    BY <1>1, <1>4, <1>6 DEF Inside
  <2>. QED
    BY <1>1, <1>2, <1>6, <2>2, <2>3 DEF RunSteps
<1>7. CASE analysed = <<>> /\ event >= st.nevents
  <2>1. ~st'.ret
    BY <1>4, <1>7
  <2>. QED
    BY <1>1, <1>2, <1>7, <2>1 DEF RunSteps
<1>. QED
  BY <1>1, <1>2, <1>6, <1>7 DEF RunSteps

LEMMA RunAnalyzed ==
  ASSUME RInv, AlignedRun, \/ \E ok \in BOOLEAN : AnalyzeEvent(ok)
                           \/ EventDone
  PROVE  RunSteps'
<1>1. pc = "analyze" /\ UNCHANGED <<process, event, limit, call>>
  BY DEF AnalyzeEvent, EventDone, control
<1>2. /\ RunSteps /\ process = "PROCESSING" /\ Opened(st)
      /\ event \in Nat /\ nevents \in Nat /\ limit \in Nat
      /\ call = "run" /\ index = event /\ Inside(event) /\ limit # nevents
      /\ (st.mode = "BOTH" => Copied(st)) /\ At(st, event)
  BY <1>1 DEF RInv, UInv, Closed, Stages, Numbers, RunSteps
<1>3. CASE \E ok \in BOOLEAN : AnalyzeEvent(ok)
  <2>1. /\ UNCHANGED <<pc, index, nevents>>
        /\ \/ UNCHANGED st
           \/ \E t \in Asks, fills \in BOOLEAN : AnalyzerAccess(t, fills)
    BY <1>3 DEF AnalyzeEvent
  <2>2. st'.nevents = st.nevents
    <3>1. CASE UNCHANGED st
      BY <3>1
    <3>2. CASE \E t \in Asks, fills \in BOOLEAN : AnalyzerAccess(t, fills)
      <4>. PICK t \in Asks, fills \in BOOLEAN : AnalyzerAccess(t, fills)
        BY <3>2
      <4>1. st' = Accessed(st, t, fills, Now(st)) /\ t \in DataTypes
        BY NowIsCurrent, AsksAssumption DEF AnalyzerAccess, Accessed
      <4>2. st.mode = "BOTH" => Recorded(st, analysed) /\ During(st, analysed, event)
        BY <1>1, <1>2 DEF Copied
      <4>. QED
        BY <1>2, <4>1, <4>2, AccessKeeps
    <3>. QED
      BY <2>1, <3>1, <3>2
  <2>3. Inside(event)'
    BY <1>1, <1>2, <2>1, <2>2 DEF Inside
  <2>. QED
    BY <1>1, <1>2, <2>1, <2>3 DEF RunSteps
<1>4. CASE EventDone
  <2>1. /\ pc' = "check" /\ index' = index + 1 /\ nevents' = nevents + 1 /\ st' = st
    BY <1>2, <1>4 DEF EventDone
  <2>2. nevents <= limit /\ event + (limit - nevents) <= st.nevents /\ st.nevents \in Nat
    BY <1>2 DEF Inside, Opened
  <2>3. /\ nevents + 1 <= limit /\ nevents + 1 # 0
        /\ (event + 1) + (limit - (nevents + 1)) <= st.nevents
    BY <1>2, <2>2
  <2>4. Inside(index)' /\ nevents' # 0
    BY <1>1, <1>2, <2>1, <2>3 DEF Inside
  <2>. QED
    BY <1>1, <1>2, <2>1, <2>4 DEF RunSteps
<1>. QED
  BY <1>3, <1>4

LEMMA RunChecked ==
  ASSUME RInv, AlignedRun, CheckLoop
  PROVE  RunSteps'
<1>1. /\ pc = "check" /\ event' = index
      /\ UNCHANGED <<process, index, nevents, limit, call, analysed>>
  BY DEF CheckLoop, data
<1>2. /\ RunSteps /\ nevents \in Nat /\ limit \in Nat
      /\ process # "INIT" => nevents = Len(analysed)
      /\ \/ process = "INIT" /\ nevents = 0
         \/ process = "PROCESSING" /\ result
  BY <1>1 DEF RInv, UInv, Stages, Numbers
<1>3. CASE process = "INIT"
  <2>1. ~(limit # 0 /\ limit = nevents) /\ pc' = "leave"
    BY <1>2, <1>3 DEF CheckLoop
  <2>. QED
    BY <1>1, <1>2, <1>3, <2>1 DEF RunSteps
<1>4. CASE process # "INIT"
  <2>1. process = "PROCESSING" /\ result /\ nevents # 0 /\ Inside(index)
    BY <1>1, <1>2, <1>4 DEF RunSteps
  <2>2. CASE limit = nevents
    <3>1. pc' = "leave" /\ limit = Len(analysed)
      BY <1>2, <2>1, <2>2 DEF CheckLoop
    <3>. QED
      BY <1>1, <1>2, <2>1, <3>1 DEF RunSteps
  <2>3. CASE limit # nevents
    <3>1. pc' = "go_to" /\ UNCHANGED st
      BY <2>1, <2>3 DEF CheckLoop
    <3>2. Inside(event)'
      BY <1>1, <2>1, <3>1 DEF Inside
    <3>. QED
      BY <1>1, <1>2, <2>3, <3>1, <3>2 DEF RunSteps
  <2>. QED
    BY <2>2, <2>3
<1>. QED
  BY <1>3, <1>4

LEMMA RunLeft ==
  ASSUME RInv, AlignedRun, \/ LeaveRun
                           \/ \E ok \in BOOLEAN : FinalizeAnalyzer(ok)
                           \/ Finalized
  PROVE  RunSteps'
<1>1. RunSteps /\ Stages
  BY DEF RInv, UInv
<1>2. CASE LeaveRun
  <2>1. /\ pc = "leave" /\ UNCHANGED <<process, analysed>>
        /\ IF process \in {"READY", "PROCESSING"}
           THEN pc' = "finalize" /\ call' = "leaving" ELSE pc' = "user"
    BY <1>2 DEF LeaveRun, Return, data
  <2>. QED
    BY <1>1, <2>1 DEF RunSteps, Stages
<1>3. CASE \E ok \in BOOLEAN : FinalizeAnalyzer(ok)
  <2>1. pc = "finalize" /\ UNCHANGED <<pc, process, call, analysed>>
    BY <1>3 DEF FinalizeAnalyzer, control
  <2>. QED
    BY <1>1, <2>1 DEF RunSteps
<1>4. CASE Finalized
  <2>1. /\ pc = "finalize" /\ process' = "INIT" /\ pc' = (IF call = "run" THEN "check" ELSE "user")
        /\ UNCHANGED <<call, analysed>>
    BY <1>4 DEF Finalized, control
  <2>. QED
    BY <1>1, <2>1 DEF RunSteps
<1>. QED
  BY <1>2, <1>3, <1>4

\* A run() that analysed anything stops at the last event it was asked for, so
\* that it finalizes once, in a program that only calls run() on an aligned input.
THEOREM RunFinalizesOnceAlways == Spec => []RunFinalizesOnce
<1>1. RInv /\ [Next]_vars => RInv'
  <2>. SUFFICES ASSUME RInv, [Next]_vars, AlignedRun' PROVE RunSteps'
    BY UnmixedStepped DEF RInv
  <2>1. CASE UNCHANGED vars
    <3>1. UNCHANGED <<st, process, index, nevents, pc, call, event, limit, analysed, job>>
      BY <2>1 DEF vars
    <3>2. AlignedRun
      BY <3>1, AlignedKept
    <3>3. RunSteps
      BY <3>2 DEF RInv
    <3>. QED
      BY <3>1, <3>3 DEF RunSteps, Inside
  <2>2. CASE Next
    <3>1. job' = job
      <4>1. ASSUME AnyCall \/ RunCall \/ LoopCall PROVE job' = job
        BY <4>1 DEF AnyCall, RunCall, LoopCall, ProcessEvent, Run
      <4>2. ASSUME Processor PROVE job' = job
        BY <4>2 DEF Processor, OpenStorage, Initialized, GoToEvent, EventDone, SetLimit,
             CheckLoop, LeaveRun, Finalized, InitializeAnalyzer, AnalyzeEvent,
             FinalizeAnalyzer, control
      <4>. QED
        BY <2>2, <4>1, <4>2 DEF Next
    <3>2. AlignedRun
      BY <3>1, AlignedKept
    <3>. QED
      BY <2>2, <3>2, RunCalled, RunInitialized, RunLimited, RunWent, RunAnalyzed, RunChecked,
         RunLeft DEF Next, Processor
  <2>. QED
    BY <2>1, <2>2
<1>2. RInv => RunFinalizesOnce
  BY DEF RInv, AlignedRun, RunSteps, RunFinalizesOnce
<1>. QED
  BY <1>1, <1>2, RunInit, PTL DEF Spec
=============================================================================
