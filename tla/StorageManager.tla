---------------------------- MODULE StorageManager ----------------------------
(***************************************************************************)
(* larlight::storage_manager (core/DataFormat/storage_manager.cc): one     *)
(* tree per data product type in the input files, one per product in the   *)
(* output file, and one buffer per product that both sides share.          *)
(*                                                                         *)
(* Its members are the record st, and each of its functions an operator    *)
(* from the record before the call to the record after it, so that a       *)
(* caller that makes several calls in one go can compose them.  The field  *)
(* ret holds what the last call returned.  The content of a product is the *)
(* number of the event it belongs to, 0 once clear_data() has emptied it.  *)
(***************************************************************************)
EXTENDS Integers, SequencesExt

CONSTANTS
  DataTypes,  \* the product types in use, as numbers of the enum DATA_TYPE
  Content,    \* the input files that exist: file -> type -> events
  EventId,    \* event -> event_id(): files of two runs may repeat an id
  OutFile     \* the name of the output file, which can be read back

ASSUME DataTypesAssumption == DataTypes \subseteq Nat /\ IsFiniteSet(DataTypes)
ASSUME OutFileAssumption == OutFile \notin DOMAIN Content

EVENT == 0      \* DATA::Event, the first member of the enum
Cleared == 0    \* the content of a product after clear_data()
NoId == -1      \* _current_event_id when it is INVALID_INT

\* Programs count their events from 0 and do not come to INVALID_INT, the largest
\* Int_t; the number of an emptied product is another, INVALID_UINT.
ASSUME EventIdAssumption ==
  Cleared \in DOMAIN EventId /\ \A e \in DOMAIN EventId : EventId[e] # NoId
ASSUME ContentAssumption ==
  \A f \in DOMAIN Content : Content[f] \in [DataTypes -> Seq(DOMAIN EventId \ {Cleared})]

Modes == {"READ", "WRITE", "BOTH", "UNDEFINED"}
OpenStatus == {"OPENED", "READY_IO", "OPERATING"}

NoTrees == [t \in DataTypes |-> <<>>]
AllCleared == [t \in DataTypes |-> Cleared]

InitStorage ==
  [status |-> "INIT", mode |-> "UNDEFINED", inFiles |-> <<>>, outName |-> FALSE,
   check |-> TRUE, reads |-> DataTypes, writes |-> {},
   nevents |-> 0, index |-> 0, nread |-> 0, nwritten |-> 0, curId |-> NoId,
   chain |-> NoTrees,    \* _in_ch: entries of the chain, none if it is deleted
   trees |-> {},         \* types with an output tree, _out_ch
   out |-> NoTrees,      \* the entries of those trees
   held |-> {},          \* types with a product in memory, _ptr_data_array
   ptr |-> AllCleared,   \* the content of those products
   fout |-> FALSE,       \* _fout is an open file
   disk |-> NoTrees,     \* the output file itself, which outlives the object
   ret |-> TRUE]

IsOpen(s) == s.status \in OpenStatus
Chained(s) == {t \in DataTypes : s.chain[t] # <<>>}

-------------------------------------------------------------------------------
(* close() and reset() *)

\* Faulty: the output is left as open() truncated it.
WrittenOutNothing(s) == s.disk

\* What the trees that close() writes leave in the output file.
WrittenOut(s) ==
  IF s.status = "OPERATING" /\ s.mode # "READ"
  THEN [t \in DataTypes |-> IF t \in s.trees THEN s.out[t] ELSE s.disk[t]]
  ELSE s.disk

Close(s) ==
  IF ~IsOpen(s) THEN [s EXCEPT !.status = "CLOSED", !.ret = FALSE]
  ELSE [s EXCEPT !.status = "CLOSED", !.ret = TRUE, !.disk = WrittenOut(s),
                 !.fout = FALSE, !.chain = NoTrees, !.trees = {},
                 !.out = NoTrees, !.held = {}, !.ptr = AllCleared]

\* Faulty: the mode and the input files are kept for the next open().
ResetStorageKept(s) ==
  LET closed == IF IsOpen(s) THEN Close(s) ELSE s
  IN [InitStorage EXCEPT !.outName = s.outName, !.check = s.check, !.mode = s.mode,
        !.inFiles = s.inFiles, !.fout = closed.fout, !.disk = closed.disk]

\* Everything but the output's name, the alignment switch, a file that a failed
\* open() left behind, and the file on disk.
ResetStorage(s) ==
  LET closed == IF IsOpen(s) THEN Close(s) ELSE s
  IN [InitStorage EXCEPT !.outName = s.outName, !.check = s.check,
                         !.fout = closed.fout, !.disk = closed.disk]

-------------------------------------------------------------------------------
(* open() and prepare_tree() *)

Readable(s, f) == f \in DOMAIN Content \/ f = OutFile

TreeOf(s, f, t) == IF f = OutFile THEN s.disk[t] ELSE Content[f][t]

\* A TChain: the trees of all input files one after another.
ChainOf(s, t) ==
  FlattenSeq([k \in DOMAIN s.inFiles |-> TreeOf(s, s.inFiles[k], t)])

\* Faulty: the length of the first tree found.
EventsToReadFirst(s, lengths) ==
  IF s.nevents # 0 \/ lengths = {} THEN s.nevents ELSE Max(lengths)

\* The loop covers the shortest tree.  A number left from an earlier open()
\* counts as one more tree.
EventsToRead(s, lengths) ==
  LET all == IF s.nevents = 0 THEN lengths ELSE lengths \union {s.nevents}
  IN IF all = {} THEN 0 ELSE Min(all)

PrepareTree(s) ==
  LET reading == IF s.mode = "WRITE" THEN {} ELSE s.reads
      chain == [t \in DataTypes |-> IF t \in reading THEN ChainOf(s, t) ELSE s.chain[t]]
      found == {t \in reading : chain[t] # <<>>}
      writes == IF s.mode = "BOTH" THEN (s.writes \ reading) \union found ELSE s.writes
      made == IF s.mode = "READ" THEN {} ELSE writes
      prepared ==
        [s EXCEPT !.chain = chain, !.writes = writes,
                  !.held = @ \union found \union made,
                  !.trees = @ \union made,
                  !.nevents = EventsToRead(s, {Len(chain[t]) : t \in found}),
                  !.index = 0, !.nread = 0, !.nwritten = 0]
  IN IF s.mode # "WRITE" /\ prepared.nevents = 0
     THEN [Close(prepared) EXCEPT !.ret = FALSE]
     ELSE [prepared EXCEPT !.status = "READY_IO", !.ret = TRUE]

\* creatable: whether TFile::Open can create the output.  An output is
\* truncated even when an input is missing and open() fails.
Open(s, creatable) ==
  LET input == s.mode \in {"READ", "BOTH"}
      output == s.mode \in {"WRITE", "BOTH"}
      opened == IF ~output THEN s
                ELSE IF creatable THEN [s EXCEPT !.fout = TRUE, !.disk = NoTrees]
                ELSE [s EXCEPT !.fout = FALSE]
  IN IF \/ input /\ s.inFiles = <<>>
        \/ output /\ ~s.outName
     THEN [s EXCEPT !.ret = FALSE]
     ELSE IF \/ s.mode = "UNDEFINED"
             \/ input /\ \E k \in DOMAIN s.inFiles : ~Readable(s, s.inFiles[k])
             \/ output /\ ~creatable
     THEN [opened EXCEPT !.ret = FALSE]
     ELSE PrepareTree([opened EXCEPT !.status = "OPENED"])

-------------------------------------------------------------------------------
(* next_event(), go_to() and get_data() *)

Entry(s, t) == s.chain[t][s.index + 1]

\* The buffers after GetEntry on the types ts.
Loaded(s, ts) == [t \in DataTypes |-> IF t \in ts THEN Entry(s, t) ELSE s.ptr[t]]

\* Faulty: no comparison of the trees in BOTH mode.
MisalignedNever(s) == {}

\* The types whose entry is of another event than that of the first one.
Misaligned(s) ==
  LET compared == IF s.check THEN Chained(s) \intersect s.reads ELSE {}
  IN {t \in compared : EventId[Entry(s, t)] # EventId[Entry(s, Min(compared))]}

\* In BOTH mode the products are loaded in the order of their types up to the
\* first that does not match; in READ mode only Event is loaded here.
ReadEvent(s) ==
  LET bad == Misaligned(s)
      read == IF s.mode = "READ" THEN Chained(s) \intersect {EVENT}
              ELSE {t \in Chained(s) : \A b \in bad : t <= b}
      named == IF s.mode = "READ" THEN read
               ELSE IF s.check THEN Chained(s) \intersect s.reads ELSE {}
      loaded == [s EXCEPT !.ptr = Loaded(s, read),
                          !.curId = IF named = {} THEN NoId
                                    ELSE EventId[Entry(s, Min(named))]]
  IN IF s.index >= s.nevents THEN [s EXCEPT !.ret = FALSE]
     ELSE IF s.mode = "BOTH" /\ bad # {} THEN [loaded EXCEPT !.ret = FALSE]
     ELSE [loaded EXCEPT !.index = @ + 1, !.nread = @ + 1, !.ret = TRUE]

\* TTree::Fill followed by clear_data() on every product with an output tree.
AfterFill(s) == [t \in DataTypes |-> IF t \in s.trees THEN Cleared ELSE s.ptr[t]]

WriteEvent(s) ==
  [s EXCEPT !.out = [t \in DataTypes |->
                       IF t \in s.trees THEN Append(@[t], s.ptr[t]) ELSE @[t]],
            !.ptr = AfterFill(s),
            !.index = IF s.mode = "WRITE" THEN @ + 1 ELSE @,
            !.nwritten = @ + 1, !.ret = TRUE]

\* Faulty: BOTH mode writes before anything was read.
NextEventEager(s) ==
  IF s.status \notin {"READY_IO", "OPERATING"} THEN [s EXCEPT !.ret = FALSE]
  ELSE LET op == [s EXCEPT !.status = "OPERATING"]
       IN CASE s.mode = "READ" -> ReadEvent(op)
            [] s.mode = "WRITE" -> WriteEvent(op)
            [] s.mode = "BOTH" -> ReadEvent(WriteEvent(op))
            [] OTHER -> [op EXCEPT !.ret = TRUE]

\* In BOTH mode an event is written when the next one is asked for.
NextEvent(s) ==
  IF s.status \notin {"READY_IO", "OPERATING"} THEN [s EXCEPT !.ret = FALSE]
  ELSE LET op == [s EXCEPT !.status = "OPERATING"]
       IN CASE s.mode = "READ" -> ReadEvent(op)
            [] s.mode = "WRITE" -> WriteEvent(op)
            [] s.mode = "BOTH" -> ReadEvent(IF s.nread > 0 THEN WriteEvent(op) ELSE op)
            [] OTHER -> [op EXCEPT !.ret = TRUE]

\* A position outside of the input is refused before anything is written.
GoTo(s, i) ==
  IF s.mode = "WRITE" \/ i >= s.nevents
  THEN [s EXCEPT !.ret = FALSE]
  ELSE NextEvent([s EXCEPT !.index = i])

\* The new product and output tree that get_data() makes when asked for a
\* product that the input does not have.
CreateProduct(s, t) ==
  IF t \in s.held \/ s.mode = "READ" THEN s
  ELSE [s EXCEPT !.held = @ \union {t}, !.trees = @ \union {t},
                 !.writes = @ \union {t}, !.ptr[t] = Cleared, !.out[t] = <<>>]

\* Faulty: the alignment check forgets the id it compares with.
FetchUncheckedId(s, t) == [s EXCEPT !.ptr[t] = s.chain[t][s.index],
                                    !.ret = TRUE]

\* The product of type t is read from its own tree only when it is asked for.
Fetch(s, t) ==
  LET e == s.chain[t][s.index]
      got == [s EXCEPT !.ptr[t] = e, !.ret = TRUE]
  IN IF ~s.check THEN got
     ELSE IF s.curId = NoId THEN [got EXCEPT !.curId = EventId[e]]
     ELSE [got EXCEPT !.ret = (EventId[e] = s.curId)]

\* ret says whether the pointer that is returned is not null.
GetData(s, t) ==
  IF s.index = 0 /\ s.mode # "WRITE" THEN [s EXCEPT !.ret = FALSE]
  ELSE IF s.mode = "READ" /\ s.chain[t] # <<>> THEN Fetch(s, t)
  ELSE LET c == CreateProduct(s, t) IN [c EXCEPT !.ret = (t \in c.held)]
=============================================================================
