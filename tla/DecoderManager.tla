---------------------------- MODULE DecoderManager ----------------------------
(***************************************************************************)
(* larlight::decoder_manager (NevisDecoder/Decoder/decoder_manager.cc):    *)
(* run() reads binary files through a bin_io_handler (FileIO), word by     *)
(* word or by blocks, and gives each word to one of the six decoders.      *)
(*                                                                         *)
(* Files may have lost words before they come here.  A step of run() is an *)
(* iteration of decode()'s loop, or its change to the next file.           *)
(***************************************************************************)
EXTENDS AlgoFemDecoderBase, BinIoHandler

\* A job is [algo, files, gone, mode, size, debug, limit, sent, ends, hit, intact]:
\* the decoder, the files, those of them that cannot be opened, how they are read,
\* and the calling program's settings.  Of what was sent, for the properties only:
\* the modules of each event, the position of the last word that it needs, the
\* events that the lost words can harm, and whether nothing was lost at all.
CONSTANT Jobs

WordOf(algo) ==
  CASE algo = "TRIG" -> TriggerWord
    [] algo = "SLOW" -> PairWord    \* which knows no event words
    [] OTHER -> ReadoutWord

ASSUME JobsAssumption ==
  \A j \in Jobs :
    /\ j.algo \in {"TPC", "PMT", "TRIG", "SLOW", "HUFF", "SN"}
    /\ j.files \in Seq(Seq(WordOf(j.algo))) /\ j.files # <<>>
    /\ j.mode \in {"word", "block", "sized"} /\ j.size \in Nat \ {0}
    /\ j.debug \in BOOLEAN /\ j.limit \in Nat

VARIABLES
  task,
  io,       \* _fin
  nfile,    \* _bin_file_iter: number of the file
  dec,      \* _decoder with the product and the output file it fills
  good,     \* status, the local variable of decode()
  stage,    \* what run() does next: "run", "loop", "word", "end", "done" or "crashed"
  returned  \* what it returned

vars == <<task, io, nfile, dec, good, stage, returned>>

(* The decoder that is attached. *)
Tpc == INSTANCE AlgoTpcXmit
Pmt == INSTANCE AlgoPmtXmit
Trig == INSTANCE AlgoTrigDecoder
Slow == INSTANCE AlgoSlowReadoutDecoder
Huff == INSTANCE AlgoTpcHuffman
Sn == INSTANCE AlgoSnTpcHuffman

\* process_word()
Decoded(word) ==
  CASE task.algo = "TPC" -> Tpc!ProcessWord(dec, word, task.debug)
    [] task.algo = "PMT" -> Pmt!ProcessWord(dec, word, task.debug)
    [] task.algo = "TRIG" -> Trig!ProcessWord(dec, word, task.debug)
    [] task.algo = "SLOW" -> Slow!ProcessWord(dec, word, task.debug)
    [] task.algo = "HUFF" -> Huff!ProcessWord(dec, word, task.debug)
    [] task.algo = "SN" -> Sn!ProcessWord(dec, word, task.debug)

\* check_event_quality(), of the decoders that ever say that an event is left.
QualityGood ==
  CASE task.algo = "TPC" -> Tpc!QualityGood(dec)
    [] task.algo = "PMT" -> Pmt!QualityGood(dec)
    [] task.algo = "HUFF" -> Huff!QualityGood(dec)
    [] task.algo = "SN" -> Sn!QualityGood(dec)

-------------------------------------------------------------------------------

Init ==
  /\ task \in Jobs
  /\ io = NewHandler /\ nfile = 1
  /\ \E n \in IF task.algo \in {"PMT", "SLOW"} THEN 0 .. 2 ELSE {0} :
       dec = [NewDecoder EXCEPT !.beyond = n]
  /\ good = TRUE /\ stage = "run" /\ returned = FALSE

\* The handler reads; the program goes on with the next stage unless that crashed.
Reads(h) == io' = Read(h, task.mode, task.size)
GoOnWith(next) == stage' = IF io'.broken THEN "crashed" ELSE next

\* initialize() and the first read.  run() ends well if a file cannot be opened.
StartDecoding ==
  /\ stage = "run"
  /\ \/ 1 \notin task.gone /\ Reads(Open(io, task.files[1]))
        /\ GoOnWith("loop") /\ UNCHANGED returned
     \/ UNCHANGED io /\ stage' = "done" /\ returned' = TRUE  \* or the output cannot
  /\ UNCHANGED <<task, nfile, dec, good>>

\* At the end of a file the next is opened, and its first word is processed
\* without another look at eof.
NextFile ==
  /\ stage = "loop" /\ io.eof
  /\ nfile' = nfile + 1
  /\ CASE nfile' > Len(task.files) -> stage' = "end" /\ UNCHANGED <<io, good>>
       [] nfile' <= Len(task.files) /\ nfile' \in task.gone ->
            stage' = "end" /\ good' = FALSE /\ UNCHANGED io
       [] OTHER -> /\ Reads(Open(io, task.files[nfile'])) /\ GoOnWith("word")
                   /\ UNCHANGED good
  /\ UNCHANGED <<task, dec, returned>>

\* Faulty: the limit is looked at before the event is counted.
LimitReachedLate(file) == task.limit > 0 /\ Len(file) > task.limit + 1

LimitReached(file) == task.limit > 0 /\ Len(file) > task.limit

\* process_word(), the limit, and the next read.
DecodeWord ==
  /\ stage = "word" \/ (stage = "loop" /\ ~io.eof)
  /\ dec' = Decoded(io.word)
  /\ good' = (dec'.status = "ok" \/ task.debug)
  /\ IF dec'.status = "crash" THEN stage' = "crashed" /\ UNCHANGED io
     ELSE IF LimitReached(dec'.file) THEN stage' = "end" /\ UNCHANGED io
     ELSE Reads(io) /\ GoOnWith(IF good' THEN "loop" ELSE "end")
  /\ UNCHANGED <<task, nfile, returned>>

\* The event that is left is saved if its quality is good, but by the manager,
\* which does not write its header into the product.
Saved ==
  IF dec.info.number # NoNumber /\ QualityGood THEN NextEvent(dec) ELSE dec

\* After the loop, and finalize().
FinishDecoding ==
  LET failed == ~good /\ ~task.debug
      left == dec.info.number # NoNumber /\ ~QualityGood
  IN /\ stage = "end" /\ stage' = "done"
     /\ dec' = IF failed THEN dec ELSE Saved
     /\ returned' = IF ~failed /\ left THEN io.eof ELSE good
     /\ UNCHANGED <<task, io, nfile, good>>

Next == StartDecoding \/ NextFile \/ DecodeWord \/ FinishDecoding

Spec == Init /\ [][Next]_vars /\ WF_vars(Next)

-------------------------------------------------------------------------------
(* Properties *)

\* A channel as it is stored.  Of a PMT readout that follows another without a
\* break the first header word is lost, and the first sample is taken for one.
Stored(c, m) ==
  IF c.follows
  THEN [module |-> m, n |-> c.n, time |-> <<c.time[2], c.samples[1]>>, samples |-> Tail(c.samples)]
  ELSE [module |-> m, n |-> c.n, time |-> c.time, samples |-> c.samples]
DataOf(m) == [c \in DOMAIN Module[m].channels |-> Stored(Module[m].channels[c], m)]

\* What is stored of the event made of these modules.
EventData(e) == FlattenSeq([i \in DOMAIN task.sent[e] |-> DataOf(task.sent[e][i])])

\* The module under whose header a stored event was checked: its last.
HeaderOf(event) == IF event.data = <<>> THEN NoModule ELSE Last(event.data).module

\* Nothing was lost, every file is there and has words, and no frame number is
\* beyond roll_over().
Intact ==
  /\ task.intact /\ task.gone = {} /\ task.limit = 0
  /\ \A f \in DOMAIN task.files : task.files[f] # <<>>

\* The events whose channels lie in full blocks.
ReadInFull ==
  IF task.mode # "block" THEN DOMAIN task.sent
  ELSE {e \in DOMAIN task.sent :
          task.ends[e] <= (Len(task.files[1]) \div task.size) * task.size}

\* The program may crash from the start: the first word is no event header, or
\* the first file has not one block.
FirstFile == IF task.files[1] = <<>> /\ Len(task.files) > 1 THEN task.files[2] ELSE task.files[1]
BeginsWithEvent == IF FirstFile = <<>> THEN Len(task.files) = 1 ELSE Head(FirstFile) = <<"EH">>
BadStart ==
  \/ task.algo \in {"TPC", "PMT", "HUFF", "SN"} /\ ~BeginsWithEvent
  \/ task.mode = "block" /\ Len(task.files[1]) < task.size
  \/ task.mode = "sized" /\ task.files[1] = <<>>

\* Of an intact input every event is stored, whole and in order, however it is
\* cut into files; with blocks of a fixed size those of one file whose channels
\* do not reach into the last, short block, which is never decoded.  Where no
\* event is harmed only a bad start crashes the program.
IntactAllStored ==
  /\ stage = "done" /\ io # NewHandler /\ Intact /\ (task.mode = "block" => Len(task.files) = 1) =>
       /\ returned
       /\ Len(dec.file) = Cardinality(ReadInFull)
       /\ \A e \in DOMAIN dec.file : e \in ReadInFull /\ dec.file[e].data = EventData(e)
  /\ stage = "crashed" /\ task.hit = {} => BadStart

\* A supernova event whose header was cut short is stored under none.
Headless(event) == task.algo = "SN" /\ event.number = NoNumber /\ HeaderOf(event) = NoModule

\* One event more than the limit is stored, and no more.
LimitKept == task.limit > 0 => Len(dec.file) <= task.limit + 1

\* Whatever words are lost, in whatever mode, the module under whose header an
\* event is stored has all its channels there, and they are the last ones.  Events
\* are stored once and in the order sent, and within the limit.  Each has the number
\* of its header, but the one that the manager itself saves last, which has that
\* of the event before, or none.
StoredIntact ==
  /\ LimitKept
  /\ \A j \in {i \in DOMAIN dec.file : ~Headless(dec.file[i])} :
       /\ HeaderOf(dec.file[j]) \in DOMAIN Module
       /\ IsSuffix(DataOf(HeaderOf(dec.file[j])), dec.file[j].data)
       /\ \A i \in 1 .. j - 1 : HeaderOf(dec.file[i]) < HeaderOf(dec.file[j])
       /\ \/ dec.file[j].number = Module[HeaderOf(dec.file[j])].number
          \/ /\ stage = "done" /\ j = Len(dec.file)
             /\ dec.file[j].number = IF j = 1 THEN Garbled ELSE dec.file[j - 1].number

\* In debug mode, reading word by word, a lost word costs the events that the decoder
\* is known to lose by it (task.hit), and every other is stored as it was sent:
\* - TPC: the events it is part of, an event header also the event before, the event
\*   last word of the last event nothing;
\* - trigger: its event;
\* - PMT: its module, a module's last word also the one behind it, and the words
\*   around a packet nothing;
\* - old PMT: its event, a header word all that follow; the last word, if it is half
\*   padding, nothing.  What there was of an event is stored with the next;
\* - compressed and supernova: its event and the rest of the packet.  The event last
\*   word, and with compressed data a header word of the last module, cost the next
\*   packet too.  The event last word costs nothing if it ends the words or the module
\*   does not count it, nor does the last word of the last channel, which the checksum
\*   makes up.
\* Events that the decoder cannot read in any case are in task.hit as well.
DebugLosesOnlyHit ==
  stage = "done" /\ io # NewHandler /\ task.debug /\ task.mode = "word" /\ task.limit = 0
    /\ task.gone = {} /\ (\A f \in DOMAIN task.files : task.files[f] # <<>>) =>
    \A e \in DOMAIN task.sent \ task.hit :
      \E j \in DOMAIN dec.file :
        IF task.algo = "SLOW" THEN IsSuffix(EventData(e), dec.file[j].data)
        ELSE dec.file[j].data = EventData(e)

\* Whatever the words, the program crashes only after a bad start, where a header
\* announces no words at all (a header word then comes to be one too many), or where
\* the older decoders look for a channel and there is none.
CrashedKnown ==
  stage = "crashed" =>
    \/ BadStart
    \/ task.algo \in {"HUFF", "SN"} /\ \E m \in DOMAIN Module : Module[m].nwords = 0
    \/ task.algo = "PMT" /\ dec.last = "PAD" /\ dec.data = <<>>
    \/ task.algo = "SLOW" /\ dec.data = <<>>

\* Every read, in whichever mode, takes the next word of the files: none is left
\* out or taken twice.  A file is left when none of its words is unread, but the last,
\* short block of a fixed size, whose first word is then not decoded.
WordsInOrder ==
  [][LET opened == IF stage = "run" THEN task.files[1]
                   ELSE IF stage = "loop" /\ io.eof THEN task.files[nfile'] ELSE <<>>
         left == Unread(io) \o opened
     IN io' # io =>
          /\ IF left = <<>> THEN io'.eof /\ Unread(io') = <<>>
             ELSE io'.word = Head(left) /\ Unread(io') = Tail(left)
          /\ nfile' # nfile =>
               io.rest = <<>> /\ (task.mode = "block" \/ Unread(io) = <<>>)
          /\ nfile' = nfile /\ stage # "run" => dec' = Decoded(io.word)
    ]_vars

===============================================================================
