---------------------------- MODULE AlgoTpcHuffman ----------------------------
(***************************************************************************)
(* larlight::algo_tpc_huffman (NevisDecoder/Algorithm): the decoder of     *)
(* compressed TPC data.  Each module is an event of its own, which is      *)
(* stored when as many halves have come as its header announced: at its    *)
(* last word or, if the header counts that too, at the header or event     *)
(* last word that follows.  process_word() is its own.                     *)
(***************************************************************************)
EXTENDS AlgoFemDecoderBase

Tpc == INSTANCE AlgoTpcXmit

\* get_word_class(), of a half and of a word.  A sample of 0 is of no class, and a
\* half of an event header is of the class of a module header's.
KindOf(half) ==
  CASE half[1] = "N" -> "U"
    [] half[1] = "Z" -> "W"
    [] half = AllOnes -> "F"
    [] OTHER -> half[1]
ClassOf(word) ==
  CASE word[1] # "P" -> word[1]
    [] word[1] = "P" /\ word[2] = <<"N">> -> "W"
    [] OTHER -> KindOf(word[2])

Zero == <<"P", <<"N">>, <<"N">>>>

\* An event header where none is expected is two samples, behind which a module
\* or a channel may begin.
Halves(word) == IF word = <<"EH">> THEN <<AllOnes, AllOnes>> ELSE Tail(word)

ClearEvent(d) == Tpc!ClearEvent(d)

\* check_event_quality(): the checksum may lack the last word of the last channel.
LastChannel == 63
Fixable(d) ==
  /\ d.sum # d.info.checksum
  /\ d.sum + Value(<<"CL", LastChannel>>) = d.info.checksum
QualityGood(d) == d.nwords = d.info.nwords /\ (d.sum = d.info.checksum \/ Fixable(d))

\* store_event()
StoreEvent(d) ==
  LET checked == [d EXCEPT !.allow = @ \/ Fixable(d)]
  IN ClearEvent(IF QualityGood(d) THEN NextEvent([checked EXCEPT !.number = d.info.number])
                ELSE Fails(checked))

\* The channel that has no last word.
StoreChData(d) ==
  [d EXCEPT !.data = Append(@, d.ch @@ [module |-> d.info.module]), !.ch = NoChannel]
Flush(d) == IF d.ch.samples = <<>> THEN d ELSE StoreChData(d)

Complete(d) == d.nwords = d.info.nwords

-------------------------------------------------------------------------------
(* Event and module headers *)

ProcessEventHeader(d) ==
  [IF d.attached /\ d.last # "EL" THEN Fails(d) ELSE [d EXCEPT !.attached = TRUE]
   EXCEPT !.last = "EH"]

\* process_fem_header(): the words are counted until the event is cleared.  A
\* header word beyond the count would be written behind the array.  What the last
\* of them gives, decoded, is the decoder's own.
Taken(d, word) ==
  [d EXCEPT !.header = Append(SubSeq(@, 1, d.count), word[2]), !.count = @ + 1]
ProcessHeaderWord(d, word, decoded) ==
  LET follows == d.last \in {"EH", "F", "CL"} \/ d.allow
      done == IF ~follows \/ word[3][1] # "F" THEN Fails(d)
              ELSE IF d.count >= HeaderCount THEN Crashes(d)
              ELSE IF d.count + 1 < HeaderCount THEN Taken(d, word)
              ELSE decoded
  IN IF done.status = "throw" THEN done ELSE [done EXCEPT !.allow = FALSE, !.last = "F"]

ProcessEventLastWord(d) ==
  LET done == CASE d.last # "CL" /\ d.allow -> [d EXCEPT !.allow = FALSE]
                [] d.last # "CL" /\ ~d.allow -> Fails(d)
                [] OTHER -> IF d.info.number # NoNumber THEN Fails(d) ELSE d
  IN [done EXCEPT !.last = "EL"]

-------------------------------------------------------------------------------
(* Channels *)

\* decode_ch_word(): whatever is not compressed is a sample of 12 bits.
DecodeChWord(d, half) ==
  CASE half[1] # "Z" -> [d EXCEPT !.ch.samples = Append(@, Value(half) % 4096)]
    [] half[1] = "Z" /\ d.ch.samples # <<>> /\ Range(half[2]) \subseteq 0 .. 6 ->
         [d EXCEPT !.ch.samples = FoldLeft(LAMBDA s, z : Tpc!AddHuffmanAdc(z, s), @, half[2])]
    [] OTHER -> Fails(d)

BeginChannel(d, half) ==
  IF d.last \in {"F", "CL"} THEN [d EXCEPT !.ch = [NoChannel EXCEPT !.n = half[2]]]
  ELSE Fails(d)

\* Faulty: the event is stored before the last word is added to the checksum.
EndChannelEarly(d, half) ==
  IF half[2] # d.ch.n THEN Fails(d)
  ELSE IF ~d.attached THEN Crashes(d)
  ELSE IF Complete(d) THEN StoreEvent(StoreChData(d)) ELSE StoreChData(d)

EndChannel(d, half) ==
  IF half[2] # d.ch.n THEN Fails(d)
  ELSE IF ~d.attached THEN Crashes(d)
  ELSE IF Complete(d) THEN StoreEvent([StoreChData(d) EXCEPT !.sum = @ + Value(half)])
  ELSE StoreChData(d)

\* Halves are counted once a module's header is there.
Counted(d, half) ==
  IF d.status # "ok" \/ d.info.nwords = 0 THEN d
  ELSE [d EXCEPT !.nwords = @ + 1, !.sum = @ + Value(half)]

ProcessChWord(d, half) ==
  LET done == CASE half[1] = "CH" -> BeginChannel(d, half)
                [] half[1] = "CL" -> EndChannel(d, half)
                [] OTHER -> DecodeChWord(d, half)
  IN IF half = <<"N">> /\ d.last = "CL" THEN d
     ELSE [Counted(done, half) EXCEPT !.last = KindOf(half)]

SecondHalf(d, half) == IF d.status = "ok" THEN ProcessChWord(d, half) ELSE d
ProcessPair(d, word) == SecondHalf(ProcessChWord(d, Halves(word)[1]), Halves(word)[2])

-------------------------------------------------------------------------------
(* process_word() *)

\* Only this is a header, and not two samples, and ends a search.
StartsEvent(d) == (d.last = "EL" /\ d.info.nwords = 0) \/ ~d.attached

\* A module's header, after the event before it is stored.
FemHeader(d, word) ==
  LET stored == IF d.nwords # 0 /\ Complete(d) THEN StoreEvent(Flush(d)) ELSE d
  IN IF stored.status # "ok" THEN stored
     ELSE IF stored.info.nwords # 0 THEN ProcessPair(stored, word)
     ELSE ProcessHeaderWord(stored, word, DecodeFemHeader(Taken(stored, word)))

\* A failure to store is forgotten.
EventLast(d) ==
  LET stored == IF Complete(d) THEN StoreEvent(Flush(d)) ELSE d
  IN IF stored.status = "crash" THEN stored
     ELSE ProcessEventLastWord([stored EXCEPT !.status = "ok"])

Dispatch(d, word) ==
  CASE ClassOf(word) = "EH" -> IF StartsEvent(d) THEN ProcessEventHeader([d EXCEPT !.search = FALSE])
                               ELSE ProcessPair(d, word)
    [] ClassOf(word) = "F" -> FemHeader(d, word)
    [] ClassOf(word) = "EL" -> EventLast(d)
    [] OTHER -> ProcessPair(d, word)

\* A word of zeros is skipped, and so is, after a failure, everything up to an
\* event header that follows an event last word.
Searching(d, class) == d.search /\ ~(class = "EH" /\ d.last = "EL")
Recovered(done, debug) ==
  IF done.status = "fail" THEN ClearEvent([done EXCEPT !.search = @ \/ debug]) ELSE done

ProcessWord(before, word, debug) ==
  LET d == [before EXCEPT !.status = "ok"]
  IN CASE word = Zero -> d
       [] word # Zero /\ Searching(d, ClassOf(word)) -> [d EXCEPT !.last = ClassOf(word)]
       [] OTHER -> Recovered(Dispatch(d, word), debug)

===============================================================================
