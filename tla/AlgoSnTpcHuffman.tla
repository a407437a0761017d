--------------------------- MODULE AlgoSnTpcHuffman ---------------------------
(***************************************************************************)
(* larlight::algo_sn_tpc_huffman (NevisDecoder/Algorithm): the decoder of  *)
(* the supernova stream of the TPC, an algo_tpc_huffman.  A channel's data *)
(* come in packets, each with its time, or not at all; the event is stored *)
(* at the event last word.                                                 *)
(***************************************************************************)
EXTENDS AlgoFemDecoderBase

Huffman == INSTANCE AlgoTpcHuffman

\* get_word_class(), of a half and of a word; the zero half is told apart here.
KindOf(half) ==
  CASE half[1] = "Z" -> "W"
    [] half = AllOnes -> "F"
    [] OTHER -> half[1]
ClassOf(word) == IF word[1] = "P" THEN KindOf(word[2]) ELSE word[1]

\* Event words where none is expected are samples; of an event last word the
\* second half is 0xe000, a sample of 0.
Halves(word) ==
  IF word = <<"EL">> THEN <<<<"N">>, <<"W", 57344>>>> ELSE Huffman!Halves(word)

ClearEvent(d) == Huffman!ClearEvent(d)
QualityGood(d) == Huffman!QualityGood(d)

\* decode_fem_header(): trigger frames are not looked at, so it never throws.
DecodeSnHeader(d) ==
  [d EXCEPT !.info = [module |-> IF d.header[1][3] = 1 THEN d.header[1][2] ELSE Garbled,
                      number |-> FieldOf(d.header, 3, "number"),
                      nwords |-> FieldOf(d.header, 2, "nwords"),
                      checksum |-> FieldOf(d.header, 5, "checksum")],
            !.nwords = 0, !.sum = 0]

-------------------------------------------------------------------------------
(* Channels *)

\* store_ch_data(), with the channel of the last header.
StoreChData(d) ==
  IF ~d.attached THEN Crashes(d) ELSE Huffman!StoreChData([d EXCEPT !.ch.n = d.chlast])

\* A channel header right after another stores the empty channel.
BeginChannel(d, half) ==
  CASE d.last = "CP" -> [d EXCEPT !.chlast = half[2]]
    [] d.last = "CH" -> [StoreChData(d) EXCEPT !.chlast = half[2]]
    [] d.last = "F" -> [d EXCEPT !.ch = NoChannel, !.chlast = half[2]]
    [] OTHER -> Fails(d)

PacketTime(d, half) ==
  IF d.last \in {"CH", "CP"} THEN [d EXCEPT !.ch.time = <<half[2]>>] ELSE Fails(d)

EndPacket(d, half) == StoreChData([d EXCEPT !.ch.samples = Append(@, half[2])])

ProcessChWord(d, half) ==
  LET done == CASE half[1] = "CH" -> BeginChannel(d, half)
                [] half[1] = "CT" -> PacketTime(d, half)
                [] half[1] = "CP" -> EndPacket(d, half)
                [] half[1] \in {"N", "U", "CL"} -> d
                [] OTHER -> Huffman!DecodeChWord(d, half)
  IN IF half = <<"N">> /\ d.last = "CP" THEN d
     ELSE [Huffman!Counted(done, half) EXCEPT !.last = KindOf(half)]

SecondHalf(d, half) == IF d.status = "ok" THEN ProcessChWord(d, half) ELSE d
ProcessPair(d, word) == SecondHalf(ProcessChWord(d, Halves(word)[1]), Halves(word)[2])

-------------------------------------------------------------------------------
(* process_word() *)

FemHeader(d, word) ==
  IF d.info.nwords # 0 THEN ProcessPair(d, word)
  ELSE Huffman!ProcessHeaderWord(d, word, DecodeSnHeader(Huffman!Taken(d, word)))

\* process_event_last_word(): its own failure is forgotten.
ProcessEventLastWord(d) == Huffman!StoreEvent([d EXCEPT !.last = "EL"])

\* After an empty channel, which may be padded, that is stored first; after a
\* sample it is two samples more.
EventLast(d, word) ==
  CASE d.last = "CP" -> ProcessEventLastWord(d)
    [] d.last \in {"CH", "N"} ->
         IF d.attached THEN ProcessEventLastWord(StoreChData(d)) ELSE Crashes(d)
    [] OTHER -> ProcessPair(d, word)

Dispatch(d, word) ==
  CASE ClassOf(word) = "EH" ->
         IF Huffman!StartsEvent(d) THEN Huffman!ProcessEventHeader([d EXCEPT !.search = FALSE])
         ELSE ProcessPair(d, word)
    [] ClassOf(word) = "F" -> FemHeader(d, word)
    [] ClassOf(word) = "EL" -> EventLast(d, word)
    [] OTHER -> ProcessPair(d, word)

ProcessWord(before, word, debug) ==
  LET d == [before EXCEPT !.status = "ok"]
  IN CASE word = Huffman!Zero -> d
       [] word # Huffman!Zero /\ Huffman!Searching(d, ClassOf(word)) ->
            [d EXCEPT !.last = ClassOf(word)]
       [] OTHER -> Huffman!Recovered(Dispatch(d, word), debug)

===============================================================================
