------------------------ MODULE AlgoSlowReadoutDecoder ------------------------
(***************************************************************************)
(* larlight::algo_slow_readout_decoder (NevisDecoder/Algorithm): the older *)
(* decoder of the PMT readout, in which every module is an event of its    *)
(* own, without event words.  It counts words and checksum down from what  *)
(* the header gives.  It is not a algo_fem_decoder_base, but keeps its     *)
(* words in the same record; what it shares with AlgoPmtXmit is taken from *)
(* there.                                                                  *)
(***************************************************************************)
EXTENDS AlgoFemDecoderBase

Pmt == INSTANCE AlgoPmtXmit

ChannelHeaderCount == 2

\* get_word_class()
KindOf(half) == IF half[1] \in {"Z", "N"} THEN "U" ELSE half[1]

\* init_ch_info() and init_event_info(); the product is not cleared.
InitChInfo(d) == [d EXCEPT !.ch = NoChannel, !.chcount = 0]
InitEventInfo(d) ==
  [d EXCEPT !.count = 0, !.chlast = 0, !.reading = FALSE, !.nwords = 0, !.sum = 0]

\* check_event_quality(), of what is left of the counts.
QualityGood(d) == d.nwords \in {0, 1} /\ d.sum \in {0, Padding}

-------------------------------------------------------------------------------
(* Headers *)

DecodeEventHeader(d) ==
  [d EXCEPT !.info.module = IF d.header[1][3] = 1 THEN d.header[1][2] ELSE Garbled,
            !.number = FieldOf(d.header, 3, "number"),
            !.nwords = FieldOf(d.header, 2, "nwords"),
            !.sum = FieldOf(d.header, 5, "checksum"),
            !.count = 0, !.reading = TRUE]

\* process_header()
ProcessHeader(d, word, debug) ==
  LET kind == KindOf(word[2])
      taken == [d EXCEPT !.header = Append(SubSeq(@, 1, d.count), word[2]), !.count = @ + 1]
      done == CASE kind = "U" -> d
                [] kind = "F" -> IF word[3][1] # "F" THEN Fails(d)
                                 ELSE IF taken.count < HeaderCount THEN taken
                                 ELSE DecodeEventHeader(taken)
                [] OTHER -> IF debug THEN d ELSE Fails(d)
  IN [done EXCEPT !.last = kind]

-------------------------------------------------------------------------------
(* Channels *)

\* The first word of a channel.  Whether the channel before is odd is looked at
\* before the last word is, and in front of the product's vector if it is empty.
ChannelHeader(d, half) ==
  LET expected == d.last \in {"FF", "CL"} \/ (d.last = "PAD" /\ Pmt!IsOdd(Pmt!Size(d)))
  IN IF d.last \notin {"FF", "CL"} /\ Pmt!ReadsWild(d) THEN Crashes(d)
     ELSE IF ~expected THEN Fails(d)
     ELSE [InitChInfo(d) EXCEPT !.ch.n = half[2]]

\* Readouts without a break: the channel is that of the one before.
Continued(d) ==
  IF d.last # "CL" THEN d ELSE [InitChInfo(d) EXCEPT !.ch.n = d.chlast]

\* The two header words, which give the time, and the samples.  The first word of
\* a readout that continues another is neither.
HeaderOrSample(d, half) ==
  CASE d.chcount = ChannelHeaderCount ->
         IF half[1] = "CL" THEN d
         ELSE [d EXCEPT !.ch.samples = Append(@, IF Pmt!IsPad(half) THEN 0 ELSE half[2])]
    [] d.chcount # ChannelHeaderCount /\ d.last = "CL" -> d
    [] OTHER -> [d EXCEPT !.ch.time = Append(@, Value(half)), !.chcount = @ + 1]

StoreChData(d) ==
  InitChInfo([d EXCEPT !.data = Append(@, d.ch @@ [module |-> d.info.module]),
                       !.chlast = d.ch.n])

ChannelWord(d, half) ==
  LET taken == HeaderOrSample(Continued(d), half)
  IN CASE Pmt!LastClass(d) \notin {"CH", "W", "CL"} -> Fails(d)
       [] d.last = "CL" /\ Pmt!IsPad(half) ->
            IF Pmt!ReadsWild(d) THEN Crashes(d)
            ELSE IF Pmt!IsOdd(Pmt!Size(d)) THEN d ELSE Fails(d)
       [] OTHER -> IF half[1] = "CL" THEN StoreChData(taken) ELSE taken

\* decode_ch_word()
DecodeChWord(d, half) ==
  CASE KindOf(half) = "FF" -> IF d.last = "F" THEN d ELSE Fails(d)
    [] KindOf(half) = "CH" -> ChannelHeader(d, half)
    [] KindOf(half) \in {"W", "CL"} -> ChannelWord(d, half)
    [] KindOf(half) = "FL" -> d
    [] OTHER -> Fails(d)

\* The last word of the module stores the event, or leaves its channels in the
\* product, for the next event.
EndOfEvent(d, debug) ==
  IF QualityGood(d) THEN InitEventInfo(NextEvent(d))
  ELSE IF debug THEN InitEventInfo(d) ELSE Fails(InitEventInfo(d))

\* process_ch_word(): what was decoded is counted, and the last word ends the event.
Counted(d, half, debug) ==
  CASE d.status # "ok" -> d
    [] d.status = "ok" /\ half[1] = "FL" -> EndOfEvent(d, debug)
    [] OTHER -> [d EXCEPT !.nwords = @ - 1, !.sum = @ - Value(half)]

ProcessChWord(d, half, debug) ==
  IF KindOf(half) = "U" THEN d
  ELSE [Counted(DecodeChWord(d, half), half, debug)
        EXCEPT !.last = Pmt!Class(half)]

-------------------------------------------------------------------------------
(* process_word() *)

\* A header among the channels: in debug mode it ends the event before it.
UnexpectedHeader(d, word, debug) ==
  LET ended == InitEventInfo(d)
      header == ProcessHeader(IF QualityGood(d) THEN NextEvent(ended) ELSE ended, word, debug)
  IN IF debug THEN [header EXCEPT !.status = "ok"] ELSE Fails(d)

\* The two halves; a failure of the first only ends the event in debug mode.
AfterLow(d, word, debug) ==
  CASE d.status = "ok" /\ d.reading -> ProcessChWord(d, word[3], debug)
    [] d.status = "fail" /\ debug -> [d EXCEPT !.status = "ok", !.reading = FALSE]
    [] OTHER -> d
ProcessPair(d, word, debug) == AfterLow(ProcessChWord(d, word[2], debug), word, debug)

ProcessWord(before, word, debug) ==
  LET d == [before EXCEPT !.status = "ok", !.attached = TRUE]
  IN IF ~d.reading THEN ProcessHeader(d, word, debug)
     ELSE IF KindOf(word[2]) = "F" THEN UnexpectedHeader(d, word, debug)
     ELSE ProcessPair(d, word, debug)

===============================================================================
