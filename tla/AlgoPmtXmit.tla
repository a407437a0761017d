----------------------------- MODULE AlgoPmtXmit -----------------------------
(***************************************************************************)
(* larlight::algo_pmt_xmit (NevisDecoder/Algorithm): the decoder of the    *)
(* PMT readout.  Each module is stored on its own, when its last word      *)
(* comes.  A channel's data begin with a header of three words, of which   *)
(* the first is left out when two readouts follow without a break, and end *)
(* with 0x8000 if the number of samples is odd.                            *)
(***************************************************************************)
EXTENDS AlgoFemDecoderBase

ChannelHeaderCount == 3

\* get_word_class()
KindOf(half) == IF half[1] \in {"Z", "N"} THEN "U" ELSE half[1]
LastClass(d) == IF d.last = "PAD" THEN "W" ELSE d.last

ClearEvent(d) ==
  [ClearHeader(d) EXCEPT !.data = <<>>, !.ch = NoChannel, !.chcount = 0]

\* Faulty: the last word of the module is expected to be counted.
QualityWithLast(d) == d.nwords = d.info.nwords /\ d.sum = d.info.checksum

\* check_event_quality()
QualityGood(d) == d.nwords - 1 = d.info.nwords /\ d.sum = d.info.checksum

StoreEvent(d) ==
  IF ~QualityGood(d) THEN ClearEvent(Fails(d))
  ELSE IF ~d.attached THEN Crashes(d)
  ELSE ClearEvent(NextEvent([d EXCEPT !.number = d.info.number]))

ProcessEventHeader(d) ==
  LET done == IF d.attached /\ d.last # "EL" THEN Fails(d) ELSE [d EXCEPT !.attached = TRUE]
  IN [done EXCEPT !.last = "EH"]

ProcessEventLastWord(d) ==
  LET done == IF d.last # "FL" THEN Fails(d) ELSE d
  IN [done EXCEPT !.last = "EL"]

\* The number of samples of the channel stored last.  When there is none the code
\* reads in front of the product's vector, where there may be no memory.
Size(d) == IF d.data = <<>> THEN d.beyond ELSE Len(Last(d.data).samples)
IsOdd(n) == n % 2 = 1
Unmapped == 2
ReadsWild(d) == ~d.attached \/ (d.data = <<>> /\ d.beyond = Unmapped)

ProcessFemLastWord(d) ==
  LET counted == [d EXCEPT !.nwords = @ + 1]
      done == IF \/ d.last \in {"CL", "FF"}
                 \/ d.last = "PAD" /\ IsOdd(Size(d))
              THEN StoreEvent(counted) ELSE Fails(counted)
  IN IF d.last = "PAD" /\ ReadsWild(d) THEN Crashes(d) ELSE [done EXCEPT !.last = "FL"]

-------------------------------------------------------------------------------
(* Channels *)

IsPad(half) == half = <<"W", Padding>>
Class(half) == IF IsPad(half) THEN "PAD" ELSE KindOf(half)

\* The first header word of a channel.
ChannelHeader(d, half) ==
  LET expected == \/ d.last \in {"FF", "CL"}
                  \/ d.last = "PAD" /\ d.data # <<>> /\ IsOdd(Size(d))
  IN IF d.last \notin {"FF", "CL"} /\ ~d.attached THEN Crashes(d)
     ELSE IF ~expected THEN Fails(d)
     ELSE [d EXCEPT !.ch = [NoChannel EXCEPT !.n = half[2]], !.chcount = 1]

\* Readouts without a break: the channel is that of the one before.
Continued(d) ==
  IF d.last # "CL" THEN d ELSE [d EXCEPT !.chcount = 1, !.ch.n = Last(d.data).n]

\* The other header words, which give the time, and the samples.  The first word
\* of a readout that continues another is neither.
HeaderOrSample(d, half) ==
  IF d.chcount = ChannelHeaderCount
  THEN IF LastClass(d) # "W" THEN Fails(d)
       ELSE IF half[1] = "CL" THEN d
       ELSE [d EXCEPT !.ch.samples = Append(@, IF IsPad(half) THEN 0 ELSE half[2])]
  ELSE IF d.last = "CL" THEN d
  ELSE [d EXCEPT !.ch.time = Append(@, Value(half)), !.chcount = @ + 1]

\* store_ch_data(), whether the channel was read well or not.
StoreChData(d) ==
  IF ~d.attached THEN Crashes(d)
  ELSE [d EXCEPT !.data = Append(@, d.ch @@ [module |-> d.info.module]),
                 !.ch = NoChannel, !.chcount = 0]

\* A word in the data of a channel, or its last.
ChannelWord(d, half) ==
  LET taken == HeaderOrSample(Continued(d), half)
  IN CASE LastClass(d) \notin {"CH", "W", "CL"} -> Fails(d)
       [] d.last = "CL" /\ IsPad(half) -> IF IsOdd(Size(d)) THEN d ELSE Fails(d)
       [] d.last = "CH" /\ d.chcount # ChannelHeaderCount /\ d.info.number = NoNumber -> Fails(d)
       [] d.last = "CH" /\ d.chcount # ChannelHeaderCount /\ half = <<"W", Twisted>> ->
            [d EXCEPT !.status = "throw"]
       [] OTHER -> IF half[1] = "CL" THEN StoreChData(taken) ELSE taken

\* decode_ch_word()
DecodeChWord(d, half) ==
  CASE KindOf(half) = "FF" -> IF d.last = "F" THEN d ELSE Fails(d)
    [] KindOf(half) = "CH" -> ChannelHeader(d, half)
    [] KindOf(half) \in {"W", "CL"} -> ChannelWord(d, half)
    [] OTHER -> Fails(d)

\* A half that was decoded is counted; a throw leaves before that.
Counted(d, half) ==
  CASE d.status = "throw" -> d
    [] d.status = "ok" -> [d EXCEPT !.nwords = @ + 1, !.sum = @ + Value(half), !.last = Class(half)]
    [] OTHER -> [d EXCEPT !.last = Class(half)]
ProcessChWord(d, half) == Counted(DecodeChWord(d, half), half)

-------------------------------------------------------------------------------
INSTANCE FemProcessWord

===============================================================================
