----------------------------- MODULE AlgoTpcXmit -----------------------------
(***************************************************************************)
(* larlight::algo_tpc_xmit (NevisDecoder/Algorithm): the decoder of the    *)
(* TPC readout.  The channels of all modules of an event go into one       *)
(* product, which is stored when the header of the next event comes.       *)
(***************************************************************************)
EXTENDS AlgoFemDecoderBase

\* get_word_class()
KindOf(half) == IF half[1] \in {"Z", "N"} THEN "W" ELSE half[1]

\* Through a null pointer while no event header has come.
ClearEvent(d) ==
  IF d.attached THEN [ClearHeader(d) EXCEPT !.data = <<>>, !.ch.samples = <<>>]
  ELSE Crashes(d)

\* check_event_quality()
QualityGood(d) == d.nwords = d.info.nwords /\ d.sum = d.info.checksum

StoreEvent(d) ==
  ClearEvent(IF QualityGood(d) THEN NextEvent([d EXCEPT !.number = d.info.number])
             ELSE Fails(d))

\* Faulty: the product is fetched when there is an event to store.
ProcessEventHeaderLate(d) ==
  LET a == [d EXCEPT !.attached = @ \/ d.last = "EL"]
      done == CASE a.last = "EL" -> StoreEvent(a)
                [] a.last = "EH" -> a
                [] OTHER -> Fails(a)
  IN [done EXCEPT !.last = "EH"]

ProcessEventHeader(d) ==
  LET a == [d EXCEPT !.attached = TRUE]
      done == CASE a.last = "EL" -> StoreEvent(a)
                [] a.last = "EH" -> a
                [] OTHER -> Fails(a)
  IN [done EXCEPT !.last = "EH"]

ProcessEventLastWord(d) == [d EXCEPT !.last = "EL"]

\* There is none in TPC data.
ProcessFemLastWord(d) == [Fails(d) EXCEPT !.last = "FL"]

-------------------------------------------------------------------------------
(* Channels *)

\* add_huffman_adc(): zeros -> difference to the sample before, 16 bits wide.
Difference == <<0, -1, 1, -2, 2, -3, 3>>
AddHuffmanAdc(zeros, samples) ==
  Append(samples, (Last(samples) + Difference[zeros + 1]) % 65536)

\* What process_ch_word() and decode_ch_word() accept after the last word.
Accepts(d, half) ==
  CASE half[1] = "CH" -> d.last \in {"F", "CL"}
    [] half[1] = "CL" -> d.last = "W" /\ half[2] = d.ch.n
    [] half[1] \in {"W", "N"} -> d.last \in {"CH", "W"}
    [] half[1] = "Z" -> /\ d.last \in {"CH", "W"} /\ d.ch.samples # <<>>
                        /\ Range(half[2]) \subseteq 0 .. 6
    [] OTHER -> FALSE

Took(d, half) ==
  CASE half[1] = "CH" -> [d EXCEPT !.ch = [NoChannel EXCEPT !.n = half[2]]]
    [] half[1] \in {"W", "N"} -> [d EXCEPT !.ch.samples = Append(@, Value(half))]
    [] half[1] = "Z" ->
         [d EXCEPT !.ch.samples = FoldLeft(LAMBDA s, z : AddHuffmanAdc(z, s), @, half[2])]
    [] OTHER ->
         IF ~d.attached THEN Crashes(d)
         ELSE [d EXCEPT !.ch = NoChannel,
                 !.data = Append(@, [d.ch EXCEPT !.n = half[2]] @@ [module |-> d.info.module])]

ProcessChWord(d, half) ==
  LET done == IF Accepts(d, half)
              THEN [Took(d, half) EXCEPT !.nwords = @ + 1, !.sum = @ + Value(half)]
              ELSE ClearEvent(Fails(d))
  IN IF half[1] = "U" THEN done ELSE [done EXCEPT !.last = KindOf(half)]

-------------------------------------------------------------------------------
INSTANCE FemProcessWord

===============================================================================
