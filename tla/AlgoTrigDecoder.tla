---------------------------- MODULE AlgoTrigDecoder ----------------------------
(***************************************************************************)
(* larlight::algo_trig_decoder (NevisDecoder/Algorithm): the decoder of    *)
(* the trigger's data.  An event is three words <<"T", m, i>>, the i-th of *)
(* trigger m, and 0xffffffff; there is no checksum.  It is not a           *)
(* algo_fem_decoder_base, but keeps its words in the same record.          *)
(***************************************************************************)
EXTENDS AlgoFemDecoderBase

TriggerWordCount == 4           \* TRIGGER_WORD_COUNT
TriggerLastWord == <<"EH">>     \* TRIGGER_LAST_WORD has the value of an event header

\* check_event_quality()
QualityGood(d) == Len(d.header) = TriggerWordCount

\* decode_trigger_words(): each word gives some of the fields, the second the number.
DecodeTriggerWords(d) ==
  LET Reads(i) == d.header[i][1] = "T" /\ d.header[i][3] = i
      m == IF Reads(3) THEN d.header[3][2] ELSE Garbled
      Field(i) == IF Reads(i) THEN Module[d.header[i][2]].channels[1].samples[i] ELSE Garbled
  IN [d EXCEPT !.number = IF Reads(2) THEN Module[d.header[2][2]].number ELSE Garbled,
               !.data = <<[module |-> m, n |-> 0, time |-> <<>>,
                           samples |-> [i \in 1 .. 3 |-> Field(i)]]>>]

\* Decodes, next_event() and clear_event_info().
Store(d) == [NextEvent(DecodeTriggerWords(d)) EXCEPT !.header = <<>>]

\* In debug mode the words are shifted by one until the last is in its place.
ProcessWord(before, word, debug) ==
  LET d == [before EXCEPT !.status = "ok", !.attached = TRUE, !.header = Append(@, word)]
  IN IF ~QualityGood(d) THEN d
     ELSE IF Last(d.header) = TriggerLastWord THEN Store(d)
     ELSE [Fails(d) EXCEPT !.header = IF debug THEN Tail(@) ELSE @]

===============================================================================
