-------------------------- MODULE AlgoFemDecoderBase --------------------------
(***************************************************************************)
(* larlight::algo_fem_decoder_base (NevisDecoder/Algorithm): what the      *)
(* decoders of the TPC and PMT readout share.  A decoder is given one      *)
(* 32-bit word at a time and puts channels and events together.  Its       *)
(* members are the record d, and each of its functions an operator on it;  *)
(* process_word(), which calls virtual functions, is in FemProcessWord.    *)
(*                                                                         *)
(* A word is <<"EH">> (event header), <<"EL">> (event last word) or a pair *)
(* <<"P", low, high>> of 16-bit halves, each of a kind:                    *)
(*   <<"F", m, k>>  the k-th header word of module m                       *)
(*   <<"FF">>, <<"FL">>  first and last word of a PMT module               *)
(*   <<"CH", n>>, <<"CL", n>>  first and last word of channel n            *)
(*   <<"CT", t>>, <<"CP", v>>  time and last sample of a packet of it      *)
(*   <<"W", v>>     a sample, of which 12 bits count; 0x8000 if v is       *)
(*                  Padding                                                *)
(*   <<"Z", codes>> a Huffman word: the zeros before each set bit          *)
(*   <<"N">>        0x0                                                    *)
(*   <<"U">>        a half of no class                                     *)
(***************************************************************************)
EXTENDS Integers, SequencesExt

CONSTANTS
  Module,       \* what each module sends: the fields of its header [number, nwords,
                \* checksum, ambiguous], 1 if roll_over() cannot tell its frame, and
                \* its channels [n, time, samples, follows]
  HeaderCount   \* FEM_HEADER_COUNT

ASSUME HeaderCountAssumption == HeaderCount \in Nat /\ HeaderCount > 5

HeaderHalf == {"F"} \X (DOMAIN Module) \X (1 .. HeaderCount)
HalfWord ==
  HeaderHalf \union ({"CH", "CL", "CT", "CP", "W"} \X Nat) \union ({"Z"} \X Seq(Nat))
    \union {<<"FF">>, <<"FL">>, <<"N">>, <<"U">>}
\* Samples are of 12 bits: 0xffff is a half of an event header and of nothing else.
AllOnes == <<"W", 65535>>
PairWord == {"P"} \X (HalfWord \ {AllOnes}) \X HalfWord
ReadoutWord == {<<"EH">>, <<"EL">>} \union PairWord
TriggerWord == {<<"EH">>} \union ({"T"} \X (DOMAIN Module) \X (1 .. 3))

NoNumber == -1  \* FEM::INVALID_WORD
Garbled == -2   \* a header field read from a word of another place
NoModule == 0
Padding == 1000
Twisted == 2000   \* a frame number that roll_over() cannot correct

NoInfo == [module |-> NoModule, number |-> NoNumber, nwords |-> 0, checksum |-> 0]
NoChannel == [n |-> 0, time |-> <<>>, samples |-> <<>>]

\* reset().  INVALID_WORD has the value, and so the class, of an event header.
NewDecoder ==
  [last |-> "EH",       \* the class of _last_word, or "PAD" for 0x8000
   count |-> 0,         \* _event_header_count
   header |-> <<>>,     \* _event_header_words, the first count of them
   search |-> FALSE,    \* _search_for_next_event
   info |-> NoInfo,     \* _header_info
   nwords |-> 0, sum |-> 0,  \* _nwords and _checksum, counted
   ch |-> NoChannel,    \* _ch_data
   chcount |-> 0,       \* _channel_header_count of the PMT decoders
   chlast |-> 0,        \* _last_channel_number, or _channel_number_holder
   reading |-> FALSE,   \* _process is READ_CHANNEL
   allow |-> FALSE,     \* _ch_last_word_allow
   attached |-> FALSE,  \* _event_data points to the storage manager's product
   number |-> Garbled,  \* event number in the product, which no clear resets
   data |-> <<>>,       \* the channels in the product
   file |-> <<>>,       \* the events that next_event() wrote
   beyond |-> 0,        \* what lies in front of the product's channels
   status |-> "ok"]     \* what the last call did: "ok", "fail", "throw", "crash"

Fails(d) == [d EXCEPT !.status = "fail"]
Crashes(d) == [d EXCEPT !.status = "crash"]

ClearHeader(d) == [d EXCEPT !.count = 0, !.info = NoInfo]

\* next_event() of the storage manager; the product is cleared.
NextEvent(d) ==
  [d EXCEPT !.file = Append(@, [number |-> d.number, data |-> d.data]), !.data = <<>>]

\* The sum of the halves stands for the checksum: halves of different kinds and
\* numbers differ in value, and an event is far from 2^24.
Value(half) ==
  CASE half[1] = "CH" -> 400 + half[2]
    [] half[1] = "CL" -> 500 + half[2]
    [] half[1] = "CT" -> 600 + half[2]
    [] half[1] = "CP" -> 700 + half[2]
    [] half[1] = "Z" -> 800 + FoldSeq(+, 0, half[2])
    [] half[1] = "W" -> half[2]
    [] half[1] = "FF" -> 300
    [] OTHER -> 0

-------------------------------------------------------------------------------
(* Module headers *)

FieldOf(header, k, field) ==
  IF header[k][3] = k THEN Module[header[k][2]][field] ELSE Garbled

\* decode_fem_header(): roll_over() throws before the counts are reset.
DecodeFemHeader(d) ==
  LET decoded == [d EXCEPT !.info =
        [module |-> IF d.header[1][3] = 1 THEN d.header[1][2] ELSE Garbled,
         number |-> FieldOf(d.header, 3, "number"),
         nwords |-> FieldOf(d.header, 2, "nwords"),
         checksum |-> FieldOf(d.header, 5, "checksum")]]
  IN IF FieldOf(d.header, 6, "ambiguous") = 1
     THEN [decoded EXCEPT !.status = "throw"]
     ELSE [decoded EXCEPT !.nwords = 0, !.sum = 0]

\* process_fem_header(): the test of the last word looks at this one instead, and
\* a header is accepted after anything.  A throw skips the lines that follow.
ProcessFemHeader(d, word) ==
  IF word[3][1] # "F" \/ d.count >= HeaderCount
  THEN [Fails(d) EXCEPT !.last = "F"]
  ELSE LET taken == [d EXCEPT !.header = Append(SubSeq(@, 1, d.count), word[2]),
                              !.count = @ + 1]
           decoded == DecodeFemHeader(taken)
       IN CASE taken.count < HeaderCount -> [taken EXCEPT !.last = "F"]
            [] decoded.status = "throw" -> decoded
            [] OTHER -> [decoded EXCEPT !.count = 0, !.last = "F"]

===============================================================================
