------------------------- MODULE DecoderManager_proofs -------------------------
(***************************************************************************)
(* What holds of the decoder manager for files of any length and any words *)
(* in them: it reads every word once and in order, it crashes only where   *)
(* it is known to, and it stores no more than one event above its limit.   *)
(*                                                                         *)
(* A step is a call of a decoder and a read.  Each of the six decoders     *)
(* comes first, for one word; then the handler, and the manager.           *)
(***************************************************************************)
EXTENDS DecoderManager, SequenceTheorems, TLAPS

(***************************************************************************)
(* The TPC decoder                                                         *)
(***************************************************************************)

DecoderFields ==
  {"last", "count", "header", "search", "info", "nwords", "sum", "ch", "chcount", "chlast",
   "reading", "allow", "attached", "number", "data", "file", "beyond", "status"}
InfoFields == {"module", "number", "nwords", "checksum"}
IsDecoder(x) == DOMAIN x = DecoderFields /\ DOMAIN x.info = InfoFields

\* What a call does to the file.
Keeps(x, y) == IsDecoder(y) /\ y.file = x.file /\ (x.attached => y.attached)
OneMore(before, after) == \E e : after = Append(before, e)
Stores(x, y) ==
  y.file = x.file \/ (OneMore(x.file, y.file) /\ y.info.number = NoNumber)
\* nor does it crash
Safe(x, y) == x.attached /\ x.status # "crash" => y.attached /\ y.status # "crash"

LEMMA TpcClears ==
  ASSUME NEW x, IsDecoder(x)
  PROVE  Keeps(x, Tpc!ClearEvent(x)) /\ Safe(x, Tpc!ClearEvent(x))
         /\ (x.attached => Tpc!ClearEvent(x).info.number = NoNumber)
BY DEF Keeps, Safe, IsDecoder, DecoderFields, InfoFields, Tpc!ClearEvent, Tpc!ClearHeader, Tpc!NoInfo, Tpc!Crashes, NoNumber, Tpc!NoNumber

LEMMA TpcFails ==
  ASSUME NEW x, IsDecoder(x)
  PROVE  Keeps(x, Tpc!Fails(x)) /\ Safe(x, Tpc!Fails(x)) /\ Tpc!Fails(x).status = "fail"
BY DEF Keeps, Safe, IsDecoder, DecoderFields, Tpc!Fails

LEMMA TpcTook ==
  ASSUME NEW x, IsDecoder(x), NEW half
  PROVE  Keeps(x, Tpc!Took(x, half)) /\ Safe(x, Tpc!Took(x, half)) /\ Tpc!Took(x, half).info = x.info
BY DEF Keeps, Safe, IsDecoder, DecoderFields, Tpc!Took, Tpc!Crashes

LEMMA TpcChWord ==
  ASSUME NEW x, IsDecoder(x), NEW half
  PROVE  Keeps(x, Tpc!ProcessChWord(x, half)) /\ Safe(x, Tpc!ProcessChWord(x, half))
BY TpcTook, TpcFails, TpcClears DEF Keeps, Safe, IsDecoder, DecoderFields, Tpc!ProcessChWord

LEMMA TpcPair ==
  ASSUME NEW x, IsDecoder(x), NEW word
  PROVE  Keeps(x, Tpc!ProcessPair(x, word)) /\ Safe(x, Tpc!ProcessPair(x, word))
<1> DEFINE y == Tpc!ProcessChWord(x, word[2])
<1>1. Keeps(x, y) /\ Safe(x, y) BY TpcChWord
<1>2. IsDecoder(y) BY <1>1 DEF Keeps
<1>3. Keeps(y, Tpc!ProcessChWord(y, word[3])) /\ Safe(y, Tpc!ProcessChWord(y, word[3])) BY <1>2, TpcChWord
<1>4. Keeps(y, Tpc!Fails(y)) /\ Safe(y, Tpc!Fails(y)) BY <1>2, TpcFails
<1>5. Keeps(y, Tpc!ProcessFemLastWord(y)) /\ Safe(y, Tpc!ProcessFemLastWord(y))
  BY <1>2, <1>4 DEF Tpc!ProcessFemLastWord, Keeps, Safe, IsDecoder, DecoderFields
<1> HIDE DEF y
<1>6. Keeps(y, Tpc!SecondHalf(y, word[3])) /\ Safe(y, Tpc!SecondHalf(y, word[3]))
  BY <1>2, <1>3, <1>4, <1>5 DEF Tpc!SecondHalf, Keeps, Safe
<1>. QED BY <1>1, <1>6 DEF Keeps, Safe, Tpc!ProcessPair, y

LEMMA TpcFemHeader ==
  ASSUME NEW x, IsDecoder(x), NEW word
  PROVE  Keeps(x, Tpc!ProcessFemHeader(x, word)) /\ Safe(x, Tpc!ProcessFemHeader(x, word))
<1> DEFINE t == [x EXCEPT !.header = Append(SubSeq(@, 1, x.count), word[2]), !.count = @ + 1]
           y == Tpc!DecodeFemHeader(t)
<1>1. Keeps(x, t) /\ Safe(x, t) BY DEF Keeps, Safe, IsDecoder, DecoderFields
<1> HIDE DEF t
<1>2. Keeps(t, y) /\ Safe(t, y)
  BY <1>1 DEF Keeps, Safe, IsDecoder, DecoderFields, InfoFields, Tpc!DecodeFemHeader
<1>3. Keeps(x, y) /\ Safe(x, y) BY <1>1, <1>2 DEF Keeps, Safe
<1> HIDE DEF y
<1>4. CASE word[3][1] # "F" \/ x.count >= HeaderCount
  BY <1>4, TpcFails DEF Tpc!ProcessFemHeader, Keeps, Safe, IsDecoder, DecoderFields
<1>5. CASE ~(word[3][1] # "F" \/ x.count >= HeaderCount)
  <2>1. Tpc!ProcessFemHeader(x, word) =
          CASE t.count < HeaderCount -> [t EXCEPT !.last = "F"]
            [] y.status = "throw" -> y
            [] OTHER -> [y EXCEPT !.count = 0, !.last = "F"]
    BY <1>5 DEF Tpc!ProcessFemHeader, t, y
  <2>. QED BY <2>1, <1>1, <1>3 DEF Keeps, Safe, IsDecoder, DecoderFields
<1>. QED BY <1>4, <1>5

LEMMA TpcEventHeader ==
  ASSUME NEW x, IsDecoder(x)
  PROVE  LET y == Tpc!ProcessEventHeader(x)
         IN IsDecoder(y) /\ Stores(x, y) /\ y.attached /\ (x.status # "crash" => y.status # "crash")
<1> DEFINE a == [x EXCEPT !.attached = TRUE]
           s == Tpc!NextEvent([a EXCEPT !.number = a.info.number])
<1>1. IsDecoder(a) /\ a.attached /\ a.file = x.file /\ a.status = x.status /\ a.last = x.last
  BY DEF IsDecoder, DecoderFields
<1> HIDE DEF a
<1>2. IsDecoder(s) /\ s.attached /\ s.status = x.status /\ \E e : s.file = Append(x.file, e)
  BY <1>1 DEF IsDecoder, DecoderFields, Tpc!NextEvent
<1> HIDE DEF s
<1>3. Keeps(s, Tpc!ClearEvent(s)) /\ Safe(s, Tpc!ClearEvent(s)) /\ Tpc!ClearEvent(s).info.number = NoNumber
  BY <1>2, TpcClears
<1>4. Keeps(a, Tpc!Fails(a)) /\ Safe(a, Tpc!Fails(a)) BY <1>1, TpcFails
<1>5. Keeps(Tpc!Fails(a), Tpc!ClearEvent(Tpc!Fails(a))) /\ Safe(Tpc!Fails(a), Tpc!ClearEvent(Tpc!Fails(a)))
  BY <1>4, TpcClears DEF Keeps
<1> DEFINE c == Tpc!StoreEvent(a)
<1>6. IsDecoder(c) /\ Stores(x, c) /\ c.attached /\ (x.status # "crash" => c.status # "crash")
  BY <1>1, <1>2, <1>3, <1>4, <1>5 DEF Keeps, Safe, Stores, OneMore, Tpc!StoreEvent, s
<1> HIDE DEF c
<1> DEFINE f == Tpc!Fails(a)
<1>7. IsDecoder(f) /\ Stores(x, f) /\ f.attached /\ (x.status # "crash" => f.status # "crash")
  BY <1>1, <1>4 DEF Keeps, Safe, Stores, OneMore
<1> HIDE DEF f
<1> DEFINE y == CASE a.last = "EL" -> c [] a.last = "EH" -> a [] OTHER -> f
<1>8. IsDecoder(y) /\ Stores(x, y) /\ y.attached /\ (x.status # "crash" => y.status # "crash")
  BY <1>1, <1>6, <1>7 DEF Stores, OneMore
<1>9. Tpc!ProcessEventHeader(x) = [y EXCEPT !.last = "EH"] BY DEF Tpc!ProcessEventHeader, a, c, f
<1> HIDE DEF y
<1>. QED BY <1>8, <1>9 DEF IsDecoder, DecoderFields, Stores, OneMore

LEMMA TpcWord ==
  ASSUME NEW x, IsDecoder(x), NEW word, NEW debug
  PROVE  LET y == Tpc!ProcessWord(x, word, debug)
         IN /\ IsDecoder(y) /\ Stores(x, y)
            /\ x.attached \/ (word = <<"EH">> /\ ~x.search) => y.attached /\ y.status # "crash"
<1> DEFINE d == [x EXCEPT !.status = "ok", !.search = Tpc!StillSearching(x, word)]
           z == Tpc!Dispatch(d, word)
<1>1. IsDecoder(d) /\ d.file = x.file /\ d.attached = x.attached /\ d.status = "ok"
  BY DEF IsDecoder, DecoderFields
<1>2. word = <<"EH">> /\ ~x.search => ~d.search
  BY DEF Tpc!StillSearching, IsDecoder, DecoderFields
<1> HIDE DEF d
<1>3. /\ IsDecoder(z) /\ Stores(x, z)
      /\ x.attached \/ word = <<"EH">> => z.attached /\ z.status # "crash"
  <2>1. CASE Tpc!ClassOf(word) = "EH"
    BY <2>1, <1>1, TpcEventHeader DEF Tpc!Dispatch, Stores, OneMore
  <2>2. CASE Tpc!ClassOf(word) = "EL"
    BY <2>2, <1>1 DEF Tpc!Dispatch, Stores, OneMore, Tpc!ProcessEventLastWord, Tpc!ClassOf, IsDecoder, DecoderFields
  <2>3. CASE Tpc!ClassOf(word) = "F"
    BY <2>3, <1>1, TpcFemHeader DEF Tpc!Dispatch, Stores, OneMore, Keeps, Safe, Tpc!ClassOf
  <2>4. CASE Tpc!ClassOf(word) = "U"
    BY <2>4, <1>1, TpcFails DEF Tpc!Dispatch, Stores, OneMore, Keeps, Safe, Tpc!ClassOf
  <2>5. CASE Tpc!ClassOf(word) \notin {"EH", "EL", "F", "U"}
    BY <2>5, <1>1, TpcPair DEF Tpc!Dispatch, Stores, OneMore, Keeps, Safe, Tpc!ClassOf
  <2>. QED BY <2>1, <2>2, <2>3, <2>4, <2>5
<1> HIDE DEF z
<1> DEFINE r == [z EXCEPT !.search = TRUE]
<1>4. IsDecoder(r) /\ r.file = z.file /\ r.attached = z.attached /\ r.status = z.status /\ r.info = z.info
  BY <1>3 DEF IsDecoder, DecoderFields
<1> HIDE DEF r
<1>5. Keeps(r, Tpc!ClearEvent(r)) /\ Safe(r, Tpc!ClearEvent(r))
      /\ (r.attached => Tpc!ClearEvent(r).info.number = NoNumber)
  BY <1>4, TpcClears
<1>6. \/ Tpc!ClearEvent(r).info.number = NoNumber
      \/ Tpc!ClearEvent(r).info = z.info
  BY <1>4, <1>5 DEF Tpc!ClearEvent, Tpc!Crashes, IsDecoder, DecoderFields
<1>7. /\ IsDecoder(Tpc!Recovered(z, debug)) /\ Stores(x, Tpc!Recovered(z, debug))
      /\ x.attached \/ word = <<"EH">> =>
           Tpc!Recovered(z, debug).attached /\ Tpc!Recovered(z, debug).status # "crash"
  BY <1>3, <1>4, <1>5, <1>6 DEF Tpc!Recovered, Tpc!Recover, Keeps, Safe, Stores, OneMore, r
<1>8. CASE d.search
  BY <1>8, <1>1, <1>2 DEF Tpc!ProcessWord, d, IsDecoder, DecoderFields, Stores, OneMore
<1>9. CASE ~d.search
  BY <1>9, <1>7 DEF Tpc!ProcessWord, d, z
<1>. QED BY <1>8, <1>9

(***************************************************************************)
(* The PMT decoder                                                         *)
(***************************************************************************)

LEMMA PmtClears ==
  ASSUME NEW x, IsDecoder(x)
  PROVE  Keeps(x, Pmt!ClearEvent(x)) /\ Safe(x, Pmt!ClearEvent(x))
         /\ Pmt!ClearEvent(x).info.number = NoNumber
BY DEF Keeps, Safe, IsDecoder, DecoderFields, InfoFields, Pmt!ClearEvent, Pmt!ClearHeader, Pmt!NoInfo, NoNumber, Pmt!NoNumber

LEMMA PmtFails ==
  ASSUME NEW x, IsDecoder(x)
  PROVE  Keeps(x, Pmt!Fails(x)) /\ Safe(x, Pmt!Fails(x)) /\ Pmt!Fails(x).status = "fail"
BY DEF Keeps, Safe, IsDecoder, DecoderFields, Pmt!Fails

LEMMA PmtChannelWord ==
  ASSUME NEW x, IsDecoder(x), NEW half
  PROVE  Keeps(x, Pmt!ChannelWord(x, half)) /\ Safe(x, Pmt!ChannelWord(x, half))
<1> DEFINE c == Pmt!Continued(x)
           t == Pmt!HeaderOrSample(c, half)
           s == Pmt!StoreChData(t)
<1>1. Keeps(x, c) /\ Safe(x, c) BY DEF Keeps, Safe, IsDecoder, DecoderFields, Pmt!Continued
<1> HIDE DEF c
<1>2. Keeps(x, t) /\ Safe(x, t)
  BY <1>1, PmtFails DEF Keeps, Safe, IsDecoder, DecoderFields, Pmt!HeaderOrSample
<1> HIDE DEF t
<1>3. Keeps(x, s) /\ Safe(x, s)
  BY <1>2 DEF Keeps, Safe, IsDecoder, DecoderFields, Pmt!StoreChData, Pmt!Crashes
<1> HIDE DEF s
<1> DEFINE w == [x EXCEPT !.status = "throw"]
<1>4. Keeps(x, w) /\ Safe(x, w) BY DEF Keeps, Safe, IsDecoder, DecoderFields
<1> HIDE DEF w
<1>5. Keeps(x, x) /\ Safe(x, x) BY DEF Keeps, Safe
<1>. QED BY <1>2, <1>3, <1>4, <1>5, PmtFails DEF Pmt!ChannelWord, c, t, s, w

LEMMA PmtChWord ==
  ASSUME NEW x, IsDecoder(x), NEW half
  PROVE  Keeps(x, Pmt!ProcessChWord(x, half)) /\ Safe(x, Pmt!ProcessChWord(x, half))
<1> DEFINE h == Pmt!ChannelHeader(x, half)
           y == Pmt!DecodeChWord(x, half)
<1>1. Keeps(x, h) /\ Safe(x, h)
  BY PmtFails DEF Keeps, Safe, IsDecoder, DecoderFields, Pmt!ChannelHeader, Pmt!Crashes
<1> HIDE DEF h
<1>2. Keeps(x, x) /\ Safe(x, x) BY DEF Keeps, Safe
<1>3. Keeps(x, y) /\ Safe(x, y)
  BY <1>1, <1>2, PmtFails, PmtChannelWord DEF Pmt!DecodeChWord, h
<1> HIDE DEF y
<1>4. Keeps(x, Pmt!Counted(y, half)) /\ Safe(x, Pmt!Counted(y, half))
  BY <1>3 DEF Keeps, Safe, IsDecoder, DecoderFields, Pmt!Counted
<1>. QED BY <1>4 DEF Pmt!ProcessChWord, y

\* It crashes where a channel is looked for and there is none.
NoChannelToSee(x) == x.last = "PAD" /\ x.data = <<>>
PmtSafe(x, y) ==
  x.attached /\ x.status # "crash" => y.attached /\ (y.status = "crash" => NoChannelToSee(y))

LEMMA PmtFemLastWord ==
  ASSUME NEW x, IsDecoder(x)
  PROVE  LET y == Pmt!ProcessFemLastWord(x) IN IsDecoder(y) /\ Stores(x, y) /\ PmtSafe(x, y)
<1> DEFINE c == [x EXCEPT !.nwords = @ + 1]
           n == Pmt!NextEvent([c EXCEPT !.number = c.info.number])
           s == Pmt!StoreEvent(c)
           f == Pmt!Fails(c)
<1>1. Keeps(x, c) /\ Safe(x, c) /\ c.attached = x.attached /\ c.status = x.status
  BY DEF Keeps, Safe, IsDecoder, DecoderFields
<1> HIDE DEF c
<1>2. IsDecoder(n) /\ n.attached = c.attached /\ n.status = c.status /\ \E e : n.file = Append(c.file, e)
  BY <1>1 DEF Keeps, IsDecoder, DecoderFields, Pmt!NextEvent
<1> HIDE DEF n
<1>3. Keeps(n, Pmt!ClearEvent(n)) /\ Safe(n, Pmt!ClearEvent(n)) /\ Pmt!ClearEvent(n).info.number = NoNumber
  BY <1>2, PmtClears
<1>4. Keeps(c, f) /\ Safe(c, f) BY <1>1, PmtFails DEF Keeps
<1>5. Keeps(f, Pmt!ClearEvent(f)) /\ Safe(f, Pmt!ClearEvent(f)) BY <1>4, PmtClears DEF Keeps
<1> HIDE DEF f
<1>6. IsDecoder(Pmt!Crashes(c)) /\ Pmt!Crashes(c).file = c.file
  BY <1>1 DEF Keeps, IsDecoder, DecoderFields, Pmt!Crashes
<1>7. IsDecoder(s) /\ Stores(x, s) /\ Safe(x, s)
  BY <1>1, <1>2, <1>3, <1>4, <1>5, <1>6 DEF Keeps, Safe, Stores, OneMore, Pmt!StoreEvent, n, f
<1> HIDE DEF s
<1>8. IsDecoder(f) /\ Stores(x, f) /\ Safe(x, f) BY <1>1, <1>4 DEF Keeps, Safe, Stores, OneMore
<1>9. \/ Pmt!ProcessFemLastWord(x) = Pmt!Crashes(x) /\ x.last = "PAD" /\ Pmt!ReadsWild(x)
      \/ Pmt!ProcessFemLastWord(x) = [s EXCEPT !.last = "FL"]
      \/ Pmt!ProcessFemLastWord(x) = [f EXCEPT !.last = "FL"]
  BY DEF Pmt!ProcessFemLastWord, s, f, c
<1>10. CASE Pmt!ProcessFemLastWord(x) = Pmt!Crashes(x) /\ x.last = "PAD" /\ Pmt!ReadsWild(x)
  BY <1>10 DEF IsDecoder, DecoderFields, Pmt!Crashes, Pmt!ReadsWild, Stores, OneMore, PmtSafe, NoChannelToSee
<1>11. CASE Pmt!ProcessFemLastWord(x) = [s EXCEPT !.last = "FL"]
  BY <1>11, <1>7 DEF IsDecoder, DecoderFields, Stores, OneMore, Safe, PmtSafe
<1>12. CASE Pmt!ProcessFemLastWord(x) = [f EXCEPT !.last = "FL"]
  BY <1>12, <1>8 DEF IsDecoder, DecoderFields, Stores, OneMore, Safe, PmtSafe
<1>. QED BY <1>9, <1>10, <1>11, <1>12

LEMMA PmtPair ==
  ASSUME NEW x, IsDecoder(x), NEW word
  PROVE  LET y == Pmt!ProcessPair(x, word) IN IsDecoder(y) /\ Stores(x, y) /\ PmtSafe(x, y)
<1> DEFINE y == Pmt!ProcessChWord(x, word[2])
           z == Pmt!SecondHalf(y, word[3])
<1>1. Keeps(x, y) /\ Safe(x, y) BY PmtChWord
<1>2. IsDecoder(y) BY <1>1 DEF Keeps
<1>3. Keeps(y, Pmt!ProcessChWord(y, word[3])) /\ Safe(y, Pmt!ProcessChWord(y, word[3])) BY <1>2, PmtChWord
<1>4. Keeps(y, Pmt!Fails(y)) /\ Safe(y, Pmt!Fails(y)) BY <1>2, PmtFails
<1> DEFINE l == Pmt!ProcessFemLastWord(y)
<1>5. IsDecoder(l) /\ Stores(y, l) /\ PmtSafe(y, l) BY <1>2, PmtFemLastWord
<1> HIDE DEF y, l
<1>6. IsDecoder(z) /\ Stores(y, z) /\ PmtSafe(y, z)
  BY <1>2, <1>3, <1>4, <1>5 DEF Pmt!SecondHalf, Keeps, Safe, Stores, OneMore, PmtSafe, l
<1> HIDE DEF z
<1>7. Stores(x, z) /\ PmtSafe(x, z) BY <1>1, <1>6 DEF Keeps, Safe, Stores, OneMore, PmtSafe
<1>. QED BY <1>6, <1>7 DEF Pmt!ProcessPair, y, z

LEMMA PmtFemHeader ==
  ASSUME NEW x, IsDecoder(x), NEW word
  PROVE  Keeps(x, Pmt!ProcessFemHeader(x, word)) /\ Safe(x, Pmt!ProcessFemHeader(x, word))
<1> DEFINE t == [x EXCEPT !.header = Append(SubSeq(@, 1, x.count), word[2]), !.count = @ + 1]
           y == Pmt!DecodeFemHeader(t)
<1>1. Keeps(x, t) /\ Safe(x, t) BY DEF Keeps, Safe, IsDecoder, DecoderFields
<1> HIDE DEF t
<1>2. Keeps(t, y) /\ Safe(t, y)
  BY <1>1 DEF Keeps, Safe, IsDecoder, DecoderFields, InfoFields, Pmt!DecodeFemHeader
<1>3. Keeps(x, y) /\ Safe(x, y) BY <1>1, <1>2 DEF Keeps, Safe
<1> HIDE DEF y
<1>4. CASE word[3][1] # "F" \/ x.count >= HeaderCount
  BY <1>4, PmtFails DEF Pmt!ProcessFemHeader, Keeps, Safe, IsDecoder, DecoderFields
<1>5. CASE ~(word[3][1] # "F" \/ x.count >= HeaderCount)
  <2>1. Pmt!ProcessFemHeader(x, word) =
          CASE t.count < HeaderCount -> [t EXCEPT !.last = "F"]
            [] y.status = "throw" -> y
            [] OTHER -> [y EXCEPT !.count = 0, !.last = "F"]
    BY <1>5 DEF Pmt!ProcessFemHeader, t, y
  <2>. QED BY <2>1, <1>1, <1>3 DEF Keeps, Safe, IsDecoder, DecoderFields
<1>. QED BY <1>4, <1>5

LEMMA PmtWord ==
  ASSUME NEW x, IsDecoder(x), NEW word, NEW debug
  PROVE  LET y == Pmt!ProcessWord(x, word, debug)
         IN /\ IsDecoder(y) /\ Stores(x, y)
            /\ x.attached \/ (word = <<"EH">> /\ ~x.search) =>
                 y.attached /\ (y.status = "crash" => NoChannelToSee(y))
<1> DEFINE d == [x EXCEPT !.status = "ok", !.search = Pmt!StillSearching(x, word)]
           z == Pmt!Dispatch(d, word)
<1>1. IsDecoder(d) /\ d.file = x.file /\ d.attached = x.attached /\ d.status = "ok"
  BY DEF IsDecoder, DecoderFields
<1>2. word = <<"EH">> /\ ~x.search => ~d.search
  BY DEF Pmt!StillSearching, IsDecoder, DecoderFields
<1> HIDE DEF d
<1>3. /\ IsDecoder(z) /\ Stores(x, z)
      /\ x.attached \/ word = <<"EH">> => z.attached /\ (z.status = "crash" => NoChannelToSee(z))
  <2>1. CASE Pmt!ClassOf(word) = "EH"
    BY <2>1, <1>1, PmtFails DEF Pmt!Dispatch, Stores, OneMore, Keeps, Safe, Pmt!ProcessEventHeader, IsDecoder, DecoderFields
  <2>2. CASE Pmt!ClassOf(word) = "EL"
    BY <2>2, <1>1, PmtFails DEF Pmt!Dispatch, Stores, OneMore, Keeps, Safe, Pmt!ProcessEventLastWord, Pmt!ClassOf, IsDecoder, DecoderFields
  <2>3. CASE Pmt!ClassOf(word) = "F"
    BY <2>3, <1>1, PmtFemHeader DEF Pmt!Dispatch, Stores, OneMore, Keeps, Safe, Pmt!ClassOf
  <2>4. CASE Pmt!ClassOf(word) = "U"
    BY <2>4, <1>1, PmtFails DEF Pmt!Dispatch, Stores, OneMore, Keeps, Safe, Pmt!ClassOf
  <2>5. CASE Pmt!ClassOf(word) \notin {"EH", "EL", "F", "U"}
    <3>1. z = Pmt!ProcessPair(d, word) BY <2>5 DEF Pmt!Dispatch
    <3>2. IsDecoder(z) /\ Stores(d, z) /\ PmtSafe(d, z) BY <3>1, <1>1, PmtPair
    <3>3. word # <<"EH">> BY <2>5 DEF Pmt!ClassOf
    <3>. QED BY <3>2, <3>3, <1>1 DEF Stores, OneMore, PmtSafe
  <2>. QED BY <2>1, <2>2, <2>3, <2>4, <2>5
<1> HIDE DEF z
<1> DEFINE r == [z EXCEPT !.search = TRUE]
<1>4. IsDecoder(r) /\ r.file = z.file /\ r.attached = z.attached /\ r.status = z.status
  BY <1>3 DEF IsDecoder, DecoderFields
<1> HIDE DEF r
<1>5. Keeps(r, Pmt!ClearEvent(r)) /\ Safe(r, Pmt!ClearEvent(r))
      /\ Pmt!ClearEvent(r).info.number = NoNumber
  BY <1>4, PmtClears
<1>7. /\ IsDecoder(Pmt!Recovered(z, debug)) /\ Stores(x, Pmt!Recovered(z, debug))
      /\ x.attached \/ word = <<"EH">> =>
           Pmt!Recovered(z, debug).attached
           /\ (Pmt!Recovered(z, debug).status = "crash" => NoChannelToSee(Pmt!Recovered(z, debug)))
  BY <1>3, <1>4, <1>5 DEF Pmt!Recovered, Pmt!Recover, Keeps, Safe, Stores, OneMore, r
<1>8. CASE d.search
  BY <1>8, <1>1, <1>2 DEF Pmt!ProcessWord, d, IsDecoder, DecoderFields, Stores, OneMore
<1>9. CASE ~d.search
  BY <1>9, <1>7 DEF Pmt!ProcessWord, d, z
<1>. QED BY <1>8, <1>9

(***************************************************************************)
(* Triggers and the older PMT readout                                      *)
(***************************************************************************)

Adds(x, y) == y.file = x.file \/ OneMore(x.file, y.file)

LEMMA TrigWord ==
  ASSUME NEW x, IsDecoder(x), NEW word, NEW debug
  PROVE  LET y == Trig!ProcessWord(x, word, debug)
         IN /\ IsDecoder(y) /\ Adds(x, y) /\ y.info = x.info /\ y.status # "crash"
<1> DEFINE d == [x EXCEPT !.status = "ok", !.attached = TRUE, !.header = Append(@, word)]
           t == Trig!DecodeTriggerWords(d)
           n == Trig!NextEvent(t)
           s == Trig!Store(d)
           f == Trig!Fails(d)
<1>1. IsDecoder(d) /\ d.file = x.file /\ d.info = x.info /\ d.status = "ok"
  BY DEF IsDecoder, DecoderFields
<1> HIDE DEF d
<1>2. IsDecoder(t) /\ t.file = x.file /\ t.info = x.info /\ t.status = "ok"
  BY <1>1 DEF IsDecoder, DecoderFields, Trig!DecodeTriggerWords
<1> HIDE DEF t
<1>3. IsDecoder(n) /\ (\E e : n.file = Append(x.file, e)) /\ n.info = x.info /\ n.status = "ok"
  BY <1>2 DEF IsDecoder, DecoderFields, Trig!NextEvent
<1> HIDE DEF n
<1>4. IsDecoder(s) /\ (\E e : s.file = Append(x.file, e)) /\ s.info = x.info /\ s.status = "ok"
  BY <1>3 DEF IsDecoder, DecoderFields, Trig!Store, n, t
<1> HIDE DEF s
<1>5. IsDecoder(f) /\ f.file = x.file /\ f.info = x.info /\ f.status = "fail"
  BY <1>1 DEF IsDecoder, DecoderFields, Trig!Fails
<1> HIDE DEF f
<1> DEFINE g == [f EXCEPT !.header = IF debug THEN Tail(@) ELSE @]
<1>6. IsDecoder(g) /\ g.file = x.file /\ g.info = x.info /\ g.status = "fail"
  BY <1>5 DEF IsDecoder, DecoderFields
<1> HIDE DEF g
<1>7. \/ Trig!ProcessWord(x, word, debug) = d
      \/ Trig!ProcessWord(x, word, debug) = s
      \/ Trig!ProcessWord(x, word, debug) = g
  BY DEF Trig!ProcessWord, d, s, f, g
<1>. QED BY <1>1, <1>4, <1>6, <1>7 DEF Adds, OneMore

NoChannelAtAll(x) == x.data = <<>>
SlowKeeps(x, y) ==
  /\ IsDecoder(y) /\ y.file = x.file /\ y.info.number = x.info.number
  /\ x.attached => y.attached
  /\ x.attached /\ x.status # "crash" => y.status # "crash" \/ NoChannelAtAll(y)

LEMMA SlowChannel ==
  ASSUME NEW x, IsDecoder(x), NEW half
  PROVE  SlowKeeps(x, Slow!DecodeChWord(x, half))
<1> DEFINE c == Slow!Continued(x)
           t == Slow!HeaderOrSample(c, half)
           s == Slow!StoreChData(t)
           f == Slow!Fails(x)
           h == Slow!ChannelHeader(x, half)
           w == Slow!ChannelWord(x, half)
           r == Slow!Crashes(x)
<1>0. SlowKeeps(x, x) BY DEF SlowKeeps
<1>1. SlowKeeps(x, c) /\ c.status = x.status
  BY DEF SlowKeeps, IsDecoder, DecoderFields, Slow!Continued, Slow!InitChInfo
<1> HIDE DEF c
<1>2. SlowKeeps(x, t) /\ t.status = x.status
  BY <1>1 DEF SlowKeeps, IsDecoder, DecoderFields, Slow!HeaderOrSample
<1> HIDE DEF t
<1>3. SlowKeeps(x, s)
  BY <1>2 DEF SlowKeeps, IsDecoder, DecoderFields, Slow!StoreChData, Slow!InitChInfo
<1> HIDE DEF s
<1>4. SlowKeeps(x, f) BY DEF SlowKeeps, IsDecoder, DecoderFields, Slow!Fails
<1> HIDE DEF f
<1>5. Slow!Pmt!ReadsWild(x) => SlowKeeps(x, r)
  BY DEF SlowKeeps, IsDecoder, DecoderFields, Slow!Crashes, Slow!Pmt!ReadsWild, NoChannelAtAll
<1> HIDE DEF r
<1> DEFINE i == Slow!InitChInfo(x)
           j == [i EXCEPT !.ch.n = half[2]]
<1>6. SlowKeeps(x, j)
  BY DEF SlowKeeps, IsDecoder, DecoderFields, Slow!InitChInfo
<1> HIDE DEF j
<1>7. SlowKeeps(x, h)
  BY <1>4, <1>5, <1>6 DEF Slow!ChannelHeader, r, f, j
<1> HIDE DEF h
<1>8. SlowKeeps(x, w)
  BY <1>0, <1>2, <1>3, <1>4, <1>5 DEF Slow!ChannelWord, r, f, s, t, c
<1> HIDE DEF w
<1>. QED BY <1>0, <1>4, <1>7, <1>8 DEF Slow!DecodeChWord, f, h, w

\* A word in a module's data, of which at most the last stores the event.
SlowStores(x, y) ==
  /\ IsDecoder(y) /\ y.info.number = x.info.number
  /\ x.attached => y.attached
  /\ x.attached /\ x.status # "crash" => y.status # "crash" \/ NoChannelAtAll(y)
  /\ y.file = x.file \/ ((\E e : y.file = Append(x.file, e)) /\ ~y.reading)

LEMMA SlowChWord ==
  ASSUME NEW x, IsDecoder(x), NEW half, NEW debug
  PROVE  SlowStores(x, Slow!ProcessChWord(x, half, debug))
<1> DEFINE d == Slow!DecodeChWord(x, half)
           n == Slow!NextEvent(d)
           a == Slow!InitEventInfo(n)
           b == Slow!InitEventInfo(d)
           c == Slow!Fails(b)
           p == Slow!Counted(d, half, debug)
<1>1. SlowKeeps(x, d) BY SlowChannel
<1> HIDE DEF d
<1>2. CASE d.status # "ok"
  <2>1. p = d BY <1>2 DEF Slow!Counted
  <2>. QED BY <2>1, <1>1 DEF Slow!ProcessChWord, SlowKeeps, SlowStores, IsDecoder, DecoderFields, d, NoChannelAtAll
<1>3. CASE d.status = "ok"
  <2>1. /\ IsDecoder(n) /\ (\E z : n.file = Append(d.file, z)) /\ n.info = d.info
        /\ n.attached = d.attached /\ n.status = "ok"
    BY <1>1, <1>3 DEF SlowKeeps, IsDecoder, DecoderFields, Slow!NextEvent
  <2> HIDE DEF n
  <2>2. /\ IsDecoder(a) /\ a.file = n.file /\ a.info = n.info /\ ~a.reading
        /\ a.attached = d.attached /\ a.status = "ok"
    BY <2>1 DEF IsDecoder, DecoderFields, Slow!InitEventInfo
  <2>3. /\ IsDecoder(b) /\ b.file = d.file /\ b.info = d.info
        /\ b.attached = d.attached /\ b.status = "ok"
    BY <1>1, <1>3 DEF SlowKeeps, IsDecoder, DecoderFields, Slow!InitEventInfo
  <2> HIDE DEF a, b
  <2>4. IsDecoder(c) /\ c.file = d.file /\ c.info = d.info
        /\ c.attached = d.attached /\ c.status = "fail"
    BY <2>3 DEF IsDecoder, DecoderFields, Slow!Fails
  <2> HIDE DEF c
  <2>6. p = a \/ p = b \/ p = c \/ p = [d EXCEPT !.nwords = @ - 1, !.sum = @ - Slow!Value(half)]
    BY <1>3 DEF Slow!Counted, Slow!EndOfEvent, a, b, c, n
  <2>7. CASE p = a \/ p = b \/ p = c
    <3>1. SlowStores(x, p) /\ p.status # "crash"
      BY <2>7, <2>1, <2>2, <2>3, <2>4, <1>1 DEF SlowStores, SlowKeeps
    <3>2. SlowStores(x, [p EXCEPT !.last = Slow!Pmt!Class(half)])
      BY <3>1 DEF SlowStores, IsDecoder, DecoderFields
    <3>. QED BY <3>2 DEF Slow!ProcessChWord, d, p, SlowStores
  <2>8. CASE p = [d EXCEPT !.nwords = @ - 1, !.sum = @ - Slow!Value(half)]
    <3>1. SlowStores(x, p) /\ p.status # "crash"
      BY <2>8, <1>3, <1>1 DEF SlowStores, SlowKeeps, IsDecoder, DecoderFields
    <3>2. SlowStores(x, [p EXCEPT !.last = Slow!Pmt!Class(half)])
      BY <3>1 DEF SlowStores, IsDecoder, DecoderFields
    <3>. QED BY <3>2 DEF Slow!ProcessChWord, d, p, SlowStores
  <2>. QED BY <2>6, <2>7, <2>8
<1>. QED BY <1>2, <1>3

LEMMA SlowHeader ==
  ASSUME NEW x, IsDecoder(x), NEW word, NEW debug
  PROVE  SlowKeeps(x, Slow!ProcessHeader(x, word, debug))
<1> DEFINE t == [x EXCEPT !.header = Append(SubSeq(@, 1, x.count), word[2]), !.count = @ + 1]
           d == Slow!DecodeEventHeader(t)
           f == Slow!Fails(x)
<1>0. SlowKeeps(x, x) BY DEF SlowKeeps
<1>1. SlowKeeps(x, t) /\ t.status = x.status BY DEF SlowKeeps, IsDecoder, DecoderFields
<1> HIDE DEF t
<1>2. SlowKeeps(x, d)
  BY <1>1 DEF SlowKeeps, IsDecoder, DecoderFields, InfoFields, Slow!DecodeEventHeader
<1> HIDE DEF d
<1>3. SlowKeeps(x, f) BY DEF SlowKeeps, IsDecoder, DecoderFields, Slow!Fails
<1> HIDE DEF f
<1>4. \E y \in {x, t, d, f} :
        Slow!ProcessHeader(x, word, debug) = [y EXCEPT !.last = Slow!KindOf(word[2])]
  <2>1. CASE Slow!KindOf(word[2]) = "U"
    BY <2>1 DEF Slow!ProcessHeader
  <2>2. CASE Slow!KindOf(word[2]) = "F"
    BY <2>2 DEF Slow!ProcessHeader, t, d, f
  <2>3. CASE Slow!KindOf(word[2]) \notin {"U", "F"}
    BY <2>3 DEF Slow!ProcessHeader, f
  <2>. QED BY <2>1, <2>2, <2>3
<1>5. ASSUME NEW y, SlowKeeps(x, y) PROVE SlowKeeps(x, [y EXCEPT !.last = Slow!KindOf(word[2])])
  BY <1>5 DEF SlowKeeps, IsDecoder, DecoderFields, NoChannelAtAll
<1>. QED BY <1>0, <1>1, <1>2, <1>3, <1>4, <1>5

LEMMA SlowUnexpectedHeader ==
  ASSUME NEW x, IsDecoder(x), NEW word, NEW debug, x.attached, x.status = "ok"
  PROVE  LET y == Slow!UnexpectedHeader(x, word, debug)
         IN /\ IsDecoder(y) /\ Adds(x, y) /\ y.info.number = x.info.number
            /\ y.attached /\ y.status # "crash"
<1> DEFINE e == Slow!InitEventInfo(x)
           n == Slow!NextEvent(e)
           m == IF Slow!QualityGood(x) THEN n ELSE e
           h == Slow!ProcessHeader(m, word, debug)
           f == Slow!Fails(x)
<1>1. /\ IsDecoder(e) /\ e.file = x.file /\ e.info = x.info /\ e.attached /\ e.status = "ok"
  BY DEF IsDecoder, DecoderFields, Slow!InitEventInfo
<1> HIDE DEF e
<1>2. /\ IsDecoder(n) /\ (\E z : n.file = Append(x.file, z)) /\ n.info = x.info
      /\ n.attached /\ n.status = "ok"
  BY <1>1 DEF IsDecoder, DecoderFields, Slow!NextEvent
<1> HIDE DEF n
<1>3. IsDecoder(m) /\ Adds(x, m) /\ m.info = x.info /\ m.attached /\ m.status = "ok"
  BY <1>1, <1>2 DEF Adds, OneMore
<1> HIDE DEF m
<1>4. SlowKeeps(m, h) BY <1>3, SlowHeader
<1> HIDE DEF h
<1>5. IsDecoder([h EXCEPT !.status = "ok"]) /\ Adds(x, [h EXCEPT !.status = "ok"])
      /\ [h EXCEPT !.status = "ok"].info.number = x.info.number
      /\ [h EXCEPT !.status = "ok"].attached /\ [h EXCEPT !.status = "ok"].status = "ok"
  BY <1>3, <1>4 DEF SlowKeeps, IsDecoder, DecoderFields, Adds, OneMore
<1>6. IsDecoder(f) /\ f.file = x.file /\ f.info = x.info /\ f.attached /\ f.status = "fail"
  BY DEF IsDecoder, DecoderFields, Slow!Fails
<1> HIDE DEF f
<1>7. Slow!UnexpectedHeader(x, word, debug) = IF debug THEN [h EXCEPT !.status = "ok"] ELSE f
  BY DEF Slow!UnexpectedHeader, h, m, n, e, f
<1>. QED BY <1>5, <1>6, <1>7 DEF Adds, OneMore

LEMMA SlowPair ==
  ASSUME NEW x, IsDecoder(x), NEW word, NEW debug, x.attached, x.status = "ok"
  PROVE  LET y == Slow!ProcessPair(x, word, debug)
         IN /\ IsDecoder(y) /\ Adds(x, y) /\ y.info.number = x.info.number
            /\ y.attached /\ (y.status = "crash" => NoChannelAtAll(y))
<1> DEFINE d == Slow!ProcessChWord(x, word[2], debug)
           z == Slow!ProcessChWord(d, word[3], debug)
           g == [d EXCEPT !.status = "ok", !.reading = FALSE]
<1>1. SlowStores(x, d) BY SlowChWord
<1>2. SlowStores(d, z) BY <1>1, SlowChWord DEF SlowStores
<1> HIDE DEF d, z
<1>3. /\ IsDecoder(g) /\ g.file = d.file /\ g.info = d.info /\ (d.attached => g.attached)
      /\ g.status = "ok"
  BY <1>1 DEF SlowStores, IsDecoder, DecoderFields
<1> HIDE DEF g
<1>4. CASE d.status = "ok" /\ d.reading
  <2>1. Slow!ProcessPair(x, word, debug) = z
    BY <1>4 DEF Slow!ProcessPair, Slow!AfterLow, d, z
  <2>. QED BY <2>1, <1>4, <1>1, <1>2 DEF SlowStores, Adds, OneMore
<1>5. CASE ~(d.status = "ok" /\ d.reading)
  <2>1. Slow!ProcessPair(x, word, debug) \in {d, g}
    BY <1>5 DEF Slow!ProcessPair, Slow!AfterLow, d, g
  <2>. QED BY <2>1, <1>1, <1>3 DEF SlowStores, Adds, OneMore
<1>. QED BY <1>4, <1>5

LEMMA SlowWord ==
  ASSUME NEW x, IsDecoder(x), NEW word, NEW debug
  PROVE  LET y == Slow!ProcessWord(x, word, debug)
         IN /\ IsDecoder(y) /\ Adds(x, y) /\ y.info.number = x.info.number
            /\ y.status = "crash" => NoChannelAtAll(y)
<1> DEFINE d == [x EXCEPT !.status = "ok", !.attached = TRUE]
<1>1. IsDecoder(d) /\ d.file = x.file /\ d.info = x.info /\ d.status = "ok" /\ d.attached
  BY DEF IsDecoder, DecoderFields
<1> HIDE DEF d
<1>2. \/ Slow!ProcessWord(x, word, debug) = Slow!ProcessHeader(d, word, debug)
      \/ Slow!ProcessWord(x, word, debug) = Slow!UnexpectedHeader(d, word, debug)
      \/ Slow!ProcessWord(x, word, debug) = Slow!ProcessPair(d, word, debug)
  BY DEF Slow!ProcessWord, d
<1>3. CASE Slow!ProcessWord(x, word, debug) = Slow!ProcessHeader(d, word, debug)
  BY <1>1, <1>3, SlowHeader DEF SlowKeeps, Adds, OneMore
<1>4. CASE Slow!ProcessWord(x, word, debug) = Slow!UnexpectedHeader(d, word, debug)
  <2> DEFINE y == Slow!UnexpectedHeader(d, word, debug)
  <2>1. /\ IsDecoder(y) /\ Adds(d, y) /\ y.info.number = d.info.number
        /\ y.status # "crash"
    BY <1>1, SlowUnexpectedHeader
  <2> HIDE DEF y
  <2>2. Adds(x, y) BY <2>1, <1>1 DEF Adds, OneMore
  <2>3. Slow!ProcessWord(x, word, debug) = y BY <1>4 DEF y
  <2>. QED BY <2>1, <2>2, <2>3, <1>1
<1>5. CASE Slow!ProcessWord(x, word, debug) = Slow!ProcessPair(d, word, debug)
  <2> DEFINE y == Slow!ProcessPair(d, word, debug)
  <2>1. /\ IsDecoder(y) /\ Adds(d, y) /\ y.info.number = d.info.number
        /\ (y.status = "crash" => NoChannelAtAll(y))
    BY <1>1, SlowPair
  <2> HIDE DEF y
  <2>2. Adds(x, y) BY <2>1, <1>1 DEF Adds, OneMore
  <2>3. Slow!ProcessWord(x, word, debug) = y BY <1>5 DEF y
  <2>. QED BY <2>1, <2>2, <2>3, <1>1
<1>. QED BY <1>2, <1>3, <1>4, <1>5

(***************************************************************************)
(* Compressed TPC data: a channel                                          *)
(***************************************************************************)

LEMMA HalfKinds ==
  ASSUME NEW half \in HalfWord
  PROVE  /\ half[1] = "CL" => half[2] \in Nat
         /\ half[1] = "F" => half \in HeaderHalf
BY DEF HalfWord, HeaderHalf

\* The two halves, and which of them are header words.
LEMMA HuffHalves ==
  ASSUME NEW word \in ReadoutWord, word # <<"EL">>
  PROVE  /\ Huff!Halves(word)[1] \in HalfWord /\ Huff!Halves(word)[2] \in HalfWord
<1>1. CASE word = <<"EH">>
  BY <1>1 DEF Huff!Halves, Huff!AllOnes, HalfWord
<1>2. CASE word # <<"EH">>
  <2>1. word \in PairWord BY <1>2 DEF ReadoutWord
  <2>2. PICK a \in HalfWord, b \in HalfWord : word = <<"P", a, b>> BY <2>1 DEF PairWord
  <2>3. Huff!Halves(word) = Tail(<<"P", a, b>>) BY <1>2, <2>2 DEF Huff!Halves
  <2>4. Tail(<<"P", a, b>>) = <<a, b>> OBVIOUS
  <2>. QED BY <2>3, <2>4
<1>. QED BY <1>1, <1>2

NoneEmpty == \A m \in DOMAIN Module : Module[m].nwords # 0

LEMMA NoInfoFields == NoInfo.number = NoNumber /\ NoInfo.nwords = 0 /\ NoInfo.checksum = 0
BY DEF NoInfo

HeaderOK(x) ==
  /\ IsDecoder(x)
  /\ x.header \in Seq(HeaderHalf) /\ x.count \in 0 .. HeaderCount /\ x.count <= Len(x.header)
  /\ x.count = HeaderCount /\ NoneEmpty => x.info.nwords # 0
HuffOK(x) == HeaderOK(x) /\ x.nwords \in Nat /\ (x.nwords = 0 => x.sum \in Nat)

StoresOr(x, y) ==
  \/ y.file = x.file
  \/ OneMore(x.file, y.file) /\ (y.info.number = NoNumber \/ y.status = "crash")
HuffSafe(x, y) == x.attached /\ x.status # "crash" /\ NoneEmpty => y.attached /\ y.status # "crash"

\* A step in a module's data or behind it: an event is stored only where a header was
\* taken since the last was stored.
HuffStep(x, y) ==
  /\ HuffOK(y) /\ HuffSafe(x, y)
  /\ x.info = NoInfo => y.info = NoInfo \/ y.status = "crash"
  /\ \/ y.file = x.file
     \/ /\ OneMore(x.file, y.file)
        /\ x.info # NoInfo /\ (y.info = NoInfo \/ y.status = "crash")

HuffKeeps(x, y) ==
  /\ IsDecoder(y)
  /\ \A f \in {"file", "attached", "info", "header", "count", "nwords", "sum"} : y[f] = x[f]
  /\ x.attached /\ x.status # "crash" => y.status # "crash"

LEMMA HuffClears ==
  ASSUME NEW x, IsDecoder(x)
  PROVE  LET y == Huff!ClearEvent(x)
         IN /\ IsDecoder(y)
            /\ \A f \in {"file", "attached", "header", "nwords", "sum"} : y[f] = x[f]
            /\ x.attached => y.info = NoInfo /\ y.count = 0 /\ y.status = x.status
            /\ ~x.attached => y.info = x.info /\ y.count = x.count /\ y.status = "crash"
BY DEF IsDecoder, DecoderFields, InfoFields, Huff!ClearEvent, Huff!Tpc!ClearEvent, Huff!Tpc!ClearHeader,
       Huff!Tpc!NoInfo, NoInfo, Huff!Tpc!Crashes, NoNumber, Huff!Tpc!NoNumber, NoModule, Huff!Tpc!NoModule

LEMMA HuffStores ==
  ASSUME NEW x, IsDecoder(x)
  PROVE  LET y == Huff!StoreEvent(x)
         IN /\ IsDecoder(y)
            /\ y.attached = x.attached /\ y.header = x.header /\ y.nwords = x.nwords /\ y.sum = x.sum
            /\ x.attached => y.info = NoInfo /\ y.count = 0 /\ (x.status # "crash" => y.status # "crash")
            /\ ~x.attached => y.info = x.info /\ y.count = x.count /\ y.status = "crash"
            /\ \/ y.file = x.file
               \/ OneMore(x.file, y.file) /\ x.nwords = x.info.nwords
                         /\ (x.sum = x.info.checksum \/ x.sum + Huff!Value(<<"CL", 63>>) = x.info.checksum)
<1> DEFINE c == [x EXCEPT !.allow = @ \/ Huff!Fixable(x)]
           m == [c EXCEPT !.number = x.info.number]
           n == Huff!NextEvent(m)
           f == Huff!Fails(c)
<1>1. /\ IsDecoder(c) /\ \A g \in DecoderFields \ {"allow"} : c[g] = x[g]
  BY DEF IsDecoder, DecoderFields
<1> HIDE DEF c
<1>2. IsDecoder(m) /\ \A g \in DecoderFields \ {"allow", "number"} : m[g] = x[g]
  BY <1>1 DEF IsDecoder, DecoderFields
<1> HIDE DEF m
<1>3. /\ IsDecoder(n) /\ \A g \in {"attached", "header", "nwords", "sum", "info", "count", "status"} : n[g] = x[g]
      /\ OneMore(x.file, n.file)
  BY <1>2 DEF OneMore, IsDecoder, DecoderFields, Huff!NextEvent
<1> HIDE DEF n
<1>4. /\ IsDecoder(f) /\ \A g \in {"file", "attached", "header", "nwords", "sum", "info", "count"} : f[g] = x[g]
      /\ f.status = "fail"
  BY <1>1 DEF IsDecoder, DecoderFields, Huff!Fails
<1> HIDE DEF f
<1>5. Huff!QualityGood(x) => x.nwords = x.info.nwords
        /\ (x.sum = x.info.checksum \/ x.sum + Huff!Value(<<"CL", 63>>) = x.info.checksum)
  BY DEF Huff!QualityGood, Huff!Fixable, Huff!LastChannel
<1>6. Huff!StoreEvent(x) = Huff!ClearEvent(IF Huff!QualityGood(x) THEN n ELSE f)
  BY DEF Huff!StoreEvent, n, m, c, f
<1>7. CASE Huff!QualityGood(x)
  <2>1. Huff!StoreEvent(x) = Huff!ClearEvent(n) BY <1>6, <1>7
  <2> DEFINE y == Huff!ClearEvent(n)
  <2>2. /\ IsDecoder(y)
        /\ y.file = n.file /\ y.attached = n.attached /\ y.header = n.header
        /\ y.nwords = n.nwords /\ y.sum = n.sum
        /\ n.attached => y.info = NoInfo /\ y.count = 0 /\ y.status = n.status
        /\ ~n.attached => y.info = n.info /\ y.count = n.count /\ y.status = "crash"
    BY <1>3, HuffClears
  <2> HIDE DEF y
  <2>. QED BY <2>1, <2>2, <1>3, <1>5, <1>7 DEF y
<1>8. CASE ~Huff!QualityGood(x)
  <2>1. Huff!StoreEvent(x) = Huff!ClearEvent(f) BY <1>6, <1>8
  <2>. QED BY <2>1, <1>4, HuffClears
<1>. QED BY <1>7, <1>8

LEMMA HuffChannel ==
  ASSUME NEW x, IsDecoder(x), NEW half
  PROVE  /\ HuffKeeps(x, x)
         /\ HuffKeeps(x, Huff!Fails(x)) /\ Huff!Fails(x).status = "fail"
         /\ HuffKeeps(x, Huff!StoreChData(x)) /\ Huff!StoreChData(x).status = x.status
         /\ HuffKeeps(x, Huff!Flush(x)) /\ Huff!Flush(x).status = x.status
         /\ HuffKeeps(x, Huff!BeginChannel(x, half))
         /\ HuffKeeps(x, Huff!DecodeChWord(x, half))
<1>1. HuffKeeps(x, x) BY DEF HuffKeeps
<1>2. HuffKeeps(x, Huff!Fails(x)) /\ Huff!Fails(x).status = "fail"
  BY DEF HuffKeeps, IsDecoder, DecoderFields, Huff!Fails
<1>3. HuffKeeps(x, Huff!StoreChData(x)) /\ Huff!StoreChData(x).status = x.status
  BY DEF HuffKeeps, IsDecoder, DecoderFields, Huff!StoreChData
<1>4. HuffKeeps(x, Huff!Flush(x)) /\ Huff!Flush(x).status = x.status
  BY <1>1, <1>3 DEF Huff!Flush
<1>5. HuffKeeps(x, Huff!BeginChannel(x, half))
  <2>1. HuffKeeps(x, [x EXCEPT !.ch = [Huff!NoChannel EXCEPT !.n = half[2]]])
    BY DEF HuffKeeps, IsDecoder, DecoderFields
  <2>. QED BY <2>1, <1>2 DEF Huff!BeginChannel
<1>6. HuffKeeps(x, Huff!DecodeChWord(x, half))
  BY <1>2 DEF HuffKeeps, IsDecoder, DecoderFields, Huff!DecodeChWord
<1>. QED BY <1>1, <1>2, <1>3, <1>4, <1>5, <1>6

LEMMA HuffStepsOn ==
  ASSUME NEW x, NEW y, NEW z, HuffStep(x, y), y.status # "crash", HuffStep(y, z)
  PROVE  HuffStep(x, z)
<1>1. HuffOK(z) BY DEF HuffStep
<1>2. HuffSafe(x, z) BY DEF HuffStep, HuffSafe
<1>3. /\ x.info = NoInfo => y.info = NoInfo
      /\ y.info = NoInfo => z.info = NoInfo \/ z.status = "crash"
  BY DEF HuffStep
<1>4. /\ y.file = x.file \/ (OneMore(x.file, y.file) /\ x.info # NoInfo /\ y.info = NoInfo)
      /\ z.file = y.file
         \/ (OneMore(y.file, z.file) /\ y.info # NoInfo /\ (z.info = NoInfo \/ z.status = "crash"))
  BY DEF HuffStep
<1>5. CASE y.file = x.file
  <2>1. z.file = x.file
        \/ (OneMore(x.file, z.file) /\ y.info # NoInfo /\ (z.info = NoInfo \/ z.status = "crash"))
    BY <1>4, <1>5
  <2>. QED BY <1>1, <1>2, <1>3, <2>1 DEF HuffStep
<1>6. CASE OneMore(x.file, y.file) /\ x.info # NoInfo /\ y.info = NoInfo
  <2>1. z.file = y.file BY <1>4, <1>6
  <2>2. OneMore(x.file, z.file) BY <1>6, <2>1
  <2>. QED BY <1>1, <1>2, <1>3, <1>6, <2>2 DEF HuffStep
<1>. QED BY <1>4, <1>5, <1>6

LEMMA HuffKeepsOn ==
  ASSUME NEW x, HuffOK(x), NEW y, HuffKeeps(x, y)
  PROVE  HuffStep(x, y)
<1>1. y.file = x.file /\ y.attached = x.attached /\ y.info = x.info /\ y.header = x.header
      /\ y.count = x.count /\ y.nwords = x.nwords /\ y.sum = x.sum
  BY DEF HuffKeeps
<1>. QED BY <1>1 DEF HuffStep, HuffOK, HeaderOK, HuffSafe, HuffKeeps

LEMMA HuffValue ==
  ASSUME NEW half, half[1] = "CL"
  PROVE  Huff!Value(half) = 500 + half[2]
<1>1. half[1] # "CH" /\ half[1] # "CT" /\ half[1] # "CP" /\ half[1] # "Z" /\ half[1] # "W" /\ half[1] # "FF"
  OBVIOUS
<1>. QED BY <1>1, ZenonT(60) DEF Huff!Value

\* The last word of a channel may store the event.
LEMMA HuffEndChannel ==
  ASSUME NEW x, HuffOK(x), NEW half \in HalfWord, half[1] = "CL"
  PROVE  HuffStep(x, Huff!EndChannel(x, half))
<1> DEFINE c == Huff!StoreChData(x)
           s == [c EXCEPT !.sum = @ + Huff!Value(half)]
           t == Huff!StoreEvent(s)
<1>1. IsDecoder(x) BY DEF HuffOK, HeaderOK
<1>2. HuffKeeps(x, c) BY <1>1, HuffChannel
<1>3. IsDecoder(c) /\ c.file = x.file /\ c.attached = x.attached /\ c.info = x.info /\ c.header = x.header
      /\ c.count = x.count /\ c.nwords = x.nwords /\ c.sum = x.sum /\ c.status = x.status
  BY <1>1, <1>2, HuffChannel DEF HuffKeeps
<1>4. HuffStep(x, c) BY <1>2, HuffKeepsOn
<1>5. HuffStep(x, Huff!Fails(x)) BY <1>1, HuffChannel, HuffKeepsOn
<1>6. ~x.attached => HuffStep(x, Huff!Crashes(x))
  BY <1>1 DEF HuffStep, HuffOK, HeaderOK, HuffSafe, IsDecoder, DecoderFields, Huff!Crashes
<1> HIDE DEF c
<1>7. IsDecoder(s) /\ s.file = x.file /\ s.attached = x.attached /\ s.info = x.info /\ s.header = x.header
      /\ s.count = x.count /\ s.nwords = x.nwords /\ s.sum = x.sum + Huff!Value(half) /\ s.status = x.status
  BY <1>3 DEF IsDecoder, DecoderFields
<1> HIDE DEF s
<1>8. half[2] \in Nat /\ Huff!Value(half) = 500 + half[2] BY HalfKinds, HuffValue
<1>9. x.attached /\ Huff!Complete(x) => HuffStep(x, t)
  <2> SUFFICES ASSUME x.attached, x.nwords = x.info.nwords PROVE HuffStep(x, t)
    BY DEF Huff!Complete
  <2>1. <<"CL", 63>>[1] = "CL" /\ <<"CL", 63>>[2] = 63 OBVIOUS
  <2>2. Huff!Value(<<"CL", 63>>) = 563 BY <2>1, HuffValue
  <2> HIDE DEF t
  <2>3. /\ IsDecoder(t) /\ t.attached = s.attached /\ t.header = s.header /\ t.nwords = s.nwords /\ t.sum = s.sum
        /\ t.info = NoInfo /\ t.count = 0 /\ (s.status # "crash" => t.status # "crash")
        /\ \/ t.file = s.file
           \/ OneMore(s.file, t.file) /\ s.nwords = s.info.nwords
                     /\ (s.sum = s.info.checksum \/ s.sum + Huff!Value(<<"CL", 63>>) = s.info.checksum)
    BY <1>7, HuffStores DEF t
  <2>4. HuffOK(t)
    <3>1. t.nwords \in Nat /\ (t.nwords = 0 => t.sum \in Nat) BY <2>3, <1>7, <1>8 DEF HuffOK, HeaderOK
    <3>. QED BY <3>1, <2>3, <1>7, HeaderCountAssumption DEF HuffOK, HeaderOK
  <2>5. x.info = NoInfo => t.file = x.file
    <3> SUFFICES ASSUME x.info = NoInfo, t.file # x.file PROVE FALSE OBVIOUS
    <3>1. x.info.nwords = 0 /\ x.info.checksum = 0 BY NoInfoFields
    <3>2. x.sum \in Nat BY <3>1 DEF HuffOK, HeaderOK
    <3>3. s.sum = 0 \/ s.sum + Huff!Value(<<"CL", 63>>) = 0 BY <2>3, <1>7, <3>1
    <3>4. s.sum \in Nat /\ s.sum >= 500 BY <3>2, <1>7, <1>8
    <3>. QED BY <3>3, <3>4, <2>2
  <2>. QED BY <2>3, <2>4, <2>5, <1>7 DEF HuffStep, HuffSafe
<1> HIDE DEF t
<1>. QED BY <1>4, <1>5, <1>6, <1>9 DEF Huff!EndChannel, c, s, t

LEMMA HuffChWord ==
  ASSUME NEW x, HuffOK(x), NEW half \in HalfWord
  PROVE  HuffStep(x, Huff!ProcessChWord(x, half))
<1> DEFINE d == CASE half[1] = "CH" -> Huff!BeginChannel(x, half)
                  [] half[1] = "CL" -> Huff!EndChannel(x, half)
                  [] OTHER -> Huff!DecodeChWord(x, half)
           c == Huff!Counted(d, half)
           l == [c EXCEPT !.last = Huff!KindOf(half)]
<1>0. IsDecoder(x) BY DEF HuffOK, HeaderOK
<1>1. HuffStep(x, d)
  <2>1. CASE half[1] = "CL" BY <2>1, HuffEndChannel
  <2>2. CASE half[1] # "CL"
    <3>1. HuffKeeps(x, d) BY <2>2, <1>0, HuffChannel
    <3>. QED BY <3>1, HuffKeepsOn
  <2>. QED BY <2>1, <2>2
<1> HIDE DEF d
<1>2. IsDecoder(c) /\ c.file = d.file /\ c.attached = d.attached /\ c.info = d.info /\ c.header = d.header
      /\ c.count = d.count /\ c.status = d.status
      /\ \/ c.nwords = d.nwords /\ c.sum = d.sum
         \/ c.nwords = d.nwords + 1
  BY <1>1 DEF Huff!Counted, HuffStep, HuffOK, HeaderOK, IsDecoder, DecoderFields
<1> HIDE DEF c
<1>3. IsDecoder(l) /\ l.file = d.file /\ l.attached = d.attached /\ l.info = d.info /\ l.header = d.header
      /\ l.count = d.count /\ l.status = d.status
      /\ \/ l.nwords = d.nwords /\ l.sum = d.sum
         \/ l.nwords = d.nwords + 1
  BY <1>2 DEF IsDecoder, DecoderFields
<1> HIDE DEF l
<1>4. l.nwords \in Nat /\ (l.nwords = 0 => l.sum \in Nat)
  <2>1. d.nwords \in Nat /\ (d.nwords = 0 => d.sum \in Nat) BY <1>1 DEF HuffStep, HuffOK, HeaderOK
  <2>2. CASE l.nwords = d.nwords /\ l.sum = d.sum BY <2>1, <2>2
  <2>3. CASE l.nwords = d.nwords + 1
    <3>1. d.nwords + 1 \in Nat /\ d.nwords + 1 # 0 BY <2>1
    <3>. QED BY <3>1, <2>3
  <2>. QED BY <2>2, <2>3, <1>3
<1>5. HuffOK(l) BY <1>1, <1>3, <1>4 DEF HuffStep, HuffOK, HeaderOK
<1>6. HuffStep(x, l) BY <1>1, <1>3, <1>5 DEF HuffStep, HuffSafe
<1>7. HuffStep(x, x) BY DEF HuffStep, HuffSafe
<1>. QED BY <1>6, <1>7 DEF Huff!ProcessChWord, d, c, l

LEMMA HuffPair ==
  ASSUME NEW x, HuffOK(x), NEW word \in ReadoutWord, word # <<"EL">>
  PROVE  HuffStep(x, Huff!ProcessPair(x, word))
<1> DEFINE d == Huff!ProcessChWord(x, Huff!Halves(word)[1])
           z == Huff!ProcessChWord(d, Huff!Halves(word)[2])
<1>1. Huff!Halves(word)[1] \in HalfWord /\ Huff!Halves(word)[2] \in HalfWord BY HuffHalves
<1>2. HuffStep(x, d) BY <1>1, HuffChWord
<1>3. HuffStep(d, z) BY <1>1, <1>2, HuffChWord DEF HuffStep
<1>4. Huff!ProcessPair(x, word) = IF d.status = "ok" THEN z ELSE d BY DEF Huff!ProcessPair, Huff!SecondHalf
<1> HIDE DEF d, z
<1>. QED BY <1>2, <1>3, <1>4, HuffStepsOn

(***************************************************************************)
(* Compressed TPC data: the end of a module, and header words              *)
(***************************************************************************)

\* A step that may also take a header.
HuffDone(x, y) == HuffOK(y) /\ StoresOr(x, y) /\ HuffSafe(x, y)

LEMMA HuffStepDone ==
  ASSUME NEW x, NEW y, HuffStep(x, y)
  PROVE  HuffDone(x, y)
BY NoInfoFields DEF HuffStep, HuffDone, StoresOr

LEMMA HuffFlushStore ==
  ASSUME NEW x, HuffOK(x)
  PROVE  LET y == Huff!StoreEvent(Huff!Flush(x))
         IN /\ HuffDone(x, y) /\ (x.info.nwords # 0 => HuffStep(x, y))
            /\ y.status # "crash" => x.attached /\ y.info = NoInfo /\ y.count = 0
            /\ ~x.attached => y.status = "crash"
<1> DEFINE f == Huff!Flush(x)
           y == Huff!StoreEvent(f)
<1>1. IsDecoder(x) BY DEF HuffOK, HeaderOK
<1>2. HuffKeeps(x, f) /\ f.status = x.status BY <1>1, HuffChannel
<1>3. /\ IsDecoder(f) /\ f.file = x.file /\ f.attached = x.attached /\ f.info = x.info /\ f.header = x.header
      /\ f.count = x.count /\ f.nwords = x.nwords /\ f.sum = x.sum
  BY <1>2 DEF HuffKeeps
<1> HIDE DEF f, y
<1>4. /\ IsDecoder(y)
      /\ y.attached = f.attached /\ y.header = f.header /\ y.nwords = f.nwords /\ y.sum = f.sum
      /\ f.attached => y.info = NoInfo /\ y.count = 0 /\ (f.status # "crash" => y.status # "crash")
      /\ ~f.attached => y.info = f.info /\ y.count = f.count /\ y.status = "crash"
      /\ y.file = f.file \/ OneMore(f.file, y.file)
  BY <1>3, HuffStores DEF y
<1>5. HuffOK(y) BY <1>3, <1>4, HeaderCountAssumption DEF HuffOK, HeaderOK
<1>6. y.info = NoInfo \/ y.status = "crash" BY <1>3, <1>4
<1>7. HuffSafe(x, y) BY <1>2, <1>3, <1>4 DEF HuffSafe
<1>8. StoresOr(x, y) BY <1>3, <1>4, <1>6, NoInfoFields DEF StoresOr
<1>9. x.info.nwords # 0 => HuffStep(x, y)
  BY <1>3, <1>4, <1>5, <1>6, <1>7, NoInfoFields DEF HuffStep
<1>. QED BY <1>3, <1>4, <1>5, <1>7, <1>8, <1>9 DEF HuffDone, f, y

LEMMA HeaderTaken ==
  ASSUME NEW x, HeaderOK(x), x.count < HeaderCount, NEW word, word[2] \in HeaderHalf
  PROVE  LET t == Huff!Taken(x, word)
         IN /\ IsDecoder(t) /\ t.header \in Seq(HeaderHalf) /\ t.count = x.count + 1
            /\ t.count <= Len(t.header)
            /\ t.file = x.file /\ t.attached = x.attached /\ t.info = x.info
            /\ t.nwords = x.nwords /\ t.sum = x.sum /\ t.status = x.status
<1> DEFINE p == SubSeq(x.header, 1, x.count)
<1>1. x.header \in Seq(HeaderHalf) /\ x.count \in Nat /\ x.count <= Len(x.header) BY DEF HeaderOK
<1>2. p \in Seq(HeaderHalf) /\ Len(p) = x.count BY <1>1
<1> HIDE DEF p
<1>3. Append(p, word[2]) \in Seq(HeaderHalf) /\ Len(Append(p, word[2])) = x.count + 1 BY <1>1, <1>2
<1>4. x.count + 1 \in Int BY <1>1
<1>. QED BY <1>3, <1>4 DEF HeaderOK, IsDecoder, DecoderFields, Huff!Taken, p

LEMMA HeaderField ==
  ASSUME NEW header \in Seq(HeaderHalf), 2 <= Len(header), NoneEmpty
  PROVE  FieldOf(header, 2, "nwords") # 0
<1>1. header[2] \in HeaderHalf OBVIOUS
<1>2. header[2][2] \in DOMAIN Module BY <1>1 DEF HeaderHalf
<1>. QED BY <1>2 DEF FieldOf, NoneEmpty, Garbled

LEMMA HuffDecodes ==
  ASSUME NEW t, IsDecoder(t), t.header \in Seq(HeaderHalf), 2 <= Len(t.header)
  PROVE  LET y == Huff!DecodeFemHeader(t)
         IN /\ IsDecoder(y) /\ y.file = t.file /\ y.attached = t.attached
            /\ y.header = t.header /\ y.count = t.count
            /\ NoneEmpty => y.info.nwords # 0
            /\ y.status \in {"throw", t.status}
            /\ \/ y.nwords = t.nwords /\ y.sum = t.sum
               \/ y.nwords = 0 /\ y.sum = 0
<1>1. Huff!FieldOf(t.header, 2, "nwords") = FieldOf(t.header, 2, "nwords")
  BY DEF Huff!FieldOf, FieldOf, Huff!Garbled, Garbled
<1>2. NoneEmpty => FieldOf(t.header, 2, "nwords") # 0 BY HeaderField
<1>. QED BY <1>1, <1>2 DEF IsDecoder, DecoderFields, InfoFields, Huff!DecodeFemHeader

\* A word of a header, whatever the last of them gives, decoded.
LEMMA HeaderWord ==
  ASSUME NEW x, HeaderOK(x), NEW word, word[2] \in HeaderHalf, x.info.nwords = 0, NEW decoded,
         x.count < HeaderCount =>
           /\ x.count + 1 >= HeaderCount => HeaderOK(decoded)
           /\ decoded.file = x.file /\ decoded.attached = x.attached
           /\ decoded.status \in {"throw", x.status}
  PROVE  LET y == Huff!ProcessHeaderWord(x, word, decoded)
         IN /\ HeaderOK(y) /\ y.file = x.file /\ y.attached = x.attached
            /\ NoneEmpty /\ x.status # "crash" => y.status # "crash"
            /\ x.count = 0 => y.info = x.info
            /\ \/ y.nwords = x.nwords /\ y.sum = x.sum
               \/ x.count < HeaderCount /\ y.nwords = decoded.nwords /\ y.sum = decoded.sum
<1> DEFINE t == Huff!Taken(x, word)
           y == Huff!ProcessHeaderWord(x, word, decoded)
           f == Huff!Fails(x)
           c == Huff!Crashes(x)
           End(z) == IF z.status = "throw" THEN z ELSE [z EXCEPT !.allow = FALSE, !.last = "F"]
<1>0. x.count \in 0 .. HeaderCount /\ HeaderCount \in Nat /\ HeaderCount > 5
  BY HeaderCountAssumption DEF HeaderOK
<1>1. ASSUME NEW z, HeaderOK(z)
      PROVE  /\ HeaderOK(End(z)) /\ End(z).file = z.file /\ End(z).attached = z.attached
             /\ End(z).status = z.status /\ End(z).info = z.info
             /\ End(z).nwords = z.nwords /\ End(z).sum = z.sum
  BY <1>1 DEF HeaderOK, IsDecoder, DecoderFields
<1>2. /\ HeaderOK(f) /\ f.file = x.file /\ f.attached = x.attached /\ f.info = x.info
      /\ f.nwords = x.nwords /\ f.sum = x.sum /\ f.status = "fail"
  BY DEF HeaderOK, IsDecoder, DecoderFields, Huff!Fails
<1>3. /\ HeaderOK(c) /\ c.file = x.file /\ c.attached = x.attached /\ c.info = x.info
      /\ c.nwords = x.nwords /\ c.sum = x.sum
  BY DEF HeaderOK, IsDecoder, DecoderFields, Huff!Crashes
<1>4. x.count + 1 < HeaderCount =>
        /\ HeaderOK(t) /\ t.file = x.file /\ t.attached = x.attached /\ t.info = x.info
        /\ t.nwords = x.nwords /\ t.sum = x.sum /\ t.status = x.status
  <2> SUFFICES ASSUME x.count + 1 < HeaderCount
               PROVE  /\ HeaderOK(t) /\ t.file = x.file /\ t.attached = x.attached /\ t.info = x.info
                      /\ t.nwords = x.nwords /\ t.sum = x.sum /\ t.status = x.status
    OBVIOUS
  <2>1. x.count < HeaderCount BY <1>0
  <2>2. /\ IsDecoder(t) /\ t.header \in Seq(HeaderHalf) /\ t.count = x.count + 1
        /\ t.count <= Len(t.header)
        /\ t.file = x.file /\ t.attached = x.attached /\ t.info = x.info
        /\ t.nwords = x.nwords /\ t.sum = x.sum /\ t.status = x.status
    BY <2>1, HeaderTaken
  <2> HIDE DEF t
  <2>3. t.count \in 0 .. HeaderCount /\ t.count # HeaderCount BY <2>2, <1>0
  <2>. QED BY <2>2, <2>3 DEF HeaderOK
<1> HIDE DEF t, f, c
<1>5. \/ y = End(f)
      \/ y = End(c) /\ x.count >= HeaderCount
      \/ y = End(t) /\ x.count + 1 < HeaderCount
      \/ y = End(decoded) /\ x.count < HeaderCount /\ ~(x.count + 1 < HeaderCount)
  <2> DEFINE follows == x.last \in {"EH", "F", "CL"} \/ x.allow
             none == ~follows \/ word[3][1] # "F"
  <2>1. y = End(IF none THEN f ELSE IF x.count >= HeaderCount THEN c
                ELSE IF x.count + 1 < HeaderCount THEN t ELSE decoded)
    BY DEF Huff!ProcessHeaderWord, t, f, c
  <2> HIDE DEF y, End, none
  <2>. QED BY <2>1, <1>0
<1> HIDE DEF y, End
<1>6. CASE y = End(f) BY <1>6, <1>1, <1>2 DEF y
<1>7. CASE y = End(c) /\ x.count >= HeaderCount
  <2>1. x.count = HeaderCount BY <1>7, <1>0
  <2>2. ~NoneEmpty BY <2>1 DEF HeaderOK
  <2>. QED BY <2>2, <1>7, <1>1, <1>3 DEF y
<1>8. CASE y = End(t) /\ x.count + 1 < HeaderCount BY <1>8, <1>1, <1>4 DEF y
<1>9. CASE y = End(decoded) /\ x.count < HeaderCount /\ ~(x.count + 1 < HeaderCount)
  <2>1. x.count # 0 /\ x.count + 1 >= HeaderCount BY <1>9, <1>0
  <2>2. HeaderOK(decoded) BY <1>9, <2>1
  <2>. QED BY <2>1, <2>2, <1>9, <1>1 DEF y
<1>. QED BY <1>5, <1>6, <1>7, <1>8, <1>9

(***************************************************************************)
(* Compressed TPC data: a word                                             *)
(***************************************************************************)

LEMMA HeaderPair ==
  ASSUME NEW word \in ReadoutWord, Huff!ClassOf(word) = "F"
  PROVE  word[2] \in HeaderHalf
<1>1. word # <<"EH">> /\ word # <<"EL">> BY DEF Huff!ClassOf
<1>2. PICK a \in HalfWord \ {AllOnes}, b \in HalfWord : word = <<"P", a, b>>
  BY <1>1 DEF ReadoutWord, PairWord
<1>3. a # Huff!AllOnes BY DEF AllOnes, Huff!AllOnes
<1>4. a[1] = "F" BY <1>2, <1>3 DEF Huff!ClassOf, Huff!KindOf
<1>. QED BY <1>2, <1>4, HalfKinds

LEMMA HuffHeaderWord ==
  ASSUME NEW x, HuffOK(x), NEW word, word[2] \in HeaderHalf, x.info.nwords = 0
  PROVE  LET y == Huff!ProcessHeaderWord(x, word, Huff!DecodeFemHeader(Huff!Taken(x, word)))
         IN HuffDone(x, y) /\ y.file = x.file /\ (x.count = 0 => y.info = x.info)
<1> DEFINE t == Huff!Taken(x, word)
           decoded == Huff!DecodeFemHeader(t)
           y == Huff!ProcessHeaderWord(x, word, decoded)
<1>0. HeaderOK(x) /\ x.count \in 0 .. HeaderCount /\ HeaderCount \in Nat /\ HeaderCount > 5
  BY HeaderCountAssumption DEF HuffOK, HeaderOK
<1>1. x.count < HeaderCount =>
        /\ x.count + 1 >= HeaderCount => HeaderOK(decoded)
        /\ decoded.file = x.file /\ decoded.attached = x.attached
        /\ decoded.status \in {"throw", x.status}
        /\ \/ decoded.nwords = x.nwords /\ decoded.sum = x.sum
           \/ decoded.nwords = 0 /\ decoded.sum = 0
  <2> SUFFICES ASSUME x.count < HeaderCount
               PROVE  /\ x.count + 1 >= HeaderCount => HeaderOK(decoded)
                      /\ decoded.file = x.file /\ decoded.attached = x.attached
                      /\ decoded.status \in {"throw", x.status}
                      /\ \/ decoded.nwords = x.nwords /\ decoded.sum = x.sum
                         \/ decoded.nwords = 0 /\ decoded.sum = 0
    OBVIOUS
  <2>1. /\ IsDecoder(t) /\ t.header \in Seq(HeaderHalf) /\ t.count = x.count + 1
        /\ t.count <= Len(t.header)
        /\ t.file = x.file /\ t.attached = x.attached /\ t.info = x.info
        /\ t.nwords = x.nwords /\ t.sum = x.sum /\ t.status = x.status
    BY <1>0, HeaderTaken
  <2> HIDE DEF t
  <2>2. CASE 2 <= Len(t.header)
    <3>1. /\ IsDecoder(decoded) /\ decoded.file = t.file /\ decoded.attached = t.attached
          /\ decoded.header = t.header /\ decoded.count = t.count
          /\ NoneEmpty => decoded.info.nwords # 0
          /\ decoded.status \in {"throw", t.status}
          /\ \/ decoded.nwords = t.nwords /\ decoded.sum = t.sum
             \/ decoded.nwords = 0 /\ decoded.sum = 0
      BY <2>1, <2>2, HuffDecodes
    <3> HIDE DEF decoded
    <3>2. decoded.count \in 0 .. HeaderCount BY <3>1, <2>1, <1>0
    <3>3. HeaderOK(decoded) BY <3>1, <3>2, <2>1 DEF HeaderOK
    <3>. QED BY <3>1, <3>3, <2>1
  <2>3. CASE ~(2 <= Len(t.header))
    <3>1. x.count + 1 < HeaderCount BY <2>1, <2>3, <1>0
    <3>2. /\ decoded.file = t.file /\ decoded.attached = t.attached
          /\ decoded.status \in {"throw", t.status}
          /\ \/ decoded.nwords = t.nwords /\ decoded.sum = t.sum
             \/ decoded.nwords = 0 /\ decoded.sum = 0
      BY <2>1 DEF IsDecoder, DecoderFields, Huff!DecodeFemHeader
    <3>. QED BY <3>1, <3>2, <2>1, <1>0
  <2>. QED BY <2>2, <2>3
<1> HIDE DEF decoded
<1>2. /\ HeaderOK(y) /\ y.file = x.file /\ y.attached = x.attached
      /\ NoneEmpty /\ x.status # "crash" => y.status # "crash"
      /\ x.count = 0 => y.info = x.info
      /\ \/ y.nwords = x.nwords /\ y.sum = x.sum
         \/ x.count < HeaderCount /\ y.nwords = decoded.nwords /\ y.sum = decoded.sum
  BY <1>0, <1>1, HeaderWord
<1> HIDE DEF y
<1>3. HuffOK(y) BY <1>1, <1>2 DEF HuffOK
<1>4. HuffDone(x, y) BY <1>2, <1>3 DEF HuffDone, StoresOr, HuffSafe
<1>. QED BY <1>4, <1>2 DEF y, decoded, t

LEMMA HuffFemHeader ==
  ASSUME NEW x, HuffOK(x), x.status = "ok", NEW word \in ReadoutWord, Huff!ClassOf(word) = "F"
  PROVE  HuffDone(x, Huff!FemHeader(x, word))
<1> DEFINE e == Huff!StoreEvent(Huff!Flush(x))
           s == IF x.nwords # 0 /\ Huff!Complete(x) THEN e ELSE x
           p == Huff!ProcessPair(s, word)
           h == Huff!ProcessHeaderWord(s, word, Huff!DecodeFemHeader(Huff!Taken(s, word)))
<1>1. word[2] \in HeaderHalf /\ word # <<"EL">> BY HeaderPair DEF Huff!ClassOf
<1>2. HuffStep(x, s) /\ (s.file # x.file => s.status = "crash" \/ (s.info = NoInfo /\ s.count = 0))
  <2>1. CASE x.nwords # 0 /\ Huff!Complete(x)
    <3>1. x.info.nwords # 0 BY <2>1 DEF Huff!Complete
    <3>. QED BY <2>1, <3>1, HuffFlushStore
  <2>2. CASE ~(x.nwords # 0 /\ Huff!Complete(x))
    BY <2>2 DEF HuffStep, HuffSafe
  <2>. QED BY <2>1, <2>2
<1> HIDE DEF s
<1>3. HuffOK(s) BY <1>2 DEF HuffStep
<1>4. HuffStep(s, p) BY <1>1, <1>3, HuffPair
<1>5. s.info.nwords = 0 => HuffDone(s, h) /\ h.file = s.file /\ (s.count = 0 => h.info = s.info)
  BY <1>1, <1>3, HuffHeaderWord
<1> HIDE DEF p, h
<1>6. Huff!FemHeader(x, word) = IF s.status # "ok" THEN s ELSE IF s.info.nwords # 0 THEN p ELSE h
  BY DEF Huff!FemHeader, s, p, h
<1>7. CASE s.status # "ok" BY <1>6, <1>7, <1>2, HuffStepDone
<1>8. CASE s.status = "ok" /\ s.info.nwords # 0
  <2>1. HuffStep(x, p) BY <1>2, <1>4, <1>8, HuffStepsOn
  <2>. QED BY <1>6, <1>8, <2>1, HuffStepDone
<1>9. CASE s.status = "ok" /\ s.info.nwords = 0
  <2>1. HuffDone(s, h) /\ h.file = s.file /\ (s.count = 0 => h.info = s.info) BY <1>5, <1>9
  <2>2. HuffSafe(x, h) BY <2>1, <1>2 DEF HuffDone, HuffStep, HuffSafe
  <2>3. StoresOr(x, h)
    <3>1. CASE s.file = x.file BY <3>1, <2>1 DEF StoresOr
    <3>2. CASE s.file # x.file
      <4>1. s.info = NoInfo /\ h.info = NoInfo BY <3>2, <1>2, <1>9, <2>1
      <4>. QED BY <4>1, <3>2, <2>1, <1>2, NoInfoFields DEF StoresOr, HuffStep
    <3>. QED BY <3>1, <3>2
  <2>. QED BY <1>6, <1>9, <2>1, <2>2, <2>3 DEF HuffDone
<1>. QED BY <1>7, <1>8, <1>9

LEMMA HuffEventLast ==
  ASSUME NEW x, HuffOK(x), x.status = "ok"
  PROVE  HuffDone(x, Huff!EventLast(x))
<1> DEFINE e == Huff!StoreEvent(Huff!Flush(x))
           s == IF Huff!Complete(x) THEN e ELSE x
           k == [s EXCEPT !.status = "ok"]
           l == Huff!ProcessEventLastWord(k)
<1>1. HuffDone(x, s)
  BY HuffFlushStore DEF HuffDone, StoresOr, HuffSafe
<1>2. s.file # x.file /\ s.status # "crash" => s.info = NoInfo
  BY HuffFlushStore
<1> HIDE DEF s
<1>3. HuffOK(k) /\ k.file = s.file /\ k.attached = s.attached /\ k.info = s.info /\ k.status = "ok"
  BY <1>1 DEF HuffDone, HuffOK, HeaderOK, IsDecoder, DecoderFields
<1> HIDE DEF k
<1>4. HuffOK(l) /\ l.file = k.file /\ l.attached = k.attached /\ l.info = k.info /\ l.status # "crash"
  BY <1>3 DEF HuffOK, HeaderOK, IsDecoder, DecoderFields, Huff!ProcessEventLastWord, Huff!Fails
<1> HIDE DEF l
<1>5. Huff!EventLast(x) = IF s.status = "crash" THEN s ELSE l
  BY DEF Huff!EventLast, s, k, l
<1>6. CASE s.status = "crash" BY <1>5, <1>6, <1>1
<1>7. CASE s.status # "crash"
  <2>1. StoresOr(x, l) BY <1>1, <1>2, <1>3, <1>4, <1>7, NoInfoFields DEF HuffDone, StoresOr
  <2>2. HuffSafe(x, l) BY <1>1, <1>3, <1>4 DEF HuffDone, HuffSafe
  <2>. QED BY <1>5, <1>7, <1>4, <2>1, <2>2 DEF HuffDone
<1>. QED BY <1>6, <1>7

\* An event header that starts an event, also the first.
LEMMA HuffEventHeader ==
  ASSUME NEW x, HuffOK(x), x.status = "ok"
  PROVE  LET y == Huff!ProcessEventHeader([x EXCEPT !.search = FALSE])
         IN HuffDone(x, y) /\ y.attached /\ y.status # "crash"
<1> DEFINE s == [x EXCEPT !.search = FALSE]
           y == Huff!ProcessEventHeader(s)
<1>1. HuffOK(s) /\ s.file = x.file /\ s.attached = x.attached /\ s.info = x.info /\ s.status = "ok"
  BY DEF HuffOK, HeaderOK, IsDecoder, DecoderFields
<1> HIDE DEF s
<1>2. HuffOK(y) /\ y.file = x.file /\ y.attached /\ y.status # "crash"
  BY <1>1 DEF HuffOK, HeaderOK, IsDecoder, DecoderFields, Huff!ProcessEventHeader, Huff!Fails
<1> HIDE DEF y
<1>. QED BY <1>2 DEF HuffDone, StoresOr, HuffSafe, y, s

LEMMA HuffDispatch ==
  ASSUME NEW x, HuffOK(x), x.status = "ok", NEW word \in ReadoutWord
  PROVE  /\ HuffDone(x, Huff!Dispatch(x, word))
         /\ word = <<"EH">> /\ ~x.attached =>
              Huff!Dispatch(x, word).attached /\ Huff!Dispatch(x, word).status # "crash"
<1> DEFINE y == Huff!Dispatch(x, word)
           p == Huff!ProcessPair(x, word)
           b == Huff!ProcessEventHeader([x EXCEPT !.search = FALSE])
<1>0. word = <<"EH">> => Huff!ClassOf(word) = "EH" BY DEF Huff!ClassOf
<1>1. word # <<"EL">> => HuffDone(x, p) BY HuffPair, HuffStepDone
<1>2. HuffDone(x, b) /\ b.attached /\ b.status # "crash" BY HuffEventHeader
<1> HIDE DEF p, b
<1>3. CASE Huff!ClassOf(word) = "EH"
  <2>1. word # <<"EL">> BY <1>3 DEF Huff!ClassOf
  <2>2. y = IF Huff!StartsEvent(x) THEN b ELSE p BY <1>3 DEF Huff!Dispatch, p, b
  <2>3. ~x.attached => Huff!StartsEvent(x) BY DEF Huff!StartsEvent
  <2> HIDE DEF y
  <2>. QED BY <2>1, <2>2, <2>3, <1>1, <1>2 DEF y
<1>4. CASE Huff!ClassOf(word) = "F"
  BY <1>4, <1>0, HuffFemHeader DEF Huff!Dispatch
<1>5. CASE Huff!ClassOf(word) = "EL"
  BY <1>5, <1>0, HuffEventLast DEF Huff!Dispatch
<1>6. CASE Huff!ClassOf(word) \notin {"EH", "F", "EL"}
  <2>1. word # <<"EL">> BY <1>6 DEF Huff!ClassOf
  <2>2. y = p BY <1>6 DEF Huff!Dispatch, p
  <2>. QED BY <2>1, <2>2, <1>0, <1>6, <1>1
<1>. QED BY <1>3, <1>4, <1>5, <1>6

\* What a failure clears.
LEMMA HuffRecovered ==
  ASSUME NEW x, NEW z, HuffDone(x, z), NEW debug
  PROVE  LET y == Huff!Recovered(z, debug)
         IN HuffDone(x, y) /\ (z.attached /\ z.status # "crash" => y.attached /\ y.status # "crash")
<1> DEFINE r == [z EXCEPT !.search = @ \/ debug]
           c == Huff!ClearEvent(r)
<1>1. HuffOK(z) BY DEF HuffDone
<1>2. /\ IsDecoder(r) /\ r.file = z.file /\ r.attached = z.attached /\ r.status = z.status /\ r.info = z.info
      /\ r.header = z.header /\ r.count = z.count /\ r.nwords = z.nwords /\ r.sum = z.sum
  BY <1>1 DEF HuffOK, HeaderOK, IsDecoder, DecoderFields
<1> HIDE DEF r
<1>3. /\ IsDecoder(c)
      /\ c.file = r.file /\ c.attached = r.attached /\ c.header = r.header
      /\ c.nwords = r.nwords /\ c.sum = r.sum
      /\ r.attached => c.info = NoInfo /\ c.count = 0 /\ c.status = r.status
      /\ ~r.attached => c.info = r.info /\ c.count = r.count /\ c.status = "crash"
  BY <1>2, HuffClears
<1> HIDE DEF c
<1>4. HuffOK(c) BY <1>1, <1>2, <1>3, HeaderCountAssumption DEF HuffOK, HeaderOK
<1>5. HuffSafe(x, c) BY <1>2, <1>3 DEF HuffDone, HuffSafe
<1>6. StoresOr(x, c) BY <1>2, <1>3, NoInfoFields DEF HuffDone, StoresOr
<1>7. Huff!Recovered(z, debug) = IF z.status = "fail" THEN c ELSE z BY DEF Huff!Recovered, c, r
<1>. QED BY <1>2, <1>3, <1>4, <1>5, <1>6, <1>7 DEF HuffDone

LEMMA HuffWord ==
  ASSUME NEW x, HuffOK(x), NEW word \in ReadoutWord, NEW debug
  PROVE  LET y == Huff!ProcessWord(x, word, debug)
         IN /\ HuffOK(y) /\ StoresOr(x, y)
            /\ (x.attached \/ (word = <<"EH">> /\ ~x.search)) /\ NoneEmpty =>
                 y.attached /\ y.status # "crash"
<1> DEFINE d == [x EXCEPT !.status = "ok"]
           z == Huff!Dispatch(d, word)
           y == Huff!Recovered(z, debug)
           s == [d EXCEPT !.last = Huff!ClassOf(word)]
<1>1. HuffOK(d) /\ d.file = x.file /\ d.attached = x.attached /\ d.status = "ok" /\ d.search = x.search
  BY DEF HuffOK, HeaderOK, IsDecoder, DecoderFields
<1> HIDE DEF d
<1>2. /\ HuffDone(d, z)
      /\ word = <<"EH">> /\ ~d.attached => z.attached /\ z.status # "crash"
  BY <1>1, HuffDispatch
<1> HIDE DEF z
<1>3. HuffDone(d, y) /\ (z.attached /\ z.status # "crash" => y.attached /\ y.status # "crash")
  BY <1>2, HuffRecovered
<1>4. (x.attached \/ word = <<"EH">>) /\ NoneEmpty => y.attached /\ y.status # "crash"
  BY <1>1, <1>2, <1>3 DEF HuffDone, HuffSafe
<1> HIDE DEF y
<1>5. HuffOK(s) /\ s.file = x.file /\ s.attached = x.attached /\ s.status = "ok"
  BY <1>1 DEF HuffOK, HeaderOK, IsDecoder, DecoderFields
<1> HIDE DEF s
<1>6. Huff!ProcessWord(x, word, debug) =
        CASE word = Huff!Zero -> d
          [] word # Huff!Zero /\ Huff!Searching(d, Huff!ClassOf(word)) -> s
          [] OTHER -> y
  BY DEF Huff!ProcessWord, d, s, y, z
<1>7. CASE word = Huff!Zero
  <2>1. word # <<"EH">> BY <1>7 DEF Huff!Zero
  <2>. QED BY <1>6, <1>7, <2>1, <1>1 DEF StoresOr
<1>8. CASE word # Huff!Zero /\ Huff!Searching(d, Huff!ClassOf(word))
  <2>1. x.search BY <1>8, <1>1 DEF Huff!Searching
  <2>. QED BY <1>6, <1>8, <2>1, <1>5 DEF StoresOr
<1>9. CASE word # Huff!Zero /\ ~Huff!Searching(d, Huff!ClassOf(word))
  BY <1>6, <1>9, <1>1, <1>3, <1>4 DEF HuffDone, StoresOr
<1>. QED BY <1>7, <1>8, <1>9

(***************************************************************************)
(* The supernova stream                                                    *)
(***************************************************************************)

\* Its part of the Huffman decoder.
LEMMA SnSameClear ==
  ASSUME NEW x
  PROVE  Sn!Huffman!ClearEvent(x) = Huff!ClearEvent(x)
BY DEF Sn!Huffman!ClearEvent, Sn!Huffman!Tpc!ClearEvent, Sn!Huffman!Tpc!ClearHeader, Sn!Huffman!Tpc!Crashes,
       Sn!Huffman!Tpc!NoInfo, Sn!Huffman!Tpc!NoModule, Sn!Huffman!Tpc!NoNumber, Sn!Huffman!Tpc!NoChannel,
       Huff!ClearEvent, Huff!Tpc!ClearEvent, Huff!Tpc!ClearHeader, Huff!Tpc!Crashes,
       Huff!Tpc!NoInfo, Huff!Tpc!NoModule, Huff!Tpc!NoNumber, Huff!Tpc!NoChannel

LEMMA SnSameHeaderWord ==
  ASSUME NEW x, NEW word, NEW decoded
  PROVE  /\ Sn!Huffman!Taken(x, word) = Huff!Taken(x, word)
         /\ Sn!Huffman!ProcessHeaderWord(x, word, decoded) = Huff!ProcessHeaderWord(x, word, decoded)
BY DEF Sn!Huffman!ProcessHeaderWord, Sn!Huffman!Fails, Sn!Huffman!Crashes, Sn!Huffman!Taken,
       Huff!ProcessHeaderWord, Huff!Fails, Huff!Crashes, Huff!Taken

LEMMA SnSameRecovered ==
  ASSUME NEW z, NEW debug
  PROVE  Sn!Huffman!Recovered(z, debug) = Huff!Recovered(z, debug)
BY SnSameClear DEF Sn!Huffman!Recovered, Huff!Recovered

\* A step in a module's data.
SnKeeps(x, y) ==
  /\ HeaderOK(y) /\ y.file = x.file /\ y.attached = x.attached /\ y.info = x.info
  /\ x.attached /\ x.status # "crash" => y.status # "crash"
SnDone(x, y) == HeaderOK(y) /\ StoresOr(x, y) /\ HuffSafe(x, y)

LEMMA SnKeepsDone ==
  ASSUME NEW x, NEW y, SnKeeps(x, y)
  PROVE  SnDone(x, y)
BY DEF SnKeeps, SnDone, StoresOr, HuffSafe

LEMMA SnStoreChData ==
  ASSUME NEW x, HeaderOK(x)
  PROVE  SnKeeps(x, Sn!StoreChData(x))
<1> DEFINE n == [x EXCEPT !.ch.n = x.chlast]
           s == Sn!Huffman!StoreChData(n)
           c == Sn!Crashes(x)
<1>1. SnKeeps(x, n) BY DEF SnKeeps, HeaderOK, IsDecoder, DecoderFields
<1> HIDE DEF n
<1>2. SnKeeps(x, s) BY <1>1 DEF SnKeeps, HeaderOK, IsDecoder, DecoderFields, Sn!Huffman!StoreChData
<1>3. ~x.attached => SnKeeps(x, c) BY DEF SnKeeps, HeaderOK, IsDecoder, DecoderFields, Sn!Crashes
<1> HIDE DEF s, c
<1>. QED BY <1>2, <1>3 DEF Sn!StoreChData, n, s, c

LEMMA SnChWord ==
  ASSUME NEW x, HeaderOK(x), NEW half
  PROVE  SnKeeps(x, Sn!ProcessChWord(x, half))
<1> DEFINE c == Sn!StoreChData(x)
           b == Sn!BeginChannel(x, half)
           p == Sn!PacketTime(x, half)
           e == Sn!EndPacket(x, half)
           h == Sn!Huffman!DecodeChWord(x, half)
           d == CASE half[1] = "CH" -> b
                  [] half[1] = "CT" -> p
                  [] half[1] = "CP" -> e
                  [] half[1] \in {"N", "U", "CL"} -> x
                  [] OTHER -> h
           k == Sn!Huffman!Counted(d, half)
           l == [k EXCEPT !.last = Sn!KindOf(half)]
<1>0. SnKeeps(x, x) BY DEF SnKeeps
<1>1. SnKeeps(x, c) BY SnStoreChData
<1> HIDE DEF c
<1>2. SnKeeps(x, b)
  BY <1>1 DEF SnKeeps, HeaderOK, IsDecoder, DecoderFields, Sn!BeginChannel, Sn!Fails, c
<1>3. SnKeeps(x, p)
  BY DEF SnKeeps, HeaderOK, IsDecoder, DecoderFields, Sn!PacketTime, Sn!Fails
<1>4. SnKeeps(x, e)
  <2> DEFINE a == [x EXCEPT !.ch.samples = Append(@, half[2])]
  <2>1. SnKeeps(x, a) /\ a.status = x.status BY DEF SnKeeps, HeaderOK, IsDecoder, DecoderFields
  <2> HIDE DEF a
  <2>2. SnKeeps(a, Sn!StoreChData(a)) BY <2>1, SnStoreChData DEF SnKeeps
  <2>. QED BY <2>1, <2>2 DEF SnKeeps, Sn!EndPacket, a
<1>5. SnKeeps(x, h)
  BY DEF SnKeeps, HeaderOK, IsDecoder, DecoderFields, Sn!Huffman!DecodeChWord, Sn!Huffman!Fails
<1> HIDE DEF b, p, e, h
<1>6. SnKeeps(x, d) BY <1>0, <1>2, <1>3, <1>4, <1>5
<1> HIDE DEF d
<1>7. SnKeeps(x, k)
  BY <1>6 DEF SnKeeps, HeaderOK, IsDecoder, DecoderFields, Sn!Huffman!Counted
<1> HIDE DEF k
<1>8. SnKeeps(x, l)
  BY <1>7 DEF SnKeeps, HeaderOK, IsDecoder, DecoderFields
<1> HIDE DEF l
<1>. QED BY <1>0, <1>8 DEF Sn!ProcessChWord, b, p, e, h, d, k, l

LEMMA SnPair ==
  ASSUME NEW x, HeaderOK(x), NEW word
  PROVE  SnKeeps(x, Sn!ProcessPair(x, word))
<1> DEFINE d == Sn!ProcessChWord(x, Sn!Halves(word)[1])
           z == Sn!ProcessChWord(d, Sn!Halves(word)[2])
<1>1. SnKeeps(x, d) BY SnChWord
<1>2. SnKeeps(d, z) BY <1>1, SnChWord DEF SnKeeps
<1>3. Sn!ProcessPair(x, word) = IF d.status = "ok" THEN z ELSE d BY DEF Sn!ProcessPair, Sn!SecondHalf
<1> HIDE DEF d, z
<1>. QED BY <1>1, <1>2, <1>3 DEF SnKeeps

LEMMA SnStores ==
  ASSUME NEW x, HeaderOK(x)
  PROVE  LET y == Sn!Huffman!StoreEvent(x) IN SnDone(x, y)
<1> DEFINE c == [x EXCEPT !.allow = @ \/ Sn!Huffman!Fixable(x)]
           m == [c EXCEPT !.number = x.info.number]
           n == Sn!Huffman!NextEvent(m)
           f == Sn!Huffman!Fails(c)
           q == IF Sn!Huffman!QualityGood(x) THEN n ELSE f
           y == Huff!ClearEvent(q)
<1>1. SnKeeps(x, c) /\ c.status = x.status
  BY DEF SnKeeps, HeaderOK, IsDecoder, DecoderFields
<1> HIDE DEF c
<1>2. SnKeeps(x, m) /\ m.status = x.status BY <1>1 DEF SnKeeps, HeaderOK, IsDecoder, DecoderFields
<1> HIDE DEF m
<1>3. /\ HeaderOK(n) /\ n.attached = x.attached /\ n.info = x.info /\ n.status = x.status
      /\ OneMore(x.file, n.file)
  BY <1>2 DEF SnKeeps, HeaderOK, IsDecoder, DecoderFields, Sn!Huffman!NextEvent, OneMore
<1> HIDE DEF n
<1>4. SnKeeps(x, f) /\ f.status = "fail" BY <1>1 DEF SnKeeps, HeaderOK, IsDecoder, DecoderFields, Sn!Huffman!Fails
<1> HIDE DEF f
<1>5. /\ HeaderOK(q) /\ q.attached = x.attached
      /\ x.status # "crash" => q.status # "crash"
      /\ q.file = x.file \/ OneMore(x.file, q.file)
  BY <1>3, <1>4 DEF SnKeeps
<1> HIDE DEF q
<1>6. /\ IsDecoder(y)
      /\ y.file = q.file /\ y.attached = q.attached /\ y.header = q.header
      /\ q.attached => y.info = NoInfo /\ y.count = 0 /\ y.status = q.status
      /\ ~q.attached => y.info = q.info /\ y.count = q.count /\ y.status = "crash"
  BY <1>5, HuffClears DEF HeaderOK
<1> HIDE DEF y
<1>7. HeaderOK(y) BY <1>5, <1>6, HeaderCountAssumption DEF HeaderOK
<1>8. StoresOr(x, y) BY <1>5, <1>6, NoInfoFields DEF StoresOr
<1>9. HuffSafe(x, y) BY <1>5, <1>6 DEF HuffSafe
<1>10. Sn!Huffman!StoreEvent(x) = y BY SnSameClear DEF Sn!Huffman!StoreEvent, c, m, n, f, q, y
<1>. QED BY <1>7, <1>8, <1>9, <1>10 DEF SnDone

LEMMA SnHeaderPair ==
  ASSUME NEW word \in ReadoutWord, Sn!ClassOf(word) = "F"
  PROVE  word[2] \in HeaderHalf
<1>1. word # <<"EH">> /\ word # <<"EL">> BY DEF Sn!ClassOf
<1>2. PICK a \in HalfWord \ {AllOnes}, b \in HalfWord : word = <<"P", a, b>>
  BY <1>1 DEF ReadoutWord, PairWord
<1>3. a # Sn!AllOnes BY DEF AllOnes, Sn!AllOnes
<1>4. a[1] = "F" BY <1>2, <1>3 DEF Sn!ClassOf, Sn!KindOf
<1>. QED BY <1>2, <1>4, HalfKinds

LEMMA SnFemHeader ==
  ASSUME NEW x, HeaderOK(x), NEW word \in ReadoutWord, Sn!ClassOf(word) = "F"
  PROVE  SnDone(x, Sn!FemHeader(x, word))
<1> DEFINE p == Sn!ProcessPair(x, word)
           t == Huff!Taken(x, word)
           decoded == Sn!DecodeSnHeader(t)
           h == Huff!ProcessHeaderWord(x, word, decoded)
<1>0. x.count \in 0 .. HeaderCount /\ HeaderCount \in Nat /\ HeaderCount > 5
  BY HeaderCountAssumption DEF HeaderOK
<1>1. word[2] \in HeaderHalf BY SnHeaderPair
<1>2. SnDone(x, p) BY SnPair, SnKeepsDone
<1>3. x.count < HeaderCount =>
        /\ x.count + 1 >= HeaderCount => HeaderOK(decoded)
        /\ decoded.file = x.file /\ decoded.attached = x.attached
        /\ decoded.status \in {"throw", x.status}
  <2> SUFFICES ASSUME x.count < HeaderCount
               PROVE  /\ x.count + 1 >= HeaderCount => HeaderOK(decoded)
                      /\ decoded.file = x.file /\ decoded.attached = x.attached
                      /\ decoded.status = x.status
    OBVIOUS
  <2>1. /\ IsDecoder(t) /\ t.header \in Seq(HeaderHalf) /\ t.count = x.count + 1
        /\ t.count <= Len(t.header)
        /\ t.file = x.file /\ t.attached = x.attached /\ t.info = x.info
        /\ t.nwords = x.nwords /\ t.sum = x.sum /\ t.status = x.status
    BY <1>1, HeaderTaken
  <2> HIDE DEF t
  <2>2. /\ IsDecoder(decoded) /\ decoded.file = t.file /\ decoded.attached = t.attached
        /\ decoded.header = t.header /\ decoded.count = t.count /\ decoded.status = t.status
        /\ decoded.info.nwords = Sn!FieldOf(t.header, 2, "nwords")
    BY <2>1 DEF IsDecoder, DecoderFields, InfoFields, Sn!DecodeSnHeader
  <2> HIDE DEF decoded
  <2>3. ASSUME x.count + 1 >= HeaderCount PROVE HeaderOK(decoded)
    <3>1. 2 <= Len(t.header) BY <2>1, <2>3, <1>0
    <3>2. Sn!FieldOf(t.header, 2, "nwords") = FieldOf(t.header, 2, "nwords")
      BY DEF Sn!FieldOf, FieldOf, Sn!Garbled, Garbled
    <3>3. NoneEmpty => decoded.info.nwords # 0 BY <3>1, <3>2, <2>1, <2>2, HeaderField
    <3>4. decoded.count \in 0 .. HeaderCount BY <2>1, <2>2, <1>0
    <3>. QED BY <3>3, <3>4, <2>1, <2>2 DEF HeaderOK
  <2>. QED BY <2>1, <2>2, <2>3
<1> HIDE DEF t, decoded, p
<1>4. x.info.nwords = 0 =>
        /\ HeaderOK(h) /\ h.file = x.file /\ h.attached = x.attached
        /\ NoneEmpty /\ x.status # "crash" => h.status # "crash"
  BY <1>1, <1>3, HeaderWord
<1> HIDE DEF h
<1>5. x.info.nwords = 0 => SnDone(x, h) BY <1>4 DEF SnDone, StoresOr, HuffSafe
<1>6. Sn!FemHeader(x, word) = IF x.info.nwords # 0 THEN p ELSE h
  BY SnSameHeaderWord DEF Sn!FemHeader, p, t, decoded, h
<1>. QED BY <1>2, <1>5, <1>6

LEMMA SnEventLast ==
  ASSUME NEW x, HeaderOK(x), x.status = "ok", NEW word
  PROVE  SnDone(x, Sn!EventLast(x, word))
<1>1. ASSUME NEW z, SnKeeps(x, z) PROVE SnDone(x, Sn!ProcessEventLastWord(z))
  <2> DEFINE l == [z EXCEPT !.last = "EL"]
             y == Sn!Huffman!StoreEvent(l)
  <2>1. SnKeeps(x, l) BY <1>1 DEF SnKeeps, HeaderOK, IsDecoder, DecoderFields
  <2> HIDE DEF l
  <2>2. SnDone(l, y) BY <2>1, SnStores DEF SnKeeps
  <2> HIDE DEF y
  <2>3. SnDone(x, y) BY <2>1, <2>2 DEF SnKeeps, SnDone, StoresOr, HuffSafe
  <2>. QED BY <2>3 DEF Sn!ProcessEventLastWord, l, y
<1>2. SnKeeps(x, x) BY DEF SnKeeps
<1>3. SnKeeps(x, Sn!StoreChData(x)) BY SnStoreChData
<1>4. SnDone(x, Sn!ProcessPair(x, word)) BY SnPair, SnKeepsDone
<1>5. ~x.attached => SnDone(x, Sn!Crashes(x))
  BY DEF SnDone, StoresOr, HuffSafe, HeaderOK, IsDecoder, DecoderFields, Sn!Crashes
<1>6. SnDone(x, Sn!ProcessEventLastWord(x)) BY <1>1, <1>2
<1>7. SnDone(x, Sn!ProcessEventLastWord(Sn!StoreChData(x))) BY <1>1, <1>3
<1>. QED BY <1>4, <1>5, <1>6, <1>7 DEF Sn!EventLast

LEMMA SnEventHeader ==
  ASSUME NEW x, HeaderOK(x), x.status = "ok"
  PROVE  LET y == Sn!Huffman!ProcessEventHeader([x EXCEPT !.search = FALSE])
         IN SnDone(x, y) /\ y.attached /\ y.status # "crash"
<1> DEFINE s == [x EXCEPT !.search = FALSE]
           y == Sn!Huffman!ProcessEventHeader(s)
<1>1. HeaderOK(s) /\ s.file = x.file /\ s.attached = x.attached /\ s.info = x.info /\ s.status = "ok"
  BY DEF HeaderOK, IsDecoder, DecoderFields
<1> HIDE DEF s
<1>2. HeaderOK(y) /\ y.file = x.file /\ y.attached /\ y.status # "crash"
  BY <1>1 DEF HeaderOK, IsDecoder, DecoderFields, Sn!Huffman!ProcessEventHeader, Sn!Huffman!Fails
<1> HIDE DEF y
<1>. QED BY <1>2 DEF SnDone, StoresOr, HuffSafe, y, s

LEMMA SnDispatch ==
  ASSUME NEW x, HeaderOK(x), x.status = "ok", NEW word \in ReadoutWord
  PROVE  /\ SnDone(x, Sn!Dispatch(x, word))
         /\ word = <<"EH">> /\ ~x.attached =>
              Sn!Dispatch(x, word).attached /\ Sn!Dispatch(x, word).status # "crash"
<1> DEFINE y == Sn!Dispatch(x, word)
           p == Sn!ProcessPair(x, word)
           b == Sn!Huffman!ProcessEventHeader([x EXCEPT !.search = FALSE])
<1>0. word = <<"EH">> => Sn!ClassOf(word) = "EH" BY DEF Sn!ClassOf
<1>1. SnDone(x, p) BY SnPair, SnKeepsDone
<1>2. SnDone(x, b) /\ b.attached /\ b.status # "crash" BY SnEventHeader
<1> HIDE DEF p, b
<1>3. CASE Sn!ClassOf(word) = "EH"
  <2>2. y = IF Sn!Huffman!StartsEvent(x) THEN b ELSE p BY <1>3 DEF Sn!Dispatch, p, b
  <2>3. ~x.attached => Sn!Huffman!StartsEvent(x) BY DEF Sn!Huffman!StartsEvent
  <2> HIDE DEF y
  <2>. QED BY <2>2, <2>3, <1>1, <1>2 DEF y
<1>4. CASE Sn!ClassOf(word) = "F"
  BY <1>4, <1>0, SnFemHeader DEF Sn!Dispatch
<1>5. CASE Sn!ClassOf(word) = "EL"
  BY <1>5, <1>0, SnEventLast DEF Sn!Dispatch
<1>6. CASE Sn!ClassOf(word) \notin {"EH", "F", "EL"}
  <2>1. y = p BY <1>6 DEF Sn!Dispatch, p
  <2>. QED BY <2>1, <1>0, <1>6, <1>1
<1>. QED BY <1>3, <1>4, <1>5, <1>6

LEMMA SnRecovered ==
  ASSUME NEW x, NEW z, SnDone(x, z), NEW debug
  PROVE  LET y == Sn!Huffman!Recovered(z, debug)
         IN SnDone(x, y) /\ (z.attached /\ z.status # "crash" => y.attached /\ y.status # "crash")
<1> DEFINE r == [z EXCEPT !.search = @ \/ debug]
           c == Huff!ClearEvent(r)
<1>1. HeaderOK(z) BY DEF SnDone
<1>2. /\ IsDecoder(r) /\ r.file = z.file /\ r.attached = z.attached /\ r.status = z.status /\ r.info = z.info
      /\ r.header = z.header /\ r.count = z.count
  BY <1>1 DEF HeaderOK, IsDecoder, DecoderFields
<1> HIDE DEF r
<1>3. /\ IsDecoder(c)
      /\ c.file = r.file /\ c.attached = r.attached /\ c.header = r.header
      /\ r.attached => c.info = NoInfo /\ c.count = 0 /\ c.status = r.status
      /\ ~r.attached => c.info = r.info /\ c.count = r.count /\ c.status = "crash"
  BY <1>2, HuffClears
<1> HIDE DEF c
<1>4. HeaderOK(c) BY <1>1, <1>2, <1>3, HeaderCountAssumption DEF HeaderOK
<1>5. HuffSafe(x, c) BY <1>2, <1>3 DEF SnDone, HuffSafe
<1>6. StoresOr(x, c) BY <1>2, <1>3, NoInfoFields DEF SnDone, StoresOr
<1>7. Sn!Huffman!Recovered(z, debug) = IF z.status = "fail" THEN c ELSE z
  BY SnSameRecovered DEF Huff!Recovered, c, r
<1>. QED BY <1>2, <1>3, <1>4, <1>5, <1>6, <1>7 DEF SnDone

LEMMA SnWord ==
  ASSUME NEW x, HeaderOK(x), NEW word \in ReadoutWord, NEW debug
  PROVE  LET y == Sn!ProcessWord(x, word, debug)
         IN /\ HeaderOK(y) /\ StoresOr(x, y)
            /\ (x.attached \/ (word = <<"EH">> /\ ~x.search)) /\ NoneEmpty =>
                 y.attached /\ y.status # "crash"
<1> DEFINE d == [x EXCEPT !.status = "ok"]
           z == Sn!Dispatch(d, word)
           y == Sn!Huffman!Recovered(z, debug)
           s == [d EXCEPT !.last = Sn!ClassOf(word)]
<1>1. HeaderOK(d) /\ d.file = x.file /\ d.attached = x.attached /\ d.status = "ok" /\ d.search = x.search
  BY DEF HeaderOK, IsDecoder, DecoderFields
<1> HIDE DEF d
<1>2. /\ SnDone(d, z)
      /\ word = <<"EH">> /\ ~d.attached => z.attached /\ z.status # "crash"
  BY <1>1, SnDispatch
<1> HIDE DEF z
<1>3. SnDone(d, y) /\ (z.attached /\ z.status # "crash" => y.attached /\ y.status # "crash")
  BY <1>2, SnRecovered
<1>4. (x.attached \/ word = <<"EH">>) /\ NoneEmpty => y.attached /\ y.status # "crash"
  BY <1>1, <1>2, <1>3 DEF SnDone, HuffSafe
<1> HIDE DEF y
<1>5. HeaderOK(s) /\ s.file = x.file /\ s.attached = x.attached /\ s.status = "ok"
  BY <1>1 DEF HeaderOK, IsDecoder, DecoderFields
<1> HIDE DEF s
<1>6. Sn!ProcessWord(x, word, debug) =
        CASE word = Sn!Huffman!Zero -> d
          [] word # Sn!Huffman!Zero /\ Sn!Huffman!Searching(d, Sn!ClassOf(word)) -> s
          [] OTHER -> y
  BY DEF Sn!ProcessWord, d, s, y, z
<1>7. CASE word = Sn!Huffman!Zero
  <2>1. word # <<"EH">> BY <1>7 DEF Sn!Huffman!Zero
  <2>. QED BY <1>6, <1>7, <2>1, <1>1 DEF StoresOr
<1>8. CASE word # Sn!Huffman!Zero /\ Sn!Huffman!Searching(d, Sn!ClassOf(word))
  <2>1. x.search BY <1>8, <1>1 DEF Sn!Huffman!Searching
  <2>. QED BY <1>6, <1>8, <2>1, <1>5 DEF StoresOr
<1>9. CASE word # Sn!Huffman!Zero /\ ~Sn!Huffman!Searching(d, Sn!ClassOf(word))
  BY <1>6, <1>9, <1>1, <1>3, <1>4 DEF SnDone, StoresOr
<1>. QED BY <1>7, <1>8, <1>9

(***************************************************************************)
(* The handler                                                             *)
(***************************************************************************)

HandlerFields == {"rest", "ended", "eof", "buffer", "front", "word", "broken"}

\* What the handler holds; a file that has ended has no words left.
HandlerOK(h, mode, W) ==
  /\ DOMAIN h = HandlerFields
  /\ h.rest \in Seq(W) /\ h.buffer \in Seq(W)
  /\ h.word \in W /\ h.front \in W \union {NoWord}
  /\ h.ended => h.rest = <<>>
  /\ h.eof => h.ended
  /\ mode = "word" => h.buffer = <<>>
  /\ mode # "block" /\ h.eof => h.buffer = <<>>

\* A read takes the first of the words left.
TakesNext(h, r) ==
  IF Unread(h) = <<>> THEN r.eof /\ Unread(r) = <<>>
  ELSE r.word = Head(Unread(h)) /\ Unread(r) = Tail(Unread(h))

LEMMA ConcatHeadTail ==
  ASSUME NEW W, NEW s \in Seq(W), NEW t \in Seq(W), s # <<>>
  PROVE  s \o t # <<>> /\ Head(s \o t) = Head(s) /\ Tail(s \o t) = Tail(s) \o t
<1>1. Len(s) \in Nat \ {0} /\ Len(t) \in Nat BY EmptySeq, LenProperties
<1>2. s \o t \in Seq(W) /\ Len(s \o t) = Len(s) + Len(t)
      /\ \A i \in 1 .. Len(s) + Len(t) : (s \o t)[i] = IF i <= Len(s) THEN s[i] ELSE t[i - Len(s)]
  BY ConcatProperties
<1>3. Len(s \o t) # 0 BY <1>1, <1>2
<1>4. s \o t # <<>> BY <1>3
<1>5. Head(s \o t) = (s \o t)[1] /\ Head(s) = s[1] BY <1>4
<1>6. (s \o t)[1] = s[1] BY <1>1, <1>2
<1>7. Tail(s) \in Seq(W) /\ Len(Tail(s)) = Len(s) - 1
      /\ \A i \in 1 .. Len(Tail(s)) : Tail(s)[i] = s[i + 1]
  BY HeadTailProperties
<1>8. Tail(s \o t) \in Seq(W) /\ Len(Tail(s \o t)) = Len(s) + Len(t) - 1
      /\ \A i \in 1 .. Len(Tail(s \o t)) : Tail(s \o t)[i] = (s \o t)[i + 1]
  <2> HIDE <1>5
  <2>. QED BY <1>2, <1>4, HeadTailProperties
<1>9. Tail(s) \o t \in Seq(W) /\ Len(Tail(s) \o t) = Len(s) - 1 + Len(t)
      /\ \A i \in 1 .. Len(s) - 1 + Len(t) :
           (Tail(s) \o t)[i] = IF i <= Len(s) - 1 THEN Tail(s)[i] ELSE t[i - (Len(s) - 1)]
  BY <1>7, ConcatProperties
<1>10. ASSUME NEW i \in 1 .. Len(Tail(s \o t)) PROVE Tail(s \o t)[i] = (Tail(s) \o t)[i]
  <2>1. i \in 1 .. Len(s) + Len(t) - 1 /\ i + 1 \in 1 .. Len(s) + Len(t) BY <1>8, <1>1
  <2>2. Tail(s \o t)[i] = (s \o t)[i + 1] BY <1>8
  <2>3. CASE i <= Len(s) - 1
    <3>1. (s \o t)[i + 1] = s[i + 1] BY <2>1, <2>3, <1>2, <1>1
    <3>2. Tail(s)[i] = s[i + 1] BY <2>1, <2>3, <1>7, <1>1
    <3>. QED BY <3>1, <3>2, <2>1, <2>2, <2>3, <1>9, <1>1
  <2>4. CASE ~(i <= Len(s) - 1)
    <3>1. (s \o t)[i + 1] = t[i + 1 - Len(s)] BY <2>1, <2>4, <1>2, <1>1
    <3>2. i + 1 - Len(s) = i - (Len(s) - 1) BY <2>1, <1>1
    <3>. QED BY <3>1, <3>2, <2>1, <2>2, <2>4, <1>9, <1>1
  <2>. QED BY <2>3, <2>4
<1>11. Tail(s \o t) = Tail(s) \o t
  <2>1. Len(Tail(s \o t)) = Len(Tail(s) \o t) BY <1>8, <1>9, <1>1
  <2>. QED BY <2>1, <1>8, <1>9, <1>10, SeqEqual
<1>. QED BY <1>4, <1>5, <1>6, <1>11

LEMMA ReadWordNext ==
  ASSUME NEW W, EmptyWord \in W, NEW h, HandlerOK(h, "word", W)
  PROVE  LET r == ReadWord(h)
         IN /\ HandlerOK(r, "word", W) /\ TakesNext(h, r)
            /\ r.broken = h.broken /\ r.front = h.front
            /\ ~h.eof /\ Unread(h) # <<>> => ~r.eof
<1> DEFINE r == ReadWord(h)
           e == [h EXCEPT !.word = EmptyWord]
           f == [h EXCEPT !.eof = TRUE, !.ended = TRUE, !.word = EmptyWord]
           n == [h EXCEPT !.word = Head(h.rest), !.rest = Tail(h.rest)]
<1>0. h.rest \in Seq(W) /\ h.buffer = <<>> BY DEF HandlerOK
<1>1. <<>> \o h.rest = h.rest BY <1>0, ConcatEmptySeq
<1>2. Unread(h) = h.rest BY <1>0, <1>1 DEF Unread
<1>3. CASE h.eof
  <2>1. r = e BY <1>3 DEF ReadWord
  <2>2. HandlerOK(e, "word", W) /\ e.eof /\ e.rest = h.rest /\ e.buffer = <<>>
        /\ e.broken = h.broken /\ e.front = h.front
    BY <1>3, <1>0 DEF HandlerOK, HandlerFields
  <2>3. h.rest = <<>> BY <1>3 DEF HandlerOK
  <2>4. Unread(e) = <<>> BY <2>2, <2>3, <1>1 DEF Unread
  <2> HIDE DEF e, r
  <2>. QED BY <2>1, <2>2, <2>3, <2>4, <1>2, <1>3 DEF TakesNext, r
<1>4. CASE ~h.eof /\ h.rest = <<>>
  <2>1. r = f BY <1>4 DEF ReadWord
  <2>2. HandlerOK(f, "word", W) /\ f.eof /\ f.rest = <<>> /\ f.buffer = <<>>
        /\ f.broken = h.broken /\ f.front = h.front
    BY <1>4, <1>0 DEF HandlerOK, HandlerFields
  <2>3. Unread(f) = <<>> BY <2>2, <1>4, <1>1 DEF Unread
  <2> HIDE DEF f, r
  <2>. QED BY <2>1, <2>2, <2>3, <1>2, <1>4 DEF TakesNext, r
<1>5. CASE ~h.eof /\ h.rest # <<>>
  <2>1. r = n BY <1>5 DEF ReadWord
  <2>2. Head(h.rest) \in W /\ Tail(h.rest) \in Seq(W) BY <1>5, <1>0, HeadTailProperties
  <2>3. HandlerOK(n, "word", W) /\ ~n.eof /\ n.rest = Tail(h.rest) /\ n.buffer = <<>> /\ n.word = Head(h.rest)
        /\ n.broken = h.broken /\ n.front = h.front
    BY <1>5, <1>0, <2>2 DEF HandlerOK, HandlerFields
  <2>4. <<>> \o Tail(h.rest) = Tail(h.rest) BY <2>2, ConcatEmptySeq
  <2>5. Unread(n) = Tail(h.rest) BY <2>3, <2>4 DEF Unread
  <2> HIDE DEF n, r
  <2>. QED BY <2>1, <2>3, <2>5, <1>2, <1>5 DEF TakesNext, r
<1>. QED BY <1>3, <1>4, <1>5

LEMMA FromBufferNext ==
  ASSUME NEW W, NEW h, NEW mode \in {"block", "sized"}, DOMAIN h = HandlerFields,
         h.rest \in Seq(W), h.buffer \in Seq(W), h.buffer # <<>>, h.front \in W \union {NoWord},
         h.ended => h.rest = <<>>, h.eof => h.ended,
         mode # "block" => ~h.eof
  PROVE  LET r == FromBuffer(h)
         IN /\ HandlerOK(r, mode, W)
            /\ Unread(h) # <<>> /\ r.word = Head(Unread(h)) /\ Unread(r) = Tail(Unread(h))
            /\ r.broken = h.broken /\ r.front = h.front /\ r.eof = h.eof
<1> DEFINE r == FromBuffer(h)
<1>1. Head(h.buffer) \in W /\ Tail(h.buffer) \in Seq(W) BY HeadTailProperties
<1>2. h.buffer \o h.rest # <<>> /\ Head(h.buffer \o h.rest) = Head(h.buffer)
      /\ Tail(h.buffer \o h.rest) = Tail(h.buffer) \o h.rest
  BY ConcatHeadTail
<1>3. DOMAIN r = HandlerFields /\ r.rest = h.rest /\ r.buffer = Tail(h.buffer) /\ r.word = Head(h.buffer)
      /\ r.broken = h.broken /\ r.front = h.front /\ r.eof = h.eof /\ r.ended = h.ended
  BY DEF FromBuffer, HandlerFields
<1> HIDE DEF r
<1>4. HandlerOK(r, mode, W) BY <1>1, <1>3 DEF HandlerOK
<1>. QED BY <1>2, <1>3, <1>4 DEF Unread, r

\* A block and what is behind it are the words there were.
LEMMA BlockAndPast ==
  ASSUME NEW W, NEW h, h.rest \in Seq(W), NEW size \in Nat \ {0}
  PROVE  /\ Block(h, size) \in Seq(W) /\ PastBlock(h, size) \in Seq(W)
         /\ Block(h, size) \o PastBlock(h, size) = h.rest
         /\ h.rest # <<>> => Block(h, size) # <<>>
         /\ Len(h.rest) < size \/ h.rest = <<>> => PastBlock(h, size) = <<>>
         /\ h.rest = <<>> => Block(h, size) = <<>> /\ Len(h.rest) < size
<1> DEFINE k == BlockSize(h, size)
           n == Len(h.rest)
<1>1. n \in Nat /\ (h.rest # <<>> => n \in Nat \ {0}) /\ (h.rest = <<>> => n = 0)
  BY EmptySeq, LenProperties
<1>2. k \in 0 .. n /\ (h.rest # <<>> => k \in 1 .. n) /\ (n < size \/ h.rest = <<>> => k = n)
  BY <1>1 DEF BlockSize
<1> HIDE DEF k, n
<1>3. \A i \in 1 .. n : h.rest[i] \in W BY ElementOfSeq DEF n
<1>4. SubSeq(h.rest, 1, k) \in Seq(W) /\ Len(SubSeq(h.rest, 1, k)) = k
  <2>1. \A i \in 1 .. k : h.rest[i] \in W BY <1>1, <1>2, <1>3
  <2>2. Len(SubSeq(h.rest, 1, k)) = IF 1 <= k THEN k - 1 + 1 ELSE 0
    BY <2>1, <1>1, <1>2, SubSeqProperties
  <2>. QED BY <2>1, <2>2, <1>1, <1>2, SubSeqProperties
<1>5. SubSeq(h.rest, k + 1, n) \in Seq(W)
  <2>1. \A i \in k + 1 .. n : h.rest[i] \in W BY <1>1, <1>2, <1>3
  <2>. QED BY <2>1, <1>1, <1>2, SubSeqProperties
<1>6. SubSeq(h.rest, 1, k) \o SubSeq(h.rest, k + 1, n) = h.rest
  <2>1. 1 \in 1 .. n + 1 /\ k \in 1 - 1 .. n /\ n \in k .. n BY <1>1, <1>2
  <2>2. SubSeq(h.rest, 1, k) \o SubSeq(h.rest, k + 1, n) = SubSeq(h.rest, 1, n)
    BY <2>1, ConcatAdjacentSubSeq DEF n
  <2>. QED BY <2>2, SubSeqFull DEF n
<1>7. h.rest # <<>> => SubSeq(h.rest, 1, k) # <<>> BY <1>2, <1>4, <1>1
<1>8. n < size \/ h.rest = <<>> => SubSeq(h.rest, k + 1, n) = <<>>
  BY <1>1, <1>2, SubSeqEmpty
<1>9. h.rest = <<>> => SubSeq(h.rest, 1, k) = <<>> /\ n < size
  BY <1>1, <1>2, SubSeqEmpty
<1>. QED BY <1>4, <1>5, <1>6, <1>7, <1>8, <1>9 DEF Block, PastBlock, k, n

LEMMA ReadBlockNext ==
  ASSUME NEW W, EmptyWord \in W, NEW h, HandlerOK(h, "block", W), h.buffer = <<>>, ~h.ended,
         NEW size \in Nat \ {0}
  PROVE  LET r == ReadBlock(h, size)
         IN /\ HandlerOK(r, "block", W) /\ TakesNext(h, r)
            /\ r.broken = h.broken
            /\ Len(h.rest) >= size => ~r.eof
<1> DEFINE short == Len(h.rest) < size
           first == IF h.rest = <<>> THEN EmptyWord ELSE Head(h.rest)
           b == [h EXCEPT !.rest = PastBlock(h, size), !.eof = short, !.ended = short,
                          !.buffer = Block(h, size), !.front = first]
           e == [b EXCEPT !.word = EmptyWord]
           r == ReadBlock(h, size)
<1>0. h.rest \in Seq(W) /\ Len(h.rest) \in Nat BY LenProperties DEF HandlerOK
<1>1. /\ Block(h, size) \in Seq(W) /\ PastBlock(h, size) \in Seq(W)
      /\ Block(h, size) \o PastBlock(h, size) = h.rest
      /\ h.rest # <<>> => Block(h, size) # <<>>
      /\ short \/ h.rest = <<>> => PastBlock(h, size) = <<>>
      /\ h.rest = <<>> => Block(h, size) = <<>> /\ short
  BY <1>0, BlockAndPast
<1>2. first \in W BY <1>0, HeadTailProperties
<1>3. <<>> \o h.rest = h.rest BY <1>0, ConcatEmptySeq
<1>4. Unread(h) = h.rest BY <1>3 DEF Unread
<1> HIDE DEF first
<1>5. /\ DOMAIN b = HandlerFields /\ b.rest = PastBlock(h, size) /\ b.buffer = Block(h, size) /\ b.front = first
      /\ b.word = h.word /\ b.broken = h.broken /\ b.eof = short /\ b.ended = short
  BY DEF HandlerOK, HandlerFields
<1>6. r = IF h.rest = <<>> THEN e ELSE FromBuffer(b) BY DEF ReadBlock, first
<1>9. Len(h.rest) >= size => ~b.eof
  <2>1. Len(h.rest) >= size => ~short BY <1>0
  <2>. QED BY <2>1, <1>5
<1>7. CASE h.rest = <<>>
  <2>1. /\ DOMAIN e = HandlerFields /\ e.rest = <<>> /\ e.buffer = <<>> /\ e.front = first
        /\ e.word = EmptyWord /\ e.broken = h.broken /\ e.eof /\ e.ended
    BY <1>5, <1>7, <1>1 DEF HandlerFields
  <2> HIDE DEF e, b
  <2>2. HandlerOK(e, "block", W) BY <2>1, <1>1, <1>2, <1>7 DEF HandlerOK
  <2>3. Unread(e) = <<>> BY <2>1, <1>7, <1>3 DEF Unread
  <2> HIDE DEF r
  <2>. QED BY <2>1, <2>2, <2>3, <1>6, <1>7, <1>4, <1>1, <1>0 DEF TakesNext, r
<1>8. CASE h.rest # <<>>
  <2> HIDE DEF b
  <2>1. Unread(b) = h.rest BY <1>1, <1>5 DEF Unread
  <2> DEFINE q == FromBuffer(b)
  <2>2. /\ HandlerOK(q, "block", W)
        /\ Unread(b) # <<>> /\ q.word = Head(Unread(b)) /\ Unread(q) = Tail(Unread(b))
        /\ q.broken = b.broken /\ q.front = b.front /\ q.eof = b.eof
    BY <1>1, <1>2, <1>5, <1>8, FromBufferNext
  <2> HIDE DEF q
  <2>3. r = q BY <1>6, <1>8 DEF q
  <2> HIDE DEF r
  <2>. QED BY <2>1, <2>2, <2>3, <1>5, <1>4, <1>8, <1>9 DEF TakesNext, r
<1>. QED BY <1>7, <1>8

LEMMA ReadSizedNext ==
  ASSUME NEW W, EmptyWord \in W, NoWord \notin W, NEW h, HandlerOK(h, "sized", W), h.buffer = <<>>,
         ~h.ended, NEW size \in Nat \ {0}
  PROVE  LET r == ReadSized(h, size)
         IN /\ HandlerOK(r, "sized", W) /\ TakesNext(h, r)
            /\ r.broken => h.broken \/ (h.front = NoWord /\ h.rest = <<>>)
            /\ h.rest # <<>> \/ h.front # NoWord => r.front # NoWord
            /\ h.rest # <<>> => ~r.eof
<1> DEFINE none == h.front = NoWord
           e == [h EXCEPT !.eof = TRUE, !.ended = TRUE, !.buffer = <<>>,
                          !.word = IF none THEN EmptyWord ELSE h.front, !.broken = none]
           b == [h EXCEPT !.rest = PastBlock(h, size), !.buffer = Block(h, size), !.front = Head(h.rest)]
           r == ReadSized(h, size)
<1>0. h.rest \in Seq(W) /\ h.front \in W \union {NoWord} BY DEF HandlerOK
<1>1. /\ Block(h, size) \in Seq(W) /\ PastBlock(h, size) \in Seq(W)
      /\ Block(h, size) \o PastBlock(h, size) = h.rest
      /\ h.rest # <<>> => Block(h, size) # <<>>
  BY <1>0, BlockAndPast
<1>3. <<>> \o h.rest = h.rest BY <1>0, ConcatEmptySeq
<1>4. Unread(h) = h.rest BY <1>3 DEF Unread
<1>6. r = IF h.rest = <<>> THEN e ELSE FromBuffer(b) BY DEF ReadSized
<1>7. CASE h.rest = <<>>
  <2>1. /\ DOMAIN e = HandlerFields /\ e.rest = <<>> /\ e.buffer = <<>> /\ e.front = h.front
        /\ e.word = (IF none THEN EmptyWord ELSE h.front) /\ (e.broken => none) /\ e.eof /\ e.ended
    BY <1>7 DEF HandlerOK, HandlerFields
  <2> HIDE DEF e
  <2>2. e.word \in W BY <2>1, <1>0
  <2>3. HandlerOK(e, "sized", W) BY <2>1, <2>2, <1>0, <1>7 DEF HandlerOK
  <2>4. Unread(e) = <<>> BY <2>1, <1>7, <1>3 DEF Unread
  <2> HIDE DEF r
  <2>. QED BY <2>1, <2>3, <2>4, <1>6, <1>7, <1>4 DEF TakesNext, r
<1>8. CASE h.rest # <<>>
  <2>1. Head(h.rest) \in W BY <1>0, <1>8, HeadTailProperties
  <2>2. /\ DOMAIN b = HandlerFields /\ b.rest = PastBlock(h, size) /\ b.buffer = Block(h, size)
        /\ b.front = Head(h.rest) /\ b.word = h.word /\ b.broken = h.broken /\ b.eof = h.eof /\ b.ended = h.ended
    BY DEF HandlerOK, HandlerFields
  <2> HIDE DEF b
  <2>3. ~h.eof BY DEF HandlerOK
  <2>4. Unread(b) = h.rest BY <1>1, <2>2 DEF Unread
  <2> DEFINE q == FromBuffer(b)
  <2>5. /\ HandlerOK(q, "sized", W)
        /\ Unread(b) # <<>> /\ q.word = Head(Unread(b)) /\ Unread(q) = Tail(Unread(b))
        /\ q.broken = b.broken /\ q.front = b.front /\ q.eof = b.eof
    BY <1>1, <2>1, <2>2, <2>3, <1>8, FromBufferNext
  <2> HIDE DEF q
  <2>6. r = q BY <1>6, <1>8 DEF q
  <2> HIDE DEF r
  <2>. QED BY <2>1, <2>2, <2>3, <2>4, <2>5, <2>6, <1>4, <1>8 DEF TakesNext, r
<1>. QED BY <1>7, <1>8

\* Whichever way is read.
LEMMA ReadNext ==
  ASSUME NEW W, EmptyWord \in W, NoWord \notin W, NEW mode \in {"word", "block", "sized"},
         NEW h, HandlerOK(h, mode, W), NEW size \in Nat \ {0}
  PROVE  LET r == Read(h, mode, size)
         IN /\ HandlerOK(r, mode, W) /\ TakesNext(h, r)
            /\ r.broken => h.broken \/ (mode = "sized" /\ h.front = NoWord /\ h.rest = <<>>)
            /\ mode = "sized" /\ (h.front # NoWord \/ (h.buffer = <<>> /\ h.rest # <<>>)) => r.front # NoWord
            /\ ~h.eof /\ Unread(h) # <<>> /\ (mode = "block" => h.buffer = <<>> /\ Len(h.rest) >= size) =>
                 ~r.eof
<1> DEFINE r == Read(h, mode, size)
<1>0. h.rest \in Seq(W) /\ h.buffer \in Seq(W) BY DEF HandlerOK
<1>1. CASE mode = "word"
  <2>1. r = ReadWord(h) BY <1>1 DEF Read
  <2>2. HandlerOK(h, "word", W) BY <1>1
  <2>. QED BY <2>1, <2>2, <1>1, ReadWordNext
<1>2. CASE mode # "word" /\ h.buffer # <<>>
  <2>1. r = FromBuffer(h) BY <1>2 DEF Read
  <2>2. mode \in {"block", "sized"} BY <1>2
  <2>3. /\ DOMAIN h = HandlerFields /\ h.front \in W \union {NoWord}
        /\ h.ended => h.rest = <<>>
        /\ h.eof => h.ended
        /\ mode # "block" => ~h.eof
    BY <1>2 DEF HandlerOK
  <2> HIDE DEF r
  <2>4. /\ HandlerOK(r, mode, W)
        /\ Unread(h) # <<>> /\ r.word = Head(Unread(h)) /\ Unread(r) = Tail(Unread(h))
        /\ r.broken = h.broken /\ r.front = h.front /\ r.eof = h.eof
    BY <1>0, <2>1, <2>2, <2>3, <1>2, FromBufferNext
  <2>. QED BY <2>4, <1>2 DEF TakesNext, r
<1>3. CASE mode # "word" /\ h.buffer = <<>> /\ h.ended
  <2> DEFINE e == [h EXCEPT !.eof = TRUE, !.word = EmptyWord]
  <2>1. r = e BY <1>3 DEF Read
  <2>2. DOMAIN e = HandlerFields /\ e.rest = h.rest /\ e.buffer = h.buffer /\ e.eof /\ e.ended = h.ended
        /\ e.front = h.front /\ e.word = EmptyWord /\ e.broken = h.broken
    BY DEF HandlerOK, HandlerFields
  <2> HIDE DEF e
  <2>3. h.rest = <<>> BY <1>3 DEF HandlerOK
  <2>4. <<>> \o <<>> = <<>> BY <1>0, <2>3, ConcatEmptySeq
  <2>5. Unread(h) = <<>> /\ Unread(e) = <<>> BY <2>2, <2>3, <2>4, <1>3 DEF Unread
  <2>6. HandlerOK(e, mode, W) BY <2>2, <1>3 DEF HandlerOK
  <2> HIDE DEF r
  <2>. QED BY <2>1, <2>2, <2>3, <2>5, <2>6 DEF TakesNext, r
<1>4. CASE mode = "block" /\ h.buffer = <<>> /\ ~h.ended
  <2>1. r = ReadBlock(h, size) BY <1>4 DEF Read
  <2>2. HandlerOK(h, "block", W) BY <1>4
  <2>. QED BY <2>1, <2>2, <1>4, ReadBlockNext
<1>5. CASE mode = "sized" /\ h.buffer = <<>> /\ ~h.ended
  <2>1. r = ReadSized(h, size) BY <1>5 DEF Read
  <2>2. HandlerOK(h, "sized", W) BY <1>5
  <2>3. <<>> \o h.rest = h.rest BY <1>0, ConcatEmptySeq
  <2>4. Unread(h) = h.rest BY <2>3, <1>5 DEF Unread
  <2>. QED BY <2>1, <2>2, <2>4, <1>5, ReadSizedNext
<1>. QED BY <1>1, <1>2, <1>3, <1>4, <1>5

(***************************************************************************)
(* The inductive invariant                                                 *)
(***************************************************************************)

Words(algo) == WordOf(algo) \union {EmptyWord}
Readout == {"TPC", "PMT", "HUFF", "SN"}
Huffmans == {"HUFF", "SN"}

DecoderOK(algo, x) ==
  /\ IsDecoder(x)
  /\ algo = "HUFF" => HuffOK(x)
  /\ algo = "SN" => HeaderOK(x)

\* Given an event header first, a readout decoder does not crash after it, but where
\* the old PMT decoder looks for a channel or a header announces no words.
Prepared(x, word) == x.attached \/ (word = <<"EH">> /\ ~x.search)
CountsWords(algo) == algo \in Huffmans => NoneEmpty

LEMMA WordKinds ==
  ASSUME NEW algo
  PROVE  /\ EmptyWord \in Words(algo) /\ NoWord \notin Words(algo)
         /\ algo \in Readout => Words(algo) = ReadoutWord
<1>1. <<"N">> \in HalfWord \ {AllOnes} /\ <<"N">> \in HalfWord
  BY DEF HalfWord, AllOnes
<1>2. EmptyWord \in PairWord BY <1>1 DEF EmptyWord, PairWord
<1>3. EmptyWord # <<>> BY DEF EmptyWord
<1>4. <<>> \notin PairWord BY DEF PairWord
<1>5. <<>> \notin ReadoutWord BY <1>4 DEF ReadoutWord
<1>6. <<>> \notin TriggerWord BY DEF TriggerWord
<1>. QED BY <1>2, <1>3, <1>4, <1>5, <1>6 DEF Words, WordOf, NoWord, Readout, ReadoutWord

LEMMA DecodedWord ==
  ASSUME task \in Jobs, DecoderOK(task.algo, dec), NEW word \in Words(task.algo)
  PROVE  LET y == Decoded(word)
         IN /\ DecoderOK(task.algo, y)
            /\ y.file = dec.file \/ OneMore(dec.file, y.file)
            /\ task.algo \in Readout =>
                 y.file = dec.file \/ y.info.number = NoNumber \/ y.status = "crash"
            /\ task.algo \notin Readout => y.info.number = dec.info.number
            /\ task.algo \in Readout /\ Prepared(dec, word) /\ CountsWords(task.algo) =>
                 y.attached /\ (y.status = "crash" => task.algo = "PMT" /\ NoChannelToSee(y))
            /\ task.algo \notin Readout /\ y.status = "crash" => task.algo = "SLOW" /\ NoChannelAtAll(y)
<1> DEFINE y == Decoded(word)
<1>0. IsDecoder(dec) BY DEF DecoderOK
<1>1. CASE task.algo = "TPC"
  <2> DEFINE r == Tpc!ProcessWord(dec, word, task.debug)
  <2>1. y = r BY <1>1 DEF Decoded
  <2>2. IsDecoder(r) /\ Stores(dec, r) /\ (Prepared(dec, word) => r.attached /\ r.status # "crash")
    BY <1>0, TpcWord DEF Prepared
  <2> HIDE DEF y, r
  <2>. QED BY <1>1, <2>1, <2>2 DEF DecoderOK, Stores, OneMore, Readout, y
<1>2. CASE task.algo = "PMT"
  <2> DEFINE r == Pmt!ProcessWord(dec, word, task.debug)
  <2>1. y = r BY <1>2 DEF Decoded
  <2>2. IsDecoder(r) /\ Stores(dec, r)
        /\ (Prepared(dec, word) => r.attached /\ (r.status = "crash" => NoChannelToSee(r)))
    BY <1>0, PmtWord DEF Prepared
  <2> HIDE DEF y, r
  <2>. QED BY <1>2, <2>1, <2>2 DEF DecoderOK, Stores, OneMore, Readout, y
<1>3. CASE task.algo = "TRIG"
  <2> DEFINE r == Trig!ProcessWord(dec, word, task.debug)
  <2>1. y = r BY <1>3 DEF Decoded
  <2>2. IsDecoder(r) /\ Adds(dec, r) /\ r.info = dec.info /\ r.status # "crash"
    BY <1>0, TrigWord
  <2> HIDE DEF y, r
  <2>. QED BY <1>3, <2>1, <2>2 DEF DecoderOK, Adds, OneMore, Readout, y
<1>4. CASE task.algo = "SLOW"
  <2> DEFINE r == Slow!ProcessWord(dec, word, task.debug)
  <2>1. y = r BY <1>4 DEF Decoded
  <2>2. IsDecoder(r) /\ Adds(dec, r) /\ r.info.number = dec.info.number
        /\ (r.status = "crash" => NoChannelAtAll(r))
    BY <1>0, SlowWord
  <2> HIDE DEF y, r
  <2>. QED BY <1>4, <2>1, <2>2 DEF DecoderOK, Adds, OneMore, Readout, y
<1>5. CASE task.algo = "HUFF"
  <2> DEFINE r == Huff!ProcessWord(dec, word, task.debug)
  <2>1. y = r BY <1>5 DEF Decoded
  <2>2. HuffOK(dec) /\ word \in ReadoutWord BY <1>5, WordKinds DEF DecoderOK, Readout
  <2>3. HuffOK(r) /\ StoresOr(dec, r)
        /\ (Prepared(dec, word) /\ NoneEmpty => r.attached /\ r.status # "crash")
    BY <2>2, HuffWord DEF Prepared
  <2> HIDE DEF y, r
  <2>. QED BY <1>5, <2>1, <2>3 DEF DecoderOK, HuffOK, HeaderOK, StoresOr, Readout, CountsWords, Huffmans, y
<1>6. CASE task.algo = "SN"
  <2> DEFINE r == Sn!ProcessWord(dec, word, task.debug)
  <2>1. y = r BY <1>6 DEF Decoded
  <2>2. HeaderOK(dec) /\ word \in ReadoutWord BY <1>6, WordKinds DEF DecoderOK, Readout
  <2>3. HeaderOK(r) /\ StoresOr(dec, r)
        /\ (Prepared(dec, word) /\ NoneEmpty => r.attached /\ r.status # "crash")
    BY <2>2, SnWord DEF Prepared
  <2> HIDE DEF y, r
  <2>. QED BY <1>6, <2>1, <2>3 DEF DecoderOK, HeaderOK, StoresOr, Readout, CountsWords, Huffmans, y
<1>. QED BY <1>1, <1>2, <1>3, <1>4, <1>5, <1>6, JobsAssumption

-------------------------------------------------------------------------------
IsFile(f) == \E S : f \in Seq(S)

LEMMA FileGrows ==
  ASSUME NEW f, IsFile(f), NEW g, OneMore(f, g)
  PROVE  IsFile(g) /\ Len(f) \in Nat /\ Len(g) = Len(f) + 1
<1>1. PICK S : f \in Seq(S) BY DEF IsFile
<1>2. PICK e : g = Append(f, e) BY DEF OneMore
<1>3. f \in Seq(S \union {e}) BY <1>1, SeqMonotonic
<1>4. e \in S \union {e} OBVIOUS
<1>5. g \in Seq(S \union {e}) /\ Len(g) = Len(f) + 1 BY <1>2, <1>3, <1>4, AppendProperties
<1>. QED BY <1>1, <1>5, LenProperties DEF IsFile

LEMMA FileLen ==
  ASSUME NEW f, IsFile(f) PROVE Len(f) \in Nat
BY LenProperties DEF IsFile

ManagerTypes ==
  /\ task \in Jobs /\ nfile \in Nat \ {0}
  /\ HandlerOK(io, task.mode, Words(task.algo))
  /\ DecoderOK(task.algo, dec) /\ IsFile(dec.file)

Reading ==
  /\ stage = "run" => io = NewHandler /\ nfile = 1
  /\ io.broken => task.mode = "sized" /\ task.files[1] = <<>>
  /\ task.mode = "sized" /\ task.files[1] # <<>> /\ stage \in {"loop", "word"} => io.front # NoWord

\* Up to its first word a decoder has no product, and that word is an event header.
AtFirstWord == io.word = <<"EH">> /\ ~io.eof
AtEmptyFile == stage = "loop" /\ io.eof /\ nfile = 1 /\ task.files[1] = <<>> /\ task.mode = "word"
Beginning ==
  /\ stage = "run" => ~dec.search
  /\ task.algo \in Readout /\ stage \in {"loop", "word"} /\ ~BadStart /\ CountsWords(task.algo) =>
       dec.attached \/ (~dec.search /\ (AtFirstWord \/ AtEmptyFile))

\* The event that ends the loop leaves no header for the manager to save.
WithinLimit ==
  /\ task.algo \notin Readout => dec.info.number = NoNumber
  /\ stage = "run" => dec.file = <<>>
  /\ task.limit > 0 =>
       /\ stage \in {"run", "loop", "word"} => Len(dec.file) <= task.limit
       /\ stage = "end" => Len(dec.file) <= task.limit
                           \/ (Len(dec.file) <= task.limit + 1 /\ dec.info.number = NoNumber)
       /\ Len(dec.file) <= task.limit + 1

ManagerInv == ManagerTypes /\ Reading /\ Beginning /\ WithinLimit /\ CrashedKnown

LEMMA ManagerInitInv == Init => ManagerInv
<1> SUFFICES ASSUME Init PROVE ManagerInv OBVIOUS
<1>1. PICK n : dec = [NewDecoder EXCEPT !.beyond = n] BY DEF Init
<1>2. /\ IsDecoder(dec) /\ dec.header = <<>> /\ dec.count = 0 /\ dec.nwords = 0 /\ dec.sum = 0
      /\ dec.info = NoInfo /\ dec.file = <<>> /\ ~dec.search
  BY <1>1 DEF NewDecoder, IsDecoder, DecoderFields, NoInfo, InfoFields
<1>3. HuffOK(dec)
  <2>1. <<>> \in Seq(HeaderHalf) /\ Len(<<>>) = 0 BY EmptySeq
  <2>. QED BY <1>2, <2>1, HeaderCountAssumption DEF HuffOK, HeaderOK
<1>4. IsFile(<<>>) /\ Len(<<>>) = 0 BY EmptySeq DEF IsFile
<1>5. HandlerOK(NewHandler, task.mode, Words(task.algo))
  BY WordKinds, EmptySeq DEF HandlerOK, NewHandler, HandlerFields
<1>6. ~NewHandler.broken BY DEF NewHandler
<1>7. task \in Jobs /\ task.limit \in Nat /\ io = NewHandler /\ nfile = 1 /\ stage = "run"
  BY JobsAssumption DEF Init
<1>8. ManagerTypes BY <1>2, <1>3, <1>4, <1>5, <1>7 DEF ManagerTypes, DecoderOK, HuffOK
<1>9. Reading BY <1>6, <1>7 DEF Reading
<1>10. Beginning BY <1>2, <1>7 DEF Beginning
<1>11. WithinLimit BY <1>2, <1>4, <1>7, NoInfoFields DEF WithinLimit
<1>12. CrashedKnown BY <1>7 DEF CrashedKnown
<1>. QED BY <1>8, <1>9, <1>10, <1>11, <1>12 DEF ManagerInv

LEMMA JobFiles ==
  ASSUME task \in Jobs
  PROVE  /\ task.mode \in {"word", "block", "sized"} /\ task.size \in Nat \ {0} /\ task.limit \in Nat
         /\ Len(task.files) \in Nat \ {0}
         /\ \A i \in 1 .. Len(task.files) : task.files[i] \in Seq(Words(task.algo))
<1>1. /\ task.mode \in {"word", "block", "sized"} /\ task.size \in Nat \ {0} /\ task.limit \in Nat
      /\ task.files \in Seq(Seq(WordOf(task.algo))) /\ task.files # <<>>
  BY JobsAssumption
<1>2. Len(task.files) \in Nat \ {0} BY <1>1, EmptySeq
<1>3. ASSUME NEW i \in 1 .. Len(task.files) PROVE task.files[i] \in Seq(Words(task.algo))
  <2>1. task.files[i] \in Seq(WordOf(task.algo)) BY <1>1, ElementOfSeq
  <2>2. WordOf(task.algo) \subseteq Words(task.algo) BY DEF Words
  <2>. QED BY <2>1, <2>2, SeqMonotonic
<1>. QED BY <1>1, <1>2, <1>3

\* A file is opened when none of the words of the one before is in it any more.
LEMMA Opens ==
  ASSUME NEW h, NEW mode, NEW W, HandlerOK(h, mode, W), h.rest = <<>>, NEW file \in Seq(W)
  PROVE  LET r == Open(h, file)
         IN /\ HandlerOK(r, mode, W) /\ ~r.eof /\ r.rest = file /\ r.buffer = h.buffer
            /\ r.front = h.front /\ r.broken = h.broken
            /\ Unread(r) = Unread(h) \o file
<1> DEFINE r == Open(h, file)
<1>1. DOMAIN r = HandlerFields /\ r.rest = file /\ r.buffer = h.buffer /\ r.word = h.word /\ r.front = h.front
      /\ r.broken = h.broken /\ ~r.eof /\ ~r.ended
  BY DEF HandlerOK, HandlerFields, Open
<1> HIDE DEF r
<1>2. HandlerOK(r, mode, W) BY <1>1 DEF HandlerOK
<1>3. h.buffer \o <<>> = h.buffer BY ConcatEmptySeq DEF HandlerOK
<1>. QED BY <1>1, <1>2, <1>3 DEF Unread, r

(***************************************************************************)
(* The steps                                                               *)
(***************************************************************************)

LEMMA NewHandlerOpens ==
  ASSUME task \in Jobs, io = NewHandler
  PROVE  LET h == Open(io, task.files[1])
         IN /\ HandlerOK(h, task.mode, Words(task.algo)) /\ ~h.eof /\ h.rest = task.files[1]
            /\ h.buffer = <<>> /\ h.front = NoWord /\ ~h.broken /\ Unread(h) = task.files[1]
<1>1. HandlerOK(io, task.mode, Words(task.algo)) /\ io.rest = <<>> /\ io.buffer = <<>> /\ io.front = NoWord
      /\ ~io.broken
  BY WordKinds, EmptySeq DEF HandlerOK, NewHandler, HandlerFields
<1>2. task.files[1] \in Seq(Words(task.algo)) BY JobFiles
<1>3. <<>> \o <<>> = <<>> /\ <<>> \o task.files[1] = task.files[1] BY <1>2, ConcatEmptySeq, EmptySeq
<1>4. Unread(io) = <<>> BY <1>1, <1>3 DEF Unread
<1>. QED BY <1>1, <1>2, <1>3, <1>4, Opens

\* What the handler is after a read of it, in a job.
LEMMA JobReads ==
  ASSUME task \in Jobs, NEW h, HandlerOK(h, task.mode, Words(task.algo)), Reads(h)
  PROVE  /\ HandlerOK(io', task.mode, Words(task.algo)) /\ TakesNext(h, io')
         /\ io'.broken => h.broken \/ (task.mode = "sized" /\ h.front = NoWord /\ h.rest = <<>>)
         /\ task.mode = "sized" /\ (h.front # NoWord \/ (h.buffer = <<>> /\ h.rest # <<>>)) =>
              io'.front # NoWord
         /\ ~h.eof /\ Unread(h) # <<>> /\ (task.mode = "block" => h.buffer = <<>> /\ Len(h.rest) >= task.size) =>
              ~io'.eof
<1>1. task.mode \in {"word", "block", "sized"} /\ task.size \in Nat \ {0} BY JobFiles
<1>2. EmptyWord \in Words(task.algo) /\ NoWord \notin Words(task.algo) BY WordKinds
<1>3. io' = Read(h, task.mode, task.size) BY DEF Reads
<1>. QED BY <1>1, <1>2, <1>3, ReadNext

LEMMA CrashOfRead ==
  ASSUME task' = task, task.mode = "sized", task.files[1] = <<>>
  PROVE  BadStart'
BY DEF BadStart

LEMMA StartKeeps ==
  ASSUME ManagerInv, StartDecoding
  PROVE  ManagerInv'
<1>0. task \in Jobs /\ io = NewHandler /\ nfile = 1 /\ stage = "run" /\ ~dec.search
      /\ task' = task /\ nfile' = nfile /\ dec' = dec
  BY DEF ManagerInv, ManagerTypes, Reading, Beginning, StartDecoding
<1>1. CASE UNCHANGED io /\ stage' = "done"
  BY <1>0, <1>1 DEF ManagerInv, ManagerTypes, Reading, Beginning, WithinLimit, CrashedKnown
<1>2. CASE Reads(Open(io, task.files[1])) /\ GoOnWith("loop")
  <2> DEFINE h == Open(io, task.files[1])
  <2>1. HandlerOK(h, task.mode, Words(task.algo)) /\ ~h.eof /\ h.rest = task.files[1]
        /\ h.buffer = <<>> /\ h.front = NoWord /\ ~h.broken /\ Unread(h) = task.files[1]
    BY <1>0, NewHandlerOpens
  <2> HIDE DEF h
  <2>2. Reads(h) BY <1>2 DEF h
  <2>3. /\ HandlerOK(io', task.mode, Words(task.algo)) /\ TakesNext(h, io')
        /\ io'.broken => task.mode = "sized" /\ task.files[1] = <<>>
        /\ task.mode = "sized" /\ task.files[1] # <<>> => io'.front # NoWord
        /\ task.files[1] # <<>> /\ (task.mode = "block" => Len(task.files[1]) >= task.size) => ~io'.eof
    BY <1>0, <2>1, <2>2, JobReads
  <2>4. stage' = IF io'.broken THEN "crashed" ELSE "loop" BY <1>2 DEF GoOnWith
  <2>5. ManagerTypes' BY <1>0, <2>3 DEF ManagerInv, ManagerTypes
  <2>6. Reading' BY <1>0, <2>3, <2>4 DEF Reading
  <2>7. Beginning'
    <3> SUFFICES ASSUME task.algo \in Readout, stage' = "loop", ~BadStart
                 PROVE  AtFirstWord' \/ AtEmptyFile'
      BY <1>0, <2>4 DEF Beginning, BadStart, BeginsWithEvent, FirstFile, CountsWords
    <3>1. BeginsWithEvent /\ ~(task.mode = "block" /\ Len(task.files[1]) < task.size)
          /\ ~(task.mode = "sized" /\ task.files[1] = <<>>)
      BY DEF BadStart, Readout
    <3>2. task.mode \in {"word", "block", "sized"} /\ task.size \in Nat \ {0} /\ Len(task.files) \in Nat
      BY <1>0, JobFiles
    <3>3. Len(task.files[1]) \in Nat
      BY <1>0, JobFiles, LenProperties
    <3>4. CASE task.files[1] = <<>>
      <4>1. task.mode = "word" BY <3>1, <3>2, <3>4, EmptySeq
      <4>2. io'.eof BY <2>1, <2>3, <3>4 DEF TakesNext
      <4>. QED BY <4>1, <4>2, <3>4, <1>0 DEF AtEmptyFile
    <3>5. CASE task.files[1] # <<>>
      <4>1. Head(task.files[1]) = <<"EH">> BY <3>1, <3>5 DEF BeginsWithEvent, FirstFile
      <4>2. io'.word = <<"EH">> BY <4>1, <2>1, <2>3, <3>5 DEF TakesNext
      <4>3. ~io'.eof BY <2>3, <3>1, <3>2, <3>3, <3>5
      <4>. QED BY <4>2, <4>3 DEF AtFirstWord
    <3>. QED BY <3>4, <3>5
  <2>8. WithinLimit' BY <1>0, <2>4 DEF ManagerInv, WithinLimit
  <2>9. CrashedKnown' BY <1>0, <2>3, <2>4, CrashOfRead DEF CrashedKnown
  <2>. QED BY <2>5, <2>6, <2>7, <2>8, <2>9 DEF ManagerInv
<1>. QED BY <1>1, <1>2 DEF StartDecoding

LEMMA NextFileKeeps ==
  ASSUME ManagerInv, NextFile
  PROVE  ManagerInv'
<1>0. /\ task \in Jobs /\ nfile \in Nat \ {0} /\ stage = "loop" /\ io.eof
      /\ task' = task /\ nfile' = nfile + 1 /\ dec' = dec
      /\ HandlerOK(io, task.mode, Words(task.algo)) /\ io.rest = <<>>
  BY DEF ManagerInv, ManagerTypes, NextFile, HandlerOK
<1>1. CASE UNCHANGED io /\ stage' = "end"
  <2>1. nfile' \in Nat \ {0} BY <1>0
  <2>. QED BY <1>0, <1>1, <2>1 DEF ManagerInv, ManagerTypes, Reading, Beginning, WithinLimit, CrashedKnown
<1>2. CASE nfile' <= Len(task.files) /\ Reads(Open(io, task.files[nfile'])) /\ GoOnWith("word")
  <2> DEFINE file == task.files[nfile']
             h == Open(io, file)
  <2>1. nfile' \in Nat \ {0} /\ nfile' \in 1 .. Len(task.files) /\ nfile' >= 2
    BY <1>0, <1>2, JobFiles
  <2>2. file \in Seq(Words(task.algo)) BY <1>0, <2>1, JobFiles
  <2> HIDE DEF file
  <2>3. HandlerOK(h, task.mode, Words(task.algo)) /\ ~h.eof /\ h.rest = file
        /\ h.buffer = io.buffer /\ h.front = io.front /\ h.broken = io.broken
        /\ Unread(h) = Unread(io) \o file
    BY <1>0, <2>2, Opens
  <2> HIDE DEF h
  <2>4. Reads(h) BY <1>2 DEF h, file
  <2>5. /\ HandlerOK(io', task.mode, Words(task.algo)) /\ TakesNext(h, io')
        /\ io'.broken => io.broken \/ (task.mode = "sized" /\ io.front = NoWord)
        /\ task.mode = "sized" /\ io.front # NoWord => io'.front # NoWord
        /\ Unread(h) # <<>> /\ task.mode # "block" => ~io'.eof
    BY <1>0, <2>3, <2>4, JobReads
  <2>6. stage' = IF io'.broken THEN "crashed" ELSE "word" BY <1>2 DEF GoOnWith
  <2>7. ManagerTypes' BY <1>0, <2>1, <2>5 DEF ManagerInv, ManagerTypes
  <2>8. Reading' BY <1>0, <2>5, <2>6 DEF ManagerInv, Reading
  <2>9. Beginning'
    <3> SUFFICES ASSUME task.algo \in Readout, stage' = "word", ~BadStart, CountsWords(task.algo), ~dec.attached
                 PROVE  ~dec.search /\ AtFirstWord'
      BY <1>0, <2>6 DEF Beginning, BadStart, BeginsWithEvent, FirstFile, CountsWords
    <3>1. ~dec.search /\ AtEmptyFile
      BY <1>0 DEF ManagerInv, Beginning, AtFirstWord
    <3>2. nfile' = 2 /\ task.files[1] = <<>> /\ task.mode = "word" BY <3>1, <1>0 DEF AtEmptyFile
    <3>3. Len(task.files) > 1 BY <3>2, <2>1, <1>0, JobFiles
    <3>4. BeginsWithEvent BY DEF BadStart, Readout
    <3>5. FirstFile = file BY <3>2, <3>3 DEF FirstFile, file
    <3>6. file # <<>> /\ Head(file) = <<"EH">>
      <4>1. Len(task.files) # 1 BY <3>3, <1>0, JobFiles
      <4>. QED BY <3>4, <3>5, <4>1 DEF BeginsWithEvent
    <3>7. Unread(io) = <<>>
      <4>1. io.buffer = <<>> BY <1>0, <3>2 DEF HandlerOK
      <4>2. <<>> \o <<>> = <<>> BY EmptySeq, ConcatEmptySeq
      <4>. QED BY <4>1, <4>2, <1>0 DEF Unread
    <3>8. Unread(h) = file BY <3>7, <2>3, <2>2, ConcatEmptySeq
    <3>9. io'.word = <<"EH">> BY <3>6, <3>8, <2>5 DEF TakesNext
    <3>10. ~io'.eof BY <3>2, <3>6, <3>8, <2>5
    <3>. QED BY <3>1, <3>9, <3>10 DEF AtFirstWord
  <2>10. WithinLimit' BY <1>0, <2>6 DEF ManagerInv, WithinLimit
  <2>11. CrashedKnown'
    <3>1. io'.broken => task.mode = "sized" /\ task.files[1] = <<>> BY <1>0, <2>5 DEF ManagerInv, Reading
    <3>. QED BY <3>1, <2>6, <1>0, CrashOfRead DEF CrashedKnown
  <2>. QED BY <2>7, <2>8, <2>9, <2>10, <2>11 DEF ManagerInv
<1>3. nfile' > Len(task.files) \/ nfile' <= Len(task.files) BY <1>0, JobFiles
<1>. QED BY <1>1, <1>2, <1>3 DEF NextFile

LEMMA DecodeKeeps ==
  ASSUME ManagerInv, DecodeWord
  PROVE  ManagerInv'
<1> DEFINE read == Reads(io) /\ GoOnWith(IF good' THEN "loop" ELSE "end")
<1>0. /\ task \in Jobs /\ nfile \in Nat \ {0} /\ stage \in {"loop", "word"}
      /\ task' = task /\ nfile' = nfile /\ dec' = Decoded(io.word)
      /\ HandlerOK(io, task.mode, Words(task.algo)) /\ DecoderOK(task.algo, dec) /\ IsFile(dec.file)
      /\ stage = "loop" => ~io.eof
  BY DEF ManagerInv, ManagerTypes, DecodeWord
<1>1. \/ dec'.status = "crash" /\ stage' = "crashed" /\ UNCHANGED io
      \/ dec'.status # "crash" /\ LimitReached(dec'.file) /\ stage' = "end" /\ UNCHANGED io
      \/ dec'.status # "crash" /\ ~LimitReached(dec'.file) /\ read
  BY DEF DecodeWord
<1>2. io.word \in Words(task.algo) BY <1>0 DEF HandlerOK
<1>3. /\ DecoderOK(task.algo, dec')
      /\ dec'.file = dec.file \/ OneMore(dec.file, dec'.file)
      /\ task.algo \in Readout =>
           dec'.file = dec.file \/ dec'.info.number = NoNumber \/ dec'.status = "crash"
      /\ task.algo \notin Readout => dec'.info.number = dec.info.number
      /\ task.algo \in Readout /\ Prepared(dec, io.word) /\ CountsWords(task.algo) =>
           dec'.attached /\ (dec'.status = "crash" => task.algo = "PMT" /\ NoChannelToSee(dec'))
      /\ task.algo \notin Readout /\ dec'.status = "crash" => task.algo = "SLOW" /\ NoChannelAtAll(dec')
  BY <1>0, <1>2, DecodedWord
<1>4. IsFile(dec'.file) /\ Len(dec.file) \in Nat /\ Len(dec'.file) \in Nat
      /\ (dec'.file = dec.file \/ Len(dec'.file) = Len(dec.file) + 1)
  BY <1>0, <1>3, FileGrows, FileLen
<1>5. task.algo \in Readout /\ ~BadStart /\ CountsWords(task.algo) => Prepared(dec, io.word)
  BY <1>0 DEF ManagerInv, Beginning, Prepared, AtFirstWord, AtEmptyFile
<1>6. read =>
        /\ HandlerOK(io', task.mode, Words(task.algo))
        /\ io'.broken => io.broken \/ (task.mode = "sized" /\ io.front = NoWord)
        /\ task.mode = "sized" /\ io.front # NoWord => io'.front # NoWord
        /\ stage' \in {"crashed", "loop", "end"} /\ (stage' = "crashed" => io'.broken)
  BY <1>0, JobReads DEF GoOnWith
<1>7. task.limit \in Nat BY <1>0, JobFiles
<1>8. ManagerTypes' BY <1>0, <1>1, <1>3, <1>4, <1>6 DEF ManagerTypes
<1>9. Reading'
  BY <1>0, <1>1, <1>6 DEF ManagerInv, Reading
<1>10. Beginning'
  <2>1. stage' # "run" BY <1>1, <1>6
  <2>2. task.algo \in Readout /\ ~BadStart /\ CountsWords(task.algo) => dec'.attached BY <1>3, <1>5
  <2>. QED BY <2>1, <2>2, <1>0 DEF Beginning, BadStart, BeginsWithEvent, FirstFile, CountsWords
<1>11. WithinLimit'
  <2>1. task.algo \notin Readout => dec.info.number = NoNumber /\ dec'.info.number = NoNumber
    BY <1>3 DEF ManagerInv, WithinLimit
  <2>2. task.limit > 0 => Len(dec.file) <= task.limit BY <1>0 DEF ManagerInv, WithinLimit
  <2>3. stage' # "run" BY <1>1, <1>6
  <2>4. task.limit > 0 => Len(dec'.file) <= task.limit + 1 BY <2>2, <1>4, <1>7
  <2>5. CASE dec'.status = "crash" /\ stage' = "crashed"
    BY <2>1, <2>4, <2>5, <1>0 DEF WithinLimit
  <2>6. CASE dec'.status # "crash" /\ stage' = "end"
    BY <2>1, <2>2, <2>4, <2>6, <1>0, <1>3 DEF WithinLimit
  <2>7. CASE ~LimitReached(dec'.file)
    <3>1. task.limit > 0 => Len(dec'.file) <= task.limit BY <2>7, <1>4, <1>7 DEF LimitReached
    <3>. QED BY <2>1, <2>3, <2>4, <3>1, <1>0 DEF WithinLimit
  <2>. QED BY <2>5, <2>6, <2>7, <1>1
<1>12. CrashedKnown'
  <2> SUFFICES ASSUME stage' = "crashed", ~BadStart
               PROVE  \/ task.algo \in {"HUFF", "SN"} /\ \E m \in DOMAIN Module : Module[m].nwords = 0
                      \/ task.algo = "PMT" /\ dec'.last = "PAD" /\ dec'.data = <<>>
                      \/ task.algo = "SLOW" /\ dec'.data = <<>>
    BY <1>0 DEF CrashedKnown, BadStart, BeginsWithEvent, FirstFile
  <2>1. CASE dec'.status = "crash"
    <3>1. CASE task.algo \notin Readout BY <3>1, <2>1, <1>3 DEF NoChannelAtAll
    <3>2. CASE task.algo \in Readout /\ CountsWords(task.algo)
      BY <3>2, <2>1, <1>3, <1>5 DEF NoChannelToSee
    <3>3. CASE ~CountsWords(task.algo) BY <3>3 DEF CountsWords, Huffmans, NoneEmpty
    <3>. QED BY <3>1, <3>2, <3>3
  <2>2. CASE dec'.status # "crash"
    <3>1. read /\ io'.broken BY <2>2, <1>1, <1>6
    <3>2. task.mode = "sized" /\ task.files[1] = <<>> BY <3>1, <1>6, <1>0 DEF ManagerInv, Reading
    <3>. QED BY <3>2 DEF BadStart
  <2>. QED BY <2>1, <2>2
<1>. QED BY <1>8, <1>9, <1>10, <1>11, <1>12 DEF ManagerInv

LEMMA FinishKeeps ==
  ASSUME ManagerInv, FinishDecoding
  PROVE  ManagerInv'
<1> DEFINE n == NextEvent(dec)
<1>0. /\ task \in Jobs /\ stage = "end" /\ stage' = "done" /\ task' = task /\ nfile' = nfile /\ io' = io
      /\ DecoderOK(task.algo, dec) /\ IsFile(dec.file) /\ task.limit \in Nat
  BY JobFiles DEF ManagerInv, ManagerTypes, FinishDecoding
<1>1. dec' = dec \/ (dec' = n /\ dec.info.number # NoNumber)
  BY DEF FinishDecoding, Saved
<1>2. IsDecoder(n) /\ n.info = dec.info /\ n.header = dec.header /\ n.count = dec.count
      /\ n.nwords = dec.nwords /\ n.sum = dec.sum /\ OneMore(dec.file, n.file)
  BY <1>0 DEF DecoderOK, IsDecoder, DecoderFields, NextEvent, OneMore
<1> HIDE DEF n
<1>3. DecoderOK(task.algo, n) BY <1>0, <1>2 DEF DecoderOK, HuffOK, HeaderOK
<1>4. IsFile(n.file) /\ Len(dec.file) \in Nat /\ Len(n.file) = Len(dec.file) + 1 BY <1>0, <1>2, FileGrows
<1>5. ManagerTypes' BY <1>0, <1>1, <1>3, <1>4 DEF ManagerInv, ManagerTypes
<1>6. Reading' BY <1>0 DEF ManagerInv, Reading
<1>7. Beginning' BY <1>0 DEF Beginning
<1>8. WithinLimit' BY <1>0, <1>1, <1>2, <1>4 DEF ManagerInv, WithinLimit
<1>9. CrashedKnown' BY <1>0 DEF CrashedKnown
<1>. QED BY <1>5, <1>6, <1>7, <1>8, <1>9 DEF ManagerInv

LEMMA ManagerNextInv == ManagerInv /\ [Next]_vars => ManagerInv'
<1> SUFFICES ASSUME ManagerInv, [Next]_vars PROVE ManagerInv' OBVIOUS
<1>1. CASE StartDecoding BY <1>1, StartKeeps
<1>2. CASE NextFile BY <1>2, NextFileKeeps
<1>3. CASE DecodeWord BY <1>3, DecodeKeeps
<1>4. CASE FinishDecoding BY <1>4, FinishKeeps
<1>5. CASE UNCHANGED vars
  BY <1>5 DEF vars, ManagerInv, ManagerTypes, Reading, Beginning, AtFirstWord, AtEmptyFile, WithinLimit,
     CrashedKnown, BadStart, BeginsWithEvent, FirstFile
<1>. QED BY <1>1, <1>2, <1>3, <1>4, <1>5 DEF Next

\* The inductive invariant holds in every state the manager reaches, for any words in
\* the files, any number of files and any of the six decoders: what the reader holds
\* (BinIoHandler::read_word) and what the decoder holds (process_word) fit each other.
THEOREM ManagerInvariance == Spec => []ManagerInv
BY ManagerInitInv, ManagerNextInv, PTL DEF Spec

\* decoder_manager::run and the decoders' process_word reach for a word or an event that
\* is not there only where CrashedKnown says: the first file is too short or begins amid
\* an event, a Huffman module's header counts no words, or the PMT decoder comes to a pad,
\* or the slow decoder to a word, with no channel yet.
THEOREM CrashedKnownAlways == Spec => []CrashedKnown
<1>1. ManagerInv => CrashedKnown BY DEF ManagerInv
<1>. QED BY <1>1, ManagerInvariance, PTL

\* With set_num_events, decoder_manager::run stores at most one event more than asked:
\* the one the decoder still holds when run leaves the loop.
THEOREM LimitKeptAlways == Spec => []LimitKept
<1>1. ManagerInv => LimitKept BY DEF ManagerInv, WithinLimit, LimitKept
<1>. QED BY <1>1, ManagerInvariance, PTL

\* A step that reads takes the next word of the files.
LEMMA StepReadsNext ==
  ASSUME ManagerInv, Next, io' # io
  PROVE  LET opened == IF stage = "run" THEN task.files[1]
                       ELSE IF stage = "loop" /\ io.eof THEN task.files[nfile'] ELSE <<>>
             left == Unread(io) \o opened
         IN /\ IF left = <<>> THEN io'.eof /\ Unread(io') = <<>>
               ELSE io'.word = Head(left) /\ Unread(io') = Tail(left)
            /\ nfile' # nfile => io.rest = <<>> /\ (task.mode = "block" \/ Unread(io) = <<>>)
            /\ nfile' = nfile /\ stage # "run" => dec' = Decoded(io.word)
<1> DEFINE opened == IF stage = "run" THEN task.files[1]
                     ELSE IF stage = "loop" /\ io.eof THEN task.files[nfile'] ELSE <<>>
           left == Unread(io) \o opened
<1>0. /\ task \in Jobs /\ nfile \in Nat \ {0} /\ nfile + 1 # nfile
      /\ HandlerOK(io, task.mode, Words(task.algo))
      /\ io.rest \in Seq(Words(task.algo)) /\ io.buffer \in Seq(Words(task.algo))
  BY DEF ManagerInv, ManagerTypes, HandlerOK
<1>1. Unread(io) \in Seq(Words(task.algo)) BY <1>0, ConcatProperties DEF Unread
<1>2. ASSUME NEW h, HandlerOK(h, task.mode, Words(task.algo)), Reads(h), Unread(h) = left
      PROVE  IF left = <<>> THEN io'.eof /\ Unread(io') = <<>>
             ELSE io'.word = Head(left) /\ Unread(io') = Tail(left)
  <2> HIDE DEF left
  <2>. QED BY <1>0, <1>2, JobReads DEF TakesNext
<1>3. CASE StartDecoding
  <2>1. stage = "run" /\ nfile' = nfile /\ io = NewHandler /\ Reads(Open(io, task.files[1]))
    BY <1>3 DEF ManagerInv, Reading, StartDecoding
  <2>2. io.rest = <<>> BY <2>1 DEF NewHandler
  <2>3. task.files[1] \in Seq(Words(task.algo)) BY <1>0, JobFiles
  <2> DEFINE file == task.files[1]
  <2>4. left = Unread(io) \o file BY <2>1
  <2> HIDE DEF left, file
  <2>5. file \in Seq(Words(task.algo)) BY <2>3 DEF file
  <2>6. HandlerOK(Open(io, file), task.mode, Words(task.algo)) /\ Unread(Open(io, file)) = left
    BY <1>0, <2>2, <2>4, <2>5, Opens
  <2>. QED BY <1>2, <2>1, <2>6 DEF left, file
<1>4. CASE NextFile
  <2>1. /\ stage = "loop" /\ io.eof /\ nfile' = nfile + 1 /\ nfile' \in 1 .. Len(task.files)
        /\ Reads(Open(io, task.files[nfile']))
    BY <1>0, <1>4, JobFiles DEF NextFile
  <2>2. io.rest = <<>> BY <1>0, <2>1 DEF HandlerOK
  <2>3. task.files[nfile'] \in Seq(Words(task.algo)) BY <1>0, <2>1, JobFiles
  <2> DEFINE file == task.files[nfile']
  <2>4. left = Unread(io) \o file BY <2>1
  <2> HIDE DEF left, file
  <2>5. file \in Seq(Words(task.algo)) BY <2>3 DEF file
  <2>6. HandlerOK(Open(io, file), task.mode, Words(task.algo)) /\ Unread(Open(io, file)) = left
    BY <1>0, <2>2, <2>4, <2>5, Opens
  <2>7. task.mode # "block" => Unread(io) = <<>>
    <3>1. task.mode # "block" => io.buffer = <<>> BY <1>0, <2>1 DEF HandlerOK
    <3>2. <<>> \o <<>> = <<>> BY EmptySeq, ConcatEmptySeq
    <3>. QED BY <3>1, <3>2, <2>2 DEF Unread
  <2>8. IF left = <<>> THEN io'.eof /\ Unread(io') = <<>>
        ELSE io'.word = Head(left) /\ Unread(io') = Tail(left)
    BY <1>2, <2>1, <2>6 DEF file
  <2>9. nfile' # nfile => io.rest = <<>> /\ (task.mode = "block" \/ Unread(io) = <<>>) BY <2>2, <2>7
  <2>10. nfile' # nfile BY <1>0, <2>1
  <2>. QED BY <2>8, <2>9, <2>10 DEF left
<1>5. CASE DecodeWord
  <2>1. /\ nfile' = nfile /\ stage # "run" /\ ~(stage = "loop" /\ io.eof) /\ dec' = Decoded(io.word)
        /\ Reads(io)
    BY <1>5 DEF DecodeWord
  <2>2. Unread(io) = left BY <1>1, <2>1, ConcatEmptySeq
  <2>. QED BY <1>0, <1>2, <2>1, <2>2
<1>6. CASE FinishDecoding BY <1>6 DEF FinishDecoding
<1>. QED BY <1>3, <1>4, <1>5, <1>6 DEF Next

\* BinIoHandler::read_word hands over the words of a file in order, none skipped and none
\* twice, across the blocks, the sized reads and the files: what one step of the manager
\* reads is the head of what was left.
THEOREM WordsInOrderAlways == Spec => WordsInOrder
<1> DEFINE opened == IF stage = "run" THEN task.files[1]
                     ELSE IF stage = "loop" /\ io.eof THEN task.files[nfile'] ELSE <<>>
           left == Unread(io) \o opened
           Ordered == io' # io =>
             /\ IF left = <<>> THEN io'.eof /\ Unread(io') = <<>>
                ELSE io'.word = Head(left) /\ Unread(io') = Tail(left)
             /\ nfile' # nfile => io.rest = <<>> /\ (task.mode = "block" \/ Unread(io) = <<>>)
             /\ nfile' = nfile /\ stage # "run" => dec' = Decoded(io.word)
<1>1. ManagerInv /\ [Next]_vars => [Ordered]_vars
  <2> SUFFICES ASSUME ManagerInv, Next PROVE Ordered BY DEF vars
  <2>. QED BY StepReadsNext
<1>. QED BY <1>1, ManagerInvariance, PTL DEF Spec, WordsInOrder
================================================================================
