------------------------------- MODULE MCDecoder -------------------------------
(* Inputs for TLC: for each decoder two or three events, of which one may have  *)
(* two modules.  One or two words are lost, one is spoilt, or none; in one file *)
(* or cut.                                                                      *)
EXTENDS DecoderManager

W(v) == <<"W", v>>
Ws(values) == [i \in DOMAIN values |-> W(values[i])]
Ch(n, samples) == [n |-> n, time |-> <<>>, samples |-> samples, follows |-> FALSE]
Readout(n, time, samples, follows) ==
  [n |-> n, time |-> time, samples |-> samples, follows |-> follows]
Supernovas(n, time, samples) == Readout(n, time, samples, FALSE)

\* Modules 1 to 5 are of the TPC, module 3 is compressed; a frame number of 5 and
\* of 9 is beyond roll_over().  Modules 6 to 9 are of the PMTs, 8 has a readout that
\* follows another.  10 and 11 are of the TPC and do not count their last word; 12
\* to 14 are triggers; 15 and 16 are of the supernova stream, and 15 has channels
\* without data.
ChannelsOf(m) ==
  CASE m = 1 -> <<Ch(1, <<7, 8>>)>>
    [] m = 2 -> <<Ch(1, <<3>>), Ch(2, <<4>>)>>
    [] m = 3 -> <<Ch(1, <<1, 1, 0, 1>>)>>
    [] m = 4 -> <<Ch(2, <<5, 6>>)>>
    [] m = 5 -> <<Ch(1, <<9, 2>>)>>
    [] m = 6 -> <<Readout(1, <<1, 2>>, <<7>>, FALSE)>>
    [] m = 7 -> <<Readout(1, <<1, 2>>, <<3>>, FALSE), Readout(2, <<1, 3>>, <<5, 4>>, FALSE)>>
    [] m = 8 -> <<Readout(1, <<1, 2>>, <<5, 6>>, FALSE), Readout(1, <<3, 4>>, <<6, 7, 8>>, TRUE)>>
    [] m = 9 -> <<Readout(3, <<Twisted, 2>>, <<7>>, FALSE)>>
    [] m = 10 -> <<Ch(63, <<7, 8, 9>>)>>
    [] m = 11 -> <<Ch(1, <<2, 5>>)>>
    [] m \in 12 .. 14 -> <<Ch(0, <<10 * m, 10 * m + 1, 10 * m + 2>>)>>
    [] m = 15 -> <<Supernovas(1, <<>>, <<>>), Supernovas(2, <<5>>, <<7, 6, 7, 9>>), Supernovas(3, <<>>, <<>>)>>
    [] m = 16 -> <<Supernovas(2, <<5>>, <<3, 4>>), Supernovas(2, <<6>>, <<8, 2>>)>>
NumberOf == <<11, 12, 13, 12, 14, 11, 12, 12, 14, 12, 13, 21, 22, 23, 11, 12>>
Pmts == 6 .. 9
Triggers == 12 .. 14

\* The halves that a module sends between its header and, PMT, its last word.
ReadoutHalves(c) ==
  (IF c.follows THEN <<>> ELSE <<<<"CH", c.n>>>>) \o Ws(c.time) \o Ws(c.samples)
    \o <<<<"CL", c.n>>>>
    \o (IF Len(c.samples) % 2 = 1 /\ ~c.follows THEN <<W(Padding)>> ELSE <<>>)
HalvesOf(m) ==
  CASE m = 3 -> <<<<"CH", 1>>, W(1), <<"Z", <<0, 1, 2>>>>, <<"CL", 1>>>>
    [] m \in {1, 2, 4, 5, 11} ->
         FlattenSeq([c \in DOMAIN ChannelsOf(m) |->
                      <<<<"CH", ChannelsOf(m)[c].n>>>> \o Ws(ChannelsOf(m)[c].samples)
                        \o <<<<"CL", ChannelsOf(m)[c].n>>>>])
    [] m \in Pmts ->
         <<<<"FF">>>> \o FlattenSeq([c \in DOMAIN ChannelsOf(m) |-> ReadoutHalves(ChannelsOf(m)[c])])
    [] m = 10 -> <<<<"CH", 63>>, W(7), W(8), W(9), <<"CL", 63>>, <<"N">>>>
    [] m = 15 -> <<<<"CH", 1>>, <<"CH", 2>>, <<"CT", 5>>, W(7), <<"Z", <<1, 2>>>>, <<"CP", 9>>,
                   <<"CH", 3>>, <<"N">>>>
    [] m = 16 -> <<<<"CH", 2>>, <<"CT", 5>>, W(3), <<"CP", 4>>, <<"CT", 6>>, W(8), <<"CP", 2>>,
                   <<"N">>>>
    [] OTHER -> <<>>
CountOf(m) ==
  CASE m = 10 -> 4 [] m = 11 -> 3 [] m = 16 -> 7 [] m \in Triggers -> 3
    [] OTHER -> Len(HalvesOf(m))

Modules == [m \in DOMAIN NumberOf |->
  [number |-> NumberOf[m], nwords |-> CountOf(m),
   checksum |-> FoldSeq(LAMBDA h, sum : sum + Value(h), 0, HalvesOf(m)),
   ambiguous |-> IF m = 5 THEN 1 ELSE 0,
   channels |-> ChannelsOf(m)]]
Unusable == {5, 9}

ModuleWords(m) ==
  LET halves == HalvesOf(m) \o (IF m \in Pmts THEN <<<<"FL">>>> ELSE <<>>)
  IN IF m \in Triggers THEN <<<<"T", m, 1>>, <<"T", m, 2>>, <<"T", m, 3>>, <<"EH">>>>
     ELSE [i \in 1 .. 6 |-> <<"P", <<"F", m, i>>, <<"F", m, i>>>>]
            \o [i \in 1 .. Len(halves) \div 2 |-> <<"P", halves[2 * i - 1], halves[2 * i]>>]

\* A load: the events as they are to be stored, the words, where each event has
\* its last word, the events that each word is part of, and those that its loss
\* costs.
Word1(word, e, part, harms) == [word |-> word, of |-> e, part |-> part, harms |-> harms]
Load(algo, sent, words) ==
  [algo |-> algo, sent |-> sent, words |-> [p \in DOMAIN words |-> words[p].word],
   ends |-> [e \in DOMAIN sent |-> Max({p \in DOMAIN words : words[p].of = e})],
   part |-> [p \in DOMAIN words |-> words[p].part],
   harms |-> [p \in DOMAIN words |-> words[p].harms]]

\* An event header also ends the event before; the last event needs no event last
\* word, as the manager saves it.
TpcEvent(modules, e, last) ==
  LET words == FlattenSeq([i \in DOMAIN modules |-> ModuleWords(modules[i])])
  IN <<Word1(<<"EH">>, 0, {e}, {e, e - 1} \ {0})>>
       \o [i \in DOMAIN words |-> Word1(words[i], e, {e}, {e})]
       \o <<Word1(<<"EL">>, 0, {e}, {e} \ {last})>>
TpcLoad(sent) ==
  Load("TPC", sent, FlattenSeq([e \in DOMAIN sent |-> TpcEvent(sent[e], e, Len(sent))]))

\* Of the other decoders each module is an event; those of the PMT and of the
\* compressed TPC data come in packets.  What the loss of word i of event e costs:
\* - triggers: the event;
\* - PMT: the event, and with its last word the module behind it;
\* - old PMT data: the event, and with a header word all that follow; nothing if it
\*   is the last word and the halves are odd in number;
\* - compressed data: the event and all that follow in the packet, and with a
\*   header word of its last module the next packet; nothing if it is the last word
\*   of the last channel, which the checksum may lack;
\* - supernova data: the event and all that follow in the packet.
Harms(algo, words, i, e, packet, next) ==
  LET following == {f \in packet : f >= e}
      inHeader == i <= HeaderCount
  IN CASE algo = "PMT" /\ i = Len(words) -> {e, e + 1} \intersect packet
       [] algo = "SLOW" /\ inHeader -> following
       [] algo = "SLOW" /\ i = Len(words) /\ words[i][2] = W(Padding) -> {}
       [] algo = "HUFF" /\ inHeader /\ e = Max(packet) -> following \union next
       [] algo = "HUFF" /\ ~inHeader /\ words[i][2] = <<"CL", 63>> -> {}
       [] algo \in {"HUFF", "SN"} -> following
       [] OTHER -> {e}
ModuleTagged(algo, words, e, packet, next) ==
  [i \in DOMAIN words |-> Word1(words[i], e, {e}, Harms(algo, words, i, e, packet, next))]
Packet(algo, modules, from, next) ==
  FlattenSeq([i \in DOMAIN modules |->
    ModuleTagged(algo, ModuleWords(modules[i]), from + i - 1,
                 from .. from + Len(modules) - 1, next)])

\* Without the event header of compressed or supernova data the packet is lost.
\* Without the event last word the event stored there is, and the next packet; a
\* module that does not count its last word is stored before, and the last event of
\* all by the manager.
CountsLast(m) == CountOf(m) = Len(HalvesOf(m))
Framed(algo, modules, from, next) ==
  LET packet == from .. from + Len(modules) - 1
      last == {Max(packet)}
      words == Packet(algo, modules, from, next)
  IN IF algo = "PMT" THEN <<Word1(<<"EH">>, 0, {}, {})>> \o words \o <<Word1(<<"EL">>, 0, {}, {})>>
     ELSE <<Word1(<<"EH">>, 0, packet, packet)>> \o words
            \o <<Word1(<<"EL">>, 0, last,
                       IF next # {} /\ CountsLast(Last(modules)) THEN last \union next ELSE {})>>
Alone(modules) == [e \in DOMAIN modules |-> <<modules[e]>>]
UnframedLoad(algo, modules) == Load(algo, Alone(modules), Packet(algo, modules, 1, {}))
FramedLoad(algo, one, two) ==
  LET second == Len(one) + 1 .. Len(one) + Len(two)
  IN Load(algo, Alone(one \o two),
          Framed(algo, one, 1, second) \o Framed(algo, two, Len(one) + 1, {}))

Singles == TpcLoad(<<<<1>>, <<2>>, <<3>>>>)
Doubles == TpcLoad(<<<<1, 2>>, <<4>>>>)
Rolled == TpcLoad(<<<<1>>, <<5>>>>)
Readouts == FramedLoad("PMT", <<6>>, <<7, 8>>)
RolledReadouts == FramedLoad("PMT", <<6>>, <<9>>)
OldReadouts == UnframedLoad("SLOW", <<6, 7, 8>>)
AllTriggers == UnframedLoad("TRIG", <<12, 13, 14>>)
Compressed == FramedLoad("HUFF", <<1, 3>>, <<4>>)
Uncounted == FramedLoad("HUFF", <<2, 10>>, <<11>>)
Supernova == FramedLoad("SN", <<15>>, <<16>>)
Loads == {Singles, Doubles, Rolled, Readouts, RolledReadouts, OldReadouts, AllTriggers,
          Compressed, Uncounted, Supernova}

HitBy(load, positions) ==
  UNION {load.harms[p] : p \in positions}
    \union {e \in DOMAIN load.sent : Range(load.sent[e]) \intersect Unusable # {}}

Job(load, files, gone, positions, way, debug, limit) ==
  [algo |-> load.algo, files |-> files, gone |-> gone, mode |-> way[1], size |-> way[2],
   debug |-> debug, limit |-> limit, sent |-> load.sent, ends |-> load.ends,
   hit |-> HitBy(load, positions),
   intact |-> positions = {} /\ HitBy(load, {}) = {}]

Ways == {<<"word", 1>>, <<"block", 4>>, <<"block", 7>>, <<"sized", 5>>}

\* What a fault does to word p: nothing if p is 0.
Lost(words, p) == IF p = 0 THEN words ELSE RemoveAt(words, p)
Odd == <<"P", <<"F", 2, 2>>, <<"W", 1>>>>
Spoilt(words, p) == [words EXCEPT ![p] = IF @[1] = "P" /\ @[2][1] = "F" THEN Odd
                                         ELSE <<"P", <<"U">>, <<"W", 1>>>>]

OneLost(load) ==
  {Job(load, <<Lost(load.words, p)>>, {}, {p} \ {0}, w, b, n) :
     p \in 0 .. Len(load.words), b \in BOOLEAN, n \in {0, 1},
     w \in IF load \in {Singles, Readouts} THEN Ways ELSE {<<"word", 1>>, <<"block", 7>>}}
\* A spoilt word costs the events that it is part of in any case.
OneSpoilt(load) ==
  {[Job(load, <<Spoilt(load.words, p)>>, {}, {p}, <<"word", 1>>, b, 0)
      EXCEPT !.hit = @ \union load.part[p]] : p \in DOMAIN load.words, b \in BOOLEAN}
TwoLost(load) ==
  {Job(load, <<Lost(Lost(load.words, pq[2]), pq[1])>>, {}, {pq[1], pq[2]}, <<"word", 1>>, b, 0) :
     pq \in {x \in (DOMAIN load.words) \X (DOMAIN load.words) : x[1] < x[2]}, b \in BOOLEAN}

\* In two files, with an empty one before, between or behind.
Cut(w, p) == <<SubSeq(w, 1, p), SubSeq(w, p + 1, Len(w))>>
Files(load) ==
  {Job(load, Cut(load.words, p), g, {}, w, b, 0) :
     p \in DOMAIN load.words, g \in SUBSET {1, 2}, w \in Ways, b \in BOOLEAN}
    \union {Job(load, f, {}, {}, w, b, 0) :
       f \in UNION {{<<<<>>>> \o Cut(load.words, p), InsertAt(Cut(load.words, p), 2, <<>>)} :
                      p \in {5, 9, Len(load.words)}},
       w \in Ways, b \in BOOLEAN}

AllJobs ==
  UNION {OneLost(load) : load \in Loads}
    \union UNION {OneSpoilt(load) : load \in {Singles, Readouts, OldReadouts, Compressed}}
    \union UNION {TwoLost(load) \union Files(load) : load \in {Singles, Readouts, Compressed}}
===============================================================================
