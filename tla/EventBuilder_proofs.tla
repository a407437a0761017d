-------------------------- MODULE EventBuilder_proofs --------------------------
(***************************************************************************)
(* What holds of the event builder for files of any length and any program *)
(* over them: no stored event is torn, events are stored in order, missing *)
(* modules are noticed, and streams that agree are stored to the end.      *)
(***************************************************************************)
EXTENDS EventBuilder, FiniteSetTheorems, SequenceTheorems, WellFoundedInduction, TLAPS

(***************************************************************************)
(* The inductive invariant                                                 *)
(***************************************************************************)

\* The stream of turn k.
At(k) == IF k = 0 THEN master ELSE Slaves[k]
Turns == 0 .. Len(Slaves)

InLoop == pc \in {"process", "build", "find", "check", "next", "store"}

Algs == [index : Nat, current : Nat, eof : BOOLEAN,
         numFem : Nat, first : Nat, last : Nat, count : Int]
Events == [id : Nat, data : [Streams -> Seq(Nat)]]

Kinds ==
  /\ input \in Inputs /\ setup \in Setups
  /\ debug \in BOOLEAN
  /\ pc \in {"run", "initialize", "process", "build", "find", "check", "next",
             "store", "finish", "done", "crashed"}
  /\ turn \in Turns
  /\ status \in BOOLEAN /\ eof \in BOOLEAN /\ id \in Nat
  /\ alg \in [Streams -> Algs]
  /\ out \in [Streams -> Seq(Nat)]
  /\ stored \in Seq(Events)

\* Up to the loop nothing is built; in it every algorithm holds the entry that it
\* has read last.
Loaded ==
  /\ pc \in {"run", "initialize"} => turn = 0 /\ out = Cleared /\ stored = <<>>
  /\ InLoop \/ pc = "initialize" => setup.given
  /\ InLoop => \A k \in Turns :
       LET a == alg[At(k)]
       IN a.index \in 1 .. Len(input[At(k)]) /\ a.current = input[At(k)][a.index]

\* The master gives the event its number when it builds; only a slave is checked.
Numbered ==
  /\ InLoop /\ ~ (turn = 0 /\ pc \in {"process", "build"}) => id # Invalid
  /\ pc = "check" => turn # 0
  /\ pc = "store" => turn = Len(Slaves)

\* An algorithm that has not ended is at the first entry of an event.
Rest(s) ==
  alg[s].eof \/ \A k \in 1 .. alg[s].index - 1 : input[s][k] < alg[s].current

\* Turns to come have found nothing yet.
Ahead(k) == k > turn \/ (k = turn /\ pc = "process")
AheadEmpty ==
  InLoop => \A k \in Turns : Ahead(k) => out[At(k)] = <<>> /\ Rest(At(k))

\* The entries from a to b, as build() collects them.
Piece(s, a, b) ==
  IF s = Trigger THEN IF a <= b THEN <<b>> ELSE <<>>
  ELSE [i \in 1 .. b - a + 1 |-> a + i - 1]

\* The product has the entries of event n up to the given one.
GatheredFrom(s, file, n, end, product) ==
  \E a \in 1 .. end + 1 :
    /\ \A k \in 1 .. a - 1 : file[k] < n
    /\ \A k \in a .. end : file[k] = n
    /\ product = Piece(s, a, end)
Gathered(s, n, end) == GatheredFrom(s, input[s], n, end, out[s])

Building ==
  pc = "build" =>
    LET s == Current
        a == alg[s]
    IN /\ ~ a.eof /\ Wanted \in {Invalid, a.current}
       /\ Gathered(s, a.current, a.index - 1)
       /\ out[s] # <<>> => s = Trigger \/ a.last = a.current

Finding ==
  pc = "find" =>
    LET s == Current
        a == alg[s]
    IN /\ ~ a.eof
       /\ \/ /\ a.current = id /\ Gathered(s, id, a.index)
             /\ s = Trigger \/ a.last = id
          \/ turn # 0 /\ a.current < id /\ out[s] = <<>> /\ Rest(s)

\* Turns that are over: what NeverTorn asks of the event at hand.
Behind(k) == k < turn \/ (k = turn /\ pc \in {"check", "next", "store"})
Good(s) ==
  \/ Whole(s, out[s], id)
  \/ /\ s # master /\ out[s] = <<>>
     /\ \/ Entries(s, id) = {}
        \/ Entries(s, id) = {Len(input[s])} /\ alg[s].eof
BehindGood ==
  InLoop => \A k \in Turns : Behind(k) => Rest(At(k)) /\ (status => Good(At(k)))

\* The end of a stream has been noticed.
Noticed(k) == k < turn \/ (k = turn /\ pc \in {"next", "store"})
Ends ==
  InLoop =>
    /\ \A k \in Turns : Noticed(k) /\ alg[At(k)].eof => eof
    /\ turn = 0 /\ pc = "process" => ~ alg[master].eof

\* While the loop goes on no event has lost the last entry of a stream.
StoredWhole ==
  InLoop =>
    \A j \in DOMAIN stored : \A s \in Used :
      \/ Whole(s, stored[j].data[s], stored[j].id)
      \/ s # master /\ stored[j].data[s] = <<>> /\ Entries(s, stored[j].id) = {}

IInv ==
  /\ Kinds /\ Loaded /\ Numbered
  /\ AheadEmpty /\ Building /\ Finding /\ BehindGood /\ Ends
  /\ StoredWhole /\ NeverTorn

(***************************************************************************)
(* Streams and files                                                       *)
(***************************************************************************)
LEMMA StreamOfTurn ==
  ASSUME Kinds
  PROVE  /\ Slaves \in Seq(Streams) /\ Len(Slaves) \in Nat
         /\ master \in Streams
         /\ \A k \in Turns : At(k) \in Streams
         /\ \A j, k \in Turns : At(j) = At(k) => j = k
         /\ \A k \in Turns : At(k) = master <=> k = 0
         /\ Current = At(turn)
         /\ setup.given => Used = {At(k) : k \in Turns}
<1>1. setup \in Setups /\ turn \in Turns
  BY DEF Kinds
<1>2. /\ master \in Streams /\ Slaves \in Seq(Streams \ {master})
      /\ \A j, k \in DOMAIN Slaves : Slaves[j] = Slaves[k] => j = k
  BY <1>1, SetupsAssumption DEF master, Slaves, IsInjective
<1>3. Len(Slaves) \in Nat /\ DOMAIN Slaves = 1 .. Len(Slaves) /\ Slaves \in Seq(Streams)
  BY <1>2
<1>4. \A k \in 1 .. Len(Slaves) : Slaves[k] \in Streams \ {master}
  BY <1>2, <1>3
<1>5. \A k \in Turns : At(k) \in Streams /\ (At(k) = master <=> k = 0)
  BY <1>2, <1>3, <1>4 DEF At, Turns
<1>6. \A j, k \in Turns : At(j) = At(k) => j = k
  BY <1>2, <1>3, <1>4 DEF At, Turns
<1>7. Current = At(turn)
  BY DEF Current, At
<1>8. setup.given => Used = {At(k) : k \in Turns}
  <2>1. Range(Slaves) = {Slaves[k] : k \in 1 .. Len(Slaves)}
    BY <1>3 DEF Range
  <2>2. {At(k) : k \in Turns} = {Slaves[k] : k \in 1 .. Len(Slaves)} \cup {master}
    BY <1>3 DEF At, Turns
  <2> QED
    BY <2>1, <2>2 DEF Used
<1> QED
  BY <1>2, <1>3, <1>5, <1>6, <1>7, <1>8

LEMMA FileOfStream ==
  ASSUME Kinds, NEW s \in Streams
  PROVE  /\ input[s] \in Seq(Nat \ {0}) /\ Len(input[s]) \in Nat
         /\ \A k \in 1 .. Len(input[s]) : input[s][k] \in Nat \ {0}
         /\ \A j, k \in 1 .. Len(input[s]) : j <= k => input[s][j] <= input[s][k]
         /\ DOMAIN input[s] = 1 .. Len(input[s])
<1>1. /\ input \in [Streams -> Seq(Nat \ {0})]
      /\ \A j, k \in DOMAIN input[s] : j <= k => input[s][j] <= input[s][k]
  BY InputsAssumption DEF Kinds
<1>2. input[s] \in Seq(Nat \ {0})
  BY <1>1
<1> QED
  BY <1>1, <1>2, LenProperties, ElementOfSeq

LEMMA LeastMember ==
  ASSUME NEW S \in SUBSET Nat, S # {}
  PROVE  \E x \in S : \A y \in S : x <= y
<1> DEFINE Less == {ss \in Nat \X Nat : ss[1] < ss[2]}
<1>1. IsWellFoundedOn(Less, Nat)
  BY NatLessThanWellFounded DEF OpToRel
<1>2. PICK x \in S : \A y \in S : ~ (<<y, x>> \in Less)
  <2> HIDE DEF Less
  <2> QED
    BY <1>1, WFMin
<1>3. ASSUME NEW y \in S
      PROVE  x <= y
  <2>1. <<y, x>> \in Nat \X Nat /\ ~ (<<y, x>> \in Less)
    BY <1>2
  <2> QED
    BY <2>1
<1> QED
  BY <1>3

\* Where skipping stops: at the first entry that is not before n, or at the end.
LEMMA SkippingStops ==
  ASSUME Kinds, NEW s \in Streams, NEW i \in 1 .. Len(input[s]), i < Len(input[s]),
         NEW n \in Nat
  PROVE  /\ StopsAt(s, i, n) \in i + 1 .. Len(input[s])
         /\ \A j \in i + 1 .. StopsAt(s, i, n) - 1 : input[s][j] < n
         /\ input[s][StopsAt(s, i, n)] < n => StopsAt(s, i, n) = Len(input[s])
<1> DEFINE reached == {k \in i + 1 .. Len(input[s]) : input[s][k] >= n}
<1>1. /\ Len(input[s]) \in Nat
      /\ \A k \in 1 .. Len(input[s]) : input[s][k] \in Nat
  BY FileOfStream
<1>a. \A j \in i + 1 .. Len(input[s]) : input[s][j] \in Nat
  BY <1>1
<1>2. CASE reached = {}
  <2>1. StopsAt(s, i, n) = Len(input[s])
    BY <1>2 DEF StopsAt
  <2> QED
    <3>1. \A j \in i + 1 .. Len(input[s]) : input[s][j] < n
      BY <1>a, <1>2
    <3> QED
      BY <1>1, <2>1, <3>1
<1>3. CASE reached # {}
  <2>1. StopsAt(s, i, n) = CHOOSE k \in reached : \A j \in reached : k <= j
    BY <1>3 DEF StopsAt
  <2>2. \E k \in reached : \A j \in reached : k <= j
    <3>1. reached \in SUBSET Nat
      BY <1>1
    <3> HIDE DEF reached
    <3> QED
      BY <1>3, <3>1, LeastMember
  <2>3. /\ StopsAt(s, i, n) \in reached
        /\ \A j \in reached : StopsAt(s, i, n) <= j
    <3> HIDE DEF reached
    <3> QED
      BY <2>1, <2>2
  <2>4. /\ StopsAt(s, i, n) \in i + 1 .. Len(input[s])
        /\ input[s][StopsAt(s, i, n)] >= n
    BY <2>3
  <2>5. ASSUME NEW j \in i + 1 .. StopsAt(s, i, n) - 1
        PROVE  input[s][j] < n
    <3>1. j \in i + 1 .. Len(input[s]) /\ ~ (StopsAt(s, i, n) <= j)
      BY <1>1, <2>4
    <3>2. j \notin reached
      BY <2>3, <3>1
    <3> QED
      BY <1>a, <3>1, <3>2
  <2>6. input[s][StopsAt(s, i, n)] \in Nat
    BY <1>a, <2>4
  <2> QED
    BY <2>4, <2>5, <2>6
<1> QED
  BY <1>2, <1>3

(***************************************************************************)
(* Products                                                                *)
(***************************************************************************)

\* build() adds the next entry to the product.
LEMMA PieceGrows ==
  ASSUME NEW s \in Streams, NEW a \in Nat \ {0}, NEW b \in Nat, a <= b,
         out[s] = Piece(s, a, b - 1)
  PROVE  Filled(s, b) = Piece(s, a, b)
<1>1. CASE s = Trigger
  BY <1>1 DEF Filled, Piece
<1>2. CASE s # Trigger
  <2> DEFINE old == [i \in 1 .. b - a |-> a + i - 1]
  <2>1. out[s] = old
    <3>1. (b - 1) - a + 1 = b - a
      OBVIOUS
    <3> QED
      BY <1>2, <3>1 DEF Piece
  <2>2. old \in Seq(Nat) /\ Len(old) = b - a
    <3>1. b - a \in Nat /\ \A i \in 1 .. b - a : a + i - 1 \in Nat
      OBVIOUS
    <3>2. old \in [1 .. b - a -> Nat]
      BY <3>1
    <3>3. old \in Seq(Nat)
      BY <3>1, <3>2, SeqDef
    <3> QED
      BY <3>1, <3>2, <3>3, LenProperties
  <2>3. /\ Append(old, b) \in Seq(Nat) /\ Len(Append(old, b)) = b - a + 1
        /\ \A i \in 1 .. b - a + 1 :
             Append(old, b)[i] = IF i = b - a + 1 THEN b ELSE old[i]
    <3> HIDE DEF old
    <3> QED
      BY <2>2, AppendProperties
  <2>4. \A i \in 1 .. b - a + 1 : Append(old, b)[i] = a + i - 1
    BY <2>3
  <2>5. DOMAIN Append(old, b) = 1 .. b - a + 1
    <3> HIDE DEF old
    <3> QED
      BY <2>3, LenProperties
  <2>6. Append(old, b) = [i \in 1 .. b - a + 1 |-> a + i - 1]
    <3>1. Append(old, b) = [i \in DOMAIN Append(old, b) |-> Append(old, b)[i]]
      <4> HIDE DEF old
      <4> QED
        BY <2>3, LenProperties
    <3> HIDE DEF old
    <3> QED
      BY <3>1, <2>4, <2>5
  <2> QED
    BY <1>2, <2>1, <2>6 DEF Filled, Piece
<1> QED
  BY <1>1, <1>2

\* The entries from the first of event n to its last are the whole event.
LEMMA PieceIsWhole ==
  ASSUME Kinds, NEW s \in Streams, NEW n \in Nat,
         NEW a \in 1 .. Len(input[s]), NEW b \in a .. Len(input[s]),
         \A k \in 1 .. a - 1 : input[s][k] < n,
         \A k \in a .. b : input[s][k] = n,
         \A k \in b + 1 .. Len(input[s]) : input[s][k] > n
  PROVE  Whole(s, Piece(s, a, b), n) /\ Piece(s, a, b) # <<>>
<1>1. /\ Len(input[s]) \in Nat /\ DOMAIN input[s] = 1 .. Len(input[s])
      /\ \A k \in 1 .. Len(input[s]) : input[s][k] \in Nat
  BY FileOfStream
<1>2. Entries(s, n) = a .. b
  <2>1. ASSUME NEW k \in 1 .. Len(input[s])
        PROVE  input[s][k] = n <=> k \in a .. b
    <3>1. CASE k < a
      BY <1>1, <3>1
    <3>2. CASE k > b
      BY <1>1, <3>2
    <3>3. CASE k \in a .. b
      BY <3>3
    <3> QED
      BY <1>1, <3>1, <3>2, <3>3
  <2> QED
    BY <1>1, <2>1 DEF Entries
<1>3. CASE s = Trigger
  <2>1. Piece(s, a, b) = <<b>> /\ Range(<<b>>) = {b}
    BY <1>1, <1>3 DEF Piece, Range
  <2> QED
    BY <1>1, <1>2, <1>3, <2>1 DEF Whole
<1>4. CASE s # Trigger
  <2> DEFINE p == [i \in 1 .. b - a + 1 |-> a + i - 1]
  <2>1. Piece(s, a, b) = p
    BY <1>4 DEF Piece
  <2>2. b - a + 1 \in Nat /\ p \in [1 .. b - a + 1 -> Nat]
    BY <1>1
  <2>3. p \in Seq(Nat) /\ Len(p) = b - a + 1
    <3> HIDE DEF p
    <3>1. p \in Seq(Nat)
      BY <2>2, SeqDef
    <3>2. Len(p) \in Nat /\ DOMAIN p = 1 .. Len(p)
      BY <3>1, LenProperties
    <3>3. DOMAIN p = 1 .. (b - a + 1)
      BY <2>2
    <3>4. ASSUME NEW m \in Nat, NEW k \in Nat, 1 .. m = 1 .. k
          PROVE  m = k
      <4>1. m < k => k \notin 1 .. m
        OBVIOUS
      <4>2. k < m => m \notin 1 .. k
        OBVIOUS
      <4>3. (0 < k => k \in 1 .. k) /\ (0 < m => m \in 1 .. m)
        OBVIOUS
      <4> QED
        BY <3>4, <4>1, <4>2, <4>3
    <3> QED
      BY <2>2, <3>1, <3>2, <3>3, <3>4
  <2>4. Range(p) = a .. b
    <3>1. Range(p) = {a + i - 1 : i \in 1 .. b - a + 1}
      BY DEF Range
    <3>2. \A k \in a .. b : k - a + 1 \in 1 .. b - a + 1 /\ k = a + (k - a + 1) - 1
      BY <1>1
    <3>3. \A i \in 1 .. b - a + 1 : a + i - 1 \in a .. b
      BY <1>1
    <3> QED
      BY <3>1, <3>2, <3>3
  <2>5. Cardinality(a .. b) = b - a + 1
    BY <1>1, FS_Interval
  <2>6. p # <<>>
    BY <1>1, <2>3
  <2> QED
    BY <1>2, <1>4, <2>1, <2>3, <2>4, <2>5, <2>6 DEF Whole
<1> QED
  BY <1>3, <1>4

(***************************************************************************)
(* A step of the stream whose turn it is touches nothing of the others.    *)
(***************************************************************************)
StreamStep ==
  /\ pc \in {"process", "build", "find"}
  /\ UNCHANGED <<job, turn, stored>>
  /\ alg' \in [Streams -> Algs] /\ out' \in [Streams -> Seq(Nat)]
  /\ \A k \in Turns : k # turn => /\ alg'[At(k)] = alg[At(k)]
                                  /\ out'[At(k)] = out[At(k)]
  /\ id' \in Nat /\ (turn # 0 => id' = id)
  /\ LET a == alg'[Current]
     IN a.index \in 1 .. Len(input[Current]) /\ a.current = input[Current][a.index]

\* What holds of the streams before it, after it and of the stored events.
LEMMA OtherStreams ==
  ASSUME IInv, StreamStep
  PROVE  /\ \A k \in Turns : At(k)' = At(k)
         /\ Turns' = Turns /\ Current' = Current /\ Slaves' = Slaves
         /\ InLoop /\ setup.given
         /\ \A k \in Turns : k > turn => (out[At(k)] = <<>> /\ Rest(At(k)))'
         /\ \A k \in Turns : k < turn =>
              Rest(At(k))' /\ (status => Good(At(k))') /\ (alg'[At(k)].eof => eof)
         /\ \A k \in Turns : alg'[At(k)].index \in 1 .. Len(input[At(k)])
                             /\ alg'[At(k)].current = input[At(k)][alg'[At(k)].index]
         /\ (InLoop' => StoredWhole') /\ NeverTorn'
<1>1. /\ setup' = setup /\ input' = input /\ turn' = turn /\ stored' = stored
  BY DEF StreamStep, job
<1>2. /\ \A k \in Turns : At(k)' = At(k)
      /\ Turns' = Turns /\ Current' = Current /\ Slaves' = Slaves /\ master' = master
      /\ Used' = Used
  BY <1>1 DEF At, Turns, Current, Slaves, master, Used
<1>3. InLoop /\ setup.given
  BY DEF IInv, Loaded, StreamStep, InLoop
<1>4. /\ Len(Slaves) \in Nat /\ turn \in Turns /\ Turns \subseteq Nat
      /\ Current = At(turn)
  BY StreamOfTurn DEF IInv, Kinds, Turns
<1>5. ASSUME NEW k \in Turns, k > turn
      PROVE  (out[At(k)] = <<>> /\ Rest(At(k)))'
  <2>1. out[At(k)] = <<>> /\ Rest(At(k))
    BY <1>3, <1>5 DEF IInv, AheadEmpty, Ahead
  <2>2. alg'[At(k)] = alg[At(k)] /\ out'[At(k)] = out[At(k)]
    <3>1. k # turn
      BY <1>4, <1>5
    <3> QED
      BY <3>1 DEF StreamStep
  <2> QED
    BY <1>1, <1>2, <2>1, <2>2 DEF Rest
<1>6. ASSUME NEW k \in Turns, k < turn
      PROVE  Rest(At(k))' /\ (status => Good(At(k))') /\ (alg'[At(k)].eof => eof)
  <2>1. Rest(At(k)) /\ (status => Good(At(k))) /\ (alg[At(k)].eof => eof)
    BY <1>3, <1>6 DEF IInv, BehindGood, Behind, Ends, Noticed
  <2>2. alg'[At(k)] = alg[At(k)] /\ out'[At(k)] = out[At(k)] /\ id' = id
    <3>1. k # turn /\ turn # 0
      BY <1>4, <1>6
    <3> QED
      BY <3>1 DEF StreamStep
  <2>3. Rest(At(k))'
    BY <1>1, <1>2, <2>1, <2>2 DEF Rest
  <2>4. Good(At(k))' <=> Good(At(k))
    BY <1>1, <1>2, <2>2 DEF Good, Whole, Entries
  <2> QED
    BY <2>1, <2>2, <2>3, <2>4
<1>7. ASSUME NEW k \in Turns
      PROVE  /\ alg'[At(k)].index \in 1 .. Len(input[At(k)])
             /\ alg'[At(k)].current = input[At(k)][alg'[At(k)].index]
  <2>1. CASE k = turn
    BY <1>4, <2>1 DEF StreamStep
  <2>2. CASE k # turn
    BY <1>3, <2>2 DEF StreamStep, IInv, Loaded
  <2> QED
    BY <2>1, <2>2
<1>8. StoredWhole /\ NeverTorn
  BY DEF IInv
<1>9. StoredWhole'
  BY <1>1, <1>2, <1>3, <1>8 DEF StoredWhole, Whole, Entries
<1>10. NeverTorn'
  BY <1>1, <1>2, <1>8 DEF NeverTorn, Whole, Entries
<1> QED
  BY <1>2, <1>3, <1>5, <1>6, <1>7, <1>9, <1>10

\* The turn goes on.
LEMMA TurnGoesOn ==
  ASSUME IInv, StreamStep, pc' \in {"build", "find"}, UNCHANGED <<status, eof>>,
         (turn = 0 /\ pc' = "build") \/ id' # Invalid,
         Building', Finding'
  PROVE  IInv'
<1>1. /\ setup' = setup /\ input' = input /\ turn' = turn /\ stored' = stored
      /\ debug' = debug
  BY DEF StreamStep, job
<1>2. turn \in Nat /\ turn \in Turns /\ Turns \subseteq Nat
  BY StreamOfTurn DEF IInv, Kinds, Turns
<1>3. Kinds'
  BY <1>1, OtherStreams DEF IInv, Kinds, StreamStep
<1>4. Loaded' /\ Numbered'
  BY <1>1, OtherStreams DEF Loaded, Numbered, InLoop
<1>5. AheadEmpty'
  BY <1>1, OtherStreams DEF AheadEmpty, Ahead
<1>6. BehindGood'
  BY <1>1, OtherStreams DEF BehindGood, Behind
<1>7. Ends'
  BY <1>1, OtherStreams DEF Ends, Noticed
<1>8. StoredWhole' /\ NeverTorn'
  BY OtherStreams DEF InLoop
<1> QED
  BY <1>3, <1>4, <1>5, <1>6, <1>7, <1>8 DEF IInv

\* The turn ends.
LEMMA TurnEnds ==
  ASSUME IInv, StreamStep, NEW ok \in BOOLEAN, ProcessReturns(ok), id' # Invalid,
         Rest(Current)', ok => Good(Current)'
  PROVE  IInv'
<1>1. /\ setup' = setup /\ input' = input /\ turn' = turn /\ stored' = stored
      /\ debug' = debug
  BY DEF StreamStep, job
<1>2. /\ turn \in Nat /\ turn \in Turns /\ Turns \subseteq Nat
      /\ Current = At(turn) /\ master \in Streams /\ At(0) = master /\ 0 \in Turns
  BY StreamOfTurn DEF IInv, Kinds, Turns, At
<1>3. /\ pc' = IF turn = 0 THEN "next" ELSE "check"
      /\ status' \in BOOLEAN /\ (status' => ok) /\ (status' => status \/ turn = 0)
      /\ eof' = IF turn = 0 THEN alg'[master].eof ELSE eof
  BY DEF ProcessReturns, IInv, Kinds
<1>4. Kinds'
  <2>1. eof' \in BOOLEAN
    BY <1>2, <1>3 DEF StreamStep, Algs, IInv, Kinds
  <2> QED
    BY <1>1, <1>3, <2>1, OtherStreams DEF IInv, Kinds, StreamStep
<1>5. Loaded' /\ Numbered'
  BY <1>1, <1>3, OtherStreams DEF Loaded, Numbered, InLoop
<1>6. AheadEmpty'
  BY <1>1, <1>3, OtherStreams DEF AheadEmpty, Ahead
<1>7. Building' /\ Finding'
  BY <1>3 DEF Building, Finding
<1>8. BehindGood'
  <2>1. SUFFICES ASSUME NEW k \in Turns, k < turn \/ k = turn
                 PROVE  Rest(At(k))' /\ (status' => Good(At(k))')
    BY <1>1, OtherStreams DEF BehindGood, Behind
  <2>2. CASE k = turn
    BY <1>1, <1>2, <1>3, <2>2, OtherStreams
  <2>3. CASE k < turn
    BY <1>2, <1>3, <2>3, OtherStreams
  <2> QED
    BY <2>1, <2>2, <2>3
<1>9. Ends'
  <2>1. SUFFICES ASSUME NEW k \in Turns, Noticed(k)', alg'[At(k)].eof
                 PROVE  eof'
    BY <1>1, <1>3, OtherStreams DEF Ends
  <2>2. CASE turn = 0
    BY <1>1, <1>2, <1>3, <2>1, <2>2 DEF Noticed
  <2>3. CASE turn # 0
    BY <1>1, <1>2, <1>3, <2>1, <2>3, OtherStreams DEF Noticed
  <2> QED
    BY <2>2, <2>3
<1>10. StoredWhole' /\ NeverTorn'
  BY <1>3, OtherStreams DEF InLoop
<1> QED
  BY <1>4, <1>5, <1>6, <1>7, <1>8, <1>9, <1>10 DEF IInv

(***************************************************************************)
(* process(), find_next() and build()                                      *)
(***************************************************************************)

\* What the steps of a turn start from.
LEMMA OnTurn ==
  ASSUME IInv, pc \in {"process", "build", "find"}
  PROVE  /\ Current \in Streams /\ (turn = 0 <=> Current = master)
         /\ alg \in [Streams -> Algs] /\ out \in [Streams -> Seq(Nat)]
         /\ id \in Nat /\ turn \in Turns
         /\ alg[Current].index \in 1 .. Len(input[Current])
         /\ alg[Current].current = input[Current][alg[Current].index]
         /\ alg[Current].current \in Nat \ {0}
         /\ Len(input[Current]) \in Nat
         /\ \A k \in 1 .. Len(input[Current]) : input[Current][k] \in Nat
         /\ \A j, k \in 1 .. Len(input[Current]) :
              j <= k => input[Current][j] <= input[Current][k]
         /\ \A k \in Turns : k # turn => At(k) \in Streams /\ At(k) # Current
<1>1. Kinds /\ InLoop
  BY DEF IInv, InLoop
<1>2. /\ Current = At(turn) /\ turn \in Turns /\ Current \in Streams
      /\ turn = 0 <=> Current = master
      /\ \A k \in Turns : k # turn => At(k) \in Streams /\ At(k) # Current
  BY <1>1, StreamOfTurn DEF Kinds
<1>3. /\ alg[Current].index \in 1 .. Len(input[Current])
      /\ alg[Current].current = input[Current][alg[Current].index]
  BY <1>1, <1>2 DEF IInv, Loaded
<1> QED
  BY <1>1, <1>2, <1>3, FileOfStream DEF Kinds

\* An empty product is one that has gathered nothing yet.
LEMMA NothingGathered ==
  ASSUME NEW s \in Streams, NEW a \in Nat \ {0}
  PROVE  Piece(s, a, a - 1) = <<>>
BY DEF Piece

LEMMA ProcessStep ==
  ASSUME IInv, Process
  PROVE  IInv'
<1> DEFINE s == Current
           a == alg[s]
<1>1. pc = "process" /\ InLoop
  BY DEF Process, InLoop
<1>2. /\ UNCHANGED <<job, turn, stored>> /\ alg' = alg /\ out' = out /\ id' = id
      /\ setup' = setup /\ input' = input /\ s' = s
  BY DEF Process, job, Current, Slaves, master
<1>3. StreamStep
  BY <1>1, <1>2, OnTurn DEF StreamStep
<1>4. out[s] = <<>> /\ Rest(s)
  <2>1. Ahead(turn) /\ turn \in Turns /\ s = At(turn)
    BY <1>1, OnTurn, StreamOfTurn DEF Ahead, IInv
  <2> QED
    BY <1>1, <2>1 DEF IInv, AheadEmpty
<1>5. turn # 0 => id # Invalid
  BY <1>1 DEF IInv, Numbered
<1>6. CASE a.eof \/ (Wanted # Invalid /\ a.current > Wanted)
  <2>1. turn # 0
    BY <1>1, <1>6 DEF IInv, Ends, Wanted, Current
  <2>2. ProcessReturns(FALSE)
    BY <1>6 DEF Process
  <2>3. Rest(s)'
    BY <1>2, <1>4 DEF Rest
  <2> QED
    BY <1>2, <1>3, <1>5, <2>1, <2>2, <2>3, TurnEnds
<1>7. CASE ~ (a.eof \/ (Wanted # Invalid /\ a.current > Wanted))
  <2>1. /\ pc' = IF Wanted \in {Invalid, a.current} THEN "build" ELSE "find"
        /\ UNCHANGED <<status, eof>>
    BY <1>7 DEF Process
  <2>2. ~ a.eof
    BY <1>3, <1>7, OnTurn DEF StreamStep, Algs
  <2>3. CASE Wanted \in {Invalid, a.current}
    <3>1. pc' = "build"
      BY <2>1, <2>3
    <3>2. Gathered(s, a.current, a.index - 1)
      <4>1. a.index \in 1 .. (a.index - 1) + 1 /\ a.index \in Nat \ {0}
        BY <1>1, OnTurn
      <4>2. \A k \in 1 .. a.index - 1 : input[s][k] < a.current
        BY <1>4, <2>2 DEF Rest
      <4>3. out[s] = Piece(s, a.index, a.index - 1)
        BY <1>1, <1>4, <4>1, OnTurn, NothingGathered
      <4>4. \A k \in a.index .. a.index - 1 : input[s][k] = a.current
        BY <4>1
      <4> QED
        BY <4>1, <4>2, <4>3, <4>4 DEF Gathered, GatheredFrom
    <3>3. Gathered(s, a.current, a.index - 1)' /\ Wanted' = Wanted
      BY <1>2, <3>2 DEF Gathered, Wanted
    <3>4. Building'
      BY <1>2, <1>4, <2>2, <2>3, <3>3 DEF Building
    <3>5. Finding'
      BY <3>1 DEF Finding
    <3> QED
      BY <1>2, <1>3, <1>5, <2>1, <3>1, <3>4, <3>5, TurnGoesOn
  <2>4. CASE Wanted \notin {Invalid, a.current}
    <3>1. pc' = "find" /\ Building'
      BY <2>1, <2>4 DEF Building
    <3>2. turn # 0 /\ Wanted = id
      BY <2>4 DEF Wanted
    <3>3. a.current < id
      BY <1>1, <1>7, <2>4, <3>2, OnTurn
    <3>4. Rest(s)'
      BY <1>2, <1>4 DEF Rest
    <3>5. Finding'
      BY <1>2, <1>4, <2>2, <3>2, <3>3, <3>4 DEF Finding
    <3> QED
      BY <1>2, <1>3, <1>5, <2>1, <3>1, <3>2, <3>5, TurnGoesOn
  <2> QED
    BY <2>3, <2>4
<1> QED
  BY <1>6, <1>7

LEMMA BuildStep ==
  ASSUME IInv, Build
  PROVE  IInv'
<1> DEFINE s == Current
           a == alg[s]
           n == a.current
<1>1. pc = "build" /\ InLoop
  BY DEF Build, InLoop
<1>2. /\ UNCHANGED <<job, turn, stored>>
      /\ setup' = setup /\ input' = input /\ s' = s
  BY DEF Build, job, Current, Slaves, master
<1>3. /\ ~ a.eof /\ Wanted \in {Invalid, n}
      /\ Gathered(s, n, a.index - 1)
      /\ out[s] # <<>> => s = Trigger \/ a.last = n
  BY <1>1 DEF IInv, Building
<1>4. n = input[s][a.index] /\ n # Invalid /\ n \in Nat /\ a.index \in Nat \ {0}
  BY <1>1, OnTurn DEF Invalid
<1>5. id' = n
  <2>1. turn # 0 => id # Invalid /\ Wanted = id
    BY <1>1 DEF IInv, Numbered, Wanted
  <2> QED
    BY <1>3, <2>1 DEF Build
<1>6. turn # 0 => id' = id
  BY DEF Build
<1>7. PICK b \in 1 .. a.index :
        /\ \A k \in 1 .. b - 1 : input[s][k] < n
        /\ \A k \in b .. a.index - 1 : input[s][k] = n
        /\ out[s] = Piece(s, b, a.index - 1)
  BY <1>3, <1>4 DEF Gathered, GatheredFrom
<1>8. out' = [out EXCEPT ![s] = Filled(s, a.index)]
  BY <1>3, <1>4 DEF Build
<1>9. Filled(s, a.index) = Piece(s, b, a.index)
  BY <1>1, <1>4, <1>7, OnTurn, PieceGrows
<1>10. out' \in [Streams -> Seq(Nat)] /\ out'[s] = Piece(s, b, a.index)
  <2>1. Filled(s, a.index) \in Seq(Nat)
    <3>1. out[s] \in Seq(Nat)
      BY <1>1, OnTurn
    <3> QED
      BY <1>4, <3>1 DEF Filled
  <2> QED
    BY <1>1, <1>8, <1>9, <2>1, OnTurn
<1>11. CASE PreviousDiffers(s, a, n)
  <2>1. alg' = [alg EXCEPT ![s].count = 0] /\ ProcessReturns(FALSE)
    BY <1>3, <1>4, <1>11 DEF Build
  <2>2. /\ alg' \in [Streams -> Algs]
        /\ alg'[s].index = a.index /\ alg'[s].current = n /\ alg'[s].eof = a.eof
        /\ \A k \in Turns : k # turn => alg'[At(k)] = alg[At(k)]
    <3>1. alg \in [Streams -> Algs] /\ a \in Algs /\ s \in Streams
      BY <1>1, OnTurn
    <3>2. /\ [a EXCEPT !.count = 0] \in Algs
          /\ [a EXCEPT !.count = 0].index = a.index
          /\ [a EXCEPT !.count = 0].current = n
          /\ [a EXCEPT !.count = 0].eof = a.eof
      BY <3>1 DEF Algs
    <3>3. alg' = [alg EXCEPT ![s] = [a EXCEPT !.count = 0]]
      BY <2>1
    <3> QED
      BY <1>1, <3>1, <3>2, <3>3, OnTurn
  <2>3. StreamStep
    BY <1>1, <1>2, <1>4, <1>5, <1>6, <1>8, <1>10, <2>2, OnTurn DEF StreamStep
  <2>4. b = a.index
    <3>1. out[s] = <<>> /\ s # Trigger
      BY <1>3, <1>11 DEF PreviousDiffers, PMT, Trigger
    <3>2. CASE b < a.index
      <4>1. Len(Piece(s, b, a.index - 1)) = a.index - b
        <5> DEFINE m == a.index - b
        <5>1. m \in Nat /\ (a.index - 1) - b + 1 = m
          BY <1>4, <1>7
        <5>2. Piece(s, b, a.index - 1) = [i \in 1 .. m |-> b + i - 1]
          BY <3>1, <5>1 DEF Piece
        <5>3. DOMAIN out[s] = 1 .. m
          BY <1>7, <5>2
        <5>4. out[s] \in Seq(Nat)
          BY <1>1, OnTurn
        <5> HIDE DEF m
        <5>5. Len(out[s]) = m
          BY <5>1, <5>3, <5>4, LenProperties
        <5> QED
          BY <1>7, <5>5 DEF m
      <4> QED
        BY <1>4, <1>7, <3>1, <3>2, <4>1
    <3> QED
      BY <1>4, <1>7, <3>2
  <2>5. Rest(s)'
    BY <1>2, <1>7, <2>2, <2>4 DEF Rest
  <2> QED
    BY <1>2, <1>4, <1>5, <2>1, <2>3, <2>5, TurnEnds
<1>12. CASE ~ PreviousDiffers(s, a, n)
  <2>1. /\ alg' = IF s = Trigger THEN alg ELSE [alg EXCEPT ![s] = WithFem(a, n)]
        /\ pc' = "find" /\ UNCHANGED <<status, eof>>
    BY <1>3, <1>4, <1>12 DEF Build
  <2>2. a \in Algs
    BY <1>1, OnTurn
  <2>3. /\ WithFem(a, n) \in Algs
        /\ WithFem(a, n).index = a.index /\ WithFem(a, n).current = n
        /\ WithFem(a, n).eof = a.eof /\ WithFem(a, n).last = n
    <3> DEFINE
          first == IF a.first = Invalid THEN n ELSE a.first
          numFem == IF a.first \in {Invalid, n} THEN a.numFem + 1 ELSE a.numFem
          count == IF a.last # n THEN 1 ELSE a.count + 1
    <3>1. WithFem(a, n) = [a EXCEPT !.first = first, !.numFem = numFem,
                                    !.count = count, !.last = n]
      BY DEF WithFem
    <3>2. numFem \in Nat /\ first \in Nat /\ count \in Int
      BY <1>4, <2>2 DEF Algs
    <3> HIDE DEF first, numFem, count
    <3>3. \A r \in Algs : /\ [r EXCEPT !.first = first] \in Algs
                          /\ [r EXCEPT !.numFem = numFem] \in Algs
                          /\ [r EXCEPT !.count = count] \in Algs
                          /\ [r EXCEPT !.last = n] \in Algs
      BY <1>4, <3>2 DEF Algs
    <3>4. WithFem(a, n) \in Algs
      BY <2>2, <3>1, <3>3
    <3> QED
      BY <1>4, <2>2, <3>1, <3>4 DEF Algs
  <2>4. /\ alg' \in [Streams -> Algs]
        /\ alg'[s].index = a.index /\ alg'[s].current = n /\ alg'[s].eof = a.eof
        /\ s = Trigger \/ alg'[s].last = n
        /\ \A k \in Turns : k # turn => alg'[At(k)] = alg[At(k)]
    BY <1>1, <2>1, <2>3, OnTurn
  <2>5. StreamStep
    BY <1>1, <1>2, <1>4, <1>5, <1>6, <1>8, <1>10, <2>4, OnTurn DEF StreamStep
  <2>6. Gathered(s, n, a.index)'
    <3>1. /\ b \in 1 .. a.index + 1
          /\ \A k \in b .. a.index : input[s][k] = n
      BY <1>4, <1>7
    <3> QED
      BY <1>2, <1>7, <1>10, <2>4, <3>1 DEF Gathered, GatheredFrom
  <2>7. Finding'
    BY <1>2, <1>3, <1>5, <2>4, <2>6 DEF Finding
  <2>8. Building'
    BY <2>1 DEF Building
  <2> QED
    BY <1>2, <1>4, <1>5, <2>1, <2>5, <2>7, <2>8, TurnGoesOn
<1> QED
  BY <1>11, <1>12

\* A product that reaches the last entry of its event is the event.
LEMMA GatheredAll ==
  ASSUME Kinds, NEW s \in Streams, NEW n \in Nat, NEW b \in 1 .. Len(input[s]),
         Gathered(s, n, b), input[s][b] = n,
         \A k \in b + 1 .. Len(input[s]) : input[s][k] > n
  PROVE  Whole(s, out[s], n)
<1>1. Len(input[s]) \in Nat
  BY FileOfStream
<1>2. PICK a \in 1 .. b + 1 : /\ \A k \in 1 .. a - 1 : input[s][k] < n
                              /\ \A k \in a .. b : input[s][k] = n
                              /\ out[s] = Piece(s, a, b)
  BY DEF Gathered, GatheredFrom
<1>3. a # b + 1
  BY <1>1, <1>2
<1>4. a \in 1 .. Len(input[s]) /\ b \in a .. Len(input[s])
  BY <1>1, <1>3
<1> QED
  BY <1>2, <1>4, PieceIsWhole

LEMMA FindStep ==
  ASSUME IInv, FindNext
  PROVE  IInv'
<1> DEFINE s == Current
           a == alg[s]
           f == input[s]
           found == Found(s, a, Wanted)
<1>1. pc = "find" /\ InLoop /\ Kinds
  BY DEF FindNext, InLoop, IInv
<1>2. /\ UNCHANGED <<job, turn, stored>> /\ out' = out /\ id' = id
      /\ setup' = setup /\ input' = input /\ s' = s
      /\ alg' = [alg EXCEPT ![s] = found.alg]
      /\ IF found.ok \/ found.alg.eof THEN ProcessReturns(TRUE)
         ELSE pc' = "build" /\ UNCHANGED <<status, eof>>
  BY DEF FindNext, job, Current, Slaves, master
<1>3. /\ ~ a.eof
      /\ \/ /\ a.current = id /\ Gathered(s, id, a.index)
            /\ s = Trigger \/ a.last = id
         \/ turn # 0 /\ a.current < id /\ out[s] = <<>> /\ Rest(s)
  BY <1>1 DEF IInv, Finding
<1>4. /\ s \in Streams /\ (turn = 0 <=> s = master) /\ a \in Algs
      /\ a.index \in 1 .. Len(f) /\ Len(f) \in Nat /\ a.current = f[a.index]
      /\ a.current \in Nat \ {0} /\ id \in Nat
      /\ \A k \in 1 .. Len(f) : f[k] \in Nat
      /\ \A j, k \in 1 .. Len(f) : j <= k => f[j] <= f[k]
  BY <1>1, OnTurn
<1>5. id # Invalid /\ Wanted = IF turn = 0 THEN Invalid ELSE id
  BY <1>1 DEF IInv, Numbered, Wanted
<1>6. ASSUME found.alg \in Algs, found.alg.index \in 1 .. Len(f),
             found.alg.current = f[found.alg.index]
      PROVE  StreamStep /\ alg'[s] = found.alg
  <2> HIDE DEF found
  <2>1. alg' \in [Streams -> Algs] /\ alg'[s] = found.alg
        /\ \A k \in Turns : k # turn => alg'[At(k)] = alg[At(k)]
    BY <1>1, <1>2, <1>6, OnTurn
  <2> QED
    BY <1>1, <1>2, <1>6, <2>1, OnTurn DEF StreamStep
<1>7. ~ (Wanted # Invalid /\ a.current > Wanted)
  BY <1>3, <1>4, <1>5
<1>8. CASE a.index >= Len(f)
  <2>1. found = [alg |-> [a EXCEPT !.eof = TRUE], ok |-> FALSE]
    BY <1>7, <1>8 DEF Found
  <2>2. /\ found.alg \in Algs /\ found.alg.index = a.index
        /\ found.alg.current = a.current /\ found.alg.eof
    <3>1. found.alg = [a EXCEPT !.eof = TRUE]
      BY <2>1
    <3> HIDE DEF found
    <3> QED
      BY <1>4, <3>1 DEF Algs
  <2>3. StreamStep /\ alg'[s] = found.alg /\ ProcessReturns(TRUE)
    BY <1>2, <1>4, <1>6, <2>2
  <2>4. Rest(s)'
    BY <1>2, <2>2, <2>3 DEF Rest
  <2>5. Good(s)
    <3>1. CASE a.current = id /\ Gathered(s, id, a.index)
      <4>1. \A k \in a.index + 1 .. Len(f) : f[k] > id
        BY <1>4, <1>8
      <4> QED
        BY <1>1, <1>4, <3>1, <4>1, GatheredAll DEF Good
    <3>2. CASE turn # 0 /\ a.current < id /\ out[s] = <<>> /\ Rest(s)
      <4>1. \A k \in 1 .. Len(f) : f[k] # id
        BY <1>4, <1>8, <3>2
      <4>2. Entries(s, id) = {}
        BY <1>1, <1>4, <4>1, FileOfStream DEF Entries
      <4> QED
        BY <1>4, <3>2, <4>2 DEF Good
    <3> QED
      BY <1>3, <3>1, <3>2
  <2>6. Good(s)'
    BY <1>2, <2>2, <2>3, <2>5 DEF Good, Whole, Entries, master
  <2> QED
    BY <1>2, <1>5, <2>3, <2>4, <2>6, TurnEnds
<1>9. CASE a.index < Len(f) /\ Wanted # Invalid /\ a.current < Wanted
  <2>0. turn # 0 /\ Wanted = id
    BY <1>5, <1>9
  <2>k. PICK k : k = StopsAt(s, a.index, Wanted)
    OBVIOUS
  <2>1. /\ k \in a.index + 1 .. Len(f)
        /\ \A j \in a.index + 1 .. k - 1 : f[j] < id
        /\ f[k] < id => k = Len(f)
    BY <1>1, <1>4, <1>9, <2>0, <2>k, SkippingStops
  <2>2. out[s] = <<>> /\ Rest(s)
    BY <1>3, <1>4, <1>9, <2>0
  <2>3. found = [alg |-> [a EXCEPT !.index = k, !.current = f[k], !.eof = k = Len(f)],
                 ok |-> f[k] > id]
    BY <1>4, <1>7, <1>9, <2>0, <2>k DEF Found
  <2>4. k \in 1 .. Len(f) /\ k \in Nat /\ f[k] \in Nat
    BY <1>4, <2>1
  <2>5. /\ found.alg \in Algs /\ found.alg.index = k /\ found.alg.current = f[k]
        /\ found.alg.eof = (k = Len(f)) /\ found.ok = (f[k] > id)
    <3> DEFINE ended == k = Len(f)
    <3>1. ended \in BOOLEAN
      OBVIOUS
    <3>2. found.alg = [a EXCEPT !.index = k, !.current = f[k], !.eof = ended]
      BY <2>3
    <3> HIDE DEF ended, found
    <3>3. found.alg \in Algs
      <4>1. \A r \in Algs : /\ [r EXCEPT !.index = k] \in Algs
                            /\ [r EXCEPT !.current = f[k]] \in Algs
                            /\ [r EXCEPT !.eof = ended] \in Algs
        BY <2>4, <3>1 DEF Algs
      <4> QED
        BY <1>4, <3>2, <4>1
    <3>4. /\ found.alg.index = k /\ found.alg.current = f[k]
          /\ found.alg.eof = ended
      BY <1>4, <3>2 DEF Algs
    <3>5. found.ok = (f[k] > id)
      BY <2>3
    <3> QED
      BY <3>3, <3>4, <3>5 DEF ended
  <2>6. StreamStep /\ alg'[s] = found.alg
    BY <1>6, <2>4, <2>5
  <2>7. \A j \in 1 .. k - 1 : f[j] < id
    <3>1. ASSUME NEW j \in 1 .. k - 1
          PROVE  f[j] < id
      <4>1. CASE j > a.index
        BY <1>4, <2>1, <4>1
      <4>2. CASE j <= a.index
        BY <1>4, <1>9, <2>0, <2>4, <4>2
      <4> QED
        BY <1>4, <4>1, <4>2
    <3> QED
      BY <3>1
  <2>8. CASE k = Len(f) \/ f[k] > id
    <3>1. ProcessReturns(TRUE)
      BY <1>2, <2>5, <2>8
    <3>2. Rest(s)'
      <4>1. k = Len(f) \/ \A j \in 1 .. k - 1 : f[j] < f[k]
        BY <1>4, <2>4, <2>7, <2>8
      <4> QED
        BY <1>2, <2>5, <2>6, <4>1 DEF Rest
    <3>3. CASE f[k] = id
      <4>1. k = Len(f)
        BY <1>4, <2>8, <3>3
      <4>2. Entries(s, id) = {Len(f)}
        BY <1>1, <1>4, <2>7, <3>3, <4>1, FileOfStream DEF Entries
      <4>3. alg'[s].eof /\ s # master /\ out'[s] = <<>>
        BY <1>2, <1>4, <2>0, <2>2, <2>5, <2>6, <4>1
      <4>4. Good(s)'
        BY <1>2, <4>2, <4>3 DEF Good, Entries, master
      <4> QED
        BY <1>2, <1>5, <2>6, <3>1, <3>2, <4>4, TurnEnds
    <3>4. CASE f[k] # id
      <4>1. \A j \in 1 .. Len(f) : f[j] # id
        <5>1. CASE f[k] > id
          BY <1>4, <2>4, <2>7, <5>1
        <5>2. CASE f[k] < id
          BY <1>4, <2>1, <2>4, <2>7, <5>2
        <5> QED
          BY <1>4, <2>4, <3>4, <5>1, <5>2
      <4>2. Entries(s, id) = {}
        BY <1>1, <1>4, <4>1, FileOfStream DEF Entries
      <4>3. Good(s)'
        BY <1>2, <1>4, <2>0, <2>2, <4>2 DEF Good, Entries, master
      <4> QED
        BY <1>2, <1>5, <2>6, <3>1, <3>2, <4>3, TurnEnds
    <3> QED
      BY <3>3, <3>4
  <2>9. CASE k # Len(f) /\ f[k] <= id
    <3>1. f[k] = id
      BY <1>4, <2>1, <2>4, <2>9
    <3>2. pc' = "build" /\ UNCHANGED <<status, eof>>
      <4>1. ~ found.ok /\ ~ found.alg.eof
        <5>1. ~ (f[k] > id)
          BY <1>4, <3>1
        <5> HIDE DEF found
        <5> QED
          BY <2>5, <2>9, <5>1
      <4> QED
        BY <1>2, <4>1
    <3>3. Gathered(s, id, k - 1)'
      <4>1. out'[s] = Piece(s, k, k - 1)
        BY <1>2, <1>4, <2>1, <2>2, <2>4, NothingGathered
      <4>2. k \in 1 .. (k - 1) + 1
        BY <2>1, <1>4
      <4>3. \A j \in k .. k - 1 : f[j] = id
        BY <2>4
      <4>4. \E b \in 1 .. (k - 1) + 1 :
              /\ \A j \in 1 .. b - 1 : f[j] < id
              /\ \A j \in b .. k - 1 : f[j] = id
              /\ out'[s] = Piece(s, b, k - 1)
        BY <2>7, <4>1, <4>2, <4>3
      <4>5. GatheredFrom(s, f, id, k - 1, out'[s])
        BY <4>4 DEF GatheredFrom
      <4> QED
        BY <1>2, <4>5 DEF Gathered
    <3>4. Wanted' = id
      BY <1>2, <2>0 DEF Wanted
    <3>5. Building'
      <4>1. /\ ~ alg'[s].eof /\ alg'[s].current = id /\ alg'[s].index = k
            /\ out'[s] = <<>>
        <5> HIDE DEF found
        <5> QED
          BY <1>2, <2>2, <2>5, <2>6, <2>9, <3>1
      <4> QED
        BY <1>2, <3>3, <3>4, <4>1 DEF Building
    <3>6. Finding'
      BY <3>2 DEF Finding
    <3> QED
      BY <1>2, <1>5, <2>6, <3>2, <3>5, <3>6, TurnGoesOn
  <2> QED
    BY <1>4, <2>4, <2>8, <2>9
<1>10. CASE a.index < Len(f) /\ ~ (Wanted # Invalid /\ a.current < Wanted)
  <2>k. PICK k \in Nat : k = a.index + 1
    BY <1>4
  <2>1. /\ a.current = id /\ Gathered(s, id, a.index)
        /\ s = Trigger \/ a.last = id
    BY <1>3, <1>4, <1>5, <1>10
  <2>2. found = [alg |-> [a EXCEPT !.index = k, !.current = f[k]],
                 ok |-> a.current # f[k]]
    BY <1>4, <1>7, <1>10, <2>k DEF Found
  <2>3. k \in 1 .. Len(f) /\ k \in Nat /\ f[k] \in Nat /\ f[k] >= id
    <3>1. k \in 1 .. Len(f) /\ k \in Nat /\ a.index <= k
      BY <1>4, <1>10, <2>k
    <3> QED
      BY <1>4, <2>1, <3>1
  <2>4. /\ found.alg \in Algs /\ found.alg.index = k /\ found.alg.current = f[k]
        /\ ~ found.alg.eof /\ found.alg.last = a.last
        /\ found.ok <=> f[k] # id
    <3>1. found.alg = [a EXCEPT !.index = k, !.current = f[k]]
      BY <2>2
    <3>2. found.ok <=> f[k] # id
      <4>1. found.ok = (a.current # f[k])
        BY <2>2
      <4> HIDE DEF found
      <4> QED
        BY <2>1, <4>1
    <3> HIDE DEF found
    <3>3. \A r \in Algs : /\ [r EXCEPT !.index = k] \in Algs
                          /\ [r EXCEPT !.current = f[k]] \in Algs
      BY <2>3 DEF Algs
    <3>4. found.alg \in Algs
      BY <1>4, <3>1, <3>3
    <3>5. /\ found.alg.index = k /\ found.alg.current = f[k]
          /\ found.alg.eof = a.eof /\ found.alg.last = a.last
      BY <1>4, <3>1 DEF Algs
    <3> QED
      BY <1>3, <3>2, <3>4, <3>5
  <2>5. StreamStep /\ alg'[s] = found.alg
    BY <1>6, <2>3, <2>4
  <2>6. PICK b \in 1 .. a.index + 1 :
          /\ \A j \in 1 .. b - 1 : f[j] < id
          /\ \A j \in b .. a.index : f[j] = id
          /\ out[s] = Piece(s, b, a.index)
    BY <2>1 DEF Gathered, GatheredFrom
  <2>7. CASE f[k] # id
    <3>1. ProcessReturns(TRUE)
      BY <1>2, <2>4, <2>7
    <3>2. \A j \in 1 .. k - 1 : f[j] < f[k]
      <4>1. f[k] > id
        BY <1>4, <2>3, <2>7
      <4>2. ASSUME NEW j \in 1 .. k - 1
            PROVE  f[j] <= id
        <5>1. j \in 1 .. Len(f) /\ j <= a.index
          BY <1>4, <2>k
        <5> QED
          BY <1>4, <2>1, <5>1
      <4>3. \A j \in 1 .. k - 1 : f[j] \in Nat
        BY <1>4, <2>3
      <4> QED
        BY <1>4, <2>3, <4>1, <4>2, <4>3
    <3>3. Rest(s)'
      BY <1>2, <2>4, <2>5, <3>2 DEF Rest
    <3>4. \A j \in a.index + 1 .. Len(f) : f[j] > id
      <4>1. f[k] > id
        BY <1>4, <2>3, <2>7
      <4>2. ASSUME NEW j \in a.index + 1 .. Len(f)
            PROVE  j \in 1 .. Len(f) /\ k <= j
        BY <1>4, <2>k
      <4>3. SUFFICES ASSUME NEW j \in a.index + 1 .. Len(f)
                     PROVE  f[j] > id
        OBVIOUS
      <4>4. f[k] <= f[j] /\ f[j] \in Nat
        BY <1>4, <2>3, <4>2
      <4>5. f[k] \in Nat /\ id \in Nat
        BY <1>4, <2>3
      <4> HIDE DEF f
      <4> QED
        BY <4>1, <4>4, <4>5
    <3>5. Whole(s, out[s], id)
      BY <1>1, <1>4, <2>1, <3>4, GatheredAll
    <3>6. Good(s)'
      BY <1>2, <3>5 DEF Good, Whole, Entries
    <3> QED
      BY <1>2, <1>5, <2>5, <3>1, <3>3, <3>6, TurnEnds
  <2>8. CASE f[k] = id
    <3>1. pc' = "build" /\ UNCHANGED <<status, eof>>
      BY <1>2, <2>4, <2>8
    <3>2. Gathered(s, id, k - 1)'
      <4>1. k - 1 = a.index
        BY <1>4, <2>k
      <4> QED
        BY <1>2, <2>1, <4>1 DEF Gathered
    <3>3. Wanted' \in {Invalid, id}
      BY <1>2, <1>5 DEF Wanted
    <3>4. Building'
      <4> HIDE DEF found
      <4>1. /\ ~ alg'[s].eof /\ alg'[s].current = id /\ alg'[s].index = k
            /\ s = Trigger \/ alg'[s].last = id
        BY <2>1, <2>4, <2>5, <2>8
      <4> QED
        BY <1>2, <3>2, <3>3, <4>1 DEF Building
    <3>5. Finding'
      BY <3>1 DEF Finding
    <3> QED
      BY <1>2, <1>5, <2>5, <3>1, <3>4, <3>5, TurnGoesOn
  <2> QED
    BY <2>7, <2>8
<1> QED
  BY <1>4, <1>8, <1>9, <1>10

(***************************************************************************)
(* The other steps                                                         *)
(***************************************************************************)

\* Outside of the loop only the stored events count.
LEMMA OutsideLoop ==
  ASSUME IInv, Kinds', UNCHANGED <<input, setup, stored>>, ~ InLoop',
         pc' = "initialize" => setup.given /\ turn' = 0 /\ out' = Cleared /\ stored = <<>>,
         pc' # "run"
  PROVE  IInv'
<1>1. NeverTorn'
  BY DEF IInv, NeverTorn, Used, Slaves, master, Whole, Entries
<1>2. Loaded' /\ Numbered'
  BY DEF Loaded, Numbered, InLoop
<1>3. AheadEmpty' /\ BehindGood' /\ Ends' /\ StoredWhole'
  BY DEF AheadEmpty, BehindGood, Ends, StoredWhole
<1>4. Building' /\ Finding'
  BY DEF Building, Finding, InLoop
<1> QED
  BY <1>1, <1>2, <1>3, <1>4 DEF IInv

LEMMA RunStep ==
  ASSUME IInv, Run
  PROVE  IInv'
<1>1. Kinds /\ turn = 0 /\ out = Cleared /\ stored = <<>>
  BY DEF IInv, Loaded, Run
<1>2. Kinds' /\ ~ InLoop' /\ pc' # "run"
  BY <1>1 DEF Kinds, Run, job, InLoop, Turns, Slaves
<1>3. pc' = "initialize" => setup.given
  <2>1. master \in Used => setup.given
    <3>1. \A k \in DOMAIN Slaves : Slaves[k] # master
      <4>1. \A k \in Turns : At(k) = master <=> k = 0
        BY <1>1, StreamOfTurn
      <4>2. DOMAIN Slaves = 1 .. Len(Slaves) /\ Len(Slaves) \in Nat
        BY <1>1, StreamOfTurn
      <4> QED
        BY <4>1, <4>2 DEF At, Turns
    <3>2. master \notin Range(Slaves)
      BY <3>1 DEF Range
    <3> QED
      BY <3>2 DEF Used
  <2> QED
    BY <2>1 DEF Run
<1> QED
  BY <1>1, <1>2, <1>3, OutsideLoop DEF Run, job

LEMMA InitializeStep ==
  ASSUME IInv, Initialize
  PROVE  IInv'
<1>1. /\ Kinds /\ setup.given /\ turn = 0 /\ out = Cleared /\ stored = <<>>
      /\ pc = "initialize"
  BY DEF IInv, Loaded, Initialize
<1>2. /\ setup' = setup /\ input' = input /\ turn' = turn /\ stored' = stored
      /\ debug' = debug /\ out' = out /\ eof' = eof /\ id' = id
      /\ status' = \A s \in Used : input[s] # <<>>
  BY DEF Initialize, job
<1>3. status' \in BOOLEAN
  BY <1>2
<1>4. CASE ~ status'
  <2>1. alg' = alg /\ pc' \in {"done", "crashed"}
    BY <1>4 DEF Initialize, UseFout
  <2>2. Kinds'
    BY <1>1, <1>2, <1>3, <2>1 DEF Kinds, Turns, Slaves
  <2> QED
    BY <1>2, <2>1, <2>2, OutsideLoop DEF InLoop
<1>5. CASE status'
  <2>1. alg' = Initialized /\ pc' = "process"
    BY <1>5 DEF Initialize
  <2>2. \A s \in Used : input[s] # <<>>
    BY <1>2, <1>5
  <2>3. Used = {At(k) : k \in Turns} /\ \A k \in Turns : At(k) \in Streams
    BY <1>1, StreamOfTurn
  <2>4. ASSUME NEW s \in Streams
        PROVE  /\ Initialized[s] \in Algs
               /\ s \in Used => /\ Initialized[s].index = 1
                                /\ Initialized[s].current = input[s][1]
                                /\ 1 \in 1 .. Len(input[s])
                                /\ ~ Initialized[s].eof
    <3>1. input[s] \in Seq(Nat \ {0}) /\ Len(input[s]) \in Nat
      BY <1>1, FileOfStream
    <3>2. CASE s \in Used /\ input[s] # <<>>
      <4>1. Initialized[s] = [NewAlgo EXCEPT !.index = 1, !.current = input[s][1]]
        BY <3>2 DEF Initialized
      <4>2. 1 \in 1 .. Len(input[s]) /\ input[s][1] \in Nat
        BY <3>1, <3>2
      <4>3. /\ NewAlgo \in Algs /\ ~ NewAlgo.eof
            /\ \A r \in Algs : [r EXCEPT !.index = 1] \in Algs
                              /\ [r EXCEPT !.current = input[s][1]] \in Algs
        BY <4>2 DEF NewAlgo, Algs, Invalid, NoVector
      <4>4. Initialized[s] \in Algs
        BY <4>1, <4>3
      <4>5. /\ Initialized[s].index = 1 /\ Initialized[s].current = input[s][1]
            /\ Initialized[s].eof = NewAlgo.eof
        BY <4>1, <4>3 DEF Algs
      <4> QED
        BY <4>2, <4>3, <4>4, <4>5
    <3>3. CASE ~ (s \in Used /\ input[s] # <<>>)
      <4>1. s \notin Used
        BY <2>2, <3>3
      <4>2. Initialized[s] = [NewAlgo EXCEPT !.eof = s \in Used]
        BY <3>3 DEF Initialized
      <4>3. PICK b \in BOOLEAN : b <=> s \in Used
        <5>1. FALSE \in BOOLEAN /\ (FALSE <=> s \in Used)
          BY <4>1
        <5> QED
          BY <5>1
      <4>4. NewAlgo \in Algs /\ \A r \in Algs : [r EXCEPT !.eof = b] \in Algs
        BY DEF NewAlgo, Algs, Invalid, NoVector
      <4>5. Initialized[s] = [NewAlgo EXCEPT !.eof = b]
        BY <4>2, <4>3
      <4> QED
        BY <4>1, <4>4, <4>5
    <3> QED
      BY <3>2, <3>3
  <2>5. Kinds'
    <3>1. Initialized \in [Streams -> Algs]
      BY <2>4 DEF Initialized
    <3> QED
      BY <1>1, <1>2, <1>3, <2>1, <3>1 DEF Kinds, Turns, Slaves
  <2>6. /\ \A k \in Turns : At(k)' = At(k)
        /\ Turns' = Turns /\ master' = master /\ Turns \subseteq Nat /\ 0 \in Turns
        /\ At(0) = master
    BY <1>1, <1>2, StreamOfTurn DEF At, Turns, Slaves, master
  <2>7. Loaded' /\ Numbered'
    BY <1>1, <1>2, <2>1, <2>3, <2>4, <2>6 DEF Loaded, Numbered, InLoop
  <2>8. AheadEmpty'
    <3>1. ASSUME NEW k \in Turns
          PROVE  out'[At(k)] = <<>> /\ Rest(At(k))'
      <4>1. out'[At(k)] = <<>>
        BY <1>1, <1>2, <2>3 DEF Cleared
      <4>2. alg'[At(k)].index = 1
        BY <2>1, <2>3, <2>4
      <4> QED
        BY <2>6, <4>1, <4>2 DEF Rest
    <3> QED
      BY <2>6, <3>1 DEF AheadEmpty
  <2>9. Building' /\ Finding'
    BY <2>1 DEF Building, Finding
  <2>10. BehindGood' /\ Ends'
    <3>1. ASSUME NEW k \in Turns
          PROVE  ~ Behind(k)' /\ ~ Noticed(k)'
      <4>1. turn' = 0 /\ pc' = "process" /\ ~ (k < 0)
        BY <1>1, <1>2, <2>1, <2>3, StreamOfTurn DEF Turns
      <4> QED
        BY <4>1 DEF Behind, Noticed
    <3>2. ~ alg'[master].eof
      BY <2>1, <2>3, <2>4, <2>6
    <3> QED
      BY <2>6, <3>1, <3>2 DEF BehindGood, Ends
  <2>11. StoredWhole' /\ NeverTorn'
    BY <1>1, <1>2 DEF StoredWhole, NeverTorn
  <2> QED
    BY <2>5, <2>7, <2>8, <2>9, <2>10, <2>11 DEF IInv
<1> QED
  BY <1>3, <1>4, <1>5

LEMMA FinishStep ==
  ASSUME IInv, Finish
  PROVE  IInv'
<1>1. /\ UNCHANGED <<input, setup, debug, turn, status, eof, id, alg, out, stored>>
      /\ pc' \in {"done", "crashed"}
  BY DEF Finish, UseFout, job
<1>2. Kinds'
  BY <1>1 DEF IInv, Kinds, Turns, Slaves
<1> QED
  BY <1>1, <1>2, OutsideLoop DEF InLoop

\* A step between two turns builds nothing.
LEMMA BetweenTurns ==
  ASSUME IInv, NextAlgo \/ Check
  PROVE  /\ UNCHANGED <<input, setup, debug, id, alg, out, stored>>
         /\ Kinds /\ Kinds' /\ InLoop /\ InLoop'
         /\ Turns' = Turns /\ Turns \subseteq Nat /\ turn \in Turns
         /\ Slaves' = Slaves /\ Len(Slaves) \in Nat
         /\ \A k \in Turns : At(k)' = At(k)
         /\ Loaded' /\ Building' /\ Finding' /\ StoredWhole' /\ NeverTorn'
         /\ \A k \in Turns : /\ Rest(At(k)) => Rest(At(k))'
                             /\ Good(At(k)) => Good(At(k))'
<1>1. /\ UNCHANGED <<input, setup, debug, id, alg, out, stored>>
      /\ pc \in {"next", "check"} /\ pc' \in {"next", "check", "process", "store"}
  BY DEF NextAlgo, Check, job
<1>2. Kinds /\ InLoop /\ InLoop'
  BY <1>1 DEF IInv, InLoop
<1>3. /\ Turns' = Turns /\ Slaves' = Slaves /\ master' = master /\ Used' = Used
      /\ \A k \in Turns : At(k)' = At(k)
  BY <1>1 DEF Turns, Slaves, master, Used, At
<1>4. Turns \subseteq Nat /\ turn \in Turns /\ Len(Slaves) \in Nat
  BY <1>2, StreamOfTurn DEF Kinds, Turns
<1>5. Kinds'
  <2>1. CASE NextAlgo
    <3>1. turn' \in Turns /\ status' = status /\ eof' = eof
      BY <1>4, <2>1 DEF NextAlgo, Turns
    <3> QED
      BY <1>1, <1>2, <1>3, <3>1 DEF Kinds
  <2>2. CASE Check
    <3>1. turn' = turn
      BY <2>2 DEF Check
    <3>2. status' \in BOOLEAN /\ eof' \in BOOLEAN
      BY <2>2 DEF Check
    <3> QED
      BY <1>1, <1>2, <1>3, <3>1, <3>2 DEF Kinds
  <2> QED
    BY <2>1, <2>2
<1>6. Loaded'
  BY <1>1, <1>2, <1>3 DEF IInv, Loaded
<1>7. Building' /\ Finding'
  BY <1>1 DEF Building, Finding
<1>8. StoredWhole' /\ NeverTorn'
  <2>1. StoredWhole'
    BY <1>1, <1>2, <1>3 DEF IInv, StoredWhole, Whole, Entries
  <2>2. NeverTorn'
    BY <1>1, <1>3 DEF IInv, NeverTorn, Whole, Entries
  <2> QED
    BY <2>1, <2>2
<1>9. ASSUME NEW k \in Turns
      PROVE  /\ Rest(At(k)) => Rest(At(k))'
             /\ Good(At(k)) => Good(At(k))'
  <2>1. At(k)' = At(k)
    BY <1>3
  <2> QED
    BY <1>1, <1>3, <2>1 DEF Rest, Good, Whole, Entries
<1> QED
  BY <1>1, <1>2, <1>3, <1>4, <1>5, <1>6, <1>7, <1>8, <1>9

LEMMA NextAlgoStep ==
  ASSUME IInv, NextAlgo
  PROVE  IInv'
<1>1. /\ UNCHANGED <<input, setup, debug, id, alg, out, stored, status, eof>>
      /\ pc = "next"
  BY BetweenTurns DEF NextAlgo
<1>2. /\ Kinds' /\ InLoop /\ InLoop' /\ Turns' = Turns /\ Slaves' = Slaves
      /\ turn \in 0 .. Len(Slaves) /\ Len(Slaves) \in Nat /\ status \in BOOLEAN
      /\ \A k \in Turns : k \in Nat /\ At(k)' = At(k)
      /\ \A k \in Turns : /\ Rest(At(k)) => Rest(At(k))'
                          /\ Good(At(k)) => Good(At(k))'
  BY BetweenTurns DEF Turns, Kinds
<1>3. /\ \A k \in Turns : k > turn => out[At(k)] = <<>> /\ Rest(At(k))
      /\ \A k \in Turns : k <= turn => Rest(At(k)) /\ (status => Good(At(k)))
      /\ \A k \in Turns : k <= turn => (alg[At(k)].eof => eof)
  <2>1. ASSUME NEW k \in Turns, k > turn
        PROVE  out[At(k)] = <<>> /\ Rest(At(k))
    BY <1>2, <2>1 DEF IInv, AheadEmpty, Ahead
  <2>2. ASSUME NEW k \in Turns, k <= turn
        PROVE  Rest(At(k)) /\ (status => Good(At(k))) /\ (alg[At(k)].eof => eof)
    <3>1. k < turn \/ (k = turn /\ pc = "next")
      BY <1>1, <1>2, <2>2
    <3> QED
      BY <1>2, <3>1 DEF IInv, BehindGood, Behind, Ends, Noticed
  <2> QED
    BY <2>1, <2>2
<1>4. id # Invalid
  BY <1>1, <1>2 DEF IInv, Numbered
<1>5. CASE turn = Len(Slaves)
  <2>1. pc' = "store" /\ turn' = turn
    BY <1>5 DEF NextAlgo
  <2>2. \A k \in Turns : k <= turn
    BY <1>5 DEF Turns
  <2>3. Numbered'
    BY <1>1, <1>2, <1>4, <1>5, <2>1 DEF Numbered
  <2>4. AheadEmpty'
    BY <1>2, <2>1, <2>2 DEF AheadEmpty, Ahead
  <2>5. BehindGood'
    <3>1. ASSUME NEW k \in Turns
          PROVE  Rest(At(k))' /\ (status' => Good(At(k))')
      <4>1. Rest(At(k)) /\ (status => Good(At(k)))
        BY <1>3, <2>2
      <4>2. status' = status
        BY <1>1
      <4> QED
        BY <1>2, <3>1, <4>1, <4>2
    <3> QED
      BY <1>2, <3>1 DEF BehindGood
  <2>6. Ends'
    BY <1>1, <1>2, <1>3, <2>1, <2>2 DEF Ends
  <2> QED
    BY <1>2, <2>3, <2>4, <2>5, <2>6, BetweenTurns DEF IInv
<1>6. CASE turn # Len(Slaves)
  <2>1. /\ turn' = turn + 1 /\ turn' \in Nat /\ turn' # 0
        /\ pc' = IF Asked THEN "process" ELSE "check"
    BY <1>2, <1>6 DEF NextAlgo
  <2>2. \A k \in Turns : /\ k < turn' <=> k <= turn
                         /\ k >= turn' <=> k > turn
    BY <1>2, <2>1
  <2>3. Numbered'
    BY <1>1, <1>2, <1>4, <2>1 DEF Numbered
  <2>4. AheadEmpty'
    <3>1. ASSUME NEW k \in Turns, Ahead(k)'
          PROVE  out'[At(k)] = <<>> /\ Rest(At(k))'
      <4>1. k > turn
        BY <1>2, <2>1, <2>2, <3>1 DEF Ahead
      <4>2. out[At(k)] = <<>> /\ Rest(At(k))
        BY <1>3, <4>1
      <4>3. out' = out
        BY <1>1
      <4> QED
        BY <1>2, <3>1, <4>2, <4>3
    <3> QED
      BY <1>2, <3>1 DEF AheadEmpty
  <2>5. BehindGood'
    <3>1. ASSUME NEW k \in Turns, Behind(k)'
          PROVE  Rest(At(k))' /\ (status' => Good(At(k))')
      <4>1. CASE k < turn'
        <5>1. k <= turn
          BY <2>2, <3>1, <4>1
        <5>2. Rest(At(k)) /\ (status => Good(At(k)))
          BY <1>3, <5>1
        <5>3. status' = status
          BY <1>1
        <5> QED
          BY <1>2, <3>1, <5>2, <5>3
      <4>2. CASE k = turn'
        <5>1. pc' # "process"
          BY <3>1, <4>2, <2>1 DEF Behind
        <5>2. ~ status
          BY <2>1, <5>1 DEF Asked
        <5>3. k > turn
          BY <1>2, <2>1, <4>2
        <5>4. Rest(At(k)) /\ ~ status'
          BY <1>1, <1>3, <5>2, <5>3
        <5> QED
          BY <1>2, <3>1, <5>4
      <4> QED
        BY <3>1, <4>1, <4>2 DEF Behind
    <3> QED
      BY <1>2, <3>1 DEF BehindGood
  <2>6. Ends'
    <3>1. ASSUME NEW k \in Turns, Noticed(k)'
          PROVE  alg'[At(k)].eof => eof'
      <4>1. k < turn'
        BY <2>1, <3>1 DEF Noticed
      <4> QED
        BY <1>1, <1>2, <1>3, <2>2, <4>1
    <3> QED
      BY <1>2, <2>1, <3>1 DEF Ends
  <2> QED
    BY <1>2, <2>3, <2>4, <2>5, <2>6, BetweenTurns DEF IInv
<1> QED
  BY <1>5, <1>6

LEMMA CheckStep ==
  ASSUME IInv, Check
  PROVE  IInv'
<1>1. /\ UNCHANGED <<input, setup, debug, id, alg, out, stored, turn>>
      /\ pc = "check" /\ pc' = "next"
      /\ eof' = (eof \/ alg[Current].eof)
  BY BetweenTurns DEF Check
<1>2. status' => status
  BY DEF Check
<1>3. /\ Kinds' /\ InLoop /\ InLoop' /\ Turns' = Turns /\ Slaves' = Slaves
      /\ turn \in Turns /\ Current = At(turn)
      /\ \A k \in Turns : k \in Nat /\ At(k)' = At(k)
      /\ \A k \in Turns : /\ Rest(At(k)) => Rest(At(k))'
                          /\ Good(At(k)) => Good(At(k))'
  BY BetweenTurns, StreamOfTurn
<1>4. /\ id # Invalid /\ turn # 0
  BY <1>1, <1>3 DEF IInv, Numbered
<1>5. Numbered'
  BY <1>1, <1>4 DEF Numbered
<1>6. AheadEmpty'
  <2>1. ASSUME NEW k \in Turns, Ahead(k)'
        PROVE  out'[At(k)] = <<>> /\ Rest(At(k))'
    <3>1. k > turn
      BY <1>1, <2>1 DEF Ahead
    <3>2. out[At(k)] = <<>> /\ Rest(At(k))
      BY <1>3, <3>1 DEF IInv, AheadEmpty, Ahead
    <3>3. out' = out
      BY <1>1
    <3>4. Rest(At(k))'
      BY <2>1, <3>2, BetweenTurns
    <3>5. out'[At(k)] = <<>>
      BY <3>2, <3>3
    <3> QED
      BY <3>4, <3>5
  <2> QED
    BY <1>3, <2>1 DEF AheadEmpty
<1>7. BehindGood'
  <2>1. ASSUME NEW k \in Turns, Behind(k)'
        PROVE  Rest(At(k))' /\ (status' => Good(At(k))')
    <3>1. k < turn \/ (k = turn /\ pc = "check")
      BY <1>1, <2>1 DEF Behind
    <3>2. Rest(At(k)) /\ (status => Good(At(k)))
      BY <1>3, <3>1 DEF IInv, BehindGood, Behind
    <3> QED
      BY <1>2, <2>1, <1>3, <3>2
  <2> QED
    BY <1>3, <2>1 DEF BehindGood
<1>8. Ends'
  <2>1. ASSUME NEW k \in Turns, Noticed(k)', alg'[At(k)].eof
        PROVE  eof'
    <3>1. CASE k = turn
      BY <1>1, <1>3, <2>1, <3>1
    <3>2. CASE k # turn
      <4>1. Noticed(k)
        BY <1>1, <2>1, <3>2 DEF Noticed
      <4> QED
        BY <1>1, <1>3, <2>1, <4>1 DEF IInv, Ends
    <3> QED
      BY <3>1, <3>2
  <2> QED
    BY <1>1, <1>3, <2>1 DEF Ends
<1> QED
  BY <1>3, <1>5, <1>6, <1>7, <1>8, BetweenTurns DEF IInv

\* An event that nothing is left to stop is stored whole; at the end of the loop
\* the last one may lack the last entry of a stream.
LEMMA StoreStep ==
  ASSUME IInv, Store
  PROVE  IInv'
<1>1. /\ UNCHANGED <<input, setup, debug, id, alg, status, eof>>
      /\ pc = "store" /\ turn' = 0 /\ out' = Cleared
      /\ pc' = IF GoesOn THEN "process" ELSE "finish"
      /\ stored' = IF status THEN Append(stored, [id |-> id, data |-> out]) ELSE stored
  BY DEF Store, job
<1>2. Kinds /\ InLoop /\ setup.given
  BY <1>1 DEF IInv, InLoop, Loaded
<1>3. /\ Turns' = Turns /\ Slaves' = Slaves /\ master' = master /\ Used' = Used
      /\ \A k \in Turns : At(k)' = At(k)
  BY <1>1 DEF Turns, Slaves, master, Used, At
<1>4. /\ Used = {At(k) : k \in Turns} /\ master \in Streams
      /\ \A k \in Turns : k \in Nat /\ At(k) \in Streams
      /\ turn = Len(Slaves) /\ Len(Slaves) \in Nat /\ 0 \in Turns /\ At(0) = master
  BY <1>1, <1>2, StreamOfTurn DEF Turns, IInv, Numbered, At
<1>5. ASSUME NEW k \in Turns
      PROVE  /\ Rest(At(k)) /\ (status => Good(At(k)))
             /\ alg[At(k)].eof => eof
  <2>1. k < turn \/ (k = turn /\ pc = "store")
    BY <1>1, <1>4 DEF Turns
  <2> QED
    BY <1>2, <2>1 DEF IInv, BehindGood, Behind, Ends, Noticed
<1>6. /\ Cleared \in [Streams -> Seq(Nat)] /\ \A s \in Streams : Cleared[s] = <<>>
  BY DEF Cleared
<1>7. stored \in Seq(Events) /\ [id |-> id, data |-> out] \in Events
  BY <1>2 DEF Kinds, Events
<1> DEFINE event == [id |-> id, data |-> out]
<1>8. /\ Len(stored) \in Nat /\ DOMAIN stored = 1 .. Len(stored)
      /\ status => /\ Len(stored') = Len(stored) + 1
                   /\ DOMAIN stored' = 1 .. Len(stored) + 1
                   /\ \A j \in 1 .. Len(stored) : stored'[j] = stored[j]
                   /\ stored'[Len(stored) + 1] = event
      /\ stored' \in Seq(Events)
  BY <1>1, <1>7, LenProperties, AppendProperties
<1>9. Kinds'
  <2>1. turn' \in Turns'
    BY <1>1, <1>3, <1>4
  <2> QED
    BY <1>1, <1>2, <1>6, <1>8, <2>1 DEF Kinds
<1>10. Loaded'
  BY <1>1, <1>2, <1>3 DEF IInv, Loaded, InLoop
<1>11. Numbered' /\ Building' /\ Finding'
  BY <1>1 DEF Numbered, Building, Finding, InLoop
<1>12. AheadEmpty'
  <2>1. ASSUME NEW k \in Turns
        PROVE  out'[At(k)] = <<>> /\ Rest(At(k))'
    <3>1. Rest(At(k)) /\ At(k)' = At(k) /\ out'[At(k)] = <<>>
      BY <1>1, <1>3, <1>4, <1>5, <1>6
    <3> QED
      BY <1>1, <3>1 DEF Rest
  <2> QED
    BY <1>3, <2>1 DEF AheadEmpty
<1>13. BehindGood' /\ Ends'
  <2>1. ASSUME NEW k \in Turns, InLoop'
        PROVE  ~ Behind(k)' /\ ~ Noticed(k)'
    <3>1. turn' = 0 /\ pc' = "process" /\ ~ (k < 0)
      BY <1>1, <1>4, <2>1 DEF InLoop
    <3> QED
      BY <3>1 DEF Behind, Noticed
  <2>2. ASSUME InLoop'
        PROVE  ~ alg'[master].eof
    <3>1. ~ eof
      BY <1>1, <2>2 DEF InLoop, GoesOn
    <3> QED
      BY <1>1, <1>4, <1>5, <3>1
  <2> QED
    BY <1>3, <2>1, <2>2 DEF BehindGood, Ends
<1>14. ASSUME status, NEW s \in Used
       PROVE  \/ Whole(s, event.data[s], event.id)
              \/ /\ s # master /\ event.data[s] = <<>>
                 /\ \/ Entries(s, event.id) = {}
                    \/ Entries(s, event.id) = {Len(input[s])} /\ eof
  <2>1. PICK k \in Turns : s = At(k)
    BY <1>4
  <2>2. Good(s) /\ (alg[s].eof => eof)
    BY <1>5, <1>14, <2>1
  <2>3. event.id = id /\ event.data = out
    OBVIOUS
  <2> HIDE DEF event
  <2> QED
    BY <2>2, <2>3 DEF Good
<1>15. \A x : Entries(x, x)' = Entries(x, x)
  BY <1>1 DEF Entries
<1>16. StoredWhole'
  <2>1. SUFFICES ASSUME InLoop', NEW j \in DOMAIN stored', NEW s \in Used
                 PROVE  \/ Whole(s, stored'[j].data[s], stored'[j].id)
                        \/ /\ s # master /\ stored'[j].data[s] = <<>>
                           /\ Entries(s, stored'[j].id) = {}
    BY <1>1, <1>3 DEF StoredWhole, Whole, Entries
  <2>2. CASE j \in DOMAIN stored
    <3>1. stored'[j] = stored[j]
      BY <1>1, <1>8, <2>2
    <3> QED
      BY <1>2, <2>2, <3>1 DEF IInv, StoredWhole
  <2>3. CASE j \notin DOMAIN stored
    <3>1. status /\ stored'[j] = event
      BY <1>1, <1>8, <2>1, <2>3
    <3>2. ~ eof
      BY <1>1, <2>1 DEF InLoop, GoesOn
    <3> HIDE DEF event
    <3> QED
      BY <1>14, <3>1, <3>2
  <2> QED
    BY <2>2, <2>3
<1>17. NeverTorn'
  <2>1. SUFFICES ASSUME NEW j \in DOMAIN stored', NEW s \in Used
                 PROVE  \/ Whole(s, stored'[j].data[s], stored'[j].id)
                        \/ /\ s # master /\ stored'[j].data[s] = <<>>
                           /\ \/ Entries(s, stored'[j].id) = {}
                              \/ /\ j = Len(stored')
                                 /\ Entries(s, stored'[j].id) = {Len(input[s])}
    BY <1>1, <1>3 DEF NeverTorn, Whole, Entries
  <2>2. CASE j \in DOMAIN stored
    <3>1. stored'[j] = stored[j]
      BY <1>1, <1>8, <2>2
    <3> QED
      BY <1>2, <2>2, <3>1 DEF IInv, StoredWhole
  <2>3. CASE j \notin DOMAIN stored
    <3>1. status /\ stored'[j] = event /\ j = Len(stored')
      BY <1>1, <1>8, <2>1, <2>3
    <3> HIDE DEF event
    <3> QED
      BY <1>14, <3>1
  <2> QED
    BY <2>2, <2>3
<1> QED
  BY <1>9, <1>10, <1>11, <1>12, <1>13, <1>16, <1>17 DEF IInv

(***************************************************************************)
(* The theorems                                                            *)
(***************************************************************************)
LEMMA InitIInv ==
  ASSUME Init
  PROVE  IInv
<1>1. /\ pc = "run" /\ turn = 0 /\ out = Cleared /\ stored = <<>>
      /\ input \in Inputs /\ setup \in Setups /\ status = TRUE /\ eof = FALSE
      /\ id = 0 /\ alg = [s \in Streams |-> NewAlgo]
      /\ debug \in BOOLEAN
  BY DEF Init
<1>2. Slaves \in Seq(Streams \ {master})
  BY <1>1, SetupsAssumption DEF Slaves, master
<1>3. 0 \in Turns
  BY <1>2 DEF Turns
<1>4. NewAlgo \in Algs
  BY DEF NewAlgo, Algs, Invalid, NoVector
<1>5. Cleared \in [Streams -> Seq(Nat)] /\ stored \in Seq(Events)
  BY <1>1 DEF Cleared
<1>6. Kinds
  BY <1>1, <1>3, <1>4, <1>5 DEF Kinds
<1>7. ~ InLoop /\ Loaded /\ Numbered /\ Building /\ Finding
  BY <1>1 DEF InLoop, Loaded, Numbered, Building, Finding
<1>8. AheadEmpty /\ BehindGood /\ Ends /\ StoredWhole
  BY <1>7 DEF AheadEmpty, BehindGood, Ends, StoredWhole
<1>9. NeverTorn
  BY <1>1 DEF NeverTorn
<1> QED
  BY <1>6, <1>7, <1>8, <1>9 DEF IInv

LEMMA NextIInv ==
  ASSUME IInv, [Next]_vars
  PROVE  IInv'
<1>1. CASE Run
  BY <1>1, RunStep
<1>2. CASE Initialize
  BY <1>2, InitializeStep
<1>3. CASE Process
  BY <1>3, ProcessStep
<1>4. CASE FindNext
  BY <1>4, FindStep
<1>5. CASE Build
  BY <1>5, BuildStep
<1>6. CASE NextAlgo
  BY <1>6, NextAlgoStep
<1>7. CASE Check
  BY <1>7, CheckStep
<1>8. CASE Store
  BY <1>8, StoreStep
<1>9. CASE Finish
  BY <1>9, FinishStep
<1>10. CASE UNCHANGED vars
  <2>1. UNCHANGED <<input, setup, debug, pc, turn, status, eof, id, alg, out, stored>>
    BY <1>10 DEF vars, job
  <2>2. /\ Turns' = Turns /\ Slaves' = Slaves /\ master' = master /\ Used' = Used
        /\ Current' = Current /\ Wanted' = Wanted /\ InLoop' = InLoop
    BY <2>1 DEF Turns, Slaves, master, Used, Current, Wanted, InLoop
  <2>3. Kinds' /\ Loaded' /\ Numbered'
    BY <2>1, <2>2 DEF IInv, Kinds, Loaded, Numbered, At
  <2>4. AheadEmpty' /\ BehindGood' /\ Ends'
    <3>1. IInv
      OBVIOUS
    <3> QED
      BY <2>1, <2>2, <3>1 DEF IInv, AheadEmpty, BehindGood, Ends, At, Rest, Ahead,
         Behind, Noticed, Good, Whole, Entries
  <2>5. Building' /\ Finding'
    BY <2>1, <2>2 DEF IInv, Building, Finding, Gathered, Rest
  <2>6. StoredWhole' /\ NeverTorn'
    BY <2>1, <2>2 DEF IInv, StoredWhole, NeverTorn, Whole, Entries
  <2> QED
    BY <2>3, <2>4, <2>5, <2>6 DEF IInv
<1> QED
  BY <1>1, <1>2, <1>3, <1>4, <1>5, <1>6, <1>7, <1>8, <1>9, <1>10 DEF Next

\* Whatever the files and the streams that are merged, with failures in debug mode
\* or without: run() never stores a torn event.
THEOREM StoredNeverTorn == Spec => []NeverTorn
<1>1. Init => IInv
  BY InitIInv
<1>2. IInv /\ [Next]_vars => IInv'
  BY NextIInv
<1>3. IInv => NeverTorn
  BY DEF IInv
<1> QED
  BY <1>1, <1>2, <1>3, PTL DEF Spec

-------------------------------------------------------------------------------
(***************************************************************************)
(* The order in which the event builder stores events, from the invariant  *)
(* above and what it says of the master stream alone.                      *)
(***************************************************************************)


(***************************************************************************)
(* The inductive invariant                                                 *)
(***************************************************************************)

\* All that is stored is before event n and, unless in debug mode, all of the
\* master's events before n are stored.
StoredUpTo(n) ==
  /\ \A j \in DOMAIN stored : stored[j].id < n
  /\ debug \/ \A m \in Numbers(master) : m < n =>
                \E j \in DOMAIN stored : stored[j].id = m

\* The master gives the next event its number.
Leading == turn = 0 /\ pc \in {"process", "build"}
\* It has left the event, unless something failed in it.
Passed == InLoop /\ ~ Leading /\ ~ (turn = 0 /\ pc = "find")

UpToHere ==
  /\ InLoop /\ Leading => StoredUpTo(alg[master].current)
  /\ InLoop /\ ~ Leading => StoredUpTo(id)

MasterMoved ==
  Passed /\ ~ alg[master].eof =>
    /\ id <= alg[master].current
    /\ status => /\ id < alg[master].current
                 /\ \A m \in Numbers(master) : m < alg[master].current => m <= id

OInv == IInv /\ UpToHere /\ MasterMoved /\ StoredInOrder

(***************************************************************************)
(* The steps                                                               *)
(***************************************************************************)

\* The master's entries.
LEMMA MasterFile ==
  ASSUME IInv, InLoop
  PROVE  /\ master \in Streams /\ alg[master].index \in 1 .. Len(input[master])
         /\ alg[master].current = input[master][alg[master].index]
         /\ alg[master].current \in Nat /\ id \in Nat /\ Len(input[master]) \in Nat
         /\ Numbers(master) = {input[master][k] : k \in 1 .. Len(input[master])}
         /\ \A k \in 1 .. Len(input[master]) : input[master][k] \in Nat
         /\ \A j, k \in 1 .. Len(input[master]) :
              j <= k => input[master][j] <= input[master][k]
<1>1. Kinds /\ 0 \in Turns /\ At(0) = master /\ master \in Streams
  BY StreamOfTurn DEF IInv, Turns, At
<1>2. /\ alg[master].index \in 1 .. Len(input[master])
      /\ alg[master].current = input[master][alg[master].index]
  BY <1>1 DEF IInv, Loaded
<1>3. Numbers(master) = {input[master][k] : k \in 1 .. Len(input[master])}
  BY <1>1, FileOfStream DEF Numbers, Range
<1> QED
  BY <1>1, <1>2, <1>3, FileOfStream DEF Kinds

\* Stored events are numbered.
LEMMA StoredNumbers ==
  ASSUME IInv
  PROVE  /\ DOMAIN stored = 1 .. Len(stored) /\ Len(stored) \in Nat
         /\ \A j \in 1 .. Len(stored) : stored[j].id \in Nat
<1>1. stored \in Seq(Events)
  BY DEF IInv, Kinds
<1>2. /\ DOMAIN stored = 1 .. Len(stored) /\ Len(stored) \in Nat
      /\ \A j \in 1 .. Len(stored) : stored[j] \in Events
  BY <1>1
<1> QED
  BY <1>2 DEF Events

\* A step that stores nothing and leaves the input alone.
StoresNothing == UNCHANGED <<input, setup, debug, stored>>

LEMMA OrderKept ==
  ASSUME StoresNothing, StoredInOrder
  PROVE  /\ StoredInOrder' /\ master' = master
         /\ Numbers(master)' = Numbers(master)
         /\ \A n : StoredUpTo(n) => StoredUpTo(n)'
<1>1. /\ input' = input /\ setup' = setup /\ debug' = debug /\ stored' = stored
      /\ master' = master /\ Numbers(master)' = Numbers(master)
  BY DEF StoresNothing, master, Numbers
<1> QED
  BY <1>1 DEF StoredInOrder, StoredUpTo

\* Once the master has passed nothing of it changes until the event is stored.
LEMMA MasterResting ==
  ASSUME OInv, StoresNothing, Passed, Passed', id' = id, alg'[master] = alg[master],
         status' => status
  PROVE  (UpToHere /\ MasterMoved /\ StoredInOrder)'
<1>1. InLoop /\ ~ Leading /\ InLoop' /\ ~ Leading'
  BY DEF Passed
<1>2. StoredUpTo(id)'
  BY <1>1, OrderKept DEF OInv, UpToHere
<1>3. UpToHere'
  BY <1>1, <1>2 DEF UpToHere
<1>4. MasterMoved'
  BY OrderKept DEF OInv, MasterMoved
<1> QED
  BY <1>3, <1>4, OrderKept DEF OInv

\* Outside of the loop there is nothing to keep but the order.
LEMMA OrderOutside ==
  ASSUME OInv, StoresNothing, ~ InLoop'
  PROVE  (UpToHere /\ MasterMoved /\ StoredInOrder)'
BY OrderKept DEF OInv, UpToHere, MasterMoved, Passed

\* A step of another stream's turn.
LEMMA SlaveStep ==
  ASSUME OInv, Process \/ FindNext \/ Build, turn # 0
  PROVE  (UpToHere /\ MasterMoved /\ StoredInOrder)'
<1>1. /\ StoresNothing /\ turn' = turn
      /\ pc \in {"process", "find", "build"}
      /\ pc' \in {"find", "build", "check"}
      /\ status' => status
  BY DEF Process, FindNext, Build, ProcessReturns, job, StoresNothing
<1>2. id' = id
  BY DEF Process, FindNext, Build
<1>3. alg'[master] = alg[master]
  <2>1. Current # master /\ master \in Streams /\ alg \in [Streams -> Algs]
    BY <1>1, OnTurn, StreamOfTurn DEF OInv, IInv
  <2>2. CASE Process
    BY <2>2 DEF Process
  <2>3. CASE FindNext
    <3>1. alg' = [alg EXCEPT ![Current] = Found(Current, alg[Current], Wanted).alg]
      BY <2>3 DEF FindNext
    <3> QED
      BY <2>1, <3>1
  <2>4. CASE Build
    <3>1. \E a : alg' \in {alg, [alg EXCEPT ![Current] = a]}
      <4>1. \/ alg' = alg
            \/ alg' = [alg EXCEPT ![Current].count = 0]
            \/ alg' = [alg EXCEPT ![Current] =
                         WithFem(alg[Current], input[Current][alg[Current].index])]
        BY <2>4 DEF Build
      <4> QED
        BY <4>1
    <3> QED
      BY <2>1, <3>1
  <2> QED
    BY <2>2, <2>3, <2>4
<1>4. Passed /\ Passed'
  BY <1>1 DEF Passed, InLoop, Leading
<1> QED
  BY <1>1, <1>2, <1>3, <1>4, MasterResting

LEMMA MasterProcess ==
  ASSUME OInv, Process, turn = 0
  PROVE  (UpToHere /\ MasterMoved /\ StoredInOrder)'
<1>1. /\ StoresNothing /\ alg' = alg /\ turn' = 0 /\ InLoop /\ Leading
  BY DEF Process, job, StoresNothing, InLoop, Leading
<1>2. ~ alg[master].eof
  BY <1>1 DEF OInv, IInv, Ends, Process
<1>3. pc' = "build"
  BY <1>2 DEF Process, Wanted, Current, Invalid
<1>4. InLoop' /\ Leading'
  BY <1>1, <1>3 DEF InLoop, Leading
<1>5. master' = master
  BY <1>1, OrderKept DEF OInv
<1>6. StoredUpTo(alg[master].current)'
  BY <1>1, <1>5, OrderKept DEF OInv, UpToHere
<1>7. UpToHere' /\ MasterMoved'
  BY <1>4, <1>6 DEF UpToHere, MasterMoved, Passed
<1> QED
  BY <1>1, <1>7, OrderKept DEF OInv

LEMMA MasterBuild ==
  ASSUME OInv, Build, turn = 0
  PROVE  (UpToHere /\ MasterMoved /\ StoredInOrder)'
<1> DEFINE a == alg[master]
<1>1. /\ StoresNothing /\ turn' = 0 /\ InLoop /\ Leading /\ Current = master
      /\ id' = a.current /\ Wanted = Invalid
  BY DEF Build, job, StoresNothing, InLoop, Leading, Current, Wanted
<1>2. master' = master
  BY <1>1, OrderKept DEF OInv
<1>3. StoredUpTo(a.current)
  BY <1>1 DEF OInv, UpToHere
<1>4. StoredUpTo(id)'
  BY <1>1, <1>3, OrderKept DEF OInv, StoredUpTo
<1>5. CASE pc' = "find"
  <2>1. ~ Leading' /\ ~ Passed'
    BY <1>1, <1>5 DEF Leading, Passed
  <2> QED
    BY <1>1, <1>4, <2>1, OrderKept DEF OInv, UpToHere, MasterMoved
<1>6. CASE pc' # "find"
  <2>1. alg' = [alg EXCEPT ![master].count = 0] /\ pc' = "next" /\ ~ status'
    BY <1>1, <1>6 DEF Build, ProcessReturns
  <2>2. alg'[master].current = a.current /\ a.current \in Nat
    <3>1. alg \in [Streams -> Algs] /\ master \in Streams /\ a.current \in Nat
      BY <1>1, MasterFile DEF OInv, IInv, Kinds
    <3> QED
      BY <2>1, <3>1 DEF Algs
  <2>3. ~ Leading'
    BY <2>1 DEF Leading
  <2>4. MasterMoved'
    BY <1>1, <1>2, <2>1, <2>2 DEF MasterMoved
  <2> QED
    BY <1>1, <1>4, <2>3, <2>4, OrderKept DEF OInv, UpToHere
<1> QED
  BY <1>5, <1>6

LEMMA MasterFind ==
  ASSUME OInv, FindNext, turn = 0
  PROVE  (UpToHere /\ MasterMoved /\ StoredInOrder)'
<1> DEFINE a == alg[master]
           f == input[master]
           found == Found(master, a, Invalid)
<1>1. /\ StoresNothing /\ turn' = 0 /\ InLoop /\ ~ Leading /\ Current = master
      /\ id' = id /\ Wanted = Invalid /\ pc = "find"
  BY DEF FindNext, job, StoresNothing, InLoop, Leading, Current, Wanted
<1>2. master' = master
  BY <1>1, OrderKept DEF OInv
<1>3. StoredUpTo(id) /\ StoredUpTo(id)'
  BY <1>1, OrderKept DEF OInv, UpToHere, StoredUpTo
<1>4. a.current = id
  BY <1>1 DEF OInv, IInv, Finding
<1>5. /\ master \in Streams /\ alg \in [Streams -> Algs]
      /\ a.index \in 1 .. Len(f) /\ f[a.index] = id /\ id \in Nat /\ Len(f) \in Nat
      /\ Numbers(master) = {f[k] : k \in 1 .. Len(f)}
      /\ \A k \in 1 .. Len(f) : f[k] \in Nat
      /\ \A j, k \in 1 .. Len(f) : j <= k => f[j] <= f[k]
  BY <1>1, <1>4, MasterFile DEF OInv, IInv, Kinds
<1>6. alg' = [alg EXCEPT ![master] = found.alg] /\ alg'[master] = found.alg
  BY <1>1, <1>5 DEF FindNext
<1>7. CASE a.index >= Len(f)
  <2>1. found = [alg |-> [a EXCEPT !.eof = TRUE], ok |-> FALSE]
    BY <1>7 DEF Found
  <2>2. alg'[master].eof
    <3>1. a \in Algs
      BY <1>5
    <3> QED
      BY <1>6, <2>1, <3>1 DEF Algs
  <2>3. found.alg.eof
    BY <1>6, <2>2
  <2>4. pc' = "next"
    <3> HIDE DEF found
    <3> QED
      BY <1>1, <2>3 DEF FindNext, ProcessReturns, found
  <2>5. ~ Leading' /\ MasterMoved'
    BY <1>2, <2>2, <2>4 DEF Leading, MasterMoved
  <2> QED
    BY <1>1, <1>3, <2>5, OrderKept DEF OInv, UpToHere
<1>8. CASE a.index < Len(f)
  <2>k. PICK k \in Nat : k = a.index + 1
    BY <1>5
  <2>1. found = [alg |-> [a EXCEPT !.index = k, !.current = f[k]],
                 ok |-> a.current # f[k]]
    BY <1>5, <1>8, <2>k DEF Found, Invalid
  <2>2. k \in 1 .. Len(f) /\ f[k] \in Nat /\ f[k] >= id
    <3>1. k \in 1 .. Len(f) /\ a.index <= k
      BY <1>5, <1>8, <2>k
    <3> QED
      BY <1>5, <3>1
  <2>3. found.ok <=> f[k] # id
    <3>1. found.ok = (a.current # f[k])
      BY <2>1
    <3> HIDE DEF found
    <3> QED
      BY <1>4, <3>1
  <2>4. alg'[master].current = f[k] /\ alg'[master].eof = a.eof
    <3>1. a \in Algs
      BY <1>5
    <3>2. found.alg = [a EXCEPT !.index = k, !.current = f[k]]
      BY <2>1
    <3> HIDE DEF found
    <3> QED
      BY <1>6, <3>1, <3>2 DEF Algs
  <2>5. pc' = IF f[k] # id THEN "next" ELSE "build"
    <3>1. ~ a.eof
      BY <1>1 DEF OInv, IInv, Finding
    <3>2. ~ found.alg.eof
      BY <1>6, <2>4, <3>1
    <3>3. pc' = IF found.ok \/ found.alg.eof THEN "next" ELSE "build"
      <4> HIDE DEF found
      <4> QED
        BY <1>1 DEF FindNext, ProcessReturns, found
    <3> HIDE DEF found
    <3> QED
      BY <2>3, <3>2, <3>3
  <2>6. CASE f[k] # id
    <3>1. pc' = "next" /\ ~ Leading'
      BY <2>5, <2>6 DEF Leading
    <3>2. id < f[k]
      BY <1>5, <2>2, <2>6
    <3>3. ASSUME NEW m \in Numbers(master), m < f[k]
          PROVE  m <= id
      <4>1. PICK i \in 1 .. Len(f) : m = f[i]
        BY <1>5, <3>3
      <4>2. ~ (k <= i)
        BY <1>5, <2>2, <3>3, <4>1
      <4>3. i <= a.index
        BY <1>5, <2>k, <4>1, <4>2
      <4> QED
        BY <1>5, <4>1, <4>3
    <3>4. MasterMoved'
      <4>1. Numbers(master)' = Numbers(master)
        BY <1>1, OrderKept DEF OInv
      <4> QED
        BY <1>1, <1>2, <1>5, <2>2, <2>4, <3>2, <3>3, <4>1 DEF MasterMoved
    <3> QED
      BY <1>1, <1>3, <3>1, <3>4, OrderKept DEF OInv, UpToHere
  <2>7. CASE f[k] = id
    <3>1. Leading'
      BY <1>1, <2>5, <2>7 DEF Leading
    <3>2. StoredUpTo(alg[master].current)'
      BY <1>1, <1>2, <1>3, <2>4, <2>7 DEF StoredUpTo
    <3> QED
      BY <1>1, <3>1, <3>2, OrderKept DEF OInv, UpToHere, MasterMoved, Passed
  <2> QED
    BY <2>6, <2>7
<1> QED
  BY <1>5, <1>7, <1>8

LEMMA BetweenTurnsOrder ==
  ASSUME OInv, NextAlgo \/ Check
  PROVE  (UpToHere /\ MasterMoved /\ StoredInOrder)'
<1>1. /\ StoresNothing /\ id' = id /\ alg' = alg /\ InLoop /\ InLoop'
      /\ turn \in Turns /\ Turns \subseteq Nat
  BY BetweenTurns DEF OInv, StoresNothing
<1>2. status' => status
  BY DEF NextAlgo, Check
<1>3. Passed
  BY <1>1 DEF NextAlgo, Check, Passed, Leading
<1>4. Passed'
  <2>1. pc' \in {"store", "check", "next"} \/ (pc' = "process" /\ turn' # 0)
    <3>1. CASE NextAlgo
      <4>1. turn + 1 # 0
        BY <1>1
      <4> QED
        BY <3>1, <4>1 DEF NextAlgo
    <3>2. CASE Check
      BY <3>2 DEF Check
    <3> QED
      BY <3>1, <3>2
  <2> QED
    BY <1>1, <2>1 DEF Passed, Leading
<1> QED
  BY <1>1, <1>2, <1>3, <1>4, MasterResting

LEMMA InitializeOrder ==
  ASSUME OInv, Initialize
  PROVE  (UpToHere /\ MasterMoved /\ StoredInOrder)'
<1>1. StoresNothing
  BY DEF Initialize, job, StoresNothing
<1>2. CASE ~ InLoop'
  BY <1>1, <1>2, OrderOutside
<1>3. CASE InLoop'
  <2>1. pc' = "process" /\ turn' = 0 /\ stored' = <<>> /\ alg' = Initialized
    BY <1>3 DEF Initialize, UseFout, InLoop, OInv, IInv, Loaded
  <2>2. IInv'
    BY InitializeStep DEF OInv
  <2>3. Leading' /\ ~ Passed'
    BY <2>1 DEF Leading, Passed
  <2>4. /\ master' = master /\ input' = input /\ InLoop' /\ DOMAIN stored' = {}
        /\ master \in Streams
    BY <1>1, <1>3, <2>1, OrderKept, StreamOfTurn DEF OInv, IInv, StoresNothing
  <2>5. /\ alg'[master].index \in 1 .. Len(input[master])
        /\ alg'[master].current = input[master][alg'[master].index]
        /\ alg'[master].current \in Nat
        /\ Numbers(master)' = {input[master][k] : k \in 1 .. Len(input[master])}
        /\ \A k \in 1 .. Len(input[master]) : input[master][k] \in Nat
        /\ \A j, k \in 1 .. Len(input[master]) :
             j <= k => input[master][j] <= input[master][k]
    <3>1. (/\ master \in Streams /\ alg[master].index \in 1 .. Len(input[master])
           /\ alg[master].current = input[master][alg[master].index]
           /\ alg[master].current \in Nat /\ id \in Nat /\ Len(input[master]) \in Nat
           /\ Numbers(master) = {input[master][k] : k \in 1 .. Len(input[master])}
           /\ \A k \in 1 .. Len(input[master]) : input[master][k] \in Nat
           /\ \A j, k \in 1 .. Len(input[master]) :
                j <= k => input[master][j] <= input[master][k])'
      BY <2>2, <2>4, MasterFile, PTL
    <3> QED
      BY <2>4, <3>1
  <2>6. alg'[master].index = 1
    <3>1. Initialized[master].index \in {0, 1}
      BY <2>4 DEF Initialized, NewAlgo
    <3> QED
      BY <2>1, <2>5, <3>1
  <2>7. ASSUME NEW m \in Numbers(master)', m < alg'[master].current
        PROVE  FALSE
    <3>1. PICK k \in 1 .. Len(input[master]) : m = input[master][k]
      BY <2>5, <2>7
    <3>2. 1 \in 1 .. Len(input[master]) /\ 1 <= k
      BY <2>5, <2>6
    <3> QED
      BY <2>5, <2>6, <2>7, <3>1, <3>2
  <2>8. StoredUpTo(alg[master].current)'
    BY <2>4, <2>7 DEF StoredUpTo
  <2> QED
    BY <1>1, <2>3, <2>8, OrderKept DEF OInv, UpToHere, MasterMoved
<1> QED
  BY <1>2, <1>3

\* An event that is stored is the next in order.
LEMMA StoreOrder ==
  ASSUME OInv, Store
  PROVE  (UpToHere /\ MasterMoved /\ StoredInOrder)'
<1> DEFINE n == Len(stored)
           event == [id |-> id, data |-> out]
<1>1. /\ UNCHANGED <<input, setup, debug, id, alg, status>>
      /\ pc = "store" /\ turn' = 0
      /\ pc' = IF GoesOn THEN "process" ELSE "finish"
      /\ stored' = IF status THEN Append(stored, event) ELSE stored
  BY DEF Store, job
<1>2. /\ InLoop /\ ~ Leading /\ Passed /\ master' = master
      /\ Numbers(master)' = Numbers(master)
  BY <1>1 DEF InLoop, Leading, Passed, master, Numbers
<1>3. StoredUpTo(id) /\ StoredInOrder
  BY <1>2 DEF OInv, UpToHere
<1>4. /\ DOMAIN stored = 1 .. n /\ n \in Nat
      /\ \A j \in 1 .. n : stored[j].id \in Nat
      /\ id \in Nat /\ alg[master].current \in Nat
      /\ Numbers(master) \subseteq Nat
  BY <1>2, StoredNumbers, MasterFile DEF OInv
<1>5. status => /\ DOMAIN stored' = 1 .. n + 1
                /\ \A j \in 1 .. n : stored'[j] = stored[j]
                /\ stored'[n + 1].id = id
  <2>1. stored \in Seq(Events) /\ event \in Events
    BY DEF OInv, IInv, Kinds, Events
  <2>2. event.id = id
    OBVIOUS
  <2> HIDE DEF event
  <2> QED
    BY <1>1, <2>1, <2>2, AppendProperties, LenProperties
<1>6. StoredInOrder'
  <2>1. CASE ~ status
    BY <1>1, <1>2, <1>3, <2>1 DEF StoredInOrder
  <2>2. CASE status
    <3>1. SUFFICES ASSUME NEW j \in 1 .. n + 1
                   PROVE  /\ \A k \in 1 .. j - 1 : stored'[k].id < stored'[j].id
                          /\ debug \/ \A m \in Numbers(master) : m < stored'[j].id =>
                               \E k \in 1 .. j - 1 : stored'[k].id = m
      BY <1>1, <1>2, <1>5, <2>2 DEF StoredInOrder
    <3>2. \A k \in 1 .. j - 1 : k \in 1 .. n /\ stored'[k] = stored[k]
      BY <1>4, <1>5, <2>2
    <3>3. CASE j \in 1 .. n
      <4>1. stored'[j] = stored[j]
        BY <1>5, <2>2, <3>3
      <4>2. j \in DOMAIN stored
        BY <1>4, <3>3
      <4>3. /\ \A k \in 1 .. j - 1 : stored[k].id < stored[j].id
            /\ debug \/ \A m \in Numbers(master) : m < stored[j].id =>
                 \E k \in 1 .. j - 1 : stored[k].id = m
        BY <1>3, <4>2 DEF StoredInOrder
      <4> QED
        BY <3>2, <4>1, <4>3
    <3>4. CASE j = n + 1
      <4>1. stored'[j].id = id /\ 1 .. j - 1 = 1 .. n
        BY <1>4, <1>5, <2>2, <3>4
      <4> QED
        BY <1>3, <1>4, <3>2, <4>1 DEF StoredUpTo
    <3> QED
      BY <1>4, <3>3, <3>4
  <2> QED
    BY <2>1, <2>2
<1>7. CASE ~ GoesOn
  <2>1. ~ InLoop'
    BY <1>1, <1>7 DEF InLoop
  <2> QED
    BY <1>6, <2>1 DEF UpToHere, MasterMoved, Passed
<1>8. CASE GoesOn
  <2>1. InLoop' /\ Leading' /\ ~ Passed'
    BY <1>1, <1>8 DEF InLoop, Leading, Passed
  <2>2. ~ alg[master].eof
    <3>1. 0 \in Turns /\ At(0) = master /\ Noticed(0)
      BY <1>1, StreamOfTurn DEF OInv, IInv, Numbered, InLoop, Turns, At, Noticed
    <3>2. ~ eof
      BY <1>8 DEF GoesOn
    <3> QED
      BY <1>2, <3>1, <3>2 DEF OInv, IInv, Ends
  <2>3. /\ id <= alg[master].current
        /\ status => /\ id < alg[master].current
                     /\ \A m \in Numbers(master) : m < alg[master].current => m <= id
    BY <1>2, <2>2 DEF OInv, MasterMoved
  <2>4. \A j \in DOMAIN stored' : stored'[j].id < alg[master].current
    <3>1. CASE status
      <4>1. ASSUME NEW j \in 1 .. n + 1
            PROVE  stored'[j].id < alg[master].current
        <5>1. CASE j \in 1 .. n
          BY <1>3, <1>4, <1>5, <2>3, <3>1, <5>1 DEF StoredUpTo
        <5>2. CASE j = n + 1
          BY <1>5, <2>3, <3>1, <5>2
        <5> QED
          BY <1>4, <4>1, <5>1, <5>2
      <4> QED
        BY <1>5, <3>1, <4>1
    <3>2. CASE ~ status
      BY <1>1, <1>3, <1>4, <2>3, <3>2 DEF StoredUpTo
    <3> QED
      BY <3>1, <3>2
  <2>5. ASSUME ~ debug, NEW m \in Numbers(master), m < alg[master].current
        PROVE  \E j \in DOMAIN stored' : stored'[j].id = m
    <3>1. status
      BY <1>8, <2>5 DEF GoesOn
    <3>2. m <= id
      BY <2>3, <2>5, <3>1
    <3>3. CASE m = id
      <4>1. n + 1 \in DOMAIN stored'
        BY <1>4, <1>5, <3>1
      <4> QED
        BY <1>5, <3>1, <3>3, <4>1
    <3>4. CASE m < id
      <4>1. PICK j \in 1 .. n : stored[j].id = m
        BY <1>3, <1>4, <2>5, <3>4 DEF StoredUpTo
      <4>2. j \in DOMAIN stored' /\ stored'[j] = stored[j]
        BY <1>4, <1>5, <3>1
      <4> QED
        BY <4>1, <4>2
    <3> QED
      BY <1>4, <2>5, <3>2, <3>3, <3>4
  <2>6. StoredUpTo(alg[master].current)'
    BY <1>1, <1>2, <2>4, <2>5 DEF StoredUpTo
  <2> QED
    BY <1>6, <2>1, <2>6 DEF UpToHere, MasterMoved
<1> QED
  BY <1>7, <1>8

(***************************************************************************)
(* The theorem                                                             *)
(***************************************************************************)
LEMMA InitOrder ==
  ASSUME Init
  PROVE  OInv
<1>1. IInv
  BY InitIInv
<1>2. ~ InLoop /\ stored = <<>>
  BY DEF Init, InLoop
<1> QED
  BY <1>1, <1>2 DEF OInv, UpToHere, MasterMoved, Passed, StoredInOrder

LEMMA NextOrder ==
  ASSUME OInv, [Next]_vars
  PROVE  OInv'
<1>1. IInv'
  BY NextIInv DEF OInv
<1>2. CASE Run
  <2>1. StoresNothing /\ ~ InLoop'
    BY <1>2 DEF Run, job, StoresNothing, InLoop
  <2> QED
    BY <1>1, <2>1, OrderOutside DEF OInv
<1>3. CASE Initialize
  BY <1>1, <1>3, InitializeOrder DEF OInv
<1>4. CASE (Process \/ FindNext \/ Build) /\ turn # 0
  BY <1>1, <1>4, SlaveStep DEF OInv
<1>5. CASE (Process \/ FindNext \/ Build) /\ turn = 0
  BY <1>1, <1>5, MasterProcess, MasterFind, MasterBuild DEF OInv
<1>6. CASE NextAlgo \/ Check
  BY <1>1, <1>6, BetweenTurnsOrder DEF OInv
<1>7. CASE Store
  BY <1>1, <1>7, StoreOrder DEF OInv
<1>8. CASE Finish
  <2>1. StoresNothing /\ ~ InLoop'
    BY <1>8 DEF Finish, UseFout, job, StoresNothing, InLoop
  <2> QED
    BY <1>1, <2>1, OrderOutside DEF OInv
<1>9. CASE UNCHANGED vars
  <2>1. /\ UNCHANGED <<input, setup, debug, pc, turn, status, id, alg, stored>>
        /\ StoresNothing
    BY <1>9 DEF vars, job, StoresNothing
  <2>2. Leading' = Leading /\ InLoop' = InLoop /\ Passed' = Passed
    BY <2>1 DEF Leading, InLoop, Passed
  <2> QED
    BY <1>1, <2>1, <2>2, OrderKept DEF OInv, UpToHere, MasterMoved, StoredUpTo
<1> QED
  BY <1>2, <1>3, <1>4, <1>5, <1>6, <1>7, <1>8, <1>9 DEF Next

\* Whatever the files: events are stored in the order of their numbers, and without
\* debug mode none of the master's is left out before the last one stored.
THEOREM StoredInOrderAlways == Spec => []StoredInOrder
<1>1. Init => OInv
  BY InitOrder
<1>2. OInv /\ [Next]_vars => OInv'
  BY NextOrder
<1>3. OInv => StoredInOrder
  BY DEF OInv
<1> QED
  BY <1>1, <1>2, <1>3, PTL DEF Spec

-------------------------------------------------------------------------------
(***************************************************************************)
(* The counts of readout modules that the PMT and the TPC algorithm keep,  *)
(* and what they notice.                                                   *)
(***************************************************************************)

(***************************************************************************)
(* The inductive invariant                                                 *)
(***************************************************************************)

\* The stream of turn k is being built, and has something.
Held(k) == k = turn /\ pc \in {"build", "find"} /\ out[At(k)] # <<>>

\* Between its turns a stream is past the events that it has built; in its turn
\* the count is that of the product.
Fem(k) ==
  LET s == At(k)
      a == alg[s]
  IN s # Trigger =>
     /\ a.first = Invalid => a.last = Invalid /\ a.numFem = 0
     /\ a.first # Invalid => a.numFem > 0
     /\ Held(k) => a.first # Invalid /\ a.first <= a.current /\ a.count = Len(out[s])
     /\ ~ Held(k) => a.eof \/ (a.first < a.current /\ a.last < a.current)
     /\ Behind(k) /\ status /\ out[s] # <<>> => a.first # Invalid /\ a.count = Len(out[s])
     /\ HasStored(s) => a.first # Invalid /\ (a.eof \/ a.first < a.current)

\* Everything stored of stream s has the number of modules of its first event.
Regular(s) == \A j \in DOMAIN stored : Len(stored[j].data[s]) \in {0, alg[s].numFem}

\* The next event that evb_algo_pmt begins throws, and so does every later one.
Broken(a) ==
  /\ a.first # Invalid /\ a.count # a.numFem
  /\ a.eof \/ (a.first < a.current /\ a.last < a.current)

PmtNoticed(k) ==
  At(k) = PMT /\ ~ Regular(PMT) =>
    /\ Broken(alg[PMT])
    /\ out[PMT] = <<>> \/ (Behind(k) /\ ~ status)

\* check_event_quality() has looked at the count.
TpcNoticed(k) ==
  k # 0 /\ At(k) = TPC =>
    /\ Regular(TPC)
    /\ Noticed(k) /\ status /\ out[TPC] # <<>> => alg[TPC].count = alg[TPC].numFem

Counted == InLoop => \A k \in Turns : Fem(k) /\ PmtNoticed(k) /\ TpcNoticed(k)

CInv == IInv /\ Counted /\ RegularStored

(***************************************************************************)
(* What a step does to the stream whose turn it is, and to the others      *)
(***************************************************************************)
LEMMA OthersUntouched ==
  ASSUME IInv, Process \/ FindNext \/ Build
  PROVE  /\ UNCHANGED <<input, setup, debug, turn, stored>>
         /\ master' = master /\ Used' = Used
         /\ InLoop /\ InLoop' /\ setup.given
         /\ Turns' = Turns /\ \A k \in Turns : At(k)' = At(k)
         /\ turn \in Turns /\ Turns \subseteq Nat /\ Current = At(turn)
         /\ \A k \in Turns : k # turn => /\ alg'[At(k)] = alg[At(k)]
                                         /\ out'[At(k)] = out[At(k)]
         /\ pc \in {"process", "build", "find"}
         /\ pc' \in {"build", "find"} \/ pc' = IF turn = 0 THEN "next" ELSE "check"
         /\ status' => status \/ turn = 0
         /\ turn # 0 => id' = id
<1>1. /\ UNCHANGED <<input, setup, debug, turn, stored>>
      /\ pc \in {"process", "build", "find"}
      /\ pc' \in {"build", "find"} \/ pc' = IF turn = 0 THEN "next" ELSE "check"
      /\ status' => status \/ turn = 0
      /\ turn # 0 => id' = id
  BY DEF Process, FindNext, Build, ProcessReturns, job
<1>2. /\ Turns' = Turns /\ \A k \in Turns : At(k)' = At(k)
      /\ master' = master /\ Used' = Used
  BY <1>1 DEF Turns, At, Slaves, master, Used
<1>3. InLoop /\ InLoop' /\ setup.given
  <2>1. InLoop /\ InLoop'
    BY <1>1 DEF InLoop
  <2> QED
    BY <2>1 DEF IInv, Loaded
<1>4. /\ turn \in Turns /\ Turns \subseteq Nat /\ Current = At(turn)
      /\ Current \in Streams
      /\ alg \in [Streams -> Algs] /\ out \in [Streams -> Seq(Nat)]
      /\ \A k \in Turns : k # turn => At(k) \in Streams /\ At(k) # Current
  BY <1>1, OnTurn, StreamOfTurn DEF IInv, Kinds, Turns
<1>5. \E a, p : /\ alg' \in {alg, [alg EXCEPT ![Current] = a]}
                /\ out' \in {out, [out EXCEPT ![Current] = p]}
  <2>1. CASE Process
    BY <2>1 DEF Process
  <2>2. CASE FindNext
    <3>1. /\ alg' = [alg EXCEPT ![Current] = Found(Current, alg[Current], Wanted).alg]
          /\ out' = out
      BY <2>2 DEF FindNext
    <3> QED
      BY <3>1
  <2>3. CASE Build
    <3>1. \/ alg' = alg
          \/ alg' = [alg EXCEPT ![Current].count = 0]
          \/ alg' = [alg EXCEPT ![Current] =
                       WithFem(alg[Current], input[Current][alg[Current].index])]
      BY <2>3 DEF Build
    <3>2. out' = out \/ out' = [out EXCEPT ![Current] = Filled(Current, alg[Current].index)]
      BY <2>3 DEF Build
    <3>3. \E a : alg' \in {alg, [alg EXCEPT ![Current] = a]}
      BY <3>1
    <3> QED
      BY <3>2, <3>3
  <2> QED
    BY <2>1, <2>2, <2>3
<1>6. \A k \in Turns : k # turn => /\ alg'[At(k)] = alg[At(k)]
                                   /\ out'[At(k)] = out[At(k)]
  BY <1>4, <1>5
<1> QED
  BY <1>1, <1>2, <1>3, <1>4, <1>6

LEMMA WithFemFields ==
  ASSUME NEW a \in Algs, NEW n \in Nat
  PROVE  LET b == WithFem(a, n)
         IN /\ b.index = a.index /\ b.current = a.current /\ b.eof = a.eof
            /\ b.first = (IF a.first = Invalid THEN n ELSE a.first)
            /\ b.numFem = (IF a.first \in {Invalid, n} THEN a.numFem + 1 ELSE a.numFem)
            /\ b.count = (IF a.last # n THEN 1 ELSE a.count + 1)
            /\ b.last = n
<1> DEFINE
      first == IF a.first = Invalid THEN n ELSE a.first
      numFem == IF a.first \in {Invalid, n} THEN a.numFem + 1 ELSE a.numFem
      count == IF a.last # n THEN 1 ELSE a.count + 1
<1>1. WithFem(a, n) = [a EXCEPT !.first = first, !.numFem = numFem,
                                !.count = count, !.last = n]
  BY DEF WithFem
<1> HIDE DEF first, numFem, count
<1>2. LET b == WithFem(a, n)
      IN /\ b.index = a.index /\ b.current = a.current /\ b.eof = a.eof
         /\ b.first = first /\ b.numFem = numFem /\ b.count = count /\ b.last = n
  BY <1>1 DEF Algs
<1> QED
  BY <1>2 DEF first, numFem, count

LEMMA BuildFacts ==
  ASSUME IInv, Build
  PROVE  LET s == Current
             a == alg[s]
         IN /\ a \in Algs /\ ~ a.eof /\ a.current \in Nat \ {0} /\ s \in Streams
            /\ Wanted \in {Invalid, a.current} /\ id' = a.current
            /\ out'[s] = Filled(s, a.index) /\ out[s] \in Seq(Nat)
            /\ out[s] # <<>> => s = Trigger \/ a.last = a.current
            /\ \/ /\ PreviousDiffers(s, a, a.current) /\ ProcessReturns(FALSE)
                  /\ alg'[s] = [a EXCEPT !.count = 0]
               \/ /\ ~ PreviousDiffers(s, a, a.current)
                  /\ pc' = "find" /\ UNCHANGED <<status, eof>>
                  /\ alg'[s] = IF s = Trigger THEN a ELSE WithFem(a, a.current)
<1> DEFINE s == Current
           a == alg[s]
           n == a.current
<1>1. pc = "build"
  BY DEF Build
<1>2. /\ a \in Algs /\ n \in Nat \ {0} /\ s \in Streams /\ out[s] \in Seq(Nat)
      /\ alg \in [Streams -> Algs] /\ out \in [Streams -> Seq(Nat)]
      /\ n = input[s][a.index]
  BY <1>1, OnTurn
<1>3. /\ ~ a.eof /\ Wanted \in {Invalid, n}
      /\ out[s] # <<>> => s = Trigger \/ a.last = n
  BY <1>1 DEF IInv, Building
<1>4. id' = n
  <2>1. turn # 0 => id # Invalid /\ Wanted = id
    BY <1>1 DEF IInv, Numbered, Wanted, InLoop
  <2> QED
    BY <1>3, <2>1 DEF Build
<1>5. out'[s] = Filled(s, a.index)
  <2>1. out' = [out EXCEPT ![s] = Filled(s, a.index)]
    BY <1>2, <1>3 DEF Build
  <2> QED
    BY <1>2, <2>1
<1>6. CASE PreviousDiffers(s, a, n)
  <2>1. alg' = [alg EXCEPT ![s].count = 0] /\ ProcessReturns(FALSE)
    BY <1>2, <1>3, <1>6 DEF Build
  <2>2. alg'[s] = [a EXCEPT !.count = 0]
    BY <1>2, <2>1
  <2> QED
    BY <1>2, <1>3, <1>4, <1>5, <1>6, <2>1, <2>2
<1>7. CASE ~ PreviousDiffers(s, a, n)
  <2>1. /\ alg' = IF s = Trigger THEN alg ELSE [alg EXCEPT ![s] = WithFem(a, n)]
        /\ pc' = "find" /\ UNCHANGED <<status, eof>>
    BY <1>2, <1>3, <1>7 DEF Build
  <2>2. alg'[s] = IF s = Trigger THEN a ELSE WithFem(a, n)
    BY <1>2, <2>1
  <2> QED
    BY <1>2, <1>3, <1>4, <1>5, <1>7, <2>1, <2>2
<1> QED
  BY <1>6, <1>7

\* find_next() reads on, to the end of the event or to a later one.
LEMMA FindFacts ==
  ASSUME IInv, FindNext
  PROVE  LET s == Current
             a == alg[s]
             b == alg'[s]
         IN /\ a \in Algs /\ ~ a.eof /\ s \in Streams /\ id \in Nat
            /\ out'[s] = out[s] /\ id' = id /\ out[s] \in Seq(Nat)
            /\ out[s] # <<>> => a.current = id /\ (s = Trigger \/ a.last = id)
            /\ b.first = a.first /\ b.last = a.last
            /\ b.numFem = a.numFem /\ b.count = a.count
            /\ b.current \in Nat /\ b.current >= a.current
            /\ \/ /\ pc' = "build" /\ UNCHANGED <<status, eof>>
                  /\ ~ b.eof
               \/ ProcessReturns(TRUE) /\ (b.eof \/ b.current > id)
<1> DEFINE s == Current
           a == alg[s]
           f == input[s]
           found == Found(s, a, Wanted)
<1>1. pc = "find" /\ InLoop /\ Kinds
  BY DEF FindNext, InLoop, IInv
<1>2. /\ out' = out /\ id' = id
      /\ alg' = [alg EXCEPT ![s] = found.alg]
      /\ IF found.ok \/ found.alg.eof THEN ProcessReturns(TRUE)
         ELSE pc' = "build" /\ UNCHANGED <<status, eof>>
  BY DEF FindNext
<1>3. /\ ~ a.eof
      /\ \/ /\ a.current = id
            /\ s = Trigger \/ a.last = id
         \/ turn # 0 /\ a.current < id /\ out[s] = <<>>
  BY <1>1 DEF IInv, Finding
<1>4. /\ s \in Streams /\ a \in Algs
      /\ alg \in [Streams -> Algs] /\ out[s] \in Seq(Nat)
      /\ a.index \in 1 .. Len(f) /\ Len(f) \in Nat /\ a.current = f[a.index]
      /\ a.current \in Nat \ {0} /\ id \in Nat
      /\ \A k \in 1 .. Len(f) : f[k] \in Nat
      /\ \A j, k \in 1 .. Len(f) : j <= k => f[j] <= f[k]
  BY <1>1, OnTurn
<1>5. id # Invalid /\ Wanted = IF turn = 0 THEN Invalid ELSE id
  BY <1>1 DEF IInv, Numbered, Wanted
<1>6. ~ (Wanted # Invalid /\ a.current > Wanted)
  BY <1>3, <1>4, <1>5
<1>7. alg'[s] = found.alg
  <2> HIDE DEF found
  <2> QED
    BY <1>2, <1>4
<1>8. ASSUME NEW k \in 1 .. Len(f), NEW e \in BOOLEAN, a.index <= k,
             found.alg = [a EXCEPT !.index = k, !.current = f[k], !.eof = e],
             found.ok => f[k] > id
      PROVE  LET b == alg'[s]
             IN /\ b.first = a.first /\ b.last = a.last
                /\ b.numFem = a.numFem /\ b.count = a.count
                /\ b.current \in Nat /\ b.current >= a.current
                /\ \/ /\ pc' = "build" /\ UNCHANGED <<status, eof>>
                      /\ ~ b.eof
                   \/ ProcessReturns(TRUE) /\ (b.eof \/ b.current > id)
  <2> HIDE DEF found
  <2>1. /\ found.alg.first = a.first /\ found.alg.last = a.last
        /\ found.alg.numFem = a.numFem /\ found.alg.count = a.count
        /\ found.alg.current = f[k] /\ found.alg.eof = e
    BY <1>4, <1>8 DEF Algs
  <2>2. f[k] \in Nat /\ f[k] >= a.current
    BY <1>4, <1>8
  <2>3. CASE found.ok \/ found.alg.eof
    BY <1>2, <1>7, <1>8, <2>1, <2>2, <2>3
  <2>4. CASE ~ (found.ok \/ found.alg.eof)
    BY <1>2, <1>7, <1>8, <2>1, <2>2, <2>4
  <2> QED
    BY <2>3, <2>4
<1>9. CASE a.index >= Len(f)
  <2>1. found = [alg |-> [a EXCEPT !.eof = TRUE], ok |-> FALSE]
    BY <1>6, <1>9 DEF Found
  <2>2. found.alg = [a EXCEPT !.eof = TRUE] /\ ~ found.ok
    BY <2>1
  <2>3. [a EXCEPT !.eof = TRUE] =
          [a EXCEPT !.index = a.index, !.current = f[a.index], !.eof = TRUE]
    BY <1>4 DEF Algs
  <2>4. a.index <= a.index
    BY <1>4
  <2> HIDE DEF found
  <2> QED
    BY <1>2, <1>3, <1>4, <1>8, <2>2, <2>3, <2>4
<1>10. CASE a.index < Len(f) /\ Wanted # Invalid /\ a.current < Wanted
  <2>1. Wanted = id
    BY <1>5, <1>10
  <2>2. PICK k : k = StopsAt(s, a.index, Wanted)
    OBVIOUS
  <2>3. k \in a.index + 1 .. Len(f)
    BY <1>1, <1>4, <1>10, <2>1, <2>2, SkippingStops
  <2>4. k \in 1 .. Len(f) /\ a.index <= k
    BY <1>4, <2>3
  <2>5. found = [alg |-> [a EXCEPT !.index = k, !.current = f[k], !.eof = k = Len(f)],
                 ok |-> f[k] > id]
    BY <1>4, <1>6, <1>10, <2>1, <2>2 DEF Found
  <2>6. PICK e \in BOOLEAN : e = (k = Len(f))
    OBVIOUS
  <2>7. /\ found.alg = [a EXCEPT !.index = k, !.current = f[k], !.eof = e]
        /\ found.ok = (f[k] > id)
    BY <2>5, <2>6
  <2> HIDE DEF found
  <2> QED
    BY <1>2, <1>3, <1>4, <1>8, <2>4, <2>7
<1>11. CASE a.index < Len(f) /\ ~ (Wanted # Invalid /\ a.current < Wanted)
  <2>1. PICK k \in Nat : k = a.index + 1
    BY <1>4
  <2>2. a.current = id
    BY <1>3, <1>4, <1>5, <1>11
  <2>3. found = [alg |-> [a EXCEPT !.index = k, !.current = f[k]],
                 ok |-> a.current # f[k]]
    BY <1>4, <1>6, <1>11, <2>1 DEF Found
  <2>4. k \in 1 .. Len(f) /\ a.index <= k /\ f[k] \in Nat /\ f[k] >= id
    <3>1. k \in 1 .. Len(f) /\ a.index <= k
      BY <1>4, <1>11, <2>1
    <3> QED
      BY <1>4, <2>2, <3>1
  <2>5. /\ found.alg = [a EXCEPT !.index = k, !.current = f[k]]
        /\ found.ok = (a.current # f[k])
    BY <2>3
  <2>6. [a EXCEPT !.index = k, !.current = f[k]] =
          [a EXCEPT !.index = k, !.current = f[k], !.eof = FALSE]
    BY <1>3, <1>4 DEF Algs
  <2> HIDE DEF found
  <2>7. found.ok => f[k] > id
    <3>1. found.ok <=> a.current # f[k]
      BY <2>5
    <3> QED
      BY <1>4, <2>2, <2>4, <3>1
  <2> QED
    BY <1>2, <1>3, <1>4, <1>8, <2>4, <2>5, <2>6, <2>7
<1>12. \/ a.index >= Len(f)
       \/ a.index < Len(f) /\ Wanted # Invalid /\ a.current < Wanted
       \/ a.index < Len(f) /\ ~ (Wanted # Invalid /\ a.current < Wanted)
  BY <1>4
<1>13. out[s] # <<>> => a.current = id /\ (s = Trigger \/ a.last = id)
  BY <1>3
<1> HIDE DEF found
<1> QED
  BY <1>2, <1>3, <1>4, <1>9, <1>10, <1>11, <1>12, <1>13

(***************************************************************************)
(* process(), build() and find_next() keep the counts                      *)
(***************************************************************************)

\* A step of one turn leaves the other turns as they are.
LEMMA OthersCounted ==
  ASSUME CInv, Process \/ FindNext \/ Build, NEW k \in Turns, k # turn
  PROVE  Fem(k)' /\ PmtNoticed(k)' /\ TpcNoticed(k)'
<1>1. IInv /\ Fem(k) /\ PmtNoticed(k) /\ TpcNoticed(k)
  BY OthersUntouched DEF CInv, Counted
<1>2. /\ At(k)' = At(k) /\ alg'[At(k)] = alg[At(k)] /\ out'[At(k)] = out[At(k)]
      /\ stored' = stored /\ turn' = turn /\ k \in Nat /\ turn \in Nat
  BY <1>1, OthersUntouched
<1>3. /\ ~ Held(k) /\ ~ Held(k)'
      /\ Behind(k)' <=> Behind(k)
      /\ Noticed(k)' <=> Noticed(k)
  BY <1>2 DEF Held, Behind, Noticed
<1>4. Behind(k) /\ status' => status
  BY <1>1, <1>2, OthersUntouched DEF Behind
<1>5. Noticed(k) => Behind(k)
  BY DEF Noticed, Behind
<1>6. \A s : HasStored(s)' <=> HasStored(s)
  BY <1>2 DEF HasStored
<1>7. Fem(k)'
  BY <1>1, <1>2, <1>3, <1>4, <1>6 DEF Fem
<1>8. Regular(At(k))' <=> Regular(At(k))
  BY <1>2 DEF Regular
<1>9. PmtNoticed(k)'
  <2>1. SUFFICES ASSUME At(k) = PMT, ~ Regular(PMT)
                 PROVE  /\ Broken(alg'[PMT])
                        /\ out'[PMT] = <<>> \/ (Behind(k)' /\ ~ status')
    <3>1. At(k) = PMT => (Regular(PMT)' <=> Regular(PMT))
      BY <1>8, <1>2 DEF Regular
    <3> QED
      BY <1>2, <3>1 DEF PmtNoticed
  <2>2. Broken(alg[PMT]) /\ (out[PMT] = <<>> \/ (Behind(k) /\ ~ status))
    BY <1>1, <2>1 DEF PmtNoticed
  <2> QED
    BY <1>2, <1>3, <1>4, <2>1, <2>2
<1>10. TpcNoticed(k)'
  <2>1. SUFFICES ASSUME k # 0, At(k) = TPC
                 PROVE  /\ Regular(TPC)'
                        /\ Noticed(k)' /\ status' /\ out'[TPC] # <<>> =>
                             alg'[TPC].count = alg'[TPC].numFem
    BY <1>2 DEF TpcNoticed
  <2>2. /\ Regular(TPC)
        /\ Noticed(k) /\ status /\ out[TPC] # <<>> => alg[TPC].count = alg[TPC].numFem
    BY <1>1, <2>1 DEF TpcNoticed
  <2>3. Regular(TPC)'
    BY <1>2, <2>1, <2>2 DEF Regular
  <2> QED
    BY <1>2, <1>3, <1>4, <1>5, <2>1, <2>2, <2>3
<1> QED
  BY <1>7, <1>9, <1>10

LEMMA ProcessCounted ==
  ASSUME CInv, Process
  PROVE  /\ Fem(turn)' /\ PmtNoticed(turn)' /\ TpcNoticed(turn)'
         /\ alg' = alg
<1>1. IInv /\ Fem(turn) /\ PmtNoticed(turn) /\ TpcNoticed(turn)
  BY OthersUntouched DEF CInv, Counted
<1>2. /\ At(turn)' = At(turn) /\ alg' = alg /\ out' = out
      /\ stored' = stored /\ turn' = turn /\ pc = "process" /\ InLoop /\ turn \in Turns
      /\ turn \in Nat
  BY <1>1, OthersUntouched DEF Process
<1>3. out[At(turn)] = <<>>
  BY <1>1, <1>2 DEF IInv, AheadEmpty, Ahead
<1>4. ~ Held(turn) /\ ~ Held(turn)'
  BY <1>2, <1>3 DEF Held
<1>5. \A s : (HasStored(s)' <=> HasStored(s)) /\ (Regular(s)' <=> Regular(s))
  BY <1>2 DEF HasStored, Regular
<1>6. Fem(turn)'
  BY <1>1, <1>2, <1>3, <1>4, <1>5 DEF Fem
<1>7. PmtNoticed(turn)'
  BY <1>1, <1>2, <1>3, <1>5 DEF PmtNoticed
<1>8. TpcNoticed(turn)'
  BY <1>1, <1>2, <1>3, <1>5 DEF TpcNoticed
<1> QED
  BY <1>2, <1>6, <1>7, <1>8

\* The first event of a stream does not change once something of it is stored.
LEMMA BuildCounted ==
  ASSUME CInv, Build
  PROVE  /\ Fem(turn)' /\ PmtNoticed(turn)' /\ TpcNoticed(turn)'
         /\ At(turn) = PMT => Regular(PMT)' \/ alg'[PMT].numFem = alg[PMT].numFem
<1> DEFINE s == At(turn)
           a == alg[s]
           b == alg'[s]
           n == a.current
<1>1. IInv /\ Fem(turn) /\ PmtNoticed(turn) /\ TpcNoticed(turn)
  BY OthersUntouched DEF CInv, Counted
<1>2. /\ At(turn)' = s /\ stored' = stored /\ turn' = turn /\ pc = "build"
      /\ turn \in Turns /\ turn \in Nat /\ s = Current
  BY <1>1, OthersUntouched DEF Build
<1>3. /\ a \in Algs /\ ~ a.eof /\ n \in Nat /\ n # 0 /\ s \in Streams
      /\ out'[s] = Filled(s, a.index) /\ out[s] \in Seq(Nat)
      /\ out[s] # <<>> => s = Trigger \/ a.last = n
      /\ \/ /\ PreviousDiffers(s, a, n) /\ ProcessReturns(FALSE)
            /\ b = [a EXCEPT !.count = 0]
         \/ /\ ~ PreviousDiffers(s, a, n)
            /\ pc' = "find" /\ UNCHANGED <<status, eof>>
            /\ b = IF s = Trigger THEN a ELSE WithFem(a, n)
  BY <1>1, <1>2, BuildFacts
<1>4. /\ a.first \in Nat /\ a.last \in Nat /\ a.numFem \in Nat /\ a.count \in Int
      /\ a.index \in Nat
  BY <1>3 DEF Algs
<1>5. Held(turn) <=> out[s] # <<>>
  BY <1>2 DEF Held
<1>6. ~ Behind(turn) /\ ~ Noticed(turn)
  BY <1>2 DEF Behind, Noticed
<1>7. \A x : HasStored(x)' <=> HasStored(x)
  BY <1>2 DEF HasStored
<1>8. CASE s = Trigger
  BY <1>2, <1>8 DEF Fem, PmtNoticed, TpcNoticed, Trigger, PMT, TPC
<1>9. CASE s # Trigger /\ PreviousDiffers(s, a, n)
  <2>1. /\ s = PMT /\ a.last # n /\ a.first # Invalid /\ a.first # n
        /\ ProcessReturns(FALSE)
        /\ b = [a EXCEPT !.count = 0]
    BY <1>3, <1>9 DEF PreviousDiffers
  <2>2. /\ b.first = a.first /\ b.last = a.last /\ b.numFem = a.numFem
        /\ b.current = n /\ b.eof = a.eof /\ b.count = 0
    BY <1>3, <2>1 DEF Algs
  <2>3. out[s] = <<>>
    BY <1>3, <1>9, <2>1
  <2>4. a.first < n /\ a.last < n /\ a.numFem > 0
    BY <1>1, <1>3, <1>5, <1>9, <2>1, <2>3 DEF Fem
  <2>5. ~ status' /\ ~ Held(turn)'
    <3>1. pc' \in {"next", "check"} /\ ~ status'
      BY <2>1 DEF ProcessReturns
    <3> QED
      BY <3>1 DEF Held
  <2>6. Fem(turn)'
    BY <1>1, <1>2, <1>7, <1>9, <2>1, <2>2, <2>4, <2>5 DEF Fem
  <2>7. PmtNoticed(turn)'
    <3>1. Broken(b)
      BY <1>4, <2>1, <2>2, <2>4 DEF Broken
    <3>2. Behind(turn)'
      BY <1>2, <2>1 DEF Behind, ProcessReturns
    <3> QED
      BY <1>2, <2>1, <2>5, <3>1, <3>2 DEF PmtNoticed
  <2>8. TpcNoticed(turn)'
    BY <1>2, <2>1 DEF TpcNoticed, PMT, TPC
  <2> QED
    BY <1>2, <2>1, <2>2, <2>6, <2>7, <2>8
<1>10. CASE s # Trigger /\ ~ PreviousDiffers(s, a, n)
  <2>1. pc' = "find" /\ status' = status /\ b = WithFem(a, n)
    BY <1>3, <1>10
  <2>2. /\ b.current = n /\ b.eof = a.eof
        /\ b.first = (IF a.first = Invalid THEN n ELSE a.first)
        /\ b.numFem = (IF a.first \in {Invalid, n} THEN a.numFem + 1 ELSE a.numFem)
        /\ b.count = (IF a.last # n THEN 1 ELSE a.count + 1)
        /\ b.last = n
    BY <1>3, <2>1, WithFemFields
  <2>3. out'[s] # <<>> /\ Len(out'[s]) = Len(out[s]) + 1 /\ Len(out[s]) \in Nat
    <3>1. out'[s] = Append(out[s], a.index)
      BY <1>3, <1>10 DEF Filled
    <3> QED
      BY <1>3, <1>4, <3>1
  <2>4. Held(turn)' /\ ~ Behind(turn)' /\ ~ Noticed(turn)'
    BY <1>2, <2>1, <2>3 DEF Held, Behind, Noticed
  <2>5. /\ out[s] = <<>> => a.first < n /\ a.last < n
        /\ out[s] # <<>> => /\ a.first # Invalid /\ a.first <= n /\ a.last = n
                            /\ a.count = Len(out[s])
    BY <1>1, <1>3, <1>5, <1>10 DEF Fem
  <2>6. HasStored(s) => a.first # Invalid /\ a.first < n
    BY <1>1, <1>3, <1>10 DEF Fem
  <2>7. a.first # Invalid => a.numFem > 0
    BY <1>1, <1>10 DEF Fem
  <2>8. b.count = Len(out'[s])
    <3>1. CASE out[s] = <<>>
      BY <1>4, <2>2, <2>3, <2>5, <3>1
    <3>2. CASE out[s] # <<>>
      BY <1>4, <2>2, <2>3, <2>5, <3>2
    <3> QED
      BY <3>1, <3>2
  <2>9. Fem(turn)'
    <3>1. b.first # Invalid /\ b.first <= n /\ b.numFem > 0
      BY <1>3, <1>4, <2>2, <2>5, <2>7 DEF Invalid
    <3>2. HasStored(s)' => b.first < n
      <4>1. HasStored(s)' <=> HasStored(s)
        BY <1>2 DEF HasStored
      <4>2. HasStored(s) => b.first = a.first
        BY <2>2, <2>6
      <4> QED
        BY <2>6, <4>1, <4>2
    <3> QED
      BY <1>2, <2>2, <2>4, <2>8, <3>1, <3>2 DEF Fem
  <2>10. Regular(s) => Regular(s)'
    <3>1. CASE HasStored(s)
      <4>1. b.numFem = a.numFem
        BY <1>3, <1>4, <2>2, <2>6, <3>1
      <4> QED
        BY <1>2, <4>1 DEF Regular
    <3>2. CASE ~ HasStored(s)
      <4>1. \A j \in DOMAIN stored : stored[j].data[s] = <<>>
        BY <3>2 DEF HasStored
      <4>2. Len(<<>>) = 0
        OBVIOUS
      <4> QED
        BY <1>2, <4>1, <4>2 DEF Regular
    <3> QED
      BY <3>1, <3>2
  <2>11. s = PMT => Regular(PMT)
    <3>1. SUFFICES ASSUME s = PMT, ~ Regular(PMT)
                   PROVE  FALSE
      OBVIOUS
    <3>2. Broken(a) /\ out[s] = <<>>
      BY <1>1, <1>2, <1>6, <3>1 DEF PmtNoticed
    <3>3. a.first # Invalid /\ a.count # a.numFem /\ a.first < n /\ a.last < n
      BY <1>3, <3>2 DEF Broken
    <3>4. a.first # n /\ a.last # n
      BY <1>3, <1>4, <3>3
    <3> QED
      BY <1>10, <3>1, <3>3, <3>4 DEF PreviousDiffers
  <2>12. PmtNoticed(turn)'
    BY <1>2, <2>10, <2>11 DEF PmtNoticed
  <2>13. TpcNoticed(turn)'
    <3>1. s = TPC /\ turn # 0 => Regular(s)
      BY <1>1 DEF TpcNoticed
    <3> QED
      BY <1>2, <2>4, <2>10, <3>1 DEF TpcNoticed
  <2> QED
    BY <1>2, <2>9, <2>10, <2>11, <2>12, <2>13
<1> QED
  BY <1>8, <1>9, <1>10

LEMMA FindCounted ==
  ASSUME CInv, FindNext
  PROVE  /\ Fem(turn)' /\ PmtNoticed(turn)' /\ TpcNoticed(turn)'
         /\ alg'[At(turn)].numFem = alg[At(turn)].numFem
<1> DEFINE s == At(turn)
           a == alg[s]
           b == alg'[s]
<1>1. IInv /\ Fem(turn) /\ PmtNoticed(turn) /\ TpcNoticed(turn)
  BY OthersUntouched DEF CInv, Counted
<1>2. /\ At(turn)' = s /\ stored' = stored /\ turn' = turn /\ pc = "find"
      /\ turn \in Turns /\ turn \in Nat /\ s = Current
  BY <1>1, OthersUntouched DEF FindNext
<1>3. /\ a \in Algs /\ ~ a.eof /\ s \in Streams /\ id \in Nat
      /\ out'[s] = out[s]
      /\ out[s] # <<>> => a.current = id /\ (s = Trigger \/ a.last = id)
      /\ b.first = a.first /\ b.last = a.last
      /\ b.numFem = a.numFem /\ b.count = a.count
      /\ b.current \in Nat /\ b.current >= a.current
      /\ \/ pc' = "build" /\ UNCHANGED <<status, eof>> /\ ~ b.eof
         \/ ProcessReturns(TRUE) /\ (b.eof \/ b.current > id)
  BY <1>1, <1>2, FindFacts
<1>4. /\ a.first \in Nat /\ a.last \in Nat /\ a.current \in Nat
  BY <1>3 DEF Algs
<1>5. Held(turn) <=> out[s] # <<>>
  BY <1>2 DEF Held
<1>6. ~ Behind(turn) /\ ~ Noticed(turn)
  BY <1>2 DEF Behind, Noticed
<1>7. \A x : HasStored(x)' <=> HasStored(x)
  BY <1>2 DEF HasStored
<1>8. Regular(s)' <=> Regular(s)
  BY <1>2, <1>3 DEF Regular
<1>9. Held(turn)' <=> pc' = "build" /\ out[s] # <<>>
  <2>1. pc' \in {"build", "next", "check"}
    BY <1>3 DEF ProcessReturns
  <2> QED
    BY <1>2, <1>3, <2>1 DEF Held
<1>10. ~ Noticed(turn)' \/ turn = 0
  BY <1>2, <1>3 DEF Noticed, ProcessReturns
<1>11. Fem(turn)'
  <2>1. SUFFICES ASSUME s # Trigger
                 PROVE  Fem(turn)'
    BY <1>2 DEF Fem
  <2>2. CASE out[s] = <<>>
    <3>1. a.first < a.current /\ a.last < a.current
      BY <1>1, <1>3, <1>5, <2>1, <2>2 DEF Fem
    <3>2. b.first < b.current /\ b.last < b.current
      BY <1>3, <1>4, <3>1
    <3> QED
      BY <1>1, <1>2, <1>3, <1>7, <1>9, <2>2, <3>2 DEF Fem
  <2>3. CASE out[s] # <<>>
    <3>1. /\ a.first # Invalid /\ a.first <= a.current /\ a.count = Len(out[s])
          /\ a.last = a.current /\ a.current = id
      BY <1>1, <1>3, <1>5, <2>1, <2>3 DEF Fem
    <3>2. b.first <= b.current /\ (pc' = "build" \/ b.eof
                                  \/ (b.first < b.current /\ b.last < b.current))
      <4>1. b.first <= b.current
        BY <1>3, <1>4, <3>1
      <4>2. b.current > id => b.first < b.current /\ b.last < b.current
        BY <1>3, <1>4, <3>1
      <4> QED
        BY <1>3, <4>1, <4>2
    <3>3. HasStored(s) => b.eof \/ b.first < b.current
      <4>1. HasStored(s) => a.first < a.current
        BY <1>1, <1>3, <2>1 DEF Fem
      <4>2. a.first < a.current => b.first < b.current
        BY <1>3, <1>4
      <4> QED
        BY <4>1, <4>2
    <3>4. a.numFem > 0
      BY <1>1, <2>1, <3>1 DEF Fem
    <3> QED
      BY <1>2, <1>3, <1>7, <1>9, <2>3, <3>1, <3>2, <3>3, <3>4 DEF Fem
  <2> QED
    BY <2>2, <2>3
<1>12. PmtNoticed(turn)'
  <2>1. SUFFICES ASSUME s = PMT, ~ Regular(PMT)
                 PROVE  Broken(b) /\ out'[PMT] = <<>>
    BY <1>2, <1>8 DEF PmtNoticed
  <2>2. Broken(a) /\ out[s] = <<>>
    BY <1>1, <1>2, <1>6, <2>1 DEF PmtNoticed
  <2>3. a.first # Invalid /\ a.count # a.numFem /\ a.first < a.current /\ a.last < a.current
    BY <1>3, <2>2 DEF Broken
  <2> QED
    BY <1>3, <1>4, <2>1, <2>2, <2>3 DEF Broken
<1>13. TpcNoticed(turn)'
  BY <1>1, <1>2, <1>8, <1>10 DEF TpcNoticed
<1> QED
  BY <1>3, <1>11, <1>12, <1>13

\* So none of these steps loses what was noticed.
LEMMA MissingKept ==
  ASSUME CInv, Process \/ FindNext \/ Build
  PROVE  Counted' /\ RegularStored'
<1>1. /\ UNCHANGED <<turn, stored>> /\ master' = master /\ Used' = Used
      /\ InLoop /\ InLoop' /\ setup.given
      /\ Turns' = Turns /\ \A k \in Turns : At(k)' = At(k)
      /\ turn \in Turns
  BY OthersUntouched DEF CInv
<1>2. /\ Fem(turn)' /\ PmtNoticed(turn)' /\ TpcNoticed(turn)'
      /\ At(turn) = PMT => Regular(PMT)' \/ alg'[PMT].numFem = alg[PMT].numFem
  <2>1. CASE Process
    BY <2>1, ProcessCounted
  <2>2. CASE FindNext
    BY <2>2, FindCounted
  <2>3. CASE Build
    BY <2>3, BuildCounted
  <2> QED
    BY <2>1, <2>2, <2>3
<1>3. \A k \in Turns : Fem(k)' /\ PmtNoticed(k)' /\ TpcNoticed(k)'
  <2>1. ASSUME NEW k \in Turns
        PROVE  Fem(k)' /\ PmtNoticed(k)' /\ TpcNoticed(k)'
    <3>1. CASE k = turn
      <4>1. turn' = turn
        BY <1>1
      <4> QED
        BY <1>2, <3>1, <4>1
    <3>2. CASE k # turn
      BY <3>2, OthersCounted
    <3> QED
      BY <3>1, <3>2
  <2> QED
    BY <2>1
<1>4. Counted'
  BY <1>1, <1>3 DEF Counted
<1>5. \A s \in Used : \E k \in Turns : At(k) = s
  BY <1>1, StreamOfTurn DEF CInv, IInv
<1>6. ASSUME TPC \in Checked
      PROVE  Regular(TPC)'
  <2>1. PICK k \in Turns : At(k) = TPC
    BY <1>5, <1>6 DEF Checked
  <2>2. k # 0
    BY <1>6, <2>1 DEF At, Checked
  <2>3. TpcNoticed(k)' /\ At(k)' = At(k)
    BY <1>1, <1>3
  <2> QED
    BY <2>1, <2>2, <2>3 DEF TpcNoticed
<1>7. ASSUME PMT \in Used
      PROVE  Regular(PMT)' \/ alg'[PMT].numFem = alg[PMT].numFem
  <2>1. PICK k \in Turns : At(k) = PMT
    BY <1>5, <1>7
  <2>2. CASE k # turn
    BY <2>1, <2>2, OthersUntouched DEF CInv
  <2>3. CASE k = turn
    BY <1>2, <2>1, <2>3
  <2> QED
    BY <2>2, <2>3
<1>8. RegularStored
  BY DEF CInv
<1>9. RegularStored'
  <2>1. ASSUME NEW j \in DOMAIN stored, TPC \in Checked
        PROVE  Len(stored[j].data[TPC]) \in {0, alg'[TPC].numFem}
    BY <1>1, <1>6, <2>1 DEF Regular
  <2>2. ASSUME NEW j \in DOMAIN stored, PMT \in Used
        PROVE  \/ Len(stored[j].data[PMT]) \in {0, alg'[PMT].numFem}
               \/ \A k \in j + 1 .. Len(stored) : stored[k].data[PMT] = <<>>
    <3>1. CASE Regular(PMT)'
      BY <1>1, <3>1 DEF Regular
    <3>2. CASE alg'[PMT].numFem = alg[PMT].numFem
      BY <1>8, <2>2, <3>2 DEF RegularStored
    <3> QED
      BY <1>7, <2>2, <3>1, <3>2
  <2> QED
    BY <1>1, <2>1, <2>2 DEF RegularStored, Checked
<1> QED
  BY <1>4, <1>9

(***************************************************************************)
(* The other steps keep them                                               *)
(***************************************************************************)

\* check_event_quality() looks at the count of a product that is not empty only
\* after something has been built.
LEMMA BetweenCounted ==
  ASSUME CInv, NextAlgo \/ Check
  PROVE  Counted' /\ RegularStored'
<1>1. /\ UNCHANGED <<input, setup, alg, out, stored>>
      /\ InLoop /\ InLoop' /\ Turns' = Turns /\ Turns \subseteq Nat
      /\ turn \in Turns /\ \A k \in Turns : At(k)' = At(k)
      /\ Kinds /\ Current = At(turn)
  BY BetweenTurns, StreamOfTurn DEF CInv
<1>2. RegularStored'
  BY <1>1 DEF CInv, RegularStored, Checked, Used, Slaves, master
<1>3. /\ pc \in {"next", "check"} /\ pc' \in {"next", "check", "process", "store"}
      /\ status' => status
  <2>1. CASE NextAlgo
    BY <2>1 DEF NextAlgo
  <2>2. CASE Check
    BY <2>2 DEF Check
  <2> QED
    BY <2>1, <2>2
<1>4. ASSUME NEW k \in Turns
      PROVE  /\ ~ Held(k) /\ ~ Held(k)'
             /\ Behind(k) => Behind(k)'
             /\ Behind(k)' /\ status' => Behind(k)
             /\ Noticed(k)' => Noticed(k) \/ (k = turn /\ Check)
  <2>1. k \in Nat /\ turn \in Nat
    BY <1>1
  <2>2. ~ Held(k) /\ ~ Held(k)'
    BY <1>3 DEF Held
  <2>3. CASE NextAlgo
    <3>1. \/ pc = "next" /\ pc' = "store" /\ turn' = turn
          \/ /\ pc = "next" /\ turn' = turn + 1 /\ pc' = IF Asked THEN "process" ELSE "check"
             /\ status' = status
      BY <2>3 DEF NextAlgo
    <3>2. CASE pc' = "store"
      BY <2>2, <3>1, <3>2 DEF Behind, Noticed
    <3>3. CASE turn' = turn + 1
      <4>1. (k < turn' <=> k <= turn) /\ turn' \in Nat
        BY <2>1, <3>3
      <4>2. pc' = "process" \/ ~ status'
        BY <3>1, <3>3 DEF Asked
      <4>3. pc' \notin {"next", "store"} /\ pc = "next"
        BY <2>1, <3>1, <3>3
      <4> QED
        BY <2>1, <2>2, <4>1, <4>2, <4>3 DEF Behind, Noticed
    <3> QED
      BY <3>1, <3>2, <3>3
  <2>4. CASE Check
    <3>1. pc = "check" /\ pc' = "next" /\ turn' = turn
      BY <2>4 DEF Check
    <3> QED
      BY <2>1, <2>2, <2>4, <3>1 DEF Behind, Noticed
  <2> QED
    BY <2>3, <2>4
<1>5. ASSUME NEW k \in Turns
      PROVE  Fem(k)' /\ PmtNoticed(k)' /\ TpcNoticed(k)'
  <2>1. Fem(k) /\ PmtNoticed(k) /\ TpcNoticed(k)
    BY <1>1 DEF CInv, Counted
  <2>2. \A s : (HasStored(s)' <=> HasStored(s)) /\ (Regular(s)' <=> Regular(s))
    BY <1>1 DEF HasStored, Regular
  <2>3. At(k)' = At(k) /\ alg' = alg /\ out' = out
    BY <1>1
  <2>4. Fem(k)'
    BY <1>3, <1>4, <2>1, <2>2, <2>3 DEF Fem
  <2>5. PmtNoticed(k)'
    BY <1>3, <1>4, <2>1, <2>2, <2>3 DEF PmtNoticed
  <2>6. CASE ~ (k = turn /\ Check)
    <3>1. TpcNoticed(k)'
      BY <1>3, <1>4, <2>1, <2>2, <2>3, <2>6 DEF TpcNoticed
    <3> QED
      BY <2>4, <2>5, <3>1
  <2>7. CASE k = turn /\ Check
    <3>1. SUFFICES ASSUME k # 0, At(k) = TPC, status', out[TPC] # <<>>
                   PROVE  alg[TPC].count = alg[TPC].numFem
      BY <2>1, <2>2, <2>3, <2>4, <2>5 DEF TpcNoticed
    <3>2. Behind(k) /\ status
      BY <1>3, <2>7, <3>1 DEF Behind, Check
    <3>3. alg[TPC].count = Len(out[TPC])
      BY <2>1, <3>1, <3>2 DEF Fem, TPC, Trigger
    <3>4. Len(out[TPC]) > 0
      <4>1. out[TPC] \in Seq(Nat)
        BY <1>1 DEF Kinds, Streams
      <4> QED
        BY <3>1, <4>1
    <3>5. PICK good \in IF Asked THEN Qualities(Current) ELSE {FALSE} :
                 status' = (good /\ status)
      BY <2>7 DEF Check
    <3>6. good
      BY <3>1, <3>5
    <3>7. good \in Qualities(TPC)
      BY <1>1, <2>7, <3>1, <3>5, <3>6
    <3>8. alg[TPC].count # NoVector
      BY <3>3, <3>4 DEF NoVector
    <3>9. Qualities(TPC) = {alg[TPC].count = alg[TPC].numFem}
      BY <3>8 DEF Qualities
    <3> QED
      BY <3>6, <3>7, <3>9
  <2> QED
    BY <2>6, <2>7
<1> QED
  BY <1>1, <1>2, <1>5 DEF Counted

\* An event is appended unless something has failed in it.
LEMMA EventStored ==
  ASSUME Kinds, Store
  PROVE  LET n == Len(stored)
         IN /\ n \in Nat /\ DOMAIN stored = 1 .. n
            /\ ~ status => stored' = stored
            /\ status => /\ Len(stored') = n + 1 /\ DOMAIN stored' = 1 .. n + 1
                         /\ \A j \in 1 .. n : stored'[j] = stored[j]
                         /\ stored'[n + 1].data = out /\ stored'[n + 1].id = id
<1>1. PICK event : event = [id |-> id, data |-> out]
  OBVIOUS
<1>2. event.data = out /\ event.id = id
  BY <1>1
<1>3. stored' = IF status THEN Append(stored, event) ELSE stored
  BY <1>1 DEF Store
<1>4. stored \in Seq(Events) /\ event \in Events
  BY <1>1 DEF Kinds, Events
<1> QED
  BY <1>2, <1>3, <1>4, AppendProperties, LenProperties

\* A stored product has the count of its algorithm; from one that differs on the
\* PMT stream is silent.
LEMMA StoreCounted ==
  ASSUME CInv, Store
  PROVE  Counted' /\ RegularStored'
<1> DEFINE n == Len(stored)
<1>1. /\ UNCHANGED <<input, setup, alg, status>> /\ pc = "store"
      /\ turn' = 0 /\ out' = Cleared /\ pc' \in {"process", "finish"}
  BY DEF Store, job
<1>2. /\ Kinds /\ InLoop /\ setup.given /\ turn = Len(Slaves)
      /\ Turns' = Turns /\ Turns \subseteq Nat
      /\ \A k \in Turns : At(k)' = At(k) /\ At(k) \in Streams
      /\ Used = {At(k) : k \in Turns} /\ master' = master /\ Used' = Used
      /\ out \in [Streams -> Seq(Nat)]
  <2>1. Kinds /\ InLoop /\ setup.given /\ turn = Len(Slaves)
    BY <1>1 DEF CInv, IInv, InLoop, Loaded, Numbered
  <2>2. /\ Turns' = Turns /\ \A k \in Turns : At(k)' = At(k)
        /\ master' = master /\ Used' = Used
    BY <1>1 DEF Turns, At, Slaves, master, Used
  <2>3. Turns \subseteq Nat
    BY DEF Turns
  <2> QED
    BY <2>1, <2>2, <2>3, StreamOfTurn DEF Kinds
<1>3. ASSUME NEW k \in Turns
      PROVE  /\ ~ Held(k) /\ Behind(k) /\ Noticed(k) /\ ~ Held(k)'
             /\ pc' = "process" => ~ Behind(k)' /\ ~ Noticed(k)'
  <2>1. k \in Nat /\ (k < turn \/ k = turn)
    BY <1>2 DEF Turns
  <2> QED
    BY <1>1, <2>1 DEF Held, Behind, Noticed
<1>4. \A k \in Turns : Fem(k) /\ PmtNoticed(k) /\ TpcNoticed(k)
  BY <1>2 DEF CInv, Counted
<1>5. /\ n \in Nat /\ DOMAIN stored = 1 .. n
      /\ ~ status => stored' = stored
      /\ status => /\ Len(stored') = n + 1 /\ DOMAIN stored' = 1 .. n + 1
                   /\ \A j \in 1 .. n : stored'[j] = stored[j]
                   /\ stored'[n + 1].data = out
  BY <1>2, EventStored
<1>6. ASSUME NEW s \in Streams
      PROVE  /\ HasStored(s)' => HasStored(s) \/ (status /\ out[s] # <<>>)
             /\ Regular(s)' <=> /\ Regular(s)
                                /\ status => Len(out[s]) \in {0, alg[s].numFem}
  <2>1. CASE ~ status
    BY <1>1, <1>5, <2>1 DEF HasStored, Regular
  <2>2. CASE status
    <3>1. HasStored(s)' => HasStored(s) \/ out[s] # <<>>
      BY <1>5, <2>2 DEF HasStored
    <3>2. Regular(s)' => Regular(s) /\ Len(out[s]) \in {0, alg[s].numFem}
      <4>1. SUFFICES ASSUME Regular(s)'
                     PROVE  Regular(s) /\ Len(out[s]) \in {0, alg[s].numFem}
        OBVIOUS
      <4>2. \A j \in 1 .. n + 1 : Len(stored'[j].data[s]) \in {0, alg[s].numFem}
        BY <1>1, <1>5, <2>2, <4>1 DEF Regular
      <4>3. n + 1 \in 1 .. n + 1 /\ \A j \in 1 .. n : j \in 1 .. n + 1
        BY <1>5
      <4> QED
        BY <1>5, <2>2, <4>2, <4>3 DEF Regular
    <3>3. Regular(s) /\ Len(out[s]) \in {0, alg[s].numFem} => Regular(s)'
      BY <1>1, <1>5, <2>2 DEF Regular
    <3> QED
      BY <2>2, <3>1, <3>2, <3>3
  <2> QED
    BY <2>1, <2>2
<1>7. \A s \in Streams : Cleared[s] = <<>>
  BY DEF Cleared
<1>8. \A s \in Streams : Len(out[s]) = 0 <=> out[s] = <<>>
  BY <1>2
<1>9. ASSUME NEW k \in Turns, At(k) # Trigger, status, out[At(k)] # <<>>
      PROVE  /\ alg[At(k)].first # Invalid /\ alg[At(k)].count = Len(out[At(k)])
             /\ alg[At(k)].eof \/ (alg[At(k)].first < alg[At(k)].current
                                   /\ alg[At(k)].last < alg[At(k)].current)
  BY <1>3, <1>4, <1>9 DEF Fem
<1>10. ASSUME NEW k \in Turns, pc' = "process"
       PROVE  Fem(k)'
  <2>1. Fem(k) /\ At(k) \in Streams /\ At(k)' = At(k) /\ out'[At(k)] = <<>>
    BY <1>1, <1>2, <1>4, <1>7
  <2>2. HasStored(At(k))' /\ At(k) # Trigger =>
          alg[At(k)].first # Invalid /\ (alg[At(k)].eof \/ alg[At(k)].first < alg[At(k)].current)
    <3>1. HasStored(At(k))' => HasStored(At(k)) \/ (status /\ out[At(k)] # <<>>)
      BY <1>6, <2>1 DEF HasStored
    <3> QED
      BY <1>9, <2>1, <3>1 DEF Fem
  <2> QED
    BY <1>1, <1>3, <1>10, <2>1, <2>2 DEF Fem
<1>11. ASSUME NEW k \in Turns, At(k) = PMT
       PROVE  /\ ~ Regular(PMT) /\ status => out[PMT] = <<>>
              /\ ~ Regular(PMT)' => Broken(alg[PMT])
  <2>1. ~ Regular(PMT) => Broken(alg[PMT]) /\ (out[PMT] = <<>> \/ ~ status)
    BY <1>4, <1>11 DEF PmtNoticed
  <2>2. PMT \in Streams /\ PMT # Trigger
    BY DEF Streams, PMT, Trigger
  <2>3. ASSUME Regular(PMT), ~ Regular(PMT)'
        PROVE  Broken(alg[PMT])
    <3>1. status /\ Len(out[PMT]) \notin {0, alg[PMT].numFem}
      BY <1>6, <2>2, <2>3
    <3>2. out[PMT] # <<>>
      BY <1>8, <2>2, <3>1
    <3> QED
      BY <1>9, <1>11, <2>2, <3>1, <3>2 DEF Broken
  <2> QED
    BY <2>1, <2>3
<1>12. ASSUME NEW k \in Turns, k # 0, At(k) = TPC
       PROVE  Regular(TPC)'
  <2>1. /\ Regular(TPC)
        /\ status /\ out[TPC] # <<>> => alg[TPC].count = alg[TPC].numFem
    BY <1>3, <1>4, <1>12 DEF TpcNoticed
  <2>2. TPC \in Streams /\ TPC # Trigger
    BY DEF Streams, TPC, Trigger
  <2>3. status => Len(out[TPC]) \in {0, alg[TPC].numFem}
    BY <1>8, <1>9, <1>12, <2>1, <2>2
  <2> QED
    BY <1>6, <2>1, <2>2, <2>3
<1>13. Counted'
  <2>1. SUFFICES ASSUME pc' = "process", NEW k \in Turns
                 PROVE  PmtNoticed(k)' /\ TpcNoticed(k)'
    BY <1>1, <1>2, <1>10 DEF Counted, InLoop
  <2>2. At(k)' = At(k) /\ At(k) \in Streams /\ out'[At(k)] = <<>> /\ alg' = alg
    BY <1>1, <1>2, <1>7
  <2>3. PmtNoticed(k)'
    BY <1>11, <2>1, <2>2 DEF PmtNoticed
  <2>4. TpcNoticed(k)'
    BY <1>12, <2>1, <2>2 DEF TpcNoticed
  <2> QED
    BY <2>3, <2>4
<1>14. ASSUME NEW j \in DOMAIN stored', TPC \in Checked
       PROVE  Len(stored'[j].data[TPC]) \in {0, alg'[TPC].numFem}
  <2>1. PICK k \in Turns : At(k) = TPC
    BY <1>2, <1>14 DEF Checked
  <2>2. k # 0
    BY <1>14, <2>1 DEF At, Checked
  <2> QED
    BY <1>12, <1>14, <2>1, <2>2 DEF Regular
<1>15. ASSUME NEW j \in DOMAIN stored', PMT \in Used
       PROVE  \/ Len(stored'[j].data[PMT]) \in {0, alg'[PMT].numFem}
              \/ \A m \in j + 1 .. Len(stored') : stored'[m].data[PMT] = <<>>
  <2>1. PICK k \in Turns : At(k) = PMT
    BY <1>2, <1>15
  <2>2. CASE Regular(PMT)'
    BY <1>15, <2>2 DEF Regular
  <2>3. CASE ~ status
    <3>1. j \in DOMAIN stored /\ stored' = stored /\ alg' = alg
      BY <1>1, <1>5, <1>15, <2>3
    <3>2. \/ Len(stored[j].data[PMT]) \in {0, alg[PMT].numFem}
          \/ \A m \in j + 1 .. Len(stored) : stored[m].data[PMT] = <<>>
      BY <1>15, <3>1 DEF CInv, RegularStored
    <3> QED
      BY <3>1, <3>2
  <2>4. CASE ~ Regular(PMT)' /\ status /\ j = n + 1
    <3>1. \A m \in j + 1 .. Len(stored') : FALSE
      BY <1>5, <2>4
    <3> QED
      BY <3>1
  <2>5. CASE ~ Regular(PMT)' /\ status /\ j # n + 1
    <3>1. j \in 1 .. n /\ stored'[j] = stored[j]
      BY <1>5, <1>15, <2>5
    <3>2. CASE Len(stored[j].data[PMT]) \in {0, alg[PMT].numFem}
      BY <1>1, <3>1, <3>2
    <3>3. CASE Len(stored[j].data[PMT]) \notin {0, alg[PMT].numFem}
      <4>1. ~ Regular(PMT)
        BY <1>5, <3>1, <3>3 DEF Regular
      <4>2. out[PMT] = <<>>
        BY <1>11, <2>1, <2>5, <4>1
      <4>3. \A m \in j + 1 .. n : stored[m].data[PMT] = <<>>
        BY <1>5, <1>15, <3>1, <3>3 DEF CInv, RegularStored
      <4>4. ASSUME NEW m \in j + 1 .. Len(stored')
            PROVE  stored'[m].data[PMT] = <<>>
        <5>1. CASE m = n + 1
          BY <1>5, <2>5, <4>2, <5>1
        <5>2. CASE m # n + 1
          <6>1. m \in j + 1 .. n /\ m \in 1 .. n
            BY <1>5, <2>5, <3>1, <5>2
          <6> QED
            BY <1>5, <2>5, <4>3, <6>1
        <5> QED
          BY <5>1, <5>2
      <4> QED
        BY <4>4
    <3> QED
      BY <3>2, <3>3
  <2> QED
    BY <2>2, <2>3, <2>4, <2>5
<1>16. RegularStored'
  BY <1>2, <1>14, <1>15 DEF RegularStored, Checked
<1> QED
  BY <1>13, <1>16

\* What initialize() leaves behind.
LEMMA InitializedFields ==
  ASSUME IInv, Initialize, InLoop'
  PROVE  /\ UNCHANGED <<input, setup, debug, eof, stored>>
         /\ stored = <<>> /\ out' = Cleared /\ status'
         /\ turn' = 0 /\ pc' = "process" /\ setup.given
         /\ Turns' = Turns /\ Turns \subseteq Nat /\ 0 \in Turns /\ master' = master
         /\ \A k \in Turns : /\ At(k) \in Streams /\ At(k)' = At(k)
                             /\ input[At(k)] # <<>>
                             /\ ~ alg'[At(k)].eof /\ alg'[At(k)].numFem = 0
                             /\ alg'[At(k)].first = Invalid
                             /\ alg'[At(k)].last = Invalid
                             /\ alg'[At(k)].current = input[At(k)][1]
<1>1. /\ Kinds /\ setup.given /\ turn = 0 /\ out = Cleared /\ stored = <<>>
  BY DEF IInv, Loaded, Initialize
<1>2. /\ UNCHANGED <<input, setup, debug, turn, eof, stored, out>>
      /\ status' = \A s \in Used : input[s] # <<>>
      /\ pc' = "process" /\ alg' = Initialized /\ status'
  BY DEF Initialize, job, UseFout, InLoop
<1>3. /\ Turns' = Turns /\ Turns \subseteq Nat /\ 0 \in Turns /\ master' = master
      /\ \A k \in Turns : At(k) \in Streams /\ At(k)' = At(k)
      /\ Used = {At(k) : k \in Turns}
  BY <1>1, <1>2, StreamOfTurn DEF Turns, At, Slaves, master
<1>4. \A s \in Used : input[s] # <<>>
  BY <1>2
<1>5. ASSUME NEW k \in Turns
      PROVE  /\ input[At(k)] # <<>>
             /\ ~ alg'[At(k)].eof /\ alg'[At(k)].numFem = 0
             /\ alg'[At(k)].first = Invalid /\ alg'[At(k)].last = Invalid
             /\ alg'[At(k)].current = input[At(k)][1]
  <2>1. input[At(k)] # <<>> /\ At(k) \in Used /\ At(k) \in Streams
    BY <1>3, <1>4
  <2>2. alg'[At(k)] = [NewAlgo EXCEPT !.index = 1, !.current = input[At(k)][1]]
    BY <1>2, <2>1 DEF Initialized
  <2> QED
    BY <2>1, <2>2 DEF NewAlgo
<1> QED
  BY <1>1, <1>2, <1>3, <1>5

LEMMA InitializeCounted ==
  ASSUME CInv, Initialize
  PROVE  Counted' /\ RegularStored'
<1>1. stored' = <<>>
  BY DEF CInv, IInv, Loaded, Initialize
<1>2. RegularStored'
  BY <1>1 DEF RegularStored
<1>3. ASSUME InLoop', NEW k \in Turns
      PROVE  Fem(k)' /\ PmtNoticed(k)' /\ TpcNoticed(k)'
  <2>1. /\ At(k) \in Streams /\ At(k)' = At(k) /\ input[At(k)] # <<>>
        /\ alg'[At(k)].first = Invalid /\ alg'[At(k)].last = Invalid
        /\ alg'[At(k)].numFem = 0 /\ alg'[At(k)].current = input[At(k)][1]
        /\ turn' = 0 /\ pc' = "process" /\ out' = Cleared
    BY <1>3, InitializedFields DEF CInv
  <2>2. input[At(k)][1] \in Nat \ {0}
    <3>1. input[At(k)] \in Seq(Nat \ {0})
      BY <2>1, FileOfStream DEF CInv, IInv
    <3> QED
      BY <2>1, <3>1
  <2>3. ~ Held(k)' /\ out'[At(k)] = <<>> /\ ~ HasStored(At(k))'
    BY <1>1, <2>1 DEF Held, Cleared, HasStored
  <2>4. Fem(k)'
    BY <2>1, <2>2, <2>3 DEF Fem, Invalid
  <2>5. PmtNoticed(k)'
    BY <1>1 DEF PmtNoticed, Regular
  <2>6. TpcNoticed(k)'
    BY <1>1, <2>1, <2>3 DEF TpcNoticed, Regular
  <2> QED
    BY <2>4, <2>5, <2>6
<1>4. InLoop' => Turns' = Turns
  BY InitializedFields DEF CInv
<1> QED
  BY <1>2, <1>3, <1>4 DEF Counted

LEMMA NextCounted ==
  ASSUME CInv, [Next]_vars
  PROVE  CInv'
<1>1. IInv'
  BY NextIInv DEF CInv
<1>2. CASE Run \/ Finish
  <2>1. /\ UNCHANGED <<setup, alg, stored>> /\ ~ InLoop'
    BY <1>2 DEF Run, Finish, UseFout, job, InLoop
  <2> QED
    BY <1>1, <2>1 DEF CInv, Counted, RegularStored, Checked, Used, Slaves, master
<1>3. CASE Initialize
  BY <1>1, <1>3, InitializeCounted DEF CInv
<1>4. CASE Process \/ FindNext \/ Build
  BY <1>1, <1>4, MissingKept DEF CInv
<1>5. CASE NextAlgo \/ Check
  BY <1>1, <1>5, BetweenCounted DEF CInv
<1>6. CASE Store
  BY <1>1, <1>6, StoreCounted DEF CInv
<1>7. CASE UNCHANGED vars
  <2>1. /\ UNCHANGED <<input, setup, pc, turn, status, alg, out, stored>>
    BY <1>7 DEF vars, job
  <2>2. /\ Turns' = Turns /\ InLoop' = InLoop /\ \A k \in Turns : At(k)' = At(k)
    BY <2>1 DEF Turns, InLoop, At, Slaves, master
  <2>3. RegularStored'
    BY <2>1 DEF CInv, RegularStored, Checked, Used, Slaves, master
  <2>4. ASSUME InLoop, NEW k \in Turns
        PROVE  Fem(k)' /\ PmtNoticed(k)' /\ TpcNoticed(k)'
    <3>1. Fem(k) /\ PmtNoticed(k) /\ TpcNoticed(k) /\ At(k)' = At(k)
      BY <2>2, <2>4 DEF CInv, Counted
    <3>2. /\ Held(k)' <=> Held(k)
          /\ Behind(k)' <=> Behind(k)
          /\ Noticed(k)' <=> Noticed(k)
          /\ \A s : (HasStored(s)' <=> HasStored(s)) /\ (Regular(s)' <=> Regular(s))
      BY <2>1, <3>1 DEF Held, Behind, Noticed, HasStored, Regular
    <3> QED
      BY <2>1, <3>1, <3>2 DEF Fem, PmtNoticed, TpcNoticed
  <2> QED
    BY <1>1, <2>2, <2>3, <2>4 DEF CInv, Counted
<1> QED
  BY <1>2, <1>3, <1>4, <1>5, <1>6, <1>7 DEF Next

LEMMA InitCounted ==
  ASSUME Init
  PROVE  CInv
<1>1. IInv
  BY InitIInv
<1>2. ~ InLoop /\ stored = <<>>
  BY DEF Init, InLoop
<1> QED
  BY <1>1, <1>2 DEF CInv, Counted, RegularStored

(***************************************************************************)
(* The number that the counts are compared with                            *)
(***************************************************************************)

\* It is the number of modules of the first event that was built; while that event
\* is being built, of its modules so far.
FirstOf(k) ==
  LET s == At(k)
      a == alg[s]
  IN s # Trigger /\ a.first # Invalid =>
       a.numFem = IF Held(k) /\ a.first = a.last THEN Len(out[s])
                  ELSE Cardinality(Entries(s, a.first))

FirstKept == InLoop => \A k \in Turns : FirstOf(k)

FInv == CInv /\ FirstKept /\ (InLoop \/ FirstCounted)

\* In the loop this is what FirstCounted says: of a stream that has been stored the
\* first event is over.
LEMMA FirstIsOver ==
  ASSUME FInv
  PROVE  FirstCounted
<1>1. CASE ~ InLoop
  BY <1>1 DEF FInv
<1>2. CASE InLoop
  <2>1. SUFFICES ASSUME NEW s \in Used \ {Trigger}, HasStored(s)
                 PROVE  alg[s].numFem = Cardinality(Entries(s, alg[s].first))
    BY DEF FirstCounted
  <2>2. IInv /\ Kinds /\ setup.given
    BY <1>2 DEF FInv, CInv, IInv, Loaded
  <2>3. PICK k \in Turns : At(k) = s
    BY <2>1, <2>2, StreamOfTurn
  <2>4. Fem(k) /\ FirstOf(k)
    BY <1>2 DEF FInv, CInv, Counted, FirstKept
  <2>5. alg[s].first # Invalid /\ (alg[s].eof \/ alg[s].first < alg[s].current)
    BY <2>1, <2>3, <2>4 DEF Fem
  <2>6. alg[s].first \in Nat /\ alg[s].current \in Nat
    <3>1. alg[s] \in Algs
      BY <2>2, <2>3, StreamOfTurn DEF Kinds
    <3> QED
      BY <3>1 DEF Algs
  <2>7. ~ (Held(k) /\ alg[s].first = alg[s].last)
    <3>1. SUFFICES ASSUME Held(k), alg[s].first = alg[s].last
                   PROVE  FALSE
      OBVIOUS
    <3>2. Current = s /\ out[s] # <<>> /\ pc \in {"build", "find"}
      BY <2>2, <2>3, <3>1, StreamOfTurn DEF Held
    <3>3. ~ alg[s].eof /\ alg[s].last = alg[s].current
      BY <2>1, <2>2, <3>2 DEF IInv, Building, Finding
    <3> QED
      BY <2>5, <2>6, <3>1, <3>3
  <2> QED
    BY <2>1, <2>3, <2>4, <2>5, <2>7 DEF FirstOf
<1> QED
  BY <1>1, <1>2

\* What a turn has built is the whole event when find_next() ends it.
LEMMA EventGathered ==
  ASSUME IInv, FindNext, out[Current] # <<>>,
         alg'[Current].eof \/ alg'[Current].current > id
  PROVE  Whole(Current, out[Current], id)
<1> DEFINE s == Current
           a == alg[s]
           f == input[s]
           found == Found(s, a, Wanted)
<1>1. pc = "find" /\ InLoop /\ Kinds
  BY DEF FindNext, InLoop, IInv
<1>2. a.current = id /\ Gathered(s, id, a.index) /\ ~ a.eof
  BY <1>1 DEF IInv, Finding
<1>3. /\ s \in Streams /\ a \in Algs /\ alg \in [Streams -> Algs]
      /\ a.index \in 1 .. Len(f) /\ Len(f) \in Nat /\ a.current = f[a.index]
      /\ id \in Nat
      /\ \A k \in 1 .. Len(f) : f[k] \in Nat
      /\ \A j, k \in 1 .. Len(f) : j <= k => f[j] <= f[k]
  BY <1>1, OnTurn
<1>4. ~ (Wanted # Invalid /\ (a.current > Wanted \/ a.current < Wanted))
  BY <1>2, <1>3 DEF Wanted
<1>5. SUFFICES ASSUME NEW j \in a.index + 1 .. Len(f)
               PROVE  f[j] > id
  BY <1>1, <1>2, <1>3, GatheredAll
<1>6. PICK k \in Nat : k = a.index + 1
  BY <1>3
<1>7. k \in 1 .. Len(f) /\ j \in 1 .. Len(f) /\ k <= j /\ a.index < Len(f)
  BY <1>3, <1>5, <1>6
<1>8. alg'[s].current = f[k] /\ ~ alg'[s].eof
  <2>1. found = [alg |-> [a EXCEPT !.index = k, !.current = f[k]],
                 ok |-> a.current # f[k]]
    BY <1>3, <1>4, <1>6, <1>7 DEF Found
  <2>2. found.alg = [a EXCEPT !.index = k, !.current = f[k]]
    BY <2>1
  <2>3. alg' = [alg EXCEPT ![s] = found.alg]
    BY DEF FindNext
  <2> HIDE DEF found
  <2>4. found.alg.current = f[k] /\ found.alg.eof = a.eof
    BY <1>3, <2>2 DEF Algs
  <2> QED
    BY <1>2, <1>3, <2>3, <2>4
<1>9. f[k] > id /\ f[k] <= f[j] /\ f[k] \in Nat /\ f[j] \in Nat
  BY <1>3, <1>7, <1>8
<1> HIDE DEF f
<1> QED
  BY <1>3, <1>9

\* A step of one turn leaves the first events of the others alone.
LEMMA FirstOthers ==
  ASSUME FInv, Process \/ FindNext \/ Build, NEW k \in Turns, k # turn
  PROVE  FirstOf(k)'
<1>1. /\ At(k)' = At(k) /\ alg'[At(k)] = alg[At(k)] /\ input' = input
      /\ turn' = turn /\ FirstOf(k)
  BY OthersUntouched DEF FInv, CInv, FirstKept
<1>2. ~ Held(k) /\ ~ Held(k)'
  BY <1>1 DEF Held
<1> QED
  BY <1>1, <1>2 DEF FirstOf, Entries

LEMMA FirstBuild ==
  ASSUME FInv, Build
  PROVE  FirstOf(turn)'
<1> DEFINE s == At(turn)
           a == alg[s]
           b == alg'[s]
           n == a.current
<1>1. IInv /\ CInv /\ Fem(turn) /\ FirstOf(turn)
  BY OthersUntouched DEF FInv, CInv, Counted, FirstKept
<1>2. /\ At(turn)' = s /\ turn' = turn /\ pc = "build" /\ s = Current
      /\ input' = input
  BY <1>1, OthersUntouched DEF Build
<1>3. SUFFICES ASSUME s # Trigger, b.first # Invalid
               PROVE  b.numFem = IF Held(turn)' /\ b.first = b.last THEN Len(out'[s])
                                 ELSE Cardinality(Entries(s, b.first))
  BY <1>2 DEF FirstOf, Entries
<1>4. /\ a \in Algs /\ ~ a.eof /\ n \in Nat /\ n # 0 /\ s \in Streams
      /\ out'[s] = Append(out[s], a.index) /\ out[s] \in Seq(Nat)
      /\ out[s] # <<>> => a.last = n
      /\ \/ /\ PreviousDiffers(s, a, n) /\ ProcessReturns(FALSE)
            /\ b = [a EXCEPT !.count = 0]
         \/ pc' = "find" /\ b = WithFem(a, n)
  BY <1>1, <1>2, <1>3, BuildFacts DEF Filled
<1>5. a.first \in Nat /\ a.last \in Nat /\ a.numFem \in Nat /\ a.index \in Nat
  BY <1>4 DEF Algs
<1>6. Held(turn) <=> out[s] # <<>>
  BY <1>2 DEF Held
<1>7. CASE PreviousDiffers(s, a, n) /\ ProcessReturns(FALSE) /\ b = [a EXCEPT !.count = 0]
  <2>1. ~ Held(turn)
    BY <1>4, <1>6, <1>7 DEF PreviousDiffers
  <2>2. ~ Held(turn)'
    <3>1. pc' \in {"next", "check"}
      BY <1>7 DEF ProcessReturns
    <3> QED
      BY <3>1 DEF Held
  <2>3. b.first = a.first /\ b.numFem = a.numFem
    BY <1>4, <1>7 DEF Algs
  <2> QED
    BY <1>1, <1>3, <2>1, <2>2, <2>3 DEF FirstOf
<1>8. CASE pc' = "find" /\ b = WithFem(a, n)
  <2>1. /\ b.first = (IF a.first = Invalid THEN n ELSE a.first)
        /\ b.numFem = (IF a.first \in {Invalid, n} THEN a.numFem + 1 ELSE a.numFem)
        /\ b.last = n
    BY <1>4, <1>8, WithFemFields
  <2>2. /\ out'[s] # <<>> /\ Len(out'[s]) = Len(out[s]) + 1 /\ Len(out[s]) \in Nat
        /\ out[s] = <<>> <=> Len(out[s]) = 0
    BY <1>4, <1>5
  <2>3. Held(turn)'
    BY <1>2, <1>8, <2>2 DEF Held
  <2>4. CASE a.first = Invalid
    <3>1. a.numFem = 0 /\ out[s] = <<>>
      BY <1>1, <1>3, <1>6, <2>4 DEF Fem
    <3> QED
      BY <2>1, <2>2, <2>3, <2>4, <3>1
  <2>5. CASE a.first = n /\ a.first # Invalid
    <3>1. Held(turn) /\ a.last = n
      <4>1. ~ Held(turn) => a.first < n
        BY <1>1, <1>3, <1>4 DEF Fem
      <4> QED
        BY <1>4, <1>5, <1>6, <2>5, <4>1
    <3>2. a.numFem = Len(out[s])
      BY <1>1, <1>3, <2>5, <3>1 DEF FirstOf
    <3> QED
      BY <2>1, <2>2, <2>3, <2>5, <3>2
  <2>6. CASE a.first # n /\ a.first # Invalid
    <3>1. ~ (Held(turn) /\ a.first = a.last)
      BY <1>4, <1>6, <2>6
    <3>2. a.numFem = Cardinality(Entries(s, a.first))
      BY <1>1, <1>3, <2>6, <3>1 DEF FirstOf
    <3> QED
      BY <2>1, <2>6, <3>2
  <2> QED
    BY <2>4, <2>5, <2>6
<1> QED
  BY <1>4, <1>7, <1>8

LEMMA FirstFind ==
  ASSUME FInv, FindNext
  PROVE  FirstOf(turn)'
<1> DEFINE s == At(turn)
           a == alg[s]
           b == alg'[s]
<1>1. IInv /\ CInv /\ FirstOf(turn)
  BY OthersUntouched DEF FInv, CInv, FirstKept
<1>2. /\ At(turn)' = s /\ turn' = turn /\ pc = "find" /\ s = Current
      /\ input' = input
  BY <1>1, OthersUntouched DEF FindNext
<1>3. SUFFICES ASSUME s # Trigger, a.first # Invalid
               PROVE  b.numFem = IF Held(turn)' /\ b.first = b.last THEN Len(out'[s])
                                 ELSE Cardinality(Entries(s, b.first))
  <2>1. b.first = a.first
    BY <1>1, <1>2, FindFacts
  <2> QED
    BY <1>2, <2>1 DEF FirstOf, Entries
<1>4. /\ out'[s] = out[s] /\ (out[s] # <<>> => a.last = id)
      /\ b.first = a.first /\ b.last = a.last /\ b.numFem = a.numFem
      /\ \/ pc' = "build"
         \/ ProcessReturns(TRUE) /\ (b.eof \/ b.current > id)
  BY <1>1, <1>2, <1>3, FindFacts
<1>5. Held(turn) <=> out[s] # <<>>
  BY <1>2 DEF Held
<1>6. a.numFem = IF Held(turn) /\ a.first = a.last THEN Len(out[s])
                 ELSE Cardinality(Entries(s, a.first))
  BY <1>1, <1>3 DEF FirstOf
<1>7. CASE pc' = "build"
  <2>1. Held(turn)' <=> Held(turn)
    BY <1>2, <1>4, <1>5, <1>7 DEF Held
  <2> QED
    BY <1>4, <1>6, <2>1
<1>8. CASE ProcessReturns(TRUE) /\ (b.eof \/ b.current > id)
  <2>1. ~ Held(turn)'
    <3>1. pc' \in {"next", "check"}
      BY <1>8 DEF ProcessReturns
    <3> QED
      BY <3>1 DEF Held
  <2>2. CASE Held(turn) /\ a.first = a.last
    <3>1. Whole(s, out[s], id)
      BY <1>1, <1>2, <1>5, <1>8, <2>2, EventGathered
    <3>2. Len(out[s]) = Cardinality(Entries(s, id))
      BY <1>3, <3>1 DEF Whole
    <3> QED
      BY <1>4, <1>5, <1>6, <2>1, <2>2, <3>2
  <2>3. CASE ~ (Held(turn) /\ a.first = a.last)
    BY <1>4, <1>6, <2>1, <2>3
  <2> QED
    BY <2>2, <2>3
<1> QED
  BY <1>4, <1>7, <1>8

LEMMA FirstProcess ==
  ASSUME FInv, Process
  PROVE  FirstOf(turn)'
<1>1. IInv /\ FirstOf(turn)
  BY OthersUntouched DEF FInv, CInv, FirstKept
<1>2. /\ At(turn)' = At(turn) /\ alg' = alg /\ out' = out /\ input' = input
      /\ turn' = turn /\ pc = "process" /\ InLoop /\ turn \in Turns /\ turn \in Nat
  BY <1>1, OthersUntouched DEF Process
<1>3. out[At(turn)] = <<>>
  BY <1>1, <1>2 DEF IInv, AheadEmpty, Ahead
<1>4. ~ Held(turn) /\ ~ Held(turn)'
  BY <1>2, <1>3 DEF Held
<1> QED
  BY <1>1, <1>2, <1>4 DEF FirstOf, Entries

\* The turns are over: what is stored has a first event, and that is complete.
LEMMA FirstStore ==
  ASSUME FInv, Store
  PROVE  FirstKept' /\ FirstCounted'
<1>1. /\ UNCHANGED <<input, setup, alg>> /\ pc = "store"
      /\ pc' \in {"process", "finish"}
  BY DEF Store, job
<1>2. /\ Kinds /\ InLoop /\ setup.given /\ turn = Len(Slaves) /\ CInv
      /\ Turns' = Turns /\ \A k \in Turns : At(k)' = At(k) /\ At(k) \in Streams
      /\ Used = {At(k) : k \in Turns} /\ Used' = Used
  <2>1. Kinds /\ InLoop /\ setup.given /\ turn = Len(Slaves) /\ CInv
    BY <1>1 DEF FInv, CInv, IInv, InLoop, Loaded, Numbered
  <2>2. Turns' = Turns /\ (\A k \in Turns : At(k)' = At(k)) /\ Used' = Used
    BY <1>1 DEF Turns, At, Slaves, master, Used
  <2> QED
    BY <2>1, <2>2, StreamOfTurn
<1>3. ASSUME NEW k \in Turns
      PROVE  Fem(k) /\ FirstOf(k) /\ ~ Held(k) /\ ~ Held(k)' /\ Behind(k)
  <2>1. Fem(k) /\ FirstOf(k)
    BY <1>2 DEF FInv, CInv, Counted, FirstKept
  <2>2. ~ Held(k) /\ ~ Held(k)'
    BY <1>1 DEF Held
  <2>3. Behind(k)
    BY <1>1, <1>2, StreamOfTurn DEF Behind, Turns
  <2> QED
    BY <2>1, <2>2, <2>3
<1>4. ASSUME NEW k \in Turns, At(k) # Trigger, alg[At(k)].first # Invalid
      PROVE  alg[At(k)].numFem = Cardinality(Entries(At(k), alg[At(k)].first))
  BY <1>3, <1>4 DEF FirstOf
<1>5. ASSUME NEW k \in Turns, At(k) # Trigger, HasStored(At(k))'
      PROVE  alg[At(k)].first # Invalid
  <2>1. HasStored(At(k)) \/ (status /\ out[At(k)] # <<>>)
    <3>1. CASE ~ status
      BY <1>2, <1>5, <3>1, EventStored DEF HasStored
    <3>2. CASE status
      BY <1>2, <1>5, <3>2, EventStored DEF HasStored
    <3> QED
      BY <3>1, <3>2
  <2> QED
    BY <1>3, <1>5, <2>1 DEF Fem
<1>6. FirstKept'
  BY <1>1, <1>2, <1>3, <1>4 DEF FirstKept, FirstOf, Entries
<1>7. FirstCounted'
  <2>1. SUFFICES ASSUME NEW s \in Used \ {Trigger}, HasStored(s)'
                 PROVE  alg[s].numFem = Cardinality(Entries(s, alg[s].first))
    BY <1>1, <1>2 DEF FirstCounted, Entries
  <2>2. PICK k \in Turns : At(k) = s
    BY <1>2, <2>1
  <2> QED
    BY <1>2, <1>4, <1>5, <2>1, <2>2
<1> QED
  BY <1>6, <1>7

LEMMA NextFirst ==
  ASSUME FInv, [Next]_vars
  PROVE  FInv'
<1>1. CInv' /\ CInv /\ IInv
  BY NextCounted DEF FInv, CInv
<1>2. CASE Run \/ Finish
  <2>1. UNCHANGED <<input, setup, alg, stored>> /\ ~ InLoop /\ ~ InLoop'
    BY <1>2 DEF Run, Finish, UseFout, job, InLoop
  <2>2. Used' = Used
    BY <2>1 DEF Used, Slaves, master
  <2>3. FirstCounted'
    BY <2>1, <2>2 DEF FInv, FirstCounted, HasStored, Entries
  <2> QED
    BY <1>1, <2>1, <2>3 DEF FInv, FirstKept
<1>3. CASE Initialize
  <2>1. FirstCounted'
    <3>1. stored' = <<>>
      BY <1>1, <1>3 DEF IInv, Loaded, Initialize
    <3> QED
      BY <3>1 DEF FirstCounted, HasStored
  <2>2. FirstKept'
    <3>1. InLoop' => Turns' = Turns /\ \A k \in Turns :
            At(k)' = At(k) /\ alg'[At(k)].first = Invalid
      BY <1>1, <1>3, InitializedFields
    <3> QED
      BY <3>1 DEF FirstKept, FirstOf
  <2> QED
    BY <1>1, <2>1, <2>2 DEF FInv
<1>4. CASE Process \/ FindNext \/ Build
  <2>1. InLoop' /\ Turns' = Turns
    BY <1>1, <1>4, OthersUntouched
  <2>2. FirstOf(turn)'
    BY <1>4, FirstProcess, FirstFind, FirstBuild
  <2>3. ASSUME NEW k \in Turns
        PROVE  FirstOf(k)'
    <3>1. CASE k = turn
      <4>1. turn' = turn
        BY <1>1, <1>4, OthersUntouched
      <4> QED
        BY <2>2, <3>1, <4>1
    <3>2. CASE k # turn
      BY <1>4, <3>2, FirstOthers
    <3> QED
      BY <3>1, <3>2
  <2>4. FirstKept'
    BY <2>1, <2>3 DEF FirstKept
  <2> QED
    BY <1>1, <2>1, <2>4 DEF FInv
<1>5. CASE NextAlgo \/ Check
  <2>1. /\ UNCHANGED <<input, alg>> /\ InLoop /\ InLoop' /\ Turns' = Turns
        /\ \A k \in Turns : At(k)' = At(k)
    BY <1>1, <1>5, BetweenTurns
  <2>2. \A k \in Turns : ~ Held(k) /\ ~ Held(k)'
    <3>1. pc \in {"next", "check"} /\ pc' \in {"next", "check", "process", "store"}
          /\ out' = out
      BY <1>5 DEF NextAlgo, Check
    <3>2. CASE pc' # "process"
      BY <3>1, <3>2 DEF Held
    <3>3. CASE pc' = "process"
      BY <3>1, <3>3 DEF Held
    <3> QED
      BY <3>2, <3>3
  <2>3. \A k \in Turns : FirstOf(k)
    BY <2>1 DEF FInv, FirstKept
  <2>4. FirstKept'
    BY <2>1, <2>2, <2>3 DEF FirstKept, FirstOf, Entries
  <2> QED
    BY <1>1, <2>1, <2>4 DEF FInv
<1>6. CASE Store
  BY <1>1, <1>6, FirstStore DEF FInv
<1>7. CASE UNCHANGED vars
  <2>1. UNCHANGED <<input, setup, pc, turn, alg, out, stored>>
    BY <1>7 DEF vars, job
  <2>2. Turns' = Turns /\ InLoop' = InLoop /\ \A k \in Turns : At(k)' = At(k)
    BY <2>1 DEF Turns, InLoop, At, Slaves, master
  <2>3. FirstCounted' <=> FirstCounted
    BY <2>1 DEF FirstCounted, HasStored, Entries, Used, Slaves, master
  <2>4. FirstKept'
    BY <2>1, <2>2 DEF FInv, FirstKept, FirstOf, Held, Entries
  <2> QED
    BY <1>1, <2>2, <2>3, <2>4 DEF FInv
<1> QED
  BY <1>2, <1>3, <1>4, <1>5, <1>6, <1>7 DEF Next

LEMMA InitFirst ==
  ASSUME Init
  PROVE  FInv
<1>1. CInv
  BY InitCounted
<1>2. ~ InLoop /\ stored = <<>>
  BY DEF Init, InLoop
<1> QED
  BY <1>1, <1>2 DEF FInv, FirstKept, FirstCounted, HasStored

\* Whatever the files and the program over them: of a TPC stream that is not the
\* master no data are stored with another number of modules than its first event has
\* in the file, and of a PMT stream nothing after such data.  A TPC master is left
\* out, as run() asks check_event_quality() of the other streams only.
THEOREM MissingModulesNoticedAlways == Spec => []MissingModulesNoticed
<1>1. Init => FInv
  BY InitFirst
<1>2. FInv /\ [Next]_vars => FInv'
  BY NextFirst
<1>3. FInv => MissingModulesNoticed
  BY FirstIsOver DEF FInv, CInv, MissingModulesNoticed
<1> QED
  BY <1>1, <1>2, <1>3, PTL DEF Spec

-------------------------------------------------------------------------------
(***************************************************************************)
(* Streams that agree are stored to the end.                               *)
(***************************************************************************)

(***************************************************************************)
(* The inductive invariant                                                 *)
(***************************************************************************)

\* The event that the loop is at.
Target == IF turn = 0 /\ pc \in {"process", "build"} THEN alg[master].current ELSE id

\* A stream has no event after n, or none before event c that is after n.
LastIs(s, n) == \A m \in Numbers(s) : m <= n
NextIs(s, n, c) == c > n /\ \A m \in Numbers(s) : m > n => m >= c

Following(s, a, n) == IF a.eof THEN LastIs(s, n) ELSE NextIs(s, n, a.current)

\* The counts of a stream with as many modules in every event.
Constant(k) ==
  LET s == At(k)
      a == alg[s]
  IN a.first # Invalid =>
       /\ a.first \in Numbers(s)
       /\ Held(k) /\ a.first = a.last => a.numFem = a.count
       /\ ~ (Held(k) /\ a.first = a.last) => a.numFem = Cardinality(Entries(s, a.first))
       /\ ~ Held(k) => a.count = a.numFem

\* Turns to come are at the event, those that are over have it and are past it.
InStep(k) ==
  LET s == At(k)
  IN /\ Ahead(k) => ~ alg[s].eof /\ alg[s].current = Target
     /\ k = turn /\ pc = "find" => out[s] # <<>>
     /\ Behind(k) => out[s] # <<>> /\ Following(s, alg[s], id)
     /\ s # Trigger => Constant(k)

\* All of the master's events before n are stored, and nothing else.
AllBefore(n) ==
  /\ \A m \in Numbers(master) : m < n => \E j \in DOMAIN stored : stored[j].id = m
  /\ \A j \in DOMAIN stored : stored[j].id \in Numbers(master)

AgreedInLoop ==
  Agree /\ InLoop =>
    /\ status /\ Target \in Numbers(master)
    /\ \A k \in Turns : InStep(k)
    /\ eof => ~ (turn = 0 /\ pc \in {"process", "build", "find"}) /\ LastIs(master, id)
    /\ AllBefore(Target)

AgreedInv ==
  /\ CInv /\ AgreedInLoop /\ AgreedAllStored
  /\ pc \in {"run", "initialize"} => ~ eof

(***************************************************************************)
(* The steps of a turn                                                     *)
(***************************************************************************)

\* What agreeing says of the stream of a turn.
LEMMA AgreeingStreams ==
  ASSUME Kinds, setup.given, Agree, NEW k \in Turns
  PROVE  /\ At(k) \in Streams /\ master \in Streams
         /\ Numbers(At(k)) = Numbers(master)
         /\ At(k) # Trigger =>
              \A m, n \in Numbers(At(k)) :
                Cardinality(Entries(At(k), m)) = Cardinality(Entries(At(k), n))
<1>1. At(k) \in Used /\ At(k) \in Streams /\ master \in Streams
  BY StreamOfTurn
<1> QED
  BY <1>1 DEF Agree

\* The numbers of a stream's file.
LEMMA NumbersOfFile ==
  ASSUME Kinds, NEW s \in Streams
  PROVE  /\ Numbers(s) = {input[s][k] : k \in 1 .. Len(input[s])}
         /\ Numbers(s) \subseteq Nat
BY FileOfStream DEF Numbers, Range

LEMMA AgreeKept ==
  ASSUME UNCHANGED <<input, setup>>
  PROVE  /\ Agree' <=> Agree
         /\ master' = master /\ Numbers(master)' = Numbers(master)
         /\ \A n : LastIs(master, n)' <=> LastIs(master, n)
         /\ \A n : stored' = stored => (AllBefore(n)' <=> AllBefore(n))
<1>1. /\ \A s : Numbers(s)' = Numbers(s)
      /\ \A s, n : Entries(s, n)' = Entries(s, n)
      /\ Used' = Used /\ master' = master
  BY DEF Numbers, Entries, Used, Slaves, master
<1>2. Agree' <=> Agree
  BY <1>1 DEF Agree
<1>3. Numbers(master)' = Numbers(master)
  BY <1>1
<1> QED
  BY <1>1, <1>2, <1>3 DEF LastIs, AllBefore

\* After an entry of the event find_next() is at the next one, which is of the same
\* event or of the one after it.
LEMMA FindReadsOn ==
  ASSUME IInv, FindNext, out[Current] # <<>>
  PROVE  LET s == Current
             b == alg'[s]
         IN \/ pc' = "build" /\ UNCHANGED <<status, eof>> /\ b.current = id
            \/ ProcessReturns(TRUE) /\ Following(s, b, id)
<1> DEFINE s == Current
           a == alg[s]
           f == input[s]
           found == Found(s, a, Wanted)
<1>1. pc = "find" /\ InLoop /\ Kinds
  BY DEF FindNext, InLoop, IInv
<1>2. /\ alg' = [alg EXCEPT ![s] = found.alg]
      /\ IF found.ok \/ found.alg.eof THEN ProcessReturns(TRUE)
         ELSE pc' = "build" /\ UNCHANGED <<status, eof>>
  BY DEF FindNext
<1>3. ~ a.eof /\ a.current = id
  BY <1>1 DEF IInv, Finding
<1>4. /\ s \in Streams /\ a \in Algs /\ alg \in [Streams -> Algs]
      /\ a.index \in 1 .. Len(f) /\ Len(f) \in Nat /\ f[a.index] = id
      /\ id \in Nat
      /\ \A k \in 1 .. Len(f) : f[k] \in Nat
      /\ \A j, k \in 1 .. Len(f) : j <= k => f[j] <= f[k]
  BY <1>1, <1>3, OnTurn
<1>5. ~ (Wanted # Invalid /\ a.current > Wanted) /\ ~ (Wanted # Invalid /\ a.current < Wanted)
  BY <1>3, <1>4 DEF Wanted, Invalid
<1>6. alg'[s] = found.alg
  <2> HIDE DEF found
  <2> QED
    BY <1>2, <1>4
<1>7. Numbers(s) = {f[k] : k \in 1 .. Len(f)}
  BY <1>1, <1>4, NumbersOfFile
<1>8. CASE a.index >= Len(f)
  <2>1. found = [alg |-> [a EXCEPT !.eof = TRUE], ok |-> FALSE]
    BY <1>5, <1>8 DEF Found
  <2>2. found.alg = [a EXCEPT !.eof = TRUE]
    BY <2>1
  <2> HIDE DEF found
  <2>3. alg'[s].eof
    BY <1>4, <1>6, <2>2 DEF Algs
  <2>4. ProcessReturns(TRUE)
    BY <1>2, <1>6, <2>3
  <2>5. \A m \in Numbers(s) : m <= id
    BY <1>4, <1>7, <1>8
  <2>6. Following(s, alg'[s], id)
    BY <2>3, <2>5 DEF Following, LastIs
  <2> QED
    BY <2>4, <2>6
<1>9. CASE a.index < Len(f)
  <2>1. PICK k \in Nat : k = a.index + 1
    BY <1>4
  <2>2. found = [alg |-> [a EXCEPT !.index = k, !.current = f[k]],
                 ok |-> a.current # f[k]]
    BY <1>4, <1>5, <1>9, <2>1 DEF Found
  <2>3. k \in 1 .. Len(f) /\ f[k] \in Nat /\ f[k] >= id
    <3>1. k \in 1 .. Len(f) /\ a.index <= k
      BY <1>4, <1>9, <2>1
    <3> QED
      BY <1>4, <3>1
  <2>4. /\ found.alg = [a EXCEPT !.index = k, !.current = f[k]]
        /\ found.ok = (a.current # f[k])
    BY <2>2
  <2> HIDE DEF found
  <2>5. alg'[s].current = f[k] /\ ~ alg'[s].eof
    BY <1>3, <1>4, <1>6, <2>4 DEF Algs
  <2>6. found.ok <=> f[k] # id
    <3>1. found.ok <=> a.current # f[k]
      BY <2>4
    <3> QED
      BY <1>3, <3>1
  <2>7. CASE f[k] = id
    BY <1>2, <1>6, <2>5, <2>6, <2>7
  <2>8. CASE f[k] # id
    <3>1. ProcessReturns(TRUE)
      BY <1>2, <2>6, <2>8
    <3>2. ASSUME NEW m \in Numbers(s), m > id
          PROVE  m >= f[k]
      <4>1. PICK i \in 1 .. Len(f) : m = f[i]
        BY <1>7
      <4>2. ~ (i <= a.index)
        BY <1>4, <3>2, <4>1
      <4>3. k <= i
        BY <1>4, <2>1, <4>1, <4>2
      <4> QED
        BY <1>4, <2>3, <4>1, <4>3
    <3>3. f[k] > id
      BY <1>4, <2>3, <2>8
    <3>4. NextIs(s, id, f[k])
      BY <3>2, <3>3 DEF NextIs
    <3> QED
      BY <2>5, <3>1, <3>4 DEF Following
  <2> QED
    BY <2>7, <2>8
<1>10. a.index >= Len(f) \/ a.index < Len(f)
  BY <1>4
<1> HIDE DEF found
<1> QED
  BY <1>8, <1>9, <1>10

\* The stream whose turn it is stays in step.
LEMMA ProcessAgreed ==
  ASSUME AgreedInv, Process, Agree
  PROVE  /\ status' /\ eof' = eof /\ Target' = Target /\ id' = id
         /\ pc' = "build" /\ InStep(turn)'
<1>1. /\ IInv /\ InLoop /\ turn \in Turns /\ Current = At(turn) /\ pc = "process"
      /\ At(turn)' = At(turn) /\ turn' = turn /\ input' = input /\ master' = master
  BY OthersUntouched DEF AgreedInv, CInv, Process
<1>2. /\ status /\ InStep(turn)
      /\ out[At(turn)] = <<>>
  BY <1>1 DEF AgreedInv, AgreedInLoop, IInv, AheadEmpty, Ahead
<1>3. ~ alg[At(turn)].eof /\ alg[At(turn)].current = Target
  BY <1>1, <1>2 DEF InStep, Ahead
<1>4. /\ alg[At(turn)].current \in Nat /\ id \in Nat
      /\ Wanted = Invalid \/ (turn # 0 /\ Wanted = id)
      /\ At(0) = master
  BY <1>1, OnTurn DEF Wanted, At
<1>5. Wanted = Invalid \/ Wanted = alg[At(turn)].current
  BY <1>3, <1>4 DEF Target
<1>6. /\ UNCHANGED <<alg, out, id, status, eof>> /\ pc' = "build"
  <2>1. ~ (alg[Current].eof \/ (Wanted # Invalid /\ alg[Current].current > Wanted))
    BY <1>1, <1>3, <1>4, <1>5
  <2>2. Wanted \in {Invalid, alg[Current].current}
    BY <1>1, <1>5
  <2> QED
    BY <2>1, <2>2 DEF Process
<1>7. Target' = Target
  BY <1>1, <1>6 DEF Target
<1>8. /\ ~ Held(turn) /\ ~ Held(turn)' /\ ~ Ahead(turn)' /\ ~ Behind(turn)'
      /\ turn \in Nat
  BY <1>1, <1>2, <1>6, OthersUntouched DEF Held, Ahead, Behind
<1>9. /\ \A s : Numbers(s)' = Numbers(s)
      /\ \A s, n : Entries(s, n)' = Entries(s, n)
  BY <1>1 DEF Numbers, Entries
<1>10. Constant(turn) => Constant(turn)'
  BY <1>1, <1>6, <1>8, <1>9 DEF Constant
<1>11. InStep(turn)'
  BY <1>1, <1>2, <1>6, <1>8, <1>10 DEF InStep
<1> QED
  BY <1>2, <1>6, <1>7, <1>11

LEMMA BuildAgreed ==
  ASSUME AgreedInv, Build, Agree
  PROVE  /\ status' /\ eof' = eof /\ Target' = Target /\ (turn # 0 => id' = id)
         /\ pc' = "find" /\ InStep(turn)'
<1> DEFINE s == At(turn)
           a == alg[s]
           b == alg'[s]
           n == a.current
<1>1. /\ IInv /\ InLoop /\ turn \in Turns /\ Current = s /\ pc = "build"
      /\ At(turn)' = s /\ turn' = turn /\ input' = input /\ master' = master
      /\ turn \in Nat /\ Kinds
      /\ turn # 0 => id' = id
  BY OthersUntouched DEF AgreedInv, CInv, Build, IInv
<1>2. /\ status /\ InStep(turn) /\ Fem(turn)
  BY <1>1 DEF AgreedInv, AgreedInLoop, CInv, Counted
<1>3. /\ a \in Algs /\ ~ a.eof /\ n \in Nat /\ n # 0 /\ s \in Streams
      /\ id' = n /\ out'[s] = Filled(s, a.index) /\ out[s] \in Seq(Nat)
      /\ out[s] # <<>> => s = Trigger \/ a.last = n
      /\ \/ PreviousDiffers(s, a, n)
         \/ /\ ~ PreviousDiffers(s, a, n)
            /\ pc' = "find" /\ UNCHANGED <<status, eof>>
            /\ b = IF s = Trigger THEN a ELSE WithFem(a, n)
  BY <1>1, BuildFacts
<1>4. /\ a.first \in Nat /\ a.last \in Nat /\ a.numFem \in Nat /\ a.count \in Int
      /\ a.index \in Nat
  BY <1>3 DEF Algs
<1>5. Held(turn) <=> out[s] # <<>>
  BY <1>1 DEF Held
<1>6. s # Trigger => Constant(turn)
  BY <1>2 DEF InStep
<1>7. ~ PreviousDiffers(s, a, n)
  <2>1. SUFFICES ASSUME s = PMT, a.last # n, a.first # Invalid, a.count # a.numFem
                 PROVE  FALSE
    BY DEF PreviousDiffers
  <2>2. s # Trigger /\ out[s] = <<>>
    BY <1>3, <2>1 DEF PMT, Trigger
  <2> QED
    BY <1>5, <1>6, <2>1, <2>2 DEF Constant
<1>8. /\ pc' = "find" /\ UNCHANGED <<status, eof>>
      /\ b = IF s = Trigger THEN a ELSE WithFem(a, n)
  BY <1>3, <1>7
<1>9. Target' = Target
  <2>1. CASE turn = 0
    <3>1. s = master
      BY <2>1 DEF At
    <3> QED
      BY <1>1, <1>3, <1>8, <2>1, <3>1 DEF Target
  <2>2. CASE turn # 0
    BY <1>1, <2>2 DEF Target
  <2> QED
    BY <2>1, <2>2
<1>10. out'[s] # <<>>
  BY <1>3, <1>4 DEF Filled
<1>11. /\ Held(turn)' /\ ~ Ahead(turn)' /\ ~ Behind(turn)'
  BY <1>1, <1>8, <1>10 DEF Held, Ahead, Behind
<1>12. n \in Numbers(s)
  <2>1. a.index \in 1 .. Len(input[s]) /\ n = input[s][a.index]
    BY <1>1, OnTurn
  <2> QED
    BY <1>1, <1>3, <2>1, NumbersOfFile
<1>13. /\ \A x : Numbers(x)' = Numbers(x)
       /\ \A x, m : Entries(x, m)' = Entries(x, m)
  BY <1>1 DEF Numbers, Entries
<1>14. ASSUME s # Trigger
       PROVE  Constant(turn)'
  <2>1. /\ b.current = n /\ b.eof = a.eof
        /\ b.first = (IF a.first = Invalid THEN n ELSE a.first)
        /\ b.numFem = (IF a.first \in {Invalid, n} THEN a.numFem + 1 ELSE a.numFem)
        /\ b.count = (IF a.last # n THEN 1 ELSE a.count + 1)
        /\ b.last = n
    BY <1>3, <1>8, <1>14, WithFemFields
  <2>2. /\ out[s] = <<>> => a.first < n /\ a.last < n
        /\ out[s] # <<>> => a.first # Invalid /\ a.last = n
        /\ a.first = Invalid => a.numFem = 0 /\ a.last = Invalid
    BY <1>2, <1>3, <1>5, <1>14 DEF Fem
  <2>3. SUFFICES /\ b.first \in Numbers(s)
                 /\ b.first = n => b.numFem = b.count
                 /\ b.first # n => b.numFem = Cardinality(Entries(s, b.first))
    BY <1>1, <1>11, <1>13, <2>1 DEF Constant
  <2>4. CASE a.first = Invalid
    <3>1. b.first = n /\ b.numFem = 1 /\ b.count = 1
      BY <1>3, <2>1, <2>2, <2>4 DEF Invalid
    <3> QED
      BY <1>12, <3>1
  <2>5. CASE a.first # Invalid /\ a.first = n
    <3>1. out[s] # <<>> /\ a.last = n
      BY <1>3, <2>2, <2>5
    <3>2. a.numFem = a.count
      BY <1>5, <1>6, <1>14, <2>5, <3>1 DEF Constant
    <3>3. b.first = n /\ b.numFem = a.numFem + 1 /\ b.count = a.count + 1
      BY <2>1, <2>5, <3>1
    <3> QED
      BY <1>12, <3>2, <3>3
  <2>6. CASE a.first # Invalid /\ a.first # n
    <3>1. b.first = a.first /\ b.numFem = a.numFem
      BY <2>1, <2>6
    <3>2. ~ (Held(turn) /\ a.first = a.last)
      BY <1>5, <2>2, <2>6
    <3>3. a.first \in Numbers(s) /\ a.numFem = Cardinality(Entries(s, a.first))
      BY <1>6, <1>14, <2>6, <3>2 DEF Constant
    <3> QED
      BY <2>6, <3>1, <3>3
  <2> QED
    BY <2>4, <2>5, <2>6
<1>15. InStep(turn)'
  BY <1>1, <1>10, <1>11, <1>14 DEF InStep
<1> QED
  BY <1>1, <1>2, <1>8, <1>9, <1>15

LEMMA FindAgreed ==
  ASSUME AgreedInv, FindNext, Agree
  PROVE  /\ status' /\ Target' = Target /\ id' = id
         /\ pc' = "build" => eof' = eof
         /\ pc' # "build" => (eof' => (turn # 0 /\ eof) \/ LastIs(master, id))
         /\ InStep(turn)'
<1> DEFINE s == At(turn)
           a == alg[s]
           b == alg'[s]
<1>1. /\ IInv /\ InLoop /\ InLoop' /\ turn \in Turns /\ Current = s /\ pc = "find"
      /\ At(turn)' = s /\ turn' = turn /\ input' = input /\ master' = master
      /\ turn \in Nat /\ Kinds /\ setup.given /\ Turns' = Turns
  BY OthersUntouched DEF AgreedInv, CInv, FindNext, IInv
<1>2. /\ status /\ InStep(turn) /\ Fem(turn) /\ Target = id
      /\ Target \in Numbers(master)
  BY <1>1 DEF AgreedInv, AgreedInLoop, CInv, Counted, Target
<1>3. out[s] # <<>>
  BY <1>1, <1>2 DEF InStep
<1>4. /\ a \in Algs /\ id \in Nat /\ id' = id
      /\ out'[s] = out[s]
      /\ s = Trigger \/ a.last = id
      /\ b.first = a.first /\ b.last = a.last
      /\ b.numFem = a.numFem /\ b.count = a.count
  BY <1>1, <1>3, FindFacts
<1>5. \/ pc' = "build" /\ UNCHANGED <<status, eof>> /\ b.current = id
      \/ ProcessReturns(TRUE) /\ Following(s, b, id)
  BY <1>1, <1>3, FindReadsOn
<1>6. Held(turn)
  BY <1>1, <1>3 DEF Held
<1>7. /\ \A x : Numbers(x)' = Numbers(x)
      /\ \A x, m : Entries(x, m)' = Entries(x, m)
  BY <1>1 DEF Numbers, Entries
<1>8. turn = 0 <=> s = master
  BY <1>1, StreamOfTurn
<1>9. CASE pc' = "build"
  <2>1. status' /\ eof' = eof /\ b.current = id
    BY <1>2, <1>5, <1>9 DEF ProcessReturns
  <2>2. Target' = Target
    BY <1>1, <1>2, <1>4, <1>8, <1>9, <2>1 DEF Target
  <2>3. Held(turn)' /\ ~ Ahead(turn)' /\ ~ Behind(turn)'
    BY <1>1, <1>3, <1>4, <1>9 DEF Held, Ahead, Behind
  <2>4. s # Trigger => Constant(turn)'
    <3>1. s # Trigger => Constant(turn)
      BY <1>2 DEF InStep
    <3> QED
      BY <1>1, <1>4, <1>6, <1>7, <2>3, <3>1 DEF Constant
  <2>5. InStep(turn)'
    BY <1>1, <1>9, <2>3, <2>4 DEF InStep
  <2> QED
    BY <1>4, <1>9, <2>1, <2>2, <2>5
<1>10. CASE pc' # "build"
  <2>1. ProcessReturns(TRUE) /\ Following(s, b, id)
    BY <1>5, <1>10
  <2>2. /\ status' /\ pc' \in {"next", "check"}
        /\ eof' = IF turn = 0 THEN alg'[master].eof ELSE eof
    BY <1>2, <2>1 DEF ProcessReturns
  <2>3. Target' = Target
    BY <1>2, <1>4, <2>2 DEF Target
  <2>4. ~ Held(turn)' /\ ~ Ahead(turn)' /\ Behind(turn)'
    BY <1>1, <2>2 DEF Held, Ahead, Behind
  <2>5. eof' => (turn # 0 /\ eof) \/ LastIs(master, id)
    BY <1>8, <2>1, <2>2 DEF Following
  <2>7. Following(At(turn), alg[At(turn)], id)'
    BY <1>1, <1>4, <1>7, <2>1 DEF Following, LastIs, NextIs
  <2>8. Whole(s, out[s], id)
    <3>1. IInv'
      BY <1>1, FindStep
    <3>2. Good(At(turn))'
      BY <1>1, <2>2, <2>4, <3>1 DEF IInv, BehindGood
    <3>3. Whole(s, out'[s], id)
      BY <1>1, <1>3, <1>4, <1>7, <3>2 DEF Good, Whole
    <3> QED
      BY <1>4, <3>3
  <2>9. ASSUME s # Trigger
        PROVE  Constant(turn)'
    <3>1. Constant(turn) /\ a.first # Invalid /\ a.count = Len(out[s]) /\ a.last = id
      BY <1>2, <1>4, <1>6, <2>9 DEF InStep, Fem
    <3>2. a.count = Cardinality(Entries(s, id))
      BY <2>8, <2>9, <3>1 DEF Whole
    <3>3. a.first \in Numbers(s) /\ id \in Numbers(s)
      BY <1>1, <1>2, <3>1, AgreeingStreams DEF Constant
    <3>4. Cardinality(Entries(s, a.first)) = Cardinality(Entries(s, id))
      BY <1>1, <2>9, <3>3, AgreeingStreams
    <3>5. a.numFem = a.count
      <4>1. CASE a.first = a.last
        BY <1>6, <3>1, <4>1 DEF Constant
      <4>2. CASE a.first # a.last
        BY <3>1, <3>2, <3>4, <4>2 DEF Constant
      <4> QED
        BY <4>1, <4>2
    <3>6. a.numFem = Cardinality(Entries(s, a.first))
      BY <3>2, <3>4, <3>5
    <3> QED
      BY <1>1, <1>4, <1>7, <2>4, <3>3, <3>5, <3>6 DEF Constant
  <2>10. InStep(turn)'
    BY <1>1, <1>3, <1>4, <2>2, <2>4, <2>7, <2>9 DEF InStep
  <2> QED
    BY <1>4, <1>10, <2>2, <2>3, <2>5, <2>10
<1> QED
  BY <1>9, <1>10

\* The other turns stay in step.
LEMMA TurnAgreed ==
  ASSUME AgreedInv, Process \/ FindNext \/ Build
  PROVE  AgreedInLoop' /\ AgreedAllStored'
<1>1. /\ UNCHANGED <<input, setup, turn, stored>> /\ InLoop /\ InLoop'
      /\ Turns' = Turns /\ Turns \subseteq Nat /\ turn \in Turns
      /\ \A k \in Turns : At(k)' = At(k)
      /\ \A k \in Turns : k # turn => /\ alg'[At(k)] = alg[At(k)]
                                      /\ out'[At(k)] = out[At(k)]
      /\ pc \in {"process", "build", "find"}
      /\ pc' \in {"build", "find", "next", "check"}
      /\ turn # 0 => id' = id
  <2>1. pc' \in {"build", "find"} \/ pc' = IF turn = 0 THEN "next" ELSE "check"
    BY OthersUntouched DEF AgreedInv, CInv
  <2>2. pc' \in {"build", "find", "next", "check"}
    BY <2>1
  <2> QED
    BY <2>2, OthersUntouched DEF AgreedInv, CInv
<1>2. AgreedAllStored'
  BY <1>1 DEF AgreedAllStored
<1>3. SUFFICES ASSUME Agree
               PROVE  AgreedInLoop'
  BY <1>2, AgreeKept, <1>1 DEF AgreedInLoop
<1>4. /\ Target \in Numbers(master) /\ AllBefore(Target)
      /\ \A k \in Turns : InStep(k)
      /\ eof => turn # 0 /\ LastIs(master, id)
  BY <1>1, <1>3 DEF AgreedInv, AgreedInLoop
<1>5. /\ status' /\ Target' = Target /\ InStep(turn)'
      /\ eof' => (turn # 0 /\ eof) \/ (LastIs(master, id') /\ pc' \in {"next", "check"})
  <2>1. CASE Process
    BY <1>3, <1>4, <2>1, ProcessAgreed
  <2>2. CASE Build
    BY <1>3, <1>4, <2>2, BuildAgreed
  <2>3. CASE FindNext
    <3>1. /\ status' /\ Target' = Target /\ id' = id /\ InStep(turn)'
          /\ pc' = "build" => eof' = eof
          /\ pc' # "build" => (eof' => (turn # 0 /\ eof) \/ LastIs(master, id))
      BY <1>3, <2>3, FindAgreed
    <3>2. pc' # "find"
      BY <2>3 DEF FindNext, ProcessReturns
    <3> QED
      BY <1>1, <1>4, <3>1, <3>2
  <2> QED
    BY <2>1, <2>2, <2>3
<1>6. eof' => LastIs(master, id') /\ ~ (turn = 0 /\ pc' \in {"process", "build", "find"})
  <2>1. turn # 0 /\ eof => LastIs(master, id')
    BY <1>1, <1>4
  <2> QED
    BY <1>5, <2>1
<1>7. ASSUME NEW k \in Turns
      PROVE  InStep(k)'
  <2>1. CASE k = turn
    <3>1. turn' = turn
      BY <1>1
    <3> QED
      BY <1>5, <2>1, <3>1
  <2>2. CASE k # turn
    <3>1. /\ At(k)' = At(k) /\ alg'[At(k)] = alg[At(k)] /\ out'[At(k)] = out[At(k)]
          /\ turn' = turn /\ k \in Nat /\ turn \in Nat /\ InStep(k)
      BY <1>1, <1>4, <2>2
    <3>2. /\ ~ Held(k) /\ ~ Held(k)'
          /\ Ahead(k)' <=> Ahead(k)
          /\ Behind(k)' <=> Behind(k)
      BY <2>2, <3>1 DEF Held, Ahead, Behind
    <3>3. Behind(k) => id' = id
      BY <1>1, <2>2, <3>1 DEF Behind
    <3>4. /\ \A s : Numbers(s)' = Numbers(s)
          /\ \A s, n : Entries(s, n)' = Entries(s, n)
      BY <1>1 DEF Numbers, Entries
    <3>5. Behind(k)' => Following(At(k), alg[At(k)], id)'
      BY <3>1, <3>2, <3>3, <3>4 DEF InStep, Following, LastIs, NextIs
    <3>6. Constant(k) => Constant(k)'
      BY <3>1, <3>2, <3>4 DEF Constant
    <3> QED
      BY <1>5, <2>2, <3>1, <3>2, <3>5, <3>6 DEF InStep
  <2> QED
    BY <2>1, <2>2
<1>8. /\ master' = master /\ Numbers(master)' = Numbers(master)
      /\ \A n : LastIs(master, n)' <=> LastIs(master, n)
      /\ \A n : AllBefore(n)' <=> AllBefore(n)
  BY <1>1, AgreeKept
<1>9. eof' => LastIs(master, id)'
  BY <1>6, <1>8 DEF LastIs
<1>10. AllBefore(Target)'
  BY <1>1, <1>4, <1>5, <1>8 DEF AllBefore
<1> QED
  BY <1>1, <1>4, <1>5, <1>6, <1>7, <1>8, <1>9, <1>10 DEF AgreedInLoop

\* The counts of streams that agree are let through.
LEMMA BetweenAgreed ==
  ASSUME AgreedInv, NextAlgo \/ Check
  PROVE  AgreedInLoop' /\ AgreedAllStored'
<1>1. /\ UNCHANGED <<input, setup, id, alg, out, stored>>
      /\ InLoop /\ InLoop' /\ Turns' = Turns /\ Turns \subseteq Nat
      /\ turn \in Turns /\ \A k \in Turns : At(k)' = At(k)
      /\ Current = At(turn) /\ setup.given /\ Kinds /\ Len(Slaves) \in Nat
  BY BetweenTurns, StreamOfTurn DEF AgreedInv, CInv, IInv, Loaded
<1>2. /\ pc \in {"next", "check"} /\ pc' \in {"next", "check", "process", "store"}
      /\ pc = "check" => turn # 0
      /\ turn' = turn \/ turn' = turn + 1
      /\ turn' = turn + 1 => turn' # 0
      /\ pc' = "process" => turn' = turn + 1
  <2>1. turn \in Nat /\ turn + 1 # 0
    BY <1>1
  <2>2. CASE NextAlgo
    BY <2>1, <2>2 DEF NextAlgo
  <2>3. CASE Check
    BY <1>1, <2>1, <2>3 DEF Check, AgreedInv, CInv, IInv, Numbered
  <2> QED
    BY <2>2, <2>3
<1>3. AgreedAllStored'
  BY <1>2 DEF AgreedAllStored
<1>4. SUFFICES ASSUME Agree
               PROVE  AgreedInLoop'
  BY <1>1, <1>3, AgreeKept DEF AgreedInLoop
<1>5. /\ status /\ Target \in Numbers(master) /\ AllBefore(Target) /\ Target = id
      /\ \A k \in Turns : InStep(k)
      /\ eof => LastIs(master, id)
      /\ \A k \in Turns : Fem(k)
  BY <1>1, <1>2, <1>4 DEF AgreedInv, AgreedInLoop, Target, CInv, Counted
<1>6. Target' = Target
  BY <1>1, <1>2, <1>5 DEF Target
<1>7. status' /\ (eof' => LastIs(master, id))
  <2>1. CASE NextAlgo
    BY <1>5, <2>1 DEF NextAlgo
  <2>2. CASE Check
    <3>1. Behind(turn) /\ ~ Held(turn)
      BY <2>2 DEF Check, Behind, Held
    <3>2. /\ out[At(turn)] # <<>> /\ Following(At(turn), alg[At(turn)], id)
          /\ At(turn) # Trigger => Constant(turn)
      BY <1>1, <1>5, <3>1 DEF InStep
    <3>3. PICK good \in IF Asked THEN Qualities(Current) ELSE {FALSE} :
                 status' = (good /\ status)
      BY <2>2 DEF Check
    <3>4. good \in Qualities(At(turn))
      BY <1>1, <1>5, <3>3 DEF Asked
    <3>5. CASE At(turn) # TPC
      <4>1. good
        BY <3>4, <3>5 DEF Qualities
      <4> QED
        BY <1>1, <1>4, <1>5, <2>2, <3>2, <3>3, <4>1, AgreeingStreams
           DEF Check, Following, LastIs
    <3>6. CASE At(turn) = TPC
      <4>1. At(turn) # Trigger
        BY <3>6 DEF TPC, Trigger
      <4>2. alg[TPC].first # Invalid /\ alg[TPC].count = Len(out[TPC])
        BY <1>1, <1>5, <3>1, <3>2, <3>6, <4>1 DEF Fem
      <4>3. alg[TPC].count = alg[TPC].numFem
        BY <3>1, <3>2, <3>6, <4>1, <4>2 DEF Constant
      <4>4. alg[TPC].count # NoVector
        <5>1. out[TPC] \in Seq(Nat)
          BY <1>1 DEF Kinds, Streams
        <5>2. Len(out[TPC]) \in Nat
          BY <5>1
        <5> QED
          BY <4>2, <5>2 DEF NoVector
      <4>5. Qualities(TPC) = {alg[TPC].count = alg[TPC].numFem}
        BY <4>4 DEF Qualities
      <4>6. good
        <5>1. good \in {alg[TPC].count = alg[TPC].numFem}
          BY <3>4, <3>6, <4>5
        <5> QED
          BY <4>3, <5>1
      <4> QED
        BY <1>1, <1>4, <1>5, <2>2, <3>2, <3>3, <4>6, AgreeingStreams
           DEF Check, Following, LastIs
    <3> QED
      BY <3>5, <3>6
  <2> QED
    BY <2>1, <2>2
<1>8. ASSUME NEW k \in Turns
      PROVE  InStep(k)'
  <2>1. /\ At(k)' = At(k) /\ alg' = alg /\ out' = out /\ id' = id
        /\ k \in Nat /\ turn \in Nat /\ InStep(k)
    BY <1>1, <1>5
  <2>2. ~ Held(k) /\ ~ Held(k)'
    BY <1>2 DEF Held
  <2>3. /\ Ahead(k)' => Ahead(k)
        /\ Behind(k)' => Behind(k)
    <3>1. CASE NextAlgo
      <4>1. Asked
        BY <1>5 DEF Asked
      <4>2. /\ pc = "next"
            /\ \/ pc' = "store" /\ turn' = turn
               \/ pc' = "process" /\ turn' = turn + 1
        BY <3>1, <4>1 DEF NextAlgo
      <4> QED
        BY <2>1, <4>2 DEF Ahead, Behind
    <3>2. CASE Check
      <4>1. pc = "check" /\ pc' = "next" /\ turn' = turn
        BY <3>2 DEF Check
      <4> QED
        BY <2>1, <4>1 DEF Ahead, Behind
    <3> QED
      BY <3>1, <3>2
  <2>4. /\ \A s : Numbers(s)' = Numbers(s)
        /\ \A s, n : Entries(s, n)' = Entries(s, n)
    BY <1>1 DEF Numbers, Entries
  <2>5. Behind(k)' => Following(At(k), alg[At(k)], id)'
    BY <2>1, <2>3, <2>4 DEF InStep, Following, LastIs, NextIs
  <2>6. Constant(k) => Constant(k)'
    BY <2>1, <2>2, <2>4 DEF Constant
  <2> QED
    BY <1>2, <1>6, <2>1, <2>3, <2>5, <2>6 DEF InStep
<1>9. /\ master' = master /\ Numbers(master)' = Numbers(master)
      /\ \A n : LastIs(master, n)' <=> LastIs(master, n)
      /\ \A n : AllBefore(n)' <=> AllBefore(n)
  BY <1>1, AgreeKept
<1>10. eof' => LastIs(master, id)'
  BY <1>1, <1>7, <1>9 DEF LastIs
<1>11. AllBefore(Target)'
  BY <1>1, <1>5, <1>6, <1>9 DEF AllBefore
<1>12. ~ (turn' = 0 /\ pc' \in {"process", "build", "find"})
  BY <1>2
<1> QED
  BY <1>1, <1>5, <1>6, <1>7, <1>8, <1>9, <1>10, <1>11, <1>12 DEF AgreedInLoop

\* The event is stored whole, and all streams are at the same one after it.
LEMMA StoreAgreed ==
  ASSUME AgreedInv, Store
  PROVE  AgreedInLoop' /\ AgreedAllStored'
<1> DEFINE n == Len(stored)
           next == alg[master].current
<1>1. /\ UNCHANGED <<input, setup, id, alg, status, eof>> /\ pc = "store"
      /\ turn' = 0 /\ out' = Cleared /\ pc' = IF GoesOn THEN "process" ELSE "finish"
  BY DEF Store, job
<1>2. /\ Kinds /\ InLoop /\ setup.given /\ turn = Len(Slaves) /\ IInv
      /\ Turns' = Turns /\ Turns \subseteq Nat /\ 0 \in Turns /\ At(0) = master
      /\ \A k \in Turns : At(k)' = At(k) /\ At(k) \in Streams
      /\ Used = {At(k) : k \in Turns} /\ master' = master /\ Used' = Used
  <2>1. Kinds /\ InLoop /\ setup.given /\ turn = Len(Slaves) /\ IInv
    BY <1>1 DEF AgreedInv, CInv, IInv, InLoop, Loaded, Numbered
  <2>2. /\ Turns' = Turns /\ \A k \in Turns : At(k)' = At(k)
        /\ master' = master /\ Used' = Used
    BY <1>1 DEF Turns, At, Slaves, master, Used
  <2>3. Turns \subseteq Nat /\ 0 \in Turns /\ At(0) = master
    BY <2>1, StreamOfTurn DEF Turns, At
  <2> QED
    BY <2>1, <2>2, <2>3, StreamOfTurn
<1>3. SUFFICES ASSUME Agree
               PROVE  AgreedInLoop' /\ AgreedAllStored'
  BY <1>1, AgreeKept DEF AgreedInLoop, AgreedAllStored
<1>4. /\ status /\ id \in Numbers(master) /\ AllBefore(id)
      /\ eof => LastIs(master, id)
      /\ \A k \in Turns : InStep(k)
  BY <1>1, <1>2, <1>3 DEF AgreedInv, AgreedInLoop, Target
<1>5. ASSUME NEW k \in Turns
      PROVE  /\ Behind(k) /\ Noticed(k) /\ ~ Held(k)
             /\ out[At(k)] # <<>> /\ Following(At(k), alg[At(k)], id)
             /\ Whole(At(k), out[At(k)], id)
  <2>1. k \in Nat /\ (k < turn \/ k = turn)
    BY <1>2 DEF Turns
  <2>2. Behind(k) /\ Noticed(k) /\ ~ Held(k)
    BY <1>1, <2>1 DEF Behind, Noticed, Held
  <2>3. out[At(k)] # <<>> /\ Following(At(k), alg[At(k)], id)
    BY <1>4, <2>2 DEF InStep
  <2>4. Good(At(k))
    BY <1>2, <1>4, <2>2 DEF IInv, BehindGood
  <2> QED
    BY <2>2, <2>3, <2>4 DEF Good
<1>6. /\ n \in Nat /\ DOMAIN stored = 1 .. n /\ DOMAIN stored' = 1 .. n + 1
      /\ \A j \in 1 .. n : stored'[j] = stored[j]
      /\ stored'[n + 1].data = out /\ stored'[n + 1].id = id
  BY <1>2, <1>4, EventStored
<1>7. /\ \A s : Numbers(s)' = Numbers(s)
      /\ \A s, m : Entries(s, m)' = Entries(s, m)
      /\ Numbers(master) \subseteq Nat /\ id \in Nat
  BY <1>1, <1>2, NumbersOfFile DEF Numbers, Entries, Kinds
<1>8. ASSUME NEW m \in Numbers(master), m <= id
      PROVE  \E j \in DOMAIN stored' : stored'[j].id = m
  <2>1. CASE m = id
    <3>1. n + 1 \in DOMAIN stored'
      BY <1>6
    <3> QED
      BY <1>6, <2>1, <3>1
  <2>2. CASE m # id
    <3>1. PICK j \in DOMAIN stored : stored[j].id = m
      <4>1. m < id
        BY <1>7, <1>8, <2>2
      <4> QED
        BY <1>4, <4>1 DEF AllBefore
    <3>2. j \in DOMAIN stored' /\ stored'[j] = stored[j]
      BY <1>6
    <3> QED
      BY <3>1, <3>2
  <2> QED
    BY <2>1, <2>2
<1>9. ASSUME NEW j \in DOMAIN stored'
      PROVE  /\ stored'[j].id \in Numbers(master)
             /\ \A s \in Used : Whole(s, stored'[j].data[s], stored'[j].id)
  <2>1. CASE j = n + 1
    <3>1. \A s \in Used : Whole(s, out[s], id)
      BY <1>2, <1>5
    <3> QED
      BY <1>4, <1>6, <2>1, <3>1
  <2>2. CASE j # n + 1
    <3>1. j \in DOMAIN stored /\ stored'[j] = stored[j]
      BY <1>6, <1>9, <2>2
    <3>2. stored[j].id \in Numbers(master)
      BY <1>4, <3>1 DEF AllBefore
    <3>3. ASSUME NEW s \in Used
          PROVE  Whole(s, stored[j].data[s], stored[j].id)
      <4>1. Numbers(s) = Numbers(master) /\ s \in Streams
        BY <1>2, <1>3 DEF Agree
      <4>2. Entries(s, stored[j].id) # {}
        <5>1. PICK i \in 1 .. Len(input[s]) : stored[j].id = input[s][i]
          BY <1>2, <3>2, <4>1, NumbersOfFile
        <5>2. i \in Entries(s, stored[j].id)
          BY <1>2, <4>1, <5>1, FileOfStream DEF Entries
        <5> QED
          BY <5>2
      <4> QED
        BY <1>2, <3>1, <4>2 DEF IInv, StoredWhole
    <3> QED
      BY <3>1, <3>2, <3>3
  <2> QED
    BY <2>1, <2>2
<1>10. CASE eof
  <2>1. pc' = "finish" /\ ~ InLoop'
    BY <1>1, <1>10 DEF GoesOn, InLoop
  <2>2. \A m \in Numbers(master) : m <= id
    BY <1>4, <1>10 DEF LastIs
  <2>3. {stored'[j].id : j \in DOMAIN stored'} = Numbers(master)
    <3>1. \A j \in DOMAIN stored' : stored'[j].id \in Numbers(master)
      BY <1>9
    <3>2. \A m \in Numbers(master) : \E j \in DOMAIN stored' : stored'[j].id = m
      BY <1>8, <2>2
    <3> QED
      BY <3>1, <3>2
  <2>4. \A j \in DOMAIN stored' : \A s \in Used : Whole(s, stored'[j].data[s], stored'[j].id)
    BY <1>9
  <2>5. \A s, p, m : Whole(s, p, m)' <=> Whole(s, p, m)
    BY <1>7 DEF Whole
  <2>6. AgreedAllStored'
    BY <1>1, <1>2, <1>4, <1>7, <2>3, <2>4, <2>5 DEF AgreedAllStored, Whole
  <2> QED
    BY <2>1, <2>6 DEF AgreedInLoop
<1>11. CASE ~ eof
  <2>1. pc' = "process" /\ InLoop'
    BY <1>1, <1>4, <1>11 DEF GoesOn, InLoop
  <2>2. ASSUME NEW k \in Turns
        PROVE  /\ ~ alg[At(k)].eof /\ alg[At(k)].current \in Numbers(master)
               /\ alg[At(k)].current > id
               /\ \A m \in Numbers(master) : m > id => m >= alg[At(k)].current
    <3>1. ~ alg[At(k)].eof
      BY <1>2, <1>5, <1>11 DEF IInv, Ends
    <3>2. NextIs(At(k), id, alg[At(k)].current)
      BY <1>5, <3>1 DEF Following
    <3>3. Numbers(At(k)) = Numbers(master)
      BY <1>2, <1>3, AgreeingStreams
    <3>4. alg[At(k)].current \in Numbers(At(k))
      <4>1. /\ alg[At(k)].index \in 1 .. Len(input[At(k)])
            /\ alg[At(k)].current = input[At(k)][alg[At(k)].index]
        BY <1>2 DEF IInv, Loaded
      <4> QED
        BY <1>2, <4>1, NumbersOfFile
    <3> QED
      BY <3>1, <3>2, <3>3, <3>4 DEF NextIs
  <2>3. /\ next \in Numbers(master) /\ next > id
        /\ \A m \in Numbers(master) : m > id => m >= next
    BY <1>2, <2>2
  <2>4. ASSUME NEW k \in Turns
        PROVE  ~ alg[At(k)].eof /\ alg[At(k)].current = next
    <3>1. alg[At(k)].current >= next /\ next >= alg[At(k)].current
      BY <2>2, <2>3
    <3>2. next \in Nat /\ alg[At(k)].current \in Nat
      BY <1>7, <2>2, <2>3
    <3> QED
      BY <2>2, <3>1, <3>2
  <2>5. Target' = next
    BY <1>1, <1>2, <2>1 DEF Target
  <2>6. ASSUME NEW k \in Turns
        PROVE  InStep(k)'
    <3>1. At(k)' = At(k) /\ alg' = alg /\ k \in Nat
      BY <1>1, <1>2
    <3>2. ~ Held(k)' /\ ~ Behind(k)' /\ ~ Held(k)
      BY <1>1, <1>5, <2>1, <3>1 DEF Held, Behind
    <3>3. At(k) # Trigger => Constant(k)
      BY <1>4 DEF InStep
    <3>4. Constant(k) => Constant(k)'
      BY <1>7, <3>1, <3>2 DEF Constant
    <3> QED
      BY <2>1, <2>4, <2>5, <3>1, <3>2, <3>3, <3>4 DEF InStep
  <2>7. AllBefore(next)'
    <3>1. ASSUME NEW m \in Numbers(master), m < next
          PROVE  m <= id
      BY <1>7, <2>3, <3>1
    <3>2. \A m \in Numbers(master) : m < next => \E j \in DOMAIN stored' : stored'[j].id = m
      BY <1>8, <3>1
    <3>3. \A j \in DOMAIN stored' : stored'[j].id \in Numbers(master)
      BY <1>9
    <3> QED
      BY <1>1, <1>2, <1>7, <3>2, <3>3 DEF AllBefore
  <2>8. AllBefore(Target)'
    BY <1>1, <1>2, <2>5, <2>7 DEF AllBefore
  <2>9. AgreedAllStored'
    BY <2>1 DEF AgreedAllStored
  <2>10. AgreedInLoop'
    BY <1>1, <1>2, <1>4, <1>7, <1>11, <2>3, <2>5, <2>6, <2>8 DEF AgreedInLoop
  <2> QED
    BY <2>9, <2>10
<1> QED
  BY <1>10, <1>11

\* All streams begin at the first event.
LEMMA InitializeAgreed ==
  ASSUME AgreedInv, Initialize
  PROVE  AgreedInLoop' /\ AgreedAllStored'
<1>1. pc' # "finish"
  BY DEF Initialize, UseFout
<1>2. AgreedAllStored'
  BY <1>1 DEF AgreedAllStored
<1>3. SUFFICES ASSUME InLoop', Agree
               PROVE  AgreedInLoop'
  BY <1>2, AgreeKept DEF AgreedInLoop, Initialize, job
<1> DEFINE first == input[master][1]
<1>4. /\ UNCHANGED <<input, setup, eof>> /\ stored' = <<>> /\ out' = Cleared /\ status'
      /\ turn' = 0 /\ pc' = "process" /\ setup.given
      /\ Turns' = Turns /\ Turns \subseteq Nat /\ 0 \in Turns /\ master' = master
      /\ At(0) = master /\ Kinds
      /\ \A k \in Turns : /\ At(k) \in Streams /\ At(k)' = At(k)
                          /\ input[At(k)] # <<>>
                          /\ ~ alg'[At(k)].eof /\ alg'[At(k)].first = Invalid
                          /\ alg'[At(k)].current = input[At(k)][1]
  BY <1>3, InitializedFields DEF AgreedInv, CInv, IInv, At
<1>5. ~ eof
  BY DEF AgreedInv, Initialize
<1>6. ASSUME NEW s \in Used
      PROVE  input[s][1] \in Numbers(master) /\ \A m \in Numbers(master) : input[s][1] <= m
  <2>1. s \in Streams /\ input[s] # <<>> /\ Numbers(s) = Numbers(master)
    <3>1. Used = {At(k) : k \in Turns}
      BY <1>4, StreamOfTurn
    <3> QED
      BY <1>3, <1>4, <3>1 DEF Agree
  <2>2. /\ input[s] \in Seq(Nat \ {0}) /\ Len(input[s]) \in Nat
        /\ \A j, k \in 1 .. Len(input[s]) : j <= k => input[s][j] <= input[s][k]
    BY <1>4, <2>1, FileOfStream
  <2>3. 1 \in 1 .. Len(input[s])
    BY <2>1, <2>2
  <2>4. Numbers(s) = {input[s][k] : k \in 1 .. Len(input[s])}
    BY <1>4, <2>1, NumbersOfFile
  <2>5. ASSUME NEW m \in Numbers(s)
        PROVE  input[s][1] <= m
    <3>1. PICK k \in 1 .. Len(input[s]) : m = input[s][k]
      BY <2>4
    <3>2. 1 <= k
      BY <2>2
    <3> QED
      BY <2>2, <2>3, <3>1, <3>2
  <2> QED
    BY <2>1, <2>3, <2>4, <2>5
<1>7. Used = {At(k) : k \in Turns} /\ master \in Used /\ master \in Streams
  BY <1>4, StreamOfTurn
<1>8. first \in Numbers(master) /\ \A m \in Numbers(master) : first <= m
  BY <1>6, <1>7
<1>9. Numbers(master) \subseteq Nat
  BY <1>4, <1>7, NumbersOfFile
<1>10. ASSUME NEW k \in Turns
       PROVE  /\ ~ alg'[At(k)].eof /\ alg'[At(k)].current = first
              /\ alg'[At(k)].first = Invalid
  <2>1. input[At(k)][1] = first
    <3>1. /\ input[At(k)][1] \in Numbers(master) /\ input[At(k)][1] <= first
          /\ first <= input[At(k)][1]
      BY <1>6, <1>7, <1>8
    <3> QED
      BY <1>8, <1>9, <3>1
  <2> QED
    BY <1>4, <2>1
<1>11. Target' = first
  BY <1>4, <1>10 DEF Target
<1>12. ASSUME NEW k \in Turns
       PROVE  InStep(k)'
  <2>1. At(k)' = At(k) /\ k \in Nat
    BY <1>4
  <2>2. ~ Behind(k)' /\ ~ (pc' = "find")
    <3>1. turn' = 0 /\ pc' = "process" /\ ~ (k < 0)
      BY <1>4, <2>1
    <3> QED
      BY <3>1 DEF Behind
  <2>3. Constant(k)'
    BY <1>10, <2>1 DEF Constant
  <2> QED
    BY <1>10, <1>11, <2>1, <2>2, <2>3 DEF InStep
<1>13. Numbers(master)' = Numbers(master)
  BY <1>4 DEF Numbers
<1>14. AllBefore(Target)'
  <2>1. ASSUME NEW m \in Numbers(master), m < first
        PROVE  FALSE
    BY <1>8, <1>9, <2>1
  <2>2. stored' = <<>> /\ DOMAIN stored' = {} /\ master' = master
    BY <1>4
  <2>3. \A m \in Numbers(master)' : ~ (m < Target')
    BY <1>11, <1>13, <2>1
  <2> QED
    BY <2>2, <2>3 DEF AllBefore
<1> QED
  BY <1>4, <1>5, <1>8, <1>11, <1>12, <1>13, <1>14 DEF AgreedInLoop

LEMMA InitAgreed ==
  ASSUME Init
  PROVE  AgreedInv
<1>1. CInv
  BY InitCounted
<1>2. ~ InLoop /\ pc # "finish" /\ ~ eof
  BY DEF Init, InLoop
<1> QED
  BY <1>1, <1>2 DEF AgreedInv, AgreedInLoop, AgreedAllStored

LEMMA NextAgreed ==
  ASSUME AgreedInv, [Next]_vars
  PROVE  AgreedInv'
<1>1. CInv'
  BY NextCounted DEF AgreedInv
<1>2. CASE Run \/ Finish
  <2>1. ~ InLoop' /\ pc' # "finish" /\ (pc' \in {"run", "initialize"} => ~ eof')
    BY <1>2 DEF Run, Finish, UseFout, InLoop, AgreedInv
  <2> QED
    BY <1>1, <2>1 DEF AgreedInv, AgreedInLoop, AgreedAllStored
<1>3. CASE Initialize
  <2>1. pc' \notin {"run", "initialize"}
    BY <1>3 DEF Initialize, UseFout
  <2> QED
    BY <1>1, <1>3, <2>1, InitializeAgreed DEF AgreedInv
<1>4. CASE Process \/ FindNext \/ Build
  <2>1. pc' \notin {"run", "initialize"}
    BY <1>4, OthersUntouched DEF AgreedInv, CInv, InLoop
  <2> QED
    BY <1>1, <1>4, <2>1, TurnAgreed DEF AgreedInv
<1>5. CASE NextAlgo \/ Check
  <2>1. pc' \notin {"run", "initialize"}
    BY <1>5 DEF NextAlgo, Check
  <2> QED
    BY <1>1, <1>5, <2>1, BetweenAgreed DEF AgreedInv
<1>6. CASE Store
  <2>1. pc' \notin {"run", "initialize"}
    BY <1>6 DEF Store
  <2> QED
    BY <1>1, <1>6, <2>1, StoreAgreed DEF AgreedInv
<1>7. CASE UNCHANGED vars
  <2>1. UNCHANGED <<input, setup, pc, turn, status, eof, id, alg, out, stored>>
    BY <1>7 DEF vars, job
  <2>2. /\ Turns' = Turns /\ InLoop' = InLoop /\ \A k \in Turns : At(k)' = At(k)
        /\ Target' = Target /\ Used' = Used
    BY <2>1 DEF Turns, InLoop, At, Slaves, master, Target, Used
  <2>3. /\ \A s : Numbers(s)' = Numbers(s)
        /\ \A s, m : Entries(s, m)' = Entries(s, m)
    BY <2>1 DEF Numbers, Entries
  <2>4. /\ Agree' <=> Agree
        /\ master' = master /\ Numbers(master)' = Numbers(master)
        /\ \A n : LastIs(master, n)' <=> LastIs(master, n)
        /\ \A n : AllBefore(n)' <=> AllBefore(n)
    BY <2>1, AgreeKept
  <2>5. \A k \in Turns : InStep(k) => InStep(k)'
    <3>1. ASSUME NEW k \in Turns
          PROVE  InStep(k) => InStep(k)'
      <4>1. /\ Held(k)' <=> Held(k)
            /\ Ahead(k)' <=> Ahead(k)
            /\ Behind(k)' <=> Behind(k)
            /\ At(k)' = At(k)
        BY <2>1, <2>2 DEF Held, Ahead, Behind
      <4>2. Constant(k) => Constant(k)'
        BY <2>1, <2>3, <4>1 DEF Constant
      <4>3. Following(At(k), alg[At(k)], id) => Following(At(k), alg[At(k)], id)'
        BY <2>1, <2>3, <4>1 DEF Following, LastIs, NextIs
      <4> QED
        BY <2>1, <2>2, <4>1, <4>2, <4>3 DEF InStep
    <3> QED
      BY <3>1
  <2>6. AgreedInLoop'
    <3>1. LastIs(master, id) => LastIs(master, id)'
      BY <2>1, <2>4 DEF LastIs
    <3>2. AllBefore(Target) => AllBefore(Target)'
      BY <2>1, <2>2, <2>4 DEF AllBefore
    <3> QED
      BY <2>1, <2>2, <2>4, <2>5, <3>1, <3>2 DEF AgreedInv, AgreedInLoop
  <2>7. AgreedAllStored'
    BY <2>1, <2>2, <2>3, <2>4 DEF AgreedInv, AgreedAllStored, Whole
  <2> QED
    BY <1>1, <2>1, <2>6, <2>7 DEF AgreedInv
<1> QED
  BY <1>2, <1>3, <1>4, <1>5, <1>6, <1>7 DEF Next

\* When the streams have the same events, each with as many modules, the loop ends
\* in success and every event has been stored whole, whatever their number and
\* however the last entries and the ends of the files fall.
THEOREM AgreedAllStoredAlways == Spec => []AgreedAllStored
<1>1. Init => AgreedInv
  BY InitAgreed
<1>2. AgreedInv /\ [Next]_vars => AgreedInv'
  BY NextAgreed
<1>3. AgreedInv => AgreedAllStored
  BY DEF AgreedInv
<1> QED
  BY <1>1, <1>2, <1>3, PTL DEF Spec
================================================================================
