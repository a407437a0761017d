---------------------------- MODULE MCEventBuilder ----------------------------
(* Inputs and programs for TLC: files of up to three entries for two streams,  *)
(* with repeated and missing numbers, shorter files for three streams.         *)
EXTENDS EventBuilder

Nondecreasing(f) == \A j, k \in DOMAIN f : j <= k => f[j] <= f[k]
FilesOf(numbers, length) ==
  {f \in UNION {[1 .. n -> 1 .. numbers] : n \in 0 .. length} : Nondecreasing(f)}

File(t, p, q) == [s \in Streams |-> CASE s = Trigger -> t [] s = PMT -> p [] OTHER -> q]

Long == FilesOf(3, 3)
Short == FilesOf(2, 2) \union {<<1, 1, 2>>, <<1, 2, 2>>}

PairInputs ==
  {File(x, y, <<>>) : x \in Long, y \in Long}
    \union {File(x, <<>>, y) : x \in Long, y \in Long}
    \union {File(<<>>, x, y) : x \in Long, y \in Long}
TripleInputs == {File(x, y, z) : x \in Short \ {<<>>}, y \in Short \ {<<>>}, z \in Short \ {<<>>}}

Setup(order, m) == [master |-> m, given |-> m \in Range(order),
                    slaves |-> SelectSeq(order, LAMBDA s : s # m)]
Orders == {<<Trigger>>, <<TPC>>, <<PMT>>, <<Trigger, PMT>>, <<TPC, Trigger>>,
           <<PMT, TPC>>, <<Trigger, PMT, TPC>>, <<TPC, PMT, Trigger>>}
AllSetups == {Setup(o, m) : o \in Orders, m \in Streams}
AllInputs == PairInputs \union TripleInputs
===============================================================================
