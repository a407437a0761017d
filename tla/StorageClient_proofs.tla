------------------------- MODULE StorageClient_proofs -------------------------
(***************************************************************************)
(* What storage_manager does with the events it is given, for any input    *)
(* files, product types and programs.                                      *)
(*                                                                         *)
(* The first part is about counters and lengths: in BOTH mode each event   *)
(* read is written once, and close() leaves in the output file what was    *)
(* written.  The second is about the entries themselves: the loop stays    *)
(* inside the chains, and neither the products that are read nor the ones  *)
(* that are written together are of different events.                      *)
(*                                                                         *)
(* The functions of storage_manager are operators on its record, so each   *)
(* has a lemma of its own in either part, which the steps of the program   *)
(* then cite.                                                              *)
(***************************************************************************)
EXTENDS StorageClient, SequenceLemmas

Members == DOMAIN InitStorage

\* A product with an output tree has its buffer; a closed object has no trees.
Good(s) ==
  /\ DOMAIN s = Members
  /\ s.status \in OpenStatus \cup {"INIT", "CLOSED"}
  /\ s.nread \in Nat /\ s.nwritten \in Nat
  /\ s.reads \subseteq DataTypes /\ s.writes \subseteq DataTypes
  /\ s.trees \subseteq DataTypes /\ s.trees \subseteq s.held
  /\ DOMAIN s.out = DataTypes /\ DOMAIN s.disk = DataTypes
  /\ ~IsOpen(s) => s.trees = {} /\ s.out = NoTrees

\* Each tree has an entry per event written since it was made.
Counted(s, since) ==
  \A t \in s.trees : IsSequence(s.out[t]) /\ Len(s.out[t]) + since[t] = s.nwritten

SInv ==
  /\ Good(st) /\ st.status # "OPENED"
  /\ late \in [DataTypes -> Nat]
  /\ opens \in 0 .. MaxOpens
  /\ IsOpen(st) => loop # "set"
  /\ Counted(st, late)
  /\ WrittenAsRead

-------------------------------------------------------------------------------
(* close() and reset()                                                     *)

LEMMA CloseLemma ==
  ASSUME NEW s, Good(s)
  PROVE  /\ Good(Close(s)) /\ Close(s).status = "CLOSED" /\ ~IsOpen(Close(s))
         /\ IsOpen(s) => Close(s).disk = WrittenOut(s)
<1>1. DOMAIN WrittenOut(s) = DataTypes
  BY DEF WrittenOut, Good
<1>. QED
  BY <1>1 DEF Good, Close, IsOpen, OpenStatus, NoTrees, Members, InitStorage

LEMMA ResetLemma ==
  ASSUME NEW s, Good(s)
  PROVE  /\ Good(ResetStorage(s)) /\ ResetStorage(s).status = "INIT"
         /\ ~IsOpen(ResetStorage(s))
         /\ IsOpen(s) => ResetStorage(s).disk = WrittenOut(s)
<1>. DEFINE closed == IF IsOpen(s) THEN Close(s) ELSE s
<1>1. DOMAIN closed.disk = DataTypes /\ (IsOpen(s) => closed.disk = WrittenOut(s))
  BY CloseLemma DEF Good
<1>2. ResetStorage(s) =
        [InitStorage EXCEPT !.outName = s.outName, !.check = s.check,
                            !.fout = closed.fout, !.disk = closed.disk]
  BY DEF ResetStorage
<1>. HIDE DEF closed
<1>. QED
  BY <1>1, <1>2 DEF Good, IsOpen, OpenStatus, NoTrees, Members, InitStorage

-------------------------------------------------------------------------------
(* open()                                                                  *)

LEMMA PrepareLemma ==
  ASSUME NEW s, Good(s), s.status = "OPENED", s.trees = {}, s.out = NoTrees
  PROVE  LET p == PrepareTree(s)
         IN /\ Good(p) /\ p.status \in {"CLOSED", "READY_IO"}
            /\ IsOpen(p) => /\ p.nread = 0 /\ p.nwritten = 0 /\ p.out = NoTrees
<1>. DEFINE reading == IF s.mode = "WRITE" THEN {} ELSE s.reads
            chain == [t \in DataTypes |-> IF t \in reading THEN ChainOf(s, t) ELSE s.chain[t]]
            found == {t \in reading : chain[t] # <<>>}
            writes == IF s.mode = "BOTH" THEN (s.writes \ reading) \union found ELSE s.writes
            made == IF s.mode = "READ" THEN {} ELSE writes
            nevents == EventsToRead(s, {Len(chain[t]) : t \in found})
            prepared ==
              [s EXCEPT !.chain = chain, !.writes = writes,
                        !.held = @ \union found \union made,
                        !.trees = @ \union made,
                        !.nevents = nevents,
                        !.index = 0, !.nread = 0, !.nwritten = 0]
<1>1. writes \subseteq DataTypes /\ made \subseteq DataTypes
  BY DEF Good
<1>. HIDE DEF chain, found, writes, made, nevents
<1>2. Good(prepared) /\ IsOpen(prepared) /\ prepared.out = NoTrees
        /\ prepared.nread = 0 /\ prepared.nwritten = 0
  BY <1>1 DEF Good, Members, InitStorage, IsOpen, OpenStatus
<1>3. PrepareTree(s) = IF s.mode # "WRITE" /\ prepared.nevents = 0
                       THEN [Close(prepared) EXCEPT !.ret = FALSE]
                       ELSE [prepared EXCEPT !.status = "READY_IO", !.ret = TRUE]
  BY DEF PrepareTree, chain, found, writes, made, nevents
<1>4. Good(Close(prepared)) /\ Close(prepared).status = "CLOSED"
  BY <1>2, CloseLemma
<1>. HIDE DEF prepared
<1>5. CASE s.mode # "WRITE" /\ prepared.nevents = 0
  <2>. DEFINE c == Close(prepared)
  <2>1. PrepareTree(s) = [c EXCEPT !.ret = FALSE]
    BY <1>3, <1>5
  <2>2. Good(c) /\ c.status = "CLOSED"
    BY <1>4
  <2>. HIDE DEF c
  <2>. QED
    BY <2>1, <2>2 DEF Good, Members, InitStorage, IsOpen, OpenStatus
<1>6. CASE ~(s.mode # "WRITE" /\ prepared.nevents = 0)
  <2>1. PrepareTree(s) = [prepared EXCEPT !.status = "READY_IO", !.ret = TRUE]
    BY <1>3, <1>6
  <2>. QED
    BY <1>2, <2>1 DEF Good, Members, InitStorage, IsOpen, OpenStatus
<1>. QED
  BY <1>5, <1>6

\* Either nothing is opened, or an event loop starts from nothing.
LEMMA OpenLemma ==
  ASSUME NEW s, Good(s), ~IsOpen(s), NEW creatable \in BOOLEAN
  PROVE  LET p == Open(s, creatable)
         IN /\ Good(p) /\ p.status # "OPENED"
            /\ IsOpen(p) => /\ p.nread = 0 /\ p.nwritten = 0 /\ p.out = NoTrees
<1>. DEFINE input == s.mode \in {"READ", "BOTH"}
            output == s.mode \in {"WRITE", "BOTH"}
            opened == IF ~output THEN s
                      ELSE IF creatable THEN [s EXCEPT !.fout = TRUE, !.disk = NoTrees]
                      ELSE [s EXCEPT !.fout = FALSE]
            ready == [opened EXCEPT !.status = "OPENED"]
<1>1. Good(opened) /\ ~IsOpen(opened) /\ opened.status # "OPENED"
  BY DEF Good, Members, InitStorage, IsOpen, OpenStatus, NoTrees
<1>2. Open(s, creatable) \in {[s EXCEPT !.ret = FALSE], [opened EXCEPT !.ret = FALSE],
                              PrepareTree(ready)}
  BY DEF Open
<1>. HIDE DEF opened
<1>3. Good([s EXCEPT !.ret = FALSE]) /\ ~IsOpen([s EXCEPT !.ret = FALSE])
        /\ [s EXCEPT !.ret = FALSE].status # "OPENED"
  BY DEF Good, Members, InitStorage, IsOpen, OpenStatus
<1>4. Good([opened EXCEPT !.ret = FALSE]) /\ ~IsOpen([opened EXCEPT !.ret = FALSE])
        /\ [opened EXCEPT !.ret = FALSE].status # "OPENED"
  BY <1>1 DEF Good, Members, InitStorage, IsOpen, OpenStatus
<1>5. Good(ready) /\ ready.status = "OPENED" /\ ready.trees = {} /\ ready.out = NoTrees
  BY <1>1 DEF Good, Members, InitStorage, IsOpen, OpenStatus
<1>. HIDE DEF ready
<1>. QED
  BY <1>2, <1>3, <1>4, <1>5, PrepareLemma

-------------------------------------------------------------------------------
(* next_event(), go_to() and get_data()                                    *)

LEMMA WriteLemma ==
  ASSUME NEW s, Good(s), NEW since \in [DataTypes -> Nat], Counted(s, since)
  PROVE  LET w == WriteEvent(s)
         IN /\ Good(w) /\ Counted(w, since) /\ w.status = s.status /\ w.mode = s.mode
            /\ w.nwritten = s.nwritten + 1 /\ w.nread = s.nread
<1>. DEFINE w == WriteEvent(s)
<1>1. /\ DOMAIN w = Members /\ w.trees = s.trees /\ w.nwritten = s.nwritten + 1
      /\ w.out = [t \in DataTypes |->
                    IF t \in s.trees THEN Append(s.out[t], s.ptr[t]) ELSE s.out[t]]
      /\ \A f \in {"status", "mode", "nread", "reads", "writes", "held", "disk"} :
           w[f] = s[f]
  BY DEF WriteEvent, Good, Members, InitStorage
<1>. HIDE DEF w
<1>2. Good(w)
  BY <1>1 DEF Good, IsOpen, NoTrees
<1>3. ASSUME NEW t \in w.trees
      PROVE  IsSequence(w.out[t]) /\ Len(w.out[t]) + since[t] = w.nwritten
  <2>1. t \in s.trees /\ t \in DataTypes /\ w.out[t] = Append(s.out[t], s.ptr[t])
    BY <1>1 DEF Good
  <2>2. IsSequence(s.out[t]) /\ Len(s.out[t]) + since[t] = s.nwritten
    BY <2>1 DEF Counted
  <2>3. /\ IsSequence(w.out[t])
        /\ Len(w.out[t]) = Len(s.out[t]) + 1 /\ Len(s.out[t]) \in Nat
    BY <2>1, <2>2, Appended
  <2>4. since[t] \in Nat /\ s.nwritten \in Nat
    BY <2>1 DEF Good
  <2>. QED
    BY <1>1, <2>2, <2>3, <2>4
<1>. QED
  BY <1>1, <1>2, <1>3 DEF Counted, w

LEMMA ReadLemma ==
  ASSUME NEW s, Good(s)
  PROVE  LET r == ReadEvent(s)
         IN /\ Good(r) /\ r.status = s.status /\ r.mode = s.mode
            /\ r.trees = s.trees /\ r.out = s.out /\ r.nwritten = s.nwritten
            /\ \/ r.ret = TRUE /\ r.nread = s.nread + 1
               \/ r.ret = FALSE /\ r.nread = s.nread
<1>. DEFINE bad == Misaligned(s)
            read == IF s.mode = "READ" THEN Chained(s) \intersect {EVENT}
                    ELSE {t \in Chained(s) : \A b \in bad : t <= b}
            named == IF s.mode = "READ" THEN read
                     ELSE IF s.check THEN Chained(s) \intersect s.reads ELSE {}
            id == IF named = {} THEN NoId ELSE EventId[Entry(s, Min(named))]
            buffers == Loaded(s, read)
            loaded == [s EXCEPT !.ptr = buffers, !.curId = id]
<1>1. ReadEvent(s) = IF s.index >= s.nevents THEN [s EXCEPT !.ret = FALSE]
                     ELSE IF s.mode = "BOTH" /\ bad # {} THEN [loaded EXCEPT !.ret = FALSE]
                     ELSE [loaded EXCEPT !.index = @ + 1, !.nread = @ + 1, !.ret = TRUE]
  BY DEF ReadEvent
<1>. HIDE DEF bad, buffers, id
<1>. QED
  BY <1>1 DEF Good, Members, InitStorage, IsOpen

\* What an event of the loop does to the counters in BOTH mode.
ReadOn(s, n) ==
  /\ n.nwritten = IF s.nread > 0 THEN s.nwritten + 1 ELSE s.nwritten
  /\ \/ n.ret = TRUE /\ n.nread = s.nread + 1
     \/ n.ret = FALSE /\ n.nread = s.nread

Refused(s, n) == n.ret = FALSE /\ n.nread = s.nread /\ n.nwritten = s.nwritten

\* One event of a loop: what was read last is written, then the next is read.
LEMMA NextEventLemma ==
  ASSUME NEW s, Good(s), NEW since \in [DataTypes -> Nat], Counted(s, since),
         s.status # "OPENED"
  PROVE  LET n == NextEvent(s)
         IN /\ Good(n) /\ Counted(n, since) /\ n.mode = s.mode /\ n.status # "OPENED"
            /\ IsOpen(n) = IsOpen(s)
            /\ IsOpen(s) /\ s.mode = "BOTH" => ReadOn(s, n)
<1>. DEFINE op == [s EXCEPT !.status = "OPERATING"]
            n == NextEvent(s)
<1>1. CASE s.status \notin {"READY_IO", "OPERATING"}
  <2>1. n = [s EXCEPT !.ret = FALSE]
    BY <1>1 DEF NextEvent
  <2>. QED
    BY <1>1, <2>1 DEF Good, Counted, Members, InitStorage, IsOpen, OpenStatus
<1>2. CASE s.status \in {"READY_IO", "OPERATING"}
  <2>1. /\ Good(op) /\ Counted(op, since) /\ op.mode = s.mode /\ op.status = "OPERATING"
        /\ op.nread = s.nread /\ op.nwritten = s.nwritten
    BY <1>2 DEF Good, Counted, Members, InitStorage, IsOpen, OpenStatus
  <2>2. n = CASE s.mode = "READ" -> ReadEvent(op)
              [] s.mode = "WRITE" -> WriteEvent(op)
              [] s.mode = "BOTH" -> ReadEvent(IF s.nread > 0 THEN WriteEvent(op) ELSE op)
              [] OTHER -> [op EXCEPT !.ret = TRUE]
    BY <1>2, <2>1 DEF NextEvent
  <2>. HIDE DEF op, n
  <2>3. CASE s.mode = "READ"
    <3>1. n = ReadEvent(op)
      BY <2>2, <2>3
    <3>2. Good(n) /\ Counted(n, since) /\ n.mode = s.mode /\ n.status = "OPERATING"
      BY <2>1, <3>1, ReadLemma DEF Counted
    <3>. QED
      BY <1>2, <2>3, <3>2 DEF IsOpen, OpenStatus, n
  <2>4. CASE s.mode = "WRITE"
    BY <1>2, <2>1, <2>2, <2>4, WriteLemma DEF IsOpen, OpenStatus, n
  <2>5. CASE s.mode = "BOTH"
    <3>. DEFINE w == IF s.nread > 0 THEN WriteEvent(op) ELSE op
    <3>1. /\ Good(w) /\ Counted(w, since) /\ w.mode = s.mode /\ w.status = "OPERATING"
          /\ w.nread = s.nread
          /\ w.nwritten = IF s.nread > 0 THEN s.nwritten + 1 ELSE s.nwritten
      BY <2>1, WriteLemma
    <3>2. n = ReadEvent(w)
      BY <2>2, <2>5
    <3>. HIDE DEF w
    <3>3. Good(n) /\ Counted(n, since) /\ n.mode = s.mode /\ n.status = "OPERATING"
      BY <3>1, <3>2, ReadLemma DEF Counted
    <3>4. ReadOn(s, n)
      BY <3>1, <3>2, ReadLemma DEF ReadOn
    <3>. QED
      BY <1>2, <3>3, <3>4 DEF IsOpen, OpenStatus, n
  <2>6. CASE s.mode \notin {"READ", "WRITE", "BOTH"}
    <3>1. n = [op EXCEPT !.ret = TRUE]
      BY <2>2, <2>6
    <3>. QED
      BY <1>2, <2>1, <2>6, <3>1
         DEF Good, Counted, Members, InitStorage, IsOpen, OpenStatus, n
  <2>. QED
    BY <2>3, <2>4, <2>5, <2>6
<1>. QED
  BY <1>1, <1>2

\* A refused position leaves everything as it is; the loop ends there.
LEMMA GoToLemma ==
  ASSUME NEW s, Good(s), NEW since \in [DataTypes -> Nat], Counted(s, since),
         s.status # "OPENED", NEW i
  PROVE  LET n == GoTo(s, i)
         IN /\ Good(n) /\ Counted(n, since) /\ n.mode = s.mode /\ n.status # "OPENED"
            /\ IsOpen(n) = IsOpen(s)
            /\ IsOpen(s) /\ s.mode = "BOTH" => Refused(s, n) \/ ReadOn(s, n)
<1>. DEFINE refused == [s EXCEPT !.ret = FALSE]
            moved == [s EXCEPT !.index = i]
            n == GoTo(s, i)
<1>1. /\ Good(refused) /\ Counted(refused, since) /\ refused.mode = s.mode
      /\ refused.status = s.status /\ Refused(s, refused)
  BY DEF Refused, Good, Counted, Members, InitStorage, IsOpen, OpenStatus
<1>2. /\ Good(moved) /\ Counted(moved, since) /\ moved.mode = s.mode
      /\ moved.status = s.status
      /\ moved.nread = s.nread /\ moved.nwritten = s.nwritten
  BY DEF Good, Counted, Members, InitStorage, IsOpen, OpenStatus
<1>3. n = refused \/ n = NextEvent(moved)
  BY DEF GoTo
<1>. HIDE DEF refused, moved, n
<1>4. CASE n = refused
  BY <1>1, <1>4 DEF IsOpen, n
<1>5. CASE n = NextEvent(moved)
  <2>1. IsOpen(moved) = IsOpen(s)
    BY <1>2 DEF IsOpen
  <2>2. /\ Good(n) /\ Counted(n, since) /\ n.mode = s.mode /\ n.status # "OPENED"
        /\ IsOpen(n) = IsOpen(s)
        /\ IsOpen(s) /\ s.mode = "BOTH" => ReadOn(moved, n)
    BY <1>2, <1>5, <2>1, NextEventLemma
  <2>3. ReadOn(moved, n) => ReadOn(s, n)
    BY <1>2 DEF ReadOn
  <2>. QED
    BY <2>2, <2>3 DEF n
<1>. QED
  BY <1>3, <1>4, <1>5

\* What loading a buffer leaves alone.
Keeps(s, g) ==
  /\ DOMAIN g = DOMAIN s
  /\ \A f \in {"status", "mode", "nread", "nwritten", "reads", "writes",
               "trees", "held", "out", "disk"} : g[f] = s[f]

LEMMA FetchLemma ==
  ASSUME NEW s, Good(s), NEW t \in DataTypes
  PROVE  Keeps(s, Fetch(s, t))
<1>. DEFINE e == s.chain[t][s.index]
            fetched == [s EXCEPT !.ptr[t] = e, !.ret = TRUE]
<1>1. Fetch(s, t) \in {fetched, [fetched EXCEPT !.curId = EventId[e]],
                       [fetched EXCEPT !.ret = (EventId[e] = s.curId)]}
  BY DEF Fetch
<1>. HIDE DEF e
<1>2. Keeps(s, fetched)
  BY DEF Keeps, Good, Members, InitStorage
<1>. HIDE DEF fetched
<1>3. /\ Keeps(s, [fetched EXCEPT !.curId = EventId[e]])
      /\ Keeps(s, [fetched EXCEPT !.ret = (EventId[e] = s.curId)])
  BY <1>2 DEF Keeps, Good, Members, InitStorage
<1>. QED
  BY <1>1, <1>2, <1>3

\* A product that get_data() makes begins with no entry.
LEMMA GetDataLemma ==
  ASSUME NEW s, Good(s), IsOpen(s), NEW t \in DataTypes
  PROVE  LET g == GetData(s, t)
         IN /\ Good(g) /\ g.mode = s.mode /\ g.status = s.status
            /\ g.nread = s.nread /\ g.nwritten = s.nwritten
            /\ s.trees \subseteq g.trees /\ g.trees \subseteq s.trees \cup {t}
            /\ \A u \in g.trees :
                 g.out[u] = IF u \in s.trees THEN s.out[u] ELSE <<>>
<1>. DEFINE g == GetData(s, t)
            c == CreateProduct(s, t)
            made == [s EXCEPT !.held = @ \union {t}, !.trees = @ \union {t},
                              !.writes = @ \union {t}, !.ptr[t] = Cleared, !.out[t] = <<>>]
<1>1. /\ Good(made) /\ made.mode = s.mode /\ made.status = s.status
      /\ made.nread = s.nread /\ made.nwritten = s.nwritten
      /\ made.trees = s.trees \union {t}
      /\ made.out = [s.out EXCEPT ![t] = <<>>]
  BY DEF Good, Members, InitStorage, IsOpen
<1>2. c = s \/ (t \notin s.trees /\ c = made)
  BY DEF CreateProduct, Good
<1>. HIDE DEF made
<1>3. /\ Good(c) /\ c.mode = s.mode /\ c.status = s.status
      /\ c.nread = s.nread /\ c.nwritten = s.nwritten
      /\ s.trees \subseteq c.trees /\ c.trees \subseteq s.trees \cup {t}
      /\ \A u \in c.trees : c.out[u] = IF u \in s.trees THEN s.out[u] ELSE <<>>
  BY <1>1, <1>2 DEF Good
<1>4. g \in {[s EXCEPT !.ret = FALSE], Fetch(s, t), [c EXCEPT !.ret = (t \in c.held)]}
  BY DEF GetData
<1>. HIDE DEF c, g
<1>5. Keeps(s, [s EXCEPT !.ret = FALSE]) /\ Keeps(c, [c EXCEPT !.ret = (t \in c.held)])
  BY <1>3 DEF Keeps, Good, Members, InitStorage
<1>6. Keeps(s, g) \/ Keeps(c, g)
  BY <1>4, <1>5, FetchLemma
<1>7. CASE Keeps(s, g)
  BY <1>7 DEF Keeps, Good, IsOpen, g
<1>8. CASE Keeps(c, g)
  BY <1>3, <1>8 DEF Keeps, Good, IsOpen, g
<1>. QED
  BY <1>6, <1>7, <1>8

-------------------------------------------------------------------------------
(* The steps of the program.                                               *)

LEMMA InitStep == Init => SInv
BY SessionsAssumption
   DEF Init, SInv, Good, Members, InitStorage, IsOpen, OpenStatus, NoTrees, Counted,
       WrittenAsRead

\* Where no file is open there is nothing to say.
LEMMA ClosedHolds ==
  ASSUME NEW s, Good(s), ~IsOpen(s), NEW since
  PROVE  Counted(s, since)
BY DEF Good, Counted

LEMMA ConfigureStep ==
  ASSUME SInv,
         NEW m \in Modes, NEW l \in InLists(opens), NEW r \in ReadSets(opens),
         NEW a \in BOOLEAN, NEW n \in BOOLEAN, Configure(m, l, r, a, n)
  PROVE  SInv'
<1>1. Good(st') /\ ~IsOpen(st') /\ st'.status # "OPENED"
  <2>1. r \subseteq DataTypes
    BY SessionsAssumption DEF SInv
  <2>. QED
    BY <2>1 DEF Configure, SInv, Good, Members, InitStorage, IsOpen, OpenStatus
<1>2. UNCHANGED <<late, opens>>
  BY DEF Configure
<1>. QED
  BY <1>1, <1>2, ClosedHolds DEF SInv, WrittenAsRead

LEMMA OpenStep ==
  ASSUME SInv, NEW b \in BOOLEAN, OpenFile(b)
  PROVE  SInv'
<1>1. /\ st' = Open(st, b) /\ Good(st') /\ st'.status # "OPENED"
      /\ IsOpen(st') => st'.nread = 0 /\ st'.nwritten = 0 /\ st'.out = NoTrees
  BY OpenLemma DEF SInv, OpenFile
<1>2. /\ opens' \in 0 .. MaxOpens /\ loop' = "running"
      /\ late' = [t \in DataTypes |-> 0]
  BY SessionsAssumption DEF SInv, OpenFile
<1>3. Counted(st', late')
  <2>1. CASE IsOpen(st')
    <3>1. ASSUME NEW t \in st'.trees
          PROVE  st'.out[t] = <<>> /\ late'[t] = 0 /\ st'.nwritten = 0
      BY <1>1, <1>2, <2>1 DEF Good, NoTrees
    <3>. QED
      BY <3>1, EmptySequence DEF Counted
  <2>2. CASE ~IsOpen(st')
    BY <1>1, <2>2, ClosedHolds
  <2>. QED
    BY <2>1, <2>2
<1>4. WrittenAsRead'
  BY <1>1, <1>2 DEF WrittenAsRead
<1>. QED
  BY <1>1, <1>2, <1>3, <1>4 DEF SInv

LEMMA NextEventStep ==
  ASSUME SInv, NextEventCall
  PROVE  SInv' /\ (IsOpen(st) => IsOpen(st'))
<1>1. /\ st' = NextEvent(st) /\ IsOpen(st) /\ loop = "running"
      /\ loop' = IF st'.ret THEN "running" ELSE "next_event"
      /\ UNCHANGED <<late, opens>>
  BY DEF NextEventCall, Looping
<1>2. /\ Good(st') /\ Counted(st', late') /\ st'.mode = st.mode
      /\ st'.status # "OPENED" /\ IsOpen(st')
      /\ st.mode = "BOTH" => ReadOn(st, st')
  BY <1>1, NextEventLemma DEF SInv
<1>3. WrittenAsRead'
  <2>. SUFFICES ASSUME st.mode = "BOTH"
       PROVE  /\ st'.nread - st'.nwritten \in {0, 1}
              /\ loop' = "running" /\ st'.nread > 0 => st'.nread = st'.nwritten + 1
              /\ loop' = "next_event" => st'.nread = st'.nwritten
    BY <1>2 DEF WrittenAsRead
  <2>1. st.nread \in Nat /\ st.nwritten \in Nat
    BY DEF SInv, Good
  <2>2. /\ st.nread - st.nwritten \in {0, 1}
        /\ st.nread > 0 => st.nread = st.nwritten + 1
    BY <1>1 DEF SInv, WrittenAsRead
  <2>. QED
    BY <1>1, <1>2, <2>1, <2>2 DEF ReadOn, Refused
<1>. QED
  BY <1>1, <1>2, <1>3 DEF SInv

LEMMA GoToStep ==
  ASSUME SInv, NEW i, GoToCall(i)
  PROVE  SInv' /\ (IsOpen(st) => IsOpen(st'))
<1>1. /\ st' = GoTo(st, i) /\ IsOpen(st) /\ loop = "running"
      /\ loop' = IF st'.ret THEN "running" ELSE "go_to"
      /\ UNCHANGED <<late, opens>>
  BY DEF GoToCall, Looping
<1>2. /\ Good(st') /\ Counted(st', late') /\ st'.mode = st.mode
      /\ st'.status # "OPENED" /\ IsOpen(st')
      /\ st.mode = "BOTH" => Refused(st, st') \/ ReadOn(st, st')
  BY <1>1, GoToLemma DEF SInv
<1>3. WrittenAsRead'
  <2>. SUFFICES ASSUME st.mode = "BOTH"
       PROVE  /\ st'.nread - st'.nwritten \in {0, 1}
              /\ loop' = "running" /\ st'.nread > 0 => st'.nread = st'.nwritten + 1
              /\ loop' = "next_event" => st'.nread = st'.nwritten
    BY <1>2 DEF WrittenAsRead
  <2>1. st.nread \in Nat /\ st.nwritten \in Nat
    BY DEF SInv, Good
  <2>2. /\ st.nread - st.nwritten \in {0, 1}
        /\ st.nread > 0 => st.nread = st.nwritten + 1
    BY <1>1 DEF SInv, WrittenAsRead
  <2>. QED
    BY <1>1, <1>2, <2>1, <2>2 DEF ReadOn, Refused
<1>. QED
  BY <1>1, <1>2, <1>3 DEF SInv

\* Filling a product touches its buffer only.
LEMMA GetDataStep ==
  ASSUME SInv, NEW t \in DataTypes, NEW fills \in BOOLEAN, GetDataCall(t, fills)
  PROVE  SInv' /\ (IsOpen(st) => IsOpen(st'))
<1>. DEFINE g == GetData(st, t)
<1>1. /\ IsOpen(st) /\ loop = "running"
      /\ st' = g \/ st' = [g EXCEPT !.ptr[t] = CurrentEvent]
      /\ late' = IF t \in g.trees \ st.trees THEN [late EXCEPT ![t] = st.nwritten] ELSE late
      /\ UNCHANGED <<loop, opens>>
  BY DEF GetDataCall
<1>2. /\ Good(g) /\ g.mode = st.mode /\ g.status = st.status
      /\ g.nread = st.nread /\ g.nwritten = st.nwritten
      /\ st.trees \subseteq g.trees /\ g.trees \subseteq st.trees \cup {t}
      /\ \A u \in g.trees : g.out[u] = IF u \in st.trees THEN st.out[u] ELSE <<>>
  BY <1>1, GetDataLemma DEF SInv
<1>. HIDE DEF g
<1>3. Keeps(g, st')
  BY <1>1, <1>2 DEF Keeps, Good, Members, InitStorage
<1>4. Good(st') /\ st'.status = st.status /\ (IsOpen(st) => IsOpen(st'))
  BY <1>2, <1>3 DEF Keeps, Good, IsOpen
<1>5. late' \in [DataTypes -> Nat]
  BY <1>1 DEF SInv, Good
<1>6. ASSUME NEW u \in st'.trees
      PROVE  IsSequence(st'.out[u]) /\ Len(st'.out[u]) + late'[u] = st'.nwritten
  <2>1. u \in g.trees /\ st'.out[u] = g.out[u] /\ st'.nwritten = st.nwritten
    BY <1>2, <1>3, <1>6 DEF Keeps
  <2>2. CASE u \in st.trees
    <3>1. late'[u] = late[u] /\ st'.out[u] = st.out[u]
      BY <1>1, <1>2, <2>1, <2>2 DEF SInv
    <3>. QED
      BY <2>1, <2>2, <3>1 DEF SInv, Counted
  <2>3. CASE u \notin st.trees
    <3>1. u = t /\ late'[u] = st.nwritten /\ st'.out[u] = <<>>
      BY <1>1, <1>2, <2>1, <2>3 DEF SInv
    <3>2. st.nwritten \in Nat
      BY DEF SInv, Good
    <3>. QED
      BY <2>1, <3>1, <3>2, EmptySequence
  <2>. QED
    BY <2>2, <2>3
<1>7. WrittenAsRead'
  <2>1. st'.mode = st.mode /\ st'.nread = st.nread /\ st'.nwritten = st.nwritten
    BY <1>2, <1>3 DEF Keeps
  <2>. QED
    BY <1>1, <2>1 DEF SInv, WrittenAsRead
<1>. QED
  BY <1>1, <1>4, <1>5, <1>6, <1>7 DEF SInv, Counted

\* The trees go to the file on both ways out.
LEMMA CloseStep ==
  ASSUME SInv, CloseFile \/ ResetCall
  PROVE  /\ SInv' /\ ~IsOpen(st')
         /\ IsOpen(st) => st'.disk = WrittenOut(st)
<1>1. /\ Good(st') /\ st'.status # "OPENED" /\ ~IsOpen(st')
      /\ IsOpen(st) => st'.disk = WrittenOut(st)
  BY CloseLemma, ResetLemma DEF SInv, CloseFile, ResetCall
<1>2. late' \in [DataTypes -> Nat] /\ UNCHANGED opens
  BY DEF SInv, CloseFile, ResetCall
<1>. QED
  BY <1>1, <1>2, ClosedHolds DEF SInv, WrittenAsRead

-------------------------------------------------------------------------------
LEMMA Stepped == SInv /\ [Next]_vars => SInv'
<1>. SUFFICES ASSUME SInv, [Next]_vars PROVE SInv'
  OBVIOUS
<1>1. CASE UNCHANGED vars
  BY <1>1 DEF vars, SInv, Counted, WrittenAsRead
<1>2. CASE Next
  BY <1>2, ConfigureStep, OpenStep, NextEventStep, GoToStep, GetDataStep, CloseStep DEF Next
<1>. QED
  BY <1>1, <1>2

\* In BOTH mode storage_manager writes each event that it has read once, when
\* the next is asked for, whatever go_to() and get_data() calls come between.
THEOREM WrittenAsReadAlways == Spec => []WrittenAsRead
<1>1. SInv => WrittenAsRead
  BY DEF SInv
<1>. QED
  BY <1>1, InitStep, Stepped, PTL DEF Spec

\* close() and reset() leave in the output file, for each tree, an entry per
\* event written since open() or a late get_data() made the tree.
THEOREM FileIsAlwaysComplete == Spec => FileIsComplete
<1>1. SInv /\ [Next]_vars =>
        [st.status = "OPERATING" /\ st.mode # "READ" /\ ~IsOpen(st)'
           => \A t \in st.trees : Len(st'.disk[t]) + late[t] = st.nwritten]_vars
  <2>. SUFFICES ASSUME SInv, Next, st.status = "OPERATING", st.mode # "READ",
                       ~IsOpen(st'), NEW t \in st.trees
                PROVE  Len(st'.disk[t]) + late[t] = st.nwritten
    OBVIOUS
  <2>1. IsOpen(st)
    BY DEF IsOpen, OpenStatus
  <2>2. CloseFile \/ ResetCall
    BY <2>1, NextEventStep, GoToStep, GetDataStep DEF Next, Configure, OpenFile
  <2>3. st'.disk[t] = st.out[t]
    BY <2>1, <2>2, CloseStep DEF WrittenOut, SInv, Good
  <2>. QED
    BY <2>3 DEF SInv, Counted
<1>. QED
  BY <1>1, InitStep, Stepped, PTL DEF Spec, FileIsComplete

-------------------------------------------------------------------------------
(* The contents: of what type they are, and where they come from.          *)

Contents == DOMAIN EventId
Entries == [DataTypes -> Seq(Contents)]

Typed(s) ==
  /\ s.mode \in Modes /\ s.nevents \in Nat /\ s.index \in Nat
  /\ s.chain \in Entries /\ s.out \in Entries /\ s.disk \in Entries
  /\ s.ptr \in [DataTypes -> Contents]
  /\ s.inFiles \in Seq(Range(s.inFiles))

\* Nothing is left in memory when no file is open.
Emptied(s) == s.chain = NoTrees /\ s.ptr = AllCleared /\ s.held = {}

Within(s) ==
  /\ s.index <= s.nevents /\ s.nevents > 0
  /\ \A t \in Chained(s) : s.nevents <= Len(s.chain[t])

\* Which products an open object has.
Provided(s) ==
  /\ s.mode # "UNDEFINED"
  /\ Chained(s) \subseteq s.reads
  /\ s.mode = "READ" => s.held \subseteq Chained(s)
  /\ s.mode = "WRITE" => Chained(s) = {}
  /\ s.mode = "BOTH" => Chained(s) \subseteq s.trees
  /\ s.mode # "WRITE" => Within(s)

Sound(s) ==
  /\ Good(s) /\ Typed(s) /\ s.status # "OPENED"
  /\ IF IsOpen(s) THEN Provided(s) ELSE Emptied(s)

LEMMA ContentTypes ==
  /\ NoTrees \in Entries /\ AllCleared \in [DataTypes -> Contents]
  /\ \A s : s.chain = NoTrees => Chained(s) = {}
<1>1. <<>> \in Seq(Contents)
  OBVIOUS
<1>. QED
  BY <1>1, EventIdAssumption DEF NoTrees, AllCleared, Entries, Contents, Chained

LEMMA InitSound == Sound(InitStorage)
<1>1. <<>> \in Seq(Range(<<>>))
  OBVIOUS
<1>2. Typed(InitStorage)
  BY <1>1, ContentTypes DEF InitStorage, Typed, Modes
<1>3. Good(InitStorage)
  BY DEF InitStorage, Good, Members, IsOpen, OpenStatus, NoTrees
<1>. QED
  BY <1>2, <1>3 DEF InitStorage, Sound, Emptied, IsOpen, OpenStatus

LEMMA CloseSound ==
  ASSUME NEW s, Good(s), Typed(s), IsOpen(s) \/ Emptied(s)
  PROVE  Sound(Close(s)) /\ ~IsOpen(Close(s)) /\ Emptied(Close(s))
         /\ (IsOpen(s) => Close(s).trees = {})
<1>. DEFINE c == Close(s)
<1>1. WrittenOut(s) \in Entries
  <2>1. ASSUME NEW t \in DataTypes
        PROVE  (IF t \in s.trees THEN s.out[t] ELSE s.disk[t]) \in Seq(Contents)
    BY DEF Typed, Entries
  <2>2. [t \in DataTypes |-> IF t \in s.trees THEN s.out[t] ELSE s.disk[t]] \in Entries
    BY <2>1 DEF Entries
  <2>. QED
    BY <2>2 DEF WrittenOut, Typed
<1>2. Good(c) /\ c.status = "CLOSED" /\ ~IsOpen(c)
  BY CloseLemma
<1>3. Typed(c) /\ Emptied(c) /\ (IsOpen(s) => c.trees = {})
  <2>1. CASE IsOpen(s)
    <3>1. /\ c.mode = s.mode /\ c.nevents = s.nevents /\ c.index = s.index
          /\ c.chain = NoTrees /\ c.out = NoTrees /\ c.disk = WrittenOut(s)
          /\ c.ptr = AllCleared /\ c.inFiles = s.inFiles /\ c.held = {} /\ c.trees = {}
      BY <2>1 DEF Close, Good, Members, InitStorage
    <3>. QED
      BY <1>1, <3>1, ContentTypes DEF Typed, Emptied
  <2>2. CASE ~IsOpen(s)
    <3>1. \A f \in {"mode", "nevents", "index", "chain", "out", "disk", "ptr", "inFiles", "held"} :
            c[f] = s[f]
      BY <2>2 DEF Close, Good, Members, InitStorage
    <3>. QED
      BY <2>2, <3>1 DEF Typed, Emptied
  <2>. QED
    BY <2>1, <2>2
<1>. QED
  BY <1>2, <1>3 DEF Sound

LEMMA ResetSound ==
  ASSUME NEW s, Sound(s)
  PROVE  Sound(ResetStorage(s)) /\ ~IsOpen(ResetStorage(s)) /\ Emptied(ResetStorage(s))
<1>. DEFINE closed == IF IsOpen(s) THEN Close(s) ELSE s
            r == ResetStorage(s)
<1>1. closed.disk \in Entries
  BY CloseSound DEF Sound, Typed
<1>2. r = [InitStorage EXCEPT !.outName = s.outName, !.check = s.check,
                            !.fout = closed.fout, !.disk = closed.disk]
  BY DEF ResetStorage
<1>. HIDE DEF closed
<1>3. /\ r.disk = closed.disk
      /\ \A f \in {"mode", "nevents", "index", "chain", "out", "ptr", "inFiles", "held"} :
            r[f] = InitStorage[f]
  BY <1>2 DEF InitStorage
<1>4. Good(r) /\ r.status = "INIT" /\ ~IsOpen(r)
  BY ResetLemma DEF Sound
<1>. HIDE DEF r
<1>5. Typed(InitStorage) /\ Emptied(InitStorage)
  BY InitSound DEF Sound, IsOpen, OpenStatus, InitStorage
<1>6. Typed(r) /\ Emptied(r)
  BY <1>1, <1>3, <1>5 DEF Typed, Emptied
<1>. QED
  BY <1>4, <1>6 DEF Sound, r

\* The chains are made of the events of the files, and the loop covers the
\* shortest of them.
LEMMA ChainTyped ==
  ASSUME NEW s, Typed(s), \A k \in DOMAIN s.inFiles : Readable(s, s.inFiles[k]),
         NEW t \in DataTypes
  PROVE  ChainOf(s, t) \in Seq(Contents)
<1>. DEFINE n == Len(s.inFiles)
            parts == [k \in 1 .. n |-> TreeOf(s, s.inFiles[k], t)]
<1>1. n \in Nat /\ DOMAIN s.inFiles = 1 .. n
  BY DEF Typed
<1>2. ASSUME NEW k \in 1 .. n PROVE TreeOf(s, s.inFiles[k], t) \in Seq(Contents)
  <2>1. CASE s.inFiles[k] = OutFile
    BY <2>1 DEF TreeOf, Typed, Entries
  <2>2. CASE s.inFiles[k] # OutFile
    <3>1. s.inFiles[k] \in DOMAIN Content
      BY <1>1, <2>2 DEF Readable
    <3>2. Content[s.inFiles[k]][t] \in Seq(Contents \ {Cleared})
      BY <3>1, ContentAssumption DEF Contents
    <3>. QED
      BY <2>2, <3>2 DEF TreeOf
  <2>. QED
    BY <2>1, <2>2
<1>3. parts \in [1 .. n -> Seq(Contents)]
  BY <1>2
<1>4. ChainOf(s, t) = FlattenSeq(parts)
  BY <1>1 DEF ChainOf
<1>. HIDE DEF n, parts
<1>. QED
  BY <1>1, <1>3, <1>4, FlattenRange

LEMMA ShortestTree ==
  ASSUME NEW s, s.nevents \in Nat, NEW lengths \in SUBSET Nat
  PROVE  LET n == EventsToRead(s, lengths)
         IN n \in Nat /\ \A k \in lengths : n <= k
<1>. DEFINE all == IF s.nevents = 0 THEN lengths ELSE lengths \union {s.nevents}
<1>1. all \in SUBSET Nat /\ lengths \subseteq all
  OBVIOUS
<1>2. EventsToRead(s, lengths) = IF all = {} THEN 0 ELSE Min(all)
  BY DEF EventsToRead
<1>. HIDE DEF all
<1>3. CASE all = {}
  BY <1>1, <1>2, <1>3
<1>4. CASE all # {}
  <2>1. Min(all) \in all /\ \A k \in all : Min(all) <= k
    BY <1>1, <1>4, MinOf
  <2>. QED
    BY <1>1, <1>2, <1>4, <2>1
<1>. QED
  BY <1>3, <1>4

Readables(s) == \A k \in DOMAIN s.inFiles : Readable(s, s.inFiles[k])

LEMMA PrepareSound ==
  ASSUME NEW s, Good(s), Typed(s), s.status = "OPENED", Emptied(s),
         s.trees = {}, s.out = NoTrees,
         s.mode \in {"READ", "WRITE", "BOTH"}, s.mode # "WRITE" => Readables(s)
  PROVE  LET p == PrepareTree(s)
         IN Sound(p) /\ (IsOpen(p) => p.index = 0 /\ p.ptr = AllCleared)
<1>. DEFINE reading == IF s.mode = "WRITE" THEN {} ELSE s.reads
            chain == [t \in DataTypes |-> IF t \in reading THEN ChainOf(s, t) ELSE s.chain[t]]
            found == {t \in reading : chain[t] # <<>>}
            writes == IF s.mode = "BOTH" THEN (s.writes \ reading) \union found ELSE s.writes
            made == IF s.mode = "READ" THEN {} ELSE writes
            lengths == {Len(chain[t]) : t \in found}
            nevents == EventsToRead(s, lengths)
            prepared ==
              [s EXCEPT !.chain = chain, !.writes = writes,
                        !.held = @ \union found \union made,
                        !.trees = @ \union made,
                        !.nevents = nevents,
                        !.index = 0, !.nread = 0, !.nwritten = 0]
            p == PrepareTree(s)
<1>1. /\ reading \subseteq DataTypes /\ writes \subseteq DataTypes
      /\ made \subseteq DataTypes /\ found \subseteq reading
  BY DEF Good
<1>2. chain \in Entries
  <2>1. ASSUME NEW t \in DataTypes
        PROVE  (IF t \in reading THEN ChainOf(s, t) ELSE s.chain[t]) \in Seq(Contents)
    <3>1. CASE t \in reading
      <4>1. s.mode # "WRITE"
        BY <3>1
      <4>. QED
        BY <3>1, <4>1, ChainTyped DEF Readables
    <3>2. CASE t \notin reading
      <4>1. s.chain[t] \in Seq(Contents)
        BY DEF Typed, Entries
      <4>. QED
        BY <3>2, <4>1
    <3>. QED
      BY <3>1, <3>2
  <2>. QED
    BY <2>1 DEF Entries
<1>3. found = {t \in DataTypes : chain[t] # <<>>}
  BY <1>1 DEF Emptied, NoTrees
<1>4. lengths \in SUBSET Nat
  <2>. HIDE DEF chain, found
  <2>1. ASSUME NEW t \in found PROVE Len(chain[t]) \in Nat
    <3>1. chain[t] \in Seq(Contents)
      BY <1>1, <1>2 DEF Entries
    <3>. QED
      BY <3>1
  <2>. QED
    BY <2>1
<1>5. nevents \in Nat /\ \A t \in found : nevents <= Len(chain[t])
  <2>1. nevents \in Nat /\ \A k \in lengths : nevents <= k
    BY <1>4, ShortestTree DEF Typed
  <2>. QED
    BY <2>1
<1>6. p = IF s.mode # "WRITE" /\ prepared.nevents = 0
          THEN [Close(prepared) EXCEPT !.ret = FALSE]
          ELSE [prepared EXCEPT !.status = "READY_IO", !.ret = TRUE]
  BY DEF PrepareTree
<1>7. /\ s.mode = "WRITE" => found = {}
      /\ s.mode = "BOTH" => found \subseteq made
      /\ s.mode = "READ" => made = {}
      /\ found \subseteq s.reads
  OBVIOUS
<1>. HIDE DEF chain, found, writes, made, lengths, nevents, reading, p
<1>8. /\ prepared.chain = chain /\ prepared.held = s.held \union found \union made
      /\ prepared.trees = s.trees \union made /\ prepared.nevents = nevents
      /\ prepared.index = 0 /\ DOMAIN prepared = Members
      /\ \A f \in {"mode", "out", "disk", "ptr", "inFiles", "reads", "status"} :
           prepared[f] = s[f]
  BY DEF Good, Members, InitStorage
<1>9. Good(prepared)
  BY <1>1 DEF Good, Members, InitStorage, IsOpen, OpenStatus
<1>. HIDE DEF prepared
<1>10. Typed(prepared) /\ IsOpen(prepared)
  BY <1>2, <1>5, <1>8 DEF Typed, IsOpen, OpenStatus
<1>11. Chained(prepared) = found
  BY <1>3, <1>8 DEF Chained
<1>12. CASE s.mode # "WRITE" /\ prepared.nevents = 0
  <2>. DEFINE c == Close(prepared)
  <2>1. p = [c EXCEPT !.ret = FALSE]
    BY <1>6, <1>12
  <2>2. Sound(c) /\ ~IsOpen(c) /\ Good(c)
    BY <1>9, <1>10, CloseSound DEF Sound
  <2>. HIDE DEF c
  <2>3. /\ DOMAIN p = Members
        /\ \A f \in Members \ {"ret"} : p[f] = c[f]
    BY <2>1, <2>2 DEF Good, Members, InitStorage
  <2>4. Good(p)
    BY <2>2, <2>3 DEF Good, Members, InitStorage, IsOpen
  <2>5. Typed(p) /\ Emptied(p) /\ ~IsOpen(p) /\ p.status # "OPENED"
    BY <2>2, <2>3 DEF Sound, Typed, Emptied, IsOpen, Members, InitStorage
  <2>. QED
    BY <2>4, <2>5 DEF Sound, p
<1>13. CASE ~(s.mode # "WRITE" /\ prepared.nevents = 0)
  <2>1. p = [prepared EXCEPT !.status = "READY_IO", !.ret = TRUE]
    BY <1>6, <1>13
  <2>2. /\ DOMAIN p = Members /\ p.status = "READY_IO"
        /\ \A f \in Members \ {"ret", "status"} : p[f] = prepared[f]
    BY <1>8, <2>1 DEF Members, InitStorage
  <2>3. Good(p) /\ IsOpen(p)
    BY <1>9, <1>10, <2>2 DEF Good, Members, InitStorage, IsOpen, OpenStatus
  <2>4. Typed(p)
    BY <1>10, <2>2 DEF Typed, Members, InitStorage
  <2>5. /\ p.chain = chain /\ p.held = found \union made /\ p.trees = made
        /\ p.nevents = nevents /\ p.index = 0 /\ p.mode = s.mode /\ p.reads = s.reads
        /\ p.ptr = AllCleared
    BY <1>8, <2>2 DEF Emptied, Members, InitStorage
  <2>6. Chained(p) = found
    BY <1>3, <2>5 DEF Chained
  <2>7. p.mode # "WRITE" => Within(p)
    BY <1>5, <1>8, <1>13, <2>5, <2>6 DEF Within
  <2>8. Provided(p)
    BY <1>7, <2>5, <2>6, <2>7 DEF Provided
  <2>. QED
    BY <2>2, <2>3, <2>4, <2>5, <2>8 DEF Sound, p
<1>. QED
  BY <1>12, <1>13

\* What a step that changes little leaves alone.
Alike(s, g, but) ==
  DOMAIN g = Members /\ \A f \in Members \ but : g[f] = s[f]

LEMMA AlikeSound ==
  ASSUME NEW s, NEW g, Sound(s), Alike(s, g, {"ret", "fout", "curId"})
  PROVE  Sound(g) /\ IsOpen(g) = IsOpen(s)
<1>1. Good(g)
  BY DEF Sound, Alike, Good, Members, InitStorage, IsOpen
<1>2. Typed(g) /\ IsOpen(g) = IsOpen(s) /\ g.status = s.status
  BY DEF Sound, Alike, Typed, Members, InitStorage, IsOpen
<1>3. Chained(g) = Chained(s)
  BY DEF Alike, Chained, Members, InitStorage
<1>4. Provided(s) => Provided(g)
  BY <1>3 DEF Alike, Provided, Within, Members, InitStorage
<1>5. Emptied(s) => Emptied(g)
  BY DEF Alike, Emptied, Members, InitStorage
<1>. QED
  BY <1>1, <1>2, <1>4, <1>5 DEF Sound

LEMMA OpenSound ==
  ASSUME NEW s, Sound(s), ~IsOpen(s), NEW creatable \in BOOLEAN
  PROVE  LET p == Open(s, creatable)
         IN Sound(p) /\ (IsOpen(p) => p.index = 0 /\ p.ptr = AllCleared)
<1>. DEFINE input == s.mode \in {"READ", "BOTH"}
            output == s.mode \in {"WRITE", "BOTH"}
            opened == IF ~output THEN s
                      ELSE IF creatable THEN [s EXCEPT !.fout = TRUE, !.disk = NoTrees]
                      ELSE [s EXCEPT !.fout = FALSE]
            ready == [opened EXCEPT !.status = "OPENED"]
            p == Open(s, creatable)
<1>0. Good(s) /\ Typed(s) /\ Emptied(s) /\ s.status # "OPENED"
  BY DEF Sound
<1>1. \/ p = [s EXCEPT !.ret = FALSE] \/ p = [opened EXCEPT !.ret = FALSE]
      \/ /\ p = PrepareTree(ready) /\ s.mode # "UNDEFINED"
         /\ input => \A k \in DOMAIN s.inFiles : Readable(s, s.inFiles[k])
  BY DEF Open
<1>2. Sound(opened) /\ ~IsOpen(opened)
  <2>1. /\ DOMAIN opened = Members
        /\ \A f \in Members \ {"fout", "disk"} : opened[f] = s[f]
        /\ opened.disk \in {s.disk, NoTrees}
    BY <1>0 DEF Good, Members, InitStorage
  <2>. HIDE DEF opened
  <2>2. Good(opened) /\ ~IsOpen(opened)
    BY <1>0, <2>1 DEF Good, Members, InitStorage, IsOpen, NoTrees
  <2>3. Typed(opened)
    BY <1>0, <2>1, ContentTypes DEF Typed, Members, InitStorage
  <2>4. Emptied(opened)
    BY <1>0, <2>1 DEF Emptied, Members, InitStorage
  <2>. QED
    BY <1>0, <2>1, <2>2, <2>3, <2>4 DEF Sound, Members, InitStorage
<1>3. opened.mode = s.mode /\ opened.inFiles = s.inFiles
  BY <1>0 DEF Good, Members, InitStorage
<1>. HIDE DEF opened, p
<1>4. Sound([s EXCEPT !.ret = FALSE]) /\ ~IsOpen([s EXCEPT !.ret = FALSE])
  <2>1. Alike(s, [s EXCEPT !.ret = FALSE], {"ret", "fout", "curId"})
    BY <1>0 DEF Alike, Good, Members, InitStorage
  <2>. QED
    BY <2>1, AlikeSound
<1>5. Sound([opened EXCEPT !.ret = FALSE]) /\ ~IsOpen([opened EXCEPT !.ret = FALSE])
  <2>1. Alike(opened, [opened EXCEPT !.ret = FALSE], {"ret", "fout", "curId"})
    BY <1>2 DEF Alike, Sound, Good, Members, InitStorage
  <2>. QED
    BY <1>2, <2>1, AlikeSound
<1>6. /\ Good(ready) /\ Typed(ready) /\ ready.status = "OPENED" /\ Emptied(ready)
      /\ ready.trees = {} /\ ready.out = NoTrees /\ ready.mode = s.mode
      /\ ready.inFiles = s.inFiles
  <2>1. Good(opened) /\ Typed(opened) /\ Emptied(opened) /\ ~IsOpen(opened)
    BY <1>2 DEF Sound
  <2>2. /\ DOMAIN ready = Members /\ ready.status = "OPENED"
        /\ \A f \in Members \ {"status"} : ready[f] = opened[f]
    BY <2>1 DEF Good, Members, InitStorage
  <2>. HIDE DEF ready
  <2>3. opened.trees = {} /\ opened.out = NoTrees
    BY <2>1 DEF Good
  <2>4. Good(ready)
    BY <2>1, <2>2, <2>3 DEF Good, Members, InitStorage, IsOpen, OpenStatus
  <2>5. Typed(ready) /\ Emptied(ready)
    BY <2>1, <2>2 DEF Typed, Emptied, Members, InitStorage
  <2>. QED
    BY <1>3, <2>2, <2>3, <2>4, <2>5 DEF Members, InitStorage
<1>. HIDE DEF ready
<1>7. CASE /\ p = PrepareTree(ready) /\ s.mode # "UNDEFINED"
           /\ input => \A k \in DOMAIN s.inFiles : Readable(s, s.inFiles[k])
  <2>1. s.mode \in {"READ", "WRITE", "BOTH"}
    BY <1>0, <1>7 DEF Typed, Modes
  <2>2. s.mode # "WRITE" => Readables(ready)
    BY <1>6, <1>7, <2>1 DEF Readables, Readable
  <2>. QED
    BY <1>6, <1>7, <2>1, <2>2, PrepareSound DEF p
<1>. QED
  BY <1>1, <1>4, <1>5, <1>7 DEF p

-------------------------------------------------------------------------------
(* Events in the buffers and in the output.                                *)

\* The products in memory that go to the output are of one event.
OneEvent(s) ==
  \A t, u \in s.trees : s.ptr[t] # Cleared /\ s.ptr[u] # Cleared
                          => EventId[s.ptr[t]] = EventId[s.ptr[u]]

Fresh(s) == \A t \in s.trees : s.ptr[t] = Cleared

\* Entries of two trees that are equally far from the end.
AlignedPair(p, q) ==
  \A k \in 0 .. Len(p) - 1 :
    k < Len(q) /\ p[Len(p) - k] # Cleared /\ q[Len(q) - k] # Cleared
      => EventId[p[Len(p) - k]] = EventId[q[Len(q) - k]]

Aligned(s) == \A t, u \in s.trees : AlignedPair(s.out[t], s.out[u])

LEMMA AlignedEmpty ==
  \A p \in Seq(Contents) : AlignedPair(p, <<>>) /\ AlignedPair(<<>>, p)
BY DEF AlignedPair

LEMMA AlignedAppend ==
  ASSUME NEW p \in Seq(Contents), NEW q \in Seq(Contents), AlignedPair(p, q),
         NEW d \in Contents, NEW e \in Contents,
         d # Cleared /\ e # Cleared => EventId[d] = EventId[e]
  PROVE  AlignedPair(Append(p, d), Append(q, e))
<1>. DEFINE pd == Append(p, d)
            qe == Append(q, e)
<1>1. /\ Len(p) \in Nat /\ Len(pd) = Len(p) + 1 /\ pd[Len(p) + 1] = d
      /\ \A i \in 1 .. Len(p) : pd[i] = p[i]
  OBVIOUS
<1>2. /\ Len(q) \in Nat /\ Len(qe) = Len(q) + 1 /\ qe[Len(q) + 1] = e
      /\ \A i \in 1 .. Len(q) : qe[i] = q[i]
  OBVIOUS
<1>. HIDE DEF pd, qe
<1>3. ASSUME NEW k \in 0 .. Len(pd) - 1, k < Len(qe),
             pd[Len(pd) - k] # Cleared, qe[Len(qe) - k] # Cleared
      PROVE  EventId[pd[Len(pd) - k]] = EventId[qe[Len(qe) - k]]
  <2>1. CASE k = 0
    <3>1. Len(pd) - k = Len(p) + 1 /\ Len(qe) - k = Len(q) + 1
      BY <1>1, <1>2, <2>1
    <3>. QED
      BY <1>1, <1>2, <1>3, <3>1
  <2>2. CASE k # 0
    <3>1. /\ k - 1 \in 0 .. Len(p) - 1 /\ k - 1 < Len(q)
          /\ Len(pd) - k = Len(p) - (k - 1) /\ Len(p) - (k - 1) \in 1 .. Len(p)
          /\ Len(qe) - k = Len(q) - (k - 1) /\ Len(q) - (k - 1) \in 1 .. Len(q)
      BY <1>1, <1>2, <1>3, <2>2
    <3>2. pd[Len(pd) - k] = p[Len(p) - (k - 1)] /\ qe[Len(qe) - k] = q[Len(q) - (k - 1)]
      BY <1>1, <1>2, <3>1
    <3>. QED
      BY <1>3, <3>1, <3>2 DEF AlignedPair
  <2>. QED
    BY <2>1, <2>2
<1>. QED
  BY <1>3 DEF AlignedPair, pd, qe

-------------------------------------------------------------------------------
\* What next_event() and go_to() have before them while the loop runs.
Pending(s) ==
  /\ OneEvent(s)
  /\ s.mode = "BOTH" /\ s.nread = 0 => Fresh(s)

\* The event that the buffers of an open object belong to, st.CurrentEvent.
Current(s) ==
  IF s.mode = "WRITE" THEN s.nwritten + 1
  ELSE IF Chained(s) = {} THEN Cleared
  ELSE s.chain[Min(Chained(s))][s.index]

Buffers(s) ==
  \A t \in s.trees : s.ptr[t] = Cleared \/ EventId[s.ptr[t]] = EventId[Current(s)]

Buffered(s) ==
  /\ Buffers(s)
  /\ s.mode = "BOTH" /\ s.nread = 0 => s.index = 0 /\ Fresh(s)

LEMMA BufferedPending == \A s : Buffered(s) => Pending(s)
BY DEF Buffered, Buffers, Pending, OneEvent

\* Products that were read for the event at hand, and that event.
AtEvent(s, u) ==
  s.ptr[u] = s.chain[u][s.index] /\ EventId[s.ptr[u]] = s.curId

FetchedOne(s, fetched) ==
  IF s.index = 0 THEN fetched = {}
  ELSE \A u \in fetched \union (Chained(s) \intersect {EVENT}) : AtEvent(s, u)

LEMMA WriteSound ==
  ASSUME NEW s, Sound(s), IsOpen(s)
  PROVE  LET w == WriteEvent(s)
         IN /\ Sound(w) /\ w.status = s.status /\ w.mode = s.mode
            /\ w.check = s.check /\ w.nread = s.nread /\ w.nwritten = s.nwritten + 1
            /\ Fresh(w)
            /\ Aligned(s) /\ OneEvent(s) => Aligned(w)
<1>. DEFINE w == WriteEvent(s)
<1>0. Good(s) /\ Typed(s) /\ Provided(s) /\ s.status # "OPENED"
  BY DEF Sound
<1>1. /\ DOMAIN w = Members /\ w.nwritten = s.nwritten + 1
      /\ w.out = [t \in DataTypes |->
                    IF t \in s.trees THEN Append(s.out[t], s.ptr[t]) ELSE s.out[t]]
      /\ w.ptr = AfterFill(s)
      /\ w.index = IF s.mode = "WRITE" THEN s.index + 1 ELSE s.index
      /\ \A f \in Members \ {"nwritten", "out", "ptr", "index", "ret"} : w[f] = s[f]
  BY <1>0 DEF WriteEvent, Good, Members, InitStorage
<1>. HIDE DEF w
<1>2. /\ w.status = s.status /\ w.mode = s.mode /\ w.check = s.check
      /\ w.nread = s.nread /\ w.trees = s.trees /\ w.chain = s.chain
      /\ w.nevents = s.nevents /\ w.held = s.held /\ w.reads = s.reads
      /\ w.writes = s.writes /\ w.disk = s.disk /\ w.inFiles = s.inFiles
  BY <1>1 DEF Members, InitStorage
<1>3. Good(w) /\ IsOpen(w)
  BY <1>0, <1>1, <1>2 DEF Good, IsOpen
<1>4. \A t \in DataTypes : s.out[t] \in Seq(Contents) /\ s.ptr[t] \in Contents
  BY <1>0 DEF Typed, Entries
<1>5. w.out \in Entries
  <2>1. ASSUME NEW t \in DataTypes
        PROVE  (IF t \in s.trees THEN Append(s.out[t], s.ptr[t]) ELSE s.out[t])
                 \in Seq(Contents)
    BY <1>4
  <2>. QED
    BY <1>1, <2>1 DEF Entries
<1>6. w.ptr \in [DataTypes -> Contents] /\ Fresh(w)
  BY <1>0, <1>1, <1>2, <1>4, EventIdAssumption DEF AfterFill, Fresh, Contents, Good
<1>7. Typed(w)
  BY <1>0, <1>1, <1>2, <1>5, <1>6 DEF Typed
<1>8. Provided(w)
  <2>1. Chained(w) = Chained(s)
    BY <1>2 DEF Chained
  <2>2. Within(s) /\ s.mode # "WRITE" => Within(w)
    BY <1>1, <1>2, <2>1 DEF Within
  <2>. QED
    BY <1>0, <1>2, <2>1, <2>2 DEF Provided
<1>9. ASSUME Aligned(s), OneEvent(s) PROVE Aligned(w)
  <2>1. ASSUME NEW t \in w.trees, NEW u \in w.trees
        PROVE  AlignedPair(w.out[t], w.out[u])
    <3>1. t \in s.trees /\ u \in s.trees /\ t \in DataTypes /\ u \in DataTypes
      BY <1>0, <1>2 DEF Good
    <3>2. /\ w.out[t] = Append(s.out[t], s.ptr[t])
          /\ w.out[u] = Append(s.out[u], s.ptr[u])
      BY <1>1, <3>1
    <3>3. AlignedPair(s.out[t], s.out[u])
      BY <1>9, <3>1 DEF Aligned
    <3>4. s.ptr[t] # Cleared /\ s.ptr[u] # Cleared
            => EventId[s.ptr[t]] = EventId[s.ptr[u]]
      BY <1>9, <3>1 DEF OneEvent
    <3>5. /\ s.out[t] \in Seq(Contents) /\ s.out[u] \in Seq(Contents)
          /\ s.ptr[t] \in Contents /\ s.ptr[u] \in Contents
      BY <1>4, <3>1
    <3>. QED
      BY <3>2, <3>3, <3>4, <3>5, AlignedAppend
  <2>. QED
    BY <2>1 DEF Aligned
<1>. QED
  BY <1>0, <1>1, <1>2, <1>3, <1>6, <1>7, <1>8, <1>9 DEF Sound, w

\* An entry read is one that the chain has.
LEMMA EntryIn ==
  ASSUME NEW s, Sound(s), IsOpen(s), s.mode # "WRITE", NEW t \in Chained(s),
         NEW i \in Nat, 0 < i, i <= s.nevents
  PROVE  s.chain[t][i] \in Contents
<1>1. s.nevents \in Nat /\ s.nevents <= Len(s.chain[t])
  BY DEF Sound, Typed, Provided, Within
<1>2. s.chain[t] \in Seq(Contents)
  BY DEF Sound, Typed, Entries, Chained
<1>3. i \in 1 .. Len(s.chain[t])
  BY <1>1, <1>2
<1>. QED
  BY <1>2, <1>3

LEMMA ReadSound ==
  ASSUME NEW s, Sound(s), IsOpen(s), s.mode \in {"READ", "BOTH"}
  PROVE  LET r == ReadEvent(s)
         IN /\ Sound(r) /\ r.status = s.status /\ r.mode = s.mode
            /\ r.check = s.check /\ r.nwritten = s.nwritten
            /\ Aligned(s) => Aligned(r)
            /\ r.ret => r.nread = s.nread + 1
            /\ r.ret /\ s.mode = "READ" => FetchedOne(r, {})
            /\ r.ret /\ s.mode = "BOTH" /\ s.check /\ Fresh(s) => Buffers(r)
<1>. DEFINE bad == Misaligned(s)
            read == IF s.mode = "READ" THEN Chained(s) \intersect {EVENT}
                    ELSE {t \in Chained(s) : \A b \in bad : t <= b}
            named == IF s.mode = "READ" THEN read
                     ELSE IF s.check THEN Chained(s) \intersect s.reads ELSE {}
            id == IF named = {} THEN NoId ELSE EventId[Entry(s, Min(named))]
            ptrs == Loaded(s, read)
            loaded == [s EXCEPT !.ptr = ptrs, !.curId = id]
            r == ReadEvent(s)
<1>0. /\ Good(s) /\ Typed(s) /\ Provided(s) /\ Within(s) /\ s.status # "OPENED"
      /\ s.index \in Nat /\ s.nevents \in Nat
  BY DEF Sound, Provided, Typed
<1>1. r = IF s.index >= s.nevents THEN [s EXCEPT !.ret = FALSE]
          ELSE IF s.mode = "BOTH" /\ bad # {} THEN [loaded EXCEPT !.ret = FALSE]
          ELSE [loaded EXCEPT !.index = @ + 1, !.nread = @ + 1, !.ret = TRUE]
  BY DEF ReadEvent
<1>2. read \subseteq Chained(s) /\ Chained(s) \subseteq DataTypes /\ Chained(s) \in SUBSET Nat
  BY DataTypesAssumption DEF Chained
<1>3. ptrs = [t \in DataTypes |-> IF t \in read THEN s.chain[t][s.index + 1] ELSE s.ptr[t]]
  BY DEF Loaded, Entry
<1>4. s.mode = "BOTH" /\ bad = {} => read = Chained(s)
  OBVIOUS
<1>5. s.mode = "READ" => /\ read = Chained(s) \intersect {EVENT} /\ named = read
  OBVIOUS
<1>6. s.mode = "BOTH" /\ s.check /\ bad = {} =>
        \A t \in Chained(s) :
          EventId[Entry(s, t)] = EventId[Entry(s, Min(Chained(s)))]
  <2>1. s.mode = "BOTH" => Chained(s) \intersect s.reads = Chained(s)
    BY <1>0 DEF Provided
  <2>. QED
    BY <2>1 DEF Misaligned
<1>. HIDE DEF bad, read, ptrs, id
<1>7. /\ DOMAIN loaded = Members /\ loaded.ptr = ptrs /\ loaded.curId = id
      /\ \A f \in Members \ {"ptr", "curId"} : loaded[f] = s[f]
  BY <1>0 DEF Good, Members, InitStorage
<1>8. CASE s.index >= s.nevents
  <2>1. r = [s EXCEPT !.ret = FALSE]
    BY <1>1, <1>8
  <2>. HIDE DEF r
  <2>2. Alike(s, r, {"ret", "fout", "curId"}) /\ r.ret = FALSE
    BY <1>0, <2>1 DEF Alike, Good, Members, InitStorage
  <2>3. Sound(r)
    BY <2>2, AlikeSound
  <2>4. Aligned(s) => Aligned(r)
    BY <2>2 DEF Aligned, Alike, Members, InitStorage
  <2>. QED
    BY <2>2, <2>3, <2>4 DEF r, Alike, Members, InitStorage
<1>9. CASE s.index < s.nevents
  <2>1. ptrs \in [DataTypes -> Contents]
    <3>1. ASSUME NEW t \in DataTypes
          PROVE (IF t \in read THEN s.chain[t][s.index + 1] ELSE s.ptr[t]) \in Contents
      <4>1. s.mode # "WRITE" /\ s.index + 1 \in Nat /\ 0 < s.index + 1
              /\ s.index + 1 <= s.nevents
        BY <1>0, <1>9
      <4>2. CASE t \in read
        <5>1. t \in Chained(s)
          BY <1>2, <4>2
        <5>2. s.chain[t][s.index + 1] \in Contents
          BY <4>1, <5>1, EntryIn
        <5>. QED
          BY <4>2, <5>2
      <4>3. CASE t \notin read
        BY <1>0, <4>3 DEF Typed
      <4>. QED
        BY <4>2, <4>3
    <3>. QED
      BY <1>3, <3>1
  <2>2. /\ DOMAIN r = Members /\ r.ptr = ptrs /\ r.curId = id
        /\ r.index \in {s.index, s.index + 1} /\ r.nread \in {s.nread, s.nread + 1}
        /\ r.ret \in BOOLEAN
        /\ r.ret => /\ r.index = s.index + 1 /\ r.nread = s.nread + 1
                    /\ ~(s.mode = "BOTH" /\ bad # {})
        /\ \A f \in Members \ {"ptr", "curId", "index", "nread", "ret"} : r[f] = s[f]
    <3>. HIDE DEF loaded, r
    <3>1. CASE s.mode = "BOTH" /\ bad # {}
      <4>1. r = [loaded EXCEPT !.ret = FALSE]
        BY <1>0, <1>1, <1>9, <3>1
      <4>. QED
        BY <1>7, <4>1 DEF Members, InitStorage
    <3>2. CASE ~(s.mode = "BOTH" /\ bad # {})
      <4>1. r = [loaded EXCEPT !.index = @ + 1, !.nread = @ + 1, !.ret = TRUE]
        BY <1>0, <1>1, <1>9, <3>2
      <4>. QED
        BY <1>7, <3>2, <4>1 DEF Members, InitStorage
    <3>. QED
      BY <3>1, <3>2
  <2>. HIDE DEF r
  <2>3. /\ r.status = s.status /\ r.mode = s.mode /\ r.check = s.check
        /\ r.nwritten = s.nwritten /\ r.trees = s.trees /\ r.chain = s.chain
        /\ r.nevents = s.nevents /\ r.held = s.held /\ r.reads = s.reads
        /\ r.writes = s.writes /\ r.disk = s.disk /\ r.inFiles = s.inFiles
        /\ r.out = s.out
    BY <2>2 DEF Members, InitStorage
  <2>4. Good(r) /\ IsOpen(r)
    BY <1>0, <2>2, <2>3 DEF Good, IsOpen
  <2>5. Typed(r)
    BY <1>0, <2>1, <2>2, <2>3 DEF Typed
  <2>6. Chained(r) = Chained(s)
    BY <2>3 DEF Chained
  <2>7. Provided(r)
    <3>1. Within(r)
      BY <1>0, <1>9, <2>2, <2>3, <2>6 DEF Within
    <3>. QED
      BY <1>0, <2>3, <2>6, <3>1 DEF Provided
  <2>8. Sound(r)
    BY <1>0, <2>3, <2>4, <2>5, <2>7 DEF Sound
  <2>9. Aligned(s) => Aligned(r)
    BY <2>3 DEF Aligned
  <2>10. r.ret /\ s.mode = "READ" => FetchedOne(r, {})
    <3>. SUFFICES ASSUME r.ret, s.mode = "READ", NEW u \in Chained(r) \intersect {EVENT}
         PROVE  AtEvent(r, u)
      BY <1>0, <2>2 DEF FetchedOne
    <3>1. u = EVENT /\ read = {EVENT} /\ named = {EVENT}
      BY <1>5, <2>6
    <3>2. Min(named) = EVENT
      <4>1. {EVENT} \in SUBSET Nat /\ {EVENT} # {}
        BY DEF EVENT
      <4>2. Min({EVENT}) \in {EVENT}
        BY <4>1, MinOf
      <4>. QED
        BY <3>1, <4>2
    <3>3. id = EventId[s.chain[EVENT][s.index + 1]]
      BY <3>1, <3>2 DEF id, Entry
    <3>4. u \in DataTypes /\ ptrs[u] = s.chain[u][s.index + 1]
      BY <1>2, <1>3, <2>6, <3>1
    <3>5. r.index = s.index + 1
      BY <2>2
    <3>. QED
      BY <2>2, <2>3, <3>1, <3>3, <3>4, <3>5 DEF AtEvent
  <2>11. r.ret /\ s.mode = "BOTH" /\ s.check /\ Fresh(s) => Buffers(r)
    <3>. SUFFICES ASSUME r.ret, s.mode = "BOTH", s.check, Fresh(s), NEW t \in r.trees
         PROVE  r.ptr[t] = Cleared \/ EventId[r.ptr[t]] = EventId[Current(r)]
      BY DEF Buffers
    <3>1. t \in s.trees /\ t \in DataTypes
      BY <1>0, <2>3 DEF Good
    <3>2. bad = {} /\ read = Chained(s) /\ r.index = s.index + 1
      BY <1>4, <2>2
    <3>3. CASE t \in Chained(s)
      <4>1. ptrs[t] = Entry(s, t)
        BY <1>3, <3>1, <3>2, <3>3 DEF Entry
      <4>2. Current(r) = Entry(s, Min(Chained(s)))
        BY <2>3, <2>6, <3>2, <3>3 DEF Current, Entry
      <4>. QED
        BY <1>6, <2>2, <3>2, <3>3, <4>1, <4>2
    <3>4. CASE t \notin Chained(s)
      <4>1. ptrs[t] = s.ptr[t]
        BY <1>3, <3>1, <3>2, <3>4
      <4>. QED
        BY <2>2, <3>1, <4>1 DEF Fresh
    <3>. QED
      BY <3>3, <3>4
  <2>. QED
    BY <2>2, <2>3, <2>8, <2>9, <2>10, <2>11 DEF r
<1>. QED
  BY <1>0, <1>8, <1>9

\* What the next event asks of the buffers and the output, and leaves there.
NextFits(s) == s.check /\ s.mode # "READ" => Aligned(s) /\ Pending(s)

NextDone(s, n) ==
  /\ Sound(n) /\ IsOpen(n) /\ n.mode = s.mode /\ n.check = s.check
  /\ n.nwritten \in {s.nwritten, s.nwritten + 1}
  /\ s.check /\ s.mode # "READ" => Aligned(n)
  /\ n.ret /\ s.mode = "READ" => FetchedOne(n, {})
  /\ n.ret /\ s.check /\ s.mode # "READ" => Buffered(n)

LEMMA NextEventSound ==
  ASSUME NEW s, Sound(s), IsOpen(s), NextFits(s)
  PROVE  NextDone(s, NextEvent(s))
<1>. DEFINE op == [s EXCEPT !.status = "OPERATING"]
            n == NextEvent(s)
<1>0. /\ Good(s) /\ Typed(s) /\ Provided(s) /\ s.status \in {"READY_IO", "OPERATING"}
      /\ s.mode \in {"READ", "WRITE", "BOTH"}
  BY DEF Sound, IsOpen, OpenStatus, Provided, Typed, Modes
<1>1. /\ DOMAIN op = Members /\ op.status = "OPERATING"
      /\ \A f \in Members \ {"status"} : op[f] = s[f]
  BY <1>0 DEF Good, Members, InitStorage
<1>2. n = IF s.mode = "READ" THEN ReadEvent(op)
          ELSE IF s.mode = "WRITE" THEN WriteEvent(op)
          ELSE ReadEvent(IF s.nread > 0 THEN WriteEvent(op) ELSE op)
  <2>1. n = CASE s.mode = "READ" -> ReadEvent(op)
              [] s.mode = "WRITE" -> WriteEvent(op)
              [] s.mode = "BOTH" -> ReadEvent(IF s.nread > 0 THEN WriteEvent(op) ELSE op)
              [] OTHER -> [op EXCEPT !.ret = TRUE]
    BY <1>0, <1>1 DEF NextEvent, Members, InitStorage
  <2>. HIDE DEF op, n
  <2>. QED
    BY <1>0, <2>1
<1>. HIDE DEF op, n
<1>3. /\ op.mode = s.mode /\ op.check = s.check /\ op.nread = s.nread
      /\ op.nwritten = s.nwritten /\ op.trees = s.trees /\ op.chain = s.chain
      /\ op.ptr = s.ptr /\ op.out = s.out /\ op.index = s.index
  BY <1>1 DEF Members, InitStorage
<1>4. Sound(op) /\ IsOpen(op)
  <2>1. Good(op) /\ IsOpen(op)
    BY <1>0, <1>1 DEF Good, Members, InitStorage, IsOpen, OpenStatus
  <2>2. Typed(op)
    BY <1>0, <1>1 DEF Typed, Members, InitStorage
  <2>3. Chained(op) = Chained(s)
    BY <1>3 DEF Chained
  <2>4. Provided(op)
    BY <1>0, <1>1, <2>3 DEF Provided, Within, Members, InitStorage
  <2>. QED
    BY <1>1, <2>1, <2>2, <2>4 DEF Sound
<1>5. s.check /\ s.mode # "READ" =>
        /\ Aligned(op) /\ OneEvent(op)
        /\ s.mode = "BOTH" /\ s.nread = 0 => Fresh(op)
  BY <1>3 DEF NextFits, Pending, Aligned, OneEvent, Fresh
<1>6. CASE s.mode = "READ"
  <2>1. n = ReadEvent(op)
    BY <1>2, <1>6
  <2>. QED
    BY <1>1, <1>3, <1>4, <1>6, <2>1, ReadSound DEF NextDone, IsOpen, OpenStatus, n
<1>7. CASE s.mode = "WRITE"
  <2>1. n = WriteEvent(op)
    BY <1>2, <1>7
  <2>2. /\ Sound(n) /\ IsOpen(n) /\ n.mode = s.mode /\ n.check = s.check
        /\ n.nwritten = s.nwritten + 1 /\ Fresh(n)
        /\ s.check => Aligned(n)
    BY <1>1, <1>3, <1>4, <1>5, <1>7, <2>1, WriteSound DEF IsOpen, OpenStatus
  <2>3. Buffered(n)
    BY <1>7, <2>2 DEF Buffered, Buffers, Fresh
  <2>. QED
    BY <1>7, <2>2, <2>3 DEF NextDone, n
<1>8. CASE s.mode = "BOTH"
  <2>. DEFINE w == IF s.nread > 0 THEN WriteEvent(op) ELSE op
  <2>1. n = ReadEvent(w)
    BY <1>2, <1>8
  <2>2. /\ Sound(w) /\ IsOpen(w) /\ w.status = "OPERATING" /\ w.mode = s.mode
        /\ w.check = s.check
        /\ w.nread = s.nread /\ w.nwritten \in {s.nwritten, s.nwritten + 1}
        /\ s.check => Aligned(w) /\ Fresh(w)
    <3>1. CASE s.nread > 0
      <4>1. w = WriteEvent(op)
        BY <3>1
      <4>. HIDE DEF w
      <4>. QED
        BY <1>1, <1>3, <1>4, <1>5, <1>8, <4>1, WriteSound DEF IsOpen, OpenStatus
    <3>2. CASE ~(s.nread > 0)
      <4>1. w = op /\ s.nread = 0
        BY <1>0, <3>2 DEF Good
      <4>. HIDE DEF w
      <4>. QED
        BY <1>1, <1>3, <1>4, <1>5, <1>8, <4>1
    <3>. QED
      BY <3>1, <3>2
  <2>. HIDE DEF w
  <2>3. /\ Sound(n) /\ IsOpen(n) /\ n.mode = s.mode /\ n.check = s.check
        /\ n.nwritten \in {s.nwritten, s.nwritten + 1}
        /\ s.check => Aligned(n)
        /\ n.ret => n.nread = s.nread + 1
        /\ n.ret /\ s.check => Buffers(n)
    BY <1>8, <2>1, <2>2, ReadSound DEF IsOpen, OpenStatus
  <2>4. n.ret /\ s.check => Buffered(n)
    <3>1. s.nread \in Nat
      BY <1>0 DEF Good
    <3>. QED
      BY <2>3, <3>1 DEF Buffered
  <2>. QED
    BY <1>8, <2>3, <2>4 DEF NextDone, n
<1>. QED
  BY <1>0, <1>6, <1>7, <1>8

LEMMA GoToSound ==
  ASSUME NEW s, Sound(s), IsOpen(s), NextFits(s), s.mode # "WRITE", NEW i \in Nat
  PROVE  NextDone(s, GoTo(s, i))
<1>. DEFINE refused == [s EXCEPT !.ret = FALSE]
            moved == [s EXCEPT !.index = i]
            n == GoTo(s, i)
<1>0. Good(s) /\ Typed(s) /\ Provided(s) /\ Within(s) /\ s.status # "OPENED"
  BY DEF Sound, Provided
<1>1. \/ n = refused
      \/ i < s.nevents /\ n = NextEvent(moved)
  <2>1. s.nevents \in Nat
    BY <1>0 DEF Typed
  <2>. QED
    BY <2>1 DEF GoTo
<1>. HIDE DEF n
<1>2. CASE n = refused
  <2>1. Alike(s, n, {"ret", "fout", "curId"}) /\ n.ret = FALSE
    BY <1>0, <1>2 DEF Alike, Good, Members, InitStorage
  <2>2. Sound(n) /\ IsOpen(n)
    BY <2>1, AlikeSound
  <2>3. s.check /\ s.mode # "READ" => Aligned(n)
    BY <2>1 DEF NextFits, Aligned, Alike, Members, InitStorage
  <2>. QED
    BY <2>1, <2>2, <2>3 DEF NextDone, Alike, Members, InitStorage, n
<1>3. CASE i < s.nevents /\ n = NextEvent(moved)
  <2>1. /\ DOMAIN moved = Members /\ moved.index = i
        /\ \A f \in Members \ {"index"} : moved[f] = s[f]
    BY <1>0 DEF Good, Members, InitStorage
  <2>. HIDE DEF moved
  <2>2. /\ moved.mode = s.mode /\ moved.check = s.check /\ moved.nread = s.nread
        /\ moved.nwritten = s.nwritten /\ moved.trees = s.trees
        /\ moved.chain = s.chain /\ moved.ptr = s.ptr /\ moved.out = s.out
    BY <2>1 DEF Members, InitStorage
  <2>3. Sound(moved) /\ IsOpen(moved)
    <3>1. Good(moved) /\ IsOpen(moved)
      BY <1>0, <2>1 DEF Good, Members, InitStorage, IsOpen
    <3>2. Typed(moved)
      BY <1>0, <2>1 DEF Typed, Members, InitStorage
    <3>3. Chained(moved) = Chained(s)
      BY <2>2 DEF Chained
    <3>4. Within(moved)
      <4>1. s.nevents \in Nat /\ i <= s.nevents
        BY <1>0, <1>3 DEF Typed
      <4>. QED
        BY <1>0, <2>1, <3>3, <4>1 DEF Within, Members, InitStorage
    <3>5. Provided(moved)
      BY <1>0, <2>1, <3>3, <3>4 DEF Provided, Members, InitStorage
    <3>. QED
      BY <1>0, <2>1, <3>1, <3>2, <3>5 DEF Sound, Members, InitStorage
  <2>4. NextFits(moved)
    BY <2>2 DEF NextFits, Pending, OneEvent, Fresh, Aligned
  <2>5. NextDone(moved, n)
    BY <1>3, <2>3, <2>4, NextEventSound
  <2>. QED
    BY <2>2, <2>5 DEF NextDone, n
<1>. QED
  BY <1>1, <1>2, <1>3

-------------------------------------------------------------------------------
(* get_data(), and the program filling what is its own.                    *)

\* What get_data() does not change.
SamePlace(s, g) ==
  /\ g.mode = s.mode /\ g.check = s.check /\ g.nread = s.nread
  /\ g.nwritten = s.nwritten /\ g.index = s.index /\ g.chain = s.chain
  /\ g.nevents = s.nevents

LEMMA SameCurrent ==
  ASSUME NEW s, NEW g, SamePlace(s, g)
  PROVE  Current(g) = Current(s) /\ Chained(g) = Chained(s)
BY DEF SamePlace, Current, Chained

GetDone(s, g, t) ==
  /\ Sound(g) /\ IsOpen(g) /\ SamePlace(s, g)
  /\ Aligned(s) => Aligned(g)
  /\ s.mode # "READ" /\ Buffered(s) => Buffered(g)
  /\ g.ret /\ s.mode # "WRITE" => s.index # 0
  /\ g.ret /\ s.mode = "READ" => t \in Chained(s)

GetFetched(s, g, t) ==
  \A fetched \in SUBSET DataTypes : FetchedOne(s, fetched) =>
    FetchedOne(g, IF g.ret THEN fetched \union {t} ELSE fetched)

\* Only the value that is returned differs.
LEMMA AnsweredSound ==
  ASSUME NEW s, NEW g, Sound(s), IsOpen(s), Alike(s, g, {"ret"})
  PROVE  /\ Sound(g) /\ IsOpen(g) /\ SamePlace(s, g)
         /\ Aligned(s) => Aligned(g)
         /\ Buffered(s) => Buffered(g)
         /\ \A fetched : FetchedOne(s, fetched) => FetchedOne(g, fetched)
<1>1. Alike(s, g, {"ret", "fout", "curId"})
  BY DEF Alike
<1>2. Sound(g) /\ IsOpen(g)
  BY <1>1, AlikeSound
<1>3. SamePlace(s, g) /\ g.trees = s.trees /\ g.out = s.out /\ g.ptr = s.ptr
        /\ g.curId = s.curId
  BY DEF Alike, SamePlace, Members, InitStorage
<1>4. Current(g) = Current(s) /\ Chained(g) = Chained(s)
  BY <1>3, SameCurrent
<1>5. Aligned(s) => Aligned(g)
  BY <1>3 DEF Aligned
<1>6. Buffered(s) => Buffered(g)
  BY <1>3, <1>4 DEF Buffered, Buffers, Fresh, SamePlace
<1>7. \A fetched : FetchedOne(s, fetched) => FetchedOne(g, fetched)
  BY <1>3, <1>4 DEF FetchedOne, AtEvent, SamePlace
<1>. QED
  BY <1>2, <1>3, <1>5, <1>6, <1>7

\* An entry that is read again is the one that was there.
LEMMA FetchSound ==
  ASSUME NEW s, Sound(s), IsOpen(s), NEW t \in Chained(s), s.mode = "READ",
         s.index # 0
  PROVE  LET g == Fetch(s, t)
         IN GetDone(s, g, t) /\ (s.check => GetFetched(s, g, t))
<1>. DEFINE e == s.chain[t][s.index]
            ptrs == [s.ptr EXCEPT ![t] = e]
            filled == [s EXCEPT !.ptr[t] = e, !.ret = TRUE]
            g == Fetch(s, t)
<1>0. /\ Good(s) /\ Typed(s) /\ Provided(s) /\ Within(s) /\ s.status # "OPENED"
      /\ s.index \in Nat /\ s.nevents \in Nat /\ s.index <= s.nevents
      /\ t \in DataTypes
  BY DEF Sound, Provided, Within, Typed, Chained
<1>1. e \in Contents
  BY <1>0, EntryIn
<1>2. g = IF ~s.check THEN filled
          ELSE IF s.curId = NoId THEN [filled EXCEPT !.curId = EventId[e]]
          ELSE [filled EXCEPT !.ret = (EventId[e] = s.curId)]
  BY DEF Fetch
<1>. HIDE DEF e
<1>3. /\ DOMAIN filled = Members /\ filled.ptr = ptrs /\ filled.ret = TRUE
      /\ \A f \in Members \ {"ptr", "ret"} : filled[f] = s[f]
  BY <1>0 DEF Good, Members, InitStorage
<1>. HIDE DEF filled, g
<1>4. /\ DOMAIN g = Members /\ g.ptr = ptrs
      /\ \A f \in Members \ {"ptr", "ret", "curId"} : g[f] = s[f]
  BY <1>2, <1>3 DEF Members, InitStorage
<1>5. s.check =>
        /\ s.curId = NoId => g.ret = TRUE /\ g.curId = EventId[e]
        /\ s.curId # NoId => g.ret = (EventId[e] = s.curId) /\ g.curId = s.curId
  BY <1>2, <1>3 DEF Members, InitStorage
<1>6. /\ g.status = s.status /\ g.trees = s.trees /\ g.out = s.out
      /\ g.held = s.held /\ g.reads = s.reads /\ SamePlace(s, g)
  BY <1>4 DEF Members, InitStorage, SamePlace
<1>7. ptrs \in [DataTypes -> Contents]
  BY <1>0, <1>1 DEF Typed
<1>8. Current(g) = Current(s) /\ Chained(g) = Chained(s)
  BY <1>6, SameCurrent
<1>9. Sound(g) /\ IsOpen(g)
  <2>1. Good(g) /\ IsOpen(g)
    BY <1>0, <1>4 DEF Good, Members, InitStorage, IsOpen
  <2>2. Typed(g)
    BY <1>0, <1>4, <1>7 DEF Typed, Members, InitStorage
  <2>3. Provided(g)
    BY <1>0, <1>6, <1>8 DEF Provided, Within, SamePlace
  <2>. QED
    BY <1>0, <1>6, <2>1, <2>2, <2>3 DEF Sound
<1>10. Aligned(s) => Aligned(g)
  BY <1>6 DEF Aligned
<1>11. ASSUME s.check, NEW fetched \in SUBSET DataTypes, FetchedOne(s, fetched)
       PROVE  FetchedOne(g, IF g.ret THEN fetched \union {t} ELSE fetched)
  <2>. DEFINE after == IF g.ret THEN fetched \union {t} ELSE fetched
  <2>1. ASSUME NEW u \in fetched \union (Chained(s) \intersect {EVENT})
        PROVE  AtEvent(s, u) /\ u \in DataTypes /\ s.curId # NoId
    <3>1. AtEvent(s, u)
      BY <1>0, <1>11 DEF FetchedOne
    <3>2. u \in DataTypes /\ s.ptr[u] \in Contents
      BY <1>0, <1>11 DEF Typed, Chained
    <3>. QED
      BY <3>1, <3>2, EventIdAssumption DEF AtEvent, Contents
  <2>2. ptrs[t] = e /\ \A u : u \in DataTypes /\ u # t => ptrs[u] = s.ptr[u]
    BY <1>0 DEF Typed
  <2>3. e = g.chain[t][g.index]
    BY <1>6 DEF e, SamePlace
  <2>. HIDE DEF ptrs
  <2>4. ASSUME NEW u \in after \union (Chained(s) \intersect {EVENT})
        PROVE  AtEvent(g, u)
    <3>1. CASE u = t
      <4>1. CASE g.ret
        <5>1. EventId[e] = g.curId
          BY <1>5, <1>11, <4>1
        <5>. QED
          BY <1>4, <2>2, <2>3, <3>1, <5>1 DEF AtEvent
      <4>2. CASE ~g.ret
        <5>1. u \in fetched \union (Chained(s) \intersect {EVENT})
          BY <2>4, <4>2
        <5>2. EventId[e] = s.curId /\ s.curId # NoId
          BY <2>1, <3>1, <5>1 DEF AtEvent, e
        <5>. QED
          BY <1>5, <1>11, <4>2, <5>2
      <4>. QED
        BY <4>1, <4>2
    <3>2. CASE u # t
      <4>1. u \in fetched \union (Chained(s) \intersect {EVENT})
        BY <2>4, <3>2
      <4>2. g.curId = s.curId /\ ptrs[u] = s.ptr[u]
        BY <1>5, <1>11, <2>1, <2>2, <3>2, <4>1
      <4>. QED
        BY <1>4, <1>6, <2>1, <4>1, <4>2 DEF AtEvent, SamePlace
    <3>. QED
      BY <3>1, <3>2
  <2>. HIDE DEF after
  <2>5. g.index # 0
    BY <1>6 DEF SamePlace
  <2>6. FetchedOne(g, after)
    BY <1>8, <2>4, <2>5 DEF FetchedOne
  <2>. QED
    BY <2>6 DEF after
<1>12. s.check => GetFetched(s, g, t)
  BY <1>11 DEF GetFetched
<1>. QED
  BY <1>6, <1>9, <1>10, <1>12 DEF GetDone, g

\* A product that get_data() makes is not one of the input, and is empty.
LEMMA CreateSound ==
  ASSUME NEW s, Sound(s), IsOpen(s), NEW t \in DataTypes \ s.held, s.mode # "READ"
  PROVE  LET c == CreateProduct(s, t)
         IN /\ Sound(c) /\ IsOpen(c) /\ SamePlace(s, c) /\ DOMAIN c = Members
            /\ Aligned(s) => Aligned(c)
            /\ Buffered(s) => Buffered(c)
<1>. DEFINE c == CreateProduct(s, t)
<1>0. /\ Good(s) /\ Typed(s) /\ Provided(s) /\ s.status # "OPENED"
      /\ t \in DataTypes /\ t \notin s.trees
  BY DEF Sound, Good
<1>1. /\ DOMAIN c = Members
      /\ c.held = s.held \union {t} /\ c.trees = s.trees \union {t}
      /\ c.writes = s.writes \union {t}
      /\ c.ptr = [s.ptr EXCEPT ![t] = Cleared] /\ c.out = [s.out EXCEPT ![t] = <<>>]
      /\ \A f \in Members \ {"held", "trees", "writes", "ptr", "out"} : c[f] = s[f]
  BY <1>0 DEF CreateProduct, Good, Members, InitStorage
<1>. HIDE DEF c
<1>2. SamePlace(s, c) /\ c.status = s.status /\ c.reads = s.reads
  BY <1>1 DEF SamePlace, Members, InitStorage
<1>3. Current(c) = Current(s) /\ Chained(c) = Chained(s)
  BY <1>2, SameCurrent
<1>4. Good(c) /\ IsOpen(c)
  BY <1>0, <1>1 DEF Good, Members, InitStorage, IsOpen
<1>5. c.ptr \in [DataTypes -> Contents] /\ c.out \in Entries
  <2>1. Cleared \in Contents /\ <<>> \in Seq(Contents)
    BY EventIdAssumption DEF Contents
  <2>. QED
    BY <1>0, <1>1, <2>1 DEF Typed, Entries
<1>6. Typed(c)
  BY <1>0, <1>1, <1>5 DEF Typed, Members, InitStorage
<1>7. Provided(c)
  BY <1>0, <1>1, <1>2, <1>3 DEF Provided, Within, SamePlace
<1>8. Sound(c)
  BY <1>0, <1>2, <1>4, <1>6, <1>7 DEF Sound
<1>9. /\ c.ptr[t] = Cleared /\ c.out[t] = <<>>
      /\ \A u \in s.trees : c.ptr[u] = s.ptr[u] /\ c.out[u] = s.out[u]
                              /\ s.out[u] \in Seq(Contents)
  BY <1>0, <1>1 DEF Typed, Entries, Good
<1>10. ASSUME Aligned(s) PROVE Aligned(c)
  <2>1. ASSUME NEW u \in c.trees, NEW v \in c.trees
        PROVE  AlignedPair(c.out[u], c.out[v])
    <3>1. c.out[u] \in Seq(Contents) /\ c.out[v] \in Seq(Contents)
      BY <1>4, <1>5 DEF Good, Entries
    <3>2. (u \in s.trees /\ v \in s.trees) \/ c.out[u] = <<>> \/ c.out[v] = <<>>
      BY <1>1, <1>9
    <3>3. CASE u \in s.trees /\ v \in s.trees
      BY <1>9, <1>10, <3>3 DEF Aligned
    <3>. QED
      BY <3>1, <3>2, <3>3, AlignedEmpty
  <2>. QED
    BY <2>1 DEF Aligned
<1>11. Buffered(s) => Buffered(c)
  <2>1. Fresh(s) => Fresh(c)
    BY <1>1, <1>9 DEF Fresh
  <2>2. Buffers(s) => Buffers(c)
    BY <1>1, <1>3, <1>9 DEF Buffers
  <2>. QED
    BY <1>2, <2>1, <2>2 DEF Buffered, SamePlace
<1>. QED
  BY <1>1, <1>2, <1>4, <1>8, <1>10, <1>11 DEF c

LEMMA GetDataSound ==
  ASSUME NEW s, Sound(s), IsOpen(s), NEW t \in DataTypes
  PROVE  LET g == GetData(s, t)
         IN GetDone(s, g, t) /\ (s.mode = "READ" /\ s.check => GetFetched(s, g, t))
<1>. DEFINE c == CreateProduct(s, t)
            g == GetData(s, t)
<1>0. Good(s) /\ Provided(s) /\ DOMAIN s = Members
  BY DEF Sound, Good
<1>1. g = IF s.index = 0 /\ s.mode # "WRITE" THEN [s EXCEPT !.ret = FALSE]
          ELSE IF s.mode = "READ" /\ s.chain[t] # <<>> THEN Fetch(s, t)
          ELSE [c EXCEPT !.ret = (t \in c.held)]
  BY DEF GetData
<1>2. t \in s.held \/ s.mode = "READ" => c = s
  BY DEF CreateProduct
<1>. HIDE DEF c, g
<1>3. CASE s.index = 0 /\ s.mode # "WRITE"
  <2>1. g = [s EXCEPT !.ret = FALSE]
    BY <1>1, <1>3
  <2>2. Alike(s, g, {"ret"}) /\ g.ret = FALSE
    BY <1>0, <2>1 DEF Alike, Members, InitStorage
  <2>. QED
    BY <2>2, AnsweredSound DEF GetDone, GetFetched, g
<1>4. CASE ~(s.index = 0 /\ s.mode # "WRITE") /\ s.mode = "READ" /\ s.chain[t] # <<>>
  <2>1. g = Fetch(s, t) /\ t \in Chained(s)
    BY <1>1, <1>4 DEF Chained
  <2>. QED
    BY <1>4, <2>1, FetchSound DEF g
<1>5. CASE ~(s.index = 0 /\ s.mode # "WRITE") /\ ~(s.mode = "READ" /\ s.chain[t] # <<>>)
  <2>1. g = [c EXCEPT !.ret = (t \in c.held)]
    BY <1>1, <1>5
  <2>2. CASE t \in s.held \/ s.mode = "READ"
    <3>1. g = [s EXCEPT !.ret = (t \in s.held)]
      BY <1>2, <2>1, <2>2
    <3>2. Alike(s, g, {"ret"}) /\ g.ret = (t \in s.held)
      BY <1>0, <3>1 DEF Alike, Members, InitStorage
    <3>3. s.mode = "READ" => ~g.ret
      <4>1. s.mode = "READ" => t \notin s.held
        BY <1>0, <1>5 DEF Provided, Chained
      <4>. QED
        BY <3>2, <4>1
    <3>. QED
      BY <1>5, <3>2, <3>3, AnsweredSound DEF GetDone, GetFetched, g
  <2>3. CASE ~(t \in s.held \/ s.mode = "READ")
    <3>1. /\ Sound(c) /\ IsOpen(c) /\ SamePlace(s, c) /\ DOMAIN c = Members
          /\ Aligned(s) => Aligned(c)
          /\ Buffered(s) => Buffered(c)
      BY <2>3, CreateSound DEF c
    <3>2. Alike(c, g, {"ret"})
      BY <2>1, <3>1 DEF Alike, Members, InitStorage
    <3>3. /\ Sound(g) /\ IsOpen(g) /\ SamePlace(c, g)
          /\ Aligned(c) => Aligned(g)
          /\ Buffered(c) => Buffered(g)
      BY <3>1, <3>2, AnsweredSound
    <3>4. SamePlace(s, g)
      BY <3>1, <3>3 DEF SamePlace
    <3>. QED
      BY <1>5, <2>3, <3>1, <3>3, <3>4 DEF GetDone, g
  <2>. QED
    BY <2>2, <2>3
<1>. QED
  BY <1>3, <1>4, <1>5

\* The program fills a product that is its own with the event at hand.
LEMMA FillSound ==
  ASSUME NEW s, Sound(s), IsOpen(s), NEW t \in DataTypes,
         s.mode # "READ", s.mode # "WRITE" => s.index # 0,
         s.nwritten + 1 \in Contents
  PROVE  LET f == [s EXCEPT !.ptr[t] = Current(s)]
         IN /\ Sound(f) /\ IsOpen(f) /\ SamePlace(s, f)
            /\ Aligned(s) => Aligned(f)
            /\ Buffered(s) => Buffered(f)
<1>. DEFINE now == Current(s)
            f == [s EXCEPT !.ptr[t] = now]
<1>0. Good(s) /\ Typed(s) /\ Provided(s) /\ s.status # "OPENED"
  BY DEF Sound
<1>1. now \in Contents
  <2>1. CASE s.mode = "WRITE"
    BY <2>1 DEF Current
  <2>2. CASE s.mode # "WRITE" /\ Chained(s) = {}
    BY <2>2, EventIdAssumption DEF Current, Contents
  <2>3. CASE s.mode # "WRITE" /\ Chained(s) # {}
    <3>1. Chained(s) \in SUBSET Nat
      BY DataTypesAssumption DEF Chained
    <3>2. Min(Chained(s)) \in Chained(s)
      BY <2>3, <3>1, MinOf
    <3>3. s.index \in Nat /\ 0 < s.index /\ s.index <= s.nevents
      BY <1>0, <2>3 DEF Typed, Provided, Within
    <3>4. s.chain[Min(Chained(s))][s.index] \in Contents
      BY <2>3, <3>2, <3>3, EntryIn
    <3>. QED
      BY <2>3, <3>4 DEF Current
  <2>. QED
    BY <2>1, <2>2, <2>3
<1>. HIDE DEF now
<1>2. /\ DOMAIN f = Members /\ f.ptr = [s.ptr EXCEPT ![t] = now]
      /\ \A m \in Members \ {"ptr"} : f[m] = s[m]
  BY <1>0 DEF Good, Members, InitStorage
<1>. HIDE DEF f
<1>3. /\ SamePlace(s, f) /\ f.status = s.status /\ f.reads = s.reads
      /\ f.trees = s.trees /\ f.out = s.out /\ f.held = s.held
  BY <1>2 DEF SamePlace, Members, InitStorage
<1>4. Current(f) = now /\ Chained(f) = Chained(s)
  BY <1>3, SameCurrent DEF now
<1>5. Good(f) /\ IsOpen(f)
  BY <1>0, <1>2 DEF Good, Members, InitStorage, IsOpen
<1>6. Typed(f)
  BY <1>0, <1>1, <1>2 DEF Typed, Members, InitStorage
<1>7. Provided(f)
  BY <1>0, <1>3, <1>4 DEF Provided, Within, SamePlace
<1>8. Aligned(s) => Aligned(f)
  BY <1>3 DEF Aligned
<1>9. ASSUME Buffered(s) PROVE Buffered(f)
  <2>1. ~(s.mode = "BOTH" /\ s.nread = 0)
    BY <1>9 DEF Buffered
  <2>2. ASSUME NEW u \in f.trees
        PROVE  f.ptr[u] = Cleared \/ EventId[f.ptr[u]] = EventId[Current(f)]
    <3>1. u \in DataTypes /\ u \in s.trees
      BY <1>0, <1>3 DEF Good
    <3>2. CASE u = t
      BY <1>0, <1>2, <1>4, <3>2 DEF Typed
    <3>3. CASE u # t
      <4>1. f.ptr[u] = s.ptr[u]
        BY <1>0, <1>2, <3>1, <3>3 DEF Typed
      <4>. QED
        BY <1>4, <1>9, <3>1, <4>1 DEF Buffered, Buffers, now
    <3>. QED
      BY <3>2, <3>3
  <2>. QED
    BY <1>3, <2>1, <2>2 DEF Buffered, Buffers, SamePlace
<1>. QED
  BY <1>0, <1>3, <1>5, <1>6, <1>7, <1>8, <1>9 DEF Sound, f, now

-------------------------------------------------------------------------------
(* The steps of the program, with what is in its entries.                  *)

AInv ==
  /\ SInv /\ Sound(st)
  /\ got \subseteq DataTypes
  /\ calls \in 0 .. MaxEvents
  /\ IsOpen(st) => st.nwritten <= calls
  /\ IsOpen(st) /\ loop = "running" /\ st.check =>
       IF st.mode = "READ" THEN FetchedOne(st, got) ELSE Buffered(st)
  /\ st.check /\ st.mode # "READ" => Aligned(st)

LEMMA ClosedAligned == ASSUME NEW s, Good(s), ~IsOpen(s) PROVE Aligned(s)
BY DEF Good, Aligned

LEMMA JoinedFiles ==
  ASSUME NEW p, p \in Seq(Range(p)), NEW q, q \in Seq(Range(q))
  PROVE  p \o q \in Seq(Range(p \o q))
<1>. DEFINE S == Range(p) \union Range(q)
            r == p \o q
<1>1. p \in Seq(S) /\ q \in Seq(S)
  OBVIOUS
<1>2. r \in Seq(S)
  BY <1>1
<1>. HIDE DEF r
<1>3. Len(r) \in Nat /\ r \in [1 .. Len(r) -> S]
  BY <1>2
<1>4. r \in [1 .. Len(r) -> Range(r)]
  BY <1>3 DEF Range
<1>5. r \in Seq(Range(r))
  BY <1>3, <1>4, SeqDef
<1>. QED
  BY <1>5 DEF r

LEMMA AInit == Init => AInv
<1>. SUFFICES ASSUME Init PROVE AInv
  OBVIOUS
<1>1. SInv
  BY InitStep
<1>2. st = InitStorage /\ got = {} /\ calls = 0 /\ ~IsOpen(st)
  BY DEF Init, InitStorage, IsOpen, OpenStatus
<1>3. Sound(st) /\ Good(st)
  BY <1>2, InitSound DEF Sound
<1>. QED
  BY <1>1, <1>2, <1>3, ClosedAligned, SessionsAssumption DEF AInv

LEMMA AConfigure ==
  ASSUME AInv,
         NEW m \in Modes, NEW l \in InLists(opens), NEW r \in ReadSets(opens),
         NEW a \in BOOLEAN, NEW n \in BOOLEAN, Configure(m, l, r, a, n)
  PROVE  AInv'
<1>1. SInv' /\ ~IsOpen(st) /\ UNCHANGED <<got, calls>>
  BY ConfigureStep DEF AInv, Configure
<1>2. Good(st) /\ Typed(st) /\ Emptied(st)
  BY <1>1 DEF AInv, Sound
<1>3. Good(st') /\ st'.status # "OPENED"
  BY <1>1 DEF SInv
<1>4. /\ DOMAIN st' = Members /\ st'.mode = m /\ st'.inFiles = st.inFiles \o l
      /\ \A f \in Members \ {"mode", "inFiles", "reads", "check", "outName"} :
           st'[f] = st[f]
  BY <1>2 DEF Configure, Good, Members, InitStorage
<1>5. ~IsOpen(st')
  BY <1>1, <1>4 DEF IsOpen, Members, InitStorage
<1>6. st'.inFiles \in Seq(Range(st'.inFiles))
  <2>1. l \in Seq(Range(l))
    BY SessionsAssumption DEF AInv, SInv
  <2>. QED
    BY <1>2, <1>4, <2>1, JoinedFiles DEF Typed
<1>7. Typed(st') /\ Emptied(st')
  BY <1>2, <1>4, <1>6 DEF Typed, Emptied, Members, InitStorage
<1>8. Sound(st)'
  BY <1>3, <1>5, <1>7 DEF Sound
<1>. QED
  BY <1>1, <1>3, <1>5, <1>8, ClosedAligned DEF AInv

LEMMA AOpen ==
  ASSUME AInv, NEW b \in BOOLEAN, OpenFile(b)
  PROVE  AInv'
<1>1. /\ SInv' /\ st' = Open(st, b) /\ ~IsOpen(st) /\ got' = {} /\ calls' = 0
  BY OpenStep DEF AInv, OpenFile
<1>2. Sound(st') /\ (IsOpen(st') => st'.index = 0 /\ st'.ptr = AllCleared)
  BY <1>1, OpenSound DEF AInv
<1>3. IsOpen(st') => st'.nread = 0 /\ st'.nwritten = 0 /\ st'.out = NoTrees
  BY <1>1, OpenLemma DEF AInv, Sound
<1>4. Good(st')
  BY <1>2 DEF Sound
<1>5. Aligned(st')
  <2>1. CASE IsOpen(st')
    <3>1. AlignedPair(<<>>, <<>>)
      <4>1. <<>> \in Seq(Contents)
        OBVIOUS
      <4>. QED
        BY <4>1, AlignedEmpty
    <3>2. \A t \in st'.trees : st'.out[t] = <<>>
      BY <1>3, <1>4, <2>1 DEF Good, NoTrees
    <3>. QED
      BY <3>1, <3>2 DEF Aligned
  <2>. QED
    BY <1>4, <2>1, ClosedAligned
<1>6. ASSUME IsOpen(st') PROVE Buffered(st') /\ FetchedOne(st', {})
  <2>1. Fresh(st')
    BY <1>2, <1>4, <1>6 DEF Fresh, AllCleared, Good
  <2>. QED
    BY <1>2, <1>6, <2>1 DEF Buffered, Buffers, Fresh, FetchedOne
<1>. QED
  BY <1>1, <1>2, <1>3, <1>5, <1>6, SessionsAssumption DEF AInv

LEMMA ANext ==
  ASSUME AInv, NextEventCall \/ \E i \in 0 .. MaxEvents : GoToCall(i)
  PROVE  AInv'
<1>1. /\ SInv' /\ IsOpen(st) /\ loop = "running" /\ calls < MaxEvents
      /\ calls' = calls + 1 /\ got' = {}
      /\ loop' = "running" => st'.ret
  BY NextEventStep, GoToStep DEF AInv, NextEventCall, GoToCall, Looping
<1>2. NextFits(st)
  BY <1>1, BufferedPending DEF AInv, NextFits
<1>3. NextDone(st, st')
  <2>1. CASE NextEventCall
    BY <1>1, <1>2, <2>1, NextEventSound DEF AInv, NextEventCall
  <2>2. ASSUME NEW i \in 0 .. MaxEvents, GoToCall(i) PROVE NextDone(st, st')
    BY <1>1, <1>2, <2>2, GoToSound DEF AInv, GoToCall
  <2>. QED
    BY <2>1, <2>2
<1>4. calls' \in 0 .. MaxEvents /\ st'.nwritten <= calls'
  <2>1. st.nwritten \in Nat /\ calls \in Nat /\ st.nwritten <= calls /\ MaxEvents \in Nat
    BY <1>1, SessionsAssumption DEF AInv, SInv, Good
  <2>. QED
    BY <1>1, <1>3, <2>1 DEF NextDone
<1>. QED
  BY <1>1, <1>3, <1>4 DEF AInv, NextDone

LEMMA AGetData ==
  ASSUME AInv, NEW t \in DataTypes, NEW fills \in BOOLEAN, GetDataCall(t, fills)
  PROVE  AInv'
<1>. DEFINE g == GetData(st, t)
<1>1. /\ SInv' /\ IsOpen(st) /\ loop = "running" /\ UNCHANGED <<loop, calls>>
      /\ st' = IF fills /\ g.ret /\ t \notin Chained(st)
               THEN [g EXCEPT !.ptr[t] = Current(st)] ELSE g
      /\ got' = IF g.ret THEN got \union {t} ELSE got
  BY GetDataStep DEF AInv, GetDataCall, CurrentEvent, Current
<1>2. /\ GetDone(st, g, t)
      /\ st.mode = "READ" /\ st.check => GetFetched(st, g, t)
  BY <1>1, GetDataSound DEF AInv
<1>. HIDE DEF g
<1>3. st' = g \/ (st' = [g EXCEPT !.ptr[t] = Current(g)] /\ g.ret /\ g.mode # "READ")
  <2>1. Current(g) = Current(st) /\ g.mode = st.mode
    BY <1>2, SameCurrent DEF GetDone, SamePlace
  <2>. QED
    BY <1>1, <1>2, <2>1 DEF GetDone
<1>4. st.nwritten + 1 \in Contents
  <2>1. st.nwritten \in Nat /\ st.nwritten <= calls /\ calls \in 0 .. MaxEvents
    BY <1>1 DEF AInv, SInv, Good
  <2>2. st.nwritten + 1 \in 0 .. MaxEvents + 1
    BY <2>1, SessionsAssumption
  <2>. QED
    BY <2>2, SessionsAssumption DEF Contents
<1>5. /\ Sound(st') /\ IsOpen(st') /\ SamePlace(st, st')
      /\ Aligned(st) => Aligned(st')
      /\ st.mode # "READ" /\ Buffered(st) => Buffered(st')
  <2>1. CASE st' = g
    BY <1>2, <2>1 DEF GetDone
  <2>2. CASE st' = [g EXCEPT !.ptr[t] = Current(g)] /\ g.ret /\ g.mode # "READ"
    <3>1. /\ Sound(g) /\ IsOpen(g) /\ SamePlace(st, g)
          /\ g.mode # "WRITE" => g.index # 0
          /\ g.nwritten + 1 \in Contents
      BY <1>2, <1>4, <2>2 DEF GetDone, SamePlace
    <3>2. /\ Sound(st') /\ IsOpen(st') /\ SamePlace(g, st')
          /\ Aligned(g) => Aligned(st')
          /\ Buffered(g) => Buffered(st')
      BY <2>2, <3>1, FillSound
    <3>. QED
      BY <1>2, <3>1, <3>2 DEF GetDone, SamePlace
  <2>. QED
    BY <1>3, <2>1, <2>2
<1>6. st.mode = "READ" /\ st.check => FetchedOne(st', got')
  <2>1. st.mode = "READ" => st' = g
    BY <1>2, <1>3 DEF GetDone, SamePlace
  <2>. QED
    BY <1>1, <1>2, <2>1 DEF AInv, GetFetched
<1>7. got' \subseteq DataTypes
  BY <1>1 DEF AInv
<1>. QED
  BY <1>1, <1>5, <1>6, <1>7 DEF AInv, SamePlace

LEMMA AClose ==
  ASSUME AInv, CloseFile \/ ResetCall
  PROVE  AInv'
<1>1. SInv' /\ ~IsOpen(st')
  BY CloseStep DEF AInv
<1>2. Good(st) /\ Typed(st) /\ (IsOpen(st) \/ Emptied(st))
  BY DEF AInv, Sound
<1>3. Sound(st')
  BY <1>2, CloseSound, ResetSound DEF CloseFile, ResetCall, AInv
<1>4. got' \subseteq DataTypes /\ calls' \in 0 .. MaxEvents
  BY SessionsAssumption DEF AInv, CloseFile, ResetCall
<1>. QED
  BY <1>1, <1>3, <1>4, ClosedAligned DEF AInv, Sound

LEMMA AStepped == AInv /\ [Next]_vars => AInv'
<1>. SUFFICES ASSUME AInv, [Next]_vars PROVE AInv'
  OBVIOUS
<1>1. CASE UNCHANGED vars
  <2>1. SInv'
    BY <1>1, Stepped DEF AInv
  <2>. QED
    BY <1>1, <2>1 DEF vars, AInv
<1>2. CASE Next
  BY <1>2, AConfigure, AOpen, ANext, AGetData, AClose DEF Next
<1>. QED
  BY <1>1, <1>2

-------------------------------------------------------------------------------
\* The event loop stays inside every tree it reads, whatever an earlier open()
\* left of its number of events.
THEOREM LoopWithinTreesAlways == Spec => []LoopWithinTrees
<1>1. AInv => LoopWithinTrees
  BY DEF AInv, Sound, Provided, Within, LoopWithinTrees
<1>. QED
  BY <1>1, AInit, AStepped, PTL DEF Spec

\* In READ mode the products that get_data() returns for one event carry the
\* number of that event, for any input files and any order of the calls.
THEOREM ProductsOfOneEventAlways == Spec => []ProductsOfOneEvent
<1>1. AInv => ProductsOfOneEvent
  <2>. SUFFICES ASSUME AInv, st.mode = "READ", st.check, loop = "running", NEW t \in got,
                       NEW u \in got \union (Chained(st) \intersect {EVENT})
                PROVE  EventId[st.ptr[t]] = EventId[st.ptr[u]]
    BY DEF ProductsOfOneEvent
  <2>1. CASE IsOpen(st)
    BY <2>1 DEF AInv, FetchedOne, AtEvent
  <2>2. CASE ~IsOpen(st)
    <3>1. st.ptr = AllCleared /\ t \in DataTypes /\ u \in DataTypes
      BY <2>2 DEF AInv, Sound, Emptied, Chained
    <3>. QED
      BY <3>1 DEF AllCleared
  <2>. QED
    BY <2>1, <2>2
<1>. QED
  BY <1>1, AInit, AStepped, PTL DEF Spec

\* Entries of two output trees that are equally far from the end are of the same
\* event, unless the program left one of them empty.
THEOREM OutputAlignedAlways == Spec => []OutputAligned
<1>1. AInv => OutputAligned
  BY DEF AInv, Aligned, AlignedPair, OutputAligned
<1>. QED
  BY <1>1, AInit, AStepped, PTL DEF Spec
===============================================================================
