-------------------------- MODULE ArgoBackend_proofs --------------------------
(***************************************************************************)
(* What holds of the event display's server for any number of viewers and  *)
(* descriptors, any patience and any size of answer.                       *)
(***************************************************************************)
EXTENDS ArgoBackend, SequenceTheorems, WellFoundedInduction, TLAPS

(***************************************************************************)
(* The inductive invariant: TypeOK, MasterSetIsOpenSockets and             *)
(* ScanNeverBlocks, and what they rest on.                                 *)
(***************************************************************************)

\* Who waits for accept() waits once, and has no descriptor yet.
Waiting ==
  /\ \A i \in 1 .. Len(backlog) : conn[backlog[i]].state = "backlog"
  /\ \A i, j \in 1 .. Len(backlog) : backlog[i] = backlog[j] => i = j

\* select() leaves nothing behind for the other calls of the loop.
NothingLeftToScan == pc # "scan" => rfds = {}

\* No timer is ahead of the age of the connection it is for.
TimersOfConnections ==
  \A v \in Viewers : Open(v) => mClientTimers[conn[v].fd] <= conn[v].held

\* Between Dispatch and Close the descriptor main() holds in client belongs to
\* the viewer that asked, or to nobody; to nobody if the answer broke off.
Answering ==
  /\ pc \in {"compose", "send", "close"} => \A v \in Owners(client) : v = asker
  /\ pc = "send" => bytessent < AnswerSize
  /\ pc = "close" /\ bytessent # AnswerSize => Owners(client) = {}

IInv ==
  /\ TypeOK
  /\ MasterSetIsOpenSockets
  /\ Waiting
  /\ NothingLeftToScan
  /\ ScanNeverBlocks
  /\ TimersOfConnections
  /\ Answering

(***************************************************************************)
(* The lowest free descriptor is a free descriptor.                        *)
(***************************************************************************)
LEMMA MinIsMember ==
  ASSUME NEW S \in SUBSET Nat, S # {}
  PROVE  Min(S) \in S
<1> DEFINE Less == {ss \in Nat \X Nat : ss[1] < ss[2]}
<1>1. IsWellFoundedOn(Less, Nat)
  BY NatLessThanWellFounded DEF OpToRel
<1>2. PICK x \in S : \A y \in S : ~ (<<y, x>> \in Less)
  <2> HIDE DEF Less
  <2> QED
    BY <1>1, WFMin
<1>3. ASSUME NEW y \in S
      PROVE  x <= y
  <2>1. <<y, x>> \in Nat \X Nat /\ ~ (<<y, x>> \in Less)
    BY <1>2
  <2> QED
    BY <2>1
<1> QED
  BY <1>3 DEF Min

(***************************************************************************)
(* Closing descriptors.                                                    *)
(***************************************************************************)
LEMMA ClosingSockets ==
  ASSUME TypeOK, MasterSetIsOpenSockets, NEW fds, CloseAll(fds),
         mFdMax' = mFdMax
  PROVE  MasterSetIsOpenSockets'
<1>1. \A v \in Viewers : Open(v)' <=> Open(v) /\ conn[v].fd \notin fds
  BY DEF CloseAll, Open, NoConnection, TypeOK
<1>2. \A v \in Viewers : Open(v)' => conn'[v] = conn[v]
  BY DEF CloseAll, Open, NoConnection, TypeOK
<1> QED
  BY <1>1, <1>2 DEF CloseAll, MasterSetIsOpenSockets

LEMMA ClosingType ==
  ASSUME TypeOK, NEW fds, CloseAll(fds)
  PROVE  /\ mClients' \subseteq Fds \cup {mListener}
         /\ conn' \in [Viewers -> Connections]
<1>1. NoConnection \in Connections
  BY SizesAssumption DEF NoConnection, Connections, Ages
<1> QED
  BY <1>1 DEF CloseAll, TypeOK

(***************************************************************************)
(* Types.                                                                  *)
(***************************************************************************)

\* The descriptor that accept() gives out is one of its own, and free.
LEMMA NewDescriptor ==
  ASSUME TypeOK, ~ (1 .. limit \subseteq mClients)
  PROVE  Min((1 .. limit) \ mClients) \in Fds \ mClients
<1>1. (1 .. limit) \ mClients \in SUBSET Nat /\ (1 .. limit) \ mClients # {}
  OBVIOUS
<1>2. Min((1 .. limit) \ mClients) \in (1 .. limit) \ mClients
  BY <1>1, MinIsMember
<1> QED
  BY <1>2, SizesAssumption DEF TypeOK, Fds

LEMMA OlderIsAge ==
  ASSUME NEW age \in Ages
  PROVE  Older(age) \in Ages
BY SizesAssumption DEF Older, Ages

\* What Listen() passes on is a request of two or of three parts.
LEMMA ParsedType ==
  ASSUME NEW buffer \in [Parts -> Viewers \cup {NoPart}], SufficientData(buffer)
  PROVE  Parsed(buffer) \in [1 .. 2 -> Viewers] \cup [Parts -> Viewers]
<1>1. ASSUME NEW n \in {2, 3}, \A k \in 1 .. n : buffer[k] \in Viewers
      PROVE  SubSeq(buffer, 1, n) \in [1 .. n -> Viewers]
  <2>1. SubSeq(buffer, 1, n) \in Seq(Viewers) /\ Len(SubSeq(buffer, 1, n)) = n
    BY <1>1, SubSeqProperties
  <2> QED
    BY <2>1, LenProperties
<1>2. CASE buffer[3] = NoPart
  BY <1>1, <1>2 DEF Parsed, SufficientData, Parts
<1>3. CASE buffer[3] # NoPart
  BY <1>1, <1>3 DEF Parsed, SufficientData, Parts
<1> QED
  BY <1>2, <1>3

LEMMA TypeStep ==
  ASSUME TypeOK, NothingLeftToScan, Answering, [Next]_vars
  PROVE  TypeOK'
<1> USE SizesAssumption
<1>a. conn \in [Viewers -> Connections] /\ mClientTimers \in [Fds -> Ages]
  BY DEF TypeOK
<1>b. 0 \in Ages
  BY DEF Ages
<1>1. CASE CheckForBadClients
  <2>1. mClients' \subseteq Fds \cup {mListener} /\ conn' \in [Viewers -> Connections]
    BY <1>1, ClosingType DEF CheckForBadClients
  <2>2. rfds' \subseteq mClients'
    BY <1>1 DEF CheckForBadClients, NothingLeftToScan
  <2> QED
    BY <1>1, <2>1, <2>2 DEF CheckForBadClients, TypeOK, message
<1>2. CASE Select
  BY <1>2 DEF Select, Watched, TypeOK, sets, message, kernel
<1>3. CASE SelectTimesOut
  BY <1>3 DEF SelectTimesOut, TypeOK, sets, message, kernel
<1>4. CASE Accept
  <2>1. CASE 1 .. limit \subseteq mClients
    BY <1>4, <2>1 DEF Accept, GoOn, TypeOK, sets, message, kernel
  <2>2. CASE ~ (1 .. limit \subseteq mClients)
    <3> DEFINE newfd == Min((1 .. limit) \ mClients)
    <3>1. newfd \in Fds
      BY <2>2, NewDescriptor
    <3> HIDE DEF newfd
    <3>2. Head(backlog) \in Viewers /\ backlog' \in Seq(Viewers)
      <4>1. backlog \in Seq(Viewers) /\ backlog # <<>> /\ backlog' = Tail(backlog)
        BY <1>4, <2>2 DEF Accept, TypeOK
      <4> QED
        BY <4>1
    <3>3. conn' = [conn EXCEPT ![Head(backlog)].state = "open",
                               ![Head(backlog)].fd = newfd]
      BY <1>4, <2>2 DEF Accept, newfd
    <3>4. conn' \in [Viewers -> Connections]
      <4>1. [conn[Head(backlog)] EXCEPT !.state = "open", !.fd = newfd] \in Connections
        BY <1>a, <3>1, <3>2 DEF Connections
      <4>2. conn' = [conn EXCEPT ![Head(backlog)] =
                       [conn[Head(backlog)] EXCEPT !.state = "open", !.fd = newfd]]
        BY <3>3
      <4> QED
        BY <1>a, <3>2, <4>1, <4>2
    <3>5. mClientTimers' \in [Fds -> Ages]
      <4>1. mClientTimers' = [mClientTimers EXCEPT ![newfd] = 0]
        BY <1>4, <2>2 DEF Accept, TimersWith, newfd
      <4> QED
        BY <1>a, <1>b, <3>1, <4>1
    <3>6. /\ mClients' \subseteq Fds \cup {mListener}
          /\ mFdMax' \in Fds \cup {mListener}
          /\ rfds' \subseteq mClients' /\ pc' = "scan"
      BY <1>4, <2>2, <3>1 DEF Accept, GoOn, TypeOK, newfd
    <3> QED
      BY <1>4, <3>2, <3>4, <3>5, <3>6 DEF Accept, TypeOK, message
  <2> QED
    BY <2>1, <2>2
<1>5. ASSUME NEW fd \in Fds, HungUp(fd)
      PROVE  TypeOK'
  <2>1. mClients' \subseteq Fds \cup {mListener} /\ conn' \in [Viewers -> Connections]
    BY <1>5, ClosingType DEF HungUp
  <2>2. rfds' \subseteq mClients'
    BY <1>5 DEF HungUp, CloseAll, GoOn, TypeOK
  <2> QED
    BY <1>5, <2>1, <2>2 DEF HungUp, GoOn, TypeOK, message
<1>6. ASSUME NEW fd \in Fds, Insufficient(fd)
      PROVE  TypeOK'
  <2>1. mRecieveBuffer' \in [Parts -> Viewers \cup {NoPart}]
    BY <1>6 DEF Insufficient, Peeked, Terminated, Owners, TypeOK
  <2> QED
    BY <1>6, <2>1 DEF Insufficient, GoOn, TypeOK, sets, message, kernel
<1>7. ASSUME NEW fd \in Fds, Dispatch(fd)
      PROVE  TypeOK'
  <2>1. PICK v \in Viewers : /\ SufficientData(Peeked(v))
                             /\ mRecieveBuffer' = Peeked(v)
                             /\ request' = Parsed(Peeked(v)) /\ asker' = v
    BY <1>7 DEF Dispatch, Owners
  <2>2. Peeked(v) \in [Parts -> Viewers \cup {NoPart}]
    BY DEF Peeked, TypeOK
  <2>3. Parsed(Peeked(v)) \in [1 .. 2 -> Viewers] \cup [Parts -> Viewers]
    BY <2>1, <2>2, ParsedType
  <2> QED
    BY <1>7, <2>1, <2>2, <2>3 DEF Dispatch, TypeOK, sets, kernel
<1>8. CASE ScanEnds
  BY <1>8 DEF ScanEnds, TypeOK, sets, message, kernel
<1>9. CASE SendTo
  <2>1. mClientTimers' \in [Fds -> Ages]
    BY <1>9, <1>a, <1>b DEF SendTo
  <2> QED
    BY <1>9, <2>1 DEF SendTo, TypeOK, kernel
<1>10. CASE Send
  <2>1. conn' \in [Viewers -> Connections]
    <3>1. PICK v \in Viewers :
            \/ /\ conn[v].unread < SocketRoom
               /\ conn' = [conn EXCEPT ![v].unread = @ + 1]
            \/ conn' = conn
      BY <1>10 DEF Send, Owners
    <3> QED
      BY <1>a, <3>1 DEF Connections
  <2>2. bytessent' \in 0 .. AnswerSize
    BY <1>10 DEF Send, Answering, TypeOK
  <2> QED
    BY <1>10, <2>1, <2>2 DEF Send, TypeOK, sets
<1>11. CASE SendFails
  <2>1. mClients' \subseteq Fds \cup {mListener} /\ conn' \in [Viewers -> Connections]
    BY <1>11, ClosingType DEF SendFails
  <2>2. rfds' \subseteq mClients'
    BY <1>11 DEF SendFails, NothingLeftToScan
  <2> QED
    BY <1>11, <2>1, <2>2 DEF SendFails, TypeOK, message
<1>12. CASE Close
  <2>1. mClients' \subseteq Fds \cup {mListener} /\ conn' \in [Viewers -> Connections]
    BY <1>12, ClosingType DEF Close
  <2>2. rfds' \subseteq mClients'
    BY <1>12 DEF Close, NothingLeftToScan
  <2> QED
    BY <1>12, <2>1, <2>2 DEF Close, TypeOK
<1>13. CASE Tick
  <2>1. mClientTimers' \in [Fds -> Ages]
    BY <1>13, OlderIsAge DEF Tick, TypeOK
  <2>2. ASSUME NEW v \in Viewers
        PROVE  IF Open(v) THEN [conn[v] EXCEPT !.held = Older(@)] \in Connections
                          ELSE conn[v] \in Connections
    <3>1. conn[v] \in Connections
      BY <1>a
    <3>2. Older(conn[v].held) \in Ages
      BY <3>1, OlderIsAge DEF Connections
    <3> QED
      BY <3>1, <3>2 DEF Connections
  <2>3. conn' \in [Viewers -> Connections]
    BY <1>13, <2>2 DEF Tick
  <2> QED
    BY <1>13, <2>1, <2>3 DEF Tick, TypeOK, message
<1>14. ASSUME NEW v \in Viewers, Viewer(v)
       PROVE  TypeOK'
  <2>1. conn' \in [Viewers -> Connections]
    <3>1. CASE Connect(v)
      <4>1. [conn[v] EXCEPT !.state = "backlog"] \in Connections
        BY <1>a DEF Connections
      <4> QED
        BY <1>a, <3>1, <4>1 DEF Connect
    <3>2. CASE SendParts(v)
      BY <1>a, <3>2 DEF SendParts, Connections, Parts
    <3>3. CASE Read(v)
      BY <1>a, <3>3 DEF Read, Connections
    <3>4. CASE HangUp(v)
      <4>1. PICK how \in {"closed", "reset"} :
              conn' = [conn EXCEPT ![v].gone = how, ![v].unread = 0]
        BY <3>4 DEF HangUp
      <4>2. [conn[v] EXCEPT !.gone = how, !.unread = 0] \in Connections
        <5>1. conn[v] \in Connections /\ 0 \in 0 .. SocketRoom
          BY <1>a
        <5>2. [conn[v] EXCEPT !.gone = how] \in Connections
          BY <5>1 DEF Connections
        <5> QED
          BY <5>1, <5>2 DEF Connections
      <4> QED
        BY <1>a, <4>1, <4>2
    <3> QED
      BY <1>14, <3>1, <3>2, <3>3, <3>4 DEF Viewer
  <2>2. backlog' \in Seq(Viewers)
    <3>1. backlog \in Seq(Viewers)
      BY DEF TypeOK
    <3>2. backlog' = backlog \/ backlog' = Append(backlog, v)
      BY <1>14 DEF Viewer, Connect, SendParts, Read, HangUp
    <3> QED
      BY <3>1, <3>2
  <2> QED
    BY <1>14, <2>1, <2>2 DEF Viewer, TypeOK, sets, message
<1>15. CASE UNCHANGED vars
  BY <1>15 DEF vars, TypeOK
<1> QED
  BY <1>1, <1>2, <1>3, <1>4, <1>5, <1>6, <1>7, <1>8, <1>9, <1>10, <1>11, <1>12,
     <1>13, <1>14, <1>15 DEF Next, Server, Listen

(***************************************************************************)
(* Who holds which descriptor: most steps leave it as it is.               *)
(***************************************************************************)
Undisturbed ==
  /\ mClients' = mClients /\ mFdMax' = mFdMax
  /\ \A v \in Viewers : /\ Open(v)' <=> Open(v)
                        /\ conn'[v].fd = conn[v].fd

\* The steps that neither accept nor close a connection.
Quiet ==
  \/ Select \/ SelectTimesOut \/ ScanEnds
  \/ \E fd \in Fds : Insufficient(fd) \/ Dispatch(fd)
  \/ SendTo \/ Send \/ Tick
  \/ \E v \in Viewers : Viewer(v)
  \/ UNCHANGED vars

\* The steps that close connections.
Closing(fds) == CloseAll(fds) /\ UNCHANGED <<mFdMax, mClientTimers, backlog>>

LEMMA StepKinds ==
  ASSUME [Next]_vars
  PROVE  \/ Quiet
         \/ Accept
         \/ \E fds : Closing(fds) /\ (CheckForBadClients \/ SendFails \/ Close
                                        \/ \E fd \in Fds : HungUp(fd))
<1>1. CheckForBadClients => \E fds : Closing(fds)
  BY DEF CheckForBadClients, Closing, message
<1>2. SendFails => \E fds : Closing(fds)
  BY DEF SendFails, Closing, message
<1>3. Close => \E fds : Closing(fds)
  BY DEF Close, Closing
<1>4. \A fd \in Fds : HungUp(fd) => \E fds : Closing(fds)
  BY DEF HungUp, Closing, message
<1> QED
  BY <1>1, <1>2, <1>3, <1>4 DEF Next, Server, Listen, Quiet

LEMMA QuietSteps ==
  ASSUME TypeOK, Quiet
  PROVE  Undisturbed
<1> USE DEF Open
<1>1. conn \in [Viewers -> Connections]
  BY DEF TypeOK
<1>2. CASE Select \/ SelectTimesOut \/ ScanEnds \/ SendTo \/ UNCHANGED vars
  BY <1>2 DEF Select, SelectTimesOut, ScanEnds, SendTo, sets, kernel, vars, Undisturbed
<1>3. CASE \E fd \in Fds : Insufficient(fd) \/ Dispatch(fd)
  BY <1>3 DEF Insufficient, Dispatch, sets, kernel, Undisturbed
<1>4. CASE Send
  <2>1. PICK v \in Viewers : conn' = [conn EXCEPT ![v].unread = @ + 1] \/ conn' = conn
    BY <1>4 DEF Send, Owners
  <2> QED
    BY <1>1, <1>4, <2>1 DEF Send, sets, Undisturbed, Connections
<1>5. CASE Tick
  BY <1>1, <1>5 DEF Tick, Undisturbed, Connections
<1>6. ASSUME NEW v \in Viewers, Viewer(v)
      PROVE  Undisturbed
  <2>1. CASE Connect(v)
    BY <1>1, <1>6, <2>1 DEF Viewer, Connect, sets, Undisturbed, Connections
  <2>2. CASE SendParts(v)
    BY <1>1, <1>6, <2>2 DEF Viewer, SendParts, sets, Undisturbed, Connections
  <2>3. CASE Read(v)
    BY <1>1, <1>6, <2>3 DEF Viewer, Read, sets, Undisturbed, Connections
  <2>4. CASE HangUp(v)
    BY <1>1, <1>6, <2>4 DEF Viewer, HangUp, sets, Undisturbed, Connections
  <2> QED
    BY <1>6, <2>1, <2>2, <2>3, <2>4 DEF Viewer
<1> QED
  BY <1>2, <1>3, <1>4, <1>5, <1>6 DEF Quiet

\* What Accept does when a descriptor is free.
LEMMA AcceptSteps ==
  ASSUME TypeOK, Waiting, Accept
  PROVE  \/ Undisturbed /\ UNCHANGED <<sets, kernel>>
         \/ \E newfd \in Fds \ mClients, v \in Viewers :
              /\ mClients' = mClients \cup {newfd}
              /\ mFdMax' = IF newfd > mFdMax THEN newfd ELSE mFdMax
              /\ mClientTimers' = [mClientTimers EXCEPT ![newfd] = 0]
              /\ conn[v].state = "backlog"
              /\ conn' = [conn EXCEPT ![v].state = "open", ![v].fd = newfd]
              /\ v = Head(backlog) /\ backlog' = Tail(backlog)
<1>1. CASE 1 .. limit \subseteq mClients
  BY <1>1 DEF Accept, Undisturbed, sets, kernel, Open
<1>2. CASE ~ (1 .. limit \subseteq mClients)
  <2> DEFINE newfd == Min((1 .. limit) \ mClients)
  <2>1. newfd \in Fds \ mClients
    BY <1>2, NewDescriptor
  <2>2. Head(backlog) \in Viewers /\ conn[Head(backlog)].state = "backlog"
    <3>1. backlog \in Seq(Viewers) /\ backlog # <<>>
      BY DEF Accept, TypeOK
    <3> QED
      BY <3>1 DEF Waiting
  <2>3. /\ mClients' = mClients \cup {newfd}
        /\ mFdMax' = IF newfd > mFdMax THEN newfd ELSE mFdMax
        /\ mClientTimers' = [mClientTimers EXCEPT ![newfd] = 0]
        /\ conn' = [conn EXCEPT ![Head(backlog)].state = "open",
                                ![Head(backlog)].fd = newfd]
        /\ backlog' = Tail(backlog)
    BY <1>2 DEF Accept, TimersWith
  <2> HIDE DEF newfd
  <2> QED
    BY <2>1, <2>2, <2>3
<1> QED
  BY <1>1, <1>2

LEMMA SocketsStep ==
  ASSUME TypeOK, MasterSetIsOpenSockets, Waiting, [Next]_vars
  PROVE  MasterSetIsOpenSockets'
<1>1. CASE Undisturbed
  BY <1>1 DEF Undisturbed, MasterSetIsOpenSockets
<1>2. ASSUME NEW fds, Closing(fds)
      PROVE  MasterSetIsOpenSockets'
  BY <1>2, ClosingSockets DEF Closing
<1>3. ASSUME NEW newfd \in Fds \ mClients, NEW v \in Viewers,
             mClients' = mClients \cup {newfd},
             mFdMax' = IF newfd > mFdMax THEN newfd ELSE mFdMax,
             conn[v].state = "backlog",
             conn' = [conn EXCEPT ![v].state = "open", ![v].fd = newfd]
      PROVE  MasterSetIsOpenSockets'
  <2>1. conn \in [Viewers -> Connections] /\ mClients \subseteq Nat /\ mFdMax \in Nat
    BY DEF TypeOK, Fds, mListener
  <2>2. \A w \in Viewers : w # v => conn'[w] = conn[w]
    BY <1>3, <2>1
  <2>3. Open(v)' /\ conn'[v].fd = newfd /\ ~ Open(v)
    BY <1>3, <2>1 DEF Open, Connections
  <2>4. mClients' \ {mListener} = {conn'[w].fd : w \in {x \in Viewers : Open(x)'}}
    <3>1. \A w \in Viewers : Open(w)' <=> Open(w) \/ w = v
      BY <2>2, <2>3 DEF Open
    <3>2. {conn'[w].fd : w \in {x \in Viewers : Open(x)'}}
            = {conn[w].fd : w \in {x \in Viewers : Open(x)}} \cup {newfd}
      BY <2>2, <2>3, <3>1
    <3>3. mClients' \ {mListener} = (mClients \ {mListener}) \cup {newfd}
      BY <1>3 DEF Fds, mListener
    <3> QED
      BY <3>2, <3>3 DEF MasterSetIsOpenSockets
  <2>5. \A w \in Viewers : Open(w) => conn[w].fd # newfd
    BY DEF MasterSetIsOpenSockets
  <2>6. \A x, y \in Viewers : Open(x)' /\ Open(y)' /\ x # y => conn'[x].fd # conn'[y].fd
    BY <2>2, <2>3, <2>5 DEF MasterSetIsOpenSockets, Open
  <2>7. \A fd \in mClients' : fd <= mFdMax'
    BY <1>3, <2>1 DEF MasterSetIsOpenSockets, Fds
  <2> QED
    BY <2>4, <2>6, <2>7 DEF MasterSetIsOpenSockets
<1> QED
  BY <1>1, <1>2, <1>3, StepKinds, QuietSteps, AcceptSteps

(***************************************************************************)
(* What select() announced and what waits for accept().                    *)
(***************************************************************************)
LEMMA WaitingStep ==
  ASSUME TypeOK, Waiting, [Next]_vars
  PROVE  Waiting'
<1>1. conn \in [Viewers -> Connections] /\ backlog \in Seq(Viewers)
  BY DEF TypeOK
<1>2. ASSUME backlog' = backlog,
             \A v \in Viewers : conn[v].state = "backlog" => conn'[v].state = "backlog"
      PROVE  Waiting'
  BY <1>1, <1>2 DEF Waiting
<1>3. ASSUME NEW v \in Viewers, conn[v].state = "none",
             conn' = [conn EXCEPT ![v].state = "backlog"],
             backlog' = Append(backlog, v)
      PROVE  Waiting'
  <2>1. \A w \in Viewers : conn'[w].state = IF w = v THEN "backlog" ELSE conn[w].state
    BY <1>1, <1>3 DEF Connections
  <2>2. /\ Len(backlog') = Len(backlog) + 1
        /\ \A i \in 1 .. Len(backlog') :
             backlog'[i] = IF i = Len(backlog) + 1 THEN v ELSE backlog[i]
    BY <1>1, <1>3
  <2>3. \A i \in 1 .. Len(backlog) : backlog[i] \in Viewers /\ backlog[i] # v
    BY <1>1, <1>3 DEF Waiting
  <2> QED
    BY <1>1, <2>1, <2>2, <2>3 DEF Waiting
<1>4. ASSUME NEW newfd, NEW v \in Viewers, v = Head(backlog), backlog # <<>>,
             conn' = [conn EXCEPT ![v].state = "open", ![v].fd = newfd],
             backlog' = Tail(backlog)
      PROVE  Waiting'
  <2>1. \A w \in Viewers : w # v => conn'[w] = conn[w]
    BY <1>1, <1>4
  <2>2. /\ Len(backlog') = Len(backlog) - 1
        /\ \A i \in 1 .. Len(backlog') : backlog'[i] = backlog[i + 1]
    BY <1>1, <1>4, HeadTailProperties
  <2>3. v = backlog[1] /\ Len(backlog) \in Nat \ {0}
    BY <1>1, <1>4
  <2>4. \A i \in 1 .. Len(backlog') : backlog'[i] \in Viewers /\ backlog'[i] # v
    <3>. SUFFICES ASSUME NEW i \in 1 .. Len(backlog')
                  PROVE  backlog'[i] \in Viewers /\ backlog'[i] # v
      OBVIOUS
    <3>1. i + 1 \in 1 .. Len(backlog) /\ 1 \in 1 .. Len(backlog) /\ i + 1 # 1
      BY <2>2, <2>3
    <3>2. backlog'[i] = backlog[i + 1] /\ backlog[i + 1] \in Viewers
      BY <1>1, <2>2, <3>1
    <3>3. backlog[i + 1] # backlog[1]
      BY <1>1, <3>1 DEF Waiting
    <3>. QED
      BY <2>3, <3>2, <3>3
  <2>5. \A i \in 1 .. Len(backlog') : i + 1 \in 1 .. Len(backlog)
    BY <2>2, <2>3
  <2>6. ASSUME NEW i \in 1 .. Len(backlog') PROVE conn'[backlog'[i]].state = "backlog"
    BY <2>1, <2>2, <2>4, <2>5 DEF Waiting
  <2>7. ASSUME NEW i \in 1 .. Len(backlog'), NEW j \in 1 .. Len(backlog'),
               backlog'[i] = backlog'[j]
        PROVE  i = j
    <3>1. i + 1 = j + 1
      BY <2>2, <2>5, <2>7 DEF Waiting
    <3>. QED
      BY <3>1
  <2> QED
    BY <2>6, <2>7 DEF Waiting
<1>5. CASE Accept
  <2>1. backlog # <<>>
    BY <1>5 DEF Accept
  <2> QED
    BY <1>2, <1>4, <1>5, <2>1, AcceptSteps DEF kernel
<1>6. CASE \E fds : Closing(fds)
  BY <1>1, <1>2, <1>6 DEF Closing, CloseAll, Open
<1>7. CASE Quiet
  <2>1. CASE Select \/ SelectTimesOut \/ ScanEnds \/ SendTo \/ UNCHANGED vars
    BY <1>2, <2>1 DEF Select, SelectTimesOut, ScanEnds, SendTo, kernel, vars
  <2>2. CASE \E fd \in Fds : Insufficient(fd) \/ Dispatch(fd)
    BY <1>2, <2>2 DEF Insufficient, Dispatch, kernel
  <2>3. CASE Send
    <3>1. PICK v \in Viewers : conn' = [conn EXCEPT ![v].unread = @ + 1] \/ conn' = conn
      BY <2>3 DEF Send, Owners
    <3>2. \A w \in Viewers : conn'[w].state = conn[w].state
      BY <1>1, <3>1 DEF Connections
    <3> QED
      BY <1>2, <2>3, <3>2 DEF Send
  <2>4. CASE Tick
    <3>1. \A v \in Viewers : conn'[v].state = conn[v].state
      BY <1>1, <2>4 DEF Tick, Connections
    <3> QED
      BY <1>2, <2>4, <3>1 DEF Tick
  <2>5. ASSUME NEW v \in Viewers, Viewer(v)
        PROVE  Waiting'
    <3>1. CASE Connect(v)
      BY <1>3, <3>1 DEF Connect
    <3>2. CASE SendParts(v) \/ Read(v) \/ HangUp(v)
      <4>1. \A w \in Viewers : conn'[w].state = conn[w].state
        <5>1. CASE SendParts(v)
          BY <1>1, <5>1 DEF SendParts, Connections
        <5>2. CASE Read(v)
          BY <1>1, <5>2 DEF Read, Connections
        <5>3. CASE HangUp(v)
          BY <1>1, <5>3 DEF HangUp, Connections
        <5> QED
          BY <3>2, <5>1, <5>2, <5>3
      <4> QED
        BY <1>2, <3>2, <4>1 DEF SendParts, Read, HangUp
    <3> QED
      BY <2>5, <3>1, <3>2 DEF Viewer
  <2> QED
    BY <1>7, <2>1, <2>2, <2>3, <2>4, <2>5 DEF Quiet
<1> QED
  BY <1>5, <1>6, <1>7, StepKinds

LEMMA NothingLeftStep ==
  ASSUME NothingLeftToScan, [Next]_vars
  PROVE  NothingLeftToScan'
<1> USE DEF NothingLeftToScan
<1>1. CASE CheckForBadClients \/ SendTo \/ Send \/ SendFails \/ Close
  BY <1>1 DEF CheckForBadClients, SendTo, Send, SendFails, Close
<1>2. CASE Listen
  BY <1>2 DEF Listen, Select, SelectTimesOut, Accept, HungUp, Insufficient, Dispatch,
            ScanEnds, GoOn
<1>3. CASE Tick \/ UNCHANGED vars \/ \E v \in Viewers : Viewer(v)
  BY <1>3 DEF Tick, vars, Viewer
<1> QED
  BY <1>1, <1>2, <1>3 DEF Next, Server

\* Who has spoken or hung up goes on to have done so, while it is open.
LEMMA StillTalking ==
  ASSUME TypeOK, Waiting, [Next]_vars, NEW v \in Viewers, Open(v), Open(v)',
         conn[v].sent > 0 \/ conn[v].gone # "no"
  PROVE  /\ conn'[v].fd = conn[v].fd
         /\ conn'[v].sent > 0 \/ conn'[v].gone # "no"
<1> USE DEF Open
<1>1. conn \in [Viewers -> Connections]
  BY DEF TypeOK
<1>2. CASE conn' = conn \/ conn'[v] = conn[v]
  BY <1>2
<1>3. CASE Accept
  BY <1>1, <1>2, <1>3, AcceptSteps DEF kernel
<1>4. CASE \E fds : Closing(fds)
  BY <1>1, <1>4 DEF Closing, CloseAll, NoConnection
<1>5. CASE Quiet
  <2>1. CASE Select \/ SelectTimesOut \/ ScanEnds \/ SendTo \/ UNCHANGED vars
    BY <1>2, <2>1 DEF Select, SelectTimesOut, ScanEnds, SendTo, kernel, vars
  <2>2. CASE \E fd \in Fds : Insufficient(fd) \/ Dispatch(fd)
    BY <1>2, <2>2 DEF Insufficient, Dispatch, kernel
  <2>3. CASE Send
    <3>1. PICK w \in Viewers : conn' = [conn EXCEPT ![w].unread = @ + 1] \/ conn' = conn
      BY <2>3 DEF Send, Owners
    <3> QED
      BY <1>1, <3>1 DEF Connections
  <2>4. CASE Tick
    BY <1>1, <2>4 DEF Tick, Connections
  <2>5. ASSUME NEW w \in Viewers, Viewer(w)
        PROVE  /\ conn'[v].fd = conn[v].fd
               /\ conn'[v].sent > 0 \/ conn'[v].gone # "no"
    <3>1. CASE Connect(w)
      BY <1>1, <3>1 DEF Connect, Connections
    <3>2. CASE SendParts(w)
      BY <1>1, <3>2 DEF SendParts, Connections, Parts
    <3>3. CASE Read(w)
      BY <1>1, <3>3 DEF Read, Connections
    <3>4. CASE HangUp(w)
      BY <1>1, <3>4 DEF HangUp, Connections
    <3> QED
      BY <2>5, <3>1, <3>2, <3>3, <3>4 DEF Viewer
  <2> QED
    BY <1>5, <2>1, <2>2, <2>3, <2>4, <2>5 DEF Quiet
<1> QED
  BY <1>3, <1>4, <1>5, StepKinds

\* In a scan only Accept and HungUp lower what is left, by what they attend to.
LEMMA ScanGoesOn ==
  ASSUME [Next]_vars, ~ Select, pc' = "scan"
  PROVE  /\ pc = "scan" /\ rfds' \subseteq rfds
         /\ Accept => mListener \notin rfds'
         /\ \A fd \in Fds : HungUp(fd) => fd \notin rfds'
         /\ backlog' = backlog \/ Accept \/ \E v \in Viewers : backlog' = Append(backlog, v)
<1>a. Accept => mListener \notin rfds'
  BY DEF Accept, GoOn
<1>b. \A fd \in Fds : HungUp(fd) => fd \notin rfds'
  BY DEF HungUp, GoOn
<1>1. CASE CheckForBadClients \/ SendTo \/ Send \/ SendFails \/ Close
  BY <1>1 DEF CheckForBadClients, SendTo, Send, SendFails, Close
<1>2. CASE SelectTimesOut \/ ScanEnds \/ \E fd \in Fds : Dispatch(fd)
  BY <1>2 DEF SelectTimesOut, ScanEnds, Dispatch
<1>3. CASE Accept
  BY <1>a, <1>b, <1>3 DEF Accept, Scanning, GoOn
<1>4. CASE \E fd \in Fds : HungUp(fd)
  BY <1>a, <1>b, <1>4 DEF HungUp, Scanning, GoOn
<1>5. CASE \E fd \in Fds : Insufficient(fd)
  BY <1>a, <1>b, <1>5 DEF Insufficient, Scanning, GoOn, kernel
<1>6. CASE Tick \/ UNCHANGED vars
  BY <1>a, <1>b, <1>6 DEF Tick, vars
<1>7. ASSUME NEW v \in Viewers, Viewer(v)
      PROVE  /\ rfds' = rfds /\ pc' = pc
             /\ backlog' = backlog \/ backlog' = Append(backlog, v)
  BY <1>7 DEF Viewer, Connect, SendParts, Read, HangUp
<1> QED
  BY <1>1, <1>2, <1>3, <1>4, <1>5, <1>6, <1>7, <1>a, <1>b
     DEF Next, Server, Listen

LEMMA ScanStep ==
  ASSUME TypeOK, MasterSetIsOpenSockets, Waiting, ScanNeverBlocks, [Next]_vars
  PROVE  ScanNeverBlocks'
<1>1. CASE Select
  <2>1. rfds' = Watched /\ conn' = conn /\ backlog' = backlog
    BY <1>1 DEF Select, kernel
  <2>2. Owners(mListener) = {}
    BY DEF Owners, MasterSetIsOpenSockets
  <2>3. \A fd \in Watched :
          IF fd = mListener THEN backlog # <<>>
          ELSE \E v \in Owners(fd) : conn[v].sent > 0 \/ conn[v].gone # "no"
    BY <2>2 DEF Watched
  <2> QED
    BY <2>1, <2>3 DEF ScanNeverBlocks, Owners, Open
<1>2. CASE ~ Select
  <2>1. SUFFICES ASSUME pc' = "scan", NEW fd \in rfds'
                 PROVE  IF fd = mListener THEN backlog' # <<>>
                        ELSE \E v \in Viewers :
                               /\ Open(v)' /\ conn'[v].fd = fd
                               /\ conn'[v].sent > 0 \/ conn'[v].gone # "no"
    BY DEF ScanNeverBlocks, Owners
  <2>2. pc = "scan" /\ fd \in rfds
    BY <1>2, <2>1, ScanGoesOn
  <2>3. CASE fd = mListener
    <3>1. backlog \in Seq(Viewers) /\ backlog # <<>>
      BY <2>2, <2>3 DEF ScanNeverBlocks, TypeOK
    <3>2. backlog' = backlog \/ \E v \in Viewers : backlog' = Append(backlog, v)
      BY <1>2, <2>1, <2>3, ScanGoesOn
    <3> QED
      BY <2>3, <3>1, <3>2
  <2>4. CASE fd # mListener
    <3>1. PICK v \in Viewers : /\ Open(v) /\ conn[v].fd = fd
                               /\ conn[v].sent > 0 \/ conn[v].gone # "no"
      BY <2>2, <2>4 DEF ScanNeverBlocks, Owners
    <3>2. Open(v)'
      <4>1. CASE Quiet
        BY <3>1, <4>1, QuietSteps DEF Undisturbed
      <4>2. CASE Accept
        <5>1. conn \in [Viewers -> Connections]
          BY DEF TypeOK
        <5> QED
          BY <3>1, <4>2, <5>1, AcceptSteps DEF Undisturbed, Open
      <4>3. ASSUME NEW g \in Fds, HungUp(g)
            PROVE  Open(v)'
        <5>1. g # fd
          BY <1>2, <2>1, <4>3, ScanGoesOn
        <5> QED
          BY <3>1, <4>3, <5>1 DEF HungUp, CloseAll, Open
      <4>4. ~ CheckForBadClients /\ ~ SendFails /\ ~ Close
        BY <2>2 DEF CheckForBadClients, SendFails, Close
      <4> QED
        BY <4>1, <4>2, <4>3, <4>4, StepKinds
    <3> QED
      BY <2>4, <3>1, <3>2, StillTalking
  <2> QED
    BY <2>3, <2>4
<1> QED
  BY <1>1, <1>2

(***************************************************************************)
(* Ages, and the answer that is under way.                                 *)
(***************************************************************************)
LEMMA OlderIsMonotonic ==
  ASSUME NEW a \in Ages, NEW b \in Ages, a <= b
  PROVE  Older(a) <= Older(b)
BY SizesAssumption DEF Older, Ages

LEMMA TimersStep ==
  ASSUME TypeOK, MasterSetIsOpenSockets, Waiting, TimersOfConnections, [Next]_vars
  PROVE  TimersOfConnections'
<1>1. /\ conn \in [Viewers -> Connections] /\ mClientTimers \in [Fds -> Ages]
      /\ Ages \subseteq Nat
  BY SizesAssumption DEF TypeOK, Ages
<1>2. \A v \in Viewers : Open(v) => conn[v].fd \in Fds
  BY DEF MasterSetIsOpenSockets, TypeOK
<1>3. ASSUME mClientTimers' = mClientTimers,
             \A v \in Viewers : Open(v)' => /\ Open(v) /\ conn'[v].fd = conn[v].fd
                                            /\ conn'[v].held = conn[v].held
      PROVE  TimersOfConnections'
  BY <1>3 DEF TimersOfConnections
<1>4. CASE conn' = conn /\ mClientTimers' = mClientTimers
  BY <1>4 DEF TimersOfConnections, Open
<1>5. ASSUME NEW fds, Closing(fds)
      PROVE  TimersOfConnections'
  BY <1>1, <1>3, <1>5 DEF Closing, CloseAll, NoConnection, Open
<1>6. CASE Accept
  <2>1. ASSUME NEW newfd \in Fds \ mClients, NEW v \in Viewers,
               mClientTimers' = [mClientTimers EXCEPT ![newfd] = 0],
               conn' = [conn EXCEPT ![v].state = "open", ![v].fd = newfd]
        PROVE  TimersOfConnections'
    <3>1. SUFFICES ASSUME NEW w \in Viewers, Open(w)'
                   PROVE  mClientTimers'[conn'[w].fd] <= conn'[w].held
      BY DEF TimersOfConnections
    <3>2. CASE w = v
      <4>1. conn'[v].fd = newfd /\ conn'[v].held = conn[v].held
        BY <1>1, <2>1 DEF Connections
      <4>2. conn[v].held \in Nat
        BY <1>1 DEF Connections
      <4> QED
        BY <1>1, <2>1, <3>2, <4>1, <4>2
    <3>3. CASE w # v
      <4>1. conn'[w] = conn[w]
        BY <1>1, <2>1, <3>3
      <4>2. Open(w) /\ conn[w].fd # newfd
        BY <2>1, <3>1, <4>1 DEF Open, MasterSetIsOpenSockets
      <4> QED
        BY <1>1, <1>2, <2>1, <4>1, <4>2 DEF TimersOfConnections
    <3> QED
      BY <3>2, <3>3
  <2> QED
    BY <1>4, <1>6, <2>1, AcceptSteps DEF sets, kernel
<1>7. CASE Quiet
  <2>1. CASE Select \/ SelectTimesOut \/ ScanEnds \/ UNCHANGED vars
    BY <1>4, <2>1 DEF Select, SelectTimesOut, ScanEnds, sets, kernel, vars
  <2>2. CASE \E fd \in Fds : Insufficient(fd) \/ Dispatch(fd)
    BY <1>4, <2>2 DEF Insufficient, Dispatch, sets, kernel
  <2>3. CASE SendTo
    <3>1. conn' = conn /\ mClientTimers' = [mClientTimers EXCEPT ![client] = 0]
      BY <2>3 DEF SendTo, kernel
    <3>2. \A v \in Viewers : conn[v].held \in Nat
      BY <1>1 DEF Connections
    <3> QED
      BY <1>1, <1>2, <3>1, <3>2 DEF TimersOfConnections, Open
  <2>4. CASE Send
    <3>1. PICK v \in Viewers : conn' = [conn EXCEPT ![v].unread = @ + 1] \/ conn' = conn
      BY <2>4 DEF Send, Owners
    <3>2. \A w \in Viewers : /\ conn'[w].state = conn[w].state
                             /\ conn'[w].fd = conn[w].fd
                             /\ conn'[w].held = conn[w].held
      BY <1>1, <3>1 DEF Connections
    <3> QED
      BY <1>3, <2>4, <3>2 DEF Send, sets, Open
  <2>5. CASE Tick
    <3>1. SUFFICES ASSUME NEW v \in Viewers, Open(v)'
                   PROVE  mClientTimers'[conn'[v].fd] <= conn'[v].held
      BY DEF TimersOfConnections
    <3>2. Open(v) /\ conn'[v].fd = conn[v].fd
      BY <2>5, <3>1, QuietSteps DEF Quiet, Undisturbed
    <3>3. conn'[v].held = Older(conn[v].held) /\ conn[v].held \in Ages
      BY <1>1, <2>5, <3>2 DEF Tick, Connections
    <3>4. conn[v].fd \in Fds
      BY <1>2, <3>2
    <3>5. /\ mClientTimers'[conn[v].fd] = Older(mClientTimers[conn[v].fd])
          /\ mClientTimers[conn[v].fd] \in Ages
      BY <1>1, <2>5, <3>4 DEF Tick
    <3>6. mClientTimers[conn[v].fd] <= conn[v].held
      BY <3>2 DEF TimersOfConnections
    <3> QED
      BY <3>2, <3>3, <3>5, <3>6, OlderIsMonotonic
  <2>6. ASSUME NEW v \in Viewers, Viewer(v)
        PROVE  TimersOfConnections'
    <3>1. \A w \in Viewers : /\ conn'[w].fd = conn[w].fd
                             /\ conn'[w].held = conn[w].held
      <4>1. CASE Connect(v)
        BY <1>1, <4>1 DEF Connect, Connections
      <4>2. CASE SendParts(v)
        BY <1>1, <4>2 DEF SendParts, Connections
      <4>3. CASE Read(v)
        BY <1>1, <4>3 DEF Read, Connections
      <4>4. CASE HangUp(v)
        BY <1>1, <4>4 DEF HangUp, Connections
      <4> QED
        BY <2>6, <4>1, <4>2, <4>3, <4>4 DEF Viewer
    <3>2. \A w \in Viewers : Open(w)' <=> Open(w)
      BY <2>6, QuietSteps DEF Quiet, Undisturbed
    <3> QED
      BY <1>3, <2>6, <3>1, <3>2 DEF Viewer, sets
  <2> QED
    BY <1>7, <2>1, <2>2, <2>3, <2>4, <2>5, <2>6 DEF Quiet
<1> QED
  BY <1>5, <1>6, <1>7, StepKinds

\* No two connections have one descriptor.
LEMMA OneOwner ==
  ASSUME MasterSetIsOpenSockets, NEW v \in Viewers, NEW fd, v \in Owners(fd)
  PROVE  Owners(fd) = {v}
BY DEF MasterSetIsOpenSockets, Owners

LEMMA AnsweringStep ==
  ASSUME TypeOK, MasterSetIsOpenSockets, Waiting, Answering, [Next]_vars
  PROVE  Answering'
<1> USE SizesAssumption
<1>1. Undisturbed => \A fd : Owners(fd)' = Owners(fd)
  BY DEF Undisturbed, Owners
<1>2. CASE pc' \notin {"compose", "send", "close"}
  BY <1>2 DEF Answering
<1>3. CASE Undisturbed /\ UNCHANGED <<pc, client, bytessent, asker>>
  BY <1>1, <1>3 DEF Answering
<1>4. CASE CheckForBadClients \/ Select \/ SelectTimesOut \/ Accept \/ ScanEnds \/ Close
           \/ \E fd \in Fds : HungUp(fd) \/ Insufficient(fd)
  BY <1>2, <1>4 DEF CheckForBadClients, Select, SelectTimesOut, Accept, ScanEnds, Close,
       HungUp, Insufficient, GoOn
<1>5. ASSUME NEW fd \in Fds, Dispatch(fd)
      PROVE  Answering'
  <2>1. PICK v \in Owners(fd) : asker' = v
    BY <1>5 DEF Dispatch
  <2>2. Owners(fd)' = {v}
    <3>1. Owners(fd)' = Owners(fd)
      BY <1>1, <1>5, QuietSteps DEF Quiet
    <3> QED
      BY <2>1, <3>1, OneOwner DEF Owners
  <2>3. client' = fd /\ pc' = "compose"
    BY <1>5 DEF Dispatch
  <2> QED
    BY <2>1, <2>2, <2>3 DEF Answering
<1>6. CASE SendTo
  <2>1. \A fd : Owners(fd)' = Owners(fd)
    BY <1>1, <1>6, QuietSteps DEF Quiet
  <2>2. pc = "compose" /\ client' = client /\ asker' = asker /\ bytessent' = 0
    BY <1>6 DEF SendTo
  <2>3. CASE client \in mClients
    BY <1>6, <2>1, <2>2, <2>3 DEF SendTo, Answering
  <2>4. CASE client \notin mClients
    <3>1. Owners(client) = {}
      BY <2>4 DEF Owners, MasterSetIsOpenSockets
    <3> QED
      BY <1>6, <2>1, <2>2, <2>4, <3>1 DEF SendTo, Answering
  <2> QED
    BY <2>3, <2>4
<1>7. CASE Send
  <2>1. \A fd : Owners(fd)' = Owners(fd)
    BY <1>1, <1>7, QuietSteps DEF Quiet
  <2>2. /\ pc = "send" /\ bytessent' = bytessent + 1
        /\ pc' = IF bytessent + 1 = AnswerSize THEN "close" ELSE "send"
        /\ client' = client /\ asker' = asker
    BY <1>7 DEF Send
  <2>3. bytessent \in Nat /\ bytessent < AnswerSize
    BY <2>2 DEF Answering, TypeOK
  <2> QED
    BY <2>1, <2>2, <2>3 DEF Answering
<1>8. CASE SendFails
  <2>1. Owners(client)' = {}
    BY <1>8 DEF SendFails, CloseAll, Owners, Open, NoConnection, message
  <2> QED
    BY <1>8, <2>1 DEF SendFails, Answering, message
<1>9. CASE Tick
  BY <1>3, <1>9, QuietSteps DEF Tick, message, Quiet
<1>10. ASSUME NEW v \in Viewers, Viewer(v)
       PROVE  Answering'
  BY <1>3, <1>10, QuietSteps DEF Viewer, message, Quiet
<1>11. CASE UNCHANGED vars
  BY <1>3, <1>11, QuietSteps DEF vars, Quiet
<1> QED
  BY <1>4, <1>5, <1>6, <1>7, <1>8, <1>9, <1>10, <1>11 DEF Next, Server, Listen

(***************************************************************************)
(* The theorems.                                                           *)
(***************************************************************************)
LEMMA InitIInv == Init => IInv
<1> SUFFICES ASSUME Init PROVE IInv
  OBVIOUS
<1> USE SizesAssumption DEF Init, Setup
<1>1. \A v \in Viewers : ~ Open(v)
  BY DEF Open, NoConnection
<1>2. TypeOK
  <2>1. NoConnection \in Connections
    BY DEF NoConnection, Connections, Ages
  <2>2. backlog \in Seq(Viewers) /\ mClientTimers \in [Fds -> Ages]
    BY DEF Ages
  <2> QED
    BY <2>1, <2>2 DEF TypeOK
<1>3. MasterSetIsOpenSockets
  BY <1>1 DEF MasterSetIsOpenSockets, mListener
<1>4. Waiting /\ NothingLeftToScan /\ ScanNeverBlocks /\ TimersOfConnections /\ Answering
  BY <1>1 DEF Waiting, NothingLeftToScan, ScanNeverBlocks, TimersOfConnections, Answering
<1> QED
  BY <1>2, <1>3, <1>4 DEF IInv

LEMMA NextIInv == IInv /\ [Next]_vars => IInv'
BY TypeStep, SocketsStep, WaitingStep, NothingLeftStep, ScanStep, TimersStep,
   AnsweringStep DEF IInv

\* IInv holds in every state the server, the viewers and time can reach.
THEOREM SafeServer == Spec => []IInv
<1>1. Init => IInv
  BY InitIInv
<1>2. IInv /\ [Next]_vars => IInv'
  BY NextIInv
<1> QED
  BY <1>1, <1>2, PTL DEF Spec, SpecSilent

\* Every variable of the server and of the kernel keeps its kind.
THEOREM TypeCorrect == Spec => []TypeOK
<1>1. IInv => TypeOK
  BY DEF IInv
<1> QED
  BY <1>1, SafeServer, PTL

\* The master set is the set of the open sockets, all of them within mFdMax
\* (SocketServer.cc, Listen() and Close()).
THEOREM MasterSetCorrect == Spec => []MasterSetIsOpenSockets
<1>1. IInv => MasterSetIsOpenSockets
  BY DEF IInv
<1> QED
  BY <1>1, SafeServer, PTL

\* Neither accept() nor recv() blocks in the scan of Listen().
THEOREM ScanCorrect == Spec => []ScanNeverBlocks
<1>1. IInv => ScanNeverBlocks
  BY DEF IInv
<1> QED
  BY <1>1, SafeServer, PTL

\* The server lets a viewer go only when it is answered, gone, or too old.
THEOREM ClosedCorrect == Spec => ClosedForAReason
<1> DEFINE Reason ==
      \A v \in Viewers :
        Open(v) /\ conn'[v].state = "none" =>
          \/ (asker = v /\ bytessent = AnswerSize)
          \/ conn[v].gone # "no"
          \/ conn[v].held > Patience
<1>1. IInv /\ [Next]_vars => Reason
  <2> SUFFICES ASSUME IInv, [Next]_vars, NEW v \in Viewers,
                      Open(v), conn'[v].state = "none"
               PROVE  \/ (asker = v /\ bytessent = AnswerSize)
                      \/ conn[v].gone # "no"
                      \/ conn[v].held > Patience
    OBVIOUS
  <2>1. TypeOK /\ MasterSetIsOpenSockets /\ Waiting /\ TimersOfConnections /\ Answering
    BY DEF IInv
  <2>2. ~ Open(v)'
    BY DEF Open
  <2>3. ~ Quiet
    BY <2>1, <2>2, QuietSteps DEF Undisturbed
  <2>4. ~ Accept
    <3>1. conn \in [Viewers -> Connections]
      BY <2>1 DEF TypeOK
    <3> QED
      BY <2>1, <2>2, <3>1, AcceptSteps DEF Undisturbed, Open
  <2>5. CASE CheckForBadClients
    <3>1. mClientTimers[conn[v].fd] > Patience
      BY <2>2, <2>5 DEF CheckForBadClients, CloseAll, Open
    <3>2. /\ conn[v].fd \in Fds /\ mClientTimers \in [Fds -> Ages]
          /\ conn \in [Viewers -> Connections]
      BY <2>1 DEF MasterSetIsOpenSockets, TypeOK
    <3>3. /\ mClientTimers[conn[v].fd] \in Nat /\ conn[v].held \in Nat
          /\ Patience \in Nat
      BY <3>2, SizesAssumption DEF Connections, Ages
    <3>4. mClientTimers[conn[v].fd] <= conn[v].held
      BY <2>1 DEF TimersOfConnections
    <3> QED
      BY <3>1, <3>3, <3>4
  <2>6. ASSUME NEW fd \in Fds, HungUp(fd)
        PROVE  conn[v].gone # "no"
    <3>1. v \in Owners(fd)
      BY <2>2, <2>6 DEF HungUp, CloseAll, Open, Owners
    <3>2. PICK w \in Owners(fd) : conn[w].gone # "no"
      BY <2>6 DEF HungUp
    <3> QED
      BY <2>1, <3>1, <3>2, OneOwner
  <2>7. CASE SendFails
    <3>1. v \in Owners(client)
      BY <2>2, <2>7 DEF SendFails, CloseAll, Open, Owners
    <3>2. PICK w \in Owners(client) : conn[w].gone # "no"
      BY <2>7 DEF SendFails
    <3> QED
      BY <2>1, <3>1, <3>2, OneOwner
  <2>8. CASE Close
    <3>1. v \in Owners(client) /\ pc = "close"
      BY <2>2, <2>8 DEF Close, CloseAll, Open, Owners
    <3> QED
      BY <2>1, <3>1 DEF Answering
  <2> QED
    BY <2>3, <2>4, <2>5, <2>6, <2>7, <2>8, StepKinds
<1>2. IInv /\ [Next]_vars => [Reason]_vars
  BY <1>1
<1> QED
  BY <1>2, SafeServer, PTL DEF Spec, SpecSilent, ClosedForAReason
=============================================================================
