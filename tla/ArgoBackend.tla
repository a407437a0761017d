----------------------------- MODULE ArgoBackend -----------------------------
(***************************************************************************)
(* The event display's server (LarlightArgoBackend/bin/                    *)
(* larlight-argo-backend.cc): main() checks for bad clients, listens,      *)
(* composes an answer when a request has come, sends it and closes.        *)
(* Around it the viewers connect, send their request in pieces, read the   *)
(* answer or hang up at any moment, and time passes in every step.         *)
(***************************************************************************)
EXTENDS SocketServer

Init == Setup

(* One iteration of main()'s loop: which call comes next is in pc.  The *)
(* composing of an answer takes any time, in pc = "compose".            *)
Server == CheckForBadClients \/ Listen \/ SendTo \/ Send \/ SendFails \/ Close

-------------------------------------------------------------------------------
(* The viewers, and the kernel between them and the server. *)

Connected(v) == conn[v].state # "none" /\ conn[v].gone = "no"

Connect(v) ==
  /\ conn[v].state = "none"
  /\ conn' = [conn EXCEPT ![v].state = "backlog"]
  /\ backlog' = Append(backlog, v)

SendParts(v) ==
  /\ Connected(v)
  /\ \E n \in Parts : n > conn[v].sent /\ conn' = [conn EXCEPT ![v].sent = n]
  /\ UNCHANGED backlog

Read(v) ==
  /\ Connected(v)
  /\ conn[v].unread > 0
  /\ conn' = [conn EXCEPT ![v].unread = @ - 1]
  /\ UNCHANGED backlog

HangUp(v) ==
  /\ Connected(v)
  /\ \E how \in {"closed", "reset"} :
       conn' = [conn EXCEPT ![v].gone = how, ![v].unread = 0]
  /\ UNCHANGED backlog

Viewer(v) ==
  /\ Connect(v) \/ SendParts(v) \/ Read(v) \/ HangUp(v)
  /\ UNCHANGED <<sets, mRecieveBuffer, rfds, pc, message>>

Older(age) == IF age > Patience THEN age ELSE age + 1

Tick ==
  /\ mClientTimers' = [fd \in Fds |-> Older(mClientTimers[fd])]
  /\ conn' = [v \in Viewers |->
                IF Open(v) THEN [conn[v] EXCEPT !.held = Older(@)] ELSE conn[v]]
  /\ <<mClientTimers, conn>>' # <<mClientTimers, conn>>
  /\ UNCHANGED <<mClients, mFdMax, mRecieveBuffer, rfds, pc, message, backlog>>

Next == Server \/ Tick \/ \E v \in Viewers : Viewer(v)

(* The thread runs and time passes.  A viewer need not read. *)
SpecSilent == Init /\ [][Next]_vars /\ WF_vars(Server) /\ WF_vars(Tick)

(* A viewer reads what the kernel holds for it, or hangs up. *)
Reads(v) == Read(v) /\ UNCHANGED <<sets, mRecieveBuffer, rfds, pc, message>>
Spec == SpecSilent /\ \A v \in Viewers : WF_vars(Reads(v))

-------------------------------------------------------------------------------
(* Properties *)

Connections ==
  [state : {"none", "backlog", "open"}, fd : Fds \cup {0}, sent : 0 .. 3,
   gone : {"no", "closed", "reset"}, unread : 0 .. SocketRoom, held : Ages]

(* Every variable holds a value of its kind (the declarations of           *)
(* SocketServer.h, and the kernel's side of a connection).                 *)
TypeOK ==
  /\ mClients \subseteq Fds \cup {mListener} /\ mFdMax \in Fds \cup {mListener}
  /\ mClientTimers \in [Fds -> Ages]
  /\ mRecieveBuffer \in [Parts -> Viewers \cup {NoPart}]
  /\ rfds \subseteq mClients
  /\ pc \in {"check", "select", "scan", "compose", "send", "close"}
  /\ client \in Fds \cup {0} /\ bytessent \in 0 .. AnswerSize
  /\ request \in {<<>>} \cup [1 .. 2 -> Viewers] \cup [Parts -> Viewers]
  /\ asker \in Viewers \cup {Nobody}
  /\ conn \in [Viewers -> Connections]
  /\ backlog \in Seq(Viewers) /\ limit \in Fds

(* The master set is exactly the sockets that are open, one per viewer,    *)
(* and no socket lies above mFdMax where select() and the loops of         *)
(* Listen() and CheckForBadClients() would no longer reach it, although    *)
(* mFdMax is never lowered and descriptors are given out again.            *)
MasterSetIsOpenSockets ==
  /\ mClients \ {mListener} = {conn[v].fd : v \in {w \in Viewers : Open(w)}}
  /\ \A v, w \in Viewers : Open(v) /\ Open(w) /\ v # w => conn[v].fd # conn[w].fd
  /\ \A fd \in mClients : fd <= mFdMax

(* Neither accept() nor recv() in Listen()'s scan can block the only       *)
(* thread: what select() announced is still there when the scan gets to it,*)
(* although the scan accepts and closes descriptors on its way.            *)
ScanNeverBlocks ==
  pc = "scan" =>
    \A fd \in rfds :
      IF fd = mListener THEN backlog # <<>>
      ELSE \E v \in Owners(fd) : conn[v].sent > 0 \/ conn[v].gone # "no"

(* The server closes a connection only when it has sent the whole answer   *)
(* on it, when its viewer has hung up, or when it has been open for more   *)
(* than 15 seconds: a descriptor that is given out again does not inherit  *)
(* the age, nor the request, of the connection that had it before          *)
(* (mClientTimers is never erased).                                        *)
ClosedForAReason ==
  [][\A v \in Viewers :
       Open(v) /\ conn'[v].state = "none" =>
         \/ (asker = v /\ bytessent = AnswerSize)
         \/ conn[v].gone # "no"
         \/ conn[v].held > Patience]_vars

(* Whoever connects is eventually accepted and let go again, answered or   *)
(* not: nobody holds a descriptor for good, even when all are taken.       *)
Attended ==
  \A v \in Viewers : conn[v].state # "none" ~> conn[v].state = "none"

(* SocketServer.cc:160 "Peek ahead to see if we have a full message": what *)
(* main() gets to answer was sent in full, and by the viewer it answers.   *)
FullMessage ==
  pc = "compose" => request = [k \in Parts |-> asker]

(* SocketServer.cc:239 "the use of non-blocking send, which prevents       *)
(* lockups if the client shuts down unexpectedly": the server gets out of  *)
(* every SendTo().                                                         *)
SendNeverLocksUp == pc = "send" ~> pc # "send"

=============================================================================
