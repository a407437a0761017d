---------------------------- MODULE SocketServer ----------------------------
(***************************************************************************)
(* SocketServer (UserDev/LarlightArgoBackend/SocketServer.cc) multiplexes  *)
(* the viewers of the event display on one thread with select().  Setup(), *)
(* CheckForBadClients(), Listen(), SendTo() and Close() are here, Listen() *)
(* one descriptor at a time, SendTo() one send() at a time; the viewers    *)
(* and the kernel's side of their connections go on in between.            *)
(*                                                                         *)
(* A request is three parts: everything up to the last number, the first   *)
(* digits of that number, and the rest of it with the newline.  sscanf     *)
(* accepts a request once it has the first two.                            *)
(***************************************************************************)
EXTENDS Naturals, Sequences, FiniteSetsExt

CONSTANTS
  Viewers,     \* the programs that ask for events
  MaxFd,       \* bound on limit, the descriptors the process may open
  Patience,    \* 15 seconds, in ticks: what CheckForBadClients() allows
  AnswerSize,  \* send() calls that an answer takes
  SocketRoom   \* of these, how many the kernel takes unread

ASSUME SizesAssumption ==
  /\ MaxFd \in Nat \ {0} /\ Patience \in Nat
  /\ AnswerSize \in Nat \ {0} /\ SocketRoom \in Nat \ {0}

VARIABLES
  mClients,       \* descriptors in the master set, mListener among them
  mFdMax,
  mClientTimers,  \* ticks since Reset(), counted up to Patience + 1
  mRecieveBuffer, \* whose part each third of the buffer holds
  rfds,           \* what the scan of Listen() has left to visit
  pc,             \* where the thread is
  client,         \* the descriptor that main() answers
  request,        \* whose parts main() parsed as the request, until it is answered
  bytessent,      \* send() calls done
  conn,           \* the connection of each viewer
  backlog,        \* viewers that wait for accept()
  limit,          \* the descriptors that accept() may give out are 1 .. limit
  asker           \* history: the viewer whose data made the request

vars == <<mClients, mFdMax, mClientTimers, mRecieveBuffer, rfds, pc, client,
          request, bytessent, conn, backlog, limit, asker>>
kernel == <<conn, backlog>>
sets == <<mClients, mFdMax, mClientTimers>>
message == <<client, request, bytessent, limit, asker>>

mListener == 0          \* mFdMin too: no lower descriptor is ever free
Fds == 1 .. MaxFd
Parts == 1 .. 3
Ages == 0 .. Patience + 1
NoPart == "\\0"
Nobody == "nobody"

NoConnection == [state |-> "none", fd |-> 0, sent |-> 0, gone |-> "no",
                 unread |-> 0, held |-> 0]

Open(v) == conn[v].state = "open"
Owners(fd) == {v \in Viewers : Open(v) /\ conn[v].fd = fd}

-------------------------------------------------------------------------------
(* Setup(): the listening socket is the only member of the master set. *)

Setup ==
  /\ mClients = {mListener} /\ mFdMax = mListener
  /\ mClientTimers = [fd \in Fds |-> 0]
  /\ mRecieveBuffer = [k \in Parts |-> NoPart]
  /\ rfds = {} /\ pc = "check" /\ client = 0
  /\ request = <<>> /\ bytessent = 0 /\ asker = Nobody
  /\ conn = [v \in Viewers |-> NoConnection] /\ backlog = <<>>
  /\ limit \in Fds

(* Faulty: the descriptor stays in the master set. *)
CloseWithoutClear(fds) ==
  /\ mClients' = mClients
  /\ conn' = [v \in Viewers |->
                IF Open(v) /\ conn[v].fd \in fds THEN NoConnection ELSE conn[v]]

(* Both close() and FD_CLR(), for one descriptor or several. *)
CloseAll(fds) ==
  /\ mClients' = mClients \ fds
  /\ conn' = [v \in Viewers |->
                IF Open(v) /\ conn[v].fd \in fds THEN NoConnection ELSE conn[v]]

(* Faulty: the loop ends before mFdMax. *)
CheckedButLast == {fd \in mClients : fd # mListener /\ fd < mFdMax}

(* CheckForBadClients() visits mFdMin .. mFdMax. *)
Checked == {fd \in mClients : fd # mListener /\ fd <= mFdMax}

CheckForBadClients ==
  /\ pc = "check"
  /\ CloseAll({fd \in Checked : mClientTimers[fd] > Patience})
  /\ pc' = "select"
  /\ UNCHANGED <<mFdMax, mClientTimers, mRecieveBuffer, rfds, message, backlog>>

-------------------------------------------------------------------------------
(* Listen() *)

(* Faulty: the master set is scanned instead of what select() returned. *)
WatchedAll == {fd \in mClients : fd <= mFdMax}

(* select() up to mFdMax: a connection to accept, data, or a hang-up. *)
Watched ==
  {fd \in mClients :
     /\ fd <= mFdMax
     /\ \/ (fd = mListener /\ backlog # <<>>)
        \/ \E v \in Owners(fd) : conn[v].sent > 0 \/ conn[v].gone # "no"}

Select ==
  /\ pc = "select"
  /\ Watched # {}
  /\ rfds' = Watched
  /\ pc' = "scan"
  /\ UNCHANGED <<sets, mRecieveBuffer, message, kernel>>

(* The timeout is 100 seconds, so every timer has passed Patience. *)
SelectTimesOut ==
  /\ pc = "select"
  /\ Watched = {}
  /\ \A fd \in mClients \ {mListener} : mClientTimers[fd] > Patience
  /\ pc' = "check"
  /\ UNCHANGED <<sets, mRecieveBuffer, rfds, message, kernel>>

Scanning(fd) == pc = "scan" /\ rfds # {} /\ fd = Min(rfds)
GoOn(fd) == rfds' = rfds \ {fd} /\ pc' = "scan"

(* Faulty: the timer of a descriptor used before goes on. *)
TimersKept(newfd) == mClientTimers

TimersWith(newfd) == [mClientTimers EXCEPT ![newfd] = 0]

(* accept() gives the lowest free descriptor; with none it fails. *)
Accept ==
  /\ Scanning(mListener)
  /\ backlog # <<>>
  /\ IF 1 .. limit \subseteq mClients
     THEN UNCHANGED <<sets, kernel>>
     ELSE LET newfd == Min((1 .. limit) \ mClients)
          IN /\ mClients' = mClients \cup {newfd}
             /\ mFdMax' = IF newfd > mFdMax THEN newfd ELSE mFdMax
             /\ mClientTimers' = TimersWith(newfd)
             /\ conn' = [conn EXCEPT ![Head(backlog)].state = "open",
                                     ![Head(backlog)].fd = newfd]
             /\ backlog' = Tail(backlog)
  /\ GoOn(mListener)
  /\ UNCHANGED <<mRecieveBuffer, message>>

(* recv() returns 0 or an error. *)
HungUp(fd) ==
  /\ Scanning(fd)
  /\ \E v \in Owners(fd) :
       \/ conn[v].gone = "reset"
       \/ /\ conn[v].gone = "closed"
          /\ conn[v].sent = 0
  /\ CloseAll({fd})
  /\ GoOn(fd)
  /\ UNCHANGED <<mFdMax, mClientTimers, mRecieveBuffer, message, backlog>>

(* recv() with MSG_PEEK overwrites only as much of the buffer as has come. *)
Peeked(v) == [k \in Parts |-> IF k <= conn[v].sent THEN v ELSE mRecieveBuffer[k]]

(* SufficientData(): a request is what sscanf can parse. *)
SufficientData(buffer) == buffer[1] # NoPart /\ buffer[2] # NoPart
Parsed(buffer) == SubSeq(buffer, 1, IF buffer[3] = NoPart THEN 2 ELSE 3)

(* mRecieveBuffer[nbytes] = 0, after SufficientData() has looked. *)
Terminated(buffer, n) == [k \in Parts |-> IF k = n + 1 THEN NoPart ELSE buffer[k]]

HasData(v) == conn[v].sent > 0 /\ conn[v].gone # "reset"

Insufficient(fd) ==
  /\ Scanning(fd)
  /\ \E v \in Owners(fd) :
       /\ HasData(v)
       /\ ~SufficientData(Peeked(v))
       /\ mRecieveBuffer' = Terminated(Peeked(v), conn[v].sent)
  /\ GoOn(fd)
  /\ UNCHANGED <<sets, message, kernel>>

(* The message is dispatched: Listen() leaves the scan, main() parses it. *)
Dispatch(fd) ==
  /\ Scanning(fd)
  /\ \E v \in Owners(fd) :
       /\ HasData(v)
       /\ SufficientData(Peeked(v))
       /\ mRecieveBuffer' = Peeked(v)
       /\ request' = Parsed(Peeked(v))
       /\ asker' = v
  /\ client' = fd
  /\ UNCHANGED <<bytessent, limit>>
  /\ rfds' = {}
  /\ pc' = "compose"
  /\ UNCHANGED <<sets, kernel>>

ScanEnds ==
  /\ pc = "scan"
  /\ rfds = {}
  /\ pc' = "check"
  /\ UNCHANGED <<sets, mRecieveBuffer, rfds, message, kernel>>

Listen ==
  \/ Select
  \/ SelectTimesOut
  \/ Accept
  \/ \E fd \in Fds : HungUp(fd) \/ Insufficient(fd) \/ Dispatch(fd)
  \/ ScanEnds

-------------------------------------------------------------------------------
(* SendTo() *)

SendTo ==
  /\ pc = "compose"
  /\ mClientTimers' = [mClientTimers EXCEPT ![client] = 0]
  /\ bytessent' = 0
  /\ pc' = IF client \in mClients THEN "send" ELSE "close"
  /\ request' = <<>>
  /\ UNCHANGED <<mClients, mFdMax, mRecieveBuffer, rfds, client, limit, asker, kernel>>

(* send() takes what there is room for and otherwise blocks; to a viewer *)
(* that is gone it may still succeed.                                    *)
Send ==
  /\ pc = "send"
  /\ \E v \in Owners(client) :
       \/ /\ conn[v].gone = "no" /\ conn[v].unread < SocketRoom
          /\ conn' = [conn EXCEPT ![v].unread = @ + 1]
       \/ /\ conn[v].gone # "no"
          /\ conn' = conn
  /\ bytessent' = bytessent + 1
  /\ pc' = IF bytessent + 1 = AnswerSize THEN "close" ELSE "send"
  /\ UNCHANGED <<sets, mRecieveBuffer, rfds, client, request, backlog, limit,
                 asker>>

SendFails ==
  /\ pc = "send"
  /\ \E v \in Owners(client) : conn[v].gone # "no"
  /\ CloseAll({client})
  /\ pc' = "close"
  /\ UNCHANGED <<mFdMax, mClientTimers, mRecieveBuffer, rfds, message, backlog>>

(* Close(), by main(): a second close() if SendTo() has failed. *)
Close ==
  /\ pc = "close"
  /\ CloseAll({client})
  /\ client' = 0 /\ bytessent' = 0 /\ asker' = Nobody
  /\ pc' = "check"
  /\ UNCHANGED <<mFdMax, mClientTimers, mRecieveBuffer, rfds, request, backlog, limit>>

=============================================================================
