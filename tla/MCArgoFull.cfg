\* Two viewers over one or two descriptors (limit is any number up to MaxFd);
\* with Patience = 0 the 15 seconds of the code are one Tick.
SPECIFICATION Spec
CONSTANTS
  Viewers = {v1, v2}
  MaxFd = 2
  Patience = 0
  AnswerSize = 2
  SocketRoom = 1
INVARIANT FullMessage
