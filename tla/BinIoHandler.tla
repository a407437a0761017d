----------------------------- MODULE BinIoHandler -----------------------------
(***************************************************************************)
(* larlight::bin_io_handler (NevisDecoder/FileIO), reading the binary      *)
(* format.  Its members are the record h, and each of its functions an     *)
(* operator on it.  A file is a sequence of words, read one by one, in     *)
(* blocks of a given size, or in blocks whose size is written before them. *)
(***************************************************************************)
EXTENDS Integers, Sequences

EmptyWord == <<"P", <<"N">>, <<"N">>>>   \* FEM::EMPTY_WORD
NoWord == <<>>

\* rest: words not yet read from the file; ended: feof(); buffer: what is left of
\* _read_word_buffer; front: its first word in memory.
NewHandler == [rest |-> <<>>, ended |-> FALSE, eof |-> FALSE, buffer |-> <<>>,
               front |-> NoWord, word |-> EmptyWord, broken |-> FALSE]

\* The words of the file that nobody was given yet.
Unread(h) == h.buffer \o h.rest

\* open() leaves the buffer of the file before.
Open(h, file) == [h EXCEPT !.rest = file, !.ended = FALSE, !.eof = FALSE]

ReadWord(h) ==
  CASE h.eof -> [h EXCEPT !.word = EmptyWord]
    [] ~h.eof /\ h.rest = <<>> -> [h EXCEPT !.eof = TRUE, !.ended = TRUE, !.word = EmptyWord]
    [] OTHER -> [h EXCEPT !.word = Head(h.rest), !.rest = Tail(h.rest)]

FromBuffer(h) == [h EXCEPT !.word = Head(h.buffer), !.buffer = Tail(h.buffer)]

\* The block at the head of the file, and what it leaves of the file.
BlockSize(h, size) == IF Len(h.rest) < size THEN Len(h.rest) ELSE size
Block(h, size) == SubSeq(h.rest, 1, BlockSize(h, size))

\* Faulty: the last word of a block is read again with the next.
PastBlockShort(h, size) == SubSeq(h.rest, BlockSize(h, size), Len(h.rest))

PastBlock(h, size) == SubSeq(h.rest, BlockSize(h, size) + 1, Len(h.rest))

\* A block of a given size: the short one at the end sets eof at once.
ReadBlock(h, size) ==
  LET short == Len(h.rest) < size
      read == [h EXCEPT !.rest = PastBlock(h, size), !.eof = short, !.ended = short,
                        !.buffer = Block(h, size),
                        !.front = IF h.rest = <<>> THEN EmptyWord ELSE Head(h.rest)]
  IN IF h.rest = <<>> THEN [read EXCEPT !.word = EmptyWord] ELSE FromBuffer(read)

\* A block whose size is written before it.  At the end of the file the first
\* word of an empty buffer is taken: an old one, or none was ever allocated.
ReadSized(h, size) ==
  IF h.rest = <<>>
  THEN [h EXCEPT !.eof = TRUE, !.ended = TRUE, !.buffer = <<>>,
                 !.word = IF h.front = NoWord THEN EmptyWord ELSE h.front,
                 !.broken = h.front = NoWord]
  ELSE FromBuffer([h EXCEPT !.rest = PastBlock(h, size), !.buffer = Block(h, size),
                            !.front = Head(h.rest)])

\* The next word, in one of the three ways of reading.
Read(h, mode, size) ==
  IF mode = "word" THEN ReadWord(h)
  ELSE IF h.buffer # <<>> THEN FromBuffer(h)
  ELSE IF h.ended THEN [h EXCEPT !.eof = TRUE, !.word = EmptyWord]
  ELSE IF mode = "block" THEN ReadBlock(h, size)
  ELSE ReadSized(h, size)

===============================================================================
