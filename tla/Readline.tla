------------------------------- MODULE Readline -------------------------------
(*****************************************************************************)
(* readline and readline_r of person/client_server, called in a loop by      *)
(* web_child: the first reads a byte at a time, the second keeps what it has *)
(* read beyond the line in an Rline.  The bytes of a stream arrive at any    *)
(* time; a byte is NL or another one.                                        *)
(*****************************************************************************)
EXTENDS Integers, Sequences

CONSTANTS
  Streams,   \* what the peer may send before it closes
  MaxLen,    \* maxlen, at least 2
  RlSize,    \* sizeof(rl_buf)
  NL

VARIABLES
  reader,   \* "readline" or "readline_r"
  stream,   \* what the peer sends
  sent,     \* how many bytes have arrived
  closed,   \* has the peer closed?
  taken,    \* how many bytes read returned
  rl_buf,   \* rl_buf, from rl_bufptr on
  line,     \* the bytes at vptr in this call
  lines,    \* history: what the calls returned, [n, text, from]; from is
            \* how many bytes the calls before it returned
  state     \* "running", "eof" or "failed"

vars == <<reader, stream, sent, closed, taken, rl_buf, line, lines, state>>

peer == <<reader, stream, sent, closed>>
-------------------------------------------------------------------------------
Send ==
  /\ sent < Len(stream)
  /\ sent' = sent + 1
  /\ UNCHANGED <<reader, stream, closed, taken, rl_buf, line, lines, state>>

Close ==
  /\ sent = Len(stream) /\ ~closed
  /\ closed' = TRUE
  /\ UNCHANGED <<reader, stream, sent, taken, rl_buf, line, lines, state>>

Returned ==
  IF lines = <<>> THEN 0
  ELSE lines[Len(lines)].from + Len(lines[Len(lines)].text)

ReturnLine(n, text) ==
  /\ lines' = Append(lines, [n |-> n, text |-> text, from |-> Returned])
  /\ line' = <<>>

(* A byte is stored; the call returns after a newline or when n = maxlen. *)
Store(c) ==
  LET text == Append(line, c) IN
  IF c = NL THEN ReturnLine(Len(text), text)
  ELSE IF Len(text) + 1 = MaxLen THEN ReturnLine(MaxLen, text)
  ELSE line' = text /\ UNCHANGED lines

(* readline: read(fd, &c, 1). *)
ReadByte ==
  /\ state = "running" /\ reader = "readline"
  /\ taken < sent
  /\ taken' = taken + 1
  /\ Store(stream[taken + 1])
  /\ UNCHANGED <<peer, rl_buf, state>>

(* my_read_r: rl_cnt is 0, read what there is. *)
Fill ==
  LET n == IF sent - taken < RlSize THEN sent - taken ELSE RlSize IN
  /\ state = "running" /\ reader = "readline_r"
  /\ rl_buf = <<>> /\ n > 0
  /\ rl_buf' = SubSeq(stream, taken + 1, taken + n)
  /\ taken' = taken + n
  /\ UNCHANGED <<peer, line, lines, state>>

(* Mutant: what is left in the buffer is dropped at the end of a line. *)
TakeByte_Drop ==
  /\ state = "running" /\ rl_buf # <<>>
  /\ rl_buf' = IF Head(rl_buf) = NL THEN <<>> ELSE Tail(rl_buf)
  /\ Store(Head(rl_buf))
  /\ UNCHANGED <<peer, taken, state>>

(* my_read_r: the next byte of the buffer. *)
TakeByte ==
  /\ state = "running" /\ rl_buf # <<>>
  /\ rl_buf' = Tail(rl_buf)
  /\ Store(Head(rl_buf))
  /\ UNCHANGED <<peer, taken, state>>

(* read returns 0. *)
Eof ==
  /\ state = "running" /\ rl_buf = <<>>
  /\ closed /\ taken = sent
  /\ IF line = <<>> THEN state' = "eof" /\ UNCHANGED <<line, lines>>
     ELSE ReturnLine(Len(line) + 1, line) /\ UNCHANGED state
  /\ UNCHANGED <<peer, taken, rl_buf>>

(* read fails: err_sys.  readline_r tries again after EINTR. *)
ReadFails ==
  /\ state = "running" /\ rl_buf = <<>>
  /\ state' = "failed"
  /\ UNCHANGED <<peer, taken, rl_buf, line, lines>>

Init ==
  /\ reader \in {"readline", "readline_r"}
  /\ stream \in Streams
  /\ sent = 0 /\ closed = FALSE
  /\ taken = 0 /\ rl_buf = <<>>
  /\ line = <<>> /\ lines = <<>>
  /\ state = "running"

Next == Send \/ Close \/ ReadByte \/ Fill \/ TakeByte \/ Eof \/ ReadFails

Spec == Init /\ [][Next]_vars
-------------------------------------------------------------------------------
(* s is what the stream has behind the first n bytes. *)
Piece(n, s) == \A j \in 1 .. Len(s) : s[j] = stream[n + j]

(* A line is a piece of the stream behind the lines before it.  It fits in   *)
(* maxlen with its 0, and has its newline at the end or is as long as it may *)
(* be, except the last; the result is the length of the line, or one more    *)
(* when it does not end in a newline.                                        *)
LineKept(i) ==
  LET text == lines[i].text
      ends == text[Len(text)] = NL
  IN  /\ lines[i].from =
            (IF i = 1 THEN 0 ELSE lines[i - 1].from + Len(lines[i - 1].text))
      /\ Piece(lines[i].from, text)
      /\ Len(text) \in 1 .. MaxLen - 1
      /\ \A j \in 1 .. Len(text) - 1 : text[j] # NL
      /\ ends \/ Len(text) = MaxLen - 1 \/ (closed /\ i = Len(lines))
      /\ lines[i].n = (IF ends THEN Len(text) ELSE Len(text) + 1)

(* However the bytes arrive, none is lost, doubled or moved: the lines, the  *)
(* line in progress and the buffer are what read returned, one behind the    *)
(* other.                                                                    *)
LinesKept ==
  /\ taken = Returned + Len(line) + Len(rl_buf)
  /\ Piece(Returned, line) /\ Piece(Returned + Len(line), rl_buf)
  /\ \A i \in DOMAIN lines : LineKept(i)
===============================================================================
