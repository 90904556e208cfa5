----------------------------- MODULE ChatClient -----------------------------
(***************************************************************************)
(* The chat client: client.cpp after fork().  The child reads the keyboard *)
(* and writes each line into a pipe; the parent runs an edge-triggered     *)
(* epoll loop over that pipe and the socket.  The server is seen through   *)
(* the socket only.  A server line is a block of BUF_SIZE bytes, here      *)
(* BufSegments segments of which the first carries the text, as in         *)
(* ChatServer (the shorter CAUTION is seen as such a block too).  Typed    *)
(* lines are short: one read() empties the pipe.                           *)
(***************************************************************************)
EXTENDS Integers, SequencesExt

CONSTANTS
  BufSegments,  \* segments that one server line, and one recv(), is made of
  SendRoom,     \* messages the kernel holds for a server that does not read
  MaxTyped,     \* BOUND: lines the user types
  MaxLines      \* BOUND: lines the server sends

ASSUME BufAssumption == BufSegments \in Nat \ {0, 1}
ASSUME RoomAssumption == SendRoom \in Nat \ {0}
ASSUME BoundAssumption == MaxTyped \in Nat /\ MaxLines \in Nat

VARIABLES
  child,         \* "reading" the keyboard, or "done"
  isClientwork,  \* the parent's flag
  typed, pipe,   \* lines typed so far, and those of them that are in the pipe
  events, ready, \* the batch still to be handled, and edges not yet reported
  link,          \* the socket, see ChatServer; "broken": nothing left to tell
  came, got,     \* segments that have arrived, and that recv() has taken
  shown,         \* the lines printed for the user, 0 for a blank one
  inNet,         \* messages sent that the server has not yet taken
  outbox,        \* every message the kernel took: the lines that are in it
  calm           \* history: so far user and server have let the parent finish
                 \* what there was before they did anything else

user == <<child, typed, pipe>>
stream == <<came, got, shown>>
sending == <<inNet, outbox>>
vars == <<user, isClientwork, events, ready, link, stream, sending, calm>>

TypeOK ==
  /\ child \in {"reading", "done"} /\ isClientwork \in BOOLEAN
  /\ typed \in 0 .. MaxTyped /\ pipe \in Seq(1 .. MaxTyped)
  /\ events \subseteq {"sock", "pipe"} /\ ready \subseteq {"sock", "pipe"}
  /\ link \in {"up", "fin", "bounce", "broken", "reset"}
  /\ came \in 0 .. BufSegments * MaxLines /\ got \in 0 .. came
  /\ shown \in Seq(0 .. MaxLines)
  /\ calm \in BOOLEAN /\ inNet \in 0 .. SendRoom /\ outbox \in Seq(Seq(1 .. MaxTyped))

Init ==
  /\ child = "reading" /\ isClientwork = TRUE
  /\ typed = 0 /\ pipe = <<>>
  /\ events = {} /\ ready = {}
  /\ link = "up" /\ came = 0 /\ got = 0 /\ shown = <<>>
  /\ inNet = 0 /\ outbox = <<>>
  /\ calm = TRUE

\* `while (isClientwork)` is only looked at between two batches.
ParentGone == ~ isClientwork /\ events = {}

Ended == link \in {"fin", "bounce", "broken"}
SockPending == got < came \/ Ended \/ link = "reset"
PipePending == pipe # <<>> \/ child = "done"
Pending == {s \in {"sock", "pipe"} : IF s = "sock" THEN SockPending ELSE PipePending}

-----------------------------------------------------------------------------
(* The child.                                                              *)

\* Nothing is left for the parent to do.
Settled == pipe = <<>> /\ got = came /\ events = {} /\ ready = {}
Acts == calm' = (calm /\ Settled)

\* A line that does not start with "exit" is written into the pipe; once the
\* parent is gone nobody reads it, and SIGPIPE ends the child.  (Of an empty
\* line nothing is written, with or without a parent: nothing happens.)
TypeLine ==
  /\ child = "reading" /\ Acts
  /\ typed < MaxTyped /\ typed' = typed + 1
  /\ IF ParentGone
       THEN child' = "done" /\ UNCHANGED <<pipe, ready>>
       ELSE pipe' = Append(pipe, typed') /\ ready' = ready \cup {"pipe"} /\ UNCHANGED child
  /\ UNCHANGED <<isClientwork, events, link, stream, sending>>

\* "exit", or the end of the input, where write() is asked for strlen("") - 1
\* bytes and fails: the child ends, and with it the pipe's only writer.
TypeExit ==
  /\ child = "reading" /\ Acts
  /\ child' = "done"
  /\ ready' = ready \cup {"pipe"}
  /\ UNCHANGED <<typed, pipe, isClientwork, events, link, stream, sending>>

-----------------------------------------------------------------------------
(* The parent: one step per event of a batch, in any order.                *)

EpollWait ==
  /\ isClientwork /\ events = {} /\ ready \cap Pending # {}
  /\ events' = ready \cap Pending
  /\ ready' = {}
  /\ UNCHANGED <<user, isClientwork, link, stream, sending, calm>>

\* NotAdvanced: `++i` is forgotten.
NotAdvanced(s) == events
Handled(s) == events \ {s}

\* recv() into a zeroed buffer, printed up to its first NUL: a line's text, or
\* nothing when recv() started in the padding of a line.  FullOnly: nothing is
\* printed unless the buffer is full.
RecvLength == IF came - got < BufSegments THEN came - got ELSE BufSegments
FullOnly(pos) ==
  IF pos % BufSegments = 0 /\ came - got >= BufSegments THEN pos \div BufSegments + 1 ELSE 0
TextAt(pos) == IF pos % BufSegments = 0 THEN pos \div BufSegments + 1 ELSE 0

\* What is printed when recv() returns -1 and leaves the buffer as it was.
\* Stale: it was not zeroed and holds the text printed last.
Stale == IF shown = <<>> THEN 0 ELSE Last(shown)
Zeroed == 0

\* recv() returned 0.
StreamEnd == got = came /\ Ended

Receive ==
  /\ "sock" \in events
  /\ events' = Handled("sock")
  /\ \/ /\ got < came                           \* ret > 0
        /\ got' = got + RecvLength
        /\ shown' = Append(shown, TextAt(got))
        /\ UNCHANGED <<isClientwork, link>>
     \/ /\ StreamEnd                              \* ret == 0
        /\ isClientwork' = FALSE
        /\ UNCHANGED <<got, shown, link>>
     \/ /\ got = came /\ ~ StreamEnd             \* ret < 0, not looked at
        /\ shown' = Append(shown, Zeroed)
        /\ link' = IF link = "reset" THEN "broken" ELSE link
        /\ UNCHANGED <<got, isClientwork>>
  /\ UNCHANGED <<user, ready, came, sending, calm>>

\* read() found the end of the pipe.  PipeError: -1 is taken for it.
PipeError == pipe = <<>> /\ child # "done"
PipeEnd == pipe = <<>> /\ child = "done"

ReadEnd ==
  /\ "pipe" \in events /\ PipeEnd
  /\ events' = Handled("pipe")
  /\ isClientwork' = FALSE
  /\ UNCHANGED <<user, ready, link, stream, sending, calm>>

\* The message is what read() put into the zeroed buffer: all the lines in the
\* pipe.  Unzeroed: behind them stands the rest of a longer message before.
Unzeroed(lines) ==
  LET old == IF outbox = <<>> THEN <<>> ELSE Last(outbox)
  IN lines \o SubSeq(old, Len(lines) + 1, Len(old))
Message(lines) == lines

\* read() returned all the lines in the pipe (or -1 and none), and they are
\* sent as one message; the result of that send() is not looked at.
Forward ==
  /\ "pipe" \in events /\ ~ PipeEnd
  /\ pipe' = <<>>
  /\ \/ /\ isClientwork                         \* send() takes the message
        /\ (link = "up" /\ inNet < SendRoom) \/ link \in {"fin", "bounce"}
        /\ outbox' = Append(outbox, Message(pipe))
        /\ inNet' = IF link = "up" THEN inNet + 1 ELSE inNet
        /\ link' = IF link = "fin" THEN "bounce" ELSE link
        /\ events' = Handled("pipe")
        /\ UNCHANGED isClientwork
     \/ /\ \/ ~ isClientwork                    \* sock is closed already
           \/ link = "up" /\ inNet = SendRoom   \* or its buffer is full
           \/ link = "reset"                    \* or the error is told now
        /\ link' = IF isClientwork /\ link = "reset" THEN "broken" ELSE link
        /\ events' = Handled("pipe")
        /\ UNCHANGED <<sending, isClientwork>>
     \/ /\ isClientwork /\ link = "broken"      \* SIGPIPE ends the parent
        /\ isClientwork' = FALSE /\ events' = {}
        /\ UNCHANGED <<sending, link>>
  /\ UNCHANGED <<child, typed, ready, stream, calm>>

Parent == EpollWait \/ Receive \/ ReadEnd \/ Forward

-----------------------------------------------------------------------------
(* The server and the network.                                             *)

LineStarts == came % BufSegments = 0 => came < BufSegments * MaxLines

SegmentArrives ==
  /\ link = "up" /\ LineStarts
  /\ IF came % BufSegments = 0 THEN Acts ELSE UNCHANGED calm
  /\ came' = came + 1
  /\ ready' = ready \cup {"sock"}
  /\ UNCHANGED <<user, isClientwork, events, link, got, shown, sending>>

ServerTakes ==
  /\ inNet > 0 /\ inNet' = inNet - 1
  /\ UNCHANGED <<user, isClientwork, events, ready, link, stream, outbox, calm>>

\* The server ends; with messages it has not read its kernel sends a reset.
ServerEnds ==
  /\ link = "up" /\ Acts
  /\ \/ inNet > 0 /\ link' = "reset"
     \/ inNet = 0 /\ came % BufSegments = 0 /\ link' = "fin"
  /\ ready' = ready \cup {"sock"}
  /\ inNet' = 0
  /\ UNCHANGED <<user, isClientwork, events, stream, outbox>>

ResetReturns ==
  /\ link = "bounce" /\ link' = "broken"
  /\ ready' = ready \cup {"sock"}
  /\ UNCHANGED <<user, isClientwork, events, stream, sending, calm>>

Next ==
  \/ TypeLine \/ TypeExit \/ Parent
  \/ SegmentArrives \/ ServerTakes \/ ServerEnds \/ ResetReturns

Spec == Init /\ [][Next]_vars

\* The parent's loop runs whenever epoll_wait() has something to report, and
\* the rest of a line arrives.  Nobody has to type, and the server may stop
\* reading.
FairSpec ==
  /\ Spec
  /\ WF_vars(Parent)
  /\ WF_vars(SegmentArrives /\ came % BufSegments # 0)

-----------------------------------------------------------------------------
(* Properties.                                                             *)

(* Every event of a batch is still true when its turn comes, so that no    *)
(* read() or recv() comes back empty and is passed on as a message         *)
(* (client.cpp:74-99 does not look for -1).                                *)
BatchIsLive == events \subseteq Pending

(* What is sent to the server, followed by what is in the pipe, is what    *)
(* the user typed: in order, and no line twice although all messages are   *)
(* made in one buffer (client.cpp:62, 75, 91-96).                          *)
SentInOrder ==
  LET lines == FlattenSeq(outbox) \o pipe IN
  \A i, j \in 1 .. Len(lines) : i < j => lines[i] < lines[j]

(* The user never sees a line of the server twice or out of order, blank   *)
(* lines aside, however the stream is cut and whether recv() has brought   *)
(* anything or not (client.cpp:75, 80-87).                                 *)
ShownInOrder ==
  \A i, j \in 1 .. Len(shown) : (i < j /\ shown[j] # 0) => shown[i] < shown[j]

(* The parent ends when the user has typed exit, and when the server has   *)
(* closed the connection, as long as user and server never act before it   *)
(* has handled what there was (client.cpp:58-60, 81-85, 92-94).            *)
EndNoticed == child = "done" \/ link = "fin" ~> (ParentGone \/ ~ calm)

(* On that condition, a line of the server that has arrived is shown       *)
(* (client.cpp:77-88).                                                     *)
LineShown ==
  \A n \in 1 .. MaxLines :
    came = BufSegments * n ~> (n \in ToSet(shown) \/ ParentGone \/ ~ calm)

=============================================================================
