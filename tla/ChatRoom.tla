------------------------------ MODULE ChatRoom ------------------------------
(***************************************************************************)
(* What the chat server promises to the people in the room, without        *)
(* sockets, descriptors, buffers or the epoll loop.  ChatServer implements *)
(* it (ChatServer!RefinesChatRoom).                                        *)
(***************************************************************************)
EXTENDS Integers, SequencesExt

CONSTANTS
  Member,       \* the people that may come, each once
  Id,           \* the IDs the room gives out
  MaxMessages   \* BOUND: messages one member sends

VARIABLES
  room,   \* the members present
  open,   \* FALSE once the room has been shut down
  inbox,  \* the lines each member was sent, since it came
  said    \* how many messages of each member the room has taken

vars == <<room, open, inbox, said>>

Init ==
  /\ room = {}
  /\ open = TRUE
  /\ inbox = [m \in Member |-> <<>>]
  /\ said = [m \in Member |-> 0]

IdOf(m) == inbox[m][1].id
Say(m, text) == [kind |-> "say", id |-> IdOf(m), from |-> m, text |-> text]
Hear(T, line) ==
  inbox' = [m \in Member |-> IF m \in T THEN Append(inbox[m], line) ELSE inbox[m]]

\* A member comes and is welcomed under an ID nobody present has.
Join(m) ==
  /\ open
  /\ inbox[m] = <<>>
  /\ room' = room \cup {m}
  /\ UNCHANGED <<open, said>>
  /\ \E id \in Id \ {IdOf(n) : n \in room} :
       Hear({m}, [kind |-> "welcome", id |-> id, from |-> m, text |-> 0])

\* The room takes something from m: the text of the next message, or nothing
\* but an empty text (0) while messages are swallowed; none is taken twice.
Takes(m, text) ==
  \E n \in said[m] .. MaxMessages :
    /\ said' = [said EXCEPT ![m] = n]
    /\ text \in {0} \cup ({said[m] + 1} \cap (0 .. n))

\* Everybody else hears it, as a line of m.
Audience(m) == room \ {m}
Speak(m) ==
  /\ open
  /\ m \in room /\ room # {m}
  /\ UNCHANGED <<room, open>>
  /\ \E text \in 0 .. MaxMessages :
       Hear(Audience(m), Say(m, text)) /\ Takes(m, text)

\* Nobody else is there: m is told so, unless the line cannot reach it.
SpeakAlone(m) ==
  /\ open
  /\ room = {m}
  /\ UNCHANGED <<room, open>>
  /\ \E text \in 0 .. MaxMessages :
       /\ Takes(m, text)
       /\ \/ Hear({m}, [Say(m, text) EXCEPT !.kind = "caution"])
          \/ UNCHANGED inbox

Leave(m) ==
  /\ open
  /\ m \in room
  /\ room' = room \ {m}
  /\ UNCHANGED <<open, inbox, said>>

\* The room is shut down, at worst in the middle of a line some have heard.
Shut ==
  /\ open
  /\ open' = FALSE
  /\ \/ UNCHANGED <<inbox, said>>
     \/ \E m \in room, text \in 0 .. MaxMessages :
          /\ Takes(m, text)
          /\ \E T \in SUBSET Audience(m) : Hear(T, Say(m, text))
  /\ UNCHANGED room

Next ==
  \/ Shut
  \/ \E m \in Member : Join(m) \/ Speak(m) \/ SpeakAlone(m) \/ Leave(m)

Spec == Init /\ [][Next]_vars

-----------------------------------------------------------------------------
(* Properties.                                                             *)

SaidByOthers(s, n) ==
  LET kept[i \in 0 .. Len(s)] ==
        IF i = 0 THEN <<>>
        ELSE IF s[i].kind = "say" /\ s[i].from # n THEN Append(kept[i - 1], s[i])
        ELSE kept[i - 1]
  IN kept[Len(s)]
FromOthers(m, n) == SaidByOthers(inbox[m], n)

(* Two members who are both present were told the same story: leaving out  *)
(* their own lines, what the later one has heard is exactly the end of     *)
(* what the earlier one has heard (the loop at utility.h:90-95).           *)
SameStory ==
  open => \A m, n \in room :
            \/ IsSuffix(FromOthers(m, n), FromOthers(n, m))
            \/ IsSuffix(FromOthers(n, m), FromOthers(m, n))

=============================================================================
