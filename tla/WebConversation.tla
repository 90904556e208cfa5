-------------------------- MODULE WebConversation --------------------------
(***************************************************************************)
(* What the web framework promises to each client, without sockets,        *)
(* buffers, handlers or threads: requests are answered in turn, each at    *)
(* most once and with what its resource makes of it.  WebServer implements *)
(* it (WebServer!RefinesConversation).                                     *)
(***************************************************************************)
EXTENDS Integers, SequencesExt

CONSTANTS
  Client,      \* those who may talk to the server, each over one connection
  Question,    \* the requests they may make
  Reply(_, _), \* Reply(n, q): the body of the answer to q, the n-th request
  Final(_)     \* Final(q): the server hangs up after its answer to q

VARIABLES
  up,         \* FALSE once the server has ended
  questions,  \* the requests each client has made
  replies,    \* the answers it has got
  hasty       \* clients that did not always wait for an answer

vars == <<up, questions, replies, hasty>>

Init ==
  /\ up = TRUE
  /\ questions = [c \in Client |-> <<>>]
  /\ replies = [c \in Client |-> <<>>]
  /\ hasty = {}

\* How many requests of c have been dealt with.
Turn(c) == IF replies[c] = <<>> THEN 0 ELSE replies[c][Len(replies[c])].to

Ask(c) ==
  /\ \E q \in Question : questions' = [questions EXCEPT ![c] = Append(@, q)]
  /\ UNCHANGED <<up, replies, hasty>>

Hurry(c) ==
  /\ hasty' = hasty \cup {c}
  /\ UNCHANGED <<up, questions, replies>>

\* A later request is answered, the next one for a client that waits.
Answer(c) ==
  /\ up
  /\ \E n \in Turn(c) + 1 .. Len(questions[c]) :
       /\ c \notin hasty => n = Turn(c) + 1
       /\ replies' = [replies EXCEPT ![c] =
            Append(@, [to |-> n, body |-> Reply(n, questions[c][n])])]
  /\ \A i \in 1 .. Len(replies[c]) : ~ Final(questions[c][replies[c][i].to])
  /\ UNCHANGED <<up, questions, hasty>>

End ==
  /\ up
  /\ up' = FALSE
  /\ UNCHANGED <<questions, replies, hasty>>

Next == End \/ \E c \in Client : Ask(c) \/ Hurry(c) \/ Answer(c)

Spec == Init /\ [][Next]_vars

=============================================================================
