---------------------------- MODULE ProxyServer -----------------------------
(***************************************************************************)
(* The processes of proxyme.c: the one in server_loop() (main() itself, or *)
(* the child it forks with -d), the handler forked for every connection,   *)
(* and the signals SIGCHLD, whose handler reaps, and SIGTERM, which ends   *)
(* the server.  What a handler does is ProxySession.  Pending signals of   *)
(* one kind are merged by the kernel into one.                             *)
(***************************************************************************)
EXTENDS Integers, SequencesExt

CONSTANTS
  Client,    \* the connections clients make, each once
  Stray,     \* BOUND: the calls of accept() that fail
  NoClient   \* the value of client_sock outside an iteration of the loop

ASSUME ClientAssumption == NoClient \notin Client \cup Stray /\ Client \cap Stray = {}

\* The iterations of the loop: one for each call of accept().
Round == Client \cup Stray

VARIABLES
  alive,        \* FALSE once SIGTERM has ended the server
  loop,         \* where it is in server_loop()
  client_sock,  \* what accept() returned there; a Stray stands for -1
  backlog,      \* connections accept() has not returned
  child,        \* the process forked in each iteration; "failed": fork() did
  holders,      \* the processes that have each connection's socket open
  pending,      \* a SIGCHLD is pending for the server
  reaping       \* the server is inside sigchld_handler()

serverVars == <<alive, loop, client_sock, backlog, child, holders, pending, reaping>>

ServerTypeOK ==
  /\ alive \in BOOLEAN /\ loop \in {"accept", "fork", "close"}
  /\ client_sock \in Round \cup {NoClient}
  /\ loop = "accept" <=> client_sock = NoClient
  /\ backlog \in Seq(Client)
  /\ child \in [Round -> {"none", "running", "failed", "zombie", "reaped"}]
  /\ holders \in [Round -> SUBSET {"server", "handler"}]
  /\ pending \in BOOLEAN /\ reaping \in BOOLEAN

ServerInit ==
  /\ alive = TRUE /\ loop = "accept"
  /\ client_sock = NoClient /\ backlog = <<>>
  /\ child = [c \in Round |-> "none"]
  /\ holders = [c \in Round |-> {}]
  /\ pending = FALSE /\ reaping = FALSE

-----------------------------------------------------------------------------
(* server_loop(); a signal handler interrupts it between two of its steps, *)
(* and accept() is restarted after it (signal() of glibc).                 *)

Looping == alive /\ ~ reaping

Accept ==
  /\ Looping /\ loop = "accept" /\ backlog # <<>>
  /\ client_sock' = Head(backlog)
  /\ backlog' = Tail(backlog)
  /\ holders' = [holders EXCEPT ![Head(backlog)] = {"server"}]
  /\ loop' = "fork"
  /\ UNCHANGED <<alive, child, pending, reaping>>

\* Nobody looks whether accept() has failed.
AcceptFails ==
  /\ Looping /\ loop = "accept"
  /\ client_sock' \in {s \in Stray : child[s] = "none"}
  /\ loop' = "fork"
  /\ UNCHANGED <<alive, backlog, child, holders, pending, reaping>>

\* fork() duplicates the socket, if there is one; when it fails (-1 # 0) nobody
\* is there to handle the connection.
AfterFork == "close"
Duplicated(hs) == IF "server" \in hs THEN hs \cup {"handler"} ELSE hs

Fork ==
  /\ Looping /\ loop = "fork"
  /\ \/ /\ child' = [child EXCEPT ![client_sock] = "running"]
        /\ holders' = [holders EXCEPT ![client_sock] = Duplicated(@)]
     \/ /\ child' = [child EXCEPT ![client_sock] = "failed"]
        /\ UNCHANGED holders
  /\ loop' = AfterFork
  /\ UNCHANGED <<alive, client_sock, backlog, pending, reaping>>

\* close(client_sock).  NotClosed: it is forgotten.
NotClosed(c) == holders
ClosedBy(c) == [holders EXCEPT ![c] = @ \ {"server"}]

Close ==
  /\ Looping /\ loop = "close"
  /\ holders' = ClosedBy(client_sock)
  /\ client_sock' = NoClient
  /\ loop' = "accept"
  /\ UNCHANGED <<alive, backlog, child, pending, reaping>>

-----------------------------------------------------------------------------
(* Signals.                                                                *)

Zombies == {c \in Round : child[c] = "zombie"}

SigchldHandler ==
  /\ Looping /\ pending
  /\ pending' = FALSE /\ reaping' = TRUE
  /\ UNCHANGED <<alive, loop, client_sock, backlog, child, holders>>

\* After a child has been reaped: `while`.  OnlyOne: `if`.
OnlyOne == FALSE
Again == TRUE

\* waitpid() has nothing to reap and returns.  Blocking: without WNOHANG it
\* waits for the children that still run.
Blocking == \A c \in Round : child[c] \notin {"running", "zombie"}
NoneToReap == Zombies = {}

WaitPid ==
  /\ alive /\ reaping
  /\ \/ /\ \E c \in Zombies : child' = [child EXCEPT ![c] = "reaped"]
        /\ reaping' = Again
     \/ /\ NoneToReap
        /\ reaping' = FALSE
        /\ UNCHANGED child
  /\ UNCHANGED <<alive, loop, client_sock, backlog, holders, pending>>

\* sigterm_handler() closes server_sock and exits, which closes the rest; the
\* children, dead or alive, are left to init, which reaps them.
Sigterm ==
  /\ alive /\ alive' = FALSE
  /\ backlog' = <<>>
  /\ holders' = [c \in Round |-> holders[c] \ {"server"}]
  /\ child' = [c \in Round |-> IF c \in Zombies THEN "reaped" ELSE child[c]]
  /\ UNCHANGED <<loop, client_sock, pending, reaping>>

-----------------------------------------------------------------------------
(* Handlers and clients.                                                   *)

\* A handler ends: its socket is closed or in the hands of its own children.
\* One forked for no connection does so as well.
HandlerEnds(c) ==
  /\ child[c] = "running"
  /\ child' = [child EXCEPT ![c] = IF alive THEN "zombie" ELSE "reaped"]
  /\ holders' = [holders EXCEPT ![c] = @ \ {"handler"}]
  /\ pending' = (alive \/ pending)
  /\ UNCHANGED <<alive, loop, client_sock, backlog, reaping>>

Connect(c) ==
  /\ alive /\ child[c] = "none"
  /\ ~ Contains(backlog, c) /\ c # client_sock
  /\ backlog' = Append(backlog, c)
  /\ UNCHANGED <<alive, loop, client_sock, child, holders, pending, reaping>>

Server == Accept \/ AcceptFails \/ Fork \/ Close \/ SigchldHandler \/ WaitPid

ServerNext ==
  \/ Server
  \/ Sigterm
  \/ \E c \in Round : HandlerEnds(c)
  \/ \E c \in Client : Connect(c)

ServerSpec == ServerInit /\ [][ServerNext]_serverVars

\* The server runs, and a pending signal is delivered to it.  Sessions may
\* last for ever and nobody has to connect.
FairServerSpec == ServerSpec /\ WF_serverVars(Server) /\ WF_serverVars(SigchldHandler)

-----------------------------------------------------------------------------
(* Properties.                                                             *)

(* A dead child is always noticed, a connection's handler or one forked    *)
(* for no connection: although several deaths can share one SIGCHLD and    *)
(* others happen while the handler of the signal runs, there is never a    *)
(* zombie without a signal pending or a waitpid() to come                  *)
(* (proxyme.c:228-229, 259-262).                                           *)
NoForgottenZombie == alive /\ Zombies # {} => pending \/ reaping

(* A connection is open in the server during its own iteration of the loop *)
(* only, whatever becomes of accept() and fork(), so that the server never *)
(* runs out of descriptors and keeps no connection open that its handler   *)
(* and the forwarders have closed; the handler has it open as long as it   *)
(* runs (proxyme.c:227-236).                                               *)
OwnedByHandler ==
  \A c \in Client : /\ "server" \in holders[c] <=> alive /\ c = client_sock
                    /\ "handler" \in holders[c] <=> child[c] = "running"

(* A client that waits is accepted, however long the sessions of others    *)
(* last and whatever has to be reaped (proxyme.c:261).                     *)
Served ==
  \A c \in Client : Contains(backlog, c) ~> (child[c] # "none" \/ ~ alive)

=============================================================================
