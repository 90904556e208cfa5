---------------------------- MODULE MCChatServer ----------------------------
(* ChatServer on small instances.                                          *)
EXTENDS ChatServer, TLC

Symmetry == Permutations(Conn)
=============================================================================
