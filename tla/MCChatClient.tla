---------------------------- MODULE MCChatClient ----------------------------
(* ChatClient on small instances; the cfg files give the bounds.           *)
EXTENDS ChatClient
=============================================================================
