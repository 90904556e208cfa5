----------------------------- MODULE MCContacts -----------------------------
(* Contacts with two lines besides the blank one, of which one is how the  *)
(* other begins.                                                           *)
EXTENDS Contacts
CONSTANTS none, short, long
MCCut ==
  [line \in {none, short, long} |-> CASE line = none -> {}
                                     [] line = short -> {short}
                                     [] line = long -> {short, long}]
=============================================================================
