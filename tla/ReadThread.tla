----------------------------- MODULE ReadThread -----------------------------
(***************************************************************************)
(* What the read threads of xfirelib and of the Java library have in       *)
(* common: each loops over a header and a body of one connection, and      *)
(* gives the packet to its listeners.                                      *)
(***************************************************************************)
EXTENDS PacketStream

VARIABLES
  reader,   \* the next recv or read: "header", "body"; "ended" once run returned
  current,  \* the number of the packet whose body is next; 0 if its header was none
  fired     \* what the listeners were given: packet number and wholeness
=============================================================================
