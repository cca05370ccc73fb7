--------------------------- MODULE PacketChannel ---------------------------
(***************************************************************************)
(* What a packet reader promises its listeners: the server's packets, each *)
(* whole, once and in order.  When the connection breaks the reader stops, *)
(* and the packet that was cut may be handed over damaged before that.     *)
(***************************************************************************)
EXTENDS Naturals

VARIABLES
  written,  \* packets the server has written
  handled,  \* packets handed to the listeners, whole and in order
  broken,   \* the connection has ended
  damaged   \* a damaged packet was handed over

vars == <<written, handled, broken, damaged>>

ChannelInit == written = 0 /\ handled = 0 /\ broken = FALSE /\ damaged = FALSE

Write ==
  /\ ~broken
  /\ written' = written + 1
  /\ UNCHANGED <<handled, broken, damaged>>

Handle ==
  /\ handled < written
  /\ ~damaged
  /\ handled' = handled + 1
  /\ UNCHANGED <<written, broken, damaged>>

Break ==
  /\ ~broken
  /\ broken' = TRUE
  /\ UNCHANGED <<written, handled, damaged>>

HandleDamaged ==
  /\ broken /\ ~damaged
  /\ handled < written
  /\ damaged' = TRUE
  /\ UNCHANGED <<written, handled, broken>>

ChannelNext == Write \/ Handle \/ Break \/ HandleDamaged

ChannelSpec == ChannelInit /\ [][ChannelNext]_vars /\ WF_vars(~broken /\ Handle)
=============================================================================
