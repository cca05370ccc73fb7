--------------------------- MODULE MCGatewayUser ---------------------------
(* Two buddies and two Jabber resources; five stanzas and packets, two packets*)
(* on the wire.                                                              *)
EXTENDS GatewayUser
MCBuddy == {"kay", "lee"}
MCUserId == [b \in MCBuddy |-> IF b = "kay" THEN 11 ELSE 22]
MCHeapWords == {999, 11}
MCSymmetry == Permutations(Resource)
=============================================================================
