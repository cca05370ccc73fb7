---------------------------- MODULE MCBuddySync ----------------------------
(* Two people who are friends or strangers, four changes after the greeting, *)
(* at most two packets on the wire. The stray word of a games packet is      *)
(* kay's user id or nobody's.                                                *)
EXTENDS BuddySync
MCBuddy == {"kay", "lee"}
MCUserId == [b \in MCBuddy |-> IF b = "kay" THEN 11 ELSE 22]
MCNicks == {"k", "K"}
MCStatuses == {"afk", "Online"}
MCGames == {7}
MCHeapWords == {999, 11}
=============================================================================
