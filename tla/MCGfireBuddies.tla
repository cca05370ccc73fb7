--------------------------- MODULE MCGfireBuddies ---------------------------
(* Two people, friends or not, three log-ins of theirs and two of ours, four *)
(* changes, fewer than three packets on the wire when another is sent.         *)
EXTENDS GfireBuddies
MCBuddy == {"kay", "lee"}
MCStatuses == {"afk", "Online"}
MCBackWords == {"Online"}
=============================================================================
