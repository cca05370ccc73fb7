--------------------------- MODULE MCOwnPresence ---------------------------
(* Two resources; two games and a voice chat with descriptions, one game that *)
(* plugin.xml names without an xfireid, and "no game" among XFire's ids.      *)
EXTENDS OwnPresence
MCPlugin == <<[goimid |-> "tmn", xfireid |-> 0, changestatus |-> "true"],
              [goimid |-> "bf2", xfireid |-> 5, changestatus |-> "true"],
              [goimid |-> "ts2", xfireid |-> 3, changestatus |-> "false"],
              [goimid |-> "aao", xfireid |-> 2, changestatus |-> ""]>>
MCOwnGames == {"tmn", "bf2", "ts2", "aao"}
=============================================================================
