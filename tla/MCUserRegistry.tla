--------------------------- MODULE MCUserRegistry ---------------------------
(* Two people, one of whom spells her Jabber id in two ways; an XFire name   *)
(* in two spellings, one of two words that begins like it and an empty one;  *)
(* a password of one word and one of two.                                    *)
EXTENDS UserRegistry

MCWord == {"ann", "ANN", "bob", "tux", "TUX", "x", "pw", "b1"}
MCText == MCWord \union {"tux x", ""}
MCWords == [t \in MCText |->
              CASE t = "tux x" -> <<"tux", "x">>
                [] t = ""      -> <<>>
                [] OTHER       -> <<t>>]
MCLower == [t \in MCText |->
              IF t = "ANN" THEN "ann" ELSE IF t = "TUX" THEN "tux" ELSE t]
MCJids == {"ann", "ANN", "bob"}
MCNames == {"tux", "TUX", "tux x", ""}
MCPasswords == {"pw"}
MCBuddies == {"b1"}
=============================================================================
