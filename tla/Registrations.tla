--------------------------- MODULE Registrations ---------------------------
(***************************************************************************)
(* What the XFire gateway promises about registrations, without the user   *)
(* vector, the configuration file or the order in which either is walked:  *)
(* a set of accounts in use, and the set a restart would bring back.       *)
(* UserRegistry is the detailed specification that implements this one.    *)
(***************************************************************************)
CONSTANTS
  Jid,      \* bare Jabber ids, as the gateway keys its users by
  Name,     \* XFire user names as typed
  Password,
  Fold,        \* the spelling two names are compared by
  OneWord(_)   \* the file gives the name and the password back as they are

Account == [jid : Jid, name : Name, pass : Password]

VARIABLES
  accounts,  \* the accounts the gateway answers for
  saved,     \* the accounts a restart would read back
  busy       \* a request has changed accounts, or is saving, and is unanswered

vars == <<accounts, saved, busy>>

AbsInit == accounts = {} /\ saved = {} /\ busy = FALSE

Conflict(a, b) == a.jid = b.jid \/ Fold[a.name] = Fold[b.name]

Register(a) ==
  /\ ~busy
  /\ \A b \in accounts : ~Conflict(a, b)
  /\ accounts' = accounts \union {a}
  /\ busy' = TRUE
  /\ UNCHANGED saved

ChangePassword(a, p) ==
  /\ ~busy
  /\ a \in accounts
  /\ accounts' = (accounts \ {a}) \union {[a EXCEPT !.pass = p]}
  /\ busy' = TRUE
  /\ UNCHANGED saved

Unregister(a) ==
  /\ ~busy
  /\ a \in accounts
  /\ accounts' = accounts \ {a}
  /\ busy' = TRUE
  /\ UNCHANGED saved

Resave ==
  /\ ~busy
  /\ busy' = TRUE
  /\ UNCHANGED <<accounts, saved>>

\* What is filed for an account: under its jid, and the account itself if its
\* name and password are one word each.
FiledAs(s, a) == s.jid = a.jid /\ (OneWord(a) => s = a)

\* The save is not atomic: part of the accounts may have reached the disk.
SavePart ==
  /\ busy
  /\ \A s \in saved' : \E a \in accounts : FiledAs(s, a)
  /\ UNCHANGED <<accounts, busy>>

\* A request is answered only when a restart would bring back what it did, as
\* far as the file can tell, and nothing of what it undid.
Answer ==
  /\ busy
  /\ \A a \in accounts : OneWord(a) => a \in saved
  /\ \A s \in saved : \E a \in accounts : FiledAs(s, a)
  /\ busy' = FALSE
  /\ UNCHANGED <<accounts, saved>>

\* The process ends and comes back with what was saved.
Restart ==
  /\ accounts' = saved
  /\ busy' = FALSE
  /\ UNCHANGED saved

\* An interrupt during start-up: what was not read back yet is forgotten...
Forget ==
  /\ ~busy
  /\ accounts' \subseteq accounts
  /\ busy' = TRUE
  /\ UNCHANGED saved

\* ... and before anything was read back, everything is lost at once.
Wipe ==
  /\ ~busy
  /\ accounts' = {}
  /\ saved' = {}
  /\ UNCHANGED busy

AbsNext ==
  \/ Resave \/ SavePart \/ Answer \/ Restart \/ Forget \/ Wipe
  \/ \E a \in accounts, p \in Password : ChangePassword(a, p)
  \/ \E a \in accounts : Unregister(a)
  \/ \E a \in Account : Register(a)

AbsSpec == AbsInit /\ [][AbsNext]_vars
=============================================================================
