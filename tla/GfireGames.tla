----------------------------- MODULE GfireGames -----------------------------
(***************************************************************************)
(* gfire's own game: what its accounts tell the server we are playing.     *)
(* Games are joined from a buddy's menu, which starts a program whose exit *)
(* glib reports, or noticed by a timer that looks for a file another       *)
(* program's script writes and removes.  The flags, the pointer to the     *)
(* last connection and the two parsed files (the games' names, and how to  *)
(* launch them) are shared by all accounts.                                *)
(***************************************************************************)
EXTENDS Naturals, Sequences, FiniteSets, SequencesExt

CONSTANTS
  Accounts,
  Games,        \* games the launch file describes
  OtherGames,   \* games it does not
  NoGc,         \* the null pointer
  NoFile, Partial,
  MaxLogins,    \* bound: log-ins of an account
  MaxPrograms   \* bound: programs running at once

ASSUME GamesAssumption ==
  /\ Games \subseteq Nat \ {0} /\ OtherGames \subseteq Nat \ {0}
  /\ Games \intersect OtherGames = {}
  /\ NoGc \notin Accounts
  /\ MaxLogins \in Nat /\ MaxPrograms \in Nat

VARIABLES
  conn,        \* of an account: "off", "login", "ready" once the server said so,
               \* "lost" once reading failed, until gaim closes what is closed
  logins,      \* log-ins so far: names the account's present GaimConnection
  xfire_gc,    \* the account whose connection was opened last, or null
  files,       \* the files there are: gfire_games.xml, gfire_launch.xml
  doc,         \* what was parsed of each: "null", "loaded", "freed"
  ingame,      \* xfire_ingame_flag
  found,       \* the timer callback's static: it has seen the file
  file,        \* ingame.tmp: NoFile, Partial while it is copied, or its game
  programs,    \* started games, with the connection their exit is told on
  menu,        \* account of the buddy whose "Join Game ..." is on the screen
  plays,       \* what that buddy plays, 0 if nothing
  told         \* what each account last told its server, 0 if no game

\* Ghosts: how the in-game status was met; a menu game was ended by the file's
\* removal; two accounts were on at once; something was left behind by a close,
\* a failed log-in or a lost connection; freed memory or a null connection was
\* used.
VARIABLES by, misfired, shared, untidy, faulted

gc == <<conn, logins, xfire_gc, files, doc>>
game == <<ingame, found, programs, told, by, misfired>>
screen == <<menu, plays>>
vars == <<gc, game, file, screen, shared, untidy, faulted>>

On == {a \in Accounts : conn[a] # "off"}
Docs == {"games", "launch"}
Freed(d) == doc[d] = "freed"
Program == [account : Accounts, login : 1..MaxLogins]

TypeOK ==
  /\ conn \in [Accounts -> {"off", "login", "ready", "lost"}]
  /\ logins \in [Accounts -> 0..MaxLogins]
  /\ xfire_gc \in On \union {NoGc}
  /\ files \subseteq Docs /\ doc \in [Docs -> {"null", "loaded", "freed"}]
  /\ ingame \in BOOLEAN /\ found \in BOOLEAN
  /\ file \in {NoFile, Partial} \union Games \union OtherGames
  /\ programs \in Seq(Program) /\ Len(programs) <= MaxPrograms
  /\ menu \in Accounts \union {NoGc}
  /\ plays \in {0} \union Games \union OtherGames
  /\ told \in [Accounts -> {0} \union Games]
  /\ by \in {"none", "file", "menu"} /\ (ingame <=> by # "none")
  /\ {misfired, shared, untidy, faulted} \subseteq BOOLEAN

Init ==
  /\ conn = [a \in Accounts |-> "off"] /\ logins = [a \in Accounts |-> 0]
  /\ xfire_gc = NoGc
  /\ files \in SUBSET Docs /\ doc = [d \in Docs |-> "null"]
  /\ ingame = FALSE /\ found = FALSE /\ file = NoFile
  /\ programs = <<>>
  /\ menu = NoGc /\ plays = 0
  /\ told = [a \in Accounts |-> 0]
  /\ by = "none"
  /\ misfired = FALSE /\ shared = FALSE /\ untidy = FALSE /\ faulted = FALSE
-----------------------------------------------------------------------------
(* The parsed files *)

\* Parsed, where there is one: else the pointer stays what it was.
ParseFiles == doc' = [d \in Docs |-> IF d \in files THEN "loaded" ELSE doc[d]]

\* The pointers are left as they are, and freed again by the next one.
FreeFiles == doc' = [d \in Docs |-> IF doc[d] = "loaded" THEN "freed" ELSE doc[d]]

Playable(g) == doc["launch"] = "loaded" /\ g \in Games

\* The game the file names, 0 if it cannot be parsed or is not known.
XqfGame == IF Playable(file) THEN file ELSE 0
-----------------------------------------------------------------------------
(* Log-ins.  "off" again ends a log-in whatever the reason. *)

\* Parsing only what has not been parsed.
LoginParsesOnce(a) ==
  /\ conn[a] = "off" /\ logins[a] < MaxLogins
  /\ conn' = [conn EXCEPT ![a] = "login"]
  /\ logins' = [logins EXCEPT ![a] = @ + 1]
  /\ xfire_gc' = a
  /\ doc' = [d \in Docs |-> IF d \in files /\ doc[d] = "null" THEN "loaded" ELSE doc[d]]
  /\ shared' = (shared \/ On # {})
  /\ UNCHANGED <<files, game, file, screen, untidy, faulted>>

\* The connection may be refused at once, and the files are not parsed.
Login(a) ==
  /\ conn[a] = "off" /\ logins[a] < MaxLogins
  /\ conn' = [conn EXCEPT ![a] = "login"]
  /\ logins' = [logins EXCEPT ![a] = @ + 1]
  /\ xfire_gc' = a
  /\ ParseFiles \/ doc' = doc
  /\ shared' = (shared \/ On # {})
  /\ untidy' = (untidy \/ \E d \in Docs : Freed(d)')
  /\ UNCHANGED <<files, game, file, screen, faulted>>

\* Packet 130: the timers are added.
LoggedIn(a) ==
  /\ conn[a] = "login"
  /\ conn' = [conn EXCEPT ![a] = "ready"]
  /\ UNCHANGED <<logins, xfire_gc, files, doc, game, file, screen, shared, untidy, faulted>>

\* Without the assignment of null.
CloseAllButGc(a) ==
  /\ FreeFiles
  /\ told' = [told EXCEPT ![a] = 0]
  /\ UNCHANGED <<xfire_gc, logins, files, ingame, found, programs, by, misfired, file, screen, shared>>

\* xfire_close: the timers go, and the files are freed, for the other accounts
\* too.
CloseAll(a) ==
  /\ xfire_gc' = NoGc
  /\ FreeFiles
  /\ told' = [told EXCEPT ![a] = 0]
  /\ UNCHANGED <<logins, files, ingame, found, programs, by, misfired, file, screen, shared>>

\* By gaim; a lost connection's data has been freed before.
Close(a) ==
  /\ conn[a] # "off"
  /\ conn' = [conn EXCEPT ![a] = "off"]
  /\ CloseAll(a)
  /\ faulted' = (conn[a] = "lost" \/ \E d \in Docs : Freed(d))
  /\ untidy' = (untidy \/ On # {a} \/ programs # <<>> \/ menu # NoGc)

\* No header could be read: gaim is told, which will close the connection, and
\* xfire_close is called at once all the same.
ReadFails(a) ==
  /\ conn[a] \in {"login", "ready"}
  /\ conn' = [conn EXCEPT ![a] = "lost"]
  /\ CloseAll(a)
  /\ faulted' = \E d \in Docs : Freed(d)
  /\ untidy' = TRUE
-----------------------------------------------------------------------------
(* The timer, xfire_check_xqf_cb *)

\* Seen for the first time: told if the launch file knows the game, and not
\* looked into again before it is gone.
FileSeen(a) ==
  /\ conn[a] = "ready"
  /\ ~ingame /\ ~found /\ file # NoFile
  /\ found' = TRUE
  /\ faulted' = Freed("launch")
  /\ IF XqfGame # 0
       THEN ingame' = TRUE /\ by' = "file" /\ told' = [told EXCEPT ![a] = XqfGame]
       ELSE UNCHANGED <<ingame, by, told>>
  /\ UNCHANGED <<gc, programs, misfired, file, screen, shared, untidy>>

\* Returning first whenever we are in a game.
FileGoneOutOfGame(a) ==
  /\ conn[a] = "ready"
  /\ ~ingame /\ found /\ file = NoFile
  /\ found' = FALSE
  /\ UNCHANGED <<gc, ingame, programs, told, by, misfired, file, screen, shared, untidy, faulted>>

\* Gone: out of the game, however the game was met.
FileGone(a) ==
  /\ conn[a] = "ready"
  /\ found /\ file = NoFile
  /\ found' = FALSE
  /\ ingame' = FALSE /\ by' = "none"
  /\ told' = IF ingame THEN [told EXCEPT ![a] = 0] ELSE told
  /\ misfired' = (misfired \/ by = "menu")
  /\ UNCHANGED <<gc, programs, file, screen, shared, untidy, faulted>>

\* The script copies the file, in more than one write, and removes it.
Script ==
  /\ \/ file = NoFile /\ file' = Partial
     \/ file = Partial /\ file' \in Games \union OtherGames
     \/ file # NoFile /\ file' = NoFile
  /\ UNCHANGED <<gc, game, screen, shared, untidy, faulted>>
-----------------------------------------------------------------------------
(* The menu and the programs *)

BuddyPlays(g) ==
  /\ plays' = g
  /\ UNCHANGED <<gc, game, file, menu, shared, untidy, faulted>>

\* Whatever we are playing.
OpenMenuInGame(a) ==
  /\ conn[a] # "off" /\ plays # 0
  /\ faulted' = Freed("launch")
  /\ menu' = IF Playable(plays) THEN a ELSE NoGc
  /\ UNCHANGED <<gc, game, file, plays, shared, untidy>>

\* The tooltip of a buddy who plays looks the game's name up.
Tooltip(a) ==
  /\ conn[a] # "off" /\ plays # 0
  /\ faulted' = Freed("games")
  /\ UNCHANGED <<gc, game, file, screen, shared, untidy>>

\* The right click on a buddy of an account that is on.
OpenMenu(a) ==
  /\ conn[a] # "off" /\ ~ingame /\ plays # 0
  /\ faulted' = Freed("launch")
  /\ menu' = IF Playable(plays) THEN a ELSE NoGc
  /\ UNCHANGED <<gc, game, file, plays, shared, untidy>>

DropMenu ==
  /\ menu # NoGc /\ menu' = NoGc
  /\ UNCHANGED <<gc, game, file, plays, shared, untidy, faulted>>

\* The choice: what the buddy plays is looked up again, whether we play is not,
\* and the server of the account that logged in last is told, if the program
\* could be started.
JoinGame ==
  /\ menu # NoGc /\ menu' = NoGc
  /\ Len(programs) < MaxPrograms
  /\ \/ /\ Playable(plays) /\ xfire_gc # NoGc
        /\ ingame' = TRUE /\ by' = "menu"
        /\ told' = IF conn[xfire_gc] = "ready" THEN [told EXCEPT ![xfire_gc] = plays] ELSE told
        /\ programs' = Append(programs, [account |-> xfire_gc, login |-> logins[xfire_gc]])
        /\ faulted' = FALSE
     \/ /\ faulted' = (\/ plays # 0 /\ Freed("launch")
                       \/ Playable(plays) /\ xfire_gc = NoGc)
        /\ UNCHANGED <<ingame, by, told, programs>>
  /\ UNCHANGED <<gc, found, misfired, file, plays, shared, untidy>>

\* Without the packet.
ProgramExitsUntold(i) ==
  /\ programs' = RemoveAt(programs, i)
  /\ ingame' = FALSE /\ by' = "none"
  /\ UNCHANGED <<gc, found, told, misfired, file, screen, shared, untidy, faulted>>

\* xfire_game_watch_cb, with the connection the game was joined on.
ProgramExits(i) ==
  /\ programs' = RemoveAt(programs, i)
  /\ ingame' = FALSE /\ by' = "none"
  /\ LET p == programs[i]
         open == conn[p.account] \in {"login", "ready"} /\ logins[p.account] = p.login
     IN  /\ told' = IF open THEN [told EXCEPT ![p.account] = 0] ELSE told
         /\ faulted' = ~open
  /\ UNCHANGED <<gc, found, misfired, file, screen, shared, untidy>>

Tick == \E a \in Accounts : FileSeen(a) \/ FileGone(a)

\* The model ends with the first use of freed memory.
Next ==
  /\ ~faulted
  /\ \/ \E a \in Accounts : Login(a) \/ LoggedIn(a) \/ Close(a) \/ ReadFails(a)
     \/ \E a \in Accounts : OpenMenu(a) \/ Tooltip(a)
     \/ Tick
     \/ Script
     \/ \E g \in {0} \union Games \union OtherGames : BuddyPlays(g)
     \/ DropMenu \/ JoinGame
     \/ \E i \in 1..Len(programs) : ProgramExits(i)

\* The main loop runs the timers of the accounts that are ready.
Spec == Init /\ [][Next]_vars /\ WF_vars(~faulted /\ Tick)
-----------------------------------------------------------------------------
(* Properties *)

(* Freed memory and null connections are used only after an account was      *)
(* closed while another was on, a joined game was running or a menu was      *)
(* open; after a log-in that could not parse a file again; or after a        *)
(* connection was lost, when the handler closes it and leaves the freed data *)
(* for gaim, which closes it again (xfire_close, xfire_games_cleanup,        *)
(* xfire_game_watch_cb, xfire_gc, xfire.c:724-725).                          *)
FaultsNeedALeftover == faulted => untidy

(* With one account on at a time, a server that believes we play is never    *)
(* left believing it: the in-game flag is up, and what lowers it tells the   *)
(* server (xfire_game_watch_cb, xfire_check_xqf_cb).                         *)
ToldIsInGame ==
  ~shared /\ ~faulted => \A a \in Accounts : told[a] # 0 => ingame

(* Two joined games run at once only if the file's removal has taken us out  *)
(* of one before it ended: the menu is not offered in a game.                *)
OneGameAtATime == Len(programs) > 1 => misfired

(* When the file is gone and no joined game runs, an account that stays      *)
(* logged in does not stay in a game.                                        *)
InGameEnds ==
  \A a \in Accounts :
    <>[](conn[a] = "ready" /\ file = NoFile /\ programs = <<>> /\ ~faulted) => <>[]~ingame

(* xfire.c:1206-1208 says of the timer callback: "if we are in game and then *)
(* the file is no longer present then take client out of game. Only do this  *)
(* when in game status was met using ingame.tmp file."                       *)
OnlyFileGamesEndByFile ==
  [][ingame /\ ~ingame' /\ programs' = programs => by = "file"]_vars
=============================================================================
