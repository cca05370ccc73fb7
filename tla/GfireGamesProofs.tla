-------------------------- MODULE GfireGamesProofs --------------------------
(***************************************************************************)
(* What holds of gfire's own game for any number of accounts, log-ins,     *)
(* games and programs: when freed memory can be used at all, what the      *)
(* server believes, and when two joined games can run at once.             *)
(***************************************************************************)
EXTENDS GfireGames, SequenceFacts

\* An account that is on has logged in at least once.
Counted == \A a \in On : logins[a] > 0

\* The server believes an account in a game only while the account is on, and
\* as long as no two accounts were on at once, only one is.
ServersView ==
  /\ \A a \in Accounts : told[a] # 0 => a \in On
  /\ ~shared => \A a, b \in On : a = b

\* As long as no game of the menu was ended by the file, at most one program
\* runs, it is the game we are in, and no menu is on the screen meanwhile.
OneProgram ==
  ~misfired =>
    /\ Len(programs) <= 1
    /\ programs # <<>> => by = "menu"
    /\ menu # NoGc => programs = <<>>

\* As long as nothing was left behind, whoever is on has parsed files that are
\* not freed, is the last to have logged in and was not lost, and the programs
\* are told to connections that are open.
Tidy ==
  ~untidy =>
    /\ ~faulted
    /\ On # {} => (\A d \in Docs : ~Freed(d)) /\ xfire_gc # NoGc
    /\ \A a \in Accounts : conn[a] # "lost"
    /\ menu # NoGc => On # {}
    /\ \A i \in 1..Len(programs) :
         /\ programs[i].account \in On
         /\ programs[i].login = logins[programs[i].account]

IInv == TypeOK /\ Counted /\ ServersView /\ ToldIsInGame /\ OneProgram /\ Tidy
-----------------------------------------------------------------------------
LEMMA InitIInv == Init => IInv
<1>. SUFFICES ASSUME Init PROVE IInv
  OBVIOUS
<1>1. <<>> \in Seq(Program) /\ Len(<<>>) = 0
  OBVIOUS
<1>2. TypeOK
  <2>1. {misfired, shared, untidy, faulted} \subseteq BOOLEAN
    BY DEF Init
  <2>2. programs \in Seq(Program) /\ Len(programs) <= MaxPrograms
    BY <1>1, GamesAssumption DEF Init
  <2>3. conn \in [Accounts -> {"off", "login", "ready"}] /\ logins \in [Accounts -> 0..MaxLogins]
    BY GamesAssumption DEF Init
  <2>4. told \in [Accounts -> {0} \union Games]
    BY DEF Init
  <2>. QED BY <2>1, <2>2, <2>3, <2>4 DEF Init, TypeOK
<1>3. Counted /\ ServersView /\ ToldIsInGame
  BY DEF Init, Counted, ServersView, ToldIsInGame, On
<1>4. OneProgram /\ Tidy
  BY <1>1 DEF Init, OneProgram, Tidy, On
<1>. QED BY <1>2, <1>3, <1>4 DEF IInv

\* One lemma for each action, and in it one step for each conjunct.
LEMMA LoginStep == ASSUME IInv, NEW a \in Accounts, Login(a) PROVE IInv'
<1>1. TypeOK'
  BY GamesAssumption DEF Login, ParseFiles, Docs, Freed, game, screen, IInv, TypeOK, On, Program
<1>2. Counted'
  BY GamesAssumption DEF Login, ParseFiles, Docs, Freed, game, screen, IInv, Counted, TypeOK, On
<1>3. ServersView'
  BY GamesAssumption DEF Login, ParseFiles, Docs, Freed, game, screen, IInv, ServersView, TypeOK, On
<1>4. ToldIsInGame'
  BY GamesAssumption DEF Login, ParseFiles, Docs, Freed, game, screen, IInv, ToldIsInGame, TypeOK, ServersView, On
<1>5. OneProgram'
  BY GamesAssumption DEF Login, ParseFiles, Docs, Freed, game, screen, IInv, OneProgram, TypeOK
<1>6. Tidy'
  <2>. SUFFICES ASSUME ~untidy' PROVE Tidy'
    BY DEF Tidy
  <2>1. ~untidy /\ (\A d \in Docs : ~Freed(d)') /\ UNCHANGED <<programs, menu, faulted>>
    BY DEF Login, game, screen, IInv, TypeOK
  <2>2. conn' = [conn EXCEPT ![a] = "login"] /\ conn[a] = "off" /\ xfire_gc' = a
    BY DEF Login
  <2>3. On' = On \union {a}
    BY <2>2 DEF On, IInv, TypeOK
  <2>4. \A b \in Accounts : conn'[b] # "lost"
    BY <2>1, <2>2 DEF IInv, TypeOK, Tidy
  <2>5. \A k \in 1..Len(programs) :
          programs[k].account \in On' /\ programs[k].login = logins'[programs[k].account]
    <3>1. \A k \in 1..Len(programs) :
            programs[k].account \in On /\ programs[k].login = logins[programs[k].account]
      BY <2>1 DEF IInv, Tidy
    <3>2. a \notin On /\ logins' = [logins EXCEPT ![a] = @ + 1] /\ On \subseteq Accounts
      BY <2>2 DEF Login, On
    <3>. QED BY <2>3, <3>1, <3>2 DEF IInv, TypeOK
  <2>. QED BY <2>1, <2>2, <2>3, <2>4, <2>5, GamesAssumption DEF Tidy, IInv
<1>. QED BY <1>1, <1>2, <1>3, <1>4, <1>5, <1>6 DEF IInv

LEMMA LoggedInStep == ASSUME IInv, NEW a \in Accounts, LoggedIn(a) PROVE IInv'
<1>1. TypeOK'
  BY GamesAssumption DEF LoggedIn, game, screen, IInv, TypeOK, On, Program
<1>2. Counted'
  BY GamesAssumption DEF LoggedIn, game, screen, IInv, Counted, TypeOK, On
<1>3. ServersView'
  BY GamesAssumption DEF LoggedIn, game, screen, IInv, ServersView, TypeOK, On
<1>4. ToldIsInGame'
  BY GamesAssumption DEF LoggedIn, game, screen, IInv, ToldIsInGame, TypeOK, ServersView, On
<1>5. OneProgram'
  BY GamesAssumption DEF LoggedIn, game, screen, IInv, OneProgram, TypeOK
<1>6. Tidy'
  <2>1. On' = On /\ \A b \in Accounts : conn'[b] = "lost" => conn[b] = "lost"
    BY DEF LoggedIn, On, IInv, TypeOK
  <2>2. \A d \in Docs : Freed(d)' = Freed(d)
    BY DEF LoggedIn, Freed
  <2>. QED BY <2>1, <2>2 DEF LoggedIn, game, screen, IInv, Tidy
<1>. QED BY <1>1, <1>2, <1>3, <1>4, <1>5, <1>6 DEF IInv

LEMMA CloseStep == ASSUME IInv, ~faulted, NEW a \in Accounts, Close(a) PROVE IInv'
<1>1. TypeOK'
  BY GamesAssumption DEF Close, CloseAll, FreeFiles, Docs, Freed, screen, IInv, TypeOK, On, Program
<1>2. Counted'
  BY GamesAssumption DEF Close, CloseAll, FreeFiles, Docs, Freed, screen, IInv, Counted, TypeOK, On
<1>3. ServersView'
  BY GamesAssumption DEF Close, CloseAll, FreeFiles, Docs, Freed, screen, IInv, ServersView, TypeOK, On
<1>4. ToldIsInGame'
  BY GamesAssumption DEF Close, CloseAll, FreeFiles, Docs, Freed, screen, IInv, ToldIsInGame, TypeOK, ServersView, On
<1>5. OneProgram'
  BY GamesAssumption DEF Close, CloseAll, FreeFiles, Docs, Freed, screen, IInv, OneProgram, TypeOK
<1>6. Tidy'
  <2>. SUFFICES ASSUME ~untidy' PROVE Tidy'
    BY DEF Tidy
  <2>1. ~untidy /\ On = {a} /\ programs = <<>> /\ menu = NoGc
    BY DEF Close, IInv, TypeOK
  <2>2. On' = {} /\ ~faulted' /\ menu' = NoGc
    BY <2>1 DEF Close, CloseAll, FreeFiles, Docs, Freed, screen, IInv, TypeOK, Tidy, On
  <2>3. programs' = <<>> /\ Len(programs') = 0
    BY <2>1 DEF Close, CloseAll
  <2>4. \A b \in Accounts : conn'[b] # "lost"
    BY <2>1 DEF Close, IInv, TypeOK, Tidy
  <2>. QED BY <2>2, <2>3, <2>4 DEF Tidy
<1>. QED BY <1>1, <1>2, <1>3, <1>4, <1>5, <1>6 DEF IInv

LEMMA ReadFailsStep == ASSUME IInv, ~faulted, NEW a \in Accounts, ReadFails(a) PROVE IInv'
<1>1. TypeOK'
  BY GamesAssumption DEF ReadFails, CloseAll, FreeFiles, Docs, Freed, screen, IInv, TypeOK, On, Program
<1>2. Counted'
  BY GamesAssumption DEF ReadFails, CloseAll, IInv, Counted, TypeOK, On
<1>3. ServersView'
  BY GamesAssumption DEF ReadFails, CloseAll, IInv, ServersView, TypeOK, On
<1>4. ToldIsInGame'
  BY GamesAssumption DEF ReadFails, CloseAll, IInv, ToldIsInGame, TypeOK, ServersView, On
<1>5. OneProgram'
  BY GamesAssumption DEF ReadFails, CloseAll, screen, IInv, OneProgram, TypeOK
<1>6. Tidy'
  BY DEF ReadFails, Tidy
<1>. QED BY <1>1, <1>2, <1>3, <1>4, <1>5, <1>6 DEF IInv

\* Nothing is left behind while connections, files and programs stay as they are.
LEMMA TidyKept ==
  ASSUME IInv, UNCHANGED <<gc, programs, untidy>>, ~untidy => ~faulted', menu' # NoGc => menu # NoGc \/ On # {}
  PROVE  Tidy'
<1>1. UNCHANGED <<conn, logins, xfire_gc, doc, programs>>
  BY DEF gc
<1>2. On' = On /\ \A d \in Docs : Freed(d)' = Freed(d)
  BY <1>1 DEF On, Freed
<1>. QED BY <1>1, <1>2 DEF IInv, Tidy

\* As long as nothing was left behind, no file of an account that is on is freed.
LEMMA NothingFreed == ASSUME IInv, ~untidy, On # {} PROVE ~Freed("launch") /\ ~Freed("games")
  BY DEF IInv, Tidy, Docs

LEMMA FileSeenStep == ASSUME IInv, ~faulted, NEW a \in Accounts, FileSeen(a) PROVE IInv'
<1>1. TypeOK'
  BY GamesAssumption DEF FileSeen, XqfGame, Playable, Docs, Freed, gc, screen, IInv, TypeOK, On, Program
<1>2. Counted'
  BY GamesAssumption DEF FileSeen, XqfGame, Playable, Docs, Freed, gc, screen, IInv, Counted, TypeOK, On
<1>3. ServersView'
  BY GamesAssumption DEF FileSeen, XqfGame, Playable, Docs, Freed, gc, screen, IInv, ServersView, TypeOK, On
<1>4. ToldIsInGame'
  BY GamesAssumption DEF FileSeen, XqfGame, Playable, Docs, Freed, gc, screen, IInv, ToldIsInGame, TypeOK, ServersView, On
<1>5. OneProgram'
  BY GamesAssumption DEF FileSeen, XqfGame, Playable, Docs, Freed, gc, screen, IInv, OneProgram, TypeOK
<1>6. Tidy'
  <2>1. On # {}
    BY DEF FileSeen, On
  <2>. QED BY <2>1, NothingFreed, TidyKept DEF FileSeen, game, screen
<1>. QED BY <1>1, <1>2, <1>3, <1>4, <1>5, <1>6 DEF IInv

LEMMA FileGoneStep == ASSUME IInv, ~faulted, NEW a \in Accounts, FileGone(a) PROVE IInv'
<1>1. TypeOK'
  BY GamesAssumption DEF FileGone, gc, screen, IInv, TypeOK, On, Program
<1>2. Counted'
  BY GamesAssumption DEF FileGone, gc, screen, IInv, Counted, TypeOK, On
<1>3. ServersView'
  BY GamesAssumption DEF FileGone, gc, screen, IInv, ServersView, TypeOK, On
<1>4. ToldIsInGame'
  BY GamesAssumption DEF FileGone, gc, screen, IInv, ToldIsInGame, TypeOK, ServersView, On
<1>5. OneProgram'
  BY GamesAssumption DEF FileGone, gc, screen, IInv, OneProgram, TypeOK
<1>6. Tidy'
  BY TidyKept DEF FileGone, game, screen, IInv, Tidy
<1>. QED BY <1>1, <1>2, <1>3, <1>4, <1>5, <1>6 DEF IInv

LEMMA ScriptStep == ASSUME IInv, Script PROVE IInv'
<1>1. TypeOK'
  BY GamesAssumption DEF Script, gc, game, screen, IInv, TypeOK, On, Program
<1>2. Counted'
  BY GamesAssumption DEF Script, gc, game, screen, IInv, Counted, TypeOK, On
<1>3. ServersView'
  BY GamesAssumption DEF Script, gc, game, screen, IInv, ServersView, TypeOK, On
<1>4. ToldIsInGame'
  BY GamesAssumption DEF Script, gc, game, screen, IInv, ToldIsInGame, TypeOK, ServersView, On
<1>5. OneProgram'
  BY GamesAssumption DEF Script, gc, game, screen, IInv, OneProgram, TypeOK
<1>6. Tidy'
  BY TidyKept DEF Script, game, screen, IInv, Tidy
<1>. QED BY <1>1, <1>2, <1>3, <1>4, <1>5, <1>6 DEF IInv

LEMMA BuddyPlaysStep == ASSUME IInv, NEW g \in {0} \union Games \union OtherGames, BuddyPlays(g) PROVE IInv'
<1>1. TypeOK'
  BY GamesAssumption DEF BuddyPlays, gc, game, IInv, TypeOK, On, Program
<1>2. Counted'
  BY GamesAssumption DEF BuddyPlays, gc, game, IInv, Counted, TypeOK, On
<1>3. ServersView'
  BY GamesAssumption DEF BuddyPlays, gc, game, IInv, ServersView, TypeOK, On
<1>4. ToldIsInGame'
  BY GamesAssumption DEF BuddyPlays, gc, game, IInv, ToldIsInGame, TypeOK, ServersView, On
<1>5. OneProgram'
  BY GamesAssumption DEF BuddyPlays, gc, game, IInv, OneProgram, TypeOK
<1>6. Tidy'
  BY TidyKept DEF BuddyPlays, game, screen, IInv, Tidy
<1>. QED BY <1>1, <1>2, <1>3, <1>4, <1>5, <1>6 DEF IInv

LEMMA OpenMenuStep == ASSUME IInv, ~faulted, NEW a \in Accounts, OpenMenu(a) PROVE IInv'
<1>1. TypeOK'
  BY GamesAssumption DEF OpenMenu, Playable, Docs, Freed, gc, game, IInv, TypeOK, On, Program
<1>2. Counted'
  BY GamesAssumption DEF OpenMenu, Playable, Docs, Freed, gc, game, IInv, Counted, TypeOK, On
<1>3. ServersView'
  BY GamesAssumption DEF OpenMenu, Playable, Docs, Freed, gc, game, IInv, ServersView, TypeOK, On
<1>4. ToldIsInGame'
  BY GamesAssumption DEF OpenMenu, Playable, Docs, Freed, gc, game, IInv, ToldIsInGame, TypeOK, ServersView, On
<1>5. OneProgram'
  BY GamesAssumption DEF OpenMenu, Playable, Docs, Freed, gc, game, IInv, OneProgram, TypeOK
<1>6. Tidy'
  <2>1. On # {}
    BY DEF OpenMenu, On
  <2>. QED BY <2>1, NothingFreed, TidyKept DEF OpenMenu, game, screen
<1>. QED BY <1>1, <1>2, <1>3, <1>4, <1>5, <1>6 DEF IInv

LEMMA TooltipStep == ASSUME IInv, ~faulted, NEW a \in Accounts, Tooltip(a) PROVE IInv'
<1>1. faulted' \in BOOLEAN
  BY DEF Tooltip, Freed
<1>2. TypeOK' /\ Counted' /\ ServersView' /\ OneProgram'
  BY <1>1 DEF Tooltip, gc, game, screen, IInv, TypeOK, Counted, ServersView, OneProgram, On
<1>3. ToldIsInGame'
  BY DEF Tooltip, game, IInv, ToldIsInGame
<1>4. Tidy'
  <2>1. On # {}
    BY DEF Tooltip, On
  <2>. QED BY <2>1, NothingFreed, TidyKept DEF Tooltip, game, screen
<1>. QED BY <1>2, <1>3, <1>4 DEF IInv

LEMMA DropMenuStep == ASSUME IInv, DropMenu PROVE IInv'
<1>1. TypeOK'
  BY GamesAssumption DEF DropMenu, gc, game, IInv, TypeOK, On, Program
<1>2. Counted'
  BY GamesAssumption DEF DropMenu, gc, game, IInv, Counted, TypeOK, On
<1>3. ServersView'
  BY GamesAssumption DEF DropMenu, gc, game, IInv, ServersView, TypeOK, On
<1>4. ToldIsInGame'
  BY GamesAssumption DEF DropMenu, gc, game, IInv, ToldIsInGame, TypeOK, ServersView, On
<1>5. OneProgram'
  BY GamesAssumption DEF DropMenu, gc, game, IInv, OneProgram, TypeOK
<1>6. Tidy'
  BY TidyKept DEF DropMenu, game, screen, IInv, Tidy
<1>. QED BY <1>1, <1>2, <1>3, <1>4, <1>5, <1>6 DEF IInv

LEMMA JoinGameStep == ASSUME IInv, ~faulted, JoinGame PROVE IInv'
<1>1. CASE programs' = programs
  <2>1. /\ UNCHANGED <<gc, game, file, plays, shared, untidy>>
        /\ menu # NoGc /\ menu' = NoGc
        /\ faulted' = (\/ plays # 0 /\ Freed("launch")
                       \/ Playable(plays) /\ xfire_gc = NoGc)
    <3>1. Len(Append(programs, [account |-> xfire_gc, login |-> logins[xfire_gc]])) # Len(programs)
      BY DEF IInv, TypeOK
    <3>2. programs' # Append(programs, [account |-> xfire_gc, login |-> logins[xfire_gc]])
      BY <1>1, <3>1
    <3>3. faulted' = (\/ plays # 0 /\ Freed("launch")
                      \/ Playable(plays) /\ xfire_gc = NoGc)
      BY <3>2 DEF JoinGame
    <3>4. UNCHANGED <<ingame, by, told, programs>>
      BY <1>1, <3>2 DEF JoinGame
    <3>. QED BY <3>3, <3>4 DEF JoinGame, game, gc
  <2>2. TypeOK'
    BY <2>1 DEF gc, game, IInv, TypeOK, On, Program
  <2>3. Counted' /\ ServersView' /\ OneProgram'
    BY <2>1 DEF gc, game, IInv, Counted, ServersView, OneProgram, On
  <2>4. ToldIsInGame'
    BY <2>1 DEF game, IInv, ToldIsInGame
  <2>5. Tidy'
    <3>1. ~untidy => On # {} /\ xfire_gc # NoGc
      BY <2>1 DEF IInv, Tidy
    <3>. QED BY <2>1, <3>1, NothingFreed, TidyKept DEF game
  <2>. QED BY <2>2, <2>3, <2>4, <2>5 DEF IInv
<1>2. CASE programs' # programs
  <2> DEFINE p == [account |-> xfire_gc, login |-> logins[xfire_gc]]
  <2>1. /\ menu # NoGc /\ menu' = NoGc
        /\ Len(programs) < MaxPrograms
        /\ doc["launch"] = "loaded" /\ plays \in Games /\ xfire_gc # NoGc
        /\ ingame' = TRUE /\ by' = "menu"
        /\ told' = IF conn[xfire_gc] = "ready" THEN [told EXCEPT ![xfire_gc] = plays] ELSE told
        /\ programs' = Append(programs, p)
        /\ faulted' = FALSE
        /\ UNCHANGED <<conn, logins, xfire_gc, files, doc, found, misfired, file, plays,
                       shared, untidy>>
    BY <1>2 DEF JoinGame, Playable, gc
  <2>2. xfire_gc \in On /\ p \in Program
    BY <2>1, GamesAssumption DEF IInv, TypeOK, Counted, On, Program
  <2>. HIDE DEF p
  <2>3. /\ programs' \in Seq(Program) /\ Len(programs') = Len(programs) + 1
        /\ \A k \in 1..Len(programs') :
             programs'[k] = IF k <= Len(programs) THEN programs[k] ELSE p
    BY <2>1, <2>2, AppendProperties DEF IInv, TypeOK
  <2>4. TypeOK'
    <3>1. told' \in [Accounts -> {0} \union Games]
      BY <2>1, <2>2 DEF IInv, TypeOK, On
    <3>2. Len(programs') <= MaxPrograms
      BY <2>1, <2>3, LenProperties, GamesAssumption DEF IInv, TypeOK
    <3>3. {misfired', shared', untidy', faulted'} \subseteq BOOLEAN
      BY <2>1 DEF IInv, TypeOK
    <3>. QED BY <2>1, <2>3, <3>1, <3>2, <3>3 DEF IInv, TypeOK, On
  <2>5. Counted' /\ ServersView' /\ ToldIsInGame'
    BY <2>1, <2>2 DEF IInv, TypeOK, Counted, ServersView, ToldIsInGame, On
  <2>6. OneProgram'
    <3>1. ~misfired => Len(programs) = 0
      BY <2>1 DEF IInv, OneProgram
    <3>. QED BY <2>1, <2>3, <3>1 DEF OneProgram
  <2>7. Tidy'
    <3>1. On' = On
      BY <2>1 DEF On
    <3>2. p.account \in On /\ p.login = logins[p.account]
      BY <2>2 DEF p
    <3>3. UNCHANGED <<conn, logins, doc, untidy, xfire_gc>> /\ (\A d \in Docs : Freed(d)' = Freed(d))
      BY <2>1 DEF Freed
    <3>4. ~untidy => \A k \in 1..Len(programs') :
            programs'[k].account \in On /\ programs'[k].login = logins[programs'[k].account]
      <4>1. ~untidy => \A k \in 1..Len(programs) :
              programs[k].account \in On /\ programs[k].login = logins[programs[k].account]
        BY DEF IInv, Tidy
      <4>2. Len(programs) \in Nat
        BY DEF IInv, TypeOK
      <4>3. \A k \in 1..Len(programs') : k <= Len(programs) => k \in 1..Len(programs)
        BY <2>3, <4>2
      <4>. QED BY ONLY <2>3, <3>2, <4>1, <4>3
    <3>. QED BY <2>1, <3>1, <3>3, <3>4 DEF IInv, Tidy
  <2>. QED BY <2>4, <2>5, <2>6, <2>7 DEF IInv
<1>. QED BY <1>1, <1>2

LEMMA ProgramExitsStep ==
  ASSUME IInv, ~faulted, NEW n \in 1..Len(programs), ProgramExits(n)
  PROVE  IInv'
<1> DEFINE p == programs[n]
           open == conn[p.account] \in {"login", "ready"} /\ logins[p.account] = p.login
<1>1. /\ ingame' = FALSE /\ by' = "none"
      /\ programs' = RemoveAt(programs, n)
      /\ told' = IF open THEN [told EXCEPT ![p.account] = 0] ELSE told
      /\ faulted' = ~open
      /\ UNCHANGED <<conn, logins, xfire_gc, files, doc, found, misfired, file, menu, plays,
                     shared, untidy>>
  BY DEF ProgramExits, gc, screen
<1>2. programs \in Seq(Program) /\ Len(programs) \in Nat /\ p \in Program
  BY LenProperties, ElementOfSeq DEF IInv, TypeOK
<1>3. /\ programs' \in Seq(Program)
      /\ Len(programs') = Len(programs) - 1
      /\ \A k \in 1..(Len(programs) - 1) :
           programs'[k] = IF k < n THEN programs[k] ELSE programs[k + 1]
  BY <1>1, <1>2, RemoveAtFacts
<1>4. p.account \in Accounts
  BY <1>2 DEF Program
<1>5. On' = On
  BY <1>1 DEF On
<1>. HIDE DEF p
<1>6. TypeOK'
  <2>1. told' \in [Accounts -> {0} \union Games]
    BY <1>1, <1>4 DEF IInv, TypeOK
  <2>2. Len(programs') <= MaxPrograms
    BY <1>2, <1>3, GamesAssumption DEF IInv, TypeOK
  <2>3. {misfired', shared', untidy', faulted'} \subseteq BOOLEAN
    BY <1>1 DEF IInv, TypeOK
  <2>. QED BY <1>1, <1>3, <1>5, <2>1, <2>2, <2>3 DEF IInv, TypeOK
<1>7. Counted' /\ ServersView'
  BY <1>1, <1>4, <1>5 DEF IInv, TypeOK, Counted, ServersView
<1>8. ToldIsInGame'
  BY <1>1, <1>4 DEF IInv, TypeOK, ToldIsInGame, ServersView, On
<1>9. OneProgram'
  <2>1. Len(programs') = 0 => programs' = <<>>
    BY <1>3
  <2>2. ~misfired => Len(programs') = 0
    BY <1>2, <1>3 DEF IInv, OneProgram
  <2>. QED BY <1>1, <2>1, <2>2 DEF OneProgram
<1>10. Tidy'
  <2>1. \A k \in 1..(Len(programs) - 1) : k \in 1..Len(programs) /\ k + 1 \in 1..Len(programs)
    BY <1>2
  <2>2. ~untidy => open
    <3>1. ~untidy => p.account \in On /\ p.login = logins[p.account] /\ conn[p.account] # "lost"
      BY <1>4 DEF IInv, Tidy, p
    <3>. QED BY <3>1, <1>4 DEF IInv, TypeOK, On
  <2>. SUFFICES ASSUME ~untidy' PROVE Tidy'
    BY DEF Tidy
  <2>3. ~faulted'
    BY <1>1, <2>2
  <2>4. \A k \in 1..Len(programs') :
          programs'[k].account \in On /\ programs'[k].login = logins[programs'[k].account]
    <3>1. \A k \in 1..Len(programs) :
            programs[k].account \in On /\ programs[k].login = logins[programs[k].account]
      BY <1>1 DEF IInv, Tidy
    <3>. TAKE k \in 1..Len(programs')
    <3>2. \E l \in 1..Len(programs) : programs'[k] = programs[l]
      <4>1. k \in 1..(Len(programs) - 1)
        BY <1>3
      <4>2. programs'[k] = IF k < n THEN programs[k] ELSE programs[k + 1]
        BY <1>3, <4>1
      <4>. QED BY <2>1, <4>1, <4>2
    <3>. QED BY ONLY <3>1, <3>2
  <2>. HIDE DEF open
  <2>5. \A d \in Docs : Freed(d)' = Freed(d)
    BY <1>1 DEF Freed
  <2>. QED BY <1>1, <1>5, <2>3, <2>4, <2>5 DEF IInv, Tidy
<1>. QED BY <1>6, <1>7, <1>8, <1>9, <1>10 DEF IInv

\* Every step keeps the invariant; with memory already misused there is none.
LEMMA NextIInv == IInv /\ [Next]_vars => IInv'
<1>. SUFFICES ASSUME IInv, [Next]_vars PROVE IInv'
  OBVIOUS
<1>1. CASE Next
  <2>1. ~faulted
    BY <1>1 DEF Next
  <2>2. CASE \E a \in Accounts : Login(a) \/ LoggedIn(a) \/ Close(a) \/ ReadFails(a)
    BY <2>1, <2>2, LoginStep, LoggedInStep, CloseStep, ReadFailsStep
  <2>8. CASE \E a \in Accounts : OpenMenu(a) \/ Tooltip(a)
    BY <2>1, <2>8, OpenMenuStep, TooltipStep
  <2>3. CASE Tick
    BY <2>1, <2>3, FileSeenStep, FileGoneStep DEF Tick
  <2>4. CASE Script
    BY <2>4, ScriptStep
  <2>5. CASE \E g \in {0} \union Games \union OtherGames : BuddyPlays(g)
    BY <2>5, BuddyPlaysStep
  <2>6. CASE DropMenu \/ JoinGame
    BY <2>1, <2>6, DropMenuStep, JoinGameStep
  <2>7. CASE \E i \in 1..Len(programs) : ProgramExits(i)
    BY <2>1, <2>7, ProgramExitsStep
  <2>. QED BY <1>1, <2>2, <2>3, <2>4, <2>5, <2>6, <2>7, <2>8 DEF Next
<1>2. CASE UNCHANGED vars
  <2>1. UNCHANGED <<gc, game, screen, file, shared, untidy, faulted>>
    BY <1>2 DEF vars
  <2>2. Tidy'
    BY <2>1, TidyKept DEF game, screen, IInv, Tidy
  <2>. QED BY <2>1, <2>2 DEF gc, game, screen, IInv, TypeOK, Counted, ServersView, ToldIsInGame,
                             OneProgram, On
<1>. QED BY <1>1, <1>2

LEMMA Invariance == Spec => []IInv
  BY InitIInv, NextIInv, PTL DEF Spec
-----------------------------------------------------------------------------
\* The flags, pointers and programs are well typed at any time; in particular
\* the last connection is null or one that is open.
THEOREM GamesTypeCorrect == Spec => []TypeOK
<1>1. IInv => TypeOK
  BY DEF IInv
<1>. QED BY <1>1, Invariance, PTL

\* For any number of accounts, freed memory and null connections are used only
\* after a close or a failed log-in has left something behind.
THEOREM FaultsAreLeftovers == Spec => []FaultsNeedALeftover
<1>1. IInv => FaultsNeedALeftover
  BY DEF IInv, Tidy, FaultsNeedALeftover
<1>. QED BY <1>1, Invariance, PTL

\* As long as one account is on at a time, no server is left believing that we
\* play when we do not.
THEOREM ServersKnow == Spec => []ToldIsInGame
<1>1. IInv => ToldIsInGame
  BY DEF IInv
<1>. QED BY <1>1, Invariance, PTL

\* Two joined games run at once only after the file's removal ended one early.
THEOREM OneGame == Spec => []OneGameAtATime
<1>1. IInv => OneGameAtATime
  BY DEF IInv, TypeOK, OneProgram, OneGameAtATime
<1>. QED BY <1>1, Invariance, PTL
=============================================================================
