---------------------------- MODULE UserRegistry ----------------------------
(***************************************************************************)
(* The registration side of the gateway: the vector of users, the file     *)
(* xfiregateway_users.cfg, the jabber:iq:register handlers that change     *)
(* both, the roster changes that reach the file only with the next save,   *)
(* SIGINT, and a process that may end at any step.                         *)
(*                                                                         *)
(* A client may type any text on one line: empty, one word, or several     *)
(* words.  In the file only its words are left, which is what explodeString *)
(* makes of a line.  A line is far shorter than the stream's buffer and    *)
(* endl flushes it, so a line reaches the file whole or not at all; while  *)
(* it is put together the read threads may erase entries of the roster     *)
(* that is being walked.                                                   *)
(***************************************************************************)
EXTENDS Naturals, Sequences, SequencesExt

CONSTANTS
  Text,      \* what a client may type: a line of any words and spaces
  Word,      \* the texts of at least one character and no space
  Words,     \* explodeString: the words of a text
  Lower,     \* SimpleLib::stringToLower
  Jids,      \* bare Jabber ids as clients spell them
  Names,     \* XFire user names as typed
  Passwords, \* passwords as typed
  Buddies    \* XFire names that may be in a Jabber roster

ASSUME RegistryAssumption ==
  /\ Word \subseteq Text
  /\ Words \in [Text -> Seq(Word)]
  /\ \A w \in Word : Words[w] = <<w>>
  /\ Lower \in [Text -> Text]
  /\ \A w \in Word : Lower[w] \in Word /\ Lower[Lower[w]] = Lower[w]
  /\ Jids \subseteq Word
  /\ Buddies \subseteq Word
  /\ Names \subseteq Text
  /\ Passwords \subseteq Text

VARIABLES
  users,   \* XFireGateway::users
  disk,    \* the lines of xfiregateway_users.cfg, each as its words
  pc,      \* where the main thread is
  job,     \* the handler that is running, and whose request it is
  left,    \* the line to read next; writeUserFile's i: users still to write
  row,     \* the words of the line writeUserFile has put together so far
  rest,    \* writeUserFile's j: entries of that user's roster still to write
  answer,  \* the stanzas the last handler sent to the one it served
  spaced   \* history: the jids whose name was not typed as a single word

saving == <<row, rest>>
vars == <<users, disk, pc, job, left, row, rest, answer, spaced>>

User == [jid : Word, name : Text, pass : Text, roster : Seq(Word)]
NoJob == [op |-> "none", jid |-> "none"]
NoAnswer == [to |-> "none", kinds |-> <<>>]
Kinds == {"result", "conflict", "subscribe", "unsubscribe", "unsubscribed"}
Ops == {"register", "password", "remove", "connect", "shutdown", "early"}
Job == [op : Ops, jid : Word \union {"none"}]

TypeOK ==
  /\ users \in Seq(User)
  /\ disk \in Seq(Seq(Word))
  /\ pc \in {"down", "boot", "reading", "started", "idle", "delete",
             "open", "lines", "entries", "quit"}
  /\ job \in Job \union {NoJob}
  /\ left \in Nat
  /\ left > 0 => \/ pc \in {"lines", "entries"} /\ left <= Len(users)
                 \/ pc = "reading" /\ left <= Len(disk) + 1
  /\ pc = "entries" => left > 0
  /\ row \in Seq(Word)
  /\ rest \in Nat
  /\ answer \in [to : Word \union {"none"}, kinds : Seq(Kinds)]
  /\ spaced \subseteq Word
-----------------------------------------------------------------------------
(* The file *)

Credentials(u) == Words[u.name] \o Words[u.pass]

ReadableMissesBareLine(args) == Len(args) > 3

Readable(args) == Len(args) >= 3

UserOf(args) ==
  [ jid    |-> Lower[args[1]],
    name   |-> args[2],
    pass   |-> args[3],
    roster |-> Reverse(SubSeq(args, 4, Len(args))) ]

-----------------------------------------------------------------------------
(* Looking users up: each scan returns the first match *)

HasJid(j) == \E i \in 1..Len(users) : users[i].jid = Lower[j]

IndexByJid(j) ==
  CHOOSE i \in 1..Len(users) :
    /\ users[i].jid = Lower[j]
    /\ \A k \in 1..(i - 1) : users[k].jid # Lower[j]

NameTakenAsTyped(n) == \E i \in 1..Len(users) : users[i].name = n

NameTaken(n) ==
  \E i \in 1..Len(users) : Lower[users[i].name] = Lower[n]

-----------------------------------------------------------------------------
(* The handlers.  Each one runs to its reply on gloox's single thread.       *)

Init ==
  /\ users = <<>>
  /\ disk = <<>>
  /\ pc = "down"
  /\ job = NoJob
  /\ left = 0
  /\ row = <<>>
  /\ rest = 0
  /\ answer = NoAnswer
  /\ spaced = {}

\* main: SIGINT is caught from here on, and users is still a null pointer.
Start ==
  /\ pc = "down"
  /\ pc' = "boot"
  /\ UNCHANGED <<users, disk, job, left, saving, answer, spaced>>

\* readUserFile: left is the number of the next line to read.
OpenForReading ==
  /\ pc = "boot"
  /\ pc' = "reading"
  /\ left' = 1
  /\ UNCHANGED <<users, disk, job, saving, answer, spaced>>

\* A line of fewer than three words is skipped.
ReadLine ==
  /\ pc = "reading"
  /\ left <= Len(disk)
  /\ users' = IF Readable(disk[left])
                THEN Append(users, UserOf(disk[left])) ELSE users
  /\ left' = left + 1
  /\ UNCHANGED <<disk, pc, job, saving, answer, spaced>>

EndOfFile ==
  /\ pc = "reading"
  /\ left > Len(disk)
  /\ pc' = "started"
  /\ left' = 0
  /\ UNCHANGED <<users, disk, job, saving, answer, spaced>>

Begin(op, j) == job' = [op |-> op, jid |-> j] /\ answer' = NoAnswer

\* GatewayHandler::onConnect probes every user and rewrites the file.
OnConnect ==
  /\ pc = "started"
  /\ pc' = "open"
  /\ Begin("connect", "none")
  /\ UNCHANGED <<users, disk, left, saving, spaced>>

\* jabber:iq:register set from a jid the gateway does not know.
RegisterNew(j, n, p) ==
  /\ pc = "idle"
  /\ ~HasJid(j)
  /\ ~NameTaken(n)
  /\ users' = Append(users, [jid |-> Lower[j], name |-> n, pass |-> p,
                             roster |-> <<>>])
  /\ spaced' = IF n \in Word THEN spaced \ {Lower[j]}
                             ELSE spaced \union {Lower[j]}
  /\ pc' = "open"
  /\ Begin("register", Lower[j])
  /\ UNCHANGED <<disk, left, saving>>

\* Somebody registered the name: 409, and then the result all the same.
RegisterConflict(j, n) ==
  /\ pc = "idle"
  /\ ~HasJid(j)
  /\ NameTaken(n)
  /\ answer' = [to |-> Lower[j], kinds |-> <<"conflict", "result">>]
  /\ UNCHANGED <<users, disk, pc, job, left, saving, spaced>>

\* A known jid only ever changes its password; the name is ignored.
ChangePassword(j, p) ==
  /\ pc = "idle"
  /\ HasJid(j)
  /\ users' = [users EXCEPT ![IndexByJid(j)].pass = p]
  /\ pc' = "open"
  /\ Begin("password", Lower[j])
  /\ UNCHANGED <<disk, left, saving, spaced>>

\* query/remove: preRemove and the erase; the user object is still to delete.
RemoveUser(j) ==
  /\ pc = "idle"
  /\ HasJid(j)
  /\ users' = RemoveAt(users, IndexByJid(j))
  /\ pc' = "delete"
  /\ Begin("remove", Lower[j])
  /\ UNCHANGED <<disk, left, saving, spaced>>

\* delete user: User::~User returns (that it may not return is Crash).
DeleteUser ==
  /\ pc = "delete"
  /\ pc' = "open"
  /\ UNCHANGED <<users, disk, job, left, saving, answer, spaced>>

OpenFileKeepingLines ==
  /\ pc = "open"
  /\ left' = Len(users)
  /\ pc' = "lines"
  /\ UNCHANGED <<users, disk, job, saving, answer, spaced>>

OpenFileFromSize ==
  /\ pc = "open"
  /\ disk' = <<>>
  /\ left' = Len(users) + 1
  /\ pc' = "lines"
  /\ UNCHANGED <<users, job, saving, answer, spaced>>

OpenFileOffByOne ==
  /\ pc = "open"
  /\ disk' = <<>>
  /\ left' = IF Len(users) = 0 THEN 0 ELSE Len(users) - 1
  /\ pc' = "lines"
  /\ UNCHANGED <<users, job, saving, answer, spaced>>

\* writeUserFile: open and truncate.
OpenFile ==
  /\ pc = "open"
  /\ disk' = <<>>
  /\ left' = Len(users)
  /\ pc' = "lines"
  /\ UNCHANGED <<users, job, saving, answer, spaced>>

BeginLineShortOfOne ==
  /\ pc = "lines"
  /\ left > 0
  /\ row' = <<users[left].jid>> \o Credentials(users[left])
  /\ rest' = IF users[left].roster = <<>> THEN 0 ELSE Len(users[left].roster) - 1
  /\ pc' = "entries"
  /\ UNCHANGED <<users, disk, job, left, answer, spaced>>

\* writeUserFile: the last user first; his roster is walked backwards, and
\* readUserFile walks the words backwards again.
BeginLine ==
  /\ pc = "lines"
  /\ left > 0
  /\ row' = <<users[left].jid>> \o Credentials(users[left])
  /\ rest' = Len(users[left].roster)
  /\ pc' = "entries"
  /\ UNCHANGED <<users, disk, job, left, answer, spaced>>

\* inroster.at(j), whatever was erased since the size was taken.
WriteEntry ==
  /\ pc = "entries"
  /\ rest \in 1..Len(users[left].roster)
  /\ row' = Append(row, users[left].roster[rest])
  /\ rest' = rest - 1
  /\ UNCHANGED <<users, disk, pc, job, left, answer, spaced>>

EndLine ==
  /\ pc = "entries"
  /\ rest = 0
  /\ disk' = Append(disk, row)
  /\ left' = left - 1
  /\ row' = <<>>
  /\ pc' = "lines"
  /\ UNCHANGED <<users, job, rest, answer, spaced>>

Replies(op) ==
  CASE op = "register" -> <<"result", "subscribe">>
    [] op = "password" -> <<"result">>
    [] op = "remove"   -> <<"result", "unsubscribe", "unsubscribed">>
    [] OTHER           -> <<>>

\* The file is closed; the handler answers, or the destructor goes on.
CloseFile ==
  /\ pc = "lines"
  /\ left = 0
  /\ IF job.op \in {"shutdown", "early"}
       THEN pc' = "quit" /\ UNCHANGED <<job, answer>>
       ELSE /\ pc' = "idle"
            /\ job' = NoJob
            /\ answer' = [to |-> job.jid, kinds |-> Replies(job.op)]
  /\ UNCHANGED <<users, disk, left, saving, spaced>>

\* Presence "subscribed" for a buddy: added to the roster, not to the file.
RosterAdd(i, b) ==
  /\ pc = "idle"
  /\ ~Contains(users[i].roster, b)
  /\ users' = [users EXCEPT ![i].roster = Append(@, b)]
  /\ answer' = NoAnswer
  /\ UNCHANGED <<disk, pc, job, left, saving, spaced>>

\* The read thread of a user's client erases a buddy (the first match) at any
\* time.
RosterErase(i, k) ==
  /\ pc \in {"idle", "delete", "open", "lines", "entries"}
  /\ job.op # "early"
  /\ \A m \in 1..(k - 1) : users[i].roster[m] # users[i].roster[k]
  /\ users' = [users EXCEPT ![i].roster = RemoveAt(@, k)]
  /\ UNCHANGED <<disk, pc, job, left, saving, answer, spaced>>

\* SIGINT while a handler, or nothing, runs: that handler never resumes (job
\* keeps whose request it was) and the destructor saves what is in memory.
Interrupt ==
  /\ pc \in {"started", "idle", "delete", "open", "lines", "entries"}
  /\ job.op \notin {"shutdown", "early"}
  /\ pc' = "open"
  /\ left' = 0
  /\ row' = <<>>
  /\ rest' = 0
  /\ Begin("shutdown", job.jid)
  /\ UNCHANGED <<users, disk, spaced>>

\* SIGINT during readUserFile: the destructor saves the users read so far.
InterruptReading ==
  /\ pc = "reading"
  /\ pc' = "open"
  /\ left' = 0
  /\ Begin("early", "none")
  /\ UNCHANGED <<users, disk, saving, spaced>>

Stopped ==
  /\ users' = <<>>
  /\ pc' = "down"
  /\ job' = NoJob
  /\ left' = 0
  /\ row' = <<>>
  /\ rest' = 0
  /\ answer' = NoAnswer
  /\ UNCHANGED <<disk, spaced>>

\* SIGINT before readUserFile: writeUserFile truncates the file and then
\* dereferences the null users.
InterruptBoot ==
  /\ pc = "boot"
  /\ disk' = <<>>
  /\ pc' = "down"
  /\ UNCHANGED <<users, job, left, saving, answer, spaced>>

\* The roster is shorter by now than the index: at(j) throws, nothing catches it.
OutOfRange ==
  /\ pc = "entries"
  /\ rest > Len(users[left].roster)
  /\ Stopped

\* The destructor has deleted the users and the process exits.
Quit == pc = "quit" /\ Stopped

\* The process is killed, loses the Jabber server, or faults in a destructor.
Crash == pc # "down" /\ Stopped

Next ==
  \/ Start \/ OpenForReading \/ ReadLine \/ EndOfFile \/ OnConnect
  \/ \E j \in Jids, n \in Names, p \in Passwords : RegisterNew(j, n, p)
  \/ \E j \in Jids, n \in Names : RegisterConflict(j, n)
  \/ \E j \in Jids, p \in Passwords : ChangePassword(j, p)
  \/ \E j \in Jids : RemoveUser(j)
  \/ DeleteUser \/ OpenFile \/ BeginLine \/ WriteEntry \/ EndLine \/ OutOfRange \/ CloseFile
  \/ \E i \in 1..Len(users), b \in Buddies : RosterAdd(i, b)
  \/ \E i \in 1..Len(users) : \E k \in 1..Len(users[i].roster) : RosterErase(i, k)
  \/ Interrupt \/ InterruptReading \/ InterruptBoot \/ Quit \/ Crash

Spec == Init /\ [][Next]_vars
-----------------------------------------------------------------------------
(* Properties *)

AccountOf(u) == [jid |-> u.jid, name |-> u.name, pass |-> u.pass]
InMemory == {AccountOf(users[i]) : i \in 1..Len(users)}
ReadableLines == {i \in 1..Len(disk) : Readable(disk[i])}
OnDisk == {AccountOf(UserOf(disk[i])) : i \in ReadableLines}

OneWord(a) == a.name \in Word /\ a.pass \in Word

Apart(u, v) ==
  /\ u.jid # v.jid
  /\ u.jid \in spaced \/ v.jid \in spaced \/ Lower[u.name] # Lower[v.name]

(* Nobody is registered twice, and no two users whose names were typed as    *)
(* one word each share an XFire name, neither in the vector nor in what any  *)
(* restart would read, a file cut short by a crash included (handleIq's two  *)
(* look-ups, writeUserFile, readUserFile).  A name of several words comes    *)
(* back from the file as its first, which may be somebody else's.            *)
AccountsUnique ==
  /\ \A i, k \in 1..Len(users) : i # k => Apart(users[i], users[k])
  /\ \A i, k \in ReadableLines : i # k => Apart(UserOf(disk[i]), UserOf(disk[k]))

(* a is what a restart may read for b: b itself if his name and password are *)
(* one word each, and otherwise something that is filed under his jid.       *)
FiledAs(a, b) == a.jid = b.jid /\ (OneWord(b) => a = b)

(* While the process runs, every account in the file, but for the one whose  *)
(* request is being served, is that of somebody registered and, if his name  *)
(* and password are one word each, the same account: no save for another's   *)
(* request brings a removed user or an old password back.                    *)
OnlyTheJobDiffers ==
  pc \notin {"down", "boot", "reading"} /\ job.op # "early" =>
    \A a \in OnDisk : a.jid = job.jid \/ \E b \in InMemory : FiledAs(a, b)

(* From an answer until the next request, or the signal, the file has every  *)
(* user whose name and password are one word each, and nobody who is not     *)
(* registered; so who was just told "subscribe" is back after a crash, and   *)
(* who was just told "unsubscribed" is not.  The next save truncates the     *)
(* file, and a crash in it loses them all.                                   *)
AnsweredIsDurable ==
  pc = "idle" =>
    /\ \A b \in InMemory : OneWord(b) => b \in OnDisk
    /\ \A a \in OnDisk : \E b \in InMemory : FiledAs(a, b)
    /\ Contains(answer.kinds, "subscribe")
         => \E b \in InMemory : b.jid = answer.to
    /\ Contains(answer.kinds, "unsubscribed")
         => \A b \in InMemory : b.jid # answer.to

\* s is what is left of t when some of its entries are taken out.
Subsequence(s, t) ==
  \E f \in [1..Len(s) -> 1..Len(t)] :
    /\ \A m \in 1..Len(s) : t[f[m]] = s[m]
    /\ \A m, n \in 1..Len(s) : m < n => f[m] < f[n]

(* The destructor's save keeps every roster entry of a user whose name and   *)
(* password have two words between them: what is in his roster when the file *)
(* is closed for the last time is, in the same order, in the roster a        *)
(* restart reads.  The line may have more: what was erased behind the save's *)
(* back, what such an erasure shifted under its index a second time, and the *)
(* third and later words of the credentials.                                 *)
ShutdownKeepsRosters ==
  pc = "quit" =>
    \A i \in 1..Len(users) :
      Len(Credentials(users[i])) >= 2 =>
        \E k \in ReadableLines :
          /\ UserOf(disk[k]).jid = users[i].jid
          /\ Subsequence(users[i].roster, UserOf(disk[k]).roster)

Abs == INSTANCE Registrations WITH
  Jid <- {Lower[j] : j \in Jids},
  Name <- Names,
  Password <- Passwords,
  Fold <- Lower,
  OneWord <- OneWord,
  accounts <- IF pc \in {"down", "boot", "reading"} THEN OnDisk ELSE InMemory,
  saved <- OnDisk,
  busy <- pc \in {"delete", "open", "lines", "entries", "quit"}

(* The vector and the file together implement Registrations: every request   *)
(* takes effect once and is answered only when whatever the file can tell is *)
(* in it, a crash at any step loses accounts only to the save it interrupts, *)
(* and an interrupt only during start-up.                                    *)
ImplementsRegistrations == Abs!AbsSpec
=============================================================================
