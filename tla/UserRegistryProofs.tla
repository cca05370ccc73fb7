------------------------- MODULE UserRegistryProofs -------------------------
(***************************************************************************)
(* What holds of the registry for any texts, any spellings and any number  *)
(* of users: the type invariant, that no Jabber id and no XFire name typed *)
(* as one word is ever registered twice, in memory or on disk, that what   *)
(* was answered is durable, that the vector and the file implement         *)
(* Registrations, and that the destructor's save keeps the rosters.        *)
(***************************************************************************)
EXTENDS UserRegistry, SequenceFacts

-----------------------------------------------------------------------------
(* Lines.  Every claim about the file rests on what the words of a line say  *)
(* of the user it was written for, whatever his name and password are, and   *)
(* however much of his roster has been written so far.                       *)

HeadOf(u) == <<u.jid>> \o Credentials(u)

\* The jid always stands first; the name second and the password third if they
\* are one word each.
FromUser(args, u) ==
  /\ Len(args) >= 1 /\ args[1] = u.jid
  /\ u.name \in Word => Len(args) >= 2 /\ args[2] = u.name
  /\ OneWord(u) => Len(args) >= 3 /\ args[3] = u.pass

LEMMA WordsOfWord ==
  ASSUME NEW w \in Word
  PROVE  Len(Words[w]) = 1 /\ Words[w][1] = w
<1>1. Words[w] = <<w>>
  BY RegistryAssumption
<1>. QED BY <1>1

LEMMA CredentialsType ==
  ASSUME NEW u \in User
  PROVE  /\ Words[u.name] \in Seq(Word) /\ Words[u.pass] \in Seq(Word)
         /\ Credentials(u) \in Seq(Word)
         /\ Len(Credentials(u)) = Len(Words[u.name]) + Len(Words[u.pass])
         /\ \A k \in 1..(Len(Words[u.name]) + Len(Words[u.pass])) :
              Credentials(u)[k] = IF k <= Len(Words[u.name]) THEN Words[u.name][k]
                                  ELSE Words[u.pass][k - Len(Words[u.name])]
<1>1. Words[u.name] \in Seq(Word) /\ Words[u.pass] \in Seq(Word)
  BY RegistryAssumption DEF User
<1> DEFINE n == Words[u.name]
           p == Words[u.pass]
<1>2. /\ n \o p \in Seq(Word)
      /\ Len(n \o p) = Len(n) + Len(p)
      /\ \A k \in 1..(Len(n) + Len(p)) :
           (n \o p)[k] = IF k <= Len(n) THEN n[k] ELSE p[k - Len(n)]
  BY <1>1, ConcatProperties
<1>. QED BY <1>1, <1>2 DEF Credentials

LEMMA HeadFacts ==
  ASSUME NEW u \in User
  PROVE  /\ HeadOf(u) \in Seq(Word)
         /\ Len(HeadOf(u)) = 1 + Len(Credentials(u))
         /\ FromUser(HeadOf(u), u)
<1> DEFINE j == <<u.jid>>
           c == Credentials(u)
           h == j \o c
<1>1. /\ u.jid \in Word /\ j \in Seq(Word) /\ Len(j) = 1 /\ j[1] = u.jid
  BY DEF User
<1>2. c \in Seq(Word) /\ Len(c) \in Nat
  BY CredentialsType, LenProperties
<1>. HIDE DEF j, c
<1>3. /\ h \in Seq(Word)
      /\ Len(h) = Len(j) + Len(c)
      /\ \A k \in 1..(Len(j) + Len(c)) : h[k] = IF k <= Len(j) THEN j[k] ELSE c[k - Len(j)]
  BY <1>1, <1>2, ConcatProperties
<1>. HIDE DEF h
<1>4. Len(h) = 1 + Len(c) /\ h[1] = u.jid
      /\ \A k \in 1..Len(c) : h[k + 1] = c[k]
  <2>1. Len(h) = 1 + Len(c) /\ h[1] = u.jid
    BY <1>1, <1>2, <1>3
  <2>2. ASSUME NEW k \in 1..Len(c)
        PROVE  h[k + 1] = c[k]
    <3>1. k + 1 \in 1..(1 + Len(c)) /\ ~(k + 1 <= 1) /\ (k + 1) - 1 = k
      BY ONLY <1>2, k \in 1..Len(c)
    <3>2. h[k + 1] = c[(k + 1) - 1]
      BY <1>1, <1>3, <3>1
    <3>. QED BY <3>1, <3>2
  <2>. QED BY <2>1, <2>2
<1>5. ASSUME u.name \in Word
      PROVE  Len(h) >= 2 /\ h[2] = u.name
  <2>1. Len(Words[u.name]) = 1 /\ Words[u.name][1] = u.name
    BY <1>5, WordsOfWord
  <2>2. /\ Len(Words[u.pass]) \in Nat
        /\ Len(c) = Len(Words[u.name]) + Len(Words[u.pass])
        /\ \A k \in 1..(Len(Words[u.name]) + Len(Words[u.pass])) :
             c[k] = IF k <= Len(Words[u.name]) THEN Words[u.name][k]
                    ELSE Words[u.pass][k - Len(Words[u.name])]
    BY CredentialsType, LenProperties DEF c
  <2>3. c[1] = u.name /\ Len(c) = 1 + Len(Words[u.pass])
    BY <2>1, <2>2
  <2> DEFINE x == Len(c)
             y == Len(Words[u.pass])
  <2>0. x = 1 + y /\ y \in Nat
    BY <2>2, <2>3
  <2>. HIDE DEF x, y
  <2>4. 1 \in 1..x /\ 1 + 1 = 2 /\ 1 + x >= 2
    BY ONLY <2>0
  <2>5. h[2] = c[1] /\ Len(h) >= 2
    BY <1>4, <2>4 DEF x
  <2>. QED BY <2>3, <2>5
<1>6. ASSUME OneWord(u)
      PROVE  Len(h) >= 3 /\ h[3] = u.pass
  <2>1. /\ Len(Words[u.name]) = 1 /\ Len(Words[u.pass]) = 1
        /\ Words[u.pass][1] = u.pass
    BY <1>6, WordsOfWord DEF OneWord
  <2>2. Len(c) = 2 /\ c[2] = u.pass
    <3>1. /\ Len(c) = Len(Words[u.name]) + Len(Words[u.pass])
          /\ \A k \in 1..(Len(Words[u.name]) + Len(Words[u.pass])) :
               c[k] = IF k <= Len(Words[u.name]) THEN Words[u.name][k]
                      ELSE Words[u.pass][k - Len(Words[u.name])]
      BY CredentialsType DEF c
    <3>. QED BY <2>1, <3>1
  <2>3. 2 \in 1..Len(c) /\ 2 + 1 = 3
    BY ONLY <2>2
  <2>4. h[3] = c[2]
    BY <1>4, <2>3
  <2>5. Len(h) >= 3
    BY ONLY <1>4, <2>2
  <2>. QED BY <2>2, <2>4, <2>5
<1>7. FromUser(h, u)
  <2>1. Len(h) >= 1
    BY ONLY <1>2, <1>4
  <2>. QED BY <2>1, <1>4, <1>5, <1>6 DEF FromUser
<1>. QED BY <1>3, <1>4, <1>7 DEF HeadOf, h, j, c

\* An entry more says nothing else of the user.
LEMMA EntryMore ==
  ASSUME NEW args \in Seq(Word), NEW e \in Word, NEW u, FromUser(args, u)
  PROVE  /\ Append(args, e) \in Seq(Word)
         /\ Len(Append(args, e)) = Len(args) + 1
         /\ \A k \in 1..Len(args) : Append(args, e)[k] = args[k]
         /\ Append(args, e)[Len(args) + 1] = e
         /\ FromUser(Append(args, e), u)
<1> DEFINE t == Append(args, e)
<1>1. /\ Len(args) \in Nat /\ t \in Seq(Word) /\ Len(t) = Len(args) + 1
      /\ \A k \in 1..Len(args) : t[k] = args[k]
      /\ t[Len(args) + 1] = e
  BY AppendProperties, LenProperties
<1>. HIDE DEF t
<1>2. FromUser(t, u)
  BY <1>1 DEF FromUser
<1>. QED BY <1>1, <1>2 DEF t

\* The line of a user whose name and password are one word each, whatever part
\* of his roster is on it, is read as an account of the same jid, name and
\* password; and a whole line is read as the same user, roster order included.
THEOREM LineReadsBack ==
  ASSUME NEW u \in User, OneWord(u), Lower[u.jid] = u.jid
  PROVE  LET line == HeadOf(u) \o Reverse(u.roster)
         IN  line \in Seq(Word) /\ Readable(line) /\ UserOf(line) = u
<1> DEFINE r == Reverse(u.roster)
           h == HeadOf(u)
           l == h \o r
           n == Len(u.roster)
<1>1. u.roster \in Seq(Word) /\ n \in Nat
  BY LenProperties DEF User
<1>2. h \in Seq(Word) /\ Len(h) = 3 /\ h[1] = u.jid /\ h[2] = u.name /\ h[3] = u.pass
  <2>1. u.name \in Word /\ Len(Words[u.name]) = 1 /\ Len(Words[u.pass]) = 1
    BY WordsOfWord DEF OneWord
  <2>2. Len(Credentials(u)) = Len(Words[u.name]) + Len(Words[u.pass])
    BY CredentialsType
  <2>3. Len(Credentials(u)) = 2
    BY <2>1, <2>2
  <2>4. /\ HeadOf(u) \in Seq(Word)
        /\ Len(HeadOf(u)) = 1 + Len(Credentials(u))
        /\ FromUser(HeadOf(u), u)
    BY HeadFacts
  <2>. QED BY <2>1, <2>3, <2>4 DEF FromUser
<1>3. /\ r \in Seq(Word)
      /\ Len(r) = n
      /\ \A k \in 1..n : r[k] = u.roster[n - k + 1]
  BY <1>1, ReverseFacts
<1>. HIDE DEF r, h, n
<1>4. /\ l \in Seq(Word)
      /\ Len(l) = 3 + n
      /\ \A k \in 1..(3 + n) : l[k] = IF k <= 3 THEN h[k] ELSE r[k - 3]
  <2>1. h \in Seq(Word) /\ r \in Seq(Word)
    BY <1>2, <1>3
  <2>2. /\ l \in Seq(Word)
        /\ Len(l) = Len(h) + Len(r)
        /\ \A k \in 1..(Len(h) + Len(r)) : l[k] = IF k <= Len(h) THEN h[k] ELSE r[k - Len(h)]
    BY ONLY <2>1, ConcatProperties
  <2>. HIDE DEF l
  <2>. QED BY <1>2, <1>3, <2>2
<1>. HIDE DEF l
<1>5. Readable(l)
  BY <1>1, <1>4 DEF Readable, n
<1> DEFINE t == SubSeq(l, 4, Len(l))
<1>6. n \in Nat
  BY <1>1
<1>7. /\ t \in Seq(Word)
      /\ Len(t) = n
      /\ \A k \in 1..n : t[k] = r[k]
  <2>1. l \in Seq(Word) /\ 3 \in 0..Len(l) /\ 3 + 1 = 4
    BY <1>4, <1>6
  <2> DEFINE w == SubSeq(l, 3 + 1, Len(l))
  <2>2. /\ w \in Seq(Word)
        /\ Len(w) = Len(l) - 3
        /\ \A k \in 1..(Len(l) - 3) : w[k] = l[3 + k]
    BY ONLY <2>1, BackFacts
  <2>3. w = t
    BY <2>1
  <2>4. Len(l) - 3 = n
    BY ONLY <1>4, <1>6
  <2>5. \A k \in 1..n : l[3 + k] = r[k]
    <3>. TAKE k \in 1..n
    <3>1. 3 + k \in 1..(3 + n) /\ ~(3 + k <= 3) /\ (3 + k) - 3 = k
      BY ONLY <1>6, k \in 1..n
    <3>. QED BY ONLY <1>4, <3>1
  <2>. HIDE DEF w, t
  <2>. QED BY ONLY <2>2, <2>3, <2>4, <2>5
<1>. HIDE DEF t
<1>8. Reverse(t) = u.roster
  <2>1. /\ Reverse(t) \in Seq(Word)
        /\ Len(Reverse(t)) = Len(t)
        /\ \A k \in 1..Len(t) : Reverse(t)[k] = t[Len(t) - k + 1]
    BY <1>7, ReverseFacts
  <2>2. \A k \in 1..n : Reverse(t)[k] = u.roster[k]
    <3>. TAKE k \in 1..n
    <3> DEFINE m == n - k + 1
    <3>1. m \in 1..n /\ n - m + 1 = k
      BY <1>6
    <3>2. Reverse(t)[k] = t[m]
      BY <1>7, <2>1
    <3>. HIDE DEF m
    <3>3. t[m] = r[m] /\ r[m] = u.roster[n - m + 1]
      BY <3>1, <1>3, <1>7
    <3>. QED BY <3>1, <3>2, <3>3
  <2>3. Len(Reverse(t)) = Len(u.roster)
    BY <1>7, <2>1 DEF n
  <2>. QED BY ONLY <1>1, <2>1, <2>2, <2>3, SeqEqual DEF n
<1>9. UserOf(l) = [jid |-> u.jid, name |-> u.name, pass |-> u.pass, roster |-> u.roster]
  <2>1. l[1] = u.jid /\ l[2] = u.name /\ l[3] = u.pass
    BY <1>2, <1>4, <1>6
  <2>. QED BY <2>1, <1>8 DEF UserOf, t
<1>10. u = [jid |-> u.jid, name |-> u.name, pass |-> u.pass, roster |-> u.roster]
  BY DEF User
<1>. QED BY <1>4, <1>5, <1>9, <1>10 DEF l, h, r

\* What any readable line is read as.
LEMMA UserOfType ==
  ASSUME NEW args \in Seq(Word), Readable(args), Lower[args[1]] = args[1]
  PROVE  /\ UserOf(args) \in User
         /\ UserOf(args).jid = args[1]
         /\ UserOf(args).name = args[2] /\ UserOf(args).name \in Word
         /\ UserOf(args).pass = args[3] /\ UserOf(args).pass \in Word
<1>1. Len(args) \in Nat /\ Len(args) >= 3
  BY LenProperties DEF Readable
<1>2. args[1] \in Word /\ args[2] \in Word /\ args[3] \in Word
  BY <1>1, ElementOfSeq
<1>3. args[2] \in Text /\ args[3] \in Text
  BY <1>2, RegistryAssumption
<1>4. SubSeq(args, 4, Len(args)) \in Seq(Word)
  <2>1. \A k \in 4..Len(args) : args[k] \in Word
    BY <1>1, ElementOfSeq
  <2>2. 4 \in Int /\ Len(args) \in Int
    BY <1>1
  <2>. QED BY ONLY <2>1, <2>2, SubSeqProperties
<1>5. Reverse(SubSeq(args, 4, Len(args))) \in Seq(Word)
  BY <1>4, ReverseFacts
<1>. QED BY <1>2, <1>3, <1>5 DEF User, UserOf

\* What a line is read as, of what user it was written for.
LEMMA ReadAs ==
  ASSUME NEW args \in Seq(Word), NEW u \in User, FromUser(args, u), Lower[u.jid] = u.jid
  PROVE  /\ OneWord(u) => Readable(args)
         /\ Readable(args) => /\ UserOf(args).jid = u.jid
                              /\ u.name \in Word => UserOf(args).name = u.name
                              /\ OneWord(u) => UserOf(args).pass = u.pass
                              /\ FiledAs(AccountOf(UserOf(args)), AccountOf(u))
<1>1. OneWord(u) => Readable(args)
  BY DEF FromUser, Readable
<1>2. ASSUME Readable(args)
      PROVE  /\ UserOf(args).jid = u.jid
             /\ u.name \in Word => UserOf(args).name = u.name
             /\ OneWord(u) => UserOf(args).pass = u.pass
  BY <1>2, UserOfType DEF FromUser
<1>3. ASSUME Readable(args)
      PROVE  FiledAs(AccountOf(UserOf(args)), AccountOf(u))
  BY <1>2, <1>3 DEF FiledAs, AccountOf, OneWord
<1>. QED BY <1>1, <1>2, <1>3
-----------------------------------------------------------------------------
(***************************************************************************)
(* AccountsUnique is not inductive: that the file read back keeps users    *)
(* apart rests, while the file is being read or written, on the line or    *)
(* the user each entry came from.                                          *)
(***************************************************************************)

\* Ids are in lower case, and a name is one word unless the history says not.
AllProper ==
  /\ \A i \in 1..Len(users) :
       /\ Lower[users[i].jid] = users[i].jid
       /\ users[i].jid \notin spaced => users[i].name \in Word
  /\ \A d \in 1..Len(disk) : Len(disk[d]) >= 1 /\ Lower[disk[d][1]] = disk[d][1]

UsersApart ==
  \A i, k \in 1..Len(users) : i # k => Apart(users[i], users[k])

LinesApart ==
  \A d, e \in 1..Len(disk) :
    d # e =>
      /\ disk[d][1] # disk[e][1]
      /\ Readable(disk[d]) /\ Readable(disk[e]) => Apart(UserOf(disk[d]), UserOf(disk[e]))

EmptyWhenDown == pc \in {"down", "boot"} => users = <<>>

ReadFrom(u, d) == Readable(disk[d]) /\ AccountOf(u) = AccountOf(UserOf(disk[d]))

\* The lines read so far and the users are of the same accounts.
ReadSoFar ==
  pc = "reading" =>
    /\ left >= 1
    /\ \A i \in 1..Len(users) : \E d \in 1..Len(disk) : d < left /\ ReadFrom(users[i], d)
    /\ \A e \in 1..Len(disk) :
         e < left /\ Readable(disk[e]) => \E k \in 1..Len(users) : ReadFrom(users[k], e)

\* So are the lines written so far and the users they were written for.
WrittenSoFar ==
  pc \in {"lines", "entries", "quit"} =>
    /\ Len(disk) + left = Len(users)
    /\ \A d \in 1..Len(disk) : FromUser(disk[d], users[Len(users) + 1 - d])

RowSoFar == pc = "entries" => FromUser(row, users[left])

\* At rest the file has nobody who is not registered.
NoStrangers ==
  pc = "idle" => \A d \in 1..Len(disk) : \E i \in 1..Len(users) : users[i].jid = disk[d][1]

IInv ==
  /\ TypeOK
  /\ AllProper
  /\ UsersApart
  /\ LinesApart
  /\ EmptyWhenDown
  /\ ReadSoFar
  /\ WrittenSoFar
  /\ RowSoFar
  /\ NoStrangers

LEMMA InitIInv == Init => IInv
<1>. SUFFICES ASSUME Init PROVE IInv
  OBVIOUS
<1>1. users = <<>> /\ disk = <<>> /\ Len(users) = 0 /\ Len(disk) = 0
  BY DEF Init
<1>2. users \in Seq(User) /\ disk \in Seq(Seq(Word)) /\ <<>> \in Seq(Kinds) /\ <<>> \in Seq(Word)
  BY <1>1
<1>3. TypeOK
  BY <1>2 DEF TypeOK, Init, NoJob, NoAnswer
<1>. QED BY <1>1, <1>3 DEF Init, IInv, AllProper, UsersApart, LinesApart,
            EmptyWhenDown, ReadSoFar, WrittenSoFar, RowSoFar, NoStrangers

LEMMA Lengths ==
  ASSUME TypeOK
  PROVE  /\ Len(users) \in Nat /\ Len(disk) \in Nat /\ left \in Nat
         /\ users \in Seq(User) /\ disk \in Seq(Seq(Word))
         /\ \A i \in 1..Len(users) : users[i] \in User
         /\ \A d \in 1..Len(disk) : disk[d] \in Seq(Word)
BY LenProperties, ElementOfSeq DEF TypeOK

LEMMA LineType ==
  ASSUME IInv, NEW d \in 1..Len(disk), Readable(disk[d])
  PROVE  /\ UserOf(disk[d]) \in User
         /\ UserOf(disk[d]).jid = disk[d][1]
         /\ UserOf(disk[d]).name = disk[d][2] /\ UserOf(disk[d]).name \in Word
         /\ UserOf(disk[d]).pass = disk[d][3] /\ UserOf(disk[d]).pass \in Word
BY Lengths, UserOfType DEF IInv, AllProper

\* The steps that touch neither the users nor the lines, and leave the phases
\* in which the invariant relates the two, or have not entered them.
LEMMA ControlSteps ==
  ASSUME IInv, UNCHANGED <<users, disk, spaced>>, TypeOK',
         pc' \in {"down", "boot"} => users = <<>>,
         pc' = "reading" => users = <<>> /\ left' = 1,
         pc' \notin {"lines", "entries", "quit"},
         pc' = "idle" => pc = "idle"
  PROVE  IInv'
<1>1. Len(users) \in Nat
  BY Lengths DEF IInv
<1>2. users = <<>> => Len(users) = 0
  OBVIOUS
<1>. QED BY <1>1, <1>2 DEF IInv, AllProper, UsersApart, LinesApart, EmptyWhenDown, Apart,
            ReadSoFar, WrittenSoFar, RowSoFar, NoStrangers, UserOf, Readable

LEMMA ShortSeqs ==
  ASSUME NEW S
  PROVE  /\ <<>> \in Seq(S)
         /\ \A a \in S : <<a>> \in Seq(S)
         /\ \A a, b \in S : <<a, b>> \in Seq(S)
         /\ \A a, b, c \in S : <<a, b, c>> \in Seq(S)
OBVIOUS

LEMMA RepliesType ==
  ASSUME NEW op
  PROVE  Replies(op) \in Seq(Kinds)
<1>1. /\ "result" \in Kinds /\ "conflict" \in Kinds /\ "subscribe" \in Kinds
      /\ "unsubscribe" \in Kinds /\ "unsubscribed" \in Kinds
  BY DEF Kinds
<1>2. /\ <<"result", "subscribe">> \in Seq(Kinds)
      /\ <<"result">> \in Seq(Kinds)
      /\ <<"result", "unsubscribe", "unsubscribed">> \in Seq(Kinds)
      /\ <<>> \in Seq(Kinds)
  BY <1>1, ShortSeqs
<1>. QED BY <1>2 DEF Replies

LEMMA BeginType ==
  ASSUME NEW op \in Ops, NEW j \in Word \union {"none"}, Begin(op, j)
  PROVE  /\ job' \in Job \union {NoJob}
         /\ answer' \in [to : Word \union {"none"}, kinds : Seq(Kinds)]
<1>1. <<>> \in Seq(Kinds)
  OBVIOUS
<1>. QED BY <1>1 DEF Begin, Job, NoJob, NoAnswer, Ops

LEMMA LowerInWord == \A j \in Jids : Lower[j] \in Word /\ Lower[Lower[j]] = Lower[j]
BY RegistryAssumption

LEMMA JobJid == TypeOK => job.jid \in Word \union {"none"}
BY DEF TypeOK, Job, NoJob

\* A new user whose jid and name the scans did not find is apart from the rest,
\* and the file has no line of his.
LEMMA RegisterStep ==
  ASSUME IInv, NEW j \in Jids, NEW n \in Names, NEW p \in Passwords, RegisterNew(j, n, p)
  PROVE  IInv'
<1> DEFINE u == [jid |-> Lower[j], name |-> n, pass |-> p, roster |-> <<>>]
<1>1. u \in User /\ u.jid = Lower[j] /\ u.name = n /\ Lower[u.jid] = u.jid
  BY LowerInWord, RegistryAssumption DEF User
<1>2. /\ users \in Seq(User) /\ Len(users) \in Nat
  BY Lengths DEF IInv
<1>3. /\ users' = Append(users, u) /\ disk' = disk /\ pc' = "open" /\ left' = left
      /\ pc = "idle" /\ row' = row /\ rest' = rest
      /\ \A x : x # Lower[j] => (x \in spaced' <=> x \in spaced)
      /\ Lower[j] \notin spaced' => n \in Word
      /\ spaced' \subseteq Word
  <2>1. spaced \subseteq Word /\ Lower[j] \in Word
    BY LowerInWord DEF IInv, TypeOK
  <2>. QED BY <2>1 DEF RegisterNew, saving
<1>4. \A i \in 1..Len(users) : users[i].jid # Lower[j] /\ Lower[users[i].name] # Lower[n]
  BY DEF RegisterNew, HasJid, NameTaken
<1>. HIDE DEF u
<1>5. /\ users' \in Seq(User)
      /\ Len(users') = Len(users) + 1
      /\ \A i \in 1..Len(users) : users'[i] = users[i]
      /\ users'[Len(users) + 1] = u
  BY <1>1, <1>2, <1>3, AppendProperties
<1>6. \A i \in 1..Len(users') : i \in 1..Len(users) \/ i = Len(users) + 1
  BY <1>2, <1>5
<1>7. TypeOK'
  <2>1. Begin("register", Lower[j]) /\ "register" \in Ops /\ Lower[j] \in Word
    BY LowerInWord DEF RegisterNew, Ops
  <2>2. left = 0
    BY <1>3 DEF IInv, TypeOK
  <2>. QED BY <2>1, <2>2, <1>3, <1>5, BeginType DEF IInv, TypeOK
<1>8. AllProper'
  <2>1. \A i \in 1..Len(users') :
          /\ Lower[users'[i].jid] = users'[i].jid
          /\ users'[i].jid \notin spaced' => users'[i].name \in Word
    <3>. TAKE i \in 1..Len(users')
    <3>1. CASE i \in 1..Len(users)
      BY <1>3, <1>4, <1>5, <3>1 DEF IInv, AllProper
    <3>2. CASE i = Len(users) + 1
      BY <1>1, <1>3, <1>5, <3>2
    <3>. QED BY <1>6, <3>1, <3>2
  <2>. QED BY <1>3, <2>1 DEF IInv, AllProper
<1> DEFINE A(x, y) ==
             /\ x.jid # y.jid
             /\ x.jid \in spaced' \/ y.jid \in spaced' \/ Lower[x.name] # Lower[y.name]
<1>9. UsersApart'
  <2>. SUFFICES ASSUME NEW i \in 1..Len(users'), NEW k \in 1..Len(users'), i # k
                PROVE  A(users'[i], users'[k])
    BY DEF UsersApart, Apart
  <2>1. CASE i \in 1..Len(users) /\ k \in 1..Len(users)
    BY <1>3, <1>4, <1>5, <2>1 DEF IInv, UsersApart, Apart
  <2>2. CASE i = Len(users) + 1 /\ k \in 1..Len(users)
    BY <1>1, <1>4, <1>5, <2>2
  <2>3. CASE i \in 1..Len(users) /\ k = Len(users) + 1
    BY <1>1, <1>4, <1>5, <2>3
  <2>. QED BY <1>6, <2>1, <2>2, <2>3
<1>10. LinesApart'
  <2>. SUFFICES ASSUME NEW d \in 1..Len(disk), NEW e \in 1..Len(disk), d # e
                PROVE  /\ disk[d][1] # disk[e][1]
                       /\ Readable(disk[d]) /\ Readable(disk[e])
                            => A(UserOf(disk[d]), UserOf(disk[e]))
    BY <1>3 DEF LinesApart, Apart, UserOf, Readable
  <2>1. disk[d][1] # Lower[j] /\ disk[e][1] # Lower[j] /\ disk[d][1] # disk[e][1]
    BY <1>3, <1>4 DEF IInv, NoStrangers, LinesApart
  <2>2. ASSUME Readable(disk[d]), Readable(disk[e])
        PROVE  A(UserOf(disk[d]), UserOf(disk[e]))
    <3>1. UserOf(disk[d]).jid = disk[d][1] /\ UserOf(disk[e]).jid = disk[e][1]
      BY <2>2, LineType
    <3>2. Apart(UserOf(disk[d]), UserOf(disk[e]))
      BY <2>2 DEF IInv, LinesApart
    <3>. QED BY <1>3, <2>1, <3>1, <3>2 DEF Apart
  <2>. QED BY <2>1, <2>2
<1>. QED BY <1>3, <1>7, <1>8, <1>9, <1>10
     DEF IInv, EmptyWhenDown, ReadSoFar, WrittenSoFar, RowSoFar, NoStrangers

\* With one user per jid the first match is the only one.
LEMMA IndexFacts ==
  ASSUME IInv, NEW j, HasJid(j)
  PROVE  IndexByJid(j) \in 1..Len(users) /\ users[IndexByJid(j)].jid = Lower[j]
<1>1. PICK i \in 1..Len(users) : users[i].jid = Lower[j]
  BY DEF HasJid
<1>2. Len(users) \in Nat
  BY Lengths DEF IInv
<1>3. \A k \in 1..(i - 1) : users[k].jid # Lower[j]
  BY <1>1, <1>2 DEF IInv, UsersApart, Apart
<1>. QED BY <1>1, <1>3 DEF IndexByJid

LEMMA ChangePasswordStep ==
  ASSUME IInv, NEW j \in Jids, NEW p \in Passwords, ChangePassword(j, p)
  PROVE  IInv'
<1> DEFINE i == IndexByJid(j)
           u == [users[i] EXCEPT !.pass = p]
<1>1. i \in 1..Len(users)
  BY IndexFacts DEF ChangePassword
<1>. HIDE DEF i
<1>2. users \in Seq(User) /\ users[i] \in User /\ p \in Text
  BY <1>1, Lengths, RegistryAssumption DEF IInv
<1>3. u \in User /\ u.jid = users[i].jid /\ u.name = users[i].name
  BY <1>2 DEF User
<1>4. users' = [users EXCEPT ![i] = u]
  BY DEF ChangePassword, i
<1>. HIDE DEF u
<1>5. /\ users' \in Seq(User)
      /\ Len(users') = Len(users)
      /\ \A k \in 1..Len(users) : users'[k] = IF k = i THEN u ELSE users[k]
  BY <1>1, <1>2, <1>3, <1>4, ExceptSeq
<1>6. \A k \in 1..Len(users) : users'[k].jid = users[k].jid /\ users'[k].name = users[k].name
  BY <1>3, <1>5
<1>7. /\ Begin("password", Lower[j]) /\ "password" \in Ops /\ Lower[j] \in Word
      /\ disk' = disk /\ left' = left /\ pc' = "open" /\ pc = "idle" /\ spaced' = spaced
      /\ row' = row /\ rest' = rest
  BY LowerInWord DEF ChangePassword, Ops, saving
<1>8. TypeOK'
  <2>1. left = 0
    BY <1>7 DEF IInv, TypeOK
  <2>. QED BY <2>1, <1>5, <1>7, BeginType DEF IInv, TypeOK
<1>9. AllProper'
  BY <1>5, <1>6, <1>7 DEF IInv, AllProper
<1>10. UsersApart'
  BY <1>5, <1>6, <1>7 DEF IInv, UsersApart, Apart
<1>11. LinesApart'
  BY <1>7 DEF IInv, LinesApart, Apart, UserOf, Readable
<1>. QED BY <1>7, <1>8, <1>9, <1>10, <1>11
     DEF IInv, EmptyWhenDown, ReadSoFar, WrittenSoFar, RowSoFar, NoStrangers

\* What a roster entry more or less leaves alone.
RosterOnly ==
  /\ Len(users') = Len(users)
  /\ \A k \in 1..Len(users) :
       /\ users'[k].jid = users[k].jid
       /\ users'[k].name = users[k].name
       /\ users'[k].pass = users[k].pass

LEMMA RosterOf ==
  ASSUME IInv, NEW i \in 1..Len(users)
  PROVE  users[i].roster \in Seq(Word)
<1>1. users[i] \in User
  BY Lengths DEF IInv
<1>. QED BY <1>1 DEF User

LEMMA RosterChanges ==
  ASSUME IInv, NEW i \in 1..Len(users), NEW r \in Seq(Word),
         users' = [users EXCEPT ![i].roster = r]
  PROVE  /\ RosterOnly /\ users' \in Seq(User)
         /\ \A k \in 1..Len(users) : users'[k].roster = IF k = i THEN r ELSE users[k].roster
<1> DEFINE u == [users[i] EXCEPT !.roster = r]
<1>1. users \in Seq(User) /\ users[i] \in User
  BY Lengths DEF IInv
<1>2. u \in User /\ u.jid = users[i].jid /\ u.name = users[i].name /\ u.pass = users[i].pass
      /\ u.roster = r
  BY <1>1 DEF User
<1>3. users' = [users EXCEPT ![i] = u]
  OBVIOUS
<1>. HIDE DEF u
<1>4. /\ users' \in Seq(User)
      /\ Len(users') = Len(users)
      /\ \A k \in 1..Len(users) : users'[k] = IF k = i THEN u ELSE users[k]
  <2>1. i \in 1..Len(users)
    OBVIOUS
  <2>. QED BY ONLY <1>1, <1>2, <1>3, <2>1, ExceptSeq
<1>. QED BY <1>2, <1>4 DEF RosterOnly

LEMMA RosterEffect ==
  ASSUME IInv, \/ \E i \in 1..Len(users), b \in Buddies : RosterAdd(i, b)
               \/ \E i \in 1..Len(users) : \E k \in 1..Len(users[i].roster) : RosterErase(i, k)
  PROVE  /\ UNCHANGED <<disk, pc, job, left, row, rest, spaced>>
         /\ pc \in {"idle", "delete", "open", "lines", "entries"}
         /\ answer' \in {answer, NoAnswer}
         /\ RosterOnly /\ users' \in Seq(User)
<1>1. \E i \in 1..Len(users) : \E r \in Seq(Word) : users' = [users EXCEPT ![i].roster = r]
  <2>1. ASSUME NEW i \in 1..Len(users), NEW b \in Buddies, RosterAdd(i, b)
        PROVE  <1>1
    <3>1. Append(users[i].roster, b) \in Seq(Word)
      BY RosterOf, RegistryAssumption, AppendProperties
    <3>2. users' = [users EXCEPT ![i].roster = Append(users[i].roster, b)]
      BY <2>1 DEF RosterAdd
    <3>. QED BY <3>1, <3>2
  <2>2. ASSUME NEW i \in 1..Len(users), NEW k \in 1..Len(users[i].roster), RosterErase(i, k)
        PROVE  <1>1
    <3>1. RemoveAt(users[i].roster, k) \in Seq(Word)
      BY RosterOf, RemoveAtFacts
    <3>2. users' = [users EXCEPT ![i].roster = RemoveAt(users[i].roster, k)]
      BY <2>2 DEF RosterErase
    <3>. QED BY <3>1, <3>2
  <2>. QED BY <2>1, <2>2
<1>2. RosterOnly /\ users' \in Seq(User)
  BY <1>1, RosterChanges
<1>. QED BY <1>2 DEF RosterAdd, RosterErase, saving

LEMMA RosterSteps ==
  ASSUME IInv, \/ \E i \in 1..Len(users), b \in Buddies : RosterAdd(i, b)
               \/ \E i \in 1..Len(users) : \E k \in 1..Len(users[i].roster) : RosterErase(i, k)
  PROVE  IInv'
<1>1. /\ UNCHANGED <<disk, pc, job, left, row, rest, spaced>>
      /\ pc \in {"idle", "delete", "open", "lines", "entries"}
      /\ answer' \in {answer, NoAnswer}
      /\ users' \in Seq(User)
      /\ Len(users') = Len(users)
      /\ \A k \in 1..Len(users) :
           /\ users'[k].jid = users[k].jid
           /\ users'[k].name = users[k].name
           /\ users'[k].pass = users[k].pass
  BY RosterEffect DEF RosterOnly
<1>2. NoAnswer \in [to : Word \union {"none"}, kinds : Seq(Kinds)]
  BY ShortSeqs DEF NoAnswer
<1>3. TypeOK'
  BY <1>1, <1>2 DEF IInv, TypeOK
<1>4. AllProper'
  BY <1>1 DEF IInv, AllProper
<1>5. UsersApart'
  BY <1>1 DEF IInv, UsersApart, Apart
<1>6. LinesApart'
  BY <1>1 DEF IInv, LinesApart, Apart, UserOf, Readable
<1>7. WrittenSoFar'
  <2>. SUFFICES ASSUME pc \in {"lines", "entries"}, NEW d \in 1..Len(disk)
                PROVE  /\ Len(disk) + left = Len(users)
                       /\ FromUser(disk[d], users'[Len(users) + 1 - d])
    BY <1>1 DEF WrittenSoFar, IInv, FromUser, OneWord
  <2>1. Len(disk) + left = Len(users) /\ FromUser(disk[d], users[Len(users) + 1 - d])
    BY DEF IInv, WrittenSoFar
  <2>2. Len(users) + 1 - d \in 1..Len(users)
    <3>1. Len(users) \in Nat /\ Len(disk) \in Nat /\ left \in Nat
      BY Lengths DEF IInv
    <3>2. d \in 1..Len(disk)
      OBVIOUS
    <3>. QED BY ONLY <2>1, <3>1, <3>2
  <2>. QED BY <1>1, <2>1, <2>2 DEF FromUser, OneWord
<1>8. RowSoFar'
  <2>. SUFFICES ASSUME pc = "entries"
                PROVE  FromUser(row, users'[left])
    BY <1>1 DEF RowSoFar, FromUser, OneWord
  <2>1. left \in 1..Len(users)
    BY Lengths DEF IInv, TypeOK
  <2>. QED BY <1>1, <2>1 DEF IInv, RowSoFar, FromUser, OneWord
<1>9. NoStrangers'
  BY <1>1 DEF IInv, NoStrangers
<1>. QED BY <1>1, <1>3, <1>4, <1>5, <1>6, <1>7, <1>8, <1>9 DEF IInv, EmptyWhenDown, ReadSoFar

LEMMA RemoveUserStep ==
  ASSUME IInv, NEW j \in Jids, RemoveUser(j)
  PROVE  IInv'
<1> DEFINE i == IndexByJid(j)
<1>1. i \in 1..Len(users)
  BY IndexFacts DEF RemoveUser
<1>2. users' = RemoveAt(users, i)
  BY DEF RemoveUser
<1>. HIDE DEF i
<1>3. users \in Seq(User) /\ Len(users) \in Nat
  BY Lengths DEF IInv
<1>4. /\ users' \in Seq(User)
      /\ Len(users') = Len(users) - 1
      /\ \A k \in 1..(Len(users) - 1) :
           users'[k] = IF k < i THEN users[k] ELSE users[k + 1]
  BY <1>1, <1>2, <1>3, RemoveAtFacts
<1>5. /\ Begin("remove", Lower[j]) /\ "remove" \in Ops /\ Lower[j] \in Word
      /\ disk' = disk /\ left' = left /\ pc' = "delete" /\ pc = "idle" /\ spaced' = spaced
      /\ row' = row /\ rest' = rest
  BY LowerInWord DEF RemoveUser, Ops, saving
<1>6. TypeOK'
  <2>1. left = 0
    BY <1>5 DEF IInv, TypeOK
  <2>. QED BY <2>1, <1>4, <1>5, BeginType DEF IInv, TypeOK
<1> DEFINE f(x) == IF x < i THEN x ELSE x + 1
<1>7. /\ \A k \in 1..Len(users') : f(k) \in 1..Len(users) /\ users'[k] = users[f(k)]
      /\ \A k, m \in 1..Len(users') : k # m => f(k) # f(m)
  BY <1>1, <1>3, <1>4
<1>. HIDE DEF f
<1>8. AllProper'
  BY <1>5, <1>7 DEF IInv, AllProper
<1>9. UsersApart'
  BY <1>5, <1>7 DEF IInv, UsersApart, Apart
<1>10. LinesApart'
  BY <1>5 DEF IInv, LinesApart, Apart, UserOf, Readable
<1>. QED BY <1>5, <1>6, <1>8, <1>9, <1>10
     DEF IInv, EmptyWhenDown, ReadSoFar, WrittenSoFar, RowSoFar, NoStrangers

LEMMA SameLines ==
  ASSUME IInv, disk' = disk, spaced' = spaced
  PROVE  LinesApart'
BY DEF IInv, LinesApart, Apart, UserOf, Readable

LEMMA ReadOn ==
  ASSUME disk' = disk, left' = left + 1, left \in Nat,
         \A i \in 1..Len(users') : \E d \in 1..Len(disk) : d < left + 1 /\ ReadFrom(users'[i], d),
         \A e \in 1..Len(disk) :
           e < left + 1 /\ Readable(disk[e]) => \E k \in 1..Len(users') : ReadFrom(users'[k], e)
  PROVE  ReadSoFar'
<1>1. \A k, e : ReadFrom(users[k], e)' <=> ReadFrom(users'[k], e)
  BY DEF ReadFrom, AccountOf, UserOf, Readable
<1>2. \A e \in 1..Len(disk) : Readable(disk[e])' <=> Readable(disk[e])
  BY DEF Readable
<1>3. left' >= 1
  OBVIOUS
<1>4. \A i \in 1..Len(users') : \E d \in 1..Len(disk') : d < left' /\ ReadFrom(users[i], d)'
  BY <1>1
<1>5. \A e \in 1..Len(disk') :
        e < left' /\ Readable(disk[e])' => \E k \in 1..Len(users') : ReadFrom(users[k], e)'
  BY <1>1, <1>2
<1>. QED BY <1>3, <1>4, <1>5 DEF ReadSoFar

\* A line that can be read adds a user who is apart from those of the lines
\* before it; the others are skipped.
LEMMA ReadLineStep ==
  ASSUME IInv, ReadLine
  PROVE  IInv'
<1>1. /\ pc = "reading" /\ pc' = "reading" /\ left <= Len(disk)
      /\ left' = left + 1 /\ disk' = disk /\ UNCHANGED <<job, row, rest, answer, spaced>>
      /\ left \in Nat /\ left >= 1
      /\ users \in Seq(User) /\ Len(users) \in Nat
      /\ disk \in Seq(Seq(Word)) /\ Len(disk) \in Nat
      /\ left \in 1..Len(disk)
  <2>1. /\ pc = "reading" /\ pc' = "reading" /\ left <= Len(disk)
        /\ left' = left + 1 /\ disk' = disk /\ UNCHANGED <<job, row, rest, answer, spaced>>
        /\ left \in Nat /\ left >= 1
    BY Lengths DEF ReadLine, saving, IInv, ReadSoFar
  <2>2. /\ users \in Seq(User) /\ Len(users) \in Nat
        /\ disk \in Seq(Seq(Word)) /\ Len(disk) \in Nat
    BY Lengths DEF IInv
  <2>. QED BY <2>1, <2>2
<1>2. LinesApart'
  BY <1>1, SameLines
<1>3. CASE ~Readable(disk[left])
  <2>1. users' = users
    BY <1>3 DEF ReadLine
  <2>2. TypeOK'
    BY <1>1, <2>1 DEF IInv, TypeOK
  <2>3. AllProper' /\ UsersApart'
    BY <1>1, <2>1 DEF IInv, AllProper, UsersApart, Apart
  <2>4. ReadSoFar'
    <3>1. ASSUME NEW i \in 1..Len(users)
          PROVE  \E d \in 1..Len(disk) : d < left + 1 /\ ReadFrom(users[i], d)
      <4>1. PICK d \in 1..Len(disk) : d < left /\ ReadFrom(users[i], d)
        BY <1>1 DEF IInv, ReadSoFar
      <4>. QED BY <1>1, <4>1
    <3>2. ASSUME NEW e \in 1..Len(disk), e < left + 1, Readable(disk[e])
          PROVE  \E k \in 1..Len(users) : ReadFrom(users[k], e)
      <4>1. e # left
        BY <1>3, <3>2
      <4>2. e < left
        BY <1>1, <3>2, <4>1
      <4>. QED BY <1>1, <3>2, <4>2 DEF IInv, ReadSoFar
    <3>. QED BY <1>1, <2>1, <3>1, <3>2, ReadOn
  <2>. QED BY <1>1, <1>2, <2>2, <2>3, <2>4
       DEF IInv, EmptyWhenDown, WrittenSoFar, RowSoFar, NoStrangers
<1>4. CASE Readable(disk[left])
  <2> DEFINE u == UserOf(disk[left])
  <2>1. u \in User /\ u.jid = disk[left][1] /\ u.name \in Word /\ Lower[u.jid] = u.jid
    BY <1>1, <1>4, LineType DEF IInv, AllProper
  <2>2. users' = Append(users, u) /\ ReadFrom(u, left)
    BY <1>4 DEF ReadLine, ReadFrom
  <2>3. \A i \in 1..Len(users) : Apart(users[i], u) /\ Apart(u, users[i])
    <3>. TAKE i \in 1..Len(users)
    <3>1. PICK d \in 1..Len(disk) : d < left /\ ReadFrom(users[i], d)
      BY <1>1 DEF IInv, ReadSoFar
    <3>2. Apart(UserOf(disk[d]), u) /\ Apart(u, UserOf(disk[d]))
      <4>1. d # left /\ left \in 1..Len(disk) /\ Readable(disk[d])
        BY <1>1, <3>1 DEF ReadFrom
      <4>. QED BY <1>4, <4>1 DEF IInv, LinesApart
    <3>3. users[i].jid = UserOf(disk[d]).jid /\ users[i].name = UserOf(disk[d]).name
      BY <3>1 DEF ReadFrom, AccountOf
    <3>. QED BY <3>2, <3>3 DEF Apart
  <2>. HIDE DEF u
  <2>4. /\ users' \in Seq(User)
        /\ Len(users') = Len(users) + 1
        /\ \A i \in 1..Len(users) : users'[i] = users[i]
        /\ users'[Len(users) + 1] = u
    BY <1>1, <2>1, <2>2, AppendProperties
  <2>5. \A i \in 1..Len(users') : i \in 1..Len(users) \/ i = Len(users) + 1
    BY <1>1, <2>4
  <2>6. TypeOK'
    BY <1>1, <2>4 DEF IInv, TypeOK
  <2>7. AllProper'
    <3>1. \A i \in 1..Len(users') :
            /\ Lower[users'[i].jid] = users'[i].jid
            /\ users'[i].jid \notin spaced => users'[i].name \in Word
      BY <2>1, <2>4, <2>5 DEF IInv, AllProper
    <3>. QED BY <1>1, <3>1 DEF IInv, AllProper
  <2>8. UsersApart'
    <3>1. \A i, k \in 1..Len(users') : i # k => Apart(users'[i], users'[k])
      BY <2>3, <2>4, <2>5 DEF IInv, UsersApart
    <3>. QED BY <1>1, <3>1 DEF UsersApart, Apart
  <2>9. ReadSoFar'
    <3>1. ASSUME NEW i \in 1..Len(users')
          PROVE  \E d \in 1..Len(disk) : d < left + 1 /\ ReadFrom(users'[i], d)
      <4>1. CASE i \in 1..Len(users)
        <5>1. PICK d \in 1..Len(disk) : d < left /\ ReadFrom(users[i], d)
          BY <1>1, <4>1 DEF IInv, ReadSoFar
        <5>. QED BY <1>1, <2>4, <4>1, <5>1
      <4>2. CASE i = Len(users) + 1
        <5>1. left < left + 1 /\ left \in 1..Len(disk)
          BY <1>1
        <5>. QED BY <2>2, <2>4, <4>2, <5>1
      <4>. QED BY <2>5, <4>1, <4>2
    <3>2. ASSUME NEW e \in 1..Len(disk), e < left + 1, Readable(disk[e])
          PROVE  \E k \in 1..Len(users') : ReadFrom(users'[k], e)
      <4>1. CASE e = left
        <5>1. Len(users) + 1 \in 1..Len(users')
          BY <1>1, <2>4
        <5>. QED BY <2>2, <2>4, <4>1, <5>1
      <4>2. CASE e # left
        <5>1. e < left
          BY <1>1, <3>2, <4>2
        <5>2. PICK k \in 1..Len(users) : ReadFrom(users[k], e)
          BY <1>1, <3>2, <5>1 DEF IInv, ReadSoFar
        <5>3. k \in 1..Len(users')
          BY <1>1, <2>4
        <5>. QED BY <2>4, <5>2, <5>3
      <4>. QED BY <4>1, <4>2
    <3>. QED BY <1>1, <3>1, <3>2, ReadOn
  <2>. QED BY <1>1, <1>2, <2>6, <2>7, <2>8, <2>9
       DEF IInv, EmptyWhenDown, WrittenSoFar, RowSoFar, NoStrangers
<1>. QED BY <1>3, <1>4

LEMMA OpenFileStep ==
  ASSUME IInv, OpenFile
  PROVE  IInv'
<1>1. /\ pc' = "lines" /\ disk' = <<>> /\ left' = Len(users)
      /\ UNCHANGED <<users, job, row, rest, answer, spaced>>
      /\ Len(users) \in Nat /\ Len(disk') = 0 /\ <<>> \in Seq(Seq(Word))
  BY Lengths, ShortSeqs DEF OpenFile, IInv, saving
<1>2. TypeOK'
  BY <1>1 DEF IInv, TypeOK
<1>3. UsersApart'
  BY <1>1 DEF IInv, UsersApart, Apart
<1>. QED BY <1>1, <1>2, <1>3 DEF IInv, AllProper, LinesApart,
            EmptyWhenDown, ReadSoFar, WrittenSoFar, RowSoFar, NoStrangers

\* The steps within a line.
LEMMA RowSteps ==
  ASSUME IInv, UNCHANGED <<users, disk, job, left, answer, spaced>>,
         pc \in {"lines", "entries"}, pc' = "entries", left > 0,
         row' \in Seq(Word), rest' \in Nat, FromUser(row', users[left])
  PROVE  IInv'
<1>1. TypeOK'
  BY DEF IInv, TypeOK
<1>2. AllProper' /\ UsersApart' /\ LinesApart'
  BY DEF IInv, AllProper, UsersApart, LinesApart, Apart, UserOf, Readable
<1>3. WrittenSoFar'
  BY DEF IInv, WrittenSoFar, FromUser, OneWord
<1>4. RowSoFar'
  BY DEF RowSoFar, FromUser, OneWord
<1>. QED BY <1>1, <1>2, <1>3, <1>4 DEF IInv, EmptyWhenDown, ReadSoFar, NoStrangers

LEMMA AtUser ==
  ASSUME IInv, pc \in {"lines", "entries"}, left > 0
  PROVE  left \in 1..Len(users) /\ users[left] \in User
<1>1. left \in 1..Len(users)
  BY Lengths DEF IInv, TypeOK
<1>. QED BY <1>1, Lengths DEF IInv

LEMMA BeginLineStep ==
  ASSUME IInv, BeginLine
  PROVE  IInv'
<1>1. users[left] \in User
  BY AtUser DEF BeginLine
<1>2. row' = HeadOf(users[left]) /\ rest' = Len(users[left].roster)
  BY DEF BeginLine, HeadOf
<1>3. rest' \in Nat
  BY <1>1, <1>2, LenProperties DEF User
<1>4. row' \in Seq(Word) /\ FromUser(row', users[left])
  BY <1>1, <1>2, HeadFacts
<1>. QED BY <1>3, <1>4, RowSteps DEF BeginLine

LEMMA WriteEntryStep ==
  ASSUME IInv, WriteEntry
  PROVE  IInv'
<1>1. /\ pc = "entries" /\ left > 0 /\ rest \in Nat /\ rest \in 1..Len(users[left].roster)
      /\ row \in Seq(Word) /\ FromUser(row, users[left])
  BY DEF WriteEntry, IInv, TypeOK, RowSoFar
<1>2. users[left].roster \in Seq(Word)
  BY <1>1, AtUser, RosterOf
<1>3. users[left].roster[rest] \in Word
  BY <1>1, <1>2, ElementOfSeq
<1>4. row' \in Seq(Word) /\ FromUser(row', users[left])
  BY <1>1, <1>3, EntryMore DEF WriteEntry
<1>5. rest' \in Nat
  BY <1>1 DEF WriteEntry
<1>. QED BY <1>1, <1>4, <1>5, RowSteps DEF WriteEntry

\* What EndLine does to the file.
LEMMA LineMore ==
  ASSUME IInv, EndLine
  PROVE  /\ pc = "entries" /\ pc' = "lines" /\ left' = left - 1
         /\ UNCHANGED <<users, job, rest, answer, spaced>>
         /\ left \in 1..Len(users) /\ Len(disk) + left = Len(users)
         /\ Len(users) \in Nat /\ Len(disk) \in Nat
         /\ row \in Seq(Word) /\ FromUser(row, users[left])
         /\ disk' \in Seq(Seq(Word))
         /\ Len(disk') = Len(disk) + 1
         /\ \A d \in 1..Len(disk) : disk'[d] = disk[d]
         /\ disk'[Len(disk) + 1] = row
         /\ \A d \in 1..Len(disk') :
              d \in 1..Len(disk) \/ (d = Len(disk) + 1 /\ Len(users) + 1 - d = left)
<1>1. /\ pc = "entries" /\ pc' = "lines" /\ left' = left - 1
      /\ UNCHANGED <<users, job, rest, answer, spaced>>
      /\ left > 0 /\ Len(disk) + left = Len(users)
      /\ row \in Seq(Word) /\ FromUser(row, users[left])
      /\ disk' = Append(disk, row)
  BY DEF EndLine, IInv, TypeOK, WrittenSoFar, RowSoFar
<1>2. /\ Len(users) \in Nat /\ Len(disk) \in Nat /\ disk \in Seq(Seq(Word))
      /\ left \in 1..Len(users)
  BY <1>1, Lengths, AtUser DEF IInv
<1>3. /\ disk' \in Seq(Seq(Word))
      /\ Len(disk') = Len(disk) + 1
      /\ \A d \in 1..Len(disk) : disk'[d] = disk[d]
      /\ disk'[Len(disk) + 1] = row
  BY <1>1, <1>2, AppendProperties
<1>4. \A d \in 1..Len(disk') :
        d \in 1..Len(disk) \/ (d = Len(disk) + 1 /\ Len(users) + 1 - d = left)
  <2> DEFINE a == Len(disk)
             b == Len(disk')
             n == Len(users)
  <2>1. a \in Nat /\ b = a + 1 /\ a + left = n /\ n \in Nat /\ left \in 1..n
    BY <1>1, <1>2, <1>3
  <2>. HIDE DEF a, b, n
  <2>2. \A d \in 1..b : d \in 1..a \/ (d = a + 1 /\ n + 1 - d = left)
    BY ONLY <2>1
  <2>. QED BY <2>2 DEF a, b, n
<1>. QED BY <1>1, <1>2, <1>3, <1>4

LEMMA EndLineStep ==
  ASSUME IInv, EndLine
  PROVE  IInv'
<1>1. /\ pc = "entries" /\ pc' = "lines" /\ left' = left - 1
      /\ UNCHANGED <<users, job, rest, answer, spaced>>
      /\ left \in 1..Len(users) /\ Len(disk) + left = Len(users)
      /\ Len(users) \in Nat /\ Len(disk) \in Nat
      /\ row \in Seq(Word) /\ FromUser(row, users[left])
      /\ disk' \in Seq(Seq(Word))
      /\ Len(disk') = Len(disk) + 1
      /\ \A d \in 1..Len(disk) : disk'[d] = disk[d]
      /\ disk'[Len(disk) + 1] = row
      /\ \A d \in 1..Len(disk') :
           d \in 1..Len(disk) \/ (d = Len(disk) + 1 /\ Len(users) + 1 - d = left)
  BY LineMore
<1> DEFINE u == users[left]
<1>2. u \in User /\ Lower[u.jid] = u.jid
  BY <1>1, Lengths DEF IInv, AllProper
<1>3. Len(row) >= 1 /\ row[1] = u.jid
  BY <1>1 DEF FromUser
<1>4. TypeOK'
  <2>1. row' = <<>> /\ <<>> \in Seq(Word)
    BY ShortSeqs DEF EndLine
  <2>. QED BY <1>1, <2>1 DEF IInv, TypeOK
<1>5. AllProper'
  <2>1. \A d \in 1..Len(disk') : Len(disk'[d]) >= 1 /\ Lower[disk'[d][1]] = disk'[d][1]
    BY <1>1, <1>2, <1>3 DEF IInv, AllProper
  <2>. QED BY <1>1, <2>1 DEF IInv, AllProper
<1>6. UsersApart'
  BY <1>1 DEF IInv, UsersApart, Apart
<1>7. WrittenSoFar'
  <2>1. \A d \in 1..Len(disk') : FromUser(disk'[d], users[Len(users) + 1 - d])
    BY <1>1 DEF IInv, WrittenSoFar
  <2>2. Len(disk') + left' = Len(users)
    BY <1>1
  <2>. QED BY <1>1, <2>1, <2>2 DEF WrittenSoFar, FromUser, OneWord
<1>8. \A d \in 1..Len(disk) :
        /\ disk[d][1] # row[1]
        /\ Readable(disk[d]) /\ Readable(row) =>
             Apart(UserOf(disk[d]), UserOf(row)) /\ Apart(UserOf(row), UserOf(disk[d]))
  <2>. TAKE d \in 1..Len(disk)
  <2> DEFINE m == Len(users) + 1 - d
  <2>1. FromUser(disk[d], users[m])
    BY <1>1 DEF IInv, WrittenSoFar
  <2>2. m \in 1..Len(users) /\ m # left
    <3>1. /\ Len(disk) \in Nat /\ Len(users) \in Nat /\ left \in 1..Len(users)
          /\ Len(disk) + left = Len(users) /\ d \in 1..Len(disk)
      BY <1>1
    <3>. QED BY ONLY <3>1
  <2>. HIDE DEF m
  <2>3. Apart(users[m], u) /\ Apart(u, users[m])
    BY <1>1, <2>2 DEF IInv, UsersApart
  <2>4. /\ users[m] \in User /\ Lower[users[m].jid] = users[m].jid
        /\ users[m].jid \in spaced \/ users[m].name \in Word
        /\ u.jid \in spaced \/ u.name \in Word
        /\ disk[d] \in Seq(Word)
    BY <1>1, <2>2, Lengths DEF IInv, AllProper
  <2>5. disk[d][1] = users[m].jid
    BY <2>1 DEF FromUser
  <2>6. disk[d][1] # row[1]
    BY <1>3, <2>3, <2>5 DEF Apart
  <2>7. ASSUME Readable(disk[d]), Readable(row)
        PROVE  Apart(UserOf(disk[d]), UserOf(row)) /\ Apart(UserOf(row), UserOf(disk[d]))
    <3>1. /\ UserOf(disk[d]).jid = users[m].jid
          /\ users[m].name \in Word => UserOf(disk[d]).name = users[m].name
      BY <2>1, <2>4, <2>7, ReadAs
    <3>2. /\ UserOf(row).jid = u.jid
          /\ u.name \in Word => UserOf(row).name = u.name
      BY <1>1, <1>2, <2>7, ReadAs
    <3>. QED BY <2>3, <2>4, <3>1, <3>2 DEF Apart
  <2>. QED BY <2>6, <2>7
<1>9. LinesApart'
  <2>1. \A d, e \in 1..Len(disk') :
          d # e =>
            /\ disk'[d][1] # disk'[e][1]
            /\ Readable(disk'[d]) /\ Readable(disk'[e])
                 => Apart(UserOf(disk'[d]), UserOf(disk'[e]))
    <3>. TAKE d, e \in 1..Len(disk')
    <3>. HAVE d # e
    <3>1. CASE d \in 1..Len(disk) /\ e \in 1..Len(disk)
      BY <1>1, <3>1 DEF IInv, LinesApart
    <3>2. CASE d \in 1..Len(disk) /\ e = Len(disk) + 1
      BY <1>1, <1>8, <3>2
    <3>3. CASE d = Len(disk) + 1 /\ e \in 1..Len(disk)
      BY <1>1, <1>8, <3>3
    <3>. QED BY <1>1, <3>1, <3>2, <3>3
  <2>. QED BY <1>1, <2>1 DEF LinesApart, Apart, UserOf, Readable
<1>. QED BY <1>1, <1>4, <1>5, <1>6, <1>7, <1>9
     DEF IInv, EmptyWhenDown, ReadSoFar, RowSoFar, NoStrangers

LEMMA CloseFileStep ==
  ASSUME IInv, CloseFile
  PROVE  IInv'
<1>1. job.jid \in Word \union {"none"} /\ Replies(job.op) \in Seq(Kinds)
  BY JobJid, RepliesType DEF IInv
<1>2. /\ UNCHANGED <<users, disk, left, row, rest, spaced>> /\ left = 0 /\ pc = "lines"
      /\ pc' \in {"quit", "idle"}
      /\ job' \in {job, NoJob}
      /\ \/ answer' = answer
         \/ answer' = [to |-> job.jid, kinds |-> Replies(job.op)]
  BY DEF CloseFile, saving
<1>3. TypeOK'
  BY <1>1, <1>2 DEF IInv, TypeOK
<1>4. WrittenSoFar' /\ AllProper' /\ UsersApart' /\ LinesApart'
  BY <1>2 DEF IInv, WrittenSoFar, FromUser, OneWord, AllProper, UsersApart, LinesApart,
       Apart, UserOf, Readable
<1>5. NoStrangers'
  <2>. SUFFICES ASSUME NEW d \in 1..Len(disk)
                PROVE  \E i \in 1..Len(users) : users[i].jid = disk[d][1]
    BY <1>2 DEF NoStrangers
  <2>1. Len(users) \in Nat /\ Len(disk) \in Nat /\ Len(disk) + left = Len(users)
        /\ FromUser(disk[d], users[Len(users) + 1 - d])
    BY <1>2, Lengths DEF IInv, WrittenSoFar
  <2>2. Len(users) + 1 - d \in 1..Len(users)
    BY <1>2, <2>1
  <2>. QED BY <2>1, <2>2 DEF FromUser
<1>. QED BY <1>2, <1>3, <1>4, <1>5 DEF IInv, EmptyWhenDown, ReadSoFar, RowSoFar

LEMMA StoppedStep ==
  ASSUME IInv, disk' \in {disk, <<>>}, users' = <<>>, pc' = "down", left' = 0,
         row' \in {row, <<>>}, rest' \in {rest, 0}, spaced' = spaced,
         job' \in {job, NoJob}, answer' \in {answer, NoAnswer}
  PROVE  IInv'
<1>1. /\ NoAnswer \in [to : Word \union {"none"}, kinds : Seq(Kinds)]
      /\ <<>> \in Seq(User) /\ <<>> \in Seq(Seq(Word)) /\ <<>> \in Seq(Word)
      /\ Len(<<>>) = 0
  BY ShortSeqs DEF NoAnswer
<1>2. TypeOK'
  <2>1. /\ users' \in Seq(User) /\ disk' \in Seq(Seq(Word)) /\ row' \in Seq(Word)
    BY <1>1 DEF IInv, TypeOK
  <2>3. rest' \in Nat /\ job' \in Job \union {NoJob} /\ spaced' \subseteq Word
    BY DEF IInv, TypeOK
  <2>4. answer' \in [to : Word \union {"none"}, kinds : Seq(Kinds)]
    BY <1>1 DEF IInv, TypeOK
  <2>2. left' \in Nat /\ ~(left' > 0)
    OBVIOUS
  <2>. QED BY <2>1, <2>2, <2>3, <2>4 DEF TypeOK
<1>3. AllProper' /\ LinesApart'
  <2>1. CASE disk' = disk
    BY <1>1, <2>1 DEF IInv, AllProper, LinesApart, Apart, UserOf, Readable
  <2>2. CASE disk' = <<>>
    BY <1>1, <2>2 DEF AllProper, LinesApart
  <2>. QED BY <2>1, <2>2
<1>. QED BY <1>1, <1>2, <1>3 DEF IInv, UsersApart,
            EmptyWhenDown, ReadSoFar, WrittenSoFar, RowSoFar, NoStrangers

\* The remaining steps only move the main thread.
LEMMA PhaseSteps ==
  ASSUME IInv,
         \/ Start \/ OpenForReading \/ EndOfFile \/ OnConnect \/ DeleteUser
         \/ Interrupt \/ InterruptReading
         \/ \E j \in Jids, n \in Names : RegisterConflict(j, n)
  PROVE  IInv'
<1>. USE DEF IInv, TypeOK, saving
<1>1. CASE Start
  BY <1>1, ControlSteps DEF Start, EmptyWhenDown
<1>2. CASE OpenForReading
  <2>1. TypeOK'
    <3>1. Len(disk) \in Nat
      BY LenProperties
    <3>. QED BY <1>2, <3>1 DEF OpenForReading
  <2>. QED BY <1>2, <2>1, ControlSteps DEF OpenForReading, EmptyWhenDown
<1>3. CASE EndOfFile
  BY <1>3, ControlSteps DEF EndOfFile
<1>4. CASE OnConnect
  <2>1. Begin("connect", "none") /\ "connect" \in Ops
    BY <1>4 DEF OnConnect, Ops
  <2>2. TypeOK'
    BY <1>4, <2>1, BeginType DEF OnConnect
  <2>. QED BY <1>4, <2>2, ControlSteps DEF OnConnect
<1>5. CASE DeleteUser
  BY <1>5, ControlSteps DEF DeleteUser
<1>6. CASE Interrupt
  <2>1. Begin("shutdown", job.jid) /\ "shutdown" \in Ops
        /\ job.jid \in Word \union {"none"} /\ <<>> \in Seq(Word)
    BY <1>6, JobJid, ShortSeqs DEF Interrupt, Ops
  <2>2. TypeOK'
    BY <1>6, <2>1, BeginType DEF Interrupt
  <2>. QED BY <1>6, <2>2, ControlSteps DEF Interrupt
<1>7. CASE InterruptReading
  <2>1. Begin("early", "none") /\ "early" \in Ops
    BY <1>7 DEF InterruptReading, Ops
  <2>2. TypeOK'
    BY <1>7, <2>1, BeginType DEF InterruptReading
  <2>. QED BY <1>7, <2>2, ControlSteps DEF InterruptReading
<1>8. CASE \E j \in Jids, n \in Names : RegisterConflict(j, n)
  <2>1. PICK j \in Jids, n \in Names : RegisterConflict(j, n)
    BY <1>8
  <2>2. <<"conflict", "result">> \in Seq(Kinds)
    BY ShortSeqs DEF Kinds
  <2>3. TypeOK'
    BY <2>1, <2>2, LowerInWord DEF RegisterConflict
  <2>. QED BY <2>1, <2>3, ControlSteps DEF RegisterConflict
<1>. QED BY <1>1, <1>2, <1>3, <1>4, <1>5, <1>6, <1>7, <1>8

LEMMA NextIInv ==
  ASSUME IInv, [Next]_vars
  PROVE  IInv'
<1>1. CASE Start \/ OpenForReading \/ EndOfFile \/ OnConnect \/ DeleteUser
           \/ Interrupt \/ InterruptReading
           \/ \E j \in Jids, n \in Names : RegisterConflict(j, n)
  BY <1>1, PhaseSteps
<1>2. CASE ReadLine
  BY <1>2, ReadLineStep
<1>3. CASE \E j \in Jids, n \in Names, p \in Passwords : RegisterNew(j, n, p)
  BY <1>3, RegisterStep
<1>4. CASE \E j \in Jids, p \in Passwords : ChangePassword(j, p)
  BY <1>4, ChangePasswordStep
<1>5. CASE \E j \in Jids : RemoveUser(j)
  BY <1>5, RemoveUserStep
<1>6. CASE OpenFile
  BY <1>6, OpenFileStep
<1>7. CASE BeginLine
  BY <1>7, BeginLineStep
<1>8. CASE WriteEntry
  BY <1>8, WriteEntryStep
<1>9. CASE EndLine
  BY <1>9, EndLineStep
<1>10. CASE CloseFile
  BY <1>10, CloseFileStep
<1>11. CASE \/ \E i \in 1..Len(users), b \in Buddies : RosterAdd(i, b)
            \/ \E i \in 1..Len(users) : \E k \in 1..Len(users[i].roster) : RosterErase(i, k)
  BY <1>11, RosterSteps
<1>12. CASE Quit \/ Crash \/ OutOfRange
  BY <1>12, StoppedStep DEF Quit, Crash, OutOfRange, Stopped
<1>13. CASE InterruptBoot
  <2>1. left = 0
    BY <1>13 DEF InterruptBoot, IInv, TypeOK
  <2>. QED BY <1>13, <2>1, StoppedStep DEF InterruptBoot, IInv, EmptyWhenDown, saving
<1>14. CASE UNCHANGED vars
  <2>1. UNCHANGED <<users, disk, pc, job, left, row, rest, answer, spaced>>
    BY <1>14 DEF vars
  <2>2. TypeOK'
    BY <2>1 DEF IInv, TypeOK
  <2>4. AllProper' /\ UsersApart' /\ LinesApart'
    BY <2>1, SameLines DEF IInv, AllProper, UsersApart, Apart
  <2>3. ReadSoFar'
    BY <2>1 DEF IInv, ReadSoFar, ReadFrom, AccountOf, UserOf, Readable
  <2>5. WrittenSoFar' /\ RowSoFar'
    BY <2>1 DEF IInv, WrittenSoFar, RowSoFar, FromUser, OneWord
  <2>6. NoStrangers' /\ EmptyWhenDown'
    BY <2>1 DEF IInv, EmptyWhenDown, NoStrangers
  <2>. QED BY <2>2, <2>3, <2>4, <2>5, <2>6 DEF IInv
<1>. QED BY <1>1, <1>2, <1>3, <1>4, <1>5, <1>6, <1>7, <1>8, <1>9, <1>10,
            <1>11, <1>12, <1>13, <1>14 DEF Next

\* The registry never leaves its types, and its indices never their ranges,
\* whatever is registered, interrupted or killed when.
THEOREM TypeCorrect == Spec => []TypeOK
<1>1. IInv /\ [Next]_vars => IInv'
  BY NextIInv
<1>2. IInv => TypeOK
  BY DEF IInv
<1>. QED BY <1>1, <1>2, InitIInv, PTL DEF Spec

\* No jid is registered twice, and no XFire name by two users who both typed
\* theirs as one word: not in the vector, and not in what a restart would read
\* from the file at any moment, a half-written file included.
THEOREM AccountsStayUnique == Spec => []AccountsUnique
<1>1. IInv /\ [Next]_vars => IInv'
  BY NextIInv
<1>2. IInv => AccountsUnique
  BY DEF IInv, UsersApart, LinesApart, AccountsUnique, ReadableLines
<1>. QED BY <1>1, <1>2, InitIInv, PTL DEF Spec
-----------------------------------------------------------------------------
(***************************************************************************)
(* What a restart would bring back, against what is registered.  That the  *)
(* file differs from the vector only about the account of the request that *)
(* is being served follows from where the file is being read or written,   *)
(* and from what each kind of request has done to the vector.              *)
(***************************************************************************)

NoneForeign == \A a \in OnDisk : \E b \in InMemory : FiledAs(a, b)
NoneMissing == \A b \in InMemory : OneWord(b) => b \in OnDisk

\* While no handler runs, and when the last save is closed, the file is the
\* vector as far as a file can be.
SavedAtRest == pc \in {"started", "idle", "quit"} => NoneForeign /\ NoneMissing

\* Whose request it is, and what it has done to the vector.
JobUnderWay ==
  /\ pc \in {"down", "boot", "reading", "started", "idle"} => job.op = "none"
  /\ job.op = "register" => \E b \in InMemory : b.jid = job.jid
  /\ job.op = "remove" => \A b \in InMemory : b.jid # job.jid

\* What the last handler told the one it served.
AnsweredAtRest ==
  pc = "idle" =>
    /\ Contains(answer.kinds, "subscribe") => \E b \in InMemory : b.jid = answer.to
    /\ Contains(answer.kinds, "unsubscribed") => \A b \in InMemory : b.jid # answer.to

Durable ==
  /\ SavedAtRest
  /\ OnlyTheJobDiffers
  /\ JobUnderWay
  /\ AnsweredAtRest

(* What the steps do to the two sets of accounts.                            *)
LEMMA NothingChanges ==
  ASSUME UNCHANGED <<users, disk>>
  PROVE  InMemory' = InMemory /\ OnDisk' = OnDisk
BY DEF InMemory, OnDisk, ReadableLines, AccountOf, UserOf, Readable

LEMMA SameDisk ==
  ASSUME disk' = disk
  PROVE  OnDisk' = OnDisk
BY DEF OnDisk, ReadableLines, AccountOf, UserOf, Readable

LEMMA SameMemory ==
  ASSUME users' = users
  PROVE  InMemory' = InMemory
BY DEF InMemory, AccountOf

LEMMA SameRegistered ==
  ASSUME RosterOnly
  PROVE  InMemory' = InMemory
BY DEF RosterOnly, InMemory, AccountOf

LEMMA FilesItself == \A a : FiledAs(a, a)
BY DEF FiledAs

LEMMA RegisterEffect ==
  ASSUME IInv, NEW j \in Jids, NEW n \in Names, NEW p \in Passwords, RegisterNew(j, n, p)
  PROVE  InMemory' = InMemory \union {[jid |-> Lower[j], name |-> n, pass |-> p]}
<1> DEFINE u == [jid |-> Lower[j], name |-> n, pass |-> p, roster |-> <<>>]
<1>1. users' = Append(users, u) /\ AccountOf(u) = [jid |-> Lower[j], name |-> n, pass |-> p]
  BY DEF RegisterNew, AccountOf
<1>2. users \in Seq(User) /\ Len(users) \in Nat
  BY Lengths DEF IInv
<1>3. u \in User
  BY RegistryAssumption, LowerInWord DEF User
<1>. HIDE DEF u
<1>4. /\ Len(users') = Len(users) + 1
      /\ \A i \in 1..Len(users) : users'[i] = users[i]
      /\ users'[Len(users) + 1] = u
  BY <1>1, <1>2, <1>3, AppendProperties
<1>5. 1..Len(users') = 1..Len(users) \union {Len(users) + 1}
  BY <1>2, <1>4
<1>6. InMemory' = {AccountOf(users'[i]) : i \in 1..Len(users')}
  BY DEF InMemory, AccountOf
<1>7. InMemory' = {AccountOf(users[i]) : i \in 1..Len(users)} \union {AccountOf(u)}
  BY <1>4, <1>5, <1>6
<1>. QED BY <1>1, <1>7 DEF InMemory

LEMMA PasswordEffect ==
  ASSUME IInv, NEW j \in Jids, NEW p \in Passwords, ChangePassword(j, p)
  PROVE  \E a \in InMemory :
           /\ a.jid = Lower[j]
           /\ InMemory' = (InMemory \ {a}) \union {[a EXCEPT !.pass = p]}
           /\ [a EXCEPT !.pass = p].jid = Lower[j]
<1> DEFINE i == IndexByJid(j)
           a == AccountOf(users[i])
           b == [a EXCEPT !.pass = p]
<1>1. i \in 1..Len(users) /\ users[i].jid = Lower[j]
  BY IndexFacts DEF ChangePassword
<1>. HIDE DEF i
<1>2. /\ Len(users') = Len(users)
      /\ \A k \in 1..Len(users) : k # i => users'[k] = users[k]
      /\ users'[i] = [users[i] EXCEPT !.pass = p]
  <2> DEFINE u == [users[i] EXCEPT !.pass = p]
  <2>1. users \in Seq(User) /\ users[i] \in User /\ p \in Text
    BY <1>1, Lengths, RegistryAssumption DEF IInv
  <2>2. u \in User
    BY <2>1 DEF User
  <2>3. users' = [users EXCEPT ![i] = u]
    BY DEF ChangePassword, i
  <2>. HIDE DEF u
  <2>4. /\ Len(users') = Len(users)
        /\ \A k \in 1..Len(users) : users'[k] = IF k = i THEN u ELSE users[k]
    BY <1>1, <2>1, <2>2, <2>3, ExceptSeq
  <2>. QED BY <1>1, <2>4 DEF u
<1>3. a \in InMemory /\ a.jid = Lower[j] /\ b.jid = Lower[j]
  BY <1>1 DEF InMemory, AccountOf
<1>4. AccountOf(users'[i]) = b
  <2>1. users[i] \in User
    BY <1>1, Lengths DEF IInv
  <2>2. /\ users'[i].jid = users[i].jid /\ users'[i].name = users[i].name /\ users'[i].pass = p
    BY <1>2, <2>1 DEF User
  <2>. QED BY <2>2 DEF AccountOf
<1>5. \A k \in 1..Len(users) : k # i => AccountOf(users[k]) # a
  BY <1>1 DEF IInv, UsersApart, Apart, AccountOf
<1>. HIDE DEF a, b
<1>6. InMemory' = {AccountOf(users'[k]) : k \in 1..Len(users)}
  BY <1>2 DEF InMemory, AccountOf
<1>7. InMemory' = (InMemory \ {a}) \union {b}
  <2>1. \A x \in InMemory' : x \in (InMemory \ {a}) \union {b}
    <3>. TAKE x \in InMemory'
    <3>1. PICK k \in 1..Len(users) : x = AccountOf(users'[k])
      BY <1>6
    <3>2. CASE k = i
      BY <1>4, <3>1, <3>2
    <3>3. CASE k # i
      BY <1>2, <1>5, <3>1, <3>3 DEF InMemory
    <3>. QED BY <3>2, <3>3
  <2>2. \A x \in InMemory : x # a => x \in InMemory'
    <3>. TAKE x \in InMemory
    <3>. HAVE x # a
    <3>1. PICK k \in 1..Len(users) : x = AccountOf(users[k])
      BY DEF InMemory
    <3>2. k # i
      BY <3>1 DEF a
    <3>. QED BY <1>2, <1>6, <3>1, <3>2
  <2>3. b \in InMemory'
    BY <1>1, <1>4, <1>6
  <2>. QED BY <2>1, <2>2, <2>3
<1>. QED BY <1>3, <1>7 DEF b

LEMMA RemoveEffect ==
  ASSUME IInv, NEW j \in Jids, RemoveUser(j)
  PROVE  \E a \in InMemory :
           /\ a.jid = Lower[j]
           /\ InMemory' = InMemory \ {a}
           /\ \A b \in InMemory' : b.jid # Lower[j]
<1> DEFINE i == IndexByJid(j)
           n == Len(users)
           a == AccountOf(users[i])
<1>1. i \in 1..n /\ users[i].jid = Lower[j] /\ n \in Nat /\ users \in Seq(User)
  BY IndexFacts, Lengths DEF RemoveUser, IInv
<1>. HIDE DEF i
<1>2. /\ Len(users') = n - 1
      /\ \A k \in 1..(n - 1) : users'[k] = IF k < i THEN users[k] ELSE users[k + 1]
  BY <1>1, RemoveAtFacts DEF RemoveUser, i
<1>3. a \in InMemory /\ a.jid = Lower[j]
  BY <1>1 DEF InMemory, AccountOf
<1>4. \A k \in 1..n : k # i => AccountOf(users[k]).jid # Lower[j]
  BY <1>1 DEF IInv, UsersApart, Apart, AccountOf
<1>5. InMemory' = {AccountOf(users'[k]) : k \in 1..(n - 1)}
  BY <1>2 DEF InMemory, AccountOf
<1>6. InMemory = {AccountOf(users[k]) : k \in 1..n}
  BY DEF InMemory
<1>. HIDE DEF a, n
<1>7. \A x \in InMemory' : x \in InMemory /\ x.jid # Lower[j]
  <2>. TAKE x \in InMemory'
  <2>1. PICK k \in 1..(n - 1) : x = AccountOf(users'[k])
    BY <1>5
  <2>2. CASE k < i
    BY <1>1, <1>2, <1>4, <1>6, <2>1, <2>2
  <2>3. CASE ~ (k < i)
    <3>1. k + 1 \in 1..n /\ k + 1 # i
      BY <1>1, <2>3
    <3>. QED BY <1>2, <1>4, <1>6, <2>1, <2>3, <3>1
  <2>. QED BY <2>2, <2>3
<1>8. \A x \in InMemory : x # a => x \in InMemory'
  <2>. TAKE x \in InMemory
  <2>. HAVE x # a
  <2>1. PICK k \in 1..n : x = AccountOf(users[k])
    BY <1>6
  <2>2. k # i
    BY <2>1 DEF a
  <2>3. CASE k < i
    <3>1. k \in 1..(n - 1)
      BY <1>1, <2>3
    <3>. QED BY <1>2, <1>5, <2>1, <2>3, <3>1
  <2>4. CASE ~ (k < i)
    <3>1. k - 1 \in 1..(n - 1) /\ ~ (k - 1 < i) /\ (k - 1) + 1 = k
      BY <1>1, <2>2, <2>4
    <3>. QED BY <1>2, <1>5, <2>1, <3>1
  <2>. QED BY <2>3, <2>4
<1>9. InMemory' = InMemory \ {a}
  BY <1>3, <1>7, <1>8
<1>. QED BY <1>3, <1>7, <1>9

\* What is in the file while it is written is of somebody in the vector; when
\* the last line is written, everybody whose credentials are single words is in.
WrittenAccounts ==
  /\ pc \in {"lines", "entries", "quit"} => NoneForeign
  /\ pc \in {"lines", "quit"} /\ left = 0 => NoneMissing

LEMMA Written == IInv => WrittenAccounts
<1>. SUFFICES ASSUME IInv, pc \in {"lines", "entries", "quit"}
              PROVE  NoneForeign /\ (left = 0 => NoneMissing)
  BY DEF WrittenAccounts
<1>1. /\ Len(disk) \in Nat /\ Len(users) \in Nat /\ left \in Nat /\ Len(disk) + left = Len(users)
      /\ \A d \in 1..Len(disk) : FromUser(disk[d], users[Len(users) + 1 - d])
      /\ \A d \in 1..Len(disk) : disk[d] \in Seq(Word)
      /\ \A i \in 1..Len(users) : users[i] \in User /\ Lower[users[i].jid] = users[i].jid
  BY Lengths DEF IInv, WrittenSoFar, AllProper
<1>2. \A d \in 1..Len(disk) : Len(users) + 1 - d \in 1..Len(users)
  BY <1>1
<1>3. NoneForeign
  <2>. SUFFICES ASSUME NEW d \in 1..Len(disk), Readable(disk[d])
                PROVE  \E b \in InMemory : FiledAs(AccountOf(UserOf(disk[d])), b)
    BY DEF NoneForeign, OnDisk, ReadableLines
  <2> DEFINE u == users[Len(users) + 1 - d]
  <2>1. u \in User /\ FromUser(disk[d], u) /\ Lower[u.jid] = u.jid /\ disk[d] \in Seq(Word)
        /\ AccountOf(u) \in InMemory
    BY <1>1, <1>2 DEF InMemory
  <2>. HIDE DEF u
  <2>2. FiledAs(AccountOf(UserOf(disk[d])), AccountOf(u))
    BY <2>1, ReadAs
  <2>. QED BY <2>1, <2>2
<1>4. ASSUME left = 0
      PROVE  NoneMissing
  <2>. SUFFICES ASSUME NEW i \in 1..Len(users), OneWord(AccountOf(users[i]))
                PROVE  AccountOf(users[i]) \in OnDisk
    BY DEF NoneMissing, InMemory
  <2> DEFINE d == Len(users) + 1 - i
  <2>1. d \in 1..Len(disk) /\ Len(users) + 1 - d = i
    BY <1>1, <1>4
  <2>. HIDE DEF d
  <2>2. OneWord(users[i])
    BY DEF OneWord, AccountOf
  <2>3. Readable(disk[d]) /\ FiledAs(AccountOf(UserOf(disk[d])), AccountOf(users[i]))
    BY <1>1, <2>1, <2>2, ReadAs
  <2>4. AccountOf(UserOf(disk[d])) = AccountOf(users[i])
    BY <2>3 DEF FiledAs
  <2>. QED BY <2>1, <2>3, <2>4 DEF OnDisk, ReadableLines
<1>. QED BY <1>3, <1>4

LEMMA WrittenNext == IInv' => WrittenAccounts'
BY Written, PTL

\* The whole file has been read.
LEMMA EndOfFileStep ==
  ASSUME IInv, EndOfFile
  PROVE  OnDisk = InMemory
<1>1. /\ pc = "reading" /\ left > Len(disk) /\ left \in Nat /\ Len(disk) \in Nat
      /\ \A i \in 1..Len(users) : \E d \in 1..Len(disk) : d < left /\ ReadFrom(users[i], d)
      /\ \A e \in 1..Len(disk) :
           e < left /\ Readable(disk[e]) => \E k \in 1..Len(users) : ReadFrom(users[k], e)
  BY Lengths DEF EndOfFile, IInv, ReadSoFar
<1>2. ASSUME NEW a \in InMemory
      PROVE  a \in OnDisk
  <2>1. PICK i \in 1..Len(users) : a = AccountOf(users[i])
    BY DEF InMemory
  <2>2. PICK d \in 1..Len(disk) : ReadFrom(users[i], d)
    BY <1>1
  <2>. QED BY <2>1, <2>2 DEF ReadFrom, OnDisk, ReadableLines
<1>3. ASSUME NEW a \in OnDisk
      PROVE  a \in InMemory
  <2>1. PICK d \in 1..Len(disk) : Readable(disk[d]) /\ a = AccountOf(UserOf(disk[d]))
    BY DEF OnDisk, ReadableLines
  <2>2. d < left
    BY <1>1
  <2>3. PICK k \in 1..Len(users) : ReadFrom(users[k], d)
    BY <1>1, <2>1, <2>2
  <2>. QED BY <2>1, <2>3 DEF ReadFrom, InMemory
<1>. QED BY <1>2, <1>3

LEMMA Contained ==
  /\ \A e : ~Contains(<<>>, e)
  /\ ~Contains(<<"conflict", "result">>, "subscribe")
  /\ ~Contains(<<"conflict", "result">>, "unsubscribed")
  /\ \A op : Contains(Replies(op), "subscribe") => op = "register"
  /\ \A op : Contains(Replies(op), "unsubscribed") => op = "remove"
<1>1. \A e : ~Contains(<<>>, e)
  BY DEF Contains
<1>2. /\ ~Contains(<<"conflict", "result">>, "subscribe")
      /\ ~Contains(<<"conflict", "result">>, "unsubscribed")
      /\ ~Contains(<<"result">>, "subscribe")
      /\ ~Contains(<<"result">>, "unsubscribed")
      /\ ~Contains(<<"result", "unsubscribe", "unsubscribed">>, "subscribe")
      /\ ~Contains(<<"result", "subscribe">>, "unsubscribed")
  BY DEF Contains
<1>. QED BY <1>1, <1>2 DEF Replies

(* The steps preserve it.                                                    *)
LEMMA InitDurable ==
  ASSUME Init
  PROVE  Durable
BY DEF Init, NoJob, Durable, SavedAtRest, OnlyTheJobDiffers, JobUnderWay, AnsweredAtRest

\* Steps that start, stop or interrupt.
LEMMA MoveSteps ==
  ASSUME IInv, Durable,
         \/ Start \/ OpenForReading \/ EndOfFile \/ OnConnect \/ DeleteUser
         \/ Interrupt \/ InterruptReading
         \/ \E j \in Jids, n \in Names : RegisterConflict(j, n)
  PROVE  Durable'
<1>1. UNCHANGED <<users, disk>> /\ InMemory' = InMemory /\ OnDisk' = OnDisk
  BY NothingChanges DEF Start, OpenForReading, EndOfFile, OnConnect, DeleteUser, Interrupt,
       InterruptReading, RegisterConflict
<1>2. SavedAtRest /\ OnlyTheJobDiffers /\ JobUnderWay /\ AnsweredAtRest
  BY DEF Durable
<1>3. CASE Start \/ OpenForReading \/ DeleteUser
  BY <1>1, <1>2, <1>3 DEF Start, OpenForReading, DeleteUser, Durable, SavedAtRest,
       OnlyTheJobDiffers, JobUnderWay, AnsweredAtRest
<1>4. CASE EndOfFile
  <2>1. OnDisk = InMemory /\ pc = "reading" /\ pc' = "started" /\ job' = job
    BY <1>4, EndOfFileStep DEF EndOfFile
  <2>2. NoneForeign' /\ NoneMissing' /\ OnlyTheJobDiffers'
    BY <1>1, <2>1, FilesItself DEF NoneForeign, NoneMissing, OnlyTheJobDiffers
  <2>. QED BY <1>1, <1>2, <2>1, <2>2 DEF Durable, SavedAtRest, JobUnderWay, AnsweredAtRest
<1>5. CASE OnConnect \/ Interrupt \/ InterruptReading
  <2>1. /\ pc' = "open"
        /\ job'.op \in {"connect", "shutdown", "early"}
        /\ job'.op # "early" => OnlyTheJobDiffers'
    <3>1. CASE OnConnect
      BY <1>1, <1>2, <3>1 DEF OnConnect, Begin, SavedAtRest, NoneForeign, OnlyTheJobDiffers
    <3>2. CASE Interrupt
      <4>1. job' = [op |-> "shutdown", jid |-> job.jid] /\ job.op # "early"
            /\ pc \notin {"down", "boot", "reading"}
        BY <3>2 DEF Interrupt, Begin
      <4>. QED BY <1>1, <1>2, <3>2, <4>1 DEF Interrupt, Begin, OnlyTheJobDiffers
    <3>3. CASE InterruptReading
      BY <3>3 DEF InterruptReading, Begin
    <3>. QED BY <1>5, <3>1, <3>2, <3>3
  <2>2. OnlyTheJobDiffers'
    BY <2>1 DEF OnlyTheJobDiffers
  <2>. QED BY <2>1, <2>2 DEF Durable, SavedAtRest, JobUnderWay, AnsweredAtRest
<1>6. CASE \E j \in Jids, n \in Names : RegisterConflict(j, n)
  <2>1. PICK j \in Jids, n \in Names : RegisterConflict(j, n)
    BY <1>6
  <2>2. /\ answer'.kinds = <<"conflict", "result">> /\ pc = "idle" /\ pc' = "idle" /\ job' = job
    BY <2>1 DEF RegisterConflict
  <2>3. AnsweredAtRest'
    BY <2>2, Contained DEF AnsweredAtRest
  <2>. QED BY <1>1, <1>2, <2>2, <2>3 DEF Durable, SavedAtRest, NoneForeign, NoneMissing,
         OnlyTheJobDiffers, JobUnderWay
<1>. QED BY <1>3, <1>4, <1>5, <1>6

\* A request changes nothing that is registered but the account of its sender.
LEMMA RequestSteps ==
  ASSUME IInv, Durable,
         \/ \E j \in Jids, n \in Names, p \in Passwords : RegisterNew(j, n, p)
         \/ \E j \in Jids, p \in Passwords : ChangePassword(j, p)
         \/ \E j \in Jids : RemoveUser(j)
  PROVE  Durable'
<1>1. pc = "idle" /\ NoneForeign
  BY DEF RegisterNew, ChangePassword, RemoveUser, Durable, SavedAtRest
<1>2. /\ disk' = disk /\ pc' \in {"open", "delete"}
      /\ job'.op \in {"register", "password", "remove"}
  <2>1. ASSUME NEW j \in Jids, NEW n \in Names, NEW p \in Passwords, RegisterNew(j, n, p)
        PROVE  <1>2
    BY <2>1 DEF RegisterNew, Begin
  <2>2. ASSUME NEW j \in Jids, NEW p \in Passwords, ChangePassword(j, p)
        PROVE  <1>2
    BY <2>2 DEF ChangePassword, Begin
  <2>3. ASSUME NEW j \in Jids, RemoveUser(j)
        PROVE  <1>2
    BY <2>3 DEF RemoveUser, Begin
  <2>. QED BY <2>1, <2>2, <2>3
<1>3. /\ \A b \in InMemory : b.jid = job'.jid \/ b \in InMemory'
      /\ job'.op = "register" => \E b \in InMemory' : b.jid = job'.jid
      /\ job'.op = "remove" => \A b \in InMemory' : b.jid # job'.jid
  <2>1. ASSUME NEW j \in Jids, NEW n \in Names, NEW p \in Passwords, RegisterNew(j, n, p)
        PROVE  <1>3
    <3> DEFINE a == [jid |-> Lower[j], name |-> n, pass |-> p]
    <3>1. InMemory' = InMemory \union {a}
      BY <2>1, RegisterEffect
    <3>2. job'.op = "register" /\ job'.jid = Lower[j]
      BY <2>1 DEF RegisterNew, Begin
    <3>3. a.jid = Lower[j]
      OBVIOUS
    <3>. HIDE DEF a
    <3>. QED BY <3>1, <3>2, <3>3
  <2>2. ASSUME NEW j \in Jids, NEW p \in Passwords, ChangePassword(j, p)
        PROVE  <1>3
    <3>1. PICK a \in InMemory : /\ a.jid = Lower[j]
                                /\ InMemory' = (InMemory \ {a}) \union {[a EXCEPT !.pass = p]}
      BY <2>2, PasswordEffect
    <3>2. job' = [op |-> "password", jid |-> Lower[j]]
      BY <2>2 DEF ChangePassword, Begin
    <3>. QED BY <3>1, <3>2
  <2>3. ASSUME NEW j \in Jids, RemoveUser(j)
        PROVE  <1>3
    <3>1. PICK a \in InMemory : /\ a.jid = Lower[j] /\ InMemory' = InMemory \ {a}
                                /\ \A b \in InMemory' : b.jid # Lower[j]
      BY <2>3, RemoveEffect
    <3>2. job' = [op |-> "remove", jid |-> Lower[j]]
      BY <2>3 DEF RemoveUser, Begin
    <3>. QED BY <3>1, <3>2
  <2>. QED BY <2>1, <2>2, <2>3
<1>4. OnlyTheJobDiffers'
  <2>1. OnDisk' = OnDisk
    BY <1>2, SameDisk
  <2>2. \A a \in OnDisk : a.jid = job'.jid \/ \E b \in InMemory' : FiledAs(a, b)
    <3>. TAKE a \in OnDisk
    <3>1. PICK b \in InMemory : FiledAs(a, b)
      BY <1>1 DEF NoneForeign
    <3>2. a.jid = b.jid
      BY <3>1 DEF FiledAs
    <3>. QED BY <1>3, <3>1, <3>2
  <2>. QED BY <2>1, <2>2 DEF OnlyTheJobDiffers
<1>5. JobUnderWay'
  BY <1>2, <1>3 DEF JobUnderWay
<1>. QED BY <1>2, <1>4, <1>5 DEF Durable, SavedAtRest, AnsweredAtRest

\* The save: what is in the file is then what the lines were written for.
LEMMA SaveSteps ==
  ASSUME Durable, WrittenAccounts',
         \/ OpenFile \/ BeginLine \/ WriteEntry \/ EndLine
  PROVE  Durable'
<1>1. /\ users' = users /\ UNCHANGED <<job, answer>> /\ pc' \in {"lines", "entries"}
      /\ pc \in {"open", "lines", "entries"}
  BY DEF OpenFile, BeginLine, WriteEntry, EndLine
<1>2. InMemory' = InMemory
  BY <1>1, SameMemory
<1>3. NoneForeign'
  BY <1>1 DEF WrittenAccounts
<1>4. OnlyTheJobDiffers'
  BY <1>3 DEF OnlyTheJobDiffers, NoneForeign
<1>5. JobUnderWay'
  BY <1>1, <1>2 DEF Durable, JobUnderWay
<1>. QED BY <1>1, <1>4, <1>5 DEF Durable, SavedAtRest, AnsweredAtRest

\* The file is closed, and a handler's request answered.
LEMMA ClosedStep ==
  ASSUME IInv, Durable, CloseFile
  PROVE  Durable'
<1>1. /\ pc = "lines" /\ left = 0 /\ UNCHANGED <<users, disk>>
      /\ OnDisk' = OnDisk /\ InMemory' = InMemory
  BY NothingChanges DEF CloseFile
<1>2. NoneForeign' /\ NoneMissing'
  BY <1>1, Written DEF WrittenAccounts, NoneForeign, NoneMissing
<1>3. OnlyTheJobDiffers'
  BY <1>2 DEF NoneForeign, OnlyTheJobDiffers
<1>4. CASE job.op \in {"shutdown", "early"}
  <2>1. pc' = "quit" /\ UNCHANGED <<job, answer>>
    BY <1>4 DEF CloseFile
  <2>. QED BY <1>1, <1>2, <1>3, <2>1 DEF Durable, SavedAtRest, JobUnderWay, AnsweredAtRest
<1>5. CASE job.op \notin {"shutdown", "early"}
  <2>1. pc' = "idle" /\ job' = NoJob /\ answer' = [to |-> job.jid, kinds |-> Replies(job.op)]
    BY <1>5 DEF CloseFile
  <2>2. job'.op = "none" /\ answer'.to = job.jid /\ answer'.kinds = Replies(job.op)
    BY <2>1 DEF NoJob
  <2>3. AnsweredAtRest'
    BY <1>1, <2>1, <2>2, Contained DEF Durable, JobUnderWay, AnsweredAtRest
  <2>. QED BY <1>1, <1>2, <1>3, <2>1, <2>2, <2>3 DEF Durable, SavedAtRest, JobUnderWay
<1>. QED BY <1>4, <1>5

LEMMA QuietSteps ==
  ASSUME IInv, Durable,
         \/ \E i \in 1..Len(users), b \in Buddies : RosterAdd(i, b)
         \/ \E i \in 1..Len(users) : \E k \in 1..Len(users[i].roster) : RosterErase(i, k)
  PROVE  Durable'
<1>1. /\ disk' = disk /\ pc' = pc /\ job' = job /\ answer' \in {answer, NoAnswer}
      /\ InMemory' = InMemory /\ OnDisk' = OnDisk
  BY RosterEffect, SameRegistered, SameDisk
<1>2. AnsweredAtRest'
  <2>1. CASE answer' = answer
    BY <1>1, <2>1 DEF Durable, AnsweredAtRest
  <2>2. CASE answer' = NoAnswer
    <3>1. answer'.kinds = <<>>
      BY <2>2 DEF NoAnswer
    <3>. QED BY <3>1, Contained DEF AnsweredAtRest
  <2>. QED BY <1>1, <2>1, <2>2
<1>. QED BY <1>1, <1>2 DEF Durable, SavedAtRest, NoneForeign, NoneMissing, OnlyTheJobDiffers,
       JobUnderWay

\* Reading, and the end of the process.
LEMMA OutsideSteps ==
  ASSUME IInv, Durable, ReadLine \/ InterruptBoot \/ Quit \/ Crash \/ OutOfRange
  PROVE  Durable'
<1>1. pc' \in {"down", "reading"} /\ job'.op = "none"
  <2>1. CASE ReadLine \/ InterruptBoot
    BY <2>1 DEF ReadLine, InterruptBoot, Durable, JobUnderWay
  <2>2. CASE Quit \/ Crash \/ OutOfRange
    BY <2>2 DEF Quit, Crash, OutOfRange, Stopped, NoJob
  <2>. QED BY <2>1, <2>2
<1>. QED BY <1>1 DEF Durable, SavedAtRest, OnlyTheJobDiffers, JobUnderWay, AnsweredAtRest

LEMMA NextDurable ==
  ASSUME IInv, Durable, WrittenAccounts', [Next]_vars
  PROVE  Durable'
<1>1. CASE UNCHANGED vars
  <2>1. InMemory' = InMemory /\ OnDisk' = OnDisk /\ UNCHANGED <<users, disk, pc, job, answer>>
    BY <1>1, NothingChanges DEF vars
  <2>. QED BY <2>1 DEF Durable, SavedAtRest, NoneForeign, NoneMissing, OnlyTheJobDiffers,
         JobUnderWay, AnsweredAtRest
<1>2. CASE Next
  BY <1>2, MoveSteps, RequestSteps, SaveSteps, ClosedStep, QuietSteps, OutsideSteps DEF Next
<1>. QED BY <1>1, <1>2

LEMMA DurableHolds == Spec => [](IInv /\ Durable)
<1>1. Init => IInv /\ Durable
  BY InitIInv, InitDurable
<1>2. IInv /\ Durable /\ [Next]_vars => (IInv /\ Durable)'
  BY NextIInv, WrittenNext, NextDurable
<1>. QED BY <1>1, <1>2, PTL DEF Spec

\* While the gateway runs, a restart would bring back nothing of anybody who is
\* not registered and, of those with one-word credentials, nothing old, but for
\* the account whose request is being served.
THEOREM OnlyTheRequestDiffers == Spec => []OnlyTheJobDiffers
<1>1. Durable => OnlyTheJobDiffers
  BY DEF Durable
<1>. QED BY <1>1, DurableHolds, PTL

\* From an answer to the next request a crash loses nobody whose credentials
\* are single words, and brings back nobody who was removed.
THEOREM AnswersAreDurable == Spec => []AnsweredIsDurable
<1>1. Durable => AnsweredIsDurable
  BY DEF Durable, SavedAtRest, NoneForeign, NoneMissing, AnsweredAtRest, AnsweredIsDurable
<1>. QED BY <1>1, DurableHolds, PTL
-----------------------------------------------------------------------------
(***************************************************************************)
(* The vector and the file implement Registrations.  Most steps are steps  *)
(* of the bookkeeping, which change neither set of accounts; the others    *)
(* are the steps of Registrations that the effects above make them.        *)
(***************************************************************************)

Accounts == IF pc \in {"down", "boot", "reading"} THEN OnDisk ELSE InMemory
Busy == pc \in {"delete", "open", "lines", "entries", "quit"}
AbsStep == [Abs!AbsNext]_(Abs!vars)

LEMMA InitRefines ==
  ASSUME Init
  PROVE  Abs!AbsInit
<1>1. OnDisk = {} /\ pc = "down"
  BY DEF Init, OnDisk, ReadableLines
<1>. QED BY <1>1 DEF Abs!AbsInit

LEMMA Stutters ==
  ASSUME Accounts' = Accounts, OnDisk' = OnDisk, Busy' <=> Busy
  PROVE  AbsStep
BY DEF Accounts, Busy, AbsStep, Abs!vars

LEMMA Resaves ==
  ASSUME Accounts' = Accounts, OnDisk' = OnDisk, ~Busy, Busy'
  PROVE  AbsStep
BY DEF Accounts, Busy, AbsStep, Abs!vars, Abs!AbsNext, Abs!Resave

LEMMA SavesPart ==
  ASSUME Accounts' = Accounts, Busy, Busy', \A a \in OnDisk' : \E b \in Accounts : FiledAs(a, b)
  PROVE  AbsStep
BY DEF Accounts, Busy, AbsStep, Abs!vars, Abs!AbsNext, Abs!SavePart, Abs!FiledAs, FiledAs

LEMMA Answers ==
  ASSUME Accounts' = Accounts, OnDisk' = OnDisk, Busy, ~Busy', Accounts = InMemory,
         NoneForeign, NoneMissing
  PROVE  AbsStep
BY DEF Accounts, Busy, AbsStep, Abs!vars, Abs!AbsNext, Abs!Answer, Abs!FiledAs, FiledAs,
     NoneForeign, NoneMissing

LEMMA Restarts ==
  ASSUME Accounts' = OnDisk, OnDisk' = OnDisk, ~Busy'
  PROVE  AbsStep
BY DEF Accounts, Busy, AbsStep, Abs!vars, Abs!AbsNext, Abs!Restart

LEMMA Forgets ==
  ASSUME Accounts' \subseteq Accounts, OnDisk' = OnDisk, ~Busy, Busy'
  PROVE  AbsStep
BY DEF Accounts, Busy, AbsStep, Abs!vars, Abs!AbsNext, Abs!Forget

LEMMA Wipes ==
  ASSUME Accounts' = {}, OnDisk' = {}, ~Busy, ~Busy'
  PROVE  AbsStep
BY DEF Accounts, Busy, AbsStep, Abs!vars, Abs!AbsNext, Abs!Wipe

\* Starting, stopping, walking the file and changing a roster.
LEMMA BookkeepingRefines ==
  ASSUME IInv, Durable,
         \/ Start \/ OpenForReading \/ ReadLine \/ EndOfFile \/ DeleteUser
         \/ \E j \in Jids, n \in Names : RegisterConflict(j, n)
         \/ \E i \in 1..Len(users), b \in Buddies : RosterAdd(i, b)
         \/ \E i \in 1..Len(users) : \E k \in 1..Len(users[i].roster) : RosterErase(i, k)
  PROVE  AbsStep
<1>1. OnDisk' = OnDisk
  <2>1. disk' = disk
    BY DEF Start, OpenForReading, ReadLine, EndOfFile, DeleteUser, RegisterConflict,
           RosterAdd, RosterErase
  <2>. QED BY <2>1, SameDisk
<1>2. CASE Start \/ OpenForReading \/ ReadLine
  <2>1. pc \in {"down", "boot", "reading"} /\ pc' \in {"down", "boot", "reading"}
    BY <1>2 DEF Start, OpenForReading, ReadLine
  <2>. QED BY <1>1, <2>1, Stutters DEF Accounts, Busy
<1>3. CASE EndOfFile
  <2>1. pc = "reading" /\ pc' = "started" /\ UNCHANGED <<users, disk>>
    BY <1>3 DEF EndOfFile
  <2>2. OnDisk = InMemory /\ InMemory' = InMemory
    BY <1>3, <2>1, EndOfFileStep, NothingChanges
  <2>. QED BY <1>1, <2>1, <2>2, Stutters DEF Accounts, Busy
<1>4. CASE DeleteUser \/ \E j \in Jids, n \in Names : RegisterConflict(j, n)
  <2>1. /\ UNCHANGED <<users, disk>>
        /\ (pc = "delete" /\ pc' = "open") \/ (pc = "idle" /\ pc' = "idle")
    BY <1>4 DEF DeleteUser, RegisterConflict
  <2>2. InMemory' = InMemory
    BY <2>1, NothingChanges
  <2>. QED BY <1>1, <2>1, <2>2, Stutters DEF Accounts, Busy
<1>5. CASE \/ \E i \in 1..Len(users), b \in Buddies : RosterAdd(i, b)
           \/ \E i \in 1..Len(users) : \E k \in 1..Len(users[i].roster) : RosterErase(i, k)
  <2>1. pc' = pc /\ InMemory' = InMemory
    BY <1>5, RosterEffect, SameRegistered
  <2>. QED BY <1>1, <2>1, Stutters DEF Accounts, Busy
<1>. QED BY <1>2, <1>3, <1>4, <1>5

\* A request is one step of Registrations, whatever follows it.
LEMMA RequestRefines ==
  ASSUME IInv, Durable,
         \/ \E j \in Jids, n \in Names, p \in Passwords : RegisterNew(j, n, p)
         \/ \E j \in Jids, p \in Passwords : ChangePassword(j, p)
         \/ \E j \in Jids : RemoveUser(j)
  PROVE  AbsStep
<1>1. disk' = disk /\ pc = "idle" /\ pc' \in {"open", "delete"}
  BY DEF RegisterNew, ChangePassword, RemoveUser
<1>2. OnDisk' = OnDisk
  BY <1>1, SameDisk
<1>3. ASSUME NEW j \in Jids, NEW n \in Names, NEW p \in Passwords, RegisterNew(j, n, p)
      PROVE  AbsStep
  <2> DEFINE a == [jid |-> Lower[j], name |-> n, pass |-> p]
  <2>1. a \in Abs!Account /\ a.jid = Lower[j] /\ a.name = n
    BY DEF Abs!Account
  <2>2. InMemory' = InMemory \union {a}
    BY <1>3, RegisterEffect
  <2>3. \A b \in InMemory : ~Abs!Conflict(a, b)
    <3>. SUFFICES ASSUME NEW i \in 1..Len(users)
                  PROVE  ~Abs!Conflict(a, AccountOf(users[i]))
      BY DEF InMemory
    <3>1. users[i].jid # Lower[j] /\ Lower[users[i].name] # Lower[n]
      BY <1>3 DEF RegisterNew, HasJid, NameTaken
    <3>2. AccountOf(users[i]).jid = users[i].jid /\ AccountOf(users[i]).name = users[i].name
      BY DEF AccountOf
    <3>. HIDE DEF a
    <3>. QED BY <2>1, <3>1, <3>2 DEF Abs!Conflict
  <2>. HIDE DEF a
  <2>4. Abs!Register(a)
    BY <1>1, <1>2, <2>2, <2>3 DEF Abs!Register
  <2>. QED BY <2>1, <2>4 DEF AbsStep, Abs!AbsNext
<1>4. ASSUME NEW j \in Jids, NEW p \in Passwords, ChangePassword(j, p)
      PROVE  AbsStep
  <2>1. PICK a \in InMemory : InMemory' = (InMemory \ {a}) \union {[a EXCEPT !.pass = p]}
    BY <1>4, PasswordEffect
  <2>2. Abs!ChangePassword(a, p)
    BY <1>1, <1>2, <2>1 DEF Abs!ChangePassword
  <2>. QED BY <1>1, <2>2 DEF AbsStep, Abs!AbsNext
<1>5. ASSUME NEW j \in Jids, RemoveUser(j)
      PROVE  AbsStep
  <2>1. PICK a \in InMemory : InMemory' = InMemory \ {a}
    BY <1>5, RemoveEffect
  <2>2. Abs!Unregister(a)
    BY <1>1, <1>2, <2>1 DEF Abs!Unregister
  <2>. QED BY <1>1, <2>2 DEF AbsStep, Abs!AbsNext
<1>. QED BY <1>3, <1>4, <1>5

\* The save, and the reply it is for.
LEMMA SaveRefines ==
  ASSUME IInv, WrittenAccounts',
         OnConnect \/ OpenFile \/ BeginLine \/ WriteEntry \/ EndLine \/ CloseFile
  PROVE  AbsStep
<1>1. InMemory' = InMemory
  <2>1. users' = users
    BY DEF OnConnect, OpenFile, BeginLine, WriteEntry, EndLine, CloseFile
  <2>. QED BY <2>1, SameMemory
<1>2. CASE OnConnect
  <2>1. pc = "started" /\ pc' = "open" /\ disk' = disk
    BY <1>2 DEF OnConnect
  <2>. QED BY <1>1, <2>1, SameDisk, Resaves DEF Accounts, Busy
<1>3. CASE OpenFile \/ BeginLine \/ WriteEntry \/ EndLine
  <2>1. pc \in {"open", "lines", "entries"} /\ pc' \in {"lines", "entries"}
    BY <1>3 DEF OpenFile, BeginLine, WriteEntry, EndLine
  <2>2. \A a \in OnDisk' : \E b \in InMemory : FiledAs(a, b)
    BY <1>1, <2>1 DEF WrittenAccounts, NoneForeign
  <2>. QED BY <1>1, <2>1, <2>2, SavesPart DEF Accounts, Busy
<1>4. CASE CloseFile
  <2>1. /\ pc = "lines" /\ left = 0 /\ disk' = disk /\ pc' \in {"quit", "idle"}
    BY <1>4 DEF CloseFile
  <2>2. OnDisk' = OnDisk /\ NoneForeign /\ NoneMissing
    BY <2>1, Written, SameDisk DEF WrittenAccounts
  <2>3. CASE pc' = "quit"
    BY <1>1, <2>1, <2>2, <2>3, Stutters DEF Accounts, Busy
  <2>4. CASE pc' = "idle"
    BY <1>1, <2>1, <2>2, <2>4, Answers DEF Accounts, Busy
  <2>. QED BY <2>1, <2>3, <2>4
<1>. QED BY <1>2, <1>3, <1>4

\* An interrupt, and the end of the process.
LEMMA EndRefines ==
  ASSUME IInv, Interrupt \/ InterruptReading \/ InterruptBoot \/ Quit \/ Crash \/ OutOfRange
  PROVE  AbsStep
<1>1. CASE Interrupt
  <2>1. /\ UNCHANGED <<users, disk>> /\ pc' = "open"
        /\ pc \in {"started", "idle", "delete", "open", "lines", "entries"}
    BY <1>1 DEF Interrupt
  <2>2. InMemory' = InMemory /\ OnDisk' = OnDisk
    BY <2>1, NothingChanges
  <2>3. CASE pc \in {"started", "idle"}
    BY <2>1, <2>2, <2>3, Resaves DEF Accounts, Busy
  <2>4. CASE pc \in {"delete", "open", "lines", "entries"}
    BY <2>1, <2>2, <2>4, Stutters DEF Accounts, Busy
  <2>. QED BY <2>1, <2>3, <2>4
<1>2. CASE InterruptReading
  <2>1. UNCHANGED <<users, disk>> /\ pc = "reading" /\ pc' = "open"
    BY <1>2 DEF InterruptReading
  <2>2. InMemory' = InMemory /\ OnDisk' = OnDisk
    BY <2>1, NothingChanges
  <2>3. InMemory \subseteq OnDisk
    <3>. SUFFICES ASSUME NEW i \in 1..Len(users)
                  PROVE  AccountOf(users[i]) \in OnDisk
      BY DEF InMemory
    <3>1. PICK d \in 1..Len(disk) : ReadFrom(users[i], d)
      BY <2>1 DEF IInv, ReadSoFar
    <3>. QED BY <3>1 DEF ReadFrom, OnDisk, ReadableLines
  <2>. QED BY <2>1, <2>2, <2>3, Forgets DEF Accounts, Busy
<1>3. CASE InterruptBoot
  <2>1. pc = "boot" /\ pc' = "down" /\ disk' = <<>>
    BY <1>3 DEF InterruptBoot
  <2>2. OnDisk' = {}
    BY <2>1 DEF OnDisk, ReadableLines
  <2>. QED BY <2>1, <2>2, Wipes DEF Accounts, Busy
<1>4. CASE Quit \/ Crash \/ OutOfRange
  <2>1. pc' = "down" /\ disk' = disk
    BY <1>4 DEF Quit, Crash, OutOfRange, Stopped
  <2>. QED BY <2>1, SameDisk, Restarts DEF Accounts, Busy
<1>. QED BY <1>1, <1>2, <1>3, <1>4

LEMMA NextRefines ==
  ASSUME IInv, Durable, WrittenAccounts', [Next]_vars
  PROVE  AbsStep
<1>1. CASE UNCHANGED vars
  <2>1. InMemory' = InMemory /\ OnDisk' = OnDisk /\ pc' = pc
    BY <1>1, NothingChanges DEF vars
  <2>. QED BY <2>1, Stutters DEF Accounts, Busy
<1>2. CASE Next
  BY <1>2, BookkeepingRefines, RequestRefines, SaveRefines, EndRefines DEF Next
<1>. QED BY <1>1, <1>2

\* Every request takes effect once and is answered only when what the file can
\* tell of it is durable; a crash loses accounts only to the save it interrupts,
\* and an interrupt only during start-up: what Registrations says is what the
\* vector and the file do, whatever texts the clients type.
THEOREM RegistryImplements == Spec => ImplementsRegistrations
<1>1. Init => Abs!AbsInit
  BY InitRefines
<1>2. IInv /\ Durable /\ WrittenAccounts' /\ [Next]_vars => [Abs!AbsNext]_(Abs!vars)
  BY NextRefines DEF AbsStep
<1>3. [](IInv /\ Durable) => []IInv
  BY PTL
<1>. QED BY <1>1, <1>2, DurableHolds, Written, PTL DEF Spec, ImplementsRegistrations, Abs!AbsSpec
-----------------------------------------------------------------------------
(***************************************************************************)
(* Rosters.  The entries still to write stand before an index, those that  *)
(* were written after it; and of the latter, whatever is erased meanwhile, *)
(* those left are on the line, the last one first.                         *)
(***************************************************************************)

\* The entries of r from j + 1 on are among the words of args from the fourth on,
\* in the opposite order.
Backwards(r, j, args, f) ==
  /\ f \in [(j + 1)..Len(r) -> 4..Len(args)]
  /\ \A m \in (j + 1)..Len(r) : args[f[m]] = r[m]
  /\ \A m, n \in (j + 1)..Len(r) : m < n => f[n] < f[m]

Kept(r, j, args) == \E f : Backwards(r, j, args, f)

SavedRoster(u, j, args) ==
  Len(Credentials(u)) >= 2 => Len(args) >= 3 /\ Kept(u.roster, j, args)

Rosters ==
  /\ pc \in {"lines", "entries", "quit"} =>
       \A d \in 1..Len(disk) : SavedRoster(users[Len(users) + 1 - d], 0, disk[d])
  /\ pc = "entries" => SavedRoster(users[left], rest, row)

LEMMA NothingKept ==
  ASSUME NEW r \in Seq(Word), NEW args
  PROVE  Kept(r, Len(r), args)
<1> DEFINE D == (Len(r) + 1)..Len(r)
           f == [m \in D |-> m]
<1>1. D = {}
  <2>1. Len(r) \in Nat
    BY LenProperties
  <2>. QED BY <2>1
<1>2. f \in [D -> 4..Len(args)]
  BY <1>1
<1>. HIDE DEF f
<1>3. Backwards(r, Len(r), args, f)
  BY <1>1, <1>2 DEF Backwards
<1>. QED BY <1>3 DEF Kept

LEMMA EntryKept ==
  ASSUME NEW r \in Seq(Word), NEW j \in 1..Len(r), NEW args \in Seq(Word), Len(args) >= 3,
         Kept(r, j, args)
  PROVE  Kept(r, j - 1, Append(args, r[j]))
<1> DEFINE t == Append(args, r[j])
           n == Len(args)
           l == Len(r)
<1>1. l \in Nat /\ n \in Nat /\ n >= 3 /\ j \in 1..l
  BY LenProperties
<1>2. r[j] \in Word
  BY ElementOfSeq
<1>3. /\ Len(t) = n + 1
      /\ \A k \in 1..n : t[k] = args[k]
      /\ t[n + 1] = r[j]
  BY <1>2, AppendProperties
<1>4. PICK f : Backwards(r, j, args, f)
  BY DEF Kept
<1>5. /\ f \in [(j + 1)..l -> 4..n]
      /\ \A m \in (j + 1)..l : args[f[m]] = r[m]
      /\ \A x, y \in (j + 1)..l : x < y => f[y] < f[x]
  BY <1>4 DEF Backwards
<1>. HIDE DEF t, n, l
<1> DEFINE D == ((j - 1) + 1)..l
           g == [m \in D |-> IF m = j THEN n + 1 ELSE f[m]]
<1>6. \A m \in D : m = j \/ m \in (j + 1)..l
  BY ONLY <1>1
<1>7. \A m \in (j + 1)..l : f[m] \in 4..n /\ f[m] \in 1..n /\ f[m] \in 4..(n + 1) /\ f[m] < n + 1
  <2>. TAKE m \in (j + 1)..l
  <2>1. f[m] \in 4..n
    BY <1>5
  <2>. QED BY ONLY <1>1, <2>1
<1>8. n + 1 \in 4..(n + 1)
  BY ONLY <1>1
<1>9. \A m \in D : g[m] = IF m = j THEN n + 1 ELSE f[m]
  OBVIOUS
<1>10. g \in [D -> 4..(n + 1)]
  BY <1>6, <1>7, <1>8
<1>. HIDE DEF g
<1>11. \A m \in D : t[g[m]] = r[m]
  BY <1>3, <1>5, <1>6, <1>7, <1>9
<1>12. \A x, y \in D : x < y => g[y] < g[x]
  <2>. TAKE x, y \in D
  <2>. HAVE x < y
  <2>1. y \in (j + 1)..l /\ y # j
    BY ONLY <1>1, x \in D, y \in D, x < y
  <2>2. CASE x = j
    BY <1>7, <1>9, <2>1, <2>2
  <2>3. CASE x # j
    BY <1>5, <1>6, <1>9, <2>1, <2>3
  <2>. QED BY <2>2, <2>3
<1>. HIDE DEF D
<1>13. Backwards(r, j - 1, t, g)
  BY <1>3, <1>10, <1>11, <1>12 DEF Backwards, D, l
<1>. QED BY <1>13 DEF Kept, t

LEMMA RemoveKept ==
  ASSUME NEW r \in Seq(Word), NEW k \in 1..Len(r), NEW j \in Nat, NEW args, Kept(r, j, args)
  PROVE  Kept(RemoveAt(r, k), j, args)
<1> DEFINE s == RemoveAt(r, k)
           g(x) == IF x < k THEN x ELSE x + 1
           l == Len(r)
           D == (j + 1)..l
           E == (j + 1)..Len(s)
<1>1. /\ l \in Nat
      /\ Len(s) = l - 1
      /\ \A m \in 1..(l - 1) : s[m] = r[g(m)]
  BY RemoveAtFacts, LenProperties
<1>2. PICK f : Backwards(r, j, args, f)
  BY DEF Kept
<1>3. /\ f \in [D -> 4..Len(args)]
      /\ \A m \in D : args[f[m]] = r[m]
      /\ \A x, y \in D : x < y => f[y] < f[x]
  BY <1>2 DEF Backwards
<1>. HIDE DEF s, l
<1>4. /\ \A m \in E : g(m) \in D /\ s[m] = r[g(m)]
      /\ \A x, y \in E : x < y => g(x) < g(y)
  <2>1. \A m \in E : m \in 1..(l - 1) /\ g(m) \in D
    BY <1>1
  <2>2. \A x, y \in E : x < y => g(x) < g(y)
    BY <1>1
  <2>. QED BY <1>1, <2>1, <2>2
<1>. HIDE DEF g, D
<1> DEFINE h == [m \in E |-> f[g(m)]]
<1>5. h \in [E -> 4..Len(args)]
  BY <1>3, <1>4
<1>6. \A m \in E : h[m] = f[g(m)]
  OBVIOUS
<1>. HIDE DEF h
<1>7. /\ \A m \in E : args[h[m]] = s[m]
      /\ \A x, y \in E : x < y => h[y] < h[x]
  BY <1>3, <1>4, <1>6
<1>8. Backwards(s, j, args, h)
  BY <1>5, <1>7 DEF Backwards
<1>. QED BY <1>8 DEF Kept, s

\* What stands backwards on the line stands forwards in the roster read from it.
LEMMA KeptIsRead ==
  ASSUME NEW r \in Seq(Word), NEW args \in Seq(Word), Len(args) >= 3, Kept(r, 0, args)
  PROVE  Subsequence(r, Reverse(SubSeq(args, 4, Len(args))))
<1> DEFINE n == Len(args)
           l == Len(r)
           b == SubSeq(args, 4, n)
           t == Reverse(b)
<1>1. n \in Nat /\ l \in Nat /\ n >= 3
  BY LenProperties
<1>2. /\ b \in Seq(Word) /\ Len(b) = n - 3
      /\ \A i \in 1..(n - 3) : b[i] = args[3 + i]
  <2>1. 3 \in 0..n /\ 3 + 1 = 4
    BY ONLY <1>1
  <2>. QED BY <2>1, BackFacts
<1>. HIDE DEF b
<1>3. /\ Len(t) = n - 3
      /\ \A i \in 1..(n - 3) : t[i] = b[(n - 3) - i + 1]
  BY <1>2, ReverseFacts
<1>4. PICK f : Backwards(r, 0, args, f)
  BY DEF Kept
<1>5. 0 + 1 = 1
  OBVIOUS
<1>6. /\ f \in [1..l -> 4..n]
      /\ \A m \in 1..l : args[f[m]] = r[m]
      /\ \A x, y \in 1..l : x < y => f[y] < f[x]
  BY <1>4, <1>5 DEF Backwards
<1>. HIDE DEF t, n, l
<1> DEFINE p(x) == n - x + 1
           g == [m \in 1..l |-> p(f[m])]
<1>7. \A x \in 4..n : /\ p(x) \in 1..(n - 3)
                      /\ (n - 3) - p(x) + 1 \in 1..(n - 3)
                      /\ 3 + ((n - 3) - p(x) + 1) = x
  BY ONLY <1>1
<1>8. \A x, y \in 4..n : y < x => p(x) < p(y)
  BY ONLY <1>1
<1>9. \A x \in 4..n : t[p(x)] = args[x]
  BY <1>2, <1>3, <1>7
<1>. HIDE DEF p
<1>10. \A m \in 1..l : f[m] \in 4..n
  BY <1>6
<1>11. g \in [1..l -> 1..Len(t)]
  BY <1>3, <1>7, <1>10
<1>12. \A m \in 1..l : g[m] = p(f[m])
  OBVIOUS
<1>. HIDE DEF g
<1>13. \A m \in 1..l : t[g[m]] = r[m]
  BY <1>6, <1>9, <1>10, <1>12
<1>14. \A x, y \in 1..l : x < y => g[x] < g[y]
  BY <1>6, <1>8, <1>10, <1>12
<1>15. Subsequence(r, t)
  BY <1>11, <1>13, <1>14 DEF Subsequence, l
<1>. QED BY <1>15 DEF t, b, n

\* The file and the roster that is being walked are left alone.
LEMMA QuietRosters ==
  ASSUME IInv, Rosters, UNCHANGED <<users, disk, left, row, rest>>,
         pc' \in {"lines", "quit", "entries"} => pc \in {"lines", "entries"},
         pc' = "entries" => pc = "entries"
  PROVE  Rosters'
BY DEF Rosters

LEMMA OpenRosters ==
  ASSUME OpenFile
  PROVE  Rosters'
<1>1. pc' = "lines" /\ disk' = <<>> /\ Len(disk') = 0
  BY DEF OpenFile
<1>. QED BY <1>1 DEF Rosters

LEMMA BeginLineRosters ==
  ASSUME IInv, Rosters, BeginLine
  PROVE  Rosters'
<1>1. /\ pc = "lines" /\ pc' = "entries" /\ UNCHANGED <<users, disk, left>>
      /\ row' = HeadOf(users[left]) /\ rest' = Len(users[left].roster)
      /\ left > 0
  BY DEF BeginLine, HeadOf
<1>2. left \in 1..Len(users) /\ users[left] \in User
  BY <1>1, AtUser
<1>3. /\ Len(row') = 1 + Len(Credentials(users[left]))
      /\ Len(Credentials(users[left])) \in Nat
  BY <1>1, <1>2, HeadFacts, CredentialsType, LenProperties
<1>4. Kept(users[left].roster, rest', row')
  <2>1. users[left].roster \in Seq(Word)
    BY <1>2, RosterOf
  <2>. QED BY <1>1, <2>1, NothingKept
<1>5. SavedRoster(users[left], rest', row')
  BY <1>3, <1>4 DEF SavedRoster
<1>6. \A d \in 1..Len(disk) : SavedRoster(users[Len(users) + 1 - d], 0, disk[d])
  BY <1>1 DEF Rosters
<1>7. Rosters'
  BY <1>1, <1>5, <1>6 DEF Rosters
<1>. QED BY <1>7

LEMMA EntryRosters ==
  ASSUME IInv, Rosters, WriteEntry
  PROVE  Rosters'
<1> DEFINE u == users[left]
<1>1. /\ pc = "entries" /\ pc' = "entries" /\ UNCHANGED <<users, disk, left>>
      /\ rest \in 1..Len(u.roster)
      /\ row' = Append(row, u.roster[rest]) /\ rest' = rest - 1
  BY DEF WriteEntry
<1>2. left > 0 /\ row \in Seq(Word)
  BY <1>1 DEF IInv, TypeOK
<1>3. left \in 1..Len(users) /\ u \in User /\ u.roster \in Seq(Word)
  BY <1>1, <1>2, AtUser, RosterOf
<1>4. u.roster[rest] \in Word
  BY <1>1, <1>3, ElementOfSeq
<1>5. Len(row') = Len(row) + 1 /\ Len(row) \in Nat
  BY <1>1, <1>2, <1>4, AppendProperties, LenProperties
<1>6. SavedRoster(u, rest', row')
  <2>1. SavedRoster(u, rest, row)
    BY <1>1 DEF Rosters
  <2>2. ASSUME Len(row) >= 3, Kept(u.roster, rest, row)
        PROVE  Len(row') >= 3 /\ Kept(u.roster, rest', row')
    <3>1. Kept(u.roster, rest', row')
      BY <1>1, <1>2, <1>3, <2>2, EntryKept
    <3>2. Len(row') >= 3
      BY ONLY <1>5, <2>2
    <3>. QED BY <3>1, <3>2
  <2>. QED BY <2>1, <2>2 DEF SavedRoster
<1>7. \A d \in 1..Len(disk) : SavedRoster(users[Len(users) + 1 - d], 0, disk[d])
  BY <1>1 DEF Rosters
<1>. QED BY <1>1, <1>6, <1>7 DEF Rosters

LEMMA EndLineRosters ==
  ASSUME IInv, Rosters, EndLine
  PROVE  Rosters'
<1>1. /\ pc = "entries" /\ pc' = "lines" /\ users' = users
      /\ Len(disk') = Len(disk) + 1
      /\ \A d \in 1..Len(disk) : disk'[d] = disk[d]
      /\ disk'[Len(disk) + 1] = row
      /\ \A d \in 1..Len(disk') :
           d \in 1..Len(disk) \/ (d = Len(disk) + 1 /\ Len(users) + 1 - d = left)
  BY LineMore
<1>2. rest = 0
  BY DEF EndLine
<1>3. /\ SavedRoster(users[left], 0, row)
      /\ \A d \in 1..Len(disk) : SavedRoster(users[Len(users) + 1 - d], 0, disk[d])
  BY <1>1, <1>2 DEF Rosters
<1>4. \A d \in 1..Len(disk') : SavedRoster(users[Len(users) + 1 - d], 0, disk'[d])
  <2>. TAKE d \in 1..Len(disk')
  <2>1. CASE d \in 1..Len(disk)
    BY <1>1, <1>3, <2>1
  <2>2. CASE d = Len(disk) + 1 /\ Len(users) + 1 - d = left
    BY <1>1, <1>3, <2>2
  <2>. QED BY <1>1, <2>1, <2>2
<1>. QED BY <1>1, <1>4 DEF Rosters

\* An entry erased while the file is written is missing from what is kept, and
\* nothing else is.
LEMMA EraseRosters ==
  ASSUME IInv, Rosters, NEW i \in 1..Len(users), NEW k \in 1..Len(users[i].roster),
         RosterErase(i, k)
  PROVE  Rosters'
<1> DEFINE s == users[i].roster
           r == RemoveAt(s, k)
<1>1. /\ users' = [users EXCEPT ![i].roster = r]
      /\ UNCHANGED <<disk, pc, left, row, rest>> /\ pc # "quit"
  BY DEF RosterErase, saving
<1>2. s \in Seq(Word) /\ k \in 1..Len(s)
  BY RosterOf
<1>3. r \in Seq(Word)
  BY <1>2, RemoveAtFacts
<1>4. \A j \in Nat : \A args : Kept(s, j, args) => Kept(r, j, args)
  BY <1>2, RemoveKept
<1>. HIDE DEF r
<1>5. /\ Len(users') = Len(users)
      /\ \A n \in 1..Len(users) : users'[n].name = users[n].name /\ users'[n].pass = users[n].pass
      /\ \A n \in 1..Len(users) : users'[n].roster = IF n = i THEN r ELSE users[n].roster
  BY <1>1, <1>3, RosterChanges DEF RosterOnly
<1>6. \A n \in 1..Len(users), j \in Nat : \A args :
        SavedRoster(users[n], j, args) => SavedRoster(users'[n], j, args)
  <2>. TAKE n \in 1..Len(users), j \in Nat
  <2>. TAKE args
  <2>1. Credentials(users'[n]) = Credentials(users[n])
    BY <1>5 DEF Credentials
  <2>2. Kept(users[n].roster, j, args) => Kept(users'[n].roster, j, args)
    BY <1>4, <1>5
  <2>. QED BY <2>1, <2>2 DEF SavedRoster
<1>7. pc \in {"lines", "entries"} =>
        \A d \in 1..Len(disk) : Len(users) + 1 - d \in 1..Len(users)
  <2>1. pc \in {"lines", "entries"} => Len(disk) + left = Len(users)
    BY DEF IInv, WrittenSoFar
  <2>2. Len(disk) \in Nat /\ Len(users) \in Nat /\ left \in Nat
    BY Lengths DEF IInv
  <2>. QED BY <2>1, <2>2
<1>8. pc \in {"lines", "entries"} =>
        \A d \in 1..Len(disk) : SavedRoster(users'[Len(users) + 1 - d], 0, disk[d])
  BY <1>6, <1>7 DEF Rosters
<1>9. pc = "entries" => SavedRoster(users'[left], rest, row)
  <2>. SUFFICES ASSUME pc = "entries" PROVE SavedRoster(users'[left], rest, row)
    OBVIOUS
  <2>1. left > 0 /\ rest \in Nat
    BY DEF IInv, TypeOK
  <2>2. left \in 1..Len(users)
    BY <2>1, AtUser
  <2>. QED BY <1>6, <2>1, <2>2 DEF Rosters
<1>. QED BY <1>1, <1>5, <1>8, <1>9 DEF Rosters

LEMMA NextRosters ==
  ASSUME IInv, Rosters, [Next]_vars
  PROVE  Rosters'
<1>1. CASE \/ Start \/ OpenForReading \/ ReadLine \/ EndOfFile \/ OnConnect \/ DeleteUser
           \/ Interrupt \/ InterruptReading \/ InterruptBoot \/ OutOfRange \/ Quit \/ Crash
           \/ \E j \in Jids, n \in Names, p \in Passwords : RegisterNew(j, n, p)
           \/ \E j \in Jids, n \in Names : RegisterConflict(j, n)
           \/ \E j \in Jids, p \in Passwords : ChangePassword(j, p)
           \/ \E j \in Jids : RemoveUser(j)
           \/ \E i \in 1..Len(users), b \in Buddies : RosterAdd(i, b)
  <2>1. pc' \notin {"lines", "entries", "quit"}
    BY <1>1 DEF Start, OpenForReading, ReadLine, EndOfFile, OnConnect, DeleteUser, Interrupt,
         InterruptReading, InterruptBoot, OutOfRange, Quit, Crash, Stopped, RegisterNew,
         RegisterConflict, ChangePassword, RemoveUser, RosterAdd
  <2>. QED BY <2>1 DEF Rosters
<1>2. CASE CloseFile
  <2>1. /\ pc = "lines" /\ pc' \in {"quit", "idle"} /\ UNCHANGED <<users, disk, left, row, rest>>
    BY <1>2 DEF CloseFile, saving
  <2>. QED BY <2>1, QuietRosters
<1>3. CASE UNCHANGED vars
  <2>1. UNCHANGED <<users, disk, left, row, rest, pc>>
    BY <1>3 DEF vars
  <2>. QED BY <2>1 DEF Rosters
<1>4. CASE \E i \in 1..Len(users) : \E k \in 1..Len(users[i].roster) : RosterErase(i, k)
  BY <1>4, EraseRosters
<1>. QED BY <1>1, <1>2, <1>3, <1>4, OpenRosters, BeginLineRosters, EntryRosters, EndLineRosters
     DEF Next

\* Whoever is registered when the gateway ends after a signal has a line, and
\* unless his name and password are fewer than two words, that line has his whole
\* roster in its order: whatever the read threads erased while it was written.
THEOREM RostersSurviveShutdown == Spec => []ShutdownKeepsRosters
<1>1. Init => IInv /\ Rosters
  <2>1. Init => Rosters
    BY DEF Init, Rosters
  <2>. QED BY <2>1, InitIInv
<1>2. IInv /\ Rosters /\ [Next]_vars => (IInv /\ Rosters)'
  BY NextIInv, NextRosters
<1>3. IInv /\ Rosters => ShutdownKeepsRosters
  <2>. SUFFICES ASSUME IInv, Rosters, pc = "quit", NEW i \in 1..Len(users),
                       Len(Credentials(users[i])) >= 2
                PROVE  \E k \in ReadableLines :
                         /\ UserOf(disk[k]).jid = users[i].jid
                         /\ Subsequence(users[i].roster, UserOf(disk[k]).roster)
    BY DEF ShutdownKeepsRosters
  <2> DEFINE d == Len(users) + 1 - i
  <2>1. d \in 1..Len(disk) /\ Len(users) + 1 - d = i
    <3>1. Len(disk) + left = Len(users) /\ left = 0
      BY DEF IInv, TypeOK, WrittenSoFar
    <3>2. Len(users) \in Nat /\ i \in 1..Len(users)
      BY Lengths DEF IInv
    <3>. QED BY ONLY <3>1, <3>2
  <2>. HIDE DEF d
  <2>2. disk[d] \in Seq(Word) /\ users[i].roster \in Seq(Word)
    BY <2>1, Lengths, RosterOf DEF IInv
  <2>3. Len(disk[d]) >= 3 /\ Kept(users[i].roster, 0, disk[d])
    BY <2>1 DEF Rosters, SavedRoster
  <2>4. d \in ReadableLines
    BY <2>1, <2>3 DEF ReadableLines, Readable
  <2>5. FromUser(disk[d], users[i])
    BY <2>1 DEF IInv, WrittenSoFar
  <2>6. UserOf(disk[d]).jid = users[i].jid
    <3>1. disk[d][1] = users[i].jid
      BY <2>5 DEF FromUser
    <3>. QED BY <3>1, <2>1 DEF UserOf, IInv, AllProper
  <2>7. Subsequence(users[i].roster, UserOf(disk[d]).roster)
    BY <2>2, <2>3, KeptIsRead DEF UserOf
  <2>. QED BY <2>4, <2>6, <2>7
<1>. QED BY <1>1, <1>2, <1>3, PTL DEF Spec
=============================================================================
