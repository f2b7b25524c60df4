--------------------------- MODULE UsersFileProofs ---------------------------
(***************************************************************************)
(* For any number of sessions, users and cycles: the names in the file are *)
(* unique up to case, a save touches only the user its operation was       *)
(* about, and whoever was removed or disabled is not let in again.         *)
(***************************************************************************)
EXTENDS UsersFile, SequenceTheorems, TLAPS

-----------------------------------------------------------------------------
(***************************************************************************)
(* The inductive invariant.                                                *)
(***************************************************************************)
\* Every copy of the file that a session holds has unique names as well: addUser
\* compares with the copy, and the copy becomes the file.
CopyUnique(s) == UniqueIn(s.cfg.users)

\* An operation that has not ended has been about nobody so far.
NobodyYet(s) == s.pc = "edit" => s.chosen = {}

\* A session that found no usable file holds at most the user it is about.
CopyBlank(s) == s.pc # "menu" /\ s.blank => AccountsIn(s.cfg.users) \subseteq s.chosen

\* A session that found one holds what was saved last, but for the user it is about
\* and what it has missed.
CopyCurrent(s, file) ==
  s.pc # "menu" /\ ~s.blank => Differ(file, s.cfg) \subseteq s.chosen \cup s.missed

Copy(s, file) == CopyUnique(s) /\ NobodyYet(s) /\ CopyBlank(s) /\ CopyCurrent(s, file)

\* The file is what was saved last, or nothing.
FileState == content = IF readable THEN saved ELSE Fresh

\* Nobody who was revoked is enabled in what was saved last.
RevokedNotEnabled == EnabledIn(saved.users) \cap revoked = {}

IInv ==
  /\ TypeOK
  /\ FileState
  /\ UniqueIn(saved.users)
  /\ \A t \in Tools : Copy(tool[t], saved)
  /\ RevokedNotEnabled

-----------------------------------------------------------------------------
(***************************************************************************)
(* The operators on sequences of users.                                    *)
(***************************************************************************)
\* The entries of all other accounts.
Others(users, accounts) ==
  {users[i] : i \in {j \in DOMAIN users : Fold[users[j].name] \notin accounts}}

\* Others, by its members.
LEMMA OthersMember ==
  ASSUME NEW users, NEW accounts, NEW e
  PROVE  e \in Others(users, accounts)
           <=> \E i \in DOMAIN users : users[i] = e /\ Fold[e.name] \notin accounts
BY DEF Others

\* EntryOf, by its members.
LEMMA EntryMember ==
  ASSUME NEW users, NEW a, NEW e
  PROVE  e \in EntryOf(users, a) <=> \E i \in DOMAIN users : users[i] = e /\ Fold[e.name] = a
BY DEF EntryOf

\* EnabledIn, by its members.
LEMMA EnabledMember ==
  ASSUME NEW users, NEW a
  PROVE  a \in EnabledIn(users)
           <=> \E i \in DOMAIN users : users[i].enabled /\ Fold[users[i].name] = a
BY DEF EnabledIn

\* Sequences with the same other users have the same entries for them.
LEMMA OthersEntries ==
  ASSUME NEW u, NEW v, NEW A, Others(u, A) = Others(v, A), NEW a, a \notin A
  PROVE  EntryOf(u, a) = EntryOf(v, a)
<1>1. ASSUME NEW w, NEW e
      PROVE  e \in EntryOf(w, a) <=> e \in Others(w, A) /\ Fold[e.name] = a
  <2>1. e \in EntryOf(w, a) <=> \E i \in DOMAIN w : w[i] = e /\ Fold[e.name] = a
    BY EntryMember
  <2>2. e \in Others(w, A) <=> \E i \in DOMAIN w : w[i] = e /\ Fold[e.name] \notin A
    BY OthersMember
  <2> QED
    BY <2>1, <2>2
<1>2. \A e : e \in EntryOf(u, a) <=> e \in EntryOf(v, a)
  BY <1>1
<1>3. /\ \A e \in EntryOf(u, a) : e \in EntryOf(v, a)
      /\ \A e \in EntryOf(v, a) : e \in EntryOf(u, a)
  BY <1>2
<1> QED
  BY <1>3, Zenon DEF EntryOf

\* An account is enabled or not by its entry.
LEMMA EnabledByEntry ==
  ASSUME NEW u, NEW v, NEW a, EntryOf(u, a) = EntryOf(v, a), a \in EnabledIn(u)
  PROVE  a \in EnabledIn(v)
<1>1. PICK i \in DOMAIN u : u[i].enabled /\ Fold[u[i].name] = a
  BY EnabledMember, Zenon
<1>2. PICK e : e = u[i] /\ e \in EntryOf(v, a)
  BY <1>1, EntryMember
<1>3. PICK j \in DOMAIN v : v[j] = e /\ Fold[e.name] = a
  BY <1>2, EntryMember
<1>4. v[j].enabled /\ Fold[v[j].name] = a
  BY <1>1, <1>2, <1>3
<1> QED
  BY <1>4, EnabledMember, Zenon

\* Files that differ little from the same file differ little from each other.
LEMMA DifferTransitive ==
  ASSUME NEW c, NEW d, NEW e
  PROVE  Differ(c, e) \subseteq Differ(d, c) \cup Differ(d, e)
BY DEF Differ

\* No other accounts, and no users at all, in an empty file.
LEMMA FreshUsers ==
  /\ Fresh \in Config
  /\ UniqueIn(Fresh.users)
  /\ AccountsIn(Fresh.users) = {}
<1>1. Fresh.users = <<>> /\ Fresh.lists = FALSE /\ DOMAIN Fresh.users = {}
  BY DEF Fresh
<1>2. <<>> \in Seq(User)
  BY EmptySeq
<1> QED
  BY <1>1, <1>2 DEF UniqueIn, AccountsIn, Fresh, Config

\* What an operation does to the users: names stay unique, the others stay.
Edits(old, new, accounts) ==
  /\ new \in Seq(User)
  /\ UniqueIn(old) => UniqueIn(new)
  /\ Others(new, accounts) = Others(old, accounts)

\* addUser appends a user whose account is not there yet.
LEMMA AddEdits ==
  ASSUME NEW users \in Seq(User), NEW e \in User, Fold[e.name] \notin AccountsIn(users)
  PROVE  Edits(users, Append(users, e), {Fold[e.name]})
<1> DEFINE n == Len(users)
<1>1. PICK new : new = Append(users, e)
  OBVIOUS
<1>2. /\ new \in Seq(User) /\ DOMAIN new = 1..(n + 1) /\ DOMAIN users = 1..n /\ n \in Nat
      /\ \A i \in 1..n : new[i] = users[i]
      /\ new[n + 1] = e
  BY <1>1, AppendProperties, LenProperties
<1>3. \A i \in 1..n : Fold[users[i].name] # Fold[e.name]
  BY <1>2 DEF AccountsIn
<1>4. UniqueIn(users) => UniqueIn(new)
  <2> SUFFICES ASSUME UniqueIn(users), NEW i \in 1..(n + 1), NEW j \in 1..(n + 1),
                      Fold[new[i].name] = Fold[new[j].name]
               PROVE  i = j
    BY <1>2 DEF UniqueIn
  <2>1. (i \in 1..n \/ i = n + 1) /\ (j \in 1..n \/ j = n + 1)
    BY <1>2
  <2> QED
    BY <2>1, <1>2, <1>3 DEF UniqueIn
<1>5. ASSUME NEW x
      PROVE  x \in Others(new, {Fold[e.name]}) <=> x \in Others(users, {Fold[e.name]})
  <2>1. \A i : i \in 1..(n + 1) <=> i \in 1..n \/ i = n + 1
    BY <1>2
  <2>2. (\E i \in 1..(n + 1) : new[i] = x /\ Fold[x.name] \notin {Fold[e.name]})
          <=> (\E i \in 1..n : users[i] = x /\ Fold[x.name] \notin {Fold[e.name]})
    BY <2>1, <1>2
  <2> QED
    BY <2>2, <1>2, OthersMember
<1> QED
  BY <1>1, <1>2, <1>4, <1>5 DEF Edits

\* The sequence that RemoveAt leaves.
LEMMA RemoveAtProperties ==
  ASSUME NEW S, NEW s \in Seq(S), NEW i \in 1..Len(s)
  PROVE  /\ RemoveAt(s, i) \in Seq(S)
         /\ DOMAIN RemoveAt(s, i) = 1..(Len(s) - 1)
         /\ \A k \in 1..(Len(s) - 1) :
              RemoveAt(s, i)[k] = IF k < i THEN s[k] ELSE s[k + 1]
<1>0. Len(s) \in Nat /\ i \in Int /\ \A k \in 1..Len(s) : s[k] \in S
  BY LenProperties, ElementOfSeq
<1>1. PICK a : a = SubSeq(s, 1, i - 1)
  OBVIOUS
<1>2. PICK b : b = SubSeq(s, i + 1, Len(s))
  OBVIOUS
<1>3. /\ a \in Seq(S) /\ Len(a) = i - 1
      /\ \A k \in 1..(i - 1) : a[k] = s[k]
  <2>1. \A k \in 1..(i - 1) : s[k] \in S
    BY <1>0
  <2>2. i - 1 \in Int /\ 1 \in Int
    BY <1>0
  <2>3. /\ SubSeq(s, 1, i - 1) \in Seq(S)
        /\ Len(SubSeq(s, 1, i - 1)) = IF 1 <= i - 1 THEN (i - 1) - 1 + 1 ELSE 0
        /\ \A k \in 1..((i - 1) - 1 + 1) : SubSeq(s, 1, i - 1)[k] = s[1 + k - 1]
    BY <2>1, <2>2, SubSeqProperties
  <2> QED
    BY <2>3, <1>1, <1>0
<1>4. /\ b \in Seq(S) /\ Len(b) = Len(s) - i
      /\ \A k \in 1..(Len(s) - i) : b[k] = s[k + i]
  <2>1. \A k \in (i + 1)..Len(s) : s[k] \in S
    BY <1>0
  <2>2. i + 1 \in Int /\ Len(s) \in Int
    BY <1>0
  <2>3. /\ SubSeq(s, i + 1, Len(s)) \in Seq(S)
        /\ Len(SubSeq(s, i + 1, Len(s))) = IF i + 1 <= Len(s) THEN Len(s) - (i + 1) + 1 ELSE 0
        /\ \A k \in 1..(Len(s) - (i + 1) + 1) : SubSeq(s, i + 1, Len(s))[k] = s[(i + 1) + k - 1]
    BY <2>1, <2>2, SubSeqProperties
  <2> QED
    BY <2>3, <1>2, <1>0
<1>5. PICK r : r = a \o b
  OBVIOUS
<1>6. /\ r \in Seq(S) /\ Len(r) = Len(s) - 1
      /\ \A k \in 1..(Len(s) - 1) : r[k] = IF k <= i - 1 THEN a[k] ELSE b[k - (i - 1)]
  <2>1. /\ r \in Seq(S) /\ Len(r) = Len(a) + Len(b)
        /\ \A k \in 1..(Len(a) + Len(b)) : r[k] = IF k <= Len(a) THEN a[k] ELSE b[k - Len(a)]
    BY <1>3, <1>4, <1>5, ConcatProperties
  <2>2. Len(a) + Len(b) = Len(s) - 1
    BY <1>0, <1>3, <1>4
  <2> QED
    BY <2>1, <2>2, <1>3
<1>7. DOMAIN r = 1..(Len(s) - 1)
  BY <1>6, LenProperties
<1>8. ASSUME NEW k \in 1..(Len(s) - 1)
      PROVE  r[k] = IF k < i THEN s[k] ELSE s[k + 1]
  <2>1. CASE k < i
    BY <2>1, <1>0, <1>3, <1>6
  <2>2. CASE k >= i
    <3>1. PICK m : m = k - (i - 1)
      OBVIOUS
    <3>2. m \in 1..(Len(s) - i) /\ m + i = k + 1 /\ ~(k <= i - 1)
      BY <2>2, <3>1, <1>0
    <3>3. r[k] = b[m]
      BY <3>1, <3>2, <1>6
    <3>4. b[m] = s[k + 1]
      BY <3>2, <1>4
    <3>5. ~(k < i)
      BY <2>2, <1>0
    <3> QED
      BY <3>3, <3>4, <3>5
  <2> QED
    BY <2>1, <2>2, <1>0
<1>9. r = RemoveAt(s, i)
  BY <1>1, <1>2, <1>5 DEF RemoveAt
<1> QED
  BY <1>6, <1>7, <1>8, <1>9

\* removeUser takes one user out.
LEMMA RemoveEdits ==
  ASSUME NEW users \in Seq(User), NEW i \in DOMAIN users, UniqueIn(users)
  PROVE  Edits(users, RemoveAt(users, i), {Fold[users[i].name]})
<1> DEFINE n == Len(users)
<1>1. PICK new : new = RemoveAt(users, i)
  OBVIOUS
<1>2. n \in Nat /\ DOMAIN users = 1..n /\ i \in 1..n
  BY LenProperties
<1>3. /\ new \in Seq(User) /\ DOMAIN new = 1..(n - 1)
      /\ \A k \in 1..(n - 1) : new[k] = IF k < i THEN users[k] ELSE users[k + 1]
  BY <1>1, <1>2, RemoveAtProperties
<1>4. UniqueIn(new)
  <2> SUFFICES ASSUME NEW j \in 1..(n - 1), NEW k \in 1..(n - 1),
                      Fold[new[j].name] = Fold[new[k].name]
               PROVE  j = k
    BY <1>3 DEF UniqueIn
  <2>1. PICK p \in 1..n : new[j] = users[p] /\ p = IF j < i THEN j ELSE j + 1
    BY <1>2, <1>3
  <2>2. PICK q \in 1..n : new[k] = users[q] /\ q = IF k < i THEN k ELSE k + 1
    BY <1>2, <1>3
  <2>3. p = q
    BY <2>1, <2>2, <1>2 DEF UniqueIn
  <2> QED
    BY <2>1, <2>2, <2>3, <1>2
<1>5. ASSUME NEW x
      PROVE  x \in Others(new, {Fold[users[i].name]})
               <=> x \in Others(users, {Fold[users[i].name]})
  <2>1. ASSUME NEW k \in 1..(n - 1), new[k] = x
        PROVE  \E j \in 1..n : users[j] = x
    <3>1. k \in 1..n /\ k + 1 \in 1..n
      BY <1>2
    <3> QED
      BY <3>1, <2>1, <1>3
  <2>2. ASSUME NEW j \in 1..n, users[j] = x, Fold[x.name] # Fold[users[i].name]
        PROVE  \E k \in 1..(n - 1) : new[k] = x
    <3>1. j # i
      BY <2>2
    <3>2. CASE j < i
      <4>1. j \in 1..(n - 1)
        BY <3>2, <1>2
      <4> QED
        BY <4>1, <3>2, <2>2, <1>3
    <3>3. CASE j > i
      <4>1. PICK k : k = j - 1
        OBVIOUS
      <4>2. k \in 1..(n - 1) /\ ~(k < i) /\ k + 1 = j
        BY <4>1, <3>3, <1>2
      <4> QED
        BY <4>2, <2>2, <1>3
    <3> QED
      BY <3>1, <3>2, <3>3, <1>2
  <2>3. /\ x \in Others(new, {Fold[users[i].name]})
             <=> \E k \in 1..(n - 1) : new[k] = x /\ Fold[x.name] # Fold[users[i].name]
        /\ x \in Others(users, {Fold[users[i].name]})
             <=> \E j \in 1..n : users[j] = x /\ Fold[x.name] # Fold[users[i].name]
    BY <1>2, <1>3, OthersMember
  <2> QED
    BY <2>1, <2>2, <2>3, Zenon
<1> QED
  BY <1>1, <1>3, <1>4, <1>5 DEF Edits

\* toggleUser and updateUser change one user and keep its name.
LEMMA ChangeEdits ==
  ASSUME NEW users \in Seq(User), NEW i \in DOMAIN users, NEW e \in User,
         e.name = users[i].name
  PROVE  Edits(users, [users EXCEPT ![i] = e], {Fold[users[i].name]})
<1> DEFINE n == Len(users)
<1>1. PICK new : new = [users EXCEPT ![i] = e]
  OBVIOUS
<1>2. n \in Nat /\ DOMAIN users = 1..n /\ i \in 1..n
  BY LenProperties
<1>3. /\ new \in Seq(User) /\ DOMAIN new = 1..n
      /\ \A j \in 1..n : new[j] = IF j = i THEN e ELSE users[j]
  BY <1>1, <1>2, ExceptSeq, LenProperties
<1>4. \A j \in 1..n : new[j].name = users[j].name
  BY <1>3
<1>5. UniqueIn(users) => UniqueIn(new)
  BY <1>2, <1>3, <1>4 DEF UniqueIn
<1>6. ASSUME NEW x
      PROVE  x \in Others(new, {Fold[users[i].name]})
               <=> x \in Others(users, {Fold[users[i].name]})
  <2>1. ASSUME NEW j \in 1..n, new[j] = x \/ users[j] = x, Fold[x.name] # Fold[users[i].name]
        PROVE  new[j] = x /\ users[j] = x
    BY <2>1, <1>3
  <2>2. /\ x \in Others(new, {Fold[users[i].name]})
             <=> \E k \in 1..n : new[k] = x /\ Fold[x.name] # Fold[users[i].name]
        /\ x \in Others(users, {Fold[users[i].name]})
             <=> \E j \in 1..n : users[j] = x /\ Fold[x.name] # Fold[users[i].name]
    BY <1>2, <1>3, OthersMember
  <2> QED
    BY <2>1, <2>2, Zenon
<1> QED
  BY <1>1, <1>3, <1>5, <1>6 DEF Edits

-----------------------------------------------------------------------------
(***************************************************************************)
(* Each kind of step keeps the invariant.                                  *)
(***************************************************************************)
\* A session at its menu holds nothing.
LEMMA MenuCopy ==
  /\ AtMenu \in Session /\ AtMenu.pc = "menu"
  /\ \A file : Copy(AtMenu, file)
<1>1. /\ AtMenu.pc = "menu" /\ AtMenu.cfg = Fresh /\ AtMenu.chosen = {}
      /\ AtMenu.blank = FALSE /\ AtMenu.missed = {}
  BY DEF AtMenu
<1>2. AtMenu \in Session
  BY FreshUsers DEF AtMenu, Session
<1> QED
  BY <1>1, <1>2, FreshUsers DEF Copy, CopyUnique, NobodyYet, CopyBlank, CopyCurrent

\* The original users are the first content of the file.
LEMMA IInvInit == Init => IInv
<1> SUFFICES ASSUME Init PROVE IInv
  OBVIOUS
<1>1. content.users = Original /\ content \in Config /\ saved = content
  BY UsersAssumption DEF Init, Config, User
<1>2. tool \in [Tools -> Session] /\ \A t \in Tools : Copy(tool[t], saved)
  BY MenuCopy DEF Init
<1>3. TypeOK
  BY <1>1, <1>2 DEF Init, TypeOK
<1>4. UniqueIn(saved.users)
  <2>1. DOMAIN Original = 1..Len(Original)
    BY UsersAssumption, LenProperties
  <2> QED
    BY <1>1, <2>1, UsersAssumption DEF UniqueIn
<1>5. RevokedNotEnabled /\ FileState
  BY <1>1 DEF Init, RevokedNotEnabled, FileState
<1> QED
  BY <1>2, <1>3, <1>4, <1>5 DEF IInv

\* What is left to show of a step that changes one session and saves nothing.
LEMMA OneSession ==
  ASSUME IInv, NEW t \in Tools, NEW s \in Session, Copy(s, saved),
         tool' = [tool EXCEPT ![t] = s],
         \/ UNCHANGED <<readable, content>>
         \/ readable' = FALSE /\ content' = Fresh,
         cycles' \in Nat, UNCHANGED <<saved, revoked>>
  PROVE  IInv'
<1>1. tool \in [Tools -> Session] /\ \A u \in Tools : Copy(tool[u], saved)
  BY DEF IInv, TypeOK
<1>2. tool' \in [Tools -> Session] /\ \A u \in Tools : tool'[u] \in {s, tool[u]}
  BY <1>1
<1>3. \A u \in Tools : Copy(tool'[u], saved)
  BY <1>1, <1>2
<1>4. TypeOK'
  BY <1>2, FreshUsers DEF IInv, TypeOK
<1>5. (\A u \in Tools : Copy(tool[u], saved))'
  BY <1>3
<1>6. FileState' /\ UniqueIn(saved.users)' /\ RevokedNotEnabled'
  BY DEF IInv, FileState, RevokedNotEnabled
<1> QED
  BY <1>4, <1>5, <1>6 DEF IInv

\* A cycle begins with a copy of the file, or with none.
LEMMA ChooseStep == ASSUME IInv, NEW t \in Tools, Choose(t) PROVE IInv'
<1>1. PICK next \in {"edit", "save"} :
        tool' = [tool EXCEPT ![t] =
          [AtMenu EXCEPT !.pc = next, !.cfg = loadConfig, !.blank = ~readable]]
  BY DEF Choose
<1>2. PICK s : s = [AtMenu EXCEPT !.pc = next, !.cfg = loadConfig, !.blank = ~readable]
  OBVIOUS
<1>3. /\ readable \in BOOLEAN /\ saved \in Config /\ UniqueIn(saved.users)
      /\ cycles \in Nat
  BY DEF IInv, TypeOK
<1>4. /\ readable => loadConfig = saved
      /\ ~readable => loadConfig = Fresh
  BY DEF IInv, FileState, loadConfig
<1>5. loadConfig \in Config /\ UniqueIn(loadConfig.users)
  BY <1>3, <1>4, FreshUsers
<1>6. /\ s \in Session
      /\ s.pc = next /\ s.cfg = loadConfig /\ s.chosen = {} /\ s.missed = {}
      /\ s.blank = ~readable
  BY <1>2, <1>3, <1>5 DEF AtMenu, Session
<1>7. Copy(s, saved)
  <2>1. CopyUnique(s) /\ NobodyYet(s)
    BY <1>5, <1>6 DEF CopyUnique, NobodyYet
  <2>2. CopyBlank(s)
    BY <1>3, <1>4, <1>6, FreshUsers DEF CopyBlank
  <2>3. CopyCurrent(s, saved)
    BY <1>3, <1>4, <1>6 DEF CopyCurrent, Differ
  <2> QED
    BY <2>1, <2>2, <2>3 DEF Copy
<1>8. cycles' = cycles + 1 /\ UNCHANGED <<readable, content, revoked, saved>>
  BY DEF Choose
<1>9. tool' = [tool EXCEPT ![t] = s] /\ cycles' \in Nat
  BY <1>1, <1>2, <1>3, <1>8
<1> QED
  BY <1>6, <1>7, <1>8, <1>9, OneSession

\* An operation ends, and has edited its copy.
LEMMA EditedStep ==
  ASSUME IInv, NEW t \in Tools, NEW users, NEW A \in SUBSET Accounts,
         Edited(t, users, A), Edits(tool[t].cfg.users, users, A)
  PROVE  IInv'
<1>1. PICK old : old = tool[t]
  OBVIOUS
<1>2. old \in Session /\ Copy(old, saved) /\ old.pc = "edit" /\ tool \in [Tools -> Session]
  BY <1>1 DEF IInv, TypeOK, Edited
<1>3. PICK s : s = [old EXCEPT !.pc = "save", !.cfg = [old.cfg EXCEPT !.users = users],
                               !.chosen = A]
  OBVIOUS
<1>4. tool' = [tool EXCEPT ![t] = s]
  BY <1>1, <1>2, <1>3 DEF Edited
<1>5. users \in Seq(User) /\ old.cfg \in Config
  BY <1>2 DEF Edits, Session
<1>6. PICK cfg : cfg = [old.cfg EXCEPT !.users = users]
  OBVIOUS
<1>7. cfg \in Config /\ cfg.users = users /\ cfg.lists = old.cfg.lists
  BY <1>5, <1>6 DEF Config
<1>8. /\ s \in Session
      /\ s.pc = "save" /\ s.cfg = cfg /\ s.chosen = A
      /\ s.blank = old.blank /\ s.missed = old.missed
  BY <1>2, <1>3, <1>6, <1>7 DEF Session
<1>9. old.chosen = {}
  BY <1>2 DEF Copy, NobodyYet
<1>10. Others(users, A) = Others(old.cfg.users, A)
  BY <1>1 DEF Edits
<1>11. Copy(s, saved)
  <2>1. CopyUnique(s) /\ NobodyYet(s)
    BY <1>1, <1>2, <1>7, <1>8 DEF Copy, CopyUnique, NobodyYet, Edits
  <2>2. CopyBlank(s)
    <3> SUFFICES ASSUME s.blank PROVE AccountsIn(users) \subseteq A
      BY <1>7, <1>8 DEF CopyBlank
    <3>1. AccountsIn(old.cfg.users) = {}
      BY <1>2, <1>8, <1>9 DEF Copy, CopyBlank
    <3>2. Others(old.cfg.users, A) = {}
      BY <3>1 DEF AccountsIn, Others
    <3>3. \A i \in DOMAIN users : Fold[users[i].name] \in A
      BY <3>2, <1>10 DEF Others
    <3> QED
      BY <3>3 DEF AccountsIn
  <2>3. CopyCurrent(s, saved)
    <3> SUFFICES ASSUME ~s.blank PROVE Differ(saved, cfg) \subseteq A \cup old.missed
      BY <1>8 DEF CopyCurrent
    <3>1. Differ(saved, old.cfg) \subseteq old.missed
      BY <1>2, <1>8, <1>9 DEF Copy, CopyCurrent
    <3>2. \A a : a \notin A => EntryOf(users, a) = EntryOf(old.cfg.users, a)
      BY <1>10, OthersEntries
    <3> QED
      BY <3>1, <3>2, <1>7 DEF Differ
  <2> QED
    BY <2>1, <2>2, <2>3 DEF Copy
<1>12. cycles' \in Nat /\ UNCHANGED <<readable, content, saved, revoked>>
  BY DEF IInv, TypeOK, Edited
<1> QED
  BY <1>4, <1>8, <1>11, <1>12, OneSession

\* The operations.
LEMMA EditStep == ASSUME IInv, NEW t \in Tools, Edit(t) PROVE IInv'
<1>1. PICK users : users = tool[t].cfg.users
  OBVIOUS
<1>2. users \in Seq(User) /\ UniqueIn(users) /\ DOMAIN users = 1..Len(users)
  <2>1. tool[t].cfg.users \in Seq(User)
    BY DEF IInv, TypeOK, Session, Config
  <2>2. UniqueIn(tool[t].cfg.users)
    BY DEF IInv, Copy, CopyUnique
  <2> QED
    BY <1>1, <2>1, <2>2, LenProperties
<1>3. \A n \in Names : {Fold[n]} \in SUBSET Accounts
  BY UsersAssumption
<1>4. \A i \in DOMAIN users : users[i] \in User /\ {Fold[users[i].name]} \in SUBSET Accounts
  <2>1. \A i \in DOMAIN users : users[i] \in User
    BY <1>2, ElementOfSeq
  <2>2. \A e \in User : e.name \in Names
    BY DEF User
  <2> QED
    BY <2>1, <2>2, <1>3
<1>5. ASSUME NEW name \in Names, addUser(t, name) PROVE IInv'
  <2>1. PICK rev \in Revisions :
          Edited(t, Append(users, [name |-> name, enabled |-> TRUE, rev |-> rev]), {Fold[name]})
    BY <1>1, <1>5 DEF addUser
  <2>2. PICK e : e = [name |-> name, enabled |-> TRUE, rev |-> rev]
    OBVIOUS
  <2>3. e \in User /\ e.name = name
    BY <2>2 DEF User
  <2>4. Fold[e.name] \notin AccountsIn(users)
    BY <1>1, <1>5, <2>3 DEF addUser
  <2> QED
    BY <2>1, <2>2, <2>3, <2>4, <1>1, <1>2, <1>3, AddEdits, EditedStep
<1>6. ASSUME NEW i \in 1..MaxUsers, removeUser(t, i) PROVE IInv'
  <2>1. i \in DOMAIN users /\ Edited(t, RemoveAt(users, i), {Fold[users[i].name]})
    BY <1>1, <1>6 DEF removeUser
  <2> QED
    BY <2>1, <1>1, <1>2, <1>4, RemoveEdits, EditedStep
<1>7. ASSUME NEW i \in 1..MaxUsers, toggleUser(t, i) PROVE IInv'
  <2>1. i \in DOMAIN users
        /\ Edited(t, [users EXCEPT ![i].enabled = ~@], {Fold[users[i].name]})
    BY <1>1, <1>7 DEF toggleUser
  <2>2. PICK e : e = [users[i] EXCEPT !.enabled = ~@]
    OBVIOUS
  <2>3. e \in User /\ e.name = users[i].name
    BY <2>1, <2>2, <1>4 DEF User
  <2>4. Edited(t, [users EXCEPT ![i] = e], {Fold[users[i].name]})
    BY <2>1, <2>2
  <2> QED
    BY <2>1, <2>3, <2>4, <1>1, <1>2, <1>4, ChangeEdits, EditedStep
<1>8. ASSUME NEW i \in 1..MaxUsers, updateUser(t, i) PROVE IInv'
  <2>1. i \in DOMAIN users
    BY <1>1, <1>8 DEF updateUser
  <2>2. PICK rev \in Revisions :
          Edited(t, [users EXCEPT ![i].rev = rev], {Fold[users[i].name]})
    BY <1>1, <1>8 DEF updateUser
  <2>3. PICK e : e = [users[i] EXCEPT !.rev = rev]
    OBVIOUS
  <2>4. e \in User /\ e.name = users[i].name
    BY <2>1, <2>3, <1>4 DEF User
  <2>5. Edited(t, [users EXCEPT ![i] = e], {Fold[users[i].name]})
    BY <2>2, <2>3
  <2> QED
    BY <2>1, <2>4, <2>5, <1>1, <1>2, <1>4, ChangeEdits, EditedStep
<1>9. ASSUME Cancelled(t) PROVE IInv'
  <2>1. Edited(t, users, {}) /\ Edits(users, users, {})
    BY <1>1, <1>2, <1>9 DEF Cancelled, Edits
  <2> QED
    BY <2>1, <1>1, EditedStep
<1> QED
  BY <1>5, <1>6, <1>7, <1>8, <1>9 DEF Edit

\* A session gives up, or its save comes to nothing.
LEMMA BackStep ==
  ASSUME IInv, NEW t \in Tools, OpenFails(t) \/ WriteTorn(t) \/ Interrupt(t)
  PROVE  IInv'
<1>1. /\ tool' = [tool EXCEPT ![t] = AtMenu]
      /\ UNCHANGED <<saved, revoked, cycles>>
      /\ \/ UNCHANGED <<readable, content>>
         \/ readable' = FALSE /\ content' = Fresh
  BY DEF OpenFails, WriteTorn, Interrupt
<1>2. cycles' \in Nat
  BY <1>1 DEF IInv, TypeOK
<1> QED
  BY <1>1, <1>2, MenuCopy, OneSession

\* The file is cut: the copies stay what they are.
LEMMA TruncateStep == ASSUME IInv, NEW t \in Tools, Truncate(t) PROVE IInv'
<1>1. PICK old : old = tool[t]
  OBVIOUS
<1>2. old \in Session /\ Copy(old, saved) /\ old.pc = "save" /\ tool \in [Tools -> Session]
  BY <1>1 DEF IInv, TypeOK, Truncate
<1>3. PICK s : s = [old EXCEPT !.pc = "write"]
  OBVIOUS
<1>4. /\ s \in Session /\ s.pc = "write" /\ s.cfg = old.cfg /\ s.chosen = old.chosen
      /\ s.blank = old.blank /\ s.missed = old.missed
  BY <1>2, <1>3 DEF Session
<1>5. Copy(s, saved)
  BY <1>2, <1>4 DEF Copy, CopyUnique, NobodyYet, CopyBlank, CopyCurrent
<1>6. /\ tool' = [tool EXCEPT ![t] = s] /\ readable' = FALSE /\ content' = Fresh
      /\ cycles' \in Nat /\ UNCHANGED <<saved, revoked>>
  BY <1>1, <1>3 DEF Truncate, IInv, TypeOK
<1> QED
  BY <1>4, <1>5, <1>6, OneSession

\* A save lets in nobody who was revoked, outside its reach: there its users are
\* those that were saved last, or none.
LEMMA SaveKeepsRevoked ==
  ASSUME IInv, NEW t \in Tools, tool[t].pc = "write"
  PROVE  EnabledIn(tool[t].cfg.users) \cap ((revoked \ Reach(t)) \cup RevokedBy(t)) = {}
<1> SUFFICES ASSUME NEW a \in EnabledIn(tool[t].cfg.users),
                    a \in (revoked \ Reach(t)) \cup RevokedBy(t)
             PROVE  FALSE
  OBVIOUS
<1>1. a \in revoked /\ a \notin tool[t].chosen /\ a \notin tool[t].missed
  BY DEF RevokedBy, Reach
<1>2. Copy(tool[t], saved) /\ a \in Accounts
  BY <1>1 DEF IInv, TypeOK
<1>3. CASE tool[t].blank
  <2>1. a \in AccountsIn(tool[t].cfg.users)
    BY EnabledMember DEF AccountsIn
  <2> QED
    BY <1>1, <1>2, <1>3, <2>1 DEF Copy, CopyBlank
<1>4. CASE ~tool[t].blank
  <2>1. EntryOf(saved.users, a) = EntryOf(tool[t].cfg.users, a)
    BY <1>1, <1>2, <1>4 DEF Copy, CopyCurrent, Differ
  <2>2. a \in EnabledIn(saved.users)
    BY <2>1, EnabledByEntry
  <2> QED
    BY <1>1, <2>2 DEF IInv, RevokedNotEnabled
<1> QED
  BY <1>3, <1>4

\* A copy becomes the file, and every other session misses what that has changed.
LEMMA WriteStep == ASSUME IInv, NEW t \in Tools, Write(t) PROVE IInv'
<1>1. /\ tool \in [Tools -> Session] /\ revoked \subseteq Accounts /\ cycles \in Nat
      /\ \A u \in Tools : tool[u] \in Session /\ Copy(tool[u], saved)
  BY DEF IInv, TypeOK
<1>2. /\ saved' = tool[t].cfg /\ content' = saved' /\ readable' = TRUE
      /\ saved' \in Config /\ UniqueIn(saved'.users)
  BY <1>1 DEF Write, Session, Copy, CopyUnique
<1>3. PICK D : D = Differ(saved, tool[t].cfg) /\ D \subseteq Accounts \cup {"lists"}
  BY DEF Differ
<1>4. ASSUME NEW u \in Tools PROVE tool'[u] \in Session /\ Copy(tool'[u], saved')
  <2>1. CASE u = t
    BY <2>1, MenuCopy DEF Write
  <2>2. CASE u # t
    <3>1. PICK old : old = tool[u]
      OBVIOUS
    <3>2. old \in Session /\ Copy(old, saved)
      BY <1>1, <3>1
    <3>3. tool'[u] = Misses(old, D)
      BY <2>2, <1>3, <3>1 DEF Write
    <3>4. CASE old.pc = "menu"
      BY <3>2, <3>3, <3>4 DEF Misses, Copy, CopyUnique, NobodyYet, CopyBlank, CopyCurrent
    <3>5. CASE old.pc # "menu"
      <4>1. PICK s : s = [old EXCEPT !.missed = @ \cup D]
        OBVIOUS
      <4>2. tool'[u] = s
        BY <3>3, <3>5, <4>1 DEF Misses
      <4>3. /\ s \in Session /\ s.pc = old.pc /\ s.cfg = old.cfg /\ s.chosen = old.chosen
            /\ s.blank = old.blank /\ s.missed = old.missed \cup D
        BY <1>3, <3>2, <4>1 DEF Session
      <4>4. CopyCurrent(s, saved')
        BY <1>2, <1>3, <3>2, <4>3, DifferTransitive DEF Copy, CopyCurrent
      <4>5. CopyUnique(s) /\ NobodyYet(s) /\ CopyBlank(s)
        BY <3>2, <4>3 DEF Copy, CopyUnique, NobodyYet, CopyBlank
      <4> QED
        BY <4>2, <4>3, <4>4, <4>5 DEF Copy
    <3> QED
      BY <3>4, <3>5
  <2> QED
    BY <2>1, <2>2
<1>5. tool' \in [Tools -> Session]
  <2>1. PICK f : f = tool' /\ DOMAIN f = Tools /\ f = [u \in Tools |-> f[u]]
    BY DEF Write
  <2> QED
    BY <2>1, <1>4
<1>6. revoked' \subseteq Accounts
  BY <1>1 DEF Write, RevokedBy, Session
<1>7. RevokedNotEnabled'
  <2>1. EnabledIn(saved'.users) \cap revoked' = {}
    BY SaveKeepsRevoked DEF Write
  <2> QED
    BY <2>1 DEF RevokedNotEnabled
<1>8. TypeOK'
  BY <1>1, <1>2, <1>5, <1>6 DEF TypeOK, Write
<1>9. FileState' /\ UniqueIn(saved.users)'
  BY <1>2 DEF FileState
<1>10. (\A u \in Tools : Copy(tool[u], saved))'
  BY <1>4
<1> QED
  BY <1>7, <1>8, <1>9, <1>10 DEF IInv

\* Steps keep the invariant.
LEMMA IInvStep == IInv /\ [Next]_vars => IInv'
<1> SUFFICES ASSUME IInv, [Next]_vars PROVE IInv'
  OBVIOUS
<1>1. CASE UNCHANGED vars
  BY <1>1 DEF vars, IInv, TypeOK, FileState, RevokedNotEnabled
<1>2. ASSUME NEW t \in Tools, Choose(t) \/ Edit(t) \/ saveConfig(t) \/ Interrupt(t)
      PROVE  IInv'
  BY <1>2, ChooseStep, EditStep, TruncateStep, WriteStep, BackStep DEF saveConfig
<1> QED
  BY <1>1, <1>2 DEF Next

-----------------------------------------------------------------------------
(***************************************************************************)
(* The theorems.                                                           *)
(***************************************************************************)
\* The inductive invariant of the users file and its sessions.
LEMMA Invariance == Spec => []IInv
BY IInvInit, IInvStep, PTL DEF Spec

\* The file and the sessions' copies of it keep their types, whatever the sessions
\* of manage-users.go do to them.
THEOREM TypeCorrect == Spec => []TypeOK
<1>1. IInv => TypeOK
  BY DEF IInv
<1> QED
  BY <1>1, Invariance, PTL

\* No two entries of the users file have the same name up to case, with any number
\* of sessions of manage-users.go, although addUser compares with its copy only.
THEOREM NamesUniqueHolds == Spec => []NamesUnique
<1>1. IInv => NamesUnique
  BY FreshUsers DEF IInv, FileState, NamesUnique
<1> QED
  BY <1>1, Invariance, PTL

\* A user that was removed or disabled is not among those LoadFromFile lets in,
\* whatever saves fail, until a session that loaded the file before saves it.
THEOREM RevokedNotServedHolds == Spec => []RevokedNotServed
<1>1. IInv => RevokedNotServed
  BY DEF IInv, FileState, RevokedNotEnabled, RevokedNotServed, ServedIfStarted, LoadFromFile
<1> QED
  BY <1>1, Invariance, PTL

\* A complete save of saveConfig replaces the whole file, and still changes nothing
\* but the user its operation was about and what others saved since its loadConfig;
\* one that began with no usable file leaves nobody but that user.
THEOREM SaveTouchesOnlyChosenHolds == Spec => SaveTouchesOnlyChosen
<1>1. ASSUME IInv, NEW t \in Tools, Write(t)
      PROVE  IF tool[t].blank
             THEN AccountsIn(content'.users) \subseteq tool[t].chosen
             ELSE Differ(saved, content') \subseteq Reach(t)
  <2>1. Copy(tool[t], saved) /\ tool[t].pc = "write" /\ content' = tool[t].cfg
    BY <1>1 DEF IInv, Write
  <2> QED
    BY <2>1 DEF Copy, CopyBlank, CopyCurrent, Reach
<1>2. IInv /\ [Next]_vars =>
        [\A t \in Tools :
           Write(t) => IF tool[t].blank
                       THEN AccountsIn(content'.users) \subseteq tool[t].chosen
                       ELSE Differ(saved, content') \subseteq Reach(t)]_vars
  BY <1>1
<1> QED
  BY <1>2, Invariance, PTL DEF Spec, SaveTouchesOnlyChosen

=============================================================================
