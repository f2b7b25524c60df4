------------------------------ MODULE UsersFile ------------------------------
(***************************************************************************)
(* The users file and who reads and writes it: the sessions of the user    *)
(* management tool (scripts/manage-users.go), several of which may run at  *)
(* once, and a private-mode proxy, which loads the file when it starts     *)
(* (LoadFromFile) and exits if it cannot.                                  *)
(*                                                                         *)
(* Each choice in the tool's menu is one cycle: loadConfig, then the       *)
(* prompts of the chosen operation, then saveConfig of the whole file,     *)
(* also if the operation was cancelled.  A session that has been left is   *)
(* not told apart from one at its menu: neither holds anything.  The       *)
(* fields of a user other than Username and Enabled are one value.         *)
(***************************************************************************)
EXTENDS Integers, Sequences, SequencesExt

CONSTANTS
  Tools,      \* sessions of the tool
  Names,      \* usernames operators type
  Accounts,   \* lower-cased usernames
  Fold,       \* strings.ToLower; EqualFold compares its results
  Revisions,  \* values of a user's other fields
  Original,   \* the users in the file at the start
  MaxUsers,   \* bound: users in the file
  MaxCycles   \* bound: cycles of all sessions together

ASSUME UsersAssumption ==
  /\ Fold \in [Names -> Accounts]
  /\ MaxUsers \in Nat
  /\ MaxCycles \in Nat
  /\ Original \in Seq([name : Names, enabled : BOOLEAN, rev : Revisions])
  /\ \A i, j \in 1..Len(Original) :
       Fold[Original[i].name] = Fold[Original[j].name] => i = j

VARIABLES
  readable,   \* the file exists and is JSON
  content,    \* what it holds; Fresh, nothing, if it is not readable
  tool,       \* the sessions of the tool
  cycles,     \* cycles begun so far
  revoked,    \* history: accounts removed or disabled and not let in again since
  saved       \* history: what the last complete save has written

vars == <<readable, content, tool, cycles, revoked, saved>>

User == [name : Names, enabled : BOOLEAN, rev : Revisions]

\* UsersConfig; lists says that IPWhitelist and SuperAdminIPs are still there.
Config == [users : Seq(User), lists : BOOLEAN]

\* What a session starts with if there is no usable file.
Fresh == [users |-> <<>>, lists |-> FALSE]

\* A session at its menu.
AtMenu == [pc |-> "menu", cfg |-> Fresh, chosen |-> {}, blank |-> FALSE, missed |-> {}]

\* In a cycle chosen holds the account the operation is about.  blank and missed are
\* history: loadConfig found no usable file; what others' saves have changed since.
Session ==
  [pc : {"menu", "edit", "save", "write"}, cfg : Config,
   chosen : SUBSET Accounts, blank : BOOLEAN, missed : SUBSET (Accounts \cup {"lists"})]

AccountsIn(users) == {Fold[users[i].name] : i \in DOMAIN users}

EntryOf(users, a) == {users[i] : i \in {j \in DOMAIN users : Fold[users[j].name] = a}}

\* The accounts whose entries differ in two files, and "lists" if their lists do.
Differ(c, d) ==
  {a \in Accounts : EntryOf(c.users, a) # EntryOf(d.users, a)}
    \cup {l \in {"lists"} : c.lists # d.lists}

EnabledIn(users) == {Fold[users[i].name] : i \in {j \in DOMAIN users : users[j].enabled}}

Init ==
  /\ readable = TRUE
  /\ content = [users |-> Original, lists |-> TRUE]
  /\ saved = content
  /\ tool = [t \in Tools |-> AtMenu]
  /\ cycles = 0
  /\ revoked = {}

-----------------------------------------------------------------------------
(***************************************************************************)
(* The tool.                                                               *)
(***************************************************************************)
\* A file that cannot be read or parsed is "starting fresh".
loadConfig == IF readable THEN content ELSE Fresh

\* An operator chooses to add, remove, toggle or update a user (which of the four
\* matters only from the edit on), or to save and exit.  To list the users, to
\* hash a password, to mistype or to exit without saving changes nothing.
Choose(t) ==
  /\ tool[t].pc = "menu"
  /\ cycles < MaxCycles
  /\ cycles' = cycles + 1
  /\ \E next \in {"edit", "save"} :
       tool' = [tool EXCEPT ![t] =
         [AtMenu EXCEPT !.pc = next, !.cfg = loadConfig, !.blank = ~readable]]
  /\ UNCHANGED <<readable, content, revoked, saved>>

\* The operation has left users in memory and was about accounts.
Edited(t, users, accounts) ==
  /\ tool[t].pc = "edit"
  /\ tool' = [tool EXCEPT ![t].pc = "save", ![t].cfg.users = users, ![t].chosen = accounts]
  /\ UNCHANGED <<readable, content, cycles, revoked, saved>>

\* Variant of addUser: names are compared as they are spelled.
AddUserExact(t, name) ==
  LET users == tool[t].cfg.users IN
    /\ Len(users) < MaxUsers
    /\ \A i \in DOMAIN users : users[i].name # name
    /\ \E rev \in Revisions :
         Edited(t, Append(users, [name |-> name, enabled |-> TRUE, rev |-> rev]), {Fold[name]})

\* A new name; an existing one, an empty name or an empty password is Cancelled.
addUser(t, name) ==
  LET users == tool[t].cfg.users IN
    /\ Len(users) < MaxUsers
    /\ Fold[name] \notin AccountsIn(users)
    /\ \E rev \in Revisions :
         Edited(t, Append(users, [name |-> name, enabled |-> TRUE, rev |-> rev]), {Fold[name]})

\* Variant of removeUser: the number is not reduced by one.
RemoveNext(t, i) ==
  LET users == tool[t].cfg.users IN
    /\ i \in DOMAIN users
    /\ Edited(t, IF i < Len(users) THEN RemoveAt(users, i + 1) ELSE users,
              {Fold[users[i].name]})

removeUser(t, i) ==
  LET users == tool[t].cfg.users IN
    /\ i \in DOMAIN users
    /\ Edited(t, RemoveAt(users, i), {Fold[users[i].name]})

toggleUser(t, i) ==
  LET users == tool[t].cfg.users IN
    /\ i \in DOMAIN users
    /\ Edited(t, [users EXCEPT ![i].enabled = ~@], {Fold[users[i].name]})

updateUser(t, i) ==
  LET users == tool[t].cfg.users IN
    /\ i \in DOMAIN users
    /\ \E rev \in Revisions :
         Edited(t, [users EXCEPT ![i].rev = rev], {Fold[users[i].name]})

\* The operation returns early: "cancel", a bad number, no users, no name.
Cancelled(t) == Edited(t, tool[t].cfg.users, {})

\* saveConfig: os.WriteFile opens the file and cuts it to nothing ...
Truncate(t) ==
  /\ tool[t].pc = "save"
  /\ readable' = FALSE
  /\ content' = Fresh
  /\ tool' = [tool EXCEPT ![t].pc = "write"]
  /\ UNCHANGED <<cycles, revoked, saved>>

\* ... or cannot open it, which is only printed.
OpenFails(t) ==
  /\ tool[t].pc = "save"
  /\ tool' = [tool EXCEPT ![t] = AtMenu]
  /\ UNCHANGED <<readable, content, cycles, revoked, saved>>

\* Accounts whose entry t's operation has removed or disabled.
RevokedBy(t) == tool[t].chosen \ EnabledIn(tool[t].cfg.users)

\* What t's save may change: the user it is about and, as its copy may be older,
\* what others have saved since it was made.
Reach(t) == tool[t].chosen \cup tool[t].missed

\* Another session in the middle of a cycle misses what t's save changes.
Misses(s, changed) == IF s.pc = "menu" THEN s ELSE [s EXCEPT !.missed = @ \cup changed]

\* The file is written.
Write(t) ==
  /\ tool[t].pc = "write"
  /\ readable' = TRUE
  /\ content' = tool[t].cfg
  /\ saved' = tool[t].cfg
  /\ tool' = [u \in Tools |-> IF u = t THEN AtMenu
                              ELSE Misses(tool[u], Differ(saved, tool[t].cfg))]
  /\ revoked' = (revoked \ Reach(t)) \cup RevokedBy(t)
  /\ UNCHANGED cycles

\* The write is cut short by a full disk, or mixed with that of another session
\* that had the file open at the same time: what is left is no JSON.
WriteTorn(t) ==
  /\ tool[t].pc = "write"
  /\ readable' = FALSE
  /\ content' = Fresh
  /\ tool' = [tool EXCEPT ![t] = AtMenu]
  /\ UNCHANGED <<cycles, revoked, saved>>

\* The operator interrupts the session, or its terminal goes away.
Interrupt(t) ==
  /\ tool[t].pc # "menu"
  /\ tool' = [tool EXCEPT ![t] = AtMenu]
  /\ UNCHANGED <<readable, content, cycles, revoked, saved>>

-----------------------------------------------------------------------------
(***************************************************************************)
(* The proxy.                                                              *)
(***************************************************************************)
\* Variant of LoadFromFile: Enabled is not looked at.
LoadEveryone == AccountsIn(content.users)

\* The keys of UserStore.users after LoadFromFile of a readable file.
LoadFromFile == EnabledIn(content.users)

\* Whom a proxy started now lets in: nobody, it exits, if it cannot load the file.
ServedIfStarted == IF readable THEN LoadFromFile ELSE {}

-----------------------------------------------------------------------------
saveConfig(t) == Truncate(t) \/ OpenFails(t) \/ Write(t) \/ WriteTorn(t)

Edit(t) ==
  \/ \E name \in Names : addUser(t, name)
  \/ \E i \in 1..MaxUsers : removeUser(t, i) \/ toggleUser(t, i) \/ updateUser(t, i)
  \/ Cancelled(t)

Next ==
  \E t \in Tools : Choose(t) \/ Edit(t) \/ saveConfig(t) \/ Interrupt(t)

Spec == Init /\ [][Next]_vars

-----------------------------------------------------------------------------
TypeOK ==
  /\ readable \in BOOLEAN
  /\ content \in Config
  /\ tool \in [Tools -> Session]
  /\ cycles \in Nat
  /\ revoked \subseteq Accounts
  /\ saved \in Config

UniqueIn(users) ==
  \A i, j \in DOMAIN users : Fold[users[i].name] = Fold[users[j].name] => i = j

\* No two entries of the file have the same name up to case, although addUser only
\* compares with the copy its session has loaded: every save replaces the file as
\* a whole, so entries of two sessions are never merged.
NamesUnique == UniqueIn(content.users)

\* A complete save changes, against the one before, only the user its operation was
\* about and what others have saved since its loadConfig: nobody else appears,
\* disappears or changes, wherever he stands in the file, and the address lists
\* stay.  If loadConfig found no usable file, as after a save that was cut short,
\* everyone but that user is gone.
SaveTouchesOnlyChosen ==
  [][\A t \in Tools :
       Write(t) => IF tool[t].blank
                   THEN AccountsIn(content'.users) \subseteq tool[t].chosen
                   ELSE Differ(saved, content') \subseteq Reach(t)]_vars

\* Whoever was removed or disabled is not let in by a proxy started afterwards,
\* through torn, failed and interrupted saves and through saves of copies that are
\* older than the file, unless it was in the meantime that he was removed or
\* disabled: only then does an old copy bring him back.
RevokedNotServed == ServedIfStarted \cap revoked = {}

=============================================================================
