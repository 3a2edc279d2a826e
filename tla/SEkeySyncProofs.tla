--------------------------- MODULE SEkeySyncProofs ---------------------------
(***************************************************************************)
(* Theorems about what the update files of SEkey bring to the devices, for *)
(* every value of the constants with Exclusive.  SEkeyProofs has the types *)
(* and the numbers of the records that every state satisfies.              *)
(*                                                                         *)
(* Whatever the administrator has told a user takes its device to View, a  *)
(* part of the administrator's tables: SyncAt says so of the device, the   *)
(* files on the share and the records that are still to be written, for    *)
(* every one of the places a device may start from.  The sections follow   *)
(* that path: what one statement teaches, what each call of the            *)
(* administrator sends, what a record that is appended, a lost one and a   *)
(* recovery file leave, and what the steps of a device make of its files.  *)
(* SyncInv has the rest of what is needed: who waits for records, which    *)
(* counters start at 0, that a transaction is a prefix of its file, and    *)
(* that the tables of a device are whole.                                  *)
(***************************************************************************)
EXTENDS SEkeyProofs

-----------------------------------------------------------------------------
(* What a user should know.                                                 *)

\* The users in a view.
Seen(db, u) == {v \in DOMAIN db.users : v = u \/ v \in Peers(db, u)}

\* What is in the view of a user.
LEMMA ViewFields ==
  ASSUME NEW db, NEW u
  PROVE  LET V == View(db, u)
         IN  /\ IsDb(V)
             /\ V.users = Restrict(db.users, Seen(db, u))
             /\ V.groups = Restrict(db.groups, GroupsOf(db, u))
             /\ V.member = {m \in db.member : m[2] \in GroupsOf(db, u)}
             /\ V.keys = Restrict(db.keys, KeysFor(db, u))
BY DEF View, IsDb, Seen, KeysFor

\* A database with these tables is the view.
LEMMA SameView ==
  ASSUME NEW db, NEW u, NEW e, IsDb(e),
         e.users = Restrict(db.users, Seen(db, u)),
         e.groups = Restrict(db.groups, GroupsOf(db, u)),
         e.member = {m \in db.member : m[2] \in GroupsOf(db, u)},
         e.keys = Restrict(db.keys, KeysFor(db, u))
  PROVE  e = View(db, u)
BY DEF View, IsDb, Seen, KeysFor

\* The pairs of a user and a group.
LEMMA Pairs ==
  ASSUME NEW db, AreTables(db)
  PROVE  /\ \A m \in db.member : m = <<m[1], m[2]>> /\ m[1] \in User /\ m[2] \in Group
         /\ \A v, g : <<v, g>>[1] = v /\ <<v, g>>[2] = g
         /\ \A v, g : g \in GroupsOf(db, v) <=> <<v, g>> \in db.member
         /\ \A v, g : v \in MembersOf(db, g) <=> <<v, g>> \in db.member
         /\ \A v, w : v \in Peers(db, w) <=>
              \E g \in GroupsOf(db, w) : <<v, g>> \in db.member
<1>1. \A m \in db.member : m = <<m[1], m[2]>> /\ m[1] \in User /\ m[2] \in Group
  BY DEF AreTables
<1>2. \A v, g : <<v, g>>[1] = v /\ <<v, g>>[2] = g
  OBVIOUS
<1>3. \A v, g : g \in GroupsOf(db, v) <=> <<v, g>> \in db.member
  BY <1>1, <1>2 DEF GroupsOf
<1>4. \A v, g : v \in MembersOf(db, g) <=> <<v, g>> \in db.member
  BY <1>1, <1>2 DEF MembersOf
<1>5. \A v, w : v \in Peers(db, w) <=> \E g \in GroupsOf(db, w) : <<v, g>> \in db.member
  BY <1>4 DEF Peers
<1> QED BY <1>1, <1>2, <1>3, <1>4, <1>5

\* What is in a view of whole tables, and that it is whole itself.
LEMMA ViewTidy ==
  ASSUME NEW db, Tidy(db), NEW u
  PROVE  LET V == View(db, u)
             G == GroupsOf(db, u)
         IN  /\ Tidy(V)
             /\ DOMAIN V.users = Seen(db, u) /\ DOMAIN V.groups = G
             /\ DOMAIN V.keys = KeysFor(db, u)
             /\ \A v, g : <<v, g>> \in V.member <=> <<v, g>> \in db.member /\ g \in G
             /\ \A g \in G : MembersOf(V, g) = MembersOf(db, g) /\ KeysOf(V, g) = KeysOf(db, g)
             /\ GroupsOf(V, u) = G /\ Peers(V, u) = Peers(db, u)
             /\ G \subseteq DOMAIN db.groups /\ Peers(db, u) \subseteq DOMAIN db.users
<1> DEFINE V == View(db, u)
           G == GroupsOf(db, u)
<1>1. /\ IsDb(V) /\ V.users = Restrict(db.users, Seen(db, u)) /\ V.groups = Restrict(db.groups, G)
      /\ V.member = {m \in db.member : m[2] \in G} /\ V.keys = Restrict(db.keys, KeysFor(db, u))
  BY ViewFields
<1>2. AreTables(db) /\ IsDb(db)
  BY DEF Tidy
<1> HIDE DEF V
<1>3. /\ DOMAIN V.users = Seen(db, u) /\ DOMAIN V.groups = G /\ DOMAIN V.keys = KeysFor(db, u)
      /\ \A v \in Seen(db, u) : V.users[v] = db.users[v]
      /\ \A g \in G : V.groups[g] = db.groups[g]
      /\ \A k \in KeysFor(db, u) : V.keys[k] = db.keys[k]
  BY <1>1 DEF Restrict
<1>4. /\ G \subseteq DOMAIN db.groups /\ Peers(db, u) \subseteq DOMAIN db.users
  <2>1. \A g \in G : <<u, g>> \in db.member
    BY <1>2, Pairs
  <2>2. \A v \in Peers(db, u) : \E g : <<v, g>> \in db.member
    BY <1>2, Pairs
  <2>3. \A v, g : <<v, g>> \in db.member => v \in DOMAIN db.users /\ g \in DOMAIN db.groups
    BY <1>2, Pairs DEF Tidy
  <2> HIDE DEF G
  <2> QED BY <2>1, <2>2, <2>3
<1>5. AreTables(V)
  <2>1. IsTable(V.users, User, UserRow)
    <3>1. V.users = [v \in Seen(db, u) |-> db.users[v]]
      BY <1>1 DEF Restrict
    <3>2. Seen(db, u) \subseteq DOMAIN db.users
      BY DEF Seen
    <3> QED BY <1>2, <3>1, <3>2 DEF AreTables, IsTable
  <2>2. IsTable(V.groups, Group, GroupRow)
    <3>1. V.groups = [v \in G |-> db.groups[v]]
      BY <1>1 DEF Restrict
    <3> HIDE DEF G
    <3> QED BY <1>2, <1>4, <3>1 DEF AreTables, IsTable
  <2>3. IsTable(V.keys, Key, KeyRow)
    <3>1. V.keys = [v \in KeysFor(db, u) |-> db.keys[v]]
      BY <1>1 DEF Restrict
    <3>2. KeysFor(db, u) \subseteq DOMAIN db.keys
      BY DEF KeysFor
    <3> QED BY <1>2, <3>1, <3>2 DEF AreTables, IsTable
  <2>4. V.member \subseteq User \X Group
    BY <1>1, <1>2 DEF AreTables
  <2> QED BY <2>1, <2>2, <2>3, <2>4 DEF AreTables
<1>6. \A v, g : <<v, g>> \in V.member <=> <<v, g>> \in db.member /\ g \in G
  BY <1>1
<1>7. \A g \in G : MembersOf(V, g) = MembersOf(db, g)
  <2> TAKE g \in G
  <2>1. \A v : v \in MembersOf(V, g) <=> v \in MembersOf(db, g)
    BY <1>2, <1>5, <1>6, Pairs
  <2> QED BY <2>1
<1>8. \A g \in G : KeysOf(V, g) = KeysOf(db, g)
  <2> TAKE g \in G
  <2>1. \A k : k \in KeysFor(db, u) <=> k \in DOMAIN db.keys /\ db.keys[k].owner \in G
    BY DEF KeysFor
  <2> QED BY <1>3, <2>1 DEF KeysOf
<1>9. GroupsOf(V, u) = G
  <2>1. \A g : g \in GroupsOf(V, u) <=> <<u, g>> \in V.member
    BY <1>5, Pairs
  <2>2. \A g : g \in G <=> <<u, g>> \in db.member
    BY <1>2, Pairs
  <2> HIDE DEF G
  <2>3. \A g : g \in GroupsOf(V, u) <=> g \in G
    BY <1>6, <2>1, <2>2
  <2> QED BY <2>3
<1>10. Peers(V, u) = Peers(db, u)
  <2>1. \A v : v \in Peers(V, u) <=> v \in Peers(db, u)
    BY <1>2, <1>5, <1>6, <1>9, Pairs, SMTT(15)
  <2> QED BY <2>1
<1>11. \A m \in V.member : m[1] \in DOMAIN V.users /\ m[2] \in DOMAIN V.groups
  <2> TAKE m \in V.member
  <2>1. m \in db.member /\ m[2] \in G /\ m = <<m[1], m[2]>>
    BY <1>1, <1>2, Pairs
  <2>2. m[1] \in Peers(db, u)
    BY <1>2, <2>1, Pairs
  <2> QED BY <1>3, <1>4, <2>1, <2>2 DEF Seen
<1>12. \A g \in DOMAIN V.groups : Counted(V, g)
  <2> TAKE g \in DOMAIN V.groups
  <2>1. g \in G /\ g \in DOMAIN db.groups
    BY <1>3, <1>4
  <2>2. Counted(db, g)
    BY <2>1 DEF Tidy
  <2> QED BY <1>3, <1>7, <1>8, <2>1, <2>2 DEF Counted
<1>13. \A k \in DOMAIN V.keys : V.keys[k].owner \in DOMAIN V.groups \cup {Zombie}
  BY <1>3 DEF KeysFor
<1>14. Tidy(V)
  BY <1>1, <1>5, <1>11, <1>12, <1>13 DEF Tidy
<1> QED BY <1>3, <1>4, <1>6, <1>7, <1>8, <1>9, <1>10, <1>14 DEF V

\* A user does not see what happens elsewhere.
LEMMA ViewApart ==
  ASSUME NEW A, NEW B, NEW u,
         GroupsOf(B, u) = GroupsOf(A, u),
         \A v \in User : \A g \in GroupsOf(A, u) : <<v, g>> \in B.member <=> <<v, g>> \in A.member,
         AreTables(A), AreTables(B),
         \A g \in GroupsOf(A, u) : /\ B.groups[g] = A.groups[g] /\ KeysOf(B, g) = KeysOf(A, g)
                                   /\ \A k \in KeysOf(A, g) : B.keys[k] = A.keys[k],
         \A v : v = u \/ v \in Peers(A, u) =>
           /\ v \in DOMAIN B.users <=> v \in DOMAIN A.users
           /\ v \in DOMAIN A.users => B.users[v] = A.users[v]
  PROVE  View(B, u) = View(A, u)
<1> DEFINE V == View(A, u)
           G == GroupsOf(A, u)
<1>0. \A v \in User : \A g \in G : <<v, g>> \in B.member <=> <<v, g>> \in A.member
  OBVIOUS
<1>1. /\ IsDb(V) /\ V.users = Restrict(A.users, Seen(A, u)) /\ V.groups = Restrict(A.groups, G)
      /\ V.member = {m \in A.member : m[2] \in G} /\ V.keys = Restrict(A.keys, KeysFor(A, u))
  BY ViewFields
<1>2. Peers(B, u) = Peers(A, u)
  <2>1. /\ \A v : v \in Peers(A, u) <=> \E g \in G : <<v, g>> \in A.member
        /\ \A v, g : <<v, g>> \in A.member => v \in User
    <3>1. \A v : v \in Peers(A, u) <=> \E g \in GroupsOf(A, u) : <<v, g>> \in A.member
      BY Pairs
    <3>2. \A v, g : <<v, g>> \in A.member => v \in User
      BY DEF AreTables
    <3> QED BY <3>1, <3>2
  <2>2. /\ \A v : v \in Peers(B, u) <=> \E g \in G : <<v, g>> \in B.member
        /\ \A v, g : <<v, g>> \in B.member => v \in User
    <3>1. \A v : v \in Peers(B, u) <=> \E g \in GroupsOf(B, u) : <<v, g>> \in B.member
      BY Pairs
    <3>2. \A v, g : <<v, g>> \in B.member => v \in User
      BY DEF AreTables
    <3> QED BY <3>1, <3>2
  <2> HIDE DEF G
  <2>3. \A v : v \in Peers(B, u) <=> v \in Peers(A, u)
    BY <1>0, <2>1, <2>2
  <2> QED BY <2>3
<1> HIDE DEF V
<1>3. V.groups = Restrict(B.groups, G)
  BY <1>1 DEF Restrict
<1>4. V.users = Restrict(B.users, Seen(B, u))
  <2>1. Seen(B, u) = Seen(A, u) /\ \A v \in Seen(A, u) : B.users[v] = A.users[v]
    BY <1>2 DEF Seen
  <2> QED BY <1>1, <2>1 DEF Restrict
<1>5. V.member = {m \in B.member : m[2] \in G}
  <2>1. \A m \in B.member : m[2] \in G => m \in A.member
    BY Pairs
  <2>2. \A m \in A.member : m[2] \in G => m \in B.member
    BY Pairs
  <2> HIDE DEF G
  <2> QED BY <1>1, <2>1, <2>2
<1>6. V.keys = Restrict(B.keys, KeysFor(B, u))
  <2>1. KeysFor(A, u) = UNION {KeysOf(A, g) : g \in G} /\ KeysFor(B, u) = UNION {KeysOf(B, g) : g \in G}
    BY DEF KeysFor, KeysOf
  <2>2. KeysFor(B, u) = KeysFor(A, u) /\ \A k \in KeysFor(A, u) : B.keys[k] = A.keys[k]
    BY <2>1
  <2> QED BY <1>1, <2>2 DEF Restrict
<1>7. V = View(B, u)
  BY <1>1, <1>3, <1>4, <1>5, <1>6, SameView
<1> QED BY <1>7 DEF V

\* Device d knows what user u should know of the tables B.
Knows(d, B, u) == d.ok /\ d.updkeys /\ d.db = View(B, u) /\ Needed(d.db) \subseteq d.flash

\* Whoever knows B knows C after command c.
Teaches(c, u, B, C) ==
  \A d : IsWork(d) /\ Knows(d, B, u) => Knows(Perform(d, u, c), C, u)

\* Groups, peers and members follow from the membership.
LEMMA SameMembers ==
  ASSUME NEW A, NEW B, A.member = B.member
  PROVE  /\ \A u : GroupsOf(A, u) = GroupsOf(B, u) /\ Peers(A, u) = Peers(B, u)
         /\ \A g : MembersOf(A, g) = MembersOf(B, g)
<1>1. \A u : GroupsOf(A, u) = GroupsOf(B, u)
  BY DEF GroupsOf
<1>2. \A g : MembersOf(A, g) = MembersOf(B, g)
  BY DEF MembersOf
<1> QED BY <1>1, <1>2 DEF Peers

\* A statement that is no INSERT.
LEMMA PerformStatement ==
  ASSUME NEW d, IsWork(d), d.ok, NEW u, NEW s, IsStatement(s), s.do # "insert"
  PROVE  LET e == Perform(d, u, SQL(<<s>>))
         IN  e.db = After(d.db, s) /\ e.ok = TRUE /\ e.flash = d.flash /\ e.updkeys = d.updkeys
<1> DEFINE c == SQL(<<s>>)
           t == <<s>>
<1>1. IsCommand(c)
  BY FewCommands
<1>2. c.type = "SQL_QUERY" /\ c.text = t
  BY DEF SQL
<1>3. Statements(d.db, t) = [db |-> After(d.db, s), ok |-> TRUE]
  <2>1. Statements(d.db, t) = Stepped([db |-> d.db, ok |-> TRUE], s)
    BY StatementsOne
  <2> QED BY <2>1 DEF Stepped, Executes
<1> HIDE DEF c, t
<1>4. Perform(d, u, c) = [db |-> After(d.db, s), cnt |-> d.cnt, flash |-> d.flash,
                          updkeys |-> d.updkeys, ok |-> TRUE]
  BY <1>1, <1>2, <1>3, PerformSQL
<1> QED BY <1>4 DEF c

\* Such a statement teaches what it does to the view.
LEMMA StatementTeaches ==
  ASSUME NEW u, NEW s, IsStatement(s), s.do # "insert", NEW B, NEW C,
         After(View(B, u), s) = View(C, u), Needed(View(C, u)) \subseteq Needed(View(B, u))
  PROVE  Teaches(SQL(<<s>>), u, B, C)
<1> SUFFICES ASSUME NEW d, IsWork(d), Knows(d, B, u)
             PROVE  Knows(Perform(d, u, SQL(<<s>>)), C, u)
  BY DEF Teaches
<1> DEFINE e == Perform(d, u, SQL(<<s>>))
<1>1. d.ok /\ d.updkeys /\ d.db = View(B, u) /\ Needed(d.db) \subseteq d.flash
  BY DEF Knows
<1>2. e.db = After(d.db, s) /\ e.ok = TRUE /\ e.flash = d.flash /\ e.updkeys = d.updkeys
  BY <1>1, PerformStatement
<1> HIDE DEF e
<1>3. Knows(e, C, u)
  BY <1>1, <1>2 DEF Knows
<1> QED BY <1>3 DEF e

\* A user's name.
LEMMA SetUserView ==
  ASSUME NEW B, Tidy(B), NEW w \in DOMAIN B.users, NEW u
  PROVE  LET s == Set("users", w, "username", 1)
             C == After(B, s)
         IN  /\ w \in Seen(B, u) => Teaches(SQL(<<s>>), u, B, C)
             /\ w \notin Seen(B, u) => View(C, u) = View(B, u)
<1> DEFINE s == Set("users", w, "username", 1)
           C == After(B, s)
           V == View(B, u)
           E == After(V, s)
           r == [username |-> 1]
<1>0. IsStatement(s) /\ s.do = "set"
  BY StatementKinds
<1>1. /\ Tidy(C) /\ C.groups = B.groups /\ C.member = B.member /\ C.keys = B.keys
      /\ C.users = [B.users EXCEPT ![w] = r]
  BY TidySetUser
<1>2. Tidy(V) /\ DOMAIN V.users = Seen(B, u)
  BY ViewTidy
<1>3. w \in Seen(B, u) => /\ IsDb(E) /\ E.groups = V.groups /\ E.member = V.member /\ E.keys = V.keys
                          /\ E.users = [V.users EXCEPT ![w] = r]
  <2> HIDE DEF V
  <2> QED BY <1>2, TidySetUser DEF Tidy
<1>4. /\ V.users = Restrict(B.users, Seen(B, u)) /\ V.groups = Restrict(B.groups, GroupsOf(B, u))
      /\ V.member = {m \in B.member : m[2] \in GroupsOf(B, u)} /\ V.keys = Restrict(B.keys, KeysFor(B, u))
  BY ViewFields
<1> HIDE DEF s, C, V, E, r
<1>5. GroupsOf(C, u) = GroupsOf(B, u) /\ Peers(C, u) = Peers(B, u) /\ DOMAIN C.users = DOMAIN B.users
  BY <1>1, SameMembers
<1>6. Seen(C, u) = Seen(B, u) /\ KeysFor(C, u) = KeysFor(B, u)
  BY <1>1, <1>5 DEF Seen, KeysFor
<1>7. ASSUME w \in Seen(B, u)
      PROVE  Teaches(SQL(<<s>>), u, B, C)
  <2>1. E.users = Restrict(C.users, Seen(C, u))
    <3>1. \A v \in Seen(B, u) : v \in DOMAIN B.users
      BY DEF Seen
    <3> QED BY <1>1, <1>3, <1>4, <1>6, <1>7, <3>1 DEF Restrict
  <2>2. E = View(C, u)
    BY <1>1, <1>3, <1>4, <1>5, <1>6, <1>7, <2>1, SameView
  <2>3. Needed(E) = Needed(V)
    BY <1>3, <1>7, SameKeysNeeded
  <2>4. After(View(B, u), s) = View(C, u) /\ Needed(View(C, u)) \subseteq Needed(View(B, u))
    BY <2>2, <2>3 DEF E, V
  <2>5. s.do # "insert"
    BY <1>0
  <2> QED BY <1>0, <2>4, <2>5, StatementTeaches
<1>8. ASSUME w \notin Seen(B, u)
      PROVE  View(C, u) = View(B, u)
  <2>1. \A v : v = u \/ v \in Peers(B, u) =>
          /\ v \in DOMAIN C.users <=> v \in DOMAIN B.users
          /\ v \in DOMAIN B.users => C.users[v] = B.users[v]
    BY <1>1, <1>5, <1>8 DEF Seen
  <2>2. \A g : KeysOf(C, g) = KeysOf(B, g)
    BY <1>1 DEF KeysOf
  <2>3. AreTables(B) /\ AreTables(C)
    BY <1>1 DEF Tidy
  <2>4. \A v \in User : \A h \in GroupsOf(B, u) : <<v, h>> \in C.member <=> <<v, h>> \in B.member
    BY <1>1
  <2> QED BY <1>1, <1>5, <2>1, <2>2, <2>3, <2>4, ViewApart, ZenonT(30)
<1> QED BY <1>7, <1>8 DEF s, C

\* A column of a group.
LEMMA SetGroupView ==
  ASSUME NEW B, Tidy(B), NEW g \in DOMAIN B.groups, NEW c \in GroupColumn, NEW u
  PROVE  LET s == Set("groups", g, c, 1)
             C == After(B, s)
         IN  /\ g \in GroupsOf(B, u) => Teaches(SQL(<<s>>), u, B, C)
             /\ g \notin GroupsOf(B, u) => View(C, u) = View(B, u)
<1> DEFINE s == Set("groups", g, c, 1)
           C == After(B, s)
           V == View(B, u)
           E == After(V, s)
<1>0. IsStatement(s) /\ s.do = "set"
  BY StatementKinds
<1>1. /\ Tidy(C) /\ C.users = B.users /\ C.member = B.member /\ C.keys = B.keys
      /\ C.groups = [B.groups EXCEPT ![g][c] = 1]
  BY TidySetGroup
<1>2. Tidy(V) /\ DOMAIN V.groups = GroupsOf(B, u) /\ GroupsOf(B, u) \subseteq DOMAIN B.groups
  BY ViewTidy
<1>3. ASSUME g \in GroupsOf(B, u)
      PROVE  /\ IsDb(E) /\ E.users = V.users /\ E.member = V.member /\ E.keys = V.keys
             /\ E.groups = [V.groups EXCEPT ![g][c] = 1]
  <2> HIDE DEF V
  <2>1. g \in DOMAIN V.groups
    BY <1>2, <1>3
  <2>2. /\ Tidy(E) /\ E.users = V.users /\ E.member = V.member /\ E.keys = V.keys
        /\ E.groups = [V.groups EXCEPT ![g][c] = 1]
    BY <1>2, <2>1, TidySetGroup
  <2> QED BY <2>2 DEF Tidy
<1>4. /\ V.users = Restrict(B.users, Seen(B, u)) /\ V.groups = Restrict(B.groups, GroupsOf(B, u))
      /\ V.member = {m \in B.member : m[2] \in GroupsOf(B, u)} /\ V.keys = Restrict(B.keys, KeysFor(B, u))
  BY ViewFields
<1> HIDE DEF s, C, V, E
<1>5. GroupsOf(C, u) = GroupsOf(B, u) /\ Peers(C, u) = Peers(B, u)
  BY <1>1, SameMembers
<1>6. Seen(C, u) = Seen(B, u) /\ KeysFor(C, u) = KeysFor(B, u)
  BY <1>1, <1>5 DEF Seen, KeysFor
<1>7. ASSUME g \in GroupsOf(B, u)
      PROVE  Teaches(SQL(<<s>>), u, B, C)
  <2>1. E.groups = Restrict(C.groups, GroupsOf(C, u))
    BY <1>1, <1>2, <1>3, <1>4, <1>5, <1>7 DEF Restrict
  <2>2. E = View(C, u)
    BY <1>1, <1>3, <1>4, <1>5, <1>6, <1>7, <2>1, SameView
  <2>3. Needed(E) = Needed(V)
    BY <1>3, <1>7, SameKeysNeeded
  <2>4. After(View(B, u), s) = View(C, u) /\ Needed(View(C, u)) \subseteq Needed(View(B, u))
    BY <2>2, <2>3 DEF E, V
  <2>5. s.do # "insert"
    BY <1>0
  <2> QED BY <1>0, <2>4, <2>5, StatementTeaches
<1>8. ASSUME g \notin GroupsOf(B, u)
      PROVE  View(C, u) = View(B, u)
  <2>1. \A h \in GroupsOf(B, u) : C.groups[h] = B.groups[h]
    BY <1>1, <1>2, <1>8
  <2>2. \A h : KeysOf(C, h) = KeysOf(B, h)
    BY <1>1 DEF KeysOf
  <2>3. AreTables(B) /\ AreTables(C)
    BY <1>1 DEF Tidy
  <2>4. \A v \in User : \A h \in GroupsOf(B, u) : <<v, h>> \in C.member <=> <<v, h>> \in B.member
    BY <1>1
  <2> QED BY <1>1, <1>5, <2>1, <2>2, <2>3, <2>4, ViewApart, ZenonT(30)
<1> QED BY <1>7, <1>8 DEF s, C

\* A column of a key.
LEMMA SetKeyView ==
  ASSUME NEW B, Tidy(B), NEW k \in DOMAIN B.keys, NEW c, NEW value, NEW u,
         (c = "name" /\ value = 1) \/ (c = "status" /\ value \in Status),
         c = "status" => B.keys[k].status # "destroyed"
  PROVE  LET s == Set("keys", k, c, value)
             C == After(B, s)
         IN  /\ k \in KeysFor(B, u) => Teaches(SQL(<<s>>), u, B, C)
             /\ k \notin KeysFor(B, u) => View(C, u) = View(B, u)
<1> DEFINE s == Set("keys", k, c, value)
           C == After(B, s)
           V == View(B, u)
           E == After(V, s)
<1>0a. (c = "name" /\ value = 1) \/ (c = "status" /\ value \in Status)
  OBVIOUS
<1>0. IsStatement(s) /\ s.do = "set"
  BY StatementKinds
<1>1. /\ Tidy(C) /\ C.users = B.users /\ C.member = B.member /\ C.groups = B.groups
      /\ C.keys = [B.keys EXCEPT ![k][c] = value]
      /\ \A x \in DOMAIN B.keys : C.keys[x].owner = B.keys[x].owner
      /\ C.keys[k].status = IF c = "status" THEN value ELSE B.keys[k].status
  <2>1. KeySet(B, k, c, value, C)
    BY ONLY <1>0a, Tidy(B), k \in DOMAIN B.keys, TidySetKey
  <2> QED BY <2>1 DEF KeySet
<1>2. Tidy(V) /\ DOMAIN V.keys = KeysFor(B, u)
  BY ViewTidy
<1>3. ASSUME k \in KeysFor(B, u)
      PROVE  /\ IsDb(E) /\ E.users = V.users /\ E.member = V.member /\ E.groups = V.groups
             /\ E.keys = [V.keys EXCEPT ![k][c] = value]
             /\ E.keys[k].status = IF c = "status" THEN value ELSE V.keys[k].status
  <2> HIDE DEF V
  <2>1. k \in DOMAIN V.keys
    BY <1>2, <1>3
  <2>2. /\ Tidy(E) /\ E.users = V.users /\ E.member = V.member /\ E.groups = V.groups
        /\ E.keys = [V.keys EXCEPT ![k][c] = value]
        /\ E.keys[k].status = IF c = "status" THEN value ELSE V.keys[k].status
    <3>1. KeySet(V, k, c, value, E)
      BY ONLY <1>2, <1>0a, <2>1, TidySetKey
    <3> HIDE DEF E
    <3> QED BY <3>1 DEF KeySet
  <2> QED BY <2>2 DEF Tidy
<1>4. /\ V.users = Restrict(B.users, Seen(B, u)) /\ V.groups = Restrict(B.groups, GroupsOf(B, u))
      /\ V.member = {m \in B.member : m[2] \in GroupsOf(B, u)} /\ V.keys = Restrict(B.keys, KeysFor(B, u))
  BY ViewFields
<1> HIDE DEF s, C, V, E
<1>5. GroupsOf(C, u) = GroupsOf(B, u) /\ Peers(C, u) = Peers(B, u) /\ DOMAIN C.keys = DOMAIN B.keys
  BY <1>1, SameMembers
<1>6. Seen(C, u) = Seen(B, u) /\ KeysFor(C, u) = KeysFor(B, u) /\ KeysFor(B, u) \subseteq DOMAIN B.keys
  BY <1>1, <1>5 DEF Seen, KeysFor
<1>7. ASSUME k \in KeysFor(B, u)
      PROVE  Teaches(SQL(<<s>>), u, B, C)
  <2>1. E.keys = Restrict(C.keys, KeysFor(C, u))
    BY <1>1, <1>3, <1>4, <1>6, <1>7 DEF Restrict
  <2>2. E = View(C, u)
    BY <1>1, <1>3, <1>4, <1>5, <1>6, <1>7, <2>1, SameView
  <2>3. Needed(E) \subseteq Needed(V)
    <3>1. DOMAIN E.keys = DOMAIN V.keys /\ \A x \in DOMAIN V.keys : x # k => E.keys[x] = V.keys[x]
      BY <1>3, <1>7
    <3>2. k \in Needed(E) => k \in Needed(V)
      <4>1. V.keys[k] = B.keys[k] /\ k \in DOMAIN V.keys
        BY <1>2, <1>4, <1>7 DEF Restrict
      <4> QED BY <1>3, <1>7, <4>1 DEF Needed
    <3> QED BY <3>1, <3>2 DEF Needed
  <2>4. After(View(B, u), s) = View(C, u) /\ Needed(View(C, u)) \subseteq Needed(View(B, u))
    BY <2>2, <2>3 DEF E, V
  <2>5. s.do # "insert"
    BY <1>0
  <2> QED BY <1>0, <2>4, <2>5, StatementTeaches
<1>8. ASSUME k \notin KeysFor(B, u)
      PROVE  View(C, u) = View(B, u)
  <2>1. \A h : KeysOf(C, h) = KeysOf(B, h)
    BY <1>1, <1>5 DEF KeysOf
  <2>2. \A h \in GroupsOf(B, u) : \A x \in KeysOf(B, h) : C.keys[x] = B.keys[x]
    BY <1>1, <1>8 DEF KeysFor, KeysOf
  <2>3. AreTables(B) /\ AreTables(C)
    BY <1>1 DEF Tidy
  <2>4. \A v \in User : \A h \in GroupsOf(B, u) : <<v, h>> \in C.member <=> <<v, h>> \in B.member
    BY <1>1
  <2>5. \A h \in GroupsOf(B, u) : /\ C.groups[h] = B.groups[h] /\ KeysOf(C, h) = KeysOf(B, h)
                                  /\ \A x \in KeysOf(B, h) : C.keys[x] = B.keys[x]
    BY <1>1, <2>1, <2>2
  <2>6. \A v : v = u \/ v \in Peers(B, u) =>
          /\ v \in DOMAIN C.users <=> v \in DOMAIN B.users
          /\ v \in DOMAIN B.users => C.users[v] = B.users[v]
    BY <1>1
  <2>7. GroupsOf(C, u) = GroupsOf(B, u)
    BY <1>5
  <2> QED BY ONLY <2>3, <2>4, <2>5, <2>6, <2>7, ViewApart
<1> QED BY <1>7, <1>8 DEF s, C

\* The users that stay in tables with the users of db and the members of e.
Staying(db, e, u) == {v \in DOMAIN db.users : v = u \/ GroupsOf(e, v) # {}}

\* A device keeps the users that share a group with its own.
LEMMA KnownIs ==
  ASSUME NEW db, NEW e, NEW f, NEW u, e.users = db.users, f.member = e.member,
         f.users = Restrict(e.users, Known(e, u))
  PROVE  f.users = Restrict(db.users, Staying(db, f, u))
<1>1. \A v : GroupsOf(f, v) = GroupsOf(e, v)
  BY SameMembers
<1>2. Known(e, u) = Staying(db, f, u)
  BY <1>1 DEF Known, Staying
<1> QED BY <1>2

\* The user leaves a group.
LEMMA LeaveFields ==
  ASSUME NEW db, IsDb(db), NEW u, NEW g
  PROVE  LET e == LeftAlone(db, u, u, g)
         IN  /\ IsDb(e) /\ e.groups = Drop(db.groups, {g})
             /\ e.member = {m \in db.member : m[2] \in DOMAIN e.groups}
             /\ e.keys = Restrict(db.keys, {k \in DOMAIN db.keys : db.keys[k].owner \in DOMAIN e.groups})
             /\ e.users = Restrict(db.users, Staying(db, e, u))
<1> DEFINE groups == Drop(db.groups, {g})
           ms == {m \in db.member : m[2] \in DOMAIN groups}
           ks == [k \in {x \in DOMAIN db.keys : db.keys[x].owner \in DOMAIN groups} |-> db.keys[k]]
           left == [db EXCEPT !.groups = groups,
                         !.member = {m \in @ : m[2] \in DOMAIN groups},
                         !.keys = [k \in {x \in DOMAIN @ : @[x].owner \in DOMAIN groups} |-> @[k]]]
           e == [left EXCEPT !.users = Restrict(@, Known(left, u))]
<1>1. LeftAlone(db, u, u, g) = e
  BY DEF LeftAlone, usr_delete_user_from_group, usr_leave_group
<1>3. IsDb(left) /\ left.users = db.users /\ left.groups = groups /\ left.member = ms /\ left.keys = ks
  <2> DEFINE C == [db EXCEPT !.groups = groups]
             D == [C EXCEPT !.member = {m \in @ : m[2] \in DOMAIN groups}]
             L == [D EXCEPT !.keys = [k \in {x \in DOMAIN @ : @[x].owner \in DOMAIN groups} |-> @[k]]]
  <2>1. left = L
    OBVIOUS
  <2> HIDE DEF left, groups
  <2>3. IsDb(C) /\ C.users = db.users /\ C.groups = groups /\ C.member = db.member /\ C.keys = db.keys
    BY DbWith
  <2> HIDE DEF C
  <2>4. D = [C EXCEPT !.member = ms]
    BY <2>3
  <2> HIDE DEF ms, D
  <2>6. IsDb(D) /\ D.users = db.users /\ D.groups = groups /\ D.member = ms /\ D.keys = db.keys
    BY <2>3, <2>4, DbWith
  <2>7. L = [D EXCEPT !.keys = ks]
    BY <2>6
  <2> HIDE DEF ks, L
  <2>8. IsDb(L) /\ L.users = db.users /\ L.groups = groups /\ L.member = ms /\ L.keys = ks
    BY <2>6, <2>7, DbWith
  <2> QED BY <2>1, <2>8
<1> HIDE DEF left, groups, ms, ks
<1>4. /\ IsDb(e) /\ e.groups = left.groups /\ e.member = left.member /\ e.keys = left.keys
      /\ e.users = Restrict(db.users, Staying(db, e, u))
  <2> DEFINE x == Restrict(left.users, Known(left, u))
  <2>1. e = [left EXCEPT !.users = x]
    OBVIOUS
  <2>2. IsDb(left) /\ left.users = db.users
    BY <1>3
  <2> HIDE DEF e, x
  <2>3. IsDb(e) /\ e.users = x /\ e.groups = left.groups /\ e.member = left.member /\ e.keys = left.keys
    BY <2>1, <2>2, DbWith
  <2>4. e.users = Restrict(left.users, Known(left, u))
    BY <2>3 DEF x
  <2>5. e.users = Restrict(db.users, Staying(db, e, u))
    BY <2>2, <2>3, <2>4, KnownIs
  <2> QED BY <2>3, <2>5
<1> HIDE DEF e
<1>5. ks = Restrict(db.keys, {k \in DOMAIN db.keys : db.keys[k].owner \in DOMAIN groups})
  BY DEF ks, Restrict
<1> QED BY <1>1, <1>3, <1>4, <1>5 DEF groups, ms

GroupGone(db, u, g, e) ==
  /\ IsDb(e) /\ e.groups = Drop(db.groups, {g})
  /\ e.member = {m \in db.member : m[2] # g}
  /\ e.keys = Drop(db.keys, KeysOf(db, g))
  /\ e.users = Restrict(db.users, Staying(db, e, u))

\* What is left when a whole group is deleted on a device.
LEMMA NoGroupFields ==
  ASSUME NEW db, IsDb(db), NEW u, NEW g
  PROVE  GroupGone(db, u, g, NoGroup(db, u, g))
<1> DEFINE gs == Drop(db.groups, {g})
           ms == {m \in db.member : m[2] # g}
           ks == Drop(db.keys, KeysOf(db, g))
           left == [db EXCEPT !.groups = Drop(@, {g}), !.member = {m \in @ : m[2] # g},
                              !.keys = Drop(@, KeysOf(db, g))]
           e == [left EXCEPT !.users = Restrict(@, Known(left, u))]
<1>1. NoGroup(db, u, g) = e
  BY DEF NoGroup, usr_delete_group
<1>3. IsDb(left) /\ left.users = db.users /\ left.groups = gs /\ left.member = ms /\ left.keys = ks
  <2> DEFINE C == [db EXCEPT !.groups = gs]
             D == [C EXCEPT !.member = {m \in @ : m[2] # g}]
             L == [D EXCEPT !.keys = Drop(@, KeysOf(db, g))]
  <2>1. left = L
    OBVIOUS
  <2> HIDE DEF left, gs
  <2>3. IsDb(C) /\ C.users = db.users /\ C.groups = gs /\ C.member = db.member /\ C.keys = db.keys
    BY DbWith
  <2> HIDE DEF C
  <2>4. D = [C EXCEPT !.member = ms]
    BY <2>3
  <2> HIDE DEF ms, D
  <2>6. IsDb(D) /\ D.users = db.users /\ D.groups = gs /\ D.member = ms /\ D.keys = db.keys
    BY <2>3, <2>4, DbWith
  <2>7. L = [D EXCEPT !.keys = ks]
    BY <2>6
  <2> HIDE DEF ks, L
  <2>8. IsDb(L) /\ L.users = db.users /\ L.groups = gs /\ L.member = ms /\ L.keys = ks
    BY <2>6, <2>7, DbWith
  <2> QED BY <2>1, <2>8
<1> HIDE DEF left, gs, ms, ks
<1>4. /\ IsDb(e) /\ e.groups = left.groups /\ e.member = left.member /\ e.keys = left.keys
      /\ e.users = Restrict(db.users, Staying(db, e, u))
  <2> DEFINE x == Restrict(left.users, Known(left, u))
  <2>1. e = [left EXCEPT !.users = x]
    OBVIOUS
  <2>2. IsDb(left) /\ left.users = db.users
    BY <1>3
  <2> HIDE DEF e, x
  <2>3. IsDb(e) /\ e.users = x /\ e.groups = left.groups /\ e.member = left.member /\ e.keys = left.keys
    BY <2>1, <2>2, DbWith
  <2>4. e.users = Restrict(left.users, Known(left, u))
    BY <2>3 DEF x
  <2>5. e.users = Restrict(db.users, Staying(db, e, u))
    BY <2>2, <2>3, <2>4, KnownIs
  <2> QED BY <2>3, <2>5
<1> HIDE DEF e
<1>5. GroupGone(db, u, g, e)
  BY <1>3, <1>4 DEF gs, ms, ks, GroupGone
<1> QED BY <1>1, <1>5

\* Another user leaves a group.
LEMMA LeftFields ==
  ASSUME NEW db, Tidy(db), NEW u, NEW w, w # u, NEW g \in DOMAIN db.groups, <<w, g>> \in db.member
  PROVE  LET e == LeftAlone(db, u, w, g)
         IN  /\ IsDb(e) /\ e.groups = Moved(db.groups, g, "users_counter", -1)
             /\ e.member = db.member \ {<<w, g>>} /\ e.keys = db.keys
             /\ e.users = Restrict(db.users, Staying(db, e, u))
<1> DEFINE p == {<<w, g>>}
           out == [db EXCEPT !.member = @ \ p]
           t == Moved(db.groups, g, "users_counter", -1)
           left == After(out, Count("users_counter", g, -1))
           e == [left EXCEPT !.users = Restrict(@, Known(left, u))]
<1>0. IsDb(db)
  BY DEF Tidy
<1>1. LeftAlone(db, u, w, g) = e
  BY DEF LeftAlone, usr_delete_user_from_group
<1>2. IsDb(out) /\ out.users = db.users /\ out.groups = db.groups /\ out.member = db.member \ p
      /\ out.keys = db.keys
  <2> DEFINE ms == db.member \ p
  <2>1. out = [db EXCEPT !.member = ms]
    OBVIOUS
  <2> HIDE DEF ms, out, p
  <2>2. out = [users |-> db.users, groups |-> db.groups, member |-> ms, keys |-> db.keys]
    BY <1>0, <2>1, DbExcept
  <2>3. /\ IsDb(out) /\ out.users = db.users /\ out.groups = db.groups /\ out.member = ms
        /\ out.keys = db.keys
    BY <2>2, DbFields
  <2> QED BY <2>3 DEF ms
<1> HIDE DEF out
<1>3. left = [out EXCEPT !.groups = t]
  <2> DEFINE s == Count("users_counter", g, -1)
             f == "users_counter"
             n == -1
  <2>1. s.do = "count" /\ s.group = g /\ s.column = f /\ s.step = n
    BY DEF Count
  <2>2. g \in DOMAIN out.groups
    BY <1>2
  <2>3. left = After(out, s)
    OBVIOUS
  <2>4. t = [db.groups EXCEPT ![g][f] = @ + n]
    BY DEF Moved
  <2> HIDE DEF s, f, n, left, t
  <2>5. left = [out EXCEPT !.groups[g][f] = @ + n]
    BY <2>1, <2>2, <2>3 DEF After
  <2>6. [out EXCEPT !.groups[g][f] = @ + n] = [out EXCEPT !.groups = [out.groups EXCEPT ![g][f] = @ + n]]
    BY <1>2 DEF IsDb
  <2> QED BY <1>2, <2>4, <2>5, <2>6
<1> HIDE DEF left, t
<1>4. left = [users |-> db.users, groups |-> t, member |-> db.member \ p, keys |-> db.keys]
  BY <1>2, <1>3, DbExcept, ZenonT(30)
<1>5. /\ IsDb(left) /\ left.users = db.users /\ left.groups = t /\ left.member = db.member \ p
      /\ left.keys = db.keys
  BY <1>4, DbFields
<1>6. /\ IsDb(e) /\ e.groups = left.groups /\ e.member = left.member /\ e.keys = left.keys
      /\ e.users = Restrict(db.users, Staying(db, e, u))
  <2> DEFINE x == Restrict(left.users, Known(left, u))
  <2>1. e = [left EXCEPT !.users = x]
    OBVIOUS
  <2>2. IsDb(left) /\ left.users = db.users
    BY <1>5
  <2> HIDE DEF e, x
  <2>3. IsDb(e) /\ e.users = x /\ e.groups = left.groups /\ e.member = left.member /\ e.keys = left.keys
    BY <2>1, <2>2, DbWith
  <2>4. e.users = Restrict(left.users, Known(left, u))
    BY <2>3 DEF x
  <2>5. e.users = Restrict(db.users, Staying(db, e, u))
    BY <2>2, <2>3, <2>4, KnownIs
  <2> QED BY <2>3, <2>5
<1> HIDE DEF e
<1> QED BY <1>1, <1>5, <1>6 DEF t, p

\* Deleting another user is the same on a device as for the administrator.
LEMMA NoUserIs ==
  ASSUME NEW db, Tidy(db), NEW u, NEW w, w # u
  PROVE  NoUser(db, u, w) = LessUser(db, w)
<1> DEFINE c == [g \in DOMAIN db.groups |->
                   IF g \in GroupsOf(db, w)
                     THEN [db.groups[g] EXCEPT !.users_counter = @ - 1] ELSE db.groups[g]]
           t == [g \in DOMAIN db.groups |->
                   IF <<w, g>> \in db.member
                     THEN [db.groups[g] EXCEPT !.users_counter = @ - 1] ELSE db.groups[g]]
<1>1. c = t
  <2>1. \A g : g \in GroupsOf(db, w) <=> <<w, g>> \in db.member
    BY Pairs DEF Tidy
  <2> QED BY <2>1
<1>2. NoUser(db, u, w) = [db EXCEPT !.groups = c, !.member = {m \in @ : m[1] # w}, !.users = Drop(@, {w})]
  BY DEF NoUser, usr_delete_user
<1>3. LessUser(db, w) = [db EXCEPT !.groups = t, !.users = Drop(@, {w}), !.member = {m \in @ : m[1] # w}]
  BY DEF LessUser
<1>4. IsDb(db)
  BY DEF Tidy
<1> HIDE DEF c, t
<1> QED BY <1>1, <1>2, <1>3, <1>4 DEF IsDb

LEMMA RestrictTwice ==
  ASSUME NEW f, NEW S, NEW T, T \subseteq S
  PROVE  Restrict(Restrict(f, S), T) = Restrict(f, T)
BY DEF Restrict

\* The users that stay are those that share a group that stays.
LEMMA StayingSeen ==
  ASSUME NEW B, Tidy(B), NEW u, NEW C, Tidy(C), C.users = B.users, C.member \subseteq B.member,
         NEW e, e.member = {m \in C.member : m[2] \in GroupsOf(C, u)}
  PROVE  Restrict(View(B, u).users, Staying(View(B, u), e, u)) = Restrict(C.users, Seen(C, u))
<1> DEFINE V == View(B, u)
<1>1. DOMAIN V.users = Seen(B, u) /\ V.users = Restrict(B.users, Seen(B, u))
  BY ViewTidy, ViewFields
<1> HIDE DEF V
<1>2. \A v, h : /\ <<v, h>> \in C.member => <<v, h>> \in B.member
                /\ <<v, h>> \in e.member <=> <<v, h>> \in C.member /\ h \in GroupsOf(C, u)
  OBVIOUS
<1>3. \A h \in GroupsOf(C, u) : h \in GroupsOf(B, u)
  BY <1>2, Pairs DEF Tidy
<1>4. \A v : v \in Peers(C, u) => v \in Peers(B, u)
  BY <1>2, <1>3, Pairs, SMTT(15) DEF Tidy
<1>5. \A v : GroupsOf(e, v) # {} <=> v \in Peers(C, u)
  <2> TAKE v
  <2>1. GroupsOf(e, v) # {} <=> \E h \in Group : <<v, h>> \in e.member
    BY DEF GroupsOf
  <2>2. \A h \in GroupsOf(C, u) : h \in Group
    BY DEF GroupsOf
  <2> QED BY <1>2, <2>1, <2>2, Pairs DEF Tidy
<1>6. Staying(V, e, u) = Seen(C, u)
  BY <1>1, <1>4, <1>5 DEF Staying, Seen
<1>7. Seen(C, u) \subseteq Seen(B, u)
  BY <1>4 DEF Seen
<1>8. Restrict(V.users, Staying(V, e, u)) = Restrict(C.users, Seen(C, u))
  BY <1>1, <1>6, <1>7 DEF Restrict
<1> QED BY <1>8 DEF V

\* DelFromGroup teaches what its effect on the view is.
LEMMA DelFromGroupTeaches ==
  ASSUME NEW u, NEW w, NEW g, NEW B, NEW C,
         LeftAlone(View(B, u), u, w, g) = View(C, u),
         Needed(View(C, u)) \subseteq Needed(View(B, u)),
         w = u => Needed(View(C, u)) \cap KeysOf(View(B, u), g) = {}
  PROVE  Teaches(DelFromGroup(w, g), u, B, C)
<1> SUFFICES ASSUME NEW d, IsWork(d), Knows(d, B, u)
             PROVE  Knows(Perform(d, u, DelFromGroup(w, g)), C, u)
  BY DEF Teaches
<1> DEFINE c == DelFromGroup(w, g)
           e == Perform(d, u, c)
<1>1. d.ok /\ d.updkeys /\ d.db = View(B, u) /\ Needed(d.db) \subseteq d.flash
  BY DEF Knows
<1>2. c.type = "DELETE_USER_FROM_GROUP" /\ c.user = w /\ c.group = g
  BY DEF DelFromGroup
<1> HIDE DEF c, e
<1>3. e = [db |-> LeftAlone(d.db, u, w, g), cnt |-> d.cnt, updkeys |-> d.updkeys, ok |-> d.ok,
           flash |-> IF w = u THEN d.flash \ KeysOf(d.db, g) ELSE d.flash]
  BY <1>2, PerformDelFromGroup DEF e
<1>4. /\ e.ok /\ e.updkeys /\ e.db = View(C, u)
      /\ e.flash = IF w = u THEN d.flash \ KeysOf(View(B, u), g) ELSE d.flash
  BY <1>1, <1>3
<1>5. Needed(e.db) \subseteq e.flash
  BY <1>1, <1>4
<1> QED BY <1>4, <1>5 DEF Knows, e, c

\* A user leaves a group.
LEMMA LeaveView ==
  ASSUME NEW B, Tidy(B), NEW u, NEW w, NEW g \in DOMAIN B.groups, <<w, g>> \in B.member,
         NEW C, Tidy(C), C.users = B.users, C.member = B.member \ {<<w, g>>}, C.keys = B.keys,
         C.groups = Moved(B.groups, g, "users_counter", -1)
  PROVE  /\ u \in MembersOf(B, g) => Teaches(DelFromGroup(w, g), u, B, C)
         /\ u \notin MembersOf(B, g) => View(C, u) = View(B, u)
<1> DEFINE V == View(B, u)
           E == LeftAlone(V, u, w, g)
           G == GroupsOf(B, u)
<1>1. /\ Tidy(V) /\ DOMAIN V.groups = G /\ DOMAIN V.keys = KeysFor(B, u) /\ G \subseteq DOMAIN B.groups
      /\ \A v, h : <<v, h>> \in V.member <=> <<v, h>> \in B.member /\ h \in G
      /\ \A h \in G : KeysOf(V, h) = KeysOf(B, h)
  BY ViewTidy
<1>2. /\ V.users = Restrict(B.users, Seen(B, u)) /\ V.groups = Restrict(B.groups, G)
      /\ V.member = {m \in B.member : m[2] \in G} /\ V.keys = Restrict(B.keys, KeysFor(B, u))
  BY ViewFields
<1>3. g \in Group /\ \A h : h # g => C.groups[h] = B.groups[h]
  <2>1. g \in Group
    BY DEF Tidy, AreTables, IsTable
  <2>2. \A h : h # g => Moved(B.groups, g, "users_counter", -1)[h] = B.groups[h]
    BY DEF Moved
  <2> QED BY <2>1, <2>2
<1> HIDE DEF V, E
<1>4. u = w => GroupsOf(C, u) = G \ {g}
  BY DEF GroupsOf
<1>5. u # w => GroupsOf(C, u) = G
  BY DEF GroupsOf
<1>6. C.member \subseteq B.member
  OBVIOUS
<1>7. ASSUME u = w
      PROVE  Teaches(DelFromGroup(w, g), u, B, C)
  <2>1. /\ IsDb(E) /\ E.groups = Drop(V.groups, {g})
        /\ E.member = {m \in V.member : m[2] \in DOMAIN E.groups}
        /\ E.keys = Restrict(V.keys, {k \in DOMAIN V.keys : V.keys[k].owner \in DOMAIN E.groups})
        /\ E.users = Restrict(V.users, Staying(V, E, u))
    <3>1. IsDb(V)
      BY <1>1 DEF Tidy
    <3>2. E = LeftAlone(V, u, u, g)
      BY <1>7 DEF E
    <3> DEFINE X == LeftAlone(V, u, u, g)
    <3>3. /\ IsDb(X) /\ X.groups = Drop(V.groups, {g})
          /\ X.member = {m \in V.member : m[2] \in DOMAIN X.groups}
          /\ X.keys = Restrict(V.keys, {k \in DOMAIN V.keys : V.keys[k].owner \in DOMAIN X.groups})
          /\ X.users = Restrict(V.users, Staying(V, X, u))
      BY ONLY <3>1, LeaveFields, ZenonT(60)
    <3> HIDE DEF X
    <3>4. E = X
      BY <3>2 DEF X
    <3> QED BY <3>3, <3>4
  <2>2. DOMAIN E.groups = GroupsOf(C, u) /\ E.groups = Restrict(C.groups, GroupsOf(C, u))
    BY <1>1, <1>2, <1>3, <1>4, <1>7, <2>1 DEF Drop, Restrict
  <2>3. E.member = {m \in C.member : m[2] \in GroupsOf(C, u)}
    <3>1. \A m \in B.member : m[2] # g => m \in C.member
      BY Pairs DEF Tidy
    <3> QED BY <1>2, <1>4, <1>6, <1>7, <2>1, <2>2, <3>1
  <2>4. E.keys = Restrict(C.keys, KeysFor(C, u))
    <3>1. KeysFor(C, u) = {k \in DOMAIN B.keys : B.keys[k].owner \in G \ {g}}
      BY <1>4, <1>7 DEF KeysFor
    <3>2. KeysFor(B, u) = {k \in DOMAIN B.keys : B.keys[k].owner \in G}
      BY DEF KeysFor
    <3>3. {k \in DOMAIN V.keys : V.keys[k].owner \in DOMAIN E.groups} = KeysFor(C, u)
      BY <1>1, <1>2, <1>4, <1>7, <2>2, <3>1, <3>2 DEF Restrict
    <3>4. KeysFor(C, u) \subseteq KeysFor(B, u)
      BY <3>1, <3>2
    <3>5. E.keys = Restrict(Restrict(B.keys, KeysFor(B, u)), KeysFor(C, u))
      BY <1>2, <2>1, <3>3
    <3> QED BY <3>4, <3>5, RestrictTwice
  <2>5. E.users = Restrict(C.users, Seen(C, u))
    BY <1>6, <2>1, <2>3, StayingSeen DEF V
  <2>6. E = View(C, u)
    BY <2>1, <2>2, <2>3, <2>4, <2>5, SameView
  <2>7. /\ Needed(E) \subseteq Needed(V) /\ Needed(E) \cap KeysOf(V, g) = {}
    BY <2>1, <2>2, <1>4, <1>7 DEF Needed, KeysOf, Restrict
  <2> QED BY <2>6, <2>7, DelFromGroupTeaches DEF V, E
<1>8. ASSUME u # w, u \in MembersOf(B, g)
      PROVE  Teaches(DelFromGroup(w, g), u, B, C)
  <2>0. g \in G /\ <<w, g>> \in V.member
    <3>1. <<u, g>> \in B.member
      BY <1>8 DEF MembersOf
    <3> QED BY <1>1, <3>1, Pairs DEF Tidy
  <2>1. /\ IsDb(E) /\ E.groups = Moved(V.groups, g, "users_counter", -1)
        /\ E.member = V.member \ {<<w, g>>} /\ E.keys = V.keys
        /\ E.users = Restrict(V.users, Staying(V, E, u))
    BY <1>1, <1>8, <2>0, LeftFields DEF E
  <2>2. E.groups = Restrict(C.groups, GroupsOf(C, u))
    BY <1>1, <1>2, <1>5, <1>8, <2>0, <2>1 DEF Moved, Restrict
  <2>3. E.member = {m \in C.member : m[2] \in GroupsOf(C, u)}
    BY <1>2, <1>5, <1>8, <2>1
  <2>4. E.keys = Restrict(C.keys, KeysFor(C, u))
    <3>1. KeysFor(C, u) = KeysFor(B, u)
      BY <1>5, <1>8 DEF KeysFor
    <3> QED BY <1>2, <2>1, <3>1
  <2>5. E.users = Restrict(C.users, Seen(C, u))
    BY <1>6, <2>1, <2>3, StayingSeen DEF V
  <2>6. E = View(C, u)
    BY <2>1, <2>2, <2>3, <2>4, <2>5, SameView
  <2>7. Needed(E) \subseteq Needed(V)
    BY <2>1, SameKeysNeeded
  <2> QED BY <1>8, <2>6, <2>7, DelFromGroupTeaches DEF V, E
<1>9. ASSUME u \notin MembersOf(B, g)
      PROVE  View(C, u) = View(B, u)
  <2>1. g \notin G /\ u # w
    <3>1. w \in MembersOf(B, g)
      BY Pairs DEF Tidy
    <3>2. <<u, g>> \notin B.member
      BY <1>9, Pairs DEF Tidy
    <3> QED BY <1>9, <3>1, <3>2, Pairs DEF Tidy
  <2>2. \A v \in User : \A h \in G : <<v, h>> \in C.member <=> <<v, h>> \in B.member
    BY <2>1
  <2>3. \A h \in G : C.groups[h] = B.groups[h]
    BY <1>3, <2>1
  <2>4. \A h : KeysOf(C, h) = KeysOf(B, h)
    BY DEF KeysOf
  <2>5. GroupsOf(C, u) = G
    BY <1>5, <2>1
  <2>6. AreTables(B) /\ AreTables(C)
    BY DEF Tidy
  <2> QED BY <2>2, <2>3, <2>4, <2>5, <2>6, ViewApart
<1> QED BY <1>7, <1>8, <1>9

\* A user is deleted.
LEMMA DeleteUserView ==
  ASSUME NEW B, Tidy(B), NEW u, NEW w, u # w,
         NEW C, C = LessUser(B, w)
  PROVE  /\ u \in Peers(B, w) => Teaches(DelUser(w), u, B, C)
         /\ u \notin Peers(B, w) => View(C, u) = View(B, u)
<1> DEFINE V == View(B, u)
           E == LessUser(V, w)
           G == GroupsOf(B, u)
<1>1. /\ Tidy(V) /\ DOMAIN V.groups = G /\ DOMAIN V.users = Seen(B, u) /\ G \subseteq DOMAIN B.groups
      /\ \A v, h : <<v, h>> \in V.member <=> <<v, h>> \in B.member /\ h \in G
  BY ViewTidy
<1>2. /\ V.users = Restrict(B.users, Seen(B, u)) /\ V.groups = Restrict(B.groups, G)
      /\ V.member = {m \in B.member : m[2] \in G} /\ V.keys = Restrict(B.keys, KeysFor(B, u))
  BY ViewFields
<1>3. /\ Tidy(C) /\ C.users = Drop(B.users, {w}) /\ C.member = {m \in B.member : m[1] # w}
      /\ C.keys = B.keys /\ C.groups = 
         [h \in DOMAIN B.groups |-> IF <<w, h>> \in B.member
                                               THEN [B.groups[h] EXCEPT !.users_counter = @ - 1]
                                               ELSE B.groups[h]]
  <2> DEFINE X == LessUser(B, w)
  <2>1. /\ Tidy(X) /\ X.users = Drop(B.users, {w}) /\ X.member = {m \in B.member : m[1] # w}
        /\ X.keys = B.keys
        /\ X.groups = [h \in DOMAIN B.groups |-> IF <<w, h>> \in B.member
                                               THEN [B.groups[h] EXCEPT !.users_counter = @ - 1]
                                               ELSE B.groups[h]]
    <3>1. UserGone(B, w, X)
      BY TidyDeleteUser
    <3> QED BY <3>1 DEF UserGone
  <2>2. C = X
    OBVIOUS
  <2> HIDE DEF X
  <2> QED BY <2>1, <2>2
<1>v. V = View(B, u)
  OBVIOUS
<1> HIDE DEF V
<1>4. /\ Tidy(E) /\ E.users = Drop(V.users, {w}) /\ E.member = {m \in V.member : m[1] # w}
      /\ E.keys = V.keys /\ E.groups = 
         [h \in DOMAIN V.groups |-> IF <<w, h>> \in V.member
                                               THEN [V.groups[h] EXCEPT !.users_counter = @ - 1]
                                               ELSE V.groups[h]]
  BY <1>1, TidyDeleteUser DEF UserGone
<1> HIDE DEF E
<1>5. \A v, h : <<v, h>> \in C.member <=> <<v, h>> \in B.member /\ v # w
  BY <1>3
<1>6. GroupsOf(C, u) = G
  <2>1. \A h : h \in GroupsOf(C, u) <=> h \in G
    BY <1>3, <1>5, Pairs DEF Tidy
  <2> QED BY <2>1
<1>7. \A v : v \in Peers(C, u) <=> v \in Peers(B, u) /\ v # w
  <2>1. /\ \A v : v \in Peers(C, u) <=> \E g \in GroupsOf(C, u) : <<v, g>> \in C.member
        /\ \A v : v \in Peers(B, u) <=> \E g \in GroupsOf(B, u) : <<v, g>> \in B.member
    BY <1>3, Pairs DEF Tidy
  <2> QED BY <1>5, <1>6, <2>1
<1>8. KeysFor(C, u) = KeysFor(B, u)
  BY <1>3, <1>6 DEF KeysFor
<1>9. ASSUME u \in Peers(B, w)
      PROVE  Teaches(DelUser(w), u, B, C)
  <2>1. E.users = Restrict(C.users, Seen(C, u))
    <3>1. Seen(C, u) = Seen(B, u) \ {w}
      BY <1>3, <1>7 DEF Seen, Drop, Restrict
    <3> QED BY <1>1, <1>2, <1>3, <1>4, <3>1 DEF Drop, Restrict, Seen
  <2>2. E.groups = Restrict(C.groups, GroupsOf(C, u))
    <3>1. \A h \in G : V.groups[h] = B.groups[h] /\ h \in DOMAIN B.groups /\ h \in DOMAIN V.groups
      BY <1>1, <1>2 DEF Restrict
    <3>2. \A h \in G : E.groups[h] = C.groups[h]
      BY <1>1, <1>3, <1>4, <3>1
    <3>3. E.groups = [h \in G |-> E.groups[h]]
      BY <1>1, <1>4
    <3> QED BY <1>6, <3>2, <3>3 DEF Restrict
  <2>3. E.member = {m \in C.member : m[2] \in GroupsOf(C, u)}
    BY <1>2, <1>3, <1>4, <1>6
  <2>4. E.keys = Restrict(C.keys, KeysFor(C, u))
    BY <1>2, <1>3, <1>4, <1>8
  <2>5. E = View(C, u)
    BY <1>4, <2>1, <2>2, <2>3, <2>4, SameView DEF Tidy
  <2>6. Needed(E) = Needed(V)
    BY <1>4, SameKeysNeeded
  <2>7. NoUser(V, u, w) = E
    BY <1>1, NoUserIs DEF E
  <2>8. SUFFICES ASSUME NEW d, IsWork(d), Knows(d, B, u)
                 PROVE  Knows(Perform(d, u, DelUser(w)), C, u)
    BY DEF Teaches
  <2> DEFINE c == DelUser(w)
             e == Perform(d, u, c)
  <2>9. d.ok /\ d.updkeys /\ d.db = V /\ Needed(d.db) \subseteq d.flash
    BY <1>v, <2>8 DEF Knows
  <2>10. c.type = "DELETE_USER" /\ c.user = w
    BY DEF DelUser
  <2> HIDE DEF c, e
  <2>11. e = [db |-> NoUser(d.db, u, w), cnt |-> d.cnt, updkeys |-> d.updkeys, ok |-> d.ok,
              flash |-> d.flash]
    <3>1. e = [db |-> NoUser(d.db, u, c.user), cnt |-> d.cnt, updkeys |-> d.updkeys, ok |-> d.ok,
               flash |-> IF c.user = u /\ u \in DOMAIN d.db.users THEN {} ELSE d.flash]
      BY <2>8, <2>10, PerformDelUser DEF e
    <3>2. ~(c.user = u /\ u \in DOMAIN d.db.users)
      BY <2>10
    <3> QED BY <2>10, <3>1, <3>2
  <2> QED BY <2>5, <2>6, <2>7, <2>9, <2>11 DEF Knows, e, c
<1>10. ASSUME u \notin Peers(B, w)
       PROVE  View(C, u) = View(B, u)
  <2>1. w \notin Peers(B, u)
    BY <1>10, Pairs DEF Tidy
  <2>2. \A h \in G : <<w, h>> \notin B.member
    BY <2>1, Pairs DEF Tidy
  <2>3. \A h \in G : C.groups[h] = B.groups[h]
    BY <1>1, <1>3, <2>2
  <2>4. \A v \in User : \A h \in G : <<v, h>> \in C.member <=> <<v, h>> \in B.member
    BY <1>5, <2>2
  <2>5. \A h : KeysOf(C, h) = KeysOf(B, h)
    BY <1>3 DEF KeysOf
  <2>6. \A v : v # w => (v \in DOMAIN C.users <=> v \in DOMAIN B.users)
    BY <1>3 DEF Drop, Restrict
  <2>7. \A v \in DOMAIN B.users : v # w => C.users[v] = B.users[v]
    BY <1>3 DEF Drop, Restrict
  <2>8. AreTables(B) /\ AreTables(C)
    BY <1>3 DEF Tidy
  <2>9. \A h \in G : /\ C.groups[h] = B.groups[h] /\ KeysOf(C, h) = KeysOf(B, h)
                      /\ \A x \in KeysOf(B, h) : C.keys[x] = B.keys[x]
    BY <1>3, <2>3, <2>5
  <2>10. \A v : v = u \/ v \in Peers(B, u) =>
           /\ v \in DOMAIN C.users <=> v \in DOMAIN B.users
           /\ v \in DOMAIN B.users => C.users[v] = B.users[v]
    BY <2>1, <2>6, <2>7
  <2> QED BY ONLY <1>6, <2>4, <2>8, <2>9, <2>10, ViewApart
<1> QED BY <1>9, <1>10

\* sekey_delete_group: members are told DelGroup, for others nothing changes.
LEMMA DelGroupView ==
  ASSUME NEW B, Tidy(B), NEW u, NEW g \in DOMAIN B.groups,
         NEW C, Tidy(C), C.users = B.users, C.member = {m \in B.member : m[2] # g},
         C.groups = Drop(B.groups, {g}), DOMAIN C.keys = DOMAIN B.keys,
         \A k \in DOMAIN B.keys : /\ B.keys[k].owner = g => C.keys[k].owner = Zombie
                                  /\ B.keys[k].owner # g => C.keys[k] = B.keys[k]
  PROVE  /\ u \in MembersOf(B, g) => Teaches(DelGroup(g), u, B, C)
         /\ u \notin MembersOf(B, g) => View(C, u) = View(B, u)
<1> DEFINE V == View(B, u)
           E == NoGroup(V, u, g)
           G == GroupsOf(B, u)
<1>1. /\ Tidy(V) /\ DOMAIN V.groups = G /\ DOMAIN V.keys = KeysFor(B, u) /\ G \subseteq DOMAIN B.groups
      /\ \A h \in G : KeysOf(V, h) = KeysOf(B, h)
  BY ViewTidy
<1>2. /\ V.users = Restrict(B.users, Seen(B, u)) /\ V.groups = Restrict(B.groups, G)
      /\ V.member = {m \in B.member : m[2] \in G} /\ V.keys = Restrict(B.keys, KeysFor(B, u))
  BY ViewFields
<1>3. Zombie \notin Group /\ G \subseteq Group
  BY TablesAssumption DEF GroupsOf
<1>v. V = View(B, u)
  OBVIOUS
<1> HIDE DEF V, E
<1>4. GroupsOf(C, u) = G \ {g}
  <2>1. \A h : <<u, h>> \in C.member <=> <<u, h>> \in B.member /\ h # g
    OBVIOUS
  <2>2. \A h : h \in GroupsOf(C, u) <=> h \in G /\ h # g
    BY <2>1, Pairs DEF Tidy
  <2> QED BY <2>2
<1>5. \A k : k \in KeysFor(C, u) <=> k \in KeysFor(B, u) /\ B.keys[k].owner # g
  BY <1>3, <1>4 DEF KeysFor
<1>6. ASSUME u \in MembersOf(B, g)
      PROVE  Teaches(DelGroup(g), u, B, C)
  <2>1. /\ IsDb(E) /\ E.groups = Drop(V.groups, {g}) /\ E.member = {m \in V.member : m[2] # g}
        /\ E.keys = Drop(V.keys, KeysOf(V, g)) /\ E.users = Restrict(V.users, Staying(V, E, u))
    <3>1. IsDb(V)
      BY <1>1 DEF Tidy
    <3>2. GroupGone(V, u, g, NoGroup(V, u, g))
      BY <3>1, NoGroupFields
    <3> QED BY <3>2 DEF GroupGone, E
  <2>2. E.groups = Restrict(C.groups, GroupsOf(C, u))
    BY <1>1, <1>2, <1>4, <2>1 DEF Drop, Restrict
  <2>3. E.member = {m \in C.member : m[2] \in GroupsOf(C, u)}
    BY <1>2, <1>4, <2>1
  <2>4. KeysOf(V, g) = {k \in KeysFor(B, u) : B.keys[k].owner = g}
    BY <1>1, <1>2 DEF KeysOf, Restrict
  <2>5. E.keys = Restrict(C.keys, KeysFor(C, u))
    <3>1. DOMAIN V.keys \ KeysOf(V, g) = KeysFor(C, u)
      BY <1>1, <1>5, <2>4
    <3>2. \A k \in KeysFor(C, u) : k \in DOMAIN B.keys /\ V.keys[k] = C.keys[k]
      BY <1>2, <1>5 DEF Restrict, KeysFor
    <3> QED BY <2>1, <3>1, <3>2 DEF Drop, Restrict
  <2>6. E.users = Restrict(C.users, Seen(C, u))
    <3>1. C.member \subseteq B.member
      OBVIOUS
    <3> QED BY <2>1, <2>3, <3>1, StayingSeen DEF V
  <2>7. E = View(C, u)
    BY <2>1, <2>2, <2>3, <2>5, <2>6, SameView
  <2>8. Needed(E) \subseteq Needed(V) \ KeysOf(V, g)
    BY <2>1 DEF Needed, Drop, Restrict
  <2>9. SUFFICES ASSUME NEW d, IsWork(d), Knows(d, B, u)
                 PROVE  Knows(Perform(d, u, DelGroup(g)), C, u)
    BY DEF Teaches
  <2> DEFINE c == DelGroup(g)
             e == Perform(d, u, c)
  <2>10. d.ok /\ d.updkeys /\ d.db = V /\ Needed(d.db) \subseteq d.flash
    BY <1>v, <2>9 DEF Knows
  <2>11. c.type = "DELETE_GROUP" /\ c.group = g
    BY DEF DelGroup
  <2> HIDE DEF c, e
  <2>12. e = [db |-> NoGroup(d.db, u, g), cnt |-> d.cnt, updkeys |-> d.updkeys, ok |-> d.ok,
              flash |-> d.flash \ KeysOf(d.db, g)]
    BY <2>9, <2>11, PerformDelGroup DEF e
  <2>13. e.ok /\ e.updkeys /\ e.db = View(C, u) /\ e.flash = d.flash \ KeysOf(V, g)
    BY <2>7, <2>10, <2>12 DEF E
  <2>14. Needed(e.db) \subseteq e.flash
    BY <2>7, <2>8, <2>10, <2>13
  <2> QED BY <2>13, <2>14 DEF Knows, e, c
<1>7. ASSUME u \notin MembersOf(B, g)
      PROVE  View(C, u) = View(B, u)
  <2>1. g \notin G
    BY <1>7, Pairs DEF Tidy
  <2>2. \A v \in User : \A h \in G : <<v, h>> \in C.member <=> <<v, h>> \in B.member
    BY <2>1
  <2>3. \A h \in G : C.groups[h] = B.groups[h]
    BY <1>1, <2>1 DEF Drop, Restrict
  <2>4. \A h \in G : KeysOf(C, h) = KeysOf(B, h) /\ \A k \in KeysOf(B, h) : C.keys[k] = B.keys[k]
    <3> TAKE h \in G
    <3>1. h # g /\ h # Zombie
      BY <1>3, <2>1
    <3> QED BY <3>1 DEF KeysOf
  <2>5. GroupsOf(C, u) = G
    BY <1>4, <2>1
  <2>6. AreTables(B) /\ AreTables(C)
    BY DEF Tidy
  <2> QED BY <2>2, <2>3, <2>4, <2>5, <2>6, ViewApart
<1> QED BY <1>6, <1>7

\* Two and three statements.
Became(d, e, db) == e.db = db /\ e.ok = TRUE /\ e.flash = d.flash /\ e.updkeys = d.updkeys

\* A text of two statements executes one after the other.
LEMMA PerformTwo ==
  ASSUME NEW d, IsWork(d), d.ok, NEW u, NEW s, NEW t, IsStatement(s), IsStatement(t),
         Executes(d.db, s), t.do # "insert"
  PROVE  Became(d, Perform(d, u, SQL(<<s, t>>)), After(After(d.db, s), t))
<1> DEFINE x == <<s, t>>
           c == SQL(x)
           db2 == After(After(d.db, s), t)
<1>1. IsCommand(c)
  BY FewCommands
<1>2. c.type = "SQL_QUERY" /\ c.text = x
  BY DEF SQL
<1>3. Statements(d.db, x) = [db |-> db2, ok |-> TRUE]
  <2>1. Statements(d.db, x) = Stepped(Stepped([db |-> d.db, ok |-> TRUE], s), t)
    BY StatementsTwo
  <2>2. Stepped([db |-> d.db, ok |-> TRUE], s) = [db |-> After(d.db, s), ok |-> TRUE]
    BY DEF Stepped
  <2>3. Stepped([db |-> After(d.db, s), ok |-> TRUE], t) = [db |-> db2, ok |-> TRUE]
    BY DEF Stepped, Executes
  <2> QED BY <2>1, <2>2, <2>3
<1> HIDE DEF c, x, db2
<1>4. Perform(d, u, c) = [db |-> db2, cnt |-> d.cnt, flash |-> d.flash, updkeys |-> d.updkeys, ok |-> TRUE]
  BY <1>1, <1>2, <1>3, PerformSQL
<1> QED BY <1>4 DEF c, x, db2, Became

\* And one of three.
LEMMA PerformThree ==
  ASSUME NEW d, IsWork(d), d.ok, NEW u, NEW s, NEW t, NEW r,
         IsStatement(s), IsStatement(t), IsStatement(r),
         Executes(d.db, s), Executes(After(d.db, s), t), Executes(After(After(d.db, s), t), r)
  PROVE  Became(d, Perform(d, u, SQL(<<s, t, r>>)), After(After(After(d.db, s), t), r))
<1> DEFINE x == <<s, t, r>>
           c == SQL(x)
           db2 == After(After(d.db, s), t)
           db3 == After(db2, r)
<1>1. IsCommand(c)
  BY FewCommands
<1>2. c.type = "SQL_QUERY" /\ c.text = x
  BY DEF SQL
<1>3. Statements(d.db, x) = [db |-> db3, ok |-> TRUE]
  <2>1. Statements(d.db, x) = Stepped(Stepped(Stepped([db |-> d.db, ok |-> TRUE], s), t), r)
    BY StatementsThree
  <2>2. Stepped([db |-> d.db, ok |-> TRUE], s) = [db |-> After(d.db, s), ok |-> TRUE]
    BY DEF Stepped
  <2>3. Stepped([db |-> After(d.db, s), ok |-> TRUE], t) = [db |-> db2, ok |-> TRUE]
    BY DEF Stepped
  <2>4. Stepped([db |-> db2, ok |-> TRUE], r) = [db |-> db3, ok |-> TRUE]
    BY DEF Stepped
  <2> QED BY <2>1, <2>2, <2>3, <2>4
<1> HIDE DEF c, x, db3, db2
<1>4. Perform(d, u, c) = [db |-> db3, cnt |-> d.cnt, flash |-> d.flash, updkeys |-> d.updkeys, ok |-> TRUE]
  BY <1>1, <1>2, <1>3, PerformSQL
<1> QED BY <1>4 DEF c, x, db2, db3, Became

KeyInsert(k, g) ==
  Insert(<<>>, <<>>, {}, [x \in {k} |-> [name |-> 0, owner |-> g, status |-> "preactive"]])

TeachesKey(s, t, k, u, B, C) ==
  \A d : IsWork(d) /\ Knows(d, B, u) =>
    Knows(Perform(Perform(d, u, SQL(<<s, t>>)), u, KeyData(k)), C, u)

\* A key is added: its row, and then its content.
LEMMA AddKeyView ==
  ASSUME NEW B, Tidy(B), NEW u, NEW k \in Key, k \notin DOMAIN B.keys, NEW g \in DOMAIN B.groups,
         NEW s, s = KeyInsert(k, g), NEW t, t = Count("keys_counter", g, 1)
  PROVE  LET C == MoreKey(B, k, g)
         IN  /\ u \in MembersOf(B, g) => TeachesKey(s, t, k, u, B, C)
             /\ u \notin MembersOf(B, g) => View(C, u) = View(B, u)
<1> DEFINE V == View(B, u)
           C == MoreKey(B, k, g)
           E == MoreKey(V, k, g)
           G == GroupsOf(B, u)
           row == [name |-> 0, owner |-> g, status |-> "preactive"]
           new == [x \in {k} |-> row]
<1>1. /\ Tidy(V) /\ DOMAIN V.groups = G /\ DOMAIN V.keys = KeysFor(B, u) /\ G \subseteq DOMAIN B.groups
      /\ DOMAIN V.users = Seen(B, u)
  BY ViewTidy
<1>2. /\ V.users = Restrict(B.users, Seen(B, u)) /\ V.groups = Restrict(B.groups, G)
      /\ V.member = {m \in B.member : m[2] \in G} /\ V.keys = Restrict(B.keys, KeysFor(B, u))
  BY ViewFields
<1>3. KeyAdded(B, k, g, C)
  BY TidyAddKey
<1>c. C = MoreKey(B, k, g)
  OBVIOUS
<1> HIDE DEF C
<1>0. u \in MembersOf(B, g) <=> g \in G
  BY Pairs DEF Tidy
<1>4. k \notin DOMAIN V.keys
  BY <1>1 DEF KeysFor
<1>v. V = View(B, u)
  OBVIOUS
<1> HIDE DEF V
<1>5. g \in G => KeyAdded(V, k, g, E)
  BY <1>1, <1>4, TidyAddKey
<1>6. E = After(After(V, s), t)
  BY DEF MoreKey, KeyInsert
<1>7. IsStatement(s) /\ IsStatement(t) /\ t.do = "count"
  BY StatementKinds DEF KeyInsert
<1>8. Executes(V, s)
  <2>1. s.do = "insert" /\ s.rows.users = <<>> /\ s.rows.groups = <<>> /\ s.rows.member = {}
        /\ s.rows.keys = new
    BY DEF Insert, KeyInsert
  <2>2. DOMAIN <<>> = {} /\ DOMAIN new = {k}
    OBVIOUS
  <2> QED BY <1>4, <2>1, <2>2 DEF Executes
<1> HIDE DEF E
<1>9. GroupsOf(C, u) = G /\ Peers(C, u) = Peers(B, u)
  BY <1>3, SameMembers DEF KeyAdded
<1>11. ASSUME g \in G, NEW d, IsWork(d), Knows(d, B, u)
       PROVE  Knows(Perform(Perform(d, u, SQL(<<s, t>>)), u, KeyData(k)), C, u)
  <2>0. KeyAdded(V, k, g, E)
    BY <1>5, <1>11
  <2>1. E.groups = Restrict(C.groups, GroupsOf(C, u))
    BY <1>1, <1>2, <1>3, <2>0, <1>9, <1>11 DEF Moved, Restrict, KeyAdded
  <2>2. E.keys = Restrict(C.keys, KeysFor(C, u))
    <3>1. KeysFor(C, u) = KeysFor(B, u) \cup {k}
      BY <1>3, <1>9, <1>11 DEF KeysFor, KeyAdded
    <3>2. KeysFor(B, u) \subseteq DOMAIN B.keys /\ k \notin DOMAIN B.keys
      BY DEF KeysFor
    <3>3. \A x \in KeysFor(B, u) : V.keys[x] = B.keys[x]
      BY <1>2 DEF Restrict
    <3>4. \A x \in KeysFor(C, u) : E.keys[x] = C.keys[x]
      BY <1>1, <1>3, <2>0, <3>1, <3>2, <3>3 DEF KeyAdded
    <3>5. DOMAIN E.keys = KeysFor(C, u) /\ E.keys = [x \in DOMAIN E.keys |-> E.keys[x]]
      BY <1>1, <2>0, <3>1 DEF KeyAdded
    <3> QED BY <3>4, <3>5 DEF Restrict
  <2>3. E.users = Restrict(C.users, Seen(C, u))
    BY <1>2, <1>3, <2>0, <1>9 DEF Seen, KeyAdded
  <2>4. E = View(C, u)
    <3>1. E.member = {m \in C.member : m[2] \in GroupsOf(C, u)} /\ IsDb(E)
      BY <1>2, <1>3, <2>0, <1>9 DEF KeyAdded, Tidy
    <3> QED BY <2>1, <2>2, <2>3, <3>1, SameView
  <2> DEFINE e == Perform(d, u, SQL(<<s, t>>))
             f == Perform(e, u, KeyData(k))
  <2>5. d.ok /\ d.updkeys /\ d.db = V /\ Needed(d.db) \subseteq d.flash
    BY <1>v, <1>11 DEF Knows
  <2>6. e.db = E /\ e.ok = TRUE /\ e.flash = d.flash /\ e.updkeys = d.updkeys
    <3>1. t.do # "insert" /\ Executes(d.db, s) /\ IsWork(d) /\ d.ok
      BY <1>7, <1>8, <1>11, <2>5
    <3>2. Became(d, e, After(After(d.db, s), t))
      BY <1>7, <3>1, PerformTwo
    <3> QED BY <1>6, <2>5, <3>2 DEF Became
  <2>7. IsWork(e)
    <3>1. IsCommand(SQL(<<s, t>>))
      BY <1>7, FewCommands
    <3> QED BY <1>11, <3>1, PerformShape
  <2>8. u \in DOMAIN E.users
    <3>1. <<u, g>> \in B.member
      BY <1>11 DEF GroupsOf
    <3>2. u \in DOMAIN B.users
      BY <3>1, Pairs DEF Tidy
    <3> QED BY <1>1, <2>0, <3>2 DEF Seen, KeyAdded
  <2>9. KeyData(k).type = "KEY_DATA" /\ KeyData(k).key = k
    BY DEF KeyData
  <2> HIDE DEF e
  <2> DEFINE c == KeyData(k)
  <2> HIDE DEF c
  <2>10. f = [db |-> e.db, cnt |-> e.cnt, updkeys |-> e.updkeys, ok |-> e.ok, flash |-> e.flash \cup {k}]
    <3>1. c.type = "KEY_DATA" /\ c.key = k
      BY <2>9 DEF c
    <3>2. u \in DOMAIN e.db.users /\ e.updkeys
      BY <2>5, <2>6, <2>8
    <3>3. Perform(e, u, c) = [db |-> e.db, cnt |-> e.cnt, updkeys |-> e.updkeys, ok |-> e.ok,
                              flash |-> e.flash \cup {k}]
      BY <2>7, <3>1, <3>2, PerformKeyData
    <3> QED BY <3>3 DEF c
  <2> HIDE DEF f
  <2>11. f.ok /\ f.updkeys /\ f.db = View(C, u) /\ f.flash = d.flash \cup {k}
    BY <2>4, <2>5, <2>6, <2>10
  <2>12. Needed(f.db) \subseteq f.flash
    BY <2>0, <2>4, <2>5, <2>11 DEF KeyAdded
  <2> QED BY <2>11, <2>12 DEF Knows, f, e
<1>12. ASSUME g \notin G
       PROVE  View(C, u) = View(B, u)
  <2>1. \A h \in G : C.groups[h] = B.groups[h]
    BY <1>1, <1>3, <1>12 DEF Moved, KeyAdded
  <2>2. \A h \in G : KeysOf(C, h) = KeysOf(B, h) /\ \A x \in KeysOf(B, h) : C.keys[x] = B.keys[x]
    BY <1>3, <1>12 DEF KeysOf, KeyAdded
  <2>3. AreTables(B) /\ AreTables(C) /\ C.users = B.users /\ C.member = B.member
    BY <1>3 DEF Tidy, KeyAdded
  <2>4. \A h \in G : /\ C.groups[h] = B.groups[h] /\ KeysOf(C, h) = KeysOf(B, h)
                      /\ \A x \in KeysOf(B, h) : C.keys[x] = B.keys[x]
    BY <2>1, <2>2
  <2>5. \A v : v = u \/ v \in Peers(B, u) =>
          /\ v \in DOMAIN C.users <=> v \in DOMAIN B.users
          /\ v \in DOMAIN B.users => C.users[v] = B.users[v]
    BY <2>3
  <2>6. \A v \in User : \A h \in G : <<v, h>> \in C.member <=> <<v, h>> \in B.member
    BY <2>3
  <2> QED BY ONLY <1>9, <2>3, <2>4, <2>5, <2>6, ViewApart
<1>13. u \in MembersOf(B, g) => TeachesKey(s, t, k, u, B, C)
  BY <1>0, <1>11 DEF TeachesKey
<1> QED BY <1>0, <1>12, <1>13 DEF C

-----------------------------------------------------------------------------
(* What is still to be sent.                                                *)

\* What a send is for user u: nothing when it is to another.
ForUser(u, s) == Record(0, IF s.to = u THEN s.cmd ELSE SQL(<<>>))
ToU(u, q) == [i \in DOMAIN q |-> ForUser(u, q[i])]

\* Device d after all that q sends to its user u; the numbers do not matter.
Told(d, u, q) == Performed(At(d, 0, d.flash), u, ToU(u, q))
Heard(d, u, s) == IF s.to = u /\ d.ok THEN Perform(d, u, s.cmd) ELSE d

\* An empty text changes nothing.
LEMMA NothingToDo ==
  /\ IsCommand(SQL(<<>>))
  /\ \A d, u : IsWork(d) /\ d.ok => Perform(d, u, SQL(<<>>)) = d
<1> DEFINE c == SQL(<<>>)
           yes == TRUE
<1>1. c.type = "SQL_QUERY" /\ c.text = <<>>
  BY DEF SQL
<1>2. IsCommand(c)
  BY <1>1, NoneAndOneSeq DEF IsCommand, IsText
<1> HIDE DEF c
<1>3. ASSUME NEW d, NEW u, IsWork(d), d.ok
      PROVE  Perform(d, u, c) = d
  <2>1. Statements(d.db, <<>>) = [db |-> d.db, ok |-> yes]
    BY StatementsNone
  <2> DEFINE end == Statements(d.db, <<>>)
  <2>2. Perform(d, u, c) = [db |-> end.db, cnt |-> d.cnt, flash |-> d.flash,
                            updkeys |-> d.updkeys, ok |-> end.ok]
    BY <1>1, <1>2, <1>3, PerformSQL
  <2> HIDE DEF end, yes
  <2>3. end.db = d.db /\ end.ok = yes
    BY <2>1 DEF end
  <2>4. d.ok = yes
    BY <1>3 DEF IsWork, yes
  <2> QED BY <1>3, <2>2, <2>3, <2>4 DEF IsWork
<1> QED BY <1>2, <1>3 DEF c

\* The records of a queue, as one user sees them.
LEMMA ToUFacts ==
  ASSUME NEW u, NEW q, IsQueue(q)
  PROVE  /\ IsRecords(ToU(u, q)) /\ Len(ToU(u, q)) = Len(q) /\ Len(q) \in Nat /\ IsSeq(ToU(u, q))
         /\ \A i \in 1..Len(q) : ToU(u, q)[i] = ForUser(u, q[i])
<1>1. IsSeq(q) /\ Len(q) \in Nat /\ DOMAIN q = 1..Len(q)
  BY SeqFacts DEF IsQueue
<1> DEFINE t == ToU(u, q)
<1>2. t = [i \in 1..Len(q) |-> t[i]] /\ \A i \in 1..Len(q) : t[i] = ForUser(u, q[i])
  BY <1>1 DEF ToU
<1> HIDE DEF t
<1>3. IsSeq(t) /\ Len(t) = Len(q)
  BY <1>1, <1>2, SeqIndexed
<1>4. ASSUME NEW i \in 1..Len(q)
      PROVE  t[i].cnt \in Nat /\ IsCommand(t[i].cmd)
  <2>1. IsCommand(q[i].cmd)
    BY <1>4 DEF IsQueue
  <2>2. t[i].cnt = 0 /\ t[i].cmd = IF q[i].to = u THEN q[i].cmd ELSE SQL(<<>>)
    BY <1>2, <1>4 DEF ForUser, Record
  <2> QED BY <2>1, <2>2, NothingToDo
<1> QED BY <1>1, <1>2, <1>3, <1>4 DEF IsRecords, t

\* Two queues, as one user sees them.
LEMMA ToUConcat ==
  ASSUME NEW u, NEW p, NEW q, IsQueue(p), IsQueue(q), IsQueue(p \o q)
  PROVE  ToU(u, p \o q) = ToU(u, p) \o ToU(u, q)
<1> DEFINE r == p \o q
           a == ToU(u, p)
           b == ToU(u, q)
           c == ToU(u, r)
<1>1. /\ Len(p) \in Nat /\ Len(q) \in Nat /\ Len(r) = Len(p) + Len(q)
      /\ \A i \in 1..Len(p) : r[i] = p[i]
      /\ \A i \in 1..Len(q) : r[Len(p) + i] = q[i]
  BY ConcatSeq, SeqFacts DEF IsQueue
<1> HIDE DEF r
<1>2. IsSeq(a) /\ Len(a) = Len(p) /\ \A i \in 1..Len(p) : a[i] = ForUser(u, p[i])
  BY ToUFacts
<1>3. IsSeq(b) /\ Len(b) = Len(q) /\ \A i \in 1..Len(q) : b[i] = ForUser(u, q[i])
  BY ToUFacts
<1>4. IsSeq(c) /\ Len(c) = Len(r) /\ \A i \in 1..Len(r) : c[i] = ForUser(u, r[i])
  BY ToUFacts DEF r
<1> HIDE DEF a, b, c
<1>5. /\ IsSeq(a \o b) /\ Len(a \o b) = Len(a) + Len(b)
      /\ \A i \in 1..Len(a) : (a \o b)[i] = a[i]
      /\ \A i \in 1..Len(b) : (a \o b)[Len(a) + i] = b[i]
  BY <1>2, <1>3, ConcatSeq
<1> DEFINE e == a \o b
<1> HIDE DEF e
<1>6. \A i \in 1..Len(r) : c[i] = e[i]
  <2> TAKE i \in 1..Len(r)
  <2>1. CASE i \in 1..Len(p)
    BY <1>1, <1>2, <1>4, <1>5, <2>1 DEF e
  <2>2. CASE i \notin 1..Len(p)
    <3> DEFINE j == i - Len(p)
    <3>1. j \in 1..Len(q) /\ i = Len(p) + j
      BY <1>1, <2>2
    <3> HIDE DEF j
    <3>2. r[i] = q[j] /\ e[i] = b[j]
      BY <1>1, <1>2, <1>3, <1>5, <3>1 DEF e
    <3> QED BY <1>3, <1>4, <3>1, <3>2
  <2> QED BY <2>1, <2>2
<1>7. c = [i \in 1..Len(r) |-> c[i]] /\ e = [i \in 1..Len(r) |-> e[i]]
  <2>1. c = [i \in 1..Len(c) |-> c[i]]
    BY <1>4, SeqFacts
  <2>2. e = [i \in 1..Len(e) |-> e[i]]
    BY <1>5, SeqFacts DEF e
  <2>3. Len(e) = Len(r) /\ Len(c) = Len(r)
    BY <1>1, <1>2, <1>3, <1>4, <1>5 DEF e
  <2> QED BY <2>1, <2>2, <2>3
<1>8. c = e
  BY <1>6, <1>7
<1> QED BY <1>8 DEF a, b, c, e, r

\* One send.
LEMMA HeardIs ==
  ASSUME NEW d, IsWork(d), d.cnt = 0, NEW u, NEW s, IsCommand(s.cmd)
  PROVE  /\ Apply(d, u, ForUser(u, s)) = Heard(d, u, s)
         /\ IsWork(Heard(d, u, s)) /\ Heard(d, u, s).cnt = 0 /\ Heard(d, u, s).updkeys = d.updkeys
<1> DEFINE r == ForUser(u, s)
<1>1. r.cnt = 0 /\ r.cmd = IF s.to = u THEN s.cmd ELSE SQL(<<>>)
  BY DEF ForUser, Record
<1>2. IsCommand(r.cmd) /\ r.cnt \in Nat
  BY <1>1, NothingToDo
<1> HIDE DEF r
<1>3. At(d, 0, d.flash) = d
  BY AtFacts
<1>4. Apply(d, u, r) = IF d.ok THEN Perform(d, u, r.cmd) ELSE d
  BY <1>1, <1>2, <1>3, ApplyForm
<1>5. Apply(d, u, r) = Heard(d, u, s)
  BY <1>1, <1>4, NothingToDo DEF Heard
<1>6. IsWork(Perform(d, u, s.cmd)) /\ Perform(d, u, s.cmd).cnt = 0
      /\ Perform(d, u, s.cmd).updkeys = d.updkeys
  BY PerformShape
<1> QED BY <1>5, <1>6 DEF Heard, r

\* What a queue leaves is a device at work with the counter 0.
LEMMA ToldShape ==
  ASSUME NEW d, IsWork(d), NEW u, NEW q, IsQueue(q)
  PROVE  /\ IsWork(Told(d, u, q)) /\ Told(d, u, q).cnt = 0 /\ Told(d, u, q).updkeys = d.updkeys
         /\ At(Told(d, u, q), 0, Told(d, u, q).flash) = Told(d, u, q)
<1> DEFINE a == At(d, 0, d.flash)
           t == ToU(u, q)
           e == Performed(a, u, t)
<1>1. IsWork(a) /\ a.cnt = 0 /\ a.updkeys = d.updkeys
  BY AtFacts
<1>2. /\ IsRecords(t) /\ Len(t) = Len(q) /\ \A i \in 1..Len(q) : t[i] = ForUser(u, q[i])
  BY ToUFacts
<1> HIDE DEF a, t
<1>3. \A i \in 1..Len(t) : t[i].cnt <= 0
  <2>1. \A s : ForUser(u, s).cnt = 0
    BY DEF ForUser, Record
  <2>2. \A i \in 1..Len(q) : t[i].cnt = 0
    BY ONLY <1>2, <2>1, ZenonT(60)
  <2>3. 0 <= 0
    OBVIOUS
  <2> QED BY ONLY <1>2, <2>2, <2>3, ZenonT(60)
<1>4. IsWork(e) /\ e.updkeys = a.updkeys
  BY <1>1, <1>2, PerformedShape
<1>5. e.cnt <= 0
  BY <1>1, <1>2, <1>3, PerformedCount
<1>6. e.cnt = 0
  BY <1>4, <1>5 DEF IsWork
<1>7. At(e, 0, e.flash) = e
  BY <1>4, <1>6, AtFacts
<1> QED BY <1>1, <1>4, <1>6, <1>7 DEF Told, a, t

\* A queue after a queue.
LEMMA ToldConcat ==
  ASSUME NEW d, IsWork(d), NEW u, NEW p, NEW q, IsQueue(p), IsQueue(q), IsQueue(p \o q)
  PROVE  Told(d, u, p \o q) = Told(Told(d, u, p), u, q)
<1> DEFINE e == Told(d, u, p)
<1>1. At(e, 0, e.flash) = e
  BY ToldShape
<1>2. ToU(u, p \o q) = ToU(u, p) \o ToU(u, q) /\ IsSeq(ToU(u, p)) /\ IsSeq(ToU(u, q))
  BY ToUConcat, ToUFacts
<1>3. Told(d, u, p \o q) = Performed(Performed(At(d, 0, d.flash), u, ToU(u, p)), u, ToU(u, q))
  BY <1>2, PerformedConcat DEF Told
<1> QED BY <1>1, <1>3 DEF Told

\* A queue is its first send and the rest.
LEMMA ToldNext ==
  ASSUME NEW d, IsWork(d), NEW u, NEW q, IsQueue(q), q # <<>>
  PROVE  /\ IsQueue(Tail(q)) /\ IsCommand(Head(q).cmd)
         /\ Told(d, u, q) = Told(Heard(At(d, 0, d.flash), u, Head(q)), u, Tail(q))
<1> DEFINE s == Head(q)
           p == Tail(q)
           a == At(d, 0, d.flash)
           o == Heard(a, u, s)
<1>1. /\ IsSeq(p) /\ q = <<s>> \o p /\ Len(p) = Len(q) - 1 /\ s = q[1] /\ Len(q) \in Nat \ {0}
      /\ \A i \in 1..(Len(q) - 1) : p[i] = q[i + 1]
  BY TailSeq DEF IsQueue
<1>2. IsCommand(s.cmd) /\ s.to \in User /\ s.erase \in BOOLEAN
  BY <1>1 DEF IsQueue
<1> HIDE DEF s, p
<1>3. IsQueue(p)
  <2>1. \A i \in 1..Len(p) : i + 1 \in 1..Len(q) /\ p[i] = q[i + 1]
    BY <1>1
  <2> QED BY <1>1, <2>1 DEF IsQueue
<1>4. IsQueue(<<s>>)
  <2>1. IsSeq(<<s>>) /\ Len(<<s>>) = 1 /\ <<s>>[1] = s
    BY NoneAndOneSeq
  <2> QED BY <1>2, <2>1 DEF IsQueue
<1>5. ToU(u, q) = <<ForUser(u, s)>> \o ToU(u, p)
  <2>1. ToU(u, q) = ToU(u, <<s>>) \o ToU(u, p)
    BY <1>1, <1>3, <1>4, ToUConcat
  <2>2. ToU(u, <<s>>) = <<ForUser(u, s)>>
    BY DEF ToU
  <2> QED BY <2>1, <2>2
<1>6. IsWork(a) /\ a.cnt = 0
  BY AtFacts
<1> HIDE DEF a
<1>7. Apply(a, u, ForUser(u, s)) = o /\ IsWork(o) /\ o.cnt = 0
  BY <1>2, <1>6, HeardIs
<1> HIDE DEF o
<1>8. At(o, 0, o.flash) = o
  BY <1>7, AtFacts
<1>9. IsSeq(ToU(u, p))
  BY <1>3, ToUFacts
<1>10. Performed(a, u, ToU(u, q)) = Performed(o, u, ToU(u, p))
  BY <1>5, <1>7, <1>9, PerformedFirst
<1>11. Told(d, u, q) = Told(o, u, p)
  BY <1>8, <1>10 DEF Told, a
<1> QED BY <1>2, <1>3, <1>11 DEF s, p, a, o

\* No send, no change.
LEMMA ToldNone ==
  ASSUME NEW d, NEW u
  PROVE  Told(d, u, <<>>) = At(d, 0, d.flash)
<1>1. ToU(u, <<>>) = <<>>
  BY DEF ToU
<1> QED BY <1>1, PerformedNone DEF Told

\* A queue that has one thing for u, or nothing.
LEMMA ToldOnce ==
  ASSUME NEW d, IsWork(d), d.ok, NEW u, NEW q, IsQueue(q), NEW c,
         \A i, j \in 1..Len(q) : q[i].to = u /\ q[j].to = u => i = j,
         \A i \in 1..Len(q) : q[i].to = u => q[i].cmd = c
  PROVE  LET a == At(d, 0, d.flash)
         IN  Told(d, u, q) = IF \E i \in 1..Len(q) : q[i].to = u THEN Perform(a, u, c) ELSE a
<1> DEFINE a == At(d, 0, d.flash)
           t == ToU(u, q)
           b == Perform(a, u, c)
           Holds(f, j) == f[j] = IF \E i \in 1..j : q[i].to = u THEN b ELSE a
<1>1. IsWork(a) /\ a.cnt = 0 /\ a.ok
  BY AtFacts
<1>2. /\ IsRecords(t) /\ Len(t) = Len(q) /\ Len(q) \in Nat
      /\ \A i \in 1..Len(q) : t[i] = ForUser(u, q[i])
  BY ToUFacts
<1> HIDE DEF a, t
<1>3. PICK f : IsRun(f, a, u, t) /\ Performed(a, u, t) = f[Len(t)]
  BY <1>2, PerformedIsRun DEF IsRecords
<1>4. /\ f[0] = a
      /\ \A i \in 1..Len(q) : f[i] = Apply(f[i - 1], u, t[i]) /\ i - 1 \in 0..Len(q)
      /\ \A i \in 0..Len(q) : IsWork(f[i])
  <2>1. InSteps(f, a, u, t)
    BY <1>1, <1>2, <1>3, RunShape
  <2> QED BY <1>2, <2>1 DEF InSteps
<1> HIDE DEF b
<1> DEFINE T == {j \in 0..Len(q) : f[j].cnt = 0 /\ Holds(f, j)}
<1>5. 0 \in T
  BY <1>1, <1>2, <1>4
<1>6. ASSUME NEW j \in 1..Len(q), j - 1 \in T
      PROVE  j \in T
  <2>1. IsWork(f[j - 1]) /\ f[j - 1].cnt = 0 /\ f[j] = Apply(f[j - 1], u, ForUser(u, q[j]))
    BY <1>2, <1>4, <1>6
  <2>2. IsCommand(q[j].cmd)
    BY <1>6 DEF IsQueue
  <2> DEFINE s == q[j]
  <2> HIDE DEF s
  <2>3. f[j] = Heard(f[j - 1], u, s) /\ f[j].cnt = 0
    <3>1. /\ Apply(f[j - 1], u, ForUser(u, s)) = Heard(f[j - 1], u, s)
          /\ Heard(f[j - 1], u, s).cnt = 0
      BY <2>1, <2>2, HeardIs DEF s
    <3> QED BY <2>1, <3>1 DEF s
  <2>4. CASE q[j].to = u
    <3>1. ~\E i \in 1..(j - 1) : q[i].to = u
      BY <1>2, <1>6, <2>4
    <3>2. f[j - 1] = a
      BY <1>6, <3>1
    <3>3. f[j] = b
      BY <1>1, <1>6, <2>3, <2>4, <3>2 DEF Heard, b, s
    <3> QED BY <1>6, <2>3, <2>4, <3>3
  <2>5. CASE q[j].to # u
    <3>1. f[j] = f[j - 1]
      BY <2>3, <2>5 DEF Heard, s
    <3>2. (\E i \in 1..j : q[i].to = u) <=> \E i \in 1..(j - 1) : q[i].to = u
      BY <1>2, <2>5
    <3> QED BY <1>6, <2>3, <3>1, <3>2
  <2> QED BY <2>4, <2>5
<1>7. Len(q) \in T
  <2> HIDE DEF T
  <2>1. \A j \in 0..Len(q) : j \in T
    BY <1>2, <1>5, <1>6, UpTo
  <2> QED BY <1>2, <2>1
<1> QED BY <1>2, <1>3, <1>7 DEF Told, a, b, t

-----------------------------------------------------------------------------
(* What a queue brings to its users.                                       *)

\* The queue q takes the device of u from the view of B to the view of C.
Reaches(B, C, q, u) ==
  \A d : IsWork(d) /\ Knows(d, B, u) => Knows(Told(d, u, q), C, u)

\* What is known does not depend on the counter.
LEMMA KnowsAt ==
  ASSUME NEW d, IsWork(d), NEW B, NEW u, NEW n \in Nat
  PROVE  Knows(At(d, n, d.flash), B, u) <=> Knows(d, B, u)
BY AtFacts DEF Knows

\* Device d after all that q sends to its user u, once told of it or not at all.
LEMMA ReachesOnce ==
  ASSUME NEW B, NEW C, NEW u, NEW q, IsQueue(q), NEW c,
         \A i, j \in 1..Len(q) : q[i].to = u /\ q[j].to = u => i = j,
         \A i \in 1..Len(q) : q[i].to = u => q[i].cmd = c
  PROVE  /\ (\E i \in 1..Len(q) : q[i].to = u) /\ Teaches(c, u, B, C) => Reaches(B, C, q, u)
         /\ (\A i \in 1..Len(q) : q[i].to # u) /\ View(C, u) = View(B, u) => Reaches(B, C, q, u)
<1>1. ASSUME NEW d, IsWork(d), Knows(d, B, u)
      PROVE  /\ IsWork(At(d, 0, d.flash)) /\ Knows(At(d, 0, d.flash), B, u)
             /\ Told(d, u, q) = IF \E i \in 1..Len(q) : q[i].to = u
                                  THEN Perform(At(d, 0, d.flash), u, c) ELSE At(d, 0, d.flash)
  <2>1. IsWork(At(d, 0, d.flash)) /\ Knows(At(d, 0, d.flash), B, u)
    BY <1>1, AtFacts, KnowsAt
  <2>2. d.ok
    BY <1>1 DEF Knows
  <2>3. Told(d, u, q) = IF \E i \in 1..Len(q) : q[i].to = u
                          THEN Perform(At(d, 0, d.flash), u, c) ELSE At(d, 0, d.flash)
    BY <1>1, <2>2, ToldOnce
  <2> QED BY <2>1, <2>3
<1>2. ASSUME \E i \in 1..Len(q) : q[i].to = u, Teaches(c, u, B, C)
      PROVE  Reaches(B, C, q, u)
  BY <1>1, <1>2 DEF Reaches, Teaches
<1>3. ASSUME \A i \in 1..Len(q) : q[i].to # u, View(C, u) = View(B, u)
      PROVE  Reaches(B, C, q, u)
  BY <1>1, <1>3 DEF Reaches, Knows
<1> QED BY <1>2, <1>3

\* A queue with nothing for u leaves its device where it is.
LEMMA ReachesNothing ==
  ASSUME NEW B, NEW u, NEW q, IsQueue(q), \A i \in 1..Len(q) : q[i].to # u
  PROVE  Reaches(B, B, q, u)
<1>1. (\A i \in 1..Len(q) : q[i].to # u) /\ View(B, u) = View(B, u) => Reaches(B, B, q, u)
  BY ReachesOnce
<1> QED BY <1>1

\* One queue after the other.
LEMMA ReachesConcat ==
  ASSUME NEW B, NEW C, NEW E, NEW u, NEW p, NEW q, IsQueue(p), IsQueue(q), IsQueue(p \o q),
         Reaches(B, C, p, u), Reaches(C, E, q, u)
  PROVE  Reaches(B, E, p \o q, u)
<1>1. SUFFICES ASSUME NEW d, IsWork(d), Knows(d, B, u)
               PROVE  Knows(Told(d, u, p \o q), E, u)
  BY DEF Reaches
<1>2. Told(d, u, p \o q) = Told(Told(d, u, p), u, q)
  BY <1>1, ToldConcat
<1>3. IsWork(Told(d, u, p))
  BY <1>1, ToldShape
<1>4. Knows(Told(d, u, p), C, u)
  BY <1>1 DEF Reaches
<1> QED BY <1>2, <1>3, <1>4 DEF Reaches

\* One command for each user of S.
LEMMA ReachesEach ==
  ASSUME NEW B, NEW C, NEW u, NEW q, IsQueue(q), NEW S, NEW cmds, NEW e, Each(q, S, cmds, e),
         u \in S => Teaches(cmds[u], u, B, C),
         u \notin S => View(C, u) = View(B, u)
  PROVE  Reaches(B, C, q, u)
<1>1. \A i, j \in 1..Len(q) : q[i].to = u /\ q[j].to = u => i = j
  BY DEF Each
<1>2. \A i \in 1..Len(q) : q[i].to = u => q[i].cmd = cmds[u]
  <2>1. \A i \in 1..Len(q) : q[i].cmd = cmds[q[i].to]
    BY SendFields DEF Each
  <2> QED BY <2>1
<1>3. CASE u \in S
  BY <1>1, <1>2, <1>3, ReachesOnce DEF Each
<1>4. CASE u \notin S
  <2>1. \A i \in 1..Len(q) : q[i].to # u
    BY <1>4 DEF Each
  <2> QED BY <1>1, <1>2, <1>4, <2>1, ReachesOnce
<1> QED BY <1>3, <1>4

-----------------------------------------------------------------------------
(* The tables with another row for u itself: a device whose init file was  *)
(* written before the last change of its user's row has the row of then.   *)

Own(A, u, x) == [users |-> [v \in DOMAIN A.users |-> IF v = u THEN x ELSE A.users[v]],
                 groups |-> A.groups, member |-> A.member, keys |-> A.keys]

\* A database is its four tables.
LEMMA DbSame ==
  ASSUME NEW a, NEW b, IsDb(a), IsDb(b), a.users = b.users, a.groups = b.groups,
         a.member = b.member, a.keys = b.keys
  PROVE  a = b
BY DEF IsDb

IsOwn(A, u, x, B) ==
  /\ Tidy(B) /\ DOMAIN B.users = DOMAIN A.users
  /\ B.users[u] = x
  /\ \A v \in DOMAIN A.users : v # u => B.users[v] = A.users[v]
  /\ B.users = [v \in DOMAIN B.users |-> B.users[v]]
  /\ B.groups = A.groups /\ B.member = A.member /\ B.keys = A.keys

\* The tables in which the own row of u is x.
LEMMA OwnFacts ==
  ASSUME NEW A, Tidy(A), NEW u \in DOMAIN A.users, NEW x \in UserRow
  PROVE  IsOwn(A, u, x, Own(A, u, x))
<1> DEFINE t == [v \in DOMAIN A.users |-> IF v = u THEN x ELSE A.users[v]]
           B == Own(A, u, x)
<1>1. IsDb(B) /\ B.users = t /\ B.groups = A.groups /\ B.member = A.member /\ B.keys = A.keys
  <2>1. B = [users |-> t, groups |-> A.groups, member |-> A.member, keys |-> A.keys]
    BY DEF Own
  <2> HIDE DEF B, t
  <2> QED BY <2>1, DbFields
<1>2. /\ DOMAIN t = DOMAIN A.users /\ t[u] = x
      /\ \A v \in DOMAIN A.users : v # u => t[v] = A.users[v]
      /\ t = [v \in DOMAIN t |-> t[v]]
  OBVIOUS
<1>3. IsTable(t, User, UserRow)
  BY DEF Tidy, AreTables, IsTable
<1> HIDE DEF t, B
<1>4. AreTables(B)
  BY <1>1, <1>3 DEF Tidy, AreTables
<1>5. \A g \in DOMAIN B.groups : Counted(B, g)
  <2>1. \A g : MembersOf(B, g) = MembersOf(A, g) /\ KeysOf(B, g) = KeysOf(A, g)
    BY <1>1 DEF MembersOf, KeysOf
  <2> QED BY <1>1, <2>1 DEF Tidy, Counted
<1>6. /\ \A m \in B.member : m[1] \in DOMAIN B.users /\ m[2] \in DOMAIN B.groups
      /\ \A k \in DOMAIN B.keys : B.keys[k].owner \in DOMAIN B.groups \cup {Zombie}
  BY <1>1, <1>2 DEF Tidy
<1>7. Tidy(B)
  BY <1>1, <1>4, <1>5, <1>6 DEF Tidy
<1>8. IsOwn(A, u, x, B)
  BY <1>1, <1>2, <1>7 DEF IsOwn
<1> QED BY <1>8 DEF B

\* These are the only such tables.
LEMMA OwnIs ==
  ASSUME NEW A, Tidy(A), NEW u \in DOMAIN A.users, NEW x \in UserRow,
         NEW B, Tidy(B), B.groups = A.groups, B.member = A.member, B.keys = A.keys,
         DOMAIN B.users = DOMAIN A.users, B.users[u] = x,
         \A v \in DOMAIN A.users : v # u => B.users[v] = A.users[v]
  PROVE  B = Own(A, u, x)
<1> DEFINE C == Own(A, u, x)
<1>1. IsOwn(A, u, x, C)
  BY OwnFacts
<1> HIDE DEF C
<1>2. IsDb(B) /\ IsDb(C) /\ B.users = [v \in DOMAIN B.users |-> B.users[v]]
  BY <1>1 DEF IsOwn, Tidy, AreTables, IsTable
<1>3. B.users = C.users
  BY <1>1, <1>2 DEF IsOwn
<1>4. B = C
  BY <1>1, <1>2, <1>3, DbSame DEF IsOwn
<1> QED BY <1>4 DEF C

\* With the administrator's row, they are the administrator's tables.
LEMMA OwnSame ==
  ASSUME NEW A, Tidy(A), NEW u \in DOMAIN A.users
  PROVE  A.users[u] \in UserRow /\ Own(A, u, A.users[u]) = A
<1>1. A.users[u] \in UserRow
  BY DEF Tidy, AreTables, IsTable
<1>2. A = Own(A, u, A.users[u])
  BY <1>1, OwnIs
<1> QED BY <1>1, <1>2

\* A change of the tables from A to B, and the queue q that is sent for it: a
\* device that had what A has for u, but for u's own row, will have what B has.
Learns(A, B, q, u) ==
  \/ B.users[u] = A.users[u] /\ \A x \in UserRow : Reaches(Own(A, u, x), Own(B, u, x), q, u)
  \/ \A x \in UserRow : Reaches(Own(A, u, x), B, q, u)

\* A call that sends each of S its own text brings u to the new tables.
LEMMA LearnsEach ==
  ASSUME NEW A, NEW B, NEW u, NEW q, IsQueue(q), NEW S, NEW cmds, NEW e, Each(q, S, cmds, e),
         B.users[u] = A.users[u],
         \A x \in UserRow :
           /\ u \in S => Teaches(cmds[u], u, Own(A, u, x), Own(B, u, x))
           /\ u \notin S => View(Own(B, u, x), u) = View(Own(A, u, x), u)
  PROVE  Learns(A, B, q, u)
<1>1. ASSUME NEW x \in UserRow
      PROVE  Reaches(Own(A, u, x), Own(B, u, x), q, u)
  <2> DEFINE X == Own(A, u, x)
             Y == Own(B, u, x)
  <2>1. /\ u \in S => Teaches(cmds[u], u, X, Y)
        /\ u \notin S => View(Y, u) = View(X, u)
    BY <1>1
  <2> HIDE DEF X, Y
  <2>2. Reaches(X, Y, q, u)
    BY <2>1, ReachesEach
  <2> QED BY <2>2 DEF X, Y
<1> QED BY <1>1 DEF Learns

\* Two users that share a group.
LEMMA PeersBoth ==
  ASSUME NEW A, Tidy(A), NEW u, NEW w
  PROVE  /\ u \in Peers(A, w) <=> w \in Peers(A, u)
         /\ u \in DOMAIN A.users => (u \in Seen(A, w) <=> u = w \/ u \in Peers(A, w))
<1>1. \A v, x : v \in Peers(A, x) <=> \E g : <<x, g>> \in A.member /\ <<v, g>> \in A.member
  <2>1. \A v, x : v \in Peers(A, x) <=> \E g \in GroupsOf(A, x) : <<v, g>> \in A.member
    BY Pairs DEF Tidy
  <2>2. \A x, g : g \in GroupsOf(A, x) <=> <<x, g>> \in A.member
    BY Pairs DEF Tidy
  <2> QED BY <2>1, <2>2
<1> QED BY <1>1 DEF Seen

\* A row of Users changes.
LEMMA LearnSetUser ==
  ASSUME NEW A, Tidy(A), NEW w \in DOMAIN A.users, NEW u \in DOMAIN A.users,
         NEW s, s = Set("users", w, "username", 1), NEW q, IsQueue(q),
         Each(q, Peers(A, w), [x \in Peers(A, w) |-> SQL(<<s>>)], TRUE),
         u = w => u \in Peers(A, w)
  PROVE  Learns(A, After(A, s), q, u)
<1> DEFINE B == After(A, s)
           S == Peers(A, w)
           cmds == [x \in S |-> SQL(<<s>>)]
           new == [username |-> 1]
<1>1. /\ Tidy(B) /\ B.groups = A.groups /\ B.member = A.member /\ B.keys = A.keys
      /\ B.users = [A.users EXCEPT ![w] = new]
  BY TidySetUser
<1>2. /\ DOMAIN B.users = DOMAIN A.users /\ B.users[w] = new
      /\ \A v \in DOMAIN A.users : v # w => B.users[v] = A.users[v]
  BY <1>1
<1>3. ASSUME NEW x \in UserRow
      PROVE  LET X == Own(A, u, x)
             IN  /\ IsOwn(A, u, x, X) /\ Tidy(X) /\ w \in DOMAIN X.users
                 /\ Tidy(After(X, s)) /\ After(X, s).groups = A.groups
                 /\ After(X, s).member = A.member /\ After(X, s).keys = A.keys
                 /\ After(X, s).users = [X.users EXCEPT ![w] = new]
                 /\ w \in Seen(X, u) <=> u = w \/ u \in S
                 /\ w \in Seen(X, u) => Teaches(SQL(<<s>>), u, X, After(X, s))
                 /\ w \notin Seen(X, u) => View(After(X, s), u) = View(X, u)
  <2> DEFINE X == Own(A, u, x)
  <2>1. IsOwn(A, u, x, X)
    BY OwnFacts
  <2> HIDE DEF X
  <2>2. Tidy(X) /\ w \in DOMAIN X.users /\ X.groups = A.groups /\ X.member = A.member /\ X.keys = A.keys
    BY <2>1 DEF IsOwn
  <2>3. /\ Tidy(After(X, s)) /\ After(X, s).groups = X.groups /\ After(X, s).member = X.member
        /\ After(X, s).keys = X.keys /\ After(X, s).users = [X.users EXCEPT ![w] = new]
    BY <2>2, TidySetUser
  <2>4. w \in Seen(X, u) <=> u = w \/ u \in S
    <3>1. Peers(X, u) = Peers(A, u)
      BY <2>2, SameMembers
    <3>2. u \in S <=> w \in Peers(A, u)
      BY PeersBoth
    <3>3. w \in Seen(X, u) <=> w = u \/ w \in Peers(X, u)
      BY <2>2 DEF Seen
    <3> QED BY <3>1, <3>2, <3>3
  <2>5. /\ w \in Seen(X, u) => Teaches(SQL(<<s>>), u, X, After(X, s))
        /\ w \notin Seen(X, u) => View(After(X, s), u) = View(X, u)
    BY <2>2, SetUserView
  <2> QED BY <2>1, <2>2, <2>3, <2>4, <2>5 DEF X
<1> HIDE DEF B
<1>4. CASE u = w
  <2>1. u \in S
    BY <1>4
  <2>2. ASSUME NEW x \in UserRow
        PROVE  Reaches(Own(A, u, x), B, q, u)
    <3> DEFINE X == Own(A, u, x)
               Y == After(X, s)
    <3>1. /\ IsOwn(A, u, x, X) /\ Tidy(Y) /\ Y.groups = A.groups
          /\ Y.member = A.member /\ Y.keys = A.keys /\ Y.users = [X.users EXCEPT ![w] = new]
          /\ Teaches(SQL(<<s>>), u, X, Y)
      BY <1>3, <1>4, <2>1, <2>2
    <3> HIDE DEF X, Y, new
    <3>2. Y.users = B.users
      <4>1. /\ DOMAIN Y.users = DOMAIN A.users /\ Y.users[w] = new
            /\ \A v \in DOMAIN A.users : v # w => Y.users[v] = A.users[v]
            /\ Y.users = [v \in DOMAIN Y.users |-> Y.users[v]]
        BY <1>4, <3>1 DEF IsOwn
      <4>2. B.users = [v \in DOMAIN B.users |-> B.users[v]]
        BY <1>1
      <4> QED BY <1>2, <4>1, <4>2
    <3>3. Y = B
      BY <1>1, <3>1, <3>2, DbSame DEF Tidy
    <3>4. cmds[u] = SQL(<<s>>)
      BY <2>1
    <3> HIDE DEF cmds
    <3>5. Each(q, S, cmds, TRUE)
      BY DEF cmds
    <3> HIDE DEF S
    <3>6. Reaches(X, Y, q, u)
      BY <2>1, <3>1, <3>4, <3>5, ReachesEach
    <3> QED BY <3>3, <3>6 DEF X
  <2> QED BY <2>2 DEF Learns, B
<1>5. CASE u # w
  <2>1. ASSUME NEW x \in UserRow
        PROVE  /\ u \in S => Teaches(cmds[u], u, Own(A, u, x), Own(B, u, x))
               /\ u \notin S => View(Own(B, u, x), u) = View(Own(A, u, x), u)
    <3> DEFINE X == Own(A, u, x)
               Y == After(X, s)
    <3>1. /\ IsOwn(A, u, x, X) /\ Tidy(Y) /\ Y.groups = A.groups
          /\ Y.member = A.member /\ Y.keys = A.keys /\ Y.users = [X.users EXCEPT ![w] = new]
          /\ u \in S => Teaches(SQL(<<s>>), u, X, Y)
          /\ u \notin S => View(Y, u) = View(X, u)
      BY <1>3, <1>5, <2>1
    <3> HIDE DEF X, Y, new
    <3>2. /\ DOMAIN Y.users = DOMAIN B.users /\ Y.users[u] = x
          /\ \A v \in DOMAIN B.users : v # u => Y.users[v] = B.users[v]
      BY <1>2, <1>5, <3>1 DEF IsOwn
    <3>3. u \in DOMAIN B.users
      BY <1>2
    <3>4. Y = Own(B, u, x)
      BY <1>1, <2>1, <3>1, <3>2, <3>3, OwnIs, SMTT(15)
    <3>5. u \in S => cmds[u] = SQL(<<s>>)
      OBVIOUS
    <3> QED BY <3>1, <3>4, <3>5 DEF X
  <2>2. B.users[u] = A.users[u]
    BY <1>2, <1>5
  <2> HIDE DEF cmds
  <2>3. Each(q, S, cmds, TRUE)
    BY DEF cmds
  <2> HIDE DEF S
  <2>4. Learns(A, B, q, u)
    BY <2>1, <2>2, <2>3, LearnsEach
  <2> QED BY <2>4 DEF B
<1> QED BY <1>4, <1>5

\* The same for one text for all of S.
LEMMA LearnsAll ==
  ASSUME NEW A, NEW B, NEW u, NEW q, IsQueue(q), NEW S, NEW c, NEW e,
         Each(q, S, [x \in S |-> c], e), B.users[u] = A.users[u],
         \A x \in UserRow :
           /\ u \in S => Teaches(c, u, Own(A, u, x), Own(B, u, x))
           /\ u \notin S => View(Own(B, u, x), u) = View(Own(A, u, x), u)
  PROVE  Learns(A, B, q, u)
<1> DEFINE cmds == [x \in S |-> c]
<1>1. u \in S => cmds[u] = c
  OBVIOUS
<1> HIDE DEF cmds
<1>2. Each(q, S, cmds, e)
  BY DEF cmds
<1>3. \A x \in UserRow :
           /\ u \in S => Teaches(cmds[u], u, Own(A, u, x), Own(B, u, x))
           /\ u \notin S => View(Own(B, u, x), u) = View(Own(A, u, x), u)
  BY <1>1
<1> QED BY <1>2, <1>3, LearnsEach

\* A row of Groups changes.
LEMMA LearnSetGroup ==
  ASSUME NEW A, Tidy(A), NEW g \in DOMAIN A.groups, NEW c \in GroupColumn,
         NEW u \in DOMAIN A.users,
         NEW s, s = Set("groups", g, c, 1), NEW q, IsQueue(q),
         Each(q, MembersOf(A, g), [x \in MembersOf(A, g) |-> SQL(<<s>>)], TRUE)
  PROVE  Learns(A, After(A, s), q, u)
<1> DEFINE B == After(A, s)
           S == MembersOf(A, g)
<1>1. /\ Tidy(B) /\ B.users = A.users /\ B.member = A.member /\ B.keys = A.keys
      /\ B.groups = [A.groups EXCEPT ![g][c] = 1]
  BY TidySetGroup
<1>2. ASSUME NEW x \in UserRow
      PROVE  /\ u \in S => Teaches(SQL(<<s>>), u, Own(A, u, x), Own(B, u, x))
             /\ u \notin S => View(Own(B, u, x), u) = View(Own(A, u, x), u)
  <2> DEFINE X == Own(A, u, x)
             Y == After(X, s)
  <2>1. IsOwn(A, u, x, X)
    BY <1>2, OwnFacts
  <2> HIDE DEF X
  <2>2. /\ Tidy(X) /\ g \in DOMAIN X.groups /\ X.groups = A.groups /\ X.member = A.member
        /\ X.keys = A.keys
    BY <2>1 DEF IsOwn
  <2>3. /\ Tidy(Y) /\ Y.users = X.users /\ Y.member = X.member /\ Y.keys = X.keys
        /\ Y.groups = [X.groups EXCEPT ![g][c] = 1]
    BY <2>2, TidySetGroup
  <2>4. /\ g \in GroupsOf(X, u) => Teaches(SQL(<<s>>), u, X, Y)
        /\ g \notin GroupsOf(X, u) => View(Y, u) = View(X, u)
    BY <2>2, SetGroupView
  <2> HIDE DEF Y, B
  <2>5. Y = Own(B, u, x)
    BY <1>1, <1>2, <2>1, <2>2, <2>3, OwnIs DEF IsOwn
  <2>6. u \in S <=> g \in GroupsOf(X, u)
    BY <2>2, Pairs DEF Tidy
  <2> QED BY <2>4, <2>5, <2>6 DEF X
<1> HIDE DEF B, S
<1>3. Learns(A, B, q, u)
  BY <1>1, <1>2, LearnsAll DEF S
<1> QED BY <1>3 DEF B

\* A row of SeKeys changes.
LEMMA LearnSetKey ==
  ASSUME NEW A, Tidy(A), NEW k \in DOMAIN A.keys, NEW c, NEW value, NEW u \in DOMAIN A.users,
         (c = "name" /\ value = 1) \/ (c = "status" /\ value \in Status),
         c = "status" => A.keys[k].status # "destroyed",
         NEW s, s = Set("keys", k, c, value), NEW q, IsQueue(q), NEW S,
         \A v : v \in S <=> A.keys[k].owner # Zombie /\ <<v, A.keys[k].owner>> \in A.member,
         Each(q, S, [x \in S |-> SQL(<<s>>)], TRUE)
  PROVE  Learns(A, After(A, s), q, u)
<1> DEFINE B == After(A, s)
<1>1. /\ Tidy(B) /\ B.users = A.users /\ B.member = A.member /\ B.groups = A.groups
      /\ B.keys = [A.keys EXCEPT ![k][c] = value]
  <2>1. KeySet(A, k, c, value, B)
    BY TidySetKey
  <2> QED BY <2>1 DEF KeySet
<1>2. ASSUME NEW x \in UserRow
      PROVE  /\ u \in S => Teaches(SQL(<<s>>), u, Own(A, u, x), Own(B, u, x))
             /\ u \notin S => View(Own(B, u, x), u) = View(Own(A, u, x), u)
  <2> DEFINE X == Own(A, u, x)
             Y == After(X, s)
  <2>1. IsOwn(A, u, x, X)
    BY <1>2, OwnFacts
  <2> HIDE DEF X
  <2>2. /\ Tidy(X) /\ k \in DOMAIN X.keys /\ X.groups = A.groups /\ X.member = A.member
        /\ X.keys = A.keys
    BY <2>1 DEF IsOwn
  <2>3. /\ Tidy(Y) /\ Y.users = X.users /\ Y.member = X.member /\ Y.groups = X.groups
        /\ Y.keys = [X.keys EXCEPT ![k][c] = value]
    <3> DEFINE Z == After(X, Set("keys", k, c, value))
    <3>1. (c = "name" /\ value = 1) \/ (c = "status" /\ value \in Status)
      OBVIOUS
    <3>2. /\ Tidy(Z) /\ Z.users = X.users /\ Z.member = X.member /\ Z.groups = X.groups
          /\ Z.keys = [X.keys EXCEPT ![k][c] = value]
      <4>1. KeySet(X, k, c, value, Z)
        BY ONLY <2>2, <3>1, TidySetKey
      <4> HIDE DEF Z
      <4> QED BY <4>1 DEF KeySet
    <3>3. Z = Y
      OBVIOUS
    <3> HIDE DEF Y, Z
    <3> QED BY <3>2, <3>3
  <2>4. /\ k \in KeysFor(X, u) => Teaches(SQL(<<s>>), u, X, Y)
        /\ k \notin KeysFor(X, u) => View(Y, u) = View(X, u)
    BY <2>2, SetKeyView
  <2> HIDE DEF Y, B
  <2>5. Y = Own(B, u, x)
    BY <1>1, <1>2, <2>1, <2>2, <2>3, OwnIs DEF IsOwn
  <2>6. u \in S <=> k \in KeysFor(X, u)
    <3>1. k \in KeysFor(X, u) <=> A.keys[k].owner \in GroupsOf(X, u)
      BY <2>2 DEF KeysFor
    <3>2. A.keys[k].owner \in GroupsOf(X, u) <=> <<u, A.keys[k].owner>> \in A.member
      BY <2>2, Pairs DEF Tidy
    <3>3. <<u, A.keys[k].owner>> \in A.member => A.keys[k].owner # Zombie
      BY TablesAssumption DEF Tidy, AreTables
    <3> QED BY <3>1, <3>2, <3>3
  <2> QED BY <2>4, <2>5, <2>6 DEF X
<1> HIDE DEF B
<1>3. Learns(A, B, q, u)
  BY <1>1, <1>2, LearnsAll
<1> QED BY <1>3 DEF B

\* A group is made.
LEMMA LearnAddGroup ==
  ASSUME NEW A, Tidy(A), NEW g \in Group, g \notin DOMAIN A.groups, NEW u \in DOMAIN A.users,
         NEW B, Tidy(B), B.users = A.users, B.member = A.member, B.keys = A.keys,
         \A h \in DOMAIN A.groups : B.groups[h] = A.groups[h]
  PROVE  Learns(A, B, <<>>, u)
<1>1. IsQueue(<<>>)
  BY NoQueue
<1>2. ASSUME NEW x \in UserRow
      PROVE  Reaches(Own(A, u, x), Own(B, u, x), <<>>, u)
  <2> DEFINE X == Own(A, u, x)
             Y == Own(B, u, x)
  <2>1. IsOwn(A, u, x, X) /\ IsOwn(B, u, x, Y)
    BY <1>2, OwnFacts
  <2> HIDE DEF X, Y
  <2>2. /\ Tidy(X) /\ Tidy(Y) /\ Y.member = X.member /\ Y.keys = X.keys
        /\ DOMAIN Y.users = DOMAIN X.users /\ \A v \in DOMAIN X.users : Y.users[v] = X.users[v]
        /\ \A h \in DOMAIN X.groups : Y.groups[h] = X.groups[h]
    BY <2>1 DEF IsOwn
  <2>3. GroupsOf(Y, u) = GroupsOf(X, u)
    BY <2>2, SameMembers
  <2>4. \A h \in GroupsOf(X, u) : /\ Y.groups[h] = X.groups[h] /\ KeysOf(Y, h) = KeysOf(X, h)
                                  /\ \A k \in KeysOf(X, h) : Y.keys[k] = X.keys[k]
    <3>1. GroupsOf(X, u) \subseteq DOMAIN X.groups
      BY <2>2, ViewTidy
    <3> QED BY <2>2, <3>1 DEF KeysOf
  <2>5. AreTables(X) /\ AreTables(Y)
    BY <2>2 DEF Tidy
  <2>6. /\ \A v \in User : \A h \in GroupsOf(X, u) : <<v, h>> \in Y.member <=> <<v, h>> \in X.member
        /\ \A v : v = u \/ v \in Peers(X, u) =>
             /\ v \in DOMAIN Y.users <=> v \in DOMAIN X.users
             /\ v \in DOMAIN X.users => Y.users[v] = X.users[v]
    BY <2>2
  <2>7. View(Y, u) = View(X, u)
    BY ONLY <2>3, <2>4, <2>5, <2>6, ViewApart
  <2>8. \A i \in 1..Len(<<>>) : <<>>[i].to # u
    OBVIOUS
  <2>9. Reaches(X, X, <<>>, u)
    BY <1>1, <2>8, ReachesNothing
  <2>10. Reaches(X, Y, <<>>, u)
    BY <2>7, <2>9 DEF Reaches, Knows
  <2> QED BY <2>10 DEF X, Y
<1> QED BY <1>2 DEF Learns

\* The same command to all of S, and to w last.
LEMMA ReachesAllAndOne ==
  ASSUME NEW X, NEW Y, NEW u, NEW p, NEW w \in User, NEW S, NEW c, IsCommand(c), IsQueue(p),
         Each(p, S \ {w}, [x \in S \ {w} |-> c], TRUE),
         IsQueue(p \o <<Send(w, c, TRUE)>>),
         u = w \/ u \in S => Teaches(c, u, X, Y),
         u # w /\ u \notin S => View(Y, u) = View(X, u)
  PROVE  Reaches(X, Y, p \o <<Send(w, c, TRUE)>>, u)
<1> DEFINE r == <<Send(w, c, TRUE)>>
           T == S \ {w}
           cmds == [x \in T |-> c]
<1>1. /\ IsQueue(r) /\ Len(r) = 1 /\ r[1].to = w /\ r[1].cmd = c
  <2> DEFINE s == Send(w, c, TRUE)
  <2>1. s.to = w /\ s.cmd = c /\ s.erase \in BOOLEAN
    BY DEF Send
  <2> HIDE DEF s
  <2>2. IsSeq(<<s>>) /\ Len(<<s>>) = 1 /\ <<s>>[1] = s
    BY NoneAndOneSeq
  <2>3. IsQueue(<<s>>)
    BY <2>1, <2>2 DEF IsQueue
  <2> QED BY <2>1, <2>2, <2>3 DEF s
<1>2. u \in T => cmds[u] = c
  OBVIOUS
<1>3. u \in T <=> u \in S /\ u # w
  OBVIOUS
<1> HIDE DEF r, T, cmds
<1>4. Each(p, T, cmds, TRUE)
  BY DEF T, cmds
<1>5. IsQueue(p \o r)
  BY DEF r
<1>6. CASE u = w
  <2>1. \A i \in 1..Len(p) : p[i].to # u
    BY <1>3, <1>4, <1>6 DEF Each
  <2>2. Reaches(X, X, p, u)
    BY <2>1, ReachesNothing
  <2>3. /\ \A i, j \in 1..Len(r) : r[i].to = u /\ r[j].to = u => i = j
        /\ \A i \in 1..Len(r) : r[i].to = u => r[i].cmd = c
        /\ \E i \in 1..Len(r) : r[i].to = u
    BY <1>1, <1>6
  <2>4. Reaches(X, Y, r, u)
    BY <1>1, <1>6, <2>3, ReachesOnce
  <2> QED BY <1>1, <1>5, <2>2, <2>4, ReachesConcat DEF r
<1>7. CASE u # w
  <2>1. Reaches(X, Y, p, u)
    BY <1>2, <1>3, <1>4, <1>7, ReachesEach
  <2>2. \A i \in 1..Len(r) : r[i].to # u
    BY <1>1, <1>7
  <2>3. Reaches(Y, Y, r, u)
    BY <1>1, <2>2, ReachesNothing
  <2> QED BY <1>1, <1>5, <2>1, <2>3, ReachesConcat DEF r
<1> QED BY <1>6, <1>7

\* A user leaves a group.
LEMMA LearnLeave ==
  ASSUME NEW A, Tidy(A), NEW w \in User, NEW g \in DOMAIN A.groups, <<w, g>> \in A.member,
         NEW u \in DOMAIN A.users, NEW p, IsQueue(p),
         Each(p, MembersOf(A, g) \ {w}, [x \in MembersOf(A, g) \ {w} |-> DelFromGroup(w, g)], TRUE),
         IsQueue(p \o <<Send(w, DelFromGroup(w, g), TRUE)>>)
  PROVE  Learns(A, LessMember(A, w, g), p \o <<Send(w, DelFromGroup(w, g), TRUE)>>, u)
<1> DEFINE B == LessMember(A, w, g)
           S == MembersOf(A, g)
           c == DelFromGroup(w, g)
           q == p \o <<Send(w, c, TRUE)>>
<1>1. /\ Tidy(B) /\ B.users = A.users /\ B.member = A.member \ {<<w, g>>} /\ B.keys = A.keys
      /\ B.groups = Moved(A.groups, g, "users_counter", -1)
  BY TidyLeave
<1>2. w \in S /\ IsCommand(c)
  BY FewCommands DEF MembersOf
<1> HIDE DEF B
<1>3. ASSUME NEW x \in UserRow
      PROVE  Reaches(Own(A, u, x), Own(B, u, x), q, u)
  <2> DEFINE X == Own(A, u, x)
             Y == Own(B, u, x)
  <2>1. IsOwn(A, u, x, X) /\ IsOwn(B, u, x, Y)
    BY <1>1, <1>3, OwnFacts
  <2> HIDE DEF X, Y
  <2>2. /\ Tidy(X) /\ g \in DOMAIN X.groups /\ <<w, g>> \in X.member
        /\ Tidy(Y) /\ Y.member = X.member \ {<<w, g>>} /\ Y.keys = X.keys
        /\ Y.groups = Moved(X.groups, g, "users_counter", -1)
    BY <1>1, <2>1 DEF IsOwn
  <2>3. Y.users = X.users
    BY <1>1, <2>1 DEF IsOwn
  <2>4. /\ u \in MembersOf(X, g) => Teaches(c, u, X, Y)
        /\ u \notin MembersOf(X, g) => View(Y, u) = View(X, u)
    BY <2>2, <2>3, LeaveView
  <2>5. MembersOf(X, g) = S
    BY <2>1, SameMembers DEF IsOwn
  <2> HIDE DEF S, c
  <2>6. Each(p, S \ {w}, [z \in S \ {w} |-> c], TRUE) /\ IsQueue(p \o <<Send(w, c, TRUE)>>)
    BY DEF S, c
  <2>7. /\ u = w \/ u \in S => Teaches(c, u, X, Y)
        /\ u # w /\ u \notin S => View(Y, u) = View(X, u)
    BY <1>2, <2>4, <2>5
  <2>8. Reaches(X, Y, q, u)
    BY <1>2, <2>6, <2>7, ReachesAllAndOne
  <2> QED BY <2>8 DEF X, Y
<1> HIDE DEF q
<1>4. Learns(A, B, q, u)
  BY <1>1, <1>3 DEF Learns
<1> QED BY <1>4 DEF B, q

\* A user is deleted.
LEMMA LearnDeleteUser ==
  ASSUME NEW A, Tidy(A), NEW w \in User, NEW u \in DOMAIN A.users, u # w, NEW p, IsQueue(p),
         Each(p, Peers(A, w) \ {w}, [x \in Peers(A, w) \ {w} |-> DelUser(w)], TRUE),
         IsQueue(p \o <<Send(w, DelUser(w), TRUE)>>)
  PROVE  Learns(A, LessUser(A, w), p \o <<Send(w, DelUser(w), TRUE)>>, u)
<1> DEFINE B == LessUser(A, w)
           S == Peers(A, w)
           c == DelUser(w)
           q == p \o <<Send(w, c, TRUE)>>
<1>1. UserGone(A, w, B)
  BY TidyDeleteUser
<1>2. /\ DOMAIN B.users = DOMAIN A.users \ {w}
      /\ \A v \in DOMAIN A.users : v # w => B.users[v] = A.users[v]
  BY <1>1 DEF Drop, Restrict, UserGone
<1>3. IsCommand(c) /\ u \in DOMAIN B.users
  BY <1>2, FewCommands
<1> HIDE DEF B
<1>4. ASSUME NEW x \in UserRow
      PROVE  Reaches(Own(A, u, x), Own(B, u, x), q, u)
  <2> DEFINE X == Own(A, u, x)
             Y == LessUser(X, w)
  <2>1. IsOwn(A, u, x, X)
    BY <1>4, OwnFacts
  <2> HIDE DEF X
  <2>2. Tidy(X) /\ X.member = A.member /\ X.keys = A.keys /\ X.groups = A.groups
    BY <2>1 DEF IsOwn
  <2>3. UserGone(X, w, Y)
    BY <2>2, TidyDeleteUser
  <2>4. /\ u \in Peers(X, w) => Teaches(c, u, X, Y)
        /\ u \notin Peers(X, w) => View(Y, u) = View(X, u)
    BY <2>2, DeleteUserView
  <2> HIDE DEF Y
  <2>5. Y = Own(B, u, x)
    <3>1. /\ DOMAIN Y.users = DOMAIN X.users \ {w}
          /\ \A v \in DOMAIN X.users : v # w => Y.users[v] = X.users[v]
      BY <2>3 DEF Drop, Restrict, UserGone
    <3>2. /\ DOMAIN Y.users = DOMAIN B.users /\ Y.users[u] = x
          /\ \A v \in DOMAIN B.users : v # u => Y.users[v] = B.users[v]
      BY <1>2, <1>3, <2>1, <3>1 DEF IsOwn
    <3>3. Y.groups = B.groups /\ Y.member = B.member /\ Y.keys = B.keys /\ Tidy(Y) /\ Tidy(B)
      BY <1>1, <2>2, <2>3 DEF UserGone
    <3> QED BY ONLY <1>3, <1>4, <3>2, <3>3, OwnIs
  <2>6. Peers(X, w) = S
    BY <2>2, SameMembers
  <2> HIDE DEF S, c
  <2>7. Each(p, S \ {w}, [z \in S \ {w} |-> c], TRUE) /\ IsQueue(p \o <<Send(w, c, TRUE)>>)
    BY DEF S, c
  <2>8. /\ u = w \/ u \in S => Teaches(c, u, X, Y)
        /\ u # w /\ u \notin S => View(Y, u) = View(X, u)
    BY <2>4, <2>6
  <2>9. Reaches(X, Y, q, u)
    BY <1>3, <2>7, <2>8, ReachesAllAndOne
  <2> QED BY <2>5, <2>9 DEF X
<1> HIDE DEF q
<1>5. Learns(A, B, q, u)
  BY <1>2, <1>4 DEF Learns
<1> QED BY <1>5 DEF B, q

\* One send to u, with command c.
OnceTo(q, u, c) ==
  /\ IsQueue(q) /\ \E i \in 1..Len(q) : q[i].to = u
  /\ \A i, j \in 1..Len(q) : q[i].to = u /\ q[j].to = u => i = j
  /\ \A i \in 1..Len(q) : q[i].to = u => q[i].cmd = c

\* A queue with one command for u is that command.
LEMMA ToldOneOf ==
  ASSUME NEW d, IsWork(d), d.ok, NEW u, NEW q, NEW c, OnceTo(q, u, c)
  PROVE  Told(d, u, q) = Perform(At(d, 0, d.flash), u, c)
<1>1. Told(d, u, q) = IF \E i \in 1..Len(q) : q[i].to = u
                        THEN Perform(At(d, 0, d.flash), u, c) ELSE At(d, 0, d.flash)
  <2>1. /\ IsQueue(q)
        /\ \A i, j \in 1..Len(q) : q[i].to = u /\ q[j].to = u => i = j
        /\ \A i \in 1..Len(q) : q[i].to = u => q[i].cmd = c
    BY DEF OnceTo
  <2> QED BY <2>1, ToldOnce
<1> QED BY <1>1 DEF OnceTo

\* Each of S has one send.
LEMMA EachOnce ==
  ASSUME NEW q, IsQueue(q), NEW S, NEW c, NEW e, Each(q, S, [x \in S |-> c], e), NEW u \in S
  PROVE  OnceTo(q, u, c)
<1> DEFINE cmds == [x \in S |-> c]
<1>1. cmds[u] = c
  OBVIOUS
<1> HIDE DEF cmds
<1>2. Each(q, S, cmds, e)
  BY DEF cmds
<1>3. \A i \in 1..Len(q) : q[i].cmd = cmds[q[i].to]
  BY <1>2, SendFields DEF Each
<1> QED BY <1>1, <1>2, <1>3 DEF OnceTo, Each

\* A group is deleted.
LEMMA LearnDeleteGroup ==
  ASSUME NEW A, Tidy(A), NEW g \in DOMAIN A.groups, NEW u \in DOMAIN A.users,
         NEW B, Tidy(B), B.users = A.users, B.member = {m \in A.member : m[2] # g},
         B.groups = Drop(A.groups, {g}), DOMAIN B.keys = DOMAIN A.keys,
         \A k \in DOMAIN A.keys : /\ A.keys[k].owner = g => B.keys[k].owner = Zombie
                                  /\ A.keys[k].owner # g => B.keys[k] = A.keys[k],
         NEW q, IsQueue(q),
         Each(q, MembersOf(A, g), [x \in MembersOf(A, g) |-> DelGroup(g)], TRUE)
  PROVE  Learns(A, B, q, u)
<1> DEFINE S == MembersOf(A, g)
           c == DelGroup(g)
<1>1. ASSUME NEW x \in UserRow
      PROVE  /\ u \in S => Teaches(c, u, Own(A, u, x), Own(B, u, x))
             /\ u \notin S => View(Own(B, u, x), u) = View(Own(A, u, x), u)
  <2> DEFINE X == Own(A, u, x)
             Y == Own(B, u, x)
  <2>1. IsOwn(A, u, x, X) /\ IsOwn(B, u, x, Y)
    BY <1>1, OwnFacts
  <2> HIDE DEF X, Y
  <2>2. /\ Tidy(X) /\ g \in DOMAIN X.groups
        /\ Tidy(Y) /\ Y.member = {m \in X.member : m[2] # g}
        /\ Y.groups = Drop(X.groups, {g}) /\ DOMAIN Y.keys = DOMAIN X.keys
    BY <2>1 DEF IsOwn
  <2>3. Y.users = X.users
    BY <2>1 DEF IsOwn
  <2>4. \A k \in DOMAIN X.keys : /\ X.keys[k].owner = g => Y.keys[k].owner = Zombie
                                 /\ X.keys[k].owner # g => Y.keys[k] = X.keys[k]
    BY <2>1 DEF IsOwn
  <2>5. /\ u \in MembersOf(X, g) => Teaches(c, u, X, Y)
        /\ u \notin MembersOf(X, g) => View(Y, u) = View(X, u)
    BY ONLY <2>2, <2>3, <2>4, DelGroupView
  <2>6. MembersOf(X, g) = S
    BY <2>1, SameMembers DEF IsOwn
  <2> QED BY <2>5, <2>6 DEF X, Y
<1> HIDE DEF S, c
<1>2. Each(q, S, [x \in S |-> c], TRUE)
  BY DEF S, c
<1> QED BY <1>1, <1>2, LearnsAll

\* A key is made.
LEMMA LearnAddKey ==
  ASSUME NEW A, Tidy(A), NEW k \in Key, k \notin DOMAIN A.keys, NEW g \in DOMAIN A.groups,
         NEW u \in DOMAIN A.users,
         NEW s, s = KeyInsert(k, g),
         NEW t, t = Count("keys_counter", g, 1),
         NEW p, NEW q, IsQueue(p), IsQueue(q), IsQueue(p \o q),
         Each(p, MembersOf(A, g), [x \in MembersOf(A, g) |-> SQL(<<s, t>>)], FALSE),
         Each(q, MembersOf(A, g), [x \in MembersOf(A, g) |-> KeyData(k)], TRUE)
  PROVE  Learns(A, MoreKey(A, k, g), p \o q, u)
<1> DEFINE B == MoreKey(A, k, g)
           S == MembersOf(A, g)
           c == SQL(<<s, t>>)
           e == KeyData(k)
<1>1. KeyAdded(A, k, g, B)
  BY TidyAddKey
<1>2. IsCommand(c) /\ IsCommand(e) /\ e.type = "KEY_DATA"
  <2>1. IsStatement(s) /\ IsStatement(t)
    BY StatementKinds DEF KeyInsert
  <2>2. e.type = "KEY_DATA"
    BY DEF KeyData
  <2> HIDE DEF e
  <2>3. IsCommand(e)
    BY <2>2 DEF IsCommand
  <2> QED BY <2>1, <2>2, <2>3, FewCommands
<1> HIDE DEF B
<1>3. ASSUME NEW x \in UserRow
      PROVE  Reaches(Own(A, u, x), Own(B, u, x), p \o q, u)
  <2> DEFINE X == Own(A, u, x)
             Y == MoreKey(X, k, g)
  <2>1. IsOwn(A, u, x, X)
    BY <1>3, OwnFacts
  <2> HIDE DEF X
  <2>2. Tidy(X) /\ X.member = A.member /\ X.keys = A.keys /\ X.groups = A.groups
    BY <2>1 DEF IsOwn
  <2>3. KeyAdded(X, k, g, Y)
    BY <2>2, TidyAddKey
  <2>4. /\ u \in MembersOf(X, g) => TeachesKey(s, t, k, u, X, Y)
        /\ u \notin MembersOf(X, g) => View(Y, u) = View(X, u)
    BY <2>2, AddKeyView
  <2> HIDE DEF Y
  <2>5. Y = Own(B, u, x)
    <3>1. Y.keys = B.keys
      <4>1. /\ DOMAIN Y.keys = DOMAIN B.keys
            /\ \A z \in DOMAIN B.keys : Y.keys[z] = B.keys[z]
        BY <1>1, <2>2, <2>3 DEF KeyAdded
      <4>2. Y.keys = [z \in DOMAIN Y.keys |-> Y.keys[z]] /\ B.keys = [z \in DOMAIN B.keys |-> B.keys[z]]
        BY <1>1, <2>3 DEF KeyAdded
      <4> QED BY <4>1, <4>2
    <3>2. /\ Tidy(Y) /\ Tidy(B) /\ Y.groups = B.groups /\ Y.member = B.member
          /\ B.users = A.users /\ Y.users = X.users
      BY <1>1, <2>2, <2>3 DEF KeyAdded
    <3>3. /\ u \in DOMAIN B.users /\ DOMAIN Y.users = DOMAIN B.users /\ Y.users[u] = x
          /\ \A v \in DOMAIN B.users : v # u => Y.users[v] = B.users[v]
      BY <2>1, <3>2 DEF IsOwn
    <3> QED BY ONLY <1>3, <3>1, <3>2, <3>3, OwnIs
  <2>6. MembersOf(X, g) = S
    BY <2>2, SameMembers
  <2> HIDE DEF S, c, e
  <2>7. Each(p, S, [z \in S |-> c], FALSE) /\ Each(q, S, [z \in S |-> e], TRUE)
    BY DEF S, c, e
  <2>8. CASE u \notin S
    <3>1. /\ \A i \in 1..Len(p) : p[i].to # u
          /\ \A i \in 1..Len(q) : q[i].to # u
      BY <2>7, <2>8, ZenonT(30) DEF Each
    <3>2. Reaches(X, X, p, u) /\ Reaches(X, X, q, u)
      BY <3>1, ReachesNothing
    <3>3. Reaches(X, X, p \o q, u)
      BY <3>2, ReachesConcat
    <3>4. Reaches(X, Y, p \o q, u)
      BY <2>4, <2>6, <2>8, <3>3 DEF Reaches, Knows
    <3> QED BY <2>5, <3>4 DEF X
  <2>9. CASE u \in S
    <3>1. SUFFICES ASSUME NEW d, IsWork(d), Knows(d, X, u)
                   PROVE  Knows(Told(d, u, p \o q), Y, u)
      BY <2>5 DEF Reaches, X
    <3> DEFINE a == At(d, 0, d.flash)
               b == Perform(a, u, c)
    <3>2. IsWork(a) /\ Knows(a, X, u) /\ a.cnt = 0 /\ d.ok
      BY <3>1, AtFacts, KnowsAt DEF Knows
    <3>3. OnceTo(p, u, c) /\ OnceTo(q, u, e)
      BY <2>7, <2>9, EachOnce
    <3>4. Told(d, u, p) = b
      BY <3>1, <3>2, <3>3, ToldOneOf
    <3> HIDE DEF a
    <3>5. IsWork(b) /\ b.cnt = 0
      BY <1>2, <3>2, PerformShape
    <3> HIDE DEF b
    <3>6. Knows(Perform(b, u, e), Y, u)
      BY <2>4, <2>6, <2>9, <3>2 DEF b, TeachesKey, c, e
    <3>7. b.ok
      <4>1. Perform(b, u, e).ok => b.ok
        <5> DEFINE fits == u \in DOMAIN b.db.users /\ b.updkeys
        <5>1. Perform(b, u, e) = [db |-> b.db, cnt |-> b.cnt, updkeys |-> b.updkeys,
                ok |-> IF fits THEN b.ok ELSE FALSE,
                flash |-> IF fits THEN b.flash \cup {e.key} ELSE b.flash]
          BY <1>2, <3>5, PerformKeyData
        <5> HIDE DEF fits
        <5> QED BY <5>1
      <4> QED BY <3>6, <4>1 DEF Knows
    <3>8. At(b, 0, b.flash) = b
      BY <3>5, AtFacts
    <3>9. Told(b, u, q) = Perform(b, u, e)
      BY <3>3, <3>5, <3>7, <3>8, ToldOneOf
    <3>10. Told(d, u, p \o q) = Told(Told(d, u, p), u, q)
      BY <3>1, ToldConcat
    <3> QED BY <3>4, <3>6, <3>9, <3>10
  <2> QED BY <2>8, <2>9
<1>4. Learns(A, B, p \o q, u)
  BY <1>1, <1>3 DEF Learns, KeyAdded
<1> QED BY <1>4 DEF B

\* A user joins a group.  The contents of the group's keys, to the new member.
KeysTold(d, q, e) ==
  /\ e.ok /\ e.updkeys /\ e.db = d.db /\ d.flash \subseteq e.flash
  /\ \A i \in 1..Len(q) : q[i].cmd.key \in e.flash

\* A queue of KEY_DATA only adds keys to the flash.
LEMMA ToldKeys ==
  ASSUME NEW d, IsWork(d), d.ok, d.updkeys, NEW u, u \in DOMAIN d.db.users, NEW q, IsQueue(q),
         \A i \in 1..Len(q) : q[i].to = u /\ q[i].cmd.type = "KEY_DATA"
  PROVE  KeysTold(d, q, Told(d, u, q))
<1> DEFINE a == At(d, 0, d.flash)
           t == ToU(u, q)
<1>1. IsWork(a) /\ a.cnt = 0 /\ a.ok /\ a.updkeys /\ a.db = d.db /\ a.flash = d.flash
  BY AtFacts
<1>2. /\ IsRecords(t) /\ Len(t) = Len(q) /\ Len(q) \in Nat
      /\ \A i \in 1..Len(q) : t[i] = ForUser(u, q[i])
  BY ToUFacts
<1> HIDE DEF a, t
<1>3. PICK f : IsRun(f, a, u, t) /\ Performed(a, u, t) = f[Len(t)]
  BY <1>2, PerformedIsRun DEF IsRecords
<1>4. /\ f[0] = a
      /\ \A i \in 1..Len(q) : f[i] = Apply(f[i - 1], u, t[i]) /\ i - 1 \in 0..Len(q)
      /\ \A i \in 0..Len(q) : IsWork(f[i])
  <2>1. InSteps(f, a, u, t)
    BY <1>1, <1>2, <1>3, RunShape
  <2> QED BY <1>2, <2>1 DEF InSteps
<1> DEFINE Goes(e) == e.cnt = 0 /\ e.ok /\ e.updkeys /\ e.db = d.db /\ d.flash \subseteq e.flash
           T == {j \in 0..Len(q) : Goes(f[j]) /\ \A i \in 1..j : q[i].cmd.key \in f[j].flash}
<1>5. 0 \in T
  BY <1>1, <1>2, <1>4
<1>6. ASSUME NEW j \in 1..Len(q), j - 1 \in T
      PROVE  j \in T
  <2> DEFINE e == f[j - 1]
             c == q[j].cmd
             o == f[j]
  <2>1. IsWork(e) /\ Goes(e) /\ o = Apply(e, u, ForUser(u, q[j])) /\ j - 1 \in 0..Len(q)
    BY <1>2, <1>4, <1>6
  <2>2. IsCommand(c) /\ c.type = "KEY_DATA" /\ q[j].to = u
    BY <1>6 DEF IsQueue
  <2> HIDE DEF e, o
  <2>3. o = Perform(e, u, c)
    <3> DEFINE s == q[j]
    <3>1. IsCommand(s.cmd) /\ s.to = u
      BY <2>2
    <3> HIDE DEF s
    <3>2. Apply(e, u, ForUser(u, s)) = Heard(e, u, s)
      BY <2>1, <3>1, HeardIs
    <3>3. Apply(e, u, ForUser(u, s)) = Perform(e, u, s.cmd)
      BY <2>1, <3>1, <3>2 DEF Heard
    <3> QED BY <2>1, <3>3 DEF s
  <2> HIDE DEF c
  <2>4. Perform(e, u, c) = [db |-> e.db, cnt |-> e.cnt, updkeys |-> e.updkeys, ok |-> e.ok,
                            flash |-> e.flash \cup {c.key}]
    <3>1. u \in DOMAIN e.db.users /\ e.updkeys
      BY <2>1
    <3> HIDE DEF Goes
    <3> QED BY <2>1, <2>2, <3>1, PerformKeyData
  <2>5. Goes(o) /\ o.flash = e.flash \cup {c.key}
    BY <2>1, <2>3, <2>4
  <2>6. \A i \in 1..j : q[i].cmd.key \in o.flash
    <3> TAKE i \in 1..j
    <3>1. CASE i = j
      BY <2>5, <3>1 DEF c
    <3>2. CASE i # j
      <4>1. i \in 1..(j - 1)
        BY <3>2
      <4> QED BY <1>6, <2>5, <4>1 DEF e
    <3> QED BY <3>1, <3>2
  <2> QED BY <1>2, <1>6, <2>5, <2>6 DEF o
<1>7. Len(q) \in T
  <2> HIDE DEF T
  <2>1. \A j \in 0..Len(q) : j \in T
    BY <1>2, <1>5, <1>6, UpTo
  <2> QED BY <1>2, <2>1
<1>8. Told(d, u, q) = f[Len(q)]
  BY <1>2, <1>3 DEF Told, a, t
<1> QED BY <1>7, <1>8 DEF KeysTold

-----------------------------------------------------------------------------
\* What the first two statements of every text do to tables without the pair.
JoinInsert(u, g) == Insert(<<>>, <<>>, {<<u, g>>}, <<>>)
JoinCount(g) == Count("users_counter", g, 1)

\* What joining a group does to the tables of a device.
LEMMA JoinedFields ==
  ASSUME NEW V, IsDb(V), V.users = [x \in DOMAIN V.users |-> V.users[x]],
         V.groups = [x \in DOMAIN V.groups |-> V.groups[x]],
         V.keys = [x \in DOMAIN V.keys |-> V.keys[x]],
         NEW u, NEW g, <<u, g>> \notin V.member, g \in DOMAIN V.groups
  PROVE  LET E == After(After(V, JoinInsert(u, g)), JoinCount(g))
         IN  /\ Executes(V, JoinInsert(u, g)) /\ IsDb(E)
             /\ E.users = V.users /\ E.groups = Moved(V.groups, g, "users_counter", 1)
             /\ E.member = V.member \cup {<<u, g>>} /\ E.keys = V.keys
<1> DEFINE s == JoinInsert(u, g)
           D == After(V, s)
           t == JoinCount(g)
           E == After(D, t)
           ms == V.member \cup {<<u, g>>}
           gs == Moved(V.groups, g, "users_counter", 1)
<1>1. /\ s.do = "insert" /\ s.rows.users = <<>> /\ s.rows.groups = <<>> /\ s.rows.keys = <<>>
      /\ s.rows.member = {<<u, g>>}
  BY DEF JoinInsert, Insert
<1>2. DOMAIN <<>> = {}
  OBVIOUS
<1> HIDE DEF s
<1>3. Executes(V, s)
  BY <1>1, <1>2 DEF Executes
<1>4. D = [users |-> V.users, groups |-> V.groups, member |-> ms, keys |-> V.keys]
  <2>1. Plus(V.users, <<>>) = V.users /\ Plus(V.groups, <<>>) = V.groups /\ Plus(V.keys, <<>>) = V.keys
    BY <1>2 DEF Plus
  <2> QED BY <1>1, <2>1 DEF After
<1> HIDE DEF D, ms
<1>5. IsDb(D) /\ D.users = V.users /\ D.groups = V.groups /\ D.member = ms /\ D.keys = V.keys
  BY <1>4, DbFields
<1>6. E = [D EXCEPT !.groups = gs]
  <2>1. E = [D EXCEPT !.groups[g]["users_counter"] = @ + 1]
    BY <1>5 DEF After, JoinCount, Count
  <2> HIDE DEF E
  <2> QED BY <1>5, <2>1 DEF Moved
<1> HIDE DEF E, gs
<1>7. IsDb(E) /\ E.users = D.users /\ E.groups = gs /\ E.member = D.member /\ E.keys = D.keys
  BY <1>5, <1>6, DbWith
<1> QED BY <1>3, <1>5, <1>7 DEF s, D, t, E, ms, gs

\* An INSERT of rows that are not there.
Inserted(V, us, gs, ms, ks, s, D) ==
  /\ Executes(V, s) /\ IsStatement(s) /\ IsDb(D)
  /\ D.users = Plus(V.users, us) /\ D.groups = Plus(V.groups, gs)
  /\ D.member = V.member \cup ms /\ D.keys = Plus(V.keys, ks)

\* What an insert does whose rows are new.
LEMMA InsertFields ==
  ASSUME NEW V, NEW us, NEW gs, NEW ms, NEW ks,
         DOMAIN V.users \cap DOMAIN us = {}, DOMAIN V.groups \cap DOMAIN gs = {},
         DOMAIN V.keys \cap DOMAIN ks = {}, V.member \cap ms = {},
         NEW s, s = Insert(us, gs, ms, ks)
  PROVE  Inserted(V, us, gs, ms, ks, s, After(V, s))
<1> DEFINE D == After(V, s)
<1>1. /\ s.do = "insert" /\ s.rows.users = us /\ s.rows.groups = gs /\ s.rows.keys = ks
      /\ s.rows.member = ms /\ IsStatement(s)
  BY InsertIsStatement DEF Insert
<1>2. Executes(V, s)
  BY <1>1 DEF Executes
<1>3. D = [users |-> Plus(V.users, us), groups |-> Plus(V.groups, gs),
           member |-> V.member \cup ms, keys |-> Plus(V.keys, ks)]
  BY <1>1 DEF After
<1> HIDE DEF D
<1>4. /\ IsDb(D) /\ D.users = Plus(V.users, us) /\ D.groups = Plus(V.groups, gs)
      /\ D.member = V.member \cup ms /\ D.keys = Plus(V.keys, ks)
  BY <1>3, DbFields
<1> QED BY <1>1, <1>2, <1>4 DEF D, Inserted

\* The rows of two sets are the rows of their union.
LEMMA PlusRestrict ==
  ASSUME NEW f, NEW S, NEW T
  PROVE  /\ Plus(Restrict(f, S), Restrict(f, T)) = Restrict(f, S \cup T)
         /\ DOMAIN Restrict(f, S) = S
BY DEF Plus, Restrict

\* The first two statements of a text make the tables MoreMember makes of the
\* tables they are executed on.
TextGives(c, u, V, W) ==
  \A d : IsWork(d) /\ d.ok /\ d.db = V => Became(d, Perform(d, u, c), W)

\* A text that makes the new view from the old one teaches it.
LEMMA TextTeaches ==
  ASSUME NEW c, NEW u, NEW B, NEW C, TextGives(c, u, View(B, u), View(C, u)),
         Needed(View(C, u)) \subseteq Needed(View(B, u))
  PROVE  Teaches(c, u, B, C)
<1> SUFFICES ASSUME NEW d, IsWork(d), Knows(d, B, u)
             PROVE  Knows(Perform(d, u, c), C, u)
  BY DEF Teaches
<1>1. d.ok /\ d.updkeys /\ d.db = View(B, u) /\ Needed(d.db) \subseteq d.flash
  BY DEF Knows
<1>2. Became(d, Perform(d, u, c), View(C, u))
  BY <1>1 DEF TextGives
<1> QED BY <1>1, <1>2 DEF Became, Knows

\* A text of two statements, as a step from tables to tables.
LEMMA TwoGive ==
  ASSUME NEW u, NEW s, NEW t, IsStatement(s), IsStatement(t), NEW V, Executes(V, s),
         t.do # "insert"
  PROVE  TextGives(SQL(<<s, t>>), u, V, After(After(V, s), t))
BY PerformTwo DEF TextGives

\* And one of three.
LEMMA ThreeGive ==
  ASSUME NEW u, NEW s, NEW t, NEW r, IsStatement(s), IsStatement(t), IsStatement(r),
         NEW V, NEW D, NEW E, NEW F, Executes(V, s), D = After(V, s),
         Executes(D, t), E = After(D, t), Executes(E, r), F = After(E, r)
  PROVE  TextGives(SQL(<<s, t, r>>), u, V, F)
BY PerformThree DEF TextGives

\* The statements of a join are statements.
LEMMA JoinKinds ==
  \A u, g : /\ IsStatement(JoinInsert(u, g)) /\ IsStatement(JoinCount(g))
            /\ JoinCount(g).do = "count" /\ \A db : Executes(db, JoinCount(g))
<1> TAKE u, g
<1>1. IsStatement(JoinInsert(u, g)) /\ IsStatement(JoinCount(g)) /\ JoinCount(g).do = "count"
  BY StatementKinds DEF JoinInsert, JoinCount
<1> QED BY <1>1 DEF Executes

\* w joins g: what its members are told, and who else is not concerned.
ToldOfMember(B, u, w, g) ==
  IF GroupsOf(B, u) \cap GroupsOf(B, w) # {}
    THEN <<JoinInsert(w, g), JoinCount(g)>>
    ELSE <<JoinInsert(w, g), JoinCount(g), Insert(Restrict(B.users, {w}), <<>>, {}, <<>>)>>

JoinsTo(B, w, g, C) ==
  /\ Tidy(B) /\ Tidy(C) /\ g \in DOMAIN B.groups /\ w \in DOMAIN B.users /\ <<w, g>> \notin B.member
  /\ C.users = B.users /\ C.member = B.member \cup {<<w, g>>} /\ C.keys = B.keys
  /\ C.groups = Moved(B.groups, g, "users_counter", 1)

\* Groups and members after a join.
LEMMA JoinedGroups ==
  ASSUME NEW B, NEW C, NEW w, NEW g, JoinsTo(B, w, g, C)
  PROVE  /\ g \in Group /\ w \in User
         /\ \A u : u # w => GroupsOf(C, u) = GroupsOf(B, u)
         /\ GroupsOf(C, w) = GroupsOf(B, w) \cup {g}
         /\ \A v, h : <<v, h>> \in C.member <=> <<v, h>> \in B.member \/ (v = w /\ h = g)
         /\ \A h : KeysOf(C, h) = KeysOf(B, h)
         /\ \A h : h # g => C.groups[h] = B.groups[h]
<1>1. g \in Group /\ w \in User
  BY DEF JoinsTo, Tidy, AreTables, IsTable
<1>2. \A v, h : <<v, h>> \in C.member <=> <<v, h>> \in B.member \/ (v = w /\ h = g)
  BY DEF JoinsTo
<1>3. \A u : u # w => GroupsOf(C, u) = GroupsOf(B, u)
  BY <1>2 DEF GroupsOf
<1>4. GroupsOf(C, w) = GroupsOf(B, w) \cup {g}
  BY <1>1, <1>2 DEF GroupsOf
<1>5. \A h : KeysOf(C, h) = KeysOf(B, h)
  BY DEF KeysOf, JoinsTo
<1>6. \A h : h # g => C.groups[h] = B.groups[h]
  BY DEF Moved, JoinsTo
<1> QED BY <1>1, <1>2, <1>3, <1>4, <1>5, <1>6

\* A join is nothing to a user outside the group.
LEMMA JoinViewApart ==
  ASSUME NEW B, NEW C, NEW u, NEW w, NEW g, u # w, JoinsTo(B, w, g, C), u \notin MembersOf(B, g),
         u \in User
  PROVE  View(C, u) = View(B, u)
<1> DEFINE G == GroupsOf(B, u)
<1>1. /\ Tidy(B) /\ Tidy(C) /\ C.users = B.users /\ C.keys = B.keys
  BY DEF JoinsTo
<1>2. /\ GroupsOf(C, u) = G /\ \A h : KeysOf(C, h) = KeysOf(B, h)
      /\ \A h : h # g => C.groups[h] = B.groups[h]
      /\ \A v, h : <<v, h>> \in C.member <=> <<v, h>> \in B.member \/ (v = w /\ h = g)
  BY JoinedGroups
<1>3. AreTables(B) /\ AreTables(C)
  BY <1>1 DEF Tidy
<1>4. g \notin G
  BY <1>3, Pairs
<1>5. \A v \in User : \A h \in G : <<v, h>> \in C.member <=> <<v, h>> \in B.member
  BY <1>2, <1>4
<1>6. \A h \in G : /\ C.groups[h] = B.groups[h] /\ KeysOf(C, h) = KeysOf(B, h)
                   /\ \A k \in KeysOf(B, h) : C.keys[k] = B.keys[k]
  BY <1>1, <1>2, <1>4
<1> HIDE DEF G
<1>7. \A v : v = u \/ v \in Peers(B, u) =>
        /\ v \in DOMAIN C.users <=> v \in DOMAIN B.users
        /\ v \in DOMAIN B.users => C.users[v] = B.users[v]
  BY <1>1
<1> QED BY <1>2, <1>3, <1>5, <1>6, <1>7, ViewApart DEF G

\* What the first two statements make of the view of a member.
JoinedRows(V, w, g) == After(After(V, JoinInsert(w, g)), JoinCount(g))

MemberView(B, C, u, w, g, E) ==
  /\ Executes(View(B, u), JoinInsert(w, g)) /\ IsDb(E)
  /\ E.users = Restrict(B.users, Seen(B, u))
  /\ E.groups = Restrict(C.groups, GroupsOf(C, u))
  /\ E.member = {m \in C.member : m[2] \in GroupsOf(C, u)}
  /\ E.keys = Restrict(C.keys, KeysFor(C, u))
  /\ Seen(C, u) = Seen(B, u) \cup {w}

\* The tables of another member after the two statements of a join.
LEMMA MemberCounts ==
  ASSUME NEW B, NEW C, NEW u \in User, NEW w, NEW g, u # w, JoinsTo(B, w, g, C),
         u \in MembersOf(B, g)
  PROVE  MemberView(B, C, u, w, g, JoinedRows(View(B, u), w, g))
<1> DEFINE V == View(B, u)
           G == GroupsOf(B, u)
           E == JoinedRows(V, w, g)
<1>1. /\ Tidy(B) /\ Tidy(C) /\ C.users = B.users /\ C.keys = B.keys /\ w \in DOMAIN B.users
      /\ C.member = B.member \cup {<<w, g>>} /\ g \in DOMAIN B.groups /\ <<w, g>> \notin B.member
      /\ C.groups = Moved(B.groups, g, "users_counter", 1)
  BY DEF JoinsTo
<1>2. /\ GroupsOf(C, u) = G /\ \A h : KeysOf(C, h) = KeysOf(B, h)
      /\ \A h : h # g => C.groups[h] = B.groups[h]
      /\ \A v, h : <<v, h>> \in C.member <=> <<v, h>> \in B.member \/ (v = w /\ h = g)
  BY JoinedGroups
<1>3. AreTables(B) /\ AreTables(C) /\ IsDb(V)
  BY <1>1, ViewIsDb DEF Tidy
<1>4. g \in G
  BY <1>3, Pairs
<1>5. /\ V.users = Restrict(B.users, Seen(B, u)) /\ V.groups = Restrict(B.groups, G)
      /\ V.member = {m \in B.member : m[2] \in G} /\ V.keys = Restrict(B.keys, KeysFor(B, u))
  BY ViewFields
<1> HIDE DEF V
<1>6. /\ V.users = [x \in DOMAIN V.users |-> V.users[x]]
      /\ V.groups = [x \in DOMAIN V.groups |-> V.groups[x]]
      /\ V.keys = [x \in DOMAIN V.keys |-> V.keys[x]]
      /\ DOMAIN V.groups = G
  BY <1>5 DEF Restrict
<1>7. <<w, g>> \notin V.member /\ g \in DOMAIN V.groups
  BY <1>1, <1>4, <1>5, <1>6
<1>8. /\ Executes(V, JoinInsert(w, g)) /\ IsDb(E)
      /\ E.users = V.users /\ E.groups = Moved(V.groups, g, "users_counter", 1)
      /\ E.member = V.member \cup {<<w, g>>} /\ E.keys = V.keys
  <2>1. LET X == After(After(V, JoinInsert(w, g)), JoinCount(g))
        IN  /\ Executes(V, JoinInsert(w, g)) /\ IsDb(X)
            /\ X.users = V.users /\ X.groups = Moved(V.groups, g, "users_counter", 1)
            /\ X.member = V.member \cup {<<w, g>>} /\ X.keys = V.keys
    BY ONLY <1>3, <1>6, <1>7, JoinedFields
  <2> QED BY <2>1 DEF JoinedRows
<1> HIDE DEF E
<1>9. E.groups = Restrict(C.groups, GroupsOf(C, u))
  <2>1. G \subseteq DOMAIN B.groups
    BY <1>1, ViewTidy
  <2>2. Moved(Restrict(B.groups, G), g, "users_counter", 1)
          = Restrict(Moved(B.groups, g, "users_counter", 1), G)
    BY <1>4, <2>1 DEF Moved, Restrict
  <2> QED BY <1>1, <1>2, <1>5, <1>8, <2>2
<1>10. E.member = {m \in C.member : m[2] \in GroupsOf(C, u)}
  <2>1. <<w, g>>[2] = g
    OBVIOUS
  <2> HIDE DEF G
  <2> QED BY <1>1, <1>2, <1>4, <1>5, <1>8, <2>1
<1>11. KeysFor(C, u) = KeysFor(B, u)
  BY <1>1, <1>2 DEF KeysFor
<1>12. Seen(C, u) = Seen(B, u) \cup {w}
  <2>1. \A v : v \in Peers(C, u) <=> v \in Peers(B, u) \/ v = w
    <3> TAKE v
    <3>1. v \in Peers(C, u) <=> \E h \in G : <<v, h>> \in C.member
      BY <1>2, <1>3, Pairs
    <3>2. v \in Peers(B, u) <=> \E h \in G : <<v, h>> \in B.member
      BY <1>3, Pairs
    <3> HIDE DEF G
    <3> QED BY <1>2, <1>4, <3>1, <3>2
  <2> QED BY <1>1, <2>1 DEF Seen
<1> QED BY <1>1, <1>5, <1>8, <1>9, <1>10, <1>11, <1>12 DEF MemberView, V, E

\* Every other member learns of the newcomer what it does not know yet.
LEMMA JoinViewMember ==
  ASSUME NEW B, NEW C, NEW u \in User, NEW w, NEW g, u # w, JoinsTo(B, w, g, C),
         u \in MembersOf(B, g)
  PROVE  Teaches(SQL(ToldOfMember(B, u, w, g)), u, B, C)
<1> DEFINE V == View(B, u)
           s == JoinInsert(w, g)
           t == JoinCount(g)
           D == After(V, s)
           E == After(D, t)
           r == Insert(Restrict(B.users, {w}), <<>>, {}, <<>>)
<1>1. MemberView(B, C, u, w, g, E)
  BY MemberCounts DEF JoinedRows
<1>2. /\ Tidy(B) /\ C.users = B.users /\ C.keys = B.keys /\ w \in DOMAIN B.users
  BY DEF JoinsTo
<1>3. /\ V.users = Restrict(B.users, Seen(B, u)) /\ V.keys = Restrict(B.keys, KeysFor(B, u))
  BY ViewFields
<1>4. Executes(V, s)
  BY <1>1 DEF MemberView
<1>5. IsStatement(s) /\ IsStatement(t) /\ t.do # "insert" /\ Executes(D, t)
  BY JoinKinds
<1> HIDE DEF V, s, t, D, E, r
<1>6. Needed(View(C, u)) \subseteq Needed(V)
  <2>1. View(C, u).keys = Restrict(C.keys, KeysFor(C, u))
    BY ViewFields
  <2>2. KeysFor(C, u) = KeysFor(B, u)
    BY JoinedGroups, <1>2 DEF KeysFor
  <2>3. View(C, u).keys = V.keys
    BY <1>2, <1>3, <2>1, <2>2
  <2> QED BY <2>3, SameKeysNeeded
<1>7. w \in Seen(B, u) <=> GroupsOf(B, u) \cap GroupsOf(B, w) # {}
  <2>1. AreTables(B)
    BY <1>2 DEF Tidy
  <2>2. w \in Peers(B, u) <=> \E h \in GroupsOf(B, u) : <<w, h>> \in B.member
    BY <2>1, Pairs
  <2>3. \A h : h \in GroupsOf(B, w) <=> <<w, h>> \in B.member
    BY <2>1, Pairs
  <2> QED BY <1>2, <2>2, <2>3 DEF Seen
<1>8. CASE w \in Seen(B, u)
  <2>1. E = View(C, u)
    <3>1. Seen(C, u) = Seen(B, u)
      BY <1>1, <1>8 DEF MemberView
    <3>2. /\ IsDb(E) /\ E.users = Restrict(C.users, Seen(C, u))
          /\ E.groups = Restrict(C.groups, GroupsOf(C, u))
          /\ E.member = {m \in C.member : m[2] \in GroupsOf(C, u)}
          /\ E.keys = Restrict(C.keys, KeysFor(C, u))
      BY <1>1, <1>2, <3>1 DEF MemberView
    <3> QED BY ONLY <3>2, SameView
  <2>2. TextGives(SQL(<<s, t>>), u, V, E)
    BY <1>4, <1>5, TwoGive DEF D, E
  <2>3. Teaches(SQL(<<s, t>>), u, B, C)
    BY <1>6, <2>1, <2>2, TextTeaches DEF V
  <2> QED BY <1>7, <1>8, <2>3 DEF ToldOfMember, s, t
<1>9. CASE w \notin Seen(B, u)
  <2> DEFINE us == Restrict(B.users, {w})
             F == After(E, r)
  <2>1. /\ IsDb(E) /\ E.users = Restrict(B.users, Seen(B, u))
        /\ E.groups = Restrict(C.groups, GroupsOf(C, u))
        /\ E.member = {m \in C.member : m[2] \in GroupsOf(C, u)}
        /\ E.keys = Restrict(C.keys, KeysFor(C, u))
        /\ Seen(C, u) = Seen(B, u) \cup {w}
    BY <1>1 DEF MemberView
  <2>2. DOMAIN us = {w} /\ DOMAIN E.users = Seen(B, u)
    BY <2>1, PlusRestrict
  <2>3. /\ DOMAIN E.users \cap DOMAIN us = {} /\ DOMAIN E.groups \cap DOMAIN <<>> = {}
        /\ DOMAIN E.keys \cap DOMAIN <<>> = {} /\ E.member \cap {} = {}
    BY <1>9, <2>2
  <2> HIDE DEF us, F
  <2>4. /\ Executes(E, r) /\ IsStatement(r) /\ IsDb(F)
        /\ F.users = Plus(E.users, us) /\ F.groups = Plus(E.groups, <<>>)
        /\ F.member = E.member \cup {} /\ F.keys = Plus(E.keys, <<>>)
    <3>1. r = Insert(us, <<>>, {}, <<>>)
      BY DEF r, us
    <3>2. Inserted(E, us, <<>>, {}, <<>>, r, After(E, r))
      BY ONLY <2>3, <3>1, InsertFields
    <3> QED BY <3>2 DEF F, Inserted
  <2>5. /\ F.users = Restrict(C.users, Seen(C, u)) /\ F.groups = E.groups /\ F.member = E.member
        /\ F.keys = E.keys
    <3>1. Plus(E.groups, <<>>) = E.groups /\ Plus(E.keys, <<>>) = E.keys
      BY <2>1 DEF Plus, Restrict
    <3>2. Plus(E.users, us) = Restrict(C.users, Seen(C, u))
      BY <1>2, <2>1, PlusRestrict DEF us
    <3> QED BY <2>4, <3>1, <3>2
  <2>6. F = View(C, u)
    <3>1. /\ F.groups = Restrict(C.groups, GroupsOf(C, u))
          /\ F.member = {m \in C.member : m[2] \in GroupsOf(C, u)}
          /\ F.keys = Restrict(C.keys, KeysFor(C, u))
      BY <2>1, <2>5
    <3> QED BY ONLY <2>4, <2>5, <3>1, SameView
  <2>7. TextGives(SQL(<<s, t, r>>), u, V, F)
    BY <1>4, <1>5, <2>4, ThreeGive DEF D, E, F
  <2>8. Teaches(SQL(<<s, t, r>>), u, B, C)
    BY <1>6, <2>6, <2>7, TextTeaches DEF V
  <2> QED BY <1>7, <1>9, <2>8 DEF ToldOfMember, s, t, r
<1> QED BY <1>8, <1>9

\* What the new member w of g is told.
Strange(X, w, g) == {v \in MembersOf(X, g) : GroupsOf(X, v) \cap GroupsOf(X, w) = {}}
NewcomerInsert(X, w, g) ==
  Insert(Restrict(X.users, Strange(X, w, g)), Restrict(X.groups, {g}),
         {m \in X.member : m[2] = g}, Restrict(X.keys, KeysOf(X, g)))

NewcomerRows(X, w, g, D) ==
  /\ Executes(View(X, w), NewcomerInsert(X, w, g)) /\ IsStatement(NewcomerInsert(X, w, g)) /\ IsDb(D)
  /\ D.users = Restrict(X.users, Seen(X, w) \cup MembersOf(X, g))
  /\ D.groups = Restrict(X.groups, GroupsOf(X, w) \cup {g})
  /\ D.member = {m \in X.member : m[2] \in GroupsOf(X, w) \cup {g}}
  /\ D.keys = Restrict(X.keys, KeysFor(X, w) \cup KeysOf(X, g))

\* The newcomer gets the rows of the group that it does not have.
LEMMA NewcomerGets ==
  ASSUME NEW X, Tidy(X), NEW w \in User, NEW g \in DOMAIN X.groups, <<w, g>> \notin X.member
  PROVE  NewcomerRows(X, w, g, After(View(X, w), NewcomerInsert(X, w, g)))
<1> DEFINE V == View(X, w)
           G == GroupsOf(X, w)
           S == Strange(X, w, g)
           us == Restrict(X.users, S)
           gs == Restrict(X.groups, {g})
           ms == {m \in X.member : m[2] = g}
           ks == Restrict(X.keys, KeysOf(X, g))
           s == NewcomerInsert(X, w, g)
           D == After(V, s)
<1>1. AreTables(X)
  BY DEF Tidy
<1>2. /\ V.users = Restrict(X.users, Seen(X, w)) /\ V.groups = Restrict(X.groups, G)
      /\ V.member = {m \in X.member : m[2] \in G} /\ V.keys = Restrict(X.keys, KeysFor(X, w))
  BY ViewFields
<1>3. g \notin G /\ w \notin MembersOf(X, g)
  BY <1>1, Pairs
<1>4. \A v : v \in Peers(X, w) <=> GroupsOf(X, v) \cap G # {}
  <2> TAKE v
  <2>1. v \in Peers(X, w) <=> \E h \in G : <<v, h>> \in X.member
    BY <1>1, Pairs
  <2>2. \A h : h \in GroupsOf(X, v) <=> <<v, h>> \in X.member
    BY <1>1, Pairs
  <2> QED BY <2>1, <2>2
<1>5. S = {v \in MembersOf(X, g) : v \notin Peers(X, w)}
  BY <1>4 DEF Strange
<1>6. MembersOf(X, g) \subseteq DOMAIN X.users
  <2>1. \A v \in MembersOf(X, g) : <<v, g>> \in X.member /\ <<v, g>>[1] = v
    BY DEF MembersOf
  <2> QED BY <2>1 DEF Tidy
<1>7. S \cap Seen(X, w) = {} /\ Seen(X, w) \cup S = Seen(X, w) \cup MembersOf(X, g)
  BY <1>3, <1>5, <1>6 DEF Seen
<1>8. KeysFor(X, w) \cap KeysOf(X, g) = {}
  BY <1>3 DEF KeysFor, KeysOf
<1> HIDE DEF V, G, S
<1>9. /\ DOMAIN V.users = Seen(X, w) /\ DOMAIN V.groups = G /\ DOMAIN V.keys = KeysFor(X, w)
      /\ DOMAIN us = S /\ DOMAIN gs = {g} /\ DOMAIN ks = KeysOf(X, g)
  BY <1>2, PlusRestrict
<1>10. V.member \cap ms = {}
  BY <1>2, <1>3
<1>11. /\ Plus(V.users, us) = Restrict(X.users, Seen(X, w) \cup MembersOf(X, g))
       /\ Plus(V.groups, gs) = Restrict(X.groups, G \cup {g})
       /\ Plus(V.keys, ks) = Restrict(X.keys, KeysFor(X, w) \cup KeysOf(X, g))
       /\ V.member \cup ms = {m \in X.member : m[2] \in G \cup {g}}
  BY <1>2, <1>7, PlusRestrict
<1>12. s = Insert(us, gs, ms, ks)
  BY DEF NewcomerInsert, S
<1> HIDE DEF us, gs, ms, ks, s
<1>13. Inserted(V, us, gs, ms, ks, s, After(V, s))
  <2>1. /\ DOMAIN V.users \cap DOMAIN us = {} /\ DOMAIN V.groups \cap DOMAIN gs = {}
        /\ DOMAIN V.keys \cap DOMAIN ks = {}
    BY <1>3, <1>7, <1>8, <1>9
  <2> QED BY ONLY <1>10, <1>12, <2>1, InsertFields
<1> HIDE DEF D
<1>14. /\ Executes(V, s) /\ IsStatement(s) /\ IsDb(D)
       /\ D.users = Plus(V.users, us) /\ D.groups = Plus(V.groups, gs)
       /\ D.member = V.member \cup ms /\ D.keys = Plus(V.keys, ks)
  BY <1>13 DEF Inserted, D
<1> QED BY <1>11, <1>14 DEF NewcomerRows, V, D, s, G

NeedsToo(X, Y, w, g) ==
  Needed(View(Y, w)) = Needed(View(X, w)) \cup {k \in KeysOf(X, g) : X.keys[k].status # "destroyed"}

\* With them and the two statements, it has the view of a member.
LEMMA NewcomerView ==
  ASSUME NEW X, NEW Y, NEW w \in User, NEW g, JoinsTo(X, w, g, Y)
  PROVE  /\ TextGives(SQL(<<NewcomerInsert(X, w, g), JoinInsert(w, g), JoinCount(g)>>), w,
                      View(X, w), View(Y, w))
         /\ NeedsToo(X, Y, w, g)
<1> DEFINE V == View(X, w)
           G == GroupsOf(X, w)
           i == NewcomerInsert(X, w, g)
           s == JoinInsert(w, g)
           t == JoinCount(g)
           D == After(V, i)
           E == After(D, s)
           F == After(E, t)
<1>1. /\ Tidy(X) /\ Tidy(Y) /\ Y.users = X.users /\ Y.keys = X.keys /\ w \in DOMAIN X.users
      /\ Y.member = X.member \cup {<<w, g>>} /\ g \in DOMAIN X.groups /\ <<w, g>> \notin X.member
      /\ Y.groups = Moved(X.groups, g, "users_counter", 1)
  BY DEF JoinsTo
<1>2. NewcomerRows(X, w, g, D)
  BY <1>1, NewcomerGets
<1>3. /\ Executes(V, i) /\ IsStatement(i) /\ IsDb(D)
      /\ D.users = Restrict(X.users, Seen(X, w) \cup MembersOf(X, g))
      /\ D.groups = Restrict(X.groups, G \cup {g})
      /\ D.member = {m \in X.member : m[2] \in G \cup {g}}
      /\ D.keys = Restrict(X.keys, KeysFor(X, w) \cup KeysOf(X, g))
  BY <1>2 DEF NewcomerRows
<1>4. GroupsOf(Y, w) = G \cup {g} /\ \A h : KeysOf(Y, h) = KeysOf(X, h)
  BY JoinedGroups
<1>5. AreTables(X) /\ AreTables(Y)
  BY <1>1 DEF Tidy
<1>6. \A v, h : <<v, h>> \in Y.member <=> <<v, h>> \in X.member \/ (v = w /\ h = g)
  BY <1>1
<1> HIDE DEF V, G, D, i
<1>7. IsStatement(s) /\ IsStatement(t) /\ Executes(E, t)
  BY JoinKinds
<1>8. /\ Executes(D, s) /\ IsDb(F)
      /\ F.users = D.users /\ F.groups = Moved(D.groups, g, "users_counter", 1)
      /\ F.member = D.member \cup {<<w, g>>} /\ F.keys = D.keys
  <2>1. /\ D.users = [x \in DOMAIN D.users |-> D.users[x]]
        /\ D.groups = [x \in DOMAIN D.groups |-> D.groups[x]]
        /\ D.keys = [x \in DOMAIN D.keys |-> D.keys[x]]
        /\ DOMAIN D.groups = G \cup {g}
    BY <1>3 DEF Restrict
  <2>2. <<w, g>> \notin D.member /\ g \in DOMAIN D.groups
    BY <1>1, <1>3, <2>1
  <2> QED BY ONLY <1>3, <2>1, <2>2, JoinedFields
<1> HIDE DEF E, F, s, t
<1>9. F.users = Restrict(Y.users, Seen(Y, w))
  <2>1. \A v : v \in Peers(Y, w) <=> v \in Peers(X, w) \/ v \in MembersOf(X, g) \/ v = w
    <3> TAKE v
    <3>1. v \in Peers(Y, w) <=> \E h \in G \cup {g} : <<v, h>> \in Y.member
      BY <1>4, <1>5, Pairs
    <3>2. v \in Peers(X, w) <=> \E h \in G : <<v, h>> \in X.member
      BY <1>5, Pairs DEF G
    <3>3. v \in MembersOf(X, g) <=> <<v, g>> \in X.member
      BY <1>5, Pairs
    <3> QED BY <1>6, <3>1, <3>2, <3>3
  <2>2. MembersOf(X, g) \subseteq DOMAIN X.users
    <3>1. \A v \in MembersOf(X, g) : <<v, g>> \in X.member /\ <<v, g>>[1] = v
      BY DEF MembersOf
    <3> QED BY <1>1, <3>1 DEF Tidy
  <2>3. Seen(Y, w) = Seen(X, w) \cup MembersOf(X, g)
    BY <1>1, <2>1, <2>2 DEF Seen
  <2> QED BY <1>1, <1>3, <1>8, <2>3
<1>10. F.groups = Restrict(Y.groups, GroupsOf(Y, w))
  <2>1. G \cup {g} \subseteq DOMAIN X.groups
    BY <1>1, ViewTidy DEF G
  <2>2. Moved(Restrict(X.groups, G \cup {g}), g, "users_counter", 1)
          = Restrict(Moved(X.groups, g, "users_counter", 1), G \cup {g})
    BY <2>1 DEF Moved, Restrict
  <2> QED BY <1>1, <1>3, <1>4, <1>8, <2>2
<1>11. F.member = {m \in Y.member : m[2] \in GroupsOf(Y, w)}
  <2>1. <<w, g>>[2] = g
    OBVIOUS
  <2> QED BY <1>1, <1>3, <1>4, <1>8, <2>1
<1>12. KeysFor(Y, w) = KeysFor(X, w) \cup KeysOf(X, g)
  BY <1>1, <1>4 DEF KeysFor, KeysOf, G
<1>13. F = View(Y, w)
  <2>1. F.keys = Restrict(Y.keys, KeysFor(Y, w))
    BY <1>1, <1>3, <1>8, <1>12
  <2> QED BY ONLY <1>8, <1>9, <1>10, <1>11, <2>1, SameView
<1>14. TextGives(SQL(<<i, s, t>>), w, V, F)
  BY <1>3, <1>7, <1>8, ThreeGive DEF D, E, F
<1>15. NeedsToo(X, Y, w, g)
  <2>1. /\ View(Y, w).keys = Restrict(X.keys, KeysFor(X, w) \cup KeysOf(X, g))
        /\ View(X, w).keys = Restrict(X.keys, KeysFor(X, w))
    <3>1. /\ View(Y, w).keys = Restrict(Y.keys, KeysFor(Y, w))
          /\ View(X, w).keys = Restrict(X.keys, KeysFor(X, w))
      BY ViewFields
    <3> QED BY <1>1, <1>12, <3>1
  <2> QED BY <2>1 DEF Needed, Restrict, NeedsToo
<1> QED BY <1>13, <1>14, <1>15 DEF V, i, s, t

JoinText(A, w, g) == SQL(<<NewcomerInsert(A, w, g), JoinInsert(w, g), JoinCount(g)>>)

\* The text for the newcomer is a command.
LEMMA JoinTextIs ==
  ASSUME NEW A, NEW w, NEW g
  PROVE  IsCommand(JoinText(A, w, g))
BY FewCommands, JoinKinds, InsertIsStatement DEF JoinText, NewcomerInsert

LastOf(r, w, c) == OnceTo(r, w, c) /\ IsQueue(r) /\ \A i \in 1..Len(r) : r[i].to = w

\* The last send of a join is to the newcomer alone.
LEMMA LastSend ==
  ASSUME NEW w \in User, NEW c, IsCommand(c)
  PROVE  LastOf(<<Send(w, c, TRUE)>>, w, c)
<1> DEFINE s == Send(w, c, TRUE)
           r == <<s>>
<1>1. s.to = w /\ s.cmd = c /\ s.erase \in BOOLEAN
  BY DEF Send
<1> HIDE DEF s
<1>2. IsSeq(r) /\ Len(r) = 1 /\ r[1] = s
  BY NoneAndOneSeq
<1> HIDE DEF r
<1>3. IsQueue(r)
  BY <1>1, <1>2 DEF IsQueue
<1>4. OnceTo(r, w, c) /\ \A i \in 1..Len(r) : r[i].to = w
  BY <1>1, <1>2, <1>3 DEF OnceTo
<1> QED BY <1>3, <1>4 DEF LastOf, r, s

\* The new member hears nothing of the first part of the queue, then the keys,
\* then the text.
LEMMA NewcomerReached ==
  ASSUME NEW X, NEW Y, NEW w \in User, NEW g, JoinsTo(X, w, g, Y),
         NEW p, NEW q, NEW c, c = JoinText(X, w, g),
         IsQueue(p), IsQueue(q), IsQueue(p \o q), IsQueue((p \o q) \o <<Send(w, c, TRUE)>>),
         \A i \in 1..Len(p) : p[i].to # w,
         \A i \in 1..Len(q) : q[i].to = w /\ q[i].cmd.type = "KEY_DATA",
         \A k \in KeysOf(X, g) : X.keys[k].status # "destroyed" =>
           \E i \in 1..Len(q) : q[i].cmd.key = k
  PROVE  Reaches(X, Y, (p \o q) \o <<Send(w, c, TRUE)>>, w)
<1> DEFINE r == <<Send(w, c, TRUE)>>
<1>1. Reaches(X, X, p, w)
  BY ReachesNothing
<1>2. IsCommand(c)
  BY JoinTextIs
<1>3. IsQueue(r)
  BY <1>2, LastSend DEF LastOf
<1>4. OnceTo(r, w, c)
  BY <1>2, LastSend DEF LastOf
<1> HIDE DEF r
<1>5. SUFFICES ASSUME NEW d, IsWork(d), Knows(d, X, w)
               PROVE  Knows(Told(d, w, (p \o q) \o r), Y, w)
  BY DEF Reaches, r
<1> DEFINE a == Told(d, w, p)
           b == Told(a, w, q)
           b0 == At(b, 0, b.flash)
           e == Perform(b0, w, c)
<1>6. Told(d, w, (p \o q) \o r) = Told(b, w, r)
  <2>1. Told(d, w, (p \o q) \o r) = Told(Told(d, w, p \o q), w, r)
    BY <1>3, <1>5, ToldConcat DEF r
  <2>2. Told(d, w, p \o q) = Told(Told(d, w, p), w, q)
    BY <1>5, ToldConcat
  <2> QED BY <2>1, <2>2
<1>7. IsWork(a) /\ Knows(a, X, w)
  BY <1>1, <1>5, ToldShape DEF Reaches
<1> HIDE DEF a
<1>8. a.ok /\ a.updkeys /\ a.db = View(X, w) /\ Needed(a.db) \subseteq a.flash
  BY <1>7 DEF Knows
<1>9. w \in DOMAIN a.db.users
  <2>1. Tidy(X) /\ w \in DOMAIN X.users
    BY DEF JoinsTo
  <2>2. DOMAIN View(X, w).users = Seen(X, w)
    BY <2>1, ViewTidy
  <2> QED BY <1>8, <2>1, <2>2 DEF Seen
<1>10. KeysTold(a, q, b)
  BY <1>7, <1>8, <1>9, ToldKeys
<1>11. IsWork(b)
  BY <1>7, ToldShape
<1> HIDE DEF b
<1>12. /\ b.ok /\ b.updkeys /\ b.db = a.db /\ a.flash \subseteq b.flash
       /\ \A i \in 1..Len(q) : q[i].cmd.key \in b.flash
  BY <1>10 DEF KeysTold
<1>13. Told(b, w, r) = e
  BY <1>4, <1>11, <1>12, ToldOneOf
<1>14. IsWork(b0) /\ b0.ok /\ b0.db = View(X, w) /\ b0.flash = b.flash /\ b0.updkeys
  BY <1>8, <1>11, <1>12, AtFacts
<1> HIDE DEF b0
<1>15. Became(b0, e, View(Y, w))
  BY <1>14, NewcomerView DEF TextGives, JoinText
<1>16. Needed(View(Y, w)) \subseteq b.flash
  <2>1. Needed(View(Y, w)) = Needed(View(X, w))
                               \cup {k \in KeysOf(X, g) : X.keys[k].status # "destroyed"}
    <3>1. NeedsToo(X, Y, w, g)
      BY NewcomerView
    <3> QED BY <3>1 DEF NeedsToo
  <2>2. Needed(View(X, w)) \subseteq b.flash
    BY <1>8, <1>12
  <2>3. \A k \in KeysOf(X, g) : X.keys[k].status # "destroyed" => k \in b.flash
    BY <1>12
  <2> QED BY ONLY <2>1, <2>2, <2>3
<1> HIDE DEF e
<1>17. Knows(e, Y, w)
  BY <1>14, <1>15, <1>16 DEF Became, Knows
<1> QED BY <1>6, <1>13, <1>17

\* sekey_add_user_group: everybody learns it, the newcomer with its keys.
LEMMA LearnJoin ==
  ASSUME NEW A, Tidy(A), NEW w \in User, w \in DOMAIN A.users, NEW g \in DOMAIN A.groups,
         <<w, g>> \notin A.member,
         NEW u \in User, u \in DOMAIN A.users, NEW p, NEW q, NEW c, c = JoinText(A, w, g), NEW cmds,
         IsQueue(p), IsQueue(q), IsQueue(p \o q), IsQueue((p \o q) \o <<Send(w, c, TRUE)>>),
         Each(p, MembersOf(A, g), cmds, TRUE),
         \A v \in MembersOf(A, g) : cmds[v] = SQL(ToldOfMember(A, v, w, g)),
         \A i \in 1..Len(q) : q[i].to = w /\ q[i].cmd.type = "KEY_DATA",
         \A k \in KeysOf(A, g) : A.keys[k].status # "destroyed" =>
           \E i \in 1..Len(q) : q[i].cmd.key = k
  PROVE  Learns(A, MoreMember(A, w, g), (p \o q) \o <<Send(w, c, TRUE)>>, u)
<1> DEFINE B == MoreMember(A, w, g)
           r == <<Send(w, c, TRUE)>>
<1>1. /\ Tidy(B) /\ B.users = A.users /\ B.member = A.member \cup {<<w, g>>}
      /\ B.keys = A.keys /\ B.groups = Moved(A.groups, g, "users_counter", 1)
  BY TidyJoin
<1>2. IsCommand(c)
  BY JoinTextIs
<1>3. LastOf(r, w, c)
  BY <1>2, LastSend
<1> HIDE DEF r
<1>4. IsQueue(r) /\ \A i \in 1..Len(r) : r[i].to = w
  BY <1>3 DEF LastOf
<1> HIDE DEF B, r
<1>5. ASSUME NEW x \in UserRow
      PROVE  Reaches(Own(A, u, x), Own(B, u, x), (p \o q) \o r, u)
  <2> DEFINE X == Own(A, u, x)
             Y == Own(B, u, x)
  <2>1. IsOwn(A, u, x, X) /\ IsOwn(B, u, x, Y)
    BY <1>1, <1>5, OwnFacts
  <2> HIDE DEF X, Y
  <2>2. /\ Tidy(X) /\ X.member = A.member /\ X.keys = A.keys /\ X.groups = A.groups
        /\ Tidy(Y) /\ Y.member = B.member /\ Y.keys = B.keys /\ Y.groups = B.groups
        /\ DOMAIN X.users = DOMAIN A.users
    BY <2>1 DEF IsOwn
  <2>3. Y.users = X.users
    <3>1. /\ DOMAIN Y.users = DOMAIN X.users
          /\ \A v \in DOMAIN X.users : Y.users[v] = X.users[v]
      BY <1>1, <2>1 DEF IsOwn
    <3>2. X.users = [v \in DOMAIN X.users |-> X.users[v]] /\ Y.users = [v \in DOMAIN Y.users |-> Y.users[v]]
      BY <2>1 DEF IsOwn
    <3> QED BY <3>1, <3>2
  <2>4. JoinsTo(X, w, g, Y)
    BY <1>1, <2>2, <2>3 DEF JoinsTo
  <2>5. MembersOf(X, g) = MembersOf(A, g) /\ \A v : GroupsOf(X, v) = GroupsOf(A, v)
    BY <2>2, SameMembers
  <2>6. KeysOf(X, g) = KeysOf(A, g)
    BY <2>2 DEF KeysOf
  <2>7. w \notin MembersOf(A, g)
    BY DEF MembersOf
  <2>8. CASE u = w
    <3>1. c = JoinText(X, w, g)
      <4>1. Strange(X, w, g) = Strange(A, w, g)
        BY <2>5 DEF Strange
      <4>2. w \notin Strange(A, w, g) /\ Strange(A, w, g) \subseteq MembersOf(A, g)
        BY <2>7 DEF Strange
      <4>3. MembersOf(A, g) \subseteq DOMAIN A.users
        <5>1. \A v \in MembersOf(A, g) : <<v, g>> \in A.member /\ <<v, g>>[1] = v
          BY DEF MembersOf
        <5> QED BY <5>1, ZenonT(30) DEF Tidy
      <4>4. \A v \in Strange(A, w, g) : X.users[v] = A.users[v]
        BY <2>1, <2>8, <4>2, <4>3 DEF IsOwn
      <4>5. Restrict(X.users, Strange(A, w, g)) = Restrict(A.users, Strange(A, w, g))
        BY <4>4 DEF Restrict
      <4> QED BY <2>2, <2>6, <4>1, <4>5 DEF JoinText, NewcomerInsert
    <3>2. \A i \in 1..Len(p) : p[i].to # w
      <4>1. \A i \in 1..Len(p) : p[i].to \in MembersOf(A, g)
        BY DEF Each
      <4> QED BY <2>7, <4>1
    <3>3. \A k \in KeysOf(X, g) : X.keys[k].status # "destroyed" =>
             \E i \in 1..Len(q) : q[i].cmd.key = k
      BY <2>2, <2>6
    <3>4. Reaches(X, Y, (p \o q) \o <<Send(w, c, TRUE)>>, w)
      BY <2>4, <3>1, <3>2, <3>3, NewcomerReached
    <3> QED BY <2>8, <3>4 DEF X, Y, r
  <2>9. CASE u # w
    <3>1. u \in MembersOf(A, g) => Teaches(cmds[u], u, X, Y)
      <4>1. SUFFICES ASSUME u \in MembersOf(A, g) PROVE Teaches(cmds[u], u, X, Y)
        OBVIOUS
      <4>2. Teaches(SQL(ToldOfMember(X, u, w, g)), u, X, Y)
        BY <2>4, <2>5, <2>9, <4>1, JoinViewMember
      <4>3. Restrict(X.users, {w}) = Restrict(A.users, {w})
        <5>1. X.users[w] = A.users[w]
          BY <2>1, <2>9 DEF IsOwn
        <5> QED BY <5>1 DEF Restrict
      <4>4. ToldOfMember(X, u, w, g) = ToldOfMember(A, u, w, g)
        <5>1. GroupsOf(X, u) = GroupsOf(A, u) /\ GroupsOf(X, w) = GroupsOf(A, w)
          BY <2>5
        <5> QED BY ONLY <4>3, <5>1 DEF ToldOfMember
      <4> QED BY <4>1, <4>2, <4>4
    <3>2. u \notin MembersOf(A, g) => View(Y, u) = View(X, u)
      BY <2>4, <2>5, <2>9, JoinViewApart
    <3>3. Reaches(X, Y, p, u)
      BY ONLY <3>1, <3>2, ReachesEach, IsQueue(p), Each(p, MembersOf(A, g), cmds, TRUE)
    <3>4. Reaches(Y, Y, q, u)
      BY <2>9, ReachesNothing
    <3>5. Reaches(Y, Y, r, u)
      <4>1. \A i \in 1..Len(r) : r[i].to # u
        BY <1>4, <2>9
      <4> QED BY <1>4, <4>1, ReachesNothing
    <3>6. Reaches(X, Y, p \o q, u)
      BY <3>3, <3>4, ReachesConcat
    <3>7. IsQueue((p \o q) \o r)
      BY DEF r
    <3>8. Reaches(X, Y, (p \o q) \o r, u)
      BY <1>4, <3>5, <3>6, <3>7, ReachesConcat
    <3> QED BY <3>8 DEF X, Y
  <2> QED BY <2>8, <2>9
<1>6. B.users[u] = A.users[u]
  BY <1>1
<1> QED BY <1>5, <1>6 DEF Learns, B, r

\* A change is taught to whoever is known after it.
Taught ==
  /\ \A u \in User : u \in DOMAIN adm'.users /\ u \notin forgotten' =>
       u \in DOMAIN adm.users /\ Learns(adm, adm', sends', u)
  /\ \A u \in DOMAIN adm.users : u \in DOMAIN adm'.users \/ u \in recovery'

\* What a call that succeeds leaves to send.
LEMMA QueueSent ==
  ASSUME Base, Changed
  PROVE  Tidy(adm) /\ Tidy(adm') /\ IsQueue(sends') /\ DOMAIN adm'.users \subseteq DOMAIN adm.users
BY DEF Base, Changed

\* sekey_add_group tells nobody, as nobody is a member.
LEMMA AddGroupTeaches ==
  ASSUME Base, NEW g \in Group, sekey_add_group(g)
  PROVE  Taught
<1> DEFINE t == Plus(adm.groups, [x \in {g} |->
                  [name |-> 0, users_counter |-> 0, keys_counter |-> 0, max_keys |-> 0,
                   keys_liveness |-> 0]])
           new == [adm EXCEPT !.groups = t]
<1>1. Committing(new, <<>>) /\ g \notin DOMAIN adm.groups
  BY CommitFacts DEF sekey_add_group
<1>2. Tidy(adm) /\ DOMAIN adm'.users \subseteq DOMAIN adm.users
  BY AddGroupChanges, QueueSent
<1>3. /\ Tidy(new) /\ new.users = adm.users /\ new.member = adm.member /\ new.keys = adm.keys
      /\ new.groups = t /\ \A h \in DOMAIN adm.groups : t[h] = adm.groups[h]
  BY <1>1, <1>2, TidyAddGroup
<1>4. adm' = new /\ sends' = <<>>
  BY <1>1, CommittingFacts
<1> HIDE DEF t, new
<1>5. ASSUME NEW u \in User, u \in DOMAIN adm'.users
      PROVE  u \in DOMAIN adm.users /\ Learns(adm, adm', sends', u)
  <2>1. u \in DOMAIN adm.users
    BY <1>2, <1>5
  <2>2. \A h \in DOMAIN adm.groups : new.groups[h] = adm.groups[h]
    BY <1>3
  <2>3. Learns(adm, new, <<>>, u)
    BY <1>1, <1>2, <1>3, <2>1, <2>2, LearnAddGroup
  <2> QED BY <1>4, <2>1, <2>3
<1> QED BY <1>3, <1>4, <1>5 DEF Taught

\* A change of one column sends its statement to all who see the row.
LEMMA ChangeSends ==
  ASSUME NEW s, NEW S, IsFiniteSet(S), Changing(s, S)
  PROVE  /\ adm' = After(adm, s)
         /\ Each(sends', S, [x \in S |-> SQL(<<s>>)], TRUE)
<1> DEFINE q == SendAll(S, SQL(<<s>>), TRUE)
<1>1. Committing(After(adm, s), q)
  BY DEF Changing
<1>2. Each(q, S, [x \in S |-> SQL(<<s>>)], TRUE)
  BY SendAllEach
<1> HIDE DEF q
<1>3. adm' = After(adm, s) /\ sends' = q
  BY <1>1, CommittingFacts
<1> QED BY <1>2, <1>3

\* sekey_user_change_name.
LEMMA ChangeUserTeaches ==
  ASSUME Base, NEW w \in User, sekey_user_change_name(w)
  PROVE  Taught
<1> DEFINE s == Set("users", w, "username", 1)
           S == Peers(adm, w)
<1>1. /\ Changing(s, S) /\ w \in DOMAIN adm.users
      /\ forgotten' = IF w \in S THEN forgotten ELSE forgotten \cup {w}
  BY CommitFacts DEF sekey_user_change_name, Present, Change, Changing
<1>2. Tidy(adm) /\ IsQueue(sends') /\ DOMAIN adm'.users \subseteq DOMAIN adm.users
  BY ChangeUserChanges, QueueSent
<1>3. IsFiniteSet(S)
  BY <1>2, FiniteIds DEF Tidy
<1> HIDE DEF s, S
<1>4. adm' = After(adm, s) /\ Each(sends', S, [x \in S |-> SQL(<<s>>)], TRUE)
  BY <1>1, <1>3, ChangeSends
<1>5. ASSUME NEW u \in User, u \in DOMAIN adm'.users, u \notin forgotten'
      PROVE  u \in DOMAIN adm.users /\ Learns(adm, adm', sends', u)
  <2>1. u \in DOMAIN adm.users /\ (u = w => u \in S)
    BY <1>1, <1>2, <1>5
  <2> DEFINE q == sends'
  <2>2. IsQueue(q) /\ Each(q, S, [x \in S |-> SQL(<<s>>)], TRUE)
    BY <1>2, <1>4
  <2> HIDE DEF q
  <2>3. Learns(adm, After(adm, s), q, u)
    BY <1>1, <1>2, <2>1, <2>2, LearnSetUser DEF s, S
  <2> QED BY <1>4, <2>1, <2>3 DEF q
<1>6. DOMAIN adm'.users = DOMAIN adm.users
  <2> DEFINE B == After(adm, s)
  <2>1. B.users = [adm.users EXCEPT ![w] = [username |-> 1]]
    BY <1>1, <1>2, TidySetUser DEF s
  <2> HIDE DEF B
  <2>2. DOMAIN B.users = DOMAIN adm.users
    BY <2>1
  <2> QED BY <1>4, <2>2 DEF B
<1> QED BY <1>5, <1>6 DEF Taught

\* The changes of the columns of a group.
LEMMA ChangeGroupTeaches ==
  ASSUME Base, NEW g \in Group, NEW c \in GroupColumn, GroupChange(g, c)
  PROVE  Taught
<1> DEFINE s == Set("groups", g, c, 1)
           S == MembersOf(adm, g)
<1>1. Changing(s, S) /\ g \in DOMAIN adm.groups
  BY CommitFacts DEF GroupChange, Change, Changing
<1>2. Tidy(adm) /\ IsQueue(sends') /\ DOMAIN adm'.users \subseteq DOMAIN adm.users
  BY ChangeGroupChanges, QueueSent
<1>3. IsFiniteSet(S)
  BY <1>2, FiniteIds DEF Tidy
<1> HIDE DEF s, S
<1>4. adm' = After(adm, s) /\ Each(sends', S, [x \in S |-> SQL(<<s>>)], TRUE)
  BY <1>1, <1>3, ChangeSends
<1>5. ASSUME NEW u \in User, u \in DOMAIN adm'.users
      PROVE  u \in DOMAIN adm.users /\ Learns(adm, adm', sends', u)
  <2>1. u \in DOMAIN adm.users
    BY <1>2, <1>5
  <2> DEFINE q == sends'
  <2>2. IsQueue(q) /\ Each(q, S, [x \in S |-> SQL(<<s>>)], TRUE)
    BY <1>2, <1>4
  <2> HIDE DEF q
  <2>3. Learns(adm, After(adm, s), q, u)
    BY <1>1, <1>2, <2>1, <2>2, LearnSetGroup DEF s, S
  <2> QED BY <1>4, <2>1, <2>3 DEF q
<1>6. adm'.users = adm.users
  <2>1. After(adm, s).users = adm.users
    BY <1>1, <1>2, TidySetGroup, ZenonT(60) DEF s
  <2> QED BY <1>4, <2>1
<1> QED BY <1>5, <1>6 DEF Taught

\* The changes of the name and the status of a key.
LEMMA ChangeKeyTeaches ==
  ASSUME Base, NEW k \in Key, NEW c, NEW value, k \in DOMAIN adm.keys,
         (c = "name" /\ value = 1) \/ (c = "status" /\ value \in Status),
         Changing(Set("keys", k, c, value), OwnersUsers(k)), Changed,
         c = "status" => adm.keys[k].status # "destroyed"
  PROVE  Taught
<1> DEFINE s == Set("keys", k, c, value)
           S == OwnersUsers(k)
<1>1. Changing(s, S)
  OBVIOUS
<1>2. Tidy(adm) /\ IsQueue(sends') /\ DOMAIN adm'.users \subseteq DOMAIN adm.users
  BY QueueSent
<1>3. IsFiniteSet(S)
  <2>1. IsFiniteSet(MembersOf(adm, adm.keys[k].owner))
    BY <1>2, FiniteIds DEF Tidy
  <2> QED BY <2>1, FS_EmptySet DEF OwnersUsers
<1>4. \A v : v \in S <=> adm.keys[k].owner # Zombie /\ <<v, adm.keys[k].owner>> \in adm.member
  <2>1. \A v, g : v \in MembersOf(adm, g) <=> <<v, g>> \in adm.member
    BY <1>2, Pairs DEF Tidy
  <2> QED BY <2>1 DEF OwnersUsers
<1> HIDE DEF s, S
<1>5. adm' = After(adm, s) /\ Each(sends', S, [x \in S |-> SQL(<<s>>)], TRUE)
  BY <1>1, <1>3, ChangeSends
<1>6. ASSUME NEW u \in User, u \in DOMAIN adm'.users
      PROVE  u \in DOMAIN adm.users /\ Learns(adm, adm', sends', u)
  <2>1. u \in DOMAIN adm.users
    BY <1>2, <1>6
  <2> DEFINE q == sends'
  <2>2. IsQueue(q) /\ Each(q, S, [x \in S |-> SQL(<<s>>)], TRUE)
    BY <1>2, <1>5
  <2> HIDE DEF q
  <2>3. s = Set("keys", k, c, value)
    BY DEF s
  <2>4. Learns(adm, After(adm, s), q, u)
    BY <1>2, <1>4, <2>1, <2>2, <2>3, LearnSetKey
  <2> QED BY <1>5, <2>1, <2>4 DEF q
<1>7. adm'.users = adm.users
  <2> DEFINE Z == After(adm, Set("keys", k, c, value))
  <2>1. (c = "name" /\ value = 1) \/ (c = "status" /\ value \in Status)
    OBVIOUS
  <2>2. k \in DOMAIN adm.keys
    OBVIOUS
  <2>3. /\ Tidy(Z) /\ Z.users = adm.users /\ Z.member = adm.member /\ Z.groups = adm.groups
        /\ Z.keys = [adm.keys EXCEPT ![k][c] = value]
    <3>1. KeySet(adm, k, c, value, Z)
      BY ONLY <1>2, <2>1, <2>2, TidySetKey
    <3> HIDE DEF Z
    <3> QED BY <3>1 DEF KeySet
  <2>4. Z = After(adm, s)
    BY DEF s
  <2> HIDE DEF Z
  <2> QED BY <1>5, <2>3, <2>4
<1> QED BY <1>6, <1>7 DEF Taught

\* What SendAll sends.
LEMMA TellEach ==
  ASSUME NEW S \in SUBSET User, IsFiniteSet(S), NEW c, IsCommand(c), NEW e \in BOOLEAN
  PROVE  IsQueue(SendAll(S, c, e)) /\ Each(SendAll(S, c, e), S, [x \in S |-> c], e)
<1> DEFINE q == SendAll(S, c, e)
           cmds == [x \in S |-> c]
           nobody == {}
<1>1. Each(q, S, cmds, e)
  BY SendAllEach
<1>2. \A x \in S : IsCommand(cmds[x]) /\ (x \in nobody => IsMild(cmds[x], x))
  OBVIOUS
<1> HIDE DEF q, cmds, nobody
<1>3. IsQueue(q)
  BY <1>1, <1>2, EachQueue
<1> QED BY <1>1, <1>3 DEF q, cmds

\* sekey_delete_user_group.
LEMMA LeaveTeaches ==
  ASSUME Base, NEW w \in User, NEW g \in Group, sekey_delete_user_group(w, g)
  PROVE  Taught
<1> DEFINE new == LessMember(adm, w, g)
           S == MembersOf(adm, g) \ {w}
           c == DelFromGroup(w, g)
           p == SendAll(S, c, TRUE)
           q == <<Send(w, c, TRUE)>>
<1>1. /\ Committing(new, p \o q) /\ g \in DOMAIN adm.groups /\ <<w, g>> \in adm.member
  BY CommitFacts DEF sekey_delete_user_group, LessMember
<1>2. Tidy(adm) /\ IsQueue(sends') /\ DOMAIN adm'.users \subseteq DOMAIN adm.users
  BY LeaveChanges, QueueSent
<1>3. adm' = new /\ sends' = p \o q
  BY <1>1, CommittingFacts
<1>4. S \in SUBSET User /\ IsFiniteSet(S)
  <2>1. IsFiniteSet(MembersOf(adm, g)) /\ MembersOf(adm, g) \subseteq User
    BY <1>2, FiniteIds DEF Tidy
  <2> QED BY <2>1, FS_Subset
<1>5. IsCommand(c)
  BY FewCommands
<1>6. IsQueue(p) /\ Each(p, S, [x \in S |-> c], TRUE)
  <2> HIDE DEF S, c
  <2>1. TRUE \in BOOLEAN
    OBVIOUS
  <2> QED BY <1>4, <1>5, <2>1, TellEach
<1> HIDE DEF new, p
<1>7. IsQueue(p \o q)
  BY <1>2, <1>3
<1>8. ASSUME NEW u \in User, u \in DOMAIN adm'.users
      PROVE  u \in DOMAIN adm.users /\ Learns(adm, adm', sends', u)
  <2>1. u \in DOMAIN adm.users
    BY <1>2, <1>8
  <2>2. Learns(adm, LessMember(adm, w, g), p \o q, u)
    BY <1>1, <1>2, <1>6, <1>7, <2>1, LearnLeave
  <2> QED BY <1>3, <2>1, <2>2 DEF new
<1>9. adm'.users = adm.users
  <2>1. LessMember(adm, w, g).users = adm.users
    BY <1>1, <1>2, TidyLeave, ZenonT(60)
  <2> QED BY <1>3, <2>1 DEF new
<1> QED BY <1>8, <1>9 DEF Taught

\* sekey_delete_user.
LEMMA DeleteUserTeaches ==
  ASSUME Base, NEW w \in User, sekey_delete_user(w)
  PROVE  Taught
<1> DEFINE new == LessUser(adm, w)
           S == Peers(adm, w) \ {w}
           c == DelUser(w)
           p == SendAll(S, c, TRUE)
           q == <<Send(w, c, TRUE)>>
<1>1. Committing(new, p \o q)
  BY CommitFacts DEF sekey_delete_user, LessUser
<1>2. Tidy(adm) /\ IsQueue(sends') /\ DOMAIN adm'.users \subseteq DOMAIN adm.users
  BY DeleteUserChanges, QueueSent
<1>3. adm' = new /\ sends' = p \o q
  BY <1>1, CommittingFacts
<1>4. S \in SUBSET User /\ IsFiniteSet(S)
  <2>1. IsFiniteSet(Peers(adm, w)) /\ Peers(adm, w) \subseteq User
    BY <1>2, FiniteIds DEF Tidy
  <2> QED BY <2>1, FS_Subset
<1>5. IsCommand(c)
  BY FewCommands
<1>6. IsQueue(p) /\ Each(p, S, [x \in S |-> c], TRUE)
  <2> HIDE DEF S, c
  <2>1. TRUE \in BOOLEAN
    OBVIOUS
  <2> QED BY <1>4, <1>5, <2>1, TellEach
<1> HIDE DEF new, p
<1>7. IsQueue(p \o q)
  BY <1>2, <1>3
<1>8. w \notin DOMAIN new.users
  <2>1. new.users = Drop(adm.users, {w})
    BY <1>2, TidyDeleteUser DEF UserGone, new
  <2> QED BY <2>1 DEF Drop, Restrict
<1>9. ASSUME NEW u \in User, u \in DOMAIN adm'.users
      PROVE  u \in DOMAIN adm.users /\ Learns(adm, adm', sends', u)
  <2>1. u \in DOMAIN adm.users /\ u # w
    BY <1>2, <1>3, <1>8, <1>9
  <2>2. Learns(adm, LessUser(adm, w), p \o q, u)
    BY <1>2, <1>6, <1>7, <2>1, LearnDeleteUser
  <2> QED BY <1>3, <2>1, <2>2 DEF new
<1>10. \A u \in DOMAIN adm.users : u \in DOMAIN adm'.users \/ u \in recovery'
  <2>1. new.users = Drop(adm.users, {w})
    BY <1>2, TidyDeleteUser DEF UserGone, new
  <2>2. \A u \in DOMAIN adm.users : u \in DOMAIN new.users \/ u = w
    BY <2>1 DEF Drop, Restrict
  <2>3. w \in recovery'
    <3> DEFINE r == p \o q
    <3>1. recovery' = recovery \cup {r[i].to : i \in DOMAIN r}
      BY <1>1, CommittingFacts DEF new, p
    <3>2. LastOf(q, w, c)
      BY <1>5, LastSend
    <3> HIDE DEF q, c
    <3>3. IsSeq(p) /\ IsSeq(q) /\ Len(p) \in Nat /\ Len(q) \in Nat /\ \E i \in 1..Len(q) : q[i].to = w
      BY <1>6, <3>2, SeqFacts DEF LastOf, OnceTo, IsQueue
    <3>4. PICK i \in 1..Len(q) : q[i].to = w
      BY <3>3
    <3>5. Len(r) = Len(p) + Len(q) /\ r[Len(p) + i] = q[i] /\ IsSeq(r)
      BY <3>3, <3>4, ConcatSeq
    <3>6. DOMAIN r = 1..Len(r)
      BY <3>5, SeqFacts
    <3> HIDE DEF r
    <3>7. Len(p) + i \in DOMAIN r
      BY <3>3, <3>4, <3>5, <3>6
    <3> QED BY <3>1, <3>4, <3>5, <3>7
  <2> QED BY <1>3, <2>2, <2>3
<1> QED BY <1>9, <1>10 DEF Taught

\* sekey_delete_group.
LEMMA DeleteGroupTeaches ==
  ASSUME Base, NEW g \in Group, sekey_delete_group(g)
  PROVE  Taught
<1> DEFINE new == [adm EXCEPT !.groups = Drop(@, {g}),
                        !.member = {m \in @ : m[2] # g},
                        !.keys = [k \in DOMAIN @ |-> IF @[k].owner = g
                                                       THEN [@[k] EXCEPT !.owner = Zombie]
                                                       ELSE @[k]]]
           ks == [k \in DOMAIN adm.keys |-> IF adm.keys[k].owner = g
                                              THEN [adm.keys[k] EXCEPT !.owner = Zombie]
                                              ELSE adm.keys[k]]
           S == MembersOf(adm, g)
           c == DelGroup(g)
           q == SendAll(S, c, TRUE)
<1>1. Committing(new, q) /\ g \in DOMAIN adm.groups
  BY CommitFacts DEF sekey_delete_group
<1>2. Tidy(adm) /\ IsQueue(sends') /\ DOMAIN adm'.users \subseteq DOMAIN adm.users
  BY DeleteGroupChanges, QueueSent
<1>3. adm' = new /\ sends' = q
  BY <1>1, CommittingFacts
<1>4. /\ Tidy(new) /\ new.users = adm.users /\ new.member = {m \in adm.member : m[2] # g}
      /\ new.keys = ks /\ new.groups = Drop(adm.groups, {g})
  BY <1>1, <1>2, TidyDeleteGroup, ZenonT(60)
<1>5. /\ DOMAIN ks = DOMAIN adm.keys
      /\ \A k \in DOMAIN adm.keys : /\ adm.keys[k].owner = g => ks[k].owner = Zombie
                                    /\ adm.keys[k].owner # g => ks[k] = adm.keys[k]
  <2>1. \A k \in DOMAIN adm.keys : adm.keys[k] \in KeyRow
    BY <1>2 DEF Tidy, AreTables, IsTable
  <2>2. \A r \in KeyRow : [r EXCEPT !.owner = Zombie].owner = Zombie
    BY DEF KeyRow
  <2> QED BY <2>1, <2>2
<1>6. S \in SUBSET User /\ IsFiniteSet(S)
  BY <1>2, FiniteIds DEF Tidy
<1>7. IsCommand(c)
  BY FewCommands
<1>8. IsQueue(q) /\ Each(q, S, [x \in S |-> c], TRUE)
  <2> HIDE DEF S, c
  <2>1. TRUE \in BOOLEAN
    OBVIOUS
  <2> QED BY <1>6, <1>7, <2>1, TellEach
<1> HIDE DEF new, q, ks
<1>9. ASSUME NEW u \in User, u \in DOMAIN adm'.users
      PROVE  u \in DOMAIN adm.users /\ Learns(adm, adm', sends', u)
  <2>1. u \in DOMAIN adm.users
    BY <1>2, <1>9
  <2>2. /\ DOMAIN new.keys = DOMAIN adm.keys
        /\ \A k \in DOMAIN adm.keys : /\ adm.keys[k].owner = g => new.keys[k].owner = Zombie
                                      /\ adm.keys[k].owner # g => new.keys[k] = adm.keys[k]
    BY <1>4, <1>5
  <2>3. Learns(adm, new, q, u)
    BY <1>1, <1>2, <1>4, <1>8, <2>1, <2>2, LearnDeleteGroup
  <2> QED BY <1>3, <2>1, <2>3
<1> QED BY <1>3, <1>4, <1>9 DEF Taught

\* sekey_add_key, unless it fails and leaves only the key in the flash.
LEMMA AddKeyTeaches ==
  ASSUME Base, NEW k \in Key, NEW g \in Group, sekey_add_key(k, g)
  PROVE  (Changed /\ Taught) \/ Leaked
<1> DEFINE s == KeyInsert(k, g)
           t == Count("keys_counter", g, 1)
           new == MoreKey(adm, k, g)
           S == MembersOf(adm, g)
           c == SQL(<<s, t>>)
           p == SendAll(S, c, FALSE)
           q == SendAll(S, KeyData(k), TRUE)
<1>1. /\ k \notin DOMAIN adm.keys /\ g \in DOMAIN adm.groups
      /\ \/ Committing(After(After(adm, <<s, t>>[1]), <<s, t>>[2]), p \o q)
         \/ UNCHANGED <<adm, update_counter, recovery, sends, file, dev>> /\ expiring' = FALSE
      /\ aflash' = aflash \cup {k} /\ forgotten' = forgotten
  BY CommitFacts DEF sekey_add_key, KeyInsert, Call
<1>2. <<s, t>>[1] = s /\ <<s, t>>[2] = t
  OBVIOUS
<1>3. After(After(adm, s), t) = new
  BY DEF MoreKey, KeyInsert
<1>4. IsStatement(s) /\ IsStatement(t)
  BY StatementKinds DEF KeyInsert
<1> HIDE DEF s, t, new
<1>5. CASE Committing(new, p \o q)
  <2>1. adm' = new /\ sends' = p \o q
    BY <1>5, CommittingFacts
  <2>2. S \in SUBSET User /\ IsFiniteSet(S) /\ Tidy(adm)
    BY FiniteIds DEF Base, Tidy
  <2>3. IsCommand(c) /\ IsCommand(KeyData(k)) /\ TRUE \in BOOLEAN /\ FALSE \in BOOLEAN
    BY <1>4, FewCommands
  <2>4. KeyAdded(adm, k, g, new)
    BY <1>1, <2>2, TidyAddKey DEF new
  <2>5. new.users = adm.users
    BY <2>4 DEF KeyAdded
  <2> HIDE DEF S, c
  <2>6. IsQueue(p) /\ Each(p, S, [x \in S |-> c], FALSE)
    BY <2>2, <2>3, TellEach
  <2>7. IsQueue(q) /\ Each(q, S, [x \in S |-> KeyData(k)], TRUE)
    BY <2>2, <2>3, TellEach
  <2>8. Changed \/ (sends' = sends /\ adm' = adm)
    BY AddKeyChanges
  <2>9. adm' # adm
    <3>1. k \in DOMAIN new.keys
      BY <2>4 DEF KeyAdded
    <3> QED BY <1>1, <2>1, <3>1
  <2>10. IsQueue(p \o q) /\ Changed
    BY <2>1, <2>8, <2>9, QueueSent
  <2> HIDE DEF p, q
  <2>11. ASSUME NEW u \in User, u \in DOMAIN adm'.users
         PROVE  u \in DOMAIN adm.users /\ Learns(adm, adm', sends', u)
    <3>1. u \in DOMAIN adm.users
      BY <2>1, <2>5, <2>11
    <3>2. Each(p, MembersOf(adm, g), [x \in MembersOf(adm, g) |-> SQL(<<s, t>>)], FALSE)
      BY <2>6 DEF S, c
    <3>3. Each(q, MembersOf(adm, g), [x \in MembersOf(adm, g) |-> KeyData(k)], TRUE)
      BY <2>7 DEF S
    <3>4. s = KeyInsert(k, g) /\ t = Count("keys_counter", g, 1)
      BY DEF s, t
    <3>5. Learns(adm, MoreKey(adm, k, g), p \o q, u)
      BY <1>1, <2>2, <2>6, <2>7, <2>10, <3>1, <3>2, <3>3, <3>4, LearnAddKey
    <3> QED BY <2>1, <3>1, <3>5 DEF new
  <2> QED BY <2>1, <2>5, <2>10, <2>11 DEF Taught
<1>6. CASE UNCHANGED <<adm, update_counter, recovery, sends, file, dev>> /\ expiring' = FALSE
  BY <1>1, <1>6 DEF Leaked
<1> QED BY <1>1, <1>2, <1>3, <1>5, <1>6

\* Two queues make a queue.
LEMMA QueuesJoined ==
  ASSUME NEW p, NEW q, IsQueue(p), IsQueue(q)
  PROVE  IsQueue(p \o q)
<1> DEFINE r == p \o q
<1>1. IsSeq(p) /\ IsSeq(q) /\ Len(p) \in Nat /\ Len(q) \in Nat
  BY SeqFacts DEF IsQueue
<1>2. /\ IsSeq(r) /\ Len(r) = Len(p) + Len(q)
      /\ \A i \in 1..Len(p) : r[i] = p[i]
      /\ \A i \in 1..Len(q) : r[Len(p) + i] = q[i]
  BY <1>1, ConcatSeq
<1> HIDE DEF r
<1>3. ASSUME NEW i \in 1..Len(r)
      PROVE  r[i].to \in User /\ r[i].erase \in BOOLEAN /\ IsCommand(r[i].cmd)
  <2>1. CASE i <= Len(p)
    <3>1. i \in 1..Len(p) /\ r[i] = p[i]
      BY <1>1, <1>2, <1>3, <2>1
    <3> QED BY <3>1 DEF IsQueue
  <2>2. CASE i > Len(p)
    <3>1. i - Len(p) \in 1..Len(q) /\ i = Len(p) + (i - Len(p))
      BY <1>1, <1>2, <1>3, <2>2
    <3>2. r[i] = q[i - Len(p)]
      BY <1>2, <3>1
    <3> QED BY <3>1, <3>2 DEF IsQueue
  <2> QED BY <1>1, <1>2, <1>3, <2>1, <2>2
<1> QED BY <1>2, <1>3 DEF IsQueue, r

\* sekey_add_user_group.
LEMMA JoinTeaches ==
  ASSUME Base, NEW w \in User, NEW g \in Group, sekey_add_user_group(w, g)
  PROVE  Taught
<1> DEFINE S == MembersOf(adm, g)
           p == OldMembersSends(w, g)
           k == KeysSends(w, g)
           c == JoinText(adm, w, g)
           q == <<Send(w, c, TRUE)>>
           cmds == [v \in S |-> SQL(ForOldMember(v, w, g))]
<1>1. /\ Changed /\ adm' = MoreMember(adm, w, g) /\ g \in DOMAIN adm.groups
      /\ w \in DOMAIN adm.users /\ <<w, g>> \notin adm.member
      /\ sends' = p \o k \o <<Send(w, SQL(ForNewMember(w, g)), TRUE)>>
  BY JoinChanges
<1>2. Tidy(adm) /\ IsQueue(sends') /\ DOMAIN adm'.users \subseteq DOMAIN adm.users
  BY <1>1, QueueSent
<1>3. ForNewMember(w, g) = <<NewcomerInsert(adm, w, g), JoinInsert(w, g), JoinCount(g)>>
  <2>1. Insert(Strangers(w, g), Restrict(adm.groups, {g}), {m \in adm.member : m[2] = g},
               Restrict(adm.keys, KeysOf(adm, g))) = NewcomerInsert(adm, w, g)
    BY DEF Strangers, NewcomerInsert, Strange
  <2> QED BY <2>1, JoinTexts DEF JoinInsert, JoinCount
<1>4. sends' = (p \o k) \o q
  BY <1>1, <1>3 DEF JoinText
<1>5. \A v : ForOldMember(v, w, g) = ToldOfMember(adm, v, w, g)
  BY JoinTexts DEF ToldOfMember, JoinInsert, JoinCount
<1>6. /\ Each(p, S, cmds, TRUE) /\ ToOne(k, w)
      /\ \A i \in 1..Len(k) : \E x \in KeysOf(adm, g) : k[i].cmd = KeyData(x)
      /\ \A x \in KeysOf(adm, g) : adm.keys[x].status # "destroyed" =>
           \E i \in 1..Len(k) : k[i].cmd = KeyData(x)
  BY <1>2, JoinSends
<1>7. \A v \in S : cmds[v] = SQL(ForOldMember(v, w, g))
  OBVIOUS
<1> HIDE DEF p, k, cmds, S
<1>8. \A v \in S : cmds[v] = SQL(ToldOfMember(adm, v, w, g))
  BY <1>5, <1>7
<1>9. \A x : KeyData(x).type = "KEY_DATA" /\ KeyData(x).key = x
  BY DEF KeyData
<1>10. IsQueue(k) /\ \A i \in 1..Len(k) : k[i].to = w /\ k[i].cmd.type = "KEY_DATA"
  <2>1. IsQueue(k) /\ \A i \in 1..Len(k) : k[i].to = w
    BY <1>6, ToOneQueue
  <2> QED BY <1>6, <1>9, <2>1
<1>11. \A x \in KeysOf(adm, g) : adm.keys[x].status # "destroyed" =>
         \E i \in 1..Len(k) : k[i].cmd.key = x
  BY <1>6, <1>9
<1>12. IsQueue(p)
  <2>1. S \in SUBSET User
    BY <1>2, FiniteIds DEF Tidy, S
  <2>2. \A x \in S : IsCommand(cmds[x])
    <3>1. \A v : IsMild(SQL(ForOldMember(v, w, g)), v)
      BY JoinTexts
    <3> QED BY <1>7, <3>1 DEF IsMild
  <2>3. IsSeq(p) /\ \A i \in 1..Len(p) : p[i].to \in S /\ p[i] = Send(p[i].to, cmds[p[i].to], TRUE)
    BY <1>6 DEF Each
  <2>4. ASSUME NEW i \in 1..Len(p)
        PROVE  p[i].to \in User /\ p[i].erase \in BOOLEAN /\ IsCommand(p[i].cmd)
    <3> DEFINE v == p[i].to
               z == cmds[v]
    <3>1. v \in S /\ p[i] = Send(v, z, TRUE)
      BY <2>3, <2>4
    <3>2. IsCommand(z)
      BY <2>2, <3>1
    <3> HIDE DEF v, z
    <3>3. p[i].cmd = z /\ p[i].erase = TRUE /\ p[i].to = v
      BY <3>1 DEF Send
    <3> QED BY <2>1, <3>1, <3>2, <3>3
  <2> QED BY <2>3, <2>4 DEF IsQueue
<1>13. IsQueue(p \o k)
  BY <1>10, <1>12, QueuesJoined
<1>14. IsQueue((p \o k) \o <<Send(w, c, TRUE)>>)
  BY <1>2, <1>4
<1>15. ASSUME NEW u \in User, u \in DOMAIN adm'.users
       PROVE  u \in DOMAIN adm.users /\ Learns(adm, adm', sends', u)
  <2>1. u \in DOMAIN adm.users
    BY <1>2, <1>15
  <2>2. Each(p, MembersOf(adm, g), cmds, TRUE)
        /\ \A v \in MembersOf(adm, g) : cmds[v] = SQL(ToldOfMember(adm, v, w, g))
    BY <1>6, <1>8 DEF S
  <2>3. c = JoinText(adm, w, g)
    OBVIOUS
  <2> HIDE DEF c
  <2>4. Learns(adm, MoreMember(adm, w, g), (p \o k) \o <<Send(w, c, TRUE)>>, u)
    BY <1>1, <1>2, <1>10, <1>11, <1>12, <1>13, <1>14, <2>1, <2>2, <2>3, LearnJoin
  <2> QED BY <1>1, <1>4, <2>1, <2>4 DEF c
<1>16. adm'.users = adm.users
  <2>1. MoreMember(adm, w, g).users = adm.users
    BY <1>1, <1>2, TidyJoin, ZenonT(60)
  <2> QED BY <1>1, <2>1
<1> QED BY <1>15, <1>16 DEF Taught

\* Every call of the administrator teaches what it changes, leaves only a key in
\* the flash, or is one of the three that send nothing.
LEMMA AdminTeaches ==
  ASSUME Base, AdminCall
  PROVE  \/ Changed /\ Taught
         \/ Leaked
         \/ \E u \in User : \/ sekey_add_user(u) \/ sekey_init_user_SEcube(u)
                            \/ sekey_write_recovery(u)
<1> DEFINE Good == Changed /\ Taught
<1>1. ASSUME NEW g \in Group,
             \/ sekey_group_change_name(g) \/ sekey_group_change_max_keys(g)
             \/ sekey_group_change_default_cryptoperiod(g)
      PROVE  Good
  <2>1. \E c \in GroupColumn : GroupChange(g, c)
    BY <1>1 DEF sekey_group_change_name, sekey_group_change_max_keys,
                sekey_group_change_default_cryptoperiod, GroupColumn
  <2> QED BY <2>1, ChangeGroupChanges, ChangeGroupTeaches
<1>2. ASSUME NEW k \in Key,
             \/ sekey_key_change_name(k) \/ sekey_activate_key(k)
             \/ \E s \in Status : sekey_key_change_status(k, s)
             \/ sekey_check_expired_keys(k)
      PROVE  Good
  BY <1>2, KeyCalls, ChangeKeyTeaches
<1>3. ASSUME NEW k \in Key, NEW g \in Group, sekey_add_key(k, g)
      PROVE  Good \/ Leaked
  BY <1>3, AddKeyTeaches
<1>4. ASSUME NEW u \in User, sekey_recovery(u) \/ sekey_recovery_request(u)
      PROVE  sekey_write_recovery(u)
  BY <1>4 DEF sekey_recovery, sekey_recovery_request
<1>5. ASSUME NEW u \in User, sekey_delete_user(u) \/ sekey_user_change_name(u)
      PROVE  Good
  BY <1>5, DeleteUserChanges, DeleteUserTeaches, ChangeUserChanges, ChangeUserTeaches
<1>6. ASSUME NEW g \in Group, sekey_add_group(g) \/ sekey_delete_group(g)
      PROVE  Good
  BY <1>6, AddGroupChanges, AddGroupTeaches, DeleteGroupChanges, DeleteGroupTeaches
<1>7. ASSUME NEW u \in User, NEW g \in Group, sekey_add_user_group(u, g) \/ sekey_delete_user_group(u, g)
      PROVE  Good
  BY <1>7, JoinChanges, JoinTeaches, LeaveChanges, LeaveTeaches
<1> HIDE DEF Good
<1>8. CASE \E u \in User : \/ sekey_add_user(u) \/ sekey_init_user_SEcube(u)
                           \/ sekey_delete_user(u) \/ sekey_user_change_name(u)
                           \/ sekey_recovery(u) \/ sekey_recovery_request(u)
  BY <1>4, <1>5, <1>8 DEF Good
<1>9. CASE \E g \in Group : \/ sekey_add_group(g) \/ sekey_delete_group(g)
                            \/ sekey_group_change_name(g) \/ sekey_group_change_max_keys(g)
                            \/ sekey_group_change_default_cryptoperiod(g)
  BY <1>1, <1>6, <1>9 DEF Good
<1>10. CASE \E u \in User, g \in Group : sekey_add_user_group(u, g) \/ sekey_delete_user_group(u, g)
  BY <1>7, <1>10 DEF Good
<1>11. CASE \E k \in Key : \/ \E g \in Group : sekey_add_key(k, g)
                           \/ sekey_key_change_name(k) \/ sekey_activate_key(k)
                           \/ \E s \in Status : sekey_key_change_status(k, s)
                           \/ sekey_check_expired_keys(k)
  BY <1>2, <1>3, <1>11 DEF Good
<1> QED BY <1>8, <1>9, <1>10, <1>11 DEF AdminCall

\* A file that is executed: the counter is that of the user's own row.
Ended(E, D, P, u) ==
  /\ IsWork(E) /\ E.db = P.db /\ E.flash = P.flash /\ E.updkeys = D.updkeys /\ E.ok = P.ok
  /\ u \in DOMAIN P.db.users => E = P
  /\ u \notin DOMAIN P.db.users => E.cnt = 0

\* What the execution of a file leaves: the counter is that of the own row.
LEMMA ExecutedFacts ==
  ASSUME NEW D, IsWork(D), NEW u, NEW q, IsRecords(q)
  PROVE  Ended(Executed(D, u, q), D, Performed(D, u, q), u)
<1> DEFINE P == Performed(D, u, q)
<1>1. IsWork(P) /\ P.updkeys = D.updkeys
  BY PerformedShape
<1>2. Executed(D, u, q) = IF u \in DOMAIN P.db.users THEN P ELSE [P EXCEPT !.cnt = 0]
  BY DEF Executed
<1> HIDE DEF P
<1> DEFINE E == Executed(D, u, q)
<1>3. CASE u \in DOMAIN P.db.users
  <2>1. E = P
    BY <1>2, <1>3
  <2> HIDE DEF E
  <2>2. Ended(E, D, P, u)
    BY <1>1, <1>3, <2>1 DEF Ended
  <2> QED BY <2>2 DEF E, P
<1>4. CASE u \notin DOMAIN P.db.users
  <2>1. E = [P EXCEPT !.cnt = 0]
    BY <1>2, <1>4
  <2>2. P = [db |-> P.db, cnt |-> P.cnt, flash |-> P.flash, updkeys |-> P.updkeys, ok |-> P.ok]
    BY <1>1 DEF IsWork
  <2>3. E = [db |-> P.db, cnt |-> 0, flash |-> P.flash, updkeys |-> P.updkeys, ok |-> P.ok]
    BY <2>1, <2>2
  <2> HIDE DEF E
  <2>4. E.db = P.db /\ E.cnt = 0 /\ E.flash = P.flash /\ E.updkeys = P.updkeys /\ E.ok = P.ok
    BY <2>3
  <2>5. IsWork(E)
    BY <1>1, <2>3, <2>4 DEF IsWork
  <2>6. Ended(E, D, P, u)
    BY <1>1, <1>4, <2>4, <2>5 DEF Ended
  <2> QED BY <2>6 DEF E, P
<1> QED BY <1>3, <1>4

\* Execution does not repair what went wrong before.
LEMMA PerformedOk ==
  ASSUME NEW D, IsWork(D), NEW u, NEW q, IsRecords(q), Performed(D, u, q).ok
  PROVE  D.ok
<1> PICK f : IsRun(f, D, u, q) /\ Performed(D, u, q) = f[Len(q)]
  BY PerformedIsRun DEF IsRecords
<1>1. InSteps(f, D, u, q)
  BY RunShape
<1>2. /\ Len(q) \in Nat /\ f[0] = D
      /\ \A i \in 1..Len(q) : f[i] = Apply(f[i - 1], u, q[i]) /\ i - 1 \in 0..Len(q)
      /\ \A i \in 0..Len(q) : IsWork(f[i])
  BY <1>1 DEF InSteps
<1> DEFINE T == {i \in 0..Len(q) : f[i].ok => D.ok}
<1>3. 0 \in T
  BY <1>2
<1>4. ASSUME NEW i \in 1..Len(q), i - 1 \in T
      PROVE  i \in T
  <2>1. q[i].cnt \in Nat /\ IsCommand(q[i].cmd)
    BY DEF IsRecords
  <2>2. IsWork(f[i - 1]) /\ f[i] = Apply(f[i - 1], u, q[i])
    BY <1>2
  <2>3. f[i].ok => f[i - 1].ok
    BY <2>1, <2>2, ApplyShape
  <2> QED BY <1>2, <1>4, <2>3
<1> HIDE DEF T
<1>5. \A i \in 0..Len(q) : i \in T
  BY <1>2, <1>3, <1>4, UpTo
<1>6. Len(q) \in 0..Len(q)
  BY <1>2
<1> QED BY <1>5, <1>6 DEF T

\* What a pending file makes of a device that has its update keys.
Passed(E, D, u, F, f) ==
  /\ IsWork(E) /\ E.updkeys
  /\ E.ok => D.ok
  /\ f \notin DOMAIN F => E = D
  /\ f \in DOMAIN F /\ D.ok => E = Executed(D, u, F[f])

\* A file that is there is executed, one that is not there changes nothing.
LEMMA ReplayFileFacts ==
  ASSUME NEW D, IsWork(D), D.updkeys, NEW u, NEW F, IsFiles(F), NEW f
  PROVE  Passed(ReplayFile(D, u, F, f), D, u, F, f)
<1> DEFINE E == ReplayFile(D, u, F, f)
<1>1. CASE f \notin DOMAIN F \/ ~D.ok
  <2>1. E = D
    BY <1>1 DEF ReplayFile
  <2> HIDE DEF E
  <2>2. Passed(E, D, u, F, f)
    BY <1>1, <2>1 DEF Passed
  <2> QED BY <2>2 DEF E
<1>2. CASE f \in DOMAIN F /\ D.ok
  <2>1. Readable(D, F[f])
    BY DEF Readable
  <2>2. E = Executed(D, u, F[f])
    BY <1>2, <2>1 DEF ReplayFile
  <2>3. IsRecords(F[f])
    BY <1>2 DEF IsFiles
  <2>4. Ended(E, D, Performed(D, u, F[f]), u)
    BY <2>2, <2>3, ExecutedFacts
  <2> HIDE DEF E
  <2>5. Passed(E, D, u, F, f)
    BY <1>2, <2>2, <2>4 DEF Passed, Ended
  <2> QED BY <2>5 DEF E
<1> QED BY <1>1, <1>2

\* Only the file at hand matters.
LEMMA ReplayFileSame ==
  ASSUME NEW D, NEW u, NEW F, NEW G, NEW f, f \in DOMAIN F <=> f \in DOMAIN G,
         f \in DOMAIN F => F[f] = G[f]
  PROVE  ReplayFile(D, u, F, f) = ReplayFile(D, u, G, f)
BY DEF ReplayFile

\* The files in their order.
Sequel(u, F, D, I, R, N) ==
  Passed(I, D, u, F, "init") /\ Passed(R, I, u, F, "recovery") /\ Passed(N, R, u, F, "normal")

\* The three files are executed in the order init, recovery, normal.
LEMMA ReplayIs ==
  ASSUME NEW D, IsWork(D), D.updkeys, NEW u, NEW F, IsFiles(F)
  PROVE  /\ Sequel(u, F, D, ReplayFile(D, u, F, "init"),
                   ReplayFile(ReplayFile(D, u, F, "init"), u, F, "recovery"),
                   ReplayFiles(D, u, F))
         /\ ReplayFiles(D, u, F) =
              ReplayFile(ReplayFile(ReplayFile(D, u, F, "init"), u, F, "recovery"), u, F, "normal")
<1> DEFINE I == ReplayFile(D, u, F, "init")
           R == ReplayFile(I, u, F, "recovery")
           N == ReplayFile(R, u, F, "normal")
<1>1. ReplayFiles(D, u, F) = N
  BY DEF ReplayFiles
<1>2. Passed(I, D, u, F, "init")
  BY ReplayFileFacts
<1> HIDE DEF I
<1>3. Passed(R, I, u, F, "recovery")
  BY <1>2, ReplayFileFacts DEF Passed
<1> HIDE DEF R
<1>4. Passed(N, R, u, F, "normal")
  BY <1>3, ReplayFileFacts DEF Passed
<1> HIDE DEF N
<1>5. Sequel(u, F, D, I, R, N)
  BY <1>2, <1>3, <1>4 DEF Sequel
<1> QED BY <1>1, <1>5 DEF I, R, N

\* What the three files leave.
LEMMA ReplayShape ==
  ASSUME NEW D, IsWork(D), D.updkeys, NEW u, NEW F, IsFiles(F)
  PROVE  LET E == ReplayFiles(D, u, F)
         IN  IsWork(E) /\ E.updkeys /\ (E.ok => D.ok) /\ (DOMAIN F = {} => E = D)
<1> DEFINE I == ReplayFile(D, u, F, "init")
           R == ReplayFile(I, u, F, "recovery")
           E == ReplayFiles(D, u, F)
<1>1. Sequel(u, F, D, I, R, E)
  BY ReplayIs
<1> HIDE DEF I, R, E
<1>2. IsWork(E) /\ E.updkeys /\ (E.ok => D.ok) /\ (DOMAIN F = {} => E = D)
  BY <1>1 DEF Sequel, Passed
<1> QED BY <1>2 DEF E

\* The device that replays its files is at the user's view once it hears what
\* the current call has still to write; x is the row it then has of its user.
GoodAt(A, q, R, u, x, n) ==
  /\ R.ok /\ R.updkeys /\ u \in DOMAIN R.db.users /\ R.cnt = n
  /\ Knows(Told(R, u, q), Own(A, u, x), u)

\* A device that is not provisioned starts from an init file, with row r.
Fresh(u, r) ==
  [db |-> [users |-> [v \in {u} |-> r], groups |-> <<>>, member |-> {}, keys |-> <<>>],
   cnt |-> 0, flash |-> {}, updkeys |-> TRUE, ok |-> TRUE]

StartsFrom(d, A, u, D0, r) ==
  IF d.ready THEN d.updkeys /\ D0 = Committed(d) /\ r = A.users[u]
             ELSE r \in UserRow /\ D0 = Fresh(u, r)

SyncAt(A, q, d, F, u, n) ==
  \A D0, r : StartsFrom(d, A, u, D0, r) =>
    \E x \in {r, A.users[u]} : GoodAt(A, q, ReplayFiles(D0, u, F), u, x, n)

\* A device that has only been initialised.
LEMMA FreshFacts ==
  ASSUME NEW u, NEW r
  PROVE  LET D == Fresh(u, r)
         IN  /\ IsWork(D) /\ D.cnt = 0 /\ D.flash = {} /\ D.updkeys /\ D.ok
             /\ DOMAIN D.db.users = {u} /\ D.db.users[u] = r /\ D.db.users = [v \in {u} |-> r]
             /\ D.db.groups = <<>> /\ D.db.member = {} /\ D.db.keys = <<>>
<1> DEFINE db == [users |-> [v \in {u} |-> r], groups |-> <<>>, member |-> {}, keys |-> <<>>]
           D == Fresh(u, r)
<1>1. /\ IsDb(db) /\ db.users = [v \in {u} |-> r] /\ db.groups = <<>> /\ db.member = {}
      /\ db.keys = <<>>
  BY DEF IsDb
<1>2. DOMAIN db.users = {u} /\ db.users[u] = r
  BY <1>1
<1>3. D = [db |-> db, cnt |-> 0, flash |-> {}, updkeys |-> TRUE, ok |-> TRUE]
  BY DEF Fresh
<1> HIDE DEF db, D
<1>4. D.db = db /\ D.cnt = 0 /\ D.flash = {} /\ D.updkeys = TRUE /\ D.ok = TRUE
  BY <1>3
<1>5. IsWork(D)
  BY <1>1, <1>3, <1>4 DEF IsWork
<1> QED BY <1>1, <1>2, <1>4, <1>5 DEF D

\* The places a device may start from.
LEMMA StartFacts ==
  ASSUME NEW d, IsDevice(d), NEW A, Tidy(A), NEW u \in DOMAIN A.users, NEW D0, NEW r,
         StartsFrom(d, A, u, D0, r)
  PROVE  IsWork(D0) /\ D0.updkeys /\ D0.ok /\ r \in UserRow
<1>1. CASE d.ready
  <2>1. D0 = Committed(d) /\ d.updkeys /\ r = A.users[u]
    BY <1>1 DEF StartsFrom
  <2>2. IsWork(Committed(d)) /\ Committed(d).updkeys = d.updkeys /\ Committed(d).ok = TRUE
    BY WorkFacts
  <2>3. A.users[u] \in UserRow
    BY OwnSame
  <2> QED BY <2>1, <2>2, <2>3
<1>2. CASE ~d.ready
  <2>1. D0 = Fresh(u, r) /\ r \in UserRow
    BY <1>2 DEF StartsFrom
  <2> QED BY <2>1, FreshFacts
<1> QED BY <1>1, <1>2

\* Only the last counter counts.
LEMMA AtTwice ==
  ASSUME NEW R, NEW n, NEW m, NEW F, NEW G
  PROVE  At(At(R, n, F), m, G) = At(R, m, G)
BY DEF At

\* What is told does not depend on the counter.
LEMMA ToldAt ==
  ASSUME NEW R, IsWork(R), NEW n \in Nat, NEW u, NEW q
  PROVE  Told(At(R, n, R.flash), u, q) = Told(R, u, q)
<1>1. At(R, n, R.flash).flash = R.flash
  BY AtFacts
<1>2. At(At(R, n, R.flash), 0, R.flash) = At(R, 0, R.flash)
  BY AtTwice
<1> QED BY <1>1, <1>2 DEF Told

\* What the administrator knows of a change is what the users learn of it.
LEMMA GoodLearns ==
  ASSUME NEW A, Tidy(A), NEW B, Tidy(B), NEW u, u \in DOMAIN A.users, u \in DOMAIN B.users,
         NEW q, Learns(A, B, q, u), NEW R, IsWork(R), NEW n,
         NEW x \in UserRow, GoodAt(A, <<>>, R, u, x, n)
  PROVE  \/ B.users[u] = A.users[u] /\ GoodAt(B, q, R, u, x, n)
         \/ GoodAt(B, q, R, u, B.users[u], n)
<1>1. /\ R.ok /\ R.updkeys /\ u \in DOMAIN R.db.users /\ R.cnt = n
      /\ Knows(Told(R, u, <<>>), Own(A, u, x), u)
  BY DEF GoodAt
<1>2. Told(R, u, <<>>) = At(R, 0, R.flash)
  BY ToldNone
<1>3. Knows(R, Own(A, u, x), u)
  BY <1>1, <1>2, KnowsAt
<1>4. CASE B.users[u] = A.users[u] /\ \A y \in UserRow : Reaches(Own(A, u, y), Own(B, u, y), q, u)
  <2>1. Reaches(Own(A, u, x), Own(B, u, x), q, u)
    BY <1>4
  <2>2. Knows(Told(R, u, q), Own(B, u, x), u)
    BY <1>3, <2>1 DEF Reaches
  <2>3. GoodAt(B, q, R, u, x, n)
    BY <1>1, <2>2 DEF GoodAt
  <2> QED BY <1>4, <2>3
<1>5. CASE \A y \in UserRow : Reaches(Own(A, u, y), B, q, u)
  <2>1. Reaches(Own(A, u, x), B, q, u)
    BY <1>5
  <2>2. Knows(Told(R, u, q), B, u)
    BY <1>3, <2>1 DEF Reaches
  <2>3. Own(B, u, B.users[u]) = B
    BY OwnSame
  <2>4. GoodAt(B, q, R, u, B.users[u], n)
    BY <1>1, <2>2, <2>3 DEF GoodAt
  <2> QED BY <2>4
<1> QED BY <1>4, <1>5 DEF Learns

\* A call of the administrator: what it sends leads on to the new tables.
LEMMA SyncLearns ==
  ASSUME NEW A, Tidy(A), NEW B, Tidy(B), NEW u, u \in DOMAIN A.users, u \in DOMAIN B.users,
         NEW q, Learns(A, B, q, u), NEW d, IsDevice(d), NEW F, IsFiles(F), NEW n,
         SyncAt(A, <<>>, d, F, u, n)
  PROVE  SyncAt(B, q, d, F, u, n)
<1> SUFFICES ASSUME NEW D0, NEW r, StartsFrom(d, B, u, D0, r)
             PROVE  \E x \in {r, B.users[u]} : GoodAt(B, q, ReplayFiles(D0, u, F), u, x, n)
  BY DEF SyncAt
<1>1. IsWork(D0) /\ D0.updkeys /\ D0.ok /\ r \in UserRow
  BY StartFacts
<1> DEFINE R == ReplayFiles(D0, u, F)
           s == IF d.ready THEN A.users[u] ELSE r
<1>2. IsWork(R)
  BY <1>1, ReplayShape
<1>3. StartsFrom(d, A, u, D0, s)
  BY DEF StartsFrom
<1>4. PICK x \in {s, A.users[u]} : GoodAt(A, <<>>, R, u, x, n)
  BY <1>3 DEF SyncAt
<1>5. A.users[u] \in UserRow /\ B.users[u] \in UserRow
  BY OwnSame
<1>6. x \in UserRow
  BY <1>1, <1>4, <1>5
<1> HIDE DEF R
<1>7. \/ B.users[u] = A.users[u] /\ GoodAt(B, q, R, u, x, n)
      \/ GoodAt(B, q, R, u, B.users[u], n)
  BY <1>2, <1>4, <1>6, GoodLearns
<1>8. B.users[u] = A.users[u] => x \in {r, B.users[u]}
  BY <1>4 DEF StartsFrom
<1>9. \E y \in {r, B.users[u]} : GoodAt(B, q, R, u, y, n)
  BY <1>7, <1>8
<1> QED BY <1>9 DEF R

\* A send to someone else.
LEMMA SyncDeaf ==
  ASSUME NEW A, Tidy(A), NEW u, u \in DOMAIN A.users, NEW q, IsQueue(q), q # <<>>,
         Head(q).to # u, NEW d, IsDevice(d), NEW F, IsFiles(F), NEW n,
         SyncAt(A, q, d, F, u, n)
  PROVE  SyncAt(A, Tail(q), d, F, u, n)
<1> SUFFICES ASSUME NEW D0, NEW r, StartsFrom(d, A, u, D0, r)
             PROVE  \E x \in {r, A.users[u]} : GoodAt(A, Tail(q), ReplayFiles(D0, u, F), u, x, n)
  BY DEF SyncAt
<1> DEFINE R == ReplayFiles(D0, u, F)
<1>1. IsWork(D0) /\ D0.updkeys
  BY StartFacts
<1>2. IsWork(R)
  BY <1>1, ReplayShape
<1>3. PICK x \in {r, A.users[u]} : GoodAt(A, q, R, u, x, n)
  BY DEF SyncAt
<1> HIDE DEF R
<1>4. Told(R, u, q) = Told(Heard(At(R, 0, R.flash), u, Head(q)), u, Tail(q))
  BY <1>2, ToldNext
<1>5. Heard(At(R, 0, R.flash), u, Head(q)) = At(R, 0, R.flash)
  BY DEF Heard
<1>6. Told(R, u, q) = Told(R, u, Tail(q))
  <2>1. Told(At(R, 0, R.flash), u, Tail(q)) = Told(R, u, Tail(q))
    BY <1>2, ToldAt
  <2> QED BY ONLY <1>4, <1>5, <2>1
<1>7. GoodAt(A, Tail(q), R, u, x, n)
  BY <1>3, <1>6 DEF GoodAt
<1> QED BY <1>3, <1>7 DEF R

\* Sends to others are nothing to u.
LEMMA SyncUntold ==
  ASSUME NEW A, Tidy(A), NEW u, u \in DOMAIN A.users, NEW q, IsQueue(q),
         \A i \in 1..Len(q) : q[i].to # u, NEW d, IsDevice(d), NEW F, IsFiles(F), NEW n,
         SyncAt(A, q, d, F, u, n)
  PROVE  SyncAt(A, <<>>, d, F, u, n)
<1> SUFFICES ASSUME NEW D0, NEW r, StartsFrom(d, A, u, D0, r)
             PROVE  \E x \in {r, A.users[u]} : GoodAt(A, <<>>, ReplayFiles(D0, u, F), u, x, n)
  BY DEF SyncAt
<1> DEFINE R == ReplayFiles(D0, u, F)
<1>1. IsWork(D0) /\ D0.updkeys
  BY StartFacts
<1>2. IsWork(R)
  BY <1>1, ReplayShape
<1>3. PICK x \in {r, A.users[u]} : GoodAt(A, q, R, u, x, n)
  BY DEF SyncAt
<1> HIDE DEF R
<1>4. R.ok
  BY <1>3 DEF GoodAt
<1>5. Told(R, u, q) = At(R, 0, R.flash)
  <2>1. \A i, j \in 1..Len(q) : q[i].to = u /\ q[j].to = u => i = j
    OBVIOUS
  <2>2. \A i \in 1..Len(q) : q[i].to = u => q[i].cmd = "none"
    OBVIOUS
  <2>3. ~\E i \in 1..Len(q) : q[i].to = u
    OBVIOUS
  <2> QED BY <1>2, <1>4, <2>1, <2>2, <2>3, ToldOnce, ZenonT(30)
<1>6. Told(R, u, <<>>) = At(R, 0, R.flash)
  BY ToldNone
<1>7. GoodAt(A, <<>>, R, u, x, n)
  BY <1>3, <1>5, <1>6 DEF GoodAt
<1> QED BY <1>3, <1>7 DEF R

\* One record more at the end of the normal file.
LEMMA NormalIs ==
  ASSUME NEW D, IsWork(D), NEW u, NEW F, IsFiles(F), NEW N, Passed(N, D, u, F, "normal"),
         N.ok, u \in DOMAIN N.db.users
  PROVE  D.ok /\ IsRecords(NormalOf(F)) /\ N = Performed(D, u, NormalOf(F))
<1>1. D.ok
  BY DEF Passed
<1>2. CASE "normal" \in DOMAIN F
  <2>1. NormalOf(F) = F["normal"] /\ IsRecords(F["normal"])
    BY <1>2 DEF NormalOf, IsFiles
  <2>2. N = Executed(D, u, F["normal"])
    BY <1>1, <1>2 DEF Passed
  <2>3. Ended(N, D, Performed(D, u, F["normal"]), u)
    BY <2>1, <2>2, ExecutedFacts
  <2>4. N = Performed(D, u, F["normal"])
    BY <2>3 DEF Ended
  <2> QED BY <1>1, <2>1, <2>4
<1>3. CASE "normal" \notin DOMAIN F
  <2>1. NormalOf(F) = <<>>
    BY <1>3 DEF NormalOf
  <2>2. N = D
    BY <1>3 DEF Passed
  <2>3. IsRecords(<<>>)
    BY NoTxFacts
  <2> QED BY <1>1, <2>1, <2>2, <2>3, PerformedNone
<1> QED BY <1>2, <1>3

\* A record at the end of the file does what the send would have told.
LEMMA HeardByRecord ==
  ASSUME NEW N, IsWork(N), N.ok, NEW u, NEW q, IsQueue(q), q # <<>>, Head(q).to = u,
         NEW n \in Nat, N.cnt = n, u \in DOMAIN N.db.users, IsMild(Head(q).cmd, u),
         Told(N, u, q).ok
  PROVE  LET P == Apply(N, u, Record(n + 1, Head(q).cmd))
         IN  /\ IsWork(P) /\ P.ok /\ P.cnt = n + 1 /\ u \in DOMAIN P.db.users
             /\ P.updkeys = N.updkeys
             /\ Told(P, u, Tail(q)) = Told(N, u, q)
<1> DEFINE c == Head(q).cmd
           rec == Record(n + 1, c)
           d == At(N, n + 1, N.flash)
           P == Perform(d, u, c)
           o == Perform(At(N, 0, N.flash), u, c)
<1>1. IsQueue(Tail(q)) /\ IsCommand(c) /\ Told(N, u, q) = Told(Heard(At(N, 0, N.flash), u, Head(q)), u, Tail(q))
  BY ToldNext
<1>2. rec.cnt = n + 1 /\ rec.cmd = c /\ n + 1 \in Nat
  BY DEF Record
<1>3. Apply(N, u, rec) = P
  BY <1>2, ApplyForm
<1>4. /\ IsWork(d) /\ d.db = N.db /\ d.cnt = n + 1 /\ d.flash = N.flash /\ d.updkeys = N.updkeys
      /\ At(d, 0, N.flash) = At(N, 0, N.flash) /\ At(N, 0, N.flash).ok = N.ok
  <2>1. IsWork(d) /\ d.db = N.db /\ d.cnt = n + 1 /\ d.flash = N.flash /\ d.updkeys = N.updkeys
    BY ONLY IsWork(N), <1>2, AtFacts
  <2>2. At(d, 0, N.flash) = At(N, 0, N.flash)
    BY AtTwice
  <2>3. At(N, 0, N.flash).ok = N.ok
    BY AtFacts
  <2> QED BY <2>1, <2>2, <2>3
<1> HIDE DEF rec, d
<1>5. IsWork(P) /\ P.cnt = n + 1 /\ P.updkeys = N.updkeys /\ u \in DOMAIN P.db.users
  BY <1>1, <1>4, PerformShape
<1>6. o = At(P, 0, P.flash)
  <2>1. Perform(At(d, 0, N.flash), u, c) = o
    BY <1>4
  <2>2. 0 \in Nat
    OBVIOUS
  <2> HIDE DEF P, o
  <2>3. o = At(P, 0, o.flash) /\ (N.flash = d.flash => o.flash = P.flash)
    <3>1. LET oo == Perform(At(d, 0, N.flash), u, c)
              e == Perform(d, u, c)
          IN  oo = At(e, 0, oo.flash) /\ (N.flash = d.flash => oo.flash = e.flash)
      BY <1>1, <1>4, <2>2, PerformElsewhere
    <3> QED BY <2>1, <3>1 DEF P
  <2> QED BY <1>4, <2>3
<1>7. Heard(At(N, 0, N.flash), u, Head(q)) = o
  BY <1>4 DEF Heard
<1> HIDE DEF P, o, c
<1>8. Told(o, u, Tail(q)) = Told(P, u, Tail(q))
  BY <1>5, <1>6, ToldAt
<1>9. Told(P, u, Tail(q)) = Told(N, u, q)
  BY <1>1, <1>7, <1>8
<1>10. P.ok
  <2>1. Told(P, u, Tail(q)).ok
    BY <1>9
  <2>2. IsWork(At(P, 0, P.flash)) /\ At(P, 0, P.flash).ok = P.ok
    BY <1>5, AtFacts
  <2>3. IsRecords(ToU(u, Tail(q)))
    BY <1>1, ToUFacts
  <2> QED BY <2>1, <2>2, <2>3, PerformedOk DEF Told
<1> QED BY <1>3, <1>5, <1>9, <1>10 DEF c, rec

\* A record that is appended takes the place of its send.
LEMMA SyncAppend ==
  ASSUME NEW A, Tidy(A), NEW u, u \in DOMAIN A.users, NEW q, IsQueue(q), q # <<>>,
         Head(q).to = u, IsMild(Head(q).cmd, u),
         NEW d, IsDevice(d), NEW F, IsFiles(F), NEW n \in Nat, SyncAt(A, q, d, F, u, n),
         NEW G, G = WithFile(F, "normal", Append(NormalOf(F), Record(n + 1, Head(q).cmd))),
         IsRecords(Append(NormalOf(F), Record(n + 1, Head(q).cmd)))
  PROVE  SyncAt(A, Tail(q), d, G, u, n + 1)
<1> SUFFICES ASSUME NEW D0, NEW r, StartsFrom(d, A, u, D0, r)
             PROVE  \E x \in {r, A.users[u]} :
                      GoodAt(A, Tail(q), ReplayFiles(D0, u, G), u, x, n + 1)
  BY DEF SyncAt
<1> DEFINE p == Append(NormalOf(F), Record(n + 1, Head(q).cmd))
           I == ReplayFile(D0, u, F, "init")
           R == ReplayFile(I, u, F, "recovery")
           N == ReplayFiles(D0, u, F)
           M == ReplayFiles(D0, u, G)
<1>1. IsWork(D0) /\ D0.updkeys
  BY StartFacts
<1>2. /\ IsFiles(G) /\ DOMAIN G = DOMAIN F \cup {"normal"} /\ G["normal"] = p
      /\ \A h \in DOMAIN F : h # "normal" => G[h] = F[h]
  BY WithNormal, ZenonT(30)
<1> HIDE DEF p
<1>3. Sequel(u, F, D0, I, R, N)
  BY <1>1, ReplayIs
<1>4. M = ReplayFile(R, u, G, "normal")
  <2>1. ReplayFile(D0, u, G, "init") = I
    <3>1. ("init" \in DOMAIN F <=> "init" \in DOMAIN G) /\ ("init" \in DOMAIN F => F["init"] = G["init"])
      BY <1>2
    <3> QED BY <3>1, ReplayFileSame
  <2> HIDE DEF I
  <2>2. ReplayFile(I, u, G, "recovery") = R
    <3>1. /\ ("recovery" \in DOMAIN F <=> "recovery" \in DOMAIN G)
          /\ ("recovery" \in DOMAIN F => F["recovery"] = G["recovery"])
      BY <1>2
    <3> QED BY <3>1, ReplayFileSame
  <2>3. M = ReplayFile(ReplayFile(ReplayFile(D0, u, G, "init"), u, G, "recovery"), u, G, "normal")
    BY <1>1, <1>2, ReplayIs
  <2> QED BY <2>1, <2>2, <2>3
<1> HIDE DEF I, R
<1>5. PICK x \in {r, A.users[u]} : GoodAt(A, q, N, u, x, n)
  BY DEF SyncAt
<1> HIDE DEF N, M
<1>6. IsWork(R) /\ R.updkeys /\ Passed(N, R, u, F, "normal") /\ IsWork(N)
  BY <1>3 DEF Sequel, Passed
<1>7. /\ N.ok /\ N.updkeys /\ u \in DOMAIN N.db.users /\ N.cnt = n
      /\ Knows(Told(N, u, q), Own(A, u, x), u)
  BY <1>5 DEF GoodAt
<1>8. R.ok /\ IsRecords(NormalOf(F)) /\ N = Performed(R, u, NormalOf(F))
  BY <1>6, <1>7, NormalIs
<1> DEFINE P == Apply(N, u, Record(n + 1, Head(q).cmd))
<1>9. /\ IsWork(P) /\ P.ok /\ P.cnt = n + 1 /\ u \in DOMAIN P.db.users /\ P.updkeys
      /\ Told(P, u, Tail(q)) = Told(N, u, q)
  <2>1. Told(N, u, q).ok
    BY <1>7 DEF Knows
  <2> QED BY <1>6, <1>7, <2>1, HeardByRecord
<1>10. Performed(R, u, p) = P
  <2>1. IsSeq(NormalOf(F))
    BY <1>8 DEF IsRecords
  <2> QED BY <1>8, <2>1, PerformedAppend DEF p
<1> HIDE DEF P
<1>11. M = P
  <2>1. M = Executed(R, u, p)
    <3>1. Passed(M, R, u, G, "normal")
      BY <1>2, <1>4, <1>6, ReplayFileFacts
    <3> QED BY <1>2, <1>8, <3>1 DEF Passed
  <2>2. Ended(M, R, Performed(R, u, p), u)
    BY <1>6, <2>1, ExecutedFacts DEF p
  <2> QED BY <1>9, <1>10, <2>2 DEF Ended
<1>12. GoodAt(A, Tail(q), M, u, x, n + 1)
  BY <1>7, <1>9, <1>11 DEF GoodAt
<1> QED BY <1>5, <1>12 DEF M

\* Statements that start from empty tables.
Emptied(D, db) ==
  [db |-> db, cnt |-> 0, flash |-> D.flash, updkeys |-> D.updkeys, ok |-> TRUE]

\* The tables after CLEAR.
LEMMA EmptiedFacts ==
  ASSUME NEW D, D.updkeys \in BOOLEAN, NEW db, IsDb(db)
  PROVE  LET E == Emptied(D, db)
         IN  IsWork(E) /\ E.db = db /\ E.cnt = 0 /\ E.flash = D.flash /\ E.updkeys = D.updkeys /\ E.ok
<1> DEFINE E == Emptied(D, db)
<1>1. E = [db |-> db, cnt |-> 0, flash |-> D.flash, updkeys |-> D.updkeys, ok |-> TRUE]
  BY DEF Emptied
<1> HIDE DEF E
<1>2. E.db = db /\ E.cnt = 0 /\ E.flash = D.flash /\ E.updkeys = D.updkeys /\ E.ok = TRUE
  BY <1>1
<1>3. IsWork(E)
  BY <1>1, <1>2 DEF IsWork
<1> QED BY <1>2, <1>3 DEF E

OwnRowOnly(u, r) == [users |-> [v \in {u} |-> r], groups |-> <<>>, member |-> {}, keys |-> <<>>]

\* The only row of a device that is initialised.
LEMMA InitRows ==
  ASSUME NEW u, NEW r
  PROVE  LET s == Insert([x \in {u} |-> r], <<>>, {}, <<>>)
         IN  /\ Executes(NoRows, s) /\ After(NoRows, s) = OwnRowOnly(u, r) /\ IsDb(OwnRowOnly(u, r))
             /\ Fresh(u, r).db = OwnRowOnly(u, r)
<1> DEFINE us == [x \in {u} |-> r]
           s == Insert(us, <<>>, {}, <<>>)
           E == After(NoRows, s)
<1>1. /\ NoRows.users = <<>> /\ NoRows.groups = <<>> /\ NoRows.member = {} /\ NoRows.keys = <<>>
      /\ DOMAIN <<>> = {}
  BY DEF NoRows
<1>2. Inserted(NoRows, us, <<>>, {}, <<>>, s, E)
  <2> HIDE DEF us
  <2>1. /\ DOMAIN NoRows.users \cap DOMAIN us = {} /\ DOMAIN NoRows.groups \cap DOMAIN <<>> = {}
        /\ DOMAIN NoRows.keys \cap DOMAIN <<>> = {} /\ NoRows.member \cap {} = {}
    BY <1>1
  <2> QED BY <2>1, InsertFields
<1> HIDE DEF s, E
<1>3. E.users = us
  <2>1. E.users = Plus(<<>>, us)
    BY <1>1, <1>2 DEF Inserted
  <2>2. Plus(<<>>, us) = us
    BY <1>1 DEF Plus
  <2> QED BY <2>1, <2>2
<1>4. E.groups = <<>> /\ E.keys = <<>> /\ E.member = {}
  <2>1. E.groups = Plus(<<>>, <<>>) /\ E.keys = Plus(<<>>, <<>>) /\ E.member = {}
    BY <1>1, <1>2 DEF Inserted
  <2>2. Plus(<<>>, <<>>) = <<>>
    <3>1. Plus(<<>>, <<>>) = [x \in {} |-> <<>>[x]]
      BY <1>1 DEF Plus
    <3>2. <<>> = [x \in {} |-> <<>>[x]]
      OBVIOUS
    <3> QED BY <3>1, <3>2
  <2> QED BY <2>1, <2>2
<1>5. E = OwnRowOnly(u, r) /\ IsDb(E) /\ Executes(NoRows, s)
  BY <1>2, <1>3, <1>4 DEF Inserted, IsDb, OwnRowOnly
<1>6. Fresh(u, r).db = OwnRowOnly(u, r)
  BY DEF Fresh, OwnRowOnly
<1> QED BY <1>5, <1>6 DEF E, s

\* CLEAR_ALL forgets the tables and the counter.
LEMMA ClearApplied ==
  ASSUME NEW D, IsWork(D), D.ok, NEW u
  PROVE  Apply(D, u, Record(0, ClearAll)) = Emptied(D, NoRows) /\ IsDb(NoRows)
<1> DEFINE d == At(D, 0, D.flash)
           e == Perform(d, u, ClearAll)
<1>1. Record(0, ClearAll).cnt = 0 /\ Record(0, ClearAll).cmd = ClearAll
  BY DEF Record
<1>2. Apply(D, u, Record(0, ClearAll)) = e
  BY <1>1, ApplyForm
<1>3. /\ IsWork(d) /\ d.ok = D.ok /\ d.flash = D.flash /\ d.updkeys = D.updkeys /\ d.cnt = 0
  <2>1. 0 \in Nat
    OBVIOUS
  <2> QED BY ONLY IsWork(D), <2>1, AtFacts
<1> HIDE DEF d
<1>4. IsStatement(Clear) /\ Clear.do = "clear"
  BY DEF Clear, IsStatement
<1>5. e.db = After(d.db, Clear) /\ e.ok = TRUE /\ e.flash = d.flash /\ e.updkeys = d.updkeys
  BY <1>3, <1>4, PerformStatement DEF ClearAll
<1>6. IsWork(e) /\ e.cnt = 0
  BY <1>3, ClearIsCommand, PerformShape
<1>7. After(d.db, Clear) = NoRows
  BY <1>4 DEF After
<1> HIDE DEF e
<1>8. e = Emptied(D, NoRows)
  BY <1>3, <1>5, <1>6, <1>7 DEF Emptied, IsWork
<1> QED BY <1>2, <1>8, NoTxFacts

InitRecord(u, r) == Record(0, SQL(<<Clear, Insert([x \in {u} |-> r], <<>>, {}, <<>>)>>))

\* So does the record of an init file.
LEMMA InitApplied ==
  ASSUME NEW D, IsWork(D), D.ok, NEW u, NEW r
  PROVE  Apply(D, u, InitRecord(u, r)) = Emptied(D, OwnRowOnly(u, r))
<1> DEFINE s == Insert([x \in {u} |-> r], <<>>, {}, <<>>)
           c == SQL(<<Clear, s>>)
           d == At(D, 0, D.flash)
           e == Perform(d, u, c)
<1>1. InitRecord(u, r).cnt = 0 /\ InitRecord(u, r).cmd = c
  BY DEF Record, InitRecord
<1>2. Apply(D, u, InitRecord(u, r)) = e
  BY <1>1, ApplyForm
<1>3. /\ IsWork(d) /\ d.ok = D.ok /\ d.flash = D.flash /\ d.updkeys = D.updkeys /\ d.cnt = 0
  <2>1. 0 \in Nat
    OBVIOUS
  <2> QED BY ONLY IsWork(D), <2>1, AtFacts
<1> HIDE DEF d
<1>4. IsStatement(Clear) /\ Clear.do = "clear"
  BY DEF Clear, IsStatement
<1>5. IsStatement(s) /\ Executes(NoRows, s) /\ After(NoRows, s) = OwnRowOnly(u, r)
  BY InitRows, InsertIsStatement
<1> HIDE DEF s
<1>6. IsCommand(c) /\ c.type = "SQL_QUERY" /\ c.text = <<Clear, s>>
  BY <1>4, <1>5, FewCommands DEF SQL
<1>7. After(d.db, Clear) = NoRows /\ Executes(d.db, Clear)
  BY <1>4 DEF After, Executes
<1>8. Statements(d.db, <<Clear, s>>) = [db |-> OwnRowOnly(u, r), ok |-> TRUE]
  <2>1. Stepped([db |-> d.db, ok |-> TRUE], Clear) = [db |-> NoRows, ok |-> TRUE]
    BY <1>7 DEF Stepped
  <2>2. Stepped([db |-> NoRows, ok |-> TRUE], s) = [db |-> OwnRowOnly(u, r), ok |-> TRUE]
    BY <1>5 DEF Stepped
  <2> QED BY <2>1, <2>2, StatementsTwo
<1> DEFINE end == Statements(d.db, <<Clear, s>>)
<1>9. e = [db |-> end.db, cnt |-> d.cnt, flash |-> d.flash, updkeys |-> d.updkeys, ok |-> end.ok]
  BY <1>3, <1>6, PerformSQL
<1>10. end.db = OwnRowOnly(u, r) /\ end.ok = TRUE
  BY <1>8
<1> HIDE DEF e, end
<1>11. e = Emptied(D, OwnRowOnly(u, r))
  BY <1>3, <1>9, <1>10 DEF Emptied
<1> QED BY <1>2, <1>11

\* Files that make the same of a device whatever its tables were.
Forgetful(q, u) ==
  \A D, E : IsWork(D) /\ IsWork(E) /\ D.ok /\ E.ok /\ D.flash = E.flash /\ D.updkeys = E.updkeys =>
    Performed(D, u, q) = Performed(E, u, q)

\* A file whose first record forgets does not depend on what was there.
LEMMA ForgetsByFirst ==
  ASSUME NEW q, IsRecords(q), q # <<>>, NEW u,
         \A D, E : IsWork(D) /\ IsWork(E) /\ D.ok /\ E.ok /\ D.flash = E.flash
                   /\ D.updkeys = E.updkeys => Apply(D, u, q[1]) = Apply(E, u, q[1])
  PROVE  Forgetful(q, u)
<1> SUFFICES ASSUME NEW D, NEW E, IsWork(D), IsWork(E), D.ok, E.ok, D.flash = E.flash,
                    D.updkeys = E.updkeys
             PROVE  Performed(D, u, q) = Performed(E, u, q)
  BY DEF Forgetful
<1>1. Apply(D, u, q[1]) = Apply(E, u, q[1])
  OBVIOUS
<1>2. IsSeq(Tail(q)) /\ q = <<q[1]>> \o Tail(q)
  BY TailSeq DEF IsRecords
<1> DEFINE t == Tail(q)
           r == q[1]
<1>3. Performed(D, u, <<r>> \o t) = Performed(Apply(D, u, r), u, t)
  BY <1>2, PerformedFirst
<1>4. Performed(E, u, <<r>> \o t) = Performed(Apply(E, u, r), u, t)
  BY <1>2, PerformedFirst
<1> HIDE DEF t, r
<1> QED BY <1>1, <1>2, <1>3, <1>4 DEF t, r

\* A recovery file is such a file.
LEMMA ClearForgets ==
  ASSUME NEW q, ClearFirst(q), NEW u
  PROVE  Forgetful(q, u)
<1>1. IsRecords(q) /\ q # <<>> /\ q[1] = Record(0, ClearAll)
  BY DEF ClearFirst
<1>2. ASSUME NEW D, NEW E, IsWork(D), IsWork(E), D.ok, E.ok, D.flash = E.flash,
             D.updkeys = E.updkeys
      PROVE  Apply(D, u, q[1]) = Apply(E, u, q[1])
  <2>1. Apply(D, u, q[1]) = Emptied(D, NoRows) /\ Apply(E, u, q[1]) = Emptied(E, NoRows)
    BY <1>1, <1>2, ClearApplied
  <2> QED BY <1>2, <2>1 DEF Emptied
<1> QED BY <1>1, <1>2, ForgetsByFirst

\* So is an init file.
LEMMA InitForgets ==
  ASSUME NEW u, NEW q, IsRecords(q), InitLike(u, q)
  PROVE  Forgetful(q, u)
<1> PICK r \in UserRow : q = <<InitRecord(u, r)>>
  BY DEF InitLike, InitRecord
<1>1. q # <<>> /\ q[1] = InitRecord(u, r)
  OBVIOUS
<1>2. ASSUME NEW D, NEW E, IsWork(D), IsWork(E), D.ok, E.ok, D.flash = E.flash,
             D.updkeys = E.updkeys
      PROVE  Apply(D, u, q[1]) = Apply(E, u, q[1])
  <2>1. Apply(D, u, q[1]) = Emptied(D, OwnRowOnly(u, r))
    BY <1>1, <1>2, InitApplied
  <2>2. Apply(E, u, q[1]) = Emptied(E, OwnRowOnly(u, r))
    BY <1>1, <1>2, InitApplied
  <2> QED BY <1>2, <2>1, <2>2 DEF Emptied
<1> QED BY <1>1, <1>2, ForgetsByFirst

\* Keys that are in the flash already make no difference.
LEMMA FlashAgainWhole ==
  ASSUME NEW D, IsWork(D), NEW u, NEW q, IsRecords(q)
  PROVE  Performed(At(D, D.cnt, Performed(D, u, q).flash), u, q) = Performed(D, u, q)
<1>1. IsRecords(<<>>) /\ IsSeq(q) /\ IsSeq(<<>>)
  BY NoTxFacts, NoneAndOneSeq DEF IsRecords
<1>2. \A E : Performed(E, u, q \o <<>>) = Performed(E, u, q)
  BY <1>1, PerformedConcat, PerformedNone
<1>3. Performed(At(D, D.cnt, Performed(D, u, q).flash), u, q \o <<>>) = Performed(D, u, q \o <<>>)
  <2>1. ASSUME NEW e, IsRecords(e)
        PROVE  Performed(At(D, D.cnt, Performed(D, u, q).flash), u, q \o e) = Performed(D, u, q \o e)
    BY ONLY IsWork(D), IsRecords(q), <2>1, FlashAgain
  <2> QED BY ONLY <1>1, <2>1
<1> QED BY <1>2, <1>3

\* Executed a second time, such a file changes nothing.
LEMMA ExecutedAgain ==
  ASSUME NEW D, IsWork(D), NEW u, NEW q, IsRecords(q), Forgetful(q, u), Executed(D, u, q).ok
  PROVE  Executed(Executed(D, u, q), u, q) = Executed(D, u, q)
<1> DEFINE P == Performed(D, u, q)
           E == Executed(D, u, q)
           X == At(D, D.cnt, P.flash)
<1>1. Ended(E, D, P, u)
  BY ExecutedFacts
<1>2. Performed(X, u, q) = P
  BY FlashAgainWhole
<1>3. D.cnt \in Nat
  BY DEF IsWork
<1>4. IsWork(X) /\ X.ok = D.ok /\ X.flash = P.flash /\ X.updkeys = D.updkeys
  BY ONLY IsWork(D), <1>3, AtFacts
<1>5. E.ok /\ P.ok
  BY <1>1 DEF Ended
<1>6. D.ok
  BY <1>5, PerformedOk
<1> HIDE DEF P, X
<1>7. Performed(E, u, q) = P
  <2> HIDE DEF E
  <2>1. IsWork(E) /\ E.ok /\ E.flash = X.flash /\ E.updkeys = X.updkeys /\ X.ok
    BY <1>1, <1>4, <1>5, <1>6 DEF Ended
  <2>2. Performed(E, u, q) = Performed(X, u, q)
    BY <1>4, <2>1 DEF Forgetful
  <2> QED BY <1>2, <2>2
<1>8. Executed(E, u, q) = IF u \in DOMAIN P.db.users THEN P ELSE [P EXCEPT !.cnt = 0]
  BY <1>7 DEF Executed
<1>9. E = IF u \in DOMAIN P.db.users THEN P ELSE [P EXCEPT !.cnt = 0]
  BY DEF Executed, P
<1> QED BY <1>8, <1>9

\* Records the device has counted are skipped.
LEMMA SkipAll ==
  ASSUME NEW D, IsWork(D), NEW u, NEW q, IsRecords(q),
         \A i \in 1..Len(q) : q[i].cnt # 0 /\ q[i].cnt <= D.cnt
  PROVE  Performed(D, u, q) = D
<1> PICK f : IsRun(f, D, u, q) /\ Performed(D, u, q) = f[Len(q)]
  BY PerformedIsRun DEF IsRecords
<1>1. InSteps(f, D, u, q)
  BY RunShape
<1>2. /\ Len(q) \in Nat /\ f[0] = D
      /\ \A i \in 1..Len(q) : f[i] = Apply(f[i - 1], u, q[i]) /\ i - 1 \in 0..Len(q)
  BY <1>1 DEF InSteps
<1> DEFINE T == {i \in 0..Len(q) : f[i] = D}
<1>3. 0 \in T
  BY <1>2
<1>4. ASSUME NEW i \in 1..Len(q), i - 1 \in T
      PROVE  i \in T
  <2>1. f[i - 1] = D /\ f[i] = Apply(D, u, q[i])
    BY <1>2, <1>4
  <2>2. Apply(D, u, q[i]) = D
    BY DEF Apply
  <2>3. i \in 0..Len(q)
    BY <1>2
  <2> QED BY <2>1, <2>2, <2>3
<1> HIDE DEF T
<1>5. \A i \in 0..Len(q) : i \in T
  BY <1>2, <1>3, <1>4, UpTo
<1>6. Len(q) \in 0..Len(q)
  BY <1>2
<1> QED BY <1>5, <1>6 DEF T

\* Tables with some of the rows of A.
Part(A, us, gs, ms, ks) ==
  [users |-> Restrict(A.users, us), groups |-> Restrict(A.groups, gs), member |-> ms,
   keys |-> Restrict(A.keys, ks)]

\* The rows of no set.
LEMMA NoRestriction ==
  ASSUME NEW f
  PROVE  Restrict(f, {}) = <<>>
<1>1. Restrict(f, {}) = [x \in {} |-> f[x]]
  BY DEF Restrict
<1>2. <<>> = [x \in {} |-> f[x]]
  OBVIOUS
<1> QED BY <1>1, <1>2

RowsOf(A, u2, g2, m2, k2) ==
  Insert(Restrict(A.users, u2), Restrict(A.groups, g2), m2, Restrict(A.keys, k2))

Grows(V, s, W) ==
  Executes(V, s) /\ IsStatement(s) /\ s.do = "insert" /\ After(V, s) = W

\* An insert of rows that are not there yet makes a greater part.
LEMMA PartPlus ==
  ASSUME NEW A, NEW u1, NEW g1, NEW m1, NEW k1, NEW u2, NEW g2, NEW m2, NEW k2,
         u1 \cap u2 = {}, g1 \cap g2 = {}, m1 \cap m2 = {}, k1 \cap k2 = {}
  PROVE  Grows(Part(A, u1, g1, m1, k1), RowsOf(A, u2, g2, m2, k2),
               Part(A, u1 \cup u2, g1 \cup g2, m1 \cup m2, k1 \cup k2))
<1> DEFINE V == Part(A, u1, g1, m1, k1)
           W == Part(A, u1 \cup u2, g1 \cup g2, m1 \cup m2, k1 \cup k2)
           s == RowsOf(A, u2, g2, m2, k2)
           us == Restrict(A.users, u2)
           gs == Restrict(A.groups, g2)
           ks == Restrict(A.keys, k2)
           E == After(V, s)
<1>1. /\ V.users = Restrict(A.users, u1) /\ V.groups = Restrict(A.groups, g1) /\ V.member = m1
      /\ V.keys = Restrict(A.keys, k1)
  BY DEF Part
<1>2. /\ W.users = Restrict(A.users, u1 \cup u2) /\ W.groups = Restrict(A.groups, g1 \cup g2)
      /\ W.member = m1 \cup m2 /\ W.keys = Restrict(A.keys, k1 \cup k2) /\ IsDb(W)
  BY DEF Part, IsDb
<1>3. s = Insert(us, gs, m2, ks)
  BY DEF RowsOf
<1>4. /\ DOMAIN us = u2 /\ DOMAIN gs = g2 /\ DOMAIN ks = k2
      /\ DOMAIN V.users = u1 /\ DOMAIN V.groups = g1 /\ DOMAIN V.keys = k1
  BY <1>1, PlusRestrict
<1>5. /\ Plus(V.users, us) = W.users /\ Plus(V.groups, gs) = W.groups /\ Plus(V.keys, ks) = W.keys
  <2>1. /\ Plus(Restrict(A.users, u1), Restrict(A.users, u2)) = Restrict(A.users, u1 \cup u2)
        /\ Plus(Restrict(A.groups, g1), Restrict(A.groups, g2)) = Restrict(A.groups, g1 \cup g2)
        /\ Plus(Restrict(A.keys, k1), Restrict(A.keys, k2)) = Restrict(A.keys, k1 \cup k2)
    BY PlusRestrict
  <2> HIDE DEF V, W
  <2> QED BY <1>1, <1>2, <2>1
<1> HIDE DEF V, W, us, gs, ks, s
<1>6. Inserted(V, us, gs, m2, ks, s, E)
  <2>1. /\ DOMAIN V.users \cap DOMAIN us = {} /\ DOMAIN V.groups \cap DOMAIN gs = {}
        /\ DOMAIN V.keys \cap DOMAIN ks = {} /\ V.member \cap m2 = {}
    BY <1>1, <1>4
  <2> QED BY <1>3, <2>1, InsertFields
<1> HIDE DEF E
<1>7. E = W
  BY <1>1, <1>2, <1>5, <1>6, DbSame DEF Inserted
<1>8. s.do = "insert"
  BY <1>3, InsertIsStatement
<1>9. Grows(V, s, W)
  BY <1>6, <1>7, <1>8 DEF Grows, Inserted, E
<1> QED BY <1>9 DEF V, s, W

\* One row of a table.
OneRow(A, us, gs, ms, ks, x) ==
  /\ x \notin us => Grows(Part(A, us, gs, ms, ks), Insert(Restrict(A.users, {x}), <<>>, {}, <<>>),
                          Part(A, us \cup {x}, gs, ms, ks))
  /\ x \notin gs => Grows(Part(A, us, gs, ms, ks), Insert(<<>>, Restrict(A.groups, {x}), {}, <<>>),
                          Part(A, us, gs \cup {x}, ms, ks))
  /\ x \notin ms => Grows(Part(A, us, gs, ms, ks), Insert(<<>>, <<>>, {x}, <<>>),
                          Part(A, us, gs, ms \cup {x}, ks))
  /\ x \notin ks => Grows(Part(A, us, gs, ms, ks), Insert(<<>>, <<>>, {}, Restrict(A.keys, {x})),
                          Part(A, us, gs, ms, ks \cup {x}))

\* One row.
LEMMA PartPlusOne ==
  ASSUME NEW A, NEW us, NEW gs, NEW ms, NEW ks, NEW x
  PROVE  OneRow(A, us, gs, ms, ks, x)
<1>1. Restrict(A.users, {}) = <<>> /\ Restrict(A.groups, {}) = <<>> /\ Restrict(A.keys, {}) = <<>>
  BY NoRestriction
<1>2. us \cup {} = us /\ gs \cup {} = gs /\ ms \cup {} = ms /\ ks \cup {} = ks
  OBVIOUS
<1>3. us \cap {} = {} /\ gs \cap {} = {} /\ ms \cap {} = {} /\ ks \cap {} = {}
  OBVIOUS
<1>4. ASSUME x \notin us
      PROVE  Grows(Part(A, us, gs, ms, ks), Insert(Restrict(A.users, {x}), <<>>, {}, <<>>),
                   Part(A, us \cup {x}, gs, ms, ks))
  <2>1. us \cap {x} = {}
    BY <1>4
  <2>2. Grows(Part(A, us, gs, ms, ks), RowsOf(A, {x}, {}, {}, {}),
              Part(A, us \cup {x}, gs \cup {}, ms \cup {}, ks \cup {}))
    BY ONLY <1>3, <2>1, PartPlus
  <2> QED BY <1>1, <1>2, <2>2 DEF RowsOf
<1>5. ASSUME x \notin gs
      PROVE  Grows(Part(A, us, gs, ms, ks), Insert(<<>>, Restrict(A.groups, {x}), {}, <<>>),
                   Part(A, us, gs \cup {x}, ms, ks))
  <2>1. gs \cap {x} = {}
    BY <1>5
  <2>2. Grows(Part(A, us, gs, ms, ks), RowsOf(A, {}, {x}, {}, {}),
              Part(A, us \cup {}, gs \cup {x}, ms \cup {}, ks \cup {}))
    BY ONLY <1>3, <2>1, PartPlus
  <2> QED BY <1>1, <1>2, <2>2 DEF RowsOf
<1>6. ASSUME x \notin ms
      PROVE  Grows(Part(A, us, gs, ms, ks), Insert(<<>>, <<>>, {x}, <<>>),
                   Part(A, us, gs, ms \cup {x}, ks))
  <2>1. ms \cap {x} = {}
    BY <1>6
  <2>2. Grows(Part(A, us, gs, ms, ks), RowsOf(A, {}, {}, {x}, {}),
              Part(A, us \cup {}, gs \cup {}, ms \cup {x}, ks \cup {}))
    BY ONLY <1>3, <2>1, PartPlus
  <2> QED BY <1>1, <1>2, <2>2 DEF RowsOf
<1>7. ASSUME x \notin ks
      PROVE  Grows(Part(A, us, gs, ms, ks), Insert(<<>>, <<>>, {}, Restrict(A.keys, {x})),
                   Part(A, us, gs, ms, ks \cup {x}))
  <2>1. ks \cap {x} = {}
    BY <1>7
  <2>2. Grows(Part(A, us, gs, ms, ks), RowsOf(A, {}, {}, {}, {x}),
              Part(A, us \cup {}, gs \cup {}, ms \cup {}, ks \cup {x}))
    BY ONLY <1>3, <2>1, PartPlus
  <2> QED BY <1>1, <1>2, <2>2 DEF RowsOf
<1> QED BY <1>4, <1>5, <1>6, <1>7 DEF OneRow

\* The first elements of a sequence that lists a set.
First(v, i) == {v[j] : j \in 1..i}
Lists(v, S) ==
  /\ IsSeq(v) /\ Len(v) \in Nat /\ First(v, 0) = {} /\ First(v, Len(v)) = S
  /\ \A i \in 1..Len(v) : /\ First(v, i) = First(v, i - 1) \cup {v[i]}
                          /\ v[i] \notin First(v, i - 1) /\ v[i] \in S

\* SetToSeq lists a set without repetition.
LEMMA SetToSeqLists ==
  ASSUME NEW S, IsFiniteSet(S)
  PROVE  Lists(SetToSeq(S), S)
<1> DEFINE v == SetToSeq(S)
<1>1. /\ v \in Seq(S) /\ IsSeq(v)
      /\ \A x \in S : \E i \in 1..Len(v) : v[i] = x
      /\ \A i, j \in 1..Len(v) : v[i] = v[j] => i = j
  BY SetToSeqFacts
<1> HIDE DEF v
<1>2. Len(v) \in Nat /\ \A i \in 1..Len(v) : v[i] \in S
  BY <1>1
<1>3. First(v, 0) = {}
  BY DEF First
<1>4. First(v, Len(v)) = S
  BY <1>1, <1>2 DEF First
<1>5. ASSUME NEW i \in 1..Len(v)
      PROVE  First(v, i) = First(v, i - 1) \cup {v[i]} /\ v[i] \notin First(v, i - 1)
  <2>1. \A j : j \in 1..i <=> j \in 1..(i - 1) \/ j = i
    BY <1>2
  <2>2. First(v, i) = First(v, i - 1) \cup {v[i]}
    BY <2>1 DEF First
  <2>3. ASSUME NEW j \in 1..(i - 1)
        PROVE  v[j] # v[i]
    <3>1. j \in 1..Len(v) /\ j # i
      BY <1>2
    <3> QED BY <1>1, <3>1
  <2> QED BY <2>2, <2>3 DEF First
<1>6. Lists(v, S)
  BY <1>1, <1>2, <1>3, <1>4, <1>5 DEF Lists
<1> QED BY <1>6 DEF v

\* A device in the middle of a recovery file.
HasTables(d, V) == IsWork(d) /\ d.ok /\ d.updkeys /\ d.cnt = 0 /\ d.db = V

\* A record with one insert.
LEMMA InsertApplied ==
  ASSUME NEW d, NEW V, HasTables(d, V), NEW u, NEW s, NEW W, Grows(V, s, W)
  PROVE  LET e == Apply(d, u, Record(0, SQL(<<s>>)))
         IN  HasTables(e, W) /\ e.flash = d.flash
<1> DEFINE r == Record(0, SQL(<<s>>))
           e == Apply(d, u, r)
           a == At(d, 0, d.flash)
           c == SQL(<<s>>)
<1>1. /\ IsWork(d) /\ d.ok /\ d.updkeys /\ d.cnt = 0 /\ d.db = V
      /\ Executes(V, s) /\ IsStatement(s) /\ After(V, s) = W
  BY DEF HasTables, Grows
<1>2. r.cnt = 0 /\ r.cmd = c
  BY DEF Record
<1>3. IsCommand(c) /\ c.type = "SQL_QUERY" /\ c.text = <<s>>
  BY <1>1, FewCommands DEF SQL
<1>4. a = d
  <2>1. At(d, d.cnt, d.flash) = d
    <3>1. d.cnt \in Nat
      BY <1>1 DEF IsWork
    <3> QED BY ONLY <1>1, <3>1, AtFacts
  <2> QED BY <1>1, <2>1
<1> HIDE DEF a
<1>5. e = Perform(d, u, c)
  <2>1. Apply(d, u, r) = Perform(At(d, r.cnt, d.flash), u, r.cmd)
    <3> HIDE DEF r
    <3> QED BY <1>1, <1>2, ApplyForm
  <2> QED BY <1>2, <1>4, <2>1 DEF a
<1>6. Statements(V, <<s>>) = [db |-> W, ok |-> TRUE]
  <2>1. Stepped([db |-> V, ok |-> TRUE], s) = [db |-> W, ok |-> TRUE]
    BY <1>1 DEF Stepped
  <2> QED BY <2>1, StatementsOne
<1> DEFINE end == Statements(d.db, c.text)
<1>7. Perform(d, u, c) = [db |-> end.db, cnt |-> d.cnt, flash |-> d.flash, updkeys |-> d.updkeys, ok |-> end.ok]
  <2> HIDE DEF c
  <2> QED BY ONLY <1>1, <1>3, PerformSQL
<1>8. end.db = W /\ end.ok = TRUE
  <2>1. end = Statements(V, <<s>>)
    BY <1>1, <1>3
  <2> HIDE DEF end
  <2> QED BY <1>6, <2>1
<1> HIDE DEF c
<1>9. IsWork(Perform(d, u, c))
  BY <1>1, <1>3, PerformShape
<1> HIDE DEF end
<1>10. HasTables(e, W) /\ e.flash = d.flash
  BY <1>1, <1>5, <1>7, <1>8, <1>9 DEF HasTables
<1> QED BY <1>10

\* A sequence of INSERTs.
Growing(q, W) ==
  /\ IsCommands(q) /\ Len(q) \in Nat
  /\ \A i \in 1..Len(q) : \E s : q[i] = SQL(<<s>>) /\ Grows(W[i - 1], s, W[i])

\* A sequence of inserts, each of which makes the part greater.
LEMMA InsertPhase ==
  ASSUME NEW d, NEW u, NEW q, NEW W, Growing(q, W), HasTables(d, W[0])
  PROVE  LET e == Performed(d, u, Uncounted(q))
         IN  HasTables(e, W[Len(q)]) /\ e.flash = d.flash
<1> DEFINE p == Uncounted(q)
<1>1. /\ IsRecords(p) /\ Len(p) = Len(q) /\ Len(q) \in Nat
      /\ \A i \in 1..Len(q) : p[i] = Record(0, q[i])
  BY UncountedFacts DEF Growing
<1> HIDE DEF p
<1>2. IsWork(d)
  BY DEF HasTables
<1> PICK f : IsRun(f, d, u, p) /\ Performed(d, u, p) = f[Len(p)]
  BY <1>1, PerformedIsRun DEF IsRecords
<1>3. InSteps(f, d, u, p)
  BY <1>1, <1>2, RunShape
<1>4. f[0] = d /\ \A i \in 1..Len(q) : f[i] = Apply(f[i - 1], u, p[i])
  BY <1>1, <1>3 DEF InSteps
<1> DEFINE T == {i \in 0..Len(q) : HasTables(f[i], W[i]) /\ f[i].flash = d.flash}
<1>5. 0 \in T
  BY <1>1, <1>4
<1>6. ASSUME NEW i \in 1..Len(q), i - 1 \in T
      PROVE  i \in T
  <2>1. HasTables(f[i - 1], W[i - 1]) /\ f[i - 1].flash = d.flash
    BY <1>6
  <2>2. PICK s : q[i] = SQL(<<s>>) /\ Grows(W[i - 1], s, W[i])
    BY DEF Growing
  <2>3. f[i] = Apply(f[i - 1], u, Record(0, SQL(<<s>>)))
    BY <1>1, <1>4, <2>2
  <2> HIDE DEF T
  <2>4. HasTables(f[i], W[i]) /\ f[i].flash = f[i - 1].flash
    BY ONLY <2>1, <2>2, <2>3, InsertApplied
  <2>5. i \in 0..Len(q)
    BY <1>1
  <2> QED BY <2>1, <2>4, <2>5 DEF T
<1> HIDE DEF T
<1>7. \A i \in 0..Len(q) : i \in T
  BY <1>1, <1>5, <1>6, UpTo
<1>8. Len(q) \in 0..Len(q)
  BY <1>1
<1>9. HasTables(f[Len(q)], W[Len(q)]) /\ f[Len(q)].flash = d.flash
  BY <1>7, <1>8 DEF T
<1> QED BY <1>1, <1>9 DEF p

GrewTo(d, e, V) == HasTables(e, V) /\ e.flash = d.flash

\* The users of a recovery file.
LEMMA UsersPhase ==
  ASSUME NEW A, AreTables(A), NEW u, NEW d, NEW gs, NEW ms, NEW ks, HasTables(d, Part(A, {}, gs, ms, ks))
  PROVE  GrewTo(d, Performed(d, u, Uncounted(RecoveryUsers(A, u))),
                Part(A, Peers(A, u) \cap DOMAIN A.users, gs, ms, ks))
<1> DEFINE S == Peers(A, u) \cap DOMAIN A.users
           v == SetToSeq(S)
           q == RecoveryUsers(A, u)
           W == [i \in 0..Len(v) |-> Part(A, First(v, i), gs, ms, ks)]
<1>1. IsFiniteSet(S)
  BY FiniteIds, FS_Intersection
<1>2. Lists(v, S)
  BY <1>1, SetToSeqLists
<1>3. q = [i \in DOMAIN v |-> SQL(<<Insert(Restrict(A.users, {v[i]}), <<>>, {}, <<>>)>>)]
  BY DEF RecoveryUsers
<1>4. IsCommands(q)
  BY RecoveryParts
<1> HIDE DEF v, q, S
<1>5. DOMAIN v = 1..Len(v) /\ Len(v) \in Nat
  BY <1>2, SeqFacts DEF Lists
<1>6. Len(q) = Len(v)
  BY <1>3, <1>5
<1>7. W[0] = Part(A, {}, gs, ms, ks) /\ W[Len(v)] = Part(A, S, gs, ms, ks)
  BY <1>2, <1>5 DEF Lists
<1>8. ASSUME NEW i \in 1..Len(q)
      PROVE  \E s : q[i] = SQL(<<s>>) /\ Grows(W[i - 1], s, W[i])
  <2> DEFINE s == Insert(Restrict(A.users, {v[i]}), <<>>, {}, <<>>)
             V == Part(A, First(v, i - 1), gs, ms, ks)
             X == Part(A, First(v, i - 1) \cup {v[i]}, gs, ms, ks)
  <2>1. q[i] = SQL(<<s>>)
    BY <1>3, <1>5, <1>6
  <2>2. v[i] \notin First(v, i - 1) /\ First(v, i) = First(v, i - 1) \cup {v[i]}
    BY <1>2, <1>6 DEF Lists
  <2>3. Grows(V, s, X)
    BY <2>2, PartPlusOne DEF OneRow
  <2>4. i - 1 \in 0..Len(v) /\ i \in 0..Len(v)
    BY <1>5, <1>6
  <2>5. W[i - 1] = V /\ W[i] = X
    BY <2>2, <2>4
  <2> HIDE DEF s, V, X, W
  <2> QED BY <2>1, <2>3, <2>5
<1> HIDE DEF W
<1>9. Growing(q, W)
  BY <1>4, <1>5, <1>6, <1>8 DEF Growing
<1> DEFINE e == Performed(d, u, Uncounted(q))
<1>10. HasTables(e, W[Len(q)]) /\ e.flash = d.flash
  BY <1>7, <1>9, InsertPhase
<1> QED BY <1>6, <1>7, <1>10 DEF GrewTo, q, S

\* Its groups.
LEMMA GroupsPhase ==
  ASSUME NEW A, AreTables(A), NEW u, NEW d, NEW us, NEW ms, NEW ks,
         HasTables(d, Part(A, us, {}, ms, ks))
  PROVE  GrewTo(d, Performed(d, u, Uncounted(RecoveryGroups(A, u))),
                Part(A, us, GroupsOf(A, u) \cap DOMAIN A.groups, ms, ks))
<1> DEFINE S == GroupsOf(A, u) \cap DOMAIN A.groups
           v == SetToSeq(S)
           q == RecoveryGroups(A, u)
           W == [i \in 0..Len(v) |-> Part(A, us, First(v, i), ms, ks)]
<1>1. IsFiniteSet(S)
  BY FiniteIds, FS_Intersection
<1>2. Lists(v, S)
  BY <1>1, SetToSeqLists
<1>3. q = [i \in DOMAIN v |-> SQL(<<Insert(<<>>, Restrict(A.groups, {v[i]}), {}, <<>>)>>)]
  BY DEF RecoveryGroups
<1>4. IsCommands(q)
  BY RecoveryParts
<1> HIDE DEF v, q, S
<1>5. DOMAIN v = 1..Len(v) /\ Len(v) \in Nat
  BY <1>2, SeqFacts DEF Lists
<1>6. Len(q) = Len(v)
  BY <1>3, <1>5
<1>7. W[0] = Part(A, us, {}, ms, ks) /\ W[Len(v)] = Part(A, us, S, ms, ks)
  BY <1>2, <1>5, SMTT(15) DEF Lists
<1>8. ASSUME NEW i \in 1..Len(q)
      PROVE  \E s : q[i] = SQL(<<s>>) /\ Grows(W[i - 1], s, W[i])
  <2> DEFINE s == Insert(<<>>, Restrict(A.groups, {v[i]}), {}, <<>>)
             V == Part(A, us, First(v, i - 1), ms, ks)
             X == Part(A, us, First(v, i - 1) \cup {v[i]}, ms, ks)
  <2>1. q[i] = SQL(<<s>>)
    BY <1>3, <1>5, <1>6
  <2>2. v[i] \notin First(v, i - 1) /\ First(v, i) = First(v, i - 1) \cup {v[i]}
    BY <1>2, <1>6 DEF Lists
  <2>3. Grows(V, s, X)
    BY <2>2, PartPlusOne DEF OneRow
  <2>4. i - 1 \in 0..Len(v) /\ i \in 0..Len(v)
    BY <1>5, <1>6
  <2>5. W[i - 1] = V /\ W[i] = X
    BY <2>2, <2>4
  <2> HIDE DEF s, V, X, W
  <2> QED BY <2>1, <2>3, <2>5
<1> HIDE DEF W
<1>9. Growing(q, W)
  BY <1>4, <1>5, <1>6, <1>8 DEF Growing
<1> DEFINE e == Performed(d, u, Uncounted(q))
<1>10. HasTables(e, W[Len(q)]) /\ e.flash = d.flash
  BY <1>7, <1>9, InsertPhase
<1> QED BY <1>6, <1>7, <1>10 DEF GrewTo, q, S

\* Its membership.
LEMMA MembersPhase ==
  ASSUME NEW A, AreTables(A), NEW u, NEW d, NEW us, NEW gs, NEW ks,
         HasTables(d, Part(A, us, gs, {}, ks))
  PROVE  GrewTo(d, Performed(d, u, Uncounted(RecoveryMembers(A, u))),
                Part(A, us, gs, {x \in A.member : x[2] \in GroupsOf(A, u)}, ks))
<1> DEFINE S == {x \in A.member : x[2] \in GroupsOf(A, u)}
           v == SetToSeq(S)
           q == RecoveryMembers(A, u)
           W == [i \in 0..Len(v) |-> Part(A, us, gs, First(v, i), ks)]
<1>1. IsFiniteSet(S)
  BY FiniteIds, FS_Subset
<1>2. Lists(v, S)
  BY <1>1, SetToSeqLists
<1>3. q = [i \in DOMAIN v |-> SQL(<<Insert(<<>>, <<>>, {v[i]}, <<>>)>>)]
  BY DEF RecoveryMembers
<1>4. IsCommands(q)
  BY RecoveryParts
<1> HIDE DEF v, q, S
<1>5. DOMAIN v = 1..Len(v) /\ Len(v) \in Nat
  BY <1>2, SeqFacts DEF Lists
<1>6. Len(q) = Len(v)
  BY <1>3, <1>5
<1>7. W[0] = Part(A, us, gs, {}, ks) /\ W[Len(v)] = Part(A, us, gs, S, ks)
  BY <1>2, <1>5 DEF Lists
<1>8. ASSUME NEW i \in 1..Len(q)
      PROVE  \E s : q[i] = SQL(<<s>>) /\ Grows(W[i - 1], s, W[i])
  <2> DEFINE s == Insert(<<>>, <<>>, {v[i]}, <<>>)
             V == Part(A, us, gs, First(v, i - 1), ks)
             X == Part(A, us, gs, First(v, i - 1) \cup {v[i]}, ks)
  <2>1. q[i] = SQL(<<s>>)
    BY <1>3, <1>5, <1>6
  <2>2. v[i] \notin First(v, i - 1) /\ First(v, i) = First(v, i - 1) \cup {v[i]}
    BY <1>2, <1>6 DEF Lists
  <2>3. Grows(V, s, X)
    BY <2>2, PartPlusOne DEF OneRow
  <2>4. i - 1 \in 0..Len(v) /\ i \in 0..Len(v)
    BY <1>5, <1>6
  <2>5. W[i - 1] = V /\ W[i] = X
    BY <2>2, <2>4
  <2> HIDE DEF s, V, X, W
  <2> QED BY <2>1, <2>3, <2>5
<1> HIDE DEF W
<1>9. Growing(q, W)
  BY <1>4, <1>5, <1>6, <1>8 DEF Growing
<1> DEFINE e == Performed(d, u, Uncounted(q))
<1>10. HasTables(e, W[Len(q)]) /\ e.flash = d.flash
  BY <1>7, <1>9, InsertPhase
<1> QED BY <1>6, <1>7, <1>10 DEF GrewTo, q, S

KeysGiven(d, e, A, us, gs, ms, ks) ==
  /\ HasTables(e, Part(A, us, gs, ms, ks)) /\ d.flash \subseteq e.flash
  /\ \A k \in ks : A.keys[k].status # "destroyed" => k \in e.flash

\* One key: its row and, unless it is destroyed, its content.
LEMMA KeyStep ==
  ASSUME NEW A, NEW u, NEW d, NEW us, NEW gs, NEW ms, NEW ks, u \in us,
         NEW k, k \notin ks, NEW o, KeysGiven(o, d, A, us, gs, ms, ks)
  PROVE  KeysGiven(o, Performed(d, u, Uncounted(RecoveryKey(A, k))), A, us, gs, ms, ks \cup {k})
<1> DEFINE s == Insert(<<>>, <<>>, {}, Restrict(A.keys, {k}))
           c == SQL(<<s>>)
           V == Part(A, us, gs, ms, ks)
           X == Part(A, us, gs, ms, ks \cup {k})
           e == Apply(d, u, Record(0, c))
<1>1. Grows(V, s, X)
  BY PartPlusOne DEF OneRow
<1>2. HasTables(e, X) /\ e.flash = d.flash
  <2> HIDE DEF s, V, X
  <2>1. HasTables(d, V)
    BY DEF KeysGiven, V
  <2> QED BY <1>1, <2>1, InsertApplied
<1>3. o.flash \subseteq d.flash /\ \A x \in ks : A.keys[x].status # "destroyed" => x \in d.flash
  BY DEF KeysGiven
<1>4. IsCommands(<<c>>) /\ IsCommand(c)
  BY InsertIsStatement, FewCommands
<1>5. Uncounted(<<c>>) = <<Record(0, c)>>
  BY DEF Uncounted
<1>6. X.users = Restrict(A.users, us) /\ DOMAIN Restrict(A.users, us) = us
  BY PlusRestrict DEF Part
<1> HIDE DEF X, V
<1>7. CASE A.keys[k].status = "destroyed"
  <2>1. RecoveryKey(A, k) = <<c>>
    <3>1. RecoveryKey(A, k) = <<c>> \o <<>>
      BY <1>7 DEF RecoveryKey
    <3> HIDE DEF c
    <3>2. <<c>> \o <<>> = <<c>>
      OBVIOUS
    <3> QED BY <3>1, <3>2
  <2>2. Performed(d, u, Uncounted(RecoveryKey(A, k))) = e
    BY <1>5, <2>1, PerformedOne
  <2> HIDE DEF e
  <2>3. KeysGiven(o, e, A, us, gs, ms, ks \cup {k})
    BY <1>2, <1>3, <1>7 DEF KeysGiven, X
  <2> QED BY <2>2, <2>3
<1>8. CASE A.keys[k].status # "destroyed"
  <2> DEFINE r == Record(0, KeyData(k))
             b == Apply(e, u, r)
  <2>1. RecoveryKey(A, k) = <<c>> \o <<KeyData(k)>>
    BY <1>8 DEF RecoveryKey
  <2>2. IsCommands(<<KeyData(k)>>) /\ IsCommand(KeyData(k))
    BY FewCommands
  <2>3. Uncounted(RecoveryKey(A, k)) = <<Record(0, c)>> \o <<r>>
    <3>1. Uncounted(<<KeyData(k)>>) = <<r>>
      BY DEF Uncounted
    <3>2. Uncounted(<<c>> \o <<KeyData(k)>>) = Uncounted(<<c>>) \o Uncounted(<<KeyData(k)>>)
      BY <1>4, <2>2, UncountedConcat
    <3> QED BY <1>5, <2>1, <3>1, <3>2
  <2>4. Performed(d, u, Uncounted(RecoveryKey(A, k))) = b
    <3> DEFINE r1 == Record(0, c)
    <3> HIDE DEF r, r1
    <3>1. IsSeq(<<r>>)
      BY NoneAndOneSeq
    <3>2. Performed(d, u, <<r1>> \o <<r>>) = Performed(Apply(d, u, r1), u, <<r>>)
      BY <3>1, PerformedFirst
    <3>3. Performed(Apply(d, u, r1), u, <<r>>) = Apply(Apply(d, u, r1), u, r)
      BY PerformedOne
    <3> QED BY <2>3, <3>2, <3>3 DEF r1
  <2>5. /\ IsWork(e) /\ e.ok /\ e.updkeys /\ e.cnt = 0 /\ e.db = X /\ u \in DOMAIN e.db.users
    BY <1>2, <1>6 DEF HasTables
  <2> HIDE DEF e
  <2>6. r.cnt = 0 /\ r.cmd = KeyData(k) /\ KeyData(k).type = "KEY_DATA" /\ KeyData(k).key = k
    BY DEF Record, KeyData
  <2>7. b = Perform(At(e, 0, e.flash), u, KeyData(k))
    <3> HIDE DEF r
    <3> QED BY <2>5, <2>6, ApplyForm
  <2>8. At(e, 0, e.flash) = e
    <3>1. e.cnt \in Nat
      BY <2>5
    <3>2. At(e, e.cnt, e.flash) = e
      BY ONLY <2>5, <3>1, AtFacts
    <3> QED BY <2>5, <3>2
  <2> DEFINE kd == KeyData(k)
  <2>9. Perform(e, u, kd) = [db |-> e.db, cnt |-> e.cnt, updkeys |-> e.updkeys,
                             ok |-> e.ok, flash |-> e.flash \cup {k}]
    <3> HIDE DEF kd
    <3>1. kd.type = "KEY_DATA" /\ kd.key = k
      BY <2>6 DEF kd
    <3> QED BY <2>5, <3>1, PerformKeyData
  <2>10. IsWork(Perform(e, u, kd))
    BY <2>2, <2>5, PerformShape
  <2>11. b = [db |-> e.db, cnt |-> e.cnt, updkeys |-> e.updkeys, ok |-> e.ok, flash |-> e.flash \cup {k}]
         /\ IsWork(b)
    BY <2>7, <2>8, <2>9, <2>10
  <2> HIDE DEF b
  <2>12. HasTables(b, X) /\ b.flash = e.flash \cup {k}
    BY <2>5, <2>11 DEF HasTables
  <2>13. KeysGiven(o, b, A, us, gs, ms, ks \cup {k})
    BY <1>2, <1>3, <2>12 DEF KeysGiven, X
  <2> QED BY <2>4, <2>13
<1> QED BY <1>7, <1>8

\* Its keys, with their data unless they are destroyed.
LEMMA KeysPhase ==
  ASSUME NEW A, AreTables(A), NEW u, NEW d, NEW us, NEW gs, NEW ms, u \in us,
         HasTables(d, Part(A, us, gs, ms, {}))
  PROVE  KeysGiven(d, Performed(d, u, Uncounted(RecoveryKeys(A, u))), A, us, gs, ms, KeysFor(A, u))
<1> DEFINE S == KeysFor(A, u)
           v == SetToSeq(S)
<1>1. IsFiniteSet(S)
  BY FiniteIds, FS_Subset DEF KeysFor
<1>2. Lists(v, S)
  BY <1>1, SetToSeqLists
<1> PICK f : /\ IsJoin(f, A, v) /\ RecoveryKeys(A, u) = f[Len(v)]
             /\ Len(v) \in Nat /\ f[0] = <<>>
             /\ \A i \in 1..Len(v) : f[i] = f[i - 1] \o RecoveryKey(A, v[i])
             /\ \A i \in 0..Len(v) : IsCommands(f[i])
  BY RecoveryKeysIsJoin
<1> HIDE DEF v, S
<1> DEFINE G(i) == Performed(d, u, Uncounted(f[i]))
           T == {i \in 0..Len(v) : KeysGiven(d, G(i), A, us, gs, ms, First(v, i))}
<1>3. 0 \in T
  <2>1. Uncounted(f[0]) = <<>>
    BY DEF Uncounted
  <2>2. G(0) = d
    BY <2>1, PerformedNone
  <2>3. KeysGiven(d, d, A, us, gs, ms, First(v, 0))
    BY <1>2 DEF KeysGiven, Lists
  <2> HIDE DEF G
  <2> QED BY <2>2, <2>3
<1>4. ASSUME NEW i \in 1..Len(v), i - 1 \in T
      PROVE  i \in T
  <2>1. KeysGiven(d, G(i - 1), A, us, gs, ms, First(v, i - 1)) /\ i - 1 \in 0..Len(v)
    BY <1>4
  <2>2. First(v, i) = First(v, i - 1) \cup {v[i]} /\ v[i] \notin First(v, i - 1)
    BY <1>2 DEF Lists
  <2> DEFINE k == v[i]
             p == f[i - 1]
             r == RecoveryKey(A, k)
  <2>3. IsCommands(p) /\ IsCommands(r) /\ f[i] = p \o r
    BY <2>1, RecoveryKeyCommands
  <2>4. G(i) = Performed(G(i - 1), u, Uncounted(r))
    <3> HIDE DEF p, r
    <3>1. Uncounted(p \o r) = Uncounted(p) \o Uncounted(r)
      BY <2>3, UncountedConcat
    <3>2. IsSeq(Uncounted(p)) /\ IsSeq(Uncounted(r))
      BY <2>3, UncountedFacts DEF IsRecords
    <3>3. Performed(d, u, Uncounted(p) \o Uncounted(r)) = Performed(Performed(d, u, Uncounted(p)), u, Uncounted(r))
      BY <3>2, PerformedConcat
    <3> QED BY <2>3, <3>1, <3>3 DEF p
  <2> HIDE DEF G, T, k
  <2>5. KeysGiven(d, Performed(G(i - 1), u, Uncounted(r)), A, us, gs, ms, First(v, i - 1) \cup {k})
    BY <2>1, <2>2, KeyStep DEF k
  <2>6. i \in 0..Len(v)
    OBVIOUS
  <2> QED BY <2>2, <2>4, <2>5, <2>6 DEF T, k
<1> HIDE DEF T
<1>5. \A i \in 0..Len(v) : i \in T
  BY <1>3, <1>4, UpTo
<1>6. KeysGiven(d, G(Len(v)), A, us, gs, ms, First(v, Len(v)))
  <2>1. Len(v) \in 0..Len(v)
    OBVIOUS
  <2> HIDE DEF G
  <2> QED BY <1>5, <2>1 DEF T
<1>7. First(v, Len(v)) = S
  BY <1>2 DEF Lists
<1> QED BY <1>6, <1>7 DEF S

\* What the recovery file of a user with a group makes of any device.
LEMMA RecoveryRows ==
  ASSUME NEW A, Tidy(A), NEW u, u \in DOMAIN A.users, GroupsOf(A, u) # {},
         NEW D, IsWork(D), D.ok, D.updkeys
  PROVE  KeysGiven(D, Performed(D, u, RecoveryFile(A, u)), A, Peers(A, u) \cap DOMAIN A.users,
                   GroupsOf(A, u) \cap DOMAIN A.groups,
                   {x \in A.member : x[2] \in GroupsOf(A, u)}, KeysFor(A, u))
<1> DEFINE us == Peers(A, u) \cap DOMAIN A.users
           gs == GroupsOf(A, u) \cap DOMAIN A.groups
           ms == {x \in A.member : x[2] \in GroupsOf(A, u)}
           r == Record(0, ClearAll)
           qu == Uncounted(RecoveryUsers(A, u))
           qg == Uncounted(RecoveryGroups(A, u))
           qm == Uncounted(RecoveryMembers(A, u))
           qk == Uncounted(RecoveryKeys(A, u))
           e0 == Apply(D, u, r)
           e1 == Performed(e0, u, qu)
           e2 == Performed(e1, u, qg)
           e3 == Performed(e2, u, qm)
           e4 == Performed(e3, u, qk)
<1>1. AreTables(A)
  BY DEF Tidy
<1>2. u \in us
  <2>1. PICK g : g \in GroupsOf(A, u)
    OBVIOUS
  <2>2. <<u, g>> \in A.member
    BY <1>1, <2>1, Pairs
  <2> QED BY <1>1, <2>1, <2>2, Pairs
<1>3. /\ IsRecords(qu) /\ IsRecords(qg) /\ IsRecords(qm) /\ IsRecords(qk)
      /\ RecoveryFile(A, u) = <<r>> \o (qu \o (qg \o (qm \o qk)))
  BY <1>1, RecoveryFileShape
<1>4. HasTables(e0, Part(A, {}, {}, {}, {})) /\ e0.flash = D.flash
  <2>1. e0 = Emptied(D, NoRows) /\ IsDb(NoRows)
    BY ClearApplied
  <2>2. D.updkeys \in BOOLEAN
    BY DEF IsWork
  <2>3. NoRows = Part(A, {}, {}, {}, {})
    BY NoRestriction DEF NoRows, Part
  <2> DEFINE E == Emptied(D, NoRows)
  <2>6. IsDb(NoRows)
    BY <2>1
  <2>4. IsWork(E) /\ E.db = NoRows /\ E.cnt = 0 /\ E.flash = D.flash /\ E.updkeys = D.updkeys /\ E.ok
    BY ONLY <2>2, <2>6, EmptiedFacts
  <2> HIDE DEF E, e0
  <2>5. HasTables(E, Part(A, {}, {}, {}, {}))
    BY <2>3, <2>4 DEF HasTables
  <2> QED BY <2>1, <2>4, <2>5 DEF E
<1>5. Performed(D, u, RecoveryFile(A, u)) = e4
  <2> HIDE DEF qu, qg, qm, qk, r
  <2>1. IsSeq(qu) /\ IsSeq(qg) /\ IsSeq(qm) /\ IsSeq(qk)
    BY <1>3 DEF IsRecords
  <2>2. IsSeq(qm \o qk)
    BY <2>1, ConcatSeq
  <2>3. IsSeq(qg \o (qm \o qk))
    BY <2>1, <2>2, ConcatSeq
  <2>4. IsSeq(qu \o (qg \o (qm \o qk)))
    BY <2>1, <2>3, ConcatSeq
  <2>5. Performed(D, u, RecoveryFile(A, u)) = Performed(e0, u, qu \o (qg \o (qm \o qk)))
    BY <1>3, <2>4, PerformedFirst
  <2> HIDE DEF e0
  <2>6. Performed(e0, u, qu \o (qg \o (qm \o qk))) = Performed(e1, u, qg \o (qm \o qk))
    BY <2>1, <2>3, PerformedConcat
  <2> HIDE DEF e1
  <2>7. Performed(e1, u, qg \o (qm \o qk)) = Performed(e2, u, qm \o qk)
    BY <2>1, <2>2, PerformedConcat
  <2> HIDE DEF e2
  <2>8. Performed(e2, u, qm \o qk) = e4
    BY <2>1, PerformedConcat
  <2> QED BY <2>5, <2>6, <2>7, <2>8
<1> HIDE DEF e0
<1>6. GrewTo(e0, e1, Part(A, us, {}, {}, {}))
  BY <1>1, <1>4, UsersPhase
<1> HIDE DEF e1, us
<1>7. GrewTo(e1, e2, Part(A, us, gs, {}, {}))
  <2>1. HasTables(e1, Part(A, us, {}, {}, {}))
    BY <1>6 DEF GrewTo
  <2> QED BY <1>1, <2>1, GroupsPhase
<1> HIDE DEF e2, gs
<1>8. GrewTo(e2, e3, Part(A, us, gs, ms, {}))
  <2>1. HasTables(e2, Part(A, us, gs, {}, {}))
    BY <1>7 DEF GrewTo
  <2> QED BY <1>1, <2>1, MembersPhase
<1> HIDE DEF e3, ms
<1>9. KeysGiven(e3, e4, A, us, gs, ms, KeysFor(A, u))
  <2>1. HasTables(e3, Part(A, us, gs, ms, {}))
    BY <1>8 DEF GrewTo
  <2> QED BY <1>1, <1>2, <2>1, KeysPhase
<1> HIDE DEF e4
<1>10. KeysGiven(D, e4, A, us, gs, ms, KeysFor(A, u))
  <2>1. e3.flash = D.flash
    BY <1>4, <1>6, <1>7, <1>8 DEF GrewTo
  <2> QED BY <1>9, <2>1 DEF KeysGiven
<1> QED BY <1>5, <1>10 DEF us, gs, ms

Current(R, A, u, n) ==
  IsWork(R) /\ R.ok /\ R.updkeys /\ u \in DOMAIN R.db.users /\ R.cnt = n /\ Knows(R, A, u)

\* A recovery file gives the view, whatever was on the device.
LEMMA RecoveryGives ==
  ASSUME NEW A, Tidy(A), NEW u, u \in DOMAIN A.users, GroupsOf(A, u) # {},
         NEW D, IsWork(D), D.ok, D.updkeys
  PROVE  Current(Executed(D, u, RecoveryFile(A, u)), A, u, 0)
<1> DEFINE us == Peers(A, u) \cap DOMAIN A.users
           gs == GroupsOf(A, u) \cap DOMAIN A.groups
           ms == {x \in A.member : x[2] \in GroupsOf(A, u)}
           V == Part(A, us, gs, ms, KeysFor(A, u))
           q == RecoveryFile(A, u)
           P == Performed(D, u, q)
           E == Executed(D, u, q)
<1>1. AreTables(A)
  BY DEF Tidy
<1>2. u \in us
  <2>1. PICK g : g \in GroupsOf(A, u)
    OBVIOUS
  <2>2. <<u, g>> \in A.member
    BY <1>1, <2>1, Pairs
  <2> QED BY <1>1, <2>1, <2>2, Pairs
<1>3. us = Seen(A, u) /\ gs = GroupsOf(A, u)
  <2>1. GroupsOf(A, u) \subseteq DOMAIN A.groups /\ Peers(A, u) \subseteq DOMAIN A.users
    BY ViewTidy
  <2> QED BY <1>2, <2>1 DEF Seen
<1>4. KeysGiven(D, P, A, us, gs, ms, KeysFor(A, u))
  BY RecoveryRows
<1> HIDE DEF us, gs
<1>5. /\ V.users = Restrict(A.users, Seen(A, u)) /\ V.groups = Restrict(A.groups, GroupsOf(A, u))
      /\ V.member = ms /\ V.keys = Restrict(A.keys, KeysFor(A, u)) /\ IsDb(V)
  BY <1>3 DEF Part, IsDb
<1> HIDE DEF V, P
<1>6. V = View(A, u)
  BY <1>5, SameView
<1> HIDE DEF ms
<1>7. /\ IsWork(P) /\ P.ok /\ P.updkeys /\ P.cnt = 0 /\ P.db = V
      /\ \A k \in KeysFor(A, u) : A.keys[k].status # "destroyed" => k \in P.flash
  BY <1>4 DEF KeysGiven, HasTables, V
<1>8. DOMAIN V.keys = KeysFor(A, u) /\ \A k \in KeysFor(A, u) : V.keys[k] = A.keys[k]
  BY <1>5 DEF Restrict
<1>9. Needed(P.db) \subseteq P.flash
  BY <1>7, <1>8 DEF Needed
<1>10. u \in DOMAIN P.db.users
  <2>1. DOMAIN V.users = Seen(A, u)
    BY <1>5, PlusRestrict
  <2> QED BY <1>2, <1>3, <1>7, <2>1
<1>11. E = P
  <2>1. IsRecords(q)
    BY <1>1, RecoveryFileShape DEF ClearFirst
  <2>2. Ended(E, D, P, u)
    BY <2>1, ExecutedFacts DEF P
  <2> QED BY <1>10, <2>2 DEF Ended
<1> QED BY <1>6, <1>7, <1>9, <1>10, <1>11 DEF Current, Knows

\* With nothing left to send.
LEMMA GoodNow ==
  ASSUME NEW A, NEW R, IsWork(R), NEW u, NEW x, NEW n
  PROVE  GoodAt(A, <<>>, R, u, x, n) <=> Current(R, Own(A, u, x), u, n)
<1>1. Told(R, u, <<>>) = At(R, 0, R.flash)
  BY ToldNone
<1>2. 0 \in Nat
  OBVIOUS
<1>3. Knows(At(R, 0, R.flash), Own(A, u, x), u) <=> Knows(R, Own(A, u, x), u)
  BY <1>2, KnowsAt
<1> QED BY <1>1, <1>3 DEF GoodAt, Current

\* Between two calls, when the device is ready or not.
LEMMA SyncNow ==
  ASSUME NEW A, Tidy(A), NEW u, u \in DOMAIN A.users, NEW d, IsDevice(d), NEW F, IsFiles(F), NEW n,
         SyncAt(A, <<>>, d, F, u, n)
  PROVE  /\ d.ready /\ d.updkeys => Current(ReplayFiles(Committed(d), u, F), A, u, n)
         /\ ~d.ready => \A r \in UserRow : \E x \in {r, A.users[u]} :
              Current(ReplayFiles(Fresh(u, r), u, F), Own(A, u, x), u, n)
<1>1. ASSUME d.ready, d.updkeys
      PROVE  Current(ReplayFiles(Committed(d), u, F), A, u, n)
  <2> DEFINE D0 == Committed(d)
             R == ReplayFiles(D0, u, F)
  <2>1. StartsFrom(d, A, u, D0, A.users[u])
    BY <1>1 DEF StartsFrom
  <2>2. IsWork(R)
    BY <2>1, StartFacts, ReplayShape
  <2>3. GoodAt(A, <<>>, R, u, A.users[u], n)
    <3> HIDE DEF D0
    <3>1. \E x \in {A.users[u], A.users[u]} : GoodAt(A, <<>>, ReplayFiles(D0, u, F), u, x, n)
      BY <2>1 DEF SyncAt
    <3> QED BY <3>1
  <2> HIDE DEF R
  <2>4. Current(R, Own(A, u, A.users[u]), u, n)
    BY <2>2, <2>3, GoodNow
  <2> QED BY <2>4, OwnSame DEF R
<1>2. ASSUME ~d.ready, NEW r \in UserRow
      PROVE  \E x \in {r, A.users[u]} : Current(ReplayFiles(Fresh(u, r), u, F), Own(A, u, x), u, n)
  <2> DEFINE D0 == Fresh(u, r)
             R == ReplayFiles(D0, u, F)
  <2>1. StartsFrom(d, A, u, D0, r)
    BY <1>2 DEF StartsFrom
  <2>2. IsWork(R)
    BY <2>1, StartFacts, ReplayShape
  <2>3. PICK x \in {r, A.users[u]} : GoodAt(A, <<>>, R, u, x, n)
    <3> HIDE DEF D0
    <3> QED BY <2>1 DEF SyncAt
  <2> HIDE DEF R
  <2>4. Current(R, Own(A, u, x), u, n)
    BY <2>2, <2>3, GoodNow
  <2> QED BY <2>4 DEF R
<1> QED BY <1>1, <1>2

\* For a device that is ready, SyncAt is about the administrator's own row.
LEMMA SyncReady ==
  ASSUME NEW A, Tidy(A), NEW u, u \in DOMAIN A.users, NEW d, IsDevice(d), NEW F, IsFiles(F), NEW n,
         d.ready, d.updkeys => Current(ReplayFiles(Committed(d), u, F), A, u, n)
  PROVE  SyncAt(A, <<>>, d, F, u, n)
<1> SUFFICES ASSUME NEW D0, NEW r, StartsFrom(d, A, u, D0, r)
             PROVE  \E x \in {r, A.users[u]} : GoodAt(A, <<>>, ReplayFiles(D0, u, F), u, x, n)
  BY DEF SyncAt
<1>1. D0 = Committed(d) /\ d.updkeys /\ r = A.users[u]
  BY DEF StartsFrom
<1> DEFINE R == ReplayFiles(D0, u, F)
<1>2. Current(R, Own(A, u, r), u, n)
  BY <1>1, OwnSame
<1> HIDE DEF R
<1>3. GoodAt(A, <<>>, R, u, r, n)
  BY <1>2, GoodNow DEF Current
<1> QED BY <1>3 DEF R

\* The init file.
LEMMA InitGives ==
  ASSUME NEW D, IsWork(D), D.ok, D.updkeys, NEW u, NEW q, IsRecords(q), InitLike(u, q)
  PROVE  /\ IsWork(Executed(D, u, q)) /\ Executed(D, u, q).ok /\ Executed(D, u, q).updkeys
         /\ \A r : q = <<InitRecord(u, r)>> /\ D.flash = {} => Executed(D, u, q) = Fresh(u, r)
<1> PICK s \in UserRow : q = <<InitRecord(u, s)>>
  BY DEF InitLike, InitRecord
<1> DEFINE E == Executed(D, u, q)
           P == Performed(D, u, q)
<1>1. Ended(E, D, P, u)
  BY ExecutedFacts
<1>2. \A r : q = <<InitRecord(u, r)>> => P = Emptied(D, OwnRowOnly(u, r)) /\ IsDb(OwnRowOnly(u, r))
  <2> TAKE r
  <2> HAVE q = <<InitRecord(u, r)>>
  <2>1. P = Apply(D, u, InitRecord(u, r))
    BY PerformedOne
  <2>2. Apply(D, u, InitRecord(u, r)) = Emptied(D, OwnRowOnly(u, r))
    BY InitApplied
  <2>3. IsDb(OwnRowOnly(u, r))
    BY ONLY InitRows
  <2> QED BY ONLY <2>1, <2>2, <2>3
<1> HIDE DEF E, P
<1>3. P = Emptied(D, OwnRowOnly(u, s))
  BY <1>2
<1>4. P.ok /\ P.updkeys
  BY <1>3 DEF Emptied
<1>5. IsWork(E) /\ E.ok /\ E.updkeys
  BY <1>1, <1>4 DEF Ended
<1>6. ASSUME NEW r, q = <<InitRecord(u, r)>>, D.flash = {}
      PROVE  E = Fresh(u, r)
  <2>1. P = Emptied(D, OwnRowOnly(u, r))
    BY <1>2, <1>6
  <2>2. P = Fresh(u, r)
    BY <1>6, <2>1 DEF Emptied, OwnRowOnly, Fresh, IsWork
  <2>3. u \in DOMAIN P.db.users
    <3>1. DOMAIN Fresh(u, r).db.users = {u}
      BY ONLY FreshFacts
    <3> QED BY <2>2, <3>1
  <2> QED BY <1>1, <2>2, <2>3 DEF Ended
<1> QED BY <1>5, <1>6 DEF E

\* With a recovery file and no normal file, a device is in sync wherever it
\* starts.
LEMMA SyncRecovered ==
  ASSUME NEW A, Tidy(A), NEW u, u \in DOMAIN A.users, GroupsOf(A, u) # {}, NEW d, IsDevice(d),
         NEW F, IsFiles(F), "normal" \notin DOMAIN F, "recovery" \in DOMAIN F,
         F["recovery"] = RecoveryFile(A, u), "init" \in DOMAIN F => InitLike(u, F["init"])
  PROVE  SyncAt(A, <<>>, d, F, u, 0)
<1> SUFFICES ASSUME NEW D0, NEW r, StartsFrom(d, A, u, D0, r)
             PROVE  \E x \in {r, A.users[u]} : GoodAt(A, <<>>, ReplayFiles(D0, u, F), u, x, 0)
  BY DEF SyncAt
<1>1. IsWork(D0) /\ D0.updkeys /\ D0.ok
  BY StartFacts
<1> DEFINE I == ReplayFile(D0, u, F, "init")
           R == ReplayFile(I, u, F, "recovery")
           N == ReplayFiles(D0, u, F)
<1>2. Sequel(u, F, D0, I, R, N)
  BY <1>1, ReplayIs
<1> HIDE DEF I, R, N
<1>3. IsWork(I) /\ I.updkeys /\ I.ok
  <2>1. IsWork(I) /\ I.updkeys
    BY <1>2 DEF Sequel, Passed
  <2>2. CASE "init" \in DOMAIN F
    <3>1. I = Executed(D0, u, F["init"])
      BY <1>1, <1>2, <2>2 DEF Sequel, Passed
    <3>2. IsRecords(F["init"]) /\ InitLike(u, F["init"])
      BY <2>2 DEF IsFiles
    <3>3. I.ok
      BY <1>1, <3>1, <3>2, InitGives
    <3> QED BY <2>1, <3>3
  <2>3. CASE "init" \notin DOMAIN F
    BY <1>1, <1>2, <2>1, <2>3 DEF Sequel, Passed
  <2> QED BY <2>2, <2>3
<1>4. N = Executed(I, u, RecoveryFile(A, u))
  BY <1>2, <1>3 DEF Sequel, Passed
<1>5. Current(N, A, u, 0)
  BY <1>3, <1>4, RecoveryGives
<1>6. Current(N, Own(A, u, A.users[u]), u, 0)
  BY <1>5, OwnSame
<1>7. GoodAt(A, <<>>, N, u, A.users[u], 0)
  BY <1>6, GoodNow DEF Current
<1> QED BY <1>7 DEF N

\* A device that is given its init file, when it had none and the files it had
\* would do for a device that had executed one.
LEMMA SyncProvisioned ==
  ASSUME NEW A, Tidy(A), NEW u, u \in DOMAIN A.users, NEW d, IsDevice(d), ~d.ready,
         NEW F, IsFiles(F), "init" \notin DOMAIN F, NEW n, SyncAt(A, <<>>, d, F, u, n),
         NEW q, q = <<InitRecord(u, A.users[u])>>, IsRecords(q), InitLike(u, q),
         NEW G, G = WithFile(F, "init", q)
  PROVE  SyncAt(A, <<>>, Provisioned, G, u, n)
<1> DEFINE r == A.users[u]
           D == Fresh(u, r)
           C == Committed(Provisioned)
           R == ReplayFiles(D, u, F)
           N == ReplayFiles(C, u, G)
<1>1. IsFiles(G) /\ DOMAIN G = DOMAIN F \cup {"init"} /\ G["init"] = q
      /\ \A h \in DOMAIN F : h # "init" => G[h] = F[h]
  BY ONLY IsFiles(F), IsRecords(q), G = WithFile(F, "init", q), WithInit
<1>2. r \in UserRow /\ Own(A, u, r) = A
  BY OwnSame
<1>3. Current(R, A, u, n)
  <2>1. \A s \in UserRow : \E x \in {s, A.users[u]} :
          Current(ReplayFiles(Fresh(u, s), u, F), Own(A, u, x), u, n)
    BY SyncNow
  <2>2. \E x \in {r, r} : Current(R, Own(A, u, x), u, n)
    BY <1>2, <2>1
  <2> HIDE DEF R, r
  <2> QED BY <1>2, <2>2
<1>4. IsWork(D) /\ D.updkeys
  BY FreshFacts
<1>5. IsWork(C) /\ C.updkeys /\ C.ok /\ C.flash = {}
  <2>1. IsDevice(Provisioned) /\ Provisioned.updkeys /\ Provisioned.flash = {}
    BY BlankDevice
  <2> QED BY <2>1, WorkFacts
<1> HIDE DEF C
<1>6. Executed(C, u, q) = D
  BY <1>5, InitGives
<1> HIDE DEF D, r
<1>7. ReplayFile(D, u, F, "init") = D
  BY DEF ReplayFile
<1>8. ReplayFile(C, u, G, "init") = D
  <2>1. Passed(ReplayFile(C, u, G, "init"), C, u, G, "init")
    BY <1>1, <1>5, ReplayFileFacts
  <2> QED BY <1>1, <1>5, <1>6, <2>1 DEF Passed
<1>9. R = ReplayFile(ReplayFile(D, u, F, "recovery"), u, F, "normal")
  <2>1. R = ReplayFile(ReplayFile(ReplayFile(D, u, F, "init"), u, F, "recovery"), u, F, "normal")
    BY <1>4, ReplayIs
  <2> QED BY <1>7, <2>1
<1>10. N = ReplayFile(ReplayFile(D, u, G, "recovery"), u, G, "normal")
  <2>1. N = ReplayFile(ReplayFile(ReplayFile(C, u, G, "init"), u, G, "recovery"), u, G, "normal")
    BY <1>1, <1>5, ReplayIs
  <2> QED BY <1>8, <2>1
<1>11. \A E : /\ ReplayFile(E, u, F, "recovery") = ReplayFile(E, u, G, "recovery")
              /\ ReplayFile(E, u, F, "normal") = ReplayFile(E, u, G, "normal")
  <2>1. /\ "recovery" \in DOMAIN F <=> "recovery" \in DOMAIN G
        /\ "normal" \in DOMAIN F <=> "normal" \in DOMAIN G
        /\ "recovery" \in DOMAIN F => F["recovery"] = G["recovery"]
        /\ "normal" \in DOMAIN F => F["normal"] = G["normal"]
    BY <1>1
  <2> QED BY <2>1, ReplayFileSame
<1>12. N = R
  BY <1>9, <1>10, <1>11
<1> HIDE DEF R, N
<1>13. IsDevice(Provisioned) /\ Provisioned.ready
  BY BlankDevice
<1>14. Current(ReplayFiles(Committed(Provisioned), u, G), A, u, n)
  BY <1>3, <1>12 DEF N, C
<1> QED BY <1>1, <1>13, <1>14, SyncReady

\* A user that was just made, without a device.
LEMMA SyncFresh ==
  ASSUME NEW A, Tidy(A), NEW u, u \in DOMAIN A.users, GroupsOf(A, u) = {},
         NEW d, IsDevice(d), ~d.ready
  PROVE  SyncAt(A, <<>>, d, NoFiles, u, 0)
<1> SUFFICES ASSUME NEW D0, NEW r, StartsFrom(d, A, u, D0, r)
             PROVE  \E x \in {r, A.users[u]} : GoodAt(A, <<>>, ReplayFiles(D0, u, NoFiles), u, x, 0)
  BY DEF SyncAt
<1>1. r \in UserRow /\ D0 = Fresh(u, r)
  BY DEF StartsFrom
<1> DEFINE B == Own(A, u, r)
           D == Fresh(u, r)
<1>2. IsOwn(A, u, r, B)
  BY <1>1, OwnFacts
<1> HIDE DEF B
<1>3. /\ IsWork(D) /\ D.cnt = 0 /\ D.flash = {} /\ D.updkeys /\ D.ok
      /\ DOMAIN D.db.users = {u} /\ D.db.users[u] = r /\ D.db.users = [v \in {u} |-> r]
      /\ D.db.groups = <<>> /\ D.db.member = {} /\ D.db.keys = <<>>
  BY ONLY FreshFacts
<1> HIDE DEF D
<1>4. GroupsOf(B, u) = {} /\ Peers(B, u) = {}
  <2>1. GroupsOf(B, u) = {}
    BY <1>2 DEF IsOwn, GroupsOf
  <2> QED BY <2>1 DEF Peers
<1>5. D.db = View(B, u)
  <2>1. Seen(B, u) = {u}
    BY <1>2, <1>4 DEF Seen, IsOwn
  <2>2. KeysFor(B, u) = {}
    BY <1>4 DEF KeysFor
  <2>3. Restrict(B.users, {u}) = [v \in {u} |-> r]
    BY <1>2 DEF Restrict, IsOwn
  <2>4. IsDb(D.db)
    BY <1>3 DEF IsWork
  <2>5. Restrict(B.groups, {}) = <<>> /\ Restrict(B.keys, {}) = <<>>
    BY NoRestriction
  <2>6. D.db.users = Restrict(B.users, Seen(B, u))
    BY <1>3, <2>1, <2>3
  <2>7. /\ D.db.groups = Restrict(B.groups, GroupsOf(B, u))
        /\ D.db.keys = Restrict(B.keys, KeysFor(B, u))
    BY <1>3, <1>4, <2>2, <2>5
  <2>8. D.db.member = {m \in B.member : m[2] \in GroupsOf(B, u)}
    BY <1>3, <1>4
  <2> QED BY <2>4, <2>6, <2>7, <2>8, SameView
<1>6. Needed(D.db) = {}
  BY <1>3 DEF Needed
<1>7. Current(D, B, u, 0)
  BY <1>3, <1>5, <1>6 DEF Current, Knows
<1>8. ReplayFiles(D, u, NoFiles) = D
  BY <1>3, NoFilesFacts, ReplayShape
<1>9. GoodAt(A, <<>>, D, u, r, 0)
  BY <1>3, <1>7, GoodNow DEF B
<1> QED BY <1>1, <1>8, <1>9 DEF D

\* A device at the start.
LEMMA SyncStart ==
  ASSUME Tidy(adm), NEW u, u \in DOMAIN adm.users
  PROVE  SyncAt(adm, <<>>, UpToDate(u), NoFiles, u, 0)
<1> DEFINE d == UpToDate(u)
           C == Committed(d)
           V == View(adm, u)
<1>1. /\ IsDevice(d) /\ d.ready /\ d.updkeys /\ d.cnt = 0 /\ d.db = V /\ d.flash = DOMAIN V.keys
  BY UpToDateDevice
<1> HIDE DEF d, V
<1>2. /\ IsWork(C) /\ C.db = V /\ C.cnt = 0 /\ C.flash = DOMAIN V.keys /\ C.updkeys /\ C.ok
  BY <1>1, WorkFacts
<1> HIDE DEF C
<1>3. u \in DOMAIN V.users
  <2>1. DOMAIN V.users = Seen(adm, u)
    BY ViewTidy DEF V
  <2> QED BY <2>1 DEF Seen
<1>4. Needed(V) \subseteq DOMAIN V.keys
  BY DEF Needed
<1>5. Current(C, adm, u, 0)
  BY <1>2, <1>3, <1>4 DEF Current, Knows, V
<1>6. IsFiles(NoFiles) /\ ReplayFiles(C, u, NoFiles) = C
  BY <1>2, NoFilesFacts, ReplayShape
<1>7. SyncAt(adm, <<>>, d, NoFiles, u, 0)
  BY <1>1, <1>5, <1>6, SyncReady DEF C
<1> QED BY <1>7 DEF d

\* Another user is added.
LEMMA LearnAddUser ==
  ASSUME NEW A, Tidy(A), NEW w, w \notin DOMAIN A.users, NEW u \in DOMAIN A.users,
         NEW B, Tidy(B), DOMAIN B.users = DOMAIN A.users \cup {w},
         \A v \in DOMAIN A.users : B.users[v] = A.users[v],
         B.groups = A.groups, B.member = A.member, B.keys = A.keys
  PROVE  Learns(A, B, <<>>, u)
<1>1. IsQueue(<<>>)
  BY NoQueue
<1>2. ASSUME NEW x \in UserRow
      PROVE  Reaches(Own(A, u, x), Own(B, u, x), <<>>, u)
  <2> DEFINE X == Own(A, u, x)
             Y == Own(B, u, x)
  <2>1. IsOwn(A, u, x, X) /\ IsOwn(B, u, x, Y)
    BY <1>2, OwnFacts
  <2> HIDE DEF X, Y
  <2>2. /\ Tidy(X) /\ Tidy(Y) /\ Y.member = X.member /\ Y.keys = X.keys /\ Y.groups = X.groups
        /\ DOMAIN Y.users = DOMAIN X.users \cup {w} /\ u \in DOMAIN X.users /\ u # w
        /\ \A v \in DOMAIN X.users : Y.users[v] = X.users[v]
    BY <2>1 DEF IsOwn
  <2>3. GroupsOf(Y, u) = GroupsOf(X, u)
    BY <2>2, SameMembers
  <2>4. \A h \in GroupsOf(X, u) : /\ Y.groups[h] = X.groups[h] /\ KeysOf(Y, h) = KeysOf(X, h)
                                  /\ \A k \in KeysOf(X, h) : Y.keys[k] = X.keys[k]
    BY <2>2 DEF KeysOf
  <2>5. AreTables(X) /\ AreTables(Y)
    BY <2>2 DEF Tidy
  <2>6. Peers(X, u) \subseteq DOMAIN X.users
    BY <2>2, ViewTidy
  <2>7. /\ \A v \in User : \A h \in GroupsOf(X, u) : <<v, h>> \in Y.member <=> <<v, h>> \in X.member
        /\ \A v : v = u \/ v \in Peers(X, u) =>
             /\ v \in DOMAIN Y.users <=> v \in DOMAIN X.users
             /\ v \in DOMAIN X.users => Y.users[v] = X.users[v]
    BY <2>2, <2>6
  <2>8. View(Y, u) = View(X, u)
    BY ONLY <2>3, <2>4, <2>5, <2>7, ViewApart
  <2>9. \A i \in 1..Len(<<>>) : <<>>[i].to # u
    OBVIOUS
  <2>10. Reaches(X, X, <<>>, u)
    BY <1>1, <2>9, ReachesNothing
  <2>11. Reaches(X, Y, <<>>, u)
    BY <2>8, <2>10 DEF Reaches, Knows
  <2> QED BY <2>11 DEF X, Y
<1> QED BY <1>2 DEF Learns

\* What se3_flash_maintenance_routine leaves of what is committed.
Cleaned(E, u) ==
  [db |-> E.db, cnt |-> E.cnt,
   flash |-> {k \in E.flash : k \in DOMAIN E.db.keys /\ E.db.keys[k].status # "destroyed"},
   updkeys |-> (E.updkeys /\ u \in DOMAIN E.db.users), ok |-> TRUE]

\* The removal of keys that are not needed leaves what is needed.
LEMMA CleanedTold ==
  ASSUME NEW E, NEW A, NEW u, NEW n, Current(E, A, u, n)
  PROVE  Current(Cleaned(E, u), A, u, n)
<1> DEFINE e == Cleaned(E, u)
<1>1. /\ e = [db |-> e.db, cnt |-> e.cnt, flash |-> e.flash, updkeys |-> e.updkeys, ok |-> e.ok]
      /\ e.db = E.db /\ e.cnt = E.cnt /\ e.ok = TRUE
      /\ e.flash = {k \in E.flash : k \in DOMAIN E.db.keys /\ E.db.keys[k].status # "destroyed"}
      /\ e.updkeys = (E.updkeys /\ u \in DOMAIN E.db.users)
  BY DEF Cleaned
<1> HIDE DEF e
<1>2. Needed(E.db) \subseteq e.flash
  BY <1>1 DEF Needed, Current, Knows
<1>3. e.updkeys = TRUE
  BY <1>1 DEF Current
<1>4. IsWork(e)
  BY <1>1, <1>3 DEF Current, IsWork
<1>5. Current(e, A, u, n)
  BY <1>1, <1>2, <1>3, <1>4 DEF Current, Knows
<1> QED BY <1>5 DEF e

\* What a device has committed when it has finished.
LEMMA FinishedCommitted ==
  ASSUME NEW d, d = [z \in DeviceField |-> d[z]], NEW u
  PROVE  Committed(Finished(d, u)) = Cleaned(Committed(d), u)
<1> DEFINE e == Finished(d, u)
<1>1. e.db = d.db /\ e.cnt = d.cnt /\ e.flash = Kept(d)
      /\ e.updkeys = (d.updkeys /\ u \in DOMAIN d.db.users)
  BY FinishedFacts, ZenonT(60)
<1> HIDE DEF e
<1>2. Committed(e) = Cleaned(Committed(d), u)
  BY <1>1 DEF Committed, Cleaned, Kept
<1> QED BY <1>2 DEF e

\* Executing the first of the files, and then the others.
LEMMA ReplayFirst ==
  ASSUME NEW C, IsWork(C), C.updkeys, C.ok, NEW u, NEW F, IsFiles(F), NEW f \in DOMAIN F,
         f \in {"recovery", "normal"} => "init" \notin DOMAIN F,
         f = "normal" => "recovery" \notin DOMAIN F
  PROVE  ReplayFiles(C, u, F) = ReplayFiles(Executed(C, u, F[f]), u, WithoutFile(F, f))
<1> DEFINE E == Executed(C, u, F[f])
           G == WithoutFile(F, f)
           N == ReplayFiles(C, u, F)
           M == ReplayFiles(E, u, G)
<1>1. IsFiles(G) /\ DOMAIN G = DOMAIN F \ {f} /\ \A h \in DOMAIN G : G[h] = F[h]
  BY WithoutFileFacts
<1>2. IsRecords(F[f]) /\ f \in File
  BY DEF IsFiles
<1>3. IsWork(E) /\ E.updkeys
  BY <1>2, ExecutedFacts DEF Ended
<1>4. ReplayFile(C, u, F, f) = E
  <2>1. Passed(ReplayFile(C, u, F, f), C, u, F, f)
    BY ReplayFileFacts
  <2> QED BY <2>1 DEF Passed
<1> HIDE DEF E
<1>5. N = ReplayFile(ReplayFile(ReplayFile(C, u, F, "init"), u, F, "recovery"), u, F, "normal")
  BY ReplayIs
<1>6. M = ReplayFile(ReplayFile(ReplayFile(E, u, G, "init"), u, G, "recovery"), u, G, "normal")
  BY <1>1, <1>3, ReplayIs
<1> HIDE DEF G, M, N
<1>7. \A D, h : h \notin DOMAIN F => ReplayFile(D, u, F, h) = D
  BY DEF ReplayFile
<1>8. \A D, h : h \notin DOMAIN G => ReplayFile(D, u, G, h) = D
  BY DEF ReplayFile
<1>9. \A D, h : h # f => ReplayFile(D, u, F, h) = ReplayFile(D, u, G, h)
  BY <1>1, ReplayFileSame
<1>10. ASSUME f = "init"
      PROVE  N = M
  <2>1. ReplayFile(E, u, G, "init") = E
    BY <1>1, <1>8, <1>10
  <2>2. N = ReplayFile(ReplayFile(E, u, F, "recovery"), u, F, "normal")
    BY <1>4, <1>5, <1>10
  <2>3. M = ReplayFile(ReplayFile(E, u, G, "recovery"), u, G, "normal")
    BY <1>6, <2>1
  <2>4. ReplayFile(E, u, F, "recovery") = ReplayFile(E, u, G, "recovery")
    BY <1>9, <1>10
  <2>5. \A D : ReplayFile(D, u, F, "normal") = ReplayFile(D, u, G, "normal")
    BY <1>9, <1>10
  <2> QED BY <2>2, <2>3, <2>4, <2>5
<1>11. ASSUME f = "recovery"
      PROVE  N = M
  <2>1. ReplayFile(E, u, G, "init") = E /\ ReplayFile(E, u, G, "recovery") = E
    BY <1>1, <1>8, <1>11
  <2>2. ReplayFile(C, u, F, "init") = C
    BY <1>7, <1>11
  <2>3. N = ReplayFile(E, u, F, "normal")
    BY <1>4, <1>5, <1>11, <2>2
  <2>4. M = ReplayFile(E, u, G, "normal")
    BY <1>6, <2>1
  <2>5. ReplayFile(E, u, F, "normal") = ReplayFile(E, u, G, "normal")
    BY <1>9, <1>11
  <2> QED BY <2>3, <2>4, <2>5
<1>12. ASSUME f = "normal"
      PROVE  N = M
  <2>1. /\ ReplayFile(E, u, G, "init") = E /\ ReplayFile(E, u, G, "recovery") = E
        /\ ReplayFile(E, u, G, "normal") = E
    BY <1>1, <1>8, <1>12
  <2>2. ReplayFile(C, u, F, "init") = C /\ ReplayFile(C, u, F, "recovery") = C
    BY <1>7, <1>12
  <2>3. N = E
    BY <1>4, <1>5, <1>12, <2>2
  <2>4. M = E
    BY <1>6, <2>1
  <2> QED BY <2>3, <2>4
<1>13. N = M
  BY <1>2, <1>10, <1>11, <1>12 DEF File
<1> QED BY <1>13 DEF N, M, E, G

\* A device in the middle of a file has executed the records before those that
\* are left.
TxAt(u, d, F) ==
  d.open => \E p : /\ IsRecords(p) /\ F[d.pc] = p \o d.tx.todo
                   /\ Performed(Committed(d), u, p) = Work(d)

\* The first record of the rest goes to the end of the beginning.
LEMMA AppendRecord ==
  ASSUME NEW p, IsRecords(p), NEW q, IsRecords(q), q # <<>>
  PROVE  /\ IsRecords(Append(p, Head(q))) /\ IsRecords(Tail(q))
         /\ p \o q = Append(p, Head(q)) \o Tail(q)
<1> DEFINE r == Head(q)
           t == Tail(q)
           o == Append(p, r)
<1>1. IsRecords(t) /\ r.cnt \in Nat /\ IsCommand(r.cmd) /\ q = <<r>> \o t
  BY RecordsTail
<1> HIDE DEF r, t
<1>2. IsSeq(p) /\ IsSeq(t)
  BY <1>1 DEF IsRecords
<1>3. IsSeq(o) /\ o = p \o <<r>> /\ Len(o) = Len(p) + 1 /\ o[Len(p) + 1] = r
      /\ \A i \in 1..Len(p) : o[i] = p[i]
  BY <1>2, AppendSeq
<1>4. IsSeq(<<r>>)
  BY NoneAndOneSeq
<1>5. (p \o <<r>>) \o t = p \o (<<r>> \o t)
  BY <1>2, <1>4, ConcatAssoc
<1> HIDE DEF o
<1>6. IsRecords(o)
  <2>1. Len(p) \in Nat
    BY <1>2, SeqFacts
  <2>2. \A i \in 1..Len(o) : i \in 1..Len(p) \/ i = Len(p) + 1
    BY <1>3, <2>1
  <2> QED BY <1>1, <1>3, <2>2 DEF IsRecords
<1> QED BY <1>1, <1>3, <1>5, <1>6 DEF r, t, o

\* A record is executed.
LEMMA TxExecuting ==
  ASSUME NEW u, NEW d, IsDevice(d), NEW F, NEW D, NEW G,
         d.open => IsRecords(F[d.pc]), TxAt(u, d, F), Executing(u, d, F, D, G)
  PROVE  /\ TxAt(u, D, G)
         /\ Performed(Committed(D), u, F[d.pc]) = Performed(Committed(d), u, F[d.pc])
<1> DEFINE C == Committed(d)
           e == Apply(Work(d), u, Head(d.tx.todo))
           q == d.tx.todo
<1>1. PICK p : IsRecords(p) /\ F[d.pc] = p \o q /\ Performed(C, u, p) = Work(d)
  BY DEF TxAt, Executing
<1>2. /\ d.open /\ q # <<>> /\ e.ok /\ D.db = d.db /\ D.cnt = d.cnt /\ D.updkeys = d.updkeys
      /\ D.pc = d.pc /\ D.open = d.open /\ D.flash = e.flash
      /\ D.tx = [db |-> e.db, cnt |-> e.cnt, todo |-> Tail(q)] /\ G = F
  BY DEF Executing, Same
<1>3. IsRecords(q)
  BY DEF IsDevice
<1>4. /\ IsWork(C) /\ C.db = d.db /\ C.cnt = d.cnt /\ C.flash = d.flash
      /\ C.updkeys = d.updkeys /\ C.ok = TRUE /\ IsWork(Work(d)) /\ Work(d).updkeys = d.updkeys
  BY WorkFacts
<1> HIDE DEF C
<1> DEFINE o == Append(p, Head(q))
           t == Tail(q)
<1>5. IsRecords(o) /\ IsRecords(t) /\ p \o q = o \o t
  BY <1>1, <1>2, <1>3, AppendRecord
<1>6. Performed(C, u, o) = e
  <2>1. IsSeq(p)
    BY <1>1 DEF IsRecords
  <2> QED BY <1>1, <2>1, PerformedAppend
<1>7. IsWork(e) /\ e.updkeys = d.updkeys
  <2>1. Head(q).cnt \in Nat /\ IsCommand(Head(q).cmd)
    BY <1>2, <1>3, RecordsTail
  <2> QED BY <1>4, <2>1, ApplyShape
<1> HIDE DEF e, o, t
<1>8. Committed(D) = At(C, C.cnt, e.flash)
  BY <1>2, <1>4 DEF Committed, At
<1>9. Performed(Committed(D), u, o) = e
  BY <1>4, <1>5, <1>6, <1>8, FlashAgainWhole
<1>10. Performed(Committed(D), u, o \o t) = Performed(C, u, o \o t)
  BY <1>4, <1>5, <1>6, <1>8, FlashAgain
<1>11. Work(D) = e
  <2>1. e = [db |-> e.db, cnt |-> e.cnt, flash |-> e.flash, updkeys |-> e.updkeys, ok |-> e.ok] /\ e.ok = TRUE
    BY <1>2, <1>7 DEF IsWork
  <2> QED BY <1>2, <1>7, <2>1 DEF Work
<1>12. D.tx.todo = t /\ G[D.pc] = o \o t
  BY <1>1, <1>2, <1>5 DEF t
<1>13. TxAt(u, D, G)
  BY <1>5, <1>9, <1>11, <1>12 DEF TxAt
<1> QED BY <1>1, <1>5, <1>10, <1>13 DEF C

\* A file is opened.
LEMMA TxOpened ==
  ASSUME NEW u, NEW d, NEW F, NEW D, NEW G, IsRecords(F[d.pc]), Opened(d, F, D, G)
  PROVE  TxAt(u, D, G)
<1> DEFINE q == F[d.pc]
<1>1. /\ D.db = d.db /\ D.cnt = d.cnt /\ D.updkeys = d.updkeys /\ D.flash = d.flash /\ D.pc = d.pc
      /\ D.tx = [db |-> d.db, cnt |-> d.cnt, todo |-> q] /\ G = F
  BY DEF Opened, Same
<1>2. IsSeq(q) /\ IsRecords(<<>>)
  BY NoneAndOneSeq DEF IsRecords
<1>3. q = <<>> \o q
  <2>1. PICK S : q \in Seq(S)
    BY <1>2 DEF IsSeq
  <2> QED BY <2>1
<1>4. Performed(Committed(D), u, <<>>) = Committed(D)
  BY PerformedNone
<1>5. Committed(D) = Work(D)
  BY <1>1 DEF Committed, Work
<1>6. D.tx.todo = q /\ G[D.pc] = q
  BY <1>1
<1> HIDE DEF q
<1> QED BY <1>2, <1>3, <1>4, <1>5, <1>6 DEF TxAt

\* All records of a file are executed, and the transaction is committed.
LEMMA DoneCommitted ==
  ASSUME NEW u, NEW d, IsDevice(d), NEW F, IsRecords(F[d.pc]), TxAt(u, d, F), d.open, d.tx.todo = <<>>
  PROVE  Committed(Done(d, u)) = Executed(Committed(d), u, F[d.pc])
<1> DEFINE C == Committed(d)
           q == F[d.pc]
           E == Executed(C, u, q)
           P == Performed(C, u, q)
           e == Done(d, u)
<1>1. PICK p : IsRecords(p) /\ q = p \o <<>> /\ Performed(C, u, p) = Work(d)
  BY DEF TxAt
<1>2. p = q
  <2>1. IsSeq(p)
    BY <1>1 DEF IsRecords
  <2>2. PICK S : p \in Seq(S)
    BY <2>1 DEF IsSeq
  <2> QED BY <1>1, <2>2
<1>3. P = Work(d)
  BY <1>1, <1>2
<1>4. IsWork(C)
  BY WorkFacts
<1>5. Ended(E, C, P, u)
  BY <1>4, ExecutedFacts
<1>6. /\ e.db = d.tx.db /\ e.cnt = IF u \in DOMAIN d.tx.db.users THEN d.tx.cnt ELSE 0
      /\ e.flash = d.flash /\ e.updkeys = d.updkeys
  <2>1. d = [z \in DeviceField |-> d[z]]
    BY DEF IsDevice
  <2> QED BY <2>1, DoneFacts
<1>7. C.updkeys = d.updkeys
  BY WorkFacts
<1>8. /\ P.db = d.tx.db /\ P.cnt = d.tx.cnt /\ P.flash = d.flash /\ P.ok = TRUE
  BY <1>3, WorkFacts, ZenonT(30)
<1> HIDE DEF C, E, P, e, q
<1>9. E = [db |-> E.db, cnt |-> E.cnt, flash |-> E.flash, updkeys |-> E.updkeys, ok |-> E.ok]
  BY <1>5 DEF Ended, IsWork
<1>10. /\ E.db = P.db /\ E.flash = P.flash /\ E.updkeys = C.updkeys /\ E.ok = P.ok
       /\ u \in DOMAIN P.db.users => E = P
       /\ u \notin DOMAIN P.db.users => E.cnt = 0
  BY <1>5 DEF Ended
<1>11. E.cnt = e.cnt
  BY <1>6, <1>8, <1>10
<1>12. Committed(e) = E
  BY <1>6, <1>7, <1>8, <1>9, <1>10, <1>11 DEF Committed
<1> QED BY <1>12 DEF e, E, C, q

\* The normal file is not executed twice.
LEMMA NotAgain ==
  ASSUME NEW C, IsWork(C), C.updkeys, C.ok, NEW u, NEW F, IsFiles(F), DOMAIN F = {"normal"},
         NEW n \in Nat, Rising(F["normal"], n), NEW A, NEW m,
         Current(Executed(C, u, F["normal"]), A, u, m)
  PROVE  LET E == Cleaned(Executed(C, u, F["normal"]), u)
         IN  Current(ReplayFiles(E, u, F), A, u, m)
<1> DEFINE q == F["normal"]
           P == Performed(C, u, q)
           R == Executed(C, u, q)
           E == Cleaned(R, u)
<1>1. IsRecords(q)
  BY DEF IsFiles
<1>2. Ended(R, C, P, u)
  BY <1>1, ExecutedFacts
<1>3. \A i \in 1..Len(q) : q[i].cnt # 0
  BY DEF Rising
<1>4. P.ok => \A i \in 1..Len(q) : q[i].cnt <= P.cnt
  <2> HIDE DEF q
  <2> QED BY <1>1, <1>3, PerformedCount
<1>5. Current(E, A, u, m)
  BY CleanedTold
<1>6. E.cnt = R.cnt
  BY DEF Cleaned
<1> HIDE DEF P, E, q
<1>7. R = P /\ R.ok
  <2>1. R.ok /\ u \in DOMAIN R.db.users
    BY DEF Current, q
  <2> HIDE DEF R
  <2> QED BY <1>2, <2>1 DEF Ended
<1> HIDE DEF R
<1>8. \A i \in 1..Len(q) : q[i].cnt # 0 /\ q[i].cnt <= E.cnt
  BY <1>3, <1>4, <1>6, <1>7
<1>9. IsWork(E) /\ E.ok /\ E.updkeys /\ u \in DOMAIN E.db.users
  BY <1>5 DEF Current
<1>10. Performed(E, u, q) = E
  BY <1>1, <1>8, <1>9, SkipAll
<1>11. Executed(E, u, q) = E
  <2>1. Ended(Executed(E, u, q), E, Performed(E, u, q), u)
    BY <1>1, <1>9, ExecutedFacts
  <2> QED BY <1>9, <1>10, <2>1 DEF Ended
<1>12. ReplayFiles(E, u, F) = ReplayFiles(Executed(E, u, F["normal"]), u, WithoutFile(F, "normal"))
  BY <1>9, ReplayFirst
<1>13. ReplayFiles(E, u, WithoutFile(F, "normal")) = E
  <2>1. IsFiles(WithoutFile(F, "normal")) /\ DOMAIN WithoutFile(F, "normal") = {}
    <3> DEFINE G == WithoutFile(F, "normal")
    <3>1. IsFiles(G) /\ DOMAIN G = DOMAIN F \ {"normal"}
      BY ONLY IsFiles(F), WithoutFileFacts
    <3> HIDE DEF G
    <3>2. IsFiles(G) /\ DOMAIN G = {}
      BY <3>1
    <3> QED BY <3>2 DEF G
  <2> QED BY <1>9, <2>1, ReplayShape
<1>14. ReplayFiles(E, u, F) = E
  BY <1>11, <1>12, <1>13 DEF q
<1>15. Current(ReplayFiles(E, u, F), A, u, m)
  BY <1>5, <1>14
<1> QED BY <1>15 DEF E, R, q

\* A file that could not be deleted, executed again.
LEMMA OnceMore ==
  ASSUME NEW C, IsWork(C), C.updkeys, C.ok, NEW u, NEW F, IsFiles(F), NEW f \in DOMAIN F,
         f = "recovery" => "init" \notin DOMAIN F /\ ClearFirst(F[f]),
         f = "init" => InitLike(u, F[f]), f # "normal",
         Executed(C, u, F[f]).ok
  PROVE  ReplayFiles(Executed(C, u, F[f]), u, F) = ReplayFiles(C, u, F)
<1> DEFINE q == F[f]
           E == Executed(C, u, q)
           G == WithoutFile(F, f)
<1>1. IsRecords(q) /\ f \in {"init", "recovery"}
  BY DEF IsFiles, File
<1>2. Forgetful(q, u)
  BY <1>1, ClearForgets, InitForgets
<1>3. Executed(E, u, q) = E
  BY <1>1, <1>2, ExecutedAgain
<1>4. IsWork(E) /\ E.updkeys /\ E.ok
  BY <1>1, ExecutedFacts DEF Ended
<1>5. ReplayFiles(C, u, F) = ReplayFiles(E, u, G)
  BY <1>1, ReplayFirst
<1> HIDE DEF E
<1>6. ReplayFiles(E, u, F) = ReplayFiles(Executed(E, u, q), u, G)
  BY <1>1, <1>4, ReplayFirst
<1> HIDE DEF G
<1>7. ReplayFiles(E, u, F) = ReplayFiles(C, u, F)
  BY <1>3, <1>5, <1>6
<1> QED BY <1>7 DEF E

\* A transaction is what a beginning of its file makes of the committed tables.
LEMMA DeviceStepTx ==
  ASSUME NEW u, NEW d, NEW F, NEW D, NEW G, IsDevice(d), IsFiles(F), FlowAt(d, F), TxAt(u, d, F),
         DeviceStep(u, d, F, D, G)
  PROVE  TxAt(u, D, G)
<1>0. /\ Lasting(d) /\ Lasting(Done(d, u)) /\ Done(d, u).pc = d.pc
      /\ d = [z \in DeviceField |-> d[z]] /\ Done(d, u) = [z \in DeviceField |-> Done(d, u)[z]]
  BY DoneLasts DEF Lasting
<1>1. ASSUME NEW e, e = [z \in DeviceField |-> e[z]], e.pc \in File, D = Following(e, u)
      PROVE  TxAt(u, D, G)
  <2>1. Following(e, u).open = FALSE
    BY ONLY <1>1, FollowingFacts, ZenonT(60)
  <2> QED BY <1>1, <2>1 DEF TxAt
<1>2. ASSUME NEW e, e = [z \in DeviceField |-> e[z]], D = Stopped(e) \/ D = Finished(e, u)
      PROVE  TxAt(u, D, G)
  <2>1. Stopped(e).open = FALSE
    BY ONLY <1>2, StoppedFacts
  <2>2. Finished(e, u).open = FALSE
    BY ONLY <1>2, FinishedFacts, ZenonT(60)
  <2> QED BY <1>2, <2>1, <2>2 DEF TxAt
<1>3. CASE Started(d, F, D, G)
  BY <1>3 DEF Started, TxAt, FlowAt
<1>4. CASE Skipped(u, d, F, D, G)
  BY <1>0, <1>1, <1>4 DEF Skipped
<1>5. CASE Opened(d, F, D, G)
  <2>1. IsRecords(F[d.pc])
    BY <1>5 DEF Opened, IsFiles
  <2> QED BY <1>5, <2>1, TxOpened
<1>6. CASE Halted(d, F, D, G)
  BY <1>0, <1>2, <1>6 DEF Halted
<1>7. d.open => IsRecords(F[d.pc]) /\ d.pc \in File
  BY DEF IsFiles, FlowAt
<1>8. CASE Executing(u, d, F, D, G)
  BY <1>7, <1>8, TxExecuting
<1>9. CASE Closed(u, d, F, D, G)
  BY <1>0, <1>1, <1>2, <1>7, <1>9 DEF Closed
<1> QED BY <1>3, <1>4, <1>5, <1>6, <1>8, <1>9 DEF DeviceStep

\* A device that stops, or goes on to the next file, keeps what it has
\* committed.
LEMMA BackCommitted ==
  ASSUME NEW d, d = [z \in DeviceField |-> d[z]], NEW u
  PROVE  /\ Committed(Stopped(d)) = Committed(d)
         /\ d.pc \in File => Committed(Following(d, u)) =
              IF d.pc = "normal" THEN Cleaned(Committed(d), u) ELSE Committed(d)
<1>1. Committed(Stopped(d)) = Committed(d)
  <2> DEFINE e == Stopped(d)
  <2>1. e.db = d.db /\ e.cnt = d.cnt /\ e.flash = d.flash /\ e.updkeys = d.updkeys
    BY StoppedFacts
  <2> HIDE DEF e
  <2>2. Committed(e) = Committed(d)
    BY <2>1 DEF Committed
  <2> QED BY <2>2 DEF e
<1>2. ASSUME d.pc \in File
      PROVE  Committed(Following(d, u)) =
               IF d.pc = "normal" THEN Cleaned(Committed(d), u) ELSE Committed(d)
  <2> DEFINE e == Following(d, u)
  <2>1. /\ e.db = d.db /\ e.cnt = d.cnt
        /\ d.pc = "normal" => e = Finished(d, u)
        /\ d.pc # "normal" => e.flash = d.flash /\ e.updkeys = d.updkeys
    BY <1>2, FollowingFacts, ZenonT(60)
  <2> HIDE DEF e
  <2>2. CASE d.pc = "normal"
    <3>1. Committed(e) = Cleaned(Committed(d), u)
      BY <2>1, <2>2, FinishedCommitted
    <3> QED BY <2>2, <3>1 DEF e
  <2>3. CASE d.pc # "normal"
    <3>1. Committed(e) = Committed(d)
      BY <2>1, <2>3 DEF Committed
    <3> QED BY <2>3, <3>1 DEF e
  <2> QED BY <2>2, <2>3
<1> QED BY <1>1, <1>2

\* What a step of a device changes of what is committed, and of the files.
Outcome(u, d, F, D, G) ==
  \/ Committed(D) = Committed(d) /\ G = F
  \/ /\ Committed(D) = Cleaned(Committed(d), u) /\ G = F
     /\ d.pc = "normal" /\ d.pc \notin DOMAIN F
  \/ Executing(u, d, F, D, G)
  \/ /\ d.open /\ d.tx.todo = <<>>
     /\ Committed(D) = IF d.pc = "normal" THEN Cleaned(Committed(Done(d, u)), u)
                                          ELSE Committed(Done(d, u))
     /\ G = F \/ G = WithoutFile(F, d.pc)

\* What a step of a device is to what it has committed and to its files.
LEMMA DeviceOutcome ==
  ASSUME NEW u, NEW d, NEW F, NEW D, NEW G, IsDevice(d), IsFiles(F), FlowAt(d, F),
         DeviceStep(u, d, F, D, G)
  PROVE  Outcome(u, d, F, D, G)
<1> DEFINE e == Done(d, u)
<1>0. e.pc = d.pc /\ d = [z \in DeviceField |-> d[z]] /\ e = [z \in DeviceField |-> e[z]]
  BY DoneLasts DEF Lasting
<1>1. CASE Started(d, F, D, G)
  BY <1>1 DEF Started, Same, Committed, Outcome
<1>2. CASE Skipped(u, d, F, D, G)
  <2>1. d.pc \in File /\ D = Following(d, u) /\ G = F /\ d.pc \notin DOMAIN F
    BY <1>2 DEF Skipped
  <2>2. Committed(D) = IF d.pc = "normal" THEN Cleaned(Committed(d), u) ELSE Committed(d)
    BY <1>0, <2>1, BackCommitted
  <2> QED BY <2>1, <2>2 DEF Outcome
<1>3. CASE Opened(d, F, D, G)
  BY <1>3 DEF Opened, Same, Committed, Outcome
<1>4. CASE Halted(d, F, D, G)
  BY <1>0, <1>4, BackCommitted DEF Halted, Outcome
<1>5. CASE Executing(u, d, F, D, G)
  BY <1>5 DEF Outcome
<1>6. CASE Closed(u, d, F, D, G)
  <2>1. d.open /\ d.tx.todo = <<>> /\ d.pc \in File
    BY <1>6 DEF Closed, FlowAt, IsFiles
  <2>2. /\ Committed(Stopped(e)) = Committed(e)
        /\ Committed(Following(e, u)) = IF d.pc = "normal" THEN Cleaned(Committed(e), u) ELSE Committed(e)
    BY <1>0, <2>1, BackCommitted
  <2>3. Committed(Finished(e, u)) = Cleaned(Committed(e), u)
    BY <1>0, FinishedCommitted
  <2>4. CASE G = WithoutFile(F, d.pc) /\ D = Following(e, u)
    BY <2>1, <2>2, <2>4 DEF Outcome
  <2>5. CASE G = F /\ D = IF d.pc = "normal" THEN Finished(e, u) ELSE Stopped(e)
    BY <2>1, <2>2, <2>3, <2>5 DEF Outcome
  <2> QED BY <1>6, <2>4, <2>5 DEF Closed
<1> QED BY <1>1, <1>2, <1>3, <1>4, <1>5, <1>6 DEF DeviceStep

\* A device that has lost its update keys does not get them back.
LEMMA OutcomeKeys ==
  ASSUME NEW u, NEW d, NEW F, NEW D, NEW G, IsDevice(d), Outcome(u, d, F, D, G), D.updkeys
  PROVE  d.updkeys
<1> DEFINE e == Done(d, u)
<1>1. e.updkeys = d.updkeys
  <2>1. d = [z \in DeviceField |-> d[z]]
    BY DEF IsDevice
  <2> QED BY <2>1, DoneFacts
<1>2. \A x : Committed(x).updkeys = x.updkeys
  BY DEF Committed
<1>3. \A E : Cleaned(E, u).updkeys = (E.updkeys /\ u \in DOMAIN E.db.users)
  BY DEF Cleaned
<1> HIDE DEF e
<1>4. CASE Committed(D) = Committed(d)
  BY <1>2, <1>4
<1>5. CASE Committed(D) = Cleaned(Committed(d), u)
  BY <1>2, <1>3, <1>5
<1>6. CASE Executing(u, d, F, D, G)
  BY <1>6 DEF Executing, Same
<1>7. CASE Committed(D) = Cleaned(Committed(e), u)
  BY <1>1, <1>2, <1>3, <1>7
<1>8. CASE Committed(D) = Committed(e)
  BY <1>1, <1>2, <1>8
<1> QED BY <1>4, <1>5, <1>6, <1>7, <1>8 DEF Outcome, e

\* A device that does a step of its call still ends up where it would have.
LEMMA OutcomeTold ==
  ASSUME NEW u, NEW d, NEW F, NEW D, NEW G, IsDevice(d), IsFiles(F), FlowAt(d, F), TxAt(u, d, F),
         "init" \in DOMAIN F => InitLike(u, F["init"]), NEW n \in Nat, Ordered(d, F, n),
         Outcome(u, d, F, D, G), d.updkeys, NEW A, NEW m,
         Current(ReplayFiles(Committed(d), u, F), A, u, m)
  PROVE  Current(ReplayFiles(Committed(D), u, G), A, u, m)
<1> DEFINE C == Committed(d)
           f == d.pc
           e == Done(d, u)
<1>1. IsWork(C) /\ C.updkeys /\ C.ok
  BY WorkFacts
<1>2. \A E : IsWork(E) /\ E.updkeys /\ DOMAIN F = {} => ReplayFiles(E, u, F) = E
  BY ReplayShape
<1>3. DOMAIN F \subseteq File
  BY DEF IsFiles
<1>4. CASE Committed(D) = C /\ G = F
  BY <1>4
<1>5. CASE Committed(D) = Cleaned(C, u) /\ G = F /\ f = "normal" /\ f \notin DOMAIN F
  <2>1. DOMAIN F = {}
    BY <1>3, <1>5 DEF FlowAt, File
  <2> HIDE DEF C
  <2>2. ReplayFiles(C, u, F) = C
    BY <1>1, <1>2, <2>1
  <2>3. Current(C, A, u, m)
    BY <2>2 DEF C
  <2>4. Current(Cleaned(C, u), A, u, m)
    BY <2>3, CleanedTold
  <2>5. ReplayFiles(Cleaned(C, u), u, F) = Cleaned(C, u)
    BY <1>2, <2>1, <2>4 DEF Current
  <2> QED BY <1>5, <2>4, <2>5
<1>6. ASSUME d.open
      PROVE  /\ f \in DOMAIN F /\ f \in File /\ IsRecords(F[f])
             /\ f \in {"recovery", "normal"} => "init" \notin DOMAIN F
             /\ f = "normal" => "recovery" \notin DOMAIN F
             /\ ReplayFiles(C, u, F) = ReplayFiles(Executed(C, u, F[f]), u, WithoutFile(F, f))
  <2>1. f \in DOMAIN F
    BY <1>6 DEF FlowAt
  <2>2. f \in File /\ IsRecords(F[f])
    BY <2>1 DEF IsFiles
  <2>3. f \in {"recovery", "normal"} => "init" \notin DOMAIN F
    BY DEF FlowAt
  <2>4. f = "normal" => "recovery" \notin DOMAIN F
    BY DEF FlowAt
  <2> HIDE DEF C, f
  <2>5. ReplayFiles(C, u, F) = ReplayFiles(Executed(C, u, F[f]), u, WithoutFile(F, f))
    BY <1>1, <2>1, <2>3, <2>4, ReplayFirst
  <2> QED BY <2>1, <2>2, <2>3, <2>4, <2>5
<1>7. CASE Executing(u, d, F, D, G)
  <2> DEFINE B == Committed(D)
             q == F[f]
  <2>1. d.open /\ G = F /\ D.updkeys = d.updkeys
    BY <1>7 DEF Executing, Same
  <2>2. f \in DOMAIN F /\ IsRecords(q) /\ f \in {"recovery", "normal"} => "init" \notin DOMAIN F
    BY <1>6, <2>1
  <2>3. Performed(B, u, q) = Performed(C, u, q)
    BY <1>6, <1>7, <2>1, TxExecuting
  <2>4. IsWork(B) /\ B.updkeys /\ B.ok
    <3>1. IsDevice(D)
      BY <1>7, DeviceStepShape DEF DeviceStep
    <3> QED BY <2>1, <3>1, WorkFacts
  <2> HIDE DEF B, C, f, q
  <2>5. Executed(B, u, q) = Executed(C, u, q)
    BY <2>3 DEF Executed
  <2>6. ReplayFiles(B, u, F) = ReplayFiles(Executed(B, u, q), u, WithoutFile(F, f))
    BY <1>6, <2>1, <2>4, ReplayFirst DEF q
  <2>7. ReplayFiles(B, u, F) = ReplayFiles(C, u, F)
    BY <1>6, <2>1, <2>5, <2>6 DEF q
  <2> QED BY <2>1, <2>7 DEF B, C
<1>8. CASE /\ d.open /\ d.tx.todo = <<>>
           /\ Committed(D) = IF f = "normal" THEN Cleaned(Committed(e), u) ELSE Committed(e)
           /\ G = F \/ G = WithoutFile(F, f)
  <2> DEFINE R == Committed(e)
             q == F[f]
             H == WithoutFile(F, f)
  <2>1. R = Executed(C, u, q)
    BY <1>6, <1>8, DoneCommitted
  <2> HIDE DEF R, C
  <2>2. IsWork(R) /\ R.updkeys
    BY <1>1, <1>6, <1>8, <2>1, ExecutedFacts DEF Ended
  <2>3. R.ok
    BY DEF R, Committed
  <2>4. IsFiles(H) /\ DOMAIN H = DOMAIN F \ {f}
    BY WithoutFileFacts
  <2>5. Current(ReplayFiles(R, u, H), A, u, m)
    BY <1>6, <1>8, <2>1 DEF C
  <2> HIDE DEF H
  <2>6. CASE f = "normal"
    <3>1. DOMAIN F = {"normal"}
      BY <1>3, <1>6, <1>8, <2>6 DEF File
    <3>2. DOMAIN H = {}
      BY <2>4, <2>6, <3>1
    <3>3. ReplayFiles(R, u, H) = R
      BY <2>2, <2>4, <3>2, ReplayShape
    <3>4. Current(R, A, u, m)
      BY <2>5, <3>3
    <3>5. Current(Cleaned(R, u), A, u, m)
      BY <3>4, CleanedTold
    <3> DEFINE K == Cleaned(R, u)
    <3>6. ReplayFiles(K, u, H) = K
      <4>1. IsWork(K) /\ K.updkeys
        BY <3>5 DEF Current
      <4> HIDE DEF K
      <4> QED BY <2>4, <3>2, <4>1, ReplayShape
    <3>7. Current(ReplayFiles(K, u, F), A, u, m)
      <4>1. Rising(F["normal"], n)
        BY <3>1 DEF Ordered, NormalOf
      <4>2. R = Executed(C, u, F["normal"])
        BY <2>1, <2>6
      <4> QED BY <1>1, <3>1, <3>4, <4>1, <4>2, NotAgain
    <3>8. Committed(D) = K
      BY <1>8, <2>6 DEF R
    <3> HIDE DEF K
    <3> QED BY <1>8, <3>5, <3>6, <3>7, <3>8 DEF H, K
  <2>7. CASE f # "normal"
    <3>1. Committed(D) = R
      BY <1>8, <2>7 DEF R
    <3>2. ReplayFiles(R, u, F) = ReplayFiles(C, u, F)
      <4>1. f = "recovery" => "init" \notin DOMAIN F /\ ClearFirst(F[f])
        BY <1>6, <1>8 DEF Ordered
      <4>2. f = "init" => InitLike(u, F[f])
        BY <1>6, <1>8
      <4>3. f \in DOMAIN F
        BY <1>6, <1>8
      <4> HIDE DEF f
      <4> QED BY <1>1, <2>1, <2>3, <2>7, <4>1, <4>2, <4>3, OnceMore
    <3>3. Current(ReplayFiles(R, u, F), A, u, m)
      BY <3>2 DEF C
    <3> QED BY <1>8, <2>5, <3>1, <3>3 DEF H
  <2> QED BY <2>6, <2>7
<1> QED BY <1>4, <1>5, <1>7, <1>8 DEF Outcome

\* A step of a device leaves it in sync.
LEMMA DeviceStepSync ==
  ASSUME NEW A, Tidy(A), NEW u, u \in DOMAIN A.users, NEW d, NEW F, NEW D, NEW G,
         IsDevice(d), IsFiles(F), FlowAt(d, F), TxAt(u, d, F),
         "init" \in DOMAIN F => InitLike(u, F["init"]), NEW n \in Nat, Ordered(d, F, n),
         SyncAt(A, <<>>, d, F, u, n), DeviceStep(u, d, F, D, G)
  PROVE  SyncAt(A, <<>>, D, G, u, n)
<1>1. IsDevice(D) /\ IsFiles(G) /\ D.ready = d.ready
  BY DeviceStepShape
<1>2. d.ready
  <2>1. d.pc \in File \/ d.ready
    BY DEF DeviceStep, Started, Skipped, Opened, Halted, Executing, Closed, FlowAt, IsFiles
  <2> QED BY <2>1, BlankDevice DEF FlowAt, File
<1>3. Outcome(u, d, F, D, G)
  BY DeviceOutcome
<1>4. ASSUME D.updkeys
      PROVE  Current(ReplayFiles(Committed(D), u, G), A, u, n)
  <2>1. d.updkeys
    BY <1>3, <1>4, OutcomeKeys
  <2>2. Current(ReplayFiles(Committed(d), u, F), A, u, n)
    BY <1>2, <2>1, SyncNow
  <2> QED BY <1>3, <2>1, <2>2, OutcomeTold
<1> QED BY <1>1, <1>2, <1>4, SyncReady

\* The users whose loss is not on record, or will not be once the records that
\* are still to be written are.
Watched(u) ==
  /\ Present(u) /\ u \notin forgotten
  /\ u \in recovery => \E i \in 1..Len(sends) : sends[i].to = u

Sync == \A u \in User : Watched(u) => SyncAt(adm, sends, dev[u], file[u], u, update_counter[u])

\* Whoever is still to be told is in the Recovery table.
Sending ==
  /\ \A i \in 1..Len(sends) : sends[i].to \in recovery
  /\ Orderly(sends, DOMAIN adm.users)

\* A user that may be added has a counter of 0.
Unused ==
  \A u \in User : ~Present(u) /\ ~dev[u].ready /\ u \notin recovery \cup forgotten /\ file[u] = NoFiles
                    => update_counter[u] = 0

TxOK == \A u \in User : TxAt(u, dev[u], file[u])

WholeDev ==
  \A u \in User :
    /\ Reached(u) /\ Watched(u) /\ ~dev[u].blocked
    /\ "init" \notin DOMAIN file[u] /\ "recovery" \notin DOMAIN file[u]
    => Whole(dev[u].db, dev[u].flash)

SyncInv == Sync /\ Sending /\ Unused /\ TxOK /\ WholeDev

\* At first everybody is in sync.
LEMMA SyncInit ==
  Init => SyncInv
<1> SUFFICES ASSUME Init PROVE SyncInv
  OBVIOUS
<1>1. PICK s \in Starts : /\ adm = StartTables(s)
                          /\ dev = [u \in User |-> IF u \in s.users THEN UpToDate(u) ELSE Blank]
  BY DEF Init
<1>2. /\ update_counter = [u \in User |-> 0] /\ recovery = {} /\ sends = <<>>
      /\ file = [u \in User |-> NoFiles] /\ forgotten = {}
  BY DEF Init
<1>3. Tidy(adm) /\ DOMAIN adm.users = s.users
  BY <1>1, StartTidy
<1>4. \A u \in User : Present(u) => dev[u] = UpToDate(u)
  BY <1>1, <1>3 DEF Present
<1>5. \A u \in User : ~Present(u) => dev[u] = Blank
  BY <1>1, <1>3 DEF Present
<1>6. \A u \in User : file[u] = NoFiles /\ update_counter[u] = 0
  BY <1>2
<1>7. Sync
  <2>1. ASSUME NEW u \in User, Watched(u)
        PROVE  SyncAt(adm, sends, dev[u], file[u], u, update_counter[u])
    <3>1. u \in DOMAIN adm.users
      BY <2>1 DEF Watched, Present
    <3>2. SyncAt(adm, <<>>, UpToDate(u), NoFiles, u, 0)
      BY <1>3, <3>1, SyncStart
    <3>3. dev[u] = UpToDate(u)
      BY <1>4, <2>1 DEF Watched
    <3> QED BY <1>2, <1>6, <3>2, <3>3
  <2> QED BY <2>1 DEF Sync
<1>8. Sending
  BY <1>2, NoQueue DEF Sending
<1>9. Unused
  BY <1>6 DEF Unused
<1>10. TxOK
  <2>1. \A u : UpToDate(u).open = FALSE
    BY UpToDateDevice DEF IsDevice
  <2>2. Blank.open = FALSE
    BY BlankDevice DEF IsDevice
  <2> QED BY <1>4, <1>5, <2>1, <2>2 DEF TxOK, TxAt
<1>11. WholeDev
  <2>1. ASSUME NEW u \in User, Reached(u)
        PROVE  Whole(dev[u].db, dev[u].flash)
    <3> DEFINE V == View(adm, u)
    <3>1. Tidy(V)
      BY <1>3, ViewTidy
    <3>2. UpToDate(u).db = V /\ UpToDate(u).flash = DOMAIN V.keys
      BY UpToDateDevice
    <3> HIDE DEF V
    <3>3. Needed(V) \subseteq DOMAIN V.keys
      BY DEF Needed
    <3>4. Whole(V, DOMAIN V.keys)
      BY <3>1, <3>3, TidyWhole
    <3>5. dev[u] = UpToDate(u)
      BY <1>4, <2>1 DEF Reached
    <3> QED BY <3>2, <3>4, <3>5
  <2> QED BY <2>1 DEF WholeDev
<1> QED BY <1>7, <1>8, <1>9, <1>10, <1>11 DEF SyncInv

\* A device that is idle is in no file.
LEMMA IdleTx ==
  ASSUME \A u \in User : dev'[u].open = FALSE
  PROVE  TxOK'
BY DEF TxOK, TxAt

\* While the administrator works, no device does.
LEMMA NothingOpen ==
  ASSUME Base, Flow, Exclusive, Free \/ sends # <<>>
  PROVE  \A u \in User : dev[u].open = FALSE /\ dev[u].pc = "idle"
BY IdleWhenFree DEF Base, Flow, FlowAt, IsDevice

\* The calls that send what they have changed.
LEMMA SyncChanged ==
  ASSUME Base, Flow, Exclusive, SyncInv, Changed, Taught
  PROVE  SyncInv'
<1>1. /\ sends = <<>> /\ Free /\ update_counter' = update_counter
      /\ file' = file /\ dev' = dev /\ Tidy(adm) /\ Tidy(adm')
      /\ DOMAIN adm'.users \subseteq DOMAIN adm.users
      /\ IsQueue(sends') /\ Orderly(sends', DOMAIN adm'.users)
      /\ forgotten \subseteq forgotten'
  BY DEF Changed, Base
<1>2. /\ \A u \in User : u \in DOMAIN adm'.users /\ u \notin forgotten' =>
           u \in DOMAIN adm.users /\ Learns(adm, adm', sends', u)
      /\ \A u \in DOMAIN adm.users : u \in DOMAIN adm'.users \/ u \in recovery'
  BY DEF Taught
<1>3. \A u \in User : IsDevice(dev[u]) /\ IsFiles(file[u])
  BY DEF Base
<1>4. /\ DOMAIN sends' = 1..Len(sends')
      /\ recovery' = recovery \cup {sends'[i].to : i \in DOMAIN sends'}
      /\ recovery \cap {sends'[i].to : i \in DOMAIN sends'} \subseteq forgotten'
  BY <1>1, SeqFacts DEF IsQueue, Changed
<1>5. ASSUME NEW u \in User, Watched(u)'
      PROVE  u \in DOMAIN adm'.users /\ u \notin recovery
  <2>1. u \in recovery' => \E i \in 1..Len(sends') : sends'[i].to = u
    BY <1>5 DEF Watched
  <2>2. u \notin forgotten' /\ u \in DOMAIN adm'.users
    BY <1>5 DEF Watched, Present
  <2> QED BY <1>4, <2>1, <2>2
<1>6. ASSUME NEW u \in User, Watched(u)'
      PROVE  Watched(u) /\ SyncAt(adm', sends', dev[u], file[u], u, update_counter[u])
  <2>1. u \in DOMAIN adm'.users /\ u \notin forgotten'
    BY <1>6 DEF Watched, Present
  <2>2. u \in DOMAIN adm.users /\ u \notin forgotten /\ Learns(adm, adm', sends', u)
    BY <1>1, <1>2, <2>1
  <2>3. Watched(u)
    BY <1>5, <1>6, <2>2 DEF Watched, Present
  <2>4. SyncAt(adm, <<>>, dev[u], file[u], u, update_counter[u])
    BY <1>1, <2>3 DEF SyncInv, Sync
  <2> QED BY <1>1, <1>3, <2>1, <2>2, <2>3, <2>4, SyncLearns
<1>7. Sync'
  BY <1>1, <1>6 DEF Sync
<1>8. Sending'
  BY <1>1, <1>4 DEF Sending
<1>9. Unused'
  BY <1>1, <1>2, <1>4 DEF SyncInv, Unused, Present
<1>10. TxOK'
  BY <1>1, NothingOpen, IdleTx
<1>11. WholeDev'
  <2>1. \A u \in User : Reached(u)' /\ Watched(u)' => Reached(u) /\ Watched(u)
    BY <1>1, <1>6 DEF Reached, Watched, Present
  <2> QED BY <1>1, <2>1 DEF SyncInv, WholeDev
<1> QED BY <1>7, <1>8, <1>9, <1>10, <1>11 DEF SyncInv

\* Whatever the properties look at stays.
LEMMA SyncKept ==
  ASSUME UNCHANGED <<adm, update_counter, recovery, sends, file, dev, forgotten>>, SyncInv
  PROVE  SyncInv'
<1>1. Sync'
  BY DEF SyncInv, Sync, Watched, Present
<1>2. Sending'
  BY DEF SyncInv, Sending
<1>3. Unused'
  BY DEF SyncInv, Unused, Present
<1>4. TxOK'
  BY DEF SyncInv, TxOK
<1>5. WholeDev'
  BY DEF SyncInv, WholeDev, Reached, Watched, Present
<1> QED BY <1>1, <1>2, <1>3, <1>4, <1>5 DEF SyncInv

\* sekey_add_user: nobody else sees the new user, who is in no group yet.
LEMMA SyncAddUser ==
  ASSUME Base, Flow, Exclusive, SyncInv, NEW w \in User, sekey_add_user(w)
  PROVE  SyncInv'
<1>1. /\ sends = <<>> /\ Free /\ Tidy(adm) /\ Tidy(adm')
      /\ ~Present(w) /\ ~dev[w].ready /\ file[w] = NoFiles /\ w \notin recovery \cup forgotten
      /\ adm'.users = Plus(adm.users, [x \in {w} |-> NewUserRow])
      /\ DOMAIN adm'.users = DOMAIN adm.users \cup {w}
      /\ adm'.groups = adm.groups /\ adm'.member = adm.member /\ adm'.keys = adm.keys
      /\ UNCHANGED <<update_counter, recovery, sends, file, dev, forgotten>>
  BY AddUserIs DEF Base
<1>2. \A u \in User : IsDevice(dev[u]) /\ IsFiles(file[u])
  BY DEF Base
<1>3. w \notin DOMAIN adm.users
  BY <1>1 DEF Present
<1>4. \A v \in DOMAIN adm.users : adm'.users[v] = adm.users[v]
  BY <1>1, <1>3 DEF Plus
<1>5. ASSUME NEW u \in User, Watched(u)', u # w
      PROVE  SyncAt(adm', <<>>, dev[u], file[u], u, update_counter[u])
  <2>1. u \in DOMAIN adm.users /\ u \in DOMAIN adm'.users /\ Watched(u)
    BY <1>1, <1>5 DEF Watched, Present
  <2>2. SyncAt(adm, <<>>, dev[u], file[u], u, update_counter[u])
    BY <1>1, <2>1 DEF SyncInv, Sync
  <2>3. Learns(adm, adm', <<>>, u)
    BY <1>1, <1>3, <1>4, <2>1, LearnAddUser
  <2>4. SyncAt(adm', <<>>, dev[u], file[u], u, update_counter[u])
    <3> DEFINE e == <<>>
    <3>1. Learns(adm, adm', e, u)
      BY <2>3
    <3> HIDE DEF e
    <3>2. SyncAt(adm', e, dev[u], file[u], u, update_counter[u])
      BY <1>1, <1>2, <2>1, <2>2, <3>1, SyncLearns
    <3> QED BY <3>2 DEF e
  <2> QED BY <2>4
<1>6. SyncAt(adm', <<>>, dev[w], file[w], w, update_counter[w])
  <2>1. update_counter[w] = 0
    BY <1>1 DEF SyncInv, Unused
  <2>2. GroupsOf(adm', w) = {}
    <3>1. \A g : <<w, g>> \notin adm.member
      BY <1>1, <1>3, Pairs DEF Tidy
    <3> QED BY <1>1, <3>1 DEF GroupsOf
  <2>3. w \in DOMAIN adm'.users
    BY <1>1
  <2>4. SyncAt(adm', <<>>, dev[w], NoFiles, w, 0)
    BY <1>1, <1>2, <2>2, <2>3, SyncFresh
  <2> QED BY <1>1, <2>1, <2>4
<1>7. Sync'
  BY <1>1, <1>5, <1>6 DEF Sync
<1>8. Sending'
  BY <1>1, NoQueue DEF SyncInv, Sending
<1>9. Unused'
  BY <1>1 DEF SyncInv, Unused, Present
<1>10. TxOK'
  BY <1>1, NothingOpen, IdleTx
<1>11. WholeDev'
  BY <1>1 DEF SyncInv, WholeDev, Reached, Watched, Present
<1> QED BY <1>7, <1>8, <1>9, <1>10, <1>11 DEF SyncInv

\* sekey_init_user_SEcube.
LEMMA SyncInitUser ==
  ASSUME Base, Flow, Exclusive, SyncInv, NEW w \in User, sekey_init_user_SEcube(w)
  PROVE  SyncInv'
<1> DEFINE q == InitFile(w)
           G == WithFile(file[w], "init", q)
<1>1. /\ sends = <<>> /\ Free /\ Present(w) /\ IsRecords(q) /\ InitLike(w, q) /\ Tidy(adm)
      /\ dev[w].pc = "idle"
      /\ dev' = [dev EXCEPT ![w] = Provisioned]
      /\ \/ /\ file' = [file EXCEPT ![w] = G]
            /\ forgotten' = IF dev[w].ready THEN forgotten \cup {w} ELSE forgotten
         \/ /\ \/ file' = file
               \/ file' = [file EXCEPT ![w] = WithoutFile(file[w], "init")]
            /\ forgotten' = forgotten \cup {w}
      /\ UNCHANGED <<adm, aflash, update_counter, recovery, sends>>
  BY InitUserIs DEF Base
<1>2. /\ \A u \in User : IsDevice(dev[u]) /\ IsFiles(file[u]) /\ FlowAt(dev[u], file[u])
      /\ dev = [u \in User |-> dev[u]] /\ file = [u \in User |-> file[u]]
  BY DEF Base, Flow
<1>3. q = <<InitRecord(w, adm.users[w])>>
  BY DEF InitFile, InitRecord
<1> HIDE DEF q, G
<1>4. /\ dev'[w] = Provisioned /\ forgotten \subseteq forgotten'
      /\ w \in forgotten' \/ (~dev[w].ready /\ file'[w] = G)
      /\ \A u \in User : u # w => /\ dev'[u] = dev[u] /\ file'[u] = file[u]
                                  /\ u \in forgotten' <=> u \in forgotten
  BY <1>1, <1>2
<1>5. ASSUME Watched(w)'
      PROVE  file'[w] = G /\ SyncAt(adm, <<>>, Provisioned, G, w, update_counter[w])
  <2>1. ~dev[w].ready /\ file'[w] = G /\ Watched(w) /\ w \in DOMAIN adm.users
    BY <1>1, <1>4, <1>5 DEF Watched, Present
  <2>2. "init" \notin DOMAIN file[w]
    BY <1>2, <2>1 DEF FlowAt
  <2>3. SyncAt(adm, <<>>, dev[w], file[w], w, update_counter[w])
    BY <1>1, <2>1 DEF SyncInv, Sync
  <2>4. IsDevice(dev[w]) /\ IsFiles(file[w])
    BY <1>2
  <2> QED BY <1>1, <1>3, <2>1, <2>2, <2>3, <2>4, SyncProvisioned DEF G
<1>6. ASSUME NEW u \in User, u # w, Watched(u)'
      PROVE  Watched(u) /\ SyncAt(adm, <<>>, dev[u], file[u], u, update_counter[u])
  <2>1. Watched(u)
    BY <1>1, <1>4, <1>6 DEF Watched, Present
  <2> QED BY <1>1, <2>1 DEF SyncInv, Sync
<1>7. Sync'
  <2>1. ASSUME NEW u \in User, Watched(u)'
        PROVE  SyncAt(adm, <<>>, dev'[u], file'[u], u, update_counter[u])
    BY <1>4, <1>5, <1>6, <2>1
  <2> QED BY <1>1, <2>1 DEF Sync
<1>8. Sending'
  BY <1>1 DEF SyncInv, Sending
<1>9. Unused'
  BY <1>1, <1>4 DEF SyncInv, Unused, Present
<1>10. TxOK'
  <2>1. \A u \in User : dev[u].open = FALSE
    BY <1>1, NothingOpen
  <2>2. Provisioned.open = FALSE
    BY BlankDevice DEF IsDevice
  <2> QED BY <1>4, <2>1, <2>2, IdleTx
<1>11. WholeDev'
  <2>1. Provisioned.blocked
    BY BlankDevice
  <2> QED BY <1>1, <1>4, <1>6, <2>1 DEF SyncInv, WholeDev, Reached, Present
<1> QED BY <1>7, <1>8, <1>9, <1>10, <1>11 DEF SyncInv

\* A deleted user gets a file, or a loss that is not on record.
LEMMA DeletedRecovered ==
  ASSUME Base, NEW w \in User, sekey_write_recovery(w), ~Present(w)
  PROVE  file'[w] # NoFiles \/ w \in forgotten'
<1>1. RecoverDeleted(w) /\ file = [v \in User |-> file[v]] /\ IsFiles(file[w])
  BY DEF sekey_write_recovery, Base
<1> DEFINE q == <<Record(0, DelUser(w))>>
           G == WithFile(file[w], "recovery", q)
<1>2. \/ file' = [file EXCEPT ![w] = G]
      \/ w \in forgotten'
  BY <1>1 DEF RecoverDeleted
<1>3. DOMAIN G # {}
  BY DEF WithFile, Plus
<1> HIDE DEF G
<1>4. file' = [file EXCEPT ![w] = G] => file'[w] = G
  BY <1>1
<1> QED BY <1>2, <1>3, <1>4, NoFilesFacts

\* sekey_write_recovery: the files of the user are replaced by a new one.
LEMMA SyncWriteRecovery ==
  ASSUME Base, Flow, Exclusive, SyncInv, Base', NEW w \in User, sekey_write_recovery(w)
  PROVE  SyncInv'
<1>1. /\ sends = <<>> /\ Free /\ adm' = adm /\ sends' = sends /\ dev' = dev /\ Tidy(adm)
      /\ recovery' = recovery \cup {w} \/ recovery' = recovery \ {w}
      /\ forgotten' \subseteq forgotten \cup {w} /\ forgotten \ {w} \subseteq forgotten'
      /\ \/ update_counter' = update_counter
         \/ update_counter' = [update_counter EXCEPT ![w] = 0]
      /\ file' = [file EXCEPT ![w] = file'[w]]
  BY RecoveryIs DEF Base
<1>2. /\ \A u \in User : IsDevice(dev[u]) /\ IsFiles(file'[u])
                         /\ ("init" \in DOMAIN file'[u] => InitLike(u, file'[u]["init"]))
      /\ file = [u \in User |-> file[u]] /\ update_counter \in [User -> Nat]
  BY DEF Base, Pending
<1>3. \A u \in User : u # w => /\ file'[u] = file[u] /\ update_counter'[u] = update_counter[u]
                               /\ u \in recovery' <=> u \in recovery
                               /\ u \in forgotten' <=> u \in forgotten
  BY <1>1, <1>2
<1>4. ASSUME Present(w), w \notin recovery'
      PROVE  /\ "normal" \notin DOMAIN file'[w] /\ "recovery" \in DOMAIN file'[w]
             /\ file'[w]["recovery"] = RecoveryFile(adm, w)
             /\ update_counter'[w] = 0
             /\ GroupsOf(adm, w) = {} => w \in forgotten'
  BY <1>4, RecoveredUser
<1>5. ASSUME Watched(w)'
      PROVE  SyncAt(adm, <<>>, dev[w], file'[w], w, update_counter'[w])
  <2>1. w \in DOMAIN adm.users /\ Present(w) /\ w \notin recovery' /\ w \notin forgotten'
    BY <1>1, <1>5 DEF Watched, Present
  <2>2. GroupsOf(adm, w) # {}
    BY <1>4, <2>1
  <2>3. SyncAt(adm, <<>>, dev[w], file'[w], w, 0)
    BY <1>1, <1>2, <1>4, <2>1, <2>2, SyncRecovered
  <2> QED BY <1>4, <2>1, <2>3
<1>6. ASSUME NEW u \in User, u # w, Watched(u)'
      PROVE  Watched(u) /\ SyncAt(adm, <<>>, dev[u], file[u], u, update_counter[u])
  <2>1. Watched(u)
    BY <1>1, <1>3, <1>6 DEF Watched, Present
  <2> QED BY <1>1, <2>1 DEF SyncInv, Sync
<1>7. Sync'
  <2>1. ASSUME NEW u \in User, Watched(u)'
        PROVE  SyncAt(adm, <<>>, dev[u], file'[u], u, update_counter'[u])
    BY <1>3, <1>5, <1>6, <2>1
  <2> QED BY <1>1, <2>1 DEF Sync
<1>8. Sending'
  BY <1>1, NoQueue DEF Sending
<1>9. Unused'
  <2>1. ASSUME NEW u \in User, ~Present(u), ~dev[u].ready, u \notin recovery' \cup forgotten',
               file'[u] = NoFiles
        PROVE  update_counter'[u] = 0
    <3>1. CASE u = w
      BY <2>1, <3>1, DeletedRecovered
    <3>2. CASE u # w
      BY <1>3, <2>1, <3>2 DEF SyncInv, Unused
    <3> QED BY <3>1, <3>2
  <2> QED BY <1>1, <2>1 DEF Unused, Present
<1>10. TxOK'
  BY <1>1, NothingOpen, IdleTx
<1>11. WholeDev'
  <2>1. ASSUME NEW u \in User, Reached(u), Watched(u)', ~dev[u].blocked,
               "init" \notin DOMAIN file'[u], "recovery" \notin DOMAIN file'[u]
        PROVE  Whole(dev[u].db, dev[u].flash)
    <3>1. u \notin recovery'
      BY <1>1, <2>1 DEF Watched
    <3>2. u # w
      BY <1>4, <2>1, <3>1 DEF Reached
    <3> QED BY <1>3, <1>6, <2>1, <3>2 DEF SyncInv, WholeDev
  <2> QED BY <1>1, <2>1 DEF WholeDev, Reached, Present
<1> QED BY <1>7, <1>8, <1>9, <1>10, <1>11 DEF SyncInv

\* Every call of the administrator.
LEMMA SyncAdmin ==
  ASSUME Base, Flow, Exclusive, SyncInv, Base', AdminCall
  PROVE  SyncInv'
BY AdminTeaches, SyncChanged, SyncKept, SyncAddUser, SyncInitUser, SyncWriteRecovery DEF Leaked

-----------------------------------------------------------------------------
\* What is left to be written once the first record is.
LEMMA SendingNext ==
  ASSUME Base, Sending, sends # <<>>, sends' = Tail(sends), adm' = adm,
         recovery' = recovery \/ (Head(sends).erase /\ recovery' = recovery \ {Head(sends).to})
  PROVE  /\ Sending' /\ Head(sends).to \in recovery
         /\ Present(Head(sends).to) => IsMild(Head(sends).cmd, Head(sends).to)
         /\ \A u : (\E i \in 1..Len(sends') : sends'[i].to = u) => \E i \in 1..Len(sends) : sends[i].to = u
         /\ Head(sends).erase => \A i \in 1..Len(sends') : sends'[i].to # Head(sends).to
<1> DEFINE s == Head(sends)
           t == Tail(sends)
<1>1. /\ IsQueue(t) /\ s = sends[1] /\ Len(sends) \in Nat \ {0} /\ Len(t) = Len(sends) - 1
      /\ \A i \in 1..Len(t) : i + 1 \in 1..Len(sends) /\ t[i] = sends[i + 1]
  BY QueueTail DEF Base
<1>2. /\ \A i \in 1..Len(sends) : sends[i].to \in recovery
      /\ \A i \in 1..Len(sends) :
           /\ sends[i].erase => \A j \in 1..Len(sends) : j > i => sends[j].to # sends[i].to
           /\ sends[i].to \in DOMAIN adm.users => IsMild(sends[i].cmd, sends[i].to)
  BY DEF Sending, Orderly
<1>3. 1 \in 1..Len(sends) /\ \A i \in 1..Len(t) : i + 1 > 1
  BY <1>1
<1> HIDE DEF s, t
<1>4. s.to \in recovery /\ (s.to \in DOMAIN adm.users => IsMild(s.cmd, s.to))
  BY <1>1, <1>2, <1>3
<1>5. s.erase => \A i \in 1..Len(t) : t[i].to # s.to
  BY <1>1, <1>2, <1>3
<1>6. \A i \in 1..Len(t) : t[i].to \in recovery
  BY <1>1, <1>2
<1>7. Orderly(t, DOMAIN adm.users)
  <2> SUFFICES ASSUME NEW i \in 1..Len(t)
               PROVE  /\ t[i].erase => \A j \in 1..Len(t) : j > i => t[j].to # t[i].to
                      /\ t[i].to \in DOMAIN adm.users => IsMild(t[i].cmd, t[i].to)
    BY DEF Orderly
  <2>1. i + 1 \in 1..Len(sends) /\ t[i] = sends[i + 1]
    BY <1>1
  <2>2. \A j \in 1..Len(t) : j > i => j + 1 > i + 1 /\ j + 1 \in 1..Len(sends) /\ t[j] = sends[j + 1]
    BY <1>1
  <2> QED BY <1>2, <2>1, <2>2
<1>8. sends' = t
  BY DEF t
<1>9. \A i \in 1..Len(t) : t[i].to \in recovery'
  BY <1>5, <1>6 DEF s
<1>10. Sending'
  BY <1>7, <1>8, <1>9 DEF Sending
<1>11. \A u : (\E i \in 1..Len(t) : t[i].to = u) => \E i \in 1..Len(sends) : sends[i].to = u
  BY <1>1
<1> QED BY <1>4, <1>5, <1>8, <1>10, <1>11 DEF s, Present

\* A record is written.
LEMMA SyncSend ==
  ASSUME Base, Flow, Exclusive, SyncInv, SendNext
  PROVE  SyncInv'
<1>a. PICK w : w = Head(sends).to
  OBVIOUS
<1> DEFINE c == Head(sends).cmd
           q == WrittenFor(w, c)
           n == update_counter[w]
           G == WithFile(file[w], "normal", q)
<1>0. /\ file = [v \in User |-> file[v]] /\ update_counter \in [User -> Nat]
      /\ \A v \in User : IsFiles(file[v]) /\ IsDevice(dev[v])
      /\ Tidy(adm) /\ IsQueue(sends)
  BY DEF Base
<1>1. /\ sends # <<>> /\ sends' = Tail(sends) /\ w \in User
      /\ IsRecords(q) /\ file' = [file EXCEPT ![w] = G]
      /\ update_counter' = IF Present(w) THEN [update_counter EXCEPT ![w] = @ + 1]
                                         ELSE update_counter
      /\ recovery' = IF Head(sends).erase THEN recovery \ {w} ELSE recovery
      /\ UNCHANGED <<adm, aflash, dev, forgotten>>
  BY <1>a, SendNextIs
<1>2. /\ Sending' /\ w \in recovery /\ (Present(w) => IsMild(c, w))
      /\ \A u : (\E i \in 1..Len(sends') : sends'[i].to = u) => \E i \in 1..Len(sends) : sends[i].to = u
  BY <1>1, <1>a, SendingNext DEF SyncInv
<1>3. /\ file'[w] = G
      /\ Present(w) => update_counter'[w] = n + 1
      /\ \A v \in User : v # w => /\ file'[v] = file[v] /\ update_counter'[v] = update_counter[v]
                                  /\ v \in recovery' <=> v \in recovery
  BY <1>0, <1>1
<1>4. n \in Nat /\ IsFiles(file[w]) /\ IsDevice(dev[w])
  BY <1>0, <1>1
<1>5. Present(w) => q = Append(NormalOf(file[w]), Record(n + 1, c))
  BY DEF WrittenFor, Records, Pending, NormalOf
<1>6. 1 \in 1..Len(sends) /\ sends[1].to = w
  BY <1>0, <1>1, <1>a, QueueTail
<1>7. DOMAIN G = DOMAIN file[w] \cup {"normal"}
  BY <1>1, <1>4, WithNormal
<1>8. ASSUME Watched(w)'
      PROVE  SyncAt(adm, Tail(sends), dev[w], G, w, n + 1)
  <2>1. Present(w) /\ Watched(w) /\ w \in DOMAIN adm.users
    BY <1>1, <1>6, <1>8 DEF Watched, Present
  <2>2. SyncAt(adm, sends, dev[w], file[w], w, n)
    BY <1>1, <2>1 DEF SyncInv, Sync
  <2>3. IsRecords(Append(NormalOf(file[w]), Record(n + 1, c))) /\ IsMild(c, w)
        /\ G = WithFile(file[w], "normal", Append(NormalOf(file[w]), Record(n + 1, c)))
    BY <1>1, <1>2, <1>5, <2>1
  <2> HIDE DEF G, n, q, c
  <2> QED BY <1>0, <1>1, <1>4, <1>a, <2>1, <2>2, <2>3, SyncAppend DEF c
<1> HIDE DEF c, q, n, G
<1>9. ASSUME NEW u \in User, u # w, Watched(u)'
      PROVE  SyncAt(adm, Tail(sends), dev[u], file[u], u, update_counter[u])
  <2>1. Watched(u) /\ u \in DOMAIN adm.users
    BY <1>1, <1>2, <1>3, <1>9 DEF Watched, Present
  <2>2. SyncAt(adm, sends, dev[u], file[u], u, update_counter[u])
    BY <2>1 DEF SyncInv, Sync
  <2> QED BY <1>0, <1>1, <1>9, <1>a, <2>1, <2>2, SyncDeaf
<1>10. Sync'
  <2>1. ASSUME NEW u \in User, Watched(u)'
        PROVE  SyncAt(adm, Tail(sends), dev[u], file'[u], u, update_counter'[u])
    <3>1. Present(u)
      BY <1>1, <2>1 DEF Watched, Present
    <3>2. CASE u = w
      BY <1>3, <1>8, <2>1, <3>1, <3>2
    <3>3. CASE u # w
      BY <1>3, <1>9, <2>1, <3>3
    <3> QED BY <3>2, <3>3
  <2> QED BY <1>1, <2>1 DEF Sync
<1>11. Unused'
  <2>1. ASSUME NEW u \in User, ~Present(u), ~dev[u].ready, u \notin recovery' \cup forgotten,
               file'[u] = NoFiles
        PROVE  update_counter'[u] = 0
    <3>1. u # w
      BY <1>3, <1>7, <2>1, NoFilesFacts
    <3> QED BY <1>3, <2>1, <3>1 DEF SyncInv, Unused
  <2> QED BY <1>1, <2>1 DEF Unused, Present
<1>12. TxOK'
  BY <1>1, NothingOpen, IdleTx
<1>13. WholeDev'
  <2>1. \A u \in User : /\ "init" \in DOMAIN file[u] => "init" \in DOMAIN file'[u]
                        /\ "recovery" \in DOMAIN file[u] => "recovery" \in DOMAIN file'[u]
    BY <1>3, <1>7
  <2>2. \A u \in User : Watched(u)' => Watched(u)
    BY <1>1, <1>2, <1>3, <1>6 DEF Watched, Present
  <2> QED BY <1>1, <2>1, <2>2 DEF SyncInv, WholeDev, Reached, Present
<1> QED BY <1>2, <1>10, <1>11, <1>12, <1>13 DEF SyncInv

\* A record cannot be written: the user stays in the Recovery table.
LEMMA SyncFails ==
  ASSUME Base, Flow, Exclusive, SyncInv, SendFails
  PROVE  SyncInv'
<1>a. PICK w : w = Head(sends).to
  OBVIOUS
<1>0. /\ update_counter \in [User -> Nat]
      /\ \A v \in User : IsFiles(file[v]) /\ IsDevice(dev[v])
      /\ Tidy(adm) /\ IsQueue(sends)
  BY DEF Base
<1>1. /\ sends # <<>> /\ sends' = Tail(sends) /\ w \in User
      /\ \/ update_counter' = update_counter
         \/ Present(w) /\ update_counter' = [update_counter EXCEPT ![w] = @ + 1]
      /\ forgotten' = IF Head(sends).erase THEN forgotten ELSE forgotten \cup {w}
      /\ UNCHANGED <<adm, aflash, recovery, file, dev>>
  BY <1>a, SendFailsIs
<1>2. /\ Sending' /\ w \in recovery
      /\ \A u : (\E i \in 1..Len(sends') : sends'[i].to = u) => \E i \in 1..Len(sends) : sends[i].to = u
      /\ Head(sends).erase => \A i \in 1..Len(sends') : sends'[i].to # w
  BY <1>1, <1>a, SendingNext DEF SyncInv
<1>3. \A u \in User : u # w => update_counter'[u] = update_counter[u]
  BY <1>0, <1>1
<1>4. ~Watched(w)'
  BY <1>1, <1>2 DEF Watched
<1>5. Sync'
  <2>1. ASSUME NEW u \in User, Watched(u)'
        PROVE  SyncAt(adm, Tail(sends), dev[u], file[u], u, update_counter'[u])
    <3>1. u # w
      BY <1>4, <2>1
    <3>2. Watched(u) /\ u \in DOMAIN adm.users
      BY <1>1, <1>2, <2>1 DEF Watched, Present
    <3>3. SyncAt(adm, sends, dev[u], file[u], u, update_counter[u])
      BY <3>2 DEF SyncInv, Sync
    <3>4. SyncAt(adm, Tail(sends), dev[u], file[u], u, update_counter[u])
      BY <1>0, <1>1, <1>a, <3>1, <3>2, <3>3, SyncDeaf
    <3> QED BY <1>3, <3>1, <3>4
  <2> QED BY <1>1, <2>1 DEF Sync
<1>6. Unused'
  BY <1>1, <1>3 DEF SyncInv, Unused, Present
<1>7. TxOK'
  BY <1>1, NothingOpen, IdleTx
<1>8. WholeDev'
  <2>1. \A u \in User : Watched(u)' => Watched(u)
    BY <1>1, <1>2 DEF Watched, Present
  <2> QED BY <1>1, <2>1 DEF SyncInv, WholeDev, Reached, Present
<1> QED BY <1>2, <1>5, <1>6, <1>7, <1>8 DEF SyncInv

\* The administrator stops: whoever was still to be told is in the Recovery
\* table.
LEMMA SyncCrash ==
  ASSUME Base, Flow, Exclusive, SyncInv, AdminCrash
  PROVE  SyncInv'
<1>1. /\ sends # <<>> /\ sends' = <<>>
      /\ UNCHANGED <<adm, update_counter, recovery, file, dev, forgotten>>
  BY DEF AdminCrash
<1>2. /\ \A v \in User : IsFiles(file[v]) /\ IsDevice(dev[v])
      /\ Tidy(adm) /\ IsQueue(sends)
  BY DEF Base
<1>3. Sync'
  <2>1. ASSUME NEW u \in User, Watched(u)'
        PROVE  SyncAt(adm, <<>>, dev[u], file[u], u, update_counter[u])
    <3>1. u \in DOMAIN adm.users /\ u \notin recovery /\ Watched(u)
      BY <1>1, <2>1 DEF Watched, Present
    <3>2. \A i \in 1..Len(sends) : sends[i].to # u
      BY <3>1 DEF SyncInv, Sending
    <3>3. SyncAt(adm, sends, dev[u], file[u], u, update_counter[u])
      BY <3>1 DEF SyncInv, Sync
    <3> QED BY <1>2, <3>1, <3>2, <3>3, SyncUntold
  <2> QED BY <1>1, <2>1 DEF Sync
<1>4. Sending'
  BY <1>1, NoQueue DEF Sending
<1>5. Unused'
  BY <1>1 DEF SyncInv, Unused, Present
<1>6. TxOK'
  BY <1>1, NothingOpen, IdleTx
<1>7. WholeDev'
  <2>1. \A u \in User : Watched(u)' => Watched(u)
    BY <1>1 DEF Watched, Present
  <2> QED BY <1>1, <2>1 DEF SyncInv, WholeDev, Reached, Present
<1> QED BY <1>3, <1>4, <1>5, <1>6, <1>7 DEF SyncInv

\* Only a device that is ready reads its files.
LEMMA StepOfReady ==
  ASSUME NEW u, NEW d, NEW F, NEW D, NEW G, IsDevice(d), IsFiles(F), FlowAt(d, F),
         DeviceStep(u, d, F, D, G)
  PROVE  d.ready
<1>1. d.pc \in File \/ d.ready
  BY DEF DeviceStep, Started, Skipped, Opened, Halted, Executing, Closed, FlowAt, IsFiles
<1> QED BY <1>1, BlankDevice DEF FlowAt, File

\* Only the end of a call takes the block from a device.
LEMMA Unblocked ==
  ASSUME NEW u, NEW d, NEW F, NEW D, NEW G, IsDevice(d), IsFiles(F), FlowAt(d, F),
         DeviceStep(u, d, F, D, G), ~D.blocked
  PROVE  /\ d.pc = "normal" /\ "init" \notin DOMAIN F /\ "recovery" \notin DOMAIN F
         /\ \/ "normal" \notin DOMAIN F /\ Committed(D) = Cleaned(Committed(d), u)
            \/ /\ "normal" \in DOMAIN F /\ d.open /\ d.tx.todo = <<>>
               /\ Committed(D) = Cleaned(Committed(Done(d, u)), u)
<1> DEFINE e == Done(d, u)
<1>0. /\ e.pc = d.pc /\ e.blocked = d.blocked
      /\ d = [z \in DeviceField |-> d[z]] /\ e = [z \in DeviceField |-> e[z]]
  BY DoneLasts DEF Lasting
<1>1. d.pc \in File => d.blocked
  BY DEF FlowAt, File
<1>2. \A x : x = [z \in DeviceField |-> x[z]] => Stopped(x).blocked = x.blocked
  BY StoppedFacts
<1>3. \A x : x = [z \in DeviceField |-> x[z]] /\ x.pc \in File =>
        /\ x.pc = "normal" => Following(x, u) = Finished(x, u)
        /\ x.pc # "normal" => Following(x, u).blocked = x.blocked
  <2> SUFFICES ASSUME NEW x, x = [z \in DeviceField |-> x[z]], x.pc \in File
               PROVE  /\ x.pc = "normal" => Following(x, u) = Finished(x, u)
                      /\ x.pc # "normal" => Following(x, u).blocked = x.blocked
    OBVIOUS
  <2> QED BY FollowingFacts, ZenonT(60)
<1>4. \A x : x = [z \in DeviceField |-> x[z]] => Committed(Finished(x, u)) = Cleaned(Committed(x), u)
  BY FinishedCommitted
<1> HIDE DEF e
<1>5. d.pc = "normal" => "init" \notin DOMAIN F /\ "recovery" \notin DOMAIN F
  BY DEF FlowAt
<1>6. ~Started(d, F, D, G)
  BY DEF Started
<1>7. ~Opened(d, F, D, G)
  BY <1>1 DEF Opened
<1>8. ~Halted(d, F, D, G)
  BY <1>0, <1>1, <1>2 DEF Halted
<1>9. ~Executing(u, d, F, D, G)
  BY <1>1 DEF Executing, FlowAt, IsFiles
<1>10. CASE Skipped(u, d, F, D, G)
  <2>1. d.pc \in File /\ D = Following(d, u) /\ d.pc \notin DOMAIN F
    BY <1>10 DEF Skipped
  <2>2. d.pc = "normal" /\ D = Finished(d, u)
    BY <1>0, <1>1, <1>3, <2>1
  <2> QED BY <1>0, <1>4, <1>5, <2>1, <2>2
<1>11. CASE Closed(u, d, F, D, G)
  <2>1. d.open /\ d.tx.todo = <<>> /\ d.pc \in File /\ d.pc \in DOMAIN F
    BY <1>11 DEF Closed, FlowAt, IsFiles
  <2>2. D = Following(e, u) \/ D = IF d.pc = "normal" THEN Finished(e, u) ELSE Stopped(e)
    BY <1>11 DEF Closed, e
  <2>3. d.pc = "normal" /\ D = Finished(e, u)
    BY <1>0, <1>1, <1>2, <1>3, <2>1, <2>2
  <2>4. Committed(D) = Cleaned(Committed(e), u)
    BY <1>0, <1>4, <2>3
  <2> QED BY <1>5, <2>1, <2>3, <2>4 DEF e
<1> QED BY <1>6, <1>7, <1>8, <1>9, <1>10, <1>11 DEF DeviceStep

\* A device that may be used has the user's view, whole.
LEMMA FinishedWhole ==
  ASSUME NEW A, Tidy(A), NEW u, u \in DOMAIN A.users, NEW d, NEW F, NEW D, NEW G,
         IsDevice(d), IsFiles(F), FlowAt(d, F), TxAt(u, d, F), NEW n,
         SyncAt(A, <<>>, d, F, u, n), DeviceStep(u, d, F, D, G), ~D.blocked, d.updkeys
  PROVE  Whole(D.db, D.flash)
<1> DEFINE C == Committed(d)
           E == Committed(D)
           V == View(A, u)
<1>1. /\ d.pc = "normal" /\ "init" \notin DOMAIN F /\ "recovery" \notin DOMAIN F
      /\ \/ "normal" \notin DOMAIN F /\ E = Cleaned(C, u)
         \/ /\ "normal" \in DOMAIN F /\ d.open /\ d.tx.todo = <<>>
            /\ E = Cleaned(Committed(Done(d, u)), u)
  BY Unblocked
<1>2. d.ready
  BY StepOfReady
<1>3. Current(ReplayFiles(C, u, F), A, u, n)
  BY <1>2, SyncNow
<1>4. IsWork(C) /\ C.updkeys /\ C.ok
  BY WorkFacts
<1>5. DOMAIN F \subseteq File
  BY DEF IsFiles
<1> HIDE DEF E
<1>6. Current(E, A, u, n)
  <2>1. CASE "normal" \notin DOMAIN F /\ E = Cleaned(C, u)
    <3>1. DOMAIN F = {}
      BY <1>1, <1>5, <2>1 DEF File
    <3> HIDE DEF C
    <3>2. ReplayFiles(C, u, F) = C
      BY <1>4, <3>1, ReplayShape
    <3>3. Current(C, A, u, n)
      BY <1>3, <3>2
    <3> QED BY <2>1, <3>3, CleanedTold
  <2>2. CASE /\ "normal" \in DOMAIN F /\ d.open /\ d.tx.todo = <<>>
             /\ E = Cleaned(Committed(Done(d, u)), u)
    <3> DEFINE R == Committed(Done(d, u))
               H == WithoutFile(F, "normal")
    <3>1. IsRecords(F["normal"])
      BY <2>2 DEF IsFiles
    <3>2. R = Executed(C, u, F["normal"])
      BY <1>1, <2>2, <3>1, DoneCommitted
    <3> HIDE DEF C, R
    <3>3. ReplayFiles(C, u, F) = ReplayFiles(R, u, H)
      BY <1>1, <1>4, <2>2, <3>2, ReplayFirst
    <3>4. IsFiles(H) /\ DOMAIN H = DOMAIN F \ {"normal"}
      BY ONLY IsFiles(F), WithoutFileFacts
    <3> HIDE DEF H
    <3>5. DOMAIN H = {}
      BY <1>1, <1>5, <3>4 DEF File
    <3>6. IsWork(R) /\ R.updkeys
      BY <1>4, <3>1, <3>2, ExecutedFacts DEF Ended
    <3>7. ReplayFiles(R, u, H) = R
      BY <3>4, <3>5, <3>6, ReplayShape
    <3>8. Current(R, A, u, n)
      BY <1>3, <3>3, <3>7
    <3>9. Current(Cleaned(R, u), A, u, n)
      BY <3>8, CleanedTold
    <3> QED BY <2>2, <3>9 DEF R
  <2> QED BY <1>1, <2>1, <2>2
<1>7. E.db = V /\ Needed(E.db) \subseteq E.flash
  BY <1>6 DEF Current, Knows
<1>8. E.db = D.db /\ E.flash = D.flash
  BY DEF E, Committed
<1>9. Tidy(V)
  BY ViewTidy
<1> HIDE DEF V
<1> QED BY <1>7, <1>8, <1>9, TidyWhole

\* A device takes a step, or stops.
LEMMA SyncUser ==
  ASSUME Base, Flow, Exclusive, NumberInv, SyncInv, NEW w \in User, UserStep(w) \/ RollBack(w)
  PROVE  SyncInv'
<1> DEFINE d == dev[w]
           F == file[w]
           n == update_counter[w]
<1>0. /\ dev = [v \in User |-> dev[v]] /\ file = [v \in User |-> file[v]]
      /\ update_counter \in [User -> Nat] /\ Tidy(adm)
      /\ \A v \in User : /\ IsFiles(file[v]) /\ IsDevice(dev[v]) /\ FlowAt(dev[v], file[v])
                         /\ "init" \in DOMAIN file[v] => InitLike(v, file[v]["init"])
  BY DEF Base, Flow, Pending
<1>1. /\ UserOnly /\ sends = <<>>
      /\ dev' = [dev EXCEPT ![w] = dev'[w]] /\ file' = [file EXCEPT ![w] = file'[w]]
      /\ DeviceStep(w, d, F, dev'[w], file'[w])
  BY UserStepIs
<1>2. \A v \in User : v # w => dev'[v] = dev[v] /\ file'[v] = file[v]
  BY <1>0, <1>1
<1>3. /\ adm' = adm /\ update_counter' = update_counter /\ recovery' = recovery
      /\ sends' = <<>> /\ forgotten' = forgotten
  BY <1>1 DEF UserOnly
<1>4. TxAt(w, d, F)
  BY DEF SyncInv, TxOK
<1>5. /\ IsDevice(d) /\ IsFiles(F) /\ FlowAt(d, F) /\ n \in Nat
      /\ "init" \in DOMAIN F => InitLike(w, F["init"])
  BY <1>0
<1> DEFINE D == dev'[w]
           G == file'[w]
<1>6. DeviceStep(w, d, F, D, G)
  BY <1>1
<1>7. Watched(w) => /\ w \in DOMAIN adm.users /\ Ordered(d, F, n)
                    /\ SyncAt(adm, <<>>, d, F, w, n)
  <2> SUFFICES ASSUME Watched(w)
               PROVE  /\ w \in DOMAIN adm.users /\ Ordered(d, F, n)
                      /\ SyncAt(adm, <<>>, d, F, w, n)
    OBVIOUS
  <2>1. Present(w) /\ w \notin recovery
    BY <1>1 DEF Watched
  <2>2. Ordered(d, F, n)
    BY <2>1 DEF NumberInv
  <2>3. SyncAt(adm, <<>>, d, F, w, n)
    BY <1>1 DEF SyncInv, Sync
  <2> QED BY <2>1, <2>2, <2>3 DEF Present
<1> HIDE DEF d, F, n, D, G
<1>8. Watched(w) => SyncAt(adm, <<>>, D, G, w, n)
  BY <1>0, <1>4, <1>5, <1>6, <1>7, DeviceStepSync
<1>9. TxAt(w, D, G)
  BY <1>4, <1>5, <1>6, DeviceStepTx
<1>10. d.ready /\ D.ready = d.ready
  BY <1>5, <1>6, StepOfReady, DeviceStepShape
<1>11. Watched(w) /\ ~D.blocked /\ D.updkeys => Whole(D.db, D.flash)
  <2> SUFFICES ASSUME Watched(w), ~D.blocked, D.updkeys
               PROVE  Whole(D.db, D.flash)
    OBVIOUS
  <2>1. Outcome(w, d, F, D, G)
    BY <1>5, <1>6, DeviceOutcome
  <2>2. d.updkeys
    BY <1>5, <2>1, OutcomeKeys
  <2> QED BY <1>0, <1>4, <1>5, <1>6, <1>7, <2>2, FinishedWhole
<1>12. \A u \in User : Watched(u)' <=> Watched(u)
  BY <1>1, <1>3 DEF Watched, Present
<1>13. Sync'
  <2>1. ASSUME NEW u \in User, Watched(u)
        PROVE  SyncAt(adm, <<>>, dev'[u], file'[u], u, update_counter[u])
    <3>1. CASE u = w
      BY <1>8, <2>1, <3>1 DEF D, G, n
    <3>2. CASE u # w
      BY <1>1, <1>2, <2>1, <3>2 DEF SyncInv, Sync
    <3> QED BY <3>1, <3>2
  <2> QED BY <1>3, <1>12, <2>1 DEF Sync
<1>14. Sending'
  BY <1>3, NoQueue DEF Sending
<1>15. Unused'
  <2>1. \A u \in User : ~dev'[u].ready => u # w
    BY <1>10 DEF D
  <2> QED BY <1>2, <1>3, <2>1 DEF SyncInv, Unused, Present
<1>16. TxOK'
  <2>1. \A u \in User : TxAt(u, dev'[u], file'[u])
    BY <1>2, <1>9 DEF SyncInv, TxOK, D, G
  <2> QED BY <2>1 DEF TxOK
<1>17. WholeDev'
  <2>1. ASSUME NEW u \in User, u # w, dev'[u].ready, dev'[u].updkeys, Present(u), Watched(u),
               ~dev'[u].blocked,
               "init" \notin DOMAIN file'[u], "recovery" \notin DOMAIN file'[u]
        PROVE  Whole(dev'[u].db, dev'[u].flash)
    BY <1>2, <2>1 DEF SyncInv, WholeDev, Reached
  <2> QED BY <1>3, <1>11, <1>12, <2>1 DEF WholeDev, Reached, Present, D
<1> QED BY <1>13, <1>14, <1>15, <1>16, <1>17 DEF SyncInv

\* SyncInv is inductive, given Base, Flow and NumberInv.
LEMMA SyncNext ==
  ASSUME Exclusive, Base, Flow, NumberInv, SyncInv, [Next]_vars
  PROVE  SyncInv'
<1>1. CASE UNCHANGED vars
  BY <1>1, SyncKept DEF vars
<1>2. CASE Next
  <2>1. Base'
    BY BaseNext
  <2> QED BY <1>2, <2>1, SyncAdmin, SyncSend, SyncFails, SyncCrash, SyncUser DEF Next
<1> QED BY <1>1, <1>2

-----------------------------------------------------------------------------
\* With nothing left to send, in sync is up to date.
LEMMA SyncInvInSync ==
  ASSUME Base, SyncInv
  PROVE  InSync
<1> SUFFICES ASSUME sends = <<>>, NEW u \in User, Reached(u), ~OnRecord(u)
             PROVE  LET d == Replay(u)
                    IN  /\ d.ok /\ d.db = View(adm, u) /\ d.cnt = update_counter[u]
                        /\ Needed(d.db) \subseteq d.flash
  BY DEF InSync
<1>1. Tidy(adm) /\ IsDevice(dev[u]) /\ IsFiles(file[u])
  BY DEF Base
<1>2. Watched(u) /\ u \in DOMAIN adm.users
  BY DEF Watched, OnRecord, Reached, Present
<1>3. SyncAt(adm, <<>>, dev[u], file[u], u, update_counter[u])
  BY <1>2 DEF SyncInv, Sync
<1>4. Current(ReplayFiles(Committed(dev[u]), u, file[u]), adm, u, update_counter[u])
  BY <1>1, <1>2, <1>3, SyncNow DEF Reached
<1> QED BY <1>4 DEF Current, Knows, Replay

\* A view is whole.
LEMMA SyncInvWhole ==
  ASSUME Base, SyncInv
  PROVE  WholeTables
<1>1. Whole(adm, aflash)
  BY TidyWhole DEF Base
<1> QED BY <1>1 DEF WholeTables, SyncInv, WholeDev, Watched, Reached, OnRecord, Pending

\* Between two calls of the administrator, the files of a user whose loss is not
\* on record are exactly what its device lacks, whatever the calls were, whichever
\* writes failed, and wherever the device was stopped.
THEOREM InSyncAlways ==
  ASSUME Exclusive
  PROVE  Spec => []InSync
<1> DEFINE IInv == Base /\ Flow /\ NumberInv /\ SyncInv
<1>1. Init => IInv
  BY InitBase, NumberInit, SyncInit
<1>2. IInv /\ [Next]_vars => IInv'
  BY BaseNext, NumberNext, SyncNext
<1>3. IInv => InSync
  BY SyncInvInSync
<1> HIDE DEF IInv
<1> QED BY <1>1, <1>2, <1>3, PTL DEF Spec

\* Neither the administrator's tables nor those of a device that may be used are
\* ever torn.
THEOREM WholeTablesAlways ==
  ASSUME Exclusive
  PROVE  Spec => []WholeTables
<1> DEFINE IInv == Base /\ Flow /\ NumberInv /\ SyncInv
<1>1. Init => IInv
  BY InitBase, NumberInit, SyncInit
<1>2. IInv /\ [Next]_vars => IInv'
  BY BaseNext, NumberNext, SyncNext
<1>3. IInv => WholeTables
  BY SyncInvWhole
<1> HIDE DEF IInv
<1> QED BY <1>1, <1>2, <1>3, PTL DEF Spec
=============================================================================
