---------------------------- MODULE SEkeyTables ----------------------------
(***************************************************************************)
(* The database of SEkey, the records of the update files, and what a      *)
(* device does with them.  The administrator and every user keep the same  *)
(* four tables; a database is a record of                                  *)
(*   users   the Users rows: user id -> [username]                         *)
(*   groups  the Groups rows: group id -> [name, users_counter, ...]       *)
(*   member  the UserGroup rows, a set of pairs                            *)
(*   keys    the SeKeys rows: key id -> [name, owner, status]              *)
(* A device adds the update_counter of its own Users row, the keys its     *)
(* flash memory holds, and k1 and k2, the keys the update files are        *)
(* encrypted with.  There is no state here.                                *)
(***************************************************************************)
EXTENDS Naturals, Sequences, FiniteSets, SequencesExt, KeyStates

CONSTANTS User, Group, Key,
          Zombie   \* the owner of the keys of a deleted group

\* An id is a letter and at most ten digits (IDLEN, SEkey.h:39).
ASSUME TablesAssumption ==
  /\ IsFiniteSet(User) /\ IsFiniteSet(Group) /\ IsFiniteSet(Key)
  /\ Zombie \notin Group

\* The rows of a table without those of S, and with new rows added.
Drop(table, S) == Restrict(table, DOMAIN table \ S)
Plus(table, rows) == [x \in DOMAIN rows \cup DOMAIN table |->
                        IF x \in DOMAIN rows THEN rows[x] ELSE table[x]]

NoRows == [users |-> <<>>, groups |-> <<>>, member |-> {}, keys |-> <<>>]

UserRow  == [username : {0, 1}]
GroupRow == [name : {0, 1}, users_counter : Nat, keys_counter : Nat,
             max_keys : {0, 1}, keys_liveness : {0, 1}]
KeyRow   == [name : {0, 1}, owner : Group \cup {Zombie}, status : Status]

IsTable(table, Id, Row) == DOMAIN table \subseteq Id /\ table \in [DOMAIN table -> Row]

\* The groups of a user, the members of a group, and the users that share a
\* group with u, in a database.
GroupsOf(db, u)  == {g \in Group : <<u, g>> \in db.member}
MembersOf(db, g) == {u \in User : <<u, g>> \in db.member}
Peers(db, u)     == UNION {MembersOf(db, g) : g \in GroupsOf(db, u)}

-----------------------------------------------------------------------------
(* SQL texts.  A text is a sequence of statements.                         *)

Clear == [do |-> "clear"]
Insert(users, groups, member, keys) ==
  [do |-> "insert",
   rows |-> [users |-> users, groups |-> groups, member |-> member, keys |-> keys]]
Count(column, group, step) ==
  [do |-> "count", column |-> column, group |-> group, step |-> step]
Set(table, id, column, value) ==
  [do |-> "set", table |-> table, id |-> id, column |-> column, value |-> value]

\* An INSERT of a row whose primary key is taken fails.
Executes(db, s) ==
  s.do = "insert" =>
    /\ DOMAIN db.users \cap DOMAIN s.rows.users = {}
    /\ DOMAIN db.groups \cap DOMAIN s.rows.groups = {}
    /\ DOMAIN db.keys \cap DOMAIN s.rows.keys = {}
    /\ db.member \cap s.rows.member = {}

\* The database after a statement; an UPDATE of an absent row changes nothing.
After(db, s) ==
  CASE s.do = "clear"  -> NoRows
    [] s.do = "insert" -> [users  |-> Plus(db.users, s.rows.users),
                           groups |-> Plus(db.groups, s.rows.groups),
                           member |-> db.member \cup s.rows.member,
                           keys   |-> Plus(db.keys, s.rows.keys)]
    [] s.do = "count"  -> IF s.group \in DOMAIN db.groups
                            THEN [db EXCEPT !.groups[s.group][s.column] = @ + s.step]
                            ELSE db
    [] s.do = "set"    -> IF s.id \in DOMAIN db[s.table]
                            THEN [db EXCEPT ![s.table][s.id][s.column] = s.value]
                            ELSE db

\* The statements of a text one by one, up to one that fails.
Statements(db, text) ==
  LET run[i \in 0..Len(text)] ==
        IF i = 0 THEN [db |-> db, ok |-> TRUE]
        ELSE LET p == run[i - 1]
             IN  IF p.ok /\ Executes(p.db, text[i])
                   THEN [db |-> After(p.db, text[i]), ok |-> TRUE]
                   ELSE [db |-> p.db, ok |-> FALSE]
  IN  run[Len(text)]

usr_sql_exec(d, text) ==
  LET end == Statements(d.db, text) IN [d EXCEPT !.db = end.db, !.ok = end.ok]

-----------------------------------------------------------------------------
(* The requests a device of user u executes by itself.                     *)

\* The Users rows that stay: the user's own, and those of users in a group.
Known(db, u) == {v \in DOMAIN db.users : v = u \/ GroupsOf(db, v) # {}}

KeysOf(db, g) == {k \in DOMAIN db.keys : db.keys[k].owner = g}

\* The user leaves group g: whatever belongs to no known group goes.
usr_leave_group(d, u, g) ==
  LET groups == Drop(d.db.groups, {g})
      left == [d.db EXCEPT !.groups = groups,
                           !.member = {m \in @ : m[2] \in DOMAIN groups},
                           !.keys = [k \in {x \in DOMAIN @ : @[x].owner \in DOMAIN groups} |-> @[k]]]
  IN  [d EXCEPT !.db = [left EXCEPT !.users = Restrict(@, Known(left, u))],
                !.flash = @ \ KeysOf(d.db, g)]

usr_delete_user_from_group(d, u, uid, g) ==
  IF uid = u
    THEN usr_leave_group(d, u, g)
    ELSE LET left == After([d.db EXCEPT !.member = @ \ {<<uid, g>>}],
                           Count("users_counter", g, -1))
         IN  [d EXCEPT !.db = [left EXCEPT !.users = Restrict(@, Known(left, u))]]

\* Group g is no more: its row, its members, its keys, the users left alone.
usr_delete_group(d, u, g) ==
  LET left == [d.db EXCEPT !.groups = Drop(@, {g}),
                           !.member = {m \in @ : m[2] # g},
                           !.keys = Drop(@, KeysOf(d.db, g))]
  IN  [d EXCEPT !.db = [left EXCEPT !.users = Restrict(@, Known(left, u))],
                !.flash = @ \ KeysOf(d.db, g)]

\* The user's own deletion empties the tables and, when the user is in them,
\* the flash.
usr_delete_user(d, u, uid) ==
  IF uid = u
    THEN [d EXCEPT !.db = NoRows,
                   !.flash = IF u \in DOMAIN d.db.users THEN {} ELSE @]
    ELSE LET gs == GroupsOf(d.db, uid)
             counted == [g \in DOMAIN d.db.groups |->
                           IF g \in gs
                             THEN [d.db.groups[g] EXCEPT !.users_counter = @ - 1]
                             ELSE d.db.groups[g]]
         IN  [d EXCEPT !.db.groups = counted,
                       !.db.member = {m \in @ : m[1] # uid},
                       !.db.users = Drop(@, {uid})]

\* The content of a key is encrypted with k2, which the user's own row names.
usr_store_key(d, u, k) ==
  IF u \in DOMAIN d.db.users /\ d.updkeys
    THEN [d EXCEPT !.flash = @ \cup {k}]
    ELSE [d EXCEPT !.ok = FALSE]

-----------------------------------------------------------------------------
(* Records and files.                                                      *)

SQL(text)    == [type |-> "SQL_QUERY", text |-> text]
DelFromGroup(u, g) == [type |-> "DELETE_USER_FROM_GROUP", user |-> u, group |-> g]
DelUser(u)   == [type |-> "DELETE_USER", user |-> u]
DelGroup(g)  == [type |-> "DELETE_GROUP", group |-> g]
KeyData(k)   == [type |-> "KEY_DATA", key |-> k]

Record(cnt, cmd) == [cnt |-> cnt, cmd |-> cmd]

Perform(d, u, cmd) ==
  CASE cmd.type = "SQL_QUERY"              -> usr_sql_exec(d, cmd.text)
    [] cmd.type = "DELETE_USER_FROM_GROUP" ->
         usr_delete_user_from_group(d, u, cmd.user, cmd.group)
    [] cmd.type = "DELETE_USER"            -> usr_delete_user(d, u, cmd.user)
    [] cmd.type = "DELETE_GROUP"           -> usr_delete_group(d, u, cmd.group)
    [] cmd.type = "KEY_DATA"               -> usr_store_key(d, u, cmd.key)

\* One record of an update file: skipped when its counter was reached before,
\* refused when it is not the next one; 0 restarts the count.
Apply(d, u, r) ==
  IF ~d.ok \/ (r.cnt # 0 /\ r.cnt <= d.cnt) THEN d
  ELSE IF r.cnt > d.cnt + 1 THEN [d EXCEPT !.ok = FALSE]
  ELSE Perform([d EXCEPT !.cnt = r.cnt], u, r.cmd)

\* Records in their order.
Performed(d, u, records) ==
  LET run[i \in 0..Len(records)] == IF i = 0 THEN d ELSE Apply(run[i - 1], u, records[i])
  IN  run[Len(records)]

\* A whole file; the counter ends in the user's own row.
Executed(d, u, file) ==
  LET end == Performed(d, u, file)
  IN  IF u \in DOMAIN end.db.users THEN end ELSE [end EXCEPT !.cnt = 0]

\* Only DELETE_USER in a recovery file is encrypted with the wildcard key.
Readable(d, file) == d.updkeys \/ (file # <<>> /\ Head(file).cmd.type = "DELETE_USER")

\* se3_flash_maintenance_routine: the keys no row asks for leave the flash.
se3_flash_maintenance_routine(d, u) ==
  [d EXCEPT !.updkeys = @ /\ u \in DOMAIN d.db.users,
            !.flash = {k \in @ : /\ k \in DOMAIN d.db.keys
                                 /\ d.db.keys[k].status # "destroyed"}]

-----------------------------------------------------------------------------
(* What sekey_write_recovery puts in a recovery file for user u.           *)

\* One INSERT for each row.
RecoveryUsers(db, u) ==
  LET v == SetToSeq(Peers(db, u) \cap DOMAIN db.users)
  IN  [i \in DOMAIN v |-> SQL(<<Insert(Restrict(db.users, {v[i]}), <<>>, {}, <<>>)>>)]

RecoveryGroups(db, u) ==
  LET g == SetToSeq(GroupsOf(db, u) \cap DOMAIN db.groups)
  IN  [i \in DOMAIN g |-> SQL(<<Insert(<<>>, Restrict(db.groups, {g[i]}), {}, <<>>)>>)]

RecoveryMembers(db, u) ==
  LET m == SetToSeq({x \in db.member : x[2] \in GroupsOf(db, u)})
  IN  [i \in DOMAIN m |-> SQL(<<Insert(<<>>, <<>>, {m[i]}, <<>>)>>)]

\* Each key's row and, unless the key is destroyed, its content.
RecoveryKey(db, k) ==
  <<SQL(<<Insert(<<>>, <<>>, {}, Restrict(db.keys, {k}))>>)>>
  \o IF db.keys[k].status = "destroyed" THEN <<>> ELSE <<KeyData(k)>>

RecoveryKeys(db, u) ==
  LET k == SetToSeq({x \in DOMAIN db.keys : db.keys[x].owner \in GroupsOf(db, u)})
      upTo[i \in 0..Len(k)] == IF i = 0 THEN <<>> ELSE upTo[i - 1] \o RecoveryKey(db, k[i])
  IN  upTo[Len(k)]

RecoveryFile(db, u) ==
  LET cmds == <<SQL(<<Clear>>)>> \o RecoveryUsers(db, u) \o RecoveryGroups(db, u)
              \o RecoveryMembers(db, u) \o RecoveryKeys(db, u)
  IN  [i \in DOMAIN cmds |-> Record(0, cmds[i])]

-----------------------------------------------------------------------------
(* What user u should know: written down from the purpose of the tables,   *)
(* not from the code that sends them.                                      *)

View(db, u) ==
  [users  |-> Restrict(db.users, {v \in DOMAIN db.users : v = u \/ v \in Peers(db, u)}),
   groups |-> Restrict(db.groups, GroupsOf(db, u)),
   member |-> {m \in db.member : m[2] \in GroupsOf(db, u)},
   keys   |-> Restrict(db.keys, {k \in DOMAIN db.keys : db.keys[k].owner \in GroupsOf(db, u)})]

Needed(db) == {k \in DOMAIN db.keys : db.keys[k].status # "destroyed"}
=============================================================================
