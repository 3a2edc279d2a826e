------------------------------- MODULE KeyUse -------------------------------
(***************************************************************************)
(* The life of the keys of SEkey and how a user gets one to encrypt with.  *)
(* The administrator adds keys to groups, activates them, changes their    *)
(* status and who is in a group; what it commits is queued for each member *)
(* and executed, in order, when the member next updates its data (module   *)
(* SEkey is about how that is kept true).  A key expires by the clock,     *)
(* which runs during every call: whoever finds an expired key deactivates  *)
(* it, the administrator for everybody and a user for itself.              *)
(*                                                                         *)
(* A user encrypts a message with the key that sekey_find_key chooses, and *)
(* the sectors of an open file with the file's own key.                    *)
(***************************************************************************)
EXTENDS Naturals, FiniteSets, SequencesExt, KeyStates

CONSTANTS User, Group,
          Key,      \* key ids: the number after the letter K
          Request,  \* what a user may ask a key for: users (sekey_find_key_v1
                    \* for one and v3 for more) or one group (v2)
          Starts,   \* where a behaviour may start: the groups' default
                    \* cryptoperiods and members, the keys there are, what
                    \* each user's program does, and the administrator's
                    \* calls to come
          Margin,   \* a key is taken for expired that many seconds before it is
          Horizon   \* bound of the clock

\* A row of SeKeys, and the tables of such rows: a key that is or was in use expires.
Rows == [owner : Group, status : Status,
         activation : Nat, expiration : Nat, cryptoperiod : Nat, deactivation : Nat]
Table(rows) == rows \in [DOMAIN rows -> Rows] /\ DOMAIN rows \subseteq Key
Bounded(rows) ==
  \A k \in DOMAIN rows :
    /\ rows[k].status \in {"active", "suspended"} => rows[k].activation # 0
    /\ rows[k].activation # 0 => rows[k].activation < rows[k].expiration

ASSUME KeyUseAssumption ==
  /\ IsFiniteSet(User) /\ Key \subseteq Nat /\ Margin \in Nat /\ Horizon \in Nat \ {0}
  /\ \A r \in Request : /\ r.users \subseteq User /\ r.groups \subseteq Group
                        /\ r.users = {} \/ r.groups = {}
  /\ \A s \in Starts : /\ s.policy \in [Group -> Nat]
                       /\ s.member \subseteq User \X Group
                       /\ Table(s.keys) /\ Bounded(s.keys)
                       /\ s.program \in [User -> SUBSET {"messages", "files"}]
                       /\ s.calls \in Nat

VARIABLES
  now,     \* sekey_gettime
  policy,  \* keys_liveness in the administrator's Groups rows
  member,  \* its UserGroup rows
  keys,    \* its SeKeys rows
  pending, \* the updates each user has not executed yet
  dev,     \* the device of each user
  calls    \* the administrator's calls to come

vars == <<now, policy, member, keys, pending, dev, calls>>

Direction == {"encrypt", "decrypt"}
NoKey == 0
Never == 0

NoRequest == [users |-> {}, groups |-> {}]

\* told is history: what the administrator's tables said at the last update.
NotTold == [member |-> {}, active |-> {}]

\* A device: its program and its tables; pc, the call it is in; the request; when
\* this call last checked for expired keys; the key of the call and what it is
\* for; and of the open file, the key and when it was last found usable.
Device(program, m, rows) ==
  [program |-> program, member |-> m, keys |-> rows, pc |-> "idle", request |-> NoRequest,
   checked |-> Never, key |-> NoKey, direction |-> "encrypt", currtime |-> Never,
   file |-> NoKey, last |-> [d \in Direction |-> Never], told |-> NotTold]

Active(rows) == {k \in DOMAIN rows : rows[k].status = "active"}
MembersOf(m, g) == {u \in User : <<u, g>> \in m}
GroupsOf(m, u) == {g \in Group : <<u, g>> \in m}
Owned(rows, G) == {k \in DOMAIN rows : rows[k].owner \in G}

Init ==
  /\ now = 1
  /\ \E s \in Starts :
       /\ policy = s.policy /\ member = s.member /\ keys = s.keys
       /\ calls = s.calls
       /\ dev = [u \in User |->
            LET G == GroupsOf(s.member, u)
            IN  Device(s.program[u], {m \in s.member : m[2] \in G}, Restrict(s.keys, Owned(s.keys, G)))]
  /\ pending = [u \in User |-> <<>>]

-----------------------------------------------------------------------------
(* Updates.  A statement about a row that a device does not have changes    *)
(* nothing.                                                                *)

Change(columns) == [do |-> "change", columns |-> columns]
NewKey(k, row) == [do |-> "key", key |-> k, row |-> row]
Leave(u, g) == [do |-> "leave", user |-> u, group |-> g]
Join(pairs, rows) == [do |-> "join", pairs |-> pairs, rows |-> rows]

\* New rows among others, and new values of some columns of a row.
Only(k, row) == [x \in {k} |-> row]
Over(new, old) ==
  [x \in DOMAIN new \cup DOMAIN old |-> IF x \in DOMAIN new THEN new[x] ELSE old[x]]
After(rows, columns) ==
  [k \in DOMAIN rows |-> IF k \in DOMAIN columns THEN Over(columns[k], rows[k]) ELSE rows[k]]

\* The tables of u after a statement.
Execute(t, u, s) ==
  CASE s.do = "change" -> [t EXCEPT !.keys = After(@, s.columns)]
    [] s.do = "key"    -> [t EXCEPT !.keys = Over(Only(s.key, s.row), @)]
    [] s.do = "leave" /\ s.user # u -> [t EXCEPT !.member = @ \ {<<s.user, s.group>>}]
    [] s.do = "leave" /\ s.user = u ->
         [t EXCEPT !.member = {m \in @ : m[2] # s.group},
                   !.keys = Restrict(@, DOMAIN @ \ Owned(@, {s.group}))]
    [] s.do = "join"   -> [t EXCEPT !.member = @ \cup s.pairs, !.keys = Over(s.rows, @)]

\* They are executed one after the other.
Tables(d) == [member |-> d.member, keys |-> d.keys]
Executed(t, u, queue) ==
  LET run[i \in 0..Len(queue)] == IF i = 0 THEN t ELSE Execute(run[i - 1], u, queue[i])
  IN  run[Len(queue)]

\* user_allowed: everything that is pending is executed.
Updated(d, u) ==
  LET t == Executed(Tables(d), u, pending[u])
  IN  [d EXCEPT !.member = t.member, !.keys = t.keys,
                !.told = [member |-> member, active |-> Active(keys)]]

Queue(S, s) == pending' = [u \in User |-> IF u \in S THEN Append(pending[u], s) ELSE pending[u]]

-----------------------------------------------------------------------------
(* Expiry.                                                                 *)

\* Mutant of Expired: the safety range is one second shorter.
ExpiredLate(rows) ==
  {k \in DOMAIN rows : /\ rows[k].status \in {"active", "suspended"}
                       /\ rows[k].expiration # 0 /\ rows[k].expiration < now + Margin}

\* The keys sekey_check_expired_keys deactivates.
Expired(rows) ==
  {k \in DOMAIN rows : /\ rows[k].status \in {"active", "suspended"}
                       /\ rows[k].expiration # 0 /\ rows[k].expiration <= now + Margin}

\* A user deactivates them in its own tables: at the expiration time of whichever
\* key the query returned last, of all that are active or suspended.
CheckedAs(d, k) ==
  [d EXCEPT !.checked = now,
            !.keys = [x \in DOMAIN @ |->
              IF x \in Expired(d.keys)
                THEN [@[x] EXCEPT !.status = "deactivated", !.deactivation = d.keys[k].expiration]
                ELSE @[x]]]

Checked(d) ==
  LET live == {k \in DOMAIN d.keys : d.keys[k].status \in {"active", "suspended"}}
  IN  IF Expired(d.keys) = {} THEN {[d EXCEPT !.checked = now]}
      ELSE {CheckedAs(d, k) : k \in live}

-----------------------------------------------------------------------------
(* The administrator.                                                      *)

Call == calls > 0 /\ calls' = calls - 1
AdminOnly == UNCHANGED <<now, policy, dev>>

Members(g) == MembersOf(member, g)

sekey_add_key(k, g, cryptoperiod) ==
  LET row == [owner |-> g, status |-> "preactive", activation |-> 0, expiration |-> 0,
              cryptoperiod |-> cryptoperiod, deactivation |-> 0]
  IN  /\ Call
      /\ k \notin DOMAIN keys
      /\ keys' = Over(Only(k, row), keys)
      /\ Queue(Members(g), NewKey(k, row))
      /\ UNCHANGED member /\ AdminOnly

\* A change of a key, for the members of the group that owns it.
Alter(k, columns) ==
  /\ keys' = After(keys, Only(k, columns))
  /\ Queue(Members(keys[k].owner), Change(Only(k, columns)))
  /\ UNCHANGED member /\ AdminOnly

\* The time a key may be used for: its own, or the default of its group.
Cryptoperiod(k) == IF keys[k].cryptoperiod # 0 THEN keys[k].cryptoperiod
                   ELSE policy[keys[k].owner]

\* The times are set at the first activation only.
sekey_activate_key(k) ==
  /\ Call
  /\ k \in DOMAIN keys
  /\ check_key_transition_validity(keys[k].status, "active")
  /\ IF keys[k].activation = 0
       THEN /\ Cryptoperiod(k) # 0
            /\ Alter(k, [status |-> "active", activation |-> now,
                         expiration |-> now + Cryptoperiod(k)])
       ELSE Alter(k, [status |-> "active"])

StatusChange(k, status) ==
  IF status # "deactivated" THEN [status |-> status]
  ELSE [status |-> status,
        deactivation |-> IF keys[k].expiration = 0 THEN now ELSE keys[k].expiration]

sekey_key_change_status(k, status) ==
  /\ Call
  /\ k \in DOMAIN keys
  /\ status \in Changeable
  /\ check_key_transition_validity(keys[k].status, status)
  /\ Alter(k, StatusChange(k, status))

\* The administrator's own check, at its start and in some of its calls: a change
\* of status for each expired key.
sekey_check_expired_keys ==
  LET deactivations(K) == [k \in K |-> StatusChange(k, "deactivated")]
      expired(u) == {k \in Expired(keys) : u \in Members(keys[k].owner)}
  IN  /\ Expired(keys) # {}
      /\ keys' = After(keys, deactivations(Expired(keys)))
      /\ pending' = [u \in User |->
           IF expired(u) = {} THEN pending[u]
           ELSE Append(pending[u], Change(deactivations(expired(u))))]
      /\ UNCHANGED <<member, calls>> /\ AdminOnly

sekey_delete_user_group(u, g) ==
  /\ Call
  /\ <<u, g>> \in member
  /\ member' = member \ {<<u, g>>}
  /\ Queue(Members(g), Leave(u, g))
  /\ UNCHANGED keys /\ AdminOnly

\* It has checked for expired keys before.
sekey_add_user_group(u, g) ==
  /\ Call
  /\ <<u, g>> \notin member
  /\ Expired(keys) = {}
  /\ member' = member \cup {<<u, g>>}
  /\ pending' = [v \in User |->
       IF v = u THEN Append(pending[v], Join({m \in member' : m[2] = g},
                                             Restrict(keys, Owned(keys, {g}))))
       ELSE IF v \in Members(g) THEN Append(pending[v], Join({<<u, g>>}, <<>>))
       ELSE pending[v]]
  /\ UNCHANGED keys /\ AdminOnly

-----------------------------------------------------------------------------
(* Choosing a key.                                                         *)

\* Mutant of CommonGroups: groups without a key to use count.
CommonGroupsAny(d, u, users) ==
  {g \in GroupsOf(d.member, u) : \A v \in users : <<v, g>> \in d.member}

\* The groups of u and of all the users it wants to reach, with a key to use.
CommonGroups(d, u, users) ==
  {g \in GroupsOf(d.member, u) : /\ \A v \in users : <<v, g>> \in d.member
                                 /\ Owned(d.keys, {g}) \cap Active(d.keys) # {}}

\* Those with the fewest members.
Smallest(d, G) ==
  {g \in G : \A h \in G :
     Cardinality(MembersOf(d.member, g)) <= Cardinality(MembersOf(d.member, h))}

SelectedGroups(d, u, request) ==
  IF request.groups # {} THEN request.groups \cap GroupsOf(d.member, u)
  ELSE Smallest(d, CommonGroups(d, u, request.users))

Span(row) == row.expiration - row.activation

\* Mutant of safer: nothing decides between keys that are used equally long.
saferUpToSpan(rows, k, c) == Span(rows[k]) < Span(rows[c])

\* algovalid accepts one algorithm only, and algocmp finds all keys equal.
safer(rows, k, c) == \/ Span(rows[k]) < Span(rows[c])
                     \/ Span(rows[k]) = Span(rows[c]) /\ k < c

\* The loop keeps the key that is safer than the one before: one that no other is
\* safer than, whichever of them the query returns first.
Chosen(d, u, request) ==
  LET S == Owned(d.keys, SelectedGroups(d, u, request)) \cap Active(d.keys)
  IN  {k \in S : \A c \in S : ~safer(d.keys, c, k)}

-----------------------------------------------------------------------------
(* A user's calls.                                                         *)

At(u, pc) == dev[u].pc = pc
Becomes(u, d) == dev' = [dev EXCEPT ![u] = d]
UserOnly == UNCHANGED <<now, policy, member, keys, calls>>
Done(d) == [d EXCEPT !.pc = "idle", !.request = NoRequest, !.key = NoKey, !.checked = Never,
                     !.currtime = Never, !.direction = "encrypt", !.told = NotTold]
Does(u, program) == program \in dev[u].program

\* Mutant of FindKey: a failed update does not block the user.
FindKeyUnblocked(u, request) ==
  /\ At(u, "idle") /\ Does(u, "messages")
  /\ Becomes(u, [dev[u] EXCEPT !.pc = "updated", !.request = request,
                               !.told = [member |-> member, active |-> Active(keys)]])
  /\ UNCHANGED pending /\ UserOnly

\* sekey_find_key: the update comes first.
FindKey(u, request) ==
  /\ At(u, "idle") /\ Does(u, "messages")
  /\ Becomes(u, [Updated(dev[u], u) EXCEPT !.pc = "updated", !.request = request])
  /\ pending' = [pending EXCEPT ![u] = <<>>]
  /\ UserOnly

CheckExpired(u) ==
  /\ At(u, "updated")
  /\ \E d \in Checked(dev[u]) : Becomes(u, [d EXCEPT !.pc = "checked"])
  /\ UNCHANGED pending /\ UserOnly

ChooseKey(u) ==
  /\ At(u, "checked")
  /\ LET S == Chosen(dev[u], u, dev[u].request)
     IN  IF S = {} THEN Becomes(u, Done(dev[u]))
         ELSE \E k \in S : Becomes(u, [dev[u] EXCEPT !.pc = "found", !.key = k])
  /\ UNCHANGED pending /\ UserOnly

\* selink_encrypt_manual, and a sector of a file.
Encrypt(u) ==
  /\ dev[u].pc \in {"found", "usable"}
  /\ Becomes(u, Done(dev[u]))
  /\ UNCHANGED pending /\ UserOnly

-----------------------------------------------------------------------------
(* SEfile: secure_key_check, before a file with a key of SEkey is used.    *)

secure_init(u, k) ==
  /\ At(u, "idle")
  /\ Does(u, "files") /\ dev[u].file = NoKey /\ k \in DOMAIN dev[u].keys
  /\ Becomes(u, [dev[u] EXCEPT !.file = k, !.last = [d \in Direction |-> Never]])
  /\ UNCHANGED pending /\ UserOnly

secure_finit(u) ==
  /\ At(u, "idle")
  /\ dev[u].file # NoKey
  /\ Becomes(u, [dev[u] EXCEPT !.file = NoKey, !.last = [d \in Direction |-> Never]])
  /\ UNCHANGED pending /\ UserOnly

\* A key that was found usable within this second is not asked for again.
secure_key_check(u, direction) ==
  /\ At(u, "idle")
  /\ dev[u].file # NoKey
  /\ \E d \in Checked(dev[u]) :
       Becomes(u, [d EXCEPT
         !.pc = IF d.last[direction] # Never /\ now - d.last[direction] < 1
                  THEN "usable" ELSE "asking",
         !.key = d.file, !.direction = direction, !.currtime = now])
  /\ UNCHANGED pending /\ UserOnly

\* sekey_key_get_info: an update, when it works, and a check once more.
sekey_key_get_info(u) ==
  /\ At(u, "asking")
  /\ \/ /\ Becomes(u, [Updated(dev[u], u) EXCEPT !.pc = "asked"])
        /\ pending' = [pending EXCEPT ![u] = <<>>]
     \/ /\ Becomes(u, [Done(dev[u]) EXCEPT !.last[dev[u].direction] = Never])
        /\ UNCHANGED pending
  /\ UserOnly

Usable(direction) == IF direction = "encrypt" THEN {"active"}
                     ELSE {"active", "suspended", "deactivated"}

KeyStatus(u) ==
  /\ At(u, "asked")
  /\ \E d \in Checked(dev[u]) :
       IF d.key \in DOMAIN d.keys /\ d.keys[d.key].status \in Usable(d.direction)
         THEN Becomes(u, [d EXCEPT !.pc = "usable", !.last[d.direction] = d.currtime])
         ELSE Becomes(u, [Done(d) EXCEPT !.last[d.direction] = Never])
  /\ UNCHANGED pending /\ UserOnly

-----------------------------------------------------------------------------

\* "the application using SEkey should always keep the lag between the key
\* retrieval and the key usage as small as possible" (SEkey.cpp:2993): it is at
\* most Margin.
Tick ==
  /\ now < Horizon
  /\ \A u \in User : dev[u].checked # Never => now < dev[u].checked + Margin
  /\ now' = now + 1
  /\ UNCHANGED <<policy, member, keys, pending, dev, calls>>

Admin ==
  \/ sekey_check_expired_keys
  \/ \E k \in Key : \/ \E g \in Group, p \in {0, Margin + 2} : sekey_add_key(k, g, p)
                    \/ sekey_activate_key(k)
                    \/ \E s \in Status : sekey_key_change_status(k, s)
  \/ \E u \in User, g \in Group : sekey_delete_user_group(u, g) \/ sekey_add_user_group(u, g)

UserStep(u) ==
  \/ \E r \in Request : FindKey(u, r)
  \/ CheckExpired(u) \/ ChooseKey(u) \/ Encrypt(u)
  \/ \E k \in Key : secure_init(u, k)
  \/ secure_finit(u)
  \/ \E d \in Direction : secure_key_check(u, d)
  \/ sekey_key_get_info(u) \/ KeyStatus(u)

Next == Admin \/ (\E u \in User : UserStep(u)) \/ Tick

Spec == Init /\ [][Next]_vars

-----------------------------------------------------------------------------
(* Properties.                                                             *)

\* Rows and devices have their types; in every table, a key that may be used has
\* an expiration time, without which sekey_check_expired_keys would never
\* deactivate it.
TypeOK ==
  /\ now \in 1..Horizon /\ calls \in Nat
  /\ member \subseteq User \X Group
  /\ \A rows \in {keys} \cup {dev[u].keys : u \in User} :
       Table(rows) /\ Bounded(rows)
  /\ \A u \in User : /\ dev[u].pc \in {"idle", "updated", "checked", "found",
                                       "asking", "asked", "usable"}
                      /\ dev[u].checked \in 0..now
                      /\ \A d \in Direction : dev[u].last[d] \in 0..now

\* The key chosen for a message was active for the administrator when the call
\* asked for updates, and was then the key of a group of everybody concerned,
\* however long ago the device was last up to date.
FoundFresh ==
  \A u \in User :
    dev[u].pc = "found" =>
      LET g == dev[u].keys[dev[u].key].owner
      IN  /\ dev[u].key \in dev[u].told.active
          /\ \A v \in {u} \cup dev[u].request.users : <<v, g>> \in dev[u].told.member

\* Nothing is encrypted with a key that has expired, whenever it happens after
\* the check: although the clock runs, and a suspended key may be activated again
\* when it has expired.
InTime ==
  \A u \in User :
    dev[u].pc \in {"found", "usable"} /\ dev[u].direction = "encrypt" =>
      dev[u].key \in DOMAIN keys /\ now < keys[dev[u].key].expiration

\* A device that has everything and has just checked.
Current(u) == At(u, "checked") /\ pending[u] = <<>> /\ dev[u].checked = now

\* An up to date user can reach whoever it shares a group with that has an active
\* key of more than Margin seconds, whatever smaller or better groups and keys
\* are not usable any more.
Available ==
  \A u \in User :
    Current(u) =>
      LET S == {k \in Active(keys) : /\ keys[k].expiration > now + Margin
                                     /\ \A v \in {u} \cup dev[u].request.users :
                                          <<v, keys[k].owner>> \in member
                                     /\ dev[u].request.groups \subseteq {keys[k].owner}}
      IN  S # {} => Chosen(dev[u], u, dev[u].request) # {}

\* Two up to date users choose the same key for each other, whatever the order
\* their databases return the rows in.
Agree ==
  \A u, v \in User :
    Current(u) /\ Current(v) =>
      LET mine == Chosen(dev[u], u, [users |-> {v}, groups |-> {}])
      IN  /\ mine = Chosen(dev[v], v, [users |-> {u}, groups |-> {}])
          /\ Cardinality(mine) <= 1

\* "deactivation is always less or equal to the expiration time" (SEkey.h:226).
DeactivatedByExpiration ==
  \A rows \in {keys} \cup {dev[u].keys : u \in User} : \A k \in DOMAIN rows :
    rows[k].expiration # 0 => rows[k].deactivation <= rows[k].expiration
=============================================================================
