------------------------------- MODULE SEkey -------------------------------
(***************************************************************************)
(* SEkey: the administrator changes its database, one committed            *)
(* transaction per call, and writes what changed to an update file of each *)
(* user concerned; a user's device executes its files, one transaction per *)
(* file.  Every write of the administrator may fail and the program may    *)
(* stop at any point; the Recovery table, filled in the transaction of the *)
(* change, remembers who may have missed something.                        *)
(*                                                                         *)
(* The files of a user are on a share.  Exclusive says whether the share   *)
(* lets a whole call of one program finish before a call of another begins.*)
(***************************************************************************)
EXTENDS SEkeyTables

CONSTANTS Exclusive,   \* BOOLEAN
          Starts,      \* what there may be at the start: users with a
                       \* provisioned device, UserGroup rows, keys'
                       \* owners, and the calls of the administrator to come
          MaxFaults    \* the writes that fail, and the programs that stop

ASSUME SEkeyAssumption ==
  /\ Exclusive \in BOOLEAN
  /\ MaxFaults \in Nat
  /\ \A s \in Starts : /\ s.users \subseteq User
                       /\ s.member \subseteq s.users \X Group
                       /\ s.owner \in [DOMAIN s.owner -> {m[2] : m \in s.member}]
                       /\ DOMAIN s.owner \subseteq Key
                       /\ s.calls \in Nat

VARIABLES
  adm,             \* the administrator's tables
  aflash,          \* the keys in the flash of the administrator's device
  update_counter,  \* the column of that name of the administrator's Users rows
  recovery,        \* the Recovery table, by user
  sends,           \* what the current call has still to write, in order
  file,            \* the update files of each user, by name, as they exist
  dev,             \* the device of each user
  expiring,        \* the check for expired keys of the call to come has
                   \* deactivated one
  forgotten,       \* history: users of whom a loss was not put on record
  calls,           \* the calls that may still be made
  faults           \* what MaxFaults bounds

vars == <<adm, aflash, update_counter, recovery, sends, file, dev, expiring, forgotten,
          calls, faults>>

File == {"init", "recovery", "normal"}
NoFiles == <<>>

\* The transaction of a device: its tables, its counter, and the records of the
\* file that are still to be executed.
NoTx == [db |-> NoRows, cnt |-> 0, todo |-> <<>>]

\* A device: provisioned by sekey_init_user_SEcube or not; pc is the file its
\* update call is at, or "idle".
Blank == [ready |-> FALSE, db |-> NoRows, cnt |-> 0, flash |-> {}, updkeys |-> FALSE,
          blocked |-> TRUE, pc |-> "idle", open |-> FALSE, tx |-> NoTx]

\* What the records of an update file are executed on.
Work(d) == [db |-> d.tx.db, cnt |-> d.tx.cnt, flash |-> d.flash, updkeys |-> d.updkeys,
            ok |-> TRUE]

Present(u) == u \in DOMAIN adm.users

Pending(u, f) == f \in DOMAIN file[u]
Records(u, f) == IF Pending(u, f) THEN file[u][f] ELSE <<>>
WithFile(files, f, records) == Plus(files, [x \in {f} |-> records])
WithoutFile(files, f) == Drop(files, {f})

-----------------------------------------------------------------------------

StartTables(s) ==
  [users  |-> [u \in s.users |-> [username |-> 0]],
   groups |-> [g \in {m[2] : m \in s.member} |->
                [name |-> 0, max_keys |-> 0, keys_liveness |-> 0,
                 users_counter |-> Cardinality({m \in s.member : m[2] = g}),
                 keys_counter |-> Cardinality({k \in DOMAIN s.owner : s.owner[k] = g})]],
   member |-> s.member,
   keys   |-> [k \in DOMAIN s.owner |-> [name |-> 0, owner |-> s.owner[k], status |-> "active"]]]

\* A device that has all there is for its user.
UpToDate(u) == LET view == View(adm, u)
               IN  [Blank EXCEPT !.ready = TRUE, !.updkeys = TRUE, !.blocked = FALSE,
                                 !.db = view, !.flash = DOMAIN view.keys]

Init ==
  /\ \E s \in Starts :
       /\ adm = StartTables(s)
       /\ aflash = DOMAIN s.owner
       /\ calls = s.calls
       /\ dev = [u \in User |-> IF u \in s.users THEN UpToDate(u) ELSE Blank]
  /\ update_counter = [u \in User |-> 0]
  /\ recovery = {}
  /\ sends = <<>>
  /\ file = [u \in User |-> NoFiles]
  /\ expiring = FALSE
  /\ forgotten = {}
  /\ faults = 0

Fault == faults < MaxFaults /\ faults' = faults + 1

\* With Exclusive, nobody is in the middle of a call.
Free == Exclusive => sends = <<>> /\ \A u \in User : dev[u].pc = "idle"

-----------------------------------------------------------------------------
(* The administrator's calls.  A call that changes the tables recovers     *)
(* every user of the Recovery table first and goes on only when none is    *)
(* left; then it commits the change with the users it concerns put in the  *)
(* Recovery table (fill_recovery), and then it sends.  A commit that fails *)
(* is rolled back and leaves no trace.  Two calls deactivate the expired   *)
(* keys between the recovery and the change, and that is a change itself,  *)
(* with users in the Recovery table and with sends.                        *)

Send(u, cmd, erase) == [to |-> u, cmd |-> cmd, erase |-> erase]
SendAll(S, cmd, erase) == LET q == SetToSeq(S)
                          IN  [i \in DOMAIN q |-> Send(q[i], cmd, erase)]

Ready == sends = <<>> /\ Free /\ calls > 0

Call == Ready /\ calls' = calls - 1 /\ expiring' = FALSE

Recipients(queue) == {queue[i].to : i \in DOMAIN queue}

Transaction(new, queue) ==
  /\ adm' = new
  /\ recovery' = recovery \cup Recipients(queue)
  /\ sends' = queue
  /\ UNCHANGED <<update_counter, file, dev, faults>>

Commit(new, queue) == Call /\ recovery = {} /\ Transaction(new, queue)

\* The change of a call that checks for expired keys after it has recovered: a
\* user the check has left in the Recovery table is not put there again, and the
\* next record that can be written takes it out.
CommitChecked(new, queue) ==
  /\ Call
  /\ recovery = {} \/ expiring
  /\ Transaction(new, queue)
  /\ forgotten' = forgotten \cup (recovery \cap Recipients(queue))

NewUserRow == [username |-> 0]

\* A user here is an id with a serial number, which is made from the time: a
\* pair is given once.
sekey_add_user(u) ==
  /\ Call
  /\ ~Present(u) /\ ~dev[u].ready /\ file[u] = NoFiles /\ u \notin recovery \cup forgotten
  /\ adm' = [adm EXCEPT !.users = Plus(@, [x \in {u} |-> NewUserRow])]
  /\ UNCHANGED <<aflash, update_counter, recovery, sends, file, dev, forgotten, faults>>

\* A device that was just given its keys, and the init file of its user.
Provisioned == [Blank EXCEPT !.ready = TRUE, !.updkeys = TRUE]

InitFile(u) ==
  <<Record(0, SQL(<<Clear, Insert([x \in {u} |-> adm.users[u]], <<>>, {}, <<>>)>>))>>

\* The device gets its keys, then the init file is written and committed.  A
\* second device for the same user starts from an init file alone.  When the file
\* cannot be written, or the program stops first, the device keeps its keys and the
\* user is not in the Recovery table.  A file that was begun has taken the place of
\* an earlier one; it holds no record, and to a device that is as none.
sekey_init_user_SEcube(u) ==
  /\ Call
  /\ Present(u)
  /\ dev[u].pc = "idle"
  /\ dev' = [dev EXCEPT ![u] = Provisioned]
  /\ \/ /\ file' = [file EXCEPT ![u] = WithFile(@, "init", InitFile(u))]
        /\ forgotten' = IF dev[u].ready THEN forgotten \cup {u} ELSE forgotten
        /\ UNCHANGED faults
     \/ /\ Fault
        /\ \/ UNCHANGED file
           \/ file' = [file EXCEPT ![u] = WithoutFile(@, "init")]
        /\ forgotten' = forgotten \cup {u}
  /\ UNCHANGED <<adm, aflash, update_counter, recovery, sends>>

sekey_add_group(g) ==
  /\ g \notin DOMAIN adm.groups
  /\ Commit([adm EXCEPT !.groups = Plus(@, [x \in {g} |->
               [name |-> 0, users_counter |-> 0, keys_counter |-> 0, max_keys |-> 0,
                keys_liveness |-> 0]])], <<>>)
  /\ UNCHANGED <<aflash, forgotten>>

\* What the members of g and the new member are told.
Joined(u, g) == <<Insert(<<>>, <<>>, {<<u, g>>}, <<>>), Count("users_counter", g, 1)>>

\* Mutant of ForOldMember: the member's row is not sent.
ForOldMemberNoRow(v, u, g) == Joined(u, g)

ForOldMember(v, u, g) ==
  IF GroupsOf(adm, v) \cap GroupsOf(adm, u) # {} THEN Joined(u, g)
  ELSE Append(Joined(u, g), Insert(Restrict(adm.users, {u}), <<>>, {}, <<>>))

\* The members whose rows the new member does not have yet.
Strangers(u, g) ==
  Restrict(adm.users, {v \in MembersOf(adm, g) : GroupsOf(adm, v) \cap GroupsOf(adm, u) = {}})

ForNewMember(u, g) ==
  <<Insert(Strangers(u, g), Restrict(adm.groups, {g}), {m \in adm.member : m[2] = g},
           Restrict(adm.keys, KeysOf(adm, g)))>>
  \o Joined(u, g)

sekey_add_user_group(u, g) ==
  LET old == SetToSeq(MembersOf(adm, g))
      keys == SetToSeq({k \in KeysOf(adm, g) : adm.keys[k].status # "destroyed"})
  IN  /\ Present(u) /\ g \in DOMAIN adm.groups
      /\ <<u, g>> \notin adm.member
      /\ CommitChecked([adm EXCEPT !.member = @ \cup {<<u, g>>},
                            !.groups[g].users_counter = @ + 1],
           [i \in DOMAIN old |-> Send(old[i], SQL(ForOldMember(old[i], u, g)), TRUE)]
           \o [i \in DOMAIN keys |-> Send(u, KeyData(keys[i]), FALSE)]
           \o <<Send(u, SQL(ForNewMember(u, g)), TRUE)>>)
      /\ UNCHANGED aflash

sekey_delete_user_group(u, g) ==
  /\ Present(u) /\ g \in DOMAIN adm.groups
  /\ <<u, g>> \in adm.member
  /\ Commit([adm EXCEPT !.member = @ \ {<<u, g>>}, !.groups[g].users_counter = @ - 1],
       SendAll(MembersOf(adm, g) \ {u}, DelFromGroup(u, g), TRUE)
       \o <<Send(u, DelFromGroup(u, g), TRUE)>>)
  /\ UNCHANGED <<aflash, forgotten>>

\* Mutant of sekey_delete_user: the groups' counters are not changed.
sekey_delete_user_uncounted(u) ==
  /\ Present(u)
  /\ Commit([adm EXCEPT !.users = Drop(@, {u}), !.member = {m \in @ : m[1] # u}],
       SendAll(Peers(adm, u) \ {u}, DelUser(u), TRUE) \o <<Send(u, DelUser(u), TRUE)>>)
  /\ UNCHANGED <<aflash, forgotten>>

sekey_delete_user(u) ==
  /\ Present(u)
  /\ Commit([adm EXCEPT
               !.groups = [g \in DOMAIN adm.groups |->
                             IF <<u, g>> \in adm.member
                               THEN [adm.groups[g] EXCEPT !.users_counter = @ - 1]
                               ELSE adm.groups[g]],
               !.users = Drop(@, {u}),
               !.member = {m \in @ : m[1] # u}],
       SendAll(Peers(adm, u) \ {u}, DelUser(u), TRUE) \o <<Send(u, DelUser(u), TRUE)>>)
  /\ UNCHANGED <<aflash, forgotten>>

\* The statement of an UPDATE, executed by the administrator and sent as it is.
Change(s, S) == Commit(After(adm, s), SendAll(S, SQL(<<s>>), TRUE))

\* The users told are those that share a group with u: u is one of them only
\* when it has a group.
sekey_user_change_name(u) ==
  /\ Present(u)
  /\ Change(Set("users", u, "username", 1), Peers(adm, u))
  /\ forgotten' = IF u \in Peers(adm, u) THEN forgotten ELSE forgotten \cup {u}
  /\ UNCHANGED aflash

GroupChange(g, column) ==
  /\ g \in DOMAIN adm.groups
  /\ Change(Set("groups", g, column, 1), MembersOf(adm, g))
  /\ UNCHANGED <<aflash, forgotten>>

sekey_group_change_name(g)                == GroupChange(g, "name")
sekey_group_change_max_keys(g) ==
  /\ GroupChange(g, "max_keys")
  /\ adm.groups[g].keys_counter <= 1
sekey_group_change_default_cryptoperiod(g) == GroupChange(g, "keys_liveness")

sekey_delete_group(g) ==
  /\ g \in DOMAIN adm.groups
  /\ Commit([adm EXCEPT !.groups = Drop(@, {g}),
                        !.member = {m \in @ : m[2] # g},
                        !.keys = [k \in DOMAIN @ |-> IF @[k].owner = g
                                                       THEN [@[k] EXCEPT !.owner = Zombie]
                                                       ELSE @[k]]],
       SendAll(MembersOf(adm, g), DelGroup(g), TRUE))
  /\ UNCHANGED <<aflash, forgotten>>

\* The key enters the flash before the commit; a rollback leaves it there.
sekey_add_key(k, g) ==
  LET text == <<Insert(<<>>, <<>>, {}, [x \in {k} |->
                  [name |-> 0, owner |-> g, status |-> "preactive"]]),
                Count("keys_counter", g, 1)>>
      S == MembersOf(adm, g)
  IN  /\ k \notin DOMAIN adm.keys /\ g \in DOMAIN adm.groups
      /\ aflash' = aflash \cup {k}
      /\ \/ Commit(After(After(adm, text[1]), text[2]),
                   SendAll(S, SQL(text), FALSE) \o SendAll(S, KeyData(k), TRUE))
         \/ /\ Call /\ recovery = {} /\ Fault
            /\ UNCHANGED <<adm, update_counter, recovery, sends, file, dev>>
      /\ UNCHANGED forgotten

OwnersUsers(k) == IF adm.keys[k].owner = Zombie THEN {} ELSE MembersOf(adm, adm.keys[k].owner)

sekey_key_change_name(k) ==
  LET s == Set("keys", k, "name", 1)
  IN  /\ k \in DOMAIN adm.keys
      /\ CommitChecked(After(adm, s), SendAll(OwnersUsers(k), SQL(<<s>>), TRUE))
      /\ UNCHANGED aflash

sekey_key_change_status(k, status) ==
  /\ k \in DOMAIN adm.keys
  /\ status \in Changeable
  /\ check_key_transition_validity(adm.keys[k].status, status)
  /\ Change(Set("keys", k, "status", status), OwnersUsers(k))
  /\ aflash' = IF status = "destroyed" THEN aflash \ {k} ELSE aflash
  /\ UNCHANGED forgotten

sekey_activate_key(k) ==
  /\ k \in DOMAIN adm.keys
  /\ check_key_transition_validity(adm.keys[k].status, "active")
  /\ Change(Set("keys", k, "status", "active"), OwnersUsers(k))
  /\ UNCHANGED <<aflash, forgotten>>

\* An expired key is deactivated by a sekey_key_change_status of its own, which
\* recovers first.  The call this is part of does not look at the Recovery table
\* again; here devices may work before it goes on, which the share rules out.  A
\* start and the choice of a key check too, and change nothing else.
sekey_check_expired_keys(k) ==
  LET s == Set("keys", k, "status", "deactivated")
  IN  /\ k \in DOMAIN adm.keys /\ adm.keys[k].status \in {"active", "suspended"}
      /\ Ready /\ recovery = {}
      /\ Transaction(After(adm, s), SendAll(OwnersUsers(k), SQL(<<s>>), TRUE))
      /\ expiring' = TRUE
      /\ UNCHANGED <<aflash, forgotten, calls>>

-----------------------------------------------------------------------------
(* Writing the update files.                                               *)

Erase(s) == recovery' = IF s.erase THEN recovery \ {s.to} ELSE recovery

\* Mutant of SendNext: the counter is read and not incremented.
SendNextUncounted ==
  /\ sends # <<>>
  /\ LET s == Head(sends)
     IN  /\ sends' = Tail(sends)
         /\ file' = [file EXCEPT ![s.to] = WithFile(@, "normal",
              IF Present(s.to)
                THEN Append(Records(s.to, "normal"), Record(update_counter[s.to] + 1, s.cmd))
                ELSE <<Record(0, s.cmd)>>)]
         /\ Erase(s)
  /\ UNCHANGED <<adm, aflash, update_counter, dev, expiring, forgotten, calls, faults>>

\* A record for a user the administrator knows is appended to its normal file
\* with the next counter; the deletion of the user itself replaces the file.
SendNext ==
  /\ sends # <<>>
  /\ LET s == Head(sends)
     IN  /\ sends' = Tail(sends)
         /\ \/ /\ Present(s.to)
               /\ update_counter' = [update_counter EXCEPT ![s.to] = @ + 1]
               /\ file' = [file EXCEPT ![s.to] = WithFile(@, "normal",
                    Append(Records(s.to, "normal"), Record(update_counter[s.to] + 1, s.cmd)))]
            \/ /\ ~Present(s.to)
               /\ file' = [file EXCEPT ![s.to] =
                             WithFile(@, "normal", <<Record(0, s.cmd)>>)]
               /\ UNCHANGED update_counter
         /\ Erase(s)
  /\ UNCHANGED <<adm, aflash, dev, expiring, forgotten, calls, faults>>

\* The write fails, before or after the counter was incremented.  When it was
\* not the write that takes the user out of the Recovery table, a later one may.
SendFails ==
  /\ sends # <<>>
  /\ Fault
  /\ LET s == Head(sends)
     IN  /\ sends' = Tail(sends)
         /\ \/ UNCHANGED update_counter
            \/ /\ Present(s.to)
               /\ update_counter' = [update_counter EXCEPT ![s.to] = @ + 1]
         /\ forgotten' = IF s.erase THEN forgotten ELSE forgotten \cup {s.to}
  /\ UNCHANGED <<adm, aflash, recovery, file, dev, expiring, calls>>

\* The administrator's program stops; sekey_start cleans its flash.
AdminCrash ==
  /\ sends # <<>>
  /\ Fault
  /\ sends' = <<>>
  /\ aflash' = {k \in aflash : k \in DOMAIN adm.keys /\ adm.keys[k].status # "destroyed"}
  /\ expiring' = FALSE
  /\ UNCHANGED <<adm, update_counter, recovery, file, dev, forgotten, calls>>

-----------------------------------------------------------------------------
(* sekey_recovery and sekey_recovery_request, for one user at a time.      *)

MaintainAdmin ==
  aflash' = {k \in aflash : k \in DOMAIN adm.keys /\ adm.keys[k].status # "destroyed"}

\* The recovery file is written and the normal file deleted; the file of a user
\* without a group lacks the user's own row.  When the normal file cannot be
\* deleted the user stays in the table, as it does when the row itself cannot
\* be deleted.
RecoveryWritten(u) ==
  /\ update_counter' = [update_counter EXCEPT ![u] = 0]
  /\ \/ /\ file' = [file EXCEPT ![u] =
             WithFile(WithoutFile(@, "normal"), "recovery", RecoveryFile(adm, u))]
        /\ forgotten' = IF GroupsOf(adm, u) = {} THEN forgotten \cup {u} ELSE forgotten \ {u}
        /\ \/ recovery' = recovery \ {u} /\ UNCHANGED faults
           \/ recovery' = recovery \cup {u} /\ Fault
     \/ /\ file' = [file EXCEPT ![u] = WithFile(@, "recovery", RecoveryFile(adm, u))]
        /\ Pending(u, "normal")
        /\ recovery' = recovery \cup {u}
        /\ Fault
        /\ UNCHANGED forgotten

\* An error deletes the file that was begun, a stopped program leaves it: the
\* first n records.  The counter was set to 0 before.
RecoveryFails(u) ==
  /\ Fault
  /\ recovery' = recovery \cup {u}
  /\ \/ UNCHANGED <<update_counter, file>>
     \/ /\ update_counter' = [update_counter EXCEPT ![u] = 0]
        /\ \/ UNCHANGED file
           \/ \E n \in 0..Len(RecoveryFile(adm, u)) - 1 :
                file' = [file EXCEPT ![u] =
                  WithFile(@, "recovery", SubSeq(RecoveryFile(adm, u), 1, n))]
  /\ UNCHANGED forgotten

\* A user that was deleted gets a request to empty its device; the row leaves
\* the table whether or not the request was written.
RecoverDeleted(u) ==
  /\ recovery' = recovery \ {u}
  /\ \/ /\ file' = [file EXCEPT ![u] = WithFile(@, "recovery", <<Record(0, DelUser(u))>>)]
        /\ UNCHANGED <<forgotten, faults>>
     \/ /\ Fault
        /\ forgotten' = forgotten \cup {u}
        /\ UNCHANGED file
  /\ UNCHANGED update_counter

sekey_write_recovery(u) ==
  /\ sends = <<>> /\ Free
  /\ IF Present(u) THEN RecoveryWritten(u) \/ RecoveryFails(u) ELSE RecoverDeleted(u)
  /\ expiring' = FALSE
  /\ UNCHANGED <<adm, sends, dev>>

sekey_recovery(u) ==
  /\ u \in recovery
  /\ MaintainAdmin
  /\ sekey_write_recovery(u)
  /\ UNCHANGED calls

\* For a user that was deleted, too, whose device is known by its serial number.
sekey_recovery_request(u) ==
  /\ Present(u) \/ dev[u].ready
  /\ calls > 0 /\ calls' = calls - 1
  /\ sekey_write_recovery(u)
  /\ UNCHANGED aflash

-----------------------------------------------------------------------------
(* The device of user u: sekey_update_userdata, called by every function a *)
(* user may call and by sekey_start.  A file is read when it is opened and *)
(* executed record by record in a transaction; what the records do to the  *)
(* flash is not part of the transaction.                                   *)

\* Commit or rollback, and the end of a call.
Stopped(d) == [d EXCEPT !.pc = "idle", !.open = FALSE, !.tx = NoTx]

\* Mutant of Finished: the device stays blocked.
FinishedBlocked(d, u) == se3_flash_maintenance_routine(Stopped(d), u)

\* The call is over: the device may be used, and its flash is cleaned.
Finished(d, u) == [se3_flash_maintenance_routine(Stopped(d), u) EXCEPT !.blocked = FALSE]

\* The file at pc is done with.
Following(d, u) ==
  CASE d.pc = "init"     -> [Stopped(d) EXCEPT !.pc = "recovery"]
    [] d.pc = "recovery" -> [Stopped(d) EXCEPT !.pc = "normal"]
    [] d.pc = "normal"   -> Finished(d, u)

UserOnly == UNCHANGED <<adm, aflash, update_counter, recovery, sends, expiring, forgotten,
                        calls>>

sekey_update_userdata(u) ==
  /\ dev[u].ready /\ dev[u].pc = "idle"
  /\ Free
  /\ dev[u].blocked \/ \E f \in File : Pending(u, f)
  /\ dev' = [dev EXCEPT ![u].blocked = TRUE, ![u].pc = "init"]
  /\ UserOnly /\ UNCHANGED <<file, faults>>

NoFile(u) ==
  /\ dev[u].pc # "idle" /\ ~dev[u].open /\ ~Pending(u, dev[u].pc)
  /\ dev' = [dev EXCEPT ![u] = Following(@, u)]
  /\ UserOnly /\ UNCHANGED <<file, faults>>

OpenFile(u) ==
  /\ dev[u].pc # "idle" /\ ~dev[u].open /\ Pending(u, dev[u].pc)
  /\ LET d == dev[u]
         records == file[u][d.pc]
     IN  dev' = [dev EXCEPT ![u] =
           IF Readable(d, records)
             THEN [d EXCEPT !.open = TRUE,
                            !.tx = [db |-> d.db, cnt |-> d.cnt, todo |-> records]]
             ELSE Stopped(d)]
  /\ UserOnly /\ UNCHANGED <<file, faults>>

\* The next record.  When it fails, the transaction is rolled back.
execute_update(u) ==
  /\ dev[u].open /\ dev[u].tx.todo # <<>>
  /\ LET d == dev[u]
         done == Apply(Work(d), u, Head(d.tx.todo))
     IN  dev' = [dev EXCEPT ![u] =
           IF done.ok
             THEN [d EXCEPT !.tx = [db |-> done.db, cnt |-> done.cnt, todo |-> Tail(@.todo)],
                            !.flash = done.flash]
             ELSE Stopped(d)]
  /\ UserOnly /\ UNCHANGED <<file, faults>>

\* The transaction is committed and the file deleted.  A file that cannot be
\* deleted is executed again, unless it is the normal one.
process_update_file(u) ==
  /\ dev[u].open /\ dev[u].tx.todo = <<>>
  /\ LET d == dev[u]
         done == [d EXCEPT !.db = d.tx.db,
                           !.cnt = IF u \in DOMAIN d.tx.db.users THEN d.tx.cnt ELSE 0]
     IN  \/ /\ file' = [file EXCEPT ![u] = WithoutFile(@, d.pc)]
            /\ dev' = [dev EXCEPT ![u] = Following(done, u)]
            /\ UNCHANGED faults
         \/ /\ Fault
            /\ dev' = [dev EXCEPT ![u] = IF d.pc = "normal" THEN Finished(done, u)
                                         ELSE Stopped(done)]
            /\ UNCHANGED file
  /\ UserOnly

\* The call fails or the program stops, anywhere in it.
RollBack(u) ==
  /\ dev[u].pc # "idle"
  /\ Fault
  /\ dev' = [dev EXCEPT ![u] = Stopped(@)]
  /\ UserOnly /\ UNCHANGED file

-----------------------------------------------------------------------------

AdminCall ==
  \/ \E u \in User : \/ sekey_add_user(u) \/ sekey_init_user_SEcube(u)
                     \/ sekey_delete_user(u) \/ sekey_user_change_name(u)
                     \/ sekey_recovery(u) \/ sekey_recovery_request(u)
  \/ \E g \in Group : \/ sekey_add_group(g) \/ sekey_delete_group(g)
                      \/ sekey_group_change_name(g) \/ sekey_group_change_max_keys(g)
                      \/ sekey_group_change_default_cryptoperiod(g)
  \/ \E u \in User, g \in Group : sekey_add_user_group(u, g) \/ sekey_delete_user_group(u, g)
  \/ \E k \in Key : \/ \E g \in Group : sekey_add_key(k, g)
                    \/ sekey_key_change_name(k) \/ sekey_activate_key(k)
                    \/ \E s \in Status : sekey_key_change_status(k, s)
                    \/ sekey_check_expired_keys(k)

UserStep(u) == \/ sekey_update_userdata(u) \/ NoFile(u) \/ OpenFile(u)
               \/ execute_update(u) \/ process_update_file(u)

Next == \/ AdminCall \/ SendNext \/ SendFails \/ AdminCrash
        \/ \E u \in User : UserStep(u) \/ RollBack(u)

Spec == Init /\ [][Next]_vars

\* The administrator's call goes on; a start of its program recovers whoever
\* is in the Recovery table, and a start of a user's program executes what is
\* pending.  Whoever keeps asking for the share gets it.
FairSpec == /\ Spec
            /\ WF_vars(SendNext)
            /\ \A u \in User : SF_vars(UserStep(u)) /\ SF_vars(sekey_recovery(u))

-----------------------------------------------------------------------------
(* Properties.                                                             *)

AreTables(db) ==
  /\ IsTable(db.users, User, UserRow) /\ IsTable(db.groups, Group, GroupRow)
  /\ IsTable(db.keys, Key, KeyRow)
  /\ db.member \subseteq User \X Group

Numbers(records) == \A i \in DOMAIN records : records[i].cnt \in Nat

\* Tables, counters, files and devices have the types of the code's columns;
\* no counter of a group is ever negative.
TypeOK ==
  /\ AreTables(adm)
  /\ aflash \subseteq Key
  /\ update_counter \in [User -> Nat]
  /\ recovery \subseteq User /\ forgotten \subseteq User
  /\ expiring \in BOOLEAN
  /\ \A i \in DOMAIN sends : sends[i].to \in User /\ sends[i].erase \in BOOLEAN
  /\ \A u \in User : /\ DOMAIN file[u] \subseteq File
                      /\ \A f \in DOMAIN file[u] : Numbers(file[u][f])
  /\ \A u \in User :
       /\ AreTables(dev[u].db) /\ AreTables(dev[u].tx.db)
       /\ dev[u].cnt \in Nat /\ dev[u].tx.cnt \in Nat
       /\ dev[u].flash \subseteq Key
       /\ {dev[u].ready, dev[u].updkeys, dev[u].blocked, dev[u].open} \subseteq BOOLEAN
       /\ dev[u].pc \in File \cup {"idle"}
       /\ Numbers(dev[u].tx.todo)
       /\ dev[u].open => dev[u].pc # "idle" /\ dev[u].blocked
  /\ calls \in Nat /\ faults \in 0..MaxFaults

\* A loss is on record: the administrator will write a recovery file for u, or
\* would not know of it.
OnRecord(u) == u \in recovery \cup forgotten

\* The device of a user the administrator knows, with the keys that the files
\* are encrypted with.
Reached(u) == dev[u].ready /\ dev[u].updkeys /\ Present(u)

\* What the tables and the flash of a device of u become under update files.
ReplayFile(d, u, files, f) ==
  IF f \notin DOMAIN files \/ ~d.ok THEN d
  ELSE IF Readable(d, files[f]) THEN Executed(d, u, files[f])
  ELSE [d EXCEPT !.ok = FALSE]

ReplayFiles(d, u, files) ==
  LET initialised == ReplayFile(d, u, files, "init")
      recovered   == ReplayFile(initialised, u, files, "recovery")
  IN  ReplayFile(recovered, u, files, "normal")

\* What is committed on a device.
Committed(d) == [db |-> d.db, cnt |-> d.cnt, flash |-> d.flash, updkeys |-> d.updkeys,
                 ok |-> TRUE]

\* What the pending files make of the device of u.
Replay(u) == ReplayFiles(Committed(dev[u]), u, file[u])

\* Between two calls of the administrator, the files of a user who is not in
\* the Recovery table are exactly what its device lacks: executed in their
\* order they succeed, and leave the user's view of the administrator's tables,
\* the administrator's counter and the content of every key that is not
\* destroyed.
InSync ==
  sends = <<>> =>
    \A u \in User :
      Reached(u) /\ ~OnRecord(u) =>
        LET d == Replay(u)
        IN  /\ d.ok
            /\ d.db = View(adm, u)
            /\ d.cnt = update_counter[u]
            /\ Needed(d.db) \subseteq d.flash

Whole(db, flash) ==
  /\ \A m \in db.member : m[1] \in DOMAIN db.users /\ m[2] \in DOMAIN db.groups
  /\ \A g \in DOMAIN db.groups : /\ db.groups[g].users_counter = Cardinality(MembersOf(db, g))
                                 /\ db.groups[g].keys_counter = Cardinality(KeysOf(db, g))
  /\ \A k \in DOMAIN db.keys : db.keys[k].owner \in DOMAIN db.groups \cup {Zombie}
  /\ Needed(db) \subseteq flash

\* The tables of the administrator, and those a device may be used with, are
\* never torn: members are known users of known groups, the counters count
\* them, keys belong to known groups, and every key that is not destroyed is
\* in the flash.
WholeTables ==
  /\ Whole(adm, aflash)
  /\ \A u \in User :
       /\ Reached(u) /\ ~OnRecord(u) /\ ~dev[u].blocked
       /\ ~Pending(u, "init") /\ ~Pending(u, "recovery")
       => Whole(dev[u].db, dev[u].flash)

\* No record is numbered at or below what a device has counted unless the
\* device has executed it: the numbers of the pending records ascend up to the
\* administrator's counter, which the device's own never exceeds.
NumberedAt(u) ==
  LET records == Records(u, "normal")
  IN  /\ \A i, j \in DOMAIN records : i < j => records[i].cnt < records[j].cnt
      /\ \A i \in DOMAIN records : records[i].cnt \in 1..update_counter[u]
      /\ ~Pending(u, "init") /\ ~Pending(u, "recovery") => dev[u].cnt <= update_counter[u]

Numbered == \A u \in User : Present(u) /\ (u \notin recovery \/ sends # <<>>) => NumberedAt(u)

\* "this function must return ok only if no user is left in the recovery table.
\* otherwise the normal API of sekey could involve an update for a user who's in
\* the recovery table" (SEkey.cpp:1052): no change is sent to a user who waits for
\* a recovery.
RecoveredFirst == [][sends = <<>> => Recipients(sends') \cap recovery = {}]_vars

\* "all the informations that the user needs to rebuild its SEkey database from
\* scratch" (SEkey.h:657): no recovery, complete or cut off, costs the device of
\* a known user the keys its files are encrypted with.
KeepsUpdateKeys == \A u \in User : dev[u].ready /\ Present(u) => dev[u].updkeys

\* Every device ends up with what the administrator has for it, whatever was
\* lost on the way, unless the loss was never put on record.
Converges ==
  \A u \in User :
    <>[](Reached(u) /\ u \notin forgotten =>
           ~dev[u].blocked /\ dev[u].db = View(adm, u) /\ Needed(dev[u].db) \subseteq dev[u].flash)
=============================================================================
