# A verification project for SEtelegram

SEtelegram is a Qt client for Telegram that encrypts the messages of some chats
with a SEcube device. This directory holds TLA+ models of its own code (paths
below are relative to the repository, `src/` being its root), TLC runs that
check them on small instances, and TLAPS proofs of the main results for every
value of the constants. `PROJECT.json` maps every definition to its lines.

## 1. Inventory

### Processes and threads

| actor | code | what it does |
|---|---|---|
| GUI thread | `AccessWindow.cpp`, `ChatWindow.cpp` | login dialogs; event handlers that *request* an action from the Telegram thread |
| Telegram thread | `Td.cpp`, `Td::loop` | one loop that serves one action at a time with TDLib (`client_->receive`) |
| update thread | `ChatWindow.cpp:137-142` | emits `checkNewMessages` every `CHAT_FETCH_UPDATE_INTERVAL` |
| SEcube server | `SEcube/SEcubeServer/SEcubeServer.cpp` | a process of its own at the other end of a socket; login with the PIN, chat rules, encrypt, decrypt |
| SEcube | firmware, not in the repository | reached through `sources/L0` and `sources/L1`, by a file on its disk |
| SEkey administrator | `SEcube/SEcubeServer/sekey/SEkey.cpp` | changes users, groups and keys and writes update files for the users; a library here, with no program of its own |
| SEkey user | the same, in the SEcube server | executes the update files, chooses keys |

### Components

| component | state | operations | hard parts | what makes it correct | module |
|---|---|---|---|---|---|
| request protocol | `thread_ready`, `action`, `action_sent`, `ok`, `error`, `update_stop`; two condition variables | `waitTelegram`, `requestTelegram`, 6 handlers, `closeEvent`; `Td::loop` with its queries | two waits on one condition variable, `notify_one`, nested event loops and nested `receive` loops, flags that are not reset, unlocked writes | one owner of the request; answers belong to requests; the shared vectors are used by one thread at a time; nobody hangs | `Requests` |
| login | the same flags the other way round, `input_wrote`, the authorization state | loop of `accessButtonClicked`, authorization handlers, `restart` | wrong answers repeat a state, a cancelled dialog, DESTROY, a token the wrong thread may take | a credential answers the prompt it was typed for | `Login` |
| startup, chat rules | `chat_list`, `startup`, `startup2`, `chat_list_done`, the two tables of `setelegram.sqlite` | the startup action; `is_secube_chat`, `add_enc_table`, `add_not_enc_table` | an exchange in the middle of a request, failing lookups and inserts, crash between answer and insert | flags agree with the database and the user's answers | `Startup` |
| message lists | `Td::messages`, `newMessages`, `previous_messages`, the screen | select, page back, update, attach | ties of dates, `remove_if` without erase, lists cleared at the wrong time | the screen shows the chat once, in order, with no gap | `Messages` |
| SEcube server, its access window, setelegram, SElink | the socket, the L1 object and its token, the file objects of the databases | login attempts, setup, encrypt, decrypt, quit, crash | sessions left open by earlier attempts, lost exchanges, early exits, replies that get out of step, exceptions from destructors | the session in use is the device's; the right PIN opens; one reply for one request, to that request | `Server` |
| SEkey administrator and update files | users, groups, keys and memberships in a database; update, init and recovery files; the Recovery table; the devices of the users | add, delete, rename, join, leave, change of status, recover; `sekey_update_userdata` | a commit and several writes that may fail one by one, a counter per user, stops in the middle of a file | what is pending for a device is what it lacks; every device gets there | `SEkey`, `SEkeyTables` |
| life and choice of keys | status and times of the keys, default cryptoperiods, the file a key was last checked for | activation, expiry, `sekey_find_key` in three forms, `secure_key_check` | the clock runs during every call; updates are old; the order of rows | a key that is found may be used; both ends find the same | `KeyUse`, `KeyStates` |
| SEfile | file position, 512-byte encrypted sectors | create, open, seek, read, write, truncate | sector boundaries, failed writes | a flat file | `SectorFile` |
| SEcureDB: databases | the database file and its journal, each an SEfile of 4096-byte sectors | the file functions SQLite is given; the start of the programs | a call fails or the program ends in a transaction, its rollback or the playback of the journal | transactions | `Database` |
| SEfile and SEcureDB: directories | files under the digests of their names, encrypted names of directories, `override_key_check` | `secure_ls`, `secure_mkdir`, `get_secure_context`, `secure_recrypt` and the `securedb_` forms | a re-encryption that fails or is cut short, and is done again | the content saved last stays and is found | `Directory` |
| L0, L1 (`sources/`) | the magic file and its locks, the blocks of an exchange, cryptographic sessions | discovery, open, close, TX and RX, `L1Encrypt`, `L1Decrypt`, the key commands | locks that belong to a process, a truncation before the lock, answers to an exchange given up, chunk boundaries | one process at a time; an answer is to its request; decryption undoes encryption | `MagicFile`, `Blocks`, `Transfer` |
| frames and dialogs, vendored code | - | - | - | - | not modelled: layout, third party |

### Interactions

`ChatWindow` -> `Td` by shared variables (`Requests`, `Login`, the hand-over of
`Startup`); `Td` -> TDLib by queries and responses (a set of unanswered queries
in `Requests`, a queue of updates in `Messages`); both threads -> SEcube server
by one request and one reply on a socket (`Startup`, `Server`); server ->
setelegram -> SEcureDB and SEkey -> L1 -> L0 by calls (`Server` for their results,
`Database`, `KeyUse` and `Transfer` for their inside). `Login` comes before
`Startup`, and `Startup` before `Requests`. That `Messages` may treat a handler and
its action as one step is what `ServedAlone` of `Requests` says; that `Server` may
treat an exchange with the device as one step with an outcome is what `Exclusive` and
`OwnAnswer` of `Transfer` say, and that a database opens whole or fails is `Database`.
`Database` is composed of two instances of `SectorFile`, `Transfer` of `MagicFile` and
`Blocks`, `SEkey` of the rows and records of `SEkeyTables`; `SEkey` and `KeyUse` share the
states of a key in `KeyStates`. `KeyUse` takes from `SEkey` that updates are executed
in order and none is lost.

## 2. Plan and state

1. The threads of the client: `CondVar`, `RequestReply`, `Requests`, `Login`,
   `Startup`, `Messages`. Done.
2. The server and its sessions: `Server`. Done.
3. Keys: `SEkey` with `SEkeyTables`, `KeyUse`, `KeyStates`. Done but for the
   enumeration calls, logs and PINs.
4. Encrypted storage: `FlatFile`, `SectorFile`; `Store`, `Database`; `Directory`. Done.
5. The device: `Blocks`, `MagicFile`, `Transfer`. Done but for the error statuses of
   the firmware.
6. Proofs: `ChatWindowProofs` (`Requests` and `Messages`), `StartupProofs` (with `Login`),
   `ServerProofs`, `TransferProofs`, `DirectoryProofs`, `KeyUseProofs`, `SEkeyProofs` and
   `SEkeySyncProofs`. Done but for what section 5 lists as only model-checked.

Not begun, and why: the sending of attachments (`ChatWindow.cpp:325-417`) is one request of
`Requests` and one of `Server` with no state of its own; a composition of `Requests`
with `Server` multiplies two state spaces for the one fact that `Server` already has in
`slips` and `OwnAnswer`.

## 3. Modules

### CondVar, RequestReply

`AfterNotifyOne(w)` is `notify_one` on the set `w` of waiters: one of them
leaves it, or nothing happens. A wait is an action that tests the predicate and
either goes on or joins the set; a thread in the set takes no step. Spurious
wakeups are left out: every wait in the code has a predicate, so that a spurious
wakeup is a stutter.

`RequestReply` is what `requestTelegram` promises its callers: post, serve,
return, in turn, each served and returned at last.

### Requests

State: the static members of `Td` with their names, the control points `gpc`,
`tpc` and `upc` of the three threads, and `pending`, the queries TDLib has not
answered. One action is one critical section; the writes of the GUI thread that
are done without the mutex are actions without a guard on it. `Td::mutex_` is
held by the Telegram thread exactly in the states `Serving`.

- `StartHandler`, `StartUpdate`, `WaitTelegram`, `WriteAction`, `SendAction`,
  `Await`: a handler up to the return of `requestTelegram`. `ConsumeOk`,
  `ConsumeError`, `DismissDialog`, `ConsumeSend`, `ConsumeImage`: how each handler
  uses its result; `showImages` posts further requests. In a dialog the event loop
  is nested, so `StartUpdate` is enabled there.
- `CloseEvent`, `JoinUpdater`, `JoinTelegram`, `LateUpdate`: the teardown.
- `Loop`, `TakeAction`, `Advance`, `UpdateDone`, `Receive`, `Unwind`, `LogOut`: the
  Telegram thread. `nested` counts the calls of `waitForServerResponse` inside a
  response handler.

The early returns of `chatButtonClicked` (same chat, chat without a rule) and the
branch of `documentButtonClicked` for a file that is there already change none of
this state. The dialogs before `sendMessage` hold no token, so an update inside
them is one before the handler. A poll `receive(0)` that finds nothing is a stutter;
the arrival of a response and its handling are one action. A logout from another
device ends in `relogin`, an empty chat in `crashed`.

### Login

The loop of `accessButtonClicked` against the authorization handlers. A credential
is the number of the dialog in which it was typed, so that a stale one can be
told from a new one. `authentication_query_id_` is not modelled: one query is
outstanding at a time. The handlers of WaitPassword and WaitRegistration are
empty in the code and are entered here with no prompt.

### Startup

The action that runs once per session: `getMe`, `getChats`, then for each chat the
lookup on the socket, the question to the user through `startup`/`startup2`, the
insert and the flag `is_SEcube_chat`. A chat stands for its id and its title
(titles are assumed distinct). The user's answers are kept in `wish`, a history
variable. `Restart` ends the session at any moment, a crash as well as a regular
end; the tables survive it. A `read()` that fails, on either side, is counted in
`faults`; the properties about data are conditional on `faults = 0`, `StartupEnds`
is not. A dead server is covered only as a `Restart`. Every lookup and insert
may fail.

### Messages, MCMessages

The three lists and the screen; ids grow with time and two successive messages
share a second (`Date`). A handler with its action is one step. `std::sort` leaves
any order that agrees with the dates, a page holds as many messages as TDLib
likes, at most `PageSize`. `RemoveIf` is what `std::remove_if` leaves in the vector,
which the code then moves whole into `Td::messages`. Updates are queued by TDLib
and reach `newMessages` in the next request, of whichever kind. Texts sent by
`sendButtonClicked` are not in this module: after them the steps are no longer
atomic (`Requests`). Message contents and the ids TDLib replaces once a message
has been delivered are left out.

### FlatFile, SectorFile, MCSectorFile

`FlatFile` is what the comments of `SEfile.h` promise: bytes, a position, and operations
that fail only after a beginning of their work. `SectorFile` is `SEfile.cpp`: the
sectors on disk (a sector is its valid bytes), the pointer of the system and SEfile's
own copy of it, both counting encrypted bytes. `WriteFrom` and `ReadLoop` are the
loops of `secure_write` and `secure_read`; `secure_seek` and `secure_truncate` are made
of them as in the code. Each operation may fail at each of its sectors; the end of the
program between two sectors is such a failure with a `SecureClose`. The refinement
mapping flattens the sectors and translates `log_offset`; the handle is usable while
the two pointers agree.

`Careful` restricts the calls to those that keep what is behind them. The code's
own callers do: `SEkey` seeks to the end and appends or reads from the beginning, and
SQLite writes whole pages. Without it the refinement fails, by two errors of section 6
(the seek, and the note on writes). Not modelled: a sector that is written in
part, the sizes at which 32-bit offsets overflow, and calls on a file that is not
open, which do nothing.

### Server

One process at each end of a socket, and the session of the device, which outlives
both. `client` is the access window and then `enc_or_dec` and the two buttons: the
PIN of a login is right, wrong or longer than 32 bytes, texts may be longer than the
buffer of `read()`, and messages of others may be damaged or malformed. `srv` is where
`SEcubeServer.cpp` is: `ReadLogin`, `MakeL1`, `CountDevices`, `Challenge`,
`L1LogoutForced`, `L1Login`, `sekey_start`, `setelegram`, `SetupOk`, then `Serve`,
`WrongRequest`, `Quit`. `TXRXData` has the outcomes of an exchange: done, lost before or
after the device has acted, or answered with an error, which the code throws as two
classes of exceptions that it treats differently. `DestroyL1` is the destructor that
logs out, and an exception there ends the server. `databases` are the file objects that
`SEcureDB` finds by name: the first one is used, with the L1 it was made with. A user
who logs in again, a client that goes away, a SIGPIPE and a second start are actions.

### SEkey, SEkeyTables, KeyStates, MCSEkey

`SEkeyTables` has the tables (users, groups, members, keys), the SQL statements and
records of the update files and how a device executes each (`usr_sql_exec`,
`usr_delete_user_from_group`, `usr_store_key`, ...), and what a user should see of the
administrator's tables (`View`). In `SEkey` a call of the administrator is a
`Commit` of its change with the Recovery table filled, after which `sends` is what it
still has to write to each user; `SendNext`, `SendFails` and `AdminCrash` are the steps
of it. A call begins with the recoveries, `sekey_recovery` for one user at a time, and
commits only with an empty Recovery table. `sekey_add_user_group` and `sekey_key_change_name`
then check for expired keys (`SEkey.cpp:1924`, `:2719`): `sekey_check_expired_keys` is a
commit with sends of its own, after which `expiring` holds and their `CommitChecked` goes on
whatever is in the Recovery table. A user who is there and is sent something is
`forgotten`. `sekey_init_user_SEcube` gives the device its keys and writes the init file,
or fails to; `sekey_recovery_request` is open for users who were deleted, too. A user's device takes `sekey_update_userdata`, `OpenFile`, `execute_update` per
record, `process_update_file` (the commit) and `RollBack`. A recovery or init file
replaces the normal one. `forgotten` is a history variable: the users of whom the code
loses a failure without a trace (section 6), to whom the properties do not apply.
A user is an id with its serial number, used once; names, sizes and times of keys
are two values where nothing depends on them.

### KeyUse, MCKeyUse

The life of a key from `sekey_add_key` to its destruction, with the clock. A user's
call is update, `CheckExpired`, `ChooseKey`, use; the administrator may act and the
clock may tick between any two. `Chosen` is `sekey_find_key` (the groups all have in
common, the smallest of them, the key with the shortest span, then the smallest
id). `secure_init`, `secure_key_check`, `KeyStatus` are the check of SEfile, which
asks again only in another second. `Margin` is the time the code takes a key for expired
before it is.

### Store, Database

`Store` is what a database promises: a transaction is done as a whole when it is
reported so, otherwise it has taken place or not. `Database` has the functions
`c_sql_*` of `SEcureDB.cpp`, on two instances of `SectorFile` for the database and its
journal. SQLite is not in the repository: the sequence of calls it makes in the mode the
code sets (`journal_mode = DELETE`, `synchronous = 2`) is the variable `plan`, marked
external in the map. Each call may fail and the program may end between any two and in
the middle of one. The start (`Opened`, `JournalRead`, playback, `CreateTables`) is
that of the constructors of setelegram and of `sekey_start`. The refinement maps the
database to `Effective`: what its content will be when its journal has been
played back.

### Directory

Files are stored under the digest of their name and have the name in their header;
a content is the name and the number of the save it came from. `Recrypt`
(`secure_recrypt`, `securedb_recrypt`) is create, copy in chunks, and for a database remove
and rename, whose results the code does not look at; `RemoveOld` and `RenameNew` may
therefore do nothing. A re-encryption may be cut short after each step and begun again,
on the file or on what an earlier one left. `Ls` is the listing, `Context` the open of a
file or directory for its key.

### Blocks, MagicFile, Transfer

`Blocks` is the arithmetic of the 512-byte blocks on both sides. `MagicFile` is how a
process finds and opens the SEcube: `Se3Info`, `Se3MagicInit` (`MagicOpen` to
`MagicUnlink`), `L0Open`, `Lock`, `Verify`, `L0Close`, with POSIX locks, which a process
loses by closing any of its descriptors of the file. `disturbed` is a history variable:
a process has made a second L1 object while it had the device open, or has removed the
file under another. `Transfer` adds the exchanges (`L0TX`, `Answer`, `L0RX`, given up at
any time) and what is made of them: the commands of `L1_sekey.cpp` and others by the
blocks they take, and `L1Encrypt`, `L1Decrypt` with their chunks. Data are lengths, and
`op.pieces` keeps which stream of the cipher each chunk was combined with. The firmware's
treatment of `RESET` is not known and is chosen once (`dev.onReset`).

## 4. Runs

Every run must find no error. Distinct states are in brackets.

| run | instance | shows |
|---|---|---|
| `requests_all` | all handlers, errors, empty chats, logout; 4 requests, 2 ticks, 2 images | `OneOwner` always; `ServedAlone`, `OwnAnswer` until the first stale result |
| `requests_reset` | without texts and errors, fair | `NeverStale`; the refinement of `RequestReply` with its liveness; `GuiResponsive`, `CloseTerminates` |
| `login` | all login states, 3 failures or cancellations (3 471) | `OnePromptOneDialog`; prompts reach the user, inputs reach Telegram |
| `startup` | 2 chats, 2 sessions, 1 failed read, errors of getChats | `TablesDisjoint`, `FlagsMatchTables`, `UserDecides`; `StartupEnds` |
| `messages` | chats of 4 and 1 messages, two of one second; 3 more arrive; pages of 2 | `ShownOnce`, `ShownInOrder`, `NoGap` |
| `sector_file` | sectors of 2 bytes and 1 of overhead, files of up to 5 bytes, careful calls | `ImplementsFlatFile` |
| `database` | 2 pages of 4 bytes, 2 contents, 2 failed calls, 2 ends of the program, fair (208 998) | `ImplementsStore`; `Clean`: no journal between transactions; `Recovers` |
| `directory` | a file, a directory and those of another program, 2 keys, 2 chunks, 2 saves, 2 failures, 2 stops (871 960) | `NothingLost`, `ListedByName`, `KeyRespected` |
| `server` | 2 logins, 4 requests, a short and a long text, 2 failures, 2 starts (120 865) | `SessionInUse`, `RightPinOpens`, `LeftClean`, `OwnAnswer`, `Answers` |
| `transfer` | 2 processes, 2 files, 2 L1 objects, 2 operations, 1 failure, 6 lengths (978 380) | `Exclusive`, `OwnAnswer`, `RoundTrip` |
| `sekey_updates` | 2 users, 2 groups, 1 key, 3 starts with 3, 2 and 1 calls, 1 failure, fair (255 392) | `InSync`, `WholeTables`, `Numbered`, `Converges` |
| `keys` | 3 users, 2 groups, 2 keys, 4 seconds, a margin of 1, 3 starts | `FoundFresh`, `InTime`, `Available`, `Agree` |

`CHECK_DEADLOCK FALSE` is given throughout: the programs end when their window is
closed, and the bounds end every behaviour. Every property has a mutant of the code in
`PROJECT.json` that violates it in its run; the mutants are defined before what they
replace, and marked as such.

### Bounds

*Requests.* A stale result needs two requests, its effect on a third; an answer
out of its time needs a closed chat, so two selections; four requests hold
all of these, and with two signals an update can run in a dialog and another wait
behind it. Five requests (5.6 million states) gave the same results.
*Login.* Three rounds allow a wrong answer, a cancelled dialog and a destroyed
database in one login. *Startup.* With two chats an answer can go to the wrong one;
with two sessions the tables of a session that was cut off are read again.
*Messages.* Pages of two in a chat with four messages make two pages, one of
which starts at a tie; three arrivals allow one in each of the lists.

*SectorFile.* Five bytes are two full sectors and one that is not; writes of up to four
bytes enter three sectors, seeks cross two in either direction. Sectors of three
bytes with files of seven (38 thousand states, minutes) gave the same results.
*Database.* A page of four bytes is two sectors, so that a page can be torn; two pages make
a transaction that changes one and one that adds or removes one; two stops and two
failures let a playback, or a rollback, be cut short itself. *Directory.* Two stops
let a second re-encryption find what the first has left, and two saves tell an old content
from the last; two chunks make a copy that is not whole. The keys are symmetric: no
initial state, action or property tells them apart (without the symmetry, 1.74 million
states, the same results).

*Server.* Two logins let one follow another that has failed, four requests a login, a text,
a message and one more; two failures let the repair of the first fail. *Transfer.* The
lengths, padded to the next 16 bytes, are exactly a chunk (7 520 bytes, 7 504 in counter
mode), a block more or less, nearly a block, nothing, and two chunks; two files let a process hold one that
another has removed. *SEkey.* One start has a user without a key and three
calls (a provisioning, a loss, a recovery), one a key and two calls, one two users with a group in
common and one apart, which is what makes a member a stranger in one group and known in
another. *KeyUse.* Four seconds are the life of the longest key; the three starts have the
choice between two groups, between two equal keys, and an open file.

### Fairness

Weak fairness on each thread of the client: the code waits on condition variables with
predicates and on `receive`, and the scheduler runs every thread that can run. The
Telegram thread's fairness includes that TDLib answers every query it was
sent, which is TDLib's contract; the server's includes that it reads its socket.
In `Server` the server runs, and a client that waits in `read()` takes the answer
there is. In `Database` the program goes on with its calls until it is idle; the
condition is weak fairness of `Next` with its `ENABLED` written out, since `Next` is
disabled only in those states. In `SEkey` the administrator's call goes on
(weak fairness of `SendNext`); programs that use SEkey update at each start and in each
call, and the administrator recovers at each start, and whoever keeps asking for the share
gets it in the end (strong fairness, since the calls of others disable it in between).
The user, the timer, errors, failures, crashes and other devices are never fair.

## 5. Proofs

All theorems hold for any values of the constants that satisfy the assumption of the
module: the types of the constants, a null value that is not in a set (`NoChat`,
`NoKey`, `Nobody`), nothing else.

*Requests.* `TypeCorrect`. `OneOwnerAlways` and `RequestStableAlways` follow from
`SlotInv`: exactly one of the token, the handler, the posted request and the
Telegram thread holds the request slot; `OneOwner` alone is not inductive since
it does not say where the holder is. `ServedAloneAlways` and `OwnAnswerAlways`
need in addition `PhaseInv`, which lists the phases in the life of a request
(idle, posted, served, replied, consumed, quitting) with what `pending`, `ok`,
`error` and the counters are in each: an answer may set a result only in the one
phase that awaits it. `NeverStaleIfReset` shows under `ResettingUse` (no texts, and
errors do not meet update signals) that no result is ever stale, by `ResetInv`;
`RefinesRequestReply` then maps every step to a step of `RequestReply` or a stutter.

*Startup.* `StartupTypeCorrect`, and from `ControlInv` (where the two threads stand
with each value of the hand-over flags) and `ExchangeInv` (what the socket, the
answer and the tables hold at each step, as long as no read has failed) the
theorems `TablesDisjointAlways`, `FlagsMatchTablesAlways` and `UserDecidesAlways`.
`FlagsMatchTables` is not inductive: it needs that a reply on the socket is the one
to the request just sent, and that the answer in `useSEcube` is about `chat`.

*Login.* `OnePromptOneDialogAlways`, by `LoginInv`: the two threads are in one of three
phases (no prompt, a prompt being opened, a prompt with its dialog and input), and the
flags and numbers of prompt, dialog and credential agree as that phase says.

*Server.* `LeftCleanAlways`, `RightPinOpensAlways` and `OwnAnswerAlways`, by `ServerInv`.
`SessionInv`: the L1 object and the device agree once a session is made, and a clean login
leaves none. `OrderInv`: the logins still to be read are later than the one in progress,
so that a refusal in the answers is never to a later login. `AnswerInv`: while every
read has taken one request, the client's one request is in one of five places (unsent,
sent, in a login, answered, or lost with the server). `SessionInUseAlways`, by
`DatabasesInv`: of the file objects with the name of a database that has been opened in
this attempt, the first one is that of the L1 in use. Objects are appended, found from the front and
removed one by one, so this is a fact about the least index with a name in a list that
changes at both ends; an older object that is found first is an L1 that has been destroyed,
which the step that opens the database would have met (`UsesOldL1`).

*Transfer.* `ExclusiveAlways` from `LockInv`: the file of an L1 object that is open is what
its name stands for and is locked by its process, unless `disturbed`. The theorem
`OwnAnswerAlways` needs the first and `ExchangeInv`: what is in the file is the request or
answer of the process that has the lock. `LengthsAgree`: for every length, the blocks
that `L0TX` fills are as many as the length in the header says, and hold all of it.
`RoundTripAlways`, by `OperationsInv`: after `k` chunks an operation has done `k` times its
room, with the pieces and the stream that `PiecesAfter` and `StreamAfter` give in closed form,
so that the number of a chunk says all of it; an encryption and the decryption of its
result have the same chunks, the last one included. The constants of the lengths are those
of the code, and the lengths are any numbers.

*Directory.* `NothingLostAlways` by `DirectoryInv`: of the files of a name (the old one,
the new one of a re-encryption, the new one of that) the first that exists has the content
saved last, the new file of the call under way has the old one's content, and, when
renaming, its length. `NothingLost` is not inductive: it does not say which file the
next re-encryption starts from. `KeyRespectedAlways`: `override_key_check` is off whenever
no call is under way. `ListedByNameAlways`, by `ListInv`: the name in the header of a file
is the one that its digest stands for, or, in the new file of a re-encryption, the old
file's, and `HeaderName` recovers from it the name that opens the file.

*SEkey.* For `Exclusive` constants (the calls on the share do not overlap) and finitely many
ids (`TablesAssumption`). `Base`: the administrator's tables are `Tidy` (statements
keep owners, members and peers in the tables, `Perform` by `Perform`) and every file, queue
and device has its shape. `NumberedAlways`, by `Base`, `Flow` and `NumberInv`. `Flow` is
the order of the files: a device at a file is through with those before it, and a device
in a check keeps the administrator from writing. `Numbered` is not inductive: it says nothing
of the file a device has in hand while a recovery file is pending, nor that the queue of sends
raises a counter as often as it appends. `Ordered` does: records rise and end at the
counter, the device's count and those of its transaction are not above it, and a device that
has begun a recovery file starts again at zero because the first record of each
recovery file clears the tables.

`InSyncAlways` and `WholeTablesAlways` need `SyncInv` besides. `InSync` speaks of the
moments between two calls and of users who are not in the Recovery table, and neither lasts,
so it is not inductive. `Sync` says at every moment what a user *will* have: `SyncAt`, that
the device, taken through its files and then through the records still in `sends`, ends with
`View` of the administrator's tables, and with the counter that goes with the files. It says
so of every place the device may start from: its own committed tables when it is in use,
otherwise a device with any own row. The row is left open because a device that is
initialised gets the row of that moment, whatever was written for it before. The rest is who
is concerned and why a step keeps it: `Sending` (whoever is still to be told is in the
Recovery table), `Unused` (the counter of an id that may be added is 0), `TxOK` (a
transaction is what a prefix of its file makes of the committed tables), `WholeDev` (the
devices' part of `WholeTables`). The argument goes by kinds of steps. A call of the
administrator sends to each user what takes the old view to the new one (`Learns`; one lemma
for each statement and one for each call), and a recovery file gives the view whatever it is
executed on (`RecoveryGives`). A record that is written takes the place of its send
(`SyncAppend`), one for somebody else changes nothing for this user (`SyncDeaf`), and one
that is lost leaves its user on record or forgotten. A call that the check for expired keys
has left users in the Recovery table for (`Settled`) forgets those to whom it sends
something, and the others stay on record (`Changed`). A device that opens, executes, commits,
stops or rolls back ends where it would have (`OutcomeTold`, `DeviceStepSync`): files are
executed again from the start after a stop, so the records of a normal file that have been
counted are skipped (`NumberInv`) and those of an init or recovery file clear what the first
attempt left. `WholeTables` follows for the devices since a view is whole (`Knows`), for the
administrator since its tables are `Tidy`.

*KeyUse.* By `InvAlways`. A device is arbitrarily far behind, so no relation between its
tables and the administrator's is inductive by itself; `Synced` is about what the device
*will* have: `Future(u)`, its tables after everything that is pending, is the
administrator's tables restricted to the user's groups, but for keys the device has
deactivated by its own clock. A call of the administrator adds one statement to the end of
the queue (`ExecutedOneMore`). A check of the device changes its tables under a queue that
stays; `ExecutedKeeps` compares the two executions of that queue. `Devices`: the times in a
device's rows are the administrator's or not set yet (they are set once), and what a call
has found is still so at each of its points. `FoundFreshAlways` then follows since a call
begins with an update, which makes `Future` the present; `InTimeAlways` from the claim that
a check leaves (the key lasts to the end of the second plus `Margin`) and since no step
changes the times; `AvailableAlways` from the existence of a smallest group and of a
best key; `AgreeAlways` since two current devices have the same rows for their common
groups and `safer` with the ids is a total order. `TypeOKAlways` is the type invariant.

*Messages.* By `IInvAlways`. After `std::remove_if` the list is not what is on the screen:
it holds null pointers and, behind the kept messages, some duplicates. `OnScreen` says that
without the null pointers it holds the *same* messages as the screen, which is all that
the search for duplicates needs; `ComesLater`, that undelivered updates are newer than the
list and than the chat at its selection, which is why what goes to the bottom is in order;
`OfTheChat`, that messages after the selection are newer than all before, which is why a
page asked for from a newer message is followed by no gap. `KeptFacts` and the sort lemmas
(`Oldest1stFacts`, `OldestInFacts`) give what the list functions do for lists of any length.

An induction over data is done in these proofs with the least number for which a claim fails
(`LeastNumber`, from the well-foundedness of the naturals): `KeptComes`, `RunKeeps`,
and the existence of the recursive functions themselves (`KeptExists`). For this,
`Kept`, `Executed` and `Over` are definitions of the models.

Only model-checked: everything under fairness (liveness and the progress part of
the refinements), which this prover cannot do; `ImplementsFlatFile` of `SectorFile` and
`ImplementsStore` and `Clean` of `Database`, whose refinement mappings flatten a
concatenation of sectors of which any may be torn; the types of `Server` and `SEkey`
(`TypeOK` there).

## 6. Disagreements found

What a comment, a test or the caller says, and the code does not do. Each has a
definition in its module that TLC finds violated when it is added to the run's `.cfg` (as an
`INVARIANT`, or as a `PROPERTY` where the table says so).

| property, run | what happens |
|---|---|
| `RequestAwaited`, `requests_all` | `sendButtonClicked` never resets `ok` and `error` (`ChatWindow.cpp:476`): the next request returns before it is served |
| `AckWakesTelegram`, `login` (PROPERTY) | the token after `login_done` may be taken by the chat window (`AccessWindow.cpp:185`) |
| `StartupEnds`, `startup` with `TelegramErrors = {"getMe"}` (PROPERTY) | an error of `getMe` leaves the GUI thread waiting for ever (`Td.cpp:171`) |
| `NoHoles`, `messages` | `remove_if` without erase leaves null pointers in the list (`ChatWindow.cpp:264`; `:254` says that it removes the elements) |
| `NewAreShown`, `messages` | `newMessages` is cleared before it has been shown (`ChatWindow.cpp:697`) |
| `SeekKeepsData`, `sector_file` with `Careful = FALSE` (PROPERTY) | a seek behind the end writes zeros over data when the file fills its last sector (`SEfile.cpp:766`) |
| `NothingInClear`, `server` | a text longer than the buffer leaves a rest that is answered as a request of its own (`SEcubeServer.cpp:175`), and from then on answers are one request late: a decrypted message is sent as the "encrypted" text (`ChatWindow.cpp:778`, `:808`) |
| `TryAgain`, `server` | "please, try again" (`AccessWindow.cpp:148`): the databases of a failed attempt keep a pointer to its L1 (`SEcureDB.cpp:1069`), which the next attempt destroys |
| `KeepsUpdateKeys`, `sekey_updates` | the recovery file of a user in no group has not its own row (`SEkey.cpp:704`, `SEkey.h:657`): the device forgets the keys of its update files |
| `RecoveredFirst`, `sekey_updates` (PROPERTY) | "if the system is not able to generate the recovery file [...] the API must not be executed" (`SEkey.cpp:994`), and `sekey_recovery` must leave nobody in the Recovery table for it (`:1052`): the check for expired keys runs after it (`:1924`, `:2719`), fills the table again by a change of status (`:3005`), and the call goes on when a record of that change could not be written |
| `DeactivatedByExpiration`, `keys` | the deactivation time is the time at which the expiry was found (`SEkey.cpp:3010`), not "always less or equal to the expiration time" (`SEkey.h:226`) |

Seen on the way, with no definition of their own.

*Client.* Selecting an empty chat dereferences `messages_[0]` (`Td.cpp:332`, the state
`crashed`); a signal delivered after the Telegram thread has quit hangs in `waitTelegram`
(excepted in `GuiResponsive`); an error of getChats closes the window before the update
thread exists (`ChatWindow.cpp:499`); when the server answers a text with an error, an
empty text is sent and shown as sent (`ChatWindow.cpp:480`). The comparator of `std::sort` in
`getPreviousMessages` returns true for equal dates, which is not a strict order; with pages
of at most ten the library's insertion sort still yields a list sorted by date, which is what
`Newest1st` says.

*Server.* A PIN of more than 32 bytes, a malformed message and an error while a
database is opened (a write to a reset handle, `SEcureDB.cpp:1074`) end the server. After an
error status of LOGIN `session_logged_in` stays set (`L1_login_logout.cpp:112`), so that the
next destructor's logout fails and ends it too: the state `terminated`.

*SEkey.* `sekey_delete_group` does not deactivate the keys it leaves without an owner
(`SEkey.cpp:3226`, `SEkey.h:424`). Losses without a row in the Recovery table, the
exemption `forgotten`: of several records for one user, one that is not the last cannot be
written, and the last one takes the user out of the table (`SEkey.cpp:4395`); the file
that empties the device of a deleted user cannot be written; a user is initialised once
more; the device has been given its keys and the init file cannot be written (`SEkey.cpp:1663`); a user in no
group is renamed or recovered; a record of the change that deactivates an expired key cannot be
written, and the call it is part of writes to the same user: `fill_recovery` finds the row there
(`SEkey.cpp:4842`) and the first record that is written removes it (`:4436`), so that the device,
which finds a gap in the numbers, refuses its normal file until a recovery is requested
for it. `sekey_write_recovery` of a deleted user answers OK (`SEkey.h:645`). After
`sekey_find_key` the documentation promises the most recent key, the code takes the one of the
shortest span (`SEkey.cpp:1160`). The update files are written under no lock
(`SEkey.cpp:3862-3936`); the runs take `Exclusive = TRUE`, what the comment at
`SEkey.cpp:976-978` asks of the share.

*Storage.* A write over several sectors of an existing file loses the rest of the last one
(`SEfile.cpp:570`, `KeepsRest`). `secure_truncate` to a larger size answers
`SEFILE_TRUNCATE_ERROR` after it has done its work, unless the file was empty
(`SEfile.cpp:815`, `Grow`), and to a smaller size it may lose bytes it should keep when
the SEcube fails after the cut (`SEfile.cpp:844`, `ShrinkFails`). A program that ends between the
creation of a database and its header sector leaves a file that every later start dies
of (`Unopenable`). When a re-encryption of a database ends between removing the old
file and renaming the new one (`SEcureDB.cpp:1023`), the next start finds no database and makes
an empty one: the content is still there, under the name with the suffix, which is what
`NothingLost` and `ListedByName` say and no more.

*Device.* A second L1 object in a process takes away the lock of the first (`disturbed`);
`Se3MagicInit` truncates the file before it has the lock and removes it after it has
closed it; the unlock sets a read lock, since `F_ULOCK` is the value of `F_RDLCK`;
a lock that times out leaks its descriptor.

## 7. Not modelled

The building of attachments (`ChatWindow.cpp:325-417`), the enumeration calls of SEkey, its
logs and PINs, string and format helpers: no state that a property here would be about.
SElink's serialisation and base64, the counters in `crypt_sectors` and the inside of the
ciphers: data below what the models tell apart. `L1Digest` and others without callers. The
error statuses of the device, beyond that an exchange may fail. Power loss between a write
and its reaching the disk: the code syncs where SQLite asks, and a model of the disk's
cache would be a guess. The Windows branches. Names that contain `;` and statements longer
than 65 535 bytes, whose length SEkey cuts (`SEkey.cpp:4369`). Torn records in an update
file, and the clock in `SEkey` (a key may expire at any time there; the times are in `KeyUse`);
a device that has only some of its keys when `sekey_init_user_SEcube` fails before the
init file. Widgets, frames and
stylesheets: no state a property could be about. TDLib, SQLite, cryptography and the firmware:
external, modelled by what the code relies on, marked so in the map. Liveness of the user.
Formatting and logging.
