------------------------------ MODULE Database ------------------------------
(***************************************************************************)
(* An encrypted SQLite database (sefile/SEcureDB.cpp): the c_sql functions *)
(* through which SQLite works on the files of a database, and the start of *)
(* the programs that keep one (setelegram and SEkey).                      *)
(*                                                                         *)
(* The methods securedb_secure_* are those of SectorFile with the sectors  *)
(* of SEFILE_SQL_SECTOR.  SQLite and its file layer are not in the         *)
(* repository; what they do with these functions in the mode the code asks *)
(* for (journal_mode = DELETE, synchronous = 2) is a sequence of calls,    *)
(* plan, that is carried out one call after the other.  Each call may      *)
(* fail, and the program may end between any two and in the middle of one. *)
(***************************************************************************)
EXTENDS Naturals, Integers, Sequences, SequencesExt, FiniteSets

CONSTANTS
    PageSize,   \* the bytes of a page
    Pages,      \* the contents a page may have, each a byte
    MaxPages,   \* bound: the pages of the database
    MaxFaults,  \* bound: the calls that fail
    MaxStops    \* bound: the ends of the program

ASSUME DatabaseAssumption ==
    /\ PageSize \in Nat \ {0} /\ MaxPages \in Nat \ {0}
    /\ Pages \subseteq Nat /\ Pages # {} /\ 0 \notin Pages
    /\ MaxFaults \in Nat /\ MaxStops \in Nat

VARIABLES
    exists,     \* the files on the disk, among "db" and "journal"
    databases,  \* the files an object of databases has a handle of
    dHeader, dSectors, dPointer, dLog, dOpen,   \* the database file
    jHeader, jSectors, jPointer, jLog, jOpen,   \* its journal
    answer,     \* of the last call
    pc,         \* what the plan is for
    plan,       \* the calls that are still to be made
    goal,       \* what the transaction makes the database
    status,     \* of the last transaction
    starting,   \* TRUE until the program has started
    faults, stops

db == <<dHeader, dSectors, dPointer, dLog, dOpen>>
journal == <<jHeader, jSectors, jPointer, jLog, jOpen>>
counts == <<faults, stops>>
vars == <<exists, databases, db, journal, answer, pc, plan, goal, status,
          starting, counts>>

Page(v) == [i \in 1..PageSize |-> v]
Value == {<<>>} \cup UNION {{FlattenSeq([i \in 1..n |-> Page(vs[i])]) : vs \in [1..n -> Pages]} :
                             n \in 1..MaxPages}
Bytes == Pages \cup (0 .. MaxPages)
MaxBytes == 2 + MaxPages * (PageSize + 1)

Db == INSTANCE SectorFile WITH
    LogicData <- 2, SectorOverhead <- 1, Byte <- Bytes, Junk <- -1,
    Inputs <- {<<>>}, MaxSize <- MaxBytes, Careful <- FALSE,
    header <- dHeader, sectors <- dSectors, pointer <- dPointer,
    log_offset <- dLog, IsOpen <- dOpen

Jr == INSTANCE SectorFile WITH
    LogicData <- 2, SectorOverhead <- 1, Byte <- Bytes, Junk <- -1,
    Inputs <- {<<>>}, MaxSize <- MaxBytes, Careful <- FALSE,
    header <- jHeader, sectors <- jSectors, pointer <- jPointer,
    log_offset <- jLog, IsOpen <- jOpen

IsUsable(f) == IF f = "db" THEN Db!Usable ELSE Jr!Usable
HasHeader(f) == IF f = "db" THEN dHeader ELSE jHeader

-----------------------------------------------------------------------------
(* The methods of SEcureDB.cpp, of the object whose file is f.             *)

\* The call with the object of the database, or with that of the journal.
OnFile(f, A, B) ==
    \/ f = "db" /\ A /\ UNCHANGED journal
    \/ f = "journal" /\ B /\ UNCHANGED db

securedb_secure_write(f, data) ==
    OnFile(f, Db!SecureWrite(data), Jr!SecureWrite(data))

securedb_secure_read(f, n) == OnFile(f, Db!SecureRead(n), Jr!SecureRead(n))

securedb_secure_seek(f, n) ==
    OnFile(f, Db!SecureSeek(n, "begin"), Jr!SecureSeek(n, "begin"))

\* Mutant: a file is only ever enlarged.
securedb_secure_truncate_grow(f, n) ==
    /\ UNCHANGED <<db, journal>>
    /\ Db!Returns("truncate", TRUE, <<>>)

\* All sectors behind the new end are cut off, then the rest of the last one is
\* written back.
securedb_secure_truncate(f, n) ==
    OnFile(f, Db!SecureTruncate(n), Jr!SecureTruncate(n))

\* open with O_CREAT and O_TRUNC, then the header sector.
securedb_secure_create(f) == OnFile(f, Db!SecureCreate, Jr!SecureCreate)

\* A file without a header sector, or one that cannot be decrypted, is closed
\* again and the object has no handle.
securedb_secure_open(f) ==
    \/ OnFile(f, Db!SecureOpen, Jr!SecureOpen)
    \/ /\ UNCHANGED <<db, journal>>
       /\ Db!Returns("open", FALSE, <<>>)

securedb_secure_close(f) == OnFile(f, Db!SecureClose, Jr!SecureClose)

securedb_secure_sync(f) ==
    /\ UNCHANGED <<db, journal>>
    /\ \E ok \in BOOLEAN : Db!Returns("sync", ok, <<>>)

\* The length of a file: its sectors before the last, and what the last holds.
securedb_get_filesize(f) == IF f = "db" THEN Db!FileSize ELSE Jr!FileSize

securedb_secure_getfilesize(f) ==
    /\ UNCHANGED <<db, journal>>
    /\ \E ok \in BOOLEAN : Db!Returns("getfilesize", ok, <<>>)

-----------------------------------------------------------------------------
(* The functions for SQLite: a call c is for the object that has a handle  *)
(* of the file.                                                            *)

\* The object of the database has its name; the name of the journal contains
\* it, so the journal gets a copy of that object.
c_sql_secure_open(c) ==
    /\ c.op \in {"open", "create"} /\ "db" \in databases
    /\ \/ c.op = "open" /\ securedb_secure_open(c.file) /\ UNCHANGED exists
       \/ /\ c.op = "create" /\ securedb_secure_create(c.file)
          /\ \/ exists' = exists \cup {c.file}
             \/ ~answer'.ok /\ UNCHANGED exists
    /\ databases' = databases \cup {c.file}

\* The object is removed from databases.
c_secure_close(c) ==
    /\ c.op = "close"
    /\ securedb_secure_close(c.file)
    /\ databases' = databases \ {c.file}
    /\ UNCHANGED exists

c_sql_secure_write(c) == c.op = "write" /\ securedb_secure_write(c.file, c.data)
c_sql_secure_read(c) == c.op = "read" /\ securedb_secure_read(c.file, MaxBytes)
c_sql_secure_seek(c) == c.op = "seek" /\ securedb_secure_seek(c.file, c.n)
c_sql_secure_truncate(c) ==
    c.op = "truncate" /\ securedb_secure_truncate(c.file, c.n)
c_secure_sync(c) == c.op = "sync" /\ securedb_secure_sync(c.file)
c_sql_secure_getfilesize(c) ==
    c.op = "getfilesize" /\ securedb_secure_getfilesize(c.file)

\* The file layer removes the journal itself.
Delete(c) ==
    /\ c.op = "delete"
    /\ \E ok \in BOOLEAN :
        /\ Db!Returns("delete", ok, <<>>)
        /\ IF ok THEN exists' = exists \ {"journal"} /\ jHeader' = FALSE /\ jSectors' = <<>>
                 ELSE UNCHANGED <<exists, jHeader, jSectors>>
    /\ UNCHANGED <<databases, db, jPointer, jLog, jOpen>>

Execute(c) ==
    \/ c_sql_secure_open(c) \/ c_secure_close(c) \/ Delete(c)
    \/ /\ c.file \in databases
       /\ \/ c_sql_secure_write(c) \/ c_sql_secure_read(c)
          \/ c_sql_secure_seek(c) \/ c_sql_secure_truncate(c)
          \/ c_secure_sync(c) \/ c_sql_secure_getfilesize(c)
       /\ UNCHANGED <<exists, databases>>

\* Whether c could have succeeded: its file has a header, and the pointers
\* agree.
MayWork(c) ==
    /\ c.op = "open" => HasHeader(c.file)
    /\ c.op \in {"read", "write", "seek"} => IsUsable(c.file)

-----------------------------------------------------------------------------
(* What SQLite asks for.                                                   *)

Op(op, f) == [op |-> op, file |-> f, n |-> 0, data |-> <<>>]
WriteAt(f, n, data) ==
    << [Op("seek", f) EXCEPT !.n = n], [Op("write", f) EXCEPT !.data = data] >>

\* The bytes of page p of a content.
PageOf(content, p) == SubSeq(content, (p - 1) * PageSize + 1, p * PageSize)
PageCount(content) == Len(content) \div PageSize

\* Records of a journal: the number of a page and what it was before.
RecordSize == PageSize + 1
RecordAt(data, i) ==
    SubSeq(data, 2 + (i - 1) * RecordSize + 1, 2 + i * RecordSize)

\* The pages that new changes in old, and those it adds.
Changed(old, new) ==
    {p \in 1..PageCount(old) : PageOf(old, p) # PageOf(new, p)}
Added(old, new) == PageCount(old) + 1 .. PageCount(new)
Sorted(S) == SetToSortSeq(S, <)

\* The journal with the number of its records, the size of the database, and
\* the pages ps of content.
OpenJournal(content, ps) ==
    << Op("create", "journal"),
       [Op("write", "journal") EXCEPT !.data = <<0, PageCount(content)>>] >>
    \o FlattenSeq([i \in DOMAIN ps |->
        WriteAt("journal", 2 + (i - 1) * RecordSize, <<ps[i]>> \o PageOf(content, ps[i]))])

\* The number of its records is written once they are on the disk.
JournalPlan(content, new) ==
    LET ps == Sorted(Changed(content, new)) IN
    OpenJournal(content, ps)
    \o <<Op("sync", "journal")>> \o WriteAt("journal", 0, <<Len(ps)>>)
    \o <<Op("sync", "journal")>>

DropJournal == <<Op("close", "journal"), Op("delete", "journal")>>

\* Removing the journal commits the transaction.
DatabasePlan(content, new) ==
    LET ps == Sorted(Changed(content, new) \cup Added(content, new)) IN
    FlattenSeq([i \in DOMAIN ps |->
        WriteAt("db", (ps[i] - 1) * PageSize, PageOf(new, ps[i]))])
    \o <<Op("sync", "db")>> \o DropJournal

\* The dummy transaction changes the first page and rolls that back; the check
\* of the integrity reads the database.
DummyPlan(content) ==
    OpenJournal(content, IF content = <<>> THEN <<>> ELSE <<1>>)
    \o DropJournal
    \o <<Op("seek", "db"), Op("read", "db")>>

ReadBack == <<Op("getfilesize", "db"), Op("seek", "journal"), Op("read", "journal")>>

\* A journal with the bytes data restores the size and the pages it has.
PlaybackPlan(data) ==
    (IF Len(data) < 2 THEN <<>> ELSE
       (IF securedb_get_filesize("db") > data[2] * PageSize
        THEN << [Op("truncate", "db") EXCEPT !.n = data[2] * PageSize] >> ELSE <<>>)
       \o FlattenSeq([i \in 1..data[1] |->
            WriteAt("db", (RecordAt(data, i)[1] - 1) * PageSize, Tail(RecordAt(data, i)))])
       \o <<Op("sync", "db")>>)
    \o DropJournal

\* What is left of a journal.
CleanUp == SelectSeq(DropJournal, LAMBDA c :
    IF c.op = "close" THEN jOpen' ELSE "journal" \in exists')

-----------------------------------------------------------------------------
(* The program.                                                            *)

To(where, calls) == pc' = where /\ plan' = calls
Same == UNCHANGED <<goal, status, starting>>

\* Before a database is read: a journal restores it, or is removed when the
\* database is empty.
Restore ==
    IF Db!Content = <<>> THEN To("restore", <<Op("delete", "journal")>>)
    ELSE To("hot", <<Op("open", "journal")>> \o ReadBack)

\* A call has worked.  Removing the journal of a transaction commits it.
Worked(c) ==
    /\ To(pc, Tail(plan))
    /\ status' = IF c.op = "delete" /\ pc = "database" THEN "done" ELSE status

\* A call has failed.  A failed c_sql_secure_open has no handle to write the
\* name of the file to, which ends the program.  Otherwise the transaction is
\* rolled back; if that fails too the journal stays.
Failed(c) ==
    /\ status' = IF status = "open" THEN "failed" ELSE status
    /\ CASE c.op \in {"open", "create"} -> To("ended", <<>>)
         [] c.op # "delete" /\ pc \in {"journal", "dummy"} -> To("undo", CleanUp)
         [] c.op # "delete" /\ pc = "database" -> To("readback", ReadBack)
         [] OTHER -> To("giveup", IF jOpen' THEN <<Op("close", "journal")>> ELSE <<>>)

\* The next call of the plan.
Call ==
    /\ plan # <<>>
    /\ LET c == Head(plan) IN
        /\ Execute(c)
        /\ IF answer'.ok THEN Worked(c) ELSE Failed(c)
        /\ faults' = IF ~answer'.ok /\ MayWork(c) THEN faults + 1 ELSE faults
    /\ faults' <= MaxFaults
    /\ UNCHANGED <<goal, starting, stops>>

files == <<exists, databases, db, journal, answer, counts>>

Finishes(where) == pc = where /\ plan = <<>> /\ UNCHANGED files

\* SEtelegram.cpp:77 and SEkey.cpp:390: the tables of a new database.
CreateTables ==
    /\ Finishes("create")
    /\ \E v \in Pages :
        /\ goal' = Page(v)
        /\ To("journal", JournalPlan(<<>>, Page(v)))
    /\ status' = "open"
    /\ UNCHANGED starting

\* Mutant of Opened: no dummy transaction that would make SQLite look for a
\* journal.
OpenedAsItIs ==
    /\ Finishes("open") /\ To("idle", <<>>)
    /\ starting' = FALSE
    /\ UNCHANGED <<goal, status>>

\* The dummy transaction, with the restoring it sets off.
Opened ==
    /\ Finishes("open")
    /\ IF "journal" \in exists THEN Restore ELSE To("dummy", DummyPlan(Db!Content))
    /\ Same

JournalRead ==
    /\ \/ Finishes("hot") /\ To("restore", PlaybackPlan(answer.data))
       \/ Finishes("readback") /\ To("playback", PlaybackPlan(answer.data))
    /\ Same

JournalWritten ==
    /\ Finishes("journal") /\ To("database", DatabasePlan(Db!Content, goal))
    /\ Same

\* The dummy transaction follows the tables and the restored journal.
Coherent ==
    /\ Finishes("database") \/ Finishes("restore")
    /\ IF starting THEN To("dummy", DummyPlan(Db!Content)) ELSE To("idle", <<>>)
    /\ Same

Started ==
    /\ Finishes("dummy") /\ To("idle", <<>>)
    /\ starting' = FALSE
    /\ UNCHANGED <<goal, status>>

\* After a failure the start gives up; a running program reports an error.
RolledBack ==
    /\ \/ Finishes("undo") \/ Finishes("playback")
       \/ Finishes("giveup")
    /\ To(IF starting THEN "ended" ELSE IF pc = "giveup" THEN "error" ELSE "idle", <<>>)
    /\ Same

\* The next statement after a failed rollback finds the journal.
Retry == Finishes("error") /\ Restore /\ Same

Begin ==
    /\ Finishes("idle") /\ Db!Content # <<>>
    /\ \E new \in Value :
        /\ PageCount(new) >= PageCount(Db!Content) /\ new # Db!Content
        /\ goal' = new
        /\ To("journal", JournalPlan(Db!Content, new))
    /\ status' = "open"
    /\ UNCHANGED starting

\* Mutant of Start: a file that is not there is opened too.
StartOpens ==
    /\ pc = "off"
    /\ databases' = {"db"}
    /\ To("open", <<Op("open", "db")>>)
    /\ starting' = TRUE
    /\ UNCHANGED <<exists, db, journal, answer, goal, status, counts>>

\* The constructor of setelegram and sekey_start: an object with the name of
\* the database, and a file that is opened or, if it is not there, created.
Start ==
    /\ pc = "off"
    /\ databases' = {"db"}
    /\ IF "db" \in exists THEN To("open", <<Op("open", "db")>>)
                          ELSE To("create", <<Op("create", "db")>>)
    /\ starting' = TRUE
    /\ UNCHANGED <<exists, db, journal, answer, goal, status, counts>>

\* The destructor of setelegram and sekey_stop close the database.
CloseDatabase ==
    /\ Finishes("idle") /\ To("closing", <<Op("close", "db")>>)
    /\ Same

\* The program ends in good order.
Closed ==
    /\ pc = "closing" /\ plan = <<>>
    /\ To("off", <<>>)
    /\ UNCHANGED <<exists, databases, db, journal, answer, goal, status, starting, counts>>

\* The program ends, at once or because it must.
Stop ==
    /\ pc # "off"
    /\ pc # "ended" => stops < MaxStops
    /\ stops' = IF pc = "ended" THEN stops ELSE stops + 1
    /\ To("off", <<>>)
    /\ status' = IF status = "open" THEN "failed" ELSE status
    /\ databases' = {} /\ dOpen' = FALSE /\ jOpen' = FALSE /\ starting' = FALSE
    /\ UNCHANGED <<exists, dHeader, dSectors, dPointer, dLog, jHeader, jSectors,
                   jPointer, jLog, answer, goal, faults>>

Init ==
    /\ Db!Init /\ Jr!Init
    /\ exists = {} /\ databases = {}
    /\ pc = "off" /\ plan = <<>> /\ goal = <<>> /\ status = "failed"
    /\ starting = FALSE /\ faults = 0 /\ stops = 0

Next ==
    \/ Start \/ Call \/ CreateTables \/ Opened \/ JournalRead \/ JournalWritten
    \/ Coherent \/ Started \/ RolledBack \/ Retry \/ Begin
    \/ CloseDatabase \/ Closed \/ Stop

Spec == Init /\ [][Next]_vars

\* A program that runs goes on, and one that has ended is started again: weak
\* fairness of Next while pc is neither "idle" nor "error", where Next is always
\* enabled.  (TLC is slow to evaluate ENABLED for a call.)
Fairness == []<>(pc \in {"idle", "error"}) \/ []<><<Next>>_vars

FairSpec == Spec /\ Fairness

-----------------------------------------------------------------------------
(* Properties.                                                             *)

\* What the database will be once its journal has been played back.
Hot == jHeader /\ Len(Jr!Content) >= 2
Restored(content, data) ==
    [k \in 1..Min({Len(content), data[2] * PageSize}) |->
        LET of == {i \in 1..data[1] : (k - 1) \div PageSize + 1 = RecordAt(data, i)[1]}
        IN IF of = {} THEN content[k]
           ELSE RecordAt(data, CHOOSE i \in of : TRUE)[2 + ((k - 1) % PageSize)]]
Effective == IF Hot THEN Restored(Db!Content, Jr!Content) ELSE Db!Content

Transactions == INSTANCE Store WITH value <- Effective

\* Whatever call fails and wherever the program ends, a transaction that was
\* reported done has taken place and any other has not or has as a whole.
ImplementsStore == Transactions!Spec

\* When the program has started and between its transactions, no journal is
\* left: what SQLite reads from the file is the result of the transactions.
Clean == pc = "idle" => "journal" \notin exists /\ Db!Content \in Value

\* A file without its header sector, which c_sql_secure_open dies of.
Unopenable ==
    \/ "db" \in exists /\ ~dHeader
    \/ "journal" \in exists /\ ~jHeader /\ Db!Content # <<>>

\* The start gets the database into order, unless a file was left without its
\* header sector.
Recovers == pc = "off" ~> pc = "idle" \/ Unopenable
=============================================================================
