----------------------------- MODULE MagicFile -----------------------------
(***************************************************************************)
(* How processes find and open a SEcube: through the file .se3magic on its *)
(* disk, which the first of them creates, and a lock of POSIX on it, which *)
(* belongs to the process and not to its descriptor.  Each L1 object of a  *)
(* process looks for the SEcube and opens it; the server makes another one *)
(* for each login attempt, and destroys the one before only then.          *)
(***************************************************************************)
EXTENDS Naturals, FiniteSets, SequencesExt

CONSTANTS Process,
          MaxFiles,   \* bound of the times the file is created
          MaxStarts,  \* bound of the L1 objects made
          MaxFaults   \* bound of the reads and writes that fail

Nobody == "nobody"

ASSUME MagicFileAssumption ==
  /\ Nobody \notin Process
  /\ MaxFiles \in Nat \ {0} /\ MaxStarts \in Nat /\ MaxFaults \in Nat

VARIABLES
  path,     \* what the name .se3magic stands for, NoFile without one
  files,    \* the files that have had that name
  proc,     \* each process: pc, the file at hand, what it does once it has closed
            \* it, the files of its open L1 objects
  disturbed, \* history: a process has looked for the SEcube with one open, which takes
             \* its own lock away, or removed a file that another may have opened
  starts,
  faults

magicVars == <<path, files, proc, disturbed, starts, faults>>

File == 1..MaxFiles
NoFile == 0
Unused == [magic |-> FALSE, writer |-> Nobody, readers |-> {}]
Out == [pc |-> "out", file |-> NoFile, next |-> "none", l1 |-> <<>>]

\* The program starts with the file of an earlier session, or without one.
MagicInit ==
  /\ path \in {NoFile, 1}
  /\ files = [i \in File |-> [Unused EXCEPT !.magic = (i = path)]]
  /\ proc = [p \in Process |-> Out]
  /\ disturbed = FALSE /\ starts = 0 /\ faults = 0

-----------------------------------------------------------------------------
(* The lock.                                                               *)

Free(i, p) == files[i].writer \in {Nobody, p} /\ files[i].readers \subseteq {p}
se3UnixLock(i, p) == [files EXCEPT ![i].writer = p, ![i].readers = {}]

\* F_ULOCK is the value of F_RDLCK: the lock becomes a read lock, if nobody else
\* has a write lock, until the descriptor is closed.
se3UnixUnlock(i, p) ==
  IF files[i].writer \in {Nobody, p}
    THEN [files EXCEPT ![i].writer = Nobody, ![i].readers = @ \cup {p}]
    ELSE files

\* close() of any of its descriptors of a file ends all locks of the process.
Close(F, i, p) ==
  [F EXCEPT ![i].writer = IF @ = p THEN Nobody ELSE @, ![i].readers = @ \ {p}]

-----------------------------------------------------------------------------

Faulty == faults < MaxFaults /\ faults' = faults + 1
NoFault == UNCHANGED faults

Becomes(p, to) == proc' = [proc EXCEPT ![p] = to]
Goto(p, pc) == Becomes(p, [proc[p] EXCEPT !.pc = pc])
At(p, pc) == proc[p].pc = pc
Same == UNCHANGED <<path, disturbed, starts>>

\* What a process does once it cannot have the SEcube: L1's constructor has
\* thrown, or has found nothing, and the L1 before stays.
GaveUp(r) == IF r.l1 = <<>> THEN Out ELSE [r EXCEPT !.pc = "ready", !.file = NoFile, !.next = "none"]

\* make_unique<L1>, and with it L0's constructor.
MakeL1(p) ==
  /\ proc[p].pc \in {"out", "ready"} /\ starts < MaxStarts
  /\ starts' = starts + 1
  /\ Becomes(p, [proc[p] EXCEPT !.pc = "info"])
  /\ disturbed' = (disturbed \/ proc[p].l1 # <<>>)
  /\ UNCHANGED <<path, files, faults>>

\* Se3Info: the file is opened to read only, or has to be created.
Se3Info(p) ==
  /\ At(p, "info")
  /\ IF path = NoFile THEN Goto(p, "create")
     ELSE Becomes(p, [proc[p] EXCEPT !.pc = "info read", !.file = path])
  /\ UNCHANGED files /\ Same /\ NoFault

\* A file that is not the SEcube's is created anew, a read that fails ends the
\* search; in any case, Se3Close starts with se3UnixUnlock.
InfoRead(p) ==
  /\ At(p, "info read")
  /\ LET r == [proc[p] EXCEPT !.pc = "info close"]
     IN  \/ files[r.file].magic /\ NoFault /\ Becomes(p, [r EXCEPT !.next = "open"])
         \/ ~files[r.file].magic /\ NoFault /\ Becomes(p, [r EXCEPT !.next = "create"])
         \/ Faulty /\ Becomes(p, [r EXCEPT !.next = "give up"])
  /\ files' = se3UnixUnlock(proc[p].file, p)
  /\ Same

InfoClose(p) ==
  /\ At(p, "info close")
  /\ files' = Close(files, proc[p].file, p)
  /\ Becomes(p, LET r == proc[p]
                IN  IF r.next = "give up" THEN GaveUp(r)
                    ELSE [r EXCEPT !.pc = r.next, !.file = NoFile, !.next = "none"])
  /\ Same /\ NoFault

-----------------------------------------------------------------------------
(* Se3MagicInit.                                                           *)

\* O_CREAT | O_TRUNC, before there is a lock.
MagicOpen(p) ==
  /\ At(p, "create")
  /\ LET fresh == {i \in File : files[i] = Unused /\ \A q \in Process : proc[q].file # i
                                                    /\ i \notin ToSet(proc[q].l1)}
     IN  \E i \in IF path = NoFile THEN {i \in fresh : \A j \in fresh : i <= j} ELSE {path} :
           /\ path' = i
           /\ files' = [files EXCEPT ![i].magic = FALSE]
           /\ Becomes(p, [proc[p] EXCEPT !.pc = "magic lock", !.file = i])
  /\ UNCHANGED <<disturbed, starts>> /\ NoFault

MagicLock(p) ==
  /\ At(p, "magic lock")
  /\ LET i == proc[p].file
     IN  IF Free(i, p) THEN files' = se3UnixLock(i, p) /\ Goto(p, "magic write")
         ELSE files' = Close(files, i, p) /\ Becomes(p, GaveUp(proc[p]))
  /\ Same /\ NoFault

MagicWrite(p) ==
  /\ At(p, "magic write")
  /\ \/ /\ files' = [files EXCEPT ![proc[p].file].magic = TRUE]
        /\ Goto(p, "magic read") /\ NoFault
     \/ Faulty /\ Goto(p, "magic drop") /\ UNCHANGED files
  /\ Same

MagicRead(p) ==
  /\ At(p, "magic read")
  /\ LET i == proc[p].file
     IN  \/ /\ files[i].magic /\ NoFault
            /\ files' = Close(files, i, p) /\ Goto(p, "open")
         \/ ~files[i].magic /\ NoFault /\ Goto(p, "magic drop") /\ UNCHANGED files
         \/ Faulty /\ Goto(p, "magic drop") /\ UNCHANGED files
  /\ Same

\* The file is closed, and only then removed.
MagicDrop(p) ==
  /\ At(p, "magic drop")
  /\ files' = Close(files, proc[p].file, p)
  /\ Goto(p, "magic unlink")
  /\ Same /\ NoFault

MagicUnlink(p) ==
  /\ At(p, "magic unlink")
  /\ path' = NoFile
  /\ disturbed' = (disturbed \/ path # NoFile)
  /\ Becomes(p, GaveUp(proc[p]))
  /\ UNCHANGED <<files, starts>> /\ NoFault

-----------------------------------------------------------------------------
(* L0Open.                                                                 *)

\* Without the file, the lock is asked for on no descriptor until the time is up,
\* which is then the error that is returned.
L0Open(p) ==
  /\ At(p, "open")
  /\ IF path = NoFile THEN Becomes(p, GaveUp(proc[p]))
     ELSE Becomes(p, [proc[p] EXCEPT !.pc = "lock", !.file = path])
  /\ UNCHANGED files /\ Same /\ NoFault

\* Mutant of Lock: when the time is up, the file is used without its lock.
LockOrNot(p) ==
  /\ At(p, "lock")
  /\ files' = IF Free(proc[p].file, p) THEN se3UnixLock(proc[p].file, p) ELSE files
  /\ Goto(p, "verify")
  /\ Same /\ NoFault

\* Se3OpenExisting tries until it has the lock or the time is up.
Lock(p) ==
  /\ At(p, "lock")
  /\ IF Free(proc[p].file, p)
       THEN files' = se3UnixLock(proc[p].file, p) /\ Goto(p, "verify")
       ELSE UNCHANGED files /\ Becomes(p, GaveUp(proc[p]))
  /\ Same /\ NoFault

\* Se3Open reads the serial number; a L1 that is replaced is destroyed then.
Verify(p) ==
  /\ At(p, "verify")
  /\ LET r == proc[p]
     IN  \/ /\ files[r.file].magic /\ NoFault
            /\ Becomes(p, [r EXCEPT !.l1 = Append(@, r.file), !.file = NoFile,
                                    !.pc = IF r.l1 = <<>> THEN "ready" ELSE "replace"])
            /\ UNCHANGED files
         \/ /\ \/ ~files[r.file].magic /\ NoFault
               \/ Faulty
            /\ Becomes(p, GaveUp(r))
            /\ files' = Close(files, r.file, p)
  /\ Same

L0Close(p) ==
  /\ proc[p].pc \in {"ready", "replace"} /\ proc[p].l1 # <<>>
  /\ LET rest == Tail(proc[p].l1)
     IN  Becomes(p, IF rest = <<>> THEN Out ELSE [proc[p] EXCEPT !.l1 = rest, !.pc = "ready"])
  /\ files' = Close(files, Head(proc[p].l1), p)
  /\ Same /\ NoFault

\* The process ends, anywhere.
Crash(p) ==
  /\ ~At(p, "out")
  /\ files' = [i \in File |-> Close(files, i, p)[i]]
  /\ Becomes(p, Out)
  /\ Same /\ NoFault

MagicStep(p) ==
  \/ MakeL1(p) \/ Se3Info(p) \/ InfoRead(p) \/ InfoClose(p)
  \/ MagicOpen(p) \/ MagicLock(p) \/ MagicWrite(p) \/ MagicRead(p) \/ MagicDrop(p) \/ MagicUnlink(p)
  \/ L0Open(p) \/ Lock(p) \/ Verify(p) \/ L0Close(p)

-----------------------------------------------------------------------------

\* Two programs do not have the SEcube open at the same time, in spite of the file
\* that may have to be created and is emptied before it is locked.
Exclusive == ~disturbed => Cardinality({p \in Process : proc[p].l1 # <<>>}) <= 1
=============================================================================
