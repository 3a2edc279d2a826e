--------------------------- MODULE TransferProofs ---------------------------
(***************************************************************************)
(* Theorems about the exchanges of Transfer, for any processes, files,     *)
(* texts and failures.                                                     *)
(*                                                                         *)
(* Exclusive is not inductive: that a process has the SEcube open says     *)
(* nothing about its lock, and a lock on a file that has lost its name     *)
(* excludes nobody.  LockInv says that, until something is disturbed, the  *)
(* file at hand is the one with the name and that whoever has the SEcube   *)
(* open, or is about to, has its write lock.  OwnAnswer follows from the   *)
(* two and from what the SEcube holds while its only user waits.           *)
(*                                                                         *)
(* RoundTrip is about the data: the bytes, the stream of the cipher and    *)
(* the pieces that an operation has reached are a function of its text and *)
(* of the number of its chunks, the same for both directions, and the      *)
(* number of chunks of a text is unique.                                   *)
(***************************************************************************)
EXTENDS Transfer, SequenceTheorems, FiniteSetTheorems, TLAPS

FileRecord == [magic : BOOLEAN, writer : Process \cup {Nobody}, readers : SUBSET Process]

\* The control points with a file at hand, and the others.
Handling == {"info read", "info close", "magic lock", "magic write", "magic read",
             "magic drop", "magic unlink", "lock", "verify"}
Point == Handling \cup {"out", "ready", "replace", "info", "create", "open"}
ProcRecord == [pc : Point, file : File \cup {NoFile},
               next : {"none", "open", "create", "give up"}, l1 : Seq(File)]

MagicTypes ==
  /\ path \in File \cup {NoFile}
  /\ files \in [File -> FileRecord]
  /\ proc \in [Process -> ProcRecord]
  /\ disturbed \in BOOLEAN

ControlInv ==
  \A p \in Process : /\ proc[p].pc \in Handling => proc[p].file # NoFile
                     /\ proc[p].pc \in {"ready", "replace"} => proc[p].l1 # <<>>
                     /\ proc[p].pc = "info close" => proc[p].next # "none"
                     /\ proc[p].pc = "out" => proc[p].l1 = <<>>

\* As long as nobody has disturbed it, a file is the one that has the name.
Undisturbed(p) ==
  /\ proc[p].file # NoFile => proc[p].file = path
  /\ proc[p].pc = "verify" => files[path].writer = p
  /\ proc[p].l1 # <<>> => /\ path # NoFile
                          /\ proc[p].pc = "ready" /\ proc[p].l1 = <<path>>
                          /\ files[path].writer = p

LockInv == ~disturbed => \A p \in Process : Undisturbed(p)

MagicInv == MagicTypes /\ ControlInv /\ LockInv

-----------------------------------------------------------------------------
(* The file and its lock.                                                  *)

LEMMA FileFacts == NoFile \notin File /\ 1 \in File
BY MagicFileAssumption DEF File, NoFile

LEMMA GaveUpTypes ==
  ASSUME NEW r \in ProcRecord
  PROVE  /\ GaveUp(r) \in ProcRecord
         /\ GaveUp(r).pc \in {"out", "ready"} /\ GaveUp(r).file = NoFile /\ GaveUp(r).l1 = r.l1
         /\ GaveUp(r).pc = "ready" <=> r.l1 # <<>>
<1>1. Out \in ProcRecord /\ Out.l1 = <<>> /\ Out.pc = "out" /\ Out.file = NoFile
  BY EmptySeq DEF Out, ProcRecord, NoFile, Point
<1> QED BY <1>1 DEF GaveUp, ProcRecord, Point

LEMMA InitInv == MagicInit => MagicInv
<1> SUFFICES ASSUME MagicInit PROVE MagicInv
  OBVIOUS
<1>1. Out \in ProcRecord /\ Out.l1 = <<>> /\ Out.pc = "out" /\ Out.file = NoFile
  BY EmptySeq DEF Out, ProcRecord, NoFile, Point
<1>2. MagicTypes
  BY <1>1, FileFacts DEF MagicInit, MagicTypes, Unused, FileRecord
<1>3. ControlInv /\ LockInv
  BY <1>1, FileFacts DEF MagicInit, ControlInv, LockInv, Undisturbed, Handling
<1> QED BY <1>2, <1>3 DEF MagicInv

\* No other process loses its lock.
Kept(F, p) == /\ F \in [File -> FileRecord]
              /\ \A i \in File, q \in Process \ {p} : files[i].writer = q => F[i].writer = q

\* A step of p that leaves the name alone, keeps the locks of the others and
\* leaves p itself as it has to be.
LEMMA OwnStep ==
  ASSUME MagicInv, NEW p \in Process, NEW r \in ProcRecord,
         Becomes(p, r), Kept(files', p),
         path' = path \/ (path = NoFile /\ path' \in File),
         disturbed' \in BOOLEAN, disturbed => disturbed',
         r.pc \in Handling => r.file # NoFile,
         r.pc \in {"ready", "replace"} => r.l1 # <<>>,
         r.pc = "info close" => r.next # "none",
         r.pc = "out" => r.l1 = <<>>,
         ~disturbed' => Undisturbed(p)'
  PROVE  MagicInv'
<1>1. MagicTypes'
  BY DEF MagicInv, MagicTypes, Becomes, Kept
<1>2. ControlInv'
  BY DEF MagicInv, MagicTypes, ControlInv, Becomes
<1>3. ASSUME ~disturbed', NEW q \in Process PROVE Undisturbed(q)'
  <2>1. CASE q = p
    BY <1>3, <2>1
  <2>2. CASE q # p
    <3>1. proc'[q] = proc[q] /\ Undisturbed(q) /\ ~disturbed
      BY <1>3, <2>2 DEF MagicInv, MagicTypes, LockInv, Becomes
    <3>2. path # NoFile => path' = path /\ (files[path].writer = q => files'[path].writer = q)
      BY <2>2 DEF MagicInv, MagicTypes, Kept
    <3>3. path = NoFile => proc[q].file = NoFile /\ proc[q].l1 = <<>> /\ proc[q].pc # "verify"
      BY <3>1 DEF MagicInv, ControlInv, Undisturbed, Handling
    <3>4. CASE path # NoFile
      BY <3>1, <3>2, <3>4 DEF Undisturbed
    <3>5. CASE path = NoFile
      BY <3>1, <3>3, <3>5 DEF Undisturbed
    <3> QED BY <3>4, <3>5
  <2> QED BY <2>1, <2>2
<1> QED BY <1>1, <1>2, <1>3 DEF MagicInv, LockInv

-----------------------------------------------------------------------------
(* The locks of the others.                                                *)

LEMMA LocksKept ==
  ASSUME MagicTypes, NEW p \in Process, NEW i \in File
  PROVE  /\ Kept(Close(files, i, p), p) /\ Kept(se3UnixUnlock(i, p), p) /\ Kept(files, p)
         /\ Free(i, p) => Kept(se3UnixLock(i, p), p) /\ se3UnixLock(i, p)[i].writer = p
         /\ Kept([files EXCEPT ![i].magic = TRUE], p) /\ Kept([files EXCEPT ![i].magic = FALSE], p)
<1> USE DEF MagicTypes, FileRecord, Kept
<1>1. Kept(Close(files, i, p), p)
  BY DEF Close
<1>2. Kept(se3UnixUnlock(i, p), p)
  BY DEF se3UnixUnlock
<1>3. Free(i, p) => Kept(se3UnixLock(i, p), p) /\ se3UnixLock(i, p)[i].writer = p
  BY MagicFileAssumption DEF Free, se3UnixLock
<1>4. Kept(files, p) /\ Kept([files EXCEPT ![i].magic = TRUE], p)
                     /\ Kept([files EXCEPT ![i].magic = FALSE], p)
  OBVIOUS
<1> QED BY <1>1, <1>2, <1>3, <1>4

\* What OwnStep asks of a step that leaves the name and disturbed alone.
LEMMA Moves ==
  ASSUME MagicInv, NEW p \in Process, NEW r \in ProcRecord, Becomes(p, r), Same,
         Kept(files', p),
         r.pc \in Handling => r.file # NoFile,
         r.pc \in {"ready", "replace"} => r.l1 # <<>>,
         r.pc = "info close" => r.next # "none",
         r.pc = "out" => r.l1 = <<>>,
         ~disturbed => Undisturbed(p)'
  PROVE  MagicInv'
<1>1. path' = path /\ disturbed' = disturbed /\ disturbed \in BOOLEAN
  BY DEF Same, MagicInv, MagicTypes
<1> QED BY <1>1, OwnStep

\* A process that gives up.
LEMMA GivesUp ==
  ASSUME MagicInv, NEW p \in Process, Becomes(p, GaveUp(proc[p])), Same, Kept(files', p),
         proc[p].pc # "ready"
  PROVE  MagicInv'
<1> DEFINE r == GaveUp(proc[p])
<1>1. proc[p] \in ProcRecord
  BY DEF MagicInv, MagicTypes
<1>2. /\ r \in ProcRecord /\ r.pc \in {"out", "ready"} /\ r.file = NoFile /\ r.l1 = proc[p].l1
      /\ r.pc = "ready" <=> r.l1 # <<>>
  BY <1>1, GaveUpTypes
<1>3. proc'[p] = r
  BY DEF Becomes, MagicInv, MagicTypes
<1>4. ~disturbed => Undisturbed(p)'
  BY <1>2, <1>3 DEF MagicInv, LockInv, Undisturbed
<1> HIDE DEF r
<1> QED BY <1>2, <1>4, Moves DEF Handling, r

\* A process that goes from one point to another.
LEMMA Goes ==
  ASSUME MagicInv, NEW p \in Process, NEW s \in ProcRecord, Becomes(p, s), Same, Kept(files', p),
         proc[p].pc # "ready", s.l1 = proc[p].l1,
         s.pc \notin {"ready", "replace", "out"},
         s.pc \in Handling => s.file # NoFile,
         s.pc = "info close" => s.next # "none",
         s.file \in {NoFile, path, proc[p].file},
         s.pc = "verify" => files'[s.file].writer = p
  PROVE  MagicInv'
<1>1. proc'[p] = s
  BY DEF Becomes, MagicInv, MagicTypes
<1>2. ~disturbed => Undisturbed(p)'
  BY <1>1 DEF MagicInv, LockInv, Undisturbed, Same, Handling
<1> QED BY <1>2, Moves

LEMMA InfoStep ==
  ASSUME MagicInv, NEW p \in Process, MakeL1(p) \/ Se3Info(p) \/ InfoRead(p) \/ InfoClose(p)
  PROVE  MagicInv'
<1>0. MagicTypes /\ proc[p] \in ProcRecord /\ (proc[p].pc \in Handling => proc[p].file \in File)
  BY DEF MagicInv, MagicTypes, ControlInv, ProcRecord
<1> DEFINE r == proc[p]
<1>1. CASE MakeL1(p)
  <2> DEFINE s == [r EXCEPT !.pc = "info"]
  <2>1. s \in ProcRecord /\ s.pc = "info" /\ s.file = r.file /\ s.l1 = r.l1
    BY <1>0 DEF ProcRecord, Point
  <2>2. proc' = [proc EXCEPT ![p] = s] /\ proc'[p] = s /\ UNCHANGED <<path, files>>
        /\ disturbed' = (disturbed \/ r.l1 # <<>>)
    BY <1>0, <1>1 DEF MakeL1, Becomes, MagicTypes
  <2>3. ~disturbed' => Undisturbed(p)'
    BY <2>1, <2>2 DEF MagicInv, LockInv, Undisturbed
  <2> HIDE DEF s
  <2>4. Kept(files', p)
    BY <1>0, <2>2 DEF Kept, MagicTypes
  <2>5. Becomes(p, s) /\ path' = path /\ disturbed' \in BOOLEAN /\ (disturbed => disturbed')
    BY <1>0, <2>2 DEF MagicTypes, Becomes
  <2> QED BY <2>1, <2>3, <2>4, <2>5, OwnStep DEF Handling
<1>2. CASE Se3Info(p)
  <2>0. Kept(files', p)
    BY <1>0, <1>2 DEF Kept, MagicTypes, Se3Info
  <2>1. CASE path = NoFile
    <3> DEFINE s == [r EXCEPT !.pc = "create"]
    <3>1. s \in ProcRecord /\ s.pc = "create" /\ s.file = r.file /\ s.l1 = r.l1
      BY <1>0 DEF ProcRecord, Point
    <3> HIDE DEF s
    <3> QED BY <1>2, <2>0, <2>1, <3>1, Goes DEF Se3Info, Goto, At, Handling, s
  <2>2. CASE path # NoFile
    <3> DEFINE s == [r EXCEPT !.pc = "info read", !.file = path]
    <3>1. s \in ProcRecord /\ s.pc = "info read" /\ s.file = path /\ s.l1 = r.l1
      BY <1>0 DEF ProcRecord, Point, Handling, MagicTypes
    <3> HIDE DEF s
    <3> QED BY <1>2, <2>0, <2>2, <3>1, Goes DEF Se3Info, At, Handling, s
  <2> QED BY <2>1, <2>2
<1>3. CASE InfoRead(p)
  <2>0. r.pc = "info read" /\ r.file \in File /\ Kept(files', p) /\ Same
    BY <1>0, <1>3, LocksKept DEF InfoRead, At, Handling
  <2>1. PICK n \in {"open", "create", "give up"} :
          Becomes(p, [r EXCEPT !.pc = "info close", !.next = n])
    BY <1>0, <1>3 DEF InfoRead, Becomes, ProcRecord, Point, Handling
  <2> DEFINE s == [r EXCEPT !.pc = "info close", !.next = n]
  <2>2. /\ s \in ProcRecord /\ s.pc = "info close" /\ s.file = r.file /\ s.l1 = r.l1 /\ s.next = n
    BY <1>0 DEF ProcRecord, Point, Handling
  <2>3. Becomes(p, s)
    BY <2>1
  <2> HIDE DEF s
  <2> QED BY <2>0, <2>2, <2>3, Goes, FileFacts DEF Handling
<1>4. CASE InfoClose(p)
  <2>0. r.pc = "info close" /\ r.file \in File /\ Kept(files', p) /\ Same
    BY <1>0, <1>4, LocksKept DEF InfoClose, At, Handling
  <2>1. CASE r.next = "give up"
    <3>1. Becomes(p, GaveUp(proc[p]))
      BY <1>4, <2>1 DEF InfoClose
    <3> QED BY <2>0, <3>1, GivesUp
  <2>2. CASE r.next # "give up"
    <3> DEFINE s == [r EXCEPT !.pc = r.next, !.file = NoFile, !.next = "none"]
    <3>1. Becomes(p, s)
      BY <1>4, <2>2 DEF InfoClose
    <3>2. r.next \in {"open", "create"}
      BY <1>0, <2>0, <2>2 DEF MagicInv, ControlInv, ProcRecord
    <3>3. s \in ProcRecord /\ s.pc = r.next /\ s.file = NoFile /\ s.l1 = r.l1
      BY <1>0, <3>2 DEF ProcRecord, Point
    <3> HIDE DEF s
    <3> QED BY <2>0, <3>1, <3>2, <3>3, Goes DEF Handling
  <2> QED BY <2>1, <2>2
<1> QED BY <1>1, <1>2, <1>3, <1>4

\* A process that only changes its point.
LEMMA GoesTo ==
  ASSUME MagicInv, NEW p \in Process, NEW pc \in Point, Goto(p, pc), Same, Kept(files', p),
         proc[p].pc # "ready", pc \notin {"ready", "replace", "out", "info close"},
         pc \in Handling => proc[p].file # NoFile,
         pc = "verify" => files'[proc[p].file].writer = p
  PROVE  MagicInv'
<1> DEFINE s == [proc[p] EXCEPT !.pc = pc]
<1>1. s \in ProcRecord /\ s.pc = pc /\ s.file = proc[p].file /\ s.l1 = proc[p].l1 /\ Becomes(p, s)
  BY DEF MagicInv, MagicTypes, ProcRecord, Goto
<1> HIDE DEF s
<1> QED BY <1>1, Goes

\* Creating the file: until it is opened it keeps the name it has.
LEMMA CreateStep ==
  ASSUME MagicInv, NEW p \in Process, MagicOpen(p)
  PROVE  MagicInv'
<1>0. MagicTypes /\ proc[p] \in ProcRecord /\ proc[p].pc = "create"
  BY DEF MagicInv, MagicTypes, MagicOpen, At
<1>1. PICK i \in File :
        /\ i = path \/ path = NoFile
        /\ path' = i
        /\ files' = [files EXCEPT ![i].magic = FALSE]
        /\ Becomes(p, [proc[p] EXCEPT !.pc = "magic lock", !.file = i])
  BY <1>0 DEF MagicOpen, MagicTypes
<1> DEFINE s == [proc[p] EXCEPT !.pc = "magic lock", !.file = i]
<1>2. s \in ProcRecord /\ s.pc = "magic lock" /\ s.file = i /\ s.l1 = proc[p].l1 /\ Becomes(p, s)
  BY <1>0, <1>1 DEF ProcRecord, Point, Handling
<1> HIDE DEF s
<1>3. proc'[p] = s /\ Kept(files', p) /\ disturbed' = disturbed /\ disturbed \in BOOLEAN
  BY <1>0, <1>1, <1>2, LocksKept DEF Becomes, MagicTypes, MagicOpen
<1>4. ~disturbed => Undisturbed(p)'
  BY <1>0, <1>1, <1>2, <1>3 DEF MagicInv, LockInv, Undisturbed
<1>5. path' = path \/ (path = NoFile /\ path' \in File)
  BY <1>1
<1> QED BY <1>2, <1>3, <1>4, <1>5, OwnStep, FileFacts DEF Handling

LEMMA MagicStepInv ==
  ASSUME MagicInv, NEW p \in Process,
         MagicLock(p) \/ MagicWrite(p) \/ MagicRead(p) \/ MagicDrop(p) \/ MagicUnlink(p)
  PROVE  MagicInv'
<1>0. MagicTypes /\ proc[p] \in ProcRecord /\ (proc[p].pc \in Handling => proc[p].file \in File)
  BY DEF MagicInv, MagicTypes, ControlInv, ProcRecord
<1>1. CASE MagicLock(p)
  <2>0. proc[p].pc = "magic lock" /\ proc[p].file \in File /\ Same /\ Kept(files', p)
    BY <1>0, <1>1, LocksKept DEF MagicLock, At, Handling
  <2>1. CASE Goto(p, "magic write")
    BY <2>0, <2>1, GoesTo, FileFacts DEF Handling, Point
  <2>2. CASE Becomes(p, GaveUp(proc[p]))
    BY <2>0, <2>2, GivesUp
  <2> QED BY <1>1, <2>1, <2>2 DEF MagicLock
<1>2. CASE MagicWrite(p)
  <2>0. proc[p].pc = "magic write" /\ proc[p].file \in File /\ Same /\ Kept(files', p)
    BY <1>0, <1>2, LocksKept DEF MagicWrite, At, Handling
  <2>1. Goto(p, "magic read") \/ Goto(p, "magic drop")
    BY <1>2 DEF MagicWrite
  <2> QED BY <2>0, <2>1, GoesTo, FileFacts DEF Handling, Point
<1>3. CASE MagicRead(p)
  <2>0. proc[p].pc = "magic read" /\ proc[p].file \in File /\ Same /\ Kept(files', p)
    BY <1>0, <1>3, LocksKept DEF MagicRead, At, Handling
  <2>1. Goto(p, "open") \/ Goto(p, "magic drop")
    BY <1>3 DEF MagicRead
  <2> QED BY <2>0, <2>1, GoesTo, FileFacts DEF Handling, Point
<1>4. CASE MagicDrop(p)
  <2>0. proc[p].pc = "magic drop" /\ proc[p].file \in File /\ Same /\ Kept(files', p)
    BY <1>0, <1>4, LocksKept DEF MagicDrop, At, Handling
  <2>1. Goto(p, "magic unlink")
    BY <1>4 DEF MagicDrop
  <2> QED BY <2>0, <2>1, GoesTo, FileFacts DEF Handling, Point
<1>5. CASE MagicUnlink(p)
  <2> DEFINE s == GaveUp(proc[p])
  <2>1. /\ proc[p].pc = "magic unlink" /\ proc[p].file \in File
        /\ path' = NoFile /\ files' = files /\ disturbed' = (disturbed \/ path # NoFile)
        /\ Becomes(p, s)
    BY <1>0, <1>5 DEF MagicUnlink, At, Handling
  <2>2. disturbed'
    BY <2>1, FileFacts DEF MagicInv, LockInv, Undisturbed
  <2>3. /\ s \in ProcRecord /\ s.pc \in {"out", "ready"} /\ s.file = NoFile /\ s.l1 = proc[p].l1
        /\ s.pc = "ready" <=> s.l1 # <<>>
    BY <1>0, GaveUpTypes
  <2> HIDE DEF s
  <2>4. MagicTypes'
    BY <1>0, <2>1, <2>3 DEF MagicTypes, Becomes
  <2>5. ControlInv'
    BY <1>0, <2>1, <2>3 DEF MagicInv, MagicTypes, ControlInv, Becomes, Handling
  <2> QED BY <2>2, <2>4, <2>5 DEF MagicInv, LockInv
<1> QED BY <1>1, <1>2, <1>3, <1>4, <1>5

LEMMA OpenStep ==
  ASSUME MagicInv, NEW p \in Process, L0Open(p) \/ Lock(p) \/ Verify(p) \/ L0Close(p)
  PROVE  MagicInv'
<1>0. MagicTypes /\ proc[p] \in ProcRecord /\ (proc[p].pc \in Handling => proc[p].file \in File)
  BY DEF MagicInv, MagicTypes, ControlInv, ProcRecord
<1>1. CASE L0Open(p)
  <2>0. proc[p].pc = "open" /\ Same /\ Kept(files', p)
    BY <1>0, <1>1 DEF L0Open, At, Kept, MagicTypes
  <2>1. CASE path = NoFile
    BY <1>1, <2>0, <2>1, GivesUp DEF L0Open
  <2>2. CASE path # NoFile
    <3> DEFINE s == [proc[p] EXCEPT !.pc = "lock", !.file = path]
    <3>1. s \in ProcRecord /\ s.pc = "lock" /\ s.file = path /\ s.l1 = proc[p].l1 /\ Becomes(p, s)
      BY <1>0, <1>1, <2>2 DEF L0Open, ProcRecord, Point, Handling, MagicTypes
    <3> HIDE DEF s
    <3> QED BY <2>0, <2>2, <3>1, Goes DEF Handling
  <2> QED BY <2>1, <2>2
<1>2. CASE Lock(p)
  <2>0. proc[p].pc = "lock" /\ proc[p].file \in File /\ Same /\ Kept(files', p)
    BY <1>0, <1>2, LocksKept DEF Lock, At, Handling
  <2>1. CASE Free(proc[p].file, p)
    <3>1. files'[proc[p].file].writer = p /\ Goto(p, "verify")
      BY <1>0, <1>2, <2>0, <2>1, LocksKept DEF Lock
    <3> QED BY <2>0, <3>1, GoesTo, FileFacts DEF Handling, Point
  <2>2. CASE ~Free(proc[p].file, p)
    BY <1>2, <2>0, <2>2, GivesUp DEF Lock
  <2> QED BY <2>1, <2>2
<1>3. CASE Verify(p)
  <2>0. proc[p].pc = "verify" /\ proc[p].file \in File /\ Same /\ Kept(files', p)
    BY <1>0, <1>3, LocksKept DEF Verify, At, Handling
  <2>1. CASE Becomes(p, GaveUp(proc[p]))
    BY <2>0, <2>1, GivesUp
  <2>2. CASE /\ files' = files
             /\ Becomes(p, [proc[p] EXCEPT !.l1 = Append(@, proc[p].file), !.file = NoFile,
                              !.pc = IF proc[p].l1 = <<>> THEN "ready" ELSE "replace"])
    <3> DEFINE s == [proc[p] EXCEPT !.l1 = Append(@, proc[p].file), !.file = NoFile,
                              !.pc = IF proc[p].l1 = <<>> THEN "ready" ELSE "replace"]
    <3>0. proc[p].l1 \in Seq(File)
      BY <1>0 DEF ProcRecord
    <3>1. /\ Append(proc[p].l1, proc[p].file) \in Seq(File)
          /\ Append(proc[p].l1, proc[p].file) # <<>>
          /\ proc[p].l1 = <<>> => Append(proc[p].l1, proc[p].file) = <<proc[p].file>>
      <4>1. Append(<<>>, proc[p].file) = <<proc[p].file>>
        BY <2>0
      <4>2. /\ Append(proc[p].l1, proc[p].file) \in Seq(File)
            /\ Append(proc[p].l1, proc[p].file) # <<>>
        BY <2>0, <3>0, AppendProperties
      <4> QED BY <4>1, <4>2
    <3>2. /\ s \in ProcRecord /\ s.file = NoFile /\ s.pc \in {"ready", "replace"} /\ s.l1 # <<>>
          /\ proc[p].l1 = <<>> => s.pc = "ready" /\ s.l1 = <<proc[p].file>>
          /\ Becomes(p, s) /\ proc'[p] = s
      BY <1>0, <2>2, <3>1 DEF ProcRecord, Point, Becomes, MagicTypes
    <3> HIDE DEF s
    <3>3. ~disturbed => proc[p].l1 = <<>> /\ proc[p].file = path /\ files[path].writer = p
      BY <2>0, FileFacts DEF MagicInv, LockInv, Undisturbed
    <3>4. ~disturbed => Undisturbed(p)'
      BY <2>0, <2>2, <3>2, <3>3, FileFacts DEF Undisturbed, Same
    <3> QED BY <2>0, <3>2, <3>4, Moves DEF Handling
  <2> QED BY <1>3, <2>1, <2>2 DEF Verify
<1>4. CASE L0Close(p)
  <2>0. /\ proc[p].pc \in {"ready", "replace"} /\ proc[p].l1 # <<>> /\ Same
        /\ proc[p].l1 \in Seq(File)
    BY <1>0, <1>4 DEF L0Close, ProcRecord
  <2>1. Head(proc[p].l1) \in File /\ Tail(proc[p].l1) \in Seq(File)
    BY <2>0, HeadTailProperties
  <2>2. Kept(files', p)
    BY <1>0, <1>4, <2>1, LocksKept DEF L0Close
  <2>3. CASE Tail(proc[p].l1) = <<>>
    <3>1. Out \in ProcRecord /\ Out.l1 = <<>> /\ Out.pc = "out" /\ Out.file = NoFile
      BY EmptySeq DEF Out, ProcRecord, NoFile, Point
    <3>2. Becomes(p, Out) /\ proc'[p] = Out
      BY <1>0, <1>4, <2>3 DEF L0Close, Becomes, MagicTypes
    <3>3. ~disturbed => Undisturbed(p)'
      BY <3>1, <3>2 DEF Undisturbed
    <3> QED BY <2>0, <2>2, <3>1, <3>2, <3>3, Moves DEF Handling
  <2>4. CASE Tail(proc[p].l1) # <<>>
    <3> DEFINE s == [proc[p] EXCEPT !.l1 = Tail(proc[p].l1), !.pc = "ready"]
    <3>1. /\ s \in ProcRecord /\ s.pc = "ready" /\ s.l1 # <<>>
          /\ Becomes(p, s)
      BY <1>0, <1>4, <2>1, <2>4 DEF L0Close, ProcRecord, Point
    <3> HIDE DEF s
    <3>2. disturbed
      <4> SUFFICES ASSUME ~disturbed PROVE FALSE
        BY <1>0 DEF MagicTypes
      <4>1. proc[p].l1 = <<path>>
        BY <2>0 DEF MagicInv, LockInv, Undisturbed
      <4> QED BY <2>4, <4>1
    <3> QED BY <2>0, <2>2, <3>1, <3>2, Moves DEF Handling
  <2> QED BY <2>3, <2>4
<1> QED BY <1>1, <1>2, <1>3, <1>4

\* The end of a process ends its locks, whatever it was about to do.
LEMMA CrashStep ==
  ASSUME MagicInv, NEW p \in Process, Crash(p)
  PROVE  MagicInv'
<1>1. Out \in ProcRecord /\ Out.l1 = <<>> /\ Out.pc = "out" /\ Out.file = NoFile
  BY EmptySeq DEF Out, ProcRecord, NoFile, Point
<1>2. Becomes(p, Out) /\ proc'[p] = Out /\ Same
  BY DEF Crash, Becomes, MagicInv, MagicTypes
<1>3. Kept(files', p)
  <2>1. \A i \in File : Close(files, i, p) \in [File -> FileRecord]
                        /\ \A q \in Process \ {p} : files[i].writer = q => Close(files, i, p)[i].writer = q
    BY LocksKept DEF Kept, MagicInv
  <2> QED BY <2>1 DEF Crash, Kept
<1>4. ~disturbed => Undisturbed(p)'
  BY <1>1, <1>2 DEF Undisturbed
<1> QED BY <1>1, <1>2, <1>3, <1>4, Moves DEF Handling

LEMMA MagicStepKeeps ==
  ASSUME MagicInv, NEW p \in Process, MagicStep(p) \/ Crash(p)
  PROVE  MagicInv'
BY InfoStep, CreateStep, MagicStepInv, OpenStep, CrashStep DEF MagicStep
\* Only the process that steps moves, and what has been disturbed stays so.
LEMMA MagicFrame ==
  ASSUME MagicInv, NEW p \in Process, MagicStep(p) \/ Crash(p)
  PROVE  /\ disturbed => disturbed'
         /\ \A q \in Process \ {p} : proc'[q] = proc[q]
<1>1. CASE MagicStep(p)
  <2>1. disturbed => disturbed'
    BY <1>1 DEF MagicStep, MakeL1, Se3Info, InfoRead, InfoClose, MagicOpen, MagicLock, MagicWrite,
                MagicRead, MagicDrop, MagicUnlink, L0Open, Lock, Verify, L0Close, Same
  <2>2. ASSUME NEW q \in Process \ {p} PROVE proc'[q] = proc[q]
    <3> USE <2>2 DEF Becomes, Goto, MagicInv, MagicTypes
    <3>1. CASE MakeL1(p) \/ Se3Info(p) \/ InfoRead(p) \/ InfoClose(p)
      BY <3>1 DEF MakeL1, Se3Info, InfoRead, InfoClose
    <3>2. CASE MagicOpen(p)
      BY <3>2 DEF MagicOpen
    <3>3. CASE MagicLock(p) \/ MagicWrite(p) \/ MagicRead(p) \/ MagicDrop(p) \/ MagicUnlink(p)
      BY <3>3 DEF MagicLock, MagicWrite, MagicRead, MagicDrop, MagicUnlink
    <3>4. CASE L0Open(p) \/ Lock(p) \/ Verify(p) \/ L0Close(p)
      BY <3>4 DEF L0Open, Lock, Verify, L0Close
    <3> QED BY <1>1, <3>1, <3>2, <3>3, <3>4 DEF MagicStep
  <2> QED BY <2>1, <2>2
<1>2. CASE Crash(p)
  BY <1>2 DEF Crash, Same, Becomes, MagicInv, MagicTypes
<1> QED BY <1>1, <1>2

LEMMA OneUser ==
  ASSUME MagicInv, ~disturbed, NEW p \in Process, NEW q \in Process,
         proc[p].l1 # <<>>, proc[q].l1 # <<>>
  PROVE  p = q
BY DEF MagicInv, LockInv, Undisturbed

LEMMA ExclusiveFollows == MagicInv => Exclusive
<1> SUFFICES ASSUME MagicInv, ~disturbed
             PROVE  Cardinality({p \in Process : proc[p].l1 # <<>>}) <= 1
  BY DEF Exclusive
<1> DEFINE users == {p \in Process : proc[p].l1 # <<>>}
<1>1. CASE users = {}
  BY <1>1, FS_EmptySet
<1>2. ASSUME NEW p \in users PROVE Cardinality(users) <= 1
  <2>1. users = {p}
    BY <1>2, OneUser
  <2>2. Cardinality({p}) = 1
    BY FS_Singleton
  <2> HIDE DEF users
  <2> QED BY <2>1, <2>2
<1> QED BY <1>1, <1>2

-----------------------------------------------------------------------------
(* The exchange.                                                           *)

ExchangeTypes ==
  /\ dev = [job |-> dev.job, ready |-> dev.ready, resp |-> dev.resp, onReset |-> dev.onReset]
  /\ op = [p \in Process |-> op[p]]
  /\ xchg = [p \in Process |-> xchg[p]]
  /\ \A p \in Process : xchg[p] = [at |-> xchg[p].at, req |-> xchg[p].req, got |-> xchg[p].got,
                                   own |-> xchg[p].own]

\* The SEcube works on the request of the process that waits, or has answered it.
Awaited(p) ==
  /\ xchg[p].own
  /\ xchg[p].at # "idle" =>
       /\ proc[p].pc = "ready" /\ op[p].name # "none"
       /\ \/ xchg[p].at = "wait" /\ dev.job = xchg[p].req /\ dev.ready = FALSE
          \/ dev.job = NoRequest /\ dev.resp = xchg[p].req

ExchangeInv == ~disturbed => \A p \in Process : Awaited(p)

TransferInv == MagicInv /\ ExchangeTypes /\ ExchangeInv

LEMMA TransferInitInv == TransferInit => TransferInv
<1> SUFFICES ASSUME TransferInit PROVE TransferInv
  OBVIOUS
<1>1. MagicInv
  BY InitInv DEF TransferInit
<1>2. ExchangeTypes
  BY DEF TransferInit, ExchangeTypes, NoExchange
<1>3. ExchangeInv
  BY DEF TransferInit, ExchangeInv, Awaited, NoExchange
<1> QED BY <1>1, <1>2, <1>3 DEF TransferInv

LEMMA MagicInvUnchanged ==
  ASSUME MagicInv, Unopened
  PROVE  MagicInv'
BY DEF Unopened, MagicInv, MagicTypes, ControlInv, LockInv, Undisturbed

\* An operation is begun by a process with no exchange under way.
LEMMA BeginStep ==
  ASSUME TransferInv, NEW p \in Process, L1Encrypt(p) \/ L1Decrypt(p) \/ L1Command(p)
  PROVE  TransferInv'
<1>1. Starting(p) /\ (\E o : op' = [op EXCEPT ![p] = o])
  BY DEF L1Encrypt, L1Decrypt, L1Command
<1>2. UNCHANGED <<dev, xchg>> /\ Unopened /\ MagicInv'
  BY <1>1, MagicInvUnchanged DEF Starting, magicVars, Unopened, TransferInv
<1>3. ExchangeTypes'
  BY <1>1, <1>2 DEF TransferInv, ExchangeTypes
<1>4. ASSUME ~disturbed', NEW q \in Process PROVE Awaited(q)'
  <2>1. Awaited(q) /\ proc' = proc
    BY <1>2, <1>4 DEF TransferInv, ExchangeInv, Unopened
  <2>2. q = p => xchg[q].at = "idle"
    BY <1>1, <2>1 DEF Awaited, Starting
  <2>3. q # p => op'[q] = op[q]
    BY <1>1 DEF TransferInv, ExchangeTypes
  <2> QED BY <1>2, <2>1, <2>2, <2>3 DEF Awaited
<1> QED BY <1>2, <1>3, <1>4 DEF TransferInv, ExchangeInv

LEMMA AnswerStep ==
  ASSUME TransferInv, Answer
  PROVE  TransferInv'
<1>1. UNCHANGED <<op, xchg>> /\ Unopened /\ MagicInv'
  BY MagicInvUnchanged DEF Answer, magicVars, Unopened, TransferInv
<1>2. /\ dev' = [job |-> NoRequest, ready |-> TRUE, resp |-> dev.job, onReset |-> dev.onReset]
      /\ dev.job # NoRequest
  BY DEF Answer, TransferInv, ExchangeTypes
<1>3. ExchangeTypes'
  BY <1>1, <1>2 DEF TransferInv, ExchangeTypes
<1>4. ExchangeInv'
  BY <1>1, <1>2 DEF TransferInv, ExchangeInv, Awaited, Unopened
<1> QED BY <1>1, <1>3, <1>4 DEF TransferInv

\* The process p has got an answer, its own or not, and stops waiting.
LEMMA Rests ==
  ASSUME TransferInv, NEW p \in Process, NEW o, NEW b, Unopened, UNCHANGED dev,
         op' = [op EXCEPT ![p] = o],
         xchg' = [xchg EXCEPT ![p] = [NoExchange EXCEPT !.own = b]],
         b \/ disturbed
  PROVE  TransferInv'
<1>1. MagicInv'
  BY MagicInvUnchanged DEF TransferInv
<1>2. /\ xchg' = [q \in Process |-> xchg'[q]] /\ op' = [q \in Process |-> op'[q]]
      /\ \A q \in Process \ {p} : xchg'[q] = xchg[q] /\ op'[q] = op[q]
      /\ xchg'[p] = [NoExchange EXCEPT !.own = b]
  BY DEF TransferInv, ExchangeTypes
<1>3. /\ xchg'[p] = [at |-> xchg'[p].at, req |-> xchg'[p].req, got |-> xchg'[p].got,
                     own |-> xchg'[p].own]
      /\ xchg'[p].at = "idle" /\ (b => xchg'[p].own)
  BY <1>2 DEF NoExchange
<1>4. ExchangeTypes'
  BY <1>2, <1>3 DEF TransferInv, ExchangeTypes
<1>5. ASSUME ~disturbed', NEW q \in Process PROVE Awaited(q)'
  <2>1. b /\ ~disturbed /\ Awaited(q) /\ proc' = proc
    BY <1>5 DEF TransferInv, ExchangeInv, Unopened
  <2> QED BY <1>2, <1>3, <2>1 DEF Awaited
<1> QED BY <1>1, <1>4, <1>5 DEF TransferInv, ExchangeInv

\* The process p gives the exchange up, or does not begin it.
LEMMA EndStep ==
  ASSUME TransferInv, NEW p \in Process, NEW o, Unopened, UNCHANGED dev,
         op' = [op EXCEPT ![p] = o], xchg' = [xchg EXCEPT ![p] = NoExchange]
  PROVE  TransferInv'
<1>1. MagicInv'
  BY MagicInvUnchanged DEF TransferInv
<1>2. ExchangeTypes'
  BY DEF TransferInv, ExchangeTypes, NoExchange
<1>3. ExchangeInv'
  BY DEF TransferInv, ExchangeTypes, ExchangeInv, Awaited, Unopened, NoExchange
<1> QED BY <1>1, <1>2, <1>3 DEF TransferInv

\* A request is written when the SEcube has none, by the only process that has it open.
LEMMA SendStep ==
  ASSUME TransferInv, NEW p \in Process, L0TX(p)
  PROVE  TransferInv'
<1>0. Unopened /\ MagicInv' /\ proc[p].pc = "ready" /\ op[p].name # "none" /\ xchg[p].at = "idle"
  BY MagicInvUnchanged DEF L0TX, TransferInv, Busy, At
<1>1. CASE Ends(p) /\ UNCHANGED dev
  BY <1>0, <1>1, EndStep DEF Ends
<1>2. CASE TooLong(p)
  BY <1>0, <1>2, EndStep DEF L0TX
<1>3. CASE /\ dev' = [dev EXCEPT !.job = Request(p), !.ready = FALSE]
           /\ xchg' = [xchg EXCEPT ![p].at = "wait", ![p].req = Request(p)]
           /\ UNCHANGED op
  <2> DEFINE r == Request(p)
  <2>1. dev'.job = r /\ dev'.ready = FALSE
        /\ dev' = [job |-> dev'.job, ready |-> dev'.ready, resp |-> dev'.resp,
                   onReset |-> dev'.onReset]
    <3> HIDE DEF r
    <3> QED BY <1>3 DEF TransferInv, ExchangeTypes, r
  <2>2. /\ xchg' = [q \in Process |-> xchg'[q]]
        /\ \A q \in Process \ {p} : xchg'[q] = xchg[q]
        /\ xchg'[p] = [xchg[p] EXCEPT !.at = "wait", !.req = r]
    <3> HIDE DEF r
    <3>1. xchg' = [q \in Process |-> xchg'[q]]
      BY <1>3 DEF TransferInv, ExchangeTypes, r
    <3>2. \A q \in Process \ {p} : xchg'[q] = xchg[q]
      BY <1>3 DEF TransferInv, ExchangeTypes, r
    <3>3. xchg'[p] = [xchg[p] EXCEPT !.at = "wait", !.req = r]
      BY <1>3 DEF TransferInv, ExchangeTypes, r
    <3> QED BY <3>1, <3>2, <3>3
  <2> HIDE DEF r
  <2>3. /\ xchg'[p].at = "wait" /\ xchg'[p].req = r /\ xchg'[p].own = xchg[p].own
        /\ xchg'[p] = [at |-> xchg'[p].at, req |-> xchg'[p].req, got |-> xchg'[p].got,
                       own |-> xchg'[p].own]
    BY <2>2 DEF TransferInv, ExchangeTypes
  <2>4. ExchangeTypes'
    BY <1>3, <2>1, <2>2, <2>3 DEF TransferInv, ExchangeTypes
  <2>5. ASSUME ~disturbed', NEW q \in Process PROVE Awaited(q)'
    <3>1. ~disturbed /\ Awaited(q) /\ Awaited(p) /\ proc' = proc
      BY <1>0, <2>5 DEF TransferInv, ExchangeInv, Unopened
    <3>2. CASE q = p
      BY <1>0, <1>3, <2>1, <2>3, <3>1, <3>2 DEF Awaited
    <3>3. CASE q # p
      <4>1. xchg[q].at = "idle"
        BY <1>0, <3>1, <3>3, OneUser DEF Awaited, TransferInv, MagicInv, ControlInv
      <4> QED BY <2>2, <3>1, <3>3, <4>1 DEF Awaited
    <3> QED BY <3>2, <3>3
  <2> QED BY <1>0, <2>4, <2>5 DEF TransferInv, ExchangeInv
<1> QED BY <1>1, <1>2, <1>3 DEF L0TX, Writes

\* An answer that is accepted is that to the request.
LEMMA AcceptStep ==
  ASSUME TransferInv, NEW p \in Process, Unopened, UNCHANGED dev, Accept(p, dev.resp),
         dev.resp = xchg[p].req \/ disturbed
  PROVE  TransferInv'
<1> DEFINE b == (dev.resp = xchg[p].req)
<1>1. /\ op' = [op EXCEPT ![p] = Received(op[p])]
      /\ xchg' = [xchg EXCEPT ![p] = [NoExchange EXCEPT !.own = b]]
  BY DEF Accept
<1>2. b \/ disturbed
  OBVIOUS
<1> HIDE DEF b
<1> QED BY <1>1, <1>2, Rests

LEMMA ReceiveStep ==
  ASSUME TransferInv, NEW p \in Process, L0RX(p) \/ L0RXRest(p) \/ L0RXFails(p)
  PROVE  TransferInv'
<1>1. CASE L0RX(p)
  <2>0. Unopened /\ UNCHANGED dev /\ dev.ready /\ MagicInv' /\ xchg[p].at = "wait"
    BY <1>1, MagicInvUnchanged DEF L0RX, Ready, Busy, TransferInv
  <2>1. ~disturbed => dev.job = NoRequest /\ dev.resp = xchg[p].req
    BY <2>0 DEF TransferInv, ExchangeInv, Awaited
  <2>2. CASE Accept(p, dev.resp)
    BY <2>0, <2>1, <2>2, AcceptStep
  <2>3. CASE /\ xchg' = [xchg EXCEPT ![p].at = "rest", ![p].got = dev.resp]
             /\ UNCHANGED op
    <3>1. /\ xchg' = [q \in Process |-> xchg'[q]]
          /\ \A q \in Process \ {p} : xchg'[q] = xchg[q]
          /\ xchg'[p] = [xchg[p] EXCEPT !.at = "rest", !.got = dev.resp]
      BY <2>3 DEF TransferInv, ExchangeTypes
    <3>2. /\ xchg'[p].at = "rest" /\ xchg'[p].req = xchg[p].req /\ xchg'[p].own = xchg[p].own
          /\ xchg'[p] = [at |-> xchg'[p].at, req |-> xchg'[p].req, got |-> xchg'[p].got,
                         own |-> xchg'[p].own]
      BY <3>1 DEF TransferInv, ExchangeTypes
    <3>3. ExchangeTypes'
      BY <2>0, <2>3, <3>1, <3>2 DEF TransferInv, ExchangeTypes
    <3>4. ASSUME ~disturbed', NEW q \in Process PROVE Awaited(q)'
      <4>1. ~disturbed /\ Awaited(q) /\ proc' = proc
        BY <2>0, <3>4 DEF TransferInv, ExchangeInv, Unopened
      <4>2. CASE q = p
        BY <2>0, <2>1, <2>3, <3>2, <4>1, <4>2 DEF Awaited
      <4>3. CASE q # p
        BY <2>0, <2>3, <3>1, <4>1, <4>3 DEF Awaited
      <4> QED BY <4>2, <4>3
    <3> QED BY <2>0, <3>3, <3>4 DEF TransferInv, ExchangeInv
  <2> QED BY <1>1, <2>2, <2>3 DEF L0RX
<1>2. CASE L0RXRest(p)
  <2>0. Unopened /\ UNCHANGED dev /\ xchg[p].at = "rest"
    BY <1>2 DEF L0RXRest, Busy
  <2>1. ~disturbed => dev.resp = xchg[p].req
    BY <2>0 DEF TransferInv, ExchangeInv, Awaited
  <2>2. CASE Accept(p, dev.resp)
    <3>1. disturbed \in BOOLEAN
      BY DEF TransferInv, MagicInv, MagicTypes
    <3> QED BY <2>0, <2>1, <2>2, <3>1, AcceptStep
  <2>3. CASE Ends(p)
    BY <2>0, <2>3, EndStep DEF Ends
  <2> QED BY <1>2, <2>2, <2>3 DEF L0RXRest
<1>3. CASE L0RXFails(p)
  BY <1>3, EndStep DEF L0RXFails, Ends
<1> QED BY <1>1, <1>2, <1>3

\* Opening, closing and ending happen without an exchange of the process.
LEMMA OpeningStep ==
  ASSUME TransferInv, NEW p \in Process, Opening(p) \/ Crashes(p)
  PROVE  TransferInv'
<1>0. MagicInv' /\ UNCHANGED dev /\ (disturbed => disturbed')
      /\ \A q \in Process \ {p} : proc'[q] = proc[q]
  BY MagicStepKeeps, MagicFrame DEF Opening, Crashes, TransferInv
<1>1. CASE Opening(p)
  <2>1. op[p].name = "none" /\ UNCHANGED <<op, xchg>>
    BY <1>1 DEF Opening
  <2>2. ExchangeTypes'
    BY <1>0, <2>1 DEF TransferInv, ExchangeTypes
  <2>3. ExchangeInv'
    BY <1>0, <2>1 DEF TransferInv, ExchangeInv, Awaited
  <2> QED BY <1>0, <2>2, <2>3 DEF TransferInv
<1>2. CASE Crashes(p)
  <2>1. xchg' = [xchg EXCEPT ![p] = NoExchange] /\ (\E o : op' = [op EXCEPT ![p] = o])
    BY <1>2 DEF Crashes
  <2>2. ExchangeTypes'
    BY <1>0, <2>1 DEF TransferInv, ExchangeTypes, NoExchange
  <2>3. ExchangeInv'
    BY <1>0, <2>1 DEF TransferInv, ExchangeTypes, ExchangeInv, Awaited, NoExchange
  <2> QED BY <1>0, <2>2, <2>3 DEF TransferInv
<1> QED BY <1>1, <1>2

LEMMA TransferInvAlways == Spec => []TransferInv
<1>1. TransferInit => TransferInv
  BY TransferInitInv
<1>2. TransferInv /\ [Next]_vars => TransferInv'
  <2> SUFFICES ASSUME TransferInv, [Next]_vars PROVE TransferInv'
    OBVIOUS
  <2>1. CASE UNCHANGED vars
    BY <2>1 DEF vars, magicVars, TransferInv, MagicInv, MagicTypes, ControlInv, LockInv, Undisturbed,
                ExchangeTypes, ExchangeInv, Awaited
  <2>2. CASE Next
    BY <2>2, AnswerStep, OpeningStep, BeginStep, SendStep, ReceiveStep DEF Next
  <2> QED BY <2>1, <2>2
<1> QED BY <1>1, <1>2, PTL DEF Spec

-----------------------------------------------------------------------------
(* Blocks.                                                                 *)

LEMMA PiecesOfRest ==
  ASSUME NEW len \in Nat, len > 0
  PROVE  LET k == Pieces(len, NextRoom)
         IN  k \in Nat /\ 508 * (k - 1) < len /\ len <= 508 * k /\ k > 0
<1>1. len = 508 * (len \div 508) + (len % 508) /\ len % 508 \in 0..507 /\ len \div 508 \in Nat
  OBVIOUS
<1> QED BY <1>1 DEF Pieces, NextRoom, COMM_BLOCK, DATA_HEADER

LEMMA BlockCount ==
  ASSUME NEW len \in Nat, NEW k \in Nat, 512 * (k - 1) < len, len <= 512 * k
  PROVE  Se3NBlocks(len) = k
<1>1. len = 512 * (len \div 512) + (len % 512) /\ len % 512 \in 0..511 /\ len \div 512 \in Nat
  OBVIOUS
<1> QED BY <1>1 DEF Se3NBlocks, Pieces, COMM_BLOCK

\* Whatever the length of the data, the blocks L0TX fills are those that L0RX
\* expects of that length, and the length that is computed from the blocks and
\* headers of an answer is that of its data, at every boundary of a block.
THEOREM LengthsAgree ==
  ASSUME NEW len \in Nat
  PROVE  /\ Se3NBlocks(Se3ReqLenDataAndHeaders(len)) = TXBlocks(len)
         /\ Se3RespLenData(Se3ReqLenDataAndHeaders(len)) = len
<1> USE DEF COMM_BLOCK, HEADER, DATA_HEADER, FirstRoom
<1>1. CASE len <= 496
  <2>1. Se3ReqLenDataAndHeaders(len) = len + 16 /\ TXBlocks(len) = 1
    BY <1>1 DEF Se3ReqLenDataAndHeaders, TXBlocks
  <2>2. Se3NBlocks(len + 16) = 1
    BY <1>1, BlockCount
  <2> QED BY <2>1, <2>2 DEF Se3RespLenData
<1>2. CASE len > 496
  <2> DEFINE k == Pieces(len - 496, NextRoom)
  <2>1. k \in Nat /\ 508 * (k - 1) < len - 496 /\ len - 496 <= 508 * k /\ k > 0
    BY <1>2, PiecesOfRest
  <2>2. Se3ReqLenDataAndHeaders(len) = 512 + (len - 496) + k * 4 /\ TXBlocks(len) = 1 + k
    BY <1>2 DEF Se3ReqLenDataAndHeaders, TXBlocks
  <2> HIDE DEF k
  <2>3. Se3NBlocks(512 + (len - 496) + k * 4) = 1 + k
    BY <1>2, <2>1, BlockCount
  <2> QED BY <1>2, <2>1, <2>2, <2>3 DEF Se3RespLenData
<1> QED BY <1>1, <1>2

-----------------------------------------------------------------------------
(* The chunks of a text.                                                   *)

CipherStream == [nonce : Nat, start : Nat]
Piece == [stream : CipherStream, len : Nat]
OpRecord ==
  [name : {"none", "encrypt", "decrypt", "command"}, command : Command \cup {NoCommand},
   mode : Mode, hmac : BOOLEAN, n : Nat, step : {"none", "init", "nonce", "iv", "update"},
   done : Nat, size : Nat, counter : Nat, stream : CipherStream, pieces : Seq(Piece),
   cipher : Seq(Piece), plain : SUBSET Int, ops : Nat, refused : BOOLEAN]

\* What the first k chunks of an operation reach, if none of them is the last: their
\* bytes, the stream of the last of them, and their pieces.
Reached(o, k) == k * Room(o)
StreamAfter(o, k) ==
  IF o.mode # "ctr" \/ k = 0 THEN NoStream ELSE [nonce |-> k - 1, start |-> Reached(o, k - 1)]
PiecesAfter(o, k) ==
  IF o.mode = "ctr"
    THEN [i \in 1..k |-> [stream |-> [nonce |-> i - 1, start |-> Reached(o, i - 1)], len |-> Room(o)]]
    ELSE IF k = 0 THEN <<>> ELSE <<[stream |-> NoStream, len |-> Reached(o, k)]>>

Partway(o) ==
  /\ Reached(o, o.counter) < Total(o)
  /\ o.done = Reached(o, o.counter) /\ o.size = o.done
  /\ o.stream = StreamAfter(o, o.counter) /\ o.pieces = PiecesAfter(o, o.counter)

\* The stream of the chunk after them, if that is the last, and all pieces.
LastStream(o, k) ==
  IF (dev.onReset /\ o.hmac) \/ (~dev.onReset /\ o.mode = "ctr")
    THEN [nonce |-> IF o.mode = "ctr" THEN k ELSE 0, start |-> Reached(o, k)]
    ELSE StreamAfter(o, k)
Whole(o, k) == Combined(PiecesAfter(o, k), LastStream(o, k), Total(o) - Reached(o, k))

\* k chunks go before the last one.
LastAfter(o, k) == Reached(o, k) < Total(o) /\ Total(o) <= Reached(o, k) + Room(o)

LEMMA Sizes ==
  /\ MAX_DATA = 7600 /\ L1_MAX_DATA = 7536 /\ DATAIN = 7520
BY DEF MAX_DATA, L1_MAX_DATA, DATAIN, L1_DATA, UPDATE_DATA, COMM_BLOCK, HEADER, COMM_N, DATA_HEADER

LEMMA RoomFacts ==
  ASSUME NEW o \in OpRecord
  PROVE  Room(o) \in {7520, 7504, 7488, 7472}
         /\ (o.mode = "ctr" => Room(o) <= 7504) /\ (o.hmac => Room(o) <= 7488)
         /\ (o.mode = "ctr" /\ o.hmac => Room(o) = 7472)
BY Sizes DEF Room, OpRecord, B5_AES_BLK_SIZE, B5_SHA256_DIGEST_SIZE

LEMMA TotalFacts ==
  ASSUME NEW o \in OpRecord
  PROVE  /\ Padding(o.n) \in 1..16 /\ Total(o) \in Nat /\ Total(o) > o.n
         /\ Total(o) - Padding(o.n) = o.n
<1>1. o.n \in Nat
  BY DEF OpRecord
<1>2. ASSUME NEW n \in Nat PROVE n % 16 \in 0..15
  OBVIOUS
<1> DEFINE r == o.n % 16
<1>3. r \in 0..15
  BY <1>1, <1>2
<1> HIDE DEF r
<1>4. Padding(o.n) = 16 - r
  BY DEF Padding, B5_AES_BLK_SIZE, r
<1> QED BY <1>1, <1>3, <1>4 DEF Total

LEMMA ReachedFacts ==
  ASSUME NEW o \in OpRecord, NEW k \in Nat
  PROVE  /\ Reached(o, k) \in Nat /\ Reached(o, 0) = 0
         /\ Reached(o, k + 1) = Reached(o, k) + Room(o)
         /\ \A j \in Nat : LastAfter(o, j) /\ LastAfter(o, k) => j = k
<1> DEFINE r == Room(o)
           t == Total(o)
<1>1. r \in {7520, 7504, 7488, 7472} /\ t \in Nat
  BY RoomFacts, TotalFacts
<1> HIDE DEF r, t
<1>2. k * r \in Nat /\ 0 * r = 0 /\ (k + 1) * r = k * r + r
      /\ \A j \in Nat : j * r < t /\ t <= j * r + r /\ k * r < t /\ t <= k * r + r => j = k
  <2>1. CASE r = 7520
    BY <1>1, <2>1
  <2>2. CASE r = 7504
    BY <1>1, <2>2
  <2>3. CASE r = 7488
    BY <1>1, <2>3
  <2>4. CASE r = 7472
    BY <1>1, <2>4
  <2> QED BY <1>1, <2>1, <2>2, <2>3, <2>4
<1> QED BY <1>2 DEF Reached, LastAfter, r, t

\* One more piece behind those of k chunks, or a longer one.
LEMMA PiecesFacts ==
  ASSUME NEW o \in OpRecord, NEW k \in Nat
  PROVE  /\ StreamAfter(o, k) \in CipherStream /\ PiecesAfter(o, k) \in Seq(Piece)
         /\ PiecesAfter(o, 0) = <<>> /\ StreamAfter(o, 0) = NoStream
         /\ PiecesAfter(o, k) # <<>> => k > 0 /\ Last(PiecesAfter(o, k)).stream = StreamAfter(o, k)
<1>1. \A j \in Nat : Reached(o, j) \in Nat
  BY ReachedFacts
<1>2. Room(o) \in Nat
  BY RoomFacts
<1>3. StreamAfter(o, k) \in CipherStream
  BY <1>1 DEF StreamAfter, CipherStream, NoStream
<1>4. CASE o.mode = "ctr"
  <2> DEFINE F(i) == [stream |-> [nonce |-> i - 1, start |-> Reached(o, i - 1)], len |-> Room(o)]
             s == [i \in 1..k |-> F(i)]
  <2>1. \A i \in 1..k : F(i) \in Piece
    BY <1>1, <1>2 DEF Piece, CipherStream
  <2>2. F(k).stream = [nonce |-> k - 1, start |-> Reached(o, k - 1)]
    OBVIOUS
  <2> HIDE DEF F
  <2>3. s \in Seq(Piece) /\ Len(s) = k /\ (k > 0 => s[k] = F(k))
    BY <2>1
  <2>4. PiecesAfter(o, k) = s /\ PiecesAfter(o, 0) = <<>>
    BY <1>4 DEF PiecesAfter, F
  <2>5. s # <<>> => k > 0 /\ Last(s) = F(k)
    BY <2>3 DEF Last
  <2> QED BY <1>3, <1>4, <2>2, <2>3, <2>4, <2>5 DEF StreamAfter
<1>5. CASE o.mode # "ctr"
  <2>1. [stream |-> NoStream, len |-> Reached(o, k)] \in Piece
    BY <1>1 DEF Piece, CipherStream, NoStream
  <2> QED BY <1>3, <1>5, <2>1 DEF PiecesAfter, StreamAfter, Last
<1> QED BY <1>4, <1>5


LEMMA CombinedFacts ==
  ASSUME NEW s \in Seq(Piece), NEW st \in CipherStream, NEW len \in Nat
  PROVE  Combined(s, st, len) \in Seq(Piece)
<1>1. CASE s # <<>> /\ Last(s).stream = st
  <2>1. Len(s) \in Nat \ {0} /\ s[Len(s)] \in Piece
    BY <1>1
  <2>2. SubSeq(s, 1, Len(s) - 1) \in Seq(Piece)
    BY <2>1
  <2>3. Front(s) \in Seq(Piece)
    BY <2>2 DEF Front
  <2>4. [stream |-> st, len |-> Last(s).len + len] \in Piece
    BY <2>1 DEF Last, Piece
  <2>5. Append(Front(s), [stream |-> st, len |-> Last(s).len + len]) \in Seq(Piece)
    BY <2>3, <2>4
  <2> QED BY <1>1, <2>5 DEF Combined
<1>2. CASE ~(s # <<>> /\ Last(s).stream = st)
  <2>1. [stream |-> st, len |-> len] \in Piece
    BY DEF Piece
  <2>2. Append(s, [stream |-> st, len |-> len]) \in Seq(Piece)
    BY <2>1
  <2> QED BY <1>2, <2>2 DEF Combined
<1> QED BY <1>1, <1>2

\* A chunk that is not the last one.
LEMMA NextPieces ==
  ASSUME NEW o \in OpRecord, NEW k \in Nat
  PROVE  PiecesAfter(o, k + 1) =
           Combined(PiecesAfter(o, k), StreamAfter(o, k + 1), Room(o))
<1>1. \A j \in Nat : Reached(o, j) \in Nat
  BY ReachedFacts
<1>2. Room(o) \in Nat
  BY RoomFacts
<1>3. CASE o.mode = "ctr"
  <2> DEFINE F(i) == [stream |-> [nonce |-> i - 1, start |-> Reached(o, i - 1)], len |-> Room(o)]
             s == [i \in 1..k |-> F(i)]
             t == [i \in 1..(k + 1) |-> F(i)]
  <2>1. \A i \in 1..(k + 1) : F(i) \in Piece
    BY <1>1, <1>2 DEF Piece, CipherStream
  <2>2. PiecesAfter(o, k) = s /\ PiecesAfter(o, k + 1) = t
    BY <1>3 DEF PiecesAfter
  <2>3. F(k + 1) = [stream |-> StreamAfter(o, k + 1), len |-> Room(o)]
    BY <1>3 DEF StreamAfter
  <2>4. StreamAfter(o, k + 1).nonce = k /\ (k > 0 => StreamAfter(o, k).nonce = k - 1)
    BY <1>3 DEF StreamAfter
  <2>5. PiecesAfter(o, k) # <<>> => Last(PiecesAfter(o, k)).stream # StreamAfter(o, k + 1)
    <3>1. PiecesAfter(o, k) # <<>> => k > 0 /\ Last(PiecesAfter(o, k)).stream = StreamAfter(o, k)
      BY PiecesFacts
    <3>2. k # k - 1
      OBVIOUS
    <3> QED BY <2>4, <3>1, <3>2
  <2>6. Combined(s, StreamAfter(o, k + 1), Room(o)) = Append(s, F(k + 1))
    BY <2>2, <2>3, <2>5 DEF Combined
  <2> HIDE DEF F
  <2>7. s \in Seq(Piece) /\ t \in Seq(Piece) /\ Len(s) = k /\ Len(t) = k + 1
    BY <2>1
  <2>8. Append(s, F(k + 1)) = t
    <3> DEFINE u == Append(s, F(k + 1))
    <3>1. u \in Seq(Piece) /\ Len(u) = k + 1
      BY <2>1, <2>7
    <3>2. \A i \in 1..(k + 1) : u[i] = t[i]
      BY <2>7
    <3> HIDE DEF u, s, t
    <3>3. u = t
      BY <2>7, <3>1, <3>2, SeqEqual
    <3> QED BY <3>3 DEF u
  <2> QED BY <2>2, <2>6, <2>8
<1>4. CASE o.mode # "ctr"
  <2>1. /\ StreamAfter(o, k + 1) = NoStream
        /\ PiecesAfter(o, k + 1) = <<[stream |-> NoStream, len |-> Reached(o, k + 1)]>>
    BY <1>4 DEF StreamAfter, PiecesAfter
  <2>2. Reached(o, k + 1) = Reached(o, k) + Room(o) /\ Reached(o, 0) = 0
    BY ReachedFacts
  <2>3. CASE k = 0
    <3>1. PiecesAfter(o, k) = <<>> /\ Reached(o, k + 1) = Room(o)
      BY <1>2, <1>4, <2>2, <2>3 DEF PiecesAfter
    <3> QED BY <2>1, <3>1 DEF Combined
  <2>4. CASE k > 0
    <3> DEFINE e == [stream |-> NoStream, len |-> Reached(o, k)]
    <3>1. PiecesAfter(o, k) = <<e>> /\ e.stream = NoStream /\ e.len = Reached(o, k)
      BY <1>4, <2>4 DEF PiecesAfter
    <3> HIDE DEF e
    <3>2. Last(<<e>>) = e /\ Front(<<e>>) = <<>>
      BY DEF Last, Front
    <3> QED BY <2>1, <2>2, <3>1, <3>2 DEF Combined
  <2> QED BY <2>3, <2>4
<1> QED BY <1>3, <1>4

\* What a chunk makes of an operation that is under way.
LEMMA ChunkFacts ==
  ASSUME NEW o \in OpRecord, Partway(o), o.step = "update", dev.onReset \in BOOLEAN
  PROVE  LET c == AfterChunk(o)
         IN  /\ c \in OpRecord
             /\ c = [o EXCEPT !.done = c.done, !.size = c.size, !.counter = c.counter,
                              !.stream = c.stream, !.pieces = c.pieces]
             /\ c.done < Total(o) => Partway(c)
             /\ ~(c.done < Total(o)) =>
                  /\ c.size = Total(o) + IF o.hmac THEN B5_SHA256_DIGEST_SIZE ELSE 0
                  /\ LastAfter(o, o.counter) /\ c.pieces = Whole(o, o.counter)
<1> DEFINE k == o.counter
           c == AfterChunk(o)
<1>0. k \in Nat /\ o.hmac \in BOOLEAN /\ o.mode \in Mode
  BY DEF OpRecord
<1> HIDE DEF c
<1>1. /\ Room(o) \in Nat /\ Total(o) \in Nat /\ Reached(o, k) \in Nat
      /\ Reached(o, k + 1) = Reached(o, k) + Room(o)
  <2>1. Room(o) \in Nat
    BY RoomFacts
  <2>2. Reached(o, k) \in Nat /\ Reached(o, k + 1) = Reached(o, k) + Room(o)
    <3> HIDE DEF k
    <3> QED BY <1>0, ReachedFacts
  <2> QED BY <2>1, <2>2, TotalFacts
<1>2. /\ o.done = Reached(o, k) /\ o.size = o.done /\ Reached(o, k) < Total(o)
      /\ o.stream = StreamAfter(o, k) /\ o.pieces = PiecesAfter(o, k)
  BY DEF Partway
<1>3. /\ LastChunk(o) <=> Total(o) <= Reached(o, k) + Room(o)
      /\ Chunk(o) = IF LastChunk(o) THEN Total(o) - Reached(o, k) ELSE Room(o)
      /\ Chunk(o) \in Nat
  BY <1>1, <1>2 DEF LastChunk, Chunk, Smaller
<1>4. /\ c.done = o.done + Chunk(o) /\ c.size = o.size + Out2(o) /\ c.counter = k + 1
      /\ c.stream = Stream(o) /\ c.pieces = Combined(o.pieces, Stream(o), Chunk(o))
      /\ c = [o EXCEPT !.done = c.done, !.size = c.size, !.counter = c.counter,
                       !.stream = c.stream, !.pieces = c.pieces]
  BY DEF AfterChunk, OpRecord, c
<1>5. /\ Room(c) = Room(o) /\ Total(c) = Total(o) /\ c.mode = o.mode
      /\ \A j : Reached(c, j) = Reached(o, j) /\ StreamAfter(c, j) = StreamAfter(o, j)
                /\ PiecesAfter(c, j) = PiecesAfter(o, j)
  <2>1. c.mode = o.mode /\ c.hmac = o.hmac /\ c.n = o.n
    BY <1>4 DEF OpRecord
  <2> QED BY <2>1 DEF Room, Total, Reached, StreamAfter, PiecesAfter
<1>6. /\ ~LastChunk(o) => Stream(o) = StreamAfter(o, k + 1)
      /\ LastChunk(o) => Stream(o) = LastStream(o, k)
  <2>1. k = 0 => StreamAfter(o, k) = NoStream
    BY DEF StreamAfter
  <2>2. o.mode # "ctr" => StreamAfter(o, k) = NoStream /\ StreamAfter(o, k + 1) = NoStream
    BY DEF StreamAfter
  <2>3. o.mode = "ctr" => StreamAfter(o, k + 1) = [nonce |-> k, start |-> Reached(o, k)]
    BY <1>0 DEF StreamAfter
  <2>4. ~LastChunk(o) => Stream(o) = StreamAfter(o, k + 1)
    BY <1>0, <1>2, <2>2, <2>3 DEF Stream, NewStream, RESET
  <2>5. LastChunk(o) => Stream(o) = LastStream(o, k)
    BY <1>0, <1>2 DEF Stream, NewStream, RESET, LastStream
  <2> QED BY <2>4, <2>5
<1>7. Out2(o) = Chunk(o) + IF o.hmac /\ LastChunk(o) THEN B5_SHA256_DIGEST_SIZE ELSE 0
  BY DEF Out2, Data2
<1>8. c \in OpRecord
  <2>1. Stream(o) \in CipherStream
    <3>1. LastStream(o, k) \in CipherStream
      <4> HIDE DEF k
      <4> QED BY <1>0, <1>1, PiecesFacts DEF LastStream, CipherStream
    <3>2. StreamAfter(o, k + 1) \in CipherStream
      <4> HIDE DEF k
      <4> QED BY <1>0, PiecesFacts
    <3> QED BY <1>6, <3>1, <3>2
  <2>2. Combined(o.pieces, Stream(o), Chunk(o)) \in Seq(Piece)
    BY <1>3, <2>1, CombinedFacts DEF OpRecord
  <2>3. o.done + Chunk(o) \in Nat /\ o.size + Out2(o) \in Nat /\ k + 1 \in Nat
    BY <1>0, <1>1, <1>2, <1>3, <1>7 DEF B5_SHA256_DIGEST_SIZE
  <2> QED BY <1>4, <2>1, <2>2, <2>3 DEF OpRecord
<1>9. ASSUME c.done < Total(o) PROVE Partway(c)
  <2>1. ~LastChunk(o)
    BY <1>1, <1>2, <1>3, <1>4, <1>9
  <2>2. Chunk(o) = Room(o) /\ Out2(o) = Room(o) /\ Stream(o) = StreamAfter(o, k + 1)
    BY <1>1, <1>3, <1>6, <1>7, <2>1
  <2>3. c.done = Reached(o, k + 1) /\ c.size = c.done
    BY <1>1, <1>2, <1>4, <2>2
  <2>4. c.pieces = PiecesAfter(o, k + 1)
    <3> HIDE DEF k
    <3> QED BY <1>0, <1>2, <1>4, <2>2, NextPieces
  <2> QED BY <1>4, <1>5, <1>9, <2>2, <2>3, <2>4 DEF Partway
<1>10. ASSUME ~(c.done < Total(o))
       PROVE  /\ c.size = Total(o) + IF o.hmac THEN B5_SHA256_DIGEST_SIZE ELSE 0
              /\ LastAfter(o, k) /\ c.pieces = Whole(o, k)
  <2>1. LastChunk(o)
    <3>1. ~LastChunk(o) => Reached(o, k) + Room(o) < Total(o) /\ c.done = Reached(o, k) + Room(o)
      BY <1>1, <1>2, <1>3, <1>4
    <3> QED BY <1>10, <3>1
  <2>2. Chunk(o) = Total(o) - Reached(o, k) /\ Stream(o) = LastStream(o, k)
    BY <1>3, <1>6, <2>1
  <2>3. c.size = Total(o) + IF o.hmac THEN B5_SHA256_DIGEST_SIZE ELSE 0
    BY <1>1, <1>2, <1>4, <1>7, <2>1, <2>2 DEF B5_SHA256_DIGEST_SIZE
  <2>4. LastAfter(o, k)
    BY <1>2, <1>3, <2>1 DEF LastAfter
  <2>5. c.pieces = Whole(o, k)
    BY <1>2, <1>4, <2>2 DEF Whole
  <2> QED BY <2>3, <2>4, <2>5
<1> QED BY <1>4, <1>8, <1>9, <1>10 DEF c

-----------------------------------------------------------------------------
(* The operations.                                                         *)

\* The ciphertext that is kept is the one of all chunks, and an operation is the
\* one that they have reached: nothing of that depends on whose answers came.
TextInv(o) ==
  /\ o \in OpRecord
  /\ o.name \in {"encrypt", "decrypt"} => o.step # "none" /\ Partway(o)
  /\ o.name = "command" => o.step = "init" /\ o.command \in Command
  /\ o.cipher # <<>> => \E k \in Nat : LastAfter(o, k) /\ o.cipher = Whole(o, k)
  /\ o.name = "decrypt" => o.cipher # <<>>
  /\ o.plain \subseteq {o.n} /\ o.refused = FALSE

OperationsInv ==
  /\ dev = [job |-> dev.job, ready |-> dev.ready, resp |-> dev.resp, onReset |-> dev.onReset]
  /\ dev.onReset \in BOOLEAN
  /\ op = [p \in Process |-> op[p]]
  /\ \A p \in Process : TextInv(op[p])

LEMMA OneOperation ==
  ASSUME OperationsInv, NEW p \in Process, NEW o, TextInv(o),
         op' = [op EXCEPT ![p] = o],
         dev' = [job |-> dev'.job, ready |-> dev'.ready, resp |-> dev'.resp,
                 onReset |-> dev.onReset]
  PROVE  OperationsInv'
<1>1. dev'.onReset = dev.onReset
  OBVIOUS
<1>2. op' = [q \in Process |-> op'[q]] /\ op'[p] = o /\ \A q \in Process \ {p} : op'[q] = op[q]
  BY DEF OperationsInv
<1>3. ASSUME NEW q \in Process PROVE TextInv(op[q])'
  <2>1. TextInv(op'[q])
    BY <1>2 DEF OperationsInv
  <2> QED BY <1>1, <2>1 DEF TextInv, Partway, Whole, LastStream
<1> QED BY <1>1, <1>2, <1>3 DEF OperationsInv

\* A process that ends its operation.
LEMMA LeaveText ==
  ASSUME NEW o, TextInv(o)
  PROVE  TextInv(Leave(o))
<1> DEFINE l == Leave(o)
<1>1. l \in OpRecord /\ l.name = "none" /\ l.cipher = o.cipher /\ l.plain = o.plain /\ l.n = o.n
      /\ l.refused = o.refused /\ l.mode = o.mode /\ l.hmac = o.hmac
  <2>1. NoStream \in CipherStream /\ <<>> \in Seq(Piece)
    BY DEF NoStream, CipherStream
  <2> QED BY <2>1 DEF Leave, OpRecord, TextInv
<1> HIDE DEF l
<1>2. \A k : LastAfter(l, k) = LastAfter(o, k) /\ Whole(l, k) = Whole(o, k)
  BY <1>1 DEF LastAfter, Whole, PiecesAfter, LastStream, StreamAfter, Reached, Total, Room
<1>3. TextInv(l)
  BY <1>1, <1>2 DEF TextInv
<1> QED BY <1>3 DEF l

\* What an operation begins with.
BeganText(b) ==
  b \in OpRecord /\ b.step = "init" /\ b.plain = {} /\ Partway(b)

LEMMA BeginFacts ==
  ASSUME NEW o \in OpRecord, NEW name \in {"encrypt", "decrypt", "command"}
  PROVE  LET b == Begin(o, name)
         IN  /\ BeganText(b) /\ b.name = name
             /\ b.cipher = o.cipher /\ b.refused = o.refused /\ b.n = o.n /\ b.mode = o.mode
             /\ b.hmac = o.hmac /\ b.command = o.command
<1> DEFINE b == Begin(o, name)
<1>1. NoStream \in CipherStream /\ <<>> \in Seq(Piece)
  BY DEF NoStream, CipherStream
<1>2. /\ b \in OpRecord /\ b.step = "init" /\ b.plain = {} /\ b.name = name
      /\ b.done = 0 /\ b.size = 0 /\ b.counter = 0 /\ b.stream = NoStream /\ b.pieces = <<>>
      /\ b.cipher = o.cipher /\ b.refused = o.refused /\ b.n = o.n /\ b.mode = o.mode
      /\ b.hmac = o.hmac /\ b.command = o.command
  <2>1. /\ b.step = "init" /\ b.plain = {} /\ b.name = name
        /\ b.done = 0 /\ b.size = 0 /\ b.counter = 0 /\ b.stream = NoStream /\ b.pieces = <<>>
    BY DEF Begin, OpRecord
  <2>2. /\ b.cipher = o.cipher /\ b.refused = o.refused /\ b.n = o.n /\ b.mode = o.mode
        /\ b.hmac = o.hmac /\ b.command = o.command
    BY DEF Begin, OpRecord
  <2>3. b \in OpRecord
    <3> DEFINE c == [o EXCEPT !.name = name, !.step = "init", !.done = 0, !.size = 0, !.counter = 0]
    <3>1. c \in OpRecord /\ o.ops = c.ops
      BY DEF OpRecord
    <3>2. b = [c EXCEPT !.stream = NoStream, !.pieces = <<>>, !.plain = {}, !.ops = @ + 1]
      BY DEF Begin
    <3> HIDE DEF b, c
    <3> DEFINE d == [c EXCEPT !.stream = NoStream, !.pieces = <<>>]
    <3>3. d \in OpRecord
      BY <1>1, <3>1 DEF OpRecord
    <3>4. b = [d EXCEPT !.plain = {}, !.ops = @ + 1]
      BY <3>2
    <3> HIDE DEF d
    <3>5. {} \in SUBSET Int /\ d.ops + 1 \in Nat
      BY <3>3 DEF OpRecord
    <3> QED BY <3>3, <3>4, <3>5 DEF OpRecord
  <2> QED BY <2>1, <2>2, <2>3
<1> HIDE DEF b
<1>3. Reached(b, 0) = 0 /\ PiecesAfter(b, 0) = <<>> /\ StreamAfter(b, 0) = NoStream
  BY <1>2, ReachedFacts, PiecesFacts
<1>4. Total(b) > 0
  <2>1. b.n \in Nat
    BY <1>2 DEF OpRecord
  <2> QED BY <1>2, <2>1, TotalFacts
<1>5. BeganText(b)
  BY <1>2, <1>3, <1>4 DEF BeganText, Partway
<1> QED BY <1>2, <1>5 DEF b

LEMMA BeginText ==
  ASSUME NEW p \in Process, OperationsInv, L1Encrypt(p) \/ L1Decrypt(p) \/ L1Command(p)
  PROVE  OperationsInv'
<1> DEFINE o == op[p]
<1>0. o \in OpRecord /\ o.name = "none" /\ UNCHANGED dev /\ TextInv(o)
  BY DEF L1Encrypt, L1Decrypt, L1Command, Starting, OperationsInv, TextInv
<1>1. <<>> \in Seq(Piece)
  OBVIOUS
<1>2. ASSUME NEW n \in Lengths, NEW mode \in Mode, NEW hmac \in BOOLEAN,
             op' = [op EXCEPT ![p] = Begin([@ EXCEPT !.mode = mode, !.hmac = hmac, !.n = n,
                                                     !.cipher = <<>>], "encrypt")]
      PROVE  OperationsInv'
  <2> DEFINE c == [o EXCEPT !.mode = mode, !.hmac = hmac, !.n = n, !.cipher = <<>>]
             b == Begin(c, "encrypt")
  <2>0. n \in Nat
    BY TransferAssumption
  <2>1. c \in OpRecord /\ c.cipher = <<>> /\ c.refused = o.refused
    BY <1>0, <1>1, <2>0 DEF OpRecord
  <2> HIDE DEF c
  <2>2. BeganText(b) /\ b.name = "encrypt" /\ b.cipher = <<>> /\ b.refused = o.refused
    BY <2>1, BeginFacts
  <2> HIDE DEF b
  <2>3. TextInv(b)
    BY <1>0, <2>2 DEF TextInv, BeganText
  <2>4. op' = [op EXCEPT ![p] = b]
    BY <1>2 DEF b, c
  <2> QED BY <1>0, <2>3, <2>4, OneOperation DEF OperationsInv
<1>3. ASSUME o.cipher # <<>>, op' = [op EXCEPT ![p] = Begin(@, "decrypt")]
      PROVE  OperationsInv'
  <2> DEFINE b == Begin(o, "decrypt")
  <2>1. /\ BeganText(b) /\ b.name = "decrypt" /\ b.cipher = o.cipher /\ b.refused = o.refused
        /\ b.n = o.n /\ b.mode = o.mode /\ b.hmac = o.hmac
    BY <1>0, BeginFacts
  <2> HIDE DEF b
  <2>2. \A k : LastAfter(b, k) = LastAfter(o, k) /\ Whole(b, k) = Whole(o, k)
    BY <2>1 DEF LastAfter, Whole, PiecesAfter, LastStream, StreamAfter, Reached, Total, Room
  <2>3. TextInv(b)
    BY <1>0, <1>3, <2>1, <2>2 DEF TextInv, BeganText
  <2>4. op' = [op EXCEPT ![p] = b]
    BY <1>3 DEF b
  <2> QED BY <1>0, <2>3, <2>4, OneOperation DEF OperationsInv
<1>4. ASSUME NEW r \in Representatives, op' = [op EXCEPT ![p] = Begin([@ EXCEPT !.command = r], "command")]
      PROVE  OperationsInv'
  <2> DEFINE c == [o EXCEPT !.command = r]
             b == Begin(c, "command")
  <2>1. r \in Command
    BY DEF Representatives
  <2>2. c \in OpRecord /\ c.cipher = o.cipher /\ c.refused = o.refused /\ c.n = o.n
        /\ c.mode = o.mode /\ c.hmac = o.hmac /\ c.command = r
    <3> HIDE DEF o
    <3> QED BY <1>0, <2>1 DEF OpRecord
  <2> HIDE DEF c
  <2>3. /\ BeganText(b) /\ b.name = "command" /\ b.cipher = o.cipher /\ b.refused = o.refused
        /\ b.n = o.n /\ b.mode = o.mode /\ b.hmac = o.hmac /\ b.command = r
    BY <2>2, BeginFacts
  <2> HIDE DEF b
  <2>4. \A k : LastAfter(b, k) = LastAfter(o, k) /\ Whole(b, k) = Whole(o, k)
    BY <2>3 DEF LastAfter, Whole, PiecesAfter, LastStream, StreamAfter, Reached, Total, Room
  <2>5. TextInv(b)
    BY <1>0, <2>1, <2>3, <2>4 DEF TextInv, BeganText
  <2>6. op' = [op EXCEPT ![p] = b]
    BY <1>4 DEF b, c
  <2> QED BY <1>0, <2>5, <2>6, OneOperation DEF OperationsInv
<1>5. CASE L1Encrypt(p)
  BY <1>2, <1>5 DEF L1Encrypt
<1>6. CASE L1Decrypt(p)
  BY <1>3, <1>6 DEF L1Decrypt
<1>7. CASE L1Command(p)
  BY <1>4, <1>7 DEF L1Command
<1> QED BY <1>5, <1>6, <1>7

\* L1Encrypt keeps the ciphertext of all chunks; L1Decrypt goes through the same
\* chunks and streams, and finds the sizes and the digest it expects.
LEMMA FinishedText ==
  ASSUME NEW o, TextInv(o), o.name \in {"encrypt", "decrypt"}, o.step = "update",
         dev.onReset \in BOOLEAN, ~(AfterChunk(o).done < Total(o))
  PROVE  TextInv(IF o.name = "encrypt" THEN Encrypted(AfterChunk(o)) ELSE Decrypted(AfterChunk(o)))
<1> DEFINE c == AfterChunk(o)
           l == Leave(o)
           k == o.counter
<1>1. o \in OpRecord /\ Partway(o) /\ k \in Nat
  BY DEF TextInv, OpRecord
<1>2. /\ c \in OpRecord
      /\ c = [o EXCEPT !.done = c.done, !.size = c.size, !.counter = c.counter,
                       !.stream = c.stream, !.pieces = c.pieces]
      /\ c.size = Total(o) + IF o.hmac THEN B5_SHA256_DIGEST_SIZE ELSE 0
      /\ LastAfter(o, k) /\ c.pieces = Whole(o, k)
  BY <1>1, ChunkFacts
<1>3. TextInv(l) /\ l.name = "none" /\ l.n = o.n /\ l.cipher = o.cipher /\ l.refused = FALSE
      /\ l.mode = o.mode /\ l.hmac = o.hmac /\ l \in OpRecord
  <2>1. l.name = "none" /\ l.n = o.n /\ l.cipher = o.cipher /\ l.refused = o.refused
        /\ l.mode = o.mode /\ l.hmac = o.hmac
    BY <1>1 DEF Leave, OpRecord
  <2> HIDE DEF l
  <2>2. TextInv(l)
    BY LeaveText DEF l
  <2> QED BY <2>1, <2>2 DEF TextInv
<1> HIDE DEF c
<1>4. /\ c.n = o.n /\ c.hmac = o.hmac /\ c.name = o.name /\ c.cipher = o.cipher /\ c.mode = o.mode
      /\ Total(c) = Total(o)
  <2>1. c.n = o.n /\ c.hmac = o.hmac /\ c.name = o.name /\ c.cipher = o.cipher /\ c.mode = o.mode
    BY <1>1, <1>2 DEF OpRecord
  <2> QED BY <2>1 DEF Total
<1>5. Leave(c) = l
  <2>1. [c EXCEPT !.name = "none", !.step = "none", !.command = NoCommand, !.done = 0,
                  !.size = 0, !.counter = 0, !.stream = NoStream, !.pieces = <<>>]
          = [o EXCEPT !.name = "none", !.step = "none", !.command = NoCommand, !.done = 0,
                      !.size = 0, !.counter = 0, !.stream = NoStream, !.pieces = <<>>]
    BY <1>1, <1>2 DEF OpRecord
  <2> QED BY <2>1 DEF Leave
<1> HIDE DEF l
<1>6. SizesAgree(c)
  <2>1. Total(o) \in Nat /\ o.hmac \in BOOLEAN
    BY <1>1, TotalFacts DEF OpRecord
  <2> QED BY <1>2, <1>4, <2>1 DEF SizesAgree, B5_SHA256_DIGEST_SIZE
<1>7. \A j : LastAfter(l, j) = LastAfter(o, j) /\ Whole(l, j) = Whole(o, j)
  BY <1>3 DEF LastAfter, Whole, PiecesAfter, LastStream, StreamAfter, Reached, Total, Room
<1>8. CASE o.name = "encrypt"
  <2> DEFINE e == [l EXCEPT !.cipher = c.pieces]
  <2>1. /\ e \in OpRecord /\ e.name = "none" /\ e.cipher = c.pieces /\ e.plain = l.plain
        /\ e.refused = FALSE /\ e.n = l.n /\ e.mode = l.mode /\ e.hmac = l.hmac
    BY <1>2, <1>3 DEF OpRecord
  <2>2. Encrypted(c) = e
    BY <1>5, <1>6 DEF Encrypted
  <2> HIDE DEF e
  <2>3. LastAfter(e, k) /\ e.cipher = Whole(e, k)
    BY <1>2, <1>3, <2>1
       DEF LastAfter, Whole, PiecesAfter, LastStream, StreamAfter, Reached, Total, Room
  <2>4. TextInv(e)
    BY <1>1, <1>3, <2>1, <2>3 DEF TextInv
  <2> QED BY <1>8, <2>2, <2>4 DEF c
<1>9. CASE o.name = "decrypt"
  <2>1. PICK j \in Nat : LastAfter(o, j) /\ o.cipher = Whole(o, j)
    BY <1>9 DEF TextInv
  <2>2. j = k
    BY <1>1, <1>2, <2>1, ReachedFacts
  <2>3. c.pieces = c.cipher
    BY <1>2, <1>4, <2>1, <2>2
  <2> DEFINE e == [l EXCEPT !.plain = {c.n}]
  <2>4. Decrypted(c) = e
    <3>1. c.size - Padding(c.n) - (IF c.hmac THEN B5_SHA256_DIGEST_SIZE ELSE 0) = c.n
      <4>1. Padding(o.n) \in 1..16 /\ Total(o) \in Nat /\ Total(o) - Padding(o.n) = o.n
        BY <1>1, TotalFacts
      <4>2. o.n \in Nat /\ o.hmac \in BOOLEAN
        BY <1>1 DEF OpRecord
      <4> QED BY <1>2, <1>4, <4>1, <4>2 DEF B5_SHA256_DIGEST_SIZE
    <3>2. ~(~SizesAgree(c) \/ (c.hmac /\ c.pieces # c.cipher))
      BY <1>6, <2>3
    <3> QED BY <1>5, <2>3, <3>1, <3>2 DEF Decrypted
  <2>5. /\ e \in OpRecord /\ e.name = "none" /\ e.cipher = l.cipher /\ e.plain = {e.n}
        /\ e.refused = FALSE /\ e.n = l.n /\ e.mode = l.mode /\ e.hmac = l.hmac
    <3>1. {c.n} \in SUBSET Int /\ c.n = l.n
      BY <1>1, <1>3, <1>4 DEF OpRecord
    <3> QED BY <1>3, <3>1 DEF OpRecord
  <2> HIDE DEF e
  <2>6. \A i : LastAfter(e, i) = LastAfter(l, i) /\ Whole(e, i) = Whole(l, i)
    BY <2>5 DEF LastAfter, Whole, PiecesAfter, LastStream, StreamAfter, Reached, Total, Room
  <2>7. TextInv(e)
    BY <1>3, <2>5, <2>6 DEF TextInv
  <2> QED BY <1>9, <2>4, <2>7 DEF c
<1> QED BY <1>8, <1>9

LEMMA ReceivedText ==
  ASSUME NEW o, TextInv(o), o.name # "none", dev.onReset \in BOOLEAN
  PROVE  TextInv(Received(o))
<1>0. o \in OpRecord
  BY DEF TextInv
<1>1. CASE o.name = "command"
  <2>1. CASE o.done + 1 < Answers(o.command)
    <3> DEFINE e == [o EXCEPT !.done = @ + 1]
    <3>1. /\ e \in OpRecord /\ e.name = o.name /\ e.cipher = o.cipher /\ e.plain = o.plain
          /\ e.refused = o.refused /\ e.n = o.n /\ e.mode = o.mode /\ e.hmac = o.hmac
          /\ e.step = o.step /\ e.command = o.command
      BY <1>0 DEF OpRecord
    <3>2. Received(o) = e
      BY <1>1, <2>1 DEF Received
    <3> HIDE DEF e
    <3>3. \A i : LastAfter(e, i) = LastAfter(o, i) /\ Whole(e, i) = Whole(o, i)
      BY <3>1 DEF LastAfter, Whole, PiecesAfter, LastStream, StreamAfter, Reached, Total, Room
    <3>4. TextInv(e)
      BY <1>1, <3>1, <3>3 DEF TextInv
    <3> QED BY <3>2, <3>4
  <2>2. CASE ~(o.done + 1 < Answers(o.command))
    BY <1>1, <2>2, LeaveText DEF Received
  <2> QED BY <2>1, <2>2
<1>2. CASE o.name # "command" /\ o.step # "update"
  <2> DEFINE e == [o EXCEPT !.step = StepAfter(o)]
  <2>0. StepAfter(o) \in {"nonce", "iv", "update"}
    BY DEF StepAfter
  <2>1. /\ e \in OpRecord /\ e.name = o.name /\ e.cipher = o.cipher /\ e.plain = o.plain
        /\ e.refused = o.refused /\ e.n = o.n /\ e.mode = o.mode /\ e.hmac = o.hmac
        /\ e.done = o.done /\ e.size = o.size /\ e.counter = o.counter /\ e.stream = o.stream
        /\ e.pieces = o.pieces /\ e.step # "none"
    BY <1>0, <2>0 DEF OpRecord
  <2>2. Received(o) = e
    BY <1>2 DEF Received
  <2> HIDE DEF e
  <2>3. \A i : LastAfter(e, i) = LastAfter(o, i) /\ Whole(e, i) = Whole(o, i)
    BY <2>1 DEF LastAfter, Whole, PiecesAfter, LastStream, StreamAfter, Reached, Total, Room
  <2>4. Partway(o) => Partway(e)
    BY <2>1 DEF Partway, PiecesAfter, StreamAfter, Reached, Total, Room
  <2>5. TextInv(e)
    BY <1>2, <2>1, <2>3, <2>4 DEF TextInv
  <2> QED BY <2>2, <2>5
<1>3. CASE o.name # "command" /\ o.step = "update"
  <2> DEFINE c == AfterChunk(o)
  <2>1. o.name \in {"encrypt", "decrypt"} /\ Partway(o)
    BY <1>0, <1>3 DEF OpRecord, TextInv
  <2>2. CASE ~(c.done < Total(o))
    BY <1>3, <2>1, <2>2, FinishedText DEF Received
  <2>3. CASE c.done < Total(o)
    <3>1. /\ c \in OpRecord /\ Partway(c)
          /\ c = [o EXCEPT !.done = c.done, !.size = c.size, !.counter = c.counter,
                           !.stream = c.stream, !.pieces = c.pieces]
      BY <1>0, <1>3, <2>1, <2>3, ChunkFacts
    <3>2. Received(o) = c
      BY <1>3, <2>3 DEF Received
    <3> HIDE DEF c
    <3>3. /\ c.name = o.name /\ c.cipher = o.cipher /\ c.plain = o.plain /\ c.step = o.step
          /\ c.refused = o.refused /\ c.n = o.n /\ c.mode = o.mode /\ c.hmac = o.hmac
      BY <1>0, <3>1 DEF OpRecord
    <3>4. \A i : LastAfter(c, i) = LastAfter(o, i) /\ Whole(c, i) = Whole(o, i)
      BY <3>3 DEF LastAfter, Whole, PiecesAfter, LastStream, StreamAfter, Reached, Total, Room
    <3>5. TextInv(c)
      BY <1>3, <2>1, <3>1, <3>3, <3>4 DEF TextInv
    <3> QED BY <3>2, <3>5
  <2> QED BY <2>2, <2>3
<1> QED BY <1>1, <1>2, <1>3

\* Requests and answers of a text fit into the blocks there are, whatever its length,
\* and so do those of the commands.
LEMMA FitsIn ==
  ASSUME NEW len \in Nat, len <= L1_MAX_DATA
  PROVE  Padded(len) \in Nat /\ Padded(len) <= L1_MAX_DATA
<1>1. len <= 7536 /\ L1_MAX_DATA = 7536
  BY Sizes
<1>2. Padded(len) \in Nat /\ Padded(len) <= 7536
  BY <1>1 DEF Padded
<1> QED BY <1>1, <1>2

LEMMA CommandSizes ==
  ASSUME NEW c \in Command
  PROVE  c.req \in Nat /\ c.req <= 600 /\ c.resp \in Nat /\ c.resp <= 600
BY DEF Command, L1FindKey, L1Config, L1KeyEdit, L1SEkey_DeleteAllKeys, L1SEkey_DeleteKey,
       L1SEkey_isReady, L1SEkey_InsertKey, L1SEkey_Info, L1SEkey_GetKeyEnc, L1SEkey_Maintenance,
       L1KeyList, KEY

LEMMA NeverTooLong ==
  ASSUME NEW p \in Process, TextInv(op[p]), op[p].name # "none"
  PROVE  ~TooLong(p)
<1> DEFINE o == op[p]
<1>0. o \in OpRecord
  BY DEF TextInv
<1>9. L1_MAX_DATA = 7536 /\ L1_DATA = 64 /\ MAX_DATA = 7600
  BY Sizes DEF L1_DATA
<1>1. ReqLen(o) \in Nat /\ ReqLen(o) <= 7536 /\ OutLen(o) \in Nat /\ OutLen(o) <= 7536
  <2>1. CASE o.name = "command"
    <3>1. o.command.req \in Nat /\ o.command.req <= 600 /\ o.command.resp \in Nat /\ o.command.resp <= 600
      BY <2>1, CommandSizes DEF TextInv
    <3> HIDE DEF o
    <3>2. ReqLen(o) = o.command.req /\ OutLen(o) = o.command.resp
      BY <2>1 DEF ReqLen, OutLen
    <3> QED BY <3>1, <3>2
  <2>2. CASE o.name # "command"
    <3>1. Partway(o) /\ o.counter \in Nat
      BY <1>0, <2>2 DEF TextInv, OpRecord
    <3>2. Chunk(o) \in Nat /\ Chunk(o) <= Room(o)
      <4>1. /\ Room(o) \in Nat /\ Total(o) \in Nat /\ Reached(o, o.counter) \in Nat
        <5> HIDE DEF o
        <5>1. Room(o) \in Nat
          BY <1>0, RoomFacts
        <5>2. Reached(o, o.counter) \in Nat
          BY <1>0, <3>1, ReachedFacts
        <5> QED BY <1>0, <5>1, <5>2, TotalFacts
      <4>2. o.done = Reached(o, o.counter) /\ o.done < Total(o)
        BY <3>1 DEF Partway
      <4> QED BY <4>1, <4>2 DEF Chunk, Smaller
    <3>3. /\ Room(o) <= 7520 /\ (o.mode = "ctr" => Room(o) <= 7504) /\ (o.hmac => Room(o) <= 7488)
          /\ Room(o) \in Nat
      BY <1>0, RoomFacts
    <3>4. Padded(0) = 0 /\ Padded(16) = 16 /\ Padded(32) = 32
      BY DEF Padded
    <3> HIDE DEF o
    <3>5. Data2(o) \in Nat /\ Data2(o) <= Room(o)
      BY <3>2, <3>3 DEF Data2
    <3>6. CASE Updating(o)
      <4>1. Padded(Data1(o)) \in {0, 16, 32}
        BY <3>4 DEF Data1
      <4>2. Padded(Data1(o)) # 0 => o.step \in {"nonce", "iv"} \/ o.mode = "ctr"
        BY <3>4 DEF Data1
      <4>3. o.step # "update" => Data2(o) = 0 /\ Out2(o) = 0
        BY DEF Data2, Out2
      <4>4. o.step = "update" => Padded(Data1(o)) \in {0, 16}
        BY <3>4 DEF Data1
      <4>5. Out2(o) \in Nat /\ Out2(o) <= 7520
        BY <3>3, <3>5 DEF Out2, B5_SHA256_DIGEST_SIZE
      <4>6. Padded(Data1(o)) + Data2(o) \in Nat /\ Padded(Data1(o)) + Data2(o) <= 7520
        <5>1. CASE o.step # "update"
          BY <4>1, <4>3, <5>1
        <5>2. CASE o.step = "update" /\ Padded(Data1(o)) = 0
          BY <3>3, <3>5, <5>2
        <5>3. CASE o.step = "update" /\ Padded(Data1(o)) = 16
          <6>1. o.mode = "ctr"
            BY <4>2, <5>3
          <6> QED BY <3>3, <3>5, <5>3, <6>1
        <5> QED BY <4>4, <5>1, <5>2, <5>3
      <4>7. /\ ReqLen(o) = UPDATE_DATA + Padded(Data1(o)) + Data2(o)
            /\ OutLen(o) = UPDATE_DATA + Out2(o)
        BY <2>2, <3>6 DEF ReqLen, OutLen
      <4> QED BY <3>5, <4>1, <4>5, <4>6, <4>7 DEF UPDATE_DATA
    <3>7. CASE ~Updating(o)
      BY <1>0, <2>2, <3>7 DEF ReqLen, OutLen
    <3> QED BY <3>6, <3>7
  <2> QED BY <2>1, <2>2
<1>2. Padded(ReqLen(o)) \in Nat /\ Padded(ReqLen(o)) <= 7536
      /\ Padded(OutLen(o)) \in Nat /\ Padded(OutLen(o)) <= 7536
  BY <1>9, <1>1, FitsIn
<1>3. Request(p).out = 64 + Padded(OutLen(o))
  BY <1>9 DEF Request
<1>4. ReqLen(o) \in Nat /\ ReqLen(o) <= 7536
  BY <1>1
<1> HIDE DEF o
<1> QED BY <1>9, <1>2, <1>3, <1>4 DEF TooLong, o

LEMMA OperationsNext == TransferInv /\ OperationsInv /\ [Next]_vars => OperationsInv'
<1> SUFFICES ASSUME OperationsInv, [Next]_vars PROVE OperationsInv'
  OBVIOUS
<1>0. dev = [job |-> dev.job, ready |-> dev.ready, resp |-> dev.resp, onReset |-> dev.onReset]
      /\ dev.onReset \in BOOLEAN
  BY DEF OperationsInv
<1>1. ASSUME UNCHANGED op,
             dev' = [job |-> dev'.job, ready |-> dev'.ready, resp |-> dev'.resp,
                     onReset |-> dev.onReset]
      PROVE  OperationsInv'
  <2>1. dev'.onReset = dev.onReset
    BY <1>1
  <2> QED BY <1>1, <2>1 DEF OperationsInv, TextInv, Partway, Whole, LastStream
<1>2. ASSUME UNCHANGED <<op, dev>> PROVE OperationsInv'
  BY <1>0, <1>1, <1>2
<1>3. ASSUME NEW p \in Process, Ends(p), UNCHANGED dev PROVE OperationsInv'
  <2>1. TextInv(Leave(op[p])) /\ op' = [op EXCEPT ![p] = Leave(op[p])]
    BY <1>3, LeaveText DEF Ends, OperationsInv
  <2> QED BY <1>0, <1>3, <2>1, OneOperation
<1>4. ASSUME NEW p \in Process, NEW answer, Accept(p, answer), op[p].name # "none", UNCHANGED dev
      PROVE  OperationsInv'
  <2>1. TextInv(Received(op[p])) /\ op' = [op EXCEPT ![p] = Received(op[p])]
    BY <1>4, ReceivedText DEF Accept, OperationsInv
  <2> QED BY <1>0, <1>4, <2>1, OneOperation
<1>5. CASE Answer
  BY <1>0, <1>1, <1>5 DEF Answer
<1>6. ASSUME NEW p \in Process, Opening(p) PROVE OperationsInv'
  BY <1>2, <1>6 DEF Opening
<1>7. ASSUME NEW p \in Process, Crashes(p) PROVE OperationsInv'
  <2> DEFINE e == [NoOp EXCEPT !.ops = op[p].ops]
  <2>1. op[p].ops \in Nat
    BY DEF OperationsInv, TextInv, OpRecord
  <2>2. e \in OpRecord /\ e.name = "none" /\ e.cipher = <<>> /\ e.plain = {} /\ e.refused = FALSE
    <3>1. NoStream \in CipherStream /\ <<>> \in Seq(Piece)
      BY DEF NoStream, CipherStream
    <3> QED BY <2>1, <3>1 DEF NoOp, OpRecord, Mode
  <2>3. op' = [op EXCEPT ![p] = e] /\ UNCHANGED dev
    BY <1>7 DEF Crashes
  <2> HIDE DEF e
  <2>4. TextInv(e)
    BY <2>2 DEF TextInv
  <2> QED BY <1>0, <2>3, <2>4, OneOperation
<1>8. ASSUME NEW p \in Process, L0TX(p) PROVE OperationsInv'
  <2>1. Writes(p)
    BY <1>8, NeverTooLong DEF L0TX, Busy, OperationsInv
  <2>2. CASE Ends(p) /\ UNCHANGED dev
    BY <1>3, <2>2
  <2>3. CASE dev' = [dev EXCEPT !.job = Request(p), !.ready = FALSE] /\ UNCHANGED op
    BY <1>0, <1>1, <2>3
  <2> QED BY <2>1, <2>2, <2>3 DEF Writes
<1>9. ASSUME NEW p \in Process, L0RX(p) \/ L0RXRest(p) PROVE OperationsInv'
  <2>1. op[p].name # "none" /\ UNCHANGED dev
    BY <1>9 DEF L0RX, L0RXRest, Busy
  <2>2. Accept(p, dev.resp) \/ Ends(p) \/ UNCHANGED op
    BY <1>9 DEF L0RX, L0RXRest
  <2> QED BY <1>2, <1>3, <1>4, <2>1, <2>2
<1>10. ASSUME NEW p \in Process, L0RXFails(p) PROVE OperationsInv'
  BY <1>3, <1>10 DEF L0RXFails
<1>11. CASE UNCHANGED vars
  BY <1>2, <1>11 DEF vars
<1> QED BY <1>5, <1>6, <1>7, <1>8, <1>9, <1>10, <1>11, BeginText DEF Next

-----------------------------------------------------------------------------
(* The theorems.                                                           *)

\* For every number of processes, files and failures: as long as no process looks
\* for the SEcube while it has it open, and none removes a file that is in use, no
\* two programs have the SEcube open at the same time (Se3OpenExisting).
THEOREM ExclusiveAlways == Spec => []Exclusive
<1>1. TransferInv => Exclusive
  BY ExclusiveFollows DEF TransferInv
<1> QED BY <1>1, TransferInvAlways, PTL

\* Under the same condition, every answer that L0RX accepts is the answer to the
\* request that its own L0TX has written, although nothing compares them.
THEOREM OwnAnswerAlways == Spec => []OwnAnswer
<1>1. TransferInv => OwnAnswer
  BY DEF TransferInv, ExchangeInv, Awaited, OwnAnswer
<1> QED BY <1>1, TransferInvAlways, PTL

\* L1Decrypt returns what L1Encrypt was given, for a text of any length, in every
\* mode, with a digest or without, whether the firmware starts a stream with RESET
\* or with each counter; and neither refuses, nor makes the device refuse, any of
\* the chunks (L1Encrypt and L1Decrypt of L1_security.cpp).
THEOREM RoundTripAlways == Spec => []RoundTrip
<1>1. TransferInit => OperationsInv
  <2> SUFFICES ASSUME TransferInit PROVE OperationsInv
    OBVIOUS
  <2>1. NoOp \in OpRecord
    <3>1. NoStream \in CipherStream /\ <<>> \in Seq(Piece)
      BY DEF NoStream, CipherStream
    <3> QED BY <3>1 DEF NoOp, OpRecord, Mode
  <2>2. NoOp.name = "none" /\ NoOp.cipher = <<>> /\ NoOp.plain = {} /\ NoOp.refused = FALSE
    BY DEF NoOp
  <2>3. TextInv(NoOp)
    BY <2>1, <2>2 DEF TextInv
  <2> QED BY <2>3 DEF TransferInit, OperationsInv
<1>2. Spec => []OperationsInv
  BY <1>1, OperationsNext, TransferInvAlways, PTL DEF Spec
<1>3. OperationsInv => RoundTrip
  BY DEF OperationsInv, TextInv, RoundTrip
<1> QED BY <1>2, <1>3, PTL
=============================================================================
