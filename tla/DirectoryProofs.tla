-------------------------- MODULE DirectoryProofs --------------------------
(***************************************************************************)
(* Proofs about the re-encryption of files: no content is lost, the keys   *)
(* are checked again after it, and a listing shows every file by the name  *)
(* that opens it.                                                          *)
(*                                                                         *)
(* The content saved last under a name can be in three files: the one of   *)
(* that name, the new file of a re-encryption, and the new file of a       *)
(* re-encryption of that.  The invariant says that it is in the first of   *)
(* them there is, and that the new file of the call under way has the      *)
(* content of the old one; a removed file then leaves a good one behind.   *)
(*                                                                         *)
(* The name in a header is that of the file, but for a re-encryption that  *)
(* was cut short, whose suffix it may have or lack; the listing finds out  *)
(* which.                                                                  *)
(***************************************************************************)
EXTENDS Directory, SequenceTheorems, TLAPS

\* What the content of a may be stored under.
Old(a) == crypto_filename(Name(a))
New(a) == crypto_filename(WithSuffix(Name(a)))
Newer(a) == crypto_filename(WithSuffix(WithSuffix(Name(a))))

LEMMA NamesDiffer ==
  ASSUME NEW a \in Base, NEW b \in Base
  PROVE  /\ Old(a) = Old(b) => a = b
         /\ New(a) = New(b) => a = b
         /\ Newer(a) = Newer(b) => a = b
         /\ Old(a) # New(b) /\ Old(a) # Newer(b) /\ New(a) # Newer(b)
<1> DEFINE n(x) == Name(x)
           s(x) == WithSuffix(Name(x))
           t(x) == WithSuffix(WithSuffix(Name(x)))
<1>1. ASSUME NEW x \in Base
      PROVE  /\ n(x) \in Seq(Base \cup {"reencryptedsefile"})
             /\ s(x) \in Seq(Base \cup {"reencryptedsefile"})
             /\ t(x) \in Seq(Base \cup {"reencryptedsefile"})
             /\ Len(n(x)) = 1 /\ Len(s(x)) = 2 /\ Len(t(x)) = 3
             /\ n(x)[1] = x /\ s(x)[1] = x /\ t(x)[1] = x
  BY DEF Name, WithSuffix
<1> HIDE DEF n, s, t
<1>2. n(a) = n(b) => a = b
  BY <1>1
<1>3. s(a) = s(b) => a = b
  BY <1>1
<1>4. t(a) = t(b) => a = b
  BY <1>1
<1>5. n(a) # s(b)
  <2>1. Len(n(a)) = 1 /\ Len(s(b)) = 2
    BY <1>1
  <2> QED BY <2>1
<1>6. n(a) # t(b)
  <2>1. Len(n(a)) = 1 /\ Len(t(b)) = 3
    BY <1>1
  <2> QED BY <2>1
<1>7. s(a) # t(b)
  <2>1. Len(s(a)) = 2 /\ Len(t(b)) = 3
    BY <1>1
  <2> QED BY <2>1
<1>8. /\ Old(a) = crypto_filename(n(a)) /\ Old(b) = crypto_filename(n(b))
      /\ New(a) = crypto_filename(s(a)) /\ New(b) = crypto_filename(s(b))
      /\ Newer(a) = crypto_filename(t(a)) /\ Newer(b) = crypto_filename(t(b))
  BY DEF n, s, t, Old, New, Newer
<1>9. ASSUME NEW x, NEW y, crypto_filename(x) = crypto_filename(y)
      PROVE  x = y
  <2>1. crypto_filename(x).sha = x /\ crypto_filename(y).sha = y
    BY DEF crypto_filename
  <2> QED BY <1>9, <2>1
<1> QED BY <1>2, <1>3, <1>4, <1>5, <1>6, <1>7, <1>8, <1>9

\* A file is a record, whatever its fields are.
Shaped(file) ==
  file = [kind |-> file.kind, name |-> file.name, key |-> file.key,
          of |-> file.of, len |-> file.len, whole |-> file.whole]

FileTypes ==
  /\ entries = [k \in DOMAIN entries |-> entries[k]]
  /\ \A k \in DOMAIN entries : Shaped(entries[k])
  /\ saved \in [{Name(base) : base \in Base} -> Nat]
  /\ job = [at |-> job.at, kind |-> job.kind, path |-> job.path, key |-> job.key]

\* The content of a saved last is in the file stored under k.
Good(k, a) ==
  /\ k \in DOMAIN entries /\ entries[k].whole
  /\ entries[k].of = <<Name(a), saved[Name(a)]>> /\ entries[k].len = Chunks

\* It is in the first of the files there are.
Newest(a) ==
  IF Old(a) \in DOMAIN entries THEN Good(Old(a), a)
  ELSE IF New(a) \in DOMAIN entries THEN Good(New(a), a)
  ELSE Good(Newer(a), a)

NewestInv == \A a \in Base : saved[Name(a)] > 0 => Newest(a)

\* The new file of a re-encryption has the content of the old one.
JobInv ==
  LET old == crypto_filename(job.path)
      new == crypto_filename(WithSuffix(job.path))
  IN  /\ job.at \in {"none", "context", "copy", "rename"}
      /\ job.at \in {"copy", "rename"} =>
           /\ job.path \in Paths
           /\ new \in DOMAIN entries /\ entries[new].whole
           /\ old \in DOMAIN entries => entries[new].of = entries[old].of
      /\ job.at = "copy" => old \in DOMAIN entries
      /\ job.at = "rename" /\ old \in DOMAIN entries => entries[new].len = entries[old].len
      /\ job.at = "none" => ~override_key_check

DirectoryInv == FileTypes /\ NewestInv /\ JobInv

LEMMA PathKeys ==
  ASSUME NEW path \in Paths
  PROVE  \E a \in Base :
           \/ crypto_filename(path) = Old(a) /\ crypto_filename(WithSuffix(path)) = New(a)
           \/ crypto_filename(path) = New(a) /\ crypto_filename(WithSuffix(path)) = Newer(a)
BY DEF Paths, Old, New, Newer

\* A step may do what it likes with the new file of a path whose old file is there.
LEMMA NewFileStep ==
  ASSUME DirectoryInv, NEW path \in Paths, crypto_filename(path) \in DOMAIN entries,
         saved' = saved,
         \A k : k # crypto_filename(WithSuffix(path)) =>
           /\ k \in DOMAIN entries' <=> k \in DOMAIN entries
           /\ k \in DOMAIN entries => entries'[k] = entries[k]
  PROVE  NewestInv'
<1> SUFFICES ASSUME NEW b \in Base, saved[Name(b)] > 0, Newest(b)
             PROVE  Newest(b)'
  BY DEF DirectoryInv, NewestInv
<1>1. PICK a \in Base :
           \/ crypto_filename(path) = Old(a) /\ crypto_filename(WithSuffix(path)) = New(a)
           \/ crypto_filename(path) = New(a) /\ crypto_filename(WithSuffix(path)) = Newer(a)
  BY PathKeys
<1> QED BY <1>1, NamesDiffer DEF Newest, Good

LEMMA Frame ==
  ASSUME DirectoryInv, UNCHANGED <<entries, saved>>
  PROVE  NewestInv'
BY DEF DirectoryInv, NewestInv, Newest, Good

LEMMA PathsDiffer ==
  ASSUME NEW path \in Paths
  PROVE  crypto_filename(path) # crypto_filename(WithSuffix(path))
BY PathKeys, NamesDiffer

\* What it means to put a file among the entries.
PutAt(k, file) ==
  /\ DOMAIN entries' = DOMAIN entries \cup {k}
  /\ entries'[k] = file
  /\ \A other \in DOMAIN entries : other # k => entries'[other] = entries[other]

LEMMA PutFacts ==
  ASSUME NEW name, NEW file, entries' = Put(entries, name, file)
  PROVE  /\ entries' = [k \in DOMAIN entries' |-> entries'[k]]
         /\ PutAt(crypto_filename(name), file)
BY DEF Put, PutAt

LEMMA NewFileShaped ==
  ASSUME NEW kind, NEW name, NEW key, NEW of, NEW len, NEW whole, NEW file,
         file = NewFile(kind, name, key, of, len, whole)
  PROVE  Shaped(file) /\ file.of = of /\ file.len = len /\ file.whole = whole
BY DEF NewFile, Shaped

LEMMA PutShaped ==
  ASSUME \A k \in DOMAIN entries : Shaped(entries[k]),
         NEW name, NEW file, Shaped(file), entries' = Put(entries, name, file)
  PROVE  \A k \in DOMAIN entries' : Shaped(entries'[k])
<1>0. PutAt(crypto_filename(name), file)
  BY PutFacts
<1>1. SUFFICES ASSUME NEW k \in DOMAIN entries' PROVE Shaped(entries'[k])
  OBVIOUS
<1>2. CASE k = crypto_filename(name)
  <2>1. entries'[k] = file
    BY <1>0, <1>2 DEF PutAt
  <2> QED BY <2>1
<1>3. CASE k # crypto_filename(name)
  <2>1. k \in DOMAIN entries /\ entries'[k] = entries[k]
    BY <1>0, <1>3 DEF PutAt
  <2> QED BY <2>1
<1> QED BY <1>2, <1>3

LEMMA SaveStep ==
  ASSUME DirectoryInv, NEW kind, NEW base \in Base, NEW key, Save(kind, Name(base), key)
  PROVE  DirectoryInv'
<1> DEFINE file == NewFile(kind, Name(base), key, <<Name(base), saved'[Name(base)]>>, Chunks, TRUE)
<1>1. /\ entries' = Put(entries, Name(base), file)
      /\ saved' = [saved EXCEPT ![Name(base)] = @ + 1]
      /\ job' = job /\ override_key_check' = override_key_check /\ job.at = "none"
      /\ Old(base) \notin DOMAIN entries
  BY DEF Save, With, Idle, Found, Old
<1>2. /\ Shaped(file) /\ file.whole /\ file.len = Chunks
      /\ file.of = <<Name(base), saved'[Name(base)]>>
  BY DEF NewFile, Shaped
<1> HIDE DEF file
<1>3. entries' = [k \in DOMAIN entries' |-> entries'[k]] /\ PutAt(Old(base), file)
  BY <1>1, PutFacts DEF Old
<1>4. FileTypes'
  <2>1. saved' \in [{Name(b) : b \in Base} -> Nat]
    BY <1>1 DEF DirectoryInv, FileTypes
  <2>2. \A k \in DOMAIN entries' : Shaped(entries'[k])
    BY <1>1, <1>2, PutShaped DEF DirectoryInv, FileTypes
  <2> QED BY <1>1, <1>3, <2>1, <2>2 DEF DirectoryInv, FileTypes
<1>5. NewestInv'
  <2> SUFFICES ASSUME NEW b \in Base, saved'[Name(b)] > 0
               PROVE  Newest(b)'
    BY DEF NewestInv
  <2>1. CASE b = base
    BY <2>1, <1>2, <1>3 DEF PutAt, Newest, Good
  <2>2. CASE b # base
    <3>1. Name(b) # Name(base)
      BY <2>2, NamesDiffer DEF Old
    <3>2. saved'[Name(b)] = saved[Name(b)]
      BY <1>1, <3>1 DEF DirectoryInv, FileTypes
    <3>3. Newest(b)
      BY <3>2 DEF DirectoryInv, NewestInv
    <3>4. Old(b) # Old(base) /\ New(b) # Old(base) /\ Newer(b) # Old(base)
      BY <2>2, NamesDiffer
    <3> QED BY <1>3, <3>2, <3>3, <3>4 DEF PutAt, Newest, Good
  <2> QED BY <2>1, <2>2
<1>6. JobInv'
  BY <1>1 DEF DirectoryInv, JobInv
<1> QED BY <1>4, <1>5, <1>6 DEF DirectoryInv

\* The step of Created and NotCreated on the disk.
LEMMA NewFileCreated ==
  ASSUME DirectoryInv, NEW path \in Paths, crypto_filename(path) \in DOMAIN entries,
         saved' = saved, job' = [at |-> job'.at, kind |-> job'.kind, path |-> job'.path, key |-> job'.key],
         NEW file, Shaped(file), entries' = Put(entries, WithSuffix(path), file)
  PROVE  FileTypes' /\ NewestInv'
<1>1. entries' = [k \in DOMAIN entries' |-> entries'[k]]
      /\ PutAt(crypto_filename(WithSuffix(path)), file)
  BY PutFacts
<1>2. FileTypes'
  <2>1. \A k \in DOMAIN entries' : Shaped(entries'[k])
    BY PutShaped DEF DirectoryInv, FileTypes
  <2> QED BY <1>1, <2>1 DEF DirectoryInv, FileTypes
<1>3. NewestInv'
  BY <1>1, NewFileStep DEF PutAt
<1> QED BY <1>2, <1>3

LEMMA NotCreatedStep ==
  ASSUME DirectoryInv, NEW kind, NEW path \in Paths, NEW key, Same, NotCreated(kind, path, key)
  PROVE  DirectoryInv'
<1>1. PICK whole \in BOOLEAN :
        entries' = Put(entries, WithSuffix(path),
               NewFile(kind, WithSuffix(path), key, FileAt(path).of, 0, whole))
  BY DEF NotCreated, With
<1>2. saved' = saved /\ job' = NoJob /\ ~override_key_check'
      /\ crypto_filename(path) \in DOMAIN entries
  BY DEF NotCreated, Same, Return, Found
<1>3. Shaped(NewFile(kind, WithSuffix(path), key, FileAt(path).of, 0, whole))
  BY NewFileShaped
<1>4. job' = [at |-> job'.at, kind |-> job'.kind, path |-> job'.path, key |-> job'.key]
  BY <1>2 DEF NoJob
<1>5. FileTypes' /\ NewestInv'
  BY <1>1, <1>2, <1>3, <1>4, NewFileCreated
<1>6. JobInv'
  BY <1>2 DEF JobInv, NoJob
<1> QED BY <1>5, <1>6 DEF DirectoryInv

LEMMA CreatedStep ==
  ASSUME DirectoryInv, NEW kind, NEW path \in Paths, NEW key, Same, Created(kind, path, key)
  PROVE  DirectoryInv'
<1> DEFINE o == crypto_filename(path)
           w == crypto_filename(WithSuffix(path))
           file == NewFile(kind, WithSuffix(path), key, FileAt(path).of, 0, TRUE)
<1>1. /\ entries' = Put(entries, WithSuffix(path), file)
      /\ saved' = saved
      /\ job' = [at |-> "copy", kind |-> kind, path |-> path, key |-> key]
      /\ o \in DOMAIN entries
  BY DEF Created, With, Same, Found
<1>2. Shaped(file) /\ file.whole /\ file.of = entries[o].of
  BY DEF NewFile, Shaped, FileAt
<1> HIDE DEF file
<1>3. job' = [at |-> job'.at, kind |-> job'.kind, path |-> job'.path, key |-> job'.key]
  BY <1>1
<1>4. FileTypes' /\ NewestInv'
  BY <1>1, <1>2, <1>3, NewFileCreated
<1>5. JobInv'
  <2>1. o # w
    BY PathsDiffer
  <2>2. PutAt(w, file)
    BY <1>1, PutFacts
  <2>3. entries'[o] = entries[o] /\ o \in DOMAIN entries' /\ w \in DOMAIN entries'
        /\ entries'[w] = file
    BY <1>1, <2>1, <2>2 DEF PutAt
  <2>4. job'.at = "copy" /\ job'.path = path
    BY <1>1
  <2> QED BY <1>2, <2>3, <2>4 DEF JobInv
<1> QED BY <1>4, <1>5 DEF DirectoryInv

\* While a re-encryption is under way: its two files.
LEMMA JobFiles ==
  ASSUME DirectoryInv, job.at \in {"copy", "rename"}
  PROVE  /\ job.path \in Paths
         /\ crypto_filename(job.path) # crypto_filename(NewPath)
         /\ crypto_filename(NewPath) \in DOMAIN entries
         /\ entries[crypto_filename(NewPath)].whole
BY PathsDiffer DEF DirectoryInv, JobInv, NewPath

\* Taking a file away from the entries.
WithoutAt(k) ==
  /\ DOMAIN entries' = DOMAIN entries \ {k}
  /\ \A other \in DOMAIN entries : other # k => entries'[other] = entries[other]

LEMMA WithoutFacts ==
  ASSUME NEW name, entries' = Without(name)
  PROVE  /\ entries' = [k \in DOMAIN entries' |-> entries'[k]]
         /\ WithoutAt(crypto_filename(name))
BY DEF Without, WithoutAt

LEMMA CopyChunkStep ==
  ASSUME DirectoryInv, CopyChunk
  PROVE  DirectoryInv'
<1> DEFINE o == crypto_filename(job.path)
           w == crypto_filename(NewPath)
<1>1. job.at = "copy" /\ saved' = saved /\ job' = job /\ o \in DOMAIN entries
  BY DEF CopyChunk, Copying, Same, DirectoryInv, JobInv
<1>2. o # w /\ w \in DOMAIN entries /\ entries[w].whole /\ job.path \in Paths
  BY <1>1, JobFiles
<1>3. entries' = [entries EXCEPT ![w].len = @ + 1]
  BY DEF CopyChunk
<1>4. Shaped(entries[w])
  BY <1>2 DEF DirectoryInv, FileTypes
<1>5. /\ DOMAIN entries' = DOMAIN entries
      /\ entries' = [k \in DOMAIN entries' |-> entries'[k]]
      /\ \A k \in DOMAIN entries : k # w => entries'[k] = entries[k]
      /\ entries'[w] = [entries[w] EXCEPT !.len = @ + 1]
  BY <1>2, <1>3
<1>6. Shaped(entries'[w]) /\ entries'[w].whole /\ entries'[w].of = entries[w].of
  BY <1>2, <1>4, <1>5 DEF Shaped
<1>7. FileTypes'
  <2>1. \A k \in DOMAIN entries' : Shaped(entries'[k])
    <3> SUFFICES ASSUME NEW k \in DOMAIN entries' PROVE Shaped(entries'[k])
      OBVIOUS
    <3>1. CASE k = w
      BY <1>6, <3>1
    <3>2. CASE k # w
      <4>1. Shaped(entries[k]) /\ entries'[k] = entries[k]
        BY <1>5, <3>2 DEF DirectoryInv, FileTypes
      <4> QED BY <4>1
    <3> QED BY <3>1, <3>2
  <2> QED BY <1>1, <1>5, <2>1 DEF DirectoryInv, FileTypes
<1>8. NewestInv'
  <2>1. \A k : k # w =>
           /\ k \in DOMAIN entries' <=> k \in DOMAIN entries
           /\ k \in DOMAIN entries => entries'[k] = entries[k]
    BY <1>5
  <2> QED BY <1>1, <1>2, <2>1, NewFileStep DEF NewPath
<1>9. JobInv'
  <2>1. entries[w].of = entries[o].of
    BY <1>1 DEF DirectoryInv, JobInv, NewPath
  <2>2. entries'[o] = entries[o] /\ o \in DOMAIN entries' /\ w \in DOMAIN entries'
    BY <1>1, <1>2, <1>5
  <2> QED BY <1>1, <1>2, <1>6, <2>1, <2>2 DEF JobInv, NewPath
<1> QED BY <1>7, <1>8, <1>9 DEF DirectoryInv

\* The types, after a file was taken away.
LEMMA WithoutTypes ==
  ASSUME DirectoryInv, saved' = saved, NEW name, entries' = Without(name),
         job' = [at |-> job'.at, kind |-> job'.kind, path |-> job'.path, key |-> job'.key]
  PROVE  FileTypes'
<1>1. \A k \in DOMAIN entries' : k \in DOMAIN entries /\ entries'[k] = entries[k]
  BY WithoutFacts DEF WithoutAt
<1>2. \A k \in DOMAIN entries' : Shaped(entries'[k])
  <2> SUFFICES ASSUME NEW k \in DOMAIN entries' PROVE Shaped(entries'[k])
    OBVIOUS
  <2>1. Shaped(entries[k]) /\ entries'[k] = entries[k]
    BY <1>1 DEF DirectoryInv, FileTypes
  <2> QED BY <2>1
<1> QED BY <1>2, WithoutFacts DEF DirectoryInv, FileTypes

LEMMA CopyFailsStep ==
  ASSUME DirectoryInv, CopyFails
  PROVE  DirectoryInv'
<1>1. /\ job.at = "copy" /\ saved' = saved /\ job' = NoJob /\ ~override_key_check'
      /\ entries' = Without(NewPath)
      /\ crypto_filename(job.path) \in DOMAIN entries
  BY DEF CopyFails, Copying, Same, Return, DirectoryInv, JobInv
<1>2. FileTypes'
  <2>1. job' = [at |-> job'.at, kind |-> job'.kind, path |-> job'.path, key |-> job'.key]
    BY <1>1 DEF NoJob
  <2> QED BY <1>1, <2>1, WithoutTypes
<1>3. NewestInv'
  <2>1. WithoutAt(crypto_filename(NewPath))
    BY <1>1, WithoutFacts
  <2>2. \A k : k # crypto_filename(NewPath) =>
           /\ k \in DOMAIN entries' <=> k \in DOMAIN entries
           /\ k \in DOMAIN entries => entries'[k] = entries[k]
    BY <2>1 DEF WithoutAt
  <2> QED BY <1>1, <2>2, JobFiles, NewFileStep DEF NewPath
<1> QED BY <1>1, <1>2, <1>3 DEF DirectoryInv, JobInv, NoJob

LEMMA RemoveOldStep ==
  ASSUME DirectoryInv, RemoveOld
  PROVE  DirectoryInv'
<1> DEFINE o == crypto_filename(job.path)
           w == crypto_filename(NewPath)
<1>1. /\ job.at = "copy" /\ saved' = saved /\ job' = [job EXCEPT !.at = "rename"]
      /\ entries' = Without(job.path) \/ entries' = entries
      /\ o \in DOMAIN entries /\ entries[w].len = entries[o].len
  BY DEF RemoveOld, Copying, Copied, Same, DirectoryInv, JobInv, FileAt, secure_getfilesize
<1>2. o # w /\ w \in DOMAIN entries /\ entries[w].whole /\ job.path \in Paths
  BY <1>1, JobFiles
<1>3. entries[w].of = entries[o].of
  BY <1>1 DEF DirectoryInv, JobInv, NewPath
<1>4. job'.at = "rename" /\ job'.path = job.path
      /\ job' = [at |-> job'.at, kind |-> job'.kind, path |-> job'.path, key |-> job'.key]
  BY <1>1 DEF DirectoryInv, FileTypes
<1>5. CASE entries' = entries
  <2>1. NewestInv'
    BY <1>1, <1>5, Frame
  <2>2. JobInv'
    BY <1>1, <1>2, <1>3, <1>4, <1>5 DEF JobInv, NewPath
  <2> QED BY <1>1, <1>4, <1>5, <2>1, <2>2 DEF DirectoryInv, FileTypes
<1>6. CASE entries' = Without(job.path)
  <2>1. WithoutAt(o)
    BY <1>6, WithoutFacts
  <2>2. FileTypes'
    BY <1>1, <1>4, <1>6, WithoutTypes
  <2>3. JobInv'
    BY <1>2, <1>4, <2>1 DEF WithoutAt, JobInv, NewPath
  <2>4. NewestInv'
    <3> SUFFICES ASSUME NEW b \in Base, saved[Name(b)] > 0, Newest(b)
                 PROVE  Newest(b)'
      BY <1>1 DEF DirectoryInv, NewestInv
    <3>1. PICK a \in Base : \/ o = Old(a) /\ w = New(a)
                            \/ o = New(a) /\ w = Newer(a)
      BY <1>2, PathKeys DEF NewPath
    <3>2. CASE a # b
      BY <1>1, <2>1, <3>1, <3>2, NamesDiffer DEF WithoutAt, Newest, Good
    <3>3. CASE a = b /\ o = Old(b) /\ w = New(b)
      <4>1. Good(o, b)
        BY <1>1, <3>3 DEF Newest
      <4>2. Good(w, b)
        BY <1>1, <1>2, <1>3, <4>1 DEF Good
      <4> QED BY <1>1, <1>2, <2>1, <3>3, <4>2 DEF WithoutAt, Newest, Good
    <3>4. CASE a = b /\ o = New(b) /\ w = Newer(b)
      <4>1. Old(b) # o
        BY <3>4, NamesDiffer
      <4>2. CASE Old(b) \in DOMAIN entries
        BY <1>1, <2>1, <4>1, <4>2 DEF WithoutAt, Newest, Good
      <4>3. CASE Old(b) \notin DOMAIN entries
        <5>1. Good(o, b)
          BY <1>1, <3>4, <4>3 DEF Newest
        <5>2. Good(w, b)
          BY <1>1, <1>2, <1>3, <5>1 DEF Good
        <5> QED BY <1>1, <1>2, <2>1, <3>4, <4>3, <5>2 DEF WithoutAt, Newest, Good
      <4> QED BY <4>2, <4>3
    <3> QED BY <3>1, <3>2, <3>3, <3>4
  <2> QED BY <2>2, <2>3, <2>4 DEF DirectoryInv
<1> QED BY <1>1, <1>5, <1>6

\* The new file takes the place of the old one, whether that is there or not.
LEMMA RenameFacts ==
  ASSUME DirectoryInv, job.at = "rename",
         entries' = Put(Without(NewPath), job.path, FileAt(NewPath))
  PROVE  LET o == crypto_filename(job.path)
             w == crypto_filename(NewPath)
         IN  /\ entries' = [k \in DOMAIN entries' |-> entries'[k]]
             /\ DOMAIN entries' = (DOMAIN entries \ {w}) \cup {o}
             /\ entries'[o] = entries[w]
             /\ \A k \in DOMAIN entries : k # o /\ k # w => entries'[k] = entries[k]
BY JobFiles DEF Put, Without, FileAt

LEMMA RenameNewStep ==
  ASSUME DirectoryInv, RenameNew
  PROVE  DirectoryInv'
<1> DEFINE o == crypto_filename(job.path)
           w == crypto_filename(NewPath)
<1>1. /\ job.at = "rename" /\ saved' = saved /\ job' = NoJob /\ ~override_key_check'
      /\ \/ entries' = Put(Without(NewPath), job.path, FileAt(NewPath))
         \/ entries' = entries
  BY DEF RenameNew, Same, Return
<1>2. o # w /\ w \in DOMAIN entries /\ entries[w].whole /\ job.path \in Paths
  BY <1>1, JobFiles
<1>3. JobInv'
  BY <1>1 DEF JobInv, NoJob
<1>4. job' = [at |-> job'.at, kind |-> job'.kind, path |-> job'.path, key |-> job'.key]
  BY <1>1 DEF NoJob
<1>5. CASE entries' = entries
  <2>1. NewestInv'
    BY <1>1, <1>5, Frame
  <2> QED BY <1>1, <1>3, <1>4, <1>5, <2>1 DEF DirectoryInv, FileTypes
<1>6. CASE entries' = Put(Without(NewPath), job.path, FileAt(NewPath))
  <2>1. /\ entries' = [k \in DOMAIN entries' |-> entries'[k]]
        /\ DOMAIN entries' = (DOMAIN entries \ {w}) \cup {o}
        /\ entries'[o] = entries[w]
        /\ \A k \in DOMAIN entries : k # o /\ k # w => entries'[k] = entries[k]
    BY <1>1, <1>6, RenameFacts
  <2>2. FileTypes'
    <3>1. \A k \in DOMAIN entries' : Shaped(entries'[k])
      <4> SUFFICES ASSUME NEW k \in DOMAIN entries' PROVE Shaped(entries'[k])
        OBVIOUS
      <4>1. CASE k = o
        <5>1. Shaped(entries[w]) /\ entries'[k] = entries[w]
          BY <1>2, <2>1, <4>1 DEF DirectoryInv, FileTypes
        <5> QED BY <5>1
      <4>2. CASE k # o
        <5>1. Shaped(entries[k]) /\ entries'[k] = entries[k]
          BY <2>1, <4>2 DEF DirectoryInv, FileTypes
        <5> QED BY <5>1
      <4> QED BY <4>1, <4>2
    <3> QED BY <1>1, <1>4, <2>1, <3>1 DEF DirectoryInv, FileTypes
  <2>3. NewestInv'
    <3> SUFFICES ASSUME NEW b \in Base, saved[Name(b)] > 0, Newest(b)
                 PROVE  Newest(b)'
      BY <1>1 DEF DirectoryInv, NewestInv
    <3>1. PICK a \in Base : \/ o = Old(a) /\ w = New(a)
                            \/ o = New(a) /\ w = Newer(a)
      BY <1>2, PathKeys DEF NewPath
    <3>2. CASE a # b
      <4>1. /\ Old(b) # o /\ Old(b) # w /\ New(b) # o /\ New(b) # w
            /\ Newer(b) # o /\ Newer(b) # w
        BY <3>1, <3>2, NamesDiffer
      <4> QED BY <1>1, <2>1, <4>1 DEF Newest, Good
    <3>3. o \in DOMAIN entries =>
            entries[w].of = entries[o].of /\ entries[w].len = entries[o].len
      BY <1>1 DEF DirectoryInv, JobInv, NewPath
    <3>4. CASE a = b /\ o = Old(b) /\ w = New(b)
      <4>1. Good(w, b)
        <5>1. CASE o \in DOMAIN entries
          <6>1. Good(o, b)
            BY <3>4, <5>1 DEF Newest
          <6> QED BY <1>2, <3>3, <5>1, <6>1 DEF Good
        <5>2. CASE o \notin DOMAIN entries
          BY <1>2, <3>4, <5>2 DEF Newest
        <5> QED BY <5>1, <5>2
      <4>2. Good(Old(b), b)'
        BY <1>1, <2>1, <3>4, <4>1 DEF Good
      <4>3. Old(b) \in DOMAIN entries'
        BY <2>1, <3>4
      <4> QED BY <3>4, <4>2, <4>3 DEF Newest, Good
    <3>5. CASE a = b /\ o = New(b) /\ w = Newer(b)
      <4>1. Old(b) # o /\ Old(b) # w
        BY <3>5, NamesDiffer
      <4>2. CASE Old(b) \in DOMAIN entries
        BY <1>1, <2>1, <4>1, <4>2 DEF Newest, Good
      <4>3. CASE Old(b) \notin DOMAIN entries
        <5>1. Good(w, b)
          <6>1. CASE o \in DOMAIN entries
            <7>1. Good(o, b)
              BY <3>5, <4>3, <6>1 DEF Newest
            <7> QED BY <1>2, <3>3, <6>1, <7>1 DEF Good
          <6>2. CASE o \notin DOMAIN entries
            BY <3>5, <4>3, <6>2 DEF Newest
          <6> QED BY <6>1, <6>2
        <5>2. Good(New(b), b)'
          BY <1>1, <2>1, <3>5, <5>1 DEF Good
        <5>3. New(b) \in DOMAIN entries' /\ Old(b) \notin DOMAIN entries'
          BY <2>1, <3>5, <4>1, <4>3
        <5> QED BY <3>5, <5>2, <5>3 DEF Newest, Good
      <4> QED BY <4>2, <4>3
    <3> QED BY <3>1, <3>2, <3>4, <3>5
  <2> QED BY <1>3, <2>2, <2>3 DEF DirectoryInv
<1> QED BY <1>1, <1>5, <1>6

\* A step that leaves the files alone, and goes on with the job or ends it.
LEMMA FilesStay ==
  ASSUME DirectoryInv, UNCHANGED <<entries, saved>>,
         \/ job' = NoJob /\ ~override_key_check'
         \/ job' = [NoJob EXCEPT !.at = "context", !.key = job'.key]
         \/ UNCHANGED <<job, override_key_check>>
  PROVE  DirectoryInv'
<1>1. FileTypes'
  BY DEF DirectoryInv, FileTypes, NoJob
<1>2. NewestInv'
  BY Frame
<1>3. JobInv'
  <2>1. CASE job' = NoJob /\ ~override_key_check'
    BY <2>1 DEF JobInv, NoJob
  <2>2. CASE job' = [NoJob EXCEPT !.at = "context", !.key = job'.key]
    <3>1. job'.at = "context"
      BY <2>2 DEF NoJob
    <3> QED BY <3>1 DEF JobInv
  <2>3. CASE UNCHANGED <<job, override_key_check>>
    BY <2>3 DEF DirectoryInv, JobInv
  <2> QED BY <2>1, <2>2, <2>3
<1> QED BY <1>1, <1>2, <1>3 DEF DirectoryInv

LEMMA ContextStep ==
  ASSUME DirectoryInv, NEW kind, NEW name, Context(kind, name)
  PROVE  DirectoryInv'
<1>1. job' = [NoJob EXCEPT !.at = "context", !.key = job'.key]
  BY DEF Context, NoJob
<1> QED BY <1>1, FilesStay DEF Context

LEMMA RecryptStep ==
  ASSUME DirectoryInv, NEW kind, NEW path \in Paths, NEW key, Recrypt(kind, path, key)
  PROVE  DirectoryInv'
<1>1. CASE Refused(kind, path)
  BY <1>1, FilesStay DEF Recrypt, Refused, Return, Same
<1>2. CASE NotCreated(kind, path, key)
  BY <1>2, NotCreatedStep DEF Recrypt
<1>3. CASE Created(kind, path, key)
  BY <1>3, CreatedStep DEF Recrypt
<1> QED BY <1>1, <1>2, <1>3 DEF Recrypt

LEMMA DirectoryInit == Init => DirectoryInv
<1> SUFFICES ASSUME Init PROVE DirectoryInv
  OBVIOUS
<1>1. entries = [k \in DOMAIN entries |-> entries[k]] /\ DOMAIN entries = {}
  BY DEF Init
<1>2. FileTypes
  BY <1>1 DEF Init, FileTypes, NoJob
<1>3. NewestInv
  BY DEF Init, NewestInv
<1>4. JobInv
  BY DEF Init, JobInv, NoJob
<1> QED BY <1>2, <1>3, <1>4 DEF DirectoryInv

LEMMA DirectoryNext == DirectoryInv /\ [Next]_vars => DirectoryInv'
<1> SUFFICES ASSUME DirectoryInv, [Next]_vars PROVE DirectoryInv'
  OBVIOUS
<1>1. CASE \E key \in Keys, base \in Base, kind \in Kinds : Save(kind, Name(base), key)
  BY <1>1, SaveStep
<1>2. CASE \E key \in Keys, name \in Folders : secure_mkdir(name, key)
  BY <1>2, FilesStay DEF secure_mkdir
<1>3. CASE \E key \in Keys, path \in Paths :
             secure_recrypt(path, key) \/ securedb_recrypt(path, key)
  BY <1>3, RecryptStep DEF secure_recrypt, securedb_recrypt
<1>4. CASE \E key \in Keys : ChangeKey(key)
  BY <1>4, FilesStay DEF ChangeKey
<1>5. CASE \E path \in Paths : get_secure_context(path) \/ securedb_get_secure_context(path)
  BY <1>5, ContextStep DEF get_secure_context, securedb_get_secure_context
<1>6. CASE ContextEnds \/ Stop
  BY <1>6, FilesStay DEF ContextEnds, Stop, Return
<1>7. CASE CopyChunk
  BY <1>7, CopyChunkStep
<1>8. CASE CopyFails
  BY <1>8, CopyFailsStep
<1>9. CASE secure_recrypt_end
  BY <1>9, FilesStay DEF secure_recrypt_end, Copying, Same, Return
<1>10. CASE RemoveOld
  BY <1>10, RemoveOldStep
<1>11. CASE RenameNew
  BY <1>11, RenameNewStep
<1>12. CASE UNCHANGED vars
  BY <1>12, FilesStay DEF vars
<1> QED BY <1>1, <1>2, <1>3, <1>4, <1>5, <1>6, <1>7, <1>8, <1>9, <1>10, <1>11, <1>12 DEF Next

LEMMA DirectoryAlways == Spec => []DirectoryInv
BY DirectoryInit, DirectoryNext, PTL DEF Spec

LEMMA NothingLostFromInv == DirectoryInv => NothingLost
<1> SUFFICES ASSUME DirectoryInv, NEW name \in DOMAIN saved, saved[name] > 0
             PROVE  \E stored \in DOMAIN entries :
                      /\ entries[stored].whole /\ entries[stored].of = <<name, saved[name]>>
                      /\ entries[stored].len = Chunks
  BY DEF NothingLost
<1>1. PICK a \in Base : name = Name(a)
  BY DEF DirectoryInv, FileTypes
<1>2. Newest(a)
  BY <1>1 DEF DirectoryInv, NewestInv
<1> QED BY <1>1, <1>2 DEF Newest, Good

\* Whatever fails and wherever the program ends, the content saved last under a
\* name is on the disk, for any number of files, keys, chunks and failures.
THEOREM NothingLostAlways == Spec => []NothingLost
BY DirectoryAlways, NothingLostFromInv, PTL

\* However a re-encryption ends, the next call checks the keys again.
THEOREM KeyRespectedAlways == Spec => []KeyRespected
<1>1. DirectoryInv => KeyRespected
  BY DEF DirectoryInv, JobInv, KeyRespected, Idle, Opens, secure_key_check, Allowed
<1> QED BY <1>1, DirectoryAlways, PTL

-----------------------------------------------------------------------------
(* The names in the headers.                                               *)

\* The name in the header of the file of a that is stored under k: a file that
\* was renamed over the new file of a re-encryption has a suffix in its header.
HeaderOf(k, a, name) ==
  \/ k = Old(a) /\ name = Name(a)
  \/ k = New(a) /\ name \in {Name(a), WithSuffix(Name(a))}
  \/ k = Newer(a) /\ name = WithSuffix(Name(a))

NamesInv == \A k \in DOMAIN entries : \E a \in Base : HeaderOf(k, a, entries[k].name)

\* The new file of the call under way has the name of the old one, which it may
\* get.
JobNamed == job.at \in {"copy", "rename"} => entries[crypto_filename(NewPath)].name = job.path

LEMMA HeaderNames ==
  ASSUME NEW a \in Base
  PROVE  /\ HeaderName(Name(a)) = Name(a)
         /\ HeaderName(WithSuffix(Name(a))) = Name(a)
         /\ HeaderName(WithSuffix(WithSuffix(Name(a)))) = WithSuffix(Name(a))
<1>1. HeaderName(Name(a)) = Name(a)
  BY DEF HeaderName, HasSuffix, Name
<1>2. ASSUME NEW s \in Seq({a, "reencryptedsefile"}), s # <<>>
      PROVE  HeaderName(WithSuffix(s)) = s
  BY <1>2, HeadTailAppend, SubSeqFull DEF HeaderName, HasSuffix, WithSuffix, Front
<1>3. /\ Name(a) \in Seq({a, "reencryptedsefile"}) /\ Name(a) # <<>>
      /\ WithSuffix(Name(a)) \in Seq({a, "reencryptedsefile"}) /\ WithSuffix(Name(a)) # <<>>
  BY DEF Name, WithSuffix
<1> QED BY <1>1, <1>2, <1>3

\* The new file of a path gets the name of the path.
LEMMA NewFileNamed ==
  ASSUME NEW path \in Paths
  PROVE  \E a \in Base : HeaderOf(crypto_filename(WithSuffix(path)), a, HeaderName(WithSuffix(path)))
BY HeaderNames DEF Paths, HeaderOf, Old, New, Newer

LEMMA PutNamed ==
  ASSUME NamesInv, NEW name, NEW file, entries' = Put(entries, name, file),
         \E a \in Base : HeaderOf(crypto_filename(name), a, file.name)
  PROVE  NamesInv'
<1>1. PutAt(crypto_filename(name), file)
  BY PutFacts
<1> SUFFICES ASSUME NEW k \in DOMAIN entries'
             PROVE  \E a \in Base : HeaderOf(k, a, entries'[k].name)
  BY DEF NamesInv, HeaderOf
<1>2. CASE k = crypto_filename(name)
  BY <1>1, <1>2 DEF PutAt
<1>3. CASE k # crypto_filename(name)
  BY <1>1, <1>3 DEF PutAt, NamesInv
<1> QED BY <1>2, <1>3

LEMMA WithoutNamed ==
  ASSUME NamesInv, NEW name, entries' = Without(name)
  PROVE  NamesInv'
<1> SUFFICES ASSUME NEW k \in DOMAIN entries'
             PROVE  \E a \in Base : HeaderOf(k, a, entries'[k].name)
  BY DEF NamesInv, HeaderOf
<1>1. k \in DOMAIN entries /\ entries'[k] = entries[k]
  BY WithoutFacts DEF WithoutAt
<1> QED BY <1>1 DEF NamesInv

\* The steps that change a file.
LEMMA RecryptNamed ==
  ASSUME NamesInv, NEW kind, NEW path \in Paths, NEW key, Recrypt(kind, path, key)
  PROVE  NamesInv'
<1>1. CASE Refused(kind, path)
  BY <1>1 DEF Refused, NamesInv, HeaderOf
<1>2. ASSUME NEW of, NEW whole,
             entries' = Put(entries, WithSuffix(path),
                            NewFile(kind, WithSuffix(path), key, of, 0, whole))
      PROVE  NamesInv'
  <2> DEFINE file == NewFile(kind, WithSuffix(path), key, of, 0, whole)
  <2>1. file.name = HeaderName(WithSuffix(path))
    BY DEF NewFile
  <2>2. entries' = Put(entries, WithSuffix(path), file)
    BY <1>2
  <2> HIDE DEF file
  <2> QED BY <2>1, <2>2, NewFileNamed, PutNamed
<1>3. CASE NotCreated(kind, path, key)
  BY <1>2, <1>3 DEF NotCreated, With
<1>4. CASE Created(kind, path, key)
  BY <1>2, <1>4 DEF Created, With
<1> QED BY <1>1, <1>3, <1>4 DEF Recrypt

LEMMA SaveNamed ==
  ASSUME NamesInv, NEW kind, NEW base \in Base, NEW key, Save(kind, Name(base), key)
  PROVE  NamesInv'
<1> DEFINE file == NewFile(kind, Name(base), key, <<Name(base), saved'[Name(base)]>>, Chunks, TRUE)
<1>1. entries' = Put(entries, Name(base), file)
  BY DEF Save, With
<1>2. file.name = Name(base)
  BY HeaderNames DEF NewFile
<1> HIDE DEF file
<1>3. HeaderOf(crypto_filename(Name(base)), base, file.name)
  BY <1>2 DEF HeaderOf, Old
<1> QED BY <1>1, <1>3, PutNamed

LEMMA CopyChunkNamed ==
  ASSUME DirectoryInv, NamesInv, CopyChunk
  PROVE  NamesInv'
<1> DEFINE w == crypto_filename(NewPath)
<1>1. w \in DOMAIN entries /\ entries' = [entries EXCEPT ![w].len = @ + 1]
  BY JobFiles DEF CopyChunk, Copying
<1>2. Shaped(entries[w])
  BY <1>1 DEF DirectoryInv, FileTypes
<1>3. /\ DOMAIN entries' = DOMAIN entries
      /\ \A k \in DOMAIN entries : k # w => entries'[k] = entries[k]
      /\ entries'[w] = [entries[w] EXCEPT !.len = @ + 1]
  BY <1>1
<1>4. \A k \in DOMAIN entries : entries'[k].name = entries[k].name
  BY <1>2, <1>3 DEF Shaped
<1> QED BY <1>3, <1>4 DEF NamesInv, HeaderOf

LEMMA RenameNamed ==
  ASSUME DirectoryInv, NamesInv, JobNamed, RenameNew
  PROVE  NamesInv'
<1> DEFINE o == crypto_filename(job.path)
           w == crypto_filename(NewPath)
<1>1. job.at = "rename" /\ job.path \in Paths /\ w \in DOMAIN entries
  BY JobFiles DEF RenameNew
<1>2. CASE entries' = entries
  BY <1>2 DEF NamesInv, HeaderOf
<1>3. CASE entries' = Put(Without(NewPath), job.path, FileAt(NewPath))
  <2>1. /\ DOMAIN entries' = (DOMAIN entries \ {w}) \cup {o}
        /\ entries'[o] = entries[w]
        /\ \A k \in DOMAIN entries : k # o /\ k # w => entries'[k] = entries[k]
    BY <1>1, <1>3, RenameFacts
  <2> SUFFICES ASSUME NEW k \in DOMAIN entries'
               PROVE  \E a \in Base : HeaderOf(k, a, entries'[k].name)
    BY DEF NamesInv, HeaderOf
  <2>2. CASE k # o
    BY <2>1, <2>2 DEF NamesInv
  <2>3. CASE k = o
    <3>1. entries'[k].name = job.path
      BY <1>1, <2>1, <2>3 DEF JobNamed
    <3> QED BY <1>1, <2>3, <3>1 DEF Paths, HeaderOf, Old, New
  <2> QED BY <2>2, <2>3
<1> QED BY <1>2, <1>3 DEF RenameNew

\* Where the file of the call under way gets its name, and keeps it.
LEMMA CreatedJobNamed ==
  ASSUME NEW kind, NEW path \in Paths, NEW key, Created(kind, path, key)
  PROVE  JobNamed'
<1> DEFINE file == NewFile(kind, WithSuffix(path), key, FileAt(path).of, 0, TRUE)
<1>1. /\ entries' = Put(entries, WithSuffix(path), file)
      /\ job' = [at |-> "copy", kind |-> kind, path |-> path, key |-> key]
  BY DEF Created, With
<1>2. file.name = HeaderName(WithSuffix(path))
  BY DEF NewFile
<1>3. HeaderName(WithSuffix(path)) = path
  BY HeaderNames DEF Paths
<1> HIDE DEF file
<1>4. PutAt(crypto_filename(WithSuffix(path)), file)
  BY <1>1, PutFacts
<1>5. job'.path = path
  BY <1>1
<1> QED BY <1>2, <1>3, <1>4, <1>5 DEF PutAt, JobNamed, NewPath

LEMMA CopyChunkJobNamed ==
  ASSUME DirectoryInv, JobNamed, CopyChunk
  PROVE  JobNamed'
<1> DEFINE w == crypto_filename(NewPath)
<1>1. w \in DOMAIN entries /\ entries' = [entries EXCEPT ![w].len = @ + 1] /\ job' = job
      /\ job.at = "copy"
  BY JobFiles DEF CopyChunk, Copying
<1>2. Shaped(entries[w])
  BY <1>1 DEF DirectoryInv, FileTypes
<1>3. entries'[w] = [entries[w] EXCEPT !.len = @ + 1]
  BY <1>1
<1>4. entries'[w].name = entries[w].name
  BY <1>2, <1>3 DEF Shaped
<1> QED BY <1>1, <1>4 DEF JobNamed, NewPath

LEMMA RemoveOldJobNamed ==
  ASSUME DirectoryInv, JobNamed, RemoveOld
  PROVE  JobNamed'
<1>1. /\ job.at = "copy" /\ job' = [job EXCEPT !.at = "rename"]
      /\ entries' = Without(job.path) \/ entries' = entries
  BY DEF RemoveOld, Copying
<1>2. /\ crypto_filename(job.path) # crypto_filename(NewPath)
      /\ crypto_filename(NewPath) \in DOMAIN entries
  BY <1>1, JobFiles
<1>3. entries'[crypto_filename(NewPath)] = entries[crypto_filename(NewPath)]
  <2>1. CASE entries' = Without(job.path)
    <3>1. WithoutAt(crypto_filename(job.path))
      BY <2>1, WithoutFacts
    <3> QED BY <1>2, <3>1 DEF WithoutAt
  <2> QED BY <1>1, <2>1
<1>4. job'.path = job.path
  BY <1>1 DEF DirectoryInv, FileTypes
<1> QED BY <1>1, <1>3, <1>4 DEF JobNamed, NewPath

ListInv == DirectoryInv /\ NamesInv /\ JobNamed

\* A step that leaves the files alone, and goes on with the job or ends it.
LEMMA NamesStay ==
  ASSUME NamesInv, JobNamed, UNCHANGED entries, job' = job \/ job'.at \in {"none", "context"}
  PROVE  NamesInv' /\ JobNamed'
BY DEF NamesInv, JobNamed, HeaderOf, NewPath

LEMMA ListNext == ListInv /\ [Next]_vars => ListInv'
<1> SUFFICES ASSUME ListInv, [Next]_vars PROVE NamesInv' /\ JobNamed'
  BY DirectoryNext DEF ListInv
<1> USE DEF ListInv
<1>0. NoJob.at = "none"
  BY DEF NoJob
<1>1. CASE \E key \in Keys, base \in Base, kind \in Kinds : Save(kind, Name(base), key)
  <2>1. job' = job /\ job.at = "none"
    BY <1>1 DEF Save, Idle
  <2> QED BY <1>1, <2>1, SaveNamed DEF JobNamed
<1>2. CASE \E key \in Keys, name \in Folders : secure_mkdir(name, key)
  BY <1>2, NamesStay DEF secure_mkdir
<1>3. ASSUME NEW key \in Keys, NEW path \in Paths, NEW kind, Recrypt(kind, path, key)
      PROVE  NamesInv' /\ JobNamed'
  <2>1. CASE Created(kind, path, key)
    BY <1>3, <2>1, RecryptNamed, CreatedJobNamed
  <2>2. CASE Refused(kind, path) \/ NotCreated(kind, path, key)
    BY <1>0, <1>3, <2>2, RecryptNamed DEF Refused, NotCreated, Return, JobNamed
  <2> QED BY <1>3, <2>1, <2>2 DEF Recrypt
<1>4. CASE \E key \in Keys : ChangeKey(key)
  BY <1>4, NamesStay DEF ChangeKey
<1>5. CASE \E path \in Paths : get_secure_context(path) \/ securedb_get_secure_context(path)
  <2>1. job'.at = "context" /\ UNCHANGED entries
    BY <1>5 DEF get_secure_context, securedb_get_secure_context, Context, NoJob
  <2> QED BY <2>1, NamesStay
<1>6. CASE ContextEnds \/ Stop \/ secure_recrypt_end
  BY <1>0, <1>6, NamesStay DEF ContextEnds, Stop, secure_recrypt_end, Return
<1>7. CASE CopyChunk
  BY <1>7, CopyChunkNamed, CopyChunkJobNamed
<1>8. CASE CopyFails
  BY <1>0, <1>8, WithoutNamed DEF CopyFails, Return, JobNamed
<1>9. CASE RemoveOld
  <2>1. NamesInv'
    BY <1>9, WithoutNamed DEF RemoveOld, NamesInv, HeaderOf
  <2> QED BY <1>9, <2>1, RemoveOldJobNamed
<1>10. CASE RenameNew
  BY <1>0, <1>10, RenameNamed DEF RenameNew, Return, JobNamed
<1>11. CASE UNCHANGED vars
  BY <1>11, NamesStay DEF vars
<1> QED BY <1>1, <1>2, <1>3, <1>4, <1>5, <1>6, <1>7, <1>8, <1>9, <1>10, <1>11
      DEF Next, secure_recrypt, securedb_recrypt

LEMMA ListAlways == Spec => []ListInv
<1>1. Init => ListInv
  BY DirectoryInit DEF ListInv, Init, NamesInv, JobNamed, NoJob
<1> QED BY <1>1, ListNext, PTL DEF Spec

\* The name that a file is listed under leads back to it.
LEMMA NameLeadsBack ==
  ASSUME ListInv, NEW k \in DOMAIN entries
  PROVE  /\ crypto_filename(decrypt_filename(k)) = k
         /\ valid_file_name(k) /\ ~valid_directory_name(k)
<1>1. PICK a \in Base : HeaderOf(k, a, entries[k].name)
  BY DEF ListInv, NamesInv
<1>2. /\ crypto_filename(Name(a)) = Old(a)
      /\ crypto_filename(WithSuffix(Name(a))) = New(a)
      /\ crypto_filename(WithSuffix(WithSuffix(Name(a)))) = Newer(a)
      /\ Old(a) # New(a) /\ Old(a) # Newer(a) /\ New(a) # Newer(a)
  BY NamesDiffer DEF Old, New, Newer
<1>3. crypto_filename(decrypt_filename(k)) = k
  BY <1>1, <1>2 DEF HeaderOf, decrypt_filename
<1>4. DOMAIN k = {"sha"}
  BY <1>3 DEF crypto_filename
<1> QED BY <1>3, <1>4 DEF valid_file_name, valid_directory_name

\* A listing shows every file, each that can be decrypted under the name that
\* opens it, for any number of files and directories.
THEOREM ListedByNameAlways == Spec => []ListedByName
<1>1. ASSUME ListInv PROVE ListedByName
  <2> SUFFICES ASSUME NEW kind \in Kinds, NEW result \in Ls(kind)
               PROVE  IF result.ok
                      THEN \A stored \in Present \cup PresentFolders : \E pair \in result.pairs :
                             /\ pair.stored = stored
                             /\ stored \in DOMAIN entries /\ Readable(entries[stored], kind)
                                  => crypto_filename(pair.shown) = stored
                      ELSE Unnamed # {}
    BY DEF ListedByName
  <2>1. Misnamed(kind) = {}
    BY <1>1, NameLeadsBack DEF Misnamed
  <2>2. CASE Unnamed # {}
    <3>1. ~result.ok
      BY <2>1, <2>2 DEF Ls
    <3> QED BY <2>2, <3>1
  <2>3. CASE Unnamed = {}
    <3>1. /\ result.ok
          /\ result.pairs = {FilePair(kind, stored) : stored \in Present}
                              \cup {DirPair(stored) : stored \in PresentFolders}
      BY <2>1, <2>3 DEF Ls
    <3>2. ASSUME NEW stored \in Present
          PROVE  /\ FilePair(kind, stored).stored = stored
                 /\ stored \in DOMAIN entries /\ Readable(entries[stored], kind)
                      => crypto_filename(FilePair(kind, stored).shown) = stored
      BY <1>1, NameLeadsBack DEF FilePair, Pair, AsStored
    <3>3. ASSUME NEW stored \in PresentFolders, stored \notin DOMAIN entries
          PROVE  DirPair(stored).stored = stored
      BY DEF DirPair, Pair, AsStored
    <3>4. \A stored \in DOMAIN entries : stored \in Present
      BY DEF Present
    <3> QED BY <3>1, <3>2, <3>3, <3>4
  <2> QED BY <2>2, <2>3
<1> QED BY <1>1, ListAlways, PTL
=============================================================================
