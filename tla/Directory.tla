----------------------------- MODULE Directory -----------------------------
(***************************************************************************)
(* The functions of SEfile.cpp and SEcureDB.cpp that work on a directory   *)
(* of encrypted files: the names of files and directories, the listing,    *)
(* and the re-encryption of a file with another key, which copies it to a  *)
(* second file and, for a database, puts that in the place of the first.   *)
(*                                                                         *)
(* A file is stored under the digest of its name; its name is in its       *)
(* header.  The name of a directory is stored encrypted, with its key in   *)
(* front.  The contents of files are those of SectorFile; here a content   *)
(* is known by the name and the number of the save it comes from, and is   *)
(* counted in the chunks that a re-encryption copies.                      *)
(***************************************************************************)
EXTENDS Naturals, Sequences, SequencesExt, TLC

CONSTANTS
    Base,       \* the names of files before any re-encryption
    Folders,    \* the names of directories
    Others,     \* the names of files of other programs
    OtherFolders, \* and of their directories
    Keys,       \* the keys on the SEcube
    NoKey,
    Chunks,     \* the chunks of 1024 bytes of a content
    MaxSaves,   \* bound: how often a content is saved under one name
    MaxFaults,  \* bound: the calls that fail
    MaxStops    \* bound: the ends of the program

ASSUME DirectoryAssumption ==
    /\ NoKey \notin Keys /\ Chunks \in Nat \ {0} /\ MaxSaves \in Nat
    /\ MaxFaults \in Nat /\ MaxStops \in Nat

\* SEfile.cpp has sectors of 512 bytes, SEcureDB.cpp of 4096.
Kinds == {"SEfile", "SEcureDB"}

\* A name is a base and the suffixes ".reencryptedsefile" behind it.
Name(base) == <<base>>
WithSuffix(name) == Append(name, "reencryptedsefile")
HasSuffix(name) == Len(name) > 1

VARIABLES
    entries,    \* the files on the disk, by what they are stored under
    folders,    \* what the directories are stored under
    keys,       \* the status of each key
    override_key_check,
    job,        \* the call that is under way
    saved,      \* history: how often a content was saved under each name
    faults, stops

vars == <<entries, folders, keys, override_key_check, job, saved, faults, stops>>

Statuses == <<"active", "deactivated", "compromised", "destroyed">>

NoJob == [at |-> "none", kind |-> "SEfile", path |-> <<>>, key |-> NoKey]

-----------------------------------------------------------------------------
(* Names.                                                                  *)

\* The digest of a name: no two names have the same.
crypto_filename(name) == [sha |-> name]

\* The name in the header of a new file: the suffix of a re-encryption is
\* taken off.
HeaderName(name) == IF HasSuffix(name) THEN Front(name) ELSE name

\* A header can be decrypted by the functions of its kind, with its key, if it
\* was written.
Readable(file, kind) ==
    file.whole /\ file.kind = kind /\ keys[file.key] # "destroyed"

\* Mutant: the suffix of a re-encryption that was cut short is not looked for.
HeaderNameOnly(stored) == entries[stored].name

\* The name of a file: that in its header, with the suffix if it is stored
\* under that.
decrypt_filename(stored) ==
    LET name == entries[stored].name IN
    IF crypto_filename(WithSuffix(name)) = stored THEN WithSuffix(name) ELSE name

crypt_dirname(name, key) == [dir |-> name, key |-> key]
decrypt_dirname(stored) == stored.dir
encrypt_name(stored) == keys[stored.key] # "destroyed"

-----------------------------------------------------------------------------
(* The listing of a directory.                                             *)

\* Another program stores things under names that are no digest, and no key and
\* name in hexadecimal digits.
Plain(name) == [plain |-> name]
valid_file_name(stored) == DOMAIN stored = {"sha"}
valid_directory_name(stored) == DOMAIN stored = {"dir", "key"}
Present == DOMAIN entries \cup {Plain(name) : name \in Others}
PresentFolders == folders \cup {Plain(name) : name \in OtherFolders}

Pair(stored, shown) == [stored |-> stored, shown |-> shown]
AsStored(stored) == Pair(stored, <<>>)

\* A file that is not of this kind, or that cannot be decrypted, is listed
\* under the name it is stored under, here without a name.
FilePair(kind, stored) ==
    IF valid_file_name(stored) /\ Readable(entries[stored], kind)
    THEN Pair(stored, decrypt_filename(stored))
    ELSE AsStored(stored)

DirPair(stored) ==
    IF valid_directory_name(stored) THEN Pair(stored, decrypt_dirname(stored))
    ELSE AsStored(stored)

\* A name that does not lead back to its file ends the listing, and so does a
\* directory whose name cannot be decrypted.
Misnamed(kind) ==
    {stored \in DOMAIN entries :
        /\ Readable(entries[stored], kind)
        /\ crypto_filename(decrypt_filename(stored)) # stored}
Unnamed == {stored \in folders : ~encrypt_name(stored)}

\* The results there are: the system hands out the entries in any order, and
\* the one that ends the listing is its last.
Ls(kind) ==
    LET files == {FilePair(kind, stored) : stored \in Present \ Misnamed(kind)}
        dirs == {DirPair(stored) : stored \in PresentFolders \ Unnamed}
        ends == Misnamed(kind) \cup Unnamed
    IN IF ends = {} THEN {[ok |-> TRUE, pairs |-> files \cup dirs]}
       ELSE {[ok |-> FALSE, pairs |-> before \cup {AsStored(last)}] :
                before \in SUBSET (files \cup dirs), last \in ends}

secure_ls == Ls("SEfile")
securedb_ls == Ls("SEcureDB")

-----------------------------------------------------------------------------
(* Files and directories.                                                  *)

Found(name) == crypto_filename(name) \in DOMAIN entries
FileAt(name) == entries[crypto_filename(name)]

Allowed(direction) ==
    IF direction = "encrypt" THEN {"active"} ELSE {"active", "deactivated"}

secure_key_check(key, direction) ==
    override_key_check \/ keys[key] \in Allowed(direction)

\* The length in the file, by a second object.
secure_getfilesize(name) == FileAt(name).len

\* secure_open and securedb_secure_open read the header and check its key.
Opens(kind, name) ==
    /\ Found(name) /\ Readable(FileAt(name), kind)
    /\ secure_key_check(FileAt(name).key, "decrypt")

NewFile(kind, name, key, of, len, whole) ==
    [kind |-> kind, name |-> HeaderName(name), key |-> key, of |-> of,
     len |-> len, whole |-> whole]

Put(E, name, file) ==
    [stored \in DOMAIN E \cup {crypto_filename(name)} |->
        IF stored = crypto_filename(name) THEN file ELSE E[stored]]
With(name, file) == Put(entries, name, file)
Without(name) == [stored \in DOMAIN entries \ {crypto_filename(name)} |-> entries[stored]]

Idle == job.at = "none"

\* A program saves a file where it finds none.
Save(kind, name, key) ==
    /\ Idle /\ saved[name] < MaxSaves /\ ~Found(name)
    /\ secure_key_check(key, "encrypt")
    /\ saved' = [saved EXCEPT ![name] = @ + 1]
    /\ entries' = With(name, NewFile(kind, name, key, <<name, saved'[name]>>, Chunks, TRUE))
    /\ UNCHANGED <<folders, keys, override_key_check, job, faults, stops>>

secure_mkdir(name, key) ==
    /\ Idle /\ secure_key_check(key, "encrypt")
    /\ folders' = folders \cup {crypt_dirname(name, key)}
    /\ UNCHANGED <<entries, keys, override_key_check, job, saved, faults, stops>>

\* The administrator deactivates a key, or the keys expire, and more.
ChangeKey(key) ==
    /\ \E old, new \in DOMAIN Statuses :
        /\ Statuses[old] = keys[key] /\ old < new
        /\ keys' = [keys EXCEPT ![key] = Statuses[new]]
    /\ UNCHANGED <<entries, folders, override_key_check, job, saved, faults, stops>>

-----------------------------------------------------------------------------
(* The key of a file.                                                      *)

\* The file is opened, whatever the status of its key.
Context(kind, name) ==
    /\ Idle
    /\ override_key_check' = TRUE
    /\ job' = [NoJob EXCEPT !.at = "context",
                  !.key = IF Found(name) /\ Readable(FileAt(name), kind)
                          THEN FileAt(name).key ELSE NoKey]
    /\ UNCHANGED <<entries, folders, keys, saved, faults, stops>>

get_secure_context(name) == Context("SEfile", name)
securedb_get_secure_context(name) == Context("SEcureDB", name)

\* With the key, or without; the override ends as well when the SEcube throws.
ContextEnds ==
    /\ job.at = "context"
    /\ job' = NoJob /\ override_key_check' = FALSE
    /\ UNCHANGED <<entries, folders, keys, saved, faults, stops>>

-----------------------------------------------------------------------------
(* secure_recrypt and securedb_recrypt.                                    *)

NewPath == WithSuffix(job.path)
Same == UNCHANGED <<folders, keys, saved, stops>>
Fault == faults < MaxFaults /\ faults' = faults + 1

\* Every return resets override_key_check.
Return == job' = NoJob /\ override_key_check' = FALSE

\* The old file cannot be opened or measured.
Refused(kind, path) ==
    /\ Return
    /\ \/ ~(Found(path) /\ Readable(FileAt(path), kind)) /\ UNCHANGED faults
       \/ Fault
    /\ UNCHANGED entries

\* The new file is created over what has its name.  If that fails, or the seek
\* in the old file, it stays, with or without its header.
NotCreated(kind, path, key) ==
    /\ Found(path) /\ Readable(FileAt(path), kind)
    /\ Return
    /\ \E whole \in BOOLEAN :
        /\ entries' = With(WithSuffix(path),
               NewFile(kind, WithSuffix(path), key, FileAt(path).of, 0, whole))
        /\ \/ keys[key] = "destroyed" /\ ~whole /\ UNCHANGED faults
           \/ keys[key] # "destroyed" /\ Fault

Created(kind, path, key) ==
    /\ Found(path) /\ Readable(FileAt(path), kind) /\ keys[key] # "destroyed"
    /\ override_key_check' = TRUE
    /\ entries' = With(WithSuffix(path),
           NewFile(kind, WithSuffix(path), key, FileAt(path).of, 0, TRUE))
    /\ job' = [at |-> "copy", kind |-> kind, path |-> path, key |-> key]
    /\ UNCHANGED faults

Recrypt(kind, path, key) ==
    /\ Idle
    /\ \/ Refused(kind, path) \/ NotCreated(kind, path, key) \/ Created(kind, path, key)
    /\ Same

secure_recrypt(path, key) == Recrypt("SEfile", path, key)
securedb_recrypt(path, key) == Recrypt("SEcureDB", path, key)

Copying == job.at = "copy" /\ Same
Copied == FileAt(NewPath).len = secure_getfilesize(job.path)
KeysThere == keys[FileAt(job.path).key] # "destroyed" /\ keys[job.key] # "destroyed"

CopyChunk ==
    /\ Copying /\ ~Copied /\ KeysThere
    /\ entries' = [entries EXCEPT ![crypto_filename(NewPath)].len = @ + 1]
    /\ UNCHANGED <<override_key_check, job, faults>>

\* Mutant of CopyFails: override_key_check stays set.
CopyFailsUnchecked ==
    /\ Copying /\ ~Copied
    /\ entries' = Without(NewPath)
    /\ job' = NoJob /\ UNCHANGED override_key_check
    /\ \/ KeysThere /\ Fault
       \/ ~KeysThere /\ UNCHANGED faults

\* A read, a write or the SEcube fails: the new file is removed.
CopyFails ==
    /\ Copying /\ ~Copied
    /\ entries' = Without(NewPath)
    /\ Return
    /\ \/ KeysThere /\ Fault
       \/ ~KeysThere /\ UNCHANGED faults

\* The end of secure_recrypt, which leaves both files.
secure_recrypt_end ==
    /\ Copying /\ Copied /\ job.kind = "SEfile"
    /\ Return
    /\ UNCHANGED <<entries, faults>>

\* Mutant of RemoveOld: the old file is removed before all has been copied.
RemoveOldEarly ==
    /\ Copying /\ job.kind = "SEcureDB"
    /\ override_key_check' = FALSE
    /\ job' = [job EXCEPT !.at = "rename"]
    /\ entries' = Without(job.path) /\ UNCHANGED faults

\* Its result is not looked at.
RemoveOld ==
    /\ Copying /\ Copied /\ job.kind = "SEcureDB"
    /\ override_key_check' = FALSE
    /\ job' = [job EXCEPT !.at = "rename"]
    /\ \/ entries' = Without(job.path) /\ UNCHANGED faults
       \/ UNCHANGED entries /\ Fault

RenameNew ==
    /\ job.at = "rename" /\ Same
    /\ Return
    /\ \/ /\ entries' = Put(Without(NewPath), job.path, FileAt(NewPath))
          /\ UNCHANGED faults
       \/ UNCHANGED entries /\ Fault

\* The program ends.
Stop ==
    /\ ~Idle /\ stops < MaxStops
    /\ stops' = stops + 1
    /\ Return
    /\ UNCHANGED <<entries, folders, keys, saved, faults>>

Init ==
    /\ entries = <<>> /\ folders = {}
    /\ keys = [key \in Keys |-> "active"]
    /\ override_key_check = FALSE /\ job = NoJob
    /\ saved = [name \in {Name(base) : base \in Base} |-> 0] /\ faults = 0 /\ stops = 0

\* The files that may be re-encrypted, the one that an earlier re-encryption
\* has left among them.
Paths == {Name(base) : base \in Base} \cup {WithSuffix(Name(base)) : base \in Base}

Next ==
    \/ \E key \in Keys :
        \/ \E base \in Base, kind \in Kinds : Save(kind, Name(base), key)
        \/ \E name \in Folders : secure_mkdir(name, key)
        \/ \E path \in Paths : secure_recrypt(path, key) \/ securedb_recrypt(path, key)
        \/ ChangeKey(key)
    \/ \E path \in Paths : get_secure_context(path) \/ securedb_get_secure_context(path)
    \/ ContextEnds
    \/ CopyChunk \/ CopyFails \/ secure_recrypt_end \/ RemoveOld \/ RenameNew \/ Stop

Spec == Init /\ [][Next]_vars

\* For TLC: no key is different from another.
Symmetry == Permutations(Keys)

-----------------------------------------------------------------------------
(* Properties.                                                             *)

\* Whatever fails and wherever the program ends, the content that was saved
\* last under a name is on the disk as a whole, in a file with a header.
NothingLost ==
    \A name \in DOMAIN saved : saved[name] > 0 =>
        \E stored \in DOMAIN entries :
            LET file == entries[stored] IN
            file.whole /\ file.of = <<name, saved[name]>> /\ file.len = Chunks

\* A listing shows every file, and each that can be decrypted under the name
\* that opens it, the new file of a re-encryption that was cut short among them;
\* it ends early only for a directory whose name cannot be decrypted.
ListedByName ==
    \A kind \in Kinds : \A result \in Ls(kind) :
        IF result.ok
        THEN \A stored \in Present \cup PresentFolders : \E pair \in result.pairs :
                /\ pair.stored = stored
                /\ stored \in DOMAIN entries /\ Readable(entries[stored], kind)
                     => crypto_filename(pair.shown) = stored
        ELSE Unnamed # {}

\* However a re-encryption ends, the next call checks the keys again: no file
\* with a compromised key can be opened, as override_key_check "is used only to
\* re-encrypt data belonging to a compromised file" (SEfile.h:39).
KeyRespected ==
    Idle => \A kind \in Kinds, name \in Paths :
                Opens(kind, name) => keys[FileAt(name).key] # "compromised"
=============================================================================
