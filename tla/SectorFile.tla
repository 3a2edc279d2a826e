----------------------------- MODULE SectorFile -----------------------------
(***************************************************************************)
(* Class SEfile (sefile/SEfile.cpp): a file that is stored as a header     *)
(* sector and encrypted sectors of SEFILE_SECTOR_SIZE bytes, of which      *)
(* SEFILE_LOGIC_DATA are data and the rest is padding length and           *)
(* signature.  The pointer of the operating system counts the bytes of the *)
(* encrypted file, the caller those of its data.                           *)
(*                                                                         *)
(* A sector is the sequence of its valid bytes (its field len says how     *)
(* many).  Every operation may fail at any sector, when the SEcube does    *)
(* not encrypt or decrypt it or the disk does not take it; whatever has    *)
(* been written up to there stays, and so it does when the program dies.   *)
(***************************************************************************)
EXTENDS Integers, Sequences, SequencesExt

CONSTANTS
    LogicData,      \* SEFILE_LOGIC_DATA, 478 in the code
    SectorOverhead, \* SEFILE_SECTOR_OVERHEAD, 34 in the code
    Byte,           \* what a byte may be, 0 among it
    Junk,           \* a byte of the random padding of a sector
    Inputs,         \* the sequences of bytes that are written
    MaxSize,        \* bound: the size of the file
    Careful         \* TRUE: only calls that KeepsRest and FillsAtEnd allow

SectorSize == LogicData + SectorOverhead

ASSUME SectorAssumption ==
    /\ LogicData \in Nat \ {0} /\ SectorOverhead \in Nat \ {0}
    /\ 0 \in Byte /\ Junk \notin Byte /\ Inputs \subseteq Seq(Byte)
    /\ MaxSize \in Nat /\ Careful \in BOOLEAN

VARIABLES
    header,     \* TRUE if the file on disk has its header sector
    sectors,    \* the sectors behind it
    pointer,    \* the pointer the operating system keeps
    log_offset, \* the one SEfile keeps
    IsOpen,
    answer      \* of the last call: its name, its success, the bytes it read

disk == <<header, sectors>>
vars == <<header, sectors, pointer, log_offset, IsOpen, answer>>

Whences == {"begin", "current", "end"}
Sizes == 0..MaxSize

CeilDiv(a, b) == (a + b - 1) \div b

(* Logical positions and those in the encrypted file.                      *)
Logical(p) == (p % SectorSize) + (p \div SectorSize - 1) * LogicData
Physical(n) == (n \div LogicData + 1) * SectorSize + (n % LogicData)

(* get_filesize: all sectors but the last are taken to be full.            *)
FileSize ==
    IF sectors = <<>> THEN 0
    ELSE (Len(sectors) - 1) * LogicData + Len(Last(sectors))

Usable == pointer = log_offset

Returns(op, ok, data) == answer' = [op |-> op, ok |-> ok, data |-> data]

PointTo(p) == pointer' = p /\ log_offset' = p

(* A failure that leaves the two pointers p and log_offset.                *)
FailAt(op, p) ==
    /\ pointer' = p
    /\ Returns(op, FALSE, <<>>)

FailEarly(op) ==
    /\ FailAt(op, pointer)
    /\ UNCHANGED <<disk, log_offset, IsOpen>>

-----------------------------------------------------------------------------
(* The loop of secure_write from pointer p on, for the sectors s.          *)

Zeros(n) == [i \in 1..n |-> 0]

(* The sector old with chunk at offset in: the bytes between its end and   *)
(* the offset are the random padding.                                      *)
Patch(old, in, chunk) ==
    [i \in 1..Max({Len(old), in + Len(chunk)}) |->
        CASE i \in (in + 1)..(in + Len(chunk)) -> chunk[i - in]
          [] i <= in /\ i > Len(old)           -> Junk
          [] OTHER                             -> old[i]]

FirstSector(p) == p \div SectorSize
LastSector(p, d) ==
    FirstSector(p) + ((p % SectorSize) + Len(d) - 1) \div LogicData

(* The part of d that goes to sector i.                                    *)
Chunk(p, d, i) ==
    LET from == (i - FirstSector(p)) * LogicData - (p % SectorSize)
    IN SubSeq(d, Max({1, from + 1}), Min({Len(d), from + LogicData}))

(* The first sector is read before it is changed, the others are not:      *)
(* decryptBuff->len is 0 for them.                                         *)
WrittenSector(s, p, d, i) ==
    LET old == IF i = FirstSector(p) /\ i \in DOMAIN s THEN s[i] ELSE <<>>
        in == IF i = FirstSector(p) THEN p % SectorSize ELSE 0
    IN Patch(old, in, Chunk(p, d, i))

(* The sectors once those up to i have been written.                       *)
WrittenUpTo(s, p, d, i) ==
    [k \in 1..Max({Len(s), i}) |->
        IF k \in FirstSector(p)..i THEN WrittenSector(s, p, d, k) ELSE s[k]]

(* secure_write with the sectors s, both pointers at p and the bytes d, on *)
(* behalf of the operation op, which answers ok when all has been written. *)
WriteFrom(s, p, d, op, ok) ==
    /\ UNCHANGED <<header, IsOpen>>
    /\ \/ /\ sectors' = WrittenUpTo(s, p, d, LastSector(p, d))
          /\ PointTo(Physical(Logical(p) + Len(d)))
          /\ Returns(op, ok, <<>>)
       \/ /\ d # <<>>                     \* the key may not be used, or the
          /\ sectors' = s                 \* first sector cannot be decrypted
          /\ \E q \in {p} \cup {(i + 1) * SectorSize :
                                i \in {FirstSector(p)} \cap DOMAIN s} :
                FailAt(op, q)
          /\ log_offset' = p
       \/ /\ d # <<>>
          /\ \E i \in FirstSector(p)..LastSector(p, d) :
                /\ sectors' = WrittenUpTo(s, p, d, i - 1)
                /\ FailAt(op, i * SectorSize)
          /\ log_offset' = p

(* A write that keeps what is behind it: it stays in one sector, ends with *)
(* a sector, or reaches the end of the file.  Any other one loses the rest *)
(* of the last sector it enters.                                           *)
KeepsRest(p, d) ==
    \/ FirstSector(p) = LastSector(p, d)
    \/ ((p % SectorSize) + Len(d)) % LogicData = 0
    \/ Logical(p) + Len(d) >= FileSize

SecureWrite(d) ==
    /\ IsOpen /\ Logical(log_offset) + Len(d) <= MaxSize
    /\ Careful => KeepsRest(log_offset, d)
    /\ \/ Usable /\ d # <<>> /\ WriteFrom(sectors, pointer, d, "write", TRUE)
       \/ FailEarly("write")

-----------------------------------------------------------------------------
(* The loop of secure_read.                                                *)

(* One sector: in is sectOffset, left is dataOut_len.  A sector that is    *)
(* shorter than sectOffset makes the length of memcpy negative.            *)
ReadSector(r, sector) ==
    LET length == Min({r.left, LogicData - r.in, Len(sector) - r.in})
    IN IF r.left = 0 \/ r.dies THEN r
       ELSE IF length < 0 THEN [r EXCEPT !.dies = TRUE]
       ELSE [r EXCEPT !.in = (@ + length) % LogicData, !.left = @ - length,
                      !.read = @ + 1,
                      !.out = @ \o SubSeq(sector, r.in + 1, r.in + length)]

(* The whole loop, for n bytes from pointer p on.                          *)
ReadLoop(p, n) ==
    FoldLeft(ReadSector,
             [in |-> p % SectorSize, left |-> n, read |-> 0, out |-> <<>>,
              dies |-> FALSE],
             SubSeq(sectors, FirstSector(p), Len(sectors)))

(* Mutant: the pointer is not moved back into the last sector.             *)
AfterReadSectors(p, r) == (FirstSector(p) + r.read) * SectorSize

(* The pointer behind a loop that began at p.                              *)
AfterRead(p, r) ==
    LET next == (FirstSector(p) + r.read) * SectorSize
    IN IF r.in = 0 THEN next ELSE next - SectorSize + r.in

(* Some sector that is read cannot be decrypted.                           *)
ReadFailures(p, r) == {(FirstSector(p) + i) * SectorSize : i \in 1..r.read}

(* A read whose memcpy dies ends the program: this is SecureClose.         *)
SecureRead(n) ==
    LET r == ReadLoop(pointer, n) IN
    /\ IsOpen
    /\ UNCHANGED <<disk, IsOpen>>
    /\ \/ /\ Usable /\ n > 0 /\ ~r.dies
          /\ PointTo(AfterRead(pointer, r))
          /\ Returns("read", TRUE, r.out)
       \/ /\ Usable /\ n > 0
          /\ \E p \in ReadFailures(pointer, r) : FailAt("read", p)
          /\ UNCHANGED log_offset
       \/ FailEarly("read")

-----------------------------------------------------------------------------
(* secure_seek.                                                            *)

(* The destination in the encrypted file: abs and in are where the offset  *)
(* counts from, and each sector that is crossed adds its overhead.         *)
Dest(offset, whence) ==
    LET abs == CASE whence = "begin"   -> SectorSize
                 [] whence = "current" -> pointer
                 [] whence = "end"     -> Physical(FileSize)
        in == (abs % SectorSize) + offset
        crossed == IF offset >= 0 THEN in \div LogicData
                   ELSE IF in >= 0 THEN 0 ELSE - CeilDiv(- in, LogicData)
    IN abs + offset + crossed * SectorOverhead

(* Where the zeros are written: at the end of the file if its last sector  *)
(* has space, else at the pointer, which is not moved.                     *)
FillFrom == IF FileSize % LogicData # 0 THEN Physical(FileSize) ELSE pointer

FillsAtEnd == FillFrom = Physical(FileSize)

SeekInside(dest) ==
    /\ dest >= SectorSize /\ Logical(dest) <= FileSize
    /\ PointTo(dest)
    /\ Returns("seek", TRUE, <<>>)
    /\ UNCHANGED <<disk, IsOpen>>

SeekBehind(dest, op, ok) ==
    /\ Usable /\ Logical(dest) > FileSize
    /\ Careful => FillsAtEnd
    /\ WriteFrom(sectors, FillFrom, Zeros(Logical(dest) - FileSize), op, ok)

SecureSeek(offset, whence) ==
    LET dest == Dest(offset, whence) IN
    /\ IsOpen
    /\ \/ Usable /\ SeekInside(dest)
       \/ Logical(dest) <= MaxSize /\ SeekBehind(dest, "seek", TRUE)
       \/ FailEarly("seek")

-----------------------------------------------------------------------------
(* secure_truncate.                                                        *)

(* A file grows by a seek behind its end.  The answer compares the new     *)
(* position with the sum of the two sizes.                                 *)
Grow(n) ==
    LET dest == Dest(n - FileSize, "end") IN
    /\ n > FileSize
    /\ SeekBehind(dest, "truncate", Logical(dest) = n + FileSize)

(* The bytes of the last sector are read, the file is cut before that      *)
(* sector, and the bytes are written back.  (To the size it has a file is  *)
(* truncated by doing nothing.)                                            *)
Shrink(n) ==
    LET start == Physical(n) - (n % LogicData)
        r == ReadLoop(start, n % LogicData)
        kept == r.out \o Zeros((n % LogicData) - Len(r.out))
    IN
    /\ n < FileSize
    /\ \/ /\ ~r.dies
          /\ WriteFrom(SubSeq(sectors, 1, n \div LogicData), start, kept,
                       "truncate", TRUE)
       \/ /\ \E p \in {start} \cup ReadFailures(start, r) :
                FailAt("truncate", p)
          /\ log_offset' = start
          /\ UNCHANGED <<disk, IsOpen>>

SecureTruncate(n) ==
    /\ IsOpen
    /\ \/ Grow(n) \/ Shrink(n)
       \/ FailEarly("truncate")

-----------------------------------------------------------------------------
(* secure_open, secure_create, secure_close.                               *)

SecureOpen ==
    /\ ~IsOpen /\ header
    /\ IsOpen' = TRUE /\ PointTo(SectorSize)
    /\ Returns("open", TRUE, <<>>)
    /\ UNCHANGED disk

(* The file is emptied before its header is encrypted and written.         *)
SecureCreate ==
    /\ ~IsOpen
    /\ sectors' = <<>> /\ header' \in BOOLEAN
    /\ IsOpen' = header' /\ PointTo(SectorSize)
    /\ Returns("open", header', <<>>)

(* secure_close, or the end of the program.                                *)
SecureClose ==
    /\ IsOpen /\ IsOpen' = FALSE
    /\ Returns("close", TRUE, <<>>)
    /\ UNCHANGED <<disk, pointer, log_offset>>

Init ==
    /\ header = FALSE /\ sectors = <<>>
    /\ pointer = SectorSize /\ log_offset = SectorSize
    /\ IsOpen = FALSE
    /\ answer = [op |-> "close", ok |-> TRUE, data |-> <<>>]

Next ==
    \/ SecureOpen \/ SecureCreate \/ SecureClose
    \/ \E d \in Inputs : SecureWrite(d)
    \/ \E n \in Sizes : SecureRead(n) \/ SecureTruncate(n)
    \/ \E offset \in -MaxSize..MaxSize, whence \in Whences :
        SecureSeek(offset, whence)

Spec == Init /\ [][Next]_vars

-----------------------------------------------------------------------------
(* Properties.                                                             *)

Content == FlattenSeq(sectors)

Flat == INSTANCE FlatFile WITH
    content <- Content, position <- Logical(log_offset), usable <- Usable,
    answer <- [ok |-> answer.ok, data |-> answer.data]

(* SEfile is a flat file: what is read is what was written there last,     *)
(* zeros fill every gap, and an operation that fails has done a beginning  *)
(* of its work and nothing else.                                           *)
ImplementsFlatFile == Flat!Spec

(* secure_seek changes no byte the file has: "empty sectors are inserted   *)
(* at the end of the file to keep the file consistency" (SEfile.cpp:761).  *)
SeekKeepsData ==
    [][answer'.op = "seek" => IsPrefix(Content, Content')]_vars
=============================================================================
