------------------------------ MODULE FlatFile ------------------------------
(***************************************************************************)
(* What SEfile promises its callers: a file of bytes with a position, as   *)
(* the comments on secure_read, secure_write, secure_seek and              *)
(* secure_truncate in sefile/SEfile.h describe it.  An operation that      *)
(* fails may have done the beginning of its work and may leave the handle  *)
(* unusable until the file is opened again.                                *)
(***************************************************************************)
EXTENDS Integers, Sequences, FiniteSetsExt

CONSTANTS
    Inputs,   \* the sequences of bytes that are written
    MaxSize   \* bound: the size of the file

VARIABLES
    content,  \* the bytes of the file
    position, \* of the next byte to be read or written
    usable,   \* FALSE after a failure that moved the pointer of the file
    IsOpen,
    answer    \* the result of the last operation and the bytes it read

vars == <<content, position, usable, IsOpen, answer>>

Returns(ok, data) == answer' = [ok |-> ok, data |-> data]

Zeros(n) == [i \in 1..n |-> 0]

(* The bytes s with those of d put over them from position p on.           *)
Overwrite(s, p, d) ==
    [i \in 1..Max({Len(s), p + Len(d)}) |->
        IF i \in (p + 1)..(p + Len(d)) THEN d[i - p] ELSE s[i]]

Init ==
    /\ content = <<>> /\ position = 0 /\ usable = TRUE
    /\ IsOpen = FALSE
    /\ answer = [ok |-> TRUE, data |-> <<>>]

Create ==
    /\ ~IsOpen
    /\ content' = <<>> /\ position' = 0 /\ usable' = TRUE
    /\ IsOpen' \in BOOLEAN
    /\ Returns(IsOpen', <<>>)

Open ==
    /\ ~IsOpen
    /\ position' = 0 /\ usable' = TRUE /\ IsOpen' = TRUE
    /\ Returns(TRUE, <<>>)
    /\ UNCHANGED content

Close ==
    /\ IsOpen /\ IsOpen' = FALSE
    /\ Returns(TRUE, <<>>)
    /\ UNCHANGED <<content, position, usable>>

(* An operation that fails before it has changed any byte.                 *)
Fail ==
    /\ IsOpen
    /\ usable' \in {usable, FALSE}
    /\ Returns(FALSE, <<>>)
    /\ UNCHANGED <<content, position, IsOpen>>

Write(d) ==
    /\ IsOpen /\ usable
    /\ content' = Overwrite(content, position, d)
    /\ position' = position + Len(d)
    /\ Returns(TRUE, <<>>)
    /\ UNCHANGED <<usable, IsOpen>>

(* The first k bytes of d have been written.                               *)
WriteFails(d, k) ==
    /\ IsOpen /\ usable
    /\ content' = Overwrite(content, position, SubSeq(d, 1, k))
    /\ usable' = FALSE
    /\ Returns(FALSE, <<>>)
    /\ UNCHANGED <<position, IsOpen>>

Read(n) ==
    /\ IsOpen /\ usable
    /\ LET end == Min({position + n, Len(content)})
           d == SubSeq(content, position + 1, end)
       IN position' = position + Len(d) /\ Returns(TRUE, d)
    /\ UNCHANGED <<content, usable, IsOpen>>

(* Seek to position n: a gap behind the end is filled with zeros.          *)
Seek(n) ==
    /\ IsOpen /\ usable
    /\ content' = content \o Zeros(n - Len(content))
    /\ position' = n
    /\ Returns(TRUE, <<>>)
    /\ UNCHANGED <<usable, IsOpen>>

(* k zeros of the gap have been written.                                   *)
FillFails(k) ==
    /\ IsOpen /\ usable
    /\ content' = content \o Zeros(k)
    /\ position' = Len(content)
    /\ usable' \in BOOLEAN
    /\ Returns(FALSE, <<>>)
    /\ UNCHANGED IsOpen

(* The new size is n.  A file that grows may report a failure all the      *)
(* same, a file that shrinks becomes usable again.                         *)
Grow(n) ==
    /\ IsOpen /\ usable /\ n > Len(content)
    /\ content' = content \o Zeros(n - Len(content))
    /\ position' = n
    /\ \E ok \in BOOLEAN : Returns(ok, <<>>)
    /\ UNCHANGED <<usable, IsOpen>>

Shrink(n) ==
    /\ IsOpen /\ n < Len(content)
    /\ content' = SubSeq(content, 1, n)
    /\ position' = n /\ usable' = TRUE
    /\ Returns(TRUE, <<>>)
    /\ UNCHANGED IsOpen

(* Of the n bytes to be kept, all but the first k may be lost.             *)
ShrinkFails(n, k) ==
    /\ IsOpen /\ n < Len(content)
    /\ content' \in {content, SubSeq(content, 1, k)}
    /\ position' = k /\ usable' \in BOOLEAN
    /\ Returns(FALSE, <<>>)
    /\ UNCHANGED IsOpen

Sizes == 0..MaxSize

Next ==
    \/ Create \/ Open \/ Close \/ Fail
    \/ \E d \in Inputs : Write(d) \/ \E k \in 0..Len(d) : WriteFails(d, k)
    \/ \E n \in Sizes :
        \/ Read(n) \/ Seek(n) \/ FillFails(n) \/ Grow(n) \/ Shrink(n)
        \/ \E k \in 0..n : ShrinkFails(n, k)

Spec == Init /\ [][Next]_vars
=============================================================================
