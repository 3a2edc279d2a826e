------------------------------- MODULE Blocks -------------------------------
(***************************************************************************)
(* The blocks of the SEcube's file in which a request or an answer is       *)
(* written: a first one with a header of 16 bytes, the others with one of   *)
(* four, and the lengths computed on either side.                          *)
(***************************************************************************)
EXTENDS Integers

COMM_BLOCK == 512
COMM_N == 16
HEADER == 16
DATA_HEADER == 4
FirstRoom == COMM_BLOCK - HEADER
NextRoom == COMM_BLOCK - DATA_HEADER

\* What L0TXRX takes at most.
MAX_DATA == COMM_BLOCK - HEADER + (COMM_N - 2) * (COMM_BLOCK - DATA_HEADER) - 8

\* One block more for a remainder.
Pieces(len, room) == len \div room + IF len % room = 0 THEN 0 ELSE 1

Se3ReqLenDataAndHeaders(dataLen) ==
  IF dataLen <= FirstRoom THEN dataLen + HEADER
  ELSE COMM_BLOCK + (dataLen - FirstRoom) + Pieces(dataLen - FirstRoom, NextRoom) * DATA_HEADER

Se3NBlocks(len) == Pieces(len, COMM_BLOCK)

Se3RespLenData(lenDataAndHeaders) ==
  IF lenDataAndHeaders < HEADER THEN 0
  ELSE lenDataAndHeaders - HEADER - (Se3NBlocks(lenDataAndHeaders) - 1) * DATA_HEADER

\* The blocks that L0TX fills: one, and one more as long as there is data left.
TXBlocks(len) == 1 + IF len <= FirstRoom THEN 0 ELSE Pieces(len - FirstRoom, NextRoom)
=============================================================================
