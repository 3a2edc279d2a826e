----------------------------- MODULE Transfer -----------------------------
(***************************************************************************)
(* The exchanges of processes with the SEcube, one request and one answer  *)
(* at a time, written to and read from the file it makes its disk out of,  *)
(* and what is built from them: L1Encrypt and L1Decrypt, which pass data of *)
(* any length to a cryptographic session of the device in chunks.  Data are *)
(* lengths; which stream of the cipher each chunk is combined with is kept, *)
(* because both directions have to agree on it.                            *)
(***************************************************************************)
EXTENDS MagicFile, Blocks

CONSTANTS Coders,  \* the processes that encrypt and decrypt; the others give commands
          Lengths, \* the sizes of the plaintexts
          MaxOps   \* bound of the operations of a process

ASSUME TransferAssumption ==
  Coders \subseteq Process /\ Lengths \subseteq Nat /\ MaxOps \in Nat

\* The SEcube holds the request it works on, whether its answer is ready, the
\* request whose answer can be read, and what its firmware does with RESET.
VARIABLES
  dev,  \* the SEcube
  op,   \* each process: its operation and what that has produced
  xchg  \* each process: its exchange with the SEcube

vars == <<magicVars, dev, op, xchg>>

B5_AES_BLK_SIZE == 16
B5_SHA256_DIGEST_SIZE == 32
L1_DATA == 64                      \* L1Request::Offset::DATA
L1_MAX_DATA == MAX_DATA - L1_DATA  \* L1Request::Size::MAX_DATA
UPDATE_DATA == 16                  \* UpdateRequestOffset::DATA
DATAIN == L1_MAX_DATA - UPDATE_DATA

Smaller(a, b) == IF a < b THEN a ELSE b
Padded(len) == len + ((16 - (len % 16)) % 16)

Mode == {"ecb", "chained", "ctr"}  \* "chained" is CBC, CFB or OFB
NoStream == [nonce |-> 0, start |-> 0]
NoRequest == [by |-> Nobody, nth |-> 0, step |-> "none", done |-> 0, out |-> 0]
NoExchange == [at |-> "idle", req |-> NoRequest, got |-> NoRequest, own |-> TRUE]

\* The commands of one exchange: the bytes of the request and of the answer, with
\* keys of 32 bytes, an identifier and a name of eight, and two keys to keep.
KEY == 32
L1FindKey == [req |-> 4, resp |-> 1]
L1Config == [req |-> 4 + KEY, resp |-> 4 + KEY]
L1KeyEdit == [req |-> 8 + KEY, resp |-> 0]
L1SEkey_DeleteAllKeys == [req |-> 2 + 2 * 4, resp |-> 2]
L1SEkey_DeleteKey == [req |-> 6, resp |-> 2]
L1SEkey_isReady == [req |-> 2, resp |-> 2]
L1SEkey_InsertKey == [req |-> 12 + KEY, resp |-> 2]
L1SEkey_Info == [req |-> 2 + 2 * (1 + 8), resp |-> 8]
L1SEkey_GetKeyEnc == [req |-> 10, resp |-> KEY]
\* More than a block of identifiers of keys.
L1SEkey_Maintenance == [req |-> 3, resp |-> 600]
\* Repeated until the answer holds no key or is empty; here the second one is.
L1KeyList == [req |-> 3, resp |-> 600, answers |-> 2]
NoCommand == [req |-> 0, resp |-> 0]
Command == {L1FindKey, L1Config, L1KeyEdit, L1SEkey_DeleteAllKeys, L1SEkey_DeleteKey,
            L1SEkey_isReady, L1SEkey_InsertKey, L1SEkey_Info, L1SEkey_GetKeyEnc,
            L1SEkey_Maintenance, L1KeyList}
Answers(c) == IF "answers" \in DOMAIN c THEN c.answers ELSE 1

\* Exchanges tell commands apart by their number and by the blocks of requests
\* and answers only: one for each count of them stands for all.
BlocksOf(c) == [req |-> TXBlocks(L1_DATA + Padded(c.req)), resp |-> TXBlocks(L1_DATA + Padded(c.resp)),
                answers |-> Answers(c)]
Representatives == {CHOOSE d \in Command : BlocksOf(d) = BlocksOf(c) : c \in Command}

\* Between operations; cipher is the ciphertext of the last L1Encrypt, of a
\* plaintext of n bytes, plain the size that L1Decrypt has returned.
NoOp == [name |-> "none", command |-> NoCommand, mode |-> "ecb", hmac |-> FALSE, n |-> 0, step |-> "none", done |-> 0,
         size |-> 0, counter |-> 0, stream |-> NoStream, pieces |-> <<>>, cipher |-> <<>>,
         plain |-> {}, ops |-> 0, refused |-> FALSE]

TransferInit ==
  /\ MagicInit
  /\ dev \in [job : {NoRequest}, ready : {FALSE}, resp : {NoRequest}, onReset : BOOLEAN]
  /\ op = [p \in Process |-> NoOp]
  /\ xchg = [p \in Process |-> NoExchange]

-----------------------------------------------------------------------------
(* The operations.                                                         *)

\* PKCS#7 always adds a padding.
Padding(n) == B5_AES_BLK_SIZE - (n % B5_AES_BLK_SIZE)
Total(o) == o.n + Padding(o.n)

\* A chunk leaves room for the counter of CTR and for the digest.
Room(o) == DATAIN - (IF o.mode = "ctr" THEN B5_AES_BLK_SIZE ELSE 0)
                  - (IF o.hmac THEN B5_SHA256_DIGEST_SIZE ELSE 0)
Chunk(o) == Smaller(Total(o) - o.done, Room(o))
LastChunk(o) == o.done + Chunk(o) = Total(o)

Starting(p) == /\ At(p, "ready") /\ op[p].name = "none" /\ op[p].ops < MaxOps
               /\ UNCHANGED <<magicVars, dev, xchg>>
Begin(o, name) == [o EXCEPT !.name = name, !.step = "init", !.done = 0, !.size = 0, !.counter = 0,
                            !.stream = NoStream, !.pieces = <<>>, !.plain = {}, !.ops = @ + 1]
Leave(o) == [o EXCEPT !.name = "none", !.step = "none", !.command = NoCommand, !.done = 0,
                      !.size = 0, !.counter = 0, !.stream = NoStream, !.pieces = <<>>]

L1Encrypt(p) ==
  /\ Starting(p) /\ p \in Coders
  /\ \E n \in Lengths, mode \in Mode, hmac \in BOOLEAN :
       op' = [op EXCEPT ![p] = Begin([@ EXCEPT !.mode = mode, !.hmac = hmac, !.n = n,
                                               !.cipher = <<>>], "encrypt")]

L1Decrypt(p) ==
  /\ Starting(p) /\ op[p].cipher # <<>>
  /\ op' = [op EXCEPT ![p] = Begin(@, "decrypt")]

L1Command(p) ==
  /\ Starting(p) /\ p \notin Coders
  /\ \E c \in Representatives : op' = [op EXCEPT ![p] = Begin([@ EXCEPT !.command = c], "command")]

\* L1CryptoInit, then SETNONCE for the key of the digest, SET_IV, and the chunks.
StepAfter(o) ==
  IF o.step = "init" /\ o.hmac THEN "nonce"
  ELSE IF o.step \in {"init", "nonce"} /\ o.mode = "chained" THEN "iv" ELSE "update"

\* The lengths of the two data of L1CryptoUpdate; of L1CryptoInit.
Data1(o) == IF o.step = "nonce" THEN 32 ELSE IF o.step = "iv" \/ o.mode = "ctr" THEN 16 ELSE 0
Data2(o) == IF o.step = "update" THEN Chunk(o) ELSE 0
Updating(o) == o.step \in {"nonce", "iv", "update"}
ReqLen(o) == IF o.name = "command" THEN o.command.req
             ELSE IF Updating(o) THEN UPDATE_DATA + Padded(Data1(o)) + Data2(o) ELSE 8

\* What the SEcube returns of it: the chunk, and the digest behind the last one.
Out2(o) == Data2(o) + IF o.step = "update" /\ o.hmac /\ LastChunk(o)
                        THEN B5_SHA256_DIGEST_SIZE ELSE 0
OutLen(o) == IF o.name = "command" THEN o.command.resp ELSE IF Updating(o) THEN UPDATE_DATA + Out2(o) ELSE 4

-----------------------------------------------------------------------------
(* An exchange: L1TXRXData, L0TX and L0RX.                                 *)

Busy(p, at) == At(p, "ready") /\ op[p].name # "none" /\ xchg[p].at = at
Ends(p) == op' = [op EXCEPT ![p] = Leave(@)] /\ xchg' = [xchg EXCEPT ![p] = NoExchange]
Unopened == UNCHANGED <<path, files, proc, disturbed, starts>>

Request(p) ==
  LET o == op[p]
  IN  [by |-> p, nth |-> o.ops, step |-> o.step, done |-> o.done,
       out |-> L1_DATA + Padded(OutLen(o))]

\* L1CryptoUpdate and L0TXRX refuse more data than a request can hold, and the
\* device an answer that is too long.
TooLong(p) == \/ Updating(op[p]) /\ ReqLen(op[p]) > L1_MAX_DATA
              \/ L1_DATA + Padded(ReqLen(op[p])) > MAX_DATA \/ Request(p).out > MAX_DATA

Writes(p) ==
  \/ /\ dev.job = NoRequest /\ NoFault
     /\ dev' = [dev EXCEPT !.job = Request(p), !.ready = FALSE]
     /\ xchg' = [xchg EXCEPT ![p].at = "wait", ![p].req = Request(p)]
     /\ UNCHANGED op
  \/ dev.job # NoRequest /\ NoFault /\ Ends(p) /\ UNCHANGED dev
  \/ Faulty /\ Ends(p) /\ UNCHANGED dev

\* The SEcube does not take a request while another one is at work.
L0TX(p) ==
  /\ Busy(p, "idle") /\ Unopened
  /\ IF TooLong(p)
       THEN /\ op' = [op EXCEPT ![p] = [Leave(@) EXCEPT !.refused = TRUE]]
            /\ xchg' = [xchg EXCEPT ![p] = NoExchange]
            /\ NoFault /\ UNCHANGED dev
       ELSE Writes(p)

\* The SEcube answers.
Answer ==
  /\ dev.job # NoRequest
  /\ dev' = [dev EXCEPT !.job = NoRequest, !.ready = TRUE, !.resp = dev.job]
  /\ UNCHANGED <<magicVars, op, xchg>>

\* The flag of an update.
RESET(o) == IF o.mode = "ctr" THEN ~LastChunk(o) \/ o.hmac ELSE LastChunk(o) /\ o.hmac

\* A chunk is combined with the stream of its session.  The firmware starts a new
\* one with RESET, or else whenever it is given a counter.
NewStream(o) == IF dev.onReset THEN RESET(o) ELSE o.mode = "ctr"

\* Mutant of Stream: L1Decrypt does not count its chunks.
StreamUncounted(o) ==
  IF NewStream(o)
    THEN [nonce |-> IF o.mode = "ctr" /\ o.name = "encrypt" THEN o.counter ELSE 0, start |-> o.done]
    ELSE o.stream

Stream(o) ==
  IF NewStream(o)
    THEN [nonce |-> IF o.mode = "ctr" THEN o.counter ELSE 0, start |-> o.done] ELSE o.stream

\* The pieces of a text, one for each stream.
Combined(pieces, stream, len) ==
  IF pieces # <<>> /\ Last(pieces).stream = stream
    THEN Append(Front(pieces), [stream |-> stream, len |-> Last(pieces).len + len])
    ELSE Append(pieces, [stream |-> stream, len |-> len])

AfterChunk(o) ==
  [o EXCEPT !.done = @ + Chunk(o), !.size = @ + Out2(o), !.counter = @ + 1, !.stream = Stream(o),
            !.pieces = Combined(@, Stream(o), Chunk(o))]

\* The sizes have to add up, without the digest or with it.
SizesAgree(o) == o.size \in {Total(o), Total(o) + B5_SHA256_DIGEST_SIZE}

Encrypted(o) ==
  IF SizesAgree(o) THEN [Leave(o) EXCEPT !.cipher = o.pieces]
  ELSE [Leave(o) EXCEPT !.refused = TRUE]

\* The digest is compared, if there is one; the last byte of the text tells how
\* much padding there is, and is another one if the streams do not agree.
Decrypted(o) ==
  IF ~SizesAgree(o) \/ (o.hmac /\ o.pieces # o.cipher) THEN [Leave(o) EXCEPT !.refused = TRUE]
  ELSE [Leave(o) EXCEPT !.plain =
          {IF o.pieces # o.cipher THEN -1
           ELSE o.size - Padding(o.n) - IF o.hmac THEN B5_SHA256_DIGEST_SIZE ELSE 0}]

Received(o) ==
  IF o.name = "command"
    THEN IF o.done + 1 < Answers(o.command) THEN [o EXCEPT !.done = @ + 1] ELSE Leave(o)
  ELSE IF o.step # "update" THEN [o EXCEPT !.step = StepAfter(o)]
  ELSE LET c == AfterChunk(o)
       IN  IF c.done < Total(o) THEN c
           ELSE IF o.name = "encrypt" THEN Encrypted(c) ELSE Decrypted(c)

Accept(p, answer) ==
  /\ op' = [op EXCEPT ![p] = Received(@)]
  /\ xchg' = [xchg EXCEPT ![p] = [NoExchange EXCEPT !.own = (answer = xchg[p].req)]]

\* Mutant of Ready: the first block is taken as it is.
ReadyAtOnce == dev.resp # NoRequest
Ready == dev.ready
Truncated(p) == ~files[Head(proc[p].l1)].magic

\* L0RX reads the first block until it says ready, and then the others of it.
L0RX(p) ==
  /\ Busy(p, "wait") /\ Ready /\ NoFault
  /\ IF Se3NBlocks(Se3ReqLenDataAndHeaders(dev.resp.out)) > 1
       THEN xchg' = [xchg EXCEPT ![p].at = "rest", ![p].got = dev.resp] /\ UNCHANGED op
       ELSE Accept(p, dev.resp)
  /\ Unopened /\ UNCHANGED dev

\* The tokens of the blocks follow that of the first one if they are of one answer.
L0RXRest(p) ==
  /\ Busy(p, "rest") /\ NoFault
  /\ IF xchg[p].got = dev.resp THEN Accept(p, dev.resp) ELSE Ends(p)
  /\ Unopened /\ UNCHANGED dev

\* A read fails, finds the end of the file, or the time is up.
L0RXFails(p) ==
  /\ Busy(p, "wait") \/ Busy(p, "rest")
  /\ (Faulty \/ (Truncated(p) /\ NoFault)) /\ Ends(p)
  /\ Unopened /\ UNCHANGED dev

-----------------------------------------------------------------------------

Opening(p) == op[p].name = "none" /\ MagicStep(p) /\ UNCHANGED <<dev, op, xchg>>

Crashes(p) ==
  /\ Crash(p) /\ UNCHANGED dev
  /\ op' = [op EXCEPT ![p] = [NoOp EXCEPT !.ops = op[p].ops]]
  /\ xchg' = [xchg EXCEPT ![p] = NoExchange]

Next ==
  \/ Answer
  \/ \E p \in Process :
       \/ Opening(p) \/ Crashes(p)
       \/ L1Encrypt(p) \/ L1Decrypt(p) \/ L1Command(p)
       \/ L0TX(p) \/ L0RX(p) \/ L0RXRest(p) \/ L0RXFails(p)

Spec == TransferInit /\ [][Next]_vars

-----------------------------------------------------------------------------

\* An accepted answer is the answer to the request it is taken for: nothing in an
\* exchange says so but the lock, since L0RX compares no token with L0TX's, and
\* an exchange given up may still be answered.
OwnAnswer == ~disturbed => \A p \in Process : xchg[p].own

\* L1Decrypt returns as many bytes as L1Encrypt was given, of the same stream of
\* the cipher, and no size of a text makes either of them fail.
RoundTrip == ~disturbed => \A p \in Process : op[p].plain \subseteq {op[p].n} /\ ~op[p].refused
=============================================================================
