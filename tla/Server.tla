------------------------------- MODULE Server -------------------------------
(***************************************************************************)
(* The SEcube server, its client on the socket and the SEcube behind it:   *)
(* login attempts one after the other, then requests to encrypt what is    *)
(* sent and to decrypt what is shown, until one of them ends.  The device  *)
(* keeps its session whatever happens to the server, so that each login    *)
(* may find one that is still open.                                        *)
(*                                                                         *)
(* An exchange with the device may be lost, may be carried out without an  *)
(* answer, or may be answered with an error.  An exception that nothing    *)
(* catches, or that leaves a destructor, ends the server.                  *)
(***************************************************************************)
EXTENDS Naturals, FiniteSets, SequencesExt

CONSTANTS Text,      \* what the user sends and others have sent
          Long,      \* the texts whose request is longer than BUFLEN
          Attempts,  \* bound of the logins
          Requests,  \* bound of the requests, logins included
          MaxFaults, \* bound of the failed exchanges, lookups and reads
          MaxStarts  \* bound of the starts of the program

ASSUME ServerAssumption ==
  /\ Long \subseteq Text
  /\ Attempts \in Nat /\ Requests \in Nat
  /\ MaxFaults \in Nat /\ MaxStarts \in Nat

VARIABLES
  client,    \* the GUI: pc, its request, the last text sent and message shown
  toServer, toClient,  \* the socket
  srv,       \* where the server is
  login,     \* its login request: number, PIN, whether an exchange has failed
  l1,        \* the L1 object: its number, session_logged_in and the token
  databases, \* the SEfile objects of the databases, with the L1 they use
  dev,       \* the token of the session of the SEcube
  faults,
  slips,     \* of the reads: that failed, or took a part of a request only
  starts

vars == <<client, toServer, toClient, srv, login, l1, databases, dev, faults, slips, starts>>

NoSession == 0
Foreign == Attempts + 1   \* a session of an earlier server
Nothing == <<"nothing">>
Cipher(t) == <<"cipher", t>>
Plain(t) == <<"plain", t>>

\* Messages others have sent: the device refuses a damaged one, and base64 or the
\* header of a malformed one is wrong.
Incoming == {"cipher", "damaged", "malformed"} \X Text

NoL1 == [id |-> 0, loggedIn |-> FALSE, token |-> NoSession]
NewL1(n) == [id |-> n, loggedIn |-> FALSE, token |-> NoSession]
NoLogin == [number |-> 0, pin |-> "right", clean |-> TRUE]

\* The last text or message of the client, and what became of it.
NoResult == [asked |-> Nothing, got |-> Nothing]

Init ==
  /\ client = [pc |-> "pin", number |-> 0, asked |-> Nothing, result |-> NoResult]
  /\ toServer = <<>> /\ toClient = <<>>
  /\ srv = "reading" /\ login = NoLogin /\ l1 = NoL1 /\ databases = <<>>
  /\ dev \in {NoSession, Foreign}
  /\ faults = 0 /\ slips = 0 /\ starts = 1

ServerEnded == srv \in {"ended", "terminated"}

-----------------------------------------------------------------------------
(* The device.                                                             *)

\* What the device does: its next session and its answer.
Executed(cmd, token) ==
  CASE cmd = "CHALLENGE" -> [dev |-> dev, answer |-> IF dev = NoSession THEN "ok" ELSE "opened"]
    [] cmd = "LOGIN"     -> [dev |-> login.number, answer |-> "ok"]
    [] cmd = "FORCED_LOGOUT" -> [dev |-> NoSession, answer |-> "ok"]
    [] cmd = "LOGOUT" /\ dev = token -> [dev |-> NoSession, answer |-> "ok"]
    [] cmd = "CRYPTO" /\ dev = token -> [dev |-> dev, answer |-> "ok"]
    [] OTHER -> [dev |-> dev, answer |-> "L0TXRXException"]

\* TXRXData: an error in the communication is an L1Exception, an error status of
\* L0TXRX is not.
TXRXData(cmd) ==
  LET done == Executed(cmd, IF l1.loggedIn THEN l1.token ELSE NoSession)
  IN  {[dev |-> done.dev, answer |-> done.answer, fault |-> FALSE]} \cup
      (IF faults = MaxFaults THEN {}
       ELSE {[dev |-> dev, answer |-> "L1Exception", fault |-> TRUE],
             [dev |-> done.dev, answer |-> "L1Exception", fault |-> TRUE],
             [dev |-> dev, answer |-> "L0TXRXException", fault |-> TRUE]})

Exchanged(x) ==
  /\ dev' = x.dev
  /\ faults' = IF x.fault THEN faults + 1 ELSE faults
  /\ login' = [login EXCEPT !.clean = @ /\ (x.fault => srv \in {"serving", "leaving"})]

-----------------------------------------------------------------------------
(* The server: login.                                                      *)

Reply(status, data, number) ==
  toClient' = Append(toClient, [status |-> status, data |-> data, to |-> number])

LoginFails(status) == srv' = "reading" /\ Reply(status, Nothing, login.number)

\* A read that fails, whether there is a request or not, is answered as well.
ReadFails ==
  /\ srv \in {"reading", "serving"}
  /\ faults < MaxFaults
  /\ faults' = faults + 1 /\ slips' = slips + 1
  /\ Reply("2", Nothing, 0)
  /\ UNCHANGED <<client, toServer, srv, login, l1, databases, dev, starts>>

ReadLogin ==
  /\ srv = "reading" /\ toServer # <<>>
  /\ toServer' = Tail(toServer)
  /\ LET request == Head(toServer)
     IN  CASE request.kind = "quit" ->
              srv' = "leaving" /\ UNCHANGED <<login, toClient>>
           [] request.kind = "login" ->
              /\ srv' = "renewing"
              /\ login' = [number |-> request.number, pin |-> request.data, clean |-> TRUE]
              /\ UNCHANGED toClient
           [] OTHER -> UNCHANGED <<srv, login>> /\ Reply("3", Nothing, request.number)
  /\ UNCHANGED <<client, l1, databases, dev, faults, slips, starts>>

Fails == faults < MaxFaults /\ faults' = faults + 1 /\ login' = [login EXCEPT !.clean = FALSE]
NoFault == UNCHANGED <<faults, login>>

L1Logout(next) ==
  \E x \in TXRXData("LOGOUT") :
    Exchanged(x) /\ srv' = IF x.answer = "ok" THEN next ELSE "terminated"

\* The destructor logs out when the object thinks that it is logged in.
DestroyL1(next) ==
  IF l1.loggedIn THEN L1Logout(next)
    ELSE srv' = next /\ UNCHANGED <<dev, faults, login>>

\* A new L1, which opens the device, takes the place of the one of the attempt
\* before.
MakeL1 ==
  /\ srv = "renewing"
  /\ \/ DestroyL1("counting")
     \/ Fails /\ srv' = "terminated" /\ UNCHANGED dev
  /\ l1' = NewL1(login.number)
  /\ UNCHANGED <<client, toServer, toClient, databases, slips, starts>>

\* The SEcubes that are found; one that is gone has lost its session.
CountDevices ==
  /\ srv = "counting"
  /\ \/ /\ login.pin = "long" /\ srv' = "terminated"
        /\ UNCHANGED <<toClient, dev, faults, login>>
     \/ /\ login.pin # "long" /\ srv' = "challenge"
        /\ UNCHANGED <<toClient, dev, faults, login>>
     \/ /\ faults < MaxFaults
        /\ faults' = faults + 1
        /\ login' = [login EXCEPT !.clean = FALSE]
        /\ \/ LoginFails("err_nosec") /\ dev' = NoSession
           \/ LoginFails("err_toomany") /\ UNCHANGED dev
  /\ UNCHANGED <<client, toServer, l1, databases, slips, starts>>

\* Mutant of Challenge: a session that is open is not closed by force.
ChallengeUnforced ==
  /\ srv \in {"challenge", "challenge again"}
  /\ \E x \in TXRXData("CHALLENGE") :
       /\ Exchanged(x)
       /\ IF x.answer = "ok" /\ login.pin = "right"
            THEN srv' = "login" /\ UNCHANGED toClient
            ELSE LoginFails("err_login")
  /\ UNCHANGED <<client, toServer, l1, databases, slips, starts>>

\* L1Login: the device proves that it knows the PIN, which fails when the PIN is
\* wrong.  A session that is open is closed by force, once.
Challenge ==
  /\ srv \in {"challenge", "challenge again"}
  /\ \E x \in TXRXData("CHALLENGE") :
       /\ Exchanged(x)
       /\ CASE x.answer = "ok" /\ login.pin = "right" -> srv' = "login" /\ UNCHANGED toClient
            [] x.answer = "opened" /\ srv = "challenge" -> srv' = "forced" /\ UNCHANGED toClient
            [] OTHER -> LoginFails("err_login")
  /\ UNCHANGED <<client, toServer, l1, databases, slips, starts>>

L1LogoutForced ==
  /\ srv = "forced"
  /\ \E x \in TXRXData("FORCED_LOGOUT") :
       /\ Exchanged(x)
       /\ IF x.answer = "ok" THEN srv' = "challenge again" /\ UNCHANGED toClient
                             ELSE LoginFails("err_login")
  /\ UNCHANGED <<client, toServer, l1, databases, slips, starts>>

\* Mutant of L1Login: the token is taken before the answer has come.
L1LoginEarlyToken ==
  /\ srv = "login"
  /\ \E x \in TXRXData("LOGIN") :
       /\ Exchanged(x)
       /\ l1' = [l1 EXCEPT !.loggedIn = TRUE, !.token = login.number]
       /\ srv' = "sekey" /\ UNCHANGED toClient
  /\ UNCHANGED <<client, toServer, databases, slips, starts>>

\* It is logged in before LOGIN is sent; an L1Exception takes that back, an
\* L0TXRXException does not.
L1Login ==
  /\ srv = "login"
  /\ \E x \in TXRXData("LOGIN") :
       /\ Exchanged(x)
       /\ CASE x.answer = "ok" ->
               /\ l1' = [l1 EXCEPT !.loggedIn = TRUE, !.token = x.dev]
               /\ srv' = "sekey" /\ UNCHANGED toClient
            [] x.answer = "L1Exception" -> UNCHANGED l1 /\ LoginFails("err_login")
            [] OTHER -> l1' = [l1 EXCEPT !.loggedIn = TRUE] /\ LoginFails("err_login")
  /\ UNCHANGED <<client, toServer, databases, slips, starts>>

-----------------------------------------------------------------------------
(* The databases.  The first object of a name is the one that is opened.   *)

Entry(name) == [name |-> name, l1 |-> l1.id]
Named(D, name) == {i \in DOMAIN D : D[i].name = name}
Opened(D, name) == D[Min(Named(D, name))]
Closed(D, name) == IF Named(D, name) = {} THEN D ELSE RemoveAt(D, Min(Named(D, name)))

Opening(name) == Append(databases, Entry(name))
UsesOldL1(name) == Opened(Opening(name), name).l1 # l1.id

\* c_sql_secure_open, good or fatal: an L1 that was destroyed is used; or the
\* header fails, which resets the handle that the caller writes to.
OpenDatabase(name, next) ==
  /\ databases' = Opening(name) /\ UNCHANGED toClient
  /\ IF UsesOldL1(name) THEN srv' = "undefined" /\ NoFault
     ELSE \/ srv' = next /\ NoFault
          \/ srv' = "terminated" /\ Fails

\* What a failure of it leaves: the name or the file fails and the object stays,
\* or something later fails and closes the database.
LeftOpening(name) ==
  IF UsesOldL1(name) THEN {} ELSE {Opening(name), Closed(Opening(name), name)}

\* sekey_start: it may also fail before it has made the object.
sekey_start ==
  /\ srv = "sekey"
  /\ \/ OpenDatabase("sekey", "telegram")
     \/ /\ Fails /\ LoginFails("err_sekey")
        /\ databases' \in {databases} \cup LeftOpening("sekey")
  /\ UNCHANGED <<client, toServer, l1, dev, slips, starts>>

\* The constructor of setelegram; when it fails SEkey is stopped, but nobody logs out.
setelegram ==
  /\ srv = "telegram"
  /\ \/ OpenDatabase("setelegram", "ready")
     \/ /\ Fails /\ LoginFails("err_db")
        /\ databases' \in {Closed(D, "sekey") : D \in {databases} \cup LeftOpening("setelegram")}
  /\ UNCHANGED <<client, toServer, l1, dev, slips, starts>>

SetupOk ==
  /\ srv = "ready"
  /\ srv' = "serving"
  /\ Reply("setup_ok", Nothing, login.number)
  /\ UNCHANGED <<client, toServer, login, l1, databases, dev, faults, slips, starts>>

-----------------------------------------------------------------------------
(* The server: requests.                                                   *)

\* What read() leaves of a request that is longer than its buffer.
Unread(request) ==
  IF request.long THEN <<[kind |-> "rest", data |-> request.data, long |-> FALSE, number |-> 0]>>
                  ELSE <<>>

\* What is read of a text that does not fit, and its beginning, is nobody's text.
Read(request) == IF request.long THEN <<"cut">> ELSE request.data

Result(request) ==
  IF request.kind = "encrypt" THEN Cipher(Read(request)) ELSE Plain(request.data[2])

\* Mutant of Serve: an error is not answered.
ServeQuietly ==
  /\ srv = "serving" /\ toServer # <<>> /\ Head(toServer).kind \in {"encrypt", "decrypt"}
  /\ LET request == Head(toServer)
     IN  /\ toServer' = Unread(request) \o Tail(toServer)
         /\ slips' = IF request.long THEN slips + 1 ELSE slips
         /\ \E x \in TXRXData("CRYPTO") :
              /\ Exchanged(x)
              /\ IF x.answer = "ok" THEN Reply("0_", Result(request), request.number)
                                    ELSE UNCHANGED toClient
         /\ UNCHANGED srv
  /\ UNCHANGED <<client, l1, databases, starts>>

\* Mutant of Serve: the error is sent and the result as well.
ServeTwice ==
  /\ srv = "serving" /\ toServer # <<>> /\ Head(toServer).kind \in {"encrypt", "decrypt"}
  /\ LET request == Head(toServer)
     IN  /\ toServer' = Unread(request) \o Tail(toServer)
         /\ slips' = IF request.long THEN slips + 1 ELSE slips
         /\ \E x \in TXRXData("CRYPTO") :
              /\ Exchanged(x)
              /\ toClient' = (IF x.answer = "ok" THEN toClient
                              ELSE Append(toClient, [status |-> "1", data |-> Nothing,
                                                     to |-> request.number]))
                   \o <<[status |-> "0_", data |-> Result(request), to |-> request.number]>>
         /\ UNCHANGED srv
  /\ UNCHANGED <<client, l1, databases, starts>>

\* encrypt_ and decrypt_: a malformed message makes deserialize throw.
Serve ==
  /\ srv = "serving" /\ toServer # <<>> /\ Head(toServer).kind \in {"encrypt", "decrypt"}
  /\ LET request == Head(toServer)
     IN  /\ toServer' = Unread(request) \o Tail(toServer)
         /\ slips' = IF request.long THEN slips + 1 ELSE slips
         /\ IF request.data[1] = "malformed"
              THEN srv' = "terminated" /\ UNCHANGED <<dev, faults, login, toClient>>
              ELSE /\ UNCHANGED srv
                   /\ \E x \in TXRXData("CRYPTO") :
                        /\ Exchanged(x)
                        /\ IF x.answer = "ok" /\ request.data[1] # "damaged"
                             THEN Reply("0_", Result(request), request.number)
                             ELSE Reply("1", Nothing, request.number)
  /\ UNCHANGED <<client, l1, databases, starts>>

WrongRequest ==
  /\ srv = "serving" /\ toServer # <<>> /\ Head(toServer).kind \in {"rest", "login"}
  /\ toServer' = Tail(toServer)
  /\ Reply("3", Nothing, Head(toServer).number)
  /\ UNCHANGED <<client, srv, login, l1, databases, dev, faults, slips, starts>>

\* Mutant of Quit: the server leaves without logging out.
QuitLoggedIn ==
  /\ srv = "serving" /\ toServer # <<>> /\ Head(toServer).kind = "quit"
  /\ toServer' = Tail(toServer)
  /\ srv' = "ended"
  /\ l1' = [l1 EXCEPT !.loggedIn = FALSE]
  /\ databases' = Closed(Closed(databases, "sekey"), "setelegram")
  /\ UNCHANGED <<client, toClient, login, dev, faults, slips, starts>>

\* quit: sekey_stop, L1Logout, and then the destructors.
Quit ==
  /\ srv = "serving" /\ toServer # <<>> /\ Head(toServer).kind = "quit"
  /\ toServer' = Tail(toServer)
  /\ DestroyL1("ended")
  /\ l1' = [l1 EXCEPT !.loggedIn = srv' # "ended"]
  /\ databases' = Closed(Closed(databases, "sekey"), "setelegram")
  /\ UNCHANGED <<client, toClient, slips, starts>>

\* quit before a login has succeeded: the destructor logs out.
Leave ==
  /\ srv = "leaving"
  /\ DestroyL1("ended")
  /\ UNCHANGED <<client, toServer, toClient, l1, databases, slips, starts>>

\* Without a client read() returns 0, and the answer "3" raises SIGPIPE.
Deserted ==
  /\ srv \in {"reading", "serving"} /\ toServer = <<>> /\ client.pc = "gone"
  /\ srv' = "terminated"
  /\ UNCHANGED <<client, toServer, toClient, login, l1, databases, dev, faults, slips, starts>>

ServerStep ==
  \/ ReadFails \/ ReadLogin \/ MakeL1 \/ CountDevices \/ Challenge \/ L1LogoutForced \/ L1Login
  \/ sekey_start \/ setelegram \/ SetupOk \/ Serve \/ WrongRequest \/ Quit \/ Leave \/ Deserted

-----------------------------------------------------------------------------
(* The client.                                                             *)

ServerOnly == UNCHANGED <<srv, login, l1, databases, dev, faults>>
Awaits == client.pc \in {"await login", "await text", "await message"}

\* send(), which raises SIGPIPE when the server is known to have gone.
Ask(kind, data, asked, long, pc) ==
  /\ client.number < Requests
  /\ \/ /\ client' = [client EXCEPT !.pc = pc, !.number = @ + 1, !.asked = asked]
        /\ toServer' = IF ServerEnded THEN toServer
             ELSE Append(toServer, [kind |-> kind, data |-> data, long |-> long,
                                    number |-> client.number + 1])
     \/ ServerEnded /\ client' = [client EXCEPT !.pc = "gone"] /\ UNCHANGED toServer
  /\ UNCHANGED <<toClient, slips, starts>> /\ ServerOnly

accessButtonClicked(pin) ==
  /\ client.pc = "pin"
  /\ client.number < Attempts
  /\ Ask("login", pin, Nothing, FALSE, "await login")

sendButtonClicked(t) ==
  /\ client.pc = "chat"
  /\ Ask("encrypt", <<"text", t>>, <<"text", t>>, t \in Long, "await text")

showMessage(m) ==
  /\ client.pc = "chat"
  /\ Ask("decrypt", m, m, FALSE, "await message")

\* The answer that is read next, whatever it answers; nothing when the server has gone.
Answer ==
  IF toClient # <<>> THEN Head(toClient)
  ELSE [status |-> "", data |-> Nothing, to |-> client.number]

Answered == Awaits /\ (toClient # <<>> \/ ServerEnded)

TakeAnswer(pc, result) ==
  /\ client' = [client EXCEPT !.pc = pc, !.asked = Nothing, !.result = result]
  /\ toClient' = IF toClient = <<>> THEN <<>> ELSE Tail(toClient)
  /\ UNCHANGED <<toServer, slips, starts>> /\ ServerOnly

LoginAnswered ==
  /\ Answered /\ client.pc = "await login"
  /\ TakeAnswer(IF Answer.status = "setup_ok" THEN "chat" ELSE "pin", NoResult)

\* enc_or_dec: the result of "0_", else an empty text is sent, or an error shown.
EncOrDec ==
  /\ Answered /\ client.pc \in {"await text", "await message"}
  /\ TakeAnswer("chat", [asked |-> client.asked,
                         got |-> IF Answer.status = "0_" THEN Answer.data ELSE Nothing])

\* closeEvent of either window.
CloseWindow ==
  /\ client.pc \in {"pin", "chat"}
  /\ client' = [client EXCEPT !.pc = "gone"]
  /\ toServer' = IF ServerEnded THEN toServer
       ELSE Append(toServer, [kind |-> "quit", data |-> Nothing, long |-> FALSE, number |-> 0])
  /\ UNCHANGED <<toClient, slips, starts>> /\ ServerOnly

Crash ==
  /\ client.pc # "gone"
  /\ client' = [client EXCEPT !.pc = "gone"]
  /\ UNCHANGED <<toServer, toClient, slips, starts>> /\ ServerOnly

\* The program is started once more, and another server with it.
Start ==
  /\ client.pc = "gone" /\ ServerEnded /\ starts < MaxStarts
  /\ starts' = starts + 1
  /\ client' = [pc |-> "pin", number |-> 0, asked |-> Nothing, result |-> NoResult]
  /\ toServer' = <<>> /\ toClient' = <<>>
  /\ srv' = "reading" /\ login' = NoLogin /\ l1' = NoL1 /\ databases' = <<>>
  /\ dev' = IF dev = NoSession THEN NoSession ELSE Foreign
  /\ slips' = 0 /\ UNCHANGED faults

ClientStep ==
  \/ \E pin \in {"right", "wrong", "long"} : accessButtonClicked(pin)
  \/ \E t \in Text : sendButtonClicked(t)
  \/ \E m \in Incoming : showMessage(m)
  \/ LoginAnswered \/ EncOrDec \/ CloseWindow \/ Crash \/ Start

Next == ServerStep \/ ClientStep

\* The server runs, and the client reads the answers there are.
Fairness == WF_vars(ServerStep) /\ WF_vars(LoginAnswered \/ EncOrDec)

Spec == Init /\ [][Next]_vars /\ Fairness

-----------------------------------------------------------------------------
(* Properties.                                                             *)

Outcome == {Nothing, Cipher(<<"cut">>)} \cup {Cipher(<<"text", t>>) : t \in Text}
                                        \cup {Plain(t) : t \in Text}

\* Every variable has its type; the L1 object is that of the last login request,
\* and at most one object of each database was left behind before.
TypeOK ==
  /\ client.pc \in {"pin", "await login", "chat", "await text", "await message", "gone"}
  /\ client.number \in 0..Requests /\ client.result.got \in Outcome
  /\ srv \in {"reading", "renewing", "counting", "challenge", "challenge again", "forced",
              "login", "sekey", "telegram", "ready", "serving", "leaving", "ended",
              "terminated", "undefined"}
  /\ \A i \in DOMAIN toServer : toServer[i].kind \in {"login", "encrypt", "decrypt", "rest", "quit"}
  /\ \A i \in DOMAIN toClient :
       /\ toClient[i].status \in {"0_", "1", "2", "3", "err_nosec", "err_toomany", "err_login",
                                 "err_sekey", "err_db", "setup_ok"}
       /\ toClient[i].data \in Outcome
  /\ login.number \in 0..Attempts
  /\ l1.id = login.number \/ srv = "renewing"
  /\ dev \in NoSession..Foreign
  /\ \A name \in {"sekey", "setelegram"} : Cardinality(Named(databases, name)) <= 2

\* Whatever attempts have failed before, and however, the server works in the
\* session that the device has, and with databases that use it: those left behind
\* by earlier attempts are not found first.
SessionInUse ==
  /\ srv \in {"sekey", "telegram", "ready", "serving"} => l1.loggedIn /\ l1.token = dev
  /\ \A name \in {"sekey", "setelegram"} :
       srv = "serving" => Opened(databases, name).l1 = l1.id

\* A session that an earlier attempt or an earlier server has left open on the
\* device does not lock the user out.
RightPinOpens ==
  \A i \in DOMAIN toClient :
    toClient[i].status = "err_login" /\ toClient[i].to = login.number =>
      login.pin # "right" \/ ~login.clean

\* A server that ends in good order leaves no session of its own open, wherever it
\* was when it was told to quit, unless an exchange of its last login had failed.
LeftClean ==
  srv = "ended" /\ login.clean => dev \in {NoSession, Foreign}

\* As long as every read has taken one request, an answer is to the request that
\* the client waits for, is the only one, and has what was asked: requests that
\* fail, and failed logins, do not put the two out of step.
OwnAnswer ==
  Awaits /\ toClient # <<>> /\ slips = 0 =>
    /\ Len(toClient) = 1
    /\ Head(toClient).to = client.number
    /\ Head(toClient).status = "0_" =>
         Head(toClient).data = IF client.pc = "await text" THEN Cipher(client.asked)
                               ELSE Plain(client.asked[2])

\* Every request is answered, or the client finds out that the server has gone.
Answers == Awaits ~> (~Awaits \/ srv = "undefined")

\* "Error in starting SEkey", "Please, try again" (AccessWindow.cpp:148): another
\* attempt does not use the L1 of the one before, which has been destroyed.
TryAgain == srv # "undefined"

\* "if encryption, prepend a "magic value" to identify this as encrypted payload"
\* (ChatWindow.cpp:808): what is sent with it is not somebody's plain text.
NothingInClear ==
  client.result.asked[1] = "text" => client.result.got[1] # "plain"
=============================================================================
