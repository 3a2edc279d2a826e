---------------------------- MODULE ServerProofs ----------------------------
(***************************************************************************)
(* Proofs about Server.  The invariant has five parts: the types of what   *)
(* is on the socket; the session that the L1 object and the device share;  *)
(* the order of the login requests, by which a refusal is never to a later *)
(* login than the one that was read last; and, while every read has taken  *)
(* one request, the one place where the request of the client is: sent,    *)
(* being worked on, or answered; and the databases, where the object of a  *)
(* name that is found first is the one that the last login has made.       *)
(***************************************************************************)
EXTENDS Server, WellFoundedInduction, TLAPS

Pin == {"right", "wrong", "long"}
Sent == {"text"} \X Text

\* The requests and answers there may be on the socket.
LoginRequest == [kind : {"login"}, data : Pin, long : {FALSE}, number : Nat]
TextRequest == [kind : {"encrypt"}, data : Sent, long : BOOLEAN, number : Nat]
MessageRequest == [kind : {"decrypt"}, data : Incoming, long : {FALSE}, number : Nat]
OtherRequest == [kind : {"rest", "quit"}, data : Sent \cup {Nothing}, long : {FALSE}, number : Nat]
SomeRequest == LoginRequest \cup TextRequest \cup MessageRequest \cup OtherRequest

Status == {"0_", "1", "2", "3", "err_nosec", "err_toomany", "err_login", "err_sekey", "err_db",
           "setup_ok"}
SomeAnswer == [status : Status, data : Outcome, to : Nat]

Middle == {"renewing", "counting", "challenge", "challenge again", "forced", "login", "sekey",
           "telegram", "ready"}
Dead == {"ended", "terminated", "undefined"}

ServerTypes ==
  /\ client = [pc |-> client.pc, number |-> client.number, asked |-> client.asked,
               result |-> client.result]
  /\ client.pc \in {"pin", "await login", "chat", "await text", "await message", "gone"}
  /\ client.number \in Nat
  /\ toServer \in Seq(SomeRequest) /\ toClient \in Seq(SomeAnswer)
  /\ srv \in Middle \cup Dead \cup {"reading", "serving", "leaving"}
  /\ login = [number |-> login.number, pin |-> login.pin, clean |-> login.clean]
  /\ login.number \in Nat /\ login.clean \in BOOLEAN
  /\ l1 = [id |-> l1.id, loggedIn |-> l1.loggedIn, token |-> l1.token]
  /\ slips \in Nat

\* The server and the device agree on their session once it is made, and a login in
\* which nothing has failed leaves none when it is refused.
SessionInv ==
  /\ srv \in {"sekey", "telegram", "ready", "serving"} => l1.loggedIn /\ l1.token = dev
  /\ login.clean /\ srv \in {"challenge again", "login"} => dev = NoSession
  /\ login.clean /\ srv \in {"reading", "leaving", "ended"} => dev \in {NoSession, Foreign}

\* The logins that are still to be read are later than n, in their order.
LoginsAhead(queue, n) ==
  /\ \A i \in DOMAIN queue : queue[i].kind = "login" =>
       n < queue[i].number /\ queue[i].number <= client.number
  /\ \A i, j \in DOMAIN queue :
       i < j /\ queue[i].kind = "login" /\ queue[j].kind = "login" =>
         queue[i].number < queue[j].number

\* They are later than the one that was read last, and no refusal is.
OrderInv ==
  /\ login.number <= client.number
  /\ LoginsAhead(toServer, login.number)
  /\ \A i \in DOMAIN toClient : toClient[i].status = "err_login" =>
       /\ toClient[i].to <= login.number
       /\ toClient[i].to = login.number => login.pin # "right" \/ ~login.clean

\* The request of the client, and its answer.
Posed(r) ==
  /\ r.number = client.number
  /\ client.pc = "await login" => r.kind = "login"
  /\ client.pc = "await text" => r.kind = "encrypt" /\ r.data = client.asked
  /\ client.pc = "await message" => r.kind = "decrypt" /\ r.data = client.asked

Answering(a) ==
  /\ a.to = client.number
  /\ a.status = "0_" =>
       \/ client.pc = "await text" /\ a.data = Cipher(client.asked)
       \/ client.pc = "await message" /\ a.data = Plain(client.asked[2])

Silent == toServer = <<>> /\ toClient = <<>>

\* Where the one request is, as long as client and server are there.
Phase ==
  \/ srv \in Dead /\ toClient = <<>>
  \/ ~Awaits /\ srv \in {"reading", "serving"} /\ Silent
  \/ /\ Awaits /\ srv \in {"reading", "serving"} /\ toClient = <<>>
     /\ toServer = <<toServer[1]>> /\ Posed(toServer[1])
  \/ client.pc = "await login" /\ srv \in Middle /\ Silent /\ login.number = client.number
  \/ /\ Awaits /\ srv \in {"reading", "serving"} /\ toServer = <<>>
     /\ toClient = <<toClient[1]>> /\ Answering(toClient[1])

AnswerInv == slips = 0 /\ client.pc # "gone" => Phase

ServerInv == ServerTypes /\ SessionInv /\ OrderInv /\ AnswerInv

\* What the device makes of a command, when nothing fails.
Done(cmd) == Executed(cmd, IF l1.loggedIn THEN l1.token ELSE NoSession)

LEMMA Exchange ==
  ASSUME NEW cmd, NEW x \in TXRXData(cmd)
  PROVE  \/ x.fault = FALSE /\ x.dev = Done(cmd).dev /\ x.answer = Done(cmd).answer
         \/ x.fault = TRUE /\ x.answer \in {"L1Exception", "L0TXRXException"}
                           /\ x.dev \in {dev, Done(cmd).dev}
<1> DEFINE d == Done(cmd)
<1>1. x \in {[dev |-> d.dev, answer |-> d.answer, fault |-> FALSE],
             [dev |-> dev, answer |-> "L1Exception", fault |-> TRUE],
             [dev |-> d.dev, answer |-> "L1Exception", fault |-> TRUE],
             [dev |-> dev, answer |-> "L0TXRXException", fault |-> TRUE]}
  BY DEF TXRXData, Done
<1> HIDE DEF d
<1>2. \/ x.fault = FALSE /\ x.dev = d.dev /\ x.answer = d.answer
      \/ x.fault = TRUE /\ x.answer \in {"L1Exception", "L0TXRXException"}
                        /\ x.dev \in {dev, d.dev}
  <2>1. CASE x = [dev |-> d.dev, answer |-> d.answer, fault |-> FALSE]
    BY <2>1
  <2>2. CASE x = [dev |-> dev, answer |-> "L1Exception", fault |-> TRUE]
    BY <2>2
  <2>3. CASE x = [dev |-> d.dev, answer |-> "L1Exception", fault |-> TRUE]
    BY <2>3
  <2>4. CASE x = [dev |-> dev, answer |-> "L0TXRXException", fault |-> TRUE]
    BY <2>4
  <2> QED BY <1>1, <2>1, <2>2, <2>3, <2>4
<1> QED BY <1>2 DEF d

\* The commands, one by one.
LEMMA Commands ==
  /\ Done("CHALLENGE").dev = dev
  /\ Done("CHALLENGE").answer \in {"ok", "opened"}
  /\ Done("CHALLENGE").answer = "ok" <=> dev = NoSession
  /\ Done("LOGIN").dev = login.number /\ Done("LOGIN").answer = "ok"
  /\ Done("FORCED_LOGOUT").dev = NoSession /\ Done("FORCED_LOGOUT").answer = "ok"
  /\ Done("LOGOUT").answer = "ok" => Done("LOGOUT").dev = NoSession
  /\ Done("CRYPTO").dev = dev
BY DEF Done, Executed

LEMMA ServerInit == Init => ServerInv
<1> SUFFICES ASSUME Init PROVE ServerInv
  OBVIOUS
<1>1. ServerTypes
  BY DEF Init, ServerTypes, NoLogin, NoL1
<1>2. SessionInv
  BY DEF Init, SessionInv
<1>3. OrderInv
  BY DEF Init, OrderInv, LoginsAhead, NoLogin
<1>4. AnswerInv
  BY DEF Init, AnswerInv, Phase, Silent, Awaits
<1> QED BY <1>1, <1>2, <1>3, <1>4 DEF ServerInv

\* A reply is one more element.
LEMMA ReplyFacts ==
  ASSUME ServerTypes, NEW status \in Status, NEW data \in Outcome, NEW number \in Nat,
         Reply(status, data, number)
  PROVE  LET a == [status |-> status, data |-> data, to |-> number]
         IN  /\ toClient' \in Seq(SomeAnswer)
             /\ toClient' = Append(toClient, a)
             /\ Len(toClient') = Len(toClient) + 1
             /\ \A i \in DOMAIN toClient' :
                  \/ i \in DOMAIN toClient /\ toClient'[i] = toClient[i]
                  \/ toClient'[i] = a
             /\ toClient = <<>> => toClient' = <<a>>
<1> DEFINE a == [status |-> status, data |-> data, to |-> number]
<1>1. a \in SomeAnswer
  BY DEF SomeAnswer
<1>2. toClient' = Append(toClient, a) /\ toClient \in Seq(SomeAnswer)
  BY DEF Reply, ServerTypes
<1> HIDE DEF a
<1>3. toClient' \in Seq(SomeAnswer) /\ Len(toClient') = Len(toClient) + 1
  BY <1>1, <1>2
<1>4. \A i \in DOMAIN toClient' :
        \/ i \in DOMAIN toClient /\ toClient'[i] = toClient[i]
        \/ toClient'[i] = a
  BY <1>1, <1>2
<1>5. toClient = <<>> => toClient' = <<a>>
  BY <1>2
<1> QED BY <1>2, <1>3, <1>4, <1>5 DEF a

\* The steps of a login, but for the sessions.
LEMMA LoginGoesOn ==
  ASSUME ServerInv, srv \in Middle, UNCHANGED <<client, toServer, slips, toClient>>,
         login' = [login EXCEPT !.clean = login'.clean], login'.clean \in BOOLEAN,
         login'.clean => login.clean,
         l1' = [id |-> l1'.id, loggedIn |-> l1'.loggedIn, token |-> l1'.token],
         srv' \in Middle \cup {"terminated", "undefined"}
  PROVE  ServerTypes' /\ OrderInv' /\ AnswerInv'
<1>1. login'.number = login.number /\ login'.pin = login.pin
      /\ login' = [number |-> login'.number, pin |-> login'.pin, clean |-> login'.clean]
  BY DEF ServerInv, ServerTypes
<1>2. ServerTypes'
  BY <1>1 DEF ServerInv, ServerTypes, Middle, Dead
<1>3. OrderInv'
  BY <1>1 DEF ServerInv, OrderInv, LoginsAhead
<1>4. AnswerInv'
  BY <1>1 DEF ServerInv, AnswerInv, Phase, Awaits, Silent, Posed, Answering, Middle, Dead
<1> QED BY <1>2, <1>3, <1>4

LEMMA LoginEnds ==
  ASSUME ServerInv, srv \in Middle, UNCHANGED <<client, toServer, slips>>,
         login' = [login EXCEPT !.clean = login'.clean], login'.clean \in BOOLEAN,
         login'.clean => login.clean,
         l1' = [id |-> l1'.id, loggedIn |-> l1'.loggedIn, token |-> l1'.token],
         srv' \in {"reading", "serving"},
         NEW status \in Status \ {"0_"}, Reply(status, Nothing, login.number),
         status = "err_login" => login.pin # "right" \/ ~login'.clean
  PROVE  ServerTypes' /\ OrderInv' /\ AnswerInv'
<1> DEFINE a == [status |-> status, data |-> Nothing, to |-> login.number]
<1>1. login'.number = login.number /\ login'.pin = login.pin
      /\ login' = [number |-> login'.number, pin |-> login'.pin, clean |-> login'.clean]
  BY DEF ServerInv, ServerTypes
<1>2. /\ toClient' \in Seq(SomeAnswer)
      /\ \A i \in DOMAIN toClient' :
           \/ i \in DOMAIN toClient /\ toClient'[i] = toClient[i]
           \/ toClient'[i] = a
      /\ toClient = <<>> => toClient' = <<a>>
  <2>1. Nothing \in Outcome /\ status \in Status /\ login.number \in Nat
    BY DEF ServerInv, ServerTypes, Outcome
  <2> QED BY <2>1, ReplyFacts DEF ServerInv
<1>3. ServerTypes'
  BY <1>1, <1>2 DEF ServerInv, ServerTypes, Middle, Dead
<1>4. OrderInv'
  <2>1. a.to = login.number /\ a.status = status
    OBVIOUS
  <2> HIDE DEF a
  <2>2. ASSUME NEW i \in DOMAIN toClient', toClient'[i].status = "err_login"
        PROVE  /\ toClient'[i].to <= login.number
               /\ toClient'[i].to = login.number => login.pin # "right" \/ ~login'.clean
    <3>1. CASE i \in DOMAIN toClient /\ toClient'[i] = toClient[i]
      BY <2>2, <3>1 DEF ServerInv, OrderInv
    <3>2. CASE toClient'[i] = a
      <4>1. status = "err_login" /\ toClient'[i].to = login.number
        BY <2>1, <2>2, <3>2
      <4>2. login.number \in Nat
        BY DEF ServerInv, ServerTypes
      <4>3. login.number <= login.number
        BY <4>2
      <4> QED BY <4>1, <4>3
    <3> QED BY <1>2, <3>1, <3>2
  <2> QED BY <1>1, <2>2 DEF ServerInv, OrderInv, LoginsAhead
<1>5. AnswerInv'
  <2> SUFFICES ASSUME slips = 0, client.pc # "gone" PROVE Phase'
    BY DEF AnswerInv
  <2>1. client.pc = "await login" /\ Silent /\ login.number = client.number
    BY DEF ServerInv, AnswerInv, Phase, Middle, Dead
  <2>2. toClient' = <<a>>
    BY <1>2, <2>1 DEF Silent
  <2>3. a.to = client.number /\ a.status # "0_"
    BY <2>1
  <2> HIDE DEF a
  <2>4. toClient'[1] = a
    BY <2>2
  <2> QED BY <2>1, <2>2, <2>3, <2>4 DEF Phase, Awaits, Silent, Answering
<1> QED BY <1>3, <1>4, <1>5

\* What an exchange leaves of the login: an unclean one stays so.
LEMMA ExchangedFacts ==
  ASSUME ServerTypes, NEW cmd, NEW x \in TXRXData(cmd), Exchanged(x)
  PROVE  /\ login' = [login EXCEPT !.clean = login'.clean] /\ login'.clean \in BOOLEAN
         /\ login'.clean => login.clean
         /\ login'.number = login.number /\ login'.pin = login.pin
         /\ dev' = x.dev
         /\ x.fault /\ srv \notin {"serving", "leaving"} => ~login'.clean
<1>1. login' = [login EXCEPT !.clean = @ /\ (x.fault => srv \in {"serving", "leaving"})] /\ dev' = x.dev
  BY DEF Exchanged
<1>2. login'.clean = (login.clean /\ (x.fault => srv \in {"serving", "leaving"}))
  BY <1>1 DEF ServerTypes
<1>3. login.clean \in BOOLEAN /\ x.fault \in BOOLEAN
  BY Exchange DEF ServerTypes
<1>4. login' = [login EXCEPT !.clean = login'.clean]
  BY <1>1, <1>2
<1>5. login'.number = login.number /\ login'.pin = login.pin
  BY <1>4 DEF ServerTypes
<1> QED BY <1>1, <1>2, <1>3, <1>4, <1>5

LEMMA FailsFacts ==
  ASSUME ServerTypes, Fails
  PROVE  /\ login' = [login EXCEPT !.clean = login'.clean] /\ login'.clean = FALSE
         /\ login'.number = login.number /\ login'.pin = login.pin
<1>1. login' = [login EXCEPT !.clean = FALSE]
  BY DEF Fails
<1>2. login'.clean = FALSE /\ login'.number = login.number /\ login'.pin = login.pin
  BY <1>1 DEF ServerTypes
<1> QED BY <1>1, <1>2

LEMMA SameLogin ==
  ASSUME ServerTypes, login' = login
  PROVE  /\ login' = [login EXCEPT !.clean = login'.clean] /\ login'.clean \in BOOLEAN
         /\ login'.clean => login.clean
BY DEF ServerTypes

LEMMA SameL1 ==
  ASSUME ServerTypes, l1' = l1
  PROVE  l1' = [id |-> l1'.id, loggedIn |-> l1'.loggedIn, token |-> l1'.token]
BY DEF ServerTypes

\* The destructor of L1, and sekey_stop and L1Logout before it.
LEMMA DestroyFacts ==
  ASSUME ServerTypes, NEW next, next # "terminated", DestroyL1(next)
  PROVE  /\ login' = [login EXCEPT !.clean = login'.clean] /\ login'.clean \in BOOLEAN
         /\ login'.clean => login.clean
         /\ srv' \in {next, "terminated"}
         /\ srv' = next => \/ l1.loggedIn /\ dev' = NoSession
                           \/ ~l1.loggedIn /\ dev' = dev
<1>1. CASE l1.loggedIn
  <2>1. PICK x \in TXRXData("LOGOUT") :
          Exchanged(x) /\ srv' = IF x.answer = "ok" THEN next ELSE "terminated"
    BY <1>1 DEF DestroyL1, L1Logout
  <2>2. x.answer = "ok" => x.dev = NoSession
    BY Exchange, Commands
  <2> QED BY <1>1, <2>1, <2>2, ExchangedFacts
<1>2. CASE ~l1.loggedIn
  BY <1>2, SameLogin DEF DestroyL1
<1> QED BY <1>1, <1>2

LEMMA MakeL1Step ==
  ASSUME ServerInv, MakeL1
  PROVE  ServerInv'
<1>1. /\ srv = "renewing" /\ UNCHANGED <<client, toServer, toClient, slips>>
      /\ l1' = [id |-> login.number, loggedIn |-> FALSE, token |-> NoSession]
  BY DEF MakeL1, NewL1
<1>2. l1' = [id |-> l1'.id, loggedIn |-> l1'.loggedIn, token |-> l1'.token]
  BY <1>1
<1>3. /\ login' = [login EXCEPT !.clean = login'.clean] /\ login'.clean \in BOOLEAN
      /\ login'.clean => login.clean
      /\ srv' \in {"counting", "terminated"}
  BY DestroyFacts, FailsFacts DEF MakeL1, ServerInv
<1>4. SessionInv'
  BY <1>3 DEF SessionInv
<1> QED BY <1>1, <1>2, <1>3, <1>4, LoginGoesOn DEF ServerInv, Middle

LEMMA CountDevicesStep ==
  ASSUME ServerInv, CountDevices
  PROVE  ServerInv'
<1>1. srv = "counting" /\ UNCHANGED <<client, toServer, l1, slips>>
  BY DEF CountDevices
<1>2. CASE /\ srv' \in {"terminated", "challenge"} /\ UNCHANGED <<toClient, login>>
  <2>1. SessionInv'
    BY <1>2 DEF SessionInv
  <2> QED BY <1>1, <1>2, <2>1, SameLogin, SameL1, LoginGoesOn DEF ServerInv, Middle
<1>3. ASSUME login' = [login EXCEPT !.clean = FALSE],
             NEW status \in {"err_nosec", "err_toomany"}, LoginFails(status)
      PROVE  ServerInv'
  <2>1. /\ login' = [login EXCEPT !.clean = login'.clean] /\ login'.clean = FALSE
    BY <1>3 DEF ServerInv, ServerTypes
  <2>2. srv' = "reading" /\ Reply(status, Nothing, login.number)
    BY <1>3 DEF LoginFails
  <2>3. SessionInv'
    BY <2>1, <2>2 DEF SessionInv
  <2>4. status \in Status \ {"0_"} /\ status # "err_login" /\ srv \in Middle
    BY <1>1 DEF Status, Middle
  <2> QED BY <1>1, <2>1, <2>2, <2>3, <2>4, SameL1, LoginEnds DEF ServerInv
<1> QED BY <1>2, <1>3 DEF CountDevices

LEMMA ChallengeStep ==
  ASSUME ServerInv, Challenge
  PROVE  ServerInv'
<1>1. srv \in {"challenge", "challenge again"} /\ UNCHANGED <<client, toServer, l1, slips>>
  BY DEF Challenge
<1>2. PICK x \in TXRXData("CHALLENGE") :
        /\ Exchanged(x)
        /\ \/ x.answer = "ok" /\ login.pin = "right" /\ srv' = "login" /\ UNCHANGED toClient
           \/ x.answer = "opened" /\ srv = "challenge" /\ srv' = "forced" /\ UNCHANGED toClient
           \/ /\ ~(x.answer = "ok" /\ login.pin = "right")
              /\ ~(x.answer = "opened" /\ srv = "challenge")
              /\ LoginFails("err_login")
  BY DEF Challenge
<1>3. /\ login' = [login EXCEPT !.clean = login'.clean] /\ login'.clean \in BOOLEAN
      /\ login'.clean => login.clean
      /\ dev' = x.dev /\ (x.fault => ~login'.clean)
  BY <1>1, <1>2, ExchangedFacts DEF ServerInv
<1>4. login'.clean => /\ dev' = dev /\ x.answer \in {"ok", "opened"}
                      /\ x.answer = "ok" <=> dev = NoSession
  BY <1>3, Exchange, Commands
<1>5. CASE srv' \in {"login", "forced"} /\ UNCHANGED toClient
           /\ (srv' = "login" => x.answer = "ok")
  <2>1. SessionInv'
    BY <1>4, <1>5 DEF SessionInv
  <2> QED BY <1>1, <1>3, <1>5, <2>1, SameL1, LoginGoesOn DEF ServerInv, Middle
<1>6. CASE /\ ~(x.answer = "ok" /\ login.pin = "right")
           /\ ~(x.answer = "opened" /\ srv = "challenge")
           /\ LoginFails("err_login")
  <2>1. srv' = "reading" /\ Reply("err_login", Nothing, login.number)
    BY <1>6 DEF LoginFails
  <2>2. login'.clean => dev = NoSession /\ login.pin # "right"
    <3>1. CASE srv = "challenge again"
      BY <1>3, <1>4, <1>6, <3>1 DEF ServerInv, SessionInv
    <3>2. CASE srv = "challenge"
      BY <1>4, <1>6, <3>2
    <3> QED BY <1>1, <3>1, <3>2
  <2>3. SessionInv'
    BY <1>4, <2>1, <2>2 DEF SessionInv
  <2>4. "err_login" \in Status \ {"0_"} /\ srv \in Middle
    BY <1>1 DEF Status, Middle
  <2> QED BY <1>1, <1>3, <2>1, <2>2, <2>3, <2>4, SameL1, LoginEnds DEF ServerInv
<1> QED BY <1>2, <1>5, <1>6

LEMMA L1LogoutForcedStep ==
  ASSUME ServerInv, L1LogoutForced
  PROVE  ServerInv'
<1>1. srv = "forced" /\ UNCHANGED <<client, toServer, l1, slips>>
  BY DEF L1LogoutForced
<1>2. PICK x \in TXRXData("FORCED_LOGOUT") :
        /\ Exchanged(x)
        /\ IF x.answer = "ok" THEN srv' = "challenge again" /\ UNCHANGED toClient
                              ELSE LoginFails("err_login")
  BY DEF L1LogoutForced
<1>3. /\ login' = [login EXCEPT !.clean = login'.clean] /\ login'.clean \in BOOLEAN
      /\ login'.clean => login.clean
      /\ dev' = x.dev /\ (x.fault => ~login'.clean)
  BY <1>1, <1>2, ExchangedFacts DEF ServerInv
<1>4. login'.clean => dev' = NoSession /\ x.answer = "ok"
  BY <1>3, Exchange, Commands
<1>5. CASE srv' = "challenge again" /\ UNCHANGED toClient
  <2>1. SessionInv'
    BY <1>4, <1>5 DEF SessionInv
  <2> QED BY <1>1, <1>3, <1>5, <2>1, SameL1, LoginGoesOn DEF ServerInv, Middle
<1>6. CASE x.answer # "ok" /\ LoginFails("err_login")
  <2>1. srv' = "reading" /\ Reply("err_login", Nothing, login.number)
    BY <1>6 DEF LoginFails
  <2>2. ~login'.clean
    BY <1>4, <1>6
  <2>3. SessionInv'
    BY <2>1, <2>2 DEF SessionInv
  <2>4. "err_login" \in Status \ {"0_"} /\ srv \in Middle
    BY <1>1 DEF Status, Middle
  <2> QED BY <1>1, <1>3, <2>1, <2>2, <2>3, <2>4, SameL1, LoginEnds DEF ServerInv
<1> QED BY <1>2, <1>5, <1>6

LEMMA L1LoginStep ==
  ASSUME ServerInv, L1Login
  PROVE  ServerInv'
<1>1. srv = "login" /\ UNCHANGED <<client, toServer, slips>>
  BY DEF L1Login
<1>2. PICK x \in TXRXData("LOGIN") :
        /\ Exchanged(x)
        /\ \/ /\ x.answer = "ok" /\ srv' = "sekey" /\ UNCHANGED toClient
              /\ l1' = [l1 EXCEPT !.loggedIn = TRUE, !.token = x.dev]
           \/ /\ x.answer # "ok" /\ LoginFails("err_login")
              /\ l1' = l1 \/ l1' = [l1 EXCEPT !.loggedIn = TRUE]
  BY DEF L1Login
<1>3. /\ login' = [login EXCEPT !.clean = login'.clean] /\ login'.clean \in BOOLEAN
      /\ login'.clean => login.clean
      /\ dev' = x.dev /\ (x.fault => ~login'.clean)
  BY <1>1, <1>2, ExchangedFacts DEF ServerInv
<1>4. login'.clean => x.answer = "ok"
  BY <1>3, Exchange, Commands
<1>5. l1' = [id |-> l1'.id, loggedIn |-> l1'.loggedIn, token |-> l1'.token]
  BY <1>2 DEF ServerInv, ServerTypes
<1>6. CASE x.answer = "ok"
  <2>1. l1'.loggedIn /\ l1'.token = dev'
    BY <1>2, <1>3, <1>6 DEF ServerInv, ServerTypes
  <2>2. SessionInv'
    BY <1>2, <1>6, <2>1 DEF SessionInv
  <2> QED BY <1>1, <1>2, <1>3, <1>5, <1>6, <2>2, LoginGoesOn DEF ServerInv, Middle
<1>7. CASE x.answer # "ok"
  <2>1. srv' = "reading" /\ Reply("err_login", Nothing, login.number)
    BY <1>2, <1>7 DEF LoginFails
  <2>2. ~login'.clean
    BY <1>4, <1>7
  <2>3. SessionInv'
    BY <2>1, <2>2 DEF SessionInv
  <2>4. "err_login" \in Status \ {"0_"} /\ srv \in Middle
    BY <1>1 DEF Status, Middle
  <2> QED BY <1>1, <1>3, <1>5, <2>1, <2>2, <2>3, <2>4, LoginEnds DEF ServerInv
<1> QED BY <1>6, <1>7

\* The databases are opened in the session that has just been made.
LEMMA OpeningStep ==
  ASSUME ServerInv, srv \in {"sekey", "telegram"}, UNCHANGED <<client, toServer, l1, dev, slips>>,
         \/ /\ srv' \in {"telegram", "ready", "undefined"}
            /\ UNCHANGED <<toClient, login>>
         \/ srv' = "terminated" /\ UNCHANGED toClient /\ Fails
         \/ \E status \in {"err_sekey", "err_db"} : Fails /\ LoginFails(status)
  PROVE  ServerInv'
<1>1. CASE srv' \in {"telegram", "ready", "undefined"} /\ UNCHANGED <<toClient, login>>
  <2>1. SessionInv'
    BY <1>1 DEF ServerInv, SessionInv
  <2> QED BY <1>1, <2>1, SameLogin, SameL1, LoginGoesOn DEF ServerInv, Middle
<1>2. CASE srv' = "terminated" /\ UNCHANGED toClient /\ Fails
  <2>1. SessionInv'
    BY <1>2 DEF SessionInv
  <2> QED BY <1>2, <2>1, FailsFacts, SameL1, LoginGoesOn DEF ServerInv, Middle
<1>3. ASSUME NEW status \in {"err_sekey", "err_db"}, Fails, LoginFails(status)
      PROVE  ServerInv'
  <2>1. srv' = "reading" /\ Reply(status, Nothing, login.number)
    BY <1>3 DEF LoginFails
  <2>2. login' = [login EXCEPT !.clean = login'.clean] /\ login'.clean = FALSE
    BY <1>3, FailsFacts DEF ServerInv
  <2>3. SessionInv'
    BY <2>1, <2>2 DEF SessionInv
  <2>4. status \in Status \ {"0_"} /\ status # "err_login" /\ srv \in Middle
    BY DEF Status, Middle
  <2> QED BY <2>1, <2>2, <2>3, <2>4, SameL1, LoginEnds DEF ServerInv
<1> QED BY <1>1, <1>2, <1>3

LEMMA DatabasesStep ==
  ASSUME ServerInv, sekey_start \/ setelegram
  PROVE  ServerInv'
<1>1. srv \in {"sekey", "telegram"} /\ UNCHANGED <<client, toServer, l1, dev, slips>>
  BY DEF sekey_start, setelegram
<1>2. \/ /\ srv' \in {"telegram", "ready", "undefined"}
         /\ UNCHANGED <<toClient, login>>
      \/ srv' = "terminated" /\ UNCHANGED toClient /\ Fails
      \/ \E status \in {"err_sekey", "err_db"} : Fails /\ LoginFails(status)
  BY DEF sekey_start, setelegram, OpenDatabase, NoFault
<1> QED BY <1>1, <1>2, OpeningStep

LEMMA SetupOkStep ==
  ASSUME ServerInv, SetupOk
  PROVE  ServerInv'
<1>1. srv = "ready" /\ srv' = "serving" /\ Reply("setup_ok", Nothing, login.number)
      /\ UNCHANGED <<client, toServer, login, l1, dev, slips>>
  BY DEF SetupOk
<1>2. SessionInv'
  BY <1>1 DEF ServerInv, SessionInv
<1>3. "setup_ok" \in Status \ {"0_"} /\ srv \in Middle
  BY <1>1 DEF Status, Middle
<1> QED BY <1>1, <1>2, <1>3, SameLogin, SameL1, LoginEnds DEF ServerInv

-----------------------------------------------------------------------------

LEMMA ReadFailsStep ==
  ASSUME ServerInv, ReadFails
  PROVE  ServerInv'
<1>1. /\ srv \in {"reading", "serving"} /\ slips' = slips + 1 /\ Reply("2", Nothing, 0)
      /\ UNCHANGED <<client, toServer, srv, login, l1, dev>>
  BY DEF ReadFails
<1>2. /\ toClient' \in Seq(SomeAnswer)
      /\ \A i \in DOMAIN toClient' :
           \/ i \in DOMAIN toClient /\ toClient'[i] = toClient[i]
           \/ toClient'[i] = [status |-> "2", data |-> Nothing, to |-> 0]
  <2>1. Nothing \in Outcome /\ "2" \in Status /\ 0 \in Nat
    BY DEF Outcome, Status
  <2> QED BY <1>1, <2>1, ReplyFacts DEF ServerInv
<1>0. slips \in Nat
  BY DEF ServerInv, ServerTypes
<1>7. slips' \in Nat /\ slips' # 0
  BY <1>0, <1>1
<1>3. ServerTypes'
  BY <1>1, <1>2, <1>7 DEF ServerInv, ServerTypes
<1>4. SessionInv'
  BY <1>1 DEF ServerInv, SessionInv
<1>5. OrderInv'
  BY <1>1, <1>2 DEF ServerInv, OrderInv, LoginsAhead
<1>6. AnswerInv'
  BY <1>7 DEF AnswerInv
<1> QED BY <1>3, <1>4, <1>5, <1>6 DEF ServerInv

\* Taking the first request: what is left, and a rest of it, keeps its order.
LEMMA TakeFacts ==
  ASSUME ServerInv, toServer # <<>>
  PROVE  /\ Head(toServer) \in SomeRequest /\ Head(toServer) = toServer[1]
         /\ Tail(toServer) \in Seq(SomeRequest)
         /\ 1 \in DOMAIN toServer
         /\ LoginsAhead(Tail(toServer), login.number)
         /\ Head(toServer).kind = "login" =>
              LoginsAhead(Tail(toServer), Head(toServer).number)
<1>1. toServer \in Seq(SomeRequest) /\ LoginsAhead(toServer, login.number)
  BY DEF ServerInv, ServerTypes, OrderInv
<1>2. \A i \in DOMAIN Tail(toServer) : /\ i + 1 \in DOMAIN toServer /\ i \in Nat /\ 1 < i + 1
                                    /\ Tail(toServer)[i] = toServer[i + 1]
  BY <1>1
<1>3. /\ Head(toServer) \in SomeRequest /\ Head(toServer) = toServer[1]
      /\ Tail(toServer) \in Seq(SomeRequest)
      /\ 1 \in DOMAIN toServer
  BY <1>1
<1>4. ASSUME NEW i \in DOMAIN Tail(toServer), NEW j \in DOMAIN Tail(toServer), i < j,
             Tail(toServer)[i].kind = "login", Tail(toServer)[j].kind = "login"
      PROVE  Tail(toServer)[i].number < Tail(toServer)[j].number
  <2>1. i + 1 < j + 1
    BY <1>2, <1>4
  <2> QED BY <1>1, <1>2, <1>4, <2>1 DEF LoginsAhead
<1>5. LoginsAhead(Tail(toServer), login.number)
  BY <1>1, <1>2, <1>4 DEF LoginsAhead
<1>6. Head(toServer).kind = "login" => LoginsAhead(Tail(toServer), Head(toServer).number)
  BY <1>1, <1>2, <1>3, <1>4 DEF LoginsAhead
<1> QED BY <1>3, <1>5, <1>6

\* A request that was read in part: a rest of it stays in its place.
LEMMA RestFacts ==
  ASSUME ServerInv, toServer # <<>>, NEW r \in SomeRequest, r.kind # "login"
  PROVE  /\ <<r>> \o Tail(toServer) \in Seq(SomeRequest)
         /\ LoginsAhead(<<r>> \o Tail(toServer), login.number)
<1>1. toServer \in Seq(SomeRequest) /\ LoginsAhead(toServer, login.number)
  BY DEF ServerInv, ServerTypes, OrderInv
<1> DEFINE q == <<r>> \o Tail(toServer)
<1>2. q \in Seq(SomeRequest)
  BY <1>1
<1>3. \A i \in DOMAIN q :
        \/ i = 1 /\ q[i] = r
        \/ i \in DOMAIN toServer /\ q[i] = toServer[i]
  <2> DEFINE t == Tail(toServer)
  <2>1. /\ t \in Seq(SomeRequest) /\ Len(t) = Len(toServer) - 1 /\ Len(toServer) \in Nat
        /\ \A i \in 1..Len(t) : t[i] = toServer[i + 1]
    BY <1>1
  <2> HIDE DEF t
  <2>2. /\ DOMAIN (<<r>> \o t) = 1..(Len(t) + 1)
        /\ \A i \in 1..(Len(t) + 1) : (<<r>> \o t)[i] = IF i = 1 THEN r ELSE t[i - 1]
    BY <2>1
  <2>3. ASSUME NEW i \in 1..(Len(t) + 1), i # 1
        PROVE  i \in DOMAIN toServer /\ (<<r>> \o t)[i] = toServer[i]
    <3>1. i - 1 \in 1..Len(t) /\ (i - 1) + 1 = i /\ i \in 1..Len(toServer)
      BY <2>1, <2>3
    <3>2. (<<r>> \o t)[i] = t[i - 1]
      BY <2>2, <2>3
    <3> QED BY <1>1, <2>1, <3>1, <3>2
  <2>4. \A i \in DOMAIN (<<r>> \o t) :
          \/ i = 1 /\ (<<r>> \o t)[i] = r
          \/ i \in DOMAIN toServer /\ (<<r>> \o t)[i] = toServer[i]
    <3>1. 1 \in 1..(Len(t) + 1)
      BY <2>1
    <3> QED BY <2>2, <2>3, <3>1
  <2>5. q = <<r>> \o t
    BY DEF t
  <2> HIDE DEF q
  <2> QED BY <2>4, <2>5
<1> HIDE DEF q
<1>4. LoginsAhead(q, login.number)
  BY <1>1, <1>3 DEF LoginsAhead
<1> QED BY <1>2, <1>4 DEF q

\* A request that is answered, while no login is under way.
LEMMA AnswerStep ==
  ASSUME ServerInv, toServer # <<>>, srv \in {"reading", "serving"}, srv' = srv,
         UNCHANGED <<client, l1>>,
         toServer' \in Seq(SomeRequest), LoginsAhead(toServer', login.number),
         slips' \in Nat, slips' = 0 => slips = 0 /\ toServer' = Tail(toServer),
         login' = [login EXCEPT !.clean = login'.clean], login'.clean \in BOOLEAN,
         login'.clean => login.clean,
         NEW status \in Status \ {"err_login"}, NEW data \in Outcome,
         Reply(status, data, Head(toServer).number),
         slips' = 0 /\ client.pc # "gone" /\ Posed(Head(toServer)) =>
           Answering([status |-> status, data |-> data, to |-> Head(toServer).number])
  PROVE  ServerTypes' /\ OrderInv' /\ AnswerInv'
<1> DEFINE r == Head(toServer)
           a == [status |-> status, data |-> data, to |-> r.number]
<1>1. login'.number = login.number /\ login'.pin = login.pin
      /\ login' = [number |-> login'.number, pin |-> login'.pin, clean |-> login'.clean]
  BY DEF ServerInv, ServerTypes
<1>2. r.number \in Nat
  BY TakeFacts DEF SomeRequest, LoginRequest, TextRequest, MessageRequest, OtherRequest
<1>3. /\ toClient' \in Seq(SomeAnswer)
      /\ \A i \in DOMAIN toClient' :
           \/ i \in DOMAIN toClient /\ toClient'[i] = toClient[i]
           \/ toClient'[i] = a
      /\ toClient = <<>> => toClient' = <<a>>
  BY <1>2, ReplyFacts DEF ServerInv
<1>4. ServerTypes'
  BY <1>1, <1>3 DEF ServerInv, ServerTypes
<1>5. OrderInv'
  <2>1. a.status # "err_login"
    OBVIOUS
  <2> HIDE DEF a
  <2>2. \A i \in DOMAIN toClient' : toClient'[i].status = "err_login" =>
          /\ toClient'[i].to <= login.number
          /\ toClient'[i].to = login.number => login.pin # "right" \/ ~login'.clean
    BY <1>3, <2>1 DEF ServerInv, OrderInv
  <2>3. LoginsAhead(toServer, login.number)'
    BY <1>1 DEF LoginsAhead
  <2> QED BY <1>1, <2>2, <2>3 DEF ServerInv, OrderInv
<1>6. AnswerInv'
  <2> SUFFICES ASSUME slips' = 0, client.pc # "gone" PROVE Phase'
    BY DEF AnswerInv
  <2>1. Awaits /\ toClient = <<>> /\ toServer = <<toServer[1]>> /\ Posed(toServer[1])
    BY DEF ServerInv, AnswerInv, Phase, Silent, Middle, Dead
  <2>2. toClient' = <<a>> /\ Answering(a)
    BY <1>3, <2>1, TakeFacts
  <2> HIDE DEF a
  <2>3. toClient'[1] = a /\ toServer' = <<>>
    <3>1. PICK x : toServer = <<x>>
      BY <2>1
    <3>2. Tail(<<x>>) = <<>>
      OBVIOUS
    <3> QED BY <2>2, <3>1, <3>2
  <2>4. Awaits' /\ Answering(toClient[1])'
    BY <2>1, <2>2, <2>3 DEF Awaits, Answering
  <2> QED BY <2>2, <2>3, <2>4 DEF Phase
<1> QED BY <1>4, <1>5, <1>6

LEMMA ReadLoginStep ==
  ASSUME ServerInv, ReadLogin
  PROVE  ServerInv'
<1> DEFINE r == Head(toServer)
<1>1. /\ srv = "reading" /\ toServer # <<>> /\ toServer' = Tail(toServer)
      /\ UNCHANGED <<client, l1, dev, slips>>
  BY DEF ReadLogin
<1>2. r \in SomeRequest /\ r.number \in Nat
  BY <1>1, TakeFacts DEF SomeRequest, LoginRequest, TextRequest, MessageRequest, OtherRequest
<1>3. slips = 0 /\ client.pc # "gone" =>
        /\ Awaits /\ toClient = <<>> /\ toServer = <<toServer[1]>> /\ Posed(r)
  BY <1>1, TakeFacts DEF ServerInv, AnswerInv, Phase, Silent, Middle, Dead
<1>4. CASE r.kind = "quit"
  <2>1. srv' = "leaving" /\ UNCHANGED <<login, toClient>>
    BY <1>4 DEF ReadLogin
  <2>2. ServerTypes'
    BY <1>1, <2>1, TakeFacts DEF ServerInv, ServerTypes
  <2>3. SessionInv'
    BY <1>1, <2>1 DEF ServerInv, SessionInv
  <2>4. OrderInv'
    BY <1>1, <2>1, TakeFacts DEF ServerInv, OrderInv, LoginsAhead
  <2>5. AnswerInv'
    BY <1>1, <1>3, <1>4 DEF AnswerInv, Awaits, Posed
  <2> QED BY <2>2, <2>3, <2>4, <2>5 DEF ServerInv
<1>5. CASE r.kind = "login"
  <2>1. /\ srv' = "renewing" /\ UNCHANGED toClient
        /\ login' = [number |-> r.number, pin |-> r.data, clean |-> TRUE]
    BY <1>5 DEF ReadLogin
  <2>2. login'.number = r.number /\ login'.clean = TRUE
        /\ login' = [number |-> login'.number, pin |-> login'.pin, clean |-> login'.clean]
    BY <2>1
  <2>3. ServerTypes'
    BY <1>1, <1>2, <2>1, <2>2, TakeFacts DEF ServerInv, ServerTypes, Middle
  <2>4. SessionInv'
    BY <2>1 DEF SessionInv
  <2>5. OrderInv'
    <3>1. login.number < r.number /\ r.number <= client.number
      BY <1>1, <1>5, TakeFacts DEF ServerInv, OrderInv, LoginsAhead
    <3>2. LoginsAhead(toServer', r.number)
      BY <1>1, <1>5, TakeFacts
    <3>3. LoginsAhead(toServer, login.number)'
      BY <1>1, <2>2, <3>2 DEF LoginsAhead
    <3>4. \A i \in DOMAIN toClient : toClient[i].status = "err_login" =>
            toClient[i].to <= r.number /\ toClient[i].to # r.number
      <4> SUFFICES ASSUME NEW i \in DOMAIN toClient, toClient[i].status = "err_login"
                   PROVE  toClient[i].to <= r.number /\ toClient[i].to # r.number
        OBVIOUS
      <4>1. toClient[i].to \in Nat
        <5>1. toClient \in Seq(SomeAnswer)
          BY DEF ServerInv, ServerTypes
        <5>2. toClient[i] \in SomeAnswer
          BY <5>1
        <5> QED BY <5>2 DEF SomeAnswer
      <4>2. toClient[i].to <= login.number
        BY DEF ServerInv, OrderInv
      <4>3. login.number \in Nat
        BY DEF ServerInv, ServerTypes
      <4> QED BY <1>2, <3>1, <4>1, <4>2, <4>3
    <3> QED BY <1>1, <2>1, <2>2, <3>1, <3>3, <3>4 DEF OrderInv
  <2>6. AnswerInv'
    <3> SUFFICES ASSUME slips = 0, client.pc # "gone" PROVE Phase'
      BY <1>1 DEF AnswerInv
    <3>1. client.pc = "await login" /\ toClient' = <<>> /\ client.number = r.number
      BY <1>3, <1>5, <2>1 DEF Awaits, Posed
    <3>2. toServer' = <<>>
      <4>1. PICK x : toServer = <<x>>
        BY <1>3
      <4>2. Tail(<<x>>) = <<>>
        OBVIOUS
      <4> QED BY <1>1, <4>1, <4>2
    <3> QED BY <1>1, <2>1, <2>2, <3>1, <3>2 DEF Phase, Silent, Middle
  <2> QED BY <2>3, <2>4, <2>5, <2>6 DEF ServerInv
<1>6. CASE r.kind \notin {"quit", "login"}
  <2>1. UNCHANGED <<srv, login>> /\ Reply("3", Nothing, r.number)
    BY <1>6 DEF ReadLogin
  <2>2. "3" \in Status \ {"err_login"} /\ Nothing \in Outcome
    BY DEF Status, Outcome
  <2>3. Posed(r) => Answering([status |-> "3", data |-> Nothing, to |-> r.number])
    BY DEF Posed, Answering
  <2>4. SessionInv'
    BY <1>1, <2>1 DEF ServerInv, SessionInv
  <2>5. slips \in Nat /\ LoginsAhead(toServer', login.number) /\ toServer' \in Seq(SomeRequest)
    BY <1>1, TakeFacts DEF ServerInv, ServerTypes
  <2> QED BY <1>1, <2>1, <2>2, <2>3, <2>4, <2>5, SameLogin, AnswerStep DEF ServerInv
<1> QED BY <1>4, <1>5, <1>6

LEMMA ServeStep ==
  ASSUME ServerInv, Serve
  PROVE  ServerInv'
<1> DEFINE r == Head(toServer)
           rest == [kind |-> "rest", data |-> r.data, long |-> FALSE, number |-> 0]
<1>1. /\ srv = "serving" /\ toServer # <<>> /\ r.kind \in {"encrypt", "decrypt"}
      /\ toServer' = Unread(r) \o Tail(toServer)
      /\ slips' = IF r.long THEN slips + 1 ELSE slips
      /\ UNCHANGED <<client, l1>>
  BY DEF Serve
<1>2. r \in SomeRequest /\ slips \in Nat
  BY <1>1, TakeFacts DEF ServerInv, ServerTypes
<1>3. /\ r.long \in BOOLEAN /\ r.number \in Nat
      /\ r.kind = "encrypt" => r.data \in Sent
      /\ r.kind = "decrypt" => r.data \in Incoming /\ ~r.long
      /\ r.long => rest \in SomeRequest /\ rest.kind = "rest"
  <2>1. r \in TextRequest \cup MessageRequest
    BY <1>1, <1>2 DEF SomeRequest, LoginRequest, OtherRequest
  <2>2. CASE r \in TextRequest
    <3>1. r.data \in Sent
      BY <2>2 DEF TextRequest
    <3>2. rest \in OtherRequest /\ rest.kind = "rest"
      <4> HIDE DEF r
      <4> QED BY <3>1 DEF OtherRequest
    <3>4. r.kind = "encrypt" /\ r.data \in Sent /\ r.long \in BOOLEAN /\ r.number \in Nat
      BY <2>2 DEF TextRequest
    <3> HIDE DEF r, rest
    <3> QED BY <3>2, <3>4 DEF SomeRequest
  <2>3. CASE r \in MessageRequest
    BY <2>3 DEF MessageRequest
  <2> QED BY <2>1, <2>2, <2>3
<1>4. toServer' \in Seq(SomeRequest) /\ LoginsAhead(toServer', login.number)
  <2>1. CASE r.long
    <3> HIDE DEF rest
    <3>1. toServer' = <<rest>> \o Tail(toServer)
      BY <1>1, <2>1 DEF Unread, rest
    <3> QED BY <1>1, <1>3, <2>1, <3>1, RestFacts
  <2>2. CASE ~r.long
    <3>1. toServer' = Tail(toServer)
      BY <1>1, <2>2, TakeFacts DEF Unread
    <3> QED BY <1>1, <3>1, TakeFacts
  <2> QED BY <2>1, <2>2
<1>5. slips' \in Nat /\ (slips' = 0 => slips = 0 /\ ~r.long /\ toServer' = Tail(toServer))
  <2>1. ~r.long => toServer' = Tail(toServer)
    BY <1>1, TakeFacts DEF Unread
  <2> QED BY <1>1, <1>2, <1>3, <2>1
<1> HIDE DEF rest
<1>6. CASE srv' = "terminated" /\ UNCHANGED <<dev, login, toClient>>
  <2>1. ServerTypes'
    BY <1>1, <1>4, <1>5, <1>6 DEF ServerInv, ServerTypes, Dead
  <2>2. SessionInv'
    BY <1>6 DEF SessionInv
  <2>3. OrderInv'
    BY <1>1, <1>4, <1>6 DEF ServerInv, OrderInv, LoginsAhead
  <2>4. AnswerInv'
    <3>1. slips = 0 /\ client.pc # "gone" => toClient = <<>>
      BY <1>1, TakeFacts DEF ServerInv, AnswerInv, Phase, Silent, Middle, Dead
    <3> QED BY <1>1, <1>5, <1>6, <3>1 DEF AnswerInv, Phase, Dead
  <2> QED BY <2>1, <2>2, <2>3, <2>4 DEF ServerInv
<1>7. ASSUME srv' = srv, NEW x \in TXRXData("CRYPTO"), Exchanged(x),
             NEW status \in {"0_", "1"}, NEW data, Reply(status, data, r.number),
             status = "1" => data = Nothing,
             status = "0_" => data = Result(r) /\ r.data[1] \notin {"malformed", "damaged"}
      PROVE  ServerInv'
  <2>1. /\ login' = [login EXCEPT !.clean = login'.clean] /\ login'.clean \in BOOLEAN
        /\ login'.clean => login.clean
        /\ dev' = x.dev
    BY <1>7, ExchangedFacts DEF ServerInv
  <2>2. dev' = dev
    BY <2>1, Exchange, Commands
  <2>3. SessionInv'
    BY <1>1, <1>7, <2>2 DEF ServerInv, SessionInv
  <2>4. status \in Status \ {"err_login"}
    BY DEF Status
  <2>5. data \in Outcome
    <3>1. r.kind = "encrypt" => Cipher(Read(r)) \in Outcome
      BY <1>3 DEF Outcome, Read, Sent
    <3>2. r.kind = "decrypt" => Plain(r.data[2]) \in Outcome
      BY <1>3 DEF Outcome, Incoming
    <3>3. Nothing \in Outcome
      BY DEF Outcome
    <3> QED BY <1>1, <1>7, <3>1, <3>2, <3>3 DEF Result
  <2>6. slips' = 0 /\ client.pc # "gone" /\ Posed(r) =>
          Answering([status |-> status, data |-> data, to |-> r.number])
    <3> SUFFICES ASSUME slips' = 0, client.pc # "gone", Posed(r)
                 PROVE  Answering([status |-> status, data |-> data, to |-> r.number])
      OBVIOUS
    <3>1. slips = 0 /\ ~r.long /\ r.number = client.number
      BY <1>5 DEF Posed
    <3>2. status = "0_" => \/ client.pc = "await text" /\ data = Cipher(client.asked)
                           \/ client.pc = "await message" /\ data = Plain(client.asked[2])
      <4>1. Awaits
        BY <1>1, <3>1, TakeFacts DEF ServerInv, AnswerInv, Phase, Silent, Middle, Dead
      <4>2. r.kind = "encrypt" => Result(r) = Cipher(r.data)
        BY <3>1 DEF Result, Read
      <4>3. r.kind = "decrypt" => Result(r) = Plain(r.data[2])
        BY DEF Result
      <4> QED BY <1>1, <1>7, <4>1, <4>2, <4>3 DEF Awaits, Posed
    <3> QED BY <3>1, <3>2 DEF Answering
  <2> QED BY <1>1, <1>4, <1>5, <1>7, <2>1, <2>3, <2>4, <2>5, <2>6, AnswerStep DEF ServerInv
<1>8. CASE r.data[1] = "malformed"
  BY <1>6, <1>8 DEF Serve
<1>9. CASE r.data[1] # "malformed"
  BY <1>7, <1>9 DEF Serve
<1> QED BY <1>8, <1>9

LEMMA WrongRequestStep ==
  ASSUME ServerInv, WrongRequest
  PROVE  ServerInv'
<1> DEFINE r == Head(toServer)
<1>1. /\ srv = "serving" /\ toServer # <<>> /\ toServer' = Tail(toServer)
      /\ Reply("3", Nothing, r.number) /\ UNCHANGED <<client, srv, login, l1, dev, slips>>
  BY DEF WrongRequest
<1>2. "3" \in Status \ {"err_login"} /\ Nothing \in Outcome
  BY DEF Status, Outcome
<1>3. Posed(r) => Answering([status |-> "3", data |-> Nothing, to |-> r.number])
  BY DEF Posed, Answering
<1>4. SessionInv'
  BY <1>1 DEF ServerInv, SessionInv
<1>5. slips \in Nat /\ LoginsAhead(toServer', login.number) /\ toServer' \in Seq(SomeRequest)
  BY <1>1, TakeFacts DEF ServerInv, ServerTypes
<1> QED BY <1>1, <1>2, <1>3, <1>4, <1>5, SameLogin, AnswerStep DEF ServerInv
\* The ends of the server.
LEMMA EndingStep ==
  ASSUME ServerInv, srv' \in Dead, UNCHANGED <<client, toClient, slips>>,
         toServer' \in Seq(SomeRequest), LoginsAhead(toServer', login.number),
         login' = [login EXCEPT !.clean = login'.clean], login'.clean \in BOOLEAN,
         login'.clean => login.clean,
         l1' = [id |-> l1'.id, loggedIn |-> l1'.loggedIn, token |-> l1'.token],
         slips = 0 => client.pc = "gone"
  PROVE  ServerTypes' /\ OrderInv' /\ AnswerInv'
<1>1. login'.number = login.number /\ login'.pin = login.pin
      /\ login' = [number |-> login'.number, pin |-> login'.pin, clean |-> login'.clean]
  BY DEF ServerInv, ServerTypes
<1>2. ServerTypes'
  BY <1>1 DEF ServerInv, ServerTypes
<1>3. OrderInv'
  BY <1>1 DEF ServerInv, OrderInv, LoginsAhead
<1>4. AnswerInv'
  BY DEF AnswerInv
<1> QED BY <1>2, <1>3, <1>4

LEMMA QuitStep ==
  ASSUME ServerInv, Quit
  PROVE  ServerInv'
<1>1. /\ srv = "serving" /\ toServer # <<>> /\ Head(toServer).kind = "quit"
      /\ toServer' = Tail(toServer) /\ DestroyL1("ended")
      /\ l1' = [l1 EXCEPT !.loggedIn = srv' # "ended"]
      /\ UNCHANGED <<client, toClient, slips>>
  BY DEF Quit
<1>2. /\ login' = [login EXCEPT !.clean = login'.clean] /\ login'.clean \in BOOLEAN
      /\ login'.clean => login.clean
      /\ srv' \in {"ended", "terminated"}
      /\ srv' = "ended" => dev' = NoSession
  BY <1>1, DestroyFacts DEF ServerInv, SessionInv
<1>3. l1' = [id |-> l1'.id, loggedIn |-> l1'.loggedIn, token |-> l1'.token]
  BY <1>1 DEF ServerInv, ServerTypes
<1>4. slips = 0 => client.pc = "gone"
  BY <1>1, TakeFacts DEF ServerInv, AnswerInv, Phase, Silent, Middle, Dead, Awaits, Posed
<1>5. toServer' \in Seq(SomeRequest) /\ LoginsAhead(toServer', login.number)
  BY <1>1, TakeFacts
<1>6. SessionInv'
  BY <1>2 DEF SessionInv
<1> QED BY <1>1, <1>2, <1>3, <1>4, <1>5, <1>6, EndingStep DEF ServerInv, Dead

LEMMA LeaveStep ==
  ASSUME ServerInv, Leave
  PROVE  ServerInv'
<1>1. /\ srv = "leaving" /\ DestroyL1("ended")
      /\ UNCHANGED <<client, toServer, toClient, l1, slips>>
  BY DEF Leave
<1>2. /\ login' = [login EXCEPT !.clean = login'.clean] /\ login'.clean \in BOOLEAN
      /\ login'.clean => login.clean
      /\ srv' \in {"ended", "terminated"}
      /\ srv' = "ended" => dev' \in {NoSession, dev}
  BY <1>1, DestroyFacts DEF ServerInv
<1>3. slips = 0 => client.pc = "gone"
  BY <1>1 DEF ServerInv, AnswerInv, Phase, Middle, Dead
<1>4. toServer' \in Seq(SomeRequest) /\ LoginsAhead(toServer', login.number)
  BY <1>1 DEF ServerInv, ServerTypes, OrderInv
<1>5. SessionInv'
  BY <1>1, <1>2 DEF ServerInv, SessionInv
<1> QED BY <1>1, <1>2, <1>3, <1>4, <1>5, SameL1, EndingStep DEF ServerInv, Dead

LEMMA DesertedStep ==
  ASSUME ServerInv, Deserted
  PROVE  ServerInv'
<1>1. /\ client.pc = "gone" /\ srv' = "terminated"
      /\ UNCHANGED <<client, toServer, toClient, login, l1, slips>>
  BY DEF Deserted
<1>2. toServer' \in Seq(SomeRequest) /\ LoginsAhead(toServer', login.number)
  BY <1>1 DEF ServerInv, ServerTypes, OrderInv
<1>3. SessionInv'
  BY <1>1 DEF SessionInv
<1> QED BY <1>1, <1>2, <1>3, SameLogin, SameL1, EndingStep DEF ServerInv, Dead

-----------------------------------------------------------------------------

\* A request that is appended keeps the order of the logins.
LEMMA AppendFacts ==
  ASSUME ServerInv, NEW r \in SomeRequest, NEW m \in Nat, client.number <= m,
         r.kind = "login" => client.number < r.number /\ r.number <= m
  PROVE  LET q == Append(toServer, r)
         IN  /\ q \in Seq(SomeRequest)
             /\ \A i \in DOMAIN q : q[i].kind = "login" =>
                  login.number < q[i].number /\ q[i].number <= m
             /\ \A i, j \in DOMAIN q :
                  i < j /\ q[i].kind = "login" /\ q[j].kind = "login" => q[i].number < q[j].number
             /\ toServer = <<>> => q = <<r>>
<1> DEFINE q == Append(toServer, r)
<1>1. /\ toServer \in Seq(SomeRequest) /\ LoginsAhead(toServer, login.number)
      /\ login.number \in Nat /\ client.number \in Nat /\ login.number <= client.number
  BY DEF ServerInv, ServerTypes, OrderInv
<1>2. q \in Seq(SomeRequest) /\ Len(q) = Len(toServer) + 1 /\ Len(toServer) \in Nat
  BY <1>1
<1>3. \A i \in DOMAIN q :
        \/ i \in DOMAIN toServer /\ i < Len(q) /\ q[i] = toServer[i]
        \/ i = Len(q) /\ q[i] = r
  BY <1>1
<1>4. toServer = <<>> => q = <<r>>
  BY <1>1
<1>5. \A i \in DOMAIN toServer : toServer[i].number \in Nat
  <2> TAKE i \in DOMAIN toServer
  <2>1. toServer[i] \in SomeRequest
    BY <1>1
  <2> QED BY <2>1 DEF SomeRequest, LoginRequest, TextRequest, MessageRequest, OtherRequest
<1>6. r.number \in Nat
  BY DEF SomeRequest, LoginRequest, TextRequest, MessageRequest, OtherRequest
<1> HIDE DEF q
<1>7. ASSUME NEW i \in DOMAIN q, q[i].kind = "login"
      PROVE  login.number < q[i].number /\ q[i].number <= m
  BY <1>1, <1>3, <1>5, <1>6, <1>7 DEF LoginsAhead
<1>8. ASSUME NEW i \in DOMAIN q, NEW j \in DOMAIN q, i < j,
             q[i].kind = "login", q[j].kind = "login"
      PROVE  q[i].number < q[j].number
  <2>1. i \in Nat /\ j \in Nat /\ j <= Len(q) /\ Len(q) \in Nat
    BY <1>2
  <2>2. i \in DOMAIN toServer /\ q[i] = toServer[i]
    BY <1>3, <1>8, <2>1
  <2>3. CASE j \in DOMAIN toServer /\ q[j] = toServer[j]
    BY <1>1, <1>8, <2>2, <2>3 DEF LoginsAhead
  <2>4. CASE q[j] = r
    <3>1. toServer[i].number <= client.number
      BY <1>1, <1>8, <2>2 DEF LoginsAhead
    <3> QED BY <1>1, <1>5, <1>6, <1>8, <2>2, <2>4, <3>1
  <2> QED BY <1>3, <2>3, <2>4
<1> QED BY <1>2, <1>4, <1>7, <1>8 DEF q

LEMMA NumberFacts ==
  ASSUME ServerInv
  PROVE  /\ client.number \in Nat /\ client.number + 1 \in Nat
         /\ client.number <= client.number + 1 /\ client.number < client.number + 1
         /\ client.number + 1 <= client.number + 1 /\ login.number <= client.number + 1
         /\ \A i \in DOMAIN toServer :
              toServer[i].kind = "login" => toServer[i].number <= client.number + 1
<1>1. client.number \in Nat /\ login.number \in Nat /\ login.number <= client.number
  BY DEF ServerInv, ServerTypes, OrderInv
<1>2. ASSUME NEW i \in DOMAIN toServer, toServer[i].kind = "login"
      PROVE  toServer[i].number <= client.number + 1
  <2>1. toServer \in Seq(SomeRequest)
    BY DEF ServerInv, ServerTypes
  <2>2. toServer[i] \in SomeRequest
    BY <2>1
  <2>3. toServer[i].number \in Nat
    BY <2>2 DEF SomeRequest, LoginRequest, TextRequest, MessageRequest, OtherRequest
  <2>4. toServer[i].number <= client.number
    BY <1>2 DEF ServerInv, OrderInv, LoginsAhead
  <2> QED BY <1>1, <2>3, <2>4
<1> QED BY <1>1, <1>2

\* A client that goes, leaving a quit or nothing.
LEMMA GoneStep ==
  ASSUME ServerInv, client' = [client EXCEPT !.pc = "gone"],
         UNCHANGED <<toClient, slips, srv, login, l1, dev>>,
         \/ UNCHANGED toServer
         \/ \E r \in SomeRequest : r.kind = "quit" /\ toServer' = Append(toServer, r)
  PROVE  ServerInv'
<1>1. /\ client'.pc = "gone" /\ client'.number = client.number
      /\ client' = [pc |-> client'.pc, number |-> client'.number, asked |-> client'.asked,
                    result |-> client'.result]
  BY DEF ServerInv, ServerTypes
<1>0. client.number \in Nat
  BY NumberFacts
<1>7. client.number <= client.number
  BY <1>0
<1>2. toServer' \in Seq(SomeRequest) /\ LoginsAhead(toServer, login.number)'
  <2>1. CASE UNCHANGED toServer
    BY <1>1, <2>1 DEF ServerInv, ServerTypes, OrderInv, LoginsAhead
  <2>2. ASSUME NEW r \in SomeRequest, r.kind = "quit", toServer' = Append(toServer, r)
        PROVE  toServer' \in Seq(SomeRequest) /\ LoginsAhead(toServer, login.number)'
    BY <1>0, <1>1, <1>7, <2>2, AppendFacts DEF LoginsAhead
  <2> QED BY <2>1, <2>2
<1>3. ServerTypes'
  BY <1>0, <1>1, <1>2 DEF ServerInv, ServerTypes
<1>4. SessionInv'
  BY DEF ServerInv, SessionInv
<1>5. OrderInv'
  BY <1>1, <1>2 DEF ServerInv, OrderInv
<1>6. AnswerInv'
  BY <1>1 DEF AnswerInv
<1> QED BY <1>3, <1>4, <1>5, <1>6 DEF ServerInv

\* A request, or the SIGPIPE that it raises.
LEMMA AskStep ==
  ASSUME ServerInv, client.pc \in {"pin", "chat"},
         NEW kind, NEW data, NEW asked, NEW long, NEW pc, Ask(kind, data, asked, long, pc),
         [kind |-> kind, data |-> data, long |-> long, number |-> client.number + 1] \in SomeRequest,
         \/ pc = "await login" /\ kind = "login"
         \/ pc = "await text" /\ kind = "encrypt" /\ data = asked
         \/ pc = "await message" /\ kind = "decrypt" /\ data = asked
  PROVE  ServerInv'
<1> DEFINE r == [kind |-> kind, data |-> data, long |-> long, number |-> client.number + 1]
<1>1. UNCHANGED <<toClient, slips, srv, login, l1, dev>>
  BY DEF Ask, ServerOnly
<1>2. CASE /\ client' = [client EXCEPT !.pc = pc, !.number = @ + 1, !.asked = asked]
           /\ toServer' = IF ServerEnded THEN toServer ELSE Append(toServer, r)
  <2>1. /\ client'.pc = pc /\ client'.number = client.number + 1 /\ client'.asked = asked
        /\ client' = [pc |-> client'.pc, number |-> client'.number, asked |-> client'.asked,
                      result |-> client'.result]
    BY <1>2 DEF ServerInv, ServerTypes
  <2>3. /\ client.number + 1 \in Nat /\ client.number <= client.number + 1
        /\ client.number < client.number + 1 /\ client.number + 1 <= client.number + 1
        /\ login.number <= client.number + 1
    BY NumberFacts
  <2>4. r \in SomeRequest /\ r.number = client.number + 1 /\ r.kind = kind /\ r.data = data
    OBVIOUS
  <2> HIDE DEF r
  <2>5. toServer' \in Seq(SomeRequest) /\ LoginsAhead(toServer, login.number)'
    <3>1. CASE ServerEnded
      <4>1. toServer' = toServer
        BY <1>2, <3>1
      <4>2. \A i \in DOMAIN toServer :
              toServer[i].kind = "login" => toServer[i].number <= client.number + 1
        BY NumberFacts
      <4> QED BY <1>1, <2>1, <4>1, <4>2 DEF ServerInv, ServerTypes, OrderInv, LoginsAhead
    <3>2. CASE ~ServerEnded
      <4>1. toServer' = Append(toServer, r)
        BY <1>2, <3>2
      <4>2. r.kind = "login" => client.number < r.number /\ r.number <= client.number + 1
        BY <2>3, <2>4
      <4> QED BY <1>1, <2>1, <2>3, <2>4, <4>1, <4>2, AppendFacts DEF LoginsAhead
    <3> QED BY <3>1, <3>2
  <2>6. ServerTypes'
    BY <1>1, <2>1, <2>3, <2>5 DEF ServerInv, ServerTypes
  <2>7. SessionInv'
    BY <1>1 DEF ServerInv, SessionInv
  <2>8. OrderInv'
    BY <1>1, <2>1, <2>3, <2>5 DEF ServerInv, OrderInv
  <2>9. AnswerInv'
    <3> SUFFICES ASSUME slips = 0 PROVE Phase'
      BY <1>1 DEF AnswerInv
    <3>1. Phase /\ ~Awaits /\ client.pc # "gone"
      BY DEF ServerInv, AnswerInv, Awaits
    <3>2. CASE srv \in Dead /\ toClient = <<>>
      BY <1>1, <3>2 DEF Phase
    <3>3. CASE srv \in {"reading", "serving"} /\ Silent
      <4>1. toServer' = Append(toServer, r)
        BY <1>2, <3>3 DEF ServerEnded
      <4>2. toServer' = <<toServer'[1]>> /\ toServer'[1] = r
        <5>1. toServer' = <<r>>
          BY <2>3, <2>4, <3>3, <4>1, AppendFacts DEF Silent
        <5> QED BY <5>1
      <4>3. Awaits' /\ Posed(toServer[1])'
        BY <2>1, <2>4, <4>2 DEF Awaits, Posed
      <4> QED BY <1>1, <3>3, <4>2, <4>3 DEF Phase, Silent
    <3> QED BY <3>1, <3>2, <3>3 DEF Phase, Awaits
  <2> QED BY <2>6, <2>7, <2>8, <2>9 DEF ServerInv
<1>3. CASE client' = [client EXCEPT !.pc = "gone"] /\ UNCHANGED toServer
  BY <1>1, <1>3, GoneStep
<1> QED BY <1>2, <1>3 DEF Ask

LEMMA RequestSteps ==
  ASSUME ServerInv,
         \/ \E pin \in {"right", "wrong", "long"} : accessButtonClicked(pin)
         \/ \E t \in Text : sendButtonClicked(t)
         \/ \E m \in Incoming : showMessage(m)
  PROVE  ServerInv'
<1>1. client.number + 1 \in Nat
  BY NumberFacts
<1>2. ASSUME NEW pin \in {"right", "wrong", "long"}, accessButtonClicked(pin) PROVE ServerInv'
  <2>1. [kind |-> "login", data |-> pin, long |-> FALSE, number |-> client.number + 1]
          \in SomeRequest
    BY <1>1 DEF SomeRequest, LoginRequest, Pin
  <2> QED BY <1>2, <2>1, AskStep DEF accessButtonClicked
<1>3. ASSUME NEW t \in Text, sendButtonClicked(t) PROVE ServerInv'
  <2>1. [kind |-> "encrypt", data |-> <<"text", t>>, long |-> t \in Long,
         number |-> client.number + 1] \in SomeRequest
    <3>1. <<"text", t>> \in Sent /\ (t \in Long) \in BOOLEAN
      BY DEF Sent
    <3> QED BY <1>1, <3>1 DEF SomeRequest, TextRequest
  <2> QED BY <1>3, <2>1, AskStep DEF sendButtonClicked
<1>4. ASSUME NEW m \in Incoming, showMessage(m) PROVE ServerInv'
  <2>1. [kind |-> "decrypt", data |-> m, long |-> FALSE, number |-> client.number + 1]
          \in SomeRequest
    BY <1>1 DEF SomeRequest, MessageRequest
  <2> QED BY <1>4, <2>1, AskStep DEF showMessage
<1> QED BY <1>2, <1>3, <1>4

LEMMA AnsweredStep ==
  ASSUME ServerInv, LoginAnswered \/ EncOrDec
  PROVE  ServerInv'
<1>1. PICK pc, result : pc \in {"pin", "chat"} /\ TakeAnswer(pc, result) /\ Answered
  <2>1. CASE LoginAnswered
    BY <2>1 DEF LoginAnswered
  <2>2. CASE EncOrDec
    BY <2>2 DEF EncOrDec
  <2> QED BY <2>1, <2>2
<1>2. /\ client' = [client EXCEPT !.pc = pc, !.asked = Nothing, !.result = result]
      /\ toClient' = IF toClient = <<>> THEN <<>> ELSE Tail(toClient)
      /\ UNCHANGED <<toServer, slips, srv, login, l1, dev>>
  BY <1>1 DEF TakeAnswer, ServerOnly
<1>3. /\ client'.pc = pc /\ client'.pc \in {"pin", "chat"} /\ client'.number = client.number
      /\ client' = [pc |-> client'.pc, number |-> client'.number, asked |-> client'.asked,
                    result |-> client'.result]
  BY <1>1, <1>2 DEF ServerInv, ServerTypes
<1>4. /\ toClient' \in Seq(SomeAnswer)
      /\ \A i \in DOMAIN toClient' : \E j \in DOMAIN toClient : toClient'[i] = toClient[j]
  <2>1. toClient \in Seq(SomeAnswer)
    BY DEF ServerInv, ServerTypes
  <2>2. CASE toClient = <<>>
    BY <1>2, <2>1, <2>2
  <2>3. CASE toClient # <<>>
    <3>1. toClient' = Tail(toClient)
      BY <1>2, <2>3
    <3>2. Tail(toClient) \in Seq(SomeAnswer)
      BY <2>1, <2>3
    <3>3. \A i \in DOMAIN Tail(toClient) :
            i + 1 \in DOMAIN toClient /\ Tail(toClient)[i] = toClient[i + 1]
      BY <2>1, <2>3
    <3> QED BY <3>1, <3>2, <3>3
  <2> QED BY <2>2, <2>3
<1>5. ServerTypes'
  BY <1>2, <1>3, <1>4 DEF ServerInv, ServerTypes
<1>6. SessionInv'
  BY <1>2 DEF ServerInv, SessionInv
<1>7. OrderInv'
  BY <1>2, <1>3, <1>4 DEF ServerInv, OrderInv, LoginsAhead
<1>8. AnswerInv'
  <2> SUFFICES ASSUME slips = 0 PROVE Phase'
    BY <1>2 DEF AnswerInv
  <2>1. Awaits /\ Phase
    BY <1>1 DEF Answered, ServerInv, AnswerInv, Awaits
  <2>2. ~Awaits'
    BY <1>3 DEF Awaits
  <2>3. CASE toClient = <<>>
    BY <1>1, <1>2, <2>3 DEF Answered, ServerEnded, Phase, Dead
  <2>4. CASE toClient # <<>>
    <3>1. srv \in {"reading", "serving"} /\ toServer = <<>> /\ toClient = <<toClient[1]>>
      BY <2>1, <2>4 DEF Phase, Silent
    <3>2. toClient' = <<>>
      <4>1. PICK x : toClient = <<x>>
        BY <3>1
      <4>2. Tail(<<x>>) = <<>>
        OBVIOUS
      <4> QED BY <1>2, <2>4, <4>1, <4>2
    <3> QED BY <1>2, <2>2, <3>1, <3>2 DEF Phase, Silent
  <2> QED BY <2>3, <2>4
<1> QED BY <1>5, <1>6, <1>7, <1>8 DEF ServerInv

LEMMA LeavingSteps ==
  ASSUME ServerInv, CloseWindow \/ Crash
  PROVE  ServerInv'
<1>1. /\ client' = [client EXCEPT !.pc = "gone"]
      /\ UNCHANGED <<toClient, slips, srv, login, l1, dev>>
  BY DEF CloseWindow, Crash, ServerOnly
<1> DEFINE r == [kind |-> "quit", data |-> Nothing, long |-> FALSE, number |-> 0]
<1>2. r \in SomeRequest /\ r.kind = "quit"
  BY DEF SomeRequest, OtherRequest
<1>3. toServer' \in {toServer, Append(toServer, r)}
  BY DEF CloseWindow, Crash
<1> HIDE DEF r
<1> QED BY <1>1, <1>2, <1>3, GoneStep

LEMMA StartStep ==
  ASSUME ServerInv, Start
  PROVE  ServerInv'
<1>1. /\ client' = [pc |-> "pin", number |-> 0, asked |-> Nothing, result |-> NoResult]
      /\ toServer' = <<>> /\ toClient' = <<>>
      /\ srv' = "reading" /\ login' = NoLogin /\ l1' = NoL1
      /\ dev' \in {NoSession, Foreign} /\ slips' = 0
  BY DEF Start
<1>2. ServerTypes'
  BY <1>1 DEF ServerTypes, NoLogin, NoL1
<1>3. SessionInv'
  BY <1>1 DEF SessionInv
<1>4. OrderInv'
  BY <1>1 DEF OrderInv, LoginsAhead, NoLogin
<1>5. AnswerInv'
  BY <1>1 DEF AnswerInv, Phase, Silent, Awaits
<1> QED BY <1>2, <1>3, <1>4, <1>5 DEF ServerInv

LEMMA ServerNext == ServerInv /\ [Next]_vars => ServerInv'
<1> SUFFICES ASSUME ServerInv, [Next]_vars PROVE ServerInv'
  OBVIOUS
<1>1. CASE ServerStep
  BY <1>1, ReadFailsStep, ReadLoginStep, MakeL1Step, CountDevicesStep, ChallengeStep,
     L1LogoutForcedStep, L1LoginStep, DatabasesStep, SetupOkStep, ServeStep, WrongRequestStep,
     QuitStep, LeaveStep, DesertedStep DEF ServerStep
<1>2. CASE ClientStep
  BY <1>2, RequestSteps, AnsweredStep, LeavingSteps, StartStep DEF ClientStep
<1>3. CASE UNCHANGED vars
  BY <1>3 DEF vars, ServerInv, ServerTypes, SessionInv, OrderInv, LoginsAhead, AnswerInv, Phase,
              Silent, Awaits, Posed, Answering
<1> QED BY <1>1, <1>2, <1>3 DEF Next

LEMMA ServerInvAlways == Spec => []ServerInv
BY ServerInit, ServerNext, PTL DEF Spec

\* As long as every read takes one request, an answer is the only one, is to the
\* request that the client waits for and has what was asked (read and write of
\* SEcubeServer.cpp, enc_or_dec): for any number of logins, requests and faults.
THEOREM OwnAnswerAlways == Spec => []OwnAnswer
<1>1. ServerInv => OwnAnswer
  <2> SUFFICES ASSUME ServerInv, Awaits, toClient # <<>>, slips = 0
               PROVE  /\ Len(toClient) = 1
                      /\ Head(toClient).to = client.number
                      /\ Head(toClient).status = "0_" =>
                           Head(toClient).data = IF client.pc = "await text"
                                                 THEN Cipher(client.asked)
                                                 ELSE Plain(client.asked[2])
    BY DEF OwnAnswer
  <2>1. toClient = <<toClient[1]>> /\ Answering(toClient[1])
    BY DEF ServerInv, AnswerInv, Phase, Silent, Awaits
  <2>2. Len(toClient) = 1 /\ Head(toClient) = toClient[1]
    <3>1. PICK x : toClient = <<x>>
      BY <2>1
    <3> QED BY <3>1
  <2> QED BY <2>1, <2>2 DEF Answering
<1> QED BY <1>1, ServerInvAlways, PTL

\* A server that ends in good order has closed its session, wherever it was when it
\* was told to quit (quit, sekey_stop and the destructor of L1).
THEOREM LeftCleanAlways == Spec => []LeftClean
<1>1. ServerInv => LeftClean
  BY DEF ServerInv, SessionInv, LeftClean
<1> QED BY <1>1, ServerInvAlways, PTL

\* A login in which no exchange has failed is refused for its PIN only: a session
\* left open by any attempt before it is closed by force (L1Login).
THEOREM RightPinOpensAlways == Spec => []RightPinOpens
<1>1. ServerInv => RightPinOpens
  BY DEF ServerInv, OrderInv, RightPinOpens
<1> QED BY <1>1, ServerInvAlways, PTL

-----------------------------------------------------------------------------
(* The databases: the object of a name that is found first is the one that *)
(* this login has made.                                                    *)

Object == [name : {"sekey", "setelegram"}, l1 : Nat]

InUse(name) == Named(databases, name) # {} /\ Opened(databases, name).l1 = l1.id

DatabasesInv ==
  /\ databases \in Seq(Object) /\ l1.id \in Nat
  /\ srv \in {"telegram", "ready", "serving"} => InUse("sekey")
  /\ srv \in {"ready", "serving"} => InUse("setelegram")

\* A set of numbers that is not empty has a least one.
LEMMA LeastNumber ==
  ASSUME NEW T \in SUBSET Nat, T # {}
  PROVE  Min(T) \in T /\ \A n \in T : Min(T) <= n
<1> DEFINE R == OpToRel(<, Nat)
<1>1. IsWellFoundedOn(R, Nat)
  BY NatLessThanWellFounded
<1>2. PICK m \in T : \A n \in T : ~(<<n, m>> \in R)
  <2> HIDE DEF R
  <2> QED BY <1>1, WFMin
<1>3. \A n \in T : ~(n < m)
  BY <1>2 DEF OpToRel
<1>4. \A n \in T : m <= n
  BY <1>3
<1> QED BY <1>4 DEF Min

\* The object of a name that is found is one of the name, and stays the one that is
\* found when another is made.
LEMMA OpenedFacts ==
  ASSUME NEW D \in Seq(Object), NEW name, Named(D, name) # {}
  PROVE  Min(Named(D, name)) \in DOMAIN D /\ D[Min(Named(D, name))].name = name
<1>1. Named(D, name) \in SUBSET Nat
  BY DEF Named
<1> QED BY <1>1, LeastNumber DEF Named

LEMMA OpeningFacts ==
  ASSUME NEW D \in Seq(Object), NEW e \in Object
  PROVE  /\ Append(D, e) \in Seq(Object)
         /\ Named(Append(D, e), e.name) # {}
         /\ \A name : name # e.name /\ Named(D, name) # {} =>
              /\ Named(Append(D, e), name) = Named(D, name)
              /\ Opened(Append(D, e), name) = Opened(D, name)
<1> DEFINE E == Append(D, e)
<1>1. E \in Seq(Object) /\ DOMAIN E = DOMAIN D \cup {Len(D) + 1} /\ E[Len(D) + 1] = e
      /\ \A i \in DOMAIN D : E[i] = D[i]
  OBVIOUS
<1> HIDE DEF E
<1>2. Named(E, e.name) # {}
  BY <1>1 DEF Named
<1>3. ASSUME NEW name, name # e.name, Named(D, name) # {}
      PROVE  Named(E, name) = Named(D, name) /\ Opened(E, name) = Opened(D, name)
  <2>1. Named(E, name) = Named(D, name)
    BY <1>1, <1>3 DEF Named
  <2>2. Min(Named(D, name)) \in DOMAIN D
    BY <1>3, OpenedFacts
  <2> QED BY <1>1, <2>1, <2>2 DEF Opened
<1> QED BY <1>1, <1>2, <1>3 DEF E

LEMMA ClosedFacts ==
  ASSUME NEW D \in Seq(Object), NEW name
  PROVE  Closed(D, name) \in Seq(Object)
<1>1. CASE Named(D, name) = {}
  BY <1>1 DEF Closed
<1>2. CASE Named(D, name) # {}
  <2> DEFINE i == Min(Named(D, name))
  <2>1. i \in 1..Len(D)
    BY <1>2, OpenedFacts
  <2> HIDE DEF i
  <2>2. SubSeq(D, 1, i - 1) \in Seq(Object)
    BY <2>1
  <2>3. SubSeq(D, i + 1, Len(D)) \in Seq(Object)
    BY <2>1
  <2>4. RemoveAt(D, i) \in Seq(Object)
    BY <2>2, <2>3 DEF RemoveAt
  <2> QED BY <1>2, <2>4 DEF Closed, i
<1> QED BY <1>1, <1>2

\* What becomes of the objects in c_sql_secure_open, whether it succeeds or not.
LEMMA OpenDatabaseFacts ==
  ASSUME ServerInv, DatabasesInv, NEW name \in {"sekey", "setelegram"}, UNCHANGED l1
  PROVE  /\ Opening(name) \in Seq(Object)
         /\ LeftOpening(name) \subseteq Seq(Object)
         /\ ~UsesOldL1(name) /\ databases' = Opening(name) => InUse(name)'
         /\ \A other : databases' = Opening(name) /\ other # name /\ InUse(other) => InUse(other)'
<1>1. Entry(name) \in Object /\ Entry(name).name = name
  <2>1. l1.id \in Nat
    BY DEF DatabasesInv
  <2> QED BY <2>1 DEF Entry, Object
<1>2. databases \in Seq(Object)
  BY DEF DatabasesInv
<1>3. Opening(name) \in Seq(Object) /\ Named(Opening(name), name) # {}
  BY <1>1, <1>2, OpeningFacts DEF Opening
<1>4. LeftOpening(name) \subseteq Seq(Object)
  BY <1>3, ClosedFacts DEF LeftOpening
<1>5. ~UsesOldL1(name) /\ databases' = Opening(name) => InUse(name)'
  BY <1>3 DEF UsesOldL1, InUse
<1>6. ASSUME NEW other, databases' = Opening(name), other # name, InUse(other)
      PROVE  InUse(other)'
  BY <1>1, <1>2, <1>6, OpeningFacts DEF Opening, InUse
<1> QED BY <1>3, <1>4, <1>5, <1>6

LEMMA DatabasesOpened ==
  ASSUME ServerInv, DatabasesInv, sekey_start \/ setelegram
  PROVE  DatabasesInv'
<1>1. CASE sekey_start
  <2>1. UNCHANGED l1
    BY <1>1 DEF sekey_start
  <2>2. CASE OpenDatabase("sekey", "telegram")
    BY <2>1, <2>2, OpenDatabaseFacts DEF OpenDatabase, DatabasesInv
  <2>3. CASE srv' = "reading" /\ databases' \in {databases} \cup LeftOpening("sekey")
    BY <2>1, <2>3, OpenDatabaseFacts DEF DatabasesInv
  <2> QED BY <1>1, <2>2, <2>3 DEF sekey_start, LoginFails
<1>2. CASE setelegram
  <2>1. UNCHANGED l1 /\ srv = "telegram"
    BY <1>2 DEF setelegram
  <2>2. CASE OpenDatabase("setelegram", "ready")
    BY <2>1, <2>2, OpenDatabaseFacts DEF OpenDatabase, DatabasesInv
  <2>3. ASSUME srv' = "reading", NEW D \in {databases} \cup LeftOpening("setelegram"),
               databases' = Closed(D, "sekey")
        PROVE  DatabasesInv'
    BY <2>1, <2>3, OpenDatabaseFacts, ClosedFacts DEF DatabasesInv
  <2> QED BY <1>2, <2>2, <2>3 DEF setelegram, LoginFails
<1> QED BY <1>1, <1>2

LEMMA DatabasesNext == ServerInv /\ DatabasesInv /\ [Next]_vars => DatabasesInv'
<1> SUFFICES ASSUME ServerInv, DatabasesInv, [Next]_vars PROVE DatabasesInv'
  OBVIOUS
<1>1. CASE sekey_start \/ setelegram
  BY <1>1, DatabasesOpened
<1>2. CASE UNCHANGED <<databases, l1>> /\ srv' \notin {"telegram", "ready", "serving"}
  BY <1>2 DEF DatabasesInv
<1>3. CASE UNCHANGED <<databases, l1, srv>>
  BY <1>3 DEF DatabasesInv, InUse
<1>4. CASE MakeL1
  <2>1. srv' \in {"counting", "terminated"}
    BY <1>4, DestroyFacts DEF MakeL1, ServerInv
  <2>2. l1'.id = login.number /\ login.number \in Nat /\ databases' = databases
    BY <1>4 DEF MakeL1, NewL1, ServerInv, ServerTypes
  <2> QED BY <2>1, <2>2 DEF DatabasesInv
<1>5. CASE L1Login
  <2>1. databases' = databases /\ l1'.id = l1.id /\ srv' \in {"sekey", "reading"}
    BY <1>5 DEF L1Login, LoginFails, ServerInv, ServerTypes
  <2> QED BY <2>1 DEF DatabasesInv
<1>6. CASE SetupOk
  BY <1>6 DEF SetupOk, DatabasesInv, InUse
<1>7. CASE Quit
  <2>1. srv' \in {"ended", "terminated"}
    BY <1>7, DestroyFacts DEF Quit, ServerInv
  <2>2. l1'.id = l1.id
    BY <1>7 DEF Quit, ServerInv, ServerTypes
  <2>3. databases' \in Seq(Object)
    BY <1>7, ClosedFacts DEF Quit, DatabasesInv
  <2> QED BY <2>1, <2>2, <2>3 DEF DatabasesInv
<1>8. CASE Serve
  <2>1. UNCHANGED <<databases, l1>> /\ srv' \in {srv, "terminated"}
    BY <1>8 DEF Serve
  <2> QED BY <2>1, <1>2, <1>3
<1>9. CASE Start
  BY <1>9 DEF Start, NoL1, DatabasesInv
<1>10. CASE ReadFails \/ WrongRequest \/ CountDevices \/ Challenge \/ L1LogoutForced \/ Deserted
  <2>1. UNCHANGED <<databases, l1>>
    BY <1>10 DEF ReadFails, WrongRequest, CountDevices, Challenge, L1LogoutForced, Deserted
  <2>2. srv' = srv \/ srv' \notin {"telegram", "ready", "serving"}
    BY <1>10 DEF ReadFails, WrongRequest, CountDevices, Challenge, L1LogoutForced, Deserted,
                 LoginFails
  <2> QED BY <2>1, <2>2, <1>2, <1>3
<1>11. CASE ReadLogin
  <2>1. UNCHANGED <<databases, l1>> /\ srv' \in {"leaving", "renewing", srv}
    BY <1>11 DEF ReadLogin
  <2> QED BY <2>1, <1>2, <1>3
<1>12. CASE Leave
  <2>1. srv' \in {"ended", "terminated"} /\ UNCHANGED <<databases, l1>>
    BY <1>12, DestroyFacts DEF Leave, ServerInv
  <2> QED BY <2>1, <1>2
<1>13. CASE \/ \E pin \in {"right", "wrong", "long"} : accessButtonClicked(pin)
            \/ \E t \in Text : sendButtonClicked(t)
            \/ \E m \in Incoming : showMessage(m)
            \/ LoginAnswered \/ EncOrDec \/ CloseWindow \/ Crash
  <2>1. UNCHANGED <<databases, l1, srv>>
    BY <1>13 DEF accessButtonClicked, sendButtonClicked, showMessage, LoginAnswered, EncOrDec,
                 CloseWindow, Crash, Ask, TakeAnswer, ServerOnly
  <2> QED BY <2>1, <1>3
<1>14. CASE UNCHANGED vars
  BY <1>3, <1>14 DEF vars
<1> QED BY <1>1, <1>4, <1>5, <1>6, <1>7, <1>8, <1>9, <1>10, <1>11, <1>12, <1>13, <1>14
        DEF Next, ServerStep, ClientStep

\* Whatever attempts have failed before, the server works in the session that the
\* device has and with databases that use its L1 object (L1Login, sekey_start, the
\* constructor of setelegram): those of earlier logins are not found first.
THEOREM SessionInUseAlways == Spec => []SessionInUse
<1>1. Init => DatabasesInv
  BY DEF Init, DatabasesInv, NoL1
<1>2. Spec => []DatabasesInv
  BY <1>1, ServerInvAlways, DatabasesNext, PTL DEF Spec
<1>3. ServerInv /\ DatabasesInv => SessionInUse
  BY DEF ServerInv, SessionInv, DatabasesInv, InUse, SessionInUse
<1> QED BY <1>2, <1>3, ServerInvAlways, PTL
=============================================================================
