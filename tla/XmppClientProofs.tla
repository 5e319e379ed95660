--------------------------- MODULE XmppClientProofs ---------------------------
(***************************************************************************)
(* The XMPP client, for every set of features a server may advertise and   *)
(* whatever it says and when: the session begins at most once and on an    *)
(* accepted login, the login is a link, and no secret leaves in clear once *)
(* TLS has been offered.                                                   *)
(*                                                                         *)
(* The login is a conversation in turns.  At any time at most one element  *)
(* or stanza that moves it on is under way, between the two ends or in     *)
(* what the client has read; what it has no turn of can neither begin the  *)
(* session nor choose another way to log in.  That is what the invariant   *)
(* says first; the rest follows what the one message under way may be.     *)
(***************************************************************************)
EXTENDS XmppClient, SequenceTheorems, TLAPS

-----------------------------------------------------------------------------
(* The inductive invariant.                                                *)

Elements(s) == {s[i] : i \in DOMAIN s}

\* The messages that move the login on, of the server and of the client.
Turn(message) ==
    message.name \in {"features", "proceed", "tls failure", "tls done", "tls broken",
                      "sasl failure", "challenge", "success", "result", "error", "old stream",
                      "header", "starttls", "handshake", "auth", "response", "iq"}

HasTurn(s) == \E i \in DOMAIN s : Turn(s[i])
OneTurn(s) == \A i, j \in DOMAIN s : Turn(s[i]) /\ Turn(s[j]) => i = j

\* What the client has not handled yet.
Arriving == Elements(elements) \cup Elements(fromServer)

\* The socket, the pump's hold of it and the client agree.
Attached ==
    /\ ~tried =>
          /\ handle = "none" /\ client = NoClient /\ server = NoLogin /\ "xmpp" \notin ready
          /\ sessions = 0 /\ ~refused /\ ~exposed
          /\ elements = <<>> /\ fromServer = <<>> /\ toServer = <<>>
    /\ request = "authentication" => ~tried
    /\ handle = "none" => "xmpp" \notin attached /\ elements = <<>>
    /\ client.connected <=> handle = "own"
    /\ client.connected => "xmpp" \in attached
    /\ pump \in {"elements", "terminated"} \/ elements = <<>>
    /\ pump = "elements" => "xmpp" \in attached

\* The two ends take turns, and the last one is the login's end.
Turns ==
    /\ OneTurn(elements) /\ OneTurn(fromServer) /\ OneTurn(toServer)
    /\ ~(HasTurn(elements) /\ HasTurn(fromServer))
    /\ ~(HasTurn(elements) /\ HasTurn(toServer))
    /\ ~(HasTurn(fromServer) /\ HasTurn(toServer))
    /\ sessions > 0 \/ refused =>
          ~HasTurn(elements) /\ ~HasTurn(fromServer) /\ ~HasTurn(toServer)
    /\ sessions <= 1
    /\ refused => sessions = 0

\* The server knows the password, or a challenge of no rounds stands for it.
Accepted ==
    \/ server.authed = "yes"
    \/ server.authed = "forged" /\ client.signature = "open"

\* What an element presupposes of the login.
Founded(e) ==
    /\ e.name = "success" =>
          /\ server.authed # "no"
          /\ e.signature = "secret" => server.authed = "yes"
          /\ server.authed = "forged" => client.mech = "scram"
    /\ e.name = "result" /\ e.to = "credentials" => server.authed = "yes"
    /\ e.name = "challenge" => client.mech # "none" /\ server.authed = "no"

\* Whatever the client concludes from has been preceded by an acceptance.
Acceptance ==
    /\ client.authed => Accepted
    /\ client.awaiting \cap {"bind", "session", "roster"} # {} => Accepted
    /\ \A e \in Arriving : Founded(e)
    /\ \A s \in Elements(toServer) : s.name \in {"auth", "response"} => s.mech = client.mech
    /\ SessionNeedsAcceptance

\* What the client may still be told or say while it owes the server TLS.
TlsFirst(message) ==
    \/ message.name = "features" /\ "starttls" \in message.offers
    \/ message.name \in {"starttls", "proceed", "tls failure"}

\* A stream that offers TLS is the first, and nothing else comes before it.
Secrecy ==
    /\ \A s \in Elements(toServer) :
          s.name = "header" =>
             server.encrypted \/ server.authed # "no" \/ (~exposed /\ "starttls" \notin server.offered)
    /\ \A e \in Arriving : e.name = "tls done" => server.encrypted
    /\ "starttls" \in server.offered /\ client.connected /\ ~client.encrypted =>
          \A m \in Arriving \cup Elements(toServer) : Turn(m) => TlsFirst(m)
    /\ NoSecretInClear

\* The elements that end the stream, and the stanzas and the answers by which
\* a client that is logged in gets its resource and its session.
Ending(message) == message.name \in {"end", "stream error"}
Binding(message) == message.name \in {"iq", "result"} /\ message.to \in {"bind", "session"}

\* Nothing follows the end of the stream.
Ordered(s) == \A i, j \in DOMAIN s : i < j /\ Ending(s[i]) => Ending(s[j])

LastWords ==
    /\ Ordered(elements) /\ Ordered(fromServer)
    /\ (\E e \in Elements(elements) : Ending(e)) => \A e \in Elements(fromServer) : Ending(e)
    /\ (\E e \in Arriving : Ending(e)) => server.ended

\* A client loses its login, and yet goes on, only when the line breaks.
StaysLoggedIn ==
    line # "reset" /\ ~client.authed =>
        /\ \A e \in Arriving : ~Binding(e)
        /\ client.connected => \A s \in Elements(toServer) : ~Binding(s)

IInv ==
    /\ TypeOK
    /\ Attached
    /\ Turns
    /\ Acceptance
    /\ Secrecy

-----------------------------------------------------------------------------
(* Queues.                                                                 *)

\* What is in a queue, and where its turn is, after one more has been sent.
LEMMA AppendTurn ==
    ASSUME NEW S, NEW s \in Seq(S), NEW e \in S
    PROVE  /\ Append(s, e) \in Seq(S)
           /\ Elements(Append(s, e)) = Elements(s) \cup {e}
           /\ HasTurn(Append(s, e)) <=> HasTurn(s) \/ Turn(e)
           /\ OneTurn(s) /\ ~(HasTurn(s) /\ Turn(e)) => OneTurn(Append(s, e))
  <1> DEFINE t == Append(s, e)
             n == Len(s)
  <1>1. /\ t \in Seq(S) /\ n \in Nat
        /\ \A i \in 1 .. n : t[i] = s[i]
        /\ t[n + 1] = e
        /\ DOMAIN t = 1 .. n + 1 /\ DOMAIN s = 1 .. n
    BY AppendProperties, LenProperties
  <1>2. 1 .. n + 1 = (1 .. n) \cup {n + 1} /\ n + 1 \notin 1 .. n
    BY <1>1
  <1> HIDE DEF t, n
  <1>3. Elements(t) = Elements(s) \cup {e}
    BY <1>1, <1>2 DEF Elements
  <1>4. HasTurn(t) <=> HasTurn(s) \/ Turn(e)
    BY <1>1, <1>2, Zenon DEF HasTurn
  <1>5. ASSUME OneTurn(s), ~(HasTurn(s) /\ Turn(e)) PROVE OneTurn(t)
    <2>1. SUFFICES ASSUME NEW i \in DOMAIN t, NEW j \in DOMAIN t, Turn(t[i]), Turn(t[j])
                   PROVE  i = j
      BY DEF OneTurn
    <2>2. CASE i = n + 1 /\ j = n + 1
      BY <2>2
    <2>3. CASE i \in 1 .. n /\ j \in 1 .. n
      BY <1>1, <1>5, <2>1, <2>3, Zenon DEF OneTurn
    <2>4. CASE i \in 1 .. n /\ j = n + 1
      BY <1>1, <1>5, <2>1, <2>4, Zenon DEF HasTurn
    <2>5. CASE j \in 1 .. n /\ i = n + 1
      BY <1>1, <1>5, <2>1, <2>5, Zenon DEF HasTurn
    <2> QED
      BY <1>1, <1>2, <2>2, <2>3, <2>4, <2>5, Zenon
  <1> QED
    BY <1>1, <1>3, <1>4, <1>5 DEF t

\* After the first has been taken.
LEMMA TailTurn ==
    ASSUME NEW S, NEW s \in Seq(S), s # <<>>
    PROVE  /\ Tail(s) \in Seq(S)
           /\ Head(s) \in S /\ Head(s) \in Elements(s)
           /\ Elements(Tail(s)) \subseteq Elements(s)
           /\ HasTurn(Tail(s)) => HasTurn(s)
           /\ Turn(Head(s)) => HasTurn(s)
           /\ OneTurn(s) => OneTurn(Tail(s)) /\ ~(Turn(Head(s)) /\ HasTurn(Tail(s)))
  <1> DEFINE t == Tail(s)
             n == Len(s)
             next(i) == i + 1
  <1>1. /\ t \in Seq(S) /\ Head(s) \in S /\ Head(s) = s[1]
        /\ n \in Nat \ {0} /\ Len(t) = n - 1
        /\ \A i \in 1 .. n - 1 : t[i] = s[i + 1]
    OBVIOUS
  <1>2. DOMAIN s = 1 .. n /\ DOMAIN t = 1 .. n - 1
    BY <1>1
  <1>3. \A i \in 1 .. n - 1 : next(i) \in 1 .. n /\ next(i) # 1
    BY <1>1
  <1>4. \A i, j \in 1 .. n - 1 : next(i) = next(j) => i = j
    BY <1>1
  <1>5. 1 \in 1 .. n
    BY <1>1
  <1>6. \A i \in DOMAIN t : next(i) \in DOMAIN s /\ next(i) # 1 /\ t[i] = s[next(i)]
    BY <1>1, <1>2, <1>3
  <1>7. \A i, j \in DOMAIN t : next(i) = next(j) => i = j
    BY <1>2, <1>4
  <1>8. 1 \in DOMAIN s
    BY <1>2, <1>5
  <1> HIDE DEF next, t, n
  <1>9. Elements(t) \subseteq Elements(s) /\ Head(s) \in Elements(s)
    BY <1>1, <1>6, <1>8 DEF Elements
  <1>10. HasTurn(t) => HasTurn(s)
    BY <1>6, Zenon DEF HasTurn
  <1>11. Turn(Head(s)) => HasTurn(s)
    BY <1>1, <1>8, Zenon DEF HasTurn
  <1>12. OneTurn(s) => OneTurn(t)
    BY <1>6, <1>7, Zenon DEF OneTurn
  <1>13. OneTurn(s) => ~(Turn(Head(s)) /\ HasTurn(t))
    BY <1>1, <1>6, <1>8, Zenon DEF OneTurn, HasTurn
  <1> QED
    BY <1>1, <1>9, <1>10, <1>11, <1>12, <1>13 DEF t

\* Two are appended one after the other.
LEMMA AppendBoth ==
    ASSUME NEW S, NEW s \in Seq(S), NEW d \in S, NEW e \in S
    PROVE  s \o <<d, e>> = Append(Append(s, d), e)
  <1>1. /\ Append(s, d) \in Seq(S) /\ Append(Append(s, d), e) \in Seq(S) /\ <<d, e>> \in Seq(S)
        /\ s \o <<d, e>> \in Seq(S)
    BY AppendTurn
  <1>2. /\ Len(Append(Append(s, d), e)) = Len(s) + 2 /\ Len(s \o <<d, e>>) = Len(s) + 2
        /\ Len(s) \in Nat
    BY <1>1
  <1>3. \A i \in 1 .. Len(s) + 2 : (s \o <<d, e>>)[i] = Append(Append(s, d), e)[i]
    <2>1. SUFFICES ASSUME NEW i \in 1 .. Len(s) + 2
                   PROVE  (s \o <<d, e>>)[i] = Append(Append(s, d), e)[i]
      OBVIOUS
    <2>2. CASE i \in 1 .. Len(s)
      BY <1>1, <1>2, <2>2
    <2>3. CASE i = Len(s) + 1
      BY <1>1, <1>2, <2>3
    <2>4. CASE i = Len(s) + 2
      BY <1>1, <1>2, <2>4
    <2> QED
      BY <1>2, <2>2, <2>3, <2>4
  <1> QED
    BY <1>1, <1>2, <1>3, SeqEqual

\* After two, the first of which has no turn.
LEMMA AppendTwo ==
    ASSUME NEW S, NEW s \in Seq(S), NEW d \in S, NEW e \in S, ~Turn(d)
    PROVE  /\ s \o <<d, e>> \in Seq(S)
           /\ Elements(s \o <<d, e>>) = Elements(s) \cup {d, e}
           /\ HasTurn(s \o <<d, e>>) <=> HasTurn(s) \/ Turn(e)
           /\ OneTurn(s) /\ ~(HasTurn(s) /\ Turn(e)) => OneTurn(s \o <<d, e>>)
  <1>1. s \o <<d, e>> = Append(Append(s, d), e)
    BY AppendBoth
  <1> DEFINE t == Append(s, d)
  <1>2. /\ t \in Seq(S) /\ Elements(t) = Elements(s) \cup {d}
        /\ HasTurn(t) <=> HasTurn(s)
        /\ OneTurn(s) => OneTurn(t)
    BY AppendTurn
  <1> HIDE DEF t
  <1>3. /\ Append(t, e) \in Seq(S) /\ Elements(Append(t, e)) = Elements(t) \cup {e}
        /\ HasTurn(Append(t, e)) <=> HasTurn(t) \/ Turn(e)
        /\ OneTurn(t) /\ ~(HasTurn(t) /\ Turn(e)) => OneTurn(Append(t, e))
    BY <1>2, AppendTurn
  <1>4. Elements(Append(t, e)) = Elements(s) \cup {d, e}
    BY <1>2, <1>3
  <1>5. s \o <<d, e>> = Append(t, e)
    BY <1>1 DEF t
  <1> QED
    BY <1>2, <1>3, <1>4, <1>5, Zenon

\* A queue read in two pieces.
LEMMA SplitTurn ==
    ASSUME NEW S, NEW s \in Seq(S), NEW n \in 1 .. Len(s)
    PROVE  LET a == SubSeq(s, 1, n)
               b == SubSeq(s, n + 1, Len(s))
           IN  /\ a \in Seq(S) /\ b \in Seq(S)
               /\ Elements(a) \cup Elements(b) \subseteq Elements(s)
               /\ HasTurn(a) \/ HasTurn(b) => HasTurn(s)
               /\ OneTurn(s) => OneTurn(a) /\ OneTurn(b) /\ ~(HasTurn(a) /\ HasTurn(b))
  <1> DEFINE a == SubSeq(s, 1, n)
             b == SubSeq(s, n + 1, Len(s))
             at(i) == i + n
  <1>1. /\ a \in Seq(S) /\ b \in Seq(S) /\ Len(s) \in Nat /\ n \in Nat
        /\ Len(a) = n /\ Len(b) = Len(s) - n
        /\ \A i \in 1 .. n : a[i] = s[i]
        /\ \A i \in 1 .. Len(s) - n : b[i] = s[i + n]
    OBVIOUS
  <1>2. DOMAIN a = 1 .. n /\ DOMAIN b = 1 .. Len(s) - n /\ DOMAIN s = 1 .. Len(s)
    BY <1>1
  <1> DEFINE k == Len(s) - n
  <1> HIDE DEF a, b
  <1>3. \A i \in DOMAIN a : i \in DOMAIN s /\ a[i] = s[i]
    <2>1. 1 .. n \subseteq 1 .. Len(s)
      BY <1>1
    <2> QED
      BY <1>1, <1>2, <2>1, Zenon
  <1>4. \A i \in DOMAIN b : at(i) \in DOMAIN s /\ b[i] = s[at(i)]
    <2>1. \A i \in 1 .. k : i + n \in 1 .. Len(s)
      BY <1>1
    <2> QED
      BY <1>1, <1>2, <2>1, Zenon
  <1>5. \A i, j \in DOMAIN b : at(i) = at(j) => i = j
    <2>1. \A i, j \in 1 .. k : i + n = j + n => i = j
      BY <1>1
    <2> QED
      BY <1>2, <2>1, Zenon
  <1>6. \A i \in DOMAIN a, j \in DOMAIN b : at(j) # i
    <2>1. \A i \in 1 .. n, j \in 1 .. k : j + n # i
      BY <1>1
    <2> QED
      BY <1>2, <2>1, Zenon
  <1> HIDE DEF at
  <1>7. Elements(a) \cup Elements(b) \subseteq Elements(s)
    BY <1>3, <1>4 DEF Elements
  <1>8. HasTurn(a) \/ HasTurn(b) => HasTurn(s)
    BY <1>3, <1>4, Zenon DEF HasTurn
  <1>9. OneTurn(s) => OneTurn(a)
    BY <1>3, Zenon DEF OneTurn
  <1>10. OneTurn(s) => OneTurn(b)
    BY <1>4, <1>5, Zenon DEF OneTurn
  <1>11. OneTurn(s) => ~(HasTurn(a) /\ HasTurn(b))
    BY <1>3, <1>4, <1>6, Zenon DEF OneTurn, HasTurn
  <1> QED
    BY <1>1, <1>7, <1>8, <1>9, <1>10, <1>11, Zenon DEF a, b

\* Nothing is in an empty queue.
LEMMA EmptyTurn ==
    /\ Elements(<<>>) = {} /\ ~HasTurn(<<>>) /\ OneTurn(<<>>)
    /\ \A S : <<>> \in Seq(S)
  <1>1. DOMAIN <<>> = {}
    OBVIOUS
  <1>2. \A S : <<>> \in Seq(S)
    OBVIOUS
  <1> QED
    BY <1>1, <1>2, Zenon DEF Elements, HasTurn, OneTurn

\* What has a turn is one of the messages that have.
LEMMA TurnIn ==
    ASSUME NEW s, NEW m \in Elements(s), Turn(m)
    PROVE  HasTurn(s)
  BY Zenon DEF Elements, HasTurn

-----------------------------------------------------------------------------
(* What a handler of an element may do.                                    *)

ClientType ==
    [connected : BOOLEAN, encrypted : BOOLEAN, authed : BOOLEAN, bound : BOOLEAN,
     features : SUBSET Feature, mech : Login \cup {"none"},
     signature : {"unset", "secret", "open"}, awaiting : SUBSET Context]

Late == {"bind", "session", "roster"}

\* The client becomes c, or what is left of c when it hangs up.
Became(c) ==
    /\ client' \in ClientType
    /\ client'.connected => c.connected /\ client'.encrypted = c.encrypted
    /\ client'.authed => c.authed
    /\ client'.mech = c.mech /\ client'.signature = c.signature
    /\ client'.awaiting = c.awaiting
    /\ handle' = IF client.connected /\ ~client'.connected THEN "closed" ELSE handle
    /\ fromServer' \in {fromServer, <<>>}

\* At most one of these goes out.
Said(stanzas) ==
    /\ toServer' = toServer \/ \E stanza \in stanzas : toServer' = Append(toServer, stanza)
    /\ exposed' \in BOOLEAN
    /\ exposed' =>
          \/ exposed
          \/ client.connected /\ ~client.encrypted /\ \E stanza \in stanzas : Secret(stanza)

\* What the element allows the client to become and to say.
Permitted(c, stanzas) ==
    LET e == Head(elements)
    IN  /\ c.connected = client.connected
        /\ c.encrypted = client.encrypted \/ (e.name = "proceed" /\ c.encrypted)
        /\ c.authed => \/ client.authed
                       \/ e.name = "success" /\ (client.mech = "scram" => e.signature = client.signature)
                       \/ e.name = "result" /\ e.to = "credentials"
        /\ c.mech = client.mech \/ e.name = "features"
        /\ c.signature = client.signature \/ e.name = "challenge"
        /\ c.awaiting \cap Late # {} => client.awaiting \cap Late # {} \/ c.authed
        /\ \A stanza \in stanzas :
              /\ stanza \in Stanza
              /\ Turn(stanza) => Turn(e)
              /\ stanza.name = "header" => e.name \in {"tls done", "success"}
              /\ stanza.name \in {"auth", "response"} => stanza.mech = c.mech
              /\ Turn(stanza) /\ TlsFirst(e) /\ ~c.encrypted => stanza.name = "starttls"
              /\ Secret(stanza) /\ ~client.encrypted => Turn(e) /\ ~TlsFirst(e)

\* Where the login is after it.
Ends(c, stanzas) ==
    LET e == Head(elements)
    IN  \/ UNCHANGED <<sessions, refused>>
        \/ /\ Turn(e) /\ \A stanza \in stanzas : ~Turn(stanza)
           /\ sessions' = sessions + 1 /\ UNCHANGED refused
           /\ client.awaiting \cap Late # {} \/ c.authed
        \/ /\ Turn(e) /\ stanzas = {}
           /\ refused' = TRUE /\ UNCHANGED <<sessions, handle, client.connected>>

Takes ==
    /\ pump = "elements" /\ pump' \in {"elements", "terminated"}
    /\ elements # <<>> /\ elements' = Tail(elements)
    /\ UNCHANGED <<messenger, request, tried, attached, ready, run, line, server>>

Effect ==
    /\ Takes
    /\ \E c \in ClientType, stanzas \in SUBSET Stanza :
          Became(c) /\ Said(stanzas) /\ Permitted(c, stanzas) /\ Ends(c, stanzas)

\* The types of what a recv has read.
LEMMA HeadElement ==
    ASSUME TypeOK, elements # <<>>
    PROVE  /\ client \in ClientType
           /\ Head(elements) \in Element
           /\ Head(elements).name = "features" => Head(elements).offers \in SUBSET Feature
           /\ Head(elements).name = "challenge" => Head(elements).kind \in Kind
           /\ Head(elements).name = "success" => Head(elements).signature \in Signature
           /\ Head(elements).name \in {"result", "error"} => Head(elements).to \in Context
  <1>1. elements \in Seq(Element) /\ client \in ClientType
    BY DEF TypeOK, ClientType
  <1>2. Head(elements) \in Element
    BY <1>1
  <1> QED
    BY <1>1, <1>2 DEF Element

\* ClientBase::send, of a client that is connected or not as before.
LEMMA Sends ==
    ASSUME TypeOK, NEW c \in ClientType, c.connected = client.connected,
           c.encrypted \/ ~client.encrypted, NEW stanza \in Stanza, Send(c, stanza)
    PROVE  Became(c) /\ Said({stanza})
  <1> DEFINE d == IF c.connected /\ line = "reset" THEN HungUp(c) ELSE c
  <1>1. /\ d \in ClientType
        /\ d.connected => c.connected /\ d.encrypted = c.encrypted
        /\ d.authed => c.authed
        /\ d.mech = c.mech /\ d.signature = c.signature /\ d.awaiting = c.awaiting
    <2>1. CASE c.connected /\ line = "reset"
      BY <2>1 DEF ClientType, HungUp, LoggedOut
    <2>2. CASE ~(c.connected /\ line = "reset")
      BY <2>2
    <2> QED
      BY <2>1, <2>2
  <1>2. Become(d)
    BY DEF Send
  <1> HIDE DEF d
  <1>3. Became(c)
    BY <1>1, <1>2 DEF Become, Became
  <1>4. toServer' \in {toServer, Append(toServer, stanza)}
    BY DEF Send
  <1>5. exposed' = (exposed \/ (c.connected /\ ~c.encrypted /\ Secret(stanza)))
    BY DEF Send
  <1>6. exposed' \in BOOLEAN
    BY <1>5, Zenon DEF TypeOK
  <1>7. exposed' => exposed \/ (client.connected /\ ~client.encrypted /\ Secret(stanza))
    BY <1>5
  <1> QED
    BY <1>3, <1>4, <1>6, <1>7 DEF Said

\* The client changes and nothing is sent.
LEMMA Keeps ==
    ASSUME TypeOK, NEW c \in ClientType, c.connected = client.connected, Keep(c)
    PROVE  /\ Became(c) /\ Said({}) /\ UNCHANGED handle
           /\ client' = c
  <1>1. client' = c /\ handle' = handle /\ fromServer' \in {fromServer, <<>>}
        /\ toServer' = toServer /\ exposed' = exposed
    BY DEF Keep, Become
  <1> QED
    BY <1>1 DEF Became, Said, TypeOK

\* Client::disconnect as the answer to an element.
LEMMA Disconnects ==
    ASSUME TypeOK, Takes, Quietly, NEW farewell \in BOOLEAN, Disconnect(farewell)
    PROVE  Effect
  <1>1. client \in ClientType
    BY HeadElement DEF Takes
  <1> DEFINE d == IF client.connected THEN HungUp(client) ELSE LoggedOut(client)
  <1>2. /\ d \in ClientType /\ ~d.connected /\ ~d.authed
        /\ d.mech = client.mech /\ d.signature = client.signature /\ d.awaiting = client.awaiting
    BY <1>1 DEF ClientType, HungUp, LoggedOut
  <1>3. Become(d) /\ toServer' \in {toServer, Append(toServer, Says("close"))} /\ exposed' = exposed
    BY DEF Disconnect
  <1> HIDE DEF d
  <1>4. Became(client)
    BY <1>2, <1>3 DEF Become, Became
  <1>5. Said({Says("close")})
    BY <1>3 DEF Said, TypeOK
  <1>6. Says("close") \in Stanza /\ ~Turn(Says("close")) /\ ~Secret(Says("close"))
        /\ Says("close").name = "close"
    BY DEF Says, Stanza, Turn, Secret
  <1>7. Permitted(client, {Says("close")})
    BY <1>6 DEF Permitted
  <1>8. Ends(client, {Says("close")})
    BY DEF Ends, Quietly
  <1> QED
    BY <1>1, <1>4, <1>5, <1>6, <1>7, <1>8 DEF Effect

-----------------------------------------------------------------------------
(* Each handler does no more.                                              *)

\* The elements that change nothing in the login.
LEMMA StreamEffect == ASSUME TypeOK, OnStream \/ OnPresence PROVE Effect
  <1>1. Takes /\ Keep(client) /\ UNCHANGED <<sessions, refused>>
    BY DEF OnStream, OnPresence, Handle, Quietly, Takes
  <1>2. client \in ClientType
    BY <1>1, HeadElement DEF Takes
  <1>3. Became(client) /\ Said({})
    BY <1>1, <1>2, Keeps
  <1>4. Permitted(client, {}) /\ Ends(client, {})
    BY <1>1 DEF Permitted, Ends
  <1> QED
    BY <1>1, <1>2, <1>3, <1>4 DEF Effect

\* Those that end it.
LEMMA DisconnectEffect ==
    ASSUME TypeOK, OnOldStream \/ OnStreamError \/ OnEnd \/ OnTlsFailed \/ OnSaslFailure
                      \/ OnNotAuthorized
    PROVE  Effect
  <1>1. Takes /\ Quietly /\ \E farewell \in BOOLEAN : Disconnect(farewell)
    BY DEF OnOldStream, OnStreamError, OnEnd, OnTlsFailed, OnSaslFailure, OnNotAuthorized,
           HandleIq, Handle, Quietly, Takes
  <1> QED
    BY <1>1, Disconnects

\* A stanza goes out, and the client changes a little.
LEMMA SendEffect ==
    ASSUME TypeOK, Takes, Quietly, NEW c \in ClientType, NEW stanza \in Stanza,
           c.encrypted \/ ~client.encrypted, Permitted(c, {stanza}), Send(c, stanza)
    PROVE  Effect
  <1>1. c.connected = client.connected
    BY DEF Permitted
  <1>2. Became(c) /\ Said({stanza})
    BY <1>1, Sends
  <1>3. Ends(c, {stanza})
    BY DEF Ends, Quietly
  <1> QED
    BY <1>2, <1>3 DEF Effect

\* An IQ asks for more only on an accepted login.
LEMMA IqEffect ==
    ASSUME TypeOK, Takes, Quietly, NEW c \in ClientType, NEW context \in Context,
           c.connected = client.connected, c.encrypted = client.encrypted,
           c.mech = client.mech, c.signature = client.signature,
           c.authed => client.authed \/ (Head(elements).name = "result" /\ Head(elements).to = "credentials"),
           c.awaiting \cap Late # {} => client.awaiting \cap Late # {} \/ c.authed,
           context \in Late => client.awaiting \cap Late # {} \/ c.authed,
           Turn(Head(elements)), TlsFirst(Head(elements)) => c.encrypted,
           SendIq(c, context)
    PROVE  Effect
  <1> DEFINE d == [c EXCEPT !.awaiting = @ \cup {context}]
             stanza == [name |-> "iq", to |-> context]
  <1>1. /\ d \in ClientType
        /\ d.connected = c.connected /\ d.encrypted = c.encrypted /\ d.authed = c.authed
        /\ d.mech = c.mech /\ d.signature = c.signature /\ d.awaiting = c.awaiting \cup {context}
    BY DEF ClientType
  <1>2. stanza \in Stanza /\ stanza.name = "iq"
    BY DEF Stanza
  <1>3. Send(d, stanza)
    BY DEF SendIq
  <1> HIDE DEF d, stanza
  <1>4. d.awaiting \cap Late # {} => client.awaiting \cap Late # {} \/ d.authed
    BY <1>1
  <1>5. Permitted(d, {stanza})
    BY <1>1, <1>2, <1>4 DEF Permitted, TlsFirst
  <1> QED
    BY <1>1, <1>2, <1>3, <1>5, SendEffect

\* The roster is asked for, or the session begins without.
LEMMA ConnectedEffect ==
    ASSUME TypeOK, Takes, NEW c \in ClientType,
           c.connected = client.connected, c.encrypted = client.encrypted,
           c.mech = client.mech, c.signature = client.signature,
           c.authed => client.authed \/ (Head(elements).name = "result" /\ Head(elements).to = "credentials"),
           c.awaiting \cap Late # {} => client.awaiting \cap Late # {},
           client.awaiting \cap Late # {} \/ c.authed,
           Head(elements).name = "result",
           Connected(c)
    PROVE  Effect
  <1>1. Turn(Head(elements)) /\ ~TlsFirst(Head(elements))
    BY DEF Turn, TlsFirst
  <1>2. CASE c.authed
    BY <1>1, <1>2, IqEffect DEF Connected, Late, Context
  <1>3. CASE ~c.authed
    <2>1. Keep(c) /\ BeginSession
      BY <1>3 DEF Connected
    <2>2. Became(c) /\ Said({})
      BY <2>1, Keeps
    <2>3. Permitted(c, {})
      BY DEF Permitted
    <2>4. Ends(c, {})
      BY <1>1, <2>1 DEF BeginSession, Ends
    <2> QED
      BY <2>2, <2>3, <2>4 DEF Effect
  <1> QED
    BY <1>2, <1>3

\* Client::login.
LEMMA AuthenticateEffect ==
    ASSUME TypeOK, Takes, Quietly, NEW c \in ClientType,
           c.connected = client.connected, c.encrypted = client.encrypted,
           c.authed = client.authed, c.mech = client.mech,
           c.signature = client.signature, c.awaiting = client.awaiting,
           Head(elements).name = "features", TlsFirst(Head(elements)) => c.encrypted,
           \/ Disconnect(TRUE)
           \/ SendIq(c, "fields")
           \/ \E mech \in Login : Send([c EXCEPT !.mech = mech], [name |-> "auth", mech |-> mech])
    PROVE  Effect
  <1>1. Turn(Head(elements))
    BY DEF Turn
  <1>2. CASE Disconnect(TRUE)
    BY <1>2, Disconnects
  <1>3. CASE SendIq(c, "fields")
    BY <1>1, <1>3, IqEffect DEF Late, Context
  <1>4. ASSUME NEW mech \in Login,
               Send([c EXCEPT !.mech = mech], [name |-> "auth", mech |-> mech])
        PROVE  Effect
    <2> DEFINE d == [c EXCEPT !.mech = mech]
               stanza == [name |-> "auth", mech |-> mech]
    <2>1. /\ d \in ClientType
          /\ d.connected = c.connected /\ d.encrypted = c.encrypted /\ d.authed = c.authed
          /\ d.mech = mech /\ d.signature = c.signature /\ d.awaiting = c.awaiting
      BY DEF ClientType
    <2>2. stanza \in Stanza /\ stanza.name = "auth" /\ stanza.mech = mech
      BY DEF Stanza
    <2>3. Send(d, stanza)
      BY <1>4
    <2> HIDE DEF d, stanza
    <2>4. Permitted(d, {stanza})
      BY <1>1, <2>1, <2>2 DEF Permitted
    <2> QED
      BY <2>1, <2>2, <2>3, <2>4, SendEffect
  <1> QED
    BY <1>2, <1>3, <1>4

\* The features of a stream: TLS first, then the login, then the resource.
LEMMA FeaturesEffect == ASSUME TypeOK, OnFeatures PROVE Effect
  <1> DEFINE e == Head(elements)
             c == [client EXCEPT !.features = StreamFeatures(e.offers)]
  <1>1. Takes /\ e.name = "features"
    <2>1. UNCHANGED pump
      BY DEF OnFeatures, Quietly
    <2> QED
      BY <2>1 DEF OnFeatures, Handle, Takes
  <1>2. client \in ClientType /\ e.offers \in SUBSET Feature
    BY <1>1, HeadElement DEF Takes
  <1>3. StreamFeatures(e.offers) \in SUBSET Feature
        /\ ("starttls" \in StreamFeatures(e.offers) <=> "starttls" \in e.offers)
    BY <1>2 DEF StreamFeatures, Feature, Login
  <1>4. /\ c \in ClientType
        /\ c.connected = client.connected /\ c.encrypted = client.encrypted
        /\ c.authed = client.authed /\ c.mech = client.mech
        /\ c.signature = client.signature /\ c.awaiting = client.awaiting
        /\ c.features = StreamFeatures(e.offers)
    BY <1>2, <1>3 DEF ClientType
  <1>5. Turn(e)
    BY <1>1 DEF Turn
  <1>6. TlsFirst(e) <=> "starttls" \in c.features
    BY <1>1, <1>3, <1>4 DEF TlsFirst
  <1>7. \/ "starttls" \in c.features /\ ~c.encrypted /\ Send(c, Says("starttls")) /\ Quietly
        \/ /\ "starttls" \in c.features => c.encrypted
           /\ ~c.authed /\ Authenticate(c) /\ Quietly
        \/ /\ "starttls" \in c.features => c.encrypted
           /\ c.authed /\ SendIq(c, "bind") /\ Quietly
        \/ Keep(c) /\ refused' = TRUE /\ UNCHANGED <<pump, sessions>>
    BY DEF OnFeatures
  <1> HIDE DEF c
  <1>8. CASE "starttls" \in c.features /\ ~c.encrypted /\ Send(c, Says("starttls")) /\ Quietly
    <2>1. Says("starttls") \in Stanza /\ ~Secret(Says("starttls"))
          /\ Says("starttls").name = "starttls"
      BY DEF Says, Stanza, Secret
    <2>2. Permitted(c, {Says("starttls")})
      BY <1>1, <1>4, <1>5, <2>1 DEF Permitted
    <2> QED
      BY <1>1, <1>4, <1>8, <2>1, <2>2, SendEffect
  <1>9. CASE ("starttls" \in c.features => c.encrypted) /\ ~c.authed /\ Authenticate(c) /\ Quietly
    <2>1. \/ Disconnect(TRUE)
          \/ SendIq(c, "fields")
          \/ \E mech \in Login : Send([c EXCEPT !.mech = mech], [name |-> "auth", mech |-> mech])
      <3> DEFINE m == IF "scram" \in c.features THEN "scram"
                      ELSE IF "digest" \in c.features THEN "digest"
                      ELSE IF "plain" \in c.features THEN "plain" ELSE "iq"
      <3>1. m \in Login
        BY DEF Login
      <3>2. \/ Disconnect(TRUE)
            \/ SendIq(c, "fields")
            \/ Send([c EXCEPT !.mech = m], [name |-> "auth", mech |-> m])
        BY <1>9, Zenon DEF Authenticate
      <3> QED
        BY <3>1, <3>2
    <2> QED
      BY <1>1, <1>4, <1>6, <1>9, <2>1, AuthenticateEffect
  <1>10. CASE ("starttls" \in c.features => c.encrypted) /\ c.authed /\ SendIq(c, "bind") /\ Quietly
    BY <1>1, <1>4, <1>5, <1>6, <1>10, IqEffect DEF Late, Context
  <1>11. CASE Keep(c) /\ refused' = TRUE /\ UNCHANGED <<pump, sessions>>
    <2>1. Became(c) /\ Said({}) /\ UNCHANGED handle /\ client' = c
      BY <1>4, <1>11, Keeps
    <2>2. Permitted(c, {}) /\ Ends(c, {})
      BY <1>4, <1>5, <1>11, <2>1 DEF Permitted, Ends
    <2> QED
      BY <1>1, <1>4, <2>1, <2>2 DEF Effect
  <1> QED
    BY <1>7, <1>8, <1>9, <1>10, <1>11

\* TLS begins, and once it is there the stream begins anew.
LEMMA TlsEffect == ASSUME TypeOK, OnProceed \/ OnTlsDone PROVE Effect
  <1>0. Takes /\ Quietly
    BY DEF OnProceed, OnTlsDone, Handle, Quietly, Takes
  <1>1. client \in ClientType
    BY <1>0, HeadElement DEF Takes
  <1>2. /\ Says("handshake") \in Stanza /\ Says("handshake").name = "handshake"
        /\ ~Secret(Says("handshake"))
        /\ Says("header") \in Stanza /\ Says("header").name = "header"
        /\ ~Secret(Says("header"))
    BY DEF Says, Stanza, Secret
  <1>3. CASE OnProceed
    <2> DEFINE c == [client EXCEPT !.encrypted = TRUE]
    <2>1. /\ c \in ClientType /\ c.encrypted
          /\ c.connected = client.connected /\ c.authed = client.authed
          /\ c.mech = client.mech /\ c.signature = client.signature /\ c.awaiting = client.awaiting
      BY <1>1 DEF ClientType
    <2>2. Send(c, Says("handshake")) /\ Head(elements).name = "proceed"
      BY <1>3 DEF OnProceed, Handle
    <2>3. Turn(Head(elements))
      BY <2>2 DEF Turn
    <2> HIDE DEF c
    <2>4. Permitted(c, {Says("handshake")})
      BY <1>2, <2>1, <2>2, <2>3 DEF Permitted
    <2> QED
      BY <1>0, <1>2, <2>1, <2>2, <2>4, SendEffect
  <1>4. CASE OnTlsDone
    <2>1. Send(client, Says("header")) /\ Head(elements).name = "tls done"
      BY <1>4 DEF OnTlsDone, Handle
    <2>2. Turn(Head(elements)) /\ ~TlsFirst(Head(elements))
      BY <2>1 DEF Turn, TlsFirst
    <2>3. Permitted(client, {Says("header")})
      BY <1>2, <2>1, <2>2 DEF Permitted
    <2>4. client.encrypted \/ ~client.encrypted
      OBVIOUS
    <2> QED
      BY <1>0, <1>1, <1>2, <2>1, <2>3, <2>4, SendEffect
  <1> QED
    BY <1>3, <1>4

\* A challenge is answered by the mechanism that was chosen, or not at all.
LEMMA ChallengeEffect ==
    ASSUME TypeOK, OnChallenge, client.mech # "none" PROVE Effect
  <1> DEFINE e == Head(elements)
             set == [client EXCEPT !.signature = IF e.kind = "proper" THEN "secret" ELSE "open"]
  <1>1. e.name = "challenge" /\ elements # <<>>
    BY DEF OnChallenge, Handle
  <1>2. client \in ClientType
    BY <1>1, HeadElement
  <1>3. Turn(e) /\ ~TlsFirst(e)
    BY <1>1 DEF Turn, TlsFirst
  <1>4. /\ set \in ClientType /\ set.encrypted = client.encrypted
        /\ set.connected = client.connected /\ set.authed = client.authed
        /\ set.mech = client.mech /\ set.awaiting = client.awaiting
    BY <1>2 DEF ClientType
  <1>5. \/ Respond(set) \/ Respond(client)
        \/ Keep(client) /\ refused' = TRUE /\ UNCHANGED <<pump, sessions>>
    BY DEF OnChallenge
  <1>6. Takes
    <2>1. pump' = pump
      BY <1>5 DEF Respond, Quietly
    <2> QED
      BY <2>1 DEF OnChallenge, Handle, Takes
  <1> HIDE DEF set
  <1>7. ASSUME NEW c \in ClientType, c.connected = client.connected,
               c.encrypted = client.encrypted, c.authed = client.authed,
               c.mech = client.mech, c.awaiting = client.awaiting, Respond(c)
        PROVE  Effect
    <2> DEFINE stanza == [name |-> "response", mech |-> c.mech]
    <2>1. stanza \in Stanza /\ stanza.name = "response" /\ stanza.mech = c.mech
          /\ ~Secret(stanza)
      BY <1>7 DEF Stanza, Secret, ClientType
    <2>2. Send(c, stanza) /\ Quietly
      BY <1>7 DEF Respond
    <2> HIDE DEF stanza
    <2>3. Permitted(c, {stanza})
      BY <1>1, <1>3, <1>7, <2>1 DEF Permitted
    <2> QED
      BY <1>6, <1>7, <2>1, <2>2, <2>3, SendEffect
  <1>8. CASE Keep(client) /\ refused' = TRUE /\ UNCHANGED <<pump, sessions>>
    <2>1. Became(client) /\ Said({}) /\ UNCHANGED handle /\ client' = client
      BY <1>2, <1>8, Keeps
    <2>2. Permitted(client, {}) /\ Ends(client, {})
      BY <1>3, <1>8, <2>1 DEF Permitted, Ends
    <2> QED
      BY <1>2, <1>6, <2>1, <2>2 DEF Effect
  <1> QED
    BY <1>2, <1>4, <1>5, <1>7, <1>8

\* A success is believed with the signature SCRAM asks for.
LEMMA SuccessEffect == ASSUME TypeOK, OnSuccess PROVE Effect
  <1> DEFINE e == Head(elements)
  <1>1. Takes /\ Quietly /\ e.name = "success"
    BY DEF OnSuccess, Handle, Quietly, Takes
  <1>2. client \in ClientType
    BY <1>1, HeadElement DEF Takes
  <1>3. CASE client.mech = "scram" /\ e.signature # client.signature
    <2>1. Disconnect(TRUE)
      BY <1>3 DEF OnSuccess
    <2> QED
      BY <1>1, <2>1, Disconnects
  <1>4. CASE ~(client.mech = "scram" /\ e.signature # client.signature)
    <2> DEFINE c == [client EXCEPT !.authed = TRUE]
    <2>1. /\ c \in ClientType /\ c.encrypted = client.encrypted
          /\ c.connected = client.connected
          /\ c.mech = client.mech /\ c.signature = client.signature /\ c.awaiting = client.awaiting
      BY <1>2 DEF ClientType
    <2>2. Send(c, Says("header"))
      BY <1>4 DEF OnSuccess
    <2>3. Turn(Head(elements)) /\ ~TlsFirst(Head(elements))
      BY <1>1 DEF Turn, TlsFirst
    <2>4. Says("header") \in Stanza /\ Says("header").name = "header"
          /\ ~Secret(Says("header"))
      BY DEF Says, Stanza, Secret
    <2> HIDE DEF c
    <2>5. Permitted(c, {Says("header")})
      BY <1>1, <1>4, <2>1, <2>3, <2>4 DEF Permitted
    <2> QED
      BY <1>1, <2>1, <2>2, <2>4, <2>5, SendEffect
  <1> QED
    BY <1>3, <1>4

\* The client after the answer to an IQ.
LEMMA AnsweredClient ==
    ASSUME TypeOK, NEW context
    PROVE  /\ Answered(context) \in ClientType
           /\ Answered(context).connected = client.connected
           /\ Answered(context).encrypted = client.encrypted
           /\ Answered(context).authed = client.authed
           /\ Answered(context).mech = client.mech
           /\ Answered(context).signature = client.signature
           /\ Answered(context).awaiting \subseteq client.awaiting
           /\ Answered(context).features = client.features
  <1>1. client \in ClientType
    BY DEF TypeOK, ClientType
  <1> QED
    BY <1>1 DEF Answered, ClientType

\* The resource and the session.
LEMMA BindEffect == ASSUME TypeOK, OnBind \/ OnSession PROVE Effect
  <1>1. CASE OnBind
    <2> DEFINE c == [Answered("bind") EXCEPT !.bound = TRUE]
    <2>1. /\ Handle("result") /\ "bind" \in client.awaiting
          /\ (SendIq(c, "session") /\ Quietly) \/ Connected(c)
      BY <1>1 DEF OnBind, HandleIq
    <2>2. /\ c \in ClientType /\ c.connected = client.connected
          /\ c.encrypted = client.encrypted /\ c.authed = client.authed
          /\ c.mech = client.mech /\ c.signature = client.signature /\ c.awaiting \subseteq client.awaiting
      BY AnsweredClient DEF ClientType
    <2> HIDE DEF c
    <2>3. client.awaiting \cap Late # {}
      BY <2>1 DEF Late
    <2>4. Head(elements).name = "result"
      BY <2>1 DEF Handle
    <2>5. Turn(Head(elements)) /\ ~TlsFirst(Head(elements))
      BY <2>4 DEF Turn, TlsFirst
    <2>6. CASE SendIq(c, "session") /\ Quietly
      <3>1. Takes
        BY <2>1, <2>6 DEF Handle, Quietly, Takes
      <3> QED
        BY <2>2, <2>3, <2>5, <2>6, <3>1, IqEffect DEF Context
    <2>7. CASE Connected(c)
      <3>1. Takes
        BY <2>1, <2>7 DEF Handle, Connected, BeginSession, Quietly, Takes
      <3> QED
        BY <2>2, <2>3, <2>4, <2>7, <3>1, ConnectedEffect
    <2> QED
      BY <2>1, <2>6, <2>7
  <1>2. CASE OnSession
    <2> DEFINE c == Answered("session")
    <2>1. Handle("result") /\ "session" \in client.awaiting /\ Connected(c)
      BY <1>2 DEF OnSession, HandleIq
    <2>2. /\ c \in ClientType /\ c.connected = client.connected
          /\ c.encrypted = client.encrypted /\ c.authed = client.authed
          /\ c.mech = client.mech /\ c.signature = client.signature /\ c.awaiting \subseteq client.awaiting
      BY AnsweredClient
    <2> HIDE DEF c
    <2>3. client.awaiting \cap Late # {}
      BY <2>1 DEF Late
    <2>4. Head(elements).name = "result" /\ Takes
      BY <2>1 DEF Handle, Connected, BeginSession, Quietly, Takes
    <2> QED
      BY <2>1, <2>2, <2>3, <2>4, ConnectedEffect
  <1> QED
    BY <1>1, <1>2

\* A refusal nobody listens for.
LEMMA RefusedEffect == ASSUME TypeOK, OnRefused PROVE Effect
  <1> DEFINE c == Answered(Head(elements).to)
  <1>1. Takes /\ Head(elements).name = "error" /\ Keep(c)
        /\ refused' = TRUE /\ UNCHANGED <<pump, sessions>>
    BY DEF OnRefused, HandleIq, Handle, Takes
  <1>2. /\ c \in ClientType /\ c.connected = client.connected
        /\ c.encrypted = client.encrypted /\ c.authed = client.authed
        /\ c.mech = client.mech /\ c.signature = client.signature /\ c.awaiting \subseteq client.awaiting
    BY AnsweredClient
  <1> HIDE DEF c
  <1>3. Became(c) /\ Said({}) /\ UNCHANGED handle /\ client' = c
    BY <1>1, <1>2, Keeps
  <1>4. Turn(Head(elements))
    BY <1>1 DEF Turn
  <1>5. Permitted(c, {}) /\ Ends(c, {})
    BY <1>1, <1>2, <1>3, <1>4 DEF Permitted, Ends
  <1> QED
    BY <1>1, <1>2, <1>3, <1>5 DEF Effect

\* The roster, or its refusal, ends the login.
LEMMA RosterEffect == ASSUME TypeOK, OnRoster PROVE Effect
  <1> DEFINE c == Answered("roster")
             stanza == Says("presence")
  <1>1. Takes /\ Head(elements).name \in {"result", "error"} /\ "roster" \in client.awaiting
        /\ Send(c, stanza) /\ BeginSession
    BY DEF OnRoster, HandleIq, Handle, BeginSession, Takes
  <1>2. /\ c \in ClientType /\ c.connected = client.connected
        /\ c.encrypted = client.encrypted /\ c.authed = client.authed
        /\ c.mech = client.mech /\ c.signature = client.signature /\ c.awaiting \subseteq client.awaiting
    BY AnsweredClient
  <1>3. stanza \in Stanza /\ ~Turn(stanza) /\ ~Secret(stanza) /\ stanza.name = "presence"
    BY DEF Says, Stanza, Turn, Secret
  <1> HIDE DEF c, stanza
  <1>4. Became(c) /\ Said({stanza})
    BY <1>1, <1>2, <1>3, Sends, Zenon
  <1>5. Turn(Head(elements)) /\ client.awaiting \cap Late # {}
    BY <1>1 DEF Turn, Late
  <1>6. Permitted(c, {stanza})
    BY <1>2, <1>3 DEF Permitted
  <1>7. Ends(c, {stanza})
    BY <1>1, <1>3, <1>5 DEF BeginSession, Ends
  <1> QED
    BY <1>1, <1>2, <1>3, <1>4, <1>6, <1>7 DEF Effect

\* The old way to log in.
LEMMA OldLoginEffect == ASSUME TypeOK, OnFields \/ OnCredentials PROVE Effect
  <1>1. CASE OnFields
    <2> DEFINE c == Answered("fields")
    <2>1. Takes /\ Head(elements).name = "result"
          /\ \/ SendIq(c, "credentials") /\ Quietly
             \/ Keep(c) /\ refused' = TRUE /\ UNCHANGED <<pump, sessions>>
      BY <1>1 DEF OnFields, HandleIq, Handle, Quietly, Takes
    <2>2. /\ c \in ClientType /\ c.connected = client.connected
          /\ c.encrypted = client.encrypted /\ c.authed = client.authed
          /\ c.mech = client.mech /\ c.signature = client.signature /\ c.awaiting \subseteq client.awaiting
      BY AnsweredClient
    <2> HIDE DEF c
    <2>3. Turn(Head(elements)) /\ ~TlsFirst(Head(elements))
      BY <2>1 DEF Turn, TlsFirst
    <2>4. CASE SendIq(c, "credentials") /\ Quietly
      BY <2>1, <2>2, <2>3, <2>4, IqEffect DEF Context, Late
    <2>5. CASE Keep(c) /\ refused' = TRUE /\ UNCHANGED <<pump, sessions>>
      <3>1. Became(c) /\ Said({}) /\ UNCHANGED handle /\ client' = c
        BY <2>2, <2>5, Keeps
      <3>2. Permitted(c, {}) /\ Ends(c, {})
        BY <2>2, <2>3, <2>5, <3>1 DEF Permitted, Ends
      <3> QED
        BY <2>1, <2>2, <3>1, <3>2 DEF Effect
    <2> QED
      BY <2>1, <2>4, <2>5
  <1>2. CASE OnCredentials
    <2> DEFINE c == [Answered("credentials") EXCEPT !.authed = TRUE]
    <2>1. Takes /\ Head(elements).name = "result" /\ Head(elements).to = "credentials"
          /\ Connected(c)
      BY <1>2 DEF OnCredentials, HandleIq, Handle, Connected, BeginSession, Quietly, Takes
    <2>2. /\ c \in ClientType /\ c.connected = client.connected
          /\ c.encrypted = client.encrypted /\ c.authed
          /\ c.mech = client.mech /\ c.signature = client.signature /\ c.awaiting \subseteq client.awaiting
      BY AnsweredClient DEF ClientType
    <2> HIDE DEF c
    <2> QED
      BY <2>1, <2>2, ConnectedEffect
  <1> QED
    BY <1>1, <1>2

\* A request of the server is answered at any time.
LEMMA AskEffect == ASSUME TypeOK, OnAsk PROVE Effect
  <1>1. Takes /\ Quietly /\ Send(client, Says("answer"))
    BY DEF OnAsk, Handle, Quietly, Takes
  <1>2. client \in ClientType
    BY <1>1, HeadElement DEF Takes
  <1>3. Says("answer") \in Stanza /\ ~Turn(Says("answer")) /\ ~Secret(Says("answer"))
        /\ Says("answer").name = "answer"
    BY DEF Says, Stanza, Turn, Secret
  <1>4. Permitted(client, {Says("answer")})
    BY <1>3 DEF Permitted
  <1>5. client.encrypted \/ ~client.encrypted
    OBVIOUS
  <1> QED
    BY <1>1, <1>2, <1>3, <1>4, <1>5, SendEffect

\* So does any of them.
LEMMA ElementEffect ==
    ASSUME TypeOK, OnElement,
           Head(elements).name = "challenge" => client.mech # "none"
    PROVE  Effect
  <1>1. OnChallenge => client.mech # "none"
    BY DEF OnChallenge, Handle
  <1> QED
    BY <1>1, StreamEffect, DisconnectEffect, FeaturesEffect, TlsEffect, ChallengeEffect, SuccessEffect,
       BindEffect, RefusedEffect, RosterEffect, OldLoginEffect, AskEffect
       DEF OnElement

-----------------------------------------------------------------------------
(* What the server may say.                                                *)

ServerType ==
    [encrypted : BOOLEAN, authed : {"no", "yes", "forged"}, bound : BOOLEAN,
     offered : SUBSET Feature, challenges : Nat, unasked : Nat, ended : BOOLEAN]

\* What the server holds only grows.
Grown(holds) ==
    /\ holds \in ServerType
    /\ server.authed = "yes" => holds.authed = "yes"
    /\ server.authed # "no" => holds.authed # "no"
    /\ server.encrypted => holds.encrypted

\* An answer that fits the stanza, and what the server holds with it.
Apt(stanza, e, holds) ==
    /\ Turn(stanza)
    /\ Grown(holds)
    /\ e.name = "success" =>
          /\ holds.authed # "no"
          /\ e.signature = "secret" => holds.authed = "yes"
          /\ holds.authed = "forged" => stanza.name = "response" /\ stanza.mech = "scram"
    /\ e.name = "result" /\ e.to = "credentials" => holds.authed = "yes"
    /\ e.name = "challenge" => stanza.name \in {"auth", "response"} /\ holds.authed = "no"
    /\ e.name = "tls done" => holds.encrypted
    /\ \/ holds.offered = server.offered
       \/ /\ stanza.name = "header" /\ e.name = "features"
          /\ holds.offered = server.offered \cup e.offers
          /\ "starttls" \in e.offers => ~server.encrypted /\ server.authed = "no"
    /\ stanza.name = "starttls" => TlsFirst(e)
    /\ ~Ending(e)
    /\ Binding(e) => Binding(stanza)

\* Every answer is one of these.
LEMMA RepliesFit ==
    ASSUME TypeOK, NEW stanza \in Stanza, NEW reply \in Replies(stanza)
    PROVE  \/ reply.says = <<>> /\ reply.holds = server
           \/ \E e \in Element : /\ \/ reply.says = <<e>>
                                    \/ reply.says = <<Says("stream"), e>>
                                 /\ Apt(stanza, e, reply.holds)
  <1>1. server \in ServerType
    BY DEF TypeOK, ServerType
  <1>2. Grown(server)
    BY <1>1 DEF Grown
  <1>3. \A names : \A r \in Simply(names) :
           \E name \in names : r.says = <<Says(name)>> /\ r.holds = server
    BY DEF Simply, Reply
  <1>4. ASSUME NEW r \in Challenge
        PROVE  \E kind \in Kind :
                  /\ r.says = <<[name |-> "challenge", kind |-> kind]>>
                  /\ Grown(r.holds) /\ r.holds.authed = "no" /\ r.holds.offered = server.offered
    <2>1. server.authed = "no"
      BY Zenon DEF Challenge
    <2>2. PICK kind \in Kind :
             r = Reply(<<[name |-> "challenge", kind |-> kind]>>,
                       [server EXCEPT !.challenges = @ + 1])
      BY <2>1, Zenon DEF Challenge
    <2>3. /\ r.holds = [server EXCEPT !.challenges = @ + 1]
          /\ r.says = <<[name |-> "challenge", kind |-> kind]>>
      BY <2>2, Zenon DEF Reply
    <2>4. Grown(r.holds) /\ r.holds.authed = "no" /\ r.holds.offered = server.offered
      BY <1>1, <2>1, <2>3 DEF Grown, ServerType
    <2> QED
      BY <2>3, <2>4
  <1>5. \A context, holds : \A r \in Result(context, holds) :
           \/ r.says = <<[name |-> "result", to |-> context]>> /\ r.holds = holds
           \/ r.says = <<[name |-> "error", to |-> context]>> /\ r.holds = server
    BY DEF Result, Reply
  <1>6. \A name \in {"old stream", "proceed", "tls failure", "tls done", "tls broken",
                     "sasl failure"} :
           Says(name) \in Element /\ Says(name).name = name
    BY DEF Says, Element
  <1>7. CASE stanza.name = "header"
    <2>1. Turn(stanza)
      BY <1>7 DEF Turn
    <2>2. \/ reply \in Simply({"old stream"})
          \/ \E offers \in Fitting :
                reply = Reply(<<Says("stream"), [name |-> "features", offers |-> offers]>>,
                              [server EXCEPT !.offered = @ \cup offers])
      BY <1>7 DEF Replies
    <2>3. CASE reply \in Simply({"old stream"})
      <3>0. reply = Reply(<<Says("old stream")>>, server)
        BY <2>3, Zenon DEF Simply
      <3>1. reply.says = <<Says("old stream")>> /\ reply.holds = server
        BY <3>0 DEF Reply
      <3>2. Apt(stanza, Says("old stream"), server)
        BY <1>2, <1>6, <1>7, <2>1 DEF Apt, Ending, Binding
      <3> QED
        BY <1>6, <3>1, <3>2
    <2>4. ASSUME NEW offers \in Fitting,
                 reply = Reply(<<Says("stream"), [name |-> "features", offers |-> offers]>>,
                               [server EXCEPT !.offered = @ \cup offers])
          PROVE  \E e \in Element : reply.says = <<Says("stream"), e>> /\ Apt(stanza, e, reply.holds)
      <3> DEFINE e == [name |-> "features", offers |-> offers]
                 holds == [server EXCEPT !.offered = @ \cup offers]
      <3>1. /\ offers \in SUBSET Feature
            /\ "starttls" \in offers => ~server.encrypted /\ server.authed = "no"
        BY ClientAssumption DEF Fitting
      <3>2. e \in Element /\ e.name = "features" /\ e.offers = offers
        BY <3>1 DEF Element
      <3>3. Grown(holds) /\ holds.offered = server.offered \cup offers
        BY <1>1, <3>1 DEF Grown, ServerType
      <3>4. reply.says = <<Says("stream"), e>> /\ reply.holds = holds
        BY <2>4 DEF Reply
      <3> HIDE DEF e, holds
      <3>5. Apt(stanza, e, holds)
        BY <1>7, <2>1, <3>1, <3>2, <3>3 DEF Apt, Ending, Binding
      <3> QED
        BY <3>2, <3>4, <3>5
    <2> QED
      BY <2>2, <2>3, <2>4
  <1>8. CASE stanza.name = "starttls"
    <2>1. Turn(stanza) /\ reply \in Simply({"proceed", "tls failure"})
      BY <1>8 DEF Turn, Replies
    <2>2. PICK name \in {"proceed", "tls failure"} : reply.says = <<Says(name)>> /\ reply.holds = server
      BY <1>3, <2>1
    <2>3. Apt(stanza, Says(name), server)
      BY <1>2, <1>6, <1>8, <2>1 DEF Apt, Ending, Binding, TlsFirst
    <2> QED
      BY <1>6, <2>2, <2>3
  <1>9. CASE stanza.name = "handshake"
    <2>1. Turn(stanza)
      BY <1>9 DEF Turn
    <2>2. \/ reply = Reply(<<Says("tls done")>>, [server EXCEPT !.encrypted = TRUE])
          \/ reply \in Simply({"tls broken"})
      BY <1>9 DEF Replies
    <2>3. CASE reply \in Simply({"tls broken"})
      <3>0. reply = Reply(<<Says("tls broken")>>, server)
        BY <2>3, Zenon DEF Simply
      <3>1. reply.says = <<Says("tls broken")>> /\ reply.holds = server
        BY <3>0 DEF Reply
      <3>2. Apt(stanza, Says("tls broken"), server)
        BY <1>2, <1>6, <1>9, <2>1 DEF Apt, Ending, Binding
      <3> QED
        BY <1>6, <3>1, <3>2
    <2>4. CASE reply = Reply(<<Says("tls done")>>, [server EXCEPT !.encrypted = TRUE])
      <3>1. reply.says = <<Says("tls done")>> /\ reply.holds = [server EXCEPT !.encrypted = TRUE]
        BY <2>4 DEF Reply
      <3>2. Grown(reply.holds) /\ reply.holds.encrypted /\ reply.holds.offered = server.offered
        BY <1>1, <3>1 DEF Grown, ServerType
      <3>3. Apt(stanza, Says("tls done"), reply.holds)
        BY <1>6, <1>9, <2>1, <3>2 DEF Apt, Ending, Binding
      <3> QED
        BY <1>6, <3>1, <3>3
    <2> QED
      BY <2>2, <2>3, <2>4
  <1>10. CASE stanza.name \in {"auth", "response"}
    <2>1. Turn(stanza)
      BY <1>10 DEF Turn
    <2>2. \/ reply \in Simply({"sasl failure"})
          \/ reply \in Challenge
          \/ \E signatures \in SUBSET Signature : reply \in Accept("yes", signatures)
          \/ /\ reply \in Accept("forged", {"open", "wrong"})
             /\ stanza.name = "response" /\ stanza.mech = "scram"
      <3>1. /\ {"none"} \in SUBSET Signature /\ {"secret", "open"} \in SUBSET Signature
        BY DEF Signature
      <3>2. CASE stanza.name = "auth"
        <4>1. reply \in Simply({"sasl failure"}) \/ reply \in Challenge
              \/ reply \in Accept("yes", {"none"})
          BY <3>2 DEF Replies
        <4> QED
          BY <3>1, <4>1
      <3>3. CASE stanza.name = "response"
        <4>1. \/ reply \in Simply({"sasl failure"}) \/ reply \in Challenge
              \/ reply \in Accept("yes", {"none"}) \/ reply \in Accept("yes", {"secret", "open"})
              \/ reply \in Accept("forged", {"open", "wrong"}) /\ stanza.mech = "scram"
          BY <3>3 DEF Replies
        <4> QED
          BY <3>1, <3>3, <4>1
      <3> QED
        BY <1>10, <3>2, <3>3
    <2>3. CASE reply \in Simply({"sasl failure"})
      <3>0. reply = Reply(<<Says("sasl failure")>>, server)
        BY <2>3, Zenon DEF Simply
      <3>1. reply.says = <<Says("sasl failure")>> /\ reply.holds = server
        BY <3>0 DEF Reply
      <3>2. Apt(stanza, Says("sasl failure"), server)
        BY <1>2, <1>6, <1>10, <2>1 DEF Apt, Ending, Binding
      <3> QED
        BY <1>6, <3>1, <3>2
    <2>4. CASE reply \in Challenge
      <3>1. PICK kind \in Kind :
               /\ reply.says = <<[name |-> "challenge", kind |-> kind]>>
               /\ Grown(reply.holds) /\ reply.holds.authed = "no"
               /\ reply.holds.offered = server.offered
        BY <1>4, <2>4
      <3> DEFINE e == [name |-> "challenge", kind |-> kind]
      <3>2. e \in Element /\ e.name = "challenge"
        BY DEF Element
      <3>3. reply.says = <<e>>
        BY <3>1
      <3> HIDE DEF e
      <3>4. Apt(stanza, e, reply.holds)
        BY <1>10, <2>1, <3>1, <3>2 DEF Apt, Ending, Binding
      <3> QED
        BY <3>2, <3>3, <3>4
    <2>5. ASSUME NEW as \in {"yes", "forged"}, NEW signatures \in SUBSET Signature,
                 reply \in Accept(as, signatures),
                 as = "forged" => /\ signatures = {"open", "wrong"}
                                  /\ stanza.name = "response" /\ stanza.mech = "scram"
          PROVE  \E e \in Element : reply.says = <<e>> /\ Apt(stanza, e, reply.holds)
      <3>1. PICK signature \in signatures :
               /\ reply.says = <<[name |-> "success", signature |-> signature]>>
               /\ Grown(reply.holds) /\ reply.holds.authed = as
               /\ reply.holds.offered = server.offered
        <4>1. server.authed = "no"
          BY <2>5, Zenon DEF Accept
        <4>2. PICK signature \in signatures :
                 reply = Reply(<<[name |-> "success", signature |-> signature]>>,
                               [server EXCEPT !.authed = as])
          BY <2>5, <4>1, Zenon DEF Accept
        <4>3. /\ reply.holds = [server EXCEPT !.authed = as]
              /\ reply.says = <<[name |-> "success", signature |-> signature]>>
          BY <4>2, Zenon DEF Reply
        <4>4. Grown(reply.holds) /\ reply.holds.authed = as /\ reply.holds.offered = server.offered
          BY <1>1, <4>1, <4>3 DEF Grown, ServerType
        <4> QED
          BY <4>3, <4>4
      <3> DEFINE e == [name |-> "success", signature |-> signature]
      <3>2. e \in Element /\ e.name = "success" /\ e.signature = signature
        BY DEF Element
      <3>3. reply.says = <<e>>
        BY <3>1
      <3> HIDE DEF e
      <3>4. Apt(stanza, e, reply.holds)
        BY <1>10, <2>1, <2>5, <3>1, <3>2 DEF Apt, Ending, Binding
      <3> QED
        BY <3>2, <3>3, <3>4
    <2>6. {"open", "wrong"} \in SUBSET Signature
      BY DEF Signature
    <2> QED
      BY <2>2, <2>3, <2>4, <2>5, <2>6
  <1>11. CASE stanza.name = "iq"
    <2>1. Turn(stanza) /\ stanza.to \in Context
      BY <1>11 DEF Turn, Stanza
    <2> DEFINE holds == CASE stanza.to = "credentials" -> [server EXCEPT !.authed = "yes"]
                          [] stanza.to = "bind" -> [server EXCEPT !.bound = TRUE]
                          [] OTHER -> server
    <2>2. reply \in Result(stanza.to, holds)
      BY <1>11 DEF Replies
    <2>3. /\ Grown(holds) /\ holds.offered = server.offered
          /\ stanza.to = "credentials" => holds.authed = "yes"
      <3>1. CASE stanza.to = "credentials"
        BY <1>1, <3>1 DEF Grown, ServerType
      <3>2. CASE stanza.to = "bind"
        BY <1>1, <3>2 DEF Grown, ServerType
      <3>3. CASE stanza.to \notin {"credentials", "bind"}
        BY <1>2, <3>3
      <3> QED
        BY <3>1, <3>2, <3>3
    <2> HIDE DEF holds
    <2>4. \A name \in {"result", "error"} :
             [name |-> name, to |-> stanza.to] \in Element
      BY <2>1 DEF Element
    <2>5. CASE reply.says = <<[name |-> "result", to |-> stanza.to]>> /\ reply.holds = holds
      <3>1. Apt(stanza, [name |-> "result", to |-> stanza.to], holds)
        BY <1>11, <2>1, <2>3 DEF Apt, Ending, Binding
      <3> QED
        BY <2>4, <2>5, <3>1
    <2>6. CASE reply.says = <<[name |-> "error", to |-> stanza.to]>> /\ reply.holds = server
      <3>1. Apt(stanza, [name |-> "error", to |-> stanza.to], server)
        BY <1>2, <1>11, <2>1 DEF Apt, Ending, Binding
      <3> QED
        BY <2>4, <2>6, <3>1
    <2> QED
      BY <1>5, <2>2, <2>5, <2>6
  <1>12. CASE stanza.name \notin {"header", "starttls", "handshake", "auth", "response", "iq"}
    <2>1. reply = Reply(<<>>, server)
      BY <1>12 DEF Replies
    <2> QED
      BY <2>1 DEF Reply
  <1> QED
    BY <1>7, <1>8, <1>9, <1>10, <1>11, <1>12

-----------------------------------------------------------------------------
(* Types.                                                                  *)

\* The steps that bring nothing new: they lose what was under way, or the
\* client with it.
Still ==
    /\ elements' = elements
    /\ fromServer' \in {fromServer, <<>>} /\ toServer' \in {toServer, <<>>}
    /\ client' \in {client, HungUp(client)}
    /\ UNCHANGED <<server, history>>

Silent ==
    \/ Ask \/ Leave \/ CloseLine \/ ResetLine \/ Reuse
    \/ Select \/ (\E socket \in {"messenger", "xmpp"} : FailIoctl(socket))
    \/ DropMessenger \/ ServeMessenger \/ DropXmpp \/ RecvReturns \/ EndWalk

\* Every step is one of these.
LEMMA StepKinds ==
    ASSUME [Next]_vars
    PROVE  UNCHANGED vars \/ Silent \/ Answer \/ Volunteer \/ Authentication \/ Recv \/ OnElement
  BY DEF Next, Pump, Silent

\* The silent ones keep still.
LEMMA SilentStill == ASSUME Silent \/ UNCHANGED vars PROVE Still
  <1>1. CASE UNCHANGED vars
    BY <1>1 DEF vars, thread, network, history, Still
  <1>2. CASE Ask \/ Leave
    BY <1>2 DEF Ask, Leave, network, Still
  <1>3. CASE CloseLine \/ ResetLine \/ Reuse
    BY <1>3 DEF CloseLine, ResetLine, Reuse, network, Env, Still
  <1>4. CASE Select \/ RecvReturns \/ EndWalk
    BY <1>4 DEF Select, RecvReturns, EndWalk, network, Env, Still
  <1>5. CASE \E socket \in {"messenger", "xmpp"} : FailIoctl(socket)
    BY <1>5 DEF FailIoctl, network, Env, Still
  <1>6. CASE DropMessenger \/ ServeMessenger
    BY <1>6 DEF DropMessenger, ServeMessenger, network, Env, Still
  <1>7. CASE DropXmpp
    BY <1>7 DEF DropXmpp, Become, Env, Still
  <1> QED
    BY <1>1, <1>2, <1>3, <1>4, <1>5, <1>6, <1>7 DEF Silent

\* They keep the types of the login.
LEMMA StillTypes ==
    ASSUME TypeOK, Still
    PROVE  /\ client' \in ClientType
           /\ elements' \in Seq(Element) /\ fromServer' \in Seq(Element) /\ toServer' \in Seq(Stanza)
           /\ server' \in ServerType /\ sessions' \in Nat /\ refused' \in BOOLEAN
           /\ exposed' \in BOOLEAN
  <1>1. /\ client \in ClientType /\ server \in ServerType
        /\ elements \in Seq(Element) /\ fromServer \in Seq(Element) /\ toServer \in Seq(Stanza)
        /\ sessions \in Nat /\ refused \in BOOLEAN /\ exposed \in BOOLEAN
    BY Zenon DEF TypeOK, ClientType, ServerType
  <1>2. HungUp(client) \in ClientType
    BY <1>1 DEF ClientType, HungUp, LoggedOut
  <1>3. <<>> \in Seq(Element) /\ <<>> \in Seq(Stanza)
    BY EmptyTurn
  <1> QED
    BY <1>1, <1>2, <1>3 DEF Still, history

\* The rest of the type invariant.
Around ==
    /\ messenger \in {"open", "closed", "reset"}
    /\ request \in {"none", "authentication", "other"}
    /\ tried \in BOOLEAN
    /\ attached \subseteq {"messenger", "xmpp"}
    /\ ready \subseteq {"messenger", "xmpp"}
    /\ pump \in {"select", "walk", "elements", "returned", "terminated"}
    /\ run \in BOOLEAN
    /\ handle \in {"none", "own", "closed", "another"}
    /\ line \in {"open", "closed", "reset"}

\* The two halves.
LEMMA TypeHalves ==
    TypeOK <=>
      /\ Around
      /\ client \in ClientType
      /\ elements \in Seq(Element) /\ fromServer \in Seq(Element) /\ toServer \in Seq(Stanza)
      /\ server \in ServerType /\ sessions \in Nat /\ refused \in BOOLEAN /\ exposed \in BOOLEAN
  BY Zenon DEF TypeOK, Around, ClientType, ServerType

\* And after a step.
LEMMA TypeHalvesNext ==
    ASSUME Around', client' \in ClientType,
           elements' \in Seq(Element), fromServer' \in Seq(Element), toServer' \in Seq(Stanza),
           server' \in ServerType, sessions' \in Nat, refused' \in BOOLEAN, exposed' \in BOOLEAN
    PROVE  TypeOK'
  BY Zenon DEF TypeOK, Around, ClientType, ServerType

\* Every step keeps the one around the login.
LEMMA NextAround ==
    ASSUME Around, [Next]_vars, OnElement => Effect
    PROVE  Around'
  <1>1. CASE UNCHANGED vars
    BY <1>1 DEF vars, thread, Around
  <1>2. CASE Ask \/ Leave
    BY <1>2 DEF Ask, Leave, thread, Around
  <1>3. CASE CloseLine \/ ResetLine
    <2>1. UNCHANGED <<messenger, request, tried, attached, ready, pump, run, handle>>
          /\ line' \in {"closed", "reset"}
      BY <1>3, Zenon DEF CloseLine, ResetLine, thread
    <2> QED
      BY <2>1 DEF Around
  <1>4. CASE Answer \/ Volunteer
    <2>1. UNCHANGED <<messenger, request, tried, attached, ready, pump, run, handle>>
          /\ line' = line
      BY <1>4, Zenon DEF Answer, Volunteer, Serving, thread
    <2> QED
      BY <2>1 DEF Around
  <1>5. CASE Reuse
    BY <1>5 DEF Reuse, thread, Env, Around
  <1>6. CASE Select
    <2>1. ready' \subseteq attached
      BY <1>6 DEF Select
    <2> QED
      BY <1>6, <2>1 DEF Select, Env, Around
  <1>7. CASE RecvReturns \/ EndWalk
    BY <1>7 DEF RecvReturns, EndWalk, Env, Around
  <1>8. CASE \E socket \in {"messenger", "xmpp"} : FailIoctl(socket)
    BY <1>8 DEF FailIoctl, Visit, Env, Around
  <1>9. CASE DropMessenger \/ ServeMessenger
    BY <1>9 DEF DropMessenger, ServeMessenger, Visit, Env, Around
  <1>10. CASE DropXmpp
    BY <1>10 DEF DropXmpp, Visit, Become, Env, Around
  <1>11. CASE Authentication
    BY <1>11 DEF Authentication, Visit, Env, Around
  <1>12. CASE Recv
    BY <1>12 DEF Recv, Visit, Env, Around
  <1>13. CASE OnElement
    <2>1. UNCHANGED <<messenger, request, tried, attached, ready, run, line>>
          /\ pump' \in {"elements", "terminated"} /\ handle' \in {handle, "closed"}
      <3>1. Takes /\ \E c \in ClientType : Became(c)
        BY <1>13, Zenon DEF Effect
      <3> QED
        BY <3>1 DEF Takes, Became
    <2> QED
      BY <2>1 DEF Around
  <1> QED
    BY <1>1, <1>2, <1>3, <1>4, <1>5, <1>6, <1>7, <1>8, <1>9, <1>10, <1>11, <1>12, <1>13
       DEF Next, Pump

\* What the pump does to the login when it connects.
LEMMA Connects ==
    ASSUME TypeOK, Attached, Authentication
    PROVE  /\ ~tried /\ elements' = <<>> /\ fromServer' = <<>>
           /\ elements = <<>> /\ fromServer = <<>> /\ toServer = <<>>
           /\ client = NoClient /\ server = NoLogin /\ server' = server
           /\ sessions = 0 /\ ~refused /\ ~exposed /\ UNCHANGED <<sessions, refused, exposed>>
           /\ \/ /\ client' = [NoClient EXCEPT !.connected = TRUE]
                 /\ handle' = "own" /\ toServer' = <<Says("header")>>
                 /\ attached' = attached \cup {"xmpp"} /\ pump' = pump
              \/ /\ UNCHANGED <<client, handle, toServer, attached>>
                 /\ pump' = "terminated"
  <1>1. ~tried
    BY DEF Authentication, Attached
  <1>2. elements' = elements /\ fromServer' = fromServer /\ server' = server
        /\ UNCHANGED <<sessions, refused, exposed>>
    BY DEF Authentication, Env, history
  <1>3. \/ /\ client' = [NoClient EXCEPT !.connected = TRUE]
           /\ handle' = "own" /\ toServer' = <<Says("header")>>
           /\ attached' = attached \cup {"xmpp"} /\ pump' = pump
        \/ /\ UNCHANGED <<client, handle, toServer, attached>>
           /\ pump' = "terminated"
    BY DEF Authentication
  <1> QED
    BY <1>1, <1>2, <1>3 DEF Attached

\* The first stanza of a client.
LEMMA FirstStanza ==
    /\ [NoClient EXCEPT !.connected = TRUE] \in ClientType
    /\ <<Says("header")>> \in Seq(Stanza)
    /\ Elements(<<Says("header")>>) = {Says("header")}
    /\ OneTurn(<<Says("header")>>)
    /\ Says("header") \in Stanza /\ Says("header").name = "header"
  <1>1. Says("header") \in Stanza /\ Says("header").name = "header"
    BY DEF Says, Stanza
  <1>2. [NoClient EXCEPT !.connected = TRUE] \in ClientType
    BY DEF NoClient, ClientType
  <1>3. <<Says("header")>> = Append(<<>>, Says("header"))
    OBVIOUS
  <1>4. <<>> \in Seq(Stanza) /\ Elements(<<>>) = {} /\ ~HasTurn(<<>>) /\ OneTurn(<<>>)
    BY EmptyTurn
  <1>5. \A s \in Seq(Stanza) : \A e \in Stanza :
           /\ Append(s, e) \in Seq(Stanza)
           /\ Elements(Append(s, e)) = Elements(s) \cup {e}
           /\ OneTurn(s) /\ ~(HasTurn(s) /\ Turn(e)) => OneTurn(Append(s, e))
    BY AppendTurn
  <1>6. \A e \in Stanza :
           /\ Append(<<>>, e) \in Seq(Stanza)
           /\ Elements(Append(<<>>, e)) = {e}
           /\ OneTurn(Append(<<>>, e))
    <2>1. \A e \in Stanza :
           /\ Append(<<>>, e) \in Seq(Stanza)
           /\ Elements(Append(<<>>, e)) = Elements(<<>>) \cup {e}
           /\ OneTurn(<<>>) /\ ~(HasTurn(<<>>) /\ Turn(e)) => OneTurn(Append(<<>>, e))
      BY <1>4, <1>5, Zenon
    <2> QED
      BY <1>4, <2>1
  <1> QED
    BY <1>1, <1>2, <1>3, <1>4, <1>6

\* What the client reads.
LEMMA Reads ==
    ASSUME TypeOK, Recv
    PROVE  /\ elements' \in Seq(Element) /\ fromServer' \in Seq(Element)
           /\ Elements(elements') \cup Elements(fromServer') \subseteq Elements(fromServer)
           /\ HasTurn(elements') \/ HasTurn(fromServer') => HasTurn(fromServer)
           /\ OneTurn(fromServer) =>
                OneTurn(elements') /\ OneTurn(fromServer') /\ ~(HasTurn(elements') /\ HasTurn(fromServer'))
           /\ UNCHANGED <<client, handle, toServer, server, history>>
  <1>1. fromServer \in Seq(Element)
    BY DEF TypeOK
  <1>2. PICK n \in 1 .. Len(fromServer) :
          /\ elements' = SubSeq(fromServer, 1, n)
          /\ fromServer' = SubSeq(fromServer, n + 1, Len(fromServer))
    BY DEF Recv
  <1>3. UNCHANGED <<client, handle, toServer, server, history>>
    BY DEF Recv, Env
  <1> QED
    BY <1>1, <1>2, <1>3, SplitTurn, Zenon

\* The unasked elements.
Unasked == {Says("ask"), Says("presence"), Says("end"), Says("stream error")}

\* What the server says and what it has read.
LEMMA Answers ==
    ASSUME TypeOK, Answer
    PROVE  /\ toServer # <<>> /\ toServer' = Tail(toServer)
           /\ UNCHANGED <<client, handle, elements, history>>
           /\ \/ fromServer' = fromServer /\ server' = server
              \/ \E e \in Element :
                    /\ Apt(Head(toServer), e, server')
                    /\ fromServer' \in Seq(Element)
                    /\ Elements(fromServer') \subseteq Elements(fromServer) \cup {Says("stream"), e}
                    /\ HasTurn(fromServer') <=> HasTurn(fromServer) \/ Turn(e)
                    /\ OneTurn(fromServer) /\ ~(HasTurn(fromServer) /\ Turn(e))
                          => OneTurn(fromServer')
  <1>1. /\ toServer # <<>> /\ toServer' = Tail(toServer)
        /\ UNCHANGED <<client, handle, elements, history>>
    BY DEF Answer, Serving
  <1>2. fromServer \in Seq(Element) /\ toServer \in Seq(Stanza)
    BY DEF TypeOK
  <1>3. Head(toServer) \in Stanza
    BY <1>1, <1>2, TailTurn
  <1>4. PICK reply \in Replies(Head(toServer)) :
           fromServer' = fromServer \o reply.says /\ server' = reply.holds
    BY DEF Answer
  <1>5. CASE reply.says = <<>> /\ reply.holds = server
    BY <1>1, <1>2, <1>4, <1>5
  <1>6. ASSUME NEW e \in Element, reply.says = <<e>> \/ reply.says = <<Says("stream"), e>>,
               Apt(Head(toServer), e, reply.holds)
        PROVE  /\ fromServer' \in Seq(Element)
               /\ Elements(fromServer') \subseteq Elements(fromServer) \cup {Says("stream"), e}
               /\ HasTurn(fromServer') <=> HasTurn(fromServer) \/ Turn(e)
               /\ OneTurn(fromServer) /\ ~(HasTurn(fromServer) /\ Turn(e)) => OneTurn(fromServer')
    <2>1. CASE reply.says = <<e>>
      <3>1. fromServer' = Append(fromServer, e)
        BY <1>2, <1>4, <2>1
      <3> QED
        BY <1>2, <3>1, AppendTurn
    <2>2. CASE reply.says = <<Says("stream"), e>>
      <3>1. fromServer' = fromServer \o <<Says("stream"), e>>
        BY <1>4, <2>2
      <3>2. Says("stream") \in Element /\ ~Turn(Says("stream"))
        BY DEF Says, Element, Turn
      <3>3. /\ fromServer \o <<Says("stream"), e>> \in Seq(Element)
            /\ Elements(fromServer \o <<Says("stream"), e>>)
                 = Elements(fromServer) \cup {Says("stream"), e}
            /\ HasTurn(fromServer \o <<Says("stream"), e>>) <=> HasTurn(fromServer) \/ Turn(e)
            /\ OneTurn(fromServer) /\ ~(HasTurn(fromServer) /\ Turn(e))
                  => OneTurn(fromServer \o <<Says("stream"), e>>)
        BY <1>2, <3>2, AppendTwo
      <3> QED
        BY <3>1, <3>3, Zenon
    <2> QED
      BY <1>6, <2>1, <2>2
  <1>7. ASSUME NEW e \in Element, reply.says = <<e>> \/ reply.says = <<Says("stream"), e>>,
               Apt(Head(toServer), e, reply.holds)
        PROVE  \E d \in Element :
                    /\ Apt(Head(toServer), d, server')
                    /\ fromServer' \in Seq(Element)
                    /\ Elements(fromServer') \subseteq Elements(fromServer) \cup {Says("stream"), d}
                    /\ HasTurn(fromServer') <=> HasTurn(fromServer) \/ Turn(d)
                    /\ OneTurn(fromServer) /\ ~(HasTurn(fromServer) /\ Turn(d))
                          => OneTurn(fromServer')
    <2>1. Apt(Head(toServer), e, server')
      BY <1>4, <1>7
    <2> QED
      BY <1>6, <1>7, <2>1, Zenon
  <1>8. \/ reply.says = <<>> /\ reply.holds = server
        \/ \E e \in Element : /\ reply.says = <<e>> \/ reply.says = <<Says("stream"), e>>
                              /\ Apt(Head(toServer), e, reply.holds)
    BY <1>3, <1>4, RepliesFit, Zenon
  <1> QED
    BY <1>1, <1>5, <1>7, <1>8, Zenon

\* What it says unasked.
LEMMA Volunteers ==
    ASSUME TypeOK, Volunteer
    PROVE  /\ fromServer' \in Seq(Element)
           /\ Elements(fromServer') \subseteq Elements(fromServer) \cup Unasked
           /\ HasTurn(fromServer') <=> HasTurn(fromServer)
           /\ OneTurn(fromServer) => OneTurn(fromServer')
           /\ server' \in ServerType
           /\ server'.authed = server.authed /\ server'.encrypted = server.encrypted
           /\ server'.offered = server.offered
           /\ UNCHANGED <<client, handle, elements, toServer, history>>
  <1>1. fromServer \in Seq(Element) /\ server \in ServerType
    BY DEF TypeOK, ServerType
  <1>2. \A e \in Unasked : e \in Element /\ ~Turn(e)
    <2>1. \A e \in Unasked : \E name \in {"ask", "presence", "end", "stream error"} : e = Says(name)
      BY DEF Unasked
    <2>2. \A name \in {"ask", "presence", "end", "stream error"} :
             Says(name) \in Element /\ ~Turn(Says(name))
      BY DEF Says, Element, Turn
    <2> QED
      BY <2>1, <2>2, Zenon
  <1>3. /\ server' \in ServerType
        /\ server'.authed = server.authed /\ server'.encrypted = server.encrypted
        /\ server'.offered = server.offered
    <2>1. \/ server' = [server EXCEPT !.unasked = @ + 1]
          \/ server' = [server EXCEPT !.unasked = @ + 1, !.ended = TRUE]
      BY DEF Volunteer
    <2>2. CASE server' = [server EXCEPT !.unasked = @ + 1]
      BY <1>1, <2>2 DEF ServerType
    <2>3. CASE server' = [server EXCEPT !.unasked = @ + 1, !.ended = TRUE]
      <3> DEFINE d == [server EXCEPT !.unasked = @ + 1]
      <3>1. /\ d \in ServerType
            /\ d.authed = server.authed /\ d.encrypted = server.encrypted
            /\ d.offered = server.offered
        BY <1>1 DEF ServerType
      <3>2. server' = [d EXCEPT !.ended = TRUE]
        BY <2>3
      <3> HIDE DEF d
      <3> QED
        BY <3>1, <3>2 DEF ServerType
    <2> QED
      BY <2>1, <2>2, <2>3
  <1>4. UNCHANGED <<client, handle, elements, toServer, history>>
    BY DEF Volunteer, Serving
  <1>5. \/ \E e \in Unasked : fromServer' = Append(fromServer, e)
        \/ fromServer' = fromServer \o <<Says("stream error"), Says("end")>>
    <2>1. \/ \E name \in {"ask", "presence"} : fromServer' = Append(fromServer, Says(name))
          \/ fromServer' = fromServer \o <<Says("end")>>
          \/ fromServer' = fromServer \o <<Says("stream error"), Says("end")>>
      BY DEF Volunteer
    <2>2. fromServer \o <<Says("end")>> = Append(fromServer, Says("end"))
      BY <1>1
    <2> QED
      BY <2>1, <2>2 DEF Unasked
  <1>6. ASSUME NEW e \in Unasked, fromServer' = Append(fromServer, e)
        PROVE  /\ fromServer' \in Seq(Element)
               /\ Elements(fromServer') \subseteq Elements(fromServer) \cup Unasked
               /\ HasTurn(fromServer') <=> HasTurn(fromServer)
               /\ OneTurn(fromServer) => OneTurn(fromServer')
    <2>1. e \in Element /\ ~Turn(e)
      BY <1>2
    <2> QED
      BY <1>1, <1>6, <2>1, AppendTurn
  <1>7. ASSUME fromServer' = fromServer \o <<Says("stream error"), Says("end")>>
        PROVE  /\ fromServer' \in Seq(Element)
               /\ Elements(fromServer') \subseteq Elements(fromServer) \cup Unasked
               /\ HasTurn(fromServer') <=> HasTurn(fromServer)
               /\ OneTurn(fromServer) => OneTurn(fromServer')
    <2>1. /\ Says("stream error") \in Unasked /\ Says("end") \in Unasked
      BY DEF Unasked
    <2>2. /\ Says("stream error") \in Element /\ ~Turn(Says("stream error"))
          /\ Says("end") \in Element /\ ~Turn(Says("end"))
      BY <1>2, <2>1
    <2> DEFINE s == fromServer \o <<Says("stream error"), Says("end")>>
    <2>3. /\ s \in Seq(Element)
          /\ Elements(s) = Elements(fromServer) \cup {Says("stream error"), Says("end")}
          /\ HasTurn(s) <=> HasTurn(fromServer) \/ Turn(Says("end"))
          /\ OneTurn(fromServer) /\ ~(HasTurn(fromServer) /\ Turn(Says("end"))) => OneTurn(s)
      BY <1>1, <2>2, AppendTwo
    <2>4. fromServer' = s
      BY <1>7
    <2> HIDE DEF s
    <2> QED
      BY <2>1, <2>2, <2>3, <2>4
  <1> QED
    BY <1>3, <1>4, <1>5, <1>6, <1>7

\* What the client has handled and said.
LEMMA Handles ==
    ASSUME TypeOK, Effect
    PROVE  /\ client' \in ClientType /\ elements' \in Seq(Element) /\ fromServer' \in Seq(Element)
           /\ toServer' \in Seq(Stanza) /\ sessions' \in Nat /\ refused' \in BOOLEAN
           /\ exposed' \in BOOLEAN /\ server' = server
           /\ elements # <<>> /\ elements' = Tail(elements)
           /\ fromServer' \in {fromServer, <<>>}
  <1>1. PICK c \in ClientType, stanzas \in SUBSET Stanza :
           Became(c) /\ Said(stanzas) /\ Permitted(c, stanzas) /\ Ends(c, stanzas)
    BY DEF Effect
  <1>2. elements \in Seq(Element) /\ fromServer \in Seq(Element) /\ toServer \in Seq(Stanza)
        /\ sessions \in Nat /\ refused \in BOOLEAN
    BY DEF TypeOK
  <1>3. elements # <<>> /\ elements' = Tail(elements) /\ server' = server
    BY DEF Effect, Takes
  <1>4. elements' \in Seq(Element)
    BY <1>2, <1>3, TailTurn
  <1>5. client' \in ClientType /\ fromServer' \in {fromServer, <<>>}
    BY <1>1 DEF Became
  <1>6. fromServer' \in Seq(Element)
    BY <1>2, <1>5, EmptyTurn
  <1>7. toServer' \in Seq(Stanza)
    <2>1. \A stanza \in Stanza : Append(toServer, stanza) \in Seq(Stanza)
      BY <1>2, AppendTurn
    <2>2. toServer' = toServer \/ \E stanza \in stanzas : toServer' = Append(toServer, stanza)
      BY <1>1, Zenon DEF Said
    <2> QED
      BY <1>1, <1>2, <2>1, <2>2
  <1>8. exposed' \in BOOLEAN
    BY <1>1, Zenon DEF Said
  <1>9. sessions' \in Nat /\ refused' \in BOOLEAN
    <2>1. /\ sessions' = sessions \/ sessions' = sessions + 1
          /\ refused' = refused \/ refused' = TRUE
      BY <1>1, Zenon DEF Ends
    <2>2. sessions' \in Nat
      BY <1>2, <2>1
    <2>3. refused' \in BOOLEAN
      BY <1>2, <2>1, Zenon
    <2> QED
      BY <2>2, <2>3
  <1> QED
    BY <1>3, <1>4, <1>5, <1>6, <1>7, <1>8, <1>9

\* The state before the first packet has the right types.
LEMMA InitTypes == Init => TypeOK
  <1> SUFFICES ASSUME Init PROVE TypeOK
    OBVIOUS
  <1>1. client \in ClientType /\ server \in ServerType
    BY DEF Init, NoClient, NoLogin, ClientType, ServerType
  <1>2. elements \in Seq(Element) /\ fromServer \in Seq(Element) /\ toServer \in Seq(Stanza)
    BY EmptyTurn DEF Init
  <1>3. Around
    BY DEF Init, Around
  <1>4. sessions \in Nat /\ refused \in BOOLEAN /\ exposed \in BOOLEAN
    BY DEF Init
  <1> QED
    BY <1>1, <1>2, <1>3, <1>4, TypeHalves

\* Every element is handled within what it allows.
LEMMA NextEffect ==
    ASSUME TypeOK, Acceptance, OnElement
    PROVE  Effect
  <1>1. elements \in Seq(Element) /\ elements # <<>>
    BY DEF TypeOK, OnElement, OnStream, OnOldStream, OnStreamError, OnEnd, OnFeatures, OnProceed,
           OnTlsDone, OnTlsFailed, OnSaslFailure, OnChallenge, OnSuccess, OnBind, OnSession,
           OnRefused, OnRoster, OnFields, OnCredentials, OnNotAuthorized, OnAsk, OnPresence,
           HandleIq, Handle
  <1>2. Head(elements) \in Elements(elements)
    BY <1>1, TailTurn
  <1>3. Head(elements).name = "challenge" => client.mech # "none"
    BY <1>2 DEF Acceptance, Founded, Arriving
  <1> QED
    BY <1>3, ElementEffect

\* Every step keeps the types.
LEMMA NextTypes ==
    ASSUME TypeOK, Attached, Acceptance, [Next]_vars
    PROVE  TypeOK'
  <1>0. /\ Around /\ client \in ClientType
        /\ elements \in Seq(Element) /\ fromServer \in Seq(Element) /\ toServer \in Seq(Stanza)
        /\ server \in ServerType /\ sessions \in Nat /\ refused \in BOOLEAN /\ exposed \in BOOLEAN
    BY TypeHalves
  <1>1. Around'
    BY <1>0, NextAround, NextEffect
  <1>2. CASE UNCHANGED vars \/ Silent
    <2>1. Still
      BY <1>2, SilentStill
    <2> QED
      BY <1>1, <2>1, StillTypes, TypeHalvesNext, Zenon
  <1>3. CASE Answer
    <2>1. toServer' \in Seq(Stanza)
      <3>1. toServer # <<>> /\ toServer' = Tail(toServer)
        BY <1>3, Answers
      <3> QED
        BY <1>0, <3>1, TailTurn
    <2>2. fromServer' \in Seq(Element) /\ server' \in ServerType
      BY <1>0, <1>3, Answers DEF Apt, Grown
    <2>3. UNCHANGED <<client, elements, history>>
      BY <1>3, Answers
    <2> QED
      BY <1>0, <1>1, <2>1, <2>2, <2>3, TypeHalvesNext DEF history
  <1>4. CASE Volunteer
    <2>1. /\ fromServer' \in Seq(Element) /\ server' \in ServerType
          /\ UNCHANGED <<client, elements, toServer, history>>
      BY <1>4, Volunteers
    <2> QED
      BY <1>0, <1>1, <2>1, TypeHalvesNext DEF history
  <1>5. CASE Authentication
    <2>1. /\ client' \in ClientType /\ toServer' \in Seq(Stanza)
          /\ elements' = elements /\ fromServer' = fromServer /\ server' = server
          /\ UNCHANGED <<sessions, refused, exposed>>
      BY <1>0, <1>5, Connects, FirstStanza
    <2> QED
      BY <1>0, <1>1, <2>1, TypeHalvesNext
  <1>6. CASE Recv
    <2>1. /\ elements' \in Seq(Element) /\ fromServer' \in Seq(Element)
          /\ UNCHANGED <<client, toServer, server, history>>
      BY <1>6, Reads
    <2> QED
      BY <1>0, <1>1, <2>1, TypeHalvesNext DEF history
  <1>7. CASE OnElement
    <2>1. Effect
      BY <1>7, NextEffect
    <2>2. /\ client' \in ClientType /\ elements' \in Seq(Element) /\ fromServer' \in Seq(Element)
          /\ toServer' \in Seq(Stanza) /\ sessions' \in Nat /\ refused' \in BOOLEAN
          /\ exposed' \in BOOLEAN /\ server' = server
      BY <2>1, Handles
    <2> QED
      BY <1>0, <1>1, <2>2, TypeHalvesNext
  <1> QED
    BY <1>2, <1>3, <1>4, <1>5, <1>6, <1>7, StepKinds

-----------------------------------------------------------------------------
(* The pump's hold of the client.                                          *)

\* What an element changes of it.
LEMMA EffectAttached ==
    ASSUME Effect
    PROVE  /\ UNCHANGED <<tried, request, attached, ready, server>>
           /\ pump = "elements" /\ pump' \in {"elements", "terminated"}
           /\ elements # <<>>
           /\ client'.connected => client.connected
           /\ handle' = IF client.connected /\ ~client'.connected THEN "closed" ELSE handle
  BY DEF Effect, Takes, Became, Permitted

\* The socket, the pump's hold of it and the client still agree.
LEMMA NextAttached ==
    ASSUME TypeOK, Attached, Acceptance, [Next]_vars
    PROVE  Attached'
  <1>1. CASE UNCHANGED vars
    BY <1>1, Zenon DEF vars, thread, network, history, Attached
  <1>2. CASE Ask
    BY <1>2 DEF Ask, thread, network, history, Attached
  <1>3. CASE Leave
    BY <1>3 DEF Leave, thread, network, history, Attached
  <1>4. CASE CloseLine \/ ResetLine
    <2>1. client.connected /\ UNCHANGED <<request, tried, thread, client, handle, elements>>
      BY <1>4 DEF CloseLine, ResetLine
    <2>2. tried
      BY <2>1 DEF Attached, NoClient
    <2> QED
      BY <2>1, <2>2 DEF thread, Attached
  <1>5. CASE Answer \/ Volunteer
    <2>1. client.connected /\ UNCHANGED <<request, tried, thread, client, handle, elements>>
      BY <1>5 DEF Answer, Volunteer, Serving
    <2>2. tried
      BY <2>1 DEF Attached, NoClient
    <2> QED
      BY <2>1, <2>2 DEF thread, Attached
  <1>6. CASE Reuse
    BY <1>6 DEF Reuse, thread, network, history, Env, Attached
  <1>7. CASE Select \/ EndWalk
    BY <1>7 DEF Select, EndWalk, network, history, Env, Attached
  <1>8. CASE RecvReturns
    BY <1>8 DEF RecvReturns, network, history, Env, Attached
  <1>9. CASE \E socket \in {"messenger", "xmpp"} : FailIoctl(socket)
    BY <1>9 DEF FailIoctl, Visit, network, history, Env, Attached
  <1>10. CASE DropMessenger \/ ServeMessenger
    <2>1. /\ UNCHANGED <<tried, pump, client, handle, elements, network, server, history>>
          /\ attached' \in {attached, attached \ {"messenger"}} /\ request' \in {request, "none"}
          /\ ready' \subseteq ready
      BY <1>10 DEF DropMessenger, ServeMessenger, Visit, Env
    <2> QED
      BY <2>1 DEF network, history, Attached
  <1>11. CASE DropXmpp
    <2>1. /\ UNCHANGED <<request, tried, pump, elements>>
          /\ attached' = attached \ {"xmpp"} /\ Become(HungUp(client)) /\ pump = "walk"
          /\ "xmpp" \in ready
      BY <1>11 DEF DropXmpp, Visit, Env
    <2>2. tried /\ elements = <<>>
      BY <2>1 DEF Attached
    <2>3. client \in ClientType
      BY DEF TypeOK, ClientType
    <2>4. ~HungUp(client).connected
      BY <2>3 DEF HungUp, LoggedOut, ClientType
    <2>5. /\ client' = HungUp(client)
          /\ handle' = IF client.connected THEN "closed" ELSE handle
      BY <2>1, <2>4 DEF Become
    <2>6. ~client'.connected /\ handle' # "own"
      BY <2>4, <2>5 DEF Attached
    <2> QED
      BY <2>1, <2>2, <2>6 DEF Attached
  <1>12. CASE Authentication
    <2>1. tried' /\ request' = "none"
      BY <1>12 DEF Authentication
    <2>2. [NoClient EXCEPT !.connected = TRUE].connected
      BY DEF NoClient
    <2> QED
      BY <1>12, <2>1, <2>2, Connects DEF Attached
  <1>13. CASE Recv
    <2>1. /\ "xmpp" \in ready /\ client.connected /\ pump' = "elements"
          /\ UNCHANGED <<request, tried, attached, client, handle>>
      BY <1>13 DEF Recv, Visit
    <2>2. tried
      BY <2>1 DEF Attached, NoClient
    <2> QED
      BY <2>1, <2>2 DEF Attached
  <1>14. CASE OnElement
    <2>1. Effect
      BY <1>14, NextEffect
    <2>2. /\ UNCHANGED <<tried, request, attached, server>>
          /\ pump = "elements" /\ pump' \in {"elements", "terminated"}
          /\ elements # <<>>
          /\ client'.connected => client.connected
          /\ handle' = IF client.connected /\ ~client'.connected THEN "closed" ELSE handle
      BY <2>1, EffectAttached
    <2>3. tried /\ handle # "none"
      BY <2>2 DEF Attached
    <2> QED
      BY <2>2, <2>3 DEF Attached
  <1> QED
    BY <1>1, <1>2, <1>3, <1>4, <1>5, <1>6, <1>7, <1>8, <1>9, <1>10, <1>11, <1>12, <1>13, <1>14
       DEF Next, Pump

-----------------------------------------------------------------------------
(* The turns.                                                              *)

\* Where the turn is after an answer.
LEMMA AnswerTurns ==
    ASSUME TypeOK, Turns, Answer
    PROVE  Turns'
  <1>1. /\ toServer # <<>> /\ toServer' = Tail(toServer)
        /\ UNCHANGED <<elements, sessions, refused>>
    BY Answers DEF history
  <1>2. toServer \in Seq(Stanza)
    BY DEF TypeOK
  <1>3. /\ HasTurn(toServer') => HasTurn(toServer)
        /\ Turn(Head(toServer)) => HasTurn(toServer)
        /\ OneTurn(toServer') /\ ~(Turn(Head(toServer)) /\ HasTurn(toServer'))
    BY <1>1, <1>2, TailTurn, Zenon DEF Turns
  <1>4. CASE fromServer' = fromServer
    BY <1>1, <1>3, <1>4, Zenon DEF Turns
  <1>5. ASSUME NEW e \in Element, Apt(Head(toServer), e, server'),
               HasTurn(fromServer') <=> HasTurn(fromServer) \/ Turn(e),
               OneTurn(fromServer) /\ ~(HasTurn(fromServer) /\ Turn(e)) => OneTurn(fromServer')
        PROVE  Turns'
    <2>1. Turn(Head(toServer))
      BY <1>5 DEF Apt
    <2>2. ~HasTurn(elements) /\ ~HasTurn(fromServer) /\ ~(sessions > 0 \/ refused)
          /\ OneTurn(fromServer') /\ ~HasTurn(toServer')
      BY <1>3, <1>5, <2>1, Zenon DEF Turns
    <2> QED
      BY <1>1, <1>3, <2>2, Zenon DEF Turns
  <1> QED
    BY <1>4, <1>5, Answers, Zenon

\* Only what has a turn is answered with one, and the last is not.
LEMMA EffectTurns ==
    ASSUME TypeOK, Turns, Effect
    PROVE  Turns'
  <1>1. PICK c \in ClientType, stanzas \in SUBSET Stanza :
           Became(c) /\ Said(stanzas) /\ Permitted(c, stanzas) /\ Ends(c, stanzas)
    BY DEF Effect
  <1>2. /\ elements # <<>> /\ elements' = Tail(elements) /\ fromServer' \in {fromServer, <<>>}
    BY Handles
  <1>3. elements \in Seq(Element) /\ toServer \in Seq(Stanza) /\ sessions \in Nat
    BY DEF TypeOK
  <1>4. /\ HasTurn(elements') => HasTurn(elements)
        /\ Turn(Head(elements)) => HasTurn(elements)
        /\ OneTurn(elements') /\ ~(Turn(Head(elements)) /\ HasTurn(elements'))
    BY <1>2, <1>3, TailTurn, Zenon DEF Turns
  <1>5. OneTurn(fromServer') /\ (HasTurn(fromServer') => HasTurn(fromServer))
    BY <1>2, EmptyTurn DEF Turns
  <1>6. \A stanza \in stanzas : stanza \in Stanza /\ (Turn(stanza) => Turn(Head(elements)))
    BY <1>1 DEF Permitted
  <1>7. \/ toServer' = toServer
        \/ \E stanza \in stanzas : toServer' = Append(toServer, stanza)
    BY <1>1, Zenon DEF Said
  <1>8. /\ HasTurn(toServer') => HasTurn(toServer) \/ \E stanza \in stanzas : Turn(stanza)
        /\ OneTurn(toServer')
    <2>1. CASE toServer' = toServer
      BY <2>1, Zenon DEF Turns
    <2>2. ASSUME NEW stanza \in stanzas, toServer' = Append(toServer, stanza)
          PROVE  /\ HasTurn(toServer') => HasTurn(toServer) \/ Turn(stanza)
                 /\ OneTurn(toServer')
      <3>1. stanza \in Stanza
        BY <1>6
      <3>2. /\ HasTurn(toServer') <=> HasTurn(toServer) \/ Turn(stanza)
            /\ OneTurn(toServer) /\ ~(HasTurn(toServer) /\ Turn(stanza)) => OneTurn(toServer')
        BY <1>3, <2>2, <3>1, AppendTurn
      <3>3. OneTurn(toServer) /\ ~(HasTurn(toServer) /\ Turn(stanza))
        BY <1>4, <1>6, Zenon DEF Turns
      <3> QED
        BY <3>2, <3>3
    <2> QED
      BY <1>7, <2>1, <2>2, Zenon
  <1>9. /\ ~(HasTurn(elements') /\ HasTurn(fromServer'))
        /\ ~(HasTurn(elements') /\ HasTurn(toServer'))
        /\ ~(HasTurn(fromServer') /\ HasTurn(toServer'))
    BY <1>4, <1>5, <1>6, <1>8, Zenon DEF Turns
  <1>10. CASE UNCHANGED <<sessions, refused>>
    <2>1. sessions > 0 \/ refused =>
             ~HasTurn(elements') /\ ~HasTurn(fromServer') /\ ~HasTurn(toServer')
      BY <1>4, <1>5, <1>6, <1>8, Zenon DEF Turns
    <2>2. sessions' = sessions /\ refused' = refused
      BY <1>10
    <2> QED
      BY <1>4, <1>5, <1>8, <1>9, <2>1, <2>2, Zenon DEF Turns
  <1>11. CASE Turn(Head(elements)) /\ \A stanza \in stanzas : ~Turn(stanza)
    <2>1. ~HasTurn(elements') /\ ~HasTurn(fromServer') /\ ~HasTurn(toServer')
      BY <1>4, <1>5, <1>8, <1>11, Zenon DEF Turns
    <2>2. ~(sessions > 0) /\ ~refused
      BY <1>4, <1>11, Zenon DEF Turns
    <2>3. sessions = 0
      BY <1>3, <2>2
    <2>4. \/ sessions' = sessions /\ refused' = refused
          \/ sessions' = sessions + 1 /\ refused' = refused
          \/ sessions' = sessions /\ refused' = TRUE
      BY <1>1, Zenon DEF Ends
    <2>5. sessions' <= 1 /\ (refused' => sessions' = 0)
      BY <2>2, <2>3, <2>4
    <2> QED
      BY <1>4, <1>5, <1>8, <1>9, <2>1, <2>5, Zenon DEF Turns
  <1> QED
    BY <1>1, <1>10, <1>11, Zenon DEF Ends

\* Every step keeps the turns.
LEMMA NextTurns ==
    ASSUME TypeOK, Attached, Turns, Acceptance, [Next]_vars
    PROVE  Turns'
  <1>1. CASE UNCHANGED vars \/ Silent
    <2>1. Still
      BY <1>1, SilentStill
    <2>2. /\ elements' = elements /\ sessions' = sessions /\ refused' = refused
          /\ fromServer' \in {fromServer, <<>>} /\ toServer' \in {toServer, <<>>}
      BY <2>1 DEF Still, history
    <2>3. /\ OneTurn(fromServer') /\ (HasTurn(fromServer') => HasTurn(fromServer))
          /\ OneTurn(toServer') /\ (HasTurn(toServer') => HasTurn(toServer))
      BY <2>2, EmptyTurn DEF Turns
    <2> QED
      BY <2>2, <2>3, Zenon DEF Turns
  <1>2. CASE Answer
    BY <1>2, AnswerTurns
  <1>3. CASE Volunteer
    <2>1. /\ HasTurn(fromServer') <=> HasTurn(fromServer)
          /\ OneTurn(fromServer) => OneTurn(fromServer')
          /\ UNCHANGED <<elements, toServer, sessions, refused>>
      BY <1>3, Volunteers DEF history
    <2> QED
      BY <2>1, Zenon DEF Turns
  <1>4. CASE Authentication
    <2>1. /\ elements' = <<>> /\ fromServer' = <<>> /\ sessions' = 0 /\ ~refused'
          /\ toServer' = <<>> \/ toServer' = <<Says("header")>>
      BY <1>4, Connects
    <2>2. OneTurn(toServer') /\ OneTurn(<<>>) /\ ~HasTurn(<<>>)
      BY <2>1, EmptyTurn, FirstStanza
    <2>3. ~(sessions' > 0) /\ sessions' <= 1
      BY <2>1
    <2> QED
      BY <2>1, <2>2, <2>3, Zenon DEF Turns
  <1>5. CASE Recv
    <2>1. elements = <<>>
      BY <1>5 DEF Recv, Visit, Attached
    <2>2. /\ HasTurn(elements') \/ HasTurn(fromServer') => HasTurn(fromServer)
          /\ OneTurn(fromServer) =>
                OneTurn(elements') /\ OneTurn(fromServer') /\ ~(HasTurn(elements') /\ HasTurn(fromServer'))
          /\ UNCHANGED <<toServer, sessions, refused>>
      BY <1>5, Reads DEF history
    <2> QED
      BY <2>2, Zenon DEF Turns
  <1>6. CASE OnElement
    BY <1>6, NextEffect, EffectTurns
  <1> QED
    BY <1>1, <1>2, <1>3, <1>4, <1>5, <1>6, StepKinds

-----------------------------------------------------------------------------
(* The acceptance of the login, and its secrecy.                           *)

\* What is under way after a message has been taken.
LEMMA EffectAlone ==
    ASSUME TypeOK, Turns, Effect
    PROVE  /\ Head(elements) \in Arriving /\ Arriving' \subseteq Arriving
           /\ Turn(Head(elements)) =>
                /\ \A m \in Arriving' : ~Turn(m)
                /\ \A m \in Elements(toServer) : ~Turn(m)
  <1>1. elements # <<>> /\ elements' = Tail(elements) /\ fromServer' \in {fromServer, <<>>}
    BY Handles
  <1>2. elements \in Seq(Element)
    BY DEF TypeOK
  <1>3. /\ Head(elements) \in Elements(elements)
        /\ Elements(elements') \subseteq Elements(elements)
        /\ Turn(Head(elements)) => HasTurn(elements)
        /\ ~(Turn(Head(elements)) /\ HasTurn(elements'))
    BY <1>1, <1>2, TailTurn, Zenon DEF Turns
  <1>4. Elements(fromServer') \subseteq Elements(fromServer)
    BY <1>1, EmptyTurn
  <1>5. ASSUME Turn(Head(elements))
        PROVE  /\ \A m \in Elements(elements') : ~Turn(m)
               /\ \A m \in Elements(fromServer) : ~Turn(m)
               /\ \A m \in Elements(toServer) : ~Turn(m)
    <2>1. ~HasTurn(elements') /\ ~HasTurn(fromServer) /\ ~HasTurn(toServer)
      BY <1>3, <1>5, Zenon DEF Turns
    <2> QED
      BY <2>1, TurnIn, Zenon
  <1> QED
    BY <1>3, <1>4, <1>5 DEF Arriving

LEMMA AnswerAlone ==
    ASSUME TypeOK, Turns, Answer, Turn(Head(toServer))
    PROVE  /\ \A m \in Arriving : ~Turn(m)
           /\ \A m \in Elements(toServer') : ~Turn(m)
  <1>1. toServer # <<>> /\ toServer' = Tail(toServer)
    BY Answers
  <1>2. toServer \in Seq(Stanza)
    BY DEF TypeOK
  <1>3. HasTurn(toServer) /\ ~HasTurn(toServer')
    BY <1>1, <1>2, TailTurn, Zenon DEF Turns
  <1>4. ~HasTurn(elements) /\ ~HasTurn(fromServer)
    BY <1>3, Zenon DEF Turns
  <1>5. (\A m \in Elements(elements) : ~Turn(m)) /\ (\A m \in Elements(fromServer) : ~Turn(m))
        /\ (\A m \in Elements(toServer') : ~Turn(m))
    BY <1>3, <1>4, TurnIn, Zenon
  <1> QED
    BY <1>5 DEF Arriving

\* What an answer adds, and what it is an answer to.
LEMMA AnswerArrives ==
    ASSUME TypeOK, Answer
    PROVE  /\ Head(toServer) \in Stanza /\ Head(toServer) \in Elements(toServer)
           /\ Elements(toServer') \subseteq Elements(toServer)
           /\ UNCHANGED <<client, history>>
           /\ \/ Arriving' = Arriving /\ server' = server
              \/ \E e \in Element : /\ Apt(Head(toServer), e, server')
                                    /\ Arriving' \subseteq Arriving \cup {Says("stream"), e}
  <1>1. /\ toServer # <<>> /\ toServer' = Tail(toServer) /\ UNCHANGED <<client, elements, history>>
    BY Answers
  <1>2. toServer \in Seq(Stanza)
    BY DEF TypeOK
  <1>3. Head(toServer) \in Stanza /\ Head(toServer) \in Elements(toServer)
        /\ Elements(toServer') \subseteq Elements(toServer)
    BY <1>1, <1>2, TailTurn
  <1>4. \/ fromServer' = fromServer /\ server' = server
        \/ \E e \in Element : /\ Apt(Head(toServer), e, server')
                              /\ Elements(fromServer') \subseteq Elements(fromServer) \cup {Says("stream"), e}
    BY Answers
  <1> QED
    BY <1>1, <1>3, <1>4 DEF Arriving

\* The names of the elements nobody waits for.
LEMMA OtherElements ==
    \A e \in Unasked \cup {Says("stream")} :
       e.name \in {"ask", "presence", "end", "stream error", "stream"} /\ ~Turn(e)
  <1>1. \A e \in Unasked \cup {Says("stream")} :
           \E name \in {"ask", "presence", "end", "stream error", "stream"} : e = Says(name)
    BY DEF Unasked
  <1>2. \A name \in {"ask", "presence", "end", "stream error", "stream"} :
           Says(name).name = name /\ ~Turn(Says(name))
    BY DEF Says, Turn
  <1> QED
    BY <1>1, <1>2, Zenon

\* What a step that keeps still, a recv or an unasked element leaves.
Lesser ==
    /\ client' \in {client, HungUp(client)}
    /\ Arriving' \subseteq Arriving \cup Unasked
    /\ Elements(toServer') \subseteq Elements(toServer)
    /\ server'.authed = server.authed /\ server'.encrypted = server.encrypted
    /\ server'.offered = server.offered
    /\ UNCHANGED history

LEMMA LesserSteps ==
    ASSUME TypeOK, Attached, UNCHANGED vars \/ Silent \/ Volunteer \/ Recv
    PROVE  Lesser
  <1>1. CASE UNCHANGED vars \/ Silent
    <2>1. Still
      BY <1>1, SilentStill
    <2>2. Elements(fromServer') \subseteq Elements(fromServer)
          /\ Elements(toServer') \subseteq Elements(toServer)
      BY <2>1, EmptyTurn DEF Still
    <2> QED
      BY <2>1, <2>2 DEF Still, Arriving, Lesser
  <1>2. CASE Volunteer
    BY <1>2, Volunteers DEF Arriving, Lesser
  <1>3. CASE Recv
    <2>1. /\ Elements(elements') \cup Elements(fromServer') \subseteq Elements(fromServer)
          /\ UNCHANGED <<client, toServer, server, history>>
      BY <1>3, Reads
    <2> QED
      BY <2>1 DEF Arriving, Lesser
  <1> QED
    BY <1>1, <1>2, <1>3

LEMMA LesserClient ==
    ASSUME TypeOK, Lesser
    PROVE  /\ client'.authed => client.authed
           /\ client'.awaiting = client.awaiting /\ client'.mech = client.mech
           /\ client'.signature = client.signature
           /\ client'.connected => client.connected /\ client'.encrypted = client.encrypted
  <1>1. client \in ClientType
    BY DEF TypeOK, ClientType
  <1>2. /\ ~HungUp(client).authed /\ ~HungUp(client).connected
        /\ HungUp(client).awaiting = client.awaiting /\ HungUp(client).mech = client.mech
        /\ HungUp(client).signature = client.signature
    BY <1>1 DEF HungUp, LoggedOut, ClientType
  <1> QED
    BY <1>2 DEF Lesser

\* Every step keeps the acceptance.
LEMMA NextAcceptance ==
    ASSUME TypeOK, Attached, Turns, Acceptance, [Next]_vars
    PROVE  Acceptance'
  <1>0. client \in ClientType /\ server \in ServerType
    BY TypeHalves
  <1>1. CASE UNCHANGED vars \/ Silent \/ Volunteer \/ Recv
    <2>1. Lesser
      BY <1>1, LesserSteps
    <2>2. /\ client'.authed => client.authed
          /\ client'.awaiting = client.awaiting /\ client'.mech = client.mech
          /\ client'.signature = client.signature
      BY <2>1, LesserClient
    <2>3. \A e \in Arriving' : e \in Arriving \/ e.name \in {"ask", "presence", "end", "stream error", "stream"}
      BY <2>1, OtherElements DEF Lesser
    <2>4. \A e \in Arriving' : Founded(e)'
      BY <2>1, <2>2, <2>3 DEF Lesser, Acceptance, Founded
    <2> QED
      BY <2>1, <2>2, <2>4 DEF Lesser, history, Acceptance, Accepted, SessionNeedsAcceptance
  <1>2. CASE Answer
    <2> DEFINE stanza == Head(toServer)
    <2>1. /\ stanza \in Stanza /\ stanza \in Elements(toServer)
          /\ Elements(toServer') \subseteq Elements(toServer)
          /\ client' = client /\ sessions' = sessions
      BY <1>2, AnswerArrives DEF history
    <2>2. CASE Arriving' = Arriving /\ server' = server
      BY <2>1, <2>2 DEF Acceptance, Accepted, SessionNeedsAcceptance, Founded
    <2>3. ASSUME NEW e \in Element, Apt(stanza, e, server'),
                 Arriving' \subseteq Arriving \cup {Says("stream"), e}
          PROVE  Acceptance'
      <3>1. Grown(server') /\ Turn(stanza)
        BY <2>3 DEF Apt
      <3>2. Accepted => Accepted'
        BY <1>0, <2>1, <3>1 DEF Grown, Accepted, ServerType
      <3>3. stanza.name \in {"auth", "response"} => stanza.mech = client.mech /\ stanza.mech # "none"
        BY <2>1 DEF Acceptance, Stanza, Login
      <3>4. Founded(e)'
        BY <2>1, <2>3, <3>3 DEF Apt, Founded
      <3>5. \A m \in Arriving : ~Turn(m)
        BY <1>2, <3>1, AnswerAlone
      <3>6. ASSUME NEW d \in Arriving'
            PROVE  Founded(d)'
        <4>1. CASE d \in Arriving
          BY <3>5, <4>1 DEF Turn, Founded
        <4>2. CASE d = Says("stream")
          BY <4>2 DEF Says, Founded
        <4>3. CASE d = e
          BY <3>4, <4>3
        <4> QED
          BY <2>3, <4>1, <4>2, <4>3
      <3> QED
        BY <2>1, <3>2, <3>6 DEF Acceptance, Accepted, SessionNeedsAcceptance
    <2> QED
      BY <1>2, <2>2, <2>3, AnswerArrives
  <1>3. CASE Authentication
    <2>1. /\ Arriving' = {} /\ ~client'.authed /\ client'.awaiting = {} /\ sessions' = 0
      BY <1>3, Connects, EmptyTurn DEF Arriving, NoClient
    <2>2. \A s \in Elements(toServer') : s.name = "header"
      <3>1. toServer' = <<>> \/ toServer' = <<Says("header")>>
        BY <1>3, Connects
      <3> QED
        BY <3>1, EmptyTurn, FirstStanza
    <2> QED
      BY <2>1, <2>2 DEF Acceptance, Accepted, SessionNeedsAcceptance
  <1>4. CASE OnElement
    <2> DEFINE e == Head(elements)
    <2>0. Effect
      BY <1>4, NextEffect
    <2>1. PICK c \in ClientType, stanzas \in SUBSET Stanza :
             Became(c) /\ Said(stanzas) /\ Permitted(c, stanzas) /\ Ends(c, stanzas)
      BY <2>0 DEF Effect
    <2>2. /\ e \in Arriving /\ Arriving' \subseteq Arriving
          /\ Turn(e) => (\A m \in Arriving' : ~Turn(m)) /\ (\A m \in Elements(toServer) : ~Turn(m))
      BY <2>0, EffectAlone
    <2>3. server' = server
      BY <2>0, Handles
    <2>4. c.authed => Accepted
      <3>1. CASE client.authed
        BY <3>1 DEF Acceptance
      <3>2. CASE e.name = "success" /\ (client.mech = "scram" => e.signature = client.signature)
        <4>1. /\ server.authed # "no"
              /\ e.signature = "secret" => server.authed = "yes"
              /\ server.authed = "forged" => client.mech = "scram"
          BY <2>2, <3>2 DEF Acceptance, Founded
        <4>2. e.signature \in Signature
          BY <1>4, <2>0, <3>2, HeadElement DEF Effect, Takes
        <4> QED
          BY <1>0, <3>2, <4>1, <4>2 DEF Accepted, Signature, ClientType, ServerType
      <3>3. CASE e.name = "result" /\ e.to = "credentials"
        BY <2>2, <3>3 DEF Acceptance, Founded, Accepted
      <3> QED
        BY <2>1, <3>1, <3>2, <3>3 DEF Permitted
    <2>5. client.awaiting \cap Late # {} => Accepted
      BY DEF Acceptance, Late
    <2>6. client'.signature = client.signature \/ ~Accepted
      <3>1. e.name = "challenge" => ~Accepted
        BY <2>2 DEF Acceptance, Founded, Accepted
      <3> QED
        BY <2>1, <3>1 DEF Became, Permitted
    <2>7. Accepted => Accepted'
      BY <2>3, <2>6 DEF Accepted
    <2>8. client'.authed => Accepted
      BY <2>1, <2>4 DEF Became
    <2>9. client'.awaiting \cap Late # {} => Accepted
      BY <2>1, <2>4, <2>5 DEF Became, Permitted
    <2>10. sessions' > 0 => Accepted
      <3>1. sessions' # sessions => client.awaiting \cap Late # {} \/ c.authed
        BY <2>1 DEF Ends
      <3> QED
        BY <2>4, <2>5, <3>1 DEF Acceptance, SessionNeedsAcceptance, Accepted
    <2>11. client'.mech = client.mech \/ Turn(e)
      BY <2>1 DEF Became, Permitted, Turn
    <2>12. \A d \in Arriving' : Founded(d)'
      <3>1. CASE client'.mech = client.mech
        BY <2>2, <2>3, <3>1 DEF Acceptance, Founded
      <3>2. CASE Turn(e)
        BY <2>2, <3>2 DEF Turn, Founded
      <3> QED
        BY <2>11, <3>1, <3>2
    <2>13. \A s \in Elements(toServer') : s.name \in {"auth", "response"} => s.mech = client'.mech
      <3>1. \A s \in Elements(toServer) : s.name \in {"auth", "response"} => s.mech = client'.mech
        <4>1. CASE client'.mech = client.mech
          BY <4>1 DEF Acceptance
        <4>2. CASE Turn(e)
          BY <2>2, <4>2 DEF Turn
        <4> QED
          BY <2>11, <4>1, <4>2
      <3>2. Elements(toServer') = Elements(toServer)
            \/ \E stanza \in stanzas : Elements(toServer') = Elements(toServer) \cup {stanza}
        <4>1. toServer \in Seq(Stanza)
          BY DEF TypeOK
        <4>2. \A stanza \in Stanza :
                 Elements(Append(toServer, stanza)) = Elements(toServer) \cup {stanza}
          BY <4>1, AppendTurn
        <4>3. toServer' = toServer \/ \E stanza \in stanzas : toServer' = Append(toServer, stanza)
          BY <2>1, Zenon DEF Said
        <4> QED
          BY <4>2, <4>3
      <3>3. \A s \in stanzas : s.name \in {"auth", "response"} => s.mech = client'.mech
        BY <2>1 DEF Permitted, Became
      <3> QED
        BY <3>1, <3>2, <3>3
    <2> QED
      BY <2>7, <2>8, <2>9, <2>10, <2>12, <2>13 DEF Acceptance, Accepted, SessionNeedsAcceptance, Late
  <1> QED
    BY <1>1, <1>2, <1>3, <1>4, StepKinds

\* Every step keeps the secrecy.
LEMMA NextSecrecy ==
    ASSUME TypeOK, Attached, Turns, Acceptance, Secrecy, [Next]_vars
    PROVE  Secrecy'
  <1> DEFINE Owes == "starttls" \in server.offered /\ client.connected /\ ~client.encrypted
  <1>1. CASE UNCHANGED vars \/ Silent \/ Volunteer \/ Recv
    <2>1. Lesser
      BY <1>1, LesserSteps
    <2>2. client'.connected => client.connected /\ client'.encrypted = client.encrypted
      BY <2>1, LesserClient
    <2>3. \A e \in Arriving' :
             e \in Arriving \/ (e.name \in {"ask", "presence", "end", "stream error", "stream"} /\ ~Turn(e))
      BY <2>1, OtherElements DEF Lesser
    <2>4. Owes' => Owes
      BY <2>1, <2>2 DEF Lesser
    <2>5. Owes' => \A m \in Arriving' \cup Elements(toServer)' : Turn(m) => TlsFirst(m)
      BY <2>1, <2>3, <2>4 DEF Lesser, Secrecy
    <2>6. \A e \in Arriving' : e.name = "tls done" => server'.encrypted
      BY <2>1, <2>3 DEF Lesser, Secrecy
    <2>7. \A s \in Elements(toServer)' :
             s.name = "header" =>
                server'.encrypted \/ server'.authed # "no" \/ (~exposed' /\ "starttls" \notin server'.offered)
      BY <2>1 DEF Lesser, history, Secrecy
    <2>8. NoSecretInClear'
      BY <2>1 DEF Lesser, history, Secrecy, NoSecretInClear
    <2> QED
      BY <2>5, <2>6, <2>7, <2>8 DEF Secrecy
  <1>2. CASE Answer
    <2> DEFINE stanza == Head(toServer)
    <2>1. /\ stanza \in Stanza /\ stanza \in Elements(toServer)
          /\ Elements(toServer') \subseteq Elements(toServer)
          /\ client' = client /\ exposed' = exposed
      BY <1>2, AnswerArrives DEF history
    <2>2. CASE Arriving' = Arriving /\ server' = server
      BY <2>1, <2>2 DEF Secrecy, NoSecretInClear
    <2>3. ASSUME NEW e \in Element, Apt(stanza, e, server'),
                 Arriving' \subseteq Arriving \cup {Says("stream"), e}
          PROVE  Secrecy'
      <3>1. Grown(server') /\ Turn(stanza)
        BY <2>3 DEF Apt
      <3>2. /\ \A m \in Arriving : ~Turn(m)
            /\ \A m \in Elements(toServer') : ~Turn(m)
        BY <1>2, <3>1, AnswerAlone
      <3>3. \A s \in Elements(toServer') : s.name # "header"
        BY <3>2 DEF Turn
      <3>4. Says("stream").name = "stream" /\ ~Turn(Says("stream"))
        BY DEF Says, Turn
      <3>5. \A d \in Arriving' : d.name = "tls done" => server'.encrypted
        BY <2>3, <3>1, <3>4 DEF Apt, Grown, Secrecy
      <3>6. ASSUME "starttls" \in server'.offered, client.connected, ~client.encrypted
            PROVE  TlsFirst(e)
        <4>1. CASE "starttls" \in server.offered
          <5>1. TlsFirst(stanza)
            BY <2>1, <3>1, <3>6, <4>1 DEF Secrecy
          <5>2. stanza.name = "starttls"
            BY <2>1, <5>1 DEF TlsFirst, Stanza
          <5> QED
            BY <2>3, <5>2 DEF Apt
        <4>2. CASE "starttls" \notin server.offered
          <5>1. e.name = "features" /\ "starttls" \in e.offers
            BY <2>3, <3>6, <4>2 DEF Apt
          <5> QED
            BY <5>1 DEF TlsFirst
        <4> QED
          BY <4>1, <4>2
      <3>7. Owes' => \A m \in Arriving' \cup Elements(toServer)' : Turn(m) => TlsFirst(m)
        BY <2>1, <2>3, <3>2, <3>4, <3>6
      <3>8. NoSecretInClear'
        <4>1. CASE server'.offered = server.offered
          BY <2>1, <4>1 DEF Secrecy, NoSecretInClear
        <4>2. CASE /\ stanza.name = "header" /\ server'.offered = server.offered \cup e.offers
                   /\ "starttls" \in e.offers => ~server.encrypted /\ server.authed = "no"
          BY <2>1, <4>2 DEF Secrecy, NoSecretInClear
        <4> QED
          BY <2>3, <4>1, <4>2 DEF Apt
      <3> QED
        BY <3>3, <3>5, <3>7, <3>8 DEF Secrecy
    <2> QED
      BY <1>2, <2>2, <2>3, AnswerArrives
  <1>3. CASE Authentication
    <2>1. /\ Arriving' = {} /\ ~exposed' /\ server'.offered = {}
      BY <1>3, Connects, EmptyTurn DEF Arriving, NoLogin
    <2> QED
      BY <2>1 DEF Secrecy, NoSecretInClear
  <1>4. CASE OnElement
    <2> DEFINE e == Head(elements)
    <2>0. Effect
      BY <1>4, NextEffect
    <2>1. PICK c \in ClientType, stanzas \in SUBSET Stanza :
             Became(c) /\ Said(stanzas) /\ Permitted(c, stanzas) /\ Ends(c, stanzas)
      BY <2>0 DEF Effect
    <2>2. /\ e \in Arriving /\ Arriving' \subseteq Arriving
          /\ Turn(e) => (\A m \in Arriving' : ~Turn(m)) /\ (\A m \in Elements(toServer) : ~Turn(m))
      BY <2>0, EffectAlone
    <2>3. server' = server
      BY <2>0, Handles
    <2>4. Elements(toServer') = Elements(toServer)
          \/ \E stanza \in stanzas : Elements(toServer') = Elements(toServer) \cup {stanza}
      <3>1. toServer \in Seq(Stanza)
        BY DEF TypeOK
      <3>2. \A stanza \in Stanza :
               Elements(Append(toServer, stanza)) = Elements(toServer) \cup {stanza}
        BY <3>1, AppendTurn
      <3>3. toServer' = toServer \/ \E stanza \in stanzas : toServer' = Append(toServer, stanza)
        BY <2>1, Zenon DEF Said
      <3> QED
        BY <3>2, <3>3
    <2>5. exposed' =>
             \/ exposed
             \/ /\ client.connected /\ ~client.encrypted
                /\ Turn(e) /\ ~TlsFirst(e)
      BY <2>1 DEF Said, Permitted
    <2>6. NoSecretInClear'
      BY <2>2, <2>3, <2>5 DEF Secrecy, NoSecretInClear
    <2>7. \A s \in Elements(toServer') :
             s.name = "header" =>
                server.encrypted \/ server.authed # "no" \/ (~exposed' /\ "starttls" \notin server.offered)
      <3>1. \A s \in Elements(toServer) : s.name = "header" => Turn(s)
        BY DEF Turn
      <3>2. \A s \in Elements(toServer) :
               s.name = "header" =>
                  server.encrypted \/ server.authed # "no" \/ (~exposed' /\ "starttls" \notin server.offered)
        BY <2>2, <2>5, <3>1 DEF Secrecy
      <3>3. \A s \in stanzas : s.name = "header" => server.encrypted \/ server.authed # "no"
        <4>1. \A s \in stanzas : s.name = "header" => e.name \in {"tls done", "success"}
          BY <2>1 DEF Permitted
        <4> QED
          BY <2>2, <4>1 DEF Secrecy, Acceptance, Founded
      <3> QED
        BY <2>4, <3>2, <3>3
    <2>8. \A d \in Arriving' : d.name = "tls done" => server.encrypted
      BY <2>2 DEF Secrecy
    <2>9. ASSUME "starttls" \in server.offered, client'.connected, ~client'.encrypted
          PROVE  \A m \in Arriving' \cup Elements(toServer') : Turn(m) => TlsFirst(m)
      <3>1. client.connected /\ ~client.encrypted /\ ~c.encrypted
        BY <2>1, <2>9 DEF Became, Permitted
      <3>2. \A m \in Arriving \cup Elements(toServer) : Turn(m) => TlsFirst(m)
        BY <2>9, <3>1 DEF Secrecy
      <3>3. \A s \in stanzas : Turn(s) => TlsFirst(s)
        BY <2>1, <2>2, <3>1, <3>2 DEF Permitted, TlsFirst
      <3> QED
        BY <2>2, <2>4, <3>2, <3>3
    <2> QED
      BY <2>3, <2>6, <2>7, <2>8, <2>9 DEF Secrecy
  <1> QED
    BY <1>1, <1>2, <1>3, <1>4, StepKinds

-----------------------------------------------------------------------------
(* The theorems.                                                           *)

\* The invariant holds before the messenger asks for anything.
LEMMA InitIInv == Init => IInv
  <1> SUFFICES ASSUME Init PROVE IInv
    OBVIOUS
  <1>1. /\ elements = <<>> /\ fromServer = <<>> /\ toServer = <<>>
        /\ client = NoClient /\ server = NoLogin /\ handle = "none"
        /\ sessions = 0 /\ ~refused /\ ~exposed
    BY DEF Init
  <1>2. Arriving = {} /\ Elements(toServer) = {}
    BY <1>1, EmptyTurn DEF Arriving
  <1>3. Attached
    BY DEF Init, Attached, NoClient
  <1>4. Turns
    <2>1. OneTurn(<<>>) /\ ~HasTurn(<<>>)
      BY EmptyTurn
    <2>2. ~(sessions > 0) /\ sessions <= 1
      BY <1>1
    <2> QED
      BY <1>1, <2>1, <2>2, Zenon DEF Turns
  <1>5. Acceptance
    BY <1>1, <1>2 DEF Acceptance, Accepted, SessionNeedsAcceptance, NoClient
  <1>6. Secrecy
    BY <1>1, <1>2 DEF Secrecy, NoSecretInClear, NoLogin
  <1> QED
    BY <1>3, <1>4, <1>5, <1>6, InitTypes DEF IInv

\* And every step keeps it.
LEMMA NextIInv ==
    ASSUME IInv, [Next]_vars
    PROVE  IInv'
  BY NextTypes, NextAttached, NextTurns, NextAcceptance, NextSecrecy DEF IInv

LEMMA ClientInvariant == Spec => []IInv
  BY InitIInv, NextIInv, PTL DEF Spec

\* The state of the client, its server and the pump keeps its type, for
\* every set of features.
THEOREM ClientTypeCorrect == Spec => []TypeOK
  BY ClientInvariant, PTL DEF IInv

\* However the server's answers are cut into pieces, no session begins on a
\* login the server has not accepted; and under SCRAM none begins with a server
\* that does not know the password, unless its last challenge had an iteration
\* count that makes for no rounds.
THEOREM AcceptanceNeeded == Spec => []SessionNeedsAcceptance
  <1>1. IInv => SessionNeedsAcceptance
    BY DEF IInv, Acceptance
  <1> QED
    BY <1>1, ClientInvariant, PTL

\* Once TLS has been offered nothing that stands for the password is sent
\* without.
THEOREM SecretKept == Spec => []NoSecretInClear
  <1>1. IInv => NoSecretInClear
    BY DEF IInv, Secrecy
  <1> QED
    BY <1>1, ClientInvariant, PTL

\* One step of the client is one of the link, or none.
LEMMA LinkStep ==
    ASSUME IInv, [Next]_vars
    PROVE  [Link!Next]_Link!vars
  <1> DEFINE link == IF ~tried \/ handle = "none" THEN "none"
                     ELSE IF "xmpp" \notin attached THEN "lost"
                     ELSE IF ~client.connected THEN "dead"
                     ELSE IF refused THEN "refused" ELSE "up"
  <1> USE DEF IInv
  <1>1. CASE UNCHANGED vars
    <2>1. link' = link /\ sessions' = sessions
      BY <1>1 DEF vars, thread, history
    <2> QED
      BY <2>1 DEF Link!vars
  <1>2. CASE Ask \/ Leave \/ CloseLine \/ ResetLine \/ Answer \/ Volunteer
    <2>1. UNCHANGED <<tried, attached, client, handle, sessions, refused>>
      BY <1>2 DEF Ask, Leave, CloseLine, ResetLine, Answer, Volunteer, Serving, thread, history
    <2>2. link' = link /\ sessions' = sessions
      BY <2>1
    <2> QED
      BY <2>2 DEF Link!vars
  <1>3. CASE Select \/ EndWalk \/ RecvReturns \/ Recv
             \/ (\E socket \in {"messenger", "xmpp"} : FailIoctl(socket))
    <2>1. UNCHANGED <<tried, attached, client, handle, sessions, refused>>
      BY <1>3 DEF Select, EndWalk, RecvReturns, Recv, FailIoctl, Env, history
    <2>2. link' = link /\ sessions' = sessions
      BY <2>1
    <2> QED
      BY <2>2 DEF Link!vars
  <1>4. CASE DropMessenger \/ ServeMessenger
    <2>1. /\ UNCHANGED <<tried, client, handle, sessions, refused>>
          /\ "xmpp" \in attached' <=> "xmpp" \in attached
      BY <1>4 DEF DropMessenger, ServeMessenger, Env, history
    <2>2. link' = link /\ sessions' = sessions
      BY <2>1
    <2> QED
      BY <2>2 DEF Link!vars
  <1>5. CASE Reuse
    <2>1. UNCHANGED <<tried, attached, client, sessions, refused>>
          /\ handle # "none" /\ handle' # "none"
      BY <1>5 DEF Reuse, Env, thread, history
    <2>2. link' = link /\ sessions' = sessions
      BY <2>1
    <2> QED
      BY <2>2 DEF Link!vars
  <1>6. CASE DropXmpp
    <2>1. /\ UNCHANGED <<tried, sessions, refused>> /\ "xmpp" \notin attached'
          /\ handle' \in {"closed", handle} /\ "xmpp" \in ready
      BY <1>6 DEF DropXmpp, Visit, Become, Env, history
    <2>2. tried
      BY <2>1 DEF Attached
    <2>3. CASE handle = "none" /\ handle' = "none"
      BY <2>1, <2>2, <2>3 DEF Link!vars
    <2>4. CASE handle # "none" /\ handle' # "none"
      <3>1. link' = "lost" /\ link \in {"up", "refused", "dead", "lost"}
        BY <2>1, <2>2, <2>4
      <3> HIDE DEF link
      <3>2. CASE link = "lost"
        BY <2>1, <3>1, <3>2 DEF Link!vars, link
      <3>3. CASE link # "lost"
        BY <2>1, <3>1, <3>3 DEF Link!Next, Link!Lose, link
      <3> QED
        BY <3>2, <3>3
    <2>5. client.connected => handle = "own"
      BY DEF Attached
    <2>6. handle = "none" => handle' = "none"
      BY <1>6, <2>5 DEF DropXmpp, Become
    <2> QED
      BY <2>1, <2>3, <2>4, <2>6
  <1>7. CASE Authentication
    <2>1. ~tried /\ tried' /\ sessions' = sessions /\ ~refused'
          /\ \/ client'.connected /\ handle' = "own" /\ "xmpp" \in attached'
             \/ handle' = handle
      BY <1>7, Connects DEF Authentication, NoClient
    <2>2. handle = "none"
      BY <2>1 DEF Attached
    <2>3. link = "none" /\ link' \in {"none", "up"}
      BY <2>1, <2>2
    <2> HIDE DEF link
    <2> QED
      BY <2>1, <2>3 DEF Link!Next, Link!Connect, Link!vars, link
  <1>8. CASE OnElement
    <2>0. Effect
      BY <1>8, NextEffect
    <2>1. PICK c \in ClientType, stanzas \in SUBSET Stanza :
             Became(c) /\ Said(stanzas) /\ Permitted(c, stanzas) /\ Ends(c, stanzas)
      BY <2>0 DEF Effect
    <2>2. /\ UNCHANGED <<tried, attached>> /\ pump = "elements" /\ elements # <<>>
          /\ client'.connected => client.connected
          /\ handle' = IF client.connected /\ ~client'.connected THEN "closed" ELSE handle
      BY <2>0, EffectAttached
    <2>3. tried /\ handle # "none" /\ "xmpp" \in attached
      BY <2>2 DEF Attached
    <2>4. handle' # "none"
      BY <2>2, <2>3
    <2>5. link = IF ~client.connected THEN "dead" ELSE IF refused THEN "refused" ELSE "up"
      BY <2>3
    <2>6. link' = IF ~client'.connected THEN "dead" ELSE IF refused' THEN "refused" ELSE "up"
      BY <2>2, <2>3, <2>4
    <2> HIDE DEF link
    <2>7. CASE UNCHANGED <<sessions, refused>>
      <3>1. link' = link \/ (link \in {"up", "refused"} /\ link' = "dead")
        BY <2>2, <2>5, <2>6, <2>7
      <3> QED
        BY <2>7, <3>1 DEF Link!Next, Link!HangUp, Link!vars, link
    <2>8. CASE Turn(Head(elements)) /\ (sessions' = sessions + 1 /\ refused' = refused)
      <3>1. ~(sessions > 0 \/ refused)
        <4>1. elements \in Seq(Element)
          BY DEF TypeOK
        <4>2. HasTurn(elements)
          BY <2>2, <2>8, <4>1, TailTurn
        <4> QED
          BY <4>2, Zenon DEF Turns
      <3>2. sessions = 0 /\ sessions' = 1
        BY <2>8, <3>1 DEF TypeOK
      <3>3. link \in {"up", "dead"} /\ link' \in {link, "dead"}
        BY <2>2, <2>5, <2>6, <2>8, <3>1
      <3> QED
        BY <3>2, <3>3 DEF Link!Next, Link!Begin, link
    <2>9. CASE Turn(Head(elements)) /\ refused' = TRUE /\ UNCHANGED <<sessions, handle, client.connected>>
      <3>1. ~(sessions > 0 \/ refused)
        <4>1. elements \in Seq(Element)
          BY DEF TypeOK
        <4>2. HasTurn(elements)
          BY <2>2, <2>9, <4>1, TailTurn
        <4> QED
          BY <4>2, Zenon DEF Turns
      <3>2. sessions = 0 /\ sessions' = sessions
        BY <2>9, <3>1 DEF TypeOK
      <3>3. \/ link = "up" /\ link' = "refused"
            \/ link' = link
        BY <2>5, <2>6, <2>9, <3>1
      <3> QED
        BY <3>2, <3>3 DEF Link!Next, Link!Refuse, Link!vars, link
    <2> QED
      BY <2>1, <2>7, <2>8, <2>9, Zenon DEF Ends
  <1> QED
    BY <1>1, <1>2, <1>3, <1>4, <1>5, <1>6, <1>7, <1>8 DEF Next, Pump

\* The client is a link: it comes up once, the session begins on it at most
\* once and never after a refusal, and what is dead or lost stays so.
THEOREM ClientIsLink == Spec => IsLink
  <1>1. Init => Link!Init
    BY DEF Init, Link!Init
  <1>2. IInv /\ [Next]_vars => [Link!Next]_Link!vars
    BY LinkStep
  <1> QED
    BY <1>1, <1>2, ClientInvariant, PTL DEF Spec, IsLink, Link!Spec

-----------------------------------------------------------------------------
(* The roster.                                                             *)

\* What is left of the login after an element, while the line holds.
StaysIn ==
    \/ client.authed => client'.authed
    \/ /\ ~client'.connected /\ fromServer' = <<>>
       /\ Turn(Head(elements)) \/ Ending(Head(elements))

\* A stanza that binds goes out on a login only.
SaysIn ==
    toServer' = toServer \/ \E s \in Stanza : toServer' = Append(toServer, s)
                                              /\ (Binding(s) => client'.authed)

Asked == sessions' # sessions => "roster" \in client.awaiting \/ (Binding(Head(elements)) /\ ~client.authed)

LEMMA SendStays ==
    ASSUME line # "reset", NEW c, NEW s \in Stanza, Send(c, s),
           client.authed => c.authed, Binding(s) => c.authed
    PROVE  StaysIn /\ SaysIn /\ client' = c
  <1>1. client' = c /\ toServer' \in {toServer, Append(toServer, s)}
    BY DEF Send, Become
  <1> QED
    BY <1>1 DEF StaysIn, SaysIn

LEMMA IqStays ==
    ASSUME line # "reset", NEW c \in ClientType, NEW context \in Context, SendIq(c, context),
           client.authed => c.authed, context \in {"bind", "session"} => c.authed
    PROVE  StaysIn /\ SaysIn
  <1> DEFINE d == [c EXCEPT !.awaiting = @ \cup {context}]
             s == [name |-> "iq", to |-> context]
  <1>1. d.authed = c.authed /\ s \in Stanza /\ (Binding(s) => context \in {"bind", "session"})
    BY DEF ClientType, Stanza, Binding
  <1>2. Send(d, s)
    BY DEF SendIq
  <1> HIDE DEF d, s
  <1> QED
    BY <1>1, <1>2, SendStays, Zenon

LEMMA KeepStays ==
    ASSUME NEW c, Keep(c), client.authed => c.authed
    PROVE  StaysIn /\ SaysIn
  BY DEF Keep, Become, StaysIn, SaysIn

LEMMA DisconnectStays ==
    ASSUME TypeOK, NEW farewell \in BOOLEAN, Disconnect(farewell),
           Turn(Head(elements)) \/ Ending(Head(elements))
    PROVE  StaysIn /\ SaysIn
  <1> DEFINE d == IF client.connected THEN HungUp(client) ELSE LoggedOut(client)
  <1>1. client \in ClientType
    BY DEF TypeOK, ClientType
  <1>2. ~d.connected
    BY <1>1 DEF ClientType, HungUp, LoggedOut
  <1>3. Become(d) /\ toServer' \in {toServer, Append(toServer, Says("close"))}
    BY DEF Disconnect
  <1> HIDE DEF d
  <1>4. client' = d /\ fromServer' = <<>>
    BY <1>2, <1>3 DEF Become
  <1>5. Says("close") \in Stanza /\ ~Binding(Says("close"))
    BY DEF Says, Stanza, Binding
  <1> QED
    BY <1>2, <1>3, <1>4, <1>5 DEF StaysIn, SaysIn

LEMMA ConnectedStays ==
    ASSUME line # "reset", NEW c \in ClientType, Connected(c), client.authed => c.authed
    PROVE  StaysIn /\ SaysIn /\ (sessions' # sessions => ~c.authed)
  <1>1. CASE c.authed
    <2>1. SendIq(c, "roster") /\ sessions' = sessions
      BY <1>1 DEF Connected, Quietly
    <2> QED
      BY <1>1, <2>1, IqStays DEF Context
  <1>2. CASE ~c.authed
    BY <1>2, KeepStays DEF Connected
  <1> QED
    BY <1>1, <1>2

\* Each element keeps the login, ends the stream or is the last of the login.
LEMMA ElementStays ==
    ASSUME TypeOK, OnElement, line # "reset", Binding(Head(elements)) => client.authed,
           OnChallenge => client.mech # "none"
    PROVE  StaysIn /\ SaysIn /\ Asked
  <1> DEFINE e == Head(elements)
  <1>1. client \in ClientType
    BY DEF TypeOK, ClientType
  <1>2. CASE OnStream \/ OnPresence
    <2>1. Keep(client) /\ sessions' = sessions
      BY <1>2 DEF OnStream, OnPresence, Quietly
    <2> QED
      BY <2>1, KeepStays DEF Asked
  <1>3. CASE OnOldStream \/ OnStreamError \/ OnEnd \/ OnTlsFailed \/ OnSaslFailure \/ OnNotAuthorized
    <2>1. /\ e.name \in {"old stream", "stream error", "end", "tls failure", "tls broken",
                         "sasl failure", "error"}
          /\ sessions' = sessions
          /\ \E farewell \in BOOLEAN : Disconnect(farewell)
      BY <1>3 DEF OnOldStream, OnStreamError, OnEnd, OnTlsFailed, OnSaslFailure, OnNotAuthorized,
                  HandleIq, Handle, Quietly
    <2>2. Turn(e) \/ Ending(e)
      BY <2>1 DEF Turn, Ending
    <2> QED
      BY <2>1, <2>2, DisconnectStays DEF Asked
  <1>4. CASE OnProceed \/ OnTlsDone \/ OnAsk
    <2>1. sessions' = sessions
      BY <1>4 DEF OnProceed, OnTlsDone, OnAsk, Quietly
    <2>2. \E c \in ClientType, s \in Stanza : Send(c, s) /\ c.authed = client.authed /\ ~Binding(s)
      <3>1. CASE OnProceed
        <4>1. Send([client EXCEPT !.encrypted = TRUE], Says("handshake"))
          BY <3>1 DEF OnProceed
        <4>2. /\ [client EXCEPT !.encrypted = TRUE] \in ClientType
              /\ [client EXCEPT !.encrypted = TRUE].authed = client.authed
              /\ Says("handshake") \in Stanza /\ ~Binding(Says("handshake"))
          BY <1>1 DEF ClientType, Says, Stanza, Binding
        <4> QED
          BY <4>1, <4>2, Zenon
      <3>2. CASE OnTlsDone
        <4>1. Send(client, Says("header")) /\ Says("header") \in Stanza /\ ~Binding(Says("header"))
          BY <3>2 DEF OnTlsDone, Says, Stanza, Binding
        <4> QED
          BY <1>1, <4>1, Zenon
      <3>3. CASE OnAsk
        <4>1. Send(client, Says("answer")) /\ Says("answer") \in Stanza /\ ~Binding(Says("answer"))
          BY <3>3 DEF OnAsk, Says, Stanza, Binding
        <4> QED
          BY <1>1, <4>1, Zenon
      <3> QED
        BY <1>4, <3>1, <3>2, <3>3
    <2> QED
      BY <2>1, <2>2, SendStays DEF Asked
  <1>13. CASE OnChallenge
    <2> DEFINE set == [client EXCEPT !.signature = IF e.kind = "proper" THEN "secret" ELSE "open"]
    <2>1. client.mech # "none" /\ sessions' = sessions
          /\ (Respond(set) \/ Respond(client) \/ Keep(client))
      BY <1>13 DEF OnChallenge, Respond, Quietly
    <2>2. set \in ClientType /\ set.authed = client.authed /\ set.mech = client.mech
      BY <1>1 DEF ClientType
    <2> HIDE DEF set
    <2>3. ASSUME NEW c \in ClientType, c.authed = client.authed, c.mech = client.mech, Respond(c)
          PROVE  StaysIn /\ SaysIn
      <3> DEFINE s == [name |-> "response", mech |-> c.mech]
      <3>1. s \in Stanza /\ ~Binding(s)
        BY <1>1, <2>1, <2>3 DEF ClientType, Stanza, Binding
      <3>2. Send(c, s)
        BY <2>3 DEF Respond
      <3> QED
        BY <2>3, <3>1, <3>2, SendStays
    <2> QED
      BY <1>1, <2>1, <2>2, <2>3, KeepStays DEF Asked
  <1>5. CASE OnFeatures
    <2> DEFINE c == [client EXCEPT !.features = StreamFeatures(e.offers)]
    <2>1. e.name = "features" /\ sessions' = sessions
      BY <1>5 DEF OnFeatures, Handle, Quietly
    <2>2. e.offers \in SUBSET Feature
      BY <1>5, <2>1, HeadElement DEF OnFeatures, Handle
    <2>3. StreamFeatures(e.offers) \in SUBSET Feature
      BY <2>2 DEF StreamFeatures, Feature, Login
    <2>4. c \in ClientType /\ c.authed = client.authed
      BY <1>1, <2>3 DEF ClientType
    <2>5. \/ Send(c, Says("starttls"))
          \/ Authenticate(c)
          \/ c.authed /\ SendIq(c, "bind")
          \/ Keep(c)
      BY <1>5 DEF OnFeatures
    <2> HIDE DEF c
    <2>6. CASE Send(c, Says("starttls"))
      <3>1. Says("starttls") \in Stanza /\ ~Binding(Says("starttls"))
        BY DEF Says, Stanza, Binding
      <3> QED
        BY <2>1, <2>4, <2>6, <3>1, SendStays DEF Asked
    <2>7. CASE Authenticate(c)
      <3> DEFINE m == IF "scram" \in c.features THEN "scram"
                      ELSE IF "digest" \in c.features THEN "digest"
                      ELSE IF "plain" \in c.features THEN "plain" ELSE "iq"
                 d == [c EXCEPT !.mech = m]
                 s == [name |-> "auth", mech |-> m]
      <3>1. Disconnect(TRUE) \/ SendIq(c, "fields") \/ Send(d, s)
        BY <2>7, Zenon DEF Authenticate
      <3>2. m \in Login
        BY DEF Login
      <3>3. d.authed = c.authed /\ s \in Stanza /\ ~Binding(s)
        <4> HIDE DEF m
        <4> QED
          BY <2>4, <3>2 DEF ClientType, Stanza, Binding
      <3> HIDE DEF d, s
      <3>4. Turn(e)
        BY <2>1 DEF Turn
      <3>5. CASE Disconnect(TRUE)
        BY <2>1, <3>4, <3>5, DisconnectStays DEF Asked
      <3>6. CASE SendIq(c, "fields")
        BY <2>1, <2>4, <3>6, IqStays DEF Asked, Context
      <3>7. CASE Send(d, s)
        BY <2>1, <2>4, <3>3, <3>7, SendStays DEF Asked
      <3> QED
        BY <3>1, <3>5, <3>6, <3>7
    <2>8. CASE c.authed /\ SendIq(c, "bind")
      BY <2>1, <2>4, <2>8, IqStays DEF Asked, Context
    <2>9. CASE Keep(c)
      BY <2>1, <2>4, <2>9, KeepStays DEF Asked
    <2> QED
      BY <2>5, <2>6, <2>7, <2>8, <2>9
  <1>6. CASE OnSuccess
    <2> DEFINE c == [client EXCEPT !.authed = TRUE]
    <2>1. e.name = "success" /\ sessions' = sessions
      BY <1>6 DEF OnSuccess, Handle, Quietly
    <2>2. Disconnect(TRUE) \/ Send(c, Says("header"))
      BY <1>6 DEF OnSuccess
    <2>3. Turn(e) /\ Says("header") \in Stanza /\ ~Binding(Says("header")) /\ c.authed
      BY <1>1, <2>1 DEF Turn, Says, Stanza, Binding, ClientType
    <2> HIDE DEF c
    <2> QED
      BY <2>1, <2>2, <2>3, DisconnectStays, SendStays DEF Asked
  <1>7. CASE OnBind
    <2> DEFINE c == [Answered("bind") EXCEPT !.bound = TRUE]
    <2>1. /\ e.name = "result" /\ e.to = "bind"
          /\ \/ SendIq(c, "session") /\ sessions' = sessions
             \/ Connected(c)
      BY <1>7 DEF OnBind, HandleIq, Handle, Quietly
    <2>2. client.authed
      BY <2>1 DEF Binding
    <2>3. c \in ClientType /\ c.authed
      BY <2>2, AnsweredClient DEF ClientType
    <2> HIDE DEF c
    <2> QED
      BY <2>1, <2>3, IqStays, ConnectedStays DEF Asked, Context
  <1>8. CASE OnSession
    <2>1. e.name = "result" /\ e.to = "session" /\ Connected(Answered("session"))
      BY <1>8 DEF OnSession, HandleIq, Handle
    <2>2. client.authed
      BY <2>1 DEF Binding
    <2>3. Answered("session") \in ClientType /\ Answered("session").authed
      BY <2>2, AnsweredClient
    <2> QED
      BY <2>1, <2>3, ConnectedStays DEF Asked
  <1>9. CASE OnRefused
    <2>1. Keep(Answered(e.to)) /\ sessions' = sessions
      BY <1>9 DEF OnRefused
    <2> QED
      BY <2>1, KeepStays, AnsweredClient DEF Asked
  <1>10. CASE OnRoster
    <2>1. Send(Answered("roster"), Says("presence")) /\ "roster" \in client.awaiting
      BY <1>10 DEF OnRoster, HandleIq
    <2>2. Says("presence") \in Stanza /\ ~Binding(Says("presence"))
      BY DEF Says, Stanza, Binding
    <2>3. Answered("roster").authed = client.authed
      BY AnsweredClient
    <2> QED
      BY <2>1, <2>2, <2>3, SendStays DEF Asked
  <1>11. CASE OnFields
    <2>1. (SendIq(Answered("fields"), "credentials") \/ Keep(Answered("fields"))) /\ sessions' = sessions
      BY <1>11 DEF OnFields, Quietly
    <2>2. Answered("fields") \in ClientType /\ Answered("fields").authed = client.authed
      BY AnsweredClient
    <2> QED
      BY <2>1, <2>2, IqStays, KeepStays DEF Asked, Context
  <1>12. CASE OnCredentials
    <2> DEFINE c == [Answered("credentials") EXCEPT !.authed = TRUE]
    <2>1. Connected(c)
      BY <1>12 DEF OnCredentials
    <2>2. c \in ClientType /\ c.authed
      BY AnsweredClient DEF ClientType
    <2> HIDE DEF c
    <2> QED
      BY <2>1, <2>2, ConnectedStays DEF Asked
  <1> QED
    BY <1>2, <1>3, <1>4, <1>5, <1>6, <1>7, <1>8, <1>9, <1>10, <1>11, <1>12, <1>13 DEF OnElement

\* The end of a stream stays its end as the stream grows.
LEMMA AppendOrdered ==
    ASSUME NEW S, NEW s \in Seq(S), NEW e \in S, Ordered(s), Ending(e)
    PROVE  Ordered(Append(s, e))
  <1> DEFINE t == Append(s, e)
             n == Len(s)
  <1>1. /\ n \in Nat /\ DOMAIN t = 1 .. n + 1 /\ DOMAIN s = 1 .. n
        /\ \A i \in 1 .. n : t[i] = s[i]
        /\ t[n + 1] = e
    BY AppendProperties, LenProperties
  <1> HIDE DEF t
  <1>2. SUFFICES ASSUME NEW i \in DOMAIN t, NEW j \in DOMAIN t, i < j, Ending(t[i])
                 PROVE  Ending(t[j])
    BY DEF Ordered, t
  <1>3. CASE j = n + 1
    BY <1>1, <1>3
  <1>4. CASE j # n + 1
    <2>1. i \in DOMAIN s /\ j \in DOMAIN s
      BY <1>1, <1>2, <1>4
    <2>2. t[i] = s[i] /\ t[j] = s[j]
      BY <1>1, <2>1
    <2> QED
      BY <1>2, <2>1, <2>2 DEF Ordered
  <1> QED
    BY <1>3, <1>4

\* After its end nothing but its end is handled.
LEMMA TailOrdered ==
    ASSUME NEW S, NEW s \in Seq(S), s # <<>>, Ordered(s)
    PROVE  /\ Ordered(Tail(s))
           /\ Ending(Head(s)) => \A e \in Elements(Tail(s)) : Ending(e)
  <1> DEFINE t == Tail(s)
             n == Len(s)
  <1>1. /\ n \in Nat \ {0} /\ Head(s) = s[1]
        /\ DOMAIN s = 1 .. n /\ DOMAIN t = 1 .. n - 1
        /\ \A i \in 1 .. n - 1 : t[i] = s[i + 1]
    OBVIOUS
  <1> HIDE DEF t, n
  <1>2. \A i \in DOMAIN t : i + 1 \in DOMAIN s /\ 1 < i + 1 /\ t[i] = s[i + 1]
    BY <1>1
  <1>3. 1 \in DOMAIN s
    BY <1>1
  <1>4. Ordered(t)
    <2>1. SUFFICES ASSUME NEW i \in DOMAIN t, NEW j \in DOMAIN t, i < j, Ending(t[i])
                   PROVE  Ending(t[j])
      BY DEF Ordered
    <2>2. i + 1 < j + 1
      BY <1>1, <2>1
    <2> QED
      BY <1>2, <2>1, <2>2 DEF Ordered
  <1>5. ASSUME Ending(Head(s)), NEW e \in Elements(t)
        PROVE  Ending(e)
    <2>1. PICK i \in DOMAIN t : e = t[i]
      BY <1>5 DEF Elements
    <2> QED
      BY <1>1, <1>2, <1>3, <1>5, <2>1 DEF Ordered
  <1> QED
    BY <1>4, <1>5 DEF t

\* Nor is it in the pieces of a recv.
LEMMA SplitOrdered ==
    ASSUME NEW S, NEW s \in Seq(S), NEW n \in 1 .. Len(s), Ordered(s)
    PROVE  LET a == SubSeq(s, 1, n)
               b == SubSeq(s, n + 1, Len(s))
           IN  /\ Ordered(a) /\ Ordered(b)
               /\ (\E e \in Elements(a) : Ending(e)) => \A e \in Elements(b) : Ending(e)
  <1> DEFINE a == SubSeq(s, 1, n)
             b == SubSeq(s, n + 1, Len(s))
             m == Len(s)
  <1>1. /\ m \in Nat /\ n \in Nat /\ n <= m
        /\ Len(a) = n /\ Len(b) = m - n
        /\ DOMAIN s = 1 .. m /\ DOMAIN a = 1 .. n /\ DOMAIN b = 1 .. m - n
        /\ \A i \in 1 .. n : a[i] = s[i]
        /\ \A i \in 1 .. m - n : b[i] = s[i + n]
    OBVIOUS
  <1> HIDE DEF a, b, m
  <1>2. \A i \in DOMAIN a : i \in DOMAIN s /\ i <= n /\ a[i] = s[i]
    BY <1>1
  <1>3. \A i \in DOMAIN b : i + n \in DOMAIN s /\ n < i + n /\ b[i] = s[i + n]
    BY <1>1
  <1>4. Ordered(a)
    BY <1>2 DEF Ordered
  <1>5. Ordered(b)
    <2>1. SUFFICES ASSUME NEW i \in DOMAIN b, NEW j \in DOMAIN b, i < j, Ending(b[i])
                   PROVE  Ending(b[j])
      BY DEF Ordered
    <2>2. i + n < j + n
      BY <1>1, <2>1
    <2> QED
      BY <1>3, <2>1, <2>2 DEF Ordered
  <1>6. ASSUME NEW d \in Elements(a), Ending(d), NEW e \in Elements(b)
        PROVE  Ending(e)
    <2>1. PICK i \in DOMAIN a, j \in DOMAIN b : d = a[i] /\ e = b[j]
      BY <1>6 DEF Elements
    <2>2. i < j + n
      BY <1>1, <1>2, <1>3, <2>1
    <2> QED
      BY <1>2, <1>3, <1>6, <2>1, <2>2 DEF Ordered
  <1> QED
    BY <1>4, <1>5, <1>6 DEF a, b

\* No end, no order to keep.
LEMMA EndlessOrdered ==
    ASSUME NEW s, \A e \in Elements(s) : ~Ending(e)
    PROVE  Ordered(s)
  BY DEF Elements, Ordered

\* A binding message has a turn, the end of a stream has none.
LEMMA Bindings == \A m : Binding(m) => Turn(m) /\ ~Ending(m)
  BY DEF Binding, Turn, Ending

RosterInv == LastWords /\ StaysLoggedIn

LEMMA InitRoster == Init => RosterInv
  <1> SUFFICES ASSUME Init PROVE RosterInv
    OBVIOUS
  <1>1. elements = <<>> /\ fromServer = <<>> /\ toServer = <<>>
    BY DEF Init
  <1>2. Elements(elements) = {} /\ Elements(fromServer) = {} /\ Elements(toServer) = {}
    BY <1>1, EmptyTurn
  <1>3. Ordered(elements) /\ Ordered(fromServer)
    BY <1>2, EndlessOrdered
  <1> QED
    BY <1>2, <1>3 DEF RosterInv, LastWords, StaysLoggedIn, Arriving

\* A client that has hung up is not connected.
LEMMA HungUpClient ==
    ASSUME TypeOK
    PROVE  ~HungUp(client).connected
  BY DEF TypeOK, HungUp, LoggedOut

\* What keeps still keeps both, since the pump forgets a client only when
\* it has nothing of it left to handle.
LEMMA StillRoster ==
    ASSUME TypeOK, Attached, RosterInv, UNCHANGED vars \/ Silent
    PROVE  RosterInv'
  <1>1. Still
    BY SilentStill
  <1>2. /\ elements' = elements /\ server' = server
        /\ fromServer' = fromServer \/ fromServer' = <<>>
        /\ toServer' = toServer \/ toServer' = <<>>
    BY <1>1 DEF Still
  <1>3. Elements(<<>>) = {} /\ Ordered(<<>>)
    BY EmptyTurn, EndlessOrdered
  <1>4. /\ Elements(fromServer') \subseteq Elements(fromServer)
        /\ Elements(toServer') \subseteq Elements(toServer)
        /\ Arriving' \subseteq Arriving
    BY <1>2, <1>3 DEF Arriving
  <1>5. LastWords'
    BY <1>2, <1>3, <1>4 DEF LastWords, RosterInv
  <1>6. StaysLoggedIn'
    <2>1. CASE DropXmpp
      <3>1. elements = <<>> /\ elements' = elements
        BY <2>1 DEF DropXmpp, Visit, Attached
      <3>2. ~client'.connected /\ fromServer' = <<>>
        BY <2>1, HungUpClient DEF DropXmpp, Become
      <3> QED
        BY <1>3, <3>1, <3>2 DEF StaysLoggedIn, Arriving
    <2>2. CASE ResetLine
      BY <2>2 DEF ResetLine, StaysLoggedIn
    <2>3. CASE ~DropXmpp /\ ~ResetLine
      <3>1. client' = client /\ (line' # "reset" => line # "reset")
        BY <2>3 DEF Silent, vars, thread, network, Env, Ask, Leave, CloseLine, Reuse, Select,
                    FailIoctl, DropMessenger, ServeMessenger, RecvReturns, EndWalk
      <3> QED
        BY <1>4, <3>1 DEF StaysLoggedIn, RosterInv
    <2> QED
      BY <2>1, <2>2, <2>3
  <1> QED
    BY <1>5, <1>6 DEF RosterInv

\* A server that has said its last words says nothing, so there is no end
\* before what it says.
LEMMA AnswerRoster ==
    ASSUME TypeOK, RosterInv, Answer
    PROVE  RosterInv'
  <1>1. /\ client.connected /\ ~server.ended /\ UNCHANGED <<client, elements, line>>
    BY DEF Answer, Serving
  <1>2. /\ Head(toServer) \in Elements(toServer)
        /\ Elements(toServer') \subseteq Elements(toServer)
        /\ \/ Arriving' = Arriving /\ server' = server
           \/ \E e \in Element : /\ Apt(Head(toServer), e, server')
                                 /\ Arriving' \subseteq Arriving \cup {Says("stream"), e}
    BY AnswerArrives
  <1>3. ~Ending(Says("stream")) /\ ~Binding(Says("stream"))
    BY DEF Says, Ending, Binding
  <1>4. \A e \in Arriving' : ~Ending(e)
    <2>1. \A e \in Arriving : ~Ending(e)
      BY <1>1 DEF RosterInv, LastWords
    <2> QED
      BY <1>2, <1>3, <2>1 DEF Apt
  <1>5. LastWords'
    <2>1. /\ \A e \in Elements(elements') : ~Ending(e)
          /\ \A e \in Elements(fromServer') : ~Ending(e)
      BY <1>4 DEF Arriving
    <2>2. Ordered(elements') /\ Ordered(fromServer')
      BY <2>1, EndlessOrdered
    <2> QED
      BY <1>4, <2>1, <2>2 DEF LastWords
  <1>6. StaysLoggedIn'
    <2>1. SUFFICES ASSUME line # "reset", ~client.authed
                   PROVE  /\ \A e \in Arriving' : ~Binding(e)
                          /\ \A s \in Elements(toServer') : ~Binding(s)
      BY <1>1 DEF StaysLoggedIn
    <2>2. /\ \A e \in Arriving : ~Binding(e)
          /\ \A s \in Elements(toServer) : ~Binding(s)
      BY <1>1, <2>1 DEF RosterInv, StaysLoggedIn
    <2> QED
      BY <1>2, <1>3, <2>2 DEF Apt
  <1> QED
    BY <1>5, <1>6 DEF RosterInv

LEMMA VolunteerRoster ==
    ASSUME TypeOK, RosterInv, Volunteer
    PROVE  RosterInv'
  <1>1. /\ ~server.ended /\ UNCHANGED <<client, elements, line, toServer>>
    BY DEF Volunteer, Serving
  <1>2. /\ Elements(fromServer') \subseteq Elements(fromServer) \cup Unasked
    BY Volunteers
  <1>3. /\ \A e \in Elements(elements) : ~Ending(e)
        /\ \A e \in Elements(fromServer) : ~Ending(e)
    BY <1>1 DEF RosterInv, LastWords, Arriving
  <1>4. StaysLoggedIn'
    <2>1. \A e \in Unasked : ~Binding(e)
      BY Bindings, OtherElements
    <2>2. Arriving' \subseteq Arriving \cup Unasked
      BY <1>1, <1>2 DEF Arriving
    <2> QED
      BY <1>1, <2>1, <2>2 DEF RosterInv, StaysLoggedIn
  <1>5. Ordered(elements') /\ \A e \in Elements(elements') : ~Ending(e)
    BY <1>1, <1>3, EndlessOrdered
  <1>6. Ordered(fromServer') /\ (\A e \in Elements(fromServer') : ~Ending(e) \/ server'.ended)
    <2>1. fromServer \in Seq(Element) /\ server \in ServerType
      BY DEF TypeOK, ServerType
    <2>2. CASE \E name \in {"ask", "presence"} : fromServer' = Append(fromServer, Says(name))
      <3>1. PICK name \in {"ask", "presence"} : fromServer' = Append(fromServer, Says(name))
        BY <2>2
      <3>2. Says(name) \in Element /\ ~Ending(Says(name))
        BY DEF Says, Element, Ending
      <3>3. Elements(fromServer') = Elements(fromServer) \cup {Says(name)}
        BY <2>1, <3>1, <3>2, AppendTurn
      <3>4. \A e \in Elements(fromServer') : ~Ending(e)
        BY <1>3, <3>2, <3>3
      <3> QED
        BY <3>4, EndlessOrdered
    <2>3. CASE /\ \E says \in {<<Says("end")>>, <<Says("stream error"), Says("end")>>} :
                     fromServer' = fromServer \o says
               /\ server' = [server EXCEPT !.unasked = @ + 1, !.ended = TRUE]
      <3> DEFINE d == Says("stream error")
                 e == Says("end")
      <3>1. server'.ended
        BY <2>1, <2>3 DEF ServerType
      <3>2. d \in Element /\ e \in Element /\ Ending(d) /\ Ending(e)
        BY DEF Says, Element, Ending
      <3>3. fromServer \o <<e>> = Append(fromServer, e)
        BY <2>1
      <3>4. fromServer' = Append(fromServer, e) \/ fromServer' = fromServer \o <<d, e>>
        BY <2>3, <3>3
      <3> HIDE DEF d, e
      <3>5. fromServer \o <<d, e>> = Append(Append(fromServer, d), e)
        BY <2>1, <3>2, AppendBoth
      <3>6. Ordered(fromServer)
        BY DEF RosterInv, LastWords
      <3>7. \A x \in Element : Append(fromServer, x) \in Seq(Element)
        BY <2>1, AppendTurn
      <3>8. Ordered(Append(fromServer, e)) /\ Ordered(Append(fromServer, d))
        BY <2>1, <3>2, <3>6, AppendOrdered
      <3>9. Ordered(Append(Append(fromServer, d), e))
        <4> DEFINE s == Append(fromServer, d)
        <4>1. s \in Seq(Element) /\ Ordered(s)
          BY <3>2, <3>7, <3>8
        <4> HIDE DEF s
        <4>2. Ordered(Append(s, e))
          BY <3>2, <4>1, AppendOrdered
        <4> QED
          BY <4>2 DEF s
      <3> QED
        BY <3>1, <3>4, <3>5, <3>8, <3>9
    <2> QED
      BY <2>2, <2>3 DEF Volunteer
  <1>7. LastWords'
    BY <1>5, <1>6 DEF LastWords, Arriving
  <1> QED
    BY <1>4, <1>7 DEF RosterInv

LEMMA ConnectRoster ==
    ASSUME TypeOK, Attached, RosterInv, Authentication
    PROVE  RosterInv'
  <1>1. elements' = <<>> /\ fromServer' = <<>>
        /\ toServer = <<>> /\ toServer' \in {<<>>, <<Says("header")>>}
    BY Connects
  <1>2. Elements(<<>>) = {} /\ Ordered(<<>>)
    BY EmptyTurn, EndlessOrdered
  <1>3. Elements(<<Says("header")>>) = {Says("header")} /\ ~Binding(Says("header"))
    BY FirstStanza DEF Binding
  <1>4. Arriving' = {} /\ \A s \in Elements(toServer') : ~Binding(s)
    BY <1>1, <1>2, <1>3 DEF Arriving
  <1> QED
    BY <1>1, <1>2, <1>4 DEF RosterInv, LastWords, StaysLoggedIn

LEMMA RecvRoster ==
    ASSUME TypeOK, RosterInv, Recv
    PROVE  RosterInv'
  <1>1. PICK n \in 1 .. Len(fromServer) :
          /\ elements' = SubSeq(fromServer, 1, n)
          /\ fromServer' = SubSeq(fromServer, n + 1, Len(fromServer))
    BY DEF Recv
  <1>2. fromServer \in Seq(Element) /\ Ordered(fromServer)
    BY DEF TypeOK, RosterInv, LastWords
  <1>3. /\ Ordered(elements') /\ Ordered(fromServer')
        /\ (\E e \in Elements(elements') : Ending(e)) => \A e \in Elements(fromServer') : Ending(e)
    BY <1>1, <1>2, SplitOrdered, Zenon
  <1>4. /\ Arriving' \subseteq Arriving
        /\ UNCHANGED <<client, toServer, server>>
    BY Reads DEF Arriving
  <1>5. line' = line
    BY DEF Recv, Env
  <1>6. LastWords'
    BY <1>3, <1>4 DEF RosterInv, LastWords
  <1>7. StaysLoggedIn'
    BY <1>4, <1>5 DEF RosterInv, StaysLoggedIn
  <1> QED
    BY <1>6, <1>7 DEF RosterInv

\* A client is logged in when it handles what binds it, while the line holds.
LEMMA HeadStays ==
    ASSUME TypeOK, Turns, Acceptance, RosterInv, OnElement, line # "reset"
    PROVE  StaysIn /\ SaysIn /\ Asked /\ (Binding(Head(elements)) => client.authed)
  <1>1. Effect
    BY NextEffect
  <1>2. Head(elements) \in Arriving
    BY <1>1, EffectAlone
  <1>3. Binding(Head(elements)) => client.authed
    BY <1>2 DEF RosterInv, StaysLoggedIn
  <1>4. OnChallenge => client.mech # "none"
    BY <1>2 DEF OnChallenge, Handle, Acceptance, Founded
  <1> QED
    BY <1>3, <1>4, ElementStays

LEMMA ElementRoster ==
    ASSUME TypeOK, Turns, Acceptance, RosterInv, OnElement
    PROVE  RosterInv'
  <1>1. Effect
    BY NextEffect
  <1>2. /\ elements # <<>> /\ elements' = Tail(elements) /\ server' = server
        /\ fromServer' \in {fromServer, <<>>}
    BY <1>1, Handles
  <1>3. elements \in Seq(Element) /\ toServer \in Seq(Stanza)
    BY DEF TypeOK
  <1>4. /\ Ordered(elements')
        /\ Ending(Head(elements)) => \A e \in Elements(elements') : Ending(e)
    BY <1>2, <1>3, TailOrdered DEF RosterInv, LastWords
  <1>5. /\ Arriving' \subseteq Arriving
        /\ Turn(Head(elements)) => \A m \in Arriving' : ~Turn(m)
    BY <1>1, EffectAlone
  <1>6. Elements(elements') \subseteq Elements(elements)
    BY <1>2, <1>3, TailTurn
  <1>7. Elements(<<>>) = {} /\ Ordered(<<>>)
    BY EmptyTurn, EndlessOrdered
  <1>8. LastWords'
    BY <1>2, <1>4, <1>5, <1>6, <1>7 DEF RosterInv, LastWords
  <1>9. line' = line /\ (client'.connected => client.connected)
    <2>1. PICK c \in ClientType, stanzas \in SUBSET Stanza : Became(c) /\ Permitted(c, stanzas)
      BY <1>1, Zenon DEF Effect
    <2>2. client'.connected => c.connected
      BY <2>1 DEF Became
    <2>3. c.connected = client.connected
      BY <2>1 DEF Permitted
    <2> QED
      BY <1>1, <2>2, <2>3 DEF Effect, Takes
  <1>10. StaysLoggedIn'
    <2>1. SUFFICES ASSUME line # "reset", ~client'.authed
                   PROVE  /\ \A e \in Arriving' : ~Binding(e)
                          /\ client'.connected => \A s \in Elements(toServer') : ~Binding(s)
      BY <1>9 DEF StaysLoggedIn
    <2>2. StaysIn /\ SaysIn
      BY <2>1, HeadStays
    <2>3. CASE client.authed
      <3>1. /\ ~client'.connected /\ fromServer' = <<>>
            /\ Turn(Head(elements)) \/ Ending(Head(elements))
        BY <2>1, <2>2, <2>3 DEF StaysIn
      <3>2. CASE Turn(Head(elements))
        BY <1>5, <3>1, <3>2, Bindings
      <3>3. CASE Ending(Head(elements))
        <4>1. \A e \in Elements(elements') : ~Binding(e)
          BY <1>4, <3>3, Bindings
        <4> QED
          BY <1>7, <3>1, <4>1 DEF Arriving
      <3> QED
        BY <3>1, <3>2, <3>3
    <2>4. CASE ~client.authed
      <3>1. /\ \A e \in Arriving : ~Binding(e)
            /\ client.connected => \A s \in Elements(toServer) : ~Binding(s)
        BY <2>1, <2>4 DEF RosterInv, StaysLoggedIn
      <3>2. \A s \in Elements(toServer') : s \in Elements(toServer) \/ ~Binding(s)
        <4>1. CASE toServer' = toServer
          BY <4>1
        <4>2. ASSUME NEW s \in Stanza, toServer' = Append(toServer, s), ~Binding(s)
              PROVE  \A r \in Elements(toServer') : r \in Elements(toServer) \/ ~Binding(r)
          <5>1. Elements(toServer') = Elements(toServer) \cup {s}
            BY <1>3, <4>2, AppendTurn
          <5> QED
            BY <4>2, <5>1
        <4> QED
          BY <2>1, <2>2, <4>1, <4>2 DEF SaysIn
      <3> QED
        BY <1>5, <1>9, <3>1, <3>2
    <2> QED
      BY <2>3, <2>4
  <1> QED
    BY <1>8, <1>10 DEF RosterInv

\* No server gets a client to begin a session without having asked for the
\* roster, in whatever order it ends streams and answers, unless the line
\* breaks and takes the login with it.
THEOREM RosterIsAsked == Spec => SessionHasAskedForRoster
  <1>1. IInv /\ RosterInv /\ [Next]_vars => RosterInv'
    BY StepKinds, StillRoster, AnswerRoster, VolunteerRoster, ConnectRoster, RecvRoster, ElementRoster
       DEF IInv
  <1>2. IInv /\ RosterInv /\ [Next]_vars
           => [sessions' # sessions /\ "roster" \notin client.awaiting => line = "reset"]_vars
    <2>1. SUFFICES ASSUME IInv, RosterInv, [Next]_vars, sessions' # sessions,
                          "roster" \notin client.awaiting
                   PROVE  line = "reset"
      OBVIOUS
    <2>2. OnElement
      <3>1. UNCHANGED vars \/ Silent => sessions' = sessions
        BY SilentStill DEF Still, history
      <3>2. Answer \/ Volunteer => sessions' = sessions
        BY DEF Answer, Volunteer, Serving, history
      <3>3. Authentication \/ Recv => sessions' = sessions
        BY DEF Authentication, Recv, Env, history
      <3> QED
        BY <2>1, <3>1, <3>2, <3>3, StepKinds
    <2> QED
      BY <2>1, <2>2, HeadStays DEF Asked, IInv
  <1> QED
    BY <1>1, <1>2, InitRoster, ClientInvariant, PTL DEF Spec, SessionHasAskedForRoster
=============================================================================
