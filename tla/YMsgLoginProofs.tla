--------------------------- MODULE YMsgLoginProofs ---------------------------
(***************************************************************************)
(* The login, for every set of ids, versions and session ids: what an      *)
(* informed messenger asks is served, a connection has one session, whose  *)
(* packets carry its id, and an orderly messenger gets the one it asked    *)
(* for.                                                                    *)
(*                                                                         *)
(* The invariant has a part for each of these.  What the arguments share   *)
(* is that a handler runs to its end before the next packet is dispatched, *)
(* so whoever has read the profile finds the map in place.                 *)
(***************************************************************************)
EXTENDS YMsgLogin, SequenceTheorems, TLAPS

-----------------------------------------------------------------------------
(* The inductive invariant.                                                *)

Elements(s) == {s[i] : i \in DOMAIN s}

Unread(type) == \E p \in Elements(downstream) : p.type = type
\* What the messenger knows of, it has read or can read.
Known(type) == type \in heard \/ Unread(type)
Waiting(service) == \E r \in Elements(upstream) : r.service = service

\* The profile of the session is on its way or there already.
Introduced == map = "session" \/ running \in {"SendStatus", "SendPing", "SetDispatchMap"}

\* A messenger that has its profile cannot find the login's map in place.
Informed ==
    /\ "ClientProfile" \in heard \/ Unread("ClientProfile") => Introduced
    /\ \A r \in Elements(upstream) :
          r.service = "SessionRequest" /\ r.informed => "ClientProfile" \in heard
    /\ InformedRequestsAreServed

\* A session begins once, and its map follows before the next packet is
\* dispatched.
Single ==
    /\ map = "session" => session.begun /\ running = "idle"
    /\ running # "idle" => session.begun
    /\ session.begun => map = "session" \/ running # "idle"
    /\ session.begun => \A i \in DOMAIN xmpp : xmpp[i].state # "connecting"
    /\ BackEnd = "mock" => xmpp = <<>>

\* Packets of the session are sent between the drawing of its id and its end.
Stamped ==
    /\ map = "session" \/ running \notin {"idle", "SetSessionId"} => sessionId # Leftover
    /\ \A p \in Elements(downstream) :
          p.type \in SessionPacketType =>
              Introduced /\ p.sessionId = sessionId /\ p.version = version

\* An orderly messenger authenticates once.
Once ==
    /\ Len(xmpp) <= 1
    /\ \A i, j \in DOMAIN upstream :
          upstream[i].service = "Authentication" /\ upstream[j].service = "Authentication" => i = j
    /\ Waiting("Authentication") => ~session.begun /\ xmpp = <<>>
    /\ Len(asked) < 3 => ~session.begun /\ xmpp = <<>> /\ ~Waiting("Authentication")

\* The three packets of an orderly messenger's handshake, and what each of
\* them leaves behind once it has been answered.
Handshake ==
    /\ Len(asked) >= 1 => asked[1].service = "ProtocolSync"
    /\ Len(asked) >= 2 => asked[2].service = "ChallengeRequest" /\ "ProtocolAck" \in heard
    /\ Len(asked) >= 3 =>
          /\ asked[3].service = "Authentication" /\ asked[3].clientId = asked[2].clientId
          /\ "ChallengeResponse" \in heard
    /\ \A r \in Elements(upstream) :
          /\ r.service = "ProtocolSync" => Len(asked) >= 1 /\ r = asked[1]
          /\ r.service = "ChallengeRequest" => Len(asked) >= 2 /\ r = asked[2]
          /\ r.service = "Authentication" => Len(asked) >= 3 /\ r = asked[3]

Kept ==
    /\ Known("ProtocolAck") =>
          Len(asked) >= 1 /\ version = asked[1].version
    /\ Known("ChallengeResponse") =>
          Len(asked) >= 2 /\ clientId = asked[2].clientId
    /\ xmpp # <<>> \/ session.begun =>
          Len(asked) >= 3 /\ (availability = "Offline" <=> asked[3].invisible)
    /\ \A i \in DOMAIN xmpp : xmpp[i].clientId = asked[2].clientId
    /\ session.begun =>
          /\ session.clientId = asked[2].clientId
          /\ session.availability = "Offline" <=> asked[3].invisible
          /\ BackEnd = "gloox" => xmpp # <<>>

IInv ==
    /\ TypeOK
    /\ Informed
    /\ OneLogin => Single /\ Stamped
    /\ Orderly => Once /\ Handshake /\ Kept

-----------------------------------------------------------------------------
(* Queues.                                                                 *)

\* What is in a queue after one more has been sent.
LEMMA ElementsAppend ==
    ASSUME NEW S, NEW s \in Seq(S), NEW e \in S
    PROVE  /\ Append(s, e) \in Seq(S)
           /\ Elements(Append(s, e)) = Elements(s) \cup {e}
  <1>1. /\ Append(s, e) \in Seq(S)
        /\ Len(Append(s, e)) = Len(s) + 1 /\ Len(s) \in Nat
        /\ \A i \in 1 .. Len(s) : Append(s, e)[i] = s[i]
        /\ Append(s, e)[Len(s) + 1] = e
    BY AppendProperties, LenProperties
  <1>2. DOMAIN Append(s, e) = 1 .. Len(s) + 1 /\ DOMAIN s = 1 .. Len(s)
    BY <1>1
  <1>3. 1 .. Len(s) + 1 = (1 .. Len(s)) \cup {Len(s) + 1}
    BY <1>1
  <1> QED
    BY <1>1, <1>2, <1>3 DEF Elements

\* What is in a queue after the first has been taken.
LEMMA ElementsTail ==
    ASSUME NEW S, NEW s \in Seq(S), s # <<>>
    PROVE  /\ Tail(s) \in Seq(S)
           /\ Head(s) \in S /\ Head(s) \in Elements(s)
           /\ Elements(Tail(s)) \subseteq Elements(s)
           /\ Len(s) \in Nat /\ Len(Tail(s)) = Len(s) - 1 /\ Head(s) = s[1]
           /\ \A i \in 1 .. Len(Tail(s)) : Tail(s)[i] = s[i + 1]
  <1>1. /\ Tail(s) \in Seq(S) /\ Head(s) \in S /\ Head(s) = s[1]
        /\ Len(s) \in Nat \ {0} /\ Len(Tail(s)) = Len(s) - 1
        /\ \A i \in 1 .. Len(s) - 1 : Tail(s)[i] = s[i + 1]
    OBVIOUS
  <1>2. DOMAIN s = 1 .. Len(s) /\ DOMAIN Tail(s) = 1 .. Len(s) - 1
    BY <1>1
  <1>3. \A i \in 1 .. Len(s) - 1 : i + 1 \in 1 .. Len(s)
    BY <1>1
  <1>4. 1 \in 1 .. Len(s)
    BY <1>1
  <1> QED
    BY <1>1, <1>2, <1>3, <1>4 DEF Elements

-----------------------------------------------------------------------------
(* Types.                                                                  *)

\* A packet that Reply stamps is a packet, and the only one that is new.
LEMMA Replied ==
    ASSUME TypeOK, NEW type \in {"ProtocolAck", "ChallengeResponse"} \cup SessionPacketType,
           Reply(type), version' \in Versions \cup {Leftover},
           sessionId' \in SessionIds \cup {Leftover}
    PROVE  /\ downstream' \in Seq(Packet)
           /\ Elements(downstream')
                = Elements(downstream)
                    \cup {[type |-> type, version |-> version', sessionId |-> sessionId']}
  <1> DEFINE p == [type |-> type, version |-> version', sessionId |-> sessionId']
  <1>1. p \in Packet
    BY DEF Packet
  <1>2. downstream \in Seq(Packet) /\ downstream' = Append(downstream, p)
    BY DEF TypeOK, Reply
  <1> QED
    BY <1>1, <1>2, ElementsAppend

\* What PacketDispatcher::Dispatch takes off the wire.
LEMMA Dispatched ==
    ASSUME TypeOK, NEW service, Dispatch(service)
    PROVE  /\ process = "running" /\ running = "idle"
           /\ Head(upstream) \in Request /\ Head(upstream).service = service
           /\ Head(upstream) \in Elements(upstream)
           /\ upstream' \in Seq(Request)
           /\ Elements(upstream') \subseteq Elements(upstream)
           /\ asked' = asked /\ heard' = heard
  BY ElementsTail DEF TypeOK, Dispatch, messenger

\* The fields a request has.
LEMMA RequestFields ==
    ASSUME NEW r \in Request
    PROVE  /\ r.service = "ProtocolSync" => r.version \in Versions
           /\ r.service = "ChallengeRequest" => r.clientId \in Ids
           /\ r.service = "Authentication" => r.clientId \in Ids /\ r.invisible \in BOOLEAN
           /\ r.service = "SessionRequest" => r.informed \in BOOLEAN
  BY DEF Request

\* The state before the first packet has the right types.
LEMMA InitTypes == Init => TypeOK
  <1> SUFFICES ASSUME Init PROVE TypeOK
    OBVIOUS
  <1>1. \A S : <<>> \in Seq(S)
    OBVIOUS
  <1>2. xmpp \in Seq(XmppClient) /\ asked \in Seq(Request) /\ upstream \in Seq(Request)
        /\ downstream \in Seq(Packet)
    BY <1>1 DEF Init
  <1>3. session \in [clientId : Ids \cup {NoId}, availability : {"Available", "Offline"},
                     begun : BOOLEAN]
    BY DEF Init, NoSession
  <1> QED
    BY <1>2, <1>3 DEF Init, TypeOK

\* OnAuthenticate keeps them with either back end.
LEMMA AuthenticateTypes ==
    ASSUME TypeOK, OnAuthenticate
    PROVE  TypeOK'
  <1>1. /\ upstream' \in Seq(Request) /\ asked' = asked /\ heard' = heard
        /\ availability' \in {"Available", "Offline"}
        /\ UNCHANGED <<version, sessionId, clientId, map, downstream, ignored>>
    BY Dispatched DEF OnAuthenticate, connection
  <1>2. CASE BeginMockSession
    BY <1>1, <1>2 DEF TypeOK, BeginMockSession
  <1>3. CASE ConnectXmpp
    <2>1. /\ session' = session /\ running' = running
          /\ process' \in {"running", "terminated"}
      BY <1>3 DEF TypeOK, ConnectXmpp
    <2>2. [clientId |-> clientId, state |-> "connecting"] \in XmppClient
      BY DEF TypeOK, XmppClient, XmppState
    <2>3. xmpp \in Seq(XmppClient)
      BY DEF TypeOK
    <2>4. xmpp' = xmpp \/ xmpp' = Append(xmpp, [clientId |-> clientId, state |-> "connecting"])
      BY <1>3 DEF ConnectXmpp
    <2>5. xmpp' \in Seq(XmppClient)
      BY <2>2, <2>3, <2>4, ElementsAppend
    <2> QED
      BY <1>1, <2>1, <2>5 DEF TypeOK
  <1> QED
    BY <1>2, <1>3 DEF OnAuthenticate

\* The state of an XMPP client changes.
LEMMA XmppTypes ==
    ASSUME TypeOK, NEW i \in DOMAIN xmpp, NEW state \in XmppState,
           xmpp' = [xmpp EXCEPT ![i].state = state]
    PROVE  /\ xmpp' \in Seq(XmppClient)
           /\ Len(xmpp') = Len(xmpp) /\ DOMAIN xmpp' = DOMAIN xmpp
           /\ \A j \in DOMAIN xmpp :
                /\ xmpp'[j].clientId = xmpp[j].clientId
                /\ xmpp'[j].state = IF j = i THEN state ELSE xmpp[j].state
  <1>1. xmpp \in Seq(XmppClient) /\ Len(xmpp) \in Nat /\ DOMAIN xmpp = 1 .. Len(xmpp)
    <2>1. xmpp \in Seq(XmppClient)
      BY DEF TypeOK
    <2> QED
      BY <2>1, LenProperties
  <1>2. \A j \in DOMAIN xmpp : xmpp[j] \in XmppClient
    BY <1>1
  <1>3. [xmpp[i] EXCEPT !.state = state] \in XmppClient
    BY <1>2 DEF XmppClient
  <1> DEFINE e == [xmpp[i] EXCEPT !.state = state]
  <1>4. xmpp' = [xmpp EXCEPT ![i] = e]
    OBVIOUS
  <1>5. e.clientId = xmpp[i].clientId /\ e.state = state
    BY <1>2 DEF XmppClient
  <1> HIDE DEF e
  <1>6. DOMAIN xmpp' = DOMAIN xmpp /\ \A j \in DOMAIN xmpp : xmpp'[j] = IF j = i THEN e ELSE xmpp[j]
    BY <1>4
  <1>7. xmpp' \in Seq(XmppClient) /\ Len(xmpp') = Len(xmpp)
    <2>1. xmpp' = [j \in 1 .. Len(xmpp) |-> IF j = i THEN e ELSE xmpp[j]]
      BY <1>1, <1>4
    <2>2. \A j \in 1 .. Len(xmpp) : (IF j = i THEN e ELSE xmpp[j]) \in XmppClient
      BY <1>1, <1>2, <1>3 DEF e
    <2> QED
      BY <1>1, <2>1, <2>2
  <1> QED
    BY <1>5, <1>6, <1>7

\* Every step keeps the types.
LEMMA NextTypes ==
    ASSUME TypeOK, [Next]_vars
    PROVE  TypeOK'
  <1> USE DEF connection, handler, messenger
  <1>1. CASE UNCHANGED vars
    BY <1>1, ZenonT(60) DEF vars, TypeOK
  <1>2. ASSUME NEW r \in Request, Ask(r)
        PROVE  TypeOK'
    <2>1. asked' \in Seq(Request) /\ upstream' \in Seq(Request)
      <3>1. asked \in Seq(Request) /\ upstream \in Seq(Request)
        BY DEF TypeOK
      <3>2. asked' = Append(asked, r) /\ upstream' = Append(upstream, r)
        BY <1>2 DEF Ask
      <3> QED
        BY <3>1, <3>2, AppendProperties
    <2>2. UNCHANGED <<version, sessionId, clientId, availability, map, session, xmpp, running,
                      process, downstream, heard, ignored>>
      BY <1>2 DEF Ask
    <2> QED
      BY <2>1, <2>2, ZenonT(60) DEF TypeOK
  <1>3. CASE Read
    <2>1. /\ downstream' \in Seq(Packet) /\ heard' = heard \cup {Head(downstream).type}
          /\ Head(downstream) \in Packet
      <3>1. downstream \in Seq(Packet)
        BY DEF TypeOK
      <3>2. /\ downstream # <<>> /\ downstream' = Tail(downstream)
            /\ heard' = heard \cup {Head(downstream).type}
        BY <1>3 DEF Read
      <3> QED
        BY <3>1, <3>2, ElementsTail
    <2>2. Head(downstream).type \in {"ProtocolAck", "ChallengeResponse"} \cup SessionPacketType
      BY <2>1 DEF Packet
    <2> QED
      BY <1>3, <2>1, <2>2, ZenonT(60) DEF Read, TypeOK
  <1>4. CASE OnProtocolSync
    <2>1. /\ upstream' \in Seq(Request) /\ asked' = asked /\ heard' = heard
          /\ version' \in Versions
      BY <1>4, Dispatched, RequestFields DEF OnProtocolSync
    <2>2. sessionId' = sessionId /\ Reply("ProtocolAck")
      BY <1>4 DEF OnProtocolSync
    <2>3. downstream' \in Seq(Packet)
      BY <2>1, <2>2, Replied DEF TypeOK
    <2> QED
      BY <1>4, <2>1, <2>2, <2>3 DEF OnProtocolSync, TypeOK
  <1>5. CASE OnChallengeRequest
    <2>1. /\ upstream' \in Seq(Request) /\ asked' = asked /\ heard' = heard
          /\ clientId' \in Ids
      BY <1>5, Dispatched, RequestFields DEF OnChallengeRequest
    <2>2. downstream' \in Seq(Packet)
      BY <1>5, Replied DEF OnChallengeRequest, TypeOK
    <2> QED
      BY <1>5, <2>1, <2>2 DEF OnChallengeRequest, TypeOK
  <1>6. CASE OnAuthenticate
    BY <1>6, AuthenticateTypes
  <1>7. CASE SetSessionId
    BY <1>7 DEF SetSessionId, Step, TypeOK
  <1>8. ASSUME NEW type \in SessionPacketType, NEW next \in {"SendStatus", "SendPing", "SetDispatchMap"},
               Reply(type),
               UNCHANGED <<version, sessionId, clientId, availability, map, session, xmpp,
                           process, asked, heard, upstream, ignored>>,
               running' = next
        PROVE  TypeOK'
    <2>1. downstream' \in Seq(Packet)
      BY <1>8, Replied DEF TypeOK
    <2> QED
      BY <1>8, <2>1 DEF TypeOK
  <1>9. CASE SendProfile \/ SendStatus \/ SendPing
    BY <1>8, <1>9 DEF SendProfile, SendStatus, SendPing, Step, SessionPacketType
  <1>10. CASE SetDispatchMap
    BY <1>10 DEF SetDispatchMap, Step, TypeOK
  <1>11. CASE Ignore
    <2>1. /\ upstream' \in Seq(Request) /\ asked' = asked /\ heard' = heard
          /\ Head(upstream) \in Request
      BY <1>11, Dispatched DEF Ignore
    <2> QED
      BY <1>11, <2>1 DEF Ignore, TypeOK
  <1>12. CASE ServeSession
    <2>1. upstream' \in Seq(Request) /\ asked' = asked /\ heard' = heard
      BY <1>12, Dispatched DEF ServeSession
    <2>2. downstream' \in Seq(Packet)
      BY <1>12, Replied DEF ServeSession, SessionPacketType, TypeOK
    <2> QED
      BY <1>12, <2>1, <2>2 DEF ServeSession, TypeOK
  <1>13. CASE OnSessionAuthenticated
    <2>1. xmpp' \in Seq(XmppClient)
      BY <1>13, XmppTypes DEF OnSessionAuthenticated, XmppState
    <2> DEFINE new == [clientId |-> clientId, availability |-> availability, begun |-> TRUE]
    <2>0. \/ session' = new /\ running' = "SetSessionId" /\ process' = process
          \/ session' = session /\ running' = running /\ process' = "terminated"
      BY <1>13 DEF OnSessionAuthenticated
    <2>2. /\ session' \in {session, new}
          /\ running' \in {running, "SetSessionId"} /\ process' \in {process, "terminated"}
      BY <2>0
    <2>3. session' \in [clientId : Ids \cup {NoId}, availability : {"Available", "Offline"},
                        begun : BOOLEAN]
      <3>1. clientId \in Ids \cup {NoId} /\ availability \in {"Available", "Offline"}
        BY DEF TypeOK
      <3>2. new \in [clientId : Ids \cup {NoId}, availability : {"Available", "Offline"}, begun : BOOLEAN]
        BY <3>1
      <3>3. session \in [clientId : Ids \cup {NoId}, availability : {"Available", "Offline"},
                         begun : BOOLEAN]
        BY DEF TypeOK
      <3> HIDE DEF new
      <3> QED
        BY <2>2, <3>2, <3>3
    <2> QED
      BY <1>13, <2>1, <2>2, <2>3 DEF OnSessionAuthenticated, TypeOK
  <1>14. CASE LoseXmpp
    <2>1. xmpp' \in Seq(XmppClient)
      BY <1>14, XmppTypes DEF LoseXmpp, XmppState
    <2> QED
      BY <1>14, <2>1 DEF LoseXmpp, TypeOK
  <1> QED
    BY <1>1, <1>2, <1>3, <1>4, <1>5, <1>6, <1>7, <1>9, <1>10, <1>11, <1>12, <1>13, <1>14
       DEF Next, Handle, Begin

\* The fields of the connection, the handler and the session, the packets in
\* both directions and the XMPP clients keep their types.
THEOREM LoginTypeCorrect == Spec => []TypeOK
  BY InitTypes, NextTypes, PTL DEF Spec

-----------------------------------------------------------------------------
(* What an informed messenger asks.                                        *)

\* What the session thread and the XMPP clients leave of the queues: they
\* send at most one packet, and never a profile but in SendProfile.
LEMMA ThreadFrame ==
    ASSUME TypeOK, Handle \/ OnSessionAuthenticated \/ LoseXmpp
    PROVE  /\ asked' = asked /\ heard' = heard /\ Elements(upstream') \subseteq Elements(upstream)
           /\ \/ downstream' = downstream
              \/ \E type \in {"ProtocolAck", "ChallengeResponse"} \cup SessionPacketType :
                    /\ Elements(downstream') = Elements(downstream)
                          \cup {[type |-> type, version |-> version', sessionId |-> sessionId']}
                    /\ type = "ProtocolAck" => OnProtocolSync
                    /\ type = "ChallengeResponse" => OnChallengeRequest
                    /\ type = "ClientProfile" => SendProfile
                    /\ type \in SessionPacketType =>
                          SendProfile \/ SendStatus \/ SendPing \/ ServeSession
  <1> USE DEF connection, handler, messenger
  <1>0. version' \in Versions \cup {Leftover} /\ sessionId' \in SessionIds \cup {Leftover}
    <2>1. TypeOK'
      BY NextTypes DEF Next
    <2> QED
      BY <2>1 DEF TypeOK
  <1>1. CASE OnProtocolSync
    BY <1>0, <1>1, Dispatched, Replied DEF OnProtocolSync, SessionPacketType
  <1>2. CASE OnChallengeRequest
    BY <1>0, <1>2, Dispatched, Replied DEF OnChallengeRequest, SessionPacketType
  <1>3. CASE OnAuthenticate
    BY <1>3, Dispatched DEF OnAuthenticate
  <1>4. CASE SetSessionId
    BY <1>4 DEF SetSessionId, Step
  <1>5. CASE SendProfile
    BY <1>0, <1>5, Replied DEF SendProfile, Step, SessionPacketType
  <1>6. CASE SendStatus
    BY <1>0, <1>6, Replied DEF SendStatus, Step, SessionPacketType
  <1>7. CASE SendPing
    BY <1>0, <1>7, Replied DEF SendPing, Step, SessionPacketType
  <1>8. CASE SetDispatchMap
    BY <1>8 DEF SetDispatchMap, Step
  <1>9. CASE Ignore
    BY <1>9, Dispatched DEF Ignore
  <1>10. CASE ServeSession
    BY <1>0, <1>10, Dispatched, Replied DEF ServeSession, SessionPacketType
  <1>11. CASE OnSessionAuthenticated
    BY <1>11 DEF OnSessionAuthenticated
  <1>12. CASE LoseXmpp
    BY <1>12 DEF LoseXmpp
  <1> QED
    BY <1>1, <1>2, <1>3, <1>4, <1>5, <1>6, <1>7, <1>8, <1>9, <1>10, <1>11, <1>12 DEF Handle, Begin

\* A session whose profile is on its way comes to have its map: the handler
\* that sends the one puts the other in place.
LEMMA IntroducedStays ==
    ASSUME [Next]_vars, Introduced
    PROVE  Introduced'
  <1> USE DEF connection, handler, messenger, Introduced
  <1>1. CASE map' = map /\ running' = running
    BY <1>1
  <1>2. CASE map' = map /\ running = "idle"
    BY <1>2
  <1>3. CASE Begin
    BY <1>3 DEF Begin, SetSessionId, SendProfile, SendStatus, SendPing, SetDispatchMap, Step
  <1>4. ASSUME NEW r \in Request, Ask(r) PROVE map' = map /\ running' = running
    BY <1>4 DEF Ask
  <1>5. ASSUME OnProtocolSync \/ OnChallengeRequest \/ OnAuthenticate \/ Ignore \/ ServeSession
        PROVE  map' = map /\ running = "idle"
    BY <1>5 DEF OnProtocolSync, OnChallengeRequest, OnAuthenticate, Ignore, ServeSession, Dispatch
  <1>6. ASSUME Read PROVE map' = map /\ running' = running
    BY <1>6 DEF Read
  <1>7. ASSUME OnSessionAuthenticated \/ LoseXmpp PROVE map' = map /\ running = "idle"
    BY <1>7 DEF OnSessionAuthenticated, LoseXmpp
  <1>8. ASSUME UNCHANGED vars PROVE map' = map /\ running' = running
    BY <1>8 DEF vars
  <1> QED
    BY <1>1, <1>2, <1>3, <1>4, <1>5, <1>6, <1>7, <1>8 DEF Next, Handle

\* Informed is kept by every step.
LEMMA NextInformed ==
    ASSUME TypeOK, Informed, [Next]_vars
    PROVE  Informed'
  <1> USE DEF connection, handler, messenger
  <1>0. Introduced => Introduced'
    BY IntroducedStays
  <1>1. CASE UNCHANGED vars
    BY <1>1 DEF vars, Informed, Introduced, Unread, InformedRequestsAreServed
  <1>2. ASSUME NEW r \in Request, Ask(r)
        PROVE  Informed'
    <2>1. /\ Elements(upstream') = Elements(upstream) \cup {r}
          /\ r.service = "SessionRequest" /\ r.informed => "ClientProfile" \in heard
          /\ heard' = heard /\ ignored' = ignored /\ downstream' = downstream
      <3>1. upstream \in Seq(Request) /\ upstream' = Append(upstream, r)
        BY <1>2 DEF Ask, TypeOK
      <3>2. /\ r.service = "SessionRequest" => r.informed = ("ClientProfile" \in heard)
            /\ heard' = heard /\ ignored' = ignored /\ downstream' = downstream
        BY <1>2 DEF Ask
      <3>3. Elements(upstream') = Elements(upstream) \cup {r}
        BY <3>1, ElementsAppend
      <3>4. r.service = "SessionRequest" /\ r.informed => "ClientProfile" \in heard
        BY <3>2
      <3> QED
        BY <3>2, <3>3, <3>4
    <2>2. Unread("ClientProfile")' => Unread("ClientProfile")
      BY <2>1 DEF Unread
    <2> QED
      BY <1>0, <2>1, <2>2 DEF Informed, InformedRequestsAreServed
  <1>3. CASE Read
    <2>1. /\ Elements(downstream') \subseteq Elements(downstream)
          /\ Head(downstream) \in Elements(downstream)
          /\ heard' = heard \cup {Head(downstream).type}
          /\ UNCHANGED <<upstream, ignored>>
      BY <1>3, ElementsTail DEF Read, TypeOK
    <2> QED
      BY <1>0, <2>1 DEF Informed, Unread, InformedRequestsAreServed
  <1>4. CASE Handle \/ OnSessionAuthenticated \/ LoseXmpp
    <2>1. heard' = heard /\ Elements(upstream') \subseteq Elements(upstream)
      BY <1>4, ThreadFrame
    <2>2. Unread("ClientProfile")' => Unread("ClientProfile") \/ SendProfile
      <3>1. SUFFICES ASSUME NEW p \in Elements(downstream'), p.type = "ClientProfile"
                     PROVE  p \in Elements(downstream) \/ SendProfile
        BY DEF Unread
      <3> QED
        BY <1>4, <3>1, ThreadFrame
    <2>3. SendProfile => Introduced'
      BY DEF SendProfile, Step, Introduced
    <2>4. ASSUME NEW r \in ignored', r \notin ignored, r.informed
          PROVE  FALSE
      <3>1. CASE ignored' = ignored
        BY <2>4, <3>1
      <3>2. CASE Ignore
        <4>1. PICK service : Dispatch(service) /\ service = "SessionRequest" /\ map = "login"
                             /\ r = Head(upstream)
          BY <2>4, <3>2 DEF Ignore
        <4>2. r \in Elements(upstream) /\ r.service = "SessionRequest" /\ running = "idle"
          BY <4>1, Dispatched
        <4> QED
          BY <2>4, <4>1, <4>2 DEF Informed, Introduced
      <3> QED
        BY <1>4, <3>1, <3>2
           DEF Handle, Begin, OnProtocolSync, OnChallengeRequest, OnAuthenticate, SetSessionId,
               SendProfile, SendStatus, SendPing, SetDispatchMap, Step, ServeSession,
               OnSessionAuthenticated, LoseXmpp
    <2> QED
      BY <1>0, <2>1, <2>2, <2>3, <2>4 DEF Informed, InformedRequestsAreServed
  <1> QED
    BY <1>1, <1>2, <1>3, <1>4 DEF Next

\* No packet is in flight at first.
LEMMA InitInformed == Init => Informed
  <1> SUFFICES ASSUME Init PROVE Informed
    OBVIOUS
  <1>1. Elements(<<>>) = {}
    BY DOMAIN <<>> = {} DEF Elements
  <1>2. Elements(downstream) = {} /\ Elements(upstream) = {} /\ heard = {} /\ ignored = {}
    BY <1>1 DEF Init
  <1> QED
    BY <1>2 DEF Informed, Unread, InformedRequestsAreServed

\* PacketDispatcher::Dispatch never drops a request that the messenger sent
\* after it had its profile.
THEOREM InformedIsServed == Spec => []InformedRequestsAreServed
  <1>1. Init => TypeOK /\ Informed
    BY InitTypes, InitInformed
  <1>2. TypeOK /\ Informed /\ [Next]_vars => (TypeOK /\ Informed)'
    BY NextTypes, NextInformed
  <1>3. TypeOK /\ Informed => InformedRequestsAreServed
    BY DEF Informed
  <1> QED
    BY <1>1, <1>2, <1>3, PTL DEF Spec

-----------------------------------------------------------------------------
(* One session.                                                            *)

\* The steps that have to do with the session or with XMPP.
LEMMA SessionSteps ==
    ASSUME [Next]_vars
    PROVE  \/ UNCHANGED <<map, session, xmpp, running, availability>>
           \/ OnAuthenticate \/ OnSessionAuthenticated \/ LoseXmpp \/ Begin
  <1> USE DEF connection, handler, messenger
  <1>1. CASE UNCHANGED vars
    BY <1>1 DEF vars
  <1>2. CASE \E r \in Request : Ask(r)
    BY <1>2 DEF Ask
  <1>3. CASE Read
    BY <1>3 DEF Read
  <1>4. CASE OnProtocolSync \/ OnChallengeRequest \/ Ignore \/ ServeSession
    BY <1>4 DEF OnProtocolSync, OnChallengeRequest, Ignore, ServeSession
  <1> QED
    BY <1>1, <1>2, <1>3, <1>4 DEF Next, Handle

\* What OnAuthenticate does to them, by back end.
LEMMA Authenticated ==
    ASSUME TypeOK, OnAuthenticate
    PROVE  /\ map = "login" /\ map' = map /\ running = "idle"
           /\ Head(upstream) \in Request /\ Head(upstream).service = "Authentication"
           /\ UNCHANGED <<connection, clientId, asked, heard, downstream, ignored>>
           /\ availability' = IF Head(upstream).invisible THEN "Offline" ELSE "Available"
           /\ \/ /\ BackEnd = "mock" /\ xmpp' = xmpp /\ running' = "SetSessionId"
                 /\ session'.begun /\ session'.clientId = clientId
                 /\ session'.availability = availability'
              \/ BackEnd = "gloox" /\ UNCHANGED <<session, running, xmpp>>
              \/ /\ BackEnd = "gloox" /\ UNCHANGED <<session, running>>
                 /\ xmpp' = Append(xmpp, [clientId |-> clientId, state |-> "connecting"])
  <1>1. /\ map = "login" /\ map' = map /\ running = "idle"
        /\ Head(upstream) \in Request /\ Head(upstream).service = "Authentication"
        /\ UNCHANGED <<connection, clientId, asked, heard, downstream, ignored>>
        /\ availability' = IF Head(upstream).invisible THEN "Offline" ELSE "Available"
    BY Dispatched DEF OnAuthenticate
  <1>2. CASE BackEnd = "mock" /\ BeginMockSession
    BY <1>1, <1>2 DEF BeginMockSession
  <1>3. CASE BackEnd = "gloox" /\ ConnectXmpp
    BY <1>1, <1>3 DEF ConnectXmpp
  <1> QED
    BY <1>2, <1>3 DEF OnAuthenticate

\* What the call back from XMPP does to them.
LEMMA Connected ==
    ASSUME TypeOK, OnSessionAuthenticated
    PROVE  /\ map' = map /\ running = "idle"
           /\ UNCHANGED <<connection, clientId, availability, asked, heard, upstream, downstream,
                          ignored>>
           /\ \E i \in DOMAIN xmpp :
                 /\ xmpp[i].state = "connecting"
                 /\ DOMAIN xmpp' = DOMAIN xmpp /\ Len(xmpp') = Len(xmpp)
                 /\ \A j \in DOMAIN xmpp :
                       /\ xmpp'[j].clientId = xmpp[j].clientId
                       /\ IF j = i THEN xmpp'[j].state # "connecting"
                          ELSE xmpp'[j].state = xmpp[j].state
           /\ \/ UNCHANGED <<session, running>>
              \/ /\ running' = "SetSessionId" /\ session'.begun
                 /\ session'.clientId = clientId /\ session'.availability = availability
  <1>1. /\ map' = map /\ running = "idle"
        /\ UNCHANGED <<connection, clientId, availability, asked, heard, upstream, downstream,
                       ignored>>
    BY DEF OnSessionAuthenticated, handler, messenger
  <1>2. PICK i \in DOMAIN xmpp, state \in {"connected", "dead"} :
            /\ xmpp[i].state = "connecting"
            /\ xmpp' = [xmpp EXCEPT ![i].state = state]
    BY DEF OnSessionAuthenticated
  <1>3. \/ UNCHANGED <<session, running>>
        \/ /\ running' = "SetSessionId" /\ session'.begun
           /\ session'.clientId = clientId /\ session'.availability = availability
    BY DEF OnSessionAuthenticated
  <1>4. state \in XmppState /\ state # "connecting"
    BY DEF XmppState
  <1>5. /\ DOMAIN xmpp' = DOMAIN xmpp /\ Len(xmpp') = Len(xmpp)
        /\ \A j \in DOMAIN xmpp :
              /\ xmpp'[j].clientId = xmpp[j].clientId
              /\ xmpp'[j].state = IF j = i THEN state ELSE xmpp[j].state
    BY <1>2, <1>4, XmppTypes
  <1> QED
    BY <1>1, <1>2, <1>3, <1>4, <1>5

\* What the loss of an XMPP connection does to them.
LEMMA Lost ==
    ASSUME TypeOK, LoseXmpp
    PROVE  /\ UNCHANGED <<map, session, running, connection, clientId, availability, asked, heard,
                          upstream, downstream, ignored>>
           /\ DOMAIN xmpp # {}
           /\ DOMAIN xmpp' = DOMAIN xmpp /\ Len(xmpp') = Len(xmpp)
           /\ \A j \in DOMAIN xmpp : /\ xmpp'[j].clientId = xmpp[j].clientId
                                     /\ xmpp'[j].state = "connecting"
                                          => xmpp[j].state = "connecting"
  <1>1. UNCHANGED <<map, session, running, connection, clientId, availability, asked, heard,
                    upstream, downstream, ignored>>
    BY DEF LoseXmpp, messenger
  <1>2. PICK i \in DOMAIN xmpp, state \in {"refused", "dead", "lost"} :
            xmpp' = [xmpp EXCEPT ![i].state = state]
    BY DEF LoseXmpp
  <1>3. state \in XmppState /\ state # "connecting"
    BY DEF XmppState
  <1>4. /\ DOMAIN xmpp' = DOMAIN xmpp /\ Len(xmpp') = Len(xmpp)
        /\ \A j \in DOMAIN xmpp :
              /\ xmpp'[j].clientId = xmpp[j].clientId
              /\ xmpp'[j].state = IF j = i THEN state ELSE xmpp[j].state
    BY <1>2, <1>3, XmppTypes
  <1> QED
    BY <1>1, <1>2, <1>3, <1>4

\* What the rest of the handler does to them.
LEMMA Begun ==
    ASSUME Begin
    PROVE  /\ UNCHANGED <<session, xmpp, clientId, availability, asked, heard, upstream, ignored>>
           /\ running # "idle" /\ (running = "SetDispatchMap" <=> running' = "idle")
           /\ map' = IF running = "SetDispatchMap" THEN "session" ELSE map
  BY DEF Begin, SetSessionId, SendProfile, SendStatus, SendPing, SetDispatchMap, Step, messenger

\* The begin of a session is the begin of its only one.
LEMMA NextSingle ==
    ASSUME TypeOK, OneLogin, Single, Orderly => Once, [Next]_vars
    PROVE  Single'
  <1>1. CASE UNCHANGED <<map, session, xmpp, running, availability>>
    BY <1>1 DEF Single
  <1>2. CASE OnAuthenticate
    <2>1. ~session.begun
      BY <1>2, Authenticated DEF Single
    <2>2. CASE BackEnd = "mock"
      BY <1>2, <2>1, <2>2, Authenticated DEF Single
    <2>3. CASE BackEnd = "gloox" /\ session' = session /\ running' = running
      BY <1>2, <2>1, <2>3, Authenticated DEF Single
    <2> QED
      BY <1>2, <2>2, <2>3, Authenticated
  <1>3. CASE OnSessionAuthenticated
    <2>1. PICK i \in DOMAIN xmpp :
             /\ xmpp[i].state = "connecting"
             /\ DOMAIN xmpp' = DOMAIN xmpp
             /\ xmpp'[i].state # "connecting"
      BY <1>3, Connected
    <2>2. ~session.begun /\ map # "session" /\ BackEnd # "mock"
      BY <1>3, <2>1, DOMAIN <<>> = {} DEF Single
    <2>3. \A j \in DOMAIN xmpp : j = i
      <3>1. Len(xmpp) <= 1
        BY <2>2 DEF OneLogin, Once
      <3>2. Len(xmpp) \in Nat /\ DOMAIN xmpp = 1 .. Len(xmpp)
        <4>1. xmpp \in Seq(XmppClient)
          BY DEF TypeOK
        <4> QED
          BY <4>1, LenProperties
      <3> QED
        BY <2>1, <3>1, <3>2
    <2>4. map' = map /\ running = "idle"
      BY <1>3, Connected
    <2>5. \/ running' = running /\ session' = session
          \/ running' = "SetSessionId" /\ session'.begun
      BY <1>3, Connected
    <2> QED
      BY <2>1, <2>2, <2>3, <2>4, <2>5 DEF Single
  <1>4. CASE LoseXmpp
    <2>1. UNCHANGED <<map, session, running>> /\ DOMAIN xmpp # {} /\ DOMAIN xmpp' = DOMAIN xmpp
          /\ \A j \in DOMAIN xmpp : xmpp'[j].state = "connecting" => xmpp[j].state = "connecting"
      BY <1>4, Lost
    <2>2. BackEnd # "mock"
      BY <2>1, DOMAIN <<>> = {} DEF Single
    <2> QED
      BY <2>1, <2>2 DEF Single
  <1>5. CASE Begin
    BY <1>5, Begun DEF Single
  <1> QED
    BY <1>1, <1>2, <1>3, <1>4, <1>5, SessionSteps

\* The fields that stamp a packet change before there is one to stamp.
LEMMA StampChanges ==
    ASSUME [Next]_vars
    PROVE  \/ version' = version /\ sessionId' = sessionId
           \/ map = "login" /\ running = "idle" /\ sessionId' = sessionId /\ ~Begin
           \/ running = "SetSessionId" /\ SetSessionId
  <1> USE DEF connection, handler, messenger
  <1>1. CASE UNCHANGED vars
    BY <1>1 DEF vars
  <1>2. CASE \E r \in Request : Ask(r)
    BY <1>2 DEF Ask
  <1>3. CASE Read \/ OnSessionAuthenticated \/ LoseXmpp
    BY <1>3 DEF Read, OnSessionAuthenticated, LoseXmpp
  <1>4. CASE OnProtocolSync
    BY <1>4, Begun DEF OnProtocolSync, Dispatch
  <1>5. CASE OnChallengeRequest \/ OnAuthenticate \/ Ignore \/ ServeSession
    BY <1>5 DEF OnChallengeRequest, OnAuthenticate, Ignore, ServeSession
  <1>6. CASE Begin
    BY <1>6 DEF Begin, SetSessionId, SendProfile, SendStatus, SendPing, SetDispatchMap, Step
  <1> QED
    BY <1>1, <1>2, <1>3, <1>4, <1>5, <1>6 DEF Next, Handle

\* What is in flight after a step: what was, and what the step has stamped.
LEMMA InFlight ==
    ASSUME TypeOK, [Next]_vars, NEW p \in Elements(downstream'), p \notin Elements(downstream)
    PROVE  /\ p.version = version' /\ p.sessionId = sessionId'
           /\ p.type = "ProtocolAck" => OnProtocolSync
           /\ p.type = "ChallengeResponse" => OnChallengeRequest
           /\ p.type \in SessionPacketType =>
                 SendProfile \/ SendStatus \/ SendPing \/ ServeSession
  <1>1. CASE UNCHANGED vars \/ \E r \in Request : Ask(r)
    BY <1>1 DEF vars, Ask
  <1>2. CASE Read
    <2>1. Elements(downstream') \subseteq Elements(downstream)
      BY <1>2, ElementsTail DEF Read, TypeOK
    <2> QED
      BY <2>1
  <1>3. CASE Handle \/ OnSessionAuthenticated \/ LoseXmpp
    <2>1. PICK type \in {"ProtocolAck", "ChallengeResponse"} \cup SessionPacketType :
             /\ Elements(downstream') = Elements(downstream)
                   \cup {[type |-> type, version |-> version', sessionId |-> sessionId']}
             /\ type = "ProtocolAck" => OnProtocolSync
             /\ type = "ChallengeResponse" => OnChallengeRequest
             /\ type \in SessionPacketType =>
                   SendProfile \/ SendStatus \/ SendPing \/ ServeSession
      BY <1>3, ThreadFrame
    <2>2. p = [type |-> type, version |-> version', sessionId |-> sessionId']
      BY <2>1
    <2> QED
      BY <2>1, <2>2
  <1> QED
    BY <1>1, <1>2, <1>3 DEF Next

\* A session's packets are sent with the id that was drawn for it.
LEMMA NextStamped ==
    ASSUME TypeOK, Single, Stamped, [Next]_vars
    PROVE  Stamped'
  <1>0. Introduced => Introduced'
    BY IntroducedStays
  <1>1. /\ (map = "session" \/ running \notin {"idle", "SetSessionId"})' => sessionId' # Leftover
        /\ (\E p \in Elements(downstream) : p.type \in SessionPacketType) =>
              version' = version /\ sessionId' = sessionId
    <2>1. CASE SetSessionId
      <3>1. sessionId' # Leftover
        BY <2>1, LoginAssumption DEF SetSessionId
      <3>2. running = "SetSessionId" /\ ~Introduced
        BY <2>1 DEF SetSessionId, Step, Single, Introduced
      <3> QED
        BY <3>1, <3>2 DEF Stamped
    <2>2. CASE sessionId' = sessionId /\ ~SetSessionId
      <3>1. ASSUME map' = "session" \/ running' \notin {"idle", "SetSessionId"}
            PROVE  map = "session" \/ running \notin {"idle", "SetSessionId"}
        <4>1. CASE UNCHANGED <<map, session, xmpp, running, availability>>
          BY <3>1, <4>1
        <4>2. CASE OnAuthenticate
          BY <3>1, <4>2, Authenticated
        <4>3. CASE OnSessionAuthenticated
          BY <3>1, <4>3, Connected
        <4>4. CASE LoseXmpp
          BY <3>1, <4>4, Lost
        <4>5. CASE Begin
          BY <2>2, <4>5 DEF Begin, SendProfile, SendStatus, SendPing, SetDispatchMap, Step
        <4> QED
          BY <4>1, <4>2, <4>3, <4>4, <4>5, SessionSteps
      <3>2. version' = version \/ ~Introduced
        BY <2>2, StampChanges DEF Introduced
      <3> QED
        BY <2>2, <3>1, <3>2 DEF Stamped
    <2> QED
      BY <2>1, <2>2, StampChanges DEF Begin, SetSessionId, Step
  <1>2. SUFFICES ASSUME NEW p \in Elements(downstream'), p.type \in SessionPacketType
                 PROVE  Introduced' /\ p.sessionId = sessionId' /\ p.version = version'
    BY <1>1 DEF Stamped
  <1>3. CASE p \in Elements(downstream)
    BY <1>0, <1>1, <1>2, <1>3 DEF Stamped
  <1>4. CASE p \notin Elements(downstream)
    <2>1. p.sessionId = sessionId' /\ p.version = version'
          /\ (SendProfile \/ SendStatus \/ SendPing \/ ServeSession)
      BY <1>2, <1>4, InFlight
    <2>2. SendProfile \/ SendStatus \/ SendPing => Introduced'
      BY DEF SendProfile, SendStatus, SendPing, Step, Introduced
    <2>3. ServeSession => Introduced'
      BY DEF ServeSession, Introduced
    <2> QED
      BY <2>1, <2>2, <2>3
  <1> QED
    BY <1>3, <1>4

-----------------------------------------------------------------------------
(* The session an orderly messenger asks for.                              *)

\* What Ask does.
LEMMA Asked ==
    ASSUME TypeOK, Orderly, NEW r \in Request, Ask(r)
    PROVE  /\ InTurn(r)
           /\ r.service = "SessionRequest" => "ClientProfile" \in heard
           /\ UNCHANGED <<version, sessionId, clientId, availability, session, xmpp, map, running,
                          downstream, heard>>
           /\ Len(asked) \in Nat /\ Len(asked') = Len(asked) + 1 /\ asked'[Len(asked) + 1] = r
           /\ \A i \in 1 .. Len(asked) : asked'[i] = asked[i]
           /\ Len(upstream) \in Nat /\ Len(upstream') = Len(upstream) + 1
           /\ upstream'[Len(upstream) + 1] = r
           /\ \A i \in 1 .. Len(upstream) : upstream'[i] = upstream[i]
           /\ DOMAIN upstream = 1 .. Len(upstream) /\ DOMAIN upstream' = 1 .. Len(upstream')
           /\ Elements(upstream') = Elements(upstream) \cup {r}
  <1>1. /\ InTurn(r)
        /\ r.service = "SessionRequest" => r.informed = ("ClientProfile" \in heard)
        /\ UNCHANGED <<version, sessionId, clientId, availability, session, xmpp, map, running,
                       downstream, heard>>
    BY DEF Ask, connection, handler
  <1>2. r.service = "SessionRequest" => "ClientProfile" \in heard
    BY <1>1 DEF InTurn
  <1>3. /\ asked \in Seq(Request) /\ upstream \in Seq(Request)
        /\ asked' = Append(asked, r) /\ upstream' = Append(upstream, r)
    BY DEF Ask, TypeOK
  <1>4. /\ Len(asked) \in Nat /\ Len(asked') = Len(asked) + 1 /\ asked'[Len(asked) + 1] = r
        /\ \A i \in 1 .. Len(asked) : asked'[i] = asked[i]
    BY <1>3, AppendProperties, LenProperties
  <1>5. /\ Len(upstream) \in Nat /\ Len(upstream') = Len(upstream) + 1
        /\ upstream'[Len(upstream) + 1] = r
        /\ \A i \in 1 .. Len(upstream) : upstream'[i] = upstream[i]
        /\ DOMAIN upstream = 1 .. Len(upstream) /\ DOMAIN upstream' = 1 .. Len(upstream')
    BY <1>3, AppendProperties, LenProperties
  <1>6. Elements(upstream') = Elements(upstream) \cup {r}
    BY <1>3, ElementsAppend
  <1> QED
    BY <1>1, <1>2, <1>4, <1>5, <1>6

\* The queue of the thread keeps its order.
LEMMA UpstreamSteps ==
    ASSUME TypeOK, [Next]_vars
    PROVE  \/ upstream' = upstream /\ asked' = asked
           \/ \E r \in Request : Ask(r)
           \/ /\ upstream # <<>> /\ upstream' = Tail(upstream) /\ asked' = asked
              /\ Head(upstream).service = "Authentication" /\ map = "login" => OnAuthenticate
              /\ ~LoseXmpp /\ ~OnSessionAuthenticated /\ ~Begin
  <1> USE DEF connection, handler, messenger
  <1>1. CASE UNCHANGED vars
    BY <1>1 DEF vars
  <1>2. CASE Read \/ OnSessionAuthenticated \/ LoseXmpp
    BY <1>2 DEF Read, OnSessionAuthenticated, LoseXmpp
  <1>3. CASE Begin
    BY <1>3, Begun
  <1>4. CASE OnProtocolSync \/ OnChallengeRequest \/ OnAuthenticate \/ Ignore \/ ServeSession
    <2>1. upstream # <<>> /\ upstream' = Tail(upstream) /\ asked' = asked /\ running = "idle"
      BY <1>4 DEF OnProtocolSync, OnChallengeRequest, OnAuthenticate, Ignore, ServeSession, Dispatch
    <2>2. Head(upstream).service = "Authentication" /\ map = "login" => OnAuthenticate
      BY <1>4 DEF OnProtocolSync, OnChallengeRequest, Ignore, ServeSession, Dispatch
    <2>3. Tail(upstream) # upstream
      <3>1. upstream \in Seq(Request)
        BY DEF TypeOK
      <3>2. Len(upstream) \in Nat /\ Len(Tail(upstream)) = Len(upstream) - 1
        BY <2>1, <3>1, ElementsTail
      <3> QED
        BY <3>2
    <2>4. ~LoseXmpp /\ ~OnSessionAuthenticated
      BY <2>1, <2>3 DEF LoseXmpp, OnSessionAuthenticated
    <2>5. ~Begin
      BY <2>1, Begun
    <2> QED
      BY <2>1, <2>2, <2>4, <2>5
  <1> QED
    BY <1>1, <1>2, <1>3, <1>4 DEF Next, Handle

\* An orderly messenger has one XMPP client at most, and sends one
\* Authentication packet.
LEMMA NextOnce ==
    ASSUME TypeOK, Orderly, Single, Once, [Next]_vars
    PROVE  Once'
  <1>0. /\ Len(xmpp) \in Nat /\ DOMAIN xmpp = 1 .. Len(xmpp)
        /\ Len(upstream) \in Nat /\ DOMAIN upstream = 1 .. Len(upstream)
        /\ upstream \in Seq(Request)
    <2>1. xmpp \in Seq(XmppClient) /\ upstream \in Seq(Request)
      BY DEF TypeOK
    <2> QED
      BY <2>1, LenProperties
  <1>1. ASSUME NEW r \in Request, Ask(r) PROVE Once'
    <2>1. UNCHANGED <<xmpp, session>>
      BY <1>1, Asked
    <2>2. r.service = "Authentication" => Len(asked) = 2 /\ ~Waiting("Authentication")
      BY <1>1, Asked DEF InTurn, Once
    <2>3. Waiting("Authentication")' <=> Waiting("Authentication") \/ r.service = "Authentication"
      BY <1>1, Asked DEF Waiting
    <2>4. \A i, j \in DOMAIN upstream' :
             upstream'[i].service = "Authentication" /\ upstream'[j].service = "Authentication"
                => i = j
      <3>1. SUFFICES ASSUME NEW i \in DOMAIN upstream', NEW j \in DOMAIN upstream',
                            upstream'[i].service = "Authentication",
                            upstream'[j].service = "Authentication", i # j
                     PROVE  FALSE
        OBVIOUS
      <3>2. \A k \in DOMAIN upstream' :
               \/ k \in DOMAIN upstream /\ upstream'[k] = upstream[k]
               \/ k = Len(upstream) + 1 /\ upstream'[k] = r
        BY <1>0, <1>1, Asked
      <3>3. \A k \in DOMAIN upstream : upstream[k].service = "Authentication" => Waiting("Authentication")
        BY DEF Waiting, Elements
      <3> QED
        BY <2>2, <3>1, <3>2, <3>3 DEF Once
    <2>5. Len(asked) \in Nat /\ Len(asked') = Len(asked) + 1
      BY <1>1, Asked
    <2>6. xmpp' = xmpp /\ session' = session
      BY <2>1
    <2>7. Waiting("Authentication")' => ~session'.begun /\ xmpp' = <<>>
      <3>1. Waiting("Authentication")' => Waiting("Authentication") \/ Len(asked) < 3
        <4>1. r.service = "Authentication" => Len(asked) < 3
          BY <2>2, 2 < 3, Zenon
        <4> QED
          BY <2>3, <4>1, Zenon
      <3>2. Waiting("Authentication") \/ Len(asked) < 3 => ~session.begun /\ xmpp = <<>>
        BY DEF Once
      <3> QED
        BY <2>6, <3>1, <3>2, Zenon
    <2>9. Len(asked') < 3 => ~session'.begun /\ xmpp' = <<>> /\ ~Waiting("Authentication")'
      <3>1. Len(asked') < 3 => Len(asked) < 3 /\ r.service # "Authentication"
        BY <2>2, <2>5
      <3>2. Len(asked) < 3 => ~session.begun /\ xmpp = <<>> /\ ~Waiting("Authentication")
        BY DEF Once
      <3> QED
        BY <2>3, <2>6, <3>1, <3>2, Zenon
    <2>8. Len(xmpp') <= 1
      BY <2>1 DEF Once
    <2> QED
      BY <2>4, <2>7, <2>8, <2>9 DEF Once
  <1>2. CASE UNCHANGED <<upstream, asked>>
    <2>1. UNCHANGED Waiting("Authentication")
      BY <1>2 DEF Waiting
    <2>2. CASE UNCHANGED <<xmpp, session>>
      BY <1>2, <2>1, <2>2 DEF Once
    <2>3. CASE OnAuthenticate
      BY <1>0, <1>2, <2>3, ElementsTail DEF OnAuthenticate, Dispatch
    <2>4. CASE OnSessionAuthenticated \/ LoseXmpp
      <3>1. Len(xmpp') = Len(xmpp) /\ DOMAIN xmpp # {}
        BY <2>4, Connected, Lost
      <3>2. xmpp # <<>>
        BY <3>1, DOMAIN <<>> = {}
      <3> QED
        BY <1>2, <2>1, <3>1, <3>2 DEF Once
    <2>5. CASE Begin
      BY <2>2, <2>5, Begun
    <2> QED
      BY <2>2, <2>3, <2>4, <2>5, SessionSteps
  <1>3. CASE /\ upstream # <<>> /\ upstream' = Tail(upstream) /\ asked' = asked
             /\ Head(upstream).service = "Authentication" /\ map = "login" => OnAuthenticate
             /\ ~LoseXmpp /\ ~OnSessionAuthenticated /\ ~Begin
    <2>1. /\ Head(upstream) = upstream[1] /\ Head(upstream) \in Elements(upstream)
          /\ Elements(upstream') \subseteq Elements(upstream)
          /\ DOMAIN upstream' = 1 .. Len(upstream) - 1
          /\ \A i \in 1 .. Len(upstream) - 1 :
                upstream'[i] = upstream[i + 1] /\ i + 1 \in DOMAIN upstream /\ i + 1 # 1
      <3>1. upstream' \in Seq(Request) /\ Len(upstream') = Len(upstream) - 1
        BY <1>0, <1>3, ElementsTail
      <3> QED
        BY <1>0, <1>3, <3>1, ElementsTail, LenProperties
    <2>2. \A i, j \in DOMAIN upstream' :
             upstream'[i].service = "Authentication" /\ upstream'[j].service = "Authentication"
                => i = j
      <3>1. \A i \in DOMAIN upstream' : i \in Int
        BY <2>1
      <3> QED
        BY <2>1, <3>1 DEF Once
    <2>3. Waiting("Authentication")' => Waiting("Authentication")
      BY <2>1 DEF Waiting
    <2>4. CASE UNCHANGED <<xmpp, session>>
      BY <1>3, <2>2, <2>3, <2>4 DEF Once
    <2>5. CASE OnAuthenticate
      <3>1. Head(upstream).service = "Authentication"
        BY <2>5, Authenticated
      <3>2. Waiting("Authentication")
        BY <2>1, <3>1 DEF Waiting
      <3>3. ~Waiting("Authentication")'
        <4>1. SUFFICES ASSUME NEW i \in DOMAIN upstream', upstream'[i].service = "Authentication"
                       PROVE  FALSE
          BY DEF Waiting, Elements
        <4>2. upstream[i + 1].service = "Authentication" /\ i + 1 \in DOMAIN upstream /\ i + 1 # 1
          BY <2>1, <4>1
        <4>3. 1 \in DOMAIN upstream
          BY <1>0, <2>1
        <4> QED
          BY <2>1, <3>1, <4>2, <4>3 DEF Once
      <3>4. xmpp = <<>> /\ ~(Len(asked) < 3)
        BY <3>2 DEF Once
      <3>5. Len(xmpp') <= 1
        <4>1. xmpp' = xmpp \/ xmpp' = Append(xmpp, [clientId |-> clientId, state |-> "connecting"])
          BY <2>5, Authenticated
        <4>2. <<>> \in Seq(XmppClient) /\ Len(<<>>) = 0
          OBVIOUS
        <4>3. [clientId |-> clientId, state |-> "connecting"] \in XmppClient
          BY DEF TypeOK, XmppClient, XmppState
        <4>4. Len(Append(<<>>, [clientId |-> clientId, state |-> "connecting"])) = 0 + 1
          BY <4>2, <4>3, AppendProperties
        <4>5. Len(xmpp') = 0 \/ Len(xmpp') = 0 + 1
          BY <3>4, <4>1, <4>2, <4>4, Zenon
        <4>6. \A n : n = 0 \/ n = 0 + 1 => n <= 1
          OBVIOUS
        <4> QED
          BY <4>5, <4>6, Zenon
      <3> QED
        BY <1>3, <2>2, <3>3, <3>4, <3>5 DEF Once
    <2> QED
      BY <1>3, <2>4, <2>5, SessionSteps
  <1> QED
    BY <1>1, <1>2, <1>3, UpstreamSteps

\* An orderly messenger sends the packets of the handshake in their order,
\* and nothing before it has its profile.
LEMMA NextHandshake ==
    ASSUME TypeOK, Orderly, Informed, Single, Once, Handshake, [Next]_vars
    PROVE  Handshake'
  <1>1. ASSUME NEW r \in Request, Ask(r) PROVE Handshake'
    <2> DEFINE k == Len(asked)
    <2>1. /\ k \in Nat /\ Len(asked') = k + 1 /\ asked'[k + 1] = r
          /\ \A i \in 1 .. k : asked'[i] = asked[i]
          /\ Elements(upstream') = Elements(upstream) \cup {r} /\ heard' = heard
      BY <1>1, Asked
    <2>2. \/ r.service = "ProtocolSync" /\ k = 0
          \/ r.service = "ChallengeRequest" /\ k = 1 /\ "ProtocolAck" \in heard
          \/ /\ r.service = "Authentication" /\ k = 2 /\ "ChallengeResponse" \in heard
             /\ r.clientId = asked[2].clientId
          \/ r.service = "SessionRequest" /\ k >= 3
      <3>1. InTurn(r)
        BY <1>1, Asked
      <3>2. asked = <<>> => k = 0
        OBVIOUS
      <3>3. r.service = "SessionRequest" => k >= 3
        <4>1. r.service = "SessionRequest" => Introduced
          BY <1>1, Asked DEF Informed
        <4>2. Introduced => session.begun
          BY DEF Introduced, Single
        <4>3. session.begun => ~(k < 3)
          BY DEF Once
        <4> QED
          BY <2>1, <4>1, <4>2, <4>3
      <3> QED
        BY <3>1, <3>2, <3>3 DEF InTurn
    <2> HIDE DEF k
    <2>3. /\ k >= 1 => asked'[1] = asked[1]
          /\ k >= 2 => asked'[2] = asked[2]
          /\ k >= 3 => asked'[3] = asked[3]
      BY <2>1
    <2>4. /\ k >= 1 => asked[1].service = "ProtocolSync"
          /\ k >= 2 => asked[2].service = "ChallengeRequest" /\ "ProtocolAck" \in heard
          /\ k >= 3 => /\ asked[3].service = "Authentication" /\ asked[3].clientId = asked[2].clientId
                       /\ "ChallengeResponse" \in heard
      BY DEF Handshake, k
    <2>5. /\ Len(asked') >= 1 => asked'[1].service = "ProtocolSync"
          /\ Len(asked') >= 2 => asked'[2].service = "ChallengeRequest" /\ "ProtocolAck" \in heard'
          /\ Len(asked') >= 3 =>
                /\ asked'[3].service = "Authentication" /\ asked'[3].clientId = asked'[2].clientId
                /\ "ChallengeResponse" \in heard'
      BY <2>1, <2>2, <2>3, <2>4
    <2>6. ASSUME NEW q \in Elements(upstream')
          PROVE  /\ q.service = "ProtocolSync" => Len(asked') >= 1 /\ q = asked'[1]
                 /\ q.service = "ChallengeRequest" => Len(asked') >= 2 /\ q = asked'[2]
                 /\ q.service = "Authentication" => Len(asked') >= 3 /\ q = asked'[3]
      <3>1. CASE q = r
        BY <2>1, <2>2, <3>1
      <3>2. CASE q \in Elements(upstream)
        <4>1. /\ q.service = "ProtocolSync" => k >= 1 /\ q = asked[1]
              /\ q.service = "ChallengeRequest" => k >= 2 /\ q = asked[2]
              /\ q.service = "Authentication" => k >= 3 /\ q = asked[3]
          BY <3>2 DEF Handshake, k
        <4> QED
          BY <2>1, <2>3, <4>1
      <3> QED
        BY <2>1, <2>6, <3>1, <3>2
    <2> QED
      BY <2>5, <2>6 DEF Handshake
  <1>2. CASE UNCHANGED vars
    BY <1>2 DEF vars, messenger, Handshake
  <1>3. CASE Read
    BY <1>3 DEF Read, Handshake
  <1>4. CASE Handle \/ OnSessionAuthenticated \/ LoseXmpp
    BY <1>4, ThreadFrame DEF Handshake
  <1> QED
    BY <1>1, <1>2, <1>3, <1>4 DEF Next

\* Who writes what an orderly messenger is answered from.
LEMMA Writers ==
    ASSUME [Next]_vars
    PROVE  /\ version' = version \/ OnProtocolSync
           /\ clientId' = clientId \/ OnChallengeRequest
           /\ availability' = availability \/ OnAuthenticate
  <1> USE DEF connection, handler, messenger
  <1>1. CASE UNCHANGED vars
    BY <1>1 DEF vars
  <1>2. CASE \E r \in Request : Ask(r)
    BY <1>2 DEF Ask
  <1>3. CASE Read \/ OnSessionAuthenticated \/ LoseXmpp
    BY <1>3 DEF Read, OnSessionAuthenticated, LoseXmpp
  <1>4. CASE Begin
    BY <1>4 DEF Begin, SetSessionId, SendProfile, SendStatus, SendPing, SetDispatchMap, Step
  <1>5. CASE OnProtocolSync
    BY <1>5 DEF OnProtocolSync
  <1>6. CASE OnChallengeRequest
    BY <1>6 DEF OnChallengeRequest
  <1>7. CASE OnAuthenticate
    BY <1>7 DEF OnAuthenticate
  <1>8. CASE Ignore \/ ServeSession
    BY <1>8 DEF Ignore, ServeSession
  <1> QED
    BY <1>1, <1>2, <1>3, <1>4, <1>5, <1>6, <1>7, <1>8 DEF Next, Handle

\* An answer becomes known when its handler sends it.
LEMMA Learned ==
    ASSUME TypeOK, [Next]_vars
    PROVE  /\ Known("ProtocolAck")' => Known("ProtocolAck") \/ OnProtocolSync
           /\ Known("ChallengeResponse")' => Known("ChallengeResponse") \/ OnChallengeRequest
  <1>1. /\ Unread("ProtocolAck")' => Unread("ProtocolAck") \/ OnProtocolSync
        /\ Unread("ChallengeResponse")' => Unread("ChallengeResponse") \/ OnChallengeRequest
    BY InFlight DEF Unread
  <1>2. \A type \in heard' : Known(type)
    <2>1. CASE Read
      BY <2>1, ElementsTail DEF Read, TypeOK, Known, Unread
    <2>2. CASE UNCHANGED vars \/ \E r \in Request : Ask(r)
      BY <2>2 DEF vars, messenger, Ask, Known
    <2>3. CASE Handle \/ OnSessionAuthenticated \/ LoseXmpp
      BY <2>3, ThreadFrame DEF Known
    <2> QED
      BY <2>1, <2>2, <2>3 DEF Next
  <1> QED
    BY <1>1, <1>2 DEF Known

\* What an orderly messenger sends is answered, and a session built, from
\* the packets of its handshake.
LEMMA NextKept ==
    ASSUME TypeOK, Orderly, Single, Once, Handshake, Kept, [Next]_vars
    PROVE  Kept'
  <1>1. /\ Len(asked) >= 1 => Len(asked') >= 1 /\ asked'[1] = asked[1]
        /\ Len(asked) >= 2 => Len(asked') >= 2 /\ asked'[2] = asked[2]
        /\ Len(asked) >= 3 => Len(asked') >= 3 /\ asked'[3] = asked[3]
    <2>1. CASE \E r \in Request : Ask(r)
      <3>1. PICK r \in Request : Ask(r)
        BY <2>1
      <3>2. /\ Len(asked) \in Nat /\ Len(asked') = Len(asked) + 1
            /\ \A i \in 1 .. Len(asked) : asked'[i] = asked[i]
        BY <3>1, Asked
      <3> QED
        BY <3>2
    <2>2. CASE asked' = asked
      BY <2>2
    <2> QED
      BY <2>1, <2>2, UpstreamSteps
  <1>2. Known("ProtocolAck")' => Len(asked') >= 1 /\ version' = asked'[1].version
    <2>1. CASE OnProtocolSync
      <3>1. Head(upstream) \in Elements(upstream) /\ Head(upstream).service = "ProtocolSync"
        BY <2>1, Dispatched DEF OnProtocolSync
      <3>2. Len(asked) >= 1 /\ Head(upstream) = asked[1]
        BY <3>1 DEF Handshake
      <3>3. version' = Head(upstream).version
        BY <2>1 DEF OnProtocolSync
      <3> QED
        BY <1>1, <3>2, <3>3
    <2>2. CASE version' = version /\ ~OnProtocolSync
      BY <1>1, <2>2, Learned DEF Kept
    <2> QED
      BY <2>1, <2>2, Writers
  <1>3. Known("ChallengeResponse")' => Len(asked') >= 2 /\ clientId' = asked'[2].clientId
    <2>1. CASE OnChallengeRequest
      <3>1. Head(upstream) \in Elements(upstream) /\ Head(upstream).service = "ChallengeRequest"
        BY <2>1, Dispatched DEF OnChallengeRequest
      <3>2. Len(asked) >= 2 /\ Head(upstream) = asked[2]
        BY <3>1 DEF Handshake
      <3>3. clientId' = Head(upstream).clientId
        BY <2>1 DEF OnChallengeRequest
      <3> QED
        BY <1>1, <3>2, <3>3
    <2>2. CASE clientId' = clientId /\ ~OnChallengeRequest
      BY <1>1, <2>2, Learned DEF Kept
    <2> QED
      BY <2>1, <2>2, Writers
  <1>4. CASE OnAuthenticate
    <2>1. /\ Head(upstream) \in Elements(upstream) /\ Head(upstream).service = "Authentication"
          /\ Head(upstream) \in Request
      BY <1>4, Dispatched DEF OnAuthenticate
    <2>2. Len(asked) >= 3 /\ Head(upstream) = asked[3]
      BY <2>1 DEF Handshake
    <2>3. asked' = asked
      BY <1>4, Authenticated
    <2>4. availability' = "Offline" <=> asked'[3].invisible
      <3>1. asked[3].invisible \in BOOLEAN
        BY <2>1, <2>2, RequestFields
      <3>2. availability' = IF asked[3].invisible THEN "Offline" ELSE "Available"
        BY <1>4, <2>2, Authenticated
      <3> QED
        BY <2>3, <3>1, <3>2
    <2>5. clientId = asked[2].clientId
      BY <2>2 DEF Handshake, Kept, Known
    <2>6. xmpp = <<>> /\ ~session.begun
      BY <2>1 DEF Once, Waiting
    <2>7. \A i \in DOMAIN xmpp' : xmpp'[i].clientId = asked'[2].clientId
      <3>1. CASE xmpp' = xmpp
        BY <2>6, <3>1, DOMAIN <<>> = {}
      <3>2. CASE xmpp' = Append(xmpp, [clientId |-> clientId, state |-> "connecting"])
        <4>1. [clientId |-> clientId, state |-> "connecting"] \in XmppClient
          BY DEF TypeOK, XmppClient, XmppState
        <4>2. xmpp \in Seq(XmppClient)
          BY DEF TypeOK
        <4>3. Elements(xmpp') = Elements(xmpp)
                                   \cup {[clientId |-> clientId, state |-> "connecting"]}
          BY <3>2, <4>1, <4>2, ElementsAppend
        <4>4. Elements(xmpp) = {}
          BY <2>6, DOMAIN <<>> = {} DEF Elements
        <4>5. \A i \in DOMAIN xmpp' : xmpp'[i] = [clientId |-> clientId, state |-> "connecting"]
          BY <4>3, <4>4 DEF Elements
        <4> QED
          BY <2>3, <2>5, <4>5
      <3> QED
        BY <1>4, <3>1, <3>2, Authenticated
    <2>8. session'.begun => /\ session'.clientId = clientId /\ session'.availability = availability'
                            /\ BackEnd # "gloox"
      BY <1>4, <2>6, Authenticated
    <2> QED
      BY <1>2, <1>3, <2>2, <2>3, <2>4, <2>5, <2>7, <2>8 DEF Kept
  <1>5. CASE ~OnAuthenticate
    <2>1. availability' = availability
      BY <1>5, Writers
    <2>2. /\ (xmpp # <<>> \/ session.begun)' => xmpp # <<>> \/ session.begun
          /\ DOMAIN xmpp' = DOMAIN xmpp
          /\ \A i \in DOMAIN xmpp : xmpp'[i].clientId = xmpp[i].clientId
          /\ xmpp # <<>> => xmpp' # <<>>
          /\ \/ session' = session
             \/ /\ session'.clientId = clientId /\ session'.availability = availability
                /\ xmpp # <<>>
      <3>0. xmpp \in Seq(XmppClient) /\ (DOMAIN xmpp = {} <=> xmpp = <<>>)
        <4>1. xmpp \in Seq(XmppClient)
          BY DEF TypeOK
        <4>2. DOMAIN xmpp = 1 .. Len(xmpp) /\ Len(xmpp) \in Nat /\ (xmpp = <<>> <=> Len(xmpp) = 0)
          BY <4>1, LenProperties, EmptySeq
        <4>3. \A n \in Nat : 1 .. n = {} <=> n = 0
          <5>1. SUFFICES ASSUME NEW n \in Nat, n # 0 PROVE 1 .. n # {}
            OBVIOUS
          <5>2. 1 \in 1 .. n
            BY <5>1
          <5> QED
            BY <5>2
        <4> QED
          BY <4>1, <4>2, <4>3
      <3>1. CASE UNCHANGED <<map, session, xmpp, running, availability>>
        BY <3>1
      <3>2. CASE OnSessionAuthenticated
        BY <3>0, <3>2, Connected, DOMAIN <<>> = {}
      <3>3. CASE LoseXmpp
        BY <3>0, <3>3, Lost, DOMAIN <<>> = {}
      <3>4. CASE Begin
        BY <3>4, Begun
      <3> QED
        BY <1>5, <3>1, <3>2, <3>3, <3>4, SessionSteps
    <2>3. (xmpp # <<>> \/ session.begun) =>
             Len(asked') >= 3 /\ asked'[3] = asked[3] /\ asked'[2] = asked[2]
             /\ (availability' = "Offline" <=> asked'[3].invisible)
      <3>1. (xmpp # <<>> \/ session.begun) =>
               Len(asked) >= 3 /\ (availability = "Offline" <=> asked[3].invisible)
        BY DEF Kept
      <3>2. Len(asked) >= 3 => Len(asked) >= 2
        <4>1. asked \in Seq(Request)
          BY DEF TypeOK
        <4> QED
          BY <4>1
      <3> QED
        BY <1>1, <2>1, <3>1, <3>2
    <2>4. xmpp # <<>> => clientId = asked[2].clientId
      <3>1. xmpp # <<>> => Len(asked) >= 3
        BY DEF Kept
      <3> QED
        BY <3>1 DEF Handshake, Kept, Known
    <2>5. \A i \in DOMAIN xmpp' : xmpp'[i].clientId = asked'[2].clientId
      BY <2>2, <2>3, DOMAIN <<>> = {} DEF Kept
    <2>6. session'.begun => /\ session'.clientId = asked'[2].clientId
                            /\ session'.availability = "Offline" <=> asked'[3].invisible
                            /\ BackEnd = "gloox" => xmpp' # <<>>
      <3>1. CASE session' = session
        BY <2>2, <2>3, <3>1 DEF Kept
      <3>2. CASE session'.clientId = clientId /\ session'.availability = availability /\ xmpp # <<>>
        BY <2>1, <2>2, <2>3, <2>4, <3>2
      <3> QED
        BY <2>2, <3>1, <3>2
    <2> QED
      BY <1>2, <1>3, <2>2, <2>3, <2>5, <2>6 DEF Kept
  <1> QED
    BY <1>4, <1>5

-----------------------------------------------------------------------------
(* The theorems.                                                           *)

\* The invariant holds before the first packet.
LEMMA InitIInv == Init => IInv
  <1> SUFFICES ASSUME Init PROVE IInv
    OBVIOUS
  <1>1. Elements(<<>>) = {} /\ DOMAIN <<>> = {} /\ Len(<<>>) = 0
    BY DOMAIN <<>> = {} DEF Elements
  <1>2. /\ Elements(downstream) = {} /\ Elements(upstream) = {} /\ DOMAIN upstream = {}
        /\ DOMAIN xmpp = {} /\ Len(xmpp) = 0 /\ Len(asked) = 0 /\ xmpp = <<>>
        /\ heard = {} /\ map = "login" /\ running = "idle" /\ ~session.begun
    BY <1>1 DEF Init, NoSession
  <1>3. Single
    BY <1>2 DEF Single
  <1>4. Stamped
    BY <1>2 DEF Stamped
  <1>5. Once
    BY <1>2 DEF Once, Waiting
  <1>6. Handshake
    BY <1>2 DEF Handshake
  <1>7. Kept
    BY <1>2 DEF Kept, Known, Unread
  <1> QED
    BY <1>3, <1>4, <1>5, <1>6, <1>7, InitTypes, InitInformed DEF IInv

\* And every step keeps it.
LEMMA NextIInv ==
    ASSUME IInv, [Next]_vars
    PROVE  IInv'
  <1>1. TypeOK' /\ Informed'
    BY NextTypes, NextInformed DEF IInv
  <1>2. ASSUME OneLogin PROVE Single' /\ Stamped'
    BY <1>2, NextSingle, NextStamped DEF IInv
  <1>3. ASSUME Orderly PROVE Once' /\ Handshake' /\ Kept'
    <2>1. OneLogin
      BY <1>3 DEF OneLogin
    <2> QED
      BY <1>3, <2>1, NextOnce, NextHandshake, NextKept DEF IInv
  <1>4. OneLogin' <=> OneLogin
    BY DEF OneLogin
  <1> QED
    BY <1>1, <1>2, <1>3, <1>4 DEF IInv

\* The invariant holds in every state.
LEMMA LoginInvariant == Spec => []IInv
  BY InitIInv, NextIInv, PTL DEF Spec

\* No packet of a session carries what the connection held before
\* BeginSession drew the session's id, and none outlives its id or version.
THEOREM SessionPacketsStamped == Spec => []SessionPacketsAreStamped
  <1>1. IInv => SessionPacketsAreStamped
    <2>1. SUFFICES ASSUME IInv, OneLogin, NEW i \in DOMAIN downstream,
                          downstream[i].type \in SessionPacketType
                   PROVE  /\ downstream[i].sessionId = sessionId /\ sessionId # Leftover
                          /\ downstream[i].version = version
      BY DEF SessionPacketsAreStamped
    <2>2. downstream[i] \in Elements(downstream)
      BY DEF Elements
    <2>3. Introduced /\ downstream[i].sessionId = sessionId /\ downstream[i].version = version
      BY <2>1, <2>2 DEF IInv, Stamped
    <2>4. sessionId # Leftover
      BY <2>1, <2>3 DEF IInv, Stamped, Introduced
    <2> QED
      BY <2>3, <2>4
  <1> QED
    BY <1>1, LoginInvariant, PTL

\* SetDispatchMap takes the login's handlers away before they can build a
\* second session.
THEOREM OneSessionPerConnection == Spec => OneSession
  <1>1. IInv /\ [Next]_vars => [session.begun /\ OneLogin => session' = session]_vars
    <2>1. SUFFICES ASSUME IInv, [Next]_vars, session.begun, OneLogin PROVE session' = session
      OBVIOUS
    <2>2. CASE UNCHANGED <<map, session, xmpp, running, availability>>
      BY <2>2
    <2>3. CASE OnAuthenticate
      BY <2>1, <2>3, Authenticated DEF IInv, Single
    <2>4. CASE OnSessionAuthenticated
      BY <2>1, <2>4, Connected DEF IInv, Single
    <2>5. CASE LoseXmpp
      BY <2>1, <2>5, Lost DEF IInv
    <2>6. CASE Begin
      BY <2>6, Begun
    <2> QED
      BY <2>1, <2>2, <2>3, <2>4, <2>5, <2>6, SessionSteps
  <1> QED
    BY <1>1, LoginInvariant, PTL DEF Spec, OneSession

\* The session that BeginSession builds is the one the handshake asked for.
THEOREM OrderlyGetsIt == Spec => []OrderlyGetsItsSession
  <1>1. IInv => OrderlyGetsItsSession
    <2>1. SUFFICES ASSUME IInv, Orderly, session.begun
                   PROVE  /\ version = asked[1].version
                          /\ session.clientId = asked[2].clientId
                          /\ session.availability = "Offline" <=> asked[3].invisible
                          /\ BackEnd = "gloox" => session.clientId = xmpp[1].clientId
      BY DEF OrderlyGetsItsSession
    <2>2. Handshake /\ Kept
      BY <2>1 DEF IInv
    <2>3. Len(asked) >= 2
      <3>1. Len(asked) >= 3
        BY <2>1, <2>2 DEF Kept
      <3>2. asked \in Seq(Request)
        BY <2>1 DEF IInv, TypeOK
      <3> QED
        BY <3>1, <3>2
    <2>4. version = asked[1].version
      BY <2>2, <2>3 DEF Handshake, Kept, Known
    <2>5. xmpp # <<>> => xmpp[1].clientId = asked[2].clientId
      <3>1. xmpp \in Seq(XmppClient)
        BY <2>1 DEF IInv, TypeOK
      <3>2. xmpp # <<>> => 1 \in DOMAIN xmpp
        BY <3>1
      <3> QED
        BY <2>2, <3>2 DEF Kept
    <2> QED
      BY <2>1, <2>2, <2>4, <2>5 DEF Kept
  <1> QED
    BY <1>1, LoginInvariant, PTL

=============================================================================
