# Giblet in TLA+

Giblet is a server for Yahoo! Messenger clients of the 5.x era, with the tools to make an unmodified
client talk to it: a launcher and a patch DLL that redirect the client's connections, an engine for
hooking functions of the running client, web servers for the pages the client shows, and the YMSG server
itself, with a mock back end and one that bridges to XMPP through gloox.

This directory holds TLA+ models of the server's core, the TLC configurations that check them on small
instances, and theorems about them that TLAPS has proved for every instance.

## 1. The system

### 1.1 Components, state and operations

| Component | Source | State | Operations | What makes it correct |
|---|---|---|---|---|
| Byte stream and pump | `ProtocolStream.cpp`, `ConnectionPump.cpp` | `data_`, the map of attached sockets | poll, read, cut one packet, drop a socket | packets reach the dispatcher whole, once, in order; a socket that ended leaves the map |
| Login | `AuthenticationHandler.cpp` (YMsg, YMsgMock, Gloox), `ClientConnection.cpp` | `clientId_`, `initialAvailability_`, the connection's `sessionId_` and `protocolVersion_` | sync, challenge, authenticate, begin the session | the session is the one asked for; its packets are stamped with its id; exactly one session |
| Session and dispatch | `SessionContext.cpp`, `PacketDispatcher.cpp`, `DispatchMaps.cpp` | the dispatch map | begin, dispatch by service, change the map | profile before status; no request of an informed messenger is lost in the change of maps |
| Contact list | `ContactManager.cpp`, `ContactManagementEvents.cpp`, `ContactManagementLink.cpp` | id → group, state, status | add, remove, rename a group, deny | the messenger's list is a replica that only lags |
| Blocked list | `BlockedContactManager.cpp`, its events and link | a set of ids | block, unblock | the same; blocked strangers cannot be added |
| Presence | `PresenceManager.cpp`, `PresenceEvents.cpp`, `PresenceManagementLink.cpp` | `PresenceProperties`, and the status fields of each contact | available, away, custom, idle, invisible | both places agree; invisible is never shown; shown statuses only lag |
| Profiles | `ProfileManager.cpp`, its events and link | the profile ids, fixed at login | activate, deactivate, refresh | unknown ids are refused |
| Messages and chat | `Processors/*Message*`, `Chat*`, `ServiceOperation` | none | fixed replies | — |
| Packet codec | `Parser.cpp`, `Builder.cpp`, `Payloads/` | the buffer of a packet | append, send, parse | what was built is what is parsed; sizes fit their field |
| XMPP bridge | `GlooxXMPPBridgeLibrary` | the handler's XMPP clients, the presence handler | connect, begin the session with the roster, pass on presence | the session begins once, for the account that logged in; a contact is shown as its last presence says |
| gloox client (vendored) | `client.cpp`, `clientbase.cpp`, `connectiontcp*.cpp`, `nonsaslauth.cpp`, `rostermanager.cpp` | its state in the XMPP login, the handlers that wait for an answer, its socket | stream, TLS, SASL and non-SASL login, resource, session, roster, hanging up | no session without the server's acceptance; no password in clear where TLS was offered |
| Process | `TestHarness.cpp` | threads | listen, one thread a session, HTTP thread | one session's failure is its own |
| Web servers | `YahooWeb` | host → handler | look up, serve | every host gets its handler |
| Code hooks, patch, launcher | `CodeHook`, `YIMPatch`, `Launcher` | the code of the hooked function, the thunk, page protection | relocate, lock, install, redirect | a hooked function behaves as before, or is left alone |
| mongoose | vendored | — | — | — |

### 1.2 How they interact

`YMSGListenerThread` starts a detached thread for each messenger. That thread owns everything of its
session: a `ClientConnection`, a `PacketDispatcher`, a `ProtocolStream` and a `ConnectionPump` whose
`Pump` is the thread's loop. The pump polls the sockets attached to it and calls back `ProcessPendingData`,
which cuts a packet out of the bytes and calls `PacketDispatcher::Dispatch`; that calls the handler the
current dispatch map has for the service. Handlers call a *link* (the back end), the link calls *events*,
events change a *manager* and send packets to the messenger, all before the handler returns. So within a
session nothing runs concurrently. What is concurrent is the messenger: its requests and the server's
packets cross on the wire, a chain of several packets is read one by one, and the bytes are cut wherever TCP
likes. With the gloox back end the XMPP socket is a second socket of the same pump, attached by a handler while
the pump is walking over the sockets; gloox handles the elements of a read, and answers them, inside the callback of
that socket, and from there begins the session or passes presence on to the session's managers.

The messenger itself is patched: the launcher starts it suspended and injects a DLL whose `DllMain` hooks functions of
Windows, so that the messenger's connections go to this server. Only then does the messenger run.

No one catches an exception on a session thread. One that leaves a handler ends the process, and all other
sessions with it. Every module has this as a state (`process = "terminated"`, `pump = "terminated"`). One
source of such exceptions is behind every reply: `Builder::Append` and `Builder::Send` throw for a packet of 64K and more.

### 1.3 Where it is hard

* Replication by a mixture of snapshots (`ClientProfile`) and increments (`ContactRemoved`,
  `ContactBlocked`, `ContactStatus`, ...) that cross with requests.
* The user's status is kept twice and applied to those of its own profiles that happen to be contacts.
* Refusals that throw, and links that rely on it (`BlockedContactManagementLink.cpp:47`).
* A stream that dispatches one packet a read.
* A session that begins inside a handler of the login, and before its dispatch map is in place.
* With gloox, a session that begins later, from the fields the login's handlers may have changed since.
* An XMPP client that hangs up inside its own `recv`, and a pump that is not told.
* Presence that arrives for a contact list the messenger has edited meanwhile.
* Code that is moved: each displaced instruction must reach what it reached before, and every step of the installer
  may fail, or, like the second half of `Unlock`, fail without anybody being told.
* Decoders that take more, or something else, than what was meant: `strtol` and `atoi` on the text of a packet, opcode tables with a
  wrong length, an iteration count that nobody checks.

`PROJECT.json` lists every hazard at its line with the properties that cover it.

## 2. The modules

```
YMsgChannel   <-- refined by --  YMsgStream        bytes, pump, packets
XmppLink      <-- refined by --  XmppClient        the pump with two sockets, gloox's login
   ^ its states are those of the XMPP clients in
                                 YMsgLogin         handshake, back ends, change of maps
                                 YMsgSession       the session's dispatch map and managers
YMsgSession   <-- extended by -- YMsgBridge        the same session, with presence from XMPP
                                 YMsgCodec         a packet's payload as bytes, both ways
FunctionCall  <-- refined by --  CodeHook          installing a hook, and calls through it
MachineCode                      instructions, what the two are about
MCYMsgStream, MCYMsgLogin, MCYMsgSession, MCYMsgCodec,
MCXmppClient, MCYMsgBridge, MCCodeHook                                instances for TLC
YMsgSessionProofs <- YMsgSessionStatusProofs                                theorems of YMsgSession
   ^ its lemmas carry over to    YMsgBridgeProofs                           theorems of YMsgBridge
YMsgStreamProofs, YMsgLoginProofs, YMsgCodecProofs, XmppClientProofs,
CodeHookProofs                                                              theorems of these modules
```

`YMsgStream`, `YMsgLogin` and `YMsgSession` cover a connection from its bytes to its handlers. `YMsgSession` takes
requests from a FIFO queue `upstream`: that the bytes of the connection really are such a queue of whole
packets is what `YMsgStream` shows by refining `YMsgChannel`. `YMsgSession` starts with the session
begun and its dispatch map installed: that it is reached in this order is `YMsgLogin`'s part. The handlers
of the session appear in `YMsgLogin` only as `ServeSession`. The packets of these modules are decoded ones:
that a packet's fields survive the encoding is what `YMsgCodec` checks.

With gloox, `YMsgLogin` knows of an XMPP client only the states of `XmppLink`: that gloox's client on the session's pump
never does anything else is the refinement `IsLink` of `XmppClient`. `YMsgBridge` composes the session that
begins there with the presence that arrives on the XMPP socket: one thread, two queues, one contact list.

### 2.1 YMsgSession

| Variable | Code |
|---|---|
| `contacts` | `ContactManager::contacts_`, `Absent` for an id that is not in it |
| `blocked` | `BlockedContactManager::contacts_` |
| `presence` | `MockPresenceManagementLink::properties_` |
| `process` | whether an exception has left the session thread: `"terminated"` by a handler's, `"outgrown"` by the Builder's |
| `upstream`, `downstream` | the two directions of the connection, in packets |
| `picture` | what the messenger holds: list, ignore list, statuses |

Each service of `DispatchMaps::V11` is one action that is the whole handler: guards of the link, change of
the managers, all packets, in the order sent. `AddContact`, for instance, is
`MockContactManagementLink::AddContact` with its refusals and `OnAddRequestPending`, whose packets are the
result, the refreshed profile and, in the mock, the request back. A service that is not in the map is
`UnknownService`. `Reply` sends a handler's packets (`Sends`) or, as long as they are not all made of constants (`HasFixedSize`), ends the
process at one of them (`Outgrows`): the lengths of ids, names and texts, and so the size of a profile, are left out, and any packet that holds
some may be the one that is too large. The packets before it have been sent by then, and the managers may have been changed already, which nobody can see
any more. So the replicas below are promised while the process is not `"outgrown"`. The messenger is `Ask` (sends a request), `Read` (takes over one packet); it is external, modelled
from what the server's packets mean. `Careful` makes it wait for all its packets and ask only what its
picture allows.

Abstractions: ids, groups and messages are members of small sets. Of a contact's status the availability, the busy flag
and the custom message are kept; `idleUnknown` and the uninitialised `isInChat` are not. Login ids do not
hold the punctuation that makes `MockSessionContext::BeginSession` send canned packets. Messages, typing
notifications and chat replies carry a kind and a contact.

### 2.2 YMsgStream and YMsgChannel

`stream` and `ends` are history (the bytes sent and where packets end). The bytes move from `wire` to `socket`
(`Arrive`, any prefix) to `data`, which is `ProtocolStream::data_`. `pump` is where the session thread is: in
`select`, inside the callback with `incoming` as FIONREAD announced it, back from `Pump`, or dead. The
callback is `ProcessPendingData` with `HasHeader`, `HasPacket`, `Consume`. `CloseSocket` and `FailReceive`
are its two early returns, after which the pump erases the socket. `Close` and `Reset` of the other end may come between
any two steps; a reset loses what is in flight. A handler that throws leaves the packet in `data_`, as in the code.

A byte is a record of the packet it was sent in, its place there and its value, which matters only in the
size field. The two bytes of the size are one cell.

`YMsgChannel` is the promise: the packets sent are dispatched whole, once, in order, up to a point.

### 2.3 YMsgLogin

The login's dispatch map has three handlers, one action each. `OnAuthenticate` starts the session with the
mock back end (`BeginMockSession`) or an XMPP connection with gloox (`ConnectXmpp`, which may throw);
`OnSessionAuthenticated` is gloox's callback when it is up; the other steps of `XmppLink` (refused, dead, lost) end the
attempt. The rest of
the handler that begins a session is split into its sends (`SetSessionId`, `SendProfile`, `SendStatus`,
`SendPing`, `SetDispatchMap`), because the messenger can read and answer between them; `running` is the step
the thread is at, and no other handler runs meanwhile. `sessionId` and `version` hold `Leftover` until they are
set, because `ClientConnection` does not initialise them.

### 2.4 XmppClient and XmppLink

| Variable | Code |
|---|---|
| `attached`, `ready`, `pump`, `run` | `ConnectionPump::onDateCallbacks_`, the sockets `select` reported and the walk has not visited, where the thread is, the loop's condition |
| `client` | gloox's `ClientBase` and `Client`: connected, encrypted, authenticated, the resource, the features of the stream, the mechanism, the signature expected of the server, and the IQs that wait for an answer |
| `handle` | what the socket handle the pump holds stands for |
| `elements` | what the `recv` under way has read and not handled |
| `fromServer`, `toServer`, `line`, `server` | the XMPP server (external) and the connection to it |
| `messenger`, `request`, `tried` | the messenger's socket on the same pump |
| `sessions`, `refused`, `exposed` | history |

`Select` takes a snapshot of the sockets; the walk visits each. `Authentication` runs gloox's `connect(false)` inside the
messenger's callback and attaches the second socket, which is not in the snapshot. `Recv` moves some of the server's elements to
`elements`, and each `OnElement` disjunct is the handler of one: the stream's header and features, `proceed` and the TLS
handshake, challenge, success and failure of SASL, the answers of the IQs by their context, presence, requests, the end of the stream. A
send that fails makes gloox hang up inside it (`Send`); the handler goes on, as the code does. `Reuse` is another
thread of the process opening a socket that is given the number gloox has closed.

The server is external and may answer anything a server may: refuse at every step, offer features that do not fit,
claim success without knowing the password (`"forged"`), send elements unasked, end the stream, close or reset the line.

A challenge is of a `Kind`: `"proper"`; `"uncounted"`, with the iteration count 0 that `processSASLChallenge` does not refuse; or `"lacking"`,
without the nonce, salt or count it should have. gloox answers a DIGEST-MD5 challenge without a nonce with nothing at all, so that login ends there and nobody is told
(`XmppLink`'s refusal), and a SCRAM challenge that lacks something with an empty response, and leaves the signature it has computed as it was. A success has a
`Signature`. gloox compares it with what it has computed: from the password (`"secret"`), or from no rounds of hashing, which anybody can do
(`"open"`). A server that does not know the password cannot send the first; it can send the second, and then the session begins.
An XML stream's elements stand for its bytes. The private-XML request `OnRoster` also sends is left out, as nothing
waits for it; so are the branches of `Client::handleNormalNode` for a login without a node or a password, because
the bridge always has both. One run of the module has one Authentication packet, so one client.

### 2.5 YMsgBridge

It extends `YMsgSession` with `stanzas` (presence read by the XMPP client, not handled) and two history variables.
`Publish` is the XMPP server, `HandlePresence` is `PresenceHandler::handlePresence` with the event it chooses and what
`PresenceEvents` does to the contact and sends: the text before the state, five shows on four statuses, offline for the rest, an
exception for an id that is not in the list. A stanza comes from a full id. The roster is loaded under the ids as the server
spells them (`jidJID().full()`), presence is looked up under `Bare` of the sender (`Sender`); an item with a resource is therefore in the list and never found, and its
presence throws. The back end is that of `GlooxXMPPBridgeLibrary`: no profiles, roster items
that each have one group. Its other links are those of the mock, so `Handle` is the session's. Left out are the request for a notification and its two-second rule, which the messenger alone acts on.

### 2.6 CodeHook, FunctionCall and MachineCode

| Variable | Code |
|---|---|
| `memory` | the instructions of the function and of the thunk, at their addresses |
| `step`, `status`, `total` | where `InstallHook` is, its `HOOK_ERROR`, and how much `RelocateCode` has copied |
| `redirect`, `thunkFunction` | the pointer the jump goes through, and what the proxy calls |
| `protection` | of the page of the hook (`proc`), of those behind it that `VirtualQuery` reports as one region with it (`rest`), of the `thunk` |
| `unrestored` | history: the pages whose protection was never put back |
| `pc`, `did` | a thread of the messenger: where it is and what it last did |

Each call that may fail is a step of the installer of its own: resolve, allocate, lock the thunk, relocate an instruction, jump back, lock
the function, jump to the proxy, unlock, protect the thunk (`Finish`). An instruction is its kind, its size, the size the opcode tables give it (`decoded`) and its relative operand of one byte or four, with
the arithmetic of the code (`Relocate`, modulo the width). Afterwards a thread calls the function, goes through
the proxy, the thunk and the rest of the function, and faults where there is no instruction or no right to execute.

`Unlock` runs in a destructor that ignores its result. It asks `VirtualQuery` for the region once more, and a page that was written meanwhile may no longer be one
region with its neighbours (a copy of its own has been made of it), so `Unlock` may put back all pages, only the written one, or none. `InstallHook` reports success in each case. The last `VirtualAlloc` makes good
what is wrong with the thunk, if it succeeds, and it too is not checked. `Lost` says that the messenger runs with pages nobody may execute.

`FunctionCall` is what a caller relies on: the proxy may run first, then the function's own instructions with their own
targets. Only after `Lose` may a thread `Crash`, and `Lost` is what that is mapped to: in every other failure of the installer nothing is lost.

`HookAssumption` names what the code relies on and does not test: the function is code (`IsCode`: its instructions lie one
behind the other and lead to each other or out of it, and the buffer is elsewhere), no displaced instruction has an operand of one
byte, nothing jumps back among the displaced ones, and the opcode tables have the processor's length for those displaced instructions they hold (`Hookable`).
The last is not so for every instruction there is. The tables give AND and XOR with an operand of four bytes one of one byte (`81 /4`, `81 /6`, `cpuIA32_Tables.cpp:397`, `:611`), give the multiplication
of one operand (`F6 /5`, `F7 /5`, `:373-374`) an operand it does not have, and pass over the prefix `66`. A function whose first six bytes hold one of these is cut inside an
instruction; the decoder is not modelled further, as an instruction is in the tables, with its length there, or is `"unknown"`.

Not in the model: pages behind the region that `Unlock` could change although `Lock` did not; code of the installer that itself lies on a page it has locked; a processor or a setting
that lets pages without the right be executed (there `Lose` never comes true, and `Crash` never happens).

### 2.7 YMsgCodec

| Variable | Code |
|---|---|
| `payload`, `start` | the range given to `PacketParser::Parse` and the loop's `start` |
| `fields` | the members of `Payloads::PrivateMessage`; `encoding` holds any of `Leftovers` until a pair sets it |
| `relayed` | the arguments of `Builders::PrivateMessage::Build` |
| `appended`, `buffer` | how far `Build` has come, and `Builder::buffer_` behind the header |
| `size` | the payload size in the header that was sent |
| `status` | where the message is; `terminated` when `Parse`, `Append` or `Send` has thrown, or `atoi` was given no address |

`ParsePair` is one round of the loop of `Parse`, with `FindTerminator` for the key and the value and `OnKeyPair` of the
message; `AppendPair` is one `Append`, `Send` fills in the size. A private message is the packet
modelled because the server sends back every field it takes from it, so the parser and the builder meet.
The recipient is external and reads with the same actions. Every value is text on the wire (`ToString`, `Number`). `Number` is what `strtol` does for a key and `atoi` for a value: blanks are skipped, a sign
is taken, digits are read as far as they go, and what no `int` can hold becomes the nearest one (`Clamp`; on Windows the two have the same range). So the key ` 97` is a key, and an encoding may be negative.
`atoi` is given the address of a value and no length, so a value that nothing ends is read on into whatever is
behind the payload (`Encodings`).

## 3. What is checked

| Run | Question | Bounds |
|---|---|---|
| `session_lists` | `ContactListReplicated`, `BlockedListReplicated`, `BlockedStrangersStayOut`, types, under adds, removes, renames, blocks and unblocks | 2 requests and 2 packets queued before a handler starts, 6 ids, 2 groups; any reply may be too large |
| `session_status` | `StatusReplicated`, `OwnContactsFollowPresence`, `InvisibleNeverShown`, `StatusOnlyForListed`, `Converges` | same, 2 messages, own profiles removed and added |
| `session_careful` | `CarefulMessengerIsSafe` and `Converges`, with every service of the map | 1 and 1: a careful messenger never has more |
| `stream_channel` | `IsChannel`, `BacklogOnlyFromSurplus`, `PatientIsServed`, `GoneIsDetached`, types | 3 packets of 3 or 5 bytes, header of 3 with the size in the middle |
| `login_mock` | `SessionPacketsAreStamped`, `InformedRequestsAreServed`, `OneSession`, types | 4 packets sent in any order, 2 packets unread when a handler starts |
| `login_gloox` | `OrderlyGetsItsSession`, `LoginCompletes` | 5 packets sent in order |
| `codec` | `RelayIsFaithful`, `ParserAdvances`, `ReplyIsReadable`, types | every string of up to 5 bytes of either of two alphabets of 5, the numbers at the bounds, and the private messages of `Messages`; a packet of less than 44 bytes; `MaxInt` 127 |
| `xmpp_session` | `IsLink`, `SessionNeedsAcceptance`, `NoSecretInClear`, `SessionHasAskedForRoster`, `MessengerIsServed`, `LineLossDetaches`, `LoginEnds`, types | 10 sets of features, three kinds of challenge, one element unasked, and that only with none unread |
| `bridge` | `StatusReplicated`, `ShownIsPublished`, `OnlyStrangersEndIt`, `BridgeConverges`, types | a roster of one, one with a resource, and the user; 6 presences, 2 stanzas and 2 packets queued |
| `hook` | `IsFunctionCall` | every hookable function of three instructions out of 16 shapes and a return, one of which the tables have wrong; each call of the installer may fail; real sizes of hook and thunk |
| `xmpp_recv`, `bridge_leaving` | findings, see section 6 | as `xmpp_session` and `bridge` |

Why the bounds are enough. A replica that goes wrong goes wrong on one id, and the ids of an instance are
one for each role an id can have: the login id, a profile in the list, a profile not in it, a friend, a blocked
stranger, an id that does not exist. Two queued requests are the least that let one be decided on a state
the messenger did not know; two or three queued packets leave room for a snapshot behind an increment of the
request before it, and a handler may add three more. Every state of the managers these requests can reach is
reached, because the number of requests is not bounded. In the stream, three packets let a read hold the tail of one, a
whole one and the head of another, and payloads of 0 and 2 bytes put a packet's end on its header's end and
behind it. In the login, four packets are an authentication, a request from a messenger that has its
profile, a second authentication and one more of any kind; the two values of each field tell an old one from a new one.
In the codec the five bytes of one alphabet are the two of a terminator, null, a digit that is a key and a letter, and those of the other a blank and a sign instead of the null and the letter: a string of
five has room for a key, a terminator and a value that begins or ends like half of one, or for a number written oddly. `MaxInt` is small so that numbers beyond it are short. The limit of 44 bytes
lies among the sizes of the relayed messages, so some fit, some fail in `Append` and some only in `Send`.
The XMPP client needs no more than one element ahead of the answer it waits for: what it does with an element depends on its own
state, and every order of two is reached by an unasked one before an asked one. The feature sets are a server with TLS and without, one for
each mechanism the client prefers, one with none it knows, an empty one and the two that follow a login. In the bridge one contact has every
role in turn (in the roster, removed, added again) and the user is the one who is known to XMPP and not to the list.
A hook displaces six bytes: three instructions are the least in which one lies wholly behind them, one straddles their end, and the
displaced ones can be one, two or three. Some of the functions end on the page the hook is on and some reach into the next.

Deadlock is off in all of them: a messenger that has nothing more to ask, or an exception that ends the process, is a proper end.

Fairness. `Handle` (session), `Pump` (stream, XMPP client) and `Handle` (login) are weakly fair because the session thread
loops over `select` with a timeout for ever. `Read` is weakly fair because the messenger polls its socket, and
`Arrive` because TCP retransmits. In the login an XMPP attempt ends in a session, a refusal (also an answer that leads nowhere and that nobody is told of) or the loss of the
connection, one of which happens in the end: that is `LoginEnds`, checked of `XmppClient`. There the server, or the line, is fair: what the
client sent is answered or the connection goes. In the bridge the pump visits every ready socket in each round, so
the handling of requests and that of presence are fair separately. Nothing makes a messenger send, close or log in, or a contact publish. `Converges` and `BridgeConverges` speak of
behaviours in which the requests and the stanzas stop.
`Handle` of the session is fair for every packet in its queue; that is the session's view. Two packets that arrive in one read do not get that from
`ProcessPendingData`, which leaves the second undispatched until more bytes come. `PatientIsServed` says at the level of bytes whom this
does not concern (its premise is a messenger that waits), and `BacklogOnlyFromSurplus` that nothing else delays a packet.

## 4. What is proved

All proofs are for every value of the constants that satisfies the named assumptions
(`SessionAssumption`, `RequestsAssumption`, `StreamAssumption`, `LoginAssumption`, `CodecAssumption`, `ClientAssumption`,
`BridgeAssumption`, `HookAssumption`). But for the last they only say what kind of thing each
constant is and that the exceptional values differ from the proper ones, and that the largest key is an `int`; what `HookAssumption` asks of a function is said in 2.6.

| Theorem | Module | States |
|---|---|---|
| `TypeCorrect` | `YMsgSessionProofs` | `Spec => []TypeOK` |
| `ContactListIsReplicated` | `YMsgSessionProofs` | `[]ContactListReplicated` |
| `BlockedListIsReplicated` | `YMsgSessionProofs` | `[]BlockedListReplicated` |
| `StatusIsReplicated` | `YMsgSessionStatusProofs` | `[]StatusReplicated` |
| `OwnContactsAlwaysFollow` | `YMsgSessionStatusProofs` | `[]OwnContactsFollowPresence` |
| `StatusAlwaysForListed` | `YMsgSessionStatusProofs` | `[]StatusOnlyForListed` |
| `InvisibleIsNeverShown` | `YMsgSessionStatusProofs` | `[]InvisibleNeverShown` |
| `BlockedStrangersAlwaysStayOut` | `YMsgSessionStatusProofs` | the action property |
| `CarefulMessengerIsAlwaysSafe` | `YMsgSessionStatusProofs` | `[]CarefulMessengerIsSafe` |
| `StreamTypeCorrect` | `YMsgStreamProofs` | `Spec => []TypeOK` |
| `StreamIsChannel` | `YMsgStreamProofs` | `Spec => IsChannel`, the refinement |
| `BacklogAlwaysFromSurplus` | `YMsgStreamProofs` | `[]BacklogOnlyFromSurplus` |
| `LoginTypeCorrect` | `YMsgLoginProofs` | `Spec => []TypeOK` |
| `InformedIsServed` | `YMsgLoginProofs` | `[]InformedRequestsAreServed` |
| `SessionPacketsStamped` | `YMsgLoginProofs` | `[]SessionPacketsAreStamped` |
| `OneSessionPerConnection` | `YMsgLoginProofs` | the action property |
| `OrderlyGetsIt` | `YMsgLoginProofs` | `[]OrderlyGetsItsSession` |
| `CodecTypeCorrect` | `YMsgCodecProofs` | `Spec => []TypeOK` |
| `NumberOfToString` | `YMsgCodecProofs` | `Number(ToString(n)) = n` for every `int` |
| `CodecParserAdvances` | `YMsgCodecProofs` | the action property `ParserAdvances` |
| `WhatIsReadWasSent` | `YMsgCodecProofs` | `[]RelayIsFaithful` |
| `EveryReplyIsReadable` | `YMsgCodecProofs` | the action property `ReplyIsReadable` |
| `ClientTypeCorrect` | `XmppClientProofs` | `Spec => []TypeOK` |
| `AcceptanceNeeded` | `XmppClientProofs` | `[]SessionNeedsAcceptance` |
| `SecretKept` | `XmppClientProofs` | `[]NoSecretInClear` |
| `ClientIsLink` | `XmppClientProofs` | `Spec => IsLink`, the refinement |
| `RosterIsAsked` | `XmppClientProofs` | the action property `SessionHasAskedForRoster` |
| `BridgeTypeCorrect` | `YMsgBridgeProofs` | `BridgeSpec => []BridgeTypeOK` |
| `BridgeContactListIsReplicated`, `BridgeBlockedListIsReplicated`, `BridgeStatusIsReplicated` | `YMsgBridgeProofs` | the three of the session, with presence |
| `ShownIsAlwaysPublished` | `YMsgBridgeProofs` | `[]ShownIsPublished` |
| `OnlyStrangersEverEndIt` | `YMsgBridgeProofs` | `[]OnlyStrangersEndIt` |
| `HookIsComplete` | `CodeHookProofs` | `Spec => []HookInv`, the invariant of the installer |
| `HookedIsFunctionCall` | `CodeHookProofs` | `Spec => IsFunctionCall`, the refinement |

**The session.** `TypeCorrect` is inductive as it stands. On it rests `HandlerSteps`
(`YMsgSessionProofs`): whatever handler runs, it does one of a few things (add, remove, rename, block,
unblock, change of the user's status, refresh, or nothing but quiet packets), and its packets are known one by one. The
three replication theorems are then one argument about queues, stated once as `Caught`: either no packet
in the queue is about the fact and the reader's copy is right, or the last one that is about it tells the
truth. Reading the head keeps that (`CaughtTail`), sending quiet packets keeps it (`CaughtQuiet`), and sending
the truth last restores it whatever it was (`CaughtTruth`). The invariants are inductive relative to
`TypeOK`. `StatusOnlyForListed` is about the head of the queue and is strengthened to every place in it (`AllCovered`: between the profile that lists a
contact and a status of it no packet takes it off the list); that a status is sent of contacts only, and `ContactListReplicated`, do the rest. `CarefulMessengerIsSafe` is not: its strengthening says that a careful messenger has at most one
request in flight, sent when nothing else was, and sensible for its picture; by
`BlockedListReplicated` with empty queues that picture is the server's. Three kinds of request can end the process by a handler's own exception: blocking what is blocked
(or unblocking what is not), a profile id that is none, and a busy state that `SetAway` cannot read as a number, which it tries for
every status but the invisible one.

**The stream.** The invariant is conservation: while the connection holds, `data \o socket \o wire` is what
`stream` has behind the packets dispatched (`Conserved`), the stream is packets laid end to end with their
size in the header (`Layout`), and what was dispatched is a prefix of them (`InOrder`). The lemma `NextPacket`
concludes that what `HasPacket` accepts is exactly the next packet, from which each read is a `Dispatch` of the
channel or a stutter. That the cell at `SizeAt` is always a size field, and never payload, is the
conclusion of the argument, not an assumption. `BacklogOnlyFromSurplus` needs in addition that every byte of `stream` says which packet it
belongs to (`Labelled`, `Ordered`), so that the bytes that complete a packet can be counted: joining bytes adds their counts (`EndingsConcat`), erasing a packet takes one away
(`EndingsDrop`), what `HasPacket` accepts ends with such a byte (`PacketEnds`), and what it rejects has none (`NothingEnds`).

**The login.** None of its properties is inductive; the invariant `IInv` has a part for each. `Informed`: once the
profile is on its way, the handler that sent it has not ended or the map is in place (`Introduced`), so
the next packet to be dispatched meets the session's map. `Single`: between the begin of the session and
the change of maps the thread is inside the handler, so no Authentication packet is dispatched; with gloox this needs that a single
client was connecting. `Stamped`: packets of the session are in flight only after its id was drawn, and
the fields change only before. For an orderly messenger `Once` and `Handshake` say that what waits in the queue is the
first, second or third packet it sent, and `Kept` that what is answered is kept: the handler's fields
are those of the handshake from then on, also when the call back from XMPP reads them much later.
`Handshake` in turn needs `Informed` and `Single`: a request of the session cannot come between, for it is
sent only after the profile.

**The codec.** The run takes every short string of five bytes; the theorems take every payload, every size limit and whatever an uninitialised
encoding may be, and whatever `strtol` and `atoi` make of odd text. `Text` and `Number` are recursive functions, and the library's induction theorems cannot be used here; but a set of natural numbers has a least
element (`Least`, from the well-foundedness of `<`), so a claim about all numbers is proved from its least counterexample. That a function with the
recursive equations exists comes first (`TextExists`, `ValueExists`), then that there is only one (`TextUnique`, `ValueIs`), then what it
yields: digits, and a number that is read as it was written (`NumberOfToString`): its text begins with no blank, with a sign if it is negative, and `Clamp` leaves an `int` alone. The parser finds the first terminator wherever there is one (`FindsFirst`), never leaves the payload (`Finds`,
hence `ParserAdvances`), and what it cuts out is `Clean`: no terminator begins in it (`FoundIsClean`). That is why it can be sent on: in a
payload that begins with a packet and one pair more, the pair is found as it was appended (`ReadsPair`), also when the value ends with the first byte of a
terminator. `CodecInv` has the packet as it was after each of its pairs (`Written`); while the recipient reads, its parser stands behind one of them and holds
the values of those before (`ReadUpTo`). With the size in the header being that of the buffer (`SentWhole`), `RelayIsFaithful` and `ReplyIsReadable` follow.

**The XMPP client.** `IInv` has, besides the types, four parts. `Attached`: a client that is connected is on the pump under its own handle, elements are handled only
while the thread is inside its callback, and before the login nothing of it exists. `Turns`: client and server take turns; of the messages that carry the login one step on, at most one is under way, counted over
`toServer`, `fromServer` and `elements`, and none after the login's end. It keeps a late answer from being taken for that of a later question, and with it a
session from beginning twice. `Acceptance`: what the client concludes success from (a `success` it can verify, the answer to its
credentials) has been preceded by the server's acceptance, or by a challenge without rounds (`Accepted`), and it waits for the answers of a later phase only after that. `Secrecy`: between an
offer of TLS and the encryption, whatever carries the login on is about TLS. The lemmas on queues say what `Append`, `Tail` and taking a prefix do to "at most one turn"; each handler is brought to
one of a few shapes (`Effect`, `Answers`) before the invariant is touched, and each step of the network, the messenger and the pump
is compared with `XmppLink` (`LinkStep`).

`SessionHasAskedForRoster` is about a slip of `Client::connected`, which takes a client that has lost its login for one that needs none. The invariant `RosterInv` says when that
can be: while the line holds, a client that is not logged in has nothing to handle, and if it is connected nothing on its way to the server, that binds a resource or a session (`StaysLoggedIn`). What takes the
login away hangs up as well (`StaysIn`), and it is either the one message that has the turn, so no other is under way, or the end of the stream, behind which there is nothing (`LastWords`). A send that fails breaks
this, and so the property names the line.

**The bridge.** A handler of the session is the session's, so its lemmas carry over; presence is one more handler, which changes the status of one
contact in the list and sends what it changed to. `ShownIsPublished` is the replication argument once more, one connection further up: of the stanzas about a contact either the last one
says what the contact has published, or none is left and `ContactManager` shows it (`PresenceCaught`); that holds for the contacts in `followed`, which are in the list (`FollowsPublished`), and
`StatusReplicated` carries it to the messenger. For `OnlyStrangersEndIt` the invariant (`EndedByStrangers`) says that a careful messenger has at most one request out, sensible for
its picture, whose ignore list stays exact meanwhile because nothing but statuses of presence are sent to it (`OneAtATime`), and that every stanza in flight that counts comes from someone
who has published (`StanzasPublished`); so no request ends the session, and the stanza that does is of someone who is not in the list under the bare id: a contact the roster
has under an id with a resource is such a one. Texts that outgrow the Builder are not among the causes: `Reply` may end the process as `"outgrown"` for anybody, and the property says nothing then.

**The hook.** `HookInv` says at each step of the installer what has been moved. The thunk begins with the instructions of the
function's first `total` bytes, each with its operand moved (`Relocated`), and after `AppendJump` the jump back lies behind them (`Complete`); the
rest of memory is the function until `Redirect` puts the jump over the displaced ones (`Intact`, `Hooked`). A function whose installation has failed before that is untouched (`Spared`), and
no thread runs before the end (`Place`). `Restored` accounts for the protection: at the end a page that is not in `unrestored` may be executed, so a thread that faults (`Crashes`) has lost the right, which
is a `Crash` of `FunctionCall`. The
arithmetic is in two lemmas: an operand of four bytes that is moved and cut leads where it led
before, modulo the number of addresses (`RelocatedTarget`), and the jump back leads to the first byte that was not displaced. From these each step of a thread in the thunk is the step of a thread in the function at the place
`FunctionPc` maps it to, with the same effect, and the jumps of the hook are stutters or the step to the proxy.

Only model-checked: the liveness
properties (`Converges`, `PatientIsServed`, `GoneIsDetached`, `LoginCompletes`, `MessengerIsServed`, `LineLossDetaches`, `LoginEnds`, `BridgeConverges`), which are beyond the prover. Every
other property of a run that is expected to hold is a theorem.

## 5. The plan

What is left, in order of importance:

1. The rest of the codec: the payloads whose keys repeat or stand in groups (the profile's lists, the statuses), the
   header's byte order.
2. `YMsgServer`: several sessions in one process, what one session's exception does to the others, and socket handles that pass
   from one session to another (`Reuse` in `XmppClient` is the view of one session).
3. Two XMPP clients of one handler (two Authentication packets with gloox); `YMsgLogin` has them, `XmppClient` does not.
4. The decoding of opcodes and operands in `CodeHook`: which functions the tables are right about, instead of the assumption that they are.
5. Proofs: what the modules above will promise; of the present ones only liveness is left.

## 6. Findings

* `xmpp_recv`: `recv` of gloox's connection says that it returns the state of the connection
  (`connectionbase.h`), and the pump drops a socket whose `recv` does not return `ConnNoError`. When gloox hangs up while it handles what it
  has read, `recv` goes on and returns `ConnNoError` (`connectiontcpclient.cpp:182`); the pump keeps a handle that is none, `select` fails for
  every socket of the session from then on, the messenger's too, or serves a socket of somebody else that was given the number.
* `bridge_leaving`: a presence `Unavailable` says "The entity is offline" (`presence.h:49`), but `PresenceHandler` looks at the text first
  (`PresenceHandler.cpp:36`), so a contact that leaves with a text is shown as there, under a custom status.

Observations that have no run, because what they break is repaired by what follows, lies outside what is modelled, or is assumed away:
`OnGroupRenamed` passes the new and the current name to the rename packet in the wrong order
(`ContactManagementEvents.cpp:184` against `ContactGroupRenamed.h:20`; the profile that follows repairs it). A duplicate block, which a
comment says is reported (`BlockedContactManagementEvents.cpp:53`), throws and ends the process. `Append` checks the size without the value
(`Builder.cpp:54`); `Send` refuses the packet later. `RelocateCode` refuses neither an operand of one byte nor a function into whose first six
bytes something jumps, and a function shorter than six bytes has what is behind it overwritten. The opcode tables have some lengths wrong (2.6). A failed `Unlock` is ignored and `HOOK_SUCCESS`
returned, with a function that may no longer be executed (`Lose` of `FunctionCall`). gloox takes an iteration count of 0, with which a server that does not know
the password passes for one that does (`clientbase.cpp:729`; `SessionNeedsAcceptance` names the case), and leaves a DIGEST-MD5 challenge without a nonce unanswered, so the messenger waits for ever
(`clientbase.cpp:778`). A roster item with a resource is stored under an id no presence is looked up by (`AuthenticationHandler.cpp:89`). A profile, a status or a message of 64K ends the process
(`Builder.cpp:55`, `:71`).

## 7. What is not modelled, and why

* The other payloads of the codec and several sessions in one process: planned above.
* The redirections of the patch DLL and the HTTP server: look-ups without
  state of their own that changes while they run; the copy patch is a copy of eight fixed bytes; the launcher is a line of calls to the operating
  system whose order is the `Init` of `CodeHook`.
* `SessionGateway`: an empty stub.
* The Builder's throw in `YMsgLogin`: a profile or a status of 64K would end the process while the session begins, and the login would not complete; `LoginCompletes` is about logins whose packets fit (`YMsgSession` has the throw, `YMsgStream` that of any handler).
* mongoose, and those parts of gloox the bridge does not use (rooms, publish-subscribe, file transfer, compression,
  stream management, the XML parser): vendored. They are most of the repository's lines.
* After its messenger has gone, a session thread polls for ever with nothing attached (`select` fails at
  once). The model stays in `pump = "select"`, `attached = FALSE`; there is no property of it, because nothing
  in the repository says it should end.
