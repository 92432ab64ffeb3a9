# ViaGenshin in TLA+

ViaGenshin (`src/`, Go) is a proxy.  It listens for game clients on UDP ports,
one port per protocol version, dials the main server once per client, and
forwards packets both ways, translating each from one protocol version to the
other.  It brings its own reliable transport, KCP over UDP.  This directory
holds TLA+ models of the parts of the program whose correctness depends on
ordering, loss, concurrency and bounds, the TLC runs that check them on small
instances, and TLAPS proofs of the safety of transport, connections, forwarding
and translation for all values of the parameters: every safety property that a
run checks is also a theorem, some of them under an assumption (section 4).

## 1. The system

| component | source | state | operations |
|---|---|---|---|
| KCP control block | `pkg/transport/kcp/control_block.go` | `snd_queue`, `snd_buf`, `rcv_queue`, `rcv_buf`, `acklist`, the counters `snd_una`, `snd_nxt`, `rcv_nxt`, the windows, the probe flags | `Send`, `Recv`, `PeekSize`, `Input`, `Update`/`flush` |
| clock and timers | same file | `rx_rto`, `rx_srtt`, `rx_rttvar`, `ts_flush`, `ts_probe`, `probe_wait`, the timers of each segment, `state` (and `cwnd`, `ssthresh`, which are switched off) | `update_ack`, `parse_fastack`, the timers in `Update` and `flush` |
| session | `session.go` | the control block, its mutex, the `payload` channel (256), `starting`, a context | `SendPayload`, `Payload`, `update`, `onSegmentData`, `onControlData`, `open`, `Close` |
| session manager, listener | `session_manager.go`, `kcpsock.go`, `kcp.go` | `conns` by session id, `pending` (128), a context, a wait group; the global `unmanaged` for dialed sessions | `Listen`, `Accept`, `Close`, `DisconnectSession`, `Dial`; the goroutine that reads a socket, one handler per session, the 20 ms ticker |
| wire format | `kcpdata.go` | none | heads of segments, 20-byte control datagrams |
| service, servers | `internal/core/service.go`, `server.go` | one server per version, `sessions` by id | `Start`, `Stop`, the accept loop |
| forwarding session | `server.go`, `packet.go` | the two transports, `loginRand`, `loginKey`, `playerUid` | `Forward` (two goroutines), `ConvertPayload`, `EncryptPayload`, `SendPacket`, `SendPacketJSON` |
| login keys | `handler_login.go`, `keys.go`, `mt19937` | the keys above | `OnGetPlayerTokenReq`, `OnGetPlayerTokenRsp` |
| engine | `handler_engine.go`, `console.go` | `cachedPullRecentChat`, `cachedClientSetGameTime` | chat with the console, game time, the friend list, map marks |
| nested packets | `handler.go`, `handler_ability.go`, `handler_combat.go` | none | conversion of lists of embedded packets |
| mapper | `internal/mapper` | command maps per protocol, message descriptors | loading of `protocol.csv` |
| configuration, ciphers, logger, main | `internal/config`, `pkg/crypto`, `pkg/logger`, `cmd` | constant data | |

How they interact.  A `Session`'s control block has three callers, each under
the session's mutex: whoever calls `SendPayload`, the goroutine that reads the
socket (`onSegmentData`), and the ticker (`update`), which also moves one
complete message from the control block to the `payload` channel.  The reader
of a listener's socket looks sessions up in the manager's map (under a
read-write lock that it releases before it uses the session), creates and
deletes them, and starts a handler goroutine for each, which hands the session
to `Accept` through the `pending` channel and then waits for a context to be
cancelled.  A dialed session has a socket, a reader and a context of its own
and is put in `unmanaged` for the ticker.  The server's accept loop starts, for
each accepted session, the two forwarding goroutines, which share the fields of
`core.Session` without a lock.

What is hard about it, and what would be correct, is the list of hazards in
`PROJECT.json`, each at its line, with the properties that cover it.  In short:

- transport: datagrams are lost, repeated and reordered between two ends that
  both send; counters of one end are judged by stale copies of those of the
  other; windows close and the message that reopens them can be lost; the
  channel behind the transport overflows.  Correct is: each end reads exactly
  what the other sent, in order, whole, once, and everything gets across;
- connections: control datagrams of several clients and several lives of the
  same client meet a map keyed by an id; locks are released between lookup and
  use; closing waits for goroutines that need to run.  Correct is: nobody is
  fed another's data, an open session can be found, a closing call returns, and
  a client whose session is gone hears of it;
- clock: times are cut to 32 bits and compared by the sign of a difference,
  acknowledgements are measured however late they come.  Correct is: nothing is
  resent before its timeout has passed, nor forgotten, a closed window is asked
  about, and the estimates stay within their bounds;
- forwarding: two goroutines share unguarded fields, keys switch in the middle
  of two streams.  Correct is: each side can decrypt and decode what it is
  sent, and each request is answered with its own data;
- translation: tables in an order that a Go map chooses, commands that one
  protocol has and another lacks, lists of packets of which one cannot be
  translated.  Correct is: a packet arrives under the name it was sent under,
  and one bad entry spoils neither its neighbours nor half of a union.

## 2. Modules

| module | what it is |
|---|---|
| `Kcp` | two sessions, each with its control block, at the ends of a UDP path; `SendPayload`, `onSegmentData`, `update`, `Payload` |
| `MessagePipe` | the abstract specification that `Kcp` implements: two reliable, ordered streams of whole messages |
| `KcpInv` | the inductive invariants of `Kcp`: `IInv`, and `WInv` for a path that keeps the order |
| `Kcp_proofs` | type correctness, the inductive invariants and the safety properties of `Kcp`, proved |
| `KcpPipe_proofs` | `Kcp` implements `MessagePipe`, proved |
| `KcpTimers` | one control block and its clock: timeouts, the estimate of the round trip, the ticker's schedule, the window probe |
| `KcpTimers_proofs` | all safety properties of `KcpTimers`, proved |
| `SessionManager` | listener, session manager, handlers, dialers: the life of a connection |
| `SessionManager_proofs` | type correctness and the safety properties of `SessionManager`, proved |
| `Proxy` | one forwarding session of `internal/core`: two goroutines, the key switch, the engine's handlers, the wait group |
| `Proxy_proofs` | all safety properties of `Proxy`, and that the proxy itself can decrypt what it reads, proved |
| `Mapper` | the command tables of `internal/mapper`: how they are loaded and what is looked up in them |
| `Mapper_proofs` | type correctness and the safety properties of `Mapper`, proved |
| `Packets` | extends `Mapper`: packets within packets, translated with the maps that were loaded |
| `Packets_proofs` | a union is forwarded whole or not at all, and invocations are independent, proved |
| `MCKcp`, `MCKcpTimers`, `MCSessionManager`, `MCPackets` | values of the constants for TLC |

`Kcp` and `KcpTimers` model the same code from two sides: `Kcp` is two ends and a
network, and leaves it open when a segment is resent; `KcpTimers` is one end, and
says when.  `Proxy` stands on the other modules through what they promise: its transports are
the streams of `MessagePipe`, and its two protocols know the same messages and
translate them by name, which is what `Mapper` is about.

### Kcp

State.  The variables have the names of the fields of `ControlBlock`.
`snd_buf` and `rcv_buf` are functions from sequence numbers, because the code
keeps both lists sorted and without duplicates.  `probe_wait` is "the timer of
the window probe is armed".  `input` is the `Input` call in progress and holds
the lock.  `net` is the set of datagrams in flight.  `sent`, `read` and
`delivered` are history variables, one for each boundary of the stream: what
`Send` accepted, what `Recv` returned, what `Payload` returned.

Actions.  `SendPayload` is `Session.SendPayload` with `Send`.
`onSegmentData` starts `Input` with a datagram, `InputSegment` is one turn of its
loop (una, `shrink_buf`, the command; for PUSH also `ack_push` and
`parse_data` with its move from `rcv_buf` to `rcv_queue`), `InputReturn` is its
end, which flushes if the window slid.  `UpdateFlush` and `UpdateOnly` are
`Session.update`: the ticker's call with and without a `flush`, then `PeekSize`
and `Recv` and the attempt to put the message in the channel, which drops it if
the channel is full.  `Payload` is the consumer.  `flush` writes
acknowledgements (less those its filter leaves out), window probes, then new
and retransmitted segments, cut into datagrams of `MtuSegs` segments, any of
which the network may lose.

Abstractions.  The body of a message is its number.  Time is left out: which
segments are due, and whether a flush is due, are choices, so that every
schedule of timers, RTO, fast resend and early resend is covered; the schedule
itself is `KcpTimers`.  Congestion
control is off, as `start` configures it (`NoDelay(1, 20, 2, 1)` sets `nocwnd`).
Datagrams are well formed.  Sequence numbers are naturals: `_itimediff`'s
wrap-around at 2^32 is not reached in a session of fewer than 2^31 segments.
The bound of 255 fragments is the assumption `MaxFrags <= RcvWnd`.

### KcpTimers

State.  The variables have the names of the fields of `ControlBlock`; `now` is
`currentMs()`.  Times are kept uncut, and every comparison the code makes is made
by `itimediff` on what the cut to 32 bits leaves of them, as `_itimediff` does.
`snd_buf` holds the timers of each segment, where the code keeps them in the
segments.  `flight` is external: the transmissions that may still be
acknowledged, for `MaxAge` at most, and any number of times.

Actions.  `Tick` is time; within one call the clock stands still (`flush` reads it
again for each segment it sends, which may be a millisecond later).  `Send` puts a
segment in the queue.  `Update` is the ticker's call: its schedule by `ts_flush`,
with the jump after a pause, and `flush` with the probe's timer (`Probe`), new
segments, and for each old one the decision whether it is overdue (`Overdue`) and
its next timeout (`Looked`).  `Input` is the arrival of a datagram with una, window
and acknowledgements: `parse_una`, `parse_ack`, `parse_fastack`, `update_ack` with
the last acknowledgement, and the flush that follows when the window has slid.
`InputAny` says what a datagram may hold.

Abstractions.  One direction: what the block receives as data is in `Kcp`.
`nodelay` is 1 and `nocwnd` is 1, as `start` sets them.  Of the window probe only
the timer is here: the question itself, `IKCP_ASK_SEND`, is in `Kcp`.  The ticker may be late by
any time, so that a pause of the program is included.  The assumption
`Lifetime + MaxRto + ProbeLimit + Interval < HalfRange` says that a session lives
less than 2^31 ms, 24 days: a segment that stays unacknowledged for longer would
be compared wrongly.  The block may be created at any age of the program, so
that the clock wraps around while it lives.

### SessionManager

State.  `manager` is where `Close` is; `sessions` all sessions the manager has
created, in order, so that the nth has `convID` n as in the code's counter;
`conns`, `pending`, `unmanaged` are the maps and the channel of the code;
`reader` is what is left to do for the datagram the listener's reader has taken
(between its locked lookup and its use of the session); `leaving` are calls of
`DisconnectSession` between `deleteSession` and `closeSession`; `dial` are the
dialed sessions, each of them with its address; `heard` is history.

Actions.  `ReadSyn`/`WriteAck`, `ReadFin`/`ReaderClose`, `ReadSegment`/`Input`
are the three branches of the reader's callbacks, each cut where the lock is
released.  `HandlerStart`, `HandlerSelect`, `HandlerFin` are `handleSession`.
`Accept`, `CloseSession`, `DisconnectSession`/`DisconnectClose`,
`Close`/`CloseReleases`/`CloseSocket` are the listener's users; the proxy only
calls `Accept`, and the constant `Calls` says which others a run adds.  `Dial`,
`DialReturns`, `DialerAck`, `DialerFin`, `DialerSegment`, `DialerClose`,
`DialerSend` are the other side.  `DialerPanics` is what the code does when FIN or
a segment comes before the ACK: it uses a control block that is nil.
`ClientSyn` is external: a client that is not `Dial` and repeats SYN, before the ACK
(then the listener makes one session for each) or after it.  SEG stands for any KCP
datagram, with the two ids that `Input` checks.

### Proxy

State.  `inq` and `outq` are the packets between the proxy and each side, `closed`
and `ctxDone` say of each transport that its session is closed and that its
context is cancelled (not the same for a dialed one).  `g` are the two goroutines
of `Forward`: where each of them is, its packet, the times it has read so far.
`wg`, `loginRand`, `loginKey`, `playerUid`, `cachedPullRecentChat` and
`cachedClientSetGameTime` are the variables of the code, shared without a lock,
so a goroutine's way from `Payload` to `SendPacket` is cut between any two
accesses to them, with three exceptions: `SendPacket` chooses the key and sends in one
step (`server.go:205`, `:208`), `OnGetPlayerTokenRsp` writes `playerUid` and `loginKey` in
one (`handler_login.go:42`, `:47`), and `OnPullRecentChatRsp` checks the cache and empties
it in one.  The first two make no difference because the keys are written while
the client waits for that very answer, when the goroutine of its side sends
nothing and answers nothing; the third because nobody else empties the cache.  A packet is its name, the key it is under, the protocol its
body is in, and the few numbers a property looks at.

Actions.  `ReadPayload` is `Payload` and `EncryptPayload` with its second attempt;
the `On...` actions are the handlers of the same names, up to the next access to
what is shared; `Send...` their `SendPacketJSON`; `HandlePlain` is a message
without a handler; `SendOn` is the last part of `forward`; `PayloadFails` its
`defer`.  The client and the server are external: the client logs in once, may
ping meanwhile, and asks for the rest afterwards; the server answers what it
knows.  `CloseTransport` is the FIN, or the listener's `Close`.

Abstractions.  One login per session; both protocols have every message, so that
`ConvertPacket` fails only where a handler does; a datagram that is not a packet
is not sent by these peers.  `OnPullPrivateChatReq` builds an answer and
never sends it, as the code does; `OnGetPlayerFriendListRsp` adds the console to
the list.  An "injected" error makes `ConvertPacket` return the bytes it was given, so the
request a handler has rewritten goes to the server as well: `PassRaw`.

### Mapper

State.  `BaseCommands`, `CommandNameMap`, `CommandPairMap` and `MessageDescMap` (the
names that have a description) are the fields of `Mapping`; `tables` are the
files, any there can be of a few lines; `loading`, `loaded`, `failed` are where
`NewMappingFromConfig` is.  `Load`, `LoadFails`, `LoadLine`, `LoadReturn` are
`loadProtocol` for one protocol, the base first and the others in any order;
`parseCommandDesc` is a line.  `ToCommand` and `JSONCommands` are the lookups of
`ConvertPayload` and `SendPacketJSON`; the second ranges over a Go map, so it is a
set.  `LoadReturn` also gives a protocol the descriptions of `ArgumentNames`, which
the code takes from its tables of ability and combat arguments and which need
not have a command.  Assumed of the files: a table has no name and no command
twice, and no name is empty.  `loadProtocol` does not check that: with a command
twice, `CommandNameMap` would have its last name while a pair made for an earlier one
stayed.  A packet whose command has no pair is not dropped: it goes out under 0,
which may be the command of another name.  `KeepsName` says that nothing else can
happen to a name.

### Packets

State.  That of `Mapper`; packets are the arguments of operators, and the
properties range over all packets there can be.  A body is well formed,
malformed, or one whose handler answers the sender itself ("injected").

Operators.  `ConvertPacketByName` and `ConvertPacket` are the functions of these
names, with the three ways they return.  `OnUnionCmdNotify` is the loop over the
commands of a union, which returns at the first error, and `Translated` the
notification it makes; `Forwarded` is what the other side gets.  `OnInvocations` is
the loop of `OnAbilityInvocations` and `OnCombatInvocations`, which leaves an entry
out and goes on.  Three things a reader should know of the code: a command whose
name the other protocol knows as an argument only is translated and goes out,
within a union, as command 0; a union with a command that was answered is sent
on as it came, in the protocol of the sender; and between two equal protocols,
which the configuration allows, a union is translated all the same and its
commands become 0, for which reason the properties are about two different ones
(`Apart`).

## 3. Runs

Every passing run is finished by TLC in less than three minutes.

| run | instance | question |
|---|---|---|
| `kcp_reorder` | messages of one and two fragments, three segments one way, window 2, channel of 1, two datagrams in flight, each lost, late or repeated | order, whole messages, acknowledgements, the receiver's window; does `Kcp` implement `MessagePipe`, is `IInv` an invariant |
| `kcp_live` | messages of one and two fragments, three segments one way, two of them the receiver's window, fair network | every message gets across and everything sent is released, although windows close and the message that reopens them may be lost |
| `kcp_stale_window` | messages of one fragment, nothing repeated | expected violation, see Findings |
| `kcp_timers` | two segments, two datagrams of up to two acknowledgements, a clock that wraps around, windows 0 and 2 | are the estimates in range, is nothing resent too early, too late or given up, is a closed window asked about |
| `session_reuse` | two clients, which may repeat SYN before and after the ACK, two ids that may be given again, sessions that their clients close, `Close` called | is a session ever fed another client's segment, are two sessions ever fed by one client, can an open session always be found |
| `session_accept` | two clients, room for both, `CloseSession` called | is everybody accepted, does every `Dial` return, does the ticker keep what it returns |
| `session_shutdown` | one client, two sessions, repeated datagrams, `Close` called | does `Close` return, are the woken clients told |
| `session_told` | one client, every datagram may be lost, all closing calls | does a client that goes on sending learn that its session is gone |
| `proxy_traffic` | a client that pings, chats and sets the time around its login, a server that pushes, transports that close | can each side decrypt what it gets, is nothing lost when the key changes, can the process die of the wait group |
| `proxy_requests` | a client with one request of a kind under way, of six kinds | is it answered, with its own times and its own welcome |
| `proxy_protocol` | one chat message | expected violation, see Findings |
| `mapper_tables` | a base and two other protocols, two names (of which one is also an argument's) and `DebugNotify`, commands 0 and 1, all tables of up to two lines, unions and lists of up to two entries | is a name kept wherever there is a pair, is every common message paired, is an injected packet sent under its own name, is a union whole, are invocations independent |

Bounds.  `MaxSent`, `MaxNet`, `MaxAcks`, `MaxSessions`, `MaxInputs`, `MaxSegs` and
`Lifetime` bound what would grow without
limit.  A window of two segments with three to send makes the window fill,
slide, close and reopen, and leaves one segment before and one after a gap; two
datagrams in flight are enough for an old one to arrive after a newer one; two
fragments are enough for half a message, and for one that fills the window; a channel of one overflows.  `IInv`
includes the types; it and the other safety properties of `Kcp` do not rest on
the bounds: they are proved.  In `kcp_timers` the constants are scaled down and
keep their order: 24 for 2^31, an interval and a least timeout of 2, timeouts of
3 at first and 5 at most, probes after 2 and at most 4, a block that is created 4
before the wrap-around and lives 8.  That is enough for a segment that is sent
three times, a window that closes and opens, and a `ts_flush` that is given up.
With two segments one is skipped and resent when there is nothing new to send;
the other case of fast resend, and longer lives, are covered by the proofs.  Two clients and two sessions are enough for every race of
`SessionManager` between one session and its successor.  In `session_reuse`
the network does not lose datagrams: one that is never delivered is as good as
lost when nothing is fair.  In `proxy_traffic` three packets
of the client put one before, one between and one after the two halves of the
key exchange, and the pushed one can meet it on the way back.  In
`proxy_requests` four requests let a request of each kind follow another, with
the goroutines in any position.  `AnsweredWithOwn`, `WelcomedOnce` and
`TimeAnswered` are about a `Patient` client: of one that sends a second request
before the first is answered they do not hold (see Hazards in `PROJECT.json`).  In
`Mapper` two names and two commands are enough for a table that swaps them, and
0 is one of them because the code takes it for "none"; a list of two has an entry
before or after the bad one.  `MCPackets` starts from tables in the order of their
commands: the order of the lines makes no difference to what is loaded in the
end.

Deadlock is not checked: all models end when the bounds are used up and nothing
is in flight.

Fairness.  `Kcp`: the ticker's goroutine never ends, and every timer of an
unacknowledged segment expires (the interval grows without limit but is finite;
`dead_link` sets a field that nothing reads, so the code never gives up), hence
a flush that retransmits everything happens again and again; mutexes of Go are
fair; the network is fair-lossy (strong fairness on delivery, and it does not
lose every one of infinitely many flushes).  `SessionManager`: goroutines run,
sockets are queues, the accept loop accepts, and a session with something to send sends it
again and again.  Nothing is assumed of the users: they need not send, close or
dial.  `Proxy`: the goroutines run, client and server read what they are sent;
nobody has to say anything.

Findings.  `kcp_stale_window`: the comment at `control_block.go:138` says of the
window a datagram carries that it is the latest update; every datagram
overwrites `rmt_wnd`, so one that was overtaken brings an old, larger or
smaller window back, next to a `snd_una` that only grows.  With the other
checks the harm is bounded: `NoneBeyondWindow` holds and is proved all the same,
since the receiver's window counts from `rcv_nxt`.  `proxy_protocol`: the answer
to a message for the console is encoded in the protocol of the server
(`handler_engine.go:99` has `to` where the two packets before it have `from`) and
sent to the client.  What a handler has answered by injection is sent on as it came
(`packet.go:40`), so a `ChangeGameTimeRsp` reaches the client in that protocol too; this run
does not show it.

## 4. Proofs

`Kcp_proofs` proves, for all windows, lengths, channel sizes and bounds that
satisfy `KcpConstants`:

- `TypeCorrect`, `InOrderHolds`, `AckedIsReceivedHolds`, `NoneBeyondWindowHolds`,
  `WholeMessagesHolds`, `DeliveredInOrderHolds`: `Spec => []P` for the six safety
  properties of `Kcp`;
- `Invariance`: `Spec => []IInv`, from `Initially`, `Inductive`;
- `LatestOnOrderedPath`: `Spec /\ [][OldestFirst]_vars => []WindowIsLatest`.

`KcpPipe_proofs` proves `Refinement`: `Spec => PipeSpec`.

Argument.  None of the properties is inductive.  `IInv` adds what relates the two
ends.  `StreamOK`: what was sent is a sequence of messages.  `SndOK`: `snd_buf` and
`snd_queue` partition the rest of it, the gap between `snd_una` and `snd_nxt` is at
most the window, what is gone or marked was received.  `RcvOK`: the receiver
holds and acknowledges only what was sent, at its place.  `ReadOK`: `read` and
`rcv_queue` are the stream up to `rcv_nxt` and `read` ends with a message.
`SegOK`, for segments in flight or in an `Input` call: their una, sn and body say
of the stream what is still true of it, however old they are, because the
counters only grow and the stream is only appended to.  `UserOK`: the channel
and the consumer have whole messages in ascending order.  A step changes the
sending half of one end and the receiving half of the same end, and the two
halves are bound to those of the *other* end; so the proof has one lemma for
what each helper does to its half (`FlushSndHalf`, `AssembleOK`, `RecvRcvHalf`,
`ParseDataOK`, `InputSndOK`), frame lemmas for what grows (`SegOKGrows`,
`RcvOKFrame`, ...), and one step lemma for each action (`SendPayloadStep`,
`OnSegmentDataStep`, `InputSegmentStep`, `InputReturnStep`, `UpdateStep`,
`PayloadStep`), which `Inductive` combines.  For the refinement, `RecvIsFetch`
shows that what `Recv` takes off `rcv_queue` is the next message of the stream,
and all other steps are `Send`, `Take` or stuttering.

`WindowIsLatest` is false of any path (run `kcp_stale_window`), so its theorem says
what a path must promise: `OldestFirst`, that a datagram is delivered only while no
other on its way to the same end has a smaller una, that is, was sent before.  It
may lose datagrams, and repeat one until it delivers a later one.  In the run
`kcp_live` there is one datagram towards each end, so nothing can be overtaken there.  The invariant is `WInv`.  Every segment of a flush
carries the una and the window of that moment, of which the sum is what has been
read and a window (`Room`), and reading only goes on: so each segment under way
promises no more than there is room for (`Fresh`).  On the other side una and
`rmt_wnd` are taken from the same segment only if its una is not older than
`snd_una`, and then `shrink_buf` leaves `snd_una` exactly there; this is what the
order is for, and why `WInv` compares the una of the datagram in work with those
that are still to come.  For the sum to be a bound, `rcv_queue` must not exceed
`RcvWnd` in any step (`AssembleFits`, `ParseFits`, `DeliverFits`).

`KcpTimers_proofs` proves, for all constants that satisfy `TimersConstants`,
`TimersTypes`, `RtoBounded`, `NoneGivenUp`, `Probed` (`Spec => []P` for `TypeOK`,
`RtoInRange`, `ResentOnTime`, `WindowIsProbed`) and `NeverTooEarly`,
`Spec => NoneTooEarly`.  Argument.  `Serial` says that the signed difference of two
cut times is their difference if they are less than half the range apart.  It
helps only where the model already knows that they are, so `IInv` bounds every
time that is ever compared: `Times` the clock and the ticker's schedule,
`Segments` the timers of each segment, by the block's life plus the largest
timeout, `Probing` the probe's timer.  `Flushed` relates them to `ts_flush`: the next
flush comes before a timer has been overdue for an interval, which is the step
from what `flush` does to what `ResentOnTime` and `WindowIsProbed` promise.
`fastack > 0` carries its reason along, an acknowledged transmission of a later
segment, which is what `NoneTooEarly` needs.

`Mapper_proofs` proves `TypesHold`, `KeepsNameHolds`, `CommandKnownHolds` and
`InjectedKnownHolds`, for any protocols, names, commands and tables.  `KeepsName`
follows from `PairsNamed`, that the two commands of a pair have one name, which
alone is not inductive: a line makes a pair with what `BaseCommands` has for its
name, so `BaseNamed` says that this command has that name; and a line adds a
command to `CommandNameMap`, where it must not replace another that is paired
already, so `FromLines` says that all commands there come from lines that were
read before, of a protocol that is not loaded twice (`NotTwice`).
`CommandKnown` goes the other way, from two names to a pair: `KInv` adds that the
base protocol is loaded first (`BaseFirst`), that every name comes from a line
(`NamesFromLines`), that `BaseCommands` is the inverse of the base's names
(`BaseListed`), and that a line with a name the base has makes its pair in both
maps (`PairsMade`).

`SessionManager_proofs` proves `TypesHold` and `OpenIsKnownHolds`
for all constants that satisfy `SessionConstants`, and `NoForeignInputHolds` and
`OneSessionHearsHolds` for those with which nobody calls `DisconnectSession` (nobody in the repository does;
called for a session that is gone it would overwrite the `convID` of the one
that has its id now).  `KInv` is `OpenIsKnown` with `TInv`, the types, which have to say a little more than
`TypeOK`: ids in flight come from the listener, and a dialed session that was
answered has one of them.  No step reopens a session (`Kept`), so it is enough to see
that whoever takes a session out of `conns` is also the one who goes on to
close it.  `Own` is what makes a segment's `convID` as good as an address: a session keeps
the `convID` it was made with while it is in `conns` (`ConnsOwn`), a client has a
`convID` only from the ACK of a session made for its address (`NetOwn`, `DialOwn`),
and the reader, which overwrites a session's `convID` with that of a FIN, does
it after that session has left `conns` and is not the one that is being looked up
(`ReaderOwn`).  So `Input`, which compares the convID, compares the client.
`Single` is the same for the sessions of one client: segments in flight, in the
reader's hands and already heard have the `convID` that their client started
with (`NewSegments`, `NewInput`), and no later ACK replaces that (`StartedStays`).

`DialedIsUpdatedHolds` is for a generator that gives no id twice (`~Reuse`; the code
draws 32 random bits).  The global `unmanaged` is keyed by the id that the *listener*
gave, and every dialed session that is closed or opened changes it; the property
needs that no two dialers use one key.  `UInv` adds to `KInv` that sessions with the
same id are one client's (`IdsApart`; not more than that, since a client that
repeats SYN with its id gets a second session of the same id), that an ACK in flight has
an id of a session of the client it goes to and a SYN repeats only such an id
(`NetIds`), and that a dialed session that has started has an id of one of its own
sessions and that `Dial` does not return before (`DialIds`).  `ReadSyn` keeps `IdsApart`
because the id of a new session is either new or one that its client had.

`Proxy_proofs` proves `TypesHold`, `NoNegativeCounterHolds`,
`ClientUnderstandsHolds`, `ServerUnderstandsHolds`, `PingsPassHolds` and
`ProxyUnderstandsHolds` for all constants that satisfy `ProxyConstants`, thus for
any number of packets, and `WelcomedOnceHolds` and `AnsweredWithOwnHolds` for a
`Patient` client.  Argument.  The exchange of keys is followed as one packet in one of eight
places (`Place`): in a queue on its way to the server, with the one goroutine
before or after its handler, in the next queue, and back in the same way.
`Alone` says that it is in one place at most.  A step moves it to the next place or
loses it (`Shift`, with one lemma for each kind of step), and `LoginOK` says for
each place who has the new key already: the server from place 5 on, the proxy
from 7 on, the client after 8.  `Understood` adds the order within the two queues:
before the token nothing is under the new key, after it everything is.  The types
(`TInv`) are not inductive without `LoginOK`: that the key which the handler of
`GetPlayerTokenRsp` makes is the session's needs that the handler of the request
has run.  `ChatOK` is that a client that is not in has nothing of the console under
way, for which the goroutine of the *client's* side sends packets to the client
while the other goroutine may be changing the key.  `PullOK` follows a pull of
the recent chat through the same places, with `BeginSequence` in its body until
the second handler and the welcome after it, and the cache full exactly between
the two handlers.  `TimeOK` follows a request for a time through five places
(`Clock`), of which the third is the cache itself; while the second goroutine
reads the cache it is full, and nobody writes it, because the client does not ask
again before the fifth place is left.

Pings are many, so `PingsPass` follows them as a range of numbers that is cut into
four: what the server has, what is on its way to it, the one the goroutine may
have in hand, and what waits to be read.  `Carries` says that a queue holds
exactly the pings of one of these ranges, in order, among other packets;
`CarriesAppend`, `CarriesTail` and `CarriesOne` say what a queue's operations do to
the range, and `PingingMoves` has the one step in which a ping passes a border.  The
step that could lose one is `ReadPayload`, which drops what it cannot decrypt.  That is
`KeyOK`: the client has the new key only from an answer that the proxy passed on after it
had set its own.  `ProxyUnderstands` is the same for both
sides: no payload is ever dropped for want of a key.  On the server's side it
needs `Heard`: in the queue from the server all is under the shared key up to
`GetPlayerTokenRsp` and nothing after it, where the goroutine that has read it
counts as having the key, because it does not read again before it has set it.
`ProxyUnderstands` has no run of its own.

`Packets_proofs` proves `UnionWholeHolds`: a union is refused at its first bad
command, which exists by well-foundedness, or all its commands are translated,
and then `PairsNamed` gives each its name.  `InvocationsApartHolds` says of the loop over
a list of invocations that its result is made of the results of the single
entries, for lists of any length.  Both sides of the equation are recursive
functions on the numbers up to the length (`OnInvocations`, and `FlattenSeq` of the
community modules), and by induction they agree on every prefix.  The induction is
`AllNumbers`, in which what is proved of all numbers is a set and not an operator,
for which reason the provers can instantiate it.

Only model-checked: liveness, which is out of the proof system's reach, as are
`ENABLED` and fairness: `PipeFairSpec` (of which the safety part, `PipeSpec`, is
proved), `EverySentIsReleased`, `LoggedIn`, `TimeAnswered`, and of `SessionManager`
`EveryAccepted`, `DialReturned`, `CloseReturns`, `ShutdownIsTold` and
`DisconnectedIsTold`.  The two runs that expect a violation check what is false.

## 5. Not modelled, and why

- the congestion window: `start` switches it off, the code computes and ignores
  it;
- the wrap-around of sequence numbers: not reached in a session of fewer than
  2^31 segments, see `Kcp`; `Serial` is the lemma that would carry the proofs over;
- byte sizes, `Check`, `WaitSnd`, `ReserveBytes`, `ReleaseTX`: nothing calls the
  functions, and segments are cut and joined by count in `Kcp`;
- wire formats, ciphers, configuration, logging: fixed layouts, numeric code
  and I/O, with no behaviour over time;
- service and servers: start-up code, and an accept loop that is the listener's
  user in `SessionManager`; nothing waits for the servers to stop;
- the console's HTTP request: I/O, of which a handler only sees success or
  failure.

## 6. Plan

Done first, because everything else stands on it: `MessagePipe`, `Kcp`, its
invariant, its proofs and the refinement; then `SessionManager`, `Proxy`,
`Mapper`; then `KcpTimers` and `Packets`, and the proofs of all of them; last the
four invariants that had only been checked, `WindowIsLatest`, `InvocationsApart`,
`PingsPass` and `DialedIsUpdated`.  What is left to prove:

1. the safety half of the liveness properties, each as an invariant of its own:
   that a client under way is at one of the places from which it is answered
   (`LoggedIn`, `TimeAnswered`), that a session which nobody has accepted is in
   `pending` or has a handler that puts it there (`EveryAccepted`);
2. that the comparisons of sequence numbers in `Kcp` come out the same when the
   numbers are cut to 32 bits, as `Serial` shows for times, in a session of fewer than
   2^31 segments.
