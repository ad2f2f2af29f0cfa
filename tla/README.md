# A verification project for od-nat-piercer

`od-nat-piercer` lets the members of a voice channel reach each other over UDP
from behind NATs. A signalling server keeps who is in which channel and picks
one member per channel as the *relay*; the other members send to the relay, and
those a relay cannot reach (symmetric NATs) are relayed by the server itself.

This directory holds TLA+ modules that model the server, the client and the two
together, TLC runs that check them on small instances, and TLAPS proofs for every
value of the constants.
Source paths are relative to the repository's parent: `src/src/...` is code,
`src/docs/...` documentation.

## 1. The system

### Components

| component | code | state | operations |
|---|---|---|---|
| server state | `signaling/structures.rs`, `signaling/handlers/utils.rs`, `signaling/utils.rs` | `ServerMap`: server id → channel name → `Channel { channel_id, next_peer_id, users, relay }` | add, refresh, replace, remove a user; pick and record a relay |
| message handlers | `signaling/handlers/*.rs` | none of their own; CONNECT carries a snapshot of a channel from one critical section to the next | CONNECT, DISCONNECT, HB, PONG, PEER_TIMEOUT, REQUEST_RELAY, DATA, NAT_PROBE |
| heartbeat task | `signaling/heartbeat.rs` | the packets and the empty channels a pass has collected | every 20 s: time users out, hand the relay on, ping lone users; then send; then remove empty channels |
| server main loop | `bin/signaling_server.rs` | two sockets and their buffers | receive, decode, await the handler |
| packet codec | `proto/packet.rs`, `proto/control_text.rs` | none | encode, decode a 30-byte header and payload |
| client peer table, modes | `client/handlers.rs`, `client/structures.rs`, `bin/client.rs` | `peers`, `is_relay`, `channel_has_server_relays`, `send_via_server` | MODE, USER_LEFT, DATA, PING, PONG, hole punches |
| client threads | `client/networking.rs` | two mutex/condvar pairs, the peer table | hole punching, relay keepalive (PING, PEER_TIMEOUT, REQUEST_RELAY), HB |
| NAT detection | `client/networking.rs` | none | two NAT_PROBEs, classify |
| console, deployment | `bin/client.rs`, `main.rs`, `Dockerfile`, `compose.yaml`, `Jenkinsfile` | none that matters | |

### How they interact

Clients and server exchange UDP datagrams. Inside the server two tokio tasks
share one `Arc<Mutex<ServerMap>>`:

- the **main task** receives a datagram and awaits its handler before it reads
  the next one, so handlers never interleave with each other;
- the **heartbeat task** interleaves with the main task wherever the mutex is
  free: between two datagrams, and between the two critical sections of a
  CONNECT (add the user; appoint the relay).

### What is hard about it

- state carried across an unlock: CONNECT appoints a relay from a snapshot, the
  cleanup removes channels a pass found empty;
- a handler that locks the mutex it already holds (DISCONNECT);
- the relay is recorded by *name*, users are sessions (name and address), and
  every operation that removes a user has its own idea of what to do with the
  relay: two appoint the first eligible user (by two different tests), one the
  first user, one whoever is left alone, two nobody;
- DATA names no channel: the server finds it by source address in a hash map;
- clients vanish and restart; UDP loses, repeats and reorders what both sides
  take for a sequence of mode changes;
- a client's flags (`is_relay`, `channel_has_server_relays`, `send_via_server`, and
  four in each entry of its table) are set by different messages and threads, and
  most are never reset;
- the client knows its peers by address *and* by name, and the two come apart when
  a user restarts or an address changes hands;
- five threads share the peer table, two mutexes with condition variables, and
  flags that are read before the table is locked and used after.

`PROJECT.json` lists each of these at its line, under "hazards", with the
property that covers it.

### What makes the components correct

- *Server state*: a name, a session and a pair of ids each mean one user
  (`NamesUnique`, `OneChannelPerServer`, `PeerIdsFromWelcome`, `IdentityUnique`).
- *Handlers and heartbeat, together*: the role of relay stays with the eligible
  member that has been there longest (`RelayIsSenior`), the two eligibility tests
  agree (`EligibilityAgrees`), a timeout leaves no absent relay
  (`HeartbeatKeepsRelayPresent`), a pass puts right what other handlers leave
  behind (`PassSettles`), relayed traffic reaches whom it must (`ServerRelayedHear`).
- *Tasks*: the server gets back to its socket (`ReturnsToListening`); silent users
  and empty channels go (`SilentUserDropped`, `EmptyChannelReclaimed`).
- *Who is where*: a member is an identity that enters once; a step costs one name
  its places, or gives whole channels up, and changes nothing else (`ImplementsMembership`).
- *Main loop*: a NAT probe is answered as what it is, whoever sends what else
  (`ProbesAnswered`, proved); every message is handled with the address it came from
  (`SourceIsItsOwn`, which the code breaks).
- *Client*: one entry per address (`OneEntryPerAddress`); who is served by the server
  stays, and is neither punched nor asked for (`ServedSettled`, `ServedStay`); the
  keepalive runs when the role says (`SwitchedAsRole`, `RelayKeepsAlive`); no thread
  waits for ever (`MainReturns`, `PunchingResumes`); the keepalive ends what is in
  vain (`OverdueDropped`).
- *Server and clients together*: once they have heard each other they agree who is the
  relay (`RolesAgree`), the relay and its direct members know each other
  (`Introduced`), it mirrors for those the server serves (`RelayMirrors`), what one
  says all others hear (`EveryoneHears`), and a peer that cannot be reached is served
  in the end (`ReachedOrServed`).
- *NAT detection*: a verdict comes and is right (`Decides`, `SymmetricIsSo`, `ConeIsSo`).
- *Codec*: `decode(encode(h, p)) = (h, p)` up to the length limit (`RoundTrip`), and
  nothing else is taken for a frame (`AcceptsOnlyFrames`, `CutRefused`).

## 2. The modules

| module | what it is |
|---|---|
| `Protocol` | names, addresses and the packets of the server, common to both sides |
| `Channels` | users, channels and the pure functions of the handlers |
| `SignalingServer` | the server's two tasks: one action per critical section, the specification |
| `ServerProperties` | what the server guarantees |
| `Membership` | the abstract specification: who is in which channel |
| `ServerMembership` | the refinement mapping from the server to `Membership` |
| `ServerLoop` | the main task's two sockets and two buffers |
| `PacketCodec` | encode, decode and what happens to a datagram between them |
| `NatDetection` | `detect_nat_kind` and the two probes |
| `PeerTable` | a client's table of peers and the pure functions on it |
| `Client` | one client process and its threads, for any datagrams |
| `ClientProperties` | what a client guarantees |
| `Piercer` | the composition: `SignalingServer`, client processes, the network |
| `PiercerProperties` | what they achieve together, and two claims of the documentation and the comments that fail |
| `MC...` | instances for TLC: inputs, endpoints, symmetry, constraints, views |
| `SignalingServerProofs`, `RelayProofs` | proofs about the server: types, sessions and the refinement of `Membership`; roles, passes and relayed traffic |
| `ClientProofs`, `NatDetectionProofs`, `ServerLoopProofs`, `PacketCodecProofs` | proofs about the client, NAT detection, the main loop and the codec |
| `PiercerProofs`, `HearingProofs` | proofs about the server and its clients together: who is told what; who hears what is said |

`SignalingServer` extends `Channels`, which extends `Protocol`; `Client` extends
`PeerTable`, which extends `Protocol`. `Piercer` extends `PeerTable` and takes
`SignalingServer` by INSTANCE, its state variables being `Piercer`'s own:
each step of the server there is an action of `SignalingServer`, driven by what
has arrived, with `net'` added. What a client does there is put together from the
same operators of `PeerTable` as `Client`.

Operators whose name is followed by "mutant of" in a comment are not part of the
model: each is the definition after it with a plausible bug, used to see that
a property would notice it.

### The server: state and code

| variable | code |
|---|---|
| `st` | the `ServerMap`; its keys are the `<<server id, channel name>>` pairs that have a channel |
| `lock` | who holds the tokio mutex *across* actions: the heartbeat during a pass, the main task once it has locked itself out |
| `main`, `notifyKey`, `snapshot` | the main task: at `recv_from`, in `handle_connect_notifications` with the clone `users_to_notify`, or stuck in `get_remaining_users` |
| `hb`, `unvisited`, `toCleanup`, `notes` | the heartbeat task: waiting for its interval, in `collect_heartbeat_data`, before `cleanup_empty_channels`; channels not yet done, channels found empty, packets collected |
| `out` | the packets the last step sent |
| `issued` | history: the identities sent in WELCOME |

| action | code |
|---|---|
| `Reconnect`, `Join` | the first critical section of `handle_connect_message`, WELCOME, and what a lone user is told |
| `AppointRelay`, `LeaveRelayToServer` | `handle_multiple_users_scenario`, the second critical section |
| `Disconnect` | `handle_user_removal`, up to the lock it never gets |
| `PeerTimeout`, `RequestRelay`, `Heartbeat`, `Pong`, `NatProbe`, `ForwardData` | the handlers of those messages |
| `Tick`, `ExpireUser`, `SettleChannel`, `SendNotes`, `Cleanup` | one round of `start_heartbeat` |
| `FallSilent` | forty seconds without a sign of life from a user |

### The server: abstractions

- **A channel's `Vec<User>` is a set.** The vector grows at its end, with the next
  peer id, and shrinks by removals that keep the order; vector order is peer-id
  order and "the first user that ..." is the one with the least peer id.
  `PeerIdsFromWelcome` (peer ids distinct and below the counter) is what makes
  this right, and it is proved.
- **Time.** `last_pong` is only ever compared with 40 s; `silent` is the result.
  A pass takes no time, so nobody falls silent during one.
- **Channel ids** are 64 random bits. A new channel gets an id no channel has had;
  zero (which would be drawn again) and collisions are left out.
- **Packets** are records with a destination, in unordered sets: UDP promises no
  order. A heartbeat notification of several lines is one packet per line, which
  is how the client reads it. A failed `send_to` is logged and ignored by the
  code, so every send succeeds here. Nothing in the server depends on a packet
  it has sent.
- **Sending is part of the critical section it belongs to.** Some packets are sent
  with the mutex held and some after its release; no handler looks at the map in
  between, and `LeaveRelayToServer` sends before it locks.
- **The heartbeat's order of channels** is a hash map's: any order. The model also
  lets the timeouts of one channel interleave with another's; channels share
  nothing during a pass, and the mutex is held throughout.
- **Names, addresses, server ids, channel names** are model values. Parsing is left
  out: a datagram is one of the eight well-formed messages. Anyone may send
  PEER_TIMEOUT and REQUEST_RELAY, about anyone: the code does not check.
- **After a DISCONNECT** the model keeps the main task in `remaining` with the lock
  for good, as the code does. `handle_disconnect_notifications`,
  `handle_relay_transition` and the notifiers only they use cannot be reached and
  are not modelled.

### The main loop

`waiting` is what is queued at the sockets 2131 and 2132, `buf_main` what was last read
into the main buffer. A datagram is a text, a frame of CONTROL with a text or with other
bytes, or a frame of media, with a size; any of them may come to either port. Decoding a
buffer cut to the length of another datagram finds the frame the buffer holds exactly if
that is no longer than the cut; a text overwrites the first four bytes, so nothing older
shows through. `TakeMain` and `TakeProbe` are the branches of the `select!`, `Outcome` what
both do with the buffer they decode: a CONTROL frame that is no UTF-8 is dropped like media,
and a frame that is not found, as at the second port, is passed on as text with its header,
which is no message `handle_message` knows.

### The client: state and code

| variable | code |
|---|---|
| `peers` | `Arc<Mutex<Vec<PeerInfo>>>` |
| `is_relay`, `channel_has_server_relays`, `send_via_server` | the flags of the same names |
| `paused`, `is_active` | `PunchState`, `RelayState`, each with a condition variable |
| `setup`, `main`, `current` | the main thread: whether it is still in `server_responses_during_setup`, where it is in the handling of a datagram, and which |
| `punch`, `keepalive`, `input`, `via` | where the other threads are; `via` is `s` of `user_input_loop` |

| action | code |
|---|---|
| `Receive`, `Greet`, `Handle...`, `BecomeRelay`, `NoteServerRelay`, `MarkPeerServed`, `HearData`, `PassOn` | `recv_from`, `handle_peer_message`, `process_incoming_message` and what it calls, cut where a mutex is released |
| `Respond`, `Update` | `process_server_response`, `update_relay_is_active` |
| `GiveUpSetup`, `StartThreads` | the end of the setup |
| `PunchCheck`, `PunchPass` | `hole_punching_loop` |
| `KeepaliveCheck`, `KeepaliveTop`, `Round`, `KeepaliveWakes` | `relay_keepalive_loop`, `relay_main_loop` |
| `TypeLine`, `SendViaServer`, `SendToPeers`, `Mirror` | `user_input_loop`, `handle_user_message` |
| `Age` | `created_at` and `last_pong` as they are asked for: 12 s and 60 s |

The server and the peers are a set `Inbox` of datagrams, any of which may come at any
time, again and again. MODE and USER_LEFT come from the server in it: the client would
take them from anyone (`handlers.rs:237`), but a peer runs this program and sends none.
`SwitchedAsRole` rests on that, since a role that came from a peer is not followed by
`process_server_response`. The table is a set, ordered by `created_at`. A mutex is held
across actions in one place only, between `SendToPeers` and `Mirror`, where the code
takes the role's mutex with the table locked; elsewhere a critical section is one
action. The pauses between punches are left out: their length is chosen from what was
punched at, and nothing depends on it.

### Server and clients together

A client is a record per user name (`clients`), `None` when no process runs. It handles a
datagram, or makes a pass of one of its threads, in one step. `net` holds, for each
address, sets of packets in the order they were sent; a step that sends several packets
to one address sends them kind by kind in the code's order (`Batches`). With `MayRestart`
a process of a user the server has known may start again. Hole punching works on the address pairs
of `Open`. Processes crash without a word (the client never sends DISCONNECT) and a
datagram to an address where nobody listens goes nowhere (`Vanish`).

What keeps it small enough to explore, and why it does not hide anything:

- heartbeats (HB) are not packets: a session falls silent, in 40 s, only when its
  process is gone and what it sent has arrived (`FallSilent`);
- passes of a thread and of the heartbeat are 15 s and 20 s apart (1.5 s for punches): a
  pass finds that the packets of the last one have arrived and the PONGs have come back
  (`Delivered`); passes that would change nothing at all are left out (`Busy`, `Doubtful`);
- an entry gets overdue (`Age`) only when the client does not hear of the peer again and again
  (`HeardOf`): of a peer that runs, over an open path, while one of the two pings the other.
  A running peer behind a closed path does get overdue, also one that is marked as connected
  by what came through the server. Sixty seconds are longer than what is on its way takes to
  arrive (`Drained`), and than the twelve seconds and one round after which a relay asks for
  a peer it has not reached (`Unheard`);
- a heartbeat pass is not interleaved with anything: it holds the mutex throughout and
  sends at the end. The interleavings with CONNECT's two halves remain. What a pass sends to
  one address arrives kind by kind (`Batches`), also when it hands the role on more than
  once; with one crash, as in the runs, it does so once;
- a user types a line when the last has arrived (`Silence`); who must hear it
  (`unheard`) is recorded when everything had settled before.

### NAT detection and the codec

`mapping` is the address of the client's socket as each port sees it; the network loses
answers and probes, copies up to `CopyLimit`, and delivers in any order. Datagrams are counted.
`PacketCodec` takes a frame through a datagram, cut to the size of one of the buffers of
`BufferSizes` or changed in one byte on the way, and decodes it. A number there is a
little-endian sequence of bytes, the lower half before the upper (`Le8` of two `Le4` of two
`Le2`); every width in bytes is the program's, and only the base of a byte is a constant,
4 in the run, so that the longest payload is 15 bytes and TLC can go over the limit.

## 3. The runs

The passing runs; each explores all its states, the longest in about four minutes.

| run | instance | checks |
|---|---|---|
| `server_sessions` | 2 channels of one server id, 2 users, 3 sessions (ann restarts at bob's address), 2 channel ids; CONNECT, DISCONNECT, PEER_TIMEOUT, HB, PONG, NAT_PROBE | `TypeOK`, `Control`, `NamesUnique`, `OneChannelPerServer`, `IdentityUnique`, `PeerIdsFromWelcome`, `IdentitiesSpent`, `ImplementsMembership` |
| `server_relay` | 1 channel, 3 users, cone or symmetric; CONNECT, PEER_TIMEOUT, REQUEST_RELAY, DATA | `EligibilityAgrees`, `RelayIsSenior`, `PassSettles`, `SnapshotCovers`, `HeartbeatKeepsRelayPresent`, `ServerRelayedHear` |
| `server_liveness` | 2 channels, 2 users, cone or symmetric, with fairness; CONNECT, HB, PEER_TIMEOUT, DATA | `ReturnsToListening`, `SilentUserDropped`, `EmptyChannelReclaimed`, `ServerRelayedHear` |
| `packet_codec` | 3 kinds, fields at their bounds, payloads of 0 to 16 bytes (one over the limit), buffers of 42 and 45 bytes, any one byte changed | `RoundTrip`, `CutRefused`, `AcceptsOnlyFrames` |
| `nat_detection` | every mapping onto 2 addresses and 2 ports, losses, 1 copy | `SymmetricIsSo`, `ConeIsSo`, `Decides` |
| `client_threads` | a peer and the client's own name, every kind of datagram, lines typed, with fairness | `TypeOK`, `SwitchedAsRole`, `OneEntryPerAddress`, `ServedSettled`, `ServedStay`, `MainReturns`, `RelayKeepsAlive`, `PunchingResumes`, `OverdueDropped` |
| `piercer` | 3 users, sam symmetric, in any order; one line and one crash, in any order | `RolesAgree`, `Introduced`, `RelayMirrors`, `EveryoneHears` |
| `piercer_liveness` | 2 users no punching brings together, one may crash, with fairness | `ReachedOrServed` |

The server's heartbeat runs in all runs of the server and of `Piercer`.

`server_sessions` asks about identities: restarts, moves between channels, addresses that
change hands, DISCONNECT. `server_relay` asks about roles in one channel, `server_liveness`
about what must happen in the end and about DATA where a user can be found in one of
two channels. `client_threads` puts no order on what a client receives, so it holds of any
server and of peers that lose, repeat or reorder. It has one peer, so that the liveness of the
threads can be explored with every datagram; for any number of peers and addresses, shared
or not, its safety properties are proved (section 4). `piercer` has the server's own packets,
in order, and asks whether both sides agree.

**Bounds.** `PeerIdLimit` stops the joins of one channel once its counter has reached it; with
it and the finite `ChannelIds` the state space is finite. A limit of 4 is enough for a user to
join, be replaced by its own restart and be joined by the other; 6 for three users to join and
two of them again. Two channel ids let a channel be removed and created again, and let two
exist. The other bounds are the sets of users, addresses and channels: properties relate at most
two users or sessions of one channel, or two channels of one server id, and one
more user that is the relay. `QueueLimit` (2) bounds what waits at a socket: what a branch does
depends on its datagram and the last one of the main socket. `InstantLimit` (2) bounds the
`created_at` that are told apart: one for each other user, so entries are older and newer than
one another, and an entry that goes can come back as the newest. `CopyLimit` (1) is enough
for one answer to be read twice. `StartLimit` and `CrashLimit` count the processes started
and crashed: one crash gives a failover. `LineLimit` (1): a line may be typed before, during
and after a failover, and change what the members know of each other. `piercer` has no
constraint: its 920 633 states are all there are within these bounds, up to symmetry.

**Symmetry and view.** Users of `AtHome` (of `MCSignalingServer`) are interchangeable together with their
addresses; channels and ids are interchangeable everywhere. In `piercer` ann and bob are, with
their addresses (`Alike`), and sam is not. Liveness runs use no
symmetry. `WithoutPackets` leaves the packets sent last out of the fingerprint of a
state: no guard reads them, and the properties about packets are action properties,
evaluated on every step. `Piercer` keeps what it sends in `net`, which is in its view.
The liveness runs use no view.

**Fairness.** Of the server: `WF_vars(HeartbeatStep)`: the interval fires for ever and its task
is scheduled; `SF_vars(AppointRelay \/ LeaveRelayToServer)`: a handler that waits
for the mutex gets it although the heartbeat takes it again and again, because
tokio's mutex serves its waiters in order of arrival. Of the client: its threads run,
and get the table's mutex, which others hold for a few sends at a time and with pauses
between (strong fairness: other threads make a step impossible for a moment, again and
again); the setup's deadline passes however many datagrams come. Of NAT detection: the
600 ms pass. Of `Piercer`: what has been sent arrives or vanishes, the tasks and
passes go on, and time passes for entries and sessions; the passes are strongly fair,
since packets of others keep disabling them for a while. Nothing anywhere makes a client
start, crash, send or speak.

**Deadlock** is not checked: the systems may stop, because clients are silent, a bound has
been reached, or all is said. What must go on is said by liveness properties.

**Violations.** Four runs check a sentence of the documentation or of a comment and show that
the code does otherwise:

| run | what is said | what happens |
|---|---|---|
| `claim_disconnect` | the server returns to listening | DISCONNECT locks the map it has locked; the server stops for good |
| `claim_restart` | a user alone is set into RELAY mode | not a client that restarts at the address it had: it is taken for the user the channel already has, and told nothing |
| `claim_source` | a user's address is the source of its datagram (`doc_signaling_server.md:42`) | ann sends a CONNECT frame of 50 bytes to the main port; a text of 50 bytes from bob to the second has ann's CONNECT handled once more, for bob's address |
| `claim_mirror` | a relay mirrors to the server for the members it serves (`networking.rs:338`) | sam, symmetric, says something before ann, the relay, crashes; it reaches bob, who takes sam for connected; bob succeeds ann, never asks the server for sam, and does not mirror |

### Where else the code and its words part

The models do the following too, because the code does. Each is a reason for a
condition in a property above, or for a property that is not stated; none has a run of its own.

- *Cleanup* (`heartbeat.rs:245`): channels a pass found empty are removed after it has given
  the mutex back, without another look. A user who joins between is deleted with
  the channel; in `Membership` that is `Forget`.
- *PEER_TIMEOUT* (`notifications.rs:360`) appoints nobody unless one user is left, so the
  lost relay of three stays relay on record ("update relay if needed" is the comment). It takes
  whoever is left, symmetric or not, and tells it of the departure only.
- *Failover* (`heartbeat.rs:36`) introduces all users with MODE DIRECT, symmetric ones too;
  the documents give those MODE SERVER_RELAY only.
- *A newcomer's address* (`notifications.rs:213`) goes to the relay only, not to every user.
- *REQUEST_RELAY naming the relay* (`request_relay.rs:60`) makes it one of those the server
  relays for: its own mirror comes back to it, and it mirrors that again.
- *Frames at the second port* (`signaling_server.rs:53`, `:62`): what comes there is decoded from
  the main socket's buffer (`claim_source`), so a frame is never found in its own and comes
  to nothing.
- *NAT answers* (`networking.rs:41`): two copies of one answer pass for the answers of two
  ports, and a symmetric NAT for a cone. Hence `copies = 0` in `ConeIsSo`.
- *Two entries of one name* (`handlers.rs:119`): MODE SERVER_RELAY marks the older one, and the
  newer is still punched.
- *A line typed while the mode changes* (`networking.rs:362`) goes to the peers after "I
  will send via server from now on": the flag is read before the table is locked.
- *MODE SERVER_RELAY before MODE RELAY* (`handlers.rs:108`): only a client that is already the
  relay notes that it must mirror. If UDP swaps the two, it never does. `RelayMirrors` holds
  for datagrams in order.
- *A successor that has heard a symmetric user through the server* (`handlers.rs:204`) takes
  it for connected, never asks for the server's relay, and never mirrors (`claim_mirror`).
  Sixty seconds after that user's last line it takes the user for lost and reports it, and the
  server removes a member that is well (`networking.rs:200`). `RelayMirrors` is about a relay that *has* reached its
  peers, over paths that are open, or has them served (`Placed`); `piercer` has the lines before
  and after the failover in it.
- *PEER_TIMEOUT goes by name* (`networking.rs:168`, `:200`): when a user has restarted at
  another address, the entry of the old address times out and costs the user its new session.
- *Own address* (`handlers.rs:44`): a client keeps its own name out of its table but not its
  own address, which may have been another's.


## 4. What is proved

Each for every value of the constants, from the named assumptions on them (TLC
evaluates them in every run) and, for a few, the hypotheses given with them.

**The server** (for every set of names, addresses, channels, channel ids, NAT kinds,
endpoints and commands, and every `PeerIdLimit`):

1. `TypeCorrect` and `ControlHolds`: `TypeOK` and `Control`. `Control` is needed for the types
   (`notifyKey` is a key only while a join waits), and later says that nobody but
   the heartbeat moves during a pass. The arithmetic is that the least peer id of a
   set of users exists (`FirstIsLeast`, by well-foundedness of the naturals).
2. `SessionsCorrect`: `SessionInv`, the conjunction of `NamesUnique`,
   `OneChannelPerServer`, `IdentityUnique`, `PeerIdsFromWelcome`, `IdentitiesSpent`
   and `SymmetricServed`. None of the first four is inductive alone: that a newcomer's
   identity is new needs the counter to be above every id the channel ever issued
   and channel ids to be distinct (`IdentitiesSpent`); that names stay unique needs that
   a session already present goes through `Reconnect`. All actions but `Join` bring
   nobody in (`NobodyNew`: every user after the step is, up to silence and
   `needs_server_relay`, one from before), and one lemma shows that such steps
   preserve the invariant; `Join` has a proof of its own.
   `EligibilityAgreesHolds` follows from `SymmetricServed`: nobody behind a symmetric
   NAT is without `needs_server_relay`.
3. `RelayCorrect`: `SnapshotCovers` and `RelayIsSenior`. The relay appointed in the
   second half of a CONNECT is the first eligible user *of the snapshot*; it is
   senior in the channel as it is by then because whoever is still there is in the
   snapshot, unchanged but for silence (`UsersWhileNotifying`). While a join waits its
   channel is excepted, and the appointment is what brings it back.
4. `HeartbeatKeepsRelayPresentHolds` (an action property) and `PassSettlesHolds`.
5. `ServerRelayedHearHolds`, another action property, if there is one server id and no two
   endpoints share an address, as in the instances it is checked on: then the source of a
   DATA packet is in one channel only (`OneChannelPerServer`, and that ids are issued to
   endpoints), so no other channel that the hash map offers first can take the packet. Without
   either condition it fails: a source that two channels know is served in one.
6. `MembershipImplemented`: `Spec => ImplementsMembership`. A join is `Enter`, and that the
   identity is fresh is `IdentitiesSpent`; that replacing the old sessions of
   a name and sweeping the other channels is what `Enter` says rests on
   `NamesUnique` and `OneChannelPerServer`. A timeout is `Leave` in one channel, DISCONNECT
   and PEER_TIMEOUT too, the cleanup `Forget`; everything else stutters.

**The client** (for every inbox, every set of names and addresses): `ClientCorrect`, an
invariant of types, control points and roles, the entries' distinct addresses and settled
flags. `SwitchedAsRoleHolds` needs it strengthened by what holds *between* the steps of the
main thread: the role may be ahead of the keepalive's switch only while the thread
is on its way to `Update`. `OneEntryPerAddressHolds`, `ServedSettledHolds` and the
action property `ServedStayHolds` come from lemmas about the operators of `PeerTable`.

**NAT detection** (for every set of addresses and every `CopyLimit`): `SymmetricIsSoHolds`, since
what is read is what some port sees; `ConeIsSoHolds` (right about cones as long as nothing
has been copied) by counting: until then the probes, answers and readings of one port are at
most one together, so two readings are of two ports.

**The main loop** (for all datagrams that can be sent to either port, `Sendable`):
`ProbesAnsweredHolds`. A frame is at least a header long, so none is found in a shorter text,
whatever the buffer holds: the bug of the probe branch (`claim_source`) does not reach the
NAT probes. Here no run stands beside the proof.

**The codec** (for every base of a byte from 4 up, every magic, every set of headers,
payloads and buffer sizes, and any one byte changed): `RoundTripHolds`, `CutRefusedHolds`
and `AcceptsOnlyFramesHolds`, from one invariant of the three stages (`CodecCorrect`). The
lemmas are that the numbers of two, four and eight bytes come back as they were written and
are written as they were read, each width from the one below by division with remainder, and
where each field lies in the thirty bytes.

**Server and clients together** (for every number of users, addresses and lines, every NAT, in
one channel): `RolesAgreeHolds`, `IntroducedHolds`, `RelayMirrorsHolds` and
`EveryoneHearsHolds`, in `HearingProofs`, under two hypotheses.

- `OneChannel`: there is one channel to connect to. Packets of `Piercer` do not say which
  channel they are about.
- `CrashLimit = 0`: no process crashes. What crashes do is left to TLC, and with a restart
  after one the properties do not hold: a relay that restarts at its address has forgotten
  its role, is still the relay on record, and is told nothing (`claim_restart` shows the
  same of a user alone). Without a restart, PEER_TIMEOUT stands in the way: sent by a relay
  that has crashed and been dropped since, it can leave one user, who is made the relay
  and not told (section 3). `LoneMemberRelaysWithoutCrashes` is the other half of that finding:
  what the document says of a user alone is true as long as nobody crashes.
  `MirrorsForServedWithoutCrashes` is that of `claim_mirror`.

Everything else is free: who joins when, behind what NAT, at what moment the heartbeat makes a
pass between the halves of a CONNECT, what each thread does in between, which paths punching
opens, when a relay gives a peer up for the server to serve, when and where lines are typed.
The properties speak of moments when nothing is on its way, and none is inductive. The
invariant of the first three (`Calm`, in `PiercerProofs`) says of every moment what will be true
of those:

- *what is on its way is true* (`Mail`): CONNECT is its sender's own, MODE DIRECT gives a
  client that runs, at its address, and MODE RELAY goes to a member; nobody is ever reported
  or dropped. So tables hold only clients that run (`Tables`), and no user falls silent;
- *the relay has been told, or will be* (`Told`): the relay on record, and it is the eligible
  member with the least peer id, and no other eligible member has been told (`Roles`). A
  newcomer cannot have been, since MODE RELAY goes to members only;
- *the relay and each direct member know, or will be told of, each other; for each served
  member the relay mirrors, or will* (`Knows`, `WillMirror`, `Pairs`), except while the
  join of the last member waits for its second half, whose `JoinNotices` say all of it
  again. `WillMirror` is where order matters: a MODE SERVER_RELAY on its way counts only if
  its reader is the relay or a MODE RELAY is on its way before it.

A step of a client is described by what it hears and sends (`ClientMoves`), a step of the
server by the packets it adds, and one lemma each for what that leaves of the network: the
queue of an address loses from its head and gains at its end, in order (`Moved`, from lemmas
about sequences of sets). Then each action of `Next` has a lemma of its own. The one that
`Calm` cannot carry alone is the relay's keepalive: it must not report a peer that runs, which
it would if it could not reach the peer and nobody told it that the server serves the peer.
`CalmNext` therefore assumes `Heeded`, that no peer the relay watches is overdue, and the second
invariant provides it, so the two are shown together (`AttentiveHolds`).

**Who hears what is said** (`EveryoneHearsHolds`, in `HearingProofs`, under the same two
hypotheses). `EveryoneHears` is about members that have not heard the last line when nothing
is on its way; its invariant (`Attentive`, next to `Calm`) says that there is something on its
way as long as one of them has not. Its parts need each other:

- *nobody believes more than the server has decided* (`GenuineMail`, `TrueTables`, `TrueNotes`).
  MODE and REQUEST_RELAY on their way, and every entry and flag of a client, name the relay on
  record and users the server serves. An entry is marked as connected only if the path to it
  can be opened or the server serves one of the two (`Clear`). This is where a line is evidence:
  it marks its author as connected in whoever hears it, so a line must come from a relay, from
  a peer over an open path, or from or to a served user (`Reaches`);
- *who is served uses the server* (`TrueRoles`, `WillUseServer`): a MODE SERVER_RELAY with the
  user's own name is on its way to it, or it sends to the server. The relay is never served,
  which REQUEST_RELAY could break: a relay asks only for others, since no table has its
  owner's name;
- *the relay is told in time* (`Timely`): of a peer it watches nothing is overdue; if it has asked
  for the peer, the request is on its way or the server serves the peer; and if the server
  does, a MODE SERVER_RELAY is on its way to the relay, behind every MODE DIRECT that could put
  the peer into its table anew. `Unheard` lets an entry of the relay get overdue only when it
  is connected or asked for and nothing is on its way: asked for, the peer is served and
  the relay knows; connected, the path is open or the peer served (`Clear`), and over an open
  path the relay hears of it (`AgeAttends`);
- *a line on its way will be copied to whom it has yet to reach* (`Carries`, `LineComes`). It is
  on its way to the user itself; or to the server, from a served author or from the relay, and
  the server will forward it to the user (`ForwardsToAll`); or to a relay that has the user in
  its table over an open path, or that mirrors for a user the server serves (`PassedComes`).
  When a line is taken, each member it was coming to has heard it or gets a copy of its own
  (`HearDataAttends`, `ServerHearsLine`), and nothing takes the means away: tables, roles and
  whom the server serves only grow without crashes (`Grew`, `Remembers`);
- *typed in a settled channel, a line starts out like this* (`SettledTyped`): `Settled` says
  that entries are connected, hence clear, and that there is a relay or everyone is served
  (`SettledChannel`); with `Calm`'s `Pairs` the relay has everybody in its table or mirrors for
  them.

**Assumptions.** All are named in the modules that declare the constants. The ones that carry
the most are that names, addresses and channels are not `None` (`NoneAssumption`,
`ProcessAssumption`), that endpoints are pairs of a name and an address, and that the
server's address is nobody else's (`ServerAssumption`).

Only model-checked:

- `RolesAgree`, `Introduced` and `RelayMirrors` when a process has crashed: `piercer` checks
  a failover of three users;
- all liveness properties, and `Decides` of NAT detection: they rest on fairness, which is
  beyond the prover.

## 5. What is not modelled, and what is left

- **Cannot be reached**: after a DISCONNECT the server does nothing more, so
  `handle_disconnect_notifications`, `handle_relay_transition` and the notifiers only
  they use (`notifications.rs`) never run.
- **Nobody reads it**: `channel_id` and `my_peer_id` of the client (never set either: WELCOME has five
  words where the client wants three), `relay_started`, `nat_kind` of an entry (always Unknown).
  `NatKind::Public` is never detected.
- **Payloads over 65535 bytes** are cut by `encode` without an error. `PacketCodec` models
  it; no UDP datagram is that long, so no property is about it.
- **Timing**: the pauses between punches, the lengths of the periods. Durations are
  compared with limits and the results are what is modelled.
- **Failed sends and receives**: a failed send is logged and ignored; a lost packet shows the
  same. A failed receive is ignored by the server (`signaling_server.rs:37`, `:52`) and ends
  the client's process (`client.rs:441-443`), which is a crash of `Piercer`.
- **Loss** is modelled in `NatDetection`, and in `Piercer` for processes that are gone
  and paths that cannot be opened. MODE packets to a client that runs are not lost
  there: nothing repeats them, and each of the first four properties fails at once. Nor is
  REQUEST_RELAY, sent once for an entry: without it `ReachedOrServed` would have to wait for the
  entry to time out.
- **Vectors and the role's mutex**: removal from a vector by index (`networking.rs:229`,
  `heartbeat.rs:145`) is removal from a set, and the mutex of the role, which is never held
  while another is waited for, is no variable of `Client`.
- **Command line, console, logging, deployment files**: no state another part depends on.
- **A restart together with the cleanup race** (section 3) breaks `ReachedOrServed`
  too: REQUEST_RELAY for a channel that is gone is ignored and never repeated. That
  is why `piercer_liveness` has no restart.

What could follow: `Calm` for processes that crash and stay away (silent members, a relay on
record who has gone, a stale snapshot); larger instances of `Piercer` (four users, two
channels); and, when DISCONNECT is repaired, the handlers behind it.
