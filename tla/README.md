# T-meet: a verification of the meeting server

T-meet is a self-hosted video meeting: a Rust server (crates `meet-core`, `meet-server`,
`meet-sfu`) with an HTTP API, a WebSocket signaling channel and a selective forwarding unit
(SFU), and a browser client in TypeScript. This directory holds TLA+ models of its core, the
configurations under which TLC checks them on small instances, and theorems about them whose
proofs TLAPS checks for all instances. Paths below are relative to `src/`.

## 1. The system

| Component | State | Operations | Interacts with |
|---|---|---|---|
| Signaling connection task (`meet-server/src/signaling/conn.rs`) | one tokio task per WebSocket: join state, last time a frame was heard, its end of the queue | `Handler::run`, `run_loop`, `handle_client_msg`, cleanup | registry, SFU, database (room lookup) |
| Registry (`signaling/room_hub.rs`) | rooms → participants → display name, key, sender of a bounded queue; one mutex | `join`, `leave`, `broadcast`, `send_to`, `set_pubkey` | called by every task; queues back to the tasks |
| SFU (`meet-sfu/src`) | rooms → participants → peer connection; one mutex, cap of 30 | `on_join`, `on_offer`, `on_answer`, `on_ice`, `on_leave` | called by the tasks; forwards media |
| Peer list in the browser (`frontend/src/lib/store.ts`, `chat/store.ts`) | `session.peers`, keys of the peers | `setPeers`, `addPeer`, `removePeer`, `recordPeerKey` | driven by the server's messages |
| Join rate limiter (`middleware/rate_limit.rs`) | (address, room) → start of the window, count; one mutex | `check` | join endpoint, chat |
| Join endpoint (`routes/rooms_public.rs`) | none of its own | `join`: limiter, row, password, secret, token, audit | limiter, database |
| Admin API (`routes/admin.rs`, `middleware/admin_auth.rs`) | none of its own | `create_room`, `delete_room`, `list_rooms`, `get_room` | database |
| Tokens, secrets (`meet-core/src/auth`) | none | `issue_room`, `verify_room`, … | join endpoint, connection task |
| Database (`meet-core/src/db`) | tables `rooms`, `audit_log`, `participants` | insert, get, delete, append | all handlers |
| Data directory (`meet-server/src/init.rs`, `serve.rs`, `admin.rs`, `meet-core/src/crypto`) | five files: sealed CA, CA certificate, leaf certificate and key, sealed admin secret | `run_init`, `load_or_rotate`, `regenerate_admin_token`, `status`, `doctor` | several processes over one file system |
| Browser client (`frontend/src/rtc`, `frontend/src/chat`, `frontend/src/pages/Room.tsx`) | socket, reconnect timer, backoff, offer, key pair, keys of the peers | `connect`, `close`, socket events, `attachLocalAndOffer`, `recordPeerKey`, `announcePubkey`, leave, back | signaling channel |
| HTTP plumbing, configuration, ids, logging, user interface | none that matters here | | |

What is hard in it:

* **Interleaving.** Each connection is a task of its own. Tasks meet only in three mutexes
  (registry, SFU, limiter) and in the queues; between two critical sections anything may happen.
  A join is three of them (register, announce, SFU), a departure three more (unregister, announce, SFU).
* **Identity.** The registry and the SFU are keyed by participant id, the tasks by socket. A
  participant that reconnects has two tasks for one key.
* **Bounded queues and blocked writes.** A full queue loses messages; a client that does not
  read blocks the task that writes to it.
* **Partial failure.** Most results are ignored (`let _ =`): the SFU's refusal, a full queue, a
  failed audit entry. Early returns skip the cleanup.
* **Requests over a database.** Every `.await` is a point where a room may be deleted or the
  handler may be dropped along with its client.
* **Files without locks.** `init`, `serve` and `admin token regenerate` are processes of their own
  that truncate and rewrite the same files; each may be killed between any two writes.
* **A browser's events.** Sockets open, fail and close late, a timer is pending while the user
  leaves, and everything about keys waits until libsodium has loaded.
* **Time.** Idle limits, windows and token lifetimes, compared with clocks read at other moments.

What must be right, per component, is listed with the modules in section 3; the hazards, each
at its line, are in `PROJECT.json`.

## 2. The modules

```
RoomHub        the registry and its queues: operators on shared state
  Signaling    the connection tasks, the SFU's table and the clients' network
    Roster     what browsers make of the messages            (MCRoster, DeliveryProofs,
                                                             RosterProofs)
    MCSignaling, SignalingProofs
Presence       abstract: who is in the room and whom each client will list
               (Roster implements it; PresenceProofs)
RateLimiter    RateLimiter::check with its clock and mutex   (MCRateLimiter, LimiterProofs)
  Rooms        rooms table, audit log, joins, admin API, tokens, sockets' admission
                                                             (MCRooms, RoomsProofs)
DataDir        the data directory and the commands over it   (MCDataDir, DataDirProofs)
Browser        one tab: signaling client, room page, keys    (MCBrowser, BrowserProofs)
```

`Signaling` EXTENDS `RoomHub` and calls its operators inside its actions, as the tasks call the
registry inside its mutex. `Roster` EXTENDS `Signaling` and conjoins to each of its write steps the
browser's reaction. `Rooms` EXTENDS `RateLimiter` and conjoins its actions with those of the
handler; that the composed system is an implementation of the limiter's own specification is
both checked and proved. `Presence` stands for itself; `Roster` instantiates it with a refinement
mapping (`Stage`, `View`) and states `KeepsPromise`.

## 3. What each module models

### RoomHub and Signaling

One room, because rooms share nothing but the mutex. A connection (`Conns`) is one WebSocket,
with its participant id `PidOf[c]` given by its token. `pc[c]` says at which await or between
which two critical sections the task is; the list is at the head of the module. Each action runs
from one such point to the next and is everything the code does in between:

* `HubJoin` is `RoomHub::join` with the message 4409 to the connection it replaces and the
  snapshot for `Joined`; `SendJoined`, `AnnounceJoin`, `SfuJoin` are what follows in `run`.
  `SendJoinedFails` is the early return of conn.rs:188.
* In the loop, `DrainOut` takes a message off the queue and writes it, or blocks (`sending`) while
  the client does not read; there is one action for each kind of frame; `Heartbeat` is the idle check.
* `Leave`, `AnnounceLeft`, `SfuLeave` are the cleanup; `ExitLoop` drops the receiver.
* `session[p]` is the connection for which `on_join` made the `PeerSession` the SFU's table holds under
  p, `media` the connections whose `RTCPeerConnection` is open. `SfuJoin` overwrites the session an older
  connection of the participant left in the table and closes nothing (`HashMap::insert`, room.rs:19-21);
  `SfuLeave` goes by participant id and closes whatever session is there.
* `owner[p]` is the connection whose sender the registry holds under p. `lagged` is a history
  variable: connections that have lost a message to a full queue.
* The client is free: `Disconnect`, `Stall`, `Unstall`, and any frame of `Frames[c]` at any time.
* `Silence` is one heartbeat period without a frame. `quiet` counts periods, up to `IdleTicks`.

Abstracted: payloads, display names, JSON; what the SFU's peer connections do while they are open (an
offer is answered or fails); the chat limiter (a message is allowed or not,
`ChatAll`/`ChatTo`/`ChatDenied`); the steps before registration are one refusal or success here and are
modelled in `Rooms`.

### Roster

`roster[c]` maps what c's browser lists to the key it was last told. `Shown` translates the
listeners of `Room.tsx` and the two stores. The write of a message and its arrival are one step,
because the socket is FIFO and what a client may do next does not depend on how far behind it is.

### Presence

What the signaling server promises about one client to another, without queues, messages or
participant ids: a client is outside, inside, announced, leaving or gone (`stage`), will list some
others once it has read what is under way to it (`view`), is still written to (`hearing`), or was too
slow for something (`missed`). Arrivals and departures are told to everyone present at once, in one
order, except to those who miss them. In the mapping, `view` is what the browser's list will be after
the queue (`Prospect`), so the snapshot of `Joined`, the broadcasts and the reads of the queue all
have to fit; the promise is one for clients with a participant id each: its clients are the connections
whose participant has no other (`Soles`).

### RateLimiter

`check` reads the clock (`ReadClock`) and then enters the critical section (`Pass` or
`Refuse`); other calls and the clock come in between. `Lag` bounds how long a call sits between
the two; it is a parameter, and the properties name what it costs. `passed` is a history
variable: when each allowed attempt was counted. A scope is a pair (address, room).

### Rooms

`req[q].pc` is where a request is, `table` the rooms table, `log` the audit log. Each step runs
from one database call to the next. `Record` either writes the entry or loses it (`lost`, history):
the code ignores the result. `Drop` is the client going away: hyper drops the handler at whatever
await it is, and what the database did before stays done. A request to join knows the password or
does not, which is chosen freely. `late` is a history variable: requests and sockets that arrived
after their room had been deleted. A socket presents any token that was handed out to any room.
A token is the request it was issued to (`sock[k].of`), with the room and the expiry of that request.

The limiter's clock (monotonic) and the tokens' clock (system time) are one clock here. Restarts
are not modelled, except that rooms may be there from the start; a restart also empties the
limiter, which only an operator can cause. A body that is not JSON is refused before the handler
runs and is left out. The admin token's verification, a bad field, a failed insert and a failed
delete are the outcomes of `Reject`, which changes nothing.

### DataDir

`pc[p]` is the file a process is about to write or the step of its start it is at, `mem[p]` what it
has read or made. `RunInit` and `Regenerate` draw what they need and then write file by file:
`Truncate` and `Fill` are the two halves of `fs::write` and `write_file_0600`, so a reader between
them, or a kill, finds the file `Torn`. `After` is the order of the writes. A server's start is
`LoadCa`, `LoadPem`, `LoadKey` or `Reissue` (then two writes), `LoadAdmin`, `Listen`; where the code
returns an error the process ends (`Exit`). `Kill` ends any process at any point. `Report` stands for
the commands that change nothing: a refused `init`, `status`, `doctor`; what they say is in `Missing`,
`DoctorFails` and `ReportedLeaf`. `DoctorRight` holds doctor to both sides: it fails whenever a start of a
server does (`GivesUp`), damage inside the files aside (`Damaged`), and calls nothing missing that a start
can do without.

The cryptography is what it depends on: a key is the passphrase and salt it is derived from, a blob
opens with the key it was sealed with, a certificate names its key pair, its CA and its first day.
Every random draw is a number of its own. `cut` and `overtaken` are history variables: a command was
killed on its way through its writes, or two rotations overlapped; a running server beside which
another has rotated.

Assumed: a process may be killed but the machine keeps what was written (no power failure); a day does
not pass while a handful of files is written; the shell runs one command at a time; nobody deletes or
restores files by hand. A leaf's five minutes of back-dating (leaf.rs:83) are less than a day here.

### Browser

One tab. An event runs to its end, as in JavaScript; `tasks` are the continuations that wait for
libsodium, run in order before the next event once it is `ready` (`Settled`). `client` is the
`SignalingClient` of the current visit: its socket, its timers (and whether `reconnectTimer` holds the
handle of one), backoff and `intentionalClose`. `socket[s]` is a WebSocket's state; its close event comes
whenever it comes (`Closed`), with a terminal code or another, and reaches only the client that made it
(`owner`). A socket that is closed may stand for a new one, so two suffice for the one being closed and
the one being opened. `Enter` is the effect of Room.tsx that makes the client, connects and starts the
offer; `Leave` is the button, `GoBack` the browser's back button, which unmounts without clearing.
`offer` follows `attachLocalAndOffer`, and `media` is the connection at whose server side the offer
arrived. The server's messages (`Hear...`) are `Joined` and then any others, also about somebody who is
not listed: a `PeerJoined` may have been lost to a full queue (`lagging`), and a `PeerLeft` may come
between the recording of a key and its broadcast. `failed`, `dismissed`, `announced` and `excused` are
history variables; `excused` holds those not listed whose key was under way, or told, or left behind by a
new list, since the last event that drops it.

Left out: a URL that the WebSocket constructor rejects (it is built from the page's own), media feeds,
what is said in the chat, candidates and answers.

## 4. The runs

| Run | Instance | What it shows |
|---|---|---|
| `server` | c1, c2 share a participant, c3 is another; queue of 1, SFU cap of 2, faults | `HubServed`, `LiveRegistered`, `EmptyRoomDropped`, `SfuServed` |
| `frames` | 2 participants, SFU cap of 1, all frames, stalls and SFU faults | `TypeOK` (queues keep their bound), `SfuWithinCap`, `KeyRecordedByItsOwner` |
| `roster` | 2 browsers, queue of 2, stalls, fairness | `RosterAgrees`, `KeysAgree`, `NotOwnPeer`, `SilentIsClosed`, `GoneIsForgotten`, `DepartureSeen`, refinement of `Presence` (`KeepsPromise`) |
| `limiter` | 2 threads, 2 scopes with limits 2 and 1, window of 4 ticks, 2 ticks a second, lag of 1 | `LimiterTypeOK`, `TwoWindowsApart`, `RefusalDeserved`, `HintSuffices` |
| `rooms` | 2 joins, 2 admin requests, 1 socket, 2 rooms, limit of 1 | `RoomsTypeOK`, `DeletedStaysShut`, `AdmittedOnRecord`, `LogFaithful`, `LogPaced`, `Undisclosed`, refinement of `LimiterSpec` |
| `datadir` | 2 servers and a shell, 2 passphrases, rotation at 1 of 2 days, 2 days, 3 commands that draw, 1 kill, fairness | `DirTypeOK`, `ServedLeafTrusted`, `LeafOutlastsStart`, `RoomsStayReadable`, `DamagedOnlyByCut`, `DiskLeafIsServed`, `DoctorRight`, `ServesAgain` |
| `browser` | 1 tab, 1 other participant, 2 sockets, 3 visits, 2 waiting continuations, fairness | `BrowserTypeOK`, `OneLine`, `QuietAfterLeave`, `DelaysDouble`, `KeyPerStay`, `KeysForgotten`, `KeepsCalling` |
| `replaced`, `lagging`, `ghost`, `regenerate`, `offer` | small | five statements of the docs that the code does not keep (section 6) |

Bounds, and why they are enough for the question asked:

* Three connections with two ids are the fewest in which two cleanups of one participant race
  each other and a third party watches. With a cap of two they both replace a session in the SFU and,
  when the third is in, are refused; the cap itself is checked with two participants and a cap of one.
  A queue of one message overflows at the second; the
  roster's two, so that a `PeerJoined` and a `PeerLeft` can wait together. The agreement of rosters
  is about one observer and one observed, so two browsers suffice for it.
* `IdleTicks = 0` (`server`) lets the idle close happen at any time, which includes every real
  limit; the run about time uses 1.
* `Frames` is what the run's question needs: all kinds in `frames`, only those that end the
  connection in `server`, only one client's key announcements in `roster`.
* `limiter`: time runs to 7 with a window of 4, so a window ends and another begins; `Lag` 1 lets
  a call be judged against a bucket started after its reading. Time stops at `MaxTime`; calls go on,
  and the history stays finite because the limiter lets no more through.
* `rooms`: a limit of 1 and two joins make the limiter refuse; time runs to a whole window so
  that it also restarts; tokens live for 1, so that they expire; two rooms so that a token can be
  presented to another; two admin requests so that a deletion races another or a creation.
* `datadir`: an `init` and two `regenerate`, or one and a rotation, fit three draws; two days let a
  leaf become due and expire beside a running server; one kill is enough to cut any command, and two
  servers are the fewest that rotate at once. The bound on draws limits the shell's commands only, never a
  rotation, so that liveness is not helped by it.
* `browser`: three visits let a socket of the first close during the third; five failed attempts
  reach the cap of the backoff, at which the count may stop (`BrowserAssumption`); two continuations
  are an announcement and a clearing in either order.

No run switches the deadlock check off: the models end in an explicit step (`Idle`,
`RoomsDone`, `Stay`) that is enabled only when everything is over, so a task stuck anywhere would be
reported. `DataDir` has no end: an idle shell can always ask for a report.

Fairness (`Signaling!Fairness`): weak, for each action of a task that needs nothing from its
client. The runtime polls every task that can proceed; `select!` picks its branches in random
order, so a branch that stays ready is taken; heartbeat timers fire (`Silence`, `Heartbeat`).
Nothing is assumed of clients: they need not read, send or disconnect. The write steps are fair
only while the socket takes the bytes. A client that never reads blocks its task for ever, and one
that stops again and again may block it whenever the heartbeat is due (section 6): `SilentIsClosed` and
`DepartureSeen` say so in their last disjunct.

`DataDir!DirFairness`: a process that runs goes on, and systemd starts the service again and again
(`Restart=on-failure` in the unit of docs/OPS.md) with the passphrase of its environment. Nothing is
assumed of the shell beyond finishing what it began. `Browser!BrowserFairness`: timers fire, continuations run
and a socket being closed is closed; nothing is assumed of the network, the server or the user.

## 5. What is proved

For every value of the constants that satisfies the named assumptions (`HubAssumption`,
`ConnAssumption`, `LimiterAssumption`, `RoomsAssumption`, `DirAssumption`, `FileAssumption`,
`BrowserAssumption`), which TLC evaluates in the runs.

**`SignalingProofs`**: `TypeCorrect`. The inductive invariant is `TypeInv`: `TypeOK` with
`MessageInHand` — a task about to write holds a message — without which the types of `held` are not kept.
On it rest `HubServedCorrect`, `LiveRegisteredCorrect`, `KeyOwnerCorrect`, `EmptyRoomCorrect`,
`SfuServedCorrect`, `SfuCapCorrect`. The lemma `StepKinds` shows that every step is one of four
that enter or leave the registry or the SFU, or a `Bystander` that leaves both alone and takes its
task neither past its registration nor past its cleanup; each invariant is then preserved by five
cases. `SfuServedCorrect` needs to know of each open peer connection whose it may be (`SfuInv`: the table
names it, or another connection of its participant has joined), `SfuCapCorrect` that the table is finite
(`CapInv`).

**`LimiterProofs`**: `LimiterTypeCorrect`, `TwoWindowsApartCorrect`, `RefusalDeservedCorrect`,
`HintSufficesCorrect`. The
invariant `LimiterInv` says of each scope that the current bucket counts the last attempts and no
other, each since the bucket's start (`Counted`), that what was allowed before the previous bucket
could fill is a window older than the current one (`Earlier`), and the conclusion (`Apart`).
`PacedGrows` shows that one more attempt keeps it; it is the heart of the argument and is free of
actions. A refusal finds the bucket full, not run out and untouched (`Refusals`); the two action
properties follow from that, `HintSuffices` with `NextMultiple`, what the floored division leaves out.

**`RoomsProofs`**: `RoomsUseLimiter` (every step of `Rooms` is a step of `LimiterSpec` or leaves it
alone), and with it `JoinsArePaced`, the limiter's theorem for the composed system; `RoomsTypeCorrect`,
`DeletedStaysShutCorrect`, `AdmittedOnRecordCorrect`, `LogFaithfulCorrect`, `LogPacedCorrect`,
`UndisclosedCorrect`. The invariant `RoomsInv` says of a request, wherever it is in its handler, what it
has already passed (`JoinInv`: limiter, then row, then password), what a decided admin request left in
the table (`AdminInv`), that whoever is past `Record` has an entry or lost it (`EveryRequest`), that no
log entry is older than its request's decision (`LogInv`), that a call in the limiter belongs to one
waiting request (`CallInv`), and where sockets got their tokens (`SocketInv`). The argument rests on
`Grows`: deletions, attempts and entries never go back. `LogFaithful` says of entries that they are true,
which follows from `RoomsInv`, and of deletions that none lacks its entry but where the handler was
dropped or the database refused it; the latter needs to know the request that deleted a room
(`DeleterInv`). `LogPaced` needs one more, `LogPace`: the callers let through for a scope (`LetThrough`)
are no more than the attempts counted for it. Only `LimitPassed` adds one, to both; by `LogInv` each has
one entry at the most, so the entries map one to one into them.

**`PresenceProofs`**: `AgreementCorrect`, that the abstract specification entails the agreement of
what its clients will list.

**`DeliveryProofs`** and **`RosterProofs`**: `KeepsPromiseCorrect`, `RosterAgreesCorrect`,
`KeysAgreeCorrect`, `NotOwnPeerCorrect`, for any connections, participants, queue capacity and number
of messages under way. They go in four steps.

1. *Queues.* `Told` is what a client shows after a queue. `ToldLast` (a message that is queued arrives
   last) and `ToldFirst` (the head arrives first) make every write and its delivery invisible to
   `Prospect`, and reduce a broadcast to one `Shown`. They need induction over the length of the queue, for
   which there is a least counterexample (`Least`), as the naturals are well-founded. `RosterKinds` sorts
   the steps by what they put on somebody's way: nothing (`Calm`), messages that are not about peers
   (`Chatter`), the end of a receiver (`Deafening`), or one of the six that matter.
2. *`Grounds`*, the inductive invariant: the registry's invariants of `SignalingProofs`, that a task
   which has not registered has nothing on its way (`Fresh`), that a queue is listened to exactly until
   its task is over (`Hearing`), that a task between recording a key and broadcasting it holds that key
   (`OwnUpdate`), that nobody has a key before its own PeerJoined is out (`Keyless`), and who owns the
   registration of a connection whose Joined failed (`GhostOwns`).
3. *Refinement.* `PromiseStep`: under `Grounds`, every step of `RosterNext` is a step of `PresenceNext` or
   a stutter. A join's snapshot (`JoinEnters`), its broadcast (`JoinAppears`), a departure
   (`LeftVanishes`) and a receiver that ends (`Deafens`) each map to one abstract step; a message lost
   to a full queue maps to the abstract client being too slow. `KeepsPromise` follows, and with the
   invariant of `PresenceProofs`, instantiated under the same mapping, `RosterAgrees` (`AgreementMeans`).
4. *Keys.* `KeysAgree` is inductive relative to `RosterAgrees`: the snapshot copies the registry
   (`KeysJoin`), a PeerUpdated changes it for those who list its sender, and whoever joins between the
   recording and the broadcast has the key from the snapshot already (`KeysUpdated`).

`NotOwnPeer` needs its own invariant, `Others`: nothing on a client's way names that client. It holds for
connections that share a participant id, too. The other three speak of the connections whose participant
has no other (`Soles`); what a connection that has been replaced misses is the finding `replaced`.

**`DataDirProofs`**: `DirTypeCorrect`, `ServedLeafCorrect`, `LeafOutlastsCorrect`,
`RoomsReadableCorrect`, and `DamagedOnlyByCutCorrect`, `DiskLeafCorrect`, `DoctorCorrect`. Three layers.
`TypeInv` adds to the types what a process has in memory where it is going to use it (`Ready`). `Chain`
is the argument proper: everything on the disk descends from the one `ca.bin`, which is never written
again once it is whole (`OnDisk`, `InShell`), and a server past a step of its start holds what that step
read from it (`InServer`); every key a room was sealed with is the one of that `ca.bin`. The lemmas
`TypeMove` and `ChainMove` reduce a step that leaves the disk alone to what it does to its own process;
only `Truncate` and `Fill` need the whole argument.

On top of both, `Intact` describes a directory nothing was cut short in: before there is a CA nothing else
exists (`NoCa`); what `init` has not reached is absent, and no server is past it (`FirstBoot`); after
that the leaf and its key belong together or one server is about to put them there (`Rotating`); and
the admin secret is the one last printed (`Secret`). The step that needs thought is `Reissue`: a server that
reads a directory `init` is still writing cannot find its leaf due, because the leaf is of today.
`ReadLeaf` says that what a server read of the certificate is still on disk unless it was overtaken.
`DoctorCorrect` goes through every way a start can end (`GivingUp`): each that is not damage inside a file
is a file that is absent, or the ports.

**`BrowserProofs`**: `BrowserTypeCorrect`, `OneLineCorrect`, `QuietAfterLeaveCorrect`,
`DelaysDoubleCorrect`, `KeyPerStayCorrect`, `KeysForgottenCorrect`. The invariant of the line, `LineInv`,
says that what is live belongs to the client of this visit, that a timer is pending exactly when its
handle is held, that the two exclude each other, and that a client that was closed on purpose has
neither. `KeyInv` is about the continuations that wait for libsodium: an announcement that stands before
a clearing is of an earlier visit or finds the page closed (`Orderly`), so that what has been told in
this stay is the pair in use and no clearing is ahead, and a pair told in an earlier stay is gone or
about to be (`Told`). `Remembered` counts the keys in waiting continuations as if they were held already;
`KeysForgottenCorrect` says that `PeerLeft` and Leave take the key out, whatever else is still to come.
`Spaced` relates the count of the backoff to the sockets lost since one opened, for as long as there is a
socket or a timer; `DelaysDoubleCorrect` assumes the delays of reconnect.ts (`BaseDelay` 1, `CapDelay`
30) and nothing of how many attempts fail, with `Doubled` unfolded by `DoubledAgain` (the library has no
fact about powers).

Every invariant and every action property that a passing run checks is a theorem. Only model-checked:
the liveness properties (`SilentIsClosed`, `GoneIsForgotten`, `DepartureSeen`, `ServesAgain`,
`KeepsCalling`), which rest on fairness and ENABLED, out of the prover's reach; and, as violations cannot be
proved, the five runs of section 6.

## 6. Where code and documents disagree

Shown by runs that TLC finds violated:

* `replaced`: a participant that joins again does not get its older connection closed; the code
  only queues `Error(4409)` on it (conn.rs:168). `docs/plan/phase-04-signaling.md:28` and `:150` say it
  is closed. Because the older task still ends some day and leaves by participant id
  (conn.rs:203), it then removes the newer connection from the registry and the SFU. The passing
  properties do not exclude that: `LiveRegistered` is about participants with one connection, `HubServed`
  about stale owners.
* `lagging`: a message for a full queue is lost and the connection goes on (room_hub.rs:101);
  room_hub.rs:15, signaling/mod.rs:24 and phase-04:24 say it is closed.
* `ghost`: if writing `Joined` fails, the early return (conn.rs:188) skips the cleanup and the
  participant stays registered; phase-04:149 says its departure is announced.
* `regenerate`: a running server keeps the admin secret it loaded at its start (serve.rs:51). After
  `admin token regenerate` it accepts the old tokens, and refuses the new one, until it is restarted;
  main.rs:65 and docs/OPS.md:84-85 say the old ones are invalid immediately.
* `offer`: the only offer is made right behind `sig.connect()` (Room.tsx:156-157), and `send` drops it
  if the socket is not open yet (signaling.ts:42-46). Nothing sends it again, neither then nor after a
  reconnect, so the SFU never has this participant's media; phase-07:99 and :30 say otherwise.

Met while modelling, and part of the models as the code has them:

* The SFU's refusal of a full room is ignored (conn.rs:197): the participant stays, without media.
* A second connection of a participant overwrites its session in the SFU's table without closing the
  peer connection (lib.rs:135, room.rs:19-21). Only `on_leave` closes one, the one in the table: the older
  connection's cleanup closes the newer one's, the newer one's then finds none, and the first stays open.
  `SfuServed` and `GoneIsForgotten` except participants with several connections from the closing.
* A write blocked by a client that does not read starves the heartbeat (conn.rs:224), so the idle
  limit does not close such a connection.
* `Retry-After` is floored, so a client that waits exactly as told may be refused once more
  (rate_limit.rs:74); `HintSuffices` says that a second more is enough.
* The limiter's window is fixed, so up to 2L-1 attempts pass within any one window; rate_limit.rs:4
  calls it rolling. `TwoWindowsApart` is what does hold.
* The limiter's table never shrinks (rate_limit.rs:65); its admin limit is used nowhere
  (phase-09:11 plans for it).
* A room's `expires_at` is stored and shown but consulted by neither the join endpoint nor the
  socket (phase-02:58), and a token's expiry is not looked at again after admission (phase-04:131).
  Deleting a room shuts its door to whoever arrives after it (`DeletedStaysShut`) but sends nobody out; a
  join under way when the room is deleted may still be given a token, which opens nothing afterwards.
* Refused attempts (429) and joins whose client goes away leave no audit entry (phase-03:5, 138).
* An `init` killed between its writes leaves a directory it then refuses to run over, while doctor's hint
  is to "re-init" (admin.rs:190-197). A `serve` killed between leaf.pem and leaf.key cannot start until
  that leaf is due again, and doctor finds nothing wrong, because it only looks whether the files exist
  (admin.rs:179). docs/OPS.md:133-134 has new serves regenerate a lost leaf.key; they fail (init.rs:144).
* A second `serve` by hand rotates the leaf on disk before it fails to bind, so `status` and setup-info
  report a certificate that is not the one served (setup_info.rs:23, phase-06:13).
* Rotation happens only at a start, so a leaf expires under a server that runs for longer (phase-01:86).
* The back button unmounts the room without clearing keys, chat or session (Room.tsx:54-63, phase-08:25,
  85). A peer's key that waits for libsodium is recorded although the peer has left, or after Leave; a
  `PeerUpdated` is recorded for somebody who is not listed (Room.tsx:120-123); a `Joined` after a
  reconnect replaces the list but not the keys. `KeysForgotten` names these exceptions.
* The backoff is reset when a socket opens, before the server has accepted the join (signaling.ts:93).

## 7. Not modelled, and what is left

Done: RoomHub, Signaling, Roster, Presence, RateLimiter, Rooms, DataDir, Browser, with their proofs.

Left: several tabs over the signaling tasks, with reconnects that take a participant's place: `Browser`
composed with `Signaling`.

Not modelled, and why:

* The SFU's peer connections, tracks and negotiation are the webrtc crate's; the code here only calls it.
  What the code does keep, the table, its cap and which of them are open, is in `Signaling`.
* `signaling/state.rs` is a pure table of which conn.rs uses two events. `rtc/active_speaker.ts` is used by
  no page. The `participants` table is written by nothing but its own tests.
* Cryptography, JSON and headers, static files, logging, configuration parsing and rendering keep no state
  that these properties depend on. doctor's checks of file modes only warn.
* Two hazards no property can cover, because the code does nothing that could be held to one: the
  limiter's table only grows (rate_limit.rs:65), and nothing ends a session whose token has expired
  (conn.rs:132). A third, the SFU's ignored refusal (conn.rs:197), is listed in section 6.
