# P2P-File-Share: models, model checking and proofs

This directory specifies the tracker network and the clients of P2P-File-Share in TLA+.
TLC checks the specifications on small instances and TLAPS proves theorems about them for
every instance. `PROJECT.json` lists, for every definition, the source lines it stands for,
and for every property a faulty variant of the code that the property catches.

To repeat a run: `tlc -config MCTracker.cfg MCTracker` (the module of each run is listed
below). To check the proofs: `tlapm TrackerDBProofs.tla` and so on.

## 1. The system

Two programs. A **tracker** keeps users, sessions, groups and the lists of shared files; one
or two trackers replicate each other. A **client** sends its user's commands to one tracker,
downloads files from other clients piece by piece, and serves its own files to them.

| part | source | state | operations |
|---|---|---|---|
| databases, request handlers | `tracker/process_request.cpp`, `userdb`, `groupdb`, `models/` | `userDB`, `logged_in_users`, `groupDB` | one handler per request kind |
| tracker process | `tracker/tracker.cpp`, `transactionsrecord` | `successful_transactions`, the process's phase | `process_data`, `mirror`, `sync_with_online_trackers`, `loop` |
| request parser | `tracker/parse_request.cpp` | none | text to `Transaction` |
| TCPServer | `network/tcp_server.cpp` | `clients`, `running`, the descriptor set | the select loop, `start`, `stop` |
| TCPSocket | `network/tcp_socket.cpp` | a descriptor | `connect`, `accept`, `send_data`, `receive_data` |
| client main loop | `client/client.cpp` | the connection to a tracker | commands, reconnecting, `quit` |
| commands | `client/process_input.cpp` | none | `upload_file`, `download_file`, others passed on |
| serving pieces | `client/process_request.cpp` | none | `get` |
| DownloadManager | `client/downloadmanager.cpp`, `partfile.cpp` | `downloads`, `running`, the thread | enqueue, start, pause, the thread |
| FilesDB, PeerDB | `client/filesdb.cpp`, `peerdb.cpp` | entries under a mutex each | add and look up |
| files | `client/file_io.cpp`, `hash.cpp` | the disk | read, write and check a piece |

How they interact:

* A client request reaches `onData` on the tracker's **one service thread**. The thread runs
  the handler, replies, records the transaction if it succeeded, and, for a client's request
  (flag `1`), opens a connection to every other tracker and sends the request with flag `0`.
  Nothing is answered meanwhile.
* A tracker that starts connects to the first other tracker that listens, asks for its record
  with `sync`, runs what it gets, and only then listens. The source's service thread does
  nothing else until the end.
* Clients and mirroring trackers count alike against `TCPServer server(2)`.
* Both programs listen with a **`TCPServer`**: one service thread selects, accepts, receives and runs
  the handler. Messages are what one `send_data` writes and one `receive_data` reads; nothing in
  the byte stream separates them.
* A client that loses its tracker connects again, to the first of the list that does not refuse.
* A client has three threads: the main thread (commands), the server thread (answers `get`),
  and the download thread. They share `FilesDB` and `PeerDB` under locks, `downloads` and
  `running` without one, and the disk.

What is hard here: two replicas without an agreement protocol, processes that lose all state
when they stop, objects compared by address while names are reused, limits shared by unrelated
connections, handlers that block the only service thread, descriptors that are used again, messages
without a frame, and three client threads over shared state with no timeout anywhere. `PROJECT.json`
lists each hazard with its line under "hazards" and the properties aimed at it.

What makes each part correct:

* databases: only the owner admits; a new user is a stranger to the old user's rights; a file
  is listed once and keeps its seeders;
* network: no transaction runs twice in a process; the record explains the databases; trackers
  agree when nothing is in flight; to clients they look like one tracker; starting ends;
* connections: watched descriptors are those of the clients; callbacks come in pairs; clients are
  served and `stop` returns unless a peer stays silent; bytes arrive in order and, by some rules, as messages; a command runs once at
  most and ends; trackers that mirror to each other do not block each other for good;
* clients: a complete download is on the disk, is reported once, and stays, also when it is enqueued
  twice or shared half-written; pieces that are claimed are served; downloads complete if somebody honest
  has the pieces; `quit` ends. The code keeps these with exceptions, which section 3 names.

## 2. Modules

| module | models | composed of |
|---|---|---|
| `TrackerDB` | the databases and, per request, the set of outcomes it may have | |
| `Tracker` | one tracker: one action per handler; the properties of the databases | `TrackerDB` |
| `TrackerNetwork` | the tracker processes: serving, recording, mirroring, starting, stopping | `TrackerDB`; `Tracker` as the abstract specification |
| `DownloadManager` | one client: commands, download thread, FilesDB, PeerDB, disk | |
| `TCPServer` | the select loop, its descriptors and callbacks, `stop`, the peers | |
| `Channel` | what callers take a connection to be: a channel of messages | |
| `MessageStream` | `send_data` and `receive_data` over a byte stream | `Channel` as the abstract specification |
| `Session` | clients and trackers by their connections: finding, waiting, losing, mirroring | |
| `TrackerDBProofs` | what every request preserves and may change, and what its answer depends on | `TrackerDB` |
| `TrackerProofs` | invariants of one tracker, and what its steps may not do | `Tracker`, `TrackerDBProofs` |
| `TrackerNetworkProofs` | types, soundness of every tracker's databases, no transaction runs twice in a process | `TrackerNetwork`, `TrackerDBProofs` |
| `AgreementProofs` | records are complete; trackers agree; together they are one tracker | `TrackerNetworkProofs` |
| `TCPServerProofs` | descriptors and callbacks | `TCPServer` |
| `MessageStreamProofs` | order, losses, and the channel | `MessageStream` |
| `DownloadManagerProofs` | what is complete is on the disk, reported once, and stays | `DownloadManager` |
| `SessionProofs` | connections, commands and replies | `Session` |
| `MC...` | instances for TLC | |

Operators marked "Faulty variant" are never used by the specifications. They are the plausible
bugs against which the properties are tested.

### TrackerDB and Tracker

A request is atomic because one thread runs it to its end. It is written as a set of outcomes
(databases and `Result.success`), since `accept_request` walks an `unordered_set` of pointers
and may pick any requester of the given name. A `User` is a heap object held by `shared_ptr`s
and compared by address. Its address is the field `oid`, so deleting a user and creating one of
the same name gives another object, while sessions and groups keep the old one. That live objects have
different addresses is the allocator's promise, built into `CreateUser`; what the handlers make of it is
`RecreatedIsStranger`. Which of two requesters of one name an owner meant cannot be said, since the request has
the name only. Files are told
apart by hash, as `File::operator==` does. A repeated endpoint among the seeders is one seeder.
The text of requests and replies is left out; the parsed requests and the value of `success`,
which decides on recording and mirroring, are kept.

### TrackerNetwork

`Serve` is `process_data` for a client's request up to the moment when `mirror` is called,
`Mirror` the connections it makes. A mirrored message is in the `inbox` of its receiver in
one of three stages: in the backlog, accepted, or read but still counted as a client because
the end of the connection has not been noticed. `AcceptMirror` drops it when the limit is
reached, as the code does. `Start`, `ServeSync`, `SyncOne`, `SyncDone`, `RefuseSync` and `Listen`
are the start of a tracker. `Stop` is a crash or `quit` at any moment; nothing is persisted.

A reply that fails may or may not lose the client's connection, depending on the error
(`tcp_server.cpp:111`).

`EventuallyEverywhere` is about what a tracker owes another one (`Owed`): a transaction it is about to mirror to
it while it runs, or that is in the record it is sending. What is owed is run by the other unless one of
them stops, with crashes and restarts. That more than this is owed to a tracker that starts is what
`RecordTellsAll` says, and what fails.

`base` and `done` are history variables: the databases a process began to listen with, and
the transactions it ran.

The constant `Hazards` names what the environment may do. Each element removes one guard that
stands for a kindness of the environment:

| element | meaning | what does not survive it |
|---|---|---|
| `crash` | trackers stop at any time | `Agreement`, from the second start on: a restarted tracker reads a record that lacks what its source learned by its own sync |
| `reply` | a client is gone when its reply is sent | `RecordComplete`: `process_request.cpp:421` throws before the transaction is recorded |
| `crowd` | clients take all connections | `Agreement`: a tracker that joins is turned away and serves with empty databases (`tracker.cpp:145`) |
| `burst` | requests follow faster than they are mirrored | `Agreement`: requests that conflict are run in two orders, and a mirrored message beyond the limit is closed unread (`tcp_server.cpp:82`) |
| `busy_join` | requests while a tracker starts | `Agreement`: a request between the end of the sync and `listen` never reaches the new tracker (`tracker.cpp:195`) |
| `reorder` | the later of two mirrored messages is served first | nothing by itself; with `burst`, one sender's requests may be run out of order |

To see any of these, add the element to `Hazards` in `MCNetworkPaced.cfg` (with `FewRequests` the
counterexamples are short; `crash` needs `MaxStarts = 2`). These are limits of a design without
agreement between replicas. What holds in spite of all of them but `reply` is checked by
`network_hazards`. `RunAtMostOnce` and the soundness of the databases are proved for all six,
`RecordComplete` for all but `reply`, and `Agreement` for `reorder` (section 4).

### DownloadManager

A piece and its hash are one value, and so are a file, its hash and its name in a group. The
download thread is modelled per piece and per peer asked: `Choose` takes the first missing piece
of an unordered set and a copy of the known peers, `Fetch` writes and marks a valid piece,
`Miss` passes on to the next peer, `Die` is an exception that nobody catches, `Hang` a peer
that never answers. The thread ends a pass at the number of downloads there were when the pass
began, since the end iterator of the deque is taken then. `Enqueue` keeps the two different
`PartFile`s of a download, the one in `downloads` and the one in `FilesDB`.

A path holds blocks, which a write creates one by one, so that a file may have holes; those read as zeros
(`Zero`). `upload_file` shares what is at the path, a half-written download included (`Blocks`), and enters
it under the path's name. `Enqueue` refuses a path at which there is something and nothing else, so any number
of downloads to one path may be accepted before the first piece is written; `OneFile` says that those are of the
same file. `Index` is the first block with the hash, so of equal blocks one is written (`FirstBlocks`).
Answers of peers: `good` (the piece), `bad` (other data, a refusal, or no
connection), `reset` (an error other than a closed connection) and `silent`.
A piece that arrives in part, because `receive_data` stops at a short read, does not match its
hash and is `bad`.

### TCPServer

The loop is taken apart at every point where the outside can change something: the test of
`running`, `select`, and the service of one descriptor of the round. The round serves what was
readable when it began, lowest descriptor first. A connection has a number of its own; `fdOf` is its
`socket_fd`, taken from the free descriptors, the lowest first. A number is used again in a later round than that in which it
was closed, never in the same, because the listening descriptor is the lowest and is served first. `accept()` takes two and loses one. The handler is left open: it returns, ends the connection
(by `disconnect` or by an exception that the loop catches), throws something else, or waits for its
peer as `sync` does. The peers connect whenever the backlog has a place, and send and close at any
moment. `Die` is an exception that leaves the thread, which ends the process. `Silent` is the state in which a handler waits for a peer that
neither answers nor leaves; nothing in the code ends it. `Hazards` again names
what may go wrong: `abort`, `fault`, `sync`, `stop`. `TCPServer` has a limit of its own,
`HARD_CONNECTION_LIMIT`; `MaxConnections` is what is left after it.

### Channel and MessageStream

Bytes are positions in the stream, and messages are intervals. The system takes any non-empty part of a
message and delivers what it took in pieces of any size, or loses the rest of it by a reset. `receive_data` is one step per `recv`: `Recv`
takes what is there up to the buffer, `Peek` is the inner call after a full buffer, and `Throw` is an
exception, with which goes what the call had read. A `calm` history records whether the rules were kept:
one message under way, no reset, no length that is a multiple of the buffer's, everything taken and delivered in
one piece. By these rules the stream implements `Channel` (`IsChannel`, with liveness). Every rule is
needed: 1,024 bytes sent, or a piece of 512 KiB delivered in parts, break it in the program as well.
The branch that should return what was read when nothing more is there
(`tcp_socket.cpp:227`, "Data has been read, return what we have") is never reached, because it is the
peek before it that finds nothing and throws; `NothingReadYet` in the proofs is that fact.

### Session

One client's command goes through `Connect`, `Type`, `Serve`, `ReadReply`; the connection is `pending` in
a backlog, `open`, or `closed` by the other end, which the client notices when it waits for a
reply. `GiveUp` covers both ends of a client that finds no tracker: all refuse, or the first one's
backlog stays full until the attempt times out, which is an error nobody catches. A tracker that
mirrors (`todo`) serves nobody; `SendMirror` needs a place in the backlog of the other, and
`MirrorTimeout` is the system giving up for it. `Stop` may lose a reply: the process may be killed
between the run of a request and its reply. What requests do is left to `TrackerDB`.

## 3. Runs

| run | configuration | result |
|---|---|---|
| `tracker` | 2 clients, 2 names, 1 group, 2 files; 3 user objects | every database property holds (44,354 states) |
| `network_paced` | 2 trackers, 2 clients, requests of accounts, a whole membership and files, one join, at most 8 transactions | types, soundness, complete records, agreement; the network implements `Tracker` (30,113 states) |
| `network_hazards` | crash, crowd, burst, busy_join and reorder together, 3 starts | nothing runs twice; records stay complete |
| `network_live` | crashes at any moment, 3 starts, 3 transactions | starting ends; what is about to be mirrored or is being sent in a sync gets there unless one of the two stops (46,783 states) |
| `network_resync` | a tracker starts, then another reads from it | **violated** `RecordTellsAll` |
| `network_seeders` | two uploaders of one file | **violated** `SeederAgreement` |
| `downloads` | 3 files (equal blocks, one piece, none), 2 paths, one of them taken; 2 peers, every kind of answer; 2 downloads | completeness, reporting, serving, finished files; downloads complete and are reported, `quit` ends, with the exceptions below (318,068 states) |
| `downloads_unserved` | upload after download, as the program advises | **violated** `AnnouncedServable` |
| `server` | 4 connections, limit 2, backlog 1, 6 descriptors, all hazards | descriptors, callbacks, losses; clients are served and `stop` returns unless a handler waits for a silent peer for good (90,160 states) |
| `server_silent` | 1 connection, `sync` and `stop` | **violated** `StopEnds` |
| `stream` | buffer 2, messages of 1, 3, 4 and 5 bytes, 2 messages | order, losses, and the channel with its liveness (520,126 states) |
| `session` | 2 clients, 2 trackers, limit 2, 2 commands each, one start | connections, commands run once, replies, and that commands and mirroring end (76,909 states) |

Bounds. Three user objects are two of one name plus a third party, which is what confusion of
identities takes. Two trackers are all the program admits (`tracker.cpp:186`), and two
connections are its constant. Eight transactions suffice to create two users, log in, create and
join a group, be accepted, upload and leave. Three starts allow a restart of each tracker and
one more. Three starts in `network_live` as well let a tracker learn from
one that was restarted itself. Two downloads are enough for two of one file to one path, of two
files to one path, and for one enqueued while the other is being worked on, shared or finished; three blocks
are the fewest of which two are equal with another between them. Four connections and six descriptors are enough to turn one
away, to use a number again for a later connection, and to run out. A buffer of 2 with the lengths
1, 3, 4 and 5 gives messages below one buffer, between, a multiple, and of three reads. In
`session` one place in each backlog and two commands for each client suffice for both trackers to wait
for each other's full backlog at once. `SYMMETRY` is used in runs without liveness only.
`CHECK_DEADLOCK FALSE` is set where clients may have used up the bounds, or the process has
ended.

Bounds that are guards of the specification: `MaxMade`, `MaxTx`, `MaxStarts`, `MaxDownloads`, `MaxConns`,
`MaxData`, `MaxMsgs`, `MaxTyped`. `MaxPieces` bounds the pieces of a file and is no guard.

Only one client uploads in `network_paced`, because a second seeder is what `network_seeders` is about:
with `SharingRequests` `BehavesAsOneTracker` fails.

What the code does not keep. Four runs expect a violation of something the repository says of itself (the
README of `src/` on what a joining tracker learns and on replay, the advice to seed, and the comment in
`tcp_server.hpp:44`: "When running is set to false, this function exits after wait_time seconds"). The properties
of downloads and of `stop` carry the exceptions these and the following cases need. Five configurations of `MCDownloadManager`, to be run by hand, show that each exception is needed, by
the property without it; TLC finds all five violated:

| configuration | property | why it fails |
|---|---|---|
| `MCDownloadsOverlap` | `FinishedIsFinal` | the second of two downloads of different files to one path, accepted while nothing was there (`downloadmanager.cpp:98`), writes over the first when that is finished. Exception `OneFile` |
| `MCDownloadsRepeated` | `CompleteIsWhole` | of two equal blocks only the first is written (`file_io.cpp:49`), and the rest of a complete file is a hole. `FirstBlocks` |
| `MCDownloadsHoles` | `ClaimedPieceServed` | the holes of a file shared half-written are claimed as blocks of zeros and written later (`process_input.cpp:19`). `Zero` |
| `MCDownloadsAbandoned` | `EnqueuedIsDownloaded` | when the destination of the first download exists, the thread finds no download, ends, and leaves `running` true (`downloadmanager.cpp:62`). `Abandoned` |
| `MCDownloadsUnreported` | `EveryCompletionReported` | a file without pieces is complete before the thread looks at it and is passed over (`downloadmanager.cpp:68`). `have # {}` |

The remaining exception is a silent peer: there is no timeout (`tcp_socket.cpp:218`, `process_request.cpp:401`).
A download thread that waits for one (`Waiting`) works on nothing and `quit` joins it for good; a
handler that waits for one (`[]Silent`) keeps the whole server. So `DownloadsComplete` and `QuitEnds`
except `Waiting`, and `Served` and `StopEndsUnlessSilent` except `[]Silent`, while `downloads` and `server`
let peers be silent.

Fairness. In `TrackerNetwork` the service thread of a running tracker takes a step when it can
(`WF` of `ServiceStep`), and a main thread that is past its sync listens. Each is a thread with
nothing to wait for but the network: `select` wakes at least every second, and a connection that
has ended is noticed. Nobody has to send a request or start or stop a tracker. In
`DownloadManager` the download thread and a main thread in `join` keep running, and a peer that
is asked answers unless it is one that may be `silent`; the user need not do anything. In `TCPServer` both threads run
when they can (`WF`), and a handler does not wait for its peer again and again without end (`SF` of `Conclude`: `sync`
sends a finite record). Nothing is assumed of the peers: one that is waited for may stay silent for good. In `MessageStream` TCP delivers what it took and the
receiver keeps calling. In `Session` threads run when they can, and an attempt to connect
ends after the timeout of the system, which is why `MirrorTimeout` is part of a fair step.

## 4. Proofs

Everything below holds for every value of the constants under the named assumptions of the
modules (`BlankAssumption` and `NoneAssumption` for the databases: the empty string is no name,
and the absent value is no user and no group).

* `TrackerDBProofs`. `OutcomeType`: any request on databases of the right types leads to such
  databases. `OutcomeInv`: any request keeps `DBInv`, which says that nobody in a group waits for
  it, that objects anything points to have distinct addresses below the next one, and that a file
  is listed once with a seeder. The three parts are proved together: that an accepted requester
  was not a member needs the first, and telling requesters apart needs the second. `ReplaceGroup`
  and `ReplaceUsers` reduce each request to the group or the accounts it changes.
  What an answer depends on: call two databases the `Same` when they differ in the seeders of files
  alone. `OutcomesSame`: such databases give a request the same answers, and lead to databases
  that are the same again. `FailureSame`: a request that fails changes a seeder at most (the second
  uploader of a file is counted as a failure). `OneOutcome`: a request has one outcome, seeders aside,
  unless it is an `accept_request` while some user object in use is not the account of its name
  (`Current`). `SameAlike`: if in addition everything is seeded by the same clients, the databases are
  equal.
* `TrackerProofs`. `StepIsRequest` turns each action into a request, and `TrackerInvariant`
  (`Spec => []IInv`, with `IInv == TypeOK /\ DBInv(db)`) follows from the two theorems above.
  `TypeCorrect`, `PendingCorrect` and `FilesCorrect` are its consequences. What a step
  may not do is proved from it and from `OutcomeChanges`, which says how one request may develop
  a group (`Develops`: who enters, what is kept) and that a new account is an object nothing pointed to:
  `AdmissionCorrect`, `StrangerCorrect` and `FilesKept` are the action properties `AdmittedByOwner`,
  `RecreatedIsStranger` and `GroupsKeepTheirFiles`.
* `TrackerNetworkProofs` (also from `TrackersAssumption`, `RequestsAssumption` and
  `BoundsAssumption`). `NetworkInvariant`: every action of the network keeps `TypeOK` and
  `EveryTrackerSound`, since each change of a tracker's databases is an outcome of some request
  (`RunSound`, from `OutcomeType` and `OutcomeInv`). It holds for all `Hazards`, so crashes, lost
  messages and any order of delivery cannot make a tracker's databases unsound.
  `NetworkTypeCorrect` and `NetworkSoundCorrect` follow.
  `RunOnceCorrect`: `Spec => []RunAtMostOnce`, for all `Hazards` as well.
  `RunAtMostOnce` alone is not inductive: a message on its way could carry what was run already.
  `OnceInv` adds where transactions can be. `Numbered`: nothing is ahead of the numbering.
  `MailIsNew`: an unread message has not been run by its receiver, and its inbox has no other of the
  same transaction. `MirroredIsNew`: what a service thread is about to mirror was neither run by nor
  sent to another tracker, and no two threads mirror the same. `RecordsRun`: a record names no
  transaction twice and only what its tracker ran. `Phases`: a tracker that is not up has
  no mail, no record and serves nobody. `Syncing`: what a joining tracker has run is exactly the part
  of the record it has been sent. So the next transaction of the record is new to it, and the flag
  `0` together with `MirroredIsNew` stops an echo. There is one lemma per action (`ServeOnce`,
  `MirrorOnce`, `SyncOneOnce`, ...) and one step per conjunct in it; steps that touch neither logs nor
  mail share `ControlStep`.
* `AgreementProofs` (from the same assumptions, and the conditions named in each theorem).
  - `RecordCorrect`: `Spec => []RecordComplete` if not `May("reply")`, whatever the other hazards do.
    `RecordComplete` replays a record by a recursive function; the invariant `Recorded` speaks instead of
    every function `f` with `f[0] = {base}` and `f[n]` the outcomes of the n-th transaction from `f[n - 1]`
    (`IsReplay`), and says that a replay exists and some member of its end is the `Same` as the databases. A
    step adds one transaction, so `ReplayLonger` and `ReplayShorter` are all the induction there is:
    it is over the steps of the program, not over the record. That a failure may be left out of the record
    is `FailureSame`; that the replayed seeders may differ is `OutcomesSame`.
  - `AgreementCorrect`: `Spec => []Agreement` under two conditions. `Paced`: of the hazards only `reorder`,
    and a tracker admits connections at all. `OneRequester`: the clients do not send both `delete_user`
    and `accept_request`. The invariant `Joint` says where a difference between trackers can be. `OneAtATime`:
    one transaction is on its way at most, while everybody else is idle and up. `InStep`: a tracker that is
    up or about to be is the `Same` as the other and has run as many transactions, unless a transaction is on its
    way from one to the other; then every outcome of it at the one behind leads to what the one ahead has, which has run
    one more. `Joins`: a tracker reading a record has what the part it has read leads to (`Synced`), so when
    the record ends, it has what its source has, by `Recorded`; this needs that the source began with nothing,
    which holds as long as one of the two trackers is missing. `RoomLeft`: a mirroring connection and a sync
    find a connection free, so nothing is turned away (`RefuseSyncNever`). `Counted`: until both are
    up, the record of the first has all it ran. `Asked` and `NamesCurrent` make outcomes unique (`Determined`).
  - `ImplementsOneTracker`: `Spec => BehavesAsOneTracker`, the refinement, if moreover there is a tracker and
    one client does all the uploading (`OneUploader`). The refinement mapping takes the databases of the
    tracker that has run most (`Newest`). `Front`: which of those it does not matter, since two that are up and have
    run equally many are in step, and with one seeder for all files (`Sole`) equal. A request served is a request
    to the single tracker (`ServeSimulates`): nobody is ahead of the one that serves. Every other step
    leaves a tracker in front and its databases as they were (`FrontStays`): the sender when the receiver catches up,
    the source when a record is replayed, the one that is up when the other begins to listen. `FewMade` bounds the
    users made by the transactions, for the bound `MaxMade` of `Tracker`.
  - `SeedersAgree`: `Spec => []SeederAgreement` under the same conditions, the property that `network_seeders`
    shows to fail with two uploaders.

  `network_paced` is an instance of all these conditions, `network_hazards` of that of `RecordCorrect`.
  `OneRequester` cannot be dropped: let alice ask to join, be deleted, be made again by another client and ask
  again. Two requesters of one name wait, and `accept_request` takes the first it meets in an
  `unordered_set` of pointers (`process_request.cpp:226`), whose order is that of addresses, which each
  process has of its own. TLC finds `Agreement` violated when it is given these eleven requests to choose from
  in this order; a run that does not script them is too large.

* `TCPServerProofs` (from `LimitsAssumption` and `HazardsAssumption`). The inductive invariant adds to the
  properties where the handler's connection is, that a connection waits in the backlog once and has
  not been told anything, and that a listening descriptor found readable has a connection to accept. `WatchedAreClients`,
  `CallbacksPaired` and `OneLostPerConnection` hold for every limit, backlog and set of hazards.
* `MessageStreamProofs` (from `BufferAssumption`, `LengthsAssumption`, `MaxMsgsAssumption`). The invariant adds that a call that peeks has
  taken whole buffers and one that reads on has data (`NothingReadYet` follows), and, by the rules, that
  what was returned are the first messages and what is under way is the next one.
  `StreamInOrder` and `OnlyFullBuffersLost` are its consequences, and `ImplementsChannel` shows by cases that
  every step is a `Put`, a `Get`, a `Break` or a stutter of `Channel`.

* `DownloadManagerProofs` (from `FilesAssumption`, `DiskAssumption` and `NoneAssumption`, without further
  conditions: any files, any number of downloads to a path, files shared at any moment). `CompleteOnDisk` alone
  is not inductive, since a download is complete only after its pieces were written one by
  one. The invariant says, of every path to which one file is downloaded, that every piece one of its downloads has is in
  its place there (`OnDisk`) and that nothing else is (`Consistent`: blocks are those of the file that repeat no
  earlier one), whichever of the downloads wrote it; that the thread asks for
  a piece its download lacks, at a download not yet reported (`Asking`); and that an entry of `FilesDB` claims only
  what is where it is looked for, holes aside (`Entries`), which is what the server thread reads. A write
  cannot break it because a path of one file has each block written with one value only (`WriteAgrees`).
  The place of a piece is the least index with its hash, a `CHOOSE` whose witness is found by well-founded
  induction (`Least`).
* `SessionProofs` (from `TrackersAssumption` and `BoundsAssumption`). That a command is not run twice needs to know
  where it is: the invariant says that a request that waits is the last command typed and was not run,
  that a reply that waits is to the last command, which was run (`Commands`), and that only a live connection carries a
  request (`Linked`), so that one that is lost takes the request with it. `Queued` and `Waits` say that a
  backlog holds the waiting connections of its tracker, each once, so that accepting one cannot
  revive a connection that was closed. There is one lemma per action; what mirroring does in the
  backlogs is seen by no client (`Unseen`).

Model-checked only: liveness (so `FairSpec` of `Channel` beyond its safety part). Every safety property of a passing
run is proved; which conditions its theorem has is said above.

## 5. Not modelled

The program is the C++ under `src/src`. The scripts under `src/docs` are what Doxygen put beside its HTML
pages; they run in a reader's browser, have no part in the system, and are not modelled.

Left out of the program: the text of messages and the parser's rejections, logging, the tracker file, SHA-1 (pieces with one hash are one piece),
endpoint identifiers, `list_downloads`, and operations nobody calls (`remove_partfile`, `removePeer`,
`dequeue_download`). `select` itself is taken to report what is readable. Move assignment leaks the descriptor
of the old connection when a client reconnects (`tcp_socket.cpp:63`); no property depends on it. A `sync`
typed by a user, which a tracker answers with its record, and the end of the standard input, which
makes a client send empty commands for ever (`client.cpp:78`), are left out of `Session`.

A client that is turned away by a full first tracker goes back to the same one for ever
(`client.cpp:24`), whether or not the other has room. Nothing promises the contrary, and `CommandEnds`
says only that each command ends.

## 6. What could follow

Several clients of `DownloadManager`'s kind with a tracker of `TrackerDB`, so that seeders and pieces come
from modelled clients.
