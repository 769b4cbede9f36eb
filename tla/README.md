# Grassroots: specifications of the messaging transport and of its test campaign

This directory holds TLA+ specifications of the two programs of this repository: the
Dart library under `src/lib/src` (about 30,000 lines), a peer-to-peer messenger that
carries end-to-end sealed packets over Bluetooth LE and UDP (UDX), directly or by way of
other phones that store, carry and forward them; and the Python programs under
`src/trace_server` (about 11,000 lines), which collect the records those phones write in
field experiments and read results off them. TLC checks the specifications on small
instances; TLAPS proves theorems of the custody buffer, pairing, sync rounds, the send path,
the mesh, the trace server and the loader of its recordings for any instance.

    tlc -config MCDtnCustody.cfg MCDtnCustody   # one run
    tlapm DtnCustodyProofs.tla                  # proofs: *Proofs.tla

`PROJECT.json` lists the components, the runs, a mutant of the code for every
property of a passing run (the property must fail on it), the source lines each
definition stands for, the findings, the hazards and the theorems.

## 1. The system

On a phone everything runs on one Dart event loop: a handler runs alone between two
awaits, and anything may run at an await. Two phones share nothing but packets. The
trace server is one asyncio handler for uploads beside a pool of threads for everything
else, over one SQLite file in WAL mode. The analysis runs once over what was collected.

| Component | State it keeps | Operations | Talks to |
|---|---|---|---|
| Coordinator `grassroots_network.dart` | packet index `_dtnPacketIds` and its reverse, sync-round timers and pacers, announce timer | send, ACK/read-receipt handling, cancel, sync rounds, session set-up | every other part, through callbacks |
| Message router `routing/message_router.dart` | owns seen-set, delivered-set, DTN store, sweep cursors | processPacket, dispatchOutbound, build and answer sync frames | coordinator callbacks, store |
| DTN store `mesh/dtn_store.dart` | recipient -> insertion-ordered entries, byte total, one vote per entry | store, windowed queries, removeById, retireSeenFor, setMaxBytes, clear | router; reports drops to the coordinator |
| Seen-set, delivered-set, GCS filter `mesh/` | ids in first-seen order with stamps | checkAndAdd, newest, windowFrom, encode, decode | router |
| Noise session manager `session/` | per peer: session, handshake, reservation, completer; per session: counters and nonce window | startHandshake, waitForSession, messages 1 to 3, seal, trialDecrypt, sweep, reset | coordinator sends its packets |
| Fragmentation `protocol/fragment_handler.dart` | partial messages | accept, timeout | router |
| Messages state `store/messages_*` | status per outgoing message, chats | status actions, trimming, deletion | coordinator dispatches |
| Peers, friendships, settings, transports `store/` | reachability per transport, friendship states | reducers | coordinator, UI |
| BLE transport `transport/ble_*` | central and peripheral legs, pending writes | connect, write, sweep of stale links | coordinator |
| UDP transport, addresses, hole punching | connections, candidates, punch sessions | connect, punch, discover | signaling, coordinator |
| Signaling, invites `signaling/` | address table, pending mediation, invite nonces | registration, queries, punch coordination, redemption | friends, over sealed frames |
| Persistence | debounced saves | load, save | store |
| Testbed `testbed/field_runner.dart`, `ring_topology.dart` | the plan, stage and phase of this phone, the ring it froze and its gate | arm, open and close dwells, end, abort; prune legs the gate refuses | coordinator, BLE transport, recorder |
| Recorder `trace/` | the experiment's file, wire counts | start, log, upload in chunks, clear | trace server |
| Trace server `trace_server/server.py` | archive, database, packet index | store an upload, put a geometry, build the index, answer lists | phones, dashboard |
| Trace analysis `trace_server/analyze.py`, `ring_report.py`, ... | none: tables computed from all records | load, choose the run, cut trials, join, count | the database |
| UI, media, tools | widgets, files | - | around all of it |

What is hard about it:

- handlers interleave at every await: two handshakes on one table entry, an ACK in
  the middle of the send loop that is still storing the message, two copies of a
  packet in decryption at once;
- the network loses, reorders and duplicates, and duplicates are part of the design:
  a direct write, a custody copy and a copy over the other transport all exist;
- retirement of carried packets rests on a probabilistic filter;
- bounds everywhere (bytes, recipients, filter ids, conveyances per frame, frames per
  round, status records, nonces), and each drops something;
- all mesh and session state is memory only, so a restart forgets it;
- ages are local wall-clock ages while stamps in packets are other phones' clocks;
- the trace server keeps one connection for all requests, so a write that fails leaves a
  transaction (and a snapshot) for the next request to inherit, and its index is built in
  several commits beside uploads, readers and other builds;
- the analysis knows the run only by what phones wrote and uploaded: phones re-armed and
  uploaded in pieces, instants of the plan acted on in any order, legs whose identity
  comes late and whose end may leave no record, copies that came by several ways.

What makes each part correct, in a line: the store sheds only what its bounds name and
retires only what arrived; rounds ask about all ground without overlap; two peers end
on one session; a message's status, index and buffer agree; the mesh as a whole hands a
message over at most once and confirms only what was handed over; the trace server
answers only for what it keeps, and every table says of the run what happened in it.

## 2. Modules and the code

### DtnCustody and DtnStore: the buffer
Both are stated over the constants of `DtnPackets`. `DtnCustody` is what the store promises:
`held`, a set of entries, with the reason each entry left (`exits`) and, per packet, the salts
that have voted since the last contradiction (`streak`, history). `Store`, `Query`, `SetMaxBytes`, `RemoveById`,
`RetireSeenFor` and `Clear` are the public methods, each with the prune it begins with.
A filter names what the recipient has seen and any of the packets that collide under its salt
(`Names`), drawn afresh per filter; a packet may collide under any number of salts. `DtnStore` is the code's data
structure: a map to lists in insertion order, buckets removed when empty, a byte total
updated on every path, eviction by repeated comparison of the buckets' heads, votes
updated in place. It implements `DtnCustody` with `held` as the union of the lists.

### NoiseSession: pairing
Two peers, `entry[p]` being the table entry of the other. Each handler is a Begin and
an End action around its awaits, with a record in `ops` in between; `waiters` are the
callers of `waitForSession`. A session is the pair of ephemeral keys it comes from, so
"both hold the same session" is an equality. A message 1 is on the net (`Airs`) before the
write that sends it ends, or fails. `Overlap` says whether a handler may begin
while another of that peer awaits: the code allows it, and the behaviours without it isolate
what goes wrong for other reasons. Packets in flight are a set, as a peer may be
reached over two BLE legs and UDP.

### SyncRound: asking for what is missing
One asker, one neighbour, one or two links. `RoundOfOne`/`RoundWithSweep` build the
frames of `_buildSyncFrames`: the prefix, then slices from the cursor, cut at a stamp
that is not split. `SendFrame` is the pacer with the neighbour's answer under
`_maxConveyPerFilter`, read through a lossy filter (`Claims`): it claims what the frame names and, as
a fault each, packets it does not name. A false claim is drawn per frame, as each round is hashed
under a salt of its own (one id in 128, gcs_filter.dart); a new round cancels the frames of the last. `SyncReach` and
`SyncAnswers` are the tables `analyze.py` makes of the records the asker and the holder
write of a round.

### OutboundMessage: from send() to the confirmation
Each action is the code between two awaits of `send`/`_trySendMessageNow`: the gate and
the record, the end of sealing (with the session race), the store of one packet and its
write, the end of a write, with the testbed's retirement there (`RetireOnSend`) or without. ACK, read receipt, withdrawal, deletion and the buffer's own
drops come at any time. Statuses and their trimming are `messages_reducer.dart`.

### MeshDelivery and Mailbox: end to end
`Mailbox` is what the network promises: post, deliver once, confirm what was delivered.
`MeshDelivery` is the way there: direct writes by the creator only; custody of a first
sighting by an open node with hops left; conveyance against the neighbour's seen-set;
retirement by the recipient's filter; decryption as two actions (the replay check is
before its await, the note of the nonce after it); reassembly with its timeout;
delivery dedup; an ACK over the transport the last packet came by, buffered only over
BLE. `Lose`, `Evict`, `Restart` are faults. It implements `Mailbox` with its own
variables of the same names (`inbox` and `confirmed` are histories of callbacks).

### TraceServer and Collector: the trace server
`Collector` is the promise of the module's docstring: an upload is kept whole before it is
answered. `TraceServer` has `archive` and `db` (what is committed), the shared connection
`conn` (is a transaction open, which snapshot it pinned, what it has written), the upload
in the handler, and a record per thread that builds or reads the index. The handler is a
single action from its duplicate check to its archive line to its commit only where the
code has no suspension between them; `View` is what a statement on the shared connection
sees. SQLite is modelled as its documentation of WAL mode has it, from how `Store` uses
it: one writer, a snapshot pinned by the first read of a transaction, a write from a stale
snapshot refused, a lock waited for up to the busy timeout. A build is its commits: clear, two passes that
flush batches, the summary that takes the lock, the commit, or the handler that deletes
what was written. The endpoints are operators of a view.

### Campaign, RingTestbed: what was run
`Campaign` is a phone's recorder and its owner: arming, aborting, ending, clearing,
uploading any prefix of a file's chunks, twice or not at all, in today's app and in the
older recordings the loader still serves. Every record carries the run that truly caused
it, and `NewestUpload`, `DropPreArm` and `EstablishmentRecords` are the loader.
`RingTestbed` is one ring experiment: each phone freezes a ring from its session table at
launch, opens stages in any order, and holds the legs its gate lets it; `ResolveRing`,
`GateVerdict`, `Delivery` are `ring_report.py`, `RingAgreement` is `analyze.py`.

### Trials, TrialFigures, LinkTrace, PacketTrace, SessionCap: what is read
Each pairs a small model of what the phones do (an action per recorded event) with the
functions of the analysis over the trace so far; a record's stamp is its place in the
trace, and what truly held is kept beside it for the properties alone. In `Trials` the stamp is
that of the phone's own clock, which may be behind the others' by any amount: what a phone logs on
another's doing may then be stamped before it (`Logs`), and `ImpossibleOrderings` is what the
mesh summary prints of that; a message sealed again may be on record as sent twice (`SendAgain`). The other modules of
the analysis stamp all phones by one clock. `Trials` cuts a
run of wall-clock trials (`MarkerSegments`) and follows messages; `TrialFigures` counts
them again as the figures, the establishment table and `verify_trials.py` do; `LinkTrace`
replays legs into degrees, stages, sessions and dial probes; `PacketTrace` joins the
sightings of one message's packets through relays; `SessionCap` compares the hit-rate
curves with tables of each size kept while the peers came and went.

The modules meet at shared operations. `DtnCustody`'s environment is the router as
`MeshDelivery` describes it; `SyncRound` justifies that `MeshDelivery` conveys a packet
in one step against an exact seen-set; `OutboundMessage` gives `Send` and `OpenAck` in
detail; `NoiseSession` is taken as done in `MeshDelivery`, where a restart makes
packets unreadable. `PacketTrace` has the routing of `MeshDelivery` at the grain of the
records it writes, `Trials` the send path of `OutboundMessage` as its records show it. The
modules of the analysis share nothing but the database, so one run plays them side by side:
a behaviour of `MCAnalysis` or `MCCampaign` moves one and leaves the others where they began,
as `MCMeshMail` does with its two meshes.

## 3. Runs

| Run | Instance | Shows |
|---|---|---|
| custody | 3 packets, 2 recipients, 1-recipient cap, 2 byte caps, 2 salts, ages to 2 | a copy that never arrived is lost only to two collisions under different salts; two draws with no contradiction between; one entry per packet |
| store | the lists with 4 packets, 3 recipients, 2-recipient cap and 2 byte caps, all overrun | `DtnStore` implements `DtnCustody` with an exact byte total, within its bounds, oldest shed first |
| noise | handlers taking turns with 2 faults; handlers overlapping with 1 | taking turns, no split session, and pairing converges; in both, one initiation per entry and live waiters are served |
| sync | rounds on schedule, filters of 1 or 2 ids over 4 packets, two of one stamp, one ahead of the clock, ages, 1 fault (a loss or a false positive among them), 1 packet per answer | frames name their windows and are disjoint; seen ground is asked about for ever; held mail arrives; the tables of reach and answers account for it |
| outbound | a one- and a two-packet message, one status record, with and without retirement at the end of a send | index = buffer; confirmed holds nothing; stored before written; status does not regress; sends settle |
| mesh_mail | A-R-C over BLE, A-C over UDX, 1 packet, 2 faults of 4 kinds, ages expire; beside it A-R-C, two packets, TTL exactly enough, 3 losses | implements Mailbox; on the line, the message arrives and its ACK comes back |
| collector | 2 uploads; 2 builds and a failing write; a build with a dashboard and a lock that times out; a build, a lock that times out and a kill | archived before named; committed is served whole; a solo index is exact; implements Collector; uploads land where no lock times out |
| campaign | 2 phones, the sender armed and uploaded twice, chunks of 3 records, in 3 kinds of recording; a ring of 4 of 5 phones in 6 experiments | no join across runs; the completed run is read whole and once; ring, gate and deliveries are read true |
| analysis | 2 phones, 2 trials, 1 message, a clock behind, a re-sealed send; 2 phones, 1 or 2 legs, bounces, silent deaths; 4 nodes, 1 message and its ACK, 4-5 writes; 3 peers, 5 moments | windows, fates, counts, legs, establishments, paths and caps are read true |
| noise_split, sync_gap, mesh_twice | see section 5 | a statement of the source the code does not meet |

**Why the bounds are enough to see something.** Custody: a false retirement needs a wrong
vote, a second one under another salt, and a contradiction to come between them or not: hence two
salts, a packet that collides under one, one that collides under both and whose live copy can
really be lost, and three packets so that caps evict while votes stand. Store: each cap can
be exceeded by one packet and by two, and a third recipient meets the recipient cap.
Pairing: every scenario of the code's comments (glare, lost message 3, a restart of one
side) needs one or two faults. Rounds: the interesting boundary is a stamp shared by as
many ids as a filter names, and one by more. Outbound: the second message trims the
first's record while the two-packet loop is in progress. Mesh: relay plus second
transport gives two copies in decryption at once; MaxNow 2 with ages 1 lets every
memory expire while a relayed copy still lives. Collector: a build has to meet a second
one between two of its commits, and an upload a transaction left by another. Campaign: an
abandoned arm before the run, or after it; chunks that end inside an arm. Ring: four phones
are the least where a pair is out of radius 1, the fifth is the stray. Trials: the second
trial opens while the first one's slow phone still closes it. Legs: the second leg of a
pair, after a rotation or before the first is closed. Packets: two relays, so that ways
fork and join. Caps: three peers tell a stack distance from a recency. Larger instances were run by hand:
3 faults for pairing (692,000 states), two fragments
in mesh_mail (2.7 million, one tick).

Runs of `MeshDelivery`, and those of the server and the analysis, have `CHECK_DEADLOCK FALSE`:
a run ends when everything is served, every phone has ended or time is up. The line of `MCMeshMail` keeps time still (`MaxNow = 0`): the message must make it within the
reassembly timeout, see section 5.

**Fairness.** Weak fairness of each handler's continuation: the event loop runs what is
ready. Weak fairness of `Announce`, `Round`, `SendFrame`: periodic timers. Weak fairness
of `Tick`: time passes. In `MeshDelivery`, weak fairness of `Progress`: neighbours meet
and exchange rounds again (that the rounds reach every packet is `sync`). No fairness
is assumed of a fault or of the user; false positives are finitely many, as each is a draw of one
in 128 under a new salt, and none that lasts. In `NoiseSession` an attempt outside the
announce period counts as a fault: without pacing two peers may keep dialling each
other in step for ever. `OnSchedule` holds in `sync`: its rounds are the announce timer's alone, without
the extra ones a discovery or a reconnect starts (section 5, `MCSyncCut`). In `TraceServer` the
handler runs its synchronous body to the end, a summary is committed, and the owners press
Upload until every chunk is answered (strong fairness of `Receive` and `Persist`, which the lock
switches off and on). Nothing else of a build, and nothing of a reader, is fair.

## 4. Proofs

`DtnCustodyProofs` proves, for any packets, recipients, sizes, caps and ages:

- `TypeCorrect`: `TypeOK` always holds;
- `CarriedOnce`: a packet has one entry;
- `TwoDraws`: a retirement rests on two different salts with no contradiction between;
- `FalseRetirementTakesTwoCollisions`: a packet that never arrived is retired only if it
  collides under two different salts, and filters under both named it with no covering filter in
  between that did not. Nothing is assumed of collisions: that two in a row are improbable
  (two draws of one in 128) is the code's bet and no theorem.

The statements are not inductive alone: that the second vote is a new draw needs to know
where the first vote came from. `IInv` adds that an entry's standing vote is in its
packet's streak (`VoteInStreak`), and that a salt in the streak of a packet that has not
arrived is one the packet collides under (`StreakBacked`). A retirement finds two
different salts in the streak, so the packet has arrived or collides under both. Eviction, the
recipient cap, expiry, withdrawal and clear are the same argument, `DroppingIsSafe`:
fewer entries, no exit called a retirement.

`DtnStoreProofs` proves that `DtnStore` implements `DtnCustody`, from what `DtnPackets` assumes
of sizes, stamps and caps (nothing of collisions):

- `ListsAreTheSet`: every call on the lists is a call on the set of entries, or a stutter;
- `BooksAreKept`: one non-empty list per recipient, the total kept by hand is the sum of what
  is held, and between two calls both bounds hold;
- `HeadsAreEnough`: what eviction sheds is no younger than anything it leaves;
- `PromiseIsKept`: the three together, which is the property the `store` run checks.

`IInv` (`Sound`) says that the lists are settled (each recipient's once, none empty, each
ordered by `storedAt`, a packet in one place only), that nothing is stored in the future, and
that total and bounds are right. Order is what makes heads enough: the oldest head is the oldest
entry. Filtering a list keeps its order (`AmongIsPart`), so expiry, the ACK, retirement and the
recipient cap are one argument, `SweepIsSound` or its like. The eviction loop is followed turn
by turn: what was taken is no younger than what is left, what is left and what was
taken weigh what there was, and after as many turns as there were entries the loop has ended of
itself (`ShedRuns`, `EvictionDrains`). The promise sums a set with `CHOOSE`; `BytesWithout` and
`BytesSplit` show that the sum does not depend on the order taken, by induction on cardinality.

`OutboundMessageProofs` proves, for any messages and packet counts:

- `IndexIsExact`: once its send is over, a message's index entry names exactly its packets
  in the buffer;
- `ConfirmationEmpties`: a confirmed message was stored whole and has left the buffer;
- `StoreComesFirst`: nothing is at the recipient, or shown as sent or queued, that was not
  stored first;
- `StatusOnlyAdvances`: no step takes a status back, in every order.

The first three assume `~ CancelMidSend`, the premise `MCOutboundCancel.cfg` breaks (section
5). While a loop runs the index names more than the buffer holds: `IInv` says that the
surplus is what the loop has still to write (`Mirrored`), and that what was stored so far is
what lies before the loop's place (`StoredSoFar`). Packets of different messages being
disjoint (`PacketsApart`), a step on one message leaves every other in step (`Untouched`).
`StatusOnlyAdvances` needs no more than the status's type.

`MeshDeliveryProofs` proves, for any nodes, links, messages, ages and faults:

- `BeliefIsTrue`: what is shown as delivered was handed over, and what was handed over was
  sent;
- `MailboxIsKept`: while no session has had more packets opened than it remembers nonces
  (`WindowHolds`), the mesh implements `Mailbox`: at most once, and confirmed only then.

The first is an argument on where packets come from: `IInv` says that each one held, on the air
or being opened is vouched for, its message sent and, if it is an ACK, handed over. `Send` and
`HandOver` make packets, everything else copies (`Moved`) or drops them (`DroppingIsSafe`).
For the second `OnceInv` adds what happens to the packets of a message: what was gathered for
it, and all of a message that was handed over, is spent, its nonce noted or its session gone
(`Gathered`, `Finished`); and as long as a copy of it is still in decryption the recipient
remembers the delivery (`Remembered`), since time passes only when no decryption is
under way. So a copy that outlives the dedup sets is refused, and one that was let in before
the nonce was noted meets the note of the delivery. The premise is what `mesh_twice` breaks
(section 5); it holds in every state of `mesh_mail`.

`NoiseSessionProofs` proves, for any number of faults and any timeouts:

- `PairingTypeCorrect`: `TypeOK` always holds;
- `OneInitiation`: an entry never has two initiations under way, overlapping handlers included;
- `NoCallerIsLeftBehind`: who waits on an entry's own completer is released by it;
- `TakingTurnsAgrees`: handlers that take turns never leave two peers on different sessions.

`Tables` has one conjunct per peer (`Own`): whose keys its entry, handlers and packets may
carry, that a handler is attached only to an entry that exists, and that the reservation and the
attached start come and go together. It needs no premise on the regime. Agreement is
`InTurn`: a peer is *poised* for a session that it has, is completing, or will complete when a
message that is on its way arrives; no two peers are poised for different sessions (`Agree`), and
a handler that makes a key is the only one that has it (`Unspent`), so that what answers a key
cannot complete an attempt that was replaced. Answering a message 1 makes a peer poised for nothing.
`~ regime.overlap` is the premise of `SerialHandlersAgree`, and `noise_split` breaks it.
That a fresh key is fresh rests on the keys in use being finitely many.

`SyncRoundProofs` proves, for any packets, stamps, links, filter limits, budgets and clocks:

- `RoundTypeCorrect`: `TypeOK` always holds;
- `RoundsKeepApart`: no ground is in two frames of a round, wherever its cursor stood;
- `WindowsAreNamed`: a frame names all its window claims, unless a stamp overruns the filter;
- `ReachIsCovered`: the reach table never gives a round less than it named;
- `HungerIsExplained`: mail the frame did not name is conveyed, unreached, cut by the cap or falsely
  claimed, and what an uncut answer withholds is the asker's own and the false claims, no more.

The first so many of a finite total order are closed downwards (`LeadingAreFirst`), so a
selection cut back to whole stamps is all of a range of stamps, or is one stamp alone; then a
frame is `Described`, and the frames of a sweep, each resumed past the one before, walk upwards
below the prefix (`Walk`, `Apart`). `Inv` says that of the round last built and that what the
pacer has left is its end. The tables are counting: a union of so many sets
of so many ids, and a cut answer of exactly the cap. Assumed are that the neighbour holds
finitely many packets and that there are finitely many limits, each round having at least two
frames (`maxSyncFramesPerRound` is 10).

`TraceServerProofs` proves, for any uploads, records, builds and readers:

- `ServerTypeCorrect`: the state is well formed;
- `UploadsAreArchivedFirst`: whatever names an upload, in the database, in what the shared
  connection has written and not committed, or at the phone, its line is in the archive;
- `ServerKeepsItsPromise`: under the regimes in which no write raises half-way
  (`~ regime.writesFail`) the server implements `Collector`, so an answer of "stored" or
  "duplicate" is for an upload kept whole;
- `AnsweredUploadsAreServed`: under the same regimes what was answered for shows whole in
  every later answer;
- `LoneBuildIsWhole`: an index built with no other build at work is exact, in all regimes.

The duplicate check reads through the shared connection, so it may see a snapshot a read
pinned earlier: `IInv` says that the pinned snapshot and the request in hand name archived
uploads too. `RInv` adds, where no write raises, that the connection never carries writes of
its own from one step to the next (`KeptWhole`), that the database, and a pinned snapshot, hold
exactly the records of the uploads they name, and that the snapshot names every upload answered
for (`ReadWhole`); then what the check finds is kept whole, and what is served too. `StepSeen`
shows that every step is one of three: silent (every step of a build is), one that answers, and
one that keeps and answers. The premise is needed: with writes that raise, the promise is broken
(section 5), and the mapping, as in the run, then claims nothing.
`IndexInv` follows the one build there is through its commits: while it works, what it has
committed and what it still holds are together the rows of what its passes have read so far
(`Progress`), and once it is done the index is that of its sources (`Indexed`). It assumes
that an upload has finitely many records, each of finitely many packets, as counting needs.

`CampaignProofs` proves, for any arms, presses of Upload, chunks, messages and kinds of recording:

- `TypesHold`: `TypeOK` always holds;
- `JoinsHold`: once all is uploaded and each phone completed at most one run, a sent and a
  received record that the loader joins are of one run;
- `ReadOnceHolds`: the run that was completed is read whole, and at most once, by the loader
  where its uploads can be told apart; and the join figures of a phone armed again are of that
  run alone.

`IInv` says what of the order of writing survives in the pieces that were uploaded. A stamp tells
a record and rises with the arm (`InOrder`); a record of an arm never stands, in a file or among
the rows of one upload, without the arm's placement before it (`Placed`); an end is on record
only of an arm that ended, and unless files are cleared a completed run stays in its file, its
rows being rows of the file (`Ended`); no upload of a file was longer than the file is now
(`Lengths`); and an id was minted for the run it was sent in (`Minted`). From the first two, a
record lies in the block that begins with its arm's placement and in no other (`OwnBlock`,
`BlockArm`), in any set of rows that holds the placements (`Whole`). The loader's choice of
uploads is such a set, since it keeps or drops an upload entire (`NewestIsWhole`). So the arm that
is chosen is the completed one (`ChosenIsEnded`); in an older recording, whose ids restart with
the run, both runs that share an id stand in the sender's file, where one is cut and its ids
tainted. `Readable`, in `CompletedRunReadOnce`, is where the lengths tell: all uploads are of
the file that stands; or that file was uploaded under one length and no file discarded before it
is twenty times as long. It is needed: with three presses TLC refutes the property without it
(section 5, `OneGenerationKept`), and it holds in every state of the `campaign` run, where a phone
presses twice.

The library's induction theorems take an operator and cannot be instantiated here: the proofs
that need induction derive it, as a statement about a set of numbers, from the well-foundedness
of `<`.

Model-checked only: the type of the order of status records in `OutboundMessage`, and the
properties of `RingTestbed` and of the tables of the analysis (`Trials`, `TrialFigures`,
`LinkTrace`, `PacketTrace`, `SessionCap`): each compares a fold over a whole trace with what
happened, so its proof would be an induction over the trace, which is data. Out of the prover's
reach: liveness under fairness, and ENABLED.

## 5. Where the code and its documentation disagree

Runs with a violation (`PROJECT.json`, findings):

- **noise_split**: two first messages that cross inside `startHandshake`'s awaits leave the
  peers with different sessions; the glare check does not see the attempt being built.
- **sync_gap**: the ground between the newest swept id and the prefix's floor is in no frame.
- **mesh_twice**: a copy's age restarts at each custodian, so copies outlive the dedup sets;
  what protects is the window of 2048 nonces, until that much traffic has passed.

Further instances, beside the runs of the list; each config is checked the same way and
ends in a counterexample. Where no config is named, take the module's passing one, put the
property in the place of the others and the definition named in the place of the regimes.

| Config or change | Property | What the code does |
|---|---|---|
| `MCNoiseTimer` | `TimerSparesSession` | a caller left on a replaced completer times out and resets the established session (noise_session_manager.dart:183-192, 437-441) |
| `MCNoiseSweep` | `SweepSparesLiveAttempts` | the sweep goes by the age of the entry, so a live attempt in an old entry is dropped (330-336, against 583-585) |
| `MCSyncLegs` | `SeenGroundIsSwept` | BLE and UDX rounds take turns on one cursor and each link asks about its own half only (message_router.dart:1497) |
| `MCSyncCut` | `RoundsFinish` | a round a debounce after the last cancels frames the cursor has passed (grassroots_network.dart:5483-5485) |
| `MCSyncSkew` | `RoundsAskForTheNewest` | stamps from a clock ahead of ours empty the prefix's window (message_router.dart:1392) |
| `MCOutboundCancel` | `CancelledStaysOut` | a withdrawal between two packets leaves the second in the buffer without an index entry (grassroots_network.dart:1778) |
| `MCOutboundDelete` | `DeletedStaysDeleted` | the end of a send creates the record of a deleted conversation anew (messages_reducer.dart:119) |
| `MCTraceServerTorn` | `AnswersAreWhole` | the index is cleared and filled in commits of their own, and its meta row survives a clear: a list read meanwhile, or after a kill, answers "never seen again" of packets that were (server.py:400-403, against 514-515) |
| `MCTraceServerLost` | `AckedIsServed` | a row that raises leaves the transaction open; the retry finds the upload's row in it, is answered as a duplicate, and the next commit makes the partial upload permanent (server.py:232-258, against "Idempotent" and "Lossless" in 13-21) |
| `MCTraceServerWedge` | `UploadsLand` | a write that finds the lock held leaves a transaction behind; the next read pins its snapshot, and once another connection commits no write of the shared connection succeeds again until a restart: pressing Upload again, as experiment_recorder.dart:541 has it, does not help |
| `MCCampaignStray` | `CompletedRunSurvives` | a stray re-arm at the tail mints the same ids again in an older recording, which taints those of the completed run (analyze.py:276-291, against 209-211) |
| `MCCampaign`, `Regimes <- Discards`, `Presses <- ThreePresses` | `OneGenerationKept` | the upload of a file since discarded makes a partial and a full upload of the next one more than a twentieth over the longest, so all three are kept and the run is read twice; one twenty times as long hides the run instead (analyze.py:601-629, against "Keep one generation" in 578) |
| `MCCampaign` | `HungNeverArrive` | a message whose write was never answered is in the buffer and may be conveyed; the report counts it as destroyed and outside its denominator (ring_report.py:415-421, 443-447, against message_router.dart:1068-1086) |
| `MCAnalysis`, `Regimes <- Failing` | `WindowsHoldTheirSends` | a radio that comes up inside a dwell moves the start of the trial's window past sends already made (analyze.py:823-825, 4606-4609) |
| `MCAnalysis`, `Regimes <- Resealing` | `WindowsHoldTheirSends` | the second sent record of a re-sealed message falls in the next trial's window and is counted there too: the latency table keeps the first record (2592-2593), the outcomes take every one (analyze.py:4594-4609) |
| `MCAnalysis` | `AckedHaveArrived` | the per-device table counts acknowledgements as arrived and arrivals as acknowledged (analyze.py:1128-1133) |
| `MCAnalysis` | `DwellsAreDeclared` | the dwell is read up to the next marker of any phone, a reset of the next step included (analyze.py:3094-3130) |
| `MCAnalysis`, `LinkRegimes <- Redialling` | `LinksHeldCover` | a new leg supersedes an old one of its peer and role before the transport drops either, and when it goes first the peer is lost from the count (analyze.py:962-972, against ble_transport_service.dart:3271-3295) |
| `MCAnalysis` | `ConvergedHoldsBoth` | the guard that both legs be up is never reached: the instant may be one with a single leg (analyze.py:4180-4195, against 4042-4045) |
| `MCAnalysis`, `PacketRegimes <- Whole` | `ExactPathsAreTrue` | a chain of known edges need not end at the receiver, so a copy's side branch is part of an exact path (analyze.py:1701-1713, against 1622-1625) |
| `MCAnalysis`, `PacketRegimes <- Pieces` | `LostNeverLeft` | a fragment that came straight to its recipient leaves no record of its own and is printed as never having left (analyze.py:2123-2129) |
| `MCAnalysis`, `PacketRegimes <- Whole` | `CarriedAreCounted` | a relay's duplicate is stored before it is a sighting of custody (analyze.py:2080-2083) |
| `MCAnalysis` | `TouchedAreAll` | a copy in custody that no relay forwarded counts as never touched (analyze.py:5298-5300) |
| `MCSync` | `CoveredIsNamed` | the reach table takes every frame for full, so 1.0 does not mean that all pending ids were named (analyze.py:339-346) |
| `MCSync` | `WithheldIsClaimed` | what the cap cut off is counted with what the filter claimed (message_router.dart:1667, analyze.py:438-440) |
| `MCAnalysis` | `EndsSayAsMuch` | reading a contact by its ends splits a long one in two encounters (contact_trace.py, `load_contacts`) |

Seen while modelling, without a run:

- a partial message dropped by the four-minute timeout leaves its fragments in the seen-set
  and the nonce window: what its sender still holds can never be completed
  (fragment_handler.dart:207);
- an ACK whose UDP write fails is not buffered and duplicates trigger no other
  (grassroots_network.dart:4418, message_router.dart:835-839), though the comment there says
  the sender redelivers until a BLE encounter ACKs it;
- the retirement of a sent message writes an `end` record whether its packets were held or not
  (message_router.dart:1105-1117), and `retirement_table` counts them all, against its docstring;
- `abort` in the field runner says "Files stay" and its recorder discards the file;
- `NoiseSessionManager.maxSessions`, which contact_trace.py and grassroots_network.dart:1875
  name, does not exist: the session table is unbounded;
- `session_cap` charges the share of misses to all encounters, though the hit rate is taken over
  recurrences only, and its "cheapest cap is simply the largest" is the smallest of the equals;
- `mesh_summary` counts relayed ACKs with the relayed data;
- `establishment_time.py` reads every generation of a file that grew between two uploads;
- with three phones a stage's base may be the radio-up of a phone that is on neither end of it;
- the comment on `retirableOnSeen` (dtn_store.dart:367-373) says confirmations are
  retirable; the ACK is dispatched with `retirableOnSeen: false`.

## 6. Not modelled, and the plan

Done, with proofs: the buffer, pairing, sync rounds, outbound messages, end-to-end delivery, the
trace server, the loader; without: the ring report, and the tables of trials, links,
packets, sessions and caps. In the order planned:

1. Proofs: `RingTestbed`, if its folds over the trace are first restated as facts about each record.
2. `Mediation`: signaling and hole-punch coordination between two friends and a mediator
   (late answers, stale addresses, retries), abstract specification "both learn a live
   address or both give up"; `Invite`: the one-time nonce ledger across restarts.
3. `PeerReachability`: the peers reducer over two transports with stale sweeps, implementing
   "reachable iff some live path"; friendships between two peers with crossing requests.
4. `BleLegs`: the choice between two legs, write timeouts, disconnection in mid-write (what
   `RingTestbed` and `LinkTrace` have of the transport is its legs as it records them).
5. `UdpConnection` and persistence: connect and accept racing; debounced saves and a crash.
6. Announce and discovery scheduling, the cold-call trust gate, read receipts end to end.

Not modelled of the analysis: the tables of RSSI, battery, throughput and the cryptography
bench (arithmetic over single columns), the raw-link and soak reports, everything that draws,
and the per-campaign scripts (`nexus-line/analyze.py`, `fieldday_figs.py`, `story_figs.py`),
which compute the same tables for one recording and plot them.

Not modelled of the send path: the bound of 200,000 entries on the index (grassroots_network.dart:1613-1621; a
packet whose entry is evicted leaves the buffer by age alone), and a retry under an id already used.

Left out for good: byte layouts (packets, codecs, Golomb-Rice coding), cryptography beyond
what it guarantees, the UDX stream, SQLite and the BLE plugin (libraries), the UI, media files:
they change no state the promises are about.
