# Formal specification of smolkafka

smolkafka is a replicated commit log: nodes keep segmented logs on disk, Raft
replicates the produce requests between them, Serf tells them who is there,
and a gRPC service with client-side load balancing lets clients produce and
consume. This directory holds TLA+ models of its parts, the TLC runs that
check them on small instances, and TLAPS proofs of the safety properties for
every instance. `PROJECT.json` lists the runs, what each definition models,
the hazards of the code and the findings.

## 1. The system

| component | state | operations | interacts with |
|---|---|---|---|
| store (`internal/log/store.go`) | file, size, bufio buffer | Append, Read, ReadAt, Close | its segment |
| index (`index.go`) | memory-mapped file, size | Write, Read, Close | its segment |
| segment (`segment.go`) | base and next offset | Append, Read, IsMaxed, Remove, Close | its log |
| log (`log.go`) | segments, active segment | Append, Read, LowestOffset, HighestOffset, Truncate, Reader, Reset, Close, Remove | fsm, log store, server |
| distributed log (`distributed.go`) | the user's log, Raft | Append, Read, Join, Leave, WaitForLeader, GetServers, Close | Raft, the server, membership |
| fsm and snapshot | the user's log | Apply, Snapshot, Persist, Restore | called by Raft |
| log store | a second log, for Raft's entries | FirstIndex, LastIndex, GetLog, StoreLogs, DeleteRange | called by Raft |
| stream layer | a listener | Dial, Accept | Raft's transport |
| membership (`internal/discovery`) | Serf, its event channel | eventHandler, Leave | Serf, distributed log |
| agent (`internal/agent`) | the parts of a node | New, Shutdown | everything in a node |
| load balancing (`internal/loadbalance`) | leader, followers, counter | Build, Pick, ResolveNow | gRPC, GetServers |
| server (`internal/server/server.go`) | none of its own | Produce, Consume, their streams, GetServers | distributed log |
| HTTP log (`internal/server/log.go`, `http.go`) | a slice behind a mutex | Append, Read | HTTP |

What is hard: the bookkeeping of offsets and sizes across two files per
segment, with rolls, restarts and crashes between any two steps; the copy of
the log on every node, appended to at each node's own time while leaders
change; calls whose outcome is unknown; events that are told once, to nodes
that may not be able to act on them; and start-up and shutdown in a fixed
order while other goroutines run. What makes the parts correct is listed
with the modules below; the lines where they could go wrong are the hazards
of `PROJECT.json`.

How the models fit together, from the disk to the client:

    LoadBalance   Agent + Streams          Membership
                       |  uses
                   SharedLog
                       ^  implemented by
                  Replication
                       |  one RecordLog for each node
                   RecordLog
                       ^  implemented by
                  FsmSnapshot      RaftLogStore
                       |  extend        |
                       +--- CommitLog --+
                                |  implements
                            OffsetLog

FsmSnapshot and RaftLogStore extend CommitLog itself, because what is hard in
them is in its files. Replication has one sequence of records for each node's
log: FsmSnapshot is CommitLog as the fsm uses it, and implements that sequence
(`RecordLog`).

## 2. Modules

| module | what it is |
|---|---|
| `OffsetLog` | abstract: a map from consecutive offsets to records, what callers of a log rely on |
| `CommitLog` | `store.go`, `index.go`, `segment.go`, `log.go`; refines `OffsetLog` |
| `CommitLogCrash` | CommitLog whose process can be killed |
| `CommitLogProofs` | proofs about CommitLog |
| `RecordLog` | abstract: a sequence of records that grows at its end or is reset, what Replication takes a node's log for |
| `FsmSnapshot` | the CommitLog of a node as fsm.Apply, Read and Close use it, with Snapshot, Persist and Restore; refines `RecordLog` |
| `FsmSnapshotProofs` | proofs about FsmSnapshot |
| `RaftLogStore` | logStore: Raft's entries in a CommitLog |
| `RaftLogStoreProofs` | proofs about RaftLogStore |
| `SharedLog` | abstract: one log that grows at its end, and what becomes of each call, as clients see it |
| `SharedLogProofs` | the order of calls in SharedLog, proved once for all that implement it |
| `Replication` | DistributedLog.Append, apply and fsm.Apply over an external Raft; refines `SharedLog` |
| `ReplicationProofs` | proofs about Replication |
| `Membership` | the Serf event handler, Join and Leave, start and shutdown of nodes |
| `MembershipProofs` | proofs about Membership |
| `Streams` | the handlers of `server.go` over `SharedLog` |
| `Agent` | agent.New, Shutdown and its callers, with `Streams` on the node; extends it |
| `AgentProofs` | proofs about Streams and Agent |
| `LoadBalance` | Resolver, Picker and GetServers over gRPC's base balancer |
| `LoadBalanceProofs` | proofs about LoadBalance |
| `MC...` | instances for TLC |

### CommitLog

Every exported operation of Log holds `l.mu` for all of its work, so each is
one action. The list of segments is the set of their base offsets
(`segments`, `activeSegment`, `nextOffset`); a store is the set of its frames
with their byte positions, its `size` and the bytes that have left the buffer
(`file`); an index is the slots of its memory map, its `size`, and the length
of its file; `dir` is the directory. Sizes are bytes: the 8-byte frame header
and the 12-byte index entry are those of the code, because the interesting
behaviour is at their limits. A marshalled record is its offset, its value
and a length.

`AppendStay` is an append that leaves the segment below its limits,
`AppendRoll` one that maxes it out and starts the next, `AppendEOF` one whose
index write fails after the store write. `Read` and `ReaderRead` change state
too: they flush the store's buffer. `Compact` is DeleteRange as Raft calls it
behind a snapshot, `Close`, `Remove` and `Open` are Close, Remove (and Reset,
which ends in the same state with an error) and NewLog. `MaxStoreSize` is a
bound of the model only: segment.Append takes a record whatever the size of
the store, so a log that refuses every record could be appended to for ever.
Errors of the operating system are not modelled.

`CommitLogCrash` adds `Crash`: buffered frames are gone, index entries are in
the file through the shared mapping, and the index file keeps the padding
that only `index.Close` cuts off.

### Replication

One node's log is the sequence of its records (what FsmSnapshot is shown to
implement). `committed` is the one order Raft agrees on, `pending` the
requests a leader took that may still be committed. `leading` has every node
that believes it leads and so accepts requests; only `leader` can commit.
`Propose` and `Reject` are the two outcomes of `raft.Apply` in `apply`;
`Apply` is `fsm.Apply` with `applyAppend`, and the answer of the future that
waits on that node; `Elect`, `Commit`, `Overwrite`, `Partition`, `StepDown`
are Raft, `Stop` the death or the Close of a node; any number may stop, and
without a majority there is no leader. `FailWaiting` is what the waiting
`future.Error()` returns on lost leadership. A call whose request is committed
may be with fsm.Apply when its node steps down, which then answers it; which
calls those are is Raft's choice, and any subset of them is allowed. Each call
carries a record of its own, so that a record that is in a log twice, or not
where its answer said, can be told.

A failed call may or may not leave a record: `Overwrite` and `Commit` are both
possible after `StepDown`. That is why `AtMostOnce` promises a clean retry
only to calls that were rejected; a client that repeats a failed produce may
store the record twice.

### Membership

`members` and `event` are what each node's Serf has told its handler and the
event the handler works on, `listening` whether the handler still reads;
`servers` is Raft's configuration, from IDs to addresses, and `address` what a
node was last started under. Serf's notices are separate from the handling, so
elections, departures and suspicions fall between the two. Join is three
actions, because its look at the configuration and its two changes of it are
apart in time: `JoinReads` looks the ID and the address up, `JoinRemoves` is
RemoveServer with the newcomer's ID, `JoinAdds` AddVoter. `HandleLeave` is
handleLeave with DistributedLog.Leave, `HandleOwnLeave` the return of the
handler. A change is refused on a node that does not lead, and AddVoter also
when the address is another server's (both external); `Committed` and
`NotCommitted` are Raft's side of it: a leader whose change cannot reach a
majority of the new configuration loses its lead, with the change made or not.

`Start`, `Leave`, `CloseLog` and `Crash` are agent.New, the two ends of
Agent.Shutdown (Serf first, Raft last) and the death of the process. A node may
come back under another address. If nobody noticed that it was away, Serf
reports the new address as an update, which eventHandler ignores, and the
configuration keeps the old one. A node that comes back is taken to find Raft's
files in order; the `crash` run shows why it often does not.

### SharedLog, Streams and Agent

`SharedLog` is the promise of DistributedLog without leaders, elections or
deaths: a call is taken, turned away, or fails; its record enters the log at
most once, at the end; each node's part of the log grows record by record,
and a call is answered with the record's offset when the part of the node
that took it reaches it. `Replication` refines it with `committed` for the
log and each node's log for its part. A failed call whose record comes in
later is allowed, and nothing worse is.

`Streams` has one state for each stream's handler (`stream`), how many
requests a produce stream was answered (`answered`), and what a consume
stream sent (`sent`). `Receive`, `Refuse`, `Abort`, `Respond` and
`EndProduce` are the ways through one turn of ProduceStream's loop, `Send`
and `EndConsume` those of ConsumeStream's; a turn that finds the offset out
of range changes nothing. Produce and Consume are one turn each.

`Agent` is one node, Self, from New to the end of its process. `SetupStep`
runs the functions of New in order, `SetupFails` ends the process at any of
them. `caller` has what the three callers of Shutdown do: main on a signal
(`Signal`), serve when mux.Serve returns (`MuxServeFails`), the goroutine of
setupServer when grpc.Serve does (`GrpcServeFails`). `Lock` is the mutex and
the flag, and the teardown is `Leave`, `GracefulStop`, `GracefulStopReturns`
(external: it waits for the handlers) and `CloseLog`; `LeaveFails` and
`CloseLogFails` are its errors, of Serf, of Raft's shutdown and of the log's
own Close. The process ends when main has returned from Shutdown (`Exit`),
when a function of setup fails, or at any time (`Killed`). GracefulStop closes
the listener, which is what makes mux.Serve return: the first caller itself
brings the second.

### LoadBalance

`Build`, `PickProduce`, `PickConsume` and `Consume` are the Picker;
`Dial`, `ResolveNow`, `ReadLeader`, `ResolveFails`, `UpdateState` and `Close`
are Resolver.Build, the steps of ResolveNow and Close. `ReadLeader` is one
turn of the loop of GetServers, which asks Raft for the leader once for each
server. The base balancer of gRPC is external: which SubConns it keeps,
makes and shuts down when it is given new addresses, and when it calls Build.
Resolver and Picker are registered once and serve every client connection of
the process, and so they do in the model. Pick has a third case, a method that
is neither Produce nor Consume, which waits for ever once there are followers;
the model has no such call, since GetServers, the only one of the service, is
made by the Resolver on a connection of its own.

### RaftLogStore and FsmSnapshot

`entry` and `lastIndex` are what Raft stored and did not delete, `batch` and
`stored` the loop of StoreLogs, so that an append can fail in the middle of a
batch. `DeletePrefix` and `DeleteSuffix` are the two uses Raft makes of
DeleteRange: behind a snapshot, and on a conflict with the leader.
`ConflictFreeNext` is all of it but `DeleteSuffix`, whose effect is finding 5.
A failed append is the log's last: the index that refused it stays full, and
every later append is refused too. That is why StoredIsFound holds even when
batches break off half-way, and why EndsAgree does not: the first entries of
the broken batch are in the log and Raft does not count them.

FsmSnapshot is the log of the clients' records. `UseLog` is fsm.applyAppend
and DistributedLog.Read; nothing in the code truncates this log. To
CommitLog's files it adds their own positions. `Snapshot` takes the list of
readers; `Persist` copies one store at a time while records are appended and
read, and copies what io.Copy copies: it prefers WriteTo to Read, and
originReader has the WriteTo of os.File through the store it embeds. When the
last store is copied the snapshot replaces the one before; snapshots are taken
again and again. `PersistFails` is a Persist whose log was deleted under it.
`Restart` closes or opens the log, and the log is in use again only once
`Restore` has given it the last snapshot. `Install` is a Restore at run time,
of a snapshot that another node sent (InstallSnapshot). A snapshot can miss
records (finding 6), but what it has is never wrong: `ImageAgrees`.

`Records` reads the log from its initial offset to its next one. That it
implements RecordLog means that a successful append adds one record at the
end, that Restore may take all of them, and that nothing else changes the
sequence: not a roll, a failed append, a flush, a snapshot or a restart.

## 3. Runs

| run | states | question |
|---|---|---|
| `unaligned` | 21 467 | is the log an offset-to-record map, also when appends fail half-way, as with the default index size of 1024? |
| `wedge` | violation | is a segment that returns io.EOF maxed out? |
| `crash` | violation | is the next offset past every record after a kill? |
| `replication` | 40 156 | do replicas agree, do answers hold, do calls end? |
| `membership` | 77 896 | do servers follow members, also when a node returns under another address or a newcomer has a known one? |
| `membership_leave` | violation | is every server that is gone removed? |
| `loadbalance` | 154 528 | do calls go to ready servers of the right role? |
| `loadbalance_settle` | violation | do produce calls reach the leader once leadership settles? |
| `agent` | 124 989 | do streams stay in order and shut down cleanly while the node starts, serves and stops? |
| `user_log` | 13 522 | is a node's log the sequence that Replication takes it for, and do snapshots agree with it? |
| `raft_conflict` | violation | is an entry that Raft stored found under its index? |
| `snapshot` | violation | does a snapshot hold what was applied? |

What they check:

- `SegmentsTile`, `EndsAreReadable`: one owner per offset, and the lowest and
  highest offset are real, through rolls, compactions and restarts.
- `ReadsOwnRecord`: an offset in range leads to the frame appended with it.
- `ActiveHasRoom`, `StreamIsLog`: with an aligned index no append fails
  half-way and no frame is orphaned.
- `StreamHoldsLog`: whatever the index size, the frames that Log.Reader
  streams are those that Log.Read finds, and refused ones only at the end of
  the active segment.
- `ReopenRestores`: a closed log is rebuilt from its files alone.
- `ReopenPastEveryRecord`: after an orderly Close and with an aligned index no
  offset is given out a second time. The `crash` run refutes the same property
  for a process that is killed.
- `ImplementsOffsetLog`: refinement of `OffsetLog`, with the contents read
  through the index as the map.
- `NothingLost`, `ImplementsRecordLog`, `RecordsStay`: in a node's log of
  client records every offset that was given out can be read, the log is a
  sequence, and between two calls of fsm.Restore no record goes or changes.
- `ImageAgrees`: an offset that both the snapshot and the log have is one
  record, later and after restarts as well.
- `RealTimeOrder`: a call made after another one was answered gets a later
  offset, through whichever node.
- `ReplicasAgree`, `AnswersHold`, `AtMostOnce`, `CallsEnd`,
  `AnswersReachAll`: as above, over every interleaving of calls, elections,
  partitions and deaths within the bounds.
- `LeaderIsServer`: no handler removes the node it runs on, which may be the
  leader.
- `ServersStay`: a server leaves the configuration, or its address there
  changes, only when the leader was told that it is gone or is at its own
  join. So a newcomer under a server's address never takes its place, and an
  event a handler holds is never older than what its node knows. The exception
  is real: a join that was read under an earlier leader can remove a server
  that another node has registered correctly meanwhile, before it adds it
  again.
- `LeaderAddsNewcomers`, `LeaderRemovesLeavers`: a leader acts on what it is
  told while it leads and is not being shut down. One that is held in
  GracefulStop, perhaps for ever, still leads, and handles nothing: it has left
  Serf and its handler has returned. That gap is the code's, and the
  properties name it (`LeaderHandles`).
  An address that is still another's stops a newcomer:
  Join then removes the newcomer's ID, not the old server's, and AddVoter
  fails. LeaderRemovesLeavers needs three servers that run: of two, the one
  that is left has no majority and its lead ends.
- `ImplementsSharedLog`: refinement of `SharedLog`.
- `StreamsInOrder`, `ProduceInOrder`, `AnswersAreStreamed`: a consume stream
  sends each record once, in order, and all of them while it is open; the
  requests of a produce stream enter the log in order, also one that failed
  and came in late.
- `HandlersHaveLog`, `ShutdownCutsNoCall`, `NilMeansDown`: the teardown never
  closes the log under a handler or fails a call, and nil from Shutdown means
  the node is down, also to the second of two callers. A teardown that returned
  an error is the exception that NilMeansDown names: it ended there, and a
  later Shutdown returns nil with the log open. Nothing in the repository
  promises more, so no run asks for it.
- `OnlyStreamsHoldShutdown`: if the streams end, so does every Shutdown. The
  condition is needed: ConsumeStream waits at the end of the log until its
  client goes away, and GracefulStop waits for ConsumeStream.
- `RolesKept`, `CallsFindReady`, `TurnsEven`, `ToldLeaderIsPicked`: the
  leader that Build leaves in the Picker when it finds none is harmless while
  the process has one client connection; followers take turns whatever the
  counter stands at; a client that was told of a leader, and of one only,
  sends it the produce calls. (When GetServers asks for the leader in the
  middle of an election the client may be told of two leaders or of none; then
  only RolesKept and CallsFindReady say anything.)

StoredIsFound and EndsAgree, that Raft finds its entries under their own
indexes and the ends of its log where it left them, are refuted by
`raft_conflict` and proved for what comes before a conflict.

More configurations are here to be run by hand
(`tlc -config MCUserLogUnaligned.cfg MCFsmSnapshot`). `PROJECT.json` does not
list them: what the first five check holds by the theorems as well, and the
last one is the second half of finding 6.

| configuration | states | question |
|---|---|---|
| `MCCommitLogAligned.cfg` | 10 856 | the properties of the log with an aligned index, through compactions as well |
| `MCUserLogUnaligned.cfg` | 90 420 | the properties of a node's log and its snapshots when appends fail half-way |
| `MCRaftLogStoreAligned.cfg` | 109 719 | StoredIsFound and EndsAgree as long as no entry conflicts |
| `MCRaftLogStoreUnaligned.cfg` | 527 255 | StoredIsFound when batches fail half-way |
| `MCLoadBalanceShared.cfg` | 667 566 | RolesKept and TurnsEven with two client connections on the one Picker |
| `MCFsmSnapshotRestore.cfg` | violation | does the log hold a snapshot's records after Restore (RestoreKeepsApplied)? |

### Bounds

CommitLog: the unaligned run has an index of 30 bytes, two entries and six
bytes that no entry fits, and `MaxStoreBytes` of 48. Frames are 13 or 50
bytes: a long one makes the store roll, so four records give up to five
segments, the last one empty, and two short ones fill an index that is not
maxed out, so that the next append is refused, with compactions and restarts
before and after. The log never looks at the two values, which only tell
records apart, so they are symmetric. The user_log run has an index of 24
bytes, two entries, and stores of 28, with frames of 13 or 28: segments roll
by either limit and by both at once, and three records make up to four
segments, with rolls between Snapshot and Persist and from one snapshot to the
next, and restarts and installed snapshots before and after.
MCUserLogUnaligned.cfg has 30 and 40 bytes, so that two short frames fill the
index while the store is not maxed out, and a short and a long one roll: there
a snapshot meets refused frames. RaftLogStore has batches of two, the smallest
that can break off half-way. `MaxStoreSize` lets a segment whose index is full
refuse three short records in a row. Replication: three nodes are the fewest
with a majority that survives a death, and all three may stop; two calls are
the fewest that can be reordered or take each other's place; two elections are
one change of leader, with the old one still believing. Membership: four
nodes, of which one may come back under a second address and another is
started under its first; `Formed` says which nodes form the cluster at the
start, one or three, so that the bound of two starts, departures, crashes or
suspicions is spent on what happens to a cluster and not on building it; two
terms of leadership. LoadBalance: one client connection and two servers, the
fewest with a leader and a follower, two elections, three faults, four consume
calls. MCLoadBalanceShared.cfg has two client connections with one election
and one fault. The theorem about RolesKept is for any number of client
connections. Agent: two nodes, so that a stream can read from a node that
lags, one produce stream of two requests and two consume streams, one on each
node and from different offsets. `MaxChanges` and `MaxElections` bound only
what happens to the system from outside, never what it does about it. No run
ends before the bounded events can follow each other in every order; runs that
may run out of events turn deadlock checking off.

### Fairness

Replication: weak fairness of each `Commit` (the leader commits what it took),
of each node's `Apply` while there is a leader, or of what a deposed leader
was already handed (Raft's own goroutines do both), and of `StepDown` (the
leader lease runs out). None for elections, proposals or failures:
`AnswersReachAll` asks only for what follows once a leader stays. Membership:
weak fairness of each node's gossip and handler together, of elections while
they are possible, and of the step-down of a leader without majority.
`CloseLog` is not fair: an open consume stream holds GracefulStop for ever
(agent.go:101), with the node already out of Serf. Agent: weak fairness of
each caller inside Shutdown (a goroutine that can go on does), of a handler
that finds a record, and of Raft passing committed records to each node; none
for clients, who may keep a stream open for ever, but a send to an open stream
goes through: its client reads. LoadBalance: weak fairness of a resolution
that was asked for, of each connection that is being made (gRPC tries again
and again), and of elections.

### Findings

1. `wedge`: `IsMaxed` and `index.Write` disagree on what full means when
   `MaxIndexBytes` is not a multiple of 12, as the default is not. The segment
   then refuses every record and is never replaced. With the default limits
   it takes records with empty values; with larger ones the store fills first.
2. `crash`: after a kill the padded index makes the next offset fall below
   records that are stored. DistributedLog.Close never closes Raft's log
   store, so that log meets this on every restart.
3. `membership_leave`: a departure is handled once, by whoever leads at that
   moment or by nobody. A leader that shuts down in order stays a voter, and
   from then on counts against the majority.
4. `loadbalance_settle`: gRPC resolves again when a connection fails, and a
   change of leader breaks none. Produce calls go to the old leader, which
   refuses them, until some connection breaks. (The client resolves once, while
   s1 leads; s2 is elected; every later call is still given s1.)
5. `raft_conflict`: DeleteRange ignores `min`. Raft asks for the last entries
   to be deleted, Truncate deletes every segment at or below them, and the
   log is left without the entries before them and with an active segment
   outside its list.
6. `snapshot`: a snapshot of a log that was appended to since it was opened
   misses its records, since io.Copy reads each file from its own position
   (SnapshotHoldsApplied). By hand, `MCFsmSnapshotRestore.cfg`: a snapshot that
   has records cannot be restored, since Reset deletes the directory that it
   then reads (RestoreKeepsApplied). Neither depends on the other.

## 4. Proofs

All are checked by tlapm for all values of the constants that meet the
`ASSUME`s of the modules. Every safety property of a passing run is the
statement of a theorem.

**CommitLogProofs** proves TypeOK, SegmentsTile, ReadsOwnRecord,
EndsAreReadable, ActiveHasRoom, StreamIsLog, StreamHoldsLog, ReopenRestores
and the refinement of OffsetLog.
The properties are not inductive: that a read finds its record needs to know
that each index slot in use has its own offset and a position where a frame
starts, that frames do not overlap, that the files on disk are the segments'
and nothing else, and that a closed log is flushed and cut back. `IInv` is
TypeOK, SegmentsTile, FilesMatch and, while the files exist, SegmentsOK (the
relation of one store, one index and one range of offsets), ClosedFiles,
ActiveNotMaxed and RefusedAtEnd. `SegmentOK` is a predicate of a segment's
state alone, so append, flush, close and open are lemmas about it, and each
action's proof puts them together. A frame is `Indexed`, or it has the next
offset and the index is full; this holds for every index size, and
RefusedAtEnd adds that only the active segment has frames of the second kind.
From there StreamHoldsLog is a lemma about one frame (FramesAre), and with an
aligned index, which is never full in the active segment, all frames are
Indexed (StreamIsLog). The refinement theorem shows that `Init` implies
OffsetLog's and that each step is one of its steps or a stutter.
EndsAreReadable follows from SegmentsTile: the least base offset belongs to
the first segment, and the greatest is that of the active one.

Two theorems have the condition of an aligned index as a hypothesis:
AlignedNeverWedges (EOFMeansMaxed) and ReopenAlwaysPastRecords
(ReopenPastEveryRecord). They say where findings 1 and 2 end: with an index
size that is a multiple of 12 the log never wedges, and with an orderly Close
it never gives out an offset twice.

**FsmSnapshotProofs** proves NothingLost, RecordsStay, ImageAgrees and the
refinement of RecordLog, for every index size. NodeLogIsCommitLog says that
all a node does to its log keeps CommitLog's specification, so IInv holds of
it; `UInv` adds that the log's files exist and NothingLost. Each step is taken
from CommitLogProofs as a step of OffsetLog: an append adds the next offset,
and anything but Restore leaves what a reader sees (`Stay`). ImageAgrees is
not inductive either: a frame of the image could have been refused by the
index, and its offset be given to another record later. `PInv` says that each
frame of the image reads as the log does, or has the next offset while the
index of the active segment is full, in which case nothing is appended any
more, before or after a restart; that the segments Persist has still to copy
are those of an open log; and that a log that Restore deleted stays empty,
because it is not restored and Restore would delete it again (`Emptied`).

**RaftLogStoreProofs** proves StoredIsFound and EndsAgree as long as no
entries conflict. ConflictFreeIsLog says that Raft's use of the commit log is
one of CommitLog's behaviours, so IInv holds of it; `QInv` adds that each
entry Raft counts, and each of the batch in hand, reads back under its index,
and `LogGoesOn` that the log's next offset follows Raft's last entry, unless
the active index is full, and then for good. StoredIsFound needs no
condition on sizes. EndsAgree assumes that no batch can break off half-way
(`NoPartialBatch`): the index is aligned or entries come one by one. All
three theorems have the initial offset 1 that setupRaft sets
(`logConfig.Segment.InitialOffset = 1`) as a hypothesis.

**SharedLogProofs** proves RealTimeOrder of the abstract SharedLog: a call
that is answered is in the log when a later one is made, and the log grows at
its end. ReplicationProofs and AgentProofs cite this theorem through their
INSTANCEs of that module, and get it for the real cluster and for the streams
of a node by the refinements they have proved.

**ReplicationProofs** proves TypeOK, ReplicasAgree, AnswersHold, AtMostOnce
and RealTimeOrder, and that Replication implements SharedLog. The invariant
relates every log to the one committed sequence (`Prefixes`), says that no
call is in it twice or again pending (`Fresh`) or there without Raft having
taken it (`Untaken`), and that an answer names its place in it (`Answers`).
The refinement has one lemma per action: elections and partitions stutter,
`Commit` is `Enter`, `Apply` is `See`.

**MembershipProofs** proves TypeOK, LeaderIsServer and ServersStay, for any
number of nodes and addresses. The added conjunct `Handlers` says that a node
never lists itself, that only a node on its way out has its own departure in
hand, and that the departure a handler works on is that of a node it no longer
lists. All actions of Serf reduce to one lemma, all configuration changes to
another; `StepKeepsServers` has one case for each of the three actions
that change the configuration.

**AgentProofs** proves AgentTypeOK, StreamsInOrder, ProduceInOrder,
HandlersHaveLog, NilMeansDown and ShutdownCutsNoCall, and that the agent with
its streams uses the log only as SharedLog allows. `SInv` is about streams:
each node's part is a prefix of the log (`Views`), a call that waits belongs
to the open stream that comes to it next (`Requests`), only calls that were
taken are in the log (`InLog`), and in the order of their streams
(`LogInOrder`), which is what makes a late record of a failed call harmless:
its stream has ended. `AInv` adds `Life`, what is still running at each step
of set-up and teardown, and `Locks`, that nobody has returned while one
caller is inside. That log.Close fails no call is then a step of three facts:
no handler is left, a waiting call has an open handler, so none waits.

**LoadBalanceProofs** proves TypeOK, RolesKept for any number of client
connections on the shared Picker, CallsFindReady and TurnsEven. The invariant
says that what the Picker has of SubConns that exist has kept its role
(`Roles`) and that, while any SubConn of the only client connection is ready,
the Picker has what the last Build found (`InStep`). Build and the shutting
down of SubConns without a Build are one lemma each, over any change of
SubConns that keeps the flag of those it does not shut down. TurnsEven is
arithmetic with a remainder by a variable: `TakeTurns` says that since the
last Build there were some whole rounds of turns, and one more turn for the
followers that the counter passed last, wherever it stood when Build replaced
them.

Assumptions: the limits of a segment are positive and the index holds an
entry; offsets are natural numbers that do not overflow 64 bits; Raft, Serf
and gRPC behave as the external actions say.

Only model-checked: all liveness (CallsEnd, AnswersReachAll,
LeaderAddsNewcomers, LeaderRemovesLeavers, AnswersAreStreamed,
OnlyStreamsHoldShutdown, ToldLeaderIsPicked), since fairness and ENABLED are
outside the prover; and the six violations.

## 5. Not modelled, and why

- TLS set-up, authentication and the Authorizer: they read files and call
  libraries. A refusal is an outcome of a request in `Streams`.
- The stream layer: network I/O.
- Generated protocol buffers, the example client, the flags of the main
  functions, the Helm chart: no logic of their own.
- The HTTP log (`internal/server/log.go`, `http.go`): two short critical
  sections on a slice.
- Errors of the operating system in the log's files, so also a newSegment
  that fails at a roll, whose error Log.Append drops (it ends `return off,
  nil`, log.go:66); a crash inside Truncate, between the deletion of
  an index and of its store.
- A bufio buffer that is full and writes part of a frame by itself: a frame
  is in the file as a whole or not at all. Persist can copy such a part.
- In Replication: nodes that come back, catching up from another node's
  snapshot, and an append of the log that fails on one node alone. The entries
  Raft replays at a restart would be stored a second time in a user log that
  still has them; but as the `crash` run shows, Raft's own log is not in order
  after a restart, and what Raft then replays is not determined by this code.
  A node that catches up by InstallSnapshot loses its log (finding 6), so
  AnswersReachAll is about nodes that are sent the entries.
- Two client connections in one process are in LoadBalance and in its
  theorems, and in a configuration to be run by hand, but not in a listed run.
