# Verification of the Galera replication library

The repository collects the packages of an application stack. The part with a
concurrent, distributed core of its own is the synchronous replication library
for MySQL in `src/mysql/galera/mysql-cluster-galera` (all paths below are
relative to it): several database servers apply the same totally ordered stream
of write sets. This project models that core in TLA+, checks it with TLC on
small instances and proves, with TLAPS, what its monitors, the connections,
certification, the members' states in GCS and the replicator's aborts, order of
writes and locks promise.

## 1. The system

A server calls the *provider* (`galera/src`): `replicate()` sends the write set
of a local transaction to the group, the group returns it to every server with
a global seqno, and each server certifies it and applies or commits it in
order. Below it, *GCS* (`gcs/src`) numbers actions, agrees on who is a member
and who has the current state, and throttles senders. Below that, *gcomm*
(`gcomm/src`) is the group communication backend: it delivers messages in total
order and views of the membership. *gcache* keeps write sets for later transfer.

| component | state | operations | meets |
|---|---|---|---|
| `galera::Monitor` (`monitor.hpp`) | ring of slots, `last_entered_`, `last_left_`, `drain_seqno_`, `locked_`, condition variables | enter, leave, self_cancel, interrupt, drain, lock, unlock, wait, set_initial_position | called by appliers, replicating threads, BF aborts, pause, state transfer and causal reads at once; three instances: local, apply, commit order |
| GCS send monitor (`gcs_sm.h`, `gcs_sm.c`) | circular queue of waiters, `users`, `entered`, `pause`, `ret` | schedule, enter, leave, pause, continue, interrupt, close, open | replicating threads, flow control (receiving thread), BF aborts, `gcs_close()` |
| GCS quorum (`gcs_state_msg.c`, `gcs_node.c`) | none: functions of the state messages | inherit, re-merge, bootstrap; the status of a member | called once per exchange on every member |
| GCS group (`gcs_group.c`, `gcs_defrag.c`, `gcs_node.c`) | members and their status, `act_id`, `conf_id`, history UUID, commit cut, fragments | handlers of component, UUID, state, action, LAST, JOIN, SYNC messages, state requests | fed by the core, one copy per process that must stay identical |
| GCS core (`gcs_core.c`, `gcs_fifo_lite.h`) | `core->state`, FIFO of own actions, `send_act_no` | send in fragments, receive, service messages | sending threads and one receiving thread under `send_lock`; queue filled by the gcomm thread |
| GCS connection (`gcs.c`) | connection state, `stop_sent`, `stop_count`, `conf_id`, receive queue | open, close, repl, recv, flow control, become_*, join, state requests | owns the send monitor and the core; one receiving thread against several application threads, under the queue's lock and `fc_lock` |
| Replicator (`replicator_smm.cpp`, `trx_handle.cpp`) | transaction FSM, replicator FSM, three monitors | replicate, pre_commit, apply, replay, abort, to_isolation, pause, views | client threads, appliers that abort them, GCS |
| Certification (`certification.cpp`) | certification index, `trx_map_`, `deps_set_`, `position_`, `safe_to_discard_seqno_` | append, test, purge, trim, reset | under its mutex, in local order; commits come back out of order |
| State transfer, IST (`replicator_str.cpp`, `ist.cpp`) | `sst_state_`, IST sender and receiver | request, donate, receive | GCS requests, gcache, monitors |
| Saved state (`saved_state.cpp`) | position on disk, `unsafe_` counter | set, mark_safe, mark_unsafe | crash recovery |
| gcache (`gcache/src`) | ring buffer, seqno map | malloc, free, seqno_assign, seqno_release | IST reads while writers discard |
| gcomm PC, EVS, gmcast (`gcomm/src`) | views, input map, timers, peers | message handlers, timers | network |
| wsdb, service thread, garbd, provider API, galerautils | maps, one pending value, – | – | – |

Hard behaviours: threads that are signalled and run much later; interrupts of
what has not started, waits, or is over; windows, queues and FIFOs at their
limit; positions set again after a state transfer; components that follow each
other faster than their state exchanges end; fragments, requests and flow
control messages cut by a component change; donors and joiners that disappear;
partitions, re-merges and bootstraps after which nobody or an outdated member is
left; transactions aborted between two monitors and replayed while others take
their locks; an index purged while write sets that refer to it are under way.
`PROJECT.json`
lists each of them at its line under "hazards", with the property that covers
it or the reason why none does.

What makes each component correct:

* Monitor: nobody inside before its order class allows it; `last_left_` passes
  only what is done; drain, lock and wait mean what they say; nobody sleeps for
  ever.
* Send monitor: one sender at a time, first come first served, no lost
  wake-up, a pause holds, an interrupt hits its transaction, close returns.
* GCS: members that have received the same messages agree; a seqno names one
  action; a member with status DONOR or better holds the whole history; nobody
  is thrown back; the commit cut is safe; exchanges end.
* Connection: STOPs and CONTs balance across threads and configurations; the
  group never stays stopped; the connection's state follows the group's.
* Certification: the verdict and the dependencies are those of the whole
  history; the index refers to nothing that is gone; nothing is purged early.
* Replicator: all nodes come to the same end for a write set; conflicting writes
  are made in order; the first committer wins; a brute force abort meets no
  state it has no answer to; every COMMIT returns.
* State transfer, saved state, gcache (not modelled yet): a node never resumes
  from a position its data does not have; a write set is kept while it is needed.

## 2. Modules

| module | models | composition |
|---|---|---|
| `Monitor` | `monitor.hpp`, the `condition()`s of `replicator_smm.hpp`, `abort_trx()` | |
| `OrderedEntry` | abstract: seqnos go in after what they follow is done | implemented by `Monitor` |
| `MonitorProperties`, `MCMonitor` | properties, instances | extend `Monitor` |
| `MonitorProofs`, `MonitorServiceProofs` | proofs: the ring and the refinement; drain, lock and wait | extend `MonitorProperties`, one another |
| `SendMonitor` | `gcs_sm.h`, `gcs_sm.c` and their callers in `gcs.c` | |
| `FifoEntry` | abstract: a line and at most one inside | implemented by `SendMonitor` |
| `SendMonitorProperties`, `MCSendMonitor`, `SendMonitorProofs` | properties, instances, proofs | extend `SendMonitor` |
| `GcsQuorum` | `gcs_state_msg.c`, `gcs_node_update_status()` | pure operators |
| `GcsGroup` | `gcs_group.c`, `gcs_node.c`, `gcs_defrag.c` | operators from context and message to context; extends `GcsQuorum` |
| `GcsCore` | `gcs_core.c`, `gcs_fifo_lite.h`, the queue of `gcs_gcomm.cpp`; the backend as its environment | processes, each with a `GcsGroup` context, over one backend |
| `GcsCoreProperties`, `MCGcsCore`, `GcsCoreProofs` | properties, instances, proofs | extend `GcsCore` |
| `GcsConn` | `gcs.c` and what it uses of `gu_fifo`; the core below as one total order | connections of a group |
| `GcsConnProperties`, `MCGcsConn`, `GcsConnProofs` | properties, instances, proofs | extend `GcsConn` |
| `Certification` | `certification.cpp`, `key_entry.cpp` | operators from the object and a write set to the object |
| `CertificationLemmas` | lemmas on keys, the index and the test, for any caller | extends `Certification`; used by both proofs below |
| `CertificationStream`, `MCCertification`, `CertificationProofs` | one `Certification` object under every stream of write sets, commits, cuts and configuration changes; its properties, instances and proofs | extends `Certification` |
| `Replicator` | `replicator_smm.cpp`, `trx_handle.cpp`, `galera_service_thd.cpp`, the wsrep part of the server | nodes, each with a `Certification` object and three monitors |
| `ReplicatorProperties`, `MCReplicator`, `ReplicatorProofs` | properties, instances, proofs | extend `Replicator` |

Operators named "mutant of X" stand before the definition X they vary. Nothing
uses them; they show that a property notices the fault they describe.

### Monitor

One mutex protects the object, so each critical section of the code is one
action, from its start or its last wake-up to its end or its next wait.
`cond_` and `slot_cond_` hold the threads that sleep on the monitor-wide and on
a slot's condition variable; a signalled thread leaves the set and goes on in a
later action (`EnterRetry`, `EnterWoken`, `SelfCancelRetry`, `InterruptRetry`,
`DrainRetry`, `LockRetry`). `pc[s]` is where the thread of seqno s is, `intr[s]`
where the thread that BF-aborts it is, `adm` the threads in `drain()` and
`lock()`, `wpc` those in `wait()`. The loops of `update_last_left()` and
`wake_up_next()` are given by where they stop (`CollectsUpTo`) and what they
touch (`WokenSlots`). An object's seqno stands for the object.

Guards marked "Usage" are how the replicator uses the class, not tests of the
class itself:

* `CertifiedBeforeDrain`, and the condition on `upto` in `Drain`: a transaction
  reaches the apply and commit monitors after it was certified in local order,
  and whoever drains them holds the local order up to `upto`;
* `Positioned`, `Quiescent`: `set_initial_position()` is called in local order on
  a drained monitor, and the appliers start after it. When the monitor has a
  position, the only one given again is the one it has, so that the
  `drain_common()` in that branch does not wait;
* `Timely`: an interrupt is not delayed by a whole turn of the 65536 slots;
* `MaxBacklog` < `Size` for `wait()`: see Observations.

Spurious wake-ups of condition variables are not modelled: every wait in
`monitor.hpp` but the one in `wait()` is in a loop. (For the send monitor, whose wait
is in none, see below.)

### SendMonitor

`sm->lock` makes a critical section one action; `gcs_sm_schedule()` returns with
the lock held, so it and the `gcs_sm_enter()` that follows are one action
(`Send`). Senders go out, waiting, inside, sent (`gcs_repl()` waits for
delivery) and out again; a closer goes through "full" (the `usleep` loop) and
"closing" (queued). `Prompt` says that no signalled thread, and no handle,
sleeps through a whole turn of the queue (65536 places). `Open` does not run
during a close. A sleeping thread goes on only after a signal: the wait at
`gcs_sm.h:160` is not in a loop, and what a spurious wake-up would do is under
Observations.

### GcsQuorum, GcsGroup, GcsCore

The handlers of the group are operators from the context and a message to the
new context; the actions of `GcsCore` apply them. `inbox[p]` is the receive
queue the gcomm thread fills, so the backend may be several views ahead of the
receiving thread of p; `bview[p]` is the view of the backend, `seen[p]` what the
receiving thread has reached. `core->state` is a function of `group->state`
(`CoreState`). A handler is one action: the senders it races with see only
`core->state`, which is read and set under `send_lock`. Handling a UUID message
includes sending the state message, for which the thread waits as long as the
backend makes it wait.

The backend is external to GCS and modelled by what GCS relies on: a message is
delivered to all members of the view in one order; a primary view goes on with
the part that outnumbers those it has lost (members that left in order do not
count), after all messages of the old view; a part without quorum gets a
non-primary view, cut at a point common to its members, with the tail of its own
members' messages behind it; a primary view comes back when all members of the
last one are together, or when an operator bootstraps. A message is taken only
in a primary view that nobody has left yet.

UUIDs are view numbers (100 is the history that processes start with).
Processes are numbered in the order of their UUIDs, which is the order of
`nodes[]`. An action has up to `MaxFrag` fragments, a state request one.
`Transfer` is the snapshot itself, done by scripts outside the library;
`gcs_join()` tells how it ended. A process applies what it receives at once, so
its last-applied position is the end of the history it holds. `data`,
`ordered`, `cut`, `fatal` and the field `act` of a fragment are not in the code:
they record what a process holds, which action got which seqno, the last commit
cut and failed assertions, for the properties.

`SendFirst` asks for a status of DONOR or better, which is the replicator's condition to
replicate and not one of `gcs_core_send()`.

Left out: protocol versions before the current ones, names and addresses, node
weights and arbitrators, merges of two non-primary components that stay
non-primary, the self-leave component, FLOW (in `GcsConn`) and CAUSAL messages.

### GcsConn

Each process has the receiving thread, application threads in `gcs_recv()`,
replicating threads and one that runs state transfers. `fc_lock` is held from
the decision to send a STOP or CONT until it is sent; the lock of `recv_q` is
held while a thread that found one due waits for `fc_lock`. The steps of a thread
between two such points are one action, so that the STOP of the receiving
thread, the CONT of an application thread and a new configuration interleave as
in the code. A new configuration takes both locks in one step (`ConfReset`); the code
takes that of `recv_q` first and waits for `fc_lock` with it, as nobody does in the
other order. The core below appears as a connection sees it: one total order, a
component message (COMP) that stops senders and swallows messages until the
exchange has ended (CONF), and a status per member. `status` and `stopped` are
what the group has recorded of each member; `GcsCore` shows that the members
agree on it.

A JOIN with an error code comes only from a donor; the joiner then aborts
(`NeverReceives` in `GcsGroup`), and to the donor's connection there is no
difference. `gcs_open()`, `gcs_close()` (in `SendMonitor`), packet sizes and limits
changed at run time are left out, and so is the arithmetic of `gcs_fc`: `Growth`
pauses a joiner's replication at any point between the soft and the hard limit.

### Certification, CertificationStream

The object is a record and its methods are operators, so that both
`CertificationStream` (one object, every stream) and `Replicator` (one object per
node, the streams that a cluster produces) use the same definitions. A key is a
sequence of parts, an index entry has the four references of `KeyEntry`.
`CertificationStream` takes two things for granted of the write sets it is fed:
`OwnOrder` (a node replicates a transaction after what it has ordered before,
and conflicts with it, is committed) and `CutKnown` (a write set has seen what the commit
cut ordered before it covers). `Replicator` shows the first (`OwnOrderKept`); the
second holds unless a cut overtakes a write set between the assignment of
`last_seen_seqno` and its place in the order, which is the subject of
certification_cut. `append_trx()` is one step: of what it uses, only `deps_set_`, which
the test does not read, may change while it has released the mutex. All write sets have the version of the
certification object.

### Replicator

`pc[n][x]` is where the thread of transaction x on node n is: on its source the
client's thread from execution through `replicate()`, `pre_commit()`,
the engine's commit and `post_commit()`, or through abort and replay; elsewhere an applier.
A BF abort is one action: the applier that needs a lock calls
`wsrep_innobase_kill_one_trx()`, which looks at the server's conflict state and
calls `abort_trx()`, which looks at the transaction's state and interrupts the
monitor it waits in. Monitors appear as `OrderedEntry` shows them: who has left,
who may enter, and that a waiting thread may be interrupted. Leaving the commit
and the apply monitor, `set_trx_committed()` and the report are one step; a
report may be sent at every call of `report_last_committed()`, where the code
waits for more than 1024 keys (`index_purge_required()`); a client takes all its
locks at once, before COMMIT; `wsrep_replaying++` and the release of the locks are one
step.

BF threads do not meet each other's locks in the model (`LocksFree`, `Kill`). For rows
this is what the apply monitor ensures: in no state of the run replicator does a BF
thread that needs its locks have a row in common with a later applier that is
applying or applied and not committed. Gap locks belong to no key, and there it is a
simplification: a replay may meet the gap lock of the later applier that
aborted it. `wsrep_kill_victim()` (`lock0lock.c:1527`) then lets the earlier thread kill
the later one, and `wsrep_innobase_kill_one_trx()` ends the server by
`wsrep_abort_slave_trx()` when the victim is an applier (`ha_innodb.cc:13757`, `13816`),
as a node that may have become inconsistent. What happens on such a node is not in
`SameOutcome` and `EveryTrxEnds`.

Views, state transfer, `pause()`, `desync()` and `causal_read()` are left out (the
wait of the last is in `Monitor`). With state transfer goes the branch of `cert()` for a
write set that the received snapshot already contains (`replicator_smm.cpp:1498`).

## 3. Runs

| run | instance | shows |
|---|---|---|
| apply_monitor | 4 slots, 5 seqnos, dependency order, seqno 1 local, two drains | type, order, the code's assertions, drains; the inductive invariant; `Monitor` implements `OrderedEntry` |
| total_order_monitor | 3 slots, 4 seqnos, total order, a re-positioning at 3, seqnos 2 and 4 local, one thread each for lock, drain, wait | a locked monitor is empty, nothing finished is left uncollected, causal reads see what they wait for; every seqno is done, every drain, lock and interrupt returns |
| send_monitor | queue of 2, three senders, a closer | exclusion, the code's assertions, FIFO (implements `FifoEntry`), every waiter and close return, with a full queue |
| gcs_fragments | 2 processes, 5 views, 2 actions of up to 2 fragments, a crash, any lag | agreement, unique seqnos, no broken fragments, exchanges end |
| gcs_partitions | 3 processes, 7 views, partitions, re-merges and bootstrap, 1 writer | statuses justified by history, nobody thrown back |
| gcs_lagging_members | 2 processes, a new group, a joiner, desync, LAST, SYNC, an action, 3 views, lag 1 | statuses justified by history through state transfers that fail or are abandoned, and a safe commit cut |
| conn_flow_control | 2 processes, limits 1 and 0, an action, a second configuration, a desync, a crash | pauses and counters balance, the state follows the group's, senders resume, members become SYNCED |
| conn_state_transfer | process 2 joins: soft limit 0, hard limit 2, actions of size 1 and 2, replication may be stopped, `sync_donor` changed on the donor | `stop_sent` counts what was sent, senders resume after a transfer |
| certification | 2 sources, 4 seqnos: rows, parents with shared keys, a table, DDL in isolation, a PA-unsafe one; purges, a trim at length 2, a configuration change | verdict and dependencies against the whole history, no dangling reference, no early purge; also the test vectors of `galera/tests/write_set_check.cpp` (as assumptions) |
| replicator | 2 nodes; a and c write one row on n1, b on n2 writes another row of c and meets a gap lock of a; or a statement in total order isolation with a or b; 2 appliers, cuts up to 2 | own order, same outcome, ordered writes, first committer wins, no fatal abort, every transaction ends |
| gcs_fragment_lost | 2 processes, 3 views, an action of 2 fragments | violated: see Findings |
| certification_cut | 2 nodes, five transactions, a cut that overtakes one of them | violated: see Findings |

*Bounds.* The monitor's interesting cases need a window that is full and a seqno
a whole turn ahead: 5 seqnos over 4 slots or 4 over 3 have both, with every
order of leaving. Two drains, or a drain and a lock, suffice to wait for each
other. The send monitor's cases need a head, a waiter that is interrupted and
one behind it: three senders; a queue of 2 makes it fill up. Two processes
suffice for a sender and a receiver that may disagree; quorum and members left
behind need three. Five to seven views hold a partition, a second one during the
exchange, and two re-merges. `MaxLag` bounds how many messages a receiving thread
is behind when a view is formed; 0 in the run with three processes, unbounded
(9) in gcs_fragments. `Calm` in gcs_fragments excludes a first fragment sent
between the backend's new view and its processing, the subject of
gcs_fragment_lost; members stop by crashing, see Observations for those that
leave in order. With limits 1 and 0 the first action is already a reason for a STOP
and the next thing done with it one for the CONT, so one action, one
configuration change and one crash are enough for every crossing of the two. A
reference in the index is replaced, purged and missed with four write sets; a
trim at length 2 happens with every third. In replicator three transactions
have every pair of relations: the same row on one node, the same row on two,
and locks that conflict where keys do not. `CutOvertakes` in certification_cut only
leaves out behaviours the run is not about. Deadlock is checked in apply_monitor
and send_monitor; elsewhere the bounds let the system stop.

*Fairness.* Monitor: every ordered action is handed to a thread that processes
it (the appliers never skip one), a thread that is not asleep is scheduled, what
is inside leaves, a paused provider is resumed, and a monitor without a position
is given one. A waiter asleep on a condition variable gets no fairness: only a
signal moves it, so lost wake-ups are found. Send monitor: signalled threads run,
a send ends, and flow control continues, but only while the connection is open,
since a closed one hears of no peer. GCS: the receiving threads run; nothing is
assumed of senders, members or the backend, and `ExchangeEnds` speaks of views
that stay as they are. Connections: the receiving and the application threads
run, a state transfer ends, a state exchange ends (what `ExchangeEnds` shows),
and a crashed member is dropped from the component; no new action, desync or
configuration is assumed. Replicator: `Progress` is any step of a transaction's
thread or of the group; every such step moves a thread or the order forward,
so weak fairness of their disjunction is no more than that somebody who can
run does. Clients that start and the service thread's reports get none.

## 4. Proofs

What TLC shows on small instances is proved here for every value of the
constants. Each proof has one lemma per action (or group of alike actions),
lemmas on the operators it needs, and a last step that combines them. The
inductive invariants were checked by TLC before they were proved.

| module | theorem | states |
|---|---|---|
| `MonitorProofs` | `InvariantHolds`, `TypeCorrect`, `OrderHolds`, `LeftIsDone`, `AssertionsHold`, `MonitorImplementsOrderedEntry` | `IInv`, `TypeOK`, `OrderRespected`, `LeftMeansDone`, `AssertsHold`, `Spec => ImplementsOrderedEntry` |
| `MonitorServiceProofs` | `ServiceInvariantHolds`, `LockHolds`, `DrainHolds`, `CollectionHolds`, `WaitHolds` | the invariant of drains and waits; `LockedIsEmpty`, `DrainedMeansDone`, `NothingUncollected`, `WaitSeesWrites` |
| `SendMonitorProofs` | `QueueInvariantHolds`, `ExclusiveSendHolds`, `SendMonitorAssertsHold` | `SMInv`, `ExclusiveSend`, `AssertsHold` |
| `CertificationProofs` | `CertificationInvariantHolds`, `RefsAliveHolds`, `PurgedHolds`, `VerdictByHistoryHolds`, `DependsCoverHolds` | `CertInv`, `RefsAlive`, `PurgedWhenCommitted`, `VerdictByHistory`, `DependsCover` |
| `GcsConnProofs` | `FlowInvariantHolds`, `StopSentCountsHolds`, `StateInvariantHolds`, `StateAgreesHolds`, `CountInvariantHolds`, `StopCountAgreesHolds` | `FlowInv` and `HeldInv`, `StopSentCounts`, `StateInv`, `StateAgrees`, `CountInv`, `StopCountAgrees` |
| `GcsCoreProofs` | `InvariantHolds`, `FollowsGroupHolds`, `JoinedHasStateHolds` | `Inv`, `FollowsGroup`, `JoinedHasState` |
| `ReplicatorProofs` | `ThreadInvariantHolds`, `AbortsValidHolds`, `OrderInvariantHolds`, `WritesInOrderHolds`, `LockInvariantHolds`, `OwnOrderKeptHolds`, `VerdictInvariantHolds`, `SameOutcomeHolds`, `OwnOrderKeptUnlessOvertaken`, `SeenInvariantHolds`, `SeesConflictingHolds` | `ThreadInv`, `AbortsValid`, `OrderInv`, `WritesInOrder`, `LockInv`, `SameOutcome => OwnOrderKept`, `VerdictInv`, `NotOvertaken => SameOutcome`, `NotOvertaken => OwnOrderKept`, `SeenInv`, `NotOvertaken => SeesConflicting` |

**Monitor.** For every `Size` of at least 2, any number of seqnos and threads,
every order class and every set of positions; the assumptions are those named in
`Monitor` (sizes and sets of the right types, and that no thread is both in
`lock()` and in `drain()`). `OrderRespected` and the assertions are not
inductive: a leave moves `last_left_` over every FINISHED slot it finds and wakes
the owners of WAITING slots, so one has to know whose slot it is. `IInv` says it:
the window is shorter than the ring (`Windowed`), a slot that is not idle belongs
to one seqno of the current window, which is where the slot says (`SlotsOwned`), a
seqno that waits, is inside or is done above `last_left_` has its slot
(`SeqnosInSlots`), what is at or below `last_left_` is done (`LeftMeansDone`), and
between the two calls that re-position it the monitor is empty
(`UnpositionedEmpty`). Lemmas on the arithmetic of slots: two seqnos less than a
ring apart have different slots. TLC checks `IInv` itself in apply_monitor;
monitors that start without a position are covered by the proofs.

What a caller of `drain()`, `lock()` or `wait()` is promised needs to know who
has `drain_seqno_`: one thread at a time, a drain for its argument and a lock for
all that had entered, and a lock that was granted is drained (`DrainOwned`).
`WaitInWindow` says that the seqno a thread in `wait()` sleeps for is less than a
turn of the slots away, after a re-positioning too, which is
where `MaxBacklog < Size` comes in: `WaitHolds` has it as a hypothesis, and
without it the property is false (Observations). The refinement needs
`DependsEarlier` (what a seqno follows is before it) and `OrderRespected`: an
enter or a wake-up that lets a seqno in maps to `Enter` of `OrderedEntry`, a
leave or a self-cancel to the step that makes it done, everything else to a
stutter.

**Send monitor.** For every queue length and set of threads, under `Prompt`, without
which both properties are false (Observations). `ExclusiveSend` rests on the
shape of the queue: in `SMInv`, `QueueOK` says that a place in use lies between
head and tail and belongs to the one thread that waits in it, and that a thread
that was signalled and not interrupted is at the head; `InsideOK` that the
thread inside has emptied that place and that `entered` counts it. So the thread
that the head's signal reaches is the only one that can go in.

**Certification.** For every stream over any key parts, any length limit and check
interval. `CertInv` says what the object remembers: `deps_set_` is the bag of
`last_seen_seqno` of the write sets that are not committed (`DepsOK`); `trx_map_`
misses a write set that passed only if it is older than all it holds, and before
the cut or out of reach of any later write set (`TrxMapOK`); nothing that passed
with F_PA_UNSAFE is later than `last_pa_unsafe_` (`UnsafeOK`); and each of the four
references of an entry is to the last write set of `trx_map_` that passed and
holds the key that way (`IndexOK`). `RefsAlive` is a part of it; nothing is purged
early because the least element of `deps_set_` is below every seqno that is not
committed. The verdict: a reference found is to a write set that passed and
overlaps (`TestSound`); a conflicting write set still in `trx_map_` is found or
hidden by a later reference, which is foreign and conflicts as well, or own and
then `OwnOrder` says it is known, and so the older one is (`TestComplete`); one
that is no longer in `trx_map_` is out of reach or `CutKnown` applies.
`depends_seqno` covers what is in `trx_map_` through the references and the rest
through the least seqno of `trx_map_` (`TestCovers`). The two theorems on the
history have the hypothesis `ShortKeysFirst`: in the keys of a write set no key
follows a longer one that it is a prefix of. It is needed: the list of a write set
keeps the first of equal paths, so a full key after a longer one is stored as
partial (`certification.cpp:171`), and TLC finds `DependsCover` violated for a write
set with the keys `<<t, a>>`, `<<t>>`. The server appends keys of one length.

**Connections.** For every finite set of processes with any threads, all limits, and
any number of actions, configurations and desyncs; `ConnAssumption` asks only for
types, ordered limits, threads that belong to one process, and names of threads that
are not the ones of the receiving thread or of nobody. The three properties speak of
moments when nothing is under way, so none is inductive. `FlowInv` and `HeldInv` say
what is under way: who holds `fc_lock` and the lock of `recv_q` (`LockOK`, `HeldOK`), that
a member which does not know the configuration yet has its CONF in hand or at the
head of its inbox and cannot send (`PhaseOK`, with `IdsOK`: no configuration is known
before it exists), and that `stop_sent` is one ahead of the messages between
`gcs_fc_stop_begin()` and its end, one behind between `gcs_fc_cont_begin()` and its
end, and equal otherwise (`BalanceOK`). `StateInv`: the messages in the inbox of a
member form a chain of transitions from the state its receiving thread is about to
reach (`Start`) to the status the group has recorded. `CountInv`: what a member has
counted, plus the STOPs and minus the CONTs in its inbox that name the configuration,
is the sum of `stopped` over the view. Every step is ordinary (it appends at most
one message to an inbox and leaves the other processes alone), a receipt, the reset
in `gcs_handle_act_conf()`, a new component, the end of an exchange or a crash
(`StepKinds`), and the three invariants are shown for these six kinds. The sum is
the community module's fold, a recursive function on finite sets: that the recursion
has a solution, and that one changed term changes the sum by as much, is shown with
a smallest counterexample (`Least`, `SumsExist`, `SumStep`), which needs no
induction theorem.

**GCS core.** For every finite set of processes with any histories, any number of
views, partitions, bootstraps, lag, transfers and stops (`GcsAssumption`: a process has
a history just when its seqno is not negative, which is what
`gcs_group_init_history()` accepts). `JoinedHasState` speaks of a process in a primary
component, and what it holds there was decided by the state messages of an
exchange, sent while its status was still the one from an earlier component. `Inv` follows
each process on its own: it has not received a component yet and is as
`gcs_group_init()` left it (`New`), or its context fits what it holds
(`Own`): in a primary component its status says whether it has the state and the position,
outside of one the status of the last component does (`Carries`); the state
message it has sent in the exchange that is going on is still true of it
(`Exchanging`), so that nothing moves between the message and the decision. `Box` says
of the messages in its queue that a state message of its own fits the context it will
meet there, and that a JOIN of a transfer finds a joiner that has
received the snapshot. The quorum's choices are lemmas on `GcsQuorum`: whatever
representative is chosen, a member is left at or above DONOR only if its own
message is of the chosen history and position. `FollowsGroupHolds` has no further
hypothesis; that a process with such a status has a history at all
(`JoinedHasState`) needs `KnownHistories`: if operators bootstrap, the processes have a
history. Without it the property is false (Observations). `Rooted` carries it.

**Replicator.** For any number of nodes and transactions; `ReplicatorAssumption` has
only types. Whether `abort_trx()` knows
the state it meets depends on where the thread of the transaction is: `ThreadInv`
lists the states a TrxHandle can be in at each place of `wsrep_run_wsrep_commit()` and
`pre_commit()` (`StatesAt`), and says that one in MUST_ABORT that may still give up,
and one that is to be replayed, has `wsrep_conflict_state` MUST_ABORT, which is what
keeps a second applier from aborting it.

`WritesInOrder` compares what was written on a node with who has committed there,
and the two are connected by `depends_seqno` and three monitors. `OrderInv` has, for each
thread, how far it has come and what the monitors of its node say of it
(`Standing`: in front of the test it has left none; behind it, it has left the local
monitor after all before it; at the commit it has had its turn; an applier at work
has everything up to its `depends_seqno` behind it); for each node, that its index knows
every write set that passed the test there, or has purged it below a
seqno that every later `depends_seqno` reaches, and knows nothing of those that are
not in local order yet (`KnowsPassed`), which is where cert_for_aborted() and
the replay, which test out of turn, have to be looked at; and so that
`depends_seqno` covers every dependency (`Covers`), under `ShortKeysFirst` as above.

`OwnOrderKept` is about the locks of the server. `LocksOK`: of two local transactions
whose locks conflict at most one holds them, and while one is replayed without its locks
another that takes them does not come to its COMMIT. `SeesTurns`: when a
transaction goes to the group, one ordered before it that its locks keep apart
from it has had its turn in the commit monitor or was given up, so `last_seen_seqno`
reaches at least to the seqno before it. That a write set which was given up on its source
passed nowhere else is `SameOutcome`, and so the theorem is
`Spec => [](SameOutcome => OwnOrderKept)`: locks never
break the order, as long as the nodes agree.

They agree unless a commit cut overtakes a write set. `NotOvertaken` says of the order so far that
no cut was put between the assignment of a `last_seen_seqno` and its write set;
where one is, `SameOutcome` is false (Findings), so the theorem is
`Spec => [](NotOvertaken => SameOutcome)`. The nodes test with
indexes that differ: each is purged at its own time, a key refers to one write set
only, cert_for_aborted() tests out of turn, the replay tests later. `VerdictInv` holds a
verdict against what does not differ, the history of write sets that passed on the node.
Each reference of the index is to one of them (`RefersTo`). Who is
given up was refuted by one that it had missed (`Refuted`) or never had its seqno. Who
passed has missed none (`Justified`), except one below a cut that was ordered before it, or
one that a later write set of its own source has hidden in the index (`Hidden`); one that
is gone from `trx_map_` is gone because of a cut in the node's past or its distance
(`Purged`). Both exceptions fall: the cut by `NotOvertaken`, the other by `SeesTurns`, for a write set
that hides and was not seen is given up on its source. A dispute about a
write set is then always a dispute about an earlier one, and there is none with the
lowest seqno (`NoFirstDispute`, `NoDispute`). With it `OwnOrderKept`
holds under `NotOvertaken` alone (`OwnOrderKeptUnlessOvertaken`).

`SeesConflicting` compares the write sets before a transaction with what was committed on
its node when it was executed. `SeenInv` carries that from the execution to the end:
while a transaction holds its locks, whoever conflicts with them and is committed on its node was committed
before, because an applier writes only when the locks are free and nobody takes
them between its writing and its commit (`LocksKeepOut`); when `replicate()`
assigns `last_seen_seqno`, all below it have left the commit monitor, so they are committed
or given up, and those of its own node are kept apart by the locks; from then on its past
stays as it is (`PastSeen`), as a write set that is ordered later has a higher seqno than anybody
has seen (`SeenBounds`). A write set that the transaction has not
seen is thus one it has missed, and `Justified` applies.

Only model-checked, and why:

* liveness, under fairness and so beyond this prover;
* `ImplementsFifoEntry`: its mapping takes the line out of the ring with
  `SelectSeq`, and what that gives after each step is an induction over the
  sequence;
* the test vectors of certification: single computations;
* `UniqueSeqno` and `Agreement`, which hold within the bounds of their runs and not
  beyond (Findings, Observations): a first fragment lost, a history taken up again;
* `NoFatal`, `NeverThrownBack` and `CommitCutSafe` of `GcsCore`: they relate the
  contexts of several processes, and need that the members of a view have
  received the same messages, which `Inv`, made of one process at a time, does not have.

## 5. Findings

* **A lost first fragment** (gcs_fragment_lost, `gcs_group.h:155`).
  `frag_reset` keeps a local action that a component change has cut in two from
  being ordered on its sender alone, and is cleared by the first own fragment
  received after the change. A fragment sent between the backend's new view and
  its processing clears it during the exchange, where the others ignore it; the
  second fragment then completes the action on the sender only.
* **A cut that overtakes a write set** (certification_cut,
  `certification.cpp:576`). A write set whose `last_seen_seqno` is below the index
  is let through ("for now it is false positive"). A commit cut can be ordered
  between the assignment of `last_seen_seqno` and the write set, and each node
  purges up to the smaller of the cut and what it can discard itself. With a
  transaction executed after an applier's commit released its row locks and
  before that applier left the commit monitor, one node has purged the write set
  it conflicts with and lets it pass, the other fails it. In the code a node
  reports only after more than 1024 keys, so the window is narrow.

### Observations

Seen while modelling; most are reproduced by a change to one of the runs:

* A process without a history that is bootstrapped becomes the representative of
  a group whose history is nil (`gcs_state_msg.c:590`): with 2 processes, `MayBootstrap`,
  5 views and a lag of 2, `JoinedHasState` is violated by a process that
  never had a state and is JOINED at seqno -1. In gcs_partitions all processes start with a history.

* total_order_monitor with `Order = "LOCAL_OOOC"` violates `EverySeqnoDone`:
  `condition()` returns `is_local()` (`replicator_smm.hpp:286`), the comment says
  that remote transactions fall through to total order, but they never do.
* A history taken up again (`gcs_state_msg.c:508`): gcs_partitions with 5 views, no
  bootstrap, two writers, one process that starts without a history and one that
  leaves in order (`Stops = {"left"}`, `MaxDown = 1`) violates `UniqueSeqno`. When
  the only joined member of a primary component leaves in order while its joiner stays, and a member
  partitioned away before returns, that member is the only candidate and its
  lower seqno becomes the group's (`gcs.h:191` promises unique ids).
* send_monitor with `Closers = {c1, c2}` violates `CloseReturns`: two
  closers queue behind each other, and `gcs_sm_close()` wakes nobody when it
  takes itself off the head (`gcs_sm.c:88`).
* send_monitor with `Prompt = FALSE` violates `AssertsHold`: a signalled thread
  sleeps through a whole turn of the queue, or a handle kept that long names the
  place of another waiter (`gcs_sm.h:340`; it takes 65536 sends during one wait
  for delivery).
* send_monitor with an action that takes a thread out of `asleep` without a signal
  violates `AssertsHold` after three steps and `ExclusiveSend` after four: the
  `gu_cond_wait()` of `_gcs_sm_enqueue_common()` is not in a loop (`gcs_sm.h:160`) and
  a thread that wakes up finds `wait` still TRUE, which it takes for its turn. In a
  build with assertions the one on the next line stops it; without, two threads are
  inside the monitor. POSIX allows such wake-ups.
* replicator reaches states in which a replay meets the gap lock of the later
  applier that aborted it, for which the server aborts itself (`ha_innodb.cc:13757`, section 2).
* When `gcs_sm_close()` returns, nobody is queued or sending, but an interrupted
  sender may not have left `gcs_sm_enter()` yet (`gcs_sm.h:74` says "Blocks until
  everybody exits"), and `gcs_destroy()` frees the monitor (`gcs.c:1398`).
* total_order_monitor with `MaxBacklog = 4` violates `WaitSeesWrites`: a causal read
  more than a whole window ahead shares the condition variable of an earlier seqno and does
  not test `last_left_` again (`monitor.hpp:320`).
* In gcs_partitions `"remerge"` gets into `fatal`: the assertion of
  `gcs_state_msg.c:530` that members of one candidate know the same number of
  joined members fails for members that were left behind before the last
  primary component (without assertions it is a log line). `NoFatal` therefore does
  not include it.
* gcs_partitions also reaches a primary configuration with `prim_num = 0`,
  against the assertion of `gcs_group.c:332`: a component whose members were all
  waiting for a state transfer is bootstrapped.
* `gcs_fc_cont_begin()` tests `stop_sent` before it has `fc_lock` (`gcs.c:423`), and
  the donor's release at the end of a transfer asserts that it is 1 (`gcs.c:590`): with several
  receivers the two can both send a CONT for one STOP; `stop_sent` and then the
  group's `stop_count` become -1.
* `_release_sst_flow_control()` repeats a CONT as long as it gets EAGAIN
  (`gcs.c:686`); called by the receiving thread during a state exchange, it waits for
  what only this thread can end. A STOP, SYNC or JOIN sent by the
  receiving thread while the backend is non-primary waits the same way.
* `sync_donor` switched off while a DONOR holds a STOP leaves it to the next
  change of state to release it; `gcs_fc_cont_end()` asserts a state of at most
  DONOR. A SYNC may be sent twice, and a JOIN may arrive after the state has
  moved on; the group's handlers ignore both.
* Beyond `recv_q_hard_limit` the receiving thread ends with `-ENOMEM`, with its
  STOP outstanding; `scripts/packages/README` says that the server is aborted.
  `fc_factor` is 0.5 there and 1.0 in the code.
* `assign_initial_position()` does not clear `deps_set_`, so the assertion
  `deps_set_.size() <= trx_map_.size()` (`certification.cpp:615`) fails when a commit
  from before the configuration change is reported after it.
* An exclusive key after a shared reference of another node is a dependency,
  never a conflict; the skip of duplicate keys in a write set ignores whether a key
  is full or partial, so a key after a longer one it is a prefix of loses its
  dependencies (`certification.cpp:171`, see Proofs); the cleanup after a failed test asserts an order of
  keys that the hash decides.
* The "safety measure" on `depends_seqno` in `replay_trx()`
  (`replicator_smm.cpp:799`) has no effect for a local transaction.

## 6. Not modelled, and the plan

To prove next: for `GcsCore`, that the members of a view have received the same
prefix of one sequence of messages, and from it `Agreement` when first fragments are
not lost (`Calm`) and `CommitCutSafe`.

To model next:

1. `StateTransfer` with `SavedState`: request, SST, IST, crash and restart, and
   the replicator's views, on top of `Replicator`.
2. `GCache`: the ring buffer and the seqno map against IST readers.
3. `Pc`: the primary component protocol, in place of the backend of `GcsCore`.
   EVS is beyond what TLC explores together with the rest; `GcsCore` states its
   guarantees as assumptions.

Left out for good: gmcast and the transports (network I/O), galerautils,
the provider API and wsdb (no protocol of their own), garbd (a GCS client
without state), and the other packages of the repository (MySQL, Couchbase,
pcs, puppet and build definitions), which are third-party products or packaging.
These are almost all of the repository's lines; of the MySQL server only the
functions that call the provider are in `Replicator`.
