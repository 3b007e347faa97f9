# A TLA+ verification project for sheepdog

Sheepdog is a distributed object store for virtual block devices. Every node runs one daemon,
`sheep`; a client (QEMU, `dog`, `sbd`, `sheepfs`, the HTTP and NFS front ends) talks to any of them.
This directory holds TLA+ models of the daemon, the TLC configurations that check them on small
instances, and proofs that TLAPS checks for every instance. `PROJECT.json` relates each definition
to the lines of source it models.

## 1. The system and its parts

A virtual disk (VDI) is an inode object and data objects. Consistent hashing over the virtual nodes
of the members of an *epoch* gives the nodes that hold the copies (or erasure-code strips) of an
object. A *cluster driver* delivers join, leave, notification and block events to all sheep in one
total order; each membership change lifts the epoch, and each lift starts object *recovery*.

Inside a sheep there is one main thread, an epoll event loop that runs every handler and every
`done` callback to completion, and a set of work queues whose worker threads run `fn` callbacks.
So handlers are atomic with respect to each other, and the interesting interleavings are those of
handlers, worker bodies, messages and crashes.

| part | source | state | operations | what is hard |
|---|---|---|---|---|
| object recovery | `sheep/recovery.c` | `current_rinfo`, `next_rinfo`, done/next indices, suspended, throttling, direct works | start, prepare list, finish list, recover object (counted, direct), take over, suspend/resume, throttle timer, notify | works and callbacks of a recovery that was superseded; lost wakeups; use after free; a cut list used as a full one |
| request engine | `sheep/request.c` | wait queue, per-request status, client references, in-flight counts | queue (gateway, peer, local), sleep, three kinds of wakeup, requeue, done, receive, transmit, client teardown | a sleeper nobody wakes; a request or client freed twice or while used |
| membership and cluster operations | `sheep/group.c`, `sheep/ops.c` | cinfo (epoch, status, flags), vnode_info, pending block and notify lists, `cluster_op_running` | join, accept, leave, update node, block, notify, collect cinfo, queue and requeue cluster request | an operation run twice or never; one operation at a time; state gathered while events arrive |
| gateway | `sheep/gateway.c` | forward_info of a request, per-target sent flags | replicate, erasure code, forward, wait, retry, COW reference counts | one target of several failing; a timeout racing a late answer; epoch moving under a forward |
| plain and tree store | `sheep/store/{plain,tree}_store.c`, `common.c` | object files, `.tmp`, `.stale` by epoch, epoch logs | exist, read, write, create-and-write, link, update_epoch, purge, remove, cleanup | a crash between rename, fallocate and write; two creators of one object; an epoch change between check and use |
| multi-disk | `sheep/store/md.c` | disk set, vdisks, path cache | add, remove, EIO handling, migration between disks, plug, unplug | an object on the wrong disk; a second failure while the first is handled |
| journal | `sheep/journal.c` | two journal files, commit queue | write, switch, commit, recover, replay | a crash at any point must not lose an acknowledged write |
| VDI state | `sheep/vdi.c` | vdi states, lock owner, shared participants, operation log | create, snapshot, clone, delete, lock, unlock, coherence, log and replay | lock state that differs between nodes; two writers with a modified cache |
| generational reference counts | `sheep/gateway.c`, `sheep/ops.c`, `doc/object-reclaim.txt` | ledger objects | decref, create-on-write | an object reclaimed while a VDI refers to it; a retried decrement |
| object list cache | `sheep/object_list_cache.c` | tree, cached buffer, versions | insert, remove, get, delete by VDI | a cached list that is stale or the wrong length |
| work queues | `lib/work.c` | pending and finished lists, thread counts | queue, grow, shrink, run, finish | a work that no thread will run |
| socket cache | `lib/sockfd_cache.c` | entries, slots, in-use flags | get, put, delete, grow | an entry freed while a slot is used |
| local driver | `sheep/cluster/local.c` | shared event queue, block queue | join, leave, notify, block, unblock, process | two processes handling one queue; a process dying inside an event |
| corosync driver | `sheep/cluster/corosync.c` | event lists, membership, join state | deliver, confchg, dispatch, retry | events that overtake a join; partitions |
| zookeeper and shepherd drivers | `sheep/cluster/{zookeeper,shepherd}.c`, `shepherd/` | queue znodes, master election; daemon's event queue | as the others | sessions that expire; a daemon restart |
| epoch log and configuration | `sheep/store/common.c`, `sheep/config.c` | epoch files, config file | write, read, latest | a torn write at a crash |
| inode library | `lib/sd_inode.c` | B-tree of data object ids | get, set vid, split | data structure |
| migration of stores | `sheep/migrate.c` | on-disk versions | upgrade steps | a crash between steps |
| start-up and shutdown | `sheep/sheep.c` | daemon state | option parsing, initialisation, work queue set-up | order of initialisation |
| transports | `lib/net.c`, `lib/event.c`, `sheep/xio_*.c` | sockets, epoll set, timers | connect, send, receive, register | pure I/O |
| support library | `lib/{util,rbtree,strbuf,logger,sha1,fec,common,option}.c`, `lib/isa-l` | | | pure data structures, arithmetic coding |
| front ends | `sheep/http`, `sheep/nfs`, `sbd`, `sheepfs` | | | clients of the object store |
| tools | `dog`, `tools`, `tests`, `script` | | | command line programs |

## 2. Plan

| # | module | models | against | state |
|---|---|---|---|---|
| 1 | `Recovery` | `recovery.c`, wait queue of `request.c` | no lost wakeup, no stalled or superseded recovery; proofs | done |
| 2 | `LocalCluster` | `cluster/local.c`, cluster operations of `group.c` | one operation at a time, right answers, equal views, progress | done |
| 3 | `Membership` | epochs and gathering in `group.c`, epoch log | agreement on cinfo, one history of epochs | done |
| 4 | `VdiLock` | lock state in `vdi.c`, collection in `group.c` | exclusion, one owner, agreement of joiners | done |
| 5 | `Journal` | `journal.c` over a disk with a page cache | an acknowledged write survives a crash at every step | planned |
| 6 | `Store` | `plain_store.c`: temporary files, stale directories, epoch check | create-and-write is atomic (abstract store, refinement) | planned |
| 7 | `Gateway` | `gateway.c`: forward, wait, retry with node failures and epoch changes | an acknowledged write is on every target of its epoch | planned |
| 8 | `RecoverObject` | `recovery.c` 112-606: roll-back over epochs | a recovered copy is the newest acknowledged one; composed with 6 and 7 | planned |
| 9 | `Ledger` | generational reference counts | an object is reclaimed when and only when no VDI refers to it (refinement of an abstract count) | planned |
| 10 | `WorkQueue`, `SockfdCache`, `ObjListCache` | `lib/work.c`, `lib/sockfd_cache.c`, `object_list_cache.c` | every work runs, no slot of a freed entry is used, the cached list is the tree | planned |
| 11 | `ClientIO` | `request.c` 654-1150 | a request and a client are freed once, after their last use | planned |
| 12 | `Md` | `store/md.c` | an object is where its hash says once disks are stable | planned |
| 13 | `VdiOps` | create, snapshot, clone, delete in `vdi.c` | a name has one current VDI; a failure in the middle | planned |
| 14 | `Corosync`, `Zookeeper`, `Shepherd` | the other drivers | they implement the totally ordered events that 3 and 4 assume | planned |
| 15 | `SdInode`, `Migrate` | B-tree of data ids; upgrade steps | reference definition; crash between steps | planned |

Proofs to come: the abstract driver of `Membership` and `VdiLock` (a prefix of one sequence for every
sheep) with agreement as a theorem for any number of nodes; exclusion and the single owner of
`VdiLock`; refinement of an abstract store by `Store` and of an abstract counter by `Ledger`.

## 3. Modules

All models keep the control flow of the code and abstract its data: an object is a number, a member
list is a set, a message is a record. What the main thread does in one callback is one step; what
a worker does between two locks or messages is one step; a crash is possible between any two steps.
Operators whose name has a suffix after an underscore (`RunNextRw_NoWait`) are deliberately wrong
variants of the definition that follows them. They are used by no specification; each shows that the
property it is listed with in `PROJECT.json` notices the corresponding mistake.

**`Recovery`** (one sheep). `cur` and `nxt` are `current_rinfo` and `next_rinfo`; `list`, `row` and
`direct` are the list works, counted object works and direct works in the queues, each with the
recovery it was created for; `req` are the client requests with their place (wait queue, worker,
done), `objs` the objects in the working directory, `epoch` the system epoch, `status` whether the
cluster shuts down. `GatewayAt` are the epochs in which this node is a gateway only (it then neither
updates its store nor lists objects), `HaltAt` the operations that `queue_gateway_request()` refuses in
an epoch because zones or nodes are missing, `Ops` the operations that requests carry. `MainThread` is
the disjunction of the handlers and done callbacks, `Workers` of the worker functions; the recovery of
an object may fail at every attempt. A callback that
would use a freed recovery sets `fault`. A handler is a composition of operators on the record
`Now` of all main-thread state, in the order of the calls in the C function.
`RecoveryInv` holds the inductive invariant, `RecoveryProofs` and `RecoverySafety` the proofs.

**`LocalCluster`** (several sheep on one host). `nb` and `blk` are the two queues in shared memory,
`lock` the file lock, `sig` the pending signal of each process, `drain` whether a process is inside
`local_handler()`, `me` the process's member list, its `cluster_op_running`, its pending requests and
its worker and the status of the cluster. `ProcessEvent` is one call of `local_process_event()` with a
case per event type. `RefuseAccept` is the exit of a sheep that `cluster_join_check()` finds to be of
another cluster, `LeaveMainLoop` the end of a sheep after a shutdown. The status moves with accept
events and shutdown; formatting is in `Membership`.

**`Membership`** (several sheep, abstract driver). `events` is the one sequence the driver delivers and
`pos` how far each sheep has read; `cinfo` and `view` are in memory and lost in a crash, `disk` (the
epoch log and the creation time) survives. `Start`, `Join`, `Accept`, `Leave`, `Format`, `Force`,
`Shutdown` are the handlers; `FormatFails` and `FormatDies` are `cluster_make_fs()` returning early and
the death of the sheep between the write of the configuration and that of the log of epoch 1; `AskFormat`,
`AskForce` and `AskShutdown` are the sheep that is asked passing the operation on; `Crash` and `Detect`
belong to the environment. `Gateways` are sheep without disks; left alone in a running cluster they exit.
`Orderly` says that no sheep died with events unread, failed to format or was forced to start.

**`VdiLock`** (several sheep, abstract driver, one VDI). `me` holds the lock entry, the log of operations,
the checkpoints by epoch and the node status; `client` what the client of each sheep was told.
`Lock`, `Release`, `Cohere`, `Leave`, `Accept` are the handlers of delivered events, `GetVdis` and
`Collect` the collection of a joining sheep.

The driver in the last two modules is external to them: every sheep receives the same events in the
same order, at its own pace, from its own accept on. `LocalCluster` shows how one driver provides it.

## 4. Runs

Passing runs:

| run | instance | shows |
|---|---|---|
| `recovery_core` | 2 objects, 1 request, 4 epochs (a gateway in the last), 3 starts, shutdown | wakeups, take-overs, no work for another recovery; recoveries only superseded by newer ones; the invariant of the proofs |
| `recovery_live` | 1 object, 1 request, 2 starts, object recoveries that fail, disk failures, avoid-diskfull, throttling; fair main thread and workers | the two wakeup invariants with every feature on; sleepers wake (with the exception below), recovery ends |
| `local_ops` | 3 processes, 2 requests, 1 crash, 1 update, shutdown | one operation at a time, answers, unblock |
| `local_live` | 1 member and a joiner, 3 requests, 1 crash or leave | equal member lists after equal events, requests are answered, joins complete (with the exceptions below) |
| `membership_restart` | 2 founders and a gateway, 2 orderly crashes and 1 crash at any point or failed format, 4 starts, 4 epochs, 1 operation (format, forced recovery or shutdown) | agreement; in orderly behaviours one history of epochs, stable logs, no start behind a log |
| `vdilock_members` | 2 members and a joiner, 3 operations, 1 sheep that crashes or turns gateway, at most 2 participants | exclusion and agreement among members whose collection missed nothing, one owner, holders remembered |

The bounds are the smallest with which every action fires and the mistake named by each variant is
noticed: three sheep are needed for a bystander besides two that conflict, three recoveries for a
waiting one to be replaced, a crash and a return for a history to split, three requests for the block
event of a dead process to stand between two others. The operators with a suffix
(`RunNextRw_NoWait`, `VdiLock_Again`) are such variants: each property is violated when the operator of
the same name without the suffix is replaced by the variant.

Runs that end in a counterexample state what a comment or an assertion of the code says; each has an
entry under `findings` with the line quoted:

| run | property | short |
|---|---|---|
| `recovery_freed` | `NoUseAfterFree` | a direct work uses a recovery that was freed |
| `recovery_md` | `CompletionStillOwed` | a disk recovery that replaces a waiting node recovery drops its notification |
| `local_join_ops` | `OneOperation` | a process that joins starts an operation while another one is running |
| `membership_history` | `SameEpochHistory` | two logs give different members to one epoch after a restart |
| `vdilock_joiners` | `Exclusive` | the second of two joiners grants a lock that is held |
| `vdilock_abort` | `StillShared` | a coherence operation of a member that turned gateway finds the lock released, and the assertion ends the sheep |

**Limits of the passing properties.** Some properties name an exception, because the code leaves them
there and TLC shows how when the exception is taken out:

- `SleepersWake`: with recovery suspended, a direct work that fails wakes its request, which finds the
  object still in recovery (`oid_in_recovery()`, recovery.c:703-747) and queues the next direct work. If
  every attempt fails this goes on for ever, and the client gets no answer.
- `RequestsAnswered`: `check_pids()` (local.c:357-367) removes the block event of a dead process only if it
  is at the head of the caller's own queue, and only when the death is noticed. One that is queued behind
  another event stays; `sd_block_handler()` refuses it on every sheep (group.c:278-307), and every later
  cluster request waits. `local_live` reaches this case and shows that it is the only one.
- `JoinsComplete`: the only sheep that could accept the joiner dies (group.c:1066), and the joiner waits
  although it is alone.
- `OrderlyHistory`, `NotBehindOwnLog`, `LogIsStable`: they hold for `Orderly` behaviours. A sheep that
  accepts a joiner and dies before it has read the event has not logged the epoch that the joiner logs;
  restarted without the joiner it counts to that epoch again. Two logs then differ
  (`membership_history`), and a sheep that comes back to a cluster behind its own log has its logged
  epochs rewritten by `update_epoch_log()` (store/common.c:106-137). A forced start does the same by design.
  A sheep that dies inside `cluster_make_fs()` (ops.c:321-333) keeps old epochs under the new creation time.
- `MembersAgree`: a sheep whose format fails keeps its old creation time and does not agree with the
  others until the next join.
- `ViewsAgree` says nothing of the member lists of a cluster that shuts down, which are not kept.
- `HolderIsKnown`, `MembersExclude`: a member whose disks fail leaves the cluster and stays up as a gateway.
  `remove_node_from_participants()` (vdi.c:1061) drops its shared lock everywhere while its client still
  holds it, and a normal lock is then granted: `Exclusive` fails with `MaxLeave = 1` without any joiner.
- `MembersExclude`, `HolderIsKnown`, `LocksAgree`: they speak of sheep whose collection missed nothing
  (`sound`): no operation was logged or passed by while they collected, and the sheep whose checkpoint they
  took had finished its own collection.

Others hold only with the constants of their runs:

- `SupersededByNewer` with `AvoidDiskfull = TRUE`: the cancel path leaves `next_rinfo` behind, and the
  leftover supersedes a newer recovery (recovery.c:1053).
- `WorksOfCurrent` with `Throttle = TRUE`: a timer armed for the last recovery takes over while the
  object list of the current one is prepared (recovery.c:794).
- `MembersAgree` with `MaxOps = 2`: a sheep accepted during a shutdown takes no member list, and a format
  that was already on its way makes it live without one.
- `ViewsAgree` is checked without node updates (`MaxUpdate = 0`), so the file lock that a handler gives up
  inside `local_handler()` (local.c:143) is exercised by the properties of `local_ops` only.

No property is checked of the assertions and panics that a joiner meets, because the code does meet
them: a coherence operation reaches a sheep that collects (vdi.c:1022), a refused shared lock is played
from the log (vdi.c:579, 845), a slow member is asked to free a checkpoint that it has not taken
(vdi.c:2180), a member dies before it has answered (`"collect"`). The models end the sheep there.

**Fairness.** `Recovery`: weak fairness of the callbacks of finished works, of the throttling timer (the
event loop serves every ready descriptor in a round) and of the workers, for each kind of work by
itself, since direct works may recur for ever; operators' commands, epochs, failures and successes are
not fair. `LocalCluster`: weak fairness of steps that stay enabled until taken, strong
fairness of taking the file lock, which the kernel grants in turn, and of the periodic check of
processes. The other modules have safety only.

## 5. Proofs

`RecoveryProofs` proves `TypeCorrect` (`Spec => []TypeOK`) for every set of objects and requests,
every placement and all bounds, from `Recovery`'s assumptions on its constants only. One lemma per
operator shows that it maps a well-typed record of main-thread state to a well-typed one; the proof
of the step has one case per action and follows the composition of the handler.

`RecoverySafety` proves `Inductive`, and from it `NoLostWakeup`, `RecoveryIsDriven`,
`CallbacksFindTheirRecovery` and `CutListIsTemporary`, for a sheep without throttling (with throttling
the third is false, see §4). The properties are not inductive by themselves: that a
sleeper has a waker needs that the counters `done` and `next` agree with the works in the queues, that
a waiting recovery is noticed by the last work in flight, and that a cut list has a waiting recovery
behind it. `Inv` in `RecoveryInv` says this about the record `Now`, so that it can be carried through the
operators that a handler is composed of; `IndInv` is the same as a state predicate, restricted to
states without a fault.

Only model-checked: all liveness (the prover has no ENABLED), the properties of `LocalCluster`,
`Membership` and `VdiLock`, and `SupersededByNewer`.

## 6. What is not modelled

The rows of §2 marked planned are missing. Left out for good: transports, event loop and timers
(their effects are steps of the environment), logging, option parsing, tracing, the arithmetic of
erasure codes and hashes, the HTTP and NFS front ends, `sbd`, `sheepfs`, `dog` and the tools, which are
clients of the daemon.

Abstractions to keep in mind: memory allocation does not fail; object contents, sizes and erasure
strips are not distinguished in `Recovery`; an object is recovered or fails in one step; the shared
memory rings of the local driver do not overflow; a failing write of an epoch log ends the sheep like a
crash (the join and leave handlers panic), also where `cluster_make_fs()` returns an error; `membership_*`
has no gateway that fails to learn its number of vnodes in a format; the VDI lock model has one VDI and one
well-behaved client per sheep, and does not follow the contents of the inode; `membership_*` and
`vdilock_*` assume the driver's total order.
