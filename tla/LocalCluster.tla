---------------------------- MODULE LocalCluster ----------------------------
(***************************************************************************)
(* The local cluster driver (sheep/cluster/local.c) and the cluster        *)
(* operations that run over it (sheep/group.c).  The sheep processes of    *)
(* one host share a file with two event queues, take flock() to use it and *)
(* wake each other with SIGUSR1.  A cluster operation with a worker part   *)
(* first posts a BLOCK event; when the event is at its head, the sender    *)
(* runs the worker part, marks the event removed and posts a NOTIFY event, *)
(* at which every process runs the main part.  Other operations post their *)
(* NOTIFY at once.                                                         *)
(***************************************************************************)
EXTENDS Naturals, Sequences, FiniteSets, FiniteSetsExt

CONSTANTS
  Procs,        \* sheep processes
  Members,      \* those that have joined when the model starts
  None,         \* no process
  Kinds,        \* the kinds of operations that clients ask for
  Status0,      \* the status of the cluster when the model starts
  MaxReq,       \* bound: cluster requests from clients
  MaxLoss,      \* bound: processes that die or call leave_cluster()
  MaxLeave,     \* bound: those of them that call leave_cluster()
  MaxUpdate     \* bound: node updates

VARIABLES
  nb,           \* nonblock_events[1..nonblock_event_pos], never wraps here
  blk,          \* block_events[1..block_event_pos]
  lock,         \* the holder of flock() on the shared file
  sig,          \* processes with SIGUSR1 pending
  drain,        \* processes inside the loop of local_handler()
  me,           \* the memory of each process
  replies,      \* for each answer: the request answered, the request served
  count         \* how often the bounded things have happened

vars == <<nb, blk, lock, sig, drain, me, replies, count>>

----------------------------------------------------------------------------
(* Operations: "work" has a process_work, the others have not.  The main   *)
(* part of "reweight" may post an UPDATE_NODE event, that of "shutdown"    *)
(* changes the status of the cluster.                                      *)
OpKinds == {"work", "main", "reweight", "shutdown"}
Statuses == {"WAIT", "OK", "SHUTDOWN"}

ASSUME ProcsAssumption == /\ IsFiniteSet(Procs) /\ None \notin Procs
                          /\ Members \subseteq Procs /\ Members # {}
ASSUME OperationsAssumption == Kinds \subseteq OpKinds /\ Status0 \in Statuses
ASSUME BoundsAssumption == {MaxReq, MaxLoss, MaxLeave, MaxUpdate} \subseteq Nat

Ids == 1..MaxReq
NoOp == [kind |-> "main", id |-> 0]
Ops == [kind : OpKinds, id : Ids] \cup {NoOp}

(* struct local_event.  lnodes is kept as the set of processes and the     *)
(* subset of those that are gateways; of the cinfo that comes with an      *)
(* ACCEPT the status is kept.                                              *)
EventTypes == {"JOIN", "ACCEPT", "LEAVE", "GATEWAY", "NOTIFY", "UPDATE"}
NonBlockEvent == [type : EventTypes, sender : Procs, gw : BOOLEAN,
                  nodes : SUBSET Procs, gws : SUBSET Procs, op : Ops,
                  status : Statuses]
BlockEvent == [sender : Procs, callbacked : BOOLEAN, removed : BOOLEAN]

(* struct request on a pending list, with req->status.                     *)
Pending == [id : Ids, status : {"INIT", "QUEUED", "DONE"}]

Process == [st : {"off", "init", "up", "dead"}, joined : BOOLEAN, left : BOOLEAN,
            status : Statuses, nbpos : Nat, bpos : Nat, view : SUBSET Procs,
            pendB : Seq(Pending), pendN : Seq(Pending),
            running : BOOLEAN, work : {"none", "queued", "finished"}]

Counts == [req : 0..MaxReq, crash : 0..MaxLoss, leave : 0..MaxLeave,
           update : 0..MaxUpdate]

(* No process reads past the end of a queue (local.c:174-183).             *)
TypeOK ==
  /\ nb \in Seq(NonBlockEvent) /\ blk \in Seq(BlockEvent)
  /\ lock \in Procs \cup {None}
  /\ sig \subseteq Procs /\ drain \subseteq Procs
  /\ me \in [Procs -> Process]
  /\ \A p \in Procs : me[p].nbpos <= Len(nb) /\ me[p].bpos <= Len(blk)
  /\ replies \subseteq Ids \X (0..MaxReq)
  /\ count \in Counts

Up(p) == me[p].st = "up"
Alive == {p \in Procs : Up(p)}
(* The main thread of p is in the event loop.                              *)
Idle(p) == Up(p) /\ p \notin drain

----------------------------------------------------------------------------
(* get_nodes(): lnodes of the last non-blocking event.                     *)
Nodes == IF nb = <<>> THEN {} ELSE nb[Len(nb)].nodes
Gateways == IF nb = <<>> THEN {} ELSE nb[Len(nb)].gws

(* The event that add_event() makes out of the lnodes of its predecessor.  *)
NewEvent(type, p, gw, op, nodes, gws) ==
  [type |-> type, sender |-> p, gw |-> gw, op |-> op, status |-> "WAIT",
   nodes |-> CASE type = "JOIN" -> nodes \cup {p}
               [] type = "LEAVE" -> nodes \ {p}
               [] OTHER -> nodes,
   gws |-> CASE type = "GATEWAY" -> gws \cup ({p} \cap nodes)
             [] type = "LEAVE" -> gws \ {p}
             [] OTHER -> gws]

(* shm_queue_notify(): a signal for every node of the last event.          *)
Notified(s, q) == s \cup (q[Len(q)].nodes \cap Alive)

(* add_event() of a non-blocking event: push and notify.                   *)
AddEvent(type, p, op) ==
  /\ nb' = Append(nb, NewEvent(type, p, FALSE, op, Nodes, Gateways))
  /\ sig' = Notified(sig, nb')

(* add_event_lock(): the caller is in its main thread.                     *)
AddEventLock(type, p, op) ==
  /\ lock = None /\ Idle(p)
  /\ AddEvent(type, p, op)

Counted(what, max) ==
  /\ count[what] < max
  /\ count' = [count EXCEPT ![what] = @ + 1]

----------------------------------------------------------------------------
(* local_init(), shm_queue_init().  The queue is valid: if no process is   *)
(* left the file is made anew, and that is another behaviour.  The         *)
(* positions start behind every event there is.                            *)
Start(p) ==
  /\ me[p].st = "off" /\ lock = None /\ Alive # {}
  /\ me' = [me EXCEPT ![p].st = "init", ![p].nbpos = Len(nb), ![p].bpos = Len(blk)]
  /\ UNCHANGED <<nb, blk, lock, sig, drain, replies, count>>

(* local_join(); events may have come since local_init().                  *)
Join(p) ==
  /\ me[p].st = "init" /\ lock = None
  /\ nb' = Append(nb, NewEvent("JOIN", p, FALSE, NoOp, Nodes, Gateways))
  /\ me' = [me EXCEPT ![p].st = "up"]
  /\ sig' = Notified(sig, nb') \cup {p}
  /\ UNCHANGED <<blk, lock, drain, replies, count>>

(* queue_cluster_request() of an operation with a worker part, from a      *)
(* client: local_block(), then the request goes to pending_block_list.     *)
(* queue_request() refuses requests once the cluster shuts down.           *)
QueueBlocked(p) ==
  /\ "work" \in Kinds
  /\ lock = None /\ Idle(p) /\ me[p].joined /\ me[p].status # "SHUTDOWN"
  /\ Counted("req", MaxReq)
  /\ blk' = Append(blk, [sender |-> p, callbacked |-> FALSE, removed |-> FALSE])
  /\ sig' = Notified(sig, nb)
  /\ me' = [me EXCEPT ![p].pendB = Append(@, [id |-> count'.req, status |-> "INIT"])]
  /\ UNCHANGED <<nb, lock, drain, replies>>

(* queue_cluster_request() of any other: local_notify() at once.           *)
QueueNotify(p) ==
  /\ me[p].joined /\ me[p].status # "SHUTDOWN"
  /\ Counted("req", MaxReq)
  /\ \E k \in Kinds \ {"work"} :
       AddEventLock("NOTIFY", p, [kind |-> k, id |-> count'.req])
  /\ me' = [me EXCEPT ![p].pendN = Append(@, [id |-> count'.req, status |-> "INIT"])]
  /\ UNCHANGED <<blk, lock, drain, replies>>

(* The worker thread of block_wqueue: do_process_work().                   *)
DoProcessWork(p) ==
  /\ Up(p) /\ me[p].work = "queued"
  /\ me' = [me EXCEPT ![p].work = "finished"]
  /\ UNCHANGED <<nb, blk, lock, sig, drain, replies, count>>

(* cluster_op_done() and local_unblock(): the event behind block_event_pos *)
(* is marked removed, and the operation is announced.                      *)
ClusterOpDone(p) ==
  /\ me[p].work = "finished"
  /\ AddEventLock("NOTIFY", p, [kind |-> "work", id |-> me[p].pendB[1].id])
  /\ blk' = IF me[p].bpos < Len(blk)
            THEN [blk EXCEPT ![me[p].bpos + 1].removed = TRUE] ELSE blk
  /\ me' = [me EXCEPT ![p].work = "none", ![p].pendB[1].status = "DONE"]
  /\ UNCHANGED <<lock, drain, replies, count>>

(* leave_cluster() after an I/O error or when no disk is left: once.       *)
Leave(p) ==
  /\ me[p].joined /\ ~me[p].left
  /\ Counted("leave", MaxLeave) /\ count.crash + count.leave < MaxLoss
  /\ AddEventLock("GATEWAY", p, NoOp)
  /\ me' = [me EXCEPT ![p].left = TRUE]
  /\ UNCHANGED <<blk, lock, drain, replies>>

(* local_set_vnodes() and kick_recover() of md.c: local_update_node().     *)
UpdateNode(p) ==
  /\ me[p].joined
  /\ Counted("update", MaxUpdate)
  /\ AddEventLock("UPDATE", p, NoOp)
  /\ UNCHANGED <<blk, lock, drain, me, replies>>

(* The process ends; the kernel drops its flock().                         *)
Die(p) == /\ lock' = IF lock = p THEN None ELSE lock
          /\ drain' = drain \ {p}
          /\ me' = [me EXCEPT ![p].st = "dead"]

Crash(p) ==
  /\ Up(p) /\ Counted("crash", MaxLoss) /\ count.crash + count.leave < MaxLoss
  /\ Die(p) /\ sig' = sig \ {p}
  /\ UNCHANGED <<nb, blk, replies>>

(* The main loop of a sheep ends once the cluster shuts down and it has no *)
(* request outstanding.                                                    *)
LeaveMainLoop(p) ==
  /\ Idle(p) /\ me[p].status = "SHUTDOWN"
  /\ me[p].pendB = <<>> /\ me[p].pendN = <<>>
  /\ Die(p) /\ sig' = sig \ {p}
  /\ UNCHANGED <<nb, blk, replies, count>>

CheckPids_AnySender(p) ==
  LET gone == {q \in Nodes : ~Up(q)}
      Left(q, e) ==
        LET l == e[Len(e)] IN
        Append(e, NewEvent("LEAVE", q, q \in l.gws, NoOp, l.nodes, l.gws))
      head == me[p].bpos + 1
  IN
  /\ lock = None /\ Idle(p) /\ gone # {}
  /\ nb' = FoldSet(Left, nb, gone)
  /\ blk' = IF head \in DOMAIN blk
            THEN [blk EXCEPT ![head].removed = TRUE] ELSE blk
  /\ sig' = Notified(sig, nb')
  /\ UNCHANGED <<lock, drain, me, replies, count>>

(* check_pids(), by timer: a LEAVE event for each member that is gone, and *)
(* the event behind the caller's own block_event_pos is removed if it is   *)
(* from one of them.                                                       *)
CheckPids(p) ==
  LET gone == {q \in Nodes : ~Up(q)}
      Left(q, e) ==
        LET l == e[Len(e)] IN
        Append(e, NewEvent("LEAVE", q, q \in l.gws, NoOp, l.nodes, l.gws))
      head == me[p].bpos + 1
  IN
  /\ lock = None /\ Idle(p) /\ gone # {}
  /\ nb' = FoldSet(Left, nb, gone)
  /\ blk' = IF head \in DOMAIN blk /\ blk[head].sender \in gone
            THEN [blk EXCEPT ![head].removed = TRUE] ELSE blk
  /\ sig' = Notified(sig, nb')
  /\ UNCHANGED <<lock, drain, me, replies, count>>

----------------------------------------------------------------------------
(* local_handler(): read the signal, lock the queue, process events until  *)
(* local_process_event() returns false, unlock.                            *)
Handler(p) ==
  /\ p \in sig /\ Idle(p) /\ lock = None
  /\ sig' = sig \ {p} /\ lock' = p /\ drain' = drain \cup {p}
  /\ UNCHANGED <<nb, blk, me, replies, count>>

(* shm_queue_peek(): non-blocking events come first.                       *)
AtNonBlock(p) == p \in drain /\ me[p].nbpos < Len(nb)
AtBlock(p) == /\ p \in drain /\ me[p].nbpos = Len(nb)
              /\ me[p].bpos < Len(blk)

NbEvent(p) == nb[me[p].nbpos + 1]
BlkEvent(p) == blk[me[p].bpos + 1]

(* A process that has not joined skips every event but its own JOIN or     *)
(* ACCEPT.                                                                 *)
Concerns(p, e) == \/ me[p].joined
                  \/ e.sender = p /\ e.type \in {"JOIN", "ACCEPT"}

(* The nroot that the handlers are given: lnodes without the gateways.     *)
Root(e) == e.nodes \ e.gws

(* local_process_event() returns true: shm_queue_remove().                 *)
NbDone(p, m) == [m EXCEPT ![p].nbpos = @ + 1]
BlkDone_Both(p, m) == [m EXCEPT ![p].bpos = @ + 1, ![p].nbpos = @ + 1]
BlkDone(p, m) == [m EXCEPT ![p].bpos = @ + 1]

(* local_process_event() returns false.                                    *)
Unlock(p) == /\ lock' = IF lock = p THEN None ELSE lock
             /\ drain' = drain \ {p}

NothingLeft(p) ==
  /\ p \in drain /\ me[p].nbpos = Len(nb) /\ me[p].bpos = Len(blk)
  /\ Unlock(p)
  /\ UNCHANGED <<nb, blk, sig, me, replies, count>>

SkipNonBlock(p) ==
  /\ AtNonBlock(p) /\ ~Concerns(p, NbEvent(p))
  /\ me' = NbDone(p, me)
  /\ UNCHANGED <<nb, blk, lock, sig, drain, replies, count>>

SkipBlock(p) ==
  /\ AtBlock(p)
  /\ BlkEvent(p).removed \/ (~BlkEvent(p).callbacked /\ ~me[p].joined)
  /\ me' = BlkDone(p, me)
  /\ UNCHANGED <<nb, blk, lock, sig, drain, replies, count>>

WaitForUnblock(p) ==
  /\ AtBlock(p) /\ ~BlkEvent(p).removed /\ BlkEvent(p).callbacked
  /\ Unlock(p)
  /\ UNCHANGED <<nb, blk, sig, me, replies, count>>

HandleJoin_Silent(p) ==
  LET e == NbEvent(p) IN
  /\ AtNonBlock(p) /\ Concerns(p, e) /\ e.type = "JOIN"
  /\ IF Root(e) \ {e.sender} # {} /\ e.sender = p
     THEN UNCHANGED nb
     ELSE nb' = [nb EXCEPT ![me[p].nbpos + 1].type = "ACCEPT",
                         ![me[p].nbpos + 1].status = me[p].status]
  /\ Unlock(p)
  /\ UNCHANGED <<blk, sig, me, replies, count>>

(* EVENT_JOIN and sd_join_handler(): any other member accepts, with its    *)
(* own status; cluster_wait_check() may find that all have gathered.       *)
HandleJoin(p) ==
  LET e == NbEvent(p) IN
  /\ AtNonBlock(p) /\ Concerns(p, e) /\ e.type = "JOIN"
  /\ IF Root(e) \ {e.sender} # {} /\ e.sender = p
     THEN UNCHANGED <<nb, sig>>
     ELSE /\ \E s \in {me[p].status} \cup
                     IF me[p].status = "WAIT" THEN {"OK"} ELSE {} :
               nb' = [nb EXCEPT ![me[p].nbpos + 1].type = "ACCEPT",
                                ![me[p].nbpos + 1].status = s]
          /\ sig' = Notified(sig, nb)
  /\ Unlock(p)
  /\ UNCHANGED <<blk, me, replies, count>>

HandleAccept_JoinerOnly(p) ==
  LET e == NbEvent(p) IN
  /\ AtNonBlock(p) /\ Concerns(p, e) /\ e.type = "ACCEPT"
  /\ me' = NbDone(p, [me EXCEPT ![p].joined = TRUE, ![p].status = e.status,
                                ![p].view = IF e.sender = p THEN Root(e) ELSE @])
  /\ UNCHANGED <<nb, blk, lock, sig, drain, replies, count>>

(* EVENT_ACCEPT and sd_accept_handler(): everybody takes the status that   *)
(* the acceptor sent.  A cluster that shuts down keeps its member list.    *)
HandleAccept(p) ==
  LET e == NbEvent(p) IN
  /\ AtNonBlock(p) /\ Concerns(p, e) /\ e.type = "ACCEPT"
  /\ me' = NbDone(p, [me EXCEPT ![p].joined = TRUE, ![p].status = e.status,
                        ![p].view = IF e.status = "SHUTDOWN" THEN @ ELSE Root(e)])
  /\ UNCHANGED <<nb, blk, lock, sig, drain, replies, count>>

(* ... and the new sheep exits if cluster_join_check() says that it is of  *)
(* another cluster.                                                        *)
RefuseAccept(p) ==
  LET e == NbEvent(p) IN
  /\ AtNonBlock(p) /\ e.type = "ACCEPT" /\ e.sender = p
  /\ Die(p) /\ sig' = sig \ {p}
  /\ UNCHANGED <<nb, blk, replies, count>>

(* EVENT_LEAVE of a node that had already become a gateway.                *)
HandleGatewayGone(p) ==
  LET e == NbEvent(p) IN
  /\ AtNonBlock(p) /\ Concerns(p, e) /\ e.type = "LEAVE" /\ e.gw
  /\ me' = NbDone(p, me)
  /\ UNCHANGED <<nb, blk, lock, sig, drain, replies, count>>

(* EVENT_LEAVE, EVENT_GATEWAY and sd_leave_handler(): nothing when the     *)
(* cluster shuts down; when only gateways remain of a running cluster they *)
(* exit.                                                                   *)
HandleLeave(p) ==
  LET e == NbEvent(p) IN
  /\ AtNonBlock(p) /\ Concerns(p, e)
  /\ e.type = "GATEWAY" \/ (e.type = "LEAVE" /\ ~e.gw)
  /\ IF me[p].status = "OK" /\ Root(e) = {}
     THEN Die(p) /\ sig' = sig \ {p}
     ELSE /\ me' = NbDone(p, [me EXCEPT ![p].view =
                               IF me[p].status = "SHUTDOWN" THEN @ ELSE Root(e)])
          /\ UNCHANGED <<lock, sig, drain>>
  /\ UNCHANGED <<nb, blk, replies, count>>

HandleBlock_PassOn(p) ==
  LET mine == BlkEvent(p).sender = p /\ ~me[p].running IN
  /\ AtBlock(p) /\ me[p].joined
  /\ ~BlkEvent(p).removed /\ ~BlkEvent(p).callbacked
  /\ blk' = [blk EXCEPT ![me[p].bpos + 1].callbacked = mine]
  /\ me' = IF mine
           THEN [me EXCEPT ![p].running = TRUE, ![p].work = "queued",
                           ![p].pendB[1].status = "QUEUED"]
           ELSE BlkDone(p, me)
  /\ Unlock(p)
  /\ UNCHANGED <<nb, sig, replies, count>>

(* EVENT_BLOCK and sd_block_handler().  An event of another process is     *)
(* left for its sender.                                                    *)
HandleBlock(p) ==
  LET mine == BlkEvent(p).sender = p /\ ~me[p].running IN
  /\ AtBlock(p) /\ me[p].joined
  /\ ~BlkEvent(p).removed /\ ~BlkEvent(p).callbacked
  /\ blk' = [blk EXCEPT ![me[p].bpos + 1].callbacked = mine]
  /\ me' = IF mine
           THEN [me EXCEPT ![p].running = TRUE, ![p].work = "queued",
                           ![p].pendB[1].status = "QUEUED"]
           ELSE me
  /\ Unlock(p)
  /\ UNCHANGED <<nb, sig, replies, count>>

HandleNotify_OneList(p) ==
  LET e == NbEvent(p)
      inB == me[p].pendB # <<>>
      list == IF inB THEN me[p].pendB ELSE me[p].pendN
      m1 == IF e.sender # p THEN me
            ELSE IF inB THEN [me EXCEPT ![p].pendB = Tail(@)]
            ELSE [me EXCEPT ![p].pendN = Tail(@)]
  IN
  /\ AtNonBlock(p) /\ Concerns(p, e) /\ e.type = "NOTIFY"
  /\ me' = NbDone(p, [m1 EXCEPT ![p].running = FALSE])
  /\ replies' = IF e.sender = p THEN replies \cup {<<list[1].id, e.op.id>>}
                ELSE replies
  /\ UNCHANGED <<nb, lock, sig, count, blk, drain>>

HandleNotify_KeepRunning(p) ==
  LET e == NbEvent(p)
      list == IF e.op.kind = "work" THEN me[p].pendB ELSE me[p].pendN
  IN
  /\ AtNonBlock(p) /\ Concerns(p, e) /\ e.type = "NOTIFY"
  /\ me' = NbDone(p, IF e.sender # p THEN me
                     ELSE IF e.op.kind = "work"
                          THEN [me EXCEPT ![p].pendB = Tail(@)]
                          ELSE [me EXCEPT ![p].pendN = Tail(@)])
  /\ replies' = IF e.sender = p THEN replies \cup {<<list[1].id, e.op.id>>}
                ELSE replies
  /\ UNCHANGED <<nb, lock, sig, count, blk, drain>>

(* EVENT_NOTIFY and sd_notify_handler(): the sender's first pending        *)
(* request of that kind is answered.  cluster_shutdown() sets the status;  *)
(* cluster_reweight() posts an UPDATE_NODE event if the size has changed:  *)
(* its add_event_lock() drops the flock() that local_handler() holds.      *)
HandleNotify(p) ==
  LET e == NbEvent(p)
      list == IF e.op.kind = "work" THEN me[p].pendB ELSE me[p].pendN
      m1 == IF e.sender # p THEN me
            ELSE IF e.op.kind = "work" THEN [me EXCEPT ![p].pendB = Tail(@)]
            ELSE [me EXCEPT ![p].pendN = Tail(@)]
      m2 == CASE e.op.kind = "work" -> [m1 EXCEPT ![p].running = FALSE]
              [] e.op.kind = "shutdown" -> [m1 EXCEPT ![p].status = "SHUTDOWN"]
              [] OTHER -> m1
  IN
  /\ AtNonBlock(p) /\ Concerns(p, e) /\ e.type = "NOTIFY"
  /\ me' = NbDone(p, m2)
  /\ replies' = IF e.sender = p THEN replies \cup {<<list[1].id, e.op.id>>}
                ELSE replies
  /\ \/ UNCHANGED <<nb, lock, sig, count>>
     \/ /\ e.op.kind = "reweight" /\ lock \in {p, None}
        /\ Counted("update", MaxUpdate)
        /\ AddEvent("UPDATE", p, NoOp)
        /\ lock' = None
  /\ UNCHANGED <<blk, drain>>

(* EVENT_UPDATE_NODE and sd_update_node_handler(): a node that is not in   *)
(* the list of members is a panic.                                         *)
HandleUpdate(p) ==
  LET e == NbEvent(p) IN
  /\ AtNonBlock(p) /\ Concerns(p, e) /\ e.type = "UPDATE"
  /\ IF e.sender \in me[p].view
     THEN me' = NbDone(p, me) /\ UNCHANGED <<lock, sig, drain>>
     ELSE Die(p) /\ sig' = sig \ {p}
  /\ UNCHANGED <<nb, blk, replies, count>>

----------------------------------------------------------------------------
(* Members have joined and read every event so far.                        *)
Init ==
  /\ \E p \in Members :
       nb = <<[NewEvent("JOIN", p, FALSE, NoOp, Members, {})
                 EXCEPT !.type = "ACCEPT", !.status = Status0]>>
  /\ blk = <<>>
  /\ lock = None /\ sig = {} /\ drain = {}
  /\ me = [p \in Procs |->
             [st |-> IF p \in Members THEN "up" ELSE "off",
              joined |-> p \in Members, left |-> FALSE, status |-> Status0,
              nbpos |-> IF p \in Members THEN 1 ELSE 0, bpos |-> 0,
              view |-> IF p \in Members THEN Members ELSE {},
              pendB |-> <<>>, pendN |-> <<>>,
              running |-> FALSE, work |-> "none"]]
  /\ replies = {}
  /\ count = [req |-> 0, crash |-> 0, leave |-> 0, update |-> 0]

(* One round of the loop in local_handler().                               *)
ProcessEvent(p) ==
  \/ NothingLeft(p) \/ SkipNonBlock(p) \/ SkipBlock(p) \/ WaitForUnblock(p)
  \/ HandleJoin(p) \/ HandleAccept(p) \/ RefuseAccept(p)
  \/ HandleGatewayGone(p) \/ HandleLeave(p) \/ HandleBlock(p) \/ HandleNotify(p) \/ HandleUpdate(p)

Next == \E p \in Procs :
  \/ Start(p) \/ Join(p) \/ QueueBlocked(p) \/ QueueNotify(p) \/ Leave(p) \/ UpdateNode(p)
  \/ Crash(p) \/ LeaveMainLoop(p) \/ CheckPids(p)
  \/ DoProcessWork(p) \/ ClusterOpDone(p)
  \/ Handler(p) \/ ProcessEvent(p)

Spec == Init /\ [][Next]_vars

(* flock() is granted in turn, worker threads and timers run, and a main   *)
(* thread goes on: requests, starts and crashes need not happen.           *)
FairSpec ==
  /\ Spec
  /\ \A p \in Procs :
       /\ SF_vars(Handler(p)) /\ WF_vars(ProcessEvent(p))
       /\ WF_vars(DoProcessWork(p)) /\ SF_vars(ClusterOpDone(p))
       /\ SF_vars(CheckPids(p))

----------------------------------------------------------------------------
(* At most one node runs the worker part of a cluster operation: "it is    *)
(* guaranteed that only one node processes a cluster operation at the same *)
(* time" (ops.c:39-41).                                                    *)
OneOperation == \A p, q \in Alive :
  me[p].work # "none" /\ me[q].work # "none" => p = q

(* local_unblock() takes the event behind block_event_pos for the caller's *)
(* own: while the worker part runs, no skip, crash or removal by another   *)
(* process may move that position off it (local.c:403-419).                *)
UnblockFindsItsEvent == \A p \in Alive : me[p].work # "none" =>
  LET i == me[p].bpos + 1 IN
  /\ i \in DOMAIN blk
  /\ blk[i].sender = p /\ ~blk[i].removed

(* sd_notify_handler() answers the first request of a pending list without *)
(* looking: it is the one the message was made from (group.c:1016-1025).   *)
AnswersItsRequest == \A r \in replies : r[1] = r[2]

(* Processes that have read the same events have the same member list and  *)
(* status, whichever of them were accepted late; a cluster that shuts down *)
(* no longer keeps its list (local.c:482-494, group.c:1243-1246).          *)
ViewsAgree == \A p, q \in Alive :
  me[p].joined /\ me[q].joined /\ me[p].nbpos = me[q].nbpos =>
    /\ me[p].status = me[q].status
    /\ me[p].status # "SHUTDOWN" => me[p].view = me[q].view

(* cluster_op_running is set only while an operation of this process is    *)
(* between its block event and its notification, so that sd_block_handler()*)
(* cannot refuse for ever (group.c:288-307, 1041-1042).                    *)
RunningHasCause == \A p \in Alive : me[p].running =>
  \/ me[p].work # "none"
  \/ \E i \in me[p].nbpos + 1 .. Len(nb) :
       nb[i].type = "NOTIFY" /\ nb[i].sender = p /\ nb[i].op.kind = "work"

(* The first block event of p is from a process that is gone, and nobody   *)
(* has removed it.                                                         *)
Orphaned(p) ==
  /\ Up(p) /\ me[p].bpos < Len(blk)
  /\ ~BlkEvent(p).removed /\ ~Up(BlkEvent(p).sender)

(* Every cluster request on a pending list is answered, unless its process *)
(* ends (group.c:316-354, "must call the method again for the same event   *)
(* once it gets notified again" 282-283).  The one exception: check_pids() *)
(* looks for the event of a dead sender only at the caller's own head, and *)
(* only once, so one that was queued behind another event stays in the     *)
(* queue and everybody waits for it (local.c:357-367).                     *)
RequestsAnswered == \A p \in Procs :
  <>[](Up(p) /\ (me[p].pendB # <<>> \/ me[p].pendN # <<>>))
    => <>[](\E q \in Procs : Orphaned(q))

(* A process that starts is accepted: "At least one nodes in the cluster   *)
(* must call this function and succeed in accept of the joining node."     *)
(* (group.c:1051-1052).  It waits for ever only when no member is left to  *)
(* do so.                                                                  *)
JoinsComplete == \A p \in Procs :
  <>[](Up(p) /\ ~me[p].joined) => <>[](\A q \in Procs : Up(q) => ~me[q].joined)
=============================================================================
