------------------------------ MODULE Recovery ------------------------------
(***************************************************************************)
(* Object recovery on one sheep, and the requests that sleep on it         *)
(* (sheep/recovery.c, the wait queue of sheep/request.c).                  *)
(*                                                                         *)
(* All handlers run on the main thread, one at a time, so each of them is  *)
(* one action.  The bodies of recovery works run on worker threads and     *)
(* interleave with the handlers: a work is queued, runs, and its "done"    *)
(* callback runs later on the main thread.                                 *)
(*                                                                         *)
(* A handler is a chain of calls that read what the previous ones wrote,   *)
(* so it is written as a composition of operators on the record Now of     *)
(* the main thread's state: RunNextRw(s) is the state that run_next_rw()   *)
(* leaves when it is called in s.                                          *)
(***************************************************************************)
EXTENDS Naturals, FiniteSets

CONSTANTS
  Oids,           \* object identifiers
  Reqs,           \* client and peer requests; each is sent once
  Ops,            \* the operations that they ask for
  Null,           \* a NULL recovery_info pointer
  LocalAt,        \* LocalAt[e]: the objects whose copies epoch e puts here
  GatewayAt,      \* epochs at which this node is gateway only: it has no vnodes
  HaltAt,         \* HaltAt[e]: the operations that a gateway refuses at epoch e,
                  \* with too few zones for a strict cluster or no node at all
  NrThreads,      \* md_nr_disks() * 2
  MaxExec,        \* rthrottling.max_exec_count when throttling is on
  AvoidDiskfull,  \* SD_CLUSTER_FLAG_AVOID_DISKFULL (dog cluster format -F)
  Throttle,       \* whether the operator ever sets recovery throttling
  Shutdown,       \* whether the operator ever shuts the cluster down
  MdRecovery,     \* whether disks fail or are plugged while the sheep runs
  MaxEpoch,       \* bound: epochs
  MaxStart        \* bound: calls of start_recovery

Epochs == 1..MaxEpoch
Rids   == 1..MaxStart

(* struct recovery_info.  oids[0..count) is split at the two indices of    *)
(* the code: done, flying = [done..next) and todo = [next..count).  tail   *)
(* is the object that the uninitialised word at oids[count] may spell.     *)
Rinfo == [id : Rids, state : {"prepare", "recover"}, epoch : Epochs,
          notify : BOOLEAN, suspended : BOOLEAN, throttling : BOOLEAN,
          cancel : BOOLEAN, trunc : BOOLEAN, done : SUBSET Oids,
          flying : SUBSET Oids, todo : SUBSET Oids, tail : SUBSET Oids]

Phase    == {"queued", "finished"}
ListWork == [rid : Rids, epoch : Epochs, ph : Phase,
             oids : SUBSET Oids, trunc : BOOLEAN, tail : SUBSET Oids]
ObjWork  == [rid : Rids, oid : Oids, ph : Phase]
(* A direct work is tagged with the request that asked for it.             *)
DirectWork == [rid : Rids, req : Reqs, ph : Phase]

(* op: "read" stands for the operations that must find the object and that *)
(* no gateway refuses for want of zones, "write" for WRITE_OBJ, "create"   *)
(* for CREATE_AND_WRITE, "recov" for requests with SD_FLAG_CMD_RECOVERY.   *)
Request == [st : {"idle", "wait", "work", "gone"}, kind : {"peer", "gateway"},
            op : Ops, oid : Oids, local : BOOLEAN,
            epoch : Epochs, result : {"none", "OLD", "NEW"}, rpepoch : Epochs]

IdleRequest == [st |-> "idle", kind |-> "peer", op |-> "read",
                oid |-> CHOOSE o \in Oids : TRUE, local |-> FALSE,
                epoch |-> 1, result |-> "none", rpepoch |-> 1]

ASSUME BoundsAssumption ==
  /\ NrThreads \in Nat \ {0}
  /\ MaxExec \in Nat \ {0}
  /\ MaxEpoch \in Nat \ {0}
  /\ MaxStart \in Nat
  /\ {AvoidDiskfull, Throttle, Shutdown, MdRecovery} \subseteq BOOLEAN
  /\ "read" \in Ops /\ Ops \subseteq {"read", "write", "create", "recov"}
  /\ IsFiniteSet(Oids) /\ Oids # {}
ASSUME PlacementAssumption ==
  /\ LocalAt \in [Epochs -> SUBSET Oids]
  /\ HaltAt \in [Epochs -> SUBSET Ops]
  /\ GatewayAt \subseteq Epochs /\ \A e \in GatewayAt : LocalAt[e] = {}
ASSUME NullAssumption == Null \notin Rinfo

VARIABLES
  epoch,       \* sys->cinfo.epoch
  status,      \* sys->cinfo.status; recovery needs a cluster that was started
  disabled,    \* sys->cinfo.disable_recovery
  throttling,  \* sys->rthrottling.throttling
  cur,         \* current_rinfo
  nxt,         \* next_rinfo
  starts,      \* recovery_infos allocated so far
  list,        \* prepare_object_list works
  row,         \* recover_object works counted in done/next
  direct,      \* recover_object works of direct_queue_recovery_work, a bag
  announce,    \* epochs of notify_recovery_completion works, in queue order
  req,         \* the requests
  timers,      \* armed recovery timers
  objs,        \* objects in the working directory of this node
  fault,       \* "none", "exit", or what undefined behaviour the sheep ran into
  owed         \* history: lifted epochs whose completion is not queued yet

vars == <<epoch, status, disabled, throttling, cur, nxt, starts, list, row,
          direct, announce, req, timers, objs, fault, owed>>

(* The type invariant.  Works, requests and recovery_infos are records, and *)
(* a direct work may be queued any number of times.                        *)
TypeOK ==
  /\ epoch \in Epochs
  /\ status \in {"OK", "SHUTDOWN"}
  /\ disabled \in BOOLEAN
  /\ throttling \in BOOLEAN
  /\ cur \in Rinfo \cup {Null}
  /\ nxt \in Rinfo \cup {Null}
  /\ starts \in 0..MaxStart
  /\ list \in SUBSET ListWork
  /\ row \in SUBSET ObjWork
  /\ direct \in [DirectWork -> Nat]
  /\ announce \in SUBSET Epochs
  /\ req \in [Reqs -> Request]
  /\ timers \in Nat
  /\ objs \in SUBSET Oids
  /\ fault \in {"none", "exit", "uaf", "null", "list"}
  /\ owed \in SUBSET Epochs
-----------------------------------------------------------------------------
(* The main thread's state as one record, and its assignment.              *)

Now == [epoch |-> epoch, status |-> status, disabled |-> disabled,
        throttling |-> throttling, cur |-> cur, nxt |-> nxt, list |-> list, row |-> row,
        direct |-> direct, announce |-> announce, req |-> req,
        timers |-> timers, objs |-> objs, fault |-> fault, owed |-> owed]

Become(t) ==
  \E s \in {t} :
    /\ epoch' = s.epoch /\ status' = s.status /\ disabled' = s.disabled
    /\ throttling' = s.throttling
    /\ cur' = s.cur /\ nxt' = s.nxt /\ list' = s.list /\ row' = s.row
    /\ direct' = s.direct /\ announce' = s.announce /\ req' = s.req
    /\ timers' = s.timers /\ objs' = s.objs /\ fault' = s.fault
    /\ owed' = s.owed

(* The sheep reached undefined behaviour: the model stops there.           *)
Broken(s, what) == [s EXCEPT !.fault = what]

(* Whether the recovery_info with this id is still allocated.              *)
Allocated(s, id) ==
  \/ s.cur # Null /\ s.cur.id = id
  \/ s.nxt # Null /\ s.nxt.id = id

-----------------------------------------------------------------------------
(* Requests: queue_request() and what it calls on the main thread.         *)

(* oid_in_recovery(): whether a request for o has to sleep ...             *)
OidInRecovery(s, o) ==
  /\ s.cur # Null
  /\ o \notin s.objs
  /\ \/ s.nxt # Null
     \/ s.cur.state = "prepare"
     \/ /\ o \notin s.cur.done
        /\ o \in s.cur.flying \cup s.cur.todo \cup s.cur.tail

(* ... and whether it queues a direct recovery of o as well.               *)
DirectNeeded(s, o) ==
  /\ OidInRecovery(s, o)
  /\ s.nxt = Null
  /\ s.cur.state = "recover" /\ o \in s.cur.flying => s.cur.suspended

(* request_in_recovery() for the request q that is being queued.           *)
InRecovery(s, q) ==
  q.op \in {"read", "write"} /\ q.local /\ OidInRecovery(s, q.oid)

(* queue_request() up to the point where local_oid is known: a gateway     *)
(* request takes the current epoch and keeps a local_oid it once had.      *)
Stamped(s, q) ==
  IF q.kind = "gateway"
  THEN [q EXCEPT !.epoch = s.epoch,
                 !.local = @ \/ q.oid \in LocalAt[s.epoch]]
  ELSE [q EXCEPT !.local = TRUE]

(* Whether queue_peer_request() stops at check_request_epoch().            *)
EpochMismatch(s, q) == q.kind = "peer" /\ q.epoch # s.epoch

(* Whether queue_gateway_request() ends the request with SD_RES_HALT.      *)
Halts(s, q) == q.kind = "gateway" /\ q.op \in HaltAt[s.epoch]

(* queue_request(): a cluster that shuts down answers at once; otherwise   *)
(* queue_peer_request() or queue_gateway_request() decides.                *)
Queued(s, q0) ==
  LET q == Stamped(s, q0)
      gone == [IdleRequest EXCEPT !.st = "gone", !.oid = q.oid]
  IN
  IF s.status # "OK" THEN gone
  ELSE CASE EpochMismatch(s, q) /\ q.epoch < s.epoch -> gone
         [] EpochMismatch(s, q) /\ q.epoch > s.epoch ->
              [q EXCEPT !.st = "wait", !.result = "NEW"]
         [] ~EpochMismatch(s, q) /\ InRecovery(s, q) -> [q EXCEPT !.st = "wait"]
         [] ~EpochMismatch(s, q) /\ ~InRecovery(s, q) /\ Halts(s, q) -> gone
         [] OTHER -> [q EXCEPT !.st = "work"]

AsksDirect(s, q0) ==
  LET q == Stamped(s, q0) IN
  /\ s.status = "OK"
  /\ ~EpochMismatch(s, q)
  /\ InRecovery(s, q)
  /\ DirectNeeded(s, q.oid)

(* requeue_request() of every request in W.  Where a request goes does not *)
(* depend on the others, so the order of the wait queue does not matter.   *)
Requeue(s, W) ==
  [s EXCEPT
     !.req = [r \in Reqs |-> IF r \in W THEN Queued(s, s.req[r])
                                        ELSE s.req[r]],
     !.direct = [d \in DirectWork |->
        IF /\ d.req \in W
           /\ d.ph = "queued"
           /\ AsksDirect(s, s.req[d.req])
           /\ d.rid = s.cur.id
        THEN s.direct[d] + 1
        ELSE s.direct[d]]]

Sleepers(s) == {r \in Reqs : s.req[r].st = "wait"}

(* wakeup_all_requests(), wakeup_requests_on_oid(),                        *)
(* wakeup_requests_on_epoch().                                             *)
WakeupAll(s)     == Requeue(s, Sleepers(s))
WakeupOid(s, o)  == Requeue(s, {r \in Sleepers(s) : /\ s.req[r].oid = o
                                                    /\ s.req[r].local})
WakeupEpoch(s)   == Requeue(s, {r \in Sleepers(s) :
                                    s.req[r].result \in {"OLD", "NEW"}})
-----------------------------------------------------------------------------
(* The recovery machine.                                                   *)

(* queue_recovery_work(rinfo) in state RW_PREPARE_LIST.                    *)
QueueListWork(s) ==
  [s EXCEPT !.list = @ \cup {[rid |-> s.cur.id, epoch |-> s.cur.epoch,
                              ph |-> "queued", oids |-> {}, trunc |-> FALSE,
                              tail |-> {}]}]

(* Start recovering the objects in F: queue_recovery_work() in state       *)
(* RW_RECOVER_OBJ and next++, once for each.                               *)
QueueObjWorks(s, F) ==
  [s EXCEPT !.cur.todo = @ \ F,
            !.cur.flying = @ \cup F,
            !.row = @ \cup {[rid |-> s.cur.id, oid |-> o, ph |-> "queued"] :
                               o \in F}]

(* sd_store->update_epoch(), which a gateway does not call: objects that   *)
(* the epoch puts elsewhere move to the stale directory.                   *)
UpdateEpoch(s) ==
  IF s.epoch \in GatewayAt THEN s
  ELSE [s EXCEPT !.objs = @ \cap LocalAt[s.epoch]]

(* Variants: the takeover wakes nobody; does not wait for works in flight; *)
(* keeps the list and the counters of the recovery it supersedes.          *)
RunNextRw_NoWakeup(s) ==
  IF s.cur.flying # {} THEN s
  ELSE QueueListWork(UpdateEpoch([s EXCEPT !.cur = s.nxt, !.nxt = Null]))
RunNextRw_NoWait(s) ==
  QueueListWork(WakeupAll(UpdateEpoch([s EXCEPT !.cur = s.nxt, !.nxt = Null])))
RunNextRw_NoReset(s) ==
  IF s.cur.flying # {} THEN s
  ELSE QueueListWork(WakeupAll(UpdateEpoch(
         [s EXCEPT !.cur.id = s.nxt.id, !.cur.epoch = s.nxt.epoch,
                   !.nxt = Null])))

(* run_next_rw() where next_rinfo is not NULL: the next recovery takes     *)
(* over once no counted work is in flight.                                 *)
RunNextRw(s) ==
  IF s.cur.flying # {}
  THEN s
  ELSE QueueListWork(WakeupAll(UpdateEpoch(
         [s EXCEPT !.cur = [s.nxt EXCEPT !.notify = @ \/ s.cur.notify],
                   !.nxt = Null])))

(* recover_next_object().                                                  *)
RecoverNextObject(s) ==
  IF s.nxt # Null THEN RunNextRw(s)
  ELSE IF s.disabled THEN [s EXCEPT !.cur.suspended = TRUE]
  ELSE IF s.cur.todo = {} THEN s
  ELSE QueueObjWorks(s, {CHOOSE o \in s.cur.todo : TRUE})

(* Variant: the flag is cleared and nothing is started.                    *)
ResumeSuspended_FlagOnly(s) ==
  IF s.cur # Null /\ s.cur.suspended
  THEN [s EXCEPT !.cur.suspended = FALSE] ELSE s

(* resume_suspended_recovery().                                            *)
ResumeSuspended(s) ==
  IF s.cur # Null /\ s.cur.suspended
  THEN RecoverNextObject([s EXCEPT !.cur.suspended = FALSE])
  ELSE s

(* finish_recovery().                                                      *)
FinishRecovery(s) ==
  LET t == WakeupAll([s EXCEPT !.cur = Null]) IN
  IF s.cur.notify
  THEN [t EXCEPT !.announce = @ \cup {s.cur.epoch},
                 !.owed = {e \in @ : e > s.cur.epoch}]
  ELSE t

(* Variant: the epoch is read as if it were not raised yet.                *)
NewRinfo_Early(s, lifted) ==
  [id |-> starts + 1, state |-> "prepare", epoch |-> s.epoch + 1,
   notify |-> lifted, suspended |-> FALSE, throttling |-> s.throttling,
   cancel |-> FALSE, trunc |-> FALSE, done |-> {}, flying |-> {},
   todo |-> {}, tail |-> {}]

(* The recovery_info that start_recovery() allocates.                      *)
NewRinfo(s, lifted) ==
  [id |-> starts + 1, state |-> "prepare", epoch |-> s.epoch,
   notify |-> lifted, suspended |-> FALSE, throttling |-> s.throttling,
   cancel |-> FALSE, trunc |-> FALSE, done |-> {}, flying |-> {},
   todo |-> {}, tail |-> {}]

(* Variants: a suspended recovery is not resumed; the new recovery runs    *)
(* before the current one.                                                 *)
StartRecovery_NoResume(s, lifted) ==
  LET u == UpdateEpoch(s) IN
  WakeupEpoch(IF u.cur # Null THEN [u EXCEPT !.nxt = NewRinfo(s, lifted)]
              ELSE QueueListWork([u EXCEPT !.cur = NewRinfo(s, lifted)]))
StartRecovery_Swapped(s, lifted) ==
  LET u == UpdateEpoch(s) IN
  WakeupEpoch(QueueListWork([u EXCEPT !.cur = NewRinfo(s, lifted),
                                      !.nxt = u.cur]))

(* start_recovery(): lifted says whether the caller raised the epoch.      *)
StartRecovery(s, lifted) ==
  LET rinfo == NewRinfo(s, lifted)
      u == UpdateEpoch(s)
  IN  WakeupEpoch(IF u.cur # Null
                  THEN ResumeSuspended([u EXCEPT !.nxt = rinfo])
                  ELSE QueueListWork([u EXCEPT !.cur = rinfo]))

(* recover_object_main() for the object o, after its bookkeeping.          *)
ObjectRecovered(s, o) ==
  IF s.nxt # Null THEN RunNextRw(s)
  ELSE LET t == WakeupOid(s, o) IN
       IF t.cur.flying \cup t.cur.todo = {} THEN FinishRecovery(t)
       ELSE IF t.cur.throttling THEN t
       ELSE IF t.throttling THEN [t EXCEPT !.timers = @ + 1]
       ELSE RecoverNextObject(t)

(* The sets of objects that nr calls of recover_next_object() may start.   *)
FirstOf(T, nr) ==
  {F \in SUBSET T : Cardinality(F) = IF nr < Cardinality(T)
                                     THEN nr ELSE Cardinality(T)}
-----------------------------------------------------------------------------
(* Actions of the main thread.                                             *)

Alive == fault = "none"

(* sd_accept_handler(), sd_leave_handler(), sd_update_node_handler() and   *)
(* cluster_force_recover_main(): the epoch is raised and recovery starts.  *)
(* The third of them does so in a cluster that shuts down as well.         *)
LiftEpoch ==
  /\ Alive /\ epoch < MaxEpoch /\ starts < MaxStart
  /\ Become(StartRecovery([Now EXCEPT !.epoch = @ + 1,
                                      !.owed = @ \cup {epoch + 1}], TRUE))
  /\ starts' = starts + 1

(* md_do_recover(), cluster_alter_vdi_copy(): a disk is lost with some     *)
(* objects, and recovery starts at the same epoch.                         *)
KickRecover ==
  /\ Alive /\ MdRecovery /\ starts < MaxStart
  /\ \E lost \in SUBSET objs :
        Become(StartRecovery([Now EXCEPT !.objs = @ \ lost], FALSE))
  /\ starts' = starts + 1

(* cluster_disable_recover(), cluster_enable_recover().                    *)
DisableRecover ==
  /\ Alive /\ ~disabled
  /\ Become([Now EXCEPT !.disabled = TRUE])
  /\ UNCHANGED starts

EnableRecover ==
  /\ Alive /\ disabled
  /\ Become(ResumeSuspended([Now EXCEPT !.disabled = FALSE]))
  /\ UNCHANGED starts

(* cluster_shutdown(), and the end of the main loop, which comes once no   *)
(* request is outstanding.                                                 *)
ClusterShutdown ==
  /\ Alive /\ Shutdown /\ status = "OK"
  /\ Become([Now EXCEPT !.status = "SHUTDOWN"])
  /\ UNCHANGED starts

LeaveMainLoop ==
  /\ Alive /\ status = "SHUTDOWN"
  /\ \A r \in Reqs : req[r].st \notin {"wait", "work"}
  /\ Become(Broken(Now, "exit"))
  /\ UNCHANGED starts

(* set_recovery().                                                         *)
SetRecovery ==
  /\ Alive /\ Throttle
  /\ Become([Now EXCEPT !.throttling = ~@])
  /\ UNCHANGED starts

(* finish_object_list(): done callback of the list work w.                 *)
FinishObjectList(w) ==
  LET s == [Now EXCEPT !.list = @ \ {w}]
      t == [s EXCEPT !.cur.state = "recover", !.cur.todo = w.oids,
                     !.cur.trunc = w.trunc, !.cur.tail = w.tail]
  IN
  /\ Alive /\ w \in list /\ w.ph = "finished"
  /\ CASE cur = Null -> Become(Broken(s, "null"))
       [] cur # Null /\ cur.id # w.rid -> Become(Broken(s, "list"))
       [] cur # Null /\ cur.id = w.rid /\ cur.cancel ->
            Become(FinishRecovery(s))
       [] cur # Null /\ cur.id = w.rid /\ ~cur.cancel /\ nxt # Null ->
            Become(RunNextRw(t))
       [] OTHER ->
            IF w.oids = {} THEN Become(FinishRecovery(t))
            ELSE IF cur.throttling
            THEN Become([t EXCEPT !.timers = @ + NrThreads])
            ELSE IF disabled
            THEN Become([t EXCEPT !.cur.suspended = TRUE])
            ELSE \E F \in FirstOf(w.oids, NrThreads) :
                   Become(QueueObjWorks(t, F))
  /\ UNCHANGED starts

(* recover_object_main(): done callback of the counted work w.  The lookup *)
(* of the object in oids[done..next) is not checked for failure.           *)
RecoverObjectMain(w) ==
  LET s == [Now EXCEPT !.row = @ \ {w}] IN
  /\ Alive /\ w \in row /\ w.ph = "finished"
  /\ IF cur = Null \/ w.oid \notin cur.flying
     THEN Become(Broken(s, "null"))
     ELSE Become(ObjectRecovered([s EXCEPT !.cur.done = @ \cup {w.oid},
                                           !.cur.flying = @ \ {w.oid}], w.oid))
  /\ UNCHANGED starts

(* direct_recover_object_main().                                           *)
DirectRecoverObjectMain(d) ==
  /\ Alive /\ direct[d] > 0 /\ d.ph = "finished"
  /\ Become(WakeupOid([Now EXCEPT !.direct[d] = @ - 1], req[d.req].oid))
  /\ UNCHANGED starts
(* recover_next_object_delay(): the callback of a recovery timer.  n is    *)
(* how often it calls recover_next_object() before it rearms; a call that  *)
(* took over leaves a new rinfo in state prepare for the calls after it.   *)
UnitExec(c) ==
  IF ~c.throttling THEN {0}
  ELSE {MaxExec \div NrThreads} \cup
       IF MaxExec % NrThreads = 0 THEN {} ELSE {MaxExec \div NrThreads + 1}

Slots(c, n) == IF n < MaxExec + 1 - Cardinality(c.flying)
               THEN n ELSE MaxExec + 1 - Cardinality(c.flying)

TakesOver(s, n) == n > 0 /\ s.nxt # Null /\ s.cur.flying = {}

DelayLoop(s, n, F) ==
  IF n = 0 \/ Cardinality(s.cur.flying) > MaxExec THEN s
  ELSE IF TakesOver(s, n)
  THEN [RunNextRw(s) EXCEPT !.cur.suspended = s.disabled /\ n > 1]
  ELSE IF s.nxt # Null THEN s
  ELSE IF s.disabled THEN [s EXCEPT !.cur.suspended = TRUE]
  ELSE QueueObjWorks(s, F)

(* Variant: the timer is not armed again.                                  *)
Rearm_NoTimer(s) ==
  LET t == [s EXCEPT !.cur.throttling = s.throttling] IN
  IF s.throttling THEN t ELSE RecoverNextObject(t)

(* After the loop: the callback goes on with the rinfo of its last turn,   *)
(* which run_next_rw() has freed if it took over in that turn.             *)
Rearm(s) ==
  LET t == [s EXCEPT !.cur.throttling = s.throttling] IN
  IF s.throttling THEN [t EXCEPT !.timers = @ + 1] ELSE RecoverNextObject(t)

RecoverNextObjectDelay ==
  LET s == [Now EXCEPT !.timers = @ - 1] IN
  /\ Alive /\ timers > 0
  /\ \/ cur = Null /\ Become(s)
     \/ /\ cur # Null
        /\ \E n \in UnitExec(cur) :
             IF TakesOver(s, n) /\ n = 1
             THEN Become(Broken(DelayLoop(s, n, {}), "uaf"))
             ELSE \E F \in (IF Cardinality(cur.flying) > MaxExec THEN {{}}
                            ELSE FirstOf(cur.todo, Slots(cur, n))) :
                    Become(Rearm(DelayLoop(s, n, F)))
  /\ UNCHANGED starts

(* A request arrives at queue_request().                                   *)
Arrive(r) ==
  /\ Alive /\ req[r].st = "idle"
  /\ \E q \in Request :
       /\ q.st = "idle" /\ ~q.local /\ q.result = "none" /\ q.rpepoch = 1
       /\ q.kind = "gateway" => q.epoch = epoch /\ q.op # "recov"
       /\ Become(Requeue([Now EXCEPT !.req[r] = q], {r}))
  /\ UNCHANGED starts

(* A worker serves the request and io_op_done() or gateway_op_done()       *)
(* disposes of it: answered, asleep until the epoch that a peer reported,  *)
(* or queued again.  After an I/O error of this node's own disk they call  *)
(* leave_cluster() as well: LiftEpoch is where the event it sends arrives. *)
Answer(r) ==
  /\ Alive /\ req[r].st = "work"
  /\ Become([Now EXCEPT !.req[r] = [IdleRequest EXCEPT !.st = "gone",
                                                       !.oid = req[r].oid],
                        !.objs = IF req[r].op = "create" /\ req[r].local
                                 THEN @ \cup {req[r].oid} ELSE @])
  /\ UNCHANGED starts

OldNodeVer(r) ==
  /\ Alive /\ req[r].st = "work" /\ req[r].kind = "gateway"
  /\ \E e \in (req[r].epoch + 1)..MaxEpoch :
       LET s == [Now EXCEPT !.req[r].result = "OLD", !.req[r].rpepoch = e] IN
       Become(IF e > epoch THEN [s EXCEPT !.req[r].st = "wait"]
                           ELSE Requeue(s, {r}))
  /\ UNCHANGED starts

RetryGateway(r) ==
  /\ Alive /\ req[r].st = "work" /\ req[r].kind = "gateway"
  /\ Become(Requeue([Now EXCEPT !.req[r].result = "none"], {r}))
  /\ UNCHANGED starts
-----------------------------------------------------------------------------
(* Actions of the worker threads.                                          *)

(* prepare_object_list().  The list is a set of objects the epoch puts     *)
(* here: not all of them when a node cannot be asked, and cut short        *)
(* (trunc) when a next recovery is waiting.  A gateway lists nothing.      *)
PrepareObjectList(w) ==
  /\ Alive /\ w \in list /\ w.ph = "queued"
  /\ \/ \E L \in SUBSET LocalAt[w.epoch], g \in {{}} \cup {{o} : o \in Oids} :
          /\ epoch \in GatewayAt => L = {}
          /\ Become([Now EXCEPT !.list = (@ \ {w}) \cup
                       {[w EXCEPT !.ph = "finished", !.oids = L,
                                  !.trunc = nxt # Null, !.tail = g]}])
     \/ /\ AvoidDiskfull
        /\ IF cur # Null /\ cur.id = w.rid
           THEN Become([Now EXCEPT !.cur.cancel = TRUE,
                          !.list = (@ \ {w}) \cup {[w EXCEPT !.ph = "finished"]}])
           ELSE Become(Broken(Now, "uaf"))
  /\ UNCHANGED starts

(* recover_object_work() of object o for the recovery_info rid, in the     *)
(* state s in which the work is marked finished: the object is there, or   *)
(* it is rebuilt, or no replica can be read, at this attempt and at any    *)
(* other.  When the first replicas fail, rollback_vnode_info() reads and   *)
(* writes rinfo->vinfo_array.                                              *)
RecoverObjectWork(s, o, rid) ==
  \/ o \in objs /\ Become(s)
  \/ o \notin objs /\ Become([s EXCEPT !.objs = @ \cup {o}])
  \/ o \notin objs /\ Become(s)
  \/ o \notin objs /\ ~Allocated(Now, rid) /\ Become(Broken(s, "uaf"))

RecoverCounted(w) ==
  /\ Alive /\ w \in row /\ w.ph = "queued"
  /\ RecoverObjectWork([Now EXCEPT !.row = (@ \ {w}) \cup
                                    {[w EXCEPT !.ph = "finished"]}],
                       w.oid, w.rid)
  /\ UNCHANGED starts

RecoverDirect(d) ==
  /\ Alive /\ direct[d] > 0 /\ d.ph = "queued"
  /\ LET f == [d EXCEPT !.ph = "finished"] IN
     RecoverObjectWork([Now EXCEPT !.direct = [direct EXCEPT ![d] = @ - 1,
                                                             ![f] = @ + 1]],
                       req[d.req].oid, d.rid)
  /\ UNCHANGED starts

(* notify_recovery_completion_work().                                      *)
NotifyCompletion(e) ==
  /\ Alive /\ e \in announce
  /\ Become([Now EXCEPT !.announce = @ \ {e}])
  /\ UNCHANGED starts

-----------------------------------------------------------------------------
Init ==
  /\ epoch = 1 /\ status = "OK" /\ disabled = FALSE /\ throttling = FALSE
  /\ cur = Null /\ nxt = Null /\ starts = 0
  /\ list = {} /\ row = {} /\ direct = [d \in DirectWork |-> 0]
  /\ announce = {} /\ timers = 0
  /\ req = [r \in Reqs |-> IdleRequest]
  /\ objs = LocalAt[1] /\ fault = "none" /\ owed = {}

Callbacks ==
  \/ \E w \in list : FinishObjectList(w)
  \/ \E w \in row : RecoverObjectMain(w)
  \/ \E d \in DirectWork : DirectRecoverObjectMain(d)

MainThread == Callbacks \/ RecoverNextObjectDelay

Workers ==
  \/ \E w \in list : PrepareObjectList(w)
  \/ \E w \in row : RecoverCounted(w)
  \/ \E d \in DirectWork : RecoverDirect(d)
  \/ \E e \in Epochs : NotifyCompletion(e)

Requests ==
  \E r \in Reqs : Arrive(r) \/ Answer(r) \/ OldNodeVer(r) \/ RetryGateway(r)

Operator == LiftEpoch \/ KickRecover \/ DisableRecover \/ EnableRecover
            \/ SetRecovery \/ ClusterShutdown \/ LeaveMainLoop

Next == MainThread \/ Workers \/ Requests \/ Operator

Spec == Init /\ [][Next]_vars
-----------------------------------------------------------------------------
(* Safety.                                                                 *)

(* A request asleep until this sheep reaches the epoch of its sender (a    *)
(* peer request), or the epoch a peer reported (a gateway request).        *)
AwaitsEpoch(q) ==
  q.st = "wait" /\ IF q.kind = "peer" THEN q.epoch > epoch
                                      ELSE q.result = "OLD" /\ q.rpepoch > epoch

(* A request asleep until its object is recovered.                         *)
AwaitsObject(q) == q.st = "wait" /\ ~AwaitsEpoch(q)

DirectPending(o) == \E d \in DirectWork : direct[d] > 0 /\ req[d.req].oid = o

(* No request is left in sys->req_wait_queue without something that will   *)
(* call a wakeup function for it: a request that waits for an object has a *)
(* counted or a direct work under way for that object, or a next recovery  *)
(* is waiting to take over and wake every request (request.c:68-89).       *)
SleeperHasWaker ==
  Alive => \A r \in Reqs : AwaitsObject(req[r]) =>
    /\ req[r].local
    /\ \/ DirectPending(req[r].oid)
       \/ cur # Null /\ (nxt # Null \/ req[r].oid \in cur.flying)

(* Something will run the recovery machine again: a recovery in progress   *)
(* has a list work, a counted work or a timer under way, or is suspended   *)
(* with no successor; so a takeover that run_next_rw() put off always      *)
(* comes (recovery.c:785-817, 881-889, 1355-1374).                         *)
MachineIsDriven ==
  Alive /\ cur # Null =>
    \/ \E w \in list : w.rid = cur.id
    \/ \E w \in row : w.rid = cur.id
    \/ timers > 0
    \/ cur.suspended /\ nxt = Null

(* Callbacks find the recovery they were queued for: every list work and   *)
(* every counted work belongs to current_rinfo, and the counted works are  *)
(* exactly oids[done..next).  Otherwise recover_object_main() would        *)
(* dereference a failed lookup and finish_object_list() would install the  *)
(* list of another recovery ("some threads still running, wait for         *)
(* completion", recovery.c:793-796).                                       *)
WorksOfCurrent ==
  Alive =>
    /\ \A w \in list : cur # Null /\ w.rid = cur.id /\ cur.state = "prepare"
    /\ \A w \in row : cur # Null /\ w.rid = cur.id /\ w.oid \in cur.flying
    /\ cur # Null => \A o \in cur.flying : \E w \in row : w.oid = o

(* An object list that prepare_object_list() cut short because a next      *)
(* recovery was waiting is never recovered from as if it were complete:    *)
(* the next recovery is still there to take over (recovery.c:1301-1305).   *)
TruncatedListNotUsed ==
  Alive /\ cur # Null /\ cur.state = "recover" /\ cur.trunc => nxt # Null

(* When an epoch was lifted, this node still reports the completion of     *)
(* that epoch or a later one: "When md recovery supersedes the reweight or *)
(* node recovery, we need to notify completion" (recovery.c:799-803).      *)
CompletionStillOwed ==
  Alive => \A e \in owed :
    \/ cur # Null /\ cur.notify /\ cur.epoch >= e
    \/ nxt # Null /\ (nxt.notify \/ cur.notify) /\ nxt.epoch >= e

(* No thread uses a recovery_info that run_next_rw() or finish_recovery()  *)
(* has freed: "Some objects are still in recovery" is what run_next_rw()   *)
(* waits out before it frees the current one (recovery.c:793-805).         *)
NoUseAfterFree == fault # "uaf"

(* A recovery is only superseded by one that was started later             *)
(* ("skip the previous epoch recovery", recovery.c:1361).                  *)
SupersededByNewer ==
  [][cur # Null /\ cur' # Null => cur'.id >= cur.id]_vars
-----------------------------------------------------------------------------
(* Liveness.  Worker threads run, and the event loop serves every ready    *)
(* descriptor in a round, so neither a work, nor the callback of a         *)
(* finished one, nor an expired timer waits for ever, whatever works of    *)
(* another kind are queued meanwhile; nothing is assumed of the operator,  *)
(* the cluster's events or the requests.                                   *)
Fairness ==
  /\ WF_vars(\E w \in list : PrepareObjectList(w) \/ FinishObjectList(w))
  /\ WF_vars(\E w \in row : RecoverCounted(w) \/ RecoverObjectMain(w))
  /\ WF_vars(\E d \in DirectWork : RecoverDirect(d) \/ DirectRecoverObjectMain(d))
  /\ WF_vars(RecoverNextObjectDelay)

FairSpec == Spec /\ Fairness

(* A direct recovery that request r asked for ends without the object,     *)
(* while recovery is suspended.                                            *)
DirectFails(r) ==
  /\ cur # Null /\ cur.suspended
  /\ \E d \in DirectWork : /\ d.req = r /\ RecoverDirect(d)
                            /\ req[r].oid \notin objs'

(* A request that sleeps on an object is woken and served or answered      *)
(* ("wait for the finish of this oid recovery", request.c:80-89).  The one *)
(* exception: while the operator leaves recovery suspended, each failed    *)
(* direct recovery wakes the request, which finds its object missing still *)
(* and queues the next direct recovery (recovery.c:647-657, 703-747), so   *)
(* it sleeps as long as the attempts go on failing.                        *)
SleepersWake ==
  \A r \in Reqs :
    <>[](Alive /\ AwaitsObject(req[r])) => []<><<DirectFails(r)>>_vars

(* Recovery comes to an end, through any number of takeovers, unless the   *)
(* operator leaves it disabled (recovery.c:843-889).                       *)
RecoveryEnds == <>[]~disabled => []<>(cur = Null \/ ~Alive)

=============================================================================
