------------------------------ MODULE VdiLock ------------------------------
(***************************************************************************)
(* The lock of a VDI (sheep/vdi.c, the lock operations of sheep/ops.c, the *)
(* collection of cluster information in sheep/group.c).  Every sheep keeps *)
(* the lock state of every VDI in memory and applies the lock, release and *)
(* coherence operations in the order the cluster driver delivers them.  A  *)
(* sheep that joins fetches the state as it was when it was accepted, logs *)
(* the lock operations that arrive meanwhile and plays them afterwards.    *)
(*                                                                         *)
(* The model has one VDI, one client per sheep, and a client that releases *)
(* only what it holds and never while one of its writes is outstanding.    *)
(***************************************************************************)
EXTENDS Naturals, Sequences, FiniteSets
LOCAL INSTANCE SequencesExt

CONSTANTS
  Nodes,        \* sheep
  Founders,     \* the members when the model starts
  None,         \* no owner
  MaxParts,     \* SD_MAX_COPIES, the most participants of a shared lock
  MaxOps,       \* bound: lock, release and coherence operations
  MaxJoin,      \* bound: joins
  MaxLoss,      \* bound: sheep that crash or become gateways
  MaxLeave      \* bound: those of them that become gateways

ASSUME NodesAssumption ==
  IsFiniteSet(Nodes) /\ Founders \subseteq Nodes /\ Founders # {} /\ None \notin Nodes
ASSUME BoundsAssumption ==
  MaxParts \in Nat \ {0} /\ {MaxOps, MaxJoin, MaxLoss, MaxLeave} \subseteq Nat

VARIABLES
  events,       \* what the driver delivers, in order
  pos,          \* events each sheep has read
  me,           \* each sheep's memory
  client,       \* what the client of each sheep was told
  count         \* how often the bounded things have happened

vars == <<events, pos, me, client, count>>

Types == {"normal", "shared"}
LockStates == {"UNLOCKED", "LOCKED", "SHARED"}
SharedStates == {"MODIFIED", "SHARED", "INVALIDATED"}
Entry == [state : LockStates, owner : Nodes \cup {None},
          part : [Nodes -> SharedStates \cup {"none"}]]
Event == [type : {"LOCK", "UNLOCK", "COHERE", "ACCEPT", "LEAVE"}, node : Nodes,
          arg : Types \cup {"validate", "invalidate", "none"},
          members : SUBSET Nodes]
Bounds == [op |-> MaxOps, join |-> MaxJoin, crash |-> MaxLoss, leave |-> MaxLeave]

NoPart == [n \in Nodes |-> "none"]
Unlocked == [state |-> "UNLOCKED", owner |-> None, part |-> NoPart]

(* status is sys->node_status, "out" before the accept and after the end   *)
(* of the process; known: the VDI has an entry in vdi_state_root; log is   *)
(* logged_vdi_ops; ckpt the checkpoints by epoch; failed the assertion or  *)
(* panic that ended the process.  sound (in the sheep and in a checkpoint) *)
(* is history: nothing happened between the accept and the end of the      *)
(* collection that the collection does not carry over.                     *)
Start == [status |-> "out", known |-> FALSE, entry |-> Unlocked, log |-> <<>>,
          ckpt |-> <<>>, epoch |-> 0, members |-> {}, failed |-> "no",
          sound |-> TRUE]
Failures == {"no", "coherence", "participant", "free", "collect"}

(* ... and the participants of a VDI are there exactly while its lock is   *)
(* shared (vdi.c:560-648).                                                 *)
TypeOK ==
  /\ events \in Seq(Event)
  /\ pos \in [Nodes -> 0..Len(events)]
  /\ client \in [Nodes -> {"idle", "locking", "releasing", "writing"} \cup Types]
  /\ \A b \in DOMAIN Bounds : count[b] \in 0..Bounds[b]
  /\ \A n \in Nodes :
       /\ me[n].status \in {"out", "joining", "COLLECTING", "OK"}
       /\ me[n].entry \in Entry
       /\ me[n].failed \in Failures
       /\ me[n].members \subseteq Nodes
       /\ (me[n].entry.part # NoPart) <=> (me[n].entry.state = "SHARED")

Counted(what) ==
  /\ count[what] < Bounds[what]
  /\ count' = [count EXCEPT ![what] = @ + 1]

----------------------------------------------------------------------------
(* The driver: who has been accepted and has not left, the epoch after the *)
(* first i events, and a new event.                                        *)
MembersNow == IF events = <<>> THEN Founders ELSE events[Len(events)].members
EpochAt(i) == Cardinality({j \in 1..i : events[j].type \in {"ACCEPT", "LEAVE"}})
Running(n) == me[n].status # "out"

Event1(type, n, arg, members) ==
  [type |-> type, node |-> n, arg |-> arg, members |-> members]
Push(type, n, arg, members) ==
  events' = Append(events, Event1(type, n, arg, members))

----------------------------------------------------------------------------
(* The lock state of the VDI.  is_modified() panics with two owners.       *)
Participants(e) == {n \in Nodes : e.part[n] # "none"}
Owners(e) == {n \in Nodes : e.part[n] = "MODIFIED"}

(* add_new_participant(): the entry, and whether the lock is granted.      *)
AddParticipant(e, n) ==
  IF e.state = "UNLOCKED"
  THEN [ok |-> TRUE, entry |-> [e EXCEPT !.state = "SHARED",
                                         !.part[n] = "MODIFIED"]]
  ELSE IF Cardinality(Participants(e)) = MaxParts \/ n \in Participants(e)
  THEN [ok |-> FALSE, entry |-> e]
  ELSE [ok |-> TRUE,
        entry |-> [e EXCEPT !.part[n] = IF Owners(e) # {} THEN "INVALIDATED"
                                        ELSE "SHARED"]]

(* del_participant().                                                      *)
DelParticipant_KeepState(e, n) == [e EXCEPT !.part[n] = "none"]
DelParticipant(e, n) ==
  IF n \notin Participants(e) THEN e
  ELSE [e EXCEPT !.part[n] = "none",
                 !.state = IF Participants(e) = {n} THEN "UNLOCKED" ELSE @]

(* vdi_lock().                                                             *)
VdiLock_Again(e, n, type) ==
  CASE type = "normal" /\ e.state # "SHARED" ->
         [ok |-> TRUE, entry |-> [e EXCEPT !.state = "LOCKED", !.owner = n]]
    [] type = "shared" /\ e.state # "LOCKED" -> AddParticipant(e, n)
    [] OTHER -> [ok |-> FALSE, entry |-> e]
VdiLock(e, n, type) ==
  CASE type = "normal" /\ e.state = "UNLOCKED" ->
         [ok |-> TRUE, entry |-> [e EXCEPT !.state = "LOCKED", !.owner = n]]
    [] type = "shared" /\ e.state # "LOCKED" -> AddParticipant(e, n)
    [] OTHER -> [ok |-> FALSE, entry |-> e]

(* vdi_unlock(): nobody asks who holds a normal lock.                      *)
VdiUnlock_All(e, n, type) ==
  IF e.state = "UNLOCKED" THEN e ELSE Unlocked
VdiUnlock(e, n, type) ==
  CASE type = "normal" /\ e.state = "LOCKED" ->
         [e EXCEPT !.state = "UNLOCKED", !.owner = None]
    [] type = "shared" /\ e.state = "SHARED" -> DelParticipant(e, n)
    [] OTHER -> e

(* inode_coherence_update() on a shared lock.                              *)
Coherence_Both(e, n, what) ==
  [e EXCEPT !.part = [m \in Nodes |->
     IF e.part[m] = "none" THEN "none"
     ELSE IF what = "validate"
     THEN IF m # n /\ e.part[m] = "INVALIDATED" THEN "INVALIDATED" ELSE "SHARED"
     ELSE IF m = n THEN "MODIFIED" ELSE e.part[m]]]
Coherence(e, n, what) ==
  [e EXCEPT !.part = [m \in Nodes |->
     IF e.part[m] = "none" THEN "none"
     ELSE IF what = "validate"
     THEN IF m # n /\ e.part[m] = "INVALIDATED" THEN "INVALIDATED" ELSE "SHARED"
     ELSE IF m = n THEN "MODIFIED" ELSE "INVALIDATED"]]

(* play_logged_vdi_ops(): apply_vdi_lock_state() for a normal lock,        *)
(* apply_vdi_lock_state_shared() for a shared one.  Nothing asks whether   *)
(* the operation was granted; a participant for a normal lock fails the    *)
(* assertion of add_new_participant().                                     *)
Play(s, op) ==
  CASE ~s.ok -> s
    [] op.arg = "normal" ->
         [s EXCEPT !.entry =
            [state |-> IF op.type = "LOCK" THEN "LOCKED" ELSE "UNLOCKED",
             owner |-> op.node, part |-> NoPart]]
    [] op.arg = "shared" /\ op.type = "UNLOCK" ->
         [s EXCEPT !.entry = DelParticipant(@, op.node)]
    [] op.arg = "shared" /\ op.type = "LOCK" /\ s.entry.state = "LOCKED" ->
         [s EXCEPT !.ok = FALSE]
    [] OTHER -> [s EXCEPT !.entry = AddParticipant(@, op.node).entry]
PlayLogged(e, log) == FoldLeft(Play, [ok |-> TRUE, entry |-> e], log)

----------------------------------------------------------------------------
(* Clients.  cluster_lock_vdi_work() refuses while the sheep of the client *)
(* is collecting.                                                          *)
AskLock(n, type) ==
  /\ me[n].status = "OK" /\ client[n] = "idle"
  /\ Counted("op")
  /\ Push("LOCK", n, type, MembersNow)
  /\ client' = [client EXCEPT ![n] = "locking"]
  /\ UNCHANGED <<pos, me>>

AskRelease(n) ==
  /\ Running(n) /\ client[n] \in Types
  /\ Counted("op")
  /\ Push("UNLOCK", n, client[n], MembersNow)
  /\ client' = [client EXCEPT ![n] = "releasing"]
  /\ UNCHANGED <<pos, me>>

(* A worker serves a write that updates the inode: invalidate_other_nodes()*)
(* reads the entry, unlocks it and sends the operation, unless this sheep  *)
(* is the owner already.  An invalidated participant sends it too: what    *)
(* is_refresh_required() told gateway_write_obj() may be stale, and it is  *)
(* asked for the requests of a target only.                                *)
AskInvalidate(n) ==
  /\ me[n].status = "OK" /\ client[n] = "shared"
  /\ me[n].entry.state = "SHARED" /\ me[n].entry.part[n] \notin {"none", "MODIFIED"}
  /\ Counted("op")
  /\ Push("COHERE", n, "invalidate", MembersNow)
  /\ client' = [client EXCEPT ![n] = "writing"]
  /\ UNCHANGED <<pos, me>>

(* A worker has read the inode for a refresh: validate_myself().           *)
AskValidate(n) ==
  /\ me[n].status = "OK" /\ client[n] = "shared"
  /\ me[n].entry.state = "SHARED" /\ me[n].entry.part[n] = "INVALIDATED"
  /\ Counted("op")
  /\ Push("COHERE", n, "validate", MembersNow)
  /\ client' = [client EXCEPT ![n] = "writing"]
  /\ UNCHANGED <<pos, me>>

----------------------------------------------------------------------------
(* The main thread of sheep n takes the next event.                        *)
Next1(n) == events[pos[n] + 1]
Takes(n, type) ==
  /\ Running(n) /\ pos[n] < Len(events)
  /\ Next1(n).type = type
  /\ pos' = [pos EXCEPT ![n] = @ + 1]

Logged(s, ev) == [s EXCEPT !.log = Append(@, ev), !.sound = FALSE]
Dies(s, why) == [s EXCEPT !.status = "out", !.failed = why]

(* sd_notify_handler() with cluster_lock_vdi_main(); the sheep of the      *)
(* client answers it with its own result.                                  *)
Lock(n) ==
  LET ev == Next1(n)
      r == IF me[n].known THEN VdiLock(me[n].entry, ev.node, ev.arg)
           ELSE [ok |-> FALSE, entry |-> me[n].entry]
  IN
  /\ Takes(n, "LOCK")
  /\ IF me[n].status = "COLLECTING"
     THEN /\ me' = [me EXCEPT ![n] = Logged(@, ev)]
          /\ UNCHANGED client
     ELSE /\ me' = [me EXCEPT ![n].entry = r.entry]
          /\ client' = IF ev.node = n
                       THEN [client EXCEPT ![n] = IF r.ok THEN ev.arg ELSE "idle"]
                       ELSE client
  /\ UNCHANGED <<events, count>>

(* cluster_release_vdi_main().                                             *)
Release(n) ==
  LET ev == Next1(n) IN
  /\ Takes(n, "UNLOCK")
  /\ me' = [me EXCEPT ![n] =
              IF @.status = "COLLECTING" THEN Logged(@, ev)
              ELSE [@ EXCEPT !.entry = VdiUnlock(@, ev.node, ev.arg)]]
  /\ client' = IF ev.node = n THEN [client EXCEPT ![n] = "idle"] ELSE client
  /\ UNCHANGED <<events, count>>

(* cluster_inode_coherence(): a sheep without an entry answers NO_VDI, one *)
(* whose entry is not shared fails the assertion, collecting or not.       *)
Cohere(n) ==
  LET ev == Next1(n) IN
  /\ Takes(n, "COHERE")
  /\ me' = [me EXCEPT ![n] =
              IF ~@.known THEN [@ EXCEPT !.sound = FALSE]
              ELSE IF @.entry.state # "SHARED" THEN Dies(@, "coherence")
              ELSE [@ EXCEPT !.entry = Coherence(@, ev.node, ev.arg)]]
  /\ client' = [client EXCEPT ![n] = IF me'[n].status = "out" THEN "idle"
                                     ELSE IF ev.node = n THEN "shared" ELSE @]
  /\ UNCHANGED <<events, count>>

(* remove_node_from_participants(), at the end of sd_leave_handler().      *)
Leave(n) ==
  LET ev == Next1(n) IN
  /\ Takes(n, "LEAVE")
  /\ me' = [me EXCEPT ![n] = [@ EXCEPT
              !.entry = DelParticipant(@, ev.node),
              !.sound = @ /\ me[n].status = "OK"]]
  /\ UNCHANGED <<events, client, count>>

----------------------------------------------------------------------------
(* Joining.  update_cluster_info(): the members take a checkpoint under    *)
(* the number of the old epoch, the new sheep starts to collect.           *)
Checkpoint(s, e) ==
  [s EXCEPT !.ckpt = [f \in DOMAIN @ \cup {e} |->
     IF f \in DOMAIN @ THEN @[f]
     ELSE [known |-> s.known, entry |-> s.entry,
           sound |-> s.sound /\ s.status = "OK"]]]
StartCollection(s, e, members) ==
  [s EXCEPT !.status = "COLLECTING", !.epoch = e, !.members = members]
Accept(n) ==
  LET ev == Next1(n) IN
  /\ Takes(n, "ACCEPT")
  /\ me' = [me EXCEPT ![n] = IF ev.node = n
                             THEN StartCollection(@, EpochAt(pos[n]), ev.members)
                             ELSE Checkpoint(@, EpochAt(pos[n]))]
  /\ UNCHANGED <<events, client, count>>

Others(n) == me[n].members \ {n}

(* do_get_vdis(), get_vdis_done(): every member must answer; without any   *)
(* VDI there is nothing to collect.                                        *)
GetVdis(n) ==
  /\ me[n].status = "COLLECTING" /\ ~me[n].known
  /\ me' = [me EXCEPT ![n] =
              CASE \E m \in Others(n) : ~Running(m) -> Dies(@, "collect")
                [] \E m \in Others(n) : me[m].known -> [@ EXCEPT !.known = TRUE]
                [] OTHER -> [@ EXCEPT !.status = "OK", !.sound = FALSE]]
  /\ UNCHANGED <<events, pos, client, count>>

(* get_vdi_state_checkpoint(): the members that have the checkpoint, and   *)
(* among them those that have the VDI in it.                               *)
Prepared(n) == {m \in Others(n) : Running(m) /\ me[n].epoch \in DOMAIN me[m].ckpt}
Answering(n) == {m \in Prepared(n) : me[m].ckpt[me[n].epoch].known}

(* free_cinfo(), free_vdi_state_checkpoint(): a member that has not taken  *)
(* the checkpoint yet panics.                                              *)
Freed(s, e) ==
  IF e \notin DOMAIN s.ckpt THEN Dies(s, "free")
  ELSE [s EXCEPT !.ckpt = [f \in DOMAIN @ \ {e} |-> @[f]]]

(* cinfo_collection_done() with the entry got from a checkpoint.           *)
Finished_Skip(n, s, entry, sound) ==
  /\ me' = [m \in Nodes |->
              IF m = n THEN [s EXCEPT !.status = "OK", !.members = {},
                                      !.sound = @ /\ sound]
              ELSE IF m \in Others(n) /\ Running(m) THEN Freed(me[m], s.epoch)
              ELSE me[m]]
  /\ client' = [m \in Nodes |-> IF me'[m].status = "out" THEN "idle" ELSE client[m]]
Finished(n, s, entry, sound) ==
  LET r == PlayLogged(entry, s.log)
      done == [s EXCEPT !.entry = r.entry, !.status = "OK", !.members = {},
                        !.sound = @ /\ sound]
      mine == IF r.ok THEN done ELSE Dies(s, "participant")
  IN
  /\ me' = [m \in Nodes |->
              IF m = n THEN mine
              ELSE IF m \in Others(n) /\ Running(m) THEN Freed(me[m], s.epoch)
              ELSE me[m]]
  /\ client' = [m \in Nodes |-> IF me'[m].status = "out" THEN "idle" ELSE client[m]]

(* cinfo_collection_work() and its done callback: the first checkpoint     *)
(* that has the VDI; without one in any member the state the VDI has here, *)
(* provided the inode object is in the own store; else panic.              *)
Collect(n) ==
  LET s == me[n] IN
  /\ s.status = "COLLECTING" /\ s.known
  /\ \/ \E m \in Answering(n) :
          LET c == me[m].ckpt[s.epoch] IN Finished(n, s, c.entry, c.sound)
     \/ /\ Answering(n) = {} /\ Prepared(n) = Others(n)
        /\ Finished(n, s, s.entry, FALSE)
     \/ /\ Answering(n) = {}
        /\ me' = [me EXCEPT ![n] = Dies(@, "collect")]
        /\ UNCHANGED client
  /\ UNCHANGED <<events, pos, count>>

----------------------------------------------------------------------------
(* A sheep (re)starts and is accepted by the members.                      *)
Join(n) ==
  /\ ~Running(n) /\ n \notin MembersNow
  /\ \E m \in MembersNow : Running(m)
  /\ Counted("join")
  /\ Push("ACCEPT", n, "none", MembersNow \cup {n})
  /\ me' = [me EXCEPT ![n] = [Start EXCEPT !.status = "joining"]]
  /\ pos' = [pos EXCEPT ![n] = Len(events)]
  /\ UNCHANGED client

(* A sheep ends, with its client's connection.                             *)
Crash(n) ==
  /\ Running(n) /\ Counted("crash") /\ count.crash + count.leave < MaxLoss
  /\ me' = [me EXCEPT ![n].status = "out"]
  /\ client' = [client EXCEPT ![n] = "idle"]
  /\ UNCHANGED <<events, pos>>

(* The driver notices.                                                     *)
Detect(n) ==
  /\ ~Running(n) /\ n \in MembersNow
  /\ Push("LEAVE", n, "none", MembersNow \ {n})
  /\ UNCHANGED <<pos, me, client, count>>

(* leave_cluster(), when the last disk of n has failed: n stays up as a    *)
(* gateway and serves its client.                                          *)
LeaveCluster(n) ==
  /\ Running(n) /\ n \in MembersNow /\ MembersNow # {n}
  /\ Counted("leave") /\ count.crash + count.leave < MaxLoss
  /\ Push("LEAVE", n, "none", MembersNow \ {n})
  /\ UNCHANGED <<pos, me, client>>

----------------------------------------------------------------------------
Init ==
  /\ events = <<>>
  /\ pos = [n \in Nodes |-> 0]
  /\ me = [n \in Nodes |-> IF n \in Founders
                           THEN [Start EXCEPT !.status = "OK", !.known = TRUE]
                           ELSE Start]
  /\ client = [n \in Nodes |-> "idle"]
  /\ count = [b \in DOMAIN Bounds |-> 0]

Next ==
  \E n \in Nodes :
    \/ \E type \in Types : AskLock(n, type)
    \/ AskRelease(n) \/ AskInvalidate(n) \/ AskValidate(n)
    \/ Lock(n) \/ Release(n) \/ Cohere(n) \/ Leave(n) \/ Accept(n)
    \/ GetVdis(n) \/ Collect(n)
    \/ Join(n) \/ Crash(n) \/ Detect(n) \/ LeaveCluster(n)

Spec == Init /\ [][Next]_vars

----------------------------------------------------------------------------
(* While a client was told that it has the normal lock, no other client    *)
(* was told that it has a lock on the VDI (vdi_lock(); the guarantee that  *)
(* ops.c:39-43 gives for cluster operations).                              *)
Excludes(m, n) ==
  client[m] = "normal" => client[n] \notin {"normal", "shared", "writing"}
Exclusive == \A m, n \in Nodes : m # n => Excludes(m, n)

(* It is so among the members, joined or not, whose collection missed      *)
(* nothing.  A member that has turned gateway is no longer a participant   *)
(* anywhere (vdi.c:1061-1071), and its client is not told.                 *)
MembersExclude ==
  \A m, n \in MembersNow : m # n /\ me[m].sound /\ me[n].sound => Excludes(m, n)

(* A shared VDI has at most one owner: only one participant may have       *)
(* changed the inode since the others read it (is_valid_shared_state()).   *)
OneOwner == \A n \in Nodes : Cardinality(Owners(me[n].entry)) <= 1

(* A client that holds a shared lock is a participant on every sheep that  *)
(* has read its lock operation: nobody forgets it while its sheep is a     *)
(* member (vdi.c:634-647, 1061-1071).                                      *)
HolderIsKnown ==
  \A n, m \in Nodes :
    /\ client[n] \in {"shared", "writing"} /\ n \in MembersNow
    /\ me[m].status = "OK" /\ me[m].sound /\ me[n].sound /\ pos[m] >= pos[n]
    => me[m].entry.state = "SHARED" /\ n \in Participants(me[m].entry)

(* Two members that have read the same events have the same lock state,    *)
(* the ones that joined and saw no lock event while they collected         *)
(* included (the checkpoint of group.c:945-963 is taken at the right       *)
(* moment on every member).                                                *)
LocksAgree ==
  \A m, n \in Nodes :
    /\ me[m].status = "OK" /\ me[n].status = "OK" /\ pos[m] = pos[n]
    /\ me[m].sound /\ me[n].sound
    => me[m].entry = me[n].entry

(* "sd_assert(entry->lock_state == LOCK_STATE_SHARED)" (vdi.c:1022): when  *)
(* the coherence operation that a worker sent comes round, the lock is     *)
(* still shared, as it was when the worker read it (vdi.c:967-986).        *)
StillShared == \A n \in Nodes : me[n].failed # "coherence"
============================================================================
