----------------------------- MODULE Membership -----------------------------
(***************************************************************************)
(* Cluster membership and the epoch history (sheep/group.c, the cluster    *)
(* operations of sheep/ops.c that change the epoch, the epoch log of       *)
(* sheep/store/common.c).  The cluster driver gives all sheep the same     *)
(* sequence of events; each sheep reads it at its own pace, keeps cinfo in *)
(* memory and logs the member list of every epoch on its disk.  After the  *)
(* whole cluster was down the sheep come back one by one and wait until    *)
(* the members of the latest epoch are gathered.                           *)
(***************************************************************************)
EXTENDS Naturals, Sequences, FiniteSets

CONSTANTS
  Nodes,        \* sheep
  Founders,     \* those that have been formatted when the model starts
  Gateways,     \* those that have no disks
  MaxEpoch,     \* bound: epochs
  MaxDown,      \* bound: sheep that die having read all that was delivered
  MaxFault,     \* bound: sheep that die otherwise, or fail to format
  MaxUp,        \* bound: starts
  MaxOps        \* bound: dog cluster format, recover force and shutdown

ASSUME NodesAssumption == /\ IsFiniteSet(Nodes) /\ Gateways \subseteq Nodes
                          /\ Founders \subseteq Nodes /\ Founders # {}
ASSUME BoundsAssumption ==
  MaxEpoch \in Nat \ {0} /\ {MaxDown, MaxFault, MaxUp, MaxOps} \subseteq Nat

VARIABLES
  events,       \* what the driver delivers, in order
  proc,         \* each sheep's state in the driver
  pos,          \* events each sheep has read
  cinfo,        \* sys->cinfo
  view,         \* the nodes of current_vnode_info
  disk,         \* the epoch log and the ctime of the configuration file
  count         \* how often the bounded things have happened

vars == <<events, proc, pos, cinfo, view, disk, count>>

Epochs == 0..MaxEpoch
Ctimes == 0..MaxOps + 1
Status == {"WAIT", "OK", "SHUTDOWN"}
Cinfo == [epoch : Epochs, nodes : SUBSET Nodes, status : Status, ctime : Ctimes]
Event == [type : {"JOIN", "ACCEPT", "LEAVE", "FORMAT", "FORCE", "SHUTDOWN"},
          node : Nodes, root : SUBSET Nodes, cinfo : Cinfo]
Disk == [log : UNION {[E -> SUBSET Nodes] : E \in SUBSET (1..MaxEpoch)},
         ctime : Ctimes]
Bounds == [down |-> MaxDown, fault |-> MaxFault, up |-> MaxUp, op |-> MaxOps]

NoCinfo == [epoch |-> 0, nodes |-> {}, status |-> "WAIT", ctime |-> 0]

(* Nobody has forced the cluster to start without members of its latest    *)
(* epoch, and every sheep that went down had handled what was delivered to *)
(* it and had formatted its store when it was told to.                     *)
Orderly == count.fault = 0 /\ \A i \in 1..Len(events) : events[i].type # "FORCE"

(* ... and in an orderly cluster a sheep's node list is the one its log    *)
(* gives for its epoch (group.c:604-621).                                  *)
TypeOK ==
  /\ events \in Seq(Event)
  /\ proc \in [Nodes -> {"off", "joining", "member"}]
  /\ pos \in [Nodes -> 0..Len(events)]
  /\ cinfo \in [Nodes -> Cinfo]
  /\ view \in [Nodes -> SUBSET Nodes]
  /\ disk \in [Nodes -> Disk]
  /\ \A b \in DOMAIN Bounds : count[b] \in 0..Bounds[b]
  /\ \A p \in Nodes :
       Orderly /\ proc[p] = "member" /\ cinfo[p].epoch \in DOMAIN disk[p].log
         => disk[p].log[cinfo[p].epoch] = cinfo[p].nodes

Counted(what) ==
  /\ count[what] < Bounds[what]
  /\ count' = [count EXCEPT ![what] = @ + 1]

----------------------------------------------------------------------------
(* The driver: the member list after the last event, and a new event.      *)
Current == IF events = <<>> THEN {} ELSE events[Len(events)].root

Push(type, n, root, c) ==
  events' = Append(events, [type |-> type, node |-> n, root |-> root, cinfo |-> c])

NextEvent(n) == events[pos[n] + 1]
Reads(n, type) ==
  /\ proc[n] # "off" /\ pos[n] < Len(events)
  /\ NextEvent(n).type = type

----------------------------------------------------------------------------
(* get_latest_epoch(), epoch_log_read().                                   *)
LatestEpoch(d) ==
  IF DOMAIN d.log = {} THEN 0
  ELSE CHOOSE e \in DOMAIN d.log : \A f \in DOMAIN d.log : f <= e

(* update_epoch_log(): the file of the epoch is replaced atomically.       *)
UpdateEpochLog(d, e, nodes) ==
  [d EXCEPT !.log = [f \in DOMAIN d.log \cup {e} |->
                       IF f = e THEN nodes ELSE d.log[f]]]

(* inc_and_log_epoch() with the members in v.                              *)
IncEpoch_KeepNodes(c, v) == [c EXCEPT !.epoch = @ + 1]
IncEpoch(c, v) == [c EXCEPT !.epoch = @ + 1, !.nodes = v]
LogEpoch_Same(d, c, v) == UpdateEpochLog(d, c.epoch, v)
LogEpoch(d, c, v) == UpdateEpochLog(d, c.epoch + 1, v)

(* set_cluster_config() where the configuration file has no ctime yet.     *)
SetConfig(d, c) == IF d.ctime = 0 THEN [d EXCEPT !.ctime = c.ctime] ELSE d

(* cluster_ctime_check().                                                  *)
CtimeCheck(c, mine) == c.epoch = 0 \/ mine.epoch = 0 \/ c.ctime = mine.ctime

(* enough_nodes_gathered().                                                *)
EnoughNodesGathered_Any(c, joining, root) == c.nodes \cap (root \cup {joining}) # {}
EnoughNodesGathered(c, joining, root) == c.nodes \subseteq root \cup {joining}

(* cluster_wait_check(): the larger epoch wins; the cluster goes live when *)
(* the members of that epoch are there.                                    *)
Adopted_KeepMine(mine, c) == mine
Adopted(mine, c) == IF c.epoch > mine.epoch
                    THEN [c EXCEPT !.status = "WAIT"] ELSE mine
WaitCheck(mine, c, joining, root) ==
  IF ~CtimeCheck(c, mine) THEN mine
  ELSE LET a == Adopted(mine, c) IN
       IF a.epoch > 0 /\ EnoughNodesGathered(a, joining, root)
       THEN [a EXCEPT !.status = "OK"] ELSE a

(* sd_join_handler(): the cinfo that is sent with the accept.              *)
JoinReply(mine, c, joining, root) ==
  IF mine.status = "WAIT" THEN WaitCheck(mine, c, joining, root) ELSE mine

----------------------------------------------------------------------------
(* create_cluster(): read the epoch log and ask to join.  Events are read  *)
(* from the own JOIN on.                                                   *)
Start(n) ==
  LET e == LatestEpoch(disk[n])
      c == [epoch |-> e, nodes |-> IF e = 0 THEN {} ELSE disk[n].log[e],
            status |-> "WAIT", ctime |-> disk[n].ctime]
  IN
  /\ proc[n] = "off" /\ n \notin Current
  /\ Counted("up")
  /\ Push("JOIN", n, Current \cup {n}, c)
  /\ proc' = [proc EXCEPT ![n] = "joining"]
  /\ pos' = [pos EXCEPT ![n] = Len(events)]
  /\ cinfo' = [cinfo EXCEPT ![n] = c]
  /\ view' = [view EXCEPT ![n] = {}]
  /\ UNCHANGED disk

(* sd_join_handler() at the first member to read the event: the driver     *)
(* turns it into an ACCEPT.  A sheep that is alone accepts itself.  While  *)
(* it waits, a member takes over the larger epoch into its own cinfo.      *)
Join(p) ==
  LET e == NextEvent(p)
      c == JoinReply(cinfo[p], e.cinfo, e.node, e.root \ {e.node})
  IN
  /\ Reads(p, "JOIN")
  /\ e.root = {e.node} \/ e.node # p
  /\ events' = [events EXCEPT ![pos[p] + 1].type = "ACCEPT",
                              ![pos[p] + 1].cinfo = c]
  /\ cinfo' = [cinfo EXCEPT ![p] = [c EXCEPT !.status = cinfo[p].status]]
  /\ UNCHANGED <<proc, pos, view, disk, count>>

(* membership_changed().                                                   *)
MembershipChanged(c, root) == Cardinality(root) # Cardinality(c.nodes)

Accept_KeepOwn(p) ==
  LET e == NextEvent(p)
      c == IF e.node = p THEN e.cinfo
           ELSE [cinfo[p] EXCEPT !.status = e.cinfo.status]
      inc == c.status = "OK" /\ MembershipChanged(c, e.root)
      d == IF c.status = "OK" THEN SetConfig(disk[p], c) ELSE disk[p]
  IN
  /\ Reads(p, "ACCEPT")
  /\ inc => c.epoch < MaxEpoch
  /\ pos' = [pos EXCEPT ![p] = @ + 1]
  /\ IF e.node = p /\ ~CtimeCheck(c, cinfo[p])
     THEN /\ proc' = [proc EXCEPT ![p] = "off"]
          /\ UNCHANGED <<cinfo, view, disk>>
     ELSE /\ proc' = [proc EXCEPT ![p] = "member"]
          /\ cinfo' = [cinfo EXCEPT ![p] = IF inc THEN IncEpoch(c, e.root) ELSE c]
          /\ view' = [view EXCEPT ![p] = IF c.status = "SHUTDOWN" THEN @ ELSE e.root]
          /\ disk' = [disk EXCEPT ![p] = IF inc THEN LogEpoch(d, c, e.root) ELSE d]
  /\ UNCHANGED <<events, count>>

(* sd_accept_handler() and update_cluster_info().  The joining sheep exits *)
(* if it belongs to another cluster.                                       *)
Accept(p) ==
  LET e == NextEvent(p)
      c == e.cinfo
      inc == c.status = "OK" /\ MembershipChanged(c, e.root)
      d == IF c.status = "OK" THEN SetConfig(disk[p], c) ELSE disk[p]
  IN
  /\ Reads(p, "ACCEPT")
  /\ inc => c.epoch < MaxEpoch
  /\ pos' = [pos EXCEPT ![p] = @ + 1]
  /\ IF e.node = p /\ ~CtimeCheck(c, cinfo[p])
     THEN /\ proc' = [proc EXCEPT ![p] = "off"]
          /\ UNCHANGED <<cinfo, view, disk>>
     ELSE /\ proc' = [proc EXCEPT ![p] = "member"]
          /\ cinfo' = [cinfo EXCEPT ![p] = IF inc THEN IncEpoch(c, e.root) ELSE c]
          /\ view' = [view EXCEPT ![p] = IF c.status = "SHUTDOWN" THEN @ ELSE e.root]
          /\ disk' = [disk EXCEPT ![p] = IF inc THEN LogEpoch(d, c, e.root) ELSE d]
  /\ UNCHANGED <<events, count>>

(* sd_leave_handler().  When only gateways are left of a running cluster   *)
(* they exit.                                                              *)
Leave(p) ==
  LET e == NextEvent(p)
      c == cinfo[p]
  IN
  /\ Reads(p, "LEAVE")
  /\ pos' = [pos EXCEPT ![p] = @ + 1]
  /\ view' = [view EXCEPT ![p] = IF c.status = "SHUTDOWN" THEN @ ELSE e.root]
  /\ CASE c.status = "OK" /\ e.root \subseteq Gateways ->
            /\ proc' = [proc EXCEPT ![p] = "off"]
            /\ UNCHANGED <<cinfo, disk>>
       [] c.status = "OK" /\ ~(e.root \subseteq Gateways) ->
            /\ c.epoch < MaxEpoch
            /\ cinfo' = [cinfo EXCEPT ![p] = IncEpoch(c, e.root)]
            /\ disk' = [disk EXCEPT ![p] = LogEpoch(@, c, e.root)]
            /\ UNCHANGED proc
       [] OTHER -> UNCHANGED <<proc, cinfo, disk>>
  /\ UNCHANGED <<events, count>>

(* queue_request(): a sheep that is shut down takes no operation.          *)
Takes(p) == proc[p] = "member" /\ cinfo[p].status # "SHUTDOWN"

(* dog cluster format: the sheep that is asked passes it on, and           *)
(* cluster_make_fs() runs on every member in one order with the other      *)
(* events.                                                                 *)
AskFormat(p) ==
  /\ Takes(p) /\ Counted("op")
  /\ Push("FORMAT", p, Current, [NoCinfo EXCEPT !.ctime = count'.op + 1])
  /\ UNCHANGED <<proc, pos, cinfo, view, disk>>

ReadsFormat(p) == Reads(p, "FORMAT") /\ proc[p] = "member"

Format(p) ==
  LET c == [epoch |-> 1, nodes |-> view[p], status |-> "OK",
            ctime |-> NextEvent(p).cinfo.ctime] IN
  /\ ReadsFormat(p)
  /\ pos' = [pos EXCEPT ![p] = @ + 1]
  /\ cinfo' = [cinfo EXCEPT ![p] = c]
  /\ disk' = [disk EXCEPT ![p] = [log |-> [e \in {1} |-> view[p]], ctime |-> c.ctime]]
  /\ UNCHANGED <<events, proc, view, count>>

(* ... or returns early: no such store, or the store fails to format or to *)
(* start.                                                                  *)
FormatFails(p) ==
  /\ ReadsFormat(p) /\ Counted("fault")
  /\ pos' = [pos EXCEPT ![p] = @ + 1]
  /\ UNCHANGED <<events, proc, cinfo, view, disk>>

(* ... or the sheep dies in it: set_cluster_config() has saved the ctime,  *)
(* and the first k epochs are removed.                                     *)
FormatDies(p) ==
  /\ ReadsFormat(p) /\ Counted("fault")
  /\ \E k \in 0..LatestEpoch(disk[p]) :
       disk' = [disk EXCEPT ![p] =
                  [log |-> [e \in {f \in DOMAIN disk[p].log : f > k} |-> disk[p].log[e]],
                   ctime |-> NextEvent(p).cinfo.ctime]]
  /\ proc' = [proc EXCEPT ![p] = "off"]
  /\ UNCHANGED <<events, pos, cinfo, view>>

(* dog cluster recover force: cluster_force_recover_work() reads the epoch *)
(* while the cluster waits, cluster_force_recover_main() starts the        *)
(* cluster with the members there are.                                     *)
AskForce(p) ==
  /\ Takes(p) /\ cinfo[p].status = "WAIT" /\ cinfo[p].epoch > 0
  /\ Counted("op")
  /\ Push("FORCE", p, Current, cinfo[p])
  /\ UNCHANGED <<proc, pos, cinfo, view, disk>>

Force(p) ==
  LET c == cinfo[p] IN
  /\ Reads(p, "FORCE") /\ proc[p] = "member"
  /\ c.epoch < MaxEpoch
  /\ pos' = [pos EXCEPT ![p] = @ + 1]
  /\ IF NextEvent(p).cinfo.epoch # c.epoch
     THEN UNCHANGED <<cinfo, disk>>
     ELSE /\ cinfo' = [cinfo EXCEPT ![p] = [IncEpoch(c, view[p]) EXCEPT !.status = "OK"]]
          /\ disk' = [disk EXCEPT ![p] = SetConfig(LogEpoch(@, c, view[p]), c)]
  /\ UNCHANGED <<events, proc, view, count>>

(* dog cluster shutdown, and the exit of a sheep that is shut down.        *)
AskShutdown(p) ==
  /\ Takes(p) /\ Counted("op")
  /\ Push("SHUTDOWN", p, Current, NoCinfo)
  /\ UNCHANGED <<proc, pos, cinfo, view, disk>>

Shutdown(p) ==
  /\ Reads(p, "SHUTDOWN") /\ proc[p] = "member"
  /\ pos' = [pos EXCEPT ![p] = @ + 1]
  /\ cinfo' = [cinfo EXCEPT ![p].status = "SHUTDOWN"]
  /\ UNCHANGED <<events, proc, view, disk, count>>

Exit(p) ==
  /\ proc[p] = "member" /\ cinfo[p].status = "SHUTDOWN"
  /\ proc' = [proc EXCEPT ![p] = "off"]
  /\ UNCHANGED <<events, pos, cinfo, view, disk, count>>

(* A sheep dies; what is on its disk stays.  The driver notices later.     *)
Crash(n) ==
  /\ proc[n] # "off"
  /\ Counted(IF pos[n] = Len(events) THEN "down" ELSE "fault")
  /\ proc' = [proc EXCEPT ![n] = "off"]
  /\ UNCHANGED <<events, pos, cinfo, view, disk>>

Detect(n) ==
  /\ proc[n] = "off" /\ n \in Current
  /\ Push("LEAVE", n, Current \ {n}, NoCinfo)
  /\ UNCHANGED <<proc, pos, cinfo, view, disk, count>>

----------------------------------------------------------------------------
Init ==
  /\ events = <<>>
  /\ proc = [n \in Nodes |-> "off"]
  /\ pos = [n \in Nodes |-> 0]
  /\ cinfo = [n \in Nodes |-> NoCinfo]
  /\ view = [n \in Nodes |-> {}]
  /\ disk = [n \in Nodes |-> IF n \in Founders
                             THEN [log |-> [e \in {1} |-> Founders], ctime |-> 1]
                             ELSE [log |-> <<>>, ctime |-> 0]]
  /\ count = [b \in DOMAIN Bounds |-> 0]

Next == \E n \in Nodes :
  \/ Start(n) \/ Join(n) \/ Accept(n) \/ Leave(n)
  \/ AskFormat(n) \/ Format(n) \/ FormatFails(n) \/ FormatDies(n)
  \/ AskForce(n) \/ Force(n)
  \/ AskShutdown(n) \/ Shutdown(n) \/ Exit(n)
  \/ Crash(n) \/ Detect(n)

Spec == Init /\ [][Next]_vars

----------------------------------------------------------------------------
(* Sheep that have read the same events agree on epoch, status and member  *)
(* list, whatever each had on its disk, except with those that failed to   *)
(* format (group.c:1054-1259, ops.c:273-343).                              *)
MembersAgree == \A p, q \in Nodes :
  /\ proc[p] = "member" /\ proc[q] = "member" /\ pos[p] = pos[q]
  /\ pos[p] = Len(events) \/ NextEvent(p).type # "ACCEPT"
  /\ cinfo[p].ctime = cinfo[q].ctime
  => /\ cinfo[p] = cinfo[q]
     /\ cinfo[p].status # "SHUTDOWN" => view[p] = view[q]

(* "Sheepdog's recovery code assumes every node have the same epoch        *)
(* history" (group.c:1199-1200): no two disks of a cluster give different  *)
(* members for an epoch.                                                   *)
SameEpochHistory == \A p, q \in Nodes : disk[p].ctime = disk[q].ctime =>
  \A e \in DOMAIN disk[p].log \cap DOMAIN disk[q].log :
    disk[p].log[e] = disk[q].log[e]

(* It is so in an orderly cluster: after any number of members have died   *)
(* and come back, the log that survives is one history (group.c:417-481).  *)
OrderlyHistory == Orderly => SameEpochHistory

(* "Sheepdog can start automatically if and only if all the members in the *)
(* latest epoch are gathered" (group.c:417-418): an orderly cluster that   *)
(* is live is never behind the epoch log of a member of it.                *)
NotBehindOwnLog == \A p \in Nodes :
  Orderly /\ proc[p] = "member" /\ cinfo[p].status = "OK"
    => cinfo[p].epoch >= LatestEpoch(disk[p])

(* In an orderly cluster an epoch, once logged, keeps its members: the     *)
(* cluster never counts to an epoch again that update_epoch_log() would    *)
(* then overwrite (store/common.c:106-137).                                *)
LogIsStable == [][\A p \in Nodes :
  Orderly' /\ disk'[p].ctime = disk[p].ctime =>
    \A e \in DOMAIN disk[p].log :
      e \in DOMAIN disk'[p].log /\ disk'[p].log[e] = disk[p].log[e]]_vars
=============================================================================
