----------------------------- MODULE RecoveryInv -----------------------------
(***************************************************************************)
(* The inductive invariant behind the safety properties of Recovery, as    *)
(* predicates on a state record s of the main thread.                      *)
(***************************************************************************)
EXTENDS Recovery

(* A recovery_info as start_recovery() leaves it in next_rinfo.            *)
Fresh(n) == /\ n.state = "prepare" /\ n.flying = {}
            /\ ~n.suspended /\ ~n.throttling

(* The counted works are those of oids[done..next), one for each object.   *)
RowMatches(s) ==
  /\ \A w \in s.row : w.rid = s.cur.id /\ w.oid \in s.cur.flying
  /\ \A o \in s.cur.flying : \E w \in s.row : w.oid = o
  /\ \A v, w \in s.row : v.oid = w.oid => v = w

(* No throttling is in force and what waits in next_rinfo is fresh.        *)
Steady(s) ==
  /\ s.timers = 0 /\ ~s.throttling
  /\ s.nxt # Null => Fresh(s.nxt)

(* While the object list is being prepared, the only work is the list work *)
(* of the current recovery.                                                *)
Preparing(s) ==
  /\ s.cur.flying = {} /\ ~s.cur.suspended
  /\ \E w \in s.list : /\ s.list = {w} /\ w.rid = s.cur.id
                       /\ w.trunc => s.nxt # Null

(* While objects are recovered there is no list work, and a recovery that  *)
(* is suspended or uses a cut list is so with the next recovery in mind.   *)
Running(s) ==
  /\ s.list = {}
  /\ s.cur.flying \cap s.cur.todo = {}
  /\ s.cur.trunc => s.nxt # Null
  /\ s.nxt # Null => ~s.cur.suspended

(* ... and between handlers some object is in flight, or recovery is       *)
(* suspended with objects left.                                            *)
Recovering(s) ==
  /\ Running(s)
  /\ s.cur.flying # {} \/ s.cur.suspended
  /\ s.cur.flying \cup s.cur.todo # {}

Machine(s) ==
  /\ Steady(s)
  /\ s.cur = Null => s.list = {} /\ s.row = {}
  /\ s.cur # Null => /\ ~s.cur.throttling /\ RowMatches(s)
                     /\ s.cur.state = "prepare" => Preparing(s)
                     /\ s.cur.state = "recover" => Recovering(s)

(* The three ways in which the wait queue is kept: a peer request from a   *)
(* later epoch is marked for wakeup_requests_on_epoch(), a request that    *)
(* never arrived has no direct work, and a request asleep on an object has *)
(* a waker.                                                                *)
LateFor(s, q) == IF q.kind = "peer" THEN q.epoch > s.epoch
                 ELSE q.result = "OLD" /\ q.rpepoch > s.epoch
Wakes(s, o) == s.cur # Null /\ (s.nxt # Null \/ o \in s.cur.flying)
Direct(s, o) == \E d \in DirectWork : s.direct[d] > 0 /\ s.req[d.req].oid = o

Covered(s, r) ==
  LET q == s.req[r] IN
  /\ q.st = "idle" => \A d \in DirectWork : d.req = r => s.direct[d] = 0
  /\ q.st = "wait" /\ LateFor(s, q) => q.result \in {"OLD", "NEW"}
  /\ q.st = "wait" /\ ~LateFor(s, q) =>
       q.local /\ (Direct(s, q.oid) \/ Wakes(s, q.oid))

Inv(s) == Machine(s) /\ \A r \in Reqs : Covered(s, r)

(* Without throttling, the machine and the wait queue keep in step: the    *)
(* works in the queues are those that the indices of current_rinfo count,  *)
(* a recovery never stops being driven, and every sleeper has a waker      *)
(* (recovery.c:784-1026, request.c:68-351).                                *)
IndInv == Alive => Inv(Now)
=============================================================================
