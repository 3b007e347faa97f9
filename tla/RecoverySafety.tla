--------------------------- MODULE RecoverySafety ---------------------------
(***************************************************************************)
(* The safety of object recovery without throttling, for every set of      *)
(* objects and requests, every placement and every bound.  The invariant   *)
(* IndInv of RecoveryInv is inductive; each operator of Recovery is shown  *)
(* to keep its part of it, and each action follows by composition.         *)
(***************************************************************************)
EXTENDS RecoveryInv, RecoveryProofs, FiniteSetTheorems

(* Requests.                                                               *)

(* requeue_request() changes requests and direct works and nothing else.   *)
LEMMA RequeueFrame ==
  ASSUME NEW s \in State, NEW W \in SUBSET Reqs
  PROVE  LET t == Requeue(s, W) IN
         /\ t.epoch = s.epoch /\ t.disabled = s.disabled
         /\ t.throttling = s.throttling /\ t.cur = s.cur /\ t.nxt = s.nxt
         /\ t.list = s.list /\ t.row = s.row /\ t.timers = s.timers
         /\ t.fault = s.fault /\ t.objs = s.objs
BY RequeueType DEF SameButReqs

(* The machine's part of the invariant does not look at requests.          *)
LEMMA MachineFrame ==
  ASSUME NEW s \in State, NEW t \in State, Machine(s),
         t.throttling = s.throttling, t.cur = s.cur, t.nxt = s.nxt,
         t.list = s.list, t.row = s.row, t.timers = s.timers
  PROVE  Machine(t)
BY DEF Machine, Steady, Preparing, Recovering, Running, RowMatches

(* What queue_request() does with a request that goes to sleep.            *)
LEMMA QueuedWaits ==
  ASSUME NEW s \in State, NEW q \in Request
  PROVE  LET p == Queued(s, q) IN
         /\ p.oid = q.oid
         /\ p.st # "idle"
         /\ p.st = "wait" =>
              \/ p.kind = "peer" /\ p.epoch > s.epoch /\ p.result = "NEW"
              \/ /\ p.local /\ OidInRecovery(s, p.oid)
                 /\ p.kind = "peer" => p.epoch = s.epoch
                 /\ DirectNeeded(s, p.oid) => AsksDirect(s, q)
<1>. DEFINE z == Stamped(s, q)
<1>1. z \in Request /\ z.oid = q.oid /\ z.kind = q.kind
  BY StampedType DEF Stamped, Request
<1>2. s.epoch \in Nat /\ z.epoch \in Nat
  BY <1>1, BoundsAssumption DEF State, Request, Epochs
<1>. DEFINE gone == [IdleRequest EXCEPT !.st = "gone", !.oid = z.oid]
<1>10. gone.st = "gone" /\ gone.oid = q.oid
  <2>. HIDE DEF z
  <2>1. IdleRequest \in Request
    BY IdleType
  <2>. QED BY <1>1, <2>1 DEF Request
<1>0. CASE s.status # "OK"
  <2>1. Queued(s, q) = gone
    BY <1>0, Zenon DEF Queued
  <2>. HIDE DEF gone
  <2>. QED BY <1>10, <2>1
<1>3. CASE s.status = "OK" /\ EpochMismatch(s, z) /\ z.epoch < s.epoch
  <2>1. ~(z.epoch > s.epoch)
    BY <1>2, <1>3
  <2>2. Queued(s, q) = gone
    BY <1>3, <2>1, Zenon DEF Queued
  <2>. HIDE DEF gone
  <2>. QED BY <1>10, <2>2
<1>4. CASE s.status = "OK" /\ EpochMismatch(s, z) /\ z.epoch > s.epoch
  <2>1. ~(z.epoch < s.epoch)
    BY <1>2, <1>4
  <2>2. Queued(s, q) = [z EXCEPT !.st = "wait", !.result = "NEW"]
    BY <1>4, <2>1, Zenon DEF Queued
  <2>. HIDE DEF z
  <2>. QED BY <1>1, <1>4, <2>2 DEF Request, EpochMismatch
<1>5. CASE s.status = "OK" /\ ~EpochMismatch(s, z) /\ InRecovery(s, z)
  <2>1. Queued(s, q) = [z EXCEPT !.st = "wait"]
    BY <1>5, Zenon DEF Queued
  <2>2. DirectNeeded(s, z.oid) => AsksDirect(s, q)
    BY <1>5, Zenon DEF AsksDirect
  <2>. HIDE DEF z
  <2>. QED BY <1>1, <1>5, <2>1, <2>2 DEF Request, EpochMismatch, InRecovery
<1>6. CASE /\ s.status = "OK" /\ ~EpochMismatch(s, z)
           /\ ~InRecovery(s, z) /\ Halts(s, z)
  <2>1. Queued(s, q) = gone
    BY <1>6, Zenon DEF Queued
  <2>. HIDE DEF gone
  <2>. QED BY <1>10, <2>1
<1>9. CASE /\ s.status = "OK" /\ ~EpochMismatch(s, z)
           /\ ~InRecovery(s, z) /\ ~Halts(s, z)
  <2>1. Queued(s, q) = [z EXCEPT !.st = "work"]
    BY <1>9, Zenon DEF Queued
  <2>. HIDE DEF z
  <2>. QED BY <1>1, <2>1 DEF Request
<1>7. EpochMismatch(s, z) => z.epoch # s.epoch
  BY DEF EpochMismatch
<1>. HIDE DEF z
<1>8. EpochMismatch(s, z) => z.epoch < s.epoch \/ z.epoch > s.epoch
  BY <1>2, <1>7
<1>. QED BY <1>0, <1>3, <1>4, <1>5, <1>6, <1>8, <1>9

(* A wakeup leaves every request covered: those it queues again by         *)
(* queue_request(), the others as before.                                  *)
LEMMA RequeueCovers ==
  ASSUME NEW s \in State, NEW W \in SUBSET Reqs,
         \A r \in Reqs \ W : Covered(s, r)
  PROVE  \A r \in Reqs : Covered(Requeue(s, W), r)
<1>. DEFINE t == Requeue(s, W)
<1>1. /\ t \in State /\ t.epoch = s.epoch /\ t.cur = s.cur /\ t.nxt = s.nxt
  BY RequeueType, RequeueFrame
<1>2. \A r \in Reqs : t.req[r] = IF r \in W THEN Queued(s, s.req[r])
                                            ELSE s.req[r]
  BY DEF Requeue, State
<1>3. \A d \in DirectWork :
        t.direct[d] = IF /\ d.req \in W
                         /\ d.ph = "queued"
                         /\ AsksDirect(s, s.req[d.req])
                         /\ d.rid = s.cur.id
                      THEN s.direct[d] + 1 ELSE s.direct[d]
  BY DEF Requeue, State
<1>4. \A r \in Reqs : s.req[r] \in Request /\ t.req[r] \in Request
  BY <1>1 DEF State
<1>5. \A d \in DirectWork : s.direct[d] \in Nat /\ d.req \in Reqs
  BY DEF State, DirectWork
<1>6. \A r \in Reqs : t.req[r].oid = s.req[r].oid
  BY <1>2, <1>4, QueuedWaits
<1>7. \A d \in DirectWork : s.direct[d] > 0 => t.direct[d] > 0
  BY <1>3, <1>5
<1>8. \A o : Direct(s, o) => Direct(t, o)
  BY <1>5, <1>6, <1>7 DEF Direct
<1>9. \A o : Wakes(s, o) <=> Wakes(t, o)
  BY <1>1 DEF Wakes
<1>10. \A q : LateFor(s, q) <=> LateFor(t, q)
  BY <1>1 DEF LateFor
<1>11. ASSUME NEW r \in Reqs \ W
       PROVE  Covered(t, r)
  <2>1. t.req[r] = s.req[r]
    BY <1>2
  <2>2. \A d \in DirectWork : d.req = r => t.direct[d] = s.direct[d]
    BY <1>3
  <2>. HIDE DEF t
  <2>. QED BY <1>8, <1>9, <1>10, <2>1, <2>2 DEF Covered
<1>12. ASSUME NEW r \in W
       PROVE  Covered(t, r)
  <2>. DEFINE p == t.req[r]
  <2>1. p = Queued(s, s.req[r]) /\ p \in Request /\ s.req[r] \in Request
    BY <1>2, <1>4
  <2>2. /\ p.st # "idle"
        /\ p.st = "wait" =>
              \/ p.kind = "peer" /\ p.epoch > s.epoch /\ p.result = "NEW"
              \/ /\ p.local /\ OidInRecovery(s, p.oid)
                 /\ p.kind = "peer" => p.epoch = s.epoch
                 /\ DirectNeeded(s, p.oid) => AsksDirect(s, s.req[r])
    BY <2>1, QueuedWaits
  <2>3. p.epoch \in Nat /\ s.epoch \in Nat
    BY <2>1, BoundsAssumption DEF State, Request, Epochs
  <2>4. OidInRecovery(s, p.oid) => DirectNeeded(s, p.oid) \/ Wakes(s, p.oid)
    <3>. HIDE DEF p
    <3>. QED BY DEF OidInRecovery, DirectNeeded, Wakes
  <2>5. ASSUME AsksDirect(s, s.req[r])
        PROVE  Direct(t, p.oid)
    <3>. DEFINE d == [rid |-> s.cur.id, req |-> r, ph |-> "queued"]
    <3>1. s.cur # Null
      BY <2>5 DEF AsksDirect, InRecovery, OidInRecovery
    <3>2. d \in DirectWork
      BY <3>1 DEF State, Rinfo, DirectWork, Phase
    <3>3. t.direct[d] = s.direct[d] + 1
      BY <1>3, <2>5, <3>2
    <3>4. t.direct[d] > 0
      BY <1>5, <3>2, <3>3
    <3>. QED BY <3>2, <3>4 DEF Direct
  <2>6. p.st = "wait" /\ ~LateFor(t, p) =>
          p.local /\ (Direct(t, p.oid) \/ Wakes(t, p.oid))
    <3>. HIDE DEF p
    <3>1. p.st = "wait" /\ p.kind = "peer" /\ p.epoch > s.epoch => LateFor(t, p)
      BY <1>1 DEF LateFor
    <3>. QED BY <1>9, <2>2, <2>4, <2>5, <3>1
  <2>7. p.st = "wait" /\ LateFor(t, p) => p.result \in {"OLD", "NEW"}
    <3>. HIDE DEF p
    <3>1. LateFor(t, p) /\ p.kind = "peer" => ~(p.epoch = s.epoch)
      BY <1>1, <2>3 DEF LateFor
    <3>2. LateFor(t, p) /\ p.kind # "peer" => p.result = "OLD"
      BY DEF LateFor
    <3>. QED BY <2>2, <3>1, <3>2
  <2>. HIDE DEF t
  <2>. QED BY <2>2, <2>6, <2>7 DEF Covered
<1>. QED BY <1>11, <1>12

(* A step that leaves the requests alone and takes no waker away.          *)
LEMMA CoverMono ==
  ASSUME NEW s \in State, NEW t \in State,
         t.req = s.req, t.direct = s.direct, t.epoch = s.epoch,
         \A o \in Oids : Wakes(s, o) => Wakes(t, o),
         NEW r \in Reqs, Covered(s, r)
  PROVE  Covered(t, r)
<1>1. s.req[r].oid \in Oids
  BY DEF State, Request
<1>. QED BY <1>1 DEF Covered, LateFor, Direct
-----------------------------------------------------------------------------
(* The recovery machine.                                                   *)

(* queue_recovery_work() for a list, in a machine that has no work at all. *)
LEMMA QueueListWorkInv ==
  ASSUME NEW s \in State, s.cur # Null, Fresh(s.cur), Steady(s),
         s.list = {}, s.row = {}
  PROVE  LET t == QueueListWork(s) IN
         /\ t \in State /\ Machine(t)
         /\ t.cur = s.cur /\ t.nxt = s.nxt
         /\ t.req = s.req /\ t.direct = s.direct /\ t.epoch = s.epoch
<1>. DEFINE w == [rid |-> s.cur.id, epoch |-> s.cur.epoch, ph |-> "queued",
                  oids |-> {}, trunc |-> FALSE, tail |-> {}]
           t == QueueListWork(s)
<1>1. t \in State
  BY QueueListWorkType
<1>2. /\ t.list = {w} /\ t.cur = s.cur /\ t.nxt = s.nxt /\ t.row = {}
      /\ t.timers = s.timers /\ t.throttling = s.throttling
      /\ t.req = s.req /\ t.direct = s.direct /\ t.epoch = s.epoch
  BY DEF QueueListWork, State
<1>3. w.rid = s.cur.id /\ w.trunc = FALSE
  OBVIOUS
<1>. HIDE DEF w, t
<1>4. Steady(t)
  BY <1>2 DEF Steady
<1>5. RowMatches(t)
  BY <1>2 DEF RowMatches, Fresh
<1>6. Preparing(t)
  BY <1>2, <1>3 DEF Preparing, Fresh
<1>7. Machine(t)
  BY <1>2, <1>4, <1>5, <1>6 DEF Machine, Fresh
<1>. QED BY <1>1, <1>2, <1>7 DEF t

(* wakeup_all_requests() covers every request, whoever slept.              *)
LEMMA WakeupAllCovers ==
  ASSUME NEW s \in State, NEW u \in State,
         \A r \in Reqs : s.req[r].st # "wait" => Covered(s, r),
         u.req = s.req, u.direct = s.direct
  PROVE  \A r \in Reqs : Covered(WakeupAll(u), r)
<1>1. Sleepers(u) \in SUBSET Reqs
  BY DEF Sleepers
<1>2. \A r \in Reqs \ Sleepers(u) : Covered(u, r)
  BY DEF Sleepers, Covered
<1>. QED BY <1>1, <1>2, RequeueCovers DEF WakeupAll

(* The takeover in run_next_rw(): nothing is in flight.                    *)
LEMMA TakeOver ==
  ASSUME NEW s \in State, s.cur # Null, s.nxt # Null, Steady(s),
         RowMatches(s), s.cur.flying = {}, s.list = {},
         \A r \in Reqs : s.req[r].st # "wait" => Covered(s, r)
  PROVE  Inv(RunNextRw(s))
<1>. DEFINE c == [s.nxt EXCEPT !.notify = @ \/ s.cur.notify]
           x == [s EXCEPT !.cur = c, !.nxt = Null]
           u == UpdateEpoch(x)
           v == WakeupAll(u)
<1>1. s.nxt \in Rinfo /\ s.cur \in Rinfo
  BY DEF State
<1>2. c \in Rinfo /\ Fresh(c)
  BY <1>1 DEF Rinfo, Fresh, Steady
<1>3. /\ x \in State /\ x.cur = c /\ x.nxt = Null /\ x.list = {}
      /\ x.row = s.row /\ x.req = s.req /\ x.direct = s.direct
      /\ x.timers = s.timers /\ x.throttling = s.throttling
  <2>. HIDE DEF c
  <2>. QED BY <1>2 DEF State
<1>4. /\ u \in State /\ u.cur = c /\ u.nxt = Null /\ u.list = {}
      /\ u.row = s.row /\ u.req = s.req /\ u.direct = s.direct
      /\ u.timers = s.timers /\ u.throttling = s.throttling
  <2>. HIDE DEF c, x
  <2>1. u \in State
    BY <1>3, UpdateEpochType
  <2>. QED BY <1>3, <2>1 DEF UpdateEpoch, State
<1>5. s.row = {}
  BY DEF RowMatches
<1>6. Sleepers(u) \in SUBSET Reqs
  BY DEF Sleepers
<1>7. /\ v \in State /\ v.cur = c /\ v.nxt = Null /\ v.list = {}
      /\ v.row = {} /\ v.timers = s.timers /\ v.throttling = s.throttling
  <2>. HIDE DEF c, u
  <2>. QED BY <1>4, <1>5, <1>6, RequeueType, RequeueFrame DEF WakeupAll
<1>8. \A r \in Reqs : Covered(v, r)
  <2>. HIDE DEF u
  <2>. QED BY <1>4, WakeupAllCovers
<1>9. c # Null
  BY <1>2, NullAssumption
<1>10. RunNextRw(s) = QueueListWork(v)
  BY Zenon DEF RunNextRw
<1>. HIDE DEF c, x, u, v
<1>11. Steady(v)
  BY <1>7 DEF Steady
<1>12. LET t == QueueListWork(v) IN
       /\ t \in State /\ Machine(t)
       /\ t.cur = v.cur /\ t.nxt = v.nxt
       /\ t.req = v.req /\ t.direct = v.direct /\ t.epoch = v.epoch
  BY <1>2, <1>7, <1>9, <1>11, QueueListWorkInv
<1>13. \A r \in Reqs : Covered(QueueListWork(v), r)
  BY <1>7, <1>8, <1>12, CoverMono DEF Wakes
<1>. QED BY <1>10, <1>12, <1>13 DEF Inv

(* finish_recovery() in a machine that has no work left.                   *)
LEMMA FinishRecoveryInv ==
  ASSUME NEW s \in State, s.cur # Null, Steady(s), s.list = {}, s.row = {},
         \A r \in Reqs : Covered(s, r)
  PROVE  Inv(FinishRecovery(s))
<1>. DEFINE x == [s EXCEPT !.cur = Null]
           t == WakeupAll(x)
           f == FinishRecovery(s)
<1>1. /\ x \in State /\ x.cur = Null /\ x.nxt = s.nxt /\ x.list = {}
      /\ x.row = {} /\ x.req = s.req /\ x.direct = s.direct
      /\ x.timers = s.timers /\ x.throttling = s.throttling
  BY DEF State
<1>2. Sleepers(x) \in SUBSET Reqs
  BY DEF Sleepers
<1>3. \A r \in Reqs : Covered(t, r)
  <2>. HIDE DEF x
  <2>. QED BY <1>1, WakeupAllCovers
<1>4. /\ t \in State /\ t.cur = Null /\ t.nxt = s.nxt /\ t.list = {}
      /\ t.row = {} /\ t.timers = s.timers /\ t.throttling = s.throttling
  <2>. HIDE DEF x
  <2>. QED BY <1>1, <1>2, RequeueType, RequeueFrame DEF WakeupAll
<1>. HIDE DEF x
<1>5. /\ f \in State
      /\ f.cur = t.cur /\ f.nxt = t.nxt /\ f.list = t.list /\ f.row = t.row
      /\ f.timers = t.timers /\ f.throttling = t.throttling
      /\ f.req = t.req /\ f.direct = t.direct /\ f.epoch = t.epoch
  <2>1. f \in State
    BY FinishRecoveryType
  <2>2. f = IF s.cur.notify
            THEN [t EXCEPT !.announce = @ \cup {s.cur.epoch},
                           !.owed = {e \in @ : e > s.cur.epoch}]
            ELSE t
    BY Zenon DEF FinishRecovery, x
  <2>. HIDE DEF t, f
  <2>. QED BY <1>4, <2>1, <2>2 DEF State
<1>. HIDE DEF t, f
<1>6. Machine(f)
  BY <1>4, <1>5 DEF Machine, Steady
<1>7. \A o \in Oids : Wakes(t, o) => Wakes(f, o)
  BY <1>5 DEF Wakes
<1>8. \A r \in Reqs : Covered(f, r)
  BY <1>3, <1>4, <1>5, <1>7, CoverMono
<1>. QED BY <1>6, <1>8 DEF Inv, f
(* Starting the recovery of objects in F: the counted works grow with the  *)
(* range oids[done..next).                                                 *)
LEMMA QueueObjWorksInv ==
  ASSUME NEW s \in State, s.cur # Null, s.cur.state = "recover",
         ~s.cur.throttling, Steady(s), Running(s), RowMatches(s),
         NEW F \in SUBSET Oids, F # {}, F \subseteq s.cur.todo,
         \A r \in Reqs : Covered(s, r)
  PROVE  Inv(QueueObjWorks(s, F))
<1>. DEFINE N == {[rid |-> s.cur.id, oid |-> o, ph |-> "queued"] : o \in F}
           t == QueueObjWorks(s, F)
<1>1. s.cur \in Rinfo
  BY DEF State
<1>2. t \in State /\ t.cur # Null
  BY QueueObjWorksType
<1>3. /\ t.list = s.list /\ t.nxt = s.nxt /\ t.row = s.row \cup N
      /\ t.timers = s.timers /\ t.throttling = s.throttling
      /\ t.req = s.req /\ t.direct = s.direct /\ t.epoch = s.epoch
      /\ t.cur = [s.cur EXCEPT !.todo = @ \ F, !.flying = @ \cup F]
  BY <1>1 DEF QueueObjWorks, State, Rinfo
<1>4. /\ t.cur.todo = s.cur.todo \ F /\ t.cur.flying = s.cur.flying \cup F
      /\ t.cur.id = s.cur.id /\ t.cur.state = "recover"
      /\ t.cur.throttling = s.cur.throttling /\ t.cur.trunc = s.cur.trunc
      /\ t.cur.suspended = s.cur.suspended
  BY <1>1, <1>3 DEF Rinfo
<1>5. \A w \in N : w.rid = s.cur.id /\ w.oid \in F
  OBVIOUS
<1>6. \A o \in F : \E w \in N : w.oid = o
  <2>. TAKE o \in F
  <2>. WITNESS [rid |-> s.cur.id, oid |-> o, ph |-> "queued"] \in N
  <2>. QED OBVIOUS
<1>7. \A v, w \in N : v.oid = w.oid => v = w
  OBVIOUS
<1>. HIDE DEF N, t
<1>8. \A w \in s.row : w.oid \notin F
  BY DEF RowMatches, Running
<1>9. RowMatches(t)
  <2>1. \A w \in t.row : w.rid = t.cur.id /\ w.oid \in t.cur.flying
    BY <1>3, <1>4, <1>5 DEF RowMatches
  <2>2. \A o \in t.cur.flying : \E w \in t.row : w.oid = o
    BY <1>3, <1>4, <1>6 DEF RowMatches
  <2>3. \A v, w \in t.row : v.oid = w.oid => v = w
    BY <1>3, <1>5, <1>7, <1>8 DEF RowMatches
  <2>. QED BY <2>1, <2>2, <2>3 DEF RowMatches
<1>10. Recovering(t)
  BY <1>3, <1>4 DEF Running, Recovering
<1>11. Machine(t)
  BY <1>2, <1>3, <1>4, <1>9, <1>10 DEF Machine, Steady
<1>12. \A o \in Oids : Wakes(s, o) => Wakes(t, o)
  BY <1>2, <1>3, <1>4 DEF Wakes
<1>13. \A r \in Reqs : Covered(t, r)
  BY <1>2, <1>3, <1>12, CoverMono
<1>. QED BY <1>11, <1>13 DEF Inv, t

(* Suspending a recovery that has objects left and no successor.           *)
LEMMA SuspendInv ==
  ASSUME NEW s \in State, s.cur # Null, s.nxt = Null,
         s.cur.state = "recover", ~s.cur.throttling, Steady(s), Running(s),
         RowMatches(s), s.cur.flying \cup s.cur.todo # {},
         \A r \in Reqs : Covered(s, r)
  PROVE  Inv([s EXCEPT !.cur.suspended = TRUE])
<1>. DEFINE t == [s EXCEPT !.cur.suspended = TRUE]
<1>1. s.cur \in Rinfo
  BY DEF State
<1>2. t \in State /\ t.cur # Null
  BY SuspendType
<1>3. /\ t.list = s.list /\ t.nxt = s.nxt /\ t.row = s.row
      /\ t.timers = s.timers /\ t.throttling = s.throttling
      /\ t.req = s.req /\ t.direct = s.direct /\ t.epoch = s.epoch
      /\ t.cur = [s.cur EXCEPT !.suspended = TRUE]
  BY DEF State
<1>4. /\ t.cur.todo = s.cur.todo /\ t.cur.flying = s.cur.flying
      /\ t.cur.id = s.cur.id /\ t.cur.state = "recover"
      /\ t.cur.throttling = s.cur.throttling /\ t.cur.trunc = s.cur.trunc
      /\ t.cur.suspended = TRUE
  BY <1>1, <1>3 DEF Rinfo
<1>. HIDE DEF t
<1>5. RowMatches(t)
  BY <1>3, <1>4 DEF RowMatches
<1>6. Recovering(t)
  BY <1>3, <1>4 DEF Running, Recovering
<1>7. Machine(t)
  BY <1>2, <1>3, <1>4, <1>5, <1>6 DEF Machine, Steady
<1>8. \A o \in Oids : Wakes(s, o) => Wakes(t, o)
  BY <1>2, <1>3, <1>4 DEF Wakes
<1>9. \A r \in Reqs : Covered(t, r)
  BY <1>2, <1>3, <1>8, CoverMono
<1>. QED BY <1>7, <1>9 DEF Inv, t

(* recover_next_object(), where the bookkeeping is done and objects are    *)
(* left, or a next recovery waits.                                         *)
LEMMA RecoverNextObjectInv ==
  ASSUME NEW s \in State, s.cur # Null, s.cur.state = "recover",
         ~s.cur.throttling, Steady(s), Running(s), RowMatches(s),
         s.nxt = Null => s.cur.flying \cup s.cur.todo # {},
         \A r \in Reqs : Covered(s, r)
  PROVE  Inv(RecoverNextObject(s))
<1>1. CASE s.nxt # Null /\ s.cur.flying = {}
  BY <1>1, TakeOver DEF RecoverNextObject, Running
<1>2. CASE s.nxt # Null /\ s.cur.flying # {}
  <2>1. RecoverNextObject(s) = s
    BY <1>2 DEF RecoverNextObject, RunNextRw
  <2>2. Machine(s)
    BY <1>2 DEF Machine, Recovering
  <2>. QED BY <2>1, <2>2 DEF Inv
<1>3. CASE s.nxt = Null /\ s.disabled
  BY <1>3, SuspendInv DEF RecoverNextObject
<1>4. CASE s.nxt = Null /\ ~s.disabled /\ s.cur.todo = {}
  <2>1. RecoverNextObject(s) = s
    BY <1>4 DEF RecoverNextObject
  <2>2. Machine(s)
    BY <1>4 DEF Machine, Recovering
  <2>. QED BY <2>1, <2>2 DEF Inv
<1>5. CASE s.nxt = Null /\ ~s.disabled /\ s.cur.todo # {}
  <2>. DEFINE F == {CHOOSE o \in s.cur.todo : TRUE}
  <2>1. F # {} /\ F \subseteq s.cur.todo
    BY <1>5
  <2>2. F \in SUBSET Oids
    BY <2>1 DEF State, Rinfo
  <2>3. RecoverNextObject(s) = QueueObjWorks(s, F)
    BY <1>5, Zenon DEF RecoverNextObject
  <2>. HIDE DEF F
  <2>. QED BY <2>1, <2>2, <2>3, QueueObjWorksInv
<1>. QED BY <1>1, <1>2, <1>3, <1>4, <1>5
(* resume_suspended_recovery() between handlers.                           *)
LEMMA ResumeSuspendedInv ==
  ASSUME NEW s \in State, Inv(s)
  PROVE  Inv(ResumeSuspended(s))
<1>1. CASE ~(s.cur # Null /\ s.cur.suspended)
  BY <1>1, Zenon DEF ResumeSuspended
<1>2. CASE s.cur # Null /\ s.cur.suspended
  <2>. DEFINE t == [s EXCEPT !.cur.suspended = FALSE]
  <2>1. s.cur \in Rinfo
    BY <1>2 DEF State
  <2>2. s.cur.state = "recover" /\ Recovering(s) /\ RowMatches(s)
        /\ ~s.cur.throttling /\ Steady(s)
    BY <1>2, <2>1 DEF Inv, Machine, Preparing, Rinfo
  <2>3. t \in State /\ t.cur # Null
    BY <1>2, SuspendType
  <2>4. /\ t.list = s.list /\ t.nxt = s.nxt /\ t.row = s.row
        /\ t.timers = s.timers /\ t.throttling = s.throttling
        /\ t.req = s.req /\ t.direct = s.direct /\ t.epoch = s.epoch
        /\ t.cur = [s.cur EXCEPT !.suspended = FALSE]
    BY DEF State
  <2>5. /\ t.cur.todo = s.cur.todo /\ t.cur.flying = s.cur.flying
        /\ t.cur.id = s.cur.id /\ t.cur.state = "recover"
        /\ t.cur.throttling = s.cur.throttling /\ t.cur.trunc = s.cur.trunc
    BY <2>1, <2>2, <2>4 DEF Rinfo
  <2>6. ResumeSuspended(s) = RecoverNextObject(t)
    BY <1>2, Zenon DEF ResumeSuspended
  <2>. HIDE DEF t
  <2>7. Running(t)
    <3>1. s.nxt = Null
      BY <1>2, <2>2 DEF Recovering, Running
    <3>. QED BY <2>2, <2>4, <2>5, <3>1 DEF Recovering, Running
  <2>8. RowMatches(t) /\ Steady(t)
    BY <2>2, <2>4, <2>5 DEF RowMatches, Steady
  <2>9. \A r \in Reqs : Covered(t, r)
    BY <1>2, <2>3, <2>4, <2>5, CoverMono DEF Inv, Wakes
  <2>10. t.cur.flying \cup t.cur.todo # {}
    BY <2>2, <2>5 DEF Recovering
  <2>. QED BY <2>2, <2>3, <2>5, <2>6, <2>7, <2>8, <2>9, <2>10,
              RecoverNextObjectInv
<1>. QED BY <1>1, <1>2

(* wakeup_requests_on_epoch() in a state x where the epoch has moved on:   *)
(* who is not woken was not waiting for an epoch.                          *)
LEMMA WakeupEpochInv ==
  ASSUME NEW s \in State, \A r \in Reqs : Covered(s, r),
         NEW x \in State, Machine(x), x.req = s.req, x.direct = s.direct,
         x.epoch >= s.epoch, \A o \in Oids : Wakes(s, o) => Wakes(x, o)
  PROVE  Inv(WakeupEpoch(x))
<1>. DEFINE W == {r \in Sleepers(x) : x.req[r].result \in {"OLD", "NEW"}}
<1>1. W \in SUBSET Reqs
  BY DEF Sleepers
<1>2. ASSUME NEW r \in Reqs \ W
      PROVE  Covered(x, r)
  <2>. DEFINE q == s.req[r]
  <2>1. q \in Request /\ x.req[r] = q
    BY DEF State
  <2>2. q.oid \in Oids /\ q.epoch \in Nat /\ s.epoch \in Nat /\ x.epoch \in Nat
    BY <2>1, BoundsAssumption DEF Request, State, Epochs
  <2>3. q.st = "idle" => \A d \in DirectWork : d.req = r => x.direct[d] = 0
    BY DEF Covered
  <2>4. q.st = "wait" => q.result \notin {"OLD", "NEW"}
    BY <2>1 DEF Sleepers
  <2>5. q.st = "wait" => ~LateFor(s, q)
    BY <2>4 DEF Covered
  <2>6. q.st = "wait" => ~LateFor(x, q)
    <3>. HIDE DEF q
    <3>. QED BY <2>2, <2>4, <2>5 DEF LateFor
  <2>7. q.st = "wait" => q.local /\ (Direct(s, q.oid) \/ Wakes(s, q.oid))
    BY <2>5 DEF Covered
  <2>8. q.st = "wait" => q.local /\ (Direct(x, q.oid) \/ Wakes(x, q.oid))
    BY <2>2, <2>7 DEF Direct
  <2>. HIDE DEF q
  <2>. QED BY <2>1, <2>3, <2>6, <2>8 DEF Covered
<1>3. WakeupEpoch(x) = Requeue(x, W)
  BY DEF WakeupEpoch
<1>. HIDE DEF W
<1>4. \A r \in Reqs : Covered(Requeue(x, W), r)
  BY <1>1, <1>2, RequeueCovers
<1>5. Machine(Requeue(x, W))
  BY <1>1, RequeueType, RequeueFrame, MachineFrame
<1>. QED BY <1>3, <1>4, <1>5 DEF Inv
(* start_recovery(), called in s: the state b of the last handler, with    *)
(* the epoch raised or objects lost.                                       *)
LEMMA StartRecoveryInv ==
  ASSUME NEW b \in State, Inv(b), NEW s \in State, NEW lifted \in BOOLEAN,
         starts \in 0..MaxStart, starts < MaxStart,
         s.cur = b.cur, s.nxt = b.nxt, s.list = b.list, s.row = b.row,
         s.timers = b.timers, s.throttling = b.throttling,
         s.req = b.req, s.direct = b.direct, s.epoch >= b.epoch
  PROVE  Inv(StartRecovery(s, lifted))
<1>. DEFINE rinfo == NewRinfo(s, lifted)
           u == UpdateEpoch(s)
<1>1. rinfo \in Rinfo /\ rinfo # Null /\ Fresh(rinfo)
  <2>1. ~s.throttling
    BY DEF Inv, Machine, Steady
  <2>2. Fresh(rinfo)
    BY <2>1 DEF NewRinfo, Fresh
  <2>. QED BY <2>2, NewRinfoType
<1>2. /\ u \in State /\ u.cur = b.cur /\ u.nxt = b.nxt /\ u.list = b.list
      /\ u.row = b.row /\ u.timers = b.timers /\ u.throttling = b.throttling
      /\ u.req = b.req /\ u.direct = b.direct /\ u.epoch >= b.epoch
  BY UpdateEpochType DEF UpdateEpoch, State
<1>3. StartRecovery(s, lifted) =
        WakeupEpoch(IF u.cur # Null
                    THEN ResumeSuspended([u EXCEPT !.nxt = rinfo])
                    ELSE QueueListWork([u EXCEPT !.cur = rinfo]))
  BY Zenon DEF StartRecovery
<1>4. \A r \in Reqs : Covered(b, r)
  BY DEF Inv
<1>. HIDE DEF rinfo, u
<1>5. CASE u.cur = Null
  <2>. DEFINE x == [u EXCEPT !.cur = rinfo]
             y == QueueListWork(x)
  <2>1. /\ x \in State /\ x.cur = rinfo /\ x.nxt = b.nxt /\ x.list = b.list
        /\ x.row = b.row /\ x.timers = b.timers /\ x.throttling = b.throttling
        /\ x.req = b.req /\ x.direct = b.direct /\ x.epoch >= b.epoch
    BY <1>1, <1>2 DEF State
  <2>2. StartRecovery(s, lifted) = WakeupEpoch(y)
    BY <1>3, <1>5, Zenon
  <2>. HIDE DEF x
  <2>3. x.list = {} /\ x.row = {} /\ Steady(x)
    BY <1>2, <1>5, <2>1 DEF Inv, Machine, Steady
  <2>4. /\ y \in State /\ Machine(y) /\ y.cur = x.cur /\ y.nxt = x.nxt
        /\ y.req = x.req /\ y.direct = x.direct /\ y.epoch = x.epoch
    BY <1>1, <2>1, <2>3, QueueListWorkInv
  <2>5. \A o \in Oids : Wakes(b, o) => Wakes(y, o)
    BY <1>2, <1>5 DEF Wakes
  <2>. HIDE DEF y
  <2>. QED BY <1>4, <2>1, <2>2, <2>4, <2>5, WakeupEpochInv
<1>6. CASE u.cur # Null
  <2>. DEFINE x == [u EXCEPT !.nxt = rinfo]
             y == ResumeSuspended(x)
  <2>1. /\ x \in State /\ x.cur = b.cur /\ x.nxt = rinfo /\ x.list = b.list
        /\ x.row = b.row /\ x.timers = b.timers /\ x.throttling = b.throttling
        /\ x.req = b.req /\ x.direct = b.direct /\ x.epoch >= b.epoch
    BY <1>1, <1>2 DEF State
  <2>2. StartRecovery(s, lifted) = WakeupEpoch(y)
    BY <1>3, <1>6, Zenon
  <2>. HIDE DEF x
  <2>3. Steady(x) /\ RowMatches(x) /\ ~x.cur.throttling /\ x.cur # Null
    BY <1>1, <1>2, <1>6, <2>1 DEF Inv, Machine, Steady, RowMatches
  <2>4. \A o \in Oids : Wakes(b, o) => Wakes(x, o)
    BY <1>1, <2>1 DEF Wakes
  <2>5. CASE ~x.cur.suspended
    <3>1. y = x
      BY <2>5, Zenon DEF ResumeSuspended
    <3>2. Machine(x)
      <4>1. x.cur.state = "prepare" => Preparing(x)
        BY <1>1, <1>2, <1>6, <2>1 DEF Inv, Machine, Preparing
      <4>2. x.cur.state = "recover" => Recovering(x)
        BY <1>1, <1>2, <1>6, <2>1, <2>5 DEF Inv, Machine, Recovering, Running
      <4>. QED BY <2>3, <4>1, <4>2 DEF Machine
    <3>. HIDE DEF y
    <3>. QED BY <1>4, <2>1, <2>2, <2>4, <3>1, <3>2, WakeupEpochInv
  <2>6. CASE x.cur.suspended
    <3>. DEFINE z == [x EXCEPT !.cur.suspended = FALSE]
    <3>1. x.cur \in Rinfo
      BY <2>1, <2>3 DEF State
    <3>2. /\ x.cur.state = "recover" /\ x.list = {}
          /\ x.cur.flying \cap x.cur.todo = {}
          /\ x.cur.flying \cup x.cur.todo # {}
      BY <2>1, <2>3, <2>6, <3>1
         DEF Inv, Machine, Preparing, Recovering, Running, Rinfo
    <3>3. z \in State /\ z.cur # Null
      BY <2>1, <2>3, SuspendType
    <3>4. /\ z.list = x.list /\ z.nxt = x.nxt /\ z.row = x.row
          /\ z.timers = x.timers /\ z.throttling = x.throttling
          /\ z.req = x.req /\ z.direct = x.direct /\ z.epoch = x.epoch
          /\ z.cur = [x.cur EXCEPT !.suspended = FALSE]
      BY <2>1 DEF State
    <3>5. /\ z.cur.todo = x.cur.todo /\ z.cur.flying = x.cur.flying
          /\ z.cur.id = x.cur.id /\ z.cur.state = "recover"
          /\ z.cur.throttling = x.cur.throttling /\ z.cur.suspended = FALSE
      BY <3>1, <3>2, <3>4 DEF Rinfo
    <3>6. y = RecoverNextObject(z)
      BY <2>3, <2>6, Zenon DEF ResumeSuspended
    <3>. HIDE DEF z
    <3>7. y = RunNextRw(z) /\ z.nxt # Null
      BY <1>1, <2>1, <3>4, <3>6 DEF RecoverNextObject
    <3>8. Steady(z) /\ RowMatches(z)
      BY <2>3, <3>4, <3>5 DEF Steady, RowMatches
    <3>9. CASE z.cur.flying # {}
      <4>1. y = z
        BY <3>7, <3>9 DEF RunNextRw
      <4>2. Recovering(z)
        BY <3>2, <3>4, <3>5, <3>7, <3>9 DEF Recovering, Running
      <4>3. Machine(z)
        BY <2>3, <3>3, <3>5, <3>8, <4>2 DEF Machine
      <4>4. \A o \in Oids : Wakes(b, o) => Wakes(z, o)
        BY <3>3, <3>7 DEF Wakes
      <4>. HIDE DEF y
      <4>. QED BY <1>4, <2>1, <2>2, <3>3, <3>4, <4>1, <4>3, <4>4, WakeupEpochInv
    <3>10. CASE z.cur.flying = {}
      <4>1. \A r \in Reqs : z.req[r].st # "wait" => Covered(z, r)
        BY <1>4, <2>1, <3>4 DEF Covered
      <4>2. Inv(y)
        BY <3>2, <3>3, <3>4, <3>7, <3>8, <3>10, <4>1, TakeOver
      <4>3. y \in State
        BY <2>1, ResumeSuspendedType
      <4>. HIDE DEF y
      <4>4. y.epoch \in Nat
        BY <4>3, BoundsAssumption DEF State, Epochs
      <4>. QED BY <2>2, <4>2, <4>3, <4>4, WakeupEpochInv DEF Inv
    <3>. QED BY <3>9, <3>10
  <2>. QED BY <2>5, <2>6
<1>. QED BY <1>5, <1>6

(* recover_object_main() after its bookkeeping for the object o.           *)
LEMMA ObjectRecoveredInv ==
  ASSUME NEW s \in State, s.cur # Null, s.cur.state = "recover",
         ~s.cur.throttling, Steady(s), Running(s), RowMatches(s),
         NEW o \in Oids,
         \A r \in Reqs : \/ s.nxt = Null /\ s.req[r].st = "wait"
                           /\ s.req[r].oid = o /\ s.req[r].local
                        \/ Covered(s, r)
  PROVE  Inv(ObjectRecovered(s, o))
<1>1. CASE s.nxt # Null
  <2>1. \A r \in Reqs : Covered(s, r)
    BY <1>1
  <2>2. ObjectRecovered(s, o) = RecoverNextObject(s)
    BY <1>1, Zenon DEF ObjectRecovered, RecoverNextObject
  <2>. QED BY <1>1, <2>1, <2>2, RecoverNextObjectInv
<1>2. CASE s.nxt = Null
  <2>. DEFINE W == {r \in Sleepers(s) : s.req[r].oid = o /\ s.req[r].local}
             t == Requeue(s, W)
  <2>1. W \in SUBSET Reqs
    BY DEF Sleepers
  <2>2. \A r \in Reqs \ W : Covered(s, r)
    BY DEF Sleepers
  <2>3. ObjectRecovered(s, o) =
          IF t.cur.flying \cup t.cur.todo = {} THEN FinishRecovery(t)
          ELSE IF t.cur.throttling THEN t
          ELSE IF t.throttling THEN [t EXCEPT !.timers = @ + 1]
          ELSE RecoverNextObject(t)
    BY <1>2, Zenon DEF ObjectRecovered, WakeupOid
  <2>. HIDE DEF W
  <2>4. \A r \in Reqs : Covered(t, r)
    BY <2>1, <2>2, RequeueCovers
  <2>5. /\ t \in State /\ t.throttling = s.throttling /\ t.cur = s.cur
        /\ t.nxt = s.nxt /\ t.list = s.list /\ t.row = s.row
        /\ t.timers = s.timers
    BY <2>1, RequeueType, RequeueFrame
  <2>. HIDE DEF t
  <2>6. Steady(t) /\ Running(t) /\ RowMatches(t)
    BY <2>5 DEF Steady, Running, RowMatches
  <2>7. CASE t.cur.flying \cup t.cur.todo = {}
    <3>1. t.row = {} /\ t.list = {}
      BY <2>6, <2>7 DEF RowMatches, Running
    <3>. QED BY <2>3, <2>4, <2>5, <2>6, <2>7, <3>1, FinishRecoveryInv
  <2>8. CASE t.cur.flying \cup t.cur.todo # {}
    <3>1. ~t.cur.throttling /\ ~t.throttling
      BY <2>5, <2>6 DEF Steady
    <3>2. ObjectRecovered(s, o) = RecoverNextObject(t)
      BY <2>3, <2>8, <3>1
    <3>. QED BY <2>4, <2>5, <2>6, <2>8, <3>1, <3>2, RecoverNextObjectInv
  <2>. QED BY <2>7, <2>8
<1>. QED BY <1>1, <1>2
-----------------------------------------------------------------------------
(* The actions.                                                            *)

(* A state that differs in nothing the invariant looks at.                 *)
LEMMA InvFrame ==
  ASSUME NEW s \in State, NEW t \in State, Inv(s),
         t.throttling = s.throttling, t.cur = s.cur, t.nxt = s.nxt,
         t.list = s.list, t.row = s.row, t.timers = s.timers,
         t.req = s.req, t.direct = s.direct, t.epoch = s.epoch
  PROVE  Inv(t)
<1>1. Machine(t)
  BY MachineFrame DEF Inv
<1>2. \A r \in Reqs : Covered(t, r)
  BY CoverMono DEF Inv, Wakes
<1>. QED BY <1>1, <1>2 DEF Inv

(* An action that leaves a good state, or none at all, keeps IndInv.       *)
LEMMA StepInv ==
  ASSUME NEW t \in State, Become(t), t.fault = "none" => Inv(t)
  PROVE  IndInv'
<1>1. Now' = t /\ fault' = t.fault
  BY BecomeState DEF Become
<1>. QED BY <1>1 DEF IndInv, Alive, Inv, Machine, Steady, Fresh, RowMatches,
            Preparing, Running, Recovering, Covered, LateFor, Direct, Wakes

(* A step that breaks the process keeps IndInv, which is about live ones.  *)
LEMMA BrokenInv ==
  ASSUME NEW t \in State, NEW what \in {"uaf", "null", "list"},
         Become(Broken(t, what))
  PROVE  IndInv'
<1>1. Broken(t, what) \in State /\ Broken(t, what).fault # "none"
  BY DEF Broken, State
<1>. QED BY <1>1, StepInv

(* finish_object_list() keeps the invariant in each of its branches.       *)
LEMMA FinishObjectListInv ==
  ASSUME TypeOK, IndInv, NEW w \in list, FinishObjectList(w)
  PROVE  IndInv'
<1>. DEFINE s == [Now EXCEPT !.list = @ \ {w}]
           t == [s EXCEPT !.cur.state = "recover", !.cur.todo = w.oids,
                          !.cur.trunc = w.trunc, !.cur.tail = w.tail]
           c == [cur EXCEPT !.state = "recover", !.todo = w.oids,
                            !.trunc = w.trunc, !.tail = w.tail]
<1>0. Alive /\ Inv(Now) /\ Now \in State
  BY NowState DEF FinishObjectList, IndInv
<1>1. /\ cur # Null /\ cur.state = "prepare" /\ list = {w} /\ w.rid = cur.id
      /\ w.trunc => nxt # Null
      /\ cur.flying = {} /\ ~cur.suspended /\ ~cur.throttling /\ row = {}
      /\ timers = 0 /\ ~throttling
      /\ nxt # Null => Fresh(nxt)
  <2>1. cur # Null /\ cur.state # "recover"
    BY <1>0 DEF Inv, Machine, Recovering, Running, Now
  <2>2. cur \in Rinfo
    BY <2>1 DEF TypeOK
  <2>3. cur.state = "prepare"
    BY <2>1, <2>2 DEF Rinfo
  <2>4. Preparing(Now) /\ RowMatches(Now) /\ Steady(Now) /\ ~cur.throttling
    BY <1>0, <2>1, <2>3 DEF Inv, Machine, Now
  <2>. QED BY <2>1, <2>3, <2>4 DEF Preparing, RowMatches, Steady, Now
<1>2. w \in ListWork /\ cur \in Rinfo
  BY <1>1 DEF TypeOK
<1>3. /\ s \in State /\ s.list = {} /\ s.cur = cur /\ s.nxt = nxt /\ s.row = {}
      /\ s.timers = 0 /\ ~s.throttling /\ s.req = req /\ s.direct = direct
      /\ s.epoch = epoch /\ s.disabled = disabled
  <2>1. /\ s \in State /\ s.list = list \ {w} /\ s.cur = cur /\ s.nxt = nxt
        /\ s.row = row /\ s.timers = timers /\ s.throttling = throttling
        /\ s.req = req /\ s.direct = direct /\ s.epoch = epoch
        /\ s.disabled = disabled
    BY DEF TypeOK, Now, State
  <2>. HIDE DEF s
  <2>2. s.list = {} /\ s.row = {} /\ s.timers = 0
    BY <1>1, <2>1
  <2>3. ~s.throttling
    BY <1>1, <2>1, Zenon
  <2>. QED BY <2>1, <2>2, <2>3, Zenon
<1>4. c \in Rinfo /\ c.state = "recover" /\ c.flying = {} /\ c.todo = w.oids
      /\ ~c.suspended /\ ~c.throttling /\ c.trunc = w.trunc /\ c.id = cur.id
  BY <1>1, <1>2 DEF Rinfo, ListWork
<1>5. t = [s EXCEPT !.cur = c]
  <2>. HIDE DEF s
  <2>. QED BY <1>3 DEF State
<1>6. c # Null
  BY <1>4, NullAssumption
<1>. HIDE DEF c, s
<1>7. /\ t \in State /\ t.cur = c /\ t.nxt = nxt /\ t.list = {} /\ t.row = {}
      /\ t.timers = 0 /\ ~t.throttling /\ t.req = req /\ t.direct = direct
      /\ t.epoch = epoch
  <2>. HIDE DEF t
  <2>. QED BY <1>3, <1>4, <1>5 DEF State
<1>8. /\ cur.cancel => Become(FinishRecovery(s))
      /\ ~cur.cancel /\ nxt # Null => Become(RunNextRw(t))
      /\ ~cur.cancel /\ nxt = Null =>
           IF w.oids = {} THEN Become(FinishRecovery(t))
           ELSE IF cur.throttling
           THEN Become([t EXCEPT !.timers = @ + NrThreads])
           ELSE IF disabled
           THEN Become([t EXCEPT !.cur.suspended = TRUE])
           ELSE \E F \in FirstOf(w.oids, NrThreads) :
                  Become(QueueObjWorks(t, F))
  <2>. HIDE DEF t
  <2>1. CASE cur.cancel
    BY <1>1, <2>1 DEF FinishObjectList, s
  <2>2. CASE ~cur.cancel /\ nxt # Null
    BY <1>1, <2>2 DEF FinishObjectList, s, t
  <2>3. CASE ~cur.cancel /\ nxt = Null
    BY <1>1, <2>3 DEF FinishObjectList, s, t
  <2>. QED BY <2>1, <2>2, <2>3
<1>9. Steady(s) /\ Steady(t) /\ RowMatches(t)
  <2>1. Steady(s)
    BY <1>1, <1>3, Zenon DEF Steady
  <2>. HIDE DEF t
  <2>2. Steady(t)
    BY <1>1, <1>7, Zenon DEF Steady
  <2>3. RowMatches(t)
    BY <1>4, <1>7 DEF RowMatches
  <2>. QED BY <2>1, <2>2, <2>3
<1>10. \A r \in Reqs : Covered(Now, r)
  BY <1>0 DEF Inv
<1>11. Now.req = req /\ Now.direct = direct /\ Now.epoch = epoch
       /\ Now.cur = cur /\ Now.nxt = nxt
  BY DEF Now
<1>12. \A r \in Reqs : Covered(s, r)
  <2>1. \A o \in Oids : Wakes(Now, o) => Wakes(s, o)
    BY <1>3, <1>11 DEF Wakes
  <2>. QED BY <1>0, <1>3, <1>10, <1>11, <2>1, CoverMono
<1>. HIDE DEF t
<1>13. \A r \in Reqs : Covered(t, r)
  <2>1. \A o \in Oids : Wakes(Now, o) => Wakes(t, o)
    BY <1>1, <1>6, <1>7, <1>11 DEF Wakes
  <2>. QED BY <1>0, <1>7, <1>10, <1>11, <2>1, CoverMono
<1>14. CASE cur.cancel
  <2>1. FinishRecovery(s) \in State
    BY <1>1, <1>3, FinishRecoveryType
  <2>2. Inv(FinishRecovery(s))
    BY <1>1, <1>3, <1>9, <1>12, FinishRecoveryInv
  <2>. QED BY <1>8, <1>14, <2>1, <2>2, StepInv
<1>15. CASE ~cur.cancel /\ nxt # Null
  <2>1. RunNextRw(t) \in State
    BY <1>6, <1>7, <1>15, RunNextRwType
  <2>2. Inv(RunNextRw(t))
    BY <1>4, <1>6, <1>7, <1>9, <1>13, <1>15, TakeOver
  <2>. QED BY <1>8, <1>15, <2>1, <2>2, StepInv
<1>16. CASE ~cur.cancel /\ nxt = Null
  <2>1. Running(t)
    BY <1>1, <1>4, <1>7, <1>16 DEF Running
  <2>2. CASE w.oids = {}
    <3>1. FinishRecovery(t) \in State
      BY <1>6, <1>7, FinishRecoveryType
    <3>2. Inv(FinishRecovery(t))
      BY <1>6, <1>7, <1>9, <1>13, FinishRecoveryInv
    <3>. QED BY <1>8, <1>16, <2>2, <3>1, <3>2, StepInv
  <2>3. CASE w.oids # {} /\ disabled
    <3>1. Become([t EXCEPT !.cur.suspended = TRUE])
      BY <1>1, <1>8, <1>16, <2>3
    <3>2. [t EXCEPT !.cur.suspended = TRUE] \in State
      BY <1>6, <1>7, SuspendType
    <3>3. Inv([t EXCEPT !.cur.suspended = TRUE])
      BY <1>4, <1>6, <1>7, <1>9, <1>13, <1>16, <2>1, <2>3, SuspendInv
    <3>. QED BY <3>1, <3>2, <3>3, StepInv
  <2>4. CASE w.oids # {} /\ ~disabled
    <3>1. PICK F \in FirstOf(w.oids, NrThreads) : Become(QueueObjWorks(t, F))
      BY <1>1, <1>8, <1>16, <2>4
    <3>2. F \subseteq w.oids /\ F \in SUBSET Oids
      BY <1>2 DEF FirstOf, ListWork
    <3>3. F # {}
      <4>1. IsFiniteSet(w.oids) /\ Cardinality(w.oids) \in Nat
        <5>1. w.oids \subseteq Oids
          BY <1>2 DEF ListWork
        <5>. QED BY <5>1, BoundsAssumption, FS_Subset, FS_CardinalityType
      <4>2. Cardinality(w.oids) # 0
        BY <2>4, <4>1, FS_EmptySet
      <4>3. Cardinality(F) # 0
        BY <4>1, <4>2, BoundsAssumption DEF FirstOf
      <4>. QED BY <4>3, FS_EmptySet
    <3>4. QueueObjWorks(t, F) \in State
      BY <1>6, <1>7, <3>2, QueueObjWorksType
    <3>5. Inv(QueueObjWorks(t, F))
      BY <1>4, <1>6, <1>7, <1>9, <1>13, <2>1, <3>2, <3>3, QueueObjWorksInv
    <3>. QED BY <3>1, <3>4, <3>5, StepInv
  <2>. QED BY <2>2, <2>3, <2>4
<1>. QED BY <1>14, <1>15, <1>16

(* recover_object_main() of a counted work keeps the invariant.            *)
LEMMA RecoverObjectMainInv ==
  ASSUME TypeOK, IndInv, NEW w \in row, RecoverObjectMain(w)
  PROVE  IndInv'
<1>. DEFINE s == [Now EXCEPT !.row = @ \ {w}]
           t == [s EXCEPT !.cur.done = @ \cup {w.oid},
                          !.cur.flying = @ \ {w.oid}]
           c == [cur EXCEPT !.done = @ \cup {w.oid}, !.flying = @ \ {w.oid}]
<1>0. Inv(Now) /\ Now \in State
  BY NowState DEF RecoverObjectMain, IndInv
<1>1. /\ cur # Null /\ cur.state = "recover"
      /\ w.rid = cur.id /\ w.oid \in cur.flying /\ ~cur.throttling
      /\ Steady(Now) /\ Recovering(Now) /\ RowMatches(Now)
  <2>1. cur # Null /\ RowMatches(Now) /\ Steady(Now) /\ ~cur.throttling
    BY <1>0 DEF Inv, Machine, Now
  <2>2. w.rid = cur.id /\ w.oid \in cur.flying
    BY <2>1 DEF RowMatches, Now
  <2>3. cur.state # "prepare"
    BY <1>0, <2>1, <2>2 DEF Inv, Machine, Preparing, Now
  <2>4. cur.state = "recover"
    BY <2>1, <2>3 DEF TypeOK, Rinfo
  <2>. QED BY <1>0, <2>1, <2>2, <2>4 DEF Inv, Machine, Now
<1>2. w \in ObjWork /\ cur \in Rinfo
  BY <1>1 DEF TypeOK
<1>3. /\ s \in State /\ s.list = list /\ s.cur = cur /\ s.nxt = nxt
      /\ s.row = row \ {w} /\ s.timers = timers /\ s.throttling = throttling
      /\ s.req = req /\ s.direct = direct /\ s.epoch = epoch
  BY DEF TypeOK, Now, State
<1>4. /\ c \in Rinfo /\ c.state = "recover" /\ c.flying = cur.flying \ {w.oid}
      /\ c.todo = cur.todo /\ c.suspended = cur.suspended
      /\ c.throttling = cur.throttling /\ c.trunc = cur.trunc /\ c.id = cur.id
  BY <1>1, <1>2 DEF Rinfo, ObjWork
<1>5. t = [s EXCEPT !.cur = c]
  <2>. HIDE DEF s
  <2>. QED BY <1>3 DEF State
<1>6. c # Null
  BY <1>4, NullAssumption
<1>7. Become(ObjectRecovered(t, w.oid))
  BY <1>1 DEF RecoverObjectMain
<1>. HIDE DEF c, s, t
<1>8. /\ t \in State /\ t.cur = c /\ t.nxt = nxt /\ t.list = list
      /\ t.row = row \ {w} /\ t.timers = timers /\ t.throttling = throttling
      /\ t.req = req /\ t.direct = direct /\ t.epoch = epoch
  BY <1>3, <1>4, <1>5 DEF State
<1>9. /\ Now.req = req /\ Now.direct = direct /\ Now.epoch = epoch
      /\ Now.cur = cur /\ Now.nxt = nxt /\ Now.list = list /\ Now.row = row
      /\ Now.timers = timers /\ Now.throttling = throttling
  BY DEF Now
<1>10. RowMatches(t)
  <2>1. \A v \in row : v.rid = cur.id /\ v.oid \in cur.flying
    BY <1>1, <1>9 DEF RowMatches
  <2>2. \A o \in cur.flying : \E v \in row : v.oid = o
    BY <1>1, <1>9 DEF RowMatches
  <2>3. \A u, v \in row : u.oid = v.oid => u = v
    BY <1>1, <1>9 DEF RowMatches
  <2>4. /\ t.cur.flying = cur.flying \ {w.oid} /\ t.cur.id = cur.id
        /\ t.row = row \ {w}
    BY <1>4, <1>8
  <2>. QED BY <2>1, <2>2, <2>3, <2>4 DEF RowMatches
<1>11. Steady(t)
  BY <1>1, <1>8, <1>9 DEF Steady
<1>12. Running(t)
  BY <1>1, <1>4, <1>8, <1>9 DEF Running, Recovering
<1>13. ASSUME NEW r \in Reqs
       PROVE  \/ t.nxt = Null /\ t.req[r].st = "wait"
                 /\ t.req[r].oid = w.oid /\ t.req[r].local
              \/ Covered(t, r)
  <2>1. Covered(Now, r) /\ req[r] \in Request
    BY <1>0 DEF Inv, TypeOK
  <2>2. \A o : Direct(Now, o) <=> Direct(t, o)
    BY <1>8, <1>9 DEF Direct
  <2>3. \A q : LateFor(Now, q) <=> LateFor(t, q)
    BY <1>8, <1>9 DEF LateFor
  <2>4. \A o : Wakes(Now, o) => Wakes(t, o) \/ (t.nxt = Null /\ o = w.oid)
    BY <1>4, <1>6, <1>8, <1>9 DEF Wakes
  <2>. QED BY <1>8, <1>9, <2>1, <2>2, <2>3, <2>4 DEF Covered
<1>14. w.oid \in Oids
  BY <1>2 DEF ObjWork
<1>15. ~t.cur.throttling
  BY <1>1, <1>4, <1>8
<1>16. Inv(ObjectRecovered(t, w.oid))
  BY <1>4, <1>6, <1>8, <1>10, <1>11, <1>12, <1>13, <1>14, <1>15,
     ObjectRecoveredInv
<1>17. ObjectRecovered(t, w.oid) \in State
  BY <1>6, <1>8, ObjectRecoveredType
<1>. QED BY <1>7, <1>16, <1>17, StepInv

(* recover_object_main() of a direct work keeps the invariant.             *)
LEMMA DirectMainInv ==
  ASSUME TypeOK, IndInv, NEW d \in DirectWork, DirectRecoverObjectMain(d)
  PROVE  IndInv'
<1>. DEFINE g == [direct EXCEPT ![d] = @ - 1]
           s == [Now EXCEPT !.direct = g]
           o == req[d.req].oid
           W == {r \in Sleepers(s) : s.req[r].oid = o /\ s.req[r].local}
<1>0. Inv(Now) /\ Now \in State
  BY NowState DEF DirectRecoverObjectMain, IndInv
<1>1. direct[d] \in Nat /\ direct[d] > 0 /\ direct \in [DirectWork -> Nat]
  BY DEF TypeOK, DirectRecoverObjectMain
<1>2. g \in [DirectWork -> Nat] /\ \A e \in DirectWork : e # d => g[e] = direct[e]
  BY <1>1
<1>3. g[d] <= direct[d]
  BY <1>1
<1>4. Become(WakeupOid(s, o))
  <2>1. [Now EXCEPT !.direct[d] = @ - 1] = s
    BY DEF Now
  <2>. QED BY <2>1 DEF DirectRecoverObjectMain
<1>. HIDE DEF g
<1>5. /\ s \in State /\ s.direct = g /\ s.req = req /\ s.epoch = epoch
      /\ s.cur = cur /\ s.nxt = nxt /\ s.list = list /\ s.row = row
      /\ s.timers = timers /\ s.throttling = throttling
  BY <1>0, <1>2 DEF State, Now
<1>6. /\ Now.req = req /\ Now.direct = direct /\ Now.epoch = epoch
      /\ Now.cur = cur /\ Now.nxt = nxt /\ Now.list = list /\ Now.row = row
      /\ Now.timers = timers /\ Now.throttling = throttling
  BY DEF Now
<1>7. WakeupOid(s, o) = Requeue(s, W)
  BY DEF WakeupOid
<1>8. W \in SUBSET Reqs
  BY DEF Sleepers
<1>9. ASSUME NEW r \in Reqs \ W
      PROVE  Covered(s, r)
  <2>. HIDE DEF s
  <2>1. Covered(Now, r) /\ req[r] \in Request
    BY <1>0 DEF Inv, TypeOK
  <2>2. req[r].st = "wait" /\ req[r].local => req[r].oid # o
    BY <1>5 DEF Sleepers
  <2>3. \A x : x # o /\ Direct(Now, x) => Direct(s, x)
    BY <1>2, <1>5, <1>6 DEF Direct
  <2>4. \A q : LateFor(Now, q) <=> LateFor(s, q)
    BY <1>5, <1>6 DEF LateFor
  <2>5. \A x : Wakes(Now, x) <=> Wakes(s, x)
    BY <1>5, <1>6 DEF Wakes
  <2>6. \A e \in DirectWork : direct[e] = 0 => s.direct[e] = 0
    BY <1>1, <1>2, <1>5
  <2>. HIDE DEF o, W
  <2>. QED BY <1>5, <1>6, <2>1, <2>2, <2>3, <2>4, <2>5, <2>6 DEF Covered
<1>. HIDE DEF s, W
<1>10. Machine(s)
  BY <1>0, <1>5, <1>6, MachineFrame DEF Inv
<1>11. Requeue(s, W) \in State /\ Machine(Requeue(s, W))
  BY <1>5, <1>8, <1>10, RequeueType, RequeueFrame, MachineFrame
<1>12. \A r \in Reqs : Covered(Requeue(s, W), r)
  BY <1>5, <1>8, <1>9, RequeueCovers
<1>. QED BY <1>4, <1>7, <1>11, <1>12, StepInv DEF Inv
(* Replacing one request keeps the others covered, if its direct works     *)
(* keep their object.                                                      *)
LEMMA SetReqCovers ==
  ASSUME TypeOK, Inv(Now), NEW r \in Reqs, NEW q \in Request,
         q.oid = req[r].oid \/ req[r].st = "idle"
  PROVE  LET s == [Now EXCEPT !.req[r] = q] IN
         /\ s \in State /\ Machine(s)
         /\ s.req[r] = q /\ s.epoch = epoch
         /\ \A p \in Reqs \ {r} : Covered(s, p)
<1>. DEFINE s == [Now EXCEPT !.req[r] = q]
<1>0. Now \in State
  BY NowState
<1>1. s \in State
  BY SetReqType
<1>2. /\ s.req = [req EXCEPT ![r] = q] /\ s.direct = direct /\ s.epoch = epoch
      /\ s.cur = cur /\ s.nxt = nxt /\ s.list = list /\ s.row = row
      /\ s.timers = timers /\ s.throttling = throttling
  BY DEF Now
<1>3. /\ Now.req = req /\ Now.direct = direct /\ Now.epoch = epoch
      /\ Now.cur = cur /\ Now.nxt = nxt /\ Now.list = list /\ Now.row = row
      /\ Now.timers = timers /\ Now.throttling = throttling
  BY DEF Now
<1>. HIDE DEF s
<1>4. s.req[r] = q /\ \A p \in Reqs \ {r} : s.req[p] = req[p]
  BY <1>2 DEF TypeOK
<1>5. Machine(s)
  BY <1>0, <1>1, <1>2, <1>3, MachineFrame DEF Inv
<1>6. \A d \in DirectWork :
         d.req \in Reqs /\ (direct[d] > 0 => s.req[d.req].oid = req[d.req].oid)
  <2>. TAKE d \in DirectWork
  <2>1. d.req \in Reqs
    BY DEF DirectWork
  <2>2. CASE d.req # r
    BY <1>4, <2>1, <2>2
  <2>3. CASE d.req = r /\ q.oid = req[r].oid
    BY <1>4, <2>1, <2>3
  <2>4. CASE d.req = r /\ req[r].st = "idle"
    <3>1. direct[d] = 0
      BY <1>3, <2>4 DEF Inv, Covered
    <3>. QED BY <2>1, <3>1
  <2>. QED BY <2>2, <2>3, <2>4
<1>7. \A o : Direct(Now, o) => Direct(s, o)
  BY <1>2, <1>3, <1>6 DEF Direct
<1>8. \A p \in Reqs \ {r} : Covered(s, p)
  <2>1. \A p : LateFor(Now, p) <=> LateFor(s, p)
    BY <1>2, <1>3 DEF LateFor
  <2>2. \A o : Wakes(Now, o) <=> Wakes(s, o)
    BY <1>2, <1>3 DEF Wakes
  <2>. TAKE p \in Reqs \ {r}
  <2>3. Covered(Now, p)
    BY DEF Inv
  <2>4. s.req[p] = Now.req[p] /\ s.direct = Now.direct
    BY <1>2, <1>3, <1>4
  <2>. QED BY <1>7, <2>1, <2>2, <2>3, <2>4 DEF Covered
<1>. QED BY <1>1, <1>2, <1>4, <1>5, <1>8 DEF s

(* The same, followed by queue_request() for that request.                 *)
LEMMA RequeueOneInv ==
  ASSUME TypeOK, Inv(Now), NEW r \in Reqs, NEW q \in Request,
         q.oid = req[r].oid \/ req[r].st = "idle",
         Become(Requeue([Now EXCEPT !.req[r] = q], {r}))
  PROVE  IndInv'
<1>. DEFINE s == [Now EXCEPT !.req[r] = q]
<1>1. s \in State /\ Machine(s) /\ \A p \in Reqs \ {r} : Covered(s, p)
  BY SetReqCovers
<1>. HIDE DEF s
<1>2. Requeue(s, {r}) \in State /\ Machine(Requeue(s, {r}))
  BY <1>1, RequeueType, RequeueFrame, MachineFrame
<1>3. \A p \in Reqs : Covered(Requeue(s, {r}), p)
  BY <1>1, RequeueCovers
<1>. QED BY <1>2, <1>3, StepInv DEF Inv, s

(* Arrival, execution and completion of requests keep the invariant.       *)
LEMMA RequestsInv ==
  ASSUME TypeOK, IndInv, Requests
  PROVE  IndInv'
<1>. PICK r \in Reqs : Arrive(r) \/ Answer(r) \/ OldNodeVer(r) \/ RetryGateway(r)
  BY DEF Requests
<1>0. Inv(Now) /\ req[r] \in Request
  BY DEF IndInv, Arrive, Answer, OldNodeVer, RetryGateway, TypeOK
<1>1. CASE Arrive(r)
  <2>1. PICK q \in Request : Become(Requeue([Now EXCEPT !.req[r] = q], {r}))
    BY <1>1 DEF Arrive
  <2>. QED BY <1>0, <1>1, <2>1, RequeueOneInv DEF Arrive
<1>2. CASE Answer(r)
  <2>. DEFINE q == [IdleRequest EXCEPT !.st = "gone", !.oid = req[r].oid]
             x == [Now EXCEPT !.req[r] = q]
             X == IF req[r].op = "create" /\ req[r].local
                  THEN objs \cup {req[r].oid} ELSE objs
             y == [x EXCEPT !.objs = X]
  <2>1. q \in Request /\ q.oid = req[r].oid /\ q.st = "gone"
    BY <1>0, IdleType DEF Request
  <2>2. X \in SUBSET Oids
    BY <1>0 DEF TypeOK, Request
  <2>3. Become(y)
    BY <1>2 DEF Answer, Now
  <2>. HIDE DEF q
  <2>4. /\ x \in State /\ Machine(x) /\ x.req[r] = q
        /\ \A p \in Reqs \ {r} : Covered(x, p)
    BY <1>0, <2>1, SetReqCovers
  <2>. HIDE DEF x, X
  <2>5. Covered(x, r)
    BY <2>1, <2>4 DEF Covered
  <2>6. /\ y \in State
        /\ y.throttling = x.throttling /\ y.cur = x.cur /\ y.nxt = x.nxt
        /\ y.list = x.list /\ y.row = x.row /\ y.timers = x.timers
        /\ y.req = x.req /\ y.direct = x.direct /\ y.epoch = x.epoch
    BY <2>2, <2>4 DEF State
  <2>7. Inv(x)
    BY <2>4, <2>5 DEF Inv
  <2>. HIDE DEF y
  <2>8. Inv(y)
    BY <2>4, <2>6, <2>7, InvFrame
  <2>. QED BY <2>3, <2>6, <2>8, StepInv
<1>3. CASE OldNodeVer(r)
  <2>1. PICK e \in (req[r].epoch + 1)..MaxEpoch :
          Become(IF e > epoch
                 THEN [[Now EXCEPT !.req[r].result = "OLD", !.req[r].rpepoch = e]
                         EXCEPT !.req[r].st = "wait"]
                 ELSE Requeue([Now EXCEPT !.req[r].result = "OLD",
                                          !.req[r].rpepoch = e], {r}))
    BY <1>3 DEF OldNodeVer
  <2>2. e \in Epochs
    BY <1>0, BoundsAssumption DEF Request, Epochs
  <2>. DEFINE q == [req[r] EXCEPT !.result = "OLD", !.rpepoch = e]
             p == [q EXCEPT !.st = "wait"]
  <2>3. /\ q \in Request /\ p \in Request
        /\ q.oid = req[r].oid /\ p.oid = req[r].oid
        /\ p.st = "wait" /\ p.kind = req[r].kind /\ p.result = "OLD"
        /\ p.rpepoch = e
    BY <1>0, <2>2 DEF Request
  <2>4. [Now EXCEPT !.req[r].result = "OLD", !.req[r].rpepoch = e]
           = [Now EXCEPT !.req[r] = q]
    <3>. DEFINE x == [req[r] EXCEPT !.result = "OLD"]
    <3>0. DOMAIN req = Reqs
      BY DEF TypeOK
    <3>1. [Now EXCEPT !.req[r].result = "OLD"] = [Now EXCEPT !.req[r] = x]
      BY <3>0 DEF Now
    <3>2. q = [x EXCEPT !.rpepoch = e]
      OBVIOUS
    <3>. HIDE DEF x, q
    <3>3. [[Now EXCEPT !.req[r] = x] EXCEPT !.req[r].rpepoch = e]
             = [Now EXCEPT !.req[r] = q]
      BY <3>0, <3>2 DEF Now
    <3>. QED BY <3>1, <3>3
  <2>5. [[Now EXCEPT !.req[r].result = "OLD", !.req[r].rpepoch = e]
            EXCEPT !.req[r].st = "wait"] = [Now EXCEPT !.req[r] = p]
    <3>1. [[Now EXCEPT !.req[r] = q] EXCEPT !.req[r].st = "wait"]
             = [Now EXCEPT !.req[r] = p]
      <4>. HIDE DEF q
      <4>1. DOMAIN req = Reqs
        BY DEF TypeOK
      <4>. QED BY <4>1 DEF Now
    <3>. QED BY <2>4, <3>1
  <2>6. req[r].kind = "gateway"
    BY <1>3 DEF OldNodeVer
  <2>. HIDE DEF p, q
  <2>7. CASE e > epoch
    <3>. DEFINE x == [Now EXCEPT !.req[r] = p]
    <3>1. Become(x)
      BY <2>1, <2>5, <2>7
    <3>2. /\ x \in State /\ Machine(x) /\ x.req[r] = p /\ x.epoch = epoch
          /\ \A v \in Reqs \ {r} : Covered(x, v)
      BY <1>0, <2>3, SetReqCovers
    <3>. HIDE DEF x
    <3>3. LateFor(x, p)
      BY <2>3, <2>6, <2>7, <3>2 DEF LateFor
    <3>4. Covered(x, r)
      BY <2>3, <3>2, <3>3 DEF Covered
    <3>. QED BY <3>1, <3>2, <3>4, StepInv DEF Inv
  <2>8. CASE ~(e > epoch)
    <3>1. Become(Requeue([Now EXCEPT !.req[r] = q], {r}))
      BY <2>1, <2>4, <2>8
    <3>. QED BY <1>0, <2>3, <3>1, RequeueOneInv
  <2>. QED BY <2>7, <2>8
<1>4. CASE RetryGateway(r)
  <2>. DEFINE q == [req[r] EXCEPT !.result = "none"]
  <2>1. q \in Request /\ q.oid = req[r].oid
    BY <1>0 DEF Request
  <2>2. [Now EXCEPT !.req[r].result = "none"] = [Now EXCEPT !.req[r] = q]
    BY DEF Now
  <2>3. Become(Requeue([Now EXCEPT !.req[r] = q], {r}))
    BY <1>4, <2>2 DEF RetryGateway
  <2>. HIDE DEF q
  <2>. QED BY <1>0, <2>1, <2>3, RequeueOneInv
<1>. QED BY <1>1, <1>2, <1>3, <1>4

(* prepare_object_list() keeps the invariant.                              *)
LEMMA PrepareInv ==
  ASSUME TypeOK, IndInv, NEW w \in list, PrepareObjectList(w)
  PROVE  IndInv'
<1>0. Inv(Now) /\ Now \in State
  BY NowState DEF PrepareObjectList, IndInv
<1>1. cur # Null /\ cur \in Rinfo /\ cur.state = "prepare" /\ Preparing(Now)
  <2>1. cur # Null /\ cur.state # "recover"
    BY <1>0 DEF Inv, Machine, Recovering, Running, Now
  <2>2. cur \in Rinfo
    BY <2>1 DEF TypeOK
  <2>3. cur.state = "prepare"
    BY <2>1, <2>2 DEF Rinfo
  <2>. QED BY <1>0, <2>1, <2>2, <2>3 DEF Inv, Machine, Now
<1>2. list = {w} /\ w.rid = cur.id /\ (w.trunc => nxt # Null) /\ w \in ListWork
  BY <1>1 DEF Preparing, Now, TypeOK
<1>3. ASSUME NEW x \in ListWork, x.rid = cur.id, x.trunc => nxt # Null,
             NEW c \in Rinfo, c = cur \/ c = [cur EXCEPT !.cancel = TRUE]
      PROVE  LET t == [Now EXCEPT !.cur = c, !.list = {x}] IN
             t \in State /\ Inv(t)
  <2>. DEFINE t == [Now EXCEPT !.cur = c, !.list = {x}]
  <2>1. /\ t \in State /\ t.cur = c /\ t.list = {x} /\ t.nxt = nxt
        /\ t.row = row /\ t.timers = timers /\ t.throttling = throttling
        /\ t.req = req /\ t.direct = direct /\ t.epoch = epoch
    BY <1>0 DEF State, Now
  <2>2. /\ c.id = cur.id /\ c.state = cur.state /\ c.flying = cur.flying
        /\ c.suspended = cur.suspended /\ c.throttling = cur.throttling
    BY <1>1, <1>3 DEF Rinfo
  <2>3. /\ Now.req = req /\ Now.direct = direct /\ Now.epoch = epoch
        /\ Now.cur = cur /\ Now.nxt = nxt /\ Now.list = list /\ Now.row = row
        /\ Now.timers = timers /\ Now.throttling = throttling
    BY DEF Now
  <2>4. c # Null
    BY NullAssumption
  <2>. HIDE DEF t
  <2>5. Preparing(t)
    BY <1>1, <1>3, <2>1, <2>2, <2>3 DEF Preparing
  <2>6. Steady(Now) /\ RowMatches(Now) /\ ~cur.throttling
    BY <1>0, <1>1, <2>3 DEF Inv, Machine
  <2>7. Steady(t) /\ RowMatches(t) /\ ~t.cur.throttling
    BY <2>1, <2>2, <2>3, <2>6 DEF Steady, RowMatches
  <2>8. Machine(t)
    BY <1>1, <2>1, <2>2, <2>4, <2>5, <2>7 DEF Machine
  <2>9. \A o \in Oids : Wakes(Now, o) => Wakes(t, o)
    BY <2>1, <2>2, <2>3, <2>4 DEF Wakes
  <2>10. \A r \in Reqs : Covered(t, r)
    BY <1>0, <2>1, <2>3, <2>9, CoverMono DEF Inv
  <2>. QED BY <2>1, <2>8, <2>10 DEF Inv, t
<1>4. ASSUME NEW L \in SUBSET LocalAt[w.epoch],
             NEW g \in {{}} \cup {{o} : o \in Oids},
             Become([Now EXCEPT !.list = (@ \ {w}) \cup
                    {[w EXCEPT !.ph = "finished", !.oids = L,
                               !.trunc = nxt # Null, !.tail = g]}])
      PROVE  IndInv'
  <2>. DEFINE x == [w EXCEPT !.ph = "finished", !.oids = L,
                            !.trunc = nxt # Null, !.tail = g]
  <2>1. L \in SUBSET Oids /\ g \in SUBSET Oids
    BY <1>2, PlacementAssumption DEF ListWork
  <2>2. x \in ListWork /\ x.rid = cur.id /\ (x.trunc => nxt # Null)
    BY <1>2, <2>1 DEF ListWork, Phase
  <2>3. Become([Now EXCEPT !.list = (list \ {w}) \cup {x}])
    BY <1>4 DEF Now
  <2>. HIDE DEF x
  <2>4. [Now EXCEPT !.list = (list \ {w}) \cup {x}]
          = [Now EXCEPT !.cur = cur, !.list = {x}]
    <3>1. (list \ {w}) \cup {x} = {x}
      BY <1>2
    <3>2. Now.cur = cur
      BY DEF Now
    <3>. QED BY <1>0, <3>1, <3>2 DEF State
  <2>. QED BY <1>1, <1>3, <2>2, <2>3, <2>4, StepInv
<1>5. CASE Become([Now EXCEPT !.cur.cancel = TRUE,
                     !.list = (@ \ {w}) \cup {[w EXCEPT !.ph = "finished"]}])
  <2>. DEFINE c == [cur EXCEPT !.cancel = TRUE]
             x == [w EXCEPT !.ph = "finished"]
  <2>1. c \in Rinfo
    BY <1>1 DEF Rinfo
  <2>2. x \in ListWork /\ x.rid = cur.id /\ (x.trunc => nxt # Null)
    BY <1>2 DEF ListWork, Phase
  <2>3. Become([Now EXCEPT !.cur = c, !.list = (list \ {w}) \cup {x}])
    BY <1>5 DEF Now
  <2>4. [Now EXCEPT !.cur = c, !.list = (list \ {w}) \cup {x}]
          = [Now EXCEPT !.cur = c, !.list = {x}]
    BY <1>2
  <2>5. [Now EXCEPT !.cur = c, !.list = {x}] \in State
        /\ Inv([Now EXCEPT !.cur = c, !.list = {x}])
    <3>1. c = [cur EXCEPT !.cancel = TRUE]
      OBVIOUS
    <3>. HIDE DEF c, x
    <3>. QED BY <1>3, <2>1, <2>2, <3>1
  <2>. HIDE DEF c, x
  <2>. QED BY <2>3, <2>4, <2>5, StepInv
<1>6. CASE Become(Broken(Now, "uaf"))
  BY <1>0, <1>6, BrokenInv
<1>. QED BY <1>4, <1>5, <1>6 DEF PrepareObjectList

(* The end of a worker's recover_object_work().                            *)
LEMMA WorkDoneInv ==
  ASSUME NEW s \in State, Inv(s), NEW o \in Oids, NEW rid,
         RecoverObjectWork(s, o, rid)
  PROVE  IndInv'
<1>. DEFINE x == [s EXCEPT !.objs = @ \cup {o}]
<1>1. /\ x \in State
      /\ x.throttling = s.throttling /\ x.cur = s.cur /\ x.nxt = s.nxt
      /\ x.list = s.list /\ x.row = s.row /\ x.timers = s.timers
      /\ x.req = s.req /\ x.direct = s.direct /\ x.epoch = s.epoch
  BY DEF State
<1>2. Become(s) \/ Become(x) \/ Become(Broken(s, "uaf"))
  BY DEF RecoverObjectWork
<1>. HIDE DEF x
<1>3. Inv(x)
  BY <1>1, InvFrame
<1>. QED BY <1>1, <1>2, <1>3, StepInv, BrokenInv

(* Every step of a worker thread keeps the invariant.                      *)
LEMMA WorkersInv ==
  ASSUME TypeOK, IndInv, Workers
  PROVE  IndInv'
<1>. USE DEF Workers
<1>0. Now \in State
  BY NowState
<1>9. /\ Now.req = req /\ Now.direct = direct /\ Now.epoch = epoch
      /\ Now.cur = cur /\ Now.nxt = nxt /\ Now.list = list /\ Now.row = row
      /\ Now.timers = timers /\ Now.throttling = throttling
  BY DEF Now
<1>1. ASSUME NEW w \in row, RecoverCounted(w)
      PROVE  IndInv'
  <2>. DEFINE v == [w EXCEPT !.ph = "finished"]
             R == (row \ {w}) \cup {v}
             s == [Now EXCEPT !.row = R]
  <2>0. Inv(Now)
    BY <1>1 DEF RecoverCounted, IndInv
  <2>1. w \in ObjWork /\ v \in ObjWork /\ v.rid = w.rid /\ v.oid = w.oid
    BY DEF TypeOK, ObjWork, Phase
  <2>2. R \in SUBSET ObjWork
    BY <2>1 DEF TypeOK
  <2>3. RecoverObjectWork(s, w.oid, w.rid)
    BY <1>1 DEF RecoverCounted, Now
  <2>4. w.oid \in Oids
    BY <2>1 DEF ObjWork
  <2>. HIDE DEF v, R
  <2>5. /\ s \in State /\ s.row = R
        /\ s.throttling = throttling /\ s.cur = cur /\ s.nxt = nxt
        /\ s.list = list /\ s.timers = timers
        /\ s.req = req /\ s.direct = direct /\ s.epoch = epoch
    BY <1>0, <2>2 DEF State, Now
  <2>. HIDE DEF s
  <2>6. cur # Null /\ RowMatches(Now)
    BY <1>9, <2>0 DEF Inv, Machine
  <2>7. RowMatches(s)
    <3>1. \A y \in R : y \in row \/ y = v
      BY DEF R
    <3>2. v \in R /\ \A y \in row : y # w => y \in R
      BY DEF R
    <3>3. \A y \in R : y.rid = cur.id /\ y.oid \in cur.flying
      BY <1>9, <2>1, <2>6, <3>1 DEF RowMatches
    <3>4. \A o \in cur.flying : \E y \in R : y.oid = o
      BY <1>9, <2>1, <2>6, <3>2 DEF RowMatches
    <3>5. \A y, z \in R : y.oid = z.oid => y = z
      <4>1. \A y \in R : y # v => y \in row /\ y # w
        BY DEF R
      <4>. QED BY <1>9, <2>1, <2>6, <4>1 DEF RowMatches
    <3>. QED BY <2>5, <3>3, <3>4, <3>5 DEF RowMatches
  <2>8. Machine(s)
    BY <1>9, <2>0, <2>5, <2>6, <2>7
       DEF Inv, Machine, Steady, Preparing, Recovering, Running
  <2>9. \A r \in Reqs : Covered(s, r)
    BY <1>0, <1>9, <2>0, <2>5, CoverMono DEF Inv, Wakes
  <2>. QED BY <2>3, <2>4, <2>5, <2>8, <2>9, WorkDoneInv DEF Inv
<1>2. ASSUME NEW d \in DirectWork, RecoverDirect(d)
      PROVE  IndInv'
  <2>. DEFINE f == [d EXCEPT !.ph = "finished"]
             h == [direct EXCEPT ![d] = @ - 1, ![f] = @ + 1]
             s == [Now EXCEPT !.direct = h]
  <2>0. Inv(Now)
    BY <1>2 DEF RecoverDirect, IndInv
  <2>1. /\ f \in DirectWork /\ direct[d] \in Nat /\ direct[d] > 0
        /\ f.req = d.req /\ d.ph = "queued" /\ f.ph = "finished"
    BY <1>2 DEF DirectWork, Phase, RecoverDirect, TypeOK
  <2>2. f # d
    BY <2>1
  <2>3. /\ h \in [DirectWork -> Nat] /\ h[f] > 0
        /\ \A e \in DirectWork : e # d /\ e # f => h[e] = direct[e]
    <3>. HIDE DEF f
    <3>1. direct \in [DirectWork -> Nat]
      BY DEF TypeOK
    <3>. QED BY <2>1, <2>2, <3>1
  <2>4. req[d.req].oid \in Oids
    BY DEF TypeOK, Request, DirectWork
  <2>5. RecoverObjectWork(s, req[d.req].oid, d.rid)
    BY <1>2 DEF RecoverDirect
  <2>. HIDE DEF f, h
  <2>6. /\ s \in State /\ s.direct = h
        /\ s.throttling = throttling /\ s.cur = cur /\ s.nxt = nxt
        /\ s.list = list /\ s.row = row /\ s.timers = timers
        /\ s.req = req /\ s.epoch = epoch
    BY <1>0, <2>3 DEF State, Now
  <2>. HIDE DEF s
  <2>7. Machine(s)
    BY <1>0, <1>9, <2>0, <2>6, MachineFrame DEF Inv
  <2>8. \A o : Direct(Now, o) => Direct(s, o)
    BY <1>9, <2>1, <2>3, <2>6 DEF Direct
  <2>9. \A r \in Reqs : Covered(s, r)
    <3>1. \A q : LateFor(Now, q) <=> LateFor(s, q)
      BY <1>9, <2>6 DEF LateFor
    <3>2. \A o : Wakes(Now, o) <=> Wakes(s, o)
      BY <1>9, <2>6 DEF Wakes
    <3>3. ASSUME NEW r \in Reqs, req[r].st = "idle", NEW e \in DirectWork, e.req = r
          PROVE  s.direct[e] = 0
      <4>1. \A b \in DirectWork : b.req = r => direct[b] = 0
        BY <1>9, <2>0, <3>3 DEF Inv, Covered
      <4>2. d.req # r
        BY <2>1, <4>1
      <4>. QED BY <2>1, <2>3, <2>6, <3>3, <4>1, <4>2
    <3>. QED BY <1>9, <2>0, <2>6, <2>8, <3>1, <3>2, <3>3 DEF Inv, Covered
  <2>. QED BY <2>4, <2>5, <2>6, <2>7, <2>9, WorkDoneInv DEF Inv
<1>3. ASSUME NEW e \in Epochs, NotifyCompletion(e)
      PROVE  IndInv'
  <2>. DEFINE s == [Now EXCEPT !.announce = @ \ {e}]
  <2>0. Inv(Now)
    BY <1>3 DEF NotifyCompletion, IndInv
  <2>1. /\ s \in State
        /\ s.throttling = throttling /\ s.cur = cur /\ s.nxt = nxt
        /\ s.list = list /\ s.row = row /\ s.timers = timers
        /\ s.req = req /\ s.direct = direct /\ s.epoch = epoch
    BY <1>0 DEF State, Now
  <2>2. Become(s)
    BY <1>3 DEF NotifyCompletion
  <2>. HIDE DEF s
  <2>3. Inv(s)
    BY <1>0, <1>9, <2>0, <2>1, InvFrame
  <2>. QED BY <2>1, <2>2, <2>3, StepInv
<1>. QED BY <1>1, <1>2, <1>3, PrepareInv

(* Membership changes, disk failures and commands keep the invariant.      *)
LEMMA OperatorInv ==
  ASSUME TypeOK, IndInv, ~Throttle, Operator
  PROVE  IndInv'
<1>. USE DEF Operator
<1>0. Inv(Now) /\ Now \in State /\ starts \in 0..MaxStart
  BY NowState DEF IndInv, LiftEpoch, KickRecover, DisableRecover,
                  EnableRecover, SetRecovery, ClusterShutdown, LeaveMainLoop
<1>1. CASE LiftEpoch
  <2>. DEFINE s == [Now EXCEPT !.epoch = @ + 1, !.owed = @ \cup {epoch + 1}]
  <2>1. Become(StartRecovery(s, TRUE)) /\ starts < MaxStart
    BY <1>1 DEF LiftEpoch
  <2>2. epoch + 1 \in Epochs /\ epoch \in Nat
    BY <1>1, BoundsAssumption DEF LiftEpoch, TypeOK, Epochs
  <2>3. owed \cup {epoch + 1} \in SUBSET Epochs
    BY <2>2 DEF TypeOK
  <2>4. s = [Now EXCEPT !.epoch = epoch + 1, !.owed = owed \cup {epoch + 1}]
    BY DEF Now
  <2>. HIDE DEF s
  <2>5. /\ s \in State /\ s.cur = Now.cur /\ s.nxt = Now.nxt
        /\ s.list = Now.list /\ s.row = Now.row /\ s.timers = Now.timers
        /\ s.throttling = Now.throttling /\ s.req = Now.req
        /\ s.direct = Now.direct /\ s.epoch = epoch + 1
    BY <1>0, <2>2, <2>3, <2>4 DEF State
  <2>6. s.epoch >= Now.epoch
    <3>1. Now.epoch = epoch
      BY DEF Now
    <3>. QED BY <2>2, <2>5, <3>1
  <2>7. Inv(StartRecovery(s, TRUE))
    BY <1>0, <2>1, <2>5, <2>6, StartRecoveryInv
  <2>. QED BY <1>0, <2>1, <2>5, <2>7, StartRecoveryType, StepInv
<1>2. CASE KickRecover
  <2>1. PICK lost \in SUBSET objs :
          Become(StartRecovery([Now EXCEPT !.objs = @ \ lost], FALSE))
    BY <1>2 DEF KickRecover
  <2>. DEFINE s == [Now EXCEPT !.objs = @ \ lost]
  <2>2. starts < MaxStart
    BY <1>2 DEF KickRecover
  <2>3. /\ s \in State /\ s.cur = Now.cur /\ s.nxt = Now.nxt
        /\ s.list = Now.list /\ s.row = Now.row /\ s.timers = Now.timers
        /\ s.throttling = Now.throttling /\ s.req = Now.req
        /\ s.direct = Now.direct /\ s.epoch = Now.epoch
    BY <1>0 DEF State
  <2>4. s.epoch >= Now.epoch
    BY <1>0, <2>3, BoundsAssumption DEF State, Epochs
  <2>. HIDE DEF s
  <2>5. Inv(StartRecovery(s, FALSE))
    BY <1>0, <2>2, <2>3, <2>4, StartRecoveryInv
  <2>. QED BY <1>0, <2>1, <2>2, <2>3, <2>5, StartRecoveryType, StepInv DEF s
<1>3. CASE DisableRecover
  <2>. DEFINE s == [Now EXCEPT !.disabled = TRUE]
  <2>1. /\ s \in State /\ s.cur = Now.cur /\ s.nxt = Now.nxt
        /\ s.list = Now.list /\ s.row = Now.row /\ s.timers = Now.timers
        /\ s.throttling = Now.throttling /\ s.req = Now.req
        /\ s.direct = Now.direct /\ s.epoch = Now.epoch
    BY <1>0 DEF State
  <2>2. Become(s)
    BY <1>3 DEF DisableRecover
  <2>. HIDE DEF s
  <2>. QED BY <1>0, <2>1, <2>2, InvFrame, StepInv
<1>4. CASE EnableRecover
  <2>. DEFINE s == [Now EXCEPT !.disabled = FALSE]
  <2>1. /\ s \in State /\ s.cur = Now.cur /\ s.nxt = Now.nxt
        /\ s.list = Now.list /\ s.row = Now.row /\ s.timers = Now.timers
        /\ s.throttling = Now.throttling /\ s.req = Now.req
        /\ s.direct = Now.direct /\ s.epoch = Now.epoch
    BY <1>0 DEF State
  <2>2. Become(ResumeSuspended(s))
    BY <1>4 DEF EnableRecover
  <2>. HIDE DEF s
  <2>3. Inv(s)
    BY <1>0, <2>1, InvFrame
  <2>. QED BY <2>1, <2>2, <2>3, ResumeSuspendedInv, ResumeSuspendedType, StepInv
<1>5. CASE SetRecovery
  BY <1>5 DEF SetRecovery
<1>6. CASE ClusterShutdown
  <2>. DEFINE s == [Now EXCEPT !.status = "SHUTDOWN"]
  <2>1. /\ s \in State /\ s.cur = Now.cur /\ s.nxt = Now.nxt
        /\ s.list = Now.list /\ s.row = Now.row /\ s.timers = Now.timers
        /\ s.throttling = Now.throttling /\ s.req = Now.req
        /\ s.direct = Now.direct /\ s.epoch = Now.epoch
    BY <1>0 DEF State
  <2>2. Become(s)
    BY <1>6 DEF ClusterShutdown
  <2>. HIDE DEF s
  <2>. QED BY <1>0, <2>1, <2>2, InvFrame, StepInv
<1>7. CASE LeaveMainLoop
  BY <1>7 DEF LeaveMainLoop, Become, Broken, Now, IndInv, Alive
<1>. QED BY <1>1, <1>2, <1>3, <1>4, <1>5, <1>6, <1>7

-----------------------------------------------------------------------------
(* The invariant holds in every state of a sheep on which throttling is    *)
(* never set, and it is inductive (recovery.c, request.c:68-351).          *)
THEOREM Inductive == ~Throttle => (Spec => []IndInv)
<1>. SUFFICES ASSUME ~Throttle
              PROVE  Spec => []IndInv
  OBVIOUS
<1>1. Init => IndInv
  <2>. SUFFICES ASSUME Init PROVE Inv(Now)
    BY DEF IndInv
  <2>1. Machine(Now)
    BY DEF Init, Machine, Steady, Now
  <2>2. \A r \in Reqs : Covered(Now, r)
    <3>. TAKE r \in Reqs
    <3>1. /\ Now.req[r].st = "idle"
          /\ \A d \in DirectWork : Now.direct[d] = 0
      BY DEF Init, IdleRequest, Now
    <3>. QED BY <3>1 DEF Covered
  <2>. QED BY <2>1, <2>2 DEF Inv
<1>2. TypeOK /\ IndInv /\ [Next]_vars => IndInv'
  <2>. SUFFICES ASSUME TypeOK, IndInv, [Next]_vars
                PROVE  IndInv'
    OBVIOUS
  <2>1. CASE UNCHANGED vars
    <3>1. Become(Now)
      BY <2>1 DEF vars, Become, Now
    <3>2. Now \in State /\ (Now.fault = "none" => Inv(Now))
      BY NowState DEF IndInv, Alive, Now
    <3>. QED BY <3>1, <3>2, StepInv
  <2>2. CASE MainThread
    <3>1. ~RecoverNextObjectDelay
      <4>1. Alive => timers = 0
        BY DEF IndInv, Inv, Machine, Steady, Now
      <4>. QED BY <4>1 DEF RecoverNextObjectDelay
    <3>. QED BY <2>2, <3>1, FinishObjectListInv, RecoverObjectMainInv,
                DirectMainInv DEF MainThread, Callbacks
  <2>3. CASE Workers
    BY <2>3, WorkersInv
  <2>4. CASE Requests
    BY <2>4, RequestsInv
  <2>5. CASE Operator
    BY <2>5, OperatorInv
  <2>. QED BY <2>1, <2>2, <2>3, <2>4, <2>5 DEF Next
<1>. QED BY <1>1, <1>2, TypeCorrect, PTL DEF Spec

(* No request is left in the wait queue without something that will wake   *)
(* it, however many membership changes, disk failures, cancelled           *)
(* recoveries and requests there are (request.c:68-89).                    *)
THEOREM NoLostWakeup == ~Throttle => (Spec => []SleeperHasWaker)
<1>1. TypeOK /\ IndInv => SleeperHasWaker
  <2>. SUFFICES ASSUME TypeOK, IndInv, Alive, NEW r \in Reqs,
                       AwaitsObject(req[r])
                PROVE  /\ req[r].local
                       /\ \/ DirectPending(req[r].oid)
                          \/ cur # Null /\ (nxt # Null
                                             \/ req[r].oid \in cur.flying)
    BY DEF SleeperHasWaker
  <2>1. Covered(Now, r)
    BY DEF IndInv, Inv
  <2>. QED BY <2>1 DEF Covered, AwaitsObject, AwaitsEpoch, LateFor, Direct,
              DirectPending, Wakes, Now
<1>. QED BY <1>1, TypeCorrect, Inductive, PTL

(* A recovery in progress is always driven by a list work, a counted work, *)
(* or waits for the operator (recovery.c:785-817, 881-889).                *)
THEOREM RecoveryIsDriven == ~Throttle => (Spec => []MachineIsDriven)
<1>1. TypeOK /\ IndInv => MachineIsDriven
  <2>. SUFFICES ASSUME TypeOK, IndInv, Alive, cur # Null
                PROVE  \/ \E w \in list : w.rid = cur.id
                       \/ \E w \in row : w.rid = cur.id
                       \/ cur.suspended /\ nxt = Null
    BY DEF MachineIsDriven
  <2>1. Machine(Now) /\ cur.state \in {"prepare", "recover"}
    BY DEF IndInv, Inv, TypeOK, Rinfo
  <2>2. CASE cur.state = "prepare"
    BY <2>1, <2>2 DEF Machine, Preparing, Now
  <2>3. CASE cur.state = "recover"
    <3>1. Recovering(Now) /\ RowMatches(Now)
      BY <2>1, <2>3 DEF Machine, Now
    <3>2. Now.cur = cur /\ Now.nxt = nxt /\ Now.row = row
      BY DEF Now
    <3>3. CASE cur.flying # {}
      BY <3>1, <3>2, <3>3 DEF RowMatches
    <3>4. CASE cur.flying = {}
      BY <3>1, <3>2, <3>4 DEF Recovering, Running
    <3>. QED BY <3>3, <3>4
  <2>. QED BY <2>1, <2>2, <2>3
<1>. QED BY <1>1, TypeCorrect, Inductive, PTL

(* Every callback finds the recovery it was queued for: no handler looks   *)
(* up an object in, or installs a list into, another recovery              *)
(* (recovery.c:793-796, 976-1084).                                         *)
THEOREM CallbacksFindTheirRecovery == ~Throttle => (Spec => []WorksOfCurrent)
<1>1. TypeOK /\ IndInv => WorksOfCurrent
  <2>. SUFFICES ASSUME TypeOK, IndInv, Alive
                PROVE  /\ \A w \in list : /\ cur # Null /\ w.rid = cur.id
                                          /\ cur.state = "prepare"
                       /\ \A w \in row : /\ cur # Null /\ w.rid = cur.id
                                         /\ w.oid \in cur.flying
                       /\ cur # Null =>
                            \A o \in cur.flying : \E w \in row : w.oid = o
    BY DEF WorksOfCurrent
  <2>1. Machine(Now)
    BY DEF IndInv, Inv
  <2>2. cur # Null => cur.state \in {"prepare", "recover"}
    BY DEF TypeOK, Rinfo
  <2>. QED BY <2>1, <2>2 DEF Machine, Preparing, Recovering, Running,
              RowMatches, Now
<1>. QED BY <1>1, TypeCorrect, Inductive, PTL

(* An object list that was cut short is only ever held until the next      *)
(* recovery takes over (recovery.c:1301-1305).                             *)
THEOREM CutListIsTemporary == ~Throttle => (Spec => []TruncatedListNotUsed)
<1>1. IndInv => TruncatedListNotUsed
  BY DEF IndInv, Inv, Machine, Recovering, Running, TruncatedListNotUsed, Now
<1>. QED BY <1>1, Inductive, PTL
=============================================================================
