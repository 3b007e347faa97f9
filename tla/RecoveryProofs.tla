--------------------------- MODULE RecoveryProofs ---------------------------
(***************************************************************************)
(* Proofs about module Recovery, for any objects, requests, placement,     *)
(* number of threads and bounds.                                           *)
(***************************************************************************)
EXTENDS Recovery, TLAPS

State == [epoch : Epochs, status : {"OK", "SHUTDOWN"},
          disabled : BOOLEAN, throttling : BOOLEAN,
          cur : Rinfo \cup {Null}, nxt : Rinfo \cup {Null},
          list : SUBSET ListWork, row : SUBSET ObjWork,
          direct : [DirectWork -> Nat], announce : SUBSET Epochs,
          req : [Reqs -> Request], timers : Nat, objs : SUBSET Oids,
          fault : {"none", "exit", "uaf", "null", "list"}, owed : SUBSET Epochs]

(* Two states that differ at most in what a wakeup changes.                *)
SameButReqs(s, t) ==
  /\ t.epoch = s.epoch /\ t.status = s.status /\ t.disabled = s.disabled
  /\ t.throttling = s.throttling /\ t.cur = s.cur /\ t.nxt = s.nxt
  /\ t.list = s.list /\ t.row = s.row /\ t.announce = s.announce
  /\ t.timers = s.timers /\ t.objs = s.objs /\ t.fault = s.fault
  /\ t.owed = s.owed

(* The type invariant is one fact about the record of the state.           *)
LEMMA NowState == TypeOK <=> Now \in State /\ starts \in 0..MaxStart
  BY DEF TypeOK, Now, State

(* A handler that ends in a well-typed record ends in a well-typed state.  *)
LEMMA BecomeState ==
  ASSUME NEW t \in State, Become(t)
  PROVE  Now' = t
  BY DEF Become, Now, State

(* A request that has not arrived is a request.                            *)
LEMMA IdleType == IdleRequest \in Request
<1>1. (CHOOSE o \in Oids : TRUE) \in Oids
  BY BoundsAssumption
<1>2. 1 \in Epochs /\ "read" \in Ops
  BY BoundsAssumption DEF Epochs
<1> QED
  BY <1>1, <1>2 DEF IdleRequest, Request

(* queue_request() stamps a request with the epoch of the sheep.            *)
LEMMA StampedType ==
  ASSUME NEW s \in State, NEW q \in Request
  PROVE  Stamped(s, q) \in Request
<1>1. s.epoch \in Epochs
  BY DEF State
<1>2. (q.local \/ q.oid \in LocalAt[s.epoch]) \in BOOLEAN
  OBVIOUS
<1>. QED
  BY <1>1, <1>2 DEF Stamped, Request

(* queue_request() leaves a request, whichever branch it takes.            *)
LEMMA QueuedType ==
  ASSUME NEW s \in State, NEW q \in Request
  PROVE  Queued(s, q) \in Request
<1>. DEFINE p == Stamped(s, q)
<1>1. p \in Request
  BY StampedType
<1>2. /\ [IdleRequest EXCEPT !.st = "gone", !.oid = p.oid] \in Request
      /\ [p EXCEPT !.st = "wait", !.result = "NEW"] \in Request
      /\ [p EXCEPT !.st = "wait"] \in Request
      /\ [p EXCEPT !.st = "work"] \in Request
  <2>. HIDE DEF p
  <2>. QED BY <1>1, IdleType DEF Request
<1>0. CASE s.status # "OK"
  BY <1>0, <1>2, Zenon DEF Queued
<1>. SUFFICES ASSUME s.status = "OK" PROVE Queued(s, q) \in Request
  BY <1>0
<1>3. CASE EpochMismatch(s, p) /\ p.epoch < s.epoch
  BY <1>2, <1>3, Zenon DEF Queued
<1>4. CASE EpochMismatch(s, p) /\ ~(p.epoch < s.epoch) /\ p.epoch > s.epoch
  BY <1>2, <1>4, Zenon DEF Queued
<1>5. CASE EpochMismatch(s, p) /\ ~(p.epoch < s.epoch) /\ ~(p.epoch > s.epoch)
  BY <1>2, <1>5, Zenon DEF Queued
<1>6. CASE ~EpochMismatch(s, p) /\ InRecovery(s, p)
  BY <1>2, <1>6, Zenon DEF Queued
<1>7. CASE ~EpochMismatch(s, p) /\ ~InRecovery(s, p) /\ Halts(s, p)
  BY <1>2, <1>7, Zenon DEF Queued
<1>8. CASE ~EpochMismatch(s, p) /\ ~InRecovery(s, p) /\ ~Halts(s, p)
  BY <1>2, <1>8, Zenon DEF Queued
<1>. QED
  BY <1>3, <1>4, <1>5, <1>6, <1>7, <1>8

(* Waking any set of requests leaves a well-typed state.                   *)
LEMMA RequeueType ==
  ASSUME NEW s \in State, NEW W
  PROVE  /\ Requeue(s, W) \in State
         /\ SameButReqs(s, Requeue(s, W))
<1>. DEFINE f == [r \in Reqs |-> IF r \in W THEN Queued(s, s.req[r])
                                            ELSE s.req[r]]
           P(d) == /\ d.req \in W
                   /\ d.ph = "queued"
                   /\ AsksDirect(s, s.req[d.req])
                   /\ d.rid = s.cur.id
           g == [d \in DirectWork |-> IF P(d) THEN s.direct[d] + 1
                                             ELSE s.direct[d]]
<1>1. f \in [Reqs -> Request]
  <2>1. \A r \in Reqs : s.req[r] \in Request
    BY DEF State
  <2>. QED BY <2>1, QueuedType
<1>2. g \in [DirectWork -> Nat]
  <2>1. \A d \in DirectWork : s.direct[d] \in Nat
    BY DEF State
  <2>. HIDE DEF P
  <2>. QED BY <2>1
<1>3. Requeue(s, W) = [s EXCEPT !.req = f, !.direct = g]
  BY Zenon DEF Requeue
<1>. HIDE DEF f, g
<1>. QED BY <1>1, <1>2, <1>3 DEF State, SameButReqs

(* queue_recovery_work() for an object list.                               *)
LEMMA QueueListWorkType ==
  ASSUME NEW s \in State, s.cur # Null
  PROVE  QueueListWork(s) \in State
<1>. DEFINE w == [rid |-> s.cur.id, epoch |-> s.cur.epoch, ph |-> "queued",
                  oids |-> {}, trunc |-> FALSE, tail |-> {}]
<1>1. s.cur \in Rinfo
  BY DEF State
<1>2. w \in ListWork
  BY <1>1 DEF Rinfo, ListWork, Phase
<1>3. QueueListWork(s) = [s EXCEPT !.list = @ \cup {w}]
  BY Zenon DEF QueueListWork
<1>. HIDE DEF w
<1>. QED BY <1>2, <1>3 DEF State

(* queue_recovery_work() for the objects of a set.                         *)
LEMMA QueueObjWorksType ==
  ASSUME NEW s \in State, s.cur # Null, NEW F \in SUBSET Oids
  PROVE  /\ QueueObjWorks(s, F) \in State
         /\ QueueObjWorks(s, F).cur # Null
<1>. DEFINE R == {[rid |-> s.cur.id, oid |-> o, ph |-> "queued"] : o \in F}
           c == [s.cur EXCEPT !.todo = @ \ F, !.flying = @ \cup F]
<1>1. s.cur \in Rinfo
  BY DEF State
<1>2. R \in SUBSET ObjWork
  BY <1>1 DEF Rinfo, ObjWork, Phase
<1>3. c \in Rinfo
  BY <1>1 DEF Rinfo
<1>4. QueueObjWorks(s, F) = [s EXCEPT !.cur = c, !.row = @ \cup R]
  BY <1>1 DEF QueueObjWorks, State, Rinfo
<1>. HIDE DEF c, R
<1>. QED BY <1>2, <1>3, <1>4, NullAssumption DEF State

(* The store learns a new epoch.                                           *)
LEMMA UpdateEpochType ==
  ASSUME NEW s \in State
  PROVE  UpdateEpoch(s) \in State
  BY DEF UpdateEpoch, State

(* run_next_rw(), whether or not it takes over.                            *)
LEMMA RunNextRwType ==
  ASSUME NEW s \in State, s.cur # Null, s.nxt # Null
  PROVE  /\ RunNextRw(s) \in State
         /\ RunNextRw(s).cur # Null
<1>. DEFINE c == [s.nxt EXCEPT !.notify = @ \/ s.cur.notify]
           x == [s EXCEPT !.cur = c, !.nxt = Null]
           u == UpdateEpoch(x)
           v == WakeupAll(u)
<1>1. s.cur \in Rinfo /\ s.nxt \in Rinfo
  BY DEF State
<1>2. c \in Rinfo
  BY <1>1 DEF Rinfo
<1>3. x \in State /\ x.cur = c
  <2>. HIDE DEF c
  <2>. QED BY <1>2 DEF State
<1>4. u \in State /\ u.cur = c
  <2>. HIDE DEF c, x
  <2>. QED BY <1>3, UpdateEpochType DEF UpdateEpoch, State
<1>5. v \in State /\ v.cur = c
  <2>. HIDE DEF c, u
  <2>. QED BY <1>4, RequeueType DEF WakeupAll, SameButReqs
<1>6. c # Null
  BY <1>2, NullAssumption
<1>7. QueueListWork(v) \in State /\ QueueListWork(v).cur = c
  <2>. HIDE DEF c, v
  <2>. QED BY <1>5, <1>6, QueueListWorkType DEF QueueListWork, State
<1>8. RunNextRw(s) = IF s.cur.flying # {} THEN s ELSE QueueListWork(v)
  BY Zenon DEF RunNextRw
<1>. HIDE DEF c, x, u, v
<1>. QED BY <1>6, <1>7, <1>8
(* The current recovery with its flag suspended set to b.                  *)
LEMMA SuspendType ==
  ASSUME NEW s \in State, s.cur # Null, NEW b \in BOOLEAN
  PROVE  /\ [s EXCEPT !.cur.suspended = b] \in State
         /\ [s EXCEPT !.cur.suspended = b].cur = [s.cur EXCEPT !.suspended = b]
         /\ [s EXCEPT !.cur.suspended = b].cur # Null
         /\ [s EXCEPT !.cur.suspended = b].nxt = s.nxt
<1>. DEFINE c == [s.cur EXCEPT !.suspended = b]
<1>1. c \in Rinfo
  BY DEF State, Rinfo
<1>2. c # Null
  BY <1>1, NullAssumption
<1>3. [s EXCEPT !.cur.suspended = b] = [s EXCEPT !.cur = c]
  BY DEF State, Rinfo
<1>. HIDE DEF c
<1>4. /\ [s EXCEPT !.cur = c] \in State
      /\ [s EXCEPT !.cur = c].cur = c
      /\ [s EXCEPT !.cur = c].nxt = s.nxt
  BY <1>1 DEF State
<1>. QED BY <1>2, <1>3, <1>4 DEF c

(* recover_next_object() in each of its branches.                          *)
LEMMA RecoverNextObjectType ==
  ASSUME NEW s \in State, s.cur # Null
  PROVE  /\ RecoverNextObject(s) \in State
         /\ RecoverNextObject(s).cur # Null
<1>1. CASE s.nxt # Null
  BY <1>1, RunNextRwType DEF RecoverNextObject
<1>2. CASE s.nxt = Null /\ s.disabled
  BY <1>2, SuspendType DEF RecoverNextObject
<1>3. CASE s.nxt = Null /\ ~s.disabled /\ s.cur.todo = {}
  BY <1>3 DEF RecoverNextObject
<1>4. CASE s.nxt = Null /\ ~s.disabled /\ s.cur.todo # {}
  <2>. DEFINE F == {CHOOSE o \in s.cur.todo : TRUE}
  <2>1. s.cur \in Rinfo
    BY DEF State
  <2>2. F \in SUBSET Oids
    BY <1>4, <2>1 DEF Rinfo
  <2>3. RecoverNextObject(s) = QueueObjWorks(s, F)
    BY <1>4 DEF RecoverNextObject
  <2>. HIDE DEF F
  <2>. QED BY <2>2, <2>3, QueueObjWorksType
<1>. QED BY <1>1, <1>2, <1>3, <1>4

(* resume_suspended_recovery().                                            *)
LEMMA ResumeSuspendedType ==
  ASSUME NEW s \in State
  PROVE  /\ ResumeSuspended(s) \in State
         /\ s.cur # Null => ResumeSuspended(s).cur # Null
<1>1. CASE s.cur # Null /\ s.cur.suspended
  BY <1>1, SuspendType, RecoverNextObjectType DEF ResumeSuspended
<1>2. CASE ~(s.cur # Null /\ s.cur.suspended)
  BY <1>2 DEF ResumeSuspended
<1>. QED BY <1>1, <1>2

(* finish_recovery().                                                      *)
LEMMA FinishRecoveryType ==
  ASSUME NEW s \in State, s.cur # Null
  PROVE  FinishRecovery(s) \in State
<1>. DEFINE x == [s EXCEPT !.cur = Null]
           t == WakeupAll(x)
<1>1. x \in State
  BY DEF State
<1>2. t \in State
  <2>. HIDE DEF x
  <2>. QED BY <1>1, RequeueType DEF WakeupAll
<1>3. s.cur.epoch \in Epochs
  BY DEF State, Rinfo
<1>. HIDE DEF t
<1>4. [t EXCEPT !.announce = @ \cup {s.cur.epoch},
                !.owed = {e \in @ : e > s.cur.epoch}] \in State
  BY <1>2, <1>3 DEF State
<1>. QED BY <1>2, <1>4 DEF FinishRecovery, t

(* The recovery_info that start_recovery() fills in.                       *)
LEMMA NewRinfoType ==
  ASSUME NEW s \in State, NEW lifted \in BOOLEAN,
         starts \in 0..MaxStart, starts < MaxStart
  PROVE  NewRinfo(s, lifted) \in Rinfo /\ NewRinfo(s, lifted) # Null
<1>1. starts + 1 \in Rids
  BY BoundsAssumption DEF Rids
<1>2. s.epoch \in Epochs /\ s.throttling \in BOOLEAN
  BY DEF State
<1>3. NewRinfo(s, lifted) \in Rinfo
  BY <1>1, <1>2 DEF NewRinfo, Rinfo
<1>. QED BY <1>3, NullAssumption

(* start_recovery(), with and without a current recovery.                  *)
LEMMA StartRecoveryType ==
  ASSUME NEW s \in State, NEW lifted \in BOOLEAN,
         starts \in 0..MaxStart, starts < MaxStart
  PROVE  StartRecovery(s, lifted) \in State
<1>. DEFINE rinfo == NewRinfo(s, lifted)
           u == UpdateEpoch(s)
           x == IF u.cur # Null THEN ResumeSuspended([u EXCEPT !.nxt = rinfo])
                ELSE QueueListWork([u EXCEPT !.cur = rinfo])
<1>1. rinfo \in Rinfo /\ rinfo # Null
  BY NewRinfoType
<1>2. u \in State
  BY UpdateEpochType
<1>. HIDE DEF rinfo, u
<1>3. [u EXCEPT !.nxt = rinfo] \in State
  BY <1>1, <1>2 DEF State
<1>4. [u EXCEPT !.cur = rinfo] \in State /\ [u EXCEPT !.cur = rinfo].cur # Null
  BY <1>1, <1>2 DEF State
<1>5. x \in State
  BY <1>3, <1>4, ResumeSuspendedType, QueueListWorkType
<1>6. StartRecovery(s, lifted) = WakeupEpoch(x)
  BY Zenon DEF StartRecovery, rinfo, u
<1>. HIDE DEF x
<1>. QED BY <1>5, <1>6, RequeueType DEF WakeupEpoch

(* recover_object_main() after its bookkeeping.                            *)
LEMMA ObjectRecoveredType ==
  ASSUME NEW s \in State, s.cur # Null, NEW o
  PROVE  ObjectRecovered(s, o) \in State
<1>. DEFINE t == WakeupOid(s, o)
<1>1. t \in State /\ t.cur # Null
  BY RequeueType DEF WakeupOid, SameButReqs
<1>2. CASE s.nxt # Null
  BY <1>2, RunNextRwType DEF ObjectRecovered
<1>3. CASE s.nxt = Null
  <2>. HIDE DEF t
  <2>1. FinishRecovery(t) \in State /\ RecoverNextObject(t) \in State
    BY <1>1, FinishRecoveryType, RecoverNextObjectType
  <2>2. [t EXCEPT !.timers = @ + 1] \in State
    BY <1>1 DEF State
  <2>. QED BY <1>1, <1>3, <2>1, <2>2 DEF ObjectRecovered, t
<1>. QED BY <1>2, <1>3

(* The loop of the throttling timer callback.                              *)
LEMMA DelayLoopType ==
  ASSUME NEW s \in State, s.cur # Null, NEW n \in Nat, NEW F \in SUBSET Oids
  PROVE  DelayLoop(s, n, F) \in State /\ DelayLoop(s, n, F).cur # Null
<1>1. CASE n = 0 \/ Cardinality(s.cur.flying) > MaxExec
  BY <1>1 DEF DelayLoop
<1>2. CASE ~(n = 0 \/ Cardinality(s.cur.flying) > MaxExec) /\ TakesOver(s, n)
  <2>. DEFINE t == RunNextRw(s)
             b == s.disabled /\ n > 1
  <2>1. t \in State /\ t.cur # Null
    BY <1>2, RunNextRwType DEF TakesOver
  <2>2. DelayLoop(s, n, F) = [t EXCEPT !.cur.suspended = b]
    BY <1>2, Zenon DEF DelayLoop
  <2>3. b \in BOOLEAN
    OBVIOUS
  <2>. HIDE DEF t, b
  <2>. QED BY <2>1, <2>2, <2>3, SuspendType
<1>3. CASE /\ ~(n = 0 \/ Cardinality(s.cur.flying) > MaxExec)
           /\ ~TakesOver(s, n) /\ s.nxt # Null
  BY <1>3, Zenon DEF DelayLoop
<1>4. CASE /\ ~(n = 0 \/ Cardinality(s.cur.flying) > MaxExec)
           /\ ~TakesOver(s, n) /\ s.nxt = Null
  <2>1. DelayLoop(s, n, F) = IF s.disabled
                             THEN [s EXCEPT !.cur.suspended = TRUE]
                             ELSE QueueObjWorks(s, F)
    BY <1>4, Zenon DEF DelayLoop
  <2>. QED BY <2>1, SuspendType, QueueObjWorksType
<1>. QED BY <1>1, <1>2, <1>3, <1>4

(* The throttling timer is armed again.                                    *)
LEMMA RearmType ==
  ASSUME NEW s \in State, s.cur # Null
  PROVE  Rearm(s) \in State
<1>. DEFINE c == [s.cur EXCEPT !.throttling = s.throttling]
           t == [s EXCEPT !.cur.throttling = s.throttling]
<1>1. c \in Rinfo
  BY DEF State, Rinfo
<1>2. t = [s EXCEPT !.cur = c]
  BY DEF State, Rinfo
<1>3. t \in State /\ t.cur # Null
  <2>. HIDE DEF c, t
  <2>. QED BY <1>1, <1>2, NullAssumption DEF State
<1>4. Rearm(s) = IF s.throttling THEN [t EXCEPT !.timers = @ + 1]
                                 ELSE RecoverNextObject(t)
  BY Zenon DEF Rearm
<1>. HIDE DEF t
<1>5. [t EXCEPT !.timers = @ + 1] \in State
  BY <1>3 DEF State
<1>. QED BY <1>3, <1>4, <1>5, RecoverNextObjectType
-----------------------------------------------------------------------------
(* Every action leaves a well-typed state.                                 *)

(* An action ends in the record of a well-typed state.                     *)
LEMMA StepType ==
  ASSUME NEW t \in State, Become(t), starts' \in 0..MaxStart
  PROVE  TypeOK'
<1>1. Now' \in State
  BY BecomeState
<1>. QED BY <1>1 DEF TypeOK, Now, State

(* finish_object_list() in each of its branches.                           *)
LEMMA FinishObjectListType ==
  ASSUME TypeOK, NEW w \in list, FinishObjectList(w)
  PROVE  TypeOK'
<1>. DEFINE s == [Now EXCEPT !.list = @ \ {w}]
           t == [s EXCEPT !.cur.state = "recover", !.cur.todo = w.oids,
                          !.cur.trunc = w.trunc, !.cur.tail = w.tail]
           c == [cur EXCEPT !.state = "recover", !.todo = w.oids,
                            !.trunc = w.trunc, !.tail = w.tail]
<1>1. s \in State /\ s.cur = cur /\ s.nxt = nxt
  BY DEF TypeOK, Now, State
<1>2. w \in ListWork
  BY DEF TypeOK
<1>3. ASSUME cur # Null
      PROVE  t \in State /\ t.cur = c /\ t.cur # Null /\ t.nxt = nxt
  <2>1. cur \in Rinfo
    BY <1>3 DEF TypeOK
  <2>2. c \in Rinfo
    BY <1>2, <2>1 DEF Rinfo, ListWork
  <2>3. t = [s EXCEPT !.cur = c]
    <3>. HIDE DEF s
    <3>. QED BY <1>1, <2>1 DEF State, Rinfo
  <2>. HIDE DEF s, t, c
  <2>. QED BY <1>1, <2>2, <2>3, NullAssumption DEF State
<1>4. starts' \in 0..MaxStart
  BY DEF FinishObjectList, TypeOK
<1>. HIDE DEF s, t, c
<1>5. CASE cur = Null
  <2>1. Become(Broken(s, "null"))
    BY <1>5 DEF FinishObjectList, s
  <2>2. Broken(s, "null") \in State
    BY <1>1 DEF Broken, State
  <2>. QED BY <1>4, <2>1, <2>2, StepType
<1>6. CASE cur # Null /\ cur.id # w.rid
  <2>1. Become(Broken(s, "list"))
    BY <1>6 DEF FinishObjectList, s
  <2>2. Broken(s, "list") \in State
    BY <1>1 DEF Broken, State
  <2>. QED BY <1>4, <2>1, <2>2, StepType
<1>7. CASE cur # Null /\ cur.id = w.rid /\ cur.cancel
  <2>1. Become(FinishRecovery(s))
    BY <1>7 DEF FinishObjectList, s
  <2>. QED BY <1>1, <1>4, <1>7, <2>1, StepType, FinishRecoveryType
<1>8. CASE cur # Null /\ cur.id = w.rid /\ ~cur.cancel /\ nxt # Null
  <2>1. Become(RunNextRw(t))
    BY <1>8 DEF FinishObjectList, s, t
  <2>. QED BY <1>3, <1>4, <1>8, <2>1, StepType, RunNextRwType
<1>9. CASE cur # Null /\ cur.id = w.rid /\ ~cur.cancel /\ nxt = Null
  <2>1. \/ Become(FinishRecovery(t))
        \/ Become([t EXCEPT !.timers = @ + NrThreads])
        \/ Become([t EXCEPT !.cur.suspended = TRUE])
        \/ \E F \in FirstOf(w.oids, NrThreads) : Become(QueueObjWorks(t, F))
    BY <1>9 DEF FinishObjectList, s, t
  <2>2. FinishRecovery(t) \in State
    BY <1>3, <1>9, FinishRecoveryType
  <2>3. [t EXCEPT !.timers = @ + NrThreads] \in State
    BY <1>3, <1>9, BoundsAssumption DEF State
  <2>4. [t EXCEPT !.cur.suspended = TRUE] \in State
    BY <1>3, <1>9, SuspendType
  <2>5. \A F \in FirstOf(w.oids, NrThreads) : QueueObjWorks(t, F) \in State
    BY <1>2, <1>3, <1>9, QueueObjWorksType DEF FirstOf, ListWork
  <2>. QED BY <1>4, <2>1, <2>2, <2>3, <2>4, <2>5, StepType
<1>. QED BY <1>5, <1>6, <1>7, <1>8, <1>9

(* recover_object_main() of a counted work.                                *)
LEMMA RecoverObjectMainType ==
  ASSUME TypeOK, NEW w \in row, RecoverObjectMain(w)
  PROVE  TypeOK'
<1>. DEFINE s == [Now EXCEPT !.row = @ \ {w}]
           t == [s EXCEPT !.cur.done = @ \cup {w.oid},
                          !.cur.flying = @ \ {w.oid}]
           c == [cur EXCEPT !.done = @ \cup {w.oid}, !.flying = @ \ {w.oid}]
<1>1. s \in State /\ s.cur = cur /\ s.nxt = nxt
  BY DEF TypeOK, Now, State
<1>2. w \in ObjWork
  BY DEF TypeOK
<1>4. starts' \in 0..MaxStart
  BY DEF RecoverObjectMain, TypeOK
<1>5. CASE cur = Null \/ w.oid \notin cur.flying
  <2>1. Become(Broken(s, "null"))
    BY <1>5 DEF RecoverObjectMain
  <2>. HIDE DEF s
  <2>2. Broken(s, "null") \in State
    BY <1>1 DEF Broken, State
  <2>. QED BY <1>4, <2>1, <2>2, StepType
<1>6. CASE ~(cur = Null \/ w.oid \notin cur.flying)
  <2>1. cur \in Rinfo
    BY <1>6 DEF TypeOK
  <2>2. c \in Rinfo
    BY <1>2, <2>1 DEF Rinfo, ObjWork
  <2>3. t = [s EXCEPT !.cur = c]
    <3>. HIDE DEF s
    <3>. QED BY <1>1, <2>1 DEF State, Rinfo
  <2>4. t \in State /\ t.cur # Null
    <3>. HIDE DEF s, t, c
    <3>. QED BY <1>1, <2>2, <2>3, NullAssumption DEF State
  <2>5. Become(ObjectRecovered(t, w.oid))
    BY <1>6 DEF RecoverObjectMain
  <2>. HIDE DEF t
  <2>. QED BY <1>4, <2>4, <2>5, StepType, ObjectRecoveredType
<1>. QED BY <1>5, <1>6

(* recover_object_main() of a direct work.                                 *)
LEMMA DirectMainType ==
  ASSUME TypeOK, NEW d \in DirectWork, DirectRecoverObjectMain(d)
  PROVE  TypeOK'
<1>. DEFINE s == [Now EXCEPT !.direct[d] = @ - 1]
<1>1. direct[d] \in Nat /\ direct[d] > 0
  BY DEF TypeOK, DirectRecoverObjectMain
<1>2. [direct EXCEPT ![d] = @ - 1] \in [DirectWork -> Nat]
  BY <1>1 DEF TypeOK
<1>3. s = [Now EXCEPT !.direct = [direct EXCEPT ![d] = @ - 1]]
  BY DEF Now
<1>4. s \in State
  <2>. DEFINE g == [direct EXCEPT ![d] = @ - 1]
  <2>1. Now \in State
    BY NowState
  <2>. HIDE DEF s, g
  <2>. QED BY <1>2, <1>3, <2>1 DEF State, g
<1>5. Become(WakeupOid(s, req[d.req].oid))
  BY DEF DirectRecoverObjectMain
<1>6. starts' \in 0..MaxStart
  BY DEF DirectRecoverObjectMain, TypeOK
<1>. HIDE DEF s
<1>. QED BY <1>4, <1>5, <1>6, StepType, RequeueType DEF WakeupOid

(* The throttling timer callback.                                          *)
LEMMA DelayType ==
  ASSUME TypeOK, RecoverNextObjectDelay
  PROVE  TypeOK'
<1>. DEFINE s == [Now EXCEPT !.timers = @ - 1]
<1>1. s \in State /\ s.cur = cur
  BY DEF TypeOK, Now, State, RecoverNextObjectDelay
<1>2. starts' \in 0..MaxStart
  BY DEF RecoverNextObjectDelay, TypeOK
<1>3. CASE cur = Null /\ Become(s)
  <2>. HIDE DEF s
  <2>. QED BY <1>1, <1>2, <1>3, StepType
<1>4. CASE cur # Null
  <2>1. PICK n \in UnitExec(cur) :
           IF TakesOver(s, n) /\ n = 1
           THEN Become(Broken(DelayLoop(s, n, {}), "uaf"))
           ELSE \E F \in (IF Cardinality(cur.flying) > MaxExec THEN {{}}
                          ELSE FirstOf(cur.todo, Slots(cur, n))) :
                  Become(Rearm(DelayLoop(s, n, F)))
    BY <1>4 DEF RecoverNextObjectDelay
  <2>2. n \in Nat
    BY BoundsAssumption DEF UnitExec
  <2>. HIDE DEF s
  <2>3. \A F \in SUBSET Oids : /\ DelayLoop(s, n, F) \in State
                              /\ DelayLoop(s, n, F).cur # Null
    BY <1>1, <1>4, <2>2, DelayLoopType
  <2>4. CASE Become(Broken(DelayLoop(s, n, {}), "uaf"))
    <3>. DEFINE x == DelayLoop(s, n, {})
    <3>1. x \in State
      BY <2>3
    <3>. HIDE DEF x
    <3>2. Broken(x, "uaf") \in State
      BY <3>1 DEF Broken, State
    <3>. QED BY <1>2, <2>4, <3>2, StepType DEF x
  <2>5. ASSUME NEW F \in SUBSET Oids, Become(Rearm(DelayLoop(s, n, F)))
        PROVE  TypeOK'
    BY <1>2, <2>3, <2>5, RearmType, StepType
  <2>6. FirstOf(cur.todo, Slots(cur, n)) \subseteq SUBSET Oids
    <3>1. cur \in Rinfo
      BY <1>4 DEF TypeOK
    <3>. QED BY <3>1 DEF FirstOf, Rinfo
  <2>. QED BY <2>1, <2>4, <2>5, <2>6
<1>. QED BY <1>3, <1>4 DEF RecoverNextObjectDelay

(* A request as a field of the state.                                      *)
LEMMA SetReqType ==
  ASSUME TypeOK, NEW r \in Reqs, NEW q \in Request
  PROVE  [Now EXCEPT !.req[r] = q] \in State
<1>1. [Now EXCEPT !.req[r] = q] = [Now EXCEPT !.req = [req EXCEPT ![r] = q]]
  BY DEF Now
<1>2. [req EXCEPT ![r] = q] \in [Reqs -> Request]
  BY DEF TypeOK
<1>. DEFINE f == [req EXCEPT ![r] = q]
<1>3. Now \in State
  BY NowState
<1>4. [Now EXCEPT !.req = f] \in State
  <2>. HIDE DEF f
  <2>. QED BY <1>2, <1>3 DEF State, f
<1>. QED BY <1>1, <1>4

(* A new request is queued.                                                *)
LEMMA ArriveType ==
  ASSUME TypeOK, NEW r \in Reqs, Arrive(r)
  PROVE  TypeOK'
<1>1. PICK q \in Request : Become(Requeue([Now EXCEPT !.req[r] = q], {r}))
  BY DEF Arrive
<1>2. Requeue([Now EXCEPT !.req[r] = q], {r}) \in State
  BY SetReqType, RequeueType
<1>3. starts' \in 0..MaxStart
  BY DEF Arrive, TypeOK
<1>. QED BY <1>1, <1>2, <1>3, StepType

(* The workers and done callbacks of a request.                            *)
LEMMA RequestType ==
  ASSUME TypeOK, NEW r \in Reqs, Answer(r) \/ OldNodeVer(r) \/ RetryGateway(r)
  PROVE  TypeOK'
<1>1. req[r] \in Request
  BY DEF TypeOK
<1>2. CASE Answer(r)
  <2>. DEFINE q == [IdleRequest EXCEPT !.st = "gone", !.oid = req[r].oid]
             x == [Now EXCEPT !.req[r] = q]
             X == IF req[r].op = "create" /\ req[r].local
                  THEN objs \cup {req[r].oid} ELSE objs
  <2>1. q \in Request
    BY <1>1, IdleType DEF Request
  <2>2. x \in State
    <3>. HIDE DEF q
    <3>. QED BY <2>1, SetReqType
  <2>3. X \in SUBSET Oids
    BY <1>1 DEF TypeOK, Request
  <2>4. Become([x EXCEPT !.objs = X])
    BY <1>2 DEF Answer, Now
  <2>5. starts' \in 0..MaxStart
    BY <1>2 DEF Answer, TypeOK
  <2>. HIDE DEF x, X
  <2>6. [x EXCEPT !.objs = X] \in State
    BY <2>2, <2>3 DEF State
  <2>. QED BY <2>4, <2>5, <2>6, StepType
<1>3. CASE OldNodeVer(r)
  <2>1. PICK e \in (req[r].epoch + 1)..MaxEpoch :
          Become(IF e > epoch
                 THEN [[Now EXCEPT !.req[r].result = "OLD", !.req[r].rpepoch = e]
                         EXCEPT !.req[r].st = "wait"]
                 ELSE Requeue([Now EXCEPT !.req[r].result = "OLD",
                                          !.req[r].rpepoch = e], {r}))
    BY <1>3 DEF OldNodeVer
  <2>2. e \in Epochs
    BY <1>1, BoundsAssumption DEF Request, Epochs
  <2>. DEFINE q == [req[r] EXCEPT !.result = "OLD", !.rpepoch = e]
             p == [q EXCEPT !.st = "wait"]
  <2>3. q \in Request /\ p \in Request
    BY <1>1, <2>2 DEF Request
  <2>4. [Now EXCEPT !.req[r].result = "OLD", !.req[r].rpepoch = e]
           = [Now EXCEPT !.req[r] = q]
    <3>. DEFINE x == [req[r] EXCEPT !.result = "OLD"]
    <3>0. DOMAIN req = Reqs
      BY DEF TypeOK
    <3>1. [Now EXCEPT !.req[r].result = "OLD"] = [Now EXCEPT !.req[r] = x]
      BY <3>0 DEF Now
    <3>2. q = [x EXCEPT !.rpepoch = e]
      OBVIOUS
    <3>. HIDE DEF x, q
    <3>3. [[Now EXCEPT !.req[r] = x] EXCEPT !.req[r].rpepoch = e]
             = [Now EXCEPT !.req[r] = q]
      BY <3>0, <3>2 DEF Now
    <3>. QED BY <3>1, <3>3
  <2>5. [[Now EXCEPT !.req[r].result = "OLD", !.req[r].rpepoch = e]
            EXCEPT !.req[r].st = "wait"] = [Now EXCEPT !.req[r] = p]
    <3>1. [[Now EXCEPT !.req[r] = q] EXCEPT !.req[r].st = "wait"]
             = [Now EXCEPT !.req[r] = p]
      <4>. HIDE DEF q
      <4>1. DOMAIN req = Reqs
        BY DEF TypeOK
      <4>. QED BY <4>1 DEF Now
    <3>. QED BY <2>4, <3>1
  <2>6. starts' \in 0..MaxStart
    BY <1>3 DEF OldNodeVer, TypeOK
  <2>. HIDE DEF p, q
  <2>7. [Now EXCEPT !.req[r] = p] \in State
    BY <2>3, SetReqType
  <2>8. Requeue([Now EXCEPT !.req[r] = q], {r}) \in State
    BY <2>3, SetReqType, RequeueType
  <2>. QED BY <2>1, <2>4, <2>5, <2>6, <2>7, <2>8, StepType
<1>4. CASE RetryGateway(r)
  <2>. DEFINE q == [req[r] EXCEPT !.result = "none"]
  <2>1. q \in Request
    BY <1>1 DEF Request
  <2>2. [Now EXCEPT !.req[r].result = "none"] = [Now EXCEPT !.req[r] = q]
    BY DEF Now
  <2>3. Become(Requeue([Now EXCEPT !.req[r].result = "none"], {r}))
    BY <1>4 DEF RetryGateway
  <2>4. starts' \in 0..MaxStart
    BY <1>4 DEF RetryGateway, TypeOK
  <2>. HIDE DEF q
  <2>. QED BY <2>1, <2>2, <2>3, <2>4, SetReqType, RequeueType, StepType
<1>. QED BY <1>2, <1>3, <1>4

(* The end of recover_object_work().                                       *)
LEMMA WorkDoneType ==
  ASSUME TypeOK, NEW s \in State, NEW o \in Oids, NEW rid,
         RecoverObjectWork(s, o, rid), starts' = starts
  PROVE  TypeOK'
<1>1. starts' \in 0..MaxStart
  BY DEF RecoverObjectWork, TypeOK
<1>2. [s EXCEPT !.objs = @ \cup {o}] \in State
  BY DEF State
<1>3. Broken(s, "uaf") \in State
  BY DEF State, Broken
<1>4. \/ Become(s)
      \/ Become([s EXCEPT !.objs = @ \cup {o}])
      \/ Become(Broken(s, "uaf"))
  BY DEF RecoverObjectWork
<1>. QED BY <1>1, <1>2, <1>3, <1>4, StepType

(* prepare_object_list() in a worker.                                      *)
LEMMA PrepareType ==
  ASSUME TypeOK, NEW w \in list, PrepareObjectList(w)
  PROVE  TypeOK'
<1>1. w \in ListWork /\ list \in SUBSET ListWork /\ Now \in State
  BY NowState DEF TypeOK
<1>2. starts' \in 0..MaxStart
  BY DEF PrepareObjectList, TypeOK
<1>3. ASSUME NEW x \in ListWork
      PROVE  [Now EXCEPT !.list = (@ \ {w}) \cup {x}] \in State
  BY <1>1, <1>3 DEF State, Now
<1>4. ASSUME NEW L \in SUBSET LocalAt[w.epoch],
             NEW g \in {{}} \cup {{o} : o \in Oids},
             Become([Now EXCEPT !.list = (@ \ {w}) \cup
                    {[w EXCEPT !.ph = "finished", !.oids = L,
                               !.trunc = nxt # Null, !.tail = g]}])
      PROVE  TypeOK'
  <2>. DEFINE x == [w EXCEPT !.ph = "finished", !.oids = L,
                            !.trunc = nxt # Null, !.tail = g]
  <2>1. L \in SUBSET Oids /\ g \in SUBSET Oids
    BY <1>1, PlacementAssumption DEF ListWork
  <2>2. x \in ListWork
    BY <1>1, <2>1 DEF ListWork, Phase
  <2>3. Become([Now EXCEPT !.list = (@ \ {w}) \cup {x}])
    BY <1>4
  <2>. HIDE DEF x
  <2>. QED BY <1>2, <1>3, <2>2, <2>3, StepType
<1>5. CASE /\ cur # Null
           /\ Become([Now EXCEPT !.cur.cancel = TRUE,
                        !.list = (@ \ {w}) \cup {[w EXCEPT !.ph = "finished"]}])
  <2>. DEFINE c == [cur EXCEPT !.cancel = TRUE]
             x == [w EXCEPT !.ph = "finished"]
  <2>1. c \in Rinfo
    BY <1>5 DEF TypeOK, Rinfo
  <2>2. x \in ListWork
    BY <1>1 DEF ListWork, Phase
  <2>3. Become([Now EXCEPT !.cur = c, !.list = (list \ {w}) \cup {x}])
    BY <1>5 DEF Now
  <2>. HIDE DEF c, x
  <2>4. [Now EXCEPT !.cur = c, !.list = (list \ {w}) \cup {x}] \in State
    BY <1>1, <2>1, <2>2 DEF State
  <2>. QED BY <1>2, <2>3, <2>4, StepType
<1>6. CASE Become(Broken(Now, "uaf"))
  <2>1. Broken(Now, "uaf") \in State
    BY <1>1 DEF State, Broken
  <2>. QED BY <1>2, <1>6, <2>1, StepType
<1>. QED BY <1>4, <1>5, <1>6 DEF PrepareObjectList

(* Every step of a worker thread.                                          *)
LEMMA WorkerType ==
  ASSUME TypeOK, Workers
  PROVE  TypeOK'
<1>. USE DEF Workers
<1>1. Now \in State
  BY NowState
<1>2. ASSUME NEW w \in row, RecoverCounted(w)
      PROVE  TypeOK'
  <2>. DEFINE R == (row \ {w}) \cup {[w EXCEPT !.ph = "finished"]}
  <2>1. w \in ObjWork
    BY DEF TypeOK
  <2>2. R \in SUBSET ObjWork
    BY <2>1 DEF TypeOK, ObjWork, Phase
  <2>3. /\ RecoverObjectWork([Now EXCEPT !.row = R], w.oid, w.rid)
        /\ starts' = starts
    BY <1>2 DEF RecoverCounted, Now
  <2>4. w.oid \in Oids
    BY <2>1 DEF ObjWork
  <2>. HIDE DEF R
  <2>5. [Now EXCEPT !.row = R] \in State
    BY <1>1, <2>2 DEF State
  <2>. QED BY <2>3, <2>4, <2>5, WorkDoneType
<1>3. ASSUME NEW d \in DirectWork, RecoverDirect(d)
      PROVE  TypeOK'
  <2>. DEFINE f == [d EXCEPT !.ph = "finished"]
             h == [direct EXCEPT ![d] = @ - 1, ![f] = @ + 1]
  <2>1. f \in DirectWork /\ direct[d] \in Nat /\ direct[d] > 0
    BY <1>3 DEF DirectWork, Phase, RecoverDirect, TypeOK
  <2>3. h \in [DirectWork -> Nat]
    <3>. DEFINE g == [direct EXCEPT ![d] = @ - 1]
    <3>1. g \in [DirectWork -> Nat]
      BY <2>1 DEF TypeOK
    <3>0. d.ph = "queued" /\ f.ph = "finished"
      BY <1>3 DEF RecoverDirect, DirectWork
    <3>2. h = [g EXCEPT ![f] = @ + 1]
      <4>0. f # d
        BY <3>0
      <4>. HIDE DEF f
      <4>. QED BY <2>1, <4>0 DEF TypeOK
    <3>. HIDE DEF f, g, h
    <3>. QED BY <2>1, <3>1, <3>2
  <2>5. req[d.req].oid \in Oids
    BY DEF TypeOK, Request, DirectWork
  <2>6. /\ RecoverObjectWork([Now EXCEPT !.direct = h], req[d.req].oid, d.rid)
        /\ starts' = starts
    BY <1>3 DEF RecoverDirect
  <2>. HIDE DEF f, h
  <2>7. [Now EXCEPT !.direct = h] \in State
    BY <1>1, <2>3 DEF State
  <2>. QED BY <2>5, <2>6, <2>7, WorkDoneType
<1>4. ASSUME NEW e \in Epochs, NotifyCompletion(e)
      PROVE  TypeOK'
  <2>1. starts' \in 0..MaxStart
    BY <1>4 DEF NotifyCompletion, TypeOK
  <2>2. [Now EXCEPT !.announce = @ \ {e}] \in State
    BY <1>1 DEF State
  <2>. QED BY <1>4, <2>1, <2>2, StepType DEF NotifyCompletion
<1>. QED BY <1>2, <1>3, <1>4, PrepareType

(* Membership changes, disk failures and operator commands.                *)
LEMMA OperatorType ==
  ASSUME TypeOK, Operator
  PROVE  TypeOK'
<1>. USE DEF Operator
<1>1. Now \in State /\ starts \in 0..MaxStart
  BY NowState DEF TypeOK
<1>2. CASE LiftEpoch
  <2>. DEFINE s == [Now EXCEPT !.epoch = @ + 1, !.owed = @ \cup {epoch + 1}]
  <2>1. /\ Become(StartRecovery(s, TRUE)) /\ starts < MaxStart
        /\ starts' = starts + 1
    BY <1>2 DEF LiftEpoch
  <2>2. s \in State
    <3>1. epoch + 1 \in Epochs
      BY <1>2, BoundsAssumption DEF LiftEpoch, TypeOK, Epochs
    <3>2. s = [Now EXCEPT !.epoch = epoch + 1, !.owed = owed \cup {epoch + 1}]
      BY DEF Now
    <3>3. owed \cup {epoch + 1} \in SUBSET Epochs
      BY <3>1 DEF TypeOK
    <3>. HIDE DEF s
    <3>. QED BY <1>1, <3>1, <3>2, <3>3 DEF State
  <2>3. starts' \in 0..MaxStart
    BY <1>1, <2>1, BoundsAssumption
  <2>. HIDE DEF s
  <2>. QED BY <1>1, <2>1, <2>2, <2>3, StartRecoveryType, StepType
<1>3. CASE KickRecover
  <2>1. PICK lost \in SUBSET objs :
          Become(StartRecovery([Now EXCEPT !.objs = @ \ lost], FALSE))
    BY <1>3 DEF KickRecover
  <2>2. starts < MaxStart /\ starts' = starts + 1
    BY <1>3 DEF KickRecover
  <2>3. [Now EXCEPT !.objs = @ \ lost] \in State
    BY <1>1 DEF State
  <2>4. starts' \in 0..MaxStart
    BY <1>1, <2>2, BoundsAssumption
  <2>. QED BY <1>1, <2>1, <2>2, <2>3, <2>4, StartRecoveryType, StepType
<1>4. CASE DisableRecover
  <2>1. [Now EXCEPT !.disabled = TRUE] \in State
    BY <1>1 DEF State
  <2>. QED BY <1>1, <1>4, <2>1, StepType DEF DisableRecover
<1>5. CASE EnableRecover
  <2>1. [Now EXCEPT !.disabled = FALSE] \in State
    BY <1>1 DEF State
  <2>. QED BY <1>1, <1>5, <2>1, ResumeSuspendedType, StepType DEF EnableRecover
<1>6. CASE SetRecovery
  <2>1. [Now EXCEPT !.throttling = ~@] \in State
    BY <1>1 DEF State
  <2>. QED BY <1>1, <1>6, <2>1, StepType DEF SetRecovery
<1>7. CASE ClusterShutdown
  <2>1. [Now EXCEPT !.status = "SHUTDOWN"] \in State
    BY <1>1 DEF State
  <2>. QED BY <1>1, <1>7, <2>1, StepType DEF ClusterShutdown
<1>8. CASE LeaveMainLoop
  <2>1. Broken(Now, "exit") \in State
    BY <1>1 DEF State, Broken
  <2>. QED BY <1>1, <1>8, <2>1, StepType DEF LeaveMainLoop
<1>. QED BY <1>2, <1>3, <1>4, <1>5, <1>6, <1>7, <1>8

(* Every state the sheep reaches is well typed, whatever the bounds and    *)
(* the placement: in particular no handler assigns through a NULL          *)
(* current_rinfo (recovery.c, request.c).                                  *)
THEOREM TypeCorrect == Spec => []TypeOK
<1>1. Init => TypeOK
  <2>1. 1 \in Epochs /\ 0 \in 0..MaxStart
    BY BoundsAssumption DEF Epochs
  <2>2. LocalAt[1] \in SUBSET Oids
    BY <2>1, PlacementAssumption
  <2>3. [d \in DirectWork |-> 0] \in [DirectWork -> Nat]
    OBVIOUS
  <2>4. [r \in Reqs |-> IdleRequest] \in [Reqs -> Request]
    BY IdleType
  <2>. SUFFICES ASSUME Init PROVE TypeOK
    OBVIOUS
  <2>5. /\ direct \in [DirectWork -> Nat] /\ req \in [Reqs -> Request]
        /\ objs \in SUBSET Oids /\ epoch \in Epochs
    BY <2>1, <2>2, <2>3, <2>4, Zenon DEF Init
  <2>6. /\ starts \in 0..MaxStart /\ timers \in Nat
        /\ disabled \in BOOLEAN /\ throttling \in BOOLEAN
        /\ list \in SUBSET ListWork /\ row \in SUBSET ObjWork
        /\ announce \in SUBSET Epochs /\ owed \in SUBSET Epochs
    BY <2>1 DEF Init
  <2>7. /\ cur \in Rinfo \cup {Null} /\ nxt \in Rinfo \cup {Null}
        /\ fault \in {"none", "exit", "uaf", "null", "list"}
        /\ status \in {"OK", "SHUTDOWN"}
    BY DEF Init
  <2>. QED BY <2>5, <2>6, <2>7, Zenon DEF TypeOK
<1>2. TypeOK /\ [Next]_vars => TypeOK'
  <2>. SUFFICES ASSUME TypeOK, [Next]_vars
                PROVE  TypeOK'
    OBVIOUS
  <2>1. CASE UNCHANGED vars
    BY <2>1 DEF vars, TypeOK
  <2>2. CASE MainThread
    BY <2>2, FinishObjectListType, RecoverObjectMainType, DirectMainType,
       DelayType DEF MainThread, Callbacks
  <2>3. CASE Workers
    BY <2>3, WorkerType
  <2>4. CASE Requests
    BY <2>4, ArriveType, RequestType DEF Requests
  <2>5. CASE Operator
    BY <2>5, OperatorType
  <2>. QED BY <2>1, <2>2, <2>3, <2>4, <2>5 DEF Next
<1>. QED BY <1>1, <1>2, PTL DEF Spec
=============================================================================
