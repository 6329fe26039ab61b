-------------------------- MODULE WsSession_proof --------------------------
(***************************************************************************)
(* For every set of markets, queue size and flush fraction, and in every   *)
(* mode: a payload that was read is in exactly one place, whatever the     *)
(* number of workers; with a single writer worker a session that ends      *)
(* leaves no ticker state behind, and WsSession implements TapeChannel.    *)
(***************************************************************************)
EXTENDS WsSession, FiniteSetTheorems, TLAPS

\* The payloads that the program makes are payloads.
LEMMA NothingType ==
  /\ Nothing \in Payload /\ Pill \in Payload
  /\ \A e \in Nat : EventOf(e) \in Payload
  /\ \A f \in [Market -> Nat] : TicksOf(f) \in Payload
BY DEF Nothing, Pill, EventOf, TicksOf, NoTicks, Payload

\* So is what the coalescer makes of the pending states.
LEMMA PayloadsType ==
  ASSUME NEW f \in [Market -> Nat]
  PROVE  Payloads(f) \in SUBSET Payload
BY NothingType DEF Payloads, Only

\* And everything in flight.
LEMMA InFlightType ==
  TypeOK => InFlight \in SUBSET Payload
BY NothingType DEF TypeOK, InFlight

\* TypeOK holds in every reachable state: the queue never exceeds its size.
THEOREM WsTypeCorrect == Spec => []TypeOK
<1>1. Init => TypeOK
  BY ConstantsOk, NothingType DEF Init, TypeOK, NoTicks
<1>2. TypeOK /\ [Next]_vars => TypeOK'
  <2> SUFFICES ASSUME TypeOK, [Next]_vars PROVE TypeOK'
    OBVIOUS
  <2> USE DEF TypeOK, session, coalescer, allowlist, pool, feed, db, lost
  <2>1. CASE Connect
    BY <2>1, ConstantsOk, NothingType DEF Connect, NoTicks
  <2>2. ASSUME NEW m \in Market, ReadTick(m) PROVE TypeOK'
    <3>1. /\ seen[m] + 1 \in Nat
          /\ [NoTicks EXCEPT ![m] = seen[m] + 1] \in [Market -> Nat]
      BY DEF NoTicks
    <3>2. seen' \in [Market -> Nat] /\ pending' \in [Market -> Nat]
      BY <2>2, <3>1 DEF ReadTick
    <3>3. inHand' \in Payload
      BY <2>2, <3>1, NothingType DEF ReadTick
    <3> QED BY <2>2, <3>2, <3>3 DEF ReadTick
  <2>3. CASE ReadEvent
    BY <2>3, NothingType DEF ReadEvent
  <2>4. CASE ReaderPut
    BY <2>4, ConstantsOk, NothingType DEF ReaderPut, Put
  <2>5. CASE CoalesceTick
    <3>1. Payloads(pending) \in SUBSET Payload /\ NoTicks \in [Market -> Nat]
      BY PayloadsType DEF NoTicks
    <3> QED BY <2>5, <3>1 DEF CoalesceTick
  <2>6. CASE CoalescePut
    BY <2>6, ConstantsOk DEF CoalescePut, Put
  <2>7. CASE CoalesceLoop
    <3>1. Payloads(pending) \in SUBSET Payload /\ NoTicks \in [Market -> Nat]
      BY PayloadsType DEF NoTicks
    <3> QED BY <2>7, <3>1 DEF CoalesceLoop
  <2>8. CASE Allowlist
    BY <2>8 DEF Allowlist, KnownRefresh, KnownLoop
  <2>9. ASSUME NEW w \in Worker, Writer(w) PROVE TypeOK'
    <3>1. CASE WorkerGet(w)
      <4>1. queue' \in Seq(Payload) /\ Len(queue') <= QueueSize
        BY <3>1, ConstantsOk DEF WorkerGet
      <4>2. Head(queue) \in Payload
        BY <3>1 DEF WorkerGet
      <4>3. held' \in [Worker -> Payload]
        BY <3>1, <4>2 DEF WorkerGet
      <4>4. worker' \in [Worker -> {"getting", "writing", "retrying", "exit"}]
        BY <3>1 DEF WorkerGet
      <4>5. unfinished' \in Int
        BY <3>1 DEF WorkerGet
      <4> QED BY <3>1, <4>1, <4>3, <4>4, <4>5 DEF WorkerGet
    <3>2. CASE WorkerCommit(w)
      <4>1. held[w].ticks \in [Market -> Nat] /\ held[w].ev \in Nat
        BY DEF Payload
      <4>2. store' \in [Market -> Nat]
        BY <3>2, <4>1 DEF WorkerCommit, Stored
      <4>3. log' \in Seq(Nat)
        BY <3>2, <4>1 DEF WorkerCommit
      <4>4. held' \in [Worker -> Payload] /\ unfinished' \in Int
        BY <3>2, NothingType DEF WorkerCommit, WorkerDone
      <4>5. worker' \in [Worker -> {"getting", "writing", "retrying", "exit"}]
        BY <3>2 DEF WorkerCommit, WorkerDone
      <4> QED BY <3>2, <4>2, <4>3, <4>4, <4>5 DEF WorkerCommit
    <3>3. CASE WorkerDeadlock(w)
      BY <3>3 DEF WorkerDeadlock
    <3>4. CASE WorkerFail(w)
      <4>1. \A x \in {held[w]} : x.ticks \in [Market -> Nat] /\ x.ev \in Nat
        BY DEF Payload
      <4>2. missed' \in [Market -> SUBSET Nat]
        BY <4>1, <3>4 DEF WorkerFail, Missed
      <4>3. dropped' \in SUBSET Nat
        BY <4>1, <3>4 DEF WorkerFail, EventsOf
      <4>4. held' \in [Worker -> Payload] /\ unfinished' \in Int
        BY <3>4, NothingType DEF WorkerFail, WorkerDone
      <4> QED BY <3>4, <4>2, <4>3, <4>4 DEF WorkerFail, WorkerDone
    <3> QED BY <2>9, <3>1, <3>2, <3>3, <3>4 DEF Writer
  <2>10. CASE Close \/ KnownJoined \/ Join
    BY <2>10 DEF Close, KnownJoined, Join
  <2>11. CASE CoalescerJoined
    BY <2>11, ConstantsOk, FS_CardinalityType DEF CoalescerJoined
  <2>12. CASE PutPill
    BY <2>12, ConstantsOk, NothingType DEF PutPill, Put
  <2>13. CASE Crash
    <3>1. \A x \in InFlight : x.ticks \in [Market -> Nat] /\ x.ev \in Nat
      BY InFlightType DEF Payload
    <3>2. missed' \in [Market -> SUBSET Nat]
      BY <3>1, <2>13 DEF Crash, Missed
    <3>3. dropped' \in SUBSET Nat
      <4>1. dropped' = dropped \cup EventsOf(InFlight) /\ dropped \in SUBSET Nat
        BY <2>13 DEF Crash
      <4> HIDE DEF TypeOK
      <4> QED BY <3>1, <4>1 DEF EventsOf
    <3> QED
      BY <2>13, <3>2, <3>3, ConstantsOk, NothingType DEF Crash, NoTicks
  <2>14. CASE UNCHANGED vars
    BY <2>14 DEF vars
  <2> QED
    BY <2>1, <2>2, <2>3, <2>4, <2>5, <2>6, <2>7, <2>8, <2>9, <2>10, <2>11,
       <2>12, <2>13, <2>14
       DEF Next, Reader, Coalescer, Shutdown
<1> QED BY <1>1, <1>2, PTL DEF Spec

-----------------------------------------------------------------------------
(* Facts about payloads.                                                   *)

\* Nothing and a sentinel carry no state and no event: any order is theirs.
LEMMA NothingBefore ==
  ASSUME NEW x
  PROVE  /\ Before(Nothing, x) /\ Before(x, Nothing)
         /\ Before(Pill, x) /\ Before(x, Pill)
BY DEF Before, Nothing, Pill, NoTicks

\* They are fresh, as are no pending states.
LEMMA NothingFresh ==
  TypeOK => Fresh(Nothing) /\ Fresh(Pill) /\ Fresh(TicksOf(NoTicks))
BY DEF TypeOK, Fresh, Nothing, Pill, TicksOf, NoTicks

\* No pending states are before and after everything.
LEMMA NoTicksBefore ==
  ASSUME NEW x
  PROVE  Before(TicksOf(NoTicks), x) /\ Before(x, TicksOf(NoTicks))
BY DEF Before, TicksOf, NoTicks

\* A payload made of the states f holds, of each market, f[m] or nothing; two
\* of them share no market.
LEMMA PayloadsOf ==
  ASSUME NEW f \in [Market -> Nat], NEW x \in Payloads(f)
  PROVE  /\ x.ev = 0
         /\ \A m \in Market : x.ticks[m] = f[m] \/ x.ticks[m] = 0
         /\ \A y \in Payloads(f) : x # y => Before(x, y)
<1>1. CASE BatchWrites
  BY <1>1 DEF Payloads, TicksOf, Before
<1>2. CASE ~BatchWrites
  <2>1. \A y \in Payloads(f) : \E m \in Market : y = TicksOf(Only(f, m))
    BY <1>2 DEF Payloads
  <2> QED BY <2>1 DEF TicksOf, Only, Before
<1> QED BY <1>1, <1>2

\* The ordering invariant, what it needs besides, and the pool of one worker.
Inv == TypeOK /\ Modes /\ AllProper /\ PipelineOrdered
SingleWorker == \A v, w \in Worker : v = w

\* Where the payloads in flight are.
LEMMA InFlightMembers ==
  /\ \A i \in DOMAIN queue : queue[i] \in InFlight
  /\ \A w \in Worker : held[w] \in InFlight
  /\ \A x \in flush : x \in InFlight
  /\ inHand \in InFlight /\ TicksOf(pending) \in InFlight
BY DEF InFlight

\* The numbers a payload is compared with.
LEMMA NumbersType ==
  TypeOK => /\ \A m \in Market : seen[m] \in Nat /\ store[m] \in Nat
            /\ arrived \in Nat /\ DOMAIN seen = Market
BY DEF TypeOK

\* A payload stays fresh as long as the database does not change.
LEMMA StillFresh ==
  ASSUME TypeOK, TypeOK', UNCHANGED db, NEW x \in Payload, Fresh(x),
         \A m \in Market : seen[m] <= seen'[m], arrived <= arrived'
  PROVE  Fresh(x)'
<1>1. /\ \A m \in Market : seen[m] \in Nat /\ seen'[m] \in Nat
      /\ arrived \in Nat /\ arrived' \in Nat
  BY DEF TypeOK
<1>2. /\ store' = store /\ log' = log
      /\ x.ev \in Nat /\ \A m \in Market : x.ticks[m] \in Nat
  BY DEF db, Payload
<1>3. \A m \in Market : x.ticks[m] <= seen'[m]
  BY <1>1, <1>2 DEF Fresh
<1>4. x.ev <= arrived'
  BY <1>1, <1>2 DEF Fresh
<1> QED BY <1>2, <1>3, <1>4 DEF Fresh

\* A step that only moves payloads keeps them fresh.
LEMMA MoveFresh ==
  ASSUME TypeOK, TypeOK', AllFresh, UNCHANGED <<feed, db>>,
         \A x \in InFlight' : x \in InFlight \/ Fresh(x)
  PROVE  AllFresh'
BY DEF AllFresh, Fresh, feed, db

\* A connection starts with nothing in flight.
LEMMA ConnectInv ==
  ASSUME Inv, TypeOK', Connect PROVE PipelineOrdered' /\ Modes'
<1>1. /\ UNCHANGED <<feed, db, inHand>>
      /\ pending' = NoTicks /\ flush' = {} /\ queue' = <<>>
      /\ \A w \in Worker : held'[w] = Nothing
  BY DEF Connect
<1>2. AllFresh'
  <2>1. \A x \in InFlight' : x \in {Nothing, inHand, TicksOf(NoTicks)}
    BY <1>1 DEF InFlight
  <2> QED
    BY <1>1, <2>1, MoveFresh, NothingFresh, InFlightMembers
       DEF Inv, PipelineOrdered, AllFresh
<1>3. HeldFirst' /\ QueueOrdered' /\ FlushOrdered'
  BY <1>1, NothingBefore, NoTicksBefore DEF HeldFirst, QueueOrdered, FlushOrdered
<1>4. Modes'
  BY <1>1 DEF Inv, Modes
<1> QED BY <1>2, <1>3, <1>4 DEF PipelineOrdered

\* A ticker state that is read is younger than everything in flight, and takes
\* the place of the older one of its market.
LEMMA ReadTickInv ==
  ASSUME Inv, TypeOK', NEW m \in Market, ReadTick(m)
  PROVE  PipelineOrdered' /\ Modes'
<1> DEFINE v == seen[m] + 1
<1>0. TypeOK /\ seen[m] \in Nat
  BY DEF Inv, TypeOK
<1>1. /\ seen' = [seen EXCEPT ![m] = v] /\ UNCHANGED <<arrived, db>>
      /\ UNCHANGED <<flush, queue, held, worker>>
      /\ Coalesce => pending' = [pending EXCEPT ![m] = v] /\ UNCHANGED inHand
      /\ ~Coalesce => /\ inHand' = TicksOf([NoTicks EXCEPT ![m] = v])
                      /\ UNCHANGED pending
  BY DEF ReadTick, pool
<1>2. /\ \A n \in Market : seen[n] <= seen'[n]
      /\ seen'[m] = v
  BY <1>0, <1>1, NumbersType
<1>3. ASSUME NEW x \in InFlight
      PROVE  x \in Payload /\ Fresh(x)' /\ x.ticks[m] < v
  <2>1. x \in Payload /\ Fresh(x)
    BY <1>0, InFlightType DEF Inv, PipelineOrdered, AllFresh
  <2>2. x.ticks[m] <= seen[m] /\ x.ticks[m] \in Nat
    BY <2>1 DEF Fresh, Payload
  <2>3. arrived <= arrived'
    BY <1>0, <1>1 DEF TypeOK
  <2> QED BY <2>1, <2>2, <2>3, <1>0, <1>1, <1>2, StillFresh
<1>4. \A n \in Market : store[n] <= seen[n] /\ store[n] \in Nat
  BY <1>0 DEF Inv, PipelineOrdered, AllFresh, TypeOK
<1>5. /\ \A n \in Market : store'[n] <= seen'[n]
      /\ \A i \in DOMAIN log' : log'[i] <= arrived'
  BY <1>0, <1>1, <1>2, <1>4 DEF Inv, PipelineOrdered, AllFresh, db, TypeOK
<1>6. CASE Coalesce
  <2>1. pending' = [pending EXCEPT ![m] = v] /\ inHand' = inHand
    BY <1>1, <1>6
  <2>2. ASSUME NEW x, x = TicksOf(pending') PROVE Fresh(x)'
    <3>1. PICK y \in InFlight : y = TicksOf(pending)
      BY InFlightMembers
    <3>2. Fresh(y)' /\ y.ev = 0 /\ y.ticks = pending
      BY <1>3, <3>1 DEF TicksOf
    <3>3. x.ev = 0 /\ x.ticks = [pending EXCEPT ![m] = v]
      BY <2>1, <2>2 DEF TicksOf
    <3>4. pending \in [Market -> Nat]
      BY <1>0 DEF TypeOK
    <3>5. ASSUME NEW n \in Market
          PROVE  x.ticks[n] <= seen'[n] /\ (x.ticks[n] # 0 => store'[n] < x.ticks[n])
      <4>1. CASE n = m
        BY <4>1, <3>3, <3>4, <1>0, <1>1, <1>2, <1>4 DEF db
      <4>2. CASE n # m
        BY <4>2, <3>2, <3>3, <3>4 DEF Fresh
      <4> QED BY <4>1, <4>2
    <3>6. 0 <= arrived'
      BY <1>0, <1>1, NumbersType
    <3> QED BY <3>3, <3>5, <3>6 DEF Fresh
  <2>3. ASSUME NEW x \in InFlight, Before(x, TicksOf(pending))
        PROVE  Before(x, TicksOf(pending'))
    BY <1>0, <2>1, <2>3, <1>3 DEF Before, TicksOf, TypeOK
  <2>4. AllFresh'
    <3>1. \A x \in InFlight' : x \in InFlight \/ x = TicksOf(pending')
      BY <1>1, <2>1 DEF InFlight
    <3> QED BY <3>1, <1>3, <1>5, <2>2 DEF AllFresh
  <2>5. HeldFirst' /\ QueueOrdered' /\ FlushOrdered'
    BY <1>1, <2>1, <2>3, InFlightMembers
       DEF Inv, PipelineOrdered, HeldFirst, QueueOrdered, FlushOrdered
  <2>6. Modes'
    BY <1>1, <1>6, <2>1 DEF Inv, Modes
  <2> QED BY <2>4, <2>5, <2>6 DEF PipelineOrdered
<1>7. CASE ~Coalesce
  <2> DEFINE new == TicksOf([NoTicks EXCEPT ![m] = v])
  <2>1. inHand' = new /\ pending' = pending /\ pending = NoTicks /\ flush = {}
    BY <1>1, <1>7 DEF Inv, Modes
  <2>2. ASSUME NEW x, x = new PROVE Fresh(x)'
    <3>1. x.ev = 0 /\ x.ticks = [NoTicks EXCEPT ![m] = v]
      BY <2>2 DEF TicksOf
    <3> QED BY <3>1, <1>0, <1>1, <1>2, <1>4 DEF Fresh, NoTicks, TypeOK, db
  <2>3. \A x \in InFlight : Before(x, new)
    BY <1>3 DEF Before, TicksOf, NoTicks
  <2>4. AllFresh'
    <3>1. \A x \in InFlight' : x \in InFlight \/ x = new
      BY <1>1, <2>1 DEF InFlight
    <3> QED BY <3>1, <1>3, <1>5, <2>2 DEF AllFresh
  <2>5. HeldFirst' /\ QueueOrdered' /\ FlushOrdered'
    BY <1>1, <2>1, <2>3, InFlightMembers, NoTicksBefore
       DEF Inv, PipelineOrdered, HeldFirst, QueueOrdered, FlushOrdered
  <2>6. Modes'
    BY <1>1, <1>7, <2>1 DEF Inv, Modes
  <2> QED BY <2>4, <2>5, <2>6 DEF PipelineOrdered
<1> QED BY <1>6, <1>7

\* An event that is read is younger than everything in flight.
LEMMA ReadEventInv ==
  ASSUME Inv, TypeOK', ReadEvent PROVE PipelineOrdered' /\ Modes'
<1> DEFINE new == EventOf(arrived + 1)
<1>0. TypeOK /\ arrived \in Nat
  BY DEF Inv, TypeOK
<1>1. /\ inHand' = new /\ arrived' = arrived + 1 /\ UNCHANGED <<seen, db>>
      /\ UNCHANGED <<flush, pending, queue, held, worker>>
  BY DEF ReadEvent, pool, coalescer
<1>2. ASSUME NEW x \in InFlight
      PROVE  x \in Payload /\ Fresh(x)' /\ x.ev <= arrived
  <2>1. x \in Payload /\ Fresh(x)
    BY <1>0, InFlightType DEF Inv, PipelineOrdered, AllFresh
  <2>2. arrived <= arrived' /\ \A n \in Market : seen[n] <= seen'[n]
    BY <1>0, <1>1 DEF TypeOK
  <2> QED BY <2>1, <2>2, <1>0, <1>1, StillFresh DEF Fresh
<1>3. \A i \in DOMAIN log : log[i] \in Nat /\ log[i] <= arrived
  BY <1>0 DEF Inv, PipelineOrdered, AllFresh, TypeOK
<1>4. ASSUME NEW x, x = new PROVE Fresh(x)'
  <2>1. x.ev = arrived + 1 /\ x.ticks = NoTicks
    BY <1>4 DEF EventOf
  <2> QED BY <2>1, <1>0, <1>1, <1>3 DEF Fresh, NoTicks, TypeOK, db
<1>5. \A x \in InFlight : Before(x, new)
  BY <1>0, <1>2 DEF Before, EventOf, NoTicks, Payload
<1>6. \A x \in flush \cup {TicksOf(pending)} : Before(new, x)
  BY DEF Before, EventOf, NoTicks, Inv, Modes, TicksOf
<1>7. AllFresh'
  <2>1. \A x \in InFlight' : x \in InFlight \/ x = new
    BY <1>1 DEF InFlight
  <2>2. \A n \in Market : store'[n] <= seen'[n]
    BY <1>1 DEF Inv, PipelineOrdered, AllFresh, db
  <2>3. \A i \in DOMAIN log' : log'[i] <= arrived'
    BY <1>0, <1>1, <1>3 DEF db
  <2> QED BY <2>1, <2>2, <2>3, <1>2, <1>4 DEF AllFresh
<1>8. HeldFirst' /\ QueueOrdered' /\ FlushOrdered'
  BY <1>1, <1>5, <1>6, InFlightMembers
     DEF Inv, PipelineOrdered, HeldFirst, QueueOrdered, FlushOrdered
<1>9. Modes'
  BY <1>1 DEF Inv, Modes, EventOf
<1> QED BY <1>7, <1>8, <1>9 DEF PipelineOrdered

\* The queue after a put and after a get.
LEMMA PutQueue ==
  ASSUME TypeOK, NEW item \in Payload, Put(item)
  PROVE  \A i \in DOMAIN queue' :
           \/ i \in DOMAIN queue /\ queue'[i] = queue[i]
           \/ /\ queue'[i] = item
              /\ \A j \in DOMAIN queue' : ~(i < j)
BY DEF TypeOK, Put

\* What an append leaves in a sequence.
LEMMA AppendElements ==
  ASSUME NEW s \in Seq(Nat), NEW e \in Nat
  PROVE  \A i \in DOMAIN Append(s, e) :
           \/ i \in DOMAIN s /\ Append(s, e)[i] = s[i]
           \/ Append(s, e)[i] = e
OBVIOUS

\* What a get leaves in the queue.
LEMMA TailQueue ==
  ASSUME TypeOK, queue # <<>>, queue' = Tail(queue)
  PROVE  /\ 1 \in DOMAIN queue /\ Head(queue) = queue[1]
         /\ \A i \in DOMAIN queue' :
              /\ i + 1 \in DOMAIN queue /\ queue'[i] = queue[i + 1]
              /\ 1 < i + 1
              /\ \A j \in DOMAIN queue' : i < j => i + 1 < j + 1
BY DEF TypeOK

\* The reader's message goes to the end of the queue, where it belongs.
LEMMA ReaderPutInv ==
  ASSUME Inv, TypeOK', ReaderPut PROVE PipelineOrdered' /\ Modes'
<1>1. /\ inHand' = Nothing /\ UNCHANGED <<feed, db>>
      /\ UNCHANGED <<flush, pending, held, worker>>
  BY DEF ReaderPut, pool, coalescer
<1>2. /\ TypeOK /\ inHand \in Payload /\ Put(inHand)
  BY DEF ReaderPut, Inv, TypeOK
<1>3. \A i \in DOMAIN queue' :
        \/ i \in DOMAIN queue /\ queue'[i] = queue[i]
        \/ queue'[i] = inHand /\ \A j \in DOMAIN queue' : ~(i < j)
  BY <1>2, PutQueue
<1>4. AllFresh'
  <2>1. \A x \in InFlight' : x \in InFlight \/ x = Nothing
    BY <1>1, <1>3 DEF InFlight
  <2> QED BY <2>1, <1>1, <1>2, MoveFresh, NothingFresh DEF Inv, PipelineOrdered
<1>5. HeldFirst' /\ QueueOrdered' /\ FlushOrdered'
  BY <1>1, <1>3, NothingBefore
     DEF Inv, PipelineOrdered, HeldFirst, QueueOrdered, FlushOrdered
<1>6. Modes'
  BY <1>1 DEF Inv, Modes, Nothing
<1> QED BY <1>4, <1>5, <1>6 DEF PipelineOrdered

\* So does a payload of the flush.
LEMMA CoalescePutInv ==
  ASSUME Inv, TypeOK', CoalescePut PROVE PipelineOrdered' /\ Modes'
<1>0. PICK item \in flush : Put(item) /\ flush' = flush \ {item}
  BY DEF CoalescePut
<1>1. /\ UNCHANGED <<feed, db>>
      /\ UNCHANGED <<inHand, pending, held, worker>>
  BY DEF CoalescePut, pool
<1>2. /\ TypeOK /\ item \in Payload
  BY DEF Inv, TypeOK
<1>3. \A i \in DOMAIN queue' :
        \/ i \in DOMAIN queue /\ queue'[i] = queue[i]
        \/ queue'[i] = item /\ \A j \in DOMAIN queue' : ~(i < j)
  BY <1>0, <1>2, PutQueue
<1>4. AllFresh'
  <2>1. \A x \in InFlight' : x \in InFlight
    BY <1>0, <1>1, <1>3 DEF InFlight
  <2> QED BY <2>1, <1>1, <1>2, MoveFresh DEF Inv, PipelineOrdered
<1>5. HeldFirst' /\ QueueOrdered' /\ FlushOrdered'
  BY <1>0, <1>1, <1>3
     DEF Inv, PipelineOrdered, HeldFirst, QueueOrdered, FlushOrdered
<1>6. Modes'
  BY <1>0, <1>1 DEF Inv, Modes
<1> QED BY <1>4, <1>5, <1>6 DEF PipelineOrdered

\* The coalescer takes the pending states: CoalesceTick and CoalesceLoop.
LEMMA TakePendingInv ==
  ASSUME Inv, TypeOK', CoalesceTick \/ CoalesceLoop
  PROVE  PipelineOrdered' /\ Modes'
<1>1. /\ UNCHANGED <<feed, db>> /\ UNCHANGED <<queue, inHand, held, worker>>
      /\ \/ UNCHANGED <<pending, flush>>
         \/ flush' = Payloads(pending) /\ pending' = NoTicks
  BY DEF CoalesceTick, CoalesceLoop, pool
<1>2. CASE UNCHANGED <<pending, flush>>
  <2>1. InFlight' = InFlight
    BY <1>1, <1>2 DEF InFlight
  <2>2. AllFresh'
    BY <1>1, <2>1, MoveFresh DEF Inv, PipelineOrdered
  <2>3. HeldFirst' /\ QueueOrdered' /\ FlushOrdered'
    BY <1>1, <1>2 DEF Inv, PipelineOrdered, HeldFirst, QueueOrdered, FlushOrdered
  <2>4. Modes'
    BY <1>1, <1>2 DEF Inv, Modes
  <2> QED BY <2>2, <2>3, <2>4 DEF PipelineOrdered
<1>3. CASE flush' = Payloads(pending) /\ pending' = NoTicks
  <2>0. TypeOK /\ pending \in [Market -> Nat]
    BY DEF Inv, TypeOK
  <2>1. ASSUME NEW x \in flush'
        PROVE  /\ x.ev = 0
               /\ \A m \in Market : x.ticks[m] = pending[m] \/ x.ticks[m] = 0
               /\ \A y \in flush' : x # y => Before(x, y)
    BY <1>3, <2>0, <2>1, PayloadsOf
  <2>2. ASSUME NEW x \in flush', NEW y, Before(y, TicksOf(pending))
        PROVE  Before(y, x)
    BY <2>1, <2>2 DEF Before, TicksOf
  <2>3. ASSUME NEW x \in flush' PROVE Fresh(x)
    <3>1. PICK y \in InFlight : y = TicksOf(pending)
      BY InFlightMembers
    <3>2. Fresh(y) /\ y.ticks = pending
      BY <3>1 DEF Inv, PipelineOrdered, AllFresh, TicksOf
    <3>3. \A m \in Market : 0 <= seen[m]
      BY <2>0, NumbersType
    <3>4. 0 <= arrived
      BY <2>0, NumbersType
    <3> QED BY <2>1, <3>2, <3>3, <3>4 DEF Fresh
  <2>4. Coalesce \/ flush' = {}
    BY <1>3 DEF Inv, Modes, Payloads
  <2>5. ASSUME NEW x \in flush' PROVE Before(x, inHand)
    BY <2>1, <2>4, <2>5 DEF Before, Inv, Modes, NoTicks
  <2>6. AllFresh'
    <3>1. \A x \in InFlight' : x \in InFlight \/ x \in flush' \/ x = TicksOf(NoTicks)
      BY <1>1, <1>3 DEF InFlight
    <3>2. \A x \in InFlight' : x \in InFlight \/ Fresh(x)
      BY <3>1, <2>3, <2>0, NothingFresh
    <3> QED BY <3>2, <2>0, <1>1, MoveFresh DEF Inv, PipelineOrdered
  <2>7. HeldFirst' /\ QueueOrdered' /\ FlushOrdered'
    BY <1>1, <1>3, <2>1, <2>2, <2>5, NoTicksBefore
       DEF Inv, PipelineOrdered, HeldFirst, QueueOrdered, FlushOrdered
  <2>8. Modes'
    BY <1>1, <1>3, <2>1, <2>4 DEF Inv, Modes
  <2> QED BY <2>6, <2>7, <2>8 DEF PipelineOrdered
<1> QED BY <1>1, <1>2, <1>3

\* A step that moves no payload.
LEMMA StillInv ==
  ASSUME Inv, TypeOK', UNCHANGED <<feed, db, pending, flush, queue, inHand, held>>,
         \A w \in Worker : worker'[w] \in {"getting", "exit"} => held[w] = Nothing
  PROVE  PipelineOrdered' /\ Modes'
<1>1. InFlight' = InFlight
  BY DEF InFlight
<1>2. AllFresh'
  BY <1>1, MoveFresh DEF Inv, PipelineOrdered
<1>3. HeldFirst' /\ QueueOrdered' /\ FlushOrdered'
  BY DEF Inv, PipelineOrdered, HeldFirst, QueueOrdered, FlushOrdered
<1>4. Modes'
  BY DEF Inv, Modes
<1> QED BY <1>2, <1>3, <1>4 DEF PipelineOrdered

\* The head of the queue, which comes before the rest, goes to the worker.
LEMMA WorkerGetInv ==
  ASSUME SingleWorker, Inv, TypeOK', NEW w \in Worker, WorkerGet(w)
  PROVE  PipelineOrdered' /\ Modes'
<1>0. TypeOK
  BY DEF Inv
<1>1. /\ UNCHANGED <<feed, db>> /\ UNCHANGED <<flush, pending, inHand>>
      /\ queue # <<>> /\ queue' = Tail(queue)
  BY DEF WorkerGet, coalescer
<1>2. /\ 1 \in DOMAIN queue /\ Head(queue) = queue[1]
      /\ \A i \in DOMAIN queue' :
           /\ i + 1 \in DOMAIN queue /\ queue'[i] = queue[i + 1] /\ 1 < i + 1
           /\ \A j \in DOMAIN queue' : i < j => i + 1 < j + 1
  BY <1>0, <1>1, TailQueue
<1>3. \A v \in Worker : held'[v] = held[v] \/ held'[v] = queue[1]
  BY <1>0, <1>2 DEF WorkerGet, TypeOK
<1>4. AllFresh'
  <2>1. \A x \in InFlight' : x \in InFlight
    BY <1>1, <1>2, <1>3 DEF InFlight
  <2> QED BY <2>1, <1>0, <1>1, MoveFresh DEF Inv, PipelineOrdered
<1>5. HeldFirst'
  BY <1>1, <1>2, <1>3 DEF Inv, PipelineOrdered, HeldFirst, QueueOrdered
<1>6. QueueOrdered' /\ FlushOrdered'
  BY <1>1, <1>2 DEF Inv, PipelineOrdered, QueueOrdered, FlushOrdered
<1>7. Modes'
  BY <1>0, <1>1 DEF WorkerGet, Inv, Modes, TypeOK
<1> QED BY <1>4, <1>5, <1>6, <1>7 DEF PipelineOrdered

\* The worker commits or gives up: it holds nothing any more.
LEMMA WorkerDoneInv ==
  ASSUME SingleWorker, Inv, TypeOK', NEW w \in Worker,
         WorkerCommit(w) \/ WorkerFail(w)
  PROVE  PipelineOrdered' /\ Modes'
<1>0. TypeOK /\ held[w] \in Payload /\ held[w] \in InFlight
  BY InFlightMembers DEF Inv, TypeOK
<1>1. /\ UNCHANGED feed /\ UNCHANGED <<flush, pending, inHand, queue>>
      /\ \A v \in Worker : held'[v] = Nothing
  BY <1>0 DEF WorkerCommit, WorkerFail, WorkerDone, coalescer, TypeOK, SingleWorker
<1>2. ASSUME NEW x \in InFlight'
      PROVE  x = Nothing \/ (x \in InFlight /\ Before(held[w], x))
  BY <1>1 DEF InFlight, Inv, PipelineOrdered, HeldFirst
<1>3. AllFresh'
  <2>1. CASE UNCHANGED db
    <3>1. \A x \in InFlight' : x \in InFlight \/ Fresh(x)
      BY <1>2, <1>0, NothingFresh
    <3> QED BY <3>1, <2>1, <1>0, <1>1, MoveFresh DEF Inv, PipelineOrdered
  <2>2. CASE WorkerCommit(w)
    <3>1. /\ store' = Stored(held[w].ticks)
          /\ \A i \in DOMAIN log' :
               (i \in DOMAIN log /\ log'[i] = log[i]) \/ log'[i] = held[w].ev
      <4>1. log \in Seq(Nat) /\ held[w].ev \in Nat
        BY <1>0 DEF TypeOK, Payload
      <4>2. log' = log \/ log' = Append(log, held[w].ev)
        BY <2>2 DEF WorkerCommit
      <4> QED BY <2>2, <4>1, <4>2, AppendElements DEF WorkerCommit
    <3>2. Fresh(held[w])
      BY <1>0 DEF Inv, PipelineOrdered, AllFresh
    <3>3. /\ \A m \in Market : store[m] <= seen[m] /\ held[w].ticks[m] <= seen[m]
          /\ held[w].ev <= arrived
          /\ \A i \in DOMAIN log : log[i] <= arrived
      BY <3>2 DEF Inv, PipelineOrdered, AllFresh, Fresh
    <3>5. \A m \in Market : store'[m] <= seen'[m]
      BY <1>1, <3>1, <3>3 DEF Stored, feed
    <3>6. \A i \in DOMAIN log' : log'[i] <= arrived'
      BY <1>1, <3>1, <3>3 DEF feed
    <3>7. ASSUME NEW x \in InFlight' PROVE Fresh(x)'
      <4>1. CASE x = Nothing
        BY <4>1 DEF Fresh, Nothing, NoTicks, TypeOK
      <4>2. CASE x \in InFlight /\ Before(held[w], x)
        <5>1. x \in Payload /\ Fresh(x)
          BY <4>2, <1>0, InFlightType DEF Inv, PipelineOrdered, AllFresh
        <5>2. \A m \in Market : /\ x.ticks[m] <= seen'[m]
                                /\ x.ticks[m] # 0 => store'[m] < x.ticks[m]
          BY <5>1, <4>2, <1>1, <3>1 DEF Stored, Before, Fresh, feed
        <5>3. x.ev <= arrived'
          BY <5>1, <1>1 DEF Fresh, feed
        <5>4. x.ev # 0 => \A i \in DOMAIN log' : log'[i] < x.ev
          <6>1. held[w].ev \in Nat /\ x.ev \in Nat
            BY <1>0, <5>1 DEF Payload
          <6> SUFFICES ASSUME x.ev # 0, NEW i \in DOMAIN log'
                       PROVE  log'[i] < x.ev
            OBVIOUS
          <6>2. CASE i \in DOMAIN log /\ log'[i] = log[i]
            BY <5>1, <6>2 DEF Fresh
          <6>3. CASE log'[i] = held[w].ev
            BY <4>2, <6>1, <6>3 DEF Before
          <6> QED BY <3>1, <6>2, <6>3
        <5> QED BY <5>2, <5>3, <5>4 DEF Fresh
      <4> QED BY <4>1, <4>2, <1>2
    <3> QED BY <3>5, <3>6, <3>7 DEF AllFresh
  <2> QED BY <2>1, <2>2 DEF WorkerFail
<1>4. HeldFirst' /\ QueueOrdered' /\ FlushOrdered'
  BY <1>1, NothingBefore
     DEF Inv, PipelineOrdered, HeldFirst, QueueOrdered, FlushOrdered
<1>5. Modes'
  BY <1>1 DEF Inv, Modes
<1> QED BY <1>3, <1>4, <1>5 DEF PipelineOrdered

\* A sentinel can be anywhere in the queue.
LEMMA PutPillInv ==
  ASSUME Inv, TypeOK', PutPill PROVE PipelineOrdered' /\ Modes'
<1>1. /\ UNCHANGED <<feed, db>>
      /\ UNCHANGED <<flush, inHand, pending, held, worker>>
  BY DEF PutPill, pool, coalescer
<1>2. TypeOK /\ Put(Pill)
  BY DEF PutPill, Inv
<1>3. \A i \in DOMAIN queue' :
        \/ i \in DOMAIN queue /\ queue'[i] = queue[i]
        \/ queue'[i] = Pill /\ \A j \in DOMAIN queue' : ~(i < j)
  BY <1>2, PutQueue, NothingType
<1>4. AllFresh'
  <2>1. \A x \in InFlight' : x \in InFlight \/ x = Pill
    BY <1>1, <1>3 DEF InFlight
  <2> QED BY <2>1, <1>1, <1>2, MoveFresh, NothingFresh DEF Inv, PipelineOrdered
<1>5. HeldFirst' /\ QueueOrdered' /\ FlushOrdered'
  BY <1>1, <1>3, NothingBefore
     DEF Inv, PipelineOrdered, HeldFirst, QueueOrdered, FlushOrdered
<1>6. Modes'
  BY <1>1 DEF Inv, Modes
<1> QED BY <1>4, <1>5, <1>6 DEF PipelineOrdered

\* A crash leaves nothing in flight.
LEMMA CrashInv ==
  ASSUME Inv, TypeOK', Crash PROVE PipelineOrdered' /\ Modes'
<1>1. /\ UNCHANGED <<feed, db>> /\ inHand' = Nothing
      /\ pending' = NoTicks /\ flush' = {} /\ queue' = <<>>
      /\ \A w \in Worker : held'[w] = Nothing
  BY DEF Crash
<1>2. AllFresh'
  <2>1. \A x \in InFlight' : x \in {Nothing, TicksOf(NoTicks)}
    BY <1>1 DEF InFlight
  <2> QED BY <1>1, <2>1, MoveFresh, NothingFresh DEF Inv, PipelineOrdered
<1>3. HeldFirst' /\ QueueOrdered' /\ FlushOrdered'
  BY <1>1, NothingBefore, NoTicksBefore DEF HeldFirst, QueueOrdered, FlushOrdered
<1>4. Modes'
  BY <1>1 DEF Modes, Nothing
<1> QED BY <1>2, <1>3, <1>4 DEF PipelineOrdered

\* Payloads are made by a read, a flush or a sentinel.
LEMMA ProperInv ==
  ASSUME TypeOK, AllProper, TypeOK', [Next]_vars PROVE AllProper'
<1>0. TypeOK /\ AllProper
  OBVIOUS
<1> DEFINE Made(x) == x \in InFlight \/ x \in {Nothing, Pill}
                      \/ x = EventOf(arrived + 1) \/ \E f : x = TicksOf(f)
<1>1. ASSUME NEW x, Made(x) PROVE Proper(x)
  <2>1. arrived + 1 # 0
    BY <1>0 DEF TypeOK
  <2> QED
    BY <1>0, <1>1, <2>1 DEF AllProper, Proper, Nothing, Pill, EventOf, TicksOf
<1>2. ASSUME NEW f PROVE \A x \in Payloads(f) : \E g : x = TicksOf(g)
  BY DEF Payloads
<1>3. ASSUME NEW x \in InFlight' PROVE Made(x)
  <2> USE DEF InFlight
  <2>1. CASE Connect
    BY <2>1 DEF Connect
  <2>2. ASSUME NEW m \in Market, ReadTick(m) PROVE Made(x)
    BY <2>2 DEF ReadTick, pool
  <2>3. CASE ReadEvent
    BY <2>3 DEF ReadEvent, pool, coalescer
  <2>4. ASSUME NEW item \in InFlight \cup {Pill}, Put(item),
               UNCHANGED <<pending, held>>, flush' \subseteq flush,
               inHand' \in {inHand, Nothing}
        PROVE  Made(x)
    <3>1. item \in Payload
      BY <1>0, <2>4, InFlightType, NothingType
    <3>2. \A i \in DOMAIN queue' :
            (i \in DOMAIN queue /\ queue'[i] = queue[i]) \/ queue'[i] = item
      BY <1>0, <2>4, <3>1, PutQueue
    <3> QED BY <2>4, <3>2
  <2>5. CASE ReaderPut
    BY <2>4, <2>5 DEF ReaderPut, pool, coalescer
  <2>6. CASE CoalescePut
    BY <2>4, <2>6 DEF CoalescePut, pool
  <2>7. CASE PutPill
    BY <2>4, <2>7 DEF PutPill, pool, coalescer
  <2>8. CASE CoalesceTick \/ CoalesceLoop
    BY <1>2, <2>8 DEF CoalesceTick, CoalesceLoop, pool
  <2>9. ASSUME NEW w \in Worker, WorkerGet(w) PROVE Made(x)
    <3>1. /\ 1 \in DOMAIN queue /\ Head(queue) = queue[1]
          /\ \A i \in DOMAIN queue' : i + 1 \in DOMAIN queue /\ queue'[i] = queue[i + 1]
      BY <1>0, <2>9, TailQueue DEF WorkerGet
    <3>2. \A v \in Worker : held'[v] = held[v] \/ held'[v] = queue[1]
      BY <1>0, <2>9, <3>1 DEF WorkerGet, TypeOK
    <3> QED BY <2>9, <3>1, <3>2 DEF WorkerGet, coalescer
  <2>10. ASSUME NEW w \in Worker, WorkerCommit(w) \/ WorkerFail(w) PROVE Made(x)
    <3>1. \A v \in Worker : held'[v] \in {held[v], Nothing}
      BY <1>0, <2>10 DEF WorkerCommit, WorkerFail, WorkerDone, TypeOK
    <3> QED BY <2>10, <3>1 DEF WorkerCommit, WorkerFail, coalescer
  <2>11. ASSUME UNCHANGED <<queue, held, flush, inHand, pending>> PROVE Made(x)
    BY <2>11
  <2>12. ASSUME NEW w \in Worker, WorkerDeadlock(w) PROVE Made(x)
    BY <2>11, <2>12 DEF WorkerDeadlock, coalescer
  <2>13. CASE Allowlist \/ Close \/ KnownJoined \/ CoalescerJoined \/ Join
    BY <2>11, <2>13
       DEF Allowlist, KnownRefresh, KnownLoop, Close, KnownJoined,
           CoalescerJoined, Join, pool, coalescer
  <2>14. CASE Crash
    BY <2>14 DEF Crash
  <2>15. CASE UNCHANGED vars
    BY <2>11, <2>15 DEF vars, pool, coalescer
  <2> QED
    BY <2>1, <2>2, <2>3, <2>5, <2>6, <2>7, <2>8, <2>9, <2>10, <2>12, <2>13,
       <2>14, <2>15
       DEF Next, Reader, Coalescer, Writer, Shutdown
<1> QED BY <1>1, <1>3 DEF AllProper

\* Inv is inductive.
LEMMA WsInductive ==
  ASSUME SingleWorker
  PROVE  Spec => []Inv
<1>1. Init => Inv
  <2> SUFFICES ASSUME Init PROVE Inv
    OBVIOUS
  <2>1. TypeOK
    BY ConstantsOk, NothingType DEF Init, TypeOK, NoTicks
  <2>2. \A x \in InFlight : x \in {Nothing, TicksOf(NoTicks)}
    BY DEF Init, InFlight
  <2>3. AllProper
    BY <2>2 DEF AllProper, Proper, Nothing, TicksOf
  <2>4. AllFresh
    BY <2>1, <2>2, NothingFresh DEF AllFresh, Init, NoTicks
  <2>5. HeldFirst /\ QueueOrdered /\ FlushOrdered /\ Modes
    BY NothingBefore, NoTicksBefore
       DEF Init, HeldFirst, QueueOrdered, FlushOrdered, Modes, Nothing
  <2> QED BY <2>1, <2>3, <2>4, <2>5 DEF Inv, PipelineOrdered
<1>2. Inv /\ TypeOK' /\ [Next]_vars => Inv'
  <2> SUFFICES ASSUME Inv, TypeOK', [Next]_vars
               PROVE  PipelineOrdered' /\ Modes'
    BY ProperInv DEF Inv
  <2>1. CASE Connect
    BY <2>1, ConnectInv
  <2>2. CASE Reader
    BY <2>2, ReadTickInv, ReadEventInv, ReaderPutInv DEF Reader
  <2>3. CASE Coalescer
    BY <2>3, TakePendingInv, CoalescePutInv DEF Coalescer
  <2>4. ASSUME NEW w \in Worker, Writer(w) PROVE PipelineOrdered' /\ Modes'
    <3>1. CASE WorkerDeadlock(w)
      <4>1. /\ \A v \in Worker :
                  worker'[v] \in {"getting", "exit"} => held[v] = Nothing
            /\ UNCHANGED <<feed, db, pending, flush, queue, inHand, held>>
        BY <3>1 DEF WorkerDeadlock, Inv, TypeOK, Modes, coalescer
      <4> QED BY <4>1, StillInv
    <3> QED BY <2>4, <3>1, WorkerGetInv, WorkerDoneInv DEF Writer
  <2>5. CASE Allowlist \/ Close \/ KnownJoined \/ CoalescerJoined \/ Join
             \/ UNCHANGED vars
    <3>1. UNCHANGED <<feed, db, pending, flush, queue, inHand, held, worker>>
      BY <2>5 DEF Allowlist, KnownRefresh, KnownLoop, Close, KnownJoined,
                  CoalescerJoined, Join, vars, pool, coalescer
    <3> QED BY <3>1, StillInv DEF Inv, Modes
  <2>6. CASE PutPill
    BY <2>6, PutPillInv
  <2>7. CASE Crash
    BY <2>7, CrashInv
  <2> QED
    BY <2>1, <2>2, <2>3, <2>4, <2>5, <2>6, <2>7 DEF Next, Shutdown
<1> QED BY <1>1, <1>2, WsTypeCorrect, PTL DEF Spec

\* The pipeline of one worker is in order in every reachable state: nothing
\* further from the database is older than what is nearer to it.
THEOREM WsPipelineOrdered ==
  ASSUME SingleWorker
  PROVE  Spec => []PipelineInv
<1>1. Inv => PipelineInv
  BY DEF Inv, PipelineInv
<1> QED BY <1>1, WsInductive, PTL

\* The consumer with one worker keeps the promise of TapeChannel.
THEOREM WsImplementsChannel ==
  ASSUME SingleWorker
  PROVE  Spec => ImplementsChannel
<1> USE DEF Channel!vars
<1>1. Init => Channel!Init
  BY DEF Init, Channel!Init, NoTicks
<1>2. Inv /\ [Next]_vars => [Channel!Next]_(Channel!vars)
  <2> SUFFICES ASSUME Inv, [Next]_vars
               PROVE  Channel!Next \/ UNCHANGED Channel!vars
    OBVIOUS
  <2>0. TypeOK
    BY DEF Inv
  <2>1. ASSUME NEW m \in Market, ReadTick(m) PROVE Channel!Next
    <3>1. Channel!Tick(m)
      BY <2>1 DEF ReadTick, Channel!Tick, db
    <3> QED BY <3>1 DEF Channel!Next
  <2>2. CASE ReadEvent
    BY <2>2 DEF ReadEvent, Channel!Next, Channel!Event, db
  <2>3. ASSUME NEW w \in Worker, WorkerCommit(w)
        PROVE  Channel!Next \/ UNCHANGED Channel!vars
    <3>1. held[w] \in Payload /\ Fresh(held[w]) /\ Proper(held[w])
      BY <2>0, InFlightMembers, InFlightType
         DEF Inv, AllProper, PipelineOrdered, AllFresh
    <3>2. UNCHANGED feed /\ store' = Stored(held[w].ticks)
      BY <2>3 DEF WorkerCommit
    <3>3. CASE held[w].kind = "event"
      <4>1. held[w].ticks = NoTicks /\ held[w].ev # 0
        BY <3>1, <3>3 DEF Proper
      <4>2. store' = store
        BY <2>0, <3>2, <4>1 DEF Stored, NoTicks, TypeOK
      <4>3. log' = Append(log, held[w].ev)
        BY <2>3, <3>3 DEF WorkerCommit
      <4>4. held[w].ev \in 1..arrived /\ \A i \in DOMAIN log : log[i] < held[w].ev
        BY <2>0, <3>1, <4>1 DEF Fresh, Payload, TypeOK
      <4>5. Channel!Deliver
        BY <3>2, <4>2, <4>3, <4>4 DEF Channel!Deliver, feed
      <4> QED BY <4>5 DEF Channel!Next
    <3>4. CASE held[w].kind # "event"
      <4>1. log' = log
        BY <2>3, <3>4 DEF WorkerCommit
      <4>2. \A m \in Market : store[m] <= store'[m] /\ store'[m] <= seen[m]
        BY <2>0, <3>1, <3>2
           DEF Stored, Fresh, Inv, PipelineOrdered, AllFresh, TypeOK, Payload
      <4>3. Channel!Persist
        BY <3>2, <4>1, <4>2 DEF Channel!Persist, feed
      <4> QED BY <4>3 DEF Channel!Next
    <3> QED BY <3>3, <3>4
  <2>4. ASSUME UNCHANGED <<feed, db>> PROVE UNCHANGED Channel!vars
    BY <2>4 DEF feed, db
  <2>5. ASSUME NEW w \in Worker, WorkerGet(w) \/ WorkerDeadlock(w) \/ WorkerFail(w)
        PROVE  UNCHANGED <<feed, db>>
    BY <2>5 DEF WorkerGet, WorkerDeadlock, WorkerFail
  <2>6. CASE Connect \/ ReaderPut \/ Coalescer \/ Allowlist \/ Close
             \/ Shutdown \/ Crash \/ UNCHANGED vars
    <3>1. UNCHANGED <<feed, db>>
      BY <2>6 DEF Connect, ReaderPut, Coalescer, CoalesceTick, CoalescePut,
                  CoalesceLoop, Allowlist, KnownRefresh, KnownLoop, Close,
                  Shutdown, KnownJoined, CoalescerJoined, PutPill, Join, Crash,
                  vars
    <3> QED BY <3>1, <2>4
  <2> QED
    BY <2>1, <2>2, <2>3, <2>4, <2>5, <2>6 DEF Next, Reader, Writer
<1> QED BY <1>1, <1>2, WsInductive, PTL DEF Spec, ImplementsChannel, Channel!Spec


-----------------------------------------------------------------------------
(* Draining and counting, for a pool of any number of workers.             *)

Writing == {w \in Worker : worker[w] \in {"writing", "retrying"}}

\* What the finally block relies on: unfinished counts what is queued or being
\* written, the coalescer that ended has nothing left, and a session that is
\* over has nothing in flight.
DrainInv ==
  /\ unfinished = Len(queue) + Cardinality(Writing)
  /\ phase # "open" => inHand = Nothing
  /\ ~Coalesce => coal = "done"
  /\ Coalesce /\ coal \in {"final", "done"} =>
       pending = NoTicks /\ phase \in {"coalescer", "pills", "join", "down"}
  /\ coal \in {"sleeping", "done"} => flush = {}
  /\ phase \in {"pills", "join", "down"} => coal = "done"
  /\ phase = "down" => queue = <<>> /\ \A w \in Worker : worker[w] = "exit"

\* How many elements of s are in V.
Places(s, V) == Cardinality({i \in DOMAIN s : s[i] \in V})
Carriers(e) == {x \in Payload : x.ev = e}
Logged(e) == Places(log, {e})
Queued(e) == Places(queue, Carriers(e))
Holders(e) == {w \in Worker : held[w].ev = e}

\* The places an event is in: one if it was received, none before.
PlacesOf(e) ==
  Logged(e) + Queued(e) + Cardinality(Holders(e))
    + (IF inHand.ev = e THEN 1 ELSE 0) + (IF e \in dropped THEN 1 ELSE 0)
PlacedInv ==
  \A e \in Nat \ {0} : PlacesOf(e) = IF e <= arrived THEN 1 ELSE 0

\* The latest state of a market is stored, given up, or on its way.
LatestInv ==
  \A m \in Market :
    \/ store[m] = seen[m]
    \/ seen[m] \in missed[m]
    \/ \E x \in InFlight : x.ticks[m] = seen[m]


\* The workers that write are finitely many.
LEMMA WritingFinite ==
  ASSUME NEW S \in SUBSET Worker
  PROVE  IsFiniteSet(S) /\ Cardinality(S) \in Nat
BY ConstantsOk, FS_Subset, FS_CardinalityType

\* Which steps leave queue, pool and flush as they are.
LEMMA QuietSteps ==
  ASSUME Allowlist \/ Close \/ KnownJoined \/ CoalescerJoined \/ Join
         \/ (\E w \in Worker : WorkerDeadlock(w)) \/ UNCHANGED vars
  PROVE  /\ UNCHANGED <<pending, flush, coal, queue, unfinished, inHand, held>>
         /\ UNCHANGED <<feed, db, lost>>
BY DEF Allowlist, KnownRefresh, KnownLoop, Close, KnownJoined, CoalescerJoined, Join,
       WorkerDeadlock, vars, pool, coalescer, lost

\* Each mode leaves unused what it does, whatever the workers do.
LEMMA ModesKeep ==
  ASSUME TypeOK, Modes, TypeOK', [Next]_vars
  PROVE  Modes'
<1>1. ASSUME UNCHANGED <<pending, flush, inHand, held>>,
             \A w \in Worker : worker'[w] \in {"getting", "exit"} => held[w] = Nothing
      PROVE  Modes'
  BY <1>1 DEF Modes
<1>2. CASE Connect
  BY <1>2 DEF Connect, Modes
<1>3. ASSUME NEW m \in Market, ReadTick(m) PROVE Modes'
  <2>1. TicksOf([NoTicks EXCEPT ![m] = seen[m] + 1]).ev = 0
    BY DEF TicksOf
  <2> QED BY <1>3 DEF ReadTick, Modes, pool
<1>4. CASE ReadEvent
  BY <1>4 DEF ReadEvent, Modes, pool, coalescer, EventOf
<1>5. CASE ReaderPut
  BY <1>5 DEF ReaderPut, Modes, pool, coalescer, Nothing
<1>6. CASE CoalesceTick \/ CoalesceLoop
  <2>1. /\ UNCHANGED <<inHand, held, worker>>
        /\ \/ UNCHANGED <<pending, flush>>
           \/ flush' = Payloads(pending) /\ pending' = NoTicks
    BY <1>6 DEF CoalesceTick, CoalesceLoop, pool
  <2>2. pending \in [Market -> Nat]
    BY DEF TypeOK
  <2>3. \A x \in Payloads(pending) : x.ev = 0
    BY <2>2, PayloadsOf
  <2>4. ~Coalesce => Payloads(pending) = {}
    BY DEF Modes, Payloads
  <2> QED BY <2>1, <2>3, <2>4 DEF Modes
<1>7. CASE CoalescePut
  BY <1>7 DEF CoalescePut, Modes, pool
<1>8. ASSUME NEW w \in Worker, WorkerGet(w) PROVE Modes'
  BY <1>8 DEF WorkerGet, Modes, coalescer, TypeOK
<1>9. ASSUME NEW w \in Worker, WorkerCommit(w) \/ WorkerFail(w) PROVE Modes'
  BY <1>9 DEF WorkerCommit, WorkerFail, WorkerDone, Modes, coalescer, TypeOK
<1>10. ASSUME NEW w \in Worker, WorkerDeadlock(w) PROVE Modes'
  <2>1. UNCHANGED <<pending, flush, inHand, held>>
        /\ worker' = [worker EXCEPT ![w] = "retrying"]
    BY <1>10 DEF WorkerDeadlock, coalescer
  <2> QED BY <1>1, <2>1 DEF Modes, TypeOK
<1>11. CASE PutPill
  BY <1>11 DEF PutPill, Modes, pool, coalescer
<1>12. CASE Crash
  BY <1>12 DEF Crash, Modes, Nothing
<1>13. CASE Allowlist \/ Close \/ KnownJoined \/ CoalescerJoined \/ Join \/ UNCHANGED vars
  <2>1. UNCHANGED <<pending, flush, inHand, held, worker>>
    BY <1>13 DEF Allowlist, KnownRefresh, KnownLoop, Close, KnownJoined,
                 CoalescerJoined, Join, vars, pool, coalescer
  <2> QED BY <2>1, <1>1 DEF Modes
<1> QED
  BY <1>2, <1>3, <1>4, <1>5, <1>6, <1>7, <1>8, <1>9, <1>10, <1>11, <1>12, <1>13
     DEF Next, Reader, Coalescer, Writer, Shutdown

\* unfinished counts: every put adds one, every task_done and every sentinel
\* that is taken gives one back, once.
LEMMA UnfinishedKeeps ==
  ASSUME TypeOK, DrainInv, TypeOK', [Next]_vars
  PROVE  (unfinished = Len(queue) + Cardinality(Writing))'
<1>0. /\ unfinished = Len(queue) + Cardinality(Writing)
      /\ Len(queue) \in Nat /\ Cardinality(Writing) \in Nat /\ IsFiniteSet(Writing)
      /\ queue \in Seq(Payload)
      /\ worker \in [Worker -> {"getting", "writing", "retrying", "exit"}]
  BY WritingFinite DEF DrainInv, TypeOK, Writing
<1>1. ASSUME \A w \in Worker : worker'[w] \notin {"writing", "retrying"},
             queue' = <<>>, unfinished' = 0
      PROVE  (unfinished = Len(queue) + Cardinality(Writing))'
  <2>1. Writing' = {}
    BY <1>1 DEF Writing
  <2> QED BY <1>1, <2>1, FS_EmptySet
<1>2. CASE Connect \/ Crash
  BY <1>1, <1>2 DEF Connect, Crash
<1>3. ASSUME NEW item \in Payload, Put(item), worker' = worker
      PROVE  (unfinished = Len(queue) + Cardinality(Writing))'
  <2>1. Writing' = Writing
    BY <1>3 DEF Writing
  <2>2. Len(queue') = Len(queue) + 1
    BY <1>0, <1>3 DEF Put
  <2> QED BY <1>0, <1>3, <2>1, <2>2 DEF Put
<1>4. CASE ReaderPut \/ CoalescePut \/ PutPill
  BY <1>3, <1>4, NothingType DEF ReaderPut, CoalescePut, PutPill, TypeOK, pool
<1>5. ASSUME NEW w \in Worker, WorkerGet(w)
      PROVE  (unfinished = Len(queue) + Cardinality(Writing))'
  <2>1. worker[w] = "getting" /\ queue # <<>> /\ queue' = Tail(queue)
    BY <1>5 DEF WorkerGet
  <2>2. Len(queue') = Len(queue) - 1
    BY <1>0, <2>1
  <2>3. CASE Head(queue) = Pill
    <3>1. worker' = [worker EXCEPT ![w] = "exit"] /\ unfinished' = unfinished - 1
      BY <1>5, <2>3 DEF WorkerGet
    <3>2. Writing' = Writing
      BY <1>0, <2>1, <3>1 DEF Writing
    <3> QED BY <1>0, <2>2, <3>1, <3>2
  <2>4. CASE Head(queue) # Pill
    <3>1. worker' = [worker EXCEPT ![w] = "writing"] /\ unfinished' = unfinished
      BY <1>5, <2>4 DEF WorkerGet
    <3>2. Writing' = Writing \union {w} /\ w \notin Writing
      BY <1>0, <2>1, <3>1 DEF Writing
    <3>3. Cardinality(Writing') = Cardinality(Writing) + 1
      BY <1>0, <3>2, FS_AddElement
    <3> QED BY <1>0, <2>2, <3>1, <3>3
  <2> QED BY <2>3, <2>4
<1>6. ASSUME NEW w \in Worker, WorkerCommit(w) \/ WorkerFail(w)
      PROVE  (unfinished = Len(queue) + Cardinality(Writing))'
  <2>1. /\ w \in Writing /\ queue' = queue /\ unfinished' = unfinished - 1
        /\ worker' = [worker EXCEPT ![w] = "getting"]
    BY <1>6 DEF WorkerCommit, WorkerFail, WorkerDone, Writing
  <2>2. Writing' = Writing \ {w}
    BY <1>0, <2>1 DEF Writing
  <2>3. Cardinality(Writing') = Cardinality(Writing) - 1
    BY <1>0, <2>1, <2>2, FS_RemoveElement
  <2> QED BY <1>0, <2>1, <2>3
<1>7. ASSUME UNCHANGED <<queue, unfinished, worker>>
      PROVE  (unfinished = Len(queue) + Cardinality(Writing))'
  BY <1>0, <1>7 DEF Writing
<1>8. ASSUME NEW w \in Worker, WorkerDeadlock(w)
      PROVE  (unfinished = Len(queue) + Cardinality(Writing))'
  <2>1. /\ worker[w] = "writing" /\ worker' = [worker EXCEPT ![w] = "retrying"]
        /\ UNCHANGED <<queue, unfinished>>
    BY <1>8 DEF WorkerDeadlock
  <2>2. Writing' = Writing
    BY <1>0, <2>1 DEF Writing
  <2> QED BY <1>0, <2>1, <2>2
<1>9. CASE (\E m \in Market : ReadTick(m)) \/ ReadEvent \/ CoalesceTick \/ CoalesceLoop
           \/ Allowlist \/ Close \/ KnownJoined \/ CoalescerJoined \/ Join \/ UNCHANGED vars
  BY <1>7, <1>9 DEF ReadTick, ReadEvent, CoalesceTick, CoalesceLoop, Allowlist,
     KnownRefresh, KnownLoop, Close, KnownJoined, CoalescerJoined, Join, vars, pool
<1> QED
  BY <1>2, <1>4, <1>5, <1>6, <1>8, <1>9 DEF Next, Reader, Coalescer, Writer, Shutdown

\* The finally block leaves nothing behind.
LEMMA DrainKeeps ==
  ASSUME TypeOK, Modes, DrainInv, TypeOK', [Next]_vars
  PROVE  DrainInv'
<1> USE DEF DrainInv
<1>0. (unfinished = Len(queue) + Cardinality(Writing))'
  BY UnfinishedKeeps
<1>1. CASE Connect
  BY <1>0, <1>1 DEF Connect
<1>2. CASE Reader
  BY <1>0, <1>2 DEF Reader, ReadTick, ReadEvent, ReaderPut, session, coalescer, pool, Modes
<1>3. CASE CoalesceTick \/ CoalescePut \/ CoalesceLoop
  <2>1. phase' = phase /\ inHand' = inHand /\ worker' = worker
    BY <1>3 DEF CoalesceTick, CoalescePut, CoalesceLoop, session, pool
  <2>2. Coalesce
    BY <1>3 DEF CoalesceTick, CoalescePut, CoalesceLoop, TypeOK
  <2>3. phase # "down"
    BY <1>3 DEF CoalesceTick, CoalescePut, CoalesceLoop
  <2>4. pending = NoTicks => Payloads(pending) = {}
    BY DEF Payloads
  <2> QED BY <1>0, <1>3, <2>1, <2>2, <2>3, <2>4 DEF CoalesceTick, CoalescePut, CoalesceLoop
<1>4. ASSUME NEW w \in Worker, Writer(w) PROVE DrainInv'
  <2>1. /\ UNCHANGED <<phase, inHand, coal, pending, flush>>
        /\ worker[w] # "exit" /\ (queue = <<>> => queue' = <<>>)
    BY <1>4 DEF Writer, WorkerGet, WorkerCommit, WorkerDeadlock, WorkerFail, session, coalescer
  <2> QED BY <1>0, <2>1
<1>5. CASE Allowlist \/ Close \/ KnownJoined \/ CoalescerJoined \/ PutPill
  BY <1>0, <1>5 DEF Allowlist, KnownRefresh, KnownLoop, Close, KnownJoined,
     CoalescerJoined, PutPill, session, coalescer, pool
<1>6. CASE Join
  <2>1. /\ phase = "join" /\ unfinished = 0 /\ \A w \in Worker : worker[w] = "exit"
        /\ phase' = "down" /\ UNCHANGED <<inHand, coalescer, queue, unfinished, pool>>
    BY <1>6 DEF Join
  <2>2. Len(queue) = 0
    <3>1. Writing \in SUBSET Worker
      BY DEF Writing
    <3>2. Cardinality(Writing) \in Nat /\ Len(queue) \in Nat
      BY <3>1, WritingFinite DEF TypeOK
    <3> QED BY <2>1, <3>2
  <2>3. queue = <<>>
    BY <2>2 DEF TypeOK
  <2> QED BY <1>0, <2>1, <2>3 DEF coalescer, pool
<1>7. CASE Crash
  BY <1>0, <1>7 DEF Crash
<1>8. CASE UNCHANGED vars
  BY <1>0, <1>8 DEF vars, session, coalescer, pool
<1> QED
  BY <1>1, <1>2, <1>3, <1>4, <1>5, <1>6, <1>7, <1>8 DEF Next, Coalescer, Shutdown


-----------------------------------------------------------------------------
(* Counting places.                                                        *)

\* Places in a sequence can be counted.
LEMMA PlacesType ==
  ASSUME NEW S, NEW s \in Seq(S), NEW V
  PROVE  IsFiniteSet({i \in DOMAIN s : s[i] \in V}) /\ Places(s, V) \in Nat
<1>1. DOMAIN s = 1..Len(s) /\ Len(s) \in Nat
  OBVIOUS
<1>2. IsFiniteSet(1..Len(s))
  BY <1>1, FS_Interval
<1>3. IsFiniteSet({i \in DOMAIN s : s[i] \in V})
  BY <1>1, <1>2, FS_Subset
<1> QED BY <1>3, FS_CardinalityType DEF Places

\* Nothing is in no place of the empty sequence.
LEMMA PlacesEmpty == \A V : Places(<<>>, V) = 0
<1> TAKE V
<1>1. {i \in DOMAIN <<>> : <<>>[i] \in V} = {}
  OBVIOUS
<1> QED BY <1>1, FS_EmptySet DEF Places

\* An append adds one place if it appends an element of V.
LEMMA PlacesAppend ==
  ASSUME NEW S, NEW s \in Seq(S), NEW e \in S, NEW V
  PROVE  Places(Append(s, e), V) = Places(s, V) + IF e \in V THEN 1 ELSE 0
<1> DEFINE P == {i \in DOMAIN s : s[i] \in V}
           n == Len(s) + 1
           Q == {i \in DOMAIN Append(s, e) : Append(s, e)[i] \in V}
<1>1. n \notin P /\ Q = IF e \in V THEN P \union {n} ELSE P
  OBVIOUS
<1>2. IsFiniteSet(P) /\ Cardinality(P) \in Nat
  BY PlacesType DEF Places
<1>3. Cardinality(P \union {n}) = Cardinality(P) + 1
  BY <1>1, <1>2, FS_AddElement
<1>4. Places(Append(s, e), V) = Cardinality(Q) /\ Places(s, V) = Cardinality(P)
  BY DEF Places
<1> HIDE DEF P, Q, n
<1> QED BY <1>1, <1>2, <1>3, <1>4

\* A get takes the place of the head.
LEMMA PlacesTail ==
  ASSUME NEW S, NEW s \in Seq(S), s # <<>>, NEW V
  PROVE  Places(s, V) = Places(Tail(s), V) + IF Head(s) \in V THEN 1 ELSE 0
<1> DEFINE P == {i \in DOMAIN Tail(s) : Tail(s)[i] \in V}
           R == {i \in 2..Len(s) : s[i] \in V}
           Q == {i \in DOMAIN s : s[i] \in V}
           f == [i \in P |-> i + 1]
<1>1. /\ Tail(s) \in Seq(S) /\ Len(s) \in Nat \ {0}
      /\ DOMAIN Tail(s) = 1..(Len(s) - 1)
      /\ \A i \in 1..(Len(s) - 1) : Tail(s)[i] = s[i + 1]
  OBVIOUS
<1>2. IsFiniteSet(P) /\ Cardinality(P) \in Nat
  BY <1>1, PlacesType DEF Places
<1>3. f \in Bijection(P, R)
  <2>1. f \in [P -> R]
    BY <1>1
  <2>2. \A i, j \in P : f[i] = f[j] => i = j
    BY <1>1
  <2>3. \A k \in R : \E i \in P : f[i] = k
    <3> TAKE k \in R
    <3>1. k - 1 \in P /\ f[k - 1] = k
      BY <1>1
    <3> QED BY <3>1
  <2> HIDE DEF f, P, R
  <2>4. DOMAIN f = P
    BY <2>1
  <2> QED BY <2>1, <2>2, <2>3, <2>4 DEF Bijection, Injection, Surjection, IsInjective
<1>4. IsFiniteSet(R) /\ Cardinality(R) = Cardinality(P)
  BY <1>2, <1>3, FS_Bijection DEF ExistsBijection
<1>5. 1 \notin R /\ Q = IF Head(s) \in V THEN R \union {1} ELSE R
  BY <1>1
<1>6. Cardinality(R \union {1}) = Cardinality(R) + 1
  BY <1>4, <1>5, FS_AddElement
<1>7. Places(s, V) = Cardinality(Q) /\ Places(Tail(s), V) = Cardinality(P)
  BY DEF Places
<1> HIDE DEF P, Q, R
<1> QED BY <1>2, <1>4, <1>5, <1>6, <1>7

\* The numbers that PlacesOf adds.
LEMMA PlacesNumbers ==
  ASSUME TypeOK, NEW e \in Nat \ {0}
  PROVE  /\ Logged(e) \in Nat /\ Queued(e) \in Nat
         /\ IsFiniteSet(Holders(e)) /\ Cardinality(Holders(e)) \in Nat
         /\ \A w \in Holders(e) : Cardinality(Holders(e)) >= 1
         /\ arrived \in Nat
<1>1. log \in Seq(Nat) /\ queue \in Seq(Payload) /\ arrived \in Nat
  BY DEF TypeOK
<1>2. Logged(e) \in Nat /\ Queued(e) \in Nat
  BY <1>1, PlacesType DEF Logged, Queued
<1>3. Holders(e) \in SUBSET Worker
  BY DEF Holders
<1>4. IsFiniteSet(Holders(e)) /\ Cardinality(Holders(e)) \in Nat
  BY <1>3, WritingFinite
<1>5. Cardinality(Holders(e)) = 0 <=> Holders(e) = {}
  BY <1>4, FS_EmptySet
<1> QED BY <1>1, <1>2, <1>4, <1>5

\* A step that moves no event.
LEMMA NoEventMoves ==
  ASSUME TypeOK, PlacedInv, UNCHANGED <<log, queue, dropped, arrived>>,
         inHand'.ev = inHand.ev, \A w \in Worker : held'[w].ev = held[w].ev
  PROVE  PlacedInv'
<1>1. \A e : Holders(e)' = Holders(e)
  BY DEF Holders
<1> QED BY <1>1 DEF PlacedInv, PlacesOf, Logged, Queued

\* A step that puts item at the end of the queue; inHand gives it up if it was
\* the reader's.
LEMMA PutMoves ==
  ASSUME TypeOK, PlacedInv, UNCHANGED <<log, dropped, arrived, held>>,
         NEW item \in Payload, Put(item),
         \/ inHand' = inHand /\ item.ev = 0
         \/ item = inHand /\ inHand' = Nothing
  PROVE  PlacedInv'
<1> SUFFICES ASSUME NEW e \in Nat \ {0}
             PROVE  PlacesOf(e)' = PlacesOf(e)
  BY DEF PlacedInv
<1>1. queue \in Seq(Payload) /\ queue' = Append(queue, item)
  BY DEF Put, TypeOK
<1>2. Queued(e)' = Queued(e) + IF item \in Carriers(e) THEN 1 ELSE 0
  BY <1>1, PlacesAppend DEF Queued, Carriers
<1>3. item \in Carriers(e) <=> item.ev = e
  BY DEF Carriers
<1>4. Logged(e)' = Logged(e) /\ Holders(e)' = Holders(e)
  BY DEF Logged, Holders
<1>5. /\ (e \in dropped)' <=> e \in dropped
      /\ \/ inHand' = inHand /\ item.ev # e
         \/ item = inHand /\ inHand'.ev # e
  BY DEF Nothing
<1>6. Logged(e) \in Nat /\ Queued(e) \in Nat /\ Cardinality(Holders(e)) \in Nat
  BY PlacesNumbers
<1> QED BY <1>2, <1>3, <1>4, <1>5, <1>6 DEF PlacesOf

\* A received event is in the reader's hand, and was nowhere.
LEMMA ReadEventPlaced ==
  ASSUME TypeOK, PlacedInv, ReadEvent
  PROVE  PlacedInv'
<1> SUFFICES ASSUME NEW e \in Nat \ {0}
             PROVE  PlacesOf(e)' = IF e <= arrived' THEN 1 ELSE 0
  BY DEF PlacedInv
<1>1. /\ inHand = Nothing /\ inHand' = EventOf(arrived + 1) /\ arrived' = arrived + 1
      /\ UNCHANGED <<log, queue, dropped, held>>
  BY DEF ReadEvent, pool, db, lost
<1>2. inHand.ev = 0 /\ inHand'.ev = arrived + 1
  BY <1>1 DEF Nothing, EventOf
<1>3. PlacesOf(e) = IF e <= arrived THEN 1 ELSE 0
  BY DEF PlacedInv
<1>4. Logged(e)' = Logged(e) /\ Holders(e)' = Holders(e) /\ Queued(e)' = Queued(e)
      /\ ((e \in dropped)' <=> e \in dropped)
  BY <1>1 DEF Logged, Holders, Queued
<1>5. Logged(e) \in Nat /\ Queued(e) \in Nat /\ Cardinality(Holders(e)) \in Nat
      /\ arrived \in Nat
  BY PlacesNumbers
<1> QED BY <1>1, <1>2, <1>3, <1>4, <1>5 DEF PlacesOf

\* A get hands the event to one worker.
LEMMA GetPlaced ==
  ASSUME TypeOK, Modes, PlacedInv, NEW w \in Worker, WorkerGet(w)
  PROVE  PlacedInv'
<1> SUFFICES ASSUME NEW e \in Nat \ {0}
             PROVE  PlacesOf(e)' = PlacesOf(e)
  BY DEF PlacedInv, WorkerGet, feed
<1> DEFINE x == Head(queue)
<1>1. /\ queue \in Seq(Payload) /\ queue # <<>> /\ queue' = Tail(queue)
      /\ held[w] = Nothing /\ held \in [Worker -> Payload]
      /\ \/ x = Pill /\ held' = held
         \/ x # Pill /\ held' = [held EXCEPT ![w] = x]
      /\ UNCHANGED <<inHand, log, dropped>>
  BY DEF WorkerGet, Modes, TypeOK, db, lost
<1>2. x \in Payload
  BY <1>1
<1>3. Queued(e) = Queued(e)' + IF x.ev = e THEN 1 ELSE 0
  <2>1. Queued(e) = Queued(e)' + IF x \in Carriers(e) THEN 1 ELSE 0
    BY <1>1, PlacesTail DEF Queued, Carriers
  <2>2. x \in Carriers(e) <=> x.ev = e
    BY <1>2 DEF Carriers
  <2> QED BY <2>1, <2>2
<1>4. Holders(e)' = IF x.ev = e THEN Holders(e) \union {w} ELSE Holders(e)
  BY <1>1 DEF Holders, Nothing, Pill
<1>5. w \notin Holders(e)
  BY <1>1 DEF Holders, Nothing
<1>6. /\ IsFiniteSet(Holders(e)) /\ Cardinality(Holders(e)) \in Nat
      /\ Logged(e) \in Nat /\ Queued(e) \in Nat
  BY PlacesNumbers
<1>7. Cardinality(Holders(e) \union {w}) = Cardinality(Holders(e)) + 1
  BY <1>5, <1>6, FS_AddElement
<1>8. Queued(e)' \in Nat
  <2>1. queue' \in Seq(Payload)
    BY <1>1
  <2> QED BY <2>1, PlacesType DEF Queued, Carriers
<1>9. Logged(e)' = Logged(e)
  BY <1>1 DEF Logged
<1> HIDE DEF x
<1> QED BY <1>1, <1>3, <1>4, <1>6, <1>7, <1>8, <1>9 DEF PlacesOf

\* A commit logs it, a failure drops it, and the worker lets go of it.
LEMMA DonePlaced ==
  ASSUME TypeOK, AllProper, PlacedInv, NEW w \in Worker, WorkerCommit(w) \/ WorkerFail(w)
  PROVE  PlacedInv'
<1> SUFFICES ASSUME NEW e \in Nat \ {0}
             PROVE  PlacesOf(e)' = PlacesOf(e)
  BY DEF PlacedInv, WorkerCommit, WorkerFail, feed
<1> DEFINE x == held[w]
<1>1. /\ UNCHANGED <<inHand, queue>> /\ held' = [held EXCEPT ![w] = Nothing]
      /\ held \in [Worker -> Payload] /\ log \in Seq(Nat) /\ x.ev \in Nat
  BY DEF WorkerCommit, WorkerFail, WorkerDone, TypeOK, Payload
<1>2. x.kind = "event" <=> x.ev # 0
  BY InFlightMembers DEF AllProper, Proper
<1>3. \/ /\ dropped' = dropped
         /\ log' = IF x.ev # 0 THEN Append(log, x.ev) ELSE log
      \/ log' = log /\ dropped' = dropped \union ({x.ev} \ {0})
  BY <1>2 DEF WorkerCommit, WorkerFail, EventsOf, db, lost
<1>4. Holders(e)' = IF x.ev = e THEN Holders(e) \ {w} ELSE Holders(e)
  BY <1>1 DEF Holders, Nothing
<1>5. x.ev = e <=> w \in Holders(e)
  BY DEF Holders
<1>6. /\ IsFiniteSet(Holders(e)) /\ Cardinality(Holders(e)) \in Nat
      /\ Logged(e) \in Nat /\ Queued(e) \in Nat
      /\ (w \in Holders(e) => Cardinality(Holders(e)) >= 1)
  BY PlacesNumbers
<1>7. w \in Holders(e) => Cardinality(Holders(e) \ {w}) = Cardinality(Holders(e)) - 1
  BY <1>6, FS_RemoveElement
<1>8. x.ev # 0 => Places(Append(log, x.ev), {e}) = Logged(e) + IF x.ev = e THEN 1 ELSE 0
  <2>1. Places(Append(log, x.ev), {e}) = Logged(e) + IF x.ev \in {e} THEN 1 ELSE 0
    BY <1>1, PlacesAppend DEF Logged
  <2> QED BY <2>1
<1>9. x.ev = e => e \notin dropped
  <2>1. PlacesOf(e) <= 1
    BY DEF PlacedInv
  <2> HIDE DEF x
  <2> QED BY <1>5, <1>6, <2>1 DEF PlacesOf
<1>10. Queued(e)' = Queued(e)
  BY <1>1 DEF Queued, Carriers
<1> HIDE DEF x
<1>11. CASE x.ev # e
  <2>1. (e \in dropped') <=> e \in dropped
    BY <1>3, <1>11
  <2>2. Logged(e)' = Logged(e)
    <3>1. CASE log' = log
      BY <3>1 DEF Logged
    <3>2. CASE x.ev # 0 /\ log' = Append(log, x.ev)
      <4>1. Logged(e)' = Places(Append(log, x.ev), {e})
        BY <3>2 DEF Logged
      <4>2. Logged(e)' = Logged(e) + 0
        BY <4>1, <1>8, <1>11, <3>2
      <4> QED BY <4>2, <1>6
    <3> QED BY <3>1, <3>2, <1>3
  <2> QED BY <1>1, <1>4, <1>10, <1>11, <2>1, <2>2 DEF PlacesOf
<1>12. CASE x.ev = e
  <2>1. Cardinality(Holders(e)') = Cardinality(Holders(e)) - 1
    BY <1>4, <1>5, <1>7, <1>12
  <2>2. CASE dropped' = dropped /\ log' = Append(log, e)
    <3>1. Logged(e)' = Logged(e) + 1
      BY <1>8, <1>12, <2>2 DEF Logged
    <3> QED BY <1>1, <1>6, <1>10, <2>1, <2>2, <3>1 DEF PlacesOf
  <2>3. CASE log' = log /\ dropped' = dropped \union {e}
    <3>1. Logged(e)' = Logged(e)
      BY <2>3 DEF Logged
    <3> QED BY <1>1, <1>6, <1>9, <1>10, <1>12, <2>1, <2>3, <3>1 DEF PlacesOf
  <2>4. x.ev # 0 /\ ({x.ev} \ {0}) = {e}
    BY <1>12
  <2> QED BY <1>3, <1>12, <2>2, <2>3, <2>4
<1> QED BY <1>11, <1>12


\* A kill drops what was in flight, and nothing that is in the database.
LEMMA CrashPlaced ==
  ASSUME TypeOK, Modes, PlacedInv, Crash
  PROVE  PlacedInv'
<1> SUFFICES ASSUME NEW e \in Nat \ {0}
             PROVE  PlacesOf(e)' = PlacesOf(e)
  BY DEF PlacedInv, Crash, feed
<1>1. /\ queue' = <<>> /\ held' = [w \in Worker |-> Nothing] /\ inHand' = Nothing
      /\ log' = log /\ dropped' = dropped \union EventsOf(InFlight)
  BY DEF Crash, db
<1>2. /\ Logged(e) \in Nat /\ Queued(e) \in Nat
      /\ IsFiniteSet(Holders(e)) /\ Cardinality(Holders(e)) \in Nat
  BY PlacesNumbers
<1>3. Queued(e) # 0 <=> \E i \in DOMAIN queue : queue[i].ev = e
  <2> DEFINE P == {i \in DOMAIN queue : queue[i] \in Carriers(e)}
  <2>1. queue \in Seq(Payload)
    BY DEF TypeOK
  <2>2. IsFiniteSet(P) /\ Queued(e) = Cardinality(P)
    BY <2>1, PlacesType DEF Queued, Places
  <2>3. Queued(e) # 0 <=> P # {}
    BY <2>2, FS_EmptySet
  <2>4. \A i \in DOMAIN queue : queue[i] \in Payload
    BY <2>1
  <2> QED BY <2>3, <2>4 DEF Carriers
<1>4. Cardinality(Holders(e)) # 0 <=> \E w \in Worker : held[w].ev = e
  <2>1. Cardinality(Holders(e)) # 0 <=> Holders(e) # {}
    BY <1>2, FS_EmptySet
  <2> QED BY <2>1 DEF Holders
<1>5. e \in EventsOf(InFlight)
        <=> Queued(e) # 0 \/ Cardinality(Holders(e)) # 0 \/ inHand.ev = e
  <2>1. e \in EventsOf(InFlight) <=> \E x \in InFlight : x.ev = e
    BY DEF EventsOf
  <2>2. TicksOf(pending).ev # e /\ \A x \in flush : x.ev # e
    BY DEF TicksOf, Modes
  <2>3. (\E x \in InFlight : x.ev = e)
          <=> \/ \E i \in DOMAIN queue : queue[i].ev = e
              \/ \E w \in Worker : held[w].ev = e
              \/ inHand.ev = e
    BY <2>2 DEF InFlight
  <2> QED BY <1>3, <1>4, <2>1, <2>3
<1>6. Queued(e)' = 0 /\ Logged(e)' = Logged(e)
  BY <1>1, PlacesEmpty DEF Queued, Logged
<1>7. Cardinality(Holders(e)') = 0
  <2>1. Holders(e)' = {}
    BY <1>1 DEF Holders, Nothing
  <2> QED BY <2>1, FS_EmptySet
<1>8. inHand'.ev # e
  BY <1>1 DEF Nothing
<1>9. PlacesOf(e) = 0 \/ PlacesOf(e) = 1
  BY DEF PlacedInv
<1>10. (e \in dropped)' <=> e \in dropped \/ e \in EventsOf(InFlight)
  BY <1>1
<1>11. PlacesOf(e)' = Logged(e) + IF (e \in dropped)' THEN 1 ELSE 0
  BY <1>2, <1>6, <1>7, <1>8 DEF PlacesOf
<1> QED BY <1>2, <1>5, <1>9, <1>10, <1>11 DEF PlacesOf

\* Every step keeps each event in one place.
LEMMA PlacedKeeps ==
  ASSUME TypeOK, Modes, AllProper, DrainInv, PlacedInv, TypeOK', [Next]_vars
  PROVE  PlacedInv'
<1>1. CASE Connect
  <2>1. queue = <<>> /\ \A w \in Worker : held[w] = Nothing
    BY <1>1 DEF Connect, DrainInv, Modes
  <2> QED BY <1>1, <2>1, NoEventMoves DEF Connect, db, lost, feed
<1>2. ASSUME NEW m \in Market, ReadTick(m) PROVE PlacedInv'
  <2>1. inHand'.ev = inHand.ev
    BY <1>2 DEF ReadTick, Nothing, TicksOf
  <2> QED BY <1>2, <2>1, NoEventMoves DEF ReadTick, pool, db, lost
<1>3. CASE ReadEvent
  BY <1>3, ReadEventPlaced
<1>4. CASE ReaderPut
  BY <1>4, PutMoves DEF ReaderPut, TypeOK, db, lost, feed, pool
<1>5. CASE CoalesceTick \/ CoalesceLoop
  BY <1>5, NoEventMoves DEF CoalesceTick, CoalesceLoop, db, lost, feed, pool
<1>6. CASE CoalescePut
  <2>1. PICK item \in flush : Put(item)
    BY <1>6 DEF CoalescePut
  <2>2. item \in Payload /\ item.ev = 0
    BY DEF TypeOK, Modes
  <2> QED BY <1>6, <2>1, <2>2, PutMoves DEF CoalescePut, db, lost, feed, pool
<1>7. ASSUME NEW w \in Worker, Writer(w) PROVE PlacedInv'
  <2>1. CASE WorkerGet(w)
    BY <2>1, GetPlaced
  <2>2. CASE WorkerCommit(w) \/ WorkerFail(w)
    BY <2>2, DonePlaced
  <2>3. CASE WorkerDeadlock(w)
    BY <2>3, QuietSteps, NoEventMoves DEF db, lost, feed
  <2> QED BY <1>7, <2>1, <2>2, <2>3 DEF Writer
<1>8. CASE PutPill
  BY <1>8, NothingType, PutMoves DEF PutPill, Pill, db, lost, feed, pool
<1>9. CASE Crash
  BY <1>9, CrashPlaced
<1>10. CASE Allowlist \/ Close \/ KnownJoined \/ CoalescerJoined \/ Join \/ UNCHANGED vars
  BY <1>10, QuietSteps, NoEventMoves DEF db, lost, feed
<1> QED
  BY <1>1, <1>2, <1>3, <1>4, <1>5, <1>6, <1>7, <1>8, <1>9, <1>10
     DEF Next, Reader, Coalescer, Shutdown


\* The invariant of the counting and draining argument, for any pool.
PoolInv == TypeOK /\ Modes /\ AllProper /\ DrainInv /\ PlacedInv

\* The invariant of the pool holds in every state.
LEMMA PoolInductive == Spec => []PoolInv
<1>1. ASSUME Init PROVE PoolInv
  <2>1. TypeOK
    BY <1>1, ConstantsOk, NothingType DEF Init, TypeOK, NoTicks
  <2>2. \A x \in InFlight : x \in {Nothing, TicksOf(NoTicks)}
    BY <1>1 DEF Init, InFlight
  <2>3. AllProper
    BY <2>2 DEF AllProper, Proper, Nothing, TicksOf
  <2>4. Modes
    BY <1>1 DEF Init, Modes, Nothing
  <2>5. DrainInv
    <3>1. Writing = {}
      BY <1>1 DEF Init, Writing
    <3>2. Cardinality(Writing) = 0
      BY <3>1, FS_EmptySet
    <3> QED BY <1>1, <3>2 DEF Init, DrainInv
  <2>6. ASSUME NEW e \in Nat \ {0} PROVE PlacesOf(e) = IF e <= arrived THEN 1 ELSE 0
    <3>1. Holders(e) = {} /\ inHand.ev # e /\ e \notin dropped /\ arrived = 0
      BY <1>1 DEF Init, Holders, Nothing
    <3>2. Cardinality(Holders(e)) = 0
      BY <3>1, FS_EmptySet
    <3>3. Logged(e) = 0 /\ Queued(e) = 0
      BY <1>1, PlacesEmpty DEF Init, Logged, Queued
    <3> QED BY <3>1, <3>2, <3>3 DEF PlacesOf
  <2> QED BY <2>1, <2>3, <2>4, <2>5, <2>6 DEF PoolInv, PlacedInv
<1>2. PoolInv /\ TypeOK' /\ [Next]_vars => PoolInv'
  BY ModesKeep, ProperInv, DrainKeeps, PlacedKeeps DEF PoolInv
<1> QED BY <1>1, <1>2, WsTypeCorrect, PTL DEF Spec

\* A session that is over has nothing in flight.
LEMMA DownIsEmpty ==
  ASSUME TypeOK, Modes, DrainInv, phase = "down"
  PROVE  /\ queue = <<>> /\ inHand = Nothing /\ flush = {} /\ pending = NoTicks
         /\ \A w \in Worker : held[w] = Nothing
BY DEF TypeOK, Modes, DrainInv

\* Whatever the number of workers, an event is at any time in exactly one
\* place: the database, the queue, one worker, the reader's hand, or given up;
\* and when a session is over it is in the database or was given up.
THEOREM WsExactlyOnePlace == Spec => []ExactlyOnePlace
<1>1. PoolInv => ExactlyOnePlace
  <2> SUFFICES ASSUME PoolInv, NEW e \in 1..arrived
               PROVE  LET logged == {i \in DOMAIN log : log[i] = e}
                          queued == {i \in DOMAIN queue : queue[i].ev = e}
                          writing == {w \in Worker : held[w].ev = e}
                      IN  /\ Cardinality(logged) + Cardinality(queued)
                               + Cardinality(writing)
                               + (IF inHand.ev = e THEN 1 ELSE 0)
                               + (IF e \in dropped THEN 1 ELSE 0) = 1
                          /\ phase = "down" => logged # {} \/ e \in dropped
    BY DEF ExactlyOnePlace
  <2> DEFINE logged == {i \in DOMAIN log : log[i] = e}
             queued == {i \in DOMAIN queue : queue[i].ev = e}
  <2>1. e \in Nat \ {0} /\ e <= arrived /\ TypeOK
    BY DEF PoolInv, TypeOK
  <2>2. Logged(e) = Cardinality(logged)
    BY DEF Logged, Places
  <2>3. Queued(e) = Cardinality(queued)
    <3>1. \A i \in DOMAIN queue : queue[i] \in Payload
      BY <2>1 DEF TypeOK
    <3>2. queued = {i \in DOMAIN queue : queue[i] \in Carriers(e)}
      BY <3>1 DEF Carriers
    <3> QED BY <3>2 DEF Queued, Places
  <2>4. PlacesOf(e) = 1
    BY <2>1 DEF PoolInv, PlacedInv
  <2>5. Cardinality(logged) + Cardinality(queued) + Cardinality(Holders(e))
          + (IF inHand.ev = e THEN 1 ELSE 0) + (IF e \in dropped THEN 1 ELSE 0) = 1
    BY <2>2, <2>3, <2>4 DEF PlacesOf
  <2>6. ASSUME phase = "down", logged = {} PROVE e \in dropped
    <3>1. queue = <<>> /\ inHand = Nothing /\ \A w \in Worker : held[w] = Nothing
      BY <2>1, <2>6, DownIsEmpty DEF PoolInv
    <3>2. queued = {} /\ Holders(e) = {} /\ inHand.ev # e
      BY <2>1, <3>1 DEF Holders, Nothing
    <3>3. Cardinality(logged) = 0 /\ Cardinality(queued) = 0
            /\ Cardinality(Holders(e)) = 0
      BY <2>6, <3>2, FS_EmptySet
    <3> QED BY <2>5, <3>2, <3>3
  <2> QED BY <2>5, <2>6 DEF Holders
<1> QED BY <1>1, PoolInductive, PTL

-----------------------------------------------------------------------------
(* Draining, for one worker.                                               *)

\* A step that stores nothing new, and moves or gives up what is in flight.
LEMMA LatestStays ==
  ASSUME TypeOK, AllFresh, LatestInv, UNCHANGED <<seen, store>>,
         \A m \in Market : missed[m] \subseteq missed'[m],
         \A x \in InFlight, m \in Market :
            x.ticks[m] # 0 => \/ x.ticks[m] \in missed'[m]
                              \/ \E y \in InFlight' : y.ticks[m] = x.ticks[m]
  PROVE  LatestInv'
<1> SUFFICES ASSUME NEW m \in Market
             PROVE  \/ store'[m] = seen'[m]
                    \/ seen'[m] \in missed'[m]
                    \/ \E x \in InFlight' : x.ticks[m] = seen'[m]
  BY DEF LatestInv
<1>1. CASE seen[m] = 0
  <2>1. store[m] = seen[m]
    BY <1>1 DEF AllFresh, TypeOK
  <2> QED BY <2>1
<1>2. CASE seen[m] # 0
  BY <1>2 DEF LatestInv
<1> QED BY <1>1, <1>2

\* A commit stores the latest state, or leaves it where it is.
LEMMA LatestCommit ==
  ASSUME TypeOK, AllFresh, LatestInv, NEW w \in Worker, WorkerCommit(w)
  PROVE  LatestInv'
<1> SUFFICES ASSUME NEW m \in Market
             PROVE  \/ store'[m] = seen'[m]
                    \/ seen'[m] \in missed'[m]
                    \/ \E x \in InFlight' : x.ticks[m] = seen'[m]
  BY DEF LatestInv
<1>1. /\ seen' = seen /\ missed' = missed /\ store'[m] = Stored(held[w].ticks)[m]
      /\ UNCHANGED <<inHand, pending, flush, queue>>
      /\ held' = [held EXCEPT ![w] = Nothing]
  BY DEF WorkerCommit, WorkerDone, feed, lost, coalescer
<1>2. store'[m] = IF held[w].ticks[m] # 0 THEN held[w].ticks[m] ELSE store[m]
  BY <1>1 DEF Stored
<1>3. /\ held[w].ticks[m] <= seen[m]
      /\ held[w].ticks[m] # 0 => store[m] < held[w].ticks[m]
  BY InFlightMembers DEF AllFresh, Fresh
<1>4. /\ seen[m] \in Nat /\ store[m] \in Nat /\ held[w].ticks[m] \in Nat
      /\ store[m] <= seen[m]
  BY DEF TypeOK, Payload, AllFresh
<1>5. CASE store[m] = seen[m]
  BY <1>1, <1>2, <1>3, <1>4, <1>5
<1>6. ASSUME NEW x \in InFlight, x.ticks[m] = seen[m], store[m] # seen[m]
      PROVE  store'[m] = seen'[m] \/ \E y \in InFlight' : y.ticks[m] = seen'[m]
  <2>1. CASE x = held[w]
    BY <1>1, <1>2, <1>4, <1>6, <2>1
  <2>2. CASE x # held[w]
    <3>1. x \in InFlight'
      BY <1>1, <1>6, <2>2 DEF InFlight, TypeOK
    <3> QED BY <1>1, <1>6, <3>1
  <2> QED BY <2>1, <2>2
<1> QED BY <1>1, <1>5, <1>6 DEF LatestInv


\* The payloads made of the states f carry all of them.
LEMMA PayloadsCover ==
  ASSUME NEW f \in [Market -> Nat], NEW m \in Market, f[m] # 0
  PROVE  \E x \in Payloads(f) : x.ticks[m] = f[m]
<1>1. f # NoTicks
  BY DEF NoTicks
<1>2. CASE BatchWrites
  <2>1. TicksOf(f) \in Payloads(f)
    BY <1>1, <1>2 DEF Payloads
  <2> QED BY <2>1 DEF TicksOf
<1>3. CASE ~BatchWrites
  <2>1. TicksOf(Only(f, m)) \in Payloads(f)
    BY <1>1, <1>3 DEF Payloads
  <2>2. TicksOf(Only(f, m)).ticks[m] = f[m]
    BY DEF TicksOf, Only
  <2> QED BY <2>1, <2>2
<1> QED BY <1>2, <1>3

\* A read makes the latest state of its market, and loses no other.
LEMMA LatestRead ==
  ASSUME TypeOK, AllFresh, LatestInv, NEW m \in Market, ReadTick(m)
  PROVE  LatestInv'
<1> SUFFICES ASSUME NEW n \in Market
             PROVE  \/ store'[n] = seen'[n]
                    \/ seen'[n] \in missed'[n]
                    \/ \E x \in InFlight' : x.ticks[n] = seen'[n]
  BY DEF LatestInv
<1>1. /\ inHand = Nothing /\ seen' = [seen EXCEPT ![m] = @ + 1]
      /\ UNCHANGED <<flush, queue, held, store, missed>>
      /\ \/ pending' = [pending EXCEPT ![m] = seen[m] + 1] /\ inHand' = inHand
         \/ /\ inHand' = TicksOf([NoTicks EXCEPT ![m] = seen[m] + 1])
            /\ pending' = pending
  BY DEF ReadTick, pool, db, lost
<1>2. /\ seen[n] \in Nat /\ store[n] \in Nat /\ pending[n] \in Nat
      /\ seen \in [Market -> Nat] /\ pending \in [Market -> Nat]
      /\ store[n] <= seen[n]
  BY DEF TypeOK, AllFresh
<1>3. inHand' \in InFlight' /\ TicksOf(pending') \in InFlight'
  BY DEF InFlight
<1>4. CASE n = m
  <2>1. \/ TicksOf(pending').ticks[n] = seen'[n]
        \/ inHand'.ticks[n] = seen'[n]
    BY <1>1, <1>2, <1>4 DEF TicksOf, NoTicks
  <2> QED BY <1>3, <2>1
<1>5. CASE n # m
  <2>1. seen'[n] = seen[n] /\ pending'[n] = pending[n]
    BY <1>1, <1>2, <1>5
  <2>2. CASE store[n] = seen[n] \/ seen[n] \in missed[n]
    BY <1>1, <2>1, <2>2
  <2>3. ASSUME NEW x \in InFlight, x.ticks[n] = seen[n], store[n] # seen[n]
        PROVE  \E y \in InFlight' : y.ticks[n] = seen'[n]
    <3>1. x # Nothing
      BY <1>2, <2>3 DEF Nothing, NoTicks
    <3>2. CASE x = TicksOf(pending)
      <4>1. TicksOf(pending').ticks[n] = seen'[n]
        BY <2>1, <2>3, <3>2 DEF TicksOf
      <4> QED BY <1>3, <4>1
    <3>3. CASE x # TicksOf(pending)
      <4>1. x \in InFlight'
        BY <1>1, <2>3, <3>1, <3>3 DEF InFlight
      <4> QED BY <2>1, <2>3, <4>1
    <3> QED BY <3>2, <3>3
  <2> QED BY <1>1, <2>2, <2>3 DEF LatestInv
<1> QED BY <1>4, <1>5

\* Every step keeps the latest state stored, given up, or on its way.
LEMMA LatestKeeps ==
  ASSUME TypeOK, Modes, AllFresh, DrainInv, LatestInv, TypeOK', [Next]_vars
  PROVE  LatestInv'
<1> DEFINE Kept(x, m) == \/ x.ticks[m] \in missed'[m]
                         \/ \E y \in InFlight' : y.ticks[m] = x.ticks[m]
<1>1. ASSUME UNCHANGED <<seen, store, missed>>,
             \A x \in InFlight : x \in InFlight' \/ x.ticks = NoTicks
      PROVE  LatestInv'
  <2>1. \A x \in InFlight, m \in Market : x.ticks[m] # 0 => Kept(x, m)
    BY <1>1 DEF NoTicks
  <2> HIDE DEF Kept
  <2>2. \A m \in Market : missed[m] \subseteq missed'[m]
    BY <1>1
  <2> QED BY <1>1, <2>1, <2>2, LatestStays DEF Kept
<1>2. Nothing.ticks = NoTicks /\ Pill.ticks = NoTicks
      /\ \A e : EventOf(e).ticks = NoTicks
  BY DEF Nothing, Pill, EventOf
<1>3. CASE Connect
  <2>1. queue = <<>> /\ inHand = Nothing /\ flush = {} /\ pending = NoTicks
        /\ \A w \in Worker : held[w] = Nothing
    BY <1>3, DownIsEmpty DEF Connect
  <2>2. \A x \in InFlight : x = Nothing \/ x = TicksOf(NoTicks)
    BY <2>1 DEF InFlight
  <2>3. \A x \in InFlight : x.ticks = NoTicks
    BY <2>2, <1>2 DEF TicksOf
  <2> QED BY <1>1, <1>3, <2>3 DEF Connect, feed, db, lost
<1>4. ASSUME NEW m \in Market, ReadTick(m) PROVE LatestInv'
  BY <1>4, LatestRead
<1>5. CASE ReadEvent
  <2>1. \A x \in InFlight : x \in InFlight' \/ x = Nothing
    BY <1>5 DEF ReadEvent, InFlight, coalescer, pool
  <2> QED BY <1>1, <1>2, <1>5, <2>1 DEF ReadEvent, db, lost
<1>6. ASSUME NEW item \in Payload, Put(item), UNCHANGED <<pending, held>>,
             flush \ {item} \subseteq flush', inHand' = inHand \/ item = inHand,
             UNCHANGED <<seen, store, missed>>
      PROVE  LatestInv'
  <2>1. queue \in Seq(Payload) /\ queue' = Append(queue, item)
    BY <1>6 DEF Put, TypeOK
  <2>2. /\ DOMAIN queue \subseteq DOMAIN queue'
        /\ \A i \in DOMAIN queue : queue'[i] = queue[i]
        /\ Len(queue) + 1 \in DOMAIN queue' /\ queue'[Len(queue) + 1] = item
    BY <2>1
  <2>3. item \in InFlight' /\ \A i \in DOMAIN queue : queue[i] \in InFlight'
    BY <2>2 DEF InFlight
  <2>4. \A x \in InFlight : x \in InFlight'
    BY <1>6, <2>3 DEF InFlight
  <2> QED BY <1>1, <1>6, <2>4
<1>7. CASE ReaderPut
  BY <1>6, <1>7 DEF ReaderPut, TypeOK, coalescer, pool, feed, db, lost
<1>8. CASE CoalescePut
  <2>1. PICK item \in flush : Put(item) /\ flush' = flush \ {item}
    BY <1>8 DEF CoalescePut
  <2>2. item \in Payload
    BY DEF TypeOK
  <2> QED BY <1>6, <1>8, <2>1, <2>2 DEF CoalescePut, pool, feed, db, lost
<1>9. CASE PutPill
  BY <1>6, <1>9, NothingType DEF PutPill, coalescer, pool, feed, db, lost
<1>10. CASE CoalesceTick \/ CoalesceLoop
  <2>1. /\ UNCHANGED <<seen, store, missed, queue, inHand, held>>
        /\ \/ UNCHANGED <<pending, flush>>
           \/ flush = {} /\ flush' = Payloads(pending) /\ pending' = NoTicks
    BY <1>10 DEF CoalesceTick, CoalesceLoop, DrainInv, pool, feed, db, lost
  <2>2. CASE UNCHANGED <<pending, flush>>
    <3>1. InFlight' = InFlight
      BY <2>1, <2>2 DEF InFlight
    <3> QED BY <1>1, <2>1, <3>1
  <2>3. CASE flush = {} /\ flush' = Payloads(pending) /\ pending' = NoTicks
    <3>1. ASSUME NEW x \in InFlight, NEW m \in Market, x.ticks[m] # 0
          PROVE  Kept(x, m)
      <4>1. CASE x = TicksOf(pending)
        <5>1. x.ticks = pending /\ pending \in [Market -> Nat]
          BY <4>1 DEF TicksOf, TypeOK
        <5>2. PICK y \in Payloads(pending) : y.ticks[m] = pending[m]
          BY <3>1, <5>1, PayloadsCover
        <5>3. y \in InFlight'
          BY <2>3 DEF InFlight
        <5> QED BY <5>1, <5>2, <5>3
      <4>2. CASE x # TicksOf(pending)
        <5>1. x \in InFlight'
          BY <2>1, <2>3, <3>1, <4>2 DEF InFlight
        <5> QED BY <5>1
      <4> QED BY <4>1, <4>2
    <3> HIDE DEF Kept
    <3>2. \A m \in Market : missed[m] \subseteq missed'[m]
      BY <2>1
    <3> QED BY <2>1, <3>1, <3>2, LatestStays DEF Kept
  <2> QED BY <2>1, <2>2, <2>3
<1>11. ASSUME NEW w \in Worker, WorkerGet(w) PROVE LatestInv'
  <2>1. /\ UNCHANGED <<seen, store, missed, flush, pending, inHand>>
        /\ queue # <<>> /\ queue' = Tail(queue)
        /\ held[w] = Nothing
        /\ \/ held' = held /\ Head(queue) = Pill
           \/ held' = [held EXCEPT ![w] = Head(queue)]
    BY <1>11 DEF WorkerGet, Modes, coalescer, feed, db, lost
  <2>2. queue \in Seq(Payload) /\ held \in [Worker -> Payload]
    BY DEF TypeOK
  <2>3. \A i \in DOMAIN queue :
           queue[i] = Head(queue) \/ \E j \in DOMAIN queue' : queue'[j] = queue[i]
    <3>1. SUFFICES ASSUME NEW i \in DOMAIN queue, i # 1
                   PROVE  \E j \in DOMAIN queue' : queue'[j] = queue[i]
      BY <2>1, <2>2
    <3>2. i - 1 \in DOMAIN queue' /\ queue'[i - 1] = queue[i]
      BY <2>1, <2>2, <3>1
    <3> QED BY <3>2
  <2>4. \A v \in Worker : held[v] = Nothing \/ held'[v] = held[v]
    BY <2>1, <2>2
  <2>5. Head(queue) = Pill \/ held'[w] = Head(queue)
    BY <2>1, <2>2
  <2>6. \A x \in InFlight : x \in InFlight' \/ x = Nothing \/ x = Pill
    BY <2>1, <2>3, <2>4, <2>5 DEF InFlight
  <2> QED BY <1>1, <1>2, <2>1, <2>6
<1>12. ASSUME NEW w \in Worker, WorkerCommit(w) PROVE LatestInv'
  BY <1>12, LatestCommit
<1>13. ASSUME NEW w \in Worker, WorkerDeadlock(w) PROVE LatestInv'
  <2>1. InFlight' = InFlight
    BY <1>13, QuietSteps DEF InFlight
  <2> QED BY <1>1, <1>13, <2>1, QuietSteps DEF feed, db, lost
<1>14. ASSUME NEW w \in Worker, WorkerFail(w) PROVE LatestInv'
  <2>1. /\ UNCHANGED <<seen, store, flush, pending, inHand, queue>>
        /\ missed' = Missed({held[w]}) /\ held' = [held EXCEPT ![w] = Nothing]
    BY <1>14 DEF WorkerFail, WorkerDone, coalescer, feed, db
  <2>2. \A m \in Market : missed[m] \subseteq missed'[m]
    BY <2>1 DEF Missed
  <2>3. ASSUME NEW x \in InFlight, NEW m \in Market, x.ticks[m] # 0
        PROVE  Kept(x, m)
    <3>1. CASE x = held[w]
      BY <2>1, <2>3, <3>1 DEF Missed
    <3>2. CASE x # held[w]
      <4>1. x \in InFlight'
        BY <2>1, <2>3, <3>2 DEF InFlight, TypeOK
      <4> QED BY <4>1
    <3> QED BY <3>1, <3>2
  <2> HIDE DEF Kept
  <2> QED BY <2>1, <2>2, <2>3, LatestStays DEF Kept
<1>15. CASE Crash
  <2>1. UNCHANGED <<seen, store>> /\ missed' = Missed(InFlight)
    BY <1>15 DEF Crash, feed, db
  <2>2. \A m \in Market : missed[m] \subseteq missed'[m]
    BY <2>1 DEF Missed
  <2>3. \A x \in InFlight, m \in Market : x.ticks[m] # 0 => Kept(x, m)
    BY <2>1 DEF Missed
  <2> HIDE DEF Kept
  <2> QED BY <2>1, <2>2, <2>3, LatestStays DEF Kept
<1>16. CASE Allowlist \/ Close \/ KnownJoined \/ CoalescerJoined \/ Join \/ UNCHANGED vars
  <2>1. InFlight' = InFlight
    BY <1>16, QuietSteps DEF InFlight
  <2> QED BY <1>1, <1>16, <2>1, QuietSteps DEF feed, db, lost
<1> QED
  BY <1>3, <1>4, <1>5, <1>7, <1>8, <1>9, <1>10, <1>11, <1>12, <1>13, <1>14,
     <1>15, <1>16
     DEF Next, Reader, Coalescer, Writer, Shutdown

\* With one worker, a session that is over has left the latest state of every
\* market in the database, but for payloads that were given up or killed.
THEOREM WsTicksDrained ==
  ASSUME SingleWorker
  PROVE  Spec => []TicksDrained
<1>1. ASSUME Init PROVE LatestInv
  BY <1>1 DEF Init, LatestInv
<1>2. Inv /\ PoolInv /\ LatestInv /\ TypeOK' /\ [Next]_vars => LatestInv'
  BY LatestKeeps DEF Inv, PoolInv, PipelineOrdered
<1>3. ASSUME Inv, PoolInv, LatestInv PROVE TicksDrained
  <2> SUFFICES ASSUME phase = "down", NEW m \in Market
               PROVE  store[m] = seen[m] \/ seen[m] \in missed[m]
    BY DEF TicksDrained
  <2>1. queue = <<>> /\ inHand = Nothing /\ flush = {} /\ pending = NoTicks
        /\ \A w \in Worker : held[w] = Nothing
    BY <1>3, DownIsEmpty DEF PoolInv
  <2>2. \A x \in InFlight : x = Nothing \/ x = TicksOf(NoTicks)
    BY <2>1 DEF InFlight
  <2>3. \A x \in InFlight : x.ticks[m] = 0
    BY <2>2 DEF TicksOf, Nothing, NoTicks
  <2>4. store[m] \in Nat /\ seen[m] \in Nat /\ store[m] <= seen[m]
    BY <1>3 DEF Inv, TypeOK, PipelineOrdered, AllFresh
  <2> QED BY <1>3, <2>3, <2>4 DEF LatestInv
<1> QED BY <1>1, <1>2, <1>3, WsInductive, PoolInductive, WsTypeCorrect, PTL DEF Spec
=============================================================================
