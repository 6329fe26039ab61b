------------------------------ MODULE Api_proof ------------------------------
(***************************************************************************)
(* What the API promises its clients, for any threads, processes, limits   *)
(* and windows: a request within the limit is never refused and the limit  *)
(* holds (RateLimiter), a cached payload is no older than it may be        *)
(* (PayloadCache), the health panel vouches for the jobs it shows as       *)
(* healthy (HealthBoard), a list of suspicious trades misses none that it  *)
(* should show and is as long as it may be (FlagBoard), the lists of       *)
(* active and historical markets split them and agree with their labels    *)
(* (MarketScopes), and a search finds what it owes (SearchDesk).           *)
(***************************************************************************)
EXTENDS Dashboard, Integers, Sequences, FiniteSetTheorems, WellFoundedInduction, TLAPS

(* ---- Counting requests --------------------------------------------------- *)

\* What the parts count with is what is counted with here.
LEMMA SameCount ==
  ASSUME NEW S
  PROVE  /\ Board!Cardinality(S) = Cardinality(S) /\ Limiter!Cardinality(S) = Cardinality(S)
         /\ Desk!Cardinality(S) = Cardinality(S)
         /\ Board!IsFiniteSet(S) <=> IsFiniteSet(S)
         /\ Limiter!IsFiniteSet(S) <=> IsFiniteSet(S)
<1>1. Board!IsFiniteSet(S) <=> IsFiniteSet(S)
  BY DEF Board!IsFiniteSet, IsFiniteSet
<1>2. Board!Cardinality(S) = Cardinality(S)
  BY DEF Board!Cardinality, Cardinality
<1>3. Limiter!IsFiniteSet(S) <=> IsFiniteSet(S)
  BY DEF Limiter!IsFiniteSet, IsFiniteSet
<1>4. Limiter!Cardinality(S) = Cardinality(S)
  BY DEF Limiter!Cardinality, Cardinality
<1>5. Desk!Cardinality(S) = Cardinality(S)
  BY DEF Desk!Cardinality, Cardinality
<1> QED
  BY <1>1, <1>2, <1>3, <1>4, <1>5

\* A part of a finite set is finite and no larger.
LEMMA Fewer ==
  ASSUME NEW S, IsFiniteSet(S), NEW T \in SUBSET S
  PROVE  /\ IsFiniteSet(T) /\ Cardinality(T) \in Nat /\ Cardinality(S) \in Nat
         /\ Cardinality(T) <= Cardinality(S)
BY FS_Subset, FS_CardinalityType

\* It is smaller when an element is missing.
LEMMA OneFewer ==
  ASSUME NEW S, IsFiniteSet(S), NEW x \in S, NEW T \in SUBSET (S \ {x})
  PROVE  Cardinality(T) + 1 <= Cardinality(S)
<1>1. IsFiniteSet(S \ {x}) /\ Cardinality(S \ {x}) = Cardinality(S) - 1
  BY FS_RemoveElement
<1>2. Cardinality(T) <= Cardinality(S \ {x}) /\ Cardinality(T) \in Nat
  BY <1>1, Fewer
<1>3. Cardinality(S) \in Nat
  BY FS_CardinalityType
<1> QED
  BY <1>1, <1>2, <1>3

\* A set with at most one new element has at most one more.
LEMMA OneMore ==
  ASSUME NEW S, IsFiniteSet(S), NEW x, NEW T \in SUBSET (S \union {x})
  PROVE  IsFiniteSet(T) /\ Cardinality(T) \in Nat /\ Cardinality(T) <= Cardinality(S) + 1
<1>1. IsFiniteSet(S \union {x}) /\ Cardinality(S) \in Nat
      /\ Cardinality(S \union {x}) <= Cardinality(S) + 1
  <2>1. Cardinality(S) \in Nat
    BY FS_CardinalityType
  <2>2. /\ IsFiniteSet(S \union {x})
        /\ \/ Cardinality(S \union {x}) = Cardinality(S)
           \/ Cardinality(S \union {x}) = Cardinality(S) + 1
    BY FS_AddElement
  <2> QED
    BY <2>1, <2>2
<1>2. IsFiniteSet(T) /\ Cardinality(T) <= Cardinality(S \union {x}) /\ Cardinality(T) \in Nat
      /\ Cardinality(S \union {x}) \in Nat
  BY <1>1, Fewer
<1> QED
  BY <1>1, <1>2

\* The window of a time, and what lies in it.
LEMMA WindowOf ==
  ASSUME NEW t \in Nat, NEW n \in Nat \ {0}
  PROVE  /\ t \div n \in Nat
         /\ \A w \in Nat : w <= t \div n => w * n <= t
         /\ \A w \in Nat : t \div n <= w => t < (w + 1) * n
         /\ \A s \in Nat : t <= s => t \div n <= s \div n
<1>1. t \div n \in Nat /\ (t \div n) * n <= t /\ t < (t \div n + 1) * n
  OBVIOUS
<1>2. ASSUME NEW w \in Nat, w <= t \div n
      PROVE  w * n <= t
  <2>1. w * n <= (t \div n) * n
    BY <1>1, <1>2
  <2> QED
    BY <1>1, <2>1
<1>3. ASSUME NEW w \in Nat, t \div n <= w
      PROVE  t < (w + 1) * n
  <2>1. (t \div n + 1) * n <= (w + 1) * n
    BY <1>1, <1>3
  <2> QED
    BY <1>1, <2>1
<1>4. ASSUME NEW s \in Nat, t <= s
      PROVE  t \div n <= s \div n
  <2>1. s < (s \div n + 1) * n /\ s \div n \in Nat
    OBVIOUS
  <2>2. CASE s \div n < t \div n
    <3>1. (s \div n + 1) * n <= (t \div n) * n
      BY <1>1, <2>1, <2>2
    <3> QED
      BY <1>1, <1>4, <2>1, <3>1
  <2> QED
    BY <1>1, <2>1, <2>2
<1> QED
  BY <1>1, <1>2, <1>3, <1>4


(* ---- Types --------------------------------------------------------------- *)

\* The window of the clock is one of those that are counted.
LEMMA ThisWindow ==
  ASSUME Limiter!LimiterConstants, Limiter!LimiterTypeOK
  PROVE  /\ time \in Nat /\ time \div Window \in Limiter!Windows /\ Limiter!Key(time) = time \div Window
         /\ Limiter!Windows \subseteq Nat
<1>1. /\ time \in Nat /\ LimiterTime \in Nat /\ time <= LimiterTime /\ Window \in Nat \ {0}
  BY DEF Limiter!LimiterConstants, Limiter!LimiterTypeOK
<1>2. /\ time \div Window \in Nat /\ LimiterTime \div Window \in Nat
      /\ time \div Window <= LimiterTime \div Window
  BY <1>1, WindowOf
<1> QED
  BY <1>1, <1>2 DEF Limiter!Windows, Limiter!Key

\* An answer keeps the counters of requests well typed.
LEMMA AnswerTypes ==
  ASSUME Limiter!LimiterConstants, Limiter!LimiterTypeOK, NEW t \in Thread, NEW n, Limiter!Answer(t, n)
  PROVE  /\ req' \in [Thread -> [at : {"idle", "choose", "connect", "redis", "expire",
                                     "memory"}, key : Limiter!Windows, start : Limiter!Windows]]
         /\ allowed' \in [Limiter!Windows -> Nat] /\ refused' \in [Limiter!Windows -> Nat]
         /\ late' \in [Limiter!Windows -> Nat]
<1>1. 0 \in Limiter!Windows /\ req[t].start \in Limiter!Windows
  <2>1. LimiterTime \div Window \in Nat
    BY WindowOf DEF Limiter!LimiterConstants
  <2> QED
    BY <2>1 DEF Limiter!Windows, Limiter!LimiterTypeOK
<1>2. Limiter!Idle \in [at : {"idle", "choose", "connect", "redis", "expire", "memory"},
                        key : Limiter!Windows, start : Limiter!Windows]
  BY <1>1 DEF Limiter!Idle
<1> QED
  BY <1>1, <1>2 DEF Limiter!Answer, Limiter!LimiterTypeOK

\* A step of a check keeps where it is well typed.
LEMMA GoOnTypes ==
  ASSUME Limiter!LimiterTypeOK, NEW t \in Thread,
         NEW at \in {"idle", "choose", "connect", "redis", "expire", "memory"}, Limiter!GoOn(t, at)
  PROVE  req' \in [Thread -> [at : {"idle", "choose", "connect", "redis", "expire", "memory"},
                              key : Limiter!Windows, start : Limiter!Windows]]
BY DEF Limiter!GoOn, Limiter!LimiterTypeOK

\* What is live of an entry, and an increment of one, is an entry.
LEMMA LiveTypes ==
  ASSUME Limiter!LimiterTypeOK
  PROVE  /\ \A entry \in Limiter!Entry : Limiter!Live(entry) \in Limiter!Entry
         /\ \A k \in Limiter!Windows : Limiter!Incremented(k) \in [Limiter!Windows -> Limiter!Entry]
<1>1. \A entry \in Limiter!Entry : Limiter!Live(entry) \in Limiter!Entry
  BY DEF Limiter!Live, Limiter!NoCount, Limiter!Entry
<1>2. ASSUME NEW k \in Limiter!Windows
      PROVE  Limiter!Incremented(k) \in [Limiter!Windows -> Limiter!Entry]
  <2>1. Limiter!Live(shared[k]) \in Limiter!Entry /\ shared \in [Limiter!Windows -> Limiter!Entry]
    BY <1>1, <1>2 DEF Limiter!LimiterTypeOK
  <2>2. [count |-> Limiter!Live(shared[k]).count + 1, until |-> Limiter!Live(shared[k]).until] \in Limiter!Entry
    BY <2>1 DEF Limiter!Entry
  <2> QED
    BY <2>1, <2>2 DEF Limiter!Incremented
<1> QED
  BY <1>1, <1>2

\* So is an entry whose time to live is set, and it counts no more than it did.
LEMMA TimedTypes ==
  ASSUME Limiter!LimiterConstants, Limiter!LimiterTypeOK, NEW k \in Limiter!Windows
  PROVE  /\ Limiter!Timed(k) \in [Limiter!Windows -> Limiter!Entry]
         /\ \A w \in Limiter!Windows \ {k} : Limiter!Timed(k)[w] = shared[w]
         /\ Limiter!Timed(k)[k] = IF Limiter!Live(shared[k]).count = 0 THEN Limiter!NoCount
                                  ELSE [shared[k] EXCEPT !.until = time + Window]
         /\ \A w \in Limiter!Windows : Limiter!Timed(k)[w].count <= shared[w].count
<1>1. shared \in [Limiter!Windows -> Limiter!Entry] /\ time + Window \in Nat
  BY DEF Limiter!LimiterTypeOK, Limiter!LimiterConstants
<1>2. /\ Limiter!NoCount \in Limiter!Entry
      /\ \A entry \in Limiter!Entry :
           /\ [entry EXCEPT !.until = time + Window] \in Limiter!Entry
           /\ Limiter!NoCount.count <= entry.count /\ entry.count <= entry.count
           /\ [entry EXCEPT !.until = time + Window].count = entry.count
  BY <1>1 DEF Limiter!NoCount, Limiter!Entry
<1>3. Limiter!Timed(k) = [shared EXCEPT ![k] =
                            IF Limiter!Live(shared[k]).count = 0 THEN Limiter!NoCount
                            ELSE [shared[k] EXCEPT !.until = time + Window]]
  BY DEF Limiter!Timed
<1> QED
  BY <1>1, <1>2, <1>3

\* Types hold at the start.
LEMMA LimiterInit ==
  ASSUME Limiter!LimiterConstants, Limiter!Init
  PROVE  Limiter!LimiterTypeOK
<1>1. LimiterTime \div Window \in Nat
  BY WindowOf DEF Limiter!LimiterConstants
<1>2. 0 \in Limiter!Windows /\ Limiter!Zero \in [Limiter!Windows -> Nat] /\ Limiter!NoCount \in Limiter!Entry
  BY <1>1 DEF Limiter!Windows, Limiter!Zero, Limiter!NoCount, Limiter!Entry
<1> QED
  BY <1>2 DEF Limiter!Init, Limiter!LimiterTypeOK, Limiter!LimiterConstants, Limiter!Idle

\* A check keeps them.
LEMMA CheckTypes ==
  ASSUME Limiter!LimiterConstants, Limiter!LimiterTypeOK, NEW t \in Thread, Limiter!Check(t)
  PROVE  Limiter!LimiterTypeOK'
<1>0. ProcessOf[t] \in Servers /\ req[t].key \in Limiter!Windows
  BY DEF Limiter!LimiterConstants, Limiter!LimiterTypeOK
<1>1. CASE Limiter!Choose(t)
  <2>1. counter[ProcessOf[t]] \in {"none", "redis", "memory"}
    BY <1>0 DEF Limiter!LimiterTypeOK
  <2>2. (IF counter[ProcessOf[t]] # "none" THEN counter[ProcessOf[t]]
         ELSE IF failed[ProcessOf[t]] THEN "memory" ELSE "connect")
          \in {"idle", "choose", "connect", "redis", "expire", "memory"}
    BY <2>1
  <2> QED
    BY <1>1, <2>2, GoOnTypes DEF Limiter!Choose, Limiter!NoAnswer, Limiter!LimiterTypeOK
<1>2. CASE Limiter!Connect(t)
  <2>1. Limiter!GoOn(t, "redis")
    BY <1>2 DEF Limiter!Connect
  <2> QED
    BY <1>2, <2>1, GoOnTypes DEF Limiter!Connect, Limiter!NoAnswer, Limiter!LimiterTypeOK
<1>3. CASE Limiter!ConnectFails(t)
  <2>1. Limiter!GoOn(t, "memory")
    BY <1>3 DEF Limiter!ConnectFails
  <2> QED
    <3>1. failed' \in [Servers -> BOOLEAN]
      <4>1. failed' = [failed EXCEPT ![ProcessOf[t]] = TRUE] /\ failed \in [Servers -> BOOLEAN]
        BY <1>3 DEF Limiter!ConnectFails, Limiter!LimiterTypeOK
      <4> QED
        BY <4>1, Zenon
    <3>2. UNCHANGED <<time, shared, local, counter, made, allowed, refused, late, lost>>
          /\ failures' \in Nat
      BY <1>3 DEF Limiter!ConnectFails, Limiter!NoAnswer, Limiter!LimiterTypeOK
    <3> QED
      BY <2>1, <3>1, <3>2, GoOnTypes DEF Limiter!LimiterTypeOK
<1>4. CASE Limiter!Incr(t)
  <2>1. shared' \in [Limiter!Windows -> Limiter!Entry]
    BY <1>0, <1>4, LiveTypes DEF Limiter!Incr
  <2>2. CASE Limiter!GoOn(t, "expire") /\ Limiter!NoAnswer
    BY <1>4, <2>1, <2>2, GoOnTypes DEF Limiter!Incr, Limiter!NoAnswer, Limiter!LimiterTypeOK
  <2>3. CASE Limiter!Answer(t, shared'[req[t].key].count)
    BY <1>4, <2>1, <2>3, AnswerTypes DEF Limiter!Incr, Limiter!LimiterTypeOK
  <2> QED
    BY <1>4, <2>2, <2>3 DEF Limiter!Incr
<1>5. CASE Limiter!Expire(t)
  <2>1. shared' \in [Limiter!Windows -> Limiter!Entry]
    BY <1>0, <1>5, TimedTypes DEF Limiter!Expire
  <2> QED
    BY <1>5, <2>1, AnswerTypes DEF Limiter!Expire, Limiter!LimiterTypeOK
<1>6. CASE Limiter!RedisFails(t)
  <2>1. shared' \in [Limiter!Windows -> Limiter!Entry]
    BY <1>0, <1>6, LiveTypes, TimedTypes DEF Limiter!RedisFails, Limiter!LimiterTypeOK
  <2>2. Limiter!GoOn(t, "memory")
    BY <1>6 DEF Limiter!RedisFails
  <2> QED
    <3>1. counter' \in [Servers -> {"none", "redis", "memory"}] /\ failures' \in Nat
      <4>1. /\ counter' = [counter EXCEPT ![ProcessOf[t]] = "memory"]
            /\ failures' = failures + 1
        BY <1>6 DEF Limiter!RedisFails
      <4>2. counter \in [Servers -> {"none", "redis", "memory"}] /\ failures \in Nat
        BY DEF Limiter!LimiterTypeOK
      <4>3. counter' \in [Servers -> {"none", "redis", "memory"}]
        BY <4>1, <4>2
      <4> QED
        BY <4>1, <4>2, <4>3
    <3>2. failed' \in [Servers -> BOOLEAN]
      <4>1. failed' = [failed EXCEPT ![ProcessOf[t]] = TRUE] /\ failed \in [Servers -> BOOLEAN]
        BY <1>6 DEF Limiter!RedisFails, Limiter!LimiterTypeOK
      <4> QED
        BY <4>1, Zenon
    <3>3. UNCHANGED <<time, local, made, lost, allowed, refused, late>>
      BY <1>6 DEF Limiter!RedisFails, Limiter!NoAnswer
    <3> QED
      BY <2>1, <2>2, <3>1, <3>2, <3>3, GoOnTypes DEF Limiter!LimiterTypeOK
<1>7. CASE Limiter!Memory(t)
  <2> DEFINE p == ProcessOf[t]
             old == local[p][req[t].key]
             fresh == old.count = 0 \/ old.until <= time
             new == [count |-> IF fresh THEN 1 ELSE old.count + 1,
                     until |-> IF fresh THEN time + Window ELSE old.until]
             counts == [local[p] EXCEPT ![req[t].key] = new]
             swept == [w \in Limiter!Windows |-> Limiter!Live(counts[w])]
  <2>1. local[p] \in [Limiter!Windows -> Limiter!Entry] /\ old \in Limiter!Entry
    BY <1>0 DEF Limiter!LimiterTypeOK
  <2>2. new \in Limiter!Entry
    <3>1. time + Window \in Nat
      BY DEF Limiter!LimiterTypeOK, Limiter!LimiterConstants
    <3> QED
      BY <2>1, <3>1 DEF Limiter!Entry
  <2>3. counts \in [Limiter!Windows -> Limiter!Entry]
    BY <2>1, <2>2
  <2>4. swept \in [Limiter!Windows -> Limiter!Entry]
    BY <2>3, LiveTypes
  <2>5. local' = [local EXCEPT ![p] = swept] \/ local' = [local EXCEPT ![p] = counts]
    BY <1>7 DEF Limiter!Memory
  <2> HIDE DEF p, old, fresh, new, counts, swept
  <2>6. local' \in [Servers -> [Limiter!Windows -> Limiter!Entry]]
    BY <2>3, <2>4, <2>5 DEF Limiter!LimiterTypeOK
  <2>7. Limiter!Answer(t, Limiter!Fallback(counts[req[t].key].count))
    BY <1>7 DEF Limiter!Memory, counts, new, fresh, old, p
  <2>8. UNCHANGED <<time, shared, counter, failed, made, lost, failures>>
    BY <1>7 DEF Limiter!Memory
  <2> QED
    <3>1. /\ req' \in [Thread -> [at : {"idle", "choose", "connect", "redis", "expire",
                                      "memory"}, key : Limiter!Windows, start : Limiter!Windows]]
          /\ allowed' \in [Limiter!Windows -> Nat] /\ refused' \in [Limiter!Windows -> Nat]
          /\ late' \in [Limiter!Windows -> Nat]
      BY <2>7, AnswerTypes
    <3> QED
      BY <2>6, <2>8, <3>1 DEF Limiter!LimiterTypeOK
<1> QED
  BY <1>1, <1>2, <1>3, <1>4, <1>5, <1>6, <1>7 DEF Limiter!Check

\* So does every step.
LEMMA LimiterTypes ==
  ASSUME Limiter!LimiterConstants, Limiter!LimiterTypeOK, [Limiter!Next]_(Limiter!limiterVars)
  PROVE  Limiter!LimiterTypeOK'
<1>0. 0 \in Limiter!Windows
  <2>1. LimiterTime \div Window \in Nat
    BY WindowOf DEF Limiter!LimiterConstants
  <2> QED
    BY <2>1 DEF Limiter!Windows
<1>1. ASSUME NEW t \in Thread, Limiter!Arrive(t)
      PROVE  Limiter!LimiterTypeOK'
  <2>1. [at |-> "choose", key |-> Limiter!Key(time), start |-> time \div Window]
          \in [at : {"idle", "choose", "connect", "redis", "expire", "memory"},
               key : Limiter!Windows, start : Limiter!Windows]
    BY ThisWindow
  <2> QED
    BY <1>1, <2>1 DEF Limiter!Arrive, Limiter!LimiterTypeOK
<1>2. ASSUME NEW t \in Thread, Limiter!Check(t)
      PROVE  Limiter!LimiterTypeOK'
  BY <1>2, CheckTypes
<1>3. CASE Limiter!Tick
  BY <1>3 DEF Limiter!Tick, Limiter!LimiterTypeOK, Limiter!LimiterConstants
<1>4. ASSUME NEW k \in Limiter!Windows, Limiter!Evict(k)
      PROVE  Limiter!LimiterTypeOK'
  BY <1>4 DEF Limiter!Evict, Limiter!LimiterTypeOK, Limiter!NoCount, Limiter!Entry
<1>5. ASSUME NEW p \in Servers, Limiter!Restart(p)
      PROVE  Limiter!LimiterTypeOK'
  <2>1. Limiter!Idle \in [at : {"idle", "choose", "connect", "redis", "expire", "memory"},
                          key : Limiter!Windows, start : Limiter!Windows]
    BY <1>0 DEF Limiter!Idle
  <2>2. [w \in Limiter!Windows |-> Limiter!NoCount] \in [Limiter!Windows -> Limiter!Entry]
    BY DEF Limiter!NoCount, Limiter!Entry
  <2> QED
    BY <1>5, <2>1, <2>2 DEF Limiter!Restart, Limiter!LimiterTypeOK
<1>6. CASE UNCHANGED Limiter!limiterVars
  BY <1>6 DEF Limiter!limiterVars, Limiter!LimiterTypeOK
<1> QED
  BY <1>1, <1>2, <1>3, <1>4, <1>5, <1>6 DEF Limiter!Next

(* ---- Nobody is refused within the limit ---------------------------------- *)

\* The requests of a window that Redis may still count.
Waiting(w) ==
  {t \in Thread : req[t].at \in {"choose", "connect", "redis"} /\ req[t].start = w}

\* Those that the memory of a process may still count.
Asking(p, w) ==
  {t \in Thread : ProcessOf[t] = p /\ req[t].at # "idle" /\ req[t].start = w}

\* A check counts under the key of the window in which its request arrived.
KeyIsWindow ==
  \A t \in Thread :
    req[t].at # "idle" => req[t].key = req[t].start /\ req[t].start <= time \div Window

\* No counter has counted a request twice.
EachOnce ==
  \A w \in Limiter!Windows :
    /\ shared[w].count + Cardinality(Waiting(w)) <= made[w]
    /\ \A p \in Servers : local[p][w].count + Cardinality(Asking(p, w)) <= made[w]

RequestInv == Limiter!LimiterTypeOK /\ KeyIsWindow /\ EachOnce /\ Limiter!NoFalseRefusal

\* A step that begins no check and leads none back to Redis.
Onward ==
  \A t \in Thread :
    req'[t].at # "idle" =>
      /\ req[t].at # "idle" /\ req'[t].key = req[t].key /\ req'[t].start = req[t].start
      /\ req'[t].at \in {"choose", "connect", "redis"}
           => req[t].at \in {"choose", "connect", "redis"}

\* Checks at work are a finite set of threads.
LEMMA AskingFinite ==
  ASSUME Limiter!LimiterConstants, NEW w \in Limiter!Windows
  PROVE  /\ IsFiniteSet(Waiting(w)) /\ Cardinality(Waiting(w)) \in Nat
         /\ \A p \in Servers : IsFiniteSet(Asking(p, w)) /\ Cardinality(Asking(p, w)) \in Nat
<1>1. IsFiniteSet(Thread)
  BY SameCount DEF Limiter!LimiterConstants
<1>2. Waiting(w) \in SUBSET Thread /\ \A p \in Servers : Asking(p, w) \in SUBSET Thread
  BY DEF Waiting, Asking
<1> QED
  BY <1>1, <1>2, Fewer

\* Such a step leaves no more checks at work than there were.
LEMMA OnwardFewer ==
  ASSUME Limiter!LimiterConstants, Onward, NEW w \in Limiter!Windows
  PROVE  /\ Cardinality(Waiting(w)') \in Nat
         /\ Cardinality(Waiting(w)') <= Cardinality(Waiting(w))
         /\ \A p \in Servers : /\ Cardinality(Asking(p, w)') \in Nat
                               /\ Cardinality(Asking(p, w)') <= Cardinality(Asking(p, w))
<1>1. Waiting(w)' \in SUBSET Waiting(w)
  BY DEF Onward, Waiting
<1>2. \A p \in Servers : Asking(p, w)' \in SUBSET Asking(p, w)
  BY DEF Onward, Asking
<1> QED
  BY <1>1, <1>2, AskingFinite, Fewer

\* It keeps checks in the window they arrived in.
LEMMA OnwardKeys ==
  ASSUME Limiter!LimiterConstants, Limiter!LimiterTypeOK, Limiter!LimiterTypeOK', KeyIsWindow, Onward, time <= time'
  PROVE  KeyIsWindow'
<1>1. time \in Nat /\ time' \in Nat /\ Window \in Nat \ {0}
  BY DEF Limiter!LimiterTypeOK, Limiter!LimiterConstants
<1>2. time \div Window <= time' \div Window
      /\ time \div Window \in Nat /\ time' \div Window \in Nat
  BY <1>1, WindowOf
<1>3. ASSUME NEW t \in Thread, req'[t].at # "idle"
      PROVE  req'[t].key = req'[t].start /\ req'[t].start <= time' \div Window
  <2>1. /\ req[t].key = req[t].start /\ req[t].start <= time \div Window
        /\ req'[t].key = req[t].key /\ req'[t].start = req[t].start
    BY <1>3 DEF Onward, KeyIsWindow
  <2>2. req[t].start \in Nat
    BY <1>1, ThisWindow DEF Limiter!LimiterTypeOK
  <2> QED
    BY <1>2, <2>1, <2>2
<1> QED
  BY <1>3 DEF KeyIsWindow

\* What no counter counts keeps the counts right.
LEMMA OnwardEachOnce ==
  ASSUME Limiter!LimiterConstants, Limiter!LimiterTypeOK, Limiter!LimiterTypeOK', EachOnce, Onward, made' = made,
         \A w \in Limiter!Windows : shared'[w].count <= shared[w].count,
         \A p \in Servers : \A w \in Limiter!Windows : local'[p][w].count <= local[p][w].count
  PROVE  EachOnce'
<1>1. ASSUME NEW w \in Limiter!Windows
      PROVE  shared'[w].count + Cardinality(Waiting(w)') <= made'[w]
  <2>1. /\ shared'[w].count \in Nat /\ shared[w].count \in Nat /\ made[w] \in Nat
        /\ shared[w].count + Cardinality(Waiting(w)) <= made[w]
    BY DEF Limiter!LimiterTypeOK, Limiter!Entry, EachOnce
  <2>2. /\ Cardinality(Waiting(w)') <= Cardinality(Waiting(w))
        /\ Cardinality(Waiting(w)') \in Nat /\ Cardinality(Waiting(w)) \in Nat
    BY OnwardFewer, AskingFinite
  <2> QED
    BY <2>1, <2>2
<1>2. ASSUME NEW w \in Limiter!Windows, NEW p \in Servers
      PROVE  local'[p][w].count + Cardinality(Asking(p, w)') <= made'[w]
  <2>1. /\ local'[p][w].count \in Nat /\ local[p][w].count \in Nat /\ made[w] \in Nat
        /\ local[p][w].count + Cardinality(Asking(p, w)) <= made[w]
    BY DEF Limiter!LimiterTypeOK, Limiter!Entry, EachOnce
  <2>2. /\ Cardinality(Asking(p, w)') <= Cardinality(Asking(p, w))
        /\ Cardinality(Asking(p, w)') \in Nat /\ Cardinality(Asking(p, w)) \in Nat
    BY OnwardFewer, AskingFinite
  <2> QED
    BY <2>1, <2>2
<1> QED
  BY <1>1, <1>2 DEF EachOnce

\* A step of a check moves its thread only, and onward.
LEMMA CheckOnward ==
  ASSUME Limiter!LimiterConstants, Limiter!LimiterTypeOK, NEW t \in Thread, Limiter!Check(t)
  PROVE  /\ Onward /\ req[t].at # "idle" /\ time' = time /\ made' = made
         /\ \A s \in Thread \ {t} : req'[s] = req[s]
<1>1. ASSUME NEW at, req[t].at # "idle", Limiter!GoOn(t, at),
             at \in {"choose", "connect", "redis"}
               => req[t].at \in {"choose", "connect", "redis"}
      PROVE  Onward /\ \A s \in Thread \ {t} : req'[s] = req[s]
  BY <1>1 DEF Limiter!GoOn, Onward, Limiter!LimiterTypeOK
<1>2. ASSUME NEW n, req[t].at # "idle", Limiter!Answer(t, n)
      PROVE  Onward /\ \A s \in Thread \ {t} : req'[s] = req[s]
  <2>1. req' = [req EXCEPT ![t] = Limiter!Idle] /\ Limiter!Idle.at = "idle"
    BY <1>2 DEF Limiter!Answer, Limiter!Idle
  <2> QED
    BY <2>1 DEF Onward, Limiter!LimiterTypeOK
<1>3. CASE Limiter!Choose(t)
  BY <1>1, <1>3 DEF Limiter!Choose
<1>4. CASE Limiter!Connect(t)
  <2>1. req[t].at = "connect" /\ Limiter!GoOn(t, "redis") /\ time' = time /\ made' = made
    BY <1>4 DEF Limiter!Connect
  <2> QED
    BY <1>1, <2>1
<1>5. CASE Limiter!ConnectFails(t)
  <2>1. req[t].at = "connect" /\ Limiter!GoOn(t, "memory") /\ time' = time /\ made' = made
    BY <1>5 DEF Limiter!ConnectFails
  <2> QED
    BY <1>1, <2>1
<1>6. CASE Limiter!Incr(t)
  <2>1. req[t].at = "redis" /\ time' = time /\ made' = made
        /\ (Limiter!GoOn(t, "expire") \/ Limiter!Answer(t, shared'[req[t].key].count))
    BY <1>6 DEF Limiter!Incr
  <2> QED
    BY <1>1, <1>2, <2>1
<1>7. CASE Limiter!Expire(t)
  <2>1. req[t].at = "expire" /\ time' = time /\ made' = made /\ Limiter!Answer(t, 1)
    BY <1>7 DEF Limiter!Expire
  <2> QED
    BY <1>2, <2>1
<1>8. CASE Limiter!RedisFails(t)
  <2>1. req[t].at \in {"redis", "expire"} /\ time' = time /\ made' = made /\ Limiter!GoOn(t, "memory")
    BY <1>8 DEF Limiter!RedisFails
  <2> QED
    BY <1>1, <2>1
<1>9. CASE Limiter!Memory(t)
  <2>1. PICK n : req[t].at = "memory" /\ time' = time /\ made' = made /\ Limiter!Answer(t, n)
    BY <1>9 DEF Limiter!Memory
  <2> QED
    BY <1>2, <2>1
<1> QED
  BY <1>3, <1>4, <1>5, <1>6, <1>7, <1>8, <1>9 DEF Limiter!Check

\* An answer to a count that is within the limit or the requests is fair.
LEMMA FairAnswer ==
  ASSUME Limiter!LimiterConstants, Limiter!LimiterTypeOK, Limiter!NoFalseRefusal, NEW t \in Thread, NEW n \in Nat,
         Limiter!Answer(t, n), made' = made, n <= Limit \/ n <= made[req[t].start]
  PROVE  Limiter!NoFalseRefusal'
<1> DEFINE s == req[t].start
<1>1. refused' = [refused EXCEPT ![s] = IF n <= Limit THEN @ ELSE @ + 1]
  BY DEF Limiter!Answer
<1>2. s \in Limiter!Windows /\ refused \in [Limiter!Windows -> Nat] /\ made \in [Limiter!Windows -> Nat] /\ Limit \in Nat
  BY DEF Limiter!LimiterTypeOK, Limiter!LimiterConstants
<1> HIDE DEF s
<1>3. ASSUME NEW w \in Limiter!Windows, refused'[w] > 0
      PROVE  made'[w] > Limit
  <2>1. CASE refused'[w] = refused[w]
    BY <1>3, <2>1 DEF Limiter!NoFalseRefusal
  <2>2. CASE refused'[w] # refused[w]
    <3>1. w = s /\ ~(n <= Limit)
      BY <1>1, <1>2, <2>2
    <3>2. n <= made[w]
      BY <3>1 DEF s
    <3>3. made[w] \in Nat
      BY <1>2
    <3> QED
      BY <1>2, <3>1, <3>2, <3>3
  <2> QED
    BY <2>1, <2>2
<1> QED
  BY <1>3 DEF Limiter!NoFalseRefusal

\* A request that Redis counts is one that it had not counted.
LEMMA CountedInRedis ==
  ASSUME Limiter!LimiterConstants, Limiter!LimiterTypeOK, Limiter!LimiterTypeOK', KeyIsWindow, EachOnce, Onward,
         NEW t \in Thread, req[t].at = "redis", NEW k \in Limiter!Windows, req[t].key = k,
         req'[t].at \notin {"choose", "connect", "redis"},
         shared' = Limiter!Incremented(k), local' = local, made' = made
  PROVE  EachOnce' /\ shared'[k].count <= made[req[t].start]
<1>1. req[t].start = k
  BY DEF KeyIsWindow
<1>2. /\ shared'[k].count <= shared[k].count + 1
      /\ \A w \in Limiter!Windows \ {k} : shared'[w] = shared[w]
  <2>1. shared[k] \in Limiter!Entry /\ shared \in [Limiter!Windows -> Limiter!Entry]
    BY <1>1 DEF Limiter!LimiterTypeOK
  <2>2. shared' = [shared EXCEPT ![k] = [count |-> Limiter!Live(shared[k]).count + 1,
                                         until |-> Limiter!Live(shared[k]).until]]
    BY DEF Limiter!Incremented
  <2>3. Limiter!Live(shared[k]).count <= shared[k].count /\ Limiter!Live(shared[k]).count \in Nat
    BY <2>1 DEF Limiter!Live, Limiter!NoCount, Limiter!Entry
  <2>4. shared'[k].count = Limiter!Live(shared[k]).count + 1
    BY <1>1, <2>1, <2>2
  <2>5. \A w \in Limiter!Windows \ {k} : shared'[w] = shared[w]
    BY <1>1, <2>1, <2>2
  <2>6. shared[k].count \in Nat
    BY <2>1 DEF Limiter!Entry
  <2> QED
    BY <2>3, <2>4, <2>5, <2>6
<1>3. Cardinality(Waiting(k)') + 1 <= Cardinality(Waiting(k))
  <2>1. t \in Waiting(k) /\ Waiting(k)' \in SUBSET (Waiting(k) \ {t})
    <3>1. t \in Waiting(k) /\ t \notin Waiting(k)'
      BY <1>1 DEF Waiting
    <3>2. Waiting(k)' \in SUBSET Waiting(k)
      BY DEF Waiting, Onward
    <3> QED
      BY <3>1, <3>2
  <2> QED
    BY <1>1, <2>1, AskingFinite, OneFewer
<1>4. ASSUME NEW w \in Limiter!Windows
      PROVE  /\ shared'[w].count + Cardinality(Waiting(w)') <= made'[w]
             /\ shared'[w].count <= made[w]
  <2>1. /\ shared[w].count + Cardinality(Waiting(w)) <= made[w] /\ made[w] \in Nat
        /\ shared[w].count \in Nat /\ shared'[w].count \in Nat
    BY DEF EachOnce, Limiter!LimiterTypeOK, Limiter!Entry
  <2>2. /\ Cardinality(Waiting(w)') \in Nat /\ Cardinality(Waiting(w)) \in Nat
        /\ Cardinality(Waiting(w)') <= Cardinality(Waiting(w))
    BY OnwardFewer, AskingFinite
  <2>3. shared'[w].count + Cardinality(Waiting(w)')
          <= shared[w].count + Cardinality(Waiting(w))
    <3>1. CASE w = k
      BY <1>2, <1>3, <2>1, <2>2, <3>1
    <3>2. CASE w # k
      BY <1>2, <2>1, <2>2, <3>2
    <3> QED
      BY <3>1, <3>2
  <2> QED
    BY <2>1, <2>2, <2>3
<1>5. ASSUME NEW w \in Limiter!Windows, NEW p \in Servers
      PROVE  local'[p][w].count + Cardinality(Asking(p, w)') <= made'[w]
  <2>1. /\ local[p][w].count + Cardinality(Asking(p, w)) <= made[w] /\ made[w] \in Nat
        /\ local[p][w].count \in Nat
    BY DEF EachOnce, Limiter!LimiterTypeOK, Limiter!Entry
  <2>2. /\ Cardinality(Asking(p, w)') \in Nat /\ Cardinality(Asking(p, w)) \in Nat
        /\ Cardinality(Asking(p, w)') <= Cardinality(Asking(p, w))
    BY OnwardFewer, AskingFinite
  <2> QED
    BY <2>1, <2>2
<1>6. EachOnce'
  BY <1>4, <1>5 DEF EachOnce
<1> QED
  BY <1>1, <1>4, <1>6

\* What a step of Memory makes of the counters of its process.
Remembered(t) ==
  LET old == local[ProcessOf[t]][req[t].key]
  IN IF old.count = 0 \/ old.until <= time
     THEN [count |-> 1, until |-> time + Window]
     ELSE [count |-> old.count + 1, until |-> old.until]

\* It counts one request, answers, and drops at most what has expired.
LEMMA MemoryStep ==
  ASSUME Limiter!LimiterConstants, Limiter!LimiterTypeOK, NEW t \in Thread, Limiter!Memory(t)
  PROVE  LET p == ProcessOf[t]
             k == req[t].key
         IN /\ Remembered(t) \in Limiter!Entry /\ Limiter!Answer(t, Remembered(t).count)
            /\ local'[p][k] \in {Remembered(t), Limiter!Live(Remembered(t))}
            /\ \A w \in Limiter!Windows \ {k} : local'[p][w] \in {local[p][w], Limiter!Live(local[p][w])}
            /\ \A q \in Servers \ {p} : local'[q] = local[q]
            /\ UNCHANGED <<time, shared, counter, failed, made, lost, failures>>
            /\ req[t].at = "memory"
<1> DEFINE p == ProcessOf[t]
           k == req[t].key
           old == local[p][k]
           fresh == old.count = 0 \/ old.until <= time
           new == [count |-> IF fresh THEN 1 ELSE old.count + 1,
                   until |-> IF fresh THEN time + Window ELSE old.until]
           counts == [local[p] EXCEPT ![k] = new]
           swept == [w \in Limiter!Windows |-> Limiter!Live(counts[w])]
<1>1. p \in Servers /\ k \in Limiter!Windows /\ local[p] \in [Limiter!Windows -> Limiter!Entry] /\ old \in Limiter!Entry
  BY DEF Limiter!LimiterConstants, Limiter!LimiterTypeOK
<1>2. new = Remembered(t)
  <2>1. CASE fresh
    BY <2>1 DEF Remembered
  <2>2. CASE ~fresh
    BY <2>2 DEF Remembered
  <2> QED
    BY <2>1, <2>2
<1>3. new \in Limiter!Entry
  <2>1. time + Window \in Nat
    BY DEF Limiter!LimiterTypeOK, Limiter!LimiterConstants
  <2> QED
    BY <1>1, <2>1 DEF Limiter!Entry
<1>4. local' = [local EXCEPT ![p] = swept] \/ local' = [local EXCEPT ![p] = counts]
  BY DEF Limiter!Memory
<1>5. /\ Limiter!Answer(t, Limiter!Fallback(counts[k].count)) /\ req[t].at = "memory"
      /\ UNCHANGED <<time, shared, counter, failed, made, lost, failures>>
  BY DEF Limiter!Memory
<1> HIDE DEF p, k, old, fresh, new
<1>6. counts[k] = new /\ \A w \in Limiter!Windows \ {k} : counts[w] = local[p][w]
  BY <1>1
<1>7. Limiter!Answer(t, new.count)
  BY <1>5, <1>6 DEF Limiter!Fallback
<1>8. local'[p] \in {swept, counts} /\ \A q \in Servers \ {p} : local'[q] = local[q]
  <2>1. local \in [Servers -> [Limiter!Windows -> Limiter!Entry]]
    BY DEF Limiter!LimiterTypeOK
  <2> HIDE DEF swept, counts
  <2> QED
    BY <1>1, <1>4, <2>1
<1>9. /\ swept[k] = Limiter!Live(new) /\ counts[k] = new
      /\ \A w \in Limiter!Windows \ {k} : swept[w] = Limiter!Live(local[p][w]) /\ counts[w] = local[p][w]
  BY <1>1, <1>6
<1> HIDE DEF swept, counts
<1>10. local'[p][k] \in {new, Limiter!Live(new)}
  BY <1>8, <1>9
<1>11. \A w \in Limiter!Windows \ {k} : local'[p][w] \in {local[p][w], Limiter!Live(local[p][w])}
  BY <1>8, <1>9
<1> QED
  BY <1>2, <1>3, <1>5, <1>7, <1>8, <1>10, <1>11 DEF p, k

\* A request that a process counts is one that it had not counted.
LEMMA CountedInMemory ==
  ASSUME Limiter!LimiterConstants, Limiter!LimiterTypeOK, Limiter!LimiterTypeOK', KeyIsWindow, EachOnce, Onward,
         NEW t \in Thread, Limiter!Memory(t)
  PROVE  /\ EachOnce'
         /\ Remembered(t).count \in Nat /\ Remembered(t).count <= made[req[t].start]
<1>1. PICK p \in Servers, k \in Limiter!Windows :
        /\ p = ProcessOf[t] /\ k = req[t].key /\ k = req[t].start
        /\ Remembered(t) \in Limiter!Entry /\ Limiter!Answer(t, Remembered(t).count)
        /\ local'[p][k] \in {Remembered(t), Limiter!Live(Remembered(t))}
        /\ \A w \in Limiter!Windows \ {k} : local'[p][w] \in {local[p][w], Limiter!Live(local[p][w])}
        /\ \A q \in Servers \ {p} : local'[q] = local[q]
        /\ UNCHANGED <<time, shared, counter, failed, made, lost, failures>>
        /\ req[t].at = "memory"
  <2>1. ProcessOf[t] \in Servers /\ req[t].key \in Limiter!Windows
    BY DEF Limiter!LimiterConstants, Limiter!LimiterTypeOK
  <2>2. req[t].at = "memory"
    BY DEF Limiter!Memory
  <2>3. req[t].key = req[t].start
    BY <2>2 DEF KeyIsWindow
  <2> QED
    BY <2>1, <2>3, MemoryStep
<1>2. \A entry \in Limiter!Entry : Limiter!Live(entry).count \in Nat /\ Limiter!Live(entry).count <= entry.count
  BY DEF Limiter!Live, Limiter!NoCount, Limiter!Entry
<1>3. Remembered(t).count <= local[p][k].count + 1 /\ Remembered(t).count \in Nat
  <2>1. local[p][k] \in Limiter!Entry
    BY DEF Limiter!LimiterTypeOK
  <2>2. local[p][k].count \in Nat
    BY <2>1 DEF Limiter!Entry
  <2>3. Remembered(t).count = 1 \/ Remembered(t).count = local[p][k].count + 1
    <3>1. Remembered(t) = IF local[p][k].count = 0 \/ local[p][k].until <= time
                          THEN [count |-> 1, until |-> time + Window]
                          ELSE [count |-> local[p][k].count + 1, until |-> local[p][k].until]
      BY <1>1 DEF Remembered
    <3> QED
      BY <3>1
  <2> QED
    BY <2>2, <2>3
<1>4. Cardinality(Asking(p, k)') + 1 <= Cardinality(Asking(p, k))
  <2>1. t \in Asking(p, k)
    BY <1>1 DEF Asking
  <2>2. t \notin Asking(p, k)'
    <3>1. req'[t].at = "idle"
      BY <1>1 DEF Limiter!Answer, Limiter!Idle, Limiter!LimiterTypeOK
    <3> QED
      BY <3>1 DEF Asking
  <2>3. Asking(p, k)' \in SUBSET Asking(p, k)
    BY DEF Asking, Onward
  <2> QED
    BY <2>1, <2>2, <2>3, AskingFinite, OneFewer
<1>5. ASSUME NEW w \in Limiter!Windows
      PROVE  shared'[w].count + Cardinality(Waiting(w)') <= made'[w]
  <2>1. /\ shared[w].count + Cardinality(Waiting(w)) <= made[w] /\ made[w] \in Nat
        /\ shared[w].count \in Nat /\ shared' = shared /\ made' = made
    BY <1>1 DEF EachOnce, Limiter!LimiterTypeOK, Limiter!Entry
  <2>2. /\ Cardinality(Waiting(w)') \in Nat /\ Cardinality(Waiting(w)) \in Nat
        /\ Cardinality(Waiting(w)') <= Cardinality(Waiting(w))
    BY OnwardFewer, AskingFinite
  <2> QED
    BY <2>1, <2>2
<1>6. ASSUME NEW w \in Limiter!Windows, NEW q \in Servers
      PROVE  local'[q][w].count + Cardinality(Asking(q, w)') <= made'[w]
  <2>1. /\ local[q][w].count + Cardinality(Asking(q, w)) <= made[w] /\ made[w] \in Nat
        /\ local[q][w] \in Limiter!Entry /\ local[q][w].count \in Nat /\ made' = made
        /\ local'[q][w] \in Limiter!Entry /\ local'[q][w].count \in Nat
    BY <1>1 DEF EachOnce, Limiter!LimiterTypeOK, Limiter!Entry
  <2>2. /\ Cardinality(Asking(q, w)') \in Nat /\ Cardinality(Asking(q, w)) \in Nat
        /\ Cardinality(Asking(q, w)') <= Cardinality(Asking(q, w))
    BY OnwardFewer, AskingFinite
  <2>3. CASE q = p /\ w = k
    <3>1. local'[p][k].count <= local[p][k].count + 1
      <4>1. local'[p][k].count <= Remembered(t).count /\ local'[p][k].count \in Nat
            /\ local[p][k].count \in Nat
        BY <1>1, <1>2, <2>1, <2>3, <1>3
      <4> QED
        BY <1>3, <4>1
    <3> QED
      BY <1>4, <2>1, <2>2, <2>3, <3>1
  <2>4. CASE ~(q = p /\ w = k)
    <3>1. local'[q][w].count <= local[q][w].count
      BY <1>1, <1>2, <2>1, <2>4
    <3> QED
      BY <2>1, <2>2, <3>1
  <2> QED
    BY <2>3, <2>4
<1>7. Remembered(t).count <= made[req[t].start]
  <2>1. /\ local[p][k].count + Cardinality(Asking(p, k)) <= made[k] /\ made[k] \in Nat
        /\ local[p][k].count \in Nat
    BY DEF EachOnce, Limiter!LimiterTypeOK, Limiter!Entry
  <2>2. Cardinality(Asking(p, k)') \in Nat /\ Cardinality(Asking(p, k)) \in Nat
    BY OnwardFewer, AskingFinite
  <2> QED
    BY <1>1, <1>3, <1>4, <2>1, <2>2
<1> QED
  BY <1>3, <1>5, <1>6, <1>7 DEF EachOnce

\* A check counts a request once and refuses it only if there were too many.
LEMMA CheckRequests ==
  ASSUME Limiter!LimiterConstants, RequestInv, NEW t \in Thread, Limiter!Check(t)
  PROVE  RequestInv'
<1>0. Limiter!LimiterTypeOK /\ KeyIsWindow /\ EachOnce /\ Limiter!NoFalseRefusal
  BY DEF RequestInv
<1>1. Limiter!LimiterTypeOK'
  BY <1>0, CheckTypes
<1>2. Onward /\ time' = time /\ made' = made
  BY <1>0, CheckOnward
<1>3. KeyIsWindow'
  <2>1. time <= time'
    BY <1>0, <1>2 DEF Limiter!LimiterTypeOK
  <2> QED
    BY <1>0, <1>1, <1>2, <2>1, OnwardKeys
<1>4. ASSUME shared' = shared, local' = local
      PROVE  EachOnce'
  <2>1. /\ \A w \in Limiter!Windows : shared'[w].count <= shared[w].count
        /\ \A p \in Servers : \A w \in Limiter!Windows : local'[p][w].count <= local[p][w].count
    BY <1>0, <1>4 DEF Limiter!LimiterTypeOK, Limiter!Entry
  <2> QED
    BY <1>0, <1>1, <1>2, <2>1, OnwardEachOnce
<1>5. ASSUME refused' = refused
      PROVE  Limiter!NoFalseRefusal'
  BY <1>0, <1>2, <1>5 DEF Limiter!NoFalseRefusal
<1>6. EachOnce' /\ Limiter!NoFalseRefusal'
  <2>1. CASE Limiter!Choose(t) \/ Limiter!Connect(t) \/ Limiter!ConnectFails(t)
    <3>1. shared' = shared /\ local' = local /\ refused' = refused
      BY <2>1 DEF Limiter!Choose, Limiter!Connect, Limiter!ConnectFails, Limiter!NoAnswer
    <3> QED
      BY <1>4, <1>5, <3>1
  <2>2. PICK k \in Limiter!Windows : k = req[t].key
    BY <1>0 DEF Limiter!LimiterTypeOK
  <2>3. CASE Limiter!Incr(t)
    <3>1. req[t].at = "redis" /\ shared' = Limiter!Incremented(k) /\ local' = local
      BY <2>2, <2>3 DEF Limiter!Incr
    <3>2. \/ Limiter!GoOn(t, "expire") /\ Limiter!NoAnswer
          \/ Limiter!Answer(t, shared'[k].count)
      BY <2>2, <2>3 DEF Limiter!Incr
    <3>3. req'[t].at \in {"expire", "idle"}
      BY <1>0, <3>2 DEF Limiter!GoOn, Limiter!Answer, Limiter!Idle, Limiter!LimiterTypeOK
    <3>4. EachOnce' /\ shared'[k].count <= made[req[t].start]
      BY <1>0, <1>1, <1>2, <2>2, <3>1, <3>3, CountedInRedis
    <3>5. Limiter!NoFalseRefusal'
      <4>1. CASE Limiter!NoAnswer
        BY <1>5, <4>1 DEF Limiter!NoAnswer
      <4>2. CASE Limiter!Answer(t, shared'[k].count)
        <5>1. shared'[k].count \in Nat
          BY <1>1 DEF Limiter!LimiterTypeOK, Limiter!Entry
        <5> QED
          BY <1>0, <1>2, <3>4, <4>2, <5>1, FairAnswer
      <4> QED
        BY <3>2, <4>1, <4>2
    <3> QED
      BY <3>4, <3>5
  <2>4. CASE Limiter!Expire(t)
    <3>1. \A w \in Limiter!Windows : shared'[w].count <= shared[w].count
      BY <1>0, <2>2, <2>4, TimedTypes DEF Limiter!Expire
    <3>2. local' = local /\ Limiter!Answer(t, 1)
      BY <2>4 DEF Limiter!Expire
    <3>3. EachOnce'
      <4>1. \A p \in Servers : \A w \in Limiter!Windows : local'[p][w].count <= local[p][w].count
        BY <1>0, <3>2 DEF Limiter!LimiterTypeOK, Limiter!Entry
      <4> QED
        BY <1>0, <1>1, <1>2, <3>1, <4>1, OnwardEachOnce
    <3>4. Limiter!NoFalseRefusal'
      <4>1. 1 <= Limit
        BY DEF Limiter!LimiterConstants
      <4> QED
        BY <1>0, <1>2, <3>2, <4>1, FairAnswer
    <3> QED
      BY <3>3, <3>4
  <2>5. CASE Limiter!RedisFails(t)
    <3>1. /\ refused' = refused /\ local' = local /\ req'[t].at = "memory"
          /\ \/ shared' = shared
             \/ req[t].at = "redis" /\ shared' = Limiter!Incremented(k)
             \/ shared' = Limiter!Timed(k)
      BY <1>0, <2>2, <2>5 DEF Limiter!RedisFails, Limiter!NoAnswer, Limiter!GoOn, Limiter!LimiterTypeOK
    <3>2. EachOnce'
      <4>1. CASE shared' = shared
        BY <1>4, <3>1, <4>1
      <4>2. CASE req[t].at = "redis" /\ shared' = Limiter!Incremented(k)
        BY <1>0, <1>1, <1>2, <2>2, <3>1, <4>2, CountedInRedis
      <4>3. CASE shared' = Limiter!Timed(k)
        <5>1. \A w \in Limiter!Windows : shared'[w].count <= shared[w].count
          BY <1>0, <4>3, TimedTypes
        <5>2. \A p \in Servers : \A w \in Limiter!Windows : local'[p][w].count <= local[p][w].count
          BY <1>0, <3>1 DEF Limiter!LimiterTypeOK, Limiter!Entry
        <5> QED
          BY <1>0, <1>1, <1>2, <5>1, <5>2, OnwardEachOnce
      <4> QED
        BY <3>1, <4>1, <4>2, <4>3
    <3> QED
      BY <1>5, <3>1, <3>2
  <2>6. CASE Limiter!Memory(t)
    <3>1. /\ EachOnce' /\ Remembered(t).count \in Nat
          /\ Remembered(t).count <= made[req[t].start]
      BY <1>0, <1>1, <1>2, <2>6, CountedInMemory
    <3>2. Limiter!Answer(t, Remembered(t).count)
      BY <1>0, <2>6, MemoryStep
    <3> QED
      BY <1>0, <1>2, <3>1, <3>2, FairAnswer
  <2> QED
    BY <2>1, <2>3, <2>4, <2>5, <2>6 DEF Limiter!Check
<1> QED
  BY <1>1, <1>3, <1>6 DEF RequestInv

\* A request that arrives is one more of its window.
LEMMA ArriveRequests ==
  ASSUME Limiter!LimiterConstants, RequestInv, NEW t \in Thread, Limiter!Arrive(t)
  PROVE  RequestInv'
<1>0. Limiter!LimiterTypeOK /\ KeyIsWindow /\ EachOnce /\ Limiter!NoFalseRefusal
  BY DEF RequestInv
<1>1. Limiter!LimiterTypeOK'
  <2>1. [Limiter!Next]_(Limiter!limiterVars)
    BY DEF Limiter!Next
  <2> QED
    BY <1>0, <2>1, LimiterTypes
<1>2. PICK v \in Limiter!Windows : v = time \div Window
  BY <1>0, ThisWindow
<1>3. /\ time' = time /\ shared' = shared /\ local' = local /\ refused' = refused
      /\ req' = [req EXCEPT ![t] = [at |-> "choose", key |-> v, start |-> v]]
      /\ made' = [made EXCEPT ![v] = @ + 1] /\ made \in [Limiter!Windows -> Nat]
  <2>1. Limiter!Key(time) = time \div Window
    BY DEF Limiter!Key
  <2> QED
    BY <1>0, <1>2, <2>1 DEF Limiter!Arrive, Limiter!LimiterTypeOK
<1>4. req'[t] = [at |-> "choose", key |-> v, start |-> v]
      /\ \A s \in Thread \ {t} : req'[s] = req[s]
  BY <1>0, <1>3 DEF Limiter!LimiterTypeOK
<1>5. KeyIsWindow'
  <2>1. v \in Nat
    BY <1>0, ThisWindow
  <2>2. ASSUME NEW s \in Thread, req'[s].at # "idle"
        PROVE  req'[s].key = req'[s].start /\ req'[s].start <= time' \div Window
    <3>1. CASE s = t
      BY <1>2, <1>3, <1>4, <2>1, <3>1
    <3>2. CASE s # t
      BY <1>0, <1>3, <1>4, <2>2, <3>2 DEF KeyIsWindow
    <3> QED
      BY <3>1, <3>2
  <2> QED
    BY <2>2 DEF KeyIsWindow
<1>6. \A w \in Limiter!Windows \ {v} : made'[w] = made[w] /\ made[w] \in Nat
  BY <1>3
<1>7. made'[v] = made[v] + 1 /\ made[v] \in Nat
  BY <1>3
<1>8. Limiter!NoFalseRefusal'
  <2>1. Limit \in Nat /\ \A w \in Limiter!Windows : refused'[w] > 0 => made[w] > Limit
    BY <1>0, <1>3 DEF Limiter!NoFalseRefusal, Limiter!LimiterConstants
  <2>2. ASSUME NEW w \in Limiter!Windows, refused'[w] > 0
        PROVE  made'[w] > Limit
    BY <1>6, <1>7, <2>1, <2>2
  <2> QED
    BY <2>2 DEF Limiter!NoFalseRefusal
<1>9. ASSUME NEW w \in Limiter!Windows
      PROVE  shared'[w].count + Cardinality(Waiting(w)') <= made'[w]
  <2>1. shared[w].count + Cardinality(Waiting(w)) <= made[w] /\ shared[w].count \in Nat
    BY <1>0 DEF EachOnce, Limiter!LimiterTypeOK, Limiter!Entry
  <2>2. IsFiniteSet(Waiting(w)) /\ Cardinality(Waiting(w)) \in Nat
    BY AskingFinite
  <2>3. CASE w = v
    <3>1. Waiting(w)' \in SUBSET (Waiting(w) \union {t})
      BY <1>4 DEF Waiting
    <3>2. Cardinality(Waiting(w)') \in Nat
          /\ Cardinality(Waiting(w)') <= Cardinality(Waiting(w)) + 1
      BY <2>2, <3>1, OneMore
    <3>3. made'[w] = made[w] + 1 /\ made[w] \in Nat /\ shared' = shared
      BY <1>3, <1>7, <2>3
    <3> QED
      BY <2>1, <2>2, <3>2, <3>3
  <2>4. CASE w # v
    <3>1. Waiting(w)' \in SUBSET Waiting(w)
      BY <1>4, <2>4 DEF Waiting
    <3>2. Cardinality(Waiting(w)') \in Nat /\ Cardinality(Waiting(w)') <= Cardinality(Waiting(w))
      BY <2>2, <3>1, Fewer
    <3>3. made'[w] = made[w] /\ made[w] \in Nat /\ shared' = shared
      BY <1>3, <1>6, <2>4
    <3> QED
      BY <2>1, <2>2, <3>2, <3>3
  <2> QED
    BY <2>3, <2>4
<1>10. ASSUME NEW w \in Limiter!Windows, NEW p \in Servers
       PROVE  local'[p][w].count + Cardinality(Asking(p, w)') <= made'[w]
  <2>1. local[p][w].count + Cardinality(Asking(p, w)) <= made[w] /\ local[p][w].count \in Nat
    BY <1>0 DEF EachOnce, Limiter!LimiterTypeOK, Limiter!Entry
  <2>2. IsFiniteSet(Asking(p, w)) /\ Cardinality(Asking(p, w)) \in Nat
    BY AskingFinite
  <2>3. CASE w = v
    <3>1. Asking(p, w)' \in SUBSET (Asking(p, w) \union {t})
      BY <1>4 DEF Asking
    <3>2. Cardinality(Asking(p, w)') \in Nat
          /\ Cardinality(Asking(p, w)') <= Cardinality(Asking(p, w)) + 1
      BY <2>2, <3>1, OneMore
    <3>3. made'[w] = made[w] + 1 /\ made[w] \in Nat /\ local' = local
      BY <1>3, <1>7, <2>3
    <3> QED
      BY <2>1, <2>2, <3>2, <3>3
  <2>4. CASE w # v
    <3>1. Asking(p, w)' \in SUBSET Asking(p, w)
      BY <1>4, <2>4 DEF Asking
    <3>2. Cardinality(Asking(p, w)') \in Nat
          /\ Cardinality(Asking(p, w)') <= Cardinality(Asking(p, w))
      BY <2>2, <3>1, Fewer
    <3>3. made'[w] = made[w] /\ made[w] \in Nat /\ local' = local
      BY <1>3, <1>6, <2>4
    <3> QED
      BY <2>1, <2>2, <3>2, <3>3
  <2> QED
    BY <2>3, <2>4
<1>11. EachOnce'
  BY <1>9, <1>10 DEF EachOnce
<1> QED
  BY <1>1, <1>5, <1>8, <1>11 DEF RequestInv

\* What happens around the checks leaves requests counted at most once.
LEMMA OtherRequests ==
  ASSUME Limiter!LimiterConstants, RequestInv,
         \/ Limiter!Tick \/ UNCHANGED Limiter!limiterVars
         \/ \E k \in Limiter!Windows : Limiter!Evict(k)
         \/ \E p \in Servers : Limiter!Restart(p)
  PROVE  RequestInv'
<1>0. Limiter!LimiterTypeOK /\ KeyIsWindow /\ EachOnce /\ Limiter!NoFalseRefusal
  BY DEF RequestInv
<1>1. Limiter!LimiterTypeOK'
  <2>1. [Limiter!Next]_(Limiter!limiterVars)
    BY DEF Limiter!Next
  <2> QED
    BY <1>0, <2>1, LimiterTypes
<1>2. \A w \in Limiter!Windows : /\ Limiter!NoCount.count <= shared[w].count
                                 /\ shared[w].count <= shared[w].count
  BY <1>0 DEF Limiter!LimiterTypeOK, Limiter!Entry, Limiter!NoCount
<1>3. \A p \in Servers : \A w \in Limiter!Windows : /\ Limiter!NoCount.count <= local[p][w].count
                                                    /\ local[p][w].count <= local[p][w].count
  BY <1>0 DEF Limiter!LimiterTypeOK, Limiter!Entry, Limiter!NoCount
<1> DEFINE Calm ==
             /\ Onward /\ time <= time' /\ made' = made /\ refused' = refused
             /\ \A w \in Limiter!Windows : shared'[w].count <= shared[w].count
             /\ \A p \in Servers : \A w \in Limiter!Windows :
                  local'[p][w].count <= local[p][w].count
<1>4. Calm
  <2>1. ASSUME req' = req PROVE Onward
    BY <2>1 DEF Onward
  <2>2. time \in Nat
    BY <1>0, ThisWindow
  <2>3. CASE Limiter!Tick
    BY <1>2, <1>3, <2>1, <2>2, <2>3 DEF Limiter!Tick
  <2>4. CASE UNCHANGED Limiter!limiterVars
    BY <1>2, <1>3, <2>1, <2>2, <2>4 DEF Limiter!limiterVars
  <2>5. ASSUME NEW k \in Limiter!Windows, Limiter!Evict(k)
        PROVE  Calm
    BY <1>0, <1>2, <1>3, <2>1, <2>2, <2>5 DEF Limiter!Evict, Limiter!LimiterTypeOK
  <2>6. ASSUME NEW p \in Servers, Limiter!Restart(p)
        PROVE  Calm
    <3>1. Onward
      BY <2>6 DEF Limiter!Restart, Onward, Limiter!Idle
    <3>2. /\ time' = time /\ shared' = shared /\ made' = made /\ refused' = refused
          /\ local' = [local EXCEPT ![p] = [w \in Limiter!Windows |-> Limiter!NoCount]]
      BY <2>6 DEF Limiter!Restart
    <3>3. local \in [Servers -> [Limiter!Windows -> Limiter!Entry]]
      BY <1>0 DEF Limiter!LimiterTypeOK
    <3>4. \A q \in Servers : \A w \in Limiter!Windows : local'[q][w].count <= local[q][w].count
      BY <1>3, <3>2, <3>3
    <3> QED
      BY <1>2, <2>2, <3>1, <3>2, <3>4
  <2> QED
    BY <2>3, <2>4, <2>5, <2>6
<1>5. KeyIsWindow'
  BY <1>0, <1>1, <1>4, OnwardKeys
<1>6. EachOnce'
  BY <1>0, <1>1, <1>4, OnwardEachOnce
<1>7. Limiter!NoFalseRefusal'
  BY <1>0, <1>4 DEF Limiter!NoFalseRefusal
<1> QED
  BY <1>1, <1>5, <1>6, <1>7 DEF RequestInv

\* The counters of requests are right at the start.
LEMMA RequestsInit ==
  ASSUME Limiter!LimiterConstants, Limiter!Init
  PROVE  RequestInv
<1>1. Limiter!LimiterTypeOK
  BY LimiterInit
<1>2. KeyIsWindow
  BY DEF Limiter!Init, KeyIsWindow, Limiter!Idle
<1>3. \A w \in Limiter!Windows : /\ Waiting(w) = {} /\ \A p \in Servers : Asking(p, w) = {}
  BY DEF Limiter!Init, Waiting, Asking, Limiter!Idle
<1>4. EachOnce
  <2>1. \A w \in Limiter!Windows : /\ shared[w].count = 0 /\ made[w] = 0
                                   /\ \A p \in Servers : local[p][w].count = 0
    BY DEF Limiter!Init, Limiter!NoCount, Limiter!Zero
  <2>2. Cardinality({}) = 0
    BY FS_EmptySet
  <2>3. \A w \in Limiter!Windows : /\ Cardinality(Waiting(w)) = 0
                                   /\ \A p \in Servers : Cardinality(Asking(p, w)) = 0
    BY <1>3, <2>2
  <2> QED
    BY <2>1, <2>3 DEF EachOnce
<1>5. Limiter!NoFalseRefusal
  BY DEF Limiter!Init, Limiter!Zero, Limiter!NoFalseRefusal
<1> QED
  BY <1>1, <1>2, <1>4, <1>5 DEF RequestInv

(***************************************************************************)
(* A client is refused only in a window in which it made more requests     *)
(* than the limit, for any threads, processes, limit and window, and with  *)
(* any failures, evictions and restarts: RateLimiter.check_request.        *)
(***************************************************************************)
THEOREM LimiterFair ==
  ASSUME Limiter!LimiterConstants
  PROVE  Limiter!Spec => []NoFalseRefusal
<1>1. Limiter!Init => RequestInv
  BY RequestsInit
<1>2. RequestInv /\ [Limiter!Next]_(Limiter!limiterVars) => RequestInv'
  BY ArriveRequests, CheckRequests, OtherRequests DEF Limiter!Next
<1>3. RequestInv => NoFalseRefusal
  BY DEF RequestInv, NoFalseRefusal
<1> QED
  BY <1>1, <1>2, <1>3, PTL DEF Limiter!Spec

(* ---- A counter lets through at most the limit ---------------------------- *)

\* Requests that Redis has counted as the first of their window and not answered.
Owed(w) == {t \in Thread : req[t].at = "expire" /\ req[t].start = w}

\* What a count that stands at n has let through.
Capped(n) == IF n <= Limit THEN n ELSE Limit

\* What the memories of the processes have let through, one by one.
Passed(w) == {x \in Servers \X (1 .. Limit) : x[2] <= local[x[1]][w].count}

\* No counter of a window expires before the window is over.
Timely ==
  \A w \in Limiter!Windows :
    /\ shared[w].until # 0 => shared[w].until >= (w + 1) * Window
    /\ \A p \in Servers : local[p][w].count > 0 => local[p][w].until >= (w + 1) * Window

\* What a window lets through while it lasts is what its counters have counted.
Balanced(w) ==
  allowed[w] + Cardinality(Owed(w))
    <= late[w] + Limit * lost + Capped(shared[w].count) + Cardinality(Passed(w))

Accounted == \A w \in Limiter!Windows : w >= time \div Window => Balanced(w)

LimitInv == Limiter!LimiterTypeOK /\ KeyIsWindow /\ Timely /\ Accounted /\ Limiter!LimitHolds

\* A cap is a number up to the limit, and grows with the count.
LEMMA CappedOf ==
  ASSUME Limiter!LimiterConstants
  PROVE  /\ \A n \in Nat : Capped(n) \in Nat /\ Capped(n) <= Limit
         /\ \A n \in Nat, m \in Nat : n <= m => Capped(n) <= Capped(m)
         /\ \A n \in Nat : n + 1 <= Limit => Capped(n + 1) = Capped(n) + 1
BY DEF Limiter!LimiterConstants, Capped

\* Each memory passes at most the limit, one request at a time.
LEMMA Slots ==
  ASSUME Limiter!LimiterConstants, NEW w
  PROVE  \A L : LET S == {x \in Servers \X (1 .. Limit) : x[2] <= L[x[1]][w].count}
                IN /\ IsFiniteSet(S) /\ Cardinality(S) \in Nat
                   /\ Cardinality(Servers) \in Nat
                   /\ Cardinality(S) <= Cardinality(Servers) * Limit
<1>1. 1 \in Int /\ Limit \in Int /\ 1 <= Limit
  BY DEF Limiter!LimiterConstants
<1>2. /\ IsFiniteSet(1 .. Limit) /\ Cardinality(1 .. Limit) = Limit
      /\ IsFiniteSet(Servers) /\ Cardinality(Servers) \in Nat
  <2>1. IsFiniteSet(1 .. Limit) /\ Cardinality(1 .. Limit) = Limit
    BY <1>1, FS_Interval
  <2>2. IsFiniteSet(Servers) /\ Cardinality(Servers) \in Nat
    BY FS_CardinalityType, SameCount DEF Limiter!LimiterConstants
  <2> QED
    BY <2>1, <2>2
<1>3. /\ IsFiniteSet(Servers \X (1 .. Limit))
      /\ Cardinality(Servers \X (1 .. Limit)) = Cardinality(Servers) * Limit
  BY <1>2, FS_Product
<1>4. \A S \in SUBSET (Servers \X (1 .. Limit)) :
        IsFiniteSet(S) /\ Cardinality(S) \in Nat
          /\ Cardinality(S) <= Cardinality(Servers) * Limit
  BY <1>3, Fewer
<1>5. \A L : {x \in Servers \X (1 .. Limit) : x[2] <= L[x[1]][w].count}
               \in SUBSET (Servers \X (1 .. Limit))
  OBVIOUS
<1> QED
  BY <1>2, <1>4, <1>5

\* What is owed and what was passed are finite, before a step and after it.
LEMMA PassedFinite ==
  ASSUME Limiter!LimiterConstants, NEW w \in Limiter!Windows
  PROVE  /\ IsFiniteSet(Owed(w)) /\ Cardinality(Owed(w)) \in Nat
         /\ IsFiniteSet(Owed(w)') /\ Cardinality(Owed(w)') \in Nat
         /\ IsFiniteSet(Passed(w)) /\ Cardinality(Passed(w)) \in Nat
         /\ IsFiniteSet(Passed(w)') /\ Cardinality(Passed(w)') \in Nat
         /\ Cardinality(Passed(w)') <= Cardinality(Servers) * Limit
         /\ Cardinality(Servers) \in Nat
<1>1. Owed(w) \in SUBSET Thread /\ Owed(w)' \in SUBSET Thread /\ IsFiniteSet(Thread)
  BY SameCount DEF Owed, Limiter!LimiterConstants
<1>2. /\ IsFiniteSet(Passed(w)) /\ Cardinality(Passed(w)) \in Nat
      /\ IsFiniteSet(Passed(w)') /\ Cardinality(Passed(w)') \in Nat
      /\ Cardinality(Passed(w)') <= Cardinality(Servers) * Limit
      /\ Cardinality(Servers) \in Nat
  BY Slots DEF Passed
<1> QED
  BY <1>1, <1>2, Fewer

\* A lost counter adds a limit.
LEMMA OneMoreLost ==
  ASSUME Limiter!LimiterConstants, Limiter!LimiterTypeOK
  PROVE  /\ Limit * lost \in Nat /\ Limit * (lost + 1) = Limit * lost + Limit
         /\ \A n \in Nat : Limit * (1 + n + lost) = Limit + n * Limit + Limit * lost
BY DEF Limiter!LimiterConstants, Limiter!LimiterTypeOK

\* A counter of the present window, or of a later one, has not expired.
LEMMA StillCounting ==
  ASSUME Limiter!LimiterConstants, Limiter!LimiterTypeOK, Timely, NEW w \in Limiter!Windows, w >= time \div Window
  PROVE  /\ Limiter!Live(shared[w]) = shared[w]
         /\ \A p \in Servers : local[p][w].count > 0 => ~(local[p][w].until <= time)
         /\ time < (w + 1) * Window
<1>1. w \in Nat /\ time \in Nat /\ Window \in Nat \ {0}
  BY ThisWindow DEF Limiter!LimiterConstants
<1>2. time < (w + 1) * Window /\ (w + 1) * Window \in Nat
  BY <1>1, WindowOf
<1>3. /\ shared[w].until \in Nat
      /\ shared[w].until # 0 => shared[w].until >= (w + 1) * Window
  BY DEF Limiter!LimiterTypeOK, Limiter!Entry, Timely
<1>4. \A p \in Servers : /\ local[p][w].until \in Nat
                         /\ local[p][w].count > 0 => local[p][w].until >= (w + 1) * Window
  BY DEF Limiter!LimiterTypeOK, Limiter!Entry, Timely
<1>5. Limiter!Live(shared[w]) = shared[w]
  BY <1>1, <1>2, <1>3 DEF Limiter!Live
<1>6. ASSUME NEW p \in Servers, local[p][w].count > 0
      PROVE  ~(local[p][w].until <= time)
  BY <1>1, <1>2, <1>4, <1>6
<1> QED
  BY <1>2, <1>5, <1>6

\* A time to live that starts in a window, or later, ends after it.
LEMMA EndsAfter ==
  ASSUME Limiter!LimiterConstants, Limiter!LimiterTypeOK, NEW w \in Limiter!Windows, w <= time \div Window
  PROVE  time + Window >= (w + 1) * Window
<1>1. w \in Nat /\ time \in Nat /\ Window \in Nat \ {0}
  BY ThisWindow DEF Limiter!LimiterConstants
<1>2. w * Window <= time
  BY <1>1, WindowOf
<1>3. (w + 1) * Window = w * Window + Window /\ w * Window \in Nat
  BY <1>1
<1> QED
  BY <1>1, <1>2, <1>3

\* Where the time to live of a counter is set, it ends late enough, and what is
\* live is still counted.
LEMMA TimedOf ==
  ASSUME Limiter!LimiterConstants, Limiter!LimiterTypeOK, NEW k \in Limiter!Windows, k <= time \div Window
  PROVE  \A w \in Limiter!Windows :
           /\ \/ Limiter!Timed(k)[w].until \in {0, shared[w].until}
              \/ Limiter!Timed(k)[w].until >= (w + 1) * Window
           /\ Limiter!Live(shared[w]) = shared[w] => Limiter!Timed(k)[w].count = shared[w].count
<1>1. shared \in [Limiter!Windows -> Limiter!Entry]
  BY DEF Limiter!LimiterTypeOK
<1>2. time + Window >= (k + 1) * Window
  BY EndsAfter
<1>3. ASSUME NEW w \in Limiter!Windows
      PROVE  /\ \/ Limiter!Timed(k)[w].until \in {0, shared[w].until}
                \/ Limiter!Timed(k)[w].until >= (w + 1) * Window
             /\ Limiter!Live(shared[w]) = shared[w]
                => Limiter!Timed(k)[w].count = shared[w].count
  <2>1. CASE w # k
    <3>1. Limiter!Timed(k)[w] = shared[w]
      BY <2>1, TimedTypes
    <3> QED
      BY <3>1
  <2>2. CASE w = k /\ Limiter!Live(shared[k]).count = 0
    <3>1. Limiter!Timed(k)[k] = Limiter!NoCount
      BY <2>2, TimedTypes
    <3> QED
      BY <2>2, <3>1 DEF Limiter!NoCount
  <2>3. CASE w = k /\ Limiter!Live(shared[k]).count # 0
    <3>1. Limiter!Timed(k)[k] = [shared[k] EXCEPT !.until = time + Window]
      BY <2>3, TimedTypes
    <3>2. shared[k] \in Limiter!Entry
      BY <1>1
    <3>3. Limiter!Timed(k)[k].until = time + Window /\ Limiter!Timed(k)[k].count = shared[k].count
      BY <3>1, <3>2 DEF Limiter!Entry
    <3> QED
      BY <1>2, <2>3, <3>3
  <2> QED
    BY <2>1, <2>2, <2>3
<1> QED
  BY <1>3

\* A step after which every entry is an old one, an empty one, or ends late enough
\* leaves no counter that expires too early.
LEMMA TimelyKept ==
  ASSUME Timely,
         \A w \in Limiter!Windows : \/ shared'[w].until \in {0, shared[w].until}
                                    \/ shared'[w].until >= (w + 1) * Window,
         \A p \in Servers : \A w \in Limiter!Windows :
           \/ local'[p][w].count = 0 \/ local'[p][w] = local[p][w]
           \/ local'[p][w].until >= (w + 1) * Window
  PROVE  Timely'
<1>1. ASSUME NEW w \in Limiter!Windows
      PROVE  shared'[w].until # 0 => shared'[w].until >= (w + 1) * Window
  BY DEF Timely
<1>2. ASSUME NEW w \in Limiter!Windows, NEW p \in Servers, local'[p][w].count > 0
      PROVE  local'[p][w].until >= (w + 1) * Window
  BY <1>2 DEF Timely
<1> QED
  BY <1>1, <1>2 DEF Timely

\* A step that lets nothing through, loses nothing and counts nothing back keeps
\* the account of a window.
LEMMA AccountKept ==
  ASSUME Limiter!LimiterConstants, Limiter!LimiterTypeOK, Limiter!LimiterTypeOK', Accounted,
         NEW w \in Limiter!Windows, w >= time \div Window,
         allowed'[w] = allowed[w], late'[w] = late[w], lost' = lost,
         \A t \in Thread : /\ req'[t].at = "expire" /\ req'[t].start = w
                           => req[t].at = "expire" /\ req[t].start = w,
         shared[w].count <= shared'[w].count,
         \A p \in Servers : local[p][w].count <= local'[p][w].count
  PROVE  Balanced(w)'
<1>1. allowed[w] + Cardinality(Owed(w))
        <= late[w] + Limit * lost + Capped(shared[w].count) + Cardinality(Passed(w))
  BY DEF Accounted, Balanced
<1>2. Cardinality(Owed(w)') \in Nat /\ Cardinality(Owed(w)') <= Cardinality(Owed(w))
      /\ Cardinality(Owed(w)) \in Nat
  <2>1. Owed(w)' \in SUBSET Owed(w)
    BY DEF Owed
  <2> QED
    BY <2>1, PassedFinite, Fewer
<1>3. Cardinality(Passed(w)) \in Nat /\ Cardinality(Passed(w)) <= Cardinality(Passed(w)')
      /\ Cardinality(Passed(w)') \in Nat
  <2>1. IsFiniteSet(Passed(w)')
    BY PassedFinite
  <2>2. Passed(w) \in SUBSET (Passed(w)')
    <3>1. \A x \in Servers \X (1 .. Limit) :
            /\ x[2] \in Nat /\ x[1] \in Servers
            /\ local[x[1]][w].count \in Nat /\ local'[x[1]][w].count \in Nat
      BY DEF Limiter!LimiterTypeOK, Limiter!Entry
    <3>2. ASSUME NEW x \in Servers \X (1 .. Limit), x[2] <= local[x[1]][w].count
          PROVE  x[2] <= local'[x[1]][w].count
      <4>1. local[x[1]][w].count <= local'[x[1]][w].count
        BY <3>1
      <4> QED
        BY <3>1, <3>2, <4>1
    <3> QED
      BY <3>2 DEF Passed
  <2> QED
    BY <2>1, <2>2, Fewer
<1>4. /\ Capped(shared[w].count) \in Nat /\ Capped(shared'[w].count) \in Nat
      /\ Capped(shared[w].count) <= Capped(shared'[w].count)
  <2>1. shared[w].count \in Nat /\ shared'[w].count \in Nat
    BY DEF Limiter!LimiterTypeOK, Limiter!Entry
  <2> QED
    BY <2>1, CappedOf
<1>5. Limit * lost \in Nat /\ allowed[w] \in Nat /\ late[w] \in Nat
  BY OneMoreLost DEF Limiter!LimiterTypeOK
<1> QED
  BY <1>1, <1>2, <1>3, <1>4, <1>5 DEF Balanced

\* An increment adds one to what is live, and leaves the time to live.
LEMMA IncrementedOf ==
  ASSUME Limiter!LimiterConstants, Limiter!LimiterTypeOK, NEW k \in Limiter!Windows
  PROVE  /\ Limiter!Incremented(k)[k] = [count |-> Limiter!Live(shared[k]).count + 1,
                                         until |-> Limiter!Live(shared[k]).until]
         /\ \A w \in Limiter!Windows \ {k} : Limiter!Incremented(k)[w] = shared[w]
         /\ \A w \in Limiter!Windows :
              /\ Limiter!Incremented(k)[w].until \in {0, shared[w].until}
              /\ Limiter!Live(shared[w]) = shared[w] => shared[w].count <= Limiter!Incremented(k)[w].count
<1>1. shared \in [Limiter!Windows -> Limiter!Entry] /\ shared[k] \in Limiter!Entry
  BY DEF Limiter!LimiterTypeOK
<1>2. /\ Limiter!Incremented(k)[k] = [count |-> Limiter!Live(shared[k]).count + 1,
                                      until |-> Limiter!Live(shared[k]).until]
      /\ \A w \in Limiter!Windows \ {k} : Limiter!Incremented(k)[w] = shared[w]
  BY <1>1 DEF Limiter!Incremented
<1>3. Limiter!Live(shared[k]).until \in {0, shared[k].until}
  BY <1>1 DEF Limiter!Live, Limiter!NoCount
<1>4. \A w \in Limiter!Windows : shared[w].count \in Nat
  BY <1>1 DEF Limiter!Entry
<1>5. ASSUME NEW w \in Limiter!Windows
      PROVE  /\ Limiter!Incremented(k)[w].until \in {0, shared[w].until}
             /\ Limiter!Live(shared[w]) = shared[w] => shared[w].count <= Limiter!Incremented(k)[w].count
  <2>1. CASE w = k
    BY <1>2, <1>3, <1>4, <2>1
  <2>2. CASE w # k
    BY <1>2, <1>4, <2>2
  <2> QED
    BY <2>1, <2>2
<1> QED
  BY <1>2, <1>5

\* An answer lets through one request of its window, or none, and counts it as late
\* when the window is over.
LEMMA AnswerCounts ==
  ASSUME Limiter!LimiterConstants, Limiter!LimiterTypeOK, KeyIsWindow, NEW t \in Thread, NEW n \in Nat,
         Limiter!Answer(t, n), NEW k \in Limiter!Windows, k = req[t].start
  PROVE  /\ \A w \in Limiter!Windows \ {k} : allowed'[w] = allowed[w] /\ late'[w] = late[w]
         /\ ~(n <= Limit) => allowed'[k] = allowed[k] /\ late'[k] = late[k]
         /\ n <= Limit => /\ allowed'[k] = allowed[k] + 1
                          /\ k < time \div Window => late'[k] = late[k] + 1
                          /\ ~(k < time \div Window) => late'[k] = late[k]
         /\ req'[t].at = "idle" /\ \A s \in Thread \ {t} : req'[s] = req[s]
<1>1. /\ allowed \in [Limiter!Windows -> Nat] /\ late \in [Limiter!Windows -> Nat]
      /\ req \in [Thread -> [at : {"idle", "choose", "connect", "redis", "expire", "memory"},
                             key : Limiter!Windows, start : Limiter!Windows]]
  BY DEF Limiter!LimiterTypeOK
<1>2. /\ allowed' = [allowed EXCEPT ![k] = IF n <= Limit THEN @ + 1 ELSE @]
      /\ late' = [late EXCEPT ![k] = IF n <= Limit /\ time \div Window > k THEN @ + 1 ELSE @]
      /\ req' = [req EXCEPT ![t] = Limiter!Idle]
  BY DEF Limiter!Answer
<1>3. k \in Nat /\ time \div Window \in Nat
  BY ThisWindow
<1>4. \A w \in Limiter!Windows \ {k} : allowed'[w] = allowed[w] /\ late'[w] = late[w]
  BY <1>1, <1>2
<1>5. /\ allowed'[k] = IF n <= Limit THEN allowed[k] + 1 ELSE allowed[k]
      /\ late'[k] = IF n <= Limit /\ time \div Window > k THEN late[k] + 1 ELSE late[k]
  BY <1>1, <1>2
<1>6. req'[t].at = "idle" /\ \A s \in Thread \ {t} : req'[s] = req[s]
  BY <1>1, <1>2 DEF Limiter!Idle
<1> QED
  BY <1>3, <1>4, <1>5, <1>6

\* When time stands still and only requests of the present and of earlier windows are
\* answered, the bound follows from the account.
LEMMA HoldsKept ==
  ASSUME Limiter!LimiterConstants, Limiter!LimiterTypeOK, Limiter!LimiterTypeOK', Limiter!LimitHolds, Accounted',
         time' = time, lost' >= lost,
         \A w \in Limiter!Windows : w < time \div Window =>
           allowed'[w] + late[w] <= allowed[w] + late'[w]
  PROVE  Limiter!LimitHolds'
<1>1. time \div Window \in Nat /\ Limiter!Windows \subseteq Nat
  BY ThisWindow
<1>2. ASSUME NEW w \in Limiter!Windows, w < time \div Window
      PROVE  allowed'[w] <= Limit * (1 + Cardinality(Servers) + lost') + late'[w]
  <2>1. allowed[w] <= Limit * (1 + Cardinality(Servers) + lost) + late[w]
    BY SameCount DEF Limiter!LimitHolds
  <2>2. /\ allowed[w] \in Nat /\ late[w] \in Nat /\ allowed'[w] \in Nat /\ late'[w] \in Nat
        /\ lost \in Nat /\ lost' \in Nat /\ Limit \in Nat /\ Cardinality(Servers) \in Nat
    BY PassedFinite DEF Limiter!LimiterTypeOK, Limiter!LimiterConstants
  <2>3. /\ Limit * (1 + Cardinality(Servers) + lost)
             <= Limit * (1 + Cardinality(Servers) + lost')
        /\ Limit * (1 + Cardinality(Servers) + lost) \in Nat
        /\ Limit * (1 + Cardinality(Servers) + lost') \in Nat
    BY <2>2
  <2>4. allowed'[w] + late[w] <= allowed[w] + late'[w]
    BY <1>2
  <2> QED
    BY <2>1, <2>2, <2>3, <2>4
<1>3. ASSUME NEW w \in Limiter!Windows, w >= time \div Window
      PROVE  allowed'[w] <= Limit * (1 + Cardinality(Servers) + lost') + late'[w]
  <2>1. Balanced(w)'
    BY <1>3 DEF Accounted
  <2>2. allowed'[w] + Cardinality(Owed(w)')
          <= late'[w] + Limit * lost' + Capped(shared'[w].count) + Cardinality(Passed(w)')
    BY <2>1 DEF Balanced
  <2>3. allowed'[w] \in Nat /\ late'[w] \in Nat /\ shared'[w].count \in Nat /\ Limit \in Nat
        /\ lost' \in Nat
    BY DEF Limiter!LimiterTypeOK, Limiter!Entry, Limiter!LimiterConstants
  <2>4. Capped(shared'[w].count) <= Limit /\ Capped(shared'[w].count) \in Nat
    BY <2>3, CappedOf
  <2>5. /\ Cardinality(Owed(w)') \in Nat /\ Cardinality(Passed(w)') \in Nat
        /\ Cardinality(Passed(w)') <= Cardinality(Servers) * Limit
        /\ Cardinality(Servers) \in Nat
    BY PassedFinite
  <2>6. /\ Limit * lost' \in Nat /\ Cardinality(Servers) * Limit \in Nat
        /\ Limit * (1 + Cardinality(Servers) + lost')
             = Limit + Cardinality(Servers) * Limit + Limit * lost'
    <3>1. \A a, b, c \in Nat : /\ a * b \in Nat
                               /\ a * (1 + b + c) = a + b * a + a * c
      OBVIOUS
    <3> QED
      BY <2>3, <2>5, <3>1
  <2> QED
    BY <2>2, <2>3, <2>4, <2>5, <2>6
<1> QED
  BY <1>1, <1>2, <1>3, SameCount DEF Limiter!LimitHolds

\* A step of a check that answers nothing and counts at most in Redis.
LEMMA UnansweredLimit ==
  ASSUME Limiter!LimiterConstants, LimitInv, Limiter!LimiterTypeOK', KeyIsWindow', NEW t \in Thread,
         Limiter!Choose(t) \/ Limiter!Connect(t) \/ Limiter!ConnectFails(t) \/ Limiter!RedisFails(t)
  PROVE  LimitInv'
<1>0. Limiter!LimiterTypeOK /\ KeyIsWindow /\ Timely /\ Accounted /\ Limiter!LimitHolds
  BY DEF LimitInv
<1>1. Limiter!Check(t)
  BY DEF Limiter!Check
<1>2. Onward /\ time' = time /\ \A s \in Thread \ {t} : req'[s] = req[s]
  BY <1>0, <1>1, CheckOnward
<1>3. /\ local' = local /\ lost' = lost /\ allowed' = allowed /\ late' = late
      /\ req'[t].at # "expire"
      /\ \/ shared' \in {shared, Limiter!Incremented(req[t].key)}
         \/ req[t].at = "expire" /\ shared' = Limiter!Timed(req[t].key)
  <2>1. counter[ProcessOf[t]] \in {"none", "redis", "memory"}
    BY <1>0 DEF Limiter!LimiterTypeOK, Limiter!LimiterConstants
  <2>2. CASE Limiter!Choose(t)
    BY <1>0, <2>1, <2>2 DEF Limiter!Choose, Limiter!GoOn, Limiter!NoAnswer, Limiter!LimiterTypeOK
  <2>3. CASE Limiter!Connect(t)
    BY <1>0, <2>3 DEF Limiter!Connect, Limiter!GoOn, Limiter!NoAnswer, Limiter!LimiterTypeOK
  <2>4. CASE Limiter!ConnectFails(t)
    BY <1>0, <2>4 DEF Limiter!ConnectFails, Limiter!GoOn, Limiter!NoAnswer, Limiter!LimiterTypeOK
  <2>5. CASE Limiter!RedisFails(t)
    BY <1>0, <2>5 DEF Limiter!RedisFails, Limiter!GoOn, Limiter!NoAnswer, Limiter!LimiterTypeOK
  <2> QED
    BY <2>2, <2>3, <2>4, <2>5
<1>4. \A w \in Limiter!Windows :
        /\ shared'[w].until \in {0, shared[w].until} \/ shared'[w].until >= (w + 1) * Window
        /\ Limiter!Live(shared[w]) = shared[w] => shared[w].count <= shared'[w].count
  <2>1. CASE shared' = shared
    BY <1>0, <2>1 DEF Limiter!LimiterTypeOK, Limiter!Entry
  <2>2. CASE shared' = Limiter!Incremented(req[t].key)
    <3>1. req[t].key \in Limiter!Windows
      BY <1>0 DEF Limiter!LimiterTypeOK
    <3> QED
      BY <1>0, <2>2, <3>1, IncrementedOf
  <2>3. CASE req[t].at = "expire" /\ shared' = Limiter!Timed(req[t].key)
    <3>1. req[t].key \in Limiter!Windows /\ req[t].key <= time \div Window
      BY <1>0, <2>3 DEF Limiter!LimiterTypeOK, KeyIsWindow
    <3>2. \A w \in Limiter!Windows : shared[w].count \in Nat
      BY <1>0 DEF Limiter!LimiterTypeOK, Limiter!Entry
    <3> QED
      BY <1>0, <2>3, <3>1, <3>2, TimedOf
  <2> QED
    BY <1>3, <2>1, <2>2, <2>3
<1>5. Timely'
  BY <1>0, <1>3, <1>4, TimelyKept
<1>6. Accounted'
  <2>1. ASSUME NEW w \in Limiter!Windows, w >= time \div Window
        PROVE  Balanced(w)'
    <3>1. shared[w].count <= shared'[w].count
      BY <1>0, <1>4, <2>1, StillCounting
    <3>2. \A s \in Thread : /\ req'[s].at = "expire" /\ req'[s].start = w
                            => req[s].at = "expire" /\ req[s].start = w
      BY <1>2, <1>3
    <3>3. \A p \in Servers : local[p][w].count <= local'[p][w].count
      BY <1>0, <1>3 DEF Limiter!LimiterTypeOK, Limiter!Entry
    <3> QED
      BY <1>0, <1>3, <2>1, <3>1, <3>2, <3>3, AccountKept
  <2> QED
    BY <1>2, <2>1 DEF Accounted
<1>7. Limiter!LimitHolds'
  BY <1>0, <1>3 DEF Limiter!LimitHolds
<1> QED
  BY <1>5, <1>6, <1>7 DEF LimitInv

\* Redis counts a request: it is let through if it still fits, or owed if it is the first.
LEMMA IncrLimit ==
  ASSUME Limiter!LimiterConstants, LimitInv, Limiter!LimiterTypeOK', KeyIsWindow', NEW t \in Thread, Limiter!Incr(t)
  PROVE  LimitInv'
<1>0. Limiter!LimiterTypeOK /\ KeyIsWindow /\ Timely /\ Accounted /\ Limiter!LimitHolds
  BY DEF LimitInv
<1>1. PICK k \in Limiter!Windows : k = req[t].key /\ k = req[t].start
  <2>1. req[t].at = "redis"
    BY DEF Limiter!Incr
  <2> QED
    BY <1>0, <2>1 DEF Limiter!LimiterTypeOK, KeyIsWindow
<1>2. Limiter!Check(t)
  BY DEF Limiter!Check
<1>3. Onward /\ time' = time /\ \A s \in Thread \ {t} : req'[s] = req[s]
  BY <1>0, <1>2, CheckOnward
<1>4. /\ req[t].at = "redis" /\ shared' = Limiter!Incremented(k) /\ local' = local /\ lost' = lost
      /\ IF shared'[k].count = 1 THEN Limiter!GoOn(t, "expire") /\ Limiter!NoAnswer
         ELSE Limiter!Answer(t, shared'[k].count)
  BY <1>1 DEF Limiter!Incr
<1>5. /\ shared'[k].count \in Nat /\ shared[k].count \in Nat /\ Limit \in Nat /\ 1 <= Limit
      /\ time \div Window \in Nat /\ Limiter!Windows \subseteq Nat
  BY <1>0, ThisWindow DEF Limiter!LimiterTypeOK, Limiter!Entry, Limiter!LimiterConstants
<1>6. Timely'
  <2>1. \A w \in Limiter!Windows : shared'[w].until \in {0, shared[w].until}
    BY <1>0, <1>4, IncrementedOf
  <2> QED
    BY <1>0, <1>4, <2>1, TimelyKept
<1>7. ASSUME NEW w \in Limiter!Windows, w >= time \div Window, w # k
      PROVE  Balanced(w)'
  <2>1. allowed'[w] = allowed[w] /\ late'[w] = late[w]
    <3>1. CASE shared'[k].count = 1
      BY <1>4, <3>1 DEF Limiter!NoAnswer
    <3>2. CASE shared'[k].count # 1
      BY <1>0, <1>1, <1>4, <1>5, <1>7, <3>2, AnswerCounts
    <3> QED
      BY <3>1, <3>2
  <2>2. \A s \in Thread : /\ req'[s].at = "expire" /\ req'[s].start = w
                          => req[s].at = "expire" /\ req[s].start = w
    <3>1. req'[t].at = "expire" => req'[t].start = k
      BY <1>1, <1>3 DEF Onward
    <3> QED
      BY <1>3, <1>7, <3>1
  <2>3. shared'[w] = shared[w] /\ shared[w].count <= shared'[w].count
        /\ \A p \in Servers : local[p][w].count <= local'[p][w].count
    <3>1. shared'[w] = shared[w]
      BY <1>0, <1>4, <1>7, IncrementedOf
    <3> QED
      BY <1>0, <1>4, <3>1 DEF Limiter!LimiterTypeOK, Limiter!Entry
  <2> QED
    BY <1>0, <1>4, <1>7, <2>1, <2>2, <2>3, AccountKept
<1>8. ASSUME k >= time \div Window
      PROVE  Balanced(k)'
  <2> DEFINE n == shared[k].count
  <2>1. shared'[k].count = n + 1
    <3>1. Limiter!Live(shared[k]) = shared[k]
      BY <1>0, <1>8, StillCounting
    <3>2. shared'[k] = [count |-> Limiter!Live(shared[k]).count + 1, until |-> Limiter!Live(shared[k]).until]
      BY <1>0, <1>4, IncrementedOf
    <3> QED
      BY <3>1, <3>2
  <2>2. allowed[k] + Cardinality(Owed(k))
          <= late[k] + Limit * lost + Capped(n) + Cardinality(Passed(k))
    BY <1>0, <1>8 DEF Accounted, Balanced
  <2>3. Passed(k)' = Passed(k)
    BY <1>4 DEF Passed
  <2>4. /\ Cardinality(Owed(k)) \in Nat /\ Cardinality(Owed(k)') \in Nat
        /\ Cardinality(Passed(k)) \in Nat /\ IsFiniteSet(Owed(k))
        /\ allowed[k] \in Nat /\ late[k] \in Nat /\ Limit * lost \in Nat
        /\ Capped(n) \in Nat /\ Capped(n + 1) \in Nat /\ n \in Nat
        /\ Capped(n) <= Capped(n + 1)
        /\ n + 1 <= Limit => Capped(n + 1) = Capped(n) + 1
    BY <1>0, <1>5, PassedFinite, OneMoreLost, CappedOf DEF Limiter!LimiterTypeOK
  <2> HIDE DEF n
  <2>5. allowed'[k] + Cardinality(Owed(k)')
          <= late'[k] + Limit * lost + Capped(n + 1) + Cardinality(Passed(k))
    <3>1. CASE n = 0
      <4>1. Limiter!NoAnswer /\ allowed' = allowed /\ late' = late
        BY <1>4, <2>1, <3>1 DEF Limiter!NoAnswer
      <4>2. Owed(k)' \in SUBSET (Owed(k) \union {t})
        BY <1>3 DEF Owed
      <4>3. Cardinality(Owed(k)') <= Cardinality(Owed(k)) + 1
        BY <2>4, <4>2, OneMore
      <4>4. Capped(n + 1) = Capped(n) + 1
        BY <1>5, <2>4, <3>1
      <4> QED
        BY <2>2, <2>4, <4>1, <4>3, <4>4
    <3>2. CASE n # 0
      <4>1. Limiter!Answer(t, n + 1) /\ n + 1 \in Nat
        BY <1>4, <2>1, <2>4, <3>2
      <4>2. /\ ~(n + 1 <= Limit) => allowed'[k] = allowed[k] /\ late'[k] = late[k]
            /\ n + 1 <= Limit => allowed'[k] = allowed[k] + 1 /\ late'[k] = late[k]
            /\ req'[t].at = "idle"
        <5>1. ~(k < time \div Window)
          BY <1>5, <1>8
        <5> QED
          BY <1>0, <1>1, <4>1, <5>1, AnswerCounts
      <4>3. Owed(k)' \in SUBSET Owed(k)
        BY <1>3, <4>2 DEF Owed
      <4>4. Cardinality(Owed(k)') <= Cardinality(Owed(k))
        BY <2>4, <4>3, Fewer
      <4> QED
        BY <2>2, <2>4, <4>2, <4>4
    <3> QED
      BY <3>1, <3>2
  <2> QED
    BY <1>4, <2>1, <2>3, <2>5 DEF Balanced
<1>9. Accounted'
  BY <1>3, <1>7, <1>8 DEF Accounted
<1>10. \A w \in Limiter!Windows : w < time \div Window =>
         allowed'[w] + late[w] <= allowed[w] + late'[w]
  <2>1. ASSUME NEW w \in Limiter!Windows, w < time \div Window
        PROVE  allowed'[w] + late[w] <= allowed[w] + late'[w]
    <3>1. allowed[w] \in Nat /\ late[w] \in Nat
      BY <1>0 DEF Limiter!LimiterTypeOK
    <3>2. CASE shared'[k].count = 1
      BY <1>4, <3>1, <3>2 DEF Limiter!NoAnswer
    <3>3. CASE shared'[k].count # 1
      <4>1. Limiter!Answer(t, shared'[k].count)
        BY <1>4, <3>3
      <4> QED
        BY <1>0, <1>1, <1>5, <2>1, <3>1, <4>1, AnswerCounts
    <3> QED
      BY <3>2, <3>3
  <2> QED
    BY <2>1
<1>11. Limiter!LimitHolds'
  <2>1. lost' >= lost
    BY <1>0, <1>4 DEF Limiter!LimiterTypeOK
  <2> QED
    BY <1>0, <1>3, <1>9, <1>10, <2>1, HoldsKept
<1> QED
  BY <1>6, <1>9, <1>11 DEF LimitInv

\* An answer in a window that is over counts as late.
LEMMA LateAnswers ==
  ASSUME Limiter!LimiterConstants, Limiter!LimiterTypeOK, KeyIsWindow, NEW t \in Thread, NEW n \in Nat,
         Limiter!Answer(t, n), NEW k \in Limiter!Windows, k = req[t].start
  PROVE  \A w \in Limiter!Windows : w < time \div Window =>
           allowed'[w] + late[w] <= allowed[w] + late'[w]
<1>1. ASSUME NEW w \in Limiter!Windows, w < time \div Window
      PROVE  allowed'[w] + late[w] <= allowed[w] + late'[w]
  <2>1. allowed[w] \in Nat /\ late[w] \in Nat
    BY DEF Limiter!LimiterTypeOK
  <2> QED
    BY <1>1, <2>1, AnswerCounts
<1> QED
  BY <1>1

\* The time to live is set, and the first request of a window is let through.
LEMMA ExpireLimit ==
  ASSUME Limiter!LimiterConstants, LimitInv, Limiter!LimiterTypeOK', KeyIsWindow', NEW t \in Thread, Limiter!Expire(t)
  PROVE  LimitInv'
<1>0. Limiter!LimiterTypeOK /\ KeyIsWindow /\ Timely /\ Accounted /\ Limiter!LimitHolds
  BY DEF LimitInv
<1>1. PICK k \in Limiter!Windows : k = req[t].key /\ k = req[t].start /\ k <= time \div Window
  <2>1. req[t].at = "expire"
    BY DEF Limiter!Expire
  <2> QED
    BY <1>0, <2>1 DEF Limiter!LimiterTypeOK, KeyIsWindow
<1>2. Limiter!Check(t)
  BY DEF Limiter!Check
<1>3. Onward /\ time' = time /\ \A s \in Thread \ {t} : req'[s] = req[s]
  BY <1>0, <1>2, CheckOnward
<1>4. /\ req[t].at = "expire" /\ local' = local /\ lost' = lost /\ Limiter!Answer(t, 1)
      /\ shared' = Limiter!Timed(k)
  BY <1>1 DEF Limiter!Expire
<1>5. /\ shared[k] \in Limiter!Entry /\ shared[k].count \in Nat /\ Limit \in Nat /\ 1 <= Limit
      /\ time \div Window \in Nat /\ Limiter!Windows \subseteq Nat
  BY <1>0, ThisWindow DEF Limiter!LimiterTypeOK, Limiter!Entry, Limiter!LimiterConstants
<1>6. /\ \A w \in Limiter!Windows \ {k} : shared'[w] = shared[w]
      /\ shared'[k] = IF Limiter!Live(shared[k]).count = 0 THEN Limiter!NoCount
                      ELSE [shared[k] EXCEPT !.until = time + Window]
  BY <1>0, <1>4, TimedTypes
<1>7. Timely'
  <2>1. shared'[k].until = 0 \/ shared'[k].until >= (k + 1) * Window
    <3>1. time + Window >= (k + 1) * Window
      BY <1>0, <1>1, EndsAfter
    <3>2. shared'[k].until = 0 \/ shared'[k].until = time + Window
      BY <1>5, <1>6 DEF Limiter!NoCount, Limiter!Entry
    <3> QED
      BY <3>1, <3>2
  <2>2. \A w \in Limiter!Windows : \/ shared'[w].until \in {0, shared[w].until}
                                   \/ shared'[w].until >= (w + 1) * Window
    BY <1>6, <2>1
  <2> QED
    BY <1>0, <1>4, <2>2, TimelyKept
<1>8. ASSUME NEW w \in Limiter!Windows, w >= time \div Window, w # k
      PROVE  Balanced(w)'
  <2>1. /\ allowed'[w] = allowed[w] /\ late'[w] = late[w] /\ req'[t].at = "idle"
    BY <1>0, <1>1, <1>4, <1>8, AnswerCounts
  <2>2. \A s \in Thread : /\ req'[s].at = "expire" /\ req'[s].start = w
                          => req[s].at = "expire" /\ req[s].start = w
    BY <1>3, <2>1
  <2>3. shared[w].count <= shared'[w].count
        /\ \A p \in Servers : local[p][w].count <= local'[p][w].count
    BY <1>0, <1>4, <1>6, <1>8 DEF Limiter!LimiterTypeOK, Limiter!Entry
  <2> QED
    BY <1>0, <1>4, <1>8, <2>1, <2>2, <2>3, AccountKept
<1>9. ASSUME k >= time \div Window
      PROVE  Balanced(k)'
  <2>1. shared'[k].count = shared[k].count
    <3>1. Limiter!Live(shared[k]) = shared[k]
      BY <1>0, <1>9, StillCounting
    <3> QED
      BY <1>5, <1>6, <3>1 DEF Limiter!NoCount, Limiter!Entry
  <2>2. allowed[k] + Cardinality(Owed(k))
          <= late[k] + Limit * lost + Capped(shared[k].count) + Cardinality(Passed(k))
    BY <1>0, <1>9 DEF Accounted, Balanced
  <2>3. Passed(k)' = Passed(k)
    BY <1>4 DEF Passed
  <2>4. /\ Cardinality(Owed(k)) \in Nat /\ Cardinality(Owed(k)') \in Nat
        /\ Cardinality(Passed(k)) \in Nat /\ IsFiniteSet(Owed(k))
        /\ allowed[k] \in Nat /\ late[k] \in Nat /\ Limit * lost \in Nat
        /\ Capped(shared[k].count) \in Nat
    BY <1>0, <1>5, PassedFinite, OneMoreLost, CappedOf DEF Limiter!LimiterTypeOK
  <2>5. allowed'[k] = allowed[k] + 1 /\ late'[k] = late[k] /\ req'[t].at = "idle"
    <3>1. ~(k < time \div Window)
      BY <1>5, <1>9
    <3> QED
      BY <1>0, <1>1, <1>4, <1>5, <3>1, AnswerCounts
  <2>6. Cardinality(Owed(k)') + 1 <= Cardinality(Owed(k))
    <3>1. t \in Owed(k) /\ t \notin Owed(k)'
      BY <1>1, <1>4, <2>5 DEF Owed
    <3>2. Owed(k)' \in SUBSET Owed(k)
      BY <1>3, <2>5 DEF Owed
    <3> QED
      BY <2>4, <3>1, <3>2, OneFewer
  <2>7. allowed'[k] + Cardinality(Owed(k)')
          <= late'[k] + Limit * lost + Capped(shared[k].count) + Cardinality(Passed(k))
    BY <2>2, <2>4, <2>5, <2>6
  <2> QED
    BY <1>4, <2>1, <2>3, <2>7 DEF Balanced
<1>10. Accounted'
  BY <1>3, <1>8, <1>9 DEF Accounted
<1>11. Limiter!LimitHolds'
  <2>1. lost' >= lost
    BY <1>0, <1>4 DEF Limiter!LimiterTypeOK
  <2>2. \A w \in Limiter!Windows : w < time \div Window =>
          allowed'[w] + late[w] <= allowed[w] + late'[w]
    BY <1>0, <1>1, <1>4, LateAnswers
  <2> QED
    BY <1>0, <1>3, <1>10, <2>1, <2>2, HoldsKept
<1> QED
  BY <1>7, <1>10, <1>11 DEF LimitInv

\* A process counts a request in its memory, and lets it through if it still fits.
LEMMA MemoryLimit ==
  ASSUME Limiter!LimiterConstants, LimitInv, Limiter!LimiterTypeOK', KeyIsWindow', NEW t \in Thread, Limiter!Memory(t)
  PROVE  LimitInv'
<1>0. Limiter!LimiterTypeOK /\ KeyIsWindow /\ Timely /\ Accounted /\ Limiter!LimitHolds
  BY DEF LimitInv
<1>1. PICK p \in Servers, k \in Limiter!Windows :
        /\ p = ProcessOf[t] /\ k = req[t].key /\ k = req[t].start /\ k <= time \div Window
        /\ Remembered(t) \in Limiter!Entry /\ Limiter!Answer(t, Remembered(t).count)
        /\ local'[p][k] \in {Remembered(t), Limiter!Live(Remembered(t))}
        /\ \A w \in Limiter!Windows \ {k} : local'[p][w] \in {local[p][w], Limiter!Live(local[p][w])}
        /\ \A q \in Servers \ {p} : local'[q] = local[q]
        /\ UNCHANGED <<time, shared, counter, failed, made, lost, failures>>
        /\ req[t].at = "memory"
  <2>1. ProcessOf[t] \in Servers /\ req[t].key \in Limiter!Windows
    BY <1>0 DEF Limiter!LimiterConstants, Limiter!LimiterTypeOK
  <2>2. req[t].at = "memory"
    BY DEF Limiter!Memory
  <2>3. req[t].key = req[t].start /\ req[t].start <= time \div Window
    BY <1>0, <2>2 DEF KeyIsWindow
  <2> QED
    BY <1>0, <2>1, <2>3, MemoryStep
<1>2. Limiter!Check(t)
  BY DEF Limiter!Check
<1>3. Onward /\ time' = time /\ \A s \in Thread \ {t} : req'[s] = req[s]
  BY <1>0, <1>2, CheckOnward
<1>4. PICK new \in Limiter!Entry : new = Remembered(t)
  BY <1>1
<1>5. PICK old \in Limiter!Entry : old = local[p][k]
  BY <1>0 DEF Limiter!LimiterTypeOK
<1>6. new = IF old.count = 0 \/ old.until <= time
            THEN [count |-> 1, until |-> time + Window]
            ELSE [count |-> old.count + 1, until |-> old.until]
  BY <1>1, <1>4, <1>5 DEF Remembered
<1>7. /\ new.count \in Nat /\ new.until \in Nat /\ old.count \in Nat /\ old.until \in Nat
      /\ Limit \in Nat /\ time \in Nat /\ Window \in Nat \ {0}
      /\ time \div Window \in Nat /\ Limiter!Windows \subseteq Nat
  BY <1>0, ThisWindow DEF Limiter!Entry, Limiter!LimiterConstants
<1>8. new.until >= (k + 1) * Window
  <2>1. time + Window >= (k + 1) * Window
    BY <1>0, <1>1, EndsAfter
  <2>2. old.count > 0 => old.until >= (k + 1) * Window
    BY <1>0, <1>5 DEF Timely
  <2>3. CASE old.count = 0 \/ old.until <= time
    BY <1>6, <2>1, <2>3
  <2>4. CASE ~(old.count = 0 \/ old.until <= time)
    BY <1>6, <1>7, <2>2, <2>4
  <2> QED
    BY <2>3, <2>4
<1>9. \A entry \in Limiter!Entry : Limiter!Live(entry) = entry \/ Limiter!Live(entry) = Limiter!NoCount
  BY DEF Limiter!Live
<1>10. Timely'
  <2>1. ASSUME NEW q \in Servers, NEW w \in Limiter!Windows
        PROVE  \/ local'[q][w].count = 0 \/ local'[q][w] = local[q][w]
               \/ local'[q][w].until >= (w + 1) * Window
    <3>0. local[q][w] \in Limiter!Entry /\ Limiter!NoCount.count = 0
      BY <1>0 DEF Limiter!LimiterTypeOK, Limiter!NoCount
    <3>1. CASE q = p /\ w = k
      BY <1>1, <1>4, <1>8, <1>9, <3>0, <3>1
    <3>2. CASE ~(q = p /\ w = k)
      BY <1>1, <1>9, <3>0, <3>2
    <3> QED
      BY <3>1, <3>2
  <2> QED
    BY <1>0, <1>1, <2>1, TimelyKept
<1>11. ASSUME NEW q \in Servers, NEW w \in Limiter!Windows, w >= time \div Window,
              ~(q = p /\ w = k)
       PROVE  local'[q][w].count = local[q][w].count
  <2>1. local[q][w] \in Limiter!Entry /\ local[q][w].count \in Nat /\ Limiter!NoCount.count = 0
    BY <1>0 DEF Limiter!LimiterTypeOK, Limiter!NoCount, Limiter!Entry
  <2>2. local'[q][w] \in {local[q][w], Limiter!Live(local[q][w])}
    BY <1>1, <1>11
  <2>3. Limiter!Live(local[q][w]).count = local[q][w].count
    <3>1. CASE local[q][w].count > 0
      <4>1. ~(local[q][w].until <= time)
        BY <1>0, <1>11, <3>1, StillCounting
      <4> QED
        BY <4>1 DEF Limiter!Live
    <3>2. CASE ~(local[q][w].count > 0)
      BY <1>9, <2>1, <3>2
    <3> QED
      BY <3>1, <3>2
  <2> QED
    BY <2>2, <2>3
<1>12. ASSUME NEW w \in Limiter!Windows, w >= time \div Window, w # k
       PROVE  Balanced(w)'
  <2>1. allowed'[w] = allowed[w] /\ late'[w] = late[w] /\ req'[t].at = "idle"
    BY <1>0, <1>1, <1>4, <1>7, <1>12, AnswerCounts
  <2>2. \A s \in Thread : /\ req'[s].at = "expire" /\ req'[s].start = w
                          => req[s].at = "expire" /\ req[s].start = w
    BY <1>3, <2>1
  <2>3. shared[w].count <= shared'[w].count
        /\ \A q \in Servers : local[q][w].count <= local'[q][w].count
    <3>1. \A q \in Servers : local'[q][w].count = local[q][w].count
      BY <1>11, <1>12
    <3> QED
      BY <1>0, <1>1, <3>1 DEF Limiter!LimiterTypeOK, Limiter!Entry
  <2>4. lost' = lost
    BY <1>1
  <2> QED
    BY <1>0, <1>12, <2>1, <2>2, <2>3, <2>4, AccountKept
<1>13. ASSUME k >= time \div Window
       PROVE  Balanced(k)'
  <2>1. /\ new.count = old.count + 1 /\ local'[p][k].count = new.count
    <3>1. old.count > 0 => ~(old.until <= time)
      BY <1>0, <1>5, <1>13, StillCounting
    <3>2. new.count = old.count + 1
      BY <1>6, <1>7, <3>1
    <3>3. time < (k + 1) * Window
      BY <1>0, <1>13, StillCounting
    <3>4. Limiter!Live(new) = new
      <4>1. (k + 1) * Window \in Nat
        BY <1>7
      <4>2. ~(new.until <= time)
        BY <1>7, <1>8, <3>3, <4>1
      <4> QED
        BY <4>2 DEF Limiter!Live
    <3> QED
      BY <1>1, <1>4, <3>2, <3>4
  <2>2. allowed[k] + Cardinality(Owed(k))
          <= late[k] + Limit * lost + Capped(shared[k].count) + Cardinality(Passed(k))
    BY <1>0, <1>13 DEF Accounted, Balanced
  <2>3. /\ Cardinality(Owed(k)) \in Nat /\ Cardinality(Owed(k)') \in Nat
        /\ IsFiniteSet(Owed(k))
        /\ Cardinality(Passed(k)) \in Nat /\ Cardinality(Passed(k)') \in Nat
        /\ IsFiniteSet(Passed(k)')
        /\ allowed[k] \in Nat /\ late[k] \in Nat /\ Limit * lost \in Nat
        /\ Capped(shared[k].count) \in Nat
    <3>1. shared[k].count \in Nat
      BY <1>0 DEF Limiter!LimiterTypeOK, Limiter!Entry
    <3> QED
      BY <1>0, <3>1, PassedFinite, OneMoreLost, CappedOf DEF Limiter!LimiterTypeOK
  <2>4. /\ ~(new.count <= Limit) => allowed'[k] = allowed[k] /\ late'[k] = late[k]
        /\ new.count <= Limit => allowed'[k] = allowed[k] + 1 /\ late'[k] = late[k]
        /\ req'[t].at = "idle"
    <3>1. ~(k < time \div Window)
      BY <1>7, <1>13
    <3> QED
      BY <1>0, <1>1, <1>4, <1>7, <3>1, AnswerCounts
  <2>5. Cardinality(Owed(k)') <= Cardinality(Owed(k))
    <3>1. Owed(k)' \in SUBSET Owed(k)
      BY <1>3, <2>4 DEF Owed
    <3> QED
      BY <2>3, <3>1, Fewer
  <2>6. \A q \in Servers \ {p} : local'[q] = local[q]
    BY <1>1
  <2>7. Passed(k) \in SUBSET (Passed(k)')
    <3>1. ASSUME NEW x \in Passed(k)
          PROVE  x \in Passed(k)'
      <4>1. x \in Servers \X (1 .. Limit) /\ x[2] <= local[x[1]][k].count /\ x[2] \in Nat
            /\ x[1] \in Servers
        BY DEF Passed
      <4>2. x[2] <= local'[x[1]][k].count
        BY <1>5, <1>7, <2>1, <2>6, <4>1
      <4> QED
        BY <4>1, <4>2 DEF Passed
    <3> QED
      BY <3>1
  <2>8. CASE new.count <= Limit
    <3>1. <<p, new.count>> \in Passed(k)' /\ <<p, new.count>> \notin Passed(k)
      <4>1. <<p, new.count>> \in Servers \X (1 .. Limit)
        BY <1>7, <2>1, <2>8
      <4>2. new.count <= local'[p][k].count /\ ~(new.count <= local[p][k].count)
        BY <1>5, <1>7, <2>1
      <4> QED
        BY <4>1, <4>2 DEF Passed
    <3>2. Cardinality(Passed(k)) + 1 <= Cardinality(Passed(k)')
      BY <2>3, <2>7, <3>1, OneFewer
    <3> QED
      BY <1>1, <2>2, <2>3, <2>4, <2>5, <2>8, <3>2 DEF Balanced
  <2>9. CASE ~(new.count <= Limit)
    <3>1. Cardinality(Passed(k)) <= Cardinality(Passed(k)')
      BY <2>3, <2>7, Fewer
    <3> QED
      BY <1>1, <2>2, <2>3, <2>4, <2>5, <2>9, <3>1 DEF Balanced
  <2> QED
    BY <2>8, <2>9
<1>14. Accounted'
  BY <1>3, <1>12, <1>13 DEF Accounted
<1>15. Limiter!LimitHolds'
  <2>1. lost' >= lost
    BY <1>0, <1>1 DEF Limiter!LimiterTypeOK
  <2>2. \A w \in Limiter!Windows : w < time \div Window =>
          allowed'[w] + late[w] <= allowed[w] + late'[w]
    BY <1>0, <1>1, <1>4, <1>7, LateAnswers
  <2> QED
    BY <1>0, <1>3, <1>14, <2>1, <2>2, HoldsKept
<1> QED
  BY <1>10, <1>14, <1>15 DEF LimitInv

\* A request that arrives, time, and a stutter let nothing through.
LEMMA ArriveLimit ==
  ASSUME Limiter!LimiterConstants, LimitInv, Limiter!LimiterTypeOK', KeyIsWindow',
         Limiter!Tick \/ UNCHANGED Limiter!limiterVars \/ \E t \in Thread : Limiter!Arrive(t)
  PROVE  LimitInv'
<1>0. Limiter!LimiterTypeOK /\ KeyIsWindow /\ Timely /\ Accounted /\ Limiter!LimitHolds
  BY DEF LimitInv
<1> DEFINE Nothing ==
             /\ shared' = shared /\ local' = local /\ lost' = lost
             /\ allowed' = allowed /\ late' = late /\ time' \in {time, time + 1}
             /\ \A s \in Thread : req'[s].at = "expire" => req'[s] = req[s]
<1>1. Nothing
  <2>1. CASE Limiter!Tick
    BY <2>1 DEF Limiter!Tick
  <2>2. CASE UNCHANGED Limiter!limiterVars
    BY <2>2 DEF Limiter!limiterVars
  <2>3. ASSUME NEW t \in Thread, Limiter!Arrive(t)
        PROVE  Nothing
    BY <1>0, <2>3 DEF Limiter!Arrive, Limiter!LimiterTypeOK
  <2> QED
    BY <2>1, <2>2, <2>3
<1>2. Timely'
  BY <1>0, <1>1, TimelyKept
<1>3. Accounted'
  <2>1. time' \div Window >= time \div Window
        /\ time' \div Window \in Nat /\ time \div Window \in Nat /\ Limiter!Windows \subseteq Nat
    <3>1. time \in Nat /\ time' \in Nat /\ time <= time' /\ Window \in Nat \ {0}
      BY <1>0, <1>1, ThisWindow DEF Limiter!LimiterConstants
    <3> QED
      BY <1>0, <3>1, WindowOf, ThisWindow
  <2>2. ASSUME NEW w \in Limiter!Windows, w >= time' \div Window
        PROVE  Balanced(w)'
    <3>1. w >= time \div Window
      BY <2>1, <2>2
    <3>2. shared[w].count <= shared'[w].count
          /\ \A p \in Servers : local[p][w].count <= local'[p][w].count
      BY <1>0, <1>1 DEF Limiter!LimiterTypeOK, Limiter!Entry
    <3> QED
      BY <1>0, <1>1, <3>1, <3>2, AccountKept
  <2> QED
    BY <2>2 DEF Accounted
<1>4. Limiter!LimitHolds'
  BY <1>0, <1>1 DEF Limiter!LimitHolds
<1> QED
  BY <1>2, <1>3, <1>4 DEF LimitInv

\* A counter that is lost had let through at most the limit.
LEMMA EvictLimit ==
  ASSUME Limiter!LimiterConstants, LimitInv, Limiter!LimiterTypeOK', KeyIsWindow', NEW k \in Limiter!Windows, Limiter!Evict(k)
  PROVE  LimitInv'
<1>0. Limiter!LimiterTypeOK /\ KeyIsWindow /\ Timely /\ Accounted /\ Limiter!LimitHolds
  BY DEF LimitInv
<1>1. /\ shared' = [shared EXCEPT ![k] = Limiter!NoCount] /\ lost' = lost + 1
      /\ UNCHANGED <<time, local, req, allowed, late>> /\ shared \in [Limiter!Windows -> Limiter!Entry]
  BY <1>0 DEF Limiter!Evict, Limiter!LimiterTypeOK
<1>2. shared'[k] = Limiter!NoCount /\ \A w \in Limiter!Windows \ {k} : shared'[w] = shared[w]
  BY <1>1
<1>3. Timely'
  <2>1. \A w \in Limiter!Windows : shared'[w].until \in {0, shared[w].until}
    BY <1>2 DEF Limiter!NoCount
  <2> QED
    BY <1>0, <1>1, <2>1, TimelyKept
<1>4. ASSUME NEW w \in Limiter!Windows, w >= time \div Window
      PROVE  Balanced(w)'
  <2>1. allowed[w] + Cardinality(Owed(w))
          <= late[w] + Limit * lost + Capped(shared[w].count) + Cardinality(Passed(w))
    BY <1>0, <1>4 DEF Accounted, Balanced
  <2>2. Owed(w)' = Owed(w) /\ Passed(w)' = Passed(w)
    BY <1>1 DEF Owed, Passed
  <2>3. /\ Cardinality(Owed(w)) \in Nat /\ Cardinality(Passed(w)) \in Nat
        /\ allowed[w] \in Nat /\ late[w] \in Nat /\ Limit * lost \in Nat /\ Limit \in Nat
        /\ Limit * lost' = Limit * lost + Limit
    BY <1>0, <1>1, PassedFinite, OneMoreLost DEF Limiter!LimiterTypeOK, Limiter!LimiterConstants
  <2>4. /\ Capped(shared[w].count) \in Nat /\ Capped(shared[w].count) <= Limit
        /\ Capped(shared'[w].count) \in Nat
    <3>1. shared[w].count \in Nat /\ shared'[w].count \in Nat
      BY <1>0 DEF Limiter!LimiterTypeOK, Limiter!Entry
    <3> QED
      BY <3>1, CappedOf
  <2> QED
    BY <1>1, <2>1, <2>2, <2>3, <2>4 DEF Balanced
<1>5. Accounted'
  BY <1>1, <1>4 DEF Accounted
<1>6. Limiter!LimitHolds'
  <2>1. lost' >= lost /\ \A w \in Limiter!Windows : allowed'[w] + late[w] <= allowed[w] + late'[w]
    BY <1>0, <1>1 DEF Limiter!LimiterTypeOK
  <2> QED
    BY <1>0, <1>1, <1>5, <2>1, HoldsKept
<1> QED
  BY <1>3, <1>5, <1>6 DEF LimitInv

\* So had the memory of a process that is restarted.
LEMMA RestartLimit ==
  ASSUME Limiter!LimiterConstants, LimitInv, Limiter!LimiterTypeOK', KeyIsWindow', NEW p \in Servers, Limiter!Restart(p)
  PROVE  LimitInv'
<1>0. Limiter!LimiterTypeOK /\ KeyIsWindow /\ Timely /\ Accounted /\ Limiter!LimitHolds
  BY DEF LimitInv
<1>1. /\ local' = [local EXCEPT ![p] = [w \in Limiter!Windows |-> Limiter!NoCount]] /\ lost' = lost + 1
      /\ UNCHANGED <<time, shared, allowed, late>> /\ local \in [Servers -> [Limiter!Windows -> Limiter!Entry]]
      /\ \A s \in Thread : req'[s] = req[s] \/ req'[s] = Limiter!Idle
  BY <1>0 DEF Limiter!Restart, Limiter!LimiterTypeOK
<1>2. /\ \A w \in Limiter!Windows : local'[p][w] = Limiter!NoCount
      /\ \A q \in Servers \ {p} : local'[q] = local[q]
  BY <1>1
<1>3. Timely'
  <2>1. \A q \in Servers : \A w \in Limiter!Windows :
          local'[q][w].count = 0 \/ local'[q][w] = local[q][w]
    BY <1>2 DEF Limiter!NoCount
  <2> QED
    BY <1>0, <1>1, <2>1, TimelyKept
<1>4. ASSUME NEW w \in Limiter!Windows, w >= time \div Window
      PROVE  Balanced(w)'
  <2>1. allowed[w] + Cardinality(Owed(w))
          <= late[w] + Limit * lost + Capped(shared[w].count) + Cardinality(Passed(w))
    BY <1>0, <1>4 DEF Accounted, Balanced
  <2>2. Cardinality(Owed(w)') \in Nat /\ Cardinality(Owed(w)) \in Nat
        /\ Cardinality(Owed(w)') <= Cardinality(Owed(w))
    <3>1. Owed(w)' \in SUBSET Owed(w)
      BY <1>1 DEF Owed, Limiter!Idle
    <3> QED
      BY <3>1, PassedFinite, Fewer
  <2>3. /\ allowed[w] \in Nat /\ late[w] \in Nat /\ Limit * lost \in Nat /\ Limit \in Nat
        /\ Limit * lost' = Limit * lost + Limit /\ shared[w].count \in Nat
    BY <1>0, <1>1, OneMoreLost DEF Limiter!LimiterTypeOK, Limiter!LimiterConstants, Limiter!Entry
  <2>4. Capped(shared[w].count) \in Nat
    BY <2>3, CappedOf
  <2>5. /\ IsFiniteSet(Passed(w)) /\ Cardinality(Passed(w)) \in Nat
        /\ IsFiniteSet(Passed(w)') /\ Cardinality(Passed(w)') \in Nat
    BY PassedFinite
  <2>6. Cardinality(Passed(w)) <= Cardinality(Passed(w)') + Limit
    <3> DEFINE own == {p} \X (1 .. Limit)
    <3>1. IsFiniteSet(own) /\ Cardinality(own) = Limit
      <4>1. 1 \in Int /\ Limit \in Int /\ 1 <= Limit
        BY DEF Limiter!LimiterConstants
      <4>2. IsFiniteSet(1 .. Limit) /\ Cardinality(1 .. Limit) = Limit
        BY <4>1, FS_Interval
      <4>3. IsFiniteSet({p}) /\ Cardinality({p}) = 1
        BY FS_Singleton
      <4>4. IsFiniteSet(own) /\ Cardinality(own) = 1 * Limit
        BY <4>2, <4>3, FS_Product
      <4> QED
        BY <4>1, <4>4
    <3>2. Passed(w) \in SUBSET (Passed(w)' \union own)
      <4>1. ASSUME NEW x \in Passed(w), x \notin own
            PROVE  x \in Passed(w)'
        <5>1. x \in Servers \X (1 .. Limit) /\ x[2] <= local[x[1]][w].count
              /\ x = <<x[1], x[2]>> /\ x[1] \in Servers /\ x[2] \in 1 .. Limit
          BY DEF Passed
        <5>2. x[1] # p
          BY <4>1, <5>1
        <5>3. x[2] <= local'[x[1]][w].count
          BY <1>2, <5>1, <5>2
        <5> QED
          BY <5>1, <5>3 DEF Passed
      <4> QED
        BY <4>1
    <3> HIDE DEF own
    <3>3. /\ IsFiniteSet(Passed(w)' \union own)
          /\ Cardinality(Passed(w)' \union own)
               = Cardinality(Passed(w)') + Cardinality(own) - Cardinality(Passed(w)' \cap own)
      BY <2>5, <3>1, FS_Union
    <3>4. Cardinality(Passed(w)' \cap own) \in Nat
      <4>1. (Passed(w)' \cap own) \in SUBSET own
        OBVIOUS
      <4> QED
        BY <3>1, <4>1, Fewer
    <3>5. Cardinality(Passed(w)) <= Cardinality(Passed(w)' \union own)
      BY <3>2, <3>3, Fewer
    <3> QED
      BY <2>3, <2>5, <3>1, <3>3, <3>4, <3>5
  <2> QED
    BY <1>1, <2>1, <2>2, <2>3, <2>4, <2>5, <2>6 DEF Balanced
<1>5. Accounted'
  BY <1>1, <1>4 DEF Accounted
<1>6. Limiter!LimitHolds'
  <2>1. lost' >= lost /\ \A w \in Limiter!Windows : allowed'[w] + late[w] <= allowed[w] + late'[w]
    BY <1>0, <1>1 DEF Limiter!LimiterTypeOK
  <2> QED
    BY <1>0, <1>1, <1>5, <2>1, HoldsKept
<1> QED
  BY <1>3, <1>5, <1>6 DEF LimitInv

\* At the start nothing has been let through.
LEMMA LimitInit ==
  ASSUME Limiter!LimiterConstants, Limiter!Init
  PROVE  LimitInv
<1>1. Limiter!LimiterTypeOK /\ KeyIsWindow
  BY RequestsInit DEF RequestInv
<1>2. /\ \A w \in Limiter!Windows : /\ allowed[w] = 0 /\ late[w] = 0 /\ shared[w] = Limiter!NoCount
                                    /\ \A p \in Servers : local[p][w] = Limiter!NoCount
      /\ lost = 0
  BY DEF Limiter!Init, Limiter!Zero
<1>3. Timely
  BY <1>2 DEF Timely, Limiter!NoCount
<1>4. \A w \in Limiter!Windows : Cardinality(Owed(w)) = 0
  <2>1. \A w \in Limiter!Windows : Owed(w) = {}
    BY DEF Limiter!Init, Owed, Limiter!Idle
  <2> QED
    BY <2>1, FS_EmptySet
<1>5. Accounted
  <2>1. ASSUME NEW w \in Limiter!Windows
        PROVE  Balanced(w)
    <3>1. allowed[w] = 0 /\ late[w] = 0 /\ lost = 0 /\ shared[w].count \in Nat
      BY <1>1, <1>2 DEF Limiter!LimiterTypeOK, Limiter!Entry
    <3>2. Capped(shared[w].count) \in Nat /\ Cardinality(Passed(w)) \in Nat
          /\ Limit * lost \in Nat
      BY <1>1, <3>1, CappedOf, PassedFinite, OneMoreLost
    <3> QED
      BY <1>4, <3>1, <3>2 DEF Balanced
  <2> QED
    BY <2>1 DEF Accounted
<1>6. Limiter!LimitHolds
  <2>1. Cardinality(Servers) \in Nat /\ Limit \in Nat
    BY FS_CardinalityType, SameCount DEF Limiter!LimiterConstants
  <2>2. Limit * (1 + Cardinality(Servers) + 0) \in Nat
    BY <2>1
  <2> QED
    BY <1>2, <2>2, SameCount DEF Limiter!LimitHolds
<1> QED
  BY <1>1, <1>3, <1>5, <1>6 DEF LimitInv

(***************************************************************************)
(* A window lets through at most the limit for each counter that counts    *)
(* for it, for any threads, processes, limit and window: the one in Redis, *)
(* the memory of each process, and those that replaced a lost one; checks  *)
(* that end after the window are counted apart. RateLimiter._increment.    *)
(***************************************************************************)
THEOREM LimiterLimits ==
  ASSUME Limiter!LimiterConstants
  PROVE  Limiter!Spec => []LimitHolds
<1>1. Limiter!Init => LimitInv /\ RequestInv
  BY LimitInit, RequestsInit
<1>2. RequestInv /\ [Limiter!Next]_(Limiter!limiterVars) => RequestInv'
  BY ArriveRequests, CheckRequests, OtherRequests DEF Limiter!Next
<1>3. LimitInv /\ RequestInv /\ RequestInv' /\ [Limiter!Next]_(Limiter!limiterVars) => LimitInv'
  <2> SUFFICES ASSUME LimitInv, RequestInv, RequestInv', [Limiter!Next]_(Limiter!limiterVars)
               PROVE  LimitInv'
    OBVIOUS
  <2>1. Limiter!LimiterTypeOK' /\ KeyIsWindow'
    BY DEF RequestInv
  <2>2. ASSUME NEW t \in Thread, Limiter!Check(t)
        PROVE  LimitInv'
    BY <2>1, <2>2, UnansweredLimit, IncrLimit, ExpireLimit, MemoryLimit DEF Limiter!Check
  <2>3. ASSUME NEW k \in Limiter!Windows, Limiter!Evict(k)
        PROVE  LimitInv'
    BY <2>1, <2>3, EvictLimit
  <2>4. ASSUME NEW p \in Servers, Limiter!Restart(p)
        PROVE  LimitInv'
    BY <2>1, <2>4, RestartLimit
  <2> QED
    BY <2>1, <2>2, <2>3, <2>4, ArriveLimit DEF Limiter!Next
<1>4. LimitInv => LimitHolds
  BY DEF LimitInv, LimitHolds
<1> QED
  BY <1>1, <1>2, <1>3, <1>4, PTL DEF Limiter!Spec

(* ---- No payload outlives its time to live -------------------------------- *)

\* A call takes its time, and builds its payload while it lasts.
CallsTimely ==
  \A c \in Caller : call[c].at # "idle" =>
    /\ call[c].now <= clock /\ clock <= call[c].now + MaxTaken
    /\ call[c].at \in {"set", "keep"} =>
         call[c].data \in Nat /\ call[c].now <= call[c].data /\ call[c].data <= clock

\* A payload is in memory from the end of the call that built it.
MemoryTimely ==
  \A p \in Cache!Process : memory[p].data # NoPayload =>
    memory[p].stored <= memory[p].data + MaxTaken

\* A payload leaves Redis a time to live, two calls and the rest of a second after it
\* was built.
RedisTimely ==
  redis.data # NoPayload => redis.until <= redis.data + Ttl + 2 * MaxTaken + Second - 1

CacheInv == Cache!CacheTypeOK /\ CallsTimely /\ MemoryTimely /\ RedisTimely

\* The invariant holds at the start.
LEMMA CacheInit ==
  ASSUME Cache!CacheConstants, Cache!Init
  PROVE  CacheInv
<1>1. NoPayload \in Cache!Payload
  BY DEF Cache!Payload
<1>2. Cache!CacheTypeOK
  BY <1>1 DEF Cache!Init, Cache!CacheTypeOK, Cache!CacheConstants, Cache!Empty, Cache!Quiet
<1>3. CallsTimely /\ MemoryTimely /\ RedisTimely
  BY DEF Cache!Init, Cache!Empty, Cache!Quiet, CallsTimely, MemoryTimely, RedisTimely
<1> QED
  BY <1>2, <1>3 DEF CacheInv

\* A step of a call changes that call only.
LEMMA CallStep ==
  ASSUME Cache!CacheTypeOK, CallsTimely, NEW c \in Caller, clock' = clock,
         NEW new \in [at : {"idle", "get", "look", "build", "set", "keep"},
                      now : Nat, data : Cache!Payload],
         call' = [call EXCEPT ![c] = new],
         new.at # "idle" =>
           /\ new.now <= clock /\ clock <= new.now + MaxTaken
           /\ new.at \in {"set", "keep"} =>
                new.data \in Nat /\ new.now <= new.data /\ new.data <= clock
  PROVE  /\ CallsTimely'
         /\ call' \in [Caller -> [at : {"idle", "get", "look", "build", "set", "keep"},
                                  now : Nat, data : Cache!Payload]]
<1>1. call \in [Caller -> [at : {"idle", "get", "look", "build", "set", "keep"},
                           now : Nat, data : Cache!Payload]]
  BY DEF Cache!CacheTypeOK
<1>2. call'[c] = new /\ \A d \in Caller \ {c} : call'[d] = call[d]
  BY <1>1
<1>3. CallsTimely'
  BY <1>2 DEF CallsTimely
<1> QED
  BY <1>1, <1>3

\* In whole seconds a time is longer by less than one.
LEMMA WholeIs ==
  ASSUME Cache!CacheConstants, NEW ttl \in Int, 1 <= ttl
  PROVE  Cache!Whole(ttl) \in Nat /\ Cache!Whole(ttl) <= ttl + Second - 1
<1>1. Second \in Nat \ {0}
  BY DEF Cache!CacheConstants
<1>2. CASE ttl < Second
  <2>1. Cache!Whole(ttl) = Second
    BY <1>2 DEF Cache!Whole
  <2> QED
    BY <1>1, <2>1
<1>3. CASE ~(ttl < Second)
  <2>1. Cache!Whole(ttl) = (ttl \div Second) * Second
    BY <1>3 DEF Cache!Whole
  <2>2. ttl \in Nat /\ ttl \div Second \in Nat
    BY <1>1
  <2>3. \A w \in Nat : w <= ttl \div Second => w * Second <= ttl
    BY <1>1, <2>2, WindowOf
  <2>4. (ttl \div Second) * Second \in Nat /\ (ttl \div Second) * Second <= ttl
    BY <1>1, <2>2, <2>3
  <2> QED
    BY <1>1, <2>1, <2>4
<1> QED
  BY <1>2, <1>3

\* What a call publishes leaves Redis in time.
LEMMA SetexTimely ==
  ASSUME Cache!CacheConstants, Cache!CacheTypeOK, RedisTimely,
         NEW data \in Cache!Payload, NEW ttl \in Int, Cache!Setex(data, ttl),
         data # NoPayload, 1 <= ttl, clock + ttl <= data + Ttl + 2 * MaxTaken
  PROVE  RedisTimely' /\ redis' \in [data : Cache!Payload, until : Nat]
<1> DEFINE until == clock + Cache!Whole(ttl)
<1>0. Cache!Whole(ttl) \in Nat /\ Cache!Whole(ttl) <= ttl + Second - 1
  BY WholeIs
<1>1. clock \in Nat /\ until \in Nat
  BY <1>0 DEF Cache!CacheTypeOK, Cache!CacheConstants
<1>2. redis' \in {redis, [data |-> data, until |-> until]}
  BY DEF Cache!Setex
<1>3. redis \in [data : Cache!Payload, until : Nat]
  BY DEF Cache!CacheTypeOK
<1>4. until <= data + Ttl + 2 * MaxTaken + Second - 1
  <2>1. /\ data \in Nat /\ Ttl \in Nat /\ MaxTaken \in Nat /\ Second \in Nat /\ clock \in Nat
    BY <1>1 DEF Cache!Payload, Cache!CacheConstants
  <2> QED
    BY <1>0, <2>1
<1> HIDE DEF until
<1>5. CASE redis' = redis
  BY <1>3, <1>5 DEF RedisTimely
<1>6. CASE redis' = [data |-> data, until |-> until]
  BY <1>1, <1>4, <1>6 DEF RedisTimely
<1> QED
  BY <1>2, <1>5, <1>6

\* Every step of a call keeps the invariant.
LEMMA CallInv ==
  ASSUME Cache!CacheConstants, CacheInv, NEW c \in Caller,
         \/ Cache!Begin(c) \/ Cache!Hit(c) \/ Cache!Miss(c) \/ Cache!Own(c) \/ Cache!Stale(c)
         \/ Cache!Build(c) \/ Cache!BuildFails(c) \/ Cache!Publish(c) \/ Cache!Keep(c)
  PROVE  CacheInv'
<1>0. Cache!CacheTypeOK /\ CallsTimely /\ MemoryTimely /\ RedisTimely
  BY DEF CacheInv
<1>1. /\ clock \in Nat /\ clock \in 0 .. MaxClock /\ redis \in [data : Cache!Payload, until : Nat]
      /\ memory \in [Cache!Process -> [data : Cache!Payload, stored : Nat]]
      /\ call \in [Caller -> [at : {"idle", "get", "look", "build", "set", "keep"},
                              now : Nat, data : Cache!Payload]]
      /\ MaxTaken \in Nat /\ MaxClock \in Nat /\ Ttl \in Nat \ {0}
  BY <1>0 DEF Cache!CacheTypeOK, Cache!CacheConstants
<1>2. PICK old \in [at : {"idle", "get", "look", "build", "set", "keep"},
                    now : Nat, data : Cache!Payload] : old = call[c]
  BY <1>1
<1>3. Cache!Quiet \in [at : {"idle", "get", "look", "build", "set", "keep"},
                       now : Nat, data : Cache!Payload]
  BY DEF Cache!Quiet, Cache!Payload
<1>4. Cache!Quiet.at = "idle"
  BY DEF Cache!Quiet
<1>5. Home[c] \in Cache!Process
  BY DEF Cache!Process
<1>6. old.at # "idle" =>
        /\ old.now <= clock /\ clock <= old.now + MaxTaken
        /\ old.at \in {"set", "keep"} =>
             old.data \in Nat /\ old.now <= old.data /\ old.data <= clock
  BY <1>0, <1>2 DEF CallsTimely
<1>7. ASSUME UNCHANGED <<clock, redis, memory>>,
             NEW new \in [at : {"idle", "get", "look", "build", "set", "keep"},
                          now : Nat, data : Cache!Payload],
             call' = [call EXCEPT ![c] = new],
             new.at # "idle" =>
               /\ new.now <= clock /\ clock <= new.now + MaxTaken
               /\ new.at \in {"set", "keep"} =>
                    new.data \in Nat /\ new.now <= new.data /\ new.data <= clock
      PROVE  CacheInv'
  <2>1. CallsTimely' /\ call' \in [Caller -> [at : {"idle", "get", "look", "build", "set", "keep"},
                                              now : Nat, data : Cache!Payload]]
    BY <1>0, <1>7, CallStep
  <2>2. Cache!CacheTypeOK' /\ MemoryTimely' /\ RedisTimely'
    BY <1>0, <1>7, <2>1 DEF Cache!CacheTypeOK, MemoryTimely, RedisTimely
  <2> QED
    BY <2>1, <2>2 DEF CacheInv
<1>8. ASSUME Cache!Return(c), UNCHANGED <<clock, redis, memory>>
      PROVE  CacheInv'
  <2>1. call' = [call EXCEPT ![c] = Cache!Quiet]
    BY <1>8 DEF Cache!Return
  <2> QED
    BY <1>3, <1>4, <1>7, <1>8, <2>1
<1>9. CASE Cache!Begin(c)
  <2>1. [at |-> IF c \in Forced THEN "build" ELSE "get", now |-> clock, data |-> NoPayload]
          \in [at : {"idle", "get", "look", "build", "set", "keep"},
               now : Nat, data : Cache!Payload]
    BY <1>1 DEF Cache!Payload
  <2>2. PICK new \in [at : {"idle", "get", "look", "build", "set", "keep"},
                      now : Nat, data : Cache!Payload] :
          /\ new.now = clock /\ new.at \notin {"set", "keep"}
          /\ call' = [call EXCEPT ![c] = new]
    BY <1>9, <2>1 DEF Cache!Begin
  <2>3. UNCHANGED <<clock, redis, memory>>
    BY <1>9 DEF Cache!Begin
  <2>4. clock <= clock /\ clock <= clock + MaxTaken
    BY <1>1
  <2> QED
    BY <1>7, <2>2, <2>3, <2>4
<1>10. CASE Cache!Hit(c) \/ Cache!BuildFails(c)
  BY <1>8, <1>10 DEF Cache!Hit, Cache!BuildFails
<1>11. CASE Cache!Miss(c) \/ Cache!Stale(c)
  <2>1. PICK new \in [at : {"idle", "get", "look", "build", "set", "keep"},
                      now : Nat, data : Cache!Payload] :
          /\ call' = [call EXCEPT ![c] = new] /\ new.now = old.now
          /\ new.at \in {"look", "build"} /\ old.at # "idle"
    <3>1. ASSUME NEW at \in {"look", "build"}
          PROVE  [call EXCEPT ![c].at = at] = [call EXCEPT ![c] = [old EXCEPT !.at = at]]
      BY <1>1, <1>2
    <3>2. \A at \in {"look", "build"} :
            /\ [old EXCEPT !.at = at] \in [at : {"idle", "get", "look", "build", "set", "keep"},
                                           now : Nat, data : Cache!Payload]
            /\ [old EXCEPT !.at = at].now = old.now /\ [old EXCEPT !.at = at].at = at
      OBVIOUS
    <3>3. PICK at \in {"look", "build"} : call' = [call EXCEPT ![c].at = at]
      BY <1>11 DEF Cache!Miss, Cache!Stale, Cache!GoOn
    <3>4. old.at # "idle"
      BY <1>2, <1>11 DEF Cache!Miss, Cache!Stale
    <3> QED
      BY <3>1, <3>2, <3>3, <3>4
  <2>2. UNCHANGED <<clock, redis, memory>>
    BY <1>11 DEF Cache!Miss, Cache!Stale
  <2> QED
    BY <1>6, <1>7, <2>1, <2>2
<1>12. CASE Cache!Build(c)
  <2>1. /\ old.at = "build" /\ UNCHANGED <<clock, redis, memory>>
        /\ call' = [call EXCEPT ![c] = [old EXCEPT !.at = "set", !.data = clock]]
    BY <1>1, <1>2, <1>12 DEF Cache!Build
  <2>2. /\ [old EXCEPT !.at = "set", !.data = clock]
             \in [at : {"idle", "get", "look", "build", "set", "keep"},
                  now : Nat, data : Cache!Payload]
        /\ [old EXCEPT !.at = "set", !.data = clock].now = old.now
        /\ [old EXCEPT !.at = "set", !.data = clock].data = clock
    BY <1>1 DEF Cache!Payload
  <2>3. PICK new \in [at : {"idle", "get", "look", "build", "set", "keep"},
                      now : Nat, data : Cache!Payload] :
          call' = [call EXCEPT ![c] = new] /\ new.now = old.now /\ new.data = clock
    BY <2>1, <2>2
  <2>4. new.now <= clock /\ clock <= new.now + MaxTaken /\ new.data \in Nat
        /\ new.now <= new.data /\ new.data <= clock
    BY <1>1, <1>6, <2>1, <2>3
  <2> QED
    BY <1>7, <2>1, <2>3, <2>4
<1>13. CASE Cache!Own(c)
  <2> DEFINE entry == memory[Home[c]]
  <2>1. /\ entry.data # NoPayload /\ old.now - entry.stored < Ttl /\ old.at = "look"
        /\ Cache!Setex(entry.data, Ttl - (old.now - entry.stored))
        /\ Cache!Return(c) /\ UNCHANGED <<clock, memory>>
    BY <1>2, <1>13 DEF Cache!Own, Cache!Kept, Cache!Remaining
  <2>2. entry.data \in Nat /\ entry.stored \in Nat /\ entry.stored <= entry.data + MaxTaken
        /\ entry.data \in Cache!Payload
    BY <1>0, <1>1, <1>5, <2>1 DEF Cache!Payload, MemoryTimely
  <2>3. old.now \in Nat /\ clock <= old.now + MaxTaken
    BY <1>6, <2>1
  <2> HIDE DEF entry
  <2>4. clock + (Ttl - (old.now - entry.stored)) <= entry.data + Ttl + 2 * MaxTaken
        /\ Ttl - (old.now - entry.stored) \in Int /\ 1 <= Ttl - (old.now - entry.stored)
    BY <1>1, <2>1, <2>2, <2>3
  <2>5. RedisTimely' /\ redis' \in [data : Cache!Payload, until : Nat]
    BY <1>0, <2>1, <2>2, <2>4, SetexTimely
  <2>6. CallsTimely' /\ call' \in [Caller -> [at : {"idle", "get", "look", "build", "set", "keep"},
                                              now : Nat, data : Cache!Payload]]
    BY <1>0, <1>3, <1>4, <2>1, CallStep DEF Cache!Return
  <2>7. Cache!CacheTypeOK' /\ MemoryTimely'
    BY <1>0, <1>1, <2>1, <2>5, <2>6 DEF Cache!CacheTypeOK, MemoryTimely
  <2> QED
    BY <2>5, <2>6, <2>7 DEF CacheInv
<1>14. CASE Cache!Publish(c)
  <2>1. /\ old.at = "set" /\ Cache!Setex(old.data, Ttl) /\ UNCHANGED <<clock, memory>>
        /\ call' = [call EXCEPT ![c] = [old EXCEPT !.at = "keep"]]
    BY <1>1, <1>2, <1>14 DEF Cache!Publish, Cache!GoOn
  <2>2. /\ [old EXCEPT !.at = "keep"]
             \in [at : {"idle", "get", "look", "build", "set", "keep"},
                  now : Nat, data : Cache!Payload]
        /\ [old EXCEPT !.at = "keep"].now = old.now
        /\ [old EXCEPT !.at = "keep"].data = old.data
    OBVIOUS
  <2>3. /\ old.now <= clock /\ clock <= old.now + MaxTaken /\ old.now \in Nat
        /\ old.data \in Nat /\ old.now <= old.data /\ old.data <= clock
    BY <1>6, <2>1
  <2>4. /\ clock + Ttl <= old.data + Ttl + 2 * MaxTaken /\ 1 <= Ttl /\ Ttl \in Int
        /\ old.data # NoPayload /\ old.data \in Cache!Payload
    BY <1>1, <2>3 DEF Cache!CacheConstants
  <2>5. RedisTimely' /\ redis' \in [data : Cache!Payload, until : Nat]
    BY <1>0, <2>1, <2>4, SetexTimely
  <2>6. CallsTimely' /\ call' \in [Caller -> [at : {"idle", "get", "look", "build", "set", "keep"},
                                              now : Nat, data : Cache!Payload]]
    BY <1>0, <2>1, <2>2, <2>3, CallStep
  <2>7. Cache!CacheTypeOK' /\ MemoryTimely'
    BY <1>0, <1>1, <2>1, <2>5, <2>6 DEF Cache!CacheTypeOK, MemoryTimely
  <2> QED
    BY <2>5, <2>6, <2>7 DEF CacheInv
<1>15. CASE Cache!Keep(c)
  <2>1. /\ old.at = "keep" /\ UNCHANGED <<clock, redis>> /\ Cache!Return(c)
        /\ memory' = [memory EXCEPT ![Home[c]] = [data |-> old.data, stored |-> clock]]
    BY <1>2, <1>15 DEF Cache!Keep
  <2>2. /\ old.now <= clock /\ clock <= old.now + MaxTaken /\ old.now \in Nat
        /\ old.data \in Nat /\ old.now <= old.data
    BY <1>6, <2>1
  <2>3. clock <= old.data + MaxTaken
    BY <1>1, <2>2
  <2>4. MemoryTimely' /\ memory' \in [Cache!Process -> [data : Cache!Payload, stored : Nat]]
    <3>1. [data |-> old.data, stored |-> clock] \in [data : Cache!Payload, stored : Nat]
      BY <1>1
    <3>2. /\ memory'[Home[c]] = [data |-> old.data, stored |-> clock]
          /\ \A p \in Cache!Process \ {Home[c]} : memory'[p] = memory[p]
      BY <1>1, <1>5, <2>1
    <3>3. MemoryTimely'
      BY <1>0, <2>3, <3>2 DEF MemoryTimely, Cache!Process
    <3> QED
      BY <1>1, <2>1, <3>1, <3>3
  <2>5. CallsTimely' /\ call' \in [Caller -> [at : {"idle", "get", "look", "build", "set", "keep"},
                                              now : Nat, data : Cache!Payload]]
    BY <1>0, <1>3, <1>4, <2>1, CallStep DEF Cache!Return
  <2>6. Cache!CacheTypeOK' /\ RedisTimely'
    BY <1>0, <1>1, <2>1, <2>4, <2>5 DEF Cache!CacheTypeOK, RedisTimely
  <2> QED
    BY <2>4, <2>5, <2>6 DEF CacheInv
<1> QED
  BY <1>9, <1>10, <1>11, <1>12, <1>13, <1>14, <1>15

\* So does time, which waits for the calls that take long.
LEMMA TickInv ==
  ASSUME Cache!CacheConstants, CacheInv, Cache!Tick \/ UNCHANGED Cache!cacheVars
  PROVE  CacheInv'
<1>0. Cache!CacheTypeOK /\ CallsTimely /\ MemoryTimely /\ RedisTimely
  BY DEF CacheInv
<1>1. CASE UNCHANGED Cache!cacheVars
  BY <1>0, <1>1
  DEF Cache!cacheVars, CacheInv, Cache!CacheTypeOK, CallsTimely, MemoryTimely, RedisTimely
<1>2. CASE Cache!Tick
  <2>0. clock \in Nat /\ MaxClock \in Nat
    BY <1>0 DEF Cache!CacheTypeOK, Cache!CacheConstants
  <2>1. /\ clock' \in 0 .. MaxClock /\ clock <= clock' /\ UNCHANGED <<redis, memory, call>>
        /\ \A c \in Caller : call[c] # Cache!Quiet => clock' <= call[c].now + MaxTaken
    BY <1>2, <2>0 DEF Cache!Tick
  <2>2. Cache!CacheTypeOK'
    BY <1>0, <2>1 DEF Cache!CacheTypeOK, Cache!CacheConstants
  <2>3. CallsTimely'
    <3>1. ASSUME NEW c \in Caller, call[c].at # "idle"
          PROVE  /\ call[c].now <= clock' /\ clock' <= call[c].now + MaxTaken
                 /\ call[c].at \in {"set", "keep"} =>
                      call[c].data \in Nat /\ call[c].now <= call[c].data
                        /\ call[c].data <= clock'
      <4>1. call[c] # Cache!Quiet
        BY <3>1 DEF Cache!Quiet
      <4>2. clock \in Nat /\ clock' \in Nat /\ clock <= clock' /\ call[c].now \in Nat
            /\ MaxTaken \in Nat
        BY <1>0, <2>0, <2>1 DEF Cache!CacheTypeOK, Cache!CacheConstants
      <4>3. /\ call[c].now <= clock
            /\ call[c].at \in {"set", "keep"} =>
                 call[c].data \in Nat /\ call[c].now <= call[c].data /\ call[c].data <= clock
        BY <1>0, <3>1 DEF CallsTimely
      <4>4. clock' <= call[c].now + MaxTaken
        BY <2>1, <4>1
      <4> QED
        BY <4>2, <4>3, <4>4
    <3> QED
      BY <2>1, <3>1 DEF CallsTimely
  <2>4. MemoryTimely' /\ RedisTimely'
    BY <1>0, <2>1 DEF MemoryTimely, RedisTimely
  <2> QED
    BY <2>2, <2>3, <2>4 DEF CacheInv
<1> QED
  BY <1>1, <1>2

\* The invariant bounds what a call may return.
LEMMA CacheBounded ==
  ASSUME Cache!CacheConstants, CacheInv
  PROVE  Cache!PayloadAge
<1>0. Cache!CacheTypeOK /\ CallsTimely /\ MemoryTimely /\ RedisTimely
  BY DEF CacheInv
<1>1. clock \in Nat /\ MaxTaken \in Nat /\ Ttl \in Nat \ {0} /\ Second \in Nat \ {0}
  BY <1>0 DEF Cache!CacheTypeOK, Cache!CacheConstants
<1>2. ASSUME NEW c \in Caller, NEW data \in Cache!Offered(c)
      PROVE  clock - data < Ttl + 2 * MaxTaken + Second - 1
  <2>1. CASE Cache!InRedis /\ data = redis.data
    <3>1. data \in Nat /\ redis.until \in Nat /\ clock < redis.until
          /\ redis.until <= data + Ttl + 2 * MaxTaken + Second - 1
      BY <1>0, <2>1 DEF Cache!InRedis, Cache!CacheTypeOK, Cache!Payload, RedisTimely
    <3> QED
      BY <1>1, <3>1
  <2>2. CASE call[c].at = "look" /\ Cache!Kept(c) /\ data = memory[Home[c]].data
    <3>1. /\ data \in Nat /\ memory[Home[c]].stored \in Nat
          /\ memory[Home[c]].stored <= data + MaxTaken
          /\ call[c].now - memory[Home[c]].stored < Ttl
      <4>1. Home[c] \in Cache!Process
        BY DEF Cache!Process
      <4>2. data # NoPayload /\ call[c].now - memory[Home[c]].stored < Ttl
        BY <2>2 DEF Cache!Kept
      <4> QED
        BY <1>0, <2>2, <4>1, <4>2 DEF Cache!CacheTypeOK, Cache!Payload, MemoryTimely
    <3>2. call[c].now \in Nat /\ clock <= call[c].now + MaxTaken
      BY <1>0, <2>2 DEF Cache!CacheTypeOK, CallsTimely
    <3>3. clock < data + Ttl + 2 * MaxTaken
      BY <1>1, <3>1, <3>2
    <3> QED
      BY <1>1, <3>1, <3>3
  <2>3. CASE call[c].at = "keep" /\ data = call[c].data
    <3>1. /\ call[c].now \in Nat /\ clock <= call[c].now + MaxTaken
          /\ data \in Nat /\ call[c].now <= data
      BY <1>0, <2>3 DEF Cache!CacheTypeOK, CallsTimely
    <3>2. clock <= data + MaxTaken
      BY <1>1, <3>1
    <3>3. clock < data + Ttl + 2 * MaxTaken
      BY <1>1, <3>1, <3>2
    <3> QED
      BY <1>1, <3>1, <3>3
  <2> QED
    BY <2>1, <2>2, <2>3 DEF Cache!Offered
<1> QED
  BY <1>2 DEF Cache!PayloadAge

(***************************************************************************)
(* What the dashboard serves was read from the database less than a time   *)
(* to live, two calls and the rest of a second ago, for any callers,       *)
(* processes and times to live, though payloads go from memory back to     *)
(* Redis: _cached_dashboard_payload.                                       *)
(***************************************************************************)
THEOREM PayloadsFresh ==
  ASSUME Cache!CacheConstants
  PROVE  Cache!Spec => []PayloadAge
<1>1. Cache!Init => CacheInv
  BY CacheInit
<1>2. CacheInv /\ [Cache!Next]_(Cache!cacheVars) => CacheInv'
  BY CallInv, TickInv DEF Cache!Next
<1>3. CacheInv => PayloadAge
  BY CacheBounded DEF PayloadAge
<1> QED
  BY <1>1, <1>2, <1>3, PTL DEF Cache!Spec

(* ---- The health panel vouches for its jobs ------------------------------- *)

\* A heartbeat of a job that is known to have done something since.
Left(c, b) ==
  b # Absent => /\ b \in Health!Beat /\ (b.success # Absent => b.success <= b.at)
                /\ alive[c] \in Nat /\ b.at <= alive[c]

\* A job was alive when it sent its heartbeat, and an error is what it sent last.
BeatsKnown ==
  /\ today \in Nat /\ beat \in [Health!Component -> Health!Beat \union {Absent}]
  /\ alive \in [Health!Component -> Nat \union {Absent}]
  /\ \A c \in Health!Component :
       /\ Left(c, beat[c]) /\ (alive[c] # Absent => alive[c] <= today)
       /\ c \in broken => beat[c] # Absent /\ beat[c].status = "error"

\* The panel has read heartbeats that were there, and vouches for what it shows.
Status == {"healthy", "stale", "empty", "error"}
Source == {"none", "request", "storage", "heartbeat", "db"}

PanelKnown ==
  /\ panel.at \in {"idle", "asked", "reading"}
  /\ panel.at # "idle" => panel.now \in Nat /\ panel.now <= today
  /\ panel.at = "reading" =>
       /\ panel = [at |-> "reading", now |-> panel.now, beats |-> panel.beats,
                   dead |-> panel.dead, shown |-> panel.shown]
       /\ panel.shown \in Seq([status : Status, source : Source])
       /\ \A c \in Health!Component :
            /\ Left(c, panel.beats[c])
            /\ c \in panel.dead /\ panel.beats[c] # Absent => panel.beats[c].status = "error"
       /\ \A i \in DOMAIN panel.shown :
            i \in 2 .. Len(Jobs) + 1 /\ panel.shown[i].status = "healthy" => Health!Vouched(i)

HealthInv == BeatsKnown /\ PanelKnown

\* The components of the panel are jobs.
LEMMA ComponentOf ==
  ASSUME Health!HealthConstants
  PROVE  /\ Len(Jobs) \in Nat
         /\ \A i \in 2 .. Len(Jobs) + 1 : Jobs[i - 1] \in Health!Component
<1>1. Jobs \in Seq(Health!Component) /\ Len(Jobs) \in Nat
  BY DEF Health!HealthConstants
<1>2. ASSUME NEW i \in 2 .. Len(Jobs) + 1
      PROVE  Jobs[i - 1] \in Health!Component
  <2>1. i - 1 \in 1 .. Len(Jobs)
    BY <1>1, <1>2
  <2> QED
    BY <1>1, <2>1
<1> QED
  BY <1>1, <1>2

\* Nothing that jobs do shakes what the panel vouches for: signs of life only grow.
LEMMA PanelStays ==
  ASSUME Health!HealthConstants, BeatsKnown, PanelKnown, panel' = panel,
         today' \in Nat, today <= today',
         \A c \in Health!Component :
           alive[c] \in Nat => alive'[c] \in Nat /\ alive[c] <= alive'[c]
  PROVE  PanelKnown'
<1>1. ASSUME NEW c \in Health!Component, NEW b, Left(c, b)
      PROVE  Left(c, b)'
  BY <1>1 DEF Left, Health!Beat
<1>2. today \in Nat
  BY DEF BeatsKnown
<1>3. panel.at # "idle" => panel.now \in Nat /\ panel.now <= today'
  BY <1>2 DEF PanelKnown
<1>4. ASSUME NEW i \in 2 .. Len(Jobs) + 1, panel.at = "reading", Health!Vouched(i)
      PROVE  Health!Vouched(i)'
  <2>1. Jobs[i - 1] \in Health!Component
    BY ComponentOf
  <2>2. panel.now \in Nat /\ StaleAfter[Jobs[i - 1]] \in Nat
    BY <1>4, <2>1 DEF PanelKnown, Health!HealthConstants
  <2>3. alive \in [Health!Component -> Nat \union {Absent}] /\ Absent \notin Nat
    BY DEF BeatsKnown, Health!HealthConstants
  <2> QED
    BY <1>4, <2>1, <2>2, <2>3 DEF Health!Vouched
<1> QED
  BY <1>1, <1>3, <1>4 DEF PanelKnown

\* A report leaves the last success in place, unless it is one itself.
LEMMA ReportOf ==
  ASSUME Health!HealthConstants, BeatsKnown, NEW c \in Health!Component,
         NEW status \in {"starting", "running", "healthy", "error"},
         NEW count \in Int \union {Absent}
  PROVE  LET b == Health!Report(c, status, count)
         IN /\ b \in Health!Beat /\ b.at = today /\ b.status = status /\ b # Absent
            /\ b.success # Absent => b.success <= today
<1> DEFINE b == Health!Report(c, status, count)
           won == IF status = "healthy" THEN today ELSE Absent
<1>1. today \in Nat /\ Absent \notin Int /\ beat[c] \in Health!Beat \union {Absent}
  BY DEF BeatsKnown, Health!HealthConstants
<1>2. beat[c] # Absent => (beat[c].success # Absent => beat[c].success <= today)
  <2>1. Left(c, beat[c]) /\ (alive[c] # Absent => alive[c] <= today)
    BY DEF BeatsKnown
  <2> QED
    BY <1>1, <2>1 DEF Left, Health!Beat
<1>3. Health!Kept(c, "count", count) \in Int \union {Absent}
  <2>1. beat[c] # Absent => beat[c]["count"] \in Int \union {Absent}
    BY <1>1 DEF Health!Beat
  <2> QED
    BY <2>1 DEF Health!Kept
<1>4. /\ Health!Kept(c, "success", won) \in Nat \union {Absent}
      /\ Health!Kept(c, "success", won) # Absent => Health!Kept(c, "success", won) <= today
  <2>1. beat[c] # Absent => /\ beat[c]["success"] \in Nat \union {Absent}
                            /\ beat[c]["success"] # Absent => beat[c]["success"] <= today
    BY <1>1, <1>2 DEF Health!Beat
  <2>2. won \in Nat \union {Absent} /\ (won # Absent => won <= today)
    BY <1>1
  <2> HIDE DEF won
  <2> QED
    BY <2>1, <2>2 DEF Health!Kept
<1>5. b = [status |-> status, at |-> today, count |-> Health!Kept(c, "count", count),
           success |-> Health!Kept(c, "success", won)]
  BY DEF Health!Report
<1> HIDE DEF b, won
<1>6. b \in Health!Beat /\ b.at = today /\ b.status = status
      /\ b.success = Health!Kept(c, "success", won)
  BY <1>1, <1>3, <1>4, <1>5 DEF Health!Beat
<1>7. b # Absent
  BY <1>6 DEF Health!HealthConstants
<1> QED
  BY <1>4, <1>6, <1>7 DEF b

\* A report that arrives, or is lost, leaves what is known of heartbeats true.
LEMMA SendKnown ==
  ASSUME Health!HealthConstants, HealthInv, NEW c \in Health!Component,
         NEW status \in {"starting", "running", "healthy", "error"},
         NEW count \in Int \union {Absent},
         Health!Send(c, status, count), today' = today, panel' = panel
  PROVE  HealthInv'
<1>0. BeatsKnown /\ PanelKnown
  BY DEF HealthInv
<1>1. /\ today \in Nat /\ beat \in [Health!Component -> Health!Beat \union {Absent}]
      /\ alive \in [Health!Component -> Nat \union {Absent}] /\ Absent \notin Int
      /\ Absent \notin Health!Beat
  BY <1>0 DEF BeatsKnown, Health!HealthConstants
<1>2. /\ alive' = [alive EXCEPT ![c] = today]
      /\ \/ /\ beat' = [beat EXCEPT ![c] = Health!Report(c, status, count)]
            /\ broken' = IF status = "error" THEN broken \union {c} ELSE broken \ {c}
         \/ beat' = beat /\ broken' = broken
  BY DEF Health!Send
<1>3. alive'[c] = today /\ \A d \in Health!Component \ {c} : alive'[d] = alive[d]
  BY <1>1, <1>2
<1>4. \A d \in Health!Component : Left(d, beat[d]) /\ (alive[d] # Absent => alive[d] <= today)
  BY <1>0 DEF BeatsKnown
<1>5. \A d \in Health!Component :
        alive[d] \in Nat => alive'[d] \in Nat /\ alive[d] <= alive'[d]
  BY <1>1, <1>3, <1>4
<1>6. PanelKnown'
  <2>1. today' \in Nat /\ today <= today'
    BY <1>1
  <2> QED
    BY <1>0, <1>5, <2>1, PanelStays
<1>7. alive' \in [Health!Component -> Nat \union {Absent}]
  BY <1>1, <1>2
<1>8. ASSUME NEW d \in Health!Component
      PROVE  alive'[d] # Absent => alive'[d] <= today
  BY <1>1, <1>3, <1>4
<1>9. PICK b \in Health!Beat :
        /\ b = Health!Report(c, status, count) /\ b.at = today /\ b.status = status
        /\ b.success # Absent => b.success <= today
  BY <1>0, ReportOf
<1>10. beat' \in [Health!Component -> Health!Beat \union {Absent}]
  BY <1>1, <1>2, <1>9
<1>11. ASSUME NEW d \in Health!Component
       PROVE  Left(d, beat[d])'
  <2>1. CASE beat'[d] = beat[d]
    BY <1>1, <1>4, <1>5, <2>1 DEF Left, Health!Beat
  <2>2. CASE beat'[d] # beat[d]
    <3>1. d = c /\ beat'[d] = b
      BY <1>1, <1>2, <1>9, <2>2
    <3> QED
      BY <1>1, <1>3, <1>9, <3>1 DEF Left
  <2> QED
    BY <2>1, <2>2
<1>12. ASSUME NEW d \in Health!Component, d \in broken'
       PROVE  beat'[d] # Absent /\ beat'[d].status = "error"
  <2>1. d \in broken => beat[d] # Absent /\ beat[d].status = "error"
    BY <1>0 DEF BeatsKnown
  <2>2. CASE beat' = beat /\ broken' = broken
    BY <1>12, <2>1, <2>2
  <2>3. CASE /\ beat' = [beat EXCEPT ![c] = b]
             /\ broken' = IF status = "error" THEN broken \union {c} ELSE broken \ {c}
    <3>1. CASE d = c
      <4>1. status = "error" /\ beat'[d] = b
        BY <1>1, <1>12, <2>3, <3>1
      <4> QED
        BY <1>1, <1>9, <4>1
    <3>2. CASE d # c
      <4>1. d \in broken /\ beat'[d] = beat[d]
        BY <1>1, <1>12, <2>3, <3>2
      <4> QED
        BY <2>1, <4>1
    <3> QED
      BY <3>1, <3>2
  <2> QED
    BY <1>2, <1>9, <2>2, <2>3
<1>13. BeatsKnown'
  BY <1>1, <1>7, <1>8, <1>10, <1>11, <1>12 DEF BeatsKnown
<1> QED
  BY <1>6, <1>13 DEF HealthInv

\* What jobs and other writers do leaves the panel honest, and so does time.
LEMMA JobsKnown ==
  ASSUME Health!HealthConstants, HealthInv,
         \/ \E c \in Health!Component :
              \/ Health!Start(c) \/ Health!Progress(c) \/ Health!Succeed(c)
              \/ Health!Fail(c) \/ Health!Die(c) \/ Health!Write(c)
         \/ Health!Tick
  PROVE  HealthInv'
<1>0. BeatsKnown /\ PanelKnown
  BY DEF HealthInv
<1>1. 0 .. MaxCount \subseteq Int
  OBVIOUS
<1>2. ASSUME NEW c \in Health!Component, Health!Start(c)
      PROVE  HealthInv'
  <2>1. Health!Send(c, "starting", Absent) /\ today' = today /\ panel' = panel
    BY <1>2 DEF Health!Start
  <2> QED
    BY <2>1, SendKnown
<1>3. ASSUME NEW c \in Health!Component, Health!Progress(c)
      PROVE  HealthInv'
  <2>1. PICK n \in {Absent} \union 0 .. MaxCount : Health!Send(c, "running", n)
    BY <1>3 DEF Health!Progress
  <2>2. n \in Int \union {Absent} /\ today' = today /\ panel' = panel
    BY <1>1, <1>3, <2>1 DEF Health!Progress
  <2> QED
    BY <2>1, <2>2, SendKnown
<1>4. ASSUME NEW c \in Health!Component, Health!Succeed(c)
      PROVE  HealthInv'
  <2>1. PICK n \in 0 .. MaxCount : Health!Send(c, "healthy", n)
    BY <1>4 DEF Health!Succeed
  <2>2. n \in Int \union {Absent} /\ today' = today /\ panel' = panel
    BY <1>1, <1>4, <2>1 DEF Health!Succeed
  <2> QED
    BY <2>1, <2>2, SendKnown
<1>5. ASSUME NEW c \in Health!Component, Health!Fail(c)
      PROVE  HealthInv'
  <2>1. Health!Send(c, "error", Absent) /\ today' = today /\ panel' = panel
    BY <1>5 DEF Health!Fail
  <2> QED
    BY <2>1, SendKnown
<1>6. ASSUME UNCHANGED <<beat, panel, alive, broken>>, today' \in {today, today + 1}
      PROVE  HealthInv'
  <2>1. today \in Nat /\ today' \in Nat /\ today <= today'
    BY <1>0, <1>6 DEF BeatsKnown
  <2>2. \A c \in Health!Component :
          /\ alive[c] \in Nat => alive'[c] \in Nat /\ alive[c] <= alive'[c]
          /\ alive'[c] # Absent => alive'[c] <= today'
          /\ Left(c, beat[c])'
    <3>1. ASSUME NEW c \in Health!Component
          PROVE  /\ alive[c] \in Nat => alive'[c] \in Nat /\ alive[c] <= alive'[c]
                 /\ alive'[c] # Absent => alive'[c] <= today'
      BY <1>0, <1>6, <2>1 DEF BeatsKnown
    <3>2. ASSUME NEW c \in Health!Component
          PROVE  Left(c, beat[c])'
      BY <1>0, <1>6 DEF BeatsKnown, Left
    <3> QED
      BY <3>1, <3>2
  <2>3. PanelKnown'
    BY <1>0, <1>6, <2>1, <2>2, PanelStays
  <2>4. BeatsKnown'
    BY <1>0, <1>6, <2>1, <2>2 DEF BeatsKnown
  <2> QED
    BY <2>3, <2>4 DEF HealthInv
<1>7. ASSUME NEW c \in Health!Component, Health!Die(c) \/ Health!Write(c)
      PROVE  HealthInv'
  BY <1>6, <1>7 DEF Health!Die, Health!Write
<1>8. CASE Health!Tick
  BY <1>6, <1>8 DEF Health!Tick
<1> QED
  BY <1>2, <1>3, <1>4, <1>5, <1>7, <1>8

\* A heartbeat that makes its component healthy is recent enough, and no error.
LEMMA FreshHeartbeat ==
  ASSUME Health!HealthConstants, PanelKnown, panel.at = "reading",
         NEW c \in Health!Component, panel.beats[c] # Absent
  PROVE  /\ Health!FromHeartbeat(c, panel.beats[c]) \in Status
         /\ Health!FromHeartbeat(c, panel.beats[c]) = "healthy"
              => /\ alive[c] \in Nat /\ alive[c] >= panel.now - StaleAfter[c]
                 /\ c \notin panel.dead
<1>1. PICK b \in Health!Beat :
        /\ b = panel.beats[c] /\ alive[c] \in Nat /\ b.at <= alive[c]
        /\ b.success # Absent => b.success <= b.at
        /\ c \in panel.dead => b.status = "error"
  BY DEF PanelKnown, Left
<1>2. panel.now \in Nat /\ StaleAfter[c] \in Nat /\ Absent \notin Int
  BY DEF PanelKnown, Health!HealthConstants
<1>3. b.at \in Nat /\ b.success \in Nat \union {Absent}
  BY <1>1 DEF Health!Beat
<1>4. PICK latest \in Nat : latest = Health!Later(b.at, b.success) /\ latest <= alive[c]
  <2>1. Health!Later(b.at, b.success) = b.at
    BY <1>1, <1>2, <1>3 DEF Health!Later
  <2> QED
    BY <1>1, <1>3, <2>1
<1>5. ASSUME NEW n, Health!Freshness(c, latest, n) = "healthy"
      PROVE  alive[c] >= panel.now - StaleAfter[c]
  <2>1. ~(Health!Age(latest) > StaleAfter[c])
    BY <1>5 DEF Health!Freshness
  <2>2. latest > panel.now \/ panel.now - latest <= StaleAfter[c]
    BY <1>2, <1>4, <2>1 DEF Health!Age
  <2> QED
    BY <1>1, <1>2, <1>4, <2>2
<1>6. \A n : Health!Freshness(c, latest, n) \in Status
  BY DEF Health!Freshness, Status
<1>7. \/ /\ b.status = "error" /\ Health!FromHeartbeat(c, b) = "error"
      \/ /\ b.status # "error"
         /\ Health!FromHeartbeat(c, b) =
              Health!Freshness(c, latest, Health!ZeroUncounted(c, b.count))
  BY <1>4 DEF Health!FromHeartbeat
<1>8. CASE b.status = "error" /\ Health!FromHeartbeat(c, b) = "error"
  BY <1>1, <1>8 DEF Status
<1>9. CASE /\ b.status # "error"
           /\ Health!FromHeartbeat(c, b) =
                Health!Freshness(c, latest, Health!ZeroUncounted(c, b.count))
  BY <1>1, <1>5, <1>6, <1>9
<1> QED
  BY <1>1, <1>7, <1>8, <1>9

\* What the panel may show of component i.
LEMMA ShownVouched ==
  ASSUME Health!HealthConstants, PanelKnown, panel.at = "reading",
         NEW i \in 1 .. Len(Jobs) + 2, NEW s \in Health!MayShow(i)
  PROVE  /\ s \in [status : Status, source : Source]
         /\ i \in 2 .. Len(Jobs) + 1 /\ s.status = "healthy" /\ s.source = "heartbeat"
              => LET c == Jobs[i - 1]
                 IN /\ alive[c] # Absent /\ alive[c] >= panel.now - StaleAfter[c]
                    /\ c \notin panel.dead
<1>0. Len(Jobs) \in Nat /\ Absent \notin Int
      /\ Measured \subseteq {"healthy", "stale", "empty", "error"}
  BY ComponentOf DEF Health!HealthConstants
<1>1. CASE s = [status |-> "error", source |-> "none"]
  BY <1>1 DEF Status, Source
<1>2. CASE i = 1 /\ s = [status |-> "healthy", source |-> "request"]
  BY <1>0, <1>2 DEF Status, Source
<1>3. CASE i = Len(Jobs) + 2 /\ s \in [status : Measured, source : {"storage"}]
  <2>1. s \in [status : Status, source : Source]
    BY <1>0, <1>3 DEF Status, Source
  <2>2. i \notin 2 .. Len(Jobs) + 1
    BY <1>0, <1>3
  <2> QED
    BY <2>1, <2>2
<1>4. CASE i \in 2 .. Len(Jobs) + 1 /\ s = Health!Shown(Jobs[i - 1])
  <2>1. PICK c \in Health!Component : c = Jobs[i - 1]
    BY <1>4, ComponentOf
  <2>2. CASE panel.beats[c] # Absent
    <3>1. s = [status |-> Health!FromHeartbeat(c, panel.beats[c]), source |-> "heartbeat"]
      BY <1>4, <2>1, <2>2 DEF Health!Shown
    <3>2. /\ Health!FromHeartbeat(c, panel.beats[c]) \in Status
          /\ Health!FromHeartbeat(c, panel.beats[c]) = "healthy"
               => /\ alive[c] \in Nat /\ alive[c] >= panel.now - StaleAfter[c]
                  /\ c \notin panel.dead
      BY <2>2, FreshHeartbeat
    <3>3. s \in [status : Status, source : Source]
      BY <3>1, <3>2 DEF Source
    <3> QED
      BY <1>0, <2>1, <3>1, <3>2, <3>3
  <2>3. CASE panel.beats[c] = Absent
    <3>1. s = [status |-> Health!Freshness(c, stored[c].at,
                                           Health!ZeroUncounted(c, stored[c].count)),
               source |-> "db"]
      BY <1>4, <2>1, <2>3 DEF Health!Shown
    <3>2. Health!Freshness(c, stored[c].at, Health!ZeroUncounted(c, stored[c].count)) \in Status
      BY DEF Health!Freshness, Status
    <3>3. s \in [status : Status, source : Source] /\ s.source = "db"
      BY <3>1, <3>2 DEF Source
    <3> QED
      BY <3>3
  <2> QED
    BY <2>2, <2>3
<1> QED
  <2>1. i = 1 \/ i = Len(Jobs) + 2 \/ i \in 2 .. Len(Jobs) + 1
    BY <1>0
  <2>2. i \in 2 .. Len(Jobs) + 1 => i # 1 /\ i # Len(Jobs) + 2
    BY <1>0
  <2> QED
    BY <1>1, <1>2, <1>3, <1>4, <2>1, <2>2 DEF Health!MayShow

\* The panel keeps what it vouches for: it reads heartbeats that were there, and adds
\* to what it shows.
LEMMA PanelInv ==
  ASSUME Health!HealthConstants, HealthInv,
         Health!Request \/ Health!ReadHeartbeats \/ Health!Build \/ Health!Respond
  PROVE  HealthInv'
<1>0. BeatsKnown /\ PanelKnown
  BY DEF HealthInv
<1>1. UNCHANGED <<today, beat, alive, broken>>
  BY DEF Health!Request, Health!ReadHeartbeats, Health!Build, Health!Respond
<1>2. BeatsKnown'
  BY <1>0, <1>1 DEF BeatsKnown, Left
<1>3. today \in Nat
  BY <1>0 DEF BeatsKnown
<1>4. CASE Health!Request
  <2>1. panel' = [at |-> "asked", now |-> today]
    BY <1>4 DEF Health!Request
  <2> QED
    BY <1>1, <1>2, <1>3, <2>1 DEF HealthInv, PanelKnown
<1>5. CASE Health!ReadHeartbeats
  <2>1. PICK found \in {beat, [c \in Health!Component |-> Absent]} :
          panel' = [at |-> "reading", now |-> panel.now, beats |-> found,
                    dead |-> broken, shown |-> <<>>]
    BY <1>5 DEF Health!ReadHeartbeats
  <2>2. panel.now \in Nat /\ panel.now <= today
    BY <1>0, <1>5 DEF PanelKnown, Health!ReadHeartbeats
  <2>3. ASSUME NEW c \in Health!Component
        PROVE  /\ Left(c, found[c])
               /\ c \in broken /\ found[c] # Absent => found[c].status = "error"
    <3>1. CASE found = beat
      BY <1>0, <3>1 DEF BeatsKnown
    <3>2. CASE found = [d \in Health!Component |-> Absent]
      <4>1. found[c] = Absent
        BY <3>2
      <4> QED
        BY <4>1 DEF Left
    <3> QED
      BY <2>1, <3>1, <3>2
  <2>4. \A c \in Health!Component :
          /\ Left(c, panel.beats[c])'
          /\ c \in panel'.dead /\ panel'.beats[c] # Absent => panel'.beats[c].status = "error"
    BY <1>1, <2>1, <2>3 DEF Left
  <2>5. <<>> \in Seq([status : Status, source : Source]) /\ DOMAIN <<>> = {}
    OBVIOUS
  <2>6. PanelKnown'
    BY <1>1, <2>1, <2>2, <2>4, <2>5 DEF PanelKnown
  <2> QED
    BY <1>2, <2>6 DEF HealthInv
<1>6. CASE Health!Build
  <2>1. panel.at = "reading" /\ Len(panel.shown) < Len(Jobs) + 2
    BY <1>6 DEF Health!Build
  <2>2. PICK i, n : i = n + 1 /\ n = Len(panel.shown)
    OBVIOUS
  <2>3. PICK s \in Health!MayShow(i) : panel' = [panel EXCEPT !.shown = Append(@, s)]
    BY <1>6, <2>2 DEF Health!Build
  <2>4. panel.shown \in Seq([status : Status, source : Source]) /\ Len(Jobs) \in Nat
    BY <1>0, <2>1, ComponentOf DEF PanelKnown
  <2>5. n \in Nat /\ i \in 1 .. Len(Jobs) + 2
    BY <2>1, <2>2, <2>4
  <2>6. /\ s \in [status : Status, source : Source]
        /\ i \in 2 .. Len(Jobs) + 1 /\ s.status = "healthy" /\ s.source = "heartbeat"
             => LET c == Jobs[i - 1]
                IN /\ alive[c] # Absent /\ alive[c] >= panel.now - StaleAfter[c]
                   /\ c \notin panel.dead
    BY <1>0, <2>1, <2>3, <2>5, ShownVouched
  <2>7. panel = [at |-> "reading", now |-> panel.now, beats |-> panel.beats,
                 dead |-> panel.dead, shown |-> panel.shown]
    BY <1>0, <2>1 DEF PanelKnown
  <2>8. panel' = [at |-> "reading", now |-> panel.now, beats |-> panel.beats,
                  dead |-> panel.dead, shown |-> Append(panel.shown, s)]
    <3>1. PICK t, b, d, old :
            /\ t = panel.now /\ b = panel.beats /\ d = panel.dead /\ old = panel.shown
      OBVIOUS
    <3>2. panel = [at |-> "reading", now |-> t, beats |-> b, dead |-> d, shown |-> old]
      BY <2>7, <3>1
    <3>3. panel' = [panel EXCEPT !.shown = Append(old, s)]
      BY <2>3, <3>1
    <3>4. panel' = [at |-> "reading", now |-> t, beats |-> b, dead |-> d,
                    shown |-> Append(old, s)]
      BY <3>2, <3>3
    <3> QED
      BY <3>1, <3>4
  <2>9. /\ Append(panel.shown, s) \in Seq([status : Status, source : Source])
        /\ DOMAIN Append(panel.shown, s) = 1 .. i /\ Append(panel.shown, s)[i] = s
        /\ \A j \in 1 .. n : Append(panel.shown, s)[j] = panel.shown[j]
        /\ DOMAIN panel.shown = 1 .. n
    BY <2>2, <2>4, <2>6
  <2>10. ASSUME NEW j \in 1 .. i, j \in 2 .. Len(Jobs) + 1,
                panel'.shown[j].status = "healthy"
         PROVE  Health!Vouched(j)'
    <3>1. CASE j = i
      <4>1. panel'.shown[j] = s
        BY <2>8, <2>9, <3>1
      <4> QED
        BY <1>1, <2>6, <2>8, <2>10, <3>1, <4>1 DEF Health!Vouched
    <3>2. CASE j # i
      <4>1. j \in DOMAIN panel.shown /\ panel'.shown[j] = panel.shown[j]
        <5>1. j \in 1 .. n
          BY <2>2, <2>5, <2>10, <3>2
        <5> QED
          BY <2>8, <2>9, <5>1
      <4>2. Health!Vouched(j)
        BY <1>0, <2>1, <2>10, <4>1 DEF PanelKnown
      <4> QED
        BY <1>1, <2>8, <4>1, <4>2 DEF Health!Vouched
    <3> QED
      BY <3>1, <3>2
  <2>11. \A c \in Health!Component :
           /\ Left(c, panel.beats[c])'
           /\ c \in panel'.dead /\ panel'.beats[c] # Absent => panel'.beats[c].status = "error"
    BY <1>0, <1>1, <2>1, <2>8 DEF PanelKnown, Left
  <2>12. panel.now \in Nat /\ panel.now <= today
    BY <1>0, <2>1 DEF PanelKnown
  <2>13. PanelKnown'
    <3>1. \A j \in DOMAIN panel'.shown :
            j \in 2 .. Len(Jobs) + 1 /\ panel'.shown[j].status = "healthy"
              => Health!Vouched(j)'
      BY <2>8, <2>9, <2>10
    <3>2. panel'.shown \in Seq([status : Status, source : Source])
      BY <2>8, <2>9
    <3> QED
      BY <1>1, <2>8, <2>11, <2>12, <3>1, <3>2 DEF PanelKnown
  <2> QED
    BY <1>2, <2>13 DEF HealthInv
<1>7. CASE Health!Respond
  <2>1. panel' = [at |-> "idle"]
    BY <1>7 DEF Health!Respond, Health!Waiting
  <2> QED
    BY <1>2, <2>1 DEF HealthInv, PanelKnown
<1> QED
  BY <1>4, <1>5, <1>6, <1>7

\* All is well only when every component is.
LEMMA SummaryHonest ==
  ASSUME Health!HealthConstants, HealthInv
  PROVE  Health!HealthHonest
<1>1. SUFFICES ASSUME Health!Answered, NEW i \in 2 .. Len(Jobs) + 1
               PROVE  /\ panel.shown[i].status = "healthy" => Health!Vouched(i)
                      /\ Health!Summary = "healthy" => panel.shown[i].status = "healthy"
  BY DEF Health!HealthHonest
<1>2. /\ panel.at = "reading" /\ Len(panel.shown) = Len(Jobs) + 2 /\ Len(Jobs) \in Nat
      /\ panel.shown \in Seq([status : Status, source : Source])
  BY <1>1, ComponentOf DEF Health!Answered, HealthInv, PanelKnown
<1>3. i \in DOMAIN panel.shown /\ panel.shown[i].status \in Status
  <2>1. i \in 1 .. Len(panel.shown)
    BY <1>2
  <2>2. panel.shown[i] \in [status : Status, source : Source]
    <3>1. \A S : \A q \in Seq(S) : \A j \in 1 .. Len(q) : q[j] \in S
      OBVIOUS
    <3> QED
      BY <1>2, <2>1, <3>1
  <2> QED
    BY <1>2, <2>1, <2>2
<1>4. panel.shown[i].status = "healthy" => Health!Vouched(i)
  BY <1>2, <1>3 DEF HealthInv, PanelKnown
<1>5. ASSUME Health!Summary = "healthy"
      PROVE  panel.shown[i].status = "healthy"
  <2>1. /\ Health!With("error") = {} /\ Health!With("stale") = {} /\ Health!With("empty") = {}
    BY <1>5 DEF Health!Summary
  <2>2. panel.shown[i].status \notin {"error", "stale", "empty"}
    BY <1>3, <2>1 DEF Health!With
  <2> QED
    BY <1>3, <2>2 DEF Status
<1> QED
  BY <1>4, <1>5

\* The health panel is honest about its jobs, for any number of jobs and components,
\* whatever reports are lost or arrive late: app/api/routes/dashboard.py,
\* _component_from_heartbeat and _pipeline_summary.
THEOREM PanelHonest ==
  ASSUME Health!HealthConstants
  PROVE  Health!Spec => []HealthHonest
<1>1. ASSUME Health!Init
      PROVE  HealthInv
  <2>1. \A c \in Health!Component : Left(c, Absent)
    BY DEF Left
  <2> QED
    BY <1>1, <2>1 DEF Health!Init, Health!Waiting, HealthInv, BeatsKnown, PanelKnown
<1>2. ASSUME HealthInv, [Health!Next]_(Health!vars)
      PROVE  HealthInv'
  <2>1. CASE UNCHANGED Health!vars
    BY <1>2, <2>1 DEF Health!vars, HealthInv, BeatsKnown, PanelKnown, Left, Health!Vouched
  <2> QED
    BY <1>2, <2>1, JobsKnown, PanelInv DEF Health!Next
<1>3. HealthInv => HealthHonest
  BY SummaryHonest DEF HealthHonest
<1> QED
  BY <1>1, <1>2, <1>3, PTL DEF Health!Spec

(* ---- The list of suspicious trades misses nothing ------------------------ *)

\* A trade has a flag only while it is on the tape.
TapeKnown ==
  /\ tape \subseteq Board!Trade
  /\ flag \in [Board!Trade -> Int \union {Absent}]
  /\ copies \in [Board!Trade -> Int \union {Absent}]
  /\ \A t \in Board!Trade : flag[t] # Absent => t \in tape

\* Before the first query, a trade that is due still has its flag or a copy; between
\* the queries it has been read or has a copy, unless the first answer was full.
ListKnown ==
  /\ list.at \in {"idle", "asked", "half", "answered"}
  /\ list.at # "idle" => list.due \subseteq Board!Trade
  /\ list.at = "asked" => \A t \in list.due : t \in Board!Recorded
  /\ list.at = "half" =>
       /\ list.second = "evidence" /\ DOMAIN list.seen \subseteq Board!Trade
       /\ \/ Cardinality(DOMAIN list.seen) >= CandidateLimit
          \/ \A t \in list.due : t \in DOMAIN list.seen \/ copies[t] # Absent

BoardInv == TapeKnown /\ ListKnown /\ Board!BoardComplete

\* In a finite set something is least by what can be counted.
LEMMA LeastOf ==
  ASSUME NEW S, S # {}, NEW n, \A x \in S : n[x] \in Nat
  PROVE  \E x \in S : \A y \in S : n[x] <= n[y]
<1>1. PICK T \in SUBSET Nat : T = {n[x] : x \in S}
  OBVIOUS
<1>2. T # {}
  BY <1>1
<1>3. PICK k \in T : \A j \in T : ~(<<j, k>> \in OpToRel(<, Nat))
  BY <1>2, NatLessThanWellFounded, WFMin
<1>4. ASSUME NEW j \in T
      PROVE  k <= j
  <2>1. k \in Nat /\ j \in Nat /\ ~(j < k)
    BY <1>3 DEF OpToRel
  <2> QED
    BY <2>1
<1>5. PICK x \in S : n[x] = k
  BY <1>1
<1> QED
  BY <1>1, <1>4, <1>5

\* A query that returns no full answer returns every row.
LEMMA FirstIsAll ==
  ASSUME Board!BoardConstants, NEW D \in SUBSET Board!Trade, NEW scores \in [D -> Int]
  PROVE  /\ DOMAIN Board!First(scores) \subseteq D
         /\ \/ DOMAIN Board!First(scores) = D
            \/ Cardinality(DOMAIN Board!First(scores)) >= CandidateLimit
<1> DEFINE before(t) == {u \in DOMAIN scores : Board!Before(scores, u, t)}
           kept == {t \in DOMAIN scores : Cardinality(before(t)) < CandidateLimit}
           many == [t \in D |-> Cardinality(before(t))]
<1>0. DOMAIN scores = D
  OBVIOUS
<1>1. DOMAIN Board!First(scores) = kept
  <2>1. DOMAIN Board!First(scores) =
          {t \in DOMAIN scores : Board!Cardinality(before(t)) < CandidateLimit}
    BY DEF Board!First
  <2>2. \A t : Board!Cardinality(before(t)) = Cardinality(before(t))
    BY SameCount
  <2> HIDE DEF before
  <2> QED
    BY <2>1, <2>2
<1>2. IsFiniteSet(D) /\ CandidateLimit \in Nat
  <2>1. IsFiniteSet(Board!Trade) /\ CandidateLimit \in Nat
    BY SameCount DEF Board!BoardConstants
  <2> QED
    BY <2>1, FS_Subset
<1>3. \A t \in D : before(t) \in SUBSET D
  OBVIOUS
<1>4. \A t \in D : \A u \in before(t) : before(u) \in SUBSET before(t) /\ u \notin before(u)
  <2>1. \A t \in D : t \in Int /\ scores[t] \in Int /\ Facts[t].ts \in Int
    BY DEF Board!BoardConstants
  <2>2. ASSUME NEW t \in D, NEW u \in before(t)
        PROVE  before(u) \in SUBSET before(t) /\ u \notin before(u)
    <3>1. u \in D /\ Board!Before(scores, u, t) /\ ~Board!Before(scores, u, u)
      BY <2>1, <2>2 DEF Board!Before
    <3>2. ASSUME NEW v \in before(u)
          PROVE  v \in D /\ Board!Before(scores, v, t)
      <4>1. v \in D /\ Board!Before(scores, v, u)
        BY <3>2
      <4> HIDE DEF before
      <4> QED
        BY <2>1, <3>1, <4>1 DEF Board!Before
    <3> QED
      BY <3>1, <3>2
  <2> QED
    BY <2>2
<1> HIDE DEF before
<1>5. \A t \in D : IsFiniteSet(before(t)) /\ many[t] \in Nat
  BY <1>2, <1>3, Fewer
<1>6. \A t \in D : \A u \in before(t) : many[u] + 1 <= many[t]
  <2>1. ASSUME NEW t \in D, NEW u \in before(t)
        PROVE  Cardinality(before(u)) + 1 <= Cardinality(before(t))
    <3>1. before(u) \in SUBSET (before(t) \ {u}) /\ IsFiniteSet(before(t))
      BY <1>3, <1>4, <1>5, <2>1
    <3> QED
      BY <2>1, <3>1, OneFewer
  <2> QED
    BY <1>3, <2>1
<1>7. kept \subseteq D /\ \A t \in D : t \in kept <=> many[t] < CandidateLimit
  BY <1>0
<1> HIDE DEF kept
<1>8. CASE D \subseteq kept
  BY <1>1, <1>7, <1>8
<1>9. CASE D \ kept # {}
  <2>1. PICK t \in D \ kept : \A u \in D \ kept : many[t] <= many[u]
    <3>1. \A u \in D \ kept : many[u] \in Nat
      BY <1>5
    <3> HIDE DEF many
    <3> QED
      BY <1>9, <3>1, LeastOf
  <2>2. many[t] >= CandidateLimit
    BY <1>2, <1>5, <1>7, <2>1
  <2>3. before(t) \in SUBSET kept
    <3>1. ASSUME NEW u \in before(t)
          PROVE  u \in kept
      <4>1. u \in D /\ t \in D /\ many[u] + 1 <= many[t]
            /\ many[u] \in Nat /\ many[t] \in Nat
        BY <1>3, <1>5, <1>6, <2>1
      <4> HIDE DEF many
      <4> QED
        BY <2>1, <4>1
    <3> QED
      BY <3>1
  <2>4. Cardinality(before(t)) <= Cardinality(kept) /\ Cardinality(before(t)) \in Nat
        /\ Cardinality(kept) \in Nat
    <3>1. IsFiniteSet(kept)
      BY <1>2, <1>7, FS_Subset
    <3> QED
      BY <2>3, <3>1, Fewer
  <2>5. many[t] = Cardinality(before(t))
    OBVIOUS
  <2> HIDE DEF many
  <2> QED
    BY <1>1, <1>2, <1>7, <2>2, <2>4, <2>5
<1> QED
  BY <1>8, <1>9

\* What the two queries return.
LEMMA QueriesOf ==
  ASSUME Board!BoardConstants, TapeKnown
  PROVE  /\ DOMAIN Board!FlagRows \subseteq Board!Trade
         /\ DOMAIN Board!EvidenceRows \subseteq Board!Trade
         /\ \/ Cardinality(DOMAIN Board!FlagRows) >= CandidateLimit
            \/ \A t \in Board!Trade : flag[t] # Absent => t \in DOMAIN Board!FlagRows
         /\ \/ Cardinality(DOMAIN Board!EvidenceRows) >= CandidateLimit
            \/ \A t \in Board!Trade : copies[t] # Absent => t \in DOMAIN Board!EvidenceRows
<1> DEFINE F == {u \in tape : flag[u] # Absent}
           E == {u \in Board!Trade : copies[u] # Absent}
<1>1. F \in SUBSET Board!Trade /\ [t \in F |-> flag[t]] \in [F -> Int]
      /\ \A t \in Board!Trade : flag[t] # Absent => t \in F
  BY DEF TapeKnown
<1>2. E \in SUBSET Board!Trade /\ [t \in E |-> copies[t]] \in [E -> Int]
      /\ \A t \in Board!Trade : copies[t] # Absent => t \in E
  BY DEF TapeKnown
<1>3. Board!FlagRows = Board!First([t \in F |-> flag[t]])
      /\ Board!EvidenceRows = Board!First([t \in E |-> copies[t]])
  BY DEF Board!FlagRows, Board!EvidenceRows
<1> HIDE DEF F, E
<1>4. /\ DOMAIN Board!FlagRows \subseteq F
      /\ \/ DOMAIN Board!FlagRows = F
         \/ Cardinality(DOMAIN Board!FlagRows) >= CandidateLimit
  BY <1>1, <1>3, FirstIsAll
<1>5. /\ DOMAIN Board!EvidenceRows \subseteq E
      /\ \/ DOMAIN Board!EvidenceRows = E
         \/ Cardinality(DOMAIN Board!EvidenceRows) >= CandidateLimit
  BY <1>2, <1>3, FirstIsAll
<1> QED
  BY <1>1, <1>2, <1>4, <1>5

\* A set of trades with a full set among them is full.
LEMMA FullStays ==
  ASSUME Board!BoardConstants, NEW T \in SUBSET Board!Trade, NEW S \in SUBSET T
  PROVE  /\ Cardinality(S) >= CandidateLimit => Cardinality(T) >= CandidateLimit
         /\ Cardinality(S) >= CandidateLimit => S # {}
<1>1. IsFiniteSet(Board!Trade) /\ CandidateLimit \in Nat \ {0}
  BY SameCount DEF Board!BoardConstants
<1>2. IsFiniteSet(T)
  BY <1>1, FS_Subset
<1>3. Cardinality(S) <= Cardinality(T) /\ Cardinality(S) \in Nat /\ Cardinality(T) \in Nat
  BY <1>2, Fewer
<1>4. Cardinality({}) = 0
  BY FS_EmptySet
<1> QED
  BY <1>1, <1>3, <1>4

\* What the answer is made of after both queries.
LEMMA MergedAll ==
  ASSUME Board!BoardConstants, TapeKnown, ListKnown, list.at = "half"
  PROVE  /\ DOMAIN Board!Merged = DOMAIN list.seen \union DOMAIN Board!EvidenceRows
         /\ DOMAIN Board!Merged \subseteq Board!Trade
         /\ \/ Cardinality(DOMAIN Board!Merged) >= CandidateLimit /\ DOMAIN Board!Merged # {}
            \/ list.due \subseteq DOMAIN Board!Merged
<1>1. /\ list.second = "evidence" /\ DOMAIN list.seen \subseteq Board!Trade
      /\ \/ Cardinality(DOMAIN list.seen) >= CandidateLimit
         \/ \A t \in list.due : t \in DOMAIN list.seen \/ copies[t] # Absent
      /\ list.due \subseteq Board!Trade
  BY DEF ListKnown
<1>2. DOMAIN Board!Merged = DOMAIN list.seen \union DOMAIN Board!EvidenceRows
  BY <1>1 DEF Board!Merged
<1>3. /\ DOMAIN Board!EvidenceRows \subseteq Board!Trade
      /\ \/ Cardinality(DOMAIN Board!EvidenceRows) >= CandidateLimit
         \/ \A t \in Board!Trade : copies[t] # Absent => t \in DOMAIN Board!EvidenceRows
  BY QueriesOf
<1>4. DOMAIN Board!Merged \in SUBSET Board!Trade
      /\ DOMAIN list.seen \in SUBSET DOMAIN Board!Merged
      /\ DOMAIN Board!EvidenceRows \in SUBSET DOMAIN Board!Merged
  BY <1>1, <1>2, <1>3
<1>5. CASE \/ Cardinality(DOMAIN list.seen) >= CandidateLimit
           \/ Cardinality(DOMAIN Board!EvidenceRows) >= CandidateLimit
  <2>1. PICK S \in SUBSET DOMAIN Board!Merged : Cardinality(S) >= CandidateLimit
    BY <1>4, <1>5
  <2>2. Cardinality(DOMAIN Board!Merged) >= CandidateLimit /\ DOMAIN Board!Merged # {}
    BY <1>4, <2>1, FullStays
  <2> QED
    BY <1>2, <1>4, <2>2
<1>6. CASE /\ \A t \in list.due : t \in DOMAIN list.seen \/ copies[t] # Absent
           /\ \A t \in Board!Trade : copies[t] # Absent => t \in DOMAIN Board!EvidenceRows
  BY <1>1, <1>2, <1>4, <1>6
<1> QED
  BY <1>1, <1>3, <1>5, <1>6

\* What the sweep and retention do keeps what is known of the tape, and loses no
\* trade without a copy.
LEMMA MovesKnown ==
  ASSUME Board!BoardConstants, BoardInv, ~Board!Answered, NEW t \in Board!Trade,
         Board!Flag(t) \/ Board!Copy(t) \/ Board!Delete(t)
  PROVE  BoardInv'
<1>1. TapeKnown /\ ListKnown /\ list' = list
  BY DEF BoardInv, Board!Flag, Board!Copy, Board!Delete, Board!Move
<1>2. TapeKnown' /\ \A u \in Board!Trade :
                      /\ copies[u] # Absent => copies'[u] # Absent
                      /\ u \in Board!Recorded => u \in Board!Recorded'
  <2>1. CASE Board!Flag(t)
    <3>1. PICK score \in Int : flag' = [flag EXCEPT ![t] = score]
      <4>0. Facts[t].score \in Int
        BY DEF Board!BoardConstants
      <4>1. Facts[t].score \in Int /\ Facts[t].score + 1 \in Int
        BY <4>0
      <4> QED
        BY <2>1, <4>1 DEF Board!Flag
    <3>2. Absent \notin Int
      BY DEF Board!BoardConstants
    <3> QED
      BY <1>1, <2>1, <3>1, <3>2 DEF TapeKnown, Board!Flag, Board!Recorded
  <2>2. CASE Board!Copy(t)
    BY <1>1, <2>2 DEF TapeKnown, Board!Copy, Board!Recorded
  <2>3. CASE Board!Delete(t)
    BY <1>1, <2>3 DEF TapeKnown, Board!Delete, Board!Recorded
  <2> QED
    BY <2>1, <2>2, <2>3
<1>3. ListKnown'
  BY <1>1, <1>2 DEF ListKnown
<1>4. Board!BoardComplete'
  BY <1>1 DEF Board!BoardComplete, Board!Answered
<1> QED
  BY <1>2, <1>3, <1>4 DEF BoardInv

\* So does the request, which loses no trade that is due.
LEMMA RequestKnown ==
  ASSUME Board!BoardConstants, BoardInv,
         \/ Board!Request \/ Board!ReadOne \/ Board!ReadTwo \/ Board!ScoreTape
         \/ Board!Respond
  PROVE  BoardInv'
<1>1. TapeKnown /\ ListKnown /\ tape' = tape /\ flag' = flag /\ copies' = copies
  BY DEF BoardInv, Board!Request, Board!ReadOne, Board!ReadTwo, Board!ScoreTape,
         Board!Respond
<1>2. TapeKnown'
  BY <1>1 DEF TapeKnown
<1>3. CASE Board!Request
  <2>1. PICK limit : list' = [at |-> "asked", limit |-> limit, due |-> Board!Recorded]
    BY <1>3 DEF Board!Request
  <2>2. Board!Recorded \subseteq Board!Trade /\ Board!Recorded' = Board!Recorded
    BY <1>1 DEF Board!Recorded
  <2>3. ListKnown' /\ Board!BoardComplete'
    BY <2>1, <2>2 DEF ListKnown, Board!BoardComplete, Board!Answered
  <2> QED
    BY <1>2, <2>3 DEF BoardInv
<1>4. CASE Board!ReadOne
  <2>1. /\ list' = [at |-> "half", limit |-> list.limit, due |-> list.due,
                    seen |-> Board!FlagRows, second |-> "evidence"]
        /\ list.at = "asked"
    BY <1>4 DEF Board!ReadOne, Board!ReadFirst
  <2>2. list.due \subseteq Board!Trade /\ \A t \in list.due : t \in Board!Recorded
    BY <1>1, <2>1 DEF ListKnown
  <2>3. /\ DOMAIN Board!FlagRows \subseteq Board!Trade
        /\ \/ Cardinality(DOMAIN Board!FlagRows) >= CandidateLimit
           \/ \A t \in list.due : t \in DOMAIN Board!FlagRows \/ copies[t] # Absent
    BY <1>1, <2>2, QueriesOf DEF Board!Recorded
  <2>4. ListKnown'
    BY <1>1, <2>1, <2>2, <2>3 DEF ListKnown
  <2>5. Board!BoardComplete'
    BY <2>1 DEF Board!BoardComplete, Board!Answered
  <2> QED
    BY <1>2, <2>4, <2>5 DEF BoardInv
<1>5. ASSUME NEW scores, NEW rows, list.at = "half", Board!Answer(scores, rows),
             \/ Cardinality(DOMAIN scores) >= CandidateLimit
             \/ list.due \subseteq DOMAIN scores
      PROVE  BoardInv'
  <2>1. list' = [at |-> "answered", limit |-> list.limit, due |-> list.due,
                 candidates |-> scores,
                 shown |-> Board!Diversified(Board!Ranked(scores), list.limit),
                 source |-> rows]
    BY <1>5 DEF Board!Answer
  <2>2. list.due \subseteq Board!Trade
    BY <1>1, <1>5 DEF ListKnown
  <2>3. ListKnown'
    BY <2>1, <2>2 DEF ListKnown
  <2>4. Board!BoardComplete'
    BY <1>5, <2>1, SameCount DEF Board!BoardComplete, Board!Answered
  <2> QED
    BY <1>2, <2>3, <2>4 DEF BoardInv
<1>6. CASE Board!ReadTwo
  <2>1. list.at = "half" /\ Board!Answer(Board!Merged, "tables")
    BY <1>6 DEF Board!ReadTwo
  <2>2. \/ Cardinality(DOMAIN Board!Merged) >= CandidateLimit
        \/ list.due \subseteq DOMAIN Board!Merged
    BY <1>1, <2>1, MergedAll
  <2> QED
    BY <1>5, <2>1, <2>2
<1>7. CASE Board!ScoreTape
  <2>1. list.at = "half" /\ DOMAIN Board!Merged = {}
        /\ \E scores : Board!Answer(scores, "tape")
    BY <1>7 DEF Board!ScoreTape
  <2>2. list.due = {}
    BY <1>1, <2>1, MergedAll
  <2> QED
    BY <1>5, <2>1, <2>2
<1>8. CASE Board!Respond
  <2>1. list' = [at |-> "idle"]
    BY <1>8 DEF Board!Respond, Board!Waiting
  <2>2. ListKnown' /\ Board!BoardComplete'
    BY <2>1 DEF ListKnown, Board!BoardComplete, Board!Answered
  <2> QED
    BY <1>2, <2>2 DEF BoardInv
<1> QED
  BY <1>3, <1>4, <1>6, <1>7, <1>8

\* It starts so, and every step keeps it so.
LEMMA BoardStarts ==
  ASSUME Board!BoardConstants, Board!Init
  PROVE  BoardInv
<1>1. PICK past :
        /\ tape = {t \in Board!Trade : past[t] # "gone"}
        /\ flag = [t \in Board!Trade |->
                     IF past[t] \in {"flagged", "copied"} THEN Facts[t].score ELSE Absent]
        /\ copies = [t \in Board!Trade |->
                     IF past[t] \in {"copied", "gone"} THEN Facts[t].score ELSE Absent]
        /\ list = [at |-> "idle"]
  BY DEF Board!Init, Board!Waiting
<1>2. \A t \in Board!Trade : Facts[t].score \in Int
  BY DEF Board!BoardConstants
<1>3. TapeKnown
  BY <1>1, <1>2 DEF TapeKnown
<1>4. ListKnown /\ Board!BoardComplete
  BY <1>1 DEF ListKnown, Board!BoardComplete, Board!Answered
<1> QED
  BY <1>3, <1>4 DEF BoardInv

\* No step of the board breaks it.
LEMMA BoardStays ==
  ASSUME Board!BoardConstants, BoardInv, [Board!Next]_(Board!vars)
  PROVE  BoardInv'
<1>1. CASE UNCHANGED Board!vars
  BY <1>1 DEF Board!vars, BoardInv, TapeKnown, ListKnown, Board!BoardComplete,
                    Board!Answered, Board!Recorded
<1> QED
  BY <1>1, MovesKnown, RequestKnown DEF Board!Next

(***************************************************************************)
(* A trade that had a flag or evidence when the list of suspicious trades  *)
(* was asked for is a candidate for it, unless a query was full, whatever  *)
(* the sweep and retention do before and between the two queries:          *)
(* _suspicious_trades_payload of app/api/routes/dashboard.py.              *)
(***************************************************************************)
THEOREM ListComplete ==
  ASSUME Board!BoardConstants
  PROVE  Board!Spec => []BoardComplete
<1>1. Board!Init => BoardInv
  BY BoardStarts
<1>2. BoardInv /\ [Board!Next]_(Board!vars) => BoardInv'
  BY BoardStays
<1>3. BoardInv => BoardComplete
  BY DEF BoardInv, BoardComplete
<1> QED
  BY <1>1, <1>2, <1>3, PTL DEF Board!Spec

(* ---- The list of suspicious trades fills ---------------------------------- *)

\* Induction over the natural numbers, for a set: its least missing number would
\* follow one that is there.
LEMMA Induction ==
  ASSUME NEW S, 0 \in S, \A i \in Nat : i \in S => i + 1 \in S
  PROVE  \A i \in Nat : i \in S
<1> SUFFICES ASSUME NEW n \in Nat, n \notin S
             PROVE  FALSE
  OBVIOUS
<1>1. PICK k \in Nat \ S : \A j \in Nat \ S : ~(<<j, k>> \in OpToRel(<, Nat))
  <2>1. Nat \ S \subseteq Nat /\ Nat \ S # {}
    OBVIOUS
  <2> QED
    BY <2>1, NatLessThanWellFounded, WFMin
<1>2. \A j \in Nat \ S : ~(j < k)
  BY <1>1 DEF OpToRel
<1>3. k # 0 /\ k - 1 \in Nat
  OBVIOUS
<1>4. k - 1 \in S
  BY <1>2, <1>3
<1>5. k - 1 + 1 \in S
  BY <1>3, <1>4
<1> QED
  BY <1>5

\* The greatest element, as folds choose it.
Largest(S) == CHOOSE x \in S : \A y \in S : x >= y

\* It is the one that no other exceeds.
LEMMA LargestIs ==
  ASSUME NEW k \in Int, NEW S \in SUBSET Int, k \in S, \A x \in S : x <= k
  PROVE  Largest(S) = k
<1>1. \A x \in S : x >= k => x = k
  OBVIOUS
<1> QED
  BY <1>1 DEF Largest

\* A set of positions has one.
LEMMA LargestIn ==
  ASSUME NEW n \in Nat
  PROVE  \A S \in SUBSET (1 .. n) : S # {} => Largest(S) \in S
<1> DEFINE K == {k \in Nat : \A S \in SUBSET (1 .. k) : S # {} => Largest(S) \in S}
<1>1. 0 \in K
  <2>1. \A S \in SUBSET (1 .. 0) : S = {}
    OBVIOUS
  <2> QED
    BY <2>1
<1>2. ASSUME NEW k \in Nat, k \in K
      PROVE  k + 1 \in K
  <2>1. ASSUME NEW S \in SUBSET (1 .. k + 1), S # {}
        PROVE  Largest(S) \in S
    <3>1. CASE k + 1 \in S
      BY <3>1, LargestIs
    <3>2. CASE k + 1 \notin S
      <4>1. S \in SUBSET (1 .. k)
        BY <3>2
      <4> QED
        BY <1>2, <2>1, <4>1
    <3> QED
      BY <3>1, <3>2
  <2> QED
    BY <2>1
<1> HIDE DEF K
<1>3. n \in K
  BY <1>1, <1>2, Induction
<1> QED
  BY <1>3 DEF K

\* A fold over 1 .. k: G[i][d] is what element i makes of d.
Folding(f, base, G, k) ==
  f = [S \in SUBSET (1 .. k) |->
         IF S = {} THEN base ELSE G[Largest(S)][f[S \ {Largest(S)}]]]

CanFold(k, D, base, G) ==
  \E f \in [SUBSET (1 .. k) -> D] : Folding(f, base, G, k)

\* The recursion of a fold has a solution.
LEMMA FoldDefined ==
  ASSUME NEW n \in Nat, NEW D, NEW base \in D, NEW G \in [1 .. n -> [D -> D]]
  PROVE  CanFold(n, D, base, G)
<1> DEFINE K == {k \in Nat : k <= n => CanFold(k, D, base, G)}
<1>1. 0 \in K
  <2> DEFINE f == [S \in SUBSET (1 .. 0) |-> base]
  <2>1. \A S \in SUBSET (1 .. 0) : S = {}
    OBVIOUS
  <2>2. Folding(f, base, G, 0)
    BY <2>1 DEF Folding
  <2> QED
    BY <2>2 DEF CanFold
<1>2. ASSUME NEW k \in Nat, k \in K
      PROVE  k + 1 \in K
  <2> SUFFICES ASSUME k + 1 <= n
               PROVE  CanFold(k + 1, D, base, G)
    OBVIOUS
  <2>0. CanFold(k, D, base, G)
    BY <1>2
  <2>1. PICK f \in [SUBSET (1 .. k) -> D] : Folding(f, base, G, k)
    BY <2>0 DEF CanFold
  <2> DEFINE g == [S \in SUBSET (1 .. k + 1) |->
                     IF k + 1 \in S THEN G[k + 1][f[S \ {k + 1}]] ELSE f[S]]
  <2>2. \A S \in SUBSET (1 .. k + 1) : S \ {k + 1} \in SUBSET (1 .. k)
    OBVIOUS
  <2>3. \A S \in SUBSET (1 .. k + 1) : k + 1 \notin S => S \in SUBSET (1 .. k)
    OBVIOUS
  <2>4. g \in [SUBSET (1 .. k + 1) -> D]
    BY <2>2, <2>3
  <2>5. ASSUME NEW S \in SUBSET (1 .. k + 1)
        PROVE  g[S] = IF S = {} THEN base ELSE G[Largest(S)][g[S \ {Largest(S)}]]
    <3>1. CASE k + 1 \in S
      <4>1. Largest(S) = k + 1
        BY <3>1, LargestIs
      <4>2. g[S \ {k + 1}] = f[S \ {k + 1}]
        BY <2>2
      <4> QED
        BY <3>1, <4>1, <4>2
    <3>2. CASE k + 1 \notin S
      <4>1. S \in SUBSET (1 .. k) /\ S \ {Largest(S)} \in SUBSET (1 .. k)
        BY <2>3, <3>2
      <4>2. g[S] = f[S] /\ g[S \ {Largest(S)}] = f[S \ {Largest(S)}]
        BY <3>2, <4>1
      <4>3. f[S] = IF S = {} THEN base ELSE G[Largest(S)][f[S \ {Largest(S)}]]
        BY <2>1, <4>1 DEF Folding
      <4> QED
        BY <4>2, <4>3
    <3> QED
      BY <3>1, <3>2
  <2>6. Folding(g, base, G, k + 1)
    <3> HIDE DEF g
    <3>1. g = [S \in SUBSET (1 .. k + 1) |-> g[S]]
      BY <2>4
    <3> QED
      BY <2>5, <3>1 DEF Folding
  <2> QED
    BY <2>4, <2>6 DEF CanFold
<1>3. n \in K
  <2> HIDE DEF K
  <2> QED
    BY <1>1, <1>2, Induction
<1> QED
  BY <1>3

\* Ranked is an enumeration of the candidates.
LEMMA RankedIs ==
  ASSUME Board!BoardConstants, NEW D \in SUBSET Board!Trade, NEW scores \in [D -> Int]
  PROVE  /\ Cardinality(D) \in Nat
         /\ Board!Ranked(scores) \in [1 .. Cardinality(D) -> D]
         /\ \A t \in D : \E n \in 1 .. Cardinality(D) : Board!Ranked(scores)[n] = t
<1> DEFINE before(t) == {u \in D : Board!Before(scores, u, t)}
           rank == [t \in D |-> Cardinality(before(t)) + 1]
           c == Cardinality(D)
<1>1. IsFiniteSet(D) /\ c \in Nat
  <2>1. IsFiniteSet(Board!Trade)
    BY SameCount DEF Board!BoardConstants
  <2> QED
    BY <2>1, Fewer
<1>2. \A t \in D : t \in Int /\ scores[t] \in Int /\ Facts[t].ts \in Int
  BY DEF Board!BoardConstants
<1>3. \A t \in D : before(t) \in SUBSET (D \ {t})
  BY <1>2 DEF Board!Before
<1>4. ASSUME NEW t \in D, NEW u \in D, t # u
      PROVE  \/ before(t) \in SUBSET (before(u) \ {t}) /\ t \in before(u)
             \/ before(u) \in SUBSET (before(t) \ {u}) /\ u \in before(t)
  <2>1. \A v \in D : /\ Board!Before(scores, v, t) /\ Board!Before(scores, t, u) =>
                           Board!Before(scores, v, u)
                     /\ Board!Before(scores, v, u) /\ Board!Before(scores, u, t) =>
                           Board!Before(scores, v, t)
    BY <1>2 DEF Board!Before
  <2>2. Board!Before(scores, t, u) \/ Board!Before(scores, u, t)
    BY <1>2, <1>4 DEF Board!Before
  <2>3. ~Board!Before(scores, t, t) /\ ~Board!Before(scores, u, u)
    BY <1>2 DEF Board!Before
  <2> QED
    BY <2>1, <2>2, <2>3
<1> HIDE DEF before
<1>5. \A t \in D : /\ IsFiniteSet(before(t)) /\ Cardinality(before(t)) \in Nat
                   /\ Cardinality(before(t)) + 1 <= c
  BY <1>1, <1>3, Fewer, OneFewer
<1>6. rank \in [D -> 1 .. c]
  BY <1>1, <1>5
<1>7. ASSUME NEW t \in D, NEW u \in D, t # u
      PROVE  rank[t] # rank[u]
  <2>1. \/ Cardinality(before(t)) + 1 <= Cardinality(before(u))
        \/ Cardinality(before(u)) + 1 <= Cardinality(before(t))
    BY <1>4, <1>5, <1>7, OneFewer
  <2>2. rank[t] = Cardinality(before(t)) + 1 /\ rank[u] = Cardinality(before(u)) + 1
    OBVIOUS
  <2> QED
    BY <1>5, <2>1, <2>2
<1>8. rank \in Surjection(D, 1 .. c)
  <2>1. rank \in Injection(D, 1 .. c)
    BY <1>6, <1>7 DEF Injection, IsInjective
  <2>2. IsFiniteSet(1 .. c) /\ Cardinality(1 .. c) = c
    <3>1. IsFiniteSet(1 .. c) /\ Cardinality(1 .. c) = IF 1 > c THEN 0 ELSE c - 1 + 1
      BY <1>1, FS_Interval
    <3> HIDE DEF c
    <3> QED
      BY <1>1, <3>1
  <2> HIDE DEF rank
  <2> QED
    BY <2>1, <2>2, FS_Injection
<1>9. \A n \in 1 .. c : \E t \in D : rank[t] = n
  BY <1>8 DEF Surjection
<1> DEFINE chosen(n) == CHOOSE t \in D : Cardinality(before(t)) = n - 1
<1>10. Board!Ranked(scores) = [n \in 1 .. c |-> chosen(n)]
  <2>1. Board!Ranked(scores) =
          [n \in 1 .. Board!Cardinality(DOMAIN scores) |->
             CHOOSE t \in DOMAIN scores :
               Board!Cardinality({u \in DOMAIN scores : Board!Before(scores, u, t)}) = n - 1]
    BY DEF Board!Ranked
  <2>2. DOMAIN scores = D
    OBVIOUS
  <2>3. \A t : Board!Cardinality({u \in D : Board!Before(scores, u, t)})
                 = Cardinality(before(t))
    BY SameCount DEF before
  <2>4. Board!Cardinality(D) = c
    BY SameCount
  <2> HIDE DEF c
  <2> QED
    BY <2>1, <2>2, <2>3, <2>4
<1>11. ASSUME NEW n \in 1 .. c
       PROVE  chosen(n) \in D /\ rank[chosen(n)] = n
  <2>1. PICK t \in D : rank[t] = n
    BY <1>9
  <2>2. Cardinality(before(t)) = n - 1
    BY <1>5, <2>1
  <2>3. chosen(n) \in D /\ Cardinality(before(chosen(n))) = n - 1
    BY <2>2
  <2> HIDE DEF chosen
  <2> QED
    BY <1>5, <2>3
<1> HIDE DEF chosen, rank
<1>12. ASSUME NEW t \in D
       PROVE  rank[t] \in 1 .. c /\ chosen(rank[t]) = t
  BY <1>6, <1>7, <1>11
<1>13. /\ Board!Ranked(scores) \in [1 .. c -> D]
       /\ \A t \in D : \E n \in 1 .. c : Board!Ranked(scores)[n] = t
  <2> HIDE DEF c
  <2> QED
    BY <1>10, <1>11, <1>12
<1> QED
  BY <1>1, <1>13

\* The sports of a list.
SportsIn(out) == {u \in Board!ToSet(out) : Board!Sports(u)}

\* What is true of a list at any time of a pass.
Fits(out, limit) ==
  /\ Len(out) <= limit
  /\ IsFiniteSet(Board!ToSet(out)) /\ Cardinality(Board!ToSet(out)) = Len(out)
  /\ Cardinality(SportsIn(out)) <= Board!SportsCap(limit)
  /\ \A t, u \in SportsIn(out) : t # u => Board!SportsEvent(t) # Board!SportsEvent(u)

\* A trade is in a list, or the list is full, or the trade may never be.
Settled(out, t, limit) ==
  \/ t \in Board!ToSet(out)
  \/ Len(out) >= limit
  \/ /\ Board!Sports(t)
     /\ \/ Cardinality(SportsIn(out)) = Board!SportsCap(limit)
        \/ \E u \in SportsIn(out) : Board!SportsEvent(u) = Board!SportsEvent(t)

\* A step of a pass.
Offered(out, t, limit, strict) ==
  IF Len(out) < limit /\ Board!MayAdd(out, t, limit, strict) THEN Append(out, t) ELSE out

\* What later lists keep of a list.
Grows(out, later) ==
  /\ Len(out) <= Len(later) /\ Board!ToSet(out) \subseteq Board!ToSet(later)
  /\ out # <<>> => later # <<>> /\ later[1] = out[1]

\* The cap on sports, and when a trade may be added to a list.
LEMMA MayAddIs ==
  ASSUME NEW out, NEW t, NEW limit \in Nat, NEW strict \in BOOLEAN
  PROVE  /\ Board!SportsCap(limit) \in Nat /\ Board!SportsCap(limit) <= 4
         /\ limit # 0 => Board!SportsCap(limit) > 0
         /\ Board!MayAdd(out, t, limit, strict) <=>
              /\ t \notin Board!ToSet(out)
              /\ Board!Sports(t) =>
                   /\ Cardinality(SportsIn(out)) < Board!SportsCap(limit)
                   /\ \A u \in SportsIn(out) : Board!SportsEvent(u) # Board!SportsEvent(t)
              /\ strict =>
                   /\ \A u \in Board!ToSet(out) : Facts[u].market # Facts[t].market
                   /\ Cardinality({u \in Board!ToSet(out) :
                                     Facts[u].category = Facts[t].category}) < 3
<1>1. Board!SportsCap(limit) \in Nat /\ Board!SportsCap(limit) <= 4
      /\ (limit # 0 => Board!SportsCap(limit) > 0)
  BY DEF Board!SportsCap
<1>2. /\ Board!Cardinality(SportsIn(out)) = Cardinality(SportsIn(out))
      /\ Board!Cardinality({u \in Board!ToSet(out) : Facts[u].category = Facts[t].category})
           = Cardinality({u \in Board!ToSet(out) : Facts[u].category = Facts[t].category})
  BY SameCount
<1>3. \A u : u \in SportsIn(out) <=> u \in Board!ToSet(out) /\ Board!Sports(u)
  BY DEF SportsIn
<1>4. SportsIn(out) = {u \in Board!ToSet(out) : Board!Sports(u)}
  BY DEF SportsIn
<1>5. Board!MayAdd(out, t, limit, strict) <=>
        /\ t \notin Board!ToSet(out)
        /\ Board!Sports(t) =>
             /\ Board!Cardinality({u \in Board!ToSet(out) : Board!Sports(u)})
                  < Board!SportsCap(limit)
             /\ \A u \in Board!ToSet(out) :
                  Board!Sports(u) => Board!SportsEvent(u) # Board!SportsEvent(t)
        /\ strict =>
             /\ \A u \in Board!ToSet(out) : Facts[u].market # Facts[t].market
             /\ Board!Cardinality({u \in Board!ToSet(out) :
                                     Facts[u].category = Facts[t].category}) < 3
  BY DEF Board!MayAdd, Board!CategoryCap
<1> QED
  BY <1>1, <1>2, <1>3, <1>4, <1>5

\* An element more at the end of a list.
LEMMA AppendedSet ==
  ASSUME NEW D, NEW out \in Seq(D), NEW t \in D
  PROVE  /\ Append(out, t) \in Seq(D) /\ Len(Append(out, t)) = Len(out) + 1
         /\ Board!ToSet(Append(out, t)) = Board!ToSet(out) \union {t}
         /\ Append(out, t)[1] = IF out = <<>> THEN t ELSE out[1]
<1> DEFINE new == Append(out, t)
<1>1. new \in Seq(D) /\ Len(new) = Len(out) + 1 /\ Len(out) \in Nat
      /\ DOMAIN new = 1 .. Len(out) + 1 /\ DOMAIN out = 1 .. Len(out)
  OBVIOUS
<1>2. \A i \in 1 .. Len(out) : new[i] = out[i]
  OBVIOUS
<1>3. new[Len(out) + 1] = t
  OBVIOUS
<1>4. Board!ToSet(new) = {new[i] : i \in 1 .. Len(out) + 1}
      /\ Board!ToSet(out) = {out[i] : i \in 1 .. Len(out)}
  BY <1>1 DEF Board!ToSet
<1>5. out = <<>> \/ 1 \in 1 .. Len(out)
  OBVIOUS
<1>6. out = <<>> => Len(out) = 0
  OBVIOUS
<1> HIDE DEF new
<1>7. ASSUME NEW x
      PROVE  x \in Board!ToSet(new) <=> x \in Board!ToSet(out) \union {t}
  <2>1. ASSUME NEW i \in 1 .. Len(out) + 1
        PROVE  new[i] \in Board!ToSet(out) \union {t}
    <3>1. CASE i = Len(out) + 1
      BY <1>3, <3>1
    <3>2. CASE i \in 1 .. Len(out)
      BY <1>2, <1>4, <3>2
    <3> QED
      BY <1>1, <3>1, <3>2
  <2>2. ASSUME NEW i \in 1 .. Len(out)
        PROVE  out[i] \in Board!ToSet(new)
    <3>1. i \in 1 .. Len(out) + 1
      BY <1>1
    <3> QED
      BY <1>2, <1>4, <3>1
  <2>3. t \in Board!ToSet(new)
    <3>1. Len(out) + 1 \in 1 .. Len(out) + 1
      BY <1>1
    <3> QED
      BY <1>3, <1>4, <3>1
  <2> QED
    BY <1>4, <2>1, <2>2, <2>3
<1>8. new[1] = IF out = <<>> THEN t ELSE out[1]
  BY <1>2, <1>3, <1>5, <1>6
<1>9. Board!ToSet(new) = Board!ToSet(out) \union {t}
  BY <1>7
<1> QED
  BY <1>1, <1>8, <1>9 DEF new

\* A step keeps a list fitting; in the second pass it settles the trade.
LEMMA OfferedFits ==
  ASSUME NEW D, NEW out \in Seq(D), NEW t \in D, NEW limit \in Nat, NEW strict \in BOOLEAN,
         Fits(out, limit)
  PROVE  /\ Offered(out, t, limit, strict) \in Seq(D)
         /\ Fits(Offered(out, t, limit, strict), limit)
         /\ Grows(out, Offered(out, t, limit, strict))
         /\ ~strict => Settled(Offered(out, t, limit, strict), t, limit)
<1> DEFINE new == Append(out, t)
<1>0. Len(out) \in Nat
  OBVIOUS
<1>1. CASE Len(out) < limit /\ Board!MayAdd(out, t, limit, strict)
  <2>1. Offered(out, t, limit, strict) = new
    BY <1>1 DEF Offered
  <2>2. /\ new \in Seq(D) /\ Len(new) = Len(out) + 1
        /\ Board!ToSet(new) = Board!ToSet(out) \union {t}
        /\ out # <<>> => new[1] = out[1]
    BY AppendedSet
  <2>3. /\ t \notin Board!ToSet(out)
        /\ Board!Sports(t) =>
             /\ Cardinality(SportsIn(out)) < Board!SportsCap(limit)
             /\ \A u \in SportsIn(out) : Board!SportsEvent(u) # Board!SportsEvent(t)
    BY <1>1, MayAddIs
  <2>4. /\ IsFiniteSet(Board!ToSet(out)) /\ Cardinality(Board!ToSet(out)) = Len(out)
        /\ Cardinality(SportsIn(out)) <= Board!SportsCap(limit)
        /\ \A v, u \in SportsIn(out) : v # u => Board!SportsEvent(v) # Board!SportsEvent(u)
    BY DEF Fits
  <2> HIDE DEF new
  <2>5. IsFiniteSet(Board!ToSet(new)) /\ Cardinality(Board!ToSet(new)) = Len(new)
    BY <2>2, <2>3, <2>4, FS_AddElement
  <2>6. IsFiniteSet(SportsIn(out)) /\ Cardinality(SportsIn(out)) \in Nat
        /\ Board!SportsCap(limit) \in Nat
    <3>1. SportsIn(out) \in SUBSET Board!ToSet(out)
      BY DEF SportsIn
    <3> QED
      BY <2>4, <3>1, Fewer, MayAddIs
  <2>7. SportsIn(new) = IF Board!Sports(t) THEN SportsIn(out) \union {t} ELSE SportsIn(out)
    BY <2>2 DEF SportsIn
  <2>8. t \notin SportsIn(out)
    BY <2>3 DEF SportsIn
  <2>9. Cardinality(SportsIn(new)) <= Board!SportsCap(limit)
    <3>1. CASE Board!Sports(t)
      <4>1. SportsIn(new) = SportsIn(out) \union {t}
        BY <2>7, <3>1
      <4>2. Cardinality(SportsIn(new)) = Cardinality(SportsIn(out)) + 1
        BY <2>6, <2>8, <4>1, FS_AddElement
      <4>3. Cardinality(SportsIn(out)) < Board!SportsCap(limit)
        BY <2>3, <3>1
      <4> QED
        BY <2>6, <4>2, <4>3
    <3>2. CASE ~Board!Sports(t)
      BY <2>4, <2>7, <3>2
    <3> QED
      BY <3>1, <3>2
  <2>10. \A v, u \in SportsIn(new) : v # u => Board!SportsEvent(v) # Board!SportsEvent(u)
    BY <2>3, <2>4, <2>7
  <2>11. Fits(new, limit)
    BY <1>0, <1>1, <2>2, <2>5, <2>9, <2>10 DEF Fits
  <2>12. new # <<>>
    <3>1. Len(new) # 0
      BY <1>0, <2>2
    <3> QED
      BY <3>1
  <2>13. Grows(out, new)
    BY <1>0, <2>2, <2>12 DEF Grows
  <2>14. Settled(new, t, limit)
    BY <2>2 DEF Settled
  <2> QED
    BY <2>1, <2>2, <2>11, <2>13, <2>14
<1>2. CASE ~(Len(out) < limit /\ Board!MayAdd(out, t, limit, strict))
  <2>1. Offered(out, t, limit, strict) = out
    BY <1>2 DEF Offered
  <2>2. Grows(out, out)
    BY <1>0 DEF Grows
  <2>3. ASSUME ~strict, ~(Len(out) >= limit), t \notin Board!ToSet(out)
        PROVE  Settled(out, t, limit)
    <3>1. ~Board!MayAdd(out, t, limit, strict)
      BY <1>0, <1>2, <2>3
    <3>2. Board!Sports(t)
          /\ \/ ~(Cardinality(SportsIn(out)) < Board!SportsCap(limit))
             \/ \E u \in SportsIn(out) : Board!SportsEvent(u) = Board!SportsEvent(t)
      BY <2>3, <3>1, MayAddIs
    <3>3. /\ Cardinality(SportsIn(out)) <= Board!SportsCap(limit)
          /\ IsFiniteSet(Board!ToSet(out))
      BY DEF Fits
    <3>4. Cardinality(SportsIn(out)) \in Nat /\ Board!SportsCap(limit) \in Nat
      <4>1. SportsIn(out) \in SUBSET Board!ToSet(out)
        BY DEF SportsIn
      <4> QED
        BY <3>3, <4>1, Fewer, MayAddIs
    <3> QED
      BY <3>2, <3>3, <3>4 DEF Settled
  <2>4. ~strict => Settled(out, t, limit)
    BY <2>3 DEF Settled
  <2> QED
    BY <2>1, <2>2, <2>4
<1> QED
  BY <1>1, <1>2

\* What is settled stays settled.
LEMMA SettledStays ==
  ASSUME NEW out, NEW later, NEW t, NEW limit \in Nat, Len(out) \in Nat, Len(later) \in Nat,
         Settled(out, t, limit), Grows(out, later), Fits(later, limit)
  PROVE  Settled(later, t, limit)
<1>1. Board!ToSet(out) \subseteq Board!ToSet(later) /\ Len(out) <= Len(later)
  BY DEF Grows
<1>2. SportsIn(out) \in SUBSET SportsIn(later)
  BY <1>1 DEF SportsIn
<1>3. Cardinality(SportsIn(later)) <= Board!SportsCap(limit)
      /\ IsFiniteSet(Board!ToSet(later))
  BY DEF Fits
<1>4. IsFiniteSet(SportsIn(later))
  <2>1. SportsIn(later) \in SUBSET Board!ToSet(later)
    BY DEF SportsIn
  <2> QED
    BY <1>3, <2>1, Fewer
<1>5. Cardinality(SportsIn(out)) <= Cardinality(SportsIn(later))
      /\ Cardinality(SportsIn(out)) \in Nat /\ Cardinality(SportsIn(later)) \in Nat
      /\ Board!SportsCap(limit) \in Nat
  BY <1>2, <1>4, Fewer, MayAddIs
<1>6. CASE Cardinality(SportsIn(out)) = Board!SportsCap(limit)
  <2>1. Cardinality(SportsIn(later)) = Board!SportsCap(limit)
    BY <1>3, <1>5, <1>6
  <2> QED
    BY <1>1, <2>1 DEF Settled
<1>7. CASE Cardinality(SportsIn(out)) # Board!SportsCap(limit)
  BY <1>1, <1>2, <1>7 DEF Settled
<1> QED
  BY <1>6, <1>7

\* The fold of a pass.
PassFold(out, items, limit, strict) ==
  CHOOSE f : f = [S \in SUBSET DOMAIN items |->
                    IF S = {} THEN out
                    ELSE Offered(f[S \ {Largest(S)}], items[Largest(S)], limit, strict)]

\* Lists one after the other, each with what one more item adds.
PassRun(h, out, items, n, limit, strict) ==
  /\ h[0] = out
  /\ \A k \in 1 .. n : h[k] = Offered(h[k - 1], items[k], limit, strict)

\* The pass of the model is that fold.
LEMMA PassIs ==
  ASSUME NEW out, NEW items, NEW limit, NEW strict
  PROVE  Board!Pass(out, items, limit, strict)
           = PassFold(out, items, limit, strict)[DOMAIN items]
BY DEF Board!Pass, Board!FoldLeft, Board!MapThenFoldSet, Board!Max, Largest, PassFold, Offered

\* A pass is where its run ends.
LEMMA PassRuns ==
  ASSUME NEW n \in Nat, NEW D, NEW items \in [1 .. n -> D], NEW out \in Seq(D),
         NEW limit, NEW strict
  PROVE  \E h : /\ PassRun(h, out, items, n, limit, strict)
                /\ Board!Pass(out, items, limit, strict) = h[n]
<1> DEFINE G == [i \in 1 .. n |-> [d \in Seq(D) |-> Offered(d, items[i], limit, strict)]]
           iter == PassFold(out, items, limit, strict)
           h == [k \in 0 .. n |-> iter[1 .. k]]
<1>1. DOMAIN items = 1 .. n /\ \A i \in 1 .. n : items[i] \in D
  OBVIOUS
<1>2. G \in [1 .. n -> [Seq(D) -> Seq(D)]]
  <2>1. ASSUME NEW i \in 1 .. n, NEW d \in Seq(D)
        PROVE  Offered(d, items[i], limit, strict) \in Seq(D)
    <3>1. Append(d, items[i]) \in Seq(D)
      BY <1>1
    <3> QED
      BY <3>1 DEF Offered
  <2> QED
    BY <2>1
<1>3. PICK f \in [SUBSET (1 .. n) -> Seq(D)] : Folding(f, out, G, n)
  <2> HIDE DEF G
  <2> QED
    BY <1>2, FoldDefined DEF CanFold
<1>4. f = [S \in SUBSET DOMAIN items |->
             IF S = {} THEN out
             ELSE Offered(f[S \ {Largest(S)}], items[Largest(S)], limit, strict)]
  <2>1. ASSUME NEW S \in SUBSET (1 .. n), S # {}
        PROVE  G[Largest(S)][f[S \ {Largest(S)}]] =
                 Offered(f[S \ {Largest(S)}], items[Largest(S)], limit, strict)
    <3>1. Largest(S) \in 1 .. n
      BY <2>1, LargestIn
    <3>2. f[S \ {Largest(S)}] \in Seq(D)
      BY <1>3
    <3> QED
      BY <3>1, <3>2
  <2> HIDE DEF G
  <2> QED
    BY <1>1, <1>3, <2>1 DEF Folding
<1>5. iter = [S \in SUBSET DOMAIN items |->
                IF S = {} THEN out
                ELSE Offered(iter[S \ {Largest(S)}], items[Largest(S)], limit, strict)]
  BY <1>4 DEF PassFold
<1> HIDE DEF iter
<1>6. ASSUME NEW k \in 1 .. n
      PROVE  iter[1 .. k] = Offered(iter[1 .. k - 1], items[k], limit, strict)
  <2>1. Largest(1 .. k) = k
    <3>1. 1 .. k \in SUBSET Int /\ k \in 1 .. k /\ \A x \in 1 .. k : x <= k
      OBVIOUS
    <3> QED
      BY <3>1, LargestIs
  <2>2. (1 .. k) \ {k} = 1 .. k - 1 /\ 1 .. k \in SUBSET (1 .. n) /\ 1 .. k # {}
    <3>1. (1 .. k) \ {k} = 1 .. k - 1
      OBVIOUS
    <3>2. 1 .. k \in SUBSET (1 .. n) /\ k \in 1 .. k
      OBVIOUS
    <3> QED
      BY <3>1, <3>2
  <2> QED
    BY <1>1, <1>5, <2>1, <2>2
<1>7. iter[1 .. 0] = out
  <2>1. 1 .. 0 = {}
    OBVIOUS
  <2> QED
    BY <1>1, <1>5, <2>1
<1>8. PassRun(h, out, items, n, limit, strict)
  BY <1>6, <1>7 DEF PassRun
<1>9. Board!Pass(out, items, limit, strict) = h[n]
  BY <1>1, PassIs DEF iter
<1> QED
  BY <1>8, <1>9

\* What a pass makes of a list that fits: it goes on fitting and grows, and in the
\* second pass every item is settled.
LEMMA PassFits ==
  ASSUME NEW n \in Nat, NEW D, NEW items \in [1 .. n -> D], NEW out \in Seq(D),
         NEW limit \in Nat, NEW strict \in BOOLEAN, Fits(out, limit)
  PROVE  /\ Board!Pass(out, items, limit, strict) \in Seq(D)
         /\ Fits(Board!Pass(out, items, limit, strict), limit)
         /\ Grows(out, Board!Pass(out, items, limit, strict))
         /\ n > 0 => Grows(Offered(out, items[1], limit, strict),
                           Board!Pass(out, items, limit, strict))
         /\ ~strict => \A i \in 1 .. n :
                         Settled(Board!Pass(out, items, limit, strict), items[i], limit)
<1>1. PICK h : /\ PassRun(h, out, items, n, limit, strict)
               /\ Board!Pass(out, items, limit, strict) = h[n]
  BY PassRuns
<1>2. h[0] = out /\ \A k \in 1 .. n : h[k] = Offered(h[k - 1], items[k], limit, strict)
  BY <1>1 DEF PassRun
<1>3. \A d \in Seq(D) : Len(d) \in Nat
  OBVIOUS
<1>4. Grows(out, out)
  BY <1>3 DEF Grows
<1> DEFINE Good(k) == /\ h[k] \in Seq(D) /\ Fits(h[k], limit) /\ Grows(out, h[k])
                      /\ k > 0 => Grows(h[1], h[k])
                      /\ ~strict => \A i \in 1 .. k : Settled(h[k], items[i], limit)
           K == {k \in Nat : k <= n => Good(k)}
<1>5. 0 \in K
  <2>1. Good(0)
    BY <1>2, <1>4
  <2> QED
    BY <2>1
<1>6. ASSUME NEW k \in Nat, k \in K
      PROVE  k + 1 \in K
  <2> SUFFICES ASSUME k + 1 <= n
               PROVE  Good(k + 1)
    OBVIOUS
  <2>1. Good(k)
    BY <1>6
  <2>2. h[k + 1] = Offered(h[k], items[k + 1], limit, strict) /\ items[k + 1] \in D
    <3>1. k + 1 \in 1 .. n /\ k + 1 - 1 = k
      OBVIOUS
    <3> QED
      BY <1>2, <3>1
  <2>3. /\ h[k + 1] \in Seq(D) /\ Fits(h[k + 1], limit) /\ Grows(h[k], h[k + 1])
        /\ ~strict => Settled(h[k + 1], items[k + 1], limit)
    BY <2>1, <2>2, OfferedFits
  <2>4. \A d \in Seq(D) : Grows(d, h[k]) => Grows(d, h[k + 1])
    BY <1>3, <2>1, <2>3 DEF Grows
  <2>5. Grows(out, h[k + 1])
    BY <2>1, <2>4
  <2>6. Grows(h[1], h[k + 1])
    <3>1. CASE k = 0
      BY <1>3, <2>3, <3>1 DEF Grows
    <3>2. CASE k # 0
      <4>1. Grows(h[1], h[k])
        BY <2>1, <3>2
      <4> QED
        BY <1>3, <2>1, <2>3, <4>1 DEF Grows
    <3> QED
      BY <3>1, <3>2
  <2>7. ASSUME ~strict, NEW i \in 1 .. k + 1
        PROVE  Settled(h[k + 1], items[i], limit)
    <3>1. CASE i = k + 1
      BY <2>3, <2>7, <3>1
    <3>2. CASE i \in 1 .. k
      <4>1. Settled(h[k], items[i], limit)
        BY <2>1, <2>7, <3>2
      <4>2. Len(h[k]) \in Nat /\ Len(h[k + 1]) \in Nat
        BY <1>3, <2>1, <2>3
      <4> QED
        BY <2>3, <4>1, <4>2, SettledStays
    <3> QED
      BY <3>1, <3>2
  <2> QED
    BY <2>3, <2>5, <2>6, <2>7
<1>7. Good(n)
  <2>1. n \in K
    <3> HIDE DEF K
    <3> QED
      BY <1>5, <1>6, Induction
  <2> QED
    BY <2>1
<1>8. n > 0 => h[1] = Offered(out, items[1], limit, strict)
  <2>1. n > 0 => 1 \in 1 .. n /\ 1 - 1 = 0
    OBVIOUS
  <2> QED
    BY <1>2, <2>1
<1> QED
  BY <1>1, <1>7, <1>8

\* The list that is shown: what ListFills says of it.
LEMMA DiversifiedFills ==
  ASSUME Board!BoardConstants, NEW D \in SUBSET Board!Trade, NEW scores \in [D -> Int],
         NEW limit \in Nat
  PROVE  LET out == Board!Diversified(Board!Ranked(scores), limit)
         IN /\ out \in Seq(D) /\ Fits(out, limit)
            /\ out # <<>> => out[1] = Board!Ranked(scores)[1]
            /\ \A t \in D : Settled(out, t, limit)
<1> DEFINE n == Cardinality(D)
           items == Board!Ranked(scores)
           first == Board!Pass(<<>>, items, limit, TRUE)
           out == Board!Diversified(items, limit)
<1>1. n \in Nat /\ items \in [1 .. n -> D] /\ \A t \in D : \E i \in 1 .. n : items[i] = t
  BY RankedIs
<1>2. <<>> \in Seq(D) /\ Len(<<>>) = 0 /\ Board!ToSet(<<>>) = {} /\ SportsIn(<<>>) = {}
  <2>1. Board!ToSet(<<>>) = {}
    BY DEF Board!ToSet
  <2> QED
    BY <2>1 DEF SportsIn
<1>3. IsFiniteSet({}) /\ Cardinality({}) = 0 /\ Board!SportsCap(limit) \in Nat
  BY FS_EmptySet, MayAddIs
<1>4. Fits(<<>>, limit)
  <2> DEFINE none == <<>>
  <2>1. Len(none) = 0 /\ Board!ToSet(none) = {} /\ SportsIn(none) = {}
    BY <1>2
  <2> HIDE DEF none
  <2>2. Len(none) <= limit /\ Cardinality(SportsIn(none)) <= Board!SportsCap(limit)
    BY <1>3, <2>1
  <2>3. IsFiniteSet(Board!ToSet(none)) /\ Cardinality(Board!ToSet(none)) = Len(none)
    BY <1>3, <2>1
  <2>4. Fits(none, limit)
    BY <2>1, <2>2, <2>3 DEF Fits
  <2> QED
    BY <2>4 DEF none
<1> HIDE DEF items, n
<1>5. CASE limit = 0
  <2>1. out = <<>>
    BY <1>5 DEF Board!Diversified
  <2>2. \A t \in D : Settled(out, t, limit)
    BY <1>2, <1>5, <2>1 DEF Settled
  <2> QED
    BY <1>2, <1>4, <2>1, <2>2 DEF items
<1>6. CASE limit # 0
  <2>1. out = Board!Pass(first, items, limit, FALSE)
    <3>1. ~(limit <= 0)
      BY <1>6
    <3> QED
      BY <3>1 DEF Board!Diversified
  <2>2. /\ first \in Seq(D) /\ Fits(first, limit)
        /\ n > 0 => Grows(Offered(<<>>, items[1], limit, TRUE), first)
    BY <1>1, <1>2, <1>4, PassFits
  <2> HIDE DEF first, out
  <2>3. /\ out \in Seq(D) /\ Fits(out, limit) /\ Grows(first, out)
        /\ \A i \in 1 .. n : Settled(out, items[i], limit)
    BY <1>1, <2>1, <2>2, PassFits
  <2>4. ASSUME out # <<>>
        PROVE  out[1] = items[1]
    <3>1. n > 0
      <4>1. CASE n = 0
        <5>1. D = {}
          BY <1>1, <4>1
        <5>2. out[1] \in D
          BY <2>3, <2>4
        <5> QED
          BY <5>1, <5>2
      <4> QED
        BY <1>1, <4>1
    <3>2. items[1] \in D
      BY <1>1, <3>1
    <3>3. Offered(<<>>, items[1], limit, TRUE) = Append(<<>>, items[1])
      <4>1. Cardinality({u \in Board!ToSet(<<>>) :
                           Facts[u].category = Facts[items[1]].category}) = 0
        <5>1. {u \in Board!ToSet(<<>>) : Facts[u].category = Facts[items[1]].category} = {}
          BY <1>2
        <5> QED
          BY <1>3, <5>1
      <4>2. Board!SportsCap(limit) > 0
        BY <1>6, MayAddIs
      <4>3. Board!MayAdd(<<>>, items[1], limit, TRUE)
        <5> DEFINE none == <<>>
                   t == items[1]
                   alike == {u \in Board!ToSet(none) : Facts[u].category = Facts[t].category}
        <5>1. Board!ToSet(none) = {} /\ SportsIn(none) = {}
          BY <1>2
        <5>2. Cardinality(SportsIn(none)) < Board!SportsCap(limit)
          BY <1>3, <4>2, <5>1
        <5>3. Cardinality(alike) < 3
          BY <4>1
        <5> HIDE DEF none, t
        <5>4. Board!MayAdd(none, t, limit, TRUE)
          BY <5>1, <5>2, <5>3, MayAddIs
        <5> QED
          BY <5>4 DEF none, t
      <4> QED
        BY <1>2, <1>6, <4>3 DEF Offered
    <3>4. Append(<<>>, items[1])[1] = items[1] /\ Append(<<>>, items[1]) # <<>>
      OBVIOUS
    <3>5. first # <<>> /\ first[1] = items[1]
      BY <2>2, <3>1, <3>3, <3>4 DEF Grows
    <3> QED
      BY <2>3, <3>5 DEF Grows
  <2>5. \A t \in D : Settled(out, t, limit)
    BY <1>1, <2>3
  <2> QED
    BY <2>3, <2>4, <2>5 DEF out, items
<1> QED
  BY <1>5, <1>6

\* What a query returns are scores.
LEMMA FirstScores ==
  ASSUME NEW D, NEW scores \in [D -> Int]
  PROVE  \A t \in DOMAIN Board!First(scores) : Board!First(scores)[t] \in Int
BY DEF Board!First

\* What is known of the request under way: its limit, and the scores it has read.
ScoresKnown ==
  /\ list.at # "idle" => list.limit \in Nat
  /\ list.at = "half" => \A t \in DOMAIN list.seen : list.seen[t] \in Int

FillInv == BoardInv /\ ScoresKnown /\ Board!ListFills

\* What the two queries return, and what is made of it, are scores.
LEMMA QueryScores ==
  ASSUME Board!BoardConstants, TapeKnown
  PROVE  /\ \A t \in DOMAIN Board!FlagRows : Board!FlagRows[t] \in Int
         /\ \A t \in DOMAIN Board!EvidenceRows : Board!EvidenceRows[t] \in Int
<1> DEFINE F == {u \in tape : flag[u] # Absent}
           E == {u \in Board!Trade : copies[u] # Absent}
<1>1. [t \in F |-> flag[t]] \in [F -> Int] /\ [t \in E |-> copies[t]] \in [E -> Int]
  BY DEF TapeKnown
<1>2. Board!FlagRows = Board!First([t \in F |-> flag[t]])
      /\ Board!EvidenceRows = Board!First([t \in E |-> copies[t]])
  BY DEF Board!FlagRows, Board!EvidenceRows
<1> HIDE DEF F, E
<1> QED
  BY <1>1, <1>2, FirstScores

\* What is made of both answers are scores of trades.
LEMMA MergedScores ==
  ASSUME Board!BoardConstants, TapeKnown, ListKnown, ScoresKnown, list.at = "half"
  PROVE  \E D \in SUBSET Board!Trade : Board!Merged \in [D -> Int]
<1>1. DOMAIN Board!Merged \in SUBSET Board!Trade
  BY MergedAll
<1>2. list.second = "evidence" /\ \A t \in DOMAIN list.seen : list.seen[t] \in Int
  BY DEF ListKnown, ScoresKnown
<1>3. \A t \in DOMAIN Board!EvidenceRows : Board!EvidenceRows[t] \in Int
  BY QueryScores
<1>4. Board!Merged = [t \in DOMAIN list.seen \union DOMAIN Board!EvidenceRows |->
                        IF t \in DOMAIN list.seen THEN list.seen[t]
                        ELSE Board!EvidenceRows[t]]
  BY <1>2 DEF Board!Merged
<1>5. \A t \in DOMAIN Board!Merged : Board!Merged[t] \in Int
  BY <1>2, <1>3, <1>4
<1>6. Board!Merged \in [DOMAIN Board!Merged -> Int]
  BY <1>4, <1>5
<1> QED
  BY <1>1, <1>6

\* An answer made of scores fills the list.
LEMMA AnswerFills ==
  ASSUME Board!BoardConstants, NEW D \in SUBSET Board!Trade, NEW scores \in [D -> Int],
         NEW rows, list.limit \in Nat, Board!Answer(scores, rows)
  PROVE  ScoresKnown' /\ Board!ListFills'
<1> DEFINE out == Board!Diversified(Board!Ranked(scores), list.limit)
<1>1. list' = [at |-> "answered", limit |-> list.limit, due |-> list.due,
               candidates |-> scores, shown |-> out, source |-> rows]
  BY DEF Board!Answer
<1>2. /\ out \in Seq(D) /\ Fits(out, list.limit)
      /\ out # <<>> => out[1] = Board!Ranked(scores)[1]
      /\ \A t \in D : Settled(out, t, list.limit)
  BY DiversifiedFills
<1> HIDE DEF out
<1>3. ScoresKnown'
  BY <1>1 DEF ScoresKnown
<1>4. /\ list'.shown = out /\ list'.limit = list.limit /\ list'.candidates = scores
      /\ DOMAIN scores = D
  BY <1>1
<1>5. /\ Len(out) <= list.limit /\ Cardinality(Board!ToSet(out)) = Len(out)
      /\ Cardinality(SportsIn(out)) <= Board!SportsCap(list.limit)
      /\ \A t, u \in SportsIn(out) : t # u => Board!SportsEvent(t) # Board!SportsEvent(u)
      /\ IsFiniteSet(Board!ToSet(out))
  BY <1>2 DEF Fits
<1>6. Cardinality(SportsIn(out)) <= 4
  <2>1. Cardinality(SportsIn(out)) \in Nat
    <3>1. SportsIn(out) \in SUBSET Board!ToSet(out)
      BY DEF SportsIn
    <3> QED
      BY <1>5, <3>1, Fewer
  <2>2. Board!SportsCap(list.limit) \in Nat /\ Board!SportsCap(list.limit) <= 4
    BY MayAddIs
  <2> QED
    BY <1>5, <2>1, <2>2
<1>7. Board!ToSet(out) \subseteq D
  BY <1>2 DEF Board!ToSet
<1>8. ASSUME Len(out) < list.limit, NEW t \in D \ Board!ToSet(out)
      PROVE  /\ Board!Sports(t)
             /\ \/ Cardinality(SportsIn(out)) = Board!SportsCap(list.limit)
                \/ \E u \in SportsIn(out) : Board!SportsEvent(u) = Board!SportsEvent(t)
  <2>1. Settled(out, t, list.limit) /\ Len(out) \in Nat
    BY <1>2
  <2> QED
    BY <1>8, <2>1 DEF Settled
<1>9. \A S : Board!Cardinality(S) = Cardinality(S)
  BY SameCount
<1>10. Board!ListFills' = (Board!Answered' =>
         LET shown == Board!ToSet(list'.shown)
             sports == {t \in shown : Board!Sports(t)}
         IN /\ Len(list'.shown) <= list'.limit /\ Board!Cardinality(shown) = Len(list'.shown)
            /\ shown \subseteq DOMAIN list'.candidates
            /\ Board!Cardinality(sports) <= 4
            /\ \A t, u \in sports : t # u => Board!SportsEvent(t) # Board!SportsEvent(u)
            /\ list'.shown # <<>> => list'.shown[1] = Board!Ranked(list'.candidates)[1]
            /\ Len(list'.shown) < list'.limit =>
                 \A t \in DOMAIN list'.candidates \ shown :
                   /\ Board!Sports(t)
                   /\ \/ Board!Cardinality(sports) = Board!SportsCap(list'.limit)
                      \/ \E u \in sports : Board!SportsEvent(u) = Board!SportsEvent(t))
  BY DEF Board!ListFills
<1>11. Board!ListFills'
  BY <1>2, <1>4, <1>5, <1>6, <1>7, <1>8, <1>9, <1>10 DEF SportsIn
<1> QED
  BY <1>3, <1>11

(***************************************************************************)
(* The list of suspicious trades that is shown is as long as it may be: a  *)
(* candidate once, no more sports than their cap and none of one event     *)
(* twice, the first candidate first, and while there is room it leaves out *)
(* only sports that the cap or their event rules out, for any trades,      *)
(* scores and limits: _diversify_suspicious_trades of                      *)
(* app/api/routes/dashboard.py.                                            *)
(***************************************************************************)
THEOREM ListFilled ==
  ASSUME Board!BoardConstants
  PROVE  Board!Spec => []ListFills
<1>1. ASSUME Board!Init
      PROVE  FillInv
  <2>1. list.at = "idle"
    BY <1>1 DEF Board!Init, Board!Waiting
  <2>2. BoardInv
    BY <1>1, BoardStarts
  <2> QED
    BY <2>1, <2>2 DEF FillInv, ScoresKnown, Board!ListFills, Board!Answered
<1>2. ASSUME FillInv, [Board!Next]_(Board!vars)
      PROVE  FillInv'
  <2>1. BoardInv'
    BY <1>2, BoardStays DEF FillInv
  <2>2. BoardInv /\ TapeKnown /\ ListKnown /\ ScoresKnown /\ Board!ListFills
    BY <1>2 DEF FillInv, BoardInv
  <2>3. ASSUME UNCHANGED list
        PROVE  ScoresKnown' /\ Board!ListFills'
    BY <2>2, <2>3 DEF ScoresKnown, Board!ListFills, Board!Answered
  <2>4. ASSUME list'.at \in {"idle", "asked"}, list'.at = "asked" => list'.limit \in Nat
        PROVE  ScoresKnown' /\ Board!ListFills'
    BY <2>4 DEF ScoresKnown, Board!ListFills, Board!Answered
  <2>5. CASE Board!Request
    <3>1. PICK limit \in Limits :
            list' = [at |-> "asked", limit |-> limit, due |-> Board!Recorded]
      BY <2>5 DEF Board!Request
    <3>2. limit \in Nat
      BY <3>1 DEF Board!BoardConstants
    <3> QED
      BY <2>1, <2>4, <3>1, <3>2 DEF FillInv
  <2>6. CASE Board!ReadOne
    <3>1. /\ list' = [at |-> "half", limit |-> list.limit, due |-> list.due,
                      seen |-> Board!FlagRows, second |-> "evidence"]
          /\ list.at = "asked"
      BY <2>6 DEF Board!ReadOne, Board!ReadFirst
    <3>2. \A t \in DOMAIN Board!FlagRows : Board!FlagRows[t] \in Int
      BY <2>2, QueryScores
    <3>3. ScoresKnown' /\ Board!ListFills'
      BY <2>2, <3>1, <3>2 DEF ScoresKnown, Board!ListFills, Board!Answered
    <3> QED
      BY <2>1, <3>3 DEF FillInv
  <2>7. CASE Board!ReadTwo
    <3>1. list.at = "half" /\ Board!Answer(Board!Merged, "tables") /\ list.limit \in Nat
      BY <2>2, <2>7 DEF Board!ReadTwo, ScoresKnown
    <3>2. PICK D \in SUBSET Board!Trade : Board!Merged \in [D -> Int]
      BY <2>2, <3>1, MergedScores
    <3>3. ScoresKnown' /\ Board!ListFills'
      BY <3>1, <3>2, AnswerFills
    <3> QED
      BY <2>1, <3>3 DEF FillInv
  <2>8. CASE Board!ScoreTape
    <3>1. PICK some \in SUBSET tape : Board!Answer([t \in some |-> Facts[t].score], "tape")
      BY <2>8 DEF Board!ScoreTape
    <3>2. some \in SUBSET Board!Trade /\ \A t \in some : Facts[t].score \in Int
      BY <2>2, <3>1 DEF TapeKnown, Board!BoardConstants
    <3>3. [t \in some |-> Facts[t].score] \in [some -> Int] /\ list.limit \in Nat
      BY <2>2, <2>8, <3>2 DEF Board!ScoreTape, ScoresKnown
    <3>4. ScoresKnown' /\ Board!ListFills'
      BY <3>1, <3>2, <3>3, AnswerFills
    <3> QED
      BY <2>1, <3>4 DEF FillInv
  <2>9. CASE Board!Respond
    BY <2>1, <2>4, <2>9 DEF Board!Respond, Board!Waiting, FillInv
  <2>10. CASE \E t \in Board!Trade : Board!Flag(t) \/ Board!Copy(t) \/ Board!Delete(t)
    BY <2>1, <2>3, <2>10 DEF Board!Flag, Board!Copy, Board!Delete, Board!Move, FillInv
  <2>11. CASE UNCHANGED Board!vars
    BY <2>1, <2>3, <2>11 DEF Board!vars, FillInv
  <2> QED
    BY <1>2, <2>5, <2>6, <2>7, <2>8, <2>9, <2>10, <2>11 DEF Board!Next
<1>3. FillInv => ListFills
  BY DEF FillInv, ListFills
<1> QED
  BY <1>1, <1>2, <1>3, PTL DEF Board!Spec

(* ---- The lists of markets -------------------------------------------------- *)

\* What a list has loaded was in its scope when it asked.
ScopeInv ==
  /\ hour \in Nat /\ zone \in Zones /\ listed \in Scope!Rows
  /\ answer \in [scope : {"none", "active", "historical"}, row : Scope!Rows, asked : Nat]
  /\ answer.asked <= hour
  /\ answer.scope # "none" => Scope!Selected(answer.scope, answer.row, answer.asked)

\* The types of a row.
LEMMA RowIs ==
  ASSUME Scope!ScopeConstants, zone \in Zones, NEW row \in Scope!Rows
  PROVE  /\ row.status \in Spellings /\ zone \in Int /\ StaleHours \in Nat
         /\ row.close = Absent \/ row.close \in Int
         /\ \/ row.date = Absent
            \/ row.date = NoDay
            \/ row.date \in Dates /\ row.date \in Int
         /\ Absent \notin Dates /\ NoDay \notin Dates /\ NoDay # Absent
BY DEF Scope!ScopeConstants, Scope!Rows

\* What the SQL says of a date is false when there is none, and unknown when it is none
\* of the calendar.
LEMMA StaleIs ==
  ASSUME Scope!ScopeConstants, zone \in Zones, NEW row \in Scope!Rows, NEW n \in Nat
  PROVE  /\ row.date = Absent => Scope!StaleExpr(row, n) = 0
         /\ row.date = NoDay => Scope!StaleExpr(row, n) = 1
         /\ row.date \in Dates =>
              Scope!StaleExpr(row, n) = IF row.date + StaleHours <= n + zone THEN 2 ELSE 0
<1>0. /\ zone \in Int /\ StaleHours \in Nat /\ Absent \notin Int
      /\ row.date = Absent \/ row.date = NoDay \/ row.date \in Dates
      /\ Absent \notin Dates /\ NoDay \notin Dates /\ NoDay # Absent
  BY RowIs DEF Scope!ScopeConstants
<1>1. CASE row.date = Absent
  <2>1. Scope!Sql(row.date # Absent) = 0
    BY <1>1 DEF Scope!Sql, Scope!False
  <2>2. Scope!AtMost(Scope!Cutoff(row), n, Absent) = 1
    BY <1>0, <1>1 DEF Scope!Cutoff, Scope!AtMost, Scope!Unknown
  <2> QED
    BY <1>0, <1>1, <2>1, <2>2 DEF Scope!StaleExpr, Scope!And
<1>2. CASE row.date = NoDay
  <2>1. Scope!Sql(row.date # Absent) = 2
    BY <1>0, <1>2 DEF Scope!Sql, Scope!True
  <2>2. Scope!AtMost(Scope!Cutoff(row), n, Absent) = 1
    BY <1>0, <1>2 DEF Scope!Cutoff, Scope!AtMost, Scope!Unknown
  <2> QED
    BY <1>0, <1>2, <2>1, <2>2 DEF Scope!StaleExpr, Scope!And
<1>3. CASE row.date \in Dates
  <2>1. Scope!Sql(row.date # Absent) = 2
    BY <1>0, <1>3 DEF Scope!Sql, Scope!True
  <2>2. row.date \in Int /\ Scope!Cutoff(row) = row.date - zone + StaleHours
        /\ n # Absent /\ Scope!Cutoff(row) # Absent
    <3>1. row.date \in Int
      BY <1>3 DEF Scope!ScopeConstants
    <3>2. Scope!Cutoff(row) = row.date - zone + StaleHours
      BY <1>3 DEF Scope!Cutoff
    <3>3. row.date - zone + StaleHours \in Int
      BY <1>0, <3>1
    <3> QED
      BY <1>0, <3>1, <3>2, <3>3
  <2>3. Scope!AtMost(Scope!Cutoff(row), n, Absent)
          = IF row.date + StaleHours <= n + zone THEN 2 ELSE 0
    <3>1. Scope!AtMost(Scope!Cutoff(row), n, Absent)
            = IF row.date - zone + StaleHours <= n THEN 2 ELSE 0
      BY <2>2 DEF Scope!AtMost, Scope!Sql, Scope!True, Scope!False
    <3>2. row.date - zone + StaleHours <= n <=> row.date + StaleHours <= n + zone
      BY <1>0, <2>2
    <3> QED
      BY <3>1, <3>2
  <2> QED
    BY <1>0, <1>3, <2>1, <2>3 DEF Scope!StaleExpr, Scope!And
<1> QED
  BY <1>0, <1>1, <1>2, <1>3

\* When a row is in the list of active markets.
LEMMA ActiveIs ==
  ASSUME Scope!ScopeConstants, zone \in Zones, NEW row \in Scope!Rows, NEW n \in Nat
  PROVE  Scope!Selected("active", row, n) <=>
           /\ row.status \in {"open", "active"}
           /\ row.close = Absent \/ n < row.close
           /\ row.date # NoDay
           /\ row.date \in Dates => n + zone < row.date + StaleHours
<1> DEFINE stale == Scope!StaleExpr(row, n)
           status == Scope!Sql(row.status \in Scope!ActiveStatuses)
           open == Scope!Or(Scope!Sql(row.close = Absent), Scope!Less(n, row.close, Absent))
<1>0. /\ zone \in Int /\ StaleHours \in Nat
      /\ row.close = Absent \/ row.close \in Int
      /\ Absent \notin Int /\ n # Absent
      /\ \/ row.date = Absent
         \/ row.date = NoDay
         \/ row.date \in Dates /\ row.date \in Int
      /\ Absent \notin Dates /\ NoDay \notin Dates /\ NoDay # Absent
  BY RowIs DEF Scope!ScopeConstants
<1>1. /\ stale \in {0, 1, 2}
      /\ stale = 0 <=> /\ row.date # NoDay
                       /\ row.date \in Dates => n + zone < row.date + StaleHours
  <2>1. CASE row.date \notin Dates
    BY <1>0, <2>1, StaleIs
  <2>2. CASE row.date \in Dates
    <3>1. row.date \in Int
      BY <1>0, <2>2
    <3>2. row.date + StaleHours <= n + zone <=> ~(n + zone < row.date + StaleHours)
      BY <1>0, <3>1
    <3>3. stale = IF row.date + StaleHours <= n + zone THEN 2 ELSE 0
      BY <2>2, StaleIs
    <3> QED
      BY <1>0, <2>2, <3>2, <3>3
  <2> QED
    BY <2>1, <2>2
<1>2. status = IF row.status \in {"open", "active"} THEN 2 ELSE 0
  BY DEF Scope!Sql, Scope!True, Scope!False, Scope!ActiveStatuses
<1>3. /\ open \in {0, 1, 2}
      /\ open = 2 <=> row.close = Absent \/ n < row.close
  <2>1. CASE row.close = Absent
    BY <2>1 DEF Scope!Or, Scope!Sql, Scope!Less, Scope!True, Scope!False, Scope!Unknown
  <2>2. CASE row.close # Absent
    BY <1>0, <2>2 DEF Scope!Or, Scope!Sql, Scope!Less, Scope!True, Scope!False
  <2> QED
    BY <2>1, <2>2
<1>4. Scope!Selected("active", row, n) <=>
        Scope!And(Scope!And(status, open), Scope!Not(stale)) = 2
  BY DEF Scope!Selected, Scope!ActiveFilter, Scope!True
<1> HIDE DEF stale, status, open
<1>5. Scope!And(Scope!And(status, open), Scope!Not(stale)) = 2
        <=> status = 2 /\ open = 2 /\ stale = 0
  BY <1>1, <1>2, <1>3 DEF Scope!And, Scope!Not
<1> QED
  BY <1>1, <1>2, <1>3, <1>4, <1>5

\* When it is in that of historical ones.
LEMMA HistoricalIs ==
  ASSUME Scope!ScopeConstants, zone \in Zones, NEW row \in Scope!Rows, NEW n \in Nat
  PROVE  Scope!Selected("historical", row, n) <=>
           \/ row.status \notin {"open", "active"}
           \/ row.close # Absent /\ row.close <= n
           \/ row.date \in Dates /\ row.date + StaleHours <= n + zone
<1> DEFINE stale == Scope!StaleExpr(row, n)
           status == Scope!Sql(row.status \notin Scope!ActiveStatuses)
           closed == Scope!AtMost(row.close, n, Absent)
<1>0. /\ row.close = Absent \/ row.close \in Int
      /\ Absent \notin Int /\ n # Absent
      /\ row.date = Absent \/ row.date = NoDay \/ row.date \in Dates
      /\ Absent \notin Dates /\ NoDay \notin Dates /\ NoDay # Absent
  BY RowIs DEF Scope!ScopeConstants
<1>1. /\ stale \in {0, 1, 2}
      /\ stale = 2 <=> row.date \in Dates /\ row.date + StaleHours <= n + zone
  BY <1>0, StaleIs
<1>2. status = IF row.status \notin {"open", "active"} THEN 2 ELSE 0
  BY DEF Scope!Sql, Scope!True, Scope!False, Scope!ActiveStatuses
<1>3. /\ closed \in {0, 1, 2}
      /\ closed = 2 <=> row.close # Absent /\ row.close <= n
  BY <1>0 DEF Scope!AtMost, Scope!Sql, Scope!True, Scope!False, Scope!Unknown
<1>4. Scope!Selected("historical", row, n) <=>
        Scope!Or(Scope!Or(status, closed), stale) = 2
  BY DEF Scope!Selected, Scope!HistoricalFilter, Scope!True
<1> HIDE DEF stale, status, closed
<1>5. Scope!Or(Scope!Or(status, closed), stale) = 2 <=> status = 2 \/ closed = 2 \/ stale = 2
  BY <1>1, <1>2, <1>3 DEF Scope!Or
<1> QED
  BY <1>1, <1>2, <1>3, <1>4, <1>5

\* No row is in both lists, and none out of both unless its date is none.
LEMMA ScopesPart ==
  ASSUME Scope!ScopeConstants, ScopeInv
  PROVE  Scope!Partition
<1>0. /\ zone \in Zones /\ zone \in Int /\ StaleHours \in Nat /\ hour \in Nat
      /\ listed.close = Absent \/ listed.close \in Int
      /\ \/ listed.date = Absent
         \/ listed.date = NoDay
         \/ listed.date \in Dates /\ listed.date \in Int
  BY RowIs DEF ScopeInv
<1>1. Scope!Selected("active", listed, hour) <=>
        /\ listed.status \in {"open", "active"}
        /\ listed.close = Absent \/ hour < listed.close
        /\ listed.date # NoDay
        /\ listed.date \in Dates => hour + zone < listed.date + StaleHours
  BY ActiveIs DEF ScopeInv
<1>2. Scope!Selected("historical", listed, hour) <=>
        \/ listed.status \notin {"open", "active"}
        \/ listed.close # Absent /\ listed.close <= hour
        \/ listed.date \in Dates /\ listed.date + StaleHours <= hour + zone
  BY HistoricalIs DEF ScopeInv
<1>3. listed.close # Absent => (listed.close <= hour <=> ~(hour < listed.close))
  BY <1>0
<1>4. listed.date \in Dates => (listed.date + StaleHours <= hour + zone
                                  <=> ~(hour + zone < listed.date + StaleHours))
  <2>1. CASE listed.date \in Int
    BY <1>0, <2>1
  <2>2. CASE listed.date \notin Int
    BY <2>2 DEF Scope!ScopeConstants
  <2> QED
    BY <2>1, <2>2
<1> QED
  BY <1>1, <1>2, <1>3, <1>4 DEF Scope!Partition

\* The labels follow the clock.
LEMMA LabelsAgree ==
  ASSUME Scope!ScopeConstants, ScopeInv
  PROVE  /\ answer.scope = "active" => Scope!ActiveLabel
         /\ answer.scope = "historical" => Scope!HistoricalLabel
<1> DEFINE row == answer.row
           n == answer.asked
<1>0. /\ row \in Scope!Rows /\ n \in Nat /\ n <= hour /\ hour \in Nat /\ zone \in Zones
      /\ answer.scope # "none" => Scope!Selected(answer.scope, row, n)
  BY DEF ScopeInv
<1>1. /\ row.status \in Spellings /\ zone \in Int /\ StaleHours \in Nat
      /\ row.close = Absent \/ row.close \in Int
      /\ row.date \in Dates => row.date \in Int
      /\ Lower["active"] = "active" /\ Lower["open"] = "open"
  BY <1>0, RowIs DEF Scope!ScopeConstants
<1>2. ASSUME answer.scope = "active"
      PROVE  Scope!ActiveLabel
  <2>1. /\ row.status \in {"open", "active"}
        /\ row.close = Absent \/ n < row.close
        /\ row.date \in Dates => n + zone < row.date + StaleHours
    BY <1>0, <1>2, ActiveIs
  <2>2. CASE Scope!Stale(row, hour)
    BY <2>1, <2>2 DEF Scope!Stale, Scope!ActiveLabel
  <2>3. CASE ~Scope!Stale(row, hour) /\ Scope!Closed(row, hour)
    BY <2>1, <2>3 DEF Scope!Closed, Scope!ActiveLabel
  <2>4. CASE ~Scope!Stale(row, hour) /\ ~Scope!Closed(row, hour)
    <3>1. Lower[row.status] \in Scope!ActiveStatuses
      BY <1>1, <2>1 DEF Scope!ActiveStatuses
    <3>2. Scope!Lifecycle(row, hour) = "active"
      BY <2>4, <3>1 DEF Scope!Lifecycle
    <3> QED
      BY <3>2 DEF Scope!ActiveLabel
  <2> QED
    BY <2>2, <2>3, <2>4
<1>3. ASSUME answer.scope = "historical"
      PROVE  Scope!HistoricalLabel
  <2>1. \/ row.status \notin {"open", "active"}
        \/ row.close # Absent /\ row.close <= n
        \/ row.date \in Dates /\ row.date + StaleHours <= n + zone
    BY <1>0, <1>3, HistoricalIs
  <2>2. CASE Scope!Stale(row, hour) \/ Scope!Closed(row, hour)
    <3>1. Scope!Lifecycle(row, hour) # "active"
      BY <2>2 DEF Scope!Lifecycle
    <3> QED
      BY <3>1 DEF Scope!HistoricalLabel
  <2>3. CASE row.status \notin {"open", "active"}
    <3>1. CASE Lower[row.status] = row.status
      <4>1. Lower[row.status] \notin Scope!ActiveStatuses
        BY <2>3, <3>1 DEF Scope!ActiveStatuses
      <4>2. Scope!Lifecycle(row, hour) # "active"
        BY <4>1 DEF Scope!Lifecycle, Scope!ActiveStatuses
      <4> QED
        BY <4>2 DEF Scope!HistoricalLabel
    <3> QED
      BY <3>1 DEF Scope!HistoricalLabel
  <2>4. CASE row.close # Absent /\ row.close <= n
    <3>1. row.close <= hour
      BY <1>0, <1>1, <2>4
    <3> QED
      BY <2>2, <2>4, <3>1 DEF Scope!Closed
  <2>5. CASE ~Scope!Stale(row, hour) /\ row.date \in Dates /\ row.date + StaleHours <= n + zone
    <3>1. /\ row.date \in Int /\ ~(row.date + StaleHours <= hour)
      BY <1>1, <2>5 DEF Scope!Stale
    <3>2. hour < row.date + StaleHours
      BY <1>0, <1>1, <3>1
    <3> QED
      BY <2>5, <3>2 DEF Scope!HistoricalLabel
  <2> QED
    BY <2>1, <2>2, <2>3, <2>4, <2>5
<1> QED
  BY <1>2, <1>3

\* A step keeps what is known.
LEMMA ScopeStays ==
  ASSUME Scope!ScopeConstants, ScopeInv, [Scope!Next]_scopeVars
  PROVE  ScopeInv'
<1>0. /\ hour \in Nat /\ zone \in Zones /\ listed \in Scope!Rows
      /\ answer \in [scope : {"none", "active", "historical"}, row : Scope!Rows, asked : Nat]
      /\ answer.asked <= hour
      /\ answer.scope # "none" => Scope!Selected(answer.scope, answer.row, answer.asked)
  BY DEF ScopeInv
<1>1. ASSUME zone' = zone, NEW scope, NEW row, NEW n
      PROVE  Scope!Selected(scope, row, n)' = Scope!Selected(scope, row, n)
  BY <1>1 DEF Scope!Selected, Scope!ActiveFilter, Scope!HistoricalFilter, Scope!StaleExpr,
              Scope!Cutoff, Scope!And, Scope!Or, Scope!Not, Scope!Sql, Scope!Less,
              Scope!AtMost, Scope!ActiveStatuses
<1>2. CASE Scope!Tick
  <2>1. hour' \in Nat /\ hour <= hour' /\ UNCHANGED <<zone, listed, answer>>
    BY <1>0, <1>2 DEF Scope!Tick
  <2>2. answer.asked <= hour'
    BY <1>0, <2>1
  <2> QED
    BY <1>0, <1>1, <2>1, <2>2 DEF ScopeInv
<1>3. CASE Scope!Ingest
  <2>1. PICK status \in Spellings, close \in Closes \union {Absent} :
          listed' = [listed EXCEPT !.status = status, !.close = close]
    BY <1>3 DEF Scope!Ingest
  <2>2. listed' \in Scope!Rows
    BY <1>0, <2>1 DEF Scope!Rows
  <2>3. UNCHANGED <<hour, zone, answer>>
    BY <1>3 DEF Scope!Ingest
  <2> QED
    BY <1>0, <1>1, <2>2, <2>3 DEF ScopeInv
<1>4. ASSUME NEW scope \in {"active", "historical"}, Scope!List(scope)
      PROVE  ScopeInv'
  <2>1. UNCHANGED <<hour, zone, listed>>
    BY <1>4 DEF Scope!List
  <2>2. CASE /\ Scope!Selected(scope, listed, hour)
             /\ answer' = [scope |-> scope, row |-> listed, asked |-> hour]
    <3>1. answer'.scope = scope /\ answer'.row = listed /\ answer'.asked = hour
      BY <2>2
    <3>2. Scope!Selected(answer.scope, answer.row, answer.asked)'
      BY <1>1, <2>1, <2>2, <3>1
    <3>3. answer' \in [scope : {"none", "active", "historical"}, row : Scope!Rows, asked : Nat]'
      BY <1>0, <1>4, <2>1, <2>2 DEF Scope!Rows
    <3> QED
      BY <1>0, <2>1, <3>1, <3>2, <3>3 DEF ScopeInv
  <2>3. CASE answer' = [answer EXCEPT !.scope = "none"]
    <3>1. answer \in [scope : {"none", "active", "historical"}, row : Scope!Rows, asked : Nat]
      BY <1>0
    <3>2. answer'.scope = "none" /\ answer'.row = answer.row /\ answer'.asked = answer.asked
      BY <2>3, <3>1
    <3>3. answer' \in [scope : {"none", "active", "historical"}, row : Scope!Rows, asked : Nat]'
      BY <2>3, <3>1 DEF Scope!Rows
    <3> QED
      BY <1>0, <2>1, <3>2, <3>3 DEF ScopeInv
  <2> QED
    BY <1>4, <2>2, <2>3 DEF Scope!List
<1>5. CASE UNCHANGED scopeVars
  BY <1>0, <1>1, <1>5 DEF scopeVars, ScopeInv
<1> QED
  BY <1>2, <1>3, <1>4, <1>5 DEF Scope!Next

(***************************************************************************)
(* The SQL filters of the lists of active and of historical markets split  *)
(* the rows between them, but for one whose ticker has a day that no       *)
(* calendar has, and the Python label of a listed row agrees with its list *)
(* but for what the clock, the time zone of the session and the spelling   *)
(* of a status account for, for any times, dates, zones and statuses:      *)
(* market_scope_filters and market_lifecycle.                              *)
(***************************************************************************)
THEOREM ScopesAgreed ==
  ASSUME Scope!ScopeConstants
  PROVE  Scope!Spec => []ScopesAgree
<1>1. Scope!Init => ScopeInv
  <2> SUFFICES ASSUME Scope!Init
               PROVE  ScopeInv
    OBVIOUS
  <2>1. /\ answer \in [scope : {"none", "active", "historical"}, row : Scope!Rows, asked : Nat]
        /\ answer.scope = "none" /\ answer.asked = 0
    BY DEF Scope!Init
  <2> QED
    BY <2>1 DEF Scope!Init, ScopeInv
<1>2. ScopeInv /\ [Scope!Next]_scopeVars => ScopeInv'
  BY ScopeStays
<1>3. ScopeInv => ScopesAgree
  BY ScopesPart, LabelsAgree DEF ScopesAgree, Scope!ScopesAgree
<1>4. Scope!Spec => Scope!Init /\ [][Scope!Next]_scopeVars
  BY DEF Scope!Spec, Scope!vars, scopeVars
<1> QED
  BY <1>1, <1>2, <1>3, <1>4, PTL

(* ---- What is first in an order -------------------------------------------- *)

\* How many elements have a smaller key.
Ahead(S, key, x) == Cardinality({y \in S : key[y] < key[x]})

\* The elements at the places from .. upto - 1.
Between(S, key, from, upto) == {x \in S : Ahead(S, key, x) \in from .. upto - 1}

\* Every place of a finite set is that of one element.
LEMMA Places ==
  ASSUME NEW S, IsFiniteSet(S), NEW key \in [S -> Int],
         \A x, y \in S : key[x] = key[y] => x = y
  PROVE  /\ Cardinality(S) \in Nat
         /\ \A x \in S : Ahead(S, key, x) \in 0 .. Cardinality(S) - 1
         /\ \A x, y \in S : Ahead(S, key, x) = Ahead(S, key, y) => x = y
         /\ \A k \in 0 .. Cardinality(S) - 1 : \E x \in S : Ahead(S, key, x) = k
<1> DEFINE before(x) == {y \in S : key[y] < key[x]}
           rank == [x \in S |-> Ahead(S, key, x)]
           c == Cardinality(S)
<1>1. c \in Nat
  BY FS_CardinalityType
<1>2. \A x \in S : key[x] \in Int
  OBVIOUS
<1>3. \A x \in S : before(x) \in SUBSET (S \ {x})
  BY <1>2
<1>4. ASSUME NEW x \in S, NEW y \in S, x # y
      PROVE  \/ before(x) \in SUBSET (before(y) \ {x}) /\ x \in before(y)
             \/ before(y) \in SUBSET (before(x) \ {y}) /\ y \in before(x)
  <2>1. key[x] < key[y] \/ key[y] < key[x]
    BY <1>2, <1>4
  <2> QED
    BY <1>2, <2>1
<1>5. \A x : Ahead(S, key, x) = Cardinality(before(x))
  BY DEF Ahead
<1> HIDE DEF before
<1>6. \A x \in S : /\ IsFiniteSet(before(x)) /\ Cardinality(before(x)) \in Nat
                   /\ Cardinality(before(x)) + 1 <= c
  BY <1>3, Fewer, OneFewer
<1>7. rank \in [S -> 0 .. c - 1]
  <2>1. \A x \in S : Ahead(S, key, x) \in 0 .. c - 1
    <3> HIDE DEF c
    <3> QED
      BY <1>1, <1>5, <1>6
  <2> QED
    BY <2>1
<1>8. ASSUME NEW x \in S, NEW y \in S, x # y
      PROVE  rank[x] # rank[y]
  <2>1. \/ Cardinality(before(x)) + 1 <= Cardinality(before(y))
        \/ Cardinality(before(y)) + 1 <= Cardinality(before(x))
    BY <1>4, <1>6, <1>8, OneFewer
  <2>2. rank[x] = Cardinality(before(x)) /\ rank[y] = Cardinality(before(y))
    BY <1>5
  <2> QED
    BY <1>6, <2>1, <2>2
<1>9. rank \in Surjection(S, 0 .. c - 1)
  <2>1. rank \in Injection(S, 0 .. c - 1)
    BY <1>7, <1>8 DEF Injection, IsInjective
  <2>2. IsFiniteSet(0 .. c - 1) /\ Cardinality(0 .. c - 1) = c
    <3> HIDE DEF c
    <3>1. c - 1 \in Int
      BY <1>1
    <3>2. IsFiniteSet(0 .. c - 1)
          /\ Cardinality(0 .. c - 1) = IF 0 > c - 1 THEN 0 ELSE c - 1 - 0 + 1
      BY <3>1, FS_Interval
    <3> QED
      BY <1>1, <3>2
  <2> HIDE DEF rank
  <2> QED
    BY <2>1, <2>2, FS_Injection
<1>10. \A k \in 0 .. c - 1 : \E x \in S : rank[x] = k
  BY <1>9 DEF Surjection
<1>11. \A x \in S : rank[x] = Ahead(S, key, x)
  OBVIOUS
<1> HIDE DEF rank
<1> QED
  BY <1>1, <1>7, <1>8, <1>10, <1>11

\* What lies at some places: no more than the places, and when a place of them is
\* empty, nothing comes after them.
LEMMA WindowIs ==
  ASSUME NEW S, IsFiniteSet(S), NEW key \in [S -> Int],
         \A x, y \in S : key[x] = key[y] => x = y,
         NEW from \in Nat, NEW upto \in Nat, from <= upto
  PROVE  /\ IsFiniteSet(Between(S, key, from, upto))
         /\ Cardinality(Between(S, key, from, upto)) \in Nat
         /\ Cardinality(Between(S, key, from, upto)) <= upto - from
         /\ \/ Cardinality(Between(S, key, from, upto)) = upto - from
            \/ \A x \in S : Ahead(S, key, x) < upto
<1> DEFINE W == Between(S, key, from, upto)
           I == from .. upto - 1
           rank == [x \in W |-> Ahead(S, key, x)]
           c == Cardinality(S)
<1>1. /\ c \in Nat /\ \A x \in S : Ahead(S, key, x) \in 0 .. c - 1
      /\ \A x, y \in S : Ahead(S, key, x) = Ahead(S, key, y) => x = y
      /\ \A k \in 0 .. c - 1 : \E x \in S : Ahead(S, key, x) = k
  BY Places
<1>2. W \in SUBSET S /\ \A x \in S : x \in W <=> Ahead(S, key, x) \in I
  BY DEF Between
<1>3. IsFiniteSet(W) /\ Cardinality(W) \in Nat
  BY <1>2, Fewer
<1> HIDE DEF W
<1>4. rank \in Injection(W, I)
  <2>1. rank \in [W -> I]
    BY <1>2
  <2>2. \A x, y \in W : rank[x] = rank[y] => x = y
    BY <1>1, <1>2
  <2> QED
    BY <2>1, <2>2 DEF Injection, IsInjective
<1>5. IsFiniteSet(I) /\ Cardinality(I) = upto - from
  <2>1. upto - 1 \in Int
    OBVIOUS
  <2>2. IsFiniteSet(from .. upto - 1)
        /\ Cardinality(from .. upto - 1) = IF from > upto - 1 THEN 0 ELSE upto - 1 - from + 1
    BY <2>1, FS_Interval
  <2> QED
    BY <2>2
<1>6. Cardinality(W) <= upto - from
      /\ (Cardinality(W) = Cardinality(I) <=> rank \in Surjection(W, I))
  <2> HIDE DEF rank, I
  <2> QED
    BY <1>4, <1>5, FS_Injection
<1>7. CASE c >= upto
  <2>1. ASSUME NEW k \in I
        PROVE  \E x \in W : rank[x] = k
    <3>1. k \in 0 .. c - 1
      <4> HIDE DEF c
      <4> QED
        BY <1>1, <1>7
    <3>2. PICK x \in S : Ahead(S, key, x) = k
      BY <1>1, <3>1
    <3> QED
      BY <1>2, <3>2
  <2>2. rank \in Surjection(W, I)
    <3>1. rank \in [W -> I]
      BY <1>4 DEF Injection
    <3> HIDE DEF rank, I
    <3> QED
      BY <2>1, <3>1 DEF Surjection
  <2> QED
    BY <1>3, <1>5, <1>6, <2>2 DEF W
<1>8. CASE ~(c >= upto)
  <2>1. ASSUME NEW x \in S
        PROVE  Ahead(S, key, x) < upto
    <3>1. Ahead(S, key, x) \in 0 .. c - 1
      BY <1>1
    <3> HIDE DEF c
    <3> QED
      BY <1>1, <1>8, <3>1
  <2> QED
    BY <1>3, <1>6, <2>1 DEF W
<1> QED
  BY <1>7, <1>8

\* The first n of a set.
Firsts(S, key, n) == {x \in S : Ahead(S, key, x) < n}

\* They are n, or all of it.
LEMMA FirstOf ==
  ASSUME NEW S, IsFiniteSet(S), NEW key \in [S -> Int],
         \A x, y \in S : key[x] = key[y] => x = y, NEW n \in Nat
  PROVE  /\ Firsts(S, key, n) \in SUBSET S /\ IsFiniteSet(Firsts(S, key, n))
         /\ Cardinality(Firsts(S, key, n)) \in Nat /\ Cardinality(Firsts(S, key, n)) <= n
         /\ Cardinality(Firsts(S, key, n)) = n \/ Firsts(S, key, n) = S
<1> DEFINE zero == 0
<1>1. \A x \in S : Ahead(S, key, x) \in Nat
  BY Places
<1>2. Firsts(S, key, n) = Between(S, key, zero, n)
  <2>1. \A x \in S : Ahead(S, key, x) < n <=> Ahead(S, key, x) \in 0 .. n - 1
    BY <1>1
  <2> QED
    BY <2>1 DEF Between, Firsts
<1>3. zero \in Nat /\ zero <= n /\ n - zero = n
  OBVIOUS
<1> HIDE DEF zero
<1>4. /\ IsFiniteSet(Between(S, key, zero, n)) /\ Cardinality(Between(S, key, zero, n)) \in Nat
      /\ Cardinality(Between(S, key, zero, n)) <= n - zero
      /\ \/ Cardinality(Between(S, key, zero, n)) = n - zero
         \/ \A x \in S : Ahead(S, key, x) < n
  BY <1>3, WindowIs
<1> QED
  BY <1>2, <1>3, <1>4 DEF Firsts

(* ---- A search finds what it owes ------------------------------------------ *)

\* Markets by id, articles newest first.
Order(kind) == [r \in Int |-> IF kind = "markets" THEN r ELSE -r]

OrderOf(kind, S) == [r \in S |-> Order(kind)[r]]

\* The order in which a statement lists rows tells them apart.
LEMMA OrderIs ==
  ASSUME NEW kind, NEW S \in SUBSET Int
  PROVE  /\ OrderOf(kind, S) \in [S -> Int]
         /\ \A x, y \in S : OrderOf(kind, S)[x] = OrderOf(kind, S)[y] => x = y
         /\ \A r \in S : {s \in S : OrderOf(kind, S)[s] < OrderOf(kind, S)[r]} =
                         {s \in S : IF kind = "markets" THEN s < r ELSE s > r}
<1>1. CASE kind = "markets"
  BY <1>1 DEF OrderOf, Order
<1>2. CASE kind # "markets"
  <2>1. \A x, y \in Int : /\ -x \in Int /\ (-x < -y <=> x > y)
                          /\ -x = -y => x = y
    OBVIOUS
  <2>2. \A x \in S : OrderOf(kind, S)[x] = -x
    BY <1>2 DEF OrderOf, Order
  <2>3. OrderOf(kind, S) \in [S -> Int]
    BY <2>1, <2>2 DEF OrderOf
  <2>4. \A x, y \in S : OrderOf(kind, S)[x] = OrderOf(kind, S)[y] => x = y
    BY <2>1, <2>2
  <2>5. ASSUME NEW r \in S
        PROVE  {s \in S : OrderOf(kind, S)[s] < OrderOf(kind, S)[r]} =
               {s \in S : IF kind = "markets" THEN s < r ELSE s > r}
    <3>1. \A s \in S : OrderOf(kind, S)[s] < OrderOf(kind, S)[r] <=> s > r
      BY <2>1, <2>2
    <3> QED
      BY <1>2, <3>1
  <2> QED
    BY <2>3, <2>4, <2>5
<1> QED
  BY <1>1, <1>2

\* Rows of a kind that are in a table.
Known(rows) ==
  /\ rows \in [Desk!Kinds -> SUBSET Int]
  /\ \A kind \in Desk!Kinds : IsFiniteSet(rows[kind])

\* Every row of one is in the other.
Within(rows, more) == \A kind \in Desk!Kinds : rows[kind] \subseteq more[kind]

\* How many rows are listed before one, as the order counts them.
LEMMA PlaceIs ==
  ASSUME NEW kind \in Desk!Kinds, Known(Desk!Rows), NEW r \in Desk!Rows[kind]
  PROVE  Desk!Place(kind, r) = Ahead(Desk!Rows[kind], OrderOf(kind, Desk!Rows[kind]), r)
<1> DEFINE S == Desk!Rows[kind]
<1>1. S \in SUBSET Int
  BY DEF Known
<1>2. {s \in S : OrderOf(kind, S)[s] < OrderOf(kind, S)[r]} =
      {s \in S : IF kind = "markets" THEN s < r ELSE s > r}
  BY <1>1, OrderIs
<1>3. Desk!Place(kind, r) = Cardinality({s \in S : IF kind = "markets" THEN s < r ELSE s > r})
  BY SameCount DEF Desk!Place
<1> QED
  BY <1>2, <1>3 DEF Ahead

\* Rows that join a table push others on, never forward.
LEMMA PlacesGrow ==
  ASSUME NEW kind, NEW S \in SUBSET Int, NEW T \in SUBSET Int, S \subseteq T,
         IsFiniteSet(T), NEW r \in S
  PROVE  Ahead(S, OrderOf(kind, S), r) <= Ahead(T, OrderOf(kind, T), r)
<1> DEFINE A == {s \in S : OrderOf(kind, S)[s] < OrderOf(kind, S)[r]}
           B == {s \in T : OrderOf(kind, T)[s] < OrderOf(kind, T)[r]}
<1>1. A = {s \in S : IF kind = "markets" THEN s < r ELSE s > r}
      /\ B = {s \in T : IF kind = "markets" THEN s < r ELSE s > r}
  BY OrderIs
<1>2. A \in SUBSET B
  BY <1>1
<1>3. IsFiniteSet(B)
  BY Fewer
<1> HIDE DEF A, B
<1>4. Cardinality(A) <= Cardinality(B)
  BY <1>2, <1>3, Fewer
<1> QED
  BY <1>4 DEF Ahead, A, B

\* A rebuild under way: a page holds rows, and without a limit every row that was there
\* when it began and lies before the end of the page is in the index or in the page.
GoodRebuild(b, rows, index) ==
  \/ b = [at |-> "idle"]
  \/ /\ DOMAIN b = {"at", "offset", "cut", "page", "due"}
     /\ b.at \in Desk!Kinds /\ b.offset \in Nat /\ b.page \in SUBSET rows[b.at]
     /\ b.due \in SUBSET rows[b.at]
     /\ b.cut = Absent =>
          \A r \in b.due :
            Ahead(rows[b.at], OrderOf(b.at, rows[b.at]), r) < b.offset + Cardinality(b.page)
              => r \in index[b.at] \union b.page

\* What is known of the tables and the indexes.
IndexKnown ==
  /\ hydrated \in SUBSET Desk!MarketIds /\ seen \in 1 .. Articles
  /\ docs \in [Desk!Kinds -> SUBSET Int] /\ Within(docs, Desk!Rows)
  /\ visible \in [Desk!Kinds -> SUBSET Int] /\ Within(visible, docs)
  /\ Known(promised) /\ Within(promised, docs)
  /\ GoodRebuild(rebuild, Desk!Rows, docs)

\* The tables.
Tables(hyd, n) == [kind \in Desk!Kinds |-> IF kind = "markets" THEN hyd ELSE 1 .. n]

\* They are finite.
LEMMA RowsKnown ==
  ASSUME Desk!DeskConstants, NEW hyd \in SUBSET Desk!MarketIds, NEW n \in 1 .. Articles
  PROVE  /\ Known(Tables(hyd, n)) /\ Tables(hyd, n)["markets"] = hyd
         /\ Tables(hyd, n)["news"] = 1 .. n
<1> DEFINE rows == Tables(hyd, n)
<1>1. Markets \in Nat /\ Articles \in Nat
  BY DEF Desk!DeskConstants
<1>2. IsFiniteSet(1 .. Markets) /\ IsFiniteSet(1 .. n)
  BY <1>1, FS_Interval
<1>3. IsFiniteSet(hyd) /\ hyd \subseteq Int
  <2>1. hyd \in SUBSET (1 .. Markets)
    BY DEF Desk!MarketIds
  <2>2. 1 .. Markets \subseteq Int
    OBVIOUS
  <2> QED
    BY <1>2, <2>1, <2>2, Fewer
<1>4. "markets" \in Desk!Kinds /\ "news" \in Desk!Kinds
  BY DEF Desk!Kinds
<1>5. 1 .. n \subseteq Int
  OBVIOUS
<1>6. \A kind \in Desk!Kinds : rows[kind] = IF kind = "markets" THEN hyd ELSE 1 .. n
  BY DEF Tables
<1>7. rows \in [Desk!Kinds -> SUBSET Int]
  BY <1>3, <1>5 DEF Tables
<1>8. \A kind \in Desk!Kinds : IsFiniteSet(rows[kind])
  BY <1>2, <1>3, <1>6
<1> QED
  BY <1>4, <1>6, <1>7, <1>8 DEF Known

\* A place is a number.
LEMMA AheadIs ==
  ASSUME NEW S, IsFiniteSet(S), NEW key, NEW x
  PROVE  Ahead(S, key, x) \in Nat
<1>1. {y \in S : key[y] < key[x]} \in SUBSET S
  OBVIOUS
<1> QED
  BY <1>1, Fewer DEF Ahead

\* Rows that join the tables take nothing from a rebuild, nor do documents.
LEMMA RebuildGrows ==
  ASSUME NEW b, NEW rows, NEW more, NEW index, NEW later, Known(rows), Known(more),
         Within(rows, more), Within(index, later), GoodRebuild(b, rows, index)
  PROVE  GoodRebuild(b, more, later)
<1>1. CASE b = [at |-> "idle"]
  BY <1>1 DEF GoodRebuild
<1>2. CASE b # [at |-> "idle"]
  <2>1. /\ DOMAIN b = {"at", "offset", "cut", "page", "due"}
        /\ b.at \in Desk!Kinds /\ b.offset \in Nat /\ b.page \in SUBSET rows[b.at]
        /\ b.due \in SUBSET rows[b.at]
        /\ b.cut = Absent =>
             \A r \in b.due :
               Ahead(rows[b.at], OrderOf(b.at, rows[b.at]), r) < b.offset + Cardinality(b.page)
                 => r \in index[b.at] \union b.page
    BY <1>2 DEF GoodRebuild
  <2>2. /\ rows[b.at] \in SUBSET Int /\ more[b.at] \in SUBSET Int
        /\ IsFiniteSet(rows[b.at]) /\ IsFiniteSet(more[b.at])
        /\ rows[b.at] \subseteq more[b.at] /\ index[b.at] \subseteq later[b.at]
    BY <2>1 DEF Known, Within
  <2>3. Cardinality(b.page) \in Nat
    BY <2>1, <2>2, Fewer
  <2>4. b.due \in SUBSET more[b.at]
    BY <2>1, <2>2
  <2>5. b.page \in SUBSET more[b.at]
    BY <2>1, <2>2
  <2>6. ASSUME b.cut = Absent, NEW r \in b.due,
               Ahead(more[b.at], OrderOf(b.at, more[b.at]), r)
                 < b.offset + Cardinality(b.page)
        PROVE  r \in later[b.at] \union b.page
    <3>1. r \in rows[b.at]
      BY <2>1, <2>6
    <3>2. Ahead(rows[b.at], OrderOf(b.at, rows[b.at]), r)
            <= Ahead(more[b.at], OrderOf(b.at, more[b.at]), r)
      BY <2>2, <3>1, PlacesGrow
    <3>3. /\ Ahead(rows[b.at], OrderOf(b.at, rows[b.at]), r) \in Nat
          /\ Ahead(more[b.at], OrderOf(b.at, more[b.at]), r) \in Nat
      BY <2>2, AheadIs
    <3>4. Ahead(rows[b.at], OrderOf(b.at, rows[b.at]), r) < b.offset + Cardinality(b.page)
      BY <2>1, <2>3, <2>6, <3>2, <3>3
    <3> QED
      BY <2>1, <2>2, <2>6, <3>4
  <2> QED
    BY <2>1, <2>4, <2>5, <2>6 DEF GoodRebuild
<1> QED
  BY <1>1, <1>2

\* What the rebuild reads is the window after the rows it has read.
LEMMA PageIs ==
  ASSUME Desk!DeskConstants, Known(Desk!Rows), rebuild.at \in Desk!Kinds,
         rebuild.offset \in Nat
  PROVE  /\ Desk!Page \in SUBSET Desk!Rows[rebuild.at]
         /\ rebuild.cut = Absent =>
              Desk!Page = Between(Desk!Rows[rebuild.at],
                                  OrderOf(rebuild.at, Desk!Rows[rebuild.at]),
                                  rebuild.offset, rebuild.offset + Batch)
<1> DEFINE S == Desk!Rows[rebuild.at]
<1>1. Desk!Page = {r \in S : Desk!Place(rebuild.at, r)
                       \in rebuild.offset .. rebuild.offset + Desk!PageSize - 1}
  BY DEF Desk!Page
<1>2. rebuild.cut = Absent => Desk!PageSize = Batch
  BY DEF Desk!PageSize
<1>3. \A r \in S : Desk!Place(rebuild.at, r) = Ahead(S, OrderOf(rebuild.at, S), r)
  BY PlaceIs
<1> HIDE DEF S
<1>4. rebuild.cut = Absent =>
        Desk!Page = Between(S, OrderOf(rebuild.at, S), rebuild.offset, rebuild.offset + Batch)
  <2> SUFFICES ASSUME rebuild.cut = Absent
               PROVE  Desk!Page = Between(S, OrderOf(rebuild.at, S), rebuild.offset,
                                          rebuild.offset + Batch)
    OBVIOUS
  <2>1. Desk!Page = {r \in S : Desk!Place(rebuild.at, r)
                       \in rebuild.offset .. rebuild.offset + Batch - 1}
    BY <1>1, <1>2
  <2> DEFINE I == rebuild.offset .. (rebuild.offset + Batch) - 1
  <2>0. rebuild.offset + Batch - 1 = (rebuild.offset + Batch) - 1
    <3>1. Batch \in Int /\ rebuild.offset \in Int
      BY DEF Desk!DeskConstants
    <3> QED
      BY <3>1
  <2>2. \A r \in S : Desk!Place(rebuild.at, r) \in I <=> Ahead(S, OrderOf(rebuild.at, S), r) \in I
    BY <1>3
  <2>3. Between(S, OrderOf(rebuild.at, S), rebuild.offset, rebuild.offset + Batch)
          = {r \in S : Ahead(S, OrderOf(rebuild.at, S), r) \in I}
    BY DEF Between
  <2>4. Desk!Page = {r \in S : Desk!Place(rebuild.at, r) \in I}
    BY <2>0, <2>1
  <2> HIDE DEF I
  <2> QED
    BY <2>2, <2>3, <2>4
<1> QED
  BY <1>1, <1>4 DEF S

\* Reading a page.
LEMMA ReadPageKnown ==
  ASSUME Desk!DeskConstants, IndexKnown, Desk!ReadPage
  PROVE  IndexKnown'
<1> DEFINE at == rebuild.at
           S == Desk!Rows[at]
           key == OrderOf(at, S)
           page == Desk!Page
           o == rebuild.offset
           u == o + Batch
<1>1. /\ rebuild.at \in Desk!Kinds /\ rebuild.page = {}
      /\ rebuild' = [rebuild EXCEPT !.page = Desk!Page]
      /\ UNCHANGED <<hydrated, seen, docs, visible, promised>>
  BY DEF Desk!ReadPage
<1>2. Known(Desk!Rows)
  <2>1. Desk!Rows = Tables(hydrated, seen)
    BY DEF Desk!Rows, Tables
  <2> QED
    BY <2>1, RowsKnown DEF IndexKnown
<1>3. rebuild # [at |-> "idle"]
  BY <1>1 DEF Desk!Kinds
<1>4. /\ DOMAIN rebuild = {"at", "offset", "cut", "page", "due"}
      /\ rebuild.offset \in Nat /\ rebuild.due \in SUBSET S
      /\ rebuild.cut = Absent =>
           \A r \in rebuild.due :
             Ahead(S, key, r) < rebuild.offset + Cardinality(rebuild.page)
               => r \in docs[at] \union rebuild.page
  BY <1>3 DEF IndexKnown, GoodRebuild
<1>5. /\ page \in SUBSET S
      /\ rebuild.cut = Absent =>
           page = Between(S, key, rebuild.offset, rebuild.offset + Batch)
  BY <1>1, <1>2, <1>4, PageIs
<1>6. /\ DOMAIN rebuild' = DOMAIN rebuild /\ rebuild'.at = at /\ rebuild'.page = page
      /\ rebuild'.offset = rebuild.offset /\ rebuild'.cut = rebuild.cut
      /\ rebuild'.due = rebuild.due
  BY <1>1, <1>4
<1>7. S \in SUBSET Int /\ IsFiniteSet(S) /\ Batch \in Nat \ {0}
  BY <1>1, <1>2 DEF Known, Desk!DeskConstants
<1>8. key \in [S -> Int] /\ \A x, y \in S : key[x] = key[y] => x = y
  BY <1>7, OrderIs
<1>9. rebuild.due \subseteq S
  BY <1>4
<1>10. /\ o \in Nat /\ u \in Nat /\ u = o + Batch
       /\ rebuild.cut = Absent => \A r \in rebuild.due :
            Ahead(S, key, r) < o + Cardinality({}) => r \in docs[at]
       /\ rebuild.cut = Absent => page = Between(S, key, o, u)
  <2>1. o \in Nat /\ Batch \in Nat
    BY <1>4, <1>7
  <2>2. u \in Nat /\ u = o + Batch
    BY <2>1
  <2> QED
    BY <1>1, <1>4, <1>5, <2>1, <2>2
<1> HIDE DEF S, key, page, at, o, u
<1>11. ASSUME rebuild.cut = Absent, NEW r \in rebuild.due,
              Ahead(S, key, r) < o + Cardinality(page)
       PROVE  r \in docs[at] \union page
  <2>1. CASE Ahead(S, key, r) < o
    <3>1. o + Cardinality({}) = o
      BY <1>10, FS_EmptySet
    <3> QED
      BY <1>10, <1>11, <2>1, <3>1
  <2>2. CASE ~(Ahead(S, key, r) < o)
    <3>1. page = Between(S, key, o, u)
      BY <1>10, <1>11
    <3>2. Cardinality(page) \in Nat /\ Cardinality(page) <= Batch
      <4>1. o <= u /\ u - o = Batch
        BY <1>10, <1>7
      <4>2. /\ Cardinality(Between(S, key, o, u)) \in Nat
            /\ Cardinality(Between(S, key, o, u)) <= u - o
        BY <1>10, <1>7, <1>8, <4>1, WindowIs
      <4> QED
        BY <3>1, <4>1, <4>2
    <3>3. Ahead(S, key, r) \in Nat /\ r \in S
      BY <1>7, <1>9, <1>11, AheadIs
    <3>4. Ahead(S, key, r) \in o .. u - 1
      BY <1>10, <1>7, <1>11, <2>2, <3>2, <3>3
    <3> QED
      BY <3>1, <3>3, <3>4 DEF Between
  <2> QED
    BY <2>1, <2>2
<1>12. Desk!Rows' = Desk!Rows
  BY <1>1 DEF Desk!Rows
<1>13. GoodRebuild(rebuild', Desk!Rows, docs)
  <2>1. /\ rebuild'.at \in Desk!Kinds /\ rebuild'.page \in SUBSET Desk!Rows[rebuild'.at]
        /\ rebuild'.offset \in Nat /\ rebuild'.due \in SUBSET Desk!Rows[rebuild'.at]
    BY <1>1, <1>4, <1>5, <1>6 DEF S, at
  <2>2. rebuild'.cut = Absent =>
          \A r \in rebuild'.due :
            Ahead(Desk!Rows[rebuild'.at], OrderOf(rebuild'.at, Desk!Rows[rebuild'.at]), r)
                < rebuild'.offset + Cardinality(rebuild'.page)
              => r \in docs[rebuild'.at] \union rebuild'.page
    BY <1>4, <1>6, <1>11 DEF S, key, at, o
  <2> QED
    BY <1>4, <1>6, <2>1, <2>2 DEF GoodRebuild
<1> QED
  BY <1>1, <1>12, <1>13 DEF IndexKnown

\* What a rebuild under way knows.
LEMMA RebuildKnows ==
  ASSUME IndexKnown, rebuild.at \in Desk!Kinds
  PROVE  /\ DOMAIN rebuild = {"at", "offset", "cut", "page", "due"}
         /\ rebuild.offset \in Nat /\ rebuild.page \in SUBSET Desk!Rows[rebuild.at]
         /\ rebuild.due \in SUBSET Desk!Rows[rebuild.at]
         /\ rebuild.cut = Absent =>
              \A r \in rebuild.due :
                Ahead(Desk!Rows[rebuild.at], OrderOf(rebuild.at, Desk!Rows[rebuild.at]), r)
                    < rebuild.offset + Cardinality(rebuild.page)
                  => r \in docs[rebuild.at] \union rebuild.page
<1>1. rebuild # [at |-> "idle"]
  BY DEF Desk!Kinds
<1> QED
  BY <1>1 DEF IndexKnown, GoodRebuild

\* The tables are those of IndexKnown.
LEMMA RowsAre ==
  ASSUME Desk!DeskConstants, IndexKnown
  PROVE  /\ Known(Desk!Rows) /\ Desk!Rows["markets"] = hydrated
         /\ Desk!Rows["news"] = 1 .. seen
<1>1. Desk!Rows = Tables(hydrated, seen)
  BY DEF Desk!Rows, Tables
<1> QED
  BY <1>1, RowsKnown DEF IndexKnown

\* Posting a page, all of it or, when the rebuild fails, a part.
LEMMA PostPageKnown ==
  ASSUME Desk!DeskConstants, IndexKnown, Desk!PostPage
  PROVE  IndexKnown'
<1> DEFINE at == rebuild.at
           page == rebuild.page
           S == Desk!Rows[at]
<1>1. /\ at \in Desk!Kinds
      /\ docs' = [docs EXCEPT ![at] = @ \union page]
      /\ rebuild' = [rebuild EXCEPT !.offset = @ + Desk!Cardinality(rebuild.page),
                                    !.page = {}]
      /\ UNCHANGED <<hydrated, seen, visible, promised>>
  BY DEF Desk!PostPage
<1>2. /\ DOMAIN rebuild = {"at", "offset", "cut", "page", "due"}
      /\ rebuild.offset \in Nat /\ page \in SUBSET S
      /\ rebuild.due \in SUBSET S
      /\ rebuild.cut = Absent =>
           \A r \in rebuild.due :
             Ahead(S, OrderOf(at, S), r) < rebuild.offset + Cardinality(page)
               => r \in docs[at] \union page
  BY <1>1, RebuildKnows
<1>3. Known(Desk!Rows)
  BY RowsAre
<1>4. S \in SUBSET Int /\ IsFiniteSet(S)
  BY <1>1, <1>3 DEF Known
<1>5. Cardinality(page) \in Nat
  BY <1>2, <1>4, Fewer
<1>6. docs \in [Desk!Kinds -> SUBSET Int] /\ Within(docs, Desk!Rows)
  BY DEF IndexKnown
<1> HIDE DEF page, S
<1>7. /\ docs' \in [Desk!Kinds -> SUBSET Int] /\ docs'[at] = docs[at] \union page
      /\ Within(docs, docs') /\ Within(docs', Desk!Rows)
  <2>1. page \in SUBSET Int /\ page \subseteq Desk!Rows[at]
    BY <1>2, <1>4 DEF S
  <2>2. docs' \in [Desk!Kinds -> SUBSET Int] /\ docs'[at] = docs[at] \union page
    BY <1>1, <1>6, <2>1
  <2>3. \A kind \in Desk!Kinds : kind # at => docs'[kind] = docs[kind]
    BY <1>1, <1>6
  <2> QED
    BY <1>1, <1>6, <2>1, <2>2, <2>3 DEF Within
<1>8. /\ DOMAIN rebuild' = DOMAIN rebuild /\ rebuild'.at = at /\ rebuild'.page = {}
      /\ rebuild'.offset = rebuild.offset + Cardinality(page)
      /\ rebuild'.cut = rebuild.cut /\ rebuild'.due = rebuild.due
  BY <1>1, <1>2, SameCount DEF page
<1>9. rebuild'.offset \in Nat /\ rebuild'.offset + Cardinality({}) = rebuild'.offset
  BY <1>2, <1>5, <1>8, FS_EmptySet
<1>10. Desk!Rows' = Desk!Rows
  BY <1>1 DEF Desk!Rows
<1>11. GoodRebuild(rebuild', Desk!Rows, docs')
  <2>2. ASSUME rebuild.cut = Absent, NEW r \in rebuild.due,
               Ahead(S, OrderOf(at, S), r) < rebuild'.offset + Cardinality(rebuild'.page)
        PROVE  r \in docs'[at] \union rebuild'.page
    <3>1. Ahead(S, OrderOf(at, S), r) < rebuild.offset + Cardinality(page)
      BY <1>8, <1>9, <2>2
    <3> QED
      BY <1>2, <1>7, <2>2, <3>1
  <2> QED
    BY <1>1, <1>2, <1>8, <1>9, <2>2 DEF GoodRebuild, S
<1>12. Within(promised, docs') /\ Within(visible, docs')
  BY <1>7 DEF IndexKnown, Within
<1> QED
  BY <1>1, <1>7, <1>10, <1>11, <1>12 DEF IndexKnown

\* A rebuild that fails.
LEMMA FailKnown ==
  ASSUME Desk!DeskConstants, IndexKnown, Desk!FailRebuild
  PROVE  IndexKnown'
<1>1. PICK part \in SUBSET rebuild.page :
        docs' = [docs EXCEPT ![rebuild.at] = @ \union part]
  BY DEF Desk!FailRebuild
<1>2. /\ rebuild # [at |-> "idle"] /\ rebuild' = [at |-> "idle"]
      /\ UNCHANGED <<hydrated, seen, visible, promised>>
  BY DEF Desk!FailRebuild, Desk!Idle
<1>3. rebuild.at \in Desk!Kinds /\ rebuild.page \in SUBSET Desk!Rows[rebuild.at]
  BY <1>2 DEF IndexKnown, GoodRebuild
<1>4. docs \in [Desk!Kinds -> SUBSET Int] /\ Within(docs, Desk!Rows) /\ Known(Desk!Rows)
  BY RowsAre DEF IndexKnown
<1>5. part \subseteq Desk!Rows[rebuild.at] /\ part \in SUBSET Int
  BY <1>3, <1>4 DEF Known
<1>6. /\ docs' \in [Desk!Kinds -> SUBSET Int] /\ docs'[rebuild.at] = docs[rebuild.at] \union part
      /\ \A kind \in Desk!Kinds : kind # rebuild.at => docs'[kind] = docs[kind]
  BY <1>1, <1>3, <1>4, <1>5
<1>7. Within(docs, docs') /\ Within(docs', Desk!Rows)
  BY <1>4, <1>5, <1>6 DEF Within
<1>8. Desk!Rows' = Desk!Rows
  BY <1>2 DEF Desk!Rows
<1>9. Within(promised, docs') /\ Within(visible, docs')
  BY <1>7 DEF IndexKnown, Within
<1> QED
  BY <1>2, <1>6, <1>7, <1>8, <1>9 DEF IndexKnown, GoodRebuild

\* Where an index begins, nothing lies before its first page.
LEMMA BeginKnown ==
  ASSUME Desk!DeskConstants, IndexKnown, NEW kind \in Desk!Kinds, Desk!Begin(kind)
  PROVE  GoodRebuild(rebuild', Desk!Rows, docs)
<1> DEFINE S == Desk!Rows[kind]
<1>1. PICK cut : rebuild' = [at |-> kind, offset |-> 0, cut |-> cut, page |-> {}, due |-> S]
  BY DEF Desk!Begin
<1>2. \A r : Ahead(S, OrderOf(kind, S), r) \in Nat
  BY RowsAre, AheadIs DEF Known
<1>3. 0 + Cardinality({}) = 0
  BY FS_EmptySet
<1>4. \A r : ~(Ahead(S, OrderOf(kind, S), r) < 0 + Cardinality({}))
  BY <1>2, <1>3
<1>5. /\ DOMAIN rebuild' = {"at", "offset", "cut", "page", "due"}
      /\ rebuild'.at = kind /\ rebuild'.offset = 0 /\ rebuild'.page = {} /\ rebuild'.due = S
  BY <1>1
<1> QED
  BY <1>4, <1>5 DEF GoodRebuild

\* A rebuild that begins.
LEMMA StartKnown ==
  ASSUME Desk!DeskConstants, IndexKnown, Desk!StartRebuild
  PROVE  IndexKnown'
<1>1. UNCHANGED <<hydrated, seen, docs, visible, promised>> /\ Desk!Begin("markets")
  BY DEF Desk!StartRebuild
<1>2. GoodRebuild(rebuild', Desk!Rows, docs)
  BY <1>1, BeginKnown DEF Desk!Kinds
<1>3. Desk!Rows' = Desk!Rows
  BY <1>1 DEF Desk!Rows
<1> QED
  BY <1>1, <1>2, <1>3 DEF IndexKnown

\* A page that is empty: without a limit, every row lies before it.
LEMMA NothingAfter ==
  ASSUME Desk!DeskConstants, IndexKnown, rebuild.at \in Desk!Kinds, rebuild.page = {},
         Desk!Page = {}, rebuild.cut = Absent
  PROVE  rebuild.due \subseteq docs[rebuild.at]
<1> DEFINE at == rebuild.at
           S == Desk!Rows[at]
           key == OrderOf(at, S)
           o == rebuild.offset
           u == o + Batch
<1>1. /\ o \in Nat /\ rebuild.due \in SUBSET S
      /\ \A r \in rebuild.due :
           Ahead(S, key, r) < o + Cardinality({}) => r \in docs[at] \union {}
  BY RebuildKnows
<1>2. Known(Desk!Rows)
  BY RowsAre
<1>3. Between(S, key, o, u) = {}
  BY <1>1, <1>2, PageIs
<1>4. Batch \in Nat \ {0}
  BY DEF Desk!DeskConstants
<1>5. u \in Nat /\ o <= u /\ u - o = Batch
  <2> HIDE DEF o
  <2> QED
    BY <1>1, <1>4
<1>6. S \in SUBSET Int /\ IsFiniteSet(S)
  BY <1>2 DEF Known
<1>7. key \in [S -> Int] /\ \A x, y \in S : key[x] = key[y] => x = y
  BY <1>6, OrderIs
<1>8. rebuild.due \subseteq S
  BY <1>1
<1> HIDE DEF at, S, key, o, u
<1>9. \A x \in S : Ahead(S, key, x) < u
  <2>1. \/ Cardinality(Between(S, key, o, u)) = u - o
        \/ \A x \in S : Ahead(S, key, x) < u
    BY <1>1, <1>5, <1>6, <1>7, WindowIs
  <2> QED
    BY <1>3, <1>4, <1>5, <2>1, FS_EmptySet
<1>10. ASSUME NEW r \in rebuild.due
       PROVE  r \in docs[at]
  <2>1. r \in S /\ Ahead(S, key, r) \in Nat /\ Ahead(S, key, r) < u
    BY <1>6, <1>8, <1>9, <1>10, AheadIs
  <2>2. Ahead(S, key, r) \notin o .. u - 1
    BY <1>3, <2>1 DEF Between
  <2>3. Ahead(S, key, r) < o
    BY <1>1, <1>5, <2>1, <2>2
  <2>4. o + Cardinality({}) = o
    BY <1>1, FS_EmptySet
  <2> QED
    BY <1>1, <1>10, <2>3, <2>4
<1> QED
  BY <1>10 DEF at

\* The end of an index: what was due is there.
LEMMA EndKnown ==
  ASSUME Desk!DeskConstants, IndexKnown, Desk!EndPages
  PROVE  IndexKnown'
<1>1. /\ rebuild.at \in Desk!Kinds /\ rebuild.page = {} /\ Desk!Page = {}
      /\ UNCHANGED <<hydrated, seen, docs, visible>>
      /\ Desk!Begin("news") \/ rebuild' = [at |-> "idle"]
      /\ promised' = IF rebuild.cut = Absent
                       THEN [promised EXCEPT ![rebuild.at] = rebuild.due] ELSE promised
  BY DEF Desk!EndPages, Desk!Idle
<1>2. rebuild.cut = Absent => rebuild.due \subseteq docs[rebuild.at]
  BY <1>1, NothingAfter
<1>3. rebuild.due \in SUBSET Int /\ IsFiniteSet(rebuild.due)
  <2>1. rebuild.due \in SUBSET Desk!Rows[rebuild.at]
    BY <1>1, RebuildKnows
  <2>2. Desk!Rows[rebuild.at] \in SUBSET Int /\ IsFiniteSet(Desk!Rows[rebuild.at])
    BY <1>1, RowsAre DEF Known
  <2> QED
    BY <2>1, <2>2, Fewer
<1>4. Known(promised') /\ Within(promised', docs)
  <2>1. Known(promised) /\ Within(promised, docs)
    BY DEF IndexKnown
  <2>2. CASE rebuild.cut = Absent
    <3>1. /\ promised' \in [Desk!Kinds -> SUBSET Int] /\ promised'[rebuild.at] = rebuild.due
          /\ \A kind \in Desk!Kinds \ {rebuild.at} : promised'[kind] = promised[kind]
      BY <1>1, <1>3, <2>1, <2>2 DEF Known
    <3> QED
      BY <1>2, <1>3, <2>1, <2>2, <3>1 DEF Known, Within
  <2> QED
    BY <1>1, <2>1, <2>2
<1>5. GoodRebuild(rebuild', Desk!Rows, docs)
  <2>1. CASE Desk!Begin("news")
    BY <2>1, BeginKnown DEF Desk!Kinds
  <2>2. CASE rebuild' = [at |-> "idle"]
    BY <2>2 DEF GoodRebuild
  <2> QED
    BY <1>1, <2>1, <2>2
<1>6. Desk!Rows' = Desk!Rows
  BY <1>1 DEF Desk!Rows
<1> QED
  BY <1>1, <1>4, <1>5, <1>6 DEF IndexKnown

\* A refresh of an index.
LEMMA RefreshKnown ==
  ASSUME IndexKnown, NEW kind \in Desk!Kinds, Desk!Refresh(kind)
  PROVE  IndexKnown' /\ Within(visible, visible') /\ Desk!Rows' = Desk!Rows /\ query' = query
<1>1. /\ visible' = [visible EXCEPT ![kind] = docs[kind]]
      /\ UNCHANGED <<hydrated, seen, docs, rebuild, query, promised>>
  BY DEF Desk!Refresh
<1>2. /\ visible \in [Desk!Kinds -> SUBSET Int] /\ Within(visible, docs)
      /\ docs \in [Desk!Kinds -> SUBSET Int]
  BY DEF IndexKnown
<1>3. /\ visible' \in [Desk!Kinds -> SUBSET Int]
      /\ \A other \in Desk!Kinds : visible'[other] \in {visible[other], docs[other]}
  BY <1>1, <1>2
<1>4. Within(visible', docs) /\ Within(visible, visible')
  BY <1>2, <1>3 DEF Within
<1>5. Desk!Rows' = Desk!Rows
  BY <1>1 DEF Desk!Rows
<1> QED
  BY <1>1, <1>3, <1>4, <1>5 DEF IndexKnown

\* Rows that join the tables.
LEMMA JoinKnown ==
  ASSUME Desk!DeskConstants, IndexKnown,
         Desk!Ingest \/ \E m \in Desk!MarketIds : Desk!Hydrate(m)
  PROVE  IndexKnown' /\ Within(Desk!Rows, Desk!Rows') /\ visible' = visible /\ query' = query
<1>1. UNCHANGED <<docs, visible, rebuild, promised, query>>
  BY DEF Desk!Ingest, Desk!Hydrate
<1>2. hydrated \in SUBSET Desk!MarketIds /\ seen \in 1 .. Articles /\ Articles \in Nat
  BY DEF IndexKnown, Desk!DeskConstants
<1>3. /\ hydrated' \in SUBSET Desk!MarketIds /\ hydrated \subseteq hydrated'
      /\ seen' \in 1 .. Articles /\ seen <= seen'
  BY <1>2 DEF Desk!Ingest, Desk!Hydrate
<1>4. Known(Desk!Rows) /\ Desk!Rows["markets"] = hydrated /\ Desk!Rows["news"] = 1 .. seen
  BY RowsAre
<1>5. Desk!Rows' = Tables(hydrated', seen')
  BY DEF Desk!Rows, Tables
<1>6. Known(Desk!Rows') /\ Desk!Rows'["markets"] = hydrated' /\ Desk!Rows'["news"] = 1 .. seen'
  BY <1>3, <1>5, RowsKnown
<1>7. Within(Desk!Rows, Desk!Rows')
  <2>1. 1 .. seen \subseteq 1 .. seen'
    BY <1>2, <1>3
  <2> QED
    BY <1>3, <1>4, <1>6, <2>1 DEF Within, Desk!Kinds
<1>8. Within(docs, docs)
  BY DEF Within
<1>9. GoodRebuild(rebuild, Desk!Rows', docs)
  BY <1>4, <1>6, <1>7, <1>8, RebuildGrows DEF IndexKnown
<1>10. Within(docs, Desk!Rows')
  BY <1>7 DEF IndexKnown, Within
<1> QED
  BY <1>1, <1>3, <1>7, <1>9, <1>10 DEF IndexKnown

(* ---- Lists of rows --------------------------------------------------------- *)

\* A list of rows: none twice.
Listing(s) ==
  /\ s \in Seq(Int)
  /\ \A i, j \in 1 .. Len(s) : s[i] = s[j] => i = j

\* It has as many rows as it is long.
LEMMA ListingCount ==
  ASSUME NEW s, Listing(s)
  PROVE  Cardinality(Desk!ToSet(s)) = Len(s) /\ IsFiniteSet(Desk!ToSet(s)) /\ Len(s) \in Nat
<1> DEFINE I == 1 .. Len(s)
           T == Desk!ToSet(s)
           f == [i \in I |-> s[i]]
<1>1. Len(s) \in Nat /\ DOMAIN s = I
  BY DEF Listing
<1>2. T = {s[i] : i \in I}
  BY <1>1 DEF Desk!ToSet
<1>3. IsFiniteSet(I) /\ Cardinality(I) = Len(s)
  <2>1. IsFiniteSet(1 .. Len(s))
        /\ Cardinality(1 .. Len(s)) = IF 1 > Len(s) THEN 0 ELSE Len(s) - 1 + 1
    BY <1>1, FS_Interval
  <2> QED
    BY <1>1, <2>1
<1> HIDE DEF T
<1>4. f \in Bijection(I, T)
  <2>1. f \in [I -> T]
    BY <1>2
  <2>2. \A i, j \in I : f[i] = f[j] => i = j
    BY DEF Listing
  <2>3. \A t \in T : \E i \in I : f[i] = t
    BY <1>2
  <2> HIDE DEF f, I
  <2> QED
    BY <2>1, <2>2, <2>3 DEF Bijection, Injection, Surjection, IsInjective
<1>5. ExistsBijection(I, T)
  BY <1>4 DEF ExistsBijection
<1>6. IsFiniteSet(T) /\ Cardinality(T) = Cardinality(I)
  <2> HIDE DEF I
  <2> QED
    BY <1>3, <1>5, FS_Bijection
<1> QED
  BY <1>1, <1>3, <1>6 DEF T

\* A set in some order.
LEMMA SetToSeqIs ==
  ASSUME NEW S \in SUBSET Int, IsFiniteSet(S)
  PROVE  /\ Listing(Desk!SetToSeq(S)) /\ Len(Desk!SetToSeq(S)) = Cardinality(S)
         /\ Desk!ToSet(Desk!SetToSeq(S)) = S
<1> DEFINE n == Cardinality(S)
           s == Desk!SetToSeq(S)
<1>1. n \in Nat /\ ExistsBijection(1 .. n, S)
  BY FS_CardinalityType
<1>2. PICK f : f \in Bijection(1 .. n, S)
  BY <1>1 DEF ExistsBijection
<1>3. f \in [1 .. n -> S] /\ \A i, j \in 1 .. n : f[i] = f[j] => i = j
  BY <1>2 DEF Bijection, Injection, IsInjective
<1>4. Desk!IsInjective(f)
  <2> HIDE DEF n
  <2> QED
    BY <1>3 DEF Desk!IsInjective
<1>5. s = CHOOSE g \in [1 .. n -> S] : Desk!IsInjective(g)
  BY SameCount DEF Desk!SetToSeq
<1> HIDE DEF s, n
<1>6. s \in [1 .. n -> S] /\ Desk!IsInjective(s)
  BY <1>3, <1>4, <1>5
<1>7. \A i, j \in 1 .. n : s[i] = s[j] => i = j
  BY <1>6 DEF Desk!IsInjective
<1>8. s \in Seq(Int) /\ Len(s) = n
  <2>1. s \in [1 .. n -> Int]
    BY <1>6
  <2> QED
    BY <1>1, <2>1
<1>9. s \in Surjection(1 .. n, S)
  <2>1. s \in Injection(1 .. n, S)
    BY <1>6, <1>7 DEF Injection, IsInjective
  <2>2. IsFiniteSet(1 .. n) /\ Cardinality(1 .. n) = n
    <3>1. IsFiniteSet(1 .. n) /\ Cardinality(1 .. n) = IF 1 > n THEN 0 ELSE n - 1 + 1
      BY <1>1, FS_Interval
    <3> QED
      BY <1>1, <3>1
  <2>3. Cardinality(1 .. n) = Cardinality(S)
    BY <2>2 DEF n
  <2> QED
    BY <2>1, <2>3, FS_Injection
<1>10. \A x \in S : \E i \in 1 .. n : s[i] = x
  BY <1>9 DEF Surjection
<1>11. Desk!ToSet(s) = S
  <2>1. Desk!ToSet(s) = {s[i] : i \in 1 .. n}
    BY <1>6 DEF Desk!ToSet
  <2> QED
    BY <1>6, <1>10, <2>1
<1> QED
  BY <1>7, <1>8, <1>11 DEF Listing, s, n

\* Nothing in order.
LEMMA EmptyListing ==
  Listing(<<>>) /\ Len(<<>>) = 0 /\ Desk!ToSet(<<>>) = {}
<1>1. Len(<<>>) = 0 /\ <<>> \in Seq(Int)
  OBVIOUS
<1>2. 1 .. 0 = {}
  OBVIOUS
<1>3. Listing(<<>>)
  BY <1>1, <1>2 DEF Listing
<1>4. Desk!ToSet(<<>>) = {}
  BY DEF Desk!ToSet
<1> QED
  BY <1>1, <1>3, <1>4

\* One list after another.
LEMMA ListingsJoin ==
  ASSUME NEW s, NEW t, Listing(s), Listing(t), Desk!ToSet(s) \intersect Desk!ToSet(t) = {}
  PROVE  /\ Listing(s \o t) /\ Len(s \o t) = Len(s) + Len(t)
         /\ Desk!ToSet(s \o t) = Desk!ToSet(s) \union Desk!ToSet(t)
<1> DEFINE w == s \o t
<1>1. s \in Seq(Int) /\ t \in Seq(Int) /\ Len(s) \in Nat /\ Len(t) \in Nat
  BY DEF Listing
<1>2. w \in Seq(Int) /\ Len(w) = Len(s) + Len(t)
  BY <1>1
<1>3. \A i \in 1 .. Len(s) : w[i] = s[i]
  BY <1>1
<1>4. \A i \in 1 .. Len(t) : w[Len(s) + i] = t[i]
  BY <1>1
<1> HIDE DEF w
<1>5. /\ DOMAIN s = 1 .. Len(s) /\ DOMAIN t = 1 .. Len(t) /\ DOMAIN w = 1 .. Len(w)
  BY <1>1, <1>2
<1>6. /\ Desk!ToSet(s) = {s[i] : i \in 1 .. Len(s)}
      /\ Desk!ToSet(t) = {t[i] : i \in 1 .. Len(t)}
      /\ Desk!ToSet(w) = {w[i] : i \in 1 .. Len(w)}
  BY <1>5 DEF Desk!ToSet
<1>7. ASSUME NEW i \in 1 .. Len(w)
      PROVE  \/ i \in 1 .. Len(s) /\ w[i] = s[i] /\ w[i] \in Desk!ToSet(s)
             \/ \E k \in 1 .. Len(t) : i = Len(s) + k /\ w[i] = t[k] /\ w[i] \in Desk!ToSet(t)
  <2>1. CASE i <= Len(s)
    <3>1. i \in 1 .. Len(s)
      BY <1>1, <1>2, <2>1
    <3> QED
      BY <1>3, <1>6, <3>1
  <2>2. CASE ~(i <= Len(s))
    <3>1. i - Len(s) \in 1 .. Len(t) /\ i = Len(s) + (i - Len(s))
      BY <1>1, <1>2, <2>2
    <3> QED
      BY <1>4, <1>6, <3>1
  <2> QED
    BY <2>1, <2>2
<1>8. ASSUME NEW i \in 1 .. Len(w), NEW j \in 1 .. Len(w), w[i] = w[j]
      PROVE  i = j
  <2>1. CASE i \in 1 .. Len(s) /\ w[i] = s[i] /\ w[i] \in Desk!ToSet(s)
    <3>1. w[j] \notin Desk!ToSet(t)
      BY <1>8, <2>1
    <3>2. j \in 1 .. Len(s) /\ w[j] = s[j]
      BY <1>7, <3>1
    <3> QED
      BY <1>8, <2>1, <3>2 DEF Listing
  <2>2. CASE \E k \in 1 .. Len(t) : i = Len(s) + k /\ w[i] = t[k] /\ w[i] \in Desk!ToSet(t)
    <3>1. PICK k \in 1 .. Len(t) : i = Len(s) + k /\ w[i] = t[k] /\ w[i] \in Desk!ToSet(t)
      BY <2>2
    <3>2. w[j] \notin Desk!ToSet(s)
      BY <1>8, <3>1
    <3>3. PICK l \in 1 .. Len(t) : j = Len(s) + l /\ w[j] = t[l]
      BY <1>7, <3>2
    <3>4. k = l
      BY <1>8, <3>1, <3>3 DEF Listing
    <3> QED
      BY <3>1, <3>3, <3>4
  <2> QED
    BY <1>7, <2>1, <2>2
<1>9. ASSUME NEW x
      PROVE  x \in Desk!ToSet(w) <=> x \in Desk!ToSet(s) \union Desk!ToSet(t)
  <2>1. x \in Desk!ToSet(w) => x \in Desk!ToSet(s) \union Desk!ToSet(t)
    BY <1>6, <1>7
  <2>2. ASSUME NEW i \in 1 .. Len(s)
        PROVE  s[i] \in Desk!ToSet(w)
    <3>1. i \in 1 .. Len(w)
      BY <1>1, <1>2
    <3> QED
      BY <1>3, <1>6, <3>1
  <2>3. ASSUME NEW i \in 1 .. Len(t)
        PROVE  t[i] \in Desk!ToSet(w)
    <3>1. Len(s) + i \in 1 .. Len(w)
      BY <1>1, <1>2
    <3> QED
      BY <1>4, <1>6, <3>1
  <2> QED
    BY <1>6, <2>1, <2>2, <2>3
<1>10. Listing(w)
  BY <1>2, <1>8 DEF Listing
<1>11. Desk!ToSet(w) = Desk!ToSet(s) \union Desk!ToSet(t)
  BY <1>9
<1> QED
  BY <1>2, <1>10, <1>11 DEF w

\* What the filter does with an article.
Kept(rows, a, good) == IF a \in good THEN Append(rows, a) ELSE rows

\* The filter, as a fold over the places of the list.
KeptFold(s, good) ==
  CHOOSE iter : iter = [S \in SUBSET DOMAIN s |->
                          IF S = {} THEN <<>>
                          ELSE Kept(iter[S \ {Largest(S)}], s[Largest(S)], good)]

\* The filter of the model is that fold.
LEMMA FilterIs ==
  ASSUME Desk!Filter
  PROVE  \E attached \in BOOLEAN :
           query' = [query EXCEPT !.at = "answered",
                       !.news = KeptFold(query.news, Desk!Answering(attached))
                                  [DOMAIN query.news]]
<1>1. PICK attached \in BOOLEAN :
        query' = [query EXCEPT !.at = "answered",
                    !.news = Desk!FoldLeft(LAMBDA rows, a : IF a \in Desk!Answering(attached)
                                                            THEN Append(rows, a) ELSE rows,
                                           <<>>, query.news)]
  BY DEF Desk!Filter
<1>2. Desk!FoldLeft(LAMBDA rows, a : IF a \in Desk!Answering(attached)
                                      THEN Append(rows, a) ELSE rows, <<>>, query.news)
        = KeptFold(query.news, Desk!Answering(attached))[DOMAIN query.news]
  BY DEF Desk!FoldLeft, Desk!MapThenFoldSet, Desk!Max, Largest, KeptFold, Kept
<1> QED
  BY <1>1, <1>2

\* A list with one row more.
LEMMA ListingAppend ==
  ASSUME NEW d, Listing(d), NEW x \in Int, x \notin Desk!ToSet(d)
  PROVE  /\ Listing(Append(d, x)) /\ Len(Append(d, x)) = Len(d) + 1
         /\ Desk!ToSet(Append(d, x)) = Desk!ToSet(d) \union {x}
<1> DEFINE w == Append(d, x)
           n == Len(d)
<1>1. d \in Seq(Int) /\ n \in Nat /\ DOMAIN d = 1 .. n
  BY DEF Listing
<1>2. /\ w \in Seq(Int) /\ Len(w) = n + 1 /\ DOMAIN w = 1 .. n + 1
      /\ w[n + 1] = x /\ \A i \in 1 .. n : w[i] = d[i]
  BY <1>1
<1>3. /\ Desk!ToSet(d) = {d[i] : i \in 1 .. n}
      /\ Desk!ToSet(w) = {w[i] : i \in 1 .. n + 1}
  BY <1>1, <1>2 DEF Desk!ToSet
<1>4. \A i, j \in 1 .. n : d[i] = d[j] => i = j
  BY DEF Listing
<1> HIDE DEF w, n
<1>5. ASSUME NEW i \in 1 .. n + 1, NEW j \in 1 .. n + 1, w[i] = w[j]
      PROVE  i = j
  <2>1. CASE i \in 1 .. n /\ j \in 1 .. n
    BY <1>2, <1>4, <1>5, <2>1
  <2>2. CASE i \notin 1 .. n /\ j \in 1 .. n
    <3>1. i = n + 1
      BY <1>1, <2>2
    <3>2. w[j] = d[j] /\ d[j] \in Desk!ToSet(d)
      BY <1>2, <1>3, <2>2
    <3> QED
      BY <1>2, <1>5, <3>1, <3>2
  <2>3. CASE i \in 1 .. n /\ j \notin 1 .. n
    <3>1. j = n + 1
      BY <1>1, <2>3
    <3>2. w[i] = d[i] /\ d[i] \in Desk!ToSet(d)
      BY <1>2, <1>3, <2>3
    <3> QED
      BY <1>2, <1>5, <3>1, <3>2
  <2>4. CASE i \notin 1 .. n /\ j \notin 1 .. n
    BY <1>1, <2>4
  <2> QED
    BY <2>1, <2>2, <2>3, <2>4
<1>6. ASSUME NEW y
      PROVE  y \in Desk!ToSet(w) <=> y \in Desk!ToSet(d) \union {x}
  <2>1. \A i \in 1 .. n + 1 : i \in 1 .. n \/ i = n + 1
    BY <1>1
  <2>2. \A i \in 1 .. n : i \in 1 .. n + 1
    BY <1>1
  <2>3. n + 1 \in 1 .. n + 1
    BY <1>1
  <2> QED
    BY <1>2, <1>3, <2>1, <2>2, <2>3
<1>7. Listing(w)
  BY <1>2, <1>5 DEF Listing
<1>8. Desk!ToSet(w) = Desk!ToSet(d) \union {x}
  BY <1>6
<1> QED
  BY <1>2, <1>7, <1>8 DEF w, n

\* The filter takes one row after the other.
KeptRun(h, s, n, good) ==
  /\ h[0] = <<>>
  /\ \A k \in 1 .. n : h[k] = Kept(h[k - 1], s[k], good)

\* It is where its run ends.
LEMMA FilterRuns ==
  ASSUME NEW n \in Nat, NEW s \in [1 .. n -> Int], NEW good
  PROVE  \E h : KeptRun(h, s, n, good) /\ KeptFold(s, good)[DOMAIN s] = h[n]
<1> DEFINE none == <<>>
           G == [i \in 1 .. n |-> [d \in Seq(Int) |-> Kept(d, s[i], good)]]
           iter == KeptFold(s, good)
           h == [k \in 0 .. n |-> iter[1 .. k]]
<1>1. DOMAIN s = 1 .. n /\ \A i \in 1 .. n : s[i] \in Int
  OBVIOUS
<1>2. G \in [1 .. n -> [Seq(Int) -> Seq(Int)]]
  <2>1. ASSUME NEW i \in 1 .. n, NEW d \in Seq(Int)
        PROVE  Kept(d, s[i], good) \in Seq(Int)
    <3>1. Append(d, s[i]) \in Seq(Int)
      BY <1>1
    <3> QED
      BY <3>1 DEF Kept
  <2> QED
    BY <2>1
<1>3. none \in Seq(Int)
  OBVIOUS
<1> HIDE DEF none
<1>4. PICK f \in [SUBSET (1 .. n) -> Seq(Int)] : Folding(f, none, G, n)
  <2> HIDE DEF G
  <2> QED
    BY <1>2, <1>3, FoldDefined DEF CanFold
<1>5. f = [S \in SUBSET DOMAIN s |->
             IF S = {} THEN none
             ELSE Kept(f[S \ {Largest(S)}], s[Largest(S)], good)]
  <2>1. ASSUME NEW S \in SUBSET (1 .. n), S # {}
        PROVE  G[Largest(S)][f[S \ {Largest(S)}]] =
                 Kept(f[S \ {Largest(S)}], s[Largest(S)], good)
    <3>1. Largest(S) \in 1 .. n
      BY <2>1, LargestIn
    <3>2. f[S \ {Largest(S)}] \in Seq(Int)
      BY <1>4
    <3> QED
      BY <3>1, <3>2
  <2> HIDE DEF G
  <2> QED
    BY <1>1, <1>4, <2>1 DEF Folding
<1>6. iter = [S \in SUBSET DOMAIN s |->
                IF S = {} THEN none
                ELSE Kept(iter[S \ {Largest(S)}], s[Largest(S)], good)]
  BY <1>5 DEF KeptFold, none
<1> HIDE DEF iter
<1>7. ASSUME NEW k \in 1 .. n
      PROVE  iter[1 .. k] = Kept(iter[1 .. k - 1], s[k], good)
  <2>1. Largest(1 .. k) = k
    <3>1. 1 .. k \in SUBSET Int /\ k \in 1 .. k /\ \A x \in 1 .. k : x <= k
      OBVIOUS
    <3> QED
      BY <3>1, LargestIs
  <2>2. (1 .. k) \ {k} = 1 .. k - 1 /\ 1 .. k \in SUBSET (1 .. n) /\ 1 .. k # {}
    <3>1. (1 .. k) \ {k} = 1 .. k - 1
      OBVIOUS
    <3>2. 1 .. k \in SUBSET (1 .. n) /\ k \in 1 .. k
      OBVIOUS
    <3> QED
      BY <3>1, <3>2
  <2> QED
    BY <1>1, <1>6, <2>1, <2>2
<1>8. iter[1 .. 0] = none
  <2>1. 1 .. 0 = {}
    OBVIOUS
  <2> QED
    BY <1>1, <1>6, <2>1
<1>9. KeptRun(h, s, n, good)
  BY <1>7, <1>8 DEF KeptRun, none
<1>10. iter[DOMAIN s] = h[n]
  BY <1>1
<1> QED
  BY <1>9, <1>10 DEF iter

\* It keeps the good rows of a list.
LEMMA FilterKeeps ==
  ASSUME NEW s, Listing(s), NEW good
  PROVE  /\ Listing(KeptFold(s, good)[DOMAIN s])
         /\ Len(KeptFold(s, good)[DOMAIN s]) <= Len(s)
         /\ Desk!ToSet(KeptFold(s, good)[DOMAIN s]) = Desk!ToSet(s) \intersect good
<1> DEFINE n == Len(s)
           kept == KeptFold(s, good)[DOMAIN s]
<1>1. n \in Nat /\ s \in [1 .. n -> Int] /\ DOMAIN s = 1 .. n
  BY DEF Listing
<1>2. PICK h : KeptRun(h, s, n, good) /\ kept = h[n]
  <2> HIDE DEF n
  <2> QED
    BY <1>1, FilterRuns
<1>3. \A i, j \in 1 .. n : s[i] = s[j] => i = j
  BY DEF Listing
<1>4. Desk!ToSet(s) = {s[i] : i \in 1 .. n}
  BY <1>1 DEF Desk!ToSet
<1> HIDE DEF n, kept
<1> DEFINE K == {k \in Nat : k <= n =>
                   /\ Listing(h[k]) /\ Len(h[k]) <= k
                   /\ Desk!ToSet(h[k]) = {s[i] : i \in 1 .. k} \intersect good}
<1>5. 0 \in K
  <2>1. 1 .. 0 = {}
    OBVIOUS
  <2>2. {s[i] : i \in 1 .. 0} = {}
    BY <2>1
  <2>3. h[0] = <<>>
    BY <1>2 DEF KeptRun
  <2>4. /\ Listing(h[0]) /\ Len(h[0]) <= 0
        /\ Desk!ToSet(h[0]) = {s[i] : i \in 1 .. 0} \intersect good
    BY <2>2, <2>3, EmptyListing
  <2> QED
    BY <2>4
<1>6. ASSUME NEW k \in Nat, k \in K
      PROVE  k + 1 \in K
  <2> SUFFICES ASSUME k + 1 <= n
               PROVE  /\ Listing(h[k + 1]) /\ Len(h[k + 1]) <= k + 1
                      /\ Desk!ToSet(h[k + 1]) = {s[i] : i \in 1 .. k + 1} \intersect good
    OBVIOUS
  <2>1. /\ Listing(h[k]) /\ Len(h[k]) <= k
        /\ Desk!ToSet(h[k]) = {s[i] : i \in 1 .. k} \intersect good
    BY <1>1, <1>6
  <2> HIDE DEF K
  <2>2. k + 1 \in 1 .. n /\ (k + 1) - 1 = k
    BY <1>1
  <2>3. h[k + 1] = Kept(h[k], s[k + 1], good) /\ s[k + 1] \in Int
    BY <1>1, <1>2, <2>2 DEF KeptRun
  <2>4. {s[i] : i \in 1 .. k + 1} = {s[i] : i \in 1 .. k} \union {s[k + 1]}
    <3>1. 1 .. k + 1 = (1 .. k) \union {k + 1}
      OBVIOUS
    <3> HIDE DEF n
    <3> QED
      BY <3>1
  <2>5. s[k + 1] \notin {s[i] : i \in 1 .. k}
    <3>1. \A i \in 1 .. k : i \in 1 .. n /\ i # k + 1
      BY <1>1
    <3> QED
      BY <1>3, <2>2, <3>1
  <2>6. Len(h[k]) \in Nat
    BY <2>1 DEF Listing
  <2>7. CASE s[k + 1] \in good
    <3>1. h[k + 1] = Append(h[k], s[k + 1])
      BY <2>3, <2>7 DEF Kept
    <3>2. s[k + 1] \notin Desk!ToSet(h[k])
      BY <2>1, <2>5
    <3>3. /\ Listing(h[k + 1]) /\ Len(h[k + 1]) = Len(h[k]) + 1
          /\ Desk!ToSet(h[k + 1]) = Desk!ToSet(h[k]) \union {s[k + 1]}
      BY <2>1, <2>3, <3>1, <3>2, ListingAppend
    <3>4. Desk!ToSet(h[k + 1]) = {s[i] : i \in 1 .. k + 1} \intersect good
      BY <2>1, <2>4, <2>7, <3>3
    <3> QED
      BY <2>1, <2>6, <3>3, <3>4
  <2>8. CASE s[k + 1] \notin good
    <3>1. h[k + 1] = h[k]
      BY <2>3, <2>8 DEF Kept
    <3>2. {s[i] : i \in 1 .. k + 1} \intersect good = {s[i] : i \in 1 .. k} \intersect good
      BY <2>4, <2>8
    <3> QED
      BY <2>1, <2>6, <3>1, <3>2
  <2> QED
    BY <2>7, <2>8
<1>7. n \in K
  <2> HIDE DEF K
  <2> QED
    BY <1>1, <1>5, <1>6, Induction
<1>8. /\ Listing(h[n]) /\ Len(h[n]) <= n
      /\ Desk!ToSet(h[n]) = {s[i] : i \in 1 .. n} \intersect good
  BY <1>1, <1>7
<1> QED
  BY <1>2, <1>4, <1>8 DEF n, kept

\* What a sequence holds.
LEMMA SeqIs ==
  ASSUME NEW S, NEW s \in Seq(S)
  PROVE  /\ Len(s) \in Nat /\ DOMAIN s = 1 .. Len(s)
         /\ \A i \in DOMAIN s : s[i] \in S
OBVIOUS

\* The images of a finite set are no more than it.
LEMMA ImagesFewer ==
  ASSUME NEW I, IsFiniteSet(I), NEW f
  PROVE  /\ IsFiniteSet({f[i] : i \in I}) /\ Cardinality({f[i] : i \in I}) \in Nat
         /\ Cardinality({f[i] : i \in I}) <= Cardinality(I)
<1> DEFINE T == {f[i] : i \in I}
           g == [i \in I |-> f[i]]
<1>1. g \in Surjection(I, T)
  BY DEF Surjection
<1> HIDE DEF T, g
<1>2. IsFiniteSet(T) /\ Cardinality(T) <= Cardinality(I)
  BY <1>1, FS_Surjection
<1>3. Cardinality(T) \in Nat
  BY <1>2, FS_CardinalityType
<1> QED
  BY <1>2, <1>3 DEF T

\* The first n places are places, n of them or fewer.
LEMMA DeskFirst ==
  ASSUME NEW S \in SUBSET Int, IsFiniteSet(S), NEW n \in Nat
  PROVE  /\ Desk!First(S, n) \in SUBSET S /\ IsFiniteSet(Desk!First(S, n))
         /\ Cardinality(Desk!First(S, n)) \in Nat /\ Cardinality(Desk!First(S, n)) <= n
<1> DEFINE key == [i \in S |-> i]
<1>1. key \in [S -> Int] /\ \A x, y \in S : key[x] = key[y] => x = y
  OBVIOUS
<1>2. \A x \in S : {j \in S : j < x} = {j \in S : key[j] < key[x]}
  OBVIOUS
<1>3. \A x \in S : Desk!Cardinality({j \in S : j < x}) = Ahead(S, key, x)
  BY <1>2, SameCount DEF Ahead
<1>4. Desk!First(S, n) = Firsts(S, key, n)
  BY <1>3 DEF Desk!First, Firsts
<1> HIDE DEF key
<1>5. /\ Firsts(S, key, n) \in SUBSET S /\ IsFiniteSet(Firsts(S, key, n))
      /\ Cardinality(Firsts(S, key, n)) \in Nat /\ Cardinality(Firsts(S, key, n)) <= n
  BY <1>1, FirstOf
<1> QED
  BY <1>4, <1>5

\* Related markets: some that are not shown, n or fewer.
LEMMA RelatedIs ==
  ASSUME Desk!DeskConstants, NEW shown, NEW n \in Nat
  PROVE  /\ Desk!Related(shown, n) \in SUBSET Int /\ IsFiniteSet(Desk!Related(shown, n))
         /\ Cardinality(Desk!Related(shown, n)) \in Nat
         /\ Cardinality(Desk!Related(shown, n)) <= n
         /\ Desk!Related(shown, n) \intersect shown = {}
<1> DEFINE fit == {i \in DOMAIN Profile : Profile[i] \in hydrated}
           best == Desk!First(fit, 3 * n)
           new == {i \in best : Profile[i] \notin shown}
           some == Desk!First(new, n)
<1>1. /\ Profile \in Seq(Desk!MarketIds) /\ DOMAIN Profile = 1 .. Len(Profile)
      /\ Len(Profile) \in Nat /\ Desk!MarketIds \subseteq Int
      /\ \A i \in DOMAIN Profile : Profile[i] \in Int
  <2>1. Profile \in Seq(Desk!MarketIds)
    BY DEF Desk!DeskConstants
  <2>2. Desk!MarketIds \subseteq Int
    BY DEF Desk!MarketIds
  <2>3. /\ DOMAIN Profile = 1 .. Len(Profile) /\ Len(Profile) \in Nat
        /\ \A i \in DOMAIN Profile : Profile[i] \in Desk!MarketIds
    BY <2>1, SeqIs
  <2> QED
    BY <2>1, <2>2, <2>3
<1>2. IsFiniteSet(1 .. Len(Profile)) /\ 1 .. Len(Profile) \subseteq Int
  BY <1>1, FS_Interval
<1>3. fit \in SUBSET Int /\ IsFiniteSet(fit) /\ fit \subseteq DOMAIN Profile
  BY <1>1, <1>2, Fewer
<1>4. 3 * n \in Nat
  OBVIOUS
<1> HIDE DEF fit
<1>5. best \in SUBSET fit /\ IsFiniteSet(best)
  BY <1>3, <1>4, DeskFirst
<1> HIDE DEF best
<1>6. new \in SUBSET best /\ IsFiniteSet(new) /\ new \in SUBSET Int
  <2>1. new \in SUBSET best
    OBVIOUS
  <2> QED
    BY <1>3, <1>5, <2>1, Fewer
<1>7. \A i \in new : Profile[i] \notin shown
  OBVIOUS
<1> HIDE DEF new
<1>8. /\ some \in SUBSET new /\ IsFiniteSet(some) /\ Cardinality(some) \in Nat
      /\ Cardinality(some) <= n
  BY <1>6, DeskFirst
<1>9. Desk!Related(shown, n) = {Profile[i] : i \in some}
  BY DEF Desk!Related, fit, best, new
<1> HIDE DEF some
<1>10. \A i \in some : Profile[i] \in Int /\ Profile[i] \notin shown
  BY <1>1, <1>3, <1>5, <1>6, <1>7, <1>8
<1>11. /\ IsFiniteSet({Profile[i] : i \in some}) /\ Cardinality({Profile[i] : i \in some}) \in Nat
       /\ Cardinality({Profile[i] : i \in some}) <= Cardinality(some)
  BY <1>8, ImagesFewer
<1> QED
  BY <1>8, <1>9, <1>10, <1>11

\* Linked articles: some that are not shown, n or fewer.
LEMMA LinkedIs ==
  ASSUME Desk!DeskConstants, NEW markets, NEW shown, NEW n \in Nat
  PROVE  /\ Desk!Linked(markets, shown, n) \in SUBSET Int
         /\ IsFiniteSet(Desk!Linked(markets, shown, n))
         /\ Cardinality(Desk!Linked(markets, shown, n)) \in Nat
         /\ Cardinality(Desk!Linked(markets, shown, n)) <= n
         /\ Desk!Linked(markets, shown, n) \intersect shown = {}
<1> DEFINE fit == {i \in DOMAIN Link : Link[i][1] <= seen /\ Link[i][2] \in markets}
           best == Desk!First(fit, 4 * n)
           new == {i \in best : /\ Link[i][1] \notin shown
                                /\ \A j \in best : j < i => Link[j][1] # Link[i][1]}
           some == Desk!First(new, n)
           article == [i \in DOMAIN Link |-> Link[i][1]]
<1>1. /\ DOMAIN Link = 1 .. Len(Link) /\ Len(Link) \in Nat
      /\ \A i \in DOMAIN Link : Link[i][1] \in Int
  <2>1. Link \in Seq(Desk!Article \X Desk!MarketIds)
    BY DEF Desk!DeskConstants
  <2>2. Desk!Article \subseteq Int
    BY DEF Desk!Article
  <2>3. /\ DOMAIN Link = 1 .. Len(Link) /\ Len(Link) \in Nat
        /\ \A i \in DOMAIN Link : Link[i] \in Desk!Article \X Desk!MarketIds
    BY <2>1, SeqIs
  <2>4. \A p \in Desk!Article \X Desk!MarketIds : p[1] \in Desk!Article
    OBVIOUS
  <2> QED
    BY <2>1, <2>2, <2>3, <2>4
<1>2. IsFiniteSet(1 .. Len(Link)) /\ 1 .. Len(Link) \subseteq Int
  BY <1>1, FS_Interval
<1>3. fit \in SUBSET Int /\ IsFiniteSet(fit) /\ fit \subseteq DOMAIN Link
  BY <1>1, <1>2, Fewer
<1>4. 4 * n \in Nat
  OBVIOUS
<1> HIDE DEF fit
<1>5. best \in SUBSET fit /\ IsFiniteSet(best)
  BY <1>3, <1>4, DeskFirst
<1> HIDE DEF best
<1>6. new \in SUBSET best /\ IsFiniteSet(new) /\ new \in SUBSET Int
  <2>1. new \in SUBSET best
    OBVIOUS
  <2> QED
    BY <1>3, <1>5, <2>1, Fewer
<1>7. \A i \in new : Link[i][1] \notin shown
  OBVIOUS
<1> HIDE DEF new
<1>8. /\ some \in SUBSET new /\ IsFiniteSet(some) /\ Cardinality(some) \in Nat
      /\ Cardinality(some) <= n
  BY <1>6, DeskFirst
<1>9. Desk!Linked(markets, shown, n) = {Link[i][1] : i \in some}
  BY DEF Desk!Linked, fit, best, new
<1> HIDE DEF some
<1>10. \A i \in some : /\ article[i] = Link[i][1] /\ article[i] \in Int
                       /\ article[i] \notin shown
  BY <1>1, <1>3, <1>5, <1>6, <1>7, <1>8
<1> HIDE DEF article
<1>11. {Link[i][1] : i \in some} = {article[i] : i \in some}
  BY <1>10
<1>12. /\ IsFiniteSet({article[i] : i \in some}) /\ Cardinality({article[i] : i \in some}) \in Nat
       /\ Cardinality({article[i] : i \in some}) <= Cardinality(some)
  BY <1>8, ImagesFewer
<1>13. Desk!Linked(markets, shown, n) = {article[i] : i \in some}
  BY <1>9, <1>11
<1>14. {article[i] : i \in some} \in SUBSET Int /\ {article[i] : i \in some} \intersect shown = {}
  BY <1>10
<1> QED
  BY <1>8, <1>12, <1>13, <1>14

\* The best of what is found: as many as the limit allows, or all.
LEMMA BestIs ==
  ASSUME Desk!DeskConstants, NEW S \in SUBSET Int, IsFiniteSet(S), NEW found \in Desk!Best(S)
  PROVE  /\ found \in SUBSET S /\ IsFiniteSet(found) /\ Cardinality(found) \in Nat
         /\ Cardinality(found) <= Results
         /\ Cardinality(found) = Results \/ found = S
<1>1. Results \in Nat /\ Cardinality(S) \in Nat
  BY FS_CardinalityType DEF Desk!DeskConstants
<1>2. Desk!Best(S) = IF Cardinality(S) <= Results THEN {S}
                     ELSE {best \in SUBSET S : Cardinality(best) = Results}
  BY SameCount DEF Desk!Best
<1>3. CASE Cardinality(S) <= Results
  BY <1>1, <1>2, <1>3
<1>4. CASE ~(Cardinality(S) <= Results)
  <2>1. found \in SUBSET S /\ Cardinality(found) = Results
    BY <1>2, <1>4
  <2> QED
    BY <1>1, <2>1, Fewer
<1> QED
  BY <1>3, <1>4

\* The newest of some articles: as many as the limit allows, or all.
Newest(S) == {a \in S : Desk!Cardinality({b \in S : b > a}) < Results}

\* They are some of the articles, and all of them or as many as the limit.
LEMMA NewestIs ==
  ASSUME Desk!DeskConstants, NEW S \in SUBSET Int, IsFiniteSet(S)
  PROVE  /\ Newest(S) \in SUBSET S /\ IsFiniteSet(Newest(S)) /\ Cardinality(Newest(S)) \in Nat
         /\ Cardinality(Newest(S)) <= Results
         /\ Cardinality(Newest(S)) = Results \/ Newest(S) = S
<1> DEFINE key == OrderOf("news", S)
<1>1. Results \in Nat
  BY DEF Desk!DeskConstants
<1>2. /\ key \in [S -> Int] /\ \A x, y \in S : key[x] = key[y] => x = y
      /\ \A r \in S : {s \in S : key[s] < key[r]} = {s \in S : s > r}
  BY OrderIs
<1> HIDE DEF key
<1>3. \A a \in S : Desk!Cardinality({b \in S : b > a}) = Ahead(S, key, a)
  BY <1>2, SameCount DEF Ahead
<1>4. Newest(S) = Firsts(S, key, Results)
  BY <1>3 DEF Newest, Firsts
<1>5. /\ Firsts(S, key, Results) \in SUBSET S /\ IsFiniteSet(Firsts(S, key, Results))
      /\ Cardinality(Firsts(S, key, Results)) \in Nat
      /\ Cardinality(Firsts(S, key, Results)) <= Results
      /\ Cardinality(Firsts(S, key, Results)) = Results \/ Firsts(S, key, Results) = S
  BY <1>1, <1>2, FirstOf
<1> QED
  BY <1>4, <1>5

\* What a search was asked for.
Wants(q, kind) == q.scope \in {"all", kind}

\* What a search must find.
Owes(q, kind) ==
  IF q.provider = "opensearch" THEN q.promised[kind] \intersect Hits[kind]
  ELSE q.rows[kind] \intersect Direct[kind]

\* A search under way: what it shows so far is short and without repetition, and a stage
\* that is over has found what it owes or is full.
GoodSearch(q, rows, index) ==
  \/ q = [at |-> "idle"]
  \/ /\ DOMAIN q = {"at", "provider", "scope", "markets", "news", "full", "rows", "promised"}
     /\ q.at \in {"markets", "news", "linked", "answered"}
     /\ Within(q.rows, rows) /\ Within(q.promised, index)
     /\ Listing(q.markets) /\ Len(q.markets) <= Results
     /\ Listing(q.news) /\ Len(q.news) <= Results
     /\ q.at = "markets" => q.markets = <<>>
     /\ q.at \in {"markets", "news"} => q.news = <<>>
     /\ q.at # "markets" /\ Wants(q, "markets") =>
          Len(q.markets) = Results \/ Owes(q, "markets") \subseteq Desk!ToSet(q.markets)
     /\ q.at = "linked" /\ Wants(q, "news") =>
          q.full \/ Owes(q, "news") \subseteq Desk!ToSet(q.news)
     /\ q.at = "answered" /\ Wants(q, "news") =>
          q.full \/ Owes(q, "news") \intersect Telling \subseteq Desk!ToSet(q.news)

\* Rows and documents that are added take nothing from a search.
LEMMA SearchGrows ==
  ASSUME NEW q, NEW rows, NEW more, NEW index, NEW later, Within(rows, more),
         Within(index, later), GoodSearch(q, rows, index)
  PROVE  GoodSearch(q, more, later)
<1>1. CASE q = [at |-> "idle"]
  BY <1>1 DEF GoodSearch
<1>2. CASE q # [at |-> "idle"]
  <2>1. Within(q.rows, rows) /\ Within(q.promised, index)
    BY <1>2 DEF GoodSearch
  <2>2. Within(q.rows, more) /\ Within(q.promised, later)
    BY <2>1 DEF Within
  <2> QED
    BY <1>2, <2>2 DEF GoodSearch
<1> QED
  BY <1>1, <1>2

\* What an answer of the search is good for: FoundSinceRebuild.
LEMMA SearchShows ==
  ASSUME GoodSearch(query, Desk!Rows, visible)
  PROVE  FoundSinceRebuild
<1> SUFFICES ASSUME query.at = "answered"
             PROVE  FoundSinceRebuild
  BY DEF FoundSinceRebuild, Desk!FoundSinceRebuild, Desk!Answered
<1>1. query # [at |-> "idle"]
  OBVIOUS
<1>2. /\ Listing(query.markets) /\ Len(query.markets) <= Results
      /\ Listing(query.news) /\ Len(query.news) <= Results
      /\ Wants(query, "markets") =>
           \/ Len(query.markets) = Results
           \/ Owes(query, "markets") \subseteq Desk!ToSet(query.markets)
      /\ Wants(query, "news") =>
           \/ query.full
           \/ Owes(query, "news") \intersect Telling \subseteq Desk!ToSet(query.news)
  BY <1>1 DEF GoodSearch
<1>3. /\ Desk!Cardinality(Desk!ToSet(query.markets)) = Len(query.markets)
      /\ Desk!Cardinality(Desk!ToSet(query.news)) = Len(query.news)
  BY <1>2, ListingCount, SameCount
<1>4. \A kind \in Desk!Kinds : /\ Len(query[kind]) <= Results
                               /\ Desk!Cardinality(Desk!ToSet(query[kind])) = Len(query[kind])
  BY <1>2, <1>3 DEF Desk!Kinds
<1>5. \A kind : Desk!Asked(kind) = Wants(query, kind) /\ Desk!Owed(kind) = Owes(query, kind)
  BY DEF Desk!Asked, Desk!Owed, Wants, Owes
<1> QED
  BY <1>2, <1>4, <1>5 DEF FoundSinceRebuild, Desk!FoundSinceRebuild

\* A search begins.
LEMMA SearchBegins ==
  ASSUME Desk!DeskConstants, IndexKnown, Desk!Search
  PROVE  GoodSearch(query', Desk!Rows, visible)
<1>1. PICK scope \in Scopes :
        query' = [at |-> "markets", provider |-> "opensearch", scope |-> scope,
                  markets |-> <<>>, news |-> <<>>, full |-> FALSE,
                  rows |-> Desk!Rows,
                  promised |-> [kind \in Desk!Kinds |-> promised[kind] \ Desk!Hidden[kind]]]
  BY DEF Desk!Search
<1>2. /\ DOMAIN query' = {"at", "provider", "scope", "markets", "news", "full", "rows",
                          "promised"}
      /\ query'.at = "markets" /\ query'.markets = <<>> /\ query'.news = <<>>
      /\ query'.rows = Desk!Rows
      /\ query'.promised = [kind \in Desk!Kinds |-> promised[kind] \ Desk!Hidden[kind]]
  BY <1>1
<1>3. Within(query'.rows, Desk!Rows) /\ Within(query'.promised, visible)
  <2>1. \A kind \in Desk!Kinds :
          /\ query'.promised[kind] = promised[kind] \ Desk!Hidden[kind]
          /\ Desk!Hidden[kind] = docs[kind] \ visible[kind] /\ promised[kind] \subseteq docs[kind]
    BY <1>2 DEF Desk!Hidden, IndexKnown, Within
  <2> QED
    BY <1>2, <2>1 DEF Within
<1>4. Results \in Nat
  BY DEF Desk!DeskConstants
<1>5. /\ Listing(query'.markets) /\ Len(query'.markets) <= Results
      /\ Listing(query'.news) /\ Len(query'.news) <= Results
  BY <1>2, <1>4, EmptyListing
<1> QED
  BY <1>2, <1>3, <1>5 DEF GoodSearch

\* OpenSearch answers for markets.
LEMMA AskMarkets ==
  ASSUME Desk!DeskConstants, IndexKnown, GoodSearch(query, Desk!Rows, visible),
         Desk!AskIndex("markets", "news")
  PROVE  GoodSearch(query', Desk!Rows, visible)
<1>1. query.at = "markets" /\ query.provider = "opensearch"
  BY DEF Desk!AskIndex
<1>2. PICK found \in IF Desk!Asked("markets")
                       THEN Desk!Best(visible["markets"] \intersect Hits["markets"]) ELSE {{}} :
        query' = [query EXCEPT !.at = "news", !["markets"] = Desk!SetToSeq(found),
                               !.full = @]
  BY DEF Desk!AskIndex
<1>3. query # [at |-> "idle"]
  BY <1>1
<1>4. /\ DOMAIN query = {"at", "provider", "scope", "markets", "news", "full", "rows",
                         "promised"}
      /\ Within(query.rows, Desk!Rows) /\ Within(query.promised, visible)
      /\ query.news = <<>>
  BY <1>1, <1>3 DEF GoodSearch
<1>5. /\ DOMAIN query' = DOMAIN query /\ query'.at = "news"
      /\ query'.provider = query.provider /\ query'.scope = query.scope
      /\ query'.markets = Desk!SetToSeq(found) /\ query'.news = query.news
      /\ query'.rows = query.rows /\ query'.promised = query.promised
  BY <1>2, <1>4
<1>6. "markets" \in Desk!Kinds
  BY DEF Desk!Kinds
<1> DEFINE S == visible["markets"] \intersect Hits["markets"]
<1>7. S \in SUBSET Int /\ IsFiniteSet(S)
  <2>1. Known(Desk!Rows) /\ visible["markets"] \subseteq Desk!Rows["markets"]
    BY <1>6, RowsAre DEF IndexKnown, Within
  <2>2. Desk!Rows["markets"] \in SUBSET Int /\ IsFiniteSet(Desk!Rows["markets"])
    BY <1>6, <2>1 DEF Known
  <2>3. S \in SUBSET Desk!Rows["markets"]
    BY <2>1
  <2> QED
    BY <2>2, <2>3, Fewer
<1>8. /\ found \in SUBSET Int /\ IsFiniteSet(found) /\ Cardinality(found) \in Nat
      /\ Cardinality(found) <= Results
      /\ Desk!Asked("markets") => Cardinality(found) = Results \/ found = S
  <2>1. CASE Desk!Asked("markets")
    <3>1. found \in Desk!Best(S)
      BY <1>2, <2>1
    <3> HIDE DEF S
    <3> QED
      BY <1>7, <3>1, BestIs
  <2>2. CASE ~Desk!Asked("markets")
    <3>1. found = {}
      BY <1>2, <2>2
    <3> QED
      BY <2>2, <3>1, FS_EmptySet DEF Desk!DeskConstants
  <2> QED
    BY <2>1, <2>2
<1>9. /\ Listing(query'.markets) /\ Len(query'.markets) = Cardinality(found)
      /\ Desk!ToSet(query'.markets) = found
  BY <1>5, <1>8, SetToSeqIs
<1>10. Wants(query', "markets") =>
         \/ Len(query'.markets) = Results
         \/ Owes(query', "markets") \subseteq Desk!ToSet(query'.markets)
  <2>1. Wants(query', "markets") = Desk!Asked("markets")
    BY <1>5 DEF Wants, Desk!Asked
  <2>2. Owes(query', "markets") = query.promised["markets"] \intersect Hits["markets"]
    BY <1>1, <1>5 DEF Owes
  <2>3. Owes(query', "markets") \subseteq S
    BY <1>4, <1>6, <2>2 DEF Within
  <2> HIDE DEF S
  <2> QED
    BY <1>8, <1>9, <2>1, <2>3
<1>11. Results \in Nat
  BY DEF Desk!DeskConstants
<1>12. Listing(query'.news) /\ Len(query'.news) <= Results /\ query'.news = <<>>
  BY <1>4, <1>5, <1>11, EmptyListing
<1> QED
  BY <1>4, <1>5, <1>8, <1>9, <1>10, <1>12 DEF GoodSearch

\* OpenSearch answers for news.
LEMMA AskNews ==
  ASSUME Desk!DeskConstants, IndexKnown, GoodSearch(query, Desk!Rows, visible),
         Desk!AskIndex("news", "linked")
  PROVE  GoodSearch(query', Desk!Rows, visible)
<1>1. query.at = "news" /\ query.provider = "opensearch"
  BY DEF Desk!AskIndex
<1>2. PICK found \in IF Desk!Asked("news")
                       THEN Desk!Best(visible["news"] \intersect Hits["news"]) ELSE {{}} :
        query' = [query EXCEPT !.at = "linked", !["news"] = Desk!SetToSeq(found),
                               !.full = Cardinality(found) = Results]
  BY SameCount DEF Desk!AskIndex
<1>3. query # [at |-> "idle"]
  BY <1>1
<1>4. /\ DOMAIN query = {"at", "provider", "scope", "markets", "news", "full", "rows",
                         "promised"}
      /\ Within(query.rows, Desk!Rows) /\ Within(query.promised, visible)
      /\ Listing(query.markets) /\ Len(query.markets) <= Results
      /\ Wants(query, "markets") =>
           \/ Len(query.markets) = Results
           \/ Owes(query, "markets") \subseteq Desk!ToSet(query.markets)
  BY <1>1, <1>3 DEF GoodSearch
<1>5. /\ DOMAIN query' = DOMAIN query /\ query'.at = "linked"
      /\ query'.provider = query.provider /\ query'.scope = query.scope
      /\ query'.markets = query.markets /\ query'.news = Desk!SetToSeq(found)
      /\ query'.full = (Cardinality(found) = Results)
      /\ query'.rows = query.rows /\ query'.promised = query.promised
  BY <1>2, <1>4
<1>6. "news" \in Desk!Kinds
  BY DEF Desk!Kinds
<1> DEFINE S == visible["news"] \intersect Hits["news"]
<1>7. S \in SUBSET Int /\ IsFiniteSet(S)
  <2>1. Known(Desk!Rows) /\ visible["news"] \subseteq Desk!Rows["news"]
    BY <1>6, RowsAre DEF IndexKnown, Within
  <2>2. Desk!Rows["news"] \in SUBSET Int /\ IsFiniteSet(Desk!Rows["news"])
    BY <1>6, <2>1 DEF Known
  <2>3. S \in SUBSET Desk!Rows["news"]
    BY <2>1
  <2> QED
    BY <2>2, <2>3, Fewer
<1>8. /\ found \in SUBSET Int /\ IsFiniteSet(found) /\ Cardinality(found) \in Nat
      /\ Cardinality(found) <= Results
      /\ Desk!Asked("news") => Cardinality(found) = Results \/ found = S
  <2>1. CASE Desk!Asked("news")
    <3>1. found \in Desk!Best(S)
      BY <1>2, <2>1
    <3> HIDE DEF S
    <3> QED
      BY <1>7, <3>1, BestIs
  <2>2. CASE ~Desk!Asked("news")
    <3>1. found = {}
      BY <1>2, <2>2
    <3> QED
      BY <2>2, <3>1, FS_EmptySet DEF Desk!DeskConstants
  <2> QED
    BY <2>1, <2>2
<1>9. /\ Listing(query'.news) /\ Len(query'.news) = Cardinality(found)
      /\ Desk!ToSet(query'.news) = found
  BY <1>5, <1>8, SetToSeqIs
<1>10. Wants(query', "news") =>
         query'.full \/ Owes(query', "news") \subseteq Desk!ToSet(query'.news)
  <2>1. Wants(query', "news") = Desk!Asked("news")
    BY <1>5 DEF Wants, Desk!Asked
  <2>2. Owes(query', "news") = query.promised["news"] \intersect Hits["news"]
    BY <1>1, <1>5 DEF Owes
  <2>3. Owes(query', "news") \subseteq S
    BY <1>4, <1>6, <2>2 DEF Within
  <2> HIDE DEF S
  <2> QED
    BY <1>5, <1>8, <1>9, <2>1, <2>3
<1>11. Wants(query', "markets") =>
         \/ Len(query'.markets) = Results
         \/ Owes(query', "markets") \subseteq Desk!ToSet(query'.markets)
  BY <1>4, <1>5 DEF Wants, Owes
<1> QED
  BY <1>4, <1>5, <1>8, <1>9, <1>10, <1>11 DEF GoodSearch

\* The second attempt starts from nothing.
LEMMA FallsBack ==
  ASSUME Desk!DeskConstants, GoodSearch(query, Desk!Rows, visible), Desk!FallBack
  PROVE  GoodSearch(query', Desk!Rows, visible)
<1>1. /\ query.at \in {"markets", "news", "linked"}
      /\ query' = [query EXCEPT !.at = "markets", !.provider = "postgres", !.markets = <<>>,
                                !.news = <<>>, !.full = FALSE]
  BY DEF Desk!FallBack, Desk!FallenBack
<1>2. query # [at |-> "idle"]
  BY <1>1
<1>3. /\ DOMAIN query = {"at", "provider", "scope", "markets", "news", "full", "rows",
                         "promised"}
      /\ Within(query.rows, Desk!Rows) /\ Within(query.promised, visible)
  BY <1>2 DEF GoodSearch
<1>4. /\ DOMAIN query' = DOMAIN query /\ query'.at = "markets"
      /\ query'.markets = <<>> /\ query'.news = <<>>
      /\ query'.rows = query.rows /\ query'.promised = query.promised
  BY <1>1, <1>3
<1>5. Results \in Nat
  BY DEF Desk!DeskConstants
<1>6. /\ Listing(query'.markets) /\ Len(query'.markets) <= Results
      /\ Listing(query'.news) /\ Len(query'.news) <= Results
  BY <1>4, <1>5, EmptyListing
<1> QED
  BY <1>3, <1>4, <1>6 DEF GoodSearch

\* Two sets, one after the other.
BothListed(found, more) == Desk!SetToSeq(found) \o Desk!SetToSeq(more)

\* Their list holds both, each row once.
LEMMA FoundAndMore ==
  ASSUME NEW found \in SUBSET Int, NEW more \in SUBSET Int, IsFiniteSet(found),
         IsFiniteSet(more), more \intersect found = {}
  PROVE  /\ Listing(BothListed(found, more))
         /\ Len(BothListed(found, more)) = Cardinality(found) + Cardinality(more)
         /\ Desk!ToSet(BothListed(found, more)) = found \union more
         /\ <<>> \o Desk!SetToSeq(found) = Desk!SetToSeq(found)
         /\ <<>> \o BothListed(found, more) = BothListed(found, more)
<1> DEFINE s == Desk!SetToSeq(found)
           t == Desk!SetToSeq(more)
<1>1. /\ Listing(s) /\ Len(s) = Cardinality(found) /\ Desk!ToSet(s) = found
      /\ Listing(t) /\ Len(t) = Cardinality(more) /\ Desk!ToSet(t) = more
  BY SetToSeqIs
<1> HIDE DEF s, t
<1>2. Desk!ToSet(s) \intersect Desk!ToSet(t) = {}
  BY <1>1
<1>3. /\ Listing(s \o t) /\ Len(s \o t) = Len(s) + Len(t)
      /\ Desk!ToSet(s \o t) = Desk!ToSet(s) \union Desk!ToSet(t)
  BY <1>1, <1>2, ListingsJoin
<1>4. \A w \in Seq(Int) : <<>> \o w = w
  OBVIOUS
<1>5. <<>> \o s = s /\ <<>> \o (s \o t) = s \o t
  BY <1>1, <1>3, <1>4 DEF Listing
<1>6. BothListed(found, more) = s \o t
  BY DEF BothListed, s, t
<1>7. <<>> \o Desk!SetToSeq(found) = Desk!SetToSeq(found)
  BY <1>5 DEF s
<1> QED
  BY <1>1, <1>3, <1>5, <1>6, <1>7

\* PostgreSQL answers for markets.
LEMMA FindMarkets ==
  ASSUME Desk!DeskConstants, IndexKnown, GoodSearch(query, Desk!Rows, visible),
         Desk!SearchMarkets
  PROVE  GoodSearch(query', Desk!Rows, visible)
<1>1. query.at = "markets" /\ query.provider = "postgres"
  BY DEF Desk!SearchMarkets
<1> DEFINE S == hydrated \intersect Direct.markets
<1>2. PICK found \in IF Desk!Asked("markets") THEN Desk!Best(S) ELSE {{}} :
        query' = [query EXCEPT !.at = "news",
                    !.markets = @ \o Desk!SetToSeq(found)
                      \o Desk!SetToSeq(Desk!Related(found,
                           IF Desk!Asked("markets") THEN Results - Cardinality(found) ELSE 0))]
  BY SameCount DEF Desk!SearchMarkets
<1> DEFINE rest == IF Desk!Asked("markets") THEN Results - Cardinality(found) ELSE 0
           more == Desk!Related(found, rest)
<1>3. query # [at |-> "idle"]
  BY <1>1
<1>4. /\ DOMAIN query = {"at", "provider", "scope", "markets", "news", "full", "rows",
                         "promised"}
      /\ Within(query.rows, Desk!Rows) /\ Within(query.promised, visible)
      /\ query.markets = <<>> /\ query.news = <<>>
  BY <1>1, <1>3 DEF GoodSearch
<1>5. /\ DOMAIN query' = DOMAIN query /\ query'.at = "news"
      /\ query'.provider = query.provider /\ query'.scope = query.scope
      /\ query'.markets = query.markets \o Desk!SetToSeq(found) \o Desk!SetToSeq(more)
      /\ query'.news = query.news
      /\ query'.rows = query.rows /\ query'.promised = query.promised
  BY <1>2, <1>4
<1>6. "markets" \in Desk!Kinds /\ Desk!Rows["markets"] = hydrated /\ Results \in Nat
  BY RowsAre DEF Desk!Kinds, Desk!DeskConstants
<1>7. S \in SUBSET Int /\ IsFiniteSet(S)
  <2>1. hydrated \in SUBSET Int /\ IsFiniteSet(hydrated)
    BY <1>6, RowsAre DEF Known
  <2>2. S \in SUBSET hydrated
    OBVIOUS
  <2> QED
    BY <2>1, <2>2, Fewer
<1>8. /\ found \in SUBSET Int /\ IsFiniteSet(found) /\ Cardinality(found) \in Nat
      /\ Cardinality(found) <= Results
      /\ Desk!Asked("markets") => Cardinality(found) = Results \/ found = S
      /\ ~Desk!Asked("markets") => Cardinality(found) = 0
  <2>1. CASE Desk!Asked("markets")
    <3>1. found \in Desk!Best(S)
      BY <1>2, <2>1
    <3> HIDE DEF S
    <3> QED
      BY <1>7, <2>1, <3>1, BestIs
  <2>2. CASE ~Desk!Asked("markets")
    <3>1. found = {}
      BY <1>2, <2>2
    <3> QED
      BY <1>6, <2>2, <3>1, FS_EmptySet
  <2> QED
    BY <2>1, <2>2
<1>9. /\ rest \in Nat /\ Cardinality(found) + rest <= Results
      /\ Desk!Asked("markets") => rest = Results - Cardinality(found)
  BY <1>6, <1>8
<1> HIDE DEF rest
<1>10. /\ more \in SUBSET Int /\ IsFiniteSet(more) /\ Cardinality(more) \in Nat
       /\ Cardinality(more) <= rest /\ more \intersect found = {}
  BY <1>9, RelatedIs
<1> HIDE DEF more
<1>11. /\ Listing(BothListed(found, more))
       /\ Len(BothListed(found, more)) = Cardinality(found) + Cardinality(more)
       /\ Desk!ToSet(BothListed(found, more)) = found \union more
       /\ <<>> \o Desk!SetToSeq(found) = Desk!SetToSeq(found)
  BY <1>8, <1>10, FoundAndMore
<1>12. /\ Listing(query'.markets)
       /\ Len(query'.markets) = Cardinality(found) + Cardinality(more)
       /\ Desk!ToSet(query'.markets) = found \union more
  <2>1. query'.markets = BothListed(found, more)
    BY <1>4, <1>5, <1>11 DEF BothListed
  <2> QED
    BY <1>11, <2>1
<1>13. Len(query'.markets) <= Results
  BY <1>6, <1>8, <1>9, <1>10, <1>12
<1>14. Wants(query', "markets") =>
         \/ Len(query'.markets) = Results
         \/ Owes(query', "markets") \subseteq Desk!ToSet(query'.markets)
  <2>1. Wants(query', "markets") = Desk!Asked("markets")
    BY <1>5 DEF Wants, Desk!Asked
  <2>2. Owes(query', "markets") = query.rows["markets"] \intersect Direct["markets"]
    BY <1>1, <1>5 DEF Owes
  <2>3. Owes(query', "markets") \subseteq S
    BY <1>4, <1>6, <2>2 DEF Within
  <2> HIDE DEF S
  <2>4. CASE Cardinality(found) = Results
    BY <1>6, <1>8, <1>12, <1>13, <1>10, <2>4
  <2>5. CASE found = S
    BY <1>12, <2>3, <2>5
  <2> QED
    BY <1>8, <2>1, <2>4, <2>5
<1>15. Listing(query'.news) /\ Len(query'.news) <= Results /\ query'.news = <<>>
  BY <1>4, <1>5, <1>6, EmptyListing
<1> QED
  BY <1>4, <1>5, <1>12, <1>13, <1>14, <1>15 DEF GoodSearch

\* PostgreSQL answers for news.
LEMMA FindNews ==
  ASSUME Desk!DeskConstants, IndexKnown, GoodSearch(query, Desk!Rows, visible), Desk!SearchNews
  PROVE  GoodSearch(query', Desk!Rows, visible)
<1>1. query.at = "news" /\ query.provider = "postgres"
  BY DEF Desk!SearchNews
<1> DEFINE S == {a \in 1 .. seen : a \in Direct.news}
           found == Newest(S)
           rest == Results - Cardinality(found)
           seeds == IF query.markets # <<>> THEN Desk!ToSet(query.markets)
                    ELSE Desk!Related({}, Results)
           more == Desk!Linked(seeds, found, rest)
<1>2. query' = IF Desk!Asked("news")
                 THEN [query EXCEPT !.at = "linked", !.news = @ \o BothListed(found, more),
                                    !.full = Cardinality(found) = Results]
                 ELSE [query EXCEPT !.at = "answered"]
  BY SameCount DEF Desk!SearchNews, Newest, BothListed
<1>3. query # [at |-> "idle"]
  BY <1>1
<1>4. /\ DOMAIN query = {"at", "provider", "scope", "markets", "news", "full", "rows",
                         "promised"}
      /\ Within(query.rows, Desk!Rows) /\ Within(query.promised, visible)
      /\ Listing(query.markets) /\ Len(query.markets) <= Results
      /\ Listing(query.news) /\ Len(query.news) <= Results
      /\ query.news = <<>>
      /\ Wants(query, "markets") =>
           \/ Len(query.markets) = Results
           \/ Owes(query, "markets") \subseteq Desk!ToSet(query.markets)
  BY <1>1, <1>3 DEF GoodSearch
<1>5. "news" \in Desk!Kinds /\ Desk!Rows["news"] = 1 .. seen /\ Results \in Nat
  BY RowsAre DEF Desk!Kinds, Desk!DeskConstants
<1>6. S \in SUBSET Int /\ IsFiniteSet(S)
  <2>1. 1 .. seen \in SUBSET Int /\ IsFiniteSet(1 .. seen)
    BY <1>5, RowsAre DEF Known
  <2>2. S \in SUBSET (1 .. seen)
    OBVIOUS
  <2> QED
    BY <2>1, <2>2, Fewer
<1>7. \A a \in query.rows["news"] \intersect Direct["news"] : a \in S
  BY <1>4, <1>5 DEF Within
<1> HIDE DEF S
<1>8. /\ found \in SUBSET S /\ IsFiniteSet(found) /\ Cardinality(found) \in Nat
      /\ Cardinality(found) <= Results
      /\ Cardinality(found) = Results \/ found = S
  BY <1>6, NewestIs
<1> HIDE DEF found, seeds
<1>9. rest \in Nat /\ rest = Results - Cardinality(found)
  BY <1>5, <1>8
<1> HIDE DEF rest
<1>10. /\ more \in SUBSET Int /\ IsFiniteSet(more) /\ Cardinality(more) \in Nat
       /\ Cardinality(more) <= rest /\ more \intersect found = {}
  BY <1>9, LinkedIs
<1> HIDE DEF more
<1>11. found \in SUBSET Int
  BY <1>6, <1>8
<1>12. /\ Listing(BothListed(found, more))
       /\ Len(BothListed(found, more)) = Cardinality(found) + Cardinality(more)
       /\ Desk!ToSet(BothListed(found, more)) = found \union more
       /\ <<>> \o BothListed(found, more) = BothListed(found, more)
  BY <1>8, <1>10, <1>11, FoundAndMore
<1>13. Len(BothListed(found, more)) <= Results
  BY <1>5, <1>8, <1>9, <1>10, <1>12
<1>14. CASE Desk!Asked("news")
  <2>1. /\ DOMAIN query' = DOMAIN query /\ query'.at = "linked"
        /\ query'.provider = query.provider /\ query'.scope = query.scope
        /\ query'.markets = query.markets
        /\ query'.news = query.news \o BothListed(found, more)
        /\ query'.full = (Cardinality(found) = Results)
        /\ query'.rows = query.rows /\ query'.promised = query.promised
    BY <1>2, <1>4, <1>14
  <2>2. query'.news = BothListed(found, more)
    BY <1>4, <1>12, <2>1
  <2>3. query'.full \/ Owes(query', "news") \subseteq Desk!ToSet(query'.news)
    <3>1. Owes(query', "news") = query.rows["news"] \intersect Direct["news"]
      BY <1>1, <2>1 DEF Owes
    <3>2. CASE Cardinality(found) = Results
      BY <2>1, <3>2
    <3>3. CASE found = S
      BY <1>7, <1>12, <2>2, <3>1, <3>3
    <3> QED
      BY <1>8, <3>2, <3>3
  <2>4. Wants(query', "markets") =>
          \/ Len(query'.markets) = Results
          \/ Owes(query', "markets") \subseteq Desk!ToSet(query'.markets)
    BY <1>4, <2>1 DEF Wants, Owes
  <2>5. Listing(query'.news) /\ Len(query'.news) <= Results
    BY <1>12, <1>13, <2>2
  <2> QED
    BY <1>4, <2>1, <2>3, <2>4, <2>5 DEF GoodSearch
<1>15. CASE ~Desk!Asked("news")
  <2>1. /\ DOMAIN query' = DOMAIN query /\ query'.at = "answered"
        /\ query'.provider = query.provider /\ query'.scope = query.scope
        /\ query'.markets = query.markets /\ query'.news = query.news
        /\ query'.rows = query.rows /\ query'.promised = query.promised
    BY <1>2, <1>4, <1>15
  <2>2. ~Wants(query', "news")
    BY <1>15, <2>1 DEF Wants, Desk!Asked
  <2>3. Wants(query', "markets") =>
          \/ Len(query'.markets) = Results
          \/ Owes(query', "markets") \subseteq Desk!ToSet(query'.markets)
    BY <1>4, <2>1 DEF Wants, Owes
  <2> QED
    BY <1>4, <2>1, <2>2, <2>3 DEF GoodSearch
<1> QED
  BY <1>14, <1>15

\* The filter leaves what answers the query by its own words.
LEMMA Filtered ==
  ASSUME Desk!DeskConstants, IndexKnown, GoodSearch(query, Desk!Rows, visible), Desk!Filter
  PROVE  GoodSearch(query', Desk!Rows, visible)
<1>1. query.at = "linked"
  BY DEF Desk!Filter
<1>2. PICK attached \in BOOLEAN :
        query' = [query EXCEPT !.at = "answered",
                    !.news = KeptFold(query.news, Desk!Answering(attached))
                               [DOMAIN query.news]]
  BY FilterIs
<1>3. query # [at |-> "idle"]
  BY <1>1
<1>4. /\ DOMAIN query = {"at", "provider", "scope", "markets", "news", "full", "rows",
                         "promised"}
      /\ Within(query.rows, Desk!Rows) /\ Within(query.promised, visible)
      /\ Listing(query.markets) /\ Len(query.markets) <= Results
      /\ Listing(query.news) /\ Len(query.news) <= Results
      /\ Wants(query, "markets") =>
           \/ Len(query.markets) = Results
           \/ Owes(query, "markets") \subseteq Desk!ToSet(query.markets)
      /\ Wants(query, "news") =>
           query.full \/ Owes(query, "news") \subseteq Desk!ToSet(query.news)
  BY <1>1, <1>3 DEF GoodSearch
<1> DEFINE good == Desk!Answering(attached)
<1>5. /\ DOMAIN query' = DOMAIN query /\ query'.at = "answered"
      /\ query'.provider = query.provider /\ query'.scope = query.scope
      /\ query'.markets = query.markets
      /\ query'.news = KeptFold(query.news, good)[DOMAIN query.news]
      /\ query'.full = query.full
      /\ query'.rows = query.rows /\ query'.promised = query.promised
  BY <1>2, <1>4
<1>6. \A a \in Desk!Article : a \in Telling => a \in good
  BY DEF Desk!Answering
<1> HIDE DEF good
<1>7. /\ Listing(query'.news) /\ Len(query'.news) <= Len(query.news)
      /\ Desk!ToSet(query'.news) = Desk!ToSet(query.news) \intersect good
  BY <1>4, <1>5, FilterKeeps
<1>8. Len(query'.news) <= Results
  <2>1. Len(query'.news) \in Nat /\ Len(query.news) \in Nat /\ Results \in Nat
    BY <1>4, <1>7 DEF Listing, Desk!DeskConstants
  <2> QED
    BY <1>4, <1>7, <2>1
<1>9. Owes(query, "news") \subseteq Desk!Article
  <2>1. "news" \in Desk!Kinds /\ Desk!Rows["news"] = 1 .. seen
    BY RowsAre DEF Desk!Kinds
  <2>2. 1 .. seen \subseteq Desk!Article
    <3>1. seen \in 1 .. Articles /\ Articles \in Nat
      BY DEF IndexKnown, Desk!DeskConstants
    <3> QED
      BY <3>1 DEF Desk!Article
  <2>3. query.rows["news"] \subseteq 1 .. seen /\ query.promised["news"] \subseteq 1 .. seen
    BY <1>4, <2>1 DEF IndexKnown, Within
  <2> QED
    BY <2>2, <2>3 DEF Owes
<1>10. Owes(query', "news") = Owes(query, "news") /\ Owes(query', "markets") = Owes(query, "markets")
       /\ \A kind : Wants(query', kind) = Wants(query, kind)
  BY <1>5 DEF Owes, Wants
<1>11. Wants(query', "news") =>
         query'.full \/ Owes(query', "news") \intersect Telling \subseteq Desk!ToSet(query'.news)
  BY <1>4, <1>5, <1>6, <1>7, <1>9, <1>10
<1>12. Wants(query', "markets") =>
         \/ Len(query'.markets) = Results
         \/ Owes(query', "markets") \subseteq Desk!ToSet(query'.markets)
  BY <1>4, <1>5, <1>10
<1> QED
  BY <1>4, <1>5, <1>7, <1>8, <1>11, <1>12 DEF GoodSearch

\* Nothing has been searched or indexed at first.
LEMMA DeskStarts ==
  ASSUME Desk!DeskConstants, Desk!Init
  PROVE  IndexKnown /\ GoodSearch(query, Desk!Rows, visible)
<1>1. /\ hydrated \in Early /\ seen = 1 /\ docs = Desk!Nothing /\ visible = Desk!Nothing
      /\ promised = Desk!Nothing
      /\ rebuild = [at |-> "idle"] /\ query = [at |-> "idle"]
  BY DEF Desk!Init, Desk!Idle
<1>2. Early \subseteq SUBSET Desk!MarketIds /\ Articles \in Nat \ {0}
  BY DEF Desk!DeskConstants
<1>3. hydrated \in SUBSET Desk!MarketIds /\ seen \in 1 .. Articles
  BY <1>1, <1>2
<1>4. /\ Desk!Nothing \in [Desk!Kinds -> SUBSET Int]
      /\ \A kind \in Desk!Kinds : Desk!Nothing[kind] = {}
  BY DEF Desk!Nothing
<1>5. /\ Known(Desk!Nothing) /\ Within(Desk!Nothing, Desk!Rows)
      /\ Within(Desk!Nothing, Desk!Nothing)
  BY <1>4, FS_EmptySet DEF Known, Within
<1> QED
  BY <1>1, <1>3, <1>4, <1>5 DEF IndexKnown, GoodRebuild, GoodSearch

\* No step takes anything from a search.
LEMMA DeskStays ==
  ASSUME Desk!DeskConstants, IndexKnown, GoodSearch(query, Desk!Rows, visible),
         [Desk!Next]_deskVars
  PROVE  IndexKnown' /\ GoodSearch(query', Desk!Rows', visible')
<1>1. Within(Desk!Rows, Desk!Rows) /\ Within(visible, visible)
  BY DEF Within
<1>2. CASE Desk!Ingest \/ \E m \in Desk!MarketIds : Desk!Hydrate(m)
  <2>1. IndexKnown' /\ Within(Desk!Rows, Desk!Rows') /\ visible' = visible /\ query' = query
    BY <1>2, JoinKnown
  <2> QED
    BY <1>1, <2>1, SearchGrows
<1>3. CASE Desk!StartRebuild \/ Desk!ReadPage \/ Desk!PostPage \/ Desk!EndPages
           \/ Desk!FailRebuild
  <2>1. UNCHANGED <<hydrated, seen, visible, query>>
    BY <1>3 DEF Desk!StartRebuild, Desk!ReadPage, Desk!PostPage, Desk!EndPages,
                Desk!FailRebuild
  <2>2. Desk!Rows' = Desk!Rows
    BY <2>1 DEF Desk!Rows
  <2>3. IndexKnown'
    BY <1>3, StartKnown, ReadPageKnown, PostPageKnown, EndKnown, FailKnown
  <2> QED
    BY <2>1, <2>2, <2>3
<1>14. CASE \E kind \in Desk!Kinds : Desk!Refresh(kind)
  BY <1>1, <1>14, RefreshKnown, SearchGrows
<1>4. CASE UNCHANGED <<hydrated, seen, docs, visible, rebuild, promised>>
           /\ GoodSearch(query', Desk!Rows, visible)
  <2>1. Desk!Rows' = Desk!Rows
    BY <1>4 DEF Desk!Rows
  <2> QED
    BY <1>4, <2>1 DEF IndexKnown
<1>5. CASE Desk!Search
  BY <1>4, <1>5, SearchBegins DEF Desk!Search
<1>6. CASE Desk!AskIndex("markets", "news")
  BY <1>4, <1>6, AskMarkets DEF Desk!AskIndex
<1>7. CASE Desk!AskIndex("news", "linked")
  BY <1>4, <1>7, AskNews DEF Desk!AskIndex
<1>8. CASE Desk!FallBack
  BY <1>4, <1>8, FallsBack DEF Desk!FallBack
<1>9. CASE Desk!SearchMarkets
  BY <1>4, <1>9, FindMarkets DEF Desk!SearchMarkets
<1>10. CASE Desk!SearchNews
  BY <1>4, <1>10, FindNews DEF Desk!SearchNews
<1>11. CASE Desk!Filter
  BY <1>4, <1>11, Filtered DEF Desk!Filter
<1>12. CASE Desk!Respond
  <2>1. GoodSearch(query', Desk!Rows, visible)
    BY <1>12 DEF Desk!Respond, Desk!Idle, GoodSearch
  <2> QED
    BY <1>4, <1>12, <2>1 DEF Desk!Respond
<1>13. CASE UNCHANGED deskVars
  BY <1>4, <1>13 DEF deskVars
<1> QED
  BY <1>2, <1>3, <1>5, <1>6, <1>7, <1>8, <1>9, <1>10, <1>11, <1>12, <1>13,
     <1>14 DEF Desk!Next

\* A search shows a row once, at most Limit of each kind, and, while it has room,
\* everything it owes, however the tables grew under the pages of a rebuild and whatever
\* failed since: dashboard_search, rebuild_search_index.
THEOREM SearchFinds ==
  ASSUME Desk!DeskConstants
  PROVE  Desk!Spec => []FoundSinceRebuild
<1> DEFINE Inv == IndexKnown /\ GoodSearch(query, Desk!Rows, visible)
<1>1. Desk!Init => Inv
  BY DeskStarts
<1>2. Inv /\ [Desk!Next]_deskVars => Inv'
  BY DeskStays
<1>3. Inv => FoundSinceRebuild
  BY SearchShows
<1>4. Desk!Spec => Desk!Init /\ [][Desk!Next]_deskVars
  BY DEF Desk!Spec, Desk!vars, deskVars
<1> QED
  BY <1>1, <1>2, <1>3, <1>4, PTL

=============================================================================
