---------------------------- MODULE RateLimiter ----------------------------
(* core/rate_limit.py for one client and one rule: a counter per window in   *)
(* Redis, shared by the API processes, and a counter of each process that    *)
(* takes over for good when Redis fails. Requests are checked in the threads *)
(* of a pool, so a step is one call to Redis or one locked section.          *)
EXTENDS Integers, FiniteSets

CONSTANTS
  Thread, Process,
  ProcessOf,   \* thread -> its process
  Limit,       \* requests per window
  Window,      \* window_seconds
  MaxKeys,     \* keys in memory above which expired ones are dropped
  MaxTime,     \* bound: the clock
  MaxRequests, \* bound: requests per window
  MaxUpset     \* bound: Redis errors, evictions and restarts

VARIABLES
  time,
  shared,    \* key -> [count, until]: Redis
  local,     \* process -> key -> [count, until]: _counts
  counter,   \* process -> _counter: "none", "redis" or "memory"
  failed,    \* process -> _redis_failed
  req,       \* thread -> [at, key, start]: where its check is
  made,      \* window -> requests that arrived in it
  allowed,   \* window -> those let through
  refused,   \* window -> those refused
  late,      \* window -> those let through when it was over
  lost,      \* counters that were lost with what they had counted
  failures

\* check_request passes a rule that allows no requests at all; the clock never
\* turns back.
LimiterConstants ==
  /\ IsFiniteSet(Thread) /\ IsFiniteSet(Process) /\ ProcessOf \in [Thread -> Process]
  /\ Limit \in Nat \ {0} /\ Window \in Nat \ {0} /\ MaxTime \in Nat

limiterVars == <<time, shared, local, counter, failed, req, made, allowed, refused,
                 late, lost, failures>>

Count == 0 .. MaxRequests * (MaxTime \div Window + 1)
Windows == 0 .. MaxTime \div Window
NoCount == [count |-> 0, until |-> 0]
Idle == [at |-> "idle", key |-> 0, start |-> 0]
Zero == [w \in Windows |-> 0]

Init ==
  /\ time = 0
  /\ shared = [w \in Windows |-> NoCount]
  /\ local = [p \in Process |-> [w \in Windows |-> NoCount]]
  /\ counter = [p \in Process |-> "none"] /\ failed = [p \in Process |-> FALSE]
  /\ req = [t \in Thread |-> Idle]
  /\ made = Zero /\ allowed = Zero /\ refused = Zero /\ late = Zero
  /\ lost = 0 /\ failures = 0

\* Mutant: one key for all windows.
Key_Shared(s) == 0

\* _cache_key has the window in it.
Key(s) == s \div Window

Arrive(t) ==
  LET w == time \div Window
  IN /\ req[t] = Idle /\ made[w] < MaxRequests
     /\ made' = [made EXCEPT ![w] = @ + 1]
     /\ req' = [req EXCEPT ![t] = [at |-> "choose", key |-> Key(time), start |-> w]]
     /\ UNCHANGED <<time, shared, local, counter, failed, allowed, refused, late, lost,
                    failures>>

GoOn(t, at) == req' = [req EXCEPT ![t].at = at]

Answer(t, n) ==
  LET w == req[t].start
      ok == n <= Limit
  IN /\ req' = [req EXCEPT ![t] = Idle]
     /\ allowed' = [allowed EXCEPT ![w] = IF ok THEN @ + 1 ELSE @]
     /\ refused' = [refused EXCEPT ![w] = IF ok THEN @ ELSE @ + 1]
     /\ late' = [late EXCEPT ![w] = IF ok /\ time \div Window > w THEN @ + 1 ELSE @]

NoAnswer == UNCHANGED <<allowed, refused, late>>

\* _counter_for_request.
Choose(t) ==
  LET p == ProcessOf[t]
  IN /\ req[t].at = "choose"
     /\ GoOn(t, IF counter[p] # "none" THEN counter[p]
                ELSE IF failed[p] THEN "memory" ELSE "connect")
     /\ NoAnswer /\ UNCHANGED <<time, shared, local, counter, failed, made, lost, failures>>

Connect(t) ==
  /\ req[t].at = "connect"
  /\ GoOn(t, "redis")
  /\ counter' = [counter EXCEPT ![ProcessOf[t]] = "redis"]
  /\ NoAnswer /\ UNCHANGED <<time, shared, local, failed, made, lost, failures>>

ConnectFails(t) ==
  /\ req[t].at = "connect" /\ failures < MaxUpset
  /\ GoOn(t, "memory")
  /\ failed' = [failed EXCEPT ![ProcessOf[t]] = TRUE]
  /\ failures' = failures + 1
  /\ NoAnswer /\ UNCHANGED <<time, shared, local, counter, made, lost>>

\* A key past its time to live is gone.
Live(entry) == IF entry.until # 0 /\ entry.until <= time THEN NoCount ELSE entry
Incremented(k) ==
  [shared EXCEPT ![k] = [count |-> Live(@).count + 1, until |-> Live(@).until]]

Incr(t) ==
  LET k == req[t].key
  IN /\ req[t].at = "redis"
     /\ shared' = Incremented(k)
     /\ IF shared'[k].count = 1
        THEN GoOn(t, "expire") /\ NoAnswer
        ELSE Answer(t, shared'[k].count)
     /\ UNCHANGED <<time, local, counter, failed, made, lost, failures>>

Timed(k) ==
  [shared EXCEPT ![k] = IF Live(@).count = 0 THEN NoCount
                        ELSE [@ EXCEPT !.until = time + Window]]

Expire(t) ==
  /\ req[t].at = "expire"
  /\ shared' = Timed(req[t].key)
  /\ Answer(t, 1)
  /\ UNCHANGED <<time, local, counter, failed, made, lost, failures>>

\* An error or a timeout, before or after Redis did what it was asked.
RedisFails(t) ==
  /\ req[t].at \in {"redis", "expire"} /\ failures < MaxUpset
  /\ failures' = failures + 1
  /\ shared' \in {shared, IF req[t].at = "redis" THEN Incremented(req[t].key)
                          ELSE Timed(req[t].key)}
  /\ counter' = [counter EXCEPT ![ProcessOf[t]] = "memory"]
  /\ failed' = [failed EXCEPT ![ProcessOf[t]] = TRUE]
  /\ GoOn(t, "memory")
  /\ NoAnswer /\ UNCHANGED <<time, local, made, lost>>

\* Mutant: without Redis a request is let through.
Fallback_Open(n) == 0

Fallback(n) == n

\* InMemoryFixedWindowCounter.increment.
Memory(t) ==
  LET p == ProcessOf[t]
      k == req[t].key
      old == local[p][k]
      fresh == old.count = 0 \/ old.until <= time
      counts == [local[p] EXCEPT ![k] =
                   [count |-> IF fresh THEN 1 ELSE old.count + 1,
                    until |-> IF fresh THEN time + Window ELSE old.until]]
      full == Cardinality({w \in Windows : counts[w].count > 0}) > MaxKeys
  IN /\ req[t].at = "memory"
     /\ local' = [local EXCEPT ![p] =
                    IF full THEN [w \in Windows |-> Live(counts[w])] ELSE counts]
     /\ Answer(t, Fallback(counts[k].count))
     /\ UNCHANGED <<time, shared, counter, failed, made, lost, failures>>

Check(t) ==
  Choose(t) \/ Connect(t) \/ ConnectFails(t) \/ Incr(t) \/ Expire(t) \/ RedisFails(t)
  \/ Memory(t)

Tick ==
  /\ time < MaxTime /\ time' = time + 1
  /\ UNCHANGED <<shared, local, counter, failed, req, made, allowed, refused, late, lost,
                 failures>>

\* Redis drops a key when it needs the memory.
Evict(k) ==
  /\ shared[k].count > 0 /\ failures < MaxUpset
  /\ shared' = [shared EXCEPT ![k] = NoCount]
  /\ lost' = lost + 1 /\ failures' = failures + 1
  /\ UNCHANGED <<time, local, counter, failed, req, made, allowed, refused, late>>

Restart(p) ==
  /\ failures < MaxUpset
  /\ local' = [local EXCEPT ![p] = [w \in Windows |-> NoCount]]
  /\ counter' = [counter EXCEPT ![p] = "none"]
  /\ failed' = [failed EXCEPT ![p] = FALSE]
  /\ req' = [t \in Thread |-> IF ProcessOf[t] = p THEN Idle ELSE req[t]]
  /\ lost' = lost + 1 /\ failures' = failures + 1
  /\ UNCHANGED <<time, shared, made, allowed, refused, late>>

Next ==
  \/ \E t \in Thread : Arrive(t) \/ Check(t)
  \/ Tick
  \/ \E k \in Windows : Evict(k)
  \/ \E p \in Process : Restart(p)

Spec == Init /\ [][Next]_limiterVars

(* ---- Properties -------------------------------------------------------- *)

Entry == [count : Nat, until : Nat]

LimiterTypeOK ==
  /\ time \in 0 .. MaxTime
  /\ shared \in [Windows -> Entry] /\ local \in [Process -> [Windows -> Entry]]
  /\ counter \in [Process -> {"none", "redis", "memory"}]
  /\ failed \in [Process -> BOOLEAN]
  /\ req \in [Thread -> [at : {"idle", "choose", "connect", "redis", "expire", "memory"},
                         key : Windows, start : Windows]]
  /\ made \in [Windows -> Nat] /\ allowed \in [Windows -> Nat]
  /\ refused \in [Windows -> Nat] /\ late \in [Windows -> Nat]
  /\ lost \in Nat /\ failures \in Nat

\* A client is refused only in a window in which it made more requests than
\* the limit, however its requests were spread over counters that failed, were
\* counted twice, or were left without a time to live (RateLimiter.check_request).
NoFalseRefusal == \A w \in Windows : refused[w] > 0 => made[w] > Limit

\* A window lets through at most the limit for each counter that counts for it:
\* the one in Redis, one for each process, and those that replaced a lost one.
\* Only a check that ends after its window may find its key expired.
LimitHolds ==
  \A w \in Windows :
    allowed[w] <= Limit * (1 + Cardinality(Process) + lost) + late[w]
=============================================================================
