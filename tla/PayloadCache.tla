---------------------------- MODULE PayloadCache ----------------------------
(* _cached_dashboard_payload for one key: a payload lives in Redis with a    *)
(* time to live, and in the memory of each process with the moment it was    *)
(* stored. Requests read; the warmer, a process of its own, builds without   *)
(* reading. A payload is the time its build began, a step one call to Redis, *)
(* one locked section or one build.                                          *)
EXTENDS Integers

CONSTANTS
  Caller,     \* requests and the warmer
  ProcessOf,  \* caller -> its process
  Forced,     \* callers with force_refresh
  Ttl,
  Second,     \* what the clock counts in a second
  MaxTaken,   \* bound: time a call may take
  MaxClock,   \* bound: the clock
  NoPayload     \* no payload

Process == {ProcessOf[c] : c \in Caller}

\* Every time to live in the code is positive.
CacheConstants ==
  /\ Ttl \in Nat \ {0} /\ Second \in Nat \ {0}
  /\ MaxTaken \in Nat /\ MaxClock \in Nat /\ NoPayload \notin Int

VARIABLES
  clock,
  redis,   \* [data, until]
  memory,  \* process -> [data, stored]
  call     \* caller -> [at, now, data]

cacheVars == <<clock, redis, memory, call>>

Quiet == [at |-> "idle", now |-> 0, data |-> NoPayload]
Empty == [data |-> NoPayload, until |-> 0]

Init ==
  /\ clock = 0 /\ redis = Empty
  /\ memory = [p \in Process |-> [data |-> NoPayload, stored |-> 0]]
  /\ call = [c \in Caller |-> Quiet]

GoOn(c, at) == call' = [call EXCEPT ![c].at = at]

Return(c) == call' = [call EXCEPT ![c] = Quiet]

Begin(c) ==
  /\ call[c] = Quiet
  /\ call' = [call EXCEPT ![c] = [at |-> IF c \in Forced THEN "build" ELSE "get",
                                  now |-> clock, data |-> NoPayload]]
  /\ UNCHANGED <<clock, redis, memory>>

InRedis == redis.data # NoPayload /\ clock < redis.until

Hit(c) ==
  /\ call[c].at = "get" /\ InRedis
  /\ Return(c)
  /\ UNCHANGED <<clock, redis, memory>>

\* NoPayload there, or the read fails.
Miss(c) ==
  /\ call[c].at = "get"
  /\ GoOn(c, "look")
  /\ UNCHANGED <<clock, redis, memory>>

\* Redis is told whole seconds, and at least one: max(1, int(ttl)).
Whole(ttl) == IF ttl < Second THEN Second ELSE (ttl \div Second) * Second

\* The write may fail.
Setex(data, ttl) == redis' \in {redis, [data |-> data, until |-> clock + Whole(ttl)]}

\* Mutant: a payload that goes back to Redis may stay as long as a new one.
Remaining_Full(c, entry) == Ttl

\* The age of the entry when the call began.
Remaining(c, entry) == Ttl - (call[c].now - entry.stored)

Kept(c) ==
  LET entry == memory[ProcessOf[c]]
  IN IF entry.data = NoPayload THEN FALSE ELSE call[c].now - entry.stored < Ttl

\* The process's own entry serves, and goes back to Redis for what is left.
Own(c) ==
  LET entry == memory[ProcessOf[c]]
  IN /\ call[c].at = "look" /\ Kept(c)
     /\ Setex(entry.data, Remaining(c, entry))
     /\ Return(c)
     /\ UNCHANGED <<clock, memory>>

Stale(c) ==
  /\ call[c].at = "look" /\ ~Kept(c)
  /\ GoOn(c, "build")
  /\ UNCHANGED <<clock, redis, memory>>

Build(c) ==
  /\ call[c].at = "build"
  /\ call' = [call EXCEPT ![c].at = "set", ![c].data = clock]
  /\ UNCHANGED <<clock, redis, memory>>

BuildFails(c) ==
  /\ call[c].at = "set"
  /\ Return(c)
  /\ UNCHANGED <<clock, redis, memory>>

Publish(c) ==
  /\ call[c].at = "set"
  /\ Setex(call[c].data, Ttl)
  /\ GoOn(c, "keep")
  /\ UNCHANGED <<clock, memory>>

Keep(c) ==
  /\ call[c].at = "keep"
  /\ memory' = [memory EXCEPT ![ProcessOf[c]] = [data |-> call[c].data, stored |-> clock]]
  /\ Return(c)
  /\ UNCHANGED <<clock, redis>>

\* Some time passes.
Tick ==
  /\ clock' \in clock + 1 .. MaxClock
  /\ \A c \in Caller : call[c] # Quiet => clock' <= call[c].now + MaxTaken
  /\ UNCHANGED <<redis, memory, call>>

Next ==
  \/ \E c \in Caller :
       Begin(c) \/ Hit(c) \/ Miss(c) \/ Own(c) \/ Stale(c) \/ Build(c) \/ BuildFails(c)
         \/ Publish(c) \/ Keep(c)
  \/ Tick

Spec == Init /\ [][Next]_cacheVars

(* ---- Properties -------------------------------------------------------- *)

Payload == Nat \union {NoPayload}

CacheTypeOK ==
  /\ clock \in 0 .. MaxClock
  /\ redis \in [data : Payload, until : Nat]
  /\ memory \in [Process -> [data : Payload, stored : Nat]]
  /\ call \in [Caller -> [at : {"idle", "get", "look", "build", "set", "keep"},
                          now : Nat, data : Payload]]

\* The payloads a call may return now.
Offered(c) ==
  (IF call[c].at = "get" /\ InRedis THEN {redis.data} ELSE {})
    \cup (IF call[c].at = "look" /\ Kept(c) THEN {memory[ProcessOf[c]].data} ELSE {})
    \cup (IF call[c].at = "keep" THEN {call[c].data} ELSE {})

\* What is served was read from the database less than a time to live, two
\* calls and the second Redis may round up to ago, though payloads go from
\* memory back to Redis, and from one process over Redis to another (the comment
\* on EXPIRE at dashboard.py:163).
PayloadAge ==
  \A c \in Caller : \A data \in Offered(c) :
    clock - data < Ttl + 2 * MaxTaken + Second - 1
=============================================================================
