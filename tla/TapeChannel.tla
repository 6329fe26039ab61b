---------------------------- MODULE TapeChannel ----------------------------
(***************************************************************************)
(* What the live feed promises to the database, without saying how.        *)
(*                                                                         *)
(* Kalshi sends two kinds of messages.  A ticker message is the state of a *)
(* market: the latest one wins and older ones may be skipped, but what is  *)
(* stored never goes back to an older state.  Trades and orderbook         *)
(* messages are events: each is delivered at most once, and in the order   *)
(* of arrival.  Messages may be lost (a crash, a failed database write).   *)
(* This is the contract the comment in consume_market_data_forever states; *)
(* WsSession implements it with one writer worker.                         *)
(***************************************************************************)
EXTENDS Naturals, Sequences

CONSTANT Market

VARIABLES
  seen,     \* seen[m]: number of ticker states of m accepted from the feed
  arrived,  \* number of events accepted from the feed, also their identities
  store,    \* store[m]: ticker state the database holds, 0 for none
  log       \* events the database holds, in the order they were committed

vars == <<seen, arrived, store, log>>

Init ==
  /\ seen = [m \in Market |-> 0]
  /\ arrived = 0
  /\ store = [m \in Market |-> 0]
  /\ log = <<>>

\* The feed brings a new state of one market.
Tick(m) ==
  /\ seen' = [seen EXCEPT ![m] = @ + 1]
  /\ UNCHANGED <<arrived, store, log>>

\* The feed brings one event.
Event ==
  /\ arrived' = arrived + 1
  /\ UNCHANGED <<seen, store, log>>

\* One commit moves any set of markets forward, to states that were received.
Persist ==
  /\ \A m \in Market : store[m] <= store'[m] /\ store'[m] <= seen[m]
  /\ UNCHANGED <<seen, arrived, log>>

\* One commit appends an event younger than every event delivered before.
Deliver ==
  /\ \E e \in 1..arrived :
       /\ \A i \in DOMAIN log : log[i] < e
       /\ log' = Append(log, e)
  /\ UNCHANGED <<seen, arrived, store>>

Next == (\E m \in Market : Tick(m)) \/ Event \/ Persist \/ Deliver

Spec == Init /\ [][Next]_vars
=============================================================================
