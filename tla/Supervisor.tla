----------------------------- MODULE Supervisor -----------------------------
(* run_pipeline.py: starts the processes of the deployment, restarts those   *)
(* that exit, and stops them all when it is told to. A step is the code      *)
(* between two moments at which a child may exit or a signal may come; main  *)
(* is where the supervisor is and the child it is at. Heartbeats, which are  *)
(* best effort, and log files are left out.                                  *)
EXTENDS Naturals, Sequences

CONSTANTS
  Children,    \* the selected processes, in order
  MaxBackoff,  \* upper limit of backoff_seconds
  MaxBad       \* bound: starts that fail

Child == {Children[i] : i \in DOMAIN Children}

\* build_processes lists every process once; a list without any is refused.
SupervisorConstants ==
  /\ Children \in Seq(Child) /\ Children # <<>>
  /\ \A i, j \in DOMAIN Children : i # j => Children[i] # Children[j]
  /\ MaxBackoff \in Nat \ {0} /\ MaxBad \in Nat

VARIABLES
  child,     \* child -> "new", "alive" or "dead"
  backoff,   \* child -> backoff_seconds
  slept,     \* child -> backoff before its last start
  unseen,    \* children that no poll has seen alive since their last start
  main,      \* [place, i]
  stopping,  \* set by the signal handler
  bad

supervisorVars == <<child, backoff, slept, unseen, main, stopping, bad>>

At(place, i) == [place |-> place, i |-> i]
Current == Children[main.i]
Behind(place, end) == IF main.i = Len(Children) THEN end ELSE At(place, main.i + 1)

Init ==
  /\ child = [c \in Child |-> "new"]
  /\ backoff = [c \in Child |-> 1] /\ slept = [c \in Child |-> 0]
  /\ unseen = Child
  /\ main = At("launch", 1) /\ stopping = FALSE /\ bad = 0

\* ManagedProcess.start.
Start(c) ==
  /\ child' = [child EXCEPT ![c] = "alive"]
  /\ backoff' = [backoff EXCEPT ![c] = 1]
  /\ unseen' = unseen \cup {c}

Launch ==
  /\ main.place = "launch"
  /\ Start(Current)
  /\ main' = Behind("launch", At("poll", 1))
  /\ UNCHANGED <<slept, stopping, bad>>

\* A start fails, or a signal comes before its handler is there: main ends
\* outside the try, and what it has started lives on.
LaunchFails ==
  /\ main.place = "launch" /\ bad < MaxBad
  /\ main' = At("gone", 0) /\ bad' = bad + 1
  /\ UNCHANGED <<child, backoff, slept, unseen, stopping>>

Exit(c) ==
  /\ child[c] = "alive" /\ main.place # "gone"
  /\ child' = [child EXCEPT ![c] = "dead"]
  /\ UNCHANGED <<backoff, slept, unseen, main, stopping, bad>>

Signal ==
  /\ main.place \in {"poll", "restart", "sleep"} /\ ~stopping
  /\ stopping' = TRUE
  /\ UNCHANGED <<child, backoff, slept, unseen, main, bad>>

Polled == Behind("poll", At("sleep", 0))

PollAlive ==
  /\ main.place = "poll" /\ child[Current] = "alive"
  /\ unseen' = unseen \ {Current}
  /\ main' = Polled
  /\ UNCHANGED <<child, backoff, slept, stopping, bad>>

PollDead ==
  /\ main.place = "poll" /\ child[Current] = "dead"
  /\ main' = At("restart", main.i)
  /\ UNCHANGED <<child, backoff, slept, unseen, stopping, bad>>

\* Mutant: the loop begins anew after a restart.
AfterRestart_FromTheFirst == At("sleep", 0)

AfterRestart == Polled

\* The backoff that restart() doubles is 1 again before anyone sleeps on it.
Restart ==
  /\ main.place = "restart"
  /\ slept' = [slept EXCEPT ![Current] = backoff[Current]]
  /\ Start(Current)
  /\ main' = AfterRestart
  /\ UNCHANGED <<stopping, bad>>

RestartFails ==
  /\ main.place = "restart" /\ bad < MaxBad
  /\ bad' = bad + 1
  /\ backoff' = [backoff EXCEPT ![Current] =
                   IF 2 * @ < MaxBackoff THEN 2 * @ ELSE MaxBackoff]
  /\ main' = At("stop", 1)
  /\ UNCHANGED <<child, slept, unseen, stopping>>

Wake ==
  /\ main.place = "sleep"
  /\ main' = IF stopping THEN At("stop", 1) ELSE At("poll", 1)
  /\ UNCHANGED <<child, backoff, slept, unseen, stopping, bad>>

Stopped == Behind("stop", At("ended", 0))

\* ManagedProcess.stop of a child that has exited, or SIGTERM to one that lives.
Terminate ==
  /\ main.place = "stop"
  /\ main' = IF child[Current] = "alive" THEN At("wait", main.i) ELSE Stopped
  /\ UNCHANGED <<child, backoff, slept, unseen, stopping, bad>>

\* Mutant: nobody is killed after the timeout.
Reap_TermOnly == child' \in {child, [child EXCEPT ![Current] = "dead"]}

\* It exits within ten seconds, or is killed.
Reap == child' = [child EXCEPT ![Current] = "dead"]

Wait ==
  /\ main.place = "wait"
  /\ Reap
  /\ main' = Stopped
  /\ UNCHANGED <<backoff, slept, unseen, stopping, bad>>

Supervise ==
  \/ Launch \/ PollAlive \/ PollDead \/ Restart \/ Wake \/ Terminate \/ Wait

Next ==
  \/ Supervise \/ LaunchFails \/ RestartFails \/ Signal
  \/ \E c \in Child : Exit(c)

Spec == Init /\ [][Next]_supervisorVars
FairSpec == Spec /\ WF_supervisorVars(Supervise)

(* ---- Properties -------------------------------------------------------- *)

TypeOK ==
  /\ child \in [Child -> {"new", "alive", "dead"}]
  /\ backoff \in [Child -> 1 .. MaxBackoff] /\ slept \in [Child -> 0 .. MaxBackoff]
  /\ unseen \subseteq Child
  /\ main \in [place : {"launch", "gone", "poll", "restart", "sleep", "stop", "wait",
                        "ended"}, i : 0 .. Len(Children)]
  /\ stopping \in BOOLEAN /\ bad \in 0 .. MaxBad

\* A child that exits again before it was seen alive is restarted after a
\* longer pause than the last time: README.md:553, "restarts failed children
\* with exponential backoff".
BacksOff ==
  main.place = "restart" /\ Current \in unseen
    => backoff[Current] > slept[Current] \/ backoff[Current] = MaxBackoff

\* A process never runs twice: what is launched is new and what is restarted has exited.
NobodyTwice == main.place \in {"launch", "restart"} => child[Current] # "alive"

\* When the supervisor has ended, none of its children lives on, however many restarts
\* and signals there were while it stopped them.
NobodyLeft == main.place = "ended" => \A c \in Child : child[c] # "alive"

Ending == stopping \/ main.place \in {"gone", "stop", "wait", "ended"}

\* A child that exits runs again, however often another one exits, unless the
\* supervisor is being stopped.
Restarted == \A c \in Child : child[c] = "dead" ~> (child[c] = "alive" \/ Ending)

\* Once a signal is handled or a restart has failed the supervisor ends, and no
\* child outlives it, not even one it restarted after the signal.
StopsAll ==
  (stopping \/ main.place = "stop")
    ~> (main.place = "ended" /\ \A c \in Child : child[c] # "alive")
=============================================================================
