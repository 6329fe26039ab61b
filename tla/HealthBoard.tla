----------------------------- MODULE HealthBoard -----------------------------
(***************************************************************************)
(* The heartbeats that jobs leave in pipeline_heartbeats                   *)
(* (app/services/pipeline_heartbeat.py, the job scripts) and the panel the *)
(* dashboard makes of them, _pipeline_health_payload of                    *)
(* app/api/routes/dashboard.py.                                            *)
(*                                                                         *)
(* A job reports its start, its progress, its success and its error; each  *)
(* report is best effort and may be lost, and a job may die without one.   *)
(* The panel fixes its time first, reads all heartbeats with one query,    *)
(* and then the tables of one component after the other.  A component is   *)
(* fresh by the heartbeat of its job, or by its rows when there is none.   *)
(* The news_trade_correlations component counts its heartbeat as rows;     *)
(* that count is read together with the rest of the heartbeat.             *)
(***************************************************************************)
EXTENDS Integers, Sequences, FiniteSets

CONSTANTS
  Jobs,        \* components fed by a job, in a sequence: the order of the panel
  ZeroIsFine,  \* components with zero_count_is_healthy
  StaleAfter,  \* StaleAfter[c]: how old the last sign of a healthy component may be
  Measured,    \* statuses of the storage: "healthy", "stale", "empty", "error"
  Absent,      \* no heartbeat, no time, no count
  MaxCount,    \* bound: rows and counts
  MaxTime,     \* bound: the clock
  MaxJobs      \* bound: processes that report under one key, as several scripts do

Component == {Jobs[i] : i \in DOMAIN Jobs}

\* A row of pipeline_heartbeats.
Beat == [status : {"starting", "running", "healthy", "error"}, at : Nat,
         count : Int \union {Absent}, success : Nat \union {Absent}]

HealthConstants ==
  /\ Jobs \in Seq(Component) /\ StaleAfter \in [Component -> Nat]
  /\ Measured \subseteq {"healthy", "stale", "empty", "error"}
  /\ Absent \notin Int /\ Absent \notin Beat

VARIABLES
  now,
  job,     \* job[c]: how many processes that report under c are running
  beat,    \* beat[c]: the row of c in pipeline_heartbeats, or Absent
  rows,    \* rows[c]: newest time and number of the rows the panel counts for c
  panel,   \* the request that is being answered
  alive,   \* history: when a job of c last did anything
  failed   \* history: components whose last delivered report was an error

vars == <<now, job, beat, rows, panel, alive, failed>>

Waiting == [at |-> "idle"]

Init ==
  /\ now = 0 /\ job = [c \in Component |-> 0]
  /\ beat = [c \in Component |-> Absent]
  /\ rows = [c \in Component |-> [at |-> Absent, count |-> 0]]
  /\ panel = Waiting
  /\ alive = [c \in Component |-> Absent] /\ failed = {}

----------------------------------------------------------------------------
(* Jobs                                                                     *)

Kept(c, field, new) ==
  IF new = Absent /\ beat[c] # Absent THEN beat[c][field] ELSE new

\* The row after the upsert of record_pipeline_heartbeat.
Report(c, status, count) ==
  [status |-> status, at |-> now, count |-> Kept(c, "count", count),
   success |-> Kept(c, "success", IF status = "healthy" THEN now ELSE Absent)]

\* A report that arrives, or is lost to an error of the database.
Send(c, status, count) ==
  /\ alive' = [alive EXCEPT ![c] = now]
  /\ \/ /\ beat' = [beat EXCEPT ![c] = Report(c, status, count)]
        /\ failed' = IF status = "error" THEN failed \union {c} ELSE failed \ {c}
     \/ UNCHANGED <<beat, failed>>

\* A process goes on after a report when it is a loop, and ends when it is not.
GoesOnOrEnds(c) == \E n \in {job[c], job[c] - 1} : job' = [job EXCEPT ![c] = n]

Start(c) ==
  /\ job[c] < MaxJobs /\ job' = [job EXCEPT ![c] = @ + 1]
  /\ Send(c, "starting", Absent) /\ UNCHANGED <<now, rows, panel>>

\* Some of the reports on the way bring a count.
Progress(c) ==
  /\ job[c] > 0
  /\ \E n \in {Absent} \union 0 .. MaxCount : Send(c, "running", n)
  /\ UNCHANGED <<now, job, rows, panel>>

Succeed(c) ==
  /\ job[c] > 0 /\ GoesOnOrEnds(c)
  /\ \E n \in 0 .. MaxCount : Send(c, "healthy", n)
  /\ UNCHANGED <<now, rows, panel>>

Fail(c) ==
  /\ job[c] > 0 /\ GoesOnOrEnds(c)
  /\ Send(c, "error", Absent) /\ UNCHANGED <<now, rows, panel>>

\* A kill leaves no report.
Die(c) ==
  /\ job[c] > 0 /\ job' = [job EXCEPT ![c] = @ - 1]
  /\ UNCHANGED <<now, beat, rows, panel, alive, failed>>

\* Any writer of the tables of c, its job or another process.
Write(c) ==
  /\ rows[c].count < MaxCount
  /\ rows' = [rows EXCEPT ![c] = [at |-> now, count |-> @.count + 1]]
  /\ UNCHANGED <<now, job, beat, panel, alive, failed>>

----------------------------------------------------------------------------
(* The panel                                                                *)

Later(s, t) == IF s = Absent THEN t ELSE IF t = Absent \/ s > t THEN s ELSE t

Age(t) == IF t > panel.now THEN 0 ELSE panel.now - t

\* _freshness_status
Freshness(c, latest, count) ==
  IF count # Absent /\ count <= 0 THEN "empty"
  ELSE IF latest = Absent THEN "empty"
  ELSE IF Age(latest) > StaleAfter[c] THEN "stale" ELSE "healthy"

ZeroUncounted(c, count) ==
  IF c \in ZeroIsFine /\ count = 0 THEN Absent ELSE count

\* Mutant: a component is as fresh as the newer of heartbeat and rows.
FromHeartbeat_AnySign(c, hb) ==
  IF hb.status = "error" THEN "error"
  ELSE Freshness(c, Later(Later(hb.at, hb.success), rows[c].at), ZeroUncounted(c, hb.count))

\* _component_from_heartbeat where there is one.
FromHeartbeat(c, hb) ==
  IF hb.status = "error" THEN "error"
  ELSE Freshness(c, Later(hb.at, hb.success), ZeroUncounted(c, hb.count))

Shown(c) ==
  IF panel.beats[c] # Absent
    THEN [status |-> FromHeartbeat(c, panel.beats[c]), source |-> "heartbeat"]
    ELSE [status |-> Freshness(c, rows[c].at, ZeroUncounted(c, rows[c].count)),
          source |-> "db"]

Request ==
  /\ panel.at = "idle"
  /\ panel' = [at |-> "asked", now |-> now]
  /\ UNCHANGED <<now, job, beat, rows, alive, failed>>

\* _pipeline_heartbeat_map: one query; when it fails there are no heartbeats.
ReadHeartbeats ==
  /\ panel.at = "asked"
  /\ \E found \in {beat, [c \in Component |-> Absent]} :
       panel' = [at |-> "reading", now |-> panel.now, beats |-> found,
                 dead |-> failed, shown |-> <<>>]
  /\ UNCHANGED <<now, job, beat, rows, alive, failed>>

\* The API itself, the components of the jobs, and the storage guardrails, which
\* measure the storage instead of rows. An error shows where queries fail:
\* _safe_pipeline_component.
MayShow(i) ==
  {[status |-> "error", source |-> "none"]}
  \union IF i = 1 THEN {[status |-> "healthy", source |-> "request"]}
         ELSE IF i = Len(Jobs) + 2
           THEN [status : Measured, source : {"storage"}]
           ELSE {Shown(Jobs[i - 1])}

Build ==
  /\ panel.at = "reading" /\ Len(panel.shown) < Len(Jobs) + 2
  /\ \E s \in MayShow(Len(panel.shown) + 1) : panel' = [panel EXCEPT !.shown = Append(@, s)]
  /\ UNCHANGED <<now, job, beat, rows, alive, failed>>

With(status) == {i \in DOMAIN panel.shown : panel.shown[i].status = status}

\* _pipeline_summary; the first component is the API itself.
Summary ==
  IF With("error") = DOMAIN panel.shown THEN "error"
  ELSE IF With("error") \union With("stale") # {} THEN "degraded"
  ELSE IF With("empty") \union {1} = DOMAIN panel.shown THEN "empty"
  ELSE IF With("empty") # {} THEN "degraded" ELSE "healthy"

Answered == panel.at = "reading" /\ Len(panel.shown) = Len(Jobs) + 2

Respond ==
  /\ Answered /\ panel' = Waiting
  /\ UNCHANGED <<now, job, beat, rows, alive, failed>>

Tick ==
  /\ now < MaxTime /\ now' = now + 1
  /\ UNCHANGED <<job, beat, rows, panel, alive, failed>>

\* Nothing that happens between the last query and the response changes it.
Next ==
  \/ /\ ~Answered
     /\ \/ \E c \in Component :
             Start(c) \/ Progress(c) \/ Succeed(c) \/ Fail(c) \/ Die(c) \/ Write(c)
        \/ Request \/ ReadHeartbeats \/ Build \/ Tick
  \/ Respond

Spec == Init /\ [][Next]_vars

----------------------------------------------------------------------------
(* Properties                                                               *)

\* What a healthy entry of the panel promises about its job.
Vouched(i) ==
  LET c == Jobs[i - 1]
  IN panel.shown[i].source = "heartbeat" =>
       /\ alive[c] # Absent /\ alive[c] >= panel.now - StaleAfter[c]
       /\ c \notin panel.dead

\* The panel is honest about its jobs: a component that it shows as healthy by
\* its heartbeat has a job that did something within the time allowed, however
\* many rows other processes have written, whose last report was no error when the
\* heartbeats were read; and all is well only if that holds of every component.
\* _component_from_heartbeat, _pipeline_summary.
HealthHonest ==
  Answered =>
    /\ \A i \in 2 .. Len(Jobs) + 1 : panel.shown[i].status = "healthy" => Vouched(i)
    /\ Summary = "healthy" => \A i \in 2 .. Len(Jobs) + 1 : Vouched(i)
=============================================================================
