------------------------------ MODULE Alerting ------------------------------
(***************************************************************************)
(* createAlertingMonitor: a timer in the pipeline worker that looks for    *)
(* pipelines running longer than a limit and sends one webhook for each.   *)
(* It remembers workflow ids, while what it alerts about are runs: an id   *)
(* has a run after another.                                                *)
(***************************************************************************)
EXTENDS Naturals

CONSTANTS
  Ids,        \* workflow ids
  MaxRuns,    \* bound: runs, of any two ids together
  MaxMishaps  \* bound: calls that fail or whose answer is lost, restarts

ASSUME AlertingAssumption == MaxRuns \in Nat /\ MaxMishaps \in Nat

VARIABLES
  last,     \* how many runs each id has had
  running,  \* the ids whose last run is running
  late,     \* those of them running for timeoutMs or more
  alerted,  \* the ids of the alerted Set
  check,    \* "timer" between two checks, "alerting" in one
  blocked,  \* the runs the check has found and not dealt with yet
  alerts,   \* the webhooks received about each run
  repeats,  \* webhooks answered with an error or not at all, and restarts
  mishaps

temporal == <<last, running, late>>
monitor  == <<alerted, check, blocked, alerts, repeats>>

Runs == Ids \X (1..MaxRuns)

AlertingInit ==
  /\ last = [i \in Ids |-> 0] /\ running = {} /\ late = {}
  /\ alerted = {} /\ check = "timer" /\ blocked = {}
  /\ alerts = [r \in Runs |-> 0] /\ repeats = 0
  /\ mishaps = 0

Mishap == mishaps < MaxMishaps /\ mishaps' = mishaps + 1

----------------------------------------------------------------------------
(* Temporal *)

\* Bound: one more of i, and with those of any other at most n.
Room(count, i, n) == count[i] < n /\ \A j \in DOMAIN count \ {i} : count[i] + count[j] < n

MoreRuns(i) == Room(last, i, MaxRuns)

RunStarts(i) ==
  /\ i \notin running /\ MoreRuns(i)
  /\ last' = [last EXCEPT ![i] = @ + 1]
  /\ running' = running \cup {i} /\ UNCHANGED late

RunEnds(i) ==
  i \in running /\ running' = running \ {i} /\ late' = late \ {i} /\ UNCHANGED last

TimePasses(i) ==
  /\ i \in running /\ late' = late \cup {i} /\ i \notin late
  /\ UNCHANGED <<last, running, monitor, mishaps>>

----------------------------------------------------------------------------
(* The monitor *)

\* The ids that no longer run are forgotten.
Purged == alerted \cap running

\* The listing, of which the pages are read as one, and the purge.
Check ==
  /\ check = "timer"
  /\ check' = "alerting"
  /\ blocked' = {<<i, last[i]>> : i \in late \ alerted}
  /\ alerted' = Purged
  /\ UNCHANGED <<temporal, alerts, repeats, mishaps>>

\* The listing fails: the check is over, nothing has changed.
CheckFails ==
  check = "timer" /\ Mishap /\ UNCHANGED <<temporal, monitor>>

\* Mutant of Remembered: an id is remembered though its webhook failed.
RememberedAnyway(i, ok) == alerted \cup {i}

\* Mutant of Remembered: no id is remembered.
RememberedNever(i, ok) == alerted

\* The id is remembered if the webhook answered well.
Remembered(i, ok) == IF ok THEN alerted \cup {i} ELSE alerted

\* One turn of the loop, be the run still running or not.  The webhook fails
\* before or after it was received.
Alert ==
  /\ check = "alerting"
  /\ \E r \in blocked, ok, received \in BOOLEAN :
       /\ ok => received
       /\ IF ok THEN UNCHANGED <<mishaps, repeats>>
          ELSE Mishap /\ repeats' = repeats + 1
       /\ alerts' = [alerts EXCEPT ![r] = IF received THEN @ + 1 ELSE @]
       /\ alerted' = Remembered(r[1], ok)
       /\ blocked' = blocked \ {r}
  /\ UNCHANGED <<temporal, check>>

\* Mutant of CheckEnds: the timer is armed again before the webhooks are sent.
CheckEndsEarly ==
  /\ check = "alerting"
  /\ check' = "timer"
  /\ UNCHANGED <<temporal, alerted, blocked, alerts, repeats, mishaps>>

CheckEnds ==
  /\ check = "alerting" /\ blocked = {}
  /\ check' = "timer"
  /\ UNCHANGED <<temporal, alerted, blocked, alerts, repeats, mishaps>>

\* The worker is restarted: the Set is lost.
WorkerRestarts ==
  /\ Mishap /\ repeats' = repeats + 1
  /\ alerted' = {} /\ blocked' = {} /\ check' = "timer"
  /\ UNCHANGED <<temporal, alerts>>

MonitorStep == Check \/ Alert \/ CheckEnds

----------------------------------------------------------------------------
(* Properties *)

\* Every variable of the monitor keeps its type; only a check has runs to
\* alert about.
AlertingTypeOK ==
  /\ last \in [Ids -> 0..MaxRuns] /\ late \subseteq running /\ running \subseteq Ids
  /\ alerted \subseteq Ids /\ check \in {"timer", "alerting"} /\ blocked \subseteq Runs
  /\ (check = "timer" => blocked = {})
  /\ alerts \in [Runs -> Nat] /\ repeats \in Nat /\ mishaps \in 0..MaxMishaps

\* A run is alerted about once, though checks follow one another and an id is
\* forgotten when a check does not see it run: again only after a webhook that
\* seemed to fail, or a restart.
AlertedOnce == \A r \in Runs : alerts[r] <= 1 + repeats

\* The run of id i is the n-th, is late, and no earlier run was alerted about.
Blocked(i, n) ==
  i \in late /\ last[i] = n /\ \A k \in 1..(n - 1) : alerts[<<i, k>>] = 0

\* A pipeline that stays blocked is alerted about, whatever fails for a while.
\* One that follows a run already alerted about may never be: if it starts
\* before the next check, its id is not forgotten.
BlockedIsAlerted ==
  \A i \in Ids, n \in 1..MaxRuns :
    Blocked(i, n) ~> (alerts[<<i, n>>] > 0 \/ ~Blocked(i, n))
=============================================================================
