---------------------------- MODULE IntakeProofs ----------------------------
(***************************************************************************)
(* For any issues, workflow ids, runs, requests and mishaps: every         *)
(* variable keeps its type; runs are alerted about once and no id is       *)
(* remembered that was not; and, if the trigger can read GitLab, no        *)
(* pipeline starts on an issue in a pipeline, left by one or closed, but   *)
(* through the two windows StartsOnCleanIssue names.                       *)
(***************************************************************************)
EXTENDS Intake, TLAPS

\* What most proofs need of the types: the bounds are of no use to them.
MonitorTyped ==
  /\ last \in [Ids -> Nat] /\ running \subseteq Ids /\ late \subseteq running
  /\ alerted \subseteq Ids /\ check \in {"timer", "alerting"} /\ blocked \subseteq Ids \X Nat
  /\ (check = "timer" => blocked = {})
  /\ alerts \in [Runs -> Nat] /\ repeats \in Nat

\* Only a run that exists is alerted about; one alerted about as often as it
\* may be is remembered as long as it runs, and no check holds it.
AlertsOK ==
  \A i \in Ids, n \in 1..MaxRuns :
    /\ alerts[<<i, n>>] <= 1 + repeats
    /\ alerts[<<i, n>>] > 0 \/ <<i, n>> \in blocked => n <= last[i]
    /\ alerts[<<i, n>>] > repeats =>
         <<i, n>> \notin blocked /\ (i \in alerted \/ i \notin running \/ last[i] # n)

PipelinesTyped ==
  /\ asked \in [Issues -> Nat] /\ running \subseteq Ids
  /\ issueOf \in [Ids -> Issues \cup {NoIssue}]

\* An issue that was asked for once only, and that no person has touched since,
\* is still free.
RequestsOK ==
  \A x \in Issues :
    asked[x] > 0 /\ x \notin twice /\ x \notin touched =>
      /\ asked[x] = 1
      /\ x \notin labelled \cup closed
      /\ \A i \in running : issueOf[i] # x

----------------------------------------------------------------------------
(* Alerting *)

USE AlertingAssumption, IntakeAssumption

\* What a step of the trigger, of a person or of a pipeline does to runs.
LEMMA RunsStep ==
  ASSUME \/ \E x \in Issues : Read(x) \/ Start(x) \/ Cleaned(x) \/ Touched(x)
         \/ \E i \in Ids : ApplyLabel(i) \/ Finish(i) \/ GiveUp(i)
  PROVE  /\ UNCHANGED monitor
         /\ UNCHANGED temporal \/ \E i \in Ids : RunStarts(i) \/ RunEnds(i)
<1>1. CASE \E x \in Issues : Read(x) \/ Cleaned(x) \/ Touched(x)
  BY <1>1 DEF Read, Cleaned, Touched
<1>2. CASE \E x \in Issues : Start(x)
  BY <1>2 DEF Start
<1>3. CASE \E i \in Ids : ApplyLabel(i) \/ Finish(i) \/ GiveUp(i)
  BY <1>3 DEF ApplyLabel, Finish, GiveUp, Ends
<1> QED
  BY <1>1, <1>2, <1>3

LEMMA AlertingStep ==
  ASSUME MonitorTyped, AlertsOK, [Next]_vars
  PROVE  (MonitorTyped /\ AlertsOK)'
<1> USE DEF MonitorTyped, AlertsOK, Runs
<1>1. ASSUME NEW i \in Ids, RunStarts(i), UNCHANGED monitor
      PROVE  (MonitorTyped /\ AlertsOK)'
  BY <1>1 DEF RunStarts, monitor
<1>2. ASSUME NEW i \in Ids, RunEnds(i), UNCHANGED monitor
      PROVE  (MonitorTyped /\ AlertsOK)'
  BY <1>2 DEF RunEnds, monitor
<1>3. CASE UNCHANGED <<temporal, monitor>>
  BY <1>3 DEF temporal, monitor
<1>4. CASE \E i \in Ids : TimePasses(i)
  BY <1>4 DEF TimePasses, monitor
<1>5. CASE Check
  BY <1>5 DEF Check, Purged, temporal
<1>6. CASE Alert
  <2>1. PICK r \in blocked, ok \in BOOLEAN, received \in BOOLEAN :
             /\ repeats' = IF ok THEN repeats ELSE repeats + 1
             /\ ok => received
             /\ alerts' = [alerts EXCEPT ![r] = IF received THEN @ + 1 ELSE @]
             /\ alerted' = IF ok THEN alerted \cup {r[1]} ELSE alerted
             /\ blocked' = blocked \ {r}
    BY <1>6 DEF Alert, Remembered
  <2>2. UNCHANGED <<temporal, check>> /\ check = "alerting"
    BY <1>6 DEF Alert
  <2>3. PICK i \in Ids, n \in Nat : r = <<i, n>>
    OBVIOUS
  <2>4. MonitorTyped'
    <3>1. alerts' \in [Runs -> Nat] /\ repeats' \in Nat
      <4> DEFINE R == Runs
      <4>1. alerts \in [R -> Nat] /\ alerts' = [alerts EXCEPT ![r] = IF received THEN @ + 1 ELSE @]
        BY <2>1
      <4> HIDE DEF R
      <4>2. alerts' \in [R -> Nat]
        <5>1. CASE r \in R
          <6> DEFINE v == IF received THEN alerts[r] + 1 ELSE alerts[r]
          <6>1. v \in Nat
            BY <4>1, <5>1
          <6>2. alerts' = [alerts EXCEPT ![r] = v]
            BY <4>1
          <6> HIDE DEF v
          <6> QED
            BY <4>1, <6>1, <6>2
        <5>2. CASE r \notin R
          <6>1. alerts' = [q \in R |-> alerts[q]]
            BY <4>1, <5>2, Zenon
          <6> QED
            BY <4>1, <6>1
        <5> QED
          BY <5>1, <5>2
      <4> QED
        BY <2>1, <4>2 DEF R
    <3>2. r[1] \in Ids /\ alerted' \subseteq Ids /\ blocked' \subseteq Ids \X Nat
      BY <2>1, <2>3
    <3> QED
      BY <2>2, <3>1, <3>2 DEF temporal
  <2>5. ASSUME NEW j \in Ids, NEW k \in 1..MaxRuns
        PROVE  /\ alerts'[<<j, k>>] <= 1 + repeats'
               /\ alerts'[<<j, k>>] > 0 \/ <<j, k>> \in blocked' => k <= last[j]
               /\ alerts'[<<j, k>>] > repeats' =>
                    <<j, k>> \notin blocked' /\ (j \in alerted' \/ j \notin running \/ last[j] # k)
    <3>1. CASE j = i /\ k = n
      BY <2>1, <2>3, <3>1
    <3>2. CASE ~(j = i /\ k = n)
      <4>1. alerts'[<<j, k>>] = alerts[<<j, k>>]
        BY <2>1, <2>3, <3>2
      <4> QED
        BY <2>1, <2>3, <3>2, <4>1
    <3> QED
      BY <3>1, <3>2
  <2> QED
    BY <2>2, <2>4, <2>5 DEF temporal
<1>7. CASE CheckEnds \/ CheckFails
  BY <1>7 DEF CheckEnds, CheckFails, temporal, monitor
<1>8. CASE WorkerRestarts
  BY <1>8 DEF WorkerRestarts, temporal
<1> QED
  BY <1>1, <1>2, <1>3, <1>4, <1>5, <1>6, <1>7, <1>8, RunsStep DEF Next, MonitorStep, vars

----------------------------------------------------------------------------
(* Pipelines *)

\* Time and the monitor change nothing of the pipelines.
LEMMA MonitorOnly ==
  ASSUME \/ \E i \in Ids : TimePasses(i)
         \/ MonitorStep \/ CheckFails \/ WorkerRestarts
  PROVE  running' = running
BY DEF TimePasses, MonitorStep, Check, Alert, CheckEnds, CheckFails, WorkerRestarts, temporal

LEMMA PipelinesTypedStep ==
  ASSUME PipelinesTyped, [Next]_vars
  PROVE  PipelinesTyped'
<1> USE DEF PipelinesTyped, temporal, monitor, pipelines
<1>1. ASSUME NEW x \in Issues, Read(x) PROVE PipelinesTyped'
  <2>1. asked' = [asked EXCEPT ![x] = @ + 1] /\ UNCHANGED <<temporal, pipelines>>
    BY <1>1, Zenon DEF Read
  <2> QED
    BY <2>1
<1>2. ASSUME NEW x \in Issues, Start(x) PROVE PipelinesTyped'
  BY <1>2 DEF Start, RunStarts
<1>3. ASSUME NEW i \in Ids, ApplyLabel(i) PROVE PipelinesTyped'
  BY <1>3 DEF ApplyLabel
<1>4. ASSUME NEW i \in Ids, Finish(i) \/ GiveUp(i) PROVE PipelinesTyped'
  BY <1>4 DEF Finish, GiveUp, Ends, RunEnds
<1>5. ASSUME NEW x \in Issues, Cleaned(x) PROVE PipelinesTyped'
  BY <1>5 DEF Cleaned
<1>6. ASSUME NEW x \in Issues, Touched(x) PROVE PipelinesTyped'
  BY <1>6 DEF Touched
<1>7. CASE running' = running /\ UNCHANGED <<asked, pipelines>>
  BY <1>7
<1>8. CASE UNCHANGED vars
  BY <1>7, <1>8 DEF vars
<1> QED
  BY <1>1, <1>2, <1>3, <1>4, <1>5, <1>6, <1>7, <1>8, MonitorOnly DEF Next

\* A request that comes while the issue has none, and no run, finds it free
\* and keeps it so until its own start, the run of another request or a person.
LEMMA RequestsStep ==
  ASSUME Guarded, PipelinesTyped, RequestsOK, [Next]_vars
  PROVE  RequestsOK'
<1> USE DEF PipelinesTyped, RequestsOK, temporal, monitor, pipelines, windows
<1>1. ASSUME NEW x \in Issues, Read(x) PROVE RequestsOK'
  <2>1. /\ asked' = [asked EXCEPT ![x] = @ + 1] /\ UNCHANGED <<temporal, pipelines, touched>>
        /\ twice' = (IF Taken(x) THEN twice \cup {x} ELSE twice)
        /\ x \notin labelled /\ x \notin closed
    BY <1>1, Zenon DEF Read, Free
  <2>2. CASE Taken(x)
    BY <2>1, <2>2
  <2>3. CASE ~Taken(x)
    BY <2>1, <2>3 DEF Taken
  <2> QED
    BY <2>2, <2>3
<1>2. ASSUME NEW x \in Issues, Start(x) PROVE RequestsOK'
  <2>1. /\ asked[x] > 0 /\ asked' = [asked EXCEPT ![x] = @ - 1]
        /\ asked[x] = 1 \/ UNCHANGED windows
        /\ twice \ {x} \subseteq twice' /\ touched \ {x} \subseteq touched'
        /\ UNCHANGED <<labelled, closed>>
        /\ \/ /\ x[2] \notin running /\ running' = running \cup {x[2]}
              /\ issueOf' = [issueOf EXCEPT ![x[2]] = x]
           \/ UNCHANGED <<running, issueOf>>
    BY <1>2 DEF Start, RunStarts, windows
  <2>2. ASSUME NEW y \in Issues, asked'[y] > 0, y \notin twice', y \notin touched'
        PROVE  /\ y # x /\ asked[y] > 0 /\ asked'[y] = asked[y]
               /\ y \notin twice /\ y \notin touched
    BY <2>1, <2>2 DEF windows
  <2> QED
    BY <2>1, <2>2
<1>3. ASSUME NEW i \in Ids, ApplyLabel(i) PROVE RequestsOK'
  BY <1>3 DEF ApplyLabel, At
<1>4. ASSUME NEW i \in Ids, Finish(i) PROVE RequestsOK'
  BY <1>4 DEF Finish, Ends, RunEnds
<1>5. ASSUME NEW i \in Ids, GiveUp(i) PROVE RequestsOK'
  BY <1>5 DEF GiveUp, Ends, RunEnds
<1>6. ASSUME NEW x \in Issues, Cleaned(x) PROVE RequestsOK'
  BY <1>6 DEF Cleaned
<1>7. ASSUME NEW x \in Issues, Touched(x) PROVE RequestsOK'
  BY <1>7 DEF Touched
<1>8. CASE running' = running /\ UNCHANGED <<asked, pipelines, windows>>
  BY <1>8
<1>9. CASE UNCHANGED vars
  BY <1>8, <1>9 DEF vars
<1> QED
  BY <1>1, <1>2, <1>3, <1>4, <1>5, <1>6, <1>7, <1>8, <1>9, MonitorOnly DEF Next

----------------------------------------------------------------------------
(* Types and bounds *)

\* A run that is running has a number, and an issue.
RunsOK == \A i \in running : last[i] > 0 /\ issueOf[i] \in Issues

\* One more, where there is room for it, is within the bound.
LEMMA RoomBounds ==
  ASSUME NEW n \in Nat, NEW S, NEW count \in [S -> 0..n], NEW i \in S, Room(count, i, n)
  PROVE  [count EXCEPT ![i] = @ + 1] \in [S -> 0..n]
BY DEF Room

\* The trigger, persons and pipelines keep the types.
LEMMA IntakeTypesStep ==
  ASSUME TypeOK, RunsOK,
         \/ \E x \in Issues : Read(x) \/ Start(x) \/ Cleaned(x) \/ Touched(x)
         \/ \E i \in Ids : ApplyLabel(i) \/ Finish(i) \/ GiveUp(i)
  PROVE  TypeOK' /\ RunsOK'
<1> USE DEF TypeOK, AlertingTypeOK, RunsOK, temporal, monitor, pipelines, windows
<1>1. ASSUME NEW x \in Issues, Read(x) PROVE TypeOK' /\ RunsOK'
  <2>1. /\ asked' = [asked EXCEPT ![x] = @ + 1] /\ Room(asked, x, MaxAsked)
        /\ twice' = (IF Taken(x) THEN twice \cup {x} ELSE twice)
        /\ UNCHANGED <<temporal, monitor, mishaps, pipelines, touched>>
    BY <1>1, Zenon DEF Read
  <2>2. asked' \in [Issues -> 0..MaxAsked]
    BY <2>1, RoomBounds
  <2>3. twice' \subseteq Issues
    BY <2>1
  <2> QED
    BY <2>1, <2>2, <2>3
<1>2. ASSUME NEW x \in Issues, Start(x) PROVE TypeOK' /\ RunsOK'
  <2>1. /\ asked[x] > 0 /\ asked' = [asked EXCEPT ![x] = @ - 1]
        /\ twice' \subseteq twice /\ touched' \subseteq touched
        /\ UNCHANGED <<monitor, place, labelled, closed>>
    BY <1>2 DEF Start
  <2>2. asked' \in [Issues -> 0..MaxAsked] /\ x[2] \in Ids
    BY <2>1
  <2>3. CASE RunStarts(x[2]) /\ issueOf' = [issueOf EXCEPT ![x[2]] = x] /\ UNCHANGED mishaps
    <3>1. last' \in [Ids -> 0..MaxRuns]
      BY <2>2, <2>3, RoomBounds DEF RunStarts, MoreRuns
    <3>2. \A i \in running' : last'[i] > 0 /\ issueOf'[i] \in Issues
      BY <2>2, <2>3 DEF RunStarts
    <3> QED
      BY <2>1, <2>2, <2>3, <3>1, <3>2 DEF RunStarts
  <2>4. CASE UNCHANGED <<temporal, issueOf>> /\ (UNCHANGED mishaps \/ Mishap)
    BY <2>1, <2>2, <2>4 DEF Mishap
  <2> QED
    BY <1>2, <2>3, <2>4 DEF Start
<1>3. ASSUME NEW i \in Ids, ApplyLabel(i) PROVE TypeOK' /\ RunsOK'
  BY <1>3 DEF ApplyLabel, At
<1>4. ASSUME NEW i \in Ids, Finish(i) \/ GiveUp(i) PROVE TypeOK' /\ RunsOK'
  <2>1. Ends(i) /\ i \in running /\ UNCHANGED <<monitor, mishaps, asked, windows>>
    BY <1>4 DEF Finish, GiveUp, Ends, RunEnds
  <2>2. labelled' \subseteq Issues /\ closed' \subseteq Issues
    BY <1>4, <2>1 DEF Finish, GiveUp
  <2> QED
    BY <2>1, <2>2 DEF Ends, RunEnds
<1>5. ASSUME NEW x \in Issues, Cleaned(x) \/ Touched(x) PROVE TypeOK' /\ RunsOK'
  BY <1>5 DEF Cleaned, Touched
<1> QED
  BY <1>1, <1>2, <1>3, <1>4, <1>5

\* Every step keeps the types.
LEMMA TypesStep ==
  ASSUME TypeOK, RunsOK, [Next]_vars
  PROVE  TypeOK' /\ RunsOK'
<1> USE DEF TypeOK, AlertingTypeOK, RunsOK, temporal, monitor, pipelines, windows
<1>1. ASSUME UNCHANGED <<last, running, asked, pipelines, windows>>, late' \subseteq running,
             alerted' \subseteq Ids, check' \in {"timer", "alerting"}, blocked' \subseteq Runs,
             check' = "timer" => blocked' = {}, alerts' \in [Runs -> Nat], repeats' \in Nat,
             mishaps' \in 0..MaxMishaps
      PROVE  TypeOK' /\ RunsOK'
  BY <1>1
<1>2. ASSUME NEW i \in Ids, TimePasses(i), UNCHANGED <<asked, pipelines, windows>>
      PROVE  TypeOK' /\ RunsOK'
  BY <1>2 DEF TimePasses
<1>3. CASE Check /\ UNCHANGED <<asked, pipelines, windows>>
  <2>1. \A i \in late : <<i, last[i]>> \in Runs
    BY DEF Runs
  <2>2. blocked' \subseteq Runs
    BY <1>3, <2>1 DEF Check
  <2> QED
    BY <1>1, <1>3, <2>2 DEF Check, Purged
<1>4. CASE Alert /\ UNCHANGED <<asked, pipelines, windows>>
  <2>1. PICK r \in blocked, ok \in BOOLEAN, received \in BOOLEAN :
             /\ IF ok THEN UNCHANGED <<mishaps, repeats>>
                ELSE Mishap /\ repeats' = repeats + 1
             /\ alerts' = [alerts EXCEPT ![r] = IF received THEN @ + 1 ELSE @]
             /\ alerted' = IF ok THEN alerted \cup {r[1]} ELSE alerted
             /\ blocked' = blocked \ {r}
    BY <1>4 DEF Alert, Remembered
  <2>2. r \in Runs /\ r[1] \in Ids
    BY DEF Runs
  <2>3. mishaps' \in 0..MaxMishaps /\ repeats' \in Nat
    BY <2>1 DEF Mishap
  <2>4. alerts' \in [Runs -> Nat]
    BY <2>1, <2>2
  <2>5. UNCHANGED <<temporal, check>> /\ check = "alerting"
    BY <1>4 DEF Alert
  <2> QED
    BY <1>1, <1>4, <2>1, <2>2, <2>3, <2>4, <2>5
<1>5. CASE (CheckEnds \/ CheckFails \/ WorkerRestarts) /\ UNCHANGED <<asked, pipelines, windows>>
  BY <1>1, <1>5 DEF CheckEnds, CheckFails, WorkerRestarts, Mishap
<1>6. CASE UNCHANGED vars
  BY <1>6 DEF vars
<1> QED
  BY <1>2, <1>3, <1>4, <1>5, <1>6, IntakeTypesStep DEF Next, MonitorStep

\* An id of the Set has had a run whose webhook was received.
OnlyAlertedIsRemembered ==
  \A i \in alerted : \E k \in 1..last[i] : alerts[<<i, k>>] > 0

\* An id is remembered for the run just alerted about, and forgotten at will.
LEMMA RememberedStep ==
  ASSUME TypeOK, RunsOK, AlertsOK, OnlyAlertedIsRemembered, [Next]_vars
  PROVE  OnlyAlertedIsRemembered'
<1> USE DEF TypeOK, AlertingTypeOK, OnlyAlertedIsRemembered
<1>1. ASSUME alerts' = alerts, alerted' \subseteq alerted, \A i \in alerted : last'[i] >= last[i],
             last' \in [Ids -> 0..MaxRuns]
      PROVE  OnlyAlertedIsRemembered'
  <2>1. ASSUME NEW i \in alerted' PROVE \E k \in 1..last'[i] : alerts'[<<i, k>>] > 0
    <3>1. PICK k \in 1..last[i] : alerts[<<i, k>>] > 0
      BY <1>1, <2>1
    <3>2. k \in 1..last'[i]
      BY <1>1, <2>1
    <3> QED
      BY <1>1, <3>1, <3>2
  <2> QED
    BY <2>1
<1>2. last' \in [Ids -> 0..MaxRuns]
  BY TypesStep
<1>3. ASSUME NEW i \in Ids, RunStarts(i) \/ RunEnds(i), UNCHANGED monitor
      PROVE  OnlyAlertedIsRemembered'
  <2>1. \A j \in Ids : last'[j] >= last[j]
    BY <1>3 DEF RunStarts, RunEnds
  <2>2. alerts' = alerts /\ alerted' = alerted
    BY <1>3 DEF monitor
  <2> QED
    BY <1>1, <1>2, <2>1, <2>2
<1>4. CASE UNCHANGED <<temporal, monitor>>
  BY <1>1, <1>2, <1>4 DEF temporal, monitor
<1>5. CASE \/ \E i \in Ids : TimePasses(i)
           \/ Check \/ CheckEnds \/ CheckFails \/ WorkerRestarts
  <2>1. alerts' = alerts /\ last' = last
    BY <1>5 DEF TimePasses, Check, CheckEnds, CheckFails, WorkerRestarts, temporal, monitor
  <2>2. alerted' \subseteq alerted
    BY <1>5 DEF TimePasses, Check, Purged, CheckEnds, CheckFails, WorkerRestarts, monitor
  <2>3. \A i \in alerted : last'[i] >= last[i]
    BY <2>1
  <2> QED
    BY <1>1, <1>2, <2>1, <2>2, <2>3
<1>6. CASE Alert
  <2>1. PICK r \in blocked, ok \in BOOLEAN, received \in BOOLEAN :
             /\ ok => received
             /\ alerts' = [alerts EXCEPT ![r] = IF received THEN @ + 1 ELSE @]
             /\ alerted' = IF ok THEN alerted \cup {r[1]} ELSE alerted
    BY <1>6 DEF Alert, Remembered
  <2>2. last' = last
    BY <1>6 DEF Alert, temporal
  <2>3. PICK i \in Ids, n \in 1..MaxRuns : r = <<i, n>> /\ n <= last[i]
    BY DEF Runs, AlertsOK
  <2>4. \A q \in Runs : alerts[q] > 0 => alerts'[q] > 0
    BY <2>1
  <2>5. ok => alerts'[<<i, n>>] > 0
    BY <2>1, <2>3
  <2>6. ASSUME NEW j \in alerted PROVE \E k \in 1..last[j] : alerts'[<<j, k>>] > 0
    <3>1. PICK k \in 1..last[j] : alerts[<<j, k>>] > 0
      BY <2>6
    <3>2. <<j, k>> \in Runs
      BY <3>1 DEF Runs
    <3>3. alerts'[<<j, k>>] > 0
      BY <2>4, <3>1, <3>2
    <3> QED
      BY <3>3
  <2>7. ASSUME ok PROVE \E k \in 1..last[i] : alerts'[<<i, k>>] > 0
    <3>1. n \in 1..last[i]
      BY <2>3
    <3> QED
      BY <2>5, <2>7, <3>1
  <2>8. alerted' \subseteq alerted \/ (ok /\ alerted' \subseteq alerted \cup {i})
    BY <2>1, <2>3
  <2> QED
    BY <2>2, <2>6, <2>7, <2>8
<1> QED
  BY <1>3, <1>4, <1>5, <1>6, RunsStep DEF Next, MonitorStep, vars

----------------------------------------------------------------------------

LEMMA InitTyped == Init => MonitorTyped /\ AlertsOK /\ PipelinesTyped
BY DEF Init, AlertingInit, MonitorTyped, AlertsOK, PipelinesTyped, Runs

\* Every variable keeps its type: the trigger, pipelines and the monitor only
\* ever deal with issues, ids and runs there are.
THEOREM TypesAreKept == Spec => []TypeOK
<1>1. Init => TypeOK /\ RunsOK
  BY DEF Init, AlertingInit, TypeOK, AlertingTypeOK, RunsOK, Runs
<1>2. TypeOK /\ RunsOK /\ [Next]_vars => (TypeOK /\ RunsOK)'
  BY TypesStep
<1> QED
  BY <1>1, <1>2, PTL DEF Spec

\* The set of ids, though purged at each check and keyed by id, lets the monitor
\* send one webhook for a run, and another only after one that seemed to fail
\* or a restart.
THEOREM RunsAreAlertedOnce == Spec => []AlertedOnce
<1>1. MonitorTyped /\ AlertsOK /\ [Next]_vars => (MonitorTyped /\ AlertsOK)'
  BY AlertingStep
<1>2. AlertsOK => AlertedOnce
  BY DEF AlertsOK, AlertedOnce, Runs
<1> QED
  BY <1>1, <1>2, InitTyped, PTL DEF Spec

\* An id is in the Set only for a webhook that was received about one of its
\* runs: an alert that failed, or a run never alerted about, mutes no other.
THEOREM NoneMutedUnheard == Spec => []OnlyAlertedIsRemembered
<1> DEFINE Inv == /\ TypeOK /\ RunsOK /\ MonitorTyped /\ AlertsOK
                  /\ OnlyAlertedIsRemembered
<1>1. Init => Inv
  BY InitTyped DEF Init, AlertingInit, TypeOK, AlertingTypeOK, RunsOK, Runs,
                   OnlyAlertedIsRemembered
<1>2. Inv /\ [Next]_vars => Inv'
  BY TypesStep, AlertingStep, RememberedStep
<1> QED
  BY <1>1, <1>2, PTL DEF Spec

\* If the trigger can read GitLab, a pipeline that starts finds its issue open
\* and without a workflow label, unless another request had it meanwhile, or a
\* person labelled or closed it after the read.
THEOREM StartsAreClean ==
  ASSUME Guarded PROVE Spec => StartsOnCleanIssue
<1> DEFINE Inv == PipelinesTyped /\ RequestsOK
           Clean == \A i \in running' \ running :
                      LET x == issueOf'[i]
                      IN  x \in twice \/ x \in touched \/ x \notin labelled \cup closed
<1>1. Init => RequestsOK
  BY DEF Init, RequestsOK
<1>2. Inv /\ [Next]_vars => Inv'
  BY PipelinesTypedStep, RequestsStep
<1>3. Inv /\ [Next]_vars => Clean
  <2> SUFFICES ASSUME Inv, [Next]_vars, running' # running PROVE Clean
    OBVIOUS
  <2>1. ASSUME NEW x \in Issues, Start(x) PROVE Clean
    <3>1. x \in twice \/ x \in touched \/ x \notin labelled \cup closed
      BY <2>1 DEF Start, RequestsOK
    <3>2. \/ running' = running \cup {x[2]} /\ issueOf' = [issueOf EXCEPT ![x[2]] = x]
          \/ running' = running
      BY <2>1 DEF Start, RunStarts, temporal
    <3>3. x[2] \in Ids
      OBVIOUS
    <3> QED
      BY <3>1, <3>2, <3>3 DEF PipelinesTyped
  <2>2. ASSUME NEW i \in Ids, Finish(i) \/ GiveUp(i) PROVE Clean
    BY <2>2 DEF Finish, GiveUp, Ends, RunEnds
  <2>3. ~ \/ \E x \in Issues : Cleaned(x) \/ Touched(x)
          \/ \E i \in Ids : ApplyLabel(i)
          \/ UNCHANGED vars
    BY DEF Cleaned, Touched, ApplyLabel, vars, temporal
  <2>4. ASSUME NEW x \in Issues, Read(x) PROVE FALSE
    <3>1. UNCHANGED temporal
      BY <2>4, Zenon DEF Read
    <3> QED
      BY <3>1 DEF temporal
  <2> QED
    BY <2>1, <2>2, <2>3, <2>4, MonitorOnly DEF Next
<1> QED
  BY <1>1, <1>2, <1>3, InitTyped, PTL DEF Spec, StartsOnCleanIssue
=============================================================================
