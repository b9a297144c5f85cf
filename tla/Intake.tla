------------------------------- MODULE Intake -------------------------------
(***************************************************************************)
(* How issues enter the pipeline: the trigger of mcp-temporal, persons who *)
(* edit issues meanwhile and, from Alerting, the monitor of blocked        *)
(* pipelines.  A workflow id is made of an issue's number alone, without   *)
(* its project.  The pipeline is reduced to what the trigger sees of it:   *)
(* its run, and the label and state of its issue (PipelineWorkflow has the *)
(* rest).                                                                  *)
(***************************************************************************)
EXTENDS Alerting, Sequences

CONSTANTS
  Issues,    \* issues, each its project and its number
  Edited,    \* bound: the issues that persons edit
  MaxAsked,  \* bound: requests at once to start pipelines, of any two issues
  Guarded    \* are GITLAB_API_URL and GITLAB_API_TOKEN set

ASSUME IntakeAssumption ==
  /\ Guarded \in BOOLEAN /\ MaxAsked \in Nat /\ Edited \subseteq Issues
  /\ \A x \in Issues : Len(x) = 2 /\ x[2] \in Ids

NoIssue == <<>>

VARIABLES
  asked,     \* how many requests have found each issue free, not yet started
  issueOf,   \* the issue of the run of each id, NoIssue if none runs
  place,     \* where the pipeline is: "label" until its first label, then "work"
  labelled,  \* issues with a workflow:: label
  closed,    \* issues closed
  twice,     \* issues asked for while a request, or a run, already had them
  touched    \* issues a person labelled or closed between a request's read and
             \* its start

pipelines == <<issueOf, place, labelled, closed>>
windows == <<twice, touched>>
vars == <<temporal, monitor, mishaps, asked, pipelines, windows>>

Init ==
  /\ AlertingInit
  /\ asked = [x \in Issues |-> 0]
  /\ issueOf = [i \in Ids |-> NoIssue] /\ place = [i \in Ids |-> "label"]
  /\ labelled = {} /\ closed = {} /\ twice = {} /\ touched = {}

----------------------------------------------------------------------------
(* Trigger *)

\* Mutant of Free: only closed issues are refused.
FreeIfOpen(x) == ~Guarded \/ x \notin closed

\* The issue has no workflow:: label and is open.
Free(x) == Guarded => x \notin labelled /\ x \notin closed

\* The issue of a request not answered yet, or of a run not labelled yet.
Taken(x) == asked[x] > 0 \/ \E i \in running : issueOf[i] = x

\* A request reads the issue; one that is refused, or cannot read it, changes
\* nothing.
Read(x) ==
  /\ Room(asked, x, MaxAsked) /\ Free(x)
  /\ asked' = [asked EXCEPT ![x] = @ + 1]
  /\ twice' = IF Taken(x) THEN twice \cup {x} ELSE twice
  /\ UNCHANGED <<temporal, monitor, mishaps, pipelines, touched>>

\* pipeline-issue-<number> starts, refused while a run of the id is running (AlreadyStarted)
\* or by a Temporal out of reach.
Start(x) ==
  /\ asked[x] > 0
  /\ asked' = [asked EXCEPT ![x] = @ - 1]
  /\ IF asked[x] = 1 THEN twice' = twice \ {x} /\ touched' = touched \ {x}
                      ELSE UNCHANGED windows
  /\ LET i == x[2]
     IN  \/ /\ RunStarts(i)
            /\ issueOf' = [issueOf EXCEPT ![i] = x]
            /\ UNCHANGED mishaps
         \/ /\ i \in running \/ ~MoreRuns(i)
            /\ UNCHANGED <<temporal, mishaps, issueOf>>
         \/ Mishap /\ UNCHANGED <<temporal, issueOf>>
  /\ UNCHANGED <<monitor, place, labelled, closed>>

----------------------------------------------------------------------------
(* Pipelines, as seen from outside *)

Ends(i) ==
  /\ RunEnds(i)
  /\ issueOf' = [issueOf EXCEPT ![i] = NoIssue]
  /\ place' = [place EXCEPT ![i] = "label"]

At(i, p) == i \in running /\ place[i] = p

ApplyLabel(i) ==
  /\ At(i, "label")
  /\ labelled' = labelled \cup {issueOf[i]}
  /\ place' = [place EXCEPT ![i] = "work"]
  /\ UNCHANGED <<temporal, monitor, mishaps, asked, issueOf, closed, windows>>

\* closeIssue takes the workflow:: labels off.
Finish(i) ==
  /\ At(i, "work")
  /\ Ends(i)
  /\ labelled' = labelled \ {issueOf[i]} /\ closed' = closed \cup {issueOf[i]}
  /\ UNCHANGED <<monitor, mishaps, asked, windows>>

\* A label call fails, blocking issues remain, or an operator terminates the
\* run: the issue keeps the label it has.
GiveUp(i) ==
  /\ Ends(i)
  /\ UNCHANGED <<monitor, mishaps, asked, labelled, closed, windows>>

----------------------------------------------------------------------------
(* Persons *)

\* A person takes the label off an issue, or reopens it, with or without a
\* pipeline.
Cleaned(x) ==
  /\ \/ x \in labelled /\ labelled' = labelled \ {x} /\ UNCHANGED closed
     \/ x \in closed /\ closed' = closed \ {x} /\ UNCHANGED labelled
  /\ UNCHANGED <<temporal, monitor, mishaps, asked, issueOf, place, windows>>

\* A person puts a label on an issue, or closes it.
Touched(x) ==
  /\ \/ x \notin labelled /\ labelled' = labelled \cup {x} /\ UNCHANGED closed
     \/ x \notin closed /\ closed' = closed \cup {x} /\ UNCHANGED labelled
  /\ touched' = IF asked[x] > 0 THEN touched \cup {x} ELSE touched
  /\ UNCHANGED <<temporal, monitor, mishaps, asked, issueOf, place, twice>>

----------------------------------------------------------------------------

Next ==
  \/ \E x \in Issues : Read(x) \/ Start(x)
  \/ \E x \in Edited : Cleaned(x) \/ Touched(x)
  \/ \E i \in Ids : ApplyLabel(i) \/ Finish(i) \/ GiveUp(i)
  \/ /\ (\E i \in Ids : TimePasses(i)) \/ MonitorStep \/ CheckFails \/ WorkerRestarts
     /\ UNCHANGED <<asked, pipelines, windows>>

Spec == Init /\ [][Next]_vars

\* The monitor's timer is armed again after each check, failed or not.
FairSpec == Spec /\ WF_vars(MonitorStep /\ UNCHANGED <<asked, pipelines, windows>>)

----------------------------------------------------------------------------
(* Properties *)

\* Every variable keeps its type.
TypeOK ==
  /\ AlertingTypeOK
  /\ asked \in [Issues -> 0..MaxAsked]
  /\ issueOf \in [Ids -> Issues \cup {NoIssue}]
  /\ place \in [Ids -> {"label", "work"}]
  /\ labelled \subseteq Issues /\ closed \subseteq Issues
  /\ twice \subseteq Issues /\ touched \subseteq Issues

\* A pipeline starts on an issue that is open and in no pipeline, nor was left
\* half way by one, but for two windows that the trigger leaves between its read
\* of the issue and the start: another request reads the issue in it, or before
\* a run has labelled it, and starts a second pipeline when the first has ended;
\* or a person labels or closes the issue in it.
StartsOnCleanIssue ==
  [][\A i \in running' \ running :
       LET x == issueOf'[i]
       IN  x \in twice \/ x \in touched \/ x \notin labelled \cup closed]_vars
=============================================================================
