------------------------------ MODULE DevStage ------------------------------
(***************************************************************************)
(* What the dev stage promises the workflow that waits for it, with no     *)
(* directory, commit or attempt in sight: it makes at most MaxTries        *)
(* attempts before it asks a person, a merge request is opened only for a  *)
(* branch GitLab has, neither is ever taken back, and the stage returns    *)
(* only once the merge request is open.  PipelineWorkflow takes this for   *)
(* granted when the stage returns; DevAgent implements it.                 *)
(***************************************************************************)
EXTENDS Naturals

CONSTANT MaxTries   \* attempts before the stage is suspended

VARIABLES
  status,   \* "running", "suspended" until a person resumes, or "returned"
  tries,    \* attempts since the stage was entered or resumed
  work      \* what GitLab has of it: "none", "branch" or "merge_request"

vars == <<status, tries, work>>

Init == status = "running" /\ tries = 0 /\ work = "none"

Attempt ==
  /\ status = "running" /\ tries < MaxTries
  /\ tries' = tries + 1
  /\ UNCHANGED <<status, work>>

\* An attempt given up may still do either, while a person is waited for.
Publish ==
  /\ status # "returned" /\ work = "none"
  /\ work' = "branch"
  /\ UNCHANGED <<status, tries>>

Open ==
  /\ status # "returned" /\ work = "branch"
  /\ work' = "merge_request"
  /\ UNCHANGED <<status, tries>>

Suspend ==
  /\ status = "running" /\ tries > 0
  /\ status' = "suspended"
  /\ UNCHANGED <<tries, work>>

Resume ==
  /\ status = "suspended"
  /\ status' = "running" /\ tries' = 0
  /\ UNCHANGED work

Return ==
  /\ status = "running" /\ tries > 0 /\ work = "merge_request"
  /\ status' = "returned"
  /\ UNCHANGED <<tries, work>>

Next == Attempt \/ Publish \/ Open \/ Suspend \/ Resume \/ Return

Spec == Init /\ [][Next]_vars
=============================================================================
