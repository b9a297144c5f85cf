--------------------------- MODULE IssueLifecycle ---------------------------
(***************************************************************************)
(* What pipelineWorkflow promises about one GitLab issue, with no label,   *)
(* signal counter, timer or activity in sight: the phases are entered in   *)
(* one order and never left backwards, a pause keeps the phase, the CI     *)
(* phase ends only on a green scan received in it, a supervised pipeline   *)
(* merges only once approved, and an issue is closed only when GitLab has  *)
(* accepted to merge its merge request, at once or when it can.            *)
(* PipelineWorkflow implements this specification.                         *)
(***************************************************************************)

VARIABLES
  phase,        \* the phase the pipeline is in, "over" once it has ended
  paused,       \* is it waiting for a human to resume it
  supervised,   \* does this pipeline need a human approval before merging
  green,        \* is the last scan received since CI was (re)entered a pass
  approved,     \* has the human approved the merge
  accepted,     \* has GitLab accepted to merge the merge request
  closed        \* is the issue closed

vars == <<phase, paused, supervised, green, approved, accepted, closed>>

Init ==
  /\ phase = "dev"
  /\ supervised \in BOOLEAN
  /\ paused = FALSE /\ green = FALSE /\ approved = FALSE
  /\ accepted = FALSE /\ closed = FALSE

\* The order of the phases; review is followed by fix if it found something
\* blocking, and correction by approval if the pipeline is supervised.
Order ==
  {<<"dev", "review">>, <<"review", "fix">>, <<"review", "analysis">>,
   <<"fix", "analysis">>, <<"analysis", "ci">>, <<"ci", "correction">>,
   <<"correction", "approval">>, <<"correction", "merge">>, <<"approval", "merge">>}

Advance ==
  /\ ~paused
  /\ phase = "ci" => green
  /\ phase = "approval" => approved
  /\ <<phase, phase'>> \in Order
  /\ phase = "correction" => (phase' = "approval" <=> supervised)
  /\ green' = (green /\ phase' # "ci")
  /\ UNCHANGED <<paused, supervised, approved, accepted, closed>>

Pause ==
  /\ ~paused /\ phase # "over"
  /\ paused' = TRUE
  /\ UNCHANGED <<phase, supervised, green, approved, accepted, closed>>

\* A resumed CI phase starts over: what it had received no longer counts.
Resume ==
  /\ paused /\ phase # "over"
  /\ paused' = FALSE
  /\ green' = (green /\ phase # "ci")
  /\ UNCHANGED <<phase, supervised, approved, accepted, closed>>

Scan ==
  /\ phase # "over"
  /\ green' \in BOOLEAN
  /\ UNCHANGED <<phase, paused, supervised, approved, accepted, closed>>

Approve ==
  /\ phase # "over"
  /\ approved' = TRUE
  /\ UNCHANGED <<phase, paused, supervised, green, accepted, closed>>

\* An attempt abandoned by its caller may still ask for the merge, even after
\* the end; the reply to it may be lost while the pipeline pauses.
Merge ==
  /\ phase \in {"merge", "over"}
  /\ ~accepted /\ ~closed
  /\ accepted' = TRUE
  /\ paused' = paused \/ (phase = "merge" /\ paused' = TRUE)
  /\ UNCHANGED <<phase, supervised, green, approved, closed>>

Close ==
  /\ phase = "merge" /\ ~paused
  /\ accepted
  /\ phase' = "over" /\ closed' = TRUE
  /\ UNCHANGED <<paused, supervised, green, approved, accepted>>

\* The pipeline ends early: the issue stays open, unless only the reply to
\* its closing was lost.
GiveUp ==
  /\ phase # "over" /\ ~paused
  /\ phase' = "over"
  /\ closed' = closed \/ (phase = "merge" /\ accepted /\ closed' = TRUE)
  /\ UNCHANGED <<paused, supervised, green, approved, accepted>>

Next ==
  \/ Advance \/ Pause \/ Resume \/ Scan \/ Approve
  \/ Merge \/ Close \/ GiveUp

Spec == Init /\ [][Next]_vars
=============================================================================
