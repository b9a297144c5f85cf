-------------------------- MODULE PipelineWorkflow --------------------------
(***************************************************************************)
(* The Temporal workflow of workers/pipeline/src/workflow.ts for one       *)
(* issue, with the GitLab issue it labels, the merge request its agents    *)
(* produce and the signals it receives.                                    *)
(*                                                                         *)
(* Temporal runs the workflow's code without interruption from one await   *)
(* to the next, so an action is what happens when one await ends: the      *)
(* activity's outcome, its effect on GitLab, and the code up to the next   *)
(* await.  Signals are delivered between two such steps.  The workflow     *)
(* itself survives restarts (Temporal replays it); an activity that fails  *)
(* has used up the attempts its retry policy allows.                       *)
(***************************************************************************)
EXTENDS Naturals

CONSTANTS
  Configs,       \* environment settings tried: [hitl, notify]
  MaxFailures,   \* bound: activity calls that fail
  MaxScans,      \* bound: CI results nobody asked for
  MaxStrays,     \* bound: resume signals sent for no suspension
  MaxResumes     \* bound: resume signals in all

ASSUME ConfigsAssumption == Configs \subseteq [hitl: BOOLEAN, notify: BOOLEAN]
ASSUME BoundsAssumption ==
  {MaxFailures, MaxScans, MaxStrays, MaxResumes} \subseteq Nat

VARIABLES
  config,                         \* the environment of this pipeline
  step, await, stage,             \* where it is; the PipelineStage attribute
  currentLabel, suspendedFrom, resumeCount, expectedResume,
  scan, scanVersion, expectedVersion,
  reviewFix,                      \* last review-fix-completed signal
  approvalSent, approved,         \* approve-merge: sent; seen by its handler
  mr, mergeResult, vmSignal, metric,
  mergeZombie,     \* is an abandoned merge attempt still running
  labels, issue,   \* the GitLab issue: its workflow labels, its state
  failures,        \* calls that have failed
  answered,        \* has a resume been sent since the suspension began
  asked,           \* has CI been asked for a new run
  scanSince        \* the last scan since the CI stage was (re)entered

place    == <<step, await, stage>>
susp     == <<currentLabel, suspendedFrom, expectedResume>>
scans    == <<scan, scanVersion, scanSince>>
approval == <<approvalSent, approved>>
merging  == <<mr, mergeResult, vmSignal, metric, mergeZombie>>
gitlab   == <<labels, issue>>
env      == <<failures, answered, asked>>

vars == <<config, place, susp, resumeCount, scans, expectedVersion, reviewFix,
          approval, merging, gitlab, env>>

----------------------------------------------------------------------------
(* Names *)

WORKFLOW_LABELS == {"dev", "review", "fix", "sonarqube", "awaiting-ci",
                    "awaiting-approval", "merge", "suspended"}
PIPELINE_STAGE  == WORKFLOW_LABELS \cup {"done"}
NoLabel == "no-label"
None    == "none"

(* A step of the main line is an applyLabel call, an agent, or a wait.     *)
(* AddedLabel is the label each applyLabel step adds, which is also the    *)
(* PipelineStage set just before it; RemovedLabel is the one it removes.   *)
AddedLabel ==
  [label_dev |-> "dev", label_review |-> "review", label_fix |-> "fix",
   label_analysis |-> "sonarqube", label_analysis_fixed |-> "sonarqube",
   label_ci |-> "awaiting-ci", label_correction |-> "sonarqube",
   label_approval |-> "awaiting-approval", label_merge |-> "merge"]

NamedRemoval ==
  [label_dev |-> NoLabel, label_review |-> "dev", label_fix |-> "review",
   label_analysis |-> "review", label_analysis_fixed |-> "fix",
   label_ci |-> "sonarqube", label_correction |-> "awaiting-ci",
   label_approval |-> "sonarqube"]

\* Mutant of RemovedLabel: the merge stage assumes an approval came before.
RemovedLabelSupervised(s) ==
  IF s = "label_merge" THEN "awaiting-approval" ELSE NamedRemoval[s]

RemovedLabel(s) == IF s = "label_merge" THEN currentLabel ELSE NamedRemoval[s]

\* The places that suspend, with the stage restored when they resume.
StageValue ==
  [dev |-> "dev", review |-> "review", fix |-> "fix", fix_partial |-> "fix",
   analysis |-> "sonarqube", ci |-> "awaiting-ci", correction |-> "sonarqube",
   merge |-> "merge"]

LabelSteps == DOMAIN AddedLabel
AgentSteps == DOMAIN StageValue \ {"fix_partial", "ci"}
Ended      == {"completed", "failed"}
Steps      == LabelSteps \cup DOMAIN StageValue
                \cup {"approval", "metric", "close"} \cup Ended

\* What the workflow awaits in its step: the step's own call, a condition
\* with a timer, the comment posted when the timer fires, the condition
\* without a timer, and the four awaits of a suspension.
Awaits == {"call", "timer", "comment", "signal",
           "notify_label", "notify_comment", "resume", "restore_label"}

Running == step \notin Ended

Init ==
  /\ config \in Configs
  /\ step = "label_dev" /\ await = "call" /\ stage = "dev"
  /\ currentLabel = NoLabel /\ suspendedFrom = NoLabel
  /\ resumeCount = 0 /\ expectedResume = 0
  /\ scan = None /\ scanVersion = 0 /\ expectedVersion = 0
  /\ reviewFix = None /\ approvalSent = FALSE /\ approved = FALSE
  /\ mr = None /\ mergeResult = None /\ vmSignal = None /\ metric = None
  /\ mergeZombie = FALSE
  /\ labels = {} /\ issue = "opened"
  /\ failures = 0 /\ answered = FALSE /\ asked = FALSE /\ scanSince = None

----------------------------------------------------------------------------
(* Signals and the world outside *)

SendResume ==
  /\ resumeCount' = resumeCount + 1
  /\ answered' = (answered \/ stage = "suspended")
  /\ UNCHANGED <<config, place, susp, scans, expectedVersion, reviewFix, approval,
                 merging, gitlab, failures, asked>>

AnswerSuspension ==
  /\ Running
  /\ stage = "suspended" /\ ~answered /\ resumeCount < MaxResumes
  /\ SendResume

StrayResume ==
  /\ Running
  /\ resumeCount < MaxStrays
  /\ SendResume

ReceiveScan(status) ==
  /\ scan' = status /\ scanVersion' = scanVersion + 1 /\ scanSince' = status
  /\ UNCHANGED <<config, place, susp, resumeCount, expectedVersion, reviewFix,
                 approval, merging, gitlab, failures, answered>>

\* The webhook reports, at any moment, a CI pipeline of any branch named after
\* the issue's number: the pipeline's, one a person pushed, one of a project
\* that has an issue of the same number.
CiReport ==
  /\ Running
  /\ scanVersion < MaxScans
  /\ \E status \in {"passed", "failed"} : ReceiveScan(status)
  /\ UNCHANGED asked

\* Somebody follows the timeout comment: CI runs again, and passes.
CiRelaunch ==
  /\ Running
  /\ asked
  /\ ReceiveScan("passed")
  /\ asked' = FALSE

\* approve-merge has a handler only from the approval stage on; Temporal
\* keeps a signal without a handler and delivers it when one is set.
Approve ==
  /\ Running
  /\ ~approvalSent
  /\ approvalSent' = TRUE
  /\ approved' = (step \in {"label_approval", "approval"})
  /\ UNCHANGED <<config, place, susp, resumeCount, scans, expectedVersion,
                 reviewFix, merging, gitlab, env>>

\* GitLab answers a merge call that it accepts with the merge request merged,
\* or still open and queued; gitlab_merge_mr succeeds for both, and the merge
\* agent does not look at which it was.
MergeAccepted ==
  /\ mr \in {"open", "queued"}
  /\ mr' \in {"merged", "queued"}

\* A queued merge request is merged later, or never.
QueueMerges ==
  /\ mr = "queued" /\ mr' = "merged"
  /\ UNCHANGED <<config, place, susp, resumeCount, scans, expectedVersion, reviewFix,
                 approval, mergeResult, vmSignal, metric, mergeZombie, gitlab, env>>

\* A merge attempt that its caller gave up on merges all the same, or finds
\* blocking issues, and signals that to the workflow if it still runs.
LateMerge ==
  /\ mergeZombie
  /\ mergeZombie' = FALSE
  /\ \/ MergeAccepted /\ vmSignal' \in {vmSignal, "success"}
     \/ UNCHANGED mr /\ vmSignal' \in {vmSignal, "failure"}
  /\ vmSignal' # vmSignal => Running
  /\ UNCHANGED <<config, place, susp, resumeCount, scans, expectedVersion, reviewFix,
                 approval, mergeResult, metric, gitlab, env>>

----------------------------------------------------------------------------
(* The main line: labels *)

CallFails == failures < MaxFailures /\ failures' = failures + 1

\* The issue's labels after a PUT with add_labels and remove_labels, and
\* after one that failed but may have been applied, its reply lost.
Relabelled(add, remove) == (labels \ {remove}) \cup {add}
MaybeRelabelled(add, remove) == {labels, Relabelled(add, remove)}

\* Mutant of EnterStage: the stage is named after the step, not the label.
EnterStageUnmapped(s) == step' = s /\ await' = "call" /\ stage' = s

\* Set the stage and call applyLabel.
EnterStage(s) == step' = s /\ await' = "call" /\ stage' = AddedLabel[s]

LabelApplied ==
  /\ await = "call"
  /\ labels' = Relabelled(AddedLabel[step], RemovedLabel(step))
  /\ currentLabel' = AddedLabel[step]
  /\ UNCHANGED <<config, suspendedFrom, expectedResume, resumeCount, scans,
                 reviewFix, approvalSent, merging, issue, env>>

\* The agent called once the label of its stage is set.
AgentOf ==
  [label_dev |-> "dev", label_review |-> "review", label_fix |-> "fix",
   label_analysis |-> "analysis", label_analysis_fixed |-> "analysis",
   label_merge |-> "merge"]

StartAgent ==
  /\ step \in DOMAIN AgentOf
  /\ LabelApplied
  /\ step' = AgentOf[step] /\ await' = "call"
  /\ UNCHANGED <<stage, expectedVersion, approved>>

\* Mutant of StartCiWait: the version awaited is computed before the loop.
StartCiWaitOnce ==
  /\ step' = "ci" /\ await' = "timer"
  /\ expectedVersion' = IF step = "ci" THEN expectedVersion ELSE scanVersion + 1

\* Only a scan received from here on counts.
StartCiWait ==
  /\ step' = "ci" /\ await' = "timer"
  /\ expectedVersion' = scanVersion + 1

AwaitCi ==
  /\ step = "label_ci"
  /\ LabelApplied
  /\ StartCiWait
  /\ UNCHANGED <<stage, approved>>

\* Mutant of LeaveCorrection: the flag is cleared after the handler is set.
LeaveCorrectionDeaf ==
  IF config.hitl
  THEN EnterStage("label_approval") /\ approved' = FALSE
  ELSE EnterStage("label_merge") /\ UNCHANGED approved

\* With human-in-the-loop, the approve-merge handler is set before the label
\* is applied: an approval sent earlier is delivered to it now.
LeaveCorrection ==
  IF config.hitl
  THEN EnterStage("label_approval") /\ approved' = approvalSent
  ELSE EnterStage("label_merge") /\ UNCHANGED approved

\* The correction agent runs if the analysis had found blocking issues.
StartCorrection ==
  /\ step = "label_correction"
  /\ LabelApplied
  /\ \/ step' = "correction" /\ await' = "call" /\ UNCHANGED <<stage, approved>>
     \/ LeaveCorrection
  /\ UNCHANGED expectedVersion

AwaitApproval ==
  /\ step = "label_approval"
  /\ LabelApplied
  /\ step' = "approval" /\ await' = "timer"
  /\ UNCHANGED <<stage, expectedVersion, approved>>

\* A call of the main line that no withSuspendOnFailure protects ends the
\* workflow when it fails.
Fail == step' = "failed" /\ await' = "call" /\ UNCHANGED stage

ApplyLabelFails ==
  /\ step \in LabelSteps
  /\ CallFails
  /\ labels' \in MaybeRelabelled(AddedLabel[step], RemovedLabel(step))
  /\ Fail
  /\ UNCHANGED <<config, susp, resumeCount, scans, expectedVersion, reviewFix,
                 approval, merging, issue, answered, asked>>

----------------------------------------------------------------------------
(* The main line: agents *)

SuspendUntil(s, count) ==
  /\ step' = s /\ await' = "notify_label" /\ stage' = "suspended"
  /\ suspendedFrom' = currentLabel
  /\ expectedResume' = count
  /\ answered' = FALSE
  /\ UNCHANGED currentLabel

\* Mutant of Suspend: off by one, any resume received before will do.
SuspendOffByOne(s) == SuspendUntil(s, resumeCount)

\* Suspend at s until a resume is received from now on, counting those that
\* arrive while the suspension is still being notified.
Suspend(s) == SuspendUntil(s, resumeCount + 1)

AgentStops(agent) ==
  /\ step = agent /\ await = "call"
  /\ UNCHANGED <<config, expectedVersion, resumeCount, scan, scanVersion,
                 approvalSent, metric, gitlab, asked>>

DevReturns ==
  /\ AgentStops("dev")
  /\ mr' = "open"
  /\ EnterStage("label_review")
  /\ UNCHANGED <<susp, scanSince, reviewFix, approved, mergeResult, vmSignal,
                 mergeZombie, failures, answered>>

ReviewReturns ==
  /\ AgentStops("review")
  /\ \E s \in {"label_fix", "label_analysis"} : EnterStage(s)
  /\ UNCHANGED <<susp, scanSince, reviewFix, approved, merging, failures, answered>>

\* What reviewFix may hold when a fix attempt ends: attempts abandoned on a
\* timeout are not stopped, and a signal may fail to be sent, so the last
\* signal received is that of any attempt, or an old one.
FixReports == {reviewFix, "success", "partial"}

\* A partial fix, as the last signal received says, waits for a human.
FixReturns ==
  /\ AgentStops("fix")
  /\ reviewFix' \in FixReports
  /\ IF reviewFix' = "partial"
     THEN Suspend("fix_partial")
     ELSE EnterStage("label_analysis_fixed") /\ UNCHANGED <<susp, answered>>
  /\ UNCHANGED <<scanSince, approved, merging, failures>>

AnalysisReturns ==
  /\ AgentStops("analysis")
  /\ EnterStage("label_ci")
  /\ scanSince' = None
  /\ UNCHANGED <<susp, reviewFix, approved, merging, failures, answered>>

CorrectionReturns ==
  /\ AgentStops("correction")
  /\ LeaveCorrection
  /\ UNCHANGED <<susp, scanSince, reviewFix, merging, failures, answered>>

\* The merge agent has a merge accepted, or finds blocking issues and leaves
\* the merge request alone.  Its verify-and-merge-completed signal may not get through.
MergeReturns ==
  /\ AgentStops("merge")
  /\ \/ MergeAccepted /\ mergeResult' = "success"
     \/ UNCHANGED mr /\ mergeResult' = "failure"
  /\ vmSignal' \in {vmSignal, mergeResult'}
  /\ step' = "metric" /\ await' = "call"
  /\ UNCHANGED <<stage, susp, scanSince, reviewFix, approved, mergeZombie, failures,
                 answered>>

(* An agent activity whose attempts are used up suspends the pipeline.     *)
(* What an attempt had done before it failed stays done.                   *)
AgentFails(agent) ==
  /\ AgentStops(agent)
  /\ Suspend(agent)
  /\ UNCHANGED <<scanSince, approved, mergeResult>>

DevOrFixFails ==
  /\ CallFails
  /\ \/ AgentFails("dev") /\ mr' \in {mr, "open"} /\ UNCHANGED reviewFix
     \/ AgentFails("fix") /\ reviewFix' \in FixReports /\ UNCHANGED mr
  /\ UNCHANGED <<vmSignal, mergeZombie>>

OtherAgentFails ==
  /\ CallFails
  /\ \E a \in {"review", "analysis", "correction"} : AgentFails(a)
  /\ UNCHANGED <<reviewFix, mr, vmSignal, mergeZombie>>

\* GitLab refuses to merge what is merged already, on every attempt.
MergeRefused ==
  /\ mr = "merged"
  /\ UNCHANGED <<failures, mr, vmSignal, mergeZombie>>

\* Mutant of MergeLost: success is signalled before the merge is asked for.
MergeLostAfterSignal ==
  /\ CallFails
  /\ mr = "open" /\ vmSignal' = "success" /\ UNCHANGED <<mr, mergeZombie>>

\* The attempt may have reported blocking issues, or had its merge accepted
\* and reported it, before it was lost; or it is still running.
MergeLost ==
  /\ CallFails
  /\ \/ vmSignal' \in {vmSignal, "failure"} /\ UNCHANGED <<mr, mergeZombie>>
     \/ /\ MergeAccepted
        /\ vmSignal' \in {vmSignal, "success"}
        /\ UNCHANGED mergeZombie
     \/ mergeZombie' = TRUE /\ UNCHANGED <<mr, vmSignal>>

MergeFails ==
  /\ AgentFails("merge")
  /\ MergeRefused \/ MergeLost
  /\ UNCHANGED reviewFix

----------------------------------------------------------------------------
(* A suspension, the same at every place: notify, wait for a resume signal, *)
(* restore.  GitLab calls that fail here are only logged.                   *)

SuspensionStep ==
  UNCHANGED <<config, suspendedFrom, resumeCount, scan, scanVersion, reviewFix,
              approval, merging, issue, answered, asked>>

AwaitResume == await' = "resume" /\ currentLabel' = "suspended"

NotifyLabel ==
  /\ await = "notify_label"
  /\ \/ /\ labels' = Relabelled("suspended", suspendedFrom)
        /\ UNCHANGED failures
        /\ IF config.notify
           THEN await' = "notify_comment" /\ UNCHANGED currentLabel
           ELSE AwaitResume
     \/ /\ CallFails
        /\ labels' \in MaybeRelabelled("suspended", suspendedFrom)
        /\ AwaitResume
  /\ UNCHANGED <<step, stage, expectedResume, expectedVersion, scanSince>>
  /\ SuspensionStep

PostComment(count) ==
  /\ await = "notify_comment"
  /\ AwaitResume
  /\ expectedResume' = count
  /\ UNCHANGED <<step, stage, labels, failures, expectedVersion, scanSince>>
  /\ SuspensionStep

\* Mutant of NotifyComment: the resume to wait for is chosen after it.
NotifyCommentThenCount == PostComment(resumeCount + 1)

\* Posting the comment fails or not: the suspension goes on.
NotifyComment == PostComment(expectedResume)

WakeUpIf(resumed, newStage) ==
  /\ await = "resume"
  /\ resumed
  /\ await' = "restore_label" /\ stage' = newStage
  /\ scanSince' = IF step = "ci" THEN None ELSE scanSince
  /\ UNCHANGED <<step, labels, failures, currentLabel, expectedResume,
                 expectedVersion>>
  /\ SuspensionStep

\* Mutants of WakeUp: the stage is not restored; a second resume is needed.
WakeUpSilently == WakeUpIf(resumeCount >= expectedResume, stage)
WakeUpLater    == WakeUpIf(resumeCount > expectedResume, StageValue[step])

WakeUp == WakeUpIf(resumeCount >= expectedResume, StageValue[step])

\* What follows a suspension: an agent runs again, CI is awaited again, a
\* partial fix is taken as it is.
GoOn ==
  \/ /\ step \in AgentSteps
     /\ await' = "call"
     /\ UNCHANGED <<step, stage, expectedVersion>>
  \/ /\ step = "ci"
     /\ StartCiWait
     /\ UNCHANGED stage
  \/ /\ step = "fix_partial"
     /\ EnterStage("label_analysis_fixed")
     /\ UNCHANGED expectedVersion

RestoreLabel ==
  /\ await = "restore_label"
  /\ \/ labels' = Relabelled(suspendedFrom, "suspended") /\ UNCHANGED failures
     \/ CallFails /\ labels' \in MaybeRelabelled(suspendedFrom, "suspended")
  /\ currentLabel' = suspendedFrom
  /\ GoOn
  /\ UNCHANGED <<expectedResume, scanSince>>
  /\ SuspensionStep

----------------------------------------------------------------------------
(* Waiting for CI and for the approval *)

WaitStep ==
  UNCHANGED <<config, resumeCount, scans, expectedVersion, reviewFix, approval,
              merging, gitlab>>

WaitTimeout ==
  /\ await = "timer"
  /\ \/ step = "ci" /\ scanVersion < expectedVersion
     \/ step = "approval" /\ ~approved
  /\ await' = "comment"
  /\ UNCHANGED <<step, stage, susp, env>>
  /\ WaitStep

TimeoutComment ==
  /\ await = "comment"
  /\ \/ /\ await' = "signal"
        /\ asked' = (asked \/ step = "ci")
        /\ UNCHANGED <<step, stage, failures>>
     \/ CallFails /\ Fail /\ UNCHANGED asked
  /\ UNCHANGED <<susp, answered>>
  /\ WaitStep

\* The scan looked at is the last one received.
CiResult ==
  /\ step = "ci" /\ await \in {"timer", "signal"}
  /\ scanVersion >= expectedVersion
  /\ IF scan = "passed"
     THEN EnterStage("label_correction") /\ UNCHANGED <<susp, answered>>
     ELSE Suspend("ci")
  /\ UNCHANGED <<failures, asked>>
  /\ WaitStep

ApprovedIf(ready) ==
  /\ step = "approval" /\ await \in {"timer", "signal"}
  /\ ready
  /\ EnterStage("label_merge")
  /\ UNCHANGED <<susp, env>>
  /\ WaitStep

\* Mutant of Approved: after the timeout comment the merge goes ahead.
ApprovedOrTimedOut == ApprovedIf(approved \/ await = "signal")

Approved == ApprovedIf(approved)

----------------------------------------------------------------------------
(* The end *)

EndStep ==
  UNCHANGED <<config, await, susp, resumeCount, scans, expectedVersion, reviewFix,
              approval, mr, mergeResult, vmSignal, mergeZombie, answered, asked>>

\* The metric's status is the merge agent's signal if one was received.
LogMetricThen(next) ==
  /\ step = "metric"
  /\ metric' = IF vmSignal # None THEN vmSignal ELSE mergeResult
  /\ stage' = "done" /\ step' = next
  /\ UNCHANGED <<gitlab, failures>>
  /\ EndStep

\* Mutant of LogMetric: the issue is closed whatever the merge's result.
LogMetricAndClose == LogMetricThen("close")

LogMetric ==
  LogMetricThen(IF mergeResult = "success" THEN "close" ELSE "completed")

\* Close the issue and take every workflow label off it.
CloseIssue ==
  /\ step = "close"
  /\ labels' = {} /\ issue' = "closed"
  /\ step' = "completed"
  /\ UNCHANGED <<stage, metric, failures>>
  /\ EndStep

LastCallsFail ==
  /\ CallFails
  /\ \/ step \in {"metric", "close"} /\ UNCHANGED gitlab
     \/ step = "close" /\ labels' = {} /\ issue' = "closed"
  /\ step' = "failed"
  /\ UNCHANGED <<stage, metric>>
  /\ EndStep

----------------------------------------------------------------------------

Environment ==
  AnswerSuspension \/ StrayResume \/ CiReport \/ CiRelaunch \/ Approve \/ LateMerge
    \/ QueueMerges

Labelling   == StartAgent \/ AwaitCi \/ StartCorrection \/ AwaitApproval
AgentReturn == DevReturns \/ ReviewReturns \/ FixReturns \/ AnalysisReturns
                 \/ CorrectionReturns \/ MergeReturns
Suspension  == NotifyLabel \/ NotifyComment \/ WakeUp \/ RestoreLabel
Waiting     == WaitTimeout \/ TimeoutComment \/ CiResult \/ Approved
Ending      == LogMetric \/ CloseIssue

Progress ==
  Labelling \/ AgentReturn \/ MergeFails \/ Suspension \/ Waiting \/ Ending

Failure == ApplyLabelFails \/ DevOrFixFails \/ OtherAgentFails \/ LastCallsFail

Next == Environment \/ Progress \/ Failure

Spec == Init /\ [][Next]_vars

\* Temporal keeps running the workflow and every activity ends; a human
\* answers each suspension once and approves the merge.
NoRelaunchFairSpec ==
  /\ Spec
  /\ WF_vars(Progress) /\ WF_vars(AnswerSuspension) /\ WF_vars(Approve)

\* A human also relaunches CI, once, when the timeout comment asks for it.
FairSpec == NoRelaunchFairSpec /\ WF_vars(CiRelaunch)

----------------------------------------------------------------------------
(* Properties *)

PlaceType == step \in Steps /\ await \in Awaits /\ stage \in PIPELINE_STAGE

LabelType ==
  /\ currentLabel \in WORKFLOW_LABELS \cup {NoLabel}
  /\ suspendedFrom \in WORKFLOW_LABELS \cup {NoLabel}
  /\ labels \in SUBSET (WORKFLOW_LABELS \cup {NoLabel})

CounterType ==
  /\ resumeCount \in Nat /\ expectedResume \in Nat
  /\ scanVersion \in Nat /\ expectedVersion \in Nat /\ failures \in Nat

ResultType ==
  /\ scan \in {None, "passed", "failed"} /\ scanSince \in {None, "passed", "failed"}
  /\ reviewFix \in {None, "success", "partial"}
  /\ mergeResult \in {None, "success", "failure"}
  /\ vmSignal \in {None, "success", "failure"}
  /\ metric \in {None, "success", "failure"}
  /\ issue \in {"opened", "closed"} /\ mr \in {None, "open", "queued", "merged"}

FlagType ==
  /\ config \in Configs
  /\ approvalSent \in BOOLEAN /\ approved \in BOOLEAN /\ mergeZombie \in BOOLEAN
  /\ answered \in BOOLEAN /\ asked \in BOOLEAN

\* Every variable keeps its type.
TypeOK == PlaceType /\ LabelType /\ CounterType /\ ResultType /\ FlagType

\* The stage the search attribute should show: "suspended" from the moment
\* an agent has failed until a resume is acted upon, else that of the step.
ExpectedStage ==
  IF await \in {"notify_label", "notify_comment", "resume"} THEN "suspended"
  ELSE IF step \in LabelSteps THEN AddedLabel[step]
  ELSE IF step \in DOMAIN StageValue THEN StageValue[step]
  ELSE [approval |-> "awaiting-approval", metric |-> "merge", close |-> "done"][step]

\* Monitoring reads the PipelineStage search attribute: while the workflow
\* runs, it names what the workflow is really doing, whichever suspensions
\* and resumes led there.
StageIsTruthful == Running => stage = ExpectedStage

\* As long as no call has failed, the issue carries exactly one label, that
\* of its stage: every stage change removes what the one before it left,
\* suspensions for a failed CI or a partial fix included.
OneLabelWithoutFaults ==
  (failures = 0 /\ Running /\ step # "label_dev")
    => labels = {IF await = "notify_comment" THEN "suspended" ELSE currentLabel}

\* Has GitLab merged the merge request, or queued it for merging?
Accepted == mr \in {"queued", "merged"}

\* An issue is closed only if GitLab has accepted to merge its merge request,
\* whatever replies were lost and whichever attempts were still running.
ClosedImpliesAccepted == issue = "closed" => Accepted

\* The merge stage's metric says success only if GitLab has accepted the
\* merge, though it may come from the signal of an earlier attempt.
MetricSuccessIsTrue == metric = "success" => Accepted

\* A supervised pipeline has GitLab merge, at once or later, only what a human
\* approved, timeouts, suspensions and abandoned attempts notwithstanding.
SupervisedMergeIsApproved == (Accepted /\ config.hitl) => approvalSent

\* What the pipeline reports as merged is merged: the dashboard counts the
\* metric's successes as merged pipelines, the application shows a closed
\* issue without label as merged.
ReportedMergedIsMerged ==
  metric = "success" /\ issue = "closed" => mr = "merged"

\* A suspension ends only for a resume signal sent after it began: one sent
\* before the failure is not taken for an answer to it.
NoStaleResume == [][await = "resume" /\ await' # "resume" => answered]_vars

\* The workflow implements IssueLifecycle.
PhaseOf ==
  [label_dev |-> "dev", dev |-> "dev", label_review |-> "review", review |-> "review",
   label_fix |-> "fix", fix |-> "fix", fix_partial |-> "fix",
   label_analysis |-> "analysis", label_analysis_fixed |-> "analysis",
   analysis |-> "analysis", label_ci |-> "ci", ci |-> "ci",
   label_correction |-> "correction", correction |-> "correction",
   label_approval |-> "approval", approval |-> "approval",
   label_merge |-> "merge", merge |-> "merge", metric |-> "merge", close |-> "merge"]

Phase == IF Running THEN PhaseOf[step] ELSE "over"

Lifecycle == INSTANCE IssueLifecycle WITH
  phase <- Phase, paused <- stage = "suspended", supervised <- config.hitl,
  green <- scanSince = "passed", approved <- approvalSent,
  accepted <- Accepted, closed <- issue = "closed"

\* Phases are entered in order and never left backwards, CI is left only on
\* a green scan received since it was last (re)entered, and so on: every
\* step of the workflow is a step of IssueLifecycle or changes nothing there.
ImplementsLifecycle == Lifecycle!Spec

\* The pipeline does not know that its merge request is merged: GitLab
\* refuses the retried merge, and every resume suspends it again.
MergedUnknown == mr = "merged" /\ step = "merge"

\* Every other pipeline ends, if humans answer and calls fail finitely often:
\* no signal is lost between two awaits, no wait misses its event.
EventuallyEnds == <>(~Running \/ MergedUnknown)

\* A single resume suffices for a suspension, even one that arrives while
\* the suspension is still being notified on GitLab.
ResumeIsHeard == (stage = "suspended" /\ answered) ~> stage # "suspended"

\* An approval is never lost, even one sent before the approval stage began.
ApprovalIsHeard == (step = "approval" /\ approvalSent) ~> step # "approval"

\* The comment posted when CI failed says to fix and relaunch CI to resume:
\* a green scan received while suspended lets the resumed pipeline go on.
RerunUnblocksCi ==
  (step = "ci" /\ stage = "suspended" /\ scan = "passed") ~> step # "ci"

\* The suspension comment says that a resume runs the step again; so a
\* resumed merge suspends again only if something new fails.
ResumedMergeFailsOnlyOnNewFault ==
  [][step = "merge" /\ await = "call" /\ stage' = "suspended"
       => failures' > failures]_vars
=============================================================================
