----------------------- MODULE PipelineWorkflowProofs -----------------------
(***************************************************************************)
(* Theorems of PipelineWorkflow, for every set of configurations and every *)
(* bound on failures, scans and resume signals.                            *)
(***************************************************************************)
EXTENDS PipelineWorkflow, TLAPS

SuspensionAwaits ==
  {"notify_label", "notify_comment", "resume", "restore_label"}
WaitAwaits       == {"timer", "comment", "signal"}
MergeSteps       == {"merge", "metric", "close"}

----------------------------------------------------------------------------
(* The inductive invariant: TypeOK, StageIsTruthful and the parts below.   *)

\* Which awaits occur in which step.
PlaceOK ==
  /\ step \in LabelSteps \cup {"metric", "close"} \cup Ended => await = "call"
  /\ step \in AgentSteps => await \in {"call"} \cup SuspensionAwaits
  /\ step = "fix_partial" => await \in SuspensionAwaits
  /\ step = "ci" => await \in SuspensionAwaits \cup WaitAwaits
  /\ step = "approval" => await \in WaitAwaits

\* Nothing that bears witness to a merge exists before the merge agent runs,
\* and what says "success" is true: GitLab has accepted the merge.
MergeOK ==
  /\ (\/ Accepted \/ mergeZombie
      \/ vmSignal # None \/ mergeResult # None \/ metric # None)
       => step \in MergeSteps \cup Ended
  /\ "success" \in {mergeResult, vmSignal, metric} => Accepted
  /\ step = "close" => mergeResult = "success"
  /\ issue = "closed" => Accepted

\* A supervised pipeline that merges, may merge or has merged was approved.
ApprovalOK ==
  /\ approved => approvalSent
  /\ (/\ config.hitl
      /\ step \in {"label_merge"} \cup MergeSteps \/ Accepted \/ mergeZombie)
       => approvalSent

\* A suspension that nobody has answered still waits for a resume.
ResumeOK ==
  (await \in SuspensionAwaits \ {"restore_label"} /\ ~answered)
    => resumeCount < expectedResume

\* The scan that ends a CI wait was received in that wait.
CiOK ==
  (step = "ci" /\ await \in WaitAwaits /\ scanVersion >= expectedVersion)
    => scanSince = scan

\* The label the issue should bear when a step begins.
LabelBefore ==
  IF step = "label_merge" /\ config.hitl THEN "awaiting-approval"
  ELSE IF step = "label_merge" THEN "sonarqube"
  ELSE IF step \in LabelSteps THEN NamedRemoval[step]
  ELSE IF step \in DOMAIN StageValue THEN StageValue[step]
  ELSE IF step = "approval" THEN "awaiting-approval" ELSE "merge"

\* currentLabelRef and suspendedFrom follow the steps, failures or not.
LabelOK ==
  /\ step = "label_dev" => labels = {}
  /\ step \in {"label_approval", "approval"} => config.hitl
  /\ Running =>
       /\ currentLabel =
            IF await \in {"resume", "restore_label"} THEN "suspended" ELSE LabelBefore
       /\ await \in SuspensionAwaits => suspendedFrom = LabelBefore

IInv == /\ TypeOK /\ PlaceOK /\ StageIsTruthful /\ MergeOK /\ ApprovalOK
        /\ ResumeOK /\ CiOK /\ LabelOK /\ OneLabelWithoutFaults

----------------------------------------------------------------------------
(* Types *)

(* Helpers of the actions, visible in every proof below. *)
USE DEF place, susp, scans, approval, merging, gitlab, env, AgentFails,
     AgentStops, CallFails, EnterStage, Fail, SendResume, ReceiveScan,
     Suspend, SuspendUntil, LeaveCorrection, StartCiWait, LabelApplied,
     SuspensionStep, PostComment, WakeUpIf, GoOn, AwaitResume, WaitStep,
     ApprovedIf, LogMetricThen, EndStep, MergeAccepted, Accepted

\* Every step keeps the types of step, await and stage.
LEMMA PlaceTypeStep ==
  ASSUME TypeOK, PlaceOK, [Next]_vars
  PROVE  PlaceType'
<1> USE DEF TypeOK, PlaceType, PlaceOK, Steps, Awaits, WORKFLOW_LABELS,
     PIPELINE_STAGE, WaitAwaits, AgentOf, LabelSteps, AgentSteps, Ended,
     AddedLabel, StageValue, SuspensionAwaits
<1>1. CASE Environment
  BY <1>1 DEF Environment, AnswerSuspension, StrayResume, CiReport,
       CiRelaunch, Approve, LateMerge, QueueMerges
<1>2. CASE Labelling
  BY <1>2 DEF Labelling, StartAgent, AwaitCi, StartCorrection, AwaitApproval
<1>3. CASE AgentReturn
  BY <1>3 DEF AgentReturn, DevReturns, ReviewReturns, FixReturns,
       AnalysisReturns, CorrectionReturns, MergeReturns
<1>4. CASE MergeFails
  BY <1>4 DEF MergeFails, MergeRefused, MergeLost
<1>5. CASE Suspension
  BY <1>5 DEF Suspension, NotifyLabel, NotifyComment, WakeUp, RestoreLabel
<1>6. CASE Waiting
  BY <1>6 DEF Waiting, WaitTimeout, TimeoutComment, CiResult, Approved
<1>7. CASE Ending
  BY <1>7 DEF Ending, LogMetric, CloseIssue
<1>8. CASE Failure
  BY <1>8 DEF Failure, ApplyLabelFails, DevOrFixFails, OtherAgentFails,
       LastCallsFail
<1>9. CASE UNCHANGED vars
  BY <1>9 DEF vars
<1> QED
  BY <1>1, <1>2, <1>3, <1>4, <1>5, <1>6, <1>7, <1>8, <1>9 DEF Next, Progress

\* Every step keeps the types of the labels.
LEMMA LabelTypeStep ==
  ASSUME TypeOK, PlaceOK, [Next]_vars
  PROVE  LabelType'
<1> USE DEF TypeOK, LabelType, Relabelled, MaybeRelabelled
<1>0. /\ LabelSteps = DOMAIN AddedLabel /\ DOMAIN AgentOf \subseteq LabelSteps
       /\ {"label_ci", "label_correction", "label_approval"} \subseteq LabelSteps
       /\ \A s \in LabelSteps : AddedLabel[s] \in WORKFLOW_LABELS
       /\ "suspended" \in WORKFLOW_LABELS
  BY DEF AddedLabel, AgentOf, WORKFLOW_LABELS, LabelSteps
<1>1. CASE Environment
  BY <1>1 DEF Environment, AnswerSuspension, StrayResume, CiReport,
       CiRelaunch, Approve, LateMerge, QueueMerges
<1>2. CASE Labelling
  BY <1>0, <1>2 DEF Labelling, StartAgent, AwaitCi, StartCorrection, AwaitApproval
<1>3. CASE AgentReturn
  BY <1>3 DEF AgentReturn, DevReturns, ReviewReturns, FixReturns,
       AnalysisReturns, CorrectionReturns, MergeReturns
<1>4. CASE MergeFails
  BY <1>4 DEF MergeFails, MergeRefused, MergeLost
<1>5. CASE Suspension
  BY <1>0, <1>5 DEF Suspension, NotifyLabel, NotifyComment, WakeUp, RestoreLabel
<1>6. CASE Waiting
  BY <1>6 DEF Waiting, WaitTimeout, TimeoutComment, CiResult, Approved
<1>7. CASE Ending
  BY <1>7 DEF Ending, LogMetric, CloseIssue
<1>8. CASE Failure
  BY <1>0, <1>8 DEF Failure, ApplyLabelFails, DevOrFixFails, OtherAgentFails,
       LastCallsFail
<1>9. CASE UNCHANGED vars
  BY <1>9 DEF vars
<1> QED
  BY <1>1, <1>2, <1>3, <1>4, <1>5, <1>6, <1>7, <1>8, <1>9 DEF Next, Progress

\* Every step keeps the counters natural numbers.
LEMMA CounterTypeStep ==
  ASSUME TypeOK, PlaceOK, [Next]_vars
  PROVE  CounterType'
<1> USE DEF TypeOK, CounterType
<1>1. CASE Environment
  BY <1>1 DEF Environment, AnswerSuspension, StrayResume, CiReport,
       CiRelaunch, Approve, LateMerge, QueueMerges
<1>2. CASE Labelling
  BY <1>2 DEF Labelling, StartAgent, AwaitCi, StartCorrection, AwaitApproval
<1>3. CASE AgentReturn
  BY <1>3 DEF AgentReturn, DevReturns, ReviewReturns, FixReturns,
       AnalysisReturns, CorrectionReturns, MergeReturns
<1>4. CASE MergeFails
  BY <1>4 DEF MergeFails, MergeRefused, MergeLost
<1>5. CASE Suspension
  BY <1>5 DEF Suspension, NotifyLabel, NotifyComment, WakeUp, RestoreLabel
<1>6. CASE Waiting
  BY <1>6 DEF Waiting, WaitTimeout, TimeoutComment, CiResult, Approved
<1>7. CASE Ending
  BY <1>7 DEF Ending, LogMetric, CloseIssue
<1>8. CASE Failure
  BY <1>8 DEF Failure, ApplyLabelFails, DevOrFixFails, OtherAgentFails,
       LastCallsFail
<1>9. CASE UNCHANGED vars
  BY <1>9 DEF vars
<1> QED
  BY <1>1, <1>2, <1>3, <1>4, <1>5, <1>6, <1>7, <1>8, <1>9 DEF Next, Progress

\* Every step keeps the types of the signals and of the merge's results.
LEMMA ResultTypeStep ==
  ASSUME TypeOK, PlaceOK, [Next]_vars
  PROVE  ResultType'
<1> USE DEF TypeOK, ResultType, None, FixReports
<1>1. CASE Environment
  BY <1>1 DEF Environment, AnswerSuspension, StrayResume, CiReport,
       CiRelaunch, Approve, LateMerge, QueueMerges
<1>2. CASE Labelling
  BY <1>2 DEF Labelling, StartAgent, AwaitCi, StartCorrection, AwaitApproval
<1>3. CASE AgentReturn
  BY <1>3 DEF AgentReturn, DevReturns, ReviewReturns, FixReturns,
       AnalysisReturns, CorrectionReturns, MergeReturns
<1>4. CASE MergeFails
  BY <1>4 DEF MergeFails, MergeRefused, MergeLost
<1>5. CASE Suspension
  BY <1>5 DEF Suspension, NotifyLabel, NotifyComment, WakeUp, RestoreLabel
<1>6. CASE Waiting
  BY <1>6 DEF Waiting, WaitTimeout, TimeoutComment, CiResult, Approved
<1>7. CASE Ending
  BY <1>7 DEF Ending, LogMetric, CloseIssue
<1>8. CASE Failure
  BY <1>8 DEF Failure, ApplyLabelFails, DevOrFixFails, OtherAgentFails,
       LastCallsFail
<1>9. CASE UNCHANGED vars
  BY <1>9 DEF vars
<1> QED
  BY <1>1, <1>2, <1>3, <1>4, <1>5, <1>6, <1>7, <1>8, <1>9 DEF Next, Progress

\* Every step keeps the types of the Boolean variables.
LEMMA FlagTypeStep ==
  ASSUME TypeOK, PlaceOK, [Next]_vars
  PROVE  FlagType'
<1> USE DEF TypeOK, FlagType
<1>1. CASE Environment
  <2> USE DEF Environment
  <2>1. CASE AnswerSuspension
    BY <2>1 DEF AnswerSuspension
  <2>2. CASE StrayResume
    BY <2>2 DEF StrayResume
  <2>3. CASE CiReport
    BY <2>3 DEF CiReport
  <2>4. CASE CiRelaunch
    BY <2>4 DEF CiRelaunch
  <2>5. CASE Approve
    BY <2>5 DEF Approve
  <2>6. CASE LateMerge
    BY <2>6 DEF LateMerge
  <2>7. CASE QueueMerges
    BY <2>7 DEF QueueMerges
  <2> QED
    BY <1>1, <2>1, <2>2, <2>3, <2>4, <2>5, <2>6, <2>7
<1>2. CASE Labelling
  BY <1>2 DEF Labelling, StartAgent, AwaitCi, StartCorrection, AwaitApproval
<1>3. CASE AgentReturn
  BY <1>3 DEF AgentReturn, DevReturns, ReviewReturns, FixReturns,
       AnalysisReturns, CorrectionReturns, MergeReturns
<1>4. CASE MergeFails
  BY <1>4 DEF MergeFails, MergeRefused, MergeLost
<1>5. CASE Suspension
  BY <1>5 DEF Suspension, NotifyLabel, NotifyComment, WakeUp, RestoreLabel
<1>6. CASE Waiting
  BY <1>6 DEF Waiting, WaitTimeout, TimeoutComment, CiResult, Approved
<1>7. CASE Ending
  BY <1>7 DEF Ending, LogMetric, CloseIssue
<1>8. CASE Failure
  BY <1>8 DEF Failure, ApplyLabelFails, DevOrFixFails, OtherAgentFails,
       LastCallsFail
<1>9. CASE UNCHANGED vars
  BY <1>9 DEF vars
<1> QED
  BY <1>1, <1>2, <1>3, <1>4, <1>5, <1>6, <1>7, <1>8, <1>9 DEF Next, Progress

\* The type invariant is preserved.
LEMMA TypeStep ==
  ASSUME TypeOK, PlaceOK, [Next]_vars
  PROVE  TypeOK'
  BY PlaceTypeStep, LabelTypeStep, CounterTypeStep, ResultTypeStep, FlagTypeStep
     DEF TypeOK

----------------------------------------------------------------------------
(* The parts of the inductive invariant *)

\* Each step of the workflow is reached with one of its awaits.
LEMMA PlaceStep ==
  ASSUME TypeOK, PlaceOK, [Next]_vars
  PROVE  PlaceOK'
<1> USE DEF TypeOK, PlaceType, PlaceOK, WaitAwaits, AgentOf, LabelSteps,
     AgentSteps, Ended, AddedLabel, StageValue, SuspensionAwaits
<1>1. CASE Environment
  BY <1>1 DEF Environment, AnswerSuspension, StrayResume, CiReport,
       CiRelaunch, Approve, LateMerge, QueueMerges
<1>2. CASE Labelling
  BY <1>2 DEF Labelling, StartAgent, AwaitCi, StartCorrection, AwaitApproval
<1>3. CASE AgentReturn
  BY <1>3 DEF AgentReturn, DevReturns, ReviewReturns, FixReturns,
       AnalysisReturns, CorrectionReturns, MergeReturns
<1>4. CASE MergeFails
  BY <1>4 DEF MergeFails, MergeRefused, MergeLost
<1>5. CASE Suspension
  BY <1>5 DEF Suspension, NotifyLabel, NotifyComment, WakeUp, RestoreLabel
<1>6. CASE Waiting
  BY <1>6 DEF Waiting, WaitTimeout, TimeoutComment, CiResult, Approved
<1>7. CASE Ending
  BY <1>7 DEF Ending, LogMetric, CloseIssue
<1>8. CASE Failure
  BY <1>8 DEF Failure, ApplyLabelFails, DevOrFixFails, OtherAgentFails,
       LastCallsFail
<1>9. CASE UNCHANGED vars
  BY <1>9 DEF vars
<1> QED
  BY <1>1, <1>2, <1>3, <1>4, <1>5, <1>6, <1>7, <1>8, <1>9 DEF Next, Progress

\* Every step that moves the workflow moves its stage with it.
LEMMA StageStep ==
  ASSUME TypeOK, PlaceOK, StageIsTruthful, [Next]_vars
  PROVE  StageIsTruthful'
<1> USE DEF TypeOK, PlaceType, Steps, PlaceOK, WaitAwaits, StageIsTruthful,
     ExpectedStage, Running, AgentOf, LabelSteps, AgentSteps, Ended,
     AddedLabel, StageValue, SuspensionAwaits
<1>1. CASE Environment
  BY <1>1 DEF Environment, AnswerSuspension, StrayResume, CiReport,
       CiRelaunch, Approve, LateMerge, QueueMerges
<1>2. CASE Labelling
  BY <1>2 DEF Labelling, StartAgent, AwaitCi, StartCorrection, AwaitApproval
<1>3. CASE AgentReturn
  BY <1>3 DEF AgentReturn, DevReturns, ReviewReturns, FixReturns,
       AnalysisReturns, CorrectionReturns, MergeReturns
<1>4. CASE MergeFails
  BY <1>4 DEF MergeFails, MergeRefused, MergeLost
<1>5. CASE Suspension
  BY <1>5 DEF Suspension, NotifyLabel, NotifyComment, WakeUp, RestoreLabel
<1>6. CASE Waiting
  BY <1>6 DEF Waiting, WaitTimeout, TimeoutComment, CiResult, Approved
<1>7. CASE Ending
  BY <1>7 DEF Ending, LogMetric, CloseIssue
<1>8. CASE Failure
  BY <1>8 DEF Failure, ApplyLabelFails, DevOrFixFails, OtherAgentFails,
       LastCallsFail
<1>9. CASE UNCHANGED vars
  BY <1>9 DEF vars
<1> QED
  BY <1>1, <1>2, <1>3, <1>4, <1>5, <1>6, <1>7, <1>8, <1>9 DEF Next, Progress

\* What says that the merge is accepted is true, and is not said early.
LEMMA MergeStep ==
  ASSUME TypeOK, PlaceOK, MergeOK, [Next]_vars
  PROVE  MergeOK'
<1> USE DEF TypeOK, PlaceType, ResultType, MergeOK, MergeSteps, None, PlaceOK,
     WaitAwaits, AgentOf, LabelSteps, AgentSteps, Ended, AddedLabel,
     StageValue, SuspensionAwaits
<1>1. CASE Environment
  BY <1>1 DEF Environment, AnswerSuspension, StrayResume, CiReport,
       CiRelaunch, Approve, LateMerge, QueueMerges
<1>2. CASE Labelling
  BY <1>2 DEF Labelling, StartAgent, AwaitCi, StartCorrection, AwaitApproval
<1>3. CASE AgentReturn
  BY <1>3 DEF AgentReturn, DevReturns, ReviewReturns, FixReturns,
       AnalysisReturns, CorrectionReturns, MergeReturns
<1>4. CASE MergeFails
  BY <1>4 DEF MergeFails, MergeRefused, MergeLost
<1>5. CASE Suspension
  BY <1>5 DEF Suspension, NotifyLabel, NotifyComment, WakeUp, RestoreLabel
<1>6. CASE Waiting
  BY <1>6 DEF Waiting, WaitTimeout, TimeoutComment, CiResult, Approved
<1>7. CASE Ending
  BY <1>7 DEF Ending, LogMetric, CloseIssue
<1>8. CASE Failure
  BY <1>8 DEF Failure, ApplyLabelFails, DevOrFixFails, OtherAgentFails,
       LastCallsFail
<1>9. CASE UNCHANGED vars
  BY <1>9 DEF vars
<1> QED
  BY <1>1, <1>2, <1>3, <1>4, <1>5, <1>6, <1>7, <1>8, <1>9 DEF Next, Progress

\* A supervised pipeline goes towards the merge only once approved.
LEMMA ApprovalStep ==
  ASSUME TypeOK, PlaceOK, MergeOK, ApprovalOK, [Next]_vars
  PROVE  ApprovalOK'
<1> USE DEF TypeOK, PlaceType, FlagType, ApprovalOK, MergeOK, MergeSteps,
     PlaceOK, WaitAwaits, AgentOf, LabelSteps, AgentSteps, Ended, AddedLabel,
     StageValue, SuspensionAwaits
<1>1. CASE Environment
  BY <1>1 DEF Environment, AnswerSuspension, StrayResume, CiReport,
       CiRelaunch, Approve, LateMerge, QueueMerges
<1>2. CASE Labelling
  BY <1>2 DEF Labelling, StartAgent, AwaitCi, StartCorrection, AwaitApproval
<1>3. CASE AgentReturn
  BY <1>3 DEF AgentReturn, DevReturns, ReviewReturns, FixReturns,
       AnalysisReturns, CorrectionReturns, MergeReturns
<1>4. CASE MergeFails
  BY <1>4 DEF MergeFails, MergeRefused, MergeLost
<1>5. CASE Suspension
  BY <1>5 DEF Suspension, NotifyLabel, NotifyComment, WakeUp, RestoreLabel
<1>6. CASE Waiting
  BY <1>6 DEF Waiting, WaitTimeout, TimeoutComment, CiResult, Approved
<1>7. CASE Ending
  BY <1>7 DEF Ending, LogMetric, CloseIssue
<1>8. CASE Failure
  BY <1>8 DEF Failure, ApplyLabelFails, DevOrFixFails, OtherAgentFails,
       LastCallsFail
<1>9. CASE UNCHANGED vars
  BY <1>9 DEF vars
<1> QED
  BY <1>1, <1>2, <1>3, <1>4, <1>5, <1>6, <1>7, <1>8, <1>9 DEF Next, Progress

\* A suspension waits for more resume signals than it has found.
LEMMA ResumeStep ==
  ASSUME TypeOK, PlaceOK, StageIsTruthful, ResumeOK, [Next]_vars
  PROVE  ResumeOK'
<1> USE DEF TypeOK, PlaceType, CounterType, FlagType, ResumeOK, PlaceOK,
     StageIsTruthful, ExpectedStage, Running, WaitAwaits, AgentOf, LabelSteps,
     AgentSteps, Ended, AddedLabel, StageValue, SuspensionAwaits
<1>1. CASE Environment
  BY <1>1 DEF Environment, AnswerSuspension, StrayResume, CiReport,
       CiRelaunch, Approve, LateMerge, QueueMerges
<1>2. CASE Labelling
  BY <1>2 DEF Labelling, StartAgent, AwaitCi, StartCorrection, AwaitApproval
<1>3. CASE AgentReturn
  BY <1>3 DEF AgentReturn, DevReturns, ReviewReturns, FixReturns,
       AnalysisReturns, CorrectionReturns, MergeReturns
<1>4. CASE MergeFails
  BY <1>4 DEF MergeFails, MergeRefused, MergeLost
<1>5. CASE Suspension
  BY <1>5 DEF Suspension, NotifyLabel, NotifyComment, WakeUp, RestoreLabel
<1>6. CASE Waiting
  BY <1>6 DEF Waiting, WaitTimeout, TimeoutComment, CiResult, Approved
<1>7. CASE Ending
  BY <1>7 DEF Ending, LogMetric, CloseIssue
<1>8. CASE Failure
  BY <1>8 DEF Failure, ApplyLabelFails, DevOrFixFails, OtherAgentFails,
       LastCallsFail
<1>9. CASE UNCHANGED vars
  BY <1>9 DEF vars
<1> QED
  BY <1>1, <1>2, <1>3, <1>4, <1>5, <1>6, <1>7, <1>8, <1>9 DEF Next, Progress

\* Scans received before a CI wait began do not end it.
LEMMA CiStep ==
  ASSUME TypeOK, PlaceOK, CiOK, [Next]_vars
  PROVE  CiOK'
<1> USE DEF TypeOK, PlaceType, CounterType, ResultType, CiOK, PlaceOK,
     WaitAwaits, AgentOf, LabelSteps, AgentSteps, Ended, AddedLabel,
     StageValue, SuspensionAwaits
<1>1. CASE Environment
  BY <1>1 DEF Environment, AnswerSuspension, StrayResume, CiReport,
       CiRelaunch, Approve, LateMerge, QueueMerges
<1>2. CASE Labelling
  BY <1>2 DEF Labelling, StartAgent, AwaitCi, StartCorrection, AwaitApproval
<1>3. CASE AgentReturn
  BY <1>3 DEF AgentReturn, DevReturns, ReviewReturns, FixReturns,
       AnalysisReturns, CorrectionReturns, MergeReturns
<1>4. CASE MergeFails
  BY <1>4 DEF MergeFails, MergeRefused, MergeLost
<1>5. CASE Suspension
  BY <1>5 DEF Suspension, NotifyLabel, NotifyComment, WakeUp, RestoreLabel
<1>6. CASE Waiting
  BY <1>6 DEF Waiting, WaitTimeout, TimeoutComment, CiResult, Approved
<1>7. CASE Ending
  BY <1>7 DEF Ending, LogMetric, CloseIssue
<1>8. CASE Failure
  BY <1>8 DEF Failure, ApplyLabelFails, DevOrFixFails, OtherAgentFails,
       LastCallsFail
<1>9. CASE UNCHANGED vars
  BY <1>9 DEF vars
<1> QED
  BY <1>1, <1>2, <1>3, <1>4, <1>5, <1>6, <1>7, <1>8, <1>9 DEF Next, Progress

\* currentLabel always names the label the next stage change must remove.
LEMMA LabelStep ==
  ASSUME TypeOK, PlaceOK, LabelOK, [Next]_vars
  PROVE  LabelOK'
<1> USE DEF TypeOK, PlaceType, Steps, PlaceOK, LabelOK, LabelBefore, Running,
     WaitAwaits, NamedRemoval, FlagType, LabelSteps, AgentSteps, Ended,
     AddedLabel, StageValue, SuspensionAwaits, AgentOf
<1>1. CASE Environment
  BY <1>1 DEF Environment, AnswerSuspension, StrayResume, CiReport,
       CiRelaunch, Approve, LateMerge, QueueMerges
<1>2. CASE Labelling
  BY <1>2 DEF Labelling, StartAgent, AwaitCi, StartCorrection, AwaitApproval
<1>3. CASE AgentReturn
  BY <1>3 DEF AgentReturn, DevReturns, ReviewReturns, FixReturns,
       AnalysisReturns, CorrectionReturns, MergeReturns
<1>4. CASE MergeFails
  BY <1>4 DEF MergeFails, MergeRefused, MergeLost
<1>5. CASE Suspension
  BY <1>5 DEF Suspension, NotifyLabel, NotifyComment, WakeUp, RestoreLabel
<1>6. CASE Waiting
  <2>1. CASE WaitTimeout
    BY <2>1 DEF WaitTimeout
  <2>2. CASE TimeoutComment
    BY <2>2 DEF TimeoutComment
  <2>3. CASE CiResult
    BY <2>3 DEF CiResult
  <2>4. CASE Approved
    BY <2>4 DEF Approved
  <2> QED
    BY <1>6, <2>1, <2>2, <2>3, <2>4 DEF Waiting
<1>7. CASE Ending
  BY <1>7 DEF Ending, LogMetric, CloseIssue
<1>8. CASE Failure
  BY <1>8 DEF Failure, ApplyLabelFails, DevOrFixFails, OtherAgentFails,
       LastCallsFail
<1>9. CASE UNCHANGED vars
  BY <1>9 DEF vars
<1> QED
  BY <1>1, <1>2, <1>3, <1>4, <1>5, <1>6, <1>7, <1>8, <1>9 DEF Next, Progress

\* Without failed calls, each relabelling leaves exactly one workflow label.
LEMMA OneLabelStep ==
  ASSUME TypeOK, PlaceOK, LabelOK, OneLabelWithoutFaults, [Next]_vars
  PROVE  OneLabelWithoutFaults'
<1> USE DEF TypeOK, PlaceType, CounterType, Steps, PlaceOK, LabelOK,
     OneLabelWithoutFaults, LabelBefore, Running, WaitAwaits, NamedRemoval,
     RemovedLabel, Relabelled, MaybeRelabelled, LabelSteps, AgentSteps, Ended,
     AddedLabel, StageValue, SuspensionAwaits, AgentOf
<1>1. CASE Environment
  BY <1>1 DEF Environment, AnswerSuspension, StrayResume, CiReport,
       CiRelaunch, Approve, LateMerge, QueueMerges
<1>2. CASE Labelling
  <2>1. CASE StartAgent
    BY <2>1 DEF StartAgent
  <2>2. CASE AwaitCi
    BY <2>2 DEF AwaitCi
  <2>3. CASE StartCorrection
    BY <2>3 DEF StartCorrection
  <2>4. CASE AwaitApproval
    BY <2>4 DEF AwaitApproval
  <2> QED
    BY <1>2, <2>1, <2>2, <2>3, <2>4 DEF Labelling
<1>3. CASE AgentReturn
  BY <1>3 DEF AgentReturn, DevReturns, ReviewReturns, FixReturns,
       AnalysisReturns, CorrectionReturns, MergeReturns
<1>4. CASE MergeFails
  BY <1>4 DEF MergeFails, MergeRefused, MergeLost
<1>5. CASE Suspension
  BY <1>5 DEF Suspension, NotifyLabel, NotifyComment, WakeUp, RestoreLabel
<1>6. CASE Waiting
  BY <1>6 DEF Waiting, WaitTimeout, TimeoutComment, CiResult, Approved
<1>7. CASE Ending
  BY <1>7 DEF Ending, LogMetric, CloseIssue
<1>8. CASE Failure
  BY <1>8 DEF Failure, ApplyLabelFails, DevOrFixFails, OtherAgentFails,
       LastCallsFail
<1>9. CASE UNCHANGED vars
  BY <1>9 DEF vars
<1> QED
  BY <1>1, <1>2, <1>3, <1>4, <1>5, <1>6, <1>7, <1>8, <1>9 DEF Next, Progress

----------------------------------------------------------------------------
(* Theorems *)

\* The inductive invariant holds at the start: the first await is that of
\* applyLabel(L.dev), with nothing received and nothing merged.
LEMMA InitIInv == Init => IInv
<1> SUFFICES ASSUME Init PROVE IInv
  OBVIOUS
<1> USE DEF Init, None, NoLabel
<1>1. TypeOK
  BY DEF TypeOK, PlaceType, LabelType, CounterType, ResultType, FlagType, Steps,
     LabelSteps, AddedLabel, Awaits, PIPELINE_STAGE, WORKFLOW_LABELS
<1>2. PlaceOK
  BY DEF PlaceOK, LabelSteps, AddedLabel, AgentSteps, StageValue, Ended
<1>3. StageIsTruthful
  BY DEF StageIsTruthful, ExpectedStage, LabelSteps, AddedLabel
<1>4. MergeOK /\ ApprovalOK /\ ResumeOK /\ CiOK
  BY DEF MergeOK, ApprovalOK, ResumeOK, CiOK, MergeSteps, Ended, SuspensionAwaits
<1>5. LabelOK /\ OneLabelWithoutFaults
  BY DEF LabelOK, OneLabelWithoutFaults, LabelBefore, NamedRemoval, LabelSteps,
     AddedLabel, SuspensionAwaits
<1> QED
  BY <1>1, <1>2, <1>3, <1>4, <1>5 DEF IInv

\* IInv is inductive: an invariant of every pipeline, supervised or not,
\* whatever fails and whatever signals arrive.
THEOREM Invariance == Spec => []IInv
<1>1. Init => IInv
  BY InitIInv
<1>2. IInv /\ [Next]_vars => IInv'
  BY TypeStep, PlaceStep, StageStep, MergeStep, ApprovalStep, ResumeStep, CiStep,
     LabelStep, OneLabelStep DEF IInv
<1> QED
  BY <1>1, <1>2, PTL DEF Spec

\* Type correctness of the workflow's state and of GitLab's.
THEOREM TypeCorrect == Spec => []TypeOK
  BY Invariance, PTL DEF IInv

\* The PipelineStage search attribute always names what the workflow does.
THEOREM StageAlwaysTruthful == Spec => []StageIsTruthful
  BY Invariance, PTL DEF IInv

\* As long as no call fails, the issue bears one workflow label, the right one.
THEOREM OneLabel == Spec => []OneLabelWithoutFaults
  BY Invariance, PTL DEF IInv

\* No issue is closed whose merge GitLab has not accepted, merged or queued.
THEOREM ClosedOnlyIfAccepted == Spec => []ClosedImpliesAccepted
<1>1. IInv => ClosedImpliesAccepted
  BY DEF IInv, MergeOK, ClosedImpliesAccepted
<1> QED
  BY Invariance, <1>1, PTL

\* The merge metric never reports a success that GitLab has not accepted.
THEOREM MetricNeverLies == Spec => []MetricSuccessIsTrue
<1>1. IInv => MetricSuccessIsTrue
  BY DEF IInv, MergeOK, MetricSuccessIsTrue
<1> QED
  BY Invariance, <1>1, PTL

\* With HUMAN_IN_THE_LOOP nothing is merged or queued without an approve-merge signal,
\* attempts that outlive their caller included.
THEOREM NoUnapprovedMerge == Spec => []SupervisedMergeIsApproved
<1>1. IInv => SupervisedMergeIsApproved
  BY DEF IInv, ApprovalOK, SupervisedMergeIsApproved
<1> QED
  BY Invariance, <1>1, PTL

\* A resume signal sent before a suspension began does not end it.
THEOREM StaleResumesAreIgnored == Spec => NoStaleResume
<1>1. IInv /\ [Next]_vars => [await = "resume" /\ await' # "resume" => answered]_vars
  <2> SUFFICES ASSUME IInv, Next, await = "resume", await' # "resume"
               PROVE  answered
    OBVIOUS
  <2>1. resumeCount >= expectedResume
    BY DEF IInv, PlaceOK, WaitAwaits, LabelSteps, AddedLabel, Ended, Next, Progress,
       Environment, AnswerSuspension, StrayResume, CiReport, CiRelaunch, Approve,
       LateMerge, QueueMerges, Labelling, StartAgent, AwaitCi, StartCorrection,
       AwaitApproval,
       AgentReturn, DevReturns, ReviewReturns, FixReturns, AnalysisReturns,
       CorrectionReturns, MergeReturns, MergeFails, Suspension, NotifyLabel,
       NotifyComment, WakeUp, RestoreLabel, Waiting, WaitTimeout, TimeoutComment,
       CiResult, Approved, Ending, LogMetric, CloseIssue, Failure,
       ApplyLabelFails, DevOrFixFails, OtherAgentFails, LastCallsFail
  <2> QED
    BY <2>1 DEF IInv, TypeOK, CounterType, ResumeOK, SuspensionAwaits
<1> QED
  BY Invariance, <1>1, PTL DEF Spec, NoStaleResume

\* While the workflow runs, its phase is not "over".
LEMMA PhaseWhileRunning == IInv /\ Running => Phase # "over"
  BY DEF IInv, TypeOK, PlaceType, Steps, LabelSteps, AddedLabel, StageValue, Ended,
     Running, Phase, PhaseOf

\* An approve-merge signal is an approval of the lifecycle, whatever the
\* workflow is doing when it arrives.
LEMMA ApproveRefines == IInv /\ Approve => Lifecycle!Approve
<1> SUFFICES ASSUME IInv, Approve PROVE Lifecycle!Approve
  OBVIOUS
<1>1. /\ Running
      /\ UNCHANGED <<step, stage, config, scanSince, mr, issue>>
      /\ approvalSent' = TRUE
  BY DEF Approve
<1>2. UNCHANGED Phase
  BY <1>1 DEF Phase, Running
<1> QED
  BY PhaseWhileRunning, <1>1, <1>2 DEF Lifecycle!Approve

\* The workflow implements IssueLifecycle: its phases follow one another as
\* promised, and every label change, timer, signal and retry is a step of
\* that specification or changes nothing in it.
THEOREM Refinement == Spec => ImplementsLifecycle
<1>1. Init => Lifecycle!Init
  <2> SUFFICES ASSUME Init PROVE Lifecycle!Init
    OBVIOUS
  <2>1. config.hitl \in BOOLEAN
    BY ConfigsAssumption DEF Init
  <2> QED
    BY <2>1 DEF Init, Lifecycle!Init, Phase, PhaseOf, Running, Ended, None
<1>2. IInv /\ [Next]_vars => [Lifecycle!Next]_(Lifecycle!vars)
  <2> SUFFICES ASSUME IInv, [Next]_vars
               PROVE  Lifecycle!Next \/ UNCHANGED Lifecycle!vars
    OBVIOUS
  <2> USE DEF IInv, TypeOK, PlaceType, PlaceOK, Steps, LabelSteps, AddedLabel,
       AgentSteps, StageValue, Ended, AgentOf, SuspensionAwaits, WaitAwaits,
       StageIsTruthful, ExpectedStage, Running, MergeOK, MergeSteps, Phase,
       PhaseOf, None
  <2>1. CASE AnswerSuspension
    BY <2>1 DEF AnswerSuspension, Lifecycle!vars
  <2>2. CASE StrayResume
    BY <2>2 DEF StrayResume, Lifecycle!vars
  <2>3. CASE CiReport
    BY <2>3 DEF CiReport, Lifecycle!Next, Lifecycle!Scan, Lifecycle!vars
  <2>4. CASE CiRelaunch
    BY <2>4 DEF CiRelaunch, Lifecycle!Next, Lifecycle!Scan, Lifecycle!vars
  <2>5. CASE Approve
    BY ApproveRefines, <2>5 DEF Lifecycle!Next
  <2>6. CASE LateMerge
    BY <2>6 DEF LateMerge, Lifecycle!Next, Lifecycle!Merge, Lifecycle!vars
  <2>7. CASE StartAgent
    BY <2>7 DEF StartAgent, Lifecycle!vars
  <2>8. CASE AwaitCi
    BY <2>8 DEF AwaitCi, Lifecycle!vars
  <2>9. CASE StartCorrection
    BY <2>9 DEF StartCorrection, Lifecycle!Next, Lifecycle!Advance,
         Lifecycle!Order, Lifecycle!vars
  <2>10. CASE AwaitApproval
    BY <2>10 DEF AwaitApproval, Lifecycle!vars
  <2>11. CASE DevReturns
    BY <2>11 DEF DevReturns, Lifecycle!Next, Lifecycle!Advance,
         Lifecycle!Order
  <2>12. CASE ReviewReturns
    BY <2>12 DEF ReviewReturns, Lifecycle!Next, Lifecycle!Advance,
         Lifecycle!Order
  <2>13. CASE FixReturns
    BY <2>13 DEF FixReturns, Lifecycle!Next, Lifecycle!Advance,
         Lifecycle!Pause, Lifecycle!Order
  <2>14. CASE AnalysisReturns
    BY <2>14 DEF AnalysisReturns, Lifecycle!Next, Lifecycle!Advance,
         Lifecycle!Order
  <2>15. CASE CorrectionReturns
    BY <2>15 DEF CorrectionReturns, Lifecycle!Next, Lifecycle!Advance,
         Lifecycle!Order
  <2>16. CASE MergeReturns
    BY <2>16 DEF MergeReturns, Lifecycle!Next, Lifecycle!Merge, Lifecycle!vars
  <2>17. CASE MergeFails
    BY <2>17 DEF MergeFails, MergeRefused, MergeLost, Lifecycle!Next,
         Lifecycle!Pause, Lifecycle!Merge, Lifecycle!vars
  <2>18. CASE NotifyLabel
    BY <2>18 DEF NotifyLabel, Lifecycle!vars
  <2>19. CASE NotifyComment
    BY <2>19 DEF NotifyComment, Lifecycle!vars
  <2>20. CASE WakeUp
    BY <2>20 DEF WakeUp, Lifecycle!Next, Lifecycle!Resume
  <2>21. CASE RestoreLabel
    BY <2>21 DEF RestoreLabel, Lifecycle!Next, Lifecycle!Advance,
         Lifecycle!Order, Lifecycle!vars
  <2>22. CASE WaitTimeout
    BY <2>22 DEF WaitTimeout, Lifecycle!vars
  <2>23. CASE TimeoutComment
    BY <2>23 DEF TimeoutComment, Lifecycle!Next, Lifecycle!GiveUp,
         Lifecycle!vars
  <2>24. CASE CiResult
    BY <2>24 DEF CiResult, CiOK, Lifecycle!Next, Lifecycle!Advance,
         Lifecycle!Pause, Lifecycle!Order
  <2>25. CASE Approved
    BY <2>25 DEF Approved, ApprovalOK, Lifecycle!Next, Lifecycle!Advance,
         Lifecycle!Order
  <2>26. CASE LogMetric
    BY <2>26 DEF LogMetric, Lifecycle!Next, Lifecycle!GiveUp, Lifecycle!vars
  <2>27. CASE CloseIssue
    BY <2>27 DEF CloseIssue, Lifecycle!Next, Lifecycle!Close
  <2>28. CASE ApplyLabelFails
    BY <2>28 DEF ApplyLabelFails, Lifecycle!Next, Lifecycle!GiveUp
  <2>29. CASE DevOrFixFails
    BY <2>29 DEF DevOrFixFails, Lifecycle!Next, Lifecycle!Pause
  <2>30. CASE OtherAgentFails
    BY <2>30 DEF OtherAgentFails, Lifecycle!Next, Lifecycle!Pause
  <2>31. CASE LastCallsFail
    BY <2>31 DEF LastCallsFail, Lifecycle!Next, Lifecycle!GiveUp
  <2>32. CASE UNCHANGED vars
    BY <2>32 DEF vars, Lifecycle!vars
  <2>33. CASE QueueMerges
    BY <2>33 DEF QueueMerges, Lifecycle!vars
  <2> QED
    BY <2>1, <2>2, <2>3, <2>4, <2>5, <2>6, <2>7, <2>8, <2>9, <2>10, <2>11,
         <2>12, <2>13, <2>14, <2>15, <2>16, <2>17, <2>18, <2>19, <2>20, <2>21,
         <2>22, <2>23, <2>24, <2>25, <2>26, <2>27, <2>28, <2>29, <2>30, <2>31,
         <2>32, <2>33 DEF Next, Progress, Environment, Labelling, AgentReturn,
         Suspension, Waiting, Ending, Failure
<1> QED
  BY <1>1, <1>2, Invariance, PTL DEF Spec, ImplementsLifecycle, Lifecycle!Spec
=============================================================================
