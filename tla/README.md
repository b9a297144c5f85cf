# Formal model of the software factory

The repository is a "software factory": a GitLab issue is handed to a Temporal
workflow, which runs a chain of LLM agents (dev, review, fix, static analysis,
correction, verify-and-merge), follows CI and human signals, labels the issue
with its progress, and merges and closes. A portal (Nuxt) lets people qualify
needs in a chat, submit issues and index projects for retrieval. MCP servers
wrap GitLab, SonarQube and Temporal as tools.

This directory holds TLA+ modules for the parts of it where steps interleave,
fail, repeat or arrive late; TLC configurations; and TLAPS proofs.

## 1. Inventory

| Component | State it keeps | Operations | What is hard |
|---|---|---|---|
| **Pipeline workflow** `workers/pipeline/src/workflow.ts` | current label, resume count, last scan and its version, review-fix and merge signals, `PipelineStage` attribute | the main line of awaits, `withSuspendOnFailure`, four signal handlers plus `approve-merge` | signals between any two awaits; suspensions nested in waits; unprotected calls that end the workflow |
| **GitLab label activities** `activities/gitlab.ts` | the issue's labels, state | add/remove label, comment, close | lost replies, calls that fail for good |
| **CI webhook** `webhook.ts` | none | pipeline event to signal | events at any time, for any branch run; routed by issue number only |
| **Alerting** `alerting.ts` | set of alerted workflow ids | periodic check | a set keyed by workflow, not run; a check overlapping a restart |
| **Dev agent** `workers/agents` | one directory per run, the remote branch, the merge request | plan, critique, implement, verify, push, open MR | attempts repeated after a push; an attempt given up that goes on in the directory of the next; directories left by a crash |
| **Review agent** `workers/review-worker` | MR comments, backlog issues | review, publish | comments posted twice by a retried attempt |
| **Review-fix agent** `workers/review-fix-worker` | commits on the branch, backlog, signal | file moderate notes, fix each blocking note, signal `success` or `partial` | failure midway, lost or stale signal, whole files rewritten from old copies |
| **Static analysis agents** `workers/static-analysis-worker` | Sonar issues, backlog, MR | classify, create backlog, correct, verify and merge | stale analysis, duplicate backlog, merge whose reply is lost, late attempts |
| **mcp-temporal** | none (Temporal's) | trigger a pipeline, signal, query | check-then-start, beside other requests and persons; the label left by a failed run |
| **mcp-gitlab** | none (GitLab's) | one request per tool | its HTTP client repeats POSTs; pages of 100 |
| **Indexer** `apps/server/utils/indexer` | the `embeddings` table | index files, index issues | no lock between requests, no transaction per file |
| **Chat and submission** `chat.vue`, `apps/server/api` | the page's `messages`, `isStreaming`, `isSubmitting`, `isReindexing`, `epicData`, `submitResult`; the server none | stream a model's answer; create an epic and its issues; reindex | cut streams, superseded proposals, partial creation, resubmission |
| Other pages, auth, CSRF, prompts, evaluation, infrastructure | none of their own beyond a request | | not modelled |

How they interact: `trigger` (mcp-temporal) starts the workflow, Temporal runs
its activities on the agents' task queues, the agents call GitLab and Sonar
through MCP and send `review-fix-completed` and `verify-and-merge-completed`
back through mcp-temporal; the webhook turns CI events into
`sonarqube-scan-completed`; humans send `resume` and `approve-merge`;
alerting reads `PipelineStage`. The portal shares only GitLab with the pipeline.

What makes each correct: the workflow resumes only for an answer to *this*
suspension, merges only what was approved and green, closes only what GitLab accepted to
merge, never misses a signal it waits for, and shows the stage it is really in; agents
leave the same result when an attempt is repeated as when it is not; the trigger
starts at most one pipeline per issue; the index ends as the project is; a
submission creates each issue once.

## 2. Modules

| Module | What it is |
|---|---|
| `IssueLifecycle` | What the pipeline promises about one issue: phases in order, pauses, green CI, approval, merge, close. No labels, counters, signals or timers. |
| `PipelineWorkflow` | The workflow, its signals, the issue's labels and the merge, each await an action. Implements `IssueLifecycle`. |
| `PipelineWorkflowProofs` | Inductive invariant, safety theorems, refinement. |
| `MCPipelineWorkflow` | TLC instance: supervised or not, with comments or not. |
| `Indexer` | Indexing requests over the `embeddings` table, for files or for issues. |
| `IndexerProofs` | Inductive invariant, wholeness, exactness of undisturbed runs. |
| `MCIndexer` | TLC instance: two documents, texts of zero, one or two chunks. |
| `DevAgent` | The attempts of the dev stage over one directory, one branch and one merge request. |
| `DevStage` | What the dev stage promises the workflow that waits for it: tries, a suspension, a branch, a merge request, a return. |
| `DevAgentProofs` | What is pushed and delivered; that after a marooned push nothing is delivered; that the attempts implement `DevStage`. |
| `MergeRequestAgents` | Review, review-fix, static analysis, correction and verification over the notes, the backlog, the branch and the analysis they share. |
| `MergeRequestAgentsProofs` | Types, a person's commits, the blocking comments. |
| `ReviewCommentsProofs` | What becomes of each comment: fixes counted, backlog issues reached and not repeated. |
| `MCMergeRequestAgents` | TLC instance: one file, two blocking comments (one file-level), one moderate, one smell, one issue. |
| `Alerting` | The monitor of blocked pipelines, over the runs of workflow ids. |
| `Intake` | Extends `Alerting` with the trigger, pipelines seen from outside and persons who edit issues, over several issues and projects. |
| `IntakeProofs` | Types, one alert a run, no id remembered unheard, clean starts. |
| `MCIntake` | TLC instance: three issues, two of which share a number. |
| `Qualification` | The chat page, the stream it reads and the submissions it asks for. |
| `QualificationProofs` | Types, complete submissions, valid histories, no superseded epic, no duplicate without an error. |

How they compose. `PipelineWorkflow` has the whole workflow and one opaque call
per agent; `DevAgent` is what happens inside its dev stage and
`MergeRequestAgents` inside the stages that follow, each with as much of the
workflow as the stage needs (attempts, suspension, resume). `DevStage` is the
seam of the first: what `DevReturns` of `PipelineWorkflow` takes for granted (a
stage that returns has opened its merge request) and `DevAgent` provides. `Intake` is the
world around pipelines, where a run is reduced to the label and the state of
its issue, and is composed with `Alerting`. `Indexer` and `Qualification`
share only GitLab with the others, and none of its objects.

### PipelineWorkflow

Temporal runs workflow code without interruption between two awaits, so an
action is *one await ending*: the outcome of the activity, what it did to
GitLab, and all the code up to the next await. `step` says which `applyLabel`
call, agent or wait the workflow is at and `await` which await of it (`call`;
`timer`, `comment`, `signal` for a `condition` with a timeout; `notify_label`,
`notify_comment`, `resume`, `restore_label` inside a suspension).

| In the code | In the model |
|---|---|
| `currentLabelRef`, `resumeCountRef`, `expectedResume` | `currentLabel`, `resumeCount`, `expectedResume` |
| `sonarqubeScanResult`, `scanResultVersion`, `expectedVersion` | `scan`, `scanVersion`, `expectedVersion` |
| `reviewFixResult`, `verifyAndMergeResult`, `approved` | `reviewFix`, `vmSignal`, `approved` |
| `PipelineStage` search attribute | `stage` |
| signal handlers | `SendResume`, `ReceiveScan`, `Approve`, and the signals sent inside `FixReturns`, `MergeReturns`, `MergeLost`, `LateMerge` |
| `withSuspendOnFailure`, the partial-fix and failed-CI blocks (the same sequence three times) | `Suspend`, `NotifyLabel`, `NotifyComment`, `WakeUp`, `RestoreLabel`, `GoOn` |
| an activity that exhausts its retries | `DevOrFixFails`, `OtherAgentFails`, `MergeFails`; effects of lost attempts stay (`mr`, `reviewFix`, `vmSignal`) |
| an activity abandoned on a timeout but still running | `mergeZombie`, `LateMerge`, `FixReports` |
| a GitLab call that fails although GitLab applied it | `MaybeRelabelled`, `LastCallsFail` |

`answered`, `asked` and `scanSince` are history: has a resume been sent since
the suspension began, has a comment asked for a CI run, the last scan since the
CI stage was entered. What agents decide (blocking comments or not, residual
issues or not) is a free choice. Left out: texts, logging, durations, and which
commit or branch a CI event is about. The webhook makes the workflow id of the
number in the branch's name and the workflow does not look further, so a report
may be of the pipeline's branch, of one a person named after the issue, or of a
project that has an issue of the same number: `CiReport` is any of them.

`mr` is `open`, `queued` or `merged`. `gitlab_merge_mr` succeeds without error
when GitLab accepts the merge and leaves the merge request in another state
(`queued: true`), and the merge agent does not read the answer: a merge call that
is accepted (`MergeAccepted`) makes either, the agent reports success for both,
and GitLab may merge what is queued later (`QueueMerges`), or never. So what the
pipeline guarantees, and `IssueLifecycle` says, is that the merge of a closed
issue was *accepted*; that it was made is `ReportedMergedIsMerged`, which fails.

### Indexer

One action per call a request makes: `Start` (list), `Read`, `Skip`/`Embed`
(the `SELECT … LIMIT 1` and the hash comparison, then the embedding call),
`Delete`, `Insert` (one row), `DeleteOrphans`; `FileGone` and `Fail` end the
request where it stands. `table[p]` counts the rows of each chunk, so duplicate
and mixed rows are visible; `LIMIT 1` without `ORDER BY` may return any row
(`Unchanged`). A row carries the hash of the whole text, which is why a chunk is
a pair of text and number. `source` says whether the requests are over files
or over issues: an issue's text comes with the listing, as `listOpenIssues` does, and
is one chunk (`Contents`). The listing is one step: a file that moves
between two directories while they are walked is not distinguished from an edit
just before or just after. Every chunk has its row: the code skips a chunk for
which `embedText` gave no vector, which it does only if the API answers fewer
vectors than texts. `torn` and `clean` are history: which paths had an
accident between first and last insert, and which requests ran alone over an
unchanged project.

### DevAgent

Every attempt of one workflow run, those after a resume included, works in
`/tmp/factory/<runId>`. An attempt is a small program: an action is one `await`
of `runDevAgent`, of the helpers it calls and of `verifyImplementation`.

| In the code | In the model |
|---|---|
| Temporal's attempts, the suspension around them | `turn`, `started`, `tries`; `StartAttempt`, `Resume`, `Settled` |
| `setupWorkspace`, `git checkout -b` | `SetupWorkspace` (clones only if the directory is not there), `ReadIssue`, `CheckoutBranch` |
| `generatePlan`, `critiquePlan`, `revisePlan` | `Plan` |
| `runAgentLoop`, for the implementation or a fix | `AgentTurn`: any change of the files; code that does not pass costs a mishap |
| `verifyImplementation` | `Verify`, `rounds`, `RoundsLeft` |
| commit, push, `gitlab_create_mr` | `Commit`, `Push`, `CreateMergeRequest`, `MrReplyLost` |
| the `finally` block | `CleanUp`: it removes the directory whoever works in it, or fails to, which is only logged (`HalfRemoved`) |
| a heartbeat missed; a worker that dies | `HeartbeatTimeout` (the attempt goes on), `Crash` |
| an exception, retryable or not | `CallFails`, `Throw`, `FinalAt` |

`flawed` and `overlapped` are history. The text of the code is one bit,
`passing`; a commit is the number of the attempt that made it. `/tmp/factory`
may outlive its container or not: after a crash the directory is as it was,
gone, or half a clone. The directory and the branch are touched by every attempt
that runs, which is the hazard: heartbeats are sent only inside the agent loop.

### MergeRequestAgents

| In the code | In the model |
|---|---|
| the stages of the workflow, its suspensions, `reviewOutput`, `staticResult`, `reviewFixResult` | `stage`, `mode`, `tries`, `reviewed`, `hasBlocking`, `signal` |
| one attempt of an activity: its loop variables and what it has read | `act["counted"]`; `act["late"]` is one given up that still runs |
| `reviewCode`: inline comments, summary, backlog | `Review`, `PostInlineComment`, `PostSummary`, `FileIssue`, `EndReview` |
| `createBacklogIssues` of three agents | `ReadTitles`, `FileIssue`, `Known` |
| `fixCode` | `ReadModerateNotes`, `ReadBlockingNotes`, `SkipComment`, `ReadFile`, `CommitFix`, `NoFix`, `EndFix`, `NoBlockingNote` |
| `runStaticAnalysis`, `fixStaticIssues`, `verifyAndMerge` | `ReadAnalysis`, `EndStatic`; `ReadBlockingIssues`, `ReadFile`, `CommitStaticFix`, `NoFix`, `EndCorrect`; `Verify`, `Merge` |
| the commit made without an answer, and sent again after a 5xx | `CommitUnanswered`, `CommitAgain` (`resend`), for the fix and for the correction |
| the POST of a note or an issue, repeated by `axios-retry` or applied without an answer | `Post(copies)`, `copies` in 0..2 |
| people | `PersonCommits`, `PersonComments`, `Resume` |
| SonarQube after a CI run | `Analyse`; `CiPasses` may report an older commit |

A file is the set of fixes it holds, plus `"human"`: agents read a file whole
and write it whole, so a commit replaces it by the copy read and one more fix.
`Work` is everything an agent can have left to do, counted because a comment may
have several notes. The merge with its lost replies and late attempts is in
`PipelineWorkflow`. `reviews`, `doubled`, `refused`, `unposted`, `fixRuns`,
`fixes`, `repeated`, `asked`, `silent`, `overlapped` and `raced` are history: they name the
exceptions of the properties. At most one attempt given up runs at a time.

### Alerting and Intake

`Alerting` is `createAlertingMonitor`: `Check` lists and purges, `Alert` is one
turn of its loop, `CheckEnds` re-arms the timer, `CheckFails` and
`WorkerRestarts` are what goes wrong. `late` stands for `timeoutMs` elapsed; the
pages of the listing are read as one. A run is a pair of id and number, the
alerted Set holds ids.

`Intake` adds `handleTriggerPipeline` in two steps (`Read` the issue, `Start` the
workflow), the pipeline from outside (`ApplyLabel`, `Finish`, `GiveUp`) and
persons, who at any moment take a label off or reopen an issue (`Cleaned`), put a
label on or close one (`Touched`). `twice` and `touched` are history: the issues
for which something came between a read and the start that follows it, another
request or run, or a person. `Guarded` is whether the trigger has GitLab's address
and token: without them it starts unconditionally. The CI webhook is in
`PipelineWorkflow`: it signals an id and changes nothing that the trigger or the
monitor reads.

### Qualification

| In the code | In the model |
|---|---|
| `messages`, `isStreaming`/`isSubmitting`/`isReindexing`, `epicData`, `submitResult` of `chat.vue` | `answers`, `doing`, `epicData`, `result` |
| the handlers of the page | `SendMessage`, `Reindex`, `ReindexEnds`, `SubmitNeed`, `Reload`, with what disables each (`MaySend`, `MaySubmit`, `MayReindex`) |
| the events of `/api/chat`, `sseParser.ts` and the page's `catch` | `TextArrives`, `EpicArrives`, `EpicRendered`, `StreamEnds`, `ErrorArrives`, `StreamFails`, `StreamClosed` |
| `submit.post.ts`, one `jobs` entry per request | `Reject`, `CreateEpic`, `RepeatPost`, `EpicFails`, `CreateIssue`, `RefuseIssue`, `IssueThrows`, `Reply` |
| the page's request failing while the server goes on; mcp-gitlab going on after the server gave up its call | `ReplyLost` |

An answer is the set of what the page looks at: has it text, has it the
validation tag. Messages and proposals share one numbering: a second proposal of one
answer takes the place of the first. A proposal of another shape (`ill`) may make
`renderEpic` throw after its data was sent: the stream then goes on without its
text. `failures`, `doubled` and `mute` are history; errors are counted when the
page shows them.

## 3. Runs

| Run | Shows |
|---|---|
| `pipeline` | All safety properties and `ImplementsLifecycle`, `EventuallyEnds`, `ResumeIsHeard`, `ApprovalIsHeard`; 2 failures, 2 unexpected CI events, 1 stray resume, 6 resumes, 4 configurations. |
| `pipeline_rerun` | **Violated**: CI re-run while suspended is ignored at the resume (`workflow.ts:218`) though the comment at line 239 asks for just that. |
| `pipeline_merge_retry` | **Violated**: a merge whose reply was lost can never be retried: GitLab refuses a merged request, and every resume suspends again. |
| `pipeline_queued` | **Violated**: GitLab queues the merge, the agent reports a merge, the metric says success and the issue is closed with the merge request open. |
| `indexer` | Two simultaneous requests, over files or over issues: `WholeUnlessTorn`, `CleanRunIsExact`, `ReconvergesUnlessTorn`; 1 edit, 1 failure. |
| `indexer_rerun` | **Violated**: `Reconverges` for files: a truncated file is skipped for ever, against the comment at `files.ts:107-111`. |
| `dev_agent` | Verified pushes, the last attempt's delivery and `RecoversUnlessPushed` (everything else recovers); 9 attempts, 2 per resume, 2 fixes, 2 mishaps. |
| `dev_resume` | **Violated**: `ResumedStageFailsOnlyOnNewFault`; an attempt that pushed and then failed makes every resume fail, without a new fault, though the suspension comment asks for a resume to run the stage again; 1 mishap. |
| `mr_agents` | `BlockersFixed`, the backlog (`OneBacklogIssue`, `ModerateReachesBacklog`), `NoRecommitWithoutResume`, `PersonsWorkIsKept`; 2 attempts per stage, 2 mishaps. |
| `mr_stale_verdict` | **Violated**, without any fault: verification gives up over an analysis made before the corrections, though its message says blocking issues persist after the fix. |
| `intake` | `StartsOnCleanIssue`, `AlertedOnce`, `BlockedIsAlerted`; 2 ids, 3 issues, at most 2 requests at once and 2 runs (`Room`: of any two issues or ids together), 1 mishap, persons edit one issue (`Edited`) of the number two share. |
| `qualification` | `DuplicatesNeedFailures`, `SuccessIsComplete`, `HistoryIsValid`, `NoSupersededEpic`; 2 stories, 3 messages, 2 failed submissions, 3 mishaps. |

Why the bounds suffice: every failure point of the pipeline is reached by one
failure, two failures give a suspension within or after another, and a label that
could not be restored followed by further steps; two CI events give an old and a
new scan around any wait; one stray resume can be sent before, or during, any
suspension; six resumes answer every suspension that these can cause. For the
indexer two requests and two documents give every overlap of one document and a
cleanup that hits another's document. The table starts empty and GitLab with any
documents: a first request gives rows of any text, and one edit, during it,
between two requests or during the second, then replaces, blanks, adds or removes
one.

For the dev agent two mishaps are a crash or missed heartbeat within, or after,
the handling of another, and 9 attempts let the liveness property see every retry
and resume that two mishaps can cause, and more: beyond them no attempt fails. Two
attempts per stage and two fixes are the least for which a retry, a resume and a
second check differ. For the merge request, one file with a line-level and a
file-level comment and an issue lets two agents, two attempts of one agent or a
person meet on it; that two line-level comments share a file, too large for this
run, is within the theorem about `BlockersFixed`. A comment's title is cut at 200
characters and a smell's is its rule and file, so two may share one; the titles
already filed are read before the loop that files, and each may then get an issue:
`OneBacklogIssue` is about a comment whose title is its own. Two mishaps suffice
for a request repeated by an attempt already given up, and for a commit whose
answer is lost and which is then sent twice more. For the intake, two issues of
one number and one of another let an id be taken by another project's issue, two
runs an id reused, two requests a race; edits of one issue suffice, since nothing
the trigger does for an issue depends on the state of another. In the chat, three
messages give a proposal, one that supersedes it and one after a failure, and two
failed submissions a resubmission that fails again.

`CHECK_DEADLOCK FALSE` is used where the system really ends or a bound exhausts
it: the pipeline (closed or failed), the dev stage (delivered) and the merge
request (merged or aborted). The indexer, the intake and the chat can always be
asked again and are checked for deadlock.

Fairness. `FairSpec` of the pipeline: Temporal keeps executing a runnable
workflow and each activity has a `startToCloseTimeout`, so every await whose
event has come ends (`WF(Progress)`; failures are never fair); a human answers
each suspension once (`AnswerSuspension`), approves (`Approve`) and relaunches CI
when asked (`CiRelaunch`). Without humans the code waits for ever by design.
`EventuallyEnds` allows one exception, the merge the pipeline does not know of
(`MergedUnknown`), which `pipeline_merge_retry` shows. The indexer's `FairSpec`
says requests go on and are made again, which is what "a re-run reconverges"
supposes. `DevAgent`'s: Temporal starts the attempts it owes, a person answers
each suspension, and every attempt goes on, since its HTTP requests and
shell commands have time limits (git clone, add, commit and push have none, and
are assumed to end); mishaps are never fair, and `RecoversUnlessPushed` holds because they
are finite. `Intake`'s: the monitor's timer is armed again after every check,
failed or not (`alerting.ts:123`, after the `try`), and nothing else is
assumed: pipelines and requests may stop where they are.

## 4. Proofs

For every value of the constants, checked by tlapm.

`PipelineWorkflowProofs`: `Invariance` proves `Spec => []IInv`, from which
`TypeCorrect`, `StageAlwaysTruthful`, `OneLabel`, `ClosedOnlyIfAccepted`,
`MetricNeverLies`, `NoUnapprovedMerge`, `StaleResumesAreIgnored` and `Refinement`
(`ImplementsLifecycle`) follow. None of the properties is inductive alone. `IInv`
adds where the workflow can be (`PlaceOK`: which awaits go with which step), where
a merge can be accepted (`MergeOK`: only from the merge step on, and before
anything says success), where `approved` implies a sent approval
(`ApprovalOK`), that the resume awaited is beyond every resume received before
the suspension (`ResumeOK`), that a scan that counts is one received since the
stage was entered (`CiOK`), and which label each step finds (`LabelOK`). Each
part has a lemma with one step per action. The refinement is proved step by
step, with `IInv` giving the guards of the abstract actions.

`IndexerProofs`: `DocumentsAreWhole` and `CleanRunsAreExact`. `OrderOK` says that
a path out of disorder has either no writer and one text's rows, or one writer
and exactly the prefix of rows it has inserted; `CleanRequest` that a request
alone has every listed document in exactly one of: to do, current, seen (and then
exact), or blank. `InsertNext` (one more row makes the next prefix) is the lemma
about data they rest on.

`DevAgentProofs`: `OnlyVerifiedIsPushed` and `DeliveryIsOfTheLast` come from
`IInv`, with `BoundsOK` (the attempts are started in their order, none has more
fixes than allowed), `VerifiedOK` (an attempt alone is the last started, and at
`commit` only with passing code) and `OwnWorkOK` (from its commit on, the branch
ends with the attempt's commit). `NothingDeliversAgain` says how far the property
that `dev_resume` violates fails: once a push is marooned no attempt is ever
handed to the workflow, a box within a box (`MaroonedIsFinal`): `FirstOK` says
that a branch begins with the commit of an attempt that will not commit again, so
that no later clone can begin with the same one; `Lost`, that the remote branch
begins with a commit the directory does not have and that nothing under way can
deliver it; every later push is then refused. `AttemptsImplementTheStage` is a
refinement: `StageOK` says that a merge request is opened after the push, and that
an attempt ends well only with one, whichever attempts run at once; `GitlabStep`
and `TemporalStep` say what any step does to GitLab's side and to Temporal's, and
`StageSimulation` puts them together.

`MergeRequestAgentsProofs`: `TypeInvariance` needs what an attempt holds to be of
its agent's kind (`ActOK`) and the attempt that counts to be of the stage's agent
(`TriesOK`). `PersonsCommitsAreKept` adds `HandsOK` (a file is in hand only
between reading and rewriting) and `CopiesOK` (an unraced copy in hand knows of a
person's work if the branch does). `BlockersAreFixed` follows one comment through
three agents: `NotedOK` (every comment the review promised has a note, or will),
`LateOK` (before the fix is over, only a review-fix given up can still be
rewriting files), `PartialOK` (a partial fix asked a person), and `FixedOK` (a
comment is still to do, in hand or fixed, where fixed means: in the branch *and in
every copy in hand of its file*, which is why a rewrite by another agent does not
undo it).

`ReviewCommentsProofs` counts. `FixesFollowResumes` rests on `CommitsOK`: the
commits made for a comment, and those the attempt that counts and the one given up
may still make, are at most its notes times the rounds of review-fix that have
*read* them, and the commits that the HTTP client sent again (`repeated`). A round
that has not read yet (`Unread`) is kept out of the product, because it will read
notes posted since. `ModeratesReachTheBacklog` follows a moderate comment through
three lists: it leaves the review's notes with a note, the review's backlog pass
with an issue or a refusal (`TriedOK`), and review-fix's with an issue or a second
refusal (`FiledOK`); `TitlesOK` says that a title taken for known has an issue.
`BacklogHasOneIssue` needs the first review to be alone while it posts
(`AloneOK`), and then adds what is filed and what is left to file, which never
exceeds one (`OnceOK`).

`IntakeProofs`: `RunsAreAlertedOnce` from `AlertsOK` (a run alerted about as often
as it may is remembered while it runs and is in no check), `StartsAreClean` from
`RequestsOK` (an issue asked for once, and that no person has touched since, is
still free), under `Guarded`. `TypesAreKept` adds `RunsOK` (a run that is running has a
number and an issue); `NoneMutedUnheard` that the ids remembered are those of runs
whose webhook was received, the safety half of `BlockedIsAlerted`.

`QualificationProofs`: `Typed` bounds what the page does at once by what each
handler tests; `JobsOK` and `ResultOK` (what a request counts as made is in
GitLab) give `SubmittedIsComplete`; `WaitsOK` (a request waited for is of the
last message's proposal) gives `EpicsAreCurrent`; `HistoryStaysValid` counts the
empty answers, one set at a time, with the library's facts on cardinality.
`DuplicatesAreExcused` gives each part of a proposal (its epic, each story) a
`Budget`: what exists of it, what requests have still to create and what one more
submission would, are together at most one more than the errors and repeated POSTs
of the proposal. A click spends what `Fresh` holds, an error makes the proposal
fresh again and pays for it.

Assumptions: the typing of the constants (`ConfigsAssumption`,
`BoundsAssumption`, `SizeAssumption`, `NothingAssumption`,
`AlertingAssumption`, `IntakeAssumption`, `QualificationAssumption`), that
comments, smells, issues and files are different things (`WorkAssumption`), and
`Guarded` for `StartsAreClean` only. The bounds on failures and signals are
constants, so the theorems hold whatever they are.

Model-checked only: liveness (`EventuallyEnds`, `ResumeIsHeard`,
`ApprovalIsHeard`, `ReconvergesUnlessTorn`, `RecoversUnlessPushed`,
`BlockedIsAlerted`), since fairness and ENABLED are out of the prover's reach.
Every safety property of a passing run is a theorem. `AttemptsImplementTheStage`,
`NothingDeliversAgain` and `NoneMutedUnheard` are proved and in no run; they are
about the specifications of the runs `dev_agent` and `intake`.

## 5. What is left

Worth doing next: `chunkText` as a function against a reference definition (nothing
lost, order kept, size bounded), a matter of data only; the safety halves of the
remaining liveness properties; a refinement of the stages of `MergeRequestAgents`,
like that of the dev stage.

### Not modelled

- What a model answers, prompts, wording, rendering, metrics and log formats.
- The board (`projects/[id]/index.vue`) and the lists of projects: readings of
  GitLab without a state of their own. Reading them showed that the board has no
  column for `workflow::awaiting-ci`, `awaiting-approval`, `merge` and
  `suspended`, and one for `workflow::merged`, which nothing sets; that is layout.
- Sessions, the CSRF check, prompt storage, logging: nothing outlives a request.
- Evaluation scripts, containers and CI files.
- The tools of mcp-gitlab no agent or page calls (milestones, deletions,
  pipelines), JSON-RPC framing, and the retrieval queries, which only read.
- Pages of 100: the notes of a merge request beyond 100 and the entries of a
  directory beyond 100 are never seen by the agents and the indexer. The size is
  beyond any instance; both are listed as hazards without a property.
- An embedding API that answers fewer vectors than it was given texts: the code
  skips the rows without a vector and stores the others under the hash of the whole
  text, with the same result as the failure `indexer_rerun` shows.
- Which branch a CI report is about: the code routes by the issue's number alone.
- The backlog issues the dev agent's critique files, again at each attempt:
  nothing in the stage depends on them.
