------------------------------ MODULE DevAgent ------------------------------
(***************************************************************************)
(* The dev stage of the pipeline: the attempts Temporal makes of           *)
(* runDevAgent.  All attempts of one workflow run, those after a resume    *)
(* included, share one directory of the worker, /tmp/factory/<runId>, and  *)
(* one branch of the project.  An attempt that has stopped sending         *)
(* heartbeats is given up and followed by another, but goes on running:    *)
(* the code heartbeats in runAgentLoop only.                               *)
(***************************************************************************)
EXTENDS Naturals, Sequences, SequencesExt

CONSTANTS
  MaxAttempts,  \* bound: attempts of the whole dev stage, resumes included
  MaxTries,     \* attempts Temporal makes before the stage is suspended
  MaxFixes,     \* fixes an attempt asks for before it gives up
  MaxMishaps    \* bound: calls that fail, heartbeats missed, worker crashes,
                \* and turns the model ends on code that does not pass

ASSUME BoundsAssumption ==
  /\ MaxAttempts \in Nat /\ MaxTries \in Nat \ {0} /\ MaxFixes \in Nat \ {0}
  /\ MaxMishaps \in Nat

Attempts == 1..MaxAttempts

VARIABLES
  turn,       \* what Temporal does: "wait", "run", "suspended" or "delivered"
  started,    \* the attempts started so far; the last one is the one that counts
  tries,      \* those since the stage was entered or resumed
  pc,         \* where each attempt is
  rounds,     \* fixes each attempt has asked for in verifyImplementation
  outcome,    \* how each attempt ends: "ok", "retry" or "final"
  dir,        \* the directory: "absent", "bare" (no repository in it) or "repo"
  branch,     \* is the feature branch checked out
  head,       \* the commits on top of main, named by the attempt that made them
  dirty,      \* are there changes to commit
  passing,    \* do tsc and lint accept the files
  published,  \* does GitLab have the feature branch
  remote,     \* its commits on top of main
  mr,         \* is there a merge request for it
  flawed,     \* the commits tsc or lint would refuse
  overlapped, \* have two attempts ever been running at once
  mishaps

workspace == <<dir, branch, head, dirty, passing>>
temporal  == <<turn, started, tries>>
gitlab    == <<published, remote, mr>>
history   == <<flawed, overlapped>>
vars == <<temporal, pc, rounds, outcome, workspace, gitlab, history, mishaps>>

Stopped == {"none", "done"}
Running == {a \in Attempts : pc[a] \notin Stopped}

Init ==
  /\ turn = "wait" /\ started = 0 /\ tries = 0
  /\ pc = [a \in Attempts |-> "none"]
  /\ rounds = [a \in Attempts |-> 0]
  /\ outcome = [a \in Attempts |-> "ok"]
  /\ dir = "absent" /\ branch = FALSE /\ head = <<>> /\ dirty = FALSE /\ passing = TRUE
  /\ published = FALSE /\ remote = <<>> /\ mr = FALSE
  /\ flawed = {} /\ overlapped = FALSE
  /\ mishaps = 0

----------------------------------------------------------------------------
(* Temporal *)

Mishap == mishaps < MaxMishaps /\ mishaps' = mishaps + 1

\* The state of the stage once the attempt that counts has ended with result o.
Settled(o) ==
  CASE o = "ok" -> "delivered"
    [] o = "retry" /\ tries < MaxTries -> "wait"
    [] OTHER -> "suspended"

StartAttempt ==
  /\ turn = "wait" /\ started < MaxAttempts
  /\ turn' = "run" /\ started' = started + 1 /\ tries' = tries + 1
  /\ pc' = [pc EXCEPT ![started + 1] = "setup"]
  /\ overlapped' = (overlapped \/ Running # {})
  /\ UNCHANGED <<rounds, outcome, workspace, gitlab, flawed, mishaps>>

\* A person answers the suspension: the workflow runs the activity again.
Resume ==
  /\ turn = "suspended" /\ started < MaxAttempts
  /\ turn' = "wait" /\ tries' = 0
  /\ UNCHANGED <<started, pc, rounds, outcome, workspace, gitlab, history, mishaps>>

\* No heartbeat for heartbeatTimeout: the attempt no longer counts, and goes on.
HeartbeatTimeout ==
  /\ turn = "run" /\ started \in Running
  /\ Mishap
  /\ turn' = Settled("retry")
  /\ UNCHANGED <<started, tries, pc, rounds, outcome, workspace, gitlab, history>>

\* Mutant of Removed: the finally block leaves the directory.
RemovedNever == UNCHANGED workspace

\* rm -r of the directory.
Removed ==
  dir' = "absent" /\ branch' = FALSE /\ head' = <<>> /\ dirty' = FALSE /\ passing' = TRUE

\* The worker's process dies with every attempt in it: no finally block runs.
\* The directory stays if the container does; a clone may be left half made.
Crash ==
  /\ Running # {}
  /\ Mishap
  /\ pc' = [a \in Attempts |-> IF a \in Running THEN "done" ELSE pc[a]]
  /\ rounds' = [a \in Attempts |-> 0] /\ outcome' = [a \in Attempts |-> "ok"]
  /\ turn' = IF turn = "run" THEN Settled("retry") ELSE turn
  /\ \/ UNCHANGED workspace
     \/ Removed
     \/ /\ dir = "absent" /\ dir' = "bare" /\ \E a \in Running : pc[a] = "setup"
        /\ UNCHANGED <<branch, head, dirty, passing>>
  /\ UNCHANGED <<started, tries, gitlab, history>>

----------------------------------------------------------------------------
(* An attempt *)

GoTo(a, place) ==
  pc' = [pc EXCEPT ![a] = place] /\ UNCHANGED outcome

\* The places in setupWorkspace: before and after the clone.
InSetup == {"setup", "read"}

\* Mutant of Throw: the finally block swallows the exception.
ThrowSwallowed(a, kind) ==
  /\ pc' = [pc EXCEPT ![a] = IF pc[a] \in InSetup THEN "report" ELSE "cleanup"]
  /\ UNCHANGED outcome

\* An exception goes through the finally block, which removes the directory
\* only if setupWorkspace had returned.
Throw(a, kind) ==
  /\ pc' = [pc EXCEPT ![a] = IF pc[a] \in InSetup THEN "report" ELSE "cleanup"]
  /\ outcome' = [outcome EXCEPT ![a] = kind]

\* Errors that end the stage at once, by where they are thrown: a 4xx from
\* GitLab or an error of a tool, a missing key, MaxIterationsError.
FinalAt == {"setup", "read", "plan", "implement", "fix", "open_mr"}

\* execBash never throws, so a check does not either.
MayThrow ==
  InSetup \cup {"branch", "plan", "implement", "fix", "commit", "push", "open_mr"}

CallFails(a) ==
  /\ pc[a] \in MayThrow
  /\ Mishap
  /\ \E kind \in {"retry", "final"} :
       /\ kind = "final" => pc[a] \in FinalAt
       /\ Throw(a, kind)
  /\ UNCHANGED <<temporal, rounds, workspace, gitlab, history>>

\* git clone --depth=1 gives main alone.
Cloned == <<>>

\* A directory that is there, whatever is in it, is not cloned again.
SetupWorkspace(a) ==
  /\ pc[a] = "setup"
  /\ IF dir = "absent"
     THEN /\ dir' = "repo" /\ branch' = FALSE /\ head' = Cloned
          /\ dirty' = FALSE /\ passing' = TRUE
     ELSE UNCHANGED workspace
  /\ GoTo(a, "read")
  /\ UNCHANGED <<temporal, rounds, gitlab, history, mishaps>>

\* The issue is read after the clone: a failure here leaves the directory.
ReadIssue(a) ==
  /\ pc[a] = "read"
  /\ GoTo(a, "branch")
  /\ UNCHANGED <<temporal, rounds, workspace, gitlab, history, mishaps>>

\* The branch is looked for in the clone, not at GitLab.
CheckoutBranch(a) ==
  /\ pc[a] = "branch"
  /\ IF dir = "repo"
     THEN branch' = TRUE /\ GoTo(a, "plan")
     ELSE Throw(a, "retry") /\ UNCHANGED branch
  /\ UNCHANGED <<temporal, rounds, dir, head, dirty, passing, gitlab, history, mishaps>>

\* generatePlan, critiquePlan, and revisePlan, which files backlog issues and
\* swallows their errors: nothing later looks at those.
Plan(a) ==
  /\ pc[a] = "plan"
  /\ GoTo(a, "implement")
  /\ UNCHANGED <<temporal, rounds, workspace, gitlab, history, mishaps>>

\* What the tools may leave of the directory: where it is gone, writing a file
\* makes it anew, without a repository.
Worked ==
  IF dir = "repo"
  THEN /\ dir' = dir /\ dirty' \in BOOLEAN /\ passing' \in BOOLEAN
       /\ dirty => dirty'
  ELSE /\ dir' \in {dir, "bare"} /\ UNCHANGED <<dirty, passing>>

\* Code that does not pass, or no code at all, is a flaw of the model's turn.
Flawed == dir' = "repo" /\ (~passing' \/ (~dirty' /\ head = <<>>))

\* Mutant of RoundsLeft: fixes are asked for as long as the check fails.
Unlimited(a) == TRUE

\* The last fix is never checked.
RoundsLeft(a) == rounds[a] + 1 < MaxFixes

\* A run of runAgentLoop: the implementation, or a fix of what did not pass.
AgentTurn(a) ==
  /\ Worked
  /\ IF Flawed THEN Mishap ELSE UNCHANGED mishaps
  /\ \/ pc[a] = "implement" /\ GoTo(a, "check") /\ UNCHANGED rounds
     \/ /\ pc[a] = "fix"
        /\ rounds' = [rounds EXCEPT ![a] = @ + 1]
        /\ IF RoundsLeft(a) THEN GoTo(a, "check") ELSE Throw(a, "final")
  /\ UNCHANGED <<temporal, branch, head, gitlab, history>>

\* Mutant of Passes: the results of tsc and lint are not looked at.
PassesUnread == TRUE

\* Without the repository's files neither tsc nor lint succeeds.
Passes == dir = "repo" /\ passing

Verify(a) ==
  /\ pc[a] = "check"
  /\ GoTo(a, IF Passes THEN "commit" ELSE "fix")
  /\ UNCHANGED <<temporal, rounds, workspace, gitlab, history, mishaps>>

\* git config, add, status and commit.  Nothing to commit is a final error;
\* so is a directory that goes away before git status.
Commit(a) ==
  /\ pc[a] = "commit"
  /\ IF dir = "repo" /\ branch /\ dirty
     THEN /\ head' = Append(head, a) /\ dirty' = FALSE
          /\ flawed' = IF passing THEN flawed ELSE flawed \cup {a}
          /\ GoTo(a, "push")
     ELSE /\ \E kind \in {"retry", "final"} :
               /\ dir = "repo" => kind = "final"
               /\ Throw(a, kind)
          /\ UNCHANGED <<head, dirty, flawed>>
  /\ UNCHANGED <<temporal, rounds, dir, branch, passing, gitlab, overlapped, mishaps>>

\* GitLab accepts a push only if it adds to the branch.
Accepted == published => IsPrefix(remote, head)

Push(a) ==
  /\ pc[a] = "push"
  /\ IF dir = "repo" /\ branch /\ Accepted
     THEN published' = TRUE /\ remote' = head /\ GoTo(a, "open_mr")
     ELSE Throw(a, "retry") /\ UNCHANGED <<published, remote>>
  /\ UNCHANGED <<temporal, rounds, workspace, mr, history, mishaps>>

\* gitlab_create_mr: GitLab refuses a second merge request for the branch.
MrRefused == mr

\* The description is written, then the merge request created.
CreateMergeRequest(a) ==
  /\ pc[a] = "open_mr"
  /\ IF MrRefused
     THEN Throw(a, "final")
     ELSE pc' = [pc EXCEPT ![a] = "cleanup"] /\ outcome' = [outcome EXCEPT ![a] = "ok"]
  /\ mr' = TRUE
  /\ UNCHANGED <<temporal, rounds, workspace, published, remote, history, mishaps>>

\* The merge request is created, but the answer is lost: the connection to
\* mcp-gitlab (tried again), or mcp-gitlab's own request timed out (final).
MrReplyLost(a) ==
  /\ pc[a] = "open_mr" /\ ~mr
  /\ Mishap
  /\ mr' = TRUE
  /\ \E kind \in {"retry", "final"} : Throw(a, kind)
  /\ UNCHANGED <<temporal, rounds, workspace, published, remote, history>>

\* Temporal ignores the answer of an attempt it has given up.
Counts(a) == a = started

\* A rm that fails, which is only logged, has removed nothing, or some files,
\* or the repository with them.
HalfRemoved ==
  \/ UNCHANGED workspace
  \/ /\ dir = "repo" /\ dirty' = TRUE /\ passing' \in BOOLEAN
     /\ UNCHANGED <<dir, branch, head>>
  \/ dir' = "bare" /\ branch' = FALSE /\ head' = <<>> /\ dirty' = FALSE /\ passing' = TRUE

\* The end of the finally block, which removes the directory, whoever is
\* working in it, and the answer to Temporal.
CleanUp(a) ==
  /\ pc[a] \in {"cleanup", "report"}
  /\ pc' = [pc EXCEPT ![a] = "done"]
  /\ rounds' = [rounds EXCEPT ![a] = 0] /\ outcome' = [outcome EXCEPT ![a] = "ok"]
  /\ \/ pc[a] = "cleanup" /\ Removed /\ UNCHANGED mishaps
     \/ pc[a] = "cleanup" /\ dir # "absent" /\ Mishap /\ HalfRemoved
     \/ pc[a] = "report" /\ UNCHANGED <<workspace, mishaps>>
  /\ turn' = IF Counts(a) /\ turn = "run" THEN Settled(outcome[a]) ELSE turn
  /\ UNCHANGED <<started, tries, gitlab, history>>

Step(a) ==
  \/ SetupWorkspace(a) \/ ReadIssue(a) \/ CheckoutBranch(a) \/ Plan(a) \/ AgentTurn(a)
  \/ Verify(a) \/ Commit(a) \/ Push(a) \/ CreateMergeRequest(a)
  \/ CleanUp(a)

Next ==
  \/ StartAttempt \/ Resume \/ HeartbeatTimeout \/ Crash
  \/ \E a \in Attempts : Step(a) \/ CallFails(a) \/ MrReplyLost(a)

Spec == Init /\ [][Next]_vars

\* Temporal starts the attempts it owes, a person answers each suspension, and
\* every attempt goes on: its HTTP requests and shell commands have time limits;
\* git clone, add, commit and push have none and are assumed to end.
FairSpec ==
  /\ Spec
  /\ WF_vars(StartAttempt) /\ WF_vars(Resume)
  /\ \A a \in Attempts : WF_vars(Step(a))

----------------------------------------------------------------------------
(* Properties *)

Places == Stopped \cup MayThrow \cup {"check", "cleanup", "report"}

\* Every variable keeps its type.
TypeOK ==
  /\ turn \in {"wait", "run", "suspended", "delivered"}
  /\ started \in 0..MaxAttempts /\ tries \in 0..MaxTries
  /\ pc \in [Attempts -> Places]
  /\ rounds \in [Attempts -> 0..MaxFixes]
  /\ outcome \in [Attempts -> {"ok", "retry", "final"}]
  /\ dir \in {"absent", "bare", "repo"} /\ branch \in BOOLEAN
  /\ head \in Seq(Attempts)
  /\ dirty \in BOOLEAN /\ passing \in BOOLEAN
  /\ published \in BOOLEAN /\ remote \in Seq(Attempts) /\ mr \in BOOLEAN
  /\ flawed \in SUBSET Attempts /\ overlapped \in BOOLEAN
  /\ mishaps \in 0..MaxMishaps

\* Only verified code is pushed, whatever failed, crashed or was tried again
\* in a directory left by another attempt: only an attempt still running
\* beside the next one, in the same directory, can slip other code in between
\* verifyImplementation and the commit.
PushedIsVerified == ~overlapped => Range(remote) \cap flawed = {}

\* The merge request handed to the workflow is that of a branch which ends
\* with the commit of the attempt that handed it, unless two attempts ran at
\* once in the directory: then its branch may end with another's commit, or
\* have none.
DeliveredIsTheLastAttempt ==
  turn = "delivered" /\ ~overlapped =>
    mr /\ remote # <<>> /\ Last(remote) = started

\* Every other failure is made good by the retries and the resumes: a crash
\* between commit and push, a half made clone, a directory removed by an
\* attempt given up all end in a merge request handed to the workflow, unless
\* the attempt that pushed did not deliver.
RecoversUnlessPushed == <>(turn = "delivered" \/ (published /\ turn # "run"))

\* The suspension comment says that a resume runs the stage again; so a stage
\* resumed with nothing left in the directory is suspended again only if
\* something new fails, as long as attempts do not run at once.
Resumed == turn = "wait" /\ tries = 0 /\ started > 0 /\ dir = "absent"

ResumedStageFailsOnlyOnNewFault ==
  \A n \in 0..MaxMishaps :
    [](Resumed /\ mishaps = n => [](turn = "suspended" => mishaps > n \/ overlapped))
=============================================================================
