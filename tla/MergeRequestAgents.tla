------------------------- MODULE MergeRequestAgents -------------------------
(***************************************************************************)
(* The agents that work on a merge request once it is open: review,        *)
(* review-fix, static analysis, correction of static issues, and the       *)
(* verification that precedes the merge.  They share the notes of the      *)
(* merge request, the backlog, the files of the branch and the analysis    *)
(* SonarQube last made of it.  An agent is an attempt of an activity: one  *)
(* that runs out of time is given up but goes on running, beside the one   *)
(* that follows it; at most one such attempt is modelled at a time.        *)
(***************************************************************************)
EXTENDS Naturals, FiniteSets

CONSTANTS
  Blocking, Moderate,  \* comments a review may make
  FileLevel,           \* those of them that have no line
  Smells,              \* moderate issues SonarQube reports
  Issues,              \* blocking ones it may report
  Files,
  FileOf,              \* the file of a blocking comment or issue
  TitleOf,             \* the title of the backlog issue of a moderate one
  MaxTries,            \* attempts of an activity that is tried again
  MaxMishaps           \* bound: calls that fail or are repeated, attempts out of
                       \* time, commits and notes of persons

Comments == Blocking \cup Moderate
Work     == Comments \cup Smells \cup Files
Titles   == {TitleOf[i] : i \in Moderate \cup Smells}

ASSUME WorkAssumption ==
  /\ FileLevel \subseteq Comments
  /\ FileOf \in [Blocking \cup Issues -> Files]
  /\ DOMAIN TitleOf = Moderate \cup Smells
  /\ Blocking \cap Moderate = {} /\ Comments \cap Smells = {}
  /\ Issues \cap (Comments \cup Smells) = {}
  /\ Files \cap (Comments \cup Smells \cup Issues) = {}
  /\ "human" \notin Blocking \cup Issues
ASSUME BoundsAssumption ==
  MaxTries \in Nat \ {0} /\ MaxMishaps \in Nat

VARIABLES
  stage,        \* the agent the workflow is at, "ci", "merged" or "aborted"
  mode,         \* "run", "suspended", or "partial": suspended after a partial fix
  tries,        \* attempts made since the stage was entered or resumed
  reviewed,     \* reviewOutput: the comments of the review that counts
  hasBlocking,  \* staticResult.hasBlockingIssues
  signal,       \* the status of the last review-fix-completed signal
  act,          \* the attempt that counts, and one that was given up
  notes,        \* how many notes of the merge request each comment has
  backlog,      \* how many issues each title has
  branch,       \* what each file holds: fixes of comments and issues, "human"
  analysed,     \* the blocking issues of SonarQube's last analysis
  mishaps,
  reviews,      \* reviews made
  doubled,      \* has GitLab ever applied a request twice
  refused,      \* backlog issues GitLab refused to create, by title
  unposted,     \* comments of the review that counts whose note was not made
  fixRuns,      \* times the workflow asked for review-fix
  fixes,        \* commits GitLab has made for each blocking comment
  repeated,     \* those of them that the HTTP client had sent before
  asked,        \* has a person been asked to look at the fixes
  silent,       \* has a review-fix-completed signal been lost
  overlapped,   \* has a review-fix been given up while it was running
  raced         \* files a person changed while an agent was rewriting them

workflow == <<stage, mode, tries, reviewed, hasBlocking, signal>>
history  == <<reviews, doubled, refused, unposted, fixRuns, fixes, repeated,
              asked, silent, overlapped, raced>>
shared   == <<notes, backlog, branch, analysed>>
vars == <<workflow, act, shared, mishaps, history>>

Slots == {"counted", "late"}

\* An attempt: its agent, where it is, the work it has left, what it has read.
NoWork == [i \in Work |-> 0]
Once(S) == [i \in Work |-> IF i \in S THEN 1 ELSE 0]
Idle == [job |-> "none", place |-> "none", todo |-> NoWork, got |-> {},
         titles |-> {}, item |-> {}, copy |-> {}, missed |-> {}, skipped |-> FALSE]

Init ==
  /\ stage = "review" /\ mode = "run" /\ tries = 0
  /\ reviewed = {} /\ hasBlocking = FALSE /\ signal = "none"
  /\ act = [a \in Slots |-> Idle]
  /\ notes = [c \in Comments |-> 0] /\ backlog = [t \in Titles |-> 0]
  /\ branch = [f \in Files |-> {}]
  /\ analysed \in {{}, Issues}
  /\ mishaps = 0
  /\ reviews = 0 /\ doubled = FALSE /\ refused = [t \in Titles |-> 0]
  /\ unposted = {} /\ fixRuns = 0 /\ fixes = [c \in Blocking |-> 0]
  /\ repeated = [c \in Blocking |-> 0]
  /\ asked = FALSE /\ silent = FALSE /\ overlapped = FALSE /\ raced = {}

\* The file of a piece of work: review-fix goes by comments, correction by
\* files; and the file attempt a is rewriting.
PathOf(i) == IF i \in Files THEN i ELSE FileOf[i]
InHand(a) == {PathOf(i) : i \in act[a].item}

----------------------------------------------------------------------------
(* GitLab and SonarQube *)

Mishap == mishaps < MaxMishaps /\ mishaps' = mishaps + 1

\* The blocking issues of the branch as it is.
Present == {i \in Issues : i \notin branch[FileOf[i]]}

\* CI has run on some commit: the analysis is that of the branch now.
Analyse ==
  /\ analysed # Present /\ analysed' = Present
  /\ UNCHANGED <<workflow, act, notes, backlog, branch, mishaps, history>>

\* A person commits to a file of the branch, or writes a blocking note that
\* belongs to no file.
PersonCommits(f) ==
  /\ Mishap
  /\ stage \notin {"merged", "aborted"}
  /\ branch' = [branch EXCEPT ![f] = @ \cup {"human"}]
  /\ raced' = IF \E a \in Slots : f \in InHand(a) THEN raced \cup {f} ELSE raced
  /\ UNCHANGED <<workflow, act, notes, backlog, analysed, reviews, doubled, refused,
                 unposted, fixRuns, fixes, repeated, asked, silent, overlapped>>

PersonComments(c) ==
  /\ Mishap
  /\ c \in FileLevel \cap Blocking
  /\ notes' = [notes EXCEPT ![c] = @ + 1]
  /\ UNCHANGED <<workflow, act, backlog, branch, analysed, history>>

\* How often GitLab applies a POST.  The HTTP client sends it again after a 5xx
\* answer and gives up after ten seconds without one, applied or not; whether
\* the agent is then told of an error makes no difference: it only logs it.
Post(copies) ==
  /\ IF copies = 1 THEN UNCHANGED mishaps ELSE Mishap
  /\ doubled' = (doubled \/ copies = 2)

----------------------------------------------------------------------------
(* Temporal and the workflow *)

\* Mutant of Retried: review-fix is tried again like the other agents.
RetriedAll(job) == TRUE

\* reviewFixActivityOptions: one attempt, and no heartbeat.
Retried(job) == job # "fix"

Start ==
  /\ mode = "run" /\ stage \in {"review", "fix", "static", "correct", "verify"}
  /\ act["counted"] = Idle
  /\ act' = [act EXCEPT !["counted"] = [Idle EXCEPT !.job = stage, !.place = "read"]]
  /\ tries' = tries + 1
  /\ UNCHANGED <<stage, mode, reviewed, hasBlocking, signal, shared, mishaps,
                 history>>

\* Mutant of Again: attempts are made without end.
AgainForEver(final) == ~final /\ Retried(stage)

\* Does another attempt follow one that is lost?  If not the stage is suspended.
Again(final) == ~final /\ Retried(stage) /\ tries < MaxTries

Lost(final) ==
  /\ mode' = IF Again(final) THEN "run" ELSE "suspended"
  /\ UNCHANGED <<stage, tries, reviewed, hasBlocking, signal>>

\* No heartbeat for two minutes, or an hour for review-fix.  The verification
\* is given up likewise: PipelineWorkflow has its late merge.
OutOfTime ==
  /\ mode = "run" /\ Mishap
  /\ act["counted"].job \in {"review", "fix", "static", "correct"}
  /\ act["late"] = Idle
  /\ act' = [a \in Slots |-> IF a = "late" THEN act["counted"] ELSE Idle]
  /\ Lost(FALSE)
  /\ overlapped' = (overlapped \/ stage = "fix")
  /\ UNCHANGED <<shared, reviews, doubled, refused, unposted, fixRuns, fixes,
                 repeated, asked, silent, raced>>

\* Attempt a, of this agent, is at this place.
At(a, job, place) == act[a].job = job /\ act[a].place = place
Has(a, i)         == act[a].todo[i] > 0
NothingLeft(a)    == act[a].todo = NoWork
Finished(a)       == act' = [act EXCEPT ![a] = Idle]

\* The places of an agent where it does not catch a call's failure; of the
\* review's posts, only the summary's.
Uncaught == {<<"review", "read">>, <<"review", "post">>, <<"static", "read">>,
             <<"correct", "read">>, <<"verify", "read">>, <<"verify", "merge">>} \cup
            ({"fix"} \X {"read", "titles", "blocking", "fix", "rewrite", "resend"})

\* A tool's error is final, a lost connection is not.  The failure that follows
\* a commit without an answer is counted there.
CallFails(a) ==
  /\ <<act[a].job, act[a].place>> \in Uncaught
  /\ act[a].place = "post" => NothingLeft(a)
  /\ IF act[a].place = "resend" THEN UNCHANGED mishaps ELSE Mishap
  /\ act' = [act EXCEPT ![a] = Idle]
  /\ IF a = "counted" THEN \E final \in BOOLEAN : Lost(final) ELSE UNCHANGED workflow
  /\ UNCHANGED <<shared, history>>

\* A person sends resume: the agent runs again, or the pipeline goes on from
\* a partial fix.
Resume ==
  /\ mode # "run"
  /\ mode' = "run" /\ tries' = 0
  /\ stage' = IF mode = "partial" THEN "static" ELSE stage
  /\ fixRuns' = IF stage' = "fix" THEN fixRuns + 1 ELSE fixRuns
  /\ UNCHANGED <<reviewed, hasBlocking, signal, act, shared, mishaps, reviews,
                 doubled, refused, unposted, fixes, repeated, asked, silent,
                 overlapped, raced>>

\* The stage that follows, if the attempt that ends is the one that counts.
GoOn(a, next) ==
  IF a = "counted" THEN stage' = next /\ tries' = 0 ELSE UNCHANGED <<stage, tries>>

\* CI reports that the scan has passed; the report may be of an older commit.
CiPasses ==
  /\ stage = "ci" /\ mode = "run"
  /\ stage' = (IF hasBlocking THEN "correct" ELSE "verify") /\ tries' = 0
  /\ UNCHANGED <<mode, reviewed, hasBlocking, signal, act, shared, mishaps,
                 history>>

----------------------------------------------------------------------------
(* Review: reviewCode *)

\* The model may answer anything, and an answer without the tool is no comment.
Review(a) ==
  /\ At(a, "review", "read")
  /\ \E got \in SUBSET Comments :
       act' = [act EXCEPT ![a].place = "post", ![a].got = got,
                          ![a].todo = Once(got \ FileLevel)]
  /\ reviews' = reviews + 1
  /\ UNCHANGED <<workflow, shared, mishaps, doubled, refused, unposted, fixRuns,
                 fixes, repeated, asked, silent, overlapped, raced>>

\* gitlab_add_mr_inline_comment
AddNotes(c, copies) == notes' = [notes EXCEPT ![c] = @ + copies]

\* An inline comment that fails is only logged.
PostInlineComment(a) ==
  /\ At(a, "review", "post")
  /\ \E c \in Comments, copies \in 0..2 :
       /\ Has(a, c) /\ Post(copies)
       /\ AddNotes(c, copies)
       /\ act' = [act EXCEPT ![a].todo[c] = @ - 1,
                             ![a].missed = IF copies = 0 THEN @ \cup {c} ELSE @]
  /\ UNCHANGED <<workflow, backlog, branch, analysed, reviews, refused, unposted,
                 fixRuns, fixes, repeated, asked, silent, overlapped, raced>>

\* The summary tells the file-level comments, in a note of no other use.
PostSummary(a) ==
  /\ At(a, "review", "post") /\ NothingLeft(a)
  /\ act' = [act EXCEPT ![a].place = "backlog",
                        ![a].todo = Once(act[a].got \cap Moderate)]
  /\ UNCHANGED <<workflow, shared, mishaps, history>>

EndReview(a) ==
  /\ At(a, "review", "backlog") /\ NothingLeft(a)
  /\ LET next == IF act[a].got \cap Blocking = {} THEN "static" ELSE "fix"
     IN  /\ GoOn(a, next)
         /\ fixRuns' = IF a = "counted" /\ next = "fix" THEN fixRuns + 1 ELSE fixRuns
  /\ reviewed' = IF a = "counted" THEN act[a].got ELSE reviewed
  /\ unposted' = IF a = "counted" THEN act[a].missed ELSE unposted
  /\ Finished(a)
  /\ UNCHANGED <<mode, hasBlocking, signal, shared, mishaps, reviews, doubled,
                 refused, fixes, repeated, asked, silent, overlapped, raced>>

----------------------------------------------------------------------------
(* The backlog: createBacklogIssues of three agents *)

\* Mutant of Known: only static analysis looks at the titles it has read.
KnownToStatic(a, i) == act[a].job = "static" /\ TitleOf[i] \in act[a].titles

\* Mutant of Known: what the review found is taken for filed.
KnownByReview(a, i) ==
  TitleOf[i] \in act[a].titles \/ (act[a].job = "fix" /\ i \in reviewed)

\* The titles are read once: what the loop creates is not among them.
Known(a, i) == TitleOf[i] \in act[a].titles

\* The titles the backlog has; static analysis reads the first page, and goes
\* on without any if the call fails.
ReadTitles(a) ==
  /\ act[a].place = "titles"
  /\ \E seen \in SUBSET {t \in Titles : backlog[t] > 0} :
       /\ IF \A t \in Titles : backlog[t] > 0 => t \in seen THEN UNCHANGED mishaps
          ELSE act[a].job = "static" /\ Mishap
       /\ act' = [act EXCEPT ![a].place = "backlog", ![a].titles = seen]
  /\ UNCHANGED <<workflow, shared, history>>

\* gitlab_create_issue
AddIssues(t, copies) == backlog' = [backlog EXCEPT ![t] = @ + copies]

\* A creation that fails is only logged.
FileIssue(a) ==
  /\ act[a].place = "backlog"
  /\ \E i \in Moderate \cup Smells :
       /\ Has(a, i)
       /\ act' = [act EXCEPT ![a].todo[i] = @ - 1]
       /\ IF Known(a, i)
          THEN UNCHANGED <<backlog, refused, doubled, mishaps>>
          ELSE \E copies \in 0..2 :
                 /\ Post(copies)
                 /\ AddIssues(TitleOf[i], copies)
                 /\ refused' = IF copies > 0 THEN refused
                               ELSE [refused EXCEPT ![TitleOf[i]] = @ + 1]
  /\ UNCHANGED <<workflow, notes, branch, analysed, reviews, unposted, fixRuns,
                 fixes, repeated, asked, silent, overlapped, raced>>

----------------------------------------------------------------------------
(* Review-fix: createBacklogIssues, then fixCode *)

\* Every note counts, those of a review that was given up included.
NotesOf(S) == [i \in Work |-> IF i \in S THEN notes[i] ELSE 0]

ReadModerateNotes(a) ==
  /\ At(a, "fix", "read")
  /\ act' = [act EXCEPT ![a].todo = NotesOf(Moderate),
                        ![a].place = IF NotesOf(Moderate) = NoWork
                                     THEN "blocking" ELSE "titles"]
  /\ UNCHANGED <<workflow, shared, mishaps, history>>

EndFixBacklog(a) ==
  /\ At(a, "fix", "backlog") /\ NothingLeft(a)
  /\ act' = [act EXCEPT ![a].place = "blocking"]
  /\ UNCHANGED <<workflow, shared, mishaps, history>>

ReadBlockingNotes(a) ==
  /\ At(a, "fix", "blocking") /\ NotesOf(Blocking) # NoWork
  /\ act' = [act EXCEPT ![a].place = "fix", ![a].todo = NotesOf(Blocking)]
  /\ UNCHANGED <<workflow, shared, mishaps, history>>

\* Mutant of AfterFix: the result signalled is not looked at.
AfterFixUnread(a, s) ==
  IF a = "late" THEN UNCHANGED <<stage, tries, mode, asked>>
  ELSE stage' = "static" /\ tries' = 0 /\ UNCHANGED <<mode, asked>>

\* What the workflow does when the attempt that counts is over,
\* reviewFixResult being s.
AfterFix(a, s) ==
  CASE a = "late" -> UNCHANGED <<stage, tries, mode, asked>>
    [] a = "counted" /\ s = "partial" ->
         mode' = "partial" /\ asked' = TRUE /\ UNCHANGED <<stage, tries>>
    [] OTHER -> stage' = "static" /\ tries' = 0 /\ UNCHANGED <<mode, asked>>

\* Without a blocking note the agent sends no signal: an old one stands.
NoBlockingNote(a) ==
  /\ At(a, "fix", "blocking") /\ NotesOf(Blocking) = NoWork
  /\ AfterFix(a, signal)
  /\ Finished(a)
  /\ UNCHANGED <<reviewed, hasBlocking, signal, shared, mishaps, reviews, doubled,
                 refused, unposted, fixRuns, fixes, repeated, silent, overlapped, raced>>

\* A note without a file cannot be fixed.
SkipComment(a) ==
  /\ At(a, "fix", "fix")
  /\ \E c \in Blocking \cap FileLevel :
       Has(a, c) /\ act' = [act EXCEPT ![a].todo[c] = @ - 1, ![a].skipped = TRUE]
  /\ UNCHANGED <<workflow, shared, mishaps, history>>

\* Mutant of FileAt: the file is read from the default branch.
FileAtMain(f) == {}

\* The text of a file, as gitlab_get_file gives it for the branch.
FileAt(f) == branch[f]

\* The file is read, and the model writes it anew.
ReadFile(a) ==
  /\ act[a].job \in {"fix", "correct"} /\ act[a].place = "fix"
  /\ \E i \in (Blocking \ FileLevel) \cup Files :
       Has(a, i) /\ act' = [act EXCEPT ![a].todo[i] = @ - 1,
                                       ![a].place = "rewrite",
                                       ![a].item = {i},
                                       ![a].copy = FileAt(PathOf(i))]
  /\ UNCHANGED <<workflow, shared, mishaps, history>>

\* The attempt has done with the file: changes made since it was read are lost.
Rewritten(a, changes) ==
  \E f \in InHand(a) : branch' = [branch EXCEPT ![f] = act[a].copy \cup changes]

Released(a, skip) ==
  act' = [act EXCEPT ![a].place = "fix", ![a].item = {}, ![a].copy = {},
                     ![a].skipped = (@ \/ skip)]

\* n counts a commit of the blocking comment in hand; correction has none.
OneMore(n, a) ==
  [c \in Blocking |-> n[c] + (IF act[a].job = "fix" /\ c \in act[a].item THEN 1 ELSE 0)]

CommitFix(a) ==
  /\ At(a, "fix", "rewrite")
  /\ Rewritten(a, act[a].item)
  /\ fixes' = OneMore(fixes, a)
  /\ Released(a, FALSE)
  /\ UNCHANGED <<workflow, notes, backlog, analysed, mishaps, reviews, doubled, refused,
                 unposted, fixRuns, repeated, asked, silent, overlapped, raced>>

\* What the model may change in the file: review-fix asks for one fix,
\* correction for those of all its issues, some of which it may miss.
Changes(a) ==
  IF act[a].job = "fix" THEN {act[a].item}
  ELSE SUBSET {i \in act[a].got : FileOf[i] \in InHand(a)}

\* GitLab makes the commit, and answers with a 5xx or too late.
CommitUnanswered(a) ==
  /\ act[a].job \in {"fix", "correct"} /\ act[a].place = "rewrite" /\ Mishap
  /\ \E changes \in Changes(a) :
       /\ Rewritten(a, changes)
       /\ act' = [act EXCEPT ![a].place = "resend", ![a].copy = @ \cup changes]
  /\ fixes' = OneMore(fixes, a)
  /\ UNCHANGED <<workflow, notes, backlog, analysed, reviews, doubled, refused,
                 unposted, fixRuns, repeated, asked, silent, overlapped, raced>>

\* After a 5xx the HTTP client sends the same commit again, at most three
\* times; GitLab makes it once more.
CommitAgain(a) ==
  /\ act[a].job \in {"fix", "correct"} /\ act[a].place = "resend"
  /\ Rewritten(a, {})
  /\ fixes' = OneMore(fixes, a) /\ repeated' = OneMore(repeated, a)
  /\ \/ Released(a, FALSE) /\ UNCHANGED mishaps
     \/ UNCHANGED act /\ Mishap
  /\ UNCHANGED <<workflow, notes, backlog, analysed, reviews, doubled, refused,
                 unposted, fixRuns, asked, silent, overlapped, raced>>

\* The model does not call apply_fix.  Correction also skips a file whose
\* calls fail, the commit's included.
NoFix(a) ==
  /\ act[a].place = "rewrite" \/ At(a, "correct", "resend")
  /\ Released(a, TRUE)
  /\ UNCHANGED <<workflow, shared, mishaps, history>>

\* The signal may fail, which is only logged.
EndFix(a) ==
  /\ At(a, "fix", "fix") /\ NothingLeft(a)
  /\ \/ /\ signal' = IF act[a].skipped THEN "partial" ELSE "success"
        /\ UNCHANGED <<silent, mishaps>>
     \/ Mishap /\ silent' = TRUE /\ UNCHANGED signal
  /\ AfterFix(a, signal')
  /\ Finished(a)
  /\ UNCHANGED <<reviewed, hasBlocking, shared, reviews, doubled, refused, unposted,
                 fixRuns, fixes, repeated, overlapped, raced>>

----------------------------------------------------------------------------
(* Static analysis, correction, verification *)

\* What reading SonarQube gives of what it knows: a reply that cannot be parsed
\* is no issue.
Reported(issues, known) ==
  IF issues = known THEN UNCHANGED mishaps ELSE Mishap

ReadAnalysis(a) ==
  /\ At(a, "static", "read")
  /\ \E issues \in SUBSET analysed, smells \in SUBSET Smells :
       /\ Reported(issues \cup smells, analysed \cup Smells)
       /\ act' = [act EXCEPT ![a].got = issues, ![a].todo = Once(smells),
                             ![a].place = IF smells = {} THEN "backlog" ELSE "titles"]
  /\ UNCHANGED <<workflow, shared, history>>

EndStatic(a) ==
  /\ At(a, "static", "backlog") /\ NothingLeft(a)
  /\ GoOn(a, "ci")
  /\ hasBlocking' = IF a = "counted" THEN act[a].got # {} ELSE hasBlocking
  /\ Finished(a)
  /\ UNCHANGED <<mode, reviewed, signal, shared, mishaps, history>>

ReadBlockingIssues(a) ==
  /\ At(a, "correct", "read")
  /\ \E issues \in SUBSET analysed :
       /\ Reported(issues, analysed)
       /\ act' = [act EXCEPT ![a].got = issues, ![a].place = "fix",
                             ![a].todo = Once({FileOf[i] : i \in issues})]
  /\ UNCHANGED <<workflow, shared, history>>

\* One commit for all the issues of a file; the model may miss some.
CommitStaticFix(a) ==
  /\ At(a, "correct", "rewrite")
  /\ \E done \in SUBSET {i \in act[a].got : FileOf[i] \in InHand(a)} : Rewritten(a, done)
  /\ Released(a, FALSE)
  /\ UNCHANGED <<workflow, notes, backlog, analysed, mishaps, history>>

EndCorrect(a) ==
  /\ At(a, "correct", "fix") /\ NothingLeft(a)
  /\ GoOn(a, "verify")
  /\ Finished(a)
  /\ UNCHANGED <<mode, reviewed, hasBlocking, signal, shared, mishaps, history>>

\* Verification reads the analysis there is: no CI is awaited after corrections.
Verify(a) ==
  /\ At(a, "verify", "read")
  /\ \E issues \in SUBSET analysed :
       /\ Reported(issues, analysed)
       /\ IF issues # {}
          THEN GoOn(a, "aborted") /\ Finished(a)
          ELSE act' = [act EXCEPT ![a].place = "merge"] /\ UNCHANGED <<stage, tries>>
  /\ UNCHANGED <<mode, reviewed, hasBlocking, signal, shared, history>>

Merge(a) ==
  /\ At(a, "verify", "merge")
  /\ GoOn(a, "merged")
  /\ Finished(a)
  /\ UNCHANGED <<mode, reviewed, hasBlocking, signal, shared, mishaps, history>>

Step(a) ==
  \/ Review(a) \/ PostInlineComment(a) \/ PostSummary(a) \/ EndReview(a)
  \/ ReadTitles(a) \/ FileIssue(a)
  \/ ReadModerateNotes(a) \/ EndFixBacklog(a) \/ ReadBlockingNotes(a) \/ NoBlockingNote(a)
  \/ SkipComment(a) \/ ReadFile(a) \/ CommitFix(a) \/ NoFix(a) \/ EndFix(a)
  \/ CommitUnanswered(a) \/ CommitAgain(a)
  \/ ReadAnalysis(a) \/ EndStatic(a)
  \/ ReadBlockingIssues(a) \/ CommitStaticFix(a) \/ EndCorrect(a)
  \/ Verify(a) \/ Merge(a)

Next ==
  \/ Start \/ Resume \/ OutOfTime \/ CiPasses \/ Analyse
  \/ \E f \in Files : PersonCommits(f)
  \/ \E c \in Blocking : PersonComments(c)
  \/ \E a \in Slots : Step(a) \/ CallFails(a)

Spec == Init /\ [][Next]_vars

----------------------------------------------------------------------------
(* Properties *)

Places == {"none", "read", "post", "titles", "backlog", "blocking", "fix",
           "rewrite", "resend", "merge"}

Attempt ==
  [job : {"none", "review", "fix", "static", "correct", "verify"}, place : Places,
   todo : [Work -> Nat], got : SUBSET (Comments \cup Issues), titles : SUBSET Titles,
   item : SUBSET (Blocking \cup Files),
   copy : SUBSET (Blocking \cup Issues \cup {"human"}), missed : SUBSET Comments,
   skipped : BOOLEAN]

WorkflowType ==
  /\ stage \in {"review", "fix", "static", "ci", "correct", "verify", "merged", "aborted"}
  /\ mode \in {"run", "suspended", "partial"} /\ tries \in 0..MaxTries
  /\ reviewed \in SUBSET Comments /\ hasBlocking \in BOOLEAN
  /\ signal \in {"none", "success", "partial"}

SharedType ==
  /\ notes \in [Comments -> Nat] /\ backlog \in [Titles -> Nat]
  /\ branch \in [Files -> SUBSET (Blocking \cup Issues \cup {"human"})]
  /\ analysed \in SUBSET Issues

HistoryType ==
  /\ mishaps \in Nat /\ reviews \in Nat /\ doubled \in BOOLEAN
  /\ refused \in [Titles -> Nat] /\ unposted \in SUBSET Comments
  /\ fixRuns \in Nat /\ fixes \in [Blocking -> Nat] /\ repeated \in [Blocking -> Nat]
  /\ asked \in BOOLEAN /\ silent \in BOOLEAN /\ overlapped \in BOOLEAN
  /\ raced \in SUBSET Files

\* Every variable keeps its type, and no stage has more than MaxTries attempts
\* without a resume.
TypeOK ==
  /\ WorkflowType /\ SharedType /\ HistoryType
  /\ act \in [Slots -> Attempt]

\* "bloquant: mandatory fix before merge".  When the merge request is merged,
\* every blocking comment of the review has a fix still in the branch, although
\* agents rewrite whole files from copies, fail midway and start again.  The
\* exceptions are exactly these: a comment on a whole file and one that could
\* not be posted are no note for review-fix to find; a comment review-fix did
\* not fix is left to the person it asks, or to none if its signal is lost; and
\* a review-fix out of time may undo the fixes of the one a person resumed.
BlockersFixed ==
  stage = "merged" /\ ~asked /\ ~silent /\ ~overlapped =>
    \A c \in (reviewed \cap Blocking) \ (FileLevel \cup unposted) :
      c \in branch[FileOf[c]]

\* A moderate comment gets one backlog issue, though the review and review-fix
\* both create it and either may have failed to: unless it was posted twice, by
\* a second review or a request sent again, or by two review-fix at once.  The
\* titles tell what is filed, and are read before the loop: two comments or
\* smells of one title may each get an issue.
OwnTitle(c) == \A i \in (Moderate \cup Smells) \ {c} : TitleOf[i] # TitleOf[c]

OneBacklogIssue ==
  reviews <= 1 /\ ~doubled /\ ~overlapped =>
    \A c \in Moderate : OwnTitle(c) => backlog[TitleOf[c]] <= 1

\* Review-fix makes good what the review failed to put in the backlog: once it
\* is over, every moderate comment with a note has its issue, unless both
\* creations were refused.
ModerateReachesBacklog ==
  stage \notin {"review", "fix"} /\ reviewed \cap Blocking # {} =>
    \A c \in (reviewed \cap Moderate) \ (FileLevel \cup unposted) :
      backlog[TitleOf[c]] > 0 \/ refused[TitleOf[c]] > 1

\* "fixCode re-fetcherait les commentaires [BLOQUANT] toujours presents ->
\* re-commits": each time the stage is entered or resumed a note is fixed once,
\* and once more for each commit that the HTTP client sent again.
NoRecommitWithoutResume ==
  \A c \in Blocking : fixes[c] <= notes[c] * fixRuns + repeated[c]

\* A person's commit is overwritten by an agent only if it was made between
\* the agent's reading of that very file and its commit.
PersonsWorkIsKept ==
  [][\A f \in Files \ raced' : "human" \in branch[f] => "human" \in branch'[f]]_vars

\* "Blocking issues persist after fix - merge aborted": when the verification
\* gives up, the branch has a blocking issue.
AbortMeansBlockersPersist ==
  [][stage # "aborted" /\ stage' = "aborted" => Present # {}]_vars
=============================================================================
