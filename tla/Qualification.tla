---------------------------- MODULE Qualification ----------------------------
(***************************************************************************)
(* The qualification chat of the portal: the page of one user (chat.vue    *)
(* and its components), the stream of /api/chat and the server side of     *)
(* /api/submit, which creates an epic through mcp-gitlab and then its      *)
(* stories.  A message is numbered by its exchange and the epic proposed   *)
(* in its answer by the same number; of an answer only what the page       *)
(* depends on is kept, that it has text and that it has the                *)
(* [FOR_VALIDATION] tag, for which its button is shown.                    *)
(***************************************************************************)
EXTENDS Naturals, FiniteSets, SequencesExt

CONSTANTS
  NbStories,     \* the stories of an epic
  MaxExchanges,  \* bound: messages sent
  MaxFailures,   \* bound: submissions of a proposal after so many errors
  MaxMishaps     \* bound: failures, lost answers, reloads

ASSUME QualificationAssumption ==
  /\ NbStories \in Nat \ {0} /\ MaxExchanges \in Nat
  /\ MaxFailures \in Nat /\ MaxMishaps \in Nat

Stories == 1..NbStories
Epics == 1..MaxExchanges
NoEpic == 0
NoResult == <<>>

VARIABLES
  answers,    \* the answers of the page's messages: subsets of {"text", "tag"}
  exchange,   \* how many messages were sent
  doing,      \* which of isStreaming, isSubmitting and isReindexing are true
  epicData,
  result,     \* submitResult: the stories listed and those refused, or NoResult
  rendering,  \* the epic's data was streamed and its text was not yet
  jobs,       \* requests that /api/submit is serving
  ill,        \* proposals whose data is not of the shape that is asked for
  epics,      \* GitLab: how many epics each proposal has
  filed,      \* GitLab: how many issues each story of each proposal has
  failures,   \* errors the page was shown about submissions of each proposal
  doubled,    \* POSTs of each proposal's epic that axios repeated though stored
  mute,       \* answers that ended well without a word
  mishaps

page   == <<answers, exchange, doing, epicData, result>>
gitlab == <<epics, filed>>
ghosts == <<failures, doubled, mute>>
vars   == <<page, rendering, jobs, ill, gitlab, ghosts, mishaps>>

Init ==
  /\ answers = <<>> /\ exchange = 0 /\ doing = {}
  /\ epicData = NoEpic /\ result = NoResult /\ rendering = FALSE
  /\ jobs = <<>> /\ ill = {}
  /\ epics = [e \in Epics |-> 0] /\ filed = [e \in Epics |-> [s \in Stories |-> 0]]
  /\ failures = [e \in Epics |-> 0] /\ doubled = [e \in Epics |-> 0]
  /\ mute = 0 /\ mishaps = 0

Mishap == mishaps < MaxMishaps /\ mishaps' = mishaps + 1

----------------------------------------------------------------------------
(* The page *)

\* Mutant of MayReindex: only its own request disables the button.
MayReindexMeanwhile == "reindexing" \notin doing

\* Mutant of MaySubmit: the button stays once the need is submitted.
MaySubmitAgain(k) == doing = {} /\ "tag" \in answers[k]

MaySend == doing = {}
MayReindex == doing = {}

\* can-submit, and the button of the k-th answer.
MaySubmit(k) == doing = {} /\ result = NoResult /\ "tag" \in answers[k]

\* Mutant of Superseded: a message leaves the proposal before it.
SupersededNot == epicData

\* The proposal left by a message that is sent.
Superseded == NoEpic

SendMessage ==
  /\ MaySend /\ exchange < MaxExchanges
  /\ exchange' = exchange + 1
  /\ answers' = Append(answers, {})
  /\ doing' = doing \cup {"streaming"}
  /\ result' = NoResult /\ epicData' = Superseded /\ rendering' = FALSE
  /\ UNCHANGED <<jobs, ill, gitlab, ghosts, mishaps>>

Reindex ==
  /\ MayReindex
  /\ doing' = doing \cup {"reindexing"}
  /\ UNCHANGED <<answers, exchange, epicData, result, rendering, jobs, ill, gitlab, ghosts,
                 mishaps>>

\* /api/index answers, well or not.
ReindexEnds ==
  /\ "reindexing" \in doing
  /\ doing' = doing \ {"reindexing"}
  /\ UNCHANGED <<answers, exchange, epicData, result, rendering, jobs, ill, gitlab, ghosts,
                 mishaps>>

\* The button of any answer submits epicData, and does nothing without it.
SubmitNeed(k) ==
  /\ MaySubmit(k) /\ epicData # NoEpic /\ failures[epicData] < MaxFailures
  /\ doing' = doing \cup {"submitting"}
  /\ jobs' = Append(jobs, [epic |-> epicData, created |-> FALSE, todo |-> Stories,
                           made |-> {}, refused |-> {}, waited |-> TRUE])
  /\ UNCHANGED <<answers, exchange, epicData, result, rendering, ill, gitlab, ghosts, mishaps>>

\* The page is loaded again: the conversation is lost, the requests go on.
Reload ==
  /\ Mishap /\ exchange > 0
  /\ answers' = <<>> /\ doing' = {} /\ epicData' = NoEpic /\ result' = NoResult
  /\ rendering' = FALSE
  /\ jobs' = [j \in DOMAIN jobs |-> [jobs[j] EXCEPT !.waited = FALSE]]
  /\ UNCHANGED <<exchange, ill, gitlab, ghosts>>

----------------------------------------------------------------------------
(* The stream of an answer *)

Streaming == "streaming" \in doing

\* The API refuses a history in which an answer is empty.
Accepted == Streaming /\ \A k \in DOMAIN Front(answers) : answers[k] # {}

Say(parts) == answers' = [answers EXCEPT ![Len(answers)] = @ \cup parts]

EndStream == doing' = doing \ {"streaming"} /\ rendering' = FALSE

\* The model may write the tag it has seen in earlier answers.
TextArrives ==
  /\ Accepted /\ ~rendering
  /\ \E parts \in {{"text"}, {"text", "tag"}} : Say(parts)
  /\ UNCHANGED <<exchange, doing, epicData, result, rendering, jobs, ill, gitlab, ghosts,
                 mishaps>>

\* The data of a proposal; JSON cut short by max_tokens is skipped.  A second
\* proposal of the same answer takes the place of the first.
EpicArrives ==
  /\ Accepted /\ ~rendering
  /\ epicData' = exchange
  /\ rendering' = TRUE
  /\ ill' \in {ill \ {exchange}, ill \cup {exchange}}
  /\ UNCHANGED <<answers, exchange, doing, result, jobs, gitlab, ghosts, mishaps>>

\* Its text, which ends in the tag.  Data of another shape may make renderEpic
\* throw: the stream goes on without the text.
EpicRendered ==
  /\ Streaming /\ rendering
  /\ \/ Say({"text", "tag"})
     \/ exchange \in ill /\ UNCHANGED answers
  /\ rendering' = FALSE
  /\ UNCHANGED <<exchange, doing, epicData, result, jobs, ill, gitlab, ghosts, mishaps>>

Muted == mute' = IF Last(answers) = {} THEN mute + 1 ELSE mute

\* [DONE]
StreamEnds ==
  /\ Accepted /\ ~rendering
  /\ EndStream /\ Muted
  /\ UNCHANGED <<answers, exchange, epicData, result, jobs, ill, gitlab, failures, doubled,
                 mishaps>>

\* The API refuses or fails: the answer says so, and the stream ends.
ErrorArrives ==
  /\ Streaming /\ ~rendering
  /\ IF Accepted THEN Mishap ELSE UNCHANGED mishaps
  /\ Say({"text"}) /\ EndStream
  /\ UNCHANGED <<exchange, epicData, result, jobs, ill, gitlab, ghosts>>

\* Mutant of Kept: a failed answer stays in the conversation.
KeptAnyway == answers

\* The answers left by a request that failed: an empty one is removed.
Kept == IF Last(answers) = {} THEN Front(answers) ELSE answers

\* The request or its stream fails.
StreamFails ==
  /\ Streaming /\ Mishap
  /\ answers' = Kept /\ EndStream
  /\ UNCHANGED <<exchange, epicData, result, jobs, ill, gitlab, ghosts>>

\* The connection is closed early and cleanly: read as the end of the answer.
StreamClosed ==
  /\ Streaming /\ Mishap
  /\ EndStream /\ Muted
  /\ UNCHANGED <<answers, exchange, epicData, result, jobs, ill, gitlab, failures, doubled>>

----------------------------------------------------------------------------
(* /api/submit *)

Job(j) == jobs[j]
Update(j, job) == jobs' = [jobs EXCEPT ![j] = job]

\* The request is answered with an error, which the page shows if it waits.
Fail(j) ==
  /\ jobs' = RemoveAt(jobs, j)
  /\ doing' = IF Job(j).waited THEN doing \ {"submitting"} ELSE doing
  /\ failures' = IF Job(j).waited THEN [failures EXCEPT ![Job(j).epic] = @ + 1]
                                  ELSE failures

\* Data of the wrong shape is refused.
Reject(j) ==
  /\ ~Job(j).created /\ Job(j).epic \in ill
  /\ Fail(j)
  /\ UNCHANGED <<answers, exchange, epicData, result, rendering, ill, gitlab, doubled, mute,
                 mishaps>>

Creating(j) == ~Job(j).created /\ Job(j).epic \notin ill

StoreEpic(j) == epics' = [epics EXCEPT ![Job(j).epic] = @ + 1]

CreateEpic(j) ==
  /\ Creating(j)
  /\ StoreEpic(j)
  /\ Update(j, [Job(j) EXCEPT !.created = TRUE])
  /\ UNCHANGED <<page, rendering, ill, filed, ghosts, mishaps>>

\* GitLab stores the epic and answers with a 5xx: axios-retry posts it again.
RepeatPost(j) ==
  /\ Creating(j) /\ Mishap
  /\ StoreEpic(j)
  /\ doubled' = [doubled EXCEPT ![Job(j).epic] = @ + 1]
  /\ UNCHANGED <<page, rendering, jobs, ill, filed, failures, mute>>

\* The MCP call fails, before or after GitLab stored the epic.
EpicFails(j) ==
  /\ Creating(j) /\ Mishap
  /\ StoreEpic(j) \/ UNCHANGED epics
  /\ Fail(j)
  /\ UNCHANGED <<answers, exchange, epicData, result, rendering, ill, filed, doubled, mute>>

Filing(j, s) == Job(j).created /\ s \in Job(j).todo /\ \A t \in Job(j).todo : s <= t

FileStory(j, s) == filed' = [filed EXCEPT ![Job(j).epic][s] = @ + 1]

\* The issue is created; whether its link is refused changes nothing.
CreateIssue(j) ==
  \E s \in Stories :
    /\ Filing(j, s)
    /\ FileStory(j, s)
    /\ Update(j, [Job(j) EXCEPT !.todo = @ \ {s}, !.made = @ \cup {s}])
    /\ UNCHANGED <<page, rendering, ill, epics, ghosts, mishaps>>

\* Mutant of Remaining: the first story refused ends the loop.
RemainingNone(j, s) == {}

\* The stories after one that is refused.
Remaining(j, s) == Job(j).todo \ {s}

\* GitLab answers with an error: it is logged and the loop goes on.
RefuseIssue(j) ==
  \E s \in Stories :
    /\ Filing(j, s) /\ Mishap
    /\ Update(j, [Job(j) EXCEPT !.todo = Remaining(j, s), !.refused = @ \cup {s}])
    /\ UNCHANGED <<page, rendering, ill, gitlab, ghosts>>

\* The call that creates the issue, or its link, throws: the rest is not filed.
IssueThrows(j) ==
  \E s \in Stories :
    /\ Filing(j, s) /\ Mishap
    /\ FileStory(j, s) \/ UNCHANGED filed
    /\ Fail(j)
    /\ UNCHANGED <<answers, exchange, epicData, result, rendering, ill, epics, doubled, mute>>

Reply(j) ==
  /\ Job(j).created /\ Job(j).todo = {}
  /\ jobs' = RemoveAt(jobs, j)
  /\ IF Job(j).waited
     THEN /\ result' = [made |-> Job(j).made, refused |-> Job(j).refused, epic |-> Job(j).epic]
          /\ doing' = doing \ {"submitting"}
     ELSE UNCHANGED <<result, doing>>
  /\ UNCHANGED <<answers, exchange, epicData, rendering, ill, gitlab, ghosts, mishaps>>

\* The page's request fails while the server goes on; or the server's call for
\* the epic does, whose stories are then not filed, while mcp-gitlab goes on.
ReplyLost(j) ==
  /\ Job(j).waited /\ Mishap
  /\ \/ Update(j, [Job(j) EXCEPT !.waited = FALSE])
     \/ Creating(j) /\ Update(j, [Job(j) EXCEPT !.waited = FALSE, !.todo = {}])
  /\ doing' = doing \ {"submitting"}
  /\ failures' = [failures EXCEPT ![Job(j).epic] = @ + 1]
  /\ UNCHANGED <<answers, exchange, epicData, result, rendering, ill, gitlab, doubled, mute>>

----------------------------------------------------------------------------

Next ==
  \/ SendMessage \/ Reindex \/ ReindexEnds \/ Reload
  \/ \E k \in DOMAIN answers : SubmitNeed(k)
  \/ TextArrives \/ EpicArrives \/ EpicRendered
  \/ StreamEnds \/ ErrorArrives \/ StreamFails \/ StreamClosed
  \/ \E j \in DOMAIN jobs :
       \/ Reject(j) \/ CreateEpic(j) \/ RepeatPost(j) \/ EpicFails(j)
       \/ CreateIssue(j) \/ RefuseIssue(j) \/ IssueThrows(j)
       \/ Reply(j) \/ ReplyLost(j)

Spec == Init /\ [][Next]_vars

----------------------------------------------------------------------------
(* Properties *)

\* Every variable keeps its type, and the page does one thing at a time though
\* three components decide what is enabled.
TypeOK ==
  /\ answers \in Seq(SUBSET {"text", "tag"}) /\ exchange \in 0..MaxExchanges
  /\ doing \subseteq {"streaming", "submitting", "reindexing"} /\ Cardinality(doing) <= 1
  /\ epicData \in Epics \cup {NoEpic} /\ rendering \in BOOLEAN /\ ill \subseteq Epics
  /\ jobs \in Seq([epic : Epics, created : BOOLEAN, todo : SUBSET Stories,
                   made : SUBSET Stories, refused : SUBSET Stories, waited : BOOLEAN])
  /\ epics \in [Epics -> Nat] /\ filed \in [Epics -> [Stories -> Nat]]
  /\ failures \in [Epics -> Nat] /\ doubled \in [Epics -> Nat]
  /\ mute \in Nat /\ mishaps \in 0..MaxMishaps

\* A proposal has one epic and one issue for each story, however often its
\* button, or another answer's, is clicked: a second only after an error was
\* shown, or when axios repeated a POST that was stored.
DuplicatesNeedFailures ==
  \A e \in Epics :
    /\ epics[e] <= 1 + failures[e] + doubled[e]
    /\ \A s \in Stories : filed[e][s] <= 1 + failures[e]

\* When the page says that a need was submitted, every story of its epic exists
\* in GitLab or was refused by it.
SuccessIsComplete ==
  result # NoResult =>
    /\ result.made \cup result.refused = Stories
    /\ epics[result.epic] > 0 /\ \A s \in result.made : filed[result.epic][s] > 0

\* The history sent to the API has an empty answer, for which every request is
\* refused, only after an answer that seemed to end well said nothing: never
\* after one that failed.
HistoryIsValid ==
  Cardinality({k \in DOMAIN answers :
                 answers[k] = {} /\ ~(Streaming /\ k = Len(answers))}) <= mute

\* No epic is created that a later message has superseded, whichever button is
\* clicked: only by a submission the page had stopped waiting for.
NoSupersededEpic ==
  [][\A e \in Epics :
       epics'[e] > epics[e] =>
         \/ e = exchange
         \/ \E j \in DOMAIN jobs : jobs[j].epic = e /\ ~jobs[j].waited]_vars
=============================================================================
