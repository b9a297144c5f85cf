------------------------ MODULE QualificationProofs ------------------------
(***************************************************************************)
(* For any number of stories, messages and mishaps: the page does one      *)
(* thing at a time; what it shows as submitted is in GitLab; an empty      *)
(* answer enters the history only after a stream that ended well; a        *)
(* superseded proposal is created only by a request the page left; and a   *)
(* proposal is created again only after an error or a repeated POST.       *)
(***************************************************************************)
EXTENDS Qualification, FiniteSetTheorems, SequenceTheorems, TLAPS

Doings == {{}, {"streaming"}, {"submitting"}, {"reindexing"}}

JobType == [epic : Epics, created : BOOLEAN, todo : SUBSET Stories,
            made : SUBSET Stories, refused : SUBSET Stories, waited : BOOLEAN]

Answers == Seq(SUBSET {"text", "tag"})

\* The page: one thing at a time, no proposal but the last message's, and an
\* answer to fill while one is streamed.
PageType ==
  /\ answers \in Answers /\ exchange \in 0..MaxExchanges /\ doing \in Doings
  /\ epicData \in {NoEpic, exchange} /\ rendering \in BOOLEAN
  /\ "streaming" \in doing => answers # <<>> /\ exchange > 0

WorkType == jobs \in Seq(JobType)

StoreType ==
  /\ epics \in [Epics -> Nat] /\ filed \in [Epics -> [Stories -> Nat]]
  /\ failures \in [Epics -> Nat] /\ doubled \in [Epics -> Nat] /\ ill \subseteq Epics

CountType == mute \in Nat /\ mishaps \in 0..MaxMishaps

\* The types of all variables.
Typed == PageType /\ WorkType /\ StoreType /\ CountType

USE QualificationAssumption

\* RemoveAt, without its sub-sequences.
LEMMA Removed ==
  ASSUME NEW S, NEW s \in Seq(S), NEW j \in DOMAIN s
  PROVE  /\ RemoveAt(s, j) \in Seq(S)
         /\ Len(RemoveAt(s, j)) = Len(s) - 1
         /\ \A k \in 1..(Len(s) - 1) : RemoveAt(s, j)[k] = s[IF k < j THEN k ELSE k + 1]
<1>0. j \in 1..Len(s) /\ Len(s) \in Nat
  OBVIOUS
<1>1. /\ SubSeq(s, 1, j - 1) \in Seq(S) /\ Len(SubSeq(s, 1, j - 1)) = j - 1
      /\ \A k \in 1..(j - 1) : SubSeq(s, 1, j - 1)[k] = s[k]
  BY <1>0
<1>2. /\ SubSeq(s, j + 1, Len(s)) \in Seq(S) /\ Len(SubSeq(s, j + 1, Len(s))) = Len(s) - j
      /\ \A k \in 1..(Len(s) - j) : SubSeq(s, j + 1, Len(s))[k] = s[j + k]
  BY <1>0
<1> DEFINE a == SubSeq(s, 1, j - 1)
           b == SubSeq(s, j + 1, Len(s))
<1> HIDE DEF a, b
<1>3. RemoveAt(s, j) = a \o b
  BY DEF RemoveAt, a, b
<1>4. /\ a \in Seq(S) /\ b \in Seq(S) /\ Len(a) = j - 1 /\ Len(b) = Len(s) - j
      /\ \A k \in 1..(j - 1) : a[k] = s[k]
      /\ \A k \in 1..(Len(s) - j) : b[k] = s[j + k]
  BY <1>1, <1>2 DEF a, b
<1>5. \A k \in 1..(Len(s) - 1) : (a \o b)[k] = s[IF k < j THEN k ELSE k + 1]
  <2> TAKE k \in 1..(Len(s) - 1)
  <2>1. CASE k < j
    BY <1>0, <1>4, <2>1
  <2>2. CASE k >= j
    <3>1. (a \o b)[k] = b[k - (j - 1)]
      BY <1>0, <1>4, <2>2
    <3>2. k - (j - 1) \in 1..(Len(s) - j) /\ j + (k - (j - 1)) = k + 1
      BY <1>0, <2>2
    <3> QED
      BY <1>0, <1>4, <2>2, <3>1, <3>2
  <2>3. k < j \/ k >= j
    BY <1>0
  <2> QED
    BY <2>1, <2>2, <2>3
<1> QED
  BY <1>0, <1>3, <1>4, <1>5

\* What a step leaves alone keeps its type.
LEMMA PageSame ==
  PageType /\ UNCHANGED <<answers, exchange, doing, epicData, rendering>> => PageType'
BY DEF PageType

LEMMA WorkSame == WorkType /\ UNCHANGED jobs => WorkType'
BY DEF WorkType

LEMMA StoreSame ==
  StoreType /\ UNCHANGED <<epics, filed, failures, doubled, ill>> => StoreType'
BY DEF StoreType

\* Mishaps stay bounded.
LEMMA CountStep ==
  ASSUME CountType, UNCHANGED mishaps \/ Mishap, UNCHANGED mute \/ Muted
  PROVE  CountType'
<1>1. mishaps' \in 0..MaxMishaps
  BY DEF CountType, Mishap
<1>2. mute' \in Nat
  BY DEF CountType, Muted
<1> QED
  BY <1>1, <1>2 DEF CountType

\* A request has its type.
LEMMA JobTyped ==
  ASSUME WorkType, NEW j \in DOMAIN jobs
  PROVE  jobs[j] \in JobType /\ jobs[j].epic \in Epics
<1>1. jobs[j] \in JobType
  BY DEF WorkType
<1> QED
  BY <1>1 DEF JobType

\* A request is rewritten.
LEMMA Updated ==
  ASSUME WorkType, NEW j \in DOMAIN jobs, NEW job \in JobType, Update(j, job)
  PROVE  WorkType'
BY DEF WorkType, Update

\* The last answer grows.
LEMMA Spoken ==
  ASSUME PageType, Streaming, NEW parts \in SUBSET {"text", "tag"}, Say(parts)
  PROVE  answers' \in Answers /\ answers' # <<>>
<1>1. Len(answers) \in DOMAIN answers /\ answers # <<>>
  BY DEF PageType, Streaming, Answers
<1> DEFINE n == Len(answers)
<1>2. answers[n] \in SUBSET {"text", "tag"}
  BY <1>1 DEF PageType, Answers
<1>3. answers' = [answers EXCEPT ![n] = answers[n] \cup parts]
  BY DEF Say
<1>4. answers[n] \cup parts \in SUBSET {"text", "tag"}
  BY <1>2
<1> HIDE DEF n
<1>5. answers' \in Answers
  BY <1>1, <1>3, <1>4 DEF PageType, Answers, n
<1>6. DOMAIN answers' = DOMAIN answers /\ n \in DOMAIN answers
  BY <1>1, <1>3 DEF n
<1> QED
  BY <1>5, <1>6 DEF Answers

\* The page ends what it was doing.
LEMMA EndedTyped ==
  ASSUME PageType, doing' \in {doing} \cup {doing \ {w} : w \in {"streaming", "submitting", "reindexing"}},
         UNCHANGED <<answers, exchange, epicData>>, rendering' \in {rendering, FALSE}
  PROVE  PageType'
<1>1. doing' \in Doings /\ ("streaming" \in doing' => "streaming" \in doing)
  BY DEF PageType, Doings
<1> QED
  BY <1>1 DEF PageType

\* A request fails.
LEMMA FailTyped ==
  ASSUME Typed, NEW j \in DOMAIN jobs, Fail(j),
         UNCHANGED <<answers, exchange, epicData, rendering, ill, doubled>>,
         epics' \in [Epics -> Nat], filed' \in [Epics -> [Stories -> Nat]]
  PROVE  PageType' /\ WorkType' /\ StoreType'
<1>1. WorkType'
  BY Removed DEF Typed, WorkType, Fail
<1>2. jobs[j].epic \in Epics
  BY JobTyped DEF Typed
<1>3. StoreType'
  <2>1. failures' \in {failures, [failures EXCEPT ![jobs[j].epic] = failures[jobs[j].epic] + 1]}
    BY DEF Fail, Job
  <2>2. failures' \in [Epics -> Nat]
    BY <1>2, <2>1 DEF Typed, StoreType
  <2> QED
    BY <2>2 DEF Typed, StoreType
<1>4. PageType'
  BY EndedTyped DEF Typed, Fail
<1> QED
  BY <1>1, <1>3, <1>4

\* Every step keeps the types.
LEMMA TypeStep ==
  ASSUME Typed, [Next]_vars
  PROVE  Typed'
<1> USE DEF Typed
<1>1. CASE SendMessage
  <2>1. PageType'
    <3>1. /\ exchange' = exchange + 1 /\ exchange < MaxExchanges /\ epicData' = NoEpic
          /\ answers' = Append(answers, {}) /\ doing' = {"streaming"} /\ rendering' = FALSE
      BY <1>1 DEF SendMessage, MaySend, Superseded
    <3>2. answers' \in Answers /\ answers' # <<>>
      BY <3>1, {} \in SUBSET {"text", "tag"} DEF PageType, Answers
    <3>3. exchange' \in 0..MaxExchanges /\ exchange' > 0
      BY <3>1 DEF PageType
    <3> QED
      BY <3>1, <3>2, <3>3 DEF PageType, Doings
  <2> QED
    BY <1>1, <2>1, WorkSame, StoreSame, CountStep DEF SendMessage, gitlab, ghosts
<1>2. CASE Reindex
  <2>1. PageType'
    BY <1>2 DEF Reindex, MayReindex, PageType, Doings
  <2> QED
    BY <1>2, <2>1, WorkSame, StoreSame, CountStep DEF Reindex, gitlab, ghosts
<1>3. CASE ReindexEnds
  BY <1>3, EndedTyped, WorkSame, StoreSame, CountStep DEF ReindexEnds, gitlab, ghosts
<1>4. CASE Reload
  <2>1. WorkType'
    <3>1. jobs' = [j \in DOMAIN jobs |-> [jobs[j] EXCEPT !.waited = FALSE]]
      BY <1>4 DEF Reload
    <3>2. \A j \in DOMAIN jobs : [jobs[j] EXCEPT !.waited = FALSE] \in JobType
      BY JobTyped DEF JobType
    <3> QED
      BY <3>1, <3>2 DEF WorkType
  <2>2. PageType'
    <3>1. answers' \in Answers
      BY <1>4, EmptySeq DEF Reload, Answers
    <3> QED
      BY <1>4, <3>1 DEF Reload, PageType, Doings
  <2> QED
    BY <1>4, <2>1, <2>2, StoreSame, CountStep DEF Reload, gitlab, ghosts
<1>5. ASSUME NEW k \in DOMAIN answers, SubmitNeed(k) PROVE Typed'
  <2> DEFINE job == [epic |-> epicData, created |-> FALSE, todo |-> Stories,
                     made |-> {}, refused |-> {}, waited |-> TRUE]
  <2>1. job \in JobType
    BY <1>5 DEF SubmitNeed, PageType, JobType, Epics, NoEpic
  <2>2. jobs' = Append(jobs, job)
    BY <1>5 DEF SubmitNeed
  <2>3. WorkType'
    <3> HIDE DEF job
    <3> QED
      BY <2>1, <2>2 DEF WorkType
  <2>4. PageType'
    BY <1>5 DEF SubmitNeed, MaySubmit, PageType, Doings
  <2> QED
    BY <1>5, <2>3, <2>4, StoreSame, CountStep DEF SubmitNeed, gitlab, ghosts
<1>6. CASE TextArrives
  <2>1. answers' \in Answers /\ answers' # <<>>
    BY <1>6, Spoken DEF TextArrives, Accepted
  <2>2. PageType'
    BY <1>6, <2>1 DEF TextArrives, PageType
  <2> QED
    BY <1>6, <2>2, WorkSame, StoreSame, CountStep DEF TextArrives, gitlab, ghosts
<1>7. CASE EpicArrives
  <2>1. exchange \in Epics
    BY <1>7 DEF EpicArrives, Accepted, Streaming, PageType, Epics
  <2>2. PageType'
    BY <1>7 DEF EpicArrives, PageType
  <2>3. StoreType'
    BY <1>7, <2>1 DEF EpicArrives, StoreType, gitlab, ghosts
  <2> QED
    BY <1>7, <2>2, <2>3, WorkSame, CountStep DEF EpicArrives, ghosts
<1>8. CASE EpicRendered
  <2>1. answers' \in Answers /\ answers' # <<>>
    <3>1. CASE Say({"text", "tag"})
      BY <1>8, <3>1, Spoken DEF EpicRendered
    <3>2. CASE UNCHANGED answers
      BY <1>8, <3>2 DEF EpicRendered, PageType, Streaming
    <3> QED
      BY <1>8, <3>1, <3>2 DEF EpicRendered
  <2>2. PageType'
    BY <1>8, <2>1 DEF EpicRendered, PageType
  <2> QED
    BY <1>8, <2>2, WorkSame, StoreSame, CountStep DEF EpicRendered, gitlab, ghosts
<1>9. CASE StreamEnds
  BY <1>9, EndedTyped, WorkSame, StoreSame, CountStep DEF StreamEnds, EndStream, gitlab
<1>10. CASE ErrorArrives
  <2>1. answers' \in Answers /\ answers' # <<>>
    BY <1>10, Spoken DEF ErrorArrives
  <2>2. PageType'
    BY <1>10, <2>1 DEF ErrorArrives, EndStream, PageType, Doings
  <2> QED
    BY <1>10, <2>2, WorkSame, StoreSame, CountStep DEF ErrorArrives, gitlab, ghosts
<1>11. CASE StreamFails
  <2>1. answers' \in Answers
    <3>1. answers # <<>> /\ answers \in Seq(SUBSET {"text", "tag"})
      BY <1>11 DEF StreamFails, Streaming, PageType, Answers
    <3>2. Front(answers) \in Seq(SUBSET {"text", "tag"})
      BY <3>1 DEF Front
    <3> QED
      BY <1>11, <3>1, <3>2 DEF StreamFails, Kept, Answers
  <2>2. PageType'
    BY <1>11, <2>1 DEF StreamFails, EndStream, PageType, Doings
  <2> QED
    BY <1>11, <2>2, WorkSame, StoreSame, CountStep DEF StreamFails, gitlab, ghosts
<1>12. CASE StreamClosed
  BY <1>12, EndedTyped, WorkSame, StoreSame, CountStep DEF StreamClosed, EndStream, gitlab
<1>13. ASSUME NEW j \in DOMAIN jobs, Reject(j) PROVE Typed'
  BY <1>13, FailTyped, CountStep DEF Reject, gitlab, StoreType
<1>14. ASSUME NEW j \in DOMAIN jobs, CreateEpic(j) PROVE Typed'
  <2>1. [jobs[j] EXCEPT !.created = TRUE] \in JobType
    BY <1>14, JobTyped DEF JobType
  <2>2. WorkType'
    BY <1>14, <2>1, Updated DEF CreateEpic, Job
  <2>3. StoreType'
    BY <1>14, JobTyped DEF CreateEpic, StoreEpic, Job, StoreType, ghosts
  <2> QED
    BY <1>14, <2>2, <2>3, PageSame, CountStep DEF CreateEpic, page, ghosts
<1>15. ASSUME NEW j \in DOMAIN jobs, RepeatPost(j) PROVE Typed'
  <2>1. StoreType'
    BY <1>15, JobTyped DEF RepeatPost, StoreEpic, Job, StoreType
  <2> QED
    BY <1>15, <2>1, PageSame, WorkSame, CountStep DEF RepeatPost, page
<1>16. ASSUME NEW j \in DOMAIN jobs, EpicFails(j) PROVE Typed'
  <2>1. epics' \in [Epics -> Nat] /\ filed' \in [Epics -> [Stories -> Nat]]
    BY <1>16, JobTyped DEF EpicFails, StoreEpic, Job, StoreType
  <2> QED
    BY <1>16, <2>1, FailTyped, CountStep DEF EpicFails
<1>17. ASSUME NEW j \in DOMAIN jobs, CreateIssue(j) PROVE Typed'
  <2>1. PICK s \in Stories :
             /\ FileStory(j, s)
             /\ Update(j, [Job(j) EXCEPT !.todo = @ \ {s}, !.made = @ \cup {s}])
    BY <1>17 DEF CreateIssue
  <2>2. [jobs[j] EXCEPT !.todo = @ \ {s}, !.made = @ \cup {s}] \in JobType
    BY JobTyped, <1>17 DEF JobType
  <2>3. WorkType'
    BY <2>1, <2>2, <1>17, Updated DEF Job
  <2>4. StoreType'
    <3>1. jobs[j].epic \in Epics
      BY <1>17, JobTyped
    <3>2. filed' \in [Epics -> [Stories -> Nat]]
      BY <2>1, <3>1 DEF FileStory, Job, StoreType
    <3> QED
      BY <1>17, <3>2 DEF CreateIssue, StoreType, ghosts
  <2> QED
    BY <1>17, <2>3, <2>4, PageSame, CountStep DEF CreateIssue, page, ghosts
<1>18. ASSUME NEW j \in DOMAIN jobs, RefuseIssue(j) PROVE Typed'
  <2>1. PICK s \in Stories :
             Update(j, [Job(j) EXCEPT !.todo = Remaining(j, s), !.refused = @ \cup {s}])
    BY <1>18 DEF RefuseIssue
  <2>2. [jobs[j] EXCEPT !.todo = Remaining(j, s), !.refused = @ \cup {s}] \in JobType
    BY JobTyped, <1>18 DEF JobType, Remaining, Job
  <2>3. WorkType'
    BY <2>1, <2>2, <1>18, Updated DEF Job
  <2> QED
    BY <1>18, <2>3, PageSame, StoreSame, CountStep DEF RefuseIssue, page, gitlab, ghosts
<1>19. ASSUME NEW j \in DOMAIN jobs, IssueThrows(j) PROVE Typed'
  <2>1. PICK s \in Stories : FileStory(j, s) \/ UNCHANGED filed
    BY <1>19 DEF IssueThrows
  <2>2. jobs[j].epic \in Epics
    BY <1>19, JobTyped
  <2>3. filed' \in [Epics -> [Stories -> Nat]]
    <3>1. CASE FileStory(j, s)
      BY <2>2, <3>1 DEF FileStory, Job, StoreType
    <3>2. CASE UNCHANGED filed
      BY <3>2 DEF StoreType
    <3> QED
      BY <2>1, <3>1, <3>2
  <2>4. /\ Fail(j) /\ Mishap
        /\ UNCHANGED <<answers, exchange, epicData, rendering, ill, epics, doubled, mute>>
    BY <1>19 DEF IssueThrows
  <2> QED
    BY <1>19, <2>3, <2>4, FailTyped, CountStep DEF StoreType
<1>20. ASSUME NEW j \in DOMAIN jobs, Reply(j) PROVE Typed'
  <2>1. WorkType'
    BY <1>20, Removed DEF Reply, WorkType
  <2>2. PageType'
    <3>1. doing' \in {doing, doing \ {"submitting"}}
      BY <1>20 DEF Reply
    <3> QED
      BY <1>20, <3>1, EndedTyped DEF Reply
  <2> QED
    BY <1>20, <2>1, <2>2, StoreSame, CountStep DEF Reply, gitlab, ghosts
<1>21. ASSUME NEW j \in DOMAIN jobs, ReplyLost(j) PROVE Typed'
  <2>1. /\ jobs[j].epic \in Epics /\ [jobs[j] EXCEPT !.waited = FALSE] \in JobType
        /\ [jobs[j] EXCEPT !.waited = FALSE, !.todo = {}] \in JobType
    BY <1>21, JobTyped DEF JobType
  <2>2. WorkType'
    BY <1>21, <2>1, Updated DEF ReplyLost, Job
  <2>3. StoreType'
    BY <1>21, <2>1 DEF ReplyLost, Job, StoreType, gitlab
  <2> QED
    BY <1>21, <2>2, <2>3, EndedTyped, CountStep DEF ReplyLost
<1>22. CASE UNCHANGED vars
  BY <1>22, PageSame, WorkSame, StoreSame, CountStep DEF vars, page, gitlab, ghosts
<1> QED
  BY <1>1, <1>2, <1>3, <1>4, <1>5, <1>6, <1>7, <1>8, <1>9, <1>10, <1>11, <1>12, <1>13,
     <1>14,
     <1>15, <1>16, <1>17, <1>18, <1>19, <1>20, <1>21, <1>22 DEF Next

\* Every story of a request that is waited for is left to do, made or refused;
\* what is made is stored.
Filled(job, es, fs) ==
  job.waited =>
  IF job.created
  THEN /\ job.todo \cup job.made \cup job.refused = Stories
       /\ es[job.epic] > 0 /\ \A s \in job.made : fs[job.epic][s] > 0
  ELSE job.todo = Stories /\ job.made = {} /\ job.refused = {}

JobsOK == \A j \in DOMAIN jobs : Filled(jobs[j], epics, filed)

\* What the page shows as submitted is stored.
ResultOK ==
  result = NoResult \/
    /\ result.epic \in Epics /\ result.made \cup result.refused = Stories
    /\ epics[result.epic] > 0 /\ \A s \in result.made : filed[result.epic][s] > 0

\* The page waits for one request at most, of the last message's proposal, and
\* does nothing else meanwhile.
WaitsOK ==
  /\ \A j \in DOMAIN jobs :
       jobs[j].waited => jobs[j].epic = exchange /\ doing = {"submitting"}
  /\ \A i, j \in DOMAIN jobs : jobs[i].waited /\ jobs[j].waited => i = j

\* GitLab loses nothing.
Grown ==
  \A e \in Epics : epics'[e] >= epics[e] /\ \A s \in Stories : filed'[e][s] >= filed[e][s]

\* Storing an epic or a story.
LEMMA OneMore ==
  ASSUME StoreType, NEW j \in DOMAIN jobs, jobs[j].epic \in Epics
  PROVE  /\ StoreEpic(j) \/ UNCHANGED epics =>
              \A e \in Epics : epics'[e] >= epics[e] /\ epics'[e] \in Nat
         /\ StoreEpic(j) => epics'[jobs[j].epic] > 0
         /\ \A s \in Stories : FileStory(j, s) \/ UNCHANGED filed =>
              \A e \in Epics : \A t \in Stories : filed'[e][t] >= filed[e][t]
         /\ \A s \in Stories : FileStory(j, s) => filed'[jobs[j].epic][s] > 0
BY DEF StoreType, StoreEpic, FileStory, Job

\* No step removes an epic or an issue.
LEMMA GrowStep ==
  ASSUME Typed, [Next]_vars
  PROVE  Grown
<1>0. epics \in [Epics -> Nat] /\ filed \in [Epics -> [Stories -> Nat]]
  BY DEF Typed, StoreType
<1>1. CASE UNCHANGED gitlab
  BY <1>0, <1>1 DEF Grown, gitlab
<1>2. CASE SendMessage \/ Reindex \/ ReindexEnds \/ Reload
           \/ (\E k \in DOMAIN answers : SubmitNeed(k))
           \/ TextArrives \/ EpicArrives \/ EpicRendered
           \/ StreamEnds \/ ErrorArrives \/ StreamFails \/ StreamClosed \/ UNCHANGED vars
  BY <1>1, <1>2 DEF SendMessage, Reindex, ReindexEnds, Reload, SubmitNeed, TextArrives,
     EpicArrives, EpicRendered, StreamEnds, ErrorArrives, StreamFails, StreamClosed, vars
<1>3. ASSUME NEW j \in DOMAIN jobs,
             \/ Reject(j) \/ CreateEpic(j) \/ RepeatPost(j) \/ EpicFails(j)
             \/ CreateIssue(j) \/ RefuseIssue(j) \/ IssueThrows(j)
             \/ Reply(j) \/ ReplyLost(j)
      PROVE  Grown
  <2>0. jobs[j].epic \in Epics
    BY <1>3, JobTyped DEF Typed
  <2>1. CASE Reject(j) \/ RefuseIssue(j) \/ Reply(j) \/ ReplyLost(j)
    BY <1>1, <2>1 DEF Reject, RefuseIssue, Reply, ReplyLost
  <2>2. CASE CreateEpic(j) \/ RepeatPost(j) \/ EpicFails(j)
    <3>1. (StoreEpic(j) \/ UNCHANGED epics) /\ UNCHANGED filed
      BY <2>2 DEF CreateEpic, RepeatPost, EpicFails
    <3> QED
      BY <1>0, <1>3, <2>0, <3>1, OneMore DEF Grown, Typed
  <2>3. CASE CreateIssue(j) \/ IssueThrows(j)
    <3>1. PICK s \in Stories : (FileStory(j, s) \/ UNCHANGED filed) /\ UNCHANGED epics
      BY <2>3 DEF CreateIssue, IssueThrows
    <3> QED
      BY <1>0, <1>3, <2>0, <3>1, OneMore DEF Grown, Typed
  <2> QED
    BY <1>3, <2>1, <2>2, <2>3
<1> QED
  BY <1>2, <1>3 DEF Next

\* A request stays filled as GitLab grows.
LEMMA StillFilled ==
  ASSUME Typed, Grown, [Next]_vars, NEW job \in JobType, Filled(job, epics, filed)
  PROVE  Filled(job, epics', filed')
<1>1. Typed'
  BY TypeStep
<1>2. job.epic \in Epics /\ job.made \subseteq Stories
  BY DEF JobType
<1> QED
  BY <1>1, <1>2 DEF Filled, Grown, Typed, StoreType

\* The requests left when one is answered.
LEMMA JobsLeft ==
  ASSUME WorkType, NEW j \in DOMAIN jobs, jobs' = RemoveAt(jobs, j)
  PROVE  /\ Len(jobs) \in Nat /\ DOMAIN jobs = 1..Len(jobs) /\ DOMAIN jobs' = 1..(Len(jobs) - 1)
         /\ \A k \in DOMAIN jobs' : jobs'[k] = jobs[IF k < j THEN k ELSE k + 1]
<1>1. jobs \in Seq(JobType)
  BY DEF WorkType
<1>2. Len(jobs) \in Nat /\ DOMAIN jobs = 1..Len(jobs)
  BY <1>1
<1>3. /\ jobs' \in Seq(JobType) /\ Len(jobs') = Len(jobs) - 1
      /\ \A k \in 1..(Len(jobs) - 1) : jobs'[k] = jobs[IF k < j THEN k ELSE k + 1]
  BY <1>1, Removed
<1>4. DOMAIN jobs' = 1..(Len(jobs) - 1)
  BY <1>3
<1> QED
  BY <1>2, <1>3, <1>4

\* Every step keeps the requests filled.
LEMMA JobsStep ==
  ASSUME Typed, JobsOK, [Next]_vars
  PROVE  JobsOK'
<1>0. Grown /\ \A job \in JobType : Filled(job, epics, filed) => Filled(job, epics', filed')
  BY GrowStep, StillFilled
<1>1. \A j \in DOMAIN jobs : jobs[j] \in JobType /\ jobs[j].epic \in Epics /\ Filled(jobs[j], epics', filed')
  BY <1>0, JobTyped DEF JobsOK, Typed
<1>2. CASE UNCHANGED jobs
  BY <1>1, <1>2 DEF JobsOK, Filled
<1>3. ASSUME NEW j \in DOMAIN jobs, jobs' = RemoveAt(jobs, j) PROVE JobsOK'
  <2>1. /\ Len(jobs) \in Nat /\ DOMAIN jobs = 1..Len(jobs) /\ DOMAIN jobs' = 1..(Len(jobs) - 1)
        /\ \A k \in DOMAIN jobs' : jobs'[k] = jobs[IF k < j THEN k ELSE k + 1]
    BY <1>3, JobsLeft DEF Typed
  <2>2. \A k \in DOMAIN jobs' : \E i \in DOMAIN jobs : jobs'[k] = jobs[i]
    BY <2>1
  <2> QED
    BY <1>1, <2>2 DEF JobsOK, Filled
<1>4. ASSUME NEW j \in DOMAIN jobs, NEW job, Update(j, job), Filled(job, epics', filed') PROVE JobsOK'
  <2>1. DOMAIN jobs' = DOMAIN jobs /\ \A k \in DOMAIN jobs : jobs'[k] = IF k = j THEN job ELSE jobs[k]
    BY <1>4 DEF Update, Typed, WorkType
  <2> QED
    BY <1>1, <1>4, <2>1 DEF JobsOK, Filled
<1>5. CASE SendMessage \/ Reindex \/ ReindexEnds \/ TextArrives \/ EpicArrives \/ EpicRendered
           \/ StreamEnds \/ ErrorArrives \/ StreamFails \/ StreamClosed \/ UNCHANGED vars
  BY <1>2, <1>5 DEF SendMessage, Reindex, ReindexEnds, TextArrives, EpicArrives,
     EpicRendered,
     StreamEnds, ErrorArrives, StreamFails, StreamClosed, vars
<1>6. CASE Reload
  <2>1. /\ DOMAIN jobs' = DOMAIN jobs
        /\ \A j \in DOMAIN jobs : jobs'[j] = [jobs[j] EXCEPT !.waited = FALSE]
    BY <1>6 DEF Reload
  <2> QED
    BY <1>1, <2>1 DEF JobsOK, Filled, JobType
<1>7. ASSUME NEW k \in DOMAIN answers, SubmitNeed(k) PROVE JobsOK'
  <2> DEFINE job == [epic |-> epicData, created |-> FALSE, todo |-> Stories,
                     made |-> {}, refused |-> {}, waited |-> TRUE]
  <2>1. Filled(job, epics', filed')
    BY DEF Filled
  <2>2. jobs' = Append(jobs, job)
    BY <1>7 DEF SubmitNeed
  <2> HIDE DEF job
  <2>3. \A i \in DOMAIN jobs' : jobs'[i] = job \/ (i \in DOMAIN jobs /\ jobs'[i] = jobs[i])
    BY <2>2 DEF Typed, WorkType
  <2> QED
    BY <1>1, <2>1, <2>3 DEF JobsOK, Filled
<1>8. ASSUME NEW j \in DOMAIN jobs PROVE
        \/ Reject(j) \/ EpicFails(j) \/ IssueThrows(j) \/ Reply(j) => JobsOK'
  BY <1>3, <1>8 DEF Reject, EpicFails, IssueThrows, Reply, Fail
<1>9. ASSUME NEW j \in DOMAIN jobs, CreateEpic(j) PROVE JobsOK'
  <2>1. Update(j, [jobs[j] EXCEPT !.created = TRUE]) /\ ~jobs[j].created /\ StoreEpic(j)
    BY <1>9 DEF CreateEpic, Creating, Job
  <2>2. epics'[jobs[j].epic] > 0
    BY <1>1, <1>9, <2>1, OneMore DEF Typed
  <2>3. Filled([jobs[j] EXCEPT !.created = TRUE], epics', filed')
    BY <1>1, <1>9, <2>1, <2>2 DEF JobsOK, Filled, JobType
  <2> QED
    BY <1>4, <1>9, <2>1, <2>3
<1>10. ASSUME NEW j \in DOMAIN jobs, CreateIssue(j) PROVE JobsOK'
  <2>1. PICK s \in Stories :
             /\ Filing(j, s) /\ FileStory(j, s)
             /\ Update(j, [Job(j) EXCEPT !.todo = @ \ {s}, !.made = @ \cup {s}])
    BY <1>10 DEF CreateIssue
  <2> DEFINE job == [jobs[j] EXCEPT !.todo = @ \ {s}, !.made = @ \cup {s}]
  <2>2. filed'[jobs[j].epic][s] > 0
    BY <1>1, <1>10, <2>1, OneMore DEF Typed
  <2>3. jobs[j].created /\ s \in jobs[j].todo
    BY <2>1 DEF Filing, Job
  <2>4. Filled(job, epics', filed')
    BY <1>1, <1>10, <2>2, <2>3 DEF Filled, JobType
  <2> QED
    BY <1>4, <1>10, <2>1, <2>4 DEF Job
<1>11. ASSUME NEW j \in DOMAIN jobs, RefuseIssue(j) PROVE JobsOK'
  <2>1. PICK s \in Stories :
             /\ Filing(j, s)
             /\ Update(j, [Job(j) EXCEPT !.todo = Remaining(j, s), !.refused = @ \cup {s}])
    BY <1>11 DEF RefuseIssue
  <2> DEFINE job == [jobs[j] EXCEPT !.todo = Remaining(j, s), !.refused = @ \cup {s}]
  <2>3. jobs[j].created /\ s \in jobs[j].todo
    BY <2>1 DEF Filing, Job
  <2>4. Filled(job, epics', filed')
    BY <1>1, <1>11, <2>3 DEF Filled, JobType, Remaining, Job
  <2> QED
    BY <1>4, <1>11, <2>1, <2>4 DEF Job
<1>12. ASSUME NEW j \in DOMAIN jobs, ReplyLost(j) PROVE JobsOK'
  <2>1. PICK job : Update(j, job) /\ ~job.waited
    <3>1. /\ ~[jobs[j] EXCEPT !.waited = FALSE].waited
          /\ ~[jobs[j] EXCEPT !.waited = FALSE, !.todo = {}].waited
      BY <1>1, <1>12 DEF JobType
    <3> QED
      BY <1>12, <3>1 DEF ReplyLost, Job
  <2> QED
    BY <1>4, <1>12, <2>1 DEF Filled
<1>13. ASSUME NEW j \in DOMAIN jobs, RepeatPost(j) PROVE JobsOK'
  BY <1>2, <1>13 DEF RepeatPost
<1> QED
  BY <1>5, <1>6, <1>7, <1>8, <1>9, <1>10, <1>11, <1>12, <1>13 DEF Next

\* Only an answered request changes what the page shows as submitted.
LEMMA ResultStep ==
  ASSUME Typed, JobsOK, ResultOK, [Next]_vars
  PROVE  ResultOK'
<1>0. Grown /\ Typed'
  BY GrowStep, TypeStep
<1>1. CASE UNCHANGED result
  BY <1>0, <1>1 DEF ResultOK, Grown, Typed, StoreType
<1>2. CASE result' = NoResult
  BY <1>2 DEF ResultOK
<1>3. ASSUME NEW j \in DOMAIN jobs, Reply(j), Job(j).waited PROVE ResultOK'
  <2>1. /\ jobs[j].epic \in Epics /\ jobs[j].created /\ jobs[j].todo = {} /\ jobs[j].waited
        /\ Filled(jobs[j], epics, filed)
    BY <1>3, JobTyped DEF Reply, Job, JobsOK, Typed
  <2>2. /\ result' = [made |-> jobs[j].made, refused |-> jobs[j].refused, epic |-> jobs[j].epic]
        /\ UNCHANGED <<epics, filed>>
    BY <1>3 DEF Reply, Job, gitlab
  <2> QED
    BY <2>1, <2>2 DEF ResultOK, Filled
<1>4. UNCHANGED result \/ result' = NoResult \/ (\E j \in DOMAIN jobs : Reply(j) /\ Job(j).waited)
  BY DEF Next, SendMessage, Reindex, ReindexEnds, Reload, SubmitNeed, TextArrives,
     EpicArrives,
     EpicRendered, StreamEnds, ErrorArrives, StreamFails, StreamClosed, Reject, CreateEpic,
     RepeatPost, EpicFails, CreateIssue, RefuseIssue, IssueThrows, Reply, ReplyLost, vars, page
<1> QED
  BY <1>1, <1>2, <1>3, <1>4

\* Every step keeps WaitsOK.
LEMMA WaitsStep ==
  ASSUME Typed, WaitsOK, [Next]_vars
  PROVE  WaitsOK'
<1>0. /\ jobs \in Seq(JobType) /\ doing \in Doings
      /\ \A j \in DOMAIN jobs : jobs[j] \in JobType
  BY JobTyped DEF Typed, WorkType, PageType
<1>1. CASE UNCHANGED <<jobs, exchange, doing>>
  BY <1>1 DEF WaitsOK
<1>2. CASE \A j \in DOMAIN jobs' : ~jobs'[j].waited
  BY <1>2 DEF WaitsOK
<1>3. CASE jobs' = jobs /\ doing # {"submitting"}
  BY <1>2, <1>3 DEF WaitsOK
<1>4. ASSUME NEW j \in DOMAIN jobs, jobs' = RemoveAt(jobs, j), exchange' = exchange,
             doing' = IF jobs[j].waited THEN doing \ {"submitting"} ELSE doing
      PROVE  WaitsOK'
  <2>1. /\ DOMAIN jobs' = 1..(Len(jobs) - 1) /\ DOMAIN jobs = 1..Len(jobs) /\ Len(jobs) \in Nat
        /\ \A k \in DOMAIN jobs' : jobs'[k] = jobs[IF k < j THEN k ELSE k + 1]
    BY <1>4, JobsLeft DEF Typed
  <2>2. \A k \in DOMAIN jobs' : (IF k < j THEN k ELSE k + 1) \in DOMAIN jobs \ {j}
    BY <2>1
  <2>3. CASE jobs[j].waited
    BY <1>2, <2>1, <2>2, <2>3 DEF WaitsOK
  <2>4. CASE ~jobs[j].waited
    BY <1>4, <2>1, <2>2, <2>4 DEF WaitsOK
  <2> QED
    BY <2>3, <2>4
<1>5. ASSUME NEW j \in DOMAIN jobs, NEW job, Update(j, job), job.waited => jobs[j].waited,
             job.epic = jobs[j].epic, exchange' = exchange,
             doing' = doing \/ (jobs[j].waited /\ ~job.waited)
      PROVE  WaitsOK'
  <2>1. /\ DOMAIN jobs' = DOMAIN jobs
        /\ \A k \in DOMAIN jobs : jobs'[k] = IF k = j THEN job ELSE jobs[k]
    BY <1>0, <1>5 DEF Update
  <2> QED
    BY <1>5, <2>1 DEF WaitsOK
<1>6. CASE SendMessage \/ Reindex \/ ReindexEnds \/ StreamEnds \/ ErrorArrives \/ StreamFails
           \/ StreamClosed
  <2>1. jobs' = jobs
    BY <1>6 DEF SendMessage, Reindex, ReindexEnds, StreamEnds, ErrorArrives, StreamFails,
       StreamClosed
  <2>2. doing = {} \/ "streaming" \in doing \/ "reindexing" \in doing
    BY <1>6 DEF SendMessage, MaySend, Reindex, MayReindex, ReindexEnds, StreamEnds,
       ErrorArrives, StreamFails, StreamClosed, Streaming, Accepted
  <2>3. doing # {"submitting"}
    BY <2>2
  <2> QED
    BY <1>3, <2>1, <2>3
<1>7. CASE TextArrives \/ EpicArrives \/ EpicRendered \/ UNCHANGED vars
  BY <1>1, <1>7 DEF TextArrives, EpicArrives, EpicRendered, vars, page
<1>8. CASE Reload
  <2>1. jobs' = [j \in DOMAIN jobs |-> [jobs[j] EXCEPT !.waited = FALSE]]
    BY <1>8 DEF Reload
  <2> QED
    BY <1>0, <1>2, <2>1 DEF JobType
<1>9. ASSUME NEW k \in DOMAIN answers, SubmitNeed(k) PROVE WaitsOK'
  <2> DEFINE job == [epic |-> epicData, created |-> FALSE, todo |-> Stories,
                     made |-> {}, refused |-> {}, waited |-> TRUE]
  <2>1. /\ jobs' = Append(jobs, job) /\ doing = {} /\ doing' = {"submitting"}
        /\ exchange' = exchange /\ job.epic = exchange
    BY <1>9 DEF SubmitNeed, MaySubmit, Typed, PageType
  <2>2. \A j \in DOMAIN jobs : ~jobs[j].waited
    BY <2>1 DEF WaitsOK
  <2> HIDE DEF job
  <2>3. \A i \in DOMAIN jobs' : \/ i = Len(jobs) + 1 /\ jobs'[i] = job
                                \/ i \in DOMAIN jobs /\ jobs'[i] = jobs[i]
    BY <1>0, <2>1
  <2> QED
    BY <2>1, <2>2, <2>3 DEF WaitsOK
<1>10. ASSUME NEW j \in DOMAIN jobs, Reject(j) \/ EpicFails(j) \/ IssueThrows(j) \/ Reply(j)
       PROVE  WaitsOK'
  <2>1. /\ jobs' = RemoveAt(jobs, j) /\ exchange' = exchange
        /\ doing' = IF jobs[j].waited THEN doing \ {"submitting"} ELSE doing
    BY <1>10 DEF Reject, EpicFails, IssueThrows, Reply, Fail, Job
  <2> QED
    BY <1>4, <1>10, <2>1
<1>11. ASSUME NEW j \in DOMAIN jobs, CreateEpic(j) \/ CreateIssue(j) \/ RefuseIssue(j) \/ ReplyLost(j)
       PROVE  WaitsOK'
  <2>1. CASE CreateEpic(j)
    <3> DEFINE job == [jobs[j] EXCEPT !.created = TRUE]
    <3>1. job.waited = jobs[j].waited /\ job.epic = jobs[j].epic
      BY <1>0, <1>11 DEF JobType
    <3>2. Update(j, job) /\ UNCHANGED <<exchange, doing>>
      BY <2>1 DEF CreateEpic, Job, page
    <3> QED
      BY <1>5, <1>11, <3>1, <3>2
  <2>2. CASE CreateIssue(j) \/ RefuseIssue(j)
    <3>1. PICK todo, made, refused :
               /\ Update(j, [jobs[j] EXCEPT !.todo = todo, !.made = made, !.refused = refused])
               /\ UNCHANGED <<exchange, doing>>
      <4>1. CASE CreateIssue(j)
        <5>1. PICK s : Update(j, [jobs[j] EXCEPT !.todo = @ \ {s}, !.made = @ \cup {s}])
          BY <4>1 DEF CreateIssue, Job
        <5>2. [jobs[j] EXCEPT !.todo = @ \ {s}, !.made = @ \cup {s}]
                = [jobs[j] EXCEPT !.todo = jobs[j].todo \ {s}, !.made = jobs[j].made \cup {s},
                                  !.refused = jobs[j].refused]
          BY <1>0, <1>11 DEF JobType
        <5>3. /\ Update(j, [jobs[j] EXCEPT !.todo = jobs[j].todo \ {s},
                                           !.made = jobs[j].made \cup {s},
                                           !.refused = jobs[j].refused])
              /\ UNCHANGED <<exchange, doing>>
          BY <4>1, <5>1, <5>2 DEF CreateIssue, page
        <5> QED
          BY <5>3
      <4>2. CASE RefuseIssue(j)
        <5>1. PICK s : Update(j, [jobs[j] EXCEPT !.todo = Remaining(j, s), !.refused = @ \cup {s}])
          BY <4>2 DEF RefuseIssue, Job
        <5>2. [jobs[j] EXCEPT !.todo = Remaining(j, s), !.refused = @ \cup {s}]
                = [jobs[j] EXCEPT !.todo = Remaining(j, s), !.made = jobs[j].made,
                                  !.refused = jobs[j].refused \cup {s}]
          BY <1>0, <1>11 DEF JobType
        <5> QED
          BY <4>2, <5>1, <5>2 DEF RefuseIssue, page
      <4> QED
        BY <2>2, <4>1, <4>2
    <3> DEFINE job == [jobs[j] EXCEPT !.todo = todo, !.made = made, !.refused = refused]
    <3>2. job.waited = jobs[j].waited /\ job.epic = jobs[j].epic
      BY <1>0, <1>11 DEF JobType
    <3> QED
      BY <1>5, <1>11, <3>1, <3>2
  <2>3. CASE ReplyLost(j)
    <3>1. \A job \in {[jobs[j] EXCEPT !.waited = FALSE],
                     [jobs[j] EXCEPT !.waited = FALSE, !.todo = {}]} :
            ~job.waited /\ job.epic = jobs[j].epic
      BY <1>0, <1>11 DEF JobType
    <3>2. PICK job : /\ Update(j, job) /\ ~job.waited /\ job.epic = jobs[j].epic
                     /\ UNCHANGED exchange /\ jobs[j].waited
      BY <2>3, <3>1 DEF ReplyLost, Job
    <3> QED
      BY <1>5, <1>11, <3>2
  <2> QED
    BY <1>11, <2>1, <2>2, <2>3
<1>12. ASSUME NEW j \in DOMAIN jobs, RepeatPost(j) PROVE WaitsOK'
  BY <1>1, <1>12 DEF RepeatPost, page
<1> QED
  BY <1>6, <1>7, <1>8, <1>9, <1>10, <1>11, <1>12 DEF Next

\* The empty answers of the history, the one being streamed apart.
Empties ==
  {k \in DOMAIN answers : answers[k] = {} /\ ~(Streaming /\ k = Len(answers))}

\* No empty answer is added.
LEMMA Few ==
  ASSUME HistoryIsValid, mute \in Nat, IsFiniteSet(Empties),
         Empties' \subseteq Empties, mute' = mute
  PROVE  HistoryIsValid'
<1>1. HistoryIsValid <=> Cardinality(Empties) <= mute
  BY DEF HistoryIsValid, Empties
<1>2. HistoryIsValid' <=> Cardinality(Empties)' <= mute'
  BY DEF HistoryIsValid, Empties
<1>3. /\ Cardinality(Empties') <= Cardinality(Empties)
      /\ Cardinality(Empties) \in Nat /\ Cardinality(Empties') \in Nat
  BY FS_Subset, FS_CardinalityType
<1> QED
  BY <1>1, <1>2, <1>3

\* A stream that ends well adds one at most, and is counted.
LEMMA OneMoreEmpty ==
  ASSUME PageType, HistoryIsValid, mute \in Nat, IsFiniteSet(Empties), Streaming,
         UNCHANGED answers, EndStream, Muted
  PROVE  HistoryIsValid'
<1> DEFINE n == Len(answers)
<1>1. answers # <<>> /\ n \in DOMAIN answers
  BY DEF PageType, Answers, Streaming
<1>2. ~Streaming'
  BY DEF EndStream, Streaming
<1>3. HistoryIsValid <=> Cardinality(Empties) <= mute
  BY DEF HistoryIsValid, Empties
<1>4. HistoryIsValid' <=> Cardinality(Empties)' <= mute'
  BY DEF HistoryIsValid, Empties
<1>5. CASE answers[n] = {}
  <2>1. mute' = mute + 1
    BY <1>5 DEF Muted, Last
  <2>2. n \notin Empties
    BY DEF Empties
  <2>3. Empties' \subseteq Empties \cup {n}
    BY <1>2 DEF Empties
  <2>4. IsFiniteSet(Empties \cup {n}) /\ Cardinality(Empties \cup {n}) = Cardinality(Empties) + 1
    BY <2>2, FS_AddElement
  <2>5. Cardinality(Empties') <= Cardinality(Empties \cup {n})
    BY <2>3, <2>4, FS_Subset
  <2>6. Cardinality(Empties) \in Nat /\ Cardinality(Empties') \in Nat
    BY <2>3, <2>4, FS_Subset, FS_CardinalityType
  <2> QED
    BY <1>3, <1>4, <2>1, <2>4, <2>5, <2>6
<1>6. CASE answers[n] # {}
  <2>1. mute' = mute
    BY <1>6 DEF Muted, Last
  <2>2. Empties' \subseteq Empties
    BY <1>1, <1>2, <1>6 DEF Empties
  <2> QED
    BY <2>1, <2>2, Few
<1> QED
  BY <1>5, <1>6

\* Every step keeps HistoryIsValid.
LEMMA HistoryStep ==
  ASSUME Typed, HistoryIsValid, [Next]_vars
  PROVE  HistoryIsValid'
<1>0. PageType /\ mute \in Nat /\ answers \in Seq(SUBSET {"text", "tag"}) /\ Len(answers) \in Nat
  BY DEF Typed, PageType, CountType, Answers
<1>1. IsFiniteSet(Empties)
  <2>1. Empties \subseteq 1..Len(answers)
    BY <1>0 DEF Empties
  <2> QED
    <3>1. IsFiniteSet(1..Len(answers))
      BY <1>0, FS_Interval
    <3> QED
      BY <2>1, <3>1, FS_Subset
<1>2. CASE UNCHANGED <<answers, mute>> /\ (Streaming' <=> Streaming)
  <2>1. Empties' = Empties
    BY <1>2 DEF Empties
  <2> QED
    BY <1>0, <1>1, <1>2, <2>1, Few
<1>3. CASE Reindex \/ ReindexEnds \/ (\E k \in DOMAIN answers : SubmitNeed(k)) \/ EpicArrives
           \/ UNCHANGED vars
  <2>1. UNCHANGED <<answers, mute>>
    BY <1>3 DEF Reindex, ReindexEnds, SubmitNeed, EpicArrives, vars, page, ghosts
  <2>2. Streaming' <=> Streaming
    BY <1>3 DEF Reindex, ReindexEnds, SubmitNeed, EpicArrives, vars, page, Streaming
  <2> QED
    BY <1>2, <2>1, <2>2
<1>4. CASE \E j \in DOMAIN jobs :
             \/ Reject(j) \/ CreateEpic(j) \/ RepeatPost(j) \/ EpicFails(j)
             \/ CreateIssue(j) \/ RefuseIssue(j) \/ IssueThrows(j)
             \/ Reply(j) \/ ReplyLost(j)
  <2>1. UNCHANGED <<answers, mute>>
    BY <1>4 DEF Reject, CreateEpic, RepeatPost, EpicFails, CreateIssue, RefuseIssue,
       IssueThrows,
       Reply, ReplyLost, page, ghosts
  <2>2. doing' = doing \/ doing' = doing \ {"submitting"}
    BY <1>4 DEF Reject, CreateEpic, RepeatPost, EpicFails, CreateIssue, RefuseIssue,
       IssueThrows,
       Reply, ReplyLost, page, Fail
  <2> QED
    BY <1>2, <2>1, <2>2 DEF Streaming
<1>5. CASE SendMessage
  <2>1. /\ answers' = Append(answers, {}) /\ mute' = mute /\ doing = {}
        /\ doing' = doing \cup {"streaming"}
    BY <1>5 DEF SendMessage, MaySend, ghosts
  <2>2. Empties' \subseteq Empties
    BY <1>0, <2>1 DEF Empties, Streaming
  <2> QED
    BY <1>0, <1>1, <2>1, <2>2, Few
<1>6. CASE Reload
  <2>1. answers' = <<>> /\ mute' = mute
    BY <1>6 DEF Reload, ghosts
  <2>2. Empties' \subseteq Empties
    BY <2>1 DEF Empties
  <2> QED
    BY <1>0, <1>1, <2>1, <2>2, Few
<1>7. CASE (TextArrives \/ EpicRendered \/ ErrorArrives) /\ ~UNCHANGED answers
  <2>1. PICK parts : Say(parts) /\ parts # {} /\ mute' = mute /\ Streaming
    BY <1>7 DEF TextArrives, EpicRendered, ErrorArrives, Accepted, ghosts
  <2>2. /\ answers' = [answers EXCEPT ![Len(answers)] = @ \cup parts]
        /\ DOMAIN answers' = DOMAIN answers /\ Len(answers') = Len(answers)
    BY <1>0, <2>1 DEF Say
  <2>3. \A k \in DOMAIN answers :
          answers'[k] = {} => answers[k] = {} /\ k # Len(answers)
    BY <2>1, <2>2
  <2>4. Empties' \subseteq Empties
    BY <2>2, <2>3 DEF Empties
  <2> QED
    BY <1>0, <1>1, <2>1, <2>4, Few
<1>10. CASE (TextArrives \/ EpicRendered) /\ UNCHANGED answers
  <2>1. mute' = mute /\ doing' = doing
    BY <1>10 DEF TextArrives, EpicRendered, ghosts
  <2> QED
    BY <1>2, <1>10, <2>1 DEF Streaming
<1>11. CASE ErrorArrives /\ UNCHANGED answers
  <2>1. Say({"text"}) /\ mute' = mute /\ Streaming /\ answers # <<>>
    BY <1>0, <1>11 DEF ErrorArrives, ghosts, PageType, Streaming
  <2>2. Empties' \subseteq Empties
    BY <1>0, <1>11, <2>1 DEF Say, Empties
  <2> QED
    BY <1>0, <1>1, <2>1, <2>2, Few
<1>8. CASE StreamEnds \/ StreamClosed
  BY <1>0, <1>1, <1>8, OneMoreEmpty DEF StreamEnds, StreamClosed, Accepted
<1>9. CASE StreamFails
  <2>1. answers' = Kept /\ mute' = mute /\ ~Streaming' /\ Streaming
    BY <1>9 DEF StreamFails, EndStream, Streaming, ghosts
  <2>2. answers # <<>>
    BY <1>0, <2>1 DEF PageType, Streaming
  <2>3. CASE answers[Len(answers)] = {}
    <3>1. answers' = SubSeq(answers, 1, Len(answers) - 1)
      BY <2>1, <2>3 DEF Kept, Last, Front
    <3>2. /\ DOMAIN answers' = 1..(Len(answers) - 1)
          /\ \A k \in 1..(Len(answers) - 1) : answers'[k] = answers[k]
      BY <1>0, <2>2, <3>1
    <3>3. Empties' \subseteq Empties
      BY <1>0, <3>2 DEF Empties
    <3> QED
      BY <1>0, <1>1, <2>1, <3>3, Few
  <2>4. CASE answers[Len(answers)] # {}
    <3>1. answers' = answers
      BY <2>1, <2>4 DEF Kept, Last
    <3>2. Empties' \subseteq Empties
      BY <2>4, <3>1 DEF Empties
    <3> QED
      BY <1>0, <1>1, <2>1, <3>2, Few
  <2> QED
    BY <2>3, <2>4
<1> QED
  BY <1>3, <1>4, <1>5, <1>6, <1>7, <1>8, <1>9, <1>10, <1>11 DEF Next

\* The inductive invariant.
IInv == Typed /\ JobsOK /\ ResultOK /\ WaitsOK /\ HistoryIsValid

\* The initial state.
LEMMA Starts == Init => IInv
<1> SUFFICES ASSUME Init PROVE IInv
  OBVIOUS
<1>1. answers = <<>> /\ jobs = <<>> /\ answers \in Answers /\ jobs \in Seq(JobType)
  BY EmptySeq DEF Init, Answers
<1>2. Typed
  <2>1. PageType
    <3>1. /\ exchange = 0 /\ doing = {} /\ epicData = NoEpic /\ rendering = FALSE
          /\ 0 \in 0..MaxExchanges
      BY DEF Init
    <3> QED
      BY <1>1, <3>1 DEF PageType, Doings
  <2>2. StoreType
    BY DEF Init, StoreType
  <2>3. CountType
    BY DEF Init, CountType
  <2> QED
    BY <1>1, <2>1, <2>2, <2>3 DEF Typed, WorkType
<1>3. JobsOK /\ WaitsOK
  BY <1>1 DEF JobsOK, WaitsOK
<1>4. ResultOK
  BY DEF Init, ResultOK
<1>5. HistoryIsValid
  <2>1. Empties = {} /\ mute = 0
    BY <1>1 DEF Init, Empties
  <2>2. HistoryIsValid <=> Cardinality(Empties) <= mute
    BY DEF HistoryIsValid, Empties
  <2> QED
    BY <2>1, <2>2, FS_EmptySet
<1> QED
  BY <1>2, <1>3, <1>4, <1>5 DEF IInv

\* The invariant the other theorems rest on.
THEOREM Invariance == Spec => []IInv
<1>1. IInv /\ [Next]_vars => IInv'
  BY TypeStep, JobsStep, ResultStep, WaitsStep, HistoryStep DEF IInv
<1> QED
  BY <1>1, Starts, PTL DEF Spec

\* The page of the chat streams, submits or re-indexes, never two at once, and
\* the portal's state keeps its type.
THEOREM TypeCorrect == Spec => []TypeOK
<1>1. Typed => Cardinality(doing) <= 1
  <2>1. \A w : Cardinality({w}) = 1
    BY FS_Singleton
  <2>2. ASSUME Typed PROVE doing = {} \/ \E w : doing = {w}
    BY <2>2 DEF Typed, PageType, Doings
  <2>3. ASSUME Typed PROVE Cardinality(doing) \in {0, 1}
    BY <2>1, <2>2, <2>3, FS_EmptySet
  <2> QED
    BY <2>3
<1>2. Typed => TypeOK
  <2>1. PageType => /\ answers \in Seq(SUBSET {"text", "tag"}) /\ exchange \in 0..MaxExchanges
                    /\ epicData \in Epics \cup {NoEpic} /\ rendering \in BOOLEAN
                    /\ doing \subseteq {"streaming", "submitting", "reindexing"}
    BY DEF PageType, Answers, Epics, NoEpic, Doings
  <2> QED
    BY <1>1, <2>1 DEF Typed, TypeOK, WorkType, JobType, StoreType, CountType
<1> QED
  BY <1>2, Invariance, PTL DEF IInv

\* When the page says a need was submitted, each story of its epic was created
\* in GitLab or refused by it, however many requests ran, failed or were
\* repeated.
THEOREM SubmittedIsComplete == Spec => []SuccessIsComplete
<1>1. ResultOK => SuccessIsComplete
  BY DEF ResultOK, SuccessIsComplete
<1> QED
  BY <1>1, Invariance, PTL DEF IInv

\* The history sent to the API holds no more empty answers than streams that
\* ended well without a word: a failed one leaves none.
THEOREM HistoryStaysValid == Spec => []HistoryIsValid
BY Invariance, PTL DEF IInv

\* An epic is created only of the last message's proposal, or by a request the
\* page had stopped waiting for.
THEOREM EpicsAreCurrent == Spec => NoSupersededEpic
<1>1. IInv /\ [Next]_vars =>
        [\A e \in Epics :
           epics'[e] > epics[e] =>
             \/ e = exchange
             \/ \E j \in DOMAIN jobs : jobs[j].epic = e /\ ~jobs[j].waited]_vars
  <2> SUFFICES ASSUME IInv, Next, NEW e \in Epics, epics'[e] > epics[e],
                      \A j \in DOMAIN jobs : jobs[j].epic = e => jobs[j].waited
               PROVE  e = exchange
    OBVIOUS
  <2>0. epics \in [Epics -> Nat]
    BY DEF IInv, Typed, StoreType
  <2>1. epics' # epics
    BY <2>0
  <2>2. \E j \in DOMAIN jobs : StoreEpic(j)
    BY <2>1 DEF Next, SendMessage, Reindex, ReindexEnds, Reload, SubmitNeed, TextArrives,
       EpicArrives, EpicRendered, StreamEnds, ErrorArrives, StreamFails, StreamClosed, Reject,
       CreateEpic, RepeatPost, EpicFails, CreateIssue, RefuseIssue, IssueThrows, Reply, ReplyLost,
       gitlab
  <2>3. PICK j \in DOMAIN jobs : epics' = [epics EXCEPT ![jobs[j].epic] = @ + 1]
    BY <2>2 DEF StoreEpic, Job
  <2>4. jobs[j].epic = e
    BY <2>0, <2>3
  <2> QED
    BY <2>3, <2>4 DEF IInv, WaitsOK
<1> QED
  BY <1>1, Invariance, PTL DEF Spec, NoSupersededEpic

----------------------------------------------------------------------------
(* What a proposal owes *)

\* What a request creates: its epic, and each of its stories.
TheEpic == 0
Parts == {TheEpic} \cup Stories

\* The request has still to create the part.
Owes(job, w) == IF w = TheEpic THEN ~job.created ELSE w \in job.todo

Owing(e, w) == {j \in DOMAIN jobs : jobs[j].epic = e /\ Owes(jobs[j], w)}

\* What was created of the proposal, and what may have been created in excess.
Made(e, w) == IF w = TheEpic THEN epics[e] ELSE filed[e][w]
Excused(e, w) == failures[e] + (IF w = TheEpic THEN doubled[e] ELSE 0)

\* The proposal may still be submitted, without an error in between.
Fresh(e) ==
  \/ e > exchange
  \/ /\ result = NoResult /\ (epicData = e \/ (e = exchange /\ Streaming))
     /\ \A j \in DOMAIN jobs : jobs[j].epic = e => ~jobs[j].waited

\* What exists, what requests will still create and what a submission to come
\* would are no more than one and what errors and repeated POSTs excuse.
Budget(e, w) ==
  Made(e, w) + Cardinality(Owing(e, w)) + (IF Fresh(e) THEN 1 ELSE 0) <= 1 + Excused(e, w)

BudgetOK == \A e \in Epics, w \in Parts : Budget(e, w)

\* The quantities compared are natural numbers.
LEMMA BudgetTyped ==
  ASSUME Typed, NEW e \in Epics, NEW w \in Parts
  PROVE  /\ Made(e, w) \in Nat /\ Excused(e, w) \in Nat /\ failures[e] \in Nat
         /\ IsFiniteSet(Owing(e, w)) /\ Cardinality(Owing(e, w)) \in Nat
<1>1. Made(e, w) \in Nat /\ Excused(e, w) \in Nat /\ failures[e] \in Nat
  BY DEF Typed, StoreType, Made, Excused, Parts
<1>2. Len(jobs) \in Nat /\ Owing(e, w) \subseteq 1..Len(jobs)
  BY DEF Typed, WorkType, Owing
<1>3. IsFiniteSet(1..Len(jobs))
  BY <1>2, FS_Interval
<1> QED
  BY <1>1, <1>2, <1>3, FS_Subset, FS_CardinalityType

\* A request that is answered leaves the others to owe what they did.
LEMMA OwingLeft ==
  ASSUME Typed, NEW j \in DOMAIN jobs, jobs' = RemoveAt(jobs, j), NEW e \in Epics,
         NEW w \in Parts
  PROVE  Cardinality(Owing(e, w)') + (IF j \in Owing(e, w) THEN 1 ELSE 0)
           <= Cardinality(Owing(e, w))
<1> DEFINE from == [k \in Owing(e, w)' |-> IF k < j THEN k ELSE k + 1]
           left == Owing(e, w) \ {j}
<1>1. /\ Len(jobs) \in Nat /\ DOMAIN jobs = 1..Len(jobs) /\ DOMAIN jobs' = 1..(Len(jobs) - 1)
      /\ \A k \in DOMAIN jobs' : jobs'[k] = jobs[IF k < j THEN k ELSE k + 1]
  BY JobsLeft DEF Typed
<1>2. \A k \in Owing(e, w)' : k \in 1..(Len(jobs) - 1) /\ from[k] \in left
  BY <1>1 DEF Owing, Owes
<1>3. \A k, l \in Owing(e, w)' : from[k] = from[l] => k = l
  BY <1>1, <1>2
<1>4. IsFiniteSet(Owing(e, w)) /\ Cardinality(Owing(e, w)) \in Nat
  BY BudgetTyped
<1>5. /\ IsFiniteSet(left)
      /\ Cardinality(left) = IF j \in Owing(e, w) THEN Cardinality(Owing(e, w)) - 1
                                                  ELSE Cardinality(Owing(e, w))
  BY <1>4, FS_RemoveElement
<1>6. from \in Injection(Owing(e, w)', left)
  <2>1. from \in [Owing(e, w)' -> left]
    BY <1>2
  <2> HIDE DEF from, left
  <2> QED
    BY <1>3, <2>1 DEF Injection, IsInjective
<1> HIDE DEF from, left
<1>7. IsFiniteSet(Owing(e, w)') /\ Cardinality(Owing(e, w)') <= Cardinality(left)
  BY <1>5, <1>6, FS_Injection
<1>8. Cardinality(Owing(e, w)') \in Nat
  BY <1>7, FS_CardinalityType
<1> QED
  BY <1>4, <1>5, <1>7, <1>8

\* A request that goes on owes no more than it did.
LEMMA OwingUpdated ==
  ASSUME Typed, NEW j \in DOMAIN jobs, NEW job, Update(j, job), job.epic = jobs[j].epic,
         NEW e \in Epics, NEW w \in Parts, Owes(job, w) => Owes(jobs[j], w)
  PROVE  Cardinality(Owing(e, w)')
           + (IF j \in Owing(e, w) /\ ~Owes(job, w) THEN 1 ELSE 0)
           <= Cardinality(Owing(e, w))
<1>1. /\ DOMAIN jobs' = DOMAIN jobs
      /\ \A k \in DOMAIN jobs : jobs'[k] = IF k = j THEN job ELSE jobs[k]
  BY DEF Update, Typed, WorkType
<1>2. IsFiniteSet(Owing(e, w)) /\ Cardinality(Owing(e, w)) \in Nat
  BY BudgetTyped
<1>3. CASE Owes(job, w)
  <2>1. Owing(e, w)' = Owing(e, w)
    BY <1>1, <1>3 DEF Owing, Owes
  <2> QED
    BY <1>2, <1>3, <2>1
<1>4. CASE ~Owes(job, w)
  <2>1. Owing(e, w)' = Owing(e, w) \ {j}
    BY <1>1, <1>4 DEF Owing, Owes
  <2>2. Cardinality(Owing(e, w) \ {j}) = IF j \in Owing(e, w) THEN Cardinality(Owing(e, w)) - 1
                                                              ELSE Cardinality(Owing(e, w))
    BY <1>2, FS_RemoveElement
  <2> QED
    BY <1>2, <1>4, <2>1, <2>2
<1> QED
  BY <1>3, <1>4

\* Only an error makes a proposal ready to be submitted again.
LEMMA FreshStep ==
  ASSUME Typed, WaitsOK, [Next]_vars, NEW e \in Epics, Fresh(e)'
  PROVE  Fresh(e) \/ failures'[e] = failures[e] + 1
<1>0. /\ doing \in Doings /\ epicData \in {NoEpic, exchange} /\ exchange \in Nat
      /\ e # NoEpic /\ e \in Nat /\ failures \in [Epics -> Nat]
  BY DEF Typed, PageType, StoreType, Epics, NoEpic
<1> USE <1>0
<1>2. CASE SendMessage
  <2>1. /\ exchange' = exchange + 1 /\ epicData' = NoEpic /\ doing = {} /\ jobs' = jobs
    BY <1>2 DEF SendMessage, MaySend, Superseded
  <2>2. e > exchange
    BY <2>1 DEF Fresh
  <2> QED
    BY <2>2 DEF Fresh
<1>3. CASE Reload
  <2>1. /\ exchange' = exchange /\ epicData' = NoEpic /\ doing' = {}
    BY <1>3 DEF Reload
  <2> QED
    BY <2>1 DEF Fresh, Streaming
<1>4. CASE Reindex \/ ReindexEnds \/ TextArrives \/ EpicRendered \/ StreamEnds
           \/ ErrorArrives \/ StreamFails \/ StreamClosed \/ UNCHANGED vars
  <2>1. UNCHANGED <<exchange, result, epicData, jobs>>
    BY <1>4 DEF Reindex, ReindexEnds, TextArrives, EpicRendered, StreamEnds, ErrorArrives,
       StreamFails, StreamClosed, vars, page
  <2>2. Streaming' => Streaming
    BY <1>4 DEF Reindex, ReindexEnds, TextArrives, EpicRendered, StreamEnds, ErrorArrives,
       StreamFails, StreamClosed, vars, page, EndStream, Streaming
  <2> QED
    BY <2>1, <2>2 DEF Fresh
<1>5. CASE EpicArrives
  <2>1. /\ UNCHANGED <<exchange, result, jobs, doing>> /\ epicData' = exchange /\ Streaming
    BY <1>5 DEF EpicArrives, Accepted
  <2> QED
    BY <2>1 DEF Fresh, Streaming
<1>6. ASSUME NEW k \in DOMAIN answers, SubmitNeed(k)
      PROVE  Fresh(e)
  <2>1. /\ UNCHANGED <<exchange, result, epicData>> /\ doing = {} /\ doing' = {"submitting"}
        /\ result = NoResult
    BY <1>6 DEF SubmitNeed, MaySubmit
  <2>2. \A j \in DOMAIN jobs : ~jobs[j].waited
    BY <2>1 DEF WaitsOK
  <2> QED
    BY <2>1, <2>2 DEF Fresh, Streaming
<1>7. ASSUME NEW j \in DOMAIN jobs, CreateEpic(j) \/ CreateIssue(j) \/ RefuseIssue(j) \/ RepeatPost(j)
      PROVE  Fresh(e)
  <2>1. jobs[j] \in JobType /\ jobs \in Seq(JobType)
    BY <1>7, JobTyped DEF Typed, WorkType
  <2>2. UNCHANGED <<exchange, result, epicData, doing>>
    BY <1>7 DEF CreateEpic, CreateIssue, RefuseIssue, RepeatPost, page
  <2>3. \/ jobs' = jobs
        \/ \E job : Update(j, job) /\ job.epic = jobs[j].epic /\ job.waited = jobs[j].waited
    <3>1. CASE RepeatPost(j)
      BY <3>1 DEF RepeatPost
    <3>2. CASE CreateEpic(j)
      BY <2>1, <3>2 DEF CreateEpic, Job, JobType
    <3>3. CASE CreateIssue(j)
      BY <2>1, <3>3 DEF CreateIssue, Job, JobType
    <3>4. CASE RefuseIssue(j)
      <4>1. PICK s : Update(j, [jobs[j] EXCEPT !.todo = Remaining(j, s), !.refused = @ \cup {s}])
        BY <3>4 DEF RefuseIssue, Job
      <4> DEFINE job == [jobs[j] EXCEPT !.todo = Remaining(j, s), !.refused = @ \cup {s}]
      <4>2. job.epic = jobs[j].epic /\ job.waited = jobs[j].waited
        BY <2>1 DEF JobType
      <4> QED
        BY <4>1, <4>2
    <3> QED
      BY <1>7, <3>1, <3>2, <3>3, <3>4
  <2>4. /\ DOMAIN jobs' = DOMAIN jobs
        /\ \A k \in DOMAIN jobs : jobs'[k].epic = jobs[k].epic /\ jobs'[k].waited = jobs[k].waited
    BY <2>1, <2>3 DEF Update
  <2> QED
    BY <2>2, <2>4 DEF Fresh, Streaming
<1>8. ASSUME NEW j \in DOMAIN jobs, Reject(j) \/ EpicFails(j) \/ IssueThrows(j) \/ Reply(j)
      PROVE  Fresh(e) \/ failures'[e] = failures[e] + 1
  <2>1. /\ jobs' = RemoveAt(jobs, j) /\ UNCHANGED <<exchange, epicData>>
        /\ doing' = IF jobs[j].waited THEN doing \ {"submitting"} ELSE doing
        /\ (Streaming' <=> Streaming)
    BY <1>8 DEF Reject, EpicFails, IssueThrows, Reply, Fail, Job, Streaming
  <2>2. /\ Len(jobs) \in Nat /\ DOMAIN jobs = 1..Len(jobs) /\ DOMAIN jobs' = 1..(Len(jobs) - 1)
        /\ \A k \in DOMAIN jobs' : jobs'[k] = jobs[IF k < j THEN k ELSE k + 1]
    BY <1>8, <2>1, JobsLeft DEF Typed
  <2>3. \A i \in DOMAIN jobs \ {j} : \E k \in DOMAIN jobs' : jobs'[k] = jobs[i]
    <3> TAKE i \in DOMAIN jobs \ {j}
    <3>1. CASE i < j
      BY <2>2, <3>1
    <3>2. CASE i > j
      <4>1. i - 1 \in DOMAIN jobs' /\ jobs'[i - 1] = jobs[i]
        BY <2>2, <3>2
      <4> QED
        BY <4>1
    <3> QED
      BY <2>2, <3>1, <3>2
  <2>4. jobs[j].epic \in Epics
    BY <1>8, JobTyped DEF Typed
  <2>5. CASE e > exchange
    BY <2>5 DEF Fresh
  <2>6. CASE ~(jobs[j].epic = e /\ jobs[j].waited) /\ ~(e > exchange)
    <3>1. result = NoResult
      <4>1. result' = NoResult
        BY <2>1, <2>6 DEF Fresh
      <4>2. CASE UNCHANGED result
        BY <4>1, <4>2
      <4>3. CASE Reply(j) /\ jobs[j].waited
        BY <4>1, <4>3 DEF Reply, Job, NoResult
      <4> QED
        BY <1>8, <4>2, <4>3 DEF Reject, EpicFails, IssueThrows, Reply, Job
    <3> QED
      BY <2>1, <2>3, <2>6, <3>1 DEF Fresh
  <2>7. CASE jobs[j].epic = e /\ jobs[j].waited /\ ~Reply(j)
    BY <1>8, <2>4, <2>7 DEF Reject, EpicFails, IssueThrows, Fail, Job
  <2>9. CASE jobs[j].waited /\ Reply(j)
    <3>1. result' = [made |-> Job(j).made, refused |-> Job(j).refused, epic |-> Job(j).epic]
      BY <2>9 DEF Reply, Job
    <3>2. result' # NoResult
      BY <3>1 DEF NoResult
    <3> QED
      BY <2>1, <3>2 DEF Fresh
  <2> QED
    BY <2>5, <2>6, <2>7, <2>9
<1>9. ASSUME NEW j \in DOMAIN jobs, ReplyLost(j)
      PROVE  Fresh(e) \/ failures'[e] = failures[e] + 1
  <2>1. jobs[j] \in JobType /\ jobs \in Seq(JobType) /\ jobs[j].epic \in Epics
    BY <1>9, JobTyped DEF Typed, WorkType
  <2>2. /\ UNCHANGED <<exchange, result, epicData>> /\ (Streaming' <=> Streaming)
        /\ \E job : Update(j, job)
        /\ failures' = [failures EXCEPT ![jobs[j].epic] = @ + 1]
    BY <1>9 DEF ReplyLost, Job, Streaming
  <2>3. CASE jobs[j].epic = e
    BY <2>1, <2>2, <2>3
  <2>4. CASE jobs[j].epic # e
    <3>1. /\ DOMAIN jobs' = DOMAIN jobs
          /\ \A k \in DOMAIN jobs \ {j} : jobs'[k] = jobs[k]
      BY <2>1, <2>2 DEF Update
    <3> QED
      BY <2>2, <2>4, <3>1 DEF Fresh
  <2> QED
    BY <2>3, <2>4
<1> QED
  BY <1>2, <1>3, <1>4, <1>5, <1>6, <1>7, <1>8, <1>9 DEF Next

\* No step forgets an error or a repeated POST.
LEMMA ExcusedGrow ==
  ASSUME Typed, [Next]_vars, NEW e \in Epics
  PROVE  failures'[e] >= failures[e] /\ doubled'[e] >= doubled[e]
<1>0. failures \in [Epics -> Nat] /\ doubled \in [Epics -> Nat] /\ \A j \in DOMAIN jobs : jobs[j].epic \in Epics
  BY JobTyped DEF Typed, StoreType
<1>1. /\ failures' = failures \/ \E j \in DOMAIN jobs : failures' = [failures EXCEPT ![jobs[j].epic] = @ + 1]
      /\ doubled' = doubled \/ \E j \in DOMAIN jobs : doubled' = [doubled EXCEPT ![jobs[j].epic] = @ + 1]
  BY DEF Next, SendMessage, Reindex, ReindexEnds, Reload, SubmitNeed, TextArrives, EpicArrives,
     EpicRendered, StreamEnds, ErrorArrives, StreamFails, StreamClosed, Reject, CreateEpic,
     RepeatPost, EpicFails, CreateIssue, RefuseIssue, IssueThrows, Reply, ReplyLost, vars,
     ghosts, Fail, Job
<1> QED
  BY <1>0, <1>1

\* The same of the next state.
LEMMA BudgetTypedNext ==
  ASSUME Typed', NEW e \in Epics, NEW w \in Parts
  PROVE  Made(e, w)' \in Nat /\ Excused(e, w)' \in Nat /\ Cardinality(Owing(e, w)') \in Nat
<1>1. Made(e, w)' \in Nat /\ Excused(e, w)' \in Nat
  BY DEF Typed, StoreType, Made, Excused, Parts
<1>2. Len(jobs') \in Nat /\ Owing(e, w)' \subseteq 1..Len(jobs')
  BY DEF Typed, WorkType, Owing
<1>3. IsFiniteSet(1..Len(jobs'))
  BY <1>2, FS_Interval
<1>4. Cardinality(Owing(e, w)') \in Nat
  BY <1>2, <1>3, FS_Subset, FS_CardinalityType
<1> QED
  BY <1>1, <1>4

\* What exists and what is owed grow together, and an error excuses what it
\* lets the page submit again.
LEMMA BudgetKept ==
  ASSUME Typed, Typed', WaitsOK, [Next]_vars, NEW e \in Epics, NEW w \in Parts, Budget(e, w),
         Made(e, w)' + Cardinality(Owing(e, w)') <= Made(e, w) + Cardinality(Owing(e, w))
  PROVE  Budget(e, w)'
<1> DEFINE F == IF Fresh(e) THEN 1 ELSE 0
           C == Cardinality(Owing(e, w))
<1>1. /\ Made(e, w) \in Nat /\ Excused(e, w) \in Nat /\ failures[e] \in Nat /\ C \in Nat
      /\ Made(e, w)' \in Nat /\ Excused(e, w)' \in Nat /\ C' \in Nat
  BY BudgetTyped, BudgetTypedNext
<1>2. Excused(e, w)' >= Excused(e, w) /\ (F' > F => Excused(e, w)' >= Excused(e, w) + 1)
  <2>1. /\ failures'[e] >= failures[e] /\ doubled'[e] >= doubled[e]
        /\ failures[e] \in Nat /\ failures'[e] \in Nat /\ doubled[e] \in Nat /\ doubled'[e] \in Nat
    BY ExcusedGrow DEF Typed, StoreType
  <2>2. F' > F => failures'[e] = failures[e] + 1
    BY FreshStep
  <2> QED
    BY <2>1, <2>2 DEF Excused
<1>3. F \in {0, 1} /\ F' \in {0, 1}
  OBVIOUS
<1>4. Made(e, w) + C + F <= 1 + Excused(e, w)
  BY DEF Budget
<1>5. Made(e, w)' + C' + F' <= 1 + Excused(e, w)'
  <2> HIDE DEF F, C
  <2>1. Made(e, w)' + C' <= Made(e, w) + C
    BY DEF C
  <2> QED
    BY <1>1, <1>2, <1>3, <1>4, <2>1
<1> QED
  BY <1>5 DEF Budget

\* Every step keeps the budget of each part of each proposal.
LEMMA BudgetStep ==
  ASSUME Typed, Typed', WaitsOK, [Next]_vars, NEW e \in Epics, NEW w \in Parts, Budget(e, w)
  PROVE  Budget(e, w)'
<1> DEFINE M == Made(e, w)
           C == Cardinality(Owing(e, w))
<1>0. /\ M \in Nat /\ C \in Nat /\ M' \in Nat /\ C' \in Nat /\ jobs \in Seq(JobType)
      /\ \A j \in DOMAIN jobs : jobs[j] \in JobType /\ jobs[j].epic \in Epics
      /\ epics \in [Epics -> Nat] /\ filed \in [Epics -> [Stories -> Nat]]
  BY BudgetTyped, BudgetTypedNext, JobTyped DEF Typed, WorkType, StoreType
<1>1. ASSUME M' + C' <= M + C PROVE Budget(e, w)'
  BY <1>1, BudgetKept
<1>2. ASSUME UNCHANGED <<epics, filed>>, Owing(e, w)' = Owing(e, w) PROVE Budget(e, w)'
  <2>1. M' = M /\ C' = C
    BY <1>2 DEF Made
  <2> QED
    BY <1>0, <1>1, <2>1
<1>3. CASE UNCHANGED <<epics, filed, jobs>>
  BY <1>2, <1>3 DEF Owing
<1>4. CASE Reload
  <2>1. jobs' = [j \in DOMAIN jobs |-> [jobs[j] EXCEPT !.waited = FALSE]]
    BY <1>4 DEF Reload
  <2>2. /\ DOMAIN jobs' = DOMAIN jobs
        /\ \A j \in DOMAIN jobs : /\ jobs'[j].epic = jobs[j].epic /\ jobs'[j].todo = jobs[j].todo
                                  /\ jobs'[j].created = jobs[j].created
    BY <1>0, <2>1 DEF JobType
  <2>3. Owing(e, w)' = Owing(e, w)
    BY <2>2 DEF Owing, Owes
  <2> QED
    BY <1>2, <1>4, <2>3 DEF Reload, gitlab
<1>5. ASSUME NEW k \in DOMAIN answers, SubmitNeed(k) PROVE Budget(e, w)'
  <2> DEFINE job == [epic |-> epicData, created |-> FALSE, todo |-> Stories,
                     made |-> {}, refused |-> {}, waited |-> TRUE]
             n == Len(jobs) + 1
  <2>1. /\ jobs' = Append(jobs, job) /\ doing = {} /\ doing' = {"submitting"}
        /\ UNCHANGED <<exchange, epics, filed, failures, doubled, result, epicData>>
        /\ result = NoResult /\ epicData = exchange
    BY <1>5 DEF SubmitNeed, MaySubmit, Typed, PageType, gitlab, ghosts
  <2>2. job.epic = exchange /\ job.waited
    BY <2>1
  <2> HIDE DEF job
  <2>3. Len(jobs) \in Nat /\ DOMAIN jobs = 1..Len(jobs) /\ DOMAIN jobs' = 1..n
        /\ jobs'[n] = job /\ \A i \in DOMAIN jobs : jobs'[i] = jobs[i]
    BY <1>0, <2>1
  <2>4. CASE e # exchange
    <3>1. Owing(e, w)' = Owing(e, w)
      BY <2>2, <2>3, <2>4 DEF Owing, Owes
    <3> QED
      BY <1>2, <2>1, <3>1
  <2>5. CASE e = exchange
    <3>1. Fresh(e) /\ ~Fresh(e)'
      <4>1. \A j \in DOMAIN jobs : ~jobs[j].waited
        BY <2>1 DEF WaitsOK
      <4>2. e \in Nat /\ exchange \in Nat
        BY DEF Epics, Typed, PageType
      <4> QED
        BY <2>1, <2>2, <2>3, <2>5, <4>1, <4>2 DEF Fresh
    <3>2. Owing(e, w)' \subseteq Owing(e, w) \cup {n}
      BY <2>2, <2>3 DEF Owing, Owes
    <3>3. C' <= C + 1 /\ C' \in Nat
      <4>1. n \notin Owing(e, w) /\ IsFiniteSet(Owing(e, w))
        BY <2>3, BudgetTyped DEF Owing
      <4>2. /\ IsFiniteSet(Owing(e, w) \cup {n})
            /\ Cardinality(Owing(e, w) \cup {n}) = C + 1
        BY <4>1, FS_AddElement
      <4>3. IsFiniteSet(Owing(e, w)') /\ C' <= Cardinality(Owing(e, w) \cup {n})
        BY <3>2, <4>2, FS_Subset
      <4> QED
        BY <4>2, <4>3, FS_CardinalityType
    <3>4. M' = M /\ Excused(e, w)' = Excused(e, w) /\ Excused(e, w) \in Nat
      BY <2>1, BudgetTyped DEF Made, Excused
    <3>5. M + C + 1 <= 1 + Excused(e, w)
      BY <3>1 DEF Budget
    <3>6. M' + C' + 0 <= 1 + Excused(e, w)'
      <4> HIDE DEF M, C
      <4> QED
        BY <1>0, <3>3, <3>4, <3>5
    <3> QED
      BY <3>1, <3>6 DEF Budget
  <2> QED
    BY <2>4, <2>5
<1>6. ASSUME NEW j \in DOMAIN jobs, CreateEpic(j) PROVE Budget(e, w)'
  <2> DEFINE job == [jobs[j] EXCEPT !.created = TRUE]
  <2>1. /\ Update(j, job) /\ ~jobs[j].created /\ filed' = filed
        /\ epics' = [epics EXCEPT ![jobs[j].epic] = @ + 1]
    BY <1>6 DEF CreateEpic, Creating, StoreEpic, Job
  <2>2. job.epic = jobs[j].epic /\ job.created /\ job.todo = jobs[j].todo
    BY <1>0 DEF JobType
  <2> HIDE DEF job
  <2>3. C' + (IF j \in Owing(e, w) /\ ~Owes(job, w) THEN 1 ELSE 0) <= C
    BY <2>1, <2>2, OwingUpdated DEF Owes
  <2>4. CASE w = TheEpic /\ jobs[j].epic = e
    <3>1. j \in Owing(e, w) /\ ~Owes(job, w)
      BY <2>1, <2>2, <2>4 DEF Owing, Owes
    <3>2. M' = M + 1
      BY <1>0, <2>1, <2>4 DEF Made
    <3> QED
      BY <1>0, <1>1, <2>3, <3>1, <3>2
  <2>5. CASE ~(w = TheEpic /\ jobs[j].epic = e)
    <3>1. M' = M
      BY <1>0, <2>1, <2>5 DEF Made
    <3> QED
      BY <1>0, <1>1, <2>3, <3>1
  <2> QED
    BY <2>4, <2>5
<1>7. ASSUME NEW j \in DOMAIN jobs, NEW s \in Stories, CreateIssue(j) \/ RefuseIssue(j),
             Filing(j, s), NEW job, Update(j, job), job.epic = jobs[j].epic,
             job.created = jobs[j].created, job.todo = jobs[j].todo \ {s},
             epics' = epics, filed' = filed \/ FileStory(j, s)
      PROVE  Budget(e, w)'
  <2>1. C' + (IF j \in Owing(e, w) /\ ~Owes(job, w) THEN 1 ELSE 0) <= C
    BY <1>7, OwingUpdated DEF Owes
  <2>2. CASE M' = M
    BY <1>0, <1>1, <2>1, <2>2
  <2>3. CASE M' # M
    <3>1. w = s /\ jobs[j].epic = e /\ M' = M + 1 /\ w # TheEpic
      <4>1. w # TheEpic /\ w \in Stories
        BY <1>7, <2>3 DEF Made, Parts
      <4>2. M = filed[e][w] /\ M' = filed'[e][w]
        BY <4>1 DEF Made
      <4>3. filed' = [filed EXCEPT ![jobs[j].epic][s] = @ + 1]
        BY <1>7, <2>3, <4>2 DEF FileStory, Job
      <4>4. filed[e] \in [Stories -> Nat]
        BY <1>0
      <4>5. filed'[e] = IF jobs[j].epic = e THEN [filed[e] EXCEPT ![s] = @ + 1] ELSE filed[e]
        BY <1>0, <4>3
      <4> QED
        BY <2>3, <4>1, <4>2, <4>4, <4>5
    <3>2. j \in Owing(e, w) /\ ~Owes(job, w)
      BY <1>7, <3>1 DEF Owing, Owes, Filing, Job
    <3> QED
      BY <1>0, <1>1, <2>1, <3>1, <3>2
  <2> QED
    BY <2>2, <2>3
<1>8. ASSUME NEW j \in DOMAIN jobs, CreateIssue(j) PROVE Budget(e, w)'
  <2>1. PICK s \in Stories : /\ Filing(j, s) /\ FileStory(j, s) /\ epics' = epics
                            /\ Update(j, [jobs[j] EXCEPT !.todo = @ \ {s}, !.made = @ \cup {s}])
    BY <1>8 DEF CreateIssue, Job
  <2> DEFINE job == [jobs[j] EXCEPT !.todo = @ \ {s}, !.made = @ \cup {s}]
  <2>2. /\ job.epic = jobs[j].epic /\ job.created = jobs[j].created
        /\ job.todo = jobs[j].todo \ {s}
    BY <1>0 DEF JobType
  <2> QED
    BY <1>7, <1>8, <2>1, <2>2
<1>9. ASSUME NEW j \in DOMAIN jobs, RefuseIssue(j) PROVE Budget(e, w)'
  <2>1. PICK s \in Stories :
          /\ Filing(j, s) /\ epics' = epics /\ filed' = filed
          /\ Update(j, [jobs[j] EXCEPT !.todo = Remaining(j, s), !.refused = @ \cup {s}])
    BY <1>9 DEF RefuseIssue, Job, gitlab
  <2> DEFINE job == [jobs[j] EXCEPT !.todo = Remaining(j, s), !.refused = @ \cup {s}]
  <2>2. /\ job.epic = jobs[j].epic /\ job.created = jobs[j].created
        /\ job.todo = jobs[j].todo \ {s}
    BY <1>0 DEF JobType, Remaining, Job
  <2> QED
    BY <1>7, <1>9, <2>1, <2>2
<1>10. ASSUME NEW j \in DOMAIN jobs, RepeatPost(j) PROVE Budget(e, w)'
  <2>1. /\ UNCHANGED <<jobs, filed, failures, exchange, result, epicData, doing>>
        /\ epics' = [epics EXCEPT ![jobs[j].epic] = @ + 1]
        /\ doubled' = [doubled EXCEPT ![jobs[j].epic] = @ + 1]
    BY <1>10 DEF RepeatPost, StoreEpic, Job, page
  <2>2. C' = C /\ (Fresh(e)' <=> Fresh(e))
    BY <2>1 DEF Owing, Fresh, Streaming
  <2>3. doubled \in [Epics -> Nat] /\ failures \in [Epics -> Nat]
    BY DEF Typed, StoreType
  <2>4. \/ M' = M /\ Excused(e, w)' = Excused(e, w)
        \/ M' = M + 1 /\ Excused(e, w)' = Excused(e, w) + 1
    <3>1. CASE w = TheEpic /\ jobs[j].epic = e
      BY <1>0, <2>1, <2>3, <3>1 DEF Made, Excused
    <3>2. CASE ~(w = TheEpic /\ jobs[j].epic = e)
      BY <1>0, <2>1, <2>3, <3>2 DEF Made, Excused
    <3> QED
      BY <3>1, <3>2
  <2>5. Excused(e, w) \in Nat
    BY BudgetTyped
  <2>6. M + C + (IF Fresh(e) THEN 1 ELSE 0) <= 1 + Excused(e, w)
    BY DEF Budget
  <2>7. M' + C' + (IF Fresh(e)' THEN 1 ELSE 0) <= 1 + Excused(e, w)'
    <3> HIDE DEF M, C
    <3> QED
      BY <1>0, <2>2, <2>4, <2>5, <2>6
  <2> QED
    BY <2>7 DEF Budget
<1>11. ASSUME NEW j \in DOMAIN jobs, Reject(j) \/ EpicFails(j) \/ IssueThrows(j) \/ Reply(j)
       PROVE  Budget(e, w)'
  <2>1. jobs' = RemoveAt(jobs, j)
    BY <1>11 DEF Reject, EpicFails, IssueThrows, Reply, Fail
  <2>2. C' + (IF j \in Owing(e, w) THEN 1 ELSE 0) <= C
    BY <2>1, OwingLeft
  <2>3. CASE UNCHANGED <<epics, filed>>
    <3>1. M' = M
      BY <2>3 DEF Made
    <3> QED
      BY <1>0, <1>1, <2>2, <3>1
  <2>4. CASE EpicFails(j) /\ StoreEpic(j)
    <3>1. CASE w = TheEpic /\ jobs[j].epic = e
      <4>1. j \in Owing(e, w) /\ M' = M + 1
        BY <1>0, <2>4, <3>1 DEF Owing, Owes, Made, EpicFails, Creating, StoreEpic, Job
      <4> QED
        BY <1>0, <1>1, <2>2, <4>1
    <3>2. CASE ~(w = TheEpic /\ jobs[j].epic = e)
      <4>1. M' = M
        BY <1>0, <2>4, <3>2 DEF Made, EpicFails, StoreEpic, Job
      <4> QED
        BY <1>0, <1>1, <2>2, <4>1
    <3> QED
      BY <3>1, <3>2
  <2>5. ASSUME IssueThrows(j), NEW s \in Stories, Filing(j, s), FileStory(j, s)
        PROVE  Budget(e, w)'
    <3>1. epics' = epics
      BY <2>5 DEF IssueThrows
    <3>2. CASE w = s /\ jobs[j].epic = e
      <4>1. j \in Owing(e, w) /\ M' = M + 1
        BY <1>0, <2>5, <3>2 DEF Owing, Owes, Made, Filing, FileStory, Job, Stories, TheEpic
      <4> QED
        BY <1>0, <1>1, <2>2, <4>1
    <3>3. CASE ~(w = s /\ jobs[j].epic = e)
      <4>1. M' = M
        BY <1>0, <2>5, <3>1, <3>3 DEF Made, FileStory, Job, Parts
      <4> QED
        BY <1>0, <1>1, <2>2, <4>1
    <3> QED
      BY <3>2, <3>3
  <2>6. \/ UNCHANGED <<epics, filed>>
        \/ EpicFails(j) /\ StoreEpic(j)
        \/ IssueThrows(j) /\ \E s \in Stories : Filing(j, s) /\ FileStory(j, s)
    BY <1>11 DEF Reject, EpicFails, IssueThrows, Reply, gitlab
  <2> QED
    BY <2>3, <2>4, <2>5, <2>6
<1>12. ASSUME NEW j \in DOMAIN jobs, ReplyLost(j) PROVE Budget(e, w)'
  <2>1. \A job \in {[jobs[j] EXCEPT !.waited = FALSE],
                   [jobs[j] EXCEPT !.waited = FALSE, !.todo = {}]} :
          /\ job.epic = jobs[j].epic /\ job.created = jobs[j].created
          /\ job.todo \subseteq jobs[j].todo
    BY <1>0 DEF JobType
  <2>2. PICK job : /\ Update(j, job) /\ UNCHANGED <<epics, filed>>
                   /\ job.epic = jobs[j].epic /\ job.created = jobs[j].created
                   /\ job.todo \subseteq jobs[j].todo
    BY <1>12, <2>1 DEF ReplyLost, Job, gitlab
  <2>3. C' + (IF j \in Owing(e, w) /\ ~Owes(job, w) THEN 1 ELSE 0) <= C
    BY <2>2, OwingUpdated DEF Owes
  <2>4. M' = M
    BY <2>2 DEF Made
  <2> QED
    BY <1>0, <1>1, <2>3, <2>4
<1>13. CASE \/ SendMessage \/ Reindex \/ ReindexEnds \/ TextArrives \/ EpicArrives
            \/ EpicRendered \/ StreamEnds \/ ErrorArrives \/ StreamFails \/ StreamClosed
            \/ UNCHANGED vars
  BY <1>3, <1>13 DEF SendMessage, Reindex, ReindexEnds, TextArrives, EpicArrives, EpicRendered,
     StreamEnds, ErrorArrives, StreamFails, StreamClosed, vars, gitlab
<1> QED
  BY <1>4, <1>5, <1>6, <1>8, <1>9, <1>10, <1>11, <1>12, <1>13 DEF Next

\* The initial state: nothing exists, and each proposal may be submitted once.
LEMMA BudgetStarts == Init => BudgetOK
<1> SUFFICES ASSUME Init, NEW e \in Epics, NEW w \in Parts PROVE Budget(e, w)
  BY DEF BudgetOK
<1>1. Owing(e, w) = {}
  BY DEF Init, Owing
<1>2. Made(e, w) = 0 /\ Excused(e, w) = 0
  BY DEF Init, Made, Excused, Parts
<1> QED
  BY <1>1, <1>2, FS_EmptySet DEF Budget

\* A proposal has one epic and one issue for each story, and one more only for
\* each error the page was shown and each POST that axios repeated, whatever
\* buttons are clicked and however many requests run at once.
THEOREM DuplicatesAreExcused == Spec => []DuplicatesNeedFailures
<1>1. IInv /\ IInv' /\ BudgetOK /\ [Next]_vars => BudgetOK'
  <2> SUFFICES ASSUME IInv, IInv', BudgetOK, [Next]_vars, NEW e \in Epics, NEW w \in Parts
               PROVE  Budget(e, w)'
    BY DEF BudgetOK, Parts, Epics, Stories, TheEpic
  <2> QED
    BY BudgetStep DEF IInv, BudgetOK
<1>2. IInv /\ BudgetOK => DuplicatesNeedFailures
  <2> SUFFICES ASSUME IInv, BudgetOK, NEW e \in Epics
               PROVE  /\ epics[e] <= 1 + failures[e] + doubled[e]
                      /\ \A s \in Stories : filed[e][s] <= 1 + failures[e]
    BY DEF DuplicatesNeedFailures
  <2>1. ASSUME NEW w \in Parts PROVE Made(e, w) <= 1 + Excused(e, w)
    BY BudgetTyped DEF IInv, BudgetOK, Budget
  <2>2. TheEpic \in Parts /\ \A s \in Stories : s \in Parts /\ s # TheEpic
    BY DEF Parts, Stories, TheEpic
  <2>3. failures[e] \in Nat /\ doubled[e] \in Nat
    BY DEF IInv, Typed, StoreType
  <2> QED
    BY <2>1, <2>2, <2>3 DEF Made, Excused
<1> QED
  BY <1>1, <1>2, BudgetStarts, Invariance, PTL DEF Spec
=============================================================================
