---------------------- MODULE MergeRequestAgentsProofs ----------------------
(***************************************************************************)
(* For any comments, issues, files and mishaps: every variable keeps its   *)
(* type and no stage has more attempts than allowed; a person's commit is  *)
(* overwritten only in a file an agent was rewriting when it was made; and *)
(* a merged branch holds a fix of every blocking comment, the exceptions   *)
(* BlockersFixed names apart.                                              *)
(***************************************************************************)
EXTENDS MergeRequestAgents, TLAPS

\* An attempt has its type; what it has read and holds is of its agent's kind.
AttemptOK(r) ==
  /\ r \in Attempt
  /\ r.job = "review" => r.got \subseteq Comments
  /\ r.job = "correct" => r.got \subseteq Issues
  /\ r.job = "fix" => r.item \subseteq Blocking /\ \A f \in Files : r.todo[f] = 0

ActOK == act \in [Slots -> Attempt] /\ \A a \in Slots : AttemptOK(act[a])

\* The type of every other variable.
StateOK == WorkflowType /\ SharedType /\ HistoryType

\* What bounds the attempts: one that is owed is one left, and the attempt that
\* counts is of the stage's agent and none while the workflow is suspended.
TriesOK ==
  /\ mode = "run" /\ stage \in {"review", "fix", "static", "correct", "verify"}
       /\ act["counted"] = Idle => tries < MaxTries
  /\ act["counted"].job \in {"none", stage}
  /\ mode # "run" => act["counted"] = Idle

USE WorkAssumption, BoundsAssumption

\* An attempt that is over.
LEMMA IdleOK ==
  AttemptOK(Idle) /\ Idle.job = "none" /\ Idle.item = {} /\ Idle.place = "none"
BY DEF Idle, Attempt, AttemptOK, Places, NoWork

\* Counts of work are natural numbers.
LEMMA OnceTyped == \A S : Once(S) \in [Work -> Nat]
BY DEF Once

\* Work taken from the notes is of comments, never of files.
LEMMA NotesTyped ==
  ASSUME SharedType
  PROVE  /\ NotesOf(Moderate) \in [Work -> Nat] /\ NotesOf(Blocking) \in [Work -> Nat]
         /\ \A f \in Files : NotesOf(Moderate)[f] = 0 /\ NotesOf(Blocking)[f] = 0
BY DEF NotesOf, SharedType, Work, Comments

\* One attempt changes.
LEMMA Replaced ==
  ASSUME ActOK, NEW a \in Slots, NEW r, AttemptOK(r), act' = [act EXCEPT ![a] = r]
  PROVE  ActOK'
<1>1. r \in Attempt
  BY DEF AttemptOK
<1>2. act' \in [Slots -> Attempt] /\ act'[a] = r /\ \A b \in Slots \ {a} : act'[b] = act[b]
  BY <1>1 DEF ActOK
<1> QED
  BY <1>2 DEF ActOK

\* One piece of work less is left.
LEMMA Spent ==
  ASSUME NEW r, AttemptOK(r), NEW i \in Work, r.todo[i] > 0
  PROVE  /\ [r.todo EXCEPT ![i] = r.todo[i] - 1] \in [Work -> Nat]
         /\ r.job = "fix" => /\ i \notin Files
                             /\ \A f \in Files : [r.todo EXCEPT ![i] = r.todo[i] - 1][f] = 0
<1>1. r.todo \in [Work -> Nat] /\ (r.job = "fix" => \A f \in Files : r.todo[f] = 0)
  BY DEF AttemptOK, Attempt
<1> QED
  BY <1>1 DEF Work

\* An attempt ends.
LEMMA Done ==
  ASSUME ActOK, NEW a \in Slots, Finished(a)
  PROVE  ActOK'
BY Replaced, IdleOK DEF Finished

\* An attempt lays its file down.
LEMMA SetReleased ==
  ASSUME ActOK, NEW a \in Slots, NEW skip \in BOOLEAN, Released(a, skip)
  PROVE  ActOK'
<1> DEFINE r == [act[a] EXCEPT !.place = "fix", !.item = {}, !.copy = {},
                               !.skipped = (act[a].skipped \/ skip)]
<1>1. AttemptOK(act[a])
  BY DEF ActOK
<1>2. AttemptOK(r)
  BY <1>1 DEF AttemptOK, Attempt, Places
<1>3. act' = [act EXCEPT ![a] = r]
  BY DEF Released, ActOK
<1> QED
  BY <1>2, <1>3, Replaced

\* What a commit changes are fixes, that of review-fix the one in hand.
LEMMA ChangesTyped ==
  ASSUME ActOK, NEW a \in Slots, act[a].job \in {"fix", "correct"}, NEW changes \in Changes(a)
  PROVE  /\ changes \in SUBSET (Blocking \cup Issues)
         /\ act[a].job = "fix" => changes = act[a].item
BY DEF Changes, ActOK, AttemptOK

\* An agent's step keeps the attempts' types.
LEMMA ActStepOf ==
  ASSUME ActOK, StateOK, NEW a \in Slots, Step(a) \/ CallFails(a)
  PROVE  ActOK'
<1>0. act[a] \in Attempt /\ AttemptOK(act[a])
  BY DEF ActOK
<1>1. CASE Review(a)
  <2>0. PICK got \in SUBSET Comments :
             act' = [act EXCEPT ![a].place = "post", ![a].got = got,
                                ![a].todo = Once(got \ FileLevel)]
    BY <1>1 DEF Review
  <2> DEFINE r == [act[a] EXCEPT !.place = "post", !.got = got,
                                 !.todo = Once(got \ FileLevel)]
  <2>1. act' = [act EXCEPT ![a] = r]
    BY <2>0, <1>1 DEF Review, ActOK
  <2>2. AttemptOK(r)
    BY <2>0, <1>1, <1>0, OnceTyped DEF Review, At, AttemptOK, Attempt, Places
  <2> QED
    BY <2>1, <2>2, Replaced
<1>2. CASE PostInlineComment(a)
  <2>0. PICK c \in Comments, copies \in 0..2 :
             /\ Has(a, c)
             /\ act' = [act EXCEPT ![a].todo[c] = @ - 1,
                                   ![a].missed = IF copies = 0 THEN @ \cup {c} ELSE @]
    BY <1>2 DEF PostInlineComment
  <2> DEFINE todo == [act[a].todo EXCEPT ![c] = act[a].todo[c] - 1]
  <2> DEFINE r == [act[a] EXCEPT !.todo = todo,
                                 !.missed = IF copies = 0 THEN act[a].missed \cup {c} ELSE act[a].missed]
  <2>1. act' = [act EXCEPT ![a] = r]
    BY <2>0 DEF ActOK
  <2>2. /\ todo \in [Work -> Nat] /\ c \in Work
        /\ act[a].job = "fix" => c \notin Files /\ \A f \in Files : todo[f] = 0
    BY <2>0, <1>0, Spent DEF Has, Work, Comments
  <2>3. AttemptOK(r)
    <3> HIDE DEF todo
    <3> QED
      BY <2>0, <1>0, <2>2 DEF AttemptOK, Attempt, Places, Work, Comments
  <2> QED
    BY <2>1, <2>3, Replaced
<1>3. CASE PostSummary(a)
  <2> DEFINE r == [act[a] EXCEPT !.place = "backlog", !.todo = Once(act[a].got \cap Moderate)]
  <2>1. act' = [act EXCEPT ![a] = r]
    BY <1>3 DEF PostSummary, ActOK
  <2>2. AttemptOK(r)
    BY <1>3, <1>0, OnceTyped DEF PostSummary, At, AttemptOK, Attempt, Places
  <2> QED
    BY <2>1, <2>2, Replaced
<1>4. CASE EndReview(a)
  BY <1>4, Done DEF EndReview
<1>5. CASE ReadTitles(a)
  <2>0. PICK seen \in SUBSET Titles :
             act' = [act EXCEPT ![a].place = "backlog", ![a].titles = seen]
    BY <1>5 DEF ReadTitles
  <2> DEFINE r == [act[a] EXCEPT !.place = "backlog", !.titles = seen]
  <2>1. act' = [act EXCEPT ![a] = r]
    BY <2>0, <1>5 DEF ReadTitles, ActOK
  <2>2. AttemptOK(r)
    BY <2>0, <1>5, <1>0 DEF ReadTitles, At, AttemptOK, Attempt, Places
  <2> QED
    BY <2>1, <2>2, Replaced
<1>6. CASE FileIssue(a)
  <2>0. PICK i \in Moderate \cup Smells :
             Has(a, i) /\ act' = [act EXCEPT ![a].todo[i] = @ - 1]
    BY <1>6 DEF FileIssue
  <2> DEFINE todo == [act[a].todo EXCEPT ![i] = act[a].todo[i] - 1]
  <2> DEFINE r == [act[a] EXCEPT !.todo = todo]
  <2>1. act' = [act EXCEPT ![a] = r]
    BY <2>0 DEF ActOK
  <2>2. /\ todo \in [Work -> Nat] /\ i \in Work
        /\ act[a].job = "fix" => i \notin Files /\ \A f \in Files : todo[f] = 0
    BY <2>0, <1>0, Spent DEF Has, Work, Comments
  <2>3. AttemptOK(r)
    <3> HIDE DEF todo
    <3> QED
      BY <2>0, <1>0, <2>2 DEF AttemptOK, Attempt, Places, Work, Comments
  <2> QED
    BY <2>1, <2>3, Replaced
<1>7. CASE ReadModerateNotes(a)
  <2> DEFINE r == [act[a] EXCEPT !.todo = NotesOf(Moderate),
                                 !.place = IF NotesOf(Moderate) = NoWork
                                           THEN "blocking" ELSE "titles"]
  <2>1. act' = [act EXCEPT ![a] = r]
    BY <1>7 DEF ReadModerateNotes, ActOK
  <2>2. AttemptOK(r)
    BY <1>7, <1>0, NotesTyped
       DEF StateOK, ReadModerateNotes, At, AttemptOK, Attempt, Places
  <2> QED
    BY <2>1, <2>2, Replaced
<1>8. CASE EndFixBacklog(a)
  <2> DEFINE r == [act[a] EXCEPT !.place = "blocking"]
  <2>1. act' = [act EXCEPT ![a] = r]
    BY <1>8 DEF EndFixBacklog, ActOK
  <2>2. AttemptOK(r)
    BY <1>8, <1>0 DEF EndFixBacklog, At, AttemptOK, Attempt, Places
  <2> QED
    BY <2>1, <2>2, Replaced
<1>9. CASE ReadBlockingNotes(a)
  <2> DEFINE r == [act[a] EXCEPT !.place = "fix", !.todo = NotesOf(Blocking)]
  <2>1. act' = [act EXCEPT ![a] = r]
    BY <1>9 DEF ReadBlockingNotes, ActOK
  <2>2. AttemptOK(r)
    BY <1>9, <1>0, NotesTyped
       DEF StateOK, ReadBlockingNotes, At, AttemptOK, Attempt, Places
  <2> QED
    BY <2>1, <2>2, Replaced
<1>10. CASE NoBlockingNote(a)
  BY <1>10, Done DEF NoBlockingNote
<1>11. CASE SkipComment(a)
  <2>0. PICK c \in Blocking :
             Has(a, c) /\ act' = [act EXCEPT ![a].todo[c] = @ - 1, ![a].skipped = TRUE]
    BY <1>11 DEF SkipComment
  <2> DEFINE todo == [act[a].todo EXCEPT ![c] = act[a].todo[c] - 1]
  <2> DEFINE r == [act[a] EXCEPT !.todo = todo, !.skipped = TRUE]
  <2>1. act' = [act EXCEPT ![a] = r]
    BY <2>0 DEF ActOK
  <2>2. /\ todo \in [Work -> Nat] /\ c \in Work
        /\ act[a].job = "fix" => c \notin Files /\ \A f \in Files : todo[f] = 0
    BY <2>0, <1>0, Spent DEF Has, Work, Comments
  <2>3. AttemptOK(r)
    <3> HIDE DEF todo
    <3> QED
      BY <2>0, <1>0, <2>2 DEF AttemptOK, Attempt, Places, Work, Comments
  <2> QED
    BY <2>1, <2>3, Replaced
<1>12. CASE ReadFile(a)
  <2>0. PICK i \in Blocking \cup Files :
             /\ Has(a, i)
             /\ act' = [act EXCEPT ![a].todo[i] = @ - 1, ![a].place = "rewrite",
                                   ![a].item = {i}, ![a].copy = branch[PathOf(i)]]
    BY <1>12 DEF ReadFile, FileAt
  <2> DEFINE todo == [act[a].todo EXCEPT ![i] = act[a].todo[i] - 1]
  <2> DEFINE r == [act[a] EXCEPT !.todo = todo, !.place = "rewrite",
                                 !.item = {i}, !.copy = branch[PathOf(i)]]
  <2>1. act' = [act EXCEPT ![a] = r]
    BY <2>0
  <2>2. /\ todo \in [Work -> Nat] /\ i \in Work
        /\ act[a].job = "fix" => i \notin Files /\ \A f \in Files : todo[f] = 0
    BY <2>0, <1>0, Spent DEF Has, Work, Comments
  <2>4. branch[PathOf(i)] \in SUBSET (Blocking \cup Issues \cup {"human"})
    BY <2>0 DEF PathOf, StateOK, SharedType
  <2>3. AttemptOK(r)
    <3> HIDE DEF todo
    <3> QED
      BY <2>0, <1>0, <2>2, <2>4 DEF AttemptOK, Attempt, Places, Work, Comments, FileAt
  <2> QED
    BY <2>1, <2>3, Replaced
<1>13. CASE CommitFix(a)
  BY <1>13, SetReleased DEF CommitFix
<1>14. CASE NoFix(a)
  BY <1>14, SetReleased DEF NoFix
<1>15. CASE EndFix(a)
  BY <1>15, Done DEF EndFix
<1>16. CASE ReadAnalysis(a)
  <2>0. PICK issues \in SUBSET analysed, smells \in SUBSET Smells :
             act' = [act EXCEPT ![a].got = issues, ![a].todo = Once(smells),
                                ![a].place = IF smells = {} THEN "backlog" ELSE "titles"]
    BY <1>16 DEF ReadAnalysis, StateOK, SharedType
  <2> DEFINE r == [act[a] EXCEPT !.got = issues, !.todo = Once(smells),
                                 !.place = IF smells = {} THEN "backlog" ELSE "titles"]
  <2>1. act' = [act EXCEPT ![a] = r]
    BY <2>0, <1>16 DEF ReadAnalysis, ActOK
  <2>2. AttemptOK(r)
    BY <2>0, <1>16, <1>0, OnceTyped
       DEF ReadAnalysis, At, AttemptOK, Attempt, Places, StateOK, SharedType
  <2> QED
    BY <2>1, <2>2, Replaced
<1>17. CASE EndStatic(a)
  BY <1>17, Done DEF EndStatic
<1>18. CASE ReadBlockingIssues(a)
  <2>0. PICK issues \in SUBSET analysed :
             act' = [act EXCEPT ![a].got = issues, ![a].place = "fix",
                                ![a].todo = Once({FileOf[i] : i \in issues})]
    BY <1>18 DEF ReadBlockingIssues, StateOK, SharedType
  <2> DEFINE r == [act[a] EXCEPT !.got = issues, !.place = "fix",
                                 !.todo = Once({FileOf[i] : i \in issues})]
  <2>1. act' = [act EXCEPT ![a] = r]
    BY <2>0, <1>18 DEF ReadBlockingIssues, ActOK
  <2>2. AttemptOK(r)
    BY <2>0, <1>18, <1>0, OnceTyped
       DEF ReadBlockingIssues, At, AttemptOK, Attempt, Places, StateOK, SharedType
  <2> QED
    BY <2>1, <2>2, Replaced
<1>19. CASE CommitStaticFix(a)
  BY <1>19, SetReleased DEF CommitStaticFix
<1>20. CASE EndCorrect(a)
  BY <1>20, Done DEF EndCorrect
<1>21. CASE Verify(a)
  <2> DEFINE r == [act[a] EXCEPT !.place = "merge"]
  <2>1. Finished(a) \/ act' = [act EXCEPT ![a] = r]
    BY <1>21 DEF Verify, ActOK
  <2>2. AttemptOK(r)
    BY <1>0 DEF AttemptOK, Attempt, Places
  <2> QED
    BY <2>1, <2>2, Replaced, Done
<1>22. CASE Merge(a)
  BY <1>22, Done DEF Merge
<1>23. CASE CallFails(a)
  BY <1>23, Done DEF CallFails, Finished
<1>24. CASE CommitUnanswered(a)
  <2>0. PICK changes \in Changes(a) :
             act' = [act EXCEPT ![a].place = "resend", ![a].copy = @ \cup changes]
    BY <1>24 DEF CommitUnanswered
  <2> DEFINE r == [act[a] EXCEPT !.place = "resend", !.copy = act[a].copy \cup changes]
  <2>1. act' = [act EXCEPT ![a] = r]
    BY <2>0 DEF ActOK
  <2>2. changes \in SUBSET (Blocking \cup Issues)
    BY <1>24, ChangesTyped DEF CommitUnanswered
  <2>3. AttemptOK(r)
    BY <1>0, <2>2 DEF AttemptOK, Attempt, Places
  <2> QED
    BY <2>1, <2>3, Replaced
<1>25. CASE CommitAgain(a)
  <2>1. Released(a, FALSE) \/ act' = act
    BY <1>25 DEF CommitAgain
  <2> QED
    BY <2>1, SetReleased DEF ActOK
<1> QED
  BY <1>1, <1>2, <1>3, <1>4, <1>5, <1>6, <1>7, <1>8, <1>9, <1>10, <1>11, <1>12, <1>13,
     <1>14, <1>15, <1>16, <1>17, <1>18, <1>19, <1>20, <1>21, <1>22, <1>23, <1>24, <1>25 DEF Step

\* A file rewritten from a copy has its type.
LEMMA RewrittenTyped ==
  ASSUME ActOK, SharedType, NEW a \in Slots, NEW changes,
         act[a].copy \cup changes \in SUBSET (Blocking \cup Issues \cup {"human"}),
         Rewritten(a, changes)
  PROVE  branch' \in [Files -> SUBSET (Blocking \cup Issues \cup {"human"})]
<1> DEFINE text == act[a].copy \cup changes
<1>1. PICK f \in InHand(a) : branch' = [branch EXCEPT ![f] = text]
  BY DEF Rewritten
<1>2. f \in Files
  BY DEF InHand, PathOf, ActOK, Attempt
<1> HIDE DEF text
<1> QED
  BY <1>1, <1>2 DEF SharedType, text

\* The three things that may follow a review-fix.
LEMMA AfterFixCases ==
  ASSUME NEW a \in Slots, NEW s, AfterFix(a, s)
  PROVE  \/ a = "late" /\ UNCHANGED <<stage, tries, mode, asked>>
         \/ /\ a = "counted" /\ s = "partial"
            /\ mode' = "partial" /\ asked' = TRUE /\ UNCHANGED <<stage, tries>>
         \/ /\ a = "counted" /\ s # "partial"
            /\ stage' = "static" /\ tries' = 0 /\ UNCHANGED <<mode, asked>>
BY DEF AfterFix, Slots

\* An agent's step keeps the other variables' types.
LEMMA StateStepOf ==
  ASSUME ActOK, StateOK, NEW a \in Slots, Step(a) \/ CallFails(a)
  PROVE  StateOK'
<1>0. /\ act[a] \in Attempt /\ AttemptOK(act[a])
      /\ act[a].copy \in SUBSET (Blocking \cup Issues \cup {"human"})
      /\ act[a].got \in SUBSET (Comments \cup Issues) /\ act[a].missed \in SUBSET Comments
  BY DEF ActOK, Attempt
<1> USE DEF StateOK, WorkflowType, SharedType, HistoryType, workflow, shared, history, At, Slots, Comments
<1>1. CASE Review(a)
  BY <1>1 DEF Review
<1>2. CASE PostInlineComment(a)
  BY <1>2 DEF PostInlineComment, Post, AddNotes, Mishap
<1>3. CASE PostSummary(a)
  BY <1>3 DEF PostSummary
<1>4. CASE EndReview(a)
  <2>1. reviewed' \in SUBSET Comments /\ unposted' \in SUBSET Comments
    BY <1>4, <1>0 DEF EndReview, AttemptOK
  <2>2. fixRuns' \in Nat
    BY <1>4 DEF EndReview
  <2>3. stage' \in {stage, "static", "fix"} /\ tries' \in {tries, 0}
    BY <1>4 DEF EndReview, GoOn
  <2> QED
    BY <1>4, <2>1, <2>2, <2>3 DEF EndReview
<1>5. CASE ReadTitles(a)
  BY <1>5 DEF ReadTitles, Mishap
<1>6. CASE FileIssue(a)
  <2>1. PICK i \in Moderate \cup Smells :
             \/ UNCHANGED <<backlog, refused, doubled, mishaps>>
             \/ \E copies \in 0..2 :
                  /\ Post(copies) /\ AddIssues(TitleOf[i], copies)
                  /\ refused' = IF copies > 0 THEN refused
                                ELSE [refused EXCEPT ![TitleOf[i]] = @ + 1]
    BY <1>6 DEF FileIssue
  <2>2. mishaps' \in Nat /\ doubled' \in BOOLEAN
    <3>1. mishaps' \in Nat
      BY <2>1 DEF Post, Mishap
    <3>2. doubled' \in BOOLEAN
      BY <2>1, Zenon DEF Post
    <3> QED
      BY <3>1, <3>2
  <2>3. backlog' \in [Titles -> Nat] /\ refused' \in [Titles -> Nat]
    BY <2>1 DEF AddIssues
  <2> QED
    BY <1>6, <2>2, <2>3 DEF FileIssue
<1>7. CASE ReadModerateNotes(a)
  BY <1>7 DEF ReadModerateNotes
<1>8. CASE EndFixBacklog(a)
  BY <1>8 DEF EndFixBacklog
<1>9. CASE ReadBlockingNotes(a)
  BY <1>9 DEF ReadBlockingNotes
<1>10. CASE NoBlockingNote(a)
  <2>1. AfterFix(a, signal)
    BY <1>10 DEF NoBlockingNote
  <2>2. /\ stage' \in {stage, "static"} /\ tries' \in {tries, 0}
        /\ mode' \in {mode, "partial"} /\ asked' \in BOOLEAN
    BY <2>1, AfterFixCases
  <2> QED
    BY <1>10, <2>2 DEF NoBlockingNote
<1>11. CASE SkipComment(a)
  BY <1>11 DEF SkipComment
<1>12. CASE ReadFile(a)
  BY <1>12 DEF ReadFile
<1>13. CASE CommitFix(a)
  <2>1. act[a].copy \cup act[a].item \in SUBSET (Blocking \cup Issues \cup {"human"})
    BY <1>13, <1>0 DEF CommitFix, AttemptOK
  <2>2. branch' \in [Files -> SUBSET (Blocking \cup Issues \cup {"human"})]
    BY <1>13, <2>1, RewrittenTyped DEF CommitFix
  <2>3. fixes' \in [Blocking -> Nat]
    BY <1>13 DEF CommitFix, OneMore
  <2> QED
    BY <1>13, <2>2, <2>3 DEF CommitFix
<1>14. CASE NoFix(a)
  BY <1>14 DEF NoFix
<1>15. CASE EndFix(a)
  <2>1. AfterFix(a, signal') /\ signal' \in {"none", "success", "partial"}
    BY <1>15 DEF EndFix
  <2>2. mishaps' \in Nat /\ silent' \in BOOLEAN
    <3>1. UNCHANGED <<silent, mishaps>> \/ (Mishap /\ silent' = TRUE)
      BY <1>15 DEF EndFix
    <3>2. mishaps' \in Nat
      BY <3>1 DEF Mishap
    <3>3. silent' \in BOOLEAN
      BY <3>1, Zenon
    <3> QED
      BY <3>2, <3>3
  <2>3. /\ stage' \in {stage, "static"} /\ tries' \in {tries, 0}
        /\ mode' \in {mode, "partial"} /\ asked' \in BOOLEAN
    BY <2>1, AfterFixCases
  <2> QED
    BY <1>15, <2>1, <2>2, <2>3 DEF EndFix
<1>16. CASE ReadAnalysis(a)
  BY <1>16 DEF ReadAnalysis, Reported, Mishap
<1>17. CASE EndStatic(a)
  <2>1. hasBlocking' = (IF a = "counted" THEN act[a].got # {} ELSE hasBlocking)
    BY <1>17 DEF EndStatic
  <2>2. hasBlocking' \in BOOLEAN
    BY <2>1
  <2> QED
    BY <1>17, <2>2 DEF EndStatic, GoOn
<1>18. CASE ReadBlockingIssues(a)
  BY <1>18 DEF ReadBlockingIssues, Reported, Mishap
<1>19. CASE CommitStaticFix(a)
  <2>1. PICK done \in SUBSET Issues : Rewritten(a, done)
    BY <1>19, <1>0 DEF CommitStaticFix, AttemptOK
  <2>2. act[a].copy \cup done \in SUBSET (Blocking \cup Issues \cup {"human"})
    BY <1>0
  <2>3. branch' \in [Files -> SUBSET (Blocking \cup Issues \cup {"human"})]
    BY <2>1, <2>2, RewrittenTyped
  <2> QED
    BY <1>19, <2>3 DEF CommitStaticFix
<1>20. CASE EndCorrect(a)
  BY <1>20 DEF EndCorrect, GoOn
<1>21. CASE Verify(a)
  BY <1>21 DEF Verify, Reported, Mishap, GoOn
<1>22. CASE Merge(a)
  BY <1>22 DEF Merge, GoOn
<1>23. CASE CallFails(a)
  BY <1>23 DEF CallFails, Mishap, Lost
<1>24. CASE CommitUnanswered(a)
  <2>1. PICK changes \in Changes(a) : Rewritten(a, changes)
    BY <1>24 DEF CommitUnanswered
  <2>2. changes \in SUBSET (Blocking \cup Issues)
    BY <1>24, ChangesTyped DEF CommitUnanswered
  <2>3. act[a].copy \cup changes \in SUBSET (Blocking \cup Issues \cup {"human"})
    BY <1>0, <2>2
  <2>4. branch' \in [Files -> SUBSET (Blocking \cup Issues \cup {"human"})]
    BY <2>1, <2>3, RewrittenTyped
  <2>5. fixes' \in [Blocking -> Nat]
    BY <1>24 DEF CommitUnanswered, OneMore
  <2> QED
    BY <1>24, <2>4, <2>5 DEF CommitUnanswered, Mishap
<1>25. CASE CommitAgain(a)
  <2>1. Rewritten(a, {})
    BY <1>25 DEF CommitAgain
  <2>2. act[a].copy \cup {} \in SUBSET (Blocking \cup Issues \cup {"human"})
    BY <1>0
  <2>3. branch' \in [Files -> SUBSET (Blocking \cup Issues \cup {"human"})]
    BY <2>1, <2>2, RewrittenTyped
  <2>4. fixes' \in [Blocking -> Nat] /\ repeated' \in [Blocking -> Nat]
    BY <1>25 DEF CommitAgain, OneMore
  <2>5. mishaps' \in Nat
    <3>1. mishaps' = mishaps \/ Mishap
      BY <1>25 DEF CommitAgain
    <3> QED
      BY <3>1 DEF Mishap
  <2> QED
    BY <1>25, <2>3, <2>4, <2>5 DEF CommitAgain
<1> QED
  BY <1>1, <1>2, <1>3, <1>4, <1>5, <1>6, <1>7, <1>8, <1>9, <1>10, <1>11, <1>12, <1>13,
     <1>14, <1>15, <1>16, <1>17, <1>18, <1>19, <1>20, <1>21, <1>22, <1>23, <1>24, <1>25 DEF Step

\* An attempt changes itself alone, and keeps its agent until it is over.
LEMMA JobStep ==
  ASSUME ActOK, NEW a \in Slots, Step(a) \/ CallFails(a)
  PROVE  /\ \A b \in Slots \ {a} : act'[b] = act[b]
         /\ act'[a] = Idle \/ (act[a].job # "none" => act'[a].job = act[a].job)
         /\ act[a].job = "none" => act'[a].job = "none"
         /\ act[a].place # "none"
<1> USE DEF ActOK, At, Finished, Released, Has
<1>1. CASE Review(a)
  BY <1>1 DEF Review
<1>2. CASE PostInlineComment(a)
  BY <1>2 DEF PostInlineComment, Has
<1>3. CASE PostSummary(a)
  BY <1>3 DEF PostSummary
<1>4. CASE EndReview(a)
  BY <1>4 DEF EndReview, Finished
<1>5. CASE ReadTitles(a)
  BY <1>5 DEF ReadTitles
<1>6. CASE FileIssue(a)
  BY <1>6 DEF FileIssue, Has
<1>7. CASE ReadModerateNotes(a)
  BY <1>7 DEF ReadModerateNotes, NotesOf
<1>8. CASE EndFixBacklog(a)
  BY <1>8 DEF EndFixBacklog
<1>9. CASE ReadBlockingNotes(a)
  BY <1>9 DEF ReadBlockingNotes, NotesOf
<1>10. CASE NoBlockingNote(a)
  BY <1>10 DEF NoBlockingNote, Finished
<1>11. CASE SkipComment(a)
  BY <1>11 DEF SkipComment, Has
<1>12. CASE ReadFile(a)
  BY <1>12 DEF ReadFile, FileAt, PathOf, Has
<1>13. CASE CommitFix(a)
  BY <1>13 DEF CommitFix, Released
<1>14. CASE NoFix(a)
  BY <1>14 DEF NoFix, Released
<1>15. CASE EndFix(a)
  BY <1>15 DEF EndFix, Finished
<1>16. CASE ReadAnalysis(a)
  BY <1>16 DEF ReadAnalysis
<1>17. CASE EndStatic(a)
  BY <1>17 DEF EndStatic, Finished
<1>18. CASE ReadBlockingIssues(a)
  BY <1>18 DEF ReadBlockingIssues
<1>19. CASE CommitStaticFix(a)
  BY <1>19 DEF CommitStaticFix, Released
<1>20. CASE EndCorrect(a)
  BY <1>20 DEF EndCorrect, Finished
<1>21. CASE Verify(a)
  <2>1. CASE Finished(a)
    BY <1>21, <2>1, IdleOK DEF Verify, Finished
  <2>2. CASE act' = [act EXCEPT ![a].place = "merge"]
    BY <1>21, <2>2 DEF Verify
  <2> QED
    BY <1>21, <2>1, <2>2 DEF Verify
<1>22. CASE Merge(a)
  BY <1>22 DEF Merge, Finished
<1>23. CASE CallFails(a)
  BY <1>23, IdleOK DEF CallFails, Uncaught
<1>24. CASE CommitUnanswered(a)
  BY <1>24 DEF CommitUnanswered
<1>25. CASE CommitAgain(a)
  <2>1. act[a].job \in {"fix", "correct"} /\ act[a].place = "resend"
    BY <1>25 DEF CommitAgain
  <2>2. CASE act' = act
    BY <2>1, <2>2
  <2>3. CASE Released(a, FALSE)
    BY <2>1, <2>3 DEF Released
  <2> QED
    BY <1>25, <2>2, <2>3 DEF CommitAgain
<1> QED
  BY <1>1, <1>2, <1>3, <1>4, <1>5, <1>6, <1>7, <1>8, <1>9, <1>10, <1>11, <1>12, <1>13,
     <1>14, <1>15, <1>16, <1>17, <1>18, <1>19, <1>20, <1>21, <1>22, <1>23, <1>24, <1>25 DEF Step

\* Only the end of the attempt that counts moves the workflow.
LEMMA FlowStep ==
  ASSUME ActOK, NEW a \in Slots, Step(a) \/ CallFails(a)
  PROVE  /\ overlapped' = overlapped
         /\ \/ /\ UNCHANGED <<stage, mode, tries, reviewed, unposted, asked>>
               /\ a = "late" \/ act'[a].place # "none"
            \/ /\ a = "counted" /\ act'[a] = Idle
               /\ mode' = "run" => tries' = 0 \/ (tries' = tries /\ tries < MaxTries)
<1> USE DEF ActOK, At, workflow, history
<1>1. CASE Review(a)
  BY <1>1 DEF Review
<1>2. CASE PostInlineComment(a)
  BY <1>2 DEF PostInlineComment
<1>3. CASE PostSummary(a)
  BY <1>3 DEF PostSummary
<1>4. CASE EndReview(a)
  BY <1>4 DEF EndReview, GoOn, Finished, Slots
<1>5. CASE ReadTitles(a)
  BY <1>5 DEF ReadTitles
<1>6. CASE FileIssue(a)
  BY <1>6 DEF FileIssue
<1>7. CASE ReadModerateNotes(a)
  BY <1>7 DEF ReadModerateNotes
<1>8. CASE EndFixBacklog(a)
  BY <1>8 DEF EndFixBacklog
<1>9. CASE ReadBlockingNotes(a)
  BY <1>9 DEF ReadBlockingNotes
<1>10. CASE NoBlockingNote(a)
  <2>1. AfterFix(a, signal) /\ Finished(a) /\ UNCHANGED <<overlapped, reviewed, unposted>>
    BY <1>10 DEF NoBlockingNote
  <2> QED
    BY <2>1, AfterFixCases DEF Finished
<1>11. CASE SkipComment(a)
  BY <1>11 DEF SkipComment
<1>12. CASE ReadFile(a)
  BY <1>12 DEF ReadFile
<1>13. CASE CommitFix(a)
  BY <1>13 DEF CommitFix, Released
<1>14. CASE NoFix(a)
  BY <1>14 DEF NoFix, Released
<1>15. CASE EndFix(a)
  <2>1. AfterFix(a, signal') /\ Finished(a) /\ UNCHANGED <<overlapped, reviewed, unposted>>
    BY <1>15 DEF EndFix
  <2> QED
    BY <2>1, AfterFixCases DEF Finished
<1>16. CASE ReadAnalysis(a)
  BY <1>16 DEF ReadAnalysis
<1>17. CASE EndStatic(a)
  BY <1>17 DEF EndStatic, GoOn, Finished, Slots
<1>18. CASE ReadBlockingIssues(a)
  BY <1>18 DEF ReadBlockingIssues
<1>19. CASE CommitStaticFix(a)
  BY <1>19 DEF CommitStaticFix, Released
<1>20. CASE EndCorrect(a)
  BY <1>20 DEF EndCorrect, GoOn, Finished, Slots
<1>21. CASE Verify(a)
  <2>1. CASE GoOn(a, "aborted") /\ Finished(a)
    BY <1>21, <2>1 DEF Verify, GoOn, Finished, Slots
  <2>2. CASE act' = [act EXCEPT ![a].place = "merge"] /\ UNCHANGED <<stage, tries>>
    BY <1>21, <2>2 DEF Verify
  <2> QED
    BY <1>21, <2>1, <2>2 DEF Verify
<1>22. CASE Merge(a)
  BY <1>22 DEF Merge, GoOn, Finished, Slots
<1>23. CASE CallFails(a)
  BY <1>23 DEF CallFails, Lost, Again, Slots
<1>24. CASE CommitUnanswered(a)
  BY <1>24 DEF CommitUnanswered
<1>25. CASE CommitAgain(a)
  <2>1. /\ UNCHANGED <<stage, mode, tries, reviewed, unposted, asked, overlapped>>
        /\ act[a].place = "resend"
    BY <1>25 DEF CommitAgain
  <2>2. CASE act' = act
    BY <2>1, <2>2
  <2>3. CASE Released(a, FALSE)
    BY <2>1, <2>3 DEF Released
  <2> QED
    BY <1>25, <2>2, <2>3 DEF CommitAgain
<1> QED
  BY <1>1, <1>2, <1>3, <1>4, <1>5, <1>6, <1>7, <1>8, <1>9, <1>10, <1>11, <1>12, <1>13,
     <1>14, <1>15, <1>16, <1>17, <1>18, <1>19, <1>20, <1>21, <1>22, <1>23, <1>24, <1>25 DEF Step

\* An agent's step keeps the bound on attempts.
LEMMA TriesStepOf ==
  ASSUME ActOK, TriesOK, NEW a \in Slots, Step(a) \/ CallFails(a)
  PROVE  TriesOK'
<1>1. CASE act'[a] = Idle
  BY <1>1, JobStep, FlowStep, IdleOK DEF TriesOK, Slots
<1>2. CASE act'[a] # Idle
  BY <1>2, JobStep, FlowStep, IdleOK DEF TriesOK, Slots
<1> QED
  BY <1>1, <1>2

\* Every step keeps the types.
LEMMA TypeStep ==
  ASSUME ActOK, StateOK, TriesOK, [Next]_vars
  PROVE  (ActOK /\ StateOK /\ TriesOK)'
<1> USE DEF StateOK, WorkflowType, SharedType, HistoryType, TriesOK, Slots, Comments, workflow, shared, history
<1>0. act' = act => ActOK'
  BY DEF ActOK
<1>1. CASE Start
  <2> DEFINE r == [Idle EXCEPT !.job = stage, !.place = "read"]
  <2>1. act' = [act EXCEPT !["counted"] = r] /\ "counted" \in Slots
    BY <1>1 DEF Start, Slots
  <2>2. AttemptOK(r)
    <3>1. Idle.got = {} /\ Idle.item = {} /\ \A f \in Files : Idle.todo[f] = 0
      BY DEF Idle, NoWork, Work
    <3> QED
      BY <1>1, <3>1, IdleOK DEF Start, AttemptOK, Attempt, Places
  <2>3. ActOK'
    BY <2>1, <2>2, Replaced
  <2>4. act["counted"].job = "none"
    BY <1>1, IdleOK DEF Start
  <2>5. act'["counted"].job = stage
    BY <2>1 DEF ActOK, Idle
  <2>6. /\ mode = "run" /\ stage \in {"review", "fix", "static", "correct", "verify"}
        /\ tries' = tries + 1 /\ tries < MaxTries
        /\ UNCHANGED <<stage, mode, reviewed, hasBlocking, signal, shared, mishaps, history>>
    BY <1>1 DEF Start
  <2> HIDE DEF r
  <2>7. StateOK'
    BY <2>6
  <2>8. TriesOK'
    BY <2>5, <2>6, IdleOK
  <2> QED
    BY <2>3, <2>7, <2>8
<1>2. CASE Resume
  <2>1. stage' \in {stage, "static"} /\ fixRuns' \in {fixRuns, fixRuns + 1}
    BY <1>2 DEF Resume
  <2>2. stage' = "static" => act["counted"].job \in {"none", "static"}
    BY <1>2, IdleOK DEF Resume
  <2> QED
    BY <1>0, <1>2, <2>1, <2>2 DEF Resume
<1>3. CASE OutOfTime
  <2>1. ActOK'
    BY <1>3, IdleOK DEF OutOfTime, ActOK
  <2>2. act'["counted"] = Idle
    BY <1>3 DEF OutOfTime
  <2>3. /\ mishaps' \in Nat /\ mode' \in {"run", "suspended"} /\ (mode' = "run" => tries < MaxTries)
        /\ UNCHANGED <<stage, tries, reviewed, hasBlocking, signal>>
    BY <1>3 DEF OutOfTime, Mishap, Lost, Again
  <2>4. overlapped' \in BOOLEAN
    BY <1>3, Zenon DEF OutOfTime
  <2> QED
    BY <1>3, <2>1, <2>2, <2>3, <2>4, IdleOK DEF OutOfTime
<1>4. CASE CiPasses
  <2>1. stage = "ci" /\ stage' \in {"correct", "verify"} /\ tries' = 0
    BY <1>4 DEF CiPasses
  <2>2. act["counted"].job = "none"
    BY <2>1 DEF ActOK, AttemptOK, Attempt
  <2> QED
    BY <1>0, <1>4, <2>1, <2>2 DEF CiPasses
<1>5. CASE Analyse
  BY <1>0, <1>5 DEF Analyse, Present
<1>6. CASE \E f \in Files : PersonCommits(f)
  BY <1>0, <1>6 DEF PersonCommits, Mishap
<1>7. CASE \E c \in Blocking : PersonComments(c)
  BY <1>0, <1>7 DEF PersonComments, Mishap
<1>8. CASE \E a \in Slots : Step(a) \/ CallFails(a)
  BY <1>8, ActStepOf, StateStepOf, TriesStepOf
<1>9. CASE UNCHANGED vars
  BY <1>0, <1>9 DEF vars
<1> QED
  BY <1>1, <1>2, <1>3, <1>4, <1>5, <1>6, <1>7, <1>8, <1>9 DEF Next

\* An attempt has a file in hand, one only, between reading and rewriting it;
\* what is sent again has the fix.
HandsOK ==
  \A a \in Slots :
    act[a].item # {} =>
      /\ act[a].place \in {"rewrite", "resend"} /\ act[a].job \in {"fix", "correct"}
      /\ \E i \in Blocking \cup Files : act[a].item = {i}
      /\ act[a].place = "resend" /\ act[a].job = "fix" => act[a].item \subseteq act[a].copy

\* The copy in hand knows of persons' work as the branch does.
CopiesOK ==
  \A a \in Slots : \A f \in InHand(a) \ raced :
    "human" \in branch[f] <=> "human" \in act[a].copy

\* An agent touches the branch only when it commits, and a file comes into its
\* hands only when it reads it.
LEMMA HandStep ==
  ASSUME ActOK, HandsOK, NEW a \in Slots, Step(a) \/ CallFails(a)
  PROVE  /\ raced' = raced
         /\ \/ act'[a].item = {} /\ branch' = branch
            \/ ReadFile(a) \/ CommitFix(a) \/ CommitStaticFix(a)
            \/ CommitUnanswered(a) \/ CommitAgain(a)
<1> USE IdleOK DEF ActOK, HandsOK, At, Finished, Released, workflow, shared, history, Has
<1>1. CASE Review(a)
  BY <1>1 DEF Review
<1>2. CASE PostInlineComment(a)
  BY <1>2 DEF PostInlineComment, Has
<1>3. CASE PostSummary(a)
  BY <1>3 DEF PostSummary
<1>4. CASE EndReview(a)
  BY <1>4 DEF EndReview, Finished
<1>5. CASE ReadTitles(a)
  BY <1>5 DEF ReadTitles
<1>6. CASE FileIssue(a)
  BY <1>6 DEF FileIssue, Has
<1>7. CASE ReadModerateNotes(a)
  BY <1>7 DEF ReadModerateNotes, NotesOf
<1>8. CASE EndFixBacklog(a)
  BY <1>8 DEF EndFixBacklog
<1>9. CASE ReadBlockingNotes(a)
  BY <1>9 DEF ReadBlockingNotes, NotesOf
<1>10. CASE NoBlockingNote(a)
  BY <1>10 DEF NoBlockingNote, Finished
<1>11. CASE SkipComment(a)
  BY <1>11 DEF SkipComment, Has
<1>12. CASE ReadFile(a)
  BY <1>12 DEF ReadFile, FileAt, PathOf, Has
<1>13. CASE CommitFix(a)
  BY <1>13 DEF CommitFix, Released
<1>14. CASE NoFix(a)
  BY <1>14 DEF NoFix, Released
<1>15. CASE EndFix(a)
  BY <1>15 DEF EndFix, Finished
<1>16. CASE ReadAnalysis(a)
  BY <1>16 DEF ReadAnalysis
<1>17. CASE EndStatic(a)
  BY <1>17 DEF EndStatic, Finished
<1>18. CASE ReadBlockingIssues(a)
  BY <1>18 DEF ReadBlockingIssues
<1>19. CASE CommitStaticFix(a)
  BY <1>19 DEF CommitStaticFix, Released
<1>20. CASE EndCorrect(a)
  BY <1>20 DEF EndCorrect, Finished
<1>21. CASE Verify(a)
  <2>1. CASE Finished(a)
    BY <1>21, <2>1 DEF Verify, Finished
  <2>2. CASE act' = [act EXCEPT ![a].place = "merge"]
    BY <1>21, <2>2 DEF Verify
  <2> QED
    BY <1>21, <2>1, <2>2 DEF Verify
<1>22. CASE Merge(a)
  BY <1>22 DEF Merge, Finished
<1>23. CASE CallFails(a)
  BY <1>23 DEF CallFails
<1>24. CASE CommitUnanswered(a)
  BY <1>24 DEF CommitUnanswered
<1>25. CASE CommitAgain(a)
  BY <1>25 DEF CommitAgain
<1> QED
  BY <1>1, <1>2, <1>3, <1>4, <1>5, <1>6, <1>7, <1>8, <1>9, <1>10, <1>11, <1>12, <1>13,
     <1>14, <1>15, <1>16, <1>17, <1>18, <1>19, <1>20, <1>21, <1>22, <1>23, <1>24, <1>25 DEF Step

\* Reading a file, without the guard's detail.
LEMMA ReadEffect ==
  ASSUME ActOK, HandsOK, NEW a \in Slots, ReadFile(a)
  PROVE  /\ act[a].job \in {"fix", "correct"} /\ act[a].place = "fix" /\ act[a].item = {}
         /\ branch' = branch
         /\ \E i \in Blocking \cup Files :
              /\ act[a].todo[i] > 0 /\ i \notin FileLevel
              /\ act' = [act EXCEPT ![a].todo[i] = @ - 1, ![a].place = "rewrite",
                                    ![a].item = {i}, ![a].copy = branch[PathOf(i)]]
              /\ act'[a].item = {i} /\ act'[a].copy = branch[PathOf(i)]
              /\ act'[a].place = "rewrite" /\ act'[a].job = act[a].job
              /\ act'[a].todo = [act[a].todo EXCEPT ![i] = act[a].todo[i] - 1]
              /\ act'[a].skipped = act[a].skipped
<1>1. PICK i \in (Blocking \ FileLevel) \cup Files :
           /\ act[a].todo[i] > 0
           /\ act' = [act EXCEPT ![a].todo[i] = @ - 1, ![a].place = "rewrite",
                                 ![a].item = {i}, ![a].copy = branch[PathOf(i)]]
  BY DEF ReadFile, Has, FileAt
<1>2. i \notin FileLevel
  BY DEF Comments
<1>3. /\ act'[a].item = {i} /\ act'[a].copy = branch[PathOf(i)]
      /\ act'[a].place = "rewrite" /\ act'[a].job = act[a].job
      /\ act'[a].todo = [act[a].todo EXCEPT ![i] = act[a].todo[i] - 1]
      /\ act'[a].skipped = act[a].skipped
  BY <1>1 DEF ActOK, Attempt
<1>4. /\ act[a].job \in {"fix", "correct"} /\ act[a].place = "fix" /\ act[a].item = {}
      /\ branch' = branch
  BY DEF ReadFile, HandsOK, shared
<1> QED
  BY <1>1, <1>2, <1>3, <1>4

\* Committing a file: the copy, with the changes made to it, takes its place.
LEMMA CommitEffect ==
  ASSUME ActOK, HandsOK, NEW a \in Slots, CommitFix(a) \/ CommitStaticFix(a)
  PROVE  /\ act'[a].item = {} /\ act'[a].job = act[a].job /\ act'[a].place = "fix"
         /\ act'[a].todo = act[a].todo /\ act'[a].skipped = act[a].skipped
         /\ \E i \in Blocking \cup Files, changes \in SUBSET (Blocking \cup Issues) :
              /\ act[a].item = {i}
              /\ act[a].job = "fix" => changes = {i}
              /\ branch' = [branch EXCEPT ![PathOf(i)] = act[a].copy \cup changes]
<1>0. act[a] \in Attempt /\ AttemptOK(act[a])
  BY DEF ActOK
<1>1. Released(a, FALSE)
  BY DEF CommitFix, CommitStaticFix
<1>2. /\ act'[a].item = {} /\ act'[a].job = act[a].job /\ act'[a].place = "fix"
      /\ act'[a].todo = act[a].todo /\ act'[a].skipped = act[a].skipped
  <2>1. /\ act'[a].item = {} /\ act'[a].job = act[a].job /\ act'[a].place = "fix"
        /\ act'[a].todo = act[a].todo
    BY <1>1 DEF Released, ActOK, Attempt
  <2>2. act'[a].skipped = (act[a].skipped \/ FALSE)
    BY <1>1 DEF Released, ActOK, Attempt
  <2> QED
    BY <1>0, <2>1, <2>2 DEF Attempt
<1>3. PICK changes \in SUBSET (Blocking \cup Issues) :
           Rewritten(a, changes) /\ (act[a].job = "fix" => changes = act[a].item)
  <2>1. CASE CommitFix(a)
    BY <1>0, <2>1 DEF CommitFix, AttemptOK, At
  <2>2. CASE CommitStaticFix(a)
    BY <1>0, <2>2 DEF CommitStaticFix, AttemptOK, At
  <2> QED
    BY <2>1, <2>2
<1>4. PICK f \in InHand(a) : branch' = [branch EXCEPT ![f] = act[a].copy \cup changes]
  BY <1>3 DEF Rewritten
<1>5. PICK i \in Blocking \cup Files : act[a].item = {i}
  BY <1>4 DEF HandsOK, InHand
<1>6. f = PathOf(i)
  BY <1>4, <1>5 DEF InHand
<1> QED
  BY <1>2, <1>3, <1>4, <1>5, <1>6

\* A commit without an answer, and one sent again: the same, but the file may
\* stay in hand, the copy being what was sent.
LEMMA ResendEffect ==
  ASSUME ActOK, HandsOK, NEW a \in Slots, CommitUnanswered(a) \/ CommitAgain(a)
  PROVE  /\ act'[a].job = act[a].job /\ act'[a].todo = act[a].todo
         /\ act'[a].skipped = act[a].skipped /\ act[a].job \in {"fix", "correct"}
         /\ \E i \in Blocking \cup Files, changes \in SUBSET (Blocking \cup Issues) :
              /\ act[a].item = {i}
              /\ act[a].job = "fix" => i \in act[a].copy \cup changes
              /\ branch' = [branch EXCEPT ![PathOf(i)] = act[a].copy \cup changes]
              /\ \/ act'[a].item = {}
                 \/ /\ act'[a].item = {i} /\ act'[a].copy = act[a].copy \cup changes
                    /\ act'[a].place = "resend"
<1>0. act[a] \in Attempt /\ act[a].skipped \in BOOLEAN
  BY DEF ActOK, Attempt
<1>1. CASE CommitUnanswered(a)
  <2>1. PICK changes \in Changes(a) :
             /\ Rewritten(a, changes)
             /\ act' = [act EXCEPT ![a].place = "resend", ![a].copy = @ \cup changes]
    BY <1>1 DEF CommitUnanswered
  <2>2. /\ changes \in SUBSET (Blocking \cup Issues) /\ act[a].job \in {"fix", "correct"}
        /\ act[a].job = "fix" => changes = act[a].item
    BY <1>1, ChangesTyped DEF CommitUnanswered
  <2>3. /\ act'[a].place = "resend" /\ act'[a].copy = act[a].copy \cup changes
        /\ act'[a].item = act[a].item /\ act'[a].job = act[a].job
        /\ act'[a].todo = act[a].todo /\ act'[a].skipped = act[a].skipped
    BY <1>0, <2>1 DEF ActOK, Attempt
  <2>4. PICK f \in InHand(a) : branch' = [branch EXCEPT ![f] = act[a].copy \cup changes]
    BY <2>1 DEF Rewritten
  <2>5. PICK i \in Blocking \cup Files : act[a].item = {i}
    BY <2>4 DEF HandsOK, InHand
  <2>6. f = PathOf(i)
    BY <2>4, <2>5 DEF InHand
  <2> QED
    BY <2>2, <2>3, <2>4, <2>5, <2>6
<1>2. CASE CommitAgain(a)
  <2>1. /\ Rewritten(a, {}) /\ (Released(a, FALSE) \/ act' = act)
        /\ act[a].job \in {"fix", "correct"} /\ act[a].place = "resend"
    BY <1>2 DEF CommitAgain
  <2>2. /\ act'[a].job = act[a].job /\ act'[a].todo = act[a].todo
        /\ act'[a].item = {} \/ act'[a] = act[a]
    BY <1>0, <2>1 DEF Released, ActOK, Attempt
  <2>3. act'[a].skipped = act[a].skipped
    <3>1. CASE act' = act
      BY <3>1
    <3>2. CASE Released(a, FALSE)
      <4>1. act'[a].skipped = (act[a].skipped \/ FALSE)
        BY <1>0, <3>2 DEF Released, ActOK, Attempt
      <4> QED
        BY <1>0, <4>1
    <3> QED
      BY <2>1, <3>1, <3>2
  <2>4. PICK f \in InHand(a) : branch' = [branch EXCEPT ![f] = act[a].copy \cup {}]
    BY <2>1 DEF Rewritten
  <2>5. PICK i \in Blocking \cup Files : act[a].item = {i}
    BY <2>4 DEF HandsOK, InHand
  <2>6. f = PathOf(i) /\ (act[a].job = "fix" => i \in act[a].copy)
    BY <2>1, <2>4, <2>5 DEF InHand, HandsOK
  <2> DEFINE changes == {}
  <2>7. /\ changes \in SUBSET (Blocking \cup Issues)
        /\ act[a].copy \cup changes = act[a].copy
    OBVIOUS
  <2> QED
    BY <2>1, <2>2, <2>3, <2>4, <2>5, <2>6, <2>7
<1> QED
  BY <1>1, <1>2

\* Every step keeps one file in hand at most.
LEMMA HandsStep ==
  ASSUME ActOK, HandsOK, [Next]_vars
  PROVE  HandsOK'
<1>1. CASE act' = act
  BY <1>1 DEF HandsOK
<1>2. CASE Start \/ OutOfTime
  <2>1. CASE Start
    BY <2>1, IdleOK DEF Start, HandsOK, ActOK, Slots
  <2>2. CASE OutOfTime
    BY <2>2, IdleOK DEF OutOfTime, HandsOK, Slots
  <2> QED
    BY <1>2, <2>1, <2>2
<1>3. ASSUME NEW a \in Slots, Step(a) \/ CallFails(a) PROVE HandsOK'
  <2>1. \A b \in Slots \ {a} : act'[b] = act[b]
    BY <1>3, JobStep
  <2>2. CASE act'[a].item = {}
    BY <2>1, <2>2 DEF HandsOK
  <2>3. CASE ReadFile(a)
    <3>1. PICK i \in Blocking \cup Files :
               /\ act'[a].item = {i} /\ act'[a].place = "rewrite"
               /\ act'[a].job = act[a].job /\ act[a].job \in {"fix", "correct"}
      BY <2>3, ReadEffect
    <3> QED
      BY <2>1, <3>1 DEF HandsOK
  <2>4. CASE CommitUnanswered(a) \/ CommitAgain(a)
    <3>1. PICK i \in Blocking \cup Files, changes \in SUBSET (Blocking \cup Issues) :
               /\ act[a].job = "fix" => i \in act[a].copy \cup changes
               /\ \/ act'[a].item = {}
                  \/ /\ act'[a].item = {i} /\ act'[a].copy = act[a].copy \cup changes
                     /\ act'[a].place = "resend"
      BY <2>4, ResendEffect
    <3>2. act'[a].job = act[a].job /\ act[a].job \in {"fix", "correct"}
      BY <2>4, ResendEffect
    <3> QED
      BY <2>1, <3>1, <3>2 DEF HandsOK
  <2> QED
    BY <1>3, <2>2, <2>3, <2>4, HandStep, CommitEffect
<1>4. CASE Resume \/ CiPasses \/ Analyse \/ (\E f \in Files : PersonCommits(f))
             \/ (\E c \in Blocking : PersonComments(c)) \/ UNCHANGED vars
  BY <1>1, <1>4 DEF Resume, CiPasses, Analyse, PersonCommits, PersonComments, vars
<1> QED
  BY <1>2, <1>3, <1>4 DEF Next

\* An agent's rewriting keeps persons' work, the files in hand when it came excepted.
LEMMA CopiesStepOf ==
  ASSUME ActOK, StateOK, HandsOK, CopiesOK, NEW a \in Slots, Step(a) \/ CallFails(a)
  PROVE  /\ CopiesOK'
         /\ \A f \in Files \ raced' : "human" \in branch[f] <=> "human" \in branch'[f]
<1>1. raced' = raced /\ \A b \in Slots \ {a} : act'[b] = act[b]
  BY HandStep, JobStep
<1>2. branch \in [Files -> SUBSET (Blocking \cup Issues \cup {"human"})]
  BY DEF StateOK, SharedType
<1>3. CASE act'[a].item = {} /\ branch' = branch
  <2>1. InHand(a)' = {}
    BY <1>3 DEF InHand
  <2>2. \A b \in Slots \ {a} : InHand(b)' = InHand(b)
    BY <1>1 DEF InHand
  <2> QED
    BY <1>1, <1>3, <2>1, <2>2 DEF CopiesOK
<1>4. CASE ReadFile(a)
  <2>1. PICK i : act'[a].item = {i} /\ act'[a].copy = branch[PathOf(i)] /\ branch' = branch
    BY <1>4, ReadEffect
  <2>2. InHand(a)' = {PathOf(i)}
    BY <2>1 DEF InHand, PathOf
  <2>3. \A b \in Slots \ {a} : InHand(b)' = InHand(b)
    BY <1>1 DEF InHand
  <2> QED
    BY <1>1, <2>1, <2>2, <2>3 DEF CopiesOK
<1>5. CASE CommitFix(a) \/ CommitStaticFix(a)
  <2>0. \E i \in Blocking \cup Files, changes \in SUBSET (Blocking \cup Issues) :
          /\ act[a].item = {i}
          /\ act[a].job = "fix" => changes = {i}
          /\ branch' = [branch EXCEPT ![PathOf(i)] = act[a].copy \cup changes]
    BY <1>5, CommitEffect, Zenon
  <2>1. PICK i \in Blocking \cup Files, changes \in SUBSET (Blocking \cup Issues) :
             act[a].item = {i} /\ branch' = [branch EXCEPT ![PathOf(i)] = act[a].copy \cup changes]
    BY <2>0
  <2> DEFINE f == PathOf(i)
  <2>2. f \in Files /\ InHand(a) = {f} /\ "human" \notin changes
    BY <2>1 DEF PathOf, InHand
  <2>3. \A g \in Files : g # f => branch'[g] = branch[g]
    BY <1>2, <2>1
  <2>4. branch'[f] = act[a].copy \cup changes
    BY <1>2, <2>1, <2>2
  <2>5. \A g \in Files \ raced : "human" \in branch[g] <=> "human" \in branch'[g]
    BY <2>2, <2>3, <2>4 DEF CopiesOK
  <2>6. InHand(a)' = {}
    BY <1>5, CommitEffect DEF InHand
  <2>7. \A b \in Slots \ {a} : InHand(b)' = InHand(b) /\ InHand(b) \subseteq Files
    BY <1>1 DEF InHand, PathOf, ActOK, Attempt
  <2> QED
    BY <1>1, <2>5, <2>6, <2>7 DEF CopiesOK
<1>6. CASE CommitUnanswered(a) \/ CommitAgain(a)
  <2>1. PICK i \in Blocking \cup Files, changes \in SUBSET (Blocking \cup Issues) :
             /\ act[a].item = {i}
             /\ branch' = [branch EXCEPT ![PathOf(i)] = act[a].copy \cup changes]
             /\ \/ act'[a].item = {}
                \/ act'[a].item = {i} /\ act'[a].copy = act[a].copy \cup changes
    BY <1>6, ResendEffect
  <2> DEFINE f == PathOf(i)
  <2>2. f \in Files /\ InHand(a) = {f} /\ "human" \notin changes
    BY <2>1 DEF PathOf, InHand
  <2>3. \A g \in Files : g # f => branch'[g] = branch[g]
    BY <1>2, <2>1
  <2>4. branch'[f] = act[a].copy \cup changes
    BY <1>2, <2>1, <2>2
  <2>5. \A g \in Files \ raced : "human" \in branch[g] <=> "human" \in branch'[g]
    BY <2>2, <2>3, <2>4 DEF CopiesOK
  <2>6. InHand(a)' = {} \/ (InHand(a)' = {f} /\ act'[a].copy = branch'[f])
    <3>1. CASE act'[a].item = {}
      BY <3>1 DEF InHand
    <3>2. CASE act'[a].item = {i} /\ act'[a].copy = act[a].copy \cup changes
      BY <2>4, <3>2 DEF InHand, PathOf
    <3> QED
      BY <2>1, <3>1, <3>2
  <2>7. \A b \in Slots \ {a} : InHand(b)' = InHand(b) /\ InHand(b) \subseteq Files
    BY <1>1 DEF InHand, PathOf, ActOK, Attempt
  <2> QED
    BY <1>1, <2>5, <2>6, <2>7 DEF CopiesOK
<1> QED
  BY <1>3, <1>4, <1>5, <1>6, HandStep

\* Every step keeps the copies right and persons' work in the branch.
LEMMA CopiesStep ==
  ASSUME ActOK, StateOK, HandsOK, CopiesOK, [Next]_vars
  PROVE  /\ CopiesOK'
         /\ \A f \in Files \ raced' : "human" \in branch[f] => "human" \in branch'[f]
<1>1. CASE act' = act /\ branch' = branch /\ raced' = raced
  BY <1>1 DEF CopiesOK, InHand
<1>2. CASE Start
  <2>1. /\ branch' = branch /\ raced' = raced
        /\ act'["counted"].item = {} /\ act'["late"] = act["late"]
    BY <1>2, IdleOK DEF Start, ActOK, Slots, shared, history, Idle
  <2> QED
    BY <2>1 DEF CopiesOK, InHand, Slots
<1>3. CASE OutOfTime
  <2>1. /\ branch' = branch /\ raced' = raced
        /\ act'["counted"].item = {} /\ act'["late"] = act["counted"]
    BY <1>3, IdleOK DEF OutOfTime, Slots, shared
  <2> QED
    BY <2>1 DEF CopiesOK, InHand, Slots
<1>4. ASSUME NEW f \in Files, PersonCommits(f)
      PROVE  /\ CopiesOK'
             /\ \A g \in Files \ raced' : "human" \in branch[g] => "human" \in branch'[g]
  <2>1. /\ act' = act /\ branch' = [branch EXCEPT ![f] = @ \cup {"human"}]
        /\ raced' = IF \E a \in Slots : f \in InHand(a) THEN raced \cup {f} ELSE raced
    BY <1>4 DEF PersonCommits
  <2>2. \A a \in Slots : InHand(a)' = InHand(a) /\ InHand(a) \subseteq Files
    BY <2>1 DEF InHand, PathOf, ActOK, Attempt
  <2>3. \A g \in Files : branch'[g] = IF g = f THEN branch[g] \cup {"human"} ELSE branch[g]
    BY <2>1 DEF StateOK, SharedType
  <2> QED
    BY <2>1, <2>2, <2>3 DEF CopiesOK
<1>5. CASE Resume \/ CiPasses \/ Analyse \/ (\E c \in Blocking : PersonComments(c))
           \/ UNCHANGED vars
  BY <1>1, <1>5 DEF Resume, CiPasses, Analyse, PersonComments, vars, shared, history
<1>6. CASE \E a \in Slots : Step(a) \/ CallFails(a)
  BY <1>6, CopiesStepOf
<1> QED
  BY <1>2, <1>3, <1>4, <1>5, <1>6 DEF Next

\* The initial states.
LEMMA Starts ==
  ASSUME Init
  PROVE  ActOK /\ StateOK /\ TriesOK /\ HandsOK /\ CopiesOK
<1>1. act = [a \in Slots |-> Idle]
  BY DEF Init
<1>2. ActOK /\ HandsOK /\ CopiesOK
  BY <1>1, IdleOK DEF ActOK, HandsOK, CopiesOK, InHand, AttemptOK
<1>3. StateOK
  <2>1. WorkflowType
    <3>1. /\ stage = "review" /\ mode = "run" /\ tries = 0 /\ reviewed = {}
          /\ hasBlocking = FALSE /\ signal = "none"
      BY DEF Init
    <3>2. 0 \in 0..MaxTries /\ {} \in SUBSET Comments
      OBVIOUS
    <3> QED
      BY <3>1, <3>2 DEF WorkflowType
  <2>2. SharedType
    BY DEF Init, SharedType
  <2>3. HistoryType
    BY DEF Init, HistoryType
  <2> QED
    BY <2>1, <2>2, <2>3 DEF StateOK
<1>4. TriesOK
  BY <1>1, IdleOK DEF Init, TriesOK, Slots
<1> QED
  BY <1>2, <1>3, <1>4

\* The inductive invariant of the types.
Typed == ActOK /\ StateOK /\ TriesOK

\* The invariant the other theorems rest on: attempts and state are typed, and
\* retries bounded, in every reachable state.
THEOREM TypeInvariance == Spec => []Typed
<1>1. Init => Typed
  BY Starts DEF Typed
<1>2. Typed /\ [Next]_vars => Typed'
  BY TypeStep DEF Typed
<1> QED
  BY <1>1, <1>2, PTL DEF Spec

\* The agents' state keeps its type, and Temporal makes at most MaxTries
\* attempts at a stage between two resumes.
THEOREM TypeCorrect == Spec => []TypeOK
<1>1. Typed => TypeOK
  BY DEF Typed, TypeOK, ActOK, StateOK
<1> QED
  BY <1>1, TypeInvariance, PTL

\* Agents rewrite whole files from copies, yet overwrite a person's commit only
\* in a file that was in an agent's hands when it was made.
THEOREM PersonsCommitsAreKept == Spec => PersonsWorkIsKept
<1> DEFINE InHandOK == HandsOK /\ CopiesOK
<1>1. Init => InHandOK
  BY Starts
<1>2. Typed /\ InHandOK /\ [Next]_vars =>
        /\ InHandOK'
        /\ [\A f \in Files \ raced' : "human" \in branch[f] => "human" \in branch'[f]]_vars
  BY HandsStep, CopiesStep DEF Typed
<1> QED
  BY <1>1, <1>2, TypeInvariance, PTL DEF Spec, PersonsWorkIsKept

----------------------------------------------------------------------------

\* The blocking comments review-fix can find and fix.
Promised == (reviewed \cap Blocking) \ (FileLevel \cup unposted)

\* No person was asked, no signal lost, no review-fix given up while running.
Trusted == ~asked /\ ~silent /\ ~overlapped

\* The fix of c is in the branch, and in every copy that may replace its file.
Fixed(c) ==
  /\ c \in branch[FileOf[c]]
  /\ \A a \in Slots : FileOf[c] \in InHand(a) => c \in act[a].copy

\* Comments of attempt r of the review that have, or will have, a note.
Due(r) == ((r.got \cap Blocking) \ FileLevel) \ r.missed

NotedBy(r) ==
  r.job = "review" /\ r.place # "read" =>
    \A c \in Due(r) : (r.place = "post" /\ r.todo[c] > 0) \/ notes[c] > 0

\* Whatever the review promised, or will promise when it ends, has a note.
NotedOK ==
  /\ NotedBy(act["counted"])
  /\ \A c \in Promised : notes[c] > 0

\* Up to the end of review-fix, no attempt given up rewrites files unless it is
\* a review-fix itself.
LateOK ==
  stage \in {"review", "fix"} /\ act["late"].job \notin {"none", "review"} => overlapped

\* A person was asked when the fix was partial.
PartialOK == mode = "partial" => asked

\* Review-fix still has c to do, has it in hand, or has done it.
InWork(c) ==
  act["counted"].todo[c] > 0 \/ c \in act["counted"].item \/ Fixed(c)

\* Unless review-fix skips one, no comment falls out of its work unfixed; and
\* once it is over its fixes stay.
FixedOK ==
  Trusted =>
    \A c \in Promised :
      /\ /\ act["counted"].job = "fix" /\ act["counted"].place \in {"fix", "rewrite", "resend"}
         /\ ~act["counted"].skipped
         => InWork(c)
      /\ stage \notin {"review", "fix"} => Fixed(c)

Kept == UNCHANGED <<reviewed, unposted>>

\* An agent's step: what was done is not undone, notes stay, and only the end
\* of the review changes what it promised.
LEMMA HistoryStepOf ==
  ASSUME Typed, NEW a \in Slots, Step(a) \/ CallFails(a)
  PROVE  /\ Trusted' => Trusted
         /\ asked => asked'
         /\ Kept \/ (a = "counted" /\ EndReview(a))
         /\ \A c \in Comments : notes'[c] >= notes[c]
         /\ notes' = notes \/ PostInlineComment(a)
<1> USE DEF Trusted, Kept, workflow, shared, history, Slots
<1>0. asked \in BOOLEAN /\ silent \in BOOLEAN /\ overlapped \in BOOLEAN /\ notes \in [Comments -> Nat]
  BY DEF Typed, StateOK, SharedType, HistoryType
<1>1. CASE Review(a) \/ PostSummary(a) \/ ReadTitles(a) \/ FileIssue(a)
           \/ ReadModerateNotes(a)
           \/ EndFixBacklog(a) \/ ReadBlockingNotes(a) \/ SkipComment(a) \/ ReadFile(a)
  <2>1. UNCHANGED <<reviewed, unposted, asked, silent, overlapped, notes>>
    BY <1>1 DEF Review, PostSummary, ReadTitles, FileIssue, ReadModerateNotes,
                EndFixBacklog, ReadBlockingNotes, SkipComment, ReadFile
  <2> QED
    BY <1>0, <2>1
<1>2. CASE PostInlineComment(a)
  <2>1. /\ UNCHANGED <<workflow, unposted, asked, silent, overlapped>>
        /\ \E c \in Comments, copies \in 0..2 : AddNotes(c, copies)
    BY <1>2 DEF PostInlineComment
  <2> QED
    BY <1>0, <1>2, <2>1 DEF AddNotes
<1>3. CASE EndReview(a)
  BY <1>0, <1>3 DEF EndReview
<1>4. CASE NoBlockingNote(a)
  <2>1. AfterFix(a, signal) /\ UNCHANGED <<reviewed, shared, unposted, silent, overlapped>>
    BY <1>4 DEF NoBlockingNote
  <2>2. asked' = asked \/ asked' = TRUE
    BY <2>1, AfterFixCases
  <2> QED
    BY <1>0, <2>1, <2>2
<1>5. CASE EndFix(a)
  <2>1. /\ AfterFix(a, signal') /\ UNCHANGED <<reviewed, shared, unposted, overlapped>>
        /\ silent' = silent \/ silent' = TRUE
    BY <1>5 DEF EndFix
  <2>2. asked' = asked \/ asked' = TRUE
    BY <2>1, AfterFixCases
  <2> QED
    BY <1>0, <2>1, <2>2
<1>6. CASE CommitFix(a) \/ CommitUnanswered(a) \/ CommitAgain(a) \/ NoFix(a)
           \/ CommitStaticFix(a) \/ ReadAnalysis(a) \/ ReadBlockingIssues(a)
  <2>1. UNCHANGED <<reviewed, unposted, asked, silent, overlapped, notes>>
    BY <1>6 DEF CommitFix, CommitUnanswered, CommitAgain, NoFix, CommitStaticFix,
                ReadAnalysis, ReadBlockingIssues
  <2> QED
    BY <1>0, <2>1
<1>7. CASE EndStatic(a) \/ EndCorrect(a) \/ Verify(a) \/ Merge(a)
  BY <1>0, <1>7 DEF EndStatic, EndCorrect, Verify, Merge
<1>8. CASE CallFails(a)
  BY <1>0, <1>8 DEF CallFails, Lost
<1> QED
  BY <1>1, <1>2, <1>3, <1>4, <1>5, <1>6, <1>7, <1>8 DEF Step

\* No step removes a fix: copies of the file have it too.
LEMMA FixedStep ==
  ASSUME Typed, HandsOK, [Next]_vars, NEW c \in Blocking, Fixed(c)
  PROVE  Fixed(c)'
<1>0. /\ FileOf[c] \in Files /\ act \in [Slots -> Attempt]
      /\ branch \in [Files -> SUBSET (Blocking \cup Issues \cup {"human"})]
  BY DEF Typed, ActOK, StateOK, SharedType
<1>1. CASE act' = act /\ \A f \in Files : branch[f] \subseteq branch'[f]
  BY <1>0, <1>1 DEF Fixed, InHand
<1>2. CASE Start
  <2>1. /\ branch' = branch /\ act'["counted"].item = {} /\ act'["late"] = act["late"]
    BY <1>0, <1>2, IdleOK DEF Start, Slots, shared, Idle
  <2> QED
    BY <2>1 DEF Fixed, InHand, Slots
<1>3. CASE OutOfTime
  <2>1. branch' = branch /\ act'["counted"].item = {} /\ act'["late"] = act["counted"]
    BY <1>3, IdleOK DEF OutOfTime, Slots, shared
  <2> QED
    BY <2>1 DEF Fixed, InHand, Slots
<1>4. CASE \E f \in Files : PersonCommits(f)
  BY <1>0, <1>1, <1>4 DEF PersonCommits
<1>5. CASE Resume \/ CiPasses \/ Analyse \/ (\E d \in Blocking : PersonComments(d))
           \/ UNCHANGED vars
  BY <1>1, <1>5 DEF Resume, CiPasses, Analyse, PersonComments, vars, shared, history
<1>6. ASSUME NEW a \in Slots, Step(a) \/ CallFails(a) PROVE Fixed(c)'
  <2>1. \A b \in Slots \ {a} : act'[b] = act[b] /\ InHand(b)' = InHand(b)
    BY <1>6, JobStep DEF Typed, InHand
  <2>2. CASE act'[a].item = {} /\ branch' = branch
    <3>1. InHand(a)' = {}
      BY <2>2 DEF InHand
    <3> QED
      BY <2>1, <2>2, <3>1 DEF Fixed
  <2>3. CASE ReadFile(a)
    <3>1. PICK i : act'[a].item = {i} /\ act'[a].copy = branch[PathOf(i)] /\ branch' = branch
      BY <2>3, ReadEffect DEF Typed
    <3>2. InHand(a)' = {PathOf(i)}
      BY <3>1 DEF InHand, PathOf
    <3> QED
      BY <2>1, <3>1, <3>2 DEF Fixed
  <2>4. CASE CommitFix(a) \/ CommitStaticFix(a)
    <3>1. \E i \in Blocking \cup Files, changes \in SUBSET (Blocking \cup Issues) :
            /\ act[a].item = {i}
            /\ act[a].job = "fix" => changes = {i}
            /\ branch' = [branch EXCEPT ![PathOf(i)] = act[a].copy \cup changes]
      BY <2>4, CommitEffect, Zenon DEF Typed
    <3>2. PICK i \in Blocking \cup Files, changes \in SUBSET (Blocking \cup Issues) :
               act[a].item = {i} /\ branch' = [branch EXCEPT ![PathOf(i)] = act[a].copy \cup changes]
      BY <3>1
    <3> DEFINE f == PathOf(i)
    <3>3. f \in Files /\ InHand(a) = {f}
      BY <3>2 DEF PathOf, InHand
    <3>4. /\ \A g \in Files : g # f => branch'[g] = branch[g]
          /\ branch'[f] = act[a].copy \cup changes
      BY <1>0, <3>2, <3>3
    <3>5. c \in branch'[FileOf[c]]
      BY <1>0, <3>3, <3>4 DEF Fixed
    <3>6. InHand(a)' = {}
      BY <2>4, CommitEffect DEF InHand, Typed
    <3> QED
      BY <2>1, <3>5, <3>6 DEF Fixed
  <2>5. CASE CommitUnanswered(a) \/ CommitAgain(a)
    <3>1. PICK i \in Blocking \cup Files, changes \in SUBSET (Blocking \cup Issues) :
               /\ act[a].item = {i}
               /\ branch' = [branch EXCEPT ![PathOf(i)] = act[a].copy \cup changes]
               /\ \/ act'[a].item = {}
                  \/ act'[a].item = {i} /\ act'[a].copy = act[a].copy \cup changes
      <4>1. ActOK
        BY DEF Typed
      <4> QED
        BY <2>5, <4>1, ResendEffect
    <3> DEFINE f == PathOf(i)
    <3>2. f \in Files /\ InHand(a) = {f}
      BY <3>1 DEF PathOf, InHand
    <3>3. /\ \A g \in Files : g # f => branch'[g] = branch[g]
          /\ branch'[f] = act[a].copy \cup changes
      BY <1>0, <3>1, <3>2
    <3>4. c \in branch'[FileOf[c]]
      BY <1>0, <3>2, <3>3 DEF Fixed
    <3>5. InHand(a)' = {} \/ (InHand(a)' = {f} /\ act'[a].copy = branch'[f])
      <4>1. CASE act'[a].item = {}
        BY <4>1 DEF InHand
      <4>2. CASE act'[a].item = {i} /\ act'[a].copy = act[a].copy \cup changes
        BY <3>3, <4>2 DEF InHand, PathOf
      <4> QED
        BY <3>1, <4>1, <4>2
    <3> QED
      BY <2>1, <3>4, <3>5 DEF Fixed
  <2> QED
    BY <1>6, <2>2, <2>3, <2>4, <2>5, HandStep DEF Typed
<1> QED
  BY <1>2, <1>3, <1>4, <1>5, <1>6 DEF Next

\* How an agent leaves the first two stages.
LEMMA StageStepOf ==
  ASSUME Typed, NEW a \in Slots, Step(a) \/ CallFails(a)
  PROVE  /\ stage' \in {"review", "fix"} =>
              stage' = stage \/ (a = "counted" /\ EndReview(a) /\ stage = "review")
         /\ mode' = "partial" => mode = "partial" \/ asked'
         /\ stage \in {"review", "fix"} /\ stage' \notin {"review", "fix"} =>
              /\ a = "counted"
              /\ EndReview(a) \/ NoBlockingNote(a) \/ EndFix(a)
<1>0. act["counted"].job \in {"none", stage}
  BY DEF Typed, TriesOK
<1> USE DEF workflow, At, Slots
<1>1. CASE Review(a) \/ PostInlineComment(a) \/ PostSummary(a) \/ ReadTitles(a)
           \/ FileIssue(a)
           \/ ReadModerateNotes(a) \/ EndFixBacklog(a) \/ ReadBlockingNotes(a)
           \/ SkipComment(a) \/ ReadFile(a)
  BY <1>1
     DEF Review, PostInlineComment, PostSummary, ReadTitles, FileIssue,
         ReadModerateNotes,
              EndFixBacklog, ReadBlockingNotes, SkipComment, ReadFile
<1>2. CASE CommitFix(a) \/ CommitUnanswered(a) \/ CommitAgain(a) \/ NoFix(a)
           \/ CommitStaticFix(a) \/ ReadAnalysis(a) \/ ReadBlockingIssues(a)
  BY <1>2
     DEF CommitFix, CommitUnanswered, CommitAgain, NoFix, CommitStaticFix, ReadAnalysis,
         ReadBlockingIssues
<1>3. CASE EndReview(a)
  BY <1>0, <1>3 DEF EndReview, GoOn
<1>4. CASE NoBlockingNote(a)
  <2>1. AfterFix(a, signal)
    BY <1>4 DEF NoBlockingNote
  <2> QED
    BY <1>0, <1>4, <2>1, AfterFixCases
<1>5. CASE EndFix(a)
  <2>1. AfterFix(a, signal')
    BY <1>5 DEF EndFix
  <2> QED
    BY <1>0, <1>5, <2>1, AfterFixCases
<1>6. CASE EndStatic(a) \/ EndCorrect(a) \/ Verify(a) \/ Merge(a)
  BY <1>0, <1>6 DEF EndStatic, EndCorrect, Verify, Merge, GoOn
<1>7. CASE CallFails(a)
  BY <1>7 DEF CallFails, Lost
<1> QED
  BY <1>1, <1>2, <1>3, <1>4, <1>5, <1>6, <1>7 DEF Step

\* Every step keeps LateOK and PartialOK.
LEMMA LateStep ==
  ASSUME Typed, LateOK, PartialOK, [Next]_vars
  PROVE  LateOK' /\ PartialOK'
<1>0. overlapped \in BOOLEAN /\ asked \in BOOLEAN
  BY DEF Typed, StateOK, HistoryType
<1>1. CASE OutOfTime
  <2>1. /\ act'["late"] = act["counted"] /\ stage' = stage /\ mode' # "partial"
        /\ stage = "fix" => overlapped'
    BY <1>1, <1>0 DEF OutOfTime, Lost, Slots
  <2>2. act["counted"].job \in {"none", stage}
    BY DEF Typed, TriesOK
  <2> QED
    BY <2>1, <2>2 DEF LateOK, PartialOK
<1>2. CASE Start
  <2>1. act'["late"] = act["late"] /\ UNCHANGED <<stage, mode, asked, overlapped>>
    BY <1>2 DEF Start, Slots, Typed, ActOK, history
  <2> QED
    BY <2>1 DEF LateOK, PartialOK
<1>3. CASE Resume
  BY <1>3 DEF Resume, LateOK, PartialOK
<1>4. CASE CiPasses
  BY <1>4 DEF CiPasses, LateOK, PartialOK, history
<1>5. CASE Analyse \/ (\E f \in Files : PersonCommits(f))
           \/ (\E c \in Blocking : PersonComments(c))
           \/ UNCHANGED vars
  BY <1>5
     DEF Analyse, PersonCommits, PersonComments, vars, workflow, history, LateOK,
         PartialOK
<1>6. ASSUME NEW a \in Slots, Step(a) \/ CallFails(a) PROVE LateOK' /\ PartialOK'
  <2>1. overlapped' = overlapped /\ (asked => asked')
    BY <1>6, FlowStep, HistoryStepOf DEF Typed
  <2>2. act'["late"].job \in {"none", act["late"].job}
    BY <1>6, JobStep, IdleOK DEF Slots, Typed
  <2>3. stage' \in {"review", "fix"} => stage \in {"review", "fix"}
    BY <1>6, StageStepOf
  <2>4. mode' = "partial" => mode = "partial" \/ asked'
    BY <1>6, StageStepOf
  <2> QED
    BY <2>1, <2>2, <2>3, <2>4 DEF LateOK, PartialOK
<1> QED
  BY <1>1, <1>2, <1>3, <1>4, <1>5, <1>6 DEF Next

\* The same of every step.
LEMMA HistoryStep ==
  ASSUME Typed, [Next]_vars
  PROVE  /\ Trusted' => Trusted
         /\ Kept \/ EndReview("counted")
         /\ \A c \in Comments : notes'[c] >= notes[c]
<1> USE DEF Trusted, Kept, workflow, shared, history, Slots
<1>0. asked \in BOOLEAN /\ silent \in BOOLEAN /\ overlapped \in BOOLEAN /\ notes \in [Comments -> Nat]
  BY DEF Typed, StateOK, SharedType, HistoryType
<1>1. CASE Start \/ Resume \/ CiPasses \/ Analyse
           \/ (\E f \in Files : PersonCommits(f)) \/ UNCHANGED vars
  <2>1. UNCHANGED <<reviewed, unposted, asked, silent, overlapped, notes>>
    BY <1>1 DEF Start, Resume, CiPasses, Analyse, PersonCommits, vars
  <2> QED
    BY <1>0, <2>1
<1>2. CASE OutOfTime
  <2>1. UNCHANGED <<reviewed, unposted, asked, silent, notes>>
    BY <1>2 DEF OutOfTime, Lost
  <2>2. overlapped' = (overlapped \/ stage = "fix")
    BY <1>2 DEF OutOfTime
  <2>3. overlapped => overlapped'
    BY <1>0, <2>2, Zenon
  <2> QED
    BY <1>0, <2>1, <2>3
<1>3. CASE \E c \in Blocking : PersonComments(c)
  <2>1. /\ UNCHANGED <<reviewed, unposted, asked, silent, overlapped>>
        /\ \E c \in Comments : notes' = [notes EXCEPT ![c] = @ + 1]
    BY <1>3 DEF PersonComments, Comments
  <2> QED
    BY <1>0, <2>1
<1>4. CASE \E a \in Slots : Step(a) \/ CallFails(a)
  BY <1>4, HistoryStepOf
<1> QED
  BY <1>1, <1>2, <1>3, <1>4 DEF Next

\* The steps of the review.
LEMMA ReviewCases ==
  ASSUME NEW a \in Slots, act[a].job = "review", Step(a) \/ CallFails(a)
  PROVE  \/ Review(a) \/ PostInlineComment(a) \/ PostSummary(a) \/ EndReview(a)
         \/ ReadTitles(a) \/ FileIssue(a) \/ NoFix(a) \/ CallFails(a)
BY DEF Step, At, ReadModerateNotes, EndFixBacklog, ReadBlockingNotes, NoBlockingNote,
       SkipComment, ReadFile, CommitFix, CommitUnanswered, CommitAgain, EndFix,
       ReadAnalysis, EndStatic,
       ReadBlockingIssues, CommitStaticFix, EndCorrect, Verify, Merge

\* The steps of review-fix.
LEMMA FixCases ==
  ASSUME NEW a \in Slots, act[a].job = "fix", Step(a) \/ CallFails(a)
  PROVE  \/ ReadTitles(a) \/ FileIssue(a) \/ ReadModerateNotes(a) \/ EndFixBacklog(a)
         \/ ReadBlockingNotes(a) \/ NoBlockingNote(a) \/ SkipComment(a) \/ ReadFile(a)
         \/ CommitFix(a) \/ CommitUnanswered(a) \/ CommitAgain(a) \/ NoFix(a)
         \/ EndFix(a) \/ CallFails(a)
BY
   DEF Step, At, Review, PostInlineComment, PostSummary, EndReview, ReadAnalysis,
       EndStatic,
       ReadBlockingIssues, CommitStaticFix, EndCorrect, Verify, Merge

\* A step of the review that counts: a comment leaves its list with a note, or
\* is marked missed.
LEMMA NotedByStep ==
  ASSUME Typed, NotedBy(act["counted"]), Step("counted") \/ CallFails("counted")
  PROVE  NotedBy(act["counted"])'
<1> DEFINE r == act["counted"]
<1>0. /\ "counted" \in Slots /\ r \in Attempt /\ act \in [Slots -> Attempt]
      /\ notes \in [Comments -> Nat]
      /\ Due(r) \subseteq Comments /\ Due(r)' \subseteq Comments /\ Comments \subseteq Work
      /\ \A c \in Comments : notes'[c] >= notes[c]
  BY HistoryStepOf DEF Slots, Typed, ActOK, StateOK, SharedType, Due, Comments, Work
<1>1. CASE r' = Idle
  BY <1>1, IdleOK DEF NotedBy
<1>2. CASE r.job # "review"
  BY <1>0, <1>2, JobStep, IdleOK DEF NotedBy, Typed
<1>3. CASE r.job = "review" /\ Review("counted")
  <2>1. PICK got \in SUBSET Comments :
             act' = [act EXCEPT !["counted"].place = "post", !["counted"].got = got,
                                !["counted"].todo = Once(got \ FileLevel)]
    BY <1>3 DEF Review
  <2>2. r'.got = got /\ r'.place = "post" /\ r'.todo = Once(got \ FileLevel)
    BY <1>0, <2>1 DEF Attempt
  <2> QED
    BY <1>0, <2>2 DEF NotedBy, Due, Once
<1>4. CASE r.job = "review" /\ PostInlineComment("counted")
  <2>1. PICK d \in Comments, copies \in 0..2 :
             /\ Has("counted", d) /\ AddNotes(d, copies)
             /\ act' = [act EXCEPT !["counted"].todo[d] = @ - 1,
                                   !["counted"].missed = IF copies = 0 THEN @ \cup {d} ELSE @]
    BY <1>4 DEF PostInlineComment
  <2>2. /\ r'.got = r.got /\ r'.place = r.place /\ r'.missed = (IF copies = 0 THEN r.missed \cup {d} ELSE r.missed)
        /\ r'.todo = [r.todo EXCEPT ![d] = r.todo[d] - 1] /\ r'.job = r.job
    BY <1>0, <2>1 DEF Attempt
  <2>3. r.place = "post"
    BY <1>4 DEF PostInlineComment, At
  <2>4. notes' = [notes EXCEPT ![d] = notes[d] + copies] /\ r.todo \in [Work -> Nat]
    BY <1>0, <2>1 DEF AddNotes, Attempt
  <2> SUFFICES ASSUME NEW c \in Due(r)'
               PROVE  r'.todo[c] > 0 \/ notes'[c] > 0
    BY <2>2, <2>3 DEF NotedBy
  <2>5. c \in Due(r) /\ (c = d => copies # 0) /\ c \in Comments
    BY <1>0, <2>2 DEF Due
  <2>6. r.todo[c] > 0 \/ notes[c] > 0
    BY <1>4, <2>3, <2>5 DEF NotedBy
  <2>7. CASE c = d
    BY <1>0, <2>1, <2>4, <2>5, <2>7
  <2>8. CASE c # d
    BY <1>0, <2>2, <2>4, <2>5, <2>6, <2>8
  <2> QED
    BY <2>7, <2>8
<1>5. CASE r.job = "review" /\ PostSummary("counted")
  <2>1. r.place = "post" /\ r.todo = NoWork /\ UNCHANGED notes
    BY <1>5 DEF PostSummary, At, NothingLeft, shared
  <2>2. r'.got = r.got /\ r'.missed = r.missed /\ r'.place = "backlog"
    BY <1>0, <1>5 DEF PostSummary, Attempt
  <2>3. \A c \in Due(r) : notes[c] > 0
    BY <1>0, <1>5, <2>1 DEF NotedBy, NoWork
  <2> QED
    BY <2>1, <2>2, <2>3 DEF NotedBy, Due
<1>6. CASE r.job = "review" /\ (ReadTitles("counted") \/ FileIssue("counted")
           \/ NoFix("counted"))
  <2>1. r.place \notin {"read", "post"} /\ UNCHANGED notes
    BY <1>6 DEF ReadTitles, FileIssue, NoFix, At, shared
  <2>2. r'.got = r.got /\ r'.missed = r.missed
    BY <1>0, <1>6 DEF ReadTitles, FileIssue, NoFix, Released, Attempt
  <2> QED
    BY <1>6, <2>1, <2>2 DEF NotedBy, Due
<1>7. CASE EndReview("counted") \/ CallFails("counted")
  BY <1>0, <1>1, <1>7 DEF EndReview, CallFails, Finished
<1> QED
  BY <1>0, <1>2, <1>3, <1>4, <1>5, <1>6, <1>7, ReviewCases

\* Every step keeps NotedOK.
LEMMA NotedStep ==
  ASSUME Typed, NotedOK, [Next]_vars
  PROVE  NotedOK'
<1>0. /\ Promised \subseteq Comments /\ notes \in [Comments -> Nat] /\ act["counted"] \in Attempt
      /\ \A c \in Comments : notes'[c] >= notes[c]
      /\ \A c \in Comments : notes'[c] \in Nat
  BY HistoryStep, TypeStep
     DEF Typed, ActOK, Slots, StateOK, SharedType, Promised, Comments
<1>1. NotedBy(act["counted"])'
  <2>1. CASE act'["counted"] = act["counted"]
    BY <1>0, <2>1 DEF NotedOK, NotedBy, Due, Comments
  <2>2. CASE Start \/ OutOfTime
    <3>1. act'["counted"] = Idle \/ act'["counted"].place = "read"
      <4>1. CASE Start
        BY <4>1 DEF Start, Slots, Typed, ActOK, Idle
      <4>2. CASE OutOfTime
        BY <4>2 DEF OutOfTime, Slots
      <4> QED
        BY <2>2, <4>1, <4>2
    <3> QED
      BY <3>1, IdleOK DEF NotedBy
  <2>3. CASE Resume \/ CiPasses \/ Analyse \/ (\E f \in Files : PersonCommits(f))
             \/ (\E c \in Blocking : PersonComments(c)) \/ UNCHANGED vars
    BY <2>1, <2>3 DEF Resume, CiPasses, Analyse, PersonCommits, PersonComments, vars
  <2>4. ASSUME NEW a \in Slots, Step(a) \/ CallFails(a) PROVE NotedBy(act["counted"])'
    <3>1. CASE a = "counted"
      BY <2>4, <3>1, NotedByStep DEF NotedOK, NotedBy, Due
    <3>2. CASE a = "late"
      BY <2>1, <2>4, <3>2, JobStep DEF Slots, Typed
    <3> QED
      BY <3>1, <3>2 DEF Slots
  <2> QED
    BY <2>2, <2>3, <2>4 DEF Next
<1>2. \A c \in Promised' : notes'[c] > 0
  <2>1. CASE Kept
    BY <1>0, <2>1 DEF Kept, Promised, NotedOK
  <2>2. CASE EndReview("counted")
    <3>1. /\ reviewed' = act["counted"].got /\ unposted' = act["counted"].missed
          /\ act["counted"].job = "review" /\ act["counted"].place = "backlog" /\ notes' = notes
      BY <2>2 DEF EndReview, At, shared
    <3> QED
      BY <3>1 DEF Promised, NotedOK, NotedBy, Due
  <2> QED
    BY <2>1, <2>2, HistoryStep
<1> QED
  BY <1>1, <1>2 DEF NotedOK, NotedBy, Due

\* After review-fix every promised comment is fixed: only its end without a
\* skip, or a review without blocking comments, leads past it.
LEMMA FixedLater ==
  ASSUME Typed, HandsOK, NotedOK, PartialOK, FixedOK, Trusted, Trusted', [Next]_vars,
         stage' \notin {"review", "fix"}, NEW c \in Promised'
  PROVE  Fixed(c)'
<1>0. /\ act["counted"].job \in {"none", stage} /\ act["counted"] \in Attempt
      /\ "counted" \in Slots /\ c \in Blocking /\ c \in Comments /\ c \notin FileLevel
  BY DEF Typed, TriesOK, ActOK, Slots, Promised, Comments
<1>1. CASE stage \notin {"review", "fix"}
  <2>1. ~EndReview("counted")
    BY <1>0, <1>1 DEF EndReview, At
  <2>2. c \in Promised
    BY <2>1, HistoryStep DEF Kept, Promised
  <2> QED
    BY <1>0, <1>1, <2>2, FixedStep DEF FixedOK
<1>2. CASE stage \in {"review", "fix"}
  <2>1. CASE Resume
    BY <1>2, <2>1 DEF Resume, Trusted, PartialOK
  <2>2. CASE Start \/ OutOfTime \/ CiPasses \/ Analyse
             \/ (\E f \in Files : PersonCommits(f))
             \/ (\E d \in Blocking : PersonComments(d)) \/ UNCHANGED vars
    BY <1>2, <2>2
       DEF Start, OutOfTime, Lost, CiPasses, Analyse, PersonCommits, PersonComments,
                      vars, workflow
  <2>3. CASE EndReview("counted")
    <3>1. reviewed' = act["counted"].got
      BY <2>3 DEF EndReview
    <3>2. act["counted"].got \cap Blocking = {}
      BY <2>3 DEF EndReview, GoOn
    <3> QED
      BY <3>1, <3>2 DEF Promised
  <2>4. CASE NoBlockingNote("counted")
    <3>1. c \in Promised
      BY <2>4 DEF NoBlockingNote, history, Promised
    <3>2. NotesOf(Blocking)[c] = 0 /\ c \in Work
      BY <1>0, <2>4 DEF NoBlockingNote, NoWork, Work
    <3> QED
      BY <1>0, <3>1, <3>2 DEF NotedOK, NotesOf
  <2>5. CASE EndFix("counted")
    <3>1. /\ act["counted"].job = "fix" /\ act["counted"].place = "fix"
          /\ act["counted"].todo[c] = 0 /\ c \in Promised
      BY <1>0, <2>5 DEF EndFix, At, NothingLeft, NoWork, Promised, Work
    <3>2. ~act["counted"].skipped
      <4>1. signal' # "partial"
        <5>1. AfterFix("counted", signal') /\ asked' # TRUE
          BY <2>5 DEF EndFix, Trusted
        <5> QED
          BY <1>0, <5>1, AfterFixCases
      <4>2. silent' # TRUE
        BY DEF Trusted
      <4> QED
        BY <2>5, <4>1, <4>2 DEF EndFix
    <3>3. act["counted"].item = {}
      BY <1>0, <3>1 DEF HandsOK
    <3>4. Fixed(c)
      BY <3>1, <3>2, <3>3 DEF FixedOK, InWork
    <3> QED
      BY <1>0, <3>4, FixedStep
  <2>6. ASSUME NEW a \in Slots, Step(a) \/ CallFails(a) PROVE Fixed(c)'
    BY <1>2, <2>3, <2>4, <2>5, <2>6, StageStepOf
  <2> QED
    BY <2>1, <2>2, <2>6 DEF Next
<1> QED
  BY <1>1, <1>2

\* While review-fix runs, a comment stays in its work until it is fixed.
LEMMA InWorkStep ==
  ASSUME Typed, HandsOK, NotedOK, LateOK, FixedOK, Trusted, Trusted', [Next]_vars,
         NEW c \in Promised',
         act'["counted"].job = "fix", act'["counted"].place \in {"fix", "rewrite", "resend"},
         ~act'["counted"].skipped
  PROVE  InWork(c)'
<1> DEFINE r == act["counted"]
<1>0. /\ r.job \in {"none", stage} /\ r \in Attempt /\ act \in [Slots -> Attempt]
      /\ "counted" \in Slots /\ c \in Blocking /\ c \in Comments /\ c \in Work /\ c \notin FileLevel
  BY DEF Typed, TriesOK, ActOK, Slots, Promised, Comments, Work
<1>1. CASE r' = r
  <2>1. c \in Promised
    BY <1>1, HistoryStep, IdleOK DEF Kept, Promised, EndReview, At
  <2> QED
    BY <1>0, <1>1, <2>1, FixedStep DEF FixedOK, InWork
<1>2. CASE Start \/ OutOfTime
  <2>1. CASE Start
    BY <1>0, <2>1 DEF Start, Idle
  <2>2. CASE OutOfTime
    BY <2>2, IdleOK DEF OutOfTime, Slots
  <2> QED
    BY <1>2, <2>1, <2>2
<1>3. CASE Resume \/ CiPasses \/ Analyse \/ (\E f \in Files : PersonCommits(f))
           \/ (\E d \in Blocking : PersonComments(d)) \/ UNCHANGED vars
  BY <1>1, <1>3 DEF Resume, CiPasses, Analyse, PersonCommits, PersonComments, vars
<1>4. CASE \E a \in Slots \ {"counted"} : Step(a) \/ CallFails(a)
  BY <1>0, <1>1, <1>4, JobStep DEF Typed
<1>5. CASE Step("counted") \/ CallFails("counted")
  <2>1. r.job = "fix" /\ r' # Idle /\ stage = "fix"
    BY <1>0, <1>5, JobStep, IdleOK DEF Typed
  <2>2. c \in Promised
    BY <2>1, HistoryStep DEF Kept, Promised, EndReview, At
  <2>3. CASE ReadTitles("counted") \/ FileIssue("counted")
             \/ ReadModerateNotes("counted")
             \/ EndFixBacklog("counted")
    <3>1. r'.place \in {"backlog", "titles", "blocking"}
      BY <1>0, <2>3 DEF ReadTitles, FileIssue, ReadModerateNotes, EndFixBacklog, Attempt
    <3> QED
      BY <3>1
  <2>4. CASE ReadBlockingNotes("counted")
    <3>1. r'.todo = NotesOf(Blocking) /\ notes[c] > 0
      BY <1>0, <2>2, <2>4 DEF ReadBlockingNotes, Attempt, NotedOK
    <3> QED
      BY <1>0, <2>4, <3>1 DEF InWork, NotesOf
  <2>5. CASE SkipComment("counted") \/ NoFix("counted")
    <3>1. r'.skipped = TRUE
      <4>1. CASE SkipComment("counted")
        BY <1>0, <4>1 DEF SkipComment, Attempt
      <4>2. CASE NoFix("counted")
        BY <1>0, <4>2 DEF NoFix, Released, Attempt
      <4> QED
        BY <2>5, <4>1, <4>2
    <3> QED
      BY <3>1
  <2>6. CASE ReadFile("counted")
    <3>1. PICK i : /\ r'.item = {i} /\ r'.todo = [r.todo EXCEPT ![i] = r.todo[i] - 1]
                   /\ r'.skipped = r.skipped /\ r.place = "fix" /\ r.item = {}
      <4>1. ActOK
        BY DEF Typed
      <4>2. r.place = "fix" /\ r.item = {}
        BY <1>0, <2>6, <4>1, ReadEffect
      <4>3. \E i \in Blocking \cup Files :
              /\ r'.item = {i} /\ r'.todo = [r.todo EXCEPT ![i] = r.todo[i] - 1]
              /\ r'.skipped = r.skipped
        BY <1>0, <2>6, <4>1, ReadEffect, Zenon
      <4> HIDE DEF r
      <4> QED
        BY <4>2, <4>3
    <3>2. InWork(c)
      BY <2>1, <2>2, <3>1 DEF FixedOK
    <3>3. r.todo \in [Work -> Nat]
      BY <1>0 DEF Attempt
    <3>4. CASE c = i
      BY <3>1, <3>4 DEF InWork
    <3>5. CASE c # i
      <4>1. r'.todo[c] = r.todo[c]
        BY <1>0, <3>1, <3>3, <3>5
      <4> QED
        BY <1>0, <3>1, <3>2, <4>1, FixedStep DEF InWork
    <3> QED
      BY <3>4, <3>5
  <2>7. CASE CommitFix("counted")
    <3>1. /\ r'.item = {} /\ r'.todo = r.todo /\ r'.skipped = r.skipped /\ r.place = "rewrite"
      <4>1. ActOK /\ r.place = "rewrite"
        BY <2>7 DEF CommitFix, At, Typed
      <4> QED
        BY <1>0, <2>7, <4>1, CommitEffect, Zenon
    <3>2. InWork(c)
      BY <2>1, <2>2, <3>1 DEF FixedOK
    <3>3. CASE c \notin r.item
      BY <1>0, <3>1, <3>2, <3>3, FixedStep DEF InWork
    <3>4. CASE c \in r.item
      <4>1. \E i \in Blocking \cup Files, changes \in SUBSET (Blocking \cup Issues) :
              /\ r.item = {i}
              /\ r.job = "fix" => changes = {i}
              /\ branch' = [branch EXCEPT ![PathOf(i)] = r.copy \cup changes]
        BY <1>0, <2>7, CommitEffect, Zenon DEF Typed
      <4>2. branch' = [branch EXCEPT ![PathOf(c)] = r.copy \cup {c}]
        BY <2>1, <3>4, <4>1
      <4>3. PathOf(c) = FileOf[c] /\ FileOf[c] \in Files
        BY <1>0 DEF PathOf, Comments
      <4>4. c \in branch'[FileOf[c]]
        BY <4>2, <4>3 DEF Typed, StateOK, SharedType
      <4>5. act["late"].job \in {"none", "review"} /\ act'["late"] = act["late"]
        BY <1>5, <2>1, JobStep DEF LateOK, Trusted, Slots, Typed
      <4>6. act'["late"].item = {}
        BY <4>5 DEF HandsOK, Slots
      <4>7. InHand("late")' = {} /\ InHand("counted")' = {}
        BY <3>1, <4>6 DEF InHand
      <4>8. Fixed(c)'
        BY <4>4, <4>7 DEF Fixed, Slots
      <4> QED
        BY <4>8 DEF InWork
    <3> QED
      BY <3>3, <3>4
  <2>9. CASE CommitUnanswered("counted") \/ CommitAgain("counted")
    <3>1. PICK i \in Blocking \cup Files, changes \in SUBSET (Blocking \cup Issues) :
               /\ r.item = {i}
               /\ r.job = "fix" => i \in r.copy \cup changes
               /\ branch' = [branch EXCEPT ![PathOf(i)] = r.copy \cup changes]
               /\ r'.item = {} \/ r'.item = {i}
      <4>1. ActOK
        BY DEF Typed
      <4> QED
        BY <1>0, <2>9, <4>1, ResendEffect
    <3>2. r'.todo = r.todo /\ r'.skipped = r.skipped
      BY <1>0, <2>9, ResendEffect DEF Typed
    <3>3. r.place \in {"rewrite", "resend"}
      BY <2>9 DEF CommitUnanswered, CommitAgain
    <3>4. InWork(c)
      BY <2>1, <2>2, <3>2, <3>3 DEF FixedOK
    <3>5. CASE c \notin r.item
      BY <1>0, <3>2, <3>4, <3>5, FixedStep DEF InWork
    <3>6. CASE c \in r.item /\ r'.item = {i}
      BY <3>1, <3>6 DEF InWork
    <3>7. CASE c \in r.item /\ r'.item = {}
      <4>1. branch' = [branch EXCEPT ![PathOf(c)] = r.copy \cup changes] /\ c \in r.copy \cup changes
        BY <2>1, <3>1, <3>7
      <4>2. PathOf(c) = FileOf[c] /\ FileOf[c] \in Files
        BY <1>0 DEF PathOf, Comments
      <4>3. c \in branch'[FileOf[c]]
        BY <4>1, <4>2 DEF Typed, StateOK, SharedType
      <4>4. act["late"].job \in {"none", "review"} /\ act'["late"] = act["late"]
        BY <1>5, <2>1, JobStep DEF LateOK, Trusted, Slots, Typed
      <4>5. act'["late"].item = {}
        BY <4>4 DEF HandsOK, Slots
      <4>6. InHand("late")' = {} /\ InHand("counted")' = {}
        BY <3>7, <4>5 DEF InHand
      <4>7. Fixed(c)'
        BY <4>3, <4>6 DEF Fixed, Slots
      <4> QED
        BY <4>7 DEF InWork
    <3> QED
      BY <3>1, <3>5, <3>6, <3>7
  <2>8. CASE NoBlockingNote("counted") \/ EndFix("counted") \/ CallFails("counted")
    BY <1>0, <2>1, <2>8 DEF NoBlockingNote, EndFix, CallFails, Finished
  <2> QED
    BY <1>0, <1>5, <2>1, <2>3, <2>4, <2>5, <2>6, <2>7, <2>8, <2>9, FixCases
<1> QED
  BY <1>2, <1>3, <1>4, <1>5 DEF Next

\* The inductive invariant of BlockersFixed.
FixingOK == HandsOK /\ NotedOK /\ LateOK /\ PartialOK /\ FixedOK

\* Every step keeps it.
LEMMA FixingStep ==
  ASSUME Typed, FixingOK, [Next]_vars
  PROVE  FixingOK'
<1>1. HandsOK' /\ NotedOK' /\ LateOK' /\ PartialOK'
  BY HandsStep, NotedStep, LateStep DEF FixingOK, Typed
<1>2. FixedOK'
  BY HistoryStep, FixedLater, InWorkStep DEF FixingOK, FixedOK
<1> QED
  BY <1>1, <1>2 DEF FixingOK

\* Whatever is merged has a fix for every blocking comment that became a note,
\* unless a person was asked, a signal was lost or two review-fix ran at once:
\* retries, skipped files, whole-file rewrites and persons' commits take no fix
\* away.
THEOREM BlockersAreFixed == Spec => []BlockersFixed
<1>1. Init => FixingOK
  <2> SUFFICES ASSUME Init PROVE FixingOK
    OBVIOUS
  <2>1. act = [a \in Slots |-> Idle] /\ reviewed = {} /\ mode = "run" /\ HandsOK
    BY Starts DEF Init
  <2> QED
    BY <2>1, IdleOK
       DEF FixingOK, NotedOK, NotedBy, LateOK, PartialOK, FixedOK, Promised, Slots
<1>2. Typed /\ FixingOK /\ [Next]_vars => FixingOK'
  BY FixingStep
<1>3. FixingOK => BlockersFixed
  BY DEF FixingOK, FixedOK, BlockersFixed, Trusted, Promised, Fixed
<1> QED
  BY <1>1, <1>2, <1>3, TypeInvariance, PTL DEF Spec
=============================================================================
