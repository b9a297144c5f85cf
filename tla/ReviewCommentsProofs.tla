------------------------ MODULE ReviewCommentsProofs ------------------------
(***************************************************************************)
(* What becomes of the comments of a review, for any comments, smells,     *)
(* files and mishaps: a note is fixed once for each time review-fix is     *)
(* asked for; a moderate comment gets one backlog issue at most, and has   *)
(* it when review-fix is over, the exceptions of OneBacklogIssue and       *)
(* ModerateReachesBacklog apart.                                           *)
(***************************************************************************)
EXTENDS MergeRequestAgentsProofs, Integers

USE WorkAssumption, BoundsAssumption

(* One commit for each note and each time review-fix is asked for *)

\* Attempt r of review-fix has not read the blocking notes yet.
Whole(r) ==
  IF r.job = "fix" /\ r.place \in {"read", "titles", "backlog", "blocking"} THEN 1 ELSE 0

\* The workflow is about to start one.
Owed == IF stage = "fix" /\ mode = "run" /\ act["counted"] = Idle THEN 1 ELSE 0

\* The commits attempt r may still make for a comment, those sent again apart.
Part(r, c) ==
  IF r.job = "fix" /\ r.place \in {"fix", "rewrite", "resend"}
  THEN r.todo[c] + (IF c \in r.item /\ r.place # "resend" THEN 1 ELSE 0) ELSE 0

\* Of n commits, those that were not sent before.
Sent(n, again, c) == n[c] - again[c]

\* The rounds of review-fix that have still to read the notes.
Unread == Whole(act["counted"]) + Whole(act["late"]) + Owed

\* The commits made and those to come are covered by the notes of the rounds
\* that have read them; the others will read as many notes as there are.
Covered(c) ==
  Sent(fixes, repeated, c) + Part(act["counted"], c) + Part(act["late"], c)
    <= notes[c] * (fixRuns - Unread)

CommitsOK == Unread <= fixRuns /\ \A c \in Blocking : Covered(c)

\* A product of natural numbers grows with its factors.
LEMMA ProductGrows ==
  ASSUME NEW m \in Nat, NEW n \in Nat, NEW s \in Nat, NEW t \in Nat, m <= n, s <= t
  PROVE  m * s <= n * t
<1> DEFINE d == n - m
           e == t - s
<1>1. d \in Nat /\ e \in Nat /\ n = m + d /\ t = s + e
  OBVIOUS
<1> HIDE DEF d, e
<1>2. (m + d) * (s + e) = m * s + (m * e + d * s + d * e)
  BY <1>1
<1>3. m * e \in Nat /\ d * s \in Nat /\ d * e \in Nat /\ m * s \in Nat
  BY <1>1
<1> QED
  BY <1>1, <1>2, <1>3

LEMMA ProductTyped == \A m, n \in Nat : m * n \in Nat
OBVIOUS

\* What the two attempts count is a natural number.
LEMMA CountsTyped ==
  ASSUME Typed, NEW a \in Slots
  PROVE  /\ Whole(act[a]) \in {0, 1} /\ Owed \in {0, 1}
         /\ \A c \in Blocking : Part(act[a], c) \in Nat
<1>1. act[a].todo \in [Work -> Nat]
  BY DEF Typed, ActOK, Attempt
<1> QED
  BY <1>1 DEF Whole, Owed, Part, Work, Comments

\* Commits sent once are counted by integers.
LEMMA SentTyped ==
  ASSUME Typed, Typed', NEW c \in Blocking
  PROVE  /\ fixes[c] \in Nat /\ repeated[c] \in Nat
         /\ Sent(fixes, repeated, c) \in Int /\ Sent(fixes', repeated', c) \in Int
<1>1. fixes[c] \in Nat /\ repeated[c] \in Nat
  BY DEF Typed, StateOK, HistoryType
<1>2. fixes'[c] \in Nat /\ repeated'[c] \in Nat
  BY DEF Typed, StateOK, HistoryType
<1> QED
  BY <1>1, <1>2 DEF Sent

\* A commit without an answer, and one sent again, leave the rest of the attempt.
LEMMA Resent ==
  ASSUME Typed, NEW a \in Slots, CommitUnanswered(a) \/ CommitAgain(a)
  PROVE  /\ act[a].place \in {"rewrite", "resend"} /\ act[a].job \in {"fix", "correct"}
         /\ act'[a].place \in {"fix", "resend"} /\ act'[a].job = act[a].job
         /\ act'[a].todo = act[a].todo /\ act'[a].titles = act[a].titles
         /\ act'[a].item \in {{}, act[a].item}
<1>0. act \in [Slots -> Attempt] /\ act[a] \in Attempt
  BY DEF Typed, ActOK
<1>1. CASE CommitUnanswered(a)
  <2>1. /\ act[a].job \in {"fix", "correct"} /\ act[a].place = "rewrite"
        /\ \E changes : act' = [act EXCEPT ![a].place = "resend", ![a].copy = @ \cup changes]
    BY <1>1 DEF CommitUnanswered
  <2> QED
    BY <1>0, <2>1 DEF Attempt
<1>2. CASE CommitAgain(a)
  <2>1. /\ act[a].job \in {"fix", "correct"} /\ act[a].place = "resend"
        /\ Released(a, FALSE) \/ act' = act
    BY <1>2 DEF CommitAgain
  <2>2. CASE act' = act
    BY <2>1, <2>2
  <2>3. CASE Released(a, FALSE)
    BY <1>0, <2>1, <2>3 DEF Released, Attempt
  <2> QED
    BY <2>1, <2>2, <2>3
<1> QED
  BY <1>1, <1>2

\* The same of the next state.
LEMMA CountsTypedNext ==
  ASSUME Typed', NEW a \in Slots
  PROVE  /\ Whole(act'[a]) \in {0, 1} /\ Owed' \in {0, 1}
         /\ \A c \in Blocking : Part(act'[a], c) \in Nat
<1>1. act'[a].todo \in [Work -> Nat]
  BY DEF Typed, ActOK, Attempt
<1> QED
  BY <1>1 DEF Whole, Owed, Part, Work, Comments

\* A step that leaves no more to commit than it found.
LEMMA CommitsKept ==
  ASSUME Typed, Typed', CommitsOK, [Next]_vars, Unread' <= fixRuns',
         fixRuns - Unread <= fixRuns' - Unread',
         \A c \in Blocking :
           Sent(fixes', repeated', c) + Part(act'["counted"], c) + Part(act'["late"], c)
             <= Sent(fixes, repeated, c) + Part(act["counted"], c) + Part(act["late"], c)
  PROVE  CommitsOK'
<1> SUFFICES ASSUME NEW c \in Blocking PROVE Covered(c)'
  BY DEF CommitsOK
<1> DEFINE n == notes[c]
           s == fixRuns - Unread
           p == Sent(fixes, repeated, c) + Part(act["counted"], c) + Part(act["late"], c)
<1>1. "counted" \in Slots /\ "late" \in Slots /\ c \in Comments
  BY DEF Slots, Comments
<1>2. /\ n \in Nat /\ n' \in Nat /\ n <= n' /\ fixRuns \in Nat /\ fixRuns' \in Nat
  BY <1>1, HistoryStep DEF Typed, StateOK, SharedType, HistoryType
<1>3. Unread \in Nat /\ Unread' \in Nat
  BY <1>1, CountsTyped, CountsTypedNext DEF Unread
<1>4. s \in Nat /\ s' \in Nat /\ s <= s'
  <2>1. Unread <= fixRuns
    BY DEF CommitsOK
  <2>2. fixRuns - Unread \in Nat
    BY <1>2, <1>3, <2>1
  <2>3. fixRuns' - Unread' \in Nat
    <3> DEFINE u == Unread'
               f == fixRuns'
    <3>1. u \in Nat /\ f \in Nat /\ u <= f
      BY <1>2, <1>3
    <3> HIDE DEF u, f
    <3>2. f - u \in Nat
      BY <3>1
    <3> QED
      BY <3>2 DEF u, f
  <2>4. fixRuns - Unread <= fixRuns' - Unread'
    OBVIOUS
  <2> QED
    BY <2>2, <2>3, <2>4
<1>5. p \in Int /\ p' \in Int /\ p' <= p
  BY <1>1, <1>2, SentTyped, CountsTyped, CountsTypedNext
<1>6. p <= n * s
  BY DEF CommitsOK, Covered
<1> HIDE DEF n, s, p
<1>7. n * s <= n' * s'
  BY <1>2, <1>4, ProductGrows
<1>8. n * s \in Nat /\ n' * s' \in Nat
  BY <1>2, <1>4, ProductTyped
<1>9. p' <= n' * s'
  BY <1>5, <1>6, <1>7, <1>8
<1> QED
  BY <1>9 DEF Covered, n, s, p

\* Who changes the counts of runs and of commits.
LEMMA RunsStepOf ==
  ASSUME Typed, NEW a \in Slots, Step(a) \/ CallFails(a)
  PROVE  /\ UNCHANGED <<fixes, repeated>> \/ CommitFix(a)
              \/ CommitUnanswered(a) \/ CommitAgain(a)
         /\ fixRuns' = fixRuns
              \/ (a = "counted" /\ EndReview(a) /\ fixRuns' = fixRuns + 1 /\ stage' = "fix")
         /\ a = "counted" /\ EndReview(a) /\ stage' = "fix" => fixRuns' = fixRuns + 1
         /\ act[a].job # "none" \/ act'[a] # Idle
<1>0. a = "counted" /\ EndReview(a) /\ stage' = "fix" => fixRuns' = fixRuns + 1
  BY DEF EndReview, GoOn
<1> SUFFICES /\ UNCHANGED <<fixes, repeated>> \/ CommitFix(a)
                  \/ CommitUnanswered(a) \/ CommitAgain(a)
             /\ fixRuns' = fixRuns
                  \/ (a = "counted" /\ EndReview(a) /\ fixRuns' = fixRuns + 1 /\ stage' = "fix")
             /\ act[a].job # "none" \/ act'[a] # Idle
  BY <1>0
<1> USE DEF history, At, Typed, ActOK, Slots
<1>1. CASE Review(a) \/ PostInlineComment(a) \/ PostSummary(a) \/ ReadModerateNotes(a)
           \/ EndFixBacklog(a) \/ ReadBlockingNotes(a) \/ SkipComment(a)
  BY <1>1 DEF Review, PostInlineComment, PostSummary, ReadModerateNotes, EndFixBacklog,
     ReadBlockingNotes, SkipComment
<1>2. CASE ReadTitles(a) \/ FileIssue(a) \/ NoFix(a)
  <2>1. UNCHANGED <<fixes, repeated, fixRuns>>
    BY <1>2 DEF ReadTitles, FileIssue, NoFix
  <2>2. act'[a].place # "none"
    <3>1. CASE ReadTitles(a)
      BY <3>1 DEF ReadTitles
    <3>2. CASE FileIssue(a)
      BY <3>2 DEF FileIssue
    <3>3. CASE NoFix(a)
      BY <3>3 DEF NoFix, Released
    <3> QED
      BY <1>2, <3>1, <3>2, <3>3
  <2> QED
    BY <2>1, <2>2, IdleOK
<1>3. CASE EndReview(a)
  BY <1>3 DEF EndReview, GoOn
<1>4. CASE ReadFile(a) \/ CommitFix(a) \/ NoBlockingNote(a) \/ EndFix(a)
  BY <1>4 DEF ReadFile, CommitFix, NoBlockingNote, EndFix
<1>5. CASE ReadAnalysis(a) \/ EndStatic(a) \/ ReadBlockingIssues(a) \/ CommitStaticFix(a)
           \/ EndCorrect(a) \/ Verify(a) \/ Merge(a)
  BY <1>5 DEF ReadAnalysis, EndStatic, ReadBlockingIssues, CommitStaticFix, EndCorrect,
     Verify, Merge
<1>6. CASE CallFails(a)
  BY <1>6 DEF CallFails, Uncaught
<1>7. CASE CommitUnanswered(a) \/ CommitAgain(a)
  <2>1. fixRuns' = fixRuns
    BY <1>7 DEF CommitUnanswered, CommitAgain
  <2>2. act[a].job # "none"
    BY <1>7, Resent
  <2> QED
    BY <1>7, <2>1, <2>2
<1> QED
  BY <1>1, <1>2, <1>3, <1>4, <1>5, <1>6, <1>7 DEF Step

\* A step of an agent that is not review-fix.
LEMMA CommitsStepOther ==
  ASSUME Typed, Typed', CommitsOK, NEW a \in Slots, Step(a) \/ CallFails(a), act[a].job # "fix"
  PROVE  CommitsOK'
<1>0. [Next]_vars
  BY DEF Next
<1>1. /\ \A b \in Slots \ {a} : act'[b] = act[b]
      /\ act'[a].job # "fix"
  BY JobStep, IdleOK DEF Typed
<1>2. UNCHANGED <<fixes, repeated>>
  <2>1. fixes \in [Blocking -> Nat] /\ repeated \in [Blocking -> Nat]
    BY DEF Typed, StateOK, HistoryType
  <2>2. OneMore(fixes, a) = fixes /\ OneMore(repeated, a) = repeated
    BY <2>1 DEF OneMore
  <2> QED
    BY <2>2, RunsStepOf DEF CommitFix, CommitUnanswered, CommitAgain, At
<1>3. \A b \in Slots : /\ Whole(act'[b]) = Whole(act[b])
                       /\ \A c \in Blocking : Part(act'[b], c) = Part(act[b], c)
  BY <1>1 DEF Whole, Part
<1>4. fixRuns \in Nat /\ fixRuns' \in {fixRuns, fixRuns + 1}
  BY RunsStepOf DEF Typed, StateOK, HistoryType
<1>5. Owed' = 1 => Owed = 1 \/ fixRuns' = fixRuns + 1
  <2> SUFFICES ASSUME stage' = "fix", mode' = "run", act'["counted"] = Idle, fixRuns' # fixRuns + 1
               PROVE  Owed = 1
    BY DEF Owed
  <2>1. CASE a = "late"
    BY <1>1, <2>1, FlowStep DEF Owed, Typed, Slots
  <2>2. CASE a = "counted"
    <3>2. stage = "fix"
      BY <2>2, StageStepOf, RunsStepOf
    <3>3. act[a].job = "none" /\ act'[a] = Idle
      BY <2>2, <3>2 DEF Typed, TriesOK
    <3> QED
      BY <3>3, RunsStepOf
  <2> QED
    BY <2>1, <2>2 DEF Slots
<1>6. "counted" \in Slots /\ "late" \in Slots
  BY DEF Slots
<1>7. Owed \in {0, 1} /\ Owed' \in {0, 1}
  BY <1>6, CountsTyped, CountsTypedNext
<1>8. Whole(act["counted"]) \in {0, 1} /\ Whole(act["late"]) \in {0, 1}
  BY <1>6, CountsTyped
<1>9. /\ Unread = Whole(act["counted"]) + Whole(act["late"]) + Owed
      /\ Unread' = Whole(act["counted"]) + Whole(act["late"]) + Owed'
  BY <1>3, <1>6 DEF Unread
<1>10. Unread' <= fixRuns' /\ fixRuns - Unread <= fixRuns' - Unread'
  BY <1>4, <1>5, <1>7, <1>8, <1>9 DEF CommitsOK
<1>11. \A c \in Blocking :
         Sent(fixes', repeated', c) + Part(act'["counted"], c) + Part(act'["late"], c)
           <= Sent(fixes, repeated, c) + Part(act["counted"], c) + Part(act["late"], c)
  <2> TAKE c \in Blocking
  <2>1. /\ Sent(fixes, repeated, c) \in Int /\ Part(act["counted"], c) \in Nat
        /\ Part(act["late"], c) \in Nat
    BY <1>6, CountsTyped, SentTyped
  <2> QED
    BY <1>2, <1>3, <1>6, <2>1
<1> QED
  BY <1>0, <1>10, <1>11, CommitsKept

\* Another attempt of an agent counts as it did.
LEMMA OthersCount ==
  ASSUME Typed, Typed', CommitsOK, NEW a \in Slots, Step(a) \/ CallFails(a), fixRuns' = fixRuns,
         Owed' = Owed, Whole(act'[a]) <= Whole(act[a]),
         \A c \in Blocking :
           Sent(fixes', repeated', c) + Part(act'[a], c)
             <= Sent(fixes, repeated, c) + Part(act[a], c)
  PROVE  CommitsOK'
<1>0. [Next]_vars
  BY DEF Next
<1>1. "counted" \in Slots /\ "late" \in Slots
  BY DEF Slots
<1>2. PICK b \in Slots : a # b
  BY DEF Slots
<1>3. act'[b] = act[b]
  BY <1>2, JobStep DEF Typed
<1>4. /\ Unread = Whole(act[a]) + Whole(act[b]) + Owed
      /\ Unread' = Whole(act'[a]) + Whole(act[b]) + Owed
  <2>1. /\ Whole(act[a]) \in {0, 1} /\ Whole(act[b]) \in {0, 1} /\ Owed \in {0, 1}
        /\ Whole(act'[a]) \in {0, 1}
    BY CountsTyped, CountsTypedNext
  <2>2. (a = "counted" /\ b = "late") \/ (a = "late" /\ b = "counted")
    BY <1>2 DEF Slots
  <2> QED
    BY <1>3, <2>1, <2>2 DEF Unread
<1>5. fixRuns \in Nat /\ Whole(act[a]) \in {0, 1} /\ Whole(act'[a]) \in {0, 1}
      /\ Whole(act[b]) \in {0, 1} /\ Owed \in {0, 1}
  BY CountsTyped, CountsTypedNext DEF Typed, StateOK, HistoryType
<1>6. Unread' <= fixRuns' /\ fixRuns - Unread <= fixRuns' - Unread'
  <2>1. Unread <= fixRuns
    BY DEF CommitsOK
  <2> QED
    BY <1>4, <1>5, <2>1
<1>7. \A c \in Blocking :
        Sent(fixes', repeated', c) + Part(act'["counted"], c) + Part(act'["late"], c)
          <= Sent(fixes, repeated, c) + Part(act["counted"], c) + Part(act["late"], c)
  <2> TAKE c \in Blocking
  <2>1. /\ Part(act[a], c) \in Nat /\ Part(act[b], c) \in Nat /\ Part(act'[a], c) \in Nat
        /\ Sent(fixes, repeated, c) \in Int /\ Sent(fixes', repeated', c) \in Int
    BY CountsTyped, CountsTypedNext, SentTyped
  <2>2. Sent(fixes', repeated', c) + Part(act'[a], c)
          <= Sent(fixes, repeated, c) + Part(act[a], c)
    OBVIOUS
  <2>3. CASE a = "counted"
    <3>1. b = "late"
      BY <1>2, <2>3 DEF Slots
    <3> QED
      BY <1>3, <2>1, <2>2, <2>3, <3>1
  <2>4. CASE a = "late"
    <3>1. b = "counted"
      BY <1>2, <2>4 DEF Slots
    <3> QED
      BY <1>3, <2>1, <2>2, <2>4, <3>1
  <2> QED
    BY <2>3, <2>4 DEF Slots
<1> QED
  BY <1>0, <1>6, <1>7, CommitsKept

\* An attempt of review-fix never leads to another: it is not tried again.
LEMMA FixNotOwed ==
  ASSUME Typed, HandsOK, NEW a \in Slots, act[a].job = "fix", Step(a) \/ CallFails(a)
  PROVE  Owed' = Owed /\ fixRuns' = fixRuns
<1>1. fixRuns' = fixRuns
  BY RunsStepOf DEF EndReview, At
<1>2. CASE a = "late"
  BY <1>1, <1>2, JobStep, FlowStep DEF Owed, Typed, Slots
<1>3. CASE a = "counted"
  <2>1. Owed = 0 /\ stage = "fix"
    BY <1>3, IdleOK DEF Owed, Typed, TriesOK
  <2>2. CASE act'[a] # Idle
    BY <1>1, <1>3, <2>1, <2>2 DEF Owed
  <2>3. CASE act'[a] = Idle
    <3>1. act[a].place # "none" /\ act'[a].place = "none"
      BY <2>3, JobStep, IdleOK DEF Typed
    <3>2. NoBlockingNote(a) \/ EndFix(a) \/ CallFails(a)
      <4>1. ~(ReadTitles(a) \/ FileIssue(a) \/ ReadModerateNotes(a) \/ EndFixBacklog(a)
              \/ ReadBlockingNotes(a) \/ SkipComment(a) \/ ReadFile(a))
        <5>1. ~ReadTitles(a) /\ ~FileIssue(a)
          BY <3>1 DEF ReadTitles, FileIssue, Typed, ActOK, Attempt
        <5>2. ~ReadModerateNotes(a)
          BY <3>1 DEF ReadModerateNotes, Typed, ActOK, Attempt
        <5>3. ~EndFixBacklog(a) /\ ~ReadBlockingNotes(a)
          BY <3>1 DEF EndFixBacklog, ReadBlockingNotes, Typed, ActOK, Attempt
        <5>5. ~SkipComment(a)
          <6> SUFFICES ASSUME SkipComment(a) PROVE act'[a].place = "fix"
            BY <3>1
          <6>1. PICK c : act' = [act EXCEPT ![a].todo[c] = @ - 1, ![a].skipped = TRUE]
            BY DEF SkipComment
          <6> QED
            BY <6>1 DEF SkipComment, At, Typed, ActOK, Attempt
        <5>4. ~ReadFile(a)
          BY <3>1, ReadEffect DEF Typed
        <5> QED
          BY <5>1, <5>2, <5>3, <5>4, <5>5
      <4>2. ~(CommitFix(a) \/ NoFix(a))
        BY <3>1 DEF CommitFix, NoFix, Released, Typed, ActOK, Attempt
      <4>3. ~(CommitUnanswered(a) \/ CommitAgain(a))
        BY <3>1, Resent
      <4> QED
        BY <4>1, <4>2, <4>3, FixCases
    <3>3. ~(stage' = "fix" /\ mode' = "run")
      <4>1. CASE CallFails(a)
        BY <1>3, <2>1, <4>1 DEF CallFails, Lost, Again, Retried
      <4>2. CASE NoBlockingNote(a) \/ EndFix(a)
        <5>1. PICK s : AfterFix(a, s)
          BY <4>2 DEF NoBlockingNote, EndFix
        <5> QED
          BY <1>3, <5>1, AfterFixCases
      <4> QED
        BY <3>2, <4>1, <4>2
    <3> QED
      BY <1>1, <2>1, <3>3 DEF Owed
  <2> QED
    BY <2>2, <2>3
<1> QED
  BY <1>1, <1>2, <1>3 DEF Slots

\* A step of review-fix: what it commits it owed, and it owes what it has read.
LEMMA CommitsStepFix ==
  ASSUME Typed, Typed', HandsOK, CommitsOK, NEW a \in Slots, act[a].job = "fix",
         Step(a) \/ CallFails(a)
  PROVE  CommitsOK'
<1> DEFINE r == act[a]
<1>0. /\ r \in Attempt /\ act \in [Slots -> Attempt] /\ r.todo \in [Work -> Nat]
      /\ Blocking \subseteq Work /\ fixes \in [Blocking -> Nat] /\ notes \in [Comments -> Nat]
      /\ r.job = "fix"
  BY DEF Typed, ActOK, Attempt, StateOK, SharedType, HistoryType, Work, Comments
<1>1. Owed' = Owed /\ fixRuns' = fixRuns
  BY FixNotOwed
<1>2. UNCHANGED <<fixes, repeated>> \/ CommitFix(a) \/ CommitUnanswered(a) \/ CommitAgain(a)
  BY RunsStepOf
<1>3. ASSUME Whole(r') <= Whole(r), UNCHANGED <<fixes, repeated>>,
             \A c \in Blocking : Part(r', c) <= Part(r, c)
      PROVE  CommitsOK'
  <2>1. \A c \in Blocking : Part(r, c) \in Nat /\ Part(r', c) \in Nat
    BY CountsTyped, CountsTypedNext
  <2>2. \A c \in Blocking : Sent(fixes', repeated', c) + Part(r', c)
                              <= Sent(fixes, repeated, c) + Part(r, c)
    BY <1>0, <1>3, <2>1, SentTyped
  <2> QED
    BY <1>1, <1>3, <2>2, OthersCount
<1>4. CASE ReadTitles(a) \/ FileIssue(a) \/ ReadModerateNotes(a) \/ EndFixBacklog(a)
  <2>1. /\ r.place \in {"titles", "backlog", "read"} /\ UNCHANGED <<fixes, repeated>>
        /\ r'.place \in {"titles", "backlog", "blocking"}
    <3>1. CASE ReadTitles(a)
      BY <1>0, <3>1 DEF ReadTitles, history
    <3>4. CASE FileIssue(a)
      BY <1>0, <3>4 DEF FileIssue
    <3>2. CASE ReadModerateNotes(a)
      BY <1>0, <3>2 DEF ReadModerateNotes, At, history
    <3>3. CASE EndFixBacklog(a)
      BY <1>0, <3>3 DEF EndFixBacklog, At, history
    <3> QED
      BY <1>4, <3>1, <3>2, <3>3, <3>4
  <2>2. Whole(r) = 1 /\ Whole(r') \in {0, 1} /\ \A c \in Blocking : Part(r', c) = 0 /\ Part(r, c) = 0
    BY <2>1 DEF Whole, Part
  <2> QED
    BY <1>3, <2>1, <2>2
<1>5. CASE r' = Idle
  <2>1. Whole(r') = 0 /\ \A c \in Blocking : Part(r', c) = 0
    BY <1>5, IdleOK DEF Whole, Part
  <2>2. \A c \in Blocking : Part(r, c) \in Nat
    BY CountsTyped
  <2>3. UNCHANGED <<fixes, repeated>>
    <3>1. CommitFix(a) => r'.place = "fix"
      BY CommitEffect DEF Typed
    <3>2. CommitUnanswered(a) \/ CommitAgain(a) => r'.place \in {"fix", "resend"}
      BY Resent
    <3> QED
      BY <1>2, <1>5, <3>1, <3>2, IdleOK
  <2> QED
    BY <1>3, <2>1, <2>2, <2>3, CountsTyped
<1>6. CASE SkipComment(a)
  <2>1. PICK d \in Blocking \cap FileLevel :
             Has(a, d) /\ act' = [act EXCEPT ![a].todo[d] = @ - 1, ![a].skipped = TRUE]
    BY <1>6 DEF SkipComment
  <2>2. /\ r'.place = "fix" /\ r.place = "fix" /\ r'.job = "fix" /\ r'.item = r.item
        /\ r'.todo = [r.todo EXCEPT ![d] = r.todo[d] - 1] /\ r.todo[d] > 0
        /\ UNCHANGED <<fixes, repeated>>
    BY <1>0, <1>6, <2>1 DEF SkipComment, At, Has, history, Attempt
  <2>3. \A c \in Blocking : r'.todo[c] \in Nat /\ r'.todo[c] <= r.todo[c]
    BY <1>0, <2>2
  <2>4. \A c \in Blocking : Part(r', c) <= Part(r, c)
    BY <1>0, <2>2, <2>3 DEF Part
  <2>5. Whole(r') = 0 /\ Whole(r) = 0
    BY <2>2 DEF Whole
  <2> QED
    BY <1>3, <2>2, <2>4, <2>5
<1>7. CASE ReadFile(a)
  <2>1. PICK i \in Blocking \cup Files :
             /\ r.todo[i] > 0 /\ r'.item = {i} /\ r'.place = "rewrite" /\ r'.job = r.job
             /\ r'.todo = [r.todo EXCEPT ![i] = r.todo[i] - 1]
             /\ r.place = "fix" /\ r.item = {}
    <3>1. ActOK
      BY DEF Typed
    <3> QED
      BY <1>7, <3>1, ReadEffect
  <2>2. UNCHANGED <<fixes, repeated>>
    BY <1>7 DEF ReadFile, history
  <2>3. \A c \in Blocking : Part(r', c) = Part(r, c)
    <3> TAKE c \in Blocking
    <3>1. r.todo[c] \in Nat /\ i \in Work
      BY <1>0 DEF Work, Comments
    <3>2. CASE c = i
      <4>1. r'.todo[c] = r.todo[c] - 1
        BY <1>0, <2>1, <3>1, <3>2
      <4>2. c \in r'.item /\ c \notin r.item
        BY <2>1, <3>2
      <4> QED
        BY <1>0, <2>1, <3>1, <4>1, <4>2 DEF Part
    <3>3. CASE c # i
      <4>1. r'.todo[c] = r.todo[c]
        BY <1>0, <2>1, <3>1, <3>3
      <4>2. c \notin r'.item /\ c \notin r.item
        BY <2>1, <3>3
      <4> QED
        BY <1>0, <2>1, <3>1, <4>1, <4>2 DEF Part
    <3> QED
      BY <3>2, <3>3
  <2>4. Whole(r') = 0 /\ Whole(r) = 0
    BY <2>1 DEF Whole
  <2> QED
    BY <1>3, <2>2, <2>3, <2>4, CountsTyped
<1>8. CASE CommitFix(a)
  <2>1. /\ r'.item = {} /\ r'.job = "fix" /\ r'.place = "fix" /\ r'.todo = r.todo
        /\ r.place = "rewrite"
    <3>1. ActOK
      BY DEF Typed
    <3> QED
      BY <1>0, <1>8, <3>1, CommitEffect, Zenon DEF CommitFix, At
  <2>2. \A c \in Blocking : /\ fixes'[c] = fixes[c] + (IF c \in r.item THEN 1 ELSE 0)
                             /\ repeated'[c] = repeated[c]
    BY <1>0, <1>8 DEF CommitFix, OneMore
  <2>3. \A c \in Blocking : Sent(fixes', repeated', c) + Part(r', c)
                              <= Sent(fixes, repeated, c) + Part(r, c)
    <3> TAKE c \in Blocking
    <3>1. fixes[c] \in Nat /\ repeated[c] \in Nat /\ r.todo[c] \in Nat
      BY <1>0, SentTyped
    <3>2. Part(r', c) = r.todo[c]
      BY <2>1, <3>1 DEF Part
    <3>3. Part(r, c) = r.todo[c] + (IF c \in r.item THEN 1 ELSE 0)
      BY <1>0, <2>1 DEF Part
    <3> QED
      BY <2>2, <3>1, <3>2, <3>3 DEF Sent
  <2>4. Whole(r') = 0 /\ Whole(r) = 0
    BY <2>1 DEF Whole
  <2> QED
    BY <1>1, <2>3, <2>4, OthersCount
<1>9. CASE NoFix(a)
  <2>1. /\ r'.item = {} /\ r'.job = "fix" /\ r'.place = "fix" /\ r'.todo = r.todo
        /\ r.place = "rewrite" /\ UNCHANGED <<fixes, repeated>>
    BY <1>0, <1>9 DEF NoFix, At, Released, history, Attempt
  <2>2. \A c \in Blocking : Part(r', c) <= Part(r, c)
    BY <1>0, <2>1 DEF Part
  <2>3. Whole(r') = 0 /\ Whole(r) = 0
    BY <2>1 DEF Whole
  <2> QED
    BY <1>3, <2>1, <2>2, <2>3
<1>10. CASE ReadBlockingNotes(a)
  <2>1. /\ r.place = "blocking" /\ r'.place = "fix" /\ r'.job = "fix"
        /\ r'.todo = NotesOf(Blocking) /\ r'.item = r.item /\ notes' = notes
        /\ UNCHANGED <<fixes, repeated>>
    BY <1>0, <1>10 DEF ReadBlockingNotes, At, shared, history, Attempt
  <2>2. r.item = {}
    BY <2>1 DEF HandsOK
  <2>3. Whole(r) = 1 /\ Whole(r') = 0
    BY <1>0, <2>1 DEF Whole
  <2>4. \A c \in Blocking : Part(r, c) = 0 /\ Part(r', c) = notes[c]
    BY <1>0, <2>1, <2>2 DEF Part, NotesOf, Comments
  <2>5. PICK b \in Slots : a # b
    BY DEF Slots
  <2>6. act'[b] = act[b] /\ ((a = "counted" /\ b = "late") \/ (a = "late" /\ b = "counted"))
    BY <2>5, JobStep DEF Typed, Slots
  <2>7. /\ fixRuns \in Nat /\ Whole(act[b]) \in {0, 1} /\ Owed \in {0, 1}
    BY CountsTyped DEF Typed, StateOK, HistoryType
  <2>8. /\ Unread = 1 + Whole(act[b]) + Owed /\ Unread' = Whole(act[b]) + Owed
    BY <1>1, <2>3, <2>6, <2>7 DEF Unread
  <2>9. Unread' = Unread - 1 /\ Unread \in Nat /\ Unread <= fixRuns
    BY <2>7, <2>8 DEF CommitsOK
  <2>10. ASSUME NEW c \in Blocking PROVE Covered(c)'
    <3> DEFINE n == notes[c]
               s == fixRuns - Unread
               p == Part(act[b], c)
               z == Sent(fixes, repeated, c)
    <3>1. n \in Nat /\ s \in Nat /\ p \in Nat /\ z \in Int
      BY <1>0, <2>7, <2>9, CountsTyped, SentTyped DEF Comments
    <3>2. z + p <= n * s
      <4>1. z + Part(act["counted"], c) + Part(act["late"], c) <= n * s
        BY DEF CommitsOK, Covered
      <4> QED
        BY <2>4, <2>6, <3>1, <4>1
    <3>3. fixRuns' - Unread' = s + 1
      BY <1>1, <2>7, <2>9
    <3>4. Sent(fixes', repeated', c) + Part(act'["counted"], c) + Part(act'["late"], c) = z + p + n
      BY <2>1, <2>4, <2>6, <3>1
    <3> HIDE DEF n, s, p, z
    <3>5. n * (s + 1) = n * s + n /\ n * s \in Nat
      BY <3>1, ProductTyped
    <3>6. z + p + n <= n * (s + 1)
      BY <3>1, <3>2, <3>5
    <3>7. notes'[c] = n
      BY <2>1 DEF n
    <3> QED
      BY <3>3, <3>4, <3>6, <3>7 DEF Covered
  <2> QED
    BY <1>1, <2>7, <2>9, <2>10 DEF CommitsOK
<1>11. CASE CommitUnanswered(a) \/ CommitAgain(a)
  <2>1. /\ r.place \in {"rewrite", "resend"} /\ r'.place \in {"fix", "resend"} /\ r'.job = "fix"
        /\ r'.todo = r.todo /\ r'.item \in {{}, r.item}
    BY <1>0, <1>11, Resent
  <2>2. Whole(r') = 0 /\ Whole(r) = 0
    BY <2>1 DEF Whole
  <2>3. \A c \in Blocking : Sent(fixes', repeated', c) + Part(r', c)
                              <= Sent(fixes, repeated, c) + Part(r, c)
    <3> TAKE c \in Blocking
    <3> DEFINE one == IF c \in r.item THEN 1 ELSE 0
    <3>1. fixes[c] \in Nat /\ repeated[c] \in Nat /\ r.todo[c] \in Nat /\ one \in {0, 1}
      BY <1>0, SentTyped
    <3>2. Part(r', c) = r.todo[c]
      <4>1. r'.place = "fix" => r'.item = {}
        BY <2>1, <1>11 DEF CommitUnanswered, CommitAgain, Released, Typed, ActOK, Attempt
      <4> QED
        BY <2>1, <3>1, <4>1 DEF Part
    <3>3. CASE CommitUnanswered(a)
      <4>1. fixes'[c] = fixes[c] + one /\ repeated'[c] = repeated[c]
        BY <1>0, <3>3 DEF CommitUnanswered, OneMore
      <4>2. Part(r, c) = r.todo[c] + one
        BY <1>0, <3>3 DEF Part, CommitUnanswered
      <4> HIDE DEF one
      <4> QED
        BY <3>1, <3>2, <4>1, <4>2 DEF Sent
    <3>4. CASE CommitAgain(a)
      <4>1. fixes'[c] = fixes[c] + one /\ repeated'[c] = repeated[c] + one
        BY <1>0, <3>4 DEF CommitAgain, OneMore
      <4>2. Part(r, c) = r.todo[c]
        BY <1>0, <3>1, <3>4 DEF Part, CommitAgain
      <4> HIDE DEF one
      <4> QED
        BY <3>1, <3>2, <4>1, <4>2 DEF Sent
    <3> QED
      BY <1>11, <3>3, <3>4
  <2> QED
    BY <1>1, <2>2, <2>3, OthersCount
<1> QED
  BY <1>0, <1>4, <1>5, <1>6, <1>7, <1>8, <1>9, <1>10, <1>11, FixCases
     DEF NoBlockingNote, EndFix, CallFails, Finished

\* Every step keeps the commits covered.
LEMMA CommitsStep ==
  ASSUME Typed, Typed', HandsOK, CommitsOK, [Next]_vars
  PROVE  CommitsOK'
<1>0. /\ "counted" \in Slots /\ "late" \in Slots /\ act \in [Slots -> Attempt]
      /\ fixRuns \in Nat /\ Unread <= fixRuns
      /\ Owed \in {0, 1} /\ Whole(act["counted"]) \in {0, 1} /\ Whole(act["late"]) \in {0, 1}
  BY CountsTyped DEF Slots, Typed, ActOK, StateOK, HistoryType, CommitsOK
<1>1. ASSUME UNCHANGED <<fixes, repeated>>, Unread' <= Unread + (fixRuns' - fixRuns), fixRuns' \in {fixRuns, fixRuns + 1},
             Unread' \in Nat,
             \A c \in Blocking : Part(act'["counted"], c) + Part(act'["late"], c)
                                   = Part(act["counted"], c) + Part(act["late"], c)
      PROVE  CommitsOK'
  <2>1. Unread' <= fixRuns' /\ fixRuns - Unread <= fixRuns' - Unread'
    <3> DEFINE u == Unread
               v == Unread'
               f == fixRuns
               g == fixRuns'
    <3>1. u \in Nat /\ v \in Nat /\ f \in Nat /\ u <= f /\ v <= u + (g - f) /\ g \in {f, f + 1}
      BY <1>0, <1>1 DEF Unread
    <3> HIDE DEF u, v, f, g
    <3>2. v <= g /\ f - u <= g - v
      BY <3>1
    <3> QED
      BY <3>2 DEF u, v, f, g
  <2>2. \A c \in Blocking :
          Sent(fixes', repeated', c) + Part(act'["counted"], c) + Part(act'["late"], c)
            <= Sent(fixes, repeated, c) + Part(act["counted"], c) + Part(act["late"], c)
    <3> TAKE c \in Blocking
    <3>1. /\ Sent(fixes, repeated, c) \in Int /\ Part(act["counted"], c) \in Nat /\ Part(act["late"], c) \in Nat
          /\ Part(act'["counted"], c) \in Nat /\ Part(act'["late"], c) \in Nat
      BY <1>0, SentTyped, CountsTyped, CountsTypedNext
    <3> QED
      BY <1>1, <3>1
  <2> QED
    BY <2>1, <2>2, CommitsKept
<1>2. CASE UNCHANGED <<act, fixes, repeated, fixRuns, stage, mode>>
  <2>1. Unread' = Unread /\ Unread \in Nat
    BY <1>0, <1>2 DEF Unread, Whole, Owed
  <2> QED
    BY <1>0, <1>1, <1>2, <2>1
<1>3. CASE Start
  <2>1. /\ act'["late"] = act["late"] /\ UNCHANGED <<fixes, repeated, fixRuns, stage, mode>>
        /\ act'["counted"].job = stage /\ act'["counted"].place = "read"
        /\ act["counted"] = Idle /\ mode = "run"
    BY <1>0, <1>3 DEF Start, Idle, history
  <2>2. /\ Whole(act'["counted"]) = Owed /\ Owed' = 0 /\ Whole(act["counted"]) = 0
        /\ \A c \in Blocking : Part(act'["counted"], c) = 0 /\ Part(act["counted"], c) = 0
    BY <2>1, IdleOK DEF Owed, Whole, Part
  <2>3. Unread' = Unread /\ Unread \in Nat
    BY <1>0, <2>1, <2>2 DEF Unread
  <2> QED
    BY <1>0, <1>1, <2>1, <2>2, <2>3
<1>4. CASE OutOfTime
  <2>1. /\ act'["late"] = act["counted"] /\ act'["counted"] = Idle /\ act["late"] = Idle
        /\ UNCHANGED <<fixes, repeated, fixRuns, stage>> /\ act["counted"] # Idle
        /\ stage = "fix" => mode' = "suspended"
    BY <1>0, <1>4, IdleOK DEF OutOfTime, Lost, Again, Retried
  <2>2. /\ Owed = 0 /\ Owed' = 0 /\ Whole(act'["counted"]) = 0 /\ Whole(act["late"]) = 0
        /\ \A c \in Blocking : Part(act'["counted"], c) = 0 /\ Part(act["late"], c) = 0
    BY <2>1, IdleOK DEF Owed, Whole, Part
  <2>3. Unread' = Unread /\ Unread \in Nat
    BY <1>0, <2>1, <2>2 DEF Unread
  <2>4. \A c \in Blocking : Part(act["counted"], c) \in Nat
    BY <1>0, CountsTyped
  <2> QED
    BY <1>0, <1>1, <2>1, <2>2, <2>3, <2>4
<1>5. CASE Resume
  <2>1. /\ act' = act /\ UNCHANGED <<fixes, repeated>> /\ act["counted"] = Idle /\ mode # "run"
        /\ fixRuns' = IF stage' = "fix" THEN fixRuns + 1 ELSE fixRuns
    BY <1>5 DEF Resume, Typed, TriesOK
  <2>2. Owed = 0 /\ Owed' \in {0, 1} /\ (Owed' = 1 => fixRuns' = fixRuns + 1)
    BY <2>1 DEF Owed
  <2>3. Unread' = Unread + Owed' /\ Unread \in Nat
    BY <1>0, <2>1, <2>2 DEF Unread
  <2>4. /\ fixRuns' \in {fixRuns, fixRuns + 1} /\ Unread' \in Nat
        /\ Unread' <= Unread + (fixRuns' - fixRuns)
    <3> DEFINE o == Owed'
               u == Unread
               v == Unread'
               f == fixRuns
               g == fixRuns'
    <3>1. /\ o \in {0, 1} /\ u \in Nat /\ v = u + o /\ f \in Nat /\ g \in {f, f + 1}
          /\ o = 1 => g = f + 1
      BY <1>0, <2>1, <2>2, <2>3
    <3> HIDE DEF o, u, v, f, g
    <3>2. v \in Nat /\ v <= u + (g - f) /\ g \in {f, f + 1}
      BY <3>1
    <3> QED
      BY <3>2 DEF u, v, f, g
  <2> QED
    BY <1>1, <2>1, <2>4
<1>6. CASE CiPasses
  <2>1. /\ act' = act /\ UNCHANGED <<fixes, repeated, fixRuns>> /\ stage # "fix" /\ stage' # "fix"
    BY <1>6 DEF CiPasses, history
  <2>2. Unread' = Unread /\ Unread \in Nat
    BY <1>0, <2>1 DEF Unread, Whole, Owed
  <2> QED
    BY <1>0, <1>1, <2>1, <2>2
<1>7. CASE Analyse \/ (\E f \in Files : PersonCommits(f)) \/ (\E c \in Blocking : PersonComments(c))
           \/ UNCHANGED vars
  BY <1>2, <1>7 DEF Analyse, PersonCommits, PersonComments, vars, workflow, history
<1>8. CASE \E a \in Slots : Step(a) \/ CallFails(a)
  BY <1>8, CommitsStepFix, CommitsStepOther
<1> QED
  BY <1>3, <1>4, <1>5, <1>6, <1>7, <1>8 DEF Next

\* However often review-fix is given up, suspended and resumed, and however
\* many attempts run at once, a blocking comment has no more commits than it
\* has notes for each time review-fix was entered or resumed, those the HTTP
\* client sent again being counted apart.
THEOREM FixesFollowResumes == Spec => []NoRecommitWithoutResume
<1>1. Init => HandsOK /\ CommitsOK
  <2> SUFFICES ASSUME Init PROVE HandsOK /\ CommitsOK
    OBVIOUS
  <2>1. /\ act = [a \in Slots |-> Idle] /\ stage = "review" /\ fixRuns = 0
        /\ fixes = [c \in Blocking |-> 0] /\ repeated = [c \in Blocking |-> 0] /\ notes = [c \in Comments |-> 0]
        /\ "counted" \in Slots /\ "late" \in Slots
    BY DEF Init, Slots
  <2>2. Unread = 0 /\ \A c \in Blocking : Part(act["counted"], c) = 0 /\ Part(act["late"], c) = 0
    BY <2>1, IdleOK DEF Unread, Whole, Owed, Part
  <2>3. CommitsOK
    BY <2>1, <2>2 DEF CommitsOK, Covered, Sent, Comments
  <2> QED
    BY <2>3, Starts
<1>2. Typed /\ Typed' /\ HandsOK /\ CommitsOK /\ [Next]_vars => HandsOK' /\ CommitsOK'
  BY HandsStep, CommitsStep DEF Typed
<1>3. Typed /\ CommitsOK => NoRecommitWithoutResume
  <2> SUFFICES ASSUME Typed, CommitsOK, NEW c \in Blocking
               PROVE  fixes[c] <= notes[c] * fixRuns + repeated[c]
    BY DEF NoRecommitWithoutResume
  <2> DEFINE n == notes[c]
             u == Unread
             f == fixRuns
             p == Part(act["counted"], c) + Part(act["late"], c)
  <2>1. /\ n \in Nat /\ u \in Nat /\ f \in Nat /\ p \in Nat /\ u <= f
        /\ fixes[c] \in Nat /\ repeated[c] \in Nat
    BY CountsTyped DEF Typed, StateOK, SharedType, HistoryType, Slots, Unread, CommitsOK, Comments
  <2>2. (fixes[c] - repeated[c]) + Part(act["counted"], c) + Part(act["late"], c) <= n * (f - u)
    BY DEF CommitsOK, Covered, Sent
  <2>3. Part(act["counted"], c) \in Nat /\ Part(act["late"], c) \in Nat
    BY CountsTyped DEF Slots
  <2>4. (fixes[c] - repeated[c]) + p <= n * (f - u)
    BY <2>1, <2>2, <2>3
  <2> HIDE DEF n, u, f, p
  <2>5. f - u \in Nat /\ f - u <= f
    BY <2>1
  <2>6. n * (f - u) <= n * f /\ n * (f - u) \in Nat /\ n * f \in Nat
    BY <2>1, <2>5, ProductGrows, ProductTyped
  <2>7. fixes[c] <= n * f + repeated[c]
    BY <2>1, <2>4, <2>6
  <2> QED
    BY <2>7 DEF n, f
<1> QED
  BY <1>1, <1>2, <1>3, TypeInvariance, PTL DEF Spec

----------------------------------------------------------------------------
(* Moderate comments reach the backlog *)

\* Attempt a, in the backlog loop, comes to i: it is known, or its issue is
\* created, twice, or not at all.
Creation(a, i) ==
  /\ act[a].place = "backlog" /\ act[a].todo[i] > 0
  /\ act'[a] = [act[a] EXCEPT !.todo = [act[a].todo EXCEPT ![i] = act[a].todo[i] - 1]]
  /\ \/ /\ TitleOf[i] \in act[a].titles
        /\ UNCHANGED <<backlog, refused, doubled>>
     \/ /\ TitleOf[i] \notin act[a].titles
        /\ \E copies \in 0..2 :
             /\ doubled' = (doubled \/ copies = 2)
             /\ backlog' = [backlog EXCEPT ![TitleOf[i]] = backlog[TitleOf[i]] + copies]
             /\ refused' = IF copies > 0 THEN refused
                           ELSE [refused EXCEPT ![TitleOf[i]] = refused[TitleOf[i]] + 1]

\* What the creation of a backlog issue changes.
LEMMA FileEffect ==
  ASSUME Typed, NEW a \in Slots, FileIssue(a)
  PROVE  \E i \in Moderate \cup Smells : Creation(a, i)
<1>1. PICK i \in Moderate \cup Smells :
           /\ Has(a, i)
           /\ act' = [act EXCEPT ![a].todo[i] = @ - 1]
           /\ IF Known(a, i)
              THEN UNCHANGED <<backlog, refused, doubled, mishaps>>
              ELSE \E copies \in 0..2 :
                     /\ Post(copies)
                     /\ AddIssues(TitleOf[i], copies)
                     /\ refused' = IF copies > 0 THEN refused
                                   ELSE [refused EXCEPT ![TitleOf[i]] = @ + 1]
  BY DEF FileIssue
<1>2. act[a].place = "backlog" /\ act[a].todo[i] > 0
  BY <1>1 DEF FileIssue, Has
<1>3. act'[a] = [act[a] EXCEPT !.todo = [act[a].todo EXCEPT ![i] = act[a].todo[i] - 1]]
  BY <1>1 DEF Typed, ActOK, Attempt
<1>4. CASE Known(a, i)
  <2>1. TitleOf[i] \in act[a].titles /\ UNCHANGED <<backlog, refused, doubled>>
    BY <1>1, <1>4 DEF Known
  <2> QED
    BY <1>2, <1>3, <2>1, Zenon DEF Creation
<1>5. CASE ~Known(a, i)
  <2>1. PICK copies \in 0..2 :
             /\ Post(copies)
             /\ AddIssues(TitleOf[i], copies)
             /\ refused' = IF copies > 0 THEN refused
                           ELSE [refused EXCEPT ![TitleOf[i]] = @ + 1]
    BY <1>1, <1>5
  <2>2. doubled' = (doubled \/ copies = 2)
    BY <2>1, Zenon DEF Post
  <2>3. /\ TitleOf[i] \notin act[a].titles
        /\ backlog' = [backlog EXCEPT ![TitleOf[i]] = backlog[TitleOf[i]] + copies]
        /\ refused' = IF copies > 0 THEN refused
                      ELSE [refused EXCEPT ![TitleOf[i]] = refused[TitleOf[i]] + 1]
    BY <1>5, <2>1 DEF Known, AddIssues
  <2>4. /\ TitleOf[i] \notin act[a].titles
        /\ \E n \in 0..2 :
             /\ doubled' = (doubled \/ n = 2)
             /\ backlog' = [backlog EXCEPT ![TitleOf[i]] = backlog[TitleOf[i]] + n]
             /\ refused' = IF n > 0 THEN refused
                           ELSE [refused EXCEPT ![TitleOf[i]] = refused[TitleOf[i]] + 1]
    BY <2>2, <2>3, Zenon
  <2> QED
    BY <1>2, <1>3, <2>4, Zenon DEF Creation
<1> QED
  BY <1>4, <1>5

\* The backlog and the refusals only grow, and only by the creation of issues.
LEMMA StoreStepOf ==
  ASSUME Typed, NEW a \in Slots, Step(a) \/ CallFails(a)
  PROVE  /\ \A t \in Titles : backlog'[t] >= backlog[t] /\ refused'[t] >= refused[t]
         /\ UNCHANGED <<backlog, refused>> \/ FileIssue(a)
         /\ ReadTitles(a) \/ act'[a].titles \in {{}, act[a].titles}
<1>0. backlog \in [Titles -> Nat] /\ refused \in [Titles -> Nat]
  BY DEF Typed, StateOK, SharedType, HistoryType
<1>1. CASE FileIssue(a)
  <2>1. PICK i \in Moderate \cup Smells : Creation(a, i)
    BY <1>1, FileEffect
  <2>2. act'[a].titles = act[a].titles
    BY <2>1 DEF Creation, Typed, ActOK, Attempt
  <2>3. \A t \in Titles : backlog'[t] >= backlog[t] /\ refused'[t] >= refused[t]
    BY <1>0, <2>1 DEF Creation
  <2> QED
    BY <1>1, <2>2, <2>3
<1>2. ASSUME UNCHANGED <<backlog, refused>>, ReadTitles(a) \/ act'[a].titles \in {{}, act[a].titles}
      PROVE  /\ \A t \in Titles : backlog'[t] >= backlog[t] /\ refused'[t] >= refused[t]
             /\ UNCHANGED <<backlog, refused>> \/ FileIssue(a)
             /\ ReadTitles(a) \/ act'[a].titles \in {{}, act[a].titles}
  BY <1>0, <1>2
<1>3. Idle.titles = {}
  BY DEF Idle
<1> USE DEF shared, history, Typed, ActOK, Attempt
<1>4. CASE Review(a) \/ PostSummary(a) \/ ReadModerateNotes(a) \/ EndFixBacklog(a)
           \/ ReadBlockingNotes(a)
  <2>1. act'[a].titles = act[a].titles
    <3>1. CASE Review(a)
      BY <3>1 DEF Review
    <3>2. CASE PostSummary(a) \/ EndFixBacklog(a)
      BY <3>2 DEF PostSummary, EndFixBacklog
    <3>3. CASE ReadModerateNotes(a) \/ ReadBlockingNotes(a)
      BY <3>3 DEF ReadModerateNotes, ReadBlockingNotes
    <3> QED
      BY <1>4, <3>1, <3>2, <3>3
  <2> QED
    BY <1>2, <1>4, <2>1 DEF Review, PostSummary, ReadModerateNotes, EndFixBacklog,
       ReadBlockingNotes
<1>10. CASE ReadTitles(a)
  BY <1>2, <1>10 DEF ReadTitles
<1>5. CASE PostInlineComment(a) \/ SkipComment(a) \/ ReadFile(a)
  <2>1. act'[a].titles = act[a].titles
    <3>1. CASE PostInlineComment(a)
      BY <3>1 DEF PostInlineComment
    <3>2. CASE SkipComment(a)
      BY <3>2 DEF SkipComment
    <3>3. CASE ReadFile(a)
      BY <3>3 DEF ReadFile
    <3> QED
      BY <1>5, <3>1, <3>2, <3>3
  <2> QED
    BY <1>2, <1>5, <2>1 DEF PostInlineComment, SkipComment, ReadFile
<1>6. CASE CommitFix(a) \/ NoFix(a) \/ CommitStaticFix(a)
  <2>1. act'[a].titles = act[a].titles
    BY <1>6 DEF CommitFix, NoFix, CommitStaticFix, Released
  <2> QED
    BY <1>2, <1>6, <2>1 DEF CommitFix, NoFix, CommitStaticFix
<1>7. CASE EndReview(a) \/ NoBlockingNote(a) \/ EndFix(a) \/ EndStatic(a) \/ EndCorrect(a)
           \/ Merge(a) \/ CallFails(a)
  BY <1>2, <1>3, <1>7 DEF EndReview, NoBlockingNote, EndFix, EndStatic, EndCorrect, Merge,
     CallFails, Finished
<1>8. CASE ReadAnalysis(a) \/ ReadBlockingIssues(a)
  <2>1. act'[a].titles = act[a].titles
    <3>1. CASE ReadAnalysis(a)
      BY <3>1 DEF ReadAnalysis
    <3>2. CASE ReadBlockingIssues(a)
      BY <3>2 DEF ReadBlockingIssues
    <3> QED
      BY <1>8, <3>1, <3>2
  <2> QED
    BY <1>2, <1>8, <2>1 DEF ReadAnalysis, ReadBlockingIssues
<1>11. CASE CommitUnanswered(a) \/ CommitAgain(a)
  <2>1. act'[a].titles = act[a].titles
    BY <1>11, Resent
  <2> QED
    BY <1>2, <1>11, <2>1 DEF CommitUnanswered, CommitAgain
<1>9. CASE Verify(a)
  <2>1. Finished(a) \/ act' = [act EXCEPT ![a].place = "merge"]
    BY <1>9 DEF Verify
  <2>2. act'[a].titles \in {{}, act[a].titles}
    BY <1>3, <2>1 DEF Finished
  <2> QED
    BY <1>2, <1>9, <2>2 DEF Verify
<1> QED
  BY <1>1, <1>4, <1>5, <1>6, <1>7, <1>8, <1>9, <1>10, <1>11 DEF Step

\* The same of every step.
LEMMA StoreStep ==
  ASSUME Typed, [Next]_vars
  PROVE  \A t \in Titles : backlog'[t] >= backlog[t] /\ refused'[t] >= refused[t]
<1>0. backlog \in [Titles -> Nat] /\ refused \in [Titles -> Nat]
  BY DEF Typed, StateOK, SharedType, HistoryType
<1>1. CASE UNCHANGED <<backlog, refused>>
  BY <1>0, <1>1
<1>2. CASE Start \/ Resume \/ OutOfTime \/ CiPasses \/ Analyse \/ UNCHANGED vars
  BY <1>1, <1>2 DEF Start, Resume, OutOfTime, CiPasses, Analyse, vars, shared, history
<1>3. CASE (\E f \in Files : PersonCommits(f)) \/ (\E c \in Blocking : PersonComments(c))
  BY <1>1, <1>3 DEF PersonCommits, PersonComments, history
<1> QED
  BY <1>2, <1>3, StoreStepOf DEF Next

\* How the attempt that counts changes.
LEMMA CountedStep ==
  ASSUME Typed, [Next]_vars
  PROVE  \/ act'["counted"] = act["counted"]
         \/ act'["counted"] = Idle
         \/ act'["counted"].place = "read" /\ act'["counted"].titles = {}
         \/ Step("counted") \/ CallFails("counted")
<1>1. CASE Start
  BY <1>1 DEF Start, Slots, Typed, ActOK, Idle
<1>2. CASE OutOfTime
  BY <1>2 DEF OutOfTime, Slots
<1>3. CASE Resume \/ CiPasses \/ Analyse \/ (\E f \in Files : PersonCommits(f))
           \/ (\E c \in Blocking : PersonComments(c)) \/ UNCHANGED vars
  BY <1>3 DEF Resume, CiPasses, Analyse, PersonCommits, PersonComments, vars
<1>4. ASSUME NEW a \in Slots, Step(a) \/ CallFails(a), a # "counted"
      PROVE  act'["counted"] = act["counted"]
  BY <1>4, JobStep DEF Slots, Typed
<1> QED
  BY <1>1, <1>2, <1>3, <1>4 DEF Next

\* The issue of c exists, or its creation was refused once, or twice.
Exists(c) == backlog[TitleOf[c]] > 0
Tried(c)  == Exists(c) \/ refused[TitleOf[c]] > 0
Filed(c)  == Exists(c) \/ refused[TitleOf[c]] > 1

\* The moderate comments of attempt r of the review that have or will have a
\* note, and those of the review that counts.
Moderates(r) == ((r.got \cap Moderate) \ FileLevel) \ r.missed
Awaited == (reviewed \cap Moderate) \ (FileLevel \cup unposted)

\* What the attempt that counts takes for filed is.
TitlesOK == \A t \in act["counted"].titles : t \in Titles /\ backlog[t] > 0

\* A moderate comment leaves the review's lists with its note, then with its
\* issue or a refusal.
TriedBy(r) ==
  r.job = "review" =>
    /\ r.place \in {"read", "post", "backlog"}
    /\ r.place = "post" => \A c \in Moderates(r) : r.todo[c] > 0 \/ notes[c] > 0
    /\ r.place = "backlog" =>
         \A c \in Moderates(r) : notes[c] > 0 /\ (r.todo[c] > 0 \/ Tried(c))

TriedOK ==
  /\ TriedBy(act["counted"])
  /\ \A c \in Awaited : notes[c] > 0 /\ Tried(c)

\* Then review-fix has it to do until it is filed.
FiledBy(r, c) ==
  r.job = "fix" =>
    /\ r.place = "titles" => r.todo[c] > 0
    /\ r.place = "backlog" => r.todo[c] > 0 \/ Filed(c)
    /\ r.place \in {"blocking", "fix", "rewrite", "resend"} => Filed(c)

FiledOK ==
  \A c \in Awaited :
    /\ FiledBy(act["counted"], c)
    /\ mode = "partial" => Filed(c)
    /\ stage \notin {"review", "fix"} /\ reviewed \cap Blocking # {} => Filed(c)

\* Titles stay known, and issues and refusals stay.
LEMMA FiledStays ==
  ASSUME Typed, [Next]_vars, NEW c \in Moderate
  PROVE  /\ TitleOf[c] \in Titles /\ c \in Comments /\ c \in Work
         /\ Exists(c) => Exists(c)'
         /\ Tried(c) => Tried(c)'
         /\ Filed(c) => Filed(c)'
         /\ notes[c] > 0 => notes'[c] > 0
<1>1. TitleOf[c] \in Titles /\ c \in Comments /\ c \in Work
  BY DEF Titles, Comments, Work
<1>2. /\ backlog[TitleOf[c]] \in Nat /\ backlog'[TitleOf[c]] \in Nat
      /\ refused[TitleOf[c]] \in Nat /\ refused'[TitleOf[c]] \in Nat
      /\ notes[c] \in Nat /\ notes'[c] \in Nat
  BY <1>1, TypeStep DEF Typed, StateOK, SharedType, HistoryType
<1>3. /\ backlog'[TitleOf[c]] >= backlog[TitleOf[c]] /\ refused'[TitleOf[c]] >= refused[TitleOf[c]]
      /\ notes'[c] >= notes[c]
  BY <1>1, StoreStep, HistoryStep
<1> QED
  BY <1>1, <1>2, <1>3 DEF Exists, Tried, Filed

\* Every step keeps TitlesOK.
LEMMA TitlesStep ==
  ASSUME Typed, TitlesOK, [Next]_vars
  PROVE  TitlesOK'
<1>1. \A t \in Titles : backlog[t] > 0 => backlog'[t] > 0
  <2>1. \A t \in Titles : backlog[t] \in Nat /\ backlog'[t] \in Nat /\ backlog'[t] >= backlog[t]
    BY StoreStep, TypeStep DEF Typed, StateOK, SharedType
  <2> QED
    BY <2>1
<1>2. CASE act'["counted"].titles \in {{}, act["counted"].titles}
  BY <1>1, <1>2 DEF TitlesOK
<1>3. CASE ReadTitles("counted")
  <2>1. PICK seen \in SUBSET {t \in Titles : backlog[t] > 0} :
             act' = [act EXCEPT !["counted"].place = "backlog", !["counted"].titles = seen]
    BY <1>3 DEF ReadTitles
  <2>2. act'["counted"].titles = seen
    BY <2>1 DEF Typed, ActOK, Attempt, Slots
  <2> QED
    BY <1>1, <2>2 DEF TitlesOK
<1> QED
  BY <1>2, <1>3, CountedStep, StoreStepOf DEF Slots, Idle

\* A creation that is tried leaves an issue or one more refusal.
LEMMA CreationTried ==
  ASSUME Typed, NEW c \in Moderate, NEW copies \in 0..2,
         backlog' = [backlog EXCEPT ![TitleOf[c]] = backlog[TitleOf[c]] + copies],
         refused' = IF copies > 0 THEN refused
                    ELSE [refused EXCEPT ![TitleOf[c]] = refused[TitleOf[c]] + 1]
  PROVE  Tried(c)' /\ (Tried(c) => Filed(c)')
<1>1. TitleOf[c] \in Titles
  BY DEF Titles
<1>2. backlog \in [Titles -> Nat] /\ refused \in [Titles -> Nat]
  BY DEF Typed, StateOK, SharedType, HistoryType
<1>3. CASE copies > 0
  <2>1. backlog'[TitleOf[c]] > 0
    BY <1>1, <1>2, <1>3
  <2> QED
    BY <2>1 DEF Tried, Filed, Exists
<1>4. CASE copies = 0
  <2>1. refused'[TitleOf[c]] = refused[TitleOf[c]] + 1 /\ backlog'[TitleOf[c]] = backlog[TitleOf[c]]
    BY <1>1, <1>2, <1>4
  <2> QED
    BY <1>1, <1>2, <2>1 DEF Tried, Filed, Exists
<1> QED
  BY <1>3, <1>4

\* A step of the review that counts keeps TriedBy.
LEMMA TriedByStep ==
  ASSUME Typed, TitlesOK, TriedBy(act["counted"]), Step("counted") \/ CallFails("counted")
  PROVE  TriedBy(act["counted"])'
<1> DEFINE r == act["counted"]
<1>0. /\ "counted" \in Slots /\ r \in Attempt /\ act \in [Slots -> Attempt]
      /\ notes \in [Comments -> Nat] /\ r.todo \in [Work -> Nat] /\ [Next]_vars
      /\ Comments \subseteq Work /\ Moderate \subseteq Comments
  BY DEF Slots, Typed, ActOK, StateOK, SharedType, Comments, Work, Attempt, Next
<1>1. CASE r' = Idle
  BY <1>1, IdleOK DEF TriedBy
<1>2. CASE r.job # "review"
  BY <1>0, <1>2, JobStep, IdleOK DEF TriedBy, Typed
<1>3. CASE r.job = "review" /\ Review("counted")
  <2>1. PICK got \in SUBSET Comments :
             act' = [act EXCEPT !["counted"].place = "post", !["counted"].got = got,
                                !["counted"].todo = Once(got \ FileLevel)]
    BY <1>3 DEF Review
  <2>2. r'.got = got /\ r'.place = "post" /\ r'.todo = Once(got \ FileLevel)
    BY <1>0, <2>1 DEF Attempt
  <2> QED
    BY <1>0, <2>2 DEF TriedBy, Moderates, Once
<1>4. CASE r.job = "review" /\ PostInlineComment("counted")
  <2>1. PICK d \in Comments, copies \in 0..2 :
             /\ Has("counted", d) /\ AddNotes(d, copies)
             /\ act' = [act EXCEPT !["counted"].todo[d] = @ - 1,
                                   !["counted"].missed = IF copies = 0 THEN @ \cup {d} ELSE @]
    BY <1>4 DEF PostInlineComment
  <2>2. /\ r'.got = r.got /\ r'.place = r.place
        /\ r'.missed = (IF copies = 0 THEN r.missed \cup {d} ELSE r.missed)
        /\ r'.todo = [r.todo EXCEPT ![d] = r.todo[d] - 1]
    BY <1>0, <2>1 DEF Attempt
  <2>3. r.place = "post"
    BY <1>4 DEF PostInlineComment, At
  <2>4. notes' = [notes EXCEPT ![d] = notes[d] + copies]
    BY <2>1 DEF AddNotes
  <2> SUFFICES ASSUME NEW c \in Moderates(r')
               PROVE  r'.todo[c] > 0 \/ notes'[c] > 0
    BY <2>2, <2>3 DEF TriedBy
  <2>5. c \in Moderates(r) /\ (c = d => copies # 0) /\ c \in Comments
    BY <1>0, <2>2 DEF Moderates
  <2>6. r.todo[c] > 0 \/ notes[c] > 0
    BY <1>4, <2>3, <2>5 DEF TriedBy
  <2>7. CASE c = d
    BY <1>0, <2>1, <2>4, <2>5, <2>7
  <2>8. CASE c # d
    BY <1>0, <2>2, <2>4, <2>5, <2>6, <2>8
  <2> QED
    BY <2>7, <2>8
<1>5. CASE r.job = "review" /\ PostSummary("counted")
  <2>1. r.place = "post" /\ r.todo = NoWork /\ UNCHANGED notes
    BY <1>5 DEF PostSummary, At, NothingLeft, shared
  <2>2. /\ r'.got = r.got /\ r'.missed = r.missed /\ r'.place = "backlog"
        /\ r'.todo = Once(r.got \cap Moderate)
    BY <1>0, <1>5 DEF PostSummary, Attempt
  <2>3. \A c \in Moderates(r) : notes[c] > 0 /\ r'.todo[c] > 0
    BY <1>0, <1>5, <2>1, <2>2 DEF TriedBy, NoWork, Moderates, Once
  <2> QED
    BY <2>1, <2>2, <2>3 DEF TriedBy, Moderates
<1>6. CASE r.job = "review" /\ FileIssue("counted")
  <2>1. PICK i \in Moderate \cup Smells : Creation("counted", i)
    BY <1>0, <1>6, FileEffect
  <2>2. /\ r'.got = r.got /\ r'.missed = r.missed /\ r'.place = "backlog"
        /\ r'.todo = [r.todo EXCEPT ![i] = r.todo[i] - 1]
    BY <1>0, <2>1 DEF Creation, Attempt
  <2> SUFFICES ASSUME NEW c \in Moderates(r')
               PROVE  notes'[c] > 0 /\ (r'.todo[c] > 0 \/ Tried(c)')
    BY <2>2 DEF TriedBy
  <2>3. c \in Moderates(r) /\ c \in Moderate
    BY <2>2 DEF Moderates
  <2>4. notes[c] > 0 /\ (r.todo[c] > 0 \/ Tried(c))
    BY <1>6, <2>1, <2>3 DEF Creation, TriedBy
  <2>5. CASE c = i
    <3>1. CASE TitleOf[i] \in r.titles
      BY <1>0, <2>3, <2>4, <2>5, <3>1, FiledStays DEF TitlesOK, Tried, Exists
    <3>2. CASE TitleOf[i] \notin r.titles
      <4>1. Tried(c)'
        BY <2>1, <2>3, <2>5, <3>2, CreationTried DEF Creation
      <4> QED
        BY <1>0, <2>3, <2>4, <4>1, FiledStays
    <3> QED
      BY <3>1, <3>2
  <2>6. CASE c # i
    <3>1. r'.todo[c] = r.todo[c]
      BY <1>0, <2>2, <2>3, <2>6
    <3> QED
      BY <1>0, <2>3, <2>4, <3>1, FiledStays
  <2> QED
    BY <2>5, <2>6
<1>7. CASE r.job = "review" /\ (ReadTitles("counted") \/ NoFix("counted"))
  BY <1>7 DEF TriedBy, ReadTitles, NoFix, At
<1>8. CASE EndReview("counted") \/ CallFails("counted")
  BY <1>0, <1>1, <1>8 DEF EndReview, CallFails, Finished
<1> QED
  BY <1>0, <1>2, <1>3, <1>4, <1>5, <1>6, <1>7, <1>8, ReviewCases

\* A step of review-fix that counts: what it awaits it has to do or has filed.
LEMMA FiledByStep ==
  ASSUME Typed, TitlesOK, TriedOK, NEW c \in Awaited, FiledBy(act["counted"], c),
         Step("counted") \/ CallFails("counted"), act'["counted"].job = "fix"
  PROVE  FiledBy(act["counted"], c)'
<1> DEFINE r == act["counted"]
<1>0. /\ "counted" \in Slots /\ r \in Attempt /\ act \in [Slots -> Attempt]
      /\ notes \in [Comments -> Nat] /\ r.todo \in [Work -> Nat] /\ [Next]_vars
      /\ c \in Moderate /\ c \in Work /\ r.job = "fix" /\ r' # Idle
  BY JobStep, IdleOK DEF Slots, Typed, ActOK, StateOK, SharedType, Comments, Work, Attempt,
     Next, Awaited
<1>1. Filed(c) => Filed(c)'
  BY <1>0, FiledStays
<1>2. CASE ReadTitles("counted")
  <2>1. r.place = "titles" /\ r'.place = "backlog" /\ r'.todo = r.todo
    BY <1>0, <1>2 DEF ReadTitles, Attempt
  <2> QED
    BY <1>0, <2>1 DEF FiledBy
<1>3. CASE FileIssue("counted")
  <2>1. PICK i \in Moderate \cup Smells : Creation("counted", i)
    BY <1>0, <1>3, FileEffect
  <2>2. /\ r.place = "backlog" /\ r'.place = "backlog"
        /\ r'.todo = [r.todo EXCEPT ![i] = r.todo[i] - 1]
    BY <1>0, <2>1 DEF Creation, Attempt
  <2>3. r.todo[c] > 0 \/ Filed(c)
    BY <1>0, <2>2 DEF FiledBy
  <2>4. CASE c # i
    <3>1. r'.todo[c] = r.todo[c]
      BY <1>0, <2>2, <2>4
    <3> QED
      BY <1>1, <2>2, <2>3, <3>1 DEF FiledBy
  <2>5. CASE c = i
    <3>1. Filed(c)'
      <4>1. CASE TitleOf[i] \in r.titles
        BY <1>0, <2>5, <4>1, FiledStays DEF TitlesOK, Filed, Exists
      <4>2. CASE TitleOf[i] \notin r.titles
        <5>1. Tried(c)
          BY DEF TriedOK
        <5> QED
          BY <1>0, <2>1, <2>5, <4>2, <5>1, CreationTried DEF Creation
      <4> QED
        BY <4>1, <4>2
    <3> QED
      BY <2>2, <3>1 DEF FiledBy
  <2> QED
    BY <2>4, <2>5
<1>4. CASE ReadModerateNotes("counted")
  <2>1. /\ r'.todo = NotesOf(Moderate)
        /\ r'.place = IF NotesOf(Moderate) = NoWork THEN "blocking" ELSE "titles"
    BY <1>0, <1>4 DEF ReadModerateNotes, Attempt
  <2>2. NotesOf(Moderate)[c] = notes[c] /\ notes[c] > 0
    BY <1>0 DEF NotesOf, TriedOK
  <2>3. NotesOf(Moderate) # NoWork
    BY <1>0, <2>2 DEF NoWork
  <2> QED
    BY <2>1, <2>2, <2>3 DEF FiledBy
<1>5. CASE EndFixBacklog("counted")
  <2>1. r.place = "backlog" /\ r.todo[c] = 0 /\ r'.place = "blocking"
    BY <1>0, <1>5 DEF EndFixBacklog, At, NothingLeft, NoWork, Attempt
  <2> QED
    BY <1>0, <1>1, <2>1 DEF FiledBy
<1>6. CASE ReadBlockingNotes("counted") \/ SkipComment("counted") \/ ReadFile("counted")
           \/ CommitFix("counted") \/ NoFix("counted")
           \/ CommitUnanswered("counted") \/ CommitAgain("counted")
  <2>1. r.place \in {"blocking", "fix", "rewrite", "resend"}
    BY <1>6 DEF ReadBlockingNotes, SkipComment, ReadFile, CommitFix, CommitUnanswered,
                CommitAgain, NoFix, At
  <2>2. r'.place \in {"fix", "rewrite", "resend"}
    <3>1. CASE ReadBlockingNotes("counted")
      BY <1>0, <3>1 DEF ReadBlockingNotes, Attempt
    <3>2. CASE SkipComment("counted")
      BY <1>0, <3>2 DEF SkipComment, At, Attempt
    <3>3. CASE ReadFile("counted")
      BY <1>0, <3>3 DEF ReadFile, Attempt
    <3>4. CASE CommitFix("counted") \/ NoFix("counted")
      BY <1>0, <3>4 DEF CommitFix, NoFix, Released, Attempt
    <3>5. CASE CommitUnanswered("counted") \/ CommitAgain("counted")
      BY <1>0, <3>5, Resent
    <3> QED
      BY <1>6, <3>1, <3>2, <3>3, <3>4, <3>5
  <2> QED
    BY <1>0, <1>1, <2>1, <2>2 DEF FiledBy
<1>7. CASE NoBlockingNote("counted") \/ EndFix("counted") \/ CallFails("counted")
  BY <1>0, <1>7 DEF NoBlockingNote, EndFix, CallFails, Finished
<1> QED
  BY <1>0, <1>2, <1>3, <1>4, <1>5, <1>6, <1>7, FixCases

\* Only the end of a review-fix that counts leaves a partial fix.
LEMMA PartialStepOf ==
  ASSUME NEW a \in Slots, Step(a) \/ CallFails(a), mode' = "partial"
  PROVE  mode = "partial" \/ (a = "counted" /\ (NoBlockingNote(a) \/ EndFix(a)))
<1> USE DEF workflow
<1>1. CASE Review(a) \/ PostInlineComment(a) \/ PostSummary(a) \/ EndReview(a) \/ ReadTitles(a)
           \/ FileIssue(a) \/ ReadModerateNotes(a) \/ EndFixBacklog(a) \/ ReadBlockingNotes(a)
           \/ SkipComment(a) \/ ReadFile(a)
  BY <1>1 DEF Review, PostInlineComment, PostSummary, EndReview, ReadTitles, FileIssue,
     ReadModerateNotes, EndFixBacklog, ReadBlockingNotes, SkipComment, ReadFile
<1>2. CASE CommitFix(a) \/ CommitUnanswered(a) \/ CommitAgain(a) \/ NoFix(a)
           \/ ReadAnalysis(a) \/ EndStatic(a) \/ ReadBlockingIssues(a)
           \/ CommitStaticFix(a) \/ EndCorrect(a) \/ Verify(a) \/ Merge(a)
  BY <1>2 DEF CommitFix, CommitUnanswered, CommitAgain, NoFix, ReadAnalysis, EndStatic, ReadBlockingIssues, CommitStaticFix,
     EndCorrect, Verify, Merge
<1>3. CASE NoBlockingNote(a) \/ EndFix(a)
  <2>1. \E s : AfterFix(a, s)
    BY <1>3 DEF NoBlockingNote, EndFix
  <2> QED
    BY <1>3, <2>1, AfterFixCases
<1>4. CASE CallFails(a)
  BY <1>4 DEF CallFails, Lost
<1> QED
  BY <1>1, <1>2, <1>3, <1>4 DEF Step

\* Every step keeps TriedOK.
LEMMA TriedStep ==
  ASSUME Typed, TitlesOK, TriedOK, [Next]_vars
  PROVE  TriedOK'
<1>1. TriedBy(act["counted"])'
  <2>1. CASE act'["counted"] = act["counted"]
    <3>1. \A c \in Moderates(act["counted"]) : c \in Moderate
      BY DEF Moderates
    <3> QED
      BY <2>1, <3>1, FiledStays DEF TriedOK, TriedBy, Moderates
  <2>2. CASE act'["counted"] = Idle \/ act'["counted"].place = "read"
    BY <2>2, IdleOK DEF TriedBy
  <2>3. CASE Step("counted") \/ CallFails("counted")
    <3>1. TriedBy(act["counted"])
      BY DEF TriedOK
    <3> QED
      BY <2>3, <3>1, TriedByStep
  <2> QED
    BY <2>1, <2>2, <2>3, CountedStep
<1>2. \A c \in Awaited' : c \in Moderate /\ notes[c] > 0 /\ Tried(c)
  <2>1. CASE Kept
    BY <2>1 DEF Kept, Awaited, TriedOK
  <2>2. CASE EndReview("counted")
    <3>1. /\ reviewed' = act["counted"].got /\ unposted' = act["counted"].missed
          /\ act["counted"].job = "review" /\ act["counted"].place = "backlog"
          /\ act["counted"].todo = NoWork
      BY <2>2 DEF EndReview, At, NothingLeft
    <3>2. \A c \in Moderate : act["counted"].todo[c] = 0
      BY <3>1 DEF NoWork, Work, Comments
    <3> QED
      BY <3>1, <3>2 DEF Awaited, TriedOK, TriedBy, Moderates
  <2> QED
    BY <2>1, <2>2, HistoryStep
<1>3. \A c \in Awaited' : notes'[c] > 0 /\ Tried(c)'
  BY <1>2, FiledStays
<1> QED
  BY <1>1, <1>3 DEF TriedOK, TriedBy, Moderates, Awaited


\* Only the end of the review, or of review-fix, or the resume of a partial fix
\* takes the workflow beyond them; and only the end of review-fix leaves one.
LEMMA BeyondStep ==
  ASSUME Typed, [Next]_vars
  PROVE  /\ stage' \notin {"review", "fix"} =>
              \/ stage \notin {"review", "fix"} \/ mode = "partial"
              \/ EndReview("counted") \/ NoBlockingNote("counted") \/ EndFix("counted")
         /\ mode' = "partial" =>
              mode = "partial" \/ NoBlockingNote("counted") \/ EndFix("counted")
<1>1. CASE Resume
  BY <1>1 DEF Resume
<1>2. CASE Start \/ CiPasses \/ OutOfTime
  BY <1>2 DEF Start, CiPasses, OutOfTime, Lost
<1>3. CASE Analyse \/ (\E f \in Files : PersonCommits(f)) \/ (\E c \in Blocking : PersonComments(c))
           \/ UNCHANGED vars
  BY <1>3 DEF Analyse, PersonCommits, PersonComments, vars, workflow
<1>4. CASE \E a \in Slots : Step(a) \/ CallFails(a)
  BY <1>4, StageStepOf, PartialStepOf
<1> QED
  BY <1>1, <1>2, <1>3, <1>4 DEF Next

\* When review-fix ends, what it had to file is filed.
LEMMA FiledAtEnd ==
  ASSUME NEW c \in Awaited, FiledBy(act["counted"], c),
         NoBlockingNote("counted") \/ EndFix("counted")
  PROVE  Filed(c)
BY DEF FiledBy, NoBlockingNote, EndFix, At

\* Every step keeps FiledOK.
LEMMA FiledStep ==
  ASSUME Typed, TitlesOK, TriedOK, FiledOK, [Next]_vars
  PROVE  FiledOK'
<1> SUFFICES ASSUME NEW c \in Awaited'
             PROVE  /\ FiledBy(act["counted"], c)'
                    /\ mode' = "partial" => Filed(c)'
                    /\ stage' \notin {"review", "fix"} /\ reviewed' \cap Blocking # {} => Filed(c)'
  BY DEF FiledOK
<1>1. CASE EndReview("counted")
  <2>1. act'["counted"] = Idle
    BY <1>1 DEF EndReview, Finished, Slots, Typed, ActOK
  <2>2. act["counted"] # Idle /\ mode' = mode
    BY <1>1, IdleOK DEF EndReview, At
  <2>3. mode' = "run"
    BY <2>2 DEF Typed, TriesOK, StateOK, WorkflowType
  <2>4. stage' = "fix" \/ reviewed' \cap Blocking = {}
    BY <1>1 DEF EndReview, GoOn
  <2> QED
    BY <2>1, <2>3, <2>4, IdleOK DEF FiledBy
<1>2. CASE Kept /\ ~EndReview("counted")
  <2>1. c \in Awaited /\ c \in Moderate /\ reviewed' = reviewed
    BY <1>2 DEF Kept, Awaited
  <2>2. Filed(c) => Filed(c)'
    BY <2>1, FiledStays
  <2>3. /\ FiledBy(act["counted"], c)
        /\ mode = "partial" => Filed(c)
        /\ stage \notin {"review", "fix"} /\ reviewed \cap Blocking # {} => Filed(c)
    BY <2>1 DEF FiledOK
  <2>4. NoBlockingNote("counted") \/ EndFix("counted") => Filed(c)
    BY <2>1, <2>3, FiledAtEnd
  <2>5. FiledBy(act["counted"], c)'
    <3>1. CASE act'["counted"] = act["counted"]
      BY <2>2, <2>3, <3>1 DEF FiledBy
    <3>2. CASE act'["counted"] = Idle \/ act'["counted"].place = "read"
      BY <3>2, IdleOK DEF FiledBy
    <3>3. CASE (Step("counted") \/ CallFails("counted")) /\ act'["counted"].job = "fix"
      BY <2>1, <2>3, <3>3, FiledByStep
    <3>4. CASE act'["counted"].job # "fix"
      BY <3>4 DEF FiledBy
    <3> QED
      BY <3>1, <3>2, <3>3, <3>4, CountedStep
  <2>6. mode' = "partial" => Filed(c)'
    BY <2>2, <2>3, <2>4, BeyondStep
  <2>7. stage' \notin {"review", "fix"} /\ reviewed' \cap Blocking # {} => Filed(c)'
    BY <1>2, <2>1, <2>2, <2>3, <2>4, BeyondStep
  <2> QED
    BY <2>5, <2>6, <2>7
<1> QED
  BY <1>1, <1>2, HistoryStep

\* Whatever fails or runs out of time on the way, a moderate comment whose note
\* was made has its backlog issue once review-fix is over, or GitLab refused to
\* create it twice.
THEOREM ModeratesReachTheBacklog == Spec => []ModerateReachesBacklog
<1> DEFINE Filing == TitlesOK /\ TriedOK /\ FiledOK
<1>1. Init => Filing
  <2> SUFFICES ASSUME Init PROVE Filing
    OBVIOUS
  <2>1. act["counted"] = Idle /\ reviewed = {}
    BY DEF Init, Slots
  <2>2. Idle.titles = {}
    BY DEF Idle
  <2> QED
    BY <2>1, <2>2, IdleOK DEF TitlesOK, TriedOK, TriedBy, FiledOK, Awaited
<1>2. Typed /\ Filing /\ [Next]_vars => Filing'
  BY TitlesStep, TriedStep, FiledStep
<1>3. Filing => ModerateReachesBacklog
  BY DEF FiledOK, ModerateReachesBacklog, Awaited, Filed, Exists
<1> HIDE DEF Filing
<1> QED
  BY <1>1, <1>2, <1>3, TypeInvariance, PTL DEF Spec

----------------------------------------------------------------------------
(* One backlog issue for each moderate comment *)

\* Nothing has yet happened that files a comment twice.
Calm == reviews <= 1 /\ ~doubled /\ ~overlapped

\* Attempt r of the review has had the model's answer.
Past(r) == r.job = "review" /\ r.place # "read"

\* Where a review is, and a partial fix.
PlacesOK ==
  /\ \A a \in Slots : act[a].job = "review" => act[a].place \in {"read", "post", "backlog"}
  /\ mode = "partial" => stage = "fix"

\* Until the review has been made the workflow awaits it; while it posts, it is
\* alone; and one review-fix runs at a time.
AloneOK ==
  Calm =>
    /\ act["late"].job # "fix"
    /\ reviews = 0 => stage = "review"
    /\ \A a \in Slots : Past(act[a]) =>
         reviews = 1 /\ stage = "review" /\ \A b \in Slots \ {a} : ~Past(act[b])

\* What attempt r may still post or file of c, and what there is, is one.
OnceBy(r, c) ==
  /\ r.job = "review" /\ r.place = "post" =>
       notes[c] + r.todo[c] <= 1 /\ backlog[TitleOf[c]] = 0
  /\ r.job = "review" /\ r.place = "backlog" => backlog[TitleOf[c]] + r.todo[c] <= 1
  /\ r.job = "fix" /\ r.place \in {"titles", "backlog"} => r.todo[c] <= 1
  /\ r.job = "fix" /\ r.place = "backlog" =>
       TitleOf[c] \in r.titles \/ backlog[TitleOf[c]] + r.todo[c] <= 1
  /\ r.job \notin {"review", "fix"} => r.todo[c] = 0

OnceOK(c) ==
  Calm =>
    /\ notes[c] <= 1 /\ backlog[TitleOf[c]] <= 1
    /\ reviews = 0 => notes[c] = 0 /\ backlog[TitleOf[c]] = 0
    /\ \A a \in Slots : OnceBy(act[a], c)

\* Reviews are counted, and what disturbs the calm is not forgotten.
LEMMA CalmStepOf ==
  ASSUME Typed, NEW a \in Slots, Step(a) \/ CallFails(a)
  PROVE  /\ reviews' = reviews \/ (Review(a) /\ reviews' = reviews + 1)
         /\ Calm' => Calm
<1>0. reviews \in Nat /\ doubled \in BOOLEAN /\ overlapped \in BOOLEAN
  BY DEF Typed, StateOK, HistoryType
<1>1. overlapped' = overlapped
  BY FlowStep DEF Typed
<1>2. (reviews' = reviews \/ (Review(a) /\ reviews' = reviews + 1)) /\ (doubled => doubled')
  <2> USE DEF history
  <2>1. CASE Review(a) \/ PostSummary(a) \/ ReadTitles(a) \/ ReadModerateNotes(a)
             \/ EndFixBacklog(a) \/ ReadBlockingNotes(a) \/ SkipComment(a) \/ ReadFile(a)
    <3>1. doubled' = doubled /\ (reviews' = reviews \/ (Review(a) /\ reviews' = reviews + 1))
      BY <2>1 DEF Review, PostSummary, ReadTitles, ReadModerateNotes, EndFixBacklog,
         ReadBlockingNotes, SkipComment, ReadFile
    <3> QED
      BY <3>1
  <2>2. CASE PostInlineComment(a)
    <3>1. reviews' = reviews /\ \E copies \in 0..2 : doubled' = (doubled \/ copies = 2)
      BY <2>2 DEF PostInlineComment, Post
    <3>2. doubled => doubled'
      BY <3>1, Zenon
    <3> QED
      BY <3>1, <3>2
  <2>3. CASE FileIssue(a)
    <3>1. reviews' = reviews
      BY <2>3 DEF FileIssue
    <3>2. PICK i \in Moderate \cup Smells : Creation(a, i)
      BY <2>3, FileEffect
    <3>3. doubled' = doubled \/ \E copies \in 0..2 : doubled' = (doubled \/ copies = 2)
      BY <3>2 DEF Creation
    <3>4. doubled => doubled'
      BY <3>3, Zenon
    <3> QED
      BY <3>1, <3>4
  <2>4. CASE EndReview(a) \/ NoBlockingNote(a) \/ EndFix(a) \/ EndStatic(a) \/ EndCorrect(a)
             \/ Verify(a) \/ Merge(a) \/ CallFails(a)
    BY <2>4 DEF EndReview, NoBlockingNote, EndFix, EndStatic, EndCorrect, Verify, Merge, CallFails
  <2>5. CASE CommitFix(a) \/ CommitUnanswered(a) \/ CommitAgain(a) \/ NoFix(a)
             \/ CommitStaticFix(a) \/ ReadAnalysis(a) \/ ReadBlockingIssues(a)
    <3>1. UNCHANGED <<doubled, reviews>>
      BY <2>5 DEF CommitFix, CommitUnanswered, CommitAgain, NoFix, CommitStaticFix, ReadAnalysis, ReadBlockingIssues
    <3> QED
      BY <3>1
  <2> QED
    BY <2>1, <2>2, <2>3, <2>4, <2>5 DEF Step
<1> QED
  BY <1>0, <1>1, <1>2 DEF Calm

\* Where a step takes an attempt of the review.
LEMMA ReviewStepOf ==
  ASSUME Typed, NEW a \in Slots, Step(a) \/ CallFails(a),
         act[a].job = "review" => act[a].place \in {"read", "post", "backlog"}
  PROVE  /\ act'[a].job = "review" => act'[a].place \in {"read", "post", "backlog"}
         /\ Past(act'[a]) => Past(act[a]) \/ Review(a)
<1> USE DEF Typed, ActOK, Attempt
<1>1. CASE act[a].job # "review"
  BY <1>1, JobStep, IdleOK DEF Past
<1>2. CASE act[a].job = "review" /\ (EndReview(a) \/ CallFails(a))
  BY <1>2, IdleOK DEF EndReview, CallFails, Finished, Past
<1>3. CASE act[a].job = "review" /\ Review(a)
  <2>1. act'[a].place = "post"
    BY <1>3 DEF Review
  <2> QED
    BY <1>3, <2>1
<1>4. CASE act[a].job = "review" /\ PostInlineComment(a)
  <2>1. act'[a].place = act[a].place /\ act[a].place = "post"
    BY <1>4 DEF PostInlineComment, At
  <2> QED
    BY <1>4, <2>1 DEF Past
<1>5. CASE act[a].job = "review" /\ PostSummary(a)
  BY <1>5 DEF PostSummary, Past, At
<1>6. CASE act[a].job = "review" /\ FileIssue(a)
  <2>1. PICK i \in Moderate \cup Smells : Creation(a, i)
    BY <1>6, FileEffect
  <2>2. act'[a].place = "backlog" /\ act[a].place = "backlog"
    BY <2>1 DEF Creation
  <2> QED
    BY <1>6, <2>2 DEF Past
<1>7. CASE act[a].job = "review" /\ (ReadTitles(a) \/ NoFix(a))
  BY <1>7 DEF ReadTitles, NoFix, At
<1> QED
  BY <1>1, <1>2, <1>3, <1>4, <1>5, <1>6, <1>7, ReviewCases

\* Every step keeps PlacesOK.
LEMMA PlacesStep ==
  ASSUME Typed, PlacesOK, [Next]_vars
  PROVE  PlacesOK'
<1>1. CASE Start
  <2>1. \A a \in Slots : act'[a] = act[a] \/ act'[a].place = "read"
    BY <1>1 DEF Start, Typed, ActOK, Idle
  <2> QED
    BY <1>1, <2>1 DEF Start, PlacesOK
<1>2. CASE OutOfTime
  <2>1. \A a \in Slots : act'[a] = Idle \/ act'[a] = act["counted"]
    BY <1>2 DEF OutOfTime
  <2>2. mode' # "partial" /\ "counted" \in Slots
    BY <1>2 DEF OutOfTime, Lost, Slots
  <2> QED
    BY <2>1, <2>2, IdleOK DEF PlacesOK
<1>3. CASE Resume \/ CiPasses
  BY <1>3 DEF Resume, CiPasses, PlacesOK
<1>4. CASE Analyse \/ (\E f \in Files : PersonCommits(f)) \/ (\E c \in Blocking : PersonComments(c))
           \/ UNCHANGED vars
  BY <1>4 DEF Analyse, PersonCommits, PersonComments, vars, workflow, PlacesOK
<1>5. ASSUME NEW a \in Slots, Step(a) \/ CallFails(a)
      PROVE  PlacesOK'
  <2>1. \A b \in Slots : act'[b].job = "review" => act'[b].place \in {"read", "post", "backlog"}
    BY <1>5, JobStep, ReviewStepOf DEF PlacesOK, Typed
  <2>2. mode' = "partial" => stage' = "fix"
    <3>1. CASE UNCHANGED <<stage, mode>>
      BY <3>1 DEF PlacesOK
    <3>2. CASE a = "counted" /\ (NoBlockingNote(a) \/ EndFix(a))
      <4>1. \E s : AfterFix(a, s)
        BY <3>2 DEF NoBlockingNote, EndFix
      <4>2. stage = "fix"
        BY <3>2 DEF NoBlockingNote, EndFix, At, Typed, TriesOK
      <4>3. mode = "run"
        BY <3>2, IdleOK DEF NoBlockingNote, EndFix, At, Typed, TriesOK, StateOK, WorkflowType
      <4> QED
        BY <4>1, <4>2, <4>3, AfterFixCases
    <3>3. CASE ~(a = "counted" /\ (NoBlockingNote(a) \/ EndFix(a))) /\ ~UNCHANGED <<stage, mode>>
      <4>1. mode' = "partial" => mode = "partial"
        BY <1>5, <3>3, PartialStepOf
      <4>2. a = "counted"
        BY <1>5, <3>3, FlowStep DEF Typed
      <4>3. act[a] # Idle
        BY <1>5, JobStep, IdleOK DEF Typed
      <4>4. mode # "partial"
        BY <4>2, <4>3 DEF Typed, TriesOK
      <4> QED
        BY <4>1, <4>4
    <3> QED
      BY <3>1, <3>2, <3>3
  <2> QED
    BY <2>1, <2>2 DEF PlacesOK
<1> QED
  BY <1>1, <1>2, <1>3, <1>4, <1>5 DEF Next

\* Every step keeps the calm, if it is calm after it.
LEMMA CalmStep ==
  ASSUME Typed, [Next]_vars, Calm'
  PROVE  Calm
<1>1. CASE OutOfTime
  <2>1. reviews' = reviews /\ doubled' = doubled /\ overlapped' = (overlapped \/ stage = "fix")
    BY <1>1 DEF OutOfTime
  <2> QED
    BY <2>1, Zenon DEF Calm
<1>2. CASE Start \/ Resume \/ CiPasses \/ Analyse \/ UNCHANGED vars
  BY <1>2 DEF Start, Resume, CiPasses, Analyse, vars, history, Calm
<1>3. CASE (\E f \in Files : PersonCommits(f)) \/ (\E c \in Blocking : PersonComments(c))
  BY <1>3 DEF PersonCommits, PersonComments, history, Calm
<1> QED
  BY <1>1, <1>2, <1>3, CalmStepOf DEF Next

\* Every step keeps AloneOK.
LEMMA AloneStep ==
  ASSUME Typed, PlacesOK, AloneOK, [Next]_vars
  PROVE  AloneOK'
<1> SUFFICES ASSUME Calm'
             PROVE  /\ act'["late"].job # "fix"
                    /\ reviews' = 0 => stage' = "review"
                    /\ \A a \in Slots : Past(act'[a]) =>
                         reviews' = 1 /\ stage' = "review" /\ \A b \in Slots \ {a} : ~Past(act'[b])
  BY DEF AloneOK
<1>0. /\ act["late"].job # "fix"
      /\ reviews = 0 => stage = "review"
      /\ \A a \in Slots : Past(act[a]) =>
           reviews = 1 /\ stage = "review" /\ \A b \in Slots \ {a} : ~Past(act[b])
  BY CalmStep DEF AloneOK
<1>t. reviews \in Nat /\ act \in [Slots -> Attempt] /\ "late" \in Slots /\ "counted" \in Slots
  BY DEF Typed, ActOK, StateOK, HistoryType, Slots
<1>i. ~Past(Idle)
  BY IdleOK DEF Past
<1>1. CASE Start
  <2>1. act' = [act EXCEPT !["counted"] = [Idle EXCEPT !.job = stage, !.place = "read"]]
    BY <1>1 DEF Start
  <2>2. act'["late"] = act["late"] /\ ~Past(act'["counted"]) /\ UNCHANGED <<stage, reviews>>
    BY <1>1, <1>t, <2>1 DEF Start, Slots, history, Past, Idle
  <2> QED
    BY <1>0, <2>2 DEF Slots
<1>2. CASE OutOfTime
  <2>1. act'["late"] = act["counted"] /\ act'["counted"] = Idle /\ UNCHANGED <<stage, reviews>>
    BY <1>2, <1>t DEF OutOfTime, Lost
  <2>2. act["counted"].job = "fix" => overlapped'
    <3>1. overlapped' = (overlapped \/ stage = "fix")
      BY <1>2 DEF OutOfTime
    <3>2. act["counted"].job = "fix" => stage = "fix"
      BY DEF Typed, TriesOK
    <3> QED
      BY <3>1, <3>2, Zenon
  <2> QED
    BY <1>0, <1>i, <2>1, <2>2 DEF Slots, Calm
<1>3. CASE Resume \/ CiPasses
  <2>1. UNCHANGED <<act, reviews>> /\ (stage = "review" => stage' = "review")
    BY <1>3 DEF Resume, CiPasses, PlacesOK, history
  <2> QED
    BY <1>0, <2>1
<1>4. CASE Analyse \/ (\E f \in Files : PersonCommits(f)) \/ (\E c \in Blocking : PersonComments(c))
           \/ UNCHANGED vars
  <2>1. UNCHANGED <<stage, act, reviews>>
    BY <1>4 DEF Analyse, PersonCommits, PersonComments, vars, workflow, history
  <2> QED
    BY <1>0, <2>1
<1>5. ASSUME NEW a \in Slots, Step(a) \/ CallFails(a)
      PROVE  /\ act'["late"].job # "fix"
             /\ reviews' = 0 => stage' = "review"
             /\ \A b \in Slots : Past(act'[b]) =>
                  reviews' = 1 /\ stage' = "review" /\ \A d \in Slots \ {b} : ~Past(act'[d])
  <2>1. /\ \A b \in Slots \ {a} : act'[b] = act[b]
        /\ act'[a] = Idle \/ act'[a].job = act[a].job \/ act'[a].job = "none"
    BY <1>5, JobStep, IdleOK DEF Typed
  <2>2. act'["late"].job # "fix"
    BY <1>0, <1>t, <2>1, IdleOK
  <2>3. CASE Review(a)
    <3>1. reviews' = reviews + 1 /\ reviews' <= 1 /\ stage' = stage
      BY <2>3 DEF Review, workflow, Calm
    <3>2. reviews = 0 /\ reviews' = 1
      BY <1>t, <3>1
    <3>3. \A b \in Slots : ~Past(act[b])
      BY <1>0, <3>2
    <3> QED
      BY <1>0, <2>1, <2>2, <3>1, <3>2, <3>3
  <2>4. CASE ~Review(a)
    <3>1. reviews' = reviews /\ (Past(act'[a]) => Past(act[a]))
      BY <1>5, <2>4, CalmStepOf, ReviewStepOf DEF PlacesOK
    <3>2. CASE stage' = "review" \/ stage # "review"
      BY <1>0, <2>1, <2>2, <3>1, <3>2
    <3>3. CASE stage = "review" /\ stage' # "review"
      <4>1. a = "counted" /\ EndReview(a)
        <5>1. CASE stage' \notin {"review", "fix"}
          <6>1. a = "counted" /\ (EndReview(a) \/ NoBlockingNote(a) \/ EndFix(a))
            BY <1>5, <3>3, <5>1, StageStepOf
          <6>2. act["counted"].job \in {"none", "review"}
            BY <3>3 DEF Typed, TriesOK
          <6> QED
            BY <6>1, <6>2 DEF NoBlockingNote, EndFix, At
        <5>2. CASE stage' = "fix"
          BY <1>5, <3>3, <5>2, StageStepOf
        <5> QED
          BY <3>3, <5>1, <5>2
      <4>2. Past(act["counted"]) /\ act'["counted"] = Idle
        BY <1>t, <4>1 DEF EndReview, Finished, At, Past
      <4>3. reviews = 1 /\ ~Past(act["late"])
        BY <1>0, <1>t, <4>2
      <4> QED
        BY <1>i, <2>1, <2>2, <3>1, <4>1, <4>2, <4>3 DEF Slots
    <3> QED
      BY <3>2, <3>3
  <2> QED
    BY <2>3, <2>4
<1> QED
  BY <1>1, <1>2, <1>3, <1>4, <1>5 DEF Next


\* The steps of the other agents.
LEMMA OtherCases ==
  ASSUME NEW a \in Slots, act[a].job \notin {"review", "fix"}, Step(a) \/ CallFails(a)
  PROVE  \/ ReadTitles(a) \/ FileIssue(a) \/ ReadFile(a) \/ NoFix(a) \/ ReadAnalysis(a)
         \/ EndStatic(a) \/ ReadBlockingIssues(a) \/ CommitStaticFix(a) \/ EndCorrect(a)
         \/ CommitUnanswered(a) \/ CommitAgain(a) \/ Verify(a) \/ Merge(a) \/ CallFails(a)
BY DEF Step, At, Review, PostInlineComment, PostSummary, EndReview, ReadModerateNotes,
       EndFixBacklog, ReadBlockingNotes, NoBlockingNote, SkipComment, CommitFix, EndFix

\* What a moderate comment with a title of its own has changes only when its
\* note is posted or its issue is created.
LEMMA OwnStepOf ==
  ASSUME Typed, NEW a \in Slots, Step(a) \/ CallFails(a), NEW c \in Moderate, OwnTitle(c)
  PROVE  /\ notes'[c] = notes[c] \/ PostInlineComment(a)
         /\ backlog'[TitleOf[c]] = backlog[TitleOf[c]]
              \/ (FileIssue(a) /\ Creation(a, c) /\ TitleOf[c] \notin act[a].titles)
<1>1. notes'[c] = notes[c] \/ PostInlineComment(a)
  BY HistoryStepOf
<1>2. CASE FileIssue(a)
  <2>1. PICK i \in Moderate \cup Smells : Creation(a, i)
    BY <1>2, FileEffect
  <2>2. backlog \in [Titles -> Nat]
    BY DEF Typed, StateOK, SharedType
  <2>3. CASE i = c
    BY <1>1, <1>2, <2>1, <2>3 DEF Creation
  <2>4. CASE i # c
    <3>1. TitleOf[i] # TitleOf[c] /\ TitleOf[c] \in Titles
      BY <2>4 DEF OwnTitle, Titles
    <3> QED
      BY <1>1, <2>1, <2>2, <3>1 DEF Creation
  <2> QED
    BY <2>3, <2>4
<1>3. CASE UNCHANGED <<backlog, refused>>
  BY <1>1, <1>3
<1> QED
  BY <1>2, <1>3, StoreStepOf

\* An attempt that keeps its list keeps OnceBy, if what there is stays.
LEMMA OnceKept ==
  ASSUME Typed, NEW c \in Moderate, NEW r, NEW s, OnceBy(r, c), s.job = r.job,
         s.place = r.place, s.titles = r.titles, s.todo[c] = r.todo[c],
         notes'[c] = notes[c], backlog'[TitleOf[c]] = backlog[TitleOf[c]]
  PROVE  OnceBy(s, c)'
BY DEF OnceBy

\* An attempt that is over, or has just begun, has nothing of c.
LEMMA OnceIdle ==
  ASSUME NEW c \in Moderate, NEW r, r.todo = NoWork, r.place \in {"none", "read"}
  PROVE  OnceBy(r, c)'
<1>1. r.todo[c] = 0
  BY DEF NoWork, Work, Comments
<1> QED
  BY <1>1 DEF OnceBy

\* The step of an attempt that neither posts nor files keeps what it may still
\* post or file of c.
LEMMA OnceByStep ==
  ASSUME Typed, PlacesOK, NEW c \in Moderate, NEW a \in Slots, Step(a) \/ CallFails(a),
         OnceBy(act[a], c), notes[c] <= 1, ~PostInlineComment(a), ~FileIssue(a),
         reviews = 0 => notes[c] = 0 /\ backlog[TitleOf[c]] = 0,
         Review(a) => reviews = 0,
         notes'[c] = notes[c], backlog'[TitleOf[c]] = backlog[TitleOf[c]]
  PROVE  OnceBy(act[a], c)'
<1> DEFINE r == act[a]
           t == TitleOf[c]
<1>0. /\ r \in Attempt /\ act \in [Slots -> Attempt] /\ r.todo \in [Work -> Nat] /\ c \in Work
      /\ c \in Comments /\ t \in Titles /\ notes[c] \in Nat /\ backlog[t] \in Nat
      /\ c \notin Smells /\ c \notin Files /\ c \notin Blocking
  BY DEF Typed, ActOK, StateOK, SharedType, Attempt, Work, Comments, Titles
<1>1. CASE r' = Idle
  <2>1. r'.todo = NoWork /\ r'.place = "none"
    BY <1>1 DEF Idle
  <2> QED
    BY <2>1, OnceIdle
<1>2. CASE Review(a)
  <2>1. PICK got \in SUBSET Comments :
             act' = [act EXCEPT ![a].place = "post", ![a].got = got,
                                ![a].todo = Once(got \ FileLevel)]
    BY <1>2 DEF Review
  <2>2. r'.job = "review" /\ r'.place = "post" /\ r'.todo = Once(got \ FileLevel)
    <3>1. r.job = "review"
      BY <1>2 DEF Review, At
    <3> QED
      BY <1>0, <2>1, <3>1 DEF Attempt
  <2>3. r'.todo[c] \in {0, 1}
    BY <1>0, <2>2 DEF Once
  <2>4. notes'[c] = 0 /\ backlog'[t] = 0
    BY <1>2
  <2> QED
    BY <2>2, <2>3, <2>4 DEF OnceBy
<1>3. CASE PostSummary(a)
  <2>1. /\ r.job = "review" /\ r.place = "post" /\ r'.job = "review" /\ r'.place = "backlog"
        /\ r'.todo = Once(r.got \cap Moderate)
    BY <1>0, <1>3 DEF PostSummary, At, Attempt
  <2>2. r'.todo[c] \in {0, 1} /\ backlog'[t] = 0
    BY <1>0, <2>1 DEF Once, OnceBy
  <2> QED
    BY <2>1, <2>2 DEF OnceBy
<1>4. CASE ReadTitles(a)
  <2>1. PICK seen \in SUBSET {u \in Titles : backlog[u] > 0} :
             /\ (\A u \in Titles : backlog[u] > 0 => u \in seen) \/ r.job = "static"
             /\ act' = [act EXCEPT ![a].place = "backlog", ![a].titles = seen]
    BY <1>4 DEF ReadTitles
  <2>2. /\ r.place = "titles" /\ r'.place = "backlog" /\ r'.titles = seen /\ r'.todo = r.todo
        /\ r'.job = r.job
    BY <1>0, <1>4, <2>1 DEF ReadTitles, Attempt
  <2>3. r.job # "review"
    BY <2>2 DEF PlacesOK
  <2>4. CASE r.job = "fix"
    <3>1. r.todo[c] <= 1 /\ r.todo[c] \in Nat
      BY <1>0, <2>2, <2>4 DEF OnceBy
    <3>2. t \in seen \/ backlog[t] = 0
      BY <1>0, <2>1, <2>4
    <3> QED
      BY <1>0, <2>2, <2>4, <3>1, <3>2 DEF OnceBy
  <2>5. CASE r.job # "fix"
    BY <2>2, <2>3, <2>5 DEF OnceBy
  <2> QED
    BY <2>4, <2>5
<1>5. CASE ReadModerateNotes(a)
  <2>1. r'.job = "fix" /\ r'.todo = NotesOf(Moderate) /\ r'.place \in {"blocking", "titles"}
    BY <1>0, <1>5 DEF ReadModerateNotes, At, Attempt
  <2>2. r'.todo[c] = notes[c]
    BY <1>0, <2>1 DEF NotesOf
  <2> QED
    BY <2>1, <2>2 DEF OnceBy
<1>6. CASE r.job = "fix" /\ (EndFixBacklog(a) \/ ReadBlockingNotes(a) \/ SkipComment(a)
           \/ ReadFile(a) \/ CommitFix(a) \/ CommitUnanswered(a) \/ CommitAgain(a) \/ NoFix(a))
  <2>1. r'.place \in {"blocking", "fix", "rewrite", "resend"}
    <3>1. CASE EndFixBacklog(a)
      BY <1>0, <3>1 DEF EndFixBacklog, Attempt
    <3>2. CASE ReadBlockingNotes(a)
      BY <1>0, <3>2 DEF ReadBlockingNotes, Attempt
    <3>3. CASE SkipComment(a)
      BY <1>0, <3>3 DEF SkipComment, At, Attempt
    <3>4. CASE ReadFile(a)
      BY <1>0, <3>4 DEF ReadFile, Attempt
    <3>5. CASE CommitFix(a) \/ NoFix(a)
      BY <1>0, <3>5 DEF CommitFix, NoFix, Released, Attempt
    <3>6. CASE CommitUnanswered(a) \/ CommitAgain(a)
      BY <3>6, Resent
    <3> QED
      BY <1>6, <3>1, <3>2, <3>3, <3>4, <3>5, <3>6
  <2>2. r'.job \in {"fix", "none"} /\ (r'.job = "none" => r' = Idle)
    BY <1>6, JobStep, IdleOK DEF Typed
  <2> QED
    BY <1>1, <2>1, <2>2 DEF OnceBy
<1>7. CASE r.job \notin {"review", "fix"} /\ r'.todo[c] = 0 /\ r' # Idle
  <2>1. r'.job \notin {"review", "fix"}
    BY <1>7, JobStep DEF Typed
  <2> QED
    BY <1>7, <2>1 DEF OnceBy
<1>8. CASE r.job \notin {"review", "fix"} /\ r'.todo[c] # 0 /\ r' # Idle
  <2>1. r.todo[c] = 0
    BY <1>8 DEF OnceBy
  <2>2. r'.todo[c] = 0
    <3>0. CASE ReadTitles(a)
      BY <1>0, <2>1, <3>0 DEF ReadTitles, Attempt
    <3>1. CASE ReadAnalysis(a)
      <4>1. \E smells \in SUBSET Smells : r'.todo = Once(smells)
        BY <1>0, <3>1 DEF ReadAnalysis, Attempt
      <4> QED
        BY <1>0, <4>1 DEF Once
    <3>2. CASE ReadBlockingIssues(a)
      <4>1. PICK issues \in SUBSET analysed :
               act' = [act EXCEPT ![a].got = issues, ![a].place = "fix",
                                  ![a].todo = Once({FileOf[i] : i \in issues})]
        BY <3>2 DEF ReadBlockingIssues
      <4>2. analysed \subseteq Issues
        BY DEF Typed, StateOK, SharedType
      <4>3. c \notin {FileOf[i] : i \in issues}
        BY <1>0, <4>2
      <4>4. r'.todo = Once({FileOf[i] : i \in issues})
        BY <1>0, <4>1 DEF Attempt
      <4> QED
        BY <1>0, <4>3, <4>4 DEF Once
    <3>3. CASE ReadFile(a)
      <4>1. PICK i \in (Blocking \ FileLevel) \cup Files :
               act' = [act EXCEPT ![a].todo[i] = @ - 1, ![a].place = "rewrite",
                                  ![a].item = {i}, ![a].copy = FileAt(PathOf(i))]
        BY <3>3 DEF ReadFile
      <4>2. r'.todo = [r.todo EXCEPT ![i] = r.todo[i] - 1] /\ i # c
        BY <1>0, <4>1 DEF Attempt
      <4> QED
        BY <1>0, <2>1, <4>2
    <3>4. CASE NoFix(a) \/ CommitStaticFix(a)
      BY <1>0, <2>1, <3>4 DEF NoFix, CommitStaticFix, Released, Attempt
    <3>7. CASE CommitUnanswered(a) \/ CommitAgain(a)
      BY <2>1, <3>7, Resent
    <3>5. CASE EndStatic(a) \/ EndCorrect(a) \/ Merge(a) \/ CallFails(a)
      BY <1>0, <1>8, <3>5 DEF EndStatic, EndCorrect, Merge, CallFails, Finished
    <3>6. CASE Verify(a)
      <4>1. r' = Idle \/ r'.todo = r.todo
        BY <1>0, <3>6 DEF Verify, Finished, Attempt
      <4> QED
        BY <1>8, <2>1, <4>1
    <3> QED
      BY <1>8, <3>0, <3>1, <3>2, <3>3, <3>4, <3>5, <3>6, <3>7, OtherCases
  <2> QED
    BY <1>8, <2>2
<1>9. CASE EndReview(a) \/ NoBlockingNote(a) \/ EndFix(a) \/ CallFails(a)
  BY <1>0, <1>1, <1>9 DEF EndReview, NoBlockingNote, EndFix, CallFails, Finished
<1>10. CASE r.job = "review" /\ NoFix(a)
  BY <1>10 DEF PlacesOK, NoFix, At
<1> QED
  BY <1>1, <1>2, <1>3, <1>4, <1>5, <1>6, <1>7, <1>8, <1>9, <1>10, ReviewCases, FixCases


\* A note posted is one less to post.
LEMMA OncePosted ==
  ASSUME Typed, PlacesOK, AloneOK, Calm, Calm', NEW c \in Moderate, OnceOK(c),
         NEW a \in Slots, PostInlineComment(a), backlog'[TitleOf[c]] = backlog[TitleOf[c]]
  PROVE  OnceOK(c)'
<1> DEFINE t == TitleOf[c]
<1>0. /\ act \in [Slots -> Attempt] /\ act[a].todo \in [Work -> Nat] /\ c \in Work /\ c \in Comments
      /\ notes \in [Comments -> Nat] /\ backlog[t] \in Nat /\ Comments \subseteq Work
      /\ \A b \in Slots \ {a} : act'[b] = act[b]
  <2>1. Step(a)
    BY DEF Step
  <2>2. \A b \in Slots \ {a} : act'[b] = act[b]
    BY <2>1, JobStep DEF Typed
  <2>3. act \in [Slots -> Attempt] /\ act[a].todo \in [Work -> Nat]
    BY DEF Typed, ActOK, Attempt
  <2>4. notes \in [Comments -> Nat] /\ backlog[t] \in Nat
    BY DEF Typed, StateOK, SharedType, Titles
  <2> QED
    BY <2>2, <2>3, <2>4 DEF Work, Comments
<1>1. /\ notes[c] <= 1 /\ backlog[t] <= 1
      /\ \A b \in Slots : OnceBy(act[b], c)
  BY DEF OnceOK
<1>2. PICK d \in Comments, copies \in 0..2 :
           /\ Post(copies) /\ AddNotes(d, copies) /\ Has(a, d)
           /\ act' = [act EXCEPT ![a].todo[d] = @ - 1,
                                 ![a].missed = IF copies = 0 THEN @ \cup {d} ELSE @]
  BY DEF PostInlineComment
<1>3. /\ act[a].job = "review" /\ act[a].place = "post" /\ reviews' = reviews
      /\ act'[a].job = "review" /\ act'[a].place = "post"
      /\ act'[a].todo = [act[a].todo EXCEPT ![d] = act[a].todo[d] - 1]
      /\ notes' = [notes EXCEPT ![d] = notes[d] + copies] /\ act[a].todo[d] > 0
  <2>1. act[a].job = "review" /\ act[a].place = "post" /\ reviews' = reviews
    BY DEF PostInlineComment, At
  <2> QED
    BY <1>0, <1>2, <2>1 DEF Attempt, AddNotes, Has
<1>4. copies \in {0, 1}
  <2>1. doubled' = (doubled \/ copies = 2)
    BY <1>2 DEF Post
  <2>2. copies # 2
    BY <2>1, Zenon DEF Calm
  <2> QED
    BY <2>2
<1>5. reviews = 1 /\ \A b \in Slots \ {a} : ~Past(act[b])
  BY <1>3 DEF AloneOK, Past
<1>6. notes[c] + act[a].todo[c] <= 1 /\ backlog[t] = 0
  BY <1>1, <1>3 DEF OnceBy
<1>7. notes'[c] \in Nat /\ act'[a].todo[c] \in Nat /\ notes'[c] + act'[a].todo[c] <= 1
  <2>1. CASE d = c
    BY <1>0, <1>3, <1>4, <1>6, <2>1
  <2>2. CASE d # c
    BY <1>0, <1>3, <1>6, <2>2
  <2> QED
    BY <2>1, <2>2
<1>8. OnceBy(act[a], c)'
  BY <1>3, <1>6, <1>7 DEF OnceBy
<1>9. \A b \in Slots \ {a} : OnceBy(act[b], c)'
  BY <1>0, <1>1, <1>5 DEF OnceBy, Past
<1>10. notes'[c] <= 1
  BY <1>7
<1> QED
  BY <1>1, <1>3, <1>5, <1>8, <1>9, <1>10 DEF OnceOK

\* An issue created is one less to create.
LEMMA OnceCreated ==
  ASSUME Typed, PlacesOK, AloneOK, Calm, Calm', NEW c \in Moderate, OnceOK(c),
         NEW a \in Slots, FileIssue(a), notes'[c] = notes[c],
         Creation(a, c), TitleOf[c] \notin act[a].titles
  PROVE  OnceOK(c)'
<1> DEFINE t == TitleOf[c]
<1>0. /\ act \in [Slots -> Attempt] /\ act[a].todo \in [Work -> Nat] /\ c \in Work /\ c \in Comments
      /\ backlog \in [Titles -> Nat] /\ t \in Titles /\ "counted" \in Slots /\ "late" \in Slots
      /\ \A b \in Slots \ {a} : act'[b] = act[b]
  BY JobStep DEF Typed, ActOK, StateOK, SharedType, Attempt, Work, Comments, Titles, Step, Slots
<1>1. /\ notes[c] <= 1 /\ backlog[t] <= 1
      /\ \A b \in Slots : OnceBy(act[b], c)
  BY DEF OnceOK
<1>2. PICK copies \in 0..2 :
           /\ doubled' = (doubled \/ copies = 2)
           /\ backlog' = [backlog EXCEPT ![t] = backlog[t] + copies]
  BY DEF Creation
<1>3. /\ act[a].place = "backlog" /\ act[a].todo[c] > 0
      /\ act'[a] = [act[a] EXCEPT !.todo = [act[a].todo EXCEPT ![c] = act[a].todo[c] - 1]]
      /\ reviews' = reviews
  BY DEF Creation, FileIssue
<1>4. copies \in {0, 1}
  <2>1. copies # 2
    BY <1>2, Zenon DEF Calm
  <2> QED
    BY <2>1
<1>5. /\ act'[a].job = act[a].job /\ act'[a].place = "backlog" /\ act'[a].titles = act[a].titles
      /\ act'[a].todo[c] = act[a].todo[c] - 1
  BY <1>0, <1>3 DEF Attempt
<1>6. act[a].job \in {"review", "fix"}
  BY <1>1, <1>3 DEF OnceBy
<1>7. backlog[t] + act[a].todo[c] <= 1
  BY <1>1, <1>3, <1>6 DEF OnceBy
<1>8. /\ backlog'[t] \in Nat /\ act'[a].todo[c] \in Nat /\ backlog'[t] + act'[a].todo[c] <= 1
  BY <1>0, <1>2, <1>3, <1>4, <1>5, <1>7
<1>9. act'[a].todo[c] <= 1 /\ backlog'[t] <= 1
  BY <1>8
<1>10. OnceBy(act[a], c)'
  BY <1>5, <1>6, <1>8, <1>9 DEF OnceBy
<1>11. reviews # 0 /\ \A b \in Slots \ {a} : ~Past(act[b]) /\ act[b].job # "fix"
  <2>1. act["counted"].job \in {"none", stage} /\ act["late"].job # "fix"
    BY DEF Typed, TriesOK, AloneOK
  <2>2. CASE act[a].job = "review"
    <3>1. reviews = 1 /\ stage = "review" /\ \A b \in Slots \ {a} : ~Past(act[b])
      BY <1>3, <2>2 DEF AloneOK, Past
    <3> QED
      BY <2>1, <3>1 DEF Slots
  <2>3. CASE act[a].job = "fix"
    <3>1. a = "counted" /\ stage = "fix"
      BY <2>1, <2>3 DEF Slots
    <3>2. \A b \in Slots : ~Past(act[b])
      BY <3>1 DEF AloneOK
    <3> QED
      BY <2>1, <3>1, <3>2 DEF AloneOK, Slots
  <2> QED
    BY <1>6, <2>2, <2>3
<1>12. \A b \in Slots \ {a} : OnceBy(act[b], c)'
  BY <1>0, <1>1, <1>11 DEF OnceBy, Past
<1> QED
  BY <1>1, <1>3, <1>9, <1>10, <1>11, <1>12 DEF OnceOK

\* An agent's step keeps OnceOK.
LEMMA OnceStepOf ==
  ASSUME Typed, PlacesOK, AloneOK, Calm, Calm', NEW c \in Moderate, OwnTitle(c), OnceOK(c),
         NEW a \in Slots, Step(a) \/ CallFails(a)
  PROVE  OnceOK(c)'
<1> DEFINE t == TitleOf[c]
<1>0. \A b \in Slots \ {a} : act'[b] = act[b]
  BY JobStep DEF Typed
<1>1. /\ notes[c] <= 1 /\ backlog[t] <= 1
      /\ reviews = 0 => notes[c] = 0 /\ backlog[t] = 0
      /\ \A b \in Slots : OnceBy(act[b], c)
  BY DEF OnceOK
<1>2. CASE PostInlineComment(a)
  <2>1. backlog' = backlog
    BY <1>2 DEF PostInlineComment
  <2> QED
    BY <1>2, <2>1, OncePosted
<1>3. CASE Creation(a, c) /\ TitleOf[c] \notin act[a].titles /\ FileIssue(a)
  <2>1. notes' = notes
    BY <1>3 DEF FileIssue
  <2> QED
    BY <1>3, <2>1, OnceCreated
<1>4. CASE notes'[c] = notes[c] /\ backlog'[t] = backlog[t] /\ FileIssue(a)
  <2>1. PICK i \in Moderate \cup Smells : Creation(a, i)
    BY <1>4, FileEffect
  <2>2. /\ act[a].todo \in [Work -> Nat] /\ c \in Work
        /\ act'[a] = [act[a] EXCEPT !.todo = [act[a].todo EXCEPT ![i] = act[a].todo[i] - 1]]
        /\ act[a].todo[i] > 0 /\ act[a] \in Attempt /\ reviews' = reviews
    BY <1>4, <2>1 DEF Creation, Typed, ActOK, Attempt, Work, Comments, FileIssue
  <2>3. /\ act'[a].job = act[a].job /\ act'[a].place = act[a].place
        /\ act'[a].titles = act[a].titles
        /\ act'[a].todo = [act[a].todo EXCEPT ![i] = act[a].todo[i] - 1]
    BY <2>2 DEF Attempt
  <2>4. act'[a].todo[c] \in Nat /\ act[a].todo[c] \in Nat /\ act'[a].todo[c] <= act[a].todo[c]
    <3>1. CASE i = c
      BY <2>2, <2>3, <3>1
    <3>2. CASE i # c
      BY <2>2, <2>3, <3>2
    <3> QED
      BY <3>1, <3>2
  <2>5. notes[c] \in Nat /\ backlog[t] \in Nat
    BY DEF Typed, StateOK, SharedType, Comments, Titles
  <2>6. OnceBy(act[a], c)'
    BY <1>1, <1>4, <2>3, <2>4, <2>5 DEF OnceBy
  <2>7. \A b \in Slots \ {a} : OnceBy(act[b], c)'
    BY <1>0, <1>1, <1>4 DEF OnceBy
  <2> QED
    BY <1>1, <1>4, <2>2, <2>6, <2>7 DEF OnceOK
<1>5. CASE notes'[c] = notes[c] /\ backlog'[t] = backlog[t] /\ ~FileIssue(a)
           /\ ~PostInlineComment(a)
  <2>1. reviews' = reviews \/ (Review(a) /\ reviews' = reviews + 1)
    BY CalmStepOf
  <2>2. Review(a) => reviews = 0
    <3>1. reviews \in Nat /\ (Review(a) => reviews' = reviews + 1)
      BY DEF Typed, StateOK, HistoryType, Review
    <3> QED
      BY <3>1 DEF Calm
  <2>3. OnceBy(act[a], c)'
    BY <1>1, <1>5, <2>2, OnceByStep
  <2>4. \A b \in Slots \ {a} : OnceBy(act[b], c)'
    BY <1>0, <1>1, <1>5 DEF OnceBy
  <2>5. reviews' = 0 => notes'[c] = 0 /\ backlog'[t] = 0
    BY <1>1, <1>5, <2>1, <2>2
  <2> QED
    BY <1>1, <1>5, <2>3, <2>4, <2>5 DEF OnceOK
<1> QED
  BY <1>2, <1>3, <1>4, <1>5, OwnStepOf

\* Every step keeps OnceOK.
LEMMA OnceStep ==
  ASSUME Typed, PlacesOK, AloneOK, NEW c \in Moderate, OwnTitle(c), OnceOK(c), [Next]_vars
  PROVE  OnceOK(c)'
<1> SUFFICES ASSUME Calm, Calm'
             PROVE  OnceOK(c)'
  BY CalmStep DEF OnceOK
<1> DEFINE t == TitleOf[c]
<1>1. ASSUME notes'[c] = notes[c], backlog'[t] = backlog[t], reviews' = reviews,
             \A a \in Slots : \/ \E b \in Slots : act'[a] = act[b]
                              \/ act'[a].todo = NoWork /\ act'[a].place \in {"none", "read"}
      PROVE  OnceOK(c)'
  <2>1. /\ notes[c] <= 1 /\ backlog[t] <= 1
        /\ reviews = 0 => notes[c] = 0 /\ backlog[t] = 0
        /\ \A a \in Slots : OnceBy(act[a], c)
    BY DEF OnceOK
  <2>2. ASSUME NEW a \in Slots PROVE OnceBy(act[a], c)'
    <3>1. CASE \E b \in Slots : act'[a] = act[b]
      BY <1>1, <2>1, <3>1 DEF OnceBy
    <3>2. CASE act'[a].todo = NoWork /\ act'[a].place \in {"none", "read"}
      <4>1. act'[a].todo[c] = 0
        BY <3>2 DEF NoWork, Work, Comments
      <4> QED
        BY <3>2, <4>1 DEF OnceBy
    <3> QED
      BY <1>1, <3>1, <3>2
  <2> QED
    BY <1>1, <2>1, <2>2 DEF OnceOK
<1>2. CASE Start
  <2>1. \A a \in Slots : \/ act'[a] = act[a]
                         \/ act'[a].todo = NoWork /\ act'[a].place = "read"
    BY <1>2 DEF Start, Typed, ActOK, Idle
  <2> QED
    BY <1>1, <1>2, <2>1 DEF Start, shared, history
<1>3. CASE OutOfTime
  <2>1. \A a \in Slots : act'[a] = act["counted"]
                         \/ (act'[a].todo = NoWork /\ act'[a].place = "none")
    BY <1>3 DEF OutOfTime, Idle
  <2> QED
    BY <1>1, <1>3, <2>1 DEF OutOfTime, shared, Slots
<1>4. CASE Resume \/ CiPasses \/ Analyse \/ UNCHANGED vars \/ \E f \in Files : PersonCommits(f)
  <2>1. UNCHANGED <<act, notes, backlog, reviews>>
    BY <1>4 DEF Resume, CiPasses, Analyse, PersonCommits, vars, shared, history
  <2> QED
    BY <1>1, <2>1
<1>5. CASE \E d \in Blocking : PersonComments(d)
  <2>1. UNCHANGED <<act, backlog, reviews>>
    BY <1>5 DEF PersonComments, history
  <2>2. notes'[c] = notes[c]
    BY <1>5 DEF PersonComments, Typed, StateOK, SharedType, Comments
  <2> QED
    BY <1>1, <2>1, <2>2
<1>6. CASE \E a \in Slots : Step(a) \/ CallFails(a)
  <2>1. PICK a \in Slots : Step(a) \/ CallFails(a)
    BY <1>6
  <2> QED
    BY <2>1, OnceStepOf
<1> QED
  BY <1>2, <1>3, <1>4, <1>5, <1>6 DEF Next

\* One review, no request applied twice and no two review-fix at once: however
\* the creation fails, is tried again by review-fix or meets an attempt out of
\* time, a moderate comment with a title of its own has one backlog issue.
THEOREM BacklogHasOneIssue == Spec => []OneBacklogIssue
<1> DEFINE Single == /\ PlacesOK /\ AloneOK
                     /\ \A c \in Moderate : OwnTitle(c) => OnceOK(c)
<1>1. Init => Single
  <2> SUFFICES ASSUME Init PROVE Single
    OBVIOUS
  <2>1. /\ act = [a \in Slots |-> Idle] /\ stage = "review" /\ mode = "run" /\ "late" \in Slots
        /\ notes = [c \in Comments |-> 0] /\ backlog = [t \in Titles |-> 0] /\ reviews = 0
    BY DEF Init, Slots
  <2>2. Idle.job = "none" /\ ~Past(Idle) /\ \A c \in Moderate : Idle.todo[c] = 0
    BY DEF Idle, Past, NoWork, Work, Comments
  <2>3. PlacesOK /\ AloneOK
    BY <2>1, <2>2 DEF PlacesOK, AloneOK
  <2>4. ASSUME NEW c \in Moderate PROVE OnceOK(c)
    <3>1. notes[c] = 0 /\ backlog[TitleOf[c]] = 0
      BY <2>1 DEF Comments, Titles
    <3> QED
      BY <2>1, <2>2, <3>1 DEF OnceOK, OnceBy
  <2> QED
    BY <2>3, <2>4
<1>2. Typed /\ Single /\ [Next]_vars => Single'
  <2> SUFFICES ASSUME Typed, Single, [Next]_vars PROVE Single'
    OBVIOUS
  <2>1. PlacesOK' /\ AloneOK'
    BY PlacesStep, AloneStep
  <2>2. \A c \in Moderate : OwnTitle(c) => OnceOK(c)'
    BY OnceStep
  <2> QED
    BY <2>1, <2>2 DEF OwnTitle
<1>3. Single => OneBacklogIssue
  BY DEF OneBacklogIssue, OnceOK, Calm
<1> HIDE DEF Single
<1> QED
  BY <1>1, <1>2, <1>3, TypeInvariance, PTL DEF Spec

=============================================================================
