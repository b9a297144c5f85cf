--------------------------- MODULE DevAgentProofs ---------------------------
(***************************************************************************)
(* For any number of attempts, retries, fixes and mishaps: what is pushed  *)
(* is verified and what is delivered is the last attempt's work, unless    *)
(* two attempts ran at once; and a push whose attempt failed is never      *)
(* delivered.                                                              *)
(***************************************************************************)
EXTENDS DevAgent, TLAPS

\* A turn owed is a try left; only an attempt that is over has used its fixes;
\* attempts are started in their order.
BoundsOK ==
  /\ turn = "wait" => tries < MaxTries
  /\ \A a \in Attempts :
       /\ pc[a] \notin {"cleanup", "report"} => rounds[a] < MaxFixes
       /\ a > started => pc[a] = "none"

\* One attempt at a time: only what passes is committed.
VerifiedOK ==
  ~overlapped =>
    /\ flawed = {}
    /\ \A a \in Running : a = started /\ (pc[a] = "commit" => passing)

\* One attempt at a time: its commit is the last of the branch, here from the
\* commit on, at GitLab from the push on.
PushOK ==
  \A a \in Running :
    /\ pc[a] = "push" => head # <<>> /\ Last(head) = a
    /\ pc[a] = "open_mr" => remote # <<>> /\ Last(remote) = a
    /\ pc[a] \in {"cleanup", "report"} /\ outcome[a] = "ok" =>
         mr /\ remote # <<>> /\ Last(remote) = a

DeliveryOK ==
  turn = "delivered" => Running = {} /\ mr /\ remote # <<>> /\ Last(remote) = started

OwnWorkOK == ~overlapped => PushOK /\ DeliveryOK

IInv == TypeOK /\ BoundsOK /\ VerifiedOK /\ OwnWorkOK

----------------------------------------------------------------------------
(* Typing *)

USE BoundsAssumption

\* A step of a running attempt keeps types and bounds.
LEMMA TypeOfStep ==
  ASSUME TypeOK, BoundsOK, NEW a \in Attempts, Step(a) \/ CallFails(a) \/ MrReplyLost(a)
  PROVE  (TypeOK /\ BoundsOK)'
<1> USE DEF TypeOK, BoundsOK, Attempts, Places, Stopped, MayThrow, InSetup, GoTo, Throw,
            temporal, workspace, gitlab, history
<1>0. <<>> \in Seq(Attempts)
  OBVIOUS
<1>1. CASE SetupWorkspace(a)
  <2>1. pc' = [pc EXCEPT ![a] = "read"] /\ head' \in Seq(Attempts)
    BY <1>0, <1>1 DEF SetupWorkspace, Cloned
  <2> QED
    BY <1>1, <2>1 DEF SetupWorkspace
<1>12. CASE ReadIssue(a)
  BY <1>12 DEF ReadIssue
<1>2. CASE CheckoutBranch(a)
  BY <1>2 DEF CheckoutBranch
<1>3. CASE Plan(a)
  BY <1>3 DEF Plan
<1>4. CASE AgentTurn(a)
  <2>1. /\ dir' \in {"absent", "bare", "repo"}
        /\ dirty' \in BOOLEAN /\ passing' \in BOOLEAN /\ mishaps' \in 0..MaxMishaps
    BY <1>4 DEF AgentTurn, Worked, Mishap
  <2>2. CASE pc[a] = "implement"
    <3>1. pc' = [pc EXCEPT ![a] = "check"] /\ UNCHANGED <<outcome, rounds>>
      BY <1>4, <2>2 DEF AgentTurn
    <3> QED
      BY <1>4, <2>1, <3>1 DEF AgentTurn
  <2>3. CASE pc[a] = "fix"
    <3>1. rounds' = [rounds EXCEPT ![a] = @ + 1] /\ rounds[a] < MaxFixes
      BY <1>4, <2>3 DEF AgentTurn
    <3>2. CASE RoundsLeft(a)
      <4>1. pc' = [pc EXCEPT ![a] = "check"] /\ UNCHANGED outcome
        BY <1>4, <2>3, <3>2 DEF AgentTurn
      <4> QED
        BY <1>4, <2>1, <3>1, <3>2, <4>1 DEF AgentTurn, RoundsLeft
    <3>3. CASE ~RoundsLeft(a)
      <4>1. /\ pc' = [pc EXCEPT ![a] = "cleanup"]
            /\ outcome' = [outcome EXCEPT ![a] = "final"]
        BY <1>4, <2>3, <3>3 DEF AgentTurn
      <4> QED
        BY <1>4, <2>1, <3>1, <4>1 DEF AgentTurn
    <3> QED
      BY <3>2, <3>3
  <2> QED
    BY <1>4, <2>2, <2>3 DEF AgentTurn
<1>5. CASE Verify(a)
  BY <1>5 DEF Verify
<1>6. CASE Commit(a)
  <2>1. Append(head, a) \in Seq(Attempts)
    OBVIOUS
  <2> QED
    BY <1>6, <2>1 DEF Commit
<1>7. CASE Push(a)
  BY <1>7 DEF Push
<1>8. CASE CreateMergeRequest(a)
  BY <1>8 DEF CreateMergeRequest
<1>9. CASE CleanUp(a)
  <2>1. /\ dir' \in {"absent", "bare", "repo"} /\ branch' \in BOOLEAN
        /\ head' \in Seq(Attempts) /\ dirty' \in BOOLEAN /\ passing' \in BOOLEAN
    BY <1>0, <1>9 DEF CleanUp, Removed, HalfRemoved
  <2>2. turn' \in {"wait", "run", "suspended", "delivered"} /\ (turn' = "wait" => tries < MaxTries)
    BY <1>9 DEF CleanUp, Settled
  <2>3. /\ pc' = [pc EXCEPT ![a] = "done"]
        /\ rounds' = [rounds EXCEPT ![a] = 0] /\ outcome' = [outcome EXCEPT ![a] = "ok"]
        /\ UNCHANGED <<started, tries, gitlab, history>> /\ mishaps' \in 0..MaxMishaps
        /\ pc[a] # "none"
    BY <1>9 DEF CleanUp, Mishap
  <2> QED
    BY <2>1, <2>2, <2>3
<1>10. CASE CallFails(a)
  BY <1>10 DEF CallFails, Mishap
<1>11. CASE MrReplyLost(a)
  BY <1>11 DEF MrReplyLost, Mishap
<1> QED
  BY <1>1, <1>2, <1>3, <1>4, <1>5, <1>6, <1>7, <1>8, <1>9, <1>10, <1>11, <1>12 DEF Step

LEMMA TypeStep ==
  ASSUME TypeOK, BoundsOK, [Next]_vars
  PROVE  (TypeOK /\ BoundsOK)'
<1> USE DEF TypeOK, BoundsOK, Attempts, Places, Stopped, MayThrow, InSetup,
            temporal, workspace, gitlab, history
<1>1. CASE StartAttempt
  <2>1. started + 1 \in Attempts /\ pc' = [pc EXCEPT ![started + 1] = "setup"]
    BY <1>1 DEF StartAttempt
  <2>2. pc' \in [Attempts -> Places] /\ overlapped' \in BOOLEAN
    BY <1>1, <2>1 DEF StartAttempt
  <2>3. \A a \in Attempts : /\ pc'[a] \notin {"cleanup", "report"} => rounds[a] < MaxFixes
                            /\ a > started + 1 => pc'[a] = "none"
    BY <2>1
  <2> QED
    BY <1>1, <2>2, <2>3 DEF StartAttempt
<1>2. CASE Resume
  BY <1>2 DEF Resume
<1>3. CASE HeartbeatTimeout
  BY <1>3 DEF HeartbeatTimeout, Settled, Mishap
<1>4. CASE Crash
  <2>1. /\ dir' \in {"absent", "bare", "repo"} /\ branch' \in BOOLEAN
        /\ head' \in Seq(Attempts) /\ dirty' \in BOOLEAN /\ passing' \in BOOLEAN
    <3>1. <<>> \in Seq(Attempts)
      OBVIOUS
    <3> QED
      BY <1>4, <3>1 DEF Crash, Removed
  <2>2. turn' \in {"wait", "run", "suspended", "delivered"} /\ (turn' = "wait" => tries < MaxTries)
    BY <1>4 DEF Crash, Settled
  <2>3. /\ pc' \in [Attempts -> Places] /\ \A a \in Attempts : pc[a] = "none" => pc'[a] = "none"
        /\ rounds' = [a \in Attempts |-> 0] /\ outcome' = [a \in Attempts |-> "ok"]
        /\ mishaps' \in 0..MaxMishaps
        /\ UNCHANGED <<started, tries, gitlab, history>>
    BY <1>4 DEF Crash, Mishap, Running
  <2> QED
    BY <2>1, <2>2, <2>3
<1>5. CASE \E a \in Attempts : Step(a) \/ CallFails(a) \/ MrReplyLost(a)
  BY <1>5, TypeOfStep
<1>6. CASE UNCHANGED vars
  BY <1>6 DEF vars
<1> QED
  BY <1>1, <1>2, <1>3, <1>4, <1>5, <1>6 DEF Next

----------------------------------------------------------------------------
(* One attempt at a time *)

\* An attempt moves itself alone.
LEMMA MovesAlone ==
  ASSUME TypeOK, NEW a \in Attempts, Step(a) \/ CallFails(a) \/ MrReplyLost(a)
  PROVE  /\ a \in Running /\ started' = started /\ overlapped' = overlapped
         /\ pc' \in [Attempts -> Places] /\ \A b \in Attempts \ {a} : pc'[b] = pc[b]
<1> USE DEF TypeOK, Running, Stopped, GoTo, Throw, Places, MayThrow, InSetup, temporal, history
<1>1. CASE SetupWorkspace(a) \/ ReadIssue(a) \/ CheckoutBranch(a) \/ Plan(a)
  BY <1>1 DEF SetupWorkspace, ReadIssue, CheckoutBranch, Plan
<1>2. CASE AgentTurn(a)
  BY <1>2 DEF AgentTurn
<1>3. CASE Verify(a) \/ Commit(a) \/ Push(a)
  BY <1>3 DEF Verify, Commit, Push
<1>4. CASE CreateMergeRequest(a) \/ CleanUp(a) \/ CallFails(a) \/ MrReplyLost(a)
  BY <1>4 DEF CreateMergeRequest, CleanUp, CallFails, MrReplyLost
<1> QED
  BY <1>1, <1>2, <1>3, <1>4 DEF Step

\* Alone, an attempt commits only what has passed.
LEMMA VerifiedStep ==
  ASSUME TypeOK, VerifiedOK, [Next]_vars
  PROVE  VerifiedOK'
<1> USE DEF TypeOK, VerifiedOK, Running, Stopped
<1>1. CASE StartAttempt
  BY <1>1 DEF StartAttempt, Attempts, workspace
<1>2. CASE Resume \/ HeartbeatTimeout
  BY <1>2 DEF Resume, HeartbeatTimeout, workspace, history
<1>3. CASE Crash
  BY <1>3 DEF Crash, history
<1>4. ASSUME NEW a \in Attempts, Step(a) \/ CallFails(a) \/ MrReplyLost(a), ~overlapped
      PROVE  flawed' = {} /\ \A b \in Running' : b = started' /\ (pc'[b] = "commit" => passing')
  <2>1. /\ a \in Running /\ a = started /\ Running' \subseteq {a} /\ started' = started
        /\ pc' \in [Attempts -> Places]
    BY <1>4, MovesAlone
  <2> SUFFICES flawed' = {} /\ (pc'[a] = "commit" => passing')
    BY <2>1
  <2> USE DEF GoTo, Throw, history, workspace
  <2>2. CASE SetupWorkspace(a) \/ ReadIssue(a) \/ CheckoutBranch(a) \/ Plan(a)
    BY <1>4, <2>1, <2>2 DEF SetupWorkspace, ReadIssue, CheckoutBranch, Plan
  <2>3. CASE AgentTurn(a)
    BY <1>4, <2>1, <2>3 DEF AgentTurn
  <2>4. CASE Verify(a)
    BY <1>4, <2>1, <2>4 DEF Verify, Passes
  <2>5. CASE Commit(a)
    BY <1>4, <2>1, <2>5 DEF Commit
  <2>6. CASE Push(a) \/ CreateMergeRequest(a) \/ CallFails(a) \/ MrReplyLost(a)
    BY <1>4, <2>1, <2>6 DEF Push, CreateMergeRequest, CallFails, MrReplyLost
  <2>7. CASE CleanUp(a)
    BY <1>4, <2>1, <2>7 DEF CleanUp
  <2> QED
    BY <1>4, <2>2, <2>3, <2>4, <2>5, <2>6, <2>7 DEF Step
<1>5. CASE \E a \in Attempts : Step(a) \/ CallFails(a) \/ MrReplyLost(a)
  BY <1>4, <1>5, MovesAlone
<1>6. CASE UNCHANGED vars
  BY <1>6 DEF vars, temporal, workspace, history
<1> QED
  BY <1>1, <1>2, <1>3, <1>5, <1>6 DEF Next

LEMMA LastOfAppend ==
  ASSUME NEW S, NEW s \in Seq(S), NEW x \in S
  PROVE  Append(s, x) # <<>> /\ Last(Append(s, x)) = x
BY DEF Last

\* Alone, an attempt that delivers has pushed its own commit last.
LEMMA OwnWorkStep ==
  ASSUME TypeOK, VerifiedOK, OwnWorkOK, [Next]_vars
  PROVE  OwnWorkOK'
<1> USE DEF TypeOK, OwnWorkOK, PushOK, DeliveryOK, Running, Stopped
<1>1. CASE StartAttempt
  <2>1. started + 1 \in Attempts /\ pc' = [pc EXCEPT ![started + 1] = "setup"]
    BY <1>1 DEF StartAttempt, Attempts
  <2>2. ASSUME ~overlapped' PROVE PushOK'
    <3>1. Running = {} /\ Running' \subseteq {started + 1} /\ pc'[started + 1] = "setup"
      BY <1>1, <2>1, <2>2 DEF StartAttempt
    <3> QED
      BY <3>1
  <2> QED
    BY <1>1, <2>2 DEF StartAttempt
<1>2. CASE Resume
  BY <1>2 DEF Resume, workspace, gitlab, history
<1>3. CASE HeartbeatTimeout
  BY <1>3 DEF HeartbeatTimeout, Settled, workspace, gitlab, history
<1>4. CASE Crash
  BY <1>4 DEF Crash, Settled, gitlab, history
<1>5. ASSUME NEW a \in Attempts, Step(a) \/ CallFails(a) \/ MrReplyLost(a), ~overlapped
      PROVE  PushOK' /\ DeliveryOK'
  <2>1. /\ a \in Running /\ a = started /\ Running = {a} /\ Running' \subseteq {a}
        /\ started' = started /\ pc' \in [Attempts -> Places] /\ turn # "delivered"
    BY <1>5, MovesAlone DEF VerifiedOK
  <2> USE DEF GoTo, Throw, temporal, workspace, gitlab, history
  <2>2. CASE SetupWorkspace(a) \/ ReadIssue(a) \/ CheckoutBranch(a) \/ Plan(a) \/ Verify(a)
    BY <1>5, <2>1, <2>2 DEF SetupWorkspace, ReadIssue, CheckoutBranch, Plan, Verify
  <2>3. CASE AgentTurn(a)
    BY <1>5, <2>1, <2>3 DEF AgentTurn
  <2>4. CASE Commit(a)
    <3>1. Append(head, a) # <<>> /\ Last(Append(head, a)) = a
      BY LastOfAppend
    <3> QED
      BY <1>5, <2>1, <2>4, <3>1 DEF Commit
  <2>5. CASE Push(a)
    BY <1>5, <2>1, <2>5 DEF Push
  <2>6. CASE CreateMergeRequest(a) \/ CallFails(a) \/ MrReplyLost(a)
    BY <1>5, <2>1, <2>6 DEF CreateMergeRequest, CallFails, MrReplyLost
  <2>7. CASE CleanUp(a)
    <3>1. pc'[a] = "done" /\ Running' = {}
      BY <2>1, <2>7 DEF CleanUp
    <3>2. turn' = "delivered" => outcome[a] = "ok"
      BY <2>1, <2>7 DEF CleanUp, Settled
    <3> QED
      BY <1>5, <2>1, <2>7, <3>1, <3>2 DEF CleanUp
  <2> QED
    BY <1>5, <2>2, <2>3, <2>4, <2>5, <2>6, <2>7 DEF Step
<1>6. CASE \E a \in Attempts : Step(a) \/ CallFails(a) \/ MrReplyLost(a)
  BY <1>5, <1>6, MovesAlone
<1>7. CASE UNCHANGED vars
  BY <1>7 DEF vars, temporal, workspace, gitlab, history
<1> QED
  BY <1>1, <1>2, <1>3, <1>4, <1>6, <1>7 DEF Next

----------------------------------------------------------------------------

LEMMA InitIInv == Init => IInv
<1>1. Init => TypeOK
  <2>1. <<>> \in Seq(Attempts)
    OBVIOUS
  <2>2. 0 \in 0..MaxAttempts /\ 0 \in 0..MaxTries /\ 0 \in 0..MaxFixes /\ 0 \in 0..MaxMishaps
    OBVIOUS
  <2> QED
    BY <2>1, <2>2, Zenon DEF Init, TypeOK, Places, Stopped
<1>2. Init => BoundsOK /\ VerifiedOK /\ OwnWorkOK
  BY DEF Init, BoundsOK, VerifiedOK, OwnWorkOK, PushOK, DeliveryOK, Running, Stopped
<1> QED
  BY <1>1, <1>2 DEF IInv

\* The inductive invariant of the dev stage holds whatever the bounds are.
THEOREM Invariance == Spec => []IInv
<1>1. IInv /\ [Next]_vars => IInv'
  BY TypeStep, VerifiedStep, OwnWorkStep DEF IInv
<1> QED
  BY <1>1, InitIInv, PTL DEF Spec

\* Every variable of the dev stage keeps its type, and the tries, the fixes and
\* the attempts their bounds.
THEOREM TypeCorrect == Spec => []TypeOK
<1>1. IInv => TypeOK
  BY DEF IInv
<1> QED
  BY <1>1, Invariance, PTL

\* Attempts that never run at once push only what tsc and lint accepted,
\* whatever an earlier attempt left in the directory.
THEOREM OnlyVerifiedIsPushed == Spec => []PushedIsVerified
<1>1. IInv => PushedIsVerified
  BY DEF IInv, VerifiedOK, PushedIsVerified
<1> QED
  BY <1>1, Invariance, PTL

\* Attempts that never run at once deliver the commit of the last of them.
THEOREM DeliveryIsOfTheLast == Spec => []DeliveredIsTheLastAttempt
<1>1. IInv => DeliveredIsTheLastAttempt
  BY DEF IInv, OwnWorkOK, DeliveryOK, DeliveredIsTheLastAttempt
<1> QED
  BY <1>1, Invariance, PTL

----------------------------------------------------------------------------
(* Marooned pushes, whatever runs at once *)

\* The places of an attempt that has committed, which it never leaves.
Committed == {"push", "open_mr", "cleanup", "report", "done"}

\* The first commit of the branch, here and at GitLab, is that of an attempt
\* that will not commit again, and there is none without a repository.
FirstOK ==
  /\ head # <<>> => pc[head[1]] \in Committed
  /\ remote # <<>> => published /\ pc[remote[1]] \in Committed
  /\ dir # "repo" => head = <<>>

\* The branch here does not start as GitLab's does, and nothing under way can
\* deliver what was pushed.
Lost ==
  /\ turn # "delivered"
  /\ remote # <<>> /\ (head # <<>> => head[1] # remote[1])
  /\ \A a \in Attempts :
       pc[a] # "open_mr" /\ (pc[a] \in {"cleanup", "report"} => outcome[a] # "ok")

LEMMA FirstOfAppend ==
  ASSUME NEW S, NEW s \in Seq(S), NEW x \in S
  PROVE  /\ Append(s, x) # <<>>
         /\ Append(s, x)[1] = IF s = <<>> THEN x ELSE s[1]
<1>1. Len(s) \in Nat /\ (s # <<>> => Len(s) >= 1) /\ (s = <<>> => Len(s) = 0)
  OBVIOUS
<1>2. \A i \in 1..(Len(s) + 1) : Append(s, x)[i] = IF i = Len(s) + 1 THEN x ELSE s[i]
  OBVIOUS
<1> QED
  BY <1>1, <1>2

LEMMA FirstOfSeq ==
  ASSUME NEW S, NEW s \in Seq(S), s # <<>>
  PROVE  s[1] \in S /\ Len(s) \in Nat /\ Len(s) >= 1
OBVIOUS

\* A sequence with another first element does not extend one that is not empty.
LEMMA OtherFirst ==
  ASSUME NEW S, NEW s \in Seq(S), NEW t \in Seq(S), s # <<>>,
         t # <<>> => t[1] # s[1]
  PROVE  ~IsPrefix(s, t)
<1> SUFFICES ASSUME IsPrefix(s, t) PROVE FALSE
  OBVIOUS
<1>1. Len(s) >= 1 /\ Len(s) <= Len(t) /\ SubSeq(s, 1, Len(s)) = SubSeq(t, 1, Len(s))
  BY FirstOfSeq DEF IsPrefix
<1>2. SubSeq(s, 1, Len(s))[1] = s[1] /\ SubSeq(t, 1, Len(s))[1] = t[1]
  BY <1>1
<1>3. t # <<>>
  BY <1>1
<1> QED
  BY <1>1, <1>2, <1>3

\* An attempt that has committed is over or on its way to its end.
LEMMA CommittedStays ==
  ASSUME TypeOK, BoundsOK, [Next]_vars, NEW b \in Attempts, pc[b] \in Committed
  PROVE  pc'[b] \in Committed
<1> USE DEF TypeOK, Committed
<1>1. CASE StartAttempt
  <2>1. started + 1 \in Attempts /\ pc[started + 1] = "none"
    BY <1>1 DEF StartAttempt, BoundsOK, Attempts
  <2> QED
    BY <1>1, <2>1 DEF StartAttempt
<1>2. CASE Resume \/ HeartbeatTimeout \/ Crash \/ UNCHANGED vars
  BY <1>2 DEF Resume, HeartbeatTimeout, Crash, vars
<1>3. ASSUME NEW a \in Attempts, Step(a) \/ CallFails(a) \/ MrReplyLost(a)
      PROVE  pc'[b] \in Committed
  <2>1. CASE b # a
    BY <1>3, <2>1, MovesAlone
  <2> SUFFICES ASSUME b = a PROVE pc'[a] \in Committed
    BY <2>1
  <2>2. CASE Push(a) \/ CreateMergeRequest(a) \/ CleanUp(a)
    BY <2>2 DEF Push, CreateMergeRequest, CleanUp, GoTo, Throw
  <2>3. CASE CallFails(a) \/ MrReplyLost(a)
    BY <2>3 DEF CallFails, MrReplyLost, Throw
  <2>4. ~ (SetupWorkspace(a) \/ ReadIssue(a) \/ CheckoutBranch(a) \/ Plan(a)
            \/ AgentTurn(a) \/ Verify(a) \/ Commit(a))
    BY DEF SetupWorkspace, ReadIssue, CheckoutBranch, Plan, AgentTurn, Verify, Commit
  <2> QED
    BY <1>3, <2>2, <2>3, <2>4 DEF Step
<1> QED
  BY <1>1, <1>2, <1>3 DEF Next

\* What a step makes of the branch here: it stays, it goes, or an attempt at
\* "commit" adds to it and goes on to "push".
LEMMA HeadStep ==
  ASSUME TypeOK, FirstOK, [Next]_vars
  PROVE  /\ \/ head' = head
            \/ head' = <<>>
            \/ \E a \in Attempts : /\ pc[a] = "commit" /\ pc'[a] = "push"
                                   /\ head' = Append(head, a)
         /\ dir' # "repo" => head' = <<>>
<1> USE DEF workspace
<1>1. CASE StartAttempt \/ Resume \/ HeartbeatTimeout \/ UNCHANGED vars
  BY <1>1 DEF StartAttempt, Resume, HeartbeatTimeout, vars, FirstOK
<1>2. CASE Crash
  BY <1>2 DEF Crash, Removed, FirstOK
<1>3. ASSUME NEW a \in Attempts, Step(a) \/ CallFails(a) \/ MrReplyLost(a)
      PROVE  /\ \/ head' = head
                \/ head' = <<>>
                \/ pc[a] = "commit" /\ pc'[a] = "push" /\ head' = Append(head, a)
             /\ dir' # "repo" => head' = <<>>
  <2>1. CASE SetupWorkspace(a)
    BY <2>1 DEF SetupWorkspace, Cloned, FirstOK
  <2>2. CASE ReadIssue(a) \/ CheckoutBranch(a) \/ Plan(a) \/ Verify(a) \/ Push(a) \/ CreateMergeRequest(a)
    BY <2>2 DEF ReadIssue, CheckoutBranch, Plan, Verify, Push, CreateMergeRequest, FirstOK
  <2>3. CASE AgentTurn(a)
    BY <2>3 DEF AgentTurn, Worked, FirstOK
  <2>4. CASE Commit(a)
    BY <2>4 DEF Commit, GoTo, FirstOK, TypeOK
  <2>5. CASE CleanUp(a)
    BY <2>5 DEF CleanUp, Removed, HalfRemoved, FirstOK
  <2>6. CASE CallFails(a) \/ MrReplyLost(a)
    BY <2>6 DEF CallFails, MrReplyLost, FirstOK
  <2> QED
    BY <1>3, <2>1, <2>2, <2>3, <2>4, <2>5, <2>6 DEF Step
<1> QED
  BY <1>1, <1>2, <1>3 DEF Next

\* A push alone changes GitLab's branch, to what is here.
LEMMA RemoteStep ==
  ASSUME [Next]_vars
  PROVE  \/ remote' = remote /\ published' = published
         \/ /\ \E a \in Attempts : pc[a] = "push" /\ Accepted
            /\ published' = TRUE /\ remote' = head /\ head' = head
<1> USE DEF gitlab, workspace
<1>1. CASE StartAttempt \/ Resume \/ HeartbeatTimeout \/ Crash \/ UNCHANGED vars
  BY <1>1 DEF StartAttempt, Resume, HeartbeatTimeout, Crash, vars
<1>2. CASE \E a \in Attempts : Push(a)
  BY <1>2 DEF Push
<1>3. CASE \E a \in Attempts : SetupWorkspace(a) \/ ReadIssue(a) \/ CheckoutBranch(a) \/ Plan(a)
                              \/ AgentTurn(a) \/ Verify(a) \/ Commit(a)
  BY <1>3 DEF SetupWorkspace, ReadIssue, CheckoutBranch, Plan, AgentTurn, Verify, Commit
<1>4. CASE \E a \in Attempts : CreateMergeRequest(a) \/ CleanUp(a) \/ CallFails(a)
                              \/ MrReplyLost(a)
  BY <1>4 DEF CreateMergeRequest, CleanUp, CallFails, MrReplyLost
<1> QED
  BY <1>1, <1>2, <1>3, <1>4 DEF Next, Step

LEMMA FirstStep ==
  ASSUME TypeOK, BoundsOK, FirstOK, [Next]_vars
  PROVE  FirstOK'
<1>1. head # <<>> => head[1] \in Attempts
  BY FirstOfSeq DEF TypeOK
<1>2. remote # <<>> => remote[1] \in Attempts
  BY FirstOfSeq DEF TypeOK
<1>3. head' # <<>> => pc'[head'[1]] \in Committed
  <2>1. CASE head' = head
    BY <1>1, <2>1, CommittedStays DEF FirstOK
  <2>2. ASSUME NEW a \in Attempts, pc'[a] = "push", head' = Append(head, a)
        PROVE  pc'[head'[1]] \in Committed
    <3>1. head'[1] = IF head = <<>> THEN a ELSE head[1]
      BY <2>2, FirstOfAppend DEF TypeOK
    <3> QED
      BY <1>1, <2>2, <3>1, CommittedStays DEF FirstOK, Committed
  <2> QED
    BY <2>1, <2>2, HeadStep
<1>4. remote' # <<>> => published' /\ pc'[remote'[1]] \in Committed
  <2>1. CASE remote' = remote /\ published' = published
    BY <1>2, <2>1, CommittedStays DEF FirstOK
  <2>2. CASE published' = TRUE /\ remote' = head
    BY <1>1, <2>2, CommittedStays DEF FirstOK
  <2> QED
    BY <2>1, <2>2, RemoteStep
<1> QED
  BY <1>3, <1>4, HeadStep DEF FirstOK

\* GitLab refuses every push of a branch that does not start as its own.
LEMMA LostRefused ==
  ASSUME TypeOK, FirstOK, Lost
  PROVE  ~Accepted
BY OtherFirst DEF TypeOK, FirstOK, Lost, Accepted

\* What is lost stays lost.
LEMMA LostStep ==
  ASSUME TypeOK, BoundsOK, FirstOK, Lost, [Next]_vars
  PROVE  Lost'
<1>1. remote' = remote
  BY LostRefused, RemoteStep
<1>2. head' # <<>> => head'[1] # remote[1]
  <2>1. ASSUME NEW a \in Attempts, pc[a] = "commit", head' = Append(head, a)
        PROVE  head'[1] # remote[1]
    <3>1. head'[1] = IF head = <<>> THEN a ELSE head[1]
      BY <2>1, FirstOfAppend DEF TypeOK
    <3> QED
      BY <2>1, <3>1 DEF FirstOK, Committed, Lost
  <2> QED
    BY <2>1, HeadStep DEF Lost
<1>3. /\ turn' # "delivered"
      /\ \A b \in Attempts :
           pc'[b] # "open_mr" /\ (pc'[b] \in {"cleanup", "report"} => outcome'[b] # "ok")
  <2> USE DEF TypeOK, Lost, temporal
  <2>1. CASE StartAttempt
    BY <2>1 DEF StartAttempt
  <2>2. CASE Resume \/ HeartbeatTimeout \/ UNCHANGED vars
    BY <2>2 DEF Resume, HeartbeatTimeout, Settled, vars
  <2>3. CASE Crash
    BY <2>3 DEF Crash, Settled, Running, Stopped
  <2>4. ASSUME NEW a \in Attempts, Step(a) \/ CallFails(a) \/ MrReplyLost(a)
        PROVE  /\ turn' # "delivered"
               /\ \A b \in Attempts :
                    pc'[b] # "open_mr" /\ (pc'[b] \in {"cleanup", "report"} => outcome'[b] # "ok")
    <3> USE DEF GoTo, Throw
    <3>1. CASE SetupWorkspace(a) \/ ReadIssue(a) \/ CheckoutBranch(a) \/ Plan(a)
      BY <3>1 DEF SetupWorkspace, ReadIssue, CheckoutBranch, Plan
    <3>2. CASE AgentTurn(a)
      BY <3>2 DEF AgentTurn
    <3>3. CASE Verify(a) \/ Commit(a)
      BY <3>3 DEF Verify, Commit
    <3>4. CASE Push(a)
      BY <3>4, LostRefused DEF Push
    <3>5. CASE CreateMergeRequest(a) \/ MrReplyLost(a)
      BY <3>5 DEF CreateMergeRequest, MrReplyLost
    <3>6. CASE CallFails(a)
      BY <3>6 DEF CallFails
    <3>7. CASE CleanUp(a)
      BY <3>7 DEF CleanUp, Settled
    <3> QED
      BY <2>4, <3>1, <3>2, <3>3, <3>4, <3>5, <3>6, <3>7 DEF Step
  <2> QED
    BY <2>1, <2>2, <2>3, <2>4 DEF Next
<1> QED
  BY <1>1, <1>2, <1>3 DEF Lost

\* A push whose attempt then failed, with the directory gone: later attempts
\* start from main (Cloned) and cannot push over it.
Marooned ==
  /\ turn # "delivered" /\ dir # "repo"
  /\ remote # <<>>
  /\ \A a \in Running : pc[a] \notin {"open_mr", "cleanup", "report"}

\* The stage never ends well once a push is marooned.
MaroonedIsFinal == [](Marooned => [](turn # "delivered"))

\* How far ResumedStageFailsOnlyOnNewFault fails: once a push is marooned, no
\* attempt, however many retries and resumes follow and however they overlap,
\* is ever handed to the workflow, though the suspension asks for a resume.
THEOREM NothingDeliversAgain == Spec => MaroonedIsFinal
<1> DEFINE Inv == TypeOK /\ BoundsOK /\ FirstOK
<1>1. Init => Inv
  BY InitIInv DEF IInv, Init, FirstOK
<1>2. Inv /\ [Next]_vars => Inv'
  BY TypeStep, FirstStep
<1>3. Inv /\ Marooned => Lost
  BY DEF Marooned, Lost, FirstOK, TypeOK, Running, Stopped
<1>4. Inv /\ Lost /\ [Next]_vars => Lost'
  BY LostStep
<1>5. Lost => turn # "delivered"
  BY DEF Lost
<1> QED
  BY <1>1, <1>2, <1>3, <1>4, <1>5, PTL DEF Spec, MaroonedIsFinal
----------------------------------------------------------------------------
(* What the workflow is promised, whatever runs at once *)

\* The stage as the workflow sees it: it has returned once Temporal has an
\* answer, and what GitLab has of it is the branch, then the merge request.
Stage == INSTANCE DevStage WITH
  status <- CASE turn \in {"wait", "run"} -> "running"
              [] turn = "delivered" -> "returned"
              [] OTHER -> "suspended",
  work <- IF mr THEN "merge_request" ELSE IF published THEN "branch" ELSE "none"

\* A merge request is opened after the push, by any attempt, and an attempt
\* ends well only with one; what counts is an attempt of this try.
StageOK ==
  /\ turn = "run" => tries > 0
  /\ mr => published
  /\ turn = "delivered" => mr
  /\ \A a \in Attempts :
       /\ pc[a] = "open_mr" => published
       /\ pc[a] \in {"cleanup", "report"} /\ outcome[a] = "ok" => mr

\* What GitLab has is never taken back, and a push or an opened merge request
\* is that of an attempt on its way.
LEMMA GitlabStep ==
  ASSUME StageOK, [Next]_vars
  PROVE  \/ published' = published /\ mr' = mr
         \/ published' = TRUE /\ mr' = mr /\ turn' = turn /\ tries' = tries
         \/ published' = published /\ published /\ mr' = TRUE /\ turn' = turn /\ tries' = tries
<1> USE DEF gitlab, workspace, temporal
<1>1. CASE StartAttempt \/ Resume \/ HeartbeatTimeout \/ Crash \/ UNCHANGED vars
  BY <1>1 DEF StartAttempt, Resume, HeartbeatTimeout, Crash, vars
<1>2. CASE \E a \in Attempts : Push(a)
  BY <1>2 DEF Push
<1>3. CASE \E a \in Attempts : SetupWorkspace(a) \/ ReadIssue(a) \/ CheckoutBranch(a) \/ Plan(a)
                              \/ AgentTurn(a) \/ Verify(a) \/ Commit(a)
  BY <1>3 DEF SetupWorkspace, ReadIssue, CheckoutBranch, Plan, AgentTurn, Verify, Commit
<1>4. CASE \E a \in Attempts : CreateMergeRequest(a) \/ MrReplyLost(a)
  BY <1>4 DEF CreateMergeRequest, MrReplyLost, StageOK
<1>5. CASE \E a \in Attempts : CleanUp(a) \/ CallFails(a)
  BY <1>5 DEF CleanUp, CallFails
<1> QED
  BY <1>1, <1>2, <1>3, <1>4, <1>5 DEF Next, Step

\* What Temporal makes of the stage: a try, a resume, or the end of a try.
LEMMA TemporalStep ==
  ASSUME TypeOK, BoundsOK, StageOK, [Next]_vars
  PROVE  \/ UNCHANGED <<turn, tries>>
         \/ turn = "wait" /\ turn' = "run" /\ tries' = tries + 1
         \/ turn = "suspended" /\ turn' = "wait" /\ tries' = 0
         \/ /\ turn = "run" /\ tries' = tries
            /\ turn' \in {"wait", "suspended", "delivered"}
            /\ turn' = "delivered" => mr /\ mr' = mr
<1> USE DEF temporal
<1>1. CASE StartAttempt \/ Resume \/ UNCHANGED vars
  BY <1>1 DEF StartAttempt, Resume, vars
<1>2. CASE HeartbeatTimeout \/ Crash
  BY <1>2 DEF HeartbeatTimeout, Crash, Settled
<1>3. CASE \E a \in Attempts : CleanUp(a)
  <2>1. PICK a \in Attempts : CleanUp(a)
    BY <1>3
  <2>2. turn' = "delivered" /\ turn # "delivered" => outcome[a] = "ok"
    BY <2>1 DEF CleanUp, Settled
  <2>3. tries' = tries /\ mr' = mr /\ pc[a] \in {"cleanup", "report"}
    BY <2>1 DEF CleanUp, gitlab
  <2>4. turn' = turn \/ (turn = "run" /\ turn' \in {"wait", "suspended", "delivered"})
    BY <2>1 DEF CleanUp, Settled
  <2> QED
    BY <2>2, <2>3, <2>4 DEF StageOK
<1>4. CASE \E a \in Attempts : SetupWorkspace(a) \/ ReadIssue(a) \/ CheckoutBranch(a) \/ Plan(a)
                              \/ AgentTurn(a) \/ Verify(a) \/ Commit(a) \/ Push(a)
  BY <1>4 DEF SetupWorkspace, ReadIssue, CheckoutBranch, Plan, AgentTurn, Verify, Commit, Push
<1>5. CASE \E a \in Attempts : CreateMergeRequest(a) \/ CallFails(a) \/ MrReplyLost(a)
  BY <1>5 DEF CreateMergeRequest, CallFails, MrReplyLost
<1> QED
  BY <1>1, <1>2, <1>3, <1>4, <1>5 DEF Next, Step

LEMMA StageStep ==
  ASSUME TypeOK, BoundsOK, StageOK, [Next]_vars
  PROVE  StageOK'
<1>1. (published => published') /\ (mr => mr') /\ (mr' => published')
  <2>1. CASE published' = published /\ mr' = mr
    BY <2>1, Zenon DEF StageOK
  <2>2. CASE published' = TRUE /\ mr' = mr
    BY <2>2, Zenon
  <2>3. CASE published' = published /\ published /\ mr' = TRUE
    BY <2>3, Zenon
  <2> QED
    BY <2>1, <2>2, <2>3, GitlabStep
<1>2. (turn' = "run" => tries' > 0) /\ (turn' = "delivered" => mr')
  <2>1. CASE UNCHANGED <<turn, tries>>
    BY <1>1, <2>1 DEF StageOK
  <2>2. CASE turn = "wait" /\ turn' = "run" /\ tries' = tries + 1
    BY <2>2 DEF TypeOK
  <2> QED
    BY <2>1, <2>2, TemporalStep
<1>3. ASSUME NEW b \in Attempts
      PROVE  /\ pc'[b] = "open_mr" => published'
             /\ pc'[b] \in {"cleanup", "report"} /\ outcome'[b] = "ok" => mr'
  <2> USE DEF TypeOK, StageOK
  <2>1. CASE StartAttempt
    BY <1>1, <1>3, <2>1 DEF StartAttempt
  <2>2. CASE Resume \/ HeartbeatTimeout \/ UNCHANGED vars
    BY <1>1, <1>3, <2>2 DEF Resume, HeartbeatTimeout, vars
  <2>3. CASE Crash
    BY <1>1, <1>3, <2>3 DEF Crash, Running, Stopped
  <2>4. ASSUME NEW a \in Attempts, Step(a) \/ CallFails(a) \/ MrReplyLost(a)
        PROVE  /\ pc'[b] = "open_mr" => published'
               /\ pc'[b] \in {"cleanup", "report"} /\ outcome'[b] = "ok" => mr'
    <3> USE DEF GoTo, Throw
    <3>1. CASE SetupWorkspace(a) \/ ReadIssue(a) \/ CheckoutBranch(a) \/ Plan(a)
      BY <1>1, <1>3, <3>1 DEF SetupWorkspace, ReadIssue, CheckoutBranch, Plan
    <3>2. CASE AgentTurn(a)
      BY <1>1, <1>3, <3>2 DEF AgentTurn
    <3>3. CASE Verify(a) \/ Commit(a)
      BY <1>1, <1>3, <3>3 DEF Verify, Commit
    <3>4. CASE Push(a)
      BY <1>1, <1>3, <3>4 DEF Push
    <3>5. CASE CreateMergeRequest(a) \/ MrReplyLost(a)
      BY <1>1, <1>3, <3>5 DEF CreateMergeRequest, MrReplyLost
    <3>6. CASE CallFails(a)
      BY <1>1, <1>3, <3>6 DEF CallFails
    <3>7. CASE CleanUp(a)
      BY <1>1, <1>3, <3>7 DEF CleanUp
    <3> QED
      BY <2>4, <3>1, <3>2, <3>3, <3>4, <3>5, <3>6, <3>7 DEF Step
  <2> QED
    BY <2>1, <2>2, <2>3, <2>4 DEF Next
<1> QED
  BY <1>1, <1>2, <1>3 DEF StageOK

\* A step of the attempts is a step of the stage, or none.
LEMMA StageSimulation ==
  ASSUME TypeOK, BoundsOK, StageOK, [Next]_vars
  PROVE  [Stage!Next]_(Stage!vars)
<1> USE DEF Stage!Next, Stage!vars
<1>1. CASE UNCHANGED <<turn, tries>>
  <2>1. CASE published' = published /\ mr' = mr
    BY <1>1, <2>1
  <2>2. CASE published' = TRUE /\ mr' = mr
    BY <1>1, <2>2 DEF StageOK, TypeOK, Stage!Publish
  <2>3. CASE published' = published /\ published /\ mr' = TRUE
    BY <1>1, <2>3 DEF StageOK, TypeOK, Stage!Open
  <2> QED
    BY <2>1, <2>2, <2>3, GitlabStep
<1>2. CASE turn = "wait" /\ turn' = "run" /\ tries' = tries + 1
  <2>1. published' = published /\ mr' = mr
    BY <1>2, GitlabStep
  <2> QED
    BY <1>2, <2>1 DEF BoundsOK, Stage!Attempt
<1>3. CASE turn = "suspended" /\ turn' = "wait" /\ tries' = 0
  <2>1. published' = published /\ mr' = mr
    BY <1>3, GitlabStep
  <2> QED
    BY <1>3, <2>1 DEF Stage!Resume
<1>4. CASE /\ turn = "run" /\ tries' = tries
           /\ turn' \in {"wait", "suspended", "delivered"}
           /\ turn' = "delivered" => mr /\ mr' = mr
  <2>1. published' = published /\ mr' = mr
    BY <1>4, GitlabStep
  <2> QED
    BY <1>4, <2>1 DEF StageOK, Stage!Suspend, Stage!Return
<1> QED
  BY <1>1, <1>2, <1>3, <1>4, TemporalStep

\* The attempts implement the stage the workflow waits for: however they
\* fail, overlap, crash or lose answers, it asks a person after MaxTries of
\* them, and returns only with its merge request open, on a published branch.
THEOREM AttemptsImplementTheStage == Spec => Stage!Spec
<1> DEFINE Inv == TypeOK /\ BoundsOK /\ StageOK
<1>1. Init => Inv
  BY InitIInv DEF IInv, Init, StageOK
<1>2. Inv /\ [Next]_vars => Inv'
  BY TypeStep, StageStep
<1>3. Init => Stage!Init
  BY DEF Init, Stage!Init
<1>4. Inv /\ [Next]_vars => [Stage!Next]_(Stage!vars)
  BY StageSimulation
<1> QED
  BY <1>1, <1>2, <1>3, <1>4, PTL DEF Spec, Stage!Spec
=============================================================================
