--------------------------- MODULE DispatchProofs ---------------------------
(***************************************************************************)
(* Proofs about Dispatch, for every number N of calls and every registry.  *)
(*                                                                         *)
(* TypeOK is not inductive: that survivors never outgrows N rests on the   *)
(* PreToolUse pass having looked at k - 1 calls.  DispatchInv adds, part   *)
(* by part, what each pass of the batch leaves behind for the next one.    *)
(***************************************************************************)
EXTENDS Dispatch, TLAPS

Survivor(c) == \E j \in Slots : survivors[j] = c

\* The PreToolUse pass sorts the calls it has seen, each once, into survivors
\* and synthesized answers.
Sorted ==
    /\ \A c \in Calls : ~(Survivor(c) /\ c \in synthesized)
    /\ \A i, j \in Slots : survivors[i] = survivors[j] => i = j
    /\ pc = "pre" => /\ Len(survivors) < k
                     /\ \A c \in Calls : c < k <=> Survivor(c) \/ c \in synthesized
    /\ pc \in {"approve", "launch", "wait", "post"} =>
         \A c \in Calls : Survivor(c) \/ c \in synthesized

\* What is approved was allowed to be.
Authorised ==
    /\ pc = "pre" => approved = {}
    /\ \A c \in approved :
         kind[c] = "plain" \/ (kind[c] = "hitl" /\ c \in granted)

\* Goroutines exist from the launching loop on, of approved calls only, and
\* are gone when the batch looks at its results.
Workers ==
    /\ \A c \in Calls : worker[c] # "none" => c \in approved /\ Survivor(c)
    /\ pc \in {"pre", "approve"} => \A c \in Calls : worker[c] = "none"
    /\ pc = "launch" => \A j \in Slots : j >= k => worker[survivors[j]] = "none"
    /\ pc \in {"post", "returned"} => \A c \in Calls : worker[c] # "running"

\* A recorded gate panic leads to one return only.
Fatality ==
    /\ \A c \in Calls : outcomeOf[c] = "gate_panic" => fatal # None
    /\ fatal # None => \E c \in Calls : worker[c] = "done"
    /\ pc = "post" => fatal = None
    /\ pc = "returned" /\ fatal # None => returned = "gate_panic"
    /\ returned = "gate_panic" /\ fatal = None => \A c \in Calls : worker[c] = "none"
    /\ pc # "returned" => returned = "none"

\* Where each call's answer is.
Answers ==
    /\ pc # "returned" => \A c \in synthesized : results[c].id = c
    /\ pc \in {"pre", "approve"} => \A j \in Calls : slotResults[j] = NoResult
    /\ pc \in {"pre", "approve", "launch", "wait"} =>
         \A c \in Calls : c \notin synthesized => results[c] = NoResult
    /\ pc = "launch" =>
         \A j \in Slots : IF j < k /\ worker[survivors[j]] # "running"
           THEN slotResults[j].id = survivors[j] ELSE slotResults[j] = NoResult
    /\ pc = "wait" =>
         \A j \in Slots : IF worker[survivors[j]] # "running"
           THEN slotResults[j].id = survivors[j] ELSE slotResults[j] = NoResult
    /\ pc = "post" => \A c \in Calls : results[c].id = c
    /\ returned = "results" => \A c \in Calls : results[c].id = c

DispatchInv == TypeOK /\ Sorted /\ Authorised /\ Workers /\ Fatality /\ Answers

-----------------------------------------------------------------------------
(* Facts about the operators                                               *)

LEMMA SurvivorsAreCalls ==
    ASSUME survivors \in Seq(Calls)
    PROVE  /\ \A j \in Slots : survivors[j] \in Calls
           /\ \A c : c \in ToSet(survivors) <=> Survivor(c)
           /\ ToSet(survivors) \subseteq Calls
  BY DEF Slots, Survivor, ToSet

\* What dispatch returned for a surviving call, put back at its position.
LEMMA MergedIsAligned ==
    ASSUME TypeOK, Sorted, NEW c \in Calls
    PROVE  /\ Merged[c] \in ToolResult
           /\ ~Survivor(c) => Merged[c] = results[c]
           /\ \A j \in Slots : survivors[j] = c => Merged[c] = slotResults[j]
  <1>1. \A j \in Slots : j \in Calls /\ slotResults[j] \in ToolResult
    BY DispatchAssumption DEF TypeOK, Slots, Calls
  <1>2. CASE ~Survivor(c)
    <2>1. Merged[c] = results[c]
      BY <1>2, SurvivorsAreCalls DEF Merged, TypeOK
    <2> QED
      BY <1>2, <2>1 DEF TypeOK, Survivor
  <1>3. ASSUME NEW j \in Slots, survivors[j] = c
        PROVE  Merged[c] = slotResults[j]
    <2>1. c \in ToSet(survivors)
      BY <1>3, SurvivorsAreCalls DEF TypeOK, Survivor
    <2>2. (CHOOSE i \in Slots : survivors[i] = c) = j
      BY <1>3 DEF Sorted
    <2> QED
      BY <2>1, <2>2 DEF Merged
  <1> QED
    BY <1>1, <1>2, <1>3 DEF Survivor

-----------------------------------------------------------------------------
(* DispatchInv is an inductive invariant                                   *)

LEMMA InitInv == Init => DispatchInv
  BY DispatchAssumption
     DEF Init, DispatchInv, TypeOK, Sorted, Authorised, Workers, Fatality, Answers,
         Survivor, Slots, Calls, None, NoResult, Result, ToolResult, Sources, Outcomes

\* The types; the length of survivors rests on Sorted.
LEMMA TypeOKStep == DispatchInv /\ [Next]_vars => TypeOK'
  <1> SUFFICES ASSUME DispatchInv, [Next]_vars PROVE TypeOK'
    OBVIOUS
  <1> USE DispatchAssumption DEF DispatchInv, TypeOK, Sorted, Survivor, Slots, Calls, None, NoResult, Result, ToolResult, Sources, Outcomes
  <1>1. CASE PrePasses
    BY <1>1 DEF PrePasses
  <1>2. CASE PreSubstitutes
    BY <1>2 DEF PreSubstitutes
  <1>3. CASE PreAborts
    BY <1>3 DEF PreAborts, Return
  <1>4. CASE PreDone
    <2>1. {c \in ToSet(survivors) : kind[c] = "plain"} \subseteq Calls
      BY SurvivorsAreCalls
    <2>2. approved' \subseteq Calls
      BY <1>4, <2>1 DEF PreDone
    <2>3. pc' \in {"post", "approve"} /\ k' = 1 /\ 1 \in 1..N + 1
      BY <1>4 DEF PreDone, GoTo
    <2>4. UNCHANGED <<kind, survivors, worker, slotResults, results, fatal, returned,
                      synthesized, granted, outcomeOf>>
      BY <1>4 DEF PreDone
    <2> QED
      BY <2>2, <2>3, <2>4
  <1>5. CASE NoApprovalNeeded
    BY <1>5 DEF NoApprovalNeeded
  <1>6. CASE Approve
    <2>1. survivors[k] \in Calls
      BY <1>6, SurvivorsAreCalls DEF Approve, Asking
    <2>2. approved' \in SUBSET Calls
      BY <1>6, <2>1 DEF Approve
    <2>3. k' \in 1..N + 1
      BY <1>6 DEF Approve, Asking
    <2> QED
      BY <1>6, <2>2, <2>3 DEF Approve
  <1>7. CASE Deny
    <2>1. survivors[k] \in Calls
      BY <1>7, SurvivorsAreCalls DEF Deny, Asking
    <2>2. approved' \in SUBSET Calls
      BY <1>7, <2>1 DEF Deny
    <2>3. k' \in 1..N + 1
      BY <1>7 DEF Deny, Asking
    <2> QED
      BY <1>7, <2>2, <2>3 DEF Deny
  <1>8. CASE GatePanics
    BY <1>8 DEF GatePanics, Asking, Return
  <1>9. CASE ApprovalsDone
    BY <1>9 DEF ApprovalsDone, GoTo
  <1>10. CASE AnswerUnrun
    BY <1>10 DEF AnswerUnrun, Cleared
  <1>11. CASE Launch
    BY <1>11 DEF Launch, Cleared
  <1>12. CASE LaunchDone
    BY <1>12 DEF LaunchDone
  <1>13. CASE Collect
    <2>1. results' \in [Calls -> ToolResult]
      <3>1. \A c \in Calls : Merged[c] \in ToolResult
        BY MergedIsAligned
      <3>2. Merged = [c \in Calls |-> Merged[c]]
        BY DEF Merged
      <3> QED
        BY <1>13, <3>1, <3>2 DEF Collect
    <2> QED
      BY <1>13, <2>1 DEF Collect, GoTo
  <1>14. CASE CollectFatal
    BY <1>14 DEF CollectFatal, Return, AllDone
  <1>15. CASE PostKeeps
    BY <1>15 DEF PostKeeps
  <1>16. CASE PostModifies
    BY <1>16 DEF PostModifies
  <1>17. CASE PostAborts
    BY <1>17 DEF PostAborts, Return
  <1>18. CASE PostDone
    BY <1>18 DEF PostDone, Return
  <1>19. ASSUME NEW c \in Calls, ToolEnds(c) PROVE TypeOK'
    BY <1>19 DEF ToolEnds, Recorded, Fatal, ToolOutcomes
  <1>20. CASE UNCHANGED vars
    BY <1>20 DEF vars
  <1> QED
    BY <1>1, <1>2, <1>3, <1>4, <1>5, <1>6, <1>7, <1>8, <1>9, <1>10, <1>11, <1>12, <1>13, <1>14, <1>15, <1>16, <1>17, <1>18, <1>19, <1>20 DEF Next, RunStep

\* The PreToolUse pass is the only one that sorts.
LEMMA SortedStep == DispatchInv /\ [Next]_vars => Sorted'
  <1> SUFFICES ASSUME DispatchInv, [Next]_vars PROVE Sorted'
    OBVIOUS
  <1> USE DispatchAssumption DEF DispatchInv, TypeOK, Sorted, Survivor, Slots, Calls
  <1>1. CASE PrePasses
    <2>1. /\ Len(survivors') = Len(survivors) + 1
          /\ survivors'[Len(survivors) + 1] = k
          /\ \A j \in Slots : survivors'[j] = survivors[j]
          /\ pc = "pre" /\ k \in Calls
      BY <1>1 DEF PrePasses
    <2>2. Slots' = Slots \cup {Len(survivors) + 1} /\ Len(survivors) + 1 \notin Slots
      BY <2>1
    <2>3. \A c \in Calls : Survivor(c)' <=> Survivor(c) \/ c = k
      <3> HIDE DEF Slots, Calls
      <3> QED
        BY <2>1, <2>2
    <2>4. ~Survivor(k) /\ k \notin synthesized
      BY <2>1
    <2>5. \A i, j \in Slots' : survivors'[i] = survivors'[j] => i = j
      <3> HIDE DEF Slots, Calls, TypeOK
      <3> QED
        BY <2>1, <2>2, <2>4
    <2>6. \A c \in Calls : c < k' <=> c < k \/ c = k
      BY <1>1 DEF PrePasses
    <2>7. synthesized' = synthesized /\ pc' = "pre" /\ Len(survivors') < k'
      BY <1>1, <2>1 DEF PrePasses
    <2> QED
      <3> HIDE DEF Slots, Calls, TypeOK, Survivor
      <3> QED
        BY <2>1, <2>3, <2>4, <2>5, <2>6, <2>7
  <1>2. CASE PreSubstitutes
    BY <1>2 DEF PreSubstitutes
  <1>3. CASE PreAborts
    BY <1>3 DEF PreAborts, Return
  <1>4. CASE PreDone
    BY <1>4, SurvivorsAreCalls DEF PreDone, GoTo
  <1>5. CASE NoApprovalNeeded
    BY <1>5 DEF NoApprovalNeeded
  <1>6. CASE Approve
    BY <1>6, SurvivorsAreCalls DEF Approve, Asking
  <1>7. CASE Deny
    BY <1>7, SurvivorsAreCalls DEF Deny, Asking
  <1>8. CASE GatePanics
    BY <1>8 DEF GatePanics, Asking, Return
  <1>9. CASE ApprovalsDone
    BY <1>9 DEF ApprovalsDone, GoTo
  <1>10. CASE AnswerUnrun
    BY <1>10 DEF AnswerUnrun, Cleared
  <1>11. CASE Launch
    BY <1>11 DEF Launch, Cleared
  <1>12. CASE LaunchDone
    BY <1>12 DEF LaunchDone
  <1>13. CASE Collect
    BY <1>13, MergedIsAligned DEF Collect, GoTo, AllDone
  <1>14. CASE CollectFatal
    BY <1>14 DEF CollectFatal, Return, AllDone
  <1>15. CASE PostKeeps
    BY <1>15 DEF PostKeeps
  <1>16. CASE PostModifies
    BY <1>16 DEF PostModifies
  <1>17. CASE PostAborts
    BY <1>17 DEF PostAborts, Return
  <1>18. CASE PostDone
    BY <1>18 DEF PostDone, Return
  <1>19. ASSUME NEW c \in Calls, ToolEnds(c) PROVE Sorted'
    <2>1. UNCHANGED <<pc, k, survivors, synthesized, approved>>
      BY <1>19 DEF ToolEnds
    <2> QED
      BY <2>1
  <1>20. CASE UNCHANGED vars
    BY <1>20 DEF vars
  <1> QED
    BY <1>1, <1>2, <1>3, <1>4, <1>5, <1>6, <1>7, <1>8, <1>9, <1>10, <1>11, <1>12, <1>13, <1>14, <1>15, <1>16, <1>17, <1>18, <1>19, <1>20 DEF Next, RunStep

\* Approvals are given by the registry and by the callback.
LEMMA AuthorisedStep == DispatchInv /\ [Next]_vars => Authorised'
  <1> SUFFICES ASSUME DispatchInv, [Next]_vars PROVE Authorised'
    OBVIOUS
  <1> USE DispatchAssumption DEF DispatchInv, TypeOK, Sorted, Authorised, Survivor, Slots, Calls
  <1>1. CASE PrePasses
    BY <1>1 DEF PrePasses
  <1>2. CASE PreSubstitutes
    BY <1>2 DEF PreSubstitutes
  <1>3. CASE PreAborts
    BY <1>3 DEF PreAborts, Return
  <1>4. CASE PreDone
    BY <1>4, SurvivorsAreCalls DEF PreDone, GoTo
  <1>5. CASE NoApprovalNeeded
    BY <1>5 DEF NoApprovalNeeded
  <1>6. CASE Approve
    BY <1>6, SurvivorsAreCalls DEF Approve, Asking
  <1>7. CASE Deny
    BY <1>7, SurvivorsAreCalls DEF Deny, Asking
  <1>8. CASE GatePanics
    BY <1>8 DEF GatePanics, Asking, Return
  <1>9. CASE ApprovalsDone
    BY <1>9 DEF ApprovalsDone, GoTo
  <1>10. CASE AnswerUnrun
    BY <1>10 DEF AnswerUnrun, Cleared
  <1>11. CASE Launch
    BY <1>11 DEF Launch, Cleared
  <1>12. CASE LaunchDone
    BY <1>12 DEF LaunchDone
  <1>13. CASE Collect
    BY <1>13, MergedIsAligned DEF Collect, GoTo, AllDone
  <1>14. CASE CollectFatal
    BY <1>14 DEF CollectFatal, Return, AllDone
  <1>15. CASE PostKeeps
    BY <1>15 DEF PostKeeps
  <1>16. CASE PostModifies
    BY <1>16 DEF PostModifies
  <1>17. CASE PostAborts
    BY <1>17 DEF PostAborts, Return
  <1>18. CASE PostDone
    BY <1>18 DEF PostDone, Return
  <1>19. ASSUME NEW c \in Calls, ToolEnds(c) PROVE Authorised'
    BY <1>19 DEF ToolEnds, Recorded, Fatal, ToolOutcomes
  <1>20. CASE UNCHANGED vars
    BY <1>20 DEF vars
  <1> QED
    BY <1>1, <1>2, <1>3, <1>4, <1>5, <1>6, <1>7, <1>8, <1>9, <1>10, <1>11, <1>12, <1>13, <1>14, <1>15, <1>16, <1>17, <1>18, <1>19, <1>20 DEF Next, RunStep

\* Goroutines start in the launching loop and end before the wait does.
LEMMA WorkersStep == DispatchInv /\ [Next]_vars => Workers'
  <1> SUFFICES ASSUME DispatchInv, [Next]_vars PROVE Workers'
    OBVIOUS
  <1> USE DispatchAssumption DEF DispatchInv, TypeOK, Sorted, Authorised, Workers, Survivor, Slots, Calls
  <1>1. CASE PrePasses
    BY <1>1 DEF PrePasses
  <1>2. CASE PreSubstitutes
    BY <1>2 DEF PreSubstitutes
  <1>3. CASE PreAborts
    BY <1>3 DEF PreAborts, Return
  <1>4. CASE PreDone
    BY <1>4, SurvivorsAreCalls DEF PreDone, GoTo
  <1>5. CASE NoApprovalNeeded
    BY <1>5 DEF NoApprovalNeeded
  <1>6. CASE Approve
    BY <1>6, SurvivorsAreCalls DEF Approve, Asking
  <1>7. CASE Deny
    BY <1>7, SurvivorsAreCalls DEF Deny, Asking
  <1>8. CASE GatePanics
    BY <1>8 DEF GatePanics, Asking, Return
  <1>9. CASE ApprovalsDone
    BY <1>9 DEF ApprovalsDone, GoTo
  <1>10. CASE AnswerUnrun
    BY <1>10 DEF AnswerUnrun, Cleared
  <1>11. CASE Launch
    BY <1>11 DEF Launch, Cleared
  <1>12. CASE LaunchDone
    BY <1>12 DEF LaunchDone
  <1>13. CASE Collect
    BY <1>13, MergedIsAligned DEF Collect, GoTo, AllDone
  <1>14. CASE CollectFatal
    BY <1>14 DEF CollectFatal, Return, AllDone
  <1>15. CASE PostKeeps
    BY <1>15 DEF PostKeeps
  <1>16. CASE PostModifies
    BY <1>16 DEF PostModifies
  <1>17. CASE PostAborts
    BY <1>17 DEF PostAborts, Return
  <1>18. CASE PostDone
    BY <1>18 DEF PostDone, Return
  <1>19. ASSUME NEW c \in Calls, ToolEnds(c) PROVE Workers'
    BY <1>19 DEF ToolEnds, Recorded, Fatal, ToolOutcomes
  <1>20. CASE UNCHANGED vars
    BY <1>20 DEF vars
  <1> QED
    BY <1>1, <1>2, <1>3, <1>4, <1>5, <1>6, <1>7, <1>8, <1>9, <1>10, <1>11, <1>12, <1>13, <1>14, <1>15, <1>16, <1>17, <1>18, <1>19, <1>20 DEF Next, RunStep

\* A gate panic is recorded by a goroutine and acted on after the wait.
LEMMA FatalityStep == DispatchInv /\ [Next]_vars => Fatality'
  <1> SUFFICES ASSUME DispatchInv, [Next]_vars PROVE Fatality'
    OBVIOUS
  <1> USE DispatchAssumption DEF DispatchInv, TypeOK, Workers, Fatality, Survivor, Slots, Calls, None
  <1>1. CASE PrePasses
    BY <1>1 DEF PrePasses
  <1>2. CASE PreSubstitutes
    BY <1>2 DEF PreSubstitutes
  <1>3. CASE PreAborts
    BY <1>3 DEF PreAborts, Return
  <1>4. CASE PreDone
    BY <1>4, SurvivorsAreCalls DEF PreDone, GoTo
  <1>5. CASE NoApprovalNeeded
    BY <1>5 DEF NoApprovalNeeded
  <1>6. CASE Approve
    BY <1>6, SurvivorsAreCalls DEF Approve, Asking
  <1>7. CASE Deny
    BY <1>7, SurvivorsAreCalls DEF Deny, Asking
  <1>8. CASE GatePanics
    BY <1>8 DEF GatePanics, Asking, Return
  <1>9. CASE ApprovalsDone
    BY <1>9 DEF ApprovalsDone, GoTo
  <1>10. CASE AnswerUnrun
    BY <1>10 DEF AnswerUnrun, Cleared
  <1>11. CASE Launch
    BY <1>11 DEF Launch, Cleared
  <1>12. CASE LaunchDone
    BY <1>12 DEF LaunchDone
  <1>13. CASE Collect
    BY <1>13, MergedIsAligned DEF Collect, GoTo, AllDone
  <1>14. CASE CollectFatal
    BY <1>14 DEF CollectFatal, Return, AllDone
  <1>15. CASE PostKeeps
    BY <1>15 DEF PostKeeps
  <1>16. CASE PostModifies
    BY <1>16 DEF PostModifies
  <1>17. CASE PostAborts
    BY <1>17 DEF PostAborts, Return
  <1>18. CASE PostDone
    BY <1>18 DEF PostDone, Return
  <1>19. ASSUME NEW c \in Calls, ToolEnds(c) PROVE Fatality'
    BY <1>19 DEF ToolEnds, Recorded, Fatal, ToolOutcomes
  <1>20. CASE UNCHANGED vars
    BY <1>20 DEF vars
  <1> QED
    BY <1>1, <1>2, <1>3, <1>4, <1>5, <1>6, <1>7, <1>8, <1>9, <1>10, <1>11, <1>12, <1>13, <1>14, <1>15, <1>16, <1>17, <1>18, <1>19, <1>20 DEF Next, RunStep

\* Each answer is written at the position of its call, once.
LEMMA AnswersStep == DispatchInv /\ [Next]_vars => Answers'
  <1> SUFFICES ASSUME DispatchInv, [Next]_vars PROVE Answers'
    OBVIOUS
  <1> USE DispatchAssumption DEF DispatchInv, TypeOK, Sorted, Workers, Fatality, Answers, Survivor, Slots, Calls, None, NoResult, Result
  <1>1. CASE PrePasses
    BY <1>1 DEF PrePasses
  <1>2. CASE PreSubstitutes
    BY <1>2 DEF PreSubstitutes
  <1>3. CASE PreAborts
    BY <1>3 DEF PreAborts, Return
  <1>4. CASE PreDone
    <2>1. survivors = <<>> => ~\E c \in Calls : Survivor(c)
      OBVIOUS
    <2> QED
      BY <1>4, <2>1 DEF PreDone, GoTo
  <1>5. CASE NoApprovalNeeded
    BY <1>5 DEF NoApprovalNeeded
  <1>6. CASE Approve
    BY <1>6, SurvivorsAreCalls DEF Approve, Asking
  <1>7. CASE Deny
    BY <1>7, SurvivorsAreCalls DEF Deny, Asking
  <1>8. CASE GatePanics
    BY <1>8 DEF GatePanics, Asking, Return
  <1>9. CASE ApprovalsDone
    BY <1>9 DEF ApprovalsDone, GoTo
  <1>10. CASE AnswerUnrun
    BY <1>10 DEF AnswerUnrun, Cleared
  <1>11. CASE Launch
    BY <1>11 DEF Launch, Cleared
  <1>12. CASE LaunchDone
    BY <1>12 DEF LaunchDone
  <1>13. CASE Collect
    <2>1. \A c \in Calls : results'[c] = Merged[c]
      BY <1>13 DEF Collect
    <2>2. \A j \in Slots : slotResults[j].id = survivors[j]
      BY <1>13, SurvivorsAreCalls DEF Collect, AllDone
    <2>3. \A c \in Calls : Merged[c].id = c
      <3> TAKE c \in Calls
      <3>1. CASE Survivor(c)
        <4>1. PICK j \in Slots : survivors[j] = c
          BY <3>1
        <4>2. Merged[c] = slotResults[j]
          <5>1. \A i \in Slots : survivors[i] = c => Merged[c] = slotResults[i]
            BY MergedIsAligned
          <5> QED
            BY <4>1, <5>1
        <4> QED
          BY <4>1, <4>2, <2>2
      <3>2. CASE ~Survivor(c)
        BY <3>2, <1>13, MergedIsAligned DEF Collect
      <3> QED
        BY <3>1, <3>2
    <2> QED
      BY <1>13, <2>1, <2>3 DEF Collect, GoTo
  <1>14. CASE CollectFatal
    BY <1>14 DEF CollectFatal, Return, AllDone
  <1>15. CASE PostKeeps
    BY <1>15 DEF PostKeeps
  <1>16. CASE PostModifies
    BY <1>16 DEF PostModifies
  <1>17. CASE PostAborts
    BY <1>17 DEF PostAborts, Return
  <1>18. CASE PostDone
    BY <1>18 DEF PostDone, Return
  <1>19. ASSUME NEW c \in Calls, ToolEnds(c) PROVE Answers'
    <2>1. worker[c] = "running" /\ pc \in {"launch", "wait"}
      BY <1>19 DEF ToolEnds
    <2>2. PICK o \in ToolOutcomes, j \in Slots :
            survivors[j] = c /\ slotResults' = [slotResults EXCEPT ![j] = Recorded(c, o)]
      <3> HIDE DEF DispatchInv, TypeOK, Sorted, Authorised, Workers, Fatality, Answers, Slots
      <3> QED
        BY <1>19 DEF ToolEnds
    <2>3. Recorded(c, o).id = c
      BY DEF Recorded
    <2>4. /\ worker' = [worker EXCEPT ![c] = "done"]
          /\ UNCHANGED <<pc, k, survivors, results, returned, synthesized>>
      BY <1>19 DEF ToolEnds
    <2>5. slotResults'[j].id = survivors[j] /\ worker'[survivors[j]] = "done"
      BY <2>2, <2>3, <2>4
    <2>6. ASSUME NEW i \in Slots, i # j
          PROVE  /\ slotResults'[i] = slotResults[i]
                 /\ worker'[survivors[i]] = worker[survivors[i]]
      <3>1. survivors[i] # c
        BY <2>2, <2>6
      <3> QED
        BY <2>2, <2>4, <2>6, <3>1
    <2>7. pc = "launch" => j < k
      <3>1. j \in Nat /\ k \in Nat /\ worker[survivors[j]] = "running"
        BY <2>1, <2>2
      <3>2. pc = "launch" => ~(j >= k)
        BY <3>1
      <3> HIDE DEF DispatchInv, TypeOK, Sorted, Authorised, Workers, Fatality, Answers
      <3> QED
        BY <3>1, <3>2
    <2>8. Slots' = Slots
      BY <2>4
    <2>9. pc = "launch" =>
            \A i \in Slots : IF i < k /\ worker'[survivors[i]] # "running"
              THEN slotResults'[i].id = survivors[i] ELSE slotResults'[i] = NoResult
      <3> HIDE DEF Slots
      <3>1. pc = "launch" =>
              \A i \in Slots : IF i < k /\ worker[survivors[i]] # "running"
                THEN slotResults[i].id = survivors[i] ELSE slotResults[i] = NoResult
        OBVIOUS
      <3> HIDE DEF DispatchInv, TypeOK, Sorted, Authorised, Workers, Fatality, Answers
      <3> QED
        BY <3>1, <2>5, <2>6, <2>7
    <2>10. pc = "wait" =>
             \A i \in Slots : IF worker'[survivors[i]] # "running"
               THEN slotResults'[i].id = survivors[i] ELSE slotResults'[i] = NoResult
      <3> HIDE DEF Slots
      <3>1. pc = "wait" =>
              \A i \in Slots : IF worker[survivors[i]] # "running"
                THEN slotResults[i].id = survivors[i] ELSE slotResults[i] = NoResult
        OBVIOUS
      <3> HIDE DEF DispatchInv, TypeOK, Sorted, Authorised, Workers, Fatality, Answers
      <3> QED
        BY <3>1, <2>5, <2>6
    <2>11. returned = "none" /\ (\A d \in Calls : d \notin synthesized => results[d] = NoResult)
           /\ \A d \in synthesized : results[d].id = d
      BY <2>1
    <2> QED
      <3> HIDE DEF DispatchInv, TypeOK, Sorted, Authorised, Workers, Fatality, Slots
      <3> QED
        BY <2>1, <2>4, <2>8, <2>9, <2>10, <2>11 DEF Answers
  <1>20. CASE UNCHANGED vars
    BY <1>20 DEF vars
  <1> QED
    BY <1>1, <1>2, <1>3, <1>4, <1>5, <1>6, <1>7, <1>8, <1>9, <1>10, <1>11, <1>12, <1>13, <1>14, <1>15, <1>16, <1>17, <1>18, <1>19, <1>20 DEF Next, RunStep

-----------------------------------------------------------------------------
(* The theorems                                                            *)

\* DispatchInv, and with it every part of it, holds throughout a batch.
THEOREM Invariance == Spec => []DispatchInv
  <1>1. DispatchInv /\ [Next]_vars => DispatchInv'
    BY TypeOKStep, SortedStep, AuthorisedStep, WorkersStep, FatalityStep, AnswersStep
       DEF DispatchInv
  <1> QED
    BY InitInv, <1>1, PTL DEF Spec

\* The variables of a batch keep their types (executeToolBatch and dispatch).
THEOREM Typing == Spec => []TypeOK
  BY Invariance, PTL DEF DispatchInv

\* No tool runs that is unknown, answered by a hook, or HITL-flagged and not
\* approved (dispatch.go:86-122).
THEOREM Gating == Spec => []OnlyClearedCallsRun
  <1>1. DispatchInv => OnlyClearedCallsRun
    BY SurvivorsAreCalls
       DEF DispatchInv, TypeOK, Sorted, Authorised, Workers, OnlyClearedCallsRun
  <1> QED
    BY Invariance, <1>1, PTL

\* A panic of the approval callback leaves no tool of the batch run, and a gate
\* panic surfaced by a tool is fatal once every tool has ended
\* (dispatch.go:97-113, 203-213).
THEOREM GateFailure ==
    Spec => []BrokenGateIsFatal
  <1>1. DispatchInv => BrokenGateIsFatal
    BY DEF DispatchInv, Workers, Fatality, BrokenGateIsFatal
  <1> QED
    BY Invariance, <1>1, PTL

\* Each call of the batch gets the result that names it (agent.go:614-616).
THEOREM Alignment == Spec => []AnswersAligned
  <1>1. DispatchInv => AnswersAligned
    BY DEF DispatchInv, Answers, AnswersAligned
  <1> QED
    BY Invariance, <1>1, PTL

-----------------------------------------------------------------------------
(* What the model is told                                                  *)

\* What became of a call that no hook answered.
Verdict(c) ==
    IF kind[c] = "unknown" THEN "unknown"
    ELSE IF kind[c] = "hitl" /\ c \notin granted THEN "denied"
    ELSE CASE outcomeOf[c] = "ok"    -> "tool"
           [] outcomeOf[c] = "panic" -> "panic"
           [] OTHER                  -> "error"

\* Past the approvals, what was allowed is approved: a denial is of its own call.
Permitted ==
    /\ pc = "pre" => granted = {}
    /\ pc = "approve" => \A j \in Slots : j >= k => survivors[j] \notin granted
    /\ pc \in {"approve", "launch", "wait"} =>
         \A j \in Slots : kind[survivors[j]] = "plain" \/ survivors[j] \in granted
                            => survivors[j] \in approved

Told ==
    /\ pc # "returned" => \A c \in synthesized : results[c].from = "hook"
    /\ pc = "launch" =>
         \A j \in Slots : j < k /\ worker[survivors[j]] # "running"
           => slotResults[j].from = Verdict(survivors[j])
    /\ pc = "wait" =>
         \A j \in Slots : worker[survivors[j]] # "running"
           => slotResults[j].from = Verdict(survivors[j])
    /\ pc = "post" \/ returned = "results" =>
         \A c \in Calls : results[c].from \in {"hook", Verdict(c)}

LEMMA VerdictKept ==
    ASSUME UNCHANGED <<kind, granted, outcomeOf>>
    PROVE  \A c : Verdict(c)' = Verdict(c)
  BY DEF Verdict

LEMMA VerdictUnrun ==
    ASSUME NEW c, kind[c] = "unknown" \/ (kind[c] = "hitl" /\ c \notin granted)
    PROVE  Verdict(c) = IF kind[c] = "unknown" THEN "unknown" ELSE "denied"
  BY DEF Verdict

LEMMA PermittedStep == DispatchInv /\ Permitted /\ [Next]_vars => Permitted'
  <1> SUFFICES ASSUME DispatchInv, Permitted, [Next]_vars PROVE Permitted'
    OBVIOUS
  <1> USE DispatchAssumption DEF DispatchInv, TypeOK, Sorted, Permitted, Survivor, Slots, Calls
  <1>1. CASE PrePasses
    BY <1>1 DEF PrePasses
  <1>2. CASE PreSubstitutes
    BY <1>2 DEF PreSubstitutes
  <1>3. CASE PreAborts
    BY <1>3 DEF PreAborts, Return
  <1>4. CASE PreDone
    <2>1. approved' = {c \in ToSet(survivors) : kind[c] = "plain"} \/ pc' = "post"
      BY <1>4 DEF PreDone, GoTo
    <2>2. UNCHANGED <<survivors, kind, granted>> /\ granted = {}
      BY <1>4 DEF PreDone
    <2>3. pc' \in {"approve", "post"}
      BY <1>4 DEF PreDone, GoTo
    <2> QED
      BY <2>1, <2>2, <2>3, SurvivorsAreCalls
  <1>5. CASE NoApprovalNeeded
    BY <1>5 DEF NoApprovalNeeded
  <1>6. CASE Approve
    BY <1>6, SurvivorsAreCalls DEF Approve, Asking
  <1>7. CASE Deny
    BY <1>7, SurvivorsAreCalls DEF Deny, Asking
  <1>8. CASE GatePanics
    BY <1>8 DEF GatePanics, Asking, Return
  <1>9. CASE ApprovalsDone
    BY <1>9 DEF ApprovalsDone, GoTo
  <1>10. CASE AnswerUnrun
    BY <1>10 DEF AnswerUnrun, Cleared
  <1>11. CASE Launch
    BY <1>11 DEF Launch, Cleared
  <1>12. CASE LaunchDone
    BY <1>12 DEF LaunchDone
  <1>13. CASE Collect
    BY <1>13 DEF Collect, GoTo, AllDone
  <1>14. CASE CollectFatal
    BY <1>14 DEF CollectFatal, Return, AllDone
  <1>15. CASE PostKeeps
    BY <1>15 DEF PostKeeps
  <1>16. CASE PostModifies
    BY <1>16 DEF PostModifies
  <1>17. CASE PostAborts
    BY <1>17 DEF PostAborts, Return
  <1>18. CASE PostDone
    BY <1>18 DEF PostDone, Return
  <1>19. ASSUME NEW c \in Calls, ToolEnds(c) PROVE Permitted'
    BY <1>19 DEF ToolEnds
  <1>20. CASE UNCHANGED vars
    BY <1>20 DEF vars
  <1> QED
    BY <1>1, <1>2, <1>3, <1>4, <1>5, <1>6, <1>7, <1>8, <1>9, <1>10,
       <1>11, <1>12, <1>13, <1>14, <1>15, <1>16, <1>17, <1>18, <1>19, <1>20 DEF Next, RunStep

\* Each answer says what became of the call it is written for.
LEMMA ToldStep == DispatchInv /\ Permitted /\ Told /\ [Next]_vars => Told'
  <1> SUFFICES ASSUME DispatchInv, Permitted, Told, [Next]_vars PROVE Told'
    OBVIOUS
  <1> USE DispatchAssumption DEF DispatchInv, TypeOK, Sorted, Workers, Fatality, Permitted, Told, Survivor, Slots, Calls, Result
  <1>1. CASE PrePasses
    <2>1. UNCHANGED <<kind, granted, outcomeOf>>
      BY <1>1 DEF PrePasses
    <2> QED
      BY <1>1, <2>1, VerdictKept DEF PrePasses
  <1>2. CASE PreSubstitutes
    <2>1. UNCHANGED <<kind, granted, outcomeOf>>
      BY <1>2 DEF PreSubstitutes
    <2> QED
      BY <1>2, <2>1, VerdictKept DEF PreSubstitutes
  <1>3. CASE PreAborts
    <2>1. UNCHANGED <<kind, granted, outcomeOf>>
      BY <1>3 DEF PreAborts
    <2> QED
      BY <1>3, <2>1, VerdictKept DEF PreAborts, Return
  <1>4. CASE PreDone
    <2>1. pc' = "post" => survivors = <<>>
      BY <1>4 DEF PreDone, GoTo
    <2>2. pc' = "post" => \A c \in Calls : c \in synthesized
      BY <1>4, <2>1 DEF PreDone
    <2> QED
      BY <1>4, <2>2 DEF PreDone, GoTo
  <1>5. CASE NoApprovalNeeded
    <2>1. UNCHANGED <<kind, granted, outcomeOf>>
      BY <1>5 DEF NoApprovalNeeded
    <2> QED
      BY <1>5, <2>1, VerdictKept DEF NoApprovalNeeded
  <1>6. CASE Approve
    <2>1. pc = "approve" /\ pc' = "approve" /\ UNCHANGED <<synthesized, results, returned>>
      BY <1>6 DEF Approve, Asking
    <2> QED
      BY <2>1
  <1>7. CASE Deny
    <2>1. UNCHANGED <<kind, granted, outcomeOf>>
      BY <1>7 DEF Deny
    <2> QED
      BY <1>7, <2>1, VerdictKept DEF Deny, Asking
  <1>8. CASE GatePanics
    <2>1. UNCHANGED <<kind, granted, outcomeOf>>
      BY <1>8 DEF GatePanics
    <2> QED
      BY <1>8, <2>1, VerdictKept DEF GatePanics, Asking, Return
  <1>9. CASE ApprovalsDone
    <2>1. UNCHANGED <<kind, granted, outcomeOf>>
      BY <1>9 DEF ApprovalsDone
    <2> QED
      BY <1>9, <2>1, VerdictKept DEF ApprovalsDone, GoTo
  <1>10. CASE AnswerUnrun
    <2>1. /\ pc = "launch" /\ pc' = "launch" /\ k \in Slots /\ k' = k + 1
          /\ survivors[k] \in Calls /\ survivors[k] \notin approved
          /\ UNCHANGED <<kind, survivors, worker, results, returned, synthesized, granted,
                         outcomeOf>>
      BY <1>10, SurvivorsAreCalls DEF AnswerUnrun, Cleared
    <2>2. slotResults' = [slotResults EXCEPT ![k] =
            Result(survivors[k], IF kind[survivors[k]] = "unknown" THEN "unknown" ELSE "denied")]
      BY <1>10 DEF AnswerUnrun
    <2>3. slotResults'[k].from = Verdict(survivors[k])
      <3>1. /\ kind[survivors[k]] \in {"unknown", "hitl"}
            /\ kind[survivors[k]] = "hitl" => survivors[k] \notin granted
        BY <2>1
      <3>2. slotResults'[k] =
              Result(survivors[k], IF kind[survivors[k]] = "unknown" THEN "unknown" ELSE "denied")
        BY <2>1, <2>2
      <3>3. Verdict(survivors[k]) = IF kind[survivors[k]] = "unknown" THEN "unknown" ELSE "denied"
        BY <3>1, VerdictUnrun
      <3>4. slotResults'[k].from = IF kind[survivors[k]] = "unknown" THEN "unknown" ELSE "denied"
        BY <3>2 DEF Result
      <3> QED
        BY <3>3, <3>4
    <2>4. \A j \in Slots : j # k => slotResults'[j] = slotResults[j]
      BY <2>2
    <2>5. \A j \in Slots : j < k + 1 => j < k \/ j = k
      BY <2>1
    <2>6. \A c \in Calls : Verdict(c)' = Verdict(c)
      BY <2>1, VerdictKept
    <2>7. \A j \in Slots : survivors[j] \in Calls
      BY SurvivorsAreCalls
    <2> QED
      <3> HIDE DEF DispatchInv, TypeOK, Sorted, Workers, Fatality, Calls
      <3> QED
        BY <2>1, <2>3, <2>4, <2>5, <2>6, <2>7
  <1>11. CASE Launch
    <2>1. UNCHANGED <<kind, granted, outcomeOf>>
      BY <1>11 DEF Launch
    <2> QED
      BY <1>11, <2>1, VerdictKept DEF Launch, Cleared
  <1>12. CASE LaunchDone
    <2>1. UNCHANGED <<kind, granted, outcomeOf>>
      BY <1>12 DEF LaunchDone
    <2> QED
      BY <1>12, <2>1, VerdictKept DEF LaunchDone
  <1>13. CASE Collect
    <2>1. /\ pc = "wait" /\ pc' = "post" /\ \A c \in Calls : results'[c] = Merged[c]
          /\ UNCHANGED <<kind, survivors, returned, synthesized, granted, outcomeOf>>
          /\ \A c \in Calls : worker[c] # "running"
      BY <1>13 DEF Collect, GoTo, AllDone, Merged
    <2>2. \A j \in Slots : survivors[j] \in Calls /\ slotResults[j].from = Verdict(survivors[j])
      BY <2>1, SurvivorsAreCalls
    <2>3. \A c \in Calls : Verdict(c)' = Verdict(c)
      BY <2>1, VerdictKept
    <2>4. ASSUME NEW c \in Calls PROVE /\ Survivor(c) => Merged[c].from = Verdict(c)
                                       /\ ~Survivor(c) => Merged[c].from = "hook"
      <3>1. CASE Survivor(c)
        <4>1. PICK j \in Slots : survivors[j] = c
          BY <3>1
        <4>2. Merged[c] = slotResults[j]
          <5>1. \A i \in Slots : survivors[i] = c => Merged[c] = slotResults[i]
            BY MergedIsAligned
          <5> QED
            BY <4>1, <5>1
        <4> QED
          BY <3>1, <4>1, <4>2, <2>2
      <3>2. CASE ~Survivor(c)
        <4>1. Merged[c] = results[c]
          BY <3>2, MergedIsAligned
        <4>2. c \in synthesized
          BY <2>1, <3>2
        <4> QED
          BY <2>1, <3>2, <4>1, <4>2
      <3> QED
        BY <3>1, <3>2
    <2>5. \A c \in synthesized : c \in Calls /\ ~Survivor(c)
      BY <2>1
    <2> QED
      <3> HIDE DEF DispatchInv, TypeOK, Sorted, Workers, Fatality, Calls, Survivor, Slots
      <3> QED
        BY <2>1, <2>3, <2>4, <2>5
  <1>14. CASE CollectFatal
    <2>1. UNCHANGED <<kind, granted, outcomeOf>>
      BY <1>14 DEF CollectFatal
    <2> QED
      BY <1>14, <2>1, VerdictKept DEF CollectFatal, Return, AllDone
  <1>15. CASE PostKeeps
    <2>1. UNCHANGED <<kind, granted, outcomeOf>>
      BY <1>15 DEF PostKeeps
    <2> QED
      BY <1>15, <2>1, VerdictKept DEF PostKeeps
  <1>16. CASE PostModifies
    <2>1. UNCHANGED <<kind, granted, outcomeOf>>
      BY <1>16 DEF PostModifies
    <2> QED
      BY <1>16, <2>1, VerdictKept DEF PostModifies
  <1>17. CASE PostAborts
    <2>1. UNCHANGED <<kind, granted, outcomeOf>>
      BY <1>17 DEF PostAborts
    <2> QED
      BY <1>17, <2>1, VerdictKept DEF PostAborts, Return
  <1>18. CASE PostDone
    <2>1. UNCHANGED <<kind, granted, outcomeOf>>
      BY <1>18 DEF PostDone
    <2> QED
      BY <1>18, <2>1, VerdictKept DEF PostDone, Return
  <1>19. ASSUME NEW c \in Calls, ToolEnds(c) PROVE Told'
    <2>1. worker[c] = "running" /\ pc \in {"launch", "wait"}
      BY <1>19 DEF ToolEnds
    <2>2. PICK o \in ToolOutcomes, j \in Slots :
            /\ survivors[j] = c /\ slotResults' = [slotResults EXCEPT ![j] = Recorded(c, o)]
            /\ outcomeOf' = [outcomeOf EXCEPT ![c] = o]
      <3> HIDE DEF DispatchInv, TypeOK, Sorted, Workers, Fatality, Slots
      <3> QED
        BY <1>19 DEF ToolEnds
    <2>3. /\ worker' = [worker EXCEPT ![c] = "done"] /\ \A d \in Calls : d # c => worker'[d] = worker[d]
          /\ UNCHANGED <<kind, pc, k, survivors, results, returned, synthesized, granted>>
      BY <1>19 DEF ToolEnds
    <2>4. \A d \in Calls : d # c => Verdict(d)' = Verdict(d)
      <3>1. \A d \in Calls : d # c => outcomeOf'[d] = outcomeOf[d]
        BY <2>2
      <3> QED
        BY <2>3, <3>1 DEF Verdict
    <2>5. slotResults'[j].from = Verdict(c)'
      <3>1. outcomeOf'[c] = o /\ slotResults'[j] = Recorded(c, o)
        BY <2>2
      <3>2. kind[c] = "plain" \/ (kind[c] = "hitl" /\ c \in granted)
        BY <2>1 DEF Authorised
      <3> QED
        BY <2>3, <3>1, <3>2 DEF Verdict, Recorded, Result, ToolOutcomes
    <2>6. \A i \in Slots : i # j => /\ slotResults'[i] = slotResults[i] /\ survivors[i] # c
                                    /\ survivors[i] \in Calls
      BY <2>2, SurvivorsAreCalls
    <2>7. Slots' = Slots
      BY <2>3
    <2>8. returned = "none"
      BY <2>1
    <2> QED
      <3> HIDE DEF DispatchInv, TypeOK, Sorted, Workers, Fatality, Calls, Slots
      <3> QED
        BY <2>1, <2>2, <2>3, <2>4, <2>5, <2>6, <2>7, <2>8
  <1>20. CASE UNCHANGED vars
    <2>1. UNCHANGED <<kind, granted, outcomeOf>>
      BY <1>20 DEF vars
    <2> QED
      BY <1>20, <2>1, VerdictKept DEF vars
  <1> QED
    BY <1>1, <1>2, <1>3, <1>4, <1>5, <1>6, <1>7, <1>8, <1>9, <1>10,
       <1>11, <1>12, <1>13, <1>14, <1>15, <1>16, <1>17, <1>18, <1>19, <1>20 DEF Next, RunStep

\* What the model is told of a call is what became of it, unless a hook chose
\* otherwise: no failure, panic or denial is shown as an output
\* (dispatch.go:145-201, agent.go:614-616).
THEOREM Truth == Spec => []AnswersTrue
  <1>1. Init => Permitted /\ Told
    BY DispatchAssumption DEF Init, Permitted, Told, Slots
  <1>2. DispatchInv /\ Permitted /\ Told /\ [Next]_vars => Permitted' /\ Told'
    BY PermittedStep, ToldStep
  <1>3. Told => AnswersTrue
    BY DEF Told, AnswersTrue, Verdict
  <1> QED
    BY Invariance, <1>1, <1>2, <1>3, PTL DEF Spec

-----------------------------------------------------------------------------
(* Refinement: the batch keeps the promise of ToolBatch                    *)

\* In each pass, the calls that have their answer.
AnsweredSoFar ==
    /\ pc \in {"pre", "approve"} => Answered = synthesized
    /\ pc \in {"launch", "wait"} =>
         Answered = {c \in Calls : c \in synthesized \/
                       \E j \in Slots : survivors[j] = c /\ slotResults[j].id # None}
    /\ pc = "post" \/ returned = "results" => Answered = Calls
    /\ pc = "returned" /\ returned # "results" => Answered = {}

LEMMA AnsweredNow == DispatchInv => AnsweredSoFar
  <1> SUFFICES ASSUME DispatchInv PROVE AnsweredSoFar
    OBVIOUS
  <1> USE DispatchAssumption DEF DispatchInv, TypeOK, Sorted, Fatality, Answers, Survivor,
          Slots, Calls, None, NoResult, Result, ToolResult
  <1>1. ASSUME pc \in {"pre", "approve"} PROVE Answered = synthesized
    <2>1. \A c \in Calls : results[c].id # None <=> c \in synthesized
      BY <1>1
    <2>2. \A j \in Slots : slotResults[j].id = None
      BY <1>1
    <2>3. pc # "returned" /\ synthesized \subseteq Calls
      BY <1>1
    <2> HIDE DEF DispatchInv, TypeOK, Sorted, Fatality, Answers, Survivor, Calls, NoResult,
             Result
    <2> QED
      BY <2>1, <2>2, <2>3 DEF Answered
  <1>2. pc \in {"launch", "wait"} =>
          Answered = {c \in Calls : c \in synthesized \/
                        \E j \in Slots : survivors[j] = c /\ slotResults[j].id # None}
    BY DEF Answered
  <1>3. ASSUME pc = "post" \/ returned = "results" PROVE Answered = Calls
    <2>1. \A c \in Calls : results[c].id # None
      BY <1>3
    <2>2. pc # "returned" \/ returned = "results"
      BY <1>3
    <2> QED
      BY <2>1, <2>2 DEF Answered
  <1>4. pc = "returned" /\ returned # "results" => Answered = {}
    BY DEF Answered
  <1> QED
    BY <1>1, <1>2, <1>3, <1>4 DEF AnsweredSoFar

LEMMA AnsweredNext == DispatchInv' => AnsweredSoFar'
  BY AnsweredNow, PTL

LEMMA InitRefines == Init => TB!Init
  BY DEF Init, TB!Init, Phase, Answered, Running, Ran, Slots, Calls, NoResult, Result, None

LEMMA StepRefines ==
    DispatchInv /\ DispatchInv' /\ [Next]_vars => [TB!Next]_(TB!vars)
  <1> SUFFICES ASSUME DispatchInv, DispatchInv', [Next]_vars
               PROVE  [TB!Next]_(TB!vars)
    OBVIOUS
  <1>0. /\ TypeOK /\ Sorted /\ Authorised /\ Workers /\ Fatality /\ Answers
        /\ Fatality' /\ Workers' /\ AnsweredSoFar /\ AnsweredSoFar'
    BY AnsweredNow, AnsweredNext DEF DispatchInv
  <1> DEFINE Stutter == Phase' = Phase /\ Answered' = Answered
                          /\ Running' = Running /\ Ran' = Ran
  <1> USE DispatchAssumption, <1>0 DEF Phase, Running, Ran
  <1>1. ASSUME PrePasses PROVE Stutter
    BY <1>1 DEF PrePasses, AnsweredSoFar, TypeOK, Sorted, Workers, Fatality, Slots, Calls
  <1>2. ASSUME NoApprovalNeeded PROVE Stutter
    BY <1>2 DEF NoApprovalNeeded, AnsweredSoFar, TypeOK, Sorted, Workers, Fatality, Slots, Calls
  <1>3. ASSUME Approve PROVE Stutter
    BY <1>3 DEF Approve, Asking, AnsweredSoFar, TypeOK, Sorted, Workers, Fatality, Slots, Calls
  <1>4. ASSUME Deny PROVE Stutter
    BY <1>4 DEF Deny, Asking, AnsweredSoFar, TypeOK, Sorted, Workers, Fatality, Slots, Calls
  <1>5. ASSUME LaunchDone PROVE Stutter
    BY <1>5 DEF LaunchDone, Answered, Slots
  <1>6. ASSUME Collect PROVE Stutter
    <2>1. \A j \in Slots : survivors[j] \in Calls /\ slotResults[j].id = survivors[j]
      BY <1>6, SurvivorsAreCalls DEF Collect, AllDone, Answers, TypeOK
    <2>2. \A c \in Calls : c \in synthesized \/ \E j \in Slots : survivors[j] = c
      BY <1>6 DEF Collect, Sorted, Survivor
    <2>3. \A c \in Calls : c # None
      BY DEF Calls, None
    <2>4. Answered = Calls
      BY <1>6, <2>1, <2>2, <2>3 DEF Collect, AnsweredSoFar
    <2>5. Answered' = Calls
      BY <1>6 DEF Collect, GoTo, AnsweredSoFar, Calls
    <2> QED
      BY <1>6, <2>4, <2>5 DEF Collect, GoTo
  <1>7. ASSUME PostKeeps PROVE Stutter
    BY <1>7 DEF PostKeeps, AnsweredSoFar, TypeOK, Sorted, Workers, Fatality, Slots, Calls
  <1>8. ASSUME PostModifies PROVE Stutter
    BY <1>8 DEF PostModifies, AnsweredSoFar, TypeOK, Sorted, Workers, Fatality, Slots, Calls
  <1>9. ASSUME PreSubstitutes PROVE TB!AnswerAtGate(k)
    BY <1>9 DEF PreSubstitutes, TB!AnswerAtGate, AnsweredSoFar, TypeOK, Sorted, Workers, Fatality, Slots, Calls
  <1>10. ASSUME ApprovalsDone PROVE TB!OpenGates
    <2>1. Answered' = Answered
      BY <1>10 DEF ApprovalsDone, GoTo, Answered, Slots
    <2> QED
      BY <1>10, <2>1 DEF ApprovalsDone, GoTo, TB!OpenGates
  <1>11. ASSUME PreDone PROVE TB!OpenGates \/ Stutter
    <2>1. Answered' = Answered
      BY <1>11 DEF PreDone, GoTo, Answered, Slots
    <2> QED
      BY <1>11, <2>1 DEF PreDone, GoTo, TB!OpenGates
  <1>12. ASSUME PreAborts PROVE TB!Abort
    BY <1>12 DEF PreAborts, Return, TB!Abort, AnsweredSoFar, TypeOK, Sorted, Workers, Fatality, Slots, Calls
  <1>13. ASSUME GatePanics PROVE TB!Abort
    BY <1>13 DEF GatePanics, Asking, Return, TB!Abort, AnsweredSoFar, TypeOK, Sorted, Workers, Fatality, Slots, Calls
  <1>14. ASSUME CollectFatal PROVE TB!Abort
    BY <1>14 DEF CollectFatal, Return, TB!Abort, AnsweredSoFar, TypeOK, Sorted, Workers, Fatality, Slots, Calls
  <1>15. ASSUME PostAborts PROVE TB!Abort
    BY <1>15 DEF PostAborts, Return, TB!Abort, AnsweredSoFar, TypeOK, Sorted, Workers, Fatality, Slots, Calls
  <1>16. ASSUME PostDone PROVE TB!Finish
    BY <1>16 DEF PostDone, Return, TB!Finish, AnsweredSoFar, TypeOK, Sorted, Workers, Fatality, Slots, Calls
  <1>17. ASSUME Launch PROVE TB!Run(survivors[k])
    <2>1. /\ pc = "launch" /\ k \in Slots /\ survivors[k] \in Calls
          /\ worker[survivors[k]] = "none" /\ slotResults[k].id = None
      BY <1>17, SurvivorsAreCalls
         DEF Launch, Workers, Answers, TypeOK, Slots, NoResult, Result
    <2>2. survivors[k] \notin synthesized
      BY <2>1 DEF Sorted, Survivor
    <2>3. survivors[k] \notin Answered
      BY <2>1, <2>2 DEF AnsweredSoFar, Sorted
    <2>4. Answered' = Answered
      BY <1>17 DEF Launch, Answered, Slots
    <2>5. worker' = [worker EXCEPT ![survivors[k]] = "running"] /\ pc' = "launch"
      BY <1>17 DEF Launch
    <2>6. Running' = Running \cup {survivors[k]} /\ Ran' = Ran \cup {survivors[k]}
      BY <2>1, <2>5 DEF TypeOK
    <2>7. survivors[k] \notin Ran /\ Phase = "executing" /\ Phase' = "executing"
      BY <2>1, <2>5
    <2> QED
      BY <2>3, <2>4, <2>6, <2>7 DEF TB!Run
  <1>18. ASSUME AnswerUnrun PROVE TB!Answer(survivors[k])
    <2>1. /\ pc = "launch" /\ k \in Slots /\ survivors[k] \in Calls
          /\ worker[survivors[k]] = "none" /\ slotResults[k].id = None
      BY <1>18, SurvivorsAreCalls
         DEF AnswerUnrun, Workers, Answers, TypeOK, Slots, NoResult, Result
    <2>2. survivors[k] \notin synthesized
      BY <2>1 DEF Sorted, Survivor
    <2>3. survivors[k] \notin Answered
      BY <2>1, <2>2 DEF AnsweredSoFar, Sorted
    <2>4. /\ \A j \in Slots : slotResults'[j] = IF j = k THEN slotResults'[k] ELSE slotResults[j]
          /\ slotResults'[k].id = survivors[k] /\ survivors[k] # None
      BY <1>18, <2>1 DEF AnswerUnrun, TypeOK, Slots, Calls, Result, None
    <2>5. Answered' = Answered \cup {survivors[k]}
      BY <1>18, <2>1, <2>4 DEF AnswerUnrun, Answered, Slots
    <2>6. Running' = Running \ {survivors[k]} /\ Ran' = Ran /\ pc' = "launch"
      BY <1>18, <2>1 DEF AnswerUnrun
    <2> QED
      BY <2>1, <2>3, <2>5, <2>6 DEF TB!Answer
  <1>19. ASSUME NEW c \in Calls, ToolEnds(c) PROVE TB!Answer(c)
    <2>1. PICK i \in Slots :
            /\ survivors[i] = c /\ worker[c] = "running"
            /\ \E o \in ToolOutcomes :
                 slotResults' = [slotResults EXCEPT ![i] = Recorded(c, o)]
      BY <1>19 DEF ToolEnds
    <2>2. pc \in {"launch", "wait"} /\ slotResults[i].id = None
      BY <2>1 DEF Workers, Answers, TypeOK, NoResult, Result
    <2>3. c \notin Answered
      BY <2>1, <2>2 DEF AnsweredSoFar, Sorted, Survivor
    <2>4. /\ \A j \in Slots : slotResults'[j] = IF j = i THEN slotResults'[i] ELSE slotResults[j]
          /\ slotResults'[i].id = c /\ c # None
      BY <2>1, DispatchAssumption DEF TypeOK, Slots, Calls, Recorded, Result, None
    <2>5. UNCHANGED <<pc, survivors, results, returned>>
          /\ worker' = [worker EXCEPT ![c] = "done"]
      BY <1>19 DEF ToolEnds
    <2>6. Answered' = Answered \cup {c}
      BY <2>1, <2>2, <2>4, <2>5 DEF Answered, Slots
    <2>7. Running' = Running \ {c} /\ Ran' = Ran
      BY <2>1, <2>5 DEF TypeOK
    <2> QED
      BY <2>2, <2>3, <2>5, <2>6, <2>7 DEF TB!Answer
  <1>20. ASSUME UNCHANGED vars PROVE Stutter
    BY <1>20 DEF vars, Answered, Slots
  <1>21. Stutter => UNCHANGED TB!vars
    BY DEF TB!vars
  <1>22. (Launch \/ AnswerUnrun => survivors[k] \in Calls)
         /\ (PreSubstitutes => k \in Calls)
    BY SurvivorsAreCalls DEF Launch, AnswerUnrun, PreSubstitutes, TypeOK, Calls
  <1> QED
    <2> HIDE DEF Stutter, Phase, Running, Ran
    <2> QED
      BY <1>1, <1>2, <1>3, <1>4, <1>5, <1>6, <1>7, <1>8, <1>9, <1>10, <1>11, <1>12,
         <1>13, <1>14, <1>15, <1>16, <1>17, <1>18, <1>19, <1>20, <1>21, <1>22
         DEF Next, RunStep, TB!Next

\* Dispatch implements ToolBatch: gates before tools, each call run at most once,
\* no batch over while a tool runs, all answers or none.
THEOREM Refinement == Spec => ImplementsToolBatch
  <1>1. Spec => TB!Init /\ [][TB!Next]_(TB!vars)
    BY InitRefines, StepRefines, Invariance, PTL DEF Spec
  <1> QED
    BY <1>1 DEF ImplementsToolBatch, TB!Spec
=============================================================================
