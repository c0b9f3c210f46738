------------------------- MODULE ConversationProofs -------------------------
(***************************************************************************)
(* What belongs to a Conversation, for any processes, workers, Sessions    *)
(* and limits: first its specialist Sessions and their delegations, then   *)
(* its turns and its deletion.  The two share no variable here.            *)
(***************************************************************************)
EXTENDS SpecialistSessions, ConversationLifecycle, FiniteSetTheorems, TLAPS

(* A call that is not idle is a record of Call, and keeps its type when it *)
(* moves to another stage.                                                 *)
LEMMA CallType ==
    ASSUME TypeOK, NEW d \in Delegations, call[d] # NoCall
    PROVE  call[d] \in Call
BY DEF TypeOK

LEMMA IdleStage ==
    ASSUME TypeOK, NEW d \in Delegations
    PROVE  call[d] = NoCall <=> call[d].stage = "idle"
BY DEF TypeOK, NoCall, Call, Stages

LEMMA MoveType ==
    ASSUME TypeOK, NEW d \in Delegations, call[d] # NoCall,
           NEW stage \in Stages, MoveTo(d, stage)
    PROVE  call' \in [Delegations -> {NoCall} \cup Call]
BY CallType DEF TypeOK, MoveTo, Call

LEMMA ConcludeType ==
    ASSUME TypeOK, NEW d \in Delegations, call[d] # NoCall,
           NEW outcome \in Answers, Conclude(d, outcome)
    PROVE  call' \in [Delegations -> {NoCall} \cup Call]
BY CallType, ZenonT(60) DEF TypeOK, Conclude, Call, Stages

LEMMA LeaveType ==
    ASSUME TypeOK, NEW d \in Delegations, NEW told \in Answers, Leave(d, told)
    PROVE  /\ call' \in [Delegations -> {NoCall} \cup Call]
           /\ answer' \in [Delegations -> Answers]
BY DEF TypeOK, Leave

LEMMA SaveType ==
    ASSUME TypeOK, NEW d \in Delegations,
           NEW status \in {"running", "completed", "failed", "cancelled"},
           Save(d, status)
    PROVE  /\ persisted' \subseteq Sessions
           /\ record' \in [Delegations -> {"none", "running", "completed",
                                           "failed", "cancelled"}]
BY ConstantAssumption DEF TypeOK, Save

(* The listing of the namespaces of a Conversation that is not full names  *)
(* one of its slots.                                                       *)
LEMMA FirstSlot ==
    ASSUME TypeOK, ~(Cardinality(persisted) >= MaxSessions)
    PROVE  Cardinality(persisted) \in 0..MaxSessions
<1>1. Cardinality(persisted) \in Nat
  BY ConstantAssumption, FS_Subset, FS_CardinalityType DEF TypeOK
<1> QED BY <1>1, ConstantAssumption

-----------------------------------------------------------------------------
LEMMA TypeStep == TypeOK /\ [Next]_vars => TypeOK'
<1> SUFFICES ASSUME TypeOK, [Next]_vars PROVE TypeOK'
  OBVIOUS
<1> USE ConstantAssumption
<1>1. ASSUME NEW d \in Delegations, NEW p \in Processes, Delegate(d, p) PROVE TypeOK'
  <2>1. calls' \in [Delegations -> 0..MaxCalls]
    BY <1>1 DEF Delegate, TypeOK
  <2>2. CASE SessionFree(Target[d])
    <3> DEFINE new == [stage |-> "locked", process |-> p, slot |-> NoSlot,
                       outcome |-> "none"]
    <3>1. new \in Call
      BY DEF Call, Stages, Answers
    <3> HIDE DEF new
    <3>2. call' = [call EXCEPT ![d] = new] /\ UNCHANGED answer
      BY <1>1, <2>2 DEF Delegate, new
    <3> QED BY <1>1, <2>1, <3>1, <3>2 DEF Delegate, TypeOK
  <2>3. CASE ~SessionFree(Target[d])
    <3>1. Leave(d, "failed")
      BY <1>1, <2>3 DEF Delegate
    <3> QED BY <1>1, <2>1, <3>1, LeaveType DEF Delegate, TypeOK, Answers
  <2> QED BY <2>2, <2>3
<1>2. ASSUME NEW d \in Delegations, ListNamespaces(d) PROVE TypeOK'
  <2>1. call[d] # NoCall /\ call[d] \in Call
    BY <1>2, IdleStage, CallType DEF ListNamespaces
  <2>2. CASE MoveTo(d, "admitted") /\ UNCHANGED answer
    BY <1>2, <2>1, <2>2, MoveType DEF ListNamespaces, TypeOK, Stages
  <2>3. CASE Leave(d, "failed")
    BY <1>2, <2>3, LeaveType DEF ListNamespaces, TypeOK, Answers
  <2>4. CASE /\ ~(Cardinality(persisted) >= MaxSessions)
             /\ call' = [call EXCEPT ![d].stage = "listed",
                                     ![d].slot = Cardinality(persisted)]
             /\ UNCHANGED answer
    <3>1. Cardinality(persisted) \in 0..MaxSessions
      BY <2>4, FirstSlot
    <3> DEFINE n == Cardinality(persisted)
    <3>2. n \in 0..MaxSessions /\ call' = [call EXCEPT ![d].stage = "listed", ![d].slot = n]
      BY <3>1, <2>4
    <3> HIDE DEF n
    <3>3. call' \in [Delegations -> {NoCall} \cup Call]
      BY <3>2, <2>1 DEF TypeOK, Call, Stages
    <3> QED BY <1>2, <2>4, <3>3 DEF ListNamespaces, TypeOK
  <2> QED BY <1>2, <2>2, <2>3, <2>4 DEF ListNamespaces
<1>3. ASSUME NEW d \in Delegations, TrySlot(d) PROVE TypeOK'
  <2>1. call[d] # NoCall /\ call[d] \in Call
    BY <1>3, IdleStage, CallType DEF TrySlot
  <2>2. CASE MoveTo(d, "admitted") /\ UNCHANGED answer
    BY <1>3, <2>1, <2>2, MoveType DEF TrySlot, TypeOK, Stages
  <2>3. CASE Leave(d, "failed")
    BY <1>3, <2>3, LeaveType DEF TrySlot, TypeOK, Answers
  <2>4. CASE /\ ~(call[d].slot >= MaxSessions)
             /\ call' = [call EXCEPT ![d].slot = @ + 1] /\ UNCHANGED answer
    <3>1. call[d].slot + 1 \in 0..MaxSessions
      BY <2>1, <2>4 DEF Call, NoSlot
    <3>2. call' \in [Delegations -> {NoCall} \cup Call]
      BY <3>1, <2>1, <2>4 DEF TypeOK, Call
    <3> QED BY <1>3, <2>4, <3>2 DEF TrySlot, TypeOK
  <2> QED BY <1>3, <2>2, <2>3, <2>4 DEF TrySlot
<1>4. ASSUME NEW d \in Delegations, Permit(d) PROVE TypeOK'
  <2>1. call[d] # NoCall
    BY <1>4, IdleStage DEF Permit
  <2>2. CASE MoveTo(d, "permitted") /\ UNCHANGED answer
    BY <1>4, <2>1, <2>2, MoveType DEF Permit, TypeOK, Stages
  <2>3. CASE Leave(d, "failed")
    BY <1>4, <2>3, LeaveType DEF Permit, TypeOK, Answers
  <2> QED BY <1>4, <2>2, <2>3 DEF Permit
<1>5. ASSUME NEW d \in Delegations, Replay(d) PROVE TypeOK'
  <2>1. call[d] # NoCall
    BY <1>5, IdleStage DEF Replay
  <2>2. CASE MoveTo(d, "building") /\ UNCHANGED answer
    BY <1>5, <2>1, <2>2, MoveType DEF Replay, TypeOK, Stages
  <2>3. CASE HasResult(d) /\ \E told \in {record[d], "failed"} : Leave(d, told)
    <3>1. PICK told \in {record[d], "failed"} : Leave(d, told)
      BY <2>3
    <3>2. told \in Answers
      BY <2>3 DEF HasResult, Answers
    <3> QED BY <1>5, <3>1, <3>2, LeaveType DEF Replay, TypeOK
  <2> QED BY <1>5, <2>2, <2>3 DEF Replay
<1>6. ASSUME NEW d \in Delegations, GiveUp(d) PROVE TypeOK'
  <2>1. PICK told \in {"failed", answer[d]} : Leave(d, told)
    BY <1>6 DEF GiveUp
  <2>2. told \in Answers
    BY DEF TypeOK, Answers
  <2> QED BY <1>6, <2>1, <2>2, LeaveType DEF GiveUp, TypeOK
<1>7. ASSUME NEW d \in Delegations, Build(d) PROVE TypeOK'
  <2>1. call[d] # NoCall /\ MoveTo(d, "built")
    BY <1>7, IdleStage DEF Build
  <2> QED BY <1>7, <2>1, MoveType DEF Build, TypeOK, Stages
<1>8. ASSUME NEW d \in Delegations, Begin(d) PROVE TypeOK'
  <2>1. call[d] # NoCall /\ MoveTo(d, "running")
    BY <1>8, IdleStage DEF Begin
  <2> QED BY <1>8, <2>1, MoveType, SaveType DEF Begin, TypeOK, Stages
<1>9. ASSUME NEW d \in Delegations, Finish(d) PROVE TypeOK'
  <2>1. call[d] # NoCall /\ MoveTo(d, "recorded")
    BY <1>9, IdleStage DEF Finish
  <2> QED BY <1>9, <2>1, MoveType, SaveType DEF Finish, TypeOK, Stages
<1>10. ASSUME NEW d \in Delegations, Return(d) PROVE TypeOK'
  <2>1. call[d] # NoCall
    BY <1>10, IdleStage DEF Return
  <2> QED BY <1>10, <2>1, ConcludeType DEF Return, TypeOK, Answers
<1>11. ASSUME NEW d \in Delegations, Fail(d) PROVE TypeOK'
  <2>1. call[d] # NoCall
    BY <1>11, IdleStage DEF Fail
  <2> QED BY <1>11, <2>1, ConcludeType, SaveType DEF Fail, TypeOK, Answers
<1>12. ASSUME NEW d \in Delegations, Cancel(d) PROVE TypeOK'
  <2>1. call[d] # NoCall
    BY <1>12, IdleStage DEF Cancel
  <2> QED BY <1>12, <2>1, ConcludeType, SaveType DEF Cancel, TypeOK, Answers
<1>13. ASSUME NEW d \in Delegations, CleanUp(d) PROVE TypeOK'
  <2>1. call[d] \in Call
    BY <1>13, IdleStage, CallType DEF CleanUp
  <2>2. PICK told \in Answers : Leave(d, told)
    BY <1>13, <2>1 DEF CleanUp, Call, Answers, TypeOK
  <2> QED BY <1>13, <2>2, LeaveType DEF CleanUp, TypeOK
<1>14. ASSUME NEW s \in Sessions, NEW p \in Processes, StartDeletion(s, p) PROVE TypeOK'
  BY <1>14 DEF StartDeletion, TypeOK, Deletion
<1>15. ASSUME NEW s \in Sessions, DeleteCheckpoint(s) PROVE TypeOK'
  BY <1>15 DEF DeleteCheckpoint, TypeOK, Deletion, NoCall, Answers
<1>16. ASSUME NEW s \in Sessions, DeleteWorkspace(s) PROVE TypeOK'
  BY <1>16 DEF DeleteWorkspace, TypeOK
<1>17. ASSUME NEW s \in Sessions, AbortDeletion(s) PROVE TypeOK'
  BY <1>17 DEF AbortDeletion, TypeOK
<1>18. ASSUME NEW p \in Processes, Crash(p) PROVE TypeOK'
  BY <1>18 DEF Crash, TypeOK
<1>19. CASE UNCHANGED vars
  BY <1>19 DEF vars, TypeOK
<1> QED
  BY <1>1, <1>2, <1>3, <1>4, <1>5, <1>6, <1>7, <1>8, <1>9, <1>10, <1>11, <1>12,
     <1>13, <1>14, <1>15, <1>16, <1>17, <1>18, <1>19 DEF Next, Progress

(* The types hold in every reachable state: in particular the slot a call  *)
(* tries or holds is never beyond the limit of the Conversation.           *)
THEOREM TypeCorrect == Spec => []TypeOK
<1>1. Init => TypeOK
  BY ConstantAssumption DEF Init, TypeOK, Answers
<1> QED BY <1>1, TypeStep, PTL DEF Spec

-----------------------------------------------------------------------------
(* Why an answered success stays on record.  A call that is to answer with *)
(* a success has its record written (Pending); a call that still writes    *)
(* records has not been answered with a success before, since it would     *)
(* have found that one and replayed it (Fresh); and nobody deletes the     *)
(* Session of a call under it (Alone).                                     *)
Pending(d) ==
    /\ call[d].stage = "recorded" => record[d] = "completed"
    /\ call[d] # NoCall /\ call[d].outcome = "completed" =>
          call[d].stage = "cleaning" /\ record[d] = "completed"
Fresh(d) ==
    call[d].stage \in {"building", "built", "running", "recorded"} =>
        answer[d] # "completed"
Alone(d) == deletion[Target[d]] # NoCall => call[d] = NoCall
Kept(d) == answer[d] = "completed" => record[d] = "completed"

IInv == TypeOK /\ \A d \in Delegations : Pending(d) /\ Fresh(d) /\ Alone(d) /\ Kept(d)

(* A step of another delegation leaves these facts about d alone.          *)
LEMMA OthersKeep ==
    ASSUME IInv, NEW d \in Delegations,
           call'[d] = call[d], record'[d] = record[d], answer'[d] = answer[d],
           deletion' = deletion
    PROVE  Pending(d)' /\ Fresh(d)' /\ Alone(d)' /\ Kept(d)'
BY DEF IInv, Pending, Fresh, Alone, Kept

(* What a step of the call of e changes, it changes for e only.            *)
LEMMA OwnStep ==
    ASSUME TypeOK, NEW e \in Delegations, Progress(e), NEW d \in Delegations, d # e
    PROVE  call'[d] = call[d] /\ record'[d] = record[d] /\ answer'[d] = answer[d]
BY DEF TypeOK, Progress, ListNamespaces, TrySlot, Permit, Replay, GiveUp, Build, Begin,
       Finish, Return, Fail, Cancel, CleanUp, MoveTo, Leave, Save, Conclude

LEMMA ProgressStep ==
    ASSUME IInv, NEW e \in Delegations, Progress(e)
    PROVE  Pending(e)' /\ Fresh(e)' /\ Alone(e)' /\ Kept(e)'
<1> USE DEF IInv
<1>1. call[e] # NoCall /\ call[e] \in Call
  <2>1. call[e].stage # "idle"
    BY IdleStage DEF Progress, ListNamespaces, TrySlot, Permit, Replay, GiveUp, Build,
       Begin, Finish, Return, Fail, Cancel, CleanUp, NoCall
  <2> QED BY <2>1, IdleStage, CallType
<1>2. deletion[Target[e]] = NoCall
  BY <1>1 DEF Alone
<1>3. deletion' = deletion
  BY DEF Progress, ListNamespaces, TrySlot, Permit, Replay, GiveUp, Build, Begin, Finish,
         Return, Fail, Cancel, CleanUp
<1>4. Alone(e)'
  BY <1>2, <1>3 DEF Alone
<1>5. ASSUME NEW told \in Answers, Leave(e, told), UNCHANGED record,
             told = "completed" => record[e] = "completed"
      PROVE  Pending(e)' /\ Fresh(e)' /\ Kept(e)'
  BY <1>5 DEF Leave, Pending, Fresh, Kept, NoCall, TypeOK
<1>6. ASSUME NEW stage \in {"listed", "admitted", "permitted"}, UNCHANGED <<record, answer>>,
             call[e].stage # "cleaning",
             call'[e].stage = stage, call'[e].outcome = call[e].outcome
      PROVE  Pending(e)' /\ Fresh(e)' /\ Kept(e)'
  BY <1>1, <1>6 DEF Pending, Fresh, Kept
<1>7. CASE ListNamespaces(e)
  <2>1. CASE Leave(e, "failed")
    BY <1>7, <2>1, <1>4, <1>5 DEF ListNamespaces, Answers
  <2>2. CASE /\ \/ MoveTo(e, "admitted")
                \/ call' = [call EXCEPT ![e].stage = "listed",
                                        ![e].slot = Cardinality(persisted)]
             /\ UNCHANGED answer
    <3>1. call'[e].stage \in {"listed", "admitted"} /\ call'[e].outcome = call[e].outcome
          /\ call[e].stage # "cleaning" /\ UNCHANGED <<record, answer>>
      BY <1>7, <2>2, <1>1 DEF ListNamespaces, MoveTo, TypeOK, Call
    <3> QED BY <3>1, <1>4, <1>6
  <2> QED BY <1>7, <2>1, <2>2 DEF ListNamespaces
<1>8. CASE TrySlot(e)
  <2>1. CASE Leave(e, "failed")
    BY <1>8, <2>1, <1>4, <1>5 DEF TrySlot, Answers
  <2>2. CASE /\ \/ MoveTo(e, "admitted")
                \/ call' = [call EXCEPT ![e].slot = @ + 1]
             /\ UNCHANGED answer
    <3>1. call'[e].stage \in {"listed", "admitted"} /\ call'[e].outcome = call[e].outcome
          /\ call[e].stage # "cleaning" /\ UNCHANGED <<record, answer>>
      BY <1>8, <2>2, <1>1 DEF TrySlot, MoveTo, TypeOK, Call
    <3> QED BY <3>1, <1>4, <1>6
  <2> QED BY <1>8, <2>1, <2>2 DEF TrySlot
<1>9. CASE Permit(e)
  <2>1. CASE Leave(e, "failed")
    BY <1>9, <2>1, <1>4, <1>5 DEF Permit, Answers
  <2>2. CASE MoveTo(e, "permitted") /\ UNCHANGED answer
    <3>1. call'[e].stage = "permitted" /\ call'[e].outcome = call[e].outcome
          /\ call[e].stage # "cleaning" /\ UNCHANGED <<record, answer>>
      BY <1>9, <2>2, <1>1 DEF Permit, MoveTo, TypeOK, Call
    <3> QED BY <3>1, <1>4, <1>6
  <2> QED BY <1>9, <2>1, <2>2 DEF Permit
<1>10. CASE Replay(e)
  <2>1. CASE HasResult(e)
    <3>1. PICK told \in {record[e], "failed"} : Leave(e, told)
      BY <1>10, <2>1 DEF Replay
    <3> QED BY <1>10, <2>1, <3>1, <1>4, <1>5 DEF Replay, HasResult, Answers
  <2>2. CASE ~HasResult(e)
    <3>1. answer[e] # "completed"
      BY <2>2 DEF Kept, HasResult
    <3>2. call'[e].stage = "building" /\ call'[e].outcome = call[e].outcome
          /\ call[e].stage = "permitted" /\ UNCHANGED <<record, answer>>
      BY <1>10, <2>2, <1>1 DEF Replay, MoveTo, TypeOK, Call
    <3> QED BY <1>1, <1>4, <3>1, <3>2 DEF Pending, Fresh, Kept
  <2> QED BY <2>1, <2>2
<1>11. CASE GiveUp(e)
  <2>1. PICK told \in {"failed", answer[e]} : Leave(e, told)
    BY <1>11 DEF GiveUp
  <2> QED BY <1>11, <2>1, <1>4, <1>5 DEF GiveUp, TypeOK, Answers, Kept
<1>12. CASE Build(e)
  BY <1>12, <1>1, <1>4 DEF Build, MoveTo, Pending, Fresh, Kept, TypeOK, Call
<1>13. CASE Begin(e)
  BY <1>13, <1>1, <1>4 DEF Begin, MoveTo, Save, Pending, Fresh, Kept, TypeOK, Call
<1>14. CASE Finish(e)
  BY <1>14, <1>1, <1>4 DEF Finish, MoveTo, Save, Pending, Fresh, Kept, TypeOK, Call
<1>15. CASE Return(e)
  BY <1>15, <1>1, <1>4 DEF Return, Conclude, Pending, Fresh, Kept, TypeOK, Call
<1>16. CASE Fail(e)
  BY <1>16, <1>1, <1>4 DEF Fail, Conclude, Save, Pending, Fresh, Kept, TypeOK, Call
<1>17. CASE Cancel(e)
  BY <1>17, <1>1, <1>4 DEF Cancel, Conclude, Save, Pending, Fresh, Kept, TypeOK, Call
<1>18. CASE CleanUp(e)
  <2>1. PICK told \in {call[e].outcome, "none"} :
            Leave(e, IF told = "none" THEN answer[e] ELSE told)
    BY <1>18 DEF CleanUp
  <2>2. CASE told = "none"
    BY <1>18, <2>1, <2>2, <1>4, <1>5 DEF CleanUp, TypeOK, Kept
  <2>3. CASE told # "none"
    BY <1>18, <1>1, <2>1, <2>3, <1>4, <1>5 DEF CleanUp, Call, Pending
  <2> QED BY <2>2, <2>3
<1> QED
  BY <1>7, <1>8, <1>9, <1>10, <1>11, <1>12, <1>13, <1>14, <1>15, <1>16, <1>17, <1>18
     DEF Progress

LEMMA IInvStep == IInv /\ [Next]_vars => IInv'
<1> SUFFICES ASSUME IInv, [Next]_vars PROVE IInv'
  OBVIOUS
<1> TypeOK'
  BY TypeStep DEF IInv
<1> SUFFICES ASSUME NEW d \in Delegations
             PROVE  Pending(d)' /\ Fresh(d)' /\ Alone(d)' /\ Kept(d)'
  BY DEF IInv
<1>1. ASSUME NEW e \in Delegations, Progress(e)
      PROVE Pending(d)' /\ Fresh(d)' /\ Alone(d)' /\ Kept(d)'
  <2>1. CASE d = e
    BY <1>1, <2>1, ProgressStep
  <2>2. CASE d # e
    <3>1. deletion' = deletion
      BY <1>1 DEF Progress, ListNamespaces, TrySlot, Permit, Replay, GiveUp, Build, Begin,
         Finish, Return, Fail, Cancel, CleanUp
    <3> QED BY <1>1, <2>2, <3>1, OwnStep, OthersKeep DEF IInv
  <2> QED BY <2>1, <2>2
<1>2. ASSUME NEW e \in Delegations, NEW p \in Processes, Delegate(e, p)
      PROVE Pending(d)' /\ Fresh(d)' /\ Alone(d)' /\ Kept(d)'
  <2>1. CASE d # e
    BY <1>2, <2>1, OthersKeep DEF Delegate, Leave, IInv, TypeOK
  <2>2. CASE d = e /\ SessionFree(Target[e])
    BY <1>2, <2>2, ConstantAssumption DEF Delegate, SessionFree, NoCall, IInv, TypeOK,
       Pending, Fresh, Alone, Kept
  <2>3. CASE d = e /\ ~SessionFree(Target[e])
    BY <1>2, <2>3 DEF Delegate, Leave, NoCall, IInv, TypeOK, Pending, Fresh, Alone, Kept
  <2> QED BY <2>1, <2>2, <2>3
<1>3. ASSUME NEW s \in Sessions, NEW p \in Processes, StartDeletion(s, p)
      PROVE Pending(d)' /\ Fresh(d)' /\ Alone(d)' /\ Kept(d)'
  <2>1. Alone(d)'
    BY <1>3, ConstantAssumption DEF StartDeletion, SessionFree, Alone, IInv, TypeOK
  <2> QED BY <1>3, <2>1 DEF StartDeletion, IInv, Pending, Fresh, Kept
<1>4. ASSUME NEW s \in Sessions, DeleteCheckpoint(s)
      PROVE Pending(d)' /\ Fresh(d)' /\ Alone(d)' /\ Kept(d)'
  <2>1. deletion[s] # NoCall
    BY <1>4 DEF DeleteCheckpoint, NoCall
  <2>2. CASE Target[d] = s
    <3>1. call[d] = NoCall /\ call'[d] = NoCall
      BY <1>4, <2>1, <2>2 DEF IInv, Alone, DeleteCheckpoint
    <3> QED BY <1>4, <2>2, <3>1 DEF DeleteCheckpoint, Pending, Fresh, Alone, Kept, NoCall
  <2>3. CASE Target[d] # s
    BY <1>4, <2>3, ConstantAssumption
       DEF DeleteCheckpoint, IInv, TypeOK, Pending, Fresh, Alone, Kept
  <2> QED BY <2>2, <2>3
<1>5. ASSUME NEW s \in Sessions, DeleteWorkspace(s) \/ AbortDeletion(s)
      PROVE Pending(d)' /\ Fresh(d)' /\ Alone(d)' /\ Kept(d)'
  BY <1>5, ConstantAssumption
     DEF DeleteWorkspace, AbortDeletion, IInv, TypeOK, Pending, Fresh, Alone, Kept
<1>6. ASSUME NEW p \in Processes, Crash(p)
      PROVE Pending(d)' /\ Fresh(d)' /\ Alone(d)' /\ Kept(d)'
  BY <1>6, ConstantAssumption
     DEF Crash, NoCall, IInv, TypeOK, Pending, Fresh, Alone, Kept
<1>7. CASE UNCHANGED vars
  BY <1>7 DEF vars, IInv, Pending, Fresh, Alone, Kept
<1> QED BY <1>1, <1>2, <1>3, <1>4, <1>5, <1>6, <1>7 DEF Next

(* A success the planner was told of is the one on record as long as its   *)
(* Session exists, for any number of processes, Sessions and delegations,  *)
(* whatever crashes, is cancelled, fails, is repeated or deleted.          *)
THEOREM AnswersAreRecordedAlways == Spec => []AnswersAreRecorded
<1>1. Init => IInv
  BY ConstantAssumption
     DEF Init, IInv, TypeOK, Answers, Pending, Fresh, Alone, Kept, NoCall
<1>2. IInv => AnswersAreRecorded
  BY DEF IInv, Kept, AnswersAreRecorded
<1> QED BY <1>1, <1>2, IInvStep, PTL DEF Spec

-----------------------------------------------------------------------------
(* Why a checkpoint keeps its workspace: the workspace is there before the *)
(* first checkpoint, and a deletion that removes it has removed the        *)
(* checkpoint and lets no call in that could write another one.            *)
Gone == \A s \in Sessions : deletion[s].stage = "workspace" => s \notin persisted
WInv == IInv /\ CheckpointHasWorkspace /\ Gone

LEMMA WorkspaceStep == WInv /\ [Next]_vars => CheckpointHasWorkspace' /\ Gone'
<1> SUFFICES ASSUME WInv, [Next]_vars PROVE CheckpointHasWorkspace' /\ Gone'
  OBVIOUS
<1> USE ConstantAssumption DEF WInv, IInv
<1>1. ASSUME NEW e \in Delegations, Progress(e) PROVE CheckpointHasWorkspace' /\ Gone'
  <2>1. deletion' = deletion /\ workspace \subseteq workspace'
        /\ persisted' \subseteq persisted \cup {Target[e]}
    BY <1>1 DEF Progress, ListNamespaces, TrySlot, Permit, Replay, GiveUp, Build, Begin,
       Finish, Return, Fail, Cancel, CleanUp, Save
  <2>2. call[e] # NoCall /\ call[e] \in Call /\ deletion[Target[e]] = NoCall
    <3>1. call[e].stage # "idle"
      BY <1>1, IdleStage DEF Progress, ListNamespaces, TrySlot, Permit, Replay, GiveUp,
         Build, Begin, Finish, Return, Fail, Cancel, CleanUp, NoCall
    <3> QED BY <3>1, IdleStage, CallType DEF Alone
  <2>3. Gone'
    BY <2>1, <2>2 DEF Gone, NoCall
  <2>4. CASE call[e].stage \in {"built", "running", "recorded", "cleaning"}
    <3>1. Target[e] \in workspace
      BY <2>4 DEF CheckpointHasWorkspace
    <3>2. \A d \in Delegations : d # e => call'[d] = call[d]
      BY <1>1, OwnStep
    <3> QED BY <2>1, <2>3, <3>1, <3>2 DEF CheckpointHasWorkspace
  <2>5. CASE Build(e)
    <3>1. \A d \in Delegations : d # e => call'[d] = call[d]
      BY <1>1, OwnStep
    <3> QED BY <2>3, <2>5, <3>1 DEF Build, CheckpointHasWorkspace
  <2>6. CASE ListNamespaces(e) \/ TrySlot(e) \/ Permit(e) \/ Replay(e) \/ GiveUp(e)
    <3>1. persisted' = persisted /\ workspace' = workspace
      BY <2>6 DEF ListNamespaces, TrySlot, Permit, Replay, GiveUp
    <3>2. call'[e].stage \notin {"built", "running", "recorded", "cleaning"}
      BY <2>2, <2>6 DEF ListNamespaces, TrySlot, Permit, Replay, GiveUp, MoveTo, Leave,
         TypeOK, Call, NoCall
    <3>3. \A d \in Delegations : d # e => call'[d] = call[d]
      BY <1>1, OwnStep
    <3> QED BY <2>3, <3>1, <3>2, <3>3 DEF CheckpointHasWorkspace
  <2> QED
    BY <1>1, <2>4, <2>5, <2>6 DEF Progress, Begin, Finish, Return, Fail, Cancel, CleanUp
<1>2. ASSUME NEW e \in Delegations, NEW p \in Processes, Delegate(e, p)
      PROVE  CheckpointHasWorkspace' /\ Gone'
  <2>1. call'[e].stage \notin {"built", "running", "recorded", "cleaning"}
    BY <1>2 DEF Delegate, Leave, NoCall, TypeOK
  <2>2. \A d \in Delegations : d # e => call'[d] = call[d]
    BY <1>2 DEF Delegate, Leave, TypeOK
  <2> QED BY <1>2, <2>1, <2>2 DEF Delegate, CheckpointHasWorkspace, Gone
<1>3. ASSUME NEW s \in Sessions, NEW p \in Processes, StartDeletion(s, p)
      PROVE  CheckpointHasWorkspace' /\ Gone'
  BY <1>3 DEF StartDeletion, CheckpointHasWorkspace, Gone, TypeOK
<1>4. ASSUME NEW s \in Sessions, DeleteCheckpoint(s) PROVE CheckpointHasWorkspace' /\ Gone'
  BY <1>4 DEF DeleteCheckpoint, CheckpointHasWorkspace, Gone, TypeOK
<1>5. ASSUME NEW s \in Sessions, DeleteWorkspace(s) PROVE CheckpointHasWorkspace' /\ Gone'
  <2>1. s \notin persisted /\ deletion[s] # NoCall
    BY <1>5 DEF DeleteWorkspace, Gone, NoCall
  <2>2. \A d \in Delegations : Target[d] = s => call[d].stage = "idle"
    BY <2>1 DEF Alone, NoCall
  <2>3. CheckpointHasWorkspace'
    BY <1>5, <2>1, <2>2 DEF DeleteWorkspace, CheckpointHasWorkspace
  <2>4. Gone'
    BY <1>5 DEF DeleteWorkspace, Gone, TypeOK, NoCall
  <2> QED BY <2>3, <2>4
<1>6. ASSUME NEW s \in Sessions, AbortDeletion(s) PROVE CheckpointHasWorkspace' /\ Gone'
  BY <1>6 DEF AbortDeletion, CheckpointHasWorkspace, Gone, TypeOK, NoCall
<1>7. ASSUME NEW p \in Processes, Crash(p) PROVE CheckpointHasWorkspace' /\ Gone'
  <2>1. \A d \in Delegations : call'[d] = NoCall \/ call'[d] = call[d]
    BY <1>7 DEF Crash
  <2>2. \A s \in Sessions : deletion'[s] = NoCall \/ deletion'[s] = deletion[s]
    BY <1>7 DEF Crash
  <2> QED BY <1>7, <2>1, <2>2 DEF Crash, CheckpointHasWorkspace, Gone, NoCall
<1>8. CASE UNCHANGED vars
  BY <1>8 DEF vars, CheckpointHasWorkspace, Gone
<1> QED BY <1>1, <1>2, <1>3, <1>4, <1>5, <1>6, <1>7, <1>8 DEF Next

(* A Session with a checkpoint and an agent at work keep their workspace,  *)
(* however deletions, crashes and delegations interleave.                  *)
THEOREM WorkspaceKept == Spec => []CheckpointHasWorkspace
<1>1. Init => WInv
  BY ConstantAssumption
     DEF Init, WInv, IInv, TypeOK, Answers, Pending, Fresh, Alone, Kept, NoCall,
         CheckpointHasWorkspace, Gone
<1>2. WInv /\ [Next]_vars => WInv'
  BY IInvStep, WorkspaceStep DEF WInv
<1> QED BY <1>1, <1>2, PTL DEF Spec, WInv

-----------------------------------------------------------------------------
(* Why a result on record stands: a call that is going to execute has      *)
(* found none (Replay), and nobody else writes the record of a delegation  *)
(* before that call has come to its own final record.                      *)
Unrecorded(d) ==
    call[d].stage \in {"building", "built", "running"} => ~HasResult(d)
RInv == TypeOK /\ \A d \in Delegations : Unrecorded(d)

LEMMA UnrecordedStep == RInv /\ [Next]_vars => RInv'
<1> SUFFICES ASSUME RInv, [Next]_vars PROVE RInv'
  OBVIOUS
<1> TypeOK'
  BY TypeStep DEF RInv
<1> SUFFICES ASSUME NEW d \in Delegations PROVE Unrecorded(d)'
  BY DEF RInv
<1> USE DEF RInv
<1>1. ASSUME NEW e \in Delegations, Progress(e) PROVE Unrecorded(d)'
  <2>1. CASE d # e
    BY <1>1, <2>1, OwnStep DEF Unrecorded, HasResult
  <2>2. CASE d = e
    <3>1. call[e] \in Call
      <4>1. call[e].stage # "idle"
        BY <1>1 DEF Progress, ListNamespaces, TrySlot, Permit, Replay, GiveUp, Build,
           Begin, Finish, Return, Fail, Cancel, CleanUp
      <4> QED BY <4>1, IdleStage, CallType
    <3>2. CASE Replay(e)
      BY <2>2, <3>1, <3>2 DEF Replay, Leave, MoveTo, Unrecorded, HasResult, NoCall, TypeOK
    <3>3. CASE Build(e) \/ Begin(e)
      BY <2>2, <3>1, <3>3
         DEF Build, Begin, MoveTo, Save, Unrecorded, HasResult, TypeOK, Call
    <3>4. CASE ~(Replay(e) \/ Build(e) \/ Begin(e))
      <4>1. call'[e].stage \notin {"building", "built", "running"}
        BY <1>1, <3>1, <3>4
           DEF Progress, ListNamespaces, TrySlot, Permit, GiveUp, Finish, Return, Fail,
               Cancel, CleanUp, MoveTo, Leave, Conclude, NoCall, TypeOK, Call
      <4> QED BY <2>2, <4>1 DEF Unrecorded
    <3> QED BY <3>2, <3>3, <3>4
  <2> QED BY <2>1, <2>2
<1>2. ASSUME NEW e \in Delegations, NEW p \in Processes, Delegate(e, p) PROVE Unrecorded(d)'
  BY <1>2 DEF Delegate, Leave, NoCall, Unrecorded, HasResult, TypeOK
<1>3. ASSUME NEW s \in Sessions, DeleteCheckpoint(s) PROVE Unrecorded(d)'
  BY <1>3 DEF DeleteCheckpoint, Unrecorded, HasResult
<1>4. ASSUME NEW p \in Processes, Crash(p) PROVE Unrecorded(d)'
  BY <1>4 DEF Crash, NoCall, Unrecorded, HasResult
<1>5. CASE UNCHANGED <<call, record>>
  BY <1>5 DEF Unrecorded, HasResult
<1> QED BY <1>1, <1>2, <1>3, <1>4, <1>5
        DEF Next, vars, StartDeletion, DeleteWorkspace, AbortDeletion

LEMMA RecordStep ==
    ASSUME RInv, [Next]_vars, NEW d \in Delegations, HasResult(d), record'[d] # record[d]
    PROVE  call[d].stage = "recorded" \/ deletion[Target[d]].stage = "checkpoint"
<1>1. ASSUME NEW e \in Delegations, Progress(e) PROVE call[d].stage = "recorded"
  <2>1. d = e
    BY <1>1, OwnStep DEF RInv
  <2>2. call[d].stage \in {"built", "running", "recorded"}
    BY <1>1, <2>1 DEF Progress, ListNamespaces, TrySlot, Permit, Replay, GiveUp, Build,
       Begin, Finish, Return, Fail, Cancel, CleanUp
  <2> QED BY <2>2 DEF RInv, Unrecorded
<1>2. ASSUME NEW s \in Sessions, DeleteCheckpoint(s)
      PROVE  deletion[Target[d]].stage = "checkpoint"
  BY <1>2 DEF DeleteCheckpoint, RInv, TypeOK
<1> QED BY <1>1, <1>2
        DEF Next, vars, Delegate, StartDeletion, DeleteWorkspace, AbortDeletion, Crash

(* A result on record is not executed again: it goes only with its Session *)
(* or when its own call is stopped before the record has been returned, in *)
(* whichever process the planner resumes and however often.                *)
THEOREM ResultsStand == Spec => RecordedResultStands
<1>1. Init => RInv
  BY ConstantAssumption DEF Init, RInv, TypeOK, Answers, Unrecorded, HasResult, NoCall
<1>2. RInv /\ [Next]_vars =>
        [\A d \in Delegations :
            record[d] \in {"completed", "failed"} /\ record'[d] # record[d] =>
                \/ call[d].stage = "recorded"
                \/ deletion[Target[d]].stage = "checkpoint"]_vars
  BY RecordStep DEF HasResult
<1> QED BY <1>1, <1>2, UnrecordedStep, PTL DEF Spec, RecordedResultStands

-----------------------------------------------------------------------------
(***************************************************************************)
(* What a deletion of the Conversation leaves behind, and which turns it   *)
(* lets run.  The lock gives mutual exclusion (Exclusive); under it a      *)
(* deletion takes one part after the other (JobsInOrder), and a turn looks *)
(* for the tombstone.  Builds and threads of the sandbox hold no lock; the *)
(* sandbox's own tombstone is saved before the workspace goes, and stays.  *)
(***************************************************************************)
Holding == {"locked", "running"}

Exclusive ==
    /\ \A p, q \in Apis : turn[p] \in Holding /\ turn[q] \in Holding => p = q
    /\ \A v, w \in Workers : job[v] # "idle" /\ job[w] # "idle" => v = w
    /\ \A p \in Apis, w \in Workers : turn[p] \in Holding => job[w] = "idle"

JobsInOrder ==
    \A w \in Workers :
        /\ job[w] # "idle" => row # "gone"
        /\ job[w] \notin {"idle", "checked"} => tombstone
        /\ job[w] \in {"unthreaded", "unrecalled", "sealed", "bare"} => "thread" \notin parts
        /\ job[w] \in {"unrecalled", "sealed", "bare"} => "recall" \notin parts
        /\ job[w] \in {"sealed", "bare"} => sealed
        /\ job[w] = "bare" => "workspace" \notin parts

GoneIsBare == row = "gone" => tombstone /\ sealed /\ parts = {}

LifeInv == LifeTypeOK /\ Exclusive /\ JobsInOrder /\ GoneIsBare /\ NoRunOfDeleted

-----------------------------------------------------------------------------
(* Types.                                                                  *)

\* Initially every variable has its type.
LEMMA LifeTypeInit == LifeInit => LifeTypeOK
<1> SUFFICES ASSUME LifeInit PROVE LifeTypeOK
  OBVIOUS
<1>1. row \in {"draft", "live", "deleting", "gone"} /\ tombstone \in BOOLEAN
  BY DEF LifeInit
<1>2. parts \subseteq Parts /\ deletedKeys \subseteq Apis
  BY DEF LifeInit
<1>3. trouble \in 0..MaxTrouble
  BY LifeAssumption DEF LifeInit
<1> QED BY <1>1, <1>2, <1>3 DEF LifeInit, LifeTypeOK

\* A step of a turn keeps the types.
LEMMA LifeTypeTurn ==
    ASSUME LifeTypeOK, NEW p \in Apis,
           \/ Submit(p) \/ Resume(p) \/ Advance(p) \/ Write(p)
           \/ UseWorkspace(p) \/ Settle(p)
    PROVE  LifeTypeOK'
<1>1. CASE Submit(p)
  BY <1>1 DEF LifeTypeOK, Submit
<1>2. CASE Resume(p)
  BY <1>2 DEF LifeTypeOK, Resume
<1>3. CASE GetRuntime(p)
  BY <1>3 DEF LifeTypeOK, GetRuntime
<1>4. CASE Register(p) \/ Lock(p) \/ Check(p) \/ End(p)
  BY <1>4 DEF LifeTypeOK, Register, Lock, Check, End
<1>5. CASE Write(p)
  BY <1>5 DEF LifeTypeOK, Write, Parts
<1>6. CASE BuildRuntime(p) \/ UseWorkspace(p) \/ Settle(p)
  BY <1>6 DEF LifeTypeOK, BuildRuntime, UseWorkspace, Settle, Prepared, Parts
<1> QED BY <1>1, <1>2, <1>3, <1>4, <1>5, <1>6 DEF Advance

\* So does a step of a request, of a deletion, a crash or an upload.
LEMMA LifeTypeOther ==
    ASSUME LifeTypeOK, [LifeNext]_lifeVars,
           ~ \E p \in Apis : \/ Submit(p) \/ Resume(p) \/ Advance(p) \/ Write(p)
                            \/ UseWorkspace(p) \/ Settle(p)
    PROVE  LifeTypeOK'
<1> USE LifeAssumption
<1>1. CASE Upload
  BY <1>1 DEF LifeTypeOK, Upload, Prepared, Parts
<1>2. ASSUME NEW p \in Apis, NEW kind \in {"any", "draft"}, RequestCancel(p, kind)
      PROVE  LifeTypeOK'
  BY <1>2 DEF LifeTypeOK, RequestCancel
<1>3. ASSUME NEW p \in Apis, RequestMark(p) PROVE LifeTypeOK'
  BY <1>3 DEF LifeTypeOK, RequestMark
<1>4. ASSUME NEW p \in Apis, CrashApi(p) PROVE LifeTypeOK'
  BY <1>4 DEF LifeTypeOK, CrashApi, Mishap
<1>5. ASSUME NEW w \in Workers, StartJob(w) PROVE LifeTypeOK'
  BY <1>5 DEF LifeTypeOK, StartJob
<1>6. ASSUME NEW w \in Workers, Proceed(w) PROVE LifeTypeOK'
  BY <1>6 DEF LifeTypeOK, Proceed, SaveTombstone, Seal, DeletePart, DeleteRow
<1>7. ASSUME NEW w \in Workers, FailJob(w) PROVE LifeTypeOK'
  BY <1>7 DEF LifeTypeOK, FailJob, Mishap
<1>8. CASE UNCHANGED lifeVars
  BY <1>8 DEF LifeTypeOK, lifeVars
<1> QED BY <1>1, <1>2, <1>3, <1>4, <1>5, <1>6, <1>7, <1>8 DEF LifeNext

\* Every step keeps the types.
LEMMA LifeTypeStep == LifeTypeOK /\ [LifeNext]_lifeVars => LifeTypeOK'
BY LifeTypeTurn, LifeTypeOther

\* Every variable keeps its type in every behaviour.
THEOREM LifeTypeCorrect == LifeSpec => []LifeTypeOK
BY LifeTypeInit, LifeTypeStep, PTL DEF LifeSpec

-----------------------------------------------------------------------------
(* The invariant.                                                          *)

\* Initially nobody holds the lock and nothing is deleted.
LEMMA LifeStarts == LifeInit => LifeInv
BY LifeTypeInit DEF LifeInit, LifeInv, Exclusive, Holding, JobsInOrder, GoneIsBare,
       NoRunOfDeleted

\* A call of the sandbox adds the workspace or nothing.
LEMMA PreparedAdds == Prepared \in {parts, parts \cup {"workspace"}}
BY DEF Prepared

\* A turn takes the lock when it is free and runs when there is no tombstone; a build
\* or a thread adds nothing once the sandbox's tombstone is saved.
LEMMA LifeTurn ==
    ASSUME LifeInv, LifeTypeOK', NEW p \in Apis,
           \/ Submit(p) \/ Resume(p) \/ Advance(p) \/ Write(p)
           \/ UseWorkspace(p) \/ Settle(p)
    PROVE  LifeInv'
<1> USE DEF LifeInv, Holding
<1>1. CASE Submit(p)
  BY <1>1 DEF Submit, Found, LockFree, LifeTypeOK, Exclusive, JobsInOrder,
         GoneIsBare, NoRunOfDeleted
<1>2. CASE Resume(p)
  BY <1>2 DEF Resume, LifeTypeOK, Exclusive, JobsInOrder, GoneIsBare, NoRunOfDeleted
<1>3. CASE GetRuntime(p)
  BY <1>3 DEF GetRuntime, LifeTypeOK, Exclusive, JobsInOrder, GoneIsBare, NoRunOfDeleted
<1>4. CASE Register(p)
  BY <1>4 DEF Register, LifeTypeOK, Exclusive, JobsInOrder, GoneIsBare, NoRunOfDeleted
<1>5. CASE Lock(p)
  BY <1>5 DEF Lock, LockFree, LifeTypeOK, Exclusive, JobsInOrder, GoneIsBare,
         NoRunOfDeleted
<1>6. CASE Check(p)
  BY <1>6 DEF Check, LifeTypeOK, Exclusive, JobsInOrder, GoneIsBare, NoRunOfDeleted
<1>7. CASE End(p)
  BY <1>7 DEF End, LifeTypeOK, Exclusive, JobsInOrder, GoneIsBare, NoRunOfDeleted
<1>8. CASE Write(p)
  <2>1. ~tombstone /\ row # "gone"
    BY <1>8 DEF Write, NoRunOfDeleted, GoneIsBare
  <2>2. \A w \in Workers : job[w] = "idle"
    BY <1>8 DEF Write, Exclusive
  <2> QED BY <1>8, <2>1, <2>2 DEF Write, Exclusive, JobsInOrder, GoneIsBare,
                 NoRunOfDeleted
<1>9. CASE BuildRuntime(p)
  <2>1. ~sealed \/ parts' = parts
    BY <1>9 DEF BuildRuntime, Prepared
  <2> QED BY <1>9, <2>1, PreparedAdds DEF BuildRuntime, LifeTypeOK, Exclusive, JobsInOrder,
                 GoneIsBare, NoRunOfDeleted
<1>10. CASE UseWorkspace(p)
  BY <1>10 DEF UseWorkspace, Exclusive, JobsInOrder, GoneIsBare, NoRunOfDeleted
<1>11. CASE Settle(p)
  <2>1. ~sealed \/ parts' = parts
    BY <1>11 DEF Settle, Prepared
  <2> QED BY <1>11, <2>1, PreparedAdds DEF Settle, Exclusive, JobsInOrder,
                 GoneIsBare, NoRunOfDeleted
<1> QED BY <1>1, <1>2, <1>3, <1>4, <1>5, <1>6, <1>7, <1>8, <1>9, <1>10, <1>11
        DEF Advance

\* A request and a crash leave a deletion that is under way alone.
LEMMA LifeRequest ==
    ASSUME LifeInv, LifeTypeOK', NEW p \in Apis, NEW kind \in {"any", "draft"},
           RequestCancel(p, kind) \/ RequestMark(p) \/ CrashApi(p)
    PROVE  LifeInv'
<1> USE DEF LifeInv, Holding
<1>1. CASE RequestCancel(p, kind)
  BY <1>1 DEF RequestCancel, LifeTypeOK, Exclusive, JobsInOrder, GoneIsBare,
         NoRunOfDeleted
<1>2. CASE RequestMark(p)
  BY <1>2 DEF RequestMark, Exclusive, JobsInOrder, GoneIsBare, NoRunOfDeleted
<1>3. CASE CrashApi(p)
  BY <1>3 DEF CrashApi, LifeTypeOK, Exclusive, JobsInOrder, GoneIsBare, NoRunOfDeleted
<1> QED BY <1>1, <1>2, <1>3

\* A deletion holds the lock from its check to the end, and takes the parts in
\* their order.
LEMMA LifeJob ==
    ASSUME LifeInv, LifeTypeOK', NEW w \in Workers,
           StartJob(w) \/ Proceed(w) \/ FailJob(w)
    PROVE  LifeInv'
<1> USE DEF LifeInv, Holding
<1>1. CASE StartJob(w)
  BY <1>1 DEF StartJob, LockFree, Doomed, LifeTypeOK, Exclusive,
         JobsInOrder, GoneIsBare, NoRunOfDeleted
<1>2. CASE SaveTombstone(w)
  <2>1. \A p \in Apis : turn[p] \notin Holding
    BY <1>2 DEF SaveTombstone, Exclusive
  <2> QED
    BY <1>2, <2>1 DEF SaveTombstone, LifeTypeOK, Exclusive, JobsInOrder, GoneIsBare,
         NoRunOfDeleted
<1>3. CASE DeletePart(w, "marked", "thread", "unthreaded")
  BY <1>3 DEF DeletePart, LifeTypeOK, Exclusive, JobsInOrder, GoneIsBare, NoRunOfDeleted
<1>4. CASE DeletePart(w, "unthreaded", "recall", "unrecalled")
  BY <1>4 DEF DeletePart, LifeTypeOK, Exclusive, JobsInOrder, GoneIsBare, NoRunOfDeleted
<1>5. CASE DeletePart(w, "sealed", "workspace", "bare")
  BY <1>5 DEF DeletePart, LifeTypeOK, Exclusive, JobsInOrder, GoneIsBare, NoRunOfDeleted
<1>6. CASE DeleteRow(w)
  <2>1. tombstone /\ sealed /\ parts = {}
    BY <1>6 DEF DeleteRow, JobsInOrder, LifeTypeOK, Parts
  <2>2. \A v \in Workers : job'[v] = "idle"
    BY <1>6 DEF DeleteRow, Exclusive, LifeTypeOK
  <2> QED
    BY <1>6, <2>1, <2>2 DEF DeleteRow, Exclusive, JobsInOrder, GoneIsBare, NoRunOfDeleted
<1>7. CASE FailJob(w)
  BY <1>7 DEF FailJob, LifeTypeOK, Exclusive, JobsInOrder, GoneIsBare, NoRunOfDeleted
<1>8. CASE Seal(w)
  BY <1>8 DEF Seal, LifeTypeOK, Exclusive, JobsInOrder, GoneIsBare, NoRunOfDeleted
<1> QED BY <1>1, <1>2, <1>3, <1>4, <1>5, <1>6, <1>7, <1>8 DEF Proceed

\* Every step keeps the invariant.
LEMMA LifeStep == LifeInv /\ [LifeNext]_lifeVars => LifeInv'
<1> SUFFICES ASSUME LifeInv, [LifeNext]_lifeVars PROVE LifeInv'
  OBVIOUS
<1>1. LifeTypeOK'
  BY LifeTypeStep DEF LifeInv
<1>2. CASE UNCHANGED lifeVars
  BY <1>2 DEF lifeVars, LifeInv, LifeTypeOK, Exclusive, JobsInOrder, GoneIsBare,
         NoRunOfDeleted
<1>3. CASE Upload
  BY <1>1, <1>3, PreparedAdds DEF Upload, LockFree, Found, LifeInv, Holding, Exclusive,
         JobsInOrder, GoneIsBare, NoRunOfDeleted
<1>4. ASSUME NEW p \in Apis,
             \/ Submit(p) \/ Resume(p) \/ Advance(p) \/ Write(p)
             \/ UseWorkspace(p) \/ Settle(p)
             \/ \E kind \in {"any", "draft"} : RequestCancel(p, kind)
             \/ RequestMark(p) \/ CrashApi(p)
      PROVE  LifeInv'
  BY <1>1, <1>4, LifeTurn, LifeRequest
<1>5. ASSUME NEW w \in Workers, StartJob(w) \/ Proceed(w) \/ FailJob(w)
      PROVE LifeInv'
  BY <1>1, <1>5, LifeJob
<1> QED BY <1>2, <1>3, <1>4, <1>5 DEF LifeNext

\* The invariant holds in every behaviour.
THEOREM LifeInvariance == LifeSpec => []LifeInv
BY LifeStarts, LifeStep, PTL DEF LifeSpec

\* Nothing hangs on a Conversation whose row is gone.
THEOREM NothingLeftAlways == LifeSpec => []NothingLeft
<1>1. LifeInv => NothingLeft
  BY DEF LifeInv, GoneIsBare, NothingLeft
<1> QED BY <1>1, LifeInvariance, PTL

\* No process runs a Conversation whose tombstone is saved.
THEOREM NoRunOfDeletedAlways == LifeSpec => []NoRunOfDeleted
<1>1. LifeInv => NoRunOfDeleted
  BY DEF LifeInv
<1> QED BY <1>1, LifeInvariance, PTL

\* No two processes run the Conversation at once.
THEOREM OneTurnAlways == LifeSpec => []OneTurn
<1>1. LifeInv => OneTurn
  BY DEF LifeInv, Exclusive, Holding, OneTurn
<1> QED BY <1>1, LifeInvariance, PTL

-----------------------------------------------------------------------------
(* The refinement: every step is one of ConversationPromise or a stutter.  *)

\* Initially the Conversation is open and empty.
LEMMA PromiseInit == LifeInit => Promise!Init
BY DEF LifeInit, Promise!Init, Phase, Running

\* Turns: only Check lets a turn run, alone and before any tombstone.
LEMMA PromiseTurn ==
    ASSUME LifeInv, NEW p \in Apis,
           \/ Submit(p) \/ Resume(p) \/ Advance(p) \/ Write(p)
           \/ UseWorkspace(p) \/ Settle(p)
    PROVE  [Promise!Next]_(Promise!vars)
<1> USE DEF Promise!vars, Phase, Running
<1>1. CASE Submit(p)
  BY <1>1 DEF Submit, Found, LifeInv, LifeTypeOK
<1>2. CASE Resume(p)
  BY <1>2 DEF Resume, LifeInv, LifeTypeOK
<1>3. CASE GetRuntime(p)
  BY <1>3 DEF GetRuntime, LifeInv, LifeTypeOK
<1>4. CASE Register(p)
  BY <1>4 DEF Register, LifeInv, LifeTypeOK
<1>5. CASE Lock(p)
  BY <1>5 DEF Lock, LifeInv, LifeTypeOK
<1>6. CASE Check(p)
  <2>1. CASE tombstone
    BY <1>6, <2>1 DEF Check, LifeInv, LifeTypeOK
  <2>2. CASE ~tombstone
    <3>1. row # "gone"
      BY <2>2 DEF LifeInv, GoneIsBare
    <3>2. Running = {}
      BY <1>6 DEF Check, LifeInv, Exclusive, Holding
    <3>3. Running' = {p}
      BY <1>6, <2>2, <3>2 DEF Check, LifeInv, LifeTypeOK
    <3>4. Promise!Run(p)
      BY <1>6, <2>2, <3>1, <3>2, <3>3 DEF Promise!Run, Check
    <3> QED BY <3>4 DEF Promise!Next
  <2> QED BY <2>1, <2>2
<1>7. CASE End(p)
  <2>1. Running' = {}
    BY <1>7 DEF End, LifeInv, LifeTypeOK, Exclusive, Holding
  <2>2. Promise!Stop
    BY <1>7, <2>1 DEF Promise!Stop, End
  <2> QED BY <2>2 DEF Promise!Next
<1>8. CASE Write(p)
  <2>1. row # "gone"
    BY <1>8 DEF Write, LifeInv, GoneIsBare, NoRunOfDeleted
  <2>2. PICK part \in Parts : parts' = parts \cup {part}
    BY <1>8 DEF Write, Parts
  <2>3. Promise!Add(part)
    BY <1>8, <2>1, <2>2 DEF Promise!Add, Write
  <2> QED BY <2>3 DEF Promise!Next
<1>9. CASE UseWorkspace(p)
  BY <1>9 DEF UseWorkspace
<1>10. CASE BuildRuntime(p) \/ Settle(p)
  <2>1. parts' \in {parts, Prepared} /\ UNCHANGED <<Phase, Running>>
    BY <1>10 DEF BuildRuntime, Settle, LifeInv, LifeTypeOK
  <2>2. UNCHANGED Promise!vars \/ Promise!Add("workspace")
    BY <2>1 DEF Prepared, LifeInv, GoneIsBare, Promise!Add
  <2> QED BY <2>2 DEF Promise!Next, Parts
<1> QED BY <1>1, <1>2, <1>3, <1>4, <1>5, <1>6, <1>7, <1>8, <1>9, <1>10 DEF Advance

\* A request and a crash stop a turn or change nothing that is seen.
LEMMA PromiseRequest ==
    ASSUME LifeInv, NEW p \in Apis, NEW kind \in {"any", "draft"},
           RequestCancel(p, kind) \/ RequestMark(p) \/ CrashApi(p)
    PROVE  [Promise!Next]_(Promise!vars)
<1> USE DEF Promise!vars, Phase, Running
<1>1. CASE RequestMark(p)
  BY <1>1 DEF RequestMark
<1>2. CASE RequestCancel(p, kind) \/ CrashApi(p)
  <2>1. \/ Running' = Running
        \/ Running' = {}
    BY <1>2 DEF RequestCancel, CrashApi, LifeInv, LifeTypeOK, Exclusive, Holding
  <2>2. UNCHANGED <<Phase, parts>>
    BY <1>2 DEF RequestCancel, CrashApi
  <2> QED BY <2>1, <2>2 DEF Promise!Next, Promise!Stop
<1> QED BY <1>1, <1>2

\* A deletion closes the Conversation when no turn runs, and ends when it is bare.
LEMMA PromiseJob ==
    ASSUME LifeInv, NEW w \in Workers, StartJob(w) \/ Proceed(w) \/ FailJob(w)
    PROVE  [Promise!Next]_(Promise!vars)
<1> USE DEF Promise!vars, Phase, Running
<1>1. CASE StartJob(w) \/ FailJob(w) \/ Seal(w)
  BY <1>1 DEF StartJob, FailJob, Seal
<1>2. CASE SaveTombstone(w)
  <2>1. Running = {} /\ row # "gone"
    BY <1>2 DEF SaveTombstone, LifeInv, Exclusive, Holding, JobsInOrder
  <2>2. tombstone \/ Promise!Close
    BY <1>2, <2>1 DEF SaveTombstone, Promise!Close, LifeInv, LifeTypeOK
  <2> QED BY <1>2, <2>1, <2>2 DEF SaveTombstone, Promise!Next
<1>3. ASSUME NEW from \in {"marked", "unthreaded", "sealed"}, NEW part \in Parts, NEW to,
             DeletePart(w, from, part, to)
      PROVE  [Promise!Next]_(Promise!vars)
  <2>1. tombstone /\ row # "gone"
    BY <1>3 DEF DeletePart, LifeInv, JobsInOrder
  <2>2. Promise!Remove(part)
    BY <1>3, <2>1 DEF DeletePart, Promise!Remove
  <2> QED BY <2>2 DEF Promise!Next
<1>4. CASE DeleteRow(w)
  <2>1. tombstone /\ parts = {} /\ row # "gone"
    BY <1>4 DEF DeleteRow, LifeInv, JobsInOrder, LifeTypeOK, Parts
  <2>2. Promise!Vanish
    BY <1>4, <2>1 DEF DeleteRow, Promise!Vanish
  <2> QED BY <2>2 DEF Promise!Next
<1> QED BY <1>1, <1>2, <1>3, <1>4 DEF Proceed, Parts

\* Every step keeps the promise.
LEMMA PromiseStep == LifeInv /\ [LifeNext]_lifeVars => [Promise!Next]_(Promise!vars)
<1> SUFFICES ASSUME LifeInv, [LifeNext]_lifeVars PROVE [Promise!Next]_(Promise!vars)
  OBVIOUS
<1>1. CASE UNCHANGED lifeVars
  BY <1>1 DEF lifeVars, Promise!vars, Phase, Running
<1>2. CASE Upload
  <2>1. row # "gone" /\ parts' \in {parts, parts \cup {"workspace"}}
    BY <1>2, PreparedAdds DEF Upload, Found
  <2>2. UNCHANGED Promise!vars \/ Promise!Add("workspace")
    BY <1>2, <2>1 DEF Promise!vars, Promise!Add, Upload, Phase, Running
  <2> QED BY <2>2 DEF Promise!Next, Parts
<1>3. ASSUME NEW p \in Apis,
             \/ Submit(p) \/ Resume(p) \/ Advance(p) \/ Write(p)
             \/ UseWorkspace(p) \/ Settle(p)
             \/ \E kind \in {"any", "draft"} : RequestCancel(p, kind)
             \/ RequestMark(p) \/ CrashApi(p)
      PROVE  [Promise!Next]_(Promise!vars)
  BY <1>3, PromiseTurn, PromiseRequest
<1>4. ASSUME NEW w \in Workers, StartJob(w) \/ Proceed(w) \/ FailJob(w)
      PROVE  [Promise!Next]_(Promise!vars)
  BY <1>4, PromiseJob
<1> QED BY <1>1, <1>2, <1>3, <1>4 DEF LifeNext

\* The life cycle implements ConversationPromise.
THEOREM PromiseKept == LifeSpec => KeepsPromise
<1>1. LifeInit => Promise!Init
  BY PromiseInit
<1>2. LifeInv /\ [LifeNext]_lifeVars => [Promise!Next]_(Promise!vars)
  BY PromiseStep
<1> QED BY <1>1, <1>2, LifeInvariance, PTL DEF LifeSpec, KeepsPromise, Promise!Spec
=============================================================================
