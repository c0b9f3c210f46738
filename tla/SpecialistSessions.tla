------------------------- MODULE SpecialistSessions -------------------------
(***************************************************************************)
(* The specialist Sessions of one Conversation: delegations that run in    *)
(* them, their deletion, and the crash of a process                        *)
(* (src/app/assistant/agents/session_service.py and session_store.py).     *)
(*                                                                         *)
(* Every process has a service of its own; they share the checkpoints, the *)
(* workspaces and the PostgreSQL advisory locks.  A lock belongs to the    *)
(* call that holds it and is tried, never waited for; it goes when the     *)
(* call leaves its scope or its process dies.  A connection that breaks    *)
(* while its process lives on is not modelled.  The planner has one call   *)
(* per delegation id under way (its own lock sees to that) and repeats a   *)
(* call when it resumes from its checkpoint.  Messages, artifacts and the  *)
(* retry for a malformed result are left out.                              *)
(***************************************************************************)
EXTENDS Integers, FiniteSets

CONSTANTS
    Processes, Sessions, Delegations,
    Target,         \* Delegation -> the Session it names
    MaxSessions,    \* max_sessions of the Conversation
    MaxParallel,    \* max_parallel_sessions of a process
    MaxCalls        \* bound: calls of one delegation

ASSUME ConstantAssumption ==
    /\ IsFiniteSet(Sessions) /\ Target \in [Delegations -> Sessions]
    /\ MaxSessions \in Nat \ {0} /\ MaxParallel \in Nat \ {0} /\ MaxCalls \in Nat

VARIABLES
    call,           \* Delegation -> its call of execute_delegation
    calls,          \* Delegation -> number of its calls so far
    deletion,       \* Session -> its call of delete_session
    persisted,      \* Sessions with a checkpoint
    record,         \* Delegation -> its DelegationCheckpointRecord
    workspace,      \* Sessions with a workspace in the sandbox
    answer          \* Delegation -> what the planner was last told

vars == <<call, calls, deletion, persisted, record, workspace, answer>>

NoSlot == -1
NoCall == [stage |-> "idle"]

Stages == {"locked", "listed", "admitted", "permitted", "building", "built",
           "running", "recorded", "cleaning"}
Answers == {"none", "completed", "failed"}

\* slot: the capacity slot the call tries or holds;  outcome: what it returns
Call == [stage : Stages, process : Processes, slot : {NoSlot} \cup 0..MaxSessions,
         outcome : Answers]

Deletion == [stage : {"checkpoint", "workspace"}, process : Processes]

TypeOK ==
    /\ call \in [Delegations -> {NoCall} \cup Call]
    /\ calls \in [Delegations -> 0..MaxCalls]
    /\ deletion \in [Sessions -> {NoCall} \cup Deletion]
    /\ persisted \subseteq Sessions
    /\ record \in [Delegations -> {"none", "running", "completed", "failed", "cancelled"}]
    /\ workspace \subseteq Sessions
    /\ answer \in [Delegations -> Answers]

Init ==
    /\ call = [d \in Delegations |-> NoCall]
    /\ calls = [d \in Delegations |-> 0]
    /\ deletion = [s \in Sessions |-> NoCall]
    /\ persisted = {}
    /\ record = [d \in Delegations |-> "none"]
    /\ workspace = {}
    /\ answer = [d \in Delegations |-> "none"]

-----------------------------------------------------------------------------
(* The locks and the semaphore, read off the calls that hold them.         *)

\* fault: delete_session takes no lock
SessionFree_Calls(s) == \A d \in Delegations : Target[d] = s => call[d] = NoCall

\* advisory_lock("specialist:<thread>:<namespace>")
SessionFree(s) ==
    /\ \A d \in Delegations : Target[d] = s => call[d] = NoCall
    /\ deletion[s] = NoCall

\* advisory_lock("specialist-capacity:<thread>:<slot>")
SlotFree(k) ==
    \A d \in Delegations :
        call[d] # NoCall /\ call[d].slot = k => call[d].stage = "listed"

\* the semaphore of one process
Permits(p) ==
    Cardinality({d \in Delegations :
        /\ call[d] # NoCall /\ call[d].process = p
        /\ call[d].stage \notin {"locked", "listed", "admitted"}})

-----------------------------------------------------------------------------
(* execute_delegation: admission.                                          *)

MoveTo(d, stage) == call' = [call EXCEPT ![d].stage = stage]

\* every lock is released on the way out
Leave(d, told) ==
    /\ call' = [call EXCEPT ![d] = NoCall]
    /\ answer' = [answer EXCEPT ![d] = told]

Delegate(d, p) ==
    /\ call[d] = NoCall /\ calls[d] < MaxCalls
    /\ calls' = [calls EXCEPT ![d] = @ + 1]
    /\ IF SessionFree(Target[d])
       THEN /\ call' = [call EXCEPT ![d] = [stage |-> "locked", process |-> p,
                                            slot |-> NoSlot, outcome |-> "none"]]
            /\ UNCHANGED answer
       ELSE Leave(d, "failed")
    /\ UNCHANGED <<deletion, persisted, record, workspace>>

\* reserve_capacity: a Session that is listed already needs no slot
ListNamespaces(d) ==
    /\ call[d].stage = "locked"
    /\ CASE Target[d] \in persisted -> MoveTo(d, "admitted") /\ UNCHANGED answer
         [] Target[d] \notin persisted /\ Cardinality(persisted) >= MaxSessions ->
                Leave(d, "failed")
         [] OTHER -> /\ call' = [call EXCEPT ![d].stage = "listed",
                                             ![d].slot = Cardinality(persisted)]
                     /\ UNCHANGED answer
    /\ UNCHANGED <<calls, deletion, persisted, record, workspace>>

\* one round of the loop over the slots
TrySlot(d) ==
    /\ call[d].stage = "listed"
    /\ CASE call[d].slot >= MaxSessions -> Leave(d, "failed")
         [] call[d].slot < MaxSessions /\ SlotFree(call[d].slot) ->
                MoveTo(d, "admitted") /\ UNCHANGED answer
         [] OTHER -> call' = [call EXCEPT ![d].slot = @ + 1] /\ UNCHANGED answer
    /\ UNCHANGED <<calls, deletion, persisted, record, workspace>>

\* _acquire_nowait(self._parallelism)
Permit(d) ==
    /\ call[d].stage = "admitted"
    /\ IF Permits(call[d].process) < MaxParallel
       THEN MoveTo(d, "permitted") /\ UNCHANGED answer
       ELSE Leave(d, "failed")
    /\ UNCHANGED <<calls, deletion, persisted, record, workspace>>

\* fault: only a success is found again when the planner resumes
HasResult_Completed(d) == record[d] = "completed"

\* replayed_result: a running or a cancelled record holds no result
HasResult(d) == record[d] \in {"completed", "failed"}

\* The result found is checked again, and its repair targets may be gone.
Replay(d) ==
    /\ call[d].stage = "permitted"
    /\ IF HasResult(d)
       THEN \E told \in {record[d], "failed"} : Leave(d, told)
       ELSE MoveTo(d, "building") /\ UNCHANGED answer
    /\ UNCHANGED <<calls, deletion, persisted, record, workspace>>

\* An error is answered, a cancellation is not; neither is recorded before
\* the agent has been built.
GiveUp(d) ==
    /\ call[d] # NoCall
    /\ call[d].stage \in {"locked", "listed", "admitted", "permitted", "building"}
    /\ \E told \in {"failed", answer[d]} : Leave(d, told)
    /\ UNCHANGED <<calls, deletion, persisted, record, workspace>>

-----------------------------------------------------------------------------
(* _invoke_specialist.                                                     *)

\* the backend creates the workspace
Build(d) ==
    /\ call[d].stage = "building"
    /\ MoveTo(d, "built")
    /\ workspace' = workspace \cup {Target[d]}
    /\ UNCHANGED <<calls, deletion, persisted, record, answer>>

Save(d, status) ==
    /\ persisted' = persisted \cup {Target[d]}
    /\ record' = [record EXCEPT ![d] = status]

\* the first checkpoint holds the running record
Begin(d) ==
    /\ call[d].stage = "built"
    /\ MoveTo(d, "running") /\ Save(d, "running")
    /\ UNCHANGED <<calls, deletion, workspace, answer>>

\* fault: an error while the final record is written goes unnoticed
Finish_MayNotRecord(d) ==
    /\ call[d].stage = "running"
    /\ MoveTo(d, "recorded")
    /\ Save(d, "completed") \/ UNCHANGED <<persisted, record>>
    /\ UNCHANGED <<calls, deletion, workspace, answer>>

\* the final record is written, and aupdate_state has not returned yet
Finish(d) ==
    /\ call[d].stage = "running"
    /\ MoveTo(d, "recorded") /\ Save(d, "completed")
    /\ UNCHANGED <<calls, deletion, workspace, answer>>

Conclude(d, outcome) ==
    call' = [call EXCEPT ![d].stage = "cleaning", ![d].outcome = outcome]

Return(d) ==
    /\ call[d].stage = "recorded" /\ Conclude(d, "completed")
    /\ UNCHANGED <<calls, deletion, persisted, record, workspace, answer>>

\* The handlers for an error and for a cancellation write a record, and that
\* may fail too.  Both may hit while the final record is being written.
Fail(d) ==
    /\ call[d].stage \in {"built", "running", "recorded"}
    /\ Conclude(d, "failed")
    /\ Save(d, "failed") \/ UNCHANGED <<persisted, record>>
    /\ UNCHANGED <<calls, deletion, workspace, answer>>

Cancel(d) ==
    /\ call[d].stage \in {"built", "running", "recorded"}
    /\ Conclude(d, "none")
    /\ Save(d, "cancelled") \/ UNCHANGED <<persisted, record>>
    /\ UNCHANGED <<calls, deletion, workspace, answer>>

\* _cleanup_agent_run is shielded; a cancellation meanwhile loses the answer
CleanUp(d) ==
    /\ call[d].stage = "cleaning"
    /\ \E told \in {call[d].outcome, "none"} :
        Leave(d, IF told = "none" THEN answer[d] ELSE told)
    /\ UNCHANGED <<calls, deletion, persisted, record, workspace>>

-----------------------------------------------------------------------------
(* delete_session, in the order of the code: checkpoint, then workspace.   *)

StartDeletion(s, p) ==
    /\ SessionFree(s) /\ s \in persisted \cup workspace
    /\ deletion' = [deletion EXCEPT ![s] = [stage |-> "checkpoint", process |-> p]]
    /\ UNCHANGED <<call, calls, persisted, record, workspace, answer>>

\* what the planner was told of the Session no longer binds anyone
DeleteCheckpoint(s) ==
    /\ deletion[s].stage = "checkpoint"
    /\ deletion' = [deletion EXCEPT ![s].stage = "workspace"]
    /\ persisted' = persisted \ {s}
    /\ record' = [d \in Delegations |-> IF Target[d] = s THEN "none" ELSE record[d]]
    /\ answer' = [d \in Delegations |-> IF Target[d] = s THEN "none" ELSE answer[d]]
    /\ UNCHANGED <<call, calls, workspace>>

DeleteWorkspace(s) ==
    /\ deletion[s].stage = "workspace"
    /\ deletion' = [deletion EXCEPT ![s] = NoCall]
    /\ workspace' = workspace \ {s}
    /\ UNCHANGED <<call, calls, persisted, record, answer>>

AbortDeletion(s) ==
    /\ deletion[s] # NoCall
    /\ deletion' = [deletion EXCEPT ![s] = NoCall]
    /\ UNCHANGED <<call, calls, persisted, record, workspace, answer>>

\* the process dies, and its advisory locks with its connections
Crash(p) ==
    /\ call' = [d \in Delegations |->
          IF call[d] # NoCall /\ call[d].process = p THEN NoCall ELSE call[d]]
    /\ deletion' = [s \in Sessions |->
          IF deletion[s] # NoCall /\ deletion[s].process = p THEN NoCall ELSE deletion[s]]
    /\ UNCHANGED <<calls, persisted, record, workspace, answer>>

-----------------------------------------------------------------------------
Progress(d) ==
    \/ ListNamespaces(d) \/ TrySlot(d) \/ Permit(d) \/ Replay(d) \/ GiveUp(d)
    \/ Build(d) \/ Begin(d) \/ Finish(d) \/ Return(d) \/ Fail(d) \/ Cancel(d)
    \/ CleanUp(d)

Next ==
    \/ \E d \in Delegations : Progress(d) \/ \E p \in Processes : Delegate(d, p)
    \/ \E s \in Sessions :
        \/ \E p \in Processes : StartDeletion(s, p)
        \/ DeleteCheckpoint(s) \/ DeleteWorkspace(s) \/ AbortDeletion(s)
    \/ \E p \in Processes : Crash(p)

Spec == Init /\ [][Next]_vars

-----------------------------------------------------------------------------
(* What is promised of the Sessions.                                       *)

(* As long as the Session has not been deleted, a success that was told to *)
(* the planner is the one on record: not overwritten by a repeated call,   *)
(* by another process, or by the failure of a later one, so that a planner *)
(* that resumes from an older checkpoint meets it again.                   *)
AnswersAreRecorded ==
    \A d \in Delegations : answer[d] = "completed" => record[d] = "completed"

(* A result on record - a failure as well as a success - is not executed   *)
(* again when the planner resumes: it goes only with its Session, or when  *)
(* its own call is stopped before aupdate_state has returned.              *)
RecordedResultStands ==
    [][\A d \in Delegations :
        record[d] \in {"completed", "failed"} /\ record'[d] # record[d] =>
            \/ call[d].stage = "recorded"
            \/ deletion[Target[d]].stage = "checkpoint"]_vars

(* A Session with a checkpoint, whose artifacts name files, keeps its      *)
(* workspace, and so does an agent at work, whoever deletes the Session    *)
(* and whatever fails in between.                                          *)
CheckpointHasWorkspace ==
    /\ persisted \subseteq workspace
    /\ \A d \in Delegations :
        call[d].stage \in {"built", "running", "recorded", "cleaning"} =>
            Target[d] \in workspace
=============================================================================
