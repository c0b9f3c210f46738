----------------------- MODULE ConversationLifecycle -----------------------
(***************************************************************************)
(* One Conversation between its turns and its deletion                     *)
(* (src/app/assistant/services/conversation_lifecycle.py,                  *)
(* conversation_turn.py, agents/manager.py).                               *)
(*                                                                         *)
(* The row in PostgreSQL, the tombstone, and what hangs on the             *)
(* Conversation (the LangGraph thread, its recall records, its workspace)  *)
(* are shared; every API process has a manager of Agents that keeps the    *)
(* deleted keys it knows of.  One advisory lock per Conversation, taken    *)
(* without waiting, serves the turns and the deletion alike.  What happens *)
(* under it in one transaction is one step.                                *)
(*                                                                         *)
(* The sandbox does not take that lock.  A runtime prepares the workspace  *)
(* while it is built, and a thread of the sandbox goes on when the task    *)
(* that started it is cancelled (asyncio.to_thread).  The sandbox has a    *)
(* tombstone of its own in Redis, and looks for it in the window in which  *)
(* it prepares a workspace (src/app/sandbox/manager.py).                   *)
(***************************************************************************)
EXTENDS Naturals, FiniteSets

CONSTANTS
    Apis,           \* API processes
    Workers,        \* worker processes that delete
    MaxTrouble      \* bound: failures and crashes

ASSUME LifeAssumption == Apis # {} /\ MaxTrouble \in Nat

VARIABLES
    row,            \* the Conversation: a draft, live, to be deleted, or gone
    tombstone,      \* ConversationTombstone
    sealed,         \* the sandbox's own tombstone of the Conversation, in Redis
    parts,          \* what hangs on the Conversation
    deletedKeys,    \* API processes that have it in _deleted_conversation_keys
    turn,           \* Api -> how far its turn is
    late,           \* API processes with a thread of the sandbox still to do its work
    request,        \* Api -> the deletion request that has cancelled the turn
    job,            \* Worker -> how far delete_conversation_resources is
    trouble         \* number of failures so far

lifeVars ==
    <<row, tombstone, sealed, parts, deletedKeys, turn, late, request, job, trouble>>

Parts == {"thread", "recall", "workspace"}

LifeTypeOK ==
    /\ row \in {"draft", "live", "deleting", "gone"}
    /\ tombstone \in BOOLEAN
    /\ sealed \in BOOLEAN
    /\ parts \subseteq Parts
    /\ deletedKeys \subseteq Apis
    /\ turn \in [Apis -> {"idle", "submitted", "building", "built",
                         "registered", "locked", "running"}]
    /\ late \subseteq Apis
    /\ request \in [Apis -> {"idle", "any", "draft"}]
    /\ job \in [Workers -> {"idle", "checked", "marked", "unthreaded", "unrecalled",
                           "sealed", "bare"}]
    /\ trouble \in 0..MaxTrouble

LifeInit ==
    /\ row \in {"draft", "live"}
    /\ tombstone = FALSE
    /\ sealed = FALSE
    /\ parts = {}
    /\ deletedKeys = {}
    /\ turn = [p \in Apis |-> "idle"]
    /\ late = {}
    /\ request = [p \in Apis |-> "idle"]
    /\ job = [w \in Workers |-> "idle"]
    /\ trouble = 0

Mishap == trouble < MaxTrouble /\ trouble' = trouble + 1

\* conversation_lifecycle_lock_name(user_id, conversation_id)
LockFree ==
    /\ \A p \in Apis : turn[p] \notin {"locked", "running"}
    /\ \A w \in Workers : job[w] = "idle"

\* fault: the sandbox does not ask for its tombstone
Prepared_Unasked == parts \cup {"workspace"}

\* what a call of the sandbox leaves, in its one maintenance window: assert_available,
\* then ensure_workspace
Prepared == IF sealed THEN parts ELSE parts \cup {"workspace"}

\* repository.get: a Conversation that is to be deleted is not found
Found == row \in {"draft", "live"}

-----------------------------------------------------------------------------
(* A turn: ConversationTurnService.start, resume, and execution.           *)

\* The lock is given back before the run is started.
Submit(p) ==
    /\ turn[p] = "idle" /\ LockFree /\ Found
    /\ row' = "live"
    /\ turn' = [turn EXCEPT ![p] = "submitted"]
    /\ UNCHANGED <<tombstone, sealed, parts, deletedKeys, late, request, job, trouble>>

\* no lock, and the Checkpoint must have something to resume
Resume(p) ==
    /\ turn[p] = "idle" /\ Found /\ "thread" \in parts /\ ~tombstone
    /\ turn' = [turn EXCEPT ![p] = "submitted"]
    /\ UNCHANGED <<row, tombstone, sealed, parts, deletedKeys, late, request, job, trouble>>

\* get_conversation_runtime: the runtime is in the cache, or it is built
GetRuntime(p) ==
    /\ turn[p] = "submitted"
    /\ deletedKeys' = IF tombstone THEN deletedKeys \cup {p} ELSE deletedKeys
    /\ \E way \in {"built", "building"} :
          turn' = [turn EXCEPT ![p] = IF p \in deletedKeys' THEN "idle" ELSE way]
    /\ UNCHANGED <<row, tombstone, sealed, parts, late, request, job, trouble>>

\* The build may take any time after the check, and asks the sandbox alone; it may
\* fail before the workspace is prepared or after it.
BuildRuntime(p) ==
    /\ turn[p] = "building"
    /\ parts' \in {parts, Prepared}
    /\ \/ turn' = [turn EXCEPT ![p] = "idle"]
       \/ ~sealed /\ parts' = Prepared /\ turn' = [turn EXCEPT ![p] = "built"]
    /\ UNCHANGED <<row, tombstone, sealed, deletedKeys, late, request, job, trouble>>

\* execution: the task is put on record for cancel_agent_execution
Register(p) ==
    /\ turn[p] = "built"
    /\ turn' = [turn EXCEPT ![p] = IF p \in deletedKeys THEN "idle" ELSE "registered"]
    /\ UNCHANGED <<row, tombstone, sealed, parts, deletedKeys, late, request, job, trouble>>

\* planner_lock: busy ends the turn
Lock(p) ==
    /\ turn[p] = "registered"
    /\ turn' = [turn EXCEPT ![p] = IF LockFree THEN "locked" ELSE "idle"]
    /\ UNCHANGED <<row, tombstone, sealed, parts, deletedKeys, late, request, job, trouble>>

\* fault: what get_conversation_runtime has seen is enough
Check_Skipped(p) ==
    /\ turn[p] = "locked"
    /\ turn' = [turn EXCEPT ![p] = "running"]
    /\ UNCHANGED <<row, tombstone, sealed, parts, deletedKeys, late, request, job, trouble>>

\* conversation_deleted, under the lock
Check(p) ==
    /\ turn[p] = "locked"
    /\ turn' = [turn EXCEPT ![p] = IF tombstone THEN "idle" ELSE "running"]
    /\ UNCHANGED <<row, tombstone, sealed, parts, deletedKeys, late, request, job, trouble>>

\* what the turn itself stores: checkpoints and recall records
Write(p) ==
    /\ turn[p] = "running"
    /\ \E part \in {"thread", "recall"} : parts' = parts \cup {part}
    /\ UNCHANGED <<row, tombstone, sealed, deletedKeys, turn, late, request, job, trouble>>

End(p) ==
    /\ turn[p] = "running"
    /\ turn' = [turn EXCEPT ![p] = "idle"]
    /\ UNCHANGED <<row, tombstone, sealed, parts, deletedKeys, late, request, job, trouble>>

\* A Tool starts a thread of the sandbox: a command, a file, a Session's backend.
UseWorkspace(p) ==
    /\ turn[p] = "running"
    /\ late' = late \cup {p}
    /\ UNCHANGED <<row, tombstone, sealed, parts, deletedKeys, turn, request, job, trouble>>

\* The thread does its work, whether or not anyone waits for it, or fails; a second
\* one may be left.
Settle(p) ==
    /\ p \in late
    /\ parts' \in {parts, Prepared}
    /\ late' \in {late, late \ {p}}
    /\ UNCHANGED <<row, tombstone, sealed, deletedKeys, turn, request, job, trouble>>

\* api_upload_attachment
Upload ==
    /\ LockFree /\ Found
    /\ parts' = Prepared
    /\ UNCHANGED <<row, tombstone, sealed, deletedKeys, turn, late, request, job, trouble>>

-----------------------------------------------------------------------------
(* request_conversation_deletion.                                          *)

\* cancel_agent_execution waits for the tasks it cancels, the build among them, and
\* not for their threads; a turn that is not on record yet meets the key later.
RequestCancel(p, kind) ==
    /\ request[p] = "idle"
    /\ deletedKeys' = deletedKeys \cup {p}
    /\ turn' = [turn EXCEPT ![p] =
          IF @ \in {"building", "registered", "locked", "running"} THEN "idle" ELSE @]
    /\ late' = IF turn[p] = "building" THEN late \cup {p} ELSE late
    /\ request' = [request EXCEPT ![p] = kind]
    /\ UNCHANGED <<row, tombstone, sealed, parts, job, trouble>>

\* the answer is: busy, not found, not a draft, or requested
RequestMark(p) ==
    /\ request[p] # "idle"
    /\ row' = IF LockFree /\ (row = "draft" \/ (row = "live" /\ request[p] = "any"))
              THEN "deleting" ELSE row
    /\ request' = [request EXCEPT ![p] = "idle"]
    /\ UNCHANGED <<tombstone, sealed, parts, deletedKeys, turn, late, job, trouble>>

-----------------------------------------------------------------------------
(* delete_conversation_resources, for the message of a request, for the    *)
(* periodic list of pending deletions, and for drafts that have expired.   *)

\* fault: only drafts are looked for
Doomed_Drafts == row = "draft"

Doomed == row \in {"deleting", "draft"}

StartJob(w) ==
    /\ job[w] = "idle" /\ LockFree /\ Doomed
    /\ job' = [job EXCEPT ![w] = "checked"]
    /\ UNCHANGED <<row, tombstone, sealed, parts, deletedKeys, turn, late, request, trouble>>

\* the tombstone comes first, so that no other process builds the thread anew
SaveTombstone(w) ==
    /\ job[w] = "checked"
    /\ tombstone' = TRUE
    /\ job' = [job EXCEPT ![w] = "marked"]
    /\ UNCHANGED <<row, sealed, parts, deletedKeys, turn, late, request, trouble>>

\* sandbox.delete_conversation: mark_conversation_deleted before the workspace goes
Seal(w) ==
    /\ job[w] = "unrecalled"
    /\ sealed' = TRUE
    /\ job' = [job EXCEPT ![w] = "sealed"]
    /\ UNCHANGED <<row, tombstone, parts, deletedKeys, turn, late, request, trouble>>

DeletePart(w, from, part, to) ==
    /\ job[w] = from
    /\ parts' = parts \ {part}
    /\ job' = [job EXCEPT ![w] = to]
    /\ UNCHANGED <<row, tombstone, sealed, deletedKeys, turn, late, request, trouble>>

DeleteRow(w) ==
    /\ job[w] = "bare"
    /\ row' = "gone"
    /\ job' = [job EXCEPT ![w] = "idle"]
    /\ UNCHANGED <<tombstone, sealed, parts, deletedKeys, turn, late, request, trouble>>

Proceed(w) ==
    \/ SaveTombstone(w)
    \/ DeletePart(w, "marked", "thread", "unthreaded")
    \/ DeletePart(w, "unthreaded", "recall", "unrecalled")
    \/ Seal(w)
    \/ DeletePart(w, "sealed", "workspace", "bare")
    \/ DeleteRow(w)

\* an error of one of the stores, or the worker's death
FailJob(w) ==
    /\ job[w] # "idle" /\ Mishap
    /\ job' = [job EXCEPT ![w] = "idle"]
    /\ UNCHANGED <<row, tombstone, sealed, parts, deletedKeys, turn, late, request>>

\* the process restarts; its connections' locks are gone
CrashApi(p) ==
    /\ Mishap
    /\ turn' = [turn EXCEPT ![p] = "idle"]
    /\ request' = [request EXCEPT ![p] = "idle"]
    /\ deletedKeys' = deletedKeys \ {p}
    /\ late' = late \ {p}
    /\ UNCHANGED <<row, tombstone, sealed, parts, job>>

-----------------------------------------------------------------------------
Advance(p) ==
    GetRuntime(p) \/ BuildRuntime(p) \/ Register(p) \/ Lock(p) \/ Check(p) \/ End(p)

LifeNext ==
    \/ Upload
    \/ \E p \in Apis :
        \/ Submit(p) \/ Resume(p) \/ Advance(p)
        \/ Write(p) \/ UseWorkspace(p) \/ Settle(p)
        \/ \E kind \in {"any", "draft"} : RequestCancel(p, kind)
        \/ RequestMark(p) \/ CrashApi(p)
    \/ \E w \in Workers : StartJob(w) \/ Proceed(w) \/ FailJob(w)

LifeSpec == LifeInit /\ [][LifeNext]_lifeVars

(* Turns end, the periodic task runs again and again, and a job goes on    *)
(* while nothing fails.                                                    *)
FairSpec ==
    /\ LifeSpec
    /\ \A p \in Apis : WF_lifeVars(Advance(p)) /\ WF_lifeVars(RequestMark(p))
    /\ \A w \in Workers : WF_lifeVars(StartJob(w)) /\ WF_lifeVars(Proceed(w))

-----------------------------------------------------------------------------
(* Properties.                                                             *)

\* What hangs on a Conversation is gone when its row is: nothing would find it
\* afterwards, and neither a late turn or build nor a thread of the sandbox that
\* nobody waits for brings it back.
NothingLeft == row = "gone" => parts = {}

\* Once the tombstone is saved no turn runs, in any process, not even one that
\* saw the Conversation alive before.
NoRunOfDeleted == tombstone => \A p \in Apis : turn[p] # "running"

\* Two processes never run the same Conversation.
OneTurn ==
    \A p, q \in Apis : turn[p] = "running" /\ turn[q] = "running" => p = q

\* What the rest of the system sees of it all.
Phase == IF row = "gone" THEN "gone" ELSE IF tombstone THEN "closed" ELSE "open"
Running == {p \in Apis : turn[p] = "running"}

Promise == INSTANCE ConversationPromise
    WITH Runners <- Apis, Things <- Parts,
         phase <- Phase, runner <- Running, things <- parts

\* Locks, tombstone, cancellations and retries add up to the promise: one turn at
\* a time, none beside or after a deletion, and a Conversation that goes only
\* when nothing hangs on it, and does not come back.
KeepsPromise == Promise!Spec

\* A deletion that has been requested is carried out, through failures, busy
\* locks and crashes.
DeletionCompletes == row = "deleting" ~> row = "gone"

=============================================================================
