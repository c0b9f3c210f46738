---------------------------- MODULE UserDeletion ----------------------------
(***************************************************************************)
(* The deletion of a user across the stores: src/app/workflows and         *)
(* identity/services/user_deletion_store.py, on top of the accounts.       *)
(*                                                                         *)
(* An administrator closes the account and leaves a task.  A periodic job  *)
(* claims the tasks that are due, which gives them a lease, and queues one *)
(* message for each; a worker removes the Conversations, the agents, the   *)
(* sandbox and last the account.  A run that fails writes down its failure *)
(* and is tried again by the queue, which also delivers the message of a   *)
(* worker that was lost a second time: several workers may carry out the   *)
(* same deletion.  Requests of the user that were authenticated before     *)
(* the account was closed go on beside it.                                 *)
(***************************************************************************)
EXTENDS Accounts

CONSTANTS Workers,
          MaxMessages,  \* bound on the messages in the queue
          MaxFaults     \* bound on failures and losses

ASSUME DeletionAssumption == MaxMessages \in Nat /\ MaxFaults \in Nat

VARIABLES task,      \* the row of user_deletion_tasks
          due,       \* next_attempt_at has passed
          queue,     \* messages of delete_user, by user
          worker,    \* what each worker is doing
          requests,  \* users with an authenticated request under way
          chats,     \* users with Conversations
          boxes,     \* users with a container or a volume
          quiet,     \* users whose deletion began without such a request
          faults

dvars == <<task, due, queue, worker, requests, chats, boxes, quiet, faults>>
vars == <<avars, dvars>>

Stages == {"chats", "sandbox", "account", "failed"}
Idle == [user |-> Founder, at |-> "idle"]

Init ==
  /\ AccountsInit
  /\ task = [u \in Users |-> "none"]
  /\ due = {}
  /\ queue = [u \in Users |-> 0]
  /\ worker = [w \in Workers |-> Idle]
  /\ requests = {} /\ chats = {} /\ boxes = {} /\ quiet = {}
  /\ faults = 0

-----------------------------------------------------------------------------
\* Requests of the user: authenticated once, and carried out later.
Authenticate(token) ==
  /\ Authenticates(token)
  /\ requests' = requests \cup {token[1]}
  /\ UNCHANGED <<avars, task, due, queue, worker, chats, boxes, quiet, faults>>

Carry(u) ==
  /\ u \in requests
  /\ requests' = requests \ {u}
  /\ \/ chats' = chats \cup {u} /\ UNCHANGED boxes
     \/ boxes' = boxes \cup {u} /\ UNCHANGED chats
     \/ UNCHANGED <<chats, boxes>>
  /\ UNCHANGED <<avars, task, due, queue, worker, quiet, faults>>

\* request: the account is closed and the task written in one transaction.
RequestDeletion(u) ==
  /\ CloseAccount(u)
  /\ task' = [task EXCEPT ![u] = "pending"]
  /\ due' = due \cup {u}
  /\ quiet' = IF task[u] = "none" /\ u \notin requests THEN quiet \cup {u} ELSE quiet
  /\ UNCHANGED <<queue, worker, requests, chats, boxes, faults>>

\* next_attempt_at comes: the end of a lease or of a waiting time.
Elapse(u) ==
  /\ task[u] = "pending"
  /\ u \notin due
  /\ due' = due \cup {u}
  /\ UNCHANGED <<avars, task, queue, worker, requests, chats, boxes, quiet, faults>>

\* A claim gives a lease and queues a message.  When that fails, or the
\* process ends in between, the task becomes due again later.
Dispatch(u) ==
  /\ task[u] = "pending" /\ u \in due
  /\ due' = due \ {u}
  /\ \/ /\ queue[u] < MaxMessages
        /\ queue' = [queue EXCEPT ![u] = @ + 1]
        /\ UNCHANGED faults
     \/ /\ faults < MaxFaults
        /\ faults' = faults + 1
        /\ UNCHANGED queue
  /\ UNCHANGED <<avars, task, worker, requests, chats, boxes, quiet>>

-----------------------------------------------------------------------------
Move(w, at) == worker' = [worker EXCEPT ![w].at = at]

\* The worker takes a message and extends the lease of a task that is open;
\* one that is completed is left alone.
Start(w, u) ==
  /\ worker[w].at = "idle"
  /\ queue[u] > 0
  /\ queue' = [queue EXCEPT ![u] = @ - 1]
  /\ worker' = IF task[u] = "completed" THEN worker
               ELSE [worker EXCEPT ![w] = [user |-> u, at |-> "chats"]]
  /\ due' = IF task[u] = "pending" THEN due \ {u} ELSE due
  /\ UNCHANGED <<avars, task, requests, chats, boxes, quiet, faults>>

\* The Conversations are listed and removed until none is left.
DeleteChats(w) ==
  /\ worker[w].at = "chats"
  /\ chats' = chats \ {worker[w].user}
  /\ Move(w, IF worker[w].user \in chats THEN "chats" ELSE "sandbox")
  /\ UNCHANGED <<avars, task, due, queue, requests, boxes, quiet, faults>>

DeleteSandbox(w) ==
  /\ worker[w].at = "sandbox"
  /\ boxes' = boxes \ {worker[w].user}
  /\ Move(w, "account")
  /\ UNCHANGED <<avars, task, due, queue, requests, chats, quiet, faults>>

Complete(w) ==
  /\ worker[w].at = "account"
  /\ RemoveAccount(worker[w].user)
  /\ task' = [task EXCEPT ![worker[w].user] = "completed"]
  /\ Move(w, "idle")
  /\ UNCHANGED <<due, queue, requests, chats, boxes, quiet, faults>>

\* A store refuses.
Fail(w) ==
  /\ worker[w].at \in Stages \ {"failed"}
  /\ faults < MaxFaults
  /\ faults' = faults + 1
  /\ Move(w, "failed")
  /\ UNCHANGED <<avars, task, due, queue, requests, chats, boxes, quiet>>

RecordFailure_Final(w) ==
  /\ worker[w].at = "failed"
  /\ task' = [task EXCEPT ![worker[w].user] = "failed"]
  /\ worker' = [worker EXCEPT ![w] = Idle]
  /\ UNCHANGED <<avars, due, queue, requests, chats, boxes, quiet, faults>>

\* The failure is written down unless the task is completed, and the queue
\* tries again, at most three times.
RecordFailure(w) ==
  LET u == worker[w].user IN
  /\ worker[w].at = "failed"
  /\ due' = IF task[u] # "completed" THEN due \ {u} ELSE due
  /\ \/ queue[u] < MaxMessages /\ queue' = [queue EXCEPT ![u] = @ + 1]
     \/ UNCHANGED queue
  /\ worker' = [worker EXCEPT ![w] = Idle]
  /\ UNCHANGED <<avars, task, requests, chats, boxes, quiet, faults>>

\* The worker is lost: its message goes back to the queue.
Lose(w) ==
  /\ worker[w].at # "idle"
  /\ faults < MaxFaults
  /\ faults' = faults + 1
  /\ queue[worker[w].user] < MaxMessages
  /\ queue' = [queue EXCEPT ![worker[w].user] = @ + 1]
  /\ worker' = [worker EXCEPT ![w] = Idle]
  /\ UNCHANGED <<avars, task, due, requests, chats, boxes, quiet>>

Work(w) ==
  \/ DeleteChats(w) \/ DeleteSandbox(w) \/ Complete(w)
  \/ RecordFailure(w)

Next ==
  \/ AccountStep /\ UNCHANGED dvars
  \/ \E token \in access : Authenticate(token)
  \/ \E u \in Users : RequestDeletion(u)
  \/ \E u \in Members : Carry(u) \/ Elapse(u) \/ Dispatch(u)
  \/ \E w \in Workers :
       \/ \E u \in Members : Start(w, u)
       \/ Work(w) \/ Fail(w) \/ Lose(w)

Progress(u) ==
  \/ Elapse(u) \/ Dispatch(u)
  \/ \E w \in Workers : Start(w, u) \/ (worker[w].user = u /\ Work(w))

(* Transactions end, and something that serves a deletion happens as long  *)
(* as it can: clocks go on, the periodic job comes back, and the workers   *)
(* take what is queued and wait their turn for the security lock.          *)
Fairness ==
  /\ WF_vars((UpdateWrite \/ Rollback) /\ UNCHANGED dvars)
  /\ \A u \in Members : SF_vars(Progress(u))

Spec == Init /\ [][Next]_vars /\ Fairness

-----------------------------------------------------------------------------
TypeOK ==
  /\ AccountsTypeOK
  /\ task \in [Users -> {"none", "pending", "completed"}]
  /\ due \subseteq Users
  /\ queue \in [Users -> 0..MaxMessages]
  /\ worker \in [Workers -> [user : Users, at : Stages \cup {"idle"}]]
  /\ requests \subseteq Users /\ chats \subseteq Users
  /\ boxes \subseteq Users /\ quiet \subseteq Users
  /\ faults \in 0..MaxFaults

(* A deletion that began while no request of the user was under way leaves *)
(* nothing of the user: no Conversation, no sandbox, no request.  What a   *)
(* closed account may no longer do, and the order of the stores, carry it. *)
CompletedLeavesNothing ==
  \A u \in quiet : task[u] = "completed" => u \notin chats \cup boxes \cup requests

(* The account and its task agree, whichever worker comes last: an account *)
(* is removed exactly when its task is completed, and stays removed.       *)
CompletedMeansGone ==
  \A u \in Users : /\ task[u] = "completed" <=> row[u].status = "gone"
                   /\ task[u] = "pending" <=> row[u].status = "closed"

(* A deletion that has been requested is completed.                        *)
DeletionCompletes ==
  \A u \in Members : task[u] = "pending" ~> task[u] = "completed"
=============================================================================
