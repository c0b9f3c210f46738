-------------------------- MODULE SandboxOwnership --------------------------
(***************************************************************************)
(* The Docker containers of the users, shared by every API and worker      *)
(* process (src/app/sandbox/ownership.py, runtime_pool.py, manager.py,     *)
(* backend.py).                                                            *)
(*                                                                         *)
(* A user has one container and one volume.  Threads of any process run    *)
(* operations in it, prepare and delete workspaces, stop it when it is     *)
(* idle or when another user needs its place, and delete it.  What keeps   *)
(* them apart is in Redis: the lock `capacity', a lock per user for        *)
(* structural changes (`mutation'), a lock per user and per Conversation   *)
(* that closes the entry to new operations (`gate'), the leases of the     *)
(* operations, and the tombstones.  A thread holds what it has taken until *)
(* it releases it, or, if its process died, until the keys expire.         *)
(***************************************************************************)
EXTENDS Naturals, FiniteSets

CONSTANTS
    Threads,        \* threads of all the processes
    Users,
    Conversations,
    Owner,          \* Conversation -> its user
    MaxRunning,     \* max_running_containers
    MaxCalls,       \* bound: calls that are made
    MaxTrouble      \* bound: time-outs, failures, lapsed leases and deaths

ASSUME ConstantAssumption ==
    /\ Owner \in [Conversations -> Users]
    /\ Users \cap Conversations = {}
    /\ IsFiniteSet(Users)
    /\ MaxRunning \in Nat \ {0} /\ MaxCalls \in Nat /\ MaxTrouble \in Nat

VARIABLES
    call,           \* Thread -> the call it executes
    held,           \* Thread -> the locks it holds
    lease,          \* threads whose operation has a lease that has not expired
    flagged,        \* threads in _operation_renewal_failures
    container,      \* User -> what Docker says of the container
    volume,         \* users with a data volume
    workspace,      \* Conversations with a directory on it
    tombstone,      \* deleted users and Conversations, in Redis
    deleted,        \* those whose deletion has returned (history)
    calls, trouble

vars == <<call, held, lease, flagged, container, volume, workspace, tombstone,
          deleted, calls, trouble>>
redis == <<held, lease, flagged, tombstone>>
docker == <<container, volume, workspace>>

Capacity == <<"capacity", "all">>
Gate(x) == <<"gate", x>>
Mutation(u) == <<"mutation", u>>
Locks == {Capacity} \cup {Gate(x) : x \in Users \cup Conversations}
                    \cup {Mutation(u) : u \in Users}

\* of one Conversation: an operation of the backend, the preparation of a
\* workspace or an upload, the removal of a file or a Session, the deletion
OnConversation == {"operation", "write", "tidy", "deleteConversation"}
\* of a whole user
OnUser == {"reclaim", "deleteUser"}

Stages == {"entering", "draining", "reserving", "seeking", "looking", "starting",
           "evicting", "gating", "clearing", "displacing", "locking", "working",
           "purging", "using", "dead"}
Idle == [kind |-> "none", stage |-> "idle"]
Call == [kind : OnConversation \cup OnUser, on : Users \cup Conversations,
         stage : Stages, second : BOOLEAN, rivals : SUBSET Users, rival : Users]

UserOf(x) == IF x \in Conversations THEN Owner[x] ELSE x
User(t) == UserOf(call[t].on)
At(t, stage) == call[t].stage = stage
Kind(t) == call[t].kind

Free(l) == \A t \in Threads : l \notin held[t]
Running == {u \in Users : container[u] = "running"}

\* the members of active:user and active:conversation
LeasesOn(x) == {t \in lease : call[t].on = x \/ User(t) = x}

TypeOK ==
    /\ call \in [Threads -> Call \cup {Idle}]
    /\ \A t \in Threads :
        /\ Kind(t) \in OnConversation => call[t].on \in Conversations
        /\ Kind(t) \in OnUser => call[t].on \in Users
    /\ held \in [Threads -> SUBSET Locks]
    /\ \A s, t \in Threads : s # t => held[s] \cap held[t] = {}
    /\ \A t \in Threads : At(t, "idle") => held[t] = {} /\ t \notin lease
    /\ lease \subseteq Threads /\ flagged \subseteq Threads
    /\ container \in [Users -> {"none", "stopped", "running"}]
    /\ volume \subseteq Users /\ workspace \subseteq Conversations
    /\ tombstone \subseteq Users \cup Conversations
    /\ deleted \subseteq Users \cup Conversations
    /\ calls \in 0..MaxCalls /\ trouble \in 0..MaxTrouble

\* The containers and volumes of an earlier time, nobody at work.
Init ==
    /\ call = [t \in Threads |-> Idle]
    /\ held = [t \in Threads |-> {}]
    /\ lease = {} /\ flagged = {}
    /\ container \in [Users -> {"none", "stopped", "running"}]
    /\ Cardinality(Running) <= MaxRunning
    /\ volume = {u \in Users : container[u] # "none"}
    /\ workspace = {c \in Conversations : Owner[c] \in volume}
    /\ tombstone = {} /\ deleted = {}
    /\ calls = 0 /\ trouble = 0

Goto(t, stage) == call' = [call EXCEPT ![t].stage = stage]
Take(t, l) == Free(l) /\ held' = [held EXCEPT ![t] = @ \cup {l}]
Drop(t, ls) == held' = [held EXCEPT ![t] = @ \ ls]

\* The with blocks are left, by a return or by an exception.
Leave(t) ==
    /\ held' = [held EXCEPT ![t] = {}]
    /\ lease' = lease \ {t} /\ flagged' = flagged \ {t}
    /\ call' = [call EXCEPT ![t] = Idle]

Raise(t) == Leave(t) /\ UNCHANGED <<docker, tombstone, deleted, calls>>

-----------------------------------------------------------------------------
(* Entering.                                                               *)

Begin(t, kind, x) ==
    /\ At(t, "idle") /\ calls < MaxCalls
    /\ x \in IF kind \in OnConversation THEN Conversations ELSE Users
    /\ kind = "reclaim" => container[x] # "none"
    /\ calls' = calls + 1
    /\ call' = [call EXCEPT ![t] =
            [kind |-> kind, on |-> x, stage |-> "entering", second |-> FALSE,
             rivals |-> {}, rival |-> UserOf(x)]]
    /\ UNCHANGED <<redis, docker, deleted, trouble>>

\* fault: the script looks at the gate of the Conversation only.
Register_OwnGateOnly(t) ==
    /\ At(t, "entering") /\ Kind(t) = "operation"
    /\ {User(t), call[t].on} \cap tombstone = {}
    /\ Free(Gate(call[t].on))
    /\ lease' = lease \cup {t}
    /\ Goto(t, "seeking")
    /\ UNCHANGED <<held, flagged, tombstone, docker, deleted, calls, trouble>>

\* the script: tombstones, gates and lease in one step
Register(t) ==
    /\ At(t, "entering") /\ Kind(t) = "operation"
    /\ \/ /\ {User(t), call[t].on} \cap tombstone # {}
          /\ Raise(t)
       \/ /\ {User(t), call[t].on} \cap tombstone = {}
          /\ Free(Gate(User(t))) /\ Free(Gate(call[t].on))
          /\ lease' = lease \cup {t}
          /\ Goto(t, "seeking")
          /\ UNCHANGED <<held, flagged, tombstone, docker, deleted, calls>>
    /\ UNCHANGED trouble

\* conversation_maintenance and user_maintenance: the gate
Enter(t) ==
    /\ At(t, "entering") /\ Kind(t) # "operation"
    /\ Take(t, Gate(call[t].on))
    /\ Goto(t, "draining")
    /\ UNCHANGED <<lease, flagged, tombstone, docker, deleted, calls, trouble>>

Idled(x) == LeasesOn(x) = {}

\* write, reclaim and deleteUser, once the operations have ended
Drain(t) ==
    /\ At(t, "draining") /\ Idled(call[t].on)
    /\ Kind(t) \in {"write", "reclaim", "deleteUser"}
    /\ Goto(t, IF Kind(t) = "write" THEN "locking" ELSE "reserving")
    /\ UNCHANGED <<redis, docker, deleted, calls, trouble>>

\* deleteConversation marks, the others ask; no data, nothing to do
DrainThenRun(t) ==
    /\ At(t, "draining") /\ Idled(call[t].on)
    /\ Kind(t) \in {"tidy", "deleteConversation"}
    /\ \/ /\ Kind(t) = "tidy" /\ {User(t), call[t].on} \cap tombstone # {}
          /\ Raise(t)
       \/ /\ Kind(t) = "tidy" => {User(t), call[t].on} \cap tombstone = {}
          /\ tombstone' = IF Kind(t) = "tidy" THEN tombstone
                                              ELSE tombstone \cup {call[t].on}
          /\ IF container[User(t)] # "none" \/ User(t) \in volume
             THEN Goto(t, "seeking") /\ UNCHANGED <<held, lease, flagged, deleted>>
             ELSE /\ Leave(t)
                  /\ deleted' = deleted \cup (tombstone' \cap {call[t].on})
          /\ UNCHANGED <<docker, calls>>
    /\ UNCHANGED trouble

-----------------------------------------------------------------------------
(* DockerRuntimePool.get_running                                           *)

\* fault: the containers are counted without the lock.
Reserve_NoLock(t) ==
    /\ At(t, "seeking") /\ User(t) \notin tombstone
    /\ Goto(t, "looking")
    /\ UNCHANGED <<redis, docker, deleted, calls, trouble>>

\* fault: assert_available is left out.
Reserve_Unasked(t) ==
    /\ At(t, "seeking") /\ Take(t, Capacity)
    /\ Goto(t, "looking")
    /\ UNCHANGED <<lease, flagged, tombstone, docker, deleted, calls, trouble>>

Reserve(t) ==
    /\ At(t, "seeking") /\ Free(Capacity)
    /\ \/ User(t) \in tombstone /\ Raise(t)
       \/ /\ User(t) \notin tombstone
          /\ Take(t, Capacity)
          /\ Goto(t, "looking")
          /\ UNCHANGED <<lease, flagged, tombstone, docker, deleted, calls>>
    /\ UNCHANGED trouble

\* where the caller goes on with the running container
Obtained(t) == Goto(t, IF Kind(t) = "operation" THEN "using" ELSE "locking")

\* user_mutation around get_or_create; a container that runs is taken as it
\* is, and otherwise the running ones are counted
Look(t) ==
    LET u == User(t) IN
    /\ At(t, "looking") /\ Free(Mutation(u))
    /\ volume' = volume \cup {u}
    /\ container' = [container EXCEPT ![u] = IF @ = "none" THEN "stopped" ELSE @]
    /\ \/ /\ u \in Running
          /\ Obtained(t) /\ Drop(t, {Capacity}) /\ UNCHANGED <<lease, flagged>>
       \/ /\ u \notin Running /\ Cardinality(Running) < MaxRunning
          /\ Goto(t, "starting") /\ UNCHANGED <<held, lease, flagged>>
       \/ /\ u \notin Running /\ Cardinality(Running) >= MaxRunning /\ ~call[t].second
          /\ call' = [call EXCEPT ![t].stage = "evicting", ![t].rivals = Running]
          /\ Drop(t, {Capacity}) /\ UNCHANGED <<lease, flagged>>
       \/ /\ u \notin Running /\ Cardinality(Running) >= MaxRunning /\ call[t].second
          /\ Leave(t)
    /\ UNCHANGED <<workspace, tombstone, deleted, calls, trouble>>

\* container.start, still under the lock
Launch(t) ==
    /\ At(t, "starting")
    /\ container' = [container EXCEPT ![User(t)] = "running"]
    /\ Obtained(t) /\ Drop(t, {Capacity})
    /\ UNCHANGED <<lease, flagged, tombstone, volume, workspace, deleted,
                   calls, trouble>>

\* the candidates in turn; those in use are passed over
Choose(t, v) ==
    /\ At(t, "evicting") /\ v \in call[t].rivals
    /\ call' = [call EXCEPT ![t].rivals = @ \ {v}, ![t].rival = v,
                            ![t].stage = IF Idled(v) THEN "gating" ELSE "evicting"]
    /\ UNCHANGED <<redis, docker, deleted, calls, trouble>>

NoPlace(t) == At(t, "evicting") /\ call[t].rivals = {} /\ Raise(t) /\ UNCHANGED trouble

\* fault: capacity is taken before the gate, as the comment warns.
EnterRival_Reserved(t) ==
    /\ At(t, "gating") /\ Free(Capacity) /\ Free(Gate(call[t].rival))
    /\ held' = [held EXCEPT ![t] = @ \cup {Capacity, Gate(call[t].rival)}]
    /\ Goto(t, "clearing")
    /\ UNCHANGED <<lease, flagged, tombstone, docker, deleted, calls, trouble>>

EnterRival(t) ==
    /\ At(t, "gating")
    /\ Take(t, Gate(call[t].rival))
    /\ Goto(t, "clearing")
    /\ UNCHANGED <<lease, flagged, tombstone, docker, deleted, calls, trouble>>

ClearRival(t) ==
    /\ At(t, "clearing") /\ Idled(call[t].rival)
    /\ Goto(t, "displacing")
    /\ UNCHANGED <<redis, docker, deleted, calls, trouble>>

\* under the gate of the rival and the capacity: stop it, unless there is
\* room by now, and look again
Displace(t) ==
    LET v == call[t].rival IN
    /\ At(t, "displacing") /\ Free(Capacity)
    /\ Drop(t, {Gate(v)})
    /\ \/ /\ v \in Running /\ Idled(v)
          /\ container' = IF Cardinality(Running) < MaxRunning THEN container
                          ELSE [container EXCEPT ![v] = "stopped"]
          /\ call' = [call EXCEPT ![t].stage = "seeking", ![t].second = TRUE]
       \/ /\ ~(v \in Running /\ Idled(v))
          /\ Goto(t, "evicting") /\ UNCHANGED container
    /\ UNCHANGED <<lease, flagged, tombstone, volume, workspace, deleted,
                   calls, trouble>>

-----------------------------------------------------------------------------
(* The work itself.                                                        *)

\* An operation comes to its end; what its command wrote is not of interest.
End(t) ==
    /\ At(t, "using") /\ Leave(t)
    /\ UNCHANGED <<docker, tombstone, deleted, calls, trouble>>

\* cleanup_idle: left alone, stopped or removed, by the time since the last
\* activity, and any time may have passed
Reclaim(t) ==
    LET u == User(t) IN
    /\ At(t, "reserving") /\ Kind(t) = "reclaim" /\ Free(Capacity)
    /\ Leave(t)
    /\ \/ container' = [container EXCEPT ![u] = IF @ = "running" THEN "stopped" ELSE @]
       \/ container' = [container EXCEPT ![u] = "none"]
       \/ UNCHANGED container
    /\ UNCHANGED <<volume, workspace, tombstone, deleted, calls, trouble>>

ReserveAll(t) ==
    /\ At(t, "reserving") /\ Kind(t) = "deleteUser"
    /\ Take(t, Capacity)
    /\ Goto(t, "locking")
    /\ UNCHANGED <<lease, flagged, tombstone, docker, deleted, calls, trouble>>

\* user_mutation of a write: the tombstones are read under the lock
LockWrite(t) ==
    /\ At(t, "locking") /\ Kind(t) = "write" /\ Free(Mutation(User(t)))
    /\ \/ {User(t), call[t].on} \cap tombstone # {} /\ Raise(t)
       \/ /\ {User(t), call[t].on} \cap tombstone = {}
          /\ Take(t, Mutation(User(t)))
          /\ volume' = volume \cup {User(t)}
          /\ container' = [container EXCEPT ![User(t)] = IF @ = "none" THEN "stopped" ELSE @]
          /\ Goto(t, "working")
          /\ UNCHANGED <<lease, flagged, tombstone, workspace, deleted, calls>>
    /\ UNCHANGED trouble

LockOther(t) ==
    /\ At(t, "locking") /\ Kind(t) # "write"
    /\ Take(t, Mutation(User(t)))
    /\ tombstone' = IF Kind(t) = "deleteUser" THEN tombstone \cup {User(t)} ELSE tombstone
    /\ Goto(t, "working")
    /\ UNCHANGED <<lease, flagged, docker, deleted, calls, trouble>>

\* the archive of the container, which a stopped container has as well
Write(t) ==
    /\ At(t, "working") /\ Kind(t) = "write"
    /\ \/ container[User(t)] = "none" /\ Raise(t)
       \/ /\ container[User(t)] # "none"
          /\ workspace' = workspace \cup {call[t].on}
          /\ Leave(t)
          /\ UNCHANGED <<container, volume, tombstone, deleted, calls>>
    /\ UNCHANGED trouble

\* rm in the running container
Remove(t) ==
    /\ At(t, "working") /\ Kind(t) \in {"tidy", "deleteConversation"}
    /\ \/ container[User(t)] # "running" /\ Raise(t)
       \/ /\ container[User(t)] = "running"
          /\ IF Kind(t) = "tidy" THEN UNCHANGED <<workspace, deleted>>
             ELSE /\ workspace' = workspace \ {call[t].on}
                  /\ deleted' = deleted \cup {call[t].on}
          /\ Leave(t)
          /\ UNCHANGED <<container, volume, tombstone, calls>>
    /\ UNCHANGED trouble

RemoveContainer(t) ==
    /\ At(t, "working") /\ Kind(t) = "deleteUser"
    /\ container' = [container EXCEPT ![User(t)] = "none"]
    /\ Goto(t, "purging")
    /\ UNCHANGED <<redis, volume, workspace, deleted, calls, trouble>>

\* the volume with all that is on it
RemoveVolume(t) ==
    /\ At(t, "purging")
    /\ volume' = volume \ {User(t)}
    /\ workspace' = {c \in workspace : Owner[c] # User(t)}
    /\ deleted' = deleted \cup {User(t)}
    /\ Leave(t)
    /\ UNCHANGED <<container, tombstone, calls, trouble>>

-----------------------------------------------------------------------------
(* Time-outs, failures and deaths.                                         *)

Mishap == trouble < MaxTrouble /\ trouble' = trouble + 1
Live(t) == call[t].stage \notin {"idle", "dead"}

\* a wait has lasted too long, or Redis or Docker has refused something
Fail(t) == Live(t) /\ Mishap /\ Raise(t)

\* The lease expires because its renewal failed; a later renewal brings it back.
Lapse(t) ==
    /\ t \in lease /\ Live(t) /\ Mishap
    /\ lease' = lease \ {t} /\ flagged' = flagged \cup {t}
    /\ UNCHANGED <<call, held, tombstone, docker, deleted, calls>>

Renew(t) ==
    /\ t \in flagged \ lease /\ Live(t)
    /\ lease' = lease \cup {t}
    /\ UNCHANGED <<call, held, flagged, tombstone, docker, deleted, calls, trouble>>

Die(t) ==
    /\ Live(t) /\ Mishap
    /\ Goto(t, "dead")
    /\ UNCHANGED <<redis, docker, deleted, calls>>

\* the keys of a dead process: its locks and its lease, in any order
Expire(t) ==
    /\ At(t, "dead")
    /\ \/ held[t] # {} /\ held' = [held EXCEPT ![t] = {}] /\ UNCHANGED <<call, lease, flagged>>
       \/ t \in lease /\ lease' = lease \ {t} /\ UNCHANGED <<call, held, flagged>>
       \/ /\ held[t] = {} /\ t \notin lease
          /\ call' = [call EXCEPT ![t] = Idle] /\ flagged' = flagged \ {t}
          /\ UNCHANGED <<held, lease>>
    /\ UNCHANGED <<tombstone, docker, deleted, calls, trouble>>

-----------------------------------------------------------------------------
Entering(t) == Register(t) \/ Enter(t) \/ Drain(t) \/ DrainThenRun(t)
GetRunning(t) ==
    \/ Reserve(t) \/ Look(t) \/ Launch(t) \/ NoPlace(t) \/ EnterRival(t) \/ ClearRival(t)
    \/ Displace(t) \/ \E v \in Users : Choose(t, v)
Working(t) ==
    \/ End(t) \/ Reclaim(t) \/ ReserveAll(t) \/ LockWrite(t)
    \/ LockOther(t) \/ Write(t) \/ Remove(t) \/ RemoveContainer(t) \/ RemoveVolume(t)

Act(t) ==
    \/ \E kind \in OnConversation \cup OnUser, x \in Users \cup Conversations :
           Begin(t, kind, x)
    \/ Entering(t) \/ GetRunning(t) \/ Working(t)
    \/ Fail(t) \/ Lapse(t) \/ Renew(t) \/ Die(t) \/ Expire(t)

Next == \E t \in Threads : Act(t)

Spec == Init /\ [][Next]_vars

-----------------------------------------------------------------------------
(* max_running_containers holds at every moment, although containers are   *)
(* started by threads that have counted them before (get_running).         *)
RunningWithinCapacity == Cardinality(Running) <= MaxRunning

(* The container of an operation runs until the operation ends, whoever    *)
(* evicts, reclaims or deletes: only an operation that has failed to renew *)
(* its lease, and will report that, may find it stopped (_operation).      *)
UsedContainerRuns ==
    \A t \in Threads : At(t, "using") /\ t \notin flagged => container[User(t)] = "running"

(* What has been deleted does not come back: no preparation, upload or     *)
(* operation that has waited for the deletion creates it anew              *)
(* (assert_available).                                                     *)
DeletedStaysDeleted ==
    /\ \A u \in deleted \cap Users : container[u] = "none" /\ u \notin volume
    /\ deleted \cap workspace = {}

\* the locks a call waits for
Needs(t) ==
    CASE At(t, "entering") /\ Kind(t) = "operation" -> {Gate(User(t)), Gate(call[t].on)}
      [] At(t, "entering") /\ Kind(t) # "operation" -> {Gate(call[t].on)}
      [] call[t].stage \in {"seeking", "displacing", "reserving"} -> {Capacity}
      [] call[t].stage \in {"looking", "locking"} -> {Mutation(User(t))}
      [] At(t, "gating") -> {Gate(call[t].rival)}
      [] OTHER -> {}

\* and the operations whose end it waits for
Awaits(t) ==
    CASE At(t, "draining") -> LeasesOn(call[t].on)
      [] At(t, "clearing") -> LeasesOn(call[t].rival)
      [] OTHER -> {}

WaitsFor(t, s) == Needs(t) \cap held[s] # {} \/ s \in Awaits(t)

(* No calls wait for each other in a circle - the comment of get_running   *)
(* is about one of the circles - as long as no lease has lapsed.           *)
NoCircularWait ==
    flagged = {} =>
        \A waiting \in (SUBSET Threads) \ {{}} :
            \E t \in waiting : \A s \in waiting : ~WaitsFor(t, s)
=============================================================================
