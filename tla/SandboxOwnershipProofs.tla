----------------------- MODULE SandboxOwnershipProofs -----------------------
(***************************************************************************)
(* Capacity, leases, tombstones and waiting in the sandbox, for any        *)
(* threads, users and Conversations.  A call holds the locks its stage     *)
(* says (Holds), so what it has found under them - room, no tombstone, no  *)
(* operation at work - is still so when it acts (Counted, Asked, Cleared). *)
(* It holds no lock longer than that (HeldOnly), and the operations that   *)
(* wait for a rival can be put in the order of their registration          *)
(* (RivalsInTurn), which is why they never wait in a circle.               *)
(***************************************************************************)
EXTENDS SandboxOwnership, FiniteSetTheorems, TLAPS

\* in get_running
Seeking == {"seeking", "looking", "starting", "evicting", "gating", "clearing",
            "displacing"}

\* the stages each kind of call comes to
Shape(t) ==
    /\ call[t].stage \in Seeking => Kind(t) \in {"operation", "tidy", "deleteConversation"}
    /\ At(t, "using") => Kind(t) = "operation"
    /\ At(t, "reserving") => Kind(t) \in OnUser
    /\ call[t].stage \in {"draining", "locking", "working"} => Kind(t) # "operation"
    /\ call[t].stage \in {"locking", "working"} => Kind(t) # "reclaim"
    /\ At(t, "purging") => Kind(t) = "deleteUser"

\* the locks it has by then
Holds(t) ==
    /\ call[t].stage \in {"looking", "starting"} => Capacity \in held[t]
    /\ Kind(t) = "deleteUser" /\ call[t].stage \in {"locking", "working", "purging"} =>
           Capacity \in held[t]
    /\ Kind(t) # "operation" /\ call[t].stage \notin {"idle", "entering", "dead"} =>
           Gate(call[t].on) \in held[t]

LInv == TypeOK /\ \A t \in Threads : Shape(t) /\ Holds(t)

\* the containers that run have been counted under the capacity lock
Counted(t) == At(t, "starting") => Cardinality(Running) < MaxRunning

CInv == LInv /\ RunningWithinCapacity /\ \A t \in Threads : Counted(t)

\* an operation that has registered and not ended
Registered(t) == Kind(t) = "operation" /\ call[t].stage \in Seeking \cup {"using"}
Leased(t) == Registered(t) /\ t \notin flagged => t \in lease
\* behind the gate of a user there are only operations that have lost their lease
Cleared(t) ==
    Kind(t) \in OnUser /\ call[t].stage \in {"reserving", "locking", "working", "purging"} =>
        \A s \in Threads : Registered(s) /\ User(s) = call[t].on => s \in flagged

UInv == LInv /\ UsedContainerRuns /\ \A t \in Threads : Leased(t) /\ Cleared(t)

\* what the tombstones and the container are known to be
Asked(t) ==
    /\ call[t].stage \in {"looking", "starting"} => User(t) \notin tombstone
    /\ At(t, "starting") => User(t) \in volume
    /\ Kind(t) = "write" /\ At(t, "working") => call[t].on \notin tombstone
    /\ Kind(t) = "deleteConversation" /\ call[t].stage \in Seeking \cup {"locking", "working"} =>
           call[t].on \in tombstone
    /\ Kind(t) = "deleteUser" /\ call[t].stage \in {"working", "purging"} =>
           call[t].on \in tombstone
    /\ At(t, "purging") => container[call[t].on] = "none"

Stores ==
    /\ \A u \in Users : container[u] # "none" => u \in volume
    /\ \A c \in workspace : Owner[c] \in volume
    /\ deleted \subseteq tombstone

DInv == LInv /\ Stores /\ DeletedStaysDeleted /\ \A t \in Threads : Asked(t)

\* A lock is only held at the stages that need it.
HeldOnly(t) ==
    /\ Capacity \in held[t] =>
           call[t].stage \in {"looking", "starting", "locking", "working", "purging", "dead"}
    /\ \A u \in Users : Mutation(u) \in held[t] =>
           call[t].stage \in {"working", "purging", "dead"}
    /\ \A x \in Users \cup Conversations : Gate(x) \in held[t] =>
           \/ At(t, "dead")
           \/ /\ Kind(t) # "operation" /\ x = call[t].on
              /\ call[t].stage \notin {"idle", "entering"}
           \/ x = call[t].rival /\ call[t].stage \in {"clearing", "displacing"}

\* Only operations have leases, and only when they are registered.
LeaseOnly(t) == t \in lease \cup flagged => Registered(t) \/ At(t, "dead")

\* t has found the rival of s idle, and s has registered since
Overtaken(t, s) ==
    call[t].stage \in {"gating", "clearing"} /\ s \in LeasesOn(call[t].rival) \ flagged

\* Who chooses a rival has registered before those it may have to wait for.
RivalsInTurn ==
    \A waiting \in (SUBSET Threads) \ {{}} :
        \E t \in waiting : \A s \in waiting : ~Overtaken(t, s)

WInv == LInv /\ RivalsInTurn /\ \A t \in Threads : HeldOnly(t) /\ LeaseOnly(t)

-----------------------------------------------------------------------------
(* What the assignments to a call and its locks come to.                   *)

\* A call that is not idle is a record with its stage in Stages.
LEMMA CallType ==
    ASSUME TypeOK, NEW t \in Threads, ~At(t, "idle")
    PROVE  call[t] \in Call
BY DEF TypeOK, At, Idle

\* A call is on a Conversation or on a user, as its kind says.
LEMMA CallOn ==
    ASSUME TypeOK, NEW t \in Threads
    PROVE  /\ Kind(t) \in OnConversation => call[t].on \in Conversations
           /\ Kind(t) \in OnUser => call[t].on \in Users
BY DEF TypeOK

\* Goto changes the stage of one call and nothing else.
LEMMA GotoEffect ==
    ASSUME TypeOK, NEW t \in Threads, ~At(t, "idle"), NEW stage \in Stages, Goto(t, stage)
    PROVE  /\ call' \in [Threads -> Call \cup {Idle}]
           /\ call'[t] = [call[t] EXCEPT !.stage = stage]
           /\ call'[t].stage = stage /\ call'[t].kind = call[t].kind
           /\ call'[t].on = call[t].on
           /\ \A s \in Threads : s # t => call'[s] = call[s]
<1>1. call[t] \in Call
  BY CallType
<1>2. call' = [call EXCEPT ![t].stage = stage]
  BY DEF Goto
<1>3. call'[t] = [call[t] EXCEPT !.stage = stage]
  BY <1>2 DEF TypeOK
<1>4. call'[t] \in Call
  BY <1>1, <1>3 DEF Call
<1> QED BY <1>1, <1>2, <1>3, <1>4 DEF TypeOK, Call

\* Who has obtained a container goes on to use it, or to lock it.
LEMMA ObtainedEffect ==
    ASSUME TypeOK, NEW t \in Threads, ~At(t, "idle"), Obtained(t)
    PROVE  /\ call' \in [Threads -> Call \cup {Idle}]
           /\ call'[t].stage = IF Kind(t) = "operation" THEN "using" ELSE "locking"
           /\ call'[t].kind = call[t].kind /\ call'[t].on = call[t].on
           /\ \A s \in Threads : s # t => call'[s] = call[s]
<1>1. CASE Kind(t) = "operation"
  BY <1>1, GotoEffect DEF Obtained, Stages
<1>2. CASE Kind(t) # "operation"
  BY <1>2, GotoEffect DEF Obtained, Stages
<1> QED BY <1>1, <1>2

\* Take and Drop change the locks of one thread, which stay disjoint.
LEMMA TakeEffect ==
    ASSUME TypeOK, NEW t \in Threads, NEW l \in Locks, Take(t, l)
    PROVE  /\ held' \in [Threads -> SUBSET Locks]
           /\ \A r, s \in Threads : r # s => held'[r] \cap held'[s] = {}
           /\ held'[t] = held[t] \cup {l}
           /\ \A s \in Threads : s # t => held'[s] = held[s]
           /\ Free(l)
BY DEF TypeOK, Take, Free

LEMMA DropEffect ==
    ASSUME TypeOK, NEW t \in Threads, NEW ls, Drop(t, ls)
    PROVE  /\ held' \in [Threads -> SUBSET Locks]
           /\ \A r, s \in Threads : r # s => held'[r] \cap held'[s] = {}
           /\ held'[t] = held[t] \ ls
           /\ \A s \in Threads : s # t => held'[s] = held[s]
BY DEF TypeOK, Drop

\* Leave makes the thread idle, without locks and lease.
LEMMA LeaveEffect ==
    ASSUME TypeOK, NEW t \in Threads, Leave(t)
    PROVE  /\ call' \in [Threads -> Call \cup {Idle}]
           /\ call'[t] = Idle
           /\ \A s \in Threads : s # t => call'[s] = call[s]
           /\ held' \in [Threads -> SUBSET Locks]
           /\ \A r, s \in Threads : r # s => held'[r] \cap held'[s] = {}
           /\ held'[t] = {}
           /\ \A s \in Threads : s # t => held'[s] = held[s]
           /\ lease' = lease \ {t} /\ flagged' = flagged \ {t}
BY DEF TypeOK, Leave

-----------------------------------------------------------------------------
(* Types.                                                                  *)

\* Initially every variable has its type.
LEMMA TypeInit == Init => TypeOK
BY ConstantAssumption DEF Init, TypeOK, At, Idle, Locks, Kind, OnConversation, OnUser

\* Entering keeps the types.
LEMMA TypeEntering ==
    ASSUME TypeOK, NEW t \in Threads, Entering(t)
    PROVE  TypeOK'
<1> USE DEF At, Kind, OnConversation, OnUser
<1>1. CASE Register(t)
  <2>1. CASE Raise(t) /\ UNCHANGED trouble
    BY <2>1, LeaveEffect DEF Raise, docker, TypeOK, Idle
  <2>2. CASE /\ lease' = lease \cup {t} /\ Goto(t, "seeking") /\ At(t, "entering")
             /\ UNCHANGED <<held, flagged, tombstone, docker, deleted, calls, trouble>>
    BY <2>2, GotoEffect, ZenonT(60) DEF docker, TypeOK, Stages
  <2> QED BY <1>1, <2>1, <2>2 DEF Register
<1>2. CASE Enter(t)
  <2>1. call[t].on \in Users \cup Conversations /\ Gate(call[t].on) \in Locks
    BY <1>2, CallType DEF Enter, Call, Locks
  <2> DEFINE gate == Gate(call[t].on)
  <2>2. Take(t, gate) /\ Goto(t, "draining") /\ gate \in Locks /\ At(t, "entering")
    BY <1>2, <2>1 DEF Enter
  <2> HIDE DEF gate
  <2>3. /\ held' \in [Threads -> SUBSET Locks]
        /\ \A r, s \in Threads : r # s => held'[r] \cap held'[s] = {}
        /\ \A s \in Threads : s # t => held'[s] = held[s]
    BY <2>2, TakeEffect
  <2> QED BY <1>2, <2>2, <2>3, GotoEffect, ZenonT(60) DEF Enter, docker, TypeOK, Stages
<1>3. CASE Drain(t)
  BY <1>3, GotoEffect, ZenonT(60) DEF Drain, docker, redis, TypeOK, Stages
<1>4. CASE DrainThenRun(t)
  <2>1. call[t].on \in Users \cup Conversations
    BY <1>4, CallType DEF DrainThenRun, Call
  <2>2. CASE Raise(t)
    BY <1>4, <2>2, LeaveEffect DEF DrainThenRun, Raise, docker, TypeOK, Idle
  <2>3. CASE Goto(t, "seeking") /\ UNCHANGED <<held, lease, flagged, deleted, docker, calls>>
    BY <1>4, <2>1, <2>3, GotoEffect, ZenonT(60) DEF DrainThenRun, Raise, docker, TypeOK, Stages
  <2>4. CASE /\ Leave(t) /\ deleted' = deleted \cup (tombstone' \cap {call[t].on})
             /\ UNCHANGED <<docker, calls>>
    BY <1>4, <2>1, <2>4, LeaveEffect DEF DrainThenRun, Raise, docker, TypeOK, Idle
  <2> QED BY <1>4, <2>2, <2>3, <2>4 DEF DrainThenRun
<1> QED BY <1>1, <1>2, <1>3, <1>4 DEF Entering

\* The stages of get_running.
LEMMA SeekingOnly ==
    ASSUME NEW t \in Threads, GetRunning(t)
    PROVE  ~At(t, "idle") /\ call[t].stage \in Seeking
BY Zenon DEF GetRunning, Reserve, Look, Launch, NoPlace, EnterRival, ClearRival, Displace,
             Choose, Seeking, At

\* It leaves the leases alone, unless it raises.
LEMMA SeekingLeases ==
    ASSUME NEW t \in Threads, GetRunning(t), ~Leave(t)
    PROVE  lease' = lease /\ flagged' = flagged
BY Zenon DEF GetRunning, Reserve, Look, Launch, NoPlace, EnterRival, ClearRival, Displace,
             Choose, Raise, redis

\* So does get_running.
LEMMA TypeGetRunning ==
    ASSUME TypeOK, NEW t \in Threads, GetRunning(t)
    PROVE  TypeOK'
<1> USE DEF At, Kind, OnConversation, OnUser
<1>1. ~At(t, "idle")
  BY SeekingOnly
<1>2. call[t] \in Call /\ User(t) \in Users /\ call[t].rival \in Users
  BY <1>1, CallType, ConstantAssumption DEF Call, User, UserOf
<1>3. CASE Reserve(t)
  <2>1. CASE Raise(t) /\ UNCHANGED trouble
    BY <2>1, LeaveEffect DEF Raise, docker, TypeOK, Idle
  <2>2. CASE /\ Take(t, Capacity) /\ Goto(t, "looking")
             /\ UNCHANGED <<lease, flagged, tombstone, docker, deleted, calls, trouble>>
    <3>1. Capacity \in Locks
      BY DEF Locks
    <3>2. /\ held' \in [Threads -> SUBSET Locks]
          /\ \A r, s \in Threads : r # s => held'[r] \cap held'[s] = {}
          /\ \A s \in Threads : s # t => held'[s] = held[s]
      BY <2>2, <3>1, TakeEffect
    <3> QED BY <1>1, <2>2, <3>2, GotoEffect DEF docker, TypeOK, Stages
  <2> QED BY <1>3, <2>1, <2>2 DEF Reserve
<1>4. CASE Look(t)
  <2> DEFINE u == User(t)
  <2>1. volume' \subseteq Users /\ container' \in [Users -> {"none", "stopped", "running"}]
    BY <1>2, <1>4 DEF Look, TypeOK
  <2>2. CASE Obtained(t) /\ Drop(t, {Capacity}) /\ UNCHANGED <<lease, flagged>>
    BY <1>1, <1>4, <2>1, <2>2, ObtainedEffect, DropEffect DEF Look, TypeOK
  <2>3. CASE Goto(t, "starting") /\ UNCHANGED <<held, lease, flagged>>
    BY <1>1, <1>4, <2>1, <2>3, GotoEffect, ZenonT(60) DEF Look, TypeOK, Stages
  <2>4. CASE /\ call' = [call EXCEPT ![t].stage = "evicting", ![t].rivals = Running]
             /\ Drop(t, {Capacity}) /\ UNCHANGED <<lease, flagged>>
    <3>1. call'[t] = [call[t] EXCEPT !.stage = "evicting", !.rivals = Running]
      BY <2>4 DEF TypeOK
    <3>2. call'[t] \in Call /\ call'[t].stage = "evicting"
      BY <1>2, <3>1, ZenonT(60) DEF Call, Running, Stages
    <3>3. call' \in [Threads -> Call \cup {Idle}]
      BY <2>4, <3>2 DEF TypeOK
    <3> QED BY <1>4, <2>1, <2>4, <3>2, <3>3, DropEffect DEF Look, TypeOK
  <2>5. CASE Leave(t)
    BY <1>4, <2>1, <2>5, LeaveEffect DEF Look, TypeOK, Idle
  <2> QED BY <1>4, <2>2, <2>3, <2>4, <2>5 DEF Look
<1>5. CASE Launch(t)
  <2>1. container' \in [Users -> {"none", "stopped", "running"}]
    BY <1>2, <1>5 DEF Launch, TypeOK
  <2> QED BY <1>1, <1>5, <2>1, ObtainedEffect, DropEffect DEF Launch, TypeOK
<1>6. CASE NoPlace(t)
  BY <1>6, LeaveEffect DEF NoPlace, Raise, docker, TypeOK, Idle
<1>7. CASE EnterRival(t)
  <2> DEFINE gate == Gate(call[t].rival)
  <2>1. Take(t, gate) /\ gate \in Locks
    BY <1>2, <1>7 DEF EnterRival, Locks
  <2> HIDE DEF gate
  <2>2. /\ held' \in [Threads -> SUBSET Locks]
        /\ \A r, s \in Threads : r # s => held'[r] \cap held'[s] = {}
        /\ \A s \in Threads : s # t => held'[s] = held[s]
    BY <2>1, TakeEffect
  <2> QED BY <1>1, <1>7, <2>2, GotoEffect, ZenonT(60) DEF EnterRival, docker, TypeOK, Stages
<1>8. CASE ClearRival(t)
  BY <1>1, <1>8, GotoEffect, ZenonT(60) DEF ClearRival, docker, redis, TypeOK, Stages
<1>9. CASE Displace(t)
  <2> DEFINE v == call[t].rival
  <2>1. container' \in [Users -> {"none", "stopped", "running"}]
    BY <1>2, <1>9 DEF Displace, TypeOK
  <2>2. CASE call' = [call EXCEPT ![t].stage = "seeking", ![t].second = TRUE]
    <3>1. call'[t] = [call[t] EXCEPT !.stage = "seeking", !.second = TRUE]
      BY <2>2 DEF TypeOK
    <3>2. call'[t] \in Call /\ call'[t].stage = "seeking"
      BY <1>2, <3>1 DEF Call, Stages
    <3>3. call' \in [Threads -> Call \cup {Idle}]
      BY <2>2, <3>2 DEF TypeOK
    <3> QED BY <1>9, <2>1, <2>2, <3>2, <3>3, DropEffect DEF Displace, TypeOK
  <2>3. CASE Goto(t, "evicting")
    <3>1. Drop(t, {Gate(v)}) /\ UNCHANGED <<lease, flagged, tombstone, volume, workspace,
                                            deleted, calls, trouble>>
      BY <1>9 DEF Displace
    <3>2. "evicting" \in Stages
      BY DEF Stages
    <3>3. /\ call' \in [Threads -> Call \cup {Idle}]
          /\ call'[t].stage = "evicting" /\ call'[t].kind = call[t].kind
          /\ call'[t].on = call[t].on
          /\ \A s \in Threads : s # t => call'[s] = call[s]
      BY <1>1, <2>3, <3>2, GotoEffect
    <3>4. /\ held' \in [Threads -> SUBSET Locks]
          /\ \A r, s \in Threads : r # s => held'[r] \cap held'[s] = {}
          /\ \A s \in Threads : s # t => held'[s] = held[s]
      BY <3>1, DropEffect
    <3> QED BY <2>1, <3>1, <3>3, <3>4 DEF TypeOK
  <2> QED BY <1>9, <2>2, <2>3 DEF Displace
<1>10. ASSUME NEW v \in Users, Choose(t, v) PROVE TypeOK'
  <2> DEFINE next == IF Idled(v) THEN "gating" ELSE "evicting"
  <2>1. call'[t] = [call[t] EXCEPT !.rivals = @ \ {v}, !.rival = v, !.stage = next]
    BY <1>10 DEF Choose, TypeOK
  <2>2. next \in Stages /\ next # "idle"
    BY DEF Stages
  <2> HIDE DEF next
  <2>3. /\ call'[t] \in Call /\ call'[t].stage = next
        /\ call'[t].kind = call[t].kind /\ call'[t].on = call[t].on
    BY <1>2, <2>1, <2>2, ZenonT(60) DEF Call
  <2>4. call' \in [Threads -> Call \cup {Idle}]
    BY <1>10, <2>3 DEF Choose, TypeOK
  <2> QED BY <1>10, <2>2, <2>3, <2>4 DEF Choose, docker, redis, TypeOK
<1> QED BY <1>3, <1>4, <1>5, <1>6, <1>7, <1>8, <1>9, <1>10 DEF GetRunning

\* So does the work.
LEMMA TypeWorking ==
    ASSUME TypeOK, NEW t \in Threads, Working(t)
    PROVE  TypeOK'
<1> USE DEF At, Kind, OnConversation, OnUser
<1>1. ~At(t, "idle")
  BY DEF Working, End, Reclaim, ReserveAll, LockWrite, LockOther, Write, Remove,
         RemoveContainer, RemoveVolume
<1>2. /\ call[t] \in Call /\ User(t) \in Users
      /\ call[t].on \in Users \cup Conversations
  BY <1>1, CallType, ConstantAssumption DEF Call, User, UserOf
<1>3. CASE End(t)
  BY <1>3, LeaveEffect DEF End, docker, TypeOK, Idle
<1>4. CASE Reclaim(t)
  <2>1. container' \in [Users -> {"none", "stopped", "running"}]
    BY <1>2, <1>4 DEF Reclaim, TypeOK
  <2> QED BY <1>4, <2>1, LeaveEffect DEF Reclaim, TypeOK, Idle
<1>5. CASE ReserveAll(t)
  <2>1. Capacity \in Locks
    BY DEF Locks
  <2>2. /\ held' \in [Threads -> SUBSET Locks]
        /\ \A r, s \in Threads : r # s => held'[r] \cap held'[s] = {}
        /\ \A s \in Threads : s # t => held'[s] = held[s]
    BY <1>5, <2>1, TakeEffect DEF ReserveAll
  <2> QED BY <1>1, <1>5, <2>2, GotoEffect, ZenonT(60) DEF ReserveAll, docker, TypeOK, Stages
<1>6. CASE LockWrite(t) \/ LockOther(t)
  <2> DEFINE lock == Mutation(User(t))
  <2>1. lock \in Locks
    BY <1>2 DEF Locks
  <2>2. Take(t, lock) =>
        /\ held' \in [Threads -> SUBSET Locks]
        /\ \A r, s \in Threads : r # s => held'[r] \cap held'[s] = {}
        /\ \A s \in Threads : s # t => held'[s] = held[s]
    <3> HIDE DEF lock
    <3> QED BY <2>1, TakeEffect
  <2>3. CASE LockOther(t)
    BY <1>1, <1>2, <2>2, <2>3, GotoEffect, ZenonT(60) DEF LockOther, docker, TypeOK, Stages
  <2>4. CASE Raise(t) /\ UNCHANGED trouble
    BY <2>4, LeaveEffect DEF Raise, docker, TypeOK, Idle
  <2>5. CASE /\ Take(t, lock) /\ Goto(t, "working")
             /\ volume' = volume \cup {User(t)}
             /\ container' = [container EXCEPT ![User(t)] = IF @ = "none" THEN "stopped" ELSE @]
             /\ UNCHANGED <<lease, flagged, tombstone, workspace, deleted, calls, trouble>>
    <3>1. volume' \subseteq Users /\ container' \in [Users -> {"none", "stopped", "running"}]
      BY <1>2, <2>5 DEF TypeOK
    <3> QED BY <1>1, <2>2, <2>5, <3>1, GotoEffect, ZenonT(60) DEF TypeOK, Stages
  <2> QED BY <1>6, <2>3, <2>4, <2>5 DEF LockWrite
<1>7. CASE Write(t)
  <2>1. CASE Raise(t) /\ UNCHANGED trouble
    BY <2>1, LeaveEffect DEF Raise, docker, TypeOK, Idle
  <2>2. CASE /\ workspace' = workspace \cup {call[t].on} /\ Leave(t)
             /\ UNCHANGED <<container, volume, tombstone, deleted, calls, trouble>>
    <3>1. call[t].on \in Conversations
      <4>1. call[t].kind = "write"
        BY <1>7 DEF Write
      <4> QED BY <4>1, CallOn
    <3> QED BY <2>2, <3>1, LeaveEffect DEF TypeOK, Idle
  <2> QED BY <1>7, <2>1, <2>2 DEF Write
<1>8. CASE Remove(t)
  BY <1>2, <1>8, LeaveEffect DEF Remove, Raise, docker, TypeOK, Idle
<1>9. CASE RemoveContainer(t)
  <2>1. container' \in [Users -> {"none", "stopped", "running"}]
    BY <1>2, <1>9 DEF RemoveContainer, TypeOK
  <2>2. Goto(t, "purging") /\ UNCHANGED <<redis, volume, workspace, deleted, calls, trouble>>
    BY <1>9 DEF RemoveContainer
  <2> QED BY <1>1, <2>1, <2>2, GotoEffect, ZenonT(60) DEF redis, TypeOK, Stages
<1>10. CASE RemoveVolume(t)
  BY <1>2, <1>10, LeaveEffect DEF RemoveVolume, TypeOK, Idle
<1> QED BY <1>3, <1>4, <1>5, <1>6, <1>7, <1>8, <1>9, <1>10 DEF Working

\* And so do calls that begin, fail or die, and keys that expire.
LEMMA TypeOther ==
    ASSUME TypeOK, NEW t \in Threads,
           \/ \E kind \in OnConversation \cup OnUser, x \in Users \cup Conversations :
                  Begin(t, kind, x)
           \/ Fail(t) \/ Lapse(t) \/ Renew(t) \/ Die(t) \/ Expire(t)
    PROVE  TypeOK'
<1> USE DEF At, Kind, OnConversation, OnUser
<1>1. ASSUME NEW kind \in OnConversation \cup OnUser, NEW x \in Users \cup Conversations,
             Begin(t, kind, x)
      PROVE  TypeOK'
  <2> DEFINE new == [kind |-> kind, on |-> x, stage |-> "entering", second |-> FALSE,
                     rivals |-> {}, rival |-> UserOf(x)]
  <2>1. /\ new \in Call /\ new.stage = "entering"
        /\ new.kind \in OnConversation => new.on \in Conversations
        /\ new.kind \in OnUser => new.on \in Users
    BY <1>1, ConstantAssumption DEF Begin, Call, Stages, UserOf
  <2>2. calls' \in 0..MaxCalls
    BY <1>1, ConstantAssumption DEF Begin, TypeOK
  <2>3. call' = [call EXCEPT ![t] = new]
    BY <1>1 DEF Begin
  <2> HIDE DEF new
  <2> QED BY <1>1, <2>1, <2>2, <2>3, ZenonT(60) DEF Begin, redis, docker, TypeOK
<1>2. CASE Fail(t)
  BY <1>2, LeaveEffect, ConstantAssumption DEF Fail, Mishap, Raise, docker, TypeOK, Idle
<1>3. CASE Lapse(t) \/ Renew(t)
  BY <1>3, ConstantAssumption DEF Lapse, Renew, Mishap, Live, docker, TypeOK
<1>4. CASE Die(t)
  <2>1. trouble' \in 0..MaxTrouble
    BY <1>4, ConstantAssumption DEF Die, Mishap, TypeOK
  <2> QED BY <1>4, <2>1, GotoEffect, ZenonT(60) DEF Die, Live, redis, docker, TypeOK, Stages
<1>5. CASE Expire(t)
  BY <1>5 DEF Expire, docker, TypeOK, Idle
<1> QED BY <1>1, <1>2, <1>3, <1>4, <1>5

LEMMA TypeStep == TypeOK /\ [Next]_vars => TypeOK'
<1> SUFFICES ASSUME TypeOK, [Next]_vars PROVE TypeOK'
  OBVIOUS
<1>1. ASSUME NEW t \in Threads, Act(t) PROVE TypeOK'
  BY <1>1, TypeEntering, TypeGetRunning, TypeWorking, TypeOther DEF Act
<1>2. CASE UNCHANGED vars
  BY <1>2 DEF vars, TypeOK, At, Kind
<1> QED BY <1>1, <1>2 DEF Next

(* Every variable keeps its type, no lock has two holders and an idle      *)
(* thread holds neither locks nor a lease, for any threads and users.      *)
THEOREM TypeCorrect == Spec => []TypeOK
BY TypeInit, TypeStep, PTL DEF Spec

-----------------------------------------------------------------------------
(* The locks of a call.                                                    *)

\* only t itself changes its call and its locks
OthersStay(t) ==
    \A s \in Threads : s # t => call'[s] = call[s] /\ held'[s] = held[s]

LEMMA LockInit == Init => LInv
BY TypeInit DEF Init, LInv, Shape, Holds, At, Kind, Idle, OnUser, Seeking

\* Leaving, by a return or an exception, is always in shape.
LEMMA LockLeave ==
    ASSUME TypeOK, NEW t \in Threads, Leave(t)
    PROVE  OthersStay(t) /\ Shape(t)' /\ Holds(t)'
BY LeaveEffect DEF OthersStay, Shape, Holds, At, Kind, Idle, OnUser, Seeking

\* Entering, the gate is taken before anything that needs it.
LEMMA LockEntering ==
    ASSUME LInv, NEW t \in Threads, Entering(t)
    PROVE  OthersStay(t) /\ Shape(t)' /\ Holds(t)'
<1> USE DEF At, Kind, Shape, Holds, LInv
<1>1. CASE Leave(t)
  BY <1>1, LockLeave
<1>2. CASE Register(t) /\ ~Leave(t)
  BY <1>2, GotoEffect, ZenonT(60) DEF Register, Raise, OthersStay, Stages, Seeking
<1>3. CASE Enter(t)
  <2>1. Gate(call[t].on) \in Locks /\ call[t].kind # "operation"
    BY <1>3, CallType DEF Enter, Call, Locks
  <2>2. held'[t] = held[t] \cup {Gate(call[t].on)}
        /\ \A s \in Threads : s # t => held'[s] = held[s]
    BY <1>3, <2>1, TakeEffect DEF Enter
  <2> QED BY <1>3, <2>1, <2>2, GotoEffect, ZenonT(60) DEF Enter, OthersStay, Stages, Seeking
<1>4. CASE Drain(t)
  <2>1. /\ call[t].stage = "draining" /\ Kind(t) \in {"write", "reclaim", "deleteUser"}
        /\ Goto(t, IF Kind(t) = "write" THEN "locking" ELSE "reserving")
        /\ held' = held
    BY <1>4 DEF Drain, redis
  <2>2. CASE Kind(t) = "write"
    BY <2>1, <2>2, GotoEffect DEF OthersStay, Stages, Seeking
  <2>3. CASE Kind(t) # "write"
    BY <2>1, <2>3, GotoEffect, ZenonT(60) DEF OthersStay, Stages, Seeking, OnUser
  <2> QED BY <2>2, <2>3
<1>5. CASE DrainThenRun(t) /\ ~Leave(t)
  BY <1>5, GotoEffect DEF DrainThenRun, Raise, OthersStay, Stages, Seeking
<1> QED BY <1>1, <1>2, <1>3, <1>4, <1>5 DEF Entering

\* In get_running the capacity is held from the reservation to the start.
LEMMA LockGetRunning ==
    ASSUME LInv, NEW t \in Threads, GetRunning(t)
    PROVE  OthersStay(t) /\ Shape(t)' /\ Holds(t)'
<1> USE DEF At, Kind, Shape, Holds, LInv
<1>1. CASE Leave(t)
  BY <1>1, LockLeave
<1>2. ~At(t, "idle") /\ call[t].stage \in Seeking
  BY SeekingOnly
<1>3. /\ call[t] \in Call /\ User(t) \in Users /\ call[t].rival \in Users
      /\ Kind(t) \in {"operation", "tidy", "deleteConversation"}
      /\ call[t].on \in Conversations
  BY <1>2, CallType, CallOn, ConstantAssumption DEF Call, User, UserOf, OnConversation
<1>4. CASE Reserve(t) /\ ~Leave(t)
  <2>1. Capacity \in Locks
    BY DEF Locks
  <2>2. Take(t, Capacity) /\ Goto(t, "looking")
    BY <1>4 DEF Reserve, Raise
  <2>3. held'[t] = held[t] \cup {Capacity} /\ \A s \in Threads : s # t => held'[s] = held[s]
    BY <2>1, <2>2, TakeEffect
  <2> QED BY <1>2, <1>3, <2>2, <2>3, GotoEffect DEF OthersStay, Stages, Seeking
<1>5. ASSUME Obtained(t), Drop(t, {Capacity}) PROVE OthersStay(t) /\ Shape(t)' /\ Holds(t)'
  <2>1. held'[t] = held[t] \ {Capacity} /\ \A s \in Threads : s # t => held'[s] = held[s]
    BY <1>5, DropEffect
  <2>2. Capacity # Gate(call[t].on)
    BY DEF Capacity, Gate
  <2> QED BY <1>2, <1>3, <1>5, <2>1, <2>2, ObtainedEffect DEF OthersStay, Seeking
<1>6. CASE Look(t) /\ ~Leave(t)
  <2>1. CASE Goto(t, "starting") /\ UNCHANGED held
    BY <1>2, <1>3, <1>6, <2>1, GotoEffect DEF Look, OthersStay, Stages, Seeking
  <2>2. CASE /\ call' = [call EXCEPT ![t].stage = "evicting", ![t].rivals = Running]
             /\ Drop(t, {Capacity})
    <3>1. call'[t] = [call[t] EXCEPT !.stage = "evicting", !.rivals = Running]
      BY <2>2 DEF TypeOK
    <3>2. /\ call'[t].stage = "evicting" /\ call'[t].kind = call[t].kind
          /\ call'[t].on = call[t].on
      BY <1>3, <3>1 DEF Call
    <3>3. held'[t] = held[t] \ {Capacity} /\ \A s \in Threads : s # t => held'[s] = held[s]
      BY <2>2, DropEffect
    <3>4. Capacity # Gate(call[t].on)
      BY DEF Capacity, Gate
    <3>5. \A s \in Threads : s # t => call'[s] = call[s]
      BY <2>2 DEF TypeOK
    <3> QED BY <1>2, <1>3, <3>2, <3>3, <3>4, <3>5 DEF OthersStay, Seeking
  <2> QED BY <1>5, <1>6, <2>1, <2>2 DEF Look
<1>7. CASE Launch(t)
  BY <1>5, <1>7 DEF Launch
<1>8. CASE EnterRival(t)
  <2>1. Gate(call[t].rival) \in Locks
    BY <1>3 DEF Locks
  <2>2. held[t] \subseteq held'[t] /\ \A s \in Threads : s # t => held'[s] = held[s]
    BY <1>8, <2>1, TakeEffect DEF EnterRival
  <2> QED BY <1>2, <1>3, <1>8, <2>2, GotoEffect DEF EnterRival, OthersStay, Stages, Seeking
<1>9. CASE ClearRival(t)
  BY <1>2, <1>3, <1>9, GotoEffect DEF ClearRival, redis, OthersStay, Stages, Seeking
<1>10. CASE Displace(t)
  <2> DEFINE v == call[t].rival
  <2>1. Gate(v) # Gate(call[t].on)
    BY <1>3, ConstantAssumption DEF Gate
  <2>2. held'[t] = held[t] \ {Gate(v)} /\ \A s \in Threads : s # t => held'[s] = held[s]
    BY <1>10, DropEffect DEF Displace
  <2>3. /\ call'[t].stage \in {"seeking", "evicting"} /\ call'[t].kind = call[t].kind
        /\ call'[t].on = call[t].on
        /\ \A s \in Threads : s # t => call'[s] = call[s]
    <3>1. CASE call' = [call EXCEPT ![t].stage = "seeking", ![t].second = TRUE]
      <4>1. call'[t] = [call[t] EXCEPT !.stage = "seeking", !.second = TRUE]
        BY <3>1 DEF TypeOK
      <4>2. \A s \in Threads : s # t => call'[s] = call[s]
        BY <3>1 DEF TypeOK
      <4> QED BY <1>3, <4>1, <4>2 DEF Call
    <3>2. CASE Goto(t, "evicting")
      BY <1>2, <3>2, GotoEffect DEF Stages
    <3> QED BY <1>10, <3>1, <3>2 DEF Displace
  <2> QED BY <1>2, <1>3, <2>1, <2>2, <2>3 DEF OthersStay, Seeking
<1>11. ASSUME NEW v \in Users, Choose(t, v)
       PROVE  OthersStay(t) /\ Shape(t)' /\ Holds(t)'
  <2> DEFINE next == IF Idled(v) THEN "gating" ELSE "evicting"
  <2>1. call'[t] = [call[t] EXCEPT !.rivals = @ \ {v}, !.rival = v, !.stage = next]
    BY <1>11 DEF Choose, TypeOK
  <2>2. next \in {"gating", "evicting"}
    OBVIOUS
  <2> HIDE DEF next
  <2>3. /\ call'[t].stage = next /\ call'[t].kind = call[t].kind
        /\ call'[t].on = call[t].on
    BY <1>3, <2>1 DEF Call
  <2>4. held' = held /\ \A s \in Threads : s # t => call'[s] = call[s]
    BY <1>11 DEF Choose, redis, TypeOK
  <2> QED BY <1>2, <1>3, <2>2, <2>3, <2>4 DEF OthersStay, Seeking
<1> QED BY <1>1, <1>4, <1>6, <1>7, <1>8, <1>9, <1>10, <1>11 DEF GetRunning, NoPlace, Raise

\* A deletion of a user keeps its gate and the capacity to the end.
LEMMA LockWorking ==
    ASSUME LInv, NEW t \in Threads, Working(t)
    PROVE  OthersStay(t) /\ Shape(t)' /\ Holds(t)'
<1> USE DEF At, Kind, Shape, Holds, LInv
<1>1. CASE Leave(t)
  BY <1>1, LockLeave
<1>2. CASE ReserveAll(t)
  <2>1. Capacity \in Locks
    BY DEF Locks
  <2>2. held'[t] = held[t] \cup {Capacity} /\ \A s \in Threads : s # t => held'[s] = held[s]
    BY <1>2, <2>1, TakeEffect DEF ReserveAll
  <2> QED BY <1>2, <2>2, GotoEffect, ZenonT(60) DEF ReserveAll, OthersStay, Stages, Seeking
<1>3. CASE (LockWrite(t) \/ LockOther(t)) /\ ~Leave(t)
  <2>1. /\ Take(t, Mutation(User(t))) /\ Goto(t, "working")
        /\ call[t].stage = "locking"
    BY <1>3 DEF LockWrite, LockOther, Raise
  <2>2. Mutation(User(t)) \in Locks
    BY <2>1, CallType, ConstantAssumption DEF Locks, Call, User, UserOf
  <2>3. held[t] \subseteq held'[t] /\ \A s \in Threads : s # t => held'[s] = held[s]
    BY <2>1, <2>2, TakeEffect
  <2> QED BY <2>1, <2>3, GotoEffect, ZenonT(60) DEF OthersStay, Stages, Seeking
<1>4. CASE RemoveContainer(t)
  BY <1>4, GotoEffect DEF RemoveContainer, redis, OthersStay, Stages, Seeking
<1> QED BY <1>1, <1>2, <1>3, <1>4 DEF Working, End, Reclaim, Write, Remove, RemoveVolume, Raise

LEMMA LockBesides ==
    ASSUME LInv, NEW t \in Threads,
           \/ \E kind \in OnConversation \cup OnUser, x \in Users \cup Conversations :
                  Begin(t, kind, x)
           \/ Fail(t) \/ Lapse(t) \/ Renew(t) \/ Die(t) \/ Expire(t)
    PROVE  OthersStay(t) /\ Shape(t)' /\ Holds(t)'
<1> USE DEF At, Kind, Shape, Holds, LInv
<1>1. ASSUME NEW kind \in OnConversation \cup OnUser, NEW x \in Users \cup Conversations,
             Begin(t, kind, x)
      PROVE  OthersStay(t) /\ Shape(t)' /\ Holds(t)'
  <2>1. call'[t].stage = "entering" /\ \A s \in Threads : s # t => call'[s] = call[s]
    BY <1>1 DEF Begin, TypeOK
  <2> QED BY <1>1, <2>1 DEF Begin, redis, OthersStay, Seeking
<1>2. CASE Fail(t)
  BY <1>2, LockLeave DEF Fail, Raise
<1>3. CASE Lapse(t) \/ Renew(t)
  BY <1>3 DEF Lapse, Renew, OthersStay
<1>4. CASE Die(t)
  BY <1>4, GotoEffect DEF Die, Live, redis, OthersStay, Stages, Seeking
<1>5. CASE Expire(t)
  BY <1>5 DEF Expire, TypeOK, OthersStay, Idle, Seeking, OnUser
<1> QED BY <1>1, <1>2, <1>3, <1>4, <1>5

LEMMA LockAct ==
    ASSUME LInv, NEW t \in Threads, Act(t)
    PROVE  OthersStay(t) /\ Shape(t)' /\ Holds(t)'
BY LockEntering, LockGetRunning, LockWorking, LockBesides DEF Act

LEMMA LockStep == LInv /\ [Next]_vars => LInv'
<1> SUFFICES ASSUME LInv, [Next]_vars PROVE LInv'
  OBVIOUS
<1>1. TypeOK'
  BY TypeStep DEF LInv
<1>2. ASSUME NEW t \in Threads, Act(t), NEW s \in Threads PROVE Shape(s)' /\ Holds(s)'
  <2>1. CASE s = t
    BY <1>2, <2>1, LockAct
  <2>2. CASE s # t
    BY <1>2, <2>2, LockAct DEF LInv, OthersStay, Shape, Holds, At, Kind
  <2> QED BY <2>1, <2>2
<1>3. CASE UNCHANGED vars
  <2>1. call' = call /\ held' = held
    BY <1>3 DEF vars
  <2> QED BY <1>1, <2>1 DEF LInv, Shape, Holds, At, Kind
<1> QED BY <1>1, <1>2, <1>3 DEF Next, LInv

-----------------------------------------------------------------------------
(* Which action leads to which stage.                                      *)

Reaches(t) ==
    LET after == call'[t].stage IN
    /\ after = "draining" => Enter(t)
    /\ after = "reserving" => Drain(t)
    /\ after = "seeking" => Register(t) \/ DrainThenRun(t) \/ Displace(t)
    /\ after = "looking" => Reserve(t)
    /\ after = "starting" => Look(t)
    /\ after \in {"evicting", "gating", "clearing", "displacing"} => GetRunning(t)
    /\ after = "using" => Look(t) \/ Launch(t)
    /\ after = "locking" => Drain(t) \/ Look(t) \/ Launch(t) \/ ReserveAll(t)
    /\ after = "working" => LockWrite(t) \/ LockOther(t)
    /\ after = "purging" => RemoveContainer(t)

SameCall(t) ==
    call'[t].stage \notin {"idle", "entering"} =>
        call'[t].kind = call[t].kind /\ call'[t].on = call[t].on

LEMMA StageAfter ==
    ASSUME TypeOK, NEW t \in Threads, Act(t)
    PROVE  (call'[t].stage = call[t].stage \/ Reaches(t)) /\ SameCall(t)
<1> DEFINE Goal == (call'[t].stage = call[t].stage \/ Reaches(t)) /\ SameCall(t)
<1> USE DEF At, Kind
<1>1. ASSUME Leave(t) PROVE Goal
  BY <1>1, LeaveEffect DEF Reaches, SameCall, Idle
<1>2. CASE Entering(t)
  <2>1. CASE Register(t)
    BY <1>1, <2>1, GotoEffect DEF Register, Raise, Reaches, SameCall, Stages
  <2>2. CASE Enter(t)
    BY <2>2, GotoEffect DEF Enter, Reaches, SameCall, Stages
  <2>3. CASE Drain(t)
    BY <2>3, GotoEffect DEF Drain, Reaches, SameCall, Stages
  <2>4. CASE DrainThenRun(t)
    BY <1>1, <2>4, GotoEffect DEF DrainThenRun, Raise, Reaches, SameCall, Stages
  <2> QED BY <1>2, <2>1, <2>2, <2>3, <2>4 DEF Entering
<1>3. CASE GetRunning(t)
  <2>1. ~At(t, "idle") /\ call[t] \in Call
    BY <1>3, CallType, SeekingOnly
  <2>2. CASE Reserve(t)
    BY <1>1, <2>2, GotoEffect DEF Reserve, Raise, Reaches, SameCall, Stages
  <2>3. CASE Look(t)
    <3>1. CASE Obtained(t)
      BY <2>1, <2>3, <3>1, ObtainedEffect DEF Reaches, SameCall
    <3>2. CASE Goto(t, "starting")
      BY <2>1, <2>3, <3>2, GotoEffect DEF Reaches, SameCall, Stages
    <3>3. CASE call' = [call EXCEPT ![t].stage = "evicting", ![t].rivals = Running]
      <4>1. call'[t] = [call[t] EXCEPT !.stage = "evicting", !.rivals = Running]
        BY <3>3 DEF TypeOK
      <4> QED BY <1>3, <2>1, <4>1 DEF Call, Reaches, SameCall
    <3> QED BY <1>1, <2>3, <3>1, <3>2, <3>3 DEF Look
  <2>4. CASE Launch(t)
    BY <2>1, <2>4, ObtainedEffect DEF Launch, Reaches, SameCall
  <2>5. CASE NoPlace(t)
    BY <1>1, <2>5 DEF NoPlace, Raise
  <2>6. CASE EnterRival(t) \/ ClearRival(t)
    BY <1>3, <2>1, <2>6, GotoEffect DEF EnterRival, ClearRival, Reaches, SameCall, Stages
  <2>7. CASE Displace(t)
    <3>1. CASE call' = [call EXCEPT ![t].stage = "seeking", ![t].second = TRUE]
      <4>1. call'[t] = [call[t] EXCEPT !.stage = "seeking", !.second = TRUE]
        BY <3>1 DEF TypeOK
      <4> QED BY <2>1, <2>7, <4>1 DEF Call, Reaches, SameCall
    <3>2. CASE Goto(t, "evicting")
      BY <1>3, <2>1, <3>2, GotoEffect DEF Reaches, SameCall, Stages
    <3> QED BY <2>7, <3>1, <3>2 DEF Displace
  <2>8. ASSUME NEW v \in Users, Choose(t, v) PROVE Goal
    <3> DEFINE next == IF Idled(v) THEN "gating" ELSE "evicting"
    <3>1. call'[t] = [call[t] EXCEPT !.rivals = @ \ {v}, !.rival = v, !.stage = next]
      BY <2>8 DEF Choose, TypeOK
    <3>2. next \in {"gating", "evicting"}
      OBVIOUS
    <3> HIDE DEF next
    <3> QED BY <1>3, <2>1, <3>1, <3>2 DEF Call, Reaches, SameCall
  <2> QED BY <1>3, <2>2, <2>3, <2>4, <2>5, <2>6, <2>7, <2>8 DEF GetRunning
<1>4. CASE Working(t)
  <2>1. CASE ReserveAll(t)
    BY <2>1, GotoEffect DEF ReserveAll, Reaches, SameCall, Stages
  <2>2. CASE LockWrite(t) \/ LockOther(t)
    BY <1>1, <2>2, GotoEffect DEF LockWrite, LockOther, Raise, Reaches, SameCall, Stages
  <2>3. CASE RemoveContainer(t)
    BY <2>3, GotoEffect DEF RemoveContainer, Reaches, SameCall, Stages
  <2> QED BY <1>1, <1>4, <2>1, <2>2, <2>3
          DEF Working, End, Reclaim, Write, Remove, RemoveVolume, Raise
<1>5. ASSUME NEW kind \in OnConversation \cup OnUser, NEW x \in Users \cup Conversations,
             Begin(t, kind, x)
      PROVE  Goal
  BY <1>5 DEF Begin, TypeOK, Reaches, SameCall
<1>6. CASE Fail(t)
  BY <1>1, <1>6 DEF Fail, Raise
<1>7. CASE Lapse(t) \/ Renew(t)
  BY <1>7 DEF Lapse, Renew, SameCall
<1>8. CASE Die(t)
  BY <1>8, GotoEffect DEF Die, Live, Reaches, SameCall, Stages
<1>9. CASE Expire(t)
  BY <1>9 DEF Expire, TypeOK, Reaches, SameCall, Idle
<1> QED BY <1>2, <1>3, <1>4, <1>5, <1>6, <1>7, <1>8, <1>9 DEF Act

-----------------------------------------------------------------------------
(* Capacity.                                                               *)

\* A set has at most one element more than one it extends by one element.
LEMMA OneMore ==
    ASSUME NEW S, IsFiniteSet(S), NEW x, NEW T, T \subseteq S \cup {x}
    PROVE  /\ Cardinality(S) \in Nat /\ Cardinality(T) \in Nat
           /\ Cardinality(T) <= Cardinality(S) + 1
<1>1. IsFiniteSet(S \cup {x}) /\ Cardinality(S \cup {x}) \in Nat
  BY FS_AddElement, FS_CardinalityType
<1>2. Cardinality(S \cup {x}) <= Cardinality(S) + 1 /\ Cardinality(S) \in Nat
  BY FS_AddElement, FS_CardinalityType, SMTT(40)
<1>3. Cardinality(T) \in Nat /\ Cardinality(T) <= Cardinality(S \cup {x})
  BY <1>1, FS_Subset, FS_CardinalityType
<1> QED BY <1>1, <1>2, <1>3

LEMMA RunningFinite == TypeOK => IsFiniteSet(Running) /\ Cardinality(Running) \in Nat
BY ConstantAssumption, FS_Subset, FS_CardinalityType DEF Running

\* Containers that do not start do not add to the running ones.
LEMMA FewerRun ==
    ASSUME TypeOK, Running' \subseteq Running
    PROVE  Cardinality(Running') \in Nat /\ Cardinality(Running') <= Cardinality(Running)
BY RunningFinite, FS_Subset, FS_CardinalityType

\* A container is started by Launch only.
LEMMA OnlyLaunchStarts ==
    ASSUME TypeOK, NEW t \in Threads, Act(t), ~Launch(t)
    PROVE  Running' \subseteq Running
<1>1. CASE Entering(t)
  BY <1>1, SMTT(40) DEF Entering, Register, Enter, Drain, DrainThenRun, Raise, docker, Running
<1>2. CASE GetRunning(t)
  BY <1>2, ZenonT(60) DEF GetRunning, Reserve, Look, NoPlace, EnterRival, ClearRival, Displace, Choose,
              Raise, docker, Running, TypeOK
<1>3. CASE Working(t)
  BY <1>3 DEF Working, End, Reclaim, ReserveAll, LockWrite, LockOther, Write, Remove,
              RemoveContainer, RemoveVolume, Raise, docker, Running, TypeOK
<1>4. CASE container' = container
  BY <1>4 DEF Running
<1> QED BY <1>1, <1>2, <1>3, <1>4
        DEF Act, Begin, Fail, Lapse, Renew, Die, Expire, Raise, docker

LEMMA CapacityInit == Init => CInv
BY LockInit DEF Init, CInv, RunningWithinCapacity, Counted, At, Idle, Running

LEMMA CapacityStep == CInv /\ [Next]_vars => CInv'
<1> SUFFICES ASSUME CInv, [Next]_vars PROVE CInv'
  OBVIOUS
<1>1. LInv /\ LInv' /\ TypeOK /\ TypeOK'
  BY LockStep DEF CInv, LInv
<1>2. ASSUME NEW t \in Threads, Launch(t) PROVE RunningWithinCapacity' /\ \A s \in Threads : Counted(s)'
  <2>1. Cardinality(Running) < MaxRunning /\ Capacity \in held[t]
    BY <1>1, <1>2 DEF CInv, Counted, Launch, LInv, Holds, At
  <2>2. Running' \subseteq Running \cup {User(t)}
    BY <1>1, <1>2 DEF Launch, Running, TypeOK
  <2>3. /\ Cardinality(Running) \in Nat /\ Cardinality(Running') \in Nat
        /\ Cardinality(Running') <= Cardinality(Running) + 1
    BY <1>1, <2>2, RunningFinite, OneMore
  <2>4. RunningWithinCapacity'
    BY <2>1, <2>3, ConstantAssumption DEF RunningWithinCapacity
  <2>5. ASSUME NEW s \in Threads PROVE ~At(s, "starting")'
    <3>1. CASE s = t
      BY <1>1, <1>2, <3>1, ObtainedEffect DEF Launch, At
    <3>2. CASE s # t
      <4>1. Capacity \notin held[s]
        BY <1>1, <2>1, <3>2 DEF TypeOK
      <4>2. ~At(s, "starting")
        BY <1>1, <4>1 DEF LInv, Holds, At
      <4>3. call'[s] = call[s]
        BY <1>1, <1>2, <3>2, ObtainedEffect DEF Launch, At
      <4> QED BY <4>2, <4>3 DEF At
    <3> QED BY <3>1, <3>2
  <2> QED BY <2>4, <2>5 DEF Counted
<1>3. ASSUME NEW t \in Threads, Act(t), ~Launch(t)
      PROVE  RunningWithinCapacity' /\ \A s \in Threads : Counted(s)'
  <2>1. Cardinality(Running') \in Nat /\ Cardinality(Running') <= Cardinality(Running)
    BY <1>1, <1>3, OnlyLaunchStarts, FewerRun
  <2>2. Cardinality(Running) \in Nat /\ MaxRunning \in Nat
    BY <1>1, RunningFinite, ConstantAssumption
  <2>3. RunningWithinCapacity'
    BY <2>1, <2>2 DEF CInv, RunningWithinCapacity
  <2>4. ASSUME NEW s \in Threads, At(s, "starting")'
        PROVE  Cardinality(Running) < MaxRunning
    <3>1. CASE At(s, "starting")
      BY <3>1 DEF CInv, Counted
    <3>2. CASE ~At(s, "starting")
      <4>1. s = t
        BY <1>1, <1>3, <2>4, <3>2, LockAct DEF OthersStay, At
      <4>2. Look(t)
        BY <1>1, <1>3, <2>4, <3>2, <4>1, StageAfter DEF Reaches, At
      <4>3. ~At(t, "idle")
        BY <4>2 DEF Look, At
      <4>4. call'[t].stage = "starting"
        BY <2>4, <4>1 DEF At
      <4>5. ~Leave(t) /\ ~Obtained(t)
        BY <1>1, <4>3, <4>4, ObtainedEffect, LeaveEffect DEF Idle
      <4>6. CASE call' = [call EXCEPT ![t].stage = "evicting", ![t].rivals = Running]
        <5>1. call'[t] = [call[t] EXCEPT !.stage = "evicting", !.rivals = Running]
          BY <1>1, <4>6 DEF TypeOK
        <5> QED BY <1>1, <4>3, <4>4, <5>1, CallType DEF Call
      <4> QED BY <4>2, <4>5, <4>6 DEF Look
    <3> QED BY <3>1, <3>2
  <2>5. \A s \in Threads : Counted(s)'
    BY <2>1, <2>2, <2>4 DEF Counted
  <2> QED BY <2>3, <2>5
<1>4. CASE UNCHANGED vars
  BY <1>1, <1>4 DEF vars, CInv, RunningWithinCapacity, Counted, At, Running
<1> QED BY <1>1, <1>2, <1>3, <1>4 DEF Next, CInv

(* max_running_containers holds at every moment, for any number of threads *)
(* and users and however calls fail, die or lose their leases.             *)
THEOREM CapacityHolds == Spec => []RunningWithinCapacity
<1>1. CInv => RunningWithinCapacity
  BY DEF CInv
<1> QED BY <1>1, CapacityInit, CapacityStep, PTL DEF Spec

-----------------------------------------------------------------------------
(* Leases.                                                                 *)

LEMMA UserType ==
    ASSUME TypeOK, NEW t \in Threads, ~At(t, "idle")
    PROVE  /\ User(t) \in Users
           /\ Kind(t) \in OnUser => User(t) = call[t].on
           /\ Kind(t) \in OnConversation => call[t].on \in Conversations \ Users
BY CallType, CallOn, ConstantAssumption DEF Call, User, UserOf

\* A call keeps its user.
LEMMA SameUser ==
    ASSUME NEW t \in Threads, call'[t].on = call[t].on
    PROVE  User(t)' = User(t)
BY DEF User

\* The lease and the mark of a thread are touched by itself only.
LEMMA OwnLease ==
    ASSUME NEW t \in Threads, Act(t), NEW s \in Threads, s # t
    PROVE  (s \in lease' <=> s \in lease) /\ (s \in flagged' <=> s \in flagged)
<1>1. CASE lease' = lease /\ flagged' = flagged
  BY <1>1
<1>2. CASE Leave(t)
  BY <1>2 DEF Leave
<1>3. CASE lease' = lease \cup {t} /\ flagged' = flagged
  BY <1>3
<1>4. CASE Lapse(t)
  BY <1>4 DEF Lapse
<1>5. CASE Expire(t)
  BY <1>5 DEF Expire
<1>6. CASE Entering(t)
  BY <1>1, <1>2, <1>3, <1>6 DEF Entering, Register, Enter, Drain, DrainThenRun, Raise, redis
<1>7. CASE GetRunning(t)
  BY <1>1, <1>2, <1>7, SeekingLeases
<1>8. CASE Working(t)
  BY <1>1, <1>2, <1>8, SMTT(40) DEF Working, End, Reclaim, ReserveAll, LockWrite, LockOther, Write,
                          Remove, RemoveContainer, RemoveVolume, Raise, redis
<1> QED
  BY <1>1, <1>2, <1>3, <1>4, <1>5, <1>6, <1>7, <1>8
     DEF Act, Begin, Fail, Renew, Die, Raise, redis

\* A running container is stopped or removed by an eviction that finds no
\* lease, by the clean-up and by the deletion of its user.
LEMMA StoppedBy ==
    ASSUME TypeOK, NEW t \in Threads, Act(t), NEW u \in Users,
           container[u] = "running", container'[u] # "running"
    PROVE  \/ Displace(t) /\ u = call[t].rival /\ Idled(u)
           \/ (Reclaim(t) \/ RemoveContainer(t)) /\ u = User(t)
<1>1. container' # container
  OBVIOUS
<1>2. CASE Look(t) \/ Launch(t) \/ LockWrite(t)
  BY <1>2 DEF Look, Launch, LockWrite, Raise, docker, TypeOK
<1>3. CASE Displace(t)
  BY <1>3 DEF Displace, TypeOK
<1>4. CASE Reclaim(t) \/ RemoveContainer(t)
  BY <1>4 DEF Reclaim, RemoveContainer, TypeOK
<1> QED
  BY <1>1, <1>2, <1>3, <1>4
     DEF Act, Begin, Fail, Lapse, Renew, Die, Expire, Raise, docker,
         Entering, Register, Enter, Drain, DrainThenRun,
         GetRunning, Reserve, NoPlace, EnterRival, ClearRival, Choose,
         Working, End, ReserveAll, LockOther, Write, Remove, RemoveVolume

\* An operation comes to be registered by the script, with a lease and past an
\* open gate.
LEMMA RegisteredBy ==
    ASSUME LInv, NEW t \in Threads, Act(t), Registered(t)', ~Registered(t)
    PROVE  /\ lease' = lease \cup {t} /\ Free(Gate(User(t)))
           /\ call'[t].on = call[t].on
<1>1. TypeOK /\ Shape(t)
  BY DEF LInv
<1>2. SameCall(t) /\ Reaches(t) /\ call'[t].stage \in Seeking \cup {"using"}
      /\ call'[t].kind = "operation"
  BY <1>1, StageAfter DEF Registered, Kind, SameCall, Seeking
<1>3. call[t].kind = "operation" /\ call'[t].on = call[t].on
  BY <1>2 DEF SameCall, Seeking
<1>4. call[t].stage \notin Seeking
  BY <1>3, SMTT(40) DEF Registered, Kind
<1>5. Register(t)
  BY <1>2, <1>3, <1>4
     DEF Reaches, Seeking, GetRunning, Reserve, Look, Launch, NoPlace, EnterRival, ClearRival,
         Displace, Choose, DrainThenRun, At, Kind
<1>6. ~Leave(t)
  BY <1>1, <1>2, LeaveEffect DEF Idle
<1> QED BY <1>3, <1>5, <1>6 DEF Register, Raise

LEMMA LeaseInit == Init => UInv
BY LockInit DEF Init, UInv, UsedContainerRuns, Leased, Cleared, Registered, At, Kind, Idle, OnUser

\* The mark of an operation stays until the operation ends.
LEMMA MarkStays ==
    ASSUME TypeOK, NEW t \in Threads, Act(t), t \in flagged, Registered(t)'
    PROVE  t \in flagged'
<1>1. ~Leave(t)
  BY LeaveEffect DEF Registered, Kind, Idle
<1>2. CASE Entering(t)
  BY <1>1, <1>2 DEF Entering, Register, Enter, Drain, DrainThenRun, Raise, redis
<1>3. CASE GetRunning(t)
  BY <1>1, <1>3, SeekingLeases
<1>4. CASE Working(t)
  BY <1>1, <1>4 DEF Working, End, Reclaim, ReserveAll, LockWrite, LockOther, Write,
                    Remove, RemoveContainer, RemoveVolume, Raise, redis
<1>5. CASE Expire(t)
  BY <1>5 DEF Expire, Registered, Kind, Idle, At, TypeOK, Seeking
<1> QED BY <1>1, <1>2, <1>3, <1>4, <1>5 DEF Act, Begin, Fail, Lapse, Renew, Die, Raise, redis

\* The lease of an operation is there until the operation ends or has lost it.
LEMMA LeasedStep ==
    ASSUME UInv, NEW t \in Threads, Act(t)
    PROVE  Leased(t)'
<1>1. LInv /\ TypeOK /\ Leased(t)
  BY DEF UInv, LInv
<1> SUFFICES ASSUME Registered(t)', t \notin flagged' PROVE t \in lease'
  BY DEF Leased
<1>2. CASE ~Registered(t)
  BY <1>1, <1>2, RegisteredBy
<1>3. CASE Registered(t)
  <2>1. ~Leave(t) /\ ~Die(t) /\ ~At(t, "dead") /\ ~At(t, "idle") /\ ~At(t, "entering")
    <3>1. ~At(t, "dead") /\ ~At(t, "idle") /\ ~At(t, "entering")
      BY <1>3 DEF Registered, At, Seeking
    <3>2. ~Leave(t)
      BY <1>1, LeaveEffect DEF Registered, Kind, Idle
    <3>3. ~Goto(t, "dead")
      BY <1>1, <3>1, GotoEffect DEF Registered, Seeking, Stages
    <3> QED BY <3>1, <3>2, <3>3 DEF Die
  <2>2. ~Lapse(t)
    BY DEF Lapse
  <2>3. lease \subseteq lease' /\ flagged' = flagged
    <3>1. CASE Entering(t)
      BY <2>1, <3>1 DEF Entering, Register, Enter, Drain, DrainThenRun, Raise, redis
    <3>2. CASE GetRunning(t)
      BY <2>1, <3>2, SeekingLeases
    <3>3. CASE Working(t)
      BY <2>1, <3>3 DEF Working, End, Reclaim, ReserveAll, LockWrite, LockOther, Write,
                        Remove, RemoveContainer, RemoveVolume, Raise, redis
    <3> QED BY <2>1, <2>2, <3>1, <3>2, <3>3 DEF Act, Begin, Fail, Renew, Expire, Raise
  <2> QED BY <1>1, <1>3, <2>3 DEF Leased
<1> QED BY <1>2, <1>3

\* Behind the gate of a user nobody registers.
LEMMA ClearedStep ==
    ASSUME UInv, NEW t \in Threads, Act(t), NEW c \in Threads
    PROVE  Cleared(c)'
<1>1. LInv /\ TypeOK /\ LInv' /\ TypeOK' /\ OthersStay(t)
  BY LockAct, LockStep DEF UInv, LInv, Next
<1> DEFINE Behind == {"reserving", "locking", "working", "purging"}
<1> SUFFICES ASSUME Kind(c)' \in OnUser, call'[c].stage \in Behind,
                    NEW s \in Threads, Registered(s)', User(s)' = call'[c].on
             PROVE  s \in flagged'
  BY DEF Cleared
<1>2. s # c
  BY DEF Registered, Kind, OnUser
<1>3. ASSUME Kind(c) \in OnUser, call[c].stage \in Behind, call'[c].on = call[c].on
      PROVE  s \in flagged'
  <2>1. /\ call[c].on \in Users /\ Gate(call[c].on) \in held[c]
        /\ \A r \in Threads : Registered(r) /\ User(r) = call[c].on => r \in flagged
    BY <1>1, <1>3, CallOn DEF UInv, Cleared, LInv, Holds, OnUser
  <2>2. CASE Registered(s) /\ s # t
    BY <1>1, <1>3, <2>1, <2>2, OwnLease, SameUser DEF OthersStay
  <2>3. CASE Registered(s) /\ s = t
    <3>1. call'[s].on = call[s].on
      BY <1>1, <2>3, StageAfter DEF SameCall, Registered, Seeking
    <3>2. s \in flagged
      BY <1>3, <2>1, <2>3, <3>1, SameUser
    <3> QED BY <1>1, <2>3, <3>2, MarkStays
  <2>4. CASE ~Registered(s)
    <3>1. s = t
      BY <1>1, <2>4 DEF OthersStay, Registered, Kind
    <3>2. Free(Gate(User(s))) /\ User(s) = call[c].on
      BY <1>1, <1>3, <2>4, <3>1, RegisteredBy, SameUser
    <3> QED BY <2>1, <3>2 DEF Free
  <2> QED BY <2>2, <2>3, <2>4
<1>4. CASE c # t
  BY <1>1, <1>3, <1>4 DEF OthersStay, Kind
<1>5. CASE c = t
  <2>1. call'[c].on = call[c].on /\ call'[c].kind = call[c].kind
    BY <1>1, <1>5, StageAfter DEF SameCall
  <2>2. CASE call[c].stage \in Behind
    BY <1>3, <2>1, <2>2 DEF Kind
  <2>3. CASE call[c].stage \notin Behind
    <3>1. Reaches(t)
      BY <1>1, <1>5, <2>3, StageAfter
    <3>2. Drain(t)
      BY <1>1, <1>5, <2>1, <2>3, <3>1
         DEF Reaches, LInv, Shape, Kind, OnUser, Look, Launch, ReserveAll, LockWrite, LockOther,
             RemoveContainer, At, Seeking
    <3>3. Idled(call[c].on) /\ UNCHANGED <<lease, flagged>>
      BY <1>5, <3>2 DEF Drain, redis
    <3>4. call'[s] = call[s]
      BY <1>1, <1>2, <1>5 DEF OthersStay
    <3>5. Registered(s) /\ User(s) = call[c].on
      BY <2>1, <3>4, SameUser DEF Registered, Kind
    <3>6. s \notin lease
      BY <3>3, <3>5 DEF Idled, LeasesOn
    <3> QED BY <3>3, <3>5, <3>6 DEF UInv, Leased
  <2> QED BY <2>2, <2>3
<1> QED BY <1>4, <1>5

LEMMA UsedStep ==
    ASSUME UInv, NEW t \in Threads, Act(t)
    PROVE  UsedContainerRuns'
<1>1. LInv /\ TypeOK /\ Shape(t) /\ OthersStay(t)
  BY LockAct DEF UInv, LInv
<1> SUFFICES ASSUME NEW s \in Threads, At(s, "using")', s \notin flagged'
             PROVE  container'[User(s)'] = "running"
  BY DEF UsedContainerRuns
<1>2. CASE At(s, "using") /\ s \notin flagged
  <2>1. User(s) \in Users /\ container[User(s)] = "running"
    BY <1>1, <1>2, UserType DEF UInv, UsedContainerRuns, At
  <2>2. Registered(s) /\ s \in lease
    BY <1>2 DEF UInv, LInv, Shape, Leased, Registered, At, Seeking
  <2>3. User(s)' = User(s)
    BY <1>1, <1>2, StageAfter, SameUser DEF OthersStay, SameCall, At
  <2>4. ASSUME container'[User(s)] # "running" PROVE FALSE
    <3>1. CASE User(s) = call[t].rival /\ Idled(User(s))
      BY <2>2, <3>1 DEF Idled, LeasesOn
    <3>2. CASE (Reclaim(t) \/ RemoveContainer(t)) /\ User(s) = User(t)
      <4>1. Kind(t) \in OnUser /\ call[t].stage \in {"reserving", "working"}
        BY <3>2 DEF Reclaim, RemoveContainer, At, OnUser
      <4>2. User(s) = call[t].on
        BY <1>1, <3>2, <4>1, UserType DEF At
      <4> QED BY <1>2, <2>2, <4>1, <4>2 DEF UInv, Cleared
    <3> QED BY <1>1, <2>1, <2>4, <3>1, <3>2, StoppedBy
  <2> QED BY <2>3, <2>4
<1>3. CASE At(s, "using") /\ s \in flagged
  <2>1. s = t
    BY <1>3, OwnLease
  <2>2. Registered(s)'
    BY <1>1, <1>3, <2>1, StageAfter
       DEF LInv, Shape, Registered, Kind, SameCall, At
  <2> QED BY <1>1, <1>3, <2>1, <2>2, MarkStays
<1>4. CASE ~At(s, "using")
  <2>1. s = t
    BY <1>1, <1>4 DEF OthersStay, At
  <2>2. Look(t) \/ Launch(t)
    BY <1>1, <1>4, <2>1, StageAfter DEF Reaches, At
  <2>3. ~At(t, "idle") /\ User(t) \in Users /\ User(t)' = User(t)
    BY <1>1, <2>1, <2>2, UserType, StageAfter, SameUser DEF Look, Launch, SameCall, At
  <2>4. CASE Launch(t)
    BY <1>1, <2>1, <2>3, <2>4 DEF Launch, TypeOK
  <2>5. CASE Look(t)
    <3>1. ~Leave(t)
      BY <1>1, <2>1, LeaveEffect DEF At, Idle
    <3>2. ~Goto(t, "starting")
      BY <1>1, <2>1, <2>3, GotoEffect DEF At, Stages
    <3>3. call' # [call EXCEPT ![t].stage = "evicting", ![t].rivals = Running]
      <4>1. SUFFICES ASSUME call' = [call EXCEPT ![t].stage = "evicting", ![t].rivals = Running]
                     PROVE  FALSE
        OBVIOUS
      <4>2. call'[t] = [call[t] EXCEPT !.stage = "evicting", !.rivals = Running]
        BY <1>1, <4>1 DEF TypeOK
      <4> QED BY <1>1, <2>1, <2>3, <4>2, CallType DEF Call, At
    <3>4. User(t) \in Running
      BY <2>5, <3>1, <3>2, <3>3 DEF Look
    <3> QED BY <1>1, <2>1, <2>3, <2>5, <3>4 DEF Look, Running, TypeOK
  <2> QED BY <2>2, <2>4, <2>5
<1> QED BY <1>2, <1>3, <1>4

LEMMA LeaseStep == UInv /\ [Next]_vars => UInv'
<1> SUFFICES ASSUME UInv, [Next]_vars PROVE UInv'
  OBVIOUS
<1>1. LInv /\ LInv' /\ TypeOK
  BY LockStep DEF UInv, LInv
<1>2. ASSUME NEW t \in Threads, Act(t), NEW s \in Threads PROVE Leased(s)'
  <2>1. CASE s = t
    BY <1>2, <2>1, LeasedStep
  <2>2. CASE s # t
    <3>1. call'[s] = call[s]
      BY <1>1, <1>2, <2>2, LockAct DEF OthersStay
    <3> QED BY <1>2, <2>2, <3>1, OwnLease DEF UInv, Leased, Registered, Kind
  <2> QED BY <2>1, <2>2
<1>3. CASE UNCHANGED vars
  <2>1. call' = call /\ lease' = lease /\ flagged' = flagged /\ container' = container
    BY <1>3 DEF vars
  <2> QED BY <1>1, <2>1 DEF UInv, UsedContainerRuns, Leased, Cleared, Registered, User, Kind, At
<1> QED BY <1>1, <1>2, <1>3, ClearedStep, UsedStep DEF Next, UInv

(* No eviction, clean-up or deletion takes the container from an operation *)
(* that has kept its lease, for any threads, users and timing.             *)
THEOREM UsedContainersRun == Spec => []UsedContainerRuns
<1>1. UInv => UsedContainerRuns
  BY SMTT(40) DEF UInv
<1> QED BY <1>1, LeaseInit, LeaseStep, PTL DEF Spec

-----------------------------------------------------------------------------
(* Tombstones.                                                             *)

\* A deletion marks what it is about to delete, behind its gate; nothing
\* takes a mark back.
LEMMA MarkedBy ==
    ASSUME LInv, NEW t \in Threads, Act(t)
    PROVE  \/ tombstone' = tombstone
           \/ /\ DrainThenRun(t) /\ Kind(t) = "deleteConversation"
              /\ tombstone' = tombstone \cup {call[t].on}
              /\ call[t].on \in Conversations \ Users /\ Gate(call[t].on) \in held[t]
           \/ /\ LockOther(t) /\ Kind(t) = "deleteUser"
              /\ tombstone' = tombstone \cup {call[t].on}
              /\ call[t].on \in Users /\ Capacity \in held[t]
<1>1. TypeOK /\ Holds(t)
  BY DEF LInv
<1>2. CASE DrainThenRun(t)
  <2>1. ~At(t, "idle") /\ Kind(t) \in OnConversation /\ Gate(call[t].on) \in held[t]
    BY <1>1, <1>2 DEF DrainThenRun, At, OnConversation, Holds
  <2>2. call[t].on \in Conversations \ Users
    BY <1>1, <2>1, UserType
  <2>3. CASE Kind(t) = "deleteConversation"
    BY <1>2, <2>1, <2>2, <2>3 DEF DrainThenRun
  <2>4. CASE Kind(t) # "deleteConversation"
    BY <1>2, <2>4 DEF DrainThenRun, Raise
  <2> QED BY <2>3, <2>4
<1>3. CASE LockOther(t)
  <2>1. CASE Kind(t) = "deleteUser"
    <3>1. User(t) = call[t].on /\ call[t].on \in Users /\ Capacity \in held[t]
      BY <1>1, <1>3, <2>1, UserType DEF LockOther, At, Holds, OnUser
    <3> QED BY <1>3, <2>1, <3>1 DEF LockOther
  <2>2. CASE Kind(t) # "deleteUser"
    BY <1>3, <2>2, SMTT(40) DEF LockOther
  <2> QED BY <2>1, <2>2
<1> QED
  BY <1>2, <1>3
     DEF Act, Begin, Fail, Lapse, Renew, Die, Expire, Raise, redis,
         Entering, Register, Enter, Drain,
         GetRunning, Reserve, Look, Launch, NoPlace, EnterRival, ClearRival, Displace, Choose,
         Working, End, Reclaim, ReserveAll, LockWrite, Write, Remove, RemoveContainer,
         RemoveVolume

\* A container or a volume is made by a call that has asked for the user.
LEMMA MadeBy ==
    ASSUME DInv, NEW t \in Threads, Act(t), NEW u \in Users,
           \/ container[u] = "none" /\ container'[u] # "none"
           \/ u \notin volume /\ u \in volume'
    PROVE  /\ u = User(t) /\ u \notin tombstone
           /\ Look(t) \/ Launch(t) \/ LockWrite(t)
           /\ LockWrite(t) \/ Capacity \in held[t]
<1>1. TypeOK /\ Holds(t) /\ Asked(t)
  BY DEF DInv, LInv
<1>2. CASE Look(t) \/ Launch(t)
  <2>1. u = User(t)
    BY <1>1, <1>2 DEF Look, Launch, TypeOK
  <2> QED BY <1>1, <1>2, <2>1 DEF Look, Launch, Holds, Asked, At
<1>3. CASE LockWrite(t)
  BY <1>1, <1>3 DEF LockWrite, Raise, docker, TypeOK
<1>4. CASE Displace(t) \/ Reclaim(t) \/ RemoveContainer(t)
  BY <1>1, <1>4 DEF Displace, Reclaim, RemoveContainer, Running, TypeOK
<1> QED
  BY <1>1, <1>2, <1>3, <1>4
     DEF Act, Begin, Fail, Lapse, Renew, Die, Expire, Raise, docker,
         Entering, Register, Enter, Drain, DrainThenRun,
         GetRunning, Reserve, NoPlace, EnterRival, ClearRival, Choose,
         Working, End, ReserveAll, LockOther, Write, Remove, RemoveVolume

\* A volume goes with RemoveVolume only, which also records the deletion; a
\* workspace is made by Write; a deletion of a Conversation is recorded when
\* its workspace has been removed, or when there is no volume.
LEMMA StoredBy ==
    ASSUME LInv, NEW t \in Threads, Act(t)
    PROVE  /\ volume \subseteq volume' \/ RemoveVolume(t)
           /\ \/ workspace' \subseteq workspace
              \/ /\ Write(t) /\ container[User(t)] # "none" /\ container' = container
                 /\ workspace' = workspace \cup {call[t].on}
           /\ \/ deleted' = deleted
              \/ RemoveVolume(t)
              \/ /\ Remove(t) /\ Kind(t) = "deleteConversation"
                 /\ deleted' = deleted \cup {call[t].on}
                 /\ workspace' = workspace \ {call[t].on}
              \/ /\ DrainThenRun(t) /\ UNCHANGED docker /\ User(t) \notin volume
                 /\ Kind(t) \in OnConversation
                 /\ deleted' = deleted \cup (tombstone' \cap {call[t].on})
<1>1. CASE Entering(t)
  BY <1>1, SMTT(40) DEF Entering, Register, Enter, Drain, DrainThenRun, Raise, docker, OnConversation
<1>2. CASE GetRunning(t)
  BY <1>2 DEF GetRunning, Reserve, Look, Launch, NoPlace, EnterRival, ClearRival, Displace,
              Choose, Raise, docker
<1>3. CASE Working(t)
  BY <1>3 DEF Working, End, Reclaim, ReserveAll, LockWrite, LockOther, Write, Remove,
              RemoveContainer, RemoveVolume, Raise, docker
<1> QED BY <1>1, <1>2, <1>3 DEF Act, Begin, Fail, Lapse, Renew, Die, Expire, Raise, docker

LEMMA DeletionInit == Init => DInv
<1> SUFFICES ASSUME Init PROVE DInv
  OBVIOUS
<1>1. LInv
  BY LockInit
<1>2. Stores /\ DeletedStaysDeleted
  BY DEF Init, Stores, DeletedStaysDeleted
<1>3. \A t \in Threads : Asked(t)
  BY DEF Init, Asked, At, Kind, Idle, Seeking
<1> QED BY <1>1, <1>2, <1>3 DEF DInv

\* What a call has found out stays so while others act.
LEMMA OthersAsked ==
    ASSUME DInv, NEW t \in Threads, Act(t), NEW s \in Threads, s # t
    PROVE  Asked(s)'
<1>1. LInv /\ TypeOK /\ Holds(s) /\ Asked(s) /\ call'[s] = call[s]
  BY LockAct DEF DInv, LInv, OthersStay
<1>2. User(s)' = User(s)
  BY <1>1, SameUser
<1>3. tombstone \subseteq tombstone'
  BY <1>1, MarkedBy
<1>4. ASSUME call[s].stage \in {"looking", "starting"}
      PROVE  User(s) \notin tombstone' /\ (User(s) \in volume => User(s) \in volume')
  <2>1. User(s) \in Users /\ User(s) \notin tombstone /\ Capacity \in held[s]
    BY <1>1, <1>4, UserType DEF Asked, Holds, At
  <2>2. Capacity \notin held[t]
    BY <1>1, <2>1 DEF TypeOK
  <2>3. User(s) \notin tombstone'
    BY <1>1, <2>1, <2>2, MarkedBy
  <2>4. ~RemoveVolume(t)
    BY <1>1, <2>2 DEF RemoveVolume, At, LInv, Shape, Holds, Kind
  <2> QED BY <1>1, <2>3, <2>4, StoredBy
<1>5. ASSUME Kind(s) = "write", At(s, "working") PROVE call[s].on \notin tombstone'
  <2>1. /\ call[s].on \in Conversations \ Users /\ call[s].on \notin tombstone
        /\ Gate(call[s].on) \in held[s]
    BY <1>1, <1>5, UserType DEF Asked, Holds, At, OnConversation
  <2>2. Gate(call[s].on) \notin held[t]
    BY <1>1, <2>1 DEF TypeOK
  <2> QED BY <1>1, <2>1, <2>2, MarkedBy
<1>6. ASSUME At(s, "purging") PROVE container'[call[s].on] = "none"
  <2>1. /\ Kind(s) = "deleteUser" /\ Capacity \in held[s]
        /\ call[s].on \in tombstone /\ container[call[s].on] = "none"
    BY <1>1, <1>6 DEF LInv, Shape, Asked, Holds, At
  <2>2. call[s].on \in Users
    BY <1>1, <2>1, CallOn DEF OnUser
  <2>3. Capacity \notin held[t]
    BY <1>1, <2>1 DEF TypeOK
  <2> QED BY <2>1, <2>2, <2>3, MadeBy
<1> QED BY <1>1, <1>2, <1>3, <1>4, <1>5, <1>6 DEF Asked, Kind, At

\* A call that goes on looking or starting has not been marked itself.
LEMMA StaysLooking ==
    ASSUME DInv, NEW t \in Threads, Act(t), call[t].stage \in {"looking", "starting"}, ~Leave(t)
    PROVE  User(t) \notin tombstone' /\ (User(t) \in volume => User(t) \in volume')
<1>1. LInv /\ User(t) \notin tombstone
  BY DEF DInv, Asked
<1>2. tombstone' = tombstone
  BY <1>1, MarkedBy DEF DrainThenRun, LockOther, At
<1>3. volume \subseteq volume'
  BY <1>1, StoredBy DEF RemoveVolume, At
<1> QED BY <1>1, <1>2, <1>3

\* And what it finds out itself, it finds where it has to.
LEMMA OwnAsked ==
    ASSUME DInv, NEW t \in Threads, Act(t)
    PROVE  Asked(t)'
<1> DEFINE after == call'[t].stage
<1>1. LInv /\ TypeOK /\ Holds(t) /\ Shape(t) /\ Asked(t)
  BY DEF DInv, LInv
<1>2. CASE after \in {"idle", "entering"}
  BY <1>2 DEF Asked, At, Seeking
<1>3. CASE after \notin {"idle", "entering"}
  <2>1. /\ call'[t].kind = call[t].kind /\ call'[t].on = call[t].on /\ User(t)' = User(t)
        /\ after = call[t].stage \/ Reaches(t)
    BY <1>1, <1>3, StageAfter, SameUser DEF SameCall
  <2>2. ~Leave(t)
    BY <1>1, <1>3, LeaveEffect DEF Idle
  <2>3. tombstone \subseteq tombstone'
    BY <1>1, MarkedBy
  <2>4. ASSUME after = "looking" PROVE User(t) \notin tombstone'
    <3>1. CASE call[t].stage = "looking"
      BY <2>2, <3>1, StaysLooking
    <3>2. CASE call[t].stage # "looking"
      BY <2>1, <2>2, <2>4, <3>2 DEF Reaches, Reserve, Raise
    <3> QED BY <3>1, <3>2
  <2>5. ASSUME after = "starting" PROVE User(t) \notin tombstone' /\ User(t) \in volume'
    <3>1. CASE call[t].stage = "starting"
      BY <1>1, <2>2, <3>1, StaysLooking DEF Asked, At
    <3>2. CASE call[t].stage # "starting"
      BY <1>1, <2>1, <2>2, <2>5, <3>2 DEF Reaches, Look, Asked, At
    <3> QED BY <3>1, <3>2
  <2>6. ASSUME Kind(t) = "write", after = "working" PROVE call[t].on \notin tombstone'
    <3>1. tombstone' = tombstone
      BY <1>1, <2>6, MarkedBy
    <3>2. CASE call[t].stage = "working"
      BY <1>1, <2>6, <3>1, <3>2 DEF Asked, At
    <3>3. CASE call[t].stage # "working"
      BY <2>1, <2>2, <2>6, <3>1, <3>3 DEF Reaches, LockWrite, LockOther, Raise
    <3> QED BY <3>2, <3>3
  <2>7. ASSUME Kind(t) = "deleteConversation", after \in Seeking \cup {"locking", "working"}
        PROVE  call[t].on \in tombstone'
    <3>1. CASE call[t].stage \in Seeking \cup {"locking", "working"}
      BY <1>1, <2>3, <2>7, <3>1 DEF Asked
    <3>2. CASE call[t].stage \notin Seeking \cup {"locking", "working"}
      <4>1. DrainThenRun(t)
        BY <2>1, <2>7, <3>2
           DEF Reaches, Seeking, Register, Displace, Reserve, Look, Launch, GetRunning, NoPlace,
               EnterRival, ClearRival, Choose, Drain, ReserveAll, LockWrite, LockOther, At
      <4> QED BY <2>2, <2>7, <4>1, SMTT(40) DEF DrainThenRun, Raise
    <3> QED BY <3>1, <3>2
  <2>8. ASSUME Kind(t) = "deleteUser", after \in {"working", "purging"}
        PROVE  call[t].on \in tombstone'
    <3>1. CASE call[t].stage \in {"working", "purging"}
      BY <1>1, <2>3, <2>8, <3>1 DEF Asked
    <3>2. CASE call[t].stage \notin {"working", "purging"}
      <4>1. LockOther(t)
        BY <2>1, <2>8, <3>2 DEF Reaches, LockWrite, RemoveContainer, At
      <4>2. User(t) = call[t].on
        BY <1>1, <2>8, <4>1, UserType DEF LockOther, At, OnUser
      <4> QED BY <2>8, <4>1, <4>2 DEF LockOther
    <3> QED BY <3>1, <3>2
  <2>9. ASSUME after = "purging" PROVE container'[call[t].on] = "none"
    <3>1. Kind(t) = "deleteUser"
      BY <1>1, <2>1, <2>9 DEF Shape, Reaches, RemoveContainer, At
    <3>2. call[t].on \in Users
      BY <1>1, <3>1, CallOn DEF OnUser
    <3>3. CASE call[t].stage = "purging"
      <4>1. container[call[t].on] = "none"
        BY <1>1, <3>3 DEF Asked, At
      <4>2. ~Look(t) /\ ~Launch(t) /\ ~LockWrite(t)
        BY <3>3 DEF Look, Launch, LockWrite, At
      <4> QED BY <3>2, <4>1, <4>2, MadeBy
    <3>4. CASE call[t].stage # "purging"
      <4>1. RemoveContainer(t)
        BY <2>1, <2>9, <3>4 DEF Reaches
      <4>2. User(t) = call[t].on
        BY <1>1, <3>1, <4>1, UserType DEF RemoveContainer, At, OnUser
      <4> QED BY <1>1, <3>2, <4>1, <4>2 DEF RemoveContainer, TypeOK
    <3> QED BY <3>3, <3>4
  <2> QED BY <2>1, <2>4, <2>5, <2>6, <2>7, <2>8, <2>9 DEF Asked, Kind, At
<1> QED BY <1>2, <1>3

LEMMA StoresStep ==
    ASSUME DInv, NEW t \in Threads, Act(t)
    PROVE  Stores'
<1>1. LInv /\ TypeOK /\ TypeOK' /\ Stores /\ Shape(t) /\ Asked(t)
  BY LockStep DEF DInv, LInv, Next
<1>2. ASSUME RemoveVolume(t)
      PROVE  /\ User(t) = call[t].on /\ User(t) \in Users /\ User(t) \in tombstone
             /\ container' = container /\ container[User(t)] = "none"
             /\ tombstone' = tombstone
  BY <1>1, <1>2, UserType DEF RemoveVolume, Shape, Asked, At, OnUser
<1>3. ASSUME NEW u \in Users, container'[u] # "none" PROVE u \in volume'
  <2>1. CASE RemoveVolume(t)
    BY <1>1, <1>2, <1>3, <2>1 DEF Stores, RemoveVolume
  <2>2. CASE ~RemoveVolume(t)
    <3>1. volume \subseteq volume'
      BY <1>1, <2>2, StoredBy
    <3>2. CASE container[u] # "none"
      BY <1>1, <3>1, <3>2 DEF Stores
    <3>3. CASE container[u] = "none"
      <4>1. u = User(t) /\ (Look(t) \/ Launch(t) \/ LockWrite(t))
        BY <1>3, <3>3, MadeBy
      <4>2. CASE Launch(t)
        BY <1>1, <3>1, <4>1, <4>2 DEF Launch, Asked, At
      <4>3. CASE Look(t)
        BY <4>1, <4>3 DEF Look
      <4>4. CASE LockWrite(t)
        BY <1>3, <3>3, <4>1, <4>4 DEF LockWrite, Raise, docker
      <4> QED BY <4>1, <4>2, <4>3, <4>4
    <3> QED BY <3>2, <3>3
  <2> QED BY <2>1, <2>2
<1>4. ASSUME NEW c \in workspace' PROVE Owner[c] \in volume'
  <2>1. CASE RemoveVolume(t)
    BY <1>1, <1>4, <2>1 DEF Stores, RemoveVolume
  <2>2. CASE ~RemoveVolume(t)
    <3>1. volume \subseteq volume'
      BY <1>1, <2>2, StoredBy
    <3>2. CASE c \in workspace
      BY <1>1, <3>1, <3>2 DEF Stores
    <3>3. CASE c \notin workspace
      <4>1. Write(t) /\ container[User(t)] # "none" /\ c = call[t].on
        BY <1>1, <1>4, <3>3, StoredBy
      <4>2. c \in Conversations /\ User(t) = Owner[c] /\ User(t) \in Users
        BY <1>1, <4>1, UserType DEF Write, At, OnConversation, User, UserOf
      <4> QED BY <1>1, <3>1, <4>1, <4>2 DEF Stores
    <3> QED BY <3>2, <3>3
  <2> QED BY <2>1, <2>2
<1>5. deleted' \subseteq tombstone'
  <2>1. deleted \subseteq tombstone /\ tombstone \subseteq tombstone'
    BY <1>1, MarkedBy DEF Stores
  <2>2. CASE RemoveVolume(t)
    BY <1>2, <2>1, <2>2 DEF RemoveVolume
  <2>3. CASE Remove(t) /\ Kind(t) = "deleteConversation" /\ deleted' = deleted \cup {call[t].on}
    BY <1>1, <2>1, <2>3 DEF Remove, Asked, At
  <2> QED BY <1>1, <2>1, <2>2, <2>3, StoredBy
<1> QED BY <1>3, <1>4, <1>5 DEF Stores

LEMMA DeletedStep ==
    ASSUME DInv, NEW t \in Threads, Act(t)
    PROVE  DeletedStaysDeleted'
<1>1. /\ LInv /\ TypeOK /\ TypeOK' /\ Stores /\ Shape(t) /\ Asked(t)
      /\ DeletedStaysDeleted
  BY LockStep DEF DInv, LInv, Next
<1>2. ASSUME NEW u \in deleted' \cap Users PROVE container'[u] = "none" /\ u \notin volume'
  <2>1. CASE u \in deleted
    BY <1>1, <1>2, <2>1, MadeBy DEF DeletedStaysDeleted, Stores
  <2>2. CASE u \notin deleted
    <3>1. RemoveVolume(t)
      <4>1. CASE Kind(t) \in OnConversation /\ ~At(t, "idle")
        <5>1. call[t].on # u
          BY <1>1, <1>2, <4>1, UserType
        <5> QED BY <1>1, <1>2, <2>2, <5>1, StoredBy
      <4>2. CASE ~(Kind(t) \in OnConversation /\ ~At(t, "idle"))
        BY <1>1, <1>2, <2>2, <4>2, StoredBy DEF Remove, DrainThenRun, At, OnConversation
      <4> QED BY <4>1, <4>2
    <3>2. User(t) = call[t].on /\ container[User(t)] = "none"
      BY <1>1, <3>1, UserType DEF RemoveVolume, Shape, Asked, At, OnUser
    <3> QED BY <1>1, <1>2, <2>2, <3>1, <3>2 DEF RemoveVolume
  <2> QED BY <2>1, <2>2
<1>3. ASSUME NEW c \in deleted', c \in workspace' PROVE FALSE
  <2>1. c \in Conversations
    BY <1>1, <1>3 DEF TypeOK
  <2>2. CASE c \notin workspace
    <3>1. Write(t) /\ c = call[t].on
      BY <1>1, <1>3, <2>2, StoredBy
    <3>2. c \notin tombstone
      BY <1>1, <3>1 DEF Write, Asked, At
    <3>3. deleted' = deleted
      BY <3>1 DEF Write, Raise
    <3> QED BY <1>1, <1>3, <3>2, <3>3 DEF Stores
  <2>3. CASE c \in workspace
    <3>1. c \notin deleted /\ Owner[c] \in volume
      BY <1>1, <2>3 DEF DeletedStaysDeleted, Stores
    <3>2. CASE RemoveVolume(t)
      <4>1. User(t) \in Users
        BY <1>1, <3>2, UserType DEF RemoveVolume, At
      <4> QED BY <1>3, <2>1, <3>1, <3>2, <4>1, ConstantAssumption DEF RemoveVolume
    <3>3. CASE Remove(t) /\ deleted' = deleted \cup {call[t].on} /\ workspace' = workspace \ {call[t].on}
      BY <1>3, <3>1, <3>3
    <3>4. CASE /\ DrainThenRun(t) /\ User(t) \notin volume /\ Kind(t) \in OnConversation
               /\ deleted' = deleted \cup (tombstone' \cap {call[t].on})
      <4>1. c = call[t].on
        BY <1>3, <3>1, <3>4
      <4> QED BY <2>1, <3>1, <3>4, <4>1 DEF User, UserOf
    <3> QED BY <1>1, <1>3, <3>1, <3>2, <3>3, <3>4, StoredBy
  <2> QED BY <2>2, <2>3
<1> QED BY <1>2, <1>3 DEF DeletedStaysDeleted

LEMMA DeletionStep == DInv /\ [Next]_vars => DInv'
<1> SUFFICES ASSUME DInv, [Next]_vars PROVE DInv'
  OBVIOUS
<1>1. LInv'
  BY LockStep DEF DInv
<1>2. ASSUME NEW t \in Threads, Act(t), NEW s \in Threads PROVE Asked(s)'
  BY <1>2, OwnAsked, OthersAsked
<1>3. CASE UNCHANGED vars
  <2>1. /\ call' = call /\ container' = container /\ volume' = volume
        /\ workspace' = workspace /\ tombstone' = tombstone /\ deleted' = deleted
    BY <1>3 DEF vars
  <2> QED BY <1>1, <2>1 DEF DInv, Stores, DeletedStaysDeleted, Asked, User, Kind, At
<1> QED BY <1>1, <1>2, <1>3, StoresStep, DeletedStep DEF Next, DInv

(* A deleted user has neither container nor volume and a deleted           *)
(* Conversation no workspace, whoever was waiting to make them while the   *)
(* deletion ran, for any threads, users and Conversations.                 *)
THEOREM DeletedStays == Spec => []DeletedStaysDeleted
<1>1. DInv => DeletedStaysDeleted
  BY DEF DInv
<1> QED BY <1>1, DeletionInit, DeletionStep, PTL DEF Spec

-----------------------------------------------------------------------------
(* Waiting.                                                                *)

\* The keys of different locks are different.
LEMMA LocksDiffer ==
    /\ \A x : Capacity # Gate(x) /\ Capacity # Mutation(x)
    /\ \A x, y : Gate(x) # Mutation(y) /\ (Gate(x) = Gate(y) <=> x = y)
    /\ \A x, y : Mutation(x) = Mutation(y) <=> x = y
BY DEF Capacity, Gate, Mutation

\* Goto leaves the rival alone.
LEMMA GotoRival ==
    ASSUME TypeOK, NEW t \in Threads, ~At(t, "idle"), NEW stage \in Stages, Goto(t, stage)
    PROVE  call'[t].rival = call[t].rival
BY GotoEffect, CallType, ZenonT(60) DEF Call

\* In get_running a call locks and unlocks the capacity and the gates of rivals.
LEMMA OwnGetRunning ==
    ASSUME LInv, NEW t \in Threads, HeldOnly(t), GetRunning(t)
    PROVE  HeldOnly(t)'
<1> USE DEF At, Kind, HeldOnly
<1>0. TypeOK /\ Shape(t)
  BY DEF LInv
<1>1. CASE Leave(t)
  BY <1>0, <1>1, LeaveEffect
<1>2. ~At(t, "idle") /\ call[t].stage \in Seeking
  BY SeekingOnly
<1>3. /\ call[t] \in Call /\ call[t].rival \in Users
      /\ call[t].on \in Conversations
  BY <1>0, <1>2, CallType, CallOn DEF Shape, Call, OnConversation
<1>4. CASE Reserve(t) /\ ~Leave(t)
  <2>1. Take(t, Capacity) /\ Goto(t, "looking") /\ Capacity \in Locks
    BY <1>4 DEF Reserve, Raise, Locks
  <2>2. held'[t] = held[t] \cup {Capacity}
    BY <1>0, <2>1, TakeEffect
  <2>3. call'[t].stage = "looking" /\ call'[t].kind = call[t].kind /\ call'[t].on = call[t].on
    BY <1>0, <1>2, <2>1, GotoEffect DEF Stages
  <2> QED BY <1>4, <2>2, <2>3, LocksDiffer DEF Reserve
<1>5. ASSUME Obtained(t), Drop(t, {Capacity}), call[t].stage \in {"looking", "starting"}
      PROVE  HeldOnly(t)'
  <2>1. held'[t] = held[t] \ {Capacity}
    BY <1>0, <1>5, DropEffect
  <2>2. /\ call'[t].stage \in {"using", "locking"} /\ call'[t].kind = call[t].kind
        /\ call'[t].on = call[t].on
    BY <1>0, <1>2, <1>5, ObtainedEffect
  <2> QED BY <1>5, <2>1, <2>2, LocksDiffer
<1>6. CASE Look(t) /\ ~Leave(t)
  <2>1. CASE Goto(t, "starting") /\ UNCHANGED held
    BY <1>0, <1>2, <1>6, <2>1, GotoEffect, LocksDiffer DEF Look, Stages
  <2>2. CASE /\ call' = [call EXCEPT ![t].stage = "evicting", ![t].rivals = Running]
             /\ Drop(t, {Capacity})
    <3>1. call'[t] = [call[t] EXCEPT !.stage = "evicting", !.rivals = Running]
      BY <1>0, <2>2 DEF TypeOK
    <3>2. /\ call'[t].stage = "evicting" /\ call'[t].kind = call[t].kind
          /\ call'[t].on = call[t].on
      BY <1>3, <3>1 DEF Call
    <3>3. held'[t] = held[t] \ {Capacity}
      BY <1>0, <2>2, DropEffect
    <3> QED BY <1>6, <3>2, <3>3, LocksDiffer DEF Look
  <2> QED BY <1>5, <1>6, <2>1, <2>2 DEF Look
<1>7. CASE Launch(t)
  BY <1>5, <1>7 DEF Launch
<1>8. CASE EnterRival(t)
  <2> DEFINE gate == Gate(call[t].rival)
  <2>1. Take(t, gate) /\ Goto(t, "clearing") /\ gate \in Locks
    BY <1>3, <1>8 DEF EnterRival, Locks
  <2> HIDE DEF gate
  <2>2. held'[t] = held[t] \cup {gate}
    BY <1>0, <2>1, TakeEffect
  <2>3. /\ call'[t].stage = "clearing" /\ call'[t].kind = call[t].kind
        /\ call'[t].on = call[t].on /\ call'[t].rival = call[t].rival
    BY <1>0, <1>2, <2>1, GotoEffect, GotoRival DEF Stages
  <2> QED BY <1>8, <2>2, <2>3, LocksDiffer DEF EnterRival, gate
<1>9. CASE ClearRival(t)
  <2>1. /\ call'[t].stage = "displacing" /\ call'[t].kind = call[t].kind
        /\ call'[t].on = call[t].on /\ call'[t].rival = call[t].rival
    BY <1>0, <1>2, <1>9, GotoEffect, GotoRival DEF ClearRival, Stages
  <2> QED BY <1>9, <2>1 DEF ClearRival, redis
<1>10. CASE Displace(t)
  <2>1. held'[t] = held[t] \ {Gate(call[t].rival)}
    BY <1>0, <1>10, DropEffect DEF Displace
  <2>2. /\ call'[t].stage \in {"seeking", "evicting"} /\ call'[t].kind = call[t].kind
        /\ call'[t].on = call[t].on
    <3>1. CASE call' = [call EXCEPT ![t].stage = "seeking", ![t].second = TRUE]
      <4>1. call'[t] = [call[t] EXCEPT !.stage = "seeking", !.second = TRUE]
        BY <1>0, <3>1 DEF TypeOK
      <4> QED BY <1>3, <4>1 DEF Call
    <3>2. CASE Goto(t, "evicting")
      BY <1>0, <1>2, <3>2, GotoEffect DEF Stages
    <3> QED BY <1>10, <3>1, <3>2 DEF Displace
  <2> QED BY <1>10, <2>1, <2>2 DEF Displace
<1>11. ASSUME NEW v \in Users, Choose(t, v) PROVE HeldOnly(t)'
  <2> DEFINE next == IF Idled(v) THEN "gating" ELSE "evicting"
  <2>1. call'[t] = [call[t] EXCEPT !.rivals = @ \ {v}, !.rival = v, !.stage = next]
    BY <1>0, <1>11 DEF Choose, TypeOK
  <2>2. next \in {"gating", "evicting"}
    OBVIOUS
  <2> HIDE DEF next
  <2>3. /\ call'[t].stage = next /\ call'[t].kind = call[t].kind
        /\ call'[t].on = call[t].on
    BY <1>3, <2>1 DEF Call
  <2> QED BY <1>11, <2>2, <2>3 DEF Choose, redis
<1> QED BY <1>1, <1>4, <1>6, <1>7, <1>8, <1>9, <1>10, <1>11 DEF GetRunning, NoPlace, Raise

\* Elsewhere it takes its gate, the capacity of a user's deletion and the
\* mutation lock, and gives them all back at the end.
LEMMA OwnLocks ==
    ASSUME LInv, NEW t \in Threads, HeldOnly(t), Act(t)
    PROVE  HeldOnly(t)'
<1> USE DEF At, Kind, HeldOnly
<1>0. TypeOK /\ Shape(t)
  BY DEF LInv
<1>1. CASE Leave(t)
  BY <1>0, <1>1, LeaveEffect
<1>2. CASE Entering(t)
  <2>1. CASE Register(t) /\ ~Leave(t)
    BY <1>0, <2>1, GotoEffect, LocksDiffer DEF Register, Raise, Stages
  <2>2. CASE Enter(t)
    <3> DEFINE gate == Gate(call[t].on)
    <3>1. Take(t, gate) /\ Goto(t, "draining") /\ gate \in Locks /\ ~At(t, "idle")
      BY <1>0, <2>2, CallType DEF Enter, Call, Locks
    <3> HIDE DEF gate
    <3>2. held'[t] = held[t] \cup {gate}
      BY <1>0, <3>1, TakeEffect
    <3>3. call'[t].stage = "draining" /\ call'[t].kind = call[t].kind /\ call'[t].on = call[t].on
      BY <1>0, <3>1, GotoEffect DEF Stages
    <3> QED BY <2>2, <3>2, <3>3, LocksDiffer DEF Enter, gate
  <2>3. CASE (Drain(t) \/ DrainThenRun(t)) /\ ~Leave(t)
    <3>1. /\ At(t, "draining") /\ held' = held
          /\ \E stage \in {"locking", "reserving", "seeking"} : Goto(t, stage)
      BY <2>3 DEF Drain, DrainThenRun, Raise, redis
    <3>2. /\ call'[t].stage \in {"locking", "reserving", "seeking"}
          /\ call'[t].kind = call[t].kind /\ call'[t].on = call[t].on
      BY <1>0, <3>1, GotoEffect DEF Stages
    <3> QED BY <3>1, <3>2
  <2> QED BY <1>1, <1>2, <2>1, <2>2, <2>3 DEF Entering
<1>3. CASE GetRunning(t)
  BY <1>3, OwnGetRunning
<1>4. CASE Working(t)
  <2>1. CASE ReserveAll(t)
    <3>1. Take(t, Capacity) /\ Goto(t, "locking") /\ Capacity \in Locks
      BY <2>1 DEF ReserveAll, Locks
    <3>2. held'[t] = held[t] \cup {Capacity}
      BY <1>0, <3>1, TakeEffect
    <3> QED BY <1>0, <2>1, <3>1, <3>2, GotoEffect, LocksDiffer DEF ReserveAll, Stages
  <2>2. CASE (LockWrite(t) \/ LockOther(t)) /\ ~Leave(t)
    <3> DEFINE lock == Mutation(User(t))
    <3>1. Take(t, lock) /\ Goto(t, "working") /\ call[t].stage = "locking"
      BY <2>2 DEF LockWrite, LockOther, Raise
    <3>2. lock \in Locks
      BY <1>0, <3>1, CallType, ConstantAssumption DEF Locks, Call, User, UserOf
    <3> HIDE DEF lock
    <3>3. held'[t] = held[t] \cup {lock}
      BY <1>0, <3>1, <3>2, TakeEffect
    <3>4. call'[t].stage = "working" /\ call'[t].kind = call[t].kind /\ call'[t].on = call[t].on
      BY <1>0, <3>1, GotoEffect DEF Stages
    <3> QED BY <3>1, <3>3, <3>4, LocksDiffer DEF lock
  <2>3. CASE RemoveContainer(t)
    BY <1>0, <2>3, GotoEffect DEF RemoveContainer, redis, Stages
  <2> QED BY <1>1, <1>4, <2>1, <2>2, <2>3
          DEF Working, End, Reclaim, Write, Remove, RemoveVolume, Raise
<1>5. ASSUME NEW kind \in OnConversation \cup OnUser, NEW x \in Users \cup Conversations,
             Begin(t, kind, x)
      PROVE  HeldOnly(t)'
  BY <1>0, <1>5 DEF Begin, redis, TypeOK
<1>6. CASE Fail(t)
  BY <1>1, <1>6 DEF Fail, Raise
<1>7. CASE Lapse(t) \/ Renew(t)
  BY <1>7 DEF Lapse, Renew
<1>8. CASE Die(t)
  BY <1>0, <1>8, GotoEffect DEF Die, Live, redis, Stages
<1>9. CASE Expire(t)
  BY <1>0, <1>9 DEF Expire, TypeOK, Idle
<1> QED BY <1>2, <1>3, <1>4, <1>5, <1>6, <1>7, <1>8, <1>9 DEF Act


\* In get_running a call goes on, or leaves.
LEMMA SeekingGoesOn ==
    ASSUME TypeOK, NEW t \in Threads, GetRunning(t), ~Leave(t)
    PROVE  /\ call[t].stage \in Seeking /\ call'[t].stage \notin {"idle", "entering"}
           /\ lease' = lease /\ flagged' = flagged
<1> USE DEF At
<1>1. ~At(t, "idle") /\ call[t].stage \in Seeking
  BY SeekingOnly
<1>2. call[t] \in Call
  BY <1>1, CallType
<1>3. lease' = lease /\ flagged' = flagged
  BY SeekingLeases
<1> SUFFICES call'[t].stage \notin {"idle", "entering"}
  BY <1>1, <1>3
<1>4. ASSUME NEW stage \in Stages, stage \notin {"idle", "entering"}, Goto(t, stage)
      PROVE  call'[t].stage \notin {"idle", "entering"}
  BY <1>1, <1>4, GotoEffect
<1>5. CASE Look(t)
  <2>1. CASE Obtained(t)
    BY <1>1, <2>1, ObtainedEffect
  <2>2. CASE call' = [call EXCEPT ![t].stage = "evicting", ![t].rivals = Running]
    <3>1. call'[t] = [call[t] EXCEPT !.stage = "evicting", !.rivals = Running]
      BY <2>2 DEF TypeOK
    <3> QED BY <1>2, <3>1 DEF Call
  <2> QED BY <1>4, <1>5, <2>1, <2>2 DEF Look, Stages
<1>6. CASE Displace(t)
  <2>1. CASE call' = [call EXCEPT ![t].stage = "seeking", ![t].second = TRUE]
    <3>1. call'[t] = [call[t] EXCEPT !.stage = "seeking", !.second = TRUE]
      BY <2>1 DEF TypeOK
    <3> QED BY <1>2, <3>1 DEF Call
  <2> QED BY <1>4, <1>6, <2>1 DEF Displace, Stages
<1>7. ASSUME NEW v \in Users, Choose(t, v) PROVE call'[t].stage \notin {"idle", "entering"}
  <2> DEFINE next == IF Idled(v) THEN "gating" ELSE "evicting"
  <2>1. call'[t] = [call[t] EXCEPT !.rivals = @ \ {v}, !.rival = v, !.stage = next]
    BY <1>7 DEF Choose, TypeOK
  <2>2. next \notin {"idle", "entering"}
    OBVIOUS
  <2> HIDE DEF next
  <2> QED BY <1>2, <2>1, <2>2 DEF Call
<1>8. CASE Launch(t)
  BY <1>1, <1>8, ObtainedEffect DEF Launch
<1> QED
  BY <1>1, <1>3, <1>4, <1>5, <1>6, <1>7, <1>8
     DEF GetRunning, Reserve, NoPlace, EnterRival, ClearRival, Raise, Stages

\* A lease ends with its operation.
LEMMA OwnLeaseOnly ==
    ASSUME LInv, NEW t \in Threads, LeaseOnly(t), Act(t)
    PROVE  LeaseOnly(t)'
<1> USE DEF At, Kind
<1>0. TypeOK /\ Shape(t) /\ Shape(t)'
  BY LockAct DEF LInv
<1> SUFFICES ASSUME t \in lease' \cup flagged' PROVE Registered(t)' \/ At(t, "dead")'
  BY DEF LeaseOnly
<1>1. ~Leave(t)
  BY <1>0, LeaveEffect
<1>2. CASE Entering(t)
  <2>1. CASE Register(t)
    BY <1>0, <1>1, <2>1, GotoEffect DEF Register, Raise, Stages, Registered, Seeking
  <2>2. CASE Enter(t) \/ Drain(t) \/ DrainThenRun(t)
    <3>1. /\ lease' = lease /\ flagged' = flagged
          /\ call[t].stage \in {"entering", "draining"}
      BY <1>1, <2>2 DEF Enter, Drain, DrainThenRun, Raise, redis
    <3> QED BY <3>1 DEF LeaseOnly, Registered, Seeking
  <2> QED BY <1>2, <2>1, <2>2 DEF Entering
<1>3. CASE GetRunning(t)
  <2>1. /\ call[t].stage \in Seeking /\ call'[t].stage \notin {"idle", "entering"}
        /\ lease' = lease /\ flagged' = flagged
    BY <1>0, <1>1, <1>3, SeekingGoesOn
  <2>2. call[t].kind = "operation" /\ call'[t].kind = "operation"
    BY <1>0, <2>1, StageAfter DEF LeaseOnly, Registered, Seeking, SameCall
  <2>3. call'[t].stage \in Stages
    BY <1>0, <2>1, TypeStep DEF Next, TypeOK, Call, Idle
  <2> QED BY <1>0, <2>1, <2>2, <2>3 DEF Shape, Registered, Seeking, Stages, OnUser
<1>4. CASE Working(t)
  <2>1. /\ lease' = lease /\ flagged' = flagged
        /\ call[t].stage \in {"reserving", "locking", "working"}
    BY <1>1, <1>4 DEF Working, End, Reclaim, ReserveAll, LockWrite, LockOther, Write, Remove,
                      RemoveContainer, RemoveVolume, Raise, redis
  <2> QED BY <2>1 DEF LeaseOnly, Registered, Seeking
<1>5. ASSUME NEW kind \in OnConversation \cup OnUser, NEW x \in Users \cup Conversations,
             Begin(t, kind, x)
      PROVE  FALSE
  BY <1>5 DEF Begin, redis, LeaseOnly, Registered, Seeking
<1>6. CASE Lapse(t) \/ Renew(t)
  BY <1>6 DEF Lapse, Renew, LeaseOnly, Registered, Live
<1>7. CASE Die(t)
  BY <1>0, <1>7, GotoEffect DEF Die, Live, Stages
<1>8. CASE Expire(t)
  BY <1>0, <1>8 DEF Expire, Idle, TypeOK
<1> QED BY <1>1, <1>2, <1>3, <1>4, <1>5, <1>6, <1>7, <1>8 DEF Act, Fail, Raise

\* A lease that counts has been taken in this step, or was there before.
LEMMA LeasedBy ==
    ASSUME WInv, NEW p \in Threads, Act(p), p \in lease' \ flagged'
    PROVE  \/ p \in lease \ flagged /\ call'[p].on = call[p].on
           \/ call'[p].stage = "seeking"
<1> USE DEF At
<1>1. TypeOK /\ TypeOK' /\ LeaseOnly(p)'
  BY OwnLeaseOnly, TypeStep DEF WInv, LInv, Next
<1>2. call'[p].stage \notin {"idle", "entering"}
  BY <1>1 DEF LeaseOnly, Registered, Seeking
<1>3. call'[p].on = call[p].on
  BY <1>1, <1>2, StageAfter DEF SameCall
<1>4. ~Leave(p)
  BY <1>1, LeaveEffect
<1> SUFFICES ASSUME p \notin lease \/ p \in flagged PROVE call'[p].stage = "seeking"
  BY <1>3
<1>5. CASE Entering(p)
  <2>1. CASE Register(p)
    BY <1>1, <1>4, <2>1, GotoEffect DEF Register, Raise, Stages
  <2> QED BY <1>4, <1>5, <2>1 DEF Entering, Enter, Drain, DrainThenRun, Raise, redis
<1>6. CASE GetRunning(p)
  BY <1>1, <1>4, <1>6, SeekingGoesOn
<1>7. CASE Working(p)
  BY <1>4, <1>7 DEF Working, End, Reclaim, ReserveAll, LockWrite, LockOther, Write, Remove,
                    RemoveContainer, RemoveVolume, Raise, redis
<1> QED
  BY <1>4, <1>5, <1>6, <1>7 DEF Act, Begin, Fail, Lapse, Renew, Die, Expire, Raise, redis

\* A rival is chosen when nobody has a lease on him, and kept until his gate
\* has been taken and his operations have ended.
LEMMA GatingBy ==
    ASSUME LInv, NEW p \in Threads, Act(p), call'[p].stage \in {"gating", "clearing"}
    PROVE  /\ call'[p].on = call[p].on
           /\ \/ LeasesOn(call'[p].rival) = {} /\ UNCHANGED <<lease, flagged>>
              \/ /\ call[p].stage \in {"gating", "clearing"}
                 /\ call'[p].rival = call[p].rival
                 /\ (p \in lease' \ flagged' => p \in lease \ flagged)
<1> USE DEF At
<1> DEFINE Goal ==
        \/ LeasesOn(call'[p].rival) = {} /\ UNCHANGED <<lease, flagged>>
        \/ /\ call[p].stage \in {"gating", "clearing"}
           /\ call'[p].rival = call[p].rival
           /\ (p \in lease' \ flagged' => p \in lease \ flagged)
<1>1. TypeOK /\ ~Leave(p)
  BY LeaveEffect DEF LInv, Idle
<1>2. call'[p].on = call[p].on
  BY <1>1, StageAfter DEF SameCall
<1>3. ASSUME NEW stage \in Stages, stage \notin {"gating", "clearing"}, ~At(p, "idle"),
             Goto(p, stage)
      PROVE  FALSE
  BY <1>1, <1>3, GotoEffect
<1>4. CASE Entering(p)
  BY <1>1, <1>3, <1>4 DEF Entering, Register, Enter, Drain, DrainThenRun, Raise, Stages
<1>5. CASE Working(p)
  BY <1>1, <1>3, <1>5 DEF Working, End, Reclaim, ReserveAll, LockWrite, LockOther, Write, Remove,
                          RemoveContainer, RemoveVolume, Raise, Stages
<1>6. ASSUME GetRunning(p) PROVE Goal
  <2>1. ~At(p, "idle") /\ call[p] \in Call
    BY <1>1, <1>6, CallType, SeekingOnly
  <2>2. ~Obtained(p)
    BY <1>1, <2>1, ObtainedEffect
  <2>3. ASSUME call' = [call EXCEPT ![p].stage = "evicting", ![p].rivals = Running]
        PROVE  FALSE
    <3>1. call'[p] = [call[p] EXCEPT !.stage = "evicting", !.rivals = Running]
      BY <1>1, <2>3 DEF TypeOK
    <3> QED BY <2>1, <3>1 DEF Call
  <2>4. ~Look(p) /\ ~Launch(p) /\ ~Reserve(p) /\ ~NoPlace(p) /\ ~ClearRival(p)
    BY <1>1, <1>3, <2>2, <2>3 DEF Look, Launch, Reserve, NoPlace, ClearRival, Raise, Stages
  <2>5. ~Displace(p)
    <3>1. ASSUME call' = [call EXCEPT ![p].stage = "seeking", ![p].second = TRUE]
          PROVE  FALSE
      <4>1. call'[p] = [call[p] EXCEPT !.stage = "seeking", !.second = TRUE]
        BY <1>1, <3>1 DEF TypeOK
      <4> QED BY <2>1, <4>1 DEF Call
    <3> QED BY <1>3, <3>1 DEF Displace, Stages
  <2>6. ASSUME EnterRival(p) PROVE Goal
    <3>1. call'[p].rival = call[p].rival
      BY <1>1, <2>6, GotoRival DEF EnterRival, Stages
    <3> QED BY <2>6, <3>1 DEF EnterRival
  <2>7. ASSUME NEW v \in Users, Choose(p, v) PROVE Goal
    <3> DEFINE next == IF Idled(v) THEN "gating" ELSE "evicting"
    <3>1. call'[p] = [call[p] EXCEPT !.rivals = @ \ {v}, !.rival = v, !.stage = next]
      BY <1>1, <2>7 DEF Choose, TypeOK
    <3>2. next = "gating" => LeasesOn(v) = {}
      BY DEF Idled
    <3>3. next \in {"gating", "evicting"}
      OBVIOUS
    <3> HIDE DEF next
    <3>4. call'[p].rival = v /\ call'[p].stage = next
      BY <2>1, <3>1 DEF Call
    <3>5. LeasesOn(call'[p].rival) = {}
      BY <3>2, <3>3, <3>4
    <3> QED BY <2>7, <3>5 DEF Choose, redis
  <2> QED BY <1>6, <2>4, <2>5, <2>6, <2>7 DEF GetRunning
<1>7. ASSUME Lapse(p) \/ Renew(p) PROVE Goal
  BY <1>7 DEF Lapse, Renew
<1>8. ASSUME NEW kind \in OnConversation \cup OnUser, NEW x \in Users \cup Conversations,
             Begin(p, kind, x)
      PROVE  FALSE
  BY <1>1, <1>8 DEF Begin, TypeOK
<1>9. ~Die(p)
  BY <1>1, <1>3 DEF Die, Live, Stages
<1>10. ASSUME Expire(p) PROVE FALSE
  BY <1>1, <1>10 DEF Expire, TypeOK, Idle
<1> QED
  BY <1>1, <1>2, <1>4, <1>5, <1>6, <1>7, <1>8, <1>9, <1>10 DEF Act, Fail, Raise

\* What a step makes overtake anyone is the operation that registers, and that
\* has chosen no rival yet.
LEMMA OvertakenBy ==
    ASSUME WInv, NEW p \in Threads, Act(p), NEW t \in Threads, NEW s \in Threads,
           Overtaken(t, s)'
    PROVE  \/ Overtaken(t, s)
           \/ s = p /\ \A q \in Threads : ~Overtaken(p, q)'
<1>1. LInv /\ OthersStay(p)
  BY LockAct DEF WInv
<1>2. /\ call'[t].stage \in {"gating", "clearing"} /\ s \in lease' \ flagged'
      /\ call'[s].on = call'[t].rival \/ User(s)' = call'[t].rival
  BY DEF Overtaken, LeasesOn
<1>3. ASSUME call'[s].on = call[s].on, s \in lease \ flagged, call'[t].rival = call[t].rival,
             call[t].stage \in {"gating", "clearing"}
      PROVE  Overtaken(t, s)
  BY <1>2, <1>3, SameUser DEF Overtaken, LeasesOn
<1>4. CASE t # p /\ s # p
  BY <1>1, <1>2, <1>3, <1>4, OwnLease DEF OthersStay
<1>5. CASE t # p /\ s = p
  <2>1. CASE p \in lease \ flagged /\ call'[p].on = call[p].on
    BY <1>1, <1>2, <1>3, <1>5, <2>1 DEF OthersStay
  <2>2. CASE call'[p].stage = "seeking"
    BY <1>5, <2>2 DEF Overtaken
  <2> QED BY <1>2, <1>5, <2>1, <2>2, LeasedBy
<1>6. CASE t = p
  <2>1. call'[s].on = call[s].on
    BY <1>1, <1>2, <1>6, GatingBy DEF OthersStay
  <2>2. ~(LeasesOn(call'[p].rival) = {} /\ UNCHANGED <<lease, flagged>>)
    BY <1>2, <1>6, <2>1, SameUser DEF LeasesOn
  <2>3. /\ call[p].stage \in {"gating", "clearing"} /\ call'[p].rival = call[p].rival
        /\ (p \in lease' \ flagged' => p \in lease \ flagged)
    BY <1>1, <1>2, <1>6, <2>2, GatingBy
  <2>4. s \in lease \ flagged
    BY <1>2, <2>3, OwnLease
  <2> QED BY <1>3, <1>6, <2>1, <2>3, <2>4
<1> QED BY <1>4, <1>5, <1>6

LEMMA RivalsStep ==
    ASSUME WInv, NEW p \in Threads, Act(p)
    PROVE  RivalsInTurn'
<1> SUFFICES ASSUME NEW waiting \in (SUBSET Threads) \ {{}}
             PROVE  \E t \in waiting : \A s \in waiting : ~Overtaken(t, s)'
  BY DEF RivalsInTurn
<1>1. PICK t \in waiting : \A s \in waiting : ~Overtaken(t, s)
  BY DEF WInv, RivalsInTurn
<1>2. CASE p \in waiting /\ \A q \in Threads : ~Overtaken(p, q)'
  BY <1>2
<1>3. CASE ~(p \in waiting /\ \A q \in Threads : ~Overtaken(p, q)')
  <2>1. ASSUME NEW s \in waiting PROVE ~Overtaken(t, s)'
    BY <1>1, <1>3, OvertakenBy
  <2> QED BY <2>1
<1> QED BY <1>2, <1>3

LEMMA WaitInit == Init => WInv
<1> SUFFICES ASSUME Init PROVE WInv
  OBVIOUS
<1>1. LInv
  BY LockInit
<1>2. \A t \in Threads : HeldOnly(t) /\ LeaseOnly(t)
  BY DEF Init, HeldOnly, LeaseOnly
<1>3. \A t, s \in Threads : ~Overtaken(t, s)
  BY DEF Init, Overtaken, LeasesOn
<1>4. RivalsInTurn
  <2> SUFFICES ASSUME NEW waiting \in (SUBSET Threads) \ {{}}
               PROVE  \E t \in waiting : \A s \in waiting : ~Overtaken(t, s)
    BY DEF RivalsInTurn
  <2>1. PICK t \in waiting : TRUE
    OBVIOUS
  <2>2. \A s \in waiting : ~Overtaken(t, s)
    BY <1>3
  <2> QED BY <2>2
<1> QED BY <1>1, <1>2, <1>4 DEF WInv

LEMMA WaitStep == WInv /\ [Next]_vars => WInv'
<1> SUFFICES ASSUME WInv, [Next]_vars PROVE WInv'
  OBVIOUS
<1>1. LInv /\ LInv'
  BY LockStep DEF WInv
<1>2. ASSUME NEW p \in Threads, Act(p), NEW t \in Threads PROVE HeldOnly(t)' /\ LeaseOnly(t)'
  <2>1. CASE t = p
    BY <1>1, <1>2, <2>1, OwnLocks, OwnLeaseOnly DEF WInv
  <2>2. CASE t # p
    <3>1. call'[t] = call[t] /\ held'[t] = held[t]
      BY <1>1, <1>2, <2>2, LockAct DEF OthersStay
    <3>2. HeldOnly(t)'
      BY <3>1 DEF WInv, HeldOnly, At, Kind
    <3>3. LeaseOnly(t)'
      BY <1>2, <2>2, <3>1, OwnLease DEF WInv, LeaseOnly, Registered, At, Kind
    <3> QED BY <3>2, <3>3
  <2> QED BY <2>1, <2>2
<1>3. CASE UNCHANGED vars
  <2>1. call' = call /\ held' = held /\ lease' = lease /\ flagged' = flagged
    BY <1>3 DEF vars
  <2>2. \A t \in Threads : HeldOnly(t)' /\ LeaseOnly(t)'
    BY <2>1 DEF WInv, HeldOnly, LeaseOnly, Registered, At, Kind
  <2>3. RivalsInTurn'
    BY <2>1 DEF WInv, RivalsInTurn, Overtaken, LeasesOn, User
  <2> QED BY <1>1, <2>2, <2>3 DEF WInv
<1> QED BY <1>1, <1>2, <1>3, RivalsStep DEF Next, WInv

\* What a call waits for, stage by stage.
LEMMA WaitsAt ==
    ASSUME NEW t \in Threads, NEW s \in Threads, WaitsFor(t, s)
    PROVE  \/ At(t, "entering") /\ \E x \in {User(t), call[t].on} : Gate(x) \in held[s]
           \/ At(t, "draining") /\ s \in LeasesOn(call[t].on)
           \/ call[t].stage \in {"seeking", "displacing", "reserving"} /\ Capacity \in held[s]
           \/ call[t].stage \in {"looking", "locking"} /\ Mutation(User(t)) \in held[s]
           \/ At(t, "gating") /\ Gate(call[t].rival) \in held[s]
           \/ At(t, "clearing") /\ s \in LeasesOn(call[t].rival)
BY DEF WaitsFor, Needs, Awaits, At

\* The locks inside are given back without waiting.  Then nobody waits but for
\* gates and leases, and of those that have chosen a rival the first waits for
\* no lease, nor does who has the gate it needs.
LEMMA SomebodyGoesOn ==
    ASSUME WInv, flagged = {}, NEW waiting \in (SUBSET Threads) \ {{}},
           \A t \in waiting : \E s \in waiting : WaitsFor(t, s)
    PROVE  FALSE
<1> USE DEF At, Kind
<1>0. LInv /\ TypeOK /\ \A t \in waiting : t \in Threads /\ HeldOnly(t) /\ LeaseOnly(t) /\ Shape(t)
  BY DEF WInv, LInv
<1>1. \A t \in waiting : call[t].stage \in {"entering", "draining", "reserving", "seeking",
                                           "looking", "gating", "clearing", "displacing", "locking"}
  BY WaitsAt
<1>2. \A t \in waiting : User(t) \in Users
  BY <1>0, <1>1, UserType
<1>3. \A t \in waiting : call[t].stage \notin {"looking", "locking"}
  <2> SUFFICES ASSUME NEW t \in waiting, call[t].stage \in {"looking", "locking"} PROVE FALSE
    OBVIOUS
  <2>1. PICK s \in waiting : Mutation(User(t)) \in held[s]
    BY WaitsAt
  <2>2. call[s].stage \in {"working", "purging", "dead"}
    BY <1>0, <1>2, <2>1 DEF HeldOnly
  <2> QED BY <1>1, <2>2
<1>4. \A t \in waiting : call[t].stage \notin {"seeking", "displacing", "reserving"}
  <2> SUFFICES ASSUME NEW t \in waiting, call[t].stage \in {"seeking", "displacing", "reserving"}
               PROVE  FALSE
    OBVIOUS
  <2>1. PICK s \in waiting : Capacity \in held[s]
    BY WaitsAt
  <2>2. call[s].stage \in {"looking", "starting", "locking", "working", "purging", "dead"}
    BY <1>0, <2>1 DEF HeldOnly
  <2> QED BY <1>1, <1>3, <2>2
<1>5. \A t \in waiting : call[t].stage \in {"entering", "draining", "gating", "clearing"}
  BY <1>1, <1>3, <1>4
<1>6. \A s \in waiting \cap lease : call[s].stage \in {"gating", "clearing"}
  BY <1>0, <1>5 DEF LeaseOnly, Registered, Seeking
<1> DEFINE Choosing == {t \in waiting : call[t].stage \in {"gating", "clearing"}}
<1>7. CASE Choosing # {}
  <2>1. PICK t \in Choosing : \A s \in Choosing : ~Overtaken(t, s)
    BY <1>7 DEF WInv, RivalsInTurn
  <2>2. \A s \in waiting : s \notin LeasesOn(call[t].rival)
    BY <1>6, <2>1 DEF Overtaken, LeasesOn
  <2>3. call[t].rival \in Users
    BY <1>0, <2>1, CallType DEF Call
  <2>4. PICK s \in waiting : At(t, "gating") /\ Gate(call[t].rival) \in held[s]
    BY <2>1, <2>2, WaitsAt
  <2>5. \/ Kind(s) # "operation" /\ call[t].rival = call[s].on /\ ~At(s, "entering")
        \/ call[t].rival = call[s].rival /\ At(s, "clearing")
    BY <1>0, <1>5, <2>3, <2>4 DEF HeldOnly
  <2>6. CASE Kind(s) # "operation" /\ call[t].rival = call[s].on /\ ~At(s, "entering")
    <3>1. Kind(s) \notin OnConversation
      BY <1>0, <2>3, <2>6, CallOn, ConstantAssumption
    <3>2. At(s, "draining")
      BY <1>0, <1>5, <2>6, <3>1 DEF Shape, Seeking, OnConversation
    <3> QED BY <2>2, <2>6, <3>2, WaitsAt
  <2>7. CASE call[t].rival = call[s].rival /\ At(s, "clearing")
    BY <2>2, <2>7, WaitsAt
  <2> QED BY <2>5, <2>6, <2>7
<1>8. CASE Choosing = {}
  <2>1. \A t \in waiting : call[t].stage \in {"entering", "draining"} /\ t \notin lease
    BY <1>5, <1>6, <1>8
  <2>2. \A t \in waiting : At(t, "entering")
    BY <2>1, WaitsAt DEF LeasesOn
  <2>3. PICK t \in waiting : TRUE
    OBVIOUS
  <2>4. PICK s \in waiting, x \in {User(t), call[t].on} : Gate(x) \in held[s]
    BY <2>2, WaitsAt
  <2>5. x \in Users \cup Conversations
    BY <1>0, <1>2, <2>2, <2>4, CallType DEF Call
  <2> QED BY <1>0, <2>2, <2>4, <2>5 DEF HeldOnly
<1> QED BY <1>7, <1>8

(* As long as no lease has lapsed, of any calls that wait one waits for    *)
(* none of the others: the locks, the gates and the operations never make  *)
(* a circle, whatever the calls, their users and their order.              *)
THEOREM NoCircularWaitHolds == Spec => []NoCircularWait
<1>1. WInv => NoCircularWait
  BY SomebodyGoesOn DEF NoCircularWait
<1> QED BY <1>1, WaitInit, WaitStep, PTL DEF Spec
=============================================================================
