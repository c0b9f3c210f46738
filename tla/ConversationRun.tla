--------------------------- MODULE ConversationRun ---------------------------
(***************************************************************************)
(* The background Runs of one Conversation and the SSE subscriptions that  *)
(* follow them: ConversationRunService in                                  *)
(* src/app/assistant/services/conversation_run.py.                         *)
(*                                                                         *)
(* The service lives on one asyncio event loop.  Its lock is only ever     *)
(* held over code that does not suspend, so it is always free when it is   *)
(* asked for and everything between two suspension points is one step; an  *)
(* action below is one such step.  The keys of `_runs' do not interact, so *)
(* one (user, conversation) key is modelled.                               *)
(*                                                                         *)
(* An event is known by its number in the Run: the n-th published event    *)
(* covers n..n, a cached entry that merged the deltas lo..hi covers        *)
(* lo..hi.  The payload is abstracted to what `_merge_delta' compares.     *)
(***************************************************************************)
EXTENDS Integers, Sequences, SequencesExt

CONSTANTS
    Runs,                   \* _ConversationRun objects
    Subs,                   \* subscriptions: one queue and one generator each
    MessageIds,             \* identities of the messages deltas belong to
    NoRun,                  \* `_runs.get(key) is None'
    MaxEvents,              \* bound: events one agent turn produces
    ReplayEventLimit,       \* _REPLAY_EVENT_LIMIT
    ReplayByteLimit,        \* _REPLAY_BYTE_LIMIT, a delta being one byte
    MessageBytes,           \* size of an event that is a whole message
    SubscriberQueueLimit    \* _SUBSCRIBER_QUEUE_LIMIT

ASSUME RunAssumption == NoRun \notin Runs
\* _drop_slow_subscriber puts two items into the queue it has just drained.
ASSUME QueueAssumption == SubscriberQueueLimit \in Nat /\ SubscriberQueueLimit >= 2
ASSUME ReplayAssumption ==
    ReplayEventLimit \in Nat /\ ReplayByteLimit \in Nat /\ MessageBytes \in Nat
ASSUME BoundAssumption == MaxEvents \in Nat

VARIABLES
    accepting,      \* the application still serves requests
    registered,     \* the Run stored in _runs under the key, or NoRun
    task,           \* Run -> what its asyncio task is doing
    published,      \* Run -> number of events published so far
    events,         \* Run -> the replay cache
    subscribers,    \* Run -> the queues it publishes to
    target,         \* Sub -> the Run it follows
    phase,          \* Sub -> state of its _consume generator
    replay,         \* Sub -> snapshot entries not yet yielded
    queue,          \* Sub -> items waiting in its queue
    cursor,         \* Sub -> number of the last event yielded to the client
    told            \* Sub -> the final notice yielded to the client

runVars == <<accepting, registered, task, published, events>>
subVars == <<target, phase, replay, cursor, told>>
vars == <<runVars, subscribers, queue, subVars>>

(* "doomed": task.cancel() was called on a task that has not run yet, so   *)
(* the coroutine body, its finally included, will never be entered.        *)
(* "cancelling": CancelledError is being thrown into the agent generator.  *)
Live == {"created", "doomed", "running", "cancelling"}
TaskStates == Live \cup {"absent", "done"}

DeltaKinds == {"delta", "reset"}            \* event.reset is FALSE, TRUE
EventKinds == DeltaKinds \cup {"message"}

Entry == [kind : EventKinds \cup {"error", "done"}, id : MessageIds,
          lo : Nat \ {0}, hi : Nat \ {0}]
Item == [tag : {"event", "done", "slow", "end"}, lo : Nat, hi : Nat]

EventItem(e) == [tag |-> IF e.kind = "done" THEN "done" ELSE "event",
                 lo |-> e.lo, hi |-> e.hi]
SlowItem == [tag |-> "slow", lo |-> 0, hi |-> 0]
EndItem == [tag |-> "end", lo |-> 0, hi |-> 0]      \* None in the queue
Marks == {"slow", "end"}                            \* tags that carry no event

Connected(s) == phase[s] \in {"fresh", "reading"}

TypeOK ==
    /\ accepting \in BOOLEAN
    /\ registered \in Runs \cup {NoRun}
    /\ task \in [Runs -> TaskStates]
    /\ published \in [Runs -> Nat]
    /\ events \in [Runs -> Seq(Entry)]
    /\ subscribers \in [Runs -> SUBSET Subs]
    /\ target \in [Subs -> Runs \cup {NoRun}]
    /\ phase \in [Subs -> {"absent", "fresh", "reading", "closed", "gone"}]
    /\ replay \in [Subs -> Seq(Item)]
    /\ queue \in [Subs -> Seq(Item)]
    /\ \A s \in Subs : Len(queue[s]) <= SubscriberQueueLimit
    /\ cursor \in [Subs -> Nat]
    /\ told \in [Subs -> {"nothing", "done", "slow"}]

Init ==
    /\ accepting = TRUE
    /\ registered = NoRun
    /\ task = [r \in Runs |-> "absent"]
    /\ published = [r \in Runs |-> 0]
    /\ events = [r \in Runs |-> <<>>]
    /\ subscribers = [r \in Runs |-> {}]
    /\ target = [s \in Subs |-> NoRun]
    /\ phase = [s \in Subs |-> "absent"]
    /\ replay = [s \in Subs |-> <<>>]
    /\ queue = [s \in Subs |-> <<>>]
    /\ cursor = [s \in Subs |-> 0]
    /\ told = [s \in Subs |-> "nothing"]

-----------------------------------------------------------------------------
(* The replay cache: _merge_delta and _cache_event.                        *)

Merges(prev, e) ==
    prev.kind \in DeltaKinds /\ e.kind = "delta" /\ prev.id = e.id

\* fault: a merged delta replaces the one before it
Cached_Replaces(c, e) ==
    IF c # <<>> /\ Merges(c[Len(c)], e)
    THEN [c EXCEPT ![Len(c)] = e] ELSE Append(c, e)

Cached(c, e) ==
    IF c # <<>> /\ Merges(c[Len(c)], e)
    THEN [c EXCEPT ![Len(c)].hi = e.hi]
    ELSE Append(c, e)

Size(e) == IF e.kind = "message" THEN MessageBytes ELSE e.hi - e.lo + 1
Bytes(c) == FoldLeft(LAMBDA n, e : n + Size(e), 0, c)

Fits(c) == Len(c) <= ReplayEventLimit /\ Bytes(c) <= ReplayByteLimit

\* popleft until what is left fits or nothing is left
Kept(c) == {k \in 1..(Len(c) + 1) :
              k = Len(c) + 1 \/ Fits(SubSeq(c, k, Len(c)))}

Evict(c) == SubSeq(c, CHOOSE k \in Kept(c) : \A j \in Kept(c) : k <= j, Len(c))

CacheEvent(c, e) == Evict(Cached(c, e))

-----------------------------------------------------------------------------
(* Broadcasting: _offer_event and _drop_slow_subscriber.                   *)

HasRoom(q, items) == Len(q) + Len(items) <= SubscriberQueueLimit

\* fault: the stream of a slow subscriber is closed without a notice
Offer_NoNotice(q, items) ==
    IF HasRoom(q, items) THEN q \o items ELSE <<EndItem>>

\* fault: a slow subscriber is dropped without a word
Offer_Silent(q, items) == IF HasRoom(q, items) THEN q \o items ELSE q

Offer(q, items) ==
    IF HasRoom(q, items) THEN q \o items ELSE <<SlowItem, EndItem>>

Broadcast(r, items) ==
    /\ queue' = [s \in Subs |-> IF s \in subscribers[r]
                                THEN Offer(queue[s], items) ELSE queue[s]]
    /\ subscribers' = [subscribers EXCEPT ![r] =
                          {s \in @ : HasRoom(queue[s], items)}]

-----------------------------------------------------------------------------
(* Requests: start_turn and resume_turn, subscribe, stop, close.           *)

\* fault: a task that is not yet running, or unwinding, is taken for ended
IsRunning_Only == registered # NoRun /\ task[registered] = "running"

\* is_running, and the test _start, stop and running_conversation_ids share
IsRunning == registered # NoRun /\ task[registered] \in Live

\* a Run that is still live makes _start raise and change nothing
Start(s) ==
    /\ accepting /\ phase[s] = "absent" /\ ~IsRunning
    /\ \E r \in Runs :
        /\ task[r] = "absent"
        /\ registered' = r
        /\ task' = [task EXCEPT ![r] = "created"]
        /\ subscribers' = [subscribers EXCEPT ![r] = {s}]
        /\ target' = [target EXCEPT ![s] = r]
    /\ phase' = [phase EXCEPT ![s] = "fresh"]
    /\ UNCHANGED <<accepting, published, events, replay, queue, cursor, told>>

Snapshot(r) == [i \in 1..Len(events[r]) |-> EventItem(events[r][i])]

SubscribeCompleted(s) ==
    /\ accepting /\ phase[s] = "absent" /\ registered = NoRun
    /\ phase' = [phase EXCEPT ![s] = "closed"]
    /\ told' = [told EXCEPT ![s] = "done"]
    /\ UNCHANGED <<runVars, subscribers, queue, target, replay, cursor>>

\* the cursor starts just before the first event the snapshot still holds
SubscribeLive(s) ==
    /\ accepting /\ phase[s] = "absent" /\ registered # NoRun
    /\ replay' = [replay EXCEPT ![s] = Snapshot(registered)]
    /\ subscribers' = [subscribers EXCEPT ![registered] = @ \cup {s}]
    /\ target' = [target EXCEPT ![s] = registered]
    /\ phase' = [phase EXCEPT ![s] = "fresh"]
    /\ cursor' = [cursor EXCEPT ![s] =
                    IF events[registered] = <<>> THEN published[registered]
                    ELSE events[registered][1].lo - 1]
    /\ UNCHANGED <<runVars, queue, told>>

Cancelled(t) ==
    IF t = "created" THEN "doomed"
    ELSE IF t = "running" THEN "cancelling" ELSE t

\* the caller then waits for the task; a second stop changes nothing more
Stop ==
    /\ accepting /\ registered # NoRun
    /\ task[registered] \in {"created", "running"}
    /\ task' = [task EXCEPT ![registered] = Cancelled(@)]
    /\ UNCHANGED <<accepting, registered, published, events, subscribers,
                   queue, subVars>>

Close ==
    /\ accepting
    /\ accepting' = FALSE
    /\ task' = [r \in Runs |-> IF r = registered THEN Cancelled(task[r])
                               ELSE task[r]]
    /\ UNCHANGED <<registered, published, events, subscribers, queue, subVars>>

-----------------------------------------------------------------------------
(* The task: _execute, _publish, _finish.                                  *)

Enter(r) ==
    /\ task[r] \in {"created", "doomed"}
    /\ task' = [task EXCEPT ![r] = IF @ = "created" THEN "running" ELSE "done"]
    /\ UNCHANGED <<accepting, registered, published, events, subscribers,
                   queue, subVars>>

NewEntry(r, kind, id, n) ==
    [kind |-> kind, id |-> id, lo |-> published[r] + n, hi |-> published[r] + n]

Publish(r) ==
    /\ task[r] = "running" /\ published[r] < MaxEvents
    /\ \E kind \in EventKinds, id \in MessageIds :
        LET e == NewEntry(r, kind, id, 1) IN
        /\ events' = [events EXCEPT ![r] = CacheEvent(@, e)]
        /\ Broadcast(r, <<EventItem(e)>>)
    /\ published' = [published EXCEPT ![r] = @ + 1]
    /\ UNCHANGED <<accepting, registered, task, subVars>>

\* fault: an ended Run stays in the registry
Deregister_Never(r) == registered

Deregister(r) == IF registered = r THEN NoRun ELSE registered

\* the agent generator is exhausted, or CancelledError came out of it
Finish(r) ==
    /\ task[r] \in {"running", "cancelling"}
    /\ \E id \in MessageIds :
        LET done == NewEntry(r, "done", id, 1) IN
        /\ events' = [events EXCEPT ![r] = CacheEvent(@, done)]
        /\ Broadcast(r, <<EventItem(done), EndItem>>)
    /\ published' = [published EXCEPT ![r] = @ + 1]
    /\ registered' = Deregister(r)
    /\ task' = [task EXCEPT ![r] = "done"]
    /\ UNCHANGED <<accepting, subVars>>

\* another exception came out of it: an error event, then as above
Fail(r) ==
    /\ task[r] \in {"running", "cancelling"}
    /\ \E id \in MessageIds :
        LET error == NewEntry(r, "error", id, 1)
            done == NewEntry(r, "done", id, 2)
        IN  /\ events' = [events EXCEPT ![r] =
                            CacheEvent(CacheEvent(@, error), done)]
            /\ Broadcast(r, <<EventItem(error), EventItem(done), EndItem>>)
    /\ published' = [published EXCEPT ![r] = @ + 2]
    /\ registered' = Deregister(r)
    /\ task' = [task EXCEPT ![r] = "done"]
    /\ UNCHANGED <<accepting, subVars>>

-----------------------------------------------------------------------------
(* The subscriber: _consume, pulled by _stream_run_events.                 *)

Discard(s) == [r \in Runs |-> subscribers[r] \ {s}]

Open(s) ==
    /\ phase[s] = "fresh"
    /\ phase' = [phase EXCEPT ![s] = "reading"]
    /\ UNCHANGED <<runVars, subscribers, queue, target, replay, cursor, told>>

ReadReplay(s) ==
    /\ phase[s] = "reading" /\ replay[s] # <<>>
    /\ cursor' = [cursor EXCEPT ![s] = Head(replay[s]).hi]
    /\ replay' = [replay EXCEPT ![s] = Tail(@)]
    /\ UNCHANGED <<runVars, subscribers, queue, target, phase, told>>

ReadQueue(s) ==
    /\ phase[s] = "reading" /\ replay[s] = <<>> /\ queue[s] # <<>>
    /\ LET item == Head(queue[s]) IN
        /\ cursor' = IF item.tag \in Marks THEN cursor
                     ELSE [cursor EXCEPT ![s] = item.hi]
        /\ told' = IF item.tag \in {"done", "slow"}
                   THEN [told EXCEPT ![s] = item.tag] ELSE told
        /\ IF item.tag = "end"
           THEN /\ phase' = [phase EXCEPT ![s] = "closed"]
                /\ subscribers' = Discard(s)
           ELSE UNCHANGED <<phase, subscribers>>
    /\ queue' = [queue EXCEPT ![s] = Tail(@)]
    /\ UNCHANGED <<runVars, target, replay>>

\* A generator that was never pulled has no finally to run: its queue stays.
Leave(s) ==
    /\ Connected(s)
    /\ phase' = [phase EXCEPT ![s] = "gone"]
    /\ subscribers' = IF phase[s] = "fresh" THEN subscribers ELSE Discard(s)
    /\ UNCHANGED <<runVars, queue, target, replay, cursor, told>>

-----------------------------------------------------------------------------
Next ==
    \/ \E s \in Subs : \/ Start(s) \/ SubscribeCompleted(s) \/ SubscribeLive(s)
                       \/ Open(s) \/ ReadReplay(s) \/ ReadQueue(s) \/ Leave(s)
    \/ \E r \in Runs : Enter(r) \/ Publish(r) \/ Finish(r) \/ Fail(r)
    \/ Stop \/ Close

Spec == Init /\ [][Next]_vars

(* The event loop runs every ready callback; a cancelled agent turn        *)
(* unwinds; an SSE response keeps pulling while its client is connected.   *)
(* Nothing obliges an agent turn that is not cancelled to come to an end.  *)
Fairness ==
    /\ \A r \in Runs : /\ WF_vars(Enter(r))
                       /\ WF_vars(task[r] = "cancelling" /\ Finish(r))
    /\ \A s \in Subs : /\ WF_vars(Open(s))
                       /\ WF_vars(ReadReplay(s) \/ ReadQueue(s))

FairSpec == Spec /\ Fairness

-----------------------------------------------------------------------------
(* What the service promises.                                              *)

\* the entries of `items' that carry events continue `from' without a gap
GapFree(items, from) ==
    \A i \in 1..Len(items) : items[i].tag \notin Marks =>
        items[i].lo = (IF i = 1 THEN from ELSE items[i - 1].hi) + 1

\* the number of the last event in `items', the closing None left aside
LastNumber(items, from) ==
    LET n == IF items # <<>> /\ items[Len(items)].tag = "end"
             THEN Len(items) - 1 ELSE Len(items)
    IN  IF n = 0 THEN from ELSE items[n].hi

(* At most one Run of the Conversation is live, and is_running sees it: a  *)
(* live task always belongs to the registered Run (_start, _finish).       *)
OneLiveRun == \A r \in Runs : task[r] \in Live => registered = r

(* What a subscriber has received, then its replay snapshot, then its      *)
(* queue, is one gap-free run of event numbers that ends with the latest   *)
(* published event: no event is missed or repeated between the snapshot    *)
(* and the live queue, however deltas were merged and old entries evicted. *)
NothingMissedOrRepeated ==
    \A r \in Runs : \A s \in subscribers[r] :
        LET mid == LastNumber(replay[s], cursor[s]) IN
        /\ GapFree(replay[s], cursor[s])
        /\ GapFree(queue[s], mid)
        /\ LastNumber(queue[s], mid) = published[r]

(* The replay cache keeps to both of its limits and holds the latest       *)
(* events without a gap, so that a reconnecting client is never handed a   *)
(* window with a hole in it or one that stops short of the present.        *)
ReplayWindow ==
    \A r \in Runs :
        /\ events[r] = <<>> \/ Fits(events[r])
        /\ \A i \in 1..Len(events[r]) :
              /\ events[r][i].lo <= events[r][i].hi
              /\ events[r][i].hi = IF i = Len(events[r]) THEN published[r]
                                   ELSE events[r][i + 1].lo - 1

(* What a client receives is whole: live from the queues, and after a      *)
(* reconnection from the cache.                                            *)
EventsStayWhole == NothingMissedOrRepeated /\ ReplayWindow

(* A stream that came to its end either told the client that it was too    *)
(* slow, or delivered everything up to the `done' of a Run that has ended. *)
ClosedMeansComplete ==
    \A s \in Subs : phase[s] = "closed" /\ target[s] # NoRun =>
        \/ told[s] = "slow"
        \/ /\ told[s] = "done"
           /\ task[target[s]] = "done"
           /\ cursor[s] = published[target[s]]

(* A connected subscriber that was dropped from the broadcast list still   *)
(* has the notice and the closing None ahead of it (_drop_slow_subscriber).*)
CutOffIsAnnounced ==
    \A s \in Subs :
        Connected(s) /\ target[s] # NoRun /\ s \notin subscribers[target[s]] =>
            \/ queue[s] = <<SlowItem, EndItem>>
            \/ queue[s] = <<EndItem>> /\ told[s] = "slow"

\* The task of the Run was entered; one that is cancelled before its first
\* step publishes nothing, not even `done', and stays registered.
Entered(r) == published[r] # 0

\* a connected subscriber of a Run whose task is over
AfterTheEnd(s) ==
    Connected(s) /\ target[s] # NoRun /\ task[target[s]] = "done"

(* A connected subscriber of a Run that was entered and is over has the    *)
(* closing None at the end of what it has still to read, whether it was    *)
(* subscribed when _finish ran, dropped before, or lags behind.            *)
EndIsDelivered ==
    \A s \in Subs : AfterTheEnd(s) /\ Entered(target[s]) =>
        queue[s] # <<>> /\ queue[s][Len(queue[s])].tag = "end"

(* Whatever order publishing, dropping and finishing come in, a subscriber *)
(* of a Run that was entered is told of its end or of its own removal, and *)
(* told only what is true.  A Run that was cancelled before its first step *)
(* is excepted: it stays registered and never answers a subscriber.       *)
StreamsAreAnswered ==
    ClosedMeansComplete /\ CutOffIsAnnounced /\ EndIsDelivered

(* Once its Run has ended, every stream ends or is left by its client.     *)
EveryStreamEnds ==
    \A s \in Subs :
        (phase[s] = "reading" /\ task[target[s]] = "done" /\ Entered(target[s]))
            ~> phase[s] \in {"closed", "gone"}

(* A cancelled Run ends and frees the Conversation for the next turn.      *)
StopEndsTheRun ==
    \A r \in Runs : task[r] = "cancelling" ~> (task[r] = "done" /\ registered # r)
=============================================================================
