------------------------ MODULE ConversationRunProofs ------------------------
(***************************************************************************)
(* Proofs about ConversationRun, for every number of Runs, subscriptions   *)
(* and events and every limit the assumptions allow.                       *)
(***************************************************************************)
EXTENDS ConversationRun, SequenceTheorems, WellFoundedInduction, TLAPS

-----------------------------------------------------------------------------
(* Arithmetic and the replay cache.                                        *)

(* Every non-empty set of naturals has a least element: _cache_event stops *)
(* at the first window that fits.                                          *)
LEMMA LeastNumber ==
  ASSUME NEW T, T \subseteq Nat, T # {}
  PROVE  \E k \in T : \A j \in T : k <= j
<1> DEFINE R == OpToRel(<, Nat)
<1>1. IsWellFoundedOn(R, Nat)
  BY NatLessThanWellFounded
<1>2. \A j, i \in Nat : j < i => <<j, i>> \in R
  BY DEF R, OpToRel
<1> HIDE DEF R
<1>3. PICK k \in T : \A j \in T : ~ (<<j, k>> \in R)
  BY <1>1, WFMin
<1>4. \A j \in T : k <= j
  <2> TAKE j \in T
  <2>1. j \in Nat /\ k \in Nat
    OBVIOUS
  <2>2. ~ (j < k)
    BY <2>1, <1>2, <1>3
  <2>3. QED
    BY <2>1, <2>2
<1>5. QED
  BY <1>4

(* Eviction keeps a suffix of the cache, and the suffix fits unless it is  *)
(* empty (_cache_event).                                                   *)
LEMMA EvictIsSuffix ==
  ASSUME NEW c \in Seq(Entry)
  PROVE  \E k \in 1..(Len(c) + 1) :
            /\ Evict(c) = SubSeq(c, k, Len(c))
            /\ k = Len(c) + 1 \/ Fits(SubSeq(c, k, Len(c)))
<1>1. Len(c) \in Nat
  OBVIOUS
<1>2. Kept(c) \subseteq Nat /\ Kept(c) # {}
  <2>1. Len(c) + 1 \in Kept(c)
    BY <1>1 DEF Kept
  <2>2. \A k \in Kept(c) : k \in Nat
    BY <1>1 DEF Kept
  <2>3. QED
    BY <2>1, <2>2
<1>3. \E k \in Kept(c) : \A j \in Kept(c) : k <= j
  BY <1>2, LeastNumber
<1> DEFINE k == CHOOSE k \in Kept(c) : \A j \in Kept(c) : k <= j
<1>4. k \in Kept(c)
  BY <1>3
<1>5. Evict(c) = SubSeq(c, k, Len(c))
  BY DEF Evict
<1>6. k \in 1..(Len(c) + 1) /\ (k = Len(c) + 1 \/ Fits(SubSeq(c, k, Len(c))))
  BY <1>4 DEF Kept
<1> HIDE DEF k
<1>7. QED
  BY <1>5, <1>6

(* Eviction of a sequence of entries leaves a sequence of entries.         *)
LEMMA EvictType ==
  ASSUME NEW c \in Seq(Entry)
  PROVE  Evict(c) \in Seq(Entry)
<1>1. PICK k \in 1..(Len(c) + 1) : Evict(c) = SubSeq(c, k, Len(c))
  BY EvictIsSuffix
<1>2. \A i \in k..Len(c) : c[i] \in Entry
  OBVIOUS
<1>3. QED
  BY <1>1, <1>2, SubSeqProperties

(* Caching one more event leaves a sequence of entries.                    *)
LEMMA CacheType ==
  ASSUME NEW c \in Seq(Entry), NEW e \in Entry
  PROVE  CacheEvent(c, e) \in Seq(Entry)
<1>1. Cached(c, e) \in Seq(Entry)
  <2>1. CASE c # <<>> /\ Merges(c[Len(c)], e)
    <3>1. Len(c) \in 1..Len(c) /\ c[Len(c)] \in Entry
      BY <2>1
    <3>2. [c[Len(c)] EXCEPT !.hi = e.hi] \in Entry
      BY <3>1 DEF Entry
    <3>3. [c EXCEPT ![Len(c)].hi = e.hi] \in Seq(Entry)
      BY <3>1, <3>2, ExceptSeq
    <3>4. QED
      BY <2>1, <3>3 DEF Cached
  <2>2. CASE ~ (c # <<>> /\ Merges(c[Len(c)], e))
    BY <2>2 DEF Cached
  <2>3. QED
    BY <2>1, <2>2
<1>2. QED
  BY <1>1, EvictType DEF CacheEvent

-----------------------------------------------------------------------------
(* The types of every variable, and the bound of the subscriber queues.    *)

(* Offering items never takes a queue past its bound (_offer_event), and   *)
(* the notice of a dropped subscriber fits (_drop_slow_subscriber).        *)
LEMMA OfferType ==
  ASSUME NEW q \in Seq(Item), Len(q) <= SubscriberQueueLimit,
         NEW items \in Seq(Item)
  PROVE  /\ Offer(q, items) \in Seq(Item)
         /\ Len(Offer(q, items)) <= SubscriberQueueLimit
<1>1. SlowItem \in Item /\ EndItem \in Item
  BY DEF SlowItem, EndItem, Item
<1>2. Len(<<SlowItem, EndItem>>) <= SubscriberQueueLimit
  BY QueueAssumption
<1>3. <<SlowItem, EndItem>> \in Seq(Item)
  BY <1>1
<1>4. CASE HasRoom(q, items)
  <2>1. q \o items \in Seq(Item) /\ Len(q \o items) = Len(q) + Len(items)
    OBVIOUS
  <2>2. QED
    BY <1>4, <2>1 DEF Offer, HasRoom
<1>5. CASE ~ HasRoom(q, items)
  BY <1>2, <1>3, <1>5 DEF Offer
<1>6. QED
  BY <1>4, <1>5

(* Broadcasting keeps the types of queues and subscriber sets, whatever is *)
(* broadcast (_publish, _finish).                                          *)
LEMMA BroadcastType ==
  ASSUME TypeOK, NEW r \in Runs, NEW items \in Seq(Item), Broadcast(r, items)
  PROVE  /\ queue' \in [Subs -> Seq(Item)]
         /\ \A s \in Subs : Len(queue'[s]) <= SubscriberQueueLimit
         /\ subscribers' \in [Runs -> SUBSET Subs]
<1>1. \A s \in Subs : /\ Offer(queue[s], items) \in Seq(Item)
                      /\ Len(Offer(queue[s], items)) <= SubscriberQueueLimit
  BY OfferType DEF TypeOK
<1>2. \A s \in Subs : queue'[s] = IF s \in subscribers[r]
                                  THEN Offer(queue[s], items) ELSE queue[s]
  BY DEF Broadcast
<1>3. queue' \in [Subs -> Seq(Item)]
  BY <1>1 DEF Broadcast, TypeOK
<1>4. \A s \in Subs : Len(queue'[s]) <= SubscriberQueueLimit
  BY <1>1, <1>2 DEF TypeOK
<1>5. subscribers' \in [Runs -> SUBSET Subs]
  BY DEF Broadcast, TypeOK
<1>6. QED
  BY <1>3, <1>4, <1>5

(* A new event is an entry of the cache and an item of a queue.            *)
LEMMA NewEntryType ==
  ASSUME TypeOK, NEW r \in Runs, NEW id \in MessageIds, NEW n \in Nat \ {0},
         NEW kind \in EventKinds \cup {"error", "done"}
  PROVE  /\ NewEntry(r, kind, id, n) \in Entry
         /\ EventItem(NewEntry(r, kind, id, n)) \in Item
<1>1. published[r] + n \in Nat \ {0}
  BY DEF TypeOK
<1>2. QED
  BY <1>1 DEF NewEntry, Entry, EventItem, Item

(* The snapshot of the cache is a sequence of items (subscribe).           *)
LEMMA SnapshotType ==
  ASSUME TypeOK, NEW r \in Runs
  PROVE  Snapshot(r) \in Seq(Item)
<1>1. events[r] \in Seq(Entry)
  BY DEF TypeOK
<1>2. \A e \in Entry : EventItem(e) \in Item
  BY DEF EventItem, Item, Entry
<1>3. \A i \in 1..Len(events[r]) : EventItem(events[r][i]) \in Item
  BY <1>1, <1>2
<1>4. QED
  BY <1>1, <1>3 DEF Snapshot

(* Every variable keeps its type and no queue outgrows its bound, whatever *)
(* step the service takes.                                                 *)
LEMMA TypeStep == TypeOK /\ [Next]_vars => TypeOK'
<1> SUFFICES ASSUME TypeOK, [Next]_vars PROVE TypeOK'
  OBVIOUS
<1> USE DEF TypeOK
<1>1. ASSUME NEW s \in Subs, Start(s) PROVE TypeOK'
  BY <1>1 DEF Start, TaskStates, Live
<1>2. ASSUME NEW s \in Subs, SubscribeCompleted(s) PROVE TypeOK'
  BY <1>2 DEF SubscribeCompleted, runVars
<1>3. ASSUME NEW s \in Subs, SubscribeLive(s) PROVE TypeOK'
  <2>1. registered \in Runs
    BY <1>3 DEF SubscribeLive
  <2>2. Snapshot(registered) \in Seq(Item)
    BY <2>1, SnapshotType
  <2> DEFINE from == IF events[registered] = <<>> THEN published[registered]
                     ELSE events[registered][1].lo - 1
  <2>3. from \in Nat
    <3>1. events[registered] \in Seq(Entry) /\ published[registered] \in Nat
      BY <2>1
    <3>2. CASE events[registered] # <<>>
      <4>1. events[registered][1] \in Entry
        BY <3>1, <3>2
      <4>2. events[registered][1].lo \in Nat \ {0}
        BY <4>1 DEF Entry
      <4>3. QED
        BY <3>2, <4>2
    <3>3. QED
      BY <3>1, <3>2
  <2>4. cursor' = [cursor EXCEPT ![s] = from]
    BY <1>3 DEF SubscribeLive
  <2> HIDE DEF from
  <2>5. cursor' \in [Subs -> Nat]
    BY <2>3, <2>4
  <2>6. QED
    BY <1>3, <2>1, <2>2, <2>5 DEF SubscribeLive, runVars
<1>4. ASSUME NEW s \in Subs, Open(s) PROVE TypeOK'
  BY <1>4 DEF Open, runVars
<1>5. ASSUME NEW s \in Subs, ReadReplay(s) PROVE TypeOK'
  <2>1. Head(replay[s]) \in Item /\ Tail(replay[s]) \in Seq(Item)
    BY <1>5 DEF ReadReplay
  <2>2. Head(replay[s]).hi \in Nat
    BY <2>1 DEF Item
  <2>3. QED
    BY <1>5, <2>1, <2>2 DEF ReadReplay, runVars
<1>6. ASSUME NEW s \in Subs, ReadQueue(s) PROVE TypeOK'
  <2>1. /\ Head(queue[s]) \in Item /\ Tail(queue[s]) \in Seq(Item)
        /\ Len(Tail(queue[s])) <= SubscriberQueueLimit
    <3>1. queue[s] \in Seq(Item) /\ queue[s] # <<>>
      BY <1>6 DEF ReadQueue
    <3>2. /\ Head(queue[s]) \in Item /\ Tail(queue[s]) \in Seq(Item)
          /\ Len(Tail(queue[s])) = Len(queue[s]) - 1
      BY <3>1, HeadTailProperties
    <3>3. Len(queue[s]) <= SubscriberQueueLimit /\ Len(queue[s]) \in Nat
      BY <3>1
    <3>4. QED
      BY <3>2, <3>3, QueueAssumption
  <2>2. Head(queue[s]).hi \in Nat
    BY <2>1 DEF Item
  <2>3. cursor' \in [Subs -> Nat] /\ told' \in [Subs -> {"nothing", "done", "slow"}]
    BY <1>6, <2>2 DEF ReadQueue
  <2>4. /\ phase' \in [Subs -> {"absent", "fresh", "reading", "closed", "gone"}]
        /\ subscribers' \in [Runs -> SUBSET Subs]
    <3>1. Discard(s) \in [Runs -> SUBSET Subs]
      BY DEF Discard
    <3>2. CASE Head(queue[s]).tag = "end"
      BY <1>6, <3>1, <3>2 DEF ReadQueue
    <3>3. CASE Head(queue[s]).tag # "end"
      BY <1>6, <3>3 DEF ReadQueue
    <3>4. QED
      BY <3>2, <3>3
  <2>5. /\ queue' \in [Subs -> Seq(Item)]
        /\ \A u \in Subs : Len(queue'[u]) <= SubscriberQueueLimit
    BY <1>6, <2>1 DEF ReadQueue
  <2>6. QED
    BY <1>6, <2>3, <2>4, <2>5 DEF ReadQueue, runVars
<1>7. ASSUME NEW s \in Subs, Leave(s) PROVE TypeOK'
  BY <1>7 DEF Leave, Discard, runVars
<1>8. ASSUME NEW r \in Runs, Enter(r) PROVE TypeOK'
  BY <1>8 DEF Enter, subVars, TaskStates, Live
<1>9. ASSUME NEW r \in Runs, Publish(r) PROVE TypeOK'
  <2>1. PICK kind \in EventKinds, id \in MessageIds :
          LET e == NewEntry(r, kind, id, 1) IN
          /\ events' = [events EXCEPT ![r] = CacheEvent(@, e)]
          /\ Broadcast(r, <<EventItem(e)>>)
    BY <1>9 DEF Publish
  <2> DEFINE e == NewEntry(r, kind, id, 1)
  <2>2. e \in Entry /\ EventItem(e) \in Item
    BY NewEntryType
  <2> HIDE DEF e
  <2>3. CacheEvent(events[r], e) \in Seq(Entry)
    BY <2>2, CacheType
  <2>4. events' \in [Runs -> Seq(Entry)]
    BY <2>1, <2>3 DEF e
  <2>5. <<EventItem(e)>> \in Seq(Item) /\ Broadcast(r, <<EventItem(e)>>)
    BY <2>1, <2>2 DEF e
  <2>6. /\ queue' \in [Subs -> Seq(Item)]
        /\ \A s \in Subs : Len(queue'[s]) <= SubscriberQueueLimit
        /\ subscribers' \in [Runs -> SUBSET Subs]
    BY <2>5, BroadcastType
  <2>7. QED
    BY <1>9, <2>4, <2>6 DEF Publish, subVars
<1>10. ASSUME NEW r \in Runs, Finish(r) PROVE TypeOK'
  <2>1. PICK id \in MessageIds :
          LET done == NewEntry(r, "done", id, 1) IN
          /\ events' = [events EXCEPT ![r] = CacheEvent(@, done)]
          /\ Broadcast(r, <<EventItem(done), EndItem>>)
    BY <1>10 DEF Finish
  <2> DEFINE done == NewEntry(r, "done", id, 1)
  <2>2. done \in Entry /\ EventItem(done) \in Item /\ EndItem \in Item
    BY NewEntryType DEF EndItem, Item
  <2> HIDE DEF done
  <2>3. CacheEvent(events[r], done) \in Seq(Entry)
    BY <2>2, CacheType
  <2>4. events' \in [Runs -> Seq(Entry)]
    BY <2>1, <2>3 DEF done
  <2>5. /\ <<EventItem(done), EndItem>> \in Seq(Item)
        /\ Broadcast(r, <<EventItem(done), EndItem>>)
    BY <2>1, <2>2 DEF done
  <2>6. /\ queue' \in [Subs -> Seq(Item)]
        /\ \A s \in Subs : Len(queue'[s]) <= SubscriberQueueLimit
        /\ subscribers' \in [Runs -> SUBSET Subs]
    BY <2>5, BroadcastType
  <2>7. QED
    BY <1>10, <2>4, <2>6 DEF Finish, Deregister, subVars, TaskStates
<1>11. ASSUME NEW r \in Runs, Fail(r) PROVE TypeOK'
  <2>1. PICK id \in MessageIds :
          LET error == NewEntry(r, "error", id, 1)
              done == NewEntry(r, "done", id, 2)
          IN  /\ events' = [events EXCEPT ![r] =
                              CacheEvent(CacheEvent(@, error), done)]
              /\ Broadcast(r, <<EventItem(error), EventItem(done), EndItem>>)
    BY <1>11 DEF Fail
  <2> DEFINE error == NewEntry(r, "error", id, 1)
             done == NewEntry(r, "done", id, 2)
  <2>2. /\ error \in Entry /\ EventItem(error) \in Item
        /\ done \in Entry /\ EventItem(done) \in Item /\ EndItem \in Item
    BY NewEntryType DEF EndItem, Item
  <2> HIDE DEF error, done
  <2>3. CacheEvent(CacheEvent(events[r], error), done) \in Seq(Entry)
    BY <2>2, CacheType
  <2>4. events' \in [Runs -> Seq(Entry)]
    BY <2>1, <2>3 DEF error, done
  <2>5. /\ <<EventItem(error), EventItem(done), EndItem>> \in Seq(Item)
        /\ Broadcast(r, <<EventItem(error), EventItem(done), EndItem>>)
    BY <2>1, <2>2 DEF error, done
  <2>6. /\ queue' \in [Subs -> Seq(Item)]
        /\ \A s \in Subs : Len(queue'[s]) <= SubscriberQueueLimit
        /\ subscribers' \in [Runs -> SUBSET Subs]
    BY <2>5, BroadcastType
  <2>7. QED
    BY <1>11, <2>4, <2>6 DEF Fail, Deregister, subVars, TaskStates
<1>12. ASSUME Stop PROVE TypeOK'
  BY <1>12 DEF Stop, Cancelled, subVars, TaskStates, Live
<1>13. ASSUME Close PROVE TypeOK'
  BY <1>13 DEF Close, Cancelled, subVars, TaskStates, Live
<1>14. CASE UNCHANGED vars
  BY <1>14 DEF vars, runVars, subVars
<1>15. QED
  BY <1>1, <1>2, <1>3, <1>4, <1>5, <1>6, <1>7, <1>8, <1>9, <1>10, <1>11,
     <1>12, <1>13, <1>14 DEF Next

(* Every variable has its type in every reachable state; in particular no  *)
(* subscriber queue ever exceeds _SUBSCRIBER_QUEUE_LIMIT, so put_nowait in *)
(* _drop_slow_subscriber cannot raise QueueFull.                           *)
THEOREM TypeCorrect == Spec => []TypeOK
<1>1. Init => TypeOK
  BY QueueAssumption DEF Init, TypeOK, TaskStates
<1>2. QED
  BY <1>1, TypeStep, PTL DEF Spec

-----------------------------------------------------------------------------
(* One live Run per Conversation.                                          *)

(* No step leaves a live task outside the registry or replaces the         *)
(* registered Run while its task is live (_start, _finish).                *)
LEMMA OneLiveRunStep ==
  TypeOK /\ OneLiveRun /\ [Next]_vars => OneLiveRun'
<1> SUFFICES ASSUME TypeOK, OneLiveRun, [Next]_vars PROVE OneLiveRun'
  OBVIOUS
<1> USE DEF TypeOK, OneLiveRun
<1>1. ASSUME NEW s \in Subs, Start(s) PROVE OneLiveRun'
  BY <1>1, RunAssumption DEF Start, IsRunning, Live
<1>2. ASSUME NEW s \in Subs,
             \/ SubscribeCompleted(s) \/ SubscribeLive(s) \/ Open(s)
             \/ ReadReplay(s) \/ ReadQueue(s) \/ Leave(s)
      PROVE  OneLiveRun'
  BY <1>2 DEF SubscribeCompleted, SubscribeLive, Open, ReadReplay, ReadQueue,
              Leave, runVars
<1>3. ASSUME NEW r \in Runs, Enter(r) PROVE OneLiveRun'
  BY <1>3 DEF Enter, Live
<1>4. ASSUME NEW r \in Runs, Publish(r) PROVE OneLiveRun'
  BY <1>4 DEF Publish
<1>5. ASSUME NEW r \in Runs, Finish(r) \/ Fail(r) PROVE OneLiveRun'
  BY <1>5 DEF Finish, Fail, Deregister, Live
<1>6. ASSUME Stop \/ Close PROVE OneLiveRun'
  BY <1>6 DEF Stop, Close, Cancelled, Live
<1>7. CASE UNCHANGED vars
  BY <1>7 DEF vars, runVars
<1>8. QED
  BY <1>1, <1>2, <1>3, <1>4, <1>5, <1>6, <1>7 DEF Next

(* A Conversation never has two live Runs, and the live one is the one     *)
(* that is_running, stop and subscribe find in the registry.               *)
THEOREM OneLiveRunHolds == Spec => []OneLiveRun
<1>1. Init => OneLiveRun
  BY DEF Init, OneLiveRun, Live
<1>2. QED
  BY <1>1, TypeCorrect, OneLiveRunStep, PTL DEF Spec
-----------------------------------------------------------------------------
(* The replay window.                                                      *)

\* consecutive entries of `c' join without a gap, and the last ends at `n'
Window(c, n) ==
    \A i \in 1..Len(c) :
        /\ c[i].lo <= c[i].hi
        /\ c[i].hi = IF i = Len(c) THEN n ELSE c[i + 1].lo - 1

(* Merging the next event into the last entry, or appending it, extends    *)
(* the window by that event (_merge_delta, _cache_event).                  *)
LEMMA CachedWindow ==
  ASSUME NEW c \in Seq(Entry), NEW n \in Nat, NEW e \in Entry,
         Window(c, n), e.lo = n + 1, e.hi = n + 1
  PROVE  /\ Cached(c, e) \in Seq(Entry)
         /\ Window(Cached(c, e), n + 1)
<1>1. CASE c # <<>> /\ Merges(c[Len(c)], e)
  <2> DEFINE l == Len(c)
             f == [c[l] EXCEPT !.hi = e.hi]
  <2>1. l \in 1..l /\ l \in Nat /\ c[l] \in Entry
    BY <1>1
  <2>2. f \in Entry /\ f.hi = n + 1 /\ f.lo = c[l].lo
    BY <2>1 DEF Entry
  <2>3. Cached(c, e) = [c EXCEPT ![l] = f]
    BY <1>1 DEF Cached
  <2>4. /\ Cached(c, e) \in Seq(Entry) /\ Len(Cached(c, e)) = l
        /\ \A j \in 1..l : Cached(c, e)[j] = IF j = l THEN f ELSE c[j]
    BY <2>1, <2>2, <2>3, ExceptSeq
  <2>5. c[l].lo \in Nat /\ c[l].lo <= n
    BY <2>1 DEF Window, Entry
  <2> HIDE DEF f, l
  <2>6. ASSUME NEW i \in 1..l
        PROVE  /\ Cached(c, e)[i].lo <= Cached(c, e)[i].hi
               /\ Cached(c, e)[i].hi = IF i = l THEN n + 1
                                       ELSE Cached(c, e)[i + 1].lo - 1
    <3>1. CASE i = l
      BY <3>1, <2>1, <2>2, <2>4, <2>5
    <3>2. CASE i # l
      <4>1. i + 1 \in 1..l
        BY <3>2, <2>1
      <4>2. c[i].lo <= c[i].hi /\ c[i].hi = c[i + 1].lo - 1
        BY <3>2 DEF Window, l
      <4>3. Cached(c, e)[i + 1].lo = c[i + 1].lo
        BY <4>1, <2>2, <2>4
      <4>4. QED
        BY <3>2, <4>2, <4>3, <2>4
    <3>3. QED
      BY <3>1, <3>2
  <2>7. QED
    BY <2>4, <2>6 DEF Window
<1>2. CASE ~ (c # <<>> /\ Merges(c[Len(c)], e))
  <2> DEFINE l == Len(c)
             a == Append(c, e)
  <2>1. Cached(c, e) = a /\ l \in Nat
    BY <1>2 DEF Cached
  <2>2. /\ a \in Seq(Entry) /\ Len(a) = l + 1 /\ a[l + 1] = e
        /\ \A i \in 1..l : a[i] = c[i]
    BY AppendProperties
  <2> HIDE DEF a, l
  <2>3. ASSUME NEW i \in 1..(l + 1)
        PROVE  /\ a[i].lo <= a[i].hi
               /\ a[i].hi = IF i = l + 1 THEN n + 1 ELSE a[i + 1].lo - 1
    <3>1. CASE i = l + 1
      BY <3>1, <2>2
    <3>2. CASE i = l /\ i # l + 1
      <4>1. c[i].lo <= c[i].hi /\ c[i].hi = n
        BY <3>2, <2>1 DEF Window, l
      <4>2. QED
        BY <3>2, <4>1, <2>1, <2>2
    <3>3. CASE i # l /\ i # l + 1
      <4>1. i \in 1..l /\ i + 1 \in 1..l
        BY <3>3, <2>1
      <4>2. c[i].lo <= c[i].hi /\ c[i].hi = c[i + 1].lo - 1
        BY <3>3, <4>1 DEF Window, l
      <4>3. QED
        BY <3>3, <4>1, <4>2, <2>2
    <3>4. QED
      BY <3>1, <3>2, <3>3
  <2>4. QED
    BY <2>1, <2>2, <2>3 DEF Window
<1>3. QED
  BY <1>1, <1>2

(* Eviction leaves a window that ends where it did and fits, or nothing    *)
(* (_cache_event).                                                         *)
LEMMA EvictWindow ==
  ASSUME NEW c \in Seq(Entry), NEW n \in Nat, Window(c, n)
  PROVE  /\ Window(Evict(c), n)
         /\ Evict(c) = <<>> \/ Fits(Evict(c))
<1>1. PICK k \in 1..(Len(c) + 1) :
            /\ Evict(c) = SubSeq(c, k, Len(c))
            /\ k = Len(c) + 1 \/ Fits(SubSeq(c, k, Len(c)))
  BY EvictIsSuffix
<1> DEFINE l == Len(c)
           d == SubSeq(c, k, l)
<1>2. l \in Nat /\ k \in Int /\ l \in Int /\ \A i \in k..l : c[i] \in Entry
  OBVIOUS
<1>3. /\ Len(d) = IF k <= l THEN l - k + 1 ELSE 0
      /\ \A i \in 1..(l - k + 1) : d[i] = c[k + i - 1]
  BY <1>2, SubSeqProperties
<1>4. k = l + 1 => d = <<>>
  BY <1>2, SubSeqEmpty
<1> HIDE DEF d, l
<1>5. Window(d, n)
  <2> SUFFICES ASSUME NEW i \in 1..Len(d)
               PROVE  /\ d[i].lo <= d[i].hi
                      /\ d[i].hi = IF i = Len(d) THEN n ELSE d[i + 1].lo - 1
    BY DEF Window
  <2>1. Len(d) = l - k + 1 /\ i \in 1..(l - k + 1)
    BY <1>2, <1>3
  <2> DEFINE j == k + i - 1
  <2>2. j \in 1..l /\ d[i] = c[j] /\ (j = l <=> i = Len(d))
    BY <1>1, <1>2, <1>3, <2>1 DEF l
  <2>3. c[j].lo <= c[j].hi /\ c[j].hi = IF j = l THEN n ELSE c[j + 1].lo - 1
    BY <2>2 DEF Window, l
  <2>4. CASE i = Len(d)
    BY <2>2, <2>3, <2>4
  <2>5. CASE i # Len(d)
    <3>1. i + 1 \in 1..(l - k + 1) /\ k + (i + 1) - 1 = j + 1
      BY <2>1, <2>5, <1>2
    <3>2. d[i + 1] = c[k + (i + 1) - 1]
      BY <3>1, <1>3
    <3>3. d[i + 1] = c[j + 1]
      BY <3>1, <3>2
    <3>4. QED
      BY <2>2, <2>3, <2>5, <3>3
  <2>6. QED
    BY <2>4, <2>5
<1>6. QED
  BY <1>1, <1>4, <1>5 DEF d, l

(* Caching the next event keeps the window whole and within its limits     *)
(* (_publish).                                                             *)
LEMMA CacheWindow ==
  ASSUME NEW c \in Seq(Entry), NEW n \in Nat, NEW e \in Entry,
         Window(c, n), e.lo = n + 1, e.hi = n + 1
  PROVE  /\ CacheEvent(c, e) \in Seq(Entry)
         /\ Window(CacheEvent(c, e), n + 1)
         /\ CacheEvent(c, e) = <<>> \/ Fits(CacheEvent(c, e))
BY CachedWindow, EvictWindow, CacheType DEF CacheEvent

-----------------------------------------------------------------------------
(* What waits for a subscriber: its snapshot, then its queue.              *)

\* the first `n' items are events of the Run, none of them its last
OnlyEvents(items, n) == \A i \in 1..n : items[i].tag = "event"

(* The number of the last event, by cases on what closes the items.        *)
LEMMA LastNumberCases ==
  ASSUME NEW q \in Seq(Item), NEW from
  PROVE  /\ q = <<>> => LastNumber(q, from) = from
         /\ q # <<>> /\ q[Len(q)].tag # "end" =>
               LastNumber(q, from) = q[Len(q)].hi
         /\ q # <<>> /\ q[Len(q)].tag = "end" =>
               LastNumber(q, from) = IF Len(q) = 1 THEN from
                                     ELSE q[Len(q) - 1].hi
<1>1. Len(q) \in Nat /\ (Len(q) = 0 <=> q = <<>>)
  BY EmptySeq, LenProperties
<1> DEFINE l == Len(q)
<1>2. LastNumber(q, from) =
        LET n == IF q # <<>> /\ q[l].tag = "end" THEN l - 1 ELSE l
        IN  IF n = 0 THEN from ELSE q[n].hi
  BY DEF LastNumber
<1>3. l \in Nat /\ (l = 0 <=> q = <<>>)
  BY <1>1
<1> HIDE DEF l
<1>4. q # <<>> => (l - 1 = 0 <=> l = 1)
  BY <1>3
<1>5. /\ q = <<>> => LastNumber(q, from) = from
      /\ q # <<>> /\ q[l].tag # "end" => LastNumber(q, from) = q[l].hi
      /\ q # <<>> /\ q[l].tag = "end" =>
            LastNumber(q, from) = IF l = 1 THEN from ELSE q[l - 1].hi
  BY <1>2, <1>3, <1>4
<1>6. QED
  BY <1>5 DEF l

(* Items that continue a queue of events keep it free of gaps, and it then *)
(* ends where they end (_offer_event).                                     *)
LEMMA AppendItems ==
  ASSUME NEW q \in Seq(Item), NEW items \in Seq(Item), items # <<>>,
         NEW from, NEW n, OnlyEvents(q, Len(q)),
         GapFree(q, from), LastNumber(q, from) = n, GapFree(items, n),
         Len(items) = 1 => items[1].tag # "end"
  PROVE  /\ GapFree(q \o items, from)
         /\ LastNumber(q \o items, from) = LastNumber(items, n)
<1> DEFINE l == Len(q)
           m == Len(items)
           a == q \o items
<1>1. l \in Nat /\ m \in Nat \ {0} /\ (l = 0 <=> q = <<>>)
  BY EmptySeq, LenProperties
<1>2. /\ Len(a) = l + m
      /\ \A i \in 1..l : a[i] = q[i]
      /\ \A i \in 1..m : a[l + i] = items[i]
  <2>1. /\ Len(a) = l + m
        /\ \A i \in 1..(l + m) : a[i] = IF i <= l THEN q[i] ELSE items[i - l]
    BY ConcatProperties
  <2> HIDE DEF a, l, m
  <2>2. \A i \in 1..l : i \in 1..(l + m) /\ i <= l
    BY <1>1
  <2>3. \A i \in 1..m : l + i \in 1..(l + m) /\ ~ (l + i <= l) /\ (l + i) - l = i
    BY <1>1
  <2>4. QED
    BY <2>1, <2>2, <2>3
<1>3. n = IF l = 0 THEN from ELSE q[l].hi
  <2>1. l # 0 => q[l].tag # "end"
    BY <1>1 DEF OnlyEvents
  <2>2. QED
    BY <1>1, <2>1 DEF LastNumber
<1>4. GapFree(a, from)
  <2> SUFFICES ASSUME NEW i \in 1..(l + m), a[i].tag \notin Marks
               PROVE  a[i].lo = (IF i = 1 THEN from ELSE a[i - 1].hi) + 1
    BY <1>2 DEF GapFree
  <2> HIDE DEF a, l, m
  <2>1. CASE i \in 1..l
    <3>1. a[i] = q[i] /\ (i # 1 => a[i - 1] = q[i - 1])
      BY <1>1, <1>2, <2>1
    <3>2. q[i].lo = (IF i = 1 THEN from ELSE q[i - 1].hi) + 1
      BY <2>1, <3>1 DEF GapFree, l
    <3>3. QED
      BY <3>1, <3>2
  <2>2. CASE i = l + 1
    <3>1. a[i] = items[1]
      BY <1>1, <1>2, <2>2
    <3>2. items[1].lo = n + 1
      BY <1>1, <3>1 DEF GapFree, m
    <3>3. l # 0 => i # 1 /\ a[i - 1] = q[l]
      BY <1>1, <1>2, <2>2
    <3>4. QED
      BY <1>1, <1>3, <2>2, <3>1, <3>2, <3>3
  <2>3. CASE i \notin 1..l /\ i # l + 1
    <3> DEFINE j == i - l
    <3>1. /\ j \in 1..m /\ j - 1 \in 1..m /\ j # 1 /\ i # 1
          /\ l + j = i /\ l + (j - 1) = i - 1
      BY <1>1, <2>3
    <3>2. a[i] = items[j] /\ a[i - 1] = items[j - 1]
      BY <1>2, <3>1
    <3> HIDE DEF j
    <3>3. items[j].lo = items[j - 1].hi + 1
      BY <3>1, <3>2 DEF GapFree, m
    <3>4. QED
      BY <3>1, <3>2, <3>3
  <2>4. QED
    BY <1>1, <2>1, <2>2, <2>3
<1>5. LastNumber(a, from) = LastNumber(items, n)
  <2>1. a # <<>>
    <3>1. Len(a) # 0
      BY <1>1, <1>2
    <3>2. QED
      BY <3>1
  <2>2. a \in Seq(Item)
    OBVIOUS
  <2> HIDE DEF a, l, m
  <2>3. Len(a) = l + m /\ a[l + m] = items[m]
    BY <1>1, <1>2
  <2>4. CASE items[m].tag = "end"
    <3>1. m # 1
      BY <2>4 DEF m
    <3>2. m - 1 \in 1..m /\ l + (m - 1) = l + m - 1 /\ l + m # 1
      BY <1>1, <3>1
    <3>3. LastNumber(items, n) = items[m - 1].hi
      BY <2>4, <3>1, LastNumberCases DEF m
    <3>4. a[Len(a)].tag = "end"
      BY <2>3, <2>4
    <3>5. LastNumber(a, from) = IF Len(a) = 1 THEN from ELSE a[Len(a) - 1].hi
      BY <2>1, <2>2, <3>4, LastNumberCases
    <3>6. LastNumber(a, from) = a[l + m - 1].hi
      BY <1>1, <2>3, <3>2, <3>5
    <3>7. QED
      BY <1>2, <3>2, <3>3, <3>6
  <2>5. CASE items[m].tag # "end"
    <3>1. LastNumber(items, n) = items[m].hi
      BY <2>5, LastNumberCases DEF m
    <3>2. LastNumber(a, from) = a[l + m].hi
      BY <2>1, <2>2, <2>3, <2>5, LastNumberCases
    <3>3. QED
      BY <2>3, <3>1, <3>2
  <2>6. QED
    BY <2>4, <2>5
<1>6. QED
  BY <1>4, <1>5

(* Taking the first event leaves items that continue it, and end where     *)
(* they did (_consume).                                                    *)
LEMMA TailItems ==
  ASSUME NEW q \in Seq(Item), q # <<>>, NEW from,
         q[1].tag \notin Marks, GapFree(q, from)
  PROVE  /\ GapFree(Tail(q), q[1].hi)
         /\ LastNumber(Tail(q), q[1].hi) = LastNumber(q, from)
<1> DEFINE l == Len(q)
           t == Tail(q)
<1>1. /\ l \in Nat \ {0} /\ t \in Seq(Item) /\ Len(t) = l - 1
      /\ \A i \in 1..(l - 1) : t[i] = q[i + 1]
  BY HeadTailProperties, EmptySeq
<1>2. GapFree(t, q[1].hi)
  <2> SUFFICES ASSUME NEW i \in 1..(l - 1), t[i].tag \notin Marks
               PROVE  t[i].lo = (IF i = 1 THEN q[1].hi ELSE t[i - 1].hi) + 1
    BY <1>1 DEF GapFree
  <2> HIDE DEF t, l
  <2>1. i + 1 \in 1..l /\ i + 1 # 1 /\ (i + 1) - 1 = i /\ t[i] = q[i + 1]
    BY <1>1
  <2>2. q[i + 1].lo = q[i].hi + 1
    BY <2>1 DEF GapFree, l
  <2>3. i # 1 => i - 1 \in 1..(l - 1) /\ (i - 1) + 1 = i
    BY <1>1
  <2>4. i # 1 => t[i - 1] = q[i]
    BY <1>1, <2>3
  <2>5. QED
    BY <2>1, <2>2, <2>4
<1>3. LastNumber(t, q[1].hi) = LastNumber(q, from)
  <2> HIDE DEF t, l
  <2>1. t # <<>> <=> l # 1
    <3>1. t = <<>> <=> Len(t) = 0
      BY <1>1, EmptySeq
    <3>2. QED
      BY <1>1, <3>1
  <2>2. CASE l = 1
    <3>1. q[l].tag # "end" /\ q[l].hi = q[1].hi
      BY <2>2 DEF Marks
    <3>2. LastNumber(q, from) = q[1].hi
      BY <3>1, LastNumberCases DEF l
    <3>3. QED
      BY <1>1, <2>1, <2>2, <3>2, LastNumberCases
  <2>3. CASE l # 1
    <3>1. /\ l - 1 \in 1..(l - 1) /\ (l - 1) + 1 = l
          /\ l # 2 => l - 1 # 1 /\ l - 2 \in 1..(l - 1) /\ (l - 2) + 1 = l - 1
                      /\ (l - 1) - 1 = l - 2
      BY <1>1, <2>3
    <3>2. t[l - 1] = q[l] /\ t # <<>>
      BY <1>1, <2>1, <2>3, <3>1
    <3>3. CASE q[l].tag = "end"
      <4>1. LastNumber(q, from) = q[l - 1].hi
        BY <2>3, <3>3, LastNumberCases DEF l
      <4>2. LastNumber(t, q[1].hi) = IF l - 1 = 1 THEN q[1].hi
                                     ELSE t[(l - 1) - 1].hi
        <5>1. t \in Seq(Item) /\ t[Len(t)].tag = "end" /\ Len(t) = l - 1
          BY <1>1, <3>2, <3>3
        <5>2. LastNumber(t, q[1].hi) = IF Len(t) = 1 THEN q[1].hi
                                       ELSE t[Len(t) - 1].hi
          BY <3>2, <5>1, LastNumberCases
        <5>3. QED
          BY <5>1, <5>2
      <4>3. l # 2 => t[(l - 1) - 1].hi = q[l - 1].hi
        BY <1>1, <3>1
      <4>4. QED
        BY <1>1, <3>1, <4>1, <4>2, <4>3
    <3>4. CASE q[l].tag # "end"
      <4>1. LastNumber(q, from) = q[l].hi
        BY <3>4, LastNumberCases DEF l
      <4>2. LastNumber(t, q[1].hi) = t[l - 1].hi
        BY <1>1, <3>2, <3>4, LastNumberCases
      <4>3. QED
        BY <3>2, <4>1, <4>2
    <3>5. QED
      BY <3>3, <3>4
  <2>4. QED
    BY <2>2, <2>3
<1>4. QED
  BY <1>2, <1>3

(* The snapshot a new subscriber is handed continues its cursor and ends   *)
(* with the last published event (subscribe).                              *)
LEMMA SnapshotWindow ==
  ASSUME TypeOK, NEW r \in Runs, Window(events[r], published[r]),
         NEW from, from = IF events[r] = <<>> THEN published[r]
                          ELSE events[r][1].lo - 1
  PROVE  /\ GapFree(Snapshot(r), from)
         /\ LastNumber(Snapshot(r), from) = published[r]
         /\ \A i \in 1..Len(Snapshot(r)) : Snapshot(r)[i].tag \notin Marks
<1> DEFINE c == events[r]
           l == Len(c)
           q == Snapshot(r)
<1>1. c \in Seq(Entry) /\ l \in Nat /\ (l = 0 <=> c = <<>>)
  BY EmptySeq, LenProperties DEF TypeOK
<1>2. /\ q \in Seq(Item) /\ Len(q) = l
      /\ \A i \in 1..l : q[i] = EventItem(c[i])
  BY <1>1, SnapshotType DEF Snapshot
<1>3. ASSUME NEW i \in 1..l
      PROVE  /\ q[i].tag \notin Marks /\ q[i].lo = c[i].lo /\ q[i].hi = c[i].hi
             /\ c[i].lo \in Nat
  <2>1. q[i] = EventItem(c[i]) /\ c[i] \in Entry
    BY <1>1, <1>2
  <2>2. QED
    BY <2>1 DEF EventItem, Marks, Entry
<1> HIDE DEF q
<1>4. GapFree(q, from)
  <2> SUFFICES ASSUME NEW i \in 1..l
               PROVE  q[i].lo = (IF i = 1 THEN from ELSE q[i - 1].hi) + 1
    BY <1>2 DEF GapFree
  <2> HIDE DEF l
  <2>1. CASE i = 1
    <3>1. c # <<>>
      BY <1>1
    <3>2. QED
      BY <1>3, <2>1, <3>1
  <2>2. CASE i # 1
    <3>1. i - 1 \in 1..l /\ i - 1 # l /\ (i - 1) + 1 = i
      BY <1>1, <2>2
    <3>2. c[i - 1].hi = c[i].lo - 1
      BY <3>1 DEF Window, l
    <3>3. q[i - 1].hi = c[i - 1].hi /\ q[i].lo = c[i].lo /\ c[i].lo \in Nat
      BY <1>3, <3>1
    <3>4. QED
      BY <2>2, <3>2, <3>3
  <2>3. QED
    BY <2>1, <2>2
<1>5. LastNumber(q, from) = published[r]
  <2>1. CASE l = 0
    <3>1. q = <<>>
      BY <1>2, <2>1, EmptySeq
    <3>2. QED
      BY <1>1, <2>1, <3>1, LastNumberCases, <1>2
  <2>2. CASE l # 0
    <3>1. l \in 1..l
      BY <1>1, <2>2
    <3>2. c[l].hi = published[r]
      BY <3>1 DEF Window
    <3>3. q[l].tag # "end" /\ q[l].hi = published[r]
      BY <1>3, <3>1, <3>2 DEF Marks
    <3>4. q # <<>>
      BY <1>2, <2>2
    <3>5. QED
      BY <1>2, <3>3, <3>4, LastNumberCases
  <2>3. QED
    BY <2>1, <2>2
<1>6. QED
  BY <1>2, <1>3, <1>4, <1>5 DEF q

-----------------------------------------------------------------------------
(* The inductive invariant behind the promises to a subscriber.            *)

\* the Run came to its end and published its `done'
Over(r) == task[r] = "done" /\ published[r] # 0

(* A Run publishes nothing before its task was entered, nobody follows one *)
(* that was not started, and the registered one has not come to its end.   *)
RunsInOrder ==
    \A r \in Runs :
        /\ task[r] \in {"absent", "created", "doomed"} => published[r] = 0
        /\ task[r] = "absent" => registered # r /\ \A s \in Subs : target[s] # r
        /\ registered = r => ~ Over(r)

(* A subscription that was not made has nothing, one that is open follows  *)
(* a Run, and a Run publishes only to those that follow it.                *)
SubsInOrder ==
    \A s \in Subs :
        /\ phase[s] = "absent" =>
              /\ target[s] = NoRun /\ cursor[s] = 0 /\ told[s] = "nothing"
              /\ replay[s] = <<>> /\ queue[s] = <<>>
        /\ Connected(s) => target[s] \in Runs
        /\ \A r \in Runs : s \in subscribers[r] => target[s] = r

(* What a subscriber of r still has before it continues what it received   *)
(* up to the present.  Until the Run is over its queue holds events alone; *)
(* then it ends with `done' and None, or with None once `done' was read.   *)
Follower(r, s) ==
    LET n == Len(queue[s])
        mid == LastNumber(replay[s], cursor[s])
    IN  /\ GapFree(replay[s], cursor[s])
        /\ GapFree(queue[s], mid)
        /\ LastNumber(queue[s], mid) = published[r]
        /\ \A i \in 1..Len(replay[s]) : replay[s][i].tag \notin Marks
        /\ ~ Over(r) => OnlyEvents(queue[s], n) /\ told[s] = "nothing"
        /\ Over(r) =>
              /\ n # 0 /\ queue[s][n].tag = "end"
              /\ n = 1 => told[s] = "done" /\ replay[s] = <<>>
              /\ n # 1 => /\ told[s] = "nothing"
                          /\ queue[s][n - 1].tag = "done"
                          /\ OnlyEvents(queue[s], n - 2)

Followers == \A r \in Runs : \A s \in subscribers[r] : Follower(r, s)

StreamInv ==
    /\ RunsInOrder /\ SubsInOrder /\ Followers
    /\ ReplayWindow /\ ClosedMeansComplete /\ CutOffIsAnnounced

(* No event is missed or repeated by a follower.                           *)
LEMMA FollowersMissNothing == Followers => NothingMissedOrRepeated
BY DEF Followers, Follower, NothingMissedOrRepeated

(* A subscriber whose stream, and whose Run, a step leaves alone.          *)
LEMMA FollowerFrame ==
  ASSUME NEW r \in Runs, NEW s \in Subs, Follower(r, s),
         queue'[s] = queue[s], replay'[s] = replay[s],
         cursor'[s] = cursor[s], told'[s] = told[s],
         published'[r] = published[r], Over(r)' <=> Over(r)
  PROVE  Follower(r, s)'
BY DEF Follower

(* An offer that has room continues the queue of every subscriber that is  *)
(* kept; the others are dropped with a notice (_publish, _offer_event).    *)
LEMMA BroadcastFollower ==
  ASSUME TypeOK, Followers, NEW r \in Runs, ~ Over(r),
         NEW items \in Seq(Item), items # <<>>, GapFree(items, published[r]),
         Len(items) = 1 => items[1].tag # "end",
         Broadcast(r, items), NEW s \in subscribers'[r]
  PROVE  LET mid == LastNumber(replay[s], cursor[s]) IN
         /\ s \in subscribers[r] /\ s \in Subs
         /\ queue'[s] = queue[s] \o items
         /\ GapFree(queue'[s], mid)
         /\ LastNumber(queue'[s], mid) = LastNumber(items, published[r])
         /\ GapFree(replay[s], cursor[s])
         /\ \A i \in 1..Len(replay[s]) : replay[s][i].tag \notin Marks
         /\ OnlyEvents(queue[s], Len(queue[s])) /\ told[s] = "nothing"
<1>1. s \in subscribers[r] /\ s \in Subs /\ HasRoom(queue[s], items)
  BY DEF Broadcast, TypeOK
<1>2. queue'[s] = queue[s] \o items
  BY <1>1 DEF Broadcast, Offer
<1>3. Follower(r, s) /\ queue[s] \in Seq(Item)
  BY <1>1 DEF Followers, TypeOK
<1> DEFINE mid == LastNumber(replay[s], cursor[s])
<1>4. /\ GapFree(replay[s], cursor[s]) /\ GapFree(queue[s], mid)
      /\ LastNumber(queue[s], mid) = published[r]
      /\ \A i \in 1..Len(replay[s]) : replay[s][i].tag \notin Marks
      /\ OnlyEvents(queue[s], Len(queue[s])) /\ told[s] = "nothing"
  BY <1>3 DEF Follower
<1> HIDE DEF mid
<1>5. /\ GapFree(queue[s] \o items, mid)
      /\ LastNumber(queue[s] \o items, mid) = LastNumber(items, published[r])
  BY <1>3, <1>4, AppendItems
<1>6. QED
  BY <1>1, <1>2, <1>4, <1>5 DEF mid

(* Publishing to one Run's subscribers leaves those of another alone.      *)
LEMMA BroadcastOthers ==
  ASSUME TypeOK, SubsInOrder, NEW r \in Runs, NEW items, Broadcast(r, items),
         NEW p \in Runs, p # r, NEW s \in subscribers'[p]
  PROVE  s \in Subs /\ s \in subscribers[p] /\ queue'[s] = queue[s]
<1>1. s \in subscribers[p] /\ s \in Subs
  BY DEF Broadcast, TypeOK
<1>2. s \notin subscribers[r]
  BY <1>1 DEF SubsInOrder
<1>3. QED
  BY <1>1, <1>2 DEF Broadcast

(* What a queue of events looks like once items were appended to it.       *)
LEMMA EventsAppended ==
  ASSUME NEW q \in Seq(Item), NEW items \in Seq(Item), NEW k \in Nat,
         k <= Len(items), OnlyEvents(q, Len(q)), OnlyEvents(items, k)
  PROVE  /\ Len(q \o items) = Len(q) + Len(items) /\ Len(q) \in Nat
         /\ OnlyEvents(q \o items, Len(q) + k)
         /\ \A i \in 1..Len(items) : (q \o items)[Len(q) + i] = items[i]
<1> DEFINE l == Len(q)
           m == Len(items)
           a == q \o items
<1>1. l \in Nat /\ m \in Nat
  OBVIOUS
<1>2. /\ Len(a) = l + m
      /\ \A i \in 1..(l + m) : a[i] = IF i <= l THEN q[i] ELSE items[i - l]
  BY ConcatProperties
<1>3. k <= m /\ OnlyEvents(q, l)
  OBVIOUS
<1> HIDE DEF a, l, m
<1>4. ASSUME NEW i \in 1..m PROVE a[l + i] = items[i]
  <2>1. l + i \in 1..(l + m) /\ ~ (l + i <= l) /\ (l + i) - l = i
    BY <1>1
  <2>2. QED
    BY <1>2, <2>1
<1>5. ASSUME NEW i \in 1..(l + k) PROVE a[i].tag = "event"
  <2>1. CASE i <= l
    <3>1. i \in 1..l /\ i \in 1..(l + m)
      BY <1>1, <2>1
    <3>2. QED
      BY <1>2, <1>3, <2>1, <3>1 DEF OnlyEvents
  <2>2. CASE ~ (i <= l)
    <3>1. i - l \in 1..k /\ i \in 1..(l + m)
      BY <1>1, <1>3, <2>2
    <3>2. QED
      BY <1>2, <2>2, <3>1 DEF OnlyEvents
  <2>3. QED
    BY <2>1, <2>2
<1>6. OnlyEvents(a, l + k)
  BY <1>5 DEF OnlyEvents
<1>7. QED
  BY <1>1, <1>2, <1>4, <1>6 DEF a, l, m

(* Whatever step is taken, what a subscriber received, holds and waits for *)
(* stays one gap-free run up to the present.                               *)
LEMMA FollowersStep ==
  TypeOK /\ StreamInv /\ [Next]_vars => Followers'
<1> SUFFICES ASSUME TypeOK, StreamInv, [Next]_vars,
                    NEW r \in Runs, NEW s \in subscribers'[r]
             PROVE  Follower(r, s)'
  BY DEF Followers
<1>0. /\ s \in Subs
      /\ s \in subscribers[r] => Follower(r, s) /\ target[s] = r
      /\ s \in subscribers[r] => phase[s] # "absent"
      /\ replay[s] \in Seq(Item) /\ queue[s] \in Seq(Item)
      /\ published[r] \in Nat /\ cursor[s] \in Nat
  <2>1. s \in Subs
    BY TypeStep DEF TypeOK
  <2>2. QED
    BY <2>1, RunAssumption DEF StreamInv, Followers, SubsInOrder, TypeOK
<1>1. ASSUME NEW u \in Subs, Start(u) PROVE Follower(r, s)'
  <2>1. PICK p \in Runs : /\ task[p] = "absent"
                          /\ task' = [task EXCEPT ![p] = "created"]
                          /\ subscribers' = [subscribers EXCEPT ![p] = {u}]
    BY <1>1 DEF Start
  <2>2. CASE r = p
    <3>1. s = u /\ published[r] = 0
      BY <2>1, <2>2 DEF TypeOK, StreamInv, RunsInOrder
    <3>2. /\ replay'[s] = <<>> /\ queue'[s] = <<>> /\ cursor'[s] = 0
          /\ told'[s] = "nothing" /\ published'[r] = 0
      BY <1>1, <3>1 DEF Start, StreamInv, SubsInOrder
    <3>3. LastNumber(<<>>, 0) = 0 /\ GapFree(<<>>, 0) /\ OnlyEvents(<<>>, 0)
      BY DEF LastNumber, GapFree, OnlyEvents
    <3>4. Len(<<>>) = 0 /\ ~ Over(r)'
      BY <3>2 DEF Over
    <3>5. QED
      BY <3>2, <3>3, <3>4 DEF Follower
  <2>3. CASE r # p
    <3>1. s \in subscribers[r] /\ task'[r] = task[r]
      BY <2>1, <2>3 DEF TypeOK
    <3>2. QED
      BY <1>0, <1>1, <3>1, FollowerFrame DEF Start, Over
  <2>4. QED
    BY <2>2, <2>3
<1>2. ASSUME NEW u \in Subs, SubscribeCompleted(u) PROVE Follower(r, s)'
  <2>1. s \in subscribers[r] /\ s # u
    BY <1>0, <1>2 DEF SubscribeCompleted
  <2>2. told'[s] = told[s]
    BY <1>0, <1>2, <2>1 DEF SubscribeCompleted, TypeOK
  <2>3. QED
    BY <1>0, <1>2, <2>1, <2>2, FollowerFrame
    DEF SubscribeCompleted, runVars, Over
<1>3. ASSUME NEW u \in Subs, SubscribeLive(u) PROVE Follower(r, s)'
  <2>1. CASE s # u
    <3>1. s \in subscribers[r]
      BY <1>3, <2>1 DEF SubscribeLive, TypeOK
    <3>2. replay'[s] = replay[s] /\ cursor'[s] = cursor[s]
      BY <1>0, <1>3, <2>1 DEF SubscribeLive, TypeOK
    <3>3. QED
      BY <1>0, <1>3, <3>1, <3>2, FollowerFrame DEF SubscribeLive, runVars, Over
  <2>2. CASE s = u
    <3>1. r = registered
      BY <1>0, <1>3, <2>2 DEF SubscribeLive, TypeOK
    <3> DEFINE from == IF events[r] = <<>> THEN published[r]
                       ELSE events[r][1].lo - 1
    <3>2. replay'[s] = Snapshot(r) /\ cursor'[s] = from
      BY <1>3, <2>2, <3>1 DEF SubscribeLive, TypeOK
    <3> HIDE DEF from
    <3>3. /\ GapFree(Snapshot(r), from)
          /\ LastNumber(Snapshot(r), from) = published[r]
          /\ \A i \in 1..Len(Snapshot(r)) : Snapshot(r)[i].tag \notin Marks
      <4>1. Window(events[r], published[r])
        BY DEF StreamInv, ReplayWindow, Window
      <4>2. QED
        BY <4>1, SnapshotWindow DEF from
    <3>4. queue'[s] = <<>> /\ told'[s] = "nothing" /\ published'[r] = published[r]
      BY <1>0, <1>3, <2>2 DEF SubscribeLive, runVars, StreamInv, SubsInOrder
    <3>5. ~ Over(r)'
      BY <1>3, <3>1 DEF SubscribeLive, runVars, StreamInv, RunsInOrder, Over
    <3>6. /\ GapFree(<<>>, published[r]) /\ OnlyEvents(<<>>, 0) /\ Len(<<>>) = 0
          /\ LastNumber(<<>>, published[r]) = published[r]
      BY DEF LastNumber, GapFree, OnlyEvents
    <3>7. QED
      BY <3>2, <3>3, <3>4, <3>5, <3>6 DEF Follower
  <2>3. QED
    BY <2>1, <2>2
<1>4. ASSUME NEW u \in Subs, Open(u) \/ Leave(u) PROVE Follower(r, s)'
  <2>1. s \in subscribers[r]
    BY <1>4 DEF Open, Leave, Discard
  <2>2. QED
    BY <1>0, <1>4, <2>1, FollowerFrame DEF Open, Leave, runVars, Over
<1>5. ASSUME NEW u \in Subs, ReadReplay(u) PROVE Follower(r, s)'
  <2>1. s \in subscribers[r] /\ Follower(r, s)
    BY <1>0, <1>5 DEF ReadReplay
  <2>2. CASE s # u
    <3>1. replay'[s] = replay[s] /\ cursor'[s] = cursor[s]
      BY <1>0, <1>5, <2>2 DEF ReadReplay, TypeOK
    <3>2. QED
      BY <1>0, <1>5, <2>1, <3>1, FollowerFrame DEF ReadReplay, runVars, Over
  <2>3. CASE s = u
    <3> DEFINE q == replay[s]
    <3>1. /\ q # <<>> /\ replay'[s] = Tail(q) /\ cursor'[s] = q[1].hi
          /\ queue'[s] = queue[s] /\ told'[s] = told[s]
          /\ published'[r] = published[r] /\ (Over(r)' <=> Over(r))
      BY <1>0, <1>5, <2>3 DEF ReadReplay, runVars, TypeOK, Over
    <3>2. /\ Len(q) \in Nat \ {0} /\ Len(Tail(q)) = Len(q) - 1
          /\ \A i \in 1..Len(Tail(q)) : Tail(q)[i] = q[i + 1]
      BY <1>0, <3>1, HeadTailProperties, EmptySeq
    <3>3. q[1].tag \notin Marks /\ GapFree(q, cursor[s])
      BY <2>1, <3>2 DEF Follower
    <3>4. /\ GapFree(Tail(q), q[1].hi)
          /\ LastNumber(Tail(q), q[1].hi) = LastNumber(q, cursor[s])
      BY <1>0, <3>1, <3>3, TailItems
    <3>5. \A i \in 1..Len(Tail(q)) : Tail(q)[i].tag \notin Marks
      <4>1. \A i \in 1..Len(q) : q[i].tag \notin Marks
        BY <2>1 DEF Follower
      <4>2. \A i \in 1..Len(Tail(q)) : i + 1 \in 1..Len(q)
        BY <3>2
      <4>3. QED
        BY <3>2, <4>1, <4>2
    <3> HIDE DEF q
    <3>6. replay[s] # <<>>
      BY <3>1 DEF q
    <3>7. QED
      BY <2>1, <3>1, <3>4, <3>5, <3>6 DEF Follower, q
  <2>4. QED
    BY <2>2, <2>3
<1>6. ASSUME NEW u \in Subs, ReadQueue(u) PROVE Follower(r, s)'
  <2>1. s \in subscribers[r] /\ Follower(r, s)
    BY <1>0, <1>6 DEF ReadQueue, Discard
  <2>2. CASE s # u
    <3>1. /\ queue'[s] = queue[s] /\ cursor'[s] = cursor[s]
          /\ told'[s] = told[s]
      BY <1>0, <1>6, <2>2 DEF ReadQueue, TypeOK
    <3>2. QED
      BY <1>0, <1>6, <2>1, <3>1, FollowerFrame DEF ReadQueue, runVars, Over
  <2>3. CASE s = u
    <3> DEFINE q == queue[s]
               n == Len(q)
               t == Tail(q)
    <3>1. /\ q # <<>> /\ queue'[s] = t /\ replay[s] = <<>> /\ replay'[s] = <<>>
          /\ published'[r] = published[r] /\ (Over(r)' <=> Over(r))
      BY <1>0, <1>6, <2>3 DEF ReadQueue, runVars, TypeOK, Over
    <3>2. q[1].tag # "end"
      BY <1>6, <2>3 DEF ReadQueue, Discard
    <3>3. /\ n \in Nat \ {0} /\ t \in Seq(Item) /\ Len(t) = n - 1
          /\ \A i \in 1..(n - 1) : t[i] = q[i + 1]
      BY <1>0, <3>1, HeadTailProperties, EmptySeq
    <3>4. LastNumber(replay[s], cursor[s]) = cursor[s]
      BY <3>1 DEF LastNumber
    <3>5. /\ GapFree(q, cursor[s]) /\ LastNumber(q, cursor[s]) = published[r]
          /\ ~ Over(r) => OnlyEvents(q, n) /\ told[s] = "nothing"
          /\ Over(r) =>
              /\ n # 0 /\ q[n].tag = "end"
              /\ n = 1 => told[s] = "done" /\ replay[s] = <<>>
              /\ n # 1 => /\ told[s] = "nothing" /\ q[n - 1].tag = "done"
                          /\ OnlyEvents(q, n - 2)
      BY <2>1, <3>4 DEF Follower
    <3> HIDE DEF q, n, t
    <3>6. q[1].tag = "event" \/ (q[1].tag = "done" /\ Over(r) /\ n = 2)
      <4>1. CASE ~ Over(r)
        BY <3>3, <3>5, <4>1 DEF OnlyEvents
      <4>2. CASE Over(r)
        <5>1. n # 1
          BY <3>2, <3>5, <4>2
        <5>2. n = 2 => n - 1 = 1
          OBVIOUS
        <5>3. n # 2 => 1 \in 1..(n - 2)
          BY <3>3, <5>1
        <5>4. QED
          BY <3>5, <4>2, <5>1, <5>2, <5>3 DEF OnlyEvents
      <4>3. QED
        BY <4>1, <4>2
    <3>7. /\ cursor'[s] = q[1].hi
          /\ told'[s] = IF q[1].tag = "done" THEN "done" ELSE told[s]
      <4>1. q[1].tag \notin Marks /\ q[1].tag # "slow"
        BY <3>6 DEF Marks
      <4>2. Head(queue[s]) = q[1]
        BY <1>0, <3>1 DEF q
      <4>3. QED
        BY <1>0, <1>6, <2>3, <3>6, <4>1, <4>2 DEF ReadQueue, TypeOK
    <3>8. /\ GapFree(t, q[1].hi) /\ LastNumber(t, q[1].hi) = published[r]
      <4>1. q[1].tag \notin Marks
        BY <3>6 DEF Marks
      <4>2. queue[s] \in Seq(Item)
        BY <1>0
      <4>3. QED
        BY <3>1, <3>5, <4>1, <4>2, TailItems DEF q, t
    <3>9. ~ Over(r) => OnlyEvents(t, n - 1) /\ told'[s] = "nothing"
      <4>1. \A i \in 1..(n - 1) : i + 1 \in 1..n
        BY <3>3
      <4>2. QED
        BY <3>3, <3>5, <3>6, <3>7, <4>1 DEF OnlyEvents
    <3>10. ASSUME Over(r)
           PROVE  /\ n - 1 # 0 /\ t[n - 1].tag = "end"
                  /\ n - 1 = 1 => told'[s] = "done"
                  /\ n - 1 # 1 => /\ told'[s] = "nothing"
                                  /\ t[(n - 1) - 1].tag = "done"
                                  /\ OnlyEvents(t, (n - 1) - 2)
      <4>1. n # 1
        BY <3>2, <3>5, <3>10
      <4>2. n - 1 # 0 /\ n - 1 \in 1..(n - 1) /\ (n - 1) + 1 = n
        BY <3>3, <4>1
      <4>3. t[n - 1].tag = "end"
        BY <3>3, <3>5, <3>10, <4>2
      <4>4. CASE n = 2
        <5>1. q[1].tag = "done"
          BY <3>5, <3>10, <4>4
        <5>2. QED
          BY <3>7, <4>2, <4>3, <4>4, <5>1
      <4>5. CASE n # 2
        <5>1. /\ n - 1 # 1 /\ (n - 1) - 1 \in 1..(n - 1)
              /\ ((n - 1) - 1) + 1 = n - 1
              /\ \A i \in 1..((n - 1) - 2) : i \in 1..(n - 1) /\ i + 1 \in 1..(n - 2)
          BY <3>3, <4>1, <4>5
        <5>2. t[(n - 1) - 1].tag = "done"
          BY <3>3, <3>5, <3>10, <4>1, <5>1
        <5>3. told'[s] = "nothing"
          BY <3>5, <3>6, <3>7, <3>10, <4>1, <4>5
        <5>4. OnlyEvents(t, (n - 1) - 2)
          BY <3>3, <3>5, <3>10, <4>1, <5>1 DEF OnlyEvents
        <5>5. QED
          BY <4>2, <4>3, <5>1, <5>2, <5>3, <5>4
      <4>6. QED
        BY <4>4, <4>5
    <3>11. /\ LastNumber(<<>>, q[1].hi) = q[1].hi /\ GapFree(<<>>, q[1].hi)
           /\ Len(<<>>) = 0
      BY DEF LastNumber, GapFree
    <3>12. QED
      BY <3>1, <3>3, <3>7, <3>8, <3>9, <3>10, <3>11 DEF Follower
  <2>4. QED
    BY <2>2, <2>3
<1>7. ASSUME NEW p \in Runs, Enter(p) PROVE Follower(r, s)'
  <2>1. s \in subscribers[r]
    BY <1>7 DEF Enter
  <2>2. Over(r)' <=> Over(r)
    <3>1. task'[r] # task[r] => published[r] = 0
      BY <1>7 DEF Enter, TypeOK, StreamInv, RunsInOrder
    <3>2. QED
      BY <1>7, <3>1 DEF Enter, Over
  <2>3. QED
    BY <1>0, <1>7, <2>1, <2>2, FollowerFrame DEF Enter, subVars
<1>8. ASSUME NEW p \in Runs, NEW items, Broadcast(p, items), p # r,
             UNCHANGED subVars, published'[r] = published[r],
             task'[r] = task[r]
      PROVE  Follower(r, s)'
  <2>1. s \in subscribers[r] /\ queue'[s] = queue[s]
    BY <1>8, BroadcastOthers DEF StreamInv
  <2>2. QED
    BY <1>0, <1>8, <2>1, FollowerFrame DEF subVars, Over
<1>9. ASSUME NEW p \in Runs, Publish(p) PROVE Follower(r, s)'
  <2>1. PICK kind \in EventKinds, id \in MessageIds :
          Broadcast(p, <<EventItem(NewEntry(p, kind, id, 1))>>)
    BY <1>9 DEF Publish
  <2> DEFINE item == EventItem(NewEntry(p, kind, id, 1))
  <2>2. CASE p # r
    <3>1. published'[r] = published[r] /\ task'[r] = task[r] /\ UNCHANGED subVars
      BY <1>9, <2>2 DEF Publish, TypeOK
    <3> HIDE DEF item
    <3>2. QED
      BY <1>8, <2>1, <2>2, <3>1
  <2>3. CASE p = r
    <3>1. /\ item \in Item /\ item.tag = "event"
          /\ item.lo = published[r] + 1 /\ item.hi = published[r] + 1
      <4>1. 1 \in Nat \ {0} /\ kind \in EventKinds \cup {"error", "done"}
        OBVIOUS
      <4>2. item \in Item
        BY <4>1, NewEntryType
      <4>3. kind # "done"
        BY DEF EventKinds, DeltaKinds
      <4>4. QED
        BY <2>3, <4>2, <4>3 DEF NewEntry, EventItem
    <3>2. /\ ~ Over(r) /\ ~ Over(r)' /\ published'[r] = published[r] + 1
      BY <1>9, <2>3 DEF Publish, Over, TypeOK
    <3> HIDE DEF item
    <3> DEFINE items == <<item>>
               mid == LastNumber(replay[s], cursor[s])
    <3>3. /\ items \in Seq(Item) /\ items # <<>> /\ Len(items) = 1
          /\ items[1] = item
      BY <3>1
    <3>4. GapFree(items, published[r]) /\ LastNumber(items, published[r]) = item.hi
      BY <3>1, <3>3 DEF GapFree, LastNumber
    <3>5. Broadcast(r, items)
      BY <2>1, <2>3 DEF item
    <3> HIDE DEF items
    <3>6. /\ s \in subscribers[r] /\ queue'[s] = queue[s] \o items
          /\ GapFree(queue'[s], mid)
          /\ LastNumber(queue'[s], mid) = LastNumber(items, published[r])
          /\ GapFree(replay[s], cursor[s])
          /\ \A i \in 1..Len(replay[s]) : replay[s][i].tag \notin Marks
          /\ OnlyEvents(queue[s], Len(queue[s])) /\ told[s] = "nothing"
      BY <3>1, <3>2, <3>3, <3>4, <3>5, BroadcastFollower DEF StreamInv
    <3>7. /\ Len(queue'[s]) = Len(queue[s]) + 1
          /\ OnlyEvents(queue'[s], Len(queue[s]) + 1)
      <4>1. OnlyEvents(items, 1) /\ 1 \in Nat /\ 1 <= Len(items)
        BY <3>1, <3>3 DEF OnlyEvents
      <4>2. QED
        BY <1>0, <3>3, <3>6, <4>1, EventsAppended, ZenonT(60)
    <3>8. replay'[s] = replay[s] /\ cursor'[s] = cursor[s] /\ told'[s] = told[s]
      BY <1>9 DEF Publish, subVars
    <3>9. LastNumber(queue'[s], mid) = published'[r]
      BY <3>1, <3>2, <3>4, <3>6
    <3>10. QED
      BY <3>2, <3>6, <3>7, <3>8, <3>9 DEF Follower
  <2>4. QED
    BY <2>2, <2>3
<1>10. ASSUME NEW items \in Seq(Item), NEW k \in Nat, Len(items) = k + 2,
              OnlyEvents(items, k), items[k + 1].tag = "done",
              items[k + 2].tag = "end", GapFree(items, published[r]),
              LastNumber(items, published[r]) = published'[r],
              Broadcast(r, items), UNCHANGED subVars, ~ Over(r), Over(r)'
       PROVE  Follower(r, s)'
  <2> DEFINE mid == LastNumber(replay[s], cursor[s])
             l == Len(queue[s])
  <2>1. items # <<>> /\ Len(items) # 1
    <3>1. Len(items) # 0 /\ Len(items) # 1
      BY <1>10
    <3>2. QED
      BY <3>1
  <2>2. /\ queue'[s] = queue[s] \o items
        /\ GapFree(queue'[s], mid)
        /\ LastNumber(queue'[s], mid) = LastNumber(items, published[r])
        /\ GapFree(replay[s], cursor[s])
        /\ \A i \in 1..Len(replay[s]) : replay[s][i].tag \notin Marks
        /\ OnlyEvents(queue[s], l) /\ told[s] = "nothing"
    BY <1>10, <2>1, BroadcastFollower DEF StreamInv
  <2>3. /\ Len(queue'[s]) = l + Len(items) /\ l \in Nat
        /\ OnlyEvents(queue'[s], l + k)
        /\ \A i \in 1..Len(items) : queue'[s][l + i] = items[i]
    <3>1. k <= Len(items)
      BY <1>10
    <3>2. queue[s] \in Seq(Item) /\ OnlyEvents(queue[s], Len(queue[s]))
      BY <1>0, <2>2
    <3>3. /\ Len(queue[s] \o items) = Len(queue[s]) + Len(items)
          /\ Len(queue[s]) \in Nat
          /\ OnlyEvents(queue[s] \o items, Len(queue[s]) + k)
          /\ \A i \in 1..Len(items) :
                (queue[s] \o items)[Len(queue[s]) + i] = items[i]
      BY <1>10, <3>1, <3>2, EventsAppended
    <3>4. QED
      BY <2>2, <3>3
  <2>4. replay'[s] = replay[s] /\ cursor'[s] = cursor[s] /\ told'[s] = told[s]
    BY <1>10 DEF subVars
  <2> HIDE DEF l
  <2> DEFINE n == Len(queue'[s])
  <2>5. /\ n = l + (k + 2) /\ n # 0 /\ n # 1
        /\ n - 1 = l + (k + 1) /\ n - 2 = l + k
        /\ k + 1 \in 1..Len(items) /\ k + 2 \in 1..Len(items)
    <3>1. k \in Nat /\ Len(items) = k + 2
      BY <1>10
    <3>2. n = l + (k + 2) /\ l \in Nat
      BY <2>3, <3>1
    <3> HIDE DEF n
    <3>3. n # 0 /\ n # 1 /\ n - 1 = l + (k + 1) /\ n - 2 = l + k
      BY <3>1, <3>2
    <3>4. k + 1 \in 1..Len(items) /\ k + 2 \in 1..Len(items)
      BY <3>1
    <3>5. QED
      BY <3>2, <3>3, <3>4
  <2> HIDE DEF n
  <2>6. /\ queue'[s][n].tag = "end" /\ queue'[s][n - 1].tag = "done"
        /\ OnlyEvents(queue'[s], n - 2)
    BY <1>10, <2>3, <2>5
  <2>7. LastNumber(queue'[s], mid) = published'[r]
    BY <1>10, <2>2
  <2>8. QED
    BY <1>10, <2>2, <2>4, <2>5, <2>6, <2>7 DEF Follower, n
<1>11. ASSUME NEW p \in Runs, Finish(p) PROVE Follower(r, s)'
  <2>1. PICK id \in MessageIds :
          Broadcast(p, <<EventItem(NewEntry(p, "done", id, 1)), EndItem>>)
    BY <1>11 DEF Finish
  <2> DEFINE done == EventItem(NewEntry(p, "done", id, 1))
             items == <<done, EndItem>>
  <2>2. CASE p # r
    <3>1. published'[r] = published[r] /\ task'[r] = task[r] /\ UNCHANGED subVars
      BY <1>11, <2>2 DEF Finish, TypeOK
    <3>2. Broadcast(p, items)
      BY <2>1
    <3> HIDE DEF items
    <3>3. QED
      BY <1>8, <2>2, <3>1, <3>2
  <2>3. CASE p = r
    <3>1. /\ done \in Item /\ done.tag = "done"
          /\ done.lo = published[r] + 1 /\ done.hi = published[r] + 1
      <4>1. 1 \in Nat \ {0} /\ "done" \in EventKinds \cup {"error", "done"}
        OBVIOUS
      <4>2. done \in Item
        BY <4>1, NewEntryType
      <4>3. QED
        BY <2>3, <4>2 DEF NewEntry, EventItem
    <3>2. /\ ~ Over(r) /\ Over(r)' /\ published'[r] = published[r] + 1
          /\ UNCHANGED subVars
      BY <1>0, <1>11, <2>3 DEF Finish, Over, TypeOK
    <3>3. Broadcast(r, items)
      BY <2>1, <2>3
    <3>4. EndItem \in Item /\ EndItem.tag = "end"
      BY DEF EndItem, Item
    <3> HIDE DEF done
    <3>5. /\ items \in Seq(Item) /\ Len(items) = 0 + 2 /\ 0 \in Nat
          /\ items[0 + 1] = done /\ items[0 + 2] = EndItem
          /\ items[1] = done /\ items[2] = EndItem
      BY <3>1, <3>4
    <3> HIDE DEF items
    <3>6. /\ OnlyEvents(items, 0) /\ GapFree(items, published[r])
          /\ LastNumber(items, published[r]) = published'[r]
      <4>1. LastNumber(items, published[r]) = items[1].hi
        <5>1. Len(items) = 2 /\ Len(items) # 0
          BY <3>5
        <5>2. items # <<>>
          BY <5>1
        <5>3. items \in Seq(Item) /\ items[Len(items)].tag = "end"
          BY <3>4, <3>5
        <5>4. LastNumber(items, published[r]) =
                IF Len(items) = 1 THEN published[r] ELSE items[Len(items) - 1].hi
          BY <5>2, <5>3, LastNumberCases
        <5>5. QED
          BY <5>1, <5>4
      <4>2. GapFree(items, published[r])
        <5>1. \A i \in 1..2 : i = 1 \/ i = 2
          OBVIOUS
        <5>2. items[2].tag \in Marks /\ Len(items) = 2
          BY <3>4, <3>5 DEF Marks
        <5>3. items[1].lo = published[r] + 1
          BY <3>1, <3>5
        <5>4. QED
          BY <5>1, <5>2, <5>3 DEF GapFree
      <4>3. QED
        BY <3>1, <3>2, <3>5, <4>1, <4>2 DEF OnlyEvents
    <3>7. QED
      BY <1>10, <3>1, <3>2, <3>3, <3>4, <3>5, <3>6
  <2>4. QED
    BY <2>2, <2>3
<1>12. ASSUME NEW p \in Runs, Fail(p) PROVE Follower(r, s)'
  <2>1. PICK id \in MessageIds :
          Broadcast(p, <<EventItem(NewEntry(p, "error", id, 1)),
                         EventItem(NewEntry(p, "done", id, 2)), EndItem>>)
    BY <1>12 DEF Fail
  <2> DEFINE error == EventItem(NewEntry(p, "error", id, 1))
             done == EventItem(NewEntry(p, "done", id, 2))
             items == <<error, done, EndItem>>
  <2>2. CASE p # r
    <3>1. published'[r] = published[r] /\ task'[r] = task[r] /\ UNCHANGED subVars
      BY <1>12, <2>2 DEF Fail, TypeOK
    <3>2. Broadcast(p, items)
      BY <2>1
    <3> HIDE DEF items
    <3>3. QED
      BY <1>8, <2>2, <3>1, <3>2
  <2>3. CASE p = r
    <3>1. /\ done \in Item /\ done.tag = "done"
          /\ done.lo = published[r] + 2 /\ done.hi = published[r] + 2
          /\ error \in Item /\ error.tag = "event"
          /\ error.lo = published[r] + 1 /\ error.hi = published[r] + 1
      <4>1. /\ 1 \in Nat \ {0} /\ 2 \in Nat \ {0}
            /\ {"error", "done"} \subseteq EventKinds \cup {"error", "done"}
        OBVIOUS
      <4>2. done \in Item /\ error \in Item
        BY <4>1, NewEntryType
      <4>3. QED
        BY <2>3, <4>2 DEF NewEntry, EventItem
    <3>2. /\ ~ Over(r) /\ Over(r)' /\ published'[r] = published[r] + 2
          /\ UNCHANGED subVars
      BY <1>0, <1>12, <2>3 DEF Fail, Over, TypeOK
    <3>3. Broadcast(r, items)
      BY <2>1, <2>3
    <3>4. EndItem \in Item /\ EndItem.tag = "end"
      BY DEF EndItem, Item
    <3> HIDE DEF done, error
    <3>5. /\ items \in Seq(Item) /\ Len(items) = 1 + 2 /\ 1 \in Nat
          /\ items[1 + 1] = done /\ items[1 + 2] = EndItem
          /\ items[1] = error /\ items[2] = done /\ items[3] = EndItem
      BY <3>1, <3>4
    <3> HIDE DEF items
    <3>6. /\ OnlyEvents(items, 1) /\ GapFree(items, published[r])
          /\ LastNumber(items, published[r]) = published'[r]
      <4>1. LastNumber(items, published[r]) = items[2].hi
        <5>1. Len(items) = 3 /\ Len(items) # 0
          BY <3>5
        <5>2. items # <<>>
          BY <5>1, SMTT(40)
        <5>3. items \in Seq(Item) /\ items[Len(items)].tag = "end"
          BY <3>4, <3>5
        <5>4. LastNumber(items, published[r]) =
                IF Len(items) = 1 THEN published[r] ELSE items[Len(items) - 1].hi
          BY <5>2, <5>3, LastNumberCases
        <5>5. QED
          BY <5>1, <5>4
      <4>2. GapFree(items, published[r])
        <5>1. \A i \in 1..3 : i = 1 \/ i = 2 \/ i = 3
          OBVIOUS
        <5>2. items[3].tag \in Marks /\ Len(items) = 3
          BY <3>4, <3>5 DEF Marks
        <5>3. /\ items[1].lo = published[r] + 1
              /\ items[2].lo = items[2 - 1].hi + 1
          BY <1>0, <3>1, <3>5
        <5>4. QED
          BY <5>1, <5>2, <5>3 DEF GapFree
      <4>3. QED
        BY <3>1, <3>2, <3>5, <4>1, <4>2 DEF OnlyEvents
    <3>7. QED
      BY <1>10, <3>1, <3>2, <3>3, <3>4, <3>5, <3>6
  <2>4. QED
    BY <2>2, <2>3
<1>13. ASSUME Stop \/ Close PROVE Follower(r, s)'
  <2>1. s \in subscribers[r]
    BY <1>13 DEF Stop, Close
  <2>2. task'[r] = "done" <=> task[r] = "done"
    BY <1>13 DEF Stop, Close, Cancelled, TypeOK
  <2>3. QED
    BY <1>0, <1>13, <2>1, <2>2, FollowerFrame DEF Stop, Close, subVars, Over
<1>14. CASE UNCHANGED vars
  <2>1. s \in subscribers[r]
    BY <1>14 DEF vars
  <2>2. QED
    BY <1>0, <1>14, <2>1, FollowerFrame DEF vars, runVars, subVars, Over
<1>15. QED
  BY <1>1, <1>2, <1>3, <1>4, <1>5, <1>6, <1>7, <1>9, <1>11, <1>12, <1>13,
     <1>14 DEF Next

(* Runs publish only while they are entered, and leave the registry when   *)
(* they end (_start, _execute, _finish).                                   *)
LEMMA RunsStep == TypeOK /\ StreamInv /\ [Next]_vars => RunsInOrder'
<1> SUFFICES ASSUME TypeOK, StreamInv, [Next]_vars PROVE RunsInOrder'
  OBVIOUS
<1> USE DEF TypeOK, StreamInv, RunsInOrder, Over
<1>1. ASSUME NEW u \in Subs, Start(u) PROVE RunsInOrder'
  BY <1>1, RunAssumption DEF Start, IsRunning, Live
<1>2. ASSUME NEW u \in Subs, SubscribeLive(u) PROVE RunsInOrder'
  BY <1>2, RunAssumption DEF SubscribeLive, runVars
<1>3. ASSUME NEW u \in Subs, SubscribeCompleted(u) \/ Open(u) \/ ReadReplay(u)
                             \/ ReadQueue(u) \/ Leave(u)
      PROVE  RunsInOrder'
  BY <1>3 DEF SubscribeCompleted, Open, ReadReplay, ReadQueue, Leave, runVars
<1>4. ASSUME NEW p \in Runs, Enter(p) PROVE RunsInOrder'
  BY <1>4 DEF Enter, subVars
<1>5. ASSUME NEW p \in Runs, Publish(p) PROVE RunsInOrder'
  BY <1>5 DEF Publish, subVars
<1>6. ASSUME NEW p \in Runs, Finish(p) PROVE RunsInOrder'
  BY <1>6, RunAssumption DEF Finish, Deregister, subVars
<1>7. ASSUME NEW p \in Runs, Fail(p) PROVE RunsInOrder'
  BY <1>7, RunAssumption DEF Fail, Deregister, subVars
<1>8. ASSUME Stop \/ Close PROVE RunsInOrder'
  BY <1>8 DEF Stop, Close, Cancelled, subVars
<1>9. CASE UNCHANGED vars
  BY <1>9 DEF vars, runVars, subVars
<1>10. QED
  BY <1>1, <1>2, <1>3, <1>4, <1>5, <1>6, <1>7, <1>8, <1>9 DEF Next

(* Nothing reaches a subscription before it is made, and a Run publishes   *)
(* to its own followers alone (_start, subscribe, _consume).               *)
LEMMA SubsStep == TypeOK /\ StreamInv /\ [Next]_vars => SubsInOrder'
<1> SUFFICES ASSUME TypeOK, StreamInv, [Next]_vars PROVE SubsInOrder'
  OBVIOUS
<1> USE DEF TypeOK, StreamInv, SubsInOrder, Connected
<1>1. ASSUME NEW u \in Subs, Start(u) PROVE SubsInOrder'
  <2>1. PICK p \in Runs :
          /\ task[p] = "absent" /\ target' = [target EXCEPT ![u] = p]
          /\ subscribers' = [subscribers EXCEPT ![p] = {u}]
    BY <1>1 DEF Start
  <2>2. \A r \in Runs : u \notin subscribers[r]
    BY <1>1, RunAssumption DEF Start
  <2>3. \A s \in Subs : \A r \in Runs : s \in subscribers'[r] => target'[s] = r
    BY <2>1, <2>2
  <2>4. QED
    BY <1>1, <2>1, <2>3 DEF Start
<1>2. ASSUME NEW u \in Subs, SubscribeLive(u) PROVE SubsInOrder'
  <2>1. registered \in Runs /\ \A r \in Runs : u \notin subscribers[r]
    BY <1>2, RunAssumption DEF SubscribeLive
  <2>2. \A s \in Subs : \A r \in Runs : s \in subscribers'[r] => target'[s] = r
    BY <1>2, <2>1 DEF SubscribeLive
  <2>3. QED
    BY <1>2, <2>1, <2>2 DEF SubscribeLive
<1>3. ASSUME NEW u \in Subs, SubscribeCompleted(u) \/ Open(u) \/ ReadReplay(u)
      PROVE  SubsInOrder'
  BY <1>3 DEF SubscribeCompleted, Open, ReadReplay
<1>4. ASSUME NEW u \in Subs, ReadQueue(u) PROVE SubsInOrder'
  <2>1. \A r \in Runs : subscribers'[r] \subseteq subscribers[r]
    BY <1>4 DEF ReadQueue, Discard
  <2>2. /\ \A s \in Subs : s # u => /\ phase'[s] = phase[s] /\ queue'[s] = queue[s]
                                    /\ cursor'[s] = cursor[s] /\ told'[s] = told[s]
        /\ phase'[u] \in {"reading", "closed"} /\ phase[u] = "reading"
        /\ target' = target /\ replay' = replay
    BY <1>4 DEF ReadQueue
  <2>3. QED
    BY <2>1, <2>2
<1>5. ASSUME NEW u \in Subs, Leave(u) PROVE SubsInOrder'
  BY <1>5 DEF Leave, Discard
<1>6. ASSUME NEW p \in Runs, NEW items, Broadcast(p, items), UNCHANGED subVars
      PROVE  SubsInOrder'
  <2>1. \A r \in Runs : subscribers'[r] \subseteq subscribers[r]
    BY <1>6 DEF Broadcast
  <2>2. \A s \in Subs : phase[s] = "absent" => s \notin subscribers[p]
    BY RunAssumption
  <2>3. \A s \in Subs : phase[s] = "absent" => queue'[s] = queue[s]
    BY <1>6, <2>2 DEF Broadcast
  <2>4. QED
    BY <1>6, <2>1, <2>3 DEF subVars
<1>7. ASSUME NEW p \in Runs, Publish(p) \/ Finish(p) \/ Fail(p)
      PROVE  SubsInOrder'
  BY <1>6, <1>7 DEF Publish, Finish, Fail
<1>8. ASSUME NEW p \in Runs, Enter(p) PROVE SubsInOrder'
  BY <1>8 DEF Enter, subVars
<1>9. ASSUME Stop \/ Close PROVE SubsInOrder'
  BY <1>9 DEF Stop, Close, subVars
<1>10. CASE UNCHANGED vars
  BY <1>10 DEF vars, subVars
<1>11. QED
  BY <1>1, <1>2, <1>3, <1>4, <1>5, <1>7, <1>8, <1>9, <1>10 DEF Next

(* Whatever is published, merged and evicted, the cache is a window onto   *)
(* the latest events (_cache_event).                                       *)
LEMMA WindowStep == TypeOK /\ ReplayWindow /\ [Next]_vars => ReplayWindow'
<1> SUFFICES ASSUME TypeOK, ReplayWindow, [Next]_vars PROVE ReplayWindow'
  OBVIOUS
<1>1. \A r \in Runs : /\ events[r] \in Seq(Entry) /\ published[r] \in Nat
                      /\ events[r] = <<>> \/ Fits(events[r])
                      /\ Window(events[r], published[r])
  BY DEF TypeOK, ReplayWindow, Window
<1>2. ASSUME \A r \in Runs : /\ events'[r] = <<>> \/ Fits(events'[r])
                             /\ Window(events'[r], published'[r])
      PROVE  ReplayWindow'
  BY <1>2 DEF ReplayWindow, Window
<1>3. CASE UNCHANGED <<events, published>>
  BY <1>1, <1>2, <1>3
<1>4. ASSUME NEW p \in Runs, NEW c, NEW n \in Nat,
             events' = [events EXCEPT ![p] = c],
             published' = [published EXCEPT ![p] = n],
             c = <<>> \/ Fits(c), Window(c, n)
      PROVE  ReplayWindow'
  <2>1. ASSUME NEW r \in Runs
        PROVE  /\ events'[r] = <<>> \/ Fits(events'[r])
               /\ Window(events'[r], published'[r])
    <3>1. CASE r = p
      <4>1. events'[r] = c /\ published'[r] = n
        BY <1>4, <3>1 DEF TypeOK
      <4>2. QED
        BY <1>4, <4>1
    <3>2. CASE r # p
      <4>1. events'[r] = events[r] /\ published'[r] = published[r]
        BY <1>4, <3>2 DEF TypeOK
      <4>2. QED
        BY <1>1, <4>1
    <3>3. QED
      BY <3>1, <3>2
  <2>2. QED
    BY <1>2, <2>1
<1>5. ASSUME NEW p \in Runs, NEW kind \in EventKinds \cup {"error", "done"},
             NEW id \in MessageIds
      PROVE  LET e == NewEntry(p, kind, id, 1)
                 f == NewEntry(p, "done", id, 2)
                 c == CacheEvent(events[p], e)
             IN  /\ c \in Seq(Entry)
                 /\ c = <<>> \/ Fits(c)
                 /\ Window(c, published[p] + 1)
                 /\ CacheEvent(c, f) = <<>> \/ Fits(CacheEvent(c, f))
                 /\ Window(CacheEvent(c, f), published[p] + 2)
  <2> DEFINE e == NewEntry(p, kind, id, 1)
             f == NewEntry(p, "done", id, 2)
             c == CacheEvent(events[p], e)
             n == published[p]
  <2>1. 1 \in Nat \ {0} /\ 2 \in Nat \ {0} /\ "done" \in EventKinds \cup {"error", "done"}
    OBVIOUS
  <2>2. e \in Entry /\ f \in Entry
    BY <2>1, NewEntryType
  <2>3. /\ n \in Nat /\ n + 1 \in Nat /\ (n + 1) + 1 = n + 2
        /\ e.lo = n + 1 /\ e.hi = n + 1 /\ f.lo = n + 2 /\ f.hi = n + 2
    BY <1>1 DEF NewEntry
  <2>4. events[p] \in Seq(Entry) /\ Window(events[p], n)
    BY <1>1
  <2> HIDE DEF e, f, n
  <2>5. /\ c \in Seq(Entry) /\ Window(c, n + 1)
        /\ c = <<>> \/ Fits(c)
    BY <2>2, <2>3, <2>4, CacheWindow
  <2> HIDE DEF c
  <2>6. /\ Window(CacheEvent(c, f), (n + 1) + 1)
        /\ CacheEvent(c, f) = <<>> \/ Fits(CacheEvent(c, f))
    BY <2>2, <2>3, <2>5, CacheWindow
  <2>7. QED
    BY <2>3, <2>5, <2>6 DEF e, f, c, n
<1>6. ASSUME NEW p \in Runs, Publish(p) PROVE ReplayWindow'
  <2>1. PICK kind \in EventKinds, id \in MessageIds :
          events' = [events EXCEPT ![p] = CacheEvent(@, NewEntry(p, kind, id, 1))]
    BY <1>6 DEF Publish
  <2> DEFINE c == CacheEvent(events[p], NewEntry(p, kind, id, 1))
  <2>2. /\ events' = [events EXCEPT ![p] = c]
        /\ published' = [published EXCEPT ![p] = published[p] + 1]
    BY <1>6, <2>1 DEF Publish
  <2>3. (c = <<>> \/ Fits(c)) /\ Window(c, published[p] + 1)
    BY <1>5
  <2>4. published[p] + 1 \in Nat
    BY <1>1
  <2> HIDE DEF c
  <2>5. QED
    BY <1>4, <2>2, <2>3, <2>4
<1>7. ASSUME NEW p \in Runs, Finish(p) PROVE ReplayWindow'
  <2>1. PICK id \in MessageIds :
          events' = [events EXCEPT ![p] = CacheEvent(@, NewEntry(p, "done", id, 1))]
    BY <1>7 DEF Finish
  <2> DEFINE c == CacheEvent(events[p], NewEntry(p, "done", id, 1))
  <2>2. /\ events' = [events EXCEPT ![p] = c]
        /\ published' = [published EXCEPT ![p] = published[p] + 1]
    BY <1>7, <2>1 DEF Finish
  <2>3. (c = <<>> \/ Fits(c)) /\ Window(c, published[p] + 1)
    BY <1>5
  <2>4. published[p] + 1 \in Nat
    BY <1>1
  <2> HIDE DEF c
  <2>5. QED
    BY <1>4, <2>2, <2>3, <2>4
<1>8. ASSUME NEW p \in Runs, Fail(p) PROVE ReplayWindow'
  <2>1. PICK id \in MessageIds :
          events' = [events EXCEPT ![p] =
                       CacheEvent(CacheEvent(@, NewEntry(p, "error", id, 1)),
                                  NewEntry(p, "done", id, 2))]
    BY <1>8 DEF Fail
  <2> DEFINE c == CacheEvent(CacheEvent(events[p], NewEntry(p, "error", id, 1)),
                             NewEntry(p, "done", id, 2))
  <2>2. /\ events' = [events EXCEPT ![p] = c]
        /\ published' = [published EXCEPT ![p] = published[p] + 2]
    BY <1>8, <2>1 DEF Fail
  <2>3. (c = <<>> \/ Fits(c)) /\ Window(c, published[p] + 2)
    BY <1>5
  <2>4. published[p] + 2 \in Nat
    BY <1>1
  <2> HIDE DEF c
  <2>5. QED
    BY <1>4, <2>2, <2>3, <2>4
<1>9. ASSUME ~ \E p \in Runs : Publish(p) \/ Finish(p) \/ Fail(p)
      PROVE  UNCHANGED <<events, published>>
  BY <1>9 DEF Next, vars, runVars, Start, SubscribeCompleted, SubscribeLive,
     Open, ReadReplay, ReadQueue, Leave, Enter, Stop, Close
<1>10. QED
  BY <1>3, <1>6, <1>7, <1>8, <1>9

(* A stream is closed only once it was told the truth, and what it was     *)
(* told stays true (_consume, _finish).                                    *)
LEMMA ClosedStep ==
  TypeOK /\ StreamInv /\ [Next]_vars => ClosedMeansComplete'
<1> SUFFICES ASSUME TypeOK, StreamInv, [Next]_vars, NEW s \in Subs,
                    phase'[s] = "closed", target'[s] # NoRun
             PROVE  \/ told'[s] = "slow"
                    \/ /\ told'[s] = "done"
                       /\ task'[target'[s]] = "done"
                       /\ cursor'[s] = published'[target'[s]]
  BY DEF ClosedMeansComplete
<1> DEFINE Complete == \/ told'[s] = "slow"
                       \/ /\ told'[s] = "done"
                          /\ task'[target'[s]] = "done"
                          /\ cursor'[s] = published'[target'[s]]
<1>1. ASSUME phase[s] = "closed", target'[s] = target[s], told'[s] = told[s],
             cursor'[s] = cursor[s],
             \A r \in Runs : task[r] = "done" =>
                task'[r] = "done" /\ published'[r] = published[r]
      PROVE  Complete
  <2>1. target[s] \in Runs /\ target[s] # NoRun
    BY <1>1 DEF TypeOK
  <2>2. QED
    BY <1>1, <2>1 DEF StreamInv, ClosedMeansComplete
<1> HIDE DEF Complete
<1>2. ASSUME NEW u \in Subs, Start(u) PROVE Complete
  <2>1. s # u
    BY <1>2 DEF Start, TypeOK
  <2>2. /\ phase[s] = "closed" /\ target'[s] = target[s]
        /\ told' = told /\ cursor' = cursor
    BY <1>2, <2>1 DEF Start, TypeOK
  <2>3. \A r \in Runs : task[r] = "done" =>
           task'[r] = "done" /\ published'[r] = published[r]
    BY <1>2 DEF Start, TypeOK
  <2>4. QED
    BY <1>1, <2>2, <2>3
<1>3. ASSUME NEW u \in Subs, SubscribeCompleted(u) PROVE Complete
  <2>1. s # u
    BY <1>3 DEF SubscribeCompleted, TypeOK, StreamInv, SubsInOrder
  <2>2. QED
    BY <1>1, <1>3, <2>1 DEF SubscribeCompleted, TypeOK, runVars
<1>4. ASSUME NEW u \in Subs, SubscribeLive(u) PROVE Complete
  <2>1. s # u
    BY <1>4 DEF SubscribeLive, TypeOK
  <2>2. QED
    BY <1>1, <1>4, <2>1 DEF SubscribeLive, TypeOK, runVars
<1>5. ASSUME NEW u \in Subs, Open(u) \/ Leave(u) PROVE Complete
  <2>1. s # u
    BY <1>5 DEF Open, Leave, TypeOK
  <2>2. QED
    BY <1>1, <1>5, <2>1 DEF Open, Leave, TypeOK, runVars
<1>6. ASSUME NEW u \in Subs, ReadReplay(u) PROVE Complete
  <2>1. s # u
    BY <1>6 DEF ReadReplay, TypeOK
  <2>2. QED
    BY <1>1, <1>6, <2>1 DEF ReadReplay, TypeOK, runVars
<1>7. ASSUME NEW u \in Subs, ReadQueue(u) PROVE Complete
  <2>1. CASE s # u
    <3>1. /\ phase'[s] = phase[s] /\ target'[s] = target[s]
          /\ told'[s] = told[s] /\ cursor'[s] = cursor[s]
      BY <1>7, <2>1 DEF ReadQueue, TypeOK
    <3>2. QED
      BY <1>1, <1>7, <3>1 DEF ReadQueue, runVars
  <2>2. CASE s = u
    <3>1. /\ queue[s] # <<>> /\ queue[s] \in Seq(Item) /\ replay[s] = <<>>
          /\ Head(queue[s]) = queue[s][1] /\ Head(queue[s]).tag = "end"
          /\ phase[s] = "reading"
      BY <1>7, <2>2 DEF ReadQueue, TypeOK
    <3>2. /\ told' = told /\ cursor' = cursor /\ target' = target
          /\ task' = task /\ published' = published
      BY <1>7, <2>2, <3>1 DEF ReadQueue, Marks, runVars
    <3> DEFINE r == target[s]
    <3>3. r \in Runs
      BY <3>1 DEF StreamInv, SubsInOrder, Connected
    <3>4. CASE s \notin subscribers[r]
      <4>1. \/ queue[s] = <<SlowItem, EndItem>>
            \/ queue[s] = <<EndItem>> /\ told[s] = "slow"
        BY <3>1, <3>3, <3>4, RunAssumption
        DEF StreamInv, CutOffIsAnnounced, Connected
      <4>2. queue[s] # <<SlowItem, EndItem>>
        BY <3>1 DEF SlowItem
      <4>3. QED
        BY <3>2, <4>1, <4>2 DEF Complete
    <3>5. CASE s \in subscribers[r]
      <4> DEFINE q == queue[s]
                 n == Len(q)
      <4>1. Follower(r, s)
        BY <3>3, <3>5 DEF StreamInv, Followers
      <4>2. n \in Nat \ {0} /\ LastNumber(replay[s], cursor[s]) = cursor[s]
        BY <3>1, EmptySeq DEF LastNumber
      <4>3. /\ LastNumber(q, cursor[s]) = published[r]
            /\ ~ Over(r) => OnlyEvents(q, n)
            /\ Over(r) =>
                  /\ n = 1 => told[s] = "done"
                  /\ n # 1 => /\ q[n - 1].tag = "done"
                              /\ OnlyEvents(q, n - 2)
        BY <4>1, <4>2 DEF Follower
      <4>4. q[1].tag = "end" /\ q \in Seq(Item) /\ q # <<>>
        BY <3>1
      <4> HIDE DEF q, n
      <4>5. Over(r)
        <5>1. 1 \in 1..n
          BY <4>2
        <5>2. QED
          BY <4>3, <4>4, <5>1 DEF OnlyEvents
      <4>6. n = 1
        <5>1. CASE n = 2
          BY <4>3, <4>4, <4>5, <5>1
        <5>2. CASE n # 1 /\ n # 2
          <6>1. 1 \in 1..(n - 2)
            BY <4>2, <5>2
          <6>2. QED
            BY <4>3, <4>4, <4>5, <5>2, <6>1 DEF OnlyEvents
        <5>3. QED
          BY <5>1, <5>2
      <4>7. LastNumber(q, cursor[s]) = cursor[s]
        <5>1. Len(q) = 1
          BY <4>6 DEF n
        <5>2. q[Len(q)].tag = "end"
          BY <4>4, <5>1
        <5>3. LastNumber(q, cursor[s]) =
                IF Len(q) = 1 THEN cursor[s] ELSE q[Len(q) - 1].hi
          BY <4>4, <5>2, LastNumberCases
        <5>4. QED
          BY <5>1, <5>3
      <4>8. QED
        BY <3>2, <4>3, <4>5, <4>6, <4>7 DEF Complete, Over
    <3>6. QED
      BY <3>4, <3>5
  <2>3. QED
    BY <2>1, <2>2
<1>8. ASSUME NEW p \in Runs, Enter(p) \/ Publish(p) \/ Finish(p) \/ Fail(p)
      PROVE  Complete
  <2>1. \A r \in Runs : task[r] = "done" =>
           task'[r] = "done" /\ published'[r] = published[r]
    BY <1>8 DEF Enter, Publish, Finish, Fail, TypeOK
  <2>2. UNCHANGED subVars
    BY <1>8 DEF Enter, Publish, Finish, Fail
  <2>3. QED
    BY <1>1, <2>1, <2>2 DEF subVars
<1>9. ASSUME Stop \/ Close PROVE Complete
  BY <1>1, <1>9 DEF Stop, Close, Cancelled, subVars, TypeOK
<1>10. ASSUME UNCHANGED vars PROVE Complete
  BY <1>1, <1>10 DEF vars, runVars, subVars
<1>11. QED
  BY <1>2, <1>3, <1>4, <1>5, <1>6, <1>7, <1>8, <1>9, <1>10 DEF Next, Complete

(* Whoever is dropped from the broadcast list has the notice ahead of it   *)
(* until it was read (_drop_slow_subscriber, _consume).                    *)
LEMMA CutOffStep ==
  TypeOK /\ StreamInv /\ [Next]_vars => CutOffIsAnnounced'
<1> SUFFICES ASSUME TypeOK, StreamInv, [Next]_vars, NEW s \in Subs,
                    Connected(s)', target'[s] # NoRun,
                    s \notin subscribers'[target'[s]]
             PROVE  \/ queue'[s] = <<SlowItem, EndItem>>
                    \/ queue'[s] = <<EndItem>> /\ told'[s] = "slow"
  BY DEF CutOffIsAnnounced
<1> DEFINE Announced == \/ queue'[s] = <<SlowItem, EndItem>>
                        \/ queue'[s] = <<EndItem>> /\ told'[s] = "slow"
<1>1. ASSUME Connected(s), target'[s] = target[s], queue'[s] = queue[s],
             told'[s] = told[s], s \notin subscribers[target[s]]
      PROVE  Announced
  BY <1>1 DEF StreamInv, CutOffIsAnnounced
<1> HIDE DEF Announced
<1>2. ASSUME NEW u \in Subs, Start(u) PROVE Announced
  <2>1. PICK p \in Runs : /\ task[p] = "absent"
                          /\ target' = [target EXCEPT ![u] = p]
                          /\ subscribers' = [subscribers EXCEPT ![p] = {u}]
    BY <1>2 DEF Start
  <2>2. s # u
    BY <2>1 DEF TypeOK
  <2>3. target'[s] = target[s] /\ target[s] # p
    BY <2>1, <2>2 DEF TypeOK, StreamInv, RunsInOrder
  <2>4. s \notin subscribers[target[s]]
    BY <2>1, <2>3 DEF TypeOK
  <2>5. phase'[s] = phase[s] /\ queue' = queue /\ told' = told
    BY <1>2, <2>2 DEF Start, TypeOK
  <2>6. QED
    BY <1>1, <2>3, <2>4, <2>5 DEF Connected
<1>3. ASSUME NEW u \in Subs, SubscribeCompleted(u) PROVE Announced
  <2>1. s # u
    BY <1>3 DEF SubscribeCompleted, TypeOK, Connected
  <2>2. QED
    BY <1>1, <1>3, <2>1 DEF SubscribeCompleted, TypeOK, Connected
<1>4. ASSUME NEW u \in Subs, SubscribeLive(u) PROVE Announced
  <2>1. registered \in Runs
    BY <1>4 DEF SubscribeLive, TypeOK
  <2>2. s # u
    BY <1>4, <2>1 DEF SubscribeLive, TypeOK
  <2>3. target'[s] = target[s] /\ phase'[s] = phase[s]
    BY <1>4, <2>2 DEF SubscribeLive, TypeOK
  <2>4. target[s] \in Runs
    BY <2>3 DEF TypeOK
  <2>5. s \notin subscribers[target[s]]
    BY <1>4, <2>1, <2>3, <2>4 DEF SubscribeLive, TypeOK
  <2>6. QED
    BY <1>1, <1>4, <2>3, <2>5 DEF SubscribeLive, Connected
<1>5. ASSUME NEW u \in Subs, Open(u) \/ ReadReplay(u) PROVE Announced
  <2>1. Connected(s)
    BY <1>5 DEF Open, ReadReplay, Connected, TypeOK
  <2>2. QED
    BY <1>1, <1>5, <2>1 DEF Open, ReadReplay
<1>6. ASSUME NEW u \in Subs, Leave(u) PROVE Announced
  <2>1. s # u /\ phase'[s] = phase[s]
    BY <1>6 DEF Leave, Connected, TypeOK
  <2>2. target' = target /\ queue' = queue /\ told' = told /\ target[s] \in Runs
    BY <1>6 DEF Leave, TypeOK
  <2>3. s \notin subscribers[target[s]]
    BY <1>6, <2>1, <2>2 DEF Leave, Discard
  <2>4. QED
    BY <1>1, <2>1, <2>2, <2>3 DEF Connected
<1>7. ASSUME NEW u \in Subs, ReadQueue(u) PROVE Announced
  <2>1. target' = target /\ target[s] \in Runs
    BY <1>7 DEF ReadQueue, TypeOK
  <2>2. CASE s # u
    <3>1. phase'[s] = phase[s] /\ queue'[s] = queue[s] /\ told'[s] = told[s]
      BY <1>7, <2>2 DEF ReadQueue, TypeOK
    <3>2. s \notin subscribers[target[s]]
      BY <1>7, <2>1, <2>2 DEF ReadQueue, Discard
    <3>3. QED
      BY <1>1, <2>1, <3>1, <3>2 DEF Connected
  <2>3. CASE s = u
    <3>1. Head(queue[s]).tag # "end"
      BY <1>7, <2>3 DEF ReadQueue, TypeOK, Connected
    <3>2. subscribers' = subscribers /\ Connected(s)
      BY <1>7, <2>3, <3>1 DEF ReadQueue, Connected
    <3>3. \/ queue[s] = <<SlowItem, EndItem>>
          \/ queue[s] = <<EndItem>> /\ told[s] = "slow"
      BY <2>1, <3>2, RunAssumption DEF StreamInv, CutOffIsAnnounced
    <3>4. Head(<<EndItem>>).tag = "end"
      BY DEF EndItem
    <3>5. queue[s] = <<SlowItem, EndItem>>
      BY <3>1, <3>3, <3>4
    <3>6. Head(queue[s]).tag = "slow" /\ Tail(queue[s]) = <<EndItem>>
      BY <3>5 DEF SlowItem
    <3>7. queue'[s] = <<EndItem>> /\ told'[s] = "slow"
      BY <1>7, <2>3, <3>6 DEF ReadQueue, TypeOK
    <3>8. QED
      BY <3>7 DEF Announced
  <2>4. QED
    BY <2>2, <2>3
<1>8. ASSUME NEW p \in Runs, NEW items, Broadcast(p, items), UNCHANGED subVars
      PROVE  Announced
  <2>1. target' = target /\ told' = told /\ Connected(s) /\ target[s] \in Runs
    BY <1>8 DEF subVars, Connected, TypeOK
  <2>2. CASE s \notin subscribers[target[s]]
    <3>1. s \notin subscribers[p]
      BY <2>1, <2>2 DEF StreamInv, SubsInOrder
    <3>2. queue'[s] = queue[s]
      BY <1>8, <3>1 DEF Broadcast
    <3>3. QED
      BY <1>1, <2>1, <2>2, <3>2
  <2>3. CASE s \in subscribers[target[s]]
    <3>1. p = target[s] /\ ~ HasRoom(queue[s], items)
      BY <1>8, <2>1, <2>3 DEF Broadcast, TypeOK
    <3>2. queue'[s] = <<SlowItem, EndItem>>
      BY <1>8, <2>3, <3>1 DEF Broadcast, Offer
    <3>3. QED
      BY <3>2 DEF Announced
  <2>4. QED
    BY <2>2, <2>3
<1>9. ASSUME NEW p \in Runs, Publish(p) \/ Finish(p) \/ Fail(p) PROVE Announced
  BY <1>8, <1>9 DEF Publish, Finish, Fail
<1>10. ASSUME NEW p \in Runs, Enter(p) PROVE Announced
  BY <1>1, <1>10 DEF Enter, subVars, Connected
<1>11. ASSUME Stop \/ Close PROVE Announced
  BY <1>1, <1>11 DEF Stop, Close, subVars, Connected
<1>12. ASSUME UNCHANGED vars PROVE Announced
  BY <1>1, <1>12 DEF vars, subVars, Connected
<1>13. QED
  BY <1>2, <1>3, <1>4, <1>5, <1>6, <1>7, <1>9, <1>10, <1>11, <1>12
  DEF Next, Announced

(* The invariant behind the streams holds in every reachable state.        *)
LEMMA StreamInvHolds == Spec => []StreamInv
<1>1. Init => StreamInv
  <2> SUFFICES ASSUME Init PROVE StreamInv
    OBVIOUS
  <2>1. RunsInOrder /\ SubsInOrder /\ Followers
    BY RunAssumption DEF Init, RunsInOrder, Over, SubsInOrder, Connected, Followers
  <2>2. ReplayWindow
    BY DEF Init, ReplayWindow
  <2>3. ClosedMeansComplete /\ CutOffIsAnnounced
    BY DEF Init, ClosedMeansComplete, CutOffIsAnnounced, Connected
  <2>4. QED
    BY <2>1, <2>2, <2>3 DEF StreamInv
<1>2. TypeOK /\ StreamInv /\ [Next]_vars => StreamInv'
  BY RunsStep, SubsStep, FollowersStep, WindowStep, ClosedStep, CutOffStep
  DEF StreamInv
<1>3. QED
  BY <1>1, <1>2, TypeCorrect, PTL DEF Spec

(* However publishing, merging, eviction, reconnection and the reading of  *)
(* a slow client interleave, each subscriber's stream is one gap-free run  *)
(* of events up to the latest, and the cache is a window onto the latest   *)
(* events within both of its limits: for every number of events, Runs and  *)
(* subscribers and whatever the limits are.                                *)
THEOREM EventsStayWholeHolds == Spec => []EventsStayWhole
<1>1. StreamInv => EventsStayWhole
  BY FollowersMissNothing DEF StreamInv, EventsStayWhole
<1>2. QED
  BY <1>1, StreamInvHolds, PTL

(* The closing None is the last thing a follower of a Run that is over has *)
(* to read, and the last thing one that was dropped has (_finish,          *)
(* _drop_slow_subscriber).                                                 *)
LEMMA EndIsLast == TypeOK /\ StreamInv => EndIsDelivered
<1> SUFFICES ASSUME TypeOK, StreamInv, NEW s \in Subs, AfterTheEnd(s),
                    Entered(target[s])
             PROVE  queue[s] # <<>> /\ queue[s][Len(queue[s])].tag = "end"
  BY DEF EndIsDelivered
<1>1. /\ target[s] \in Runs /\ Connected(s) /\ target[s] # NoRun
      /\ Over(target[s]) /\ queue[s] \in Seq(Item)
  BY DEF AfterTheEnd, Entered, Over, TypeOK
<1>2. CASE s \in subscribers[target[s]]
  <2>1. Follower(target[s], s)
    BY <1>1, <1>2 DEF StreamInv, Followers
  <2>2. Len(queue[s]) # 0 /\ queue[s][Len(queue[s])].tag = "end"
    BY <1>1, <2>1 DEF Follower
  <2>3. QED
    BY <1>1, <2>2
<1>3. CASE s \notin subscribers[target[s]]
  <2>1. queue[s] = <<SlowItem, EndItem>> \/ queue[s] = <<EndItem>>
    BY <1>1, <1>3 DEF StreamInv, CutOffIsAnnounced
  <2>2. EndItem.tag = "end"
    BY DEF EndItem
  <2>3. CASE queue[s] = <<EndItem>>
    <3>1. Len(queue[s]) = 1 /\ queue[s][1] = EndItem
      BY <2>3
    <3>2. QED
      BY <2>2, <3>1
  <2>4. CASE queue[s] = <<SlowItem, EndItem>>
    <3>1. Len(queue[s]) = 2 /\ queue[s][2] = EndItem
      BY <2>4
    <3>2. QED
      BY <2>2, <3>1
  <2>5. QED
    BY <2>1, <2>3, <2>4
<1>4. QED
  BY <1>2, <1>3

(* A stream that ended told its client that it was too slow, or delivered  *)
(* everything up to the `done' of a Run that is over; one that was cut off *)
(* still has the notice ahead of it; and once a Run that was entered is    *)
(* over, the closing None is in the queue of everyone still connected to   *)
(* it.  A Run that was cancelled before its first step is excepted.        *)
THEOREM StreamsAreAnsweredHolds == Spec => []StreamsAreAnswered
<1>1. TypeOK /\ StreamInv => StreamsAreAnswered
  BY EndIsLast DEF StreamInv, StreamsAreAnswered
<1>2. QED
  BY <1>1, StreamInvHolds, TypeCorrect, PTL
=============================================================================
