----------------------- MODULE ExperienceRecallProofs -----------------------
(***************************************************************************)
(* The experiences that queries leave behind (QueryExperience), and the    *)
(* contexts of a Conversation they are added to when a search finds them   *)
(* (SemanticRecall).                                                       *)
(*                                                                         *)
(* The projection of an experience is exact and what an administrator says *)
(* is final, for any number of recorders and workers and any bounds.  What *)
(* a worker has read is the row as it is now or an older revision of it    *)
(* (Loaded); Elasticsearch is never ahead of the row and, at the revision  *)
(* of the row, says what the row says (Versions).  A worker that comes     *)
(* late is therefore refused by its version, as long as the tombstone it   *)
(* has to lose against is kept (Synced, Gone).                             *)
(*                                                                         *)
(* A context stays sound and what is shown of it is allowed, for any       *)
(* callers, queries, catalogue and policies.  Every operation on contexts  *)
(* makes a context of contexts (Contexts); a call that has its lock is the *)
(* only one that has it (LocksHeld), so that what it read is what it       *)
(* replaces (MergesInto).                                                  *)
(***************************************************************************)
EXTENDS QueryExperience, SemanticRecall, FiniteSetTheorems, SequenceTheorems,
        WellFoundedInduction, TLAPS

Alive(i) == row # NoRow /\ row.id = i
Busy(w) == worker[w] # Idle

\* the document says what the row says
Fits(r, d) ==
    IF r.status = "active"
    THEN d.live /\ d.version = r.revision /\ d.epoch = r.epoch /\ d.purposes = r.purposes
    ELSE ~d.live

\* the worker has read the row as it is
Carries(f, r) == f.does = Does(r) /\ f.epoch = r.epoch /\ f.purposes = r.purposes

\* ids are given away in order, and nothing speaks of one that was not yet
Numbered ==
    /\ row # NoRow => row.id = lastId
    /\ \A m \in tasks : m.id <= lastId
    /\ \A w \in Workers : Busy(w) => worker[w].message.id <= lastId
    /\ \A i \in Ids : i > lastId => doc[i] = NoDoc

Loaded ==
    \A w \in Workers : Busy(w) /\ Alive(worker[w].message.id) =>
        /\ worker[w].does # "purge"
        /\ worker[w].revision <= row.revision
        /\ worker[w].revision = row.revision => Carries(worker[w], row)

Versions ==
    row # NoRow =>
        /\ doc[row.id].version <= row.revision
        /\ doc[row.id].version = row.revision => Fits(row, doc[row.id])
        /\ \A w \in Workers : worker[w].stage = "written" /\ worker[w].message.id = row.id =>
              worker[w].revision <= doc[row.id].version

\* a row that has caught up fits, and a worker still under way meets its version
Synced ==
    row # NoRow /\ row.indexed = row.revision =>
        /\ Fits(row, doc[row.id])
        /\ \/ doc[row.id].version = row.revision
           \/ \A w \in Workers : Busy(w) => worker[w].message.id # row.id

\* an id without its row has no document, and no worker brings one back
Gone ==
    \A i \in 1..lastId : ~Alive(i) =>
        /\ ~doc[i].live
        /\ \A w \in Workers : Busy(w) /\ worker[w].message.id = i
                                /\ worker[w].stage = "loaded" /\ worker[w].does = "index" =>
              worker[w].revision < doc[i].version

\* purposes come from one generation, at every place they pass through
Pure ==
    /\ PurposesOfOneGeneration
    /\ \A w \in Workers : Busy(w) /\ worker[w].does = "index" =>
          worker[w].purposes = {worker[w].epoch}

Order == Numbered /\ Loaded /\ Versions /\ Synced /\ Gone

IInv == TypeOK /\ Order /\ Pure

USE BoundAssumption DEF Ids, Revisions, Epochs

-----------------------------------------------------------------------------
LEMMA InvInit == Init => IInv
<1> SUFFICES ASSUME Init PROVE IInv
  OBVIOUS
<1> USE DEF Init, NoRow, Idle, NoDoc
<1>1. TypeOK
  BY DEF TypeOK, Row, Doc, Message, InFlight, Asking
<1>2. Order
  BY DEF Order, Numbered, Loaded, Versions, Synced, Gone, Busy, Alive
<1>3. Pure
  BY DEF Pure, PurposesOfOneGeneration, Busy
<1> QED BY <1>1, <1>2, <1>3 DEF IInv

\* No row is a record of its own.
LEMMA Apart ==
  /\ NoRow \notin Row /\ \A r \in Row : r.id # 0 /\ r # NoRow
  /\ Idle \notin InFlight /\ Idle \notin Asking
  /\ \A f \in InFlight : f.stage # "idle"
BY DEF NoRow, Row, Idle, InFlight, Asking

\* Messages are sent or not.
LEMMA Sent ==
  ASSUME tasks \in SUBSET Message, NEW id \in Ids, NEW revision \in Revisions,
         Enqueue(id, revision)
  PROVE  /\ tasks' \subseteq Message
         /\ \A m \in tasks' : m \in tasks \/ m.id = id
BY DEF Enqueue, Message

\* A step that touches neither row, documents nor workers.
LEMMA OrderOfMessages ==
  ASSUME IInv, UNCHANGED <<row, lastId, doc, worker>>,
         \A m \in tasks' : m.id <= lastId
  PROVE  Order'
BY DEF IInv, Order, Numbered, Loaded, Versions, Synced, Gone, Busy, Alive

LEMMA PureAsBefore ==
  ASSUME Pure, UNCHANGED <<row, doc, worker>>
  PROVE  Pure'
BY DEF Pure, PurposesOfOneGeneration, Busy

\* The row goes on by one revision: whatever was read or written is older.
LEMMA RowAdvances ==
  ASSUME IInv, row # NoRow, row' \in Row, row'.id = row.id,
         row'.revision = row.revision + 1, row'.indexed = row.indexed,
         UNCHANGED <<lastId, doc, worker>>,
         \A m \in tasks' : m \in tasks \/ m.id = row.id
  PROVE  Order'
<1>1. row \in Row /\ row.revision \in Nat /\ row.indexed <= row.revision /\ row' # NoRow
  BY Apart DEF IInv, TypeOK, Row
<1>2. \A i : Alive(i)' <=> Alive(i)
  BY <1>1 DEF Alive
<1>3. \A w \in Workers : Busy(w)' <=> Busy(w)
  BY DEF Busy
<1>4. Numbered'
  <2>1. lastId \in Nat /\ row.id = lastId
    BY DEF IInv, Order, Numbered, TypeOK
  <2> QED BY <1>1, <1>3, <2>1 DEF IInv, Order, Numbered
<1>5. Loaded'
  <2> SUFFICES ASSUME NEW w \in Workers, Busy(w), Alive(worker[w].message.id)
               PROVE  /\ worker[w].does # "purge"
                      /\ worker[w].revision <= row'.revision
                      /\ worker[w].revision = row'.revision => Carries(worker[w], row')
    BY <1>2, <1>3 DEF Loaded
  <2>1. worker[w].does # "purge" /\ worker[w].revision <= row.revision
    BY DEF IInv, Order, Loaded
  <2>2. worker[w] \in InFlight
    BY DEF IInv, TypeOK, Busy
  <2>3. worker[w].revision \in Nat
    BY <2>2 DEF InFlight
  <2> QED BY <1>1, <2>1, <2>3
<1>6. Versions'
  <2>1. doc[row.id].version <= row.revision /\ doc[row.id].version \in Nat
    BY <1>1 DEF IInv, Order, Versions, TypeOK, Doc, Row
  <2> QED BY <1>1, <2>1 DEF IInv, Order, Versions
<1>7. Synced'
  BY <1>1 DEF Synced, Row
<1>8. Gone'
  BY <1>2, <1>3 DEF IInv, Order, Gone
<1> QED BY <1>4, <1>5, <1>6, <1>7, <1>8 DEF Order

-----------------------------------------------------------------------------
(* The steps on the row.                                                   *)

\* what Enqueue and TypeOK ask of the parts that a step leaves alone
LEMMA TypesAround ==
  ASSUME TypeOK, UNCHANGED <<lastId, epoch, doc, worker>>, row' \in Row,
         recorder' \in [Recorders -> {Idle} \cup Asking], tasks' \subseteq Message,
         (row'.status = "disabled") = (row'.reason # "none"), row'.indexed <= row'.revision
  PROVE  TypeOK'
BY DEF TypeOK

LEMMA ReadsKept ==
  ASSUME IInv, NEW c \in Recorders, Ask(c) \/ Forget(c)
  PROVE  IInv'
<1> USE DEF Ask, Forget
<1>1. TypeOK'
  BY DEF IInv, TypeOK, Asking
<1>2. Order'
  BY OrderOfMessages DEF IInv, Order, Numbered
<1>3. Pure'
  BY PureAsBefore DEF IInv
<1> QED BY <1>1, <1>2, <1>3 DEF IInv

\* One more revision of the row, of which only the purposes matter to Pure.
LEMMA AdvanceKept ==
  ASSUME IInv, row # NoRow, row' \in Row, row'.id = row.id,
         row'.revision = row.revision + 1, row'.indexed = row.indexed,
         (row'.status = "disabled") = (row'.reason # "none"),
         row'.purposes = {row'.epoch},
         UNCHANGED <<lastId, epoch, doc, worker>>,
         recorder' \in [Recorders -> {Idle} \cup Asking],
         Enqueue(row.id, row'.revision)
  PROVE  IInv'
<1>1. row \in Row /\ row.indexed <= row.revision /\ tasks \in SUBSET Message
  BY DEF IInv, TypeOK
<1>2. row.id \in Ids /\ row'.revision \in Revisions
  BY <1>1 DEF Row
<1>3. tasks' \subseteq Message /\ \A m \in tasks' : m \in tasks \/ m.id = row.id
  BY <1>1, <1>2, Sent
<1>4. row'.indexed <= row'.revision
  BY <1>1 DEF Row
<1>5. TypeOK'
  BY <1>3, <1>4, TypesAround DEF IInv
<1>6. Order'
  BY <1>3, RowAdvances
<1>7. Pure'
  BY DEF IInv, Pure, PurposesOfOneGeneration, Busy
<1> QED BY <1>5, <1>6, <1>7 DEF IInv

LEMMA AdministrationKept ==
  ASSUME IInv, DisableForMetadataChange \/ Disable \/ RequestDeletion
  PROVE  IInv'
<1> USE DEF DisableForMetadataChange, Disable, RequestDeletion
<1>1. row \in Row /\ row # NoRow /\ row.revision < MaxRevision
  BY DEF IInv, TypeOK
<1>2. row.purposes = {row.epoch}
  BY <1>1 DEF IInv, Pure, PurposesOfOneGeneration
<1>3. row.revision + 1 \in Revisions
  BY <1>1 DEF Row
<1>4. PICK status \in {"disabled", "deleting"}, reason \in {"none", "admin", "metadata_changed"} :
        /\ row' = [row EXCEPT !.status = status, !.reason = reason, !.revision = row.revision + 1]
        /\ (status = "disabled") = (reason # "none")
  OBVIOUS
<1>5. /\ row' \in Row /\ row'.id = row.id /\ row'.indexed = row.indexed
      /\ row'.revision = row.revision + 1
      /\ row'.status = status /\ row'.reason = reason
      /\ row'.purposes = row.purposes /\ row'.epoch = row.epoch
  BY <1>1, <1>3, <1>4 DEF Row
<1>6. recorder' \in [Recorders -> {Idle} \cup Asking]
  BY DEF IInv, TypeOK
<1> QED BY <1>1, <1>2, <1>4, <1>5, <1>6, AdvanceKept

LEMMA RecallKept ==
  ASSUME IInv, Recall \/ Repair
  PROVE  IInv'
<1> USE DEF Recall, Repair, Pending
<1>1. row \in Row /\ row # NoRow /\ tasks \in SUBSET Message
  BY DEF IInv, TypeOK
<1>2. row.id \in Ids /\ row.revision \in Revisions
  BY <1>1 DEF Row
<1>3. tasks' \subseteq Message /\ \A m \in tasks' : m \in tasks \/ m.id = row.id
  BY <1>1, <1>2, Sent
<1>4. TypeOK'
  BY <1>3 DEF IInv, TypeOK
<1>5. row.id = lastId /\ lastId \in Nat
  BY <1>1 DEF IInv, Order, Numbered, TypeOK
<1>6. Order'
  BY <1>1, <1>3, <1>5, OrderOfMessages DEF IInv, Order, Numbered
<1>7. Pure'
  BY PureAsBefore DEF IInv
<1> QED BY <1>4, <1>6, <1>7 DEF IInv

\* A success writes a row of its own, a new revision, or nothing.
LEMMA UpsertKept ==
  ASSUME IInv, NEW c \in Recorders, Upsert(c)
  PROVE  IInv'
<1> DEFINE e == recorder[c].epoch
<1>1. recorder[c] \in Asking /\ e \in Epochs
  <2>1. recorder[c] \in Asking
    BY DEF Upsert, IInv, TypeOK
  <2> QED BY <2>1 DEF Asking
<1>2. recorder' \in [Recorders -> {Idle} \cup Asking]
  BY DEF Upsert, IInv, TypeOK
<1>3. UNCHANGED <<epoch, doc, worker>> /\ Enqueue(row'.id, row'.revision)
  BY DEF Upsert
<1>4. tasks \in SUBSET Message /\ lastId \in Nat
  BY DEF IInv, TypeOK
<1>5. CASE row = NoRow
  <2>1. lastId < MaxId /\ row' = Inserted(recorder[c]) /\ lastId' = lastId + 1
    BY <1>5 DEF Upsert
  <2>2. /\ row' \in Row /\ row'.id = lastId + 1 /\ row'.revision = 1 /\ row'.indexed = 0
        /\ row'.status = "active" /\ row'.reason = "none" /\ row'.purposes = {row'.epoch}
    BY <1>1, <1>4, <2>1 DEF Inserted, Row
  <2>3. row' # NoRow
    BY <2>2, Apart
  <2>4. tasks' \subseteq Message /\ \A m \in tasks' : m \in tasks \/ m.id = lastId + 1
    <3>1. row'.id \in Ids /\ row'.revision \in Revisions
      BY <2>2 DEF Row
    <3> QED BY <1>3, <1>4, <2>2, <3>1, Sent
  <2>5. TypeOK'
    BY <1>2, <1>3, <1>4, <2>1, <2>2, <2>4 DEF IInv, TypeOK
  <2>6. \A w \in Workers : Busy(w)' <=> Busy(w)
    BY <1>3 DEF Busy
  <2>7. \A w \in Workers : Busy(w) =>
           worker[w].message.id \in Nat /\ worker[w].message.id <= lastId
    <3> TAKE w \in Workers
    <3> HAVE Busy(w)
    <3>1. worker[w] \in InFlight
      BY DEF IInv, TypeOK, Busy
    <3> QED BY <3>1 DEF IInv, Order, Numbered, InFlight, Message
  <2>8. Numbered'
    <3>1. \A m \in tasks : m.id \in Nat /\ m.id <= lastId
      BY <1>4 DEF Message, IInv, Order, Numbered
    <3>2. \A i \in Ids : i > lastId + 1 => doc[i] = NoDoc
      BY <1>4 DEF IInv, Order, Numbered
    <3> QED BY <1>3, <1>4, <2>1, <2>2, <2>4, <2>6, <2>7, <3>1, <3>2 DEF Numbered
  <2>9. doc[lastId + 1] = NoDoc
    BY <1>4, <2>1 DEF IInv, Order, Numbered
  <2>10. Loaded' /\ Versions' /\ Synced'
    <3>1. \A w \in Workers : Busy(w) => worker[w].message.id # lastId + 1
      BY <1>4, <2>7
    <3>2. \A w \in Workers : worker[w].stage = "written" => Busy(w)
      BY DEF Busy, Idle
    <3> QED BY <1>3, <2>2, <2>3, <2>6, <2>9, <3>1, <3>2
         DEF Loaded, Versions, Synced, Alive, NoDoc
  <2>11. Gone'
    <3>1. \A i \in 1..(lastId + 1) : ~Alive(i)' => i \in 1..lastId /\ ~Alive(i)
      BY <1>4, <1>5, <2>2, <2>3 DEF Alive
    <3> QED BY <1>3, <2>1, <2>6, <3>1 DEF IInv, Order, Gone
  <2>12. Pure'
    BY <1>3, <2>2, <2>6 DEF IInv, Pure, PurposesOfOneGeneration
  <2> QED BY <2>5, <2>8, <2>10, <2>11, <2>12 DEF IInv, Order
<1>6. CASE row # NoRow /\ row.status # "deleting"
  <2>1. row' = Refreshed(row, recorder[c]) /\ row.revision < MaxRevision /\ UNCHANGED lastId
    BY <1>6 DEF Upsert
  <2>2. /\ row \in Row /\ row.purposes = {row.epoch}
        /\ ((row.status = "disabled") = (row.reason # "none"))
    BY <1>6 DEF IInv, TypeOK, Pure, PurposesOfOneGeneration
  <2>3. PurposesAfter(row, e) = {e}
    BY <2>2 DEF PurposesAfter
  <2>4. /\ row' \in Row /\ row'.id = row.id /\ row'.revision = row.revision + 1
        /\ row'.indexed = row.indexed /\ row'.epoch = e /\ row'.purposes = {e}
        /\ row'.status = IF Reactivates(row) THEN "active" ELSE row.status
        /\ row'.reason = IF Reactivates(row) THEN "none" ELSE row.reason
    <3> DEFINE status == IF Reactivates(row) THEN "active" ELSE row.status
               reason == IF Reactivates(row) THEN "none" ELSE row.reason
    <3>1. row' = [row EXCEPT !.epoch = e, !.purposes = {e}, !.revision = row.revision + 1,
                             !.status = status, !.reason = reason]
      BY <2>1, <2>2, <2>3 DEF Refreshed, Row
    <3>2. /\ status \in {"active", "disabled", "deleting"}
          /\ reason \in {"none", "admin", "metadata_changed"}
      BY <2>2 DEF Row
    <3>3. row.revision + 1 \in Revisions /\ {e} \in SUBSET Epochs
      BY <1>1, <2>1, <2>2 DEF Row
    <3> HIDE DEF status, reason
    <3>4. row' \in Row /\ row'.id = row.id /\ row'.revision = row.revision + 1
          /\ row'.indexed = row.indexed /\ row'.epoch = e /\ row'.purposes = {e}
          /\ row'.status = status /\ row'.reason = reason
      BY <1>1, <2>2, <3>1, <3>2, <3>3 DEF Row
    <3> QED BY <3>4 DEF status, reason
  <2>5. (row'.status = "disabled") = (row'.reason # "none")
    BY <2>2, <2>4
  <2> QED BY <1>2, <1>3, <1>6, <2>1, <2>4, <2>5, AdvanceKept
<1>7. CASE row # NoRow /\ row.status = "deleting"
  <2>1. UNCHANGED <<row, lastId>>
    BY <1>7 DEF Upsert
  <2>2. row \in Row /\ row.id \in Ids /\ row.revision \in Revisions /\ row.id = lastId
    BY <1>7 DEF IInv, Order, Numbered, TypeOK, Row
  <2>3. tasks' \subseteq Message /\ \A m \in tasks' : m \in tasks \/ m.id = lastId
    BY <1>3, <1>4, <2>1, <2>2, Sent
  <2>4. TypeOK'
    BY <1>2, <1>3, <2>1, <2>3 DEF IInv, TypeOK
  <2>5. Order'
    BY <1>3, <1>4, <2>1, <2>3, OrderOfMessages DEF IInv, Order, Numbered
  <2>6. Pure'
    BY <1>3, <2>1, PureAsBefore DEF IInv
  <2> QED BY <2>4, <2>5, <2>6 DEF IInv
<1> QED BY <1>5, <1>6, <1>7

-----------------------------------------------------------------------------
(* The steps of the workers.                                               *)

\* A worker that stops takes nothing with it.
LEMMA StopKept ==
  ASSUME IInv, NEW w \in Workers, worker' = [worker EXCEPT ![w] = Idle],
         UNCHANGED <<row, lastId, doc>>, \A m \in tasks' : m.id <= lastId
  PROVE  Order' /\ Pure' /\ worker' \in [Workers -> {Idle} \cup InFlight]
<1>1. worker' \in [Workers -> {Idle} \cup InFlight] /\ worker'[w] = Idle
      /\ \A v \in Workers : v # w => worker'[v] = worker[v]
  BY DEF IInv, TypeOK
<1>2. \A v \in Workers : Busy(v)' => Busy(v) /\ worker'[v] = worker[v]
  BY <1>1 DEF Busy
<1>3. \A v \in Workers : worker'[v].stage = "written" => Busy(v)' /\ worker'[v] = worker[v]
  BY <1>1 DEF Busy, Idle
<1>4. Order'
  BY <1>2, <1>3 DEF IInv, Order, Numbered, Loaded, Versions, Synced, Gone, Alive
<1>5. Pure'
  BY <1>2 DEF IInv, Pure, PurposesOfOneGeneration
<1> QED BY <1>1, <1>4, <1>5

LEMMA AbortKept ==
  ASSUME IInv, NEW w \in Workers, Abort(w)
  PROVE  IInv'
<1>1. worker[w] \in InFlight /\ worker[w].message \in Message /\ worker[w].message.id <= lastId
  <2>1. worker[w] \in InFlight
    BY DEF Abort, IInv, TypeOK
  <2>2. worker[w].message.id <= lastId
    BY DEF Abort, IInv, Order, Numbered, Busy
  <2> QED BY <2>1, <2>2 DEF InFlight
<1>2. tasks' \subseteq Message /\ \A m \in tasks' : m.id <= lastId
  BY <1>1 DEF Abort, IInv, Order, Numbered, TypeOK
<1>3. Order' /\ Pure' /\ worker' \in [Workers -> {Idle} \cup InFlight]
  BY <1>2, StopKept DEF Abort
<1>4. TypeOK'
  BY <1>2, <1>3 DEF Abort, IInv, TypeOK
<1> QED BY <1>3, <1>4 DEF IInv

\* What a worker reads is the row as it is, or of an id that has lost its row.
LEMMA LoadKept ==
  ASSUME IInv, NEW w \in Workers, Load(w)
  PROVE  IInv'
<1>1. PICK m \in tasks :
        /\ tasks' = tasks \ {m}
        /\ worker' = [worker EXCEPT ![w] =
             IF row = NoRow \/ row.id # m.id
             THEN [stage |-> "loaded", message |-> m, does |-> "purge",
                   revision |-> m.revision, epoch |-> 0, purposes |-> {}]
             ELSE IF row.indexed >= row.revision THEN Idle
             ELSE [stage |-> "loaded", message |-> m, does |-> Does(row),
                   revision |-> row.revision, epoch |-> row.epoch,
                   purposes |-> row.purposes]]
  BY DEF Load
<1>2. m \in Message /\ m.id <= lastId /\ m.id \in Ids /\ m.revision \in Revisions
  <2>1. m \in Message /\ m.id <= lastId
    BY DEF IInv, TypeOK, Order, Numbered
  <2> QED BY <2>1 DEF Message
<1>3. UNCHANGED <<row, lastId, epoch, recorder, doc>> /\ worker[w] = Idle
  BY DEF Load
<1>4. tasks' \subseteq Message /\ \A n \in tasks' : n.id <= lastId
  BY <1>1 DEF IInv, TypeOK, Order, Numbered
<1>5. row # NoRow => row \in Row /\ row.revision \in Revisions /\ row.epoch \in Epochs
                     /\ row.purposes \in SUBSET Epochs /\ row.indexed \in Nat
                     /\ row.status \in {"active", "disabled", "deleting"}
  BY DEF IInv, TypeOK, Row
<1>6. CASE ~Alive(m.id)
  <2> DEFINE f == [stage |-> "loaded", message |-> m, does |-> "purge",
                   revision |-> m.revision, epoch |-> 0, purposes |-> {}]
  <2>1. worker' = [worker EXCEPT ![w] = f]
    BY <1>1, <1>6 DEF Alive
  <2>2. f \in InFlight
    BY <1>2 DEF InFlight
  <2>3. /\ worker' \in [Workers -> {Idle} \cup InFlight] /\ worker'[w] = f
        /\ \A v \in Workers : v # w => worker'[v] = worker[v]
    BY <2>1, <2>2 DEF IInv, TypeOK
  <2>4. TypeOK'
    BY <1>3, <1>4, <2>3 DEF IInv, TypeOK
  <2>5. \A v \in Workers : v # w => (Busy(v)' <=> Busy(v))
    BY <2>3 DEF Busy
  <2>6. Numbered' /\ Loaded'
    BY <1>2, <1>3, <1>4, <1>6, <2>3, <2>5 DEF IInv, Order, Numbered, Loaded, Alive
  <2>7. Versions' /\ Synced'
    BY <1>3, <1>6, <2>3, <2>5 DEF IInv, Order, Versions, Synced, Alive
  <2>8. Gone'
    BY <1>3, <2>3, <2>5 DEF IInv, Order, Gone, Alive
  <2>9. Pure'
    BY <1>3, <2>3, <2>5 DEF IInv, Pure, PurposesOfOneGeneration
  <2> QED BY <2>4, <2>6, <2>7, <2>8, <2>9 DEF IInv, Order
<1>7. CASE Alive(m.id) /\ row.indexed >= row.revision
  <2>1. worker' = [worker EXCEPT ![w] = Idle]
    BY <1>1, <1>7 DEF Alive
  <2>2. Order' /\ Pure' /\ worker' \in [Workers -> {Idle} \cup InFlight]
    BY <1>3, <1>4, <2>1, StopKept
  <2>3. TypeOK'
    BY <1>3, <1>4, <2>2 DEF IInv, TypeOK
  <2> QED BY <2>2, <2>3 DEF IInv
<1>8. CASE Alive(m.id) /\ ~(row.indexed >= row.revision)
  <2> DEFINE f == [stage |-> "loaded", message |-> m, does |-> Does(row),
                   revision |-> row.revision, epoch |-> row.epoch, purposes |-> row.purposes]
  <2>1. worker' = [worker EXCEPT ![w] = f] /\ row # NoRow /\ row.id = m.id
    BY <1>1, <1>8 DEF Alive
  <2>2. Does(row) \in {"retire", "remove", "index"}
    BY <1>5, <2>1 DEF Does
  <2>3. f \in InFlight
    BY <1>2, <1>5, <2>1, <2>2 DEF InFlight
  <2>4. /\ worker' \in [Workers -> {Idle} \cup InFlight] /\ worker'[w] = f
        /\ \A v \in Workers : v # w => worker'[v] = worker[v]
    BY <2>1, <2>3 DEF IInv, TypeOK
  <2>5. TypeOK'
    BY <1>3, <1>4, <2>4 DEF IInv, TypeOK
  <2>6. \A v \in Workers : v # w => (Busy(v)' <=> Busy(v))
    BY <2>4 DEF Busy
  <2>7. Numbered'
    BY <1>2, <1>3, <1>4, <2>4, <2>6 DEF IInv, Order, Numbered
  <2>8. Loaded'
    BY <1>3, <1>5, <2>1, <2>2, <2>4, <2>6 DEF IInv, Order, Loaded, Alive, Carries
  <2>9. Versions'
    BY <1>3, <2>4 DEF IInv, Order, Versions
  <2>10. Synced'
    BY <1>3, <1>5, <1>8, <2>1 DEF Synced
  <2>11. Gone'
    BY <1>3, <2>1, <2>4, <2>6 DEF IInv, Order, Gone, Alive
  <2>12. Pure'
    BY <1>3, <2>1, <2>4, <2>6 DEF IInv, Pure, PurposesOfOneGeneration
  <2> QED BY <2>5, <2>7, <2>8, <2>9, <2>10, <2>11, <2>12 DEF IInv, Order
<1> QED BY <1>6, <1>7, <1>8

\* A deleted document is forgotten when nobody can come late any more.
LEMMA ExpireKept ==
  ASSUME IInv, NEW i \in Ids, ExpireTombstone(i)
  PROVE  IInv'
<1>1. /\ doc' = [doc EXCEPT ![i] = NoDoc] /\ ~doc[i].live
      /\ UNCHANGED <<row, lastId, epoch, recorder, tasks, worker>>
      /\ \A w \in Workers : Busy(w) => worker[w].message.id # i
  BY DEF ExpireTombstone, Busy
<1>2. NoDoc \in Doc
  BY DEF NoDoc, Doc
<1>3. /\ doc' \in [Ids -> Doc] /\ doc'[i] = NoDoc
      /\ \A j \in Ids : j # i => doc'[j] = doc[j]
  BY <1>1, <1>2 DEF IInv, TypeOK
<1>4. TypeOK'
  BY <1>1, <1>3 DEF IInv, TypeOK
<1>5. \A w \in Workers : Busy(w)' <=> Busy(w)
  BY <1>1 DEF Busy
<1>6. Numbered' /\ Loaded'
  BY <1>1, <1>3, <1>5 DEF IInv, Order, Numbered, Loaded, Alive
<1>7. Versions' /\ Synced'
  <2> SUFFICES ASSUME row # NoRow PROVE Versions' /\ Synced'
    BY <1>1 DEF Versions, Synced
  <2>1. row.id \in Ids /\ row.revision \in Revisions /\ row \in Row
    BY DEF IInv, TypeOK, Row
  <2>2. CASE row.id = i
    <3>1. \A w \in Workers : worker[w].stage = "written" => worker[w].message.id # i
      BY <1>1 DEF Busy, Idle
    <3>2. Fits(row, doc[i]) => Fits(row, NoDoc)
      BY <1>1 DEF Fits, NoDoc
    <3>3. NoDoc.version = 0
      BY DEF NoDoc
    <3> QED BY <1>1, <1>3, <1>5, <2>1, <2>2, <3>1, <3>2, <3>3 DEF IInv, Order, Versions, Synced
  <2>3. CASE row.id # i
    BY <1>1, <1>3, <1>5, <2>1, <2>3 DEF IInv, Order, Versions, Synced
  <2> QED BY <2>2, <2>3
<1>8. Gone'
  <2> SUFFICES ASSUME NEW j \in 1..lastId, ~Alive(j)
               PROVE  /\ ~doc'[j].live
                      /\ \A w \in Workers : Busy(w) /\ worker[w].message.id = j
                            /\ worker[w].stage = "loaded" /\ worker[w].does = "index" =>
                               worker[w].revision < doc'[j].version
    BY <1>1, <1>5 DEF Gone, Alive
  <2>1. j \in Ids
    BY DEF IInv, TypeOK
  <2>2. CASE j = i
    BY <1>1, <1>3, <2>2 DEF NoDoc
  <2>3. CASE j # i
    BY <1>3, <2>1, <2>3 DEF IInv, Order, Gone
  <2> QED BY <2>2, <2>3
<1>9. Pure'
  <2>1. \A j \in Ids : doc'[j].live => doc[j].live /\ doc'[j] = doc[j]
    BY <1>1, <1>3 DEF NoDoc
  <2> QED BY <1>1, <1>5, <2>1 DEF IInv, Pure, PurposesOfOneGeneration
<1> QED BY <1>4, <1>6, <1>7, <1>8, <1>9 DEF IInv, Order

\* A write is refused, or brings what was read with its revision.
LEMMA WriteKept ==
  ASSUME IInv, NEW w \in Workers, Write(w)
  PROVE  IInv'
<1> DEFINE f == worker[w]
           i == f.message.id
           g == IF f.does = "purge" THEN Idle ELSE [f EXCEPT !.stage = "written"]
<1>1. /\ f \in InFlight /\ f.stage = "loaded" /\ Busy(w)
      /\ UNCHANGED <<row, lastId, epoch, recorder, tasks>>
      /\ doc' = IF Accepts(doc[i], f.revision) THEN [doc EXCEPT ![i] = Document(f)] ELSE doc
      /\ worker' = [worker EXCEPT ![w] = g]
  BY DEF Write, IInv, TypeOK, Busy, Idle
<1>2. /\ i \in Ids /\ i <= lastId /\ f.revision \in Revisions /\ f.message \in Message
      /\ f.does \in {"purge", "retire", "remove", "index"}
      /\ f.epoch \in 0..MaxEpoch /\ f.purposes \in SUBSET Epochs
  BY <1>1 DEF InFlight, Message, IInv, Order, Numbered
<1>3. Document(f) \in Doc /\ Document(f).version = f.revision
      /\ (Document(f).live <=> f.does = "index")
  <2>1. CASE f.does = "index"
    <3>1. Document(f) = [live |-> TRUE, version |-> f.revision,
                         epoch |-> f.epoch, purposes |-> f.purposes]
      BY <2>1 DEF Document
    <3> QED BY <1>2, <2>1, <3>1 DEF Doc
  <2>2. CASE f.does # "index"
    <3>1. Document(f) = [live |-> FALSE, version |-> f.revision, epoch |-> 0, purposes |-> {}]
      BY <2>2 DEF Document
    <3> QED BY <1>2, <2>2, <3>1 DEF Doc
  <2> QED BY <2>1, <2>2
<1>4. /\ doc' \in [Ids -> Doc]
      /\ \A j \in Ids : j # i => doc'[j] = doc[j]
      /\ \/ doc'[i] = doc[i] /\ f.revision < doc[i].version
         \/ doc'[i] = Document(f) /\ doc[i].version <= f.revision
  <2>1. doc \in [Ids -> Doc] /\ doc[i] \in Doc
    BY <1>2 DEF IInv, TypeOK
  <2>2. doc[i].version \in Nat
    <3>1. doc[i] \in Doc
      BY <2>1
    <3> QED BY ONLY <3>1, BoundAssumption DEF Doc
  <2>3. CASE f.revision >= doc[i].version
    <3>1. doc' = [doc EXCEPT ![i] = Document(f)]
      BY <1>1, <2>3 DEF Accepts
    <3> QED BY <1>2, <1>3, <2>1, <2>2, <2>3, <3>1
  <2>4. CASE ~(f.revision >= doc[i].version)
    <3>1. doc' = doc
      BY <1>1, <2>4 DEF Accepts
    <3> QED BY <1>2, <2>1, <2>2, <2>4, <3>1
  <2> QED BY <2>3, <2>4
<1>5. doc[i].version \in Nat /\ doc[i].version <= doc'[i].version
      /\ f.revision <= doc'[i].version /\ doc'[i].version \in Nat
  <2>1. doc[i] \in Doc
    BY <1>2 DEF IInv, TypeOK
  <2>2. doc[i].version \in Nat
    BY <2>1 DEF Doc
  <2> QED BY <1>2, <1>3, <1>4, <2>2
<1>6. /\ worker' \in [Workers -> {Idle} \cup InFlight] /\ worker'[w] = g
      /\ \A v \in Workers : v # w => worker'[v] = worker[v]
  <2>1. g \in InFlight \cup {Idle}
    BY <1>1 DEF InFlight
  <2> QED BY <1>1, <2>1 DEF IInv, TypeOK
<1>7. \A v \in Workers : Busy(v)' =>
        /\ Busy(v) /\ worker'[v].message = worker[v].message
        /\ worker'[v].does = worker[v].does /\ worker'[v].revision = worker[v].revision
        /\ worker'[v].epoch = worker[v].epoch /\ worker'[v].purposes = worker[v].purposes
        /\ v # w => worker'[v].stage = worker[v].stage
        /\ v = w => worker'[v].stage = "written"
  BY <1>1, <1>6 DEF Busy, InFlight
<1>8. \A v \in Workers : worker'[v].stage = "written" => Busy(v)'
  BY DEF Busy, Idle
<1>9. TypeOK'
  BY <1>1, <1>4, <1>6 DEF IInv, TypeOK
<1>10. Numbered'
  BY <1>1, <1>2, <1>4, <1>7 DEF IInv, Order, Numbered, TypeOK
<1>11. Loaded'
  BY <1>1, <1>7 DEF IInv, Order, Loaded, Alive, Carries
<1>12. ASSUME Alive(i)
       PROVE  /\ doc'[i].version <= row.revision
              /\ doc'[i].version = row.revision => Fits(row, doc'[i])
  <2>1. /\ doc[i].version <= row.revision
        /\ doc[i].version = row.revision => Fits(row, doc[i])
    BY <1>12 DEF Alive, IInv, Order, Versions
  <2>2. f.revision <= row.revision /\ (f.revision = row.revision => Carries(f, row))
    BY <1>1, <1>12 DEF IInv, Order, Loaded
  <2>3. f.revision = row.revision => Fits(row, Document(f))
    <3>1. row.status \in {"active", "disabled", "deleting"}
      BY <1>12 DEF Alive, IInv, TypeOK, Row
    <3> QED BY <2>2, <3>1 DEF Carries, Does, Document, Fits
  <2> QED BY <1>3, <1>4, <2>1, <2>2, <2>3
<1>13. Versions'
  <2> SUFFICES ASSUME row # NoRow PROVE Versions'
    BY <1>1 DEF Versions
  <2>0. row.id \in Ids
    BY SMTT(40) DEF IInv, TypeOK, Row
  <2>1. CASE row.id = i
    <3>1. Alive(i)
      BY <2>1 DEF Alive
    <3>2. \A v \in Workers : worker'[v].stage = "written" /\ worker'[v].message.id = i =>
            worker'[v].revision <= doc'[i].version
      <4> TAKE v \in Workers
      <4> HAVE worker'[v].stage = "written" /\ worker'[v].message.id = i
      <4>1. CASE v = w
        BY <1>5, <1>7, <1>8, <4>1
      <4>2. CASE v # w
        <5>1. worker[v].stage = "written" /\ worker[v].message.id = i
              /\ worker'[v].revision = worker[v].revision /\ worker[v] \in InFlight
          BY <1>7, <1>8, <4>2 DEF IInv, TypeOK, Busy
        <5>2. worker[v].revision <= doc[i].version /\ worker[v].revision \in Nat
          BY <2>1, <5>1, SMTT(40) DEF IInv, Order, Versions, InFlight
        <5> QED BY <1>5, <5>1, <5>2
      <4> QED BY <4>1, <4>2
    <3> QED BY <1>1, <1>12, <2>1, <3>1, <3>2 DEF Versions
  <2>2. CASE row.id # i
    BY <1>1, <1>4, <1>7, <1>8, <2>0, <2>2 DEF IInv, Order, Versions
  <2> QED BY <2>1, <2>2
<1>14. Synced'
  <2> SUFFICES ASSUME row # NoRow, row.indexed = row.revision PROVE Synced'
    BY <1>1 DEF Synced
  <2>0. row.id \in Ids
    BY SMTT(40) DEF IInv, TypeOK, Row
  <2>1. CASE row.id = i
    <3>1. doc[i].version = row.revision
      BY <1>1, <2>1 DEF IInv, Order, Synced
    <3>2. Alive(i) /\ row.revision \in Nat
      BY <2>1 DEF Alive, IInv, TypeOK, Row
    <3>3. doc'[i].version = row.revision
      BY <1>5, <1>12, <3>1, <3>2
    <3> QED BY <1>1, <1>12, <2>1, <3>2, <3>3 DEF Synced
  <2>2. CASE row.id # i
    BY <1>1, <1>4, <1>7, <2>0, <2>2 DEF IInv, Order, Synced
  <2> QED BY <2>1, <2>2
<1>15. Gone'
  <2> SUFFICES ASSUME NEW j \in 1..lastId, ~Alive(j)
               PROVE  /\ ~doc'[j].live
                      /\ \A v \in Workers : Busy(v)' /\ worker'[v].message.id = j
                            /\ worker'[v].stage = "loaded" /\ worker'[v].does = "index" =>
                               worker'[v].revision < doc'[j].version
    BY <1>1 DEF Gone, Alive
  <2>0. j \in Ids
    BY DEF IInv, TypeOK
  <2>1. /\ ~doc[j].live
        /\ \A v \in Workers : Busy(v) /\ worker[v].message.id = j
              /\ worker[v].stage = "loaded" /\ worker[v].does = "index" =>
                 worker[v].revision < doc[j].version
    BY DEF IInv, Order, Gone
  <2>2. CASE j = i
    <3>1. f.does = "index" => f.revision < doc[i].version
      BY <1>1, <2>1, <2>2, SMTT(40)
    <3>2. ~doc'[i].live
      BY <1>2, <1>3, <1>4, <1>5, <2>1, <2>2, <3>1
    <3>3. \A v \in Workers : Busy(v) => worker[v].revision \in Nat
      <4> TAKE v \in Workers
      <4>1. Busy(v) => worker[v] \in InFlight
        BY DEF IInv, TypeOK, Busy
      <4> QED BY <4>1 DEF InFlight
    <3> QED BY <1>5, <1>7, <2>1, <2>2, <3>2, <3>3
  <2>3. CASE j # i
    BY <1>4, <1>7, <2>0, <2>1, <2>3
  <2> QED BY <2>2, <2>3
<1>16. Pure'
  <2>1. f.does = "index" => f.purposes = {f.epoch}
    BY <1>1 DEF IInv, Pure
  <2>2. Document(f).live => Document(f).purposes = {Document(f).epoch}
    BY <2>1 DEF Document
  <2>3. \A j \in Ids : doc'[j].live => doc'[j].purposes = {doc'[j].epoch}
    <3> TAKE j \in Ids
    <3>1. CASE j = i
      BY <1>2, <1>4, <2>2, <3>1 DEF IInv, Pure, PurposesOfOneGeneration
    <3>2. CASE j # i
      BY <1>4, <3>2 DEF IInv, Pure, PurposesOfOneGeneration
    <3> QED BY <3>1, <3>2
  <2>4. row # NoRow => row.purposes = {row.epoch}
    BY DEF IInv, Pure, PurposesOfOneGeneration
  <2>5. \A v \in Workers : Busy(v)' /\ worker'[v].does = "index" =>
          worker'[v].purposes = {worker'[v].epoch}
    BY <1>7 DEF IInv, Pure
  <2> QED BY <1>1, <2>3, <2>4, <2>5 DEF Pure, PurposesOfOneGeneration
<1> QED BY <1>9, <1>10, <1>11, <1>13, <1>14, <1>15, <1>16 DEF IInv, Order

\* The row is marked or removed only at the revision that was written.
LEMMA CommitKept ==
  ASSUME IInv, NEW w \in Workers, Commit(w)
  PROVE  IInv'
<1> DEFINE f == worker[w]
           i == f.message.id
<1>1. /\ f \in InFlight /\ f.stage = "written" /\ Busy(w)
      /\ worker' = [worker EXCEPT ![w] = Idle]
      /\ UNCHANGED <<lastId, epoch, doc, recorder, tasks>>
  BY DEF Commit, IInv, TypeOK, Busy, Idle
<1>2. \/ row' = row
      \/ Alive(i) /\ f.revision = row.revision /\ row.status = "deleting" /\ row' = NoRow
      \/ Alive(i) /\ f.revision = row.revision /\ row' = [row EXCEPT !.indexed = f.revision]
  BY DEF Commit, Marked, Finalised, Alive
<1>3. \A m \in tasks' : m.id <= lastId
  BY <1>1 DEF IInv, Order, Numbered
<1>4. CASE row' = row
  <2>1. Order' /\ Pure' /\ worker' \in [Workers -> {Idle} \cup InFlight]
    BY <1>1, <1>3, <1>4, StopKept
  <2>2. TypeOK'
    BY <1>1, <1>4, <2>1 DEF IInv, TypeOK
  <2> QED BY <2>1, <2>2 DEF IInv
<1>5. /\ worker' \in [Workers -> {Idle} \cup InFlight] /\ worker'[w] = Idle
      /\ \A v \in Workers : v # w => worker'[v] = worker[v]
  BY <1>1 DEF IInv, TypeOK
<1>6. \A v \in Workers : Busy(v)' => Busy(v) /\ worker'[v] = worker[v]
  BY <1>5 DEF Busy
<1>7. \A v \in Workers : worker'[v].stage = "written" => Busy(v)' /\ worker'[v] = worker[v]
  BY <1>5 DEF Busy, Idle
<1>8. ASSUME Alive(i), f.revision = row.revision
      PROVE  doc[i].version = row.revision /\ Fits(row, doc[i])
  <2>1. /\ f.revision <= doc[i].version /\ doc[i].version <= row.revision
        /\ doc[i].version = row.revision => Fits(row, doc[i])
    BY <1>1, <1>8 DEF Alive, IInv, Order, Versions
  <2>2. doc[i].version \in Nat /\ row.revision \in Nat
    <3>1. row \in Row /\ i \in Ids /\ doc[i] \in Doc
      BY <1>8 DEF Alive, IInv, TypeOK, Row
    <3> QED BY <3>1 DEF Row, Doc
  <2> QED BY <1>8, <2>1, <2>2
<1>9. CASE Alive(i) /\ f.revision = row.revision /\ row.status = "deleting" /\ row' = NoRow
  <2>1. TypeOK'
    BY <1>1, <1>5, <1>9 DEF IInv, TypeOK
  <2>2. \A j : ~Alive(j)'
    BY <1>9 DEF Alive
  <2>3. Numbered' /\ Loaded' /\ Versions' /\ Synced'
    BY <1>1, <1>6, <1>9, <2>2 DEF IInv, Order, Numbered, Loaded, Versions, Synced
  <2>4. Gone'
    <3> SUFFICES ASSUME NEW j \in 1..lastId
                 PROVE  /\ ~doc[j].live
                        /\ \A v \in Workers : Busy(v) /\ worker[v].message.id = j
                              /\ worker[v].stage = "loaded" /\ worker[v].does = "index" =>
                                 worker[v].revision < doc[j].version
      BY <1>1, <1>6 DEF Gone
    <3>1. CASE j # i
      <4>1. ~Alive(j)
        BY <1>9, <3>1 DEF Alive
      <4> QED BY <4>1 DEF IInv, Order, Gone
    <3>2. CASE j = i
      <4>1. doc[i].version = row.revision /\ ~doc[i].live
        BY <1>8, <1>9 DEF Fits
      <4>2. ASSUME NEW v \in Workers, Busy(v), worker[v].message.id = i,
                   worker[v].does = "index"
            PROVE  worker[v].revision < row.revision
        <5>1. /\ worker[v].revision <= row.revision
              /\ worker[v].revision = row.revision => Carries(worker[v], row)
          BY <1>9, <4>2 DEF IInv, Order, Loaded
        <5>2. ~Carries(worker[v], row)
          BY <1>9, <4>2 DEF Carries, Does
        <5>3. worker[v].revision \in Nat /\ row.revision \in Nat
          <6>1. worker[v] \in InFlight /\ row \in Row
            BY <1>9, <4>2 DEF Alive, IInv, TypeOK, Busy
          <6> QED BY <6>1 DEF InFlight, Row
        <5> QED BY <5>1, <5>2, <5>3
      <4> QED BY <3>2, <4>1, <4>2
    <3> QED BY <3>1, <3>2
  <2>5. Pure'
    BY <1>1, <1>6, <1>9 DEF IInv, Pure, PurposesOfOneGeneration
  <2> QED BY <2>1, <2>3, <2>4, <2>5 DEF IInv, Order
<1>10. CASE Alive(i) /\ f.revision = row.revision /\ row' = [row EXCEPT !.indexed = f.revision]
  <2>1. row \in Row /\ row.revision \in 0..MaxRevision /\ row # NoRow /\ row.id = i
    BY <1>10 DEF Alive, IInv, TypeOK, Row
  <2>2. /\ row' \in Row /\ row'.id = row.id /\ row'.revision = row.revision
        /\ row'.indexed = row.revision /\ row'.status = row.status /\ row'.reason = row.reason
        /\ row'.epoch = row.epoch /\ row'.purposes = row.purposes
    BY <1>10, <2>1 DEF Row
  <2>3. row' # NoRow
    BY <2>2, Apart
  <2>4. TypeOK'
    BY <1>1, <1>5, <2>1, <2>2 DEF IInv, TypeOK
  <2>5. \A j : Alive(j)' <=> Alive(j)
    BY <2>1, <2>2, <2>3 DEF Alive
  <2>6. /\ \A d : Fits(row, d) => Fits(row', d)
        /\ \A x : Carries(x, row) => Carries(x, row')
    BY <2>2 DEF Fits, Carries, Does
  <2>7. Numbered' /\ Loaded'
    BY <1>1, <1>6, <2>1, <2>2, <2>5, <2>6 DEF IInv, Order, Numbered, Loaded
  <2>8. Versions'
    BY <1>1, <1>7, <2>1, <2>2, <2>6 DEF IInv, Order, Versions
  <2>9. Synced'
    BY <1>1, <1>8, <1>10, <2>1, <2>2, <2>6 DEF Synced
  <2>10. Gone'
    BY <1>1, <1>6, <2>5 DEF IInv, Order, Gone
  <2>11. Pure'
    BY <1>1, <1>6, <2>1, <2>2 DEF IInv, Pure, PurposesOfOneGeneration
  <2> QED BY <2>4, <2>7, <2>8, <2>9, <2>10, <2>11 DEF IInv, Order
<1> QED BY <1>2, <1>4, <1>9, <1>10

-----------------------------------------------------------------------------
LEMMA InvStep ==
  ASSUME IInv, [Next]_vars
  PROVE  IInv'
<1>1. CASE UNCHANGED vars
  <2>1. TypeOK'
    BY <1>1 DEF vars, IInv, TypeOK
  <2>2. Order'
    BY <1>1, OrderOfMessages DEF vars, IInv, Order, Numbered
  <2>3. Pure'
    BY <1>1, PureAsBefore DEF vars, IInv
  <2> QED BY <2>1, <2>2, <2>3 DEF IInv
<1>2. ASSUME NEW c \in Recorders, Ask(c) \/ Upsert(c) \/ Forget(c) PROVE IInv'
  BY <1>2, ReadsKept, UpsertKept
<1>3. CASE RotateEpoch
  <2>1. TypeOK'
    BY <1>3 DEF RotateEpoch, IInv, TypeOK
  <2>2. Order'
    BY <1>3, OrderOfMessages DEF RotateEpoch, IInv, Order, Numbered
  <2>3. Pure'
    BY <1>3, PureAsBefore DEF RotateEpoch, IInv
  <2> QED BY <2>1, <2>2, <2>3 DEF IInv
<1>4. ASSUME NEW w \in Workers, Load(w) \/ Write(w) \/ Commit(w) \/ Abort(w) PROVE IInv'
  BY <1>4, LoadKept, WriteKept, CommitKept, AbortKept
<1>5. ASSUME NEW i \in Ids, ExpireTombstone(i) PROVE IInv'
  BY <1>5, ExpireKept
<1> QED BY <1>1, <1>2, <1>3, <1>4, <1>5, AdministrationKept, RecallKept DEF Next

THEOREM Invariance == Spec => []IInv
<1>1. Init => IInv
  BY InvInit
<1>2. IInv /\ [Next]_vars => IInv'
  BY InvStep
<1> QED BY <1>1, <1>2, PTL DEF Spec

(* Types, and the constraint on status and reason of a row.                *)
THEOREM TypeCorrect == Spec => []TypeOK
<1>1. IInv => TypeOK
  BY DEF IInv
<1> QED BY <1>1, Invariance, PTL

(* A row that has caught up is projected exactly and a row that has gone   *)
(* leaves no document, whichever late worker writes last.                  *)
THEOREM ProjectionExact == Spec => []ProjectionIsExact
<1>1. IInv => ProjectionIsExact
  <2> SUFFICES ASSUME IInv PROVE ProjectionIsExact
    OBVIOUS
  <2>1. SyncedMeansProjected
    BY DEF IInv, Order, Synced, Fits, SyncedMeansProjected
  <2>2. DeletedLeavesNoDocument
    BY DEF IInv, Order, Gone, Alive, DeletedLeavesNoDocument
  <2> QED BY <2>1, <2>2 DEF ProjectionIsExact
<1> QED BY <1>1, Invariance, PTL

(* No purpose reaches a row or a document of another generation.           *)
THEOREM PurposesPure == Spec => []PurposesOfOneGeneration
<1>1. IInv => PurposesOfOneGeneration
  BY DEF IInv, Pure
<1> QED BY <1>1, Invariance, PTL

(* No success, import, recall or sync brings back what an administrator    *)
(* disabled or what is being deleted.                                      *)
THEOREM AdministrationFinal == Spec => AdministrationIsFinal
<1> DEFINE Final ==
      row # NoRow =>
        /\ row.reason = "admin" => row' = NoRow \/ row'.reason = "admin"
                                                \/ row'.status = "deleting"
        /\ row.status = "deleting" => row' = NoRow \/ row'.status = "deleting"
<1>1. IInv /\ [Next]_vars => [Final]_vars
  <2> SUFFICES ASSUME IInv, Next, row # NoRow PROVE Final
    OBVIOUS
  <2>0. row \in Row /\ ((row.status = "disabled") = (row.reason # "none"))
    BY DEF IInv, TypeOK
  <2>1. ASSUME NEW c \in Recorders, Upsert(c) PROVE Final
    BY <2>0, <2>1 DEF Upsert, Refreshed, Reactivates, Row
  <2>2. CASE DisableForMetadataChange \/ Disable \/ RequestDeletion
    BY <2>0, <2>2 DEF DisableForMetadataChange, Disable, RequestDeletion, Row
  <2>3. ASSUME NEW w \in Workers, Commit(w) PROVE Final
    BY <2>0, <2>3 DEF Commit, Marked, Finalised, Row
  <2> QED BY <2>1, <2>2, <2>3
       DEF Next, Ask, Forget, RotateEpoch, Recall, Load, Write, Abort, Repair, ExpireTombstone
<1> QED BY <1>1, Invariance, PTL DEF Spec, AdministrationIsFinal

-----------------------------------------------------------------------------
(* The contexts of a Conversation.                                         *)

\* What a context is.
Terms == {AnyTerm} \cup {s.term : s \in UNION Requests}
Scope == [type : {"column", "metric", "value"}, term : Terms]
Snapshot == [column : Columns, version : Nat, ref : SUBSET Columns]
TableContext == [table : Tables, keys : SUBSET Columns]
Experience == [id : Experiences, at : Nat, since : Nat]
ContextRecord ==
  [columns : SUBSET Snapshot, metrics : SUBSET Metrics, values : SUBSET Values,
   tables : SUBSET TableContext, failures : SUBSET Scope, asked : SUBSET Scope,
   found : SUBSET Scope, truncated : BOOLEAN,
   exps : SUBSET Experience, retrieved : Nat, scope : Nat]

\* What ContextHangsTogether says of one context.
HangsTogether(r) ==
  /\ \A v \in r.values : Owner[v] \in ColumnsOf(r)
  /\ ~r.truncated => \A m \in r.metrics : Uses[m] \subseteq ColumnsOf(r)
  /\ TablesOf(ColumnsOf(r)) \subseteq {x.table : x \in r.tables}
  /\ \A x \in r.tables : x.keys \subseteq ColumnsOf(r)

\* A context has one snapshot of a column.
OneEach(columns) == \A x, y \in columns : x.column = y.column => x = y

\* Its experiences were found together, under the epoch it bears.
FoundTogether(r) == \A e \in r.exps : e.since = r.scope /\ e.at = r.retrieved

Contexts ==
  {r \in ContextRecord : HangsTogether(r) /\ r.asked \subseteq r.found \cup r.failures
                           /\ OneEach(r.columns) /\ FoundTogether(r)}

-----------------------------------------------------------------------------
(* Policies and filters.                                                   *)

\* The table of a column that is allowed is seen.
LEMMA TableOfAllowed ==
  ASSUME NEW p \in Policies, NEW x, Allows(p, x)
  PROVE  IsVisible(p, TableAsset(x.table))
<1>1. PICK own \in p : Encompasses(own, x)
  BY DEF Allows
<1>2. own.table = Whole => own.column = Whole
  BY RecallAssumption
<1>3. CASE own.table = Whole
  BY <1>1, <1>2, <1>3 DEF IsVisible, Allows, Encompasses, TableAsset
<1>4. CASE own.table = x.table
  BY <1>4 DEF IsVisible, Encompasses, TableAsset
<1> QED BY <1>1, <1>3, <1>4 DEF Encompasses

\* A metric that is allowed uses columns that are.
LEMMA MetricColumns ==
  ASSUME NEW p, NEW m \in Metrics, MetricAllowed(p, Uses[m], Columns)
  PROVE  Uses[m] \subseteq AllowedColumns(p, Columns)
BY DEF MetricAllowed

\* What a filter makes of each part.
LEMMA FilterParts ==
  ASSUME NEW p \in Policies, NEW r \in ContextRecord
  PROVE  LET f == FilterResponse(p, r) IN
         /\ f \in ContextRecord
         /\ f.columns = {[x EXCEPT !.ref = FilterRef(p, @)] :
                           x \in {y \in r.columns : Allows(p, y.column)}}
         /\ f.metrics = {m \in r.metrics : MetricAllowed(p, Uses[m], Columns)}
         /\ f.values = {v \in r.values : Allows(p, Owner[v])}
         /\ f.tables = {[x EXCEPT !.keys = AllowedColumns(p, @)] :
                   x \in {y \in r.tables : IsVisible(p, TableAsset(y.table))}}
         /\ f.failures = r.failures /\ f.asked = r.asked /\ f.found = r.found
         /\ f.truncated = r.truncated
         /\ f.exps = r.exps /\ f.retrieved = r.retrieved /\ f.scope = r.scope
<1> DEFINE columns == {[x EXCEPT !.ref = FilterRef(p, @)] :
                          x \in {y \in r.columns : Allows(p, y.column)}}
           metrics == {m \in r.metrics : MetricAllowed(p, Uses[m], Columns)}
           values == {v \in r.values : Allows(p, Owner[v])}
           tables == {[x EXCEPT !.keys = AllowedColumns(p, @)] :
                   x \in {y \in r.tables : IsVisible(p, TableAsset(y.table))}}
<1>1. columns \subseteq Snapshot
  <2> SUFFICES ASSUME NEW x \in r.columns PROVE [x EXCEPT !.ref = FilterRef(p, @)] \in Snapshot
    OBVIOUS
  <2>1. x \in Snapshot
    BY DEF ContextRecord
  <2>2. FilterRef(p, x.ref) \subseteq Columns
    BY <2>1 DEF FilterRef, AllowedColumns, Snapshot
  <2> QED BY <2>1, <2>2 DEF Snapshot
<1>2. tables \subseteq TableContext
  <2> SUFFICES ASSUME NEW x \in r.tables
               PROVE  [x EXCEPT !.keys = AllowedColumns(p, @)] \in TableContext
    OBVIOUS
  <2>1. x \in TableContext
    BY DEF ContextRecord
  <2>2. AllowedColumns(p, x.keys) \subseteq Columns
    BY <2>1 DEF AllowedColumns, TableContext
  <2> QED BY <2>1, <2>2 DEF TableContext
<1>3. metrics \subseteq r.metrics /\ values \subseteq r.values
  OBVIOUS
<1>4. FilterResponse(p, r) = [r EXCEPT !.columns = columns, !.metrics = metrics,
                                      !.values = values, !.tables = tables]
  BY DEF FilterResponse, ContextRecord
<1> HIDE DEF columns, metrics, values, tables
<1>5. LET f == FilterResponse(p, r) IN
      /\ f \in ContextRecord
      /\ f.columns = columns /\ f.metrics = metrics /\ f.values = values /\ f.tables = tables
      /\ f.failures = r.failures /\ f.asked = r.asked /\ f.found = r.found
      /\ f.truncated = r.truncated
      /\ f.exps = r.exps /\ f.retrieved = r.retrieved /\ f.scope = r.scope
  BY <1>1, <1>2, <1>3, <1>4, ZenonT(60) DEF ContextRecord
<1> QED BY <1>5 DEF columns, metrics, values, tables

\* The columns of a filtered context.
LEMMA FilterColumns ==
  ASSUME NEW p \in Policies, NEW r \in ContextRecord
  PROVE  /\ ColumnsOf(FilterResponse(p, r)) = {y \in ColumnsOf(r) : Allows(p, y)}
         /\ \A x \in FilterResponse(p, r).columns : \E y \in r.columns :
               /\ x.column = y.column /\ x.version = y.version /\ Allows(p, y.column)
               /\ \A z \in x.ref : Allows(p, z)
               /\ x = [y EXCEPT !.ref = FilterRef(p, @)]
         /\ \A y \in r.columns : Allows(p, y.column) =>
               \E x \in FilterResponse(p, r).columns : x.column = y.column /\ x.version = y.version
<1> PICK f : f = FilterResponse(p, r)
  OBVIOUS
<1>1. f.columns = {[x EXCEPT !.ref = FilterRef(p, @)] :
                           x \in {y \in r.columns : Allows(p, y.column)}}
  BY FilterParts
<1>2. \A y \in r.columns : LET x == [y EXCEPT !.ref = FilterRef(p, @)] IN
         x.column = y.column /\ x.version = y.version /\ x.ref = FilterRef(p, y.ref)
  BY DEF ContextRecord, Snapshot
<1>3. \A x \in f.columns : \E y \in r.columns :
         /\ x.column = y.column /\ x.version = y.version /\ Allows(p, y.column)
         /\ \A z \in x.ref : Allows(p, z)
         /\ x = [y EXCEPT !.ref = FilterRef(p, @)]
  BY <1>1, <1>2, ZenonT(60) DEF FilterRef, AllowedColumns
<1>4. \A y \in r.columns : Allows(p, y.column) =>
               \E x \in f.columns : x.column = y.column /\ x.version = y.version
  BY <1>1, <1>2
<1>5. ColumnsOf(f) = {y \in ColumnsOf(r) : Allows(p, y)}
  BY <1>3, <1>4 DEF ColumnsOf
<1> QED BY <1>3, <1>4, <1>5

\* A filtered context is a context.
LEMMA FilterKeeps ==
  ASSUME NEW p \in Policies, NEW r \in Contexts
  PROVE  FilterResponse(p, r) \in Contexts
<1> PICK f : f = FilterResponse(p, r)
  OBVIOUS
<1>0. r \in ContextRecord /\ HangsTogether(r) /\ OneEach(r.columns) /\ FoundTogether(r)
  BY DEF Contexts
<1>1. /\ f \in ContextRecord
      /\ f.metrics = {m \in r.metrics : MetricAllowed(p, Uses[m], Columns)}
      /\ f.values = {v \in r.values : Allows(p, Owner[v])}
      /\ f.tables = {[x EXCEPT !.keys = AllowedColumns(p, @)] :
                x \in {y \in r.tables : IsVisible(p, TableAsset(y.table))}}
      /\ f.failures = r.failures /\ f.asked = r.asked /\ f.found = r.found
      /\ f.truncated = r.truncated
      /\ f.exps = r.exps /\ f.retrieved = r.retrieved /\ f.scope = r.scope
  BY <1>0, FilterParts
<1>2. ColumnsOf(f) = {y \in ColumnsOf(r) : Allows(p, y)}
  BY <1>0, FilterColumns
<1>3. \A x \in f.columns : \E y \in r.columns :
         x.column = y.column /\ x = [y EXCEPT !.ref = FilterRef(p, @)]
  BY <1>0, FilterColumns
<1>4. OneEach(f.columns)
  BY <1>0, <1>3 DEF OneEach
<1>5. HangsTogether(f)
  <2>1. \A v \in f.values : Owner[v] \in ColumnsOf(f)
    BY <1>0, <1>1, <1>2 DEF HangsTogether
  <2>2. ~f.truncated => \A m \in f.metrics : Uses[m] \subseteq ColumnsOf(f)
    <3> SUFFICES ASSUME ~f.truncated, NEW m \in f.metrics PROVE Uses[m] \subseteq ColumnsOf(f)
      OBVIOUS
    <3>1. m \in Metrics /\ m \in r.metrics /\ MetricAllowed(p, Uses[m], Columns)
      BY <1>0, <1>1 DEF ContextRecord
    <3>2. Uses[m] \subseteq ColumnsOf(r)
      BY <1>0, <1>1, <3>1 DEF HangsTogether
    <3> QED BY <1>2, <3>1, <3>2, MetricColumns DEF AllowedColumns
  <2>3. TablesOf(ColumnsOf(f)) \subseteq {x.table : x \in f.tables}
    <3> SUFFICES ASSUME NEW y \in ColumnsOf(r), Allows(p, y)
                 PROVE  y.table \in {x.table : x \in f.tables}
      BY <1>2 DEF TablesOf
    <3>1. PICK x \in r.tables : x.table = y.table
      BY <1>0 DEF HangsTogether, TablesOf
    <3>2. IsVisible(p, TableAsset(x.table))
      BY <3>1, TableOfAllowed
    <3>3. [x EXCEPT !.keys = AllowedColumns(p, @)] \in f.tables
      BY <1>1, <3>2
    <3>4. [x EXCEPT !.keys = AllowedColumns(p, @)].table = x.table
      BY <1>0 DEF ContextRecord, TableContext
    <3> QED BY <3>1, <3>3, <3>4
  <2>4. \A x \in f.tables : x.keys \subseteq ColumnsOf(f)
    <3> SUFFICES ASSUME NEW y \in r.tables
                 PROVE  [y EXCEPT !.keys = AllowedColumns(p, @)].keys \subseteq ColumnsOf(f)
      BY <1>1
    <3>1. [y EXCEPT !.keys = AllowedColumns(p, @)].keys = AllowedColumns(p, y.keys)
      BY <1>0 DEF ContextRecord, TableContext
    <3>2. y.keys \subseteq ColumnsOf(r)
      BY <1>0 DEF HangsTogether
    <3> QED BY <1>2, <3>1, <3>2 DEF AllowedColumns
  <2> QED BY <2>1, <2>2, <2>3, <2>4 DEF HangsTogether
<1>6. FoundTogether(f)
  BY <1>0, <1>1 DEF FoundTogether
<1>7. f.asked \subseteq f.found \cup f.failures
  BY <1>1 DEF Contexts
<1> QED BY <1>1, <1>4, <1>5, <1>6, <1>7 DEF Contexts

\* A context with other experiences of its epoch and moment is a context.
LEMMA NewExperiences ==
  ASSUME NEW r \in Contexts, NEW exps \in SUBSET r.exps
  PROVE  /\ [r EXCEPT !.exps = exps] \in Contexts
         /\ LET n == [r EXCEPT !.exps = exps] IN
            /\ n.exps = exps /\ n.columns = r.columns /\ n.metrics = r.metrics
            /\ n.values = r.values /\ n.tables = r.tables /\ n.asked = r.asked
            /\ n.scope = r.scope /\ n.retrieved = r.retrieved
<1> PICK n : n = [r EXCEPT !.exps = exps]
  OBVIOUS
<1>0. r \in ContextRecord
  BY DEF Contexts
<1>1. /\ n \in ContextRecord
      /\ n.exps = exps /\ n.columns = r.columns /\ n.metrics = r.metrics
      /\ n.values = r.values /\ n.tables = r.tables /\ n.asked = r.asked
      /\ n.scope = r.scope /\ n.retrieved = r.retrieved
      /\ n.found = r.found /\ n.failures = r.failures /\ n.truncated = r.truncated
  BY <1>0 DEF ContextRecord
<1>2. ColumnsOf(n) = ColumnsOf(r)
  BY <1>1 DEF ColumnsOf
<1>3. HangsTogether(n) /\ OneEach(n.columns) /\ FoundTogether(n)
  BY <1>1, <1>2 DEF Contexts, HangsTogether, FoundTogether
<1>4. n.asked \subseteq n.found \cup n.failures
  BY <1>1 DEF Contexts
<1> QED BY <1>1, <1>3, <1>4 DEF Contexts

\* What a reader is given of a context is a context too, with the columns,
\* metrics and values of the filtered one.
LEMMA AuthorizedKeeps ==
  ASSUME NEW p \in Policies, NEW since, NEW r \in Contexts
  PROVE  LET a == Authorized(p, since, r)
             f == FilterResponse(p, r) IN
         /\ a \in Contexts
         /\ a.exps \subseteq r.exps /\ (r.scope # since => a.exps = {})
         /\ \A e \in a.exps : ExperienceAllowed(p, Assets[e.id])
         /\ a.columns = f.columns /\ a.metrics = f.metrics
         /\ a.values = f.values /\ a.tables = f.tables
         /\ a.scope = r.scope /\ a.retrieved = r.retrieved
<1> PICK f : f = FilterResponse(p, r)
  OBVIOUS
<1> DEFINE exps == IF r.scope = since
                   THEN {e \in f.exps : ExperienceAllowed(p, Assets[e.id])} ELSE {}
<1>1. r \in ContextRecord
  BY DEF Contexts
<1>2. f \in Contexts /\ f.exps = r.exps /\ f.scope = r.scope /\ f.retrieved = r.retrieved
  BY <1>1, FilterKeeps, FilterParts
<1>3. exps \in SUBSET f.exps
  OBVIOUS
<1>4. f \in ContextRecord
  BY <1>2 DEF Contexts
<1>5. Authorized(p, since, r) = [f EXCEPT !.exps = exps]
  BY <1>4 DEF Authorized, ContextRecord
<1>6. /\ exps \subseteq r.exps /\ (r.scope # since => exps = {})
      /\ \A e \in exps : ExperienceAllowed(p, Assets[e.id])
  BY <1>2
<1> HIDE DEF exps
<1>7. LET n == [f EXCEPT !.exps = exps] IN
      /\ n \in Contexts /\ n.exps = exps /\ n.columns = f.columns /\ n.metrics = f.metrics
      /\ n.values = f.values /\ n.tables = f.tables
      /\ n.scope = f.scope /\ n.retrieved = f.retrieved
  BY <1>2, <1>3, NewExperiences
<1> QED BY <1>2, <1>5, <1>6, <1>7

\* What a reader is given names only what his policy allows.
Shows(p, since, r) ==
  /\ \A x \in r.columns : Allows(p, x.column) /\ \A y \in x.ref : Allows(p, y)
  /\ \A t \in r.tables : \A y \in t.keys : Allows(p, y)
  /\ \A m \in r.metrics : \A y \in Uses[m] : Allows(p, y)
  /\ \A v \in r.values : Allows(p, Owner[v])
  /\ \A e \in r.exps : e.since = since /\ ExperienceAllowed(p, Assets[e.id])

LEMMA AuthorizedShows ==
  ASSUME NEW p \in Policies, NEW since, NEW r \in Contexts
  PROVE  Shows(p, since, Authorized(p, since, r))
<1> DEFINE f == FilterResponse(p, r)
           a == Authorized(p, since, r)
<1>1. r \in ContextRecord /\ FoundTogether(r)
  BY DEF Contexts
<1>2. /\ a.columns = f.columns /\ a.metrics = f.metrics
      /\ a.values = f.values /\ a.tables = f.tables
      /\ a.exps \subseteq r.exps /\ (r.scope # since => a.exps = {})
      /\ \A e \in a.exps : ExperienceAllowed(p, Assets[e.id])
  BY AuthorizedKeeps
<1> HIDE DEF a
<1>3. \A e \in a.exps : e.since = since /\ ExperienceAllowed(p, Assets[e.id])
  BY <1>1, <1>2 DEF FoundTogether
<1>4. \A x \in a.columns : Allows(p, x.column) /\ \A y \in x.ref : Allows(p, y)
  BY <1>1, <1>2, FilterColumns
<1>5. \A t \in a.tables : \A y \in t.keys : Allows(p, y)
  <2>1. \A t \in r.tables :
          [t EXCEPT !.keys = AllowedColumns(p, @)].keys = AllowedColumns(p, t.keys)
    BY <1>1 DEF ContextRecord, TableContext
  <2>2. a.tables = {[t EXCEPT !.keys = AllowedColumns(p, @)] :
                      t \in {y \in r.tables : IsVisible(p, TableAsset(y.table))}}
    BY <1>1, <1>2, FilterParts, Zenon
  <2> QED BY <2>1, <2>2 DEF AllowedColumns
<1>6. \A m \in a.metrics : \A y \in Uses[m] : Allows(p, y)
  <2>1. /\ a.metrics = {m \in r.metrics : MetricAllowed(p, Uses[m], Columns)}
        /\ r.metrics \subseteq Metrics
    BY <1>1, <1>2, FilterParts DEF ContextRecord
  <2> QED BY <2>1, MetricColumns DEF AllowedColumns
<1>7. \A v \in a.values : Allows(p, Owner[v])
  BY <1>1, <1>2, FilterParts
<1>8. Shows(p, since, a)
  BY <1>3, <1>4, <1>5, <1>6, <1>7 DEF Shows
<1> QED BY <1>8 DEF a

-----------------------------------------------------------------------------
(* Merging.                                                                *)

\* Among the snapshots of two contexts the newest of each column is found.
LEMMA NewestFound ==
  ASSUME NEW a \in SUBSET Snapshot, NEW b \in SUBSET Snapshot, OneEach(a), OneEach(b),
         NEW x \in a \cup b
  PROVE  \E y \in Newest(a, b) : y.column = x.column /\ y.version >= x.version
<1>0. \A y \in a \cup b : y.version \in Nat
  BY DEF Snapshot
<1>1. ASSUME NEW s \in SUBSET Snapshot, NEW t \in SUBSET Snapshot, OneEach(s), OneEach(t),
             NEW z \in s, \A y \in s \cup t : y.version \in Nat
      PROVE  \E y \in s \cup t : /\ y.column = z.column /\ y.version >= z.version
                                 /\ \A w \in s \cup t :
                                      w.column = y.column => w.version <= y.version
  <2>1. CASE \E y \in t : y.column = z.column /\ y.version > z.version
    <3>1. PICK y \in t : y.column = z.column /\ y.version > z.version
      BY <2>1
    <3>2. \A w \in s : w.column = y.column => w.version <= y.version
      BY <1>1, <3>1 DEF OneEach
    <3>3. \A w \in t : w.column = y.column => w.version <= y.version
      BY <1>1, <3>1 DEF OneEach
    <3> QED BY <1>1, <3>1, <3>2, <3>3
  <2>2. CASE ~ \E y \in t : y.column = z.column /\ y.version > z.version
    <3>1. \A w \in s : w.column = z.column => w.version <= z.version
      BY <1>1 DEF OneEach
    <3>2. \A w \in t : w.column = z.column => w.version <= z.version
      BY <1>1, <2>2
    <3> QED BY <1>1, <3>1, <3>2
  <2> QED BY <2>1, <2>2
<1>2. CASE x \in a
  BY <1>0, <1>1, <1>2 DEF Newest
<1>3. CASE x \in b
  <2>1. \E y \in b \cup a : /\ y.column = x.column /\ y.version >= x.version
                            /\ \A w \in b \cup a : w.column = y.column => w.version <= y.version
    BY <1>0, <1>1, <1>3
  <2> QED BY <2>1 DEF Newest
<1> QED BY <1>2, <1>3

\* Merging columns keeps one snapshot of each, as new as any of them.
LEMMA MergedColumnsKeep ==
  ASSUME NEW a \in SUBSET Snapshot, NEW b \in SUBSET Snapshot, OneEach(a), OneEach(b),
         NEW s \in MergedColumns(a, b)
  PROVE  /\ s \subseteq a \cup b /\ OneEach(s)
         /\ \A x \in a \cup b : \E y \in s : y.column = x.column /\ y.version >= x.version
<1>1. /\ s \subseteq Newest(a, b)
      /\ \A x \in Newest(a, b) : \E y \in s : {z \in s : z.column = x.column} = {y}
  BY DEF MergedColumns
<1>2. s \subseteq a \cup b
  BY <1>1 DEF Newest
<1>3. OneEach(s)
  <2> SUFFICES ASSUME NEW x \in s, NEW y \in s, x.column = y.column PROVE x = y
    BY DEF OneEach
  <2>1. PICK w \in s : {z \in s : z.column = x.column} = {w}
    BY <1>1
  <2>2. x \in {z \in s : z.column = x.column} /\ y \in {z \in s : z.column = x.column}
    OBVIOUS
  <2> QED BY <2>1, <2>2
<1>4. ASSUME NEW x \in a \cup b PROVE \E y \in s : y.column = x.column /\ y.version >= x.version
  <2>1. PICK n \in Newest(a, b) : n.column = x.column /\ n.version >= x.version
    BY NewestFound
  <2>2. PICK y \in s : {z \in s : z.column = n.column} = {y}
    BY <1>1, <2>1
  <2>3. y.column = n.column
    BY <2>2
  <2>4. y.version >= n.version
    BY <1>1, <2>1, <2>3 DEF Newest
  <2>5. y.version \in Nat /\ n.version \in Nat /\ x.version \in Nat
    BY <1>1, <1>2, <2>1 DEF Newest, Snapshot
  <2> QED BY <2>1, <2>3, <2>4, <2>5
<1> QED BY <1>2, <1>3, <1>4

\* What was asked for before and is covered by what is asked for now, is asked
\* for now.
LEMMA RefreshedAsked ==
  ASSUME NEW request \in SUBSET Scope, NEW s \in Scope, IsRefreshed(s, request)
  PROVE  s \in Scopes(request)
<1>1. PICK q \in request : s.type = q.type /\ s.term \in {AnyTerm, q.term}
  BY DEF IsRefreshed
<1>2. s = [type |-> s.type, term |-> s.term] /\ q = [type |-> q.type, term |-> q.term]
  BY DEF Scope
<1>3. CASE s.term = q.term
  BY <1>1, <1>2, <1>3 DEF Scopes
<1>4. CASE s.term = AnyTerm
  BY <1>1, <1>2, <1>4 DEF Scopes, Types
<1> QED BY <1>1, <1>3, <1>4

\* Merging two contexts makes a context, which keeps what the earlier one had.
LEMMA MergesKeep ==
  ASSUME NEW old \in Contexts, NEW new \in Contexts,
         NEW request \in SUBSET Scope, Scopes(request) \subseteq new.asked,
         NEW merged \in Merges(old, new, request)
  PROVE  /\ merged \in Contexts
         /\ merged.exps = new.exps /\ merged.retrieved = new.retrieved
         /\ merged.scope = new.scope
         /\ old.metrics \subseteq merged.metrics /\ old.values \subseteq merged.values
         /\ \A x \in old.columns :
              \E y \in merged.columns : y.column = x.column /\ y.version >= x.version
<1>0. /\ old \in ContextRecord /\ HangsTogether(old) /\ OneEach(old.columns)
      /\ new \in ContextRecord /\ HangsTogether(new) /\ OneEach(new.columns)
      /\ FoundTogether(new)
      /\ old.asked \subseteq old.found \cup old.failures
      /\ new.asked \subseteq new.found \cup new.failures
  BY DEF Contexts
<1>1. /\ old.columns \in SUBSET Snapshot /\ new.columns \in SUBSET Snapshot
      /\ old.tables \in SUBSET TableContext /\ new.tables \in SUBSET TableContext
  BY <1>0 DEF ContextRecord
<1> DEFINE failures == MergedFailures(old.failures, new.failures, request)
           found == new.found \cup (old.found \ new.failures)
<1>2. PICK columns \in MergedColumns(old.columns, new.columns),
            tables \in MergedTables(old.tables, new.tables) :
        merged = [new EXCEPT !.columns = columns,
               !.metrics = @ \cup old.metrics, !.values = @ \cup old.values,
               !.tables = tables, !.failures = failures,
               !.asked = @ \cup old.asked, !.found = found,
               !.truncated = @ \/ old.truncated]
  <2>1. PICK kept \in [columns : MergedColumns(old.columns, new.columns),
                       tables : MergedTables(old.tables, new.tables)] :
          merged = [new EXCEPT !.columns = kept.columns,
                 !.metrics = @ \cup old.metrics, !.values = @ \cup old.values,
                 !.tables = kept.tables, !.failures = failures,
                 !.asked = @ \cup old.asked, !.found = found,
                 !.truncated = @ \/ old.truncated]
    BY Zenon DEF Merges
  <2>2. /\ kept.columns \in MergedColumns(old.columns, new.columns)
        /\ kept.tables \in MergedTables(old.tables, new.tables)
    OBVIOUS
  <2> HIDE DEF failures, found
  <2> QED BY <2>1, <2>2, Zenon
<1>3. /\ columns \subseteq old.columns \cup new.columns /\ OneEach(columns)
      /\ \A x \in old.columns \cup new.columns :
           \E y \in columns : y.column = x.column /\ y.version >= x.version
  BY <1>0, <1>1, MergedColumnsKeep
<1>4. tables \subseteq old.tables \cup new.tables
  BY <1>2 DEF MergedTables
<1>5. {x.table : x \in old.tables \cup new.tables} \subseteq {x.table : x \in tables}
  <2> SUFFICES ASSUME NEW x \in old.tables \cup new.tables
               PROVE  \E y \in tables : y.table = x.table
    OBVIOUS
  <2>1. PICK y \in tables : {z \in tables : z.table = x.table} = {y}
    BY <1>2 DEF MergedTables
  <2> QED BY <2>1
<1>6. new.failures \subseteq failures /\ failures \subseteq new.failures \cup old.failures
  BY DEF MergedFailures
<1>7. old.asked \cup new.asked \subseteq found \cup failures
  <2> SUFFICES ASSUME NEW s \in old.asked, s \notin new.asked PROVE s \in found \cup failures
    BY <1>0, <1>6
  <2>1. CASE s \in old.found
    BY <2>1, <1>6
  <2>2. CASE s \in old.failures
    <3>1. s \in Scope
      BY <1>0 DEF ContextRecord
    <3>2. ~IsRefreshed(s, request)
      BY <3>1, RefreshedAsked
    <3> QED BY <2>2, <3>2 DEF MergedFailures
  <2> QED BY <1>0, <2>1, <2>2
<1> HIDE DEF failures, found
<1>8. found \subseteq new.found \cup old.found
  BY DEF found
<1>9. /\ merged.columns = columns /\ merged.metrics = new.metrics \cup old.metrics
      /\ merged.values = new.values \cup old.values /\ merged.tables = tables
      /\ merged.failures = failures /\ merged.asked = new.asked \cup old.asked
      /\ merged.found = found /\ merged.truncated = (new.truncated \/ old.truncated)
      /\ merged.exps = new.exps /\ merged.retrieved = new.retrieved
      /\ merged.scope = new.scope
  BY <1>0, <1>2 DEF ContextRecord
<1>10. merged \in ContextRecord
  <2>1. merged = [columns |-> merged.columns, metrics |-> merged.metrics,
                  values |-> merged.values, tables |-> merged.tables,
                  failures |-> merged.failures, asked |-> merged.asked,
                  found |-> merged.found, truncated |-> merged.truncated,
                  exps |-> merged.exps, retrieved |-> merged.retrieved,
                  scope |-> merged.scope]
    BY <1>0, <1>2 DEF ContextRecord
  <2>2. /\ columns \subseteq Snapshot /\ tables \subseteq TableContext
        /\ failures \subseteq Scope /\ found \subseteq Scope
    BY <1>0, <1>1, <1>3, <1>4, <1>6, <1>8 DEF ContextRecord
  <2> QED BY <1>0, <1>9, <2>1, <2>2 DEF ContextRecord
<1>11. ColumnsOf(merged) = ColumnsOf(old) \cup ColumnsOf(new)
  BY <1>3, <1>9 DEF ColumnsOf
<1>12. HangsTogether(merged)
  <2>1. \A v \in merged.values : Owner[v] \in ColumnsOf(merged)
    BY <1>0, <1>9, <1>11 DEF HangsTogether
  <2>2. ~merged.truncated => \A m \in merged.metrics : Uses[m] \subseteq ColumnsOf(merged)
    <3> SUFFICES ASSUME ~merged.truncated, NEW m \in merged.metrics
                 PROVE  Uses[m] \subseteq ColumnsOf(merged)
      OBVIOUS
    <3>1. ~new.truncated /\ ~old.truncated
      BY <1>0, <1>9 DEF ContextRecord
    <3>2. m \in new.metrics \/ m \in old.metrics
      BY <1>9
    <3> QED BY <1>0, <1>11, <3>1, <3>2 DEF HangsTogether
  <2>3. TablesOf(ColumnsOf(merged)) \subseteq {x.table : x \in merged.tables}
    <3>1. TablesOf(ColumnsOf(merged)) = TablesOf(ColumnsOf(old)) \cup TablesOf(ColumnsOf(new))
      BY <1>11 DEF TablesOf
    <3> QED BY <1>0, <1>5, <1>9, <3>1 DEF HangsTogether
  <2>4. \A x \in merged.tables : x.keys \subseteq ColumnsOf(merged)
    BY <1>0, <1>4, <1>9, <1>11 DEF HangsTogether
  <2> QED BY <2>1, <2>2, <2>3, <2>4 DEF HangsTogether
<1>13. merged.asked \subseteq merged.found \cup merged.failures
  BY <1>7, <1>9
<1>14. OneEach(merged.columns) /\ FoundTogether(merged)
  BY <1>0, <1>3, <1>9 DEF FoundTogether
<1> QED BY <1>3, <1>9, <1>10, <1>12, <1>13, <1>14 DEF Contexts

\* A context may take the experiences of another.
LEMMA OtherExperiences ==
  ASSUME NEW r \in Contexts, NEW mine \in Contexts
  PROVE  [r EXCEPT !.exps = mine.exps, !.scope = mine.scope, !.retrieved = mine.retrieved]
           \in Contexts
<1> DEFINE n == [r EXCEPT !.exps = mine.exps, !.scope = mine.scope, !.retrieved = mine.retrieved]
<1>0. r \in ContextRecord /\ mine \in ContextRecord
  BY DEF Contexts
<1>1. /\ n \in ContextRecord
      /\ n.exps = mine.exps /\ n.columns = r.columns /\ n.metrics = r.metrics
      /\ n.values = r.values /\ n.tables = r.tables /\ n.asked = r.asked
      /\ n.scope = mine.scope /\ n.retrieved = mine.retrieved
      /\ n.found = r.found /\ n.failures = r.failures /\ n.truncated = r.truncated
  BY <1>0 DEF ContextRecord
<1> HIDE DEF n
<1>2. ColumnsOf(n) = ColumnsOf(r)
  BY <1>1 DEF ColumnsOf
<1>3. HangsTogether(n) /\ OneEach(n.columns)
  BY <1>1, <1>2 DEF Contexts, HangsTogether
<1>4. FoundTogether(n)
  BY <1>1 DEF Contexts, FoundTogether
<1>5. n.asked \subseteq n.found \cup n.failures
  BY <1>1 DEF Contexts
<1>6. n \in Contexts
  BY <1>1, <1>3, <1>4, <1>5 DEF Contexts
<1> QED BY <1>6 DEF n

-----------------------------------------------------------------------------
(* Pruning.                                                                *)

\* What removing the dependents of lost columns leaves of each part.
LEMMA DependentsParts ==
  ASSUME NEW r \in ContextRecord, NEW left
  PROVE  LET n == RemoveDependents(r, left) IN
         /\ n \in ContextRecord
         /\ n.values = {v \in r.values : Owner[v] \in left}
         /\ n.metrics = {m \in r.metrics : Uses[m] \subseteq left}
         /\ n.columns = r.columns /\ n.tables = r.tables /\ n.exps = r.exps
         /\ n.asked = r.asked /\ n.found = r.found /\ n.failures = r.failures
         /\ n.truncated = r.truncated /\ n.scope = r.scope /\ n.retrieved = r.retrieved
<1> DEFINE values == {v \in r.values : Owner[v] \in left}
           metrics == {m \in r.metrics : Uses[m] \subseteq left}
<1>1. RemoveDependents(r, left) = [r EXCEPT !.values = values, !.metrics = metrics]
  BY DEF RemoveDependents, ContextRecord
<1>2. values \subseteq r.values /\ metrics \subseteq r.metrics
  OBVIOUS
<1> HIDE DEF values, metrics
<1>3. LET n == RemoveDependents(r, left) IN
      /\ n \in ContextRecord
      /\ n.values = values /\ n.metrics = metrics
      /\ n.columns = r.columns /\ n.tables = r.tables /\ n.exps = r.exps
      /\ n.asked = r.asked /\ n.found = r.found /\ n.failures = r.failures
      /\ n.truncated = r.truncated /\ n.scope = r.scope /\ n.retrieved = r.retrieved
  BY <1>1, <1>2 DEF ContextRecord
<1> QED BY <1>3 DEF values, metrics

\* A context with fewer metrics and values is a context.
LEMMA FewerKeep ==
  ASSUME NEW r \in Contexts, NEW n \in ContextRecord,
         n.values \subseteq r.values, n.metrics \subseteq r.metrics,
         n.columns = r.columns, n.tables = r.tables, n.exps \subseteq r.exps,
         n.asked = r.asked, n.found = r.found, n.failures = r.failures,
         n.truncated = r.truncated, n.scope = r.scope, n.retrieved = r.retrieved
  PROVE  n \in Contexts
<1>1. ColumnsOf(n) = ColumnsOf(r)
  BY DEF ColumnsOf
<1>2. HangsTogether(n)
  BY <1>1 DEF Contexts, HangsTogether
<1>3. OneEach(n.columns) /\ FoundTogether(n)
  BY DEF Contexts, FoundTogether
<1>4. n.asked \subseteq n.found \cup n.failures
  BY DEF Contexts
<1> QED BY <1>2, <1>3, <1>4 DEF Contexts

\* Removing columns takes along what depends on them.
LEMMA OnlyColumnsKeeps ==
  ASSUME NEW r \in Contexts, NEW left \in SUBSET ColumnsOf(r)
  PROVE  OnlyColumns(r, left) \in Contexts
<1> DEFINE columns == {[x EXCEPT !.ref = @ \cap left] : x \in {y \in r.columns : y.column \in left}}
           tables == {[x EXCEPT !.keys = @ \cap left] :
                        x \in {y \in r.tables : y.table \in TablesOf(left)}}
           kept == [r EXCEPT !.columns = columns, !.tables = tables]
           n == RemoveDependents(kept, left)
<1>0. /\ r \in ContextRecord /\ HangsTogether(r) /\ OneEach(r.columns) /\ FoundTogether(r)
      /\ r.asked \subseteq r.found \cup r.failures
  BY DEF Contexts
<1>1. OnlyColumns(r, left) = n
  <2>1. [r EXCEPT !.columns = {[x EXCEPT !.ref = @ \cap left] :
                                 x \in {y \in @ : y.column \in left}},
              !.tables = {[x EXCEPT !.keys = @ \cap left] :
                            x \in {y \in @ : y.table \in TablesOf(left)}}] = kept
    BY <1>0 DEF ContextRecord
  <2> QED BY <2>1, Zenon DEF OnlyColumns
<1>2. left \subseteq ColumnsOf(r)
  OBVIOUS
<1>3. \A y \in r.columns : LET x == [y EXCEPT !.ref = @ \cap left] IN
        x \in Snapshot /\ x.column = y.column /\ x.version = y.version
  BY <1>0 DEF ContextRecord, Snapshot
<1>4. \A y \in r.tables : LET x == [y EXCEPT !.keys = @ \cap left] IN
        x \in TableContext /\ x.table = y.table /\ x.keys = y.keys \cap left
  BY <1>0 DEF ContextRecord, TableContext
<1>5. columns \subseteq Snapshot /\ tables \subseteq TableContext
  BY <1>3, <1>4
<1>6. {x.column : x \in columns} = left
  <2>1. \A x \in columns : x.column \in left
    BY <1>3, Zenon
  <2>2. \A z \in left : \E x \in columns : x.column = z
    <3> SUFFICES ASSUME NEW z \in left PROVE \E x \in columns : x.column = z
      OBVIOUS
    <3>1. PICK y \in r.columns : y.column = z
      BY <1>2 DEF ColumnsOf
    <3>2. [y EXCEPT !.ref = @ \cap left] \in columns
      BY <3>1
    <3> QED BY <1>3, <3>1, <3>2, Zenon
  <2> HIDE DEF columns
  <2> QED BY <2>1, <2>2
<1>7. OneEach(columns)
  <2>1. \A x \in columns : \E y \in r.columns :
           x.column = y.column /\ x = [y EXCEPT !.ref = @ \cap left]
    BY <1>3, Zenon
  <2> HIDE DEF columns
  <2> QED BY <1>0, <2>1 DEF OneEach
<1>8. TablesOf(left) \subseteq {x.table : x \in tables}
  <2> SUFFICES ASSUME NEW z \in TablesOf(left) PROVE z \in {x.table : x \in tables}
    OBVIOUS
  <2>1. z \in TablesOf(ColumnsOf(r))
    BY <1>2 DEF TablesOf
  <2>2. PICK y \in r.tables : y.table = z
    BY <1>0, <2>1 DEF HangsTogether
  <2>3. [y EXCEPT !.keys = @ \cap left] \in tables
    BY <2>2
  <2> QED BY <1>4, <2>2, <2>3
<1>9. \A x \in tables : x.keys \subseteq left
  BY <1>4
<1> HIDE DEF columns, tables
<1>10. /\ kept \in ContextRecord
       /\ kept.columns = columns /\ kept.tables = tables
       /\ kept.values = r.values /\ kept.metrics = r.metrics /\ kept.exps = r.exps
       /\ kept.asked = r.asked /\ kept.found = r.found /\ kept.failures = r.failures
       /\ kept.truncated = r.truncated /\ kept.scope = r.scope
       /\ kept.retrieved = r.retrieved
  BY <1>0, <1>5 DEF ContextRecord
<1> HIDE DEF kept
<1>11. /\ n \in ContextRecord
       /\ n.values = {v \in kept.values : Owner[v] \in left}
       /\ n.metrics = {m \in kept.metrics : Uses[m] \subseteq left}
       /\ n.columns = columns /\ n.tables = tables /\ n.exps = r.exps
       /\ n.asked = r.asked /\ n.found = r.found /\ n.failures = r.failures
       /\ n.truncated = r.truncated /\ n.scope = r.scope /\ n.retrieved = r.retrieved
  BY <1>10, DependentsParts
<1> HIDE DEF n
<1>12. ColumnsOf(n) = left
  BY <1>6, <1>11 DEF ColumnsOf
<1>13. HangsTogether(n)
  BY <1>8, <1>9, <1>11, <1>12 DEF HangsTogether
<1>14. OneEach(n.columns) /\ FoundTogether(n)
  BY <1>0, <1>7, <1>11 DEF FoundTogether
<1>15. n.asked \subseteq n.found \cup n.failures
  BY <1>0, <1>11
<1> QED BY <1>1, <1>11, <1>13, <1>14, <1>15 DEF Contexts

\* Pruning a context leaves a context.
LEMMA PrunedKeeps ==
  ASSUME NEW r \in Contexts, NEW selector \in Selectors, "all" \notin DOMAIN selector
  PROVE  Pruned(r, selector) \in Contexts
<1>1. PICK rest \in Contexts : rest = OnlyColumns(r, ColumnsOf(r))
  BY OnlyColumnsKeeps
<1>2. rest \in ContextRecord
  BY DEF Contexts
<1>3. DOMAIN selector \in {{"asset"}, {"value"}, {"metric"}, {"experience"}}
  BY RecallAssumption
<1>4. CASE DOMAIN selector = {"asset"}
  <2>1. RemoveResources(r, selector.asset) \in Contexts
    BY OnlyColumnsKeeps DEF RemoveResources
  <2> QED BY <1>4, <2>1 DEF Pruned
<1>5. CASE DOMAIN selector = {"value"}
  <2>1. PICK n : n = [rest EXCEPT !.values = @ \ {selector.value}]
    OBVIOUS
  <2>2. /\ n \in ContextRecord
        /\ n.values \subseteq rest.values /\ n.metrics = rest.metrics
        /\ n.columns = rest.columns /\ n.tables = rest.tables /\ n.exps = rest.exps
        /\ n.asked = rest.asked /\ n.found = rest.found /\ n.failures = rest.failures
        /\ n.truncated = rest.truncated /\ n.scope = rest.scope
        /\ n.retrieved = rest.retrieved
    BY <1>2, <2>1 DEF ContextRecord
  <2>3. n \in Contexts
    BY <2>2, FewerKeep
  <2> QED BY <1>1, <1>5, <2>1, <2>3 DEF Pruned
<1>6. CASE DOMAIN selector = {"metric"}
  <2>1. PICK n : n = [rest EXCEPT !.metrics = @ \ {selector.metric}]
    OBVIOUS
  <2>2. /\ n \in ContextRecord
        /\ n.values = rest.values /\ n.metrics \subseteq rest.metrics
        /\ n.columns = rest.columns /\ n.tables = rest.tables /\ n.exps = rest.exps
        /\ n.asked = rest.asked /\ n.found = rest.found /\ n.failures = rest.failures
        /\ n.truncated = rest.truncated /\ n.scope = rest.scope
        /\ n.retrieved = rest.retrieved
    BY <1>2, <2>1 DEF ContextRecord
  <2>3. n \in Contexts
    BY <2>2, FewerKeep
  <2> QED BY <1>1, <1>6, <2>1, <2>3 DEF Pruned
<1>7. CASE DOMAIN selector = {"experience"}
  <2> DEFINE exps == {e \in rest.exps : e.id # selector.experience}
  <2>1. Pruned(r, selector) = [rest EXCEPT !.exps = exps]
    BY <1>1, <1>2, <1>7 DEF Pruned, ContextRecord
  <2>2. exps \in SUBSET rest.exps
    OBVIOUS
  <2> HIDE DEF exps
  <2> QED BY <2>1, <2>2, NewExperiences
<1> QED BY <1>3, <1>4, <1>5, <1>6, <1>7

-----------------------------------------------------------------------------
(* Searching.                                                              *)

\* What is asked for is a set of scopes.
LEMMA RequestScopes ==
  /\ \A request \in Requests : request \in SUBSET Scope
  /\ UNION Requests \in SUBSET Scope
  /\ \A request \in SUBSET Scope : Scopes(request) \subseteq Scope
<1>1. ASSUME NEW request \in Requests, NEW s \in request PROVE s \in Scope
  <2>1. s.term \in Terms
    BY DEF Terms
  <2>2. s \in [type : {"column", "metric", "value"}, term : {s.term}]
    BY RecallAssumption
  <2> QED BY <2>1, <2>2 DEF Scope
<1>2. \A request \in SUBSET Scope : Scopes(request) \subseteq Scope
  BY DEF Scopes, Types, Scope, Terms
<1> QED BY <1>1, <1>2

\* What fails to be searched for is a set of scopes.
LEMMA FailingScopes ==
  ASSUME NEW request \in SUBSET Scope, NEW seen, NEW metrics,
         NEW failures \in Failing(request, seen, metrics)
  PROVE  failures \subseteq Scope
<1> DEFINE searched == {s \in request : IF s.type = "metric" THEN metrics # {} ELSE seen # {}}
           embedded == Types(searched) \cap {"column", "metric"}
<1>1. failures \in {{}} \cup {{s} : s \in searched} \cup {[type : embedded, term : {AnyTerm}]}
  BY DEF Failing
<1>2. searched \subseteq request /\ embedded \subseteq {"column", "metric"}
  OBVIOUS
<1> HIDE DEF searched, embedded
<1>3. [type : embedded, term : {AnyTerm}] \subseteq Scope
  BY <1>2 DEF Scope, Terms
<1>4. \A s \in searched : {s} \subseteq Scope
  BY <1>2
<1> QED BY <1>1, <1>3, <1>4

\* What fits in is needed.
LEMMA FitNeeded ==
  ASSUME NEW direct, NEW needed, NEW fit \in Fitting(direct, needed)
  PROVE  fit \subseteq needed
BY DEF Fitting

\* What completes a set of columns is of the columns the policy allows.
LEMMA CompletedColumns ==
  ASSUME NEW seen \in SUBSET Columns, NEW ranked \in SUBSET Columns
  PROVE  LET all == WithPrimaryKeys(WithForeignKeys(ranked, seen), seen) IN
         /\ ranked \subseteq all /\ all \subseteq Columns
         /\ \A t \in TablesOf(all) : \A k \in Keys \cap seen : k.table = t => k \in all
<1> DEFINE fk == WithForeignKeys(ranked, seen)
           all == WithPrimaryKeys(fk, seen)
<1>1. ranked \subseteq fk /\ fk \subseteq Columns
  <2> DEFINE keys == {x \in seen : x.table \in TablesOf(ranked) /\ Refers[x] \cap seen # {}}
             refs == UNION {Refers[x] : x \in keys}
  <2>1. fk = ranked \cup keys \cup (refs \cap seen)
    BY Zenon DEF WithForeignKeys
  <2>2. keys \subseteq seen
    OBVIOUS
  <2> HIDE DEF keys, refs, fk
  <2> QED BY <2>1, <2>2
<1> HIDE DEF fk
<1>2. fk \subseteq all /\ all \subseteq Columns
  BY <1>1 DEF WithPrimaryKeys
<1>3. \A t \in TablesOf(all) : t \in TablesOf(fk)
  BY DEF WithPrimaryKeys, TablesOf
<1>4. \A t \in TablesOf(all) : \A k \in Keys \cap seen : k.table = t => k \in all
  BY <1>3 DEF WithPrimaryKeys
<1> QED BY <1>1, <1>2, <1>4 DEF fk

\* The snapshots of a set of columns, and the tables they come with.
LEMMA ShownOnce ==
  ASSUME NEW columns, NEW seen
  PROVE  /\ \A s \in Shown(columns, seen) : s.column \in columns
         /\ \A x \in columns : \E s \in Shown(columns, seen) : s.column = x
         /\ OneEach(Shown(columns, seen))
<1>1. \A s \in Shown(columns, seen) : s.column \in columns
        /\ s = [column |-> s.column, version |-> version[s.column],
                ref |-> Refers[s.column] \cap seen]
  <2> SUFFICES ASSUME NEW x \in columns, NEW s,
                      s = [column |-> x, version |-> version[x], ref |-> Refers[x] \cap seen]
               PROVE  s.column = x
    BY DEF Shown
  <2> QED OBVIOUS
<1>2. ASSUME NEW x \in columns PROVE \E s \in Shown(columns, seen) : s.column = x
  <2>1. [column |-> x, version |-> version[x], ref |-> Refers[x] \cap seen] \in Shown(columns, seen)
    BY DEF Shown
  <2> QED BY <2>1
<1>3. OneEach(Shown(columns, seen))
  BY <1>1, Zenon DEF OneEach
<1> QED BY <1>1, <1>2, <1>3

LEMMA ContextTables ==
  ASSUME NEW columns, NEW seen
  PROVE  /\ \A t \in Context(columns, seen) :
              /\ t.table \in TablesOf(columns)
              /\ t.keys = {k \in Keys \cap seen : k.table = t.table}
         /\ \A n \in TablesOf(columns) : \E t \in Context(columns, seen) : t.table = n
<1>1. \A t \in Context(columns, seen) :
        /\ t.table \in TablesOf(columns)
        /\ t.keys = {k \in Keys \cap seen : k.table = t.table}
  BY DEF Context
<1>2. ASSUME NEW n \in TablesOf(columns) PROVE \E t \in Context(columns, seen) : t.table = n
  <2>1. [table |-> n, keys |-> {k \in Keys \cap seen : k.table = n}] \in Context(columns, seen)
    BY DEF Context
  <2> QED BY <2>1
<1> QED BY <1>1, <1>2

\* What a response is made of: hits and needed columns the policy allows,
\* failures to search for what was asked, and experiences found together.
Searched(p, since, request, hit, fit, experienced) ==
  /\ since \in Nat /\ request \in SUBSET Scope /\ version \in [Columns -> Nat]
  /\ hit.columns \subseteq AllowedColumns(p, Columns) /\ hit.metrics \subseteq Metrics
  /\ hit.values \subseteq Values /\ hit.failures \subseteq Scope
  /\ fit \subseteq Needed(hit.metrics)
  /\ experienced.exps \subseteq Experience /\ experienced.retrieved \in Nat
  /\ \A e \in experienced.exps : e.since = since /\ e.at = experienced.retrieved

\* What a search answers is a context.
LEMMA ResponseKeeps ==
  ASSUME NEW p, NEW since, NEW request, NEW hit, NEW fit, NEW experienced,
         Searched(p, since, request, hit, fit, experienced)
  PROVE  LET r == Response(p, since, request, hit, fit, experienced) IN
         /\ r \in Contexts
         /\ r.scope = since /\ r.asked = Scopes(request)
         /\ r.exps = experienced.exps /\ r.retrieved = experienced.retrieved
<1> PICK r : r = Response(p, since, request, hit, fit, experienced)
  OBVIOUS
<1>0. /\ since \in Nat /\ request \in SUBSET Scope /\ version \in [Columns -> Nat]
      /\ hit.columns \subseteq AllowedColumns(p, Columns) /\ hit.metrics \subseteq Metrics
      /\ hit.values \subseteq Values /\ hit.failures \subseteq Scope
      /\ fit \subseteq Needed(hit.metrics)
      /\ experienced.exps \subseteq Experience /\ experienced.retrieved \in Nat
      /\ \A e \in experienced.exps : e.since = since /\ e.at = experienced.retrieved
  BY DEF Searched
<1> DEFINE seen == AllowedColumns(p, Columns)
           ranked == hit.columns \cup fit \cup {Owner[v] : v \in hit.values}
           all == WithPrimaryKeys(WithForeignKeys(ranked, seen), seen)
<1>1. seen \subseteq Columns
  BY DEF AllowedColumns
<1>2. Needed(hit.metrics) \subseteq Columns /\ {Owner[v] : v \in hit.values} \subseteq Columns
  BY <1>0, RecallAssumption DEF Needed
<1>3. ranked \in SUBSET Columns
  BY <1>0, <1>1, <1>2
<1>4. /\ hit.columns \cup fit \subseteq ranked /\ {Owner[v] : v \in hit.values} \subseteq ranked
  OBVIOUS
<1>5. r = [columns |-> Shown(all, seen), metrics |-> hit.metrics, values |-> hit.values,
           tables |-> Context(all, seen), failures |-> hit.failures, asked |-> Scopes(request),
           found |-> Scopes(request) \ hit.failures,
           truncated |-> Needed(hit.metrics) \ hit.columns # fit,
           exps |-> experienced.exps, retrieved |-> experienced.retrieved, scope |-> since]
  BY Zenon DEF Response
<1> HIDE DEF ranked
<1>6. /\ ranked \subseteq all /\ all \subseteq Columns
      /\ \A t \in TablesOf(all) : \A k \in Keys \cap seen : k.table = t => k \in all
  BY <1>1, <1>3, CompletedColumns
<1> HIDE DEF all, seen
<1>7. Shown(all, seen) \subseteq Snapshot
  BY <1>0, <1>1, <1>6, RecallAssumption DEF Shown, Snapshot
<1>8. Context(all, seen) \subseteq TableContext
  BY <1>1, <1>6 DEF Context, TablesOf, TableContext, Tables
<1>9. /\ r.columns = Shown(all, seen) /\ r.metrics = hit.metrics /\ r.values = hit.values
      /\ r.tables = Context(all, seen) /\ r.failures = hit.failures
      /\ r.asked = Scopes(request) /\ r.found = Scopes(request) \ hit.failures
      /\ r.truncated = (Needed(hit.metrics) \ hit.columns # fit)
      /\ r.exps = experienced.exps /\ r.retrieved = experienced.retrieved /\ r.scope = since
  BY <1>5
<1>10. r \in ContextRecord
  <2>1. Scopes(request) \subseteq Scope
    BY <1>0, RequestScopes
  <2> QED BY <1>0, <1>5, <1>7, <1>8, <2>1 DEF ContextRecord
<1>11. ColumnsOf(r) = all
  BY <1>9, ShownOnce DEF ColumnsOf
<1>12. HangsTogether(r)
  <2>1. \A v \in r.values : Owner[v] \in ColumnsOf(r)
    BY <1>4, <1>6, <1>9, <1>11
  <2>2. ~r.truncated => \A m \in r.metrics : Uses[m] \subseteq ColumnsOf(r)
    <3> SUFFICES ASSUME ~r.truncated, NEW m \in r.metrics, NEW x \in Uses[m]
                 PROVE  x \in ColumnsOf(r)
      OBVIOUS
    <3>1. x \in Needed(hit.metrics)
      BY <1>9 DEF Needed
    <3>2. x \in hit.columns \cup fit
      BY <1>9, <3>1
    <3> QED BY <1>4, <1>6, <1>11, <3>2
  <2>3. TablesOf(ColumnsOf(r)) \subseteq {x.table : x \in r.tables}
    <3>1. \A n \in TablesOf(all) : \E x \in r.tables : x.table = n
      BY <1>9, ContextTables
    <3> QED BY <1>11, <3>1
  <2>4. \A x \in r.tables : x.keys \subseteq ColumnsOf(r)
    BY <1>6, <1>9, <1>11, ContextTables
  <2> QED BY <2>1, <2>2, <2>3, <2>4 DEF HangsTogether
<1>13. OneEach(r.columns)
  BY <1>9, ShownOnce
<1>14. FoundTogether(r) /\ r.asked \subseteq r.found \cup r.failures
  BY <1>0, <1>9 DEF FoundTogether
<1>15. r \in Contexts
  BY <1>10, <1>12, <1>13, <1>14 DEF Contexts
<1> QED BY <1>9, <1>15

-----------------------------------------------------------------------------
(* The state.                                                              *)

\* A call that has begun.
Calling ==
  [kind : {"recall", "get", "merge", "delete"}, at : {"search", "read", "lock", "shown"},
   asked : Seq(Queries), wants : SUBSET Queries, policy : Policies, epoch : Nat,
   request : {{}} \cup Requests, selector : {NoSelector} \cup Selectors,
   result : {NoRecord} \cup Contexts, previous : {NoRecord} \cup Contexts, used : Nat]

\* What is asked of how many queries and in which phase.
Purpose(o) ==
  \/ /\ o.kind = "recall" /\ o.at \in {"search", "lock"}
     /\ Len(o.asked) = 1 /\ o.request \in Requests
  \/ o.kind = "get" /\ o.at \in {"read", "shown"} /\ Len(o.asked) = 1
  \/ o.kind = "merge" /\ o.at = "lock" /\ Len(o.asked) = 2 /\ o.asked[1] # o.asked[2]
  \/ o.kind = "delete" /\ o.at = "lock" /\ o.selector \in Selectors

\* What a search found covers what was asked for, under the epoch of the call,
\* and its experiences are not out of date.
IsFound(o) ==
  /\ o.result \in Contexts /\ o.result.scope = o.epoch
  /\ Scopes(o.request) \subseteq o.result.asked
  /\ \A e \in o.result.exps : o.used - e.at < TTL

CallSound(o) ==
  o # NoCall =>
    /\ o \in Calling /\ Purpose(o)
    /\ o.wants \subseteq ToSet(o.asked) /\ ToSet(o.asked) \subseteq Queries
    /\ o.at = "search" => o.wants = ToSet(o.asked)
    /\ o.kind = "recall" /\ o.at = "lock" => IsFound(o)
    /\ o.at = "shown" => o.result \in Contexts /\ Shows(o.policy, o.epoch, o.result)

RecallTypeOK ==
  /\ policy \in Policies /\ roleEpoch \in Nat /\ version \in [Columns -> Nat] /\ now \in Nat
  /\ record \in [Queries -> {NoRecord} \cup Contexts]
  /\ lock \in [Queries -> SUBSET Callers]
  /\ DOMAIN call = Callers
  /\ calls \in Nat

\* The queries a call has locked.
HeldBy(o) == IF o.at = "lock" THEN ToSet(o.asked) \ o.wants ELSE {}

\* A query is locked by the one call that has taken it, and a call takes its
\* queries in their order.
LocksHeld ==
  /\ \A c \in Callers : \A q \in Queries : c \in lock[q] <=> q \in HeldBy(call[c])
  /\ \A c, d \in Callers : \A q \in Queries :
       q \in HeldBy(call[c]) /\ q \in HeldBy(call[d]) => c = d
  /\ \A c \in Callers : \A h \in HeldBy(call[c]) : \A q \in call[c].wants : h < q

\* A call of recall_context that has its lock merges into what is stored.
MergesInto ==
  \A c \in Callers : Ready(c, "recall") => call[c].previous = record[call[c].asked[1]]

RecallInv ==
  /\ RecallTypeOK
  /\ \A c \in Callers : CallSound(call[c])
  /\ LocksHeld /\ MergesInto

LEMMA NoRecordApart == NoRecord \notin Contexts
<1>1. DOMAIN NoRecord = {"none"}
  BY DEF NoRecord
<1>2. \A r \in ContextRecord : "columns" \in DOMAIN r
  BY DEF ContextRecord
<1> QED BY <1>1, <1>2 DEF Contexts

LEMMA StoredContext ==
  ASSUME RecallTypeOK, NEW q \in Queries, record[q] # NoRecord
  PROVE  record[q] \in Contexts
BY DEF RecallTypeOK

\* A call that holds no lock and one that holds all it asked for.
LEMMA HeldByNone == HeldBy(NoCall) = {}
BY DEF HeldBy, NoCall

LEMMA HeldByReady ==
  ASSUME NEW c \in Callers, NEW kind, Ready(c, kind)
  PROVE  HeldBy(call[c]) = ToSet(call[c].asked) /\ call[c] # NoCall /\ call[c].kind = kind
BY DEF HeldBy, Ready, NoCall

\* The queries that are named.
LEMMA AskedOne ==
  ASSUME NEW q \in Queries
  PROVE  /\ <<q>> \in Seq(Queries) /\ Len(<<q>>) = 1 /\ <<q>>[1] = q
         /\ ToSet(<<q>>) = {q}
BY DEF ToSet

LEMMA AskedSet ==
  ASSUME NEW asked \in Seq(Queries)
  PROVE  /\ ToSet(asked) \subseteq Queries
         /\ Len(asked) = 1 => asked[1] \in Queries /\ ToSet(asked) = {asked[1]}
         /\ Len(asked) = 2 => /\ asked[1] \in Queries /\ asked[2] \in Queries
                              /\ ToSet(asked) = {asked[1], asked[2]}
<1>1. DOMAIN asked = 1 .. Len(asked) /\ Len(asked) \in Nat
  BY LenProperties
<1>2. \A i \in 1 .. Len(asked) : asked[i] \in Queries
  BY ElementOfSeq
<1>3. ToSet(asked) = {asked[i] : i \in 1 .. Len(asked)}
  BY <1>1 DEF ToSet
<1>4. CASE Len(asked) = 1
  <2>1. 1 .. Len(asked) = {1}
    BY <1>4
  <2> QED BY <1>2, <1>3, <1>4, <2>1
<1>5. CASE Len(asked) = 2
  <2>1. 1 .. Len(asked) = {1, 2}
    BY <1>5
  <2> QED BY <1>2, <1>3, <1>5, <2>1
<1>6. CASE Len(asked) \notin {1, 2}
  BY <1>2, <1>3, <1>6
<1> QED BY <1>4, <1>5, <1>6

\* However all queries are named, their names are a sequence.
LEMMA AllAsked ==
  ASSUME NEW asked \in SetToSeqs(Queries)
  PROVE  asked \in Seq(Queries)
<1>1. PICK last \in Queries : \A q \in Queries : q <= last
  BY RecallAssumption
<1>2. Queries \in SUBSET Nat /\ last \in Nat
  BY <1>1, RecallAssumption
<1>3. IsFiniteSet(Queries)
  BY <1>1, <1>2, FS_BoundedSetOfNaturals
<1>4. Cardinality(Queries) \in Nat
  BY <1>3, FS_CardinalityType
<1>5. asked \in [1 .. Cardinality(Queries) -> Queries]
  BY DEF SetToSeqs
<1> QED BY <1>4, <1>5, SeqDef

-----------------------------------------------------------------------------
(* The first state.                                                        *)

LEMMA FirstIsContext ==
  ASSUME NEW p \in Policies, version \in [Columns -> Nat]
  PROVE  First(p) \in Contexts
<1> DEFINE hit == [columns |-> {}, metrics |-> MetricsSeen(p), values |-> ValuesSeen(p),
                   failures |-> {}]
           found == [exps |-> [id : {e \in Experiences : ExperienceAllowed(p, Assets[e])},
                               at : {1}, since : {1}],
                     retrieved |-> 1]
<1>1. /\ hit.columns = {} /\ hit.metrics = MetricsSeen(p) /\ hit.values = ValuesSeen(p)
      /\ hit.failures = {}
  OBVIOUS
<1>2. MetricsSeen(p) \subseteq Metrics /\ ValuesSeen(p) \subseteq Values
  BY DEF MetricsSeen, ValuesSeen
<1>3. /\ found.exps \subseteq Experience /\ found.retrieved = 1
      /\ \A e \in found.exps : e.since = 1 /\ e.at = 1
  BY DEF Experience
<1>4. First(p) = Response(p, 1, UNION Requests, hit, Needed(MetricsSeen(p)), found)
  BY DEF First
<1> HIDE DEF hit, found
<1>5. UNION Requests \in SUBSET Scope
  BY RequestScopes
<1>6. Searched(p, 1, UNION Requests, hit, Needed(MetricsSeen(p)), found)
  BY <1>1, <1>2, <1>3, <1>5 DEF Searched
<1>7. Response(p, 1, UNION Requests, hit, Needed(MetricsSeen(p)), found) \in Contexts
  BY <1>6, ResponseKeeps
<1> QED BY <1>4, <1>7

LEMMA InitSound == RecallInit => RecallInv
<1> SUFFICES ASSUME RecallInit PROVE RecallInv
  OBVIOUS
<1>1. version \in [Columns -> Nat] /\ policy \in Policies
  BY DEF RecallInit
<1>2. First(policy) \in Contexts
  BY <1>1, FirstIsContext
<1>3. RecallTypeOK
  BY <1>1, <1>2 DEF RecallInit, RecallTypeOK
<1>4. \A c \in Callers : call[c] = NoCall
  BY DEF RecallInit
<1>5. LocksHeld
  BY <1>4, HeldByNone DEF RecallInit, LocksHeld
<1>6. MergesInto
  BY <1>4 DEF MergesInto, Ready, NoCall
<1> QED BY <1>3, <1>4, <1>5, <1>6 DEF RecallInv, CallSound

-----------------------------------------------------------------------------
(* What changes around the calls.                                          *)

LEMMA SurroundingsKeep ==
  ASSUME RecallInv, UNCHANGED <<record, lock, call, calls>>,
         policy' \in Policies, roleEpoch' \in Nat, version' \in [Columns -> Nat], now' \in Nat
  PROVE  RecallInv'
<1>1. RecallTypeOK'
  BY DEF RecallInv, RecallTypeOK
<1>2. LocksHeld'
  BY DEF RecallInv, LocksHeld
<1>3. MergesInto'
  BY DEF RecallInv, MergesInto, Ready
<1>4. \A c \in Callers : CallSound(call'[c])
  BY DEF RecallInv
<1> QED BY <1>1, <1>2, <1>3, <1>4 DEF RecallInv

LEMMA ChangesKeep ==
  ASSUME RecallInv,
         \/ \E p \in Policies : ChangePolicy(p)
         \/ \E x \in Columns : EditColumn(x)
         \/ Tick
  PROVE  RecallInv'
<1>0. policy \in Policies /\ roleEpoch \in Nat /\ version \in [Columns -> Nat] /\ now \in Nat
  BY DEF RecallInv, RecallTypeOK
<1>1. CASE \E p \in Policies : ChangePolicy(p)
  <2>1. /\ UNCHANGED <<record, lock, call, calls, version, now>>
        /\ policy' \in Policies /\ roleEpoch' \in Nat
    BY <1>0, <1>1 DEF ChangePolicy
  <2> QED BY <1>0, <2>1, SurroundingsKeep
<1>2. CASE \E x \in Columns : EditColumn(x)
  <2>1. /\ UNCHANGED <<record, lock, call, calls, policy, roleEpoch, now>>
        /\ version' \in [Columns -> Nat]
    BY <1>0, <1>2 DEF EditColumn
  <2> QED BY <1>0, <2>1, SurroundingsKeep
<1>3. CASE Tick
  <2>1. /\ UNCHANGED <<record, lock, call, calls, policy, roleEpoch, version>>
        /\ now' \in Nat
    BY <1>0, <1>3 DEF Tick
  <2> QED BY <1>0, <2>1, SurroundingsKeep
<1> QED BY <1>1, <1>2, <1>3

-----------------------------------------------------------------------------
(* What a call does without a lock.                                        *)

\* A step of a call that neither holds locks nor takes them.
LEMMA PhaseKeeps ==
  ASSUME RecallInv, NEW c \in Callers, NEW o,
         call' = [call EXCEPT ![c] = o], CallSound(o),
         HeldBy(call[c]) = {}, HeldBy(o) = {},
         ~ (o.at = "lock" /\ o.wants = {} /\ o.kind = "recall"),
         UNCHANGED <<policy, roleEpoch, version, now, record, lock>>, calls' \in Nat
  PROVE  RecallInv'
<1>1. /\ DOMAIN call' = Callers /\ call'[c] = o
      /\ \A d \in Callers \ {c} : call'[d] = call[d]
  BY DEF RecallInv, RecallTypeOK
<1>2. RecallTypeOK'
  BY <1>1 DEF RecallInv, RecallTypeOK
<1>3. \A d \in Callers : CallSound(call'[d])
  BY <1>1 DEF RecallInv
<1>4. \A d \in Callers : HeldBy(call'[d]) = HeldBy(call[d])
  BY <1>1
<1>5. LocksHeld'
  <2>1. \A d \in Callers : \A q \in Queries : d \in lock'[q] <=> q \in HeldBy(call'[d])
    BY <1>4 DEF RecallInv, LocksHeld
  <2>2. \A d, e \in Callers : \A q \in Queries :
           q \in HeldBy(call'[d]) /\ q \in HeldBy(call'[e]) => d = e
    BY <1>4 DEF RecallInv, LocksHeld
  <2>3. ASSUME NEW d \in Callers, NEW h \in HeldBy(call'[d]), NEW q \in call'[d].wants
        PROVE  h < q
    BY <1>1, <2>3 DEF RecallInv, LocksHeld
  <2> QED BY <2>1, <2>2, <2>3 DEF LocksHeld
<1>6. MergesInto'
  <2> SUFFICES ASSUME NEW d \in Callers, Ready(d, "recall")'
               PROVE  call'[d].previous = record'[call'[d].asked[1]]
    BY DEF MergesInto
  <2>1. d # c
    BY <1>1 DEF Ready
  <2>2. Ready(d, "recall")
    BY <1>1, <2>1 DEF Ready
  <2> QED BY <1>1, <2>1, <2>2 DEF RecallInv, MergesInto
<1> QED BY <1>2, <1>3, <1>5, <1>6 DEF RecallInv

\* A call begins.
LEMMA BeginKeeps ==
  ASSUME RecallInv, NEW c \in Callers, NEW kind, NEW at, NEW asked \in Seq(Queries),
         NEW request \in {{}} \cup Requests, NEW selector \in {NoSelector} \cup Selectors,
         Begin(c, kind, at, asked, request, selector),
         \/ /\ kind = "recall" /\ at = "search" /\ Len(asked) = 1 /\ request \in Requests
         \/ kind = "get" /\ at = "read" /\ Len(asked) = 1
         \/ kind = "merge" /\ at = "lock" /\ Len(asked) = 2 /\ asked[1] # asked[2]
         \/ kind = "delete" /\ at = "lock" /\ selector \in Selectors
  PROVE  RecallInv'
<1> DEFINE o == [kind |-> kind, at |-> at, asked |-> asked,
                wants |-> ToSet(asked), policy |-> policy, epoch |-> roleEpoch,
                request |-> request, selector |-> selector,
                result |-> NoRecord, previous |-> NoRecord, used |-> Never]
<1>1. /\ call[c] = NoCall /\ call' = [call EXCEPT ![c] = o]
      /\ calls' = calls + 1
      /\ UNCHANGED <<policy, roleEpoch, version, now, record, lock>>
  BY DEF Begin
<1>2. /\ o.kind = kind /\ o.at = at /\ o.asked = asked /\ o.wants = ToSet(asked)
      /\ o.policy = policy /\ o.epoch = roleEpoch /\ o.request = request
      /\ o.selector = selector
  OBVIOUS
<1>3. ToSet(asked) \subseteq Queries
  BY AskedSet
<1>4. o \in Calling
  BY <1>3 DEF Calling, RecallInv, RecallTypeOK, Never
<1> HIDE DEF o
<1>5. Purpose(o)
  BY <1>2 DEF Purpose
<1>6. CallSound(o)
  <2>1. ~ (o.kind = "recall" /\ o.at = "lock") /\ o.at # "shown"
    BY <1>2
  <2> QED BY <1>2, <1>3, <1>4, <1>5, <2>1 DEF CallSound
<1>7. HeldBy(call[c]) = {} /\ HeldBy(o) = {}
  BY <1>1, <1>2, HeldByNone DEF HeldBy
<1>8. ~ (o.at = "lock" /\ o.wants = {} /\ o.kind = "recall")
  BY <1>2
<1>9. calls' \in Nat
  BY <1>1 DEF RecallInv, RecallTypeOK
<1> QED BY <1>1, <1>6, <1>7, <1>8, <1>9, PhaseKeeps

LEMMA AskForKeeps ==
  ASSUME RecallInv, NEW c \in Callers, AskFor(c)
  PROVE  RecallInv'
<1>1. CASE \E q \in Queries : GetRecall(c, q)
  <2>1. PICK q \in Queries : Begin(c, "get", "read", <<q>>, {}, NoSelector)
    BY <1>1 DEF GetRecall
  <2> QED BY <2>1, AskedOne, BeginKeeps
<1>2. CASE \E q \in Queries : \E request \in Requests : RecallContext(c, q, request)
  <2>1. PICK q \in Queries, request \in Requests :
          Begin(c, "recall", "search", <<q>>, request, NoSelector)
    BY <1>2 DEF RecallContext
  <2> QED BY <2>1, AskedOne, BeginKeeps
<1>3. CASE \E target, source \in Queries : MergeRecalls(c, target, source)
  <2>1. PICK target \in Queries, source \in Queries :
          target # source /\ Begin(c, "merge", "lock", <<target, source>>, {}, NoSelector)
    BY <1>3 DEF MergeRecalls
  <2>2. PICK asked : asked = <<target, source>>
    OBVIOUS
  <2>3. asked \in Seq(Queries) /\ Len(asked) = 2 /\ asked[1] # asked[2]
    BY <2>1, <2>2
  <2> QED BY <2>1, <2>2, <2>3, BeginKeeps
<1>4. CASE \E asked \in SetToSeqs(Queries) \cup {<<q>> : q \in Queries}, selector \in Selectors :
             DeleteRecalls(c, asked, selector)
  <2>1. PICK asked \in SetToSeqs(Queries) \cup {<<q>> : q \in Queries}, selector \in Selectors :
          Begin(c, "delete", "lock", asked, {}, selector)
    BY <1>4 DEF DeleteRecalls
  <2>2. asked \in Seq(Queries)
    BY AllAsked, AskedOne
  <2> QED BY <2>1, <2>2, BeginKeeps
<1> QED BY <1>1, <1>2, <1>3, <1>4 DEF AskFor

\* get_recall shows what the policy it has read allows.
LEMMA ReadKeeps ==
  ASSUME RecallInv, NEW c \in Callers, Read(c)
  PROVE  RecallInv'
<1> PICK o : o = call[c]
  OBVIOUS
<1> PICK r : r = record[o.asked[1]]
  OBVIOUS
<1>1. /\ o.at = "read"
      /\ call' = [call EXCEPT ![c] = IF r = NoRecord THEN NoCall
           ELSE [o EXCEPT !.at = "shown", !.result = Authorized(o.policy, o.epoch, r)]]
      /\ UNCHANGED <<policy, roleEpoch, version, now, record, lock, calls>>
  BY DEF Read
<1>2. CallSound(o) /\ o # NoCall
  BY <1>1 DEF RecallInv, NoCall
<1>3. /\ o \in Calling /\ Purpose(o) /\ o.wants \subseteq ToSet(o.asked)
      /\ ToSet(o.asked) \subseteq Queries
  BY <1>2 DEF CallSound
<1>4. o.kind = "get" /\ Len(o.asked) = 1 /\ o.policy \in Policies
  BY <1>1, <1>3 DEF Purpose, Calling
<1>5. HeldBy(o) = {}
  BY <1>1 DEF HeldBy
<1>6. CASE r = NoRecord
  <2>1. CallSound(NoCall) /\ ~ (NoCall.at = "lock") /\ calls' \in Nat
    BY <1>1 DEF CallSound, NoCall, RecallInv, RecallTypeOK
  <2> QED BY <1>1, <1>5, <1>6, <2>1, HeldByNone, PhaseKeeps
<1>7. CASE r # NoRecord
  <2> DEFINE shown == Authorized(o.policy, o.epoch, r)
             n == [o EXCEPT !.at = "shown", !.result = shown]
  <2>1. r \in Contexts
    BY <1>3, <1>4, <1>7, AskedSet, StoredContext DEF RecallInv, Calling
  <2>2. shown \in Contexts /\ Shows(o.policy, o.epoch, shown)
    BY <1>4, <2>1, AuthorizedKeeps, AuthorizedShows
  <2> HIDE DEF shown
  <2>3. /\ n \in Calling /\ n.at = "shown" /\ n.result = shown /\ n.kind = "get"
        /\ n.asked = o.asked /\ n.wants = o.wants /\ n.policy = o.policy /\ n.epoch = o.epoch
    BY <1>3, <1>4, <2>2 DEF Calling
  <2>4. call' = [call EXCEPT ![c] = n]
    BY <1>1, <1>7 DEF shown
  <2> HIDE DEF n
  <2>5. CallSound(n)
    BY <1>3, <1>4, <2>2, <2>3 DEF CallSound, Purpose
  <2>6. HeldBy(n) = {} /\ ~ (n.at = "lock") /\ calls' \in Nat
    BY <1>1, <2>3 DEF HeldBy, RecallInv, RecallTypeOK
  <2> QED BY <1>1, <1>5, <2>4, <2>5, <2>6, PhaseKeeps
<1> QED BY <1>6, <1>7

\* The experiences of a search are of its epoch, and of this day.
LEMMA ExperiencedFound ==
  ASSUME RecallTypeOK, NEW p \in Policies, NEW since \in Nat, NEW q \in Queries,
         NEW found \in Experienced(p, since, record[q])
  PROVE  /\ found.exps \subseteq Experience /\ found.retrieved \in Nat
         /\ \A e \in found.exps : e.since = since /\ e.at = found.retrieved
         /\ \A e \in found.exps : now - e.at < TTL
<1> PICK r : r = record[q]
  OBVIOUS
<1>0. now \in Nat /\ TTL \in Nat \ {0}
  BY RecallAssumption DEF RecallTypeOK
<1>1. CASE IsFresh(r, since)
  <2>1. r # NoRecord /\ r.scope = since /\ now - r.retrieved < TTL
    BY <1>1 DEF IsFresh
  <2>2. r \in Contexts
    BY <2>1, StoredContext
  <2>3. r \in ContextRecord /\ FoundTogether(r)
    BY <2>2 DEF Contexts
  <2>4. found.exps = Authorized(p, since, r).exps /\ found.retrieved = r.retrieved
    BY <1>1 DEF Experienced, Stamp
  <2>5. found.exps \subseteq r.exps
    BY <2>2, <2>4, AuthorizedKeeps
  <2>6. r.exps \subseteq Experience /\ r.retrieved \in Nat
    BY <2>3 DEF ContextRecord
  <2>7. \A e \in found.exps : e.since = since /\ e.at = found.retrieved
    BY <2>1, <2>3, <2>4, <2>5 DEF FoundTogether
  <2>8. \A e \in found.exps : now - e.at < TTL
    BY <2>1, <2>4, <2>7
  <2> QED BY <2>4, <2>5, <2>6, <2>7, <2>8
<1>2. CASE ~ IsFresh(r, since)
  <2>1. found \in Looked(p, since)
    BY <1>2 DEF Experienced
  <2>2. CASE found \in [exps : {{}}, retrieved : {Never}]
    BY <2>2 DEF Never
  <2>3. CASE found \in [exps : {[id : exps, at : {now}, since : {since}] :
             exps \in SUBSET {e \in Experiences : ExperienceAllowed(p, Assets[e])}},
                        retrieved : {now}]
    <3>1. PICK ids \in SUBSET Experiences : found.exps = [id : ids, at : {now}, since : {since}]
      BY <2>3
    <3>2. found.retrieved = now
      BY <2>3
    <3>3. \A e \in found.exps : e \in Experience /\ e.since = since /\ e.at = now
      BY <1>0, <3>1 DEF Experience
    <3>4. \A e \in found.exps : now - e.at < TTL
      BY <1>0, <3>3
    <3> QED BY <1>0, <3>2, <3>3, <3>4
  <2> QED BY <2>1, <2>2, <2>3 DEF Looked
<1> QED BY <1>1, <1>2

\* A search leaves a context to be saved.
LEMMA SearchKeeps ==
  ASSUME RecallInv, NEW c \in Callers, Search(c)
  PROVE  RecallInv'
<1> PICK o : o = call[c]
  OBVIOUS
<1> DEFINE p == o.policy
           seen == AllowedColumns(p, Columns)
<1>1. /\ o.at = "search"
      /\ UNCHANGED <<policy, roleEpoch, version, now, record, lock, calls>>
  BY DEF Search
<1>2. CallSound(o) /\ o # NoCall
  BY <1>1 DEF RecallInv, NoCall
<1>3. /\ o \in Calling /\ Purpose(o) /\ o.wants = ToSet(o.asked)
      /\ ToSet(o.asked) \subseteq Queries
  BY <1>1, <1>2 DEF CallSound
<1>4. /\ o.kind = "recall" /\ Len(o.asked) = 1 /\ o.request \in Requests
      /\ p \in Policies /\ o.epoch \in Nat
  BY <1>1, <1>3 DEF Purpose, Calling
<1>5. o.asked[1] \in Queries /\ ToSet(o.asked) = {o.asked[1]}
  BY <1>3, <1>4, AskedSet DEF Calling
<1>6. PICK hit \in [columns : Hits("column" \in Types(o.request), seen),
                 metrics : Hits("metric" \in Types(o.request), MetricsSeen(p)),
                 values : Hits("value" \in Types(o.request), ValuesSeen(p)),
                 failures : Failing(o.request, seen, MetricsSeen(p))],
           experienced \in Experienced(p, o.epoch, record[o.asked[1]]) :
             \E fit \in Fitting(hit.columns, Needed(hit.metrics)) :
               call' = [call EXCEPT ![c].at = "lock", ![c].used = now,
                  ![c].result = Response(p, o.epoch, o.request, hit, fit, experienced)]
  BY DEF Search
<1>6a. PICK fit \in Fitting(hit.columns, Needed(hit.metrics)) :
         call' = [call EXCEPT ![c].at = "lock", ![c].used = now,
                  ![c].result = Response(p, o.epoch, o.request, hit, fit, experienced)]
  BY <1>6
<1> DEFINE r == Response(p, o.epoch, o.request, hit, fit, experienced)
           n == [o EXCEPT !.at = "lock", !.used = now, !.result = r]
<1>7. /\ hit.columns \subseteq seen /\ hit.metrics \subseteq Metrics
      /\ hit.values \subseteq Values /\ hit.failures \subseteq Scope
  <2>1. /\ hit.columns \in Hits("column" \in Types(o.request), seen)
        /\ hit.metrics \in Hits("metric" \in Types(o.request), MetricsSeen(p))
        /\ hit.values \in Hits("value" \in Types(o.request), ValuesSeen(p))
        /\ hit.failures \in Failing(o.request, seen, MetricsSeen(p))
    BY <1>6
  <2>2. \A selected, set : \A h \in Hits(selected, set) : h \subseteq set
    BY DEF Hits
  <2>3. hit.failures \subseteq Scope
    BY <1>4, <2>1, RequestScopes, FailingScopes
  <2>4. MetricsSeen(p) \subseteq Metrics /\ ValuesSeen(p) \subseteq Values
    BY DEF MetricsSeen, ValuesSeen
  <2> HIDE DEF seen
  <2> QED BY <2>1, <2>2, <2>3, <2>4
<1>8. /\ experienced.exps \subseteq Experience /\ experienced.retrieved \in Nat
      /\ \A e \in experienced.exps : e.since = o.epoch /\ e.at = experienced.retrieved
      /\ \A e \in experienced.exps : now - e.at < TTL
  BY <1>4, <1>5, <1>6, ExperiencedFound DEF RecallInv
<1>9. o.request \in SUBSET Scope /\ fit \subseteq Needed(hit.metrics)
      /\ version \in [Columns -> Nat]
  BY <1>4, <1>6a, RequestScopes, FitNeeded DEF RecallInv, RecallTypeOK
<1>10. /\ r \in Contexts /\ r.scope = o.epoch /\ r.asked = Scopes(o.request)
       /\ r.exps = experienced.exps
  <2>1. Searched(p, o.epoch, o.request, hit, fit, experienced)
    BY <1>4, <1>7, <1>8, <1>9 DEF Searched
  <2> QED BY <2>1, ResponseKeeps
<1> HIDE DEF r
<1>11. call' = [call EXCEPT ![c] = n]
  BY <1>6a DEF r
<1>12. /\ n \in Calling /\ n.at = "lock" /\ n.result = r /\ n.kind = "recall" /\ n.used = now
       /\ n.asked = o.asked /\ n.wants = o.wants /\ n.policy = p /\ n.epoch = o.epoch
       /\ n.request = o.request
  BY <1>3, <1>4, <1>10 DEF Calling, RecallInv, RecallTypeOK
<1> HIDE DEF n
<1>13. IsFound(n)
  BY <1>8, <1>10, <1>12 DEF IsFound
<1>14. CallSound(n)
  BY <1>3, <1>4, <1>12, <1>13 DEF CallSound, Purpose
<1>15. HeldBy(o) = {} /\ HeldBy(n) = {}
  BY <1>1, <1>3, <1>12 DEF HeldBy
<1>16. n.wants # {} /\ calls' \in Nat
  BY <1>1, <1>3, <1>5, <1>12, SMTT(40) DEF RecallInv, RecallTypeOK
<1> QED BY <1>1, <1>11, <1>14, <1>15, <1>16, PhaseKeeps

-----------------------------------------------------------------------------
(* What a call does with its locks.                                        *)

\* A call locks the first of the queries it still wants.
LEMMA LockKeeps ==
  ASSUME RecallInv, NEW c \in Callers, Lock(c)
  PROVE  RecallInv'
<1> PICK o : o = call[c]
  OBVIOUS
<1>1. PICK q \in NextOf(o.wants) :
        /\ o.at = "lock" /\ lock[q] = {}
        /\ lock' = [lock EXCEPT ![q] = {c}]
        /\ call' = [call EXCEPT ![c].wants = @ \ {q}, ![c].previous =
                      IF o.kind = "recall" THEN record[q] ELSE NoRecord]
        /\ UNCHANGED <<policy, roleEpoch, version, now, record, calls>>
  BY DEF Lock
<1> DEFINE previous == IF o.kind = "recall" THEN record[q] ELSE NoRecord
           n == [o EXCEPT !.wants = @ \ {q}, !.previous = previous]
<1>2. CallSound(o) /\ o # NoCall
  BY <1>1 DEF RecallInv, NoCall
<1>3. /\ o \in Calling /\ Purpose(o) /\ o.wants \subseteq ToSet(o.asked)
      /\ ToSet(o.asked) \subseteq Queries
      /\ o.kind = "recall" => IsFound(o)
  BY <1>1, <1>2 DEF CallSound
<1>4. q \in o.wants /\ q \in Queries /\ \A w \in o.wants : q <= w
  BY <1>1, <1>3 DEF NextOf
<1>5. previous \in {NoRecord} \cup Contexts
  BY <1>4 DEF RecallInv, RecallTypeOK
<1>6. call' = [call EXCEPT ![c] = n]
  BY <1>1
<1>7. /\ n \in Calling /\ n.kind = o.kind /\ n.at = "lock" /\ n.asked = o.asked
      /\ n.wants = o.wants \ {q} /\ n.policy = o.policy /\ n.epoch = o.epoch
      /\ n.request = o.request /\ n.selector = o.selector /\ n.result = o.result
      /\ n.used = o.used /\ n.previous = previous
  <2> HIDE DEF previous
  <2> QED BY <1>1, <1>3, <1>5 DEF Calling
<1> HIDE DEF n
<1>8. /\ DOMAIN call' = Callers /\ call'[c] = n
      /\ \A d \in Callers \ {c} : call'[d] = call[d]
  BY <1>6 DEF RecallInv, RecallTypeOK
<1>9. CallSound(n)
  <2>1. o.kind = "recall" => IsFound(n)
    BY <1>3, <1>7 DEF IsFound
  <2>2. Purpose(n)
    BY <1>1, <1>3, <1>7 DEF Purpose
  <2> QED BY <1>3, <1>7, <2>1, <2>2 DEF CallSound
<1>10. \A d \in Callers : CallSound(call'[d])
  BY <1>8, <1>9 DEF RecallInv
<1>11. /\ lock' \in [Queries -> SUBSET Callers] /\ lock'[q] = {c}
       /\ \A k \in Queries \ {q} : lock'[k] = lock[k]
  BY <1>1, <1>4 DEF RecallInv, RecallTypeOK
<1>12. RecallTypeOK'
  BY <1>1, <1>8, <1>11 DEF RecallInv, RecallTypeOK
<1>13. HeldBy(n) = HeldBy(o) \cup {q} /\ q \notin HeldBy(o)
  BY <1>1, <1>3, <1>4, <1>7 DEF HeldBy
<1>14. \A d \in Callers : q \notin HeldBy(call[d])
  BY <1>1, <1>4 DEF RecallInv, LocksHeld
<1>15. LocksHeld'
  <2>1. ASSUME NEW d \in Callers, NEW k \in Queries
        PROVE  d \in lock'[k] <=> k \in HeldBy(call'[d])
    <3>1. d \in lock[k] <=> k \in HeldBy(call[d])
      BY DEF RecallInv, LocksHeld
    <3> QED BY <1>8, <1>11, <1>13, <1>14, <3>1
  <2>2. ASSUME NEW d \in Callers, NEW e \in Callers, NEW k \in Queries,
               k \in HeldBy(call'[d]), k \in HeldBy(call'[e])
        PROVE  d = e
    <3>1. k \in HeldBy(call[d]) /\ k \in HeldBy(call[e]) => d = e
      BY DEF RecallInv, LocksHeld
    <3> QED BY <1>8, <1>13, <1>14, <2>2, <3>1
  <2>3. ASSUME NEW d \in Callers, NEW h \in HeldBy(call'[d]), NEW w \in call'[d].wants
        PROVE  h < w
    <3>1. CASE d # c
      BY <1>8, <2>3, <3>1 DEF RecallInv, LocksHeld
    <3>2. CASE d = c /\ h # q
      BY <1>7, <1>8, <1>13, <2>3, <3>2 DEF RecallInv, LocksHeld
    <3>3. CASE d = c /\ h = q
      <4>1. w \in o.wants /\ w # q
        BY <1>7, <1>8, <2>3, <3>3
      <4>2. w \in Nat /\ q \in Nat
        BY <1>3, <1>4, <4>1, RecallAssumption
      <4> QED BY <1>4, <3>3, <4>1, <4>2
    <3> QED BY <3>1, <3>2, <3>3
  <2> QED BY <2>1, <2>2, <2>3 DEF LocksHeld
<1>16. MergesInto'
  <2> SUFFICES ASSUME NEW d \in Callers, Ready(d, "recall")'
               PROVE  call'[d].previous = record'[call'[d].asked[1]]
    BY DEF MergesInto
  <2>1. CASE d # c
    <3>1. Ready(d, "recall")
      BY <1>8, <2>1 DEF Ready
    <3> QED BY <1>1, <1>8, <2>1, <3>1 DEF RecallInv, MergesInto
  <2>2. CASE d = c
    <3>1. o.kind = "recall" /\ Len(o.asked) = 1
      BY <1>3, <1>7, <1>8, <2>2 DEF Ready, Purpose
    <3>2. q = o.asked[1]
      BY <1>3, <1>4, <3>1, AskedSet DEF Calling
    <3> QED BY <1>1, <1>7, <1>8, <2>2, <3>1, <3>2
  <2> QED BY <2>1, <2>2
<1> QED BY <1>10, <1>12, <1>15, <1>16 DEF RecallInv

\* A call ends, and has changed no context but those it has locked.
LEMMA FinishKeeps ==
  ASSUME RecallInv, NEW c \in Callers, Finish(c),
         record' \in [Queries -> {NoRecord} \cup Contexts],
         \A q \in Queries : q \notin HeldBy(call[c]) => record'[q] = record[q]
  PROVE  RecallInv'
<1>1. /\ DOMAIN call' = Callers /\ call'[c] = NoCall
      /\ \A d \in Callers \ {c} : call'[d] = call[d]
  BY DEF Finish, RecallInv, RecallTypeOK
<1>2. /\ lock' \in [Queries -> SUBSET Callers]
      /\ \A q \in Queries : lock'[q] = lock[q] \ {c}
  BY DEF Finish, RecallInv, RecallTypeOK
<1>3. RecallTypeOK'
  BY <1>1, <1>2 DEF Finish, RecallInv, RecallTypeOK
<1>4. \A d \in Callers : CallSound(call'[d])
  BY <1>1 DEF RecallInv, CallSound
<1>5. LocksHeld'
  <2>1. ASSUME NEW d \in Callers, NEW k \in Queries
        PROVE  d \in lock'[k] <=> k \in HeldBy(call'[d])
    <3>1. d \in lock[k] <=> k \in HeldBy(call[d])
      BY DEF RecallInv, LocksHeld
    <3> QED BY <1>1, <1>2, <3>1, HeldByNone
  <2>2. ASSUME NEW d \in Callers, NEW e \in Callers, NEW k \in Queries,
               k \in HeldBy(call'[d]), k \in HeldBy(call'[e])
        PROVE  d = e
    <3>1. k \in HeldBy(call[d]) /\ k \in HeldBy(call[e]) => d = e
      BY DEF RecallInv, LocksHeld
    <3> QED BY <1>1, <2>2, <3>1, HeldByNone
  <2>3. ASSUME NEW d \in Callers, NEW h \in HeldBy(call'[d]), NEW w \in call'[d].wants
        PROVE  h < w
    <3>1. d # c
      BY <1>1, <2>3, HeldByNone
    <3> QED BY <1>1, <2>3, <3>1 DEF RecallInv, LocksHeld
  <2> QED BY <2>1, <2>2, <2>3 DEF LocksHeld
<1>6. MergesInto'
  <2> SUFFICES ASSUME NEW d \in Callers, Ready(d, "recall")'
               PROVE  call'[d].previous = record'[call'[d].asked[1]]
    BY DEF MergesInto
  <2>1. d # c
    BY <1>1 DEF Ready, NoCall
  <2>2. Ready(d, "recall") /\ call'[d] = call[d]
    BY <1>1, <2>1 DEF Ready
  <2>3. /\ call[d] # NoCall /\ call[d].kind = "recall"
        /\ HeldBy(call[d]) = ToSet(call[d].asked)
    BY <2>2, HeldByReady
  <2>4. call[d] \in Calling /\ Purpose(call[d])
    BY <2>3 DEF RecallInv, CallSound
  <2>5. Len(call[d].asked) = 1 /\ call[d].asked \in Seq(Queries)
    BY <2>3, <2>4 DEF Purpose, Calling
  <2>6. call[d].asked[1] \in Queries /\ call[d].asked[1] \in HeldBy(call[d])
    BY <2>3, <2>5, AskedSet
  <2>7. call[d].asked[1] \notin HeldBy(call[c])
    BY <2>1, <2>6 DEF RecallInv, LocksHeld
  <2>8. call[d].previous = record[call[d].asked[1]]
    BY <2>2 DEF RecallInv, MergesInto
  <2> QED BY <2>2, <2>6, <2>7, <2>8
<1> QED BY <1>3, <1>4, <1>5, <1>6 DEF RecallInv

LEMMA GiveUpKeeps ==
  ASSUME RecallInv, NEW c \in Callers, GiveUp(c)
  PROVE  RecallInv'
<1>1. Finish(c) /\ record' = record
  BY DEF GiveUp
<1>2. record' \in [Queries -> {NoRecord} \cup Contexts]
  BY <1>1 DEF RecallInv, RecallTypeOK
<1> QED BY <1>1, <1>2, FinishKeeps

\* The context that is saved is filtered once more.
Saved(p, merged) ==
  [FilterResponse(p, merged) EXCEPT !.exps = {e \in @ : ExperienceAllowed(p, Assets[e.id])}]

LEMMA SavedKeeps ==
  ASSUME NEW p \in Policies, NEW merged \in Contexts
  PROVE  /\ Saved(p, merged) \in Contexts
         /\ Saved(p, merged).columns = FilterResponse(p, merged).columns
         /\ Saved(p, merged).metrics = FilterResponse(p, merged).metrics
         /\ Saved(p, merged).values = FilterResponse(p, merged).values
<1> PICK f : f = FilterResponse(p, merged)
  OBVIOUS
<1> DEFINE exps == {e \in f.exps : ExperienceAllowed(p, Assets[e.id])}
<1>1. f \in Contexts
  BY FilterKeeps
<1>2. f \in ContextRecord
  BY <1>1 DEF Contexts
<1>3. Saved(p, merged) = [f EXCEPT !.exps = exps]
  BY <1>2 DEF Saved, ContextRecord
<1>4. exps \in SUBSET f.exps
  OBVIOUS
<1> HIDE DEF exps
<1> QED BY <1>1, <1>3, <1>4, NewExperiences

\* What a call of recall_context saves is a context that has what it read.
LEMMA SaveMerges ==
  ASSUME RecallInv, NEW c \in Callers, Save(c)
  PROVE  LET o == call[c]
             mine == Authorized(o.policy, o.epoch, o.previous) IN
         /\ o.asked[1] \in Queries /\ HeldBy(o) = {o.asked[1]} /\ o.policy \in Policies
         /\ \E merged \in Contexts :
              /\ record' = [record EXCEPT ![o.asked[1]] = Saved(o.policy, merged)]
              /\ o.previous # NoRecord =>
                   /\ o.previous \in Contexts
                   /\ mine.metrics \subseteq merged.metrics /\ mine.values \subseteq merged.values
                   /\ \A x \in mine.columns :
                        \E y \in merged.columns : y.column = x.column /\ y.version >= x.version
<1> DEFINE o == call[c]
           mine == Authorized(o.policy, o.epoch, o.previous)
<1>1. Ready(c, "recall")
  BY DEF Save
<1>2. /\ o # NoCall /\ o.kind = "recall" /\ o.at = "lock" /\ HeldBy(o) = ToSet(o.asked)
  BY <1>1, HeldByReady DEF Ready
<1>3. o \in Calling /\ Purpose(o) /\ IsFound(o)
  BY <1>2 DEF RecallInv, CallSound
<1>4. /\ o.asked \in Seq(Queries) /\ Len(o.asked) = 1 /\ o.policy \in Policies
      /\ o.request \in Requests /\ o.previous \in {NoRecord} \cup Contexts
  BY <1>2, <1>3 DEF Purpose, Calling
<1>5. o.asked[1] \in Queries /\ HeldBy(o) = {o.asked[1]}
  BY <1>2, <1>4, AskedSet
<1>6. o.result \in Contexts /\ Scopes(o.request) \subseteq o.result.asked
  BY <1>3 DEF IsFound
<1>7. PICK merged \in IF o.previous = NoRecord THEN {o.result}
                      ELSE Merges(mine, o.result, o.request) :
        record' = [record EXCEPT ![o.asked[1]] = Saved(o.policy, merged)]
  BY Zenon DEF Save, Saved
<1>8. CASE o.previous = NoRecord
  BY <1>4, <1>5, <1>6, <1>7, <1>8
<1>9. CASE o.previous # NoRecord
  <2>1. o.previous \in Contexts /\ merged \in Merges(mine, o.result, o.request)
    BY <1>4, <1>7, <1>9
  <2>2. mine \in Contexts
    BY <1>4, <2>1, AuthorizedKeeps
  <2>3. o.request \in SUBSET Scope
    BY <1>4, RequestScopes
  <2> HIDE DEF mine
  <2>4. /\ merged \in Contexts
        /\ mine.metrics \subseteq merged.metrics /\ mine.values \subseteq merged.values
        /\ \A x \in mine.columns :
             \E y \in merged.columns : y.column = x.column /\ y.version >= x.version
    BY <1>6, <2>1, <2>2, <2>3, MergesKeep
  <2> QED BY <1>4, <1>5, <1>7, <2>1, <2>4 DEF mine
<1> QED BY <1>8, <1>9

LEMMA SaveKeeps ==
  ASSUME RecallInv, NEW c \in Callers, Save(c)
  PROVE  RecallInv'
<1> PICK q \in Queries, p \in Policies : q = call[c].asked[1] /\ p = call[c].policy
  BY SaveMerges
<1>1. PICK merged \in Contexts : record' = [record EXCEPT ![q] = Saved(p, merged)]
  BY SaveMerges
<1>2. HeldBy(call[c]) = {q}
  BY SaveMerges
<1>3. Saved(p, merged) \in Contexts
  BY SavedKeeps
<1>4. record' \in [Queries -> {NoRecord} \cup Contexts]
  BY <1>1, <1>3 DEF RecallInv, RecallTypeOK
<1>5. \A k \in Queries : k \notin HeldBy(call[c]) => record'[k] = record[k]
  BY <1>1, <1>2 DEF RecallInv, RecallTypeOK
<1>6. Finish(c)
  BY DEF Save
<1> QED BY <1>4, <1>5, <1>6, FinishKeeps

\* Two contexts become one.
LEMMA MergeKeeps ==
  ASSUME RecallInv, NEW c \in Callers, Merge(c)
  PROVE  RecallInv'
<1> PICK o : o = call[c]
  OBVIOUS
<1>1. Ready(c, "merge") /\ Finish(c)
  BY DEF Merge
<1>2. /\ o # NoCall /\ o.kind = "merge" /\ HeldBy(o) = ToSet(o.asked)
  BY <1>1, HeldByReady
<1>3. o \in Calling /\ Purpose(o)
  BY <1>2 DEF RecallInv, CallSound
<1>4. o.asked \in Seq(Queries) /\ Len(o.asked) = 2 /\ o.policy \in Policies
  BY <1>2, <1>3 DEF Purpose, Calling
<1>5. /\ o.asked[1] \in Queries /\ o.asked[2] \in Queries
      /\ HeldBy(o) = {o.asked[1], o.asked[2]}
  BY <1>2, <1>4, AskedSet
<1> PICK target \in Queries, source \in Queries : target = o.asked[1] /\ source = o.asked[2]
  BY <1>5
<1> DEFINE mine == Authorized(o.policy, o.epoch, record[target])
           theirs == Authorized(o.policy, o.epoch, record[source])
<1>6. CASE NoRecord \in {record[target], record[source]}
  <2>1. record' = record
    BY <1>6 DEF Merge
  <2>2. record' \in [Queries -> {NoRecord} \cup Contexts]
    BY <2>1 DEF RecallInv, RecallTypeOK
  <2> QED BY <1>1, <2>1, <2>2, FinishKeeps
<1>7. CASE NoRecord \notin {record[target], record[source]}
  <2>1. PICK merged \in Merges(mine, theirs, {}) :
          record' = [record EXCEPT
              ![target] = [merged EXCEPT !.exps = mine.exps, !.scope = mine.scope,
                                         !.retrieved = mine.retrieved],
              ![source] = NoRecord]
    BY <1>7 DEF Merge
  <2>2. record[target] \in Contexts /\ record[source] \in Contexts
    BY <1>7, StoredContext DEF RecallInv
  <2>3. mine \in Contexts /\ theirs \in Contexts
    BY <1>4, <2>2, AuthorizedKeeps
  <2>4. Scopes({}) \subseteq theirs.asked
    BY DEF Scopes, Types
  <2> HIDE DEF mine, theirs
  <2>5. merged \in Contexts
    BY <2>1, <2>3, <2>4, MergesKeep
  <2> DEFINE kept == [merged EXCEPT !.exps = mine.exps, !.scope = mine.scope,
                                    !.retrieved = mine.retrieved]
  <2>6. kept \in Contexts
    BY <2>3, <2>5, OtherExperiences
  <2> HIDE DEF kept
  <2>7. record' = [record EXCEPT ![target] = kept, ![source] = NoRecord]
    BY <2>1 DEF kept
  <2>8. record' \in [Queries -> {NoRecord} \cup Contexts]
    BY <2>6, <2>7 DEF RecallInv, RecallTypeOK
  <2>9. \A k \in Queries : k \notin HeldBy(call[c]) => record'[k] = record[k]
    BY <1>5, <2>7 DEF RecallInv, RecallTypeOK
  <2> QED BY <1>1, <2>8, <2>9, FinishKeeps, SMTT(40)
<1> QED BY <1>6, <1>7, SMTT(40)

\* Contexts are pruned or removed.
LEMMA DeleteKeeps ==
  ASSUME RecallInv, NEW c \in Callers, Delete(c)
  PROVE  RecallInv'
<1> PICK o : o = call[c]
  OBVIOUS
<1>1. Ready(c, "delete") /\ Finish(c)
  BY DEF Delete
<1>2. /\ o # NoCall /\ o.kind = "delete" /\ HeldBy(o) = ToSet(o.asked)
  BY <1>1, HeldByReady
<1>3. o \in Calling /\ Purpose(o)
  BY <1>2 DEF RecallInv, CallSound
<1>4. o.policy \in Policies /\ o.selector \in Selectors
  BY <1>2, <1>3 DEF Purpose, Calling
<1>5. CASE \E q \in ToSet(o.asked) : record[q] = NoRecord
  <2>1. record' = record
    BY <1>5 DEF Delete
  <2>2. record' \in [Queries -> {NoRecord} \cup Contexts]
    BY <2>1 DEF RecallInv, RecallTypeOK
  <2> QED BY <1>1, <2>1, <2>2, FinishKeeps
<1>6. CASE ~ \E q \in ToSet(o.asked) : record[q] = NoRecord
  <2> DEFINE Mine(q) == Authorized(o.policy, o.epoch, record[q])
             After(q) == IF Pruned(Mine(q), o.selector) = Mine(q) THEN record[q]
                         ELSE Pruned(Mine(q), o.selector)
             new == [q \in Queries |->
                       IF q \notin ToSet(o.asked) THEN record[q]
                       ELSE IF "all" \in DOMAIN o.selector THEN NoRecord ELSE After(q)]
  <2>1. record' = new
    BY <1>6, Zenon DEF Delete
  <2>2. ASSUME NEW q \in Queries, q \in ToSet(o.asked), "all" \notin DOMAIN o.selector
        PROVE  After(q) \in Contexts
    <3>1. record[q] \in Contexts
      BY <1>6, <2>2, StoredContext DEF RecallInv
    <3>2. Mine(q) \in Contexts
      BY <1>4, <3>1, AuthorizedKeeps
    <3>3. Pruned(Mine(q), o.selector) \in Contexts
      BY <1>4, <2>2, <3>2, PrunedKeeps
    <3> QED BY <3>1, <3>3
  <2> HIDE DEF After
  <2>3. record' \in [Queries -> {NoRecord} \cup Contexts]
    BY <2>1, <2>2 DEF RecallInv, RecallTypeOK
  <2>4. \A q \in Queries : q \notin HeldBy(call[c]) => record'[q] = record[q]
    BY <1>2, <2>1
  <2> QED BY <1>1, <2>3, <2>4, FinishKeeps
<1> QED BY <1>5, <1>6

-----------------------------------------------------------------------------
(* The invariant holds throughout, for any callers, queries, catalogue,    *)
(* policies and requests: contexts stay sound, the locks say who holds     *)
(* them, and a call that saves merges into what is stored.                 *)
THEOREM RecallInvariant == RecallSpec => []RecallInv
<1>1. RecallInv /\ [RecallNext]_recallVars => RecallInv'
  <2> SUFFICES ASSUME RecallInv, [RecallNext]_recallVars PROVE RecallInv'
    OBVIOUS
  <2>1. CASE UNCHANGED recallVars
    <3>1. UNCHANGED <<record, lock, call, calls, policy, roleEpoch, version, now>>
      BY <2>1 DEF recallVars
    <3> QED BY <3>1, SurroundingsKeep DEF RecallInv, RecallTypeOK
  <2>2. ASSUME NEW c \in Callers,
               \/ AskFor(c) \/ Search(c) \/ Lock(c) \/ Save(c)
               \/ Merge(c) \/ Delete(c) \/ Read(c) \/ GiveUp(c)
        PROVE  RecallInv'
    BY <2>2, AskForKeeps, SearchKeeps, LockKeeps, SaveKeeps, MergeKeeps, DeleteKeeps,
       ReadKeeps, GiveUpKeeps
  <2>3. CASE \/ \E p \in Policies : ChangePolicy(p)
             \/ \E x \in Columns : EditColumn(x)
             \/ Tick
    BY <2>3, ChangesKeep
  <2> QED BY <2>1, <2>2, <2>3 DEF RecallNext
<1> QED BY <1>1, InitSound, PTL DEF RecallSpec

(* What get_recall and the expansion show names only what the policy that  *)
(* was read allows, with experiences of the epoch that was read.           *)
THEOREM ShownAllowed == RecallSpec => []ShownIsAllowed
<1>1. RecallInv => ShownIsAllowed
  <2> SUFFICES ASSUME RecallInv, NEW c \in Callers, call[c].at = "shown"
               PROVE  LET r == call[c].result
                          p == call[c].policy
                          named == ColumnsOf(r) \cup (UNION {x.ref : x \in r.columns})
                                     \cup (UNION {x.keys : x \in r.tables})
                                     \cup (UNION {Uses[m] : m \in r.metrics})
                                     \cup {Owner[v] : v \in r.values} IN
                      /\ \A x \in named : Allows(p, x)
                      /\ \A e \in r.exps :
                           e.since = call[c].epoch /\ ExperienceAllowed(p, Assets[e.id])
    BY Zenon DEF ShownIsAllowed
  <2> DEFINE r == call[c].result
             p == call[c].policy
             refs == UNION {x.ref : x \in r.columns}
             keys == UNION {x.keys : x \in r.tables}
             uses == UNION {Uses[m] : m \in r.metrics}
             owners == {Owner[v] : v \in r.values}
  <2>1. Shows(p, call[c].epoch, r)
    BY DEF RecallInv, CallSound, NoCall
  <2> HIDE DEF r, p
  <2>2. \A x \in ColumnsOf(r) : Allows(p, x)
    BY <2>1 DEF Shows, ColumnsOf
  <2>3. (\A x \in refs : Allows(p, x)) /\ (\A x \in keys : Allows(p, x))
    BY <2>1 DEF Shows
  <2>4. (\A x \in uses : Allows(p, x)) /\ (\A x \in owners : Allows(p, x))
    BY <2>1 DEF Shows
  <2>5. \A e \in r.exps : e.since = call[c].epoch /\ ExperienceAllowed(p, Assets[e.id])
    BY <2>1 DEF Shows
  <2> HIDE DEF refs, keys, uses, owners
  <2>6. \A x \in ColumnsOf(r) \cup refs \cup keys \cup uses \cup owners : Allows(p, x)
    BY <2>2, <2>3, <2>4
  <2> QED BY <2>5, <2>6, Zenon DEF r, p, refs, keys, uses, owners
<1> QED BY <1>1, RecallInvariant, PTL

(* The contexts that are stored hang together and know their gaps, through *)
(* every merging, filtering and pruning.                                   *)
THEOREM ContextsSound == RecallSpec => []ContextIsSound
<1>1. RecallInv => ContextIsSound
  <2> SUFFICES ASSUME RecallInv PROVE ContextIsSound
    OBVIOUS
  <2>1. ASSUME NEW q \in Queries, record[q] # NoRecord
        PROVE  /\ HangsTogether(record[q])
               /\ record[q].asked \subseteq record[q].found \cup record[q].failures
    BY <2>1, StoredContext DEF RecallInv, Contexts
  <2> QED BY <2>1 DEF ContextIsSound, ContextHangsTogether, GapsAreKnown, HangsTogether
<1> QED BY <1>1, RecallInvariant, PTL

(* The experiences a call takes from a context are less than a day old.    *)
THEOREM CacheLasts == RecallSpec => []CacheExpires
<1>1. RecallInv => CacheExpires
  BY DEF RecallInv, CallSound, IsFound, CacheExpires, NoCall
<1> QED BY <1>1, RecallInvariant, PTL

\* A set of numbers below a last one has a greatest member.
LEMMA GreatestNumber ==
  ASSUME NEW T \in SUBSET Nat, T # {}, NEW last \in Nat, \A q \in T : q <= last
  PROVE  \E k \in T : \A q \in T : q <= k
<1> DEFINE R == OpToRel(<, Nat)
           rest == {last - q : q \in T}
<1>1. IsWellFoundedOn(R, Nat)
  BY NatLessThanWellFounded
<1>2. \A j, i \in Nat : j < i => <<j, i>> \in R
  BY DEF R, OpToRel
<1> HIDE DEF R
<1>3. rest \subseteq Nat /\ rest # {}
  <2>1. \A q \in T : last - q \in Nat
    OBVIOUS
  <2>2. PICK q \in T : TRUE
    OBVIOUS
  <2>3. last - q \in rest
    OBVIOUS
  <2> QED BY <2>1, <2>3
<1>4. PICK n \in rest : \A j \in rest : ~ (<<j, n>> \in R)
  BY <1>1, <1>3, WFMin
<1>5. PICK k \in T : n = last - k
  OBVIOUS
<1>6. ASSUME NEW q \in T PROVE q <= k
  <2>1. last - q \in rest /\ last - q \in Nat /\ n \in Nat
    BY <1>3
  <2>2. ~ (last - q < n)
    BY <1>2, <1>4, <2>1
  <2> QED BY <1>5, <2>2
<1> QED BY <1>6

(* Calls never wait for each other in a circle: each takes its locks in    *)
(* the order of the queries, so that who holds the last one waits for none *)
(* of the others.                                                          *)
THEOREM LocksInOrder == RecallSpec => []NoCircularWait
<1>1. RecallInv => NoCircularWait
  <2> SUFFICES ASSUME RecallInv, NEW calling \in (SUBSET Callers) \ {{}},
                      \A c \in calling : \E d \in calling : Waits(c, d)
               PROVE  FALSE
    BY DEF NoCircularWait
  <2> DEFINE wanted == {q \in Queries : \E c, d \in calling :
                          call[c].at = "lock" /\ q \in NextOf(call[c].wants) /\ d \in lock[q]}
  <2>1. ASSUME NEW c \in calling
        PROVE  \E q \in wanted : call[c].at = "lock" /\ q \in call[c].wants
    <3>1. PICK d \in calling : Waits(c, d)
      OBVIOUS
    <3>2. PICK q \in NextOf(call[c].wants) : call[c].at = "lock" /\ d \in lock[q]
      BY <3>1 DEF Waits
    <3>3. call[c] \in Calling
      BY <3>2 DEF RecallInv, CallSound, NoCall
    <3>4. q \in call[c].wants /\ q \in Queries
      BY <3>2, <3>3 DEF NextOf, Calling
    <3> QED BY <3>2, <3>4
  <2>2. wanted # {}
    <3>1. PICK c \in calling : TRUE
      OBVIOUS
    <3> QED BY <2>1
  <2>3. PICK last \in Queries : \A q \in Queries : q <= last
    BY RecallAssumption
  <2>4. wanted \in SUBSET Nat /\ last \in Nat /\ \A q \in wanted : q <= last
    BY <2>3, RecallAssumption
  <2>5. PICK k \in wanted : \A q \in wanted : q <= k
    BY <2>2, <2>4, GreatestNumber
  <2>6. PICK d \in calling : d \in lock[k]
    OBVIOUS
  <2>7. k \in HeldBy(call[d])
    BY <2>6 DEF RecallInv, LocksHeld
  <2>8. PICK q \in wanted : q \in call[d].wants
    BY <2>1
  <2>9. k < q
    BY <2>7, <2>8 DEF RecallInv, LocksHeld
  <2>10. q \in Nat /\ k \in Nat
    BY <2>4
  <2> QED BY <2>5, <2>9, <2>10
<1> QED BY <1>1, RecallInvariant, PTL

(* A call of recall_context that saves keeps what was saved meanwhile and  *)
(* what its policy allows of it, no column in an earlier version.          *)
THEOREM ResourcesKept == RecallSpec => SavingKeepsResources
<1> DEFINE Keeps ==
      \A c \in Callers : Ready(c, "recall") /\ call'[c] = NoCall =>
       LET q == call[c].asked[1]
           p == call[c].policy
           old == record[q] IN
       old # NoRecord =>
         /\ \A x \in old.columns : Allows(p, x.column) =>
              \E y \in record'[q].columns : y.column = x.column /\ y.version >= x.version
         /\ {m \in old.metrics : MetricAllowed(p, Uses[m], Columns)} \subseteq record'[q].metrics
         /\ {v \in old.values : Allows(p, Owner[v])} \subseteq record'[q].values
<1>1. ASSUME RecallInv, [RecallNext]_recallVars PROVE [Keeps]_recallVars
  <2> SUFFICES ASSUME NEW c \in Callers, Ready(c, "recall"), call'[c] = NoCall,
                      record[call[c].asked[1]] # NoRecord
               PROVE  LET q == call[c].asked[1]
                          p == call[c].policy
                          old == record[q] IN
         /\ \A x \in old.columns : Allows(p, x.column) =>
              \E y \in record'[q].columns : y.column = x.column /\ y.version >= x.version
         /\ {m \in old.metrics : MetricAllowed(p, Uses[m], Columns)} \subseteq record'[q].metrics
         /\ {v \in old.values : Allows(p, Owner[v])} \subseteq record'[q].values
    BY Zenon
  <2>1. call[c] # NoCall /\ call[c].kind = "recall" /\ call[c].at = "lock" /\ call[c].wants = {}
    BY DEF Ready, NoCall
  <2>2. call[c] \in Calling /\ Purpose(call[c])
    BY <1>1, <2>1 DEF RecallInv, CallSound
  <2> PICK q \in Queries : q = call[c].asked[1]
    BY <2>1, <2>2, AskedSet DEF Purpose, Calling
  <2> PICK p \in Policies : p = call[c].policy
    BY <2>2 DEF Calling
  <2> PICK old \in Contexts : old = record[q]
    BY <1>1, StoredContext DEF RecallInv
  <2>3. /\ old \in ContextRecord
        /\ \A x \in old.columns : x.version \in Nat
    BY DEF Contexts, ContextRecord, Snapshot
  <2>4. CASE record' = record
    BY <2>3, <2>4, SMTT(40)
  <2>5. CASE Save(c)
    <3> PICK mine : mine = Authorized(p, call[c].epoch, old)
      OBVIOUS
    <3>1. call[c].previous = old
      BY <1>1 DEF RecallInv, MergesInto
    <3>2. PICK merged \in Contexts :
            /\ record' = [record EXCEPT ![q] = Saved(p, merged)]
            /\ mine.metrics \subseteq merged.metrics /\ mine.values \subseteq merged.values
            /\ \A x \in mine.columns :
                 \E y \in merged.columns : y.column = x.column /\ y.version >= x.version
      BY <1>1, <2>5, <3>1, SaveMerges
    <3> PICK f : f = FilterResponse(p, merged)
      OBVIOUS
    <3>3. record'[q] = Saved(p, merged)
      BY <1>1, <3>2 DEF RecallInv, RecallTypeOK
    <3>4. /\ record'[q].columns = f.columns /\ record'[q].metrics = f.metrics
          /\ record'[q].values = f.values
      BY <3>3, SavedKeeps
    <3>5. merged \in ContextRecord
      BY SMTT(40) DEF Contexts
    <3>6. /\ mine.columns = FilterResponse(p, old).columns
          /\ mine.metrics = {m \in old.metrics : MetricAllowed(p, Uses[m], Columns)}
          /\ mine.values = {v \in old.values : Allows(p, Owner[v])}
      <4>1. /\ mine.columns = FilterResponse(p, old).columns
            /\ mine.metrics = FilterResponse(p, old).metrics
            /\ mine.values = FilterResponse(p, old).values
        BY AuthorizedKeeps
      <4>2. LET g == FilterResponse(p, old) IN
            /\ g.metrics = {m \in old.metrics : MetricAllowed(p, Uses[m], Columns)}
            /\ g.values = {v \in old.values : Allows(p, Owner[v])}
        BY <2>3, FilterParts, ZenonT(60)
      <4> QED BY <4>1, <4>2
    <3>7. /\ f.metrics = {m \in merged.metrics : MetricAllowed(p, Uses[m], Columns)}
          /\ f.values = {v \in merged.values : Allows(p, Owner[v])}
      <4>1. LET g == FilterResponse(p, merged) IN
            /\ g.metrics = {m \in merged.metrics : MetricAllowed(p, Uses[m], Columns)}
            /\ g.values = {v \in merged.values : Allows(p, Owner[v])}
        BY <3>5, FilterParts, Zenon
      <4> QED BY <4>1
    <3>8. /\ {m \in old.metrics : MetricAllowed(p, Uses[m], Columns)} \subseteq f.metrics
          /\ {v \in old.values : Allows(p, Owner[v])} \subseteq f.values
      BY <3>2, <3>6, <3>7
    <3>9. ASSUME NEW x \in old.columns, Allows(p, x.column)
          PROVE  \E y \in f.columns : y.column = x.column /\ y.version >= x.version
      <4>1. PICK z \in mine.columns : z.column = x.column /\ z.version = x.version
        BY <2>3, <3>6, <3>9, FilterColumns
      <4>2. PICK w \in merged.columns : w.column = z.column /\ w.version >= z.version
        BY <3>2
      <4>3. PICK y \in f.columns : y.column = w.column /\ y.version = w.version
        BY <3>5, <3>9, <4>1, <4>2, FilterColumns
      <4> QED BY <4>1, <4>2, <4>3, SMTT(40)
    <3> QED BY <3>4, <3>8, <3>9
  <2>6. record' = record \/ Save(c)
    <3>1. CASE UNCHANGED recallVars
      BY <3>1 DEF recallVars
    <3>2. CASE \/ \E p1 \in Policies : ChangePolicy(p1)
               \/ \E x \in Columns : EditColumn(x)
               \/ Tick
      BY <3>2 DEF ChangePolicy, EditColumn, Tick
    <3>3. ASSUME NEW d \in Callers,
                 \/ AskFor(d) \/ Search(d) \/ Lock(d) \/ Read(d) \/ GiveUp(d)
          PROVE  record' = record
      BY <3>3, ZenonT(60) DEF AskFor, GetRecall, RecallContext, MergeRecalls, DeleteRecalls, Begin,
                  Search, Lock, Read, GiveUp
    <3>4. ASSUME NEW d \in Callers, Save(d) \/ Merge(d) \/ Delete(d) PROVE Save(c)
      <4>1. Finish(d)
        BY <3>4 DEF Save, Merge, Delete
      <4>2. d = c
        BY <1>1, <2>1, <4>1 DEF Finish, RecallInv, RecallTypeOK
      <4> QED BY <2>1, <3>4, <4>2 DEF Merge, Delete, Ready
    <3> QED BY <1>1, <3>1, <3>2, <3>3, <3>4 DEF RecallNext
  <2> QED BY <2>4, <2>5, <2>6
<1>2. RecallInv /\ [RecallNext]_recallVars => [Keeps]_recallVars
  BY <1>1
<1> QED BY <1>2, RecallInvariant, PTL DEF RecallSpec, SavingKeepsResources
=============================================================================
