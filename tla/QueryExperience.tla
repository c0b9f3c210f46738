--------------------------- MODULE QueryExperience ---------------------------
(***************************************************************************)
(* The life of one shared query experience: the PostgreSQL row of one      *)
(* (role, SQL fingerprint), the Elasticsearch document projected from it,  *)
(* and the lossy, at-least-once tasks that keep the two together           *)
(* (src/app/query/).                                                       *)
(*                                                                         *)
(* Rows of different keys do not interact, so one key is modelled; once    *)
(* its row is deleted the next success inserts a row under a fresh id.     *)
(* A transaction that locks its row is one step; what it read before, what *)
(* it sends afterwards and what Elasticsearch does are steps of their own. *)
(* The versions of the metadata an experience refers to are left out: that *)
(* they changed may be noticed at any time.  Of the purposes of the        *)
(* queries only the authorization generations they come from are kept.     *)
(***************************************************************************)
EXTENDS Integers

CONSTANTS
    Recorders,      \* queries being executed and recorded
    Workers,        \* worker processes of the metadata-index queue
    MaxId,          \* bound: rows inserted under the key
    MaxRevision,    \* bound: revision of a row
    MaxEpoch        \* bound: generations of the role's authorization

ASSUME BoundAssumption == MaxId \in Nat \ {0} /\ MaxRevision \in Nat \ {0}
                            /\ MaxEpoch \in Nat \ {0}

VARIABLES
    row,            \* the row in query_experiences, or NoRow
    lastId,         \* the id given to the latest inserted row
    epoch,          \* current authorization_epoch of the role
    recorder,       \* Recorder -> the query it executes, or Idle
    doc,            \* id -> what Elasticsearch keeps under it
    tasks,          \* sync_index messages in the broker
    worker          \* Worker -> the message it works on and what it read

vars == <<row, lastId, epoch, recorder, doc, tasks, worker>>

Ids == 1..MaxId
Revisions == 1..MaxRevision
Epochs == 1..MaxEpoch

NoRow == [id |-> 0]
Row == [id : Ids, epoch : Epochs, purposes : SUBSET Epochs,
        status : {"active", "disabled", "deleting"},
        reason : {"none", "admin", "metadata_changed"},
        revision : Revisions, indexed : 0..MaxRevision]

\* version 0: Elasticsearch knows nothing of the id
Doc == [live : BOOLEAN, version : 0..MaxRevision, epoch : 0..MaxEpoch,
        purposes : SUBSET Epochs]
NoDoc == [live |-> FALSE, version |-> 0, epoch |-> 0, purposes |-> {}]

Message == [id : Ids, revision : Revisions]

Idle == [stage |-> "idle"]
InFlight == [stage : {"loaded", "written"}, message : Message,
             does : {"purge", "retire", "remove", "index"},
             revision : Revisions, epoch : 0..MaxEpoch, purposes : SUBSET Epochs]

Asking == [stage : {"querying"}, epoch : Epochs]

\* the types, with ck_query_experience_status_fields
TypeOK ==
    /\ row \in Row \cup {NoRow}
    /\ lastId \in 0..MaxId
    /\ epoch \in Epochs
    /\ recorder \in [Recorders -> {Idle} \cup Asking]
    /\ doc \in [Ids -> Doc]
    /\ tasks \subseteq Message
    /\ worker \in [Workers -> {Idle} \cup InFlight]
    /\ row # NoRow =>
          /\ (row.status = "disabled") = (row.reason # "none")
          /\ row.indexed <= row.revision

Init ==
    /\ row = NoRow /\ lastId = 0
    /\ epoch = 1
    /\ recorder = [c \in Recorders |-> Idle]
    /\ doc = [i \in Ids |-> NoDoc]
    /\ tasks = {}
    /\ worker = [w \in Workers |-> Idle]

-----------------------------------------------------------------------------
(* enqueue: the send happens after the commit, its failure is swallowed,   *)
(* and so is a process that dies between the two.                          *)

Enqueue(id, revision) ==
    \/ tasks' = tasks \cup {[id |-> id, revision |-> revision]}
    \/ UNCHANGED tasks

-----------------------------------------------------------------------------
(* A successful query: QueryExecutionHandler.execute, record_success,      *)
(* upsert_from_success and refresh_from_success.                           *)

\* resolve_principal reads the role's generation before the query runs
Ask(c) ==
    /\ recorder[c] = Idle
    /\ recorder' = [recorder EXCEPT ![c] = [stage |-> "querying", epoch |-> epoch]]
    /\ UNCHANGED <<row, lastId, epoch, doc, tasks, worker>>

\* fault: the purposes of another authorization generation are kept
PurposesAfter_Mixed(r, e) == r.purposes \cup {e}

PurposesAfter(r, e) == IF r.epoch # e THEN {e} ELSE r.purposes \cup {e}

\* fault: a success reactivates the experience whoever disabled it
Reactivates_Any(r) == r.status = "disabled"

Reactivates(r) == r.reason = "metadata_changed"

Refreshed(r, c) ==
    [r EXCEPT !.epoch = c.epoch, !.purposes = PurposesAfter(r, c.epoch),
              !.revision = @ + 1,
              !.status = IF Reactivates(r) THEN "active" ELSE @,
              !.reason = IF Reactivates(r) THEN "none" ELSE @]

Inserted(c) ==
    [id |-> lastId + 1, epoch |-> c.epoch, purposes |-> {c.epoch},
     status |-> "active", reason |-> "none", revision |-> 1, indexed |-> 0]

\* a row that is being deleted is left alone, and announced all the same
Upsert(c) ==
    /\ recorder[c] # Idle
    /\ \/ row = NoRow /\ lastId < MaxId
          /\ row' = Inserted(recorder[c]) /\ lastId' = lastId + 1
       \/ row # NoRow /\ row.status # "deleting" /\ row.revision < MaxRevision
          /\ row' = Refreshed(row, recorder[c]) /\ UNCHANGED lastId
       \/ row # NoRow /\ row.status = "deleting"
          /\ UNCHANGED <<row, lastId>>
    /\ Enqueue(row'.id, row'.revision)
    /\ recorder' = [recorder EXCEPT ![c] = Idle]
    /\ UNCHANGED <<epoch, doc, worker>>

\* the query fails, or recording it does: the result is not affected
Forget(c) ==
    /\ recorder[c] # Idle
    /\ recorder' = [recorder EXCEPT ![c] = Idle]
    /\ UNCHANGED <<row, lastId, epoch, doc, tasks, worker>>

-----------------------------------------------------------------------------
(* A change of the role's privileges, a change of the metadata, the        *)
(* administration (disable_manually, request_deletion).                    *)

RotateEpoch ==
    /\ epoch < MaxEpoch /\ epoch' = epoch + 1
    /\ UNCHANGED <<row, lastId, recorder, doc, tasks, worker>>

\* disable_for_metadata_change, called after an import, and by a recall that
\* finds the recorded versions of the metadata outdated
DisableForMetadataChange ==
    /\ row # NoRow /\ row.status = "active" /\ row.revision < MaxRevision
    /\ row' = [row EXCEPT !.status = "disabled", !.reason = "metadata_changed",
                          !.revision = @ + 1]
    /\ Enqueue(row.id, row'.revision)
    /\ UNCHANGED <<lastId, epoch, recorder, doc, worker>>

Disable ==
    /\ row # NoRow /\ row.status # "deleting" /\ row.reason # "admin"
    /\ row.revision < MaxRevision
    /\ row' = [row EXCEPT !.status = "disabled", !.reason = "admin",
                          !.revision = @ + 1]
    /\ Enqueue(row.id, row'.revision)
    /\ UNCHANGED <<lastId, epoch, recorder, doc, worker>>

RequestDeletion ==
    /\ row # NoRow /\ row.status # "deleting" /\ row.revision < MaxRevision
    /\ row' = [row EXCEPT !.status = "deleting", !.reason = "none",
                          !.revision = @ + 1]
    /\ Enqueue(row.id, row'.revision)
    /\ UNCHANGED <<lastId, epoch, recorder, doc, worker>>

\* The search of a recall may be older than the row it leads to; an inactive
\* row of the right generation is announced again.
Recall ==
    /\ row # NoRow /\ row.status # "active" /\ row.epoch = epoch
    /\ Enqueue(row.id, row.revision)
    /\ UNCHANGED <<row, lastId, epoch, recorder, doc, worker>>

-----------------------------------------------------------------------------
(* The sync task: QueryExperienceIndexer.sync.                             *)

\* what the row that was read asks for
Does(r) == CASE r.status = "deleting" -> "retire"
             [] r.status = "disabled" -> "remove"
             [] r.status = "active"   -> "index"

\* the message is acknowledged late: the worker that took it still owes it
Load(w) ==
    /\ worker[w] = Idle
    /\ \E m \in tasks :
        /\ tasks' = tasks \ {m}
        /\ worker' = [worker EXCEPT ![w] =
             IF row = NoRow \/ row.id # m.id
             THEN [stage |-> "loaded", message |-> m, does |-> "purge",
                   revision |-> m.revision, epoch |-> 0, purposes |-> {}]
             ELSE IF row.indexed >= row.revision THEN Idle
             ELSE [stage |-> "loaded", message |-> m, does |-> Does(row),
                   revision |-> row.revision, epoch |-> row.epoch,
                   purposes |-> row.purposes]]
    /\ UNCHANGED <<row, lastId, epoch, recorder, doc>>

\* version_type="external_gte": an older write is a conflict and is ignored
Accepts(d, revision) == revision >= d.version

Document(f) ==
    [live |-> f.does = "index", version |-> f.revision,
     epoch |-> IF f.does = "index" THEN f.epoch ELSE 0,
     purposes |-> IF f.does = "index" THEN f.purposes ELSE {}]

Write(w) ==
    /\ worker[w].stage = "loaded"
    /\ LET f == worker[w]
           i == f.message.id
       IN  /\ doc' = IF Accepts(doc[i], f.revision)
                     THEN [doc EXCEPT ![i] = Document(f)] ELSE doc
           /\ worker' = [worker EXCEPT ![w] =
                 IF f.does = "purge" THEN Idle ELSE [f EXCEPT !.stage = "written"]]
    /\ UNCHANGED <<row, lastId, epoch, recorder, tasks>>

\* fault: whatever revision the row has by now is taken for synchronised
Marked_Latest(r, revision) == [r EXCEPT !.indexed = r.revision]

\* mark_indexes_synced changes the row only if it still has the revision
Marked(r, revision) == IF r.revision = revision
                       THEN [r EXCEPT !.indexed = revision] ELSE r

\* finalize_deletion deletes the row only at that revision
Finalised(r, revision) == IF r.revision = revision /\ r.status = "deleting"
                          THEN NoRow ELSE r

Commit(w) ==
    /\ worker[w].stage = "written"
    /\ LET f == worker[w] IN
        row' = IF row = NoRow \/ row.id # f.message.id THEN row
               ELSE IF f.does = "retire" THEN Finalised(row, f.revision)
               ELSE Marked(row, f.revision)
    /\ worker' = [worker EXCEPT ![w] = Idle]
    /\ UNCHANGED <<lastId, epoch, recorder, doc, tasks>>

\* The worker dies or the task fails: the message comes back, or, after the
\* last retry, is gone.
Abort(w) ==
    /\ worker[w] # Idle
    /\ worker' = [worker EXCEPT ![w] = Idle]
    /\ \E back \in BOOLEAN :
        tasks' = IF back THEN tasks \cup {worker[w].message} ELSE tasks
    /\ UNCHANGED <<row, lastId, epoch, recorder, doc>>

\* fault: an experience that was synchronised once is never looked at again
Pending_New(r) == r # NoRow /\ r.indexed = 0

\* list_pending_index_repairs
Pending(r) == r # NoRow /\ r.indexed < r.revision

Repair ==
    /\ Pending(row)
    /\ Enqueue(row.id, row.revision)
    /\ UNCHANGED <<row, lastId, epoch, recorder, doc, worker>>

\* Elasticsearch forgets the version of a deleted document after a while
\* (index.gc_deletes); a sync is taken to be over by then.
ExpireTombstone(i) ==
    /\ ~doc[i].live /\ doc[i].version > 0
    /\ \A w \in Workers : worker[w] # Idle => worker[w].message.id # i
    /\ doc' = [doc EXCEPT ![i] = NoDoc]
    /\ UNCHANGED <<row, lastId, epoch, recorder, tasks, worker>>

-----------------------------------------------------------------------------
Next ==
    \/ \E c \in Recorders : Ask(c) \/ Upsert(c) \/ Forget(c)
    \/ RotateEpoch \/ DisableForMetadataChange \/ Disable \/ RequestDeletion
    \/ Recall
    \/ \E w \in Workers : Load(w) \/ Write(w) \/ Commit(w) \/ Abort(w)
    \/ Repair
    \/ \E i \in Ids : ExpireTombstone(i)

Spec == Init /\ [][Next]_vars

(* Celery beat runs the repair for ever and the broker does not refuse its *)
(* messages for ever; workers take messages, and a task that is tried      *)
(* again and again gets through in the end.                                *)
Fairness == /\ WF_vars(Repair /\ tasks' # tasks)
            /\ \A w \in Workers : /\ WF_vars(Load(w))
                                  /\ SF_vars(Write(w)) /\ SF_vars(Commit(w))

FairSpec == Spec /\ Fairness

-----------------------------------------------------------------------------
(* What the experience promises.                                           *)

(* A row whose indexed_revision has caught up is projected exactly: an     *)
(* active one has its current text and generation in the index, a disabled *)
(* one is not there - whatever older task is still under way.  Otherwise   *)
(* the index would stay wrong, as no repair ever looks at the row again.   *)
SyncedMeansProjected ==
    row # NoRow /\ row.indexed = row.revision =>
        LET d == doc[row.id] IN
        IF row.status = "active"
        THEN d.live /\ d.version = row.revision
             /\ d.epoch = row.epoch /\ d.purposes = row.purposes
        ELSE ~d.live

(* Once a row has been deleted no document of it is left or comes back,    *)
(* even if a worker that read it while it was active is still embedding.   *)
DeletedLeavesNoDocument ==
    \A i \in 1..lastId : (row = NoRow \/ row.id # i) => ~doc[i].live

(* So nothing that no repair will look at again is wrong in the index,     *)
(* whether its row has caught up or has gone.                              *)
ProjectionIsExact == SyncedMeansProjected /\ DeletedLeavesNoDocument

(* Neither the row nor a document ever holds a purpose recorded under      *)
(* another authorization generation than its own.                          *)
PurposesOfOneGeneration ==
    /\ row # NoRow => row.purposes = {row.epoch}
    /\ \A i \in Ids : doc[i].live => doc[i].purposes = {doc[i].epoch}

(* What an administrator disabled stays disabled and what is being deleted *)
(* is deleted: no success, import, recall or sync of that row undoes it.   *)
AdministrationIsFinal ==
    [][row # NoRow =>
        /\ row.reason = "admin" => row' = NoRow \/ row'.reason = "admin"
                                                \/ row'.status = "deleting"
        /\ row.status = "deleting" => row' = NoRow \/ row'.status = "deleting"]_vars

(* However many sends are lost and tasks fail, the index catches up with   *)
(* the row, and a row that is being deleted goes away.                     *)
EventuallySynced == []<>(row = NoRow \/ row.indexed = row.revision)
=============================================================================
