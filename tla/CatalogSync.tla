---------------------------- MODULE CatalogSync ----------------------------
(***************************************************************************)
(* The metadata catalogue and its semantic index                           *)
(* (src/app/metadata/services/catalog.py, import_service.py, index.py,     *)
(* repositories/postgres.py, semantic_index.py, tasks.py).                 *)
(*                                                                         *)
(* Administrators change rows of columns and metrics in PostgreSQL; after  *)
(* the commit a task is queued, and a worker brings the documents of the   *)
(* resource in Elasticsearch up to the row.  Nothing repairs the index     *)
(* later: the tasks are all there is.  A document is found by its text, so *)
(* the documents of a resource are a function of their texts.  Rows of     *)
(* tables have no documents; deleting a table is deleting its columns.     *)
(***************************************************************************)
EXTENDS Naturals, FiniteSets

CONSTANTS
    Columns, Metrics,   \* the resources
    Contents,           \* what a row may say: name, description, alias, uses
    Saying,             \* resource -> the Contents that are tried for it
    Editors,            \* API processes and import tasks that change metadata
    Workers,            \* workers of the queue metadata-index
    Imports,            \* documents to import: functions from resources to Contents
    MaxVersion,         \* bound: versions of a row
    MaxEdits,           \* bound: changes begun
    MaxRevision,        \* bound: embedding models configured
    MaxTrouble          \* bound: failures

Resources == Columns \cup Metrics

ASSUME CatalogAssumption ==
    /\ Columns \cap Metrics = {}
    /\ \A c \in Contents : /\ c.uses \subseteq Columns
                           /\ c = [name |-> c.name, description |-> c.description,
                                   alias |-> c.alias, uses |-> c.uses]
    /\ Saying \in [Resources -> SUBSET Contents]
    /\ \A want \in Imports : want \in [DOMAIN want -> Contents] /\ DOMAIN want \subseteq Resources
    /\ {MaxVersion, MaxEdits, MaxTrouble} \subseteq Nat /\ MaxRevision \in Nat \ {0}

VARIABLES
    row,            \* resource -> ColumnInfo or MetricInfo
    docs,           \* resource -> its documents, by text
    revision,       \* _embedding_revision of the deployed configuration
    edit,           \* Editor -> the change it carries out
    queue,          \* tasks: sets of resources
    sync,           \* Worker -> the task it carries out
    lost,           \* resources whose last change no task knows of
    edits, trouble  \* numbers of changes and of failures

vars == <<row, docs, revision, edit, queue, sync, lost, edits, trouble>>

Nothing == [name |-> "", description |-> "", alias |-> {}, uses |-> {}]
NoRow == [content |-> Nothing, meta |-> 0, index |-> 0]
Exists(r) == row[r].meta > 0

NoEdit == [stage |-> "idle", import |-> FALSE, want |-> [r \in {} |-> Nothing],
           base |-> [r \in Resources |-> 0], change |-> {}, drop |-> {}, left |-> {}]
NoSync == [stage |-> "idle", keys |-> {}, res |-> "none", content |-> Nothing, meta |-> 0,
           write |-> {}, embed |-> {}, remove |-> {}]

-----------------------------------------------------------------------------
(* _target_semantic_documents: a text that occurs twice keeps its first    *)
(* role, in the order name, description, alias.                            *)

Texts(c) == {c.name, c.description} \cup c.alias

Role(c, t) ==
    CASE t = c.name -> "name"
      [] t # c.name /\ t = c.description -> "description"
      [] OTHER -> "alias"

Target(c, m, t) == [role |-> Role(c, t), payload |-> c, meta |-> m, rev |-> revision]

\* what a document says apart from its vector
Said(d) == [role |-> d.role, payload |-> d.payload, meta |-> d.meta, rev |-> d.rev]

\* fault: the vector of a text is always as it was
NeedsVector_New(c, t, current) == t \notin DOMAIN current

\* _semantic_delta: the text of a document never changes, its model may
NeedsVector(c, t, current) ==
    t \notin DOMAIN current \/ current[t].rev # revision

NeedsWrite(c, m, t, current) ==
    t \notin DOMAIN current \/ Said(current[t]) # Target(c, m, t)

Obsolete(c, current) == DOMAIN current \ Texts(c)

-----------------------------------------------------------------------------
Init ==
    /\ row = [r \in Resources |-> NoRow]
    /\ docs = [r \in Resources |-> [t \in {} |-> NoRow]]
    /\ revision = 1
    /\ edit = [e \in Editors |-> NoEdit]
    /\ queue = {} /\ lost = {}
    /\ sync = [w \in Workers |-> NoSync]
    /\ edits = 0 /\ trouble = 0

Mishap == trouble < MaxTrouble /\ trouble' = trouble + 1

-----------------------------------------------------------------------------
(* Changes of metadata.                                                    *)

Begin(e, record) ==
    /\ edit[e].stage = "idle" /\ edits < MaxEdits
    /\ edit' = [edit EXCEPT ![e] = record]
    /\ edits' = edits + 1
    /\ UNCHANGED <<row, docs, revision, queue, sync, lost, trouble>>

\* the versions seen, none for a row that is to be created
Seen(R) == [r \in Resources |-> IF r \in R THEN row[r].meta ELSE 0]

Differing(want) == {r \in DOMAIN want : Exists(r) => row[r].content # want[r]}

\* upsert_column_info, upsert_metric_info: what is referred to must exist
Upsert(e, r, c) ==
    /\ r \notin c.uses /\ \A u \in c.uses : Exists(u)
    /\ LET want == [x \in {r} |-> c]
       IN  Begin(e, [NoEdit EXCEPT !.stage = "read", !.want = want,
                           !.base = Seen(Differing(want)), !.change = Differing(want)])

\* _validate_column_deletion
Deletable(D) ==
    \A r \in Resources \ D : Exists(r) => row[r].content.uses \cap D = {}

\* delete_columns, delete_tables, delete_metrics
Delete(e, D) ==
    /\ D # {} /\ \A r \in D : Exists(r)
    /\ Deletable(D)
    /\ Begin(e, [NoEdit EXCEPT !.stage = "read", !.drop = D, !.left = D])

\* import_metadata: the present state is read in a transaction of its own
Import(e, want, replace) ==
    LET present == {r \in Resources : Exists(r)}
        absent == IF replace THEN present \ DOMAIN want ELSE {}
        known == IF replace THEN DOMAIN want ELSE DOMAIN want \cup present
    IN  /\ \A r \in DOMAIN want : want[r].uses \subseteq known \ {r}
        /\ Begin(e, [NoEdit EXCEPT !.stage = "read", !.import = TRUE, !.want = want,
                          !.base = Seen(Differing(want)), !.change = Differing(want),
                          !.drop = absent, !.left = absent])

\* delete_column_indexes, delete_metric_indexes: before the rows, no lock
DropDocs(e, r) ==
    /\ edit[e].stage = "read" /\ r \in edit[e].left
    /\ docs' = [docs EXCEPT ![r] = [t \in {} |-> NoRow]]
    /\ edit' = [edit EXCEPT ![e].left = @ \ {r}]
    /\ UNCHANGED <<row, revision, queue, sync, lost, edits, trouble>>

\* _set_versions counts from the row that the session has seen first: an
\* import finds the rows of its snapshot in the session again.
NewVersion(e, r) ==
    IF edit[e].import /\ edit[e].base[r] = 0 THEN row[r].meta + 1 ELSE edit[e].base[r] + 1

Changed(e, r) ==
    [content |-> edit[e].want[r], meta |-> NewVersion(e, r), index |-> row[r].index]

\* ON DELETE SET NULL and CASCADE
Without(r, D) == [row[r] EXCEPT !.content.uses = @ \ D]

\* the database refuses an update of a row that is gone, a second row of one
\* key, and a reference to nothing
Accepted(e) ==
    /\ \A r \in edit[e].change :
          /\ edit[e].base[r] > 0 => Exists(r)
          /\ edit[e].base[r] = 0 /\ ~edit[e].import => ~Exists(r)
          /\ NewVersion(e, r) <= MaxVersion
    /\ \A r \in edit[e].change : \A u \in edit[e].want[r].uses :
          u \notin edit[e].drop /\ (Exists(u) \/ u \in edit[e].change)

Cascaded(e) ==
    {r \in Resources \ (edit[e].drop \cup edit[e].change) :
        Exists(r) /\ row[r].content.uses \cap edit[e].drop # {}}

CommitRows(e) ==
    row' = [r \in Resources |->
              IF r \in edit[e].change THEN Changed(e, r)
              ELSE IF r \in edit[e].drop THEN NoRow
              ELSE Without(r, edit[e].drop)]

Commit(e) ==
    /\ edit[e].stage = "read" /\ edit[e].left = {}
    /\ Accepted(e)
    /\ CommitRows(e)
    /\ lost' = (lost \cup Cascaded(e)) \ edit[e].drop
    /\ edit' = [edit EXCEPT ![e] =
          [NoEdit EXCEPT !.stage = "committed", !.change = edit[e].change]]
    /\ UNCHANGED <<docs, revision, queue, sync, edits, trouble>>

\* refused by the database, the source or Elasticsearch, or a crash, before
\* the commit: documents that are deleted by then stay so
Abandon(e) ==
    /\ edit[e].stage = "read"
    /\ IF Accepted(e) THEN Mishap ELSE UNCHANGED trouble
    /\ lost' = lost \cup {r \in edit[e].drop \ edit[e].left : Exists(r)}
    /\ edit' = [edit EXCEPT ![e] = NoEdit]
    /\ UNCHANGED <<row, docs, revision, queue, sync, edits>>

\* invalidate_assets, then enqueue_columns and enqueue_metrics
Enqueue(e) ==
    /\ edit[e].stage = "committed"
    /\ queue' = queue \cup ({edit[e].change \cap Columns, edit[e].change \cap Metrics} \ {{}})
    /\ edit' = [edit EXCEPT ![e] = NoEdit]
    /\ UNCHANGED <<row, docs, revision, sync, lost, edits, trouble>>

\* one of the three fails, and the rest is left out
EnqueueFails(e) ==
    /\ edit[e].stage = "committed" /\ Mishap
    /\ \E sent \in {{}, edit[e].change \cap Columns} :
          /\ queue' = queue \cup ({sent} \ {{}})
          /\ lost' = lost \cup (edit[e].change \ sent)
    /\ edit' = [edit EXCEPT ![e] = NoEdit]
    /\ UNCHANGED <<row, docs, revision, sync, edits>>

-----------------------------------------------------------------------------
(* Synchronisation: sync_column_indexes and sync_metric_indexes, resource  *)
(* by resource, each in a transaction that holds the lock of the resource. *)

\* enqueue_column_indexes, enqueue_table_indexes, enqueue_metric_indexes on
\* demand: asked for when a change has got lost
Ask(r) ==
    /\ r \in lost /\ Exists(r) /\ {r} \notin queue
    /\ queue' = queue \cup {{r}}
    /\ UNCHANGED <<row, docs, revision, edit, sync, lost, edits, trouble>>

Take(w) ==
    /\ sync[w].stage = "idle"
    /\ \E m \in queue :
          /\ queue' = queue \ {m}
          /\ sync' = [sync EXCEPT ![w] = [NoSync EXCEPT !.stage = "taken", !.keys = m]]
    /\ UNCHANGED <<row, docs, revision, edit, lost, edits, trouble>>

Planning(w, r) ==
    LET c == row[r].content
        m == row[r].meta
    IN  sync' = [sync EXCEPT ![w] =
          [stage |-> "planned", keys |-> sync[w].keys, res |-> r, content |-> c, meta |-> m,
           write |-> {t \in Texts(c) : NeedsWrite(c, m, t, docs[r])},
           embed |-> {t \in Texts(c) : NeedsVector(c, t, docs[r])},
           remove |-> Obsolete(c, docs[r])]]

\* fault: nobody locks
Plan_Unlocked(w, r) ==
    /\ sync[w].stage = "taken" /\ r \in sync[w].keys /\ Exists(r)
    /\ Planning(w, r)
    /\ lost' = lost \ {r}
    /\ UNCHANGED <<row, docs, revision, edit, queue, edits, trouble>>

\* acquire_index_lock, the row, its documents, and their difference
Plan(w, r) ==
    /\ sync[w].stage = "taken" /\ r \in sync[w].keys /\ Exists(r)
    /\ \A v \in Workers : sync[v].stage \in {"planned", "written"} => sync[v].res # r
    /\ Planning(w, r)
    /\ lost' = lost \ {r}
    /\ UNCHANGED <<row, docs, revision, edit, queue, edits, trouble>>

\* Whatever of the difference reaches Elasticsearch: a payload alone is
\* changed in place and keeps the vector that is there.
Written(w, done) ==
    LET s == sync[w]
        now == docs[s.res]
        put == s.write \cap done
    IN  docs' = [docs EXCEPT ![s.res] =
          [t \in (DOMAIN now \ (s.remove \cap done)) \cup put |->
             IF t \notin put THEN now[t]
             ELSE [role |-> Role(s.content, t), payload |-> s.content, meta |-> s.meta,
                   rev |-> revision,
                   vec |-> IF t \in s.embed THEN revision ELSE now[t].vec]]]

InPlace(w) == sync[w].write \ sync[w].embed
Writable(w) == InPlace(w) \subseteq DOMAIN docs[sync[w].res]

\* apply_delta
Apply(w) ==
    /\ sync[w].stage = "planned" /\ Writable(w)
    /\ Written(w, sync[w].write \cup sync[w].remove)
    /\ sync' = [sync EXCEPT ![w] =
          [NoSync EXCEPT !.stage = "written", !.keys = sync[w].keys,
                             !.res = sync[w].res, !.meta = sync[w].meta]]
    /\ UNCHANGED <<row, revision, edit, queue, lost, edits, trouble>>

Advance(w) ==
    sync' = [sync EXCEPT ![w] =
        IF @.keys = {@.res} THEN NoSync
        ELSE [NoSync EXCEPT !.stage = "taken", !.keys = sync[w].keys \ {sync[w].res}]]

\* mark_column_indexed_if_current, mark_metric_indexed_if_current
Mark(w) ==
    LET r == sync[w].res IN
    /\ sync[w].stage = "written"
    /\ row' = IF Exists(r) /\ row[r].meta = sync[w].meta
              THEN [row EXCEPT ![r].index = sync[w].meta] ELSE row
    /\ Advance(w)
    /\ UNCHANGED <<docs, revision, edit, queue, lost, edits, trouble>>

\* A task that fails comes again, or has used up its retries; the resources
\* behind the one it fails at are left as they are.
Again(w) == queue' = queue \cup {sync[w].keys} /\ UNCHANGED lost
GiveUp(w) == lost' = lost \cup {r \in sync[w].keys : Exists(r)} /\ UNCHANGED queue

Fail(w) ==
    /\ sync[w].stage # "idle" /\ Mishap
    /\ IF sync[w].stage = "planned"
       THEN \E done \in SUBSET (sync[w].write \cup sync[w].remove) :
               /\ done \cap InPlace(w) \subseteq DOMAIN docs[sync[w].res]
               /\ Written(w, done)
       ELSE UNCHANGED docs
    /\ sync' = [sync EXCEPT ![w] = NoSync]
    /\ Again(w) \/ GiveUp(w)
    /\ UNCHANGED <<row, revision, edit, edits>>

\* get_column_info finds nothing, or a document to change in place is gone
Refused(w) ==
    /\ \/ sync[w].stage = "taken" /\ \E r \in sync[w].keys : ~Exists(r)
       \/ sync[w].stage = "planned" /\ ~Writable(w)
    /\ sync' = [sync EXCEPT ![w] = NoSync]
    /\ GiveUp(w)
    /\ UNCHANGED <<row, docs, revision, edit, edits, trouble>>

\* another embedding model is deployed, while no worker is at work
Deploy ==
    /\ revision < MaxRevision
    /\ \A w \in Workers : sync[w].stage = "idle"
    /\ revision' = revision + 1
    /\ UNCHANGED <<row, docs, edit, queue, sync, lost, edits, trouble>>

-----------------------------------------------------------------------------
Edit(e) ==
    \/ \E r \in Resources : \E c \in Saying[r] : Upsert(e, r, c)
    \/ \E D \in (SUBSET Columns) \cup (SUBSET Metrics) : Delete(e, D)
    \/ \E want \in Imports, replace \in BOOLEAN : Import(e, want, replace)

Proceed(e) ==
    \/ \E r \in Resources : DropDocs(e, r)
    \/ Commit(e) \/ Abandon(e) \/ Enqueue(e)

Work(w) ==
    \/ Take(w) \/ Apply(w) \/ Mark(w) \/ Refused(w)
    \/ \E r \in Resources : Plan(w, r)

Next ==
    \/ \E e \in Editors : Edit(e) \/ Proceed(e) \/ EnqueueFails(e)
    \/ \E r \in Resources : Ask(r)
    \/ \E w \in Workers : Work(w) \/ Fail(w)
    \/ Deploy

Spec == Init /\ [][Next]_vars

-----------------------------------------------------------------------------
(* Properties.                                                             *)

\* r waits for nobody: no task names it, none was lost, nobody changes it
Settled(r) ==
    /\ r \notin lost
    /\ \A m \in queue : r \notin m
    /\ \A w \in Workers : r \notin sync[w].keys
    /\ \A e \in Editors : r \notin edit[e].change \cup edit[e].drop

\* Once every task of a resource has been carried out, its documents are those
\* of its row - no text of an earlier version, no role or payload of another -
\* and the row says so: whatever overtook what, the last write came from a
\* task that has read the last change (the order commit, enqueue, and the lock
\* that a synchronisation holds from reading to marking).
SettledIndexAgrees ==
    \A r \in Resources : Settled(r) /\ Exists(r) =>
        /\ DOMAIN docs[r] = Texts(row[r].content)
        /\ \A t \in DOMAIN docs[r] :
              /\ docs[r][t].role = Role(row[r].content, t)
              /\ docs[r][t].payload = row[r].content
              /\ docs[r][t].meta = row[r].meta
        /\ row[r].index = row[r].meta

\* A vector is of the model that its document names, although a change of the
\* payload alone is written without one (the branches of _semantic_delta and
\* apply_delta, across versions, deployments and partial failures).
VectorsOfTheirModel ==
    \A r \in Resources : \A t \in DOMAIN docs[r] : docs[r][t].vec = docs[r][t].rev
=============================================================================
