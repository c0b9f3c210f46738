--------------------------- MODULE SemanticRecall ---------------------------
(***************************************************************************)
(* The recall contexts of a Conversation: src/app/metadata/services/       *)
(* search.py and recall.py, called by the tools of                         *)
(* src/app/assistant/agents/explorer/semantic_recall_handler.py and        *)
(* expanded by middleware/semantic_recall_expansion.py.                    *)
(*                                                                         *)
(* A context belongs to a query, the key an agent chose for its question.  *)
(* A call of the tool recall_context reads the policy, searches catalogue  *)
(* and indexes, looks for experiences and merges what it found into the    *)
(* context of its query; other calls merge, prune or read contexts.  Calls *)
(* of one Conversation run at the same time and each works with the policy *)
(* it read first; transactions on a context hold an advisory lock.         *)
(*                                                                         *)
(* What an index finds is any choice of what the policy allows; ranks are  *)
(* left out.  The names of queries are numbers and sort like them.         *)
(***************************************************************************)
EXTENDS AssetAccess, Naturals, FiniteSets, SequencesExt

CONSTANTS Callers, Queries,
          Columns,     \* the columns of the catalogue, assets with both parts
          Refers,      \* what each column refers to, a set of at most one column
          Keys,        \* the columns of primary keys
          Metrics, Uses,        \* metrics and the columns of each
          Values, Owner,        \* indexed values and the column of each
          Experiences, Assets,  \* experiences and the assets of each
          Policies,    \* the policies the user may have
          Requests,    \* sets of scopes a call may ask for
          Selectors,   \* what delete_recalls may be told to remove
          Limit,       \* limit_per_type
          MaxContext,  \* _MAX_RANKED_CONTEXT_COLUMNS
          TTL,         \* _QUERY_EXPERIENCE_CACHE_TTL
          Edited,      \* the columns that are edited
          MaxTime, MaxCalls, MaxEdits, MaxRoleEpoch, MaxChanges   \* bounds

ASSUME RecallAssumption ==
  /\ Queries \subseteq Nat /\ \E last \in Queries : \A q \in Queries : q <= last
  /\ \A p \in Policies : \A own \in p : own.table = Whole => own.column = Whole
  /\ \A request \in Requests : \A s \in request :
       s \in [type : {"column", "metric", "value"}, term : {s.term}]
  /\ \A selector \in Selectors :
       DOMAIN selector \in {{"all"}, {"asset"}, {"value"}, {"metric"}, {"experience"}}
  /\ Uses \in [Metrics -> SUBSET Columns] /\ Owner \in [Values -> Columns]
  /\ Refers \in [Columns -> SUBSET Columns] /\ Keys \subseteq Columns
  /\ TTL \in Nat \ {0}
  /\ MaxTime \in Nat /\ MaxEdits \in Nat /\ MaxRoleEpoch \in Nat /\ MaxChanges \in Nat

VARIABLES policy,         \* what the user may read now
          roleEpoch,      \* and since when
          version,        \* meta_version of each column
          now,
          record,         \* the context of each query, or NoRecord
          lock,           \* who holds the lock of each query
          call,           \* what each caller is doing
          calls           \* calls begun

recallVars == <<policy, roleEpoch, version, now, record, lock, call, calls>>

Never == 0
Tables == {x.table : x \in Columns}
NoRecord == [none |-> TRUE]
NoSelector == [none |-> TRUE]
NoCall == [at |-> "idle"]

\* A scope is a type of resource and a search term; a failure to embed the
\* terms is a failure of a type, for any term.
AnyTerm == "*"
Types(request) == {s.type : s \in request}
Scopes(request) == request \cup [type : Types(request), term : {AnyTerm}]

-----------------------------------------------------------------------------
\* Pieces of a response.
ColumnsOf(r) == {x.column : x \in r.columns}
TablesOf(columns) == {x.table : x \in columns}
Shown(columns, allowed) ==
  {[column |-> x, version |-> version[x], ref |-> Refers[x] \cap allowed] : x \in columns}
Context(columns, allowed) ==
  {[table |-> t, keys |-> {k \in Keys \cap allowed : k.table = t}] : t \in TablesOf(columns)}

\* filter_recall_response
FilterRef_Open(p, refs) == refs

FilterRef(p, refs) == AllowedColumns(p, refs)

FilterResponse(p, r) ==
  [r EXCEPT
     !.columns = {[x EXCEPT !.ref = FilterRef(p, @)] : x \in {y \in @ : Allows(p, y.column)}},
     !.metrics = {m \in @ : MetricAllowed(p, Uses[m], Columns)},
     !.values = {v \in @ : Allows(p, Owner[v])},
     !.tables = {[x EXCEPT !.keys = AllowedColumns(p, @)] :
                   x \in {y \in @ : IsVisible(p, TableAsset(y.table))}}]

\* _authorize_record
Authorized(p, since, r) ==
  [FilterResponse(p, r) EXCEPT
     !.exps = IF r.scope = since THEN {e \in @ : ExperienceAllowed(p, Assets[e.id])} ELSE {}]

\* Of two snapshots of a column the newer one stays; between two of the same
\* version the rank decides.  Of two of a table, whose versions are left out, either
\* may stay.
Newest(a, b) == {x \in a \cup b : \A y \in a \cup b : y.column = x.column => y.version <= x.version}
MergedColumns_Last(a, b) == {b \cup {x \in a : \A y \in b : y.column # x.column}}

MergedColumns(a, b) ==
  {S \in SUBSET Newest(a, b) :
     \A x \in Newest(a, b) : \E y \in S : {z \in S : z.column = x.column} = {y}}

MergedTables(a, b) ==
  {S \in SUBSET (a \cup b) :
     \A x \in a \cup b : \E y \in S : {z \in S : z.table = x.table} = {y}}

\* _merge_failures: what this request covers again is forgotten unless it has
\* failed again.
IsRefreshed(f, request) ==
  \E s \in request : f.type = s.type /\ f.term \in {AnyTerm, s.term}

MergedFailures(old, new, request) ==
  new \cup {f \in old : ~IsRefreshed(f, request)}

Merges(old, new, request) ==
  {[new EXCEPT !.columns = kept.columns,
               !.metrics = @ \cup old.metrics, !.values = @ \cup old.values,
               !.tables = kept.tables,
               !.failures = MergedFailures(old.failures, @, request),
               !.asked = @ \cup old.asked, !.found = @ \cup (old.found \ new.failures),
               !.truncated = @ \/ old.truncated] :
     kept \in [columns : MergedColumns(old.columns, new.columns),
               tables : MergedTables(old.tables, new.tables)]}

\* _remove_semantic_resources: of the columns only those left, of the rest only what
\* depends on no other column.
RemoveDependents_Kept(r, left) == r

RemoveDependents(r, left) ==
  [r EXCEPT !.values = {v \in @ : Owner[v] \in left},
            !.metrics = {m \in @ : Uses[m] \subseteq left}]

OnlyColumns(r, left) ==
  RemoveDependents(
    [r EXCEPT !.columns = {[x EXCEPT !.ref = @ \cap left] : x \in {y \in @ : y.column \in left}},
              !.tables = {[x EXCEPT !.keys = @ \cap left] :
                            x \in {y \in @ : y.table \in TablesOf(left)}}], left)

RemoveResources(r, target) ==
  OnlyColumns(r, {x \in ColumnsOf(r) : ~Encompasses(target, x)})

-----------------------------------------------------------------------------
\* The columns a metric depends on fill what the direct hits leave of the limit.
Fitting(direct, needed) ==
  LET room == MaxContext - Cardinality(direct)
      more == needed \ direct IN
  IF Cardinality(more) <= room THEN {more} ELSE {S \in SUBSET more : Cardinality(S) = room}

\* One layer of foreign keys, then the primary keys of every table involved.
WithForeignKeys(columns, seen) ==
  LET keys == {x \in seen : x.table \in TablesOf(columns) /\ Refers[x] \cap seen # {}} IN
  columns \cup keys \cup ((UNION {Refers[x] : x \in keys}) \cap seen)
WithPrimaryKeys(columns, seen) ==
  columns \cup {k \in Keys \cap seen : k.table \in TablesOf(columns)}

Hits(selected, candidates) ==
  IF selected THEN {S \in SUBSET candidates : Cardinality(S) <= Limit} ELSE {{}}

\* A search fails for a term, or for all terms when these cannot be embedded.
Failing(request, seen, metrics) ==
  LET searched == {s \in request : IF s.type = "metric" THEN metrics # {} ELSE seen # {}}
      embedded == Types(searched) \cap {"column", "metric"} IN
  {{}} \cup {{s} : s \in searched} \cup {[type : embedded, term : {AnyTerm}]}

MetricsSeen(p) == {m \in Metrics : MetricAllowed(p, Uses[m], Columns)}
ValuesSeen(p) == {v \in Values : Allows(p, Owner[v])}

Needed(metrics) == UNION {Uses[m] : m \in metrics}

\* What a search answers under a policy and its epoch, of what it hit and failed
\* to search, the columns that fitted in, and the experiences found with it.
Response(p, since, request, hit, fit, experienced) ==
  LET seen == AllowedColumns(p, Columns)
      ranked == hit.columns \cup fit \cup {Owner[v] : v \in hit.values}
      all == WithPrimaryKeys(WithForeignKeys(ranked, seen), seen) IN
  [columns |-> Shown(all, seen), metrics |-> hit.metrics, values |-> hit.values,
   tables |-> Context(all, seen), failures |-> hit.failures, asked |-> Scopes(request),
   found |-> Scopes(request) \ hit.failures,
   truncated |-> Needed(hit.metrics) \ hit.columns # fit,
   exps |-> experienced.exps, retrieved |-> experienced.retrieved, scope |-> since]

-----------------------------------------------------------------------------
\* Each query has a context at first, of an earlier search for everything that
\* found it and was not cut off.
First(p) ==
  Response(p, 1, UNION Requests,
    [columns |-> {}, metrics |-> MetricsSeen(p), values |-> ValuesSeen(p), failures |-> {}],
    Needed(MetricsSeen(p)),
    [exps |-> [id : {e \in Experiences : ExperienceAllowed(p, Assets[e])}, at : {1}, since : {1}],
     retrieved |-> 1])

RecallInit ==
  /\ policy \in Policies
  /\ roleEpoch = 1
  /\ version = [x \in Columns |-> 1]
  /\ now = 2
  /\ record = [q \in Queries |-> First(policy)]
  /\ lock = [q \in Queries |-> {}]
  /\ call = [c \in Callers |-> NoCall]
  /\ calls = 0

\* The changes of policy, catalogue and day together are bounded.
Changes == roleEpoch + now + Cardinality({x \in Columns : version[x] > 1}) - 3

\* The policy of the user's role changes, by a grant under the same epoch.
ChangePolicy(p) ==
  /\ p # policy /\ Changes < MaxChanges
  /\ IF policy \subseteq p THEN UNCHANGED roleEpoch
     ELSE roleEpoch < MaxRoleEpoch /\ roleEpoch' = roleEpoch + 1
  /\ policy' = p
  /\ UNCHANGED <<version, now, record, lock, call, calls>>

EditColumn(x) ==
  /\ x \in Edited /\ version[x] <= MaxEdits /\ Changes < MaxChanges
  /\ version' = [version EXCEPT ![x] = @ + 1]
  /\ UNCHANGED <<policy, roleEpoch, now, record, lock, call, calls>>

Tick ==
  /\ now < MaxTime /\ Changes < MaxChanges
  /\ now' = now + 1
  /\ UNCHANGED <<policy, roleEpoch, version, record, lock, call, calls>>

-----------------------------------------------------------------------------
\* A call begins by reading the policy.  asked: the queries it is about, in the
\* order they were named;  wants: those it has yet to lock;  request: what it looks
\* for;  selector: what it removes;  result: what it found or shows;
\* previous: what it merges into.
Begin(c, kind, at, asked, request, selector) ==
  /\ call[c] = NoCall
  /\ calls < MaxCalls
  /\ calls' = calls + 1
  /\ call' = [call EXCEPT ![c] = [kind |-> kind, at |-> at, asked |-> asked,
                wants |-> ToSet(asked), policy |-> policy, epoch |-> roleEpoch,
                request |-> request, selector |-> selector,
                result |-> NoRecord, previous |-> NoRecord, used |-> Never]]
  /\ UNCHANGED <<policy, roleEpoch, version, now, record, lock>>

RecallContext(c, q, request) == Begin(c, "recall", "search", <<q>>, request, NoSelector)
GetRecall(c, q) == Begin(c, "get", "read", <<q>>, {}, NoSelector)
MergeRecalls(c, target, source) ==
  target # source /\ Begin(c, "merge", "lock", <<target, source>>, {}, NoSelector)
DeleteRecalls(c, asked, selector) == Begin(c, "delete", "lock", asked, {}, selector)

AskFor(c) ==
  \/ \E q \in Queries : GetRecall(c, q) \/ \E request \in Requests : RecallContext(c, q, request)
  \/ \E target, source \in Queries : MergeRecalls(c, target, source)
  \/ \E asked \in SetToSeqs(Queries) \cup {<<q>> : q \in Queries}, selector \in Selectors :
       DeleteRecalls(c, asked, selector)

-----------------------------------------------------------------------------
\* The experiences of the context are used again for a day, under the epoch
\* they were found in; else they are looked for, which may fail.
IsFresh(r, since) ==
  r # NoRecord /\ r.scope = since /\ r.retrieved # Never /\ now - r.retrieved < TTL
Stamp_Now(at) == now

Stamp(at) == at

Looked(p, since) ==
  [exps : {[id : exps, at : {now}, since : {since}] :
             exps \in SUBSET {e \in Experiences : ExperienceAllowed(p, Assets[e])}},
   retrieved : {now}] \cup [exps : {{}}, retrieved : {Never}]
Experienced(p, since, r) ==
  IF IsFresh(r, since)
  THEN [exps : {Authorized(p, since, r).exps}, retrieved : {Stamp(r.retrieved)}]
  ELSE Looked(p, since)

\* The catalogue and the indexes are searched, then the experiences found.
Search(c) ==
  LET o == call[c]
      p == o.policy
      seen == AllowedColumns(p, Columns) IN
  /\ o.at = "search"
  /\ \E hit \in [columns : Hits("column" \in Types(o.request), seen),
                 metrics : Hits("metric" \in Types(o.request), MetricsSeen(p)),
                 values : Hits("value" \in Types(o.request), ValuesSeen(p)),
                 failures : Failing(o.request, seen, MetricsSeen(p))],
        experienced \in Experienced(p, o.epoch, record[o.asked[1]]) :
     \E fit \in Fitting(hit.columns, Needed(hit.metrics)) :
       call' = [call EXCEPT ![c].at = "lock", ![c].used = now,
                  ![c].result = Response(p, o.epoch, o.request, hit, fit, experienced)]
  /\ UNCHANGED <<policy, roleEpoch, version, now, record, lock, calls>>

-----------------------------------------------------------------------------
\* Locks are taken in the order of the queries, whatever was asked for first.
NextOf_Any(wants) == wants

NextOf(wants) == {q \in wants : \A other \in wants : q <= other}

\* With its lock a recall reads the context it will merge into.
Lock(c) ==
  /\ call[c].at = "lock"
  /\ \E q \in NextOf(call[c].wants) :
       /\ lock[q] = {}
       /\ lock' = [lock EXCEPT ![q] = {c}]
       /\ call' = [call EXCEPT ![c].wants = @ \ {q}, ![c].previous =
                      IF call[c].kind = "recall" THEN record[q] ELSE NoRecord]
  /\ UNCHANGED <<policy, roleEpoch, version, now, record, calls>>

Ready(c, kind) == call[c].at = "lock" /\ call[c].wants = {} /\ call[c].kind = kind
Finish(c) ==
  /\ call' = [call EXCEPT ![c] = NoCall]
  /\ lock' = [q \in Queries |-> lock[q] \ {c}]
  /\ UNCHANGED <<policy, roleEpoch, version, now, calls>>

Save(c) ==
  LET o == call[c] IN
  /\ Ready(c, "recall")
  /\ \E merged \in IF o.previous = NoRecord THEN {o.result}
                   ELSE Merges(Authorized(o.policy, o.epoch, o.previous), o.result, o.request) :
       record' = [record EXCEPT ![o.asked[1]] =
         [FilterResponse(o.policy, merged) EXCEPT
            !.exps = {e \in @ : ExperienceAllowed(o.policy, Assets[e.id])}]]
  /\ Finish(c)

Merge(c) ==
  LET o == call[c]
      target == record[o.asked[1]]
      source == record[o.asked[2]]
      mine == Authorized(o.policy, o.epoch, target) IN
  /\ Ready(c, "merge")
  /\ IF NoRecord \in {target, source} THEN UNCHANGED record
     ELSE \E merged \in Merges(mine, Authorized(o.policy, o.epoch, source), {}) :
            record' = [record EXCEPT
              ![o.asked[1]] = [merged EXCEPT !.exps = mine.exps, !.scope = mine.scope,
                                             !.retrieved = mine.retrieved],
              ![o.asked[2]] = NoRecord]
  /\ Finish(c)

Pruned(r, selector) ==
  LET rest == OnlyColumns(r, ColumnsOf(r)) IN
  CASE "asset" \in DOMAIN selector -> RemoveResources(r, selector.asset)
    [] "value" \in DOMAIN selector -> [rest EXCEPT !.values = @ \ {selector.value}]
    [] "metric" \in DOMAIN selector -> [rest EXCEPT !.metrics = @ \ {selector.metric}]
    [] "experience" \in DOMAIN selector ->
         [rest EXCEPT !.exps = {e \in @ : e.id # selector.experience}]

\* What nothing is removed from is not saved, not even in its filtered form.
Delete(c) ==
  LET o == call[c]
      After(r) == LET mine == Authorized(o.policy, o.epoch, r)
                      left == Pruned(mine, o.selector) IN
                  IF left = mine THEN r ELSE left IN
  /\ Ready(c, "delete")
  /\ IF \E q \in ToSet(o.asked) : record[q] = NoRecord THEN UNCHANGED record
     ELSE record' = [q \in Queries |->
            IF q \notin ToSet(o.asked) THEN record[q]
            ELSE IF "all" \in DOMAIN o.selector THEN NoRecord
            ELSE After(record[q])]
  /\ Finish(c)

\* get_recall, and the expansion of a reference before a call of the model.
Read(c) ==
  LET o == call[c]
      r == record[o.asked[1]] IN
  /\ o.at = "read"
  /\ call' = [call EXCEPT ![c] = IF r = NoRecord THEN NoCall
       ELSE [o EXCEPT !.at = "shown", !.result = Authorized(o.policy, o.epoch, r)]]
  /\ UNCHANGED <<policy, roleEpoch, version, now, record, lock, calls>>

\* The call is over, or a store fails and its transaction is rolled back.
GiveUp(c) ==
  /\ call[c] # NoCall
  /\ UNCHANGED record
  /\ Finish(c)

RecallNext ==
  \/ \E c \in Callers :
       \/ AskFor(c) \/ Search(c) \/ Lock(c) \/ Save(c)
       \/ Merge(c) \/ Delete(c) \/ Read(c) \/ GiveUp(c)
  \/ \E p \in Policies : ChangePolicy(p)
  \/ \E x \in Columns : EditColumn(x)
  \/ Tick

RecallSpec == RecallInit /\ [][RecallNext]_recallVars

-----------------------------------------------------------------------------
(* What a reader is shown names only what the policy it read allows, and   *)
(* its experiences are of the epoch it read, however old the context is    *)
(* and with whatever policy it was written.                                *)
ShownIsAllowed ==
  \A c \in Callers : call[c].at = "shown" =>
    LET r == call[c].result
        p == call[c].policy
        named == ColumnsOf(r) \cup (UNION {x.ref : x \in r.columns})
                   \cup (UNION {x.keys : x \in r.tables})
                   \cup (UNION {Uses[m] : m \in r.metrics}) \cup {Owner[v] : v \in r.values} IN
    /\ \A x \in named : Allows(p, x)
    /\ \A e \in r.exps : e.since = call[c].epoch /\ ExperienceAllowed(p, Assets[e.id])

(* A stored context hangs together: every value and every metric comes     *)
(* with its columns, unless the context was cut off, and every column with *)
(* its table, without which the payload drops it.                          *)
ContextHangsTogether ==
  \A q \in Queries : LET r == record[q] IN r # NoRecord =>
    /\ \A v \in r.values : Owner[v] \in ColumnsOf(r)
    /\ ~r.truncated => \A m \in r.metrics : Uses[m] \subseteq ColumnsOf(r)
    /\ TablesOf(ColumnsOf(r)) \subseteq {x.table : x \in r.tables}
    /\ \A x \in r.tables : x.keys \subseteq ColumnsOf(r)

(* Each search that failed when it was last asked for is on record, whether *)
(* its terms could not be embedded or its index did not answer for one.     *)
GapsAreKnown ==
  \A q \in Queries : record[q] # NoRecord =>
    record[q].asked \subseteq record[q].found \cup record[q].failures

(* What is stored can be relied on after any merging and pruning: it hangs *)
(* together, and what it lacks it says.                                    *)
ContextIsSound == ContextHangsTogether /\ GapsAreKnown

(* A call that saves what it found keeps the columns, the metrics and the  *)
(* values that other calls have saved meanwhile and its policy allows, and *)
(* turns no column back to an earlier version of its metadata.  Nothing of *)
(* the kind is said of experiences: the call writes the list it began      *)
(* with.                                                                   *)
SavingKeepsResources ==
  [][\A c \in Callers : Ready(c, "recall") /\ call'[c] = NoCall =>
       LET q == call[c].asked[1]
           p == call[c].policy
           old == record[q] IN
       old # NoRecord =>
         /\ \A x \in old.columns : Allows(p, x.column) =>
              \E y \in record'[q].columns : y.column = x.column /\ y.version >= x.version
         /\ {m \in old.metrics : MetricAllowed(p, Uses[m], Columns)} \subseteq record'[q].metrics
         /\ {v \in old.values : Allows(p, Owner[v])} \subseteq record'[q].values]_recallVars

(* Experiences taken from the context were looked up less than a day ago,  *)
(* though every saving of the context writes them anew.                    *)
CacheExpires ==
  \A c \in Callers : call[c].at = "lock" /\ call[c].kind = "recall" =>
    \A e \in call[c].result.exps : call[c].used - e.at < TTL

(* No calls wait for each other's locks in a circle, though a merge and a  *)
(* deletion take several, in whatever order they were asked for.           *)
Waits(c, d) == call[c].at = "lock" /\ \E q \in NextOf(call[c].wants) : d \in lock[q]

NoCircularWait ==
  \A calling \in (SUBSET Callers) \ {{}} :
    \E c \in calling : \A d \in calling : ~Waits(c, d)
=============================================================================
