--------------------------- MODULE ValueIndexSync ---------------------------
(***************************************************************************)
(* The value index of one column: the state row in PostgreSQL, the         *)
(* documents in Elasticsearch, and the runs that fill them from Doris,     *)
(* claimed every day or asked for by an administrator                      *)
(* (src/app/metadata/services/index.py, repositories/postgres.py).         *)
(*                                                                         *)
(* A transaction is one step; what a run reads and writes outside of it    *)
(* is a step each, and a worker may fail or die between any two.  A source *)
(* value is known by the stamp of its row in the cursor column; rows may   *)
(* become visible late, within Lag of the newest one.  Versions of the     *)
(* metadata are compared for equality only, so a run keeps whether it      *)
(* changed.  Run ids and generations are fresh when they are taken.  The   *)
(* table has a cursor column throughout.                                   *)
(*                                                                         *)
(* `lost' is a history variable: no action reads it, the properties do.    *)
(***************************************************************************)
EXTENDS Integers, FiniteSets

CONSTANTS
    Workers,        \* worker processes
    Values,         \* values the column may hold
    MaxStamp,       \* bound: stamps of the cursor column
    Lookback,       \* value_lookback_seconds
    Lag,            \* how late a row may become visible
    RunIds, Generations,    \* pools of uuid4()
    MaxTrouble,     \* bound: errors, crashes, messages not sent, edits
    Changes         \* what administrators do, of {"toggle", "edit"}

ASSUME ConstantAssumption ==
    /\ MaxStamp \in Nat /\ Lookback \in Nat /\ Lag \in Nat /\ MaxTrouble \in Nat
    /\ RunIds \subseteq Nat \ {0} /\ Generations \subseteq Nat \ {0}
    /\ Changes \subseteq {"toggle", "edit"}

VARIABLES
    indexed,        \* index_values of the column
    state,          \* its row in value_index_sync_state, or NoState
    docs,           \* Value -> sync_generation of its document, 0 if none
    source,         \* Value -> stamp of its row in Doris, 0 if none
    newest,         \* the largest stamp in the table, 0 if it is empty
    tasks,          \* sync_column_values messages, by requested mode
    run,            \* Worker -> the _ValueIndexRun it executes, or Idle
    trouble,        \* number of mishaps and edits so far
    lost            \* values removed by a clear run whose commit did not follow

vars == <<indexed, state, docs, source, newest, tasks, run, trouble, lost>>

Modes == {"full", "incremental"}
Stamps == 1..MaxStamp

\* run 0: claimed, not begun;  generation, cursor 0: none committed;
\* stale: updated_at is longer ago than any task may run
NoState == [status |-> "none"]
State == [status : {"syncing", "succeeded", "failed"}, run : {0} \cup RunIds,
          generation : {0} \cup Generations, cursor : {0} \cup Stamps,
          stale : BOOLEAN]

\* upper, found: what the run has read;  changed: the configuration has since
Idle == [stage |-> "idle"]
Run == [stage : {"begun", "bounded", "read", "written", "done", "failing"},
        run : RunIds, mode : Modes \cup {"clear"}, generation : {0} \cup Generations,
        cursor : {0} \cup Stamps, upper : {0} \cup Stamps,
        found : SUBSET Values, changed : BOOLEAN]

TypeOK ==
    /\ indexed \in BOOLEAN
    /\ state \in State \cup {NoState}
    /\ docs \in [Values -> {0} \cup Generations]
    /\ source \in [Values -> {0} \cup Stamps]
    /\ newest \in {0} \cup Stamps
    /\ tasks \subseteq Modes
    /\ run \in [Workers -> Run \cup {Idle}]
    /\ trouble \in 0..MaxTrouble
    /\ lost \subseteq Values

Init ==
    /\ indexed = TRUE
    /\ state = NoState
    /\ docs = [v \in Values |-> 0]
    /\ source = [v \in Values |-> 0]
    /\ newest = 0
    /\ tasks = {}
    /\ run = [w \in Workers |-> Idle]
    /\ trouble = 0
    /\ lost = {}

\* what cannot go on for ever if anything is to get done
Mishap == trouble < MaxTrouble /\ trouble' = trouble + 1

Present == {v \in Values : source[v] # 0}

Running(w) == run[w] # Idle

\* uuid4(): in use nowhere
FreshRun == {i \in RunIds :
    /\ state # NoState => state.run # i
    /\ \A w \in Workers : Running(w) => run[w].run # i}
FreshGeneration == {g \in Generations :
    /\ state # NoState => state.generation # g
    /\ \A w \in Workers : Running(w) => run[w].generation # g
    /\ \A v \in Values : docs[v] # g}
AnyOf(S) == CHOOSE n \in S : TRUE

-----------------------------------------------------------------------------
(* The source, and the administrators.                                     *)

Arrive(v) ==
    /\ source[v] = 0
    /\ \E t \in Stamps :
        /\ t >= newest - Lag
        /\ source' = [source EXCEPT ![v] = t]
        /\ newest' = IF t > newest THEN t ELSE newest
    /\ UNCHANGED <<indexed, state, docs, tasks, run, trouble, lost>>

\* a row without a value that is of interest here
ArriveElse ==
    /\ newest < MaxStamp /\ newest' = newest + 1
    /\ UNCHANGED <<indexed, state, docs, source, tasks, run, trouble, lost>>

Request(mode) ==
    /\ tasks' = tasks \cup {mode}
    /\ UNCHANGED <<indexed, state, docs, source, newest, run, trouble, lost>>

\* a run that is under way sees the new meta_version when it completes
ConfigurationChanges ==
    run' = [w \in Workers |-> IF Running(w) THEN [run[w] EXCEPT !.changed = TRUE] ELSE Idle]

\* index_values switched off, or on again
Toggle ==
    /\ "toggle" \in Changes
    /\ indexed' = ~indexed
    /\ ConfigurationChanges
    /\ UNCHANGED <<state, docs, source, newest, tasks, trouble, lost>>

\* another part of the column's or the table's metadata
Edit ==
    /\ "edit" \in Changes /\ Mishap
    /\ ConfigurationChanges
    /\ UNCHANGED <<indexed, state, docs, source, newest, tasks, lost>>

-----------------------------------------------------------------------------
(* claim_pending_value_index_keys, by the daily dispatch.                  *)

\* fault: a column that is being synchronised is claimed as well
Due_Syncing ==
    /\ state # NoState
    /\ indexed => state.generation # 0 /\ state.cursor # 0

\* fault: claims do not get stale
Due_NeverStale ==
    /\ state # NoState /\ state.status # "syncing"
    /\ indexed => state.generation # 0 /\ state.cursor # 0

\* fault: columns that are no longer indexed are skipped
Due_Indexed ==
    /\ indexed /\ state # NoState
    /\ state.status = "syncing" => state.stale
    /\ state.generation # 0 /\ state.cursor # 0

Due ==
    /\ state # NoState
    /\ state.status = "syncing" => state.stale
    /\ indexed => state.generation # 0 /\ state.cursor # 0

Claimed == [state EXCEPT !.status = "syncing", !.run = 0, !.stale = FALSE]

\* The message is sent, or the dispatcher dies before; when the send fails,
\* fail_value_index_claims gives the claim up.
Dispatch ==
    /\ Due
    /\ \/ state' = Claimed /\ tasks' = tasks \cup {"incremental"} /\ UNCHANGED trouble
       \/ state' = Claimed /\ UNCHANGED tasks /\ Mishap
       \/ state' = [Claimed EXCEPT !.status = "failed"] /\ UNCHANGED tasks /\ Mishap
    /\ UNCHANGED <<indexed, docs, source, newest, run, lost>>

\* No task outlives its time limit, which is shorter than the time after
\* which a claim is stale.
Age ==
    /\ state # NoState /\ state.status = "syncing" /\ ~state.stale
    /\ \A w \in Workers : Running(w) => run[w].run # state.run
    /\ state' = [state EXCEPT !.stale = TRUE]
    /\ UNCHANGED <<indexed, docs, source, newest, tasks, run, trouble, lost>>

-----------------------------------------------------------------------------
(* _begin_value_index_run.                                                 *)

Refused(mode) ==
    \/ state # NoState /\ state.status = "syncing" /\ state.run # 0
    \/ /\ indexed /\ mode = "incremental"
       /\ state # NoState => state.generation = 0 \/ state.cursor = 0

\* The message goes back for a retry, or is used up; the worker's death
\* brings it back too.
Consume(mode) == tasks' = tasks \/ tasks' = tasks \ {mode}

Begin(w, mode) ==
    /\ ~Running(w) /\ mode \in tasks /\ ~Refused(mode)
    /\ FreshRun # {} /\ FreshGeneration # {}
    /\ LET i == AnyOf(FreshRun)
           does == IF ~indexed THEN "clear" ELSE mode
       IN
        /\ run' = [run EXCEPT ![w] =
              [stage |-> "begun", run |-> i, mode |-> does,
               generation |-> CASE does = "full" -> AnyOf(FreshGeneration)
                                [] does = "incremental" -> state.generation
                                [] OTHER -> 0,
               cursor |-> IF state = NoState THEN 0 ELSE state.cursor,
               upper |-> 0, found |-> {}, changed |-> FALSE]]
        /\ state' = IF state = NoState
                    THEN [status |-> "syncing", run |-> i, generation |-> 0,
                          cursor |-> 0, stale |-> FALSE]
                    ELSE [state EXCEPT !.status = "syncing", !.run = i, !.stale = FALSE]
    /\ Consume(mode)
    /\ UNCHANGED <<indexed, docs, source, newest, trouble, lost>>

Refuse(w, mode) ==
    /\ ~Running(w) /\ mode \in tasks /\ Refused(mode)
    /\ tasks' = tasks \ {mode}
    /\ UNCHANGED <<indexed, state, docs, source, newest, run, trouble, lost>>

-----------------------------------------------------------------------------
(* _execute_value_index_run.                                               *)

\* the upper bound is fixed before the values are read
ReadBound(w) ==
    /\ run[w].stage = "begun" /\ run[w].mode # "clear"
    /\ run' = [run EXCEPT ![w].upper = newest,
          ![w].stage = IF run[w].mode = "incremental" /\ newest = 0 THEN "done"
                       ELSE "bounded"]
    /\ UNCHANGED <<indexed, state, docs, source, newest, tasks, trouble, lost>>

\* fault: no look back
Wanted_Strict(r, v) == r.mode = "full" \/ source[v] \in (r.cursor + 1)..r.upper

Wanted(r, v) == r.mode = "full" \/ source[v] \in (r.cursor - Lookback)..r.upper

ReadValues(w) ==
    /\ run[w].stage = "bounded"
    /\ run' = [run EXCEPT ![w].found = {v \in Present : Wanted(run[w], v)},
                          ![w].stage = "read"]
    /\ UNCHANGED <<indexed, state, docs, source, newest, tasks, trouble, lost>>

\* what becomes of the document of v: upsert of what was read,
\* delete_other_generations after a full one, delete_by_column
Outcome(r, v) ==
    CASE r.stage = "read" /\ v \in r.found -> r.generation
      [] r.stage = "written" /\ docs[v] # r.generation -> 0
      [] r.stage = "begun" /\ r.mode = "clear" -> 0
      [] OTHER -> docs[v]

\* the history of what a clear run takes away
Removed(r) ==
    IF r.mode = "clear" THEN {v \in Values : docs[v] # 0 /\ docs'[v] = 0} ELSE {}

WriteValues(w) ==
    /\ run[w].stage = "read"
    /\ docs' = [v \in Values |-> Outcome(run[w], v)]
    /\ run' = [run EXCEPT ![w].stage = IF run[w].mode = "full" THEN "written" ELSE "done",
                          ![w].found = {}]
    /\ UNCHANGED <<indexed, state, source, newest, tasks, trouble, lost>>

PurgeOthers(w) ==
    /\ run[w].stage = "written"
    /\ docs' = [v \in Values |-> Outcome(run[w], v)]
    /\ run' = [run EXCEPT ![w].stage = "done"]
    /\ UNCHANGED <<indexed, state, source, newest, tasks, trouble, lost>>

Clear(w) ==
    /\ run[w].stage = "begun" /\ run[w].mode = "clear"
    /\ docs' = [v \in Values |-> Outcome(run[w], v)]
    /\ run' = [run EXCEPT ![w].stage = "done"]
    /\ lost' = lost \cup Removed(run[w])
    /\ UNCHANGED <<indexed, state, source, newest, tasks, trouble>>

-----------------------------------------------------------------------------
(* _complete_value_index_run, _fail_value_index_run.                       *)

Owns(w) == state # NoState /\ state.run = run[w].run

CursorAfter(r) == IF r.upper # 0 THEN r.upper ELSE r.cursor

MayCommit(w) == Owns(w) /\ ~run[w].changed /\ indexed = (run[w].mode # "clear")

Complete(w) ==
    /\ run[w].stage = "done" /\ MayCommit(w)
    /\ state' = IF run[w].mode = "clear" THEN NoState
                ELSE [status |-> "succeeded", run |-> 0, stale |-> FALSE,
                      generation |-> run[w].generation, cursor |-> CursorAfter(run[w])]
    /\ run' = [run EXCEPT ![w] = Idle]
    /\ lost' = IF run[w].mode = "incremental" THEN lost ELSE {}
    /\ UNCHANGED <<indexed, docs, source, newest, tasks, trouble>>

\* the commit is refused
Refusal(w) ==
    /\ run[w].stage = "done" /\ ~MayCommit(w)
    /\ run' = [run EXCEPT ![w].stage = "failing"]
    /\ UNCHANGED <<indexed, state, docs, source, newest, tasks, trouble, lost>>

\* an error at any point; a bulk request or a delete by query may have been
\* carried out for some of the documents
Error(w) ==
    /\ Running(w) /\ run[w].stage # "failing" /\ Mishap
    /\ run' = [run EXCEPT ![w].stage = "failing", ![w].found = {}]
    /\ \E reached \in SUBSET Values :
        docs' = [v \in Values |-> IF v \in reached THEN Outcome(run[w], v) ELSE docs[v]]
    /\ lost' = lost \cup Removed(run[w])
    /\ UNCHANGED <<indexed, state, source, newest, tasks>>

RecordFailure(w) ==
    /\ run[w].stage = "failing"
    /\ state' = IF Owns(w) THEN [state EXCEPT !.status = "failed", !.run = 0, !.stale = FALSE]
                ELSE state
    /\ run' = [run EXCEPT ![w] = Idle]
    /\ UNCHANGED <<indexed, docs, source, newest, tasks, trouble, lost>>

Crash(w) ==
    /\ Running(w) /\ Mishap
    /\ run' = [run EXCEPT ![w] = Idle]
    /\ UNCHANGED <<indexed, state, docs, source, newest, tasks, lost>>

-----------------------------------------------------------------------------
Next ==
    \/ ArriveElse \/ \E v \in Values : Arrive(v)
    \/ \E mode \in Modes : Request(mode)
    \/ Toggle \/ Edit
    \/ Dispatch \/ Age
    \/ \E w \in Workers :
        \/ \E mode \in Modes : Begin(w, mode) \/ Refuse(w, mode)
        \/ ReadBound(w) \/ ReadValues(w) \/ WriteValues(w) \/ PurgeOthers(w) \/ Clear(w)
        \/ Complete(w) \/ Refusal(w) \/ RecordFailure(w) \/ Error(w) \/ Crash(w)

Spec == Init /\ [][Next]_vars

(* The dispatch runs every day, old claims get stale, workers take messages *)
(* and go on with what they began.                                         *)
Advance(w) ==
    \/ ReadBound(w) \/ ReadValues(w) \/ WriteValues(w) \/ PurgeOthers(w) \/ Clear(w)
    \/ Complete(w) \/ Refusal(w) \/ RecordFailure(w)

Fairness ==
    /\ WF_vars(Age \/ (Dispatch /\ UNCHANGED trouble))
    /\ WF_vars(\E w \in Workers, mode \in Modes : Begin(w, mode))
    /\ WF_vars(\E w \in Workers : Advance(w))

FairSpec == Spec /\ Fairness

-----------------------------------------------------------------------------
(* Properties.                                                             *)

\* With a committed cursor, every value of the column is in the index or is
\* within the look-back window of the next incremental run, which is all that
\* run will read (the values of rows that show up late included).  Excepted are
\* the values a clear run has removed and could not commit, because the column
\* was switched on again meanwhile or the run failed or died: the code keeps the
\* cursor, and nothing but a full run or a later clear run makes up for them.
NothingMissed ==
    state # NoState /\ state.generation # 0 /\ state.cursor # 0 =>
        \A v \in Present \ lost : docs[v] # 0 \/ source[v] >= state.cursor - Lookback

\* A column is written by one run at a time, whatever claims, stale claims,
\* redelivered messages and administrators ask for: a second run's purge would
\* take what the first has written.
OneRun == \A v, w \in Workers : Running(v) /\ Running(w) => v = w

\* Documents belong to a column with a state row: without it no dispatch would
\* ever clear them.
NoOrphans == state = NoState => \A v \in Values : docs[v] = 0

\* The state row vouches for the documents: a cursor for what it has passed,
\* what an uncommitted clear run took away left aside, and the missing row for
\* their absence; however often the column is switched off and on, and whatever
\* of a run was carried out before it failed, died or was overtaken.
DocumentsFitState == NothingMissed /\ NoOrphans

\* A column whose index has been completed once does not stay "syncing": its
\* claim or its run ends, or is taken over.  (One that was never completed may
\* stay so: the dispatcher does not look at it after its worker has died.)
Released ==
    (state # NoState /\ state.status = "syncing" /\ state.generation # 0 /\ state.cursor # 0)
        ~> (state = NoState \/ state.status # "syncing")

\* What a column leaves behind when its index is switched off is cleared,
\* unless it is switched on again.
Cleared ==
    ~indexed /\ state # NoState
        ~> indexed \/ (state = NoState /\ \A v \in Values : docs[v] = 0)

=============================================================================
