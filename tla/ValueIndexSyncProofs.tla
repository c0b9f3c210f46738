------------------------ MODULE ValueIndexSyncProofs ------------------------
(***************************************************************************)
(* The state row of a column vouches for its documents and one run writes  *)
(* at a time, for any workers, values and bounds.                          *)
(*                                                                         *)
(* A run owns the state row as long as it lives (Owned): claims get stale  *)
(* only without it.  What it has fixed, read and written leaves out no     *)
(* value that a later run would not look at again (Reached), provided that *)
(* rows show up within the look-back window, but for what a clear run that *)
(* did not commit took away (the history variable `lost').                 *)
(***************************************************************************)
EXTENDS ValueIndexSync, TLAPS

\* a run owns the state row, and a stale claim has no run
Owned ==
    \A w \in Workers : Running(w) =>
        /\ state # NoState /\ state.status = "syncing" /\ state.run = run[w].run
        /\ ~state.stale

\* no cursor is ahead of the table
Behind == state # NoState => state.cursor <= newest

\* what a run has taken over from the configuration and the state row
Taken ==
    \A w \in Workers : Running(w) =>
        /\ run[w].mode # "clear" => run[w].generation # 0
        /\ run[w].cursor = state.cursor /\ run[w].upper <= newest
        /\ run[w].mode = "incremental" => state.generation # 0 /\ state.cursor # 0
        /\ run[w].stage \in {"bounded", "read", "written", "done"} /\ run[w].mode # "clear" =>
              run[w].cursor <= run[w].upper

\* a run that clears reads and writes nothing
Reading ==
    \A w \in Workers : Running(w) /\ run[w].mode = "clear" =>
        run[w].stage \notin {"bounded", "read", "written"}

Emptied ==
    \A w \in Workers :
        Running(w) /\ run[w].mode = "clear" /\ run[w].stage = "done" =>
            \A v \in Values : docs[v] = 0

\* what was left out is late, or is in the index already
Late(w, v) == source[v] >= run[w].upper - Lag
Reached ==
    \A w \in Workers : Running(w) /\ run[w].mode # "clear" =>
        \A v \in Present :
            /\ run[w].stage = "read" =>
                  \/ v \in run[w].found \/ Late(w, v)
                  \/ run[w].mode = "incremental" /\ (docs[v] # 0 \/ v \in lost)
            /\ run[w].stage = "written" => docs[v] = run[w].generation \/ Late(w, v)
            /\ run[w].stage = "done" =>
                  \/ docs[v] # 0 \/ Late(w, v)
                  \/ run[w].mode = "incremental" /\ v \in lost

\* what holds whatever is assumed of the source
Base == TypeOK /\ OneRun /\ Owned /\ Behind /\ Taken /\ Reading /\ Emptied /\ NoOrphans

Whole == NothingMissed /\ Reached
Assumed == Lag <= Lookback

USE ConstantAssumption DEF Stamps, Modes

-----------------------------------------------------------------------------
LEMMA BaseInit == Init => Base
<1> SUFFICES ASSUME Init PROVE Base
  OBVIOUS
<1> USE DEF Init
<1>1. TypeOK
  BY DEF TypeOK
<1>2. \A w \in Workers : ~Running(w)
  BY DEF Running
<1> QED BY <1>1, <1>2 DEF Base, OneRun, Owned, Behind, Taken, Reading, Emptied, NoOrphans

\* A run is one of its records, and the missing state row is none.
LEMMA Typed ==
  ASSUME TypeOK
  PROVE  /\ \A w \in Workers : Running(w) => run[w] \in Run
         /\ \A w \in Workers : run[w].stage # "idle" => Running(w)
         /\ state # NoState => state \in State
         /\ NoState \notin State
         /\ \A r \in Run : r # Idle /\ r.run # 0
BY DEF TypeOK, Running, Idle, NoState, State, Run

\* A run goes on by one stage, and the state row stays.
LEMMA RunAdvances ==
  ASSUME Base, NEW w \in Workers, Running(w), NEW r \in Run,
         r.run = run[w].run, r.mode = run[w].mode, r.cursor = run[w].cursor,
         r.generation = run[w].generation, r.upper <= newest,
         r.stage \in {"bounded", "read", "written", "done"} /\ r.mode # "clear" => r.cursor <= r.upper,
         r.mode = "clear" => r.stage \notin {"bounded", "read", "written"},
         r.mode = "clear" /\ r.stage = "done" => \A v \in Values : docs'[v] = 0,
         run' = [run EXCEPT ![w] = r],
         docs' \in [Values -> {0} \cup Generations],
         UNCHANGED <<indexed, state, source, newest, tasks>>, trouble' \in 0..MaxTrouble,
         lost' \subseteq Values
  PROVE  Base'
<1>1. /\ run' \in [Workers -> Run \cup {Idle}] /\ run'[w] = r
      /\ \A v \in Workers : v # w => run'[v] = run[v]
  BY DEF Base, TypeOK
<1>2. \A v \in Workers : Running(v)' <=> v = w
  BY <1>1, Typed DEF Base, OneRun, Running
<1>3. TypeOK'
  BY <1>1 DEF Base, TypeOK
<1>4. OneRun' /\ Owned' /\ Behind' /\ Taken' /\ Reading' /\ Emptied'
  BY <1>1, <1>2 DEF Base, OneRun, Owned, Behind, Taken, Reading, Emptied
<1>5. NoOrphans'
  BY DEF Base, Owned, NoOrphans
<1> QED BY <1>3, <1>4, <1>5 DEF Base

\* The run ends; the state row is its own to change.
LEMMA RunEnds ==
  ASSUME Base, NEW w \in Workers, Running(w), run' = [run EXCEPT ![w] = Idle],
         state' \in State \cup {NoState}, state' # NoState => state'.cursor <= newest,
         state' = NoState => \A v \in Values : docs[v] = 0,
         UNCHANGED <<indexed, docs, source, newest, tasks>>, trouble' \in 0..MaxTrouble,
         lost' \subseteq Values
  PROVE  Base' /\ \A v \in Workers : ~Running(v)'
<1>1. /\ run' \in [Workers -> Run \cup {Idle}] /\ run'[w] = Idle
      /\ \A v \in Workers : v # w => run'[v] = run[v]
  BY DEF Base, TypeOK
<1>2. \A v \in Workers : ~Running(v)'
  BY <1>1 DEF Base, OneRun, Running
<1>3. TypeOK'
  BY <1>1 DEF Base, TypeOK
<1>4. Base'
  BY <1>2, <1>3 DEF Base, OneRun, Owned, Behind, Taken, Reading, Emptied, NoOrphans
<1> QED BY <1>2, <1>4

\* Steps that touch neither runs, the state row nor documents.
LEMMA Aside ==
  ASSUME Base, UNCHANGED <<state, docs, run>>, newest' \in {0} \cup Stamps, newest <= newest',
         TypeOK'
  PROVE  Base'
<1>1. \A w \in Workers : Running(w)' <=> Running(w)
  BY DEF Running
<1>0. newest \in Nat /\ newest' \in Nat
  BY DEF Base, TypeOK
<1>2. Behind'
  <2>1. state # NoState => state.cursor \in Nat
    BY Typed DEF Base, State
  <2> QED BY <1>0, <2>1 DEF Base, Behind
<1>3. Taken'
  <2>1. \A w \in Workers : Running(w) => run[w].upper \in Nat
    BY Typed DEF Base, Run
  <2> QED BY <1>0, <1>1, <2>1 DEF Base, Taken
<1> QED BY <1>1, <1>2, <1>3 DEF Base, OneRun, Owned, Reading, Emptied, NoOrphans

-----------------------------------------------------------------------------
(* The steps that no assumption is needed for.                             *)

LEMMA SourceKept ==
  ASSUME Base, ArriveElse \/ (\E v \in Values : Arrive(v))
                 \/ (\E mode \in Modes : Request(mode))
  PROVE  Base'
<1>1. newest \in {0} \cup Stamps
  BY DEF Base, TypeOK
<1>2. newest' \in {0} \cup Stamps /\ newest <= newest' /\ UNCHANGED <<state, docs, run>>
  BY <1>1 DEF ArriveElse, Arrive, Request
<1>3. TypeOK'
  <2>1. CASE ArriveElse
    BY <1>2, <2>1 DEF ArriveElse, Base, TypeOK
  <2>2. ASSUME NEW v \in Values, Arrive(v) PROVE TypeOK'
    BY <1>2, <2>2 DEF Arrive, Base, TypeOK
  <2>3. ASSUME NEW mode \in Modes, Request(mode) PROVE TypeOK'
    BY <2>3 DEF Request, Base, TypeOK
  <2> QED BY <2>1, <2>2, <2>3
<1> QED BY <1>2, <1>3, Aside

LEMMA ChangesKept ==
  ASSUME Base, Toggle \/ Edit
  PROVE  /\ Base'
         /\ \A w \in Workers : Running(w)' <=> Running(w)
         /\ \A w \in Workers : Running(w) =>
              run'[w] = [run[w] EXCEPT !.changed = TRUE]
<1>1. /\ ConfigurationChanges
      /\ UNCHANGED <<state, docs, source, newest, tasks, lost>>
      /\ indexed' \in BOOLEAN /\ trouble' \in 0..MaxTrouble
  <2>1. CASE Toggle
    <3>1. indexed' \in BOOLEAN
      BY <2>1 DEF Toggle
    <3> QED BY <2>1, <3>1 DEF Toggle, Base, TypeOK
  <2>2. CASE Edit
    <3>1. trouble' \in 0..MaxTrouble
      BY <2>2 DEF Edit, Mishap, Base, TypeOK
    <3> QED BY <2>2, <3>1 DEF Edit, Base, TypeOK
  <2> QED BY <2>1, <2>2
<1>2. \A w \in Workers :
        /\ Running(w) => run'[w] = [run[w] EXCEPT !.changed = TRUE] /\ run'[w] \in Run
        /\ ~Running(w) => run'[w] = Idle
  <2> TAKE w \in Workers
  <2>1. /\ Running(w) => run'[w] = [run[w] EXCEPT !.changed = TRUE]
        /\ ~Running(w) => run'[w] = Idle
    BY <1>1 DEF ConfigurationChanges
  <2>2. Running(w) => run[w] \in Run
    BY Typed DEF Base
  <2>3. Running(w) => [run[w] EXCEPT !.changed = TRUE] \in Run
    BY <2>2 DEF Run
  <2> QED BY <2>1, <2>2, <2>3
<1>3. run' \in [Workers -> Run \cup {Idle}]
  BY <1>1, <1>2 DEF ConfigurationChanges
<1>4. \A w \in Workers : Running(w)' <=> Running(w)
  BY <1>2, Typed DEF Base, Running
<1>5. TypeOK'
  BY <1>1, <1>3 DEF Base, TypeOK
<1>6. \A w \in Workers : Running(w) =>
        /\ run'[w].stage = run[w].stage /\ run'[w].run = run[w].run
        /\ run'[w].mode = run[w].mode /\ run'[w].generation = run[w].generation
        /\ run'[w].cursor = run[w].cursor /\ run'[w].upper = run[w].upper
        /\ run'[w].found = run[w].found
  <2> TAKE w \in Workers
  <2> HAVE Running(w)
  <2>1. run[w] \in Run /\ run'[w] = [run[w] EXCEPT !.changed = TRUE]
    BY <1>2, Typed DEF Base
  <2> QED BY ONLY <2>1 DEF Run
<1>7. OneRun' /\ Owned' /\ Behind' /\ NoOrphans'
  BY <1>1, <1>4, <1>6 DEF Base, OneRun, Owned, Behind, NoOrphans
<1>8. Taken' /\ Reading' /\ Emptied'
  BY <1>1, <1>4, <1>6 DEF Base, Taken, Reading, Emptied
<1> QED BY <1>2, <1>4, <1>5, <1>7, <1>8 DEF Base

\* A claim is made while nobody runs.
LEMMA ClaimKept ==
  ASSUME Base, Dispatch \/ Age
  PROVE  /\ Base' /\ \A w \in Workers : ~Running(w) /\ ~Running(w)'
         /\ state # NoState /\ state' # NoState
         /\ state'.cursor = state.cursor /\ state'.generation = state.generation
<1>1. state # NoState /\ state \in State /\ UNCHANGED <<indexed, docs, source, newest, run, lost>>
  BY Typed DEF Dispatch, Due, Age, Base
<1>2. \A w \in Workers : ~Running(w)
  <2>1. CASE Dispatch
    BY <2>1 DEF Dispatch, Due, Base, Owned
  <2>2. CASE Age
    BY <2>2 DEF Age, Base, Owned
  <2> QED BY <2>1, <2>2
<1>3. /\ state' \in State /\ state'.cursor = state.cursor
      /\ state'.generation = state.generation
  <2>1. CASE Age
    BY <1>1, <2>1 DEF Age, State
  <2>2. Claimed \in State /\ Claimed.cursor = state.cursor
        /\ Claimed.generation = state.generation
    BY <1>1 DEF Claimed, State
  <2>3. CASE Dispatch
    <3>1. state' = Claimed \/ state' = [Claimed EXCEPT !.status = "failed"]
      BY <2>3 DEF Dispatch
    <3> QED BY <2>2, <3>1 DEF State
  <2> QED BY <2>1, <2>3
<1>4. state' # NoState
  BY <1>3, Typed DEF Base
<1>5. tasks' \subseteq Modes /\ trouble' \in 0..MaxTrouble
  BY DEF Dispatch, Age, Mishap, Base, TypeOK
<1>6. TypeOK'
  BY <1>1, <1>3, <1>5 DEF Base, TypeOK
<1>7. \A w \in Workers : ~Running(w)'
  BY <1>1, <1>2 DEF Running
<1> QED BY <1>1, <1>2, <1>3, <1>4, <1>6, <1>7
     DEF Base, OneRun, Owned, Behind, Taken, Reading, Emptied, NoOrphans

\* A run begins while nobody else runs.
LEMMA BeginKept ==
  ASSUME Base, NEW w \in Workers, NEW mode \in Modes, Begin(w, mode)
  PROVE  /\ Base' /\ \A v \in Workers : ~Running(v)
         /\ run'[w].stage = "begun"
         /\ run'[w].mode = IF ~indexed THEN "clear" ELSE mode
         /\ state' # NoState
         /\ state'.generation = IF state = NoState THEN 0 ELSE state.generation
         /\ state'.cursor = IF state = NoState THEN 0 ELSE state.cursor
<1> DEFINE i == AnyOf(FreshRun)
           does == IF ~indexed THEN "clear" ELSE mode
           generation == CASE does = "full" -> AnyOf(FreshGeneration)
                           [] does = "incremental" -> state.generation
                           [] OTHER -> 0
           cursor == IF state = NoState THEN 0 ELSE state.cursor
           r == [stage |-> "begun", run |-> i, mode |-> does, generation |-> generation,
                 cursor |-> cursor, upper |-> 0, found |-> {}, changed |-> FALSE]
           begun == [status |-> "syncing", run |-> i, generation |-> 0,
                     cursor |-> 0, stale |-> FALSE]
<1>1. /\ run' = [run EXCEPT ![w] = r]
      /\ state' = IF state = NoState THEN begun
                  ELSE [state EXCEPT !.status = "syncing", !.run = i, !.stale = FALSE]
      /\ UNCHANGED <<indexed, docs, source, newest, trouble, lost>>
      /\ tasks' \subseteq Modes
      /\ ~Refused(mode) /\ FreshRun # {} /\ FreshGeneration # {}
  BY DEF Begin, Consume, Base, TypeOK
<1>2. \A v \in Workers : ~Running(v)
  <2> TAKE v \in Workers
  <2>1. SUFFICES ASSUME Running(v) PROVE FALSE
    OBVIOUS
  <2>2. state.status = "syncing" /\ state # NoState /\ state.run = run[v].run /\ run[v] \in Run
    BY <2>1, Typed DEF Base, Owned
  <2>3. state.run # 0
    BY <2>2, Typed DEF Base
  <2> QED BY <1>1, <2>2, <2>3 DEF Refused
<1>3. i \in RunIds /\ AnyOf(FreshGeneration) \in Generations
  BY <1>1 DEF AnyOf, FreshRun, FreshGeneration
<1>4. does = "incremental" => state # NoState /\ state.generation # 0 /\ state.cursor # 0
  BY <1>1 DEF Refused
<1>5. state # NoState => /\ state \in State /\ state.generation \in {0} \cup Generations
                         /\ state.cursor \in {0} \cup Stamps
  BY Typed DEF Base, State
<1>6. does \in Modes \cup {"clear"}
  OBVIOUS
<1>7. /\ generation \in {0} \cup Generations
      /\ does # "clear" => generation # 0
      /\ cursor \in {0} \cup Stamps
  <2>1. CASE does = "full"
    <3>1. generation = AnyOf(FreshGeneration)
      BY <2>1
    <3> QED BY <1>3, <1>5, <3>1
  <2>2. CASE does = "incremental"
    <3>1. generation = state.generation
      BY <2>2
    <3> QED BY <1>4, <1>5, <2>2, <3>1
  <2>3. CASE does = "clear"
    <3>1. generation = 0
      BY <2>3
    <3> QED BY <1>5, <2>3, <3>1
  <2> QED BY <1>6, <2>1, <2>2, <2>3
<1> HIDE DEF i, does, generation, cursor
<1>8. r \in Run
  BY <1>3, <1>6, <1>7 DEF Run
<1>9. /\ run' \in [Workers -> Run \cup {Idle}] /\ run'[w] = r
      /\ \A v \in Workers : v # w => run'[v] = run[v]
  BY <1>1, <1>8 DEF Base, TypeOK
<1>10. /\ state' \in State /\ state'.run = i /\ state'.status = "syncing" /\ ~state'.stale
       /\ state'.cursor = cursor
       /\ state'.generation = IF state = NoState THEN 0 ELSE state.generation
  <2>1. CASE state = NoState
    BY <1>1, <1>3, <2>1 DEF State, cursor
  <2>2. CASE state # NoState
    <3>1. state' = [state EXCEPT !.status = "syncing", !.run = i, !.stale = FALSE]
      BY <1>1, <2>2
    <3> QED BY <1>3, <1>5, <2>2, <3>1 DEF State, cursor
  <2> QED BY <2>1, <2>2
<1>11. state' # NoState
  BY <1>10, Typed DEF Base
<1>12. TypeOK'
  BY <1>1, <1>9, <1>10 DEF Base, TypeOK
<1>13. \A v \in Workers : Running(v)' => v = w
  BY <1>2, <1>9 DEF Running
<1>14. OneRun' /\ Owned' /\ Reading' /\ Emptied' /\ NoOrphans'
  BY <1>9, <1>10, <1>11, <1>13 DEF OneRun, Owned, Reading, Emptied, NoOrphans
<1>15. Behind'
  <2>1. newest \in Nat
    BY DEF Base, TypeOK
  <2>2. cursor <= newest
    BY <2>1 DEF Base, Behind, cursor
  <2> QED BY <1>1, <1>10, <2>2 DEF Behind
<1>16. Taken'
  <2>1. 0 <= newest
    BY DEF Base, TypeOK
  <2> QED BY <1>1, <1>4, <1>7, <1>9, <1>10, <1>13, <2>1 DEF Taken, cursor
<1> QED BY <1>2, <1>9, <1>10, <1>11, <1>12, <1>14, <1>15, <1>16 DEF Base, does, cursor

LEMMA RefuseKept ==
  ASSUME Base, NEW w \in Workers, NEW mode \in Modes, Refuse(w, mode)
  PROVE  Base'
<1>1. TypeOK'
  BY DEF Refuse, Base, TypeOK
<1>2. newest' \in {0} \cup Stamps /\ newest <= newest'
  BY DEF Refuse, Base, TypeOK
<1> QED BY <1>1, <1>2, Aside DEF Refuse

\* The stages of a run.
LEMMA StagesKept ==
  ASSUME Base, NEW w \in Workers,
         ReadBound(w) \/ ReadValues(w) \/ WriteValues(w) \/ PurgeOthers(w) \/ Clear(w)
           \/ Refusal(w) \/ Error(w)
  PROVE  Base'
<1> USE DEF ReadBound, ReadValues, WriteValues, PurgeOthers, Clear, Refusal, Error
<1>1. Running(w) /\ run[w] \in Run
  <2>1. run[w].stage # "idle" \/ Running(w)
    OBVIOUS
  <2> QED BY <2>1, Typed DEF Base
<1>2. newest \in {0} \cup Stamps /\ trouble \in 0..MaxTrouble
      /\ docs \in [Values -> {0} \cup Generations] /\ lost' \subseteq Values
  BY DEF Base, TypeOK, Removed
<1>3. /\ \A v \in Values : Outcome(run[w], v) \in {0} \cup Generations
      /\ run[w].stage = "begun" /\ run[w].mode = "clear" =>
            \A v \in Values : Outcome(run[w], v) = 0
  BY <1>1, <1>2 DEF Outcome, Run
<1>4. /\ run[w].upper <= newest
      /\ run[w].stage \in {"bounded", "read", "written", "done"} /\ run[w].mode # "clear" =>
            run[w].cursor <= run[w].upper
      /\ run[w].cursor <= newest
      /\ run[w].mode = "incremental" => newest # 0
  <2>1. state # NoState /\ state.cursor = run[w].cursor /\ state.cursor <= newest
    BY <1>1 DEF Base, Owned, Taken, Behind
  <2>2. run[w].mode = "incremental" => state.cursor # 0
    BY <1>1 DEF Base, Taken
  <2>3. run[w].cursor \in Nat
    BY <1>1 DEF Run
  <2>4. run[w].upper <= newest
    BY <1>1 DEF Base, Taken
  <2> QED BY <1>1, <1>2, <2>1, <2>2, <2>3, <2>4 DEF Base, Taken
<1>5. CASE ReadBound(w)
  <2> DEFINE stage == IF run[w].mode = "incremental" /\ newest = 0 THEN "done" ELSE "bounded"
             r == [run[w] EXCEPT !.upper = newest, !.stage = stage]
  <2>1. stage = "bounded"
    BY <1>4
  <2>2. r \in Run /\ r.stage = "bounded" /\ r.upper = newest /\ r.run = run[w].run
        /\ r.mode = run[w].mode /\ r.cursor = run[w].cursor
        /\ r.generation = run[w].generation
    BY <1>1, <1>2, <2>1 DEF Run
  <2>3. run' = [run EXCEPT ![w] = r]
    BY <1>5
  <2>4. newest <= newest
    BY <1>2
  <2> HIDE DEF r
  <2> QED BY <1>1, <1>2, <1>4, <1>5, <2>2, <2>3, <2>4, RunAdvances
<1>6. CASE ReadValues(w)
  <2> DEFINE found == {v \in Present : Wanted(run[w], v)}
             r == [run[w] EXCEPT !.found = found, !.stage = "read"]
  <2>1. r \in Run /\ r.stage = "read" /\ r.upper = run[w].upper /\ r.run = run[w].run
        /\ r.mode = run[w].mode /\ r.cursor = run[w].cursor
        /\ r.generation = run[w].generation
    BY <1>1 DEF Run, Present
  <2>2. run' = [run EXCEPT ![w] = r]
    BY <1>6
  <2>3. run[w].mode # "clear"
    BY <1>1, <1>6 DEF Base, Reading
  <2> HIDE DEF r
  <2> QED BY <1>1, <1>2, <1>4, <1>6, <2>1, <2>2, <2>3, RunAdvances
<1>7. CASE WriteValues(w)
  <2> DEFINE stage == IF run[w].mode = "full" THEN "written" ELSE "done"
             r == [run[w] EXCEPT !.stage = stage, !.found = {}]
  <2>1. r \in Run /\ r.stage = stage /\ r.upper = run[w].upper /\ r.run = run[w].run
        /\ r.mode = run[w].mode /\ r.cursor = run[w].cursor
        /\ r.generation = run[w].generation
    BY <1>1 DEF Run
  <2>2. run' = [run EXCEPT ![w] = r]
    BY <1>7
  <2>3. docs' \in [Values -> {0} \cup Generations]
    BY <1>3, <1>7
  <2>4. run[w].mode # "clear"
    BY <1>1, <1>7 DEF Base, Reading
  <2> HIDE DEF r
  <2> QED BY <1>1, <1>2, <1>4, <1>7, <2>1, <2>2, <2>3, <2>4, RunAdvances
<1>8. CASE PurgeOthers(w)
  <2> DEFINE r == [run[w] EXCEPT !.stage = "done"]
  <2>1. r \in Run /\ r.stage = "done" /\ r.upper = run[w].upper /\ r.run = run[w].run
        /\ r.mode = run[w].mode /\ r.cursor = run[w].cursor
        /\ r.generation = run[w].generation
    BY <1>1 DEF Run
  <2>2. run' = [run EXCEPT ![w] = r]
    BY <1>8
  <2>3. docs' \in [Values -> {0} \cup Generations]
    BY <1>3, <1>8
  <2>4. run[w].mode # "clear"
    BY <1>1, <1>8 DEF Base, Reading
  <2> HIDE DEF r
  <2> QED BY <1>1, <1>2, <1>4, <1>8, <2>1, <2>2, <2>3, <2>4, RunAdvances
<1>9. CASE Clear(w)
  <2> DEFINE r == [run[w] EXCEPT !.stage = "done"]
  <2>1. r \in Run /\ r.stage = "done" /\ r.upper = run[w].upper /\ r.run = run[w].run
        /\ r.mode = run[w].mode /\ r.cursor = run[w].cursor
        /\ r.generation = run[w].generation
    BY <1>1 DEF Run
  <2>2. run' = [run EXCEPT ![w] = r]
    BY <1>9
  <2>3. docs' \in [Values -> {0} \cup Generations] /\ \A v \in Values : docs'[v] = 0
    BY <1>3, <1>9
  <2>4. /\ r.mode = "clear" /\ r.upper <= newest /\ r.stage \notin {"bounded", "read", "written"}
        /\ UNCHANGED <<indexed, state, source, newest, tasks>> /\ trouble' \in 0..MaxTrouble
        /\ lost' \subseteq Values
    BY <1>2, <1>4, <1>9, <2>1
  <2> HIDE DEF r
  <2> QED BY ONLY Base, w \in Workers, <1>1, <2>1, <2>2, <2>3, <2>4, RunAdvances
<1>10. CASE Refusal(w)
  <2> DEFINE r == [run[w] EXCEPT !.stage = "failing"]
  <2>1. r \in Run /\ r.stage = "failing" /\ r.upper = run[w].upper /\ r.run = run[w].run
        /\ r.mode = run[w].mode /\ r.cursor = run[w].cursor
        /\ r.generation = run[w].generation
    BY <1>1 DEF Run
  <2>2. run' = [run EXCEPT ![w] = r]
    BY <1>10
  <2> HIDE DEF r
  <2> QED BY <1>1, <1>2, <1>4, <1>10, <2>1, <2>2, RunAdvances
<1>11. CASE Error(w)
  <2> DEFINE r == [run[w] EXCEPT !.stage = "failing", !.found = {}]
  <2>1. r \in Run /\ r.stage = "failing" /\ r.upper = run[w].upper /\ r.run = run[w].run
        /\ r.mode = run[w].mode /\ r.cursor = run[w].cursor
        /\ r.generation = run[w].generation
    BY <1>1 DEF Run
  <2>2. run' = [run EXCEPT ![w] = r]
    BY <1>11
  <2>3. docs' \in [Values -> {0} \cup Generations]
    BY <1>3, <1>2, <1>11
  <2>4. trouble' \in 0..MaxTrouble
    BY <1>2, <1>11 DEF Mishap
  <2> HIDE DEF r
  <2> QED BY <1>1, <1>2, <1>4, <1>11, <2>1, <2>2, <2>3, <2>4, RunAdvances
<1> QED BY <1>5, <1>6, <1>7, <1>8, <1>9, <1>10, <1>11

\* The ends of a run.
LEMMA EndsKept ==
  ASSUME Base, NEW w \in Workers, Complete(w) \/ RecordFailure(w) \/ Crash(w)
  PROVE  Base' /\ \A v \in Workers : ~Running(v)'
<1> USE DEF Complete, RecordFailure, Crash
<1>1. Running(w) /\ run[w] \in Run
  BY Typed DEF Base
<1>2. /\ state # NoState /\ state \in State /\ state.run = run[w].run
      /\ state.cursor <= newest /\ run[w].cursor = state.cursor
  BY <1>1, Typed DEF Base, Owned, Behind, Taken
<1>3. run' = [run EXCEPT ![w] = Idle] /\ UNCHANGED <<indexed, docs, source, newest, tasks>>
      /\ trouble' \in 0..MaxTrouble /\ lost' \subseteq Values
  BY DEF Mishap, Base, TypeOK
<1>4. CASE Complete(w)
  <2>1. CASE run[w].mode = "clear"
    <3>1. state' = NoState /\ \A v \in Values : docs[v] = 0
      BY <1>1, <1>4, <2>1 DEF Base, Emptied
    <3> QED BY <1>1, <1>3, <3>1, RunEnds
  <2>2. CASE run[w].mode # "clear"
    <3> DEFINE s == [status |-> "succeeded", run |-> 0, stale |-> FALSE,
                     generation |-> run[w].generation, cursor |-> CursorAfter(run[w])]
    <3>1. state' = s
      BY <1>4, <2>2
    <3>2. CursorAfter(run[w]) \in {0} \cup Stamps /\ CursorAfter(run[w]) <= newest
      <4>1. run[w].upper \in {0} \cup Stamps /\ run[w].cursor \in {0} \cup Stamps
        BY <1>1 DEF Run
      <4>2. run[w].upper <= newest /\ run[w].cursor <= newest
        BY <1>1, <1>2 DEF Base, Taken
      <4> QED BY <4>1, <4>2 DEF CursorAfter
    <3>3. s \in State /\ s.cursor <= newest
      BY <1>1, <3>2 DEF State, Run
    <3>4. s # NoState
      BY <3>3, Typed DEF Base
    <3> QED BY <1>1, <1>3, <3>1, <3>3, <3>4, RunEnds
  <2> QED BY <2>1, <2>2
<1>5. CASE RecordFailure(w)
  <2> DEFINE s == [state EXCEPT !.status = "failed", !.run = 0, !.stale = FALSE]
  <2>1. state' = s
    BY <1>2, <1>5 DEF Owns
  <2>2. s \in State /\ s.cursor = state.cursor
    BY <1>2 DEF State
  <2>3. s # NoState
    BY <2>2, Typed DEF Base
  <2> QED BY <1>1, <1>2, <1>3, <2>1, <2>2, <2>3, RunEnds
<1>6. CASE Crash(w)
  BY <1>1, <1>2, <1>3, <1>6, RunEnds
<1> QED BY <1>4, <1>5, <1>6

LEMMA BaseStep ==
  ASSUME Base, [Next]_vars
  PROVE  Base'
<1>1. CASE UNCHANGED vars
  BY <1>1 DEF vars, Base, TypeOK, OneRun, Running, Owned, Behind, Taken, Reading, Emptied, NoOrphans
<1>2. CASE Next
  BY <1>2, SourceKept, ChangesKept, ClaimKept, BeginKept, RefuseKept, StagesKept, EndsKept
     DEF Next
<1> QED BY <1>1, <1>2

-----------------------------------------------------------------------------
(* What is neither in the index nor within the look-back window.           *)

\* The numbers that the arguments compare.
LEMMA Numbers ==
  ASSUME Base
  PROVE  /\ newest \in Nat /\ \A v \in Values : source[v] \in Nat
         /\ state # NoState => state.cursor \in Nat
         /\ \A w \in Workers : Running(w) =>
              /\ run[w].upper \in Nat /\ run[w].cursor \in Nat /\ run[w].upper <= newest
              /\ state # NoState /\ run[w].cursor = state.cursor /\ state.cursor <= newest
<1>1. newest \in Nat /\ \A v \in Values : source[v] \in Nat
  BY DEF Base, TypeOK
<1>2. state # NoState => state.cursor \in Nat
  BY Typed DEF Base, State
<1>3. \A w \in Workers : Running(w) => run[w].upper \in Nat /\ run[w].cursor \in Nat
  BY Typed DEF Base, Run
<1> QED BY <1>1, <1>2, <1>3 DEF Base, Owned, Behind, Taken

\* A value that arrives is late for every run.
LEMMA ArrivalWhole ==
  ASSUME Assumed, Base, Whole, NEW u \in Values, Arrive(u)
  PROVE  Whole'
<1>1. PICK t \in Stamps : t >= newest - Lag /\ source' = [source EXCEPT ![u] = t]
  BY DEF Arrive
<1>2. /\ UNCHANGED <<state, docs, run, lost>>
      /\ source'[u] = t /\ \A v \in Values : v # u => source'[v] = source[v]
  BY <1>1 DEF Arrive, Base, TypeOK
<1>3. \A v \in Values : v \in Present' => v = u \/ (v \in Present /\ source'[v] = source[v])
  BY <1>2 DEF Present
<1>4. t \in Nat /\ Lag \in Nat /\ Lookback \in Nat
  OBVIOUS
<1>5. NothingMissed'
  <2>1. state # NoState => t >= state.cursor - Lookback
    BY <1>1, <1>4, Numbers DEF Assumed, Base, Behind
  <2> QED BY <1>2, <1>3, <2>1 DEF Whole, NothingMissed, Present
<1>6. \A w \in Workers : Running(w)' <=> Running(w)
  BY <1>2 DEF Running
<1>7. Reached'
  <2>1. \A w \in Workers : Running(w) => t >= run[w].upper - Lag
    BY <1>1, <1>4, Numbers
  <2>2. \A v \in Present' : v \in Values
    BY DEF Present
  <2>3. \A w \in Workers : Running(w) => Late(w, u)'
    BY <1>2, <2>1 DEF Late
  <2>4. \A w \in Workers, v \in Present : v # u => (Late(w, v)' <=> Late(w, v))
    BY <1>2 DEF Late, Present
  <2> QED BY <1>2, <1>3, <1>6, <2>2, <2>3, <2>4 DEF Whole, Reached
<1> QED BY <1>5, <1>7 DEF Whole

\* Steps that touch nothing of this.
LEMMA AsideWhole ==
  ASSUME Whole, UNCHANGED <<state, docs, source, run, lost>>
  PROVE  Whole'
BY DEF Whole, NothingMissed, Reached, Late, Present, Running

\* Whatever administrators change, a run has read and written what it has.
LEMMA ChangesWhole ==
  ASSUME Base, Whole, Toggle \/ Edit
  PROVE  Whole'
<1>1. /\ \A w \in Workers : Running(w)' <=> Running(w)
      /\ \A w \in Workers : Running(w) =>
           run'[w] = [run[w] EXCEPT !.changed = TRUE] /\ run[w] \in Run
  BY ChangesKept, Typed DEF Base
<1>2. \A w \in Workers : Running(w) =>
        /\ run'[w].stage = run[w].stage /\ run'[w].mode = run[w].mode
        /\ run'[w].generation = run[w].generation /\ run'[w].upper = run[w].upper
        /\ run'[w].found = run[w].found
  <2> TAKE w \in Workers
  <2> HAVE Running(w)
  <2>1. run[w] \in Run /\ run'[w] = [run[w] EXCEPT !.changed = TRUE]
    BY <1>1
  <2> QED BY ONLY <2>1 DEF Run
<1>3. UNCHANGED <<state, docs, source, lost>> /\ Present' = Present
  BY DEF Toggle, Edit, Present
<1>4. NothingMissed'
  BY <1>3 DEF Whole, NothingMissed
<1>5. Reached'
  BY <1>1, <1>2, <1>3 DEF Whole, Reached, Late
<1> QED BY <1>4, <1>5 DEF Whole

LEMMA ClaimWhole ==
  ASSUME Base, Whole, Dispatch \/ Age
  PROVE  Whole'
<1>1. UNCHANGED <<docs, source, lost>> /\ Present' = Present
  BY DEF Dispatch, Age, Present
<1>2. NothingMissed'
  BY <1>1, ClaimKept DEF Whole, NothingMissed
<1> QED BY <1>2, ClaimKept DEF Whole, Reached

LEMMA BeginWhole ==
  ASSUME Base, Whole, NEW w \in Workers, NEW mode \in Modes, Begin(w, mode)
  PROVE  Whole'
<1>1. UNCHANGED <<docs, source, lost>> /\ Present' = Present
      /\ \A v \in Workers : v # w => run'[v] = run[v]
  BY DEF Begin, Present, Base, TypeOK
<1>2. \A v \in Workers : Running(v)' => v = w
  BY <1>1, BeginKept DEF Running
<1>3. NothingMissed'
  BY <1>1, BeginKept DEF Whole, NothingMissed
<1>4. Reached'
  BY <1>1, <1>2, BeginKept DEF Reached
<1> QED BY <1>3, <1>4 DEF Whole

\* The run with its next stage, and what it has to show for it.
LEMMA StagesWhole ==
  ASSUME Assumed, Base, Whole, NEW w \in Workers,
         ReadBound(w) \/ ReadValues(w) \/ WriteValues(w) \/ PurgeOthers(w) \/ Clear(w)
           \/ Refusal(w) \/ Error(w)
  PROVE  Whole'
<1>1. Running(w) /\ run[w] \in Run /\ \A v \in Workers : Running(v) => v = w
  BY Typed DEF Base, OneRun, ReadBound, ReadValues, WriteValues, PurgeOthers, Clear, Refusal, Error
<1>2. UNCHANGED <<indexed, state, source>> /\ Present' = Present
      /\ \A v \in Workers : v # w => run'[v] = run[v]
  BY DEF Present, Base, TypeOK, ReadBound, ReadValues, WriteValues, PurgeOthers, Clear,
         Refusal, Error
<1>3. \A v \in Workers : Running(v)' => v = w
  BY <1>1, <1>2 DEF Running
<1>4. run'[w].mode = run[w].mode /\ run'[w].generation = run[w].generation
  BY <1>1 DEF Run, Base, TypeOK, ReadBound, ReadValues, WriteValues, PurgeOthers, Clear,
         Refusal, Error
<1>5. CASE run[w].mode = "clear"
  <2>1. Reached'
    BY <1>3, <1>4, <1>5 DEF Reached
  <2>2. (UNCHANGED docs /\ UNCHANGED lost) \/ lost' = lost \cup Removed(run[w])
    BY <1>1, <1>5 DEF Base, Reading, ReadBound, ReadValues, WriteValues, PurgeOthers,
         Clear, Refusal, Error
  <2>3. \A v \in Present' \ lost' : v \in Present \ lost /\ (docs[v] # 0 => docs'[v] # 0)
    BY <1>2, <1>5, <2>2 DEF Removed, Present
  <2>4. NothingMissed'
    BY <1>2, <2>3 DEF Whole, NothingMissed
  <2> QED BY <2>1, <2>4 DEF Whole
<1>6. SUFFICES ASSUME run[w].mode # "clear" PROVE NothingMissed' /\ Reached'
  BY <1>5 DEF Whole
<1>7. UNCHANGED lost
  BY <1>6 DEF Removed, ReadBound, ReadValues, WriteValues, PurgeOthers, Clear, Refusal, Error
<1>8. /\ run[w].generation # 0 /\ run[w].upper \in Nat /\ run[w].cursor \in Nat
      /\ state # NoState /\ run[w].cursor = state.cursor
      /\ Lag \in Nat /\ Lookback \in Nat /\ Lag <= Lookback
      /\ \A v \in Present : v \in Values /\ source[v] \in Nat
  BY <1>1, <1>6, Numbers DEF Base, Taken, Assumed, Present
<1>9. ASSUME UNCHANGED docs \/ (\A v \in Values : docs'[v] = docs[v] \/ docs'[v] = run[w].generation)
      PROVE  NothingMissed'
  <2>1. \A v \in Values : docs[v] # 0 => docs'[v] # 0
    BY <1>8, <1>9
  <2> QED BY <1>2, <1>8, <1>7, <2>1 DEF Whole, NothingMissed
<1>10. ASSUME run'[w].stage \notin {"read", "written", "done"}
      PROVE  Reached'
  BY <1>3, <1>10 DEF Reached
<1>11. CASE ReadBound(w)
  <2>1. newest # 0 \/ run[w].mode # "incremental"
    BY <1>1, <1>8, Numbers DEF Base, Taken
  <2>2. run'[w].stage = "bounded" /\ UNCHANGED docs
    BY <1>1, <1>11, <2>1 DEF ReadBound, Run, Base, TypeOK
  <2> QED BY <1>9, <1>10, <2>2
<1>12. CASE ReadValues(w)
  <2>1. /\ run'[w].found = {v \in Present : Wanted(run[w], v)} /\ UNCHANGED docs
        /\ run'[w].stage = "read" /\ run'[w].upper = run[w].upper
    BY <1>1, <1>12 DEF ReadValues, Run, Base, TypeOK
  <2>2. ASSUME NEW v \in Present
        PROVE  \/ v \in run'[w].found \/ source[v] >= run[w].upper - Lag
               \/ run[w].mode = "incremental" /\ (docs[v] # 0 \/ v \in lost)
    <3>1. CASE run[w].mode = "full"
      BY <2>1, <3>1 DEF Wanted
    <3>2. CASE run[w].mode = "incremental"
      <4>1. v \in lost \/ docs[v] # 0 \/ source[v] >= run[w].cursor - Lookback
        BY <1>1, <1>6, <1>8, <3>2 DEF Whole, NothingMissed, Base, Taken
      <4>2. source[v] > run[w].upper => source[v] >= run[w].upper - Lag
        BY <1>8
      <4>3. source[v] >= run[w].cursor - Lookback /\ ~(source[v] > run[w].upper) =>
              Wanted(run[w], v)
        BY <1>8 DEF Wanted
      <4> QED BY <2>1, <3>2, <4>1, <4>2, <4>3
    <3> QED BY <1>1, <1>6, <3>1, <3>2 DEF Run
  <2>3. Reached'
    BY <1>2, <1>3, <1>4, <1>7, <2>1, <2>2 DEF Reached, Late
  <2> QED BY <1>9, <2>1, <2>3
<1>13. CASE WriteValues(w)
  <2>1. \A v \in Values : docs'[v] = IF v \in run[w].found THEN run[w].generation ELSE docs[v]
    BY <1>13 DEF WriteValues, Outcome
  <2>2. \A v \in Present : \/ v \in run[w].found \/ source[v] >= run[w].upper - Lag
                           \/ run[w].mode = "incremental" /\ (docs[v] # 0 \/ v \in lost)
    BY <1>1, <1>6, <1>13 DEF WriteValues, Whole, Reached, Late
  <2>3. /\ run'[w].stage = IF run[w].mode = "full" THEN "written" ELSE "done"
        /\ run'[w].upper = run[w].upper
    <3> DEFINE stage == IF run[w].mode = "full" THEN "written" ELSE "done"
    <3>1. run' = [run EXCEPT ![w] = [run[w] EXCEPT !.stage = stage, !.found = {}]]
      BY <1>13 DEF WriteValues
    <3>2. run'[w] = [run[w] EXCEPT !.stage = stage, !.found = {}]
      BY <3>1 DEF Base, TypeOK
    <3>0. run[w] \in Run /\ stage \in {"written", "done"}
      BY <1>1
    <3> HIDE DEF stage
    <3>3. run'[w].stage = stage /\ run'[w].upper = run[w].upper
      BY <3>0, <3>2 DEF Run
    <3> QED BY <3>3 DEF stage
  <2>4. CASE run[w].mode = "full"
    <3>1. \A v \in Present : docs'[v] = run[w].generation \/ source[v] >= run[w].upper - Lag
      BY <1>8, <2>1, <2>2, <2>4
    <3>2. NothingMissed'
      <4>1. \A v \in Values : docs'[v] = docs[v] \/ docs'[v] = run[w].generation
        BY <2>1
      <4> QED BY <1>9, <4>1
    <3>3. Reached'
      BY <1>2, <1>3, <1>4, <1>7, <2>3, <2>4, <3>1 DEF Reached, Late
    <3> QED BY <3>2, <3>3
  <2>5. CASE run[w].mode = "incremental"
    <3>1. \A v \in Present : docs'[v] # 0 \/ v \in lost \/ source[v] >= run[w].upper - Lag
      BY <1>8, <2>1, <2>2, <2>5
    <3>2. NothingMissed'
      <4>1. \A v \in Values : docs'[v] = docs[v] \/ docs'[v] = run[w].generation
        BY <2>1
      <4> QED BY <1>9, <4>1
    <3>3. Reached'
      BY <1>2, <1>3, <1>4, <1>7, <2>3, <2>5, <3>1 DEF Reached, Late
    <3> QED BY <3>2, <3>3
  <2> QED BY <1>1, <1>6, <2>4, <2>5 DEF Run
<1>14. ASSUME run[w].stage = "written", NEW S \in SUBSET Values,
              docs' = [v \in Values |-> IF v \in S THEN Outcome(run[w], v) ELSE docs[v]]
       PROVE  /\ NothingMissed'
              /\ \A v \in Present : docs'[v] = docs[v] \/ docs[v] # run[w].generation
  <2>1. \A v \in Present : docs[v] = run[w].generation \/ source[v] >= run[w].upper - Lag
    BY <1>1, <1>6, <1>14 DEF Whole, Reached, Late
  <2>2. \A v \in Values : docs[v] = run[w].generation => docs'[v] = docs[v]
    BY <1>14 DEF Outcome
  <2>3. run[w].cursor <= run[w].upper
    BY <1>1, <1>6, <1>14 DEF Base, Taken
  <2>4. \A v \in Present : docs'[v] # 0 \/ source[v] >= state.cursor - Lookback
    BY <1>8, <2>1, <2>2, <2>3
  <2> QED BY <1>2, <1>8, <2>2, <2>4 DEF NothingMissed
<1>15. CASE PurgeOthers(w)
  <2>1. /\ run[w].stage = "written"
        /\ docs' = [v \in Values |-> IF v \in Values THEN Outcome(run[w], v) ELSE docs[v]]
    BY <1>15 DEF PurgeOthers
  <2>2. NothingMissed' /\ \A v \in Present : docs'[v] = docs[v] \/ docs[v] # run[w].generation
    BY <1>14, <2>1
  <2>3. \A v \in Present : docs[v] = run[w].generation \/ source[v] >= run[w].upper - Lag
    BY <1>1, <1>6, <2>1 DEF Whole, Reached, Late
  <2>4. run'[w].stage = "done" /\ run'[w].upper = run[w].upper
    BY <1>1, <1>15 DEF PurgeOthers, Run, Base, TypeOK
  <2>5. \A v \in Present : docs'[v] # 0 \/ source[v] >= run[w].upper - Lag
    BY <1>8, <2>2, <2>3
  <2> QED BY <1>2, <1>3, <2>2, <2>4, <2>5 DEF Reached, Late
<1>16. CASE Refusal(w)
  <2>1. run'[w].stage = "failing" /\ UNCHANGED docs
    BY <1>1, <1>16 DEF Refusal, Run, Base, TypeOK
  <2> QED BY <1>9, <1>10, <2>1
<1>17. CASE Error(w)
  <2>1. run'[w].stage = "failing"
    BY <1>1, <1>17 DEF Error, Run, Base, TypeOK
  <2>2. PICK S \in SUBSET Values :
          docs' = [v \in Values |-> IF v \in S THEN Outcome(run[w], v) ELSE docs[v]]
    BY <1>17 DEF Error
  <2>3. CASE run[w].stage = "written"
    BY <1>10, <1>14, <2>1, <2>2, <2>3
  <2>4. CASE run[w].stage # "written"
    <3>1. \A v \in Values : docs'[v] = docs[v] \/ docs'[v] = run[w].generation
      BY <1>6, <2>2, <2>4 DEF Outcome
    <3> QED BY <1>9, <1>10, <2>1, <3>1
  <2> QED BY <2>3, <2>4
<1>18. ~Clear(w)
  BY <1>6 DEF Clear
<1> QED BY <1>11, <1>12, <1>13, <1>15, <1>16, <1>17, <1>18

\* What a run vouches for when it commits.
LEMMA EndsWhole ==
  ASSUME Assumed, Base, Whole, NEW w \in Workers, Complete(w) \/ RecordFailure(w) \/ Crash(w)
  PROVE  Whole'
<1>1. Running(w) /\ run[w] \in Run /\ \A v \in Workers : ~Running(v)'
  BY Typed, EndsKept DEF Base, Complete, RecordFailure, Crash
<1>2. UNCHANGED <<docs, source>> /\ Present' = Present
  BY DEF Present, Complete, RecordFailure, Crash
<1>3. state # NoState /\ state \in State
  BY <1>1, Typed DEF Base, Owned
<1>4. Reached'
  BY <1>1 DEF Reached
<1>5. CASE Complete(w)
  <2>1. CASE run[w].mode = "clear"
    <3>1. state' = NoState
      BY <1>5, <2>1 DEF Complete
    <3> QED BY <1>4, <3>1 DEF Whole, NothingMissed
  <2>2. CASE run[w].mode # "clear"
    <3>1. /\ state'.cursor = CursorAfter(run[w]) /\ run[w].stage = "done"
          /\ run[w].mode = "incremental" => lost' = lost
      BY <1>5, <2>2 DEF Complete
    <3>2. \A v \in Present \ lost' : docs[v] # 0 \/ source[v] >= run[w].upper - Lag
      BY <1>1, <2>2, <3>1 DEF Whole, Reached, Late
    <3>3. run[w].cursor <= run[w].upper /\ run[w].upper \in Nat /\ run[w].cursor \in Nat
      BY <1>1, <2>2, <3>1, Numbers DEF Base, Taken
    <3>4. state'.cursor # 0 => state'.cursor = run[w].upper
      BY <3>1, <3>3 DEF CursorAfter
    <3>5. \A v \in Present : source[v] \in Nat
      BY Numbers DEF Present
    <3>6. state'.cursor # 0 =>
            \A v \in Present \ lost' : docs[v] # 0 \/ source[v] >= state'.cursor - Lookback
      BY <3>2, <3>3, <3>4, <3>5 DEF Assumed
    <3>7. NothingMissed'
      BY <1>2, <3>6 DEF NothingMissed
    <3> QED BY <1>4, <3>7 DEF Whole
  <2> QED BY <2>1, <2>2
<1>6. CASE RecordFailure(w) \/ Crash(w)
  <2>1. state'.cursor = state.cursor /\ state'.generation = state.generation /\ lost' = lost
    BY <1>3, <1>6 DEF State, RecordFailure, Crash
  <2>2. NothingMissed'
    BY <1>2, <1>3, <2>1 DEF Whole, NothingMissed
  <2> QED BY <1>4, <2>2 DEF Whole
<1> QED BY <1>5, <1>6

LEMMA WholeInit == Init => Whole
BY DEF Init, Whole, NothingMissed, Reached, Running

LEMMA WholeStep ==
  ASSUME Assumed, Base, Whole, [Next]_vars
  PROVE  Whole'
<1>1. CASE UNCHANGED vars
  BY <1>1, AsideWhole DEF vars
<1>2. CASE ArriveElse \/ (\E mode \in Modes : Request(mode))
  BY <1>2, AsideWhole DEF ArriveElse, Request
<1>3. ASSUME NEW w \in Workers, NEW mode \in Modes, Refuse(w, mode) PROVE Whole'
  BY <1>3, AsideWhole DEF Refuse
<1> QED BY <1>1, <1>2, <1>3, ArrivalWhole, ChangesWhole, ClaimWhole, BeginWhole, StagesWhole,
          EndsWhole DEF Next

-----------------------------------------------------------------------------
THEOREM Invariance == Spec => []Base
<1>1. Init => Base
  BY BaseInit
<1>2. Base /\ [Next]_vars => Base'
  BY BaseStep
<1> QED BY <1>1, <1>2, PTL DEF Spec

(* The types of the state row, the documents and the runs.                 *)
THEOREM TypeCorrect == Spec => []TypeOK
<1>1. Base => TypeOK
  BY DEF Base
<1> QED BY <1>1, Invariance, PTL

(* One run writes at a time: a second one begins only when the claim of    *)
(* the first is given back or stale, and a claim gets stale without a run. *)
THEOREM OneRunAlways == Spec => []OneRun
<1>1. Base => OneRun
  BY DEF Base
<1> QED BY <1>1, Invariance, PTL

(* Rows show up within the look-back window: a committed cursor then       *)
(* vouches for all it has passed, what an uncommitted clear run took away  *)
(* left aside, and a missing state row for no documents, however often the *)
(* index is switched off and on.                                           *)
THEOREM DocumentsFit ==
  ASSUME Lag <= Lookback
  PROVE  Spec => []DocumentsFitState
<1>1. Init => Base /\ Whole
  BY BaseInit, WholeInit
<1>2. Base /\ Whole /\ [Next]_vars => (Base /\ Whole)'
  BY BaseStep, WholeStep DEF Assumed
<1>3. Base /\ Whole => DocumentsFitState
  BY DEF Base, Whole, DocumentsFitState
<1> QED BY <1>1, <1>2, <1>3, PTL DEF Spec

=============================================================================
