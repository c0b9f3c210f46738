------------------------- MODULE CatalogSyncProofs -------------------------
(***************************************************************************)
(* The semantic index follows the catalogue, for any resources, editors    *)
(* and workers.  Whatever changes a row or loses documents leaves a trace  *)
(* - a task, an edit on its way to one, an entry of `lost' - until a       *)
(* worker has read the row under the lock of the resource (Behind); from   *)
(* there on what it has planned fits (Followed), or there is a new trace.  *)
(***************************************************************************)
EXTENDS CatalogSync, TLAPS

Content == [name : {c.name : c \in Contents \cup {Nothing}},
            description : {c.description : c \in Contents \cup {Nothing}},
            alias : {c.alias : c \in Contents \cup {Nothing}}, uses : SUBSET Columns]
Wording == UNION {Texts(c) : c \in Contents \cup {Nothing}}
Document == [role : {"name", "description", "alias"}, payload : Content,
             meta : 0..MaxVersion, rev : 1..MaxRevision, vec : 1..MaxRevision]
Change == [stage : {"idle", "read", "committed"}, import : BOOLEAN,
           want : UNION {[R -> Contents] : R \in SUBSET Resources},
           base : [Resources -> 0..MaxVersion],
           change : SUBSET Resources, drop : SUBSET Resources, left : SUBSET Resources]
Synchronisation ==
    [stage : {"idle", "taken", "planned", "written"}, keys : SUBSET Resources,
     res : Resources \cup {"none"}, content : Content, meta : 0..MaxVersion,
     write : SUBSET Wording, embed : SUBSET Wording, remove : SUBSET Wording]

TypeOK ==
    /\ row \in [Resources -> [content : Content, meta : 0..MaxVersion, index : 0..MaxVersion]]
    /\ docs = [r \in Resources |-> docs[r]]
    /\ \A r \in Resources : /\ DOMAIN docs[r] \subseteq Wording
                            /\ \A t \in DOMAIN docs[r] : docs[r][t] \in Document
    /\ revision \in 1..MaxRevision
    /\ edit \in [Editors -> Change]
    /\ \A e \in Editors : edit[e].stage = "read" => edit[e].change \subseteq DOMAIN edit[e].want
    /\ queue \subseteq SUBSET Resources
    /\ sync \in [Workers -> Synchronisation]
    /\ lost \subseteq Resources
    /\ edits \in 0..MaxEdits
    /\ trouble \in 0..MaxTrouble

-----------------------------------------------------------------------------
\* The worker holds the lock of its resource.
Holds(w) == sync[w].stage \in {"planned", "written"}

Locked ==
    /\ \A w \in Workers : Holds(w) => sync[w].res \in sync[w].keys
    /\ \A v, w \in Workers : Holds(v) /\ Holds(w) /\ sync[v].res = sync[w].res => v = w

\* What is changed in place has a vector of the model that is deployed.
InPlaceFits ==
    \A w \in Workers : sync[w].stage = "planned" =>
        \A t \in InPlace(w) \cap DOMAIN docs[sync[w].res] : docs[sync[w].res][t].rev = revision

VInv == TypeOK /\ Locked /\ InPlaceFits /\ VectorsOfTheirModel

-----------------------------------------------------------------------------
\* The worker has the lock of r.
At(w, r) == Holds(w) /\ sync[w].res = r

\* Somebody still has to look at r.
Waiting(w, r) == sync[w].stage # "idle" /\ r \in sync[w].keys /\ ~At(w, r)
Altering(e, r) ==
    \/ edit[e].stage = "committed" /\ r \in edit[e].change
    \/ edit[e].stage = "read" /\ r \in edit[e].drop \ edit[e].left
Behind(r) ==
    \/ r \in lost
    \/ \E m \in queue : r \in m
    \/ \E w \in Workers : Waiting(w, r)
    \/ \E e \in Editors : Altering(e, r)

Agrees(r) ==
    /\ DOMAIN docs[r] = Texts(row[r].content)
    /\ \A t \in DOMAIN docs[r] :
          /\ docs[r][t].role = Role(row[r].content, t)
          /\ docs[r][t].payload = row[r].content
          /\ docs[r][t].meta = row[r].meta

\* The plan is made of the row and of the documents there are.
Fits(w, r) ==
    /\ sync[w].content = row[r].content /\ sync[w].meta = row[r].meta
    /\ sync[w].write = {t \in Texts(row[r].content) :
                          NeedsWrite(row[r].content, row[r].meta, t, docs[r])}
    /\ sync[w].remove = Obsolete(row[r].content, docs[r])

Followed(r) ==
    /\ \A w \in Workers : At(w, r) =>
          IF sync[w].stage = "planned" THEN Fits(w, r)
          ELSE Agrees(r) /\ sync[w].meta = row[r].meta
    /\ (\A w \in Workers : ~At(w, r)) =>
          Agrees(r) /\ row[r].index = row[r].meta

Leaving == \A e \in Editors : edit[e].left \subseteq edit[e].drop

Followers == \A r \in Resources : Exists(r) /\ ~Behind(r) => Followed(r)

SInv == TypeOK /\ Locked /\ Leaving /\ Followers

-----------------------------------------------------------------------------
(* Types.                                                                  *)

LEMMA ContentType ==
  /\ Contents \subseteq Content /\ Nothing \in Content
  /\ \A c \in Content : /\ Texts(c) \subseteq Wording
                        /\ \A D : [c EXCEPT !.uses = c.uses \ D] \in Content
<1>1. Contents \subseteq Content
  BY CatalogAssumption DEF Content
<1>2. Nothing \in Content
  BY DEF Content, Nothing
<1>3. ASSUME NEW c \in Content PROVE Texts(c) \subseteq Wording
  <2>1. PICK n \in Contents \cup {Nothing} : c.name = n.name
    BY DEF Content
  <2>2. PICK d \in Contents \cup {Nothing} : c.description = d.description
    BY DEF Content
  <2>3. PICK a \in Contents \cup {Nothing} : c.alias = a.alias
    BY DEF Content
  <2> QED BY <2>1, <2>2, <2>3 DEF Texts, Wording
<1>4. ASSUME NEW c \in Content, NEW D PROVE [c EXCEPT !.uses = c.uses \ D] \in Content
  BY DEF Content
<1> QED BY <1>1, <1>2, <1>3, <1>4

LEMMA IdleType == NoEdit \in Change /\ NoSync \in Synchronisation
<1>1. [r \in {} |-> Nothing] \in [{} -> Contents] /\ {} \in SUBSET Resources
  OBVIOUS
<1>2. [r \in Resources |-> 0] \in [Resources -> 0..MaxVersion]
  BY CatalogAssumption
<1>3. NoEdit \in Change
  BY <1>1, <1>2 DEF NoEdit, Change
<1>4. NoSync \in Synchronisation
  BY ContentType, CatalogAssumption DEF NoSync, Synchronisation
<1> QED BY <1>3, <1>4

LEMMA TypeInit == Init => TypeOK
<1> SUFFICES ASSUME Init PROVE TypeOK
  OBVIOUS
<1>1. NoRow \in [content : Content, meta : 0..MaxVersion, index : 0..MaxVersion]
  BY ContentType, CatalogAssumption DEF NoRow
<1>2. NoEdit.stage = "idle"
  BY DEF NoEdit
<1> QED BY <1>1, <1>2, IdleType, CatalogAssumption DEF Init, TypeOK

\* What differs, with the versions seen.
LEMMA Differences ==
  ASSUME TypeOK, NEW want, want \in [DOMAIN want -> Contents], DOMAIN want \subseteq Resources
  PROVE  /\ Differing(want) \subseteq DOMAIN want
         /\ Seen(Differing(want)) \in [Resources -> 0..MaxVersion]
         /\ want \in UNION {[R -> Contents] : R \in SUBSET Resources}
<1>1. Differing(want) \subseteq DOMAIN want
  BY DEF Differing
<1>2. Seen(Differing(want)) \in [Resources -> 0..MaxVersion]
  BY CatalogAssumption DEF Seen, TypeOK
<1> QED BY <1>1, <1>2

\* A change that begins.
Readable(s) == s.stage = "read" /\ s.left = s.drop /\ s.change \subseteq DOMAIN s.want

\* The change that an administrator or an import begins.
LEMMA BeginsWith ==
  ASSUME TypeOK, NEW e \in Editors, Edit(e)
  PROVE  \E s \in Change : Readable(s) /\ Begin(e, s)
<1>1. ASSUME NEW r \in Resources, NEW c \in Saying[r], Upsert(e, r, c)
      PROVE  \E s \in Change : Readable(s) /\ Begin(e, s)
  <2> DEFINE want == [x \in {r} |-> c]
             s == [NoEdit EXCEPT !.stage = "read", !.want = want,
                           !.base = Seen(Differing(want)), !.change = Differing(want)]
  <2>1. want \in [DOMAIN want -> Contents] /\ DOMAIN want \subseteq Resources
    BY CatalogAssumption
  <2>2. s \in Change /\ Readable(s)
    <3> HIDE DEF want
    <3>1. DOMAIN want \subseteq Resources
      BY <2>1
    <3> QED BY <2>1, Differences, IdleType, <3>1 DEF Change, NoEdit, Readable
  <2>3. Begin(e, s)
    BY <1>1 DEF Upsert
  <2> QED BY <2>2, <2>3
<1>2. ASSUME NEW D \in (SUBSET Columns) \cup (SUBSET Metrics), Delete(e, D)
      PROVE  \E s \in Change : Readable(s) /\ Begin(e, s)
  <2> DEFINE s == [NoEdit EXCEPT !.stage = "read", !.drop = D, !.left = D]
  <2>1. s \in Change /\ Readable(s)
    BY IdleType DEF Change, NoEdit, Resources, Readable
  <2>2. Begin(e, s)
    BY <1>2 DEF Delete
  <2> QED BY <2>1, <2>2
<1>3. ASSUME NEW want \in Imports, NEW replace \in BOOLEAN, Import(e, want, replace)
      PROVE  \E s \in Change : Readable(s) /\ Begin(e, s)
  <2> DEFINE present == {r \in Resources : Exists(r)}
             absent == IF replace THEN present \ DOMAIN want ELSE {}
             s == [NoEdit EXCEPT !.stage = "read", !.import = TRUE, !.want = want,
                          !.base = Seen(Differing(want)), !.change = Differing(want),
                          !.drop = absent, !.left = absent]
  <2>1. want \in [DOMAIN want -> Contents] /\ DOMAIN want \subseteq Resources
    BY CatalogAssumption
  <2>2. absent \subseteq Resources
    OBVIOUS
  <2>3. s \in Change /\ Readable(s)
    <3> HIDE DEF absent
    <3> QED BY <2>1, <2>2, Differences, IdleType DEF Change, NoEdit, Readable
  <2>4. Begin(e, s)
    BY <1>3 DEF Import
  <2> QED BY <2>3, <2>4
<1> QED BY <1>1, <1>2, <1>3 DEF Edit

\* Versions are bounded by the database, contents are those of the documents.
LEMMA CommitType ==
  ASSUME TypeOK, NEW e \in Editors, Commit(e)
  PROVE  row' \in [Resources -> [content : Content, meta : 0..MaxVersion, index : 0..MaxVersion]]
<1> DEFINE Row == [content : Content, meta : 0..MaxVersion, index : 0..MaxVersion]
<1>1. edit[e] \in Change /\ Accepted(e)
  BY DEF TypeOK, Commit
<1>2. ASSUME NEW r \in Resources, r \in edit[e].change PROVE Changed(e, r) \in Row
  <2>1. edit[e].want[r] \in Content
    <3>1. PICK R \in SUBSET Resources : edit[e].want \in [R -> Contents]
      BY <1>1 DEF Change
    <3>2. r \in R
      BY <1>2, <3>1 DEF TypeOK, Commit
    <3> QED BY <3>1, <3>2, ContentType
  <2>2. NewVersion(e, r) \in 0..MaxVersion
    <3>1. row[r].meta \in Nat /\ edit[e].base[r] \in Nat
      BY <1>1, CatalogAssumption DEF Change, TypeOK
    <3>2. NewVersion(e, r) \in Nat /\ NewVersion(e, r) <= MaxVersion
      BY <1>1, <1>2, <3>1 DEF Accepted, NewVersion
    <3> QED BY <3>2, CatalogAssumption
  <2> QED BY <2>1, <2>2 DEF Changed, TypeOK
<1>3. ASSUME NEW r \in Resources PROVE Without(r, edit[e].drop) \in Row
  <2>1. row[r] \in Row
    BY DEF TypeOK
  <2> PICK x \in Row : x = row[r]
    BY <2>1
  <2>2. [x.content EXCEPT !.uses = x.content.uses \ edit[e].drop] \in Content
    BY ContentType
  <2>3. Without(r, edit[e].drop) =
          [x EXCEPT !.content = [x.content EXCEPT !.uses = x.content.uses \ edit[e].drop]]
    BY DEF Without
  <2> QED BY <2>2, <2>3
<1>4. NoRow \in Row
  BY ContentType, CatalogAssumption DEF NoRow
<1> QED BY <1>2, <1>3, <1>4 DEF Commit, CommitRows

\* What a write leaves in Elasticsearch.
LEMMA WrittenDocs ==
  ASSUME TypeOK, NEW w \in Workers, NEW done, sync[w].res \in Resources, Written(w, done)
  PROVE  LET r == sync[w].res
             put == sync[w].write \cap done
         IN  /\ docs' = [q \in Resources |-> docs'[q]]
             /\ \A q \in Resources \ {r} : docs'[q] = docs[q]
             /\ DOMAIN docs'[r] = (DOMAIN docs[r] \ (sync[w].remove \cap done)) \cup put
             /\ \A t \in DOMAIN docs'[r] \ put : docs'[r][t] = docs[r][t]
             /\ \A t \in put : docs'[r][t] =
                   [role |-> Role(sync[w].content, t), payload |-> sync[w].content,
                    meta |-> sync[w].meta, rev |-> revision,
                    vec |-> IF t \in sync[w].embed THEN revision ELSE docs[r][t].vec]
<1> DEFINE r == sync[w].res
           put == sync[w].write \cap done
           new == [t \in (DOMAIN docs[r] \ (sync[w].remove \cap done)) \cup put |->
                     IF t \notin put THEN docs[r][t]
                     ELSE [role |-> Role(sync[w].content, t), payload |-> sync[w].content,
                           meta |-> sync[w].meta, rev |-> revision,
                           vec |-> IF t \in sync[w].embed THEN revision ELSE docs[r][t].vec]]
<1>1. docs' = [docs EXCEPT ![r] = new]
  BY DEF Written
<1>2. docs = [q \in Resources |-> docs[q]] /\ r \in Resources
  BY DEF TypeOK
<1> HIDE DEF new
<1>3. /\ docs' = [q \in Resources |-> docs'[q]] /\ docs'[r] = new
      /\ \A q \in Resources \ {r} : docs'[q] = docs[q]
  BY <1>1, <1>2
<1> USE DEF new
<1>4. DOMAIN docs'[r] = (DOMAIN docs[r] \ (sync[w].remove \cap done)) \cup put
  BY <1>3
<1>5. \A t \in DOMAIN docs'[r] \ put : docs'[r][t] = docs[r][t]
  BY <1>3
<1>6. \A t \in put : docs'[r][t] =
         [role |-> Role(sync[w].content, t), payload |-> sync[w].content,
          meta |-> sync[w].meta, rev |-> revision,
          vec |-> IF t \in sync[w].embed THEN revision ELSE docs[r][t].vec]
  BY <1>3
<1> QED BY <1>3, <1>4, <1>5, <1>6

\* It is made of documents.
LEMMA WrittenType ==
  ASSUME TypeOK, NEW w \in Workers, NEW done, sync[w].res \in Resources, Written(w, done),
         done \cap InPlace(w) \subseteq DOMAIN docs[sync[w].res]
  PROVE  /\ docs' = [q \in Resources |-> docs'[q]]
         /\ \A q \in Resources : /\ DOMAIN docs'[q] \subseteq Wording
                                 /\ \A t \in DOMAIN docs'[q] : docs'[q][t] \in Document
<1>1. PICK r \in Resources : r = sync[w].res
  OBVIOUS
<1>2. PICK put : put = sync[w].write \cap done
  OBVIOUS
<1>3. sync[w] \in Synchronisation /\ revision \in 1..MaxRevision
  BY DEF TypeOK
<1>4. /\ docs' = [q \in Resources |-> docs'[q]]
      /\ \A q \in Resources \ {r} : docs'[q] = docs[q]
      /\ DOMAIN docs'[r] = (DOMAIN docs[r] \ (sync[w].remove \cap done)) \cup put
      /\ \A t \in DOMAIN docs'[r] \ put : docs'[r][t] = docs[r][t]
      /\ \A t \in put : docs'[r][t] =
            [role |-> Role(sync[w].content, t), payload |-> sync[w].content,
             meta |-> sync[w].meta, rev |-> revision,
             vec |-> IF t \in sync[w].embed THEN revision ELSE docs[r][t].vec]
  BY <1>1, <1>2, WrittenDocs
<1>5. DOMAIN docs'[r] \subseteq Wording
  BY <1>1, <1>2, <1>3, <1>4 DEF TypeOK, Synchronisation
<1>6. ASSUME NEW t \in put PROVE docs'[r][t] \in Document
  <2>1. t \in sync[w].embed \/ docs[r][t] \in Document
    <3>1. t \in sync[w].embed \/ t \in done \cap InPlace(w)
      BY <1>2, <1>6 DEF InPlace
    <3>2. t \in done \cap InPlace(w) => t \in DOMAIN docs[r]
      BY <1>1
    <3> QED BY <3>1, <3>2 DEF TypeOK
  <2>2. (IF t \in sync[w].embed THEN revision ELSE docs[r][t].vec) \in 1..MaxRevision
    BY <1>3, <2>1 DEF Document
  <2>3. Role(sync[w].content, t) \in {"name", "description", "alias"}
    BY DEF Role
  <2> PICK c \in Content, m \in 0..MaxVersion : c = sync[w].content /\ m = sync[w].meta
    BY <1>3 DEF Synchronisation
  <2> PICK v \in 1..MaxRevision : v = IF t \in sync[w].embed THEN revision ELSE docs[r][t].vec
    BY <2>2
  <2>4. docs'[r][t] = [role |-> Role(c, t), payload |-> c, meta |-> m, rev |-> revision, vec |-> v]
    BY <1>4
  <2> QED BY <1>3, <2>3, <2>4 DEF Document
<1>7. ASSUME NEW t \in DOMAIN docs'[r] \ put PROVE docs'[r][t] \in Document
  BY <1>4 DEF TypeOK
<1> QED BY <1>4, <1>5, <1>6, <1>7 DEF TypeOK

\* A plan is made of texts of the row and of documents.
LEMMA PlanType ==
  ASSUME TypeOK, NEW w \in Workers, NEW r \in Resources, Planning(w, r)
  PROVE  /\ sync' \in [Workers -> Synchronisation]
         /\ sync'[w].stage = "planned" /\ sync'[w].keys = sync[w].keys /\ sync'[w].res = r
         /\ sync'[w].content = row[r].content /\ sync'[w].meta = row[r].meta
         /\ sync'[w].write = {t \in Texts(row[r].content) :
                                NeedsWrite(row[r].content, row[r].meta, t, docs[r])}
         /\ sync'[w].embed = {t \in Texts(row[r].content) :
                                NeedsVector(row[r].content, t, docs[r])}
         /\ sync'[w].remove = Obsolete(row[r].content, docs[r])
         /\ \A v \in Workers \ {w} : sync'[v] = sync[v]
<1> DEFINE s == [stage |-> "planned", keys |-> sync[w].keys, res |-> r,
               content |-> row[r].content, meta |-> row[r].meta,
               write |-> {t \in Texts(row[r].content) :
                            NeedsWrite(row[r].content, row[r].meta, t, docs[r])},
               embed |-> {t \in Texts(row[r].content) : NeedsVector(row[r].content, t, docs[r])},
               remove |-> Obsolete(row[r].content, docs[r])]
<1>1. sync \in [Workers -> Synchronisation]
  BY DEF TypeOK
<1>2. sync' = [sync EXCEPT ![w] = s]
  BY DEF Planning
<1>3. s \in Synchronisation
  <2>1. row[r].content \in Content /\ row[r].meta \in 0..MaxVersion
    BY DEF TypeOK
  <2>2. Texts(row[r].content) \subseteq Wording /\ DOMAIN docs[r] \subseteq Wording
    BY <2>1, ContentType DEF TypeOK
  <2>3. sync[w].keys \in SUBSET Resources
    BY <1>1 DEF Synchronisation
  <2> QED BY <2>1, <2>2, <2>3 DEF Synchronisation, Obsolete
<1>4. /\ s.stage = "planned" /\ s.keys = sync[w].keys /\ s.res = r
      /\ s.content = row[r].content /\ s.meta = row[r].meta
      /\ s.remove = Obsolete(row[r].content, docs[r])
  OBVIOUS
<1>5. s.write = {t \in Texts(row[r].content) :
                   NeedsWrite(row[r].content, row[r].meta, t, docs[r])}
  OBVIOUS
<1>6. s.embed = {t \in Texts(row[r].content) : NeedsVector(row[r].content, t, docs[r])}
  OBVIOUS
<1> HIDE DEF s
<1>7. sync' \in [Workers -> Synchronisation] /\ sync'[w] = s
      /\ \A v \in Workers \ {w} : sync'[v] = sync[v]
  BY <1>1, <1>2, <1>3
<1> QED BY <1>4, <1>5, <1>6, <1>7

\* After a resource comes the next one, or the end.
LEMMA AdvanceType ==
  ASSUME TypeOK, NEW w \in Workers, Advance(w)
  PROVE  /\ sync' \in [Workers -> Synchronisation]
         /\ \A v \in Workers \ {w} : sync'[v] = sync[v]
         /\ \/ sync'[w] = NoSync /\ sync[w].keys = {sync[w].res}
            \/ /\ sync'[w].stage = "taken" /\ sync'[w].keys = sync[w].keys \ {sync[w].res}
<1>1. sync \in [Workers -> Synchronisation] /\ sync[w].keys \subseteq Resources
  BY DEF TypeOK, Synchronisation
<1>2. NoSync \in Synchronisation
  BY IdleType
<1> DEFINE s == IF sync[w].keys = {sync[w].res} THEN NoSync
                ELSE [NoSync EXCEPT !.stage = "taken", !.keys = sync[w].keys \ {sync[w].res}]
<1>3. sync' = [sync EXCEPT ![w] = s]
  BY DEF Advance
<1>4. s \in Synchronisation
  BY <1>1, <1>2 DEF Synchronisation
<1>5. \/ s = NoSync /\ sync[w].keys = {sync[w].res}
      \/ s.stage = "taken" /\ s.keys = sync[w].keys \ {sync[w].res}
  BY <1>2 DEF Synchronisation
<1> HIDE DEF s
<1> QED BY <1>1, <1>3, <1>4, <1>5

\* A step of an administrator or an import keeps the types.
LEMMA EditorType ==
  ASSUME TypeOK, NEW e \in Editors, Edit(e) \/ Proceed(e) \/ EnqueueFails(e)
  PROVE  TypeOK'
<1>0. edit[e] \in Change /\ NoEdit \in Change /\ NoEdit.stage = "idle"
  BY IdleType DEF TypeOK, NoEdit
<1>1. CASE Edit(e)
  <2>1. PICK s \in Change : Readable(s) /\ Begin(e, s)
    BY <1>1, BeginsWith
  <2>2. edits' \in 0..MaxEdits
    BY <2>1, CatalogAssumption DEF Begin, TypeOK
  <2> QED BY <2>1, <2>2 DEF Begin, Readable, TypeOK
<1>2. ASSUME NEW r \in Resources, DropDocs(e, r) PROVE TypeOK'
  <2> PICK x \in Change : x = edit[e]
    BY <1>0
  <2>1. [x EXCEPT !.left = x.left \ {r}] \in Change
    BY DEF Change
  <2>2. edit' = [edit EXCEPT ![e] = [x EXCEPT !.left = x.left \ {r}]]
    BY <1>2 DEF DropDocs
  <2>3. /\ [x EXCEPT !.left = x.left \ {r}].change = x.change
        /\ [x EXCEPT !.left = x.left \ {r}].want = x.want
        /\ [x EXCEPT !.left = x.left \ {r}].stage = x.stage
    BY DEF Change
  <2>4. /\ edit' \in [Editors -> Change]
        /\ \A f \in Editors : edit'[f].stage = "read" =>
              edit'[f].change \subseteq DOMAIN edit'[f].want
    BY <2>1, <2>2, <2>3 DEF TypeOK
  <2>5. /\ docs' = [q \in Resources |-> docs'[q]]
        /\ \A q \in Resources : /\ DOMAIN docs'[q] \subseteq Wording
                                /\ \A t \in DOMAIN docs'[q] : docs'[q][t] \in Document
    BY <1>2 DEF DropDocs, TypeOK
  <2> QED BY <1>2, <2>4, <2>5 DEF DropDocs, TypeOK
<1>3. CASE Commit(e)
  <2>1. row' \in [Resources -> [content : Content, meta : 0..MaxVersion, index : 0..MaxVersion]]
    BY <1>3, CommitType
  <2>2. /\ [NoEdit EXCEPT !.stage = "committed", !.change = edit[e].change] \in Change
        /\ [NoEdit EXCEPT !.stage = "committed", !.change = edit[e].change].stage = "committed"
    BY <1>0 DEF Change
  <2>3. lost' \subseteq Resources
    BY <1>3 DEF Commit, Cascaded, TypeOK
  <2> QED BY <1>3, <2>1, <2>2, <2>3 DEF Commit, TypeOK
<1>4. CASE Abandon(e)
  <2>1. trouble' \in 0..MaxTrouble
    BY <1>4, CatalogAssumption DEF Abandon, Mishap, TypeOK
  <2>2. lost' \subseteq Resources
    BY <1>0, <1>4 DEF Abandon, TypeOK, Change
  <2> QED BY <1>0, <1>4, <2>1, <2>2 DEF Abandon, TypeOK
<1>5. CASE Enqueue(e)
  <2>1. queue' \subseteq SUBSET Resources
    BY <1>0, <1>5 DEF Enqueue, TypeOK, Change
  <2> QED BY <1>0, <1>5, <2>1 DEF Enqueue, TypeOK
<1>6. CASE EnqueueFails(e)
  <2>1. trouble' \in 0..MaxTrouble
    BY <1>6, CatalogAssumption DEF EnqueueFails, Mishap, TypeOK
  <2>2. queue' \subseteq SUBSET Resources /\ lost' \subseteq Resources
    BY <1>0, <1>6 DEF EnqueueFails, TypeOK, Change
  <2> QED BY <1>0, <1>6, <2>1, <2>2 DEF EnqueueFails, TypeOK
<1> QED BY <1>1, <1>2, <1>3, <1>4, <1>5, <1>6 DEF Proceed

\* What a worker writes fits the types.
LEMMA FitsTypes ==
  ASSUME TypeOK, Locked, NEW w \in Workers, sync[w].stage = "planned", NEW done, Written(w, done),
         done \cap InPlace(w) \subseteq DOMAIN docs[sync[w].res]
  PROVE  /\ docs' = [q \in Resources |-> docs'[q]]
         /\ \A q \in Resources : /\ DOMAIN docs'[q] \subseteq Wording
                                 /\ \A t \in DOMAIN docs'[q] : docs'[q][t] \in Document
<1>1. sync[w].res \in Resources
  BY DEF Locked, Holds, TypeOK, Synchronisation
<1> QED BY <1>1, WrittenType

\* A step of a worker keeps the types.
LEMMA WorkerType ==
  ASSUME TypeOK, Locked, NEW w \in Workers, Work(w) \/ Fail(w)
  PROVE  TypeOK'
<1>0. sync[w] \in Synchronisation /\ NoSync \in Synchronisation
  BY IdleType DEF TypeOK
<1>1. CASE Take(w)
  <2>1. PICK m \in queue : /\ queue' = queue \ {m}
                           /\ sync' =
                                  [sync EXCEPT ![w] = [NoSync EXCEPT !.stage = "taken", !.keys = m]]
    BY <1>1 DEF Take
  <2>2. [NoSync EXCEPT !.stage = "taken", !.keys = m] \in Synchronisation
    BY <1>0 DEF TypeOK, Synchronisation
  <2> QED BY <1>1, <2>1, <2>2 DEF Take, TypeOK
<1>2. CASE Apply(w)
  <2>1. /\ docs' = [q \in Resources |-> docs'[q]]
        /\ \A q \in Resources : /\ DOMAIN docs'[q] \subseteq Wording
                                /\ \A t \in DOMAIN docs'[q] : docs'[q][t] \in Document
    BY <1>2, FitsTypes DEF Apply, Writable
  <2>2. [NoSync EXCEPT !.stage = "written", !.keys = sync[w].keys,
                       !.res = sync[w].res, !.meta = sync[w].meta] \in Synchronisation
    BY <1>0 DEF Synchronisation
  <2> QED BY <1>2, <2>1, <2>2 DEF Apply, TypeOK
<1>3. CASE Mark(w)
  <2>1. sync' \in [Workers -> Synchronisation]
    BY <1>3, AdvanceType DEF Mark
  <2>2. row' \in [Resources -> [content : Content, meta : 0..MaxVersion, index : 0..MaxVersion]]
    <3> DEFINE m == sync[w].meta
               r == sync[w].res
    <3>1. row' = row \/ row' = [row EXCEPT ![r].index = m]
      BY <1>3 DEF Mark
    <3>2. m \in 0..MaxVersion
      BY <1>0 DEF Synchronisation
    <3> HIDE DEF m, r
    <3> QED BY <3>1, <3>2 DEF TypeOK
  <2> QED BY <1>3, <2>1, <2>2 DEF Mark, TypeOK
<1>4. CASE Refused(w)
  <2>1. lost' \subseteq Resources
    BY <1>0, <1>4 DEF Refused, GiveUp, TypeOK, Synchronisation
  <2> QED BY <1>0, <1>4, <2>1 DEF Refused, GiveUp, TypeOK
<1>5. ASSUME NEW r \in Resources, Plan(w, r) PROVE TypeOK'
  <2>1. sync' \in [Workers -> Synchronisation]
    BY <1>5, PlanType DEF Plan
  <2> QED BY <1>5, <2>1 DEF Plan, TypeOK
<1>6. CASE Fail(w)
  <2>1. /\ docs' = [q \in Resources |-> docs'[q]]
        /\ \A q \in Resources : /\ DOMAIN docs'[q] \subseteq Wording
                                /\ \A t \in DOMAIN docs'[q] : docs'[q][t] \in Document
    <3>1. CASE sync[w].stage = "planned"
      BY <1>6, <3>1, FitsTypes DEF Fail
    <3>2. CASE sync[w].stage # "planned"
      BY <1>6, <3>2 DEF Fail, TypeOK
    <3> QED BY <3>1, <3>2
  <2>2. queue' \subseteq SUBSET Resources /\ lost' \subseteq Resources
    BY <1>0, <1>6 DEF Fail, Again, GiveUp, TypeOK, Synchronisation
  <2>3. trouble' \in 0..MaxTrouble
    BY <1>6, CatalogAssumption DEF Fail, Mishap, TypeOK
  <2> QED BY <1>0, <1>6, <2>1, <2>2, <2>3 DEF Fail, TypeOK
<1> QED BY <1>1, <1>2, <1>3, <1>4, <1>5, <1>6 DEF Work

\* Every step keeps the types.
LEMMA TypeStep == TypeOK /\ Locked /\ [Next]_vars => TypeOK'
<1> SUFFICES ASSUME TypeOK, Locked, [Next]_vars PROVE TypeOK'
  OBVIOUS
<1>1. ASSUME NEW r \in Resources, Ask(r) PROVE TypeOK'
  BY <1>1 DEF Ask, TypeOK
<1>2. CASE Deploy
  <2>1. revision' \in 1..MaxRevision
    BY <1>2, CatalogAssumption DEF Deploy, TypeOK
  <2> QED BY <1>2, <2>1 DEF Deploy, TypeOK
<1>3. CASE UNCHANGED vars
  BY <1>3 DEF vars, TypeOK
<1> QED BY <1>1, <1>2, <1>3, EditorType, WorkerType DEF Next

-----------------------------------------------------------------------------
(* The lock of a resource.                                                 *)

\* One step of a worker moves that worker only.
LEMMA OneWorker ==
  ASSUME TypeOK, NEW w \in Workers, Work(w) \/ Fail(w)
  PROVE  /\ \A v \in Workers \ {w} : sync'[v] = sync[v]
         /\ Holds(w)' => \/ \E r \in Resources : Plan(w, r) /\ sync'[w].res = r
                         \/ /\ sync[w].stage = "planned" /\ sync'[w].res = sync[w].res
                            /\ Apply(w)
         /\ Holds(w)' => sync'[w].keys = sync[w].keys
<1>0. sync \in [Workers -> Synchronisation] /\ sync[w] \in Synchronisation
      /\ NoSync \in Synchronisation /\ NoSync.stage = "idle"
  BY IdleType DEF TypeOK, NoSync
<1>1. CASE Take(w)
  <2>1. PICK m \in queue : sync' =
                               [sync EXCEPT ![w] = [NoSync EXCEPT !.stage = "taken", !.keys = m]]
    BY <1>1 DEF Take
  <2>2. [NoSync EXCEPT !.stage = "taken", !.keys = m].stage = "taken"
    BY <1>0 DEF Synchronisation
  <2> QED BY <1>0, <2>1, <2>2 DEF Holds
<1>2. CASE Apply(w)
  <2> PICK x : x = [NoSync EXCEPT !.stage = "written", !.keys = sync[w].keys,
                                  !.res = sync[w].res, !.meta = sync[w].meta]
    OBVIOUS
  <2>1. x.keys = sync[w].keys
    BY <1>0 DEF Synchronisation
  <2>2. x.res = sync[w].res
    BY <1>0 DEF Synchronisation
  <2>3. sync' = [sync EXCEPT ![w] = x] /\ sync[w].stage = "planned"
    BY <1>2 DEF Apply
  <2> QED BY <1>0, <1>2, <2>1, <2>2, <2>3
<1>3. CASE Mark(w)
  BY <1>0, <1>3, AdvanceType DEF Mark, Holds
<1>4. CASE Refused(w) \/ Fail(w)
  BY <1>0, <1>4 DEF Refused, Fail, Holds
<1>5. ASSUME NEW r \in Resources, Plan(w, r)
      PROVE  /\ \A v \in Workers \ {w} : sync'[v] = sync[v]
             /\ \E q \in Resources : Plan(w, q) /\ sync'[w].res = q
             /\ sync'[w].keys = sync[w].keys
  <2>1. Planning(w, r)
    BY <1>5 DEF Plan
  <2> QED BY <1>5, <2>1, PlanType
<1>6. Take(w) \/ Apply(w) \/ Mark(w) \/ Refused(w) \/ Fail(w) \/ \E r \in Resources : Plan(w, r)
  BY DEF Work
<1>7. CASE \E r \in Resources : Plan(w, r)
  <2> PICK r \in Resources : Plan(w, r)
    BY <1>7
  <2>1. /\ \A v \in Workers \ {w} : sync'[v] = sync[v]
        /\ \E q \in Resources : Plan(w, q) /\ sync'[w].res = q
        /\ sync'[w].keys = sync[w].keys
    BY <1>5
  <2> QED BY <2>1
<1> QED BY <1>1, <1>2, <1>3, <1>4, <1>6, <1>7

\* The lock is held by one worker, for a resource of its task.
LEMMA LockedStep == TypeOK /\ Locked /\ [Next]_vars => Locked'
<1> SUFFICES ASSUME TypeOK, Locked, [Next]_vars PROVE Locked'
  OBVIOUS
<1>1. CASE UNCHANGED sync
  BY <1>1 DEF Locked, Holds
<1>2. ASSUME NEW w \in Workers, Work(w) \/ Fail(w) PROVE Locked'
  <2>1. \A v \in Workers \ {w} : sync'[v] = sync[v] /\ (Holds(v)' <=> Holds(v))
    BY <1>2, OneWorker DEF Holds
  <2>2. Holds(w)' => /\ sync'[w].res \in sync'[w].keys
                     /\ \A v \in Workers \ {w} : Holds(v) => sync[v].res # sync'[w].res
    <3>1. ASSUME NEW r \in Resources, Plan(w, r), sync'[w].res = r, sync'[w].keys = sync[w].keys
          PROVE  /\ sync'[w].res \in sync'[w].keys
                 /\ \A v \in Workers \ {w} : Holds(v) => sync[v].res # sync'[w].res
      BY <3>1 DEF Plan, Holds
    <3>2. ASSUME sync[w].stage = "planned", sync'[w].res = sync[w].res, sync'[w].keys = sync[w].keys
          PROVE  /\ sync'[w].res \in sync'[w].keys
                 /\ \A v \in Workers \ {w} : Holds(v) => sync[v].res # sync'[w].res
      BY <3>2 DEF Locked, Holds
    <3> QED BY <1>2, <3>1, <3>2, OneWorker
  <2> QED BY <2>1, <2>2 DEF Locked
<1>3. ASSUME NEW e \in Editors, Edit(e) \/ Proceed(e) \/ EnqueueFails(e) PROVE UNCHANGED sync
  <2>1. Edit(e) => UNCHANGED sync
    BY DEF Edit, Upsert, Delete, Import, Begin
  <2> QED BY <1>3, <2>1 DEF Proceed, DropDocs, Commit, Abandon, Enqueue, EnqueueFails
<1> QED BY <1>1, <1>2, <1>3 DEF Next, Ask, Deploy, vars

-----------------------------------------------------------------------------
(* Vectors and models.                                                     *)

\* A write leaves vectors of the models that the documents name.
LEMMA WrittenVectors ==
  ASSUME VInv, NEW w \in Workers, sync[w].stage = "planned", NEW done, Written(w, done),
         done \cap InPlace(w) \subseteq DOMAIN docs[sync[w].res]
  PROVE  /\ \A q \in Resources : \A t \in DOMAIN docs'[q] : docs'[q][t].vec = docs'[q][t].rev
         /\ \A q \in Resources \ {sync[w].res} : docs'[q] = docs[q]
<1>1. PICK r \in Resources : r = sync[w].res
  BY DEF VInv, Locked, Holds, TypeOK, Synchronisation
<1> PICK put : put = sync[w].write \cap done
  OBVIOUS
<1>2. /\ \A q \in Resources \ {r} : docs'[q] = docs[q]
      /\ DOMAIN docs'[r] = (DOMAIN docs[r] \ (sync[w].remove \cap done)) \cup put
      /\ \A t \in DOMAIN docs'[r] \ put : docs'[r][t] = docs[r][t]
      /\ \A t \in put : docs'[r][t] =
            [role |-> Role(sync[w].content, t), payload |-> sync[w].content,
             meta |-> sync[w].meta, rev |-> revision,
             vec |-> IF t \in sync[w].embed THEN revision ELSE docs[r][t].vec]
  BY <1>1, WrittenDocs DEF VInv
<1>3. ASSUME NEW t \in put PROVE docs'[r][t].vec = docs'[r][t].rev
  <2>0. PICK v : v = IF t \in sync[w].embed THEN revision ELSE docs[r][t].vec
    OBVIOUS
  <2>1. docs'[r][t] = [role |-> Role(sync[w].content, t), payload |-> sync[w].content,
                       meta |-> sync[w].meta, rev |-> revision, vec |-> v]
    BY <1>2, <2>0
  <2>2. docs'[r][t].rev = revision /\ docs'[r][t].vec = v
    BY <2>1
  <2>3. ASSUME t \notin sync[w].embed PROVE docs[r][t].vec = revision
    <3>1. t \in InPlace(w) \cap DOMAIN docs[r]
      BY <1>1, <1>3, <2>3 DEF InPlace
    <3>2. docs[r][t].rev = revision
      BY <1>1, <3>1 DEF VInv, InPlaceFits
    <3> QED BY <3>1, <3>2 DEF VInv, VectorsOfTheirModel
  <2> QED BY <2>0, <2>2, <2>3
<1>4. ASSUME NEW t \in DOMAIN docs'[r] \ put PROVE docs'[r][t].vec = docs'[r][t].rev
  BY <1>2, <1>4 DEF VInv, VectorsOfTheirModel
<1> QED BY <1>1, <1>2, <1>3, <1>4 DEF VInv, VectorsOfTheirModel

LEMMA VectorsStep == VInv /\ [Next]_vars => InPlaceFits' /\ VectorsOfTheirModel'
<1> SUFFICES ASSUME VInv, [Next]_vars PROVE InPlaceFits' /\ VectorsOfTheirModel'
  OBVIOUS
<1>1. CASE UNCHANGED <<docs, revision, sync>>
  BY <1>1 DEF VInv, InPlaceFits, InPlace, VectorsOfTheirModel
<1>2. ASSUME NEW e \in Editors, NEW r \in Resources, DropDocs(e, r)
      PROVE  InPlaceFits' /\ VectorsOfTheirModel'
  <2>1. /\ docs'[r] = [t \in {} |-> NoRow] /\ \A q \in Resources \ {r} : docs'[q] = docs[q]
        /\ UNCHANGED <<revision, sync>>
    BY <1>2 DEF DropDocs, VInv, TypeOK
  <2>2. DOMAIN docs'[r] = {}
    BY <2>1
  <2>3. \A w \in Workers : sync[w].stage = "planned" => sync[w].res \in Resources
    BY DEF VInv, Locked, Holds, TypeOK, Synchronisation
  <2> QED BY <2>1, <2>2, <2>3 DEF VInv, InPlaceFits, InPlace, VectorsOfTheirModel
<1>3. ASSUME NEW w \in Workers, Work(w) \/ Fail(w) PROVE InPlaceFits' /\ VectorsOfTheirModel'
  <2>0. \A v \in Workers : Holds(v) => sync[v].res \in Resources
    BY DEF VInv, Locked, Holds, TypeOK, Synchronisation
  <2>1. \A v \in Workers \ {w} : sync'[v] = sync[v]
    BY <1>3, OneWorker DEF VInv
  <2>2. ASSUME NEW r \in Resources, Plan(w, r) PROVE InPlaceFits' /\ VectorsOfTheirModel'
    <3>1. UNCHANGED <<docs, revision>> /\ Planning(w, r)
      BY <2>2 DEF Plan
    <3>2. /\ sync'[w].res = r
          /\ sync'[w].write = {t \in Texts(row[r].content) :
                                 NeedsWrite(row[r].content, row[r].meta, t, docs[r])}
          /\ sync'[w].embed = {t \in Texts(row[r].content) :
                                 NeedsVector(row[r].content, t, docs[r])}
      BY <3>1, PlanType DEF VInv
    <3>3. \A t \in (sync'[w].write \ sync'[w].embed) \cap DOMAIN docs[r] : docs[r][t].rev = revision
      BY <3>2 DEF NeedsVector
    <3> QED BY <2>1, <3>1, <3>2, <3>3 DEF VInv, InPlaceFits, InPlace, VectorsOfTheirModel
  <2>3. ASSUME sync[w].stage = "planned", NEW done, Written(w, done), UNCHANGED revision,
               done \cap InPlace(w) \subseteq DOMAIN docs[sync[w].res], sync'[w].stage # "planned"
        PROVE  InPlaceFits' /\ VectorsOfTheirModel'
    <3>1. /\ \A q \in Resources : \A t \in DOMAIN docs'[q] : docs'[q][t].vec = docs'[q][t].rev
          /\ \A q \in Resources \ {sync[w].res} : docs'[q] = docs[q]
      BY <2>3, WrittenVectors
    <3>2. ASSUME NEW v \in Workers, sync'[v].stage = "planned"
          PROVE  v # w /\ sync'[v] = sync[v] /\ docs'[sync[v].res] = docs[sync[v].res]
      <4>1. v # w /\ sync'[v] = sync[v]
        BY <2>1, <2>3, <3>2
      <4>2. sync[v].res \in Resources /\ sync[v].res # sync[w].res
        BY <2>0, <2>3, <3>2, <4>1 DEF VInv, Locked, Holds
      <4> QED BY <3>1, <4>1, <4>2
    <3>3. InPlaceFits'
      <4> SUFFICES ASSUME NEW v \in Workers, sync'[v].stage = "planned",
                          NEW t \in InPlace(v)' \cap DOMAIN docs'[sync'[v].res]
                   PROVE  docs'[sync'[v].res][t].rev = revision'
        BY DEF InPlaceFits
      <4>1. sync'[v] = sync[v] /\ docs'[sync[v].res] = docs[sync[v].res]
        BY <3>2
      <4>2. t \in InPlace(v) \cap DOMAIN docs[sync[v].res]
        BY <4>1 DEF InPlace
      <4> QED BY <2>3, <4>1, <4>2 DEF VInv, InPlaceFits
    <3> QED BY <3>1, <3>3 DEF VectorsOfTheirModel
  <2>4. ASSUME UNCHANGED <<docs, revision>>, sync'[w].stage # "planned"
        PROVE  InPlaceFits' /\ VectorsOfTheirModel'
    BY <2>1, <2>4 DEF VInv, InPlaceFits, InPlace, VectorsOfTheirModel
  <2>5. sync \in [Workers -> Synchronisation] /\ NoSync \in Synchronisation /\ NoSync.stage = "idle"
    BY IdleType DEF VInv, TypeOK, NoSync
  <2>6. CASE Take(w)
    <3>1. PICK m \in queue : sync' =
                                 [sync EXCEPT ![w] = [NoSync EXCEPT !.stage = "taken", !.keys = m]]
      BY <2>6 DEF Take
    <3>2. [NoSync EXCEPT !.stage = "taken", !.keys = m].stage = "taken"
      BY <2>5 DEF Synchronisation
    <3> QED BY <2>4, <2>5, <2>6, <3>1, <3>2 DEF Take
  <2>7. CASE Apply(w)
    <3> PICK x : x = [NoSync EXCEPT !.stage = "written", !.keys = sync[w].keys,
                                    !.res = sync[w].res, !.meta = sync[w].meta]
      OBVIOUS
    <3>1. x.stage = "written" /\ sync' = [sync EXCEPT ![w] = x]
      BY <2>5, <2>7 DEF Synchronisation, Apply
    <3> PICK done : done = sync[w].write \cup sync[w].remove
      OBVIOUS
    <3>2. /\ sync[w].stage = "planned" /\ Written(w, done) /\ UNCHANGED revision
          /\ done \cap InPlace(w) \subseteq DOMAIN docs[sync[w].res]
      BY <2>7 DEF Apply, Writable
    <3> QED BY <2>3, <2>5, <3>1, <3>2
  <2>8. CASE Mark(w)
    <3>1. sync'[w].stage # "planned" /\ UNCHANGED <<docs, revision>>
      BY <2>5, <2>8, AdvanceType DEF Mark, VInv
    <3> QED BY <2>4, <3>1
  <2>9. CASE Refused(w)
    BY <2>4, <2>5, <2>9 DEF Refused
  <2>10. CASE Fail(w)
    <3>1. sync'[w].stage # "planned" /\ UNCHANGED revision
      BY <2>5, <2>10 DEF Fail
    <3>2. CASE sync[w].stage = "planned"
      BY <2>3, <2>10, <3>1, <3>2 DEF Fail
    <3>3. CASE sync[w].stage # "planned"
      BY <2>4, <2>10, <3>1, <3>3 DEF Fail
    <3> QED BY <3>2, <3>3
  <2> QED BY <1>3, <2>2, <2>6, <2>7, <2>8, <2>9, <2>10 DEF Work
<1>4. CASE Deploy
  BY <1>4 DEF Deploy, VInv, InPlaceFits, VectorsOfTheirModel
<1>5. ASSUME NEW e \in Editors, Edit(e) \/ Proceed(e) \/ EnqueueFails(e)
      PROVE  UNCHANGED <<docs, revision, sync>> \/ \E r \in Resources : DropDocs(e, r)
  <2>1. Edit(e) => UNCHANGED <<docs, revision, sync>>
    BY DEF Edit, Upsert, Delete, Import, Begin
  <2> QED BY <1>5, <2>1, SMTT(40) DEF Proceed, Commit, Abandon, Enqueue, EnqueueFails
<1> QED BY <1>1, <1>2, <1>3, <1>4, <1>5 DEF Next, Ask, vars

\* Initially there are no documents and nobody works.
LEMMA VectorsStart == Init => VInv
<1> SUFFICES ASSUME Init PROVE VInv
  OBVIOUS
<1>1. \A w \in Workers : sync[w].stage = "idle"
  BY DEF Init, NoSync
<1>2. \A r \in Resources : DOMAIN docs[r] = {}
  BY DEF Init
<1> QED BY <1>1, <1>2, TypeInit DEF VInv, Locked, Holds, InPlaceFits, VectorsOfTheirModel

LEMMA VectorsInvariance == Spec => []VInv
<1>1. VInv /\ [Next]_vars => VInv'
  BY TypeStep, LockedStep, VectorsStep DEF VInv
<1> QED BY <1>1, VectorsStart, PTL DEF Spec

(* Every variable keeps its type in every behaviour.                       *)
THEOREM TypeCorrect == Spec => []TypeOK
BY VectorsInvariance, PTL DEF VInv

(* A vector is of the model that its document names, however versions,     *)
(* deployments and failures of a part of a write follow one another.       *)
THEOREM VectorsMatch == Spec => []VectorsOfTheirModel
BY VectorsInvariance, PTL DEF VInv

-----------------------------------------------------------------------------
(* The index follows.                                                      *)

\* What has nothing to do with r leaves it followed.
LEMMA Aside ==
  ASSUME SInv, NEW r \in Resources, Exists(r)', ~Behind(r)', Behind(r) => Behind(r)',
         row'[r] = row[r], docs'[r] = docs[r],
         UNCHANGED revision \/ \A w \in Workers : ~Holds(w),
         \A w \in Workers : /\ At(w, r)' <=> At(w, r)
                            /\ At(w, r) => sync'[w] = sync[w]
  PROVE  Followed(r)'
<1>1. Followed(r)
  BY DEF SInv, Followers, Exists
<1>2. Agrees(r)' <=> Agrees(r)
  BY DEF Agrees
<1>3. ASSUME NEW w \in Workers, At(w, r), Fits(w, r) PROVE Fits(w, r)'
  <2>1. UNCHANGED revision /\ sync'[w] = sync[w]
    BY <1>3 DEF At
  <2> QED BY <1>3, <2>1 DEF Fits, NeedsWrite, Target, Obsolete
<1>4. ASSUME NEW w \in Workers, At(w, r)'
      PROVE  IF sync'[w].stage = "planned" THEN Fits(w, r)'
             ELSE Agrees(r)' /\ sync'[w].meta = row'[r].meta
  <2>1. At(w, r) /\ sync'[w] = sync[w]
    BY <1>4
  <2>2. IF sync[w].stage = "planned" THEN Fits(w, r)
        ELSE Agrees(r) /\ sync[w].meta = row[r].meta
    BY <1>1, <2>1 DEF Followed
  <2> QED BY <1>2, <1>3, <2>1, <2>2
<1>5. (\A w \in Workers : ~At(w, r)') => Agrees(r)' /\ row'[r].index = row'[r].meta
  BY <1>1, <1>2 DEF Followed
<1> QED BY <1>4, <1>5 DEF Followed

\* A change that goes on leaves its resources behind.
LEMMA EditorFollows ==
  ASSUME SInv, NEW e \in Editors, Edit(e) \/ Proceed(e) \/ EnqueueFails(e),
         NEW r \in Resources, Exists(r)', ~Behind(r)'
  PROVE  Followed(r)'
<1>0. /\ edit \in [Editors -> Change] /\ edit[e] \in Change
      /\ NoEdit \in Change /\ NoEdit.stage = "idle"
      /\ edit[e].left \subseteq edit[e].drop
  BY IdleType DEF SInv, Leaving, TypeOK, NoEdit
<1>1. ASSUME UNCHANGED <<sync, revision>>, row'[r] = row[r], docs'[r] = docs[r],
             Behind(r) => Behind(r)'
      PROVE  Followed(r)'
  BY <1>1, Aside DEF At, Holds
<1>2. CASE Edit(e)
  <2>1. PICK s \in Change : Begin(e, s)
    BY <1>2, BeginsWith DEF SInv
  <2>2. edit[e].stage = "idle" /\ edit' = [edit EXCEPT ![e] = s]
        /\ UNCHANGED <<row, docs, revision, queue, sync, lost>>
    BY <2>1 DEF Begin
  <2>3. \A f \in Editors : Altering(f, r) => Altering(f, r)'
    BY <1>0, <2>2 DEF Altering
  <2>4. Behind(r) => Behind(r)'
    BY <2>2, <2>3 DEF Behind, Waiting, At, Holds
  <2> QED BY <1>1, <2>2, <2>4
<1>3. ASSUME NEW q \in Resources, DropDocs(e, q) PROVE Followed(r)'
  <2> PICK x \in Change : x = edit[e]
    BY <1>0
  <2> PICK y : y = [x EXCEPT !.left = x.left \ {q}]
    OBVIOUS
  <2>1. y.stage = x.stage /\ y.drop = x.drop /\ y.change = x.change
    BY DEF Change
  <2>2. y.left = x.left \ {q}
    BY DEF Change
  <2>3. /\ x.stage = "read" /\ q \in x.left /\ edit' = [edit EXCEPT ![e] = y]
        /\ docs' = [docs EXCEPT ![q] = [t \in {} |-> NoRow]]
        /\ UNCHANGED <<row, revision, queue, sync, lost>>
    BY <1>3 DEF DropDocs
  <2>4. edit'[e] = y /\ \A f \in Editors \ {e} : edit'[f] = edit[f]
    BY <1>0, <2>3
  <2>5. Altering(e, q)'
    BY <1>0, <2>1, <2>2, <2>3, <2>4 DEF Altering
  <2>6. r # q /\ docs'[r] = docs[r]
    BY <2>3, <2>5 DEF Behind, SInv, TypeOK
  <2>7. \A f \in Editors : Altering(f, r) => Altering(f, r)'
    BY <2>1, <2>2, <2>4 DEF Altering
  <2>8. Behind(r) => Behind(r)'
    BY <2>3, <2>7 DEF Behind, Waiting, At, Holds
  <2> QED BY <1>1, <2>3, <2>6, <2>8
<1>4. CASE Commit(e)
  <2> PICK x \in Change : x = edit[e]
    BY <1>0
  <2> PICK y : y = [NoEdit EXCEPT !.stage = "committed", !.change = x.change]
    OBVIOUS
  <2>1. y.stage = "committed" /\ y.change = x.change
    BY <1>0 DEF Change
  <2>2. /\ x.stage = "read" /\ edit' = [edit EXCEPT ![e] = y] /\ CommitRows(e)
        /\ lost' = (lost \cup Cascaded(e)) \ x.drop
        /\ UNCHANGED <<docs, revision, queue, sync>>
    BY <1>4 DEF Commit
  <2>3. edit'[e] = y /\ \A f \in Editors \ {e} : edit'[f] = edit[f]
    BY <1>0, <2>2
  <2>4. r \notin x.change
    BY <2>1, <2>3 DEF Behind, Altering
  <2>5. r \notin x.drop
    <3>1. r \in x.drop => row'[r] = NoRow
      BY <2>2, <2>4 DEF CommitRows
    <3> QED BY <3>1 DEF NoRow, Exists
  <2>6. row'[r] = Without(r, x.drop)
    BY <2>2, <2>4, <2>5 DEF CommitRows
  <2>7. row'[r] = row[r]
    <3>0. row[r] \in [content : Content, meta : 0..MaxVersion, index : 0..MaxVersion]
      BY DEF SInv, TypeOK
    <3> PICK b \in [content : Content, meta : 0..MaxVersion, index : 0..MaxVersion] : b = row[r]
      BY <3>0
    <3> PICK c \in Content : c = b.content
      OBVIOUS
    <3>1. row'[r] = [b EXCEPT !.content = [c EXCEPT !.uses = c.uses \ x.drop]]
      BY <2>6 DEF Without
    <3>2. row'[r].meta = b.meta
      BY <3>1
    <3>3. r \notin Cascaded(e)
      BY <2>2, <2>5 DEF Behind
    <3>4. c.uses \cap x.drop = {}
      BY <2>4, <2>5, <3>2, <3>3 DEF Cascaded, Exists
    <3>5. c.uses \ x.drop = c.uses
      BY <3>4
    <3>6. [c EXCEPT !.uses = c.uses] = c
      BY DEF Content
    <3>7. [b EXCEPT !.content = c] = b
      OBVIOUS
    <3>8. row'[r] = [b EXCEPT !.content = c]
      BY <3>1, <3>5, <3>6
    <3> QED BY <3>7, <3>8
  <2>8. \A f \in Editors : Altering(f, r) => Altering(f, r)'
    BY <2>2, <2>3, <2>5 DEF Altering
  <2>9. Behind(r) => Behind(r)'
    BY <2>2, <2>5, <2>8 DEF Behind, Waiting, At, Holds
  <2> QED BY <1>1, <2>2, <2>7, <2>9
<1>5. CASE Abandon(e)
  <2>1. /\ edit[e].stage = "read" /\ edit' = [edit EXCEPT ![e] = NoEdit]
        /\ lost' = lost \cup {q \in edit[e].drop \ edit[e].left : Exists(q)}
        /\ UNCHANGED <<row, docs, revision, queue, sync>>
    BY <1>5 DEF Abandon
  <2>2. \A f \in Editors : Altering(f, r) => Altering(f, r)' \/ r \in lost'
    BY <1>0, <2>1 DEF Altering, Exists
  <2>3. Behind(r) => Behind(r)'
    BY <2>1, <2>2 DEF Behind, Waiting, At, Holds
  <2> QED BY <1>1, <2>1, <2>3
<1>6. CASE Enqueue(e)
  <2>1. /\ edit[e].stage = "committed" /\ edit' = [edit EXCEPT ![e] = NoEdit]
        /\ queue' = queue \cup ({edit[e].change \cap Columns, edit[e].change \cap Metrics} \ {{}})
        /\ UNCHANGED <<row, docs, revision, sync, lost>>
    BY <1>6 DEF Enqueue
  <2>2. r \in edit[e].change => \E m \in queue' : r \in m
    BY <2>1 DEF Resources
  <2>3. \A f \in Editors : Altering(f, r) => Altering(f, r)' \/ \E m \in queue' : r \in m
    BY <1>0, <2>1, <2>2 DEF Altering
  <2>4. Behind(r) => Behind(r)'
    BY <2>1, <2>3 DEF Behind, Waiting, At, Holds
  <2> QED BY <1>1, <2>1, <2>4
<1>7. CASE EnqueueFails(e)
  <2>1. PICK sent : /\ queue' = queue \cup ({sent} \ {{}})
                    /\ lost' = lost \cup (edit[e].change \ sent)
    BY <1>7 DEF EnqueueFails
  <2>2. /\ edit[e].stage = "committed" /\ edit' = [edit EXCEPT ![e] = NoEdit]
        /\ UNCHANGED <<row, docs, revision, sync>>
    BY <1>7 DEF EnqueueFails
  <2>3. r \in edit[e].change => r \in lost' \/ \E m \in queue' : r \in m
    BY <2>1
  <2>4. \A f \in Editors :
          Altering(f, r) => Altering(f, r)' \/ r \in lost' \/ \E m \in queue' : r \in m
    BY <1>0, <2>2, <2>3 DEF Altering
  <2>5. Behind(r) => Behind(r)'
    BY <2>1, <2>2, <2>4 DEF Behind, Waiting, At, Holds
  <2> QED BY <1>1, <2>2, <2>5
<1> QED BY <1>2, <1>3, <1>4, <1>5, <1>6, <1>7 DEF Proceed

\* All that was planned has been written: the documents are those of the row.
LEMMA AllWritten ==
  ASSUME TypeOK, NEW w \in Workers, NEW r \in Resources, sync[w].res = r, Fits(w, r),
         Written(w, sync[w].write \cup sync[w].remove), UNCHANGED row
  PROVE  Agrees(r)'
<1> PICK c, m, put, gone :
       /\ c = row[r].content /\ m = row[r].meta
       /\ put = sync[w].write /\ gone = sync[w].remove
  OBVIOUS
<1>1. /\ sync[w].content = c /\ sync[w].meta = m
      /\ \A t : t \in put <=> t \in Texts(c) /\ NeedsWrite(c, m, t, docs[r])
      /\ gone = DOMAIN docs[r] \ Texts(c)
  BY DEF Fits, Obsolete
<1>2. /\ put \cap (put \cup gone) = put /\ gone \cap (put \cup gone) = gone
  OBVIOUS
<1>3. /\ DOMAIN docs'[r] = (DOMAIN docs[r] \ gone) \cup put
      /\ \A t \in DOMAIN docs'[r] \ put : docs'[r][t] = docs[r][t]
      /\ \A t \in put : \E v : docs'[r][t] =
            [role |-> Role(c, t), payload |-> c, meta |-> m, rev |-> revision, vec |-> v]
  <2> PICK done : done = put \cup gone
    OBVIOUS
  <2>1. /\ put = sync[w].write \cap done /\ gone = sync[w].remove \cap done
        /\ Written(w, done)
    BY <1>2
  <2>2. /\ DOMAIN docs'[r] = (DOMAIN docs[r] \ (sync[w].remove \cap done))
                             \cup (sync[w].write \cap done)
        /\ \A t \in DOMAIN docs'[r] \ (sync[w].write \cap done) : docs'[r][t] = docs[r][t]
        /\ \A t \in sync[w].write \cap done : docs'[r][t] =
              [role |-> Role(sync[w].content, t), payload |-> sync[w].content,
               meta |-> sync[w].meta, rev |-> revision,
               vec |-> IF t \in sync[w].embed THEN revision ELSE docs[r][t].vec]
    BY <2>1, WrittenDocs
  <2>3. ASSUME NEW t \in put
        PROVE  \E v : docs'[r][t] =
                 [role |-> Role(c, t), payload |-> c, meta |-> m, rev |-> revision, vec |-> v]
    <3> PICK v : v = IF t \in sync[w].embed THEN revision ELSE docs[r][t].vec
      OBVIOUS
    <3>1. docs'[r][t] =
            [role |-> Role(c, t), payload |-> c, meta |-> m, rev |-> revision, vec |-> v]
      BY <1>1, <2>1, <2>2, <2>3
    <3> QED BY <3>1
  <2>4. /\ DOMAIN docs'[r] = (DOMAIN docs[r] \ gone) \cup put
        /\ \A t \in DOMAIN docs'[r] \ put : docs'[r][t] = docs[r][t]
    BY <2>1, <2>2
  <2> QED BY <2>3, <2>4
<1>4. DOMAIN docs'[r] = Texts(c)
  <2>1. \A t \in Texts(c) : t \in DOMAIN docs[r] \/ t \in put
    BY <1>1 DEF NeedsWrite
  <2> QED BY <1>1, <1>3, <2>1
<1>5. ASSUME NEW t \in DOMAIN docs'[r]
      PROVE  docs'[r][t].role = Role(c, t) /\ docs'[r][t].payload = c /\ docs'[r][t].meta = m
  <2>1. CASE t \in put
    <3>1. PICK v : docs'[r][t] =
            [role |-> Role(c, t), payload |-> c, meta |-> m, rev |-> revision, vec |-> v]
      BY <1>3, <2>1
    <3> QED BY <3>1
  <2>2. CASE t \notin put
    <3>1. docs'[r][t] = docs[r][t] /\ ~NeedsWrite(c, m, t, docs[r])
      BY <1>1, <1>3, <1>4, <2>2
    <3>2. Said(docs[r][t]) = Target(c, m, t)
      BY <3>1 DEF NeedsWrite
    <3> PICK d : d = docs[r][t]
      OBVIOUS
    <3>3. [role |-> d.role, payload |-> d.payload, meta |-> d.meta, rev |-> d.rev] =
          [role |-> Role(c, t), payload |-> c, meta |-> m, rev |-> revision]
      BY <3>2 DEF Said, Target
    <3>4. d.role = Role(c, t) /\ d.payload = c /\ d.meta = m
      BY <3>3
    <3> QED BY <3>1, <3>4
  <2> QED BY <2>1, <2>2
<1>6. row'[r].content = c /\ row'[r].meta = m
  OBVIOUS
<1> QED BY <1>4, <1>5, <1>6 DEF Agrees

\* Who gives up leaves a trace of what exists.
LEMMA GivenUp ==
  ASSUME NEW w \in Workers, NEW r \in Resources, r \in sync[w].keys,
         Exists(r), GiveUp(w) \/ Again(w)
  PROVE  Behind(r)'
BY DEF GiveUp, Again, Behind

\* A step of a worker that leaves no trace of r has brought it up to the row.
LEMMA WorkerFollows ==
  ASSUME SInv, NEW w \in Workers, Work(w) \/ Fail(w),
         NEW r \in Resources, Exists(r)', ~Behind(r)'
  PROVE  Followed(r)'
<1>0. /\ sync \in [Workers -> Synchronisation] /\ sync[w] \in Synchronisation
      /\ NoSync \in Synchronisation /\ NoSync.stage = "idle"
      /\ \A v \in Workers \ {w} : sync'[v] = sync[v]
      /\ \A v \in Workers : Holds(v) => sync[v].res \in sync[v].keys /\ sync[v].res \in Resources
  BY IdleType, OneWorker DEF SInv, TypeOK, NoSync, Locked, Synchronisation
<1>1. \A v \in Workers \ {w} : (At(v, r)' <=> At(v, r)) /\ (Waiting(v, r)' <=> Waiting(v, r))
  BY <1>0 DEF At, Holds, Waiting
<1>2. ASSUME UNCHANGED revision, row'[r] = row[r], docs'[r] = docs[r],
             ~At(w, r), ~At(w, r)', Behind(r) => Behind(r)'
      PROVE  Followed(r)'
  <2>1. \A v \in Workers : /\ At(v, r)' <=> At(v, r)
                           /\ At(v, r) => sync'[v] = sync[v]
    BY <1>0, <1>1, <1>2
  <2> QED BY <1>2, <2>1, Aside
<1>3. CASE Take(w)
  <2>1. PICK m \in queue : /\ queue' = queue \ {m}
                           /\ sync' =
                                  [sync EXCEPT ![w] = [NoSync EXCEPT !.stage = "taken", !.keys = m]]
    BY <1>3 DEF Take
  <2> PICK x : x = [NoSync EXCEPT !.stage = "taken", !.keys = m]
    OBVIOUS
  <2>2. x.stage = "taken"
    BY <1>0 DEF Synchronisation
  <2>3. x.keys = m
    BY <1>0 DEF Synchronisation
  <2>4. sync'[w] = x /\ sync[w].stage = "idle" /\ UNCHANGED <<row, docs, revision, edit, lost>>
    BY <1>0, <1>3, <2>1 DEF Take
  <2>5. ~At(w, r) /\ ~At(w, r)' /\ (r \in m => Waiting(w, r)') /\ ~Waiting(w, r)
    BY <2>2, <2>3, <2>4 DEF At, Holds, Waiting
  <2>6. Behind(r) => Behind(r)'
    BY <1>1, <2>1, <2>4, <2>5 DEF Behind, Altering
  <2> QED BY <1>2, <2>4, <2>5, <2>6
<1>4. CASE Apply(w)
  <2> PICK x : x = [NoSync EXCEPT !.stage = "written", !.keys = sync[w].keys,
                                  !.res = sync[w].res, !.meta = sync[w].meta]
    OBVIOUS
  <2>1. x.stage = "written"
    BY <1>0 DEF Synchronisation
  <2>2. x.keys = sync[w].keys
    BY <1>0 DEF Synchronisation
  <2>3. x.res = sync[w].res
    BY <1>0 DEF Synchronisation
  <2>4. x.meta = sync[w].meta
    BY <1>0 DEF Synchronisation
  <2>5. /\ sync'[w] = x /\ sync[w].stage = "planned"
        /\ Written(w, sync[w].write \cup sync[w].remove)
        /\ UNCHANGED <<row, revision, edit, queue, lost>>
    BY <1>0, <1>4 DEF Apply
  <2>6. (At(w, r)' <=> At(w, r)) /\ (Waiting(w, r) <=> Waiting(w, r)')
    BY <2>1, <2>2, <2>3, <2>5 DEF At, Holds, Waiting
  <2>7. Behind(r) <=> Behind(r)'
    BY <1>1, <2>5, <2>6 DEF Behind, Altering
  <2>8. CASE At(w, r)
    <3>1. Followed(r)
      BY <2>5, <2>7 DEF SInv, Followers, Exists
    <3>2. Fits(w, r)
      BY <2>5, <2>8, <3>1 DEF Followed
    <3>3. Agrees(r)' /\ sync'[w].meta = row'[r].meta
      BY <2>4, <2>5, <2>8, <3>2, AllWritten DEF SInv, At, Fits
    <3>4. \A v \in Workers : At(v, r)' => v = w
      BY <1>1, <2>8 DEF SInv, Locked, At
    <3> QED BY <2>1, <2>5, <2>6, <2>8, <3>3, <3>4 DEF Followed
  <2>9. CASE ~At(w, r)
    <3>1. sync[w].res \in Resources /\ r # sync[w].res
      BY <1>0, <2>5, <2>9 DEF At, Holds
    <3>2. docs'[r] = docs[r]
      BY <2>5, <3>1, WrittenDocs DEF SInv
    <3> QED BY <1>2, <2>5, <2>6, <2>7, <2>9, <3>2
  <2> QED BY <2>8, <2>9
<1>5. CASE Mark(w)
  <2>1. /\ sync[w].stage = "written" /\ UNCHANGED <<docs, revision, edit, queue, lost>>
        /\ Advance(w)
    BY <1>5 DEF Mark
  <2>2. \/ sync'[w] = NoSync /\ sync[w].keys = {sync[w].res}
        \/ sync'[w].stage = "taken" /\ sync'[w].keys = sync[w].keys \ {sync[w].res}
    BY <2>1, AdvanceType DEF SInv
  <2>3. ~At(w, r)' /\ (Waiting(w, r) => Waiting(w, r)')
    BY <1>0, <2>1, <2>2 DEF At, Holds, Waiting
  <2>4. Behind(r) => Behind(r)'
    BY <1>1, <2>1, <2>3 DEF Behind, Altering
  <2>5. row' = IF Exists(sync[w].res) /\ row[sync[w].res].meta = sync[w].meta
               THEN [row EXCEPT ![sync[w].res].index = sync[w].meta] ELSE row
    BY <1>5 DEF Mark
  <2>6. CASE At(w, r)
    <3>0. row[r] \in [content : Content, meta : 0..MaxVersion, index : 0..MaxVersion]
      BY DEF SInv, TypeOK
    <3>1. row'[r].content = row[r].content /\ row'[r].meta = row[r].meta
      BY <2>5, <3>0 DEF SInv, TypeOK
    <3>2. Followed(r) /\ Exists(r)
      BY <2>4, <3>1 DEF SInv, Followers, Exists
    <3>3. Agrees(r) /\ sync[w].meta = row[r].meta
      BY <2>1, <2>6, <3>2 DEF Followed
    <3>4. row'[r].index = row'[r].meta
      BY <2>5, <2>6, <3>0, <3>1, <3>2, <3>3 DEF SInv, TypeOK, At
    <3>5. Agrees(r)'
      BY <2>1, <3>1, <3>3 DEF Agrees
    <3>6. \A v \in Workers : ~At(v, r)'
      BY <1>1, <2>3, <2>6 DEF SInv, Locked, At
    <3> QED BY <3>4, <3>5, <3>6 DEF Followed
  <2>7. CASE ~At(w, r)
    <3>1. sync[w].res # r
      BY <2>1, <2>7 DEF At, Holds
    <3>2. row'[r] = row[r]
      BY <2>5, <3>1 DEF SInv, TypeOK
    <3> QED BY <1>2, <2>1, <2>3, <2>4, <2>7, <3>2
  <2> QED BY <2>6, <2>7
<1>6. ASSUME GiveUp(w) \/ Again(w), sync' = [sync EXCEPT ![w] = NoSync], sync[w].stage # "idle",
             docs'[r] = docs[r] \/ At(w, r), UNCHANGED <<row, revision, edit>>
      PROVE  Followed(r)'
  <2>1. Exists(r)
    BY <1>6 DEF Exists
  <2>2. r \notin sync[w].keys
    BY <1>6, <2>1, GivenUp
  <2>3. ~At(w, r) /\ ~At(w, r)' /\ ~Waiting(w, r)
    BY <1>0, <1>6, <2>2 DEF At, Holds, Waiting
  <2>4. lost \subseteq lost' /\ queue \subseteq queue'
    BY <1>6 DEF GiveUp, Again
  <2>5. Behind(r) => Behind(r)'
    BY <1>1, <1>6, <2>3, <2>4 DEF Behind, Altering
  <2> QED BY <1>2, <1>6, <2>3, <2>5
<1>7. CASE Refused(w)
  BY <1>6, <1>7 DEF Refused
<1>8. CASE Fail(w)
  <2>1. docs'[r] = docs[r] \/ At(w, r)
    <3>1. ASSUME sync[w].stage = "planned", ~At(w, r), NEW done, Written(w, done)
          PROVE  docs'[r] = docs[r]
      <4>1. sync[w].res \in Resources /\ r # sync[w].res
        BY <1>0, <3>1 DEF At, Holds
      <4> QED BY <3>1, <4>1, WrittenDocs DEF SInv
    <3> QED BY <1>8, <3>1 DEF Fail
  <2> QED BY <1>6, <1>8, <2>1 DEF Fail
<1>9. ASSUME NEW q \in Resources, Plan(w, q) PROVE Followed(r)'
  <2>1. /\ sync[w].stage = "taken" /\ q \in sync[w].keys /\ Planning(w, q)
        /\ \A v \in Workers : ~At(v, q) /\ lost' = lost \ {q}
        /\ UNCHANGED <<row, docs, revision, edit, queue>>
    BY <1>9 DEF Plan, At, Holds
  <2>2. /\ sync'[w].stage = "planned" /\ sync'[w].keys = sync[w].keys /\ sync'[w].res = q
        /\ sync'[w].content = row[q].content /\ sync'[w].meta = row[q].meta
        /\ sync'[w].write = {t \in Texts(row[q].content) :
                               NeedsWrite(row[q].content, row[q].meta, t, docs[q])}
        /\ sync'[w].remove = Obsolete(row[q].content, docs[q])
    BY <2>1, PlanType DEF SInv
  <2>3. CASE r = q
    <3>1. Fits(w, r)'
      BY <2>1, <2>2, <2>3 DEF Fits, NeedsWrite, Target, Obsolete
    <3>2. At(w, r)' /\ \A v \in Workers : At(v, r)' => v = w
      BY <1>1, <2>1, <2>2, <2>3 DEF At, Holds
    <3> QED BY <2>2, <3>1, <3>2 DEF Followed
  <2>4. CASE r # q
    <3>1. ~At(w, r) /\ ~At(w, r)' /\ (Waiting(w, r) => Waiting(w, r)')
      BY <2>1, <2>2, <2>4 DEF At, Holds, Waiting
    <3>2. Behind(r) => Behind(r)'
      BY <1>1, <2>1, <2>4, <3>1 DEF Behind, Altering
    <3> QED BY <1>2, <2>1, <3>1, <3>2
  <2> QED BY <2>3, <2>4
<1> QED BY <1>3, <1>4, <1>5, <1>7, <1>8, <1>9 DEF Work

LEMMA LeavingStep == SInv /\ [Next]_vars => Leaving'
<1> SUFFICES ASSUME SInv, [Next]_vars PROVE Leaving'
  OBVIOUS
<1>1. CASE UNCHANGED edit
  BY <1>1 DEF SInv, Leaving
<1>2. ASSUME NEW e \in Editors, NEW x, edit' = [edit EXCEPT ![e] = x], x.left \subseteq x.drop
      PROVE  Leaving'
  BY <1>2 DEF SInv, Leaving, TypeOK
<1>3. NoEdit \in Change /\ NoEdit.left = {}
  BY IdleType DEF NoEdit
<1>4. ASSUME NEW e \in Editors, Edit(e) PROVE Leaving'
  <2>1. PICK s \in Change : Readable(s) /\ Begin(e, s)
    BY <1>4, BeginsWith DEF SInv
  <2> QED BY <1>2, <2>1 DEF Begin, Readable
<1>5. ASSUME NEW e \in Editors, NEW q \in Resources, DropDocs(e, q) PROVE Leaving'
  <2>1. edit[e] \in Change /\ edit[e].left \subseteq edit[e].drop
    BY DEF SInv, TypeOK, Leaving
  <2> PICK x \in Change : x = edit[e]
    BY <2>1
  <2> PICK y : y = [x EXCEPT !.left = x.left \ {q}]
    OBVIOUS
  <2>2. y.drop = x.drop
    BY DEF Change
  <2>3. y.left = x.left \ {q}
    BY DEF Change
  <2>4. edit' = [edit EXCEPT ![e] = y]
    BY <1>5 DEF DropDocs
  <2> QED BY <1>2, <2>1, <2>2, <2>3, <2>4
<1>6. ASSUME NEW e \in Editors, Commit(e) PROVE Leaving'
  <2> PICK y : y = [NoEdit EXCEPT !.stage = "committed", !.change = edit[e].change]
    OBVIOUS
  <2>1. y.left = {}
    BY <1>3 DEF Change
  <2>2. edit' = [edit EXCEPT ![e] = y]
    BY <1>6 DEF Commit
  <2> QED BY <1>2, <2>1, <2>2
<1>7. ASSUME NEW e \in Editors, Abandon(e) \/ Enqueue(e) \/ EnqueueFails(e) PROVE Leaving'
  BY <1>2, <1>3, <1>7 DEF Abandon, Enqueue, EnqueueFails
<1>8. ASSUME NEW w \in Workers, Work(w) \/ Fail(w) PROVE UNCHANGED edit
  BY <1>8 DEF Work, Take, Apply, Mark, Refused, Plan, Fail
<1> QED BY <1>1, <1>4, <1>5, <1>6, <1>7, <1>8 DEF Next, Proceed, Ask, Deploy, vars

LEMMA FollowersStep == SInv /\ [Next]_vars => Followers'
<1> SUFFICES ASSUME SInv, [Next]_vars, NEW r \in Resources, Exists(r)', ~Behind(r)'
             PROVE  Followed(r)'
  BY DEF Followers
<1>1. ASSUME UNCHANGED <<row, docs, edit, sync>>, lost \subseteq lost', queue \subseteq queue',
             UNCHANGED revision \/ \A w \in Workers : ~Holds(w)
      PROVE  Followed(r)'
  <2>1. Behind(r) => Behind(r)'
    BY <1>1 DEF Behind, Waiting, Altering, At, Holds
  <2>2. \A w \in Workers : (At(w, r)' <=> At(w, r)) /\ sync'[w] = sync[w]
    BY <1>1 DEF At, Holds
  <2> QED BY <1>1, <2>1, <2>2, Aside
<1>2. ASSUME NEW q \in Resources, Ask(q) PROVE Followed(r)'
  BY <1>1, <1>2 DEF Ask
<1>3. CASE Deploy
  <2>1. \A w \in Workers : ~Holds(w)
    BY <1>3 DEF Deploy, Holds
  <2> QED BY <1>1, <1>3, <2>1 DEF Deploy
<1>4. CASE UNCHANGED vars
  BY <1>1, <1>4 DEF vars
<1> QED BY <1>2, <1>3, <1>4, EditorFollows, WorkerFollows DEF Next

\* Initially nothing exists.
LEMMA FollowersStart == Init => SInv
<1> SUFFICES ASSUME Init PROVE SInv
  OBVIOUS
<1>1. \A r \in Resources : ~Exists(r)
  BY DEF Init, Exists, NoRow
<1>2. \A w \in Workers : sync[w].stage = "idle"
  BY DEF Init, NoSync
<1>3. \A e \in Editors : edit[e].left = {}
  BY DEF Init, NoEdit
<1> QED BY <1>1, <1>2, <1>3, TypeInit DEF SInv, Locked, Holds, Leaving, Followers

(* Once every task of a resource has been carried out, its documents are   *)
(* those of its row, and the row says so, whatever overtook what.          *)
THEOREM SettledAgrees == Spec => []SettledIndexAgrees
<1>1. SInv /\ [Next]_vars => SInv'
  BY TypeStep, LockedStep, LeavingStep, FollowersStep DEF SInv
<1>2. SInv => SettledIndexAgrees
  <2> SUFFICES ASSUME SInv, NEW r \in Resources, Settled(r), Exists(r)
               PROVE  Agrees(r) /\ row[r].index = row[r].meta
    BY DEF SettledIndexAgrees, Agrees
  <2>1. \A w \in Workers : ~At(w, r)
    BY DEF SInv, Locked, At, Settled
  <2>2. ~Behind(r)
    BY DEF Behind, Waiting, Altering, Settled
  <2> QED BY <2>1, <2>2 DEF SInv, Followers, Followed
<1> QED BY <1>1, <1>2, FollowersStart, PTL DEF Spec
=============================================================================
