------------------------- MODULE EditorDocumentsProofs -------------------------
(***************************************************************************)
(* Proofs about EditorDocuments, for any number of files, tabs, changes    *)
(* and operations.                                                         *)
(*                                                                         *)
(* EditorInv is the inductive invariant.  Its main part is about the       *)
(* changes at stake: those the user typed that are in no file yet, were    *)
(* not given up, and were typed while nothing was under way on their       *)
(* document.  No version of a file and no saved text of a document holds   *)
(* a change that is still owed (World, SavedFits), so a document that counts *)
(* as clean has nothing at stake.  For every operation (JobFits): the text *)
(* it is about to write, or waits to have formatted, holds all that is at  *)
(* stake in its document; when its answer has come, nothing is; and a      *)
(* closing that goes on has every document with something at stake still   *)
(* on its list or under way.                                               *)
(***************************************************************************)
EXTENDS EditorDocuments, TLAPS, FiniteSetTheorems, SequenceTheorems,
    WellFoundedInduction, NaturalsInduction

\* The texts that exist once n changes have been typed, and what is made of them.
Texts(n) == {text \in Text : \A e \in text.edits : e <= n \/ e > MaxEdits}

DocumentUpTo(n) ==
    [path : Path \cup {NoPath}, content : Texts(n), saved : Texts(n),
     checked : BOOLEAN, savedAs : BOOLEAN]

Docs(n) == UNION {[D -> DocumentUpTo(n)] : D \in SUBSET Id}

Call(n) == [job : Job \cup {0}, type : {"load", "write"}, path : Path, content : Texts(n)]

JobUpTo(n) ==
    [kind : {"none", "save", "format", "open", "refresh", "close"},
     step : {"new", "done", "confirm", "format", "pick", "wait", "answered", "flush"},
     doc : Id \cup {0}, path : Path \cup {NoPath}, content : Texts(n),
     fmt : BOOLEAN, again : BOOLEAN, todo : SUBSET Id, after : {"none", "folder", "quit"}]

Store(n) ==
    [docs : Docs(n), jobs : [Job -> JobUpTo(n)], queue : Seq(Call(n)),
     created : 0 .. MaxDocs, alive : BOOLEAN]

\* The files: what is on disk is a version, and no version holds a change still owed.
World(n, w, d, vs, ow, ex) ==
    /\ n \in 0 .. MaxEdits /\ w \in 0 .. MaxWrites
    /\ ow \subseteq 1 .. n /\ ex \subseteq 1 .. n
    /\ d \in [Path -> Texts(n)]
    /\ vs \in [Path -> SUBSET Texts(n)]
    /\ \A p \in Path : d[p] \in vs[p]
    /\ \A p \in Path : \A v \in vs[p] : v.edits \cap ow = {}

Unchecked(ds) == {id \in DOMAIN ds : ~ ds[id].checked}

TabsFit(ds) == Cardinality(DOMAIN ds) <= MaxOpenTabs + Cardinality(Unchecked(ds))

PathsFit(ds) ==
    \A a, b \in DOMAIN ds :
        a # b /\ ds[a].path = ds[b].path /\ ds[a].path # NoPath
            => ds[a].savedAs \/ ds[b].savedAs

SavedFits(ds, vs, ow) ==
    \A id \in DOMAIN ds :
        /\ ds[id].saved.edits \cap ow = {}
        /\ ds[id].path # NoPath => ds[id].saved \in vs[ds[id].path]

\* At is the set of changes at stake.
Held(ds, At) == \A e \in At : \E id \in DOMAIN ds : e \in ds[id].content.edits

CallsFit(q) ==
    /\ \A k, l \in DOMAIN q : q[k].job = q[l].job /\ q[k].job # 0 => k = l
    /\ \A k \in DOMAIN q : q[k].type = "load" => q[k].content.edits = {}

Core(s, n, vs, ow, At) ==
    /\ s \in Store(n)
    /\ DOMAIN s.docs \subseteq 1 .. s.created
    /\ CallsFit(s.queue)
    /\ TabsFit(s.docs)
    /\ PathsFit(s.docs)
    /\ SavedFits(s.docs, vs, ow)
    /\ Held(s.docs, At)

Stake(ds, id, At) == ds[id].content.edits \cap At

InHand == {"format", "pick", "wait"}

\* One operation, against the documents, the calls and the number of tabs created.
JobFits(job, j, ds, q, n, vs, At) ==
    /\ job.doc \in 0 .. n /\ job.todo \subseteq 1 .. n
    /\ job.kind = "open" => job.doc = 0
    /\ job.step = "wait" => \E k \in DOMAIN q : q[k].job = j
    /\ \A k \in DOMAIN q : q[k].job = j =>
          /\ job.step = "wait" /\ job.path = q[k].path
          /\ job.doc \in DOMAIN ds => Stake(ds, job.doc, At) \subseteq q[k].content.edits
    /\ job.step = "answered" =>
          /\ job.path \in Path /\ job.content \in vs[job.path]
          /\ job.doc \in DOMAIN ds => Stake(ds, job.doc, At) = {}
    /\ job.step = "format" /\ job.doc \in DOMAIN ds =>
          Stake(ds, job.doc, At) = job.content.edits \cap At
    /\ job.after # "none" =>
          \A id \in DOMAIN ds :
              Stake(ds, id, At) = {} \/ id \in job.todo \/ (id = job.doc /\ job.step \in InHand)
    /\ job.step = "flush" => job.after # "none" /\ job.todo = {}

JobsFit(s, J, vs, At) ==
    \A k \in J : JobFits(s.jobs[k], k, s.docs, s.queue, s.created, vs, At)

\* The store between two awaits, and while operation j is being moved on.
Fits(s, n, vs, ow, At) == Core(s, n, vs, ow, At) /\ JobsFit(s, Job, vs, At)

During(s, j, n, vs, ow, At) ==
    /\ Core(s, n, vs, ow, At)
    /\ JobsFit(s, Job \ {j}, vs, At)
    /\ \A k \in DOMAIN s.queue : s.queue[k].job # j
    /\ s.jobs[j].doc \in 0 .. s.created /\ s.jobs[j].todo \subseteq 1 .. s.created
    /\ s.jobs[j].kind = "open" => s.jobs[j].doc = 0

\* If operation j is a closing, whatever has something at stake is in T.
Covered(s, j, T, At) ==
    s.jobs[j].after # "none" => \A id \in DOMAIN s.docs : Stake(s.docs, id, At) = {} \/ id \in T

EditorInv ==
    /\ World(typed, written, disk, versions, owed, exposed)
    /\ Fits(ed, typed, versions, owed, owed \ exposed)

-------------------------------------------------------------------------------
(* Lemmas about data *)

LEMMA DocsDef ==
    ASSUME NEW n, NEW ds
    PROVE  ds \in Docs(n) <=>
               /\ ds \in [DOMAIN ds -> DocumentUpTo(n)]
               /\ DOMAIN ds \subseteq Id
    BY DEF Docs

LEMMA DocsFinite ==
    ASSUME NEW n, NEW ds \in Docs(n), NEW S, S \subseteq DOMAIN ds
    PROVE  IsFiniteSet(S) /\ Cardinality(S) \in Nat
<1>1. S \subseteq 1 .. MaxDocs
    BY DocsDef DEF Id
<1>2. IsFiniteSet(1 .. MaxDocs)
    BY EditorAssumption, FS_Interval
<1> QED
    BY <1>1, <1>2, FS_Subset, FS_CardinalityType

LEMMA NoDocs ==
    ASSUME NEW n
    PROVE  DOMAIN <<>> = {} /\ <<>> \in Docs(n)
<1>1. DOMAIN <<>> = {}
    OBVIOUS
<1>2. <<>> \in [{} -> DocumentUpTo(n)]
    OBVIOUS
<1> QED
    BY <1>1, <1>2 DEF Docs

LEMMA BlankText ==
    ASSUME NEW n
    PROVE  Blank \in Texts(n) /\ Blank.edits = {}
    BY DEF Blank, Texts, Text

LEMMA TidiedText ==
    ASSUME NEW n, NEW text \in Texts(n)
    PROVE  Tidied(text) \in Texts(n) /\ Tidied(text).edits = text.edits
    BY DEF Tidied, Texts, Text

LEMMA TextsGrow ==
    ASSUME NEW n \in Nat, NEW m \in Nat, m <= n
    PROVE  Texts(m) \subseteq Texts(n)
    BY EditorAssumption DEF Texts, Text, Edit

LEMMA IdleJob ==
    ASSUME NEW n, NEW kind \in {"none", "save", "format", "open", "refresh", "close"},
           NEW step \in {"new", "done", "confirm", "format", "pick", "wait", "answered", "flush"}
    PROVE  /\ Idle \in JobUpTo(n) /\ Started(kind, step) \in JobUpTo(n)
           /\ Idle.doc = 0 /\ Idle.todo = {} /\ Idle.after = "none" /\ Idle.step = "new"
           /\ Started(kind, step).doc = 0 /\ Started(kind, step).todo = {}
           /\ Started(kind, step).after = "none" /\ Started(kind, step).step = step
           /\ Started(kind, step).kind = kind
    BY BlankText DEF Idle, Started, JobUpTo
LEMMA Smallest ==
    ASSUME NEW S \in SUBSET Nat, S # {}
    PROVE  \E x \in S : \A y \in S : x <= y
<1>1. PICK x \in S : \A y \in S : <<y, x>> \notin OpToRel(<, Nat)
  BY NatLessThanWellFounded, WFMin
<1>2. \A y \in S : ~ (y < x)
  BY <1>1 DEF OpToRel
<1> QED
  BY <1>2

-------------------------------------------------------------------------------
(* Changes of the documents that leave alone what is at stake *)

\* es is ds with new texts in which the same is at stake, and tabs after the first n.
Quiet(ds, es, n, At) ==
    /\ DOMAIN ds \subseteq DOMAIN es
    /\ \A id \in DOMAIN ds : Stake(es, id, At) = Stake(ds, id, At)
    /\ \A id \in DOMAIN es \ DOMAIN ds : Stake(es, id, At) = {} /\ id \notin 0 .. n

LEMMA QuietHeld ==
    ASSUME NEW ds, NEW es, NEW n, NEW At, Quiet(ds, es, n, At), Held(ds, At)
    PROVE  Held(es, At)
    BY DEF Quiet, Held, Stake

LEMMA QuietJob ==
    ASSUME NEW ds, NEW es, NEW n \in Nat, NEW m \in Nat, n <= m, NEW At, Quiet(ds, es, n, At),
           NEW job, NEW j, NEW q, NEW vs, JobFits(job, j, ds, q, n, vs, At)
    PROVE  JobFits(job, j, es, q, m, vs, At)
<1>1. job.doc \in 0 .. n /\ job.todo \subseteq 1 .. n
    BY DEF JobFits
<1>2. job.doc \in 0 .. m /\ job.todo \subseteq 1 .. m
    BY <1>1
<1>3. job.doc \in DOMAIN es => job.doc \in DOMAIN ds /\ Stake(es, job.doc, At) = Stake(ds, job.doc, At)
    BY <1>1 DEF Quiet
<1>4. ASSUME NEW id \in DOMAIN es
      PROVE  Stake(es, id, At) = {} \/ (id \in DOMAIN ds /\ Stake(es, id, At) = Stake(ds, id, At))
    BY DEF Quiet
<1> QED
    BY <1>2, <1>3, <1>4, Zenon DEF JobFits

LEMMA QuietJobs ==
    ASSUME NEW s, NEW t, NEW J, NEW vs, NEW At, JobsFit(s, J, vs, At),
           s.created \in Nat, t.created \in Nat, s.created <= t.created,
           t.jobs = s.jobs, t.queue = s.queue, Quiet(s.docs, t.docs, s.created, At)
    PROVE  JobsFit(t, J, vs, At)
    BY QuietJob DEF JobsFit

LEMMA QuietCovered ==
    ASSUME NEW s, NEW t, NEW j, NEW T, NEW At, Covered(s, j, T, At),
           t.jobs = s.jobs, Quiet(s.docs, t.docs, s.created, At)
    PROVE  Covered(t, j, T, At)
    BY DEF Covered, Quiet

LEMMA SameTabs ==
    ASSUME NEW ds, NEW es, TabsFit(ds), DOMAIN es = DOMAIN ds,
           \A id \in DOMAIN ds : es[id].checked = ds[id].checked
    PROVE  TabsFit(es)
<1>1. Unchecked(es) = Unchecked(ds)
    BY DEF Unchecked
<1> QED
    BY <1>1 DEF TabsFit

LEMMA SamePaths ==
    ASSUME NEW ds, NEW es, PathsFit(ds), DOMAIN es = DOMAIN ds,
           \A id \in DOMAIN ds : es[id].path = ds[id].path /\ es[id].savedAs = ds[id].savedAs
    PROVE  PathsFit(es)
    BY DEF PathsFit

\* Documents that differ in their texts only.
LEMMA SameFits ==
    ASSUME NEW ds, NEW es, NEW vs, NEW ow,
           TabsFit(ds), PathsFit(ds), SavedFits(ds, vs, ow), DOMAIN es = DOMAIN ds,
           \A i \in DOMAIN ds :
               /\ es[i].path = ds[i].path /\ es[i].saved = ds[i].saved
               /\ es[i].checked = ds[i].checked /\ es[i].savedAs = ds[i].savedAs
    PROVE  TabsFit(es) /\ PathsFit(es) /\ SavedFits(es, vs, ow)
<1>1. TabsFit(es)
    BY SameTabs
<1>2. PathsFit(es)
    BY SamePaths
<1>3. SavedFits(es, vs, ow)
    BY DEF SavedFits
<1> QED
    BY <1>1, <1>2, <1>3

\* A new text in a document, in which the same is at stake.
LEMMA PutText ==
    ASSUME NEW n, NEW ds \in Docs(n), NEW id \in DOMAIN ds, NEW text \in Texts(n),
           NEW es, es = [ds EXCEPT ![id].content = text]
    PROVE  /\ es \in Docs(n) /\ DOMAIN es = DOMAIN ds
           /\ \A i \in DOMAIN ds :
                 /\ es[i].path = ds[i].path /\ es[i].saved = ds[i].saved
                 /\ es[i].checked = ds[i].checked /\ es[i].savedAs = ds[i].savedAs
                 /\ es[i].content = IF i = id THEN text ELSE ds[i].content
<1>1. ds \in [DOMAIN ds -> DocumentUpTo(n)] /\ DOMAIN ds \subseteq Id
    BY DocsDef
<1>2. DOMAIN es = DOMAIN ds
    BY <1>1
<1>3. ASSUME NEW i \in DOMAIN ds
      PROVE  /\ es[i] \in DocumentUpTo(n)
             /\ es[i].path = ds[i].path /\ es[i].saved = ds[i].saved
             /\ es[i].checked = ds[i].checked /\ es[i].savedAs = ds[i].savedAs
             /\ es[i].content = IF i = id THEN text ELSE ds[i].content
    <2>1. ds[i] \in DocumentUpTo(n)
        BY <1>1
    <2>2. es[i] = IF i = id THEN [ds[i] EXCEPT !.content = text] ELSE ds[i]
        BY <1>1
    <2> QED
        BY <2>1, <2>2 DEF DocumentUpTo
<1>4. es \in [DOMAIN ds -> DocumentUpTo(n)]
    BY <1>1, <1>3
<1>5. es \in Docs(n)
    BY <1>1, <1>2, <1>4, DocsDef
<1> QED
    BY <1>2, <1>3, <1>5

WithText(s, id, text) == [s EXCEPT !.docs = [s.docs EXCEPT ![id].content = text]]

LEMMA PutTextCore ==
    ASSUME NEW n, NEW s, NEW vs, NEW ow, NEW At, Core(s, n, vs, ow, At),
           NEW id \in DOMAIN s.docs, NEW text \in Texts(n),
           text.edits \cap At = Stake(s.docs, id, At),
           NEW t, t = WithText(s, id, text)
    PROVE  /\ Core(t, n, vs, ow, At) /\ Quiet(s.docs, t.docs, s.created, At)
           /\ t.jobs = s.jobs /\ t.queue = s.queue /\ t.created = s.created
           /\ DOMAIN t.docs = DOMAIN s.docs
<1>1. s \in Store(n) /\ s.docs \in Docs(n)
    BY DEF Core, Store
<1>a. PICK es : es = [s.docs EXCEPT ![id].content = text]
    OBVIOUS
<1>b. t = [s EXCEPT !.docs = es]
    BY <1>a DEF WithText
<1>2. /\ es \in Docs(n) /\ DOMAIN es = DOMAIN s.docs
      /\ \A i \in DOMAIN s.docs :
            /\ es[i].path = s.docs[i].path /\ es[i].saved = s.docs[i].saved
            /\ es[i].checked = s.docs[i].checked /\ es[i].savedAs = s.docs[i].savedAs
            /\ es[i].content = IF i = id THEN text ELSE s.docs[i].content
    BY <1>1, <1>a, PutText
<1>3. t \in Store(n) /\ t.docs = es /\ t.queue = s.queue /\ t.created = s.created
      /\ t.jobs = s.jobs
    BY <1>1, <1>2, <1>b DEF Store
<1>4. Quiet(s.docs, es, s.created, At)
    BY <1>2 DEF Quiet, Stake
<1>c. PICK ds : ds = s.docs
    OBVIOUS
<1>5. Held(ds, At) /\ TabsFit(ds) /\ PathsFit(ds) /\ SavedFits(ds, vs, ow)
      /\ CallsFit(s.queue) /\ DOMAIN ds \subseteq 1 .. s.created
    BY <1>c DEF Core
<1>6. Held(es, At)
    BY <1>4, <1>5, <1>c, QuietHeld
<1>7. DOMAIN es = DOMAIN ds
    BY <1>2, <1>c
<1>8. \A i \in DOMAIN ds :
          /\ es[i].path = ds[i].path /\ es[i].saved = ds[i].saved
          /\ es[i].checked = ds[i].checked /\ es[i].savedAs = ds[i].savedAs
    BY <1>2, <1>c
<1>9. TabsFit(es) /\ PathsFit(es) /\ SavedFits(es, vs, ow)
    BY <1>5, <1>7, <1>8, SameFits
<1> QED
    BY <1>2, <1>3, <1>4, <1>5, <1>6, <1>7, <1>9, <1>c DEF Core
-------------------------------------------------------------------------------
(* A new tab, and an answer *)

\* A tab that is not checked allows for itself; a checked one found room.
LEMMA NewTabFits ==
    ASSUME NEW n, NEW ds \in Docs(n), NEW es \in Docs(n), NEW new, new \notin DOMAIN ds,
           DOMAIN es = DOMAIN ds \cup {new}, \A id \in DOMAIN ds : es[id] = ds[id],
           es[new].checked \in BOOLEAN,
           es[new].checked => Cardinality(DOMAIN ds) < MaxOpenTabs,
           TabsFit(ds)
    PROVE  TabsFit(es)
<1>1. IsFiniteSet(DOMAIN ds) /\ Cardinality(DOMAIN ds) \in Nat
    BY DocsFinite
<1>2. Cardinality(DOMAIN es) = Cardinality(DOMAIN ds) + 1
    BY <1>1, FS_AddElement
<1>3. IsFiniteSet(Unchecked(ds)) /\ Cardinality(Unchecked(ds)) \in Nat
    BY DocsFinite DEF Unchecked
<1>4. IsFiniteSet(Unchecked(es)) /\ Cardinality(Unchecked(es)) \in Nat
    BY DocsFinite DEF Unchecked
<1>5. CASE es[new].checked
    BY <1>1, <1>2, <1>4, <1>5, EditorAssumption DEF TabsFit
<1>6. CASE ~ es[new].checked
    <2>1. Unchecked(es) = Unchecked(ds) \cup {new}
        BY <1>6 DEF Unchecked
    <2>2. new \notin Unchecked(ds)
        BY DEF Unchecked
    <2>3. Cardinality(Unchecked(es)) = Cardinality(Unchecked(ds)) + 1
        BY <1>3, <2>1, <2>2, FS_AddElement
    <2> QED
        BY <1>1, <1>2, <1>3, <2>3, EditorAssumption DEF TabsFit
<1> QED
    BY <1>5, <1>6

LEMMA AddTabCore ==
    ASSUME NEW n, NEW s, NEW vs, NEW ow, NEW At, Core(s, n, vs, ow, At), At \subseteq ow,
           s.created < MaxDocs, NEW d \in DocumentUpTo(n),
           d.content = d.saved, d.saved.edits \cap ow = {},
           d.path # NoPath => d.saved \in vs[d.path] /\ WithPath(s.docs, d.path) = {},
           d.checked => Cardinality(DOMAIN s.docs) < MaxOpenTabs,
           NEW t, t = AddTab(s, d)
    PROVE  /\ Core(t, n, vs, ow, At) /\ Quiet(s.docs, t.docs, s.created, At)
           /\ t.jobs = s.jobs /\ t.queue = s.queue /\ t.created = s.created + 1
<1>1. s \in Store(n) /\ s.docs \in Docs(n) /\ s.created \in 0 .. MaxDocs
      /\ DOMAIN s.docs \subseteq 1 .. s.created
    BY DEF Core, Store
<1>2. PICK new : new = s.created + 1
    OBVIOUS
<1>3. new \in Id /\ new \notin DOMAIN s.docs /\ new \notin 0 .. s.created /\ new \in 0 .. MaxDocs
    BY <1>1, <1>2, EditorAssumption DEF Id
<1>4. PICK es : es = [id \in DOMAIN s.docs \cup {new} |-> IF id = new THEN d ELSE s.docs[id]]
    OBVIOUS
<1>5. t = [s EXCEPT !.created = new, !.docs = es]
    BY <1>1, <1>2, <1>4 DEF AddTab, Store
<1>6. es \in Docs(n) /\ DOMAIN es = DOMAIN s.docs \cup {new} /\ es[new] = d
      /\ \A id \in DOMAIN s.docs : es[id] = s.docs[id]
    <2>1. s.docs \in [DOMAIN s.docs -> DocumentUpTo(n)] /\ DOMAIN s.docs \subseteq Id
        BY <1>1, DocsDef
    <2>2. DOMAIN es = DOMAIN s.docs \cup {new} /\ es[new] = d
          /\ \A id \in DOMAIN s.docs : es[id] = s.docs[id]
        BY <1>3, <1>4
    <2>3. es \in [DOMAIN s.docs \cup {new} -> DocumentUpTo(n)]
          /\ DOMAIN s.docs \cup {new} \subseteq Id
        BY <1>3, <1>4, <2>1, <2>2
    <2> QED
        BY <2>2, <2>3, DocsDef
<1>7. t \in Store(n) /\ t.docs = es /\ t.queue = s.queue /\ t.created = new /\ t.jobs = s.jobs
    BY <1>1, <1>3, <1>5, <1>6 DEF Store
<1>8. DOMAIN t.docs \subseteq 1 .. t.created
    BY <1>1, <1>2, <1>6, <1>7
<1>9. Stake(es, new, At) = {}
    BY <1>6 DEF Stake
<1>10. Quiet(s.docs, es, s.created, At)
    BY <1>3, <1>6, <1>9 DEF Quiet, Stake
<1>11. Held(es, At)
    BY <1>10, QuietHeld DEF Core
<1>12. TabsFit(es)
    <2>1. es[new].checked \in BOOLEAN
        BY <1>6 DEF DocumentUpTo
    <2> QED
        BY <1>1, <1>3, <1>6, <2>1, NewTabFits DEF Core
<1>13. PathsFit(es)
    BY <1>6 DEF Core, PathsFit, WithPath
<1>14. SavedFits(es, vs, ow)
    BY <1>6 DEF Core, SavedFits
<1> QED
    BY <1>2, <1>7, <1>8, <1>10, <1>11, <1>12, <1>13, <1>14 DEF Core

LEMMA OpenTabCore ==
    ASSUME NEW n, NEW s, NEW vs, NEW ow, NEW At, Core(s, n, vs, ow, At), At \subseteq ow,
           s.created < MaxDocs, NEW path \in Path, NEW text \in Texts(n),
           text \in vs[path], text.edits \cap ow = {},
           NEW checked, checked \in BOOLEAN, checked => Cardinality(DOMAIN s.docs) < MaxOpenTabs,
           NEW t, t = openDocumentTab(s, path, text, checked)
    PROVE  /\ Core(t, n, vs, ow, At) /\ Quiet(s.docs, t.docs, s.created, At)
           /\ t.jobs = s.jobs /\ t.queue = s.queue
           /\ s.created \in Nat /\ t.created \in Nat /\ s.created <= t.created
<1>1. s.created \in Nat
    BY DEF Core, Store
<1>2. CASE WithPath(s.docs, path) # {}
    BY <1>1, <1>2 DEF openDocumentTab, Quiet
<1>3. CASE WithPath(s.docs, path) = {}
    <2>1. PICK d : d = NewDocument(path, text, checked)
        OBVIOUS
    <2>2. d \in DocumentUpTo(n) /\ d.content = d.saved /\ d.saved = text /\ d.path = path
          /\ d.checked = checked
        BY <2>1 DEF NewDocument, DocumentUpTo
    <2>3. t = AddTab(s, d)
        BY <1>3, <2>1 DEF openDocumentTab
    <2> QED
        BY <1>1, <1>3, <2>2, <2>3, AddTabCore
<1> QED
    BY <1>2, <1>3

LEMMA PayloadCore ==
    ASSUME NEW n, NEW s, NEW vs, NEW ow, NEW At, Core(s, n, vs, ow, At), At \subseteq ow,
           NEW id, s.created < MaxDocs \/ id \in DOMAIN s.docs,
           NEW path \in Path, NEW text \in Texts(n), text \in vs[path], text.edits \cap ow = {},
           id \in DOMAIN s.docs => Stake(s.docs, id, At) = {},
           NEW t, t = applyDocumentPayload(s, id, path, text)
    PROVE  /\ Core(t, n, vs, ow, At) /\ Quiet(s.docs, t.docs, s.created, At)
           /\ t.jobs = s.jobs /\ t.queue = s.queue
           /\ s.created \in Nat /\ t.created \in Nat /\ s.created <= t.created
<1>1. s \in Store(n) /\ s.docs \in Docs(n) /\ s.created \in Nat
    BY DEF Core, Store
<1>2. CASE id \notin DOMAIN s.docs
    <2>1. PICK checked : checked = FALSE
        OBVIOUS
    <2>2. s.created < MaxDocs /\ checked \in BOOLEAN
          /\ (checked => Cardinality(DOMAIN s.docs) < MaxOpenTabs)
        BY <1>2, <2>1
    <2>3. t = openDocumentTab(s, path, text, checked)
        BY <1>2, <2>1 DEF applyDocumentPayload
    <2> QED
        BY <2>2, <2>3, OpenTabCore
<1>3. CASE id \in DOMAIN s.docs
    <2>1. s.docs \in [DOMAIN s.docs -> DocumentUpTo(n)] /\ DOMAIN s.docs \subseteq Id
        BY <1>1, DocsDef
    <2>2. PICK es : es = t.docs
        OBVIOUS
    <2>3. t = [s EXCEPT !.docs = t.docs] /\ DOMAIN es = DOMAIN s.docs
          /\ es = [i \in DOMAIN s.docs |-> es[i]]
        BY <1>1, <1>3, <2>1, <2>2 DEF applyDocumentPayload, Store
    <2>4. \A i \in DOMAIN s.docs : i # id => es[i] = s.docs[i]
        BY <1>1, <1>3, <2>1, <2>2 DEF applyDocumentPayload, Store
    <2>5. /\ es[id].path = path /\ es[id].content = text /\ es[id].saved = text
          /\ es[id].checked = s.docs[id].checked
          /\ es[id].savedAs = (s.docs[id].savedAs \/ s.docs[id].path # path)
          /\ es[id] \in DocumentUpTo(n)
        <3>1. s.docs[id] \in DocumentUpTo(n)
            BY <1>3, <2>1
        <3>2. es[id] = [s.docs[id] EXCEPT !.path = path, !.content = text, !.saved = text,
                            !.savedAs = s.docs[id].savedAs \/ s.docs[id].path # path]
            BY <1>1, <1>3, <2>1, <2>2, <3>1 DEF applyDocumentPayload, Store, DocumentUpTo
        <3> QED
            BY <3>1, <3>2 DEF DocumentUpTo
    <2>6. es \in [DOMAIN s.docs -> DocumentUpTo(n)]
        BY <2>1, <2>3, <2>4, <2>5
    <2>7. es \in Docs(n)
        BY <2>1, <2>3, <2>6, DocsDef
    <2>8. t \in Store(n) /\ t.docs = es /\ t.queue = s.queue /\ t.created = s.created
          /\ t.jobs = s.jobs
        BY <1>1, <2>2, <2>3, <2>7 DEF Store
    <2>9. Stake(es, id, At) = {}
        BY <2>5 DEF Stake
    <2>10. Quiet(s.docs, es, s.created, At)
        BY <1>3, <2>3, <2>4, <2>9 DEF Quiet, Stake
    <2>11. Held(es, At)
        BY <2>10, QuietHeld DEF Core
    <2>12. TabsFit(es)
        BY <2>3, <2>4, <2>5, SameTabs DEF Core
    <2>13. PathsFit(es)
        <3>1. ASSUME NEW a \in DOMAIN es, NEW b \in DOMAIN es, a # b,
                     es[a].path = es[b].path, es[a].path # NoPath
              PROVE  es[a].savedAs \/ es[b].savedAs
            <4>1. s.docs[a] \in DocumentUpTo(n) /\ s.docs[b] \in DocumentUpTo(n)
                BY <2>1, <2>3
            <4>2. CASE a # id /\ b # id
                BY <2>3, <2>4, <3>1, <4>2 DEF Core, PathsFit
            <4>3. CASE s.docs[id].path # path
                BY <2>4, <2>5, <3>1, <4>2, <4>3
            <4>4. CASE s.docs[id].path = path
                <5>1. s.docs[a].path = s.docs[b].path /\ s.docs[a].path # NoPath
                    BY <2>3, <2>4, <2>5, <3>1, <4>4
                <5>2. s.docs[a].savedAs \/ s.docs[b].savedAs
                    BY <2>3, <3>1, <5>1 DEF Core, PathsFit
                <5> QED
                    BY <2>3, <2>4, <2>5, <3>1, <5>2
            <4> QED
                BY <4>2, <4>3, <4>4
        <3> QED
            BY <3>1 DEF PathsFit
    <2>14. SavedFits(es, vs, ow)
        BY <2>3, <2>4, <2>5 DEF Core, SavedFits
    <2> QED
        BY <1>1, <2>3, <2>8, <2>10, <2>11, <2>12, <2>13, <2>14 DEF Core
<1> QED
    BY <1>2, <1>3
-------------------------------------------------------------------------------
(* Changes of one operation *)

PutJob(s, j, job) == [s EXCEPT !.jobs = [s.jobs EXCEPT ![j] = job]]

LEMMA PutJobFields ==
    ASSUME NEW n, NEW s \in Store(n), NEW j \in Job, NEW job \in JobUpTo(n),
           NEW t, t = PutJob(s, j, job)
    PROVE  /\ t \in Store(n) /\ t.docs = s.docs /\ t.queue = s.queue
           /\ t.created = s.created /\ t.alive = s.alive
           /\ t.jobs[j] = job /\ \A k \in Job \ {j} : t.jobs[k] = s.jobs[k]
    BY DEF PutJob, Store

LEMMA JobType ==
    ASSUME NEW n, NEW vs, NEW ow, NEW At, NEW s, Core(s, n, vs, ow, At), NEW j \in Job
    PROVE  s \in Store(n) /\ s.jobs[j] \in JobUpTo(n) /\ s.docs \in Docs(n)
           /\ s.created \in 0 .. MaxDocs /\ s.queue \in Seq(Call(n)) /\ 0 \notin DOMAIN s.docs
           /\ DOMAIN s.docs \subseteq 1 .. s.created
    BY DEF Core, Store

\* Whatever its new record says, the operation is under way.
LEMMA PutJobDuring ==
    ASSUME NEW n, NEW s, NEW vs, NEW ow, NEW At, NEW j \in Job,
           During(s, j, n, vs, ow, At), NEW job \in JobUpTo(n),
           job.doc \in 0 .. s.created, job.todo \subseteq 1 .. s.created,
           job.kind = "open" => job.doc = 0,
           NEW t, t = PutJob(s, j, job)
    PROVE  During(t, j, n, vs, ow, At)
<1>1. s \in Store(n)
    BY DEF During, Core
<1>2. /\ t \in Store(n) /\ t.docs = s.docs /\ t.queue = s.queue
      /\ t.created = s.created
      /\ t.jobs[j] = job /\ \A k \in Job \ {j} : t.jobs[k] = s.jobs[k]
    BY <1>1, PutJobFields
<1> QED
    BY <1>2 DEF During, Core, JobsFit

\* The operation stops at its next await.
LEMMA PutJobFits ==
    ASSUME NEW n, NEW s, NEW vs, NEW ow, NEW At, NEW j \in Job,
           During(s, j, n, vs, ow, At), NEW job \in JobUpTo(n),
           JobFits(job, j, s.docs, s.queue, s.created, vs, At),
           NEW t, t = PutJob(s, j, job)
    PROVE  Fits(t, n, vs, ow, At)
<1>1. s \in Store(n)
    BY DEF During, Core
<1>2. /\ t \in Store(n) /\ t.docs = s.docs /\ t.queue = s.queue
      /\ t.created = s.created
      /\ t.jobs[j] = job /\ \A k \in Job \ {j} : t.jobs[k] = s.jobs[k]
    BY <1>1, PutJobFields
<1> QED
    BY <1>2 DEF During, Core, JobsFit, Fits

LEMMA AbandonFits ==
    ASSUME NEW n, NEW s, NEW vs, NEW ow, NEW At, NEW j \in Job,
           During(s, j, n, vs, ow, At)
    PROVE  Fits(Abandon(s, j), n, vs, ow, At)
<1>1. s \in Store(n) /\ s.created \in 0 .. MaxDocs /\ 0 \notin DOMAIN s.docs
    BY JobType DEF During
<1>2. PICK job : job = Started("none", "done")
    OBVIOUS
<1>3. job \in JobUpTo(n) /\ job.doc = 0 /\ job.todo = {} /\ job.after = "none" /\ job.step = "done"
    BY <1>2, IdleJob
<1>4. JobFits(job, j, s.docs, s.queue, s.created, vs, At)
    BY <1>1, <1>3 DEF JobFits, During
<1>5. Abandon(s, j) = PutJob(s, j, job)
    BY <1>1, <1>2 DEF Abandon, PutJob, Store
<1> QED
    BY <1>3, <1>4, <1>5, PutJobFits

LEMMA FormatFits ==
    ASSUME NEW n, NEW s, NEW vs, NEW ow, NEW At, NEW j \in Job,
           During(s, j, n, vs, ow, At), s.jobs[j].doc \in DOMAIN s.docs,
           Covered(s, j, s.jobs[j].todo \cup {s.jobs[j].doc}, At)
    PROVE  Fits(Format(s, j), n, vs, ow, At)
<1>1. s \in Store(n) /\ s.jobs[j] \in JobUpTo(n) /\ s.docs \in Docs(n)
    BY JobType DEF During
<1>2. s.docs[s.jobs[j].doc] \in DocumentUpTo(n)
    BY <1>1, DocsDef
<1>3. PICK job : job = [s.jobs[j] EXCEPT !.step = "format",
                                         !.content = s.docs[s.jobs[j].doc].content]
    OBVIOUS
<1>4. job \in JobUpTo(n) /\ job.doc = s.jobs[j].doc /\ job.todo = s.jobs[j].todo
      /\ job.after = s.jobs[j].after /\ job.step = "format" /\ job.kind = s.jobs[j].kind
      /\ job.content = s.docs[s.jobs[j].doc].content
    BY <1>1, <1>2, <1>3 DEF JobUpTo, DocumentUpTo
<1>5. JobFits(job, j, s.docs, s.queue, s.created, vs, At)
    BY <1>4 DEF JobFits, During, Covered, InHand, Stake
<1>6. Format(s, j) = PutJob(s, j, job)
    BY <1>1, <1>3 DEF Format, PutJob, Store, JobUpTo
<1> QED
    BY <1>4, <1>5, <1>6, PutJobFits

\* The file picker opens, or the session is flushed.
LEMMA PickFits ==
    ASSUME NEW n, NEW s, NEW vs, NEW ow, NEW At, NEW j \in Job,
           During(s, j, n, vs, ow, At),
           Covered(s, j, s.jobs[j].todo \cup {s.jobs[j].doc}, At)
    PROVE  Fits([s EXCEPT !.jobs[j].step = "pick"], n, vs, ow, At)
<1>1. s \in Store(n) /\ s.jobs[j] \in JobUpTo(n)
    BY JobType DEF During
<1>2. PICK job : job = [s.jobs[j] EXCEPT !.step = "pick"]
    OBVIOUS
<1>3. job \in JobUpTo(n) /\ job.doc = s.jobs[j].doc /\ job.todo = s.jobs[j].todo
      /\ job.after = s.jobs[j].after /\ job.step = "pick" /\ job.kind = s.jobs[j].kind
    BY <1>1, <1>2 DEF JobUpTo
<1>4. JobFits(job, j, s.docs, s.queue, s.created, vs, At)
    BY <1>3 DEF JobFits, During, Covered, InHand
<1>5. [s EXCEPT !.jobs[j].step = "pick"] = PutJob(s, j, job)
    BY <1>1, <1>2 DEF PutJob, Store, JobUpTo
<1> QED
    BY <1>3, <1>4, <1>5, PutJobFits

LEMMA FlushFits ==
    ASSUME NEW n, NEW s, NEW vs, NEW ow, NEW At, NEW j \in Job,
           During(s, j, n, vs, ow, At), s.jobs[j].todo = {}, s.jobs[j].after # "none",
           Covered(s, j, {}, At)
    PROVE  Fits([s EXCEPT !.jobs[j].step = "flush", !.jobs[j].doc = 0], n, vs, ow, At)
<1>1. s \in Store(n) /\ s.jobs[j] \in JobUpTo(n) /\ s.created \in 0 .. MaxDocs
      /\ 0 \notin DOMAIN s.docs
    BY JobType DEF During
<1>2. PICK job : job = [s.jobs[j] EXCEPT !.step = "flush", !.doc = 0]
    OBVIOUS
<1>3. job \in JobUpTo(n) /\ job.doc = 0 /\ job.todo = {}
      /\ job.after = s.jobs[j].after /\ job.step = "flush"
    BY <1>1, <1>2 DEF JobUpTo
<1>4. JobFits(job, j, s.docs, s.queue, s.created, vs, At)
    BY <1>1, <1>3 DEF JobFits, During, Covered, InHand
<1>5. [s EXCEPT !.jobs[j].step = "flush", !.jobs[j].doc = 0] = PutJob(s, j, job)
    BY <1>1, <1>2 DEF PutJob, Store, JobUpTo
<1> QED
    BY <1>3, <1>4, <1>5, PutJobFits
LEMMA AppendCall ==
    ASSUME NEW n, NEW q \in Seq(Call(n)), NEW c \in Call(n), NEW r, r = Append(q, c)
    PROVE  /\ r \in Seq(Call(n)) /\ DOMAIN r = DOMAIN q \cup {Len(q) + 1}
           /\ Len(q) + 1 \notin DOMAIN q /\ r[Len(q) + 1] = c
           /\ \A k \in DOMAIN q : r[k] = q[k]
    OBVIOUS

LEMMA SendFits ==
    ASSUME NEW n, NEW s, NEW vs, NEW ow, NEW At, NEW j \in Job,
           During(s, j, n, vs, ow, At), NEW type \in {"load", "write"},
           NEW path \in Path, NEW text \in Texts(n), type = "load" => text.edits = {},
           s.jobs[j].doc \in DOMAIN s.docs =>
               Stake(s.docs, s.jobs[j].doc, At) \subseteq text.edits,
           Covered(s, j, s.jobs[j].todo \cup {s.jobs[j].doc}, At)
    PROVE  Fits(Send(s, j, type, path, text), n, vs, ow, At)
<1>1. s \in Store(n) /\ s.jobs[j] \in JobUpTo(n) /\ s.queue \in Seq(Call(n))
    BY JobType DEF During
<1>2. PICK job : job = [s.jobs[j] EXCEPT !.step = "wait", !.path = path, !.content = Blank]
    OBVIOUS
<1>3. job \in JobUpTo(n) /\ job.doc = s.jobs[j].doc /\ job.todo = s.jobs[j].todo
      /\ job.after = s.jobs[j].after /\ job.step = "wait" /\ job.path = path
      /\ job.kind = s.jobs[j].kind
    BY <1>1, <1>2, BlankText DEF JobUpTo
<1>4. PICK c : c = [job |-> j, type |-> type, path |-> path, content |-> text]
    OBVIOUS
<1>5. c \in Call(n) /\ c.job = j /\ c.path = path /\ c.content = text /\ c.type = type
    BY <1>4 DEF Call
<1>6. PICK q : q = Append(s.queue, c)
    OBVIOUS
<1>7. /\ q \in Seq(Call(n)) /\ DOMAIN q = DOMAIN s.queue \cup {Len(s.queue) + 1}
      /\ Len(s.queue) + 1 \notin DOMAIN s.queue /\ q[Len(s.queue) + 1] = c
      /\ \A k \in DOMAIN s.queue : q[k] = s.queue[k]
    BY <1>1, <1>5, <1>6, AppendCall
<1>8. PICK t : t = Send(s, j, type, path, text)
    OBVIOUS
<1>9. t = [s EXCEPT !.jobs = [s.jobs EXCEPT ![j] = job], !.queue = q]
    <2>1. PICK jobs : jobs = [s.jobs EXCEPT ![j] = job]
        OBVIOUS
    <2>2. jobs = [s.jobs EXCEPT ![j].step = "wait", ![j].path = path, ![j].content = Blank]
        BY <1>1, <1>2, <2>1 DEF Store, JobUpTo
    <2>3. t = [s EXCEPT !.jobs = jobs, !.queue = q]
        BY <1>1, <1>4, <1>6, <1>8, <2>2 DEF Send, Store
    <2> QED
        BY <2>1, <2>3
<1>10. /\ t \in Store(n) /\ t.docs = s.docs /\ t.queue = q /\ t.created = s.created
       /\ t.jobs[j] = job /\ \A k \in Job \ {j} : t.jobs[k] = s.jobs[k]
    BY <1>1, <1>3, <1>7, <1>9 DEF Store
<1>11. CallsFit(q)
    BY <1>5, <1>7 DEF CallsFit, During, Core
<1>12. JobFits(job, j, s.docs, q, s.created, vs, At)
    BY <1>3, <1>5, <1>7 DEF JobFits, During, Covered, InHand
<1>13. ASSUME NEW k \in Job \ {j}
       PROVE  JobFits(s.jobs[k], k, s.docs, q, s.created, vs, At)
    <2>1. JobFits(s.jobs[k], k, s.docs, s.queue, s.created, vs, At)
        BY DEF During, JobsFit
    <2> QED
        BY <1>5, <1>7, <2>1 DEF JobFits
<1>14. JobsFit(t, Job, vs, At)
    BY <1>10, <1>12, <1>13 DEF JobsFit
<1>15. Core(t, n, vs, ow, At)
    BY <1>10, <1>11 DEF Core, During
<1> QED
    BY <1>8, <1>14, <1>15 DEF Fits

-------------------------------------------------------------------------------
(* Saving *)

LEMMA PreparedFits ==
    ASSUME NEW n, NEW s, NEW vs, NEW ow, NEW At, NEW j \in Job,
           During(s, j, n, vs, ow, At), s.jobs[j].doc \in DOMAIN s.docs,
           Covered(s, j, s.jobs[j].todo \cup {s.jobs[j].doc}, At)
    PROVE  Fits(Prepared(s, j), n, vs, ow, At)
<1>1. s \in Store(n) /\ s.jobs[j] \in JobUpTo(n) /\ s.docs \in Docs(n)
    BY JobType DEF During
<1>2. PICK d : d = s.docs[s.jobs[j].doc]
    OBVIOUS
<1>3. d \in DocumentUpTo(n)
    BY <1>1, <1>2, DocsDef
<1>4. CASE ~ s.jobs[j].again /\ d.path # NoPath
    <2>1. d.path \in Path /\ d.content \in Texts(n) /\ "write" \in {"load", "write"} /\ "write" # "load"
        BY <1>3, <1>4 DEF DocumentUpTo
    <2>2. Stake(s.docs, s.jobs[j].doc, At) \subseteq d.content.edits
        BY <1>2 DEF Stake
    <2>3. Prepared(s, j) = Send(s, j, "write", d.path, d.content)
        BY <1>2, <1>4 DEF Prepared
    <2> QED
        BY <2>1, <2>2, <2>3, SendFits
<1>5. CASE ~ s.jobs[j].again /\ d.path = NoPath /\ s.jobs[j].fmt
    <2>1. PICK job : job = [s.jobs[j] EXCEPT !.again = TRUE]
        OBVIOUS
    <2>2. job \in JobUpTo(n) /\ job.doc = s.jobs[j].doc /\ job.todo = s.jobs[j].todo
          /\ job.after = s.jobs[j].after /\ job.kind = s.jobs[j].kind
        BY <1>1, <2>1 DEF JobUpTo
    <2>3. PICK t : t = PutJob(s, j, job)
        OBVIOUS
    <2>4. t = [s EXCEPT !.jobs[j].again = TRUE]
        BY <1>1, <2>1, <2>3 DEF PutJob, Store, JobUpTo
    <2>5. During(t, j, n, vs, ow, At)
        <3>1. job.doc \in 0 .. s.created /\ job.todo \subseteq 1 .. s.created
              /\ (job.kind = "open" => job.doc = 0)
            BY <2>2 DEF During
        <3> QED
            BY <2>2, <2>3, <3>1, PutJobDuring
    <2>6. t.docs = s.docs /\ t.jobs[j] = job
        BY <1>1, <2>2, <2>3, PutJobFields
    <2>7. Covered(t, j, t.jobs[j].todo \cup {t.jobs[j].doc}, At)
        BY <2>2, <2>6 DEF Covered
    <2>8. Prepared(s, j) = Format(t, j)
        BY <1>2, <1>5, <2>4 DEF Prepared
    <2> QED
        BY <2>2, <2>5, <2>6, <2>7, <2>8, FormatFits
<1>6. CASE s.jobs[j].again \/ (d.path = NoPath /\ ~ s.jobs[j].fmt)
    <2>1. Prepared(s, j) = [s EXCEPT !.jobs[j].step = "pick"]
        BY <1>2, <1>6 DEF Prepared
    <2> QED
        BY <2>1, PickFits
<1> QED
    BY <1>4, <1>5, <1>6

\* A new text that leaves what is at stake in the document alone.
LEMMA TextDuring ==
    ASSUME NEW n, NEW s, NEW vs, NEW ow, NEW At, NEW j \in Job,
           During(s, j, n, vs, ow, At), NEW id \in DOMAIN s.docs, NEW text \in Texts(n),
           text.edits \cap At = Stake(s.docs, id, At),
           NEW t, t = WithText(s, id, text)
    PROVE  /\ During(t, j, n, vs, ow, At) /\ Quiet(s.docs, t.docs, s.created, At)
           /\ t.jobs = s.jobs /\ t.queue = s.queue /\ t.created = s.created
           /\ DOMAIN t.docs = DOMAIN s.docs
<1>1. s.created \in Nat
    BY JobType DEF During
<1>2. Core(s, n, vs, ow, At) /\ JobsFit(s, Job \ {j}, vs, At)
    BY DEF During
<1>3. /\ Core(t, n, vs, ow, At) /\ Quiet(s.docs, t.docs, s.created, At)
      /\ t.jobs = s.jobs /\ t.queue = s.queue /\ t.created = s.created
      /\ DOMAIN t.docs = DOMAIN s.docs
    BY <1>2, PutTextCore
<1>4. JobsFit(t, Job \ {j}, vs, At)
    BY <1>1, <1>2, <1>3, QuietJobs
<1> QED
    BY <1>3, <1>4 DEF During
LEMMA SaveFits ==
    ASSUME NEW n, NEW s, NEW vs, NEW ow, NEW At, NEW j \in Job,
           During(s, j, n, vs, ow, At), NEW id \in 1 .. s.created,
           Covered(s, j, s.jobs[j].todo \cup {id}, At)
    PROVE  Fits(saveDocument(s, j, id), n, vs, ow, At)
<1>1. s \in Store(n) /\ s.jobs[j] \in JobUpTo(n) /\ s.docs \in Docs(n)
      /\ s.created \in 0 .. MaxDocs
    BY JobType DEF During
<1>2. CASE id \notin DOMAIN s.docs
    BY <1>2, AbandonFits DEF saveDocument
<1>3. CASE id \in DOMAIN s.docs
    <2>1. s.docs[id] \in DocumentUpTo(n) /\ id \in Id
        BY <1>1, <1>3, DocsDef
    <2>2. PICK text : text = Tidied(s.docs[id].content)
        OBVIOUS
    <2>3. text \in Texts(n) /\ text.edits \cap At = Stake(s.docs, id, At)
        BY <2>1, <2>2, TidiedText DEF DocumentUpTo, Stake
    <2>4. PICK t : t = WithText(s, id, text)
        OBVIOUS
    <2>5. /\ During(t, j, n, vs, ow, At) /\ Quiet(s.docs, t.docs, s.created, At)
          /\ t.jobs = s.jobs /\ t.created = s.created
          /\ DOMAIN t.docs = DOMAIN s.docs
        BY <1>3, <2>3, <2>4, TextDuring
    <2>6. PICK job : job = [s.jobs[j] EXCEPT !.kind = "save", !.doc = id, !.again = FALSE]
        OBVIOUS
    <2>7. job \in JobUpTo(n) /\ job.doc = id /\ job.todo = s.jobs[j].todo
          /\ job.after = s.jobs[j].after /\ job.fmt = s.jobs[j].fmt /\ job.kind # "open"
        BY <1>1, <2>1, <2>6 DEF JobUpTo
    <2>8. job.doc \in 0 .. t.created /\ job.todo \subseteq 1 .. t.created
        BY <1>1, <2>5, <2>7 DEF During
    <2>9. PICK u : u = PutJob(t, j, job)
        OBVIOUS
    <2>10. During(u, j, n, vs, ow, At)
        BY <2>5, <2>7, <2>8, <2>9, PutJobDuring
    <2>11. t \in Store(n)
        BY <2>5 DEF During, Core
    <2>12. u.docs = t.docs /\ u.jobs[j] = job
        BY <2>7, <2>9, <2>11, PutJobFields
    <2>13. Covered(t, j, s.jobs[j].todo \cup {id}, At)
        BY <2>5, QuietCovered
    <2>14. Covered(u, j, u.jobs[j].todo \cup {u.jobs[j].doc}, At)
        BY <2>5, <2>7, <2>12, <2>13 DEF Covered
    <2>15. u.jobs[j].doc \in DOMAIN u.docs
        BY <1>3, <2>5, <2>7, <2>12
    <2>16. u = [s EXCEPT !.docs = applySaveConventions(@, id), !.jobs[j].kind = "save",
                         !.jobs[j].doc = id, !.jobs[j].again = FALSE]
        <3>1. applySaveConventions(s.docs, id) = [s.docs EXCEPT ![id].content = text]
            BY <1>3, <2>2 DEF applySaveConventions
        <3>2. PICK es : es = [s.docs EXCEPT ![id].content = text]
            OBVIOUS
        <3>3. PICK jobs : jobs = [s.jobs EXCEPT ![j] = job]
            OBVIOUS
        <3>4. u = [s EXCEPT !.docs = es, !.jobs = jobs]
            BY <1>1, <2>4, <2>9, <3>2, <3>3 DEF WithText, PutJob, Store
        <3>5. jobs = [s.jobs EXCEPT ![j].kind = "save", ![j].doc = id, ![j].again = FALSE]
            BY <1>1, <2>6, <3>3 DEF Store, JobUpTo
        <3>6. [s EXCEPT !.docs = es, !.jobs[j].kind = "save",
                        !.jobs[j].doc = id, !.jobs[j].again = FALSE]
                = [s EXCEPT !.docs = es, !.jobs = jobs]
            BY <1>1, <3>5 DEF Store, JobUpTo
        <3>7. [s EXCEPT !.docs = applySaveConventions(@, id), !.jobs[j].kind = "save",
                        !.jobs[j].doc = id, !.jobs[j].again = FALSE]
                = [s EXCEPT !.docs = es, !.jobs[j].kind = "save",
                            !.jobs[j].doc = id, !.jobs[j].again = FALSE]
            BY <3>1, <3>2
        <3> QED
            BY <3>4, <3>6, <3>7
    <2>17. saveDocument(s, j, id) = IF u.jobs[j].fmt THEN Format(u, j) ELSE Prepared(u, j)
        BY <1>3, <2>16 DEF saveDocument
    <2>18. Fits(Format(u, j), n, vs, ow, At)
        BY <2>10, <2>14, <2>15, FormatFits
    <2>19. Fits(Prepared(u, j), n, vs, ow, At)
        BY <2>10, <2>14, <2>15, PreparedFits
    <2> QED
        BY <2>17, <2>18, <2>19
<1> QED
    BY <1>2, <1>3

-------------------------------------------------------------------------------
(* Closing *)

LEMMA EmptyDocs ==
    ASSUME NEW vs, NEW ow
    PROVE  TabsFit(<<>>) /\ PathsFit(<<>>) /\ SavedFits(<<>>, vs, ow) /\ Held(<<>>, {})
<1>1. PICK ds : ds = <<>>
    OBVIOUS
<1>2. DOMAIN ds = {}
    BY <1>1, NoDocs
<1>3. Unchecked(ds) = {}
    BY <1>2 DEF Unchecked
<1>4. Cardinality({}) = 0
    BY FS_EmptySet
<1>5. TabsFit(ds)
    BY <1>2, <1>3, <1>4, EditorAssumption DEF TabsFit
<1>6. PathsFit(ds) /\ SavedFits(ds, vs, ow) /\ Held(ds, {})
    BY <1>2 DEF PathsFit, SavedFits, Held
<1> QED
    BY <1>1, <1>5, <1>6

\* With no document having anything at stake, nothing is.
LEMMA NothingAtStake ==
    ASSUME NEW ds, NEW At, Held(ds, At), \A id \in DOMAIN ds : Stake(ds, id, At) = {}
    PROVE  At = {}
    BY DEF Held, Stake

LEMMA ClearFits ==
    ASSUME NEW n, NEW s, NEW vs, NEW ow, NEW At, Fits(s, n, vs, ow, At),
           \A id \in DOMAIN s.docs : Stake(s.docs, id, At) = {}
    PROVE  Fits(clearDocuments(s), n, vs, ow, At)
<1>1. s \in Store(n) /\ s.docs \in Docs(n) /\ s.created \in 0 .. MaxDocs
    BY DEF Fits, Core, Store
<1>2. At = {}
    BY NothingAtStake DEF Fits, Core
<1> DEFINE Kept(job) == IF job.step = "pick" /\ job.doc \in DOMAIN s.docs
                        THEN [job EXCEPT !.content = s.docs[job.doc].content] ELSE job
<1>3. ASSUME NEW k \in Job
      PROVE  /\ Kept(s.jobs[k]) \in JobUpTo(n)
             /\ Kept(s.jobs[k]).step = s.jobs[k].step /\ Kept(s.jobs[k]).doc = s.jobs[k].doc
             /\ Kept(s.jobs[k]).todo = s.jobs[k].todo /\ Kept(s.jobs[k]).after = s.jobs[k].after
             /\ Kept(s.jobs[k]).path = s.jobs[k].path
             /\ Kept(s.jobs[k]).kind = s.jobs[k].kind
             /\ s.jobs[k].step # "pick" => Kept(s.jobs[k]).content = s.jobs[k].content
    <2>1. s.jobs[k] \in JobUpTo(n)
        BY <1>1 DEF Store
    <2>2. \A id \in DOMAIN s.docs : s.docs[id].content \in Texts(n)
        BY <1>1, DocsDef DEF DocumentUpTo
    <2> QED
        BY <2>1, <2>2 DEF JobUpTo
<1>4. PICK jobs : jobs = [k \in Job |-> Kept(s.jobs[k])]
    OBVIOUS
<1>5. jobs \in [Job -> JobUpTo(n)]
    BY <1>3, <1>4
<1>6. PICK t : t = clearDocuments(s)
    OBVIOUS
<1>7. t = [s EXCEPT !.docs = <<>>, !.jobs = jobs]
    BY <1>1, <1>4, <1>6 DEF clearDocuments, Store
<1>8. t \in Store(n) /\ t.docs = <<>> /\ t.jobs = jobs /\ t.queue = s.queue
      /\ t.created = s.created
    BY <1>1, <1>5, <1>7, NoDocs DEF Store
<1>9. Core(t, n, vs, ow, At)
    BY <1>2, <1>8, EmptyDocs, NoDocs DEF Fits, Core
<1>10. ASSUME NEW k \in Job
       PROVE  JobFits(jobs[k], k, <<>>, s.queue, s.created, vs, At)
    <2>1. JobFits(s.jobs[k], k, s.docs, s.queue, s.created, vs, At)
        BY DEF Fits, JobsFit
    <2>2. jobs[k] = Kept(s.jobs[k])
        BY <1>4
    <2> HIDE DEF Kept
    <2> QED
        BY <1>3, <2>1, <2>2, NoDocs DEF JobFits
<1> QED
    BY <1>6, <1>8, <1>9, <1>10 DEF Fits, JobsFit
LEMMA HandledFits ==
    ASSUME NEW n, NEW s, NEW vs, NEW ow, NEW At, NEW j \in Job,
           During(s, j, n, vs, ow, At), s.jobs[j].todo = {}, Covered(s, j, {}, At)
    PROVE  Fits(Handled(s, j), n, vs, ow, At)
<1>1. s \in Store(n) /\ s.jobs[j] \in JobUpTo(n)
    BY JobType DEF During
<1>2. s.jobs[j].after \in {"none", "folder", "quit"}
    BY <1>1 DEF JobUpTo
<1>3. CASE s.jobs[j].after = "none"
    BY <1>3, AbandonFits DEF Handled
<1>4. CASE s.jobs[j].after = "folder"
    <2>1. PICK t : t = Abandon(s, j)
        OBVIOUS
    <2>2. Fits(t, n, vs, ow, At)
        BY <2>1, AbandonFits
    <2>3. t.docs = s.docs
        BY <1>1, <2>1 DEF Abandon, Store
    <2>4. \A id \in DOMAIN t.docs : Stake(t.docs, id, At) = {}
        BY <1>4, <2>3 DEF Covered
    <2>5. Handled(s, j) = clearDocuments(t)
        BY <1>4, <2>1 DEF Handled
    <2> QED
        BY <2>2, <2>4, <2>5, ClearFits
<1>5. CASE s.jobs[j].after = "quit"
    <2>1. Handled(s, j) = [s EXCEPT !.jobs[j].step = "flush", !.jobs[j].doc = 0]
        BY <1>5 DEF Handled
    <2>2. s.jobs[j].after # "none"
        BY <1>5
    <2>3. Fits([s EXCEPT !.jobs[j].step = "flush", !.jobs[j].doc = 0], n, vs, ow, At)
        BY <2>2, FlushFits, Zenon
    <2> QED
        BY <2>1, <2>3
<1> QED
    BY <1>2, <1>3, <1>4, <1>5

\* A shorter list.
WithTodo(s, j, T) == [s EXCEPT !.jobs[j].todo = T]

LEMMA PutTodo ==
    ASSUME NEW n, NEW s, NEW vs, NEW ow, NEW At, NEW j \in Job,
           During(s, j, n, vs, ow, At), NEW T, T \subseteq s.jobs[j].todo,
           NEW t, t = WithTodo(s, j, T)
    PROVE  During(t, j, n, vs, ow, At) /\ t.docs = s.docs /\ t.created = s.created
           /\ t.jobs[j].todo = T /\ t.jobs[j].after = s.jobs[j].after
<1>1. s \in Store(n) /\ s.jobs[j] \in JobUpTo(n)
    BY JobType DEF During
<1>2. PICK job : job = [s.jobs[j] EXCEPT !.todo = T]
    OBVIOUS
<1>3. job \in JobUpTo(n) /\ job.todo = T /\ job.doc = s.jobs[j].doc
      /\ job.kind = s.jobs[j].kind
      /\ job.after = s.jobs[j].after
    BY <1>1, <1>2 DEF JobUpTo
<1>4. job.doc \in 0 .. s.created /\ job.todo \subseteq 1 .. s.created
      /\ (job.kind = "open" => job.doc = 0)
    BY <1>3 DEF During
<1>5. t = PutJob(s, j, job)
    BY <1>1, <1>2 DEF WithTodo, PutJob, Store, JobUpTo
<1>6. During(t, j, n, vs, ow, At)
    BY <1>3, <1>4, <1>5, PutJobDuring
<1>7. t.docs = s.docs /\ t.created = s.created /\ t.jobs[j] = job
    BY <1>1, <1>3, <1>5, PutJobFields
<1> QED
    BY <1>3, <1>6, <1>7

\* A clean document has nothing at stake: its saved text holds nothing owed.
LEMMA CleanIsSafe ==
    ASSUME NEW n, NEW s, NEW vs, NEW ow, NEW At, Core(s, n, vs, ow, At), At \subseteq ow,
           NEW id \in DOMAIN s.docs, ~ Dirty(s.docs[id])
    PROVE  Stake(s.docs, id, At) = {}
    BY DEF Core, SavedFits, Dirty, Stake

LEMMA SaveDirtyFits ==
    ASSUME NEW n, NEW s, NEW vs, NEW ow, NEW At, NEW j \in Job, At \subseteq ow,
           During(s, j, n, vs, ow, At), Covered(s, j, s.jobs[j].todo, At)
    PROVE  Fits(saveDirtyDocuments(s, j), n, vs, ow, At)
<1>1. s \in Store(n) /\ s.jobs[j] \in JobUpTo(n) /\ Core(s, n, vs, ow, At)
      /\ s.created \in 0 .. MaxDocs
    BY JobType DEF During
<1>2. PICK todo : todo = s.jobs[j].todo
    OBVIOUS
<1>3. todo \subseteq 1 .. s.created
    BY <1>2 DEF During
<1>4. PICK Due : Due = todo \cap dirtyDocuments(s.docs)
    OBVIOUS
<1>5. ASSUME NEW id \in DOMAIN s.docs, s.jobs[j].after # "none", id \notin Due
      PROVE  Stake(s.docs, id, At) = {}
    BY <1>1, <1>2, <1>4, <1>5, CleanIsSafe DEF Covered, dirtyDocuments
<1>6. CASE Due = {}
    <2>1. PICK t : t = WithTodo(s, j, {})
        OBVIOUS
    <2>2. During(t, j, n, vs, ow, At) /\ t.docs = s.docs
          /\ t.jobs[j].todo = {} /\ t.jobs[j].after = s.jobs[j].after
        BY <2>1, PutTodo
    <2>3. Covered(t, j, {}, At)
        BY <1>5, <1>6, <2>2 DEF Covered
    <2>4. saveDirtyDocuments(s, j) = Handled(t, j)
        BY <1>2, <1>4, <1>6, <2>1 DEF saveDirtyDocuments, WithTodo
    <2> QED
        BY <2>2, <2>3, <2>4, HandledFits
<1>7. CASE Due # {}
    <2>1. PICK first : first = CHOOSE id \in Due : \A other \in Due : id <= other
        OBVIOUS
    <2>2. Due \subseteq Nat
        <3>1. 1 .. s.created \subseteq Nat
            BY <1>1
        <3> QED
            BY <1>3, <1>4, <3>1
    <2>3. \E id \in Due : \A other \in Due : id <= other
        BY <1>7, <2>2, Smallest
    <2>4. first \in Due /\ \A other \in Due : first <= other
        BY <2>1, <2>3
    <2>5. PICK T : T = {id \in todo : id > first}
        OBVIOUS
    <2>6. T \subseteq s.jobs[j].todo
        BY <1>2, <2>5
    <2>7. PICK t : t = WithTodo(s, j, T)
        OBVIOUS
    <2>8. During(t, j, n, vs, ow, At) /\ t.docs = s.docs /\ t.created = s.created
          /\ t.jobs[j].todo = T /\ t.jobs[j].after = s.jobs[j].after
        BY <2>6, <2>7, PutTodo
    <2>9. first \in 1 .. t.created
        BY <1>3, <1>4, <2>4, <2>8
    <2>10. \A id \in Due : id \in T \cup {first}
        BY <1>4, <2>2, <2>4, <2>5
    <2>11. Covered(t, j, t.jobs[j].todo \cup {first}, At)
        BY <1>5, <2>8, <2>10 DEF Covered
    <2>12. saveDirtyDocuments(s, j) = saveDocument(t, j, first)
        BY <1>2, <1>4, <1>7, <2>1, <2>5, <2>7 DEF saveDirtyDocuments, WithTodo
    <2> QED
        BY <2>8, <2>9, <2>11, <2>12, SaveFits
<1> QED
    BY <1>6, <1>7

LEMMA PersistFits ==
    ASSUME NEW n, NEW s, NEW vs, NEW ow, NEW At, NEW j \in Job, At \subseteq ow,
           During(s, j, n, vs, ow, At), Covered(s, j, s.jobs[j].todo, At)
    PROVE  Fits(persistDirtyDocuments(s, j), n, vs, ow, At)
<1>1. PICK only : only = CHOOSE id \in s.jobs[j].todo : TRUE
    OBVIOUS
<1>2. CASE s.jobs[j].todo = {only}
    <2>1. PICK t : t = WithTodo(s, j, {})
        OBVIOUS
    <2>2. During(t, j, n, vs, ow, At) /\ t.docs = s.docs /\ t.created = s.created
          /\ t.jobs[j].todo = {} /\ t.jobs[j].after = s.jobs[j].after
        BY <2>1, PutTodo
    <2>3. only \in 1 .. t.created
        BY <1>2, <2>2 DEF During
    <2>4. Covered(t, j, t.jobs[j].todo \cup {only}, At)
        BY <1>2, <2>2 DEF Covered
    <2>5. persistDirtyDocuments(s, j) = saveDocument(t, j, only)
        BY <1>1, <1>2, <2>1 DEF persistDirtyDocuments, WithTodo
    <2> QED
        BY <2>2, <2>3, <2>4, <2>5, SaveFits
<1>3. CASE s.jobs[j].todo # {only}
    BY <1>1, <1>3, SaveDirtyFits DEF persistDirtyDocuments
<1> QED
    BY <1>2, <1>3
-------------------------------------------------------------------------------
(* Less at stake, more versions, more changes; the first call is gone *)

LEMMA FewerFits ==
    ASSUME NEW n, NEW s, NEW vs, NEW ow, NEW At, Fits(s, n, vs, ow, At),
           NEW less, less \subseteq ow, NEW Rest, Rest \subseteq At
    PROVE  Fits(s, n, vs, less, Rest)
<1>1. Core(s, n, vs, less, Rest)
    BY DEF Fits, Core, SavedFits, Held
<1>2. \A id : Stake(s.docs, id, Rest) = Stake(s.docs, id, At) \cap Rest
    BY DEF Stake
<1>3. ASSUME NEW k \in Job
      PROVE  JobFits(s.jobs[k], k, s.docs, s.queue, s.created, vs, Rest)
    <2>1. JobFits(s.jobs[k], k, s.docs, s.queue, s.created, vs, At)
        BY DEF Fits, JobsFit
    <2>2. PICK job : job = s.jobs[k]
        OBVIOUS
    <2>3. job.step = "format" /\ job.doc \in DOMAIN s.docs =>
              Stake(s.docs, job.doc, Rest) = job.content.edits \cap Rest
        BY <1>2, <2>1, <2>2 DEF JobFits
    <2>4. job.after # "none" =>
              \A id \in DOMAIN s.docs :
                  Stake(s.docs, id, Rest) = {} \/ id \in job.todo
                      \/ (id = job.doc /\ job.step \in InHand)
        BY <1>2, <2>1, <2>2 DEF JobFits
    <2>5. job.step = "answered" =>
              /\ job.path \in Path /\ job.content \in vs[job.path]
              /\ job.doc \in DOMAIN s.docs => Stake(s.docs, job.doc, Rest) = {}
        BY <1>2, <2>1, <2>2 DEF JobFits
    <2>6. ASSUME NEW i \in DOMAIN s.queue, s.queue[i].job = k
          PROVE  /\ job.step = "wait" /\ job.path = s.queue[i].path
                 /\ job.doc \in DOMAIN s.docs =>
                       Stake(s.docs, job.doc, Rest) \subseteq s.queue[i].content.edits
        BY <1>2, <2>1, <2>2, <2>6 DEF JobFits
    <2>7. /\ job.doc \in 0 .. s.created /\ job.todo \subseteq 1 .. s.created
          /\ job.kind = "open" => job.doc = 0
          /\ job.step = "wait" => \E i \in DOMAIN s.queue : s.queue[i].job = k
          /\ job.step = "flush" => job.after # "none" /\ job.todo = {}
        BY <2>1, <2>2 DEF JobFits
    <2> QED
        BY <2>2, <2>3, <2>4, <2>5, <2>6, <2>7 DEF JobFits
<1> QED
    BY <1>1, <1>3 DEF Fits, JobsFit

LEMMA VersionsFit ==
    ASSUME NEW n, NEW s, NEW vs, NEW ow, NEW At, Fits(s, n, vs, ow, At),
           NEW more, \A p \in Path : vs[p] \subseteq more[p]
    PROVE  Fits(s, n, more, ow, At)
<1>1. s.docs \in Docs(n)
    BY DEF Fits, Core, Store
<1>2. \A id \in DOMAIN s.docs : s.docs[id].path \in Path \cup {NoPath}
    BY <1>1, DocsDef DEF DocumentUpTo
<1>3. SavedFits(s.docs, more, ow)
    BY <1>2 DEF Fits, Core, SavedFits
<1>4. Core(s, n, more, ow, At)
    BY <1>3 DEF Fits, Core
<1>5. JobsFit(s, Job, more, At)
    BY DEF Fits, JobsFit, JobFits
<1> QED
    BY <1>4, <1>5 DEF Fits

LEMMA TailCalls ==
    ASSUME NEW n, NEW q \in Seq(Call(n)), q # <<>>, NEW r, r = Tail(q)
    PROVE  /\ r \in Seq(Call(n)) /\ 1 \in DOMAIN q /\ Head(q) = q[1] /\ Head(q) \in Call(n)
           /\ \A k \in DOMAIN r : k + 1 \in DOMAIN q /\ k + 1 # 1 /\ k \in Nat /\ r[k] = q[k + 1]
           /\ \A k \in DOMAIN q : k # 1 => k - 1 \in DOMAIN r /\ r[k - 1] = q[k]
    OBVIOUS

\* The first call leaves the queue; the operation it belongs to is under way.
WithTail(s) == [s EXCEPT !.queue = Tail(@)]

LEMMA TailFits ==
    ASSUME NEW n, NEW s, NEW vs, NEW ow, NEW At, Fits(s, n, vs, ow, At), s.queue # <<>>,
           NEW c, c = Head(s.queue), NEW t, t = WithTail(s)
    PROVE  /\ Core(t, n, vs, ow, At) /\ t.docs = s.docs /\ t.jobs = s.jobs
           /\ t.created = s.created /\ c \in Call(n) /\ (c.type = "load" => c.content.edits = {})
           /\ JobsFit(t, Job \ {c.job}, vs, At)
           /\ c.job # 0 => \A k \in DOMAIN t.queue : t.queue[k].job # c.job
           /\ c.job \in Job =>
                 /\ s.jobs[c.job].step = "wait" /\ s.jobs[c.job].path = c.path
                 /\ s.jobs[c.job].doc \in DOMAIN s.docs =>
                       Stake(s.docs, s.jobs[c.job].doc, At) \subseteq c.content.edits
<1>1. s \in Store(n) /\ s.queue \in Seq(Call(n))
    BY DEF Fits, Core, Store
<1>2. PICK r : r = Tail(s.queue)
    OBVIOUS
<1>3. PICK q : q = s.queue
    OBVIOUS
<1>4. /\ r \in Seq(Call(n)) /\ 1 \in DOMAIN q /\ c = q[1] /\ c \in Call(n)
      /\ \A k \in DOMAIN r : k + 1 \in DOMAIN q /\ k + 1 # 1 /\ k \in Nat /\ r[k] = q[k + 1]
      /\ \A k \in DOMAIN q : k # 1 => k - 1 \in DOMAIN r /\ r[k - 1] = q[k]
    <2>1. q \in Seq(Call(n)) /\ q # <<>> /\ r = Tail(q) /\ c = Head(q)
        BY <1>1, <1>2, <1>3
    <2>2. c = q[1] /\ c \in Call(n)
        BY <2>1, TailCalls
    <2> QED
        BY <2>1, <2>2, TailCalls
<1>5. t \in Store(n) /\ t.docs = s.docs /\ t.jobs = s.jobs /\ t.queue = r
      /\ t.created = s.created
    BY <1>1, <1>2, <1>4 DEF WithTail, Store
<1>6. CallsFit(q)
    BY <1>3 DEF Fits, Core
<1>7. CallsFit(r)
    <2>1. ASSUME NEW k \in DOMAIN r, NEW l \in DOMAIN r, r[k].job = r[l].job, r[k].job # 0
          PROVE  k = l
        <3>1. k + 1 = l + 1
            BY <1>4, <1>6, <2>1 DEF CallsFit
        <3> QED
            BY <1>4, <3>1
    <2>2. \A k \in DOMAIN r : r[k].type = "load" => r[k].content.edits = {}
        BY <1>4, <1>6 DEF CallsFit
    <2> QED
        BY <2>1, <2>2 DEF CallsFit
<1>8. Core(t, n, vs, ow, At)
    BY <1>5, <1>7 DEF Fits, Core
<1>9. ASSUME NEW k \in Job \ {c.job}
      PROVE  JobFits(s.jobs[k], k, s.docs, r, s.created, vs, At)
    <2>1. JobFits(s.jobs[k], k, s.docs, q, s.created, vs, At)
        BY <1>3 DEF Fits, JobsFit
    <2>2. s.jobs[k].step = "wait" => \E i \in DOMAIN r : r[i].job = k
        BY <1>4, <2>1 DEF JobFits
    <2>3. \A i \in DOMAIN r : i + 1 \in DOMAIN q /\ r[i] = q[i + 1]
        BY <1>4
    <2> QED
        BY <2>1, <2>2, <2>3 DEF JobFits
<1>10. c.job # 0 => \A k \in DOMAIN r : r[k].job # c.job
    BY <1>4, <1>6 DEF CallsFit
<1>11. c.job \in Job =>
           JobFits(s.jobs[c.job], c.job, s.docs, q, s.created, vs, At)
    BY <1>3 DEF Fits, JobsFit
<1>12. c.job \in Job =>
           /\ s.jobs[c.job].step = "wait" /\ s.jobs[c.job].path = c.path
           /\ s.jobs[c.job].doc \in DOMAIN s.docs =>
                 Stake(s.docs, s.jobs[c.job].doc, At) \subseteq c.content.edits
    BY <1>4, <1>11 DEF JobFits
<1>13. c.type = "load" => c.content.edits = {}
    BY <1>4, <1>6 DEF CallsFit
<1> QED
    BY <1>4, <1>5, <1>8, <1>9, <1>10, <1>12, <1>13 DEF JobsFit
-------------------------------------------------------------------------------
(* The actions of the user *)

Fit(s) == Fits(s, typed, versions, owed, owed \ exposed)

Moving(s, j) == During(s, j, typed, versions, owed, owed \ exposed)

Listed(s, j, T) == Covered(s, j, T, owed \ exposed)

LEMMA EditorStep ==
    ASSUME EditorInv, EditorOnly, Fit(ed')
    PROVE  EditorInv'
    BY DEF EditorInv, EditorOnly, Fit

LEMMA EditorType ==
    ASSUME EditorInv
    PROVE  /\ Fit(ed) /\ ed \in Store(typed) /\ ed.docs \in Docs(typed)
           /\ DOMAIN ed.docs \subseteq 1 .. ed.created /\ ed.created \in 0 .. MaxDocs
           /\ ed.queue \in Seq(Call(typed)) /\ \A j \in Job : ed.jobs[j] \in JobUpTo(typed)
           /\ Core(ed, typed, versions, owed, owed \ exposed)
    BY DEF EditorInv, Fit, Fits, Core, Store

\* An operation that waits for no answer may be moved on.
LEMMA MovingOn ==
    ASSUME EditorInv, NEW j \in Job, ed.jobs[j].step # "wait"
    PROVE  Moving(ed, j)
<1>1. JobFits(ed.jobs[j], j, ed.docs, ed.queue, ed.created, versions, owed \ exposed)
    BY DEF EditorInv, Fits, JobsFit
<1>2. \A k \in DOMAIN ed.queue : ed.queue[k].job # j
    BY <1>1 DEF JobFits
<1>3. ed.jobs[j].doc \in 0 .. ed.created /\ ed.jobs[j].todo \subseteq 1 .. ed.created
      /\ (ed.jobs[j].kind = "open" => ed.jobs[j].doc = 0)
    BY <1>1 DEF JobFits
<1> QED
    BY <1>2, <1>3 DEF EditorInv, Fits, Moving, During, JobsFit

\* A new operation takes a free place.
LEMMA NewJob ==
    ASSUME EditorInv, NEW j \in Job, FreeJob(j), NEW job \in JobUpTo(typed),
           job.doc \in 0 .. ed.created, job.todo \subseteq 1 .. ed.created,
           job.kind = "open" => job.doc = 0,
           NEW t, t = PutJob(ed, j, job)
    PROVE  Moving(t, j) /\ t.docs = ed.docs /\ t.created = ed.created /\ t.jobs[j] = job
<1>1. Moving(ed, j)
    BY MovingOn DEF FreeJob
<1>2. Moving(t, j)
    BY <1>1, PutJobDuring DEF Moving
<1>3. ed \in Store(typed)
    BY EditorType
<1>4. t.docs = ed.docs /\ t.created = ed.created /\ t.jobs[j] = job
    BY <1>3, PutJobFields
<1> QED
    BY <1>2, <1>4

LEMMA CreateStep ==
    ASSUME EditorInv, createNewDocument
    PROVE  EditorInv'
<1>1. Core(ed, typed, versions, owed, owed \ exposed) /\ ed.created < MaxDocs
      /\ Cardinality(DOMAIN ed.docs) < MaxOpenTabs /\ ed.created \in Nat
    BY EditorType DEF createNewDocument
<1>2. PICK d : d = NewDocument(NoPath, Blank, TRUE)
    OBVIOUS
<1>3. d \in DocumentUpTo(typed) /\ d.content = d.saved /\ d.saved.edits \cap owed = {}
      /\ d.path = NoPath
    BY <1>2, BlankText DEF NewDocument, DocumentUpTo
<1>4. ed' = AddTab(ed, d)
    BY <1>2 DEF createNewDocument
<1>5. owed \ exposed \subseteq owed
    OBVIOUS
<1>6. /\ Core(ed', typed, versions, owed, owed \ exposed)
      /\ Quiet(ed.docs, ed'.docs, ed.created, owed \ exposed)
      /\ ed'.jobs = ed.jobs /\ ed'.queue = ed.queue /\ ed'.created = ed.created + 1
    BY <1>1, <1>3, <1>4, <1>5, AddTabCore
<1>7. JobsFit(ed, Job, versions, owed \ exposed)
    BY DEF EditorInv, Fits
<1>8. JobsFit(ed', Job, versions, owed \ exposed)
    BY <1>1, <1>6, <1>7, QuietJobs
<1> QED
    BY <1>6, <1>8, EditorStep DEF Fit, Fits, createNewDocument

LEMMA OpenStep ==
    ASSUME EditorInv, NEW j \in Job, NEW path \in Path, openDocument(j, path)
    PROVE  EditorInv'
<1>1. PICK job : job = Started("open", "wait")
    OBVIOUS
<1>2. job \in JobUpTo(typed) /\ job.doc = 0 /\ job.todo = {} /\ job.after = "none"
    BY <1>1, IdleJob
<1>3. PICK t : t = PutJob(ed, j, job)
    OBVIOUS
<1>4. ed.created \in 0 .. MaxDocs /\ DOMAIN ed.docs \subseteq 1 .. ed.created
      /\ ed \in Store(typed)
    BY EditorType
<1>5. job.doc \in 0 .. ed.created /\ job.todo \subseteq 1 .. ed.created
    BY <1>2, <1>4
<1>6. Moving(t, j) /\ t.docs = ed.docs /\ t.jobs[j] = job
    BY <1>2, <1>3, <1>5, NewJob DEF openDocument
<1>7. t.jobs[j].doc \notin DOMAIN t.docs /\ Listed(t, j, t.jobs[j].todo \cup {t.jobs[j].doc})
    BY <1>2, <1>4, <1>6 DEF Listed, Covered
<1>8. ed' = Send(t, j, "load", path, Blank)
    BY <1>1, <1>3, <1>4 DEF openDocument, PutJob, Store
<1>9. Fit(ed')
    BY <1>6, <1>7, <1>8, BlankText, SendFits DEF Fit, Moving, Listed
<1> QED
    BY <1>9, EditorStep DEF openDocument

LEMMA SaveStep ==
    ASSUME EditorInv, NEW j \in Job, NEW id \in DOMAIN ed.docs, NEW fmt \in BOOLEAN,
           Save(j, id, fmt)
    PROVE  EditorInv'
<1>1. PICK job : job = [Idle EXCEPT !.fmt = fmt]
    OBVIOUS
<1>2. job \in JobUpTo(typed) /\ job.doc = 0 /\ job.todo = {} /\ job.after = "none"
    BY <1>1, BlankText DEF Idle, JobUpTo
<1>3. PICK t : t = PutJob(ed, j, job)
    OBVIOUS
<1>4. ed.created \in 0 .. MaxDocs /\ DOMAIN ed.docs \subseteq 1 .. ed.created
      /\ ed \in Store(typed)
    BY EditorType
<1>5. job.doc \in 0 .. ed.created /\ job.todo \subseteq 1 .. ed.created
    BY <1>2, <1>4
<1>6. Moving(t, j) /\ t.docs = ed.docs /\ t.created = ed.created /\ t.jobs[j] = job
    BY <1>2, <1>3, <1>5, NewJob DEF Save
<1>7. id \in 1 .. t.created /\ Listed(t, j, t.jobs[j].todo \cup {id})
    BY <1>2, <1>4, <1>6 DEF Listed, Covered
<1>8. ed' = saveDocument(t, j, id)
    BY <1>1, <1>3, <1>4 DEF Save, PutJob, Store
<1>9. Fit(ed')
    BY <1>6, <1>7, <1>8, SaveFits DEF Fit, Moving, Listed
<1> QED
    BY <1>9, EditorStep DEF Save

LEMMA FormatStep ==
    ASSUME EditorInv, NEW j \in Job, NEW id \in DOMAIN ed.docs, formatDocument(j, id)
    PROVE  EditorInv'
<1>1. PICK job : job = [Started("format", "format") EXCEPT !.doc = id]
    OBVIOUS
<1>2. ed.created \in 0 .. MaxDocs /\ DOMAIN ed.docs \subseteq 1 .. ed.created
      /\ ed \in Store(typed)
    BY EditorType
<1>3. job \in JobUpTo(typed) /\ job.doc = id /\ job.todo = {} /\ job.after = "none"
      /\ job.kind # "open"
    <2>1. id \in Id
        BY EditorType, DocsDef
    <2>2. PICK plain : plain = Started("format", "format")
        OBVIOUS
    <2>3. plain \in JobUpTo(typed) /\ plain.todo = {} /\ plain.after = "none"
          /\ plain.kind # "open"
        BY <2>2, IdleJob
    <2> QED
        BY <1>1, <2>1, <2>2, <2>3 DEF JobUpTo
<1>4. PICK t : t = PutJob(ed, j, job)
    OBVIOUS
<1>5. job.doc \in 0 .. ed.created /\ job.todo \subseteq 1 .. ed.created
    BY <1>2, <1>3
<1>6. Moving(t, j) /\ t.docs = ed.docs /\ t.jobs[j] = job
    BY <1>3, <1>4, <1>5, NewJob DEF formatDocument
<1>7. t.jobs[j].doc \in DOMAIN t.docs /\ Listed(t, j, t.jobs[j].todo \cup {t.jobs[j].doc})
    BY <1>3, <1>6 DEF Listed, Covered
<1>8. ed' = Format(t, j)
    BY <1>1, <1>2, <1>4 DEF formatDocument, PutJob, Store
<1>9. Fit(ed')
    BY <1>6, <1>7, <1>8, FormatFits DEF Fit, Moving, Listed
<1> QED
    BY <1>9, EditorStep DEF formatDocument
LEMMA RequestCloseStep ==
    ASSUME EditorInv, NEW j \in Job, NEW after \in {"folder", "quit"}, NEW fmt \in BOOLEAN,
           RequestClose(j, after, fmt)
    PROVE  EditorInv'
<1>1. PICK dirty : dirty = dirtyDocuments(ed.docs)
    OBVIOUS
<1>2. PICK job : job = [Started("close", "confirm") EXCEPT
                            !.todo = dirty, !.after = after, !.fmt = fmt]
    OBVIOUS
<1>3. ed.created \in 0 .. MaxDocs /\ DOMAIN ed.docs \subseteq 1 .. ed.created
      /\ ed \in Store(typed) /\ ed.docs \in Docs(typed)
      /\ Core(ed, typed, versions, owed, owed \ exposed)
    BY EditorType
<1>4. dirty \subseteq DOMAIN ed.docs /\ dirty \subseteq Id
    BY <1>1, <1>3, DocsDef DEF dirtyDocuments
<1>5. job \in JobUpTo(typed) /\ job.doc = 0 /\ job.todo = dirty /\ job.after = after
      /\ job.step = "confirm"
    <2>1. PICK plain : plain = Started("close", "confirm")
        OBVIOUS
    <2>2. plain \in JobUpTo(typed) /\ plain.doc = 0 /\ plain.step = "confirm"
        BY <2>1, IdleJob
    <2> QED
        BY <1>2, <1>4, <2>1, <2>2 DEF JobUpTo
<1>6. PICK t : t = PutJob(ed, j, job)
    OBVIOUS
<1>7. job.doc \in 0 .. ed.created /\ job.todo \subseteq 1 .. ed.created
    BY <1>3, <1>4, <1>5
<1>8. Moving(t, j) /\ t.docs = ed.docs /\ t.jobs[j] = job
    BY <1>5, <1>6, <1>7, NewJob DEF RequestClose
<1>9. \A id \in DOMAIN ed.docs : id \in dirty \/ Stake(ed.docs, id, owed \ exposed) = {}
    <2>1. owed \ exposed \subseteq owed
        OBVIOUS
    <2> QED
        BY <1>1, <1>3, <2>1, CleanIsSafe DEF dirtyDocuments
<1>10. t = [ed EXCEPT !.jobs[j] = [Started("close", "confirm") EXCEPT
                                      !.todo = dirty, !.after = after, !.fmt = fmt]]
    BY <1>2, <1>3, <1>6 DEF PutJob, Store
<1>11. ed' = IF dirty = {} THEN Handled(t, j) ELSE t
    BY <1>1, <1>10 DEF RequestClose
<1>12. CASE dirty = {}
    <2>1. Listed(t, j, {}) /\ t.jobs[j].todo = {}
        BY <1>5, <1>8, <1>9, <1>12 DEF Listed, Covered
    <2>2. Fit(ed')
        BY <1>8, <1>11, <1>12, <2>1, HandledFits DEF Fit, Moving, Listed
    <2> QED
        BY <2>2, EditorStep DEF RequestClose
<1>13. CASE dirty # {}
    <2>1. Moving(ed, j)
        BY MovingOn DEF RequestClose, FreeJob
    <2>2. \A k \in DOMAIN ed.queue : ed.queue[k].job # j
        BY <2>1 DEF Moving, During
    <2>3. JobFits(job, j, ed.docs, ed.queue, ed.created, versions, owed \ exposed)
        BY <1>5, <1>7, <1>9, <2>2 DEF JobFits
    <2>4. Fit(t)
        BY <1>5, <1>6, <2>1, <2>3, PutJobFits DEF Fit, Moving
    <2>5. Fit(ed')
        BY <1>11, <1>13, <2>4
    <2> QED
        BY <2>5, EditorStep DEF RequestClose
<1> QED
    BY <1>12, <1>13

LEMMA DismissStep ==
    ASSUME EditorInv, NEW j \in Job, Dismiss(j)
    PROVE  EditorInv'
<1>1. Moving(ed, j)
    BY MovingOn DEF Dismiss
<1>2. Fit(ed')
    BY <1>1, AbandonFits DEF Fit, Moving, Dismiss
<1> QED
    BY <1>2, EditorStep DEF Dismiss

\* A closing that is asked about has all that is at stake on its list.
LEMMA AskedList ==
    ASSUME EditorInv, NEW j \in Job, ed.jobs[j].step \in {"confirm", "flush"}
    PROVE  Moving(ed, j) /\ Listed(ed, j, ed.jobs[j].todo)
<1>1. Moving(ed, j)
    BY MovingOn
<1>2. JobFits(ed.jobs[j], j, ed.docs, ed.queue, ed.created, versions, owed \ exposed)
    BY DEF EditorInv, Fits, JobsFit
<1>3. Listed(ed, j, ed.jobs[j].todo)
    BY <1>2 DEF Listed, Covered, JobFits, InHand
<1> QED
    BY <1>1, <1>3

LEMMA ConfirmSaveStep ==
    ASSUME EditorInv, NEW j \in Job, ConfirmSave(j)
    PROVE  EditorInv'
<1>1. Moving(ed, j) /\ Listed(ed, j, ed.jobs[j].todo)
    BY AskedList DEF ConfirmSave
<1>2. owed \ exposed \subseteq owed
    OBVIOUS
<1>3. Fit(persistDirtyDocuments(ed, j))
    BY <1>1, <1>2, PersistFits DEF Fit, Moving, Listed
<1> QED
    BY <1>3, EditorStep DEF ConfirmSave

LEMMA ConfirmDiscardStep ==
    ASSUME EditorInv, NEW j \in Job, ConfirmDiscard(j)
    PROVE  EditorInv'
<1>1. owed' \subseteq owed
      /\ \A id \in ed.jobs[j].todo \cap DOMAIN ed.docs : ed.docs[id].content.edits \cap owed' = {}
    BY DEF ConfirmDiscard
<1>2. /\ ed' = Handled([ed EXCEPT !.jobs[j].todo = {}], j)
      /\ UNCHANGED <<disk, typed, written, exposed, versions>>
      /\ ed.jobs[j].step = "confirm"
    BY DEF ConfirmDiscard
<1>3. PICK Rest : Rest = owed' \ exposed
    OBVIOUS
<1>4. Rest \subseteq owed \ exposed
    BY <1>1, <1>3
<1>5. Fits(ed, typed, versions, owed', Rest)
    BY <1>1, <1>4, FewerFits DEF EditorInv
<1>6. Listed(ed, j, ed.jobs[j].todo) /\ Moving(ed, j)
    BY <1>2, AskedList
<1>7. During(ed, j, typed, versions, owed', Rest)
    BY <1>5, <1>6 DEF Fits, During, Moving, JobsFit
<1>8. \A id : Stake(ed.docs, id, Rest) = Stake(ed.docs, id, owed \ exposed) \cap Rest
    BY <1>4 DEF Stake
<1>9. \A id \in ed.jobs[j].todo \cap DOMAIN ed.docs : Stake(ed.docs, id, Rest) = {}
    BY <1>1, <1>3 DEF Stake
<1>10. Covered(ed, j, {}, Rest)
    BY <1>6, <1>8, <1>9 DEF Listed, Covered
<1>11. PICK t : t = WithTodo(ed, j, {})
    OBVIOUS
<1>12. During(t, j, typed, versions, owed', Rest) /\ t.docs = ed.docs
       /\ t.jobs[j].todo = {} /\ t.jobs[j].after = ed.jobs[j].after
    BY <1>7, <1>11, PutTodo
<1>13. Covered(t, j, {}, Rest)
    BY <1>10, <1>12 DEF Covered
<1>14. Fits(Handled(t, j), typed, versions, owed', Rest)
    BY <1>12, <1>13, HandledFits
<1>15. Fits(ed', typed, versions, owed', Rest)
    BY <1>2, <1>11, <1>14 DEF WithTodo
<1>16. World(typed, written, disk, versions, owed', exposed)
    BY <1>1 DEF EditorInv, World
<1> QED
    BY <1>2, <1>3, <1>15, <1>16 DEF EditorInv

LEMMA PickStep ==
    ASSUME EditorInv, NEW j \in Job, NEW path \in Path, Pick(j, path)
    PROVE  EditorInv'
<1>1. Moving(ed, j) /\ ed.jobs[j].step = "pick"
    BY MovingOn DEF Pick
<1>2. JobFits(ed.jobs[j], j, ed.docs, ed.queue, ed.created, versions, owed \ exposed)
    BY DEF EditorInv, Fits, JobsFit
<1>3. Listed(ed, j, ed.jobs[j].todo \cup {ed.jobs[j].doc})
    BY <1>2 DEF Listed, Covered, JobFits
<1>4. PICK text : text = IF ed.jobs[j].doc \in DOMAIN ed.docs
                         THEN ed.docs[ed.jobs[j].doc].content ELSE ed.jobs[j].content
    OBVIOUS
<1>5. text \in Texts(typed)
    BY <1>4, EditorType, DocsDef DEF DocumentUpTo, JobUpTo
<1>6. ed.jobs[j].doc \in DOMAIN ed.docs =>
          Stake(ed.docs, ed.jobs[j].doc, owed \ exposed) \subseteq text.edits
    BY <1>4 DEF Stake
<1>7. ed' = Send(ed, j, "write", path, text) /\ EditorOnly
    BY <1>4 DEF Pick
<1>8. Fit(Send(ed, j, "write", path, text))
    <2>1. "write" \in {"load", "write"} /\ "write" # "load"
        OBVIOUS
    <2> QED
        BY <1>1, <1>3, <1>5, <1>6, <2>1, SendFits DEF Fit, Moving, Listed
<1> QED
    BY <1>7, <1>8, EditorStep
-------------------------------------------------------------------------------
(* Typing *)

LEMMA StoreGrows ==
    ASSUME NEW n \in Nat, NEW m \in Nat, m <= n, NEW s \in Store(m)
    PROVE  s \in Store(n)
<1>1. Texts(m) \subseteq Texts(n)
    BY TextsGrow
<1>2. DocumentUpTo(m) \subseteq DocumentUpTo(n)
    BY <1>1 DEF DocumentUpTo
<1>3. Docs(m) \subseteq Docs(n)
    BY <1>2, DocsDef
<1>4. JobUpTo(m) \subseteq JobUpTo(n)
    BY <1>1 DEF JobUpTo
<1>5. Call(m) \subseteq Call(n)
    BY <1>1 DEF Call
<1>6. s.queue \in Seq(Call(n))
    <2>1. s.queue \in Seq(Call(m))
        BY DEF Store
    <2> QED
        BY <1>5, <2>1
<1>7. s.jobs \in [Job -> JobUpTo(n)]
    BY <1>4 DEF Store
<1> QED
    BY <1>3, <1>6, <1>7 DEF Store

LEMMA WorldGrows ==
    ASSUME NEW n, NEW w, NEW d, NEW vs, NEW ow, NEW ex, World(n, w, d, vs, ow, ex),
           n < MaxEdits, NEW more, more = n + 1, NEW ex2, ex2 \in {ex, ex \cup {more}}
    PROVE  World(more, w, d, vs, ow \cup {more}, ex2)
<1>1. n \in Nat /\ more \in Nat /\ n <= more /\ more \in 0 .. MaxEdits
    BY EditorAssumption DEF World
<1>2. Texts(n) \subseteq Texts(more)
    BY <1>1, TextsGrow
<1>3. ow \cup {more} \subseteq 1 .. more /\ ex2 \subseteq 1 .. more
    BY <1>1 DEF World
<1>4. d \in [Path -> Texts(more)] /\ vs \in [Path -> SUBSET Texts(more)]
    BY <1>2 DEF World
<1>5. \A t \in Texts(n) : more \notin t.edits
    BY <1>1, EditorAssumption DEF Texts
<1>6. \A p \in Path : \A v \in vs[p] : v.edits \cap (ow \cup {more}) = {}
    BY <1>5 DEF World
<1> QED
    BY <1>1, <1>3, <1>4, <1>6 DEF World

\* The change just typed is at stake unless something is under way on its document.
LEMMA TypeStep ==
    ASSUME EditorInv, NEW id \in DOMAIN ed.docs, Type(id)
    PROVE  EditorInv'
<1>1. PICK e : e = typed + 1
    OBVIOUS
<1>2. /\ typed' = e /\ owed' = owed \cup {e} /\ typed < MaxEdits
      /\ exposed' = IF UnderWay(id) THEN exposed \cup {e} ELSE exposed
      /\ UNCHANGED <<disk, written, versions>>
    BY <1>1 DEF Type
<1>3. World(typed, written, disk, versions, owed, exposed)
    BY DEF EditorInv
<1>4. World(typed', written', disk', versions', owed', exposed')
    BY <1>1, <1>2, <1>3, WorldGrows
<1>5. typed \in Nat /\ e \in Nat /\ typed <= e /\ e \in Edit /\ e <= MaxEdits
    BY <1>1, <1>2, <1>3, EditorAssumption DEF World, Edit
<1>6. e \notin owed /\ e \notin exposed
    BY <1>1, <1>3, <1>5 DEF World
<1>7. \A t \in Texts(typed) : e \notin t.edits
    BY <1>1, <1>5, EditorAssumption DEF Texts
<1>8. PICK At : At = owed \ exposed
    OBVIOUS
<1>9. PICK new : new = owed' \ exposed'
    OBVIOUS
<1>10. Fits(ed, typed, versions, owed, At) /\ ed \in Store(typed) /\ ed.docs \in Docs(typed)
       /\ DOMAIN ed.docs \subseteq 1 .. ed.created /\ ed.created \in 0 .. MaxDocs
    BY <1>8, EditorType DEF Fit
<1>11. ed \in Store(e)
    BY <1>5, <1>10, StoreGrows
<1>12. PICK text : text = [edits |-> ed.docs[id].content.edits \cup {e}, tidy |-> FALSE]
    OBVIOUS
<1>13. ed.docs[id] \in DocumentUpTo(typed)
    BY <1>10, DocsDef
<1>14. text \in Texts(e) /\ text.edits = ed.docs[id].content.edits \cup {e}
    <2>1. ed.docs[id].content \in Texts(typed) /\ Texts(typed) \subseteq Texts(e)
        BY <1>5, <1>13, TextsGrow DEF DocumentUpTo
    <2> QED
        BY <1>5, <1>12, <2>1 DEF Texts, Text
<1>15. PICK es : es = [ed.docs EXCEPT ![id].content = text]
    OBVIOUS
<1>16. ed' = [ed EXCEPT !.docs = es]
    BY <1>1, <1>10, <1>12, <1>15 DEF Type, updateDocumentContent, Store
<1>17. /\ es \in Docs(e) /\ DOMAIN es = DOMAIN ed.docs
       /\ \A i \in DOMAIN ed.docs :
             /\ es[i].path = ed.docs[i].path /\ es[i].saved = ed.docs[i].saved
             /\ es[i].checked = ed.docs[i].checked /\ es[i].savedAs = ed.docs[i].savedAs
             /\ es[i].content = IF i = id THEN text ELSE ed.docs[i].content
    <2>1. ed.docs \in Docs(e)
        BY <1>11 DEF Store
    <2> QED
        BY <1>14, <1>15, <2>1, PutText
<1>18. /\ ed' \in Store(e) /\ ed'.docs = es /\ ed'.jobs = ed.jobs /\ ed'.queue = ed.queue
       /\ ed'.created = ed.created
    BY <1>11, <1>16, <1>17 DEF Store
<1>19. \A i \in DOMAIN ed.docs : ed.docs[i] \in DocumentUpTo(typed)
    BY <1>10, DocsDef
<1>20. \A i \in DOMAIN ed.docs :
           e \notin ed.docs[i].content.edits /\ e \notin ed.docs[i].saved.edits
    BY <1>7, <1>19 DEF DocumentUpTo
<1>21. Core(ed', e, versions, owed', new)
    <2>1. TabsFit(es) /\ PathsFit(es)
        BY <1>10, <1>17, SameTabs, SamePaths DEF Fits, Core
    <2>2. SavedFits(es, versions, owed')
        BY <1>2, <1>10, <1>17, <1>20 DEF Fits, Core, SavedFits
    <2>3. new \subseteq At \cup {e}
        BY <1>2, <1>8, <1>9
    <2>4. Held(es, new)
        BY <1>10, <1>14, <1>17, <2>3 DEF Fits, Core, Held
    <2> QED
        BY <1>10, <1>17, <1>18, <2>1, <2>2, <2>4 DEF Fits, Core
<1>22. CASE UnderWay(id)
    <2>1. new = At
        BY <1>2, <1>6, <1>8, <1>9, <1>22
    <2>2. e \notin At
        BY <1>6, <1>8
    <2>3. Quiet(ed.docs, es, ed.created, At)
        BY <1>14, <1>17, <2>2 DEF Quiet, Stake
    <2>4. JobsFit(ed, Job, versions, At)
        BY <1>10 DEF Fits
    <2>5. JobsFit(ed', Job, versions, At)
        BY <1>10, <1>18, <2>3, <2>4, QuietJobs
    <2> QED
        BY <1>2, <1>4, <1>9, <1>21, <2>1, <2>5 DEF EditorInv, Fits
<1>23. CASE ~ UnderWay(id)
    <2>1. new = At \cup {e}
        BY <1>2, <1>6, <1>8, <1>9, <1>23
    <2>2. \A i \in DOMAIN ed.docs : i # id => Stake(es, i, new) = Stake(ed.docs, i, At)
        BY <1>17, <1>20, <2>1 DEF Stake
    <2>3. ASSUME NEW k \in Job
          PROVE  JobFits(ed.jobs[k], k, es, ed.queue, ed.created, versions, new)
        <3>1. JobFits(ed.jobs[k], k, ed.docs, ed.queue, ed.created, versions, At)
            BY <1>10 DEF Fits, JobsFit
        <3>2. ed.jobs[k].doc # id /\ ed.jobs[k].after = "none"
            BY <1>23 DEF UnderWay
        <3>3. ed.jobs[k].content \in Texts(typed)
            BY <1>10 DEF Store, JobUpTo
        <3>4. ed.jobs[k].content.edits \cap new = ed.jobs[k].content.edits \cap At
            BY <1>7, <2>1, <3>3
        <3>5. ed.jobs[k].doc \in DOMAIN es =>
                  /\ ed.jobs[k].doc \in DOMAIN ed.docs
                  /\ Stake(es, ed.jobs[k].doc, new) = Stake(ed.docs, ed.jobs[k].doc, At)
            BY <1>17, <2>2, <3>2
        <3> QED
            BY <3>1, <3>2, <3>4, <3>5 DEF JobFits
    <2>4. JobsFit(ed', Job, versions, new)
        BY <1>18, <2>3 DEF JobsFit
    <2> QED
        BY <1>2, <1>4, <1>9, <1>21, <2>4 DEF EditorInv, Fits
<1> QED
    BY <1>22, <1>23
-------------------------------------------------------------------------------
(* shfmt, the agent and the refresh *)

LEMMA FormattedStep ==
    ASSUME EditorInv, NEW j \in Job, Formatted(j)
    PROVE  EditorInv'
<1>1. Moving(ed, j) /\ ed.jobs[j].step = "format"
    BY MovingOn DEF Formatted
<1>2. JobFits(ed.jobs[j], j, ed.docs, ed.queue, ed.created, versions, owed \ exposed)
    BY DEF EditorInv, Fits, JobsFit
<1>3. Listed(ed, j, ed.jobs[j].todo \cup {ed.jobs[j].doc})
    BY <1>2 DEF Listed, Covered, JobFits
<1>4. PICK id : id = ed.jobs[j].doc
    OBVIOUS
<1>5. PICK text : text = Tidied(ed.jobs[j].content)
    OBVIOUS
<1>6. ed \in Store(typed) /\ ed.jobs[j] \in JobUpTo(typed)
    BY EditorType
<1>7. CASE id \notin DOMAIN ed.docs
    <2>1. [ed EXCEPT !.docs = updateDocumentContent(@, id, text)] = ed
        BY <1>6, <1>7 DEF updateDocumentContent, Store
    <2>2. ed' = Abandon(ed, j)
        BY <1>4, <1>5, <1>7, <2>1 DEF Formatted
    <2>3. Fit(ed')
        BY <1>1, <2>2, AbandonFits DEF Fit, Moving
    <2> QED
        BY <2>3, EditorStep DEF Formatted
<1>8. CASE id \in DOMAIN ed.docs
    <2>1. text \in Texts(typed) /\ text.edits = ed.jobs[j].content.edits
        BY <1>5, <1>6, TidiedText DEF JobUpTo
    <2>2. text.edits \cap (owed \ exposed) = Stake(ed.docs, id, owed \ exposed)
        BY <1>1, <1>2, <1>4, <1>8, <2>1 DEF JobFits
    <2>3. PICK t : t = WithText(ed, id, text)
        OBVIOUS
    <2>4. /\ Moving(t, j) /\ Quiet(ed.docs, t.docs, ed.created, owed \ exposed)
          /\ t.jobs = ed.jobs /\ DOMAIN t.docs = DOMAIN ed.docs
        <3>1. PICK At : At = owed \ exposed
            OBVIOUS
        <3>2. During(ed, j, typed, versions, owed, At)
            BY <1>1, <3>1 DEF Moving
        <3>3. text.edits \cap At = Stake(ed.docs, id, At)
            BY <2>2, <3>1
        <3>4. /\ During(t, j, typed, versions, owed, At)
              /\ Quiet(ed.docs, t.docs, ed.created, At)
              /\ t.jobs = ed.jobs /\ DOMAIN t.docs = DOMAIN ed.docs
            BY <1>8, <2>1, <2>3, <3>2, <3>3, TextDuring
        <3> QED
            BY <3>1, <3>4 DEF Moving
    <2>5. Listed(t, j, t.jobs[j].todo \cup {t.jobs[j].doc})
        BY <1>3, <2>4, QuietCovered DEF Listed
    <2>6. t.jobs[j].doc \in DOMAIN t.docs
        BY <1>4, <1>8, <2>4
    <2>7. [ed EXCEPT !.docs = updateDocumentContent(@, id, text)] = t
        BY <1>8, <2>3 DEF updateDocumentContent, WithText
    <2>8. ed' = IF ed.jobs[j].kind = "format" THEN Abandon(t, j) ELSE Prepared(t, j)
        BY <1>4, <1>5, <1>8, <2>7 DEF Formatted
    <2>9. Fit(Abandon(t, j))
        BY <2>4, AbandonFits DEF Fit, Moving
    <2>10. Fit(Prepared(t, j))
        BY <2>4, <2>5, <2>6, PreparedFits DEF Fit, Moving, Listed
    <2>11. Fit(ed')
        BY <2>8, <2>9, <2>10
    <2> QED
        BY <2>11, EditorStep DEF Formatted
<1> QED
    BY <1>7, <1>8

LEMMA FormatFailsStep ==
    ASSUME EditorInv, NEW j \in Job, FormatFails(j)
    PROVE  EditorInv'
<1>1. Moving(ed, j)
    BY MovingOn DEF FormatFails
<1>2. Fit(ed')
    BY <1>1, AbandonFits DEF Fit, Moving, FormatFails
<1> QED
    BY <1>2, EditorStep DEF FormatFails

LEMMA AgentWritesStep ==
    ASSUME EditorInv, NEW path \in Path, AgentWrites(path)
    PROVE  EditorInv'
<1>1. World(typed, written, disk, versions, owed, exposed)
    BY DEF EditorInv
<1>2. PICK e : e = MaxEdits + written'
    OBVIOUS
<1>3. /\ written < MaxWrites /\ written' = written + 1
      /\ UNCHANGED <<ed, typed, owed, exposed>>
    BY DEF AgentWrites
<1>4. written' \in 0 .. MaxWrites /\ e \in Edit /\ e > MaxEdits /\ e \notin owed
    BY <1>1, <1>2, <1>3, EditorAssumption DEF World, Edit
<1>5. PICK text : text = [edits |-> disk[path].edits \cup {e}, tidy |-> FALSE]
    OBVIOUS
<1>6. disk[path] \in Texts(typed) /\ disk[path] \in versions[path]
    BY <1>1 DEF World
<1>7. text \in Texts(typed) /\ text.edits \cap owed = {}
    <2>1. disk[path].edits \cap owed = {}
        BY <1>1, <1>6 DEF World
    <2> QED
        BY <1>4, <1>5, <1>6, <2>1 DEF Texts, Text
<1>8. disk' = [disk EXCEPT ![path] = text]
    BY <1>2, <1>5 DEF AgentWrites
<1>9. versions' = [versions EXCEPT ![path] = @ \cup {text}]
    <2>1. disk'[path] = text
        BY <1>1, <1>8 DEF World
    <2> QED
        BY <2>1 DEF AgentWrites
<1>10. World(typed', written', disk', versions', owed', exposed')
    BY <1>1, <1>3, <1>4, <1>7, <1>8, <1>9 DEF World
<1>11. \A p \in Path : versions[p] \subseteq versions'[p]
    BY <1>1, <1>9 DEF World
<1>12. Fits(ed, typed, versions', owed, owed \ exposed)
    BY <1>11, VersionsFit DEF EditorInv
<1> QED
    BY <1>3, <1>10, <1>12 DEF EditorInv

LEMMA RefreshStep ==
    ASSUME EditorInv, NEW j \in Job, NEW path \in Path, refreshSidecarChangedDocuments(j, path)
    PROVE  EditorInv'
<1>1. PICK id \in WithPath(ed.docs, path) :
          /\ ~ Dirty(ed.docs[id])
          /\ ed' = Send([ed EXCEPT !.jobs[j] = [Started("refresh", "wait") EXCEPT !.doc = id]],
                        j, "load", path, Blank)
    BY DEF refreshSidecarChangedDocuments
<1>2. id \in DOMAIN ed.docs
    BY <1>1 DEF WithPath
<1>3. PICK job : job = [Started("refresh", "wait") EXCEPT !.doc = id]
    OBVIOUS
<1>4. ed.created \in 0 .. MaxDocs /\ DOMAIN ed.docs \subseteq 1 .. ed.created
      /\ ed \in Store(typed) /\ Core(ed, typed, versions, owed, owed \ exposed)
    BY EditorType
<1>5. job \in JobUpTo(typed) /\ job.doc = id /\ job.todo = {} /\ job.after = "none"
      /\ job.kind # "open"
    <2>1. id \in Id
        BY <1>2, EditorType, DocsDef
    <2>2. PICK plain : plain = Started("refresh", "wait")
        OBVIOUS
    <2>3. plain \in JobUpTo(typed) /\ plain.todo = {} /\ plain.after = "none"
          /\ plain.kind # "open"
        BY <2>2, IdleJob
    <2> QED
        BY <1>3, <2>1, <2>2, <2>3 DEF JobUpTo
<1>6. PICK t : t = PutJob(ed, j, job)
    OBVIOUS
<1>7. job.doc \in 0 .. ed.created /\ job.todo \subseteq 1 .. ed.created
    BY <1>2, <1>4, <1>5
<1>8. Moving(t, j) /\ t.docs = ed.docs /\ t.jobs[j] = job
    BY <1>5, <1>6, <1>7, NewJob DEF refreshSidecarChangedDocuments
<1>9. Listed(t, j, t.jobs[j].todo \cup {t.jobs[j].doc})
    BY <1>5, <1>8 DEF Listed, Covered
<1>10. Stake(t.docs, t.jobs[j].doc, owed \ exposed) = {}
    <2>1. owed \ exposed \subseteq owed
        OBVIOUS
    <2>2. Stake(ed.docs, id, owed \ exposed) = {}
        BY <1>1, <1>2, <1>4, <2>1, CleanIsSafe
    <2> QED
        BY <1>5, <1>8, <2>2
<1>11. ed' = Send(t, j, "load", path, Blank)
    BY <1>1, <1>3, <1>4, <1>6 DEF PutJob, Store
<1>12. Fit(ed')
    BY <1>8, <1>9, <1>10, <1>11, BlankText, SendFits DEF Fit, Moving, Listed
<1> QED
    BY <1>12, EditorStep DEF refreshSidecarChangedDocuments

-------------------------------------------------------------------------------
(* The calls *)

\* The first call is performed; if anybody waits for it, the answer is there.
LEMMA PerformedFits ==
    ASSUME NEW n, NEW vs, NEW ow, NEW At, Fits(ed, n, vs, ow, At), ed.queue # <<>>,
           NEW c, c = Head(ed.queue), NEW text \in Texts(n), text \in vs[c.path],
           c.job \in Job /\ ed.jobs[c.job].doc \in DOMAIN ed.docs =>
               Stake(ed.docs, ed.jobs[c.job].doc, At) = {},
           Performed(text)
    PROVE  Fits(ed', n, vs, ow, At)
<1>1. PICK t : t = WithTail(ed)
    OBVIOUS
<1>2. /\ Core(t, n, vs, ow, At) /\ t.docs = ed.docs /\ t.jobs = ed.jobs
      /\ t.created = ed.created /\ c \in Call(n)
      /\ JobsFit(t, Job \ {c.job}, vs, At)
      /\ c.job # 0 => \A k \in DOMAIN t.queue : t.queue[k].job # c.job
      /\ c.job \in Job => ed.jobs[c.job].path = c.path
    <2>1. PICK s : s = ed
        OBVIOUS
    <2>2. Fits(s, n, vs, ow, At) /\ s.queue # <<>> /\ c = Head(s.queue) /\ t = WithTail(s)
        BY <1>1, <2>1
    <2>3. Core(t, n, vs, ow, At) /\ JobsFit(t, Job \ {c.job}, vs, At)
        BY <2>2, TailFits
    <2>4. t.docs = s.docs /\ t.jobs = s.jobs /\ t.created = s.created /\ c \in Call(n)
        BY <2>2, <2>3, TailFits
    <2>5. c.job # 0 => \A k \in DOMAIN t.queue : t.queue[k].job # c.job
        BY <2>2, <2>3, TailFits
    <2>6. c.job \in Job => s.jobs[c.job].path = c.path
        BY <2>2, <2>3, TailFits
    <2> QED
        BY <2>1, <2>3, <2>4, <2>5, <2>6
<1>3. ed \in Store(n) /\ t \in Store(n)
    BY <1>2 DEF Fits, Core
<1>4. CASE c.job = 0
    <2>1. ed' = t
        BY <1>1, <1>3, <1>4 DEF Performed, WithTail, Store
    <2>2. 0 \notin Job
        BY DEF Job
    <2>3. JobsFit(t, Job, vs, At)
        BY <1>2, <1>4, <2>2 DEF JobsFit
    <2> QED
        BY <1>2, <2>1, <2>3 DEF Fits
<1>5. CASE c.job # 0
    <2>1. PICK j : j = c.job
        OBVIOUS
    <2>2. j \in Job /\ c.path \in Path
        BY <1>2, <1>5, <2>1 DEF Call
    <2>3. PICK job : job = [ed.jobs[j] EXCEPT !.step = "answered", !.content = text]
        OBVIOUS
    <2>4. ed.jobs[j] \in JobUpTo(n)
        BY <1>3, <2>2 DEF Store
    <2>5. job \in JobUpTo(n) /\ job.doc = ed.jobs[j].doc /\ job.todo = ed.jobs[j].todo
          /\ job.after = ed.jobs[j].after /\ job.step = "answered"
          /\ job.path = ed.jobs[j].path /\ job.content = text /\ job.kind = ed.jobs[j].kind
        BY <2>3, <2>4 DEF JobUpTo
    <2>6. JobFits(ed.jobs[j], j, ed.docs, ed.queue, ed.created, vs, At)
        BY <2>2 DEF Fits, JobsFit
    <2>7. During(t, j, n, vs, ow, At)
        <3>1. ed.jobs[j].doc \in 0 .. ed.created /\ ed.jobs[j].todo \subseteq 1 .. ed.created
              /\ (ed.jobs[j].kind = "open" => ed.jobs[j].doc = 0)
            BY <2>6 DEF JobFits
        <3> QED
            BY <1>2, <1>5, <2>1, <3>1 DEF During
    <2>8. JobFits(job, j, t.docs, t.queue, t.created, vs, At)
        <3>1. /\ t.docs = ed.docs /\ t.created = ed.created
              /\ \A k \in DOMAIN t.queue : t.queue[k].job # j
            BY <1>2, <1>5, <2>1
        <3>2. job.path \in Path /\ job.content \in vs[job.path]
              /\ (job.doc \in DOMAIN ed.docs => Stake(ed.docs, job.doc, At) = {})
            BY <1>2, <1>5, <2>1, <2>2, <2>5
        <3> QED
            BY <2>5, <2>6, <3>1, <3>2 DEF JobFits, InHand
    <2>9. ed' = PutJob(t, j, job)
        <3>1. PICK jobs : jobs = [ed.jobs EXCEPT ![j] = job]
            OBVIOUS
        <3>2. jobs = [ed.jobs EXCEPT ![j].step = "answered", ![j].content = text]
            BY <1>3, <2>2, <2>3, <3>1 DEF Store, JobUpTo
        <3>3. ed' = [ed EXCEPT !.queue = Tail(@), !.jobs = jobs]
            BY <1>5, <2>1, <3>2 DEF Performed
        <3>4. PutJob(t, j, job) = [t EXCEPT !.jobs = jobs]
            BY <1>2, <3>1 DEF PutJob
        <3> QED
            BY <1>1, <1>3, <3>3, <3>4 DEF WithTail, Store
    <2> QED
        BY <2>2, <2>5, <2>7, <2>8, <2>9, PutJobFits
<1> QED
    BY <1>4, <1>5

LEMMA LoadStep ==
    ASSUME EditorInv, load_script
    PROVE  EditorInv'
<1>1. PICK c : c = Head(ed.queue)
    OBVIOUS
<1>2. ed.queue # <<>> /\ c.type = "load" /\ Performed(disk[c.path]) /\ EditorOnly
    BY <1>1 DEF load_script
<1>3. PICK t : t = WithTail(ed)
    OBVIOUS
<1>4. /\ c \in Call(typed) /\ (c.type = "load" => c.content.edits = {})
      /\ c.job \in Job /\ ed.jobs[c.job].doc \in DOMAIN ed.docs =>
            Stake(ed.docs, ed.jobs[c.job].doc, owed \ exposed) \subseteq c.content.edits
    BY <1>1, <1>2, <1>3, TailFits DEF EditorInv
<1>5. disk[c.path] \in Texts(typed) /\ disk[c.path] \in versions[c.path]
    BY <1>4 DEF EditorInv, World, Call
<1>6. c.job \in Job /\ ed.jobs[c.job].doc \in DOMAIN ed.docs =>
          Stake(ed.docs, ed.jobs[c.job].doc, owed \ exposed) = {}
    BY <1>2, <1>4
<1>7. Fit(ed')
    BY <1>1, <1>2, <1>5, <1>6, PerformedFits DEF EditorInv, Fit
<1> QED
    BY <1>2, <1>7, EditorStep

LEMMA WriteStep ==
    ASSUME EditorInv, save_script
    PROVE  EditorInv'
<1>1. PICK c : c = Head(ed.queue)
    OBVIOUS
<1>2. /\ ed.queue # <<>> /\ Performed(c.content)
      /\ disk' = [disk EXCEPT ![c.path] = c.content]
      /\ versions' = [versions EXCEPT ![c.path] = @ \cup {c.content}]
      /\ owed' = owed \ c.content.edits
      /\ UNCHANGED <<typed, written, exposed>>
    BY <1>1 DEF save_script
<1>3. PICK t : t = WithTail(ed)
    OBVIOUS
<1>4. /\ c \in Call(typed)
      /\ c.job \in Job /\ ed.jobs[c.job].doc \in DOMAIN ed.docs =>
            Stake(ed.docs, ed.jobs[c.job].doc, owed \ exposed) \subseteq c.content.edits
    BY <1>1, <1>2, <1>3, TailFits DEF EditorInv
<1>5. c.path \in Path /\ c.content \in Texts(typed)
    BY <1>4 DEF Call
<1>6. World(typed, written, disk, versions, owed, exposed)
    BY DEF EditorInv
<1>7. World(typed', written', disk', versions', owed', exposed')
    BY <1>2, <1>5, <1>6 DEF World
<1>8. c.content \in versions'[c.path] /\ \A p \in Path : versions[p] \subseteq versions'[p]
    BY <1>2, <1>5, <1>6 DEF World
<1>9. Fits(ed, typed, versions', owed, owed \ exposed)
    BY <1>8, VersionsFit DEF EditorInv
<1>10. owed' \subseteq owed /\ owed' \ exposed \subseteq owed \ exposed
    BY <1>2
<1>11. Fits(ed, typed, versions', owed', owed' \ exposed)
    BY <1>9, <1>10, FewerFits
<1>12. c.job \in Job /\ ed.jobs[c.job].doc \in DOMAIN ed.docs =>
           Stake(ed.docs, ed.jobs[c.job].doc, owed' \ exposed) = {}
    BY <1>2, <1>4 DEF Stake
<1>13. Fits(ed', typed, versions', owed', owed' \ exposed)
    BY <1>1, <1>2, <1>5, <1>8, <1>11, <1>12, PerformedFits
<1> QED
    BY <1>2, <1>7, <1>13 DEF EditorInv
LEMMA CallFailsStep ==
    ASSUME EditorInv, CallFails
    PROVE  EditorInv'
<1>1. PICK c : c = Head(ed.queue)
    OBVIOUS
<1>2. PICK j : j = c.job
    OBVIOUS
<1>3. PICK t : t = WithTail(ed)
    OBVIOUS
<1>4. ed.queue # <<>> /\ EditorOnly /\ ed' = (IF j = 0 THEN t ELSE Abandon(t, j))
    BY <1>1, <1>2, <1>3 DEF CallFails, WithTail
<1>5. PICK At : At = owed \ exposed
    OBVIOUS
<1>6. Fits(ed, typed, versions, owed, At)
    BY <1>5 DEF EditorInv
<1>7. /\ Core(t, typed, versions, owed, At) /\ t.docs = ed.docs /\ t.jobs = ed.jobs
      /\ t.created = ed.created /\ c \in Call(typed)
      /\ JobsFit(t, Job \ {c.job}, versions, At)
      /\ c.job # 0 => \A k \in DOMAIN t.queue : t.queue[k].job # c.job
    <2>1. Core(t, typed, versions, owed, At) /\ JobsFit(t, Job \ {c.job}, versions, At)
        BY <1>1, <1>3, <1>4, <1>6, TailFits
    <2>2. t.docs = ed.docs /\ t.jobs = ed.jobs /\ t.created = ed.created /\ c \in Call(typed)
        BY <1>1, <1>3, <1>4, <1>6, <2>1, TailFits
    <2>3. c.job # 0 => \A k \in DOMAIN t.queue : t.queue[k].job # c.job
        BY <1>1, <1>3, <1>4, <1>6, <2>1, TailFits
    <2> QED
        BY <2>1, <2>2, <2>3
<1>8. CASE j = 0
    <2>1. 0 \notin Job
        BY DEF Job
    <2>2. Fits(t, typed, versions, owed, At)
        BY <1>2, <1>7, <1>8, <2>1 DEF Fits, JobsFit
    <2> QED
        BY <1>4, <1>5, <1>8, <2>2, EditorStep DEF Fit
<1>9. CASE j # 0
    <2>1. j \in Job
        BY <1>2, <1>7, <1>9 DEF Call
    <2>2. JobFits(ed.jobs[j], j, ed.docs, ed.queue, ed.created, versions, At)
        BY <1>6, <2>1 DEF Fits, JobsFit
    <2>3. During(t, j, typed, versions, owed, At)
        BY <1>2, <1>7, <1>9, <2>2 DEF During, JobFits
    <2>4. Fits(Abandon(t, j), typed, versions, owed, At)
        BY <2>1, <2>3, AbandonFits
    <2> QED
        BY <1>4, <1>5, <1>9, <2>4, EditorStep DEF Fit
<1> QED
    BY <1>8, <1>9

LEMMA CallTimesOutStep ==
    ASSUME EditorInv, NEW j \in Job, CallTimesOut(j)
    PROVE  EditorInv'
<1>1. PICK q : q = [k \in DOMAIN ed.queue |->
                       IF ed.queue[k].job = j THEN [ed.queue[k] EXCEPT !.job = 0]
                       ELSE ed.queue[k]]
    OBVIOUS
<1>2. PICK t : t = [ed EXCEPT !.queue = q]
    OBVIOUS
<1>3. ed' = Abandon(t, j) /\ EditorOnly
    BY <1>1, <1>2 DEF CallTimesOut
<1>4. ed \in Store(typed) /\ ed.queue \in Seq(Call(typed))
    BY EditorType
<1>5. j # 0
    BY DEF Job
<1>6. ASSUME NEW k \in DOMAIN ed.queue
      PROVE  /\ q[k] \in Call(typed) /\ q[k].path = ed.queue[k].path
             /\ q[k].content = ed.queue[k].content /\ q[k].type = ed.queue[k].type
             /\ q[k].job = IF ed.queue[k].job = j THEN 0 ELSE ed.queue[k].job
    <2>1. ed.queue[k] \in Call(typed)
        BY <1>4
    <2> QED
        BY <1>1, <2>1 DEF Call
<1>7. q \in Seq(Call(typed)) /\ DOMAIN q = DOMAIN ed.queue
    <2>1. DOMAIN ed.queue = 1 .. Len(ed.queue) /\ Len(ed.queue) \in Nat
        BY <1>4
    <2>2. q \in [1 .. Len(ed.queue) -> Call(typed)]
        BY <1>1, <1>6, <2>1
    <2> QED
        BY <2>1, <2>2, SeqDef
<1>8. /\ t \in Store(typed) /\ t.queue = q /\ t.docs = ed.docs /\ t.jobs = ed.jobs
      /\ t.created = ed.created
    BY <1>2, <1>4, <1>7 DEF Store
<1>9. PICK At : At = owed \ exposed
    OBVIOUS
<1>10. Fits(ed, typed, versions, owed, At)
    BY <1>9 DEF EditorInv
<1>11. CallsFit(q)
    BY <1>6, <1>7, <1>10 DEF CallsFit, Fits, Core
<1>12. Core(t, typed, versions, owed, At)
    BY <1>8, <1>10, <1>11 DEF Fits, Core
<1>13. ASSUME NEW k \in Job \ {j}
       PROVE  JobFits(ed.jobs[k], k, ed.docs, q, ed.created, versions, At)
    <2>1. JobFits(ed.jobs[k], k, ed.docs, ed.queue, ed.created, versions, At)
        BY <1>10 DEF Fits, JobsFit
    <2>2. k # 0
        BY DEF Job
    <2> QED
        BY <1>6, <1>7, <2>1, <2>2 DEF JobFits
<1>14. \A k \in DOMAIN q : q[k].job # j
    BY <1>5, <1>6, <1>7
<1>15. JobFits(ed.jobs[j], j, ed.docs, ed.queue, ed.created, versions, At)
    BY <1>10 DEF Fits, JobsFit
<1>16. During(t, j, typed, versions, owed, At)
    BY <1>8, <1>12, <1>13, <1>14, <1>15 DEF During, JobsFit, JobFits
<1>17. Fits(Abandon(t, j), typed, versions, owed, At)
    BY <1>16, AbandonFits
<1> QED
    BY <1>3, <1>9, <1>17, EditorStep DEF Fit

-------------------------------------------------------------------------------
(* The answers *)

\* The answer holds a version of the file; the document has nothing at stake.
LEMMA AnswerFacts ==
    ASSUME EditorInv, NEW j \in Job, NEW kind, Answered(j, kind)
    PROVE  /\ Moving(ed, j) /\ ed.jobs[j].kind = kind
           /\ ed.jobs[j].path \in Path /\ ed.jobs[j].content \in Texts(typed)
           /\ ed.jobs[j].content \in versions[ed.jobs[j].path]
           /\ ed.jobs[j].content.edits \cap owed = {}
           /\ ed.jobs[j].doc \in DOMAIN ed.docs =>
                 Stake(ed.docs, ed.jobs[j].doc, owed \ exposed) = {}
           /\ Listed(ed, j, ed.jobs[j].todo)
           /\ ed.created < MaxDocs \/ ed.jobs[j].doc \in DOMAIN ed.docs
           /\ ed.jobs[j].kind = "open" => ed.jobs[j].doc = 0
<1>1. ed.jobs[j].step = "answered" /\ ed.jobs[j].kind = kind
      /\ (ed.created < MaxDocs \/ ed.jobs[j].doc \in DOMAIN ed.docs)
    BY DEF Answered
<1>2. Moving(ed, j)
    BY <1>1, MovingOn
<1>3. JobFits(ed.jobs[j], j, ed.docs, ed.queue, ed.created, versions, owed \ exposed)
    BY DEF EditorInv, Fits, JobsFit
<1>4. /\ ed.jobs[j].path \in Path /\ ed.jobs[j].content \in versions[ed.jobs[j].path]
      /\ ed.jobs[j].doc \in DOMAIN ed.docs =>
            Stake(ed.docs, ed.jobs[j].doc, owed \ exposed) = {}
      /\ ed.jobs[j].kind = "open" => ed.jobs[j].doc = 0
    BY <1>1, <1>3 DEF JobFits
<1>5. ed.jobs[j].content \in Texts(typed) /\ ed.jobs[j].content.edits \cap owed = {}
    BY <1>4 DEF EditorInv, World
<1>6. Listed(ed, j, ed.jobs[j].todo)
    BY <1>1, <1>3 DEF Listed, Covered, JobFits, InHand
<1> QED
    BY <1>1, <1>2, <1>4, <1>5, <1>6

\* After the answer is applied the operation is still under way.
LEMMA PayloadDuring ==
    ASSUME EditorInv, NEW j \in Job, NEW kind, Answered(j, kind),
           NEW t, t = applyDocumentPayload(ed, ed.jobs[j].doc, ed.jobs[j].path, ed.jobs[j].content)
    PROVE  Moving(t, j) /\ Listed(t, j, t.jobs[j].todo)
<1>1. /\ Moving(ed, j) /\ ed.jobs[j].kind = kind
      /\ ed.jobs[j].path \in Path /\ ed.jobs[j].content \in Texts(typed)
      /\ ed.jobs[j].content \in versions[ed.jobs[j].path]
      /\ ed.jobs[j].content.edits \cap owed = {}
      /\ ed.jobs[j].doc \in DOMAIN ed.docs =>
            Stake(ed.docs, ed.jobs[j].doc, owed \ exposed) = {}
      /\ Listed(ed, j, ed.jobs[j].todo)
      /\ ed.created < MaxDocs \/ ed.jobs[j].doc \in DOMAIN ed.docs
    BY AnswerFacts
<1>2. PICK At : At = owed \ exposed
    OBVIOUS
<1>3. At \subseteq owed /\ Core(ed, typed, versions, owed, At)
    BY <1>2, EditorType
<1>4. PICK id : id = ed.jobs[j].doc
    OBVIOUS
<1>5. PICK path \in Path : path = ed.jobs[j].path
    BY <1>1
<1>6. PICK text \in Texts(typed) : text = ed.jobs[j].content
    BY <1>1
<1>7. /\ Core(t, typed, versions, owed, At) /\ Quiet(ed.docs, t.docs, ed.created, At)
      /\ t.jobs = ed.jobs /\ t.queue = ed.queue
      /\ ed.created \in Nat /\ t.created \in Nat /\ ed.created <= t.created
    <2>1. text \in versions[path] /\ text.edits \cap owed = {}
          /\ (id \in DOMAIN ed.docs => Stake(ed.docs, id, At) = {})
          /\ (ed.created < MaxDocs \/ id \in DOMAIN ed.docs)
          /\ t = applyDocumentPayload(ed, id, path, text)
        BY <1>1, <1>2, <1>4, <1>5, <1>6
    <2> QED
        BY <1>3, <2>1, PayloadCore
<1>8. During(ed, j, typed, versions, owed, At)
    BY <1>1, <1>2 DEF Moving
<1>9. JobsFit(t, Job \ {j}, versions, At)
    <2>1. JobsFit(ed, Job \ {j}, versions, At)
        BY <1>8 DEF During
    <2> QED
        BY <1>7, <2>1, QuietJobs
<1>10. During(t, j, typed, versions, owed, At)
    <2>1. /\ ed.jobs[j].doc \in 0 .. ed.created /\ ed.jobs[j].todo \subseteq 1 .. ed.created
          /\ \A k \in DOMAIN ed.queue : ed.queue[k].job # j
          /\ ed.jobs[j].kind = "open" => ed.jobs[j].doc = 0
        BY <1>8 DEF During
    <2>2. 0 .. ed.created \subseteq 0 .. t.created /\ 1 .. ed.created \subseteq 1 .. t.created
        <3>1. ed.created \in Nat /\ t.created \in Nat /\ ed.created <= t.created
            BY <1>7
        <3> QED
            BY <3>1
    <2>3. t.jobs[j].doc \in 0 .. t.created /\ t.jobs[j].todo \subseteq 1 .. t.created
        BY <1>7, <2>1, <2>2
    <2> QED
        BY <1>7, <1>9, <2>1, <2>3 DEF During
<1>11. Covered(t, j, t.jobs[j].todo, At)
    <2>1. Covered(ed, j, t.jobs[j].todo, At)
        BY <1>1, <1>2, <1>7 DEF Listed
    <2> QED
        BY <1>7, <2>1, QuietCovered
<1> QED
    BY <1>2, <1>10, <1>11 DEF Moving, Listed

LEMMA RefreshAnsweredStep ==
    ASSUME EditorInv, NEW j \in Job, RefreshAnswered(j)
    PROVE  EditorInv'
<1>1. PICK t : t = applyDocumentPayload(ed, ed.jobs[j].doc, ed.jobs[j].path, ed.jobs[j].content)
    OBVIOUS
<1>2. Answered(j, "refresh") /\ ed' = Abandon(t, j) /\ EditorOnly
    BY <1>1 DEF RefreshAnswered, Answered
<1>3. Moving(t, j)
    BY <1>1, <1>2, PayloadDuring
<1>4. Fit(Abandon(t, j))
    BY <1>3, AbandonFits DEF Fit, Moving
<1> QED
    BY <1>2, <1>4, EditorStep

LEMMA SaveAnsweredStep ==
    ASSUME EditorInv, NEW j \in Job, SaveAnswered(j)
    PROVE  EditorInv'
<1>1. PICK t : t = applyDocumentPayload(ed, ed.jobs[j].doc, ed.jobs[j].path, ed.jobs[j].content)
    OBVIOUS
<1>2. Answered(j, "save") /\ ed' = saveDirtyDocuments(t, j) /\ EditorOnly
    BY <1>1 DEF SaveAnswered, Answered
<1>3. Moving(t, j) /\ Listed(t, j, t.jobs[j].todo)
    BY <1>1, <1>2, PayloadDuring
<1>4. owed \ exposed \subseteq owed
    OBVIOUS
<1>5. Fit(saveDirtyDocuments(t, j))
    BY <1>3, <1>4, SaveDirtyFits DEF Fit, Moving, Listed
<1> QED
    BY <1>2, <1>5, EditorStep

LEMMA OpenAnsweredStep ==
    ASSUME EditorInv, NEW j \in Job, OpenAnswered(j)
    PROVE  EditorInv'
<1>1. Answered(j, "open") /\ ed' = Opened(ed, j) /\ EditorOnly
    BY DEF OpenAnswered, Answered
<1>2. /\ Moving(ed, j) /\ ed.jobs[j].kind = "open"
      /\ ed.jobs[j].path \in Path /\ ed.jobs[j].content \in Texts(typed)
      /\ ed.jobs[j].content \in versions[ed.jobs[j].path]
      /\ ed.jobs[j].content.edits \cap owed = {}
      /\ ed.created < MaxDocs \/ ed.jobs[j].doc \in DOMAIN ed.docs
      /\ ed.jobs[j].kind = "open" => ed.jobs[j].doc = 0
    BY <1>1, AnswerFacts
<1>3. ed.created < MaxDocs /\ ed \in Store(typed)
    BY <1>2, EditorType
<1>4. PICK s : s = Abandon(ed, j)
    OBVIOUS
<1>5. Fit(s)
    BY <1>2, <1>4, AbandonFits DEF Fit, Moving
<1>6. s.docs = ed.docs /\ s.created = ed.created
    BY <1>3, <1>4 DEF Abandon, Store
<1>7. CASE Cardinality(DOMAIN ed.docs) >= MaxOpenTabs
    <2>1. ed' = s
        BY <1>1, <1>4, <1>7 DEF Opened
    <2> QED
        BY <1>1, <1>5, <2>1, EditorStep
<1>8. CASE ~ Cardinality(DOMAIN ed.docs) >= MaxOpenTabs
    <2>1. PICK t : t = openDocumentTab(s, ed.jobs[j].path, ed.jobs[j].content, TRUE)
        OBVIOUS
    <2>2. ed' = t
        BY <1>1, <1>4, <1>8, <2>1 DEF Opened
    <2>3. PICK At : At = owed \ exposed
        OBVIOUS
    <2>4. At \subseteq owed /\ Core(s, typed, versions, owed, At) /\ JobsFit(s, Job, versions, At)
        BY <1>5, <2>3 DEF Fit, Fits
    <2>5. PICK checked : checked = TRUE
        OBVIOUS
    <2>6. checked \in BOOLEAN /\ Cardinality(DOMAIN s.docs) < MaxOpenTabs
        <3>1. Cardinality(DOMAIN ed.docs) \in Nat
            BY EditorType, DocsFinite
        <3> QED
            BY <1>6, <1>8, <2>5, <3>1, EditorAssumption
    <2>7. PICK path \in Path : path = ed.jobs[j].path
        BY <1>2
    <2>8. PICK text \in Texts(typed) : text = ed.jobs[j].content
        BY <1>2
    <2>9. text \in versions[path] /\ text.edits \cap owed = {} /\ s.created < MaxDocs
          /\ t = openDocumentTab(s, path, text, checked)
        BY <1>2, <1>3, <1>6, <2>1, <2>5, <2>7, <2>8
    <2>10. /\ Core(t, typed, versions, owed, At) /\ Quiet(s.docs, t.docs, s.created, At)
           /\ t.jobs = s.jobs /\ t.queue = s.queue
           /\ s.created \in Nat /\ t.created \in Nat /\ s.created <= t.created
        BY <2>4, <2>6, <2>9, OpenTabCore
    <2>11. JobsFit(t, Job, versions, At)
        BY <2>4, <2>10, QuietJobs
    <2>12. Fit(ed')
        BY <2>2, <2>3, <2>10, <2>11 DEF Fit, Fits
    <2> QED
        BY <1>1, <2>12, EditorStep
<1> QED
    BY <1>7, <1>8

LEMMA CloseFailsStep ==
    ASSUME EditorInv, NEW j \in Job, CloseFails(j)
    PROVE  EditorInv'
<1>1. Moving(ed, j)
    BY MovingOn DEF CloseFails
<1>2. Fit(ed')
    BY <1>1, AbandonFits DEF Fit, Moving, CloseFails
<1> QED
    BY <1>2, EditorStep DEF CloseFails

LEMMA ClosedStep ==
    ASSUME EditorInv, NEW j \in Job, Closed(j)
    PROVE  EditorInv'
<1>1. PICK At : At = owed \ exposed
    OBVIOUS
<1>2. JobFits(ed.jobs[j], j, ed.docs, ed.queue, ed.created, versions, At)
    BY <1>1 DEF EditorInv, Fits, JobsFit
<1>3. ed.jobs[j].step = "flush" /\ EditorOnly
    BY DEF Closed
<1>4. ed.jobs[j].after # "none" /\ ed.jobs[j].todo = {}
    BY <1>2, <1>3 DEF JobFits
<1>5. \A id \in DOMAIN ed.docs : Stake(ed.docs, id, At) = {}
    BY <1>1, <1>3, <1>4, AskedList DEF Listed, Covered
<1>6. Held(ed.docs, At) /\ ed \in Store(typed) /\ ed.created \in 0 .. MaxDocs
    BY <1>1, EditorType DEF Core
<1>7. At = {}
    BY <1>5, <1>6, NothingAtStake
<1>8. PICK over : over = Started("none", "done")
    OBVIOUS
<1>9. over \in JobUpTo(typed) /\ over.doc = 0 /\ over.todo = {} /\ over.after = "none"
      /\ over.step = "done" /\ over.kind = "none"
    BY <1>8, IdleJob
<1>10. PICK jobs : jobs = [k \in Job |-> over]
    OBVIOUS
<1>11. ed' = [ed EXCEPT !.docs = <<>>, !.jobs = jobs, !.queue = <<>>, !.alive = FALSE]
    BY <1>8, <1>10 DEF Closed
<1>12. jobs \in [Job -> JobUpTo(typed)]
    BY <1>9, <1>10
<1>13. <<>> \in Seq(Call(typed))
    OBVIOUS
<1>14. /\ ed' \in Store(typed) /\ ed'.docs = <<>> /\ ed'.jobs = jobs /\ ed'.queue = <<>>
       /\ ed'.created = ed.created
    BY <1>6, <1>11, <1>12, <1>13, NoDocs DEF Store
<1>15. CallsFit(<<>>)
    BY NoDocs DEF CallsFit
<1>16. Core(ed', typed, versions, owed, At)
    BY <1>7, <1>14, <1>15, EmptyDocs, NoDocs DEF Core
<1>17. ASSUME NEW k \in Job
       PROVE  JobFits(jobs[k], k, <<>>, <<>>, ed.created, versions, At)
    <2>1. jobs[k] = over
        BY <1>10
    <2> QED
        BY <1>6, <1>9, <2>1, NoDocs DEF JobFits
<1>18. JobsFit(ed', Job, versions, At)
    BY <1>14, <1>17 DEF JobsFit
<1> QED
    BY <1>1, <1>3, <1>16, <1>18, EditorStep DEF Fit, Fits

-------------------------------------------------------------------------------
(* The invariant *)

LEMMA EditorInit ==
    ASSUME Init
    PROVE  EditorInv
<1>1. /\ typed = 0 /\ written = 0 /\ owed = {} /\ exposed = {}
      /\ disk = [p \in Path |-> [edits |-> {}, tidy |-> FALSE]]
      /\ versions = [p \in Path |-> {disk[p]}]
      /\ ed = [docs |-> <<>>, jobs |-> [j \in Job |-> Idle], queue |-> <<>>,
               created |-> 0, alive |-> TRUE]
    BY DEF Init
<1>2. PICK text : text = [edits |-> {}, tidy |-> FALSE]
    OBVIOUS
<1>3. text \in Texts(0) /\ text.edits = {}
    BY <1>2 DEF Texts, Text
<1>4. \A p \in Path : disk[p] = text /\ versions[p] = {text}
    BY <1>1, <1>2
<1>5. disk \in [Path -> Texts(0)] /\ versions \in [Path -> SUBSET Texts(0)]
    BY <1>1, <1>2, <1>3, <1>4
<1>6. World(typed, written, disk, versions, owed, exposed)
    BY <1>1, <1>3, <1>4, <1>5, EditorAssumption DEF World
<1>7. PICK jobs : jobs = [j \in Job |-> Idle]
    OBVIOUS
<1>8. PICK over : over = Idle
    OBVIOUS
<1>9. over \in JobUpTo(0) /\ over.doc = 0 /\ over.todo = {} /\ over.after = "none"
      /\ over.step = "new" /\ over.kind = "none"
    BY <1>8, BlankText DEF Idle, JobUpTo
<1>10. jobs \in [Job -> JobUpTo(0)] /\ \A k \in Job : jobs[k] = over
    BY <1>7, <1>8, <1>9
<1>11. <<>> \in Seq(Call(0))
    OBVIOUS
<1>12. /\ ed \in Store(0) /\ ed.docs = <<>> /\ ed.jobs = jobs /\ ed.queue = <<>>
       /\ ed.created = 0
    BY <1>1, <1>7, <1>10, <1>11, NoDocs, EditorAssumption DEF Store
<1>13. CallsFit(<<>>)
    BY NoDocs DEF CallsFit
<1>14. owed \ exposed = {}
    BY <1>1
<1>15. Core(ed, typed, versions, owed, owed \ exposed)
    BY <1>1, <1>12, <1>13, <1>14, EmptyDocs, NoDocs DEF Core
<1>16. ASSUME NEW k \in Job
       PROVE  JobFits(jobs[k], k, <<>>, <<>>, 0, versions, owed \ exposed)
    BY <1>9, <1>10, NoDocs DEF JobFits
<1>17. JobsFit(ed, Job, versions, owed \ exposed)
    BY <1>12, <1>16 DEF JobsFit
<1> QED
    BY <1>6, <1>15, <1>17 DEF EditorInv, Fits

LEMMA EditorNext ==
    ASSUME EditorInv, [Next]_vars
    PROVE  EditorInv'
<1>1. CASE createNewDocument
    BY <1>1, CreateStep
<1>2. CASE \E id \in DOMAIN ed.docs : Type(id)
    BY <1>2, TypeStep
<1>3. ASSUME NEW j \in Job, ConfirmSave(j) \/ ConfirmDiscard(j) \/ Dismiss(j)
      PROVE  EditorInv'
    BY <1>3, ConfirmSaveStep, ConfirmDiscardStep, DismissStep
<1>4. ASSUME NEW j \in Job, NEW p \in Path, openDocument(j, p) \/ Pick(j, p)
      PROVE  EditorInv'
    BY <1>4, OpenStep, PickStep
<1>5. ASSUME NEW j \in Job, NEW id \in DOMAIN ed.docs,
             formatDocument(j, id) \/ \E fmt \in BOOLEAN : Save(j, id, fmt)
      PROVE  EditorInv'
    BY <1>5, FormatStep, SaveStep
<1>6. ASSUME NEW j \in Job, NEW after \in {"folder", "quit"}, NEW fmt \in BOOLEAN,
             RequestClose(j, after, fmt)
      PROVE  EditorInv'
    BY <1>6, RequestCloseStep
<1>7. CASE load_script \/ save_script \/ CallFails
    BY <1>7, LoadStep, WriteStep, CallFailsStep
<1>8. ASSUME NEW p \in Path, AgentWrites(p)
      PROVE  EditorInv'
    BY <1>8, AgentWritesStep
<1>9. ASSUME NEW j \in Job, Formatted(j) \/ FormatFails(j) \/ CallTimesOut(j)
      PROVE  EditorInv'
    BY <1>9, FormattedStep, FormatFailsStep, CallTimesOutStep
<1>10. ASSUME NEW j \in Job,
              \/ OpenAnswered(j) \/ RefreshAnswered(j) \/ SaveAnswered(j)
              \/ CloseFails(j) \/ Closed(j)
       PROVE  EditorInv'
    BY <1>10, OpenAnsweredStep, RefreshAnsweredStep, SaveAnsweredStep,
       CloseFailsStep, ClosedStep
<1>11. ASSUME NEW j \in Job, NEW p \in Path, refreshSidecarChangedDocuments(j, p)
       PROVE  EditorInv'
    BY <1>11, RefreshStep
<1>12. CASE UNCHANGED vars
    BY <1>12 DEF vars, EditorInv
<1>13. CASE UserStep
    BY <1>1, <1>2, <1>3, <1>4, <1>5, <1>6, <1>13 DEF UserStep
<1>14. CASE SystemStep
    BY <1>7, <1>8, <1>9, <1>10, <1>11, <1>14 DEF SystemStep
<1> QED
    BY <1>12, <1>13, <1>14 DEF Next

LEMMA Inductive == Spec => []EditorInv
<1> QED
    BY EditorInit, EditorNext, PTL DEF Spec

-------------------------------------------------------------------------------
(* What it implies *)

\* Every variable keeps its type, and an operation that waits has exactly one call in
\* the queue of the backend, no other has one (persistTextDocument awaits each call).
THEOREM TypeCorrect == Spec => []TypeOK
<1>1. ASSUME EditorInv
      PROVE  TypeOK
    <2>1. /\ Fit(ed) /\ ed \in Store(typed) /\ ed.docs \in Docs(typed)
          /\ DOMAIN ed.docs \subseteq 1 .. ed.created /\ ed.created \in 0 .. MaxDocs
          /\ ed.queue \in Seq(Call(typed)) /\ \A j \in Job : ed.jobs[j] \in JobUpTo(typed)
        BY <1>1, EditorType
    <2>2. World(typed, written, disk, versions, owed, exposed)
        BY <1>1 DEF EditorInv
    <2>3. Texts(typed) \subseteq Text
        BY DEF Texts
    <2>4. disk \in [Path -> Text]
        BY <2>2, <2>3 DEF World
    <2>5. \A id \in DOMAIN ed.docs : ed.docs[id] \in Document
        BY <2>1, <2>3, DocsDef DEF DocumentUpTo, Document
    <2>6. ed.jobs \in [Job -> JobRecord]
        <3>1. JobUpTo(typed) \subseteq JobRecord
            BY <2>3 DEF JobUpTo, JobRecord
        <3> QED
            BY <2>1, <3>1 DEF Store
    <2>7. ASSUME NEW j \in Job
          PROVE  Cardinality({k \in DOMAIN ed.queue : ed.queue[k].job = j})
                     = IF ed.jobs[j].step = "wait" THEN 1 ELSE 0
        <3>1. PICK C : C = {k \in DOMAIN ed.queue : ed.queue[k].job = j}
            OBVIOUS
        <3>2. JobFits(ed.jobs[j], j, ed.docs, ed.queue, ed.created, versions, owed \ exposed)
            BY <2>1 DEF Fit, Fits, JobsFit
        <3>3. CallsFit(ed.queue)
            BY <2>1 DEF Fit, Fits, Core
        <3>4. CASE ed.jobs[j].step = "wait"
            <4>1. PICK k \in DOMAIN ed.queue : ed.queue[k].job = j
                BY <3>2, <3>4 DEF JobFits
            <4>2. j # 0
                BY DEF Job
            <4>3. C = {k}
                BY <3>1, <3>3, <4>1, <4>2 DEF CallsFit
            <4>4. Cardinality(C) = 1
                BY <4>3, FS_Singleton
            <4> QED
                BY <3>1, <3>4, <4>4
        <3>5. CASE ed.jobs[j].step # "wait"
            <4>1. C = {}
                BY <3>1, <3>2, <3>5 DEF JobFits
            <4>2. Cardinality(C) = 0
                BY <4>1, FS_EmptySet
            <4> QED
                BY <3>1, <3>5, <4>2
        <3> QED
            BY <3>4, <3>5
    <2> QED
        BY <2>1, <2>2, <2>4, <2>5, <2>6, <2>7 DEF TypeOK, World, Store
<1> QED
    BY <1>1, Inductive, PTL

\* Nothing the user typed is lost: what is owed is in an open document, unless it was
\* typed while an operation on its document was under way (applyDocumentPayload,
\* formatDocumentWithShfmt and clearDocuments replace texts).
THEOREM TypedKept == Spec => []EditsKept
<1>1. ASSUME EditorInv
      PROVE  EditsKept
    BY <1>1 DEF EditorInv, Fits, Core, Held, EditsKept
<1> QED
    BY <1>1, Inductive, PTL

\* A document counts as saved only with a text its file has really held, whatever
\* failed, timed out or was typed meanwhile (persistTextDocument, applyDocumentPayload).
THEOREM SavedWasOnDisk == Spec => []CleanWasOnDisk
<1>1. ASSUME EditorInv
      PROVE  CleanWasOnDisk
    BY <1>1 DEF EditorInv, Fits, Core, SavedFits, CleanWasOnDisk
<1> QED
    BY <1>1, Inductive, PTL

\* Loads that are answered late do not break the limit on tabs; only a tab that an
\* answer reopens comes on top of it (ensureCanOpenNewTab, openTabAndNotify).
THEOREM TabLimit == Spec => []TabsBounded
<1>1. ASSUME EditorInv
      PROVE  TabsBounded
    BY <1>1 DEF EditorInv, Fits, Core, TabsFit, Unchecked, TabsBounded
<1> QED
    BY <1>1, Inductive, PTL

\* Two tabs show the same path only if a new script was saved under it, however many
\* loads of the file were under way at once (findDocumentByPath in openDocumentTab).
THEOREM OneTabPerPath == Spec => []OnePathOneTab
<1>1. ASSUME EditorInv
      PROVE  OnePathOneTab
    BY <1>1 DEF EditorInv, Fits, Core, PathsFit, OnePathOneTab
<1> QED
    BY <1>1, Inductive, PTL
=============================================================================
