---------------------------- MODULE EditorDocuments ----------------------------
(***************************************************************************)
(* The open documents of the editor (src/src/store/editor.ts) and the      *)
(* asynchronous operations on them: saving with conventions and shfmt      *)
(* (composables/useDocumentPersistence.ts), the dirty check before a       *)
(* folder is switched or the window closes (useDocumentLifecycle.ts),      *)
(* opening (useWorkbenchDocumentIO.ts), and the refresh of documents whose *)
(* files the agent or a replacement changed                                *)
(* (useSidecarChangedDocumentRefresh.ts).                                  *)
(*                                                                         *)
(* The backend runs load_script and save_script one at a time, in the      *)
(* order of the calls (src-tauri/src/commands/workspace_fs.rs); between a  *)
(* call and its answer the user goes on typing.  A text is the set of the  *)
(* changes it contains, and whether it already has the form that the save  *)
(* conventions and shfmt give it.                                          *)
(***************************************************************************)
EXTENDS Integers, Sequences, FiniteSets

CONSTANTS
    Path,         \* the files
    NoPath,       \* the path of a document that was never saved
    MaxOpenTabs,  \* MAX_OPEN_TABS
    MaxDocs,      \* bound: documents ever opened
    MaxEdits,     \* bound: changes typed by the user
    MaxWrites,    \* bound: changes written by the agent or a replacement
    MaxJobs       \* bound: operations, finished ones and those under way

ASSUME EditorAssumption ==
    /\ NoPath \notin Path
    /\ {MaxOpenTabs, MaxDocs, MaxJobs} \subseteq Nat \ {0}
    /\ {MaxEdits, MaxWrites} \subseteq Nat

VARIABLES
    disk,     \* [Path -> Text]
    ed,       \* the front end, one record: its documents, jobs and calls
    typed,    \* changes typed so far
    written,  \* changes written by others so far
    owed,     \* history: typed, not yet written to a file, not given up by the user
    exposed,  \* history: typed while an operation on the document was under way
    versions  \* history: [Path -> SUBSET Text], what each file ever held

vars == <<disk, ed, typed, written, owed, exposed, versions>>

Edit == 1 .. MaxEdits + MaxWrites  \* the typed ones first
Text == [edits : SUBSET Edit, tidy : BOOLEAN]
Id   == 1 .. MaxDocs
Job  == 1 .. MaxJobs

Blank == [edits |-> {}, tidy |-> TRUE]

\* The save conventions and shfmt change the form of a text, not what was typed.
Tidied(text) == [text EXCEPT !.tidy = TRUE]

Idle == [kind |-> "none", step |-> "new", doc |-> 0, path |-> NoPath, content |-> Blank,
         fmt |-> FALSE, again |-> FALSE, todo |-> {}, after |-> "none"]

Started(kind, step) == [Idle EXCEPT !.kind = kind, !.step = step]

-----------------------------------------------------------------------------
(* The store.  ds is its documents: [ids -> document], oldest first.        *)

Dirty(d) == d.content # d.saved

dirtyDocuments(ds) == {id \in DOMAIN ds : Dirty(ds[id])}

WithPath(ds, path) == {id \in DOMAIN ds : ds[id].path = path}

\* checked: the tab quota was looked at before the tab was added.
NewDocument(path, text, checked) ==
    [path |-> path, content |-> text, saved |-> text, checked |-> checked, savedAs |-> FALSE]

AddTab(s, d) ==
    [s EXCEPT !.created = @ + 1,
              !.docs = [id \in DOMAIN @ \cup {s.created + 1} |->
                           IF id = s.created + 1 THEN d ELSE @[id]]]

\* Wrong on purpose: the tab that already shows the path is not looked for.
openDocumentTabTwice(s, path, text, checked) == AddTab(s, NewDocument(path, text, checked))

openDocumentTab(s, path, text, checked) ==
    IF WithPath(s.docs, path) # {} THEN s ELSE AddTab(s, NewDocument(path, text, checked))

\* Wrong on purpose: what was typed since the call stays, and counts as saved.
applyDocumentPayloadKeepingContent(s, id, path, text) ==
    IF id \notin DOMAIN s.docs THEN openDocumentTab(s, path, text, FALSE)
    ELSE [s EXCEPT !.docs[id].path = path, !.docs[id].saved = s.docs[id].content,
                   !.docs[id].savedAs = @ \/ s.docs[id].path # path]

\* An answer replaces the text and marks it as saved; if the document is gone, it
\* opens again, whatever the quota.
applyDocumentPayload(s, id, path, text) ==
    IF id \notin DOMAIN s.docs THEN openDocumentTab(s, path, text, FALSE)
    ELSE [s EXCEPT !.docs[id].path = path,
                   !.docs[id].content = text, !.docs[id].saved = text,
                   !.docs[id].savedAs = @ \/ s.docs[id].path # path]

updateDocumentContent(ds, id, text) ==
    IF id \in DOMAIN ds THEN [ds EXCEPT ![id].content = text] ELSE ds

applySaveConventions(ds, id) ==
    IF id \in DOMAIN ds THEN [ds EXCEPT ![id].content = Tidied(@)] ELSE ds

Abandon(s, j) == [s EXCEPT !.jobs[j] = Started("none", "done")]

\* clearDocuments; a save whose path is being picked keeps the document it holds.
clearDocuments(s) ==
    LET Kept(job) == IF job.step = "pick" /\ job.doc \in DOMAIN s.docs
                     THEN [job EXCEPT !.content = s.docs[job.doc].content] ELSE job
    IN  [s EXCEPT !.docs = <<>>, !.jobs = [j \in Job |-> Kept(@[j])]]

-----------------------------------------------------------------------------
(* Saving, from one await to the next.                                      *)

Send(s, j, type, path, text) ==
    [s EXCEPT !.jobs[j].step = "wait", !.jobs[j].path = path, !.jobs[j].content = Blank,
              !.queue = Append(@, [job |-> j, type |-> type, path |-> path, content |-> text])]

Format(s, j) ==
    [s EXCEPT !.jobs[j].step = "format", !.jobs[j].content = s.docs[s.jobs[j].doc].content]

\* A document without a path goes through saveDocumentAs, which prepares it again and
\* then asks for a path, even if the document has gained one meanwhile.
Prepared(s, j) ==
    LET job == s.jobs[j]
        d   == s.docs[job.doc]
    IN  IF job.again THEN [s EXCEPT !.jobs[j].step = "pick"]
        ELSE IF d.path # NoPath THEN Send(s, j, "write", d.path, d.content)
        ELSE IF job.fmt THEN Format([s EXCEPT !.jobs[j].again = TRUE], j)
        ELSE [s EXCEPT !.jobs[j].step = "pick"]

\* saveDocument: prepareDocumentForSave up to its await, if formatOnSave makes it wait.
saveDocument(s, j, id) ==
    LET prepared == [s EXCEPT !.docs = applySaveConventions(@, id),
                              !.jobs[j].kind = "save", !.jobs[j].doc = id,
                              !.jobs[j].again = FALSE]
    IN  IF id \notin DOMAIN s.docs THEN Abandon(s, j)
        ELSE IF prepared.jobs[j].fmt THEN Format(prepared, j)
        ELSE Prepared(prepared, j)

\* The dirty documents are handled: the folder is switched, or the session flushed.
Handled(s, j) ==
    CASE s.jobs[j].after = "none"   -> Abandon(s, j)
      [] s.jobs[j].after = "folder" -> clearDocuments(Abandon(s, j))
      [] s.jobs[j].after = "quit"   -> [s EXCEPT !.jobs[j].step = "flush", !.jobs[j].doc = 0]

\* The loop of saveDirtyDocuments, in the order of the tabs: a document that is closed
\* or clean by now is skipped.
saveDirtyDocuments(s, j) ==
    LET todo  == s.jobs[j].todo
        Due   == todo \cap dirtyDocuments(s.docs)
        first == CHOOSE id \in Due : \A other \in Due : id <= other
    IN  IF Due = {} THEN Handled([s EXCEPT !.jobs[j].todo = {}], j)
        ELSE saveDocument([s EXCEPT !.jobs[j].todo = {id \in todo : id > first}], j, first)

persistDirtyDocuments(s, j) ==
    LET todo == s.jobs[j].todo
        only == CHOOSE id \in todo : TRUE
    IN  IF todo = {only} THEN saveDocument([s EXCEPT !.jobs[j].todo = {}], j, only)
        ELSE saveDirtyDocuments(s, j)

-----------------------------------------------------------------------------
(* Actions of the user.  A dialog keeps the user from everything but the     *)
(* save shortcut, a file picker from that as well.                          *)

Shows(step) == \E j \in Job : ed.jobs[j].step = step
Modal == Shows("confirm") \/ Shows("pick")

\* The next operation.
FreeJob(j) == ed.jobs[j].step = "new" /\ \A k \in 1 .. j - 1 : ed.jobs[k].step # "new"

UnderWay(id) ==
    \E j \in Job : LET job == ed.jobs[j]
                   IN  job.doc = id \/ id \in job.todo \/ job.after # "none"

EditorOnly == UNCHANGED <<disk, typed, written, owed, exposed, versions>>

Type(id) ==
    /\ ed.alive /\ ~ Modal
    /\ typed < MaxEdits
    /\ typed' = typed + 1
    /\ LET text == ed.docs[id].content
       IN  ed' = [ed EXCEPT !.docs = updateDocumentContent(@, id,
                      [edits |-> text.edits \cup {typed'}, tidy |-> FALSE])]
    /\ owed' = owed \cup {typed'}
    /\ exposed' = IF UnderWay(id) THEN exposed \cup {typed'} ELSE exposed
    /\ UNCHANGED <<disk, written, versions>>

createNewDocument ==
    /\ ed.alive /\ ~ Modal
    /\ ed.created < MaxDocs
    /\ Cardinality(DOMAIN ed.docs) < MaxOpenTabs
    /\ ed' = AddTab(ed, NewDocument(NoPath, Blank, TRUE))
    /\ EditorOnly

openDocument(j, path) ==
    /\ ed.alive /\ ~ Modal
    /\ FreeJob(j) /\ WithPath(ed.docs, path) = {}
    /\ ed' = Send([ed EXCEPT !.jobs[j] = Started("open", "wait")], j, "load", path, Blank)
    /\ EditorOnly

Save(j, id, fmt) ==
    /\ ed.alive /\ ~ Shows("pick")
    /\ FreeJob(j)
    /\ ed' = saveDocument([ed EXCEPT !.jobs[j] = [Idle EXCEPT !.fmt = fmt]], j, id)
    /\ EditorOnly

formatDocument(j, id) ==
    /\ ed.alive /\ ~ Modal
    /\ FreeJob(j)
    /\ ed' = Format([ed EXCEPT !.jobs[j] = [Started("format", "format") EXCEPT !.doc = id]], j)
    /\ EditorOnly

\* openFolder once a folder is picked, and requestCloseApplication.
RequestClose(j, after, fmt) ==
    /\ ed.alive /\ ~ Modal
    /\ FreeJob(j)
    /\ LET dirty == dirtyDocuments(ed.docs)
           asked == [ed EXCEPT !.jobs[j] = [Started("close", "confirm") EXCEPT
                                  !.todo = dirty, !.after = after, !.fmt = fmt]]
       IN  ed' = IF dirty = {} THEN Handled(asked, j) ELSE asked
    /\ EditorOnly

ConfirmSave(j) ==
    /\ ed.jobs[j].step = "confirm"
    /\ ed' = persistDirtyDocuments(ed, j)
    /\ EditorOnly

\* The user gives up what the listed documents hold.
ConfirmDiscard(j) ==
    /\ ed.jobs[j].step = "confirm"
    /\ owed' = owed \ UNION {ed.docs[id].content.edits :
                                id \in ed.jobs[j].todo \cap DOMAIN ed.docs}
    /\ ed' = Handled([ed EXCEPT !.jobs[j].todo = {}], j)
    /\ UNCHANGED <<disk, typed, written, exposed, versions>>

\* The dialog or the file picker is dismissed.
Dismiss(j) ==
    /\ ed.jobs[j].step \in {"confirm", "pick"}
    /\ ed' = Abandon(ed, j)
    /\ EditorOnly

Pick(j, path) ==
    /\ ed.jobs[j].step = "pick"
    /\ LET job == ed.jobs[j]
       IN  ed' = Send(ed, j, "write", path,
                      IF job.doc \in DOMAIN ed.docs THEN ed.docs[job.doc].content
                      ELSE job.content)
    /\ EditorOnly

-----------------------------------------------------------------------------
(* shfmt, the backend, the agent, and the answers.                          *)

\* shfmt returns: the text it was given, formatted, replaces the document's.
Formatted(j) ==
    /\ ed.jobs[j].step = "format"
    /\ LET job == ed.jobs[j]
           put == [ed EXCEPT !.docs = updateDocumentContent(@, job.doc, Tidied(job.content))]
       IN  ed' = IF job.kind = "format" \/ job.doc \notin DOMAIN ed.docs THEN Abandon(put, j)
                 ELSE Prepared(put, j)
    /\ EditorOnly

\* shfmt rejects the script: nothing is saved.
FormatFails(j) ==
    /\ ed.jobs[j].step = "format"
    /\ ed' = Abandon(ed, j)
    /\ EditorOnly

\* The agent or a replacement changes a file.
AgentWrites(path) ==
    /\ ed.alive
    /\ written < MaxWrites
    /\ written' = written + 1
    /\ disk' = [disk EXCEPT ![path] =
                   [edits |-> @.edits \cup {MaxEdits + written'}, tidy |-> FALSE]]
    /\ versions' = [versions EXCEPT ![path] = @ \cup {disk'[path]}]
    /\ UNCHANGED <<ed, typed, owed, exposed>>

\* Wrong on purpose: a dirty document is refreshed as well.
refreshDirtyDocumentsToo(j, path) ==
    /\ ed.alive /\ FreeJob(j)
    /\ \E id \in WithPath(ed.docs, path) :
          /\ \A other \in WithPath(ed.docs, path) : id <= other
          /\ ed' = Send([ed EXCEPT !.jobs[j] = [Started("refresh", "wait") EXCEPT !.doc = id]],
                        j, "load", path, Blank)
    /\ EditorOnly

\* For one changed path: the first tab that shows it is loaded again, unless dirty.
refreshSidecarChangedDocuments(j, path) ==
    /\ ed.alive /\ FreeJob(j)
    /\ \E id \in WithPath(ed.docs, path) :
          /\ \A other \in WithPath(ed.docs, path) : id <= other
          /\ ~ Dirty(ed.docs[id])
          /\ ed' = Send([ed EXCEPT !.jobs[j] = [Started("refresh", "wait") EXCEPT !.doc = id]],
                        j, "load", path, Blank)
    /\ EditorOnly

\* The backend takes the next call.  Job 0: nobody waits for the answer any more.
Performed(text) ==
    LET call == Head(ed.queue)
    IN  ed' = [ed EXCEPT !.queue = Tail(@),
                  !.jobs = IF call.job = 0 THEN @
                           ELSE [@ EXCEPT ![call.job].step = "answered",
                                          ![call.job].content = text]]

load_script ==
    /\ ed.queue # <<>> /\ Head(ed.queue).type = "load"
    /\ Performed(disk[Head(ed.queue).path])
    /\ EditorOnly

save_script ==
    /\ ed.queue # <<>> /\ Head(ed.queue).type = "write"
    /\ LET call == Head(ed.queue)
       IN  /\ Performed(call.content)
           /\ disk' = [disk EXCEPT ![call.path] = call.content]
           /\ versions' = [versions EXCEPT ![call.path] = @ \cup {call.content}]
           /\ owed' = owed \ call.content.edits
    /\ UNCHANGED <<typed, written, exposed>>

\* The backend reports an error; the operation ends.
CallFails ==
    /\ ed.queue # <<>>
    /\ LET j    == Head(ed.queue).job
           done == [ed EXCEPT !.queue = Tail(@)]
       IN  ed' = IF j = 0 THEN done ELSE Abandon(done, j)
    /\ EditorOnly

\* Wrong on purpose: the answer of a call that nobody waits for any more still comes.
CallTimesOutAnswered(j) ==
    /\ ed.jobs[j].step \in {"wait", "answered"}
    /\ ed' = Abandon(ed, j)
    /\ EditorOnly

\* The caller stops waiting; the backend still performs the call.
CallTimesOut(j) ==
    /\ ed.jobs[j].step \in {"wait", "answered"}
    /\ ed' = Abandon([ed EXCEPT !.queue = [k \in DOMAIN @ |->
                         IF @[k].job = j THEN [@[k] EXCEPT !.job = 0] ELSE @[k]]], j)
    /\ EditorOnly

\* Wrong on purpose: the quota is looked at when the file is chosen, not after the load.
OpenedUnchecked(s, j) ==
    openDocumentTab(Abandon(s, j), s.jobs[j].path, s.jobs[j].content, TRUE)

\* openTabAndNotify: path and quota are looked at after the load.
Opened(s, j) ==
    LET full == Cardinality(DOMAIN s.docs) >= MaxOpenTabs
    IN  IF full THEN Abandon(s, j)
        ELSE openDocumentTab(Abandon(s, j), s.jobs[j].path, s.jobs[j].content, TRUE)

Answered(j, kind) ==
    /\ ed.jobs[j].step = "answered" /\ ed.jobs[j].kind = kind
    /\ ed.created < MaxDocs \/ ed.jobs[j].doc \in DOMAIN ed.docs
    /\ EditorOnly

OpenAnswered(j) ==
    /\ Answered(j, "open")
    /\ ed' = Opened(ed, j)

RefreshAnswered(j) ==
    /\ Answered(j, "refresh")
    /\ LET job == ed.jobs[j]
       IN  ed' = Abandon(applyDocumentPayload(ed, job.doc, job.path, job.content), j)

SaveAnswered(j) ==
    /\ Answered(j, "save")
    /\ LET job == ed.jobs[j]
       IN  ed' = saveDirtyDocuments(applyDocumentPayload(ed, job.doc, job.path, job.content), j)

\* The window is not there or refuses to close: the editor stays as it is.
CloseFails(j) ==
    /\ ed.jobs[j].step = "flush"
    /\ ed' = Abandon(ed, j)
    /\ EditorOnly

\* The session is flushed, or the flush took too long: the window closes.
Closed(j) ==
    /\ ed.jobs[j].step = "flush"
    /\ ed' = [ed EXCEPT !.docs = <<>>, !.jobs = [k \in Job |-> Started("none", "done")],
                        !.queue = <<>>, !.alive = FALSE]
    /\ EditorOnly

-----------------------------------------------------------------------------
Init ==
    /\ disk = [p \in Path |-> [edits |-> {}, tidy |-> FALSE]]
    /\ versions = [p \in Path |-> {disk[p]}]
    /\ ed = [docs |-> <<>>, jobs |-> [j \in Job |-> Idle], queue |-> <<>>,
             created |-> 0, alive |-> TRUE]
    /\ typed = 0 /\ written = 0
    /\ owed = {} /\ exposed = {}

UserStep ==
    \/ createNewDocument
    \/ \E id \in DOMAIN ed.docs : Type(id)
    \/ \E j \in Job :
        \/ ConfirmSave(j) \/ ConfirmDiscard(j) \/ Dismiss(j)
        \/ \E p \in Path : openDocument(j, p) \/ Pick(j, p)
        \/ \E id \in DOMAIN ed.docs :
              formatDocument(j, id) \/ \E fmt \in BOOLEAN : Save(j, id, fmt)
        \/ \E after \in {"folder", "quit"}, fmt \in BOOLEAN : RequestClose(j, after, fmt)

SystemStep ==
    \/ load_script \/ save_script \/ CallFails
    \/ \E p \in Path : AgentWrites(p)
    \/ \E j \in Job :
        \/ Formatted(j) \/ FormatFails(j) \/ CallTimesOut(j)
        \/ OpenAnswered(j) \/ RefreshAnswered(j) \/ SaveAnswered(j)
        \/ CloseFails(j) \/ Closed(j)
        \/ \E p \in Path : refreshSidecarChangedDocuments(j, p)

Next == UserStep \/ SystemStep

Spec == Init /\ [][Next]_vars

-----------------------------------------------------------------------------
(* Properties.                                                              *)

Document == [path : Path \cup {NoPath}, content : Text, saved : Text,
             checked : BOOLEAN, savedAs : BOOLEAN]

JobRecord ==
    [kind : {"none", "save", "format", "open", "refresh", "close"},
     step : {"new", "done", "confirm", "format", "pick", "wait", "answered", "flush"},
     doc : Id \cup {0}, path : Path \cup {NoPath}, content : Text,
     fmt : BOOLEAN, again : BOOLEAN, todo : SUBSET Id, after : {"none", "folder", "quit"}]

\* Every variable has its type; a job that waits has exactly one call in the queue, and
\* no other job has one (persistTextDocument awaits each call it makes).
TypeOK ==
    /\ disk \in [Path -> Text]
    /\ ed.created \in 0 .. MaxDocs /\ ed.alive \in BOOLEAN
    /\ DOMAIN ed.docs \subseteq 1 .. ed.created
    /\ \A id \in DOMAIN ed.docs : ed.docs[id] \in Document
    /\ ed.jobs \in [Job -> JobRecord]
    /\ \A j \in Job : Cardinality({k \in DOMAIN ed.queue : ed.queue[k].job = j})
                        = IF ed.jobs[j].step = "wait" THEN 1 ELSE 0
    /\ typed \in 0 .. MaxEdits /\ written \in 0 .. MaxWrites
    /\ exposed \subseteq 1 .. typed /\ owed \subseteq 1 .. typed

\* Nothing the user typed is lost: unless the user gave it up or it is in a file, it is
\* in an open document.  The exception is text typed while an operation on its document
\* is under way: the answer (applyDocumentPayload, formatDocumentWithShfmt) or the
\* closing that follows it throws that text away.
EditsKept ==
    owed \ exposed \subseteq UNION {ed.docs[id].content.edits : id \in DOMAIN ed.docs}

\* A document counts as saved only with a text its file has really held: neither a call
\* that failed or timed out, nor text typed during the call, is taken for saved
\* (persistTextDocument, applyDocumentPayload).
CleanWasOnDisk ==
    \A id \in DOMAIN ed.docs :
        LET d == ed.docs[id] IN d.path # NoPath => d.saved \in versions[d.path]

\* Loads that are answered late do not break the limit on tabs: only a document that an
\* answer reopens after its folder was closed comes on top of it (ensureCanOpenNewTab,
\* openTabAndNotify).
TabsBounded ==
    LET Reopened == {id \in DOMAIN ed.docs : ~ ed.docs[id].checked}
    IN  Cardinality(DOMAIN ed.docs) <= MaxOpenTabs + Cardinality(Reopened)

\* Two loads of one file under way at once give one tab: two tabs show the same path
\* only if a new script was saved under it (findDocumentByPath in openDocumentTab).
OnePathOneTab ==
    \A a, b \in DOMAIN ed.docs :
        a # b /\ ed.docs[a].path = ed.docs[b].path /\ ed.docs[a].path # NoPath
            => ed.docs[a].savedAs \/ ed.docs[b].savedAs

\* What useAiAssistant.spec.ts says: when the agent has written the file of a dirty
\* document, the refresh does not overwrite what the document holds.
DirtyKeptByRefresh ==
    [][\A j \in Job : RefreshAnswered(j) =>
          \A id \in DOMAIN ed.docs :
              Dirty(ed.docs[id]) => ed'.docs[id].content = ed.docs[id].content]_vars
=============================================================================
