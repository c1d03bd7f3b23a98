---------------------------- MODULE WorkflowSave ----------------------------
(***************************************************************************)
(* Workflows edited in several browsers at once: the conditional update of *)
(* save_workflow (storage.py, main.py) and one browser's document, which   *)
(* is edited, saved, loaded and replaced while answers are under way       *)
(* (workflow-editor.tsx); the other browsers save at any time.  The stored *)
(* times are the clocks of the API workers, which may be equal or go back. *)
(***************************************************************************)
EXTENDS Integers, Sequences, SequencesExt

CONSTANTS
  Contents,      \* what a document may contain
  Clock,         \* bounds the clocks
  MaxWorkflows,  \* bounds the stored workflows
  MaxVersions    \* bounds what is saved of all of them

VARIABLES
  docs,    \* workflows: per id its versions, the last one is the row
  editor   \* the browser's document, and its save, load and conflict

vars == <<docs, editor>>

NoId == 0
NoBasis == [id |-> NoId, n |-> 0]
Ids == DOMAIN docs
Row(id) == Last(docs[id])
Versions == FoldLeft(LAMBDA n, history : n + Len(history), 0, docs)
Place(id) == [id |-> id, n |-> Len(docs[id])]

\* A document with the version it comes from: its stamp, as the code knows it,
\* and its place in the history (basis, for the properties).
Doc(id, content, stamp, basis) == [id |-> id, content |-> content, stamp |-> stamp, basis |-> basis]
NoDoc == Doc(NoId, 0, 0, NoBasis)
Stored(id) == Doc(id, Row(id).content, Row(id).stamp, Place(id))

NoSave == [at |-> "none", doc |-> NoDoc, same |-> FALSE, answer |-> NoDoc]

Init ==
  /\ docs = <<>>
  /\ editor = [doc |-> NoDoc, dirty |-> TRUE, save |-> NoSave,
               loading |-> NoId, load |-> NoDoc, conflict |-> NoDoc]

-----------------------------------------------------------------------------
\* now() of the worker that serves the request.
Now == 0 .. Clock

\* A new version is stamped later than the one it replaces, whatever the clock.
Stamp(now, expected) == IF now <= expected THEN expected + 1 ELSE now

\* PUT: the row is replaced if it is still the one the client has seen;
\* otherwise the answer is the row as it is now.
Put ==
  LET sent == editor.save.doc IN
  /\ editor.save.at = "sent" /\ sent.id # NoId
  /\ IF Row(sent.id).stamp = sent.stamp
     THEN /\ Versions < MaxVersions
          /\ \E now \in Now :
               LET stamp == Stamp(now, sent.stamp)
               IN  /\ docs' = [docs EXCEPT ![sent.id] = Append(@,
                        [content |-> sent.content, stamp |-> stamp, basis |-> sent.basis])]
                   /\ editor' = [editor EXCEPT !.save.at = "saved", !.save.answer =
                        Doc(sent.id, sent.content, stamp, [id |-> sent.id, n |-> Len(docs[sent.id]) + 1])]
     ELSE /\ editor' = [editor EXCEPT !.save.at = "conflict", !.save.answer = Stored(sent.id)]
          /\ UNCHANGED docs

\* POST: a new workflow.
Post ==
  LET sent == editor.save.doc IN
  /\ editor.save.at = "sent" /\ sent.id = NoId /\ Len(docs) < MaxWorkflows /\ Versions < MaxVersions
  /\ \E now \in Now :
       /\ docs' = Append(docs, <<[content |-> sent.content, stamp |-> now, basis |-> NoBasis]>>)
       /\ editor' = [editor EXCEPT !.save.at = "saved", !.save.answer =
            Doc(Len(docs) + 1, sent.content, now, [id |-> Len(docs) + 1, n |-> 1])]

\* A save of another browser that is accepted: nothing came between its load
\* and its update.
Elsewhere ==
  \E id \in Ids, content \in Contents, now \in Now :
    /\ Versions < MaxVersions
    /\ docs' = [docs EXCEPT ![id] = Append(@,
         [content |-> content, stamp |-> Stamp(now, Row(id).stamp), basis |-> Place(id)])]
    /\ UNCHANGED editor

-----------------------------------------------------------------------------
\* An edit, undo and redo included.
Edit ==
  /\ \E content \in Contents \ {editor.doc.content} :
       editor' = [editor EXCEPT !.doc.content = content, !.dirty = TRUE]
  /\ UNCHANGED docs

\* Save sends a snapshot with the version last seen; the button is disabled until then.
Save ==
  /\ editor.save.at = "none"
  /\ editor' = [editor EXCEPT !.save = [NoSave EXCEPT !.at = "sent", !.doc = editor.doc, !.same = TRUE]]
  /\ UNCHANGED docs

\* saveCompletion: the document was not replaced since the save began.
SameDocument == editor.save.same

\* What the document comes from: a document that replaced it came from elsewhere.
Origin == IF editor.save.same THEN editor.save.answer.basis ELSE editor.doc.basis

\* The answer of a successful save; edits made since are still unsaved.
Saved ==
  LET answer == editor.save.answer IN
  /\ editor.save.at = "saved"
  /\ editor' = IF SameDocument
       THEN [editor EXCEPT !.doc = Doc(answer.id, editor.doc.content, answer.stamp, Origin),
                           !.dirty = editor.doc.content # answer.content,
                           !.save = NoSave, !.conflict = NoDoc]
       ELSE [editor EXCEPT !.save = NoSave]
  /\ UNCHANGED docs

\* 409: the local edits stay, the stored version is offered.
Conflicted ==
  /\ editor.save.at = "conflict"
  /\ editor' = [editor EXCEPT !.save = NoSave,
                  !.conflict = IF editor.save.same THEN editor.save.answer ELSE @]
  /\ UNCHANGED docs

\* The answer, or the request itself, is lost.
SaveLost ==
  /\ editor.save.at # "none"
  /\ editor' = [editor EXCEPT !.save = NoSave]
  /\ UNCHANGED docs

\* loadDocument: what is open is replaced, whatever is under way for it.
Replace(record, doc) ==
  [record EXCEPT !.doc = doc, !.dirty = (doc.id = NoId), !.conflict = NoDoc, !.save.same = FALSE]

\* load: a workflow is asked for, edits confirmed to be discarded; the answer is
\* the row when it is read, and the document is replaced when it arrives.
Load ==
  /\ editor.loading = NoId
  /\ \E id \in Ids : editor' = [editor EXCEPT !.loading = id]
  /\ UNCHANGED docs

ReadWorkflow ==
  /\ editor.loading # NoId /\ editor.load = NoDoc
  /\ editor' = [editor EXCEPT !.load = Stored(editor.loading)]
  /\ UNCHANGED docs

Loaded ==
  /\ editor.load # NoDoc
  /\ editor' = [Replace(editor, editor.load) EXCEPT !.loading = NoId, !.load = NoDoc]
  /\ UNCHANGED docs

\* Reload server version, in the conflict dialog.
Reload ==
  /\ editor.conflict # NoDoc
  /\ editor' = Replace(editor, editor.conflict)
  /\ UNCHANGED docs

\* Keep editing.
Dismiss ==
  /\ editor.conflict # NoDoc
  /\ editor' = [editor EXCEPT !.conflict = NoDoc]
  /\ UNCHANGED docs

\* A draft, a template or an imported file.
Draft ==
  /\ \E content \in Contents :
       editor' = Replace(editor, [NoDoc EXCEPT !.content = content])
  /\ UNCHANGED docs

Next ==
  \/ Put \/ Post \/ Elsewhere
  \/ Edit \/ Save \/ Saved \/ Conflicted \/ SaveLost
  \/ Load \/ ReadWorkflow \/ Loaded \/ Reload \/ Dismiss \/ Draft

Spec == Init /\ [][Next]_vars

-----------------------------------------------------------------------------
\* Nobody's save is overwritten unseen: a stored version was made from the one
\* it replaces, although a save or a load may be answered after the document was
\* replaced, an answer may be lost, and two versions may be saved at the same
\* time by the clock; and what an editor does not show as unsaved is a version
\* of its workflow as it was stored (save_workflow, save, README.md:300).
SavedFromSeen ==
  /\ \A id \in Ids : \A n \in 2 .. Len(docs[id]) : docs[id][n].basis = [id |-> id, n |-> n - 1]
  /\ ~editor.dirty =>
       /\ editor.doc.id \in Ids /\ editor.doc.basis.n \in DOMAIN docs[editor.doc.id]
       /\ docs[editor.doc.id][editor.doc.basis.n].content = editor.doc.content
=============================================================================
