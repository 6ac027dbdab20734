----------------------------- MODULE Documents -----------------------------
(***************************************************************************)
(* Editing a project document in the browser: the autosave session of      *)
(* document-draft.ts, the view that owns the sessions (documents-view.tsx),*)
(* and the row they are saved to with a revision check (knowledge/).       *)
(*                                                                         *)
(* One document, one browser tab, and other writers (an agent's tool,      *)
(* another tab) that the tab does not see. A text is the set of the edits  *)
(* in it. Sessions are numbered in the order they are made. `drafts` is    *)
(* the module-level Map, `editor` the session of the mounted component.    *)
(* An answer is applied with everything that awaits it in one step: no     *)
(* event handler runs between the microtasks.                              *)
(***************************************************************************)
EXTENDS Naturals, FiniteSets

CONSTANTS
    DocEdits,       \* edits people type in this tab
    DocForeign,     \* edits of other writers
    MaxDrafts,      \* bound on the sessions made
    MaxLost         \* bound on requests or answers that are lost

ASSUME DocAssumption ==
    /\ MaxDrafts \in Nat /\ MaxLost \in Nat
    /\ DocEdits \cap DocForeign = {}

VARIABLES
    row,        \* project_document: [there, rev, text]
    draft,      \* the DocumentDraft objects, by number
    made,       \* how many there are
    drafts,     \* the Map's entry for this document, or NoDraft
    editor,     \* the draft of the mounted DocumentEditor, or NoDraft
    waiting,    \* what goes on when a draft's flush has resolved
    cache,      \* the query cache's copy of the document
    fetch,      \* a refetch of the list: the copy it will put in the cache
    reload,     \* the request of "Discard edits and reload"
    removal,    \* the DELETE request
    lost        \* requests and answers lost so far

docVars == <<row, draft, made, drafts, editor, waiting, cache, fetch,
             reload, removal, lost>>

DocTexts == SUBSET (DocEdits \union DocForeign)
Drafts == 1..MaxDrafts
NoDraft == 0
Copies == [rev : Nat, text : DocTexts]
NoCopy == [rev |-> 0, text |-> {}]     \* revisions of a row start at 1
Calls == {"none", "sent", "saved", "failed"}

(* saved: the last version the session knows of; value: what is shown;     *)
(* timer: an autosave is scheduled; call: the PUT under way, which sends   *)
(* `sent` and is answered by `answer`; leaving: a component that was       *)
(* unmounted waits for the flush; discarded: the user chose to reload.     *)
DraftType == [saved : Copies, value : DocTexts, error : BOOLEAN, timer : BOOLEAN,
              call : Calls, sent : Copies, answer : Copies,
              leaving : BOOLEAN, discarded : BOOLEAN]

DocTypeOK ==
    /\ row \in [there : BOOLEAN, rev : Nat, text : DocTexts]
    /\ draft \in [Drafts -> DraftType]
    /\ made \in 0..MaxDrafts
    /\ drafts \in 0..MaxDrafts
    /\ editor \in 0..MaxDrafts
    /\ waiting \in [what : {"nothing", "select", "delete"}, of : 0..MaxDrafts]
    /\ cache \in Copies
    /\ fetch \in [on : BOOLEAN, copy : Copies]
    /\ reload \in [on : {"no", "asked", "answered"}, copy : Copies,
                   of : 0..MaxDrafts, here : BOOLEAN]
    /\ removal \in [on : {"no", "asked", "done"}, basis : Copies]
    /\ lost \in 0..MaxLost

-----------------------------------------------------------------------------
(* The session: document-draft.ts *)

NewDraft(copy) ==
    [saved |-> copy, value |-> copy.text, error |-> FALSE, timer |-> FALSE,
     call |-> "none", sent |-> NoCopy, answer |-> NoCopy,
     leaving |-> FALSE, discarded |-> FALSE]

Dirty(d) == d.value # d.saved.text

Request(d) == [d EXCEPT !.call = "sent", !.sent = [rev |-> d.saved.rev, text |-> d.value]]

(* edit: an autosave is scheduled unless an error waits for the user. *)
Edited(d, text) ==
    [d EXCEPT !.value = text, !.timer = text # d.saved.text /\ ~d.error]

(* flush: join the save under way, or start one if there is anything to save. *)
Flushed(d) ==
    LET quiet == [d EXCEPT !.timer = FALSE]
    IN IF d.call # "none" \/ ~Dirty(d) THEN quiet
       ELSE Request([quiet EXCEPT !.error = FALSE])

(* flush resolves at once, with true, when there is nothing to save. *)
Settled(d) == d.call = "none" /\ ~Dirty(d)

(* variant: the edits made in the meantime wait for the next key press *)
DrainedOnce(d) ==
    [d EXCEPT !.saved = d.answer, !.answer = NoCopy, !.call = "none", !.sent = NoCopy]

(* drain, when a save has succeeded: the revision advances, the edits made *)
(* in the meantime stay, and are saved next if there are any.              *)
Drained(d) ==
    LET known == [d EXCEPT !.saved = d.answer, !.answer = NoCopy]
    IN IF Dirty(known) THEN Request(known) ELSE [known EXCEPT !.call = "none", !.sent = NoCopy]

(* drain, when it has failed. *)
Failed(d) == [d EXCEPT !.error = TRUE, !.call = "none", !.sent = NoCopy]

-----------------------------------------------------------------------------
(* The view: documents-view.tsx *)

Nothing == [what |-> "nothing", of |-> NoDraft]
NoReload == [on |-> "no", copy |-> NoCopy, of |-> NoDraft, here |-> FALSE]
NoRemoval == [on |-> "no", basis |-> NoCopy]

DocInit ==
    /\ row = [there |-> TRUE, rev |-> 1, text |-> {}]
    /\ draft = [i \in Drafts |-> NewDraft(NoCopy)]
    /\ made = 0
    /\ drafts = NoDraft
    /\ editor = NoDraft
    /\ waiting = Nothing
    /\ cache = [rev |-> 1, text |-> {}]
    /\ fetch = [on |-> FALSE, copy |-> NoCopy]
    /\ reload = NoReload
    /\ removal = NoRemoval
    /\ lost = 0

(* The editor is mounted: the session in the Map is resumed, else a new one *)
(* starts from the cached document. The effect puts it (back) in the Map.   *)
Mount ==
    /\ editor = NoDraft
    /\ cache # NoCopy
    /\ \/ /\ drafts # NoDraft
          /\ editor' = drafts
          /\ UNCHANGED <<draft, made, drafts>>
       \/ /\ drafts = NoDraft
          /\ made < MaxDrafts
          /\ made' = made + 1
          /\ draft' = [draft EXCEPT ![made'] = NewDraft(cache)]
          /\ drafts' = made'
          /\ editor' = made'
    /\ UNCHANGED <<row, waiting, cache, fetch, reload, removal, lost>>

(* The editor is unmounted. Its cleanup flushes, and forgets a session that *)
(* has nothing left to save. A selection that waited has nobody to tell.    *)
Unmount ==
    LET d == draft[editor]
    IN
    /\ draft' = [draft EXCEPT ![editor] = [Flushed(d) EXCEPT !.leaving = ~Settled(d)]]
    /\ drafts' = IF Settled(d) /\ drafts = editor THEN NoDraft ELSE drafts
    /\ editor' = NoDraft
    /\ reload' = [reload EXCEPT !.here = FALSE]
    /\ waiting' = IF waiting.what = "select" THEN Nothing ELSE waiting

Leave ==
    /\ editor # NoDraft
    /\ Unmount
    /\ UNCHANGED <<row, made, cache, fetch, removal, lost>>

Type ==
    /\ editor # NoDraft
    /\ \E e \in DocEdits :
          /\ e \notin row.text
          /\ \A i \in Drafts : e \notin draft[i].value
          /\ draft' = [draft EXCEPT ![editor] = Edited(@, @.value \union {e})]
    /\ UNCHANGED <<row, made, drafts, editor, waiting, cache, fetch, reload, removal, lost>>

(* The user takes back everything since the last save, between two saves. *)
Undo ==
    /\ editor # NoDraft
    /\ Dirty(draft[editor]) /\ draft[editor].call = "none"
    /\ draft' = [draft EXCEPT ![editor] = Edited(@, @.saved.text)]
    /\ UNCHANGED <<row, made, drafts, editor, waiting, cache, fetch, reload, removal, lost>>

(* The timer of a session fires; the session need not be mounted any more. *)
Autosave(i) ==
    /\ draft[i].timer
    /\ draft' = [draft EXCEPT ![i] = Flushed(@)]
    /\ UNCHANGED <<row, made, drafts, editor, waiting, cache, fetch, reload, removal, lost>>

(* The title loses the focus, or the user asks to retry after an error. *)
BlurOrRetry ==
    /\ editor # NoDraft
    /\ draft' = [draft EXCEPT ![editor] = Flushed(@)]
    /\ draft' # draft
    /\ UNCHANGED <<row, made, drafts, editor, waiting, cache, fetch, reload, removal, lost>>

(* Another document is selected, created or uploaded: the editor is left   *)
(* when its flush has resolved with true, and stays when it has failed.    *)
Select ==
    /\ editor # NoDraft
    /\ waiting = Nothing
    /\ IF Settled(draft[editor])
       THEN Unmount
       ELSE /\ draft' = [draft EXCEPT ![editor] = Flushed(@)]
            /\ waiting' = [what |-> "select", of |-> editor]
            /\ UNCHANGED <<editor, drafts, reload>>
    /\ UNCHANGED <<row, made, cache, fetch, removal, lost>>

-----------------------------------------------------------------------------
(* The store: knowledge/documents.go. PUT, its row, and its answer *)

(* What a read of the row returns. *)
Stored == IF row.there THEN [rev |-> row.rev, text |-> row.text] ELSE NoCopy

(* variant: the row is looked up by its id alone *)
AcceptsAny(rev) == row.there

(* UpdateDocument: the revision is part of the WHERE. *)
Accepts(rev) == row.there /\ row.rev = rev

Put(i) ==
    /\ draft[i].call = "sent"
    /\ IF Accepts(draft[i].sent.rev)
       THEN LET new == [rev |-> row.rev + 1, text |-> draft[i].sent.text]
            IN /\ row' = [row EXCEPT !.rev = new.rev, !.text = new.text]
               /\ draft' = [draft EXCEPT ![i].call = "saved", ![i].answer = new]
       ELSE /\ draft' = [draft EXCEPT ![i].call = "failed"]
            /\ UNCHANGED row
    /\ UNCHANGED <<made, drafts, editor, waiting, cache, fetch, reload, removal, lost>>

(* The request does not arrive, or its answer does not. *)
Lose(i) ==
    /\ lost < MaxLost
    /\ draft[i].call \in {"sent", "saved"}
    /\ lost' = lost + 1
    /\ draft' = [draft EXCEPT ![i].call = "failed", ![i].answer = NoCopy]
    /\ UNCHANGED <<row, made, drafts, editor, waiting, cache, fetch, reload, removal>>

(* The session's save has succeeded. If that resolves its flush, whoever   *)
(* left forgets the session, and what waited for it goes on.               *)
Saved(i) ==
    LET d == Drained(draft[i])
        resolved == d.call = "none"
        goesOn == resolved /\ waiting.of = i
        forget == d.leaving \/ (goesOn /\ waiting.what = "select")
    IN
    /\ draft[i].call = "saved"
    /\ cache' = IF cache = NoCopy THEN cache ELSE draft[i].answer
    /\ draft' = [draft EXCEPT ![i] = [d EXCEPT !.leaving = @ /\ ~resolved]]
    /\ drafts' = IF resolved /\ forget /\ drafts = i THEN NoDraft ELSE drafts
    /\ editor' = IF goesOn /\ waiting.what = "select" THEN NoDraft ELSE editor
    /\ reload' = [reload EXCEPT !.here = @ /\ editor' # NoDraft]
    /\ removal' = IF goesOn /\ waiting.what = "delete"
                  THEN [on |-> "asked", basis |-> d.saved] ELSE removal
    /\ waiting' = IF goesOn THEN Nothing ELSE waiting
    /\ UNCHANGED <<row, made, fetch, lost>>

SaveFailed(i) ==
    /\ draft[i].call = "failed"
    /\ draft' = [draft EXCEPT ![i] = [Failed(@) EXCEPT !.leaving = FALSE]]
    /\ waiting' = IF waiting.of = i THEN Nothing ELSE waiting
    /\ UNCHANGED <<row, made, drafts, editor, cache, fetch, reload, removal, lost>>

-----------------------------------------------------------------------------
(* Reload and delete *)

(* The dialog is offered while an error is shown. *)
AskReload ==
    /\ editor # NoDraft
    /\ draft[editor].error
    /\ reload.on = "no"
    /\ reload' = [on |-> "asked", copy |-> NoCopy, of |-> editor, here |-> TRUE]
    /\ UNCHANGED <<row, draft, made, drafts, editor, waiting, cache, fetch, removal, lost>>

GetDocument ==
    /\ reload.on = "asked"
    /\ reload' = IF row.there
                 THEN [reload EXCEPT !.on = "answered", !.copy = Stored]
                 ELSE NoReload
    /\ UNCHANGED <<row, draft, made, drafts, editor, waiting, cache, fetch, removal, lost>>

(* The session is forgotten without a flush. If the editor that asked is    *)
(* still there, it is replaced by a new one.                                *)
Reload ==
    /\ reload.on = "answered"
    /\ reload' = NoReload
    /\ cache' = IF cache = NoCopy THEN cache ELSE reload.copy
    /\ IF reload.here
       THEN /\ made < MaxDrafts
            /\ made' = made + 1
            /\ draft' = [draft EXCEPT ![reload.of].discarded = TRUE,
                                      ![made'] = NewDraft(cache')]
            /\ drafts' = made'
            /\ editor' = made'
            /\ waiting' = IF waiting.what = "select" THEN Nothing ELSE waiting
       ELSE /\ draft' = [draft EXCEPT ![reload.of].discarded = TRUE]
            /\ drafts' = NoDraft
            /\ UNCHANGED <<made, editor, waiting>>
    /\ UNCHANGED <<row, fetch, removal, lost>>

Delete ==
    /\ editor # NoDraft
    /\ waiting = Nothing /\ removal.on = "no"
    /\ IF Settled(draft[editor])
       THEN /\ removal' = [on |-> "asked", basis |-> draft[editor].saved]
            /\ draft' = [draft EXCEPT ![editor] = Flushed(@)]
            /\ UNCHANGED waiting
       ELSE /\ draft' = [draft EXCEPT ![editor] = Flushed(@)]
            /\ waiting' = [what |-> "delete", of |-> editor]
            /\ UNCHANGED removal
    /\ UNCHANGED <<row, made, drafts, editor, cache, fetch, reload, lost>>

(* DeleteDocument: the revision is part of the WHERE here as well. *)
DeleteRow ==
    /\ removal.on = "asked"
    /\ IF Accepts(removal.basis.rev)
       THEN /\ row' = [row EXCEPT !.there = FALSE]
            /\ removal' = [removal EXCEPT !.on = "done"]
       ELSE /\ removal' = NoRemoval
            /\ UNCHANGED row
    /\ UNCHANGED <<draft, made, drafts, editor, waiting, cache, fetch, reload, lost>>

Deleted ==
    /\ removal.on = "done"
    /\ removal' = NoRemoval
    /\ cache' = NoCopy
    /\ drafts' = NoDraft
    /\ editor' = NoDraft
    /\ waiting' = Nothing
    /\ reload' = [reload EXCEPT !.here = FALSE]
    /\ draft' = IF editor = NoDraft THEN draft
                ELSE [draft EXCEPT ![editor] = Flushed(@)]
    /\ UNCHANGED <<row, made, fetch, lost>>

-----------------------------------------------------------------------------
(* Other writers, and the list query *)

(* Another client that read the row saves it, with the same check. *)
ForeignWrite ==
    /\ row.there
    /\ \E e \in DocForeign \ row.text :
          row' = [row EXCEPT !.rev = @ + 1, !.text = @ \union {e}]
    /\ UNCHANGED <<draft, made, drafts, editor, waiting, cache, fetch, reload, removal, lost>>

Refetch ==
    /\ ~fetch.on
    /\ cache # NoCopy
    /\ cache # Stored
    /\ fetch' = [on |-> TRUE, copy |-> Stored]
    /\ UNCHANGED <<row, draft, made, drafts, editor, waiting, cache, reload, removal, lost>>

(* Without its document in the list the view shows no editor. *)
Refetched ==
    /\ fetch.on
    /\ cache' = fetch.copy
    /\ fetch' = [on |-> FALSE, copy |-> NoCopy]
    /\ IF cache' = NoCopy /\ editor # NoDraft
       THEN Unmount
       ELSE UNCHANGED <<draft, drafts, editor, waiting, reload>>
    /\ UNCHANGED <<row, made, removal, lost>>

DocNext ==
    \/ Mount \/ Leave \/ Type \/ Undo \/ BlurOrRetry \/ Select
    \/ \E i \in Drafts : Autosave(i) \/ Put(i) \/ Lose(i) \/ Saved(i) \/ SaveFailed(i)
    \/ AskReload \/ GetDocument \/ Reload
    \/ Delete \/ DeleteRow \/ Deleted
    \/ ForeignWrite \/ Refetch \/ Refetched

DocSpec == DocInit /\ [][DocNext]_docVars

-----------------------------------------------------------------------------
(* Properties *)

(* The store keeps every edit it has accepted, whoever wrote it, and loses  *)
(* the document only to a user who has seen all of it: the revisions that   *)
(* the sessions carry through retries, reloads and stale caches implement   *)
(* a shared text.                                                           *)
Shared == INSTANCE SharedText WITH
    Edits <- DocEdits \union DocForeign,
    kept  <- Stored.text,
    shown <- IF row.there /\ removal.on = "asked" THEN removal.basis.text ELSE {},
    gone  <- ~row.there

DocImplementsShared == Shared!Spec

(* What is typed does not wait for nothing: in the mounted editor, unsaved  *)
(* edits have a save under way or scheduled, or an error the user can see.  *)
AutosaveIsArmed ==
    editor # NoDraft /\ Dirty(draft[editor]) =>
        draft[editor].timer \/ draft[editor].call # "none" \/ draft[editor].error

(* "Retain unsaved edits across tab/route navigation, including failed      *)
(* requests" (documents-view.tsx): while the document exists, a session     *)
(* with unsaved edits the user did not discard can be reached again.        *)
UnsavedEditsAreRetained ==
    row.there => \A i \in Drafts :
        Dirty(draft[i]) /\ ~draft[i].discarded =>
            i \in {drafts, editor} \/ draft[i].call # "none"
=============================================================================
