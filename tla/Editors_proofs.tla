--------------------------- MODULE Editors_proofs ---------------------------
(***************************************************************************)
(* Theorems about the two editors that share a text with other writers.    *)
(* Documents: for any number of edits, other writers, sessions and lost    *)
(* requests, every copy of the document is an old or the present one,      *)
(* which makes the editor an implementation of SharedText. TaskText: for   *)
(* any number of edits, agents' writes, visits and lost requests, what the *)
(* tab knows of a description, what it saves and what it shows contain one *)
(* another for a view that was opened at rest; what was typed in the       *)
(* drawer is saved or reported, for any view.                              *)
(***************************************************************************)
EXTENDS Documents, TaskText, TLAPS

-----------------------------------------------------------------------------
(* Documents: the inductive invariant. *)

\* A copy is what the row was at the copy's revision, and the text only grows.
Copied(c) ==
    /\ c.rev <= row.rev
    /\ c.text \subseteq row.text
    /\ c.rev = row.rev => c.text = row.text

\* Unsaved edits of a session are on their way, scheduled, or shown as an error.
Armed(d) == Dirty(d) => d.timer \/ d.call # "none" \/ d.error

\* What a session shows contains what it has saved and what it is saving; a
\* save under way started from the last version the session knows of.
SessionInv(d) ==
    /\ Copied(d.saved) /\ Copied(d.answer)
    /\ d.saved.text \subseteq d.value
    /\ d.call # "none" => d.sent.text \subseteq d.value
    /\ d.call = "sent" => d.sent.rev = d.saved.rev /\ d.saved.text \subseteq d.sent.text
    /\ d.call = "saved" => d.answer.text = d.sent.text
    /\ Armed(d)

DInv ==
    /\ DocTypeOK
    /\ row.rev > 0
    /\ \A i \in Drafts : SessionInv(draft[i])
    /\ Copied(cache) /\ Copied(fetch.copy) /\ Copied(reload.copy) /\ Copied(removal.basis)

-----------------------------------------------------------------------------
(* The operations of a session *)

\* No copy is a copy.
LEMMA NoCopyCopied == ASSUME row.rev \in Nat, row.rev > 0
                      PROVE NoCopy \in Copies /\ Copied(NoCopy)
BY DEF NoCopy, Copied, Copies, DocTexts

\* A new session of a copy has nothing to save.
LEMMA NewSession ==
  ASSUME NEW c \in Copies, Copied(c), row.rev \in Nat, row.rev > 0
  PROVE  NewDraft(c) \in DraftType /\ SessionInv(NewDraft(c))
<1>1. NoCopy \in Copies /\ Copied(NoCopy) /\ c.text \in DocTexts
  BY NoCopyCopied DEF Copies
<1>2. NewDraft(c) \in DraftType
  BY <1>1 DEF NewDraft, DraftType, Calls
<1>3. SessionInv(NewDraft(c))
  BY <1>1 DEF NewDraft, SessionInv, Armed, Dirty
<1>4. QED
  BY <1>2, <1>3

\* flush keeps the session's invariant.
LEMMA FlushedSession ==
  ASSUME NEW d \in DraftType, SessionInv(d)
  PROVE  Flushed(d) \in DraftType /\ SessionInv(Flushed(d))
<1> DEFINE quiet == [d EXCEPT !.timer = FALSE]
           sent == [rev |-> d.saved.rev, text |-> d.value]
<1>1. CASE d.call # "none" \/ ~Dirty(d)
  <2>1. Flushed(d) = quiet
    BY <1>1 DEF Flushed
  <2>2. quiet \in DraftType
    BY DEF DraftType
  <2>3. SessionInv(quiet)
    BY <1>1 DEF SessionInv, DraftType, Armed, Dirty
  <2>4. QED
    BY <2>1, <2>2, <2>3
<1>2. CASE ~(d.call # "none" \/ ~Dirty(d))
  <2> DEFINE new == [d EXCEPT !.timer = FALSE, !.error = FALSE, !.call = "sent", !.sent = sent]
  <2>1. Flushed(d) = new
    BY <1>2 DEF Flushed, Request, DraftType
  <2>2. sent \in Copies
    BY DEF Copies, DraftType
  <2>3. new \in DraftType
    BY <2>2 DEF DraftType, Calls
  <2>4. SessionInv(new)
    BY <1>2 DEF SessionInv, DraftType, Armed, Dirty
  <2>5. QED
    BY <2>1, <2>3, <2>4
<1>3. QED
  BY <1>1, <1>2

\* edit keeps it when the text grows, or goes back to what is saved.
LEMMA EditedSession ==
  ASSUME NEW d \in DraftType, SessionInv(d), NEW text \in DocTexts,
         d.value \subseteq text \/ (d.call = "none" /\ text = d.saved.text)
  PROVE  Edited(d, text) \in DraftType /\ SessionInv(Edited(d, text))
<1>1. Edited(d, text) \in DraftType
  BY DEF Edited, DraftType
<1>2. SessionInv(Edited(d, text))
  BY DEF Edited, SessionInv, DraftType, Armed, Dirty
<1>3. QED
  BY <1>1, <1>2

\* drain keeps it, whether the save has succeeded or failed.
LEMMA DrainedSession ==
  ASSUME NEW d \in DraftType, SessionInv(d), d.call = "saved",
         row.rev \in Nat, row.rev > 0
  PROVE  Drained(d) \in DraftType /\ SessionInv(Drained(d)) /\ Drained(d).saved = d.answer
<1> DEFINE known == [d EXCEPT !.saved = d.answer, !.answer = NoCopy]
           sent == [rev |-> d.answer.rev, text |-> d.value]
<1>1. NoCopy \in Copies /\ Copied(NoCopy)
  BY NoCopyCopied
<1>2. /\ known.saved = d.answer /\ known.value = d.value
      /\ d.answer.text \subseteq d.value
  BY DEF DraftType, SessionInv
<1>3. CASE Dirty(known)
  <2> DEFINE new == [d EXCEPT !.saved = d.answer, !.answer = NoCopy,
                              !.call = "sent", !.sent = sent]
  <2>1. Drained(d) = new
    BY <1>2, <1>3 DEF Drained, Request, DraftType
  <2>2. sent \in Copies
    BY DEF Copies, DraftType
  <2>3. new \in DraftType
    BY <1>1, <2>2 DEF DraftType, Calls
  <2>4. SessionInv(new)
    BY <1>1, <1>2 DEF SessionInv, DraftType, Armed, Dirty
  <2>5. QED
    BY <2>1, <2>3, <2>4 DEF DraftType
<1>4. CASE ~Dirty(known)
  <2> DEFINE new == [d EXCEPT !.saved = d.answer, !.answer = NoCopy,
                              !.call = "none", !.sent = NoCopy]
  <2>1. Drained(d) = new
    BY <1>4 DEF Drained, DraftType
  <2>2. new \in DraftType
    BY <1>1 DEF DraftType, Calls
  <2>3. SessionInv(new)
    BY <1>1, <1>2, <1>4 DEF SessionInv, DraftType, Armed, Dirty
  <2>4. QED
    BY <2>1, <2>2, <2>3 DEF DraftType
<1>5. QED
  BY <1>3, <1>4

\* A save that has failed leaves its edits unsaved, and an error to be seen.
LEMMA FailedSession ==
  ASSUME NEW d \in DraftType, SessionInv(d), row.rev \in Nat, row.rev > 0
  PROVE  Failed(d) \in DraftType /\ SessionInv(Failed(d))
<1>1. NoCopy \in Copies
  BY NoCopyCopied
<1>2. Failed(d) \in DraftType
  BY <1>1 DEF Failed, DraftType, Calls
<1>3. SessionInv(Failed(d))
  BY DEF Failed, SessionInv, DraftType, Armed, Dirty
<1>4. QED
  BY <1>2, <1>3

\* The flags of a session that has been left, or given up, are no part of it.
LEMMA FlaggedSession ==
  ASSUME NEW d \in DraftType, SessionInv(d), NEW b \in BOOLEAN
  PROVE  /\ [d EXCEPT !.leaving = b] \in DraftType /\ SessionInv([d EXCEPT !.leaving = b])
         /\ [d EXCEPT !.discarded = b] \in DraftType /\ SessionInv([d EXCEPT !.discarded = b])
<1>1. [d EXCEPT !.leaving = b] \in DraftType /\ [d EXCEPT !.discarded = b] \in DraftType
  BY DEF DraftType
<1>2. SessionInv([d EXCEPT !.leaving = b]) /\ SessionInv([d EXCEPT !.discarded = b])
  BY DEF SessionInv, DraftType, Armed, Dirty
<1>3. QED
  BY <1>1, <1>2

-----------------------------------------------------------------------------
(* The steps *)

\* The parts of the invariant that are not about sessions.
Frame ==
    /\ row \in [there : BOOLEAN, rev : Nat, text : DocTexts] /\ row.rev > 0
    /\ made \in 0..MaxDrafts /\ drafts \in 0..MaxDrafts /\ editor \in 0..MaxDrafts
    /\ waiting \in [what : {"nothing", "select", "delete"}, of : 0..MaxDrafts]
    /\ lost \in 0..MaxLost

Held ==
    /\ cache \in Copies /\ Copied(cache)
    /\ fetch \in [on : BOOLEAN, copy : Copies] /\ Copied(fetch.copy)
    /\ reload \in [on : {"no", "asked", "answered"}, copy : Copies,
                   of : 0..MaxDrafts, here : BOOLEAN] /\ Copied(reload.copy)
    /\ removal \in [on : {"no", "asked", "done"}, basis : Copies] /\ Copied(removal.basis)

\* The sessions, as a conjunct of their own.
Sessions == draft \in [Drafts -> DraftType] /\ \A i \in Drafts : SessionInv(draft[i])

\* Sessions keep their invariant while neither they nor the row's text changes,
LEMMA SessionsStay ==
  ASSUME Sessions, row'.rev = row.rev, row'.text = row.text, UNCHANGED draft
  PROVE  Sessions'
BY DEF Sessions, SessionInv, Copied, Armed, Dirty

\* one of them may become another session that has it,
LEMMA SessionStep ==
  ASSUME Sessions, row'.rev = row.rev, row'.text = row.text,
         NEW i \in Drafts, NEW d \in DraftType, SessionInv(d),
         draft' = [draft EXCEPT ![i] = d]
  PROVE  Sessions'
<1>1. draft' \in [Drafts -> DraftType]
  BY DEF Sessions
<1>2. ASSUME NEW j \in Drafts PROVE SessionInv(draft[j])'
  <2>1. SessionInv(draft'[j])
    BY DEF Sessions
  <2>2. QED
    BY <2>1 DEF SessionInv, Copied, Armed, Dirty
<1>3. QED
  BY <1>1, <1>2 DEF Sessions

\* and a copy stays a copy.
LEMMA CopiesStay ==
  ASSUME row'.rev = row.rev, row'.text = row.text, NEW c, Copied(c)
  PROVE  Copied(c)'
BY DEF Copied

\* A row that takes a new revision of a larger text leaves every copy a copy.
LEMMA CopyGrows ==
  ASSUME row.rev \in Nat, row'.rev = row.rev + 1, row.text \subseteq row'.text,
         NEW c \in Copies, Copied(c)
  PROVE  c.rev <= row'.rev /\ c.text \subseteq row'.text /\ c.rev # row'.rev
<1>1. c.rev \in Nat /\ c.rev <= row.rev /\ c.text \subseteq row.text
  BY DEF Copies, Copied
<1>2. QED
  BY <1>1

\* So every session keeps its invariant when somebody else writes,
LEMMA SessionsGrow ==
  ASSUME Sessions, row.rev \in Nat, row'.rev = row.rev + 1, row.text \subseteq row'.text,
         UNCHANGED draft
  PROVE  Sessions'
<1>1. ASSUME NEW j \in Drafts PROVE SessionInv(draft[j])'
  <2>1. draft'[j] = draft[j] /\ SessionInv(draft[j]) /\ draft[j] \in DraftType
    BY DEF Sessions
  <2>2. draft[j].saved \in Copies /\ draft[j].answer \in Copies
    BY <2>1 DEF DraftType
  <2>3. Copied(draft[j].saved)' /\ Copied(draft[j].answer)'
    BY <2>1, <2>2, CopyGrows DEF SessionInv, Copied
  <2>4. QED
    BY <2>1, <2>3 DEF SessionInv, Armed, Dirty
<1>2. QED
  BY <1>1 DEF Sessions

\* The row takes a new revision.
LEMMA NewRevision ==
  ASSUME NEW r \in [there : BOOLEAN, rev : Nat, text : DocTexts],
         NEW n \in Nat, NEW t \in DocTexts
  PROVE  LET q == [r EXCEPT !.rev = n, !.text = t]
         IN /\ q \in [there : BOOLEAN, rev : Nat, text : DocTexts]
            /\ q.rev = n /\ q.text = t /\ q.there = r.there
OBVIOUS

\* The answer to a save, as the session gets it.
LEMMA AnsweredSession ==
  ASSUME NEW d \in DraftType, NEW c \in Copies
  PROVE  LET e == [d EXCEPT !.call = "saved", !.answer = c]
         IN /\ e \in DraftType /\ e.saved = d.saved /\ e.value = d.value
            /\ e.sent = d.sent /\ e.call = "saved" /\ e.answer = c
BY DEF DraftType, Calls

\* A save that is accepted makes the row what the session has sent.
LEMMA SessionStored ==
  ASSUME Sessions, row.rev \in Nat, row'.rev = row.rev + 1, row.text \subseteq row'.text,
         row'.text \in DocTexts,
         NEW i \in Drafts, draft[i].call = "sent", row'.text = draft[i].sent.text,
         NEW d \in DraftType, draft' = [draft EXCEPT ![i] = d],
         d.saved = draft[i].saved, d.value = draft[i].value, d.sent = draft[i].sent,
         d.call = "saved", d.answer.rev = row'.rev, d.answer.text = row'.text
  PROVE  Sessions'
<1>2. draft' \in [Drafts -> DraftType]
  BY DEF Sessions
<1>3. ASSUME NEW j \in Drafts PROVE SessionInv(draft[j])'
  <2>1. SessionInv(draft[j]) /\ draft[j] \in DraftType
    BY DEF Sessions
  <2>2. draft[j].saved \in Copies /\ draft[j].answer \in Copies
    BY <2>1 DEF DraftType
  <2>3. CASE j # i
    <3>1. draft'[j] = draft[j]
      BY <2>3 DEF Sessions
    <3>2. Copied(draft[j].saved)' /\ Copied(draft[j].answer)'
      BY <2>1, <2>2, <3>1, CopyGrows DEF SessionInv, Copied
    <3>3. QED
      BY <2>1, <3>1, <3>2 DEF SessionInv, Armed, Dirty
  <2>4. CASE j = i
    <3>1. draft'[i] = d
      BY DEF Sessions
    <3>2. Copied(draft[i].saved)'
      <4>1. Copied(draft[i].saved) /\ draft[i].saved \in Copies
        BY <2>1, <2>2, <2>4 DEF SessionInv
      <4>2. QED
        BY <3>1, <4>1, CopyGrows DEF Copied
    <3>3. Copied(draft[i].answer)'
      BY <3>1 DEF Copied, Copies
    <3>4. QED
      BY <2>1, <2>4, <3>1, <3>2, <3>3 DEF SessionInv, Armed, Dirty
  <2>5. QED
    BY <2>3, <2>4
<1>4. QED
  BY <1>2, <1>3 DEF Sessions

\* The user reloads: the session that asked is given up, and a new one made.
LEMMA GivenUp ==
  ASSUME Sessions, row'.rev = row.rev, row'.text = row.text,
         NEW k \in 0..MaxDrafts, NEW c \in 0..MaxDrafts,
         NEW d \in DraftType, SessionInv(d),
         \/ draft' = [draft EXCEPT ![k].discarded = TRUE]
         \/ draft' = [draft EXCEPT ![k].discarded = TRUE, ![c] = d]
  PROVE  Sessions'
<1>1. ASSUME NEW j \in Drafts
      PROVE  draft'[j] \in {draft[j], [draft[j] EXCEPT !.discarded = TRUE], d}
  BY DEF Sessions
<1>2. ASSUME NEW j \in Drafts PROVE draft'[j] \in DraftType /\ SessionInv(draft'[j])
  <2>1. draft[j] \in DraftType /\ SessionInv(draft[j])
    BY DEF Sessions
  <2>2. QED
    BY <1>1, <2>1, FlaggedSession
<1>3. draft' \in [Drafts -> DraftType]
  <2>1. DOMAIN draft' = Drafts /\ draft' = [j \in Drafts |-> draft'[j]]
    BY DEF Sessions
  <2>2. QED
    BY <1>2, <2>1
<1>4. ASSUME NEW j \in Drafts PROVE SessionInv(draft[j])'
  BY <1>2 DEF SessionInv, Copied, Armed, Dirty
<1>5. QED
  BY <1>3, <1>4 DEF Sessions

\* and every copy held elsewhere stays one.
LEMMA HeldGrows ==
  ASSUME Held, row.rev \in Nat, row'.rev = row.rev + 1, row.text \subseteq row'.text,
         UNCHANGED <<cache, fetch, reload, removal>>
  PROVE  Held'
<1>1. cache \in Copies /\ fetch.copy \in Copies /\ reload.copy \in Copies
      /\ removal.basis \in Copies
  BY DEF Held
<1>2. Copied(cache)' /\ Copied(fetch.copy)' /\ Copied(reload.copy)' /\ Copied(removal.basis)'
  BY <1>1, CopyGrows DEF Held, Copied
<1>3. QED
  BY <1>2 DEF Held

\* A document that is opened has a cached copy of the row, and no session.
LEMMA DocInitInv == DocInit => DInv
<1> SUFFICES ASSUME DocInit PROVE DInv
  OBVIOUS
<1> USE DEF DocInit
<1>1. row.rev \in Nat /\ row.rev > 0 /\ {} \in DocTexts
  BY DEF DocTexts
<1>2. NoCopy \in Copies /\ Copied(NoCopy)
  BY <1>1, NoCopyCopied
<1>3. Sessions
  BY <1>1, <1>2, NewSession DEF Sessions
<1>4. cache \in Copies /\ Copied(cache)
  BY <1>1 DEF Copies, Copied
<1>5. /\ row \in [there : BOOLEAN, rev : Nat, text : DocTexts]
      /\ waiting \in [what : {"nothing", "select", "delete"}, of : 0..MaxDrafts]
      /\ made \in 0..MaxDrafts /\ drafts \in 0..MaxDrafts /\ editor \in 0..MaxDrafts
      /\ lost \in 0..MaxLost
  BY <1>1, DocAssumption DEF Nothing, NoDraft
<1>6. /\ fetch \in [on : BOOLEAN, copy : Copies] /\ Copied(fetch.copy)
      /\ reload \in [on : {"no", "asked", "answered"}, copy : Copies,
                     of : 0..MaxDrafts, here : BOOLEAN] /\ Copied(reload.copy)
      /\ removal \in [on : {"no", "asked", "done"}, basis : Copies] /\ Copied(removal.basis)
  BY <1>2, DocAssumption DEF NoReload, NoRemoval, NoDraft
<1>7. QED
  BY <1>1, <1>3, <1>4, <1>5, <1>6 DEF DInv, DocTypeOK, Sessions

\* The invariant, in the parts the steps are proved for.
LEMMA Parts == DInv <=> Frame /\ Held /\ Sessions
BY DEF DInv, DocTypeOK, Frame, Held, Sessions

\* What is held outside the sessions stays a copy while the text stays.
LEMMA HeldStays ==
  ASSUME Held, row'.rev = row.rev, row'.text = row.text,
         UNCHANGED <<cache, fetch, reload, removal>>
  PROVE  Held'
BY DEF Held, Copied

\* The editor is unmounted.
LEMMA UnmountStep ==
  ASSUME DInv, editor # NoDraft, Unmount, UNCHANGED row
  PROVE  /\ Sessions' /\ drafts' \in 0..MaxDrafts /\ editor' \in 0..MaxDrafts
         /\ waiting' \in [what : {"nothing", "select", "delete"}, of : 0..MaxDrafts]
         /\ reload' \in [on : {"no", "asked", "answered"}, copy : Copies,
                         of : 0..MaxDrafts, here : BOOLEAN]
         /\ reload'.copy = reload.copy
<1> DEFINE d == draft[editor]
<1>0. Frame /\ Held /\ Sessions /\ editor \in Drafts /\ NoDraft \in 0..MaxDrafts
  BY Parts, DocAssumption DEF Frame, NoDraft, Drafts
<1>1. d \in DraftType /\ SessionInv(d)
  BY <1>0 DEF Sessions
<1>2. Flushed(d) \in DraftType /\ SessionInv(Flushed(d)) /\ Settled(d) \in BOOLEAN
  BY <1>1, FlushedSession DEF Settled
<1>3. [Flushed(d) EXCEPT !.leaving = ~Settled(d)] \in DraftType
      /\ SessionInv([Flushed(d) EXCEPT !.leaving = ~Settled(d)])
  BY <1>2, FlaggedSession
<1>4. Sessions'
  BY <1>0, <1>3, SessionStep DEF Unmount
<1>5. QED
  BY <1>0, <1>4 DEF Unmount, Frame, Held, Nothing, Copies

\* The steps of the view that neither write the row nor apply an answer.
LEMMA ViewStep ==
  ASSUME DInv,
         \/ Mount \/ Leave \/ Type \/ Undo \/ BlurOrRetry \/ Select
         \/ \E i \in Drafts : Autosave(i)
  PROVE  DInv'
<1>0. Frame /\ Held /\ Sessions /\ row.rev \in Nat
  BY Parts DEF Frame
<1>1. CASE Mount
  <2>0. Held'
    BY <1>0, <1>1, HeldStays DEF Mount
  <2>1. CASE drafts # NoDraft /\ editor' = drafts /\ UNCHANGED <<draft, made, drafts>>
    <3>1. Sessions'
      BY <1>0, <1>1, <2>1, SessionsStay DEF Mount
    <3>2. Frame'
      BY <1>0, <1>1, <2>1 DEF Mount, Frame
    <3>3. QED
      BY <2>0, <3>1, <3>2, Parts, PTL
  <2>2. CASE /\ made < MaxDrafts /\ made' = made + 1
             /\ draft' = [draft EXCEPT ![made'] = NewDraft(cache)]
             /\ drafts' = made' /\ editor' = made'
    <3>1. made' \in Drafts /\ made' \in 0..MaxDrafts
      BY <1>0, <2>2, DocAssumption DEF Frame, Drafts
    <3>2. NewDraft(cache) \in DraftType /\ SessionInv(NewDraft(cache))
      BY <1>0, NewSession DEF Frame, Held
    <3>3. Sessions'
      BY <1>0, <1>1, <2>2, <3>1, <3>2, SessionStep DEF Mount
    <3>4. Frame'
      BY <1>0, <1>1, <2>2, <3>1 DEF Mount, Frame
    <3>5. QED
      BY <2>0, <3>3, <3>4, Parts, PTL
  <2>3. QED
    BY <1>1, <2>1, <2>2 DEF Mount
<1>2. CASE Leave
  <2>1. editor # NoDraft /\ Unmount /\ UNCHANGED row
    BY <1>2 DEF Leave
  <2>2. Sessions' /\ Frame' /\ Held'
    BY <1>0, <1>2, <2>1, UnmountStep, CopiesStay DEF Leave, Frame, Held
  <2>3. QED
    BY <2>2, Parts, PTL
<1>3. ASSUME NEW i \in Drafts, NEW d \in DraftType, SessionInv(d),
             draft' = [draft EXCEPT ![i] = d],
             UNCHANGED <<row, made, drafts, editor, cache, fetch, reload, removal, lost>>,
             waiting' \in [what : {"nothing", "select", "delete"}, of : 0..MaxDrafts]
      PROVE  DInv'
  <2>1. Sessions' /\ Held' /\ Frame'
    BY <1>0, <1>3, SessionStep, HeldStays DEF Frame
  <2>2. QED
    BY <2>1, Parts, PTL
<1>4. ASSUME editor # NoDraft
      PROVE  editor \in Drafts /\ draft[editor] \in DraftType /\ SessionInv(draft[editor])
  BY <1>0, <1>4 DEF Frame, Sessions, Drafts, NoDraft
<1>5. CASE Type
  <2>1. PICK e \in DocEdits :
           draft' = [draft EXCEPT ![editor] = Edited(@, @.value \union {e})]
    BY <1>5 DEF Type
  <2>2. editor \in Drafts /\ draft[editor] \in DraftType /\ SessionInv(draft[editor])
    BY <1>4, <1>5 DEF Type
  <2>3. draft[editor].value \union {e} \in DocTexts
    BY <2>2 DEF DraftType, DocTexts
  <2>4. /\ Edited(draft[editor], draft[editor].value \union {e}) \in DraftType
        /\ SessionInv(Edited(draft[editor], draft[editor].value \union {e}))
    BY <2>2, <2>3, EditedSession
  <2>5. QED
    BY <1>0, <1>3, <1>5, <2>1, <2>2, <2>4 DEF Type, Frame
<1>6. CASE Undo
  <2>1. editor \in Drafts /\ draft[editor] \in DraftType /\ SessionInv(draft[editor])
    BY <1>4, <1>6 DEF Undo
  <2>2. draft[editor].saved.text \in DocTexts /\ draft[editor].call = "none"
    BY <1>6, <2>1 DEF Undo, DraftType, Copies
  <2>3. /\ Edited(draft[editor], draft[editor].saved.text) \in DraftType
        /\ SessionInv(Edited(draft[editor], draft[editor].saved.text))
    BY <2>1, <2>2, EditedSession
  <2>4. QED
    BY <1>0, <1>3, <1>6, <2>1, <2>3 DEF Undo, Frame
<1>7. CASE BlurOrRetry
  <2>1. editor \in Drafts /\ draft[editor] \in DraftType /\ SessionInv(draft[editor])
    BY <1>4, <1>7 DEF BlurOrRetry
  <2>2. Flushed(draft[editor]) \in DraftType /\ SessionInv(Flushed(draft[editor]))
    BY <2>1, FlushedSession
  <2>3. QED
    BY <1>0, <1>3, <1>7, <2>1, <2>2 DEF BlurOrRetry, Frame
<1>8. CASE Select
  <2>1. editor \in Drafts /\ draft[editor] \in DraftType /\ SessionInv(draft[editor])
    BY <1>4, <1>8 DEF Select
  <2>2. Flushed(draft[editor]) \in DraftType /\ SessionInv(Flushed(draft[editor]))
    BY <2>1, FlushedSession
  <2>3. CASE Settled(draft[editor])
    <3>1. editor # NoDraft /\ Unmount /\ UNCHANGED row
      BY <1>8, <2>3 DEF Select
    <3>2. Sessions' /\ Frame' /\ Held'
      BY <1>0, <1>8, <3>1, UnmountStep, CopiesStay DEF Select, Frame, Held
    <3>3. QED
      BY <3>2, Parts, PTL
  <2>4. CASE ~Settled(draft[editor])
    <3>1. waiting' \in [what : {"nothing", "select", "delete"}, of : 0..MaxDrafts]
      BY <1>0, <1>8, <2>4 DEF Select, Frame
    <3>2. QED
      BY <1>3, <1>8, <2>1, <2>2, <2>4, <3>1 DEF Select
  <2>5. QED
    BY <2>3, <2>4
<1>9. ASSUME NEW i \in Drafts, Autosave(i) PROVE DInv'
  <2>1. Flushed(draft[i]) \in DraftType /\ SessionInv(Flushed(draft[i]))
    BY <1>0, FlushedSession DEF Sessions
  <2>2. QED
    BY <1>0, <1>3, <1>9, <2>1 DEF Autosave, Frame
<1>10. QED
  BY <1>1, <1>2, <1>5, <1>6, <1>7, <1>8, <1>9

\* Requests of the sessions: the store's side, and what their answers do.
LEMMA SaveStep ==
  ASSUME DInv, NEW i \in Drafts, Put(i) \/ Lose(i) \/ Saved(i) \/ SaveFailed(i)
  PROVE  DInv'
<1>0. Frame /\ Held /\ Sessions /\ row.rev \in Nat /\ row.rev > 0
  BY Parts DEF Frame
<1>1. draft[i] \in DraftType /\ SessionInv(draft[i])
  BY <1>0 DEF Sessions
<1>2. NoCopy \in Copies /\ Copied(NoCopy)
  BY <1>0, NoCopyCopied
<1>3. CASE Put(i) /\ Accepts(draft[i].sent.rev)
  <2>1. /\ draft[i].call = "sent" /\ draft[i].sent.rev = row.rev
        /\ row' = [row EXCEPT !.rev = row.rev + 1, !.text = draft[i].sent.text]
        /\ draft' = [draft EXCEPT ![i].call = "saved",
                        ![i].answer = [rev |-> row.rev + 1, text |-> draft[i].sent.text]]
    BY <1>3 DEF Put, Accepts
  <2>2. row.text \subseteq draft[i].sent.text /\ draft[i].sent.text \in DocTexts
    BY <1>1, <2>1 DEF SessionInv, Copied, DraftType, Copies
  <2>3. row'.rev = row.rev + 1 /\ row'.text = draft[i].sent.text /\ row.rev + 1 \in Nat
    BY <1>0, <2>1 DEF Frame
  <2>4. Frame'
    <3>1. row' \in [there : BOOLEAN, rev : Nat, text : DocTexts] /\ row'.rev > 0
      <4>1. PICK t \in DocTexts : t = draft[i].sent.text
        BY <2>2
      <4>2. row' = [row EXCEPT !.rev = row.rev + 1, !.text = t]
        BY <2>1, <4>1
      <4>3. row' \in [there : BOOLEAN, rev : Nat, text : DocTexts]
        BY <1>0, <2>3, <4>2, NewRevision DEF Frame
      <4>4. row'.rev > 0
        BY <1>0, <2>3
      <4>5. QED
        BY <4>3, <4>4
    <3>2. UNCHANGED <<made, drafts, editor, waiting, lost>>
      BY <1>3 DEF Put
    <3>3. QED
      BY <1>0, <3>1, <3>2 DEF Frame
  <2>5. Sessions'
    <3> DEFINE new == [rev |-> row.rev + 1, text |-> draft[i].sent.text]
               d == [draft[i] EXCEPT !.call = "saved", !.answer = new]
    <3>1. new \in Copies
      BY <2>2, <2>3 DEF Copies
    <3>2. /\ d \in DraftType /\ d.saved = draft[i].saved /\ d.value = draft[i].value
          /\ d.sent = draft[i].sent /\ d.call = "saved" /\ d.answer = new
      BY <1>1, <3>1, AnsweredSession
    <3>4. draft' = [draft EXCEPT ![i] = d]
      BY <1>0, <2>1 DEF Sessions
    <3>5. d.answer.rev = row'.rev /\ d.answer.text = row'.text
      BY <2>3, <3>2
    <3>3. QED
      BY <1>0, <2>1, <2>2, <2>3, <3>2, <3>4, <3>5, SessionStored
  <2>6. Held'
    BY <1>0, <1>3, <2>2, <2>3, HeldGrows DEF Put
  <2>7. QED
    BY <2>4, <2>5, <2>6, Parts, PTL
<1>4. ASSUME NEW d \in DraftType, SessionInv(d), draft' = [draft EXCEPT ![i] = d],
             UNCHANGED <<row, made, drafts, editor, cache, fetch, reload, removal>>,
             waiting' \in [what : {"nothing", "select", "delete"}, of : 0..MaxDrafts],
             lost' \in 0..MaxLost
      PROVE  DInv'
  <2>1. Sessions' /\ Held' /\ Frame'
    BY <1>0, <1>4, SessionStep, HeldStays DEF Frame
  <2>2. QED
    BY <2>1, Parts, PTL
<1>5. CASE Put(i) /\ ~Accepts(draft[i].sent.rev)
  <2>1. draft' = [draft EXCEPT ![i] = [draft[i] EXCEPT !.call = "failed"]]
    BY <1>5 DEF Put
  <2>2. draft[i].call # "none" /\ [draft[i] EXCEPT !.call = "failed"] \in DraftType
    BY <1>1, <1>5 DEF Put, DraftType, Calls
  <2>3. SessionInv([draft[i] EXCEPT !.call = "failed"])
    BY <1>1, <2>2 DEF SessionInv, DraftType, Armed, Dirty
  <2>4. QED
    BY <1>0, <1>4, <1>5, <2>1, <2>2, <2>3 DEF Put, Frame
<1>6. CASE Lose(i)
  <2> DEFINE d == [draft[i] EXCEPT !.call = "failed", !.answer = NoCopy]
  <2>0. lost' \in 0..MaxLost
    BY <1>0, <1>6, DocAssumption DEF Lose, Frame
  <2>1. draft' = [draft EXCEPT ![i] = d]
    BY <1>0, <1>6 DEF Lose, Sessions
  <2>2. draft[i].call # "none" /\ d \in DraftType
    BY <1>1, <1>2, <1>6 DEF Lose, DraftType, Calls
  <2>3. SessionInv(d)
    BY <1>1, <1>2, <2>2 DEF SessionInv, DraftType, Armed, Dirty
  <2>4. QED
    BY <1>0, <1>4, <1>6, <2>0, <2>1, <2>2, <2>3 DEF Lose, Frame
<1>7. CASE SaveFailed(i)
  <2>1. Failed(draft[i]) \in DraftType /\ SessionInv(Failed(draft[i]))
    BY <1>0, <1>1, FailedSession
  <2>2. /\ [Failed(draft[i]) EXCEPT !.leaving = FALSE] \in DraftType
        /\ SessionInv([Failed(draft[i]) EXCEPT !.leaving = FALSE])
    BY <2>1, FlaggedSession
  <2>3. waiting' \in [what : {"nothing", "select", "delete"}, of : 0..MaxDrafts]
    BY <1>0, <1>7, DocAssumption DEF SaveFailed, Frame, Nothing, NoDraft
  <2>4. QED
    BY <1>0, <1>4, <1>7, <2>2, <2>3 DEF SaveFailed, Frame
<1>8. CASE Saved(i)
  <2> DEFINE d == Drained(draft[i])
             e == [d EXCEPT !.leaving = @ /\ ~(d.call = "none")]
  <2>1. d \in DraftType /\ SessionInv(d) /\ d.saved = draft[i].answer
    BY <1>0, <1>1, <1>8, DrainedSession DEF Saved
  <2>2. (d.leaving /\ ~(d.call = "none")) \in BOOLEAN
    BY <2>1 DEF DraftType
  <2>3. e \in DraftType /\ SessionInv(e)
    BY <2>1, <2>2, FlaggedSession
  <2>4. draft' = [draft EXCEPT ![i] = e]
    BY <1>8 DEF Saved
  <2>5. draft[i].answer \in Copies /\ Copied(draft[i].answer)
    BY <1>1 DEF DraftType, SessionInv
  <2>6. Sessions'
    BY <1>0, <1>8, <2>3, <2>4, SessionStep DEF Saved
  <2>7. Frame'
    BY <1>0, <1>8, DocAssumption DEF Saved, Frame, Nothing, NoDraft
  <2>8. Held'
    <3>1. cache' \in Copies /\ Copied(cache)'
      BY <1>0, <1>8, <2>5 DEF Saved, Held, Copied
    <3>2. fetch' = fetch /\ Copied(fetch.copy)'
      BY <1>0, <1>8 DEF Saved, Held, Copied
    <3>3. /\ reload' \in [on : {"no", "asked", "answered"}, copy : Copies,
                          of : 0..MaxDrafts, here : BOOLEAN]
          /\ reload'.copy = reload.copy
      BY <1>0, <1>8 DEF Saved, Held
    <3>4. removal' \in {removal, [on |-> "asked", basis |-> draft[i].answer]}
      BY <1>8, <2>1 DEF Saved
    <3>5. removal' \in [on : {"no", "asked", "done"}, basis : Copies]
          /\ Copied(removal'.basis)
      BY <1>0, <2>5, <3>4 DEF Held
    <3>6. row' = row
      BY <1>8 DEF Saved
    <3>7. QED
      BY <1>0, <3>1, <3>2, <3>3, <3>5, <3>6 DEF Held, Copied
  <2>9. QED
    BY <2>6, <2>7, <2>8, Parts, PTL
<1>9. QED
  BY <1>3, <1>5, <1>6, <1>7, <1>8

\* Reloading and deleting the document.
LEMMA ReloadStep ==
  ASSUME DInv, AskReload \/ GetDocument \/ Reload \/ Delete \/ DeleteRow \/ Deleted
  PROVE  DInv'
<1>0. Frame /\ Held /\ Sessions /\ row.rev \in Nat /\ row.rev > 0
  BY Parts DEF Frame
<1>1. NoCopy \in Copies /\ Copied(NoCopy) /\ NoDraft \in 0..MaxDrafts
  BY <1>0, NoCopyCopied, DocAssumption DEF NoDraft
<1>2. ASSUME editor # NoDraft
      PROVE  /\ editor \in Drafts /\ draft[editor] \in DraftType /\ SessionInv(draft[editor])
             /\ Flushed(draft[editor]) \in DraftType /\ SessionInv(Flushed(draft[editor]))
  BY <1>0, <1>2, FlushedSession DEF Frame, Sessions, Drafts, NoDraft
<1>3. CASE AskReload
  <2>1. Sessions' /\ Frame'
    BY <1>0, <1>3, SessionsStay DEF AskReload, Frame
  <2>2. Held'
    BY <1>0, <1>1, <1>3 DEF AskReload, Held, Copied, Frame
  <2>3. QED
    BY <2>1, <2>2, Parts, PTL
<1>4. CASE GetDocument
  <2>1. Sessions' /\ Frame'
    BY <1>0, <1>4, SessionsStay DEF GetDocument, Frame
  <2>2. Stored \in Copies /\ Copied(Stored)
    BY <1>0, <1>1 DEF Stored, Copies, Copied, Frame
  <2>3. /\ reload' \in [on : {"no", "asked", "answered"}, copy : Copies,
                         of : 0..MaxDrafts, here : BOOLEAN]
        /\ Copied(reload'.copy)
    BY <1>0, <1>1, <1>4, <2>2 DEF GetDocument, NoReload, Held
  <2>4. Held'
    BY <1>0, <1>4, <2>3 DEF GetDocument, Held, Copied
  <2>5. QED
    BY <2>1, <2>4, Parts, PTL
<1>5. CASE Reload
  <2>1. cache' \in Copies /\ Copied(cache') /\ UNCHANGED row
    BY <1>0, <1>5 DEF Reload, Held
  <2>2. reload' = NoReload /\ UNCHANGED <<fetch, removal>>
    BY <1>5 DEF Reload
  <2>3. Held'
    BY <1>0, <1>1, <2>1, <2>2 DEF Held, Copied, NoReload
  <2>4. NewDraft(cache') \in DraftType /\ SessionInv(NewDraft(cache'))
    BY <1>0, <2>1, NewSession
  <2>5. Sessions'
    <3> DEFINE k == reload.of
               n == NewDraft(cache')
    <3>1. k \in 0..MaxDrafts
      BY <1>0 DEF Held
    <3>2. CASE draft' = [draft EXCEPT ![k].discarded = TRUE, ![made'] = n] /\ made' \in 0..MaxDrafts
      <4> HIDE DEF k, n
      <4>1. QED
        BY <1>0, <2>1, <2>4, <3>1, <3>2, GivenUp DEF n
    <3>3. CASE draft' = [draft EXCEPT ![k].discarded = TRUE]
      <4> HIDE DEF k, n
      <4>1. QED
        BY <1>0, <1>1, <2>1, <2>4, <3>1, <3>3, GivenUp DEF n
    <3>4. made' \in 0..MaxDrafts
      BY <1>0, <1>5, DocAssumption DEF Reload, Frame
    <3>5. QED
      BY <1>5, <3>2, <3>3, <3>4 DEF Reload
  <2>6. Frame'
    BY <1>0, <1>1, <1>5, DocAssumption DEF Reload, Frame, Nothing
  <2>7. QED
    BY <2>3, <2>5, <2>6, Parts, PTL
<1>6. CASE Delete
  <2>1. editor \in Drafts /\ Flushed(draft[editor]) \in DraftType /\ SessionInv(Flushed(draft[editor]))
    BY <1>2, <1>6 DEF Delete
  <2>2. draft' = [draft EXCEPT ![editor] = Flushed(draft[editor])] /\ UNCHANGED row
    BY <1>6 DEF Delete
  <2>3. Sessions'
    BY <1>0, <2>1, <2>2, SessionStep
  <2>4. Frame'
    BY <1>0, <1>6 DEF Delete, Frame
  <2>5. draft[editor].saved \in Copies /\ Copied(draft[editor].saved)
    BY <1>2, <1>6 DEF Delete, DraftType, SessionInv
  <2>6. removal' \in {removal, [on |-> "asked", basis |-> draft[editor].saved]}
        /\ UNCHANGED <<cache, fetch, reload>>
    BY <1>6 DEF Delete
  <2>7. Held'
    BY <1>0, <2>2, <2>5, <2>6 DEF Held, Copied
  <2>8. QED
    BY <2>3, <2>4, <2>7, Parts, PTL
<1>7. CASE DeleteRow
  <2>1. /\ row' \in {row, [row EXCEPT !.there = FALSE]}
        /\ removal' \in {[removal EXCEPT !.on = "done"], NoRemoval}
        /\ UNCHANGED <<draft, made, drafts, editor, waiting, cache, fetch, reload, lost>>
    BY <1>7 DEF DeleteRow
  <2>2. row' \in [there : BOOLEAN, rev : Nat, text : DocTexts]
        /\ row'.rev = row.rev /\ row'.text = row.text
    BY <1>0, <2>1 DEF Frame
  <2>3. Sessions' /\ Frame'
    BY <1>0, <2>1, <2>2, SessionsStay DEF Frame
  <2>4. removal' \in [on : {"no", "asked", "done"}, basis : Copies] /\ Copied(removal'.basis)
    BY <1>0, <1>1, <2>1 DEF Held, NoRemoval
  <2>5. Held'
    BY <1>0, <2>1, <2>2, <2>4 DEF Held, Copied
  <2>6. QED
    BY <2>3, <2>5, Parts, PTL
<1>8. CASE Deleted
  <2>1. UNCHANGED <<row, made, fetch, lost>>
    BY <1>8 DEF Deleted
  <2>4. Frame'
    BY <1>0, <1>1, <1>8 DEF Deleted, Frame, Nothing
  <2>5. removal' = NoRemoval /\ cache' = NoCopy /\ UNCHANGED fetch
        /\ reload' = [reload EXCEPT !.here = FALSE]
    BY <1>8 DEF Deleted
  <2>6. Held'
    BY <1>0, <1>1, <2>1, <2>5 DEF Held, Copied, NoRemoval
  <2>7. Sessions'
    <3>1. CASE editor = NoDraft
      BY <1>0, <1>8, <2>1, <3>1, SessionsStay DEF Deleted
    <3>2. CASE editor # NoDraft
      BY <1>0, <1>2, <1>8, <2>1, <3>2, SessionStep DEF Deleted
    <3>3. QED
      BY <3>1, <3>2
  <2>8. QED
    BY <2>4, <2>6, <2>7, Parts, PTL
<1>9. QED
  BY <1>3, <1>4, <1>5, <1>6, <1>7, <1>8

\* Other writers, and the list query.
LEMMA OtherStep ==
  ASSUME DInv, ForeignWrite \/ Refetch \/ Refetched
  PROVE  DInv'
<1>0. Frame /\ Held /\ Sessions /\ row.rev \in Nat /\ row.rev > 0
  BY Parts DEF Frame
<1>1. NoCopy \in Copies /\ Copied(NoCopy)
  BY <1>0, NoCopyCopied
<1>2. CASE ForeignWrite
  <2>1. PICK e \in DocForeign :
           row' = [row EXCEPT !.rev = row.rev + 1, !.text = row.text \union {e}]
    BY <1>2 DEF ForeignWrite
  <2>2. row.rev + 1 \in Nat /\ row.text \union {e} \in DocTexts
    BY <1>0 DEF Frame, DocTexts
  <2>3. /\ row' \in [there : BOOLEAN, rev : Nat, text : DocTexts]
        /\ row'.rev = row.rev + 1 /\ row'.text = row.text \union {e}
    BY <1>0, <2>1, <2>2, NewRevision DEF Frame
  <2>4. UNCHANGED <<draft, made, drafts, editor, waiting, cache, fetch, reload, removal, lost>>
    BY <1>2 DEF ForeignWrite
  <2>5. row.text \subseteq row'.text
    BY <2>3
  <2>6. Sessions' /\ Held'
    BY <1>0, <2>3, <2>4, <2>5, SessionsGrow, HeldGrows
  <2>7. Frame'
    BY <1>0, <2>3, <2>4 DEF Frame
  <2>8. QED
    BY <2>6, <2>7, Parts, PTL
<1>3. CASE Refetch
  <2>1. Sessions' /\ Frame'
    BY <1>0, <1>3, SessionsStay DEF Refetch, Frame
  <2>2. Stored \in Copies /\ Copied(Stored)
    BY <1>0, <1>1 DEF Stored, Copies, Copied, Frame
  <2>3. fetch' = [on |-> TRUE, copy |-> Stored] /\ UNCHANGED <<row, cache, reload, removal>>
    BY <1>3 DEF Refetch
  <2>4. Held'
    BY <1>0, <2>2, <2>3 DEF Held, Copied
  <2>5. QED
    BY <2>1, <2>4, Parts, PTL
<1>4. CASE Refetched
  <2>1. /\ cache' = fetch.copy /\ fetch' = [on |-> FALSE, copy |-> NoCopy]
        /\ UNCHANGED <<row, made, removal, lost>>
    BY <1>4 DEF Refetched
  <2>2. CASE editor # NoDraft /\ Unmount
    <3>1. Sessions' /\ Frame'
      BY <1>0, <2>1, <2>2, UnmountStep DEF Frame
    <3>2. Held'
      BY <1>0, <1>1, <2>1, <2>2, UnmountStep DEF Held, Copied
    <3>3. QED
      BY <3>1, <3>2, Parts, PTL
  <2>3. CASE UNCHANGED <<draft, drafts, editor, waiting, reload>>
    <3>1. Sessions' /\ Frame'
      BY <1>0, <2>1, <2>3, SessionsStay DEF Frame
    <3>2. Held'
      BY <1>0, <1>1, <2>1, <2>3 DEF Held, Copied
    <3>3. QED
      BY <3>1, <3>2, Parts, PTL
  <2>4. QED
    BY <1>4, <2>2, <2>3 DEF Refetched
<1>5. QED
  BY <1>2, <1>3, <1>4

-----------------------------------------------------------------------------
(* The theorems *)

\* Every step keeps the invariant.
LEMMA DocStep == DInv /\ [DocNext]_docVars => DInv'
<1> SUFFICES ASSUME DInv, [DocNext]_docVars PROVE DInv'
  OBVIOUS
<1>1. CASE DocNext
  BY <1>1, ViewStep, SaveStep, ReloadStep, OtherStep DEF DocNext
<1>2. CASE UNCHANGED docVars
  <2>1. Frame /\ Held /\ Sessions
    BY Parts
  <2>2. Frame' /\ Held' /\ Sessions'
    BY <1>2, <2>1, SessionsStay, HeldStays DEF docVars, Frame
  <2>3. QED
    BY <2>2, Parts, PTL
<1>3. QED
  BY <1>1, <1>2

\* Every copy of the document is an old or the present one, in every state.
THEOREM DocInvariance == DocSpec => []DInv
BY DocInitInv, DocStep, PTL DEF DocSpec

\* Every state has its types.
THEOREM DocTypeCorrect == DocSpec => []DocTypeOK
BY DocInvariance, PTL DEF DInv

\* Unsaved edits of the mounted editor are scheduled, under way, or shown as
\* an error: nothing typed waits for a key press that may not come.
THEOREM AutosaveArmed == DocSpec => []AutosaveIsArmed
<1>1. DInv => AutosaveIsArmed
  BY DEF DInv, DocTypeOK, SessionInv, Armed, AutosaveIsArmed, Drafts, NoDraft
<1>2. QED
  BY <1>1, DocInvariance, PTL

-----------------------------------------------------------------------------
(* The editor implements the shared text. *)

\* A step that writes nothing, and neither starts nor ends a deletion.
LEMMA QuietStep ==
  ASSUME UNCHANGED <<row, removal>>
  PROVE  UNCHANGED Shared!vars
BY DEF Shared!vars, Stored

\* A store that is opened for the first time holds nothing.
LEMMA SharedInit == DocInit => Shared!Init
BY DEF DocInit, Shared!Init, Stored, NoRemoval

\* A deletion was asked for, or is over: the user's copy is a copy of the row.
LEMMA ShowStep ==
  ASSUME DInv, UNCHANGED row, row.there, Copied(removal'.basis)
  PROVE  Shared!Next
<1>1. Shared!Show
  BY DEF Shared!Show, Stored, Copied
<1>2. QED
  BY <1>1 DEF Shared!Next

\* Every step of the editor and its store is a step of the shared text.
LEMMA SharedStep ==
  ASSUME DInv, [DocNext]_docVars
  PROVE  [Shared!Next]_(Shared!vars)
<1>0. Frame /\ Held /\ Sessions /\ row.rev \in Nat
  BY Parts DEF Frame
<1>1. ASSUME row.there, row'.there, row'.text # row.text, row.text \subseteq row'.text,
             row'.text \in DocTexts, UNCHANGED removal
      PROVE  Shared!Next
  <2>1. removal.basis.text \subseteq row'.text
    BY <1>0, <1>1 DEF Held, Copied
  <2>2. Shared!Save
    <3> DEFINE S == row'.text \ row.text
    <3>1. S \in SUBSET ((DocEdits \union DocForeign) \ row.text) /\ S # {}
          /\ row'.text = row.text \union S
      BY <1>1 DEF DocTexts
    <3>2. QED
      BY <1>1, <2>1, <3>1 DEF Shared!Save, Stored
  <2>3. QED
    BY <2>2 DEF Shared!Next
<1>2. CASE UNCHANGED <<row, removal>>
  BY <1>2, QuietStep
<1>3. CASE UNCHANGED row /\ removal' # removal /\ Held'
  <2>1. CASE row.there
    BY <1>3, <2>1, ShowStep DEF Held, Copied
  <2>2. CASE ~row.there
    BY <1>3, <2>2 DEF Shared!vars, Stored
  <2>3. QED
    BY <2>1, <2>2
<1>4. Held'
  BY DocStep, Parts, PTL
<1>5. ASSUME NEW i \in Drafts, Put(i) PROVE [Shared!Next]_(Shared!vars)
  <2>1. UNCHANGED removal
    BY <1>5 DEF Put
  <2>2. CASE Accepts(draft[i].sent.rev)
    <3>1. draft[i] \in DraftType /\ SessionInv(draft[i])
      BY <1>0 DEF Sessions
    <3>2. draft[i].call = "sent" /\ row.there /\ draft[i].sent.rev = row.rev
          /\ row' = [row EXCEPT !.rev = row.rev + 1, !.text = draft[i].sent.text]
      BY <1>5, <2>2 DEF Put, Accepts
    <3>3. row.text \subseteq draft[i].sent.text /\ draft[i].sent.text \in DocTexts
      BY <3>1, <3>2 DEF SessionInv, Copied, DraftType, Copies
    <3>4. PICK t \in DocTexts : t = draft[i].sent.text
      BY <3>3
    <3>5. row' = [row EXCEPT !.rev = row.rev + 1, !.text = t]
      BY <3>2, <3>4
    <3>6. row'.there /\ row'.text = t
      BY <1>0, <3>2, <3>5, NewRevision DEF Frame
    <3>7. CASE t = row.text
      BY <2>1, <3>2, <3>6, <3>7 DEF Shared!vars, Stored
    <3>8. CASE t # row.text
      BY <1>1, <2>1, <3>2, <3>3, <3>4, <3>6, <3>8
    <3>9. QED
      BY <3>7, <3>8
  <2>3. CASE ~Accepts(draft[i].sent.rev)
    BY <1>2, <1>5, <2>3 DEF Put
  <2>4. QED
    BY <2>2, <2>3
<1>6. CASE ForeignWrite
  <2>1. PICK e \in DocForeign \ row.text :
           row' = [row EXCEPT !.rev = row.rev + 1, !.text = row.text \union {e}]
    BY <1>6 DEF ForeignWrite
  <2>2. row.text \union {e} \in DocTexts /\ row.rev + 1 \in Nat
    BY <1>0 DEF Frame, DocTexts
  <2>3. row'.there = row.there /\ row'.text = row.text \union {e}
    BY <1>0, <2>1, <2>2, NewRevision DEF Frame
  <2>4. row.there /\ UNCHANGED removal
    BY <1>6 DEF ForeignWrite
  <2>5. QED
    BY <1>1, <2>1, <2>2, <2>3, <2>4
<1>7. CASE DeleteRow
  <2>1. CASE Accepts(removal.basis.rev)
    <3>1. row.there /\ removal.on = "asked" /\ removal.basis.rev = row.rev
          /\ row' = [row EXCEPT !.there = FALSE] /\ removal' = [removal EXCEPT !.on = "done"]
      BY <1>7, <2>1 DEF DeleteRow, Accepts
    <3>2. removal.basis.text = row.text
      BY <1>0, <3>1 DEF Held, Copied
    <3>3. ~row'.there
      BY <1>0, <3>1 DEF Frame
    <3>4. Shared!Remove
      BY <3>1, <3>2, <3>3 DEF Shared!Remove, Stored, NoCopy
    <3>5. QED
      BY <3>4 DEF Shared!Next
  <2>2. CASE ~Accepts(removal.basis.rev)
    <3>1. UNCHANGED row
      BY <1>7, <2>2 DEF DeleteRow
    <3>2. QED
      BY <1>2, <1>3, <1>4, <3>1
  <2>3. QED
    BY <2>1, <2>2
<1>8. CASE DocNext /\ UNCHANGED row
  BY <1>2, <1>3, <1>4, <1>8
<1>9. CASE UNCHANGED docVars
  BY <1>2, <1>9 DEF docVars
<1>10. CASE DocNext
  <2>1. \/ UNCHANGED row
        \/ \E i \in Drafts : Put(i)
        \/ ForeignWrite \/ DeleteRow
    BY <1>10 DEF DocNext, Mount, Leave, Type, Undo, BlurOrRetry, Select, Autosave, Lose, Saved,
                SaveFailed, AskReload, GetDocument, Reload, Delete, Deleted, Refetch, Refetched
  <2>2. QED
    BY <1>5, <1>6, <1>7, <1>8, <1>10, <2>1
<1>11. QED
  BY <1>9, <1>10

\* An edit the store has accepted stays until somebody who was shown the whole
\* text deletes it: the sessions, with their retries, reloads and old copies,
\* implement SharedText.
THEOREM DocRefinement == DocSpec => DocImplementsShared
<1>1. DocInit => Shared!Init
  BY SharedInit
<1>2. DInv /\ [DocNext]_docVars => [Shared!Next]_(Shared!vars)
  BY SharedStep
<1>3. QED
  BY <1>1, <1>2, DocInvariance, PTL DEF DocSpec, DocImplementsShared, Shared!Spec
-----------------------------------------------------------------------------
(* TaskText: the inductive invariant. *)

(* One view is open at a time. *)
ViewsFit ==
    /\ \A u, v \in Views : view[u].open /\ view[v].open => u = v
    /\ \A v \in Views : view[v].mounted => view[v].open

NoSaves == saves = <<>> /\ flight.call = "none"
Waiting(v) == view[v].open /\ ~view[v].mounted

(* A read is under way alone: no save, no other read, no other view. What a *)
(* view without its editor has read is what the tab knows.                  *)
ReadsFit ==
    \A v \in Views :
        /\ query[v].call # "none" =>
              /\ NoSaves
              /\ ~view[v].mounted
              /\ \A u \in Views \ {v} : query[u].call = "none" /\ ~view[u].open
        /\ Waiting(v) => NoSaves
        /\ Waiting(v) /\ query[v].call = "none" => revision = query[v].data /\ revision.known

(* Everything that is still to be stored contains the text. *)
Covered(text) ==
    /\ \A i \in DOMAIN saves : text \subseteq saves[i]
    /\ \A v \in Views : view[v].mounted => text \subseteq view[v].value

(* The revision, the save under way, the waiting saves and the editor form  *)
(* a chain, in this order.                                                  *)
SavesFit ==
    /\ ~NoSaves \/ (\E v \in Views : view[v].mounted) => revision.known
    /\ flight.call # "none" =>
          /\ flight.match = revision
          /\ revision.text \subseteq flight.text
          /\ Covered(flight.text)
    /\ Covered(revision.text)
    /\ \A i, j \in DOMAIN saves : i < j => saves[i] \subseteq saves[j]
    /\ \A v \in Views : view[v].mounted => \A i \in DOMAIN saves : saves[i] \subseteq view[v].value

(* What the tab knows, once a view uses it, is in the body, and the rest of *)
(* the body is of others, unless an answer was lost.                        *)
GrownBy(old) == old \subseteq body /\ body \ old \subseteq BodyForeign

InUse ==
    \/ ~NoSaves
    \/ \E v \in Views : view[v].mounted \/ (Waiting(v) /\ query[v].call = "none")

KnownFits ==
    InUse => GrownBy(IF flight.call = "stored" THEN flight.text ELSE revision.text)

AnswersFit ==
    bodyLost = 0 =>
        /\ KnownFits
        /\ \A v \in Views : query[v].call = "answered" => GrownBy(query[v].answer)

(* What holds of a view that was opened at rest and shows what it has read. *)
Chain == ReadsFit /\ SavesFit /\ AnswersFit

(* What was typed in the drawer and is still owed is on its way.            *)
OwedFit ==
    /\ EditsAreSavedOrReported
    /\ flight.call = "stored" => owed \cap flight.text = {}
    /\ \A v \in Views : /\ view[v].saved \subseteq view[v].value
                        /\ ~view[v].mounted => view[v].value = {}

Sound == BodyTypeOK /\ ViewsFit

BodyInv == Sound /\ OwedFit /\ (fresh => Chain)

-----------------------------------------------------------------------------
(* The sequence of saves *)

LEMMA SaveAppended ==
  ASSUME NEW s \in Seq(Bodies), NEW t \in Bodies
  PROVE  /\ Append(s, t) \in Seq(Bodies)
         /\ DOMAIN Append(s, t) = DOMAIN s \union {Len(s) + 1}
         /\ \A i \in DOMAIN s : Append(s, t)[i] = s[i] /\ i < Len(s) + 1
         /\ Append(s, t)[Len(s) + 1] = t /\ Len(s) + 1 \in Nat
  OBVIOUS

LEMMA SaveTaken ==
  ASSUME NEW s \in Seq(Bodies), s # <<>>
  PROVE  /\ Tail(s) \in Seq(Bodies) /\ Head(s) \in Bodies
         /\ 1 \in DOMAIN s /\ Head(s) = s[1]
         /\ \A i \in DOMAIN Tail(s) : i + 1 \in DOMAIN s /\ Tail(s)[i] = s[i + 1] /\ 1 < i + 1 /\ i \in Nat
  OBVIOUS

-----------------------------------------------------------------------------
(* Types, and the views *)

LEMMA BodyTypesKept == BodyTypeOK /\ [BodyNext]_bodyVars => BodyTypeOK'
<1>. SUFFICES ASSUME BodyTypeOK, [BodyNext]_bodyVars PROVE BodyTypeOK'
  OBVIOUS
<1>. DEFINE FlightType == [call : {"none", "sent", "stored", "failed"}, match : MaybeBody, text : Bodies]
<1>. USE DEF BodyTypeOK, history
<1>1. Closed \in ViewType /\ NoFlight \in FlightType /\ \A text \in Bodies : Known(text) \in MaybeBody
  BY DEF Closed, ViewType, NoFlight, NoBody, MaybeBody, Bodies, Known
<1>2. ASSUME NEW v \in Views
      PROVE  /\ view[v] \in ViewType /\ view[v].value \in Bodies
             /\ query[v] \in QueryType /\ query[v].answer \in Bodies /\ query[v].data.text \in Bodies
  BY DEF ViewType, QueryType, MaybeBody
<1>3. ASSUME NEW v \in Views, Open(v) PROVE BodyTypeOK'
  <2>1. [view[v] EXCEPT !.open = TRUE] \in ViewType
        /\ \A call \in {"none", "asked", "answered"} : [query[v] EXCEPT !.call = call] \in QueryType
    BY <1>2 DEF ViewType, QueryType
  <2>2. view' = [view EXCEPT ![v] = [view[v] EXCEPT !.open = TRUE]] /\ view' \in [Views -> ViewType]
    BY <1>3, <2>1 DEF Open
  <2>3. query[v].call \in {"none", "asked", "answered"}
    BY <1>2 DEF QueryType
  <2>4. query' \in [Views -> QueryType]
    BY <1>3, <2>1, <2>3 DEF Open
  <2>5. visits' \in [Views -> Nat]
    BY <1>3 DEF Open
  <2>6. fresh' \in BOOLEAN
    BY <1>3 DEF Open, Idle
  <2>. QED
    BY <1>3, <2>2, <2>4, <2>5, <2>6 DEF Open
<1>4. ASSUME NEW v \in Views, MountEditor(v) PROVE BodyTypeOK'
  <2>1. view' \in [Views -> ViewType]
    BY <1>2, <1>4 DEF MountEditor, ViewType
  <2>2. fresh' \in BOOLEAN
    BY <1>4 DEF MountEditor
  <2>. QED
    BY <1>4, <2>1, <2>2 DEF MountEditor
<1>5. ASSUME NEW v \in Views, TypeBody(v) PROVE BodyTypeOK'
  <2>1. PICK e \in BodyEdits : view' = [view EXCEPT ![v].value = @ \union {e}, ![v].pending = TRUE]
    BY <1>5 DEF TypeBody
  <2>2. view[v].value \union {e} \in Bodies
    BY <1>2 DEF Bodies
  <2>3. view' \in [Views -> ViewType]
    BY <2>1, <2>2, <1>2 DEF ViewType
  <2>4. owed' \subseteq BodyEdits
    BY <1>5 DEF TypeBody
  <2>. QED
    BY <1>5, <2>3, <2>4 DEF TypeBody
<1>6. ASSUME NEW v \in Views, Debounced(v) PROVE BodyTypeOK'
  <2>1. view' \in [Views -> ViewType]
    BY <1>2, <1>6 DEF Debounced, ViewType
  <2>2. saves' \in Seq(Bodies)
    BY <1>2, <1>6, SaveAppended DEF Debounced
  <2>. QED
    BY <1>6, <2>1, <2>2 DEF Debounced
<1>7. ASSUME NEW v \in Views, Close(v) PROVE BodyTypeOK'
  <2>1. saves' \in Seq(Bodies)
    BY <1>2, <1>7, SaveAppended DEF Close
  <2>. QED
    BY <1>1, <1>7, <2>1 DEF Close
<1>8. ASSUME NEW v \in Views, GetBody(v) PROVE BodyTypeOK'
  <2>1. query' \in [Views -> QueryType]
    BY <1>2, <1>8 DEF GetBody, QueryType
  <2>. QED
    BY <1>8, <2>1 DEF GetBody
<1>9. ASSUME NEW v \in Views, BodyRead(v) PROVE BodyTypeOK'
  <2>1. [data |-> Known(query[v].answer), call |-> "none", answer |-> {}] \in QueryType
    BY <1>1, <1>2 DEF QueryType, Bodies
  <2>. QED
    BY <1>1, <1>2, <1>9, <2>1 DEF BodyRead
<1>10. CASE StartSave
  <2>1. saves' \in Seq(Bodies) /\ flight' \in FlightType
    BY <1>10, SaveTaken DEF StartSave
  <2>. QED
    BY <1>10, <2>1 DEF StartSave
<1>11. CASE PutBody
  <2>1. flight' \in FlightType /\ body' \in Bodies
    BY <1>11 DEF PutBody
  <2>. QED
    BY <1>11, <2>1 DEF PutBody
<1>12. CASE LoseSave
  <2>1. flight' \in FlightType
    BY <1>12 DEF LoseSave
  <2>2. bodyLost' \in 0..MaxBodyLost
    BY <1>12, BodyAssumption DEF LoseSave
  <2>. QED
    BY <1>12, <2>1, <2>2 DEF LoseSave
<1>13. CASE SaveStored
  <2>1. query' = [query EXCEPT !["drawer"].data = Known(flight.text)] /\ "drawer" \in Views
    BY <1>13 DEF SaveStored, Views
  <2>2. [query["drawer"] EXCEPT !.data = Known(flight.text)] \in QueryType
    BY <1>1, <1>2, <2>1 DEF QueryType
  <2>3. query' = [query EXCEPT !["drawer"] = [query["drawer"] EXCEPT !.data = Known(flight.text)]]
    BY <2>1
  <2>4. query' \in [Views -> QueryType]
    BY <2>2, <2>3
  <2>. QED
    BY <1>1, <1>13, <2>4 DEF SaveStored
<1>14. CASE SaveRefused
  BY <1>1, <1>14 DEF SaveRefused
<1>15. CASE AgentWrites
  <2>1. PICK f \in BodyForeign : body' = body \union {f}
    BY <1>15 DEF AgentWrites
  <2>2. body' \in Bodies
    BY <2>1 DEF Bodies
  <2>. QED
    BY <1>15, <2>2 DEF AgentWrites
<1>16. CASE UNCHANGED bodyVars
  BY <1>16 DEF bodyVars
<1>. QED
  BY <1>3, <1>4, <1>5, <1>6, <1>7, <1>8, <1>9, <1>10, <1>11, <1>12, <1>13, <1>14, <1>15, <1>16 DEF BodyNext

LEMMA ViewsKept == ASSUME Sound, [BodyNext]_bodyVars PROVE ViewsFit'
<1>. USE DEF Sound, ViewsFit
<1>1. view \in [Views -> ViewType]
  BY DEF BodyTypeOK
<1>2. ASSUME NEW v \in Views, Open(v) PROVE ViewsFit'
  <2>1. /\ \A u \in Views : ~view[u].open /\ ~view[u].mounted
        /\ view'[v].mounted = view[v].mounted /\ \A u \in Views \ {v} : view'[u] = view[u]
    BY <1>1, <1>2 DEF Open, ViewType
  <2>. QED
    BY <2>1
<1>3. ASSUME NEW v \in Views, MountEditor(v) PROVE ViewsFit'
  <2>1. view[v].open /\ view'[v].open /\ \A u \in Views \ {v} : view'[u] = view[u]
    BY <1>1, <1>3 DEF MountEditor, ShowsEditor
  <2>. QED
    BY <2>1
<1>4. ASSUME NEW v \in Views, TypeBody(v) \/ Debounced(v) PROVE ViewsFit'
  <2>1. \E value, saved, pending : view' = [view EXCEPT ![v].value = value, ![v].saved = saved,
                                                       ![v].pending = pending]
    <3>1. CASE TypeBody(v)
      <4>1. PICK e \in BodyEdits : view' = [view EXCEPT ![v].value = @ \union {e}, ![v].pending = TRUE]
        BY <3>1 DEF TypeBody
      <4>2. view' = [view EXCEPT ![v].value = view[v].value \union {e}, ![v].saved = view[v].saved,
                                 ![v].pending = TRUE]
        BY <1>1, <4>1 DEF ViewType
      <4>. QED
        BY <4>2
    <3>2. CASE Debounced(v)
      <4>1. view' = [view EXCEPT ![v].value = view[v].value, ![v].saved = view[v].value,
                                 ![v].pending = FALSE]
        BY <1>1, <3>2 DEF Debounced, ViewType
      <4>. QED
        BY <4>1
    <3>. QED
      BY <1>4, <3>1, <3>2
  <2>2. \A u \in Views : view'[u].open = view[u].open /\ view'[u].mounted = view[u].mounted
    BY <1>1, <2>1 DEF ViewType
  <2>. QED
    BY <2>2
<1>5. ASSUME NEW v \in Views, Close(v) PROVE ViewsFit'
  <2>1. ~view'[v].open /\ ~view'[v].mounted /\ \A u \in Views \ {v} : view'[u] = view[u]
    BY <1>1, <1>5 DEF Close, Closed
  <2>. QED
    BY <2>1
<1>6. CASE UNCHANGED view
  BY <1>6
<1>. QED
  BY <1>2, <1>3, <1>4, <1>5, <1>6
  DEF BodyNext, bodyVars, GetBody, BodyRead, StartSave, PutBody, LoseSave, SaveStored, SaveRefused,
      AgentWrites

-----------------------------------------------------------------------------
(* Each operation keeps what holds of a fresh view *)

(* A view opens when nothing is under way, and reads. *)
LEMMA OpenStep ==
  ASSUME Sound, Idle, NEW v \in Views, Open(v)
  PROVE  Chain'
<1>1. query \in [Views -> QueryType] /\ view \in [Views -> ViewType]
  BY DEF Sound, BodyTypeOK
<1>2. /\ \A u \in Views : ~view[u].open /\ ~view[u].mounted
      /\ UNCHANGED <<body, revision, saves, flight, bodyLost>>
  BY DEF Sound, Open, ViewsFit
<1>3. query'[v].call = "asked" /\ \A u \in Views \ {v} : query'[u] = query[u]
  BY <1>1 DEF Open, Idle, QueryType
<1>4. view'[v].mounted = view[v].mounted /\ \A u \in Views \ {v} : view'[u] = view[u]
  BY <1>1 DEF Open, ViewType
<1>5. NoSaves' /\ \A u \in Views : ~view'[u].mounted
  BY <1>2, <1>4 DEF Idle, NoSaves
<1>6. ReadsFit'
  BY <1>2, <1>3, <1>4, <1>5 DEF ReadsFit, Idle, Waiting
<1>7. SavesFit'
  BY <1>5 DEF SavesFit, Covered, NoSaves
<1>8. AnswersFit'
  BY <1>2, <1>3, <1>4, <1>5 DEF AnswersFit, KnownFits, InUse, NoSaves, Waiting, InUse, Idle, Waiting
<1>. QED
  BY <1>6, <1>7, <1>8 DEF Chain

(* The editor shows what the tab knows. *)
LEMMA MountStep ==
  ASSUME Sound, Chain, NEW v \in Views, MountEditor(v), query[v].call = "none"
  PROVE  Chain'
<1>. USE DEF Sound, Chain
<1>1. query \in [Views -> QueryType] /\ view \in [Views -> ViewType]
  BY DEF BodyTypeOK
<1>. DEFINE text == query[v].data.text
<1>2. text \in Bodies
  BY <1>1 DEF QueryType, MaybeBody
<1>3. /\ view'[v] = [open |-> TRUE, mounted |-> TRUE, value |-> text, saved |-> text, pending |-> FALSE]
      /\ \A u \in Views \ {v} : view'[u] = view[u]
      /\ view' \in [Views -> ViewType]
      /\ UNCHANGED <<body, revision, query, visits, saves, flight, bodyLost>>
  BY <1>1, <1>2 DEF MountEditor, ViewType
<1>4. Waiting(v) /\ query[v].call = "none" /\ view[v].open
  BY DEF MountEditor, ShowsEditor, Waiting, ViewsFit, Views
<1>5. NoSaves /\ revision.known /\ revision.text = text
  BY <1>4 DEF ReadsFit
<1>6. \A u \in Views \ {v} : ~view[u].open /\ ~view[u].mounted
  BY <1>4 DEF ViewsFit
<1>7. ReadsFit'
  BY <1>3, <1>4 DEF ReadsFit, NoSaves, Waiting
<1>8. SavesFit'
  BY <1>3, <1>5, <1>6 DEF SavesFit, Covered, NoSaves
<1>9. AnswersFit'
  BY <1>3, <1>4 DEF AnswersFit, KnownFits, InUse, NoSaves, Waiting, GrownBy
<1>. QED
  BY <1>7, <1>8, <1>9

(* Typing adds to what is shown. *)
LEMMA KeystrokeStep ==
  ASSUME Sound, Chain, NEW v \in Views, TypeBody(v)
  PROVE  Chain'
<1>. USE DEF Sound, Chain
<1>1. view \in [Views -> ViewType]
  BY DEF BodyTypeOK
<1>2. PICK e \in BodyEdits : view' = [view EXCEPT ![v].value = @ \union {e}, ![v].pending = TRUE]
  BY DEF TypeBody
<1>3. view[v].value \union {e} \in Bodies
  BY <1>1 DEF ViewType, Bodies
<1>4. /\ view'[v].value = view[v].value \union {e}
      /\ view'[v].open = view[v].open /\ view'[v].mounted = view[v].mounted
      /\ \A u \in Views \ {v} : view'[u] = view[u]
      /\ view' \in [Views -> ViewType]
  BY <1>1, <1>2, <1>3 DEF ViewType
<1>5. /\ UNCHANGED <<body, revision, query, visits, saves, flight, bodyLost>>
      /\ \A u \in Views : /\ view'[u].open = view[u].open /\ view'[u].mounted = view[u].mounted
                          /\ view[u].value \subseteq view'[u].value
  BY <1>4 DEF TypeBody
<1>6. ReadsFit'
  BY <1>5 DEF ReadsFit, NoSaves, Waiting
<1>7. SavesFit'
  BY <1>5 DEF SavesFit, Covered, NoSaves
<1>8. AnswersFit'
  BY <1>5 DEF AnswersFit, KnownFits, InUse, NoSaves, Waiting, GrownBy
<1>. QED
  BY <1>6, <1>7, <1>8

(* A view that sends the value of its editor, and stays or closes. *)
LEMMA SendStep ==
  ASSUME Sound, Chain, NEW v \in Views, view[v].mounted, saves' = Append(saves, view[v].value),
         view' \in [Views -> ViewType], \A u \in Views \ {v} : view'[u] = view[u],
         \/ /\ view'[v].open = view[v].open /\ view'[v].mounted
            /\ view'[v].value = view[v].value
         \/ ~view'[v].open /\ ~view'[v].mounted,
         UNCHANGED <<body, revision, query, visits, flight, bodyLost>>
  PROVE  Chain'
<1>. USE DEF Sound, Chain
<1>. DEFINE text == view[v].value
<1>1. text \in Bodies /\ saves \in Seq(Bodies)
  BY DEF BodyTypeOK, ViewType
<1>2. /\ saves' \in Seq(Bodies)
      /\ DOMAIN saves' = DOMAIN saves \union {Len(saves) + 1}
      /\ \A i \in DOMAIN saves : saves'[i] = saves[i] /\ i < Len(saves) + 1
      /\ saves'[Len(saves) + 1] = text /\ Len(saves) + 1 \in Nat
  BY <1>1, SaveAppended
<1>3. view[v].open /\ \A u \in Views \ {v} : ~view[u].open /\ ~view[u].mounted
  BY DEF ViewsFit
<1>4. \A u \in Views : query[u].call = "none"
  BY <1>3 DEF ReadsFit
<1>5. ReadsFit'
  BY <1>3, <1>4 DEF ReadsFit, Waiting
<1>6. revision.known
  BY DEF SavesFit
<1>7. \A old : Covered(old) => Covered(old)'
  <2>. SUFFICES ASSUME NEW old, Covered(old) PROVE Covered(old)'
    OBVIOUS
  <2>1. \A i \in DOMAIN saves' : old \subseteq saves'[i]
    BY <1>2 DEF Covered
  <2>2. \A u \in Views : view'[u].mounted => old \subseteq view'[u].value
    BY DEF Covered
  <2>. QED
    BY <2>1, <2>2 DEF Covered
<1>8. SavesFit'
  <2>1. \A i, j \in DOMAIN saves' : i < j => saves'[i] \subseteq saves'[j]
    <3>. SUFFICES ASSUME NEW i \in DOMAIN saves', NEW j \in DOMAIN saves', i < j
                  PROVE  saves'[i] \subseteq saves'[j]
      OBVIOUS
    <3>1. i \in DOMAIN saves
      BY <1>1, <1>2
    <3>2. CASE j \in DOMAIN saves
      BY <3>1, <3>2, <1>2 DEF SavesFit
    <3>3. CASE j = Len(saves) + 1
      BY <3>1, <3>3, <1>2 DEF SavesFit
    <3>. QED
      BY <3>2, <3>3, <1>2
  <2>2. \A u \in Views : view'[u].mounted => \A i \in DOMAIN saves' : saves'[i] \subseteq view'[u].value
    BY <1>2, <1>3 DEF SavesFit
  <2>3. revision'.known /\ Covered(revision.text)'
    BY <1>6, <1>7 DEF SavesFit
  <2>4. flight'.call # "none" => /\ flight'.match = revision' /\ revision'.text \subseteq flight'.text
                                 /\ Covered(flight.text)'
    BY <1>7 DEF SavesFit
  <2>. QED
    BY <2>1, <2>2, <2>3, <2>4 DEF SavesFit
<1>9. AnswersFit'
  BY DEF AnswersFit, KnownFits, InUse, NoSaves, Waiting, GrownBy
<1>. QED
  BY <1>5, <1>8, <1>9

(* A view whose value is not sent. *)
LEMMA KeepStep ==
  ASSUME Sound, Chain, NEW v \in Views,
         view' \in [Views -> ViewType], \A u \in Views \ {v} : view'[u] = view[u],
         \/ /\ view'[v].open = view[v].open /\ view'[v].mounted = view[v].mounted
            /\ view'[v].value = view[v].value
         \/ ~view'[v].open /\ ~view'[v].mounted,
         UNCHANGED <<body, revision, query, visits, saves, flight, bodyLost>>
  PROVE  Chain'
<1>. USE DEF Sound, Chain
<1>1. ReadsFit'
  BY DEF ReadsFit, NoSaves, Waiting
<1>2. SavesFit'
  BY DEF SavesFit, Covered, NoSaves
<1>3. AnswersFit'
  BY DEF AnswersFit, KnownFits, InUse, NoSaves, Waiting, GrownBy
<1>. QED
  BY <1>1, <1>2, <1>3

LEMMA DebouncedStep ==
  ASSUME Sound, Chain, NEW v \in Views, Debounced(v)
  PROVE  Chain'
<1>1. view \in [Views -> ViewType]
  BY DEF Sound, BodyTypeOK
<1>2. /\ view' \in [Views -> ViewType] /\ \A u \in Views \ {v} : view'[u] = view[u]
      /\ view'[v].open = view[v].open /\ view'[v].mounted = view[v].mounted /\ view[v].mounted
      /\ view'[v].value = view[v].value
  BY <1>1 DEF Debounced, ViewType
<1>3. /\ UNCHANGED <<body, revision, query, visits, flight, bodyLost>>
      /\ UNCHANGED saves \/ saves' = Append(saves, view[v].value)
  BY DEF Debounced
<1>. QED
  BY <1>2, <1>3, SendStep, KeepStep

LEMMA CloseStep ==
  ASSUME Sound, Chain, NEW v \in Views, Close(v)
  PROVE  Chain'
<1>1. view \in [Views -> ViewType] /\ Closed \in ViewType
  BY DEF Sound, BodyTypeOK, Closed, ViewType, Bodies
<1>2. /\ view' \in [Views -> ViewType] /\ \A u \in Views \ {v} : view'[u] = view[u]
      /\ ~view'[v].open /\ ~view'[v].mounted
  BY <1>1 DEF Close, Closed
<1>3. /\ UNCHANGED <<body, revision, query, visits, flight, bodyLost>>
      /\ UNCHANGED saves \/ (view[v].mounted /\ saves' = Append(saves, view[v].value))
  BY DEF Close
<1>. QED
  BY <1>2, <1>3, SendStep, KeepStep

(* The body is read: nothing of this tab is under way. *)
LEMMA GetStep ==
  ASSUME Sound, Chain, NEW v \in Views, GetBody(v)
  PROVE  Chain'
<1>. USE DEF Sound, Chain
<1>1. query \in [Views -> QueryType] /\ body \in Bodies
  BY DEF BodyTypeOK
<1>2. /\ query'[v].call = "answered" /\ query'[v].answer = body /\ query'[v].data = query[v].data
      /\ \A u \in Views \ {v} : query'[u] = query[u]
      /\ query' \in [Views -> QueryType] /\ query[v].call = "asked"
      /\ UNCHANGED <<body, revision, view, visits, saves, flight, bodyLost>>
  BY <1>1 DEF GetBody, QueryType
<1>3. ReadsFit'
  BY <1>2 DEF ReadsFit, NoSaves, Waiting
<1>4. SavesFit'
  BY <1>2 DEF SavesFit, Covered, NoSaves
<1>5. AnswersFit'
  BY <1>2 DEF AnswersFit, KnownFits, InUse, NoSaves, Waiting, GrownBy
<1>. QED
  BY <1>3, <1>4, <1>5

LEMMA ReadStep ==
  ASSUME Sound, Chain, NEW v \in Views, BodyRead(v)
  PROVE  Chain'
<1>. USE DEF Sound, Chain
<1>. DEFINE text == query[v].answer
<1>1. query \in [Views -> QueryType] /\ text \in Bodies
  BY DEF BodyTypeOK, QueryType
<1>2. /\ query'[v].call = "none" /\ query'[v].answer = {} /\ query'[v].data = Known(text)
      /\ \A u \in Views \ {v} : query'[u] = query[u]
      /\ query' \in [Views -> QueryType] /\ query[v].call = "answered"
      /\ revision' = Known(text) /\ revision' \in MaybeBody
      /\ UNCHANGED <<body, view, visits, saves, flight, bodyLost>>
  BY <1>1 DEF BodyRead, QueryType, Known, MaybeBody, Bodies
<1>3. NoSaves /\ ~view[v].mounted /\ \A u \in Views \ {v} : query[u].call = "none" /\ ~view[u].open
  BY <1>2 DEF ReadsFit
<1>4. \A u \in Views : ~view[u].mounted
  BY <1>3 DEF ViewsFit
<1>5. ReadsFit'
  BY <1>2, <1>3, <1>4 DEF ReadsFit, NoSaves, Waiting, Known
<1>6. SavesFit'
  BY <1>2, <1>3, <1>4 DEF SavesFit, Covered, NoSaves
<1>7. AnswersFit'
  BY <1>2, <1>3 DEF AnswersFit, KnownFits, InUse, NoSaves, Waiting, GrownBy, NoSaves, Known
<1>. QED
  BY <1>5, <1>6, <1>7

(* The oldest save goes out, with what the tab knows. *)
LEMMA StartSaveStep == ASSUME Sound, Chain, StartSave PROVE Chain'
<1>. USE DEF Sound, Chain
<1>1. saves \in Seq(Bodies) /\ saves # <<>> /\ flight.call = "none" /\ revision \in MaybeBody
  BY DEF StartSave, BodyTypeOK
<1>2. /\ saves' \in Seq(Bodies) /\ Head(saves) \in Bodies
      /\ 1 \in DOMAIN saves /\ Head(saves) = saves[1]
      /\ \A i \in DOMAIN saves' : i + 1 \in DOMAIN saves /\ saves'[i] = saves[i + 1] /\ 1 < i + 1 /\ i \in Nat
  BY <1>1, SaveTaken DEF StartSave
<1>3. /\ flight'.call = "sent" /\ flight'.match = revision /\ flight'.text = saves[1]
      /\ flight' \in [call : {"none", "sent", "stored", "failed"}, match : MaybeBody, text : Bodies]
      /\ UNCHANGED <<body, revision, query, view, visits, bodyLost>>
  BY <1>1, <1>2 DEF StartSave
<1>4. ReadsFit'
  BY <1>1, <1>3 DEF ReadsFit, NoSaves, Waiting
<1>5. SavesFit'
  <2>1. revision.known
    BY <1>1 DEF SavesFit, NoSaves
  <2>2. revision.text \subseteq saves[1]
    BY <1>2 DEF SavesFit, Covered
  <2>3. Covered(saves[1])
    <3>1. \A i \in DOMAIN saves : saves[1] \subseteq saves[i]
      BY <1>1, <1>2 DEF SavesFit
    <3>. QED
      BY <3>1, <1>2 DEF SavesFit, Covered
  <2>4. Covered(flight.text)' /\ Covered(revision.text)'
    <3>1. Covered(revision.text)
      BY DEF SavesFit
    <3>. QED
      BY <2>3, <3>1, <1>2, <1>3 DEF Covered
  <2>5. \A i, j \in DOMAIN saves' : i < j => saves'[i] \subseteq saves'[j]
    BY <1>2 DEF SavesFit
  <2>6. \A v \in Views : view'[v].mounted => \A i \in DOMAIN saves' : saves'[i] \subseteq view'[v].value
    BY <1>2, <1>3 DEF SavesFit
  <2>. QED
    BY <2>1, <2>2, <2>4, <2>5, <2>6, <1>3 DEF SavesFit
<1>6. AnswersFit'
  BY <1>1, <1>3 DEF AnswersFit, KnownFits, InUse, NoSaves, Waiting, GrownBy
<1>. QED
  BY <1>4, <1>5, <1>6

(* The answer of a save, or its loss: only where the save is changes, and   *)
(* the body if it was accepted.                                             *)
LEMMA FlightStep ==
  ASSUME Sound, Chain, flight.call # "none",
         flight' \in [call : {"sent", "stored", "failed"}, match : {flight.match}, text : {flight.text}],
         body' \in Bodies, bodyLost' \in 0..MaxBodyLost, AnswersFit',
         UNCHANGED <<revision, query, view, visits, saves>>
  PROVE  Chain'
<1>. USE DEF Sound, Chain
<1>1. ReadsFit'
  BY DEF ReadsFit, NoSaves, Waiting
<1>2. SavesFit'
  BY DEF SavesFit, Covered, NoSaves
<1>. QED
  BY <1>1, <1>2

(* A save that is accepted contains everything that it replaces. *)
LEMMA AcceptedContains ==
  ASSUME Chain, flight.call = "sent", Matches(flight.match)
  PROVE  revision.known /\ body = revision.text /\ body \subseteq flight.text
  BY DEF Chain, SavesFit, NoSaves, Matches

LEMMA PutStep == ASSUME Sound, Chain, PutBody PROVE Chain'
<1>1. /\ flight \in [call : {"none", "sent", "stored", "failed"}, match : MaybeBody, text : Bodies]
      /\ body \in Bodies /\ bodyLost \in 0..MaxBodyLost /\ flight.call = "sent"
  BY DEF Sound, BodyTypeOK, PutBody
<1>2. UNCHANGED <<revision, query, view, visits, saves, bodyLost>>
  BY DEF PutBody
<1>3. \A v \in Views : query[v].call = "none"
  BY <1>1 DEF Chain, ReadsFit, NoSaves
<1>4. CASE Matches(flight.match)
  <2>1. body' = flight.text /\ flight' = [flight EXCEPT !.call = "stored"]
    BY <1>4 DEF PutBody
  <2>2. AnswersFit'
    BY <1>1, <1>2, <1>3, <2>1 DEF AnswersFit, KnownFits, InUse, NoSaves, Waiting, GrownBy
  <2>. QED
    BY <1>1, <1>2, <2>1, <2>2, FlightStep
<1>5. CASE ~Matches(flight.match)
  <2>1. body' = body /\ flight' = [flight EXCEPT !.call = "failed"]
    BY <1>5 DEF PutBody
  <2>2. AnswersFit'
    BY <1>1, <1>2, <2>1 DEF Chain, AnswersFit, KnownFits, InUse, NoSaves, Waiting, GrownBy
  <2>. QED
    BY <1>1, <1>2, <2>1, <2>2, FlightStep
<1>. QED
  BY <1>4, <1>5

LEMMA LoseStep == ASSUME Sound, Chain, LoseSave PROVE Chain'
<1>1. /\ flight \in [call : {"none", "sent", "stored", "failed"}, match : MaybeBody, text : Bodies]
      /\ body \in Bodies /\ bodyLost \in 0..MaxBodyLost /\ flight.call # "none"
  BY DEF Sound, BodyTypeOK, LoseSave
<1>2. /\ flight' = [flight EXCEPT !.call = "failed"] /\ bodyLost' \in 0..MaxBodyLost /\ bodyLost' # 0
      /\ UNCHANGED <<body, revision, query, view, visits, saves>>
  BY <1>1, BodyAssumption DEF LoseSave
<1>3. AnswersFit'
  BY <1>2 DEF AnswersFit
<1>. QED
  BY <1>1, <1>2, <1>3, FlightStep

(* The stored text is what the tab knows now. *)
LEMMA StoredStep == ASSUME Sound, Chain, SaveStored PROVE Chain'
<1>. USE DEF Sound, Chain
<1>1. /\ query \in [Views -> QueryType] /\ flight.text \in Bodies /\ flight.call = "stored"
      /\ NoFlight \in [call : {"none", "sent", "stored", "failed"}, match : MaybeBody, text : Bodies]
  BY DEF BodyTypeOK, SaveStored, NoFlight, NoBody, MaybeBody, Bodies
<1>2. Known(flight.text) \in MaybeBody
  BY <1>1 DEF Known, MaybeBody
<1>3. query' = [query EXCEPT !["drawer"].data = Known(flight.text)] /\ "drawer" \in Views
  BY DEF SaveStored, Views
<1>4. /\ query' \in [Views -> QueryType] /\ query'["page"] = query["page"]
      /\ \A v \in Views : query'[v].call = query[v].call /\ query'[v].answer = query[v].answer
  BY <1>1, <1>2, <1>3 DEF QueryType, Views
<1>5. /\ revision' = Known(flight.text) /\ flight' = NoFlight
      /\ UNCHANGED <<body, view, visits, saves, bodyLost>>
  BY DEF SaveStored
<1>6. \A v \in Views : query[v].call = "none" /\ ~Waiting(v)
  BY <1>1 DEF ReadsFit, NoSaves
<1>7. ReadsFit'
  BY <1>4, <1>5, <1>6 DEF ReadsFit, Waiting
<1>8. SavesFit'
  BY <1>1, <1>5 DEF SavesFit, Covered, NoSaves, NoFlight, Known
<1>9. AnswersFit'
  <2>1. revision.known
    BY <1>1 DEF SavesFit, NoSaves
  <2>. QED
    BY <1>1, <1>4, <1>5, <1>6, <2>1 DEF AnswersFit, KnownFits, InUse, NoSaves, Waiting, GrownBy, NoFlight, Known
<1>. QED
  BY <1>7, <1>8, <1>9

LEMMA RefusedStep == ASSUME Sound, Chain, SaveRefused PROVE Chain'
<1>. USE DEF Sound, Chain
<1>1. NoFlight \in [call : {"none", "sent", "stored", "failed"}, match : MaybeBody, text : Bodies]
  BY DEF NoFlight, NoBody, MaybeBody, Bodies
<1>2. /\ flight.call = "failed" /\ flight' = NoFlight
      /\ UNCHANGED <<body, revision, query, view, visits, saves, bodyLost>>
  BY DEF SaveRefused
<1>3. ReadsFit'
  BY <1>2 DEF ReadsFit, NoSaves, Waiting, NoFlight
<1>4. SavesFit'
  BY <1>2 DEF SavesFit, Covered, NoSaves, NoFlight
<1>5. AnswersFit'
  BY <1>2 DEF AnswersFit, KnownFits, InUse, NoSaves, Waiting, GrownBy, NoFlight
<1>. QED
  BY <1>3, <1>4, <1>5

LEMMA AgentStep == ASSUME Sound, Chain, AgentWrites PROVE Chain'
<1>. USE DEF Sound, Chain
<1>1. PICK f \in BodyForeign : body' = body \union {f}
  BY DEF AgentWrites
<1>2. UNCHANGED <<revision, query, view, visits, saves, flight, bodyLost>>
  BY DEF AgentWrites
<1>3. ReadsFit'
  BY <1>2 DEF ReadsFit, NoSaves, Waiting
<1>4. SavesFit'
  BY <1>2 DEF SavesFit, Covered, NoSaves
<1>5. AnswersFit'
  BY <1>1, <1>2 DEF AnswersFit, KnownFits, InUse, NoSaves, Waiting, GrownBy
<1>. QED
  BY <1>3, <1>4, <1>5

-----------------------------------------------------------------------------
(* What was typed in the drawer *)

LEMMA SaveLeft ==
  ASSUME NEW s \in Seq(Bodies), s # <<>>, NEW i \in DOMAIN s
  PROVE  s[i] = Head(s) \/ (i - 1 \in DOMAIN Tail(s) /\ Tail(s)[i - 1] = s[i])
  OBVIOUS

(* Where an edit that is owed may be. *)
Unsaved(e) == e \in view["drawer"].value \ view["drawer"].saved
Waits(e) == \E i \in DOMAIN saves : e \in saves[i]
Flies(e) == flight.call # "none" /\ e \in flight.text

(* A view's step: what it leaves is where it was, or sent.                  *)
LEMMA OwedStep ==
  ASSUME Sound, OwedFit, UNCHANGED <<flight, owed>>,
         \A e \in owed : Unsaved(e) => Unsaved(e)' \/ Waits(e)',
         \A e \in owed : Waits(e) => Waits(e)',
         \A v \in Views : /\ view'[v].saved \subseteq view'[v].value
                          /\ ~view'[v].mounted => view'[v].value = {}
  PROVE  OwedFit'
  BY DEF OwedFit, EditsAreSavedOrReported, Unsaved, Waits, Flies

(* The editor's value is sent, or there was nothing to send.                *)
LEMMA WaitingKept ==
  ASSUME Sound, NEW v \in Views,
         \/ UNCHANGED saves /\ (v = "drawer" => view[v].value = view[v].saved)
         \/ saves' = Append(saves, view[v].value),
         \A u \in Views \ {v} : view'[u] = view[u]
  PROVE  \A e \in owed : /\ Unsaved(e) => Unsaved(e)' \/ Waits(e)'
                         /\ Waits(e) => Waits(e)'
<1>1. saves \in Seq(Bodies) /\ view[v].value \in Bodies
  BY DEF Sound, BodyTypeOK, ViewType
<1>2. CASE UNCHANGED saves /\ (v = "drawer" => view[v].value = view[v].saved)
  BY <1>2 DEF Unsaved, Waits, Views
<1>3. CASE saves' = Append(saves, view[v].value)
  <2>1. \A e : Waits(e) => Waits(e)'
    BY <1>1, <1>3, SaveAppended DEF Waits
  <2>2. \A e : e \in view[v].value => Waits(e)'
    BY <1>1, <1>3, SaveAppended DEF Waits
  <2>. QED
    BY <2>1, <2>2 DEF Unsaved, Views
<1>. QED
  BY <1>2, <1>3

LEMMA OwedKept == ASSUME Sound, OwedFit, [BodyNext]_bodyVars PROVE OwedFit'
<1>. USE DEF Views
<1>1. view \in [Views -> ViewType] /\ saves \in Seq(Bodies)
  BY DEF Sound, BodyTypeOK
<1>2. ASSUME NEW v \in Views, Open(v) PROVE OwedFit'
  <2>1. \A u \in Views : /\ view'[u].value = view[u].value /\ view'[u].saved = view[u].saved
                         /\ view'[u].mounted = view[u].mounted
    BY <1>1, <1>2 DEF Open, ViewType
  <2>. QED
    BY <1>2, <2>1, OwedStep DEF Open, OwedFit, Unsaved, Waits
<1>3. ASSUME NEW v \in Views, MountEditor(v) PROVE OwedFit'
  <2>1. /\ view'[v].value = view'[v].saved /\ view'[v].mounted /\ view[v].value = {}
        /\ \A u \in Views \ {v} : view'[u] = view[u]
    BY <1>1, <1>3 DEF MountEditor, OwedFit
  <2>. QED
    BY <1>3, <2>1, OwedStep DEF MountEditor, OwedFit, Unsaved, Waits
<1>4. ASSUME NEW v \in Views, TypeBody(v) PROVE OwedFit'
  <2>1. PICK e \in BodyEdits \ (view[v].value \union body) :
           /\ flight.call # "none" => e \notin flight.text
           /\ view' = [view EXCEPT ![v].value = @ \union {e}, ![v].pending = TRUE]
           /\ owed' = IF v = "drawer" THEN owed \union {e} ELSE owed
    BY <1>4 DEF TypeBody
  <2>2. /\ view'[v].value = view[v].value \union {e} /\ view'[v].saved = view[v].saved
        /\ view'[v].mounted = view[v].mounted /\ view[v].mounted
        /\ \A u \in Views \ {v} : view'[u] = view[u]
    BY <1>1, <1>4, <2>1 DEF TypeBody, ViewType
  <2>3. UNCHANGED <<saves, flight>>
    BY <1>4 DEF TypeBody
  <2>4. e \notin view[v].saved
    BY <2>1 DEF OwedFit
  <2>5. EditsAreSavedOrReported'
    BY <2>1, <2>2, <2>3, <2>4 DEF OwedFit, EditsAreSavedOrReported
  <2>6. flight'.call = "stored" => owed' \cap flight'.text = {}
    BY <2>1, <2>3 DEF OwedFit
  <2>7. \A u \in Views : /\ view'[u].saved \subseteq view'[u].value
                         /\ ~view'[u].mounted => view'[u].value = {}
    BY <2>2 DEF OwedFit
  <2>. QED
    BY <2>5, <2>6, <2>7 DEF OwedFit
<1>5. ASSUME NEW v \in Views, Debounced(v) PROVE OwedFit'
  <2>1. /\ view'[v].value = view[v].value /\ view'[v].saved = view[v].value
        /\ view'[v].mounted /\ \A u \in Views \ {v} : view'[u] = view[u]
    BY <1>1, <1>5 DEF Debounced, ViewType
  <2>2. \/ UNCHANGED saves /\ (v = "drawer" => view[v].value = view[v].saved)
        \/ saves' = Append(saves, view[v].value)
    BY <1>5 DEF Debounced
  <2>3. UNCHANGED <<flight, owed>>
    BY <1>5 DEF Debounced, history
  <2>4. \A u \in Views : /\ view'[u].saved \subseteq view'[u].value
                         /\ ~view'[u].mounted => view'[u].value = {}
    BY <2>1 DEF OwedFit
  <2>. QED
    BY <2>1, <2>2, <2>3, <2>4, OwedStep, WaitingKept
<1>6. ASSUME NEW v \in Views, Close(v) PROVE OwedFit'
  <2>1. /\ view'[v].value = {} /\ view'[v].saved = {}
        /\ \A u \in Views \ {v} : view'[u] = view[u]
    BY <1>1, <1>6 DEF Close, Closed
  <2>2. \/ UNCHANGED saves /\ (v = "drawer" => view[v].value = view[v].saved)
        \/ saves' = Append(saves, view[v].value)
    BY <1>6 DEF Close, OwedFit
  <2>3. UNCHANGED <<flight, owed>>
    BY <1>6 DEF Close, history
  <2>4. \A u \in Views : /\ view'[u].saved \subseteq view'[u].value
                         /\ ~view'[u].mounted => view'[u].value = {}
    BY <2>1 DEF OwedFit
  <2>. QED
    BY <2>1, <2>2, <2>3, <2>4, OwedStep, WaitingKept
<1>7. CASE StartSave
  <2>1. /\ flight'.call = "sent" /\ flight'.text = Head(saves) /\ saves' = Tail(saves)
        /\ flight.call = "none" /\ saves # <<>> /\ UNCHANGED <<view, owed>>
    BY <1>7 DEF StartSave, history
  <2>2. \A e : Waits(e) => Flies(e)' \/ Waits(e)'
    BY <1>1, <2>1, SaveLeft DEF Waits, Flies
  <2>. QED
    BY <2>1, <2>2 DEF OwedFit, EditsAreSavedOrReported, Waits, Flies
<1>8. CASE PutBody
  <2>1. /\ flight'.text = flight.text /\ flight'.call # "none" /\ flight.call # "none"
        /\ \/ owed' = owed /\ flight'.call = "failed"
           \/ owed' = owed \ flight.text
    BY <1>8 DEF Sound, BodyTypeOK, PutBody
  <2>. QED
    BY <1>8, <2>1 DEF PutBody, OwedFit, EditsAreSavedOrReported
<1>9. CASE LoseSave
  <2>1. flight'.text = flight.text /\ flight'.call = "failed" /\ flight.call # "none"
    BY <1>9 DEF Sound, BodyTypeOK, LoseSave
  <2>. QED
    BY <1>9, <2>1 DEF LoseSave, OwedFit, EditsAreSavedOrReported, history
<1>10. CASE SaveStored
  BY <1>10 DEF SaveStored, NoFlight, OwedFit, EditsAreSavedOrReported, history
<1>11. CASE SaveRefused
  BY <1>11 DEF SaveRefused, NoFlight, OwedFit, EditsAreSavedOrReported
<1>12. CASE UNCHANGED <<view, saves, flight, owed>>
  BY <1>12 DEF OwedFit, EditsAreSavedOrReported
<1>. QED
  BY <1>2, <1>3, <1>4, <1>5, <1>6, <1>7, <1>8, <1>9, <1>10, <1>11, <1>12
  DEF BodyNext, bodyVars, history, GetBody, BodyRead, AgentWrites

-----------------------------------------------------------------------------
(* The invariant, and the theorems *)

LEMMA BodyInitInv == BodyInit => BodyInv
<1>. SUFFICES ASSUME BodyInit PROVE BodyInv
  OBVIOUS
<1>. USE DEF BodyInit
<1>1. {} \in Bodies /\ NoBody \in MaybeBody /\ Closed \in ViewType /\ <<>> \in Seq(Bodies)
      /\ NoFlight \in [call : {"none", "sent", "stored", "failed"}, match : MaybeBody, text : Bodies]
      /\ 0 \in 0..MaxBodyLost
  BY BodyAssumption DEF Bodies, NoBody, MaybeBody, Closed, ViewType, NoFlight
<1>2. BodyTypeOK
  BY <1>1 DEF BodyTypeOK, QueryType
<1>3. ViewsFit /\ OwedFit
  BY DEF ViewsFit, OwedFit, EditsAreSavedOrReported, Closed, NoFlight
<1>. QED
  BY <1>2, <1>3 DEF BodyInv, Sound

(* A view is fresh after a step only if it was before, or opens at rest.    *)
LEMMA ChainKept == ASSUME Sound, fresh => Chain, BodyNext, fresh' PROVE Chain'
<1>1. ASSUME NEW v \in Views, Open(v) PROVE Chain'
  <2>1. Idle
    BY <1>1 DEF Open
  <2>. QED
    BY <1>1, <2>1, OpenStep
<1>2. ASSUME NEW v \in Views, MountEditor(v) PROVE Chain'
  <2>1. fresh /\ query[v].call = "none"
    BY <1>2 DEF MountEditor
  <2>. QED
    BY <1>2, <2>1, MountStep
<1>3. CASE ~(\E v \in Views : Open(v) \/ MountEditor(v))
  <2>1. fresh
    BY <1>3 DEF BodyNext, history, TypeBody, Debounced, Close, GetBody, BodyRead, StartSave, PutBody,
                LoseSave, SaveStored, SaveRefused, AgentWrites
  <2>. QED
    BY <1>3, <2>1, KeystrokeStep, DebouncedStep, CloseStep, GetStep, ReadStep, StartSaveStep, PutStep,
       LoseStep, StoredStep, RefusedStep, AgentStep DEF BodyNext
<1>. QED
  BY <1>1, <1>2, <1>3

LEMMA BodyInvKept == BodyInv /\ [BodyNext]_bodyVars => BodyInv'
<1>. SUFFICES ASSUME BodyInv, [BodyNext]_bodyVars PROVE BodyInv'
  OBVIOUS
<1>1. Sound' /\ OwedFit'
  BY BodyTypesKept, ViewsKept, OwedKept DEF BodyInv, Sound
<1>2. CASE UNCHANGED bodyVars
  <2>1. (fresh => Chain)'
    BY <1>2 DEF bodyVars, BodyInv, Chain, ReadsFit, SavesFit, AnswersFit, KnownFits, InUse, GrownBy,
                Covered, NoSaves, Waiting
  <2>. QED
    BY <1>1, <2>1 DEF BodyInv
<1>3. CASE BodyNext
  BY <1>1, <1>3, ChainKept DEF BodyInv
<1>. QED
  BY <1>2, <1>3

(* The description, the tab's copies of it, its editors and its saves keep  *)
(* their types.                                                             *)
THEOREM BodyTypeCorrect == BodySpec => []BodyTypeOK
<1>1. BodyInv => BodyTypeOK
  BY DEF BodyInv, Sound
<1>. QED
  BY <1>1, BodyInitInv, BodyInvKept, PTL DEF BodySpec

(* What was typed in the drawer is saved, on its way or reported as refused,*)
(* whenever views are opened and closed and whatever answers are late or    *)
(* lost (task-editor-drawer.tsx, useTaskMutation.ts).                       *)
THEOREM DrawerEditsReachTheServer == BodySpec => []EditsAreSavedOrReported
<1>1. BodyInv => EditsAreSavedOrReported
  BY DEF BodyInv, OwedFit
<1>. QED
  BY <1>1, BodyInitInv, BodyInvKept, PTL DEF BodySpec

(* A view that was opened at rest and shows what it has read takes nothing  *)
(* out of the description: a save that is accepted contains what it         *)
(* replaces (task-body-revision.ts, putTaskBody).                           *)
THEOREM FreshEditorsKeepTheText == BodySpec => FreshEditorOverwritesNothing
<1>1. BodyInv /\ [BodyNext]_bodyVars => [fresh => body \subseteq body']_bodyVars
  <2>. SUFFICES ASSUME BodyInv, BodyNext, fresh PROVE body \subseteq body'
    OBVIOUS
  <2>1. CASE PutBody
    BY <2>1, AcceptedContains DEF BodyInv, PutBody
  <2>2. CASE AgentWrites
    BY <2>2 DEF AgentWrites
  <2>3. CASE ~PutBody /\ ~AgentWrites
    <3>1. body' = body
      BY <2>3 DEF BodyNext, Open, MountEditor, TypeBody, Debounced, Close, GetBody, BodyRead,
                  StartSave, LoseSave, SaveStored, SaveRefused
    <3>. QED
      BY <3>1
  <2>. QED
    BY <2>1, <2>2, <2>3
<1>. QED
  BY <1>1, BodyInitInv, BodyInvKept, PTL DEF BodySpec, FreshEditorOverwritesNothing

(* Nor is it refused for the tab's own writes: what is refused meets what   *)
(* an agent wrote, or follows a lost answer (taskHandler.go).               *)
THEOREM FreshSavesMatch == BodySpec => []RefusedOnlyForOthers
<1>1. BodyInv => RefusedOnlyForOthers
  <2>. SUFFICES ASSUME BodyInv, fresh, flight.call = "sent", ~Matches(flight.match), ~(bodyLost > 0)
                PROVE  (body \ flight.match.text) \cap BodyForeign # {}
    BY DEF RefusedOnlyForOthers, RefusedMeansElsewhere
  <2>1. bodyLost = 0
    BY BodyAssumption DEF BodyInv, Sound, BodyTypeOK
  <2>2. flight.match = revision /\ revision.known
    BY DEF BodyInv, Chain, SavesFit, NoSaves
  <2>3. GrownBy(revision.text)
    BY <2>1, <2>2 DEF BodyInv, Chain, AnswersFit, KnownFits, InUse, NoSaves
  <2>4. revision.text # body
    BY <2>2 DEF Matches
  <2>. QED
    BY <2>2, <2>3, <2>4 DEF GrownBy
<1>. QED
  BY <1>1, BodyInitInv, BodyInvKept, PTL DEF BodySpec
=============================================================================
