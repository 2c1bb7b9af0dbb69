---------------------------- MODULE CommitProofs ----------------------------
(***************************************************************************)
(* What TLAPS proves about CommitEngine, for every set of paths, values    *)
(* and windows, every bound and every combination of disturbances; and     *)
(* about the bar of the client working alone on the router.                *)
(***************************************************************************)
EXTENDS CommitRefinement, TLAPS

USE DEF router, stores, panels, history

LEMMA IdleIsAPanel == Idle \in Panel
BY DEF Idle, Panel, Actions

LEMMA ClosedIsATimer == Closed \in Timer
BY DEF Closed, Timer

(* The parts of TypeOK a step of one kind can disturb. *)
LEMMA InitTypeOK == Init => TypeOK
<1> SUFFICES ASSUME Init PROVE TypeOK
  OBVIOUS
<1>1. timer \in Timer
  BY ClosedIsATimer DEF Init
<1>2. ui \in [Panels -> Panel]
  BY IdleIsAPanel DEF Init
<1>3. nextId \in 1..(MaxEntries + 1)
  BY MaxEntriesAssumption DEF Init
<1> QED
  BY <1>1, <1>2, <1>3 DEF Init, TypeOK

LEMMA QueueTypeOK == TypeOK /\ Queue => TypeOK'
<1> SUFFICES ASSUME TypeOK, Queue PROVE TypeOK'
  OBVIOUS
<1> USE MaxEntriesAssumption, UserOpsAssumption
<1>1. CASE \E op \in UserOps : AddAppend(op)
  BY <1>1 DEF AddAppend, TypeOK, Entry, Ids
<1>2. CASE \E op \in UserOps : AddCancel(op)
  BY <1>2 DEF AddCancel, TypeOK
<1>3. CASE \E e \in changes : Remove(e)
  BY <1>3 DEF Remove, TypeOK
<1>4. CASE Discard
  BY <1>4 DEF Discard, TypeOK
<1>5. CASE DismissError
  BY <1>5 DEF DismissError, TypeOK
<1>6. CASE MarkAsSaved
  BY <1>6 DEF MarkAsSaved, TypeOK
<1> QED
  BY <1>1, <1>2, <1>3, <1>4, <1>5, <1>6 DEF Queue

(* What a click sends, and what sending does. *)
LEMMA AskIsARequest ==
  ASSUME TypeOK, NEW p \in Panels, NEW kind \in Kinds
  PROVE  Ask(p, kind) \in Request
<1>1. ui[p].action \in Actions
  BY DEF TypeOK, Panel
<1> QED
  BY <1>1 DEF Ask, Request

LEMMA SendTypeOK ==
  ASSUME TypeOK, NEW p \in Panels, NEW r \in Request, Send(p, r)
  PROVE  TypeOK'
<1>1. [ui[p] EXCEPT !.busy = TRUE] \in Panel
  BY DEF TypeOK, Panel
<1>2. ui' \in [Panels -> Panel]
  BY <1>1 DEF TypeOK, Send
<1> QED
  BY <1>2 DEF Send, TypeOK

LEMMA ClickTypeOK == TypeOK /\ Click => TypeOK'
<1> SUFFICES ASSUME TypeOK, Click PROVE TypeOK'
  OBVIOUS
<1>1. ASSUME NEW alsoSave \in BOOLEAN, NEW safeApply \in BOOLEAN,
             ClickCommit(alsoSave, safeApply)
      PROVE  TypeOK'
  <2> DEFINE r == [Ask("bar", "commit") EXCEPT
                     !.action = "commit", !.ents = changes,
                     !.conf = safeApply, !.then = alsoSave]
  <2>1. Ask("bar", "commit") \in Request
    BY AskIsARequest DEF Panels, Kinds
  <2>2. r \in Request
    BY <2>1 DEF Request, Actions, TypeOK
  <2> QED
    BY <1>1, <2>2, SendTypeOK DEF ClickCommit, Panels
<1>2. ASSUME NEW p \in Panels, ClickKeep(p)
      PROVE  TypeOK'
  <2> DEFINE r == [Ask(p, "keep") EXCEPT
                     !.ents = ui[p].ents, !.then = ui[p].then,
                     !.asked = ui[p].asked, !.win = ui[p].win]
  <2>1. Ask(p, "keep") \in Request
    BY AskIsARequest DEF Kinds
  <2>2. ui[p] \in Panel
    BY DEF TypeOK
  <2>3. r \in Request
    BY <2>1, <2>2 DEF Request, Panel
  <2> QED
    BY <1>2, <2>3, SendTypeOK DEF ClickKeep
<1>3. CASE ClickSave
  BY <1>3, AskIsARequest, SendTypeOK DEF ClickSave, Panels, Kinds
<1>4. CASE ClickRollback
  <2> DEFINE r == [Ask("bar", "rollback") EXCEPT
                     !.action = "rollback", !.conf = TRUE]
  <2>1. Ask("bar", "rollback") \in Request
    BY AskIsARequest DEF Panels, Kinds
  <2>2. r \in Request
    BY <2>1 DEF Request, Actions
  <2> QED
    BY <1>4, <2>2, SendTypeOK DEF ClickRollback, Panels
<1>5. CASE ClickPowerSave
  BY <1>5, AskIsARequest, SendTypeOK DEF ClickPowerSave, Panels, Kinds
<1>6. CASE ClickPowerRollback
  <2> DEFINE r == [Ask("roller", "rollback") EXCEPT
                     !.action = "rollback", !.conf = TRUE]
  <2>1. Ask("roller", "rollback") \in Request
    BY AskIsARequest DEF Panels, Kinds
  <2>2. r \in Request
    BY <2>1 DEF Request, Actions
  <2> QED
    BY <1>6, <2>2, SendTypeOK DEF ClickPowerRollback, Panels
<1>7. ASSUME NEW safeApply \in BOOLEAN, ClickImport(safeApply)
      PROVE  TypeOK'
  <2> DEFINE e == [id |-> nextId, op |-> ImportOp]
             r == [Ask("importer", "import") EXCEPT
                     !.action = "import", !.conf = safeApply, !.ents = {e}]
  <2>1. Ask("importer", "import") \in Request
    BY AskIsARequest DEF Panels, Kinds
  <2>2. e \in Entry
    BY <1>7, UserOpsAssumption DEF ClickImport, Entry
  <2>3. r \in Request
    BY <2>1, <2>2 DEF Request, Actions
  <2>4. requests' \subseteq Request
    BY <1>7, <2>3 DEF ClickImport, TypeOK
  <2>5. [ui["importer"] EXCEPT !.busy = TRUE] \in Panel
    BY DEF TypeOK, Panel, Panels
  <2>6. ui' \in [Panels -> Panel]
    BY <1>7, <2>5 DEF ClickImport, TypeOK
  <2>7. nextId' \in 1..(MaxEntries + 1)
    BY <1>7, MaxEntriesAssumption DEF ClickImport, TypeOK, Ids
  <2> QED
    BY <1>7, <2>4, <2>6, <2>7 DEF ClickImport, TypeOK
<1> QED
  BY <1>1, <1>2, <1>3, <1>4, <1>5, <1>6, <1>7 DEF Click

(* What the router answers, and which windows it opens. *)
LEMMA AnswerTypeOK ==
  ASSUME TypeOK, NEW r \in requests, NEW st \in {"sent", "ok", "err"},
         NEW w \in Windows \cup {NoWindow}, Answer(r, st, w)
  PROVE  requests' \subseteq Request
<1>1. r \in Request
  BY DEF TypeOK
<1>2. [r EXCEPT !.st = st, !.win = w] \in Request
  BY <1>1 DEF Request
<1> QED
  BY <1>2 DEF Answer, TypeOK

LEMMA RunTimedTypeOK ==
  ASSUME TypeOK, NEW r \in requests, RunTimed(r)
  PROVE  timer' \in Timer /\ requests' \subseteq Request
<1>1. PICK w \in Windows \ WindowsInUse :
        /\ timer' \in {[win |-> w, restore |-> running]} \cup
             IF timer.win = NoWindow THEN {}
             ELSE {[win |-> w, restore |-> timer.restore]}
        /\ Answer(r, "ok", w)
  BY DEF RunTimed
<1>2. requests' \subseteq Request
  BY <1>1, AnswerTypeOK
<1>3. timer' \in Timer
  BY <1>1 DEF TypeOK, Timer
<1> QED
  BY <1>2, <1>3

LEMMA RunConfirmableTypeOK ==
  ASSUME TypeOK, NEW r \in requests, RunConfirmable(r)
  PROVE  timer' \in Timer /\ requests' \subseteq Request
<1>1. CASE RunTimed(r)
  BY <1>1, RunTimedTypeOK
<1>2. CASE RunUntimed(r)
  BY <1>2, AnswerTypeOK DEF RunUntimed, TypeOK
<1> QED
  BY <1>1, <1>2 DEF RunConfirmable

LEMMA RunsTypeOK ==
  ASSUME TypeOK, NEW r \in requests, Runs(r)
  PROVE  TypeOK'
<1>1. r \in Request /\ r.ents \subseteq Entry /\ r.win \in Windows \cup {NoWindow}
  BY DEF TypeOK, Request
<1>2. CASE RouterCommit(r)
  BY <1>1, <1>2, RunConfirmableTypeOK DEF RouterCommit, TypeOK
<1>3. CASE RouterImport(r)
  <2>1. running' \subseteq Entry
    BY <1>1, <1>3 DEF RouterImport, TypeOK
  <2> QED
    BY <1>1, <1>3, <2>1, RunConfirmableTypeOK DEF RouterImport, TypeOK
<1>4. CASE RouterRollback(r)
  BY <1>4, RunTimedTypeOK DEF RouterRollback, TypeOK
<1>5. CASE RouterKeep(r)
  BY <1>1, <1>5, AnswerTypeOK, ClosedIsATimer DEF RouterKeep, TypeOK
<1>6. CASE RouterSave(r)
  BY <1>6, AnswerTypeOK DEF RouterSave, TypeOK
<1>7. CASE RouterRefuse(r)
  BY <1>1, <1>7, AnswerTypeOK DEF RouterRefuse, TypeOK
<1> QED
  BY <1>2, <1>3, <1>4, <1>5, <1>6, <1>7 DEF Runs

LEMMA RouterTypeOK == TypeOK /\ (RouterExpire \/ Reboot) => TypeOK'
<1> SUFFICES ASSUME TypeOK, RouterExpire \/ Reboot PROVE TypeOK'
  OBVIOUS
<1>1. CASE RouterExpire
  BY <1>1, ClosedIsATimer DEF RouterExpire, TypeOK, Timer
<1>2. CASE Reboot
  <2>1. requests' \subseteq Request
    BY <1>2 DEF Reboot, TypeOK, Request
  <2> QED
    BY <1>2, <2>1, ClosedIsATimer DEF Reboot, TypeOK
<1> QED
  BY <1>1, <1>2

(* What a reply does to the panel that waits for it. *)
LEMMA ShowTypeOK ==
  ASSUME TypeOK, NEW r \in requests, NEW panel \in Panel, Show(r, panel)
  PROVE  ui' \in [Panels -> Panel]
BY DEF Show, TypeOK, Request

LEMMA ProceedToSaveTypeOK ==
  ASSUME TypeOK, NEW r \in requests, ProceedToSave(r)
  PROVE  ui' \in [Panels -> Panel] /\ requests' \subseteq Request
<1>1. r \in Request
  BY DEF TypeOK
<1>2. CASE r.then
  <2>1. Ask(r.from, "save") \in Request
    BY <1>1, AskIsARequest DEF Request, Kinds
  <2>2. SaveAfter(r) \in Request
    BY <1>1, <2>1 DEF SaveAfter, Request
  <2>3. [Idle EXCEPT !.busy = TRUE] \in Panel
    BY IdleIsAPanel DEF Panel
  <2> QED
    BY <1>2, <2>2, <2>3, ShowTypeOK DEF ProceedToSave, TypeOK
<1>3. CASE ~r.then
  BY <1>3, IdleIsAPanel, ShowTypeOK DEF ProceedToSave, TypeOK
<1> QED
  BY <1>2, <1>3

LEMMA RecordCommitTypeOK ==
  ASSUME TypeOK, NEW r \in requests, RecordCommit(r)
  PROVE  TypeOK'
<1>1. r.ents \subseteq Entry
  BY DEF TypeOK, Request
<1>2. ui' \in [Panels -> Panel] /\ requests' \subseteq Request
  BY ProceedToSaveTypeOK DEF RecordCommit
<1> QED
  BY <1>1, <1>2 DEF RecordCommit, TypeOK

LEMMA RepliesTypeOK ==
  ASSUME TypeOK, NEW r \in requests, Replies(r)
  PROVE  TypeOK'
<1>1. r \in Request
  BY DEF TypeOK
<1>2. CASE OpenWindow(r)
  <2>1. [busy |-> FALSE, win |-> r.win, action |-> r.action,
         ents |-> r.ents, then |-> r.then, asked |-> r.then] \in Panel
    BY <1>1 DEF Request, Panel
  <2>2. ui' \in [Panels -> Panel]
    BY <1>2, <2>1, ShowTypeOK DEF OpenWindow
  <2> QED
    BY <1>2, <2>2 DEF OpenWindow, TypeOK
<1>3. CASE CommitDone(r)
  BY <1>3, RecordCommitTypeOK DEF CommitDone
<1>4. CASE KeepCommitDone(r)
  BY <1>4, RecordCommitTypeOK DEF KeepCommitDone
<1>5. CASE ImportDone(r)
  <2>1. ui' \in [Panels -> Panel]
    BY <1>5, IdleIsAPanel, ShowTypeOK DEF ImportDone
  <2>2. r.ents \subseteq Entry
    BY <1>1 DEF Request
  <2> QED
    BY <1>5, <2>1, <2>2 DEF ImportDone, TypeOK
<1>6. CASE KeepRollbackDone(r)
  <2>1. ui' \in [Panels -> Panel]
    BY <1>6, IdleIsAPanel, ShowTypeOK DEF KeepRollbackDone
  <2> QED
    BY <1>6, <2>1 DEF KeepRollbackDone, TypeOK
<1>7. CASE SaveDone(r)
  <2>1. ui' \in [Panels -> Panel]
    BY <1>7, IdleIsAPanel, ShowTypeOK DEF SaveDone
  <2> QED
    BY <1>7, <2>1 DEF SaveDone, TypeOK
<1>8. CASE Fails(r)
  <2>1. ui[r.from] \in Panel
    BY <1>1 DEF TypeOK, Request
  <2>2. [ui[r.from] EXCEPT !.busy = FALSE,
           !.then = IF r.kind = "keep" THEN FALSE ELSE @] \in Panel
    BY <2>1 DEF Panel
  <2>3. ui' \in [Panels -> Panel]
    BY <1>8, <2>2, ShowTypeOK DEF Fails
  <2>4. [r EXCEPT !.ui = "gone"] \in Request
    BY <1>1 DEF Request
  <2>5. requests' \subseteq Request
    BY <1>8, <2>4 DEF Fails, TypeOK
  <2> QED
    BY <1>8, <2>3, <2>5 DEF Fails, TypeOK
<1> QED
  BY <1>2, <1>3, <1>4, <1>5, <1>6, <1>7, <1>8 DEF Replies

LEMMA UiExpireTypeOK ==
  ASSUME TypeOK, NEW p \in Panels, UiExpire(p)
  PROVE  TypeOK'
<1>1. [Idle EXCEPT !.busy = ui[p].busy] \in Panel
  BY IdleIsAPanel DEF TypeOK, Panel
<1>2. ui' \in [Panels -> Panel]
  BY <1>1 DEF UiExpire, TypeOK
<1> QED
  BY <1>2 DEF UiExpire, TypeOK

LEMMA UnmountedTypeOK ==
  ASSUME TypeOK, NEW ps PROVE Unmounted(ps) \subseteq Request
BY DEF TypeOK, Request, Unmounted

LEMMA LeaveTypeOK == TypeOK /\ Leave => TypeOK'
<1> SUFFICES ASSUME TypeOK, Leave PROVE TypeOK'
  OBVIOUS
<1>1. CASE LeavePage
  <2>1. ui' \in [Panels -> Panel]
    BY <1>1, IdleIsAPanel DEF LeavePage, TypeOK
  <2> QED
    BY <1>1, <2>1, UnmountedTypeOK DEF LeavePage, TypeOK
<1>2. ASSUME NEW forget \in BOOLEAN, SignOut(forget) PROVE TypeOK'
  BY <1>2, IdleIsAPanel, UnmountedTypeOK DEF SignOut, TypeOK
<1>3. CASE Reload
  <2>1. requests' \subseteq Request
    BY <1>3 DEF Reload, TypeOK, Request
  <2> QED
    BY <1>3, <2>1, IdleIsAPanel DEF Reload, TypeOK, Persisted
<1> QED
  BY <1>1, <1>2, <1>3 DEF Leave

LEMMA NextTypeOK == TypeOK /\ [Next]_vars => TypeOK'
<1> SUFFICES ASSUME TypeOK, [Next]_vars PROVE TypeOK'
  OBVIOUS
<1>1. CASE Queue
  BY <1>1, QueueTypeOK
<1>2. CASE Click
  BY <1>2, ClickTypeOK
<1>3. CASE \E r \in requests : Runs(r) \/ Replies(r)
  BY <1>3, RunsTypeOK, RepliesTypeOK
<1>4. CASE RouterExpire \/ Reboot
  BY <1>4, RouterTypeOK
<1>5. CASE \E p \in Panels : UiExpire(p)
  BY <1>5, UiExpireTypeOK
<1>6. CASE Leave
  BY <1>6, LeaveTypeOK
<1>7. CASE UNCHANGED vars
  BY <1>7 DEF vars, TypeOK
<1> QED
  BY <1>1, <1>2, <1>3, <1>4, <1>5, <1>6, <1>7 DEF Next

(* Every variable of the engine keeps its type: panels, requests, the       *)
(* router's timer and both lists, whatever interleaves.                     *)
THEOREM TypeCorrect == Spec => []TypeOK
<1>1. Init => TypeOK
  BY InitTypeOK
<1>2. TypeOK /\ [Next]_vars => TypeOK'
  BY NextTypeOK
<1> QED
  BY <1>1, <1>2, PTL DEF Spec

-----------------------------------------------------------------------------
(***************************************************************************)
(* The bookkeeping of the two lists the user is shown is correct for every *)
(* set of paths, values and windows, every bound, and every combination of *)
(* disturbances: BookkeepingInv is inductive, and implies the properties   *)
(* NoEditLost, NeverPendingAndCommitted and RecordedWasApplied.            *)
(***************************************************************************)

(* What time does not undo: applied and the ids grow, and a change queued   *)
(* later has a later id.                                                   *)
Forward ==
  /\ applied \subseteq applied'
  /\ nextId =< nextId'
  /\ \A e \in changes' \ changes : e.id = nextId

LEMMA SoundRequestStays ==
  ASSUME TypeOK, TypeOK', Forward,
         NEW r \in Request, SoundRequest(r)
  PROVE  SoundRequest(r)'
<1>1. \A e \in r.ents : e \in Entry /\ e.id \in Ids
  BY DEF Request, Entry
<1>2. nextId \in Nat /\ nextId' \in Nat
  BY MaxEntriesAssumption DEF TypeOK
<1>3. \A e \in r.ents : e.id < nextId'
  BY <1>1, <1>2, MaxEntriesAssumption DEF SoundRequest, Forward, Ids
<1>4. \A e \in r.ents : e \notin changes' \ changes
  BY <1>1, <1>2, MaxEntriesAssumption DEF SoundRequest, Forward, Ids
<1> QED
  BY <1>3, <1>4 DEF SoundRequest, Forward

LEMMA SoundPanelStays ==
  ASSUME TypeOK, TypeOK', Forward,
         NEW p \in Panels, SoundPanel(p), ui'[p].ents = ui[p].ents,
         ui'[p].win = ui[p].win
  PROVE  SoundPanel(p)'
<1>1. \A e \in ui[p].ents : e \in Entry /\ e.id \in Ids
  BY DEF TypeOK, Panel, Entry
<1>2. nextId \in Nat /\ nextId' \in Nat
  BY MaxEntriesAssumption DEF TypeOK
<1>3. \A e \in ui[p].ents : e.id < nextId'
  BY <1>1, <1>2, MaxEntriesAssumption DEF SoundPanel, Forward, Ids
<1>4. \A e \in ui[p].ents : e \notin changes' \ changes
  BY <1>1, <1>2, MaxEntriesAssumption DEF SoundPanel, Forward, Ids
<1> QED
  BY <1>3, <1>4 DEF SoundPanel, Forward

(* A request that only moved on: same panel, kind and entries.             *)
LEMMA SoundRequestMovesOn ==
  ASSUME NEW r, SoundRequest(r),
         NEW q, q.kind = r.kind, q.from = r.from, q.ents = r.ents,
         q.st = "ok" => r.st = "ok"
  PROVE  SoundRequest(q)
BY DEF SoundRequest

LEMMA NothingToRecordIsSound ==
  ASSUME NEW r, r.ents = {} PROVE SoundRequest(r)
BY DEF SoundRequest

LEMMA InitBookkeeping == Init => BookkeepingInv
<1> SUFFICES ASSUME Init PROVE BookkeepingInv
  OBVIOUS
<1>1. TypeOK
  BY InitTypeOK
<1>2. \A p \in Panels : SoundPanel(p)
  BY DEF Init, SoundPanel, Idle
<1> QED
  BY <1>1, <1>2 DEF Init, BookkeepingInv, NoEditLost,
     NeverPendingAndCommitted, RecordedWasApplied

(* Steps that touch neither a list's content nor a panel's entries.        *)
LEMMA QueueBookkeeping == BookkeepingInv /\ Queue => BookkeepingInv'
<1> SUFFICES ASSUME BookkeepingInv, Queue PROVE BookkeepingInv'
  OBVIOUS
<1>1. TypeOK /\ TypeOK'
  BY QueueTypeOK DEF BookkeepingInv
<1>2. nextId \in Nat
  BY <1>1, MaxEntriesAssumption DEF TypeOK
<1>3. \A e \in changes \cup committed : e.id \in Nat
  BY <1>1, MaxEntriesAssumption DEF TypeOK, Entry, Ids
<1>a. ASSUME NEW op \in UserOps, AddAppend(op) PROVE BookkeepingInv'
  <2> DEFINE new == [id |-> nextId, op |-> op]
  <2>1. Forward
    BY <1>a, <1>2 DEF AddAppend, Forward
  <2>2. \A r \in requests' : SoundRequest(r)'
    BY <1>a, <1>1, <2>1, SoundRequestStays DEF AddAppend, BookkeepingInv, TypeOK
  <2>3. \A p \in Panels : SoundPanel(p)'
    BY <1>a, <1>1, <2>1, SoundPanelStays DEF AddAppend, BookkeepingInv
  <2>4. new \notin committed
    BY <1>2 DEF BookkeepingInv
  <2>5. \A e \in changes' \cup committed' : e.id < nextId'
    BY <1>a, <1>2, <1>3 DEF AddAppend, BookkeepingInv
  <2> QED
    BY <1>a, <1>1, <2>2, <2>3, <2>4, <2>5 DEF AddAppend, BookkeepingInv,
       NoEditLost, NeverPendingAndCommitted, RecordedWasApplied
<1>b. ASSUME changes' \subseteq changes, committed' \subseteq committed,
             nextId' = nextId, applied' = applied, queued' = queued,
             changes \ changes' \subseteq discarded',
             discarded \subseteq discarded',
             ui' = ui, requests' = requests
      PROVE  BookkeepingInv'
  <2>1. Forward
    BY <1>b, <1>2 DEF Forward
  <2>2. \A r \in requests' : SoundRequest(r)'
    BY <1>b, <1>1, <2>1, SoundRequestStays DEF BookkeepingInv, TypeOK
  <2>3. \A p \in Panels : SoundPanel(p)'
    BY <1>b, <1>1, <2>1, SoundPanelStays DEF BookkeepingInv
  <2> QED
    BY <1>b, <1>1, <2>2, <2>3 DEF BookkeepingInv, NoEditLost,
       NeverPendingAndCommitted, RecordedWasApplied
<1>c. ASSUME NEW op \in UserOps, AddCancel(op) PROVE BookkeepingInv'
  BY <1>b, <1>c DEF AddCancel
<1>d. ASSUME NEW e \in changes, Remove(e) PROVE BookkeepingInv'
  BY <1>b, <1>d DEF Remove
<1>e. CASE Discard
  BY <1>b, <1>e DEF Discard
<1>f. CASE DismissError
  BY <1>b, <1>f DEF DismissError
<1>g. CASE MarkAsSaved
  BY <1>b, <1>g DEF MarkAsSaved
<1> QED
  BY <1>a, <1>c, <1>d, <1>e, <1>f, <1>g DEF Queue

(* Sending a sound request from a panel changes nothing else.              *)
LEMMA SendBookkeeping ==
  ASSUME BookkeepingInv, NEW p \in Panels, NEW r \in Request,
         Send(p, r), SoundRequest(r)
  PROVE  BookkeepingInv'
<1>1. TypeOK /\ TypeOK'
  BY SendTypeOK DEF BookkeepingInv
<1>2. Forward
  BY <1>1, MaxEntriesAssumption DEF Send, Forward, TypeOK
<1>3. ASSUME NEW q \in requests' PROVE SoundRequest(q)'
  <2>1. q \in Request /\ SoundRequest(q)
    BY DEF Send, BookkeepingInv, TypeOK
  <2> QED
    BY <1>1, <1>2, <2>1, SoundRequestStays
<1>4. \A q \in Panels : ui'[q].win = ui[q].win /\ ui'[q].ents = ui[q].ents
  BY <1>1 DEF Send, TypeOK, Panel
<1>5. \A q \in Panels : SoundPanel(q)'
  BY <1>1, <1>2, <1>4, SoundPanelStays DEF BookkeepingInv
<1> QED
  BY <1>1, <1>3, <1>5 DEF Send, BookkeepingInv, NoEditLost,
     NeverPendingAndCommitted, RecordedWasApplied

LEMMA ClickBookkeeping == BookkeepingInv /\ Click => BookkeepingInv'
<1> SUFFICES ASSUME BookkeepingInv, Click PROVE BookkeepingInv'
  OBVIOUS
<1>1. TypeOK /\ TypeOK'
  BY ClickTypeOK DEF BookkeepingInv
<1>a. ASSUME NEW alsoSave \in BOOLEAN, NEW safeApply \in BOOLEAN,
             ClickCommit(alsoSave, safeApply)
      PROVE  BookkeepingInv'
  <2> DEFINE r == [Ask("bar", "commit") EXCEPT
                     !.action = "commit", !.ents = changes,
                     !.conf = safeApply, !.then = alsoSave]
  <2>1. Ask("bar", "commit") \in Request
    BY <1>1, AskIsARequest DEF Panels, Kinds
  <2>2. r \in Request
    BY <1>1, <2>1 DEF Request, Actions, TypeOK
  <2>3. r.kind = "commit" /\ r.from = "bar" /\ r.st = "sent" /\ r.ents = changes
    BY DEF Ask
  <2>4. SoundRequest(r)
    BY <2>3 DEF SoundRequest, BookkeepingInv
  <2> HIDE DEF r
  <2> QED
    BY <1>a, <2>2, <2>4, SendBookkeeping DEF ClickCommit, Panels, r
<1>b. ASSUME NEW p \in Panels, ClickKeep(p) PROVE BookkeepingInv'
  <2> DEFINE r == [Ask(p, "keep") EXCEPT
                     !.ents = ui[p].ents, !.then = ui[p].then,
                     !.asked = ui[p].asked, !.win = ui[p].win]
  <2>1. Ask(p, "keep") \in Request
    BY <1>1, AskIsARequest DEF Kinds
  <2>2. ui[p] \in Panel
    BY <1>1 DEF TypeOK
  <2>3. r \in Request
    BY <2>1, <2>2 DEF Request, Panel
  <2>4. r.kind = "keep" /\ r.from = p /\ r.ents = ui[p].ents
    BY DEF Ask
  <2>5. SoundRequest(r)
    BY <1>b, <2>4 DEF SoundRequest, SoundPanel, BookkeepingInv, ClickKeep
  <2> HIDE DEF r
  <2> QED
    BY <1>b, <2>3, <2>5, SendBookkeeping DEF ClickKeep, r
(* Saves and rollbacks record no entries.                                  *)
<1>c. ASSUME NEW p \in Panels, NEW kind \in {"save", "rollback"},
             NEW r \in Request, Send(p, r), r.ents = {}
      PROVE  BookkeepingInv'
  BY <1>c, NothingToRecordIsSound, SendBookkeeping
<1>d. CASE ClickSave
  <2>1. Ask("bar", "save") \in Request /\ Ask("bar", "save").ents = {}
    BY <1>1, AskIsARequest DEF Panels, Kinds, Ask
  <2> QED
    BY <1>d, <1>c, <2>1 DEF ClickSave, Panels
<1>e. CASE ClickRollback
  <2> DEFINE r == [Ask("bar", "rollback") EXCEPT
                     !.action = "rollback", !.conf = TRUE]
  <2>1. Ask("bar", "rollback") \in Request
    BY <1>1, AskIsARequest DEF Panels, Kinds
  <2>2. r \in Request /\ r.ents = {}
    BY <2>1 DEF Request, Actions, Ask
  <2> QED
    BY <1>e, <1>c, <2>2 DEF ClickRollback, Panels
<1>f. CASE ClickPowerSave
  <2>1. Ask("saver", "save") \in Request /\ Ask("saver", "save").ents = {}
    BY <1>1, AskIsARequest DEF Panels, Kinds, Ask
  <2> QED
    BY <1>f, <1>c, <2>1 DEF ClickPowerSave, Panels
<1>g. CASE ClickPowerRollback
  <2> DEFINE r == [Ask("roller", "rollback") EXCEPT
                     !.action = "rollback", !.conf = TRUE]
  <2>1. Ask("roller", "rollback") \in Request
    BY <1>1, AskIsARequest DEF Panels, Kinds
  <2>2. r \in Request /\ r.ents = {}
    BY <2>1 DEF Request, Actions, Ask
  <2> QED
    BY <1>g, <1>c, <2>2 DEF ClickPowerRollback, Panels
<1>h. ASSUME NEW safeApply \in BOOLEAN, ClickImport(safeApply)
      PROVE  BookkeepingInv'
  <2>1. Ask("importer", "import") \in Request
    BY <1>1, AskIsARequest DEF Panels, Kinds
  <2>2. PICK e \in Entry : e = [id |-> nextId, op |-> ImportOp]
    BY <1>h, UserOpsAssumption DEF ClickImport, Entry
  <2>3. PICK r \in Request :
          r = [Ask("importer", "import") EXCEPT
                 !.action = "import", !.conf = safeApply, !.ents = {e}]
    BY <2>1, <2>2 DEF Request, Actions
  <2>4. r.kind = "import" /\ r.st = "sent" /\ r.ents = {e}
    BY <2>3 DEF Ask
  <2>5. requests' = requests \cup {r} /\ nextId' = nextId + 1
        /\ nextId \in Nat /\ UNCHANGED <<changes, committed, history>>
    BY <1>1, <1>h, <2>2, <2>3, MaxEntriesAssumption DEF ClickImport, TypeOK
  <2>6. Forward
    BY <2>5 DEF Forward
  <2>7. e \notin changes
    BY <2>2, <2>5 DEF BookkeepingInv
  <2>8. SoundRequest(r)'
    <3>1. \A f \in r.ents : f = e
      BY <2>4
    <3>2. \A f \in r.ents : f.id < nextId'
      BY <2>2, <2>5, <3>1
    <3>3. r.ents \cap changes' = {}
      BY <2>5, <2>7, <3>1
    <3> QED
      BY <2>4, <3>2, <3>3 DEF SoundRequest
  <2>9. \A q \in requests' : SoundRequest(q)'
    BY <1>1, <2>5, <2>6, <2>8, SoundRequestStays DEF BookkeepingInv, TypeOK
  <2>10. \A q \in Panels : ui'[q].win = ui[q].win /\ ui'[q].ents = ui[q].ents
    BY <1>1, <1>h DEF ClickImport, TypeOK, Panel
  <2>11. \A q \in Panels : SoundPanel(q)'
    BY <1>1, <2>6, <2>10, SoundPanelStays DEF BookkeepingInv
  <2>12. \A f \in changes' \cup committed' : f.id < nextId'
    BY <1>1, <2>5 DEF BookkeepingInv, TypeOK, Entry, Ids
  <2> QED
    BY <1>1, <2>5, <2>9, <2>11, <2>12 DEF BookkeepingInv, NoEditLost,
       NeverPendingAndCommitted, RecordedWasApplied
<1> QED
  BY <1>a, <1>b, <1>d, <1>e, <1>f, <1>g, <1>h DEF Click

(* The router's answer to a request: it moves on, and what it applied is   *)
(* in the history.                                                         *)
LEMMA AnswerBookkeeping ==
  ASSUME BookkeepingInv, TypeOK', NEW r \in requests, NEW st, NEW w,
         Answer(r, st, w), UNCHANGED <<stores, panels, discarded, queued>>,
         applied \subseteq applied',
         r.kind \in {"commit", "import"} /\ st = "ok" => r.ents \subseteq applied'
  PROVE  BookkeepingInv'
<1>1. TypeOK /\ nextId \in Nat
  BY MaxEntriesAssumption DEF BookkeepingInv, TypeOK
<1>2. Forward
  BY <1>1 DEF Forward
<1>3. ASSUME NEW q \in requests' PROVE SoundRequest(q)'
  <2>1. q \in Request
    BY DEF TypeOK
  <2>2. CASE q \in requests
    BY <1>1, <1>2, <2>1, <2>2, SoundRequestStays DEF BookkeepingInv
  <2>3. CASE q = [r EXCEPT !.st = st, !.win = w]
    <3>1. r \in Request /\ SoundRequest(r)
      BY <1>1 DEF BookkeepingInv, TypeOK
    <3>2. SoundRequest(r)'
      BY <1>1, <1>2, <3>1, SoundRequestStays
    <3>3. q.kind = r.kind /\ q.from = r.from /\ q.ents = r.ents /\ q.st = st
      BY <2>3, <3>1 DEF Request
    <3> QED
      BY <3>2, <3>3 DEF SoundRequest
  <2> QED
    BY <2>2, <2>3 DEF Answer
<1>4. \A p \in Panels : SoundPanel(p)'
  BY <1>1, <1>2, SoundPanelStays DEF BookkeepingInv
<1> QED
  BY <1>3, <1>4 DEF BookkeepingInv, NoEditLost, NeverPendingAndCommitted,
     RecordedWasApplied

LEMMA RunsBookkeeping ==
  ASSUME BookkeepingInv, NEW r \in requests, Runs(r)
  PROVE  BookkeepingInv'
<1>1. TypeOK'
  BY RunsTypeOK DEF BookkeepingInv
<1>2. ASSUME RunConfirmable(r) \/ RunTimed(r)
      PROVE  \E w : Answer(r, "ok", w)
  BY <1>2 DEF RunConfirmable, RunTimed, RunUntimed
<1>3. CASE RouterCommit(r)
  BY <1>1, <1>2, <1>3, AnswerBookkeeping DEF RouterCommit
<1>4. CASE RouterImport(r)
  BY <1>1, <1>2, <1>4, AnswerBookkeeping DEF RouterImport
<1>5. CASE RouterRollback(r)
  BY <1>1, <1>2, <1>5, AnswerBookkeeping DEF RouterRollback
<1>6. CASE RouterKeep(r)
  BY <1>1, <1>6, AnswerBookkeeping DEF RouterKeep
<1>7. CASE RouterSave(r)
  BY <1>1, <1>7, AnswerBookkeeping DEF RouterSave
<1>8. CASE RouterRefuse(r)
  BY <1>1, <1>8, AnswerBookkeeping DEF RouterRefuse
<1> QED
  BY <1>3, <1>4, <1>5, <1>6, <1>7, <1>8 DEF Runs

(* Steps that change no list, where every request only moves on and every  *)
(* panel keeps its window and entries or shows no entries any more.        *)
LEMMA NothingRecorded ==
  ASSUME BookkeepingInv, TypeOK', nextId' = nextId,
         changes' \subseteq changes, committed' \subseteq committed,
         changes \ changes' \subseteq discarded',
         discarded \subseteq discarded', applied' = applied, queued' = queued,
         \A q \in requests' : SoundRequest(q),
         \A p \in Panels : \/ ui'[p].ents = ui[p].ents /\ ui'[p].win = ui[p].win
                           \/ ui'[p].ents = {}
  PROVE  BookkeepingInv'
<1>1. TypeOK /\ nextId \in Nat
  BY MaxEntriesAssumption DEF BookkeepingInv, TypeOK
<1>2. Forward
  BY <1>1 DEF Forward
<1>3. \A q \in requests' : SoundRequest(q)'
  BY <1>1, <1>2, SoundRequestStays DEF TypeOK
<1>4. ASSUME NEW p \in Panels PROVE SoundPanel(p)'
  <2>1. CASE ui'[p].ents = {}
    BY <2>1 DEF SoundPanel
  <2>2. CASE ui'[p].ents = ui[p].ents /\ ui'[p].win = ui[p].win
    BY <1>1, <1>2, <2>2, SoundPanelStays DEF BookkeepingInv
  <2> QED
    BY <2>1, <2>2
<1> QED
  BY <1>3, <1>4 DEF BookkeepingInv, NoEditLost, NeverPendingAndCommitted,
     RecordedWasApplied

LEMMA RouterBookkeeping ==
  BookkeepingInv /\ (RouterExpire \/ Reboot) => BookkeepingInv'
<1> SUFFICES ASSUME BookkeepingInv, RouterExpire \/ Reboot
             PROVE  BookkeepingInv'
  OBVIOUS
<1>1. TypeOK'
  BY RouterTypeOK DEF BookkeepingInv
<1>2. CASE RouterExpire
  BY <1>1, <1>2, NothingRecorded DEF RouterExpire, BookkeepingInv
<1>3. CASE Reboot
  <2>1. ASSUME NEW q \in requests' PROVE SoundRequest(q)
    <3>1. PICK r \in requests : q = IF r.st = "sent" THEN [r EXCEPT !.st = "err"]
                                    ELSE r
      BY <1>3 DEF Reboot
    <3>2. r \in Request /\ SoundRequest(r)
      BY DEF BookkeepingInv, TypeOK
    <3>3. q.kind = r.kind /\ q.from = r.from /\ q.ents = r.ents
          /\ (q.st = "ok" => r.st = "ok")
      BY <3>1, <3>2 DEF Request
    <3> QED
      BY <3>2, <3>3, SoundRequestMovesOn
  <2> QED
    BY <1>1, <1>3, <2>1, NothingRecorded DEF Reboot
<1> QED
  BY <1>2, <1>3

(* The save that "& Save" goes on with records nothing.                    *)
LEMMA ProceedToSaveRequests ==
  ASSUME NEW r \in requests, ProceedToSave(r), NEW q \in requests'
  PROVE  q \in requests \/ q.ents = {}
<1>1. SaveAfter(r).ents = {}
  BY DEF SaveAfter, Ask
<1> QED
  BY <1>1 DEF ProceedToSave

(* A panel after its reply: as it was, or with no entries.                 *)
LEMMA ShowPanels ==
  ASSUME TypeOK, NEW r \in requests, NEW panel, Show(r, panel),
         NEW p \in Panels
  PROVE  ui'[p] = ui[p] \/ (p = r.from /\ ui'[p] = panel)
BY DEF Show, TypeOK, Request

LEMMA IdleHasNoEntries ==
  ASSUME NEW busy
  PROVE  Idle.ents = {} /\ [Idle EXCEPT !.busy = busy].ents = {}
BY DEF Idle

(* What a final commit, kept or without a window, does to the lists.       *)
LEMMA RecordCommitBookkeeping ==
  ASSUME BookkeepingInv, NEW r \in requests, RecordCommit(r),
         r.ents \subseteq applied
  PROVE  BookkeepingInv'
<1>1. TypeOK /\ TypeOK' /\ nextId \in Nat
  BY RecordCommitTypeOK, MaxEntriesAssumption DEF BookkeepingInv, TypeOK
<1>2. Forward
  BY <1>1 DEF RecordCommit, Forward
<1>3. ASSUME NEW q \in requests' PROVE SoundRequest(q)'
  <2>1. SoundRequest(q)
    BY ProceedToSaveRequests, NothingToRecordIsSound
       DEF RecordCommit, BookkeepingInv
  <2> QED
    BY <1>1, <1>2, <2>1, SoundRequestStays DEF TypeOK
<1>4. ASSUME NEW p \in Panels PROVE SoundPanel(p)'
  <2>1. ui'[p] = ui[p] \/ ui'[p].ents = {}
    <3>1. CASE Show(r, Idle)
      BY <1>1, <3>1, ShowPanels, IdleHasNoEntries
    <3>2. CASE Show(r, [Idle EXCEPT !.busy = TRUE])
      <4>1. [Idle EXCEPT !.busy = TRUE].ents = {}
        BY IdleHasNoEntries
      <4> QED
        BY <1>1, <3>2, <4>1, ShowPanels
    <3> QED
      BY <3>1, <3>2 DEF RecordCommit, ProceedToSave
  <2>2. CASE ui'[p] = ui[p]
    BY <1>1, <1>2, <2>2, SoundPanelStays DEF BookkeepingInv
  <2>3. CASE ui'[p].ents = {}
    BY <2>3 DEF SoundPanel
  <2> QED
    BY <2>1, <2>2, <2>3
<1>5. \A e \in changes' \cup committed' : e.id < nextId'
  BY DEF RecordCommit, BookkeepingInv, SoundRequest
<1>6. NoEditLost' /\ NeverPendingAndCommitted' /\ RecordedWasApplied'
  BY DEF RecordCommit, BookkeepingInv, NoEditLost, NeverPendingAndCommitted,
     RecordedWasApplied
<1> QED
  BY <1>1, <1>3, <1>4, <1>5, <1>6 DEF BookkeepingInv

LEMMA ImportDoneBookkeeping ==
  ASSUME BookkeepingInv, NEW r \in requests, ImportDone(r)
  PROVE  BookkeepingInv'
<1>1. TypeOK /\ TypeOK' /\ nextId \in Nat
  BY RepliesTypeOK, MaxEntriesAssumption DEF BookkeepingInv, TypeOK, Replies
<1>2. Forward
  BY <1>1 DEF ImportDone, Forward
<1>3. \A q \in requests' : SoundRequest(q)'
  BY <1>1, <1>2, SoundRequestStays DEF ImportDone, BookkeepingInv, TypeOK
<1>4. ASSUME NEW p \in Panels PROVE SoundPanel(p)'
  <2>1. ui'[p] = ui[p] \/ ui'[p].ents = {}
    BY <1>1, ShowPanels, IdleHasNoEntries DEF ImportDone
  <2>2. CASE ui'[p] = ui[p]
    BY <1>1, <1>2, <2>2, SoundPanelStays DEF BookkeepingInv
  <2>3. CASE ui'[p].ents = {}
    BY <2>3 DEF SoundPanel
  <2> QED
    BY <2>1, <2>2, <2>3
<1>5. SoundRequest(r)
  BY DEF BookkeepingInv
<1>6. \A e \in changes' \cup committed' : e.id < nextId'
  BY <1>5 DEF ImportDone, BookkeepingInv, SoundRequest
<1>7. r.ents \cap changes = {} /\ r.ents \subseteq applied
  BY <1>5 DEF ImportDone, Waits, SoundRequest
<1>8. NoEditLost' /\ NeverPendingAndCommitted' /\ RecordedWasApplied'
  BY <1>7 DEF ImportDone, BookkeepingInv, NoEditLost,
     NeverPendingAndCommitted, RecordedWasApplied
<1> QED
  BY <1>1, <1>3, <1>4, <1>6, <1>8 DEF BookkeepingInv

LEMMA OpenWindowBookkeeping ==
  ASSUME BookkeepingInv, NEW r \in requests, OpenWindow(r)
  PROVE  BookkeepingInv'
<1>1. TypeOK /\ TypeOK' /\ nextId \in Nat
  BY RepliesTypeOK, MaxEntriesAssumption DEF BookkeepingInv, TypeOK, Replies
<1>2. Forward
  BY <1>1 DEF OpenWindow, Forward
<1>3. \A q \in requests' : SoundRequest(q)'
  BY <1>1, <1>2, SoundRequestStays DEF OpenWindow, BookkeepingInv, TypeOK
<1>4. SoundRequest(r)
  BY DEF BookkeepingInv
<1>5. r.ents \subseteq applied
  BY <1>4 DEF OpenWindow, Waits, SoundRequest
<1>6. ASSUME NEW p \in Panels PROVE SoundPanel(p)'
  <2> DEFINE panel == [busy |-> FALSE, win |-> r.win, action |-> r.action,
                       ents |-> r.ents, then |-> r.then, asked |-> r.then]
  <2>1. ui'[p] = ui[p] \/ (p = r.from /\ ui'[p] = panel)
    BY <1>1, ShowPanels DEF OpenWindow
  <2>2. CASE ui'[p] = ui[p]
    BY <1>1, <1>2, <2>2, SoundPanelStays DEF BookkeepingInv
  <2>3. CASE p = r.from /\ ui'[p] = panel
    BY <1>4, <1>5, <2>3 DEF SoundPanel, SoundRequest, OpenWindow
  <2> QED
    BY <2>1, <2>2, <2>3
<1> QED
  BY <1>1, <1>3, <1>6 DEF OpenWindow, BookkeepingInv, NoEditLost,
     NeverPendingAndCommitted, RecordedWasApplied

LEMMA FailsBookkeeping ==
  ASSUME BookkeepingInv, NEW r \in requests, Fails(r)
  PROVE  BookkeepingInv'
<1>1. TypeOK /\ TypeOK'
  BY RepliesTypeOK DEF BookkeepingInv, Replies
<1>2. ASSUME NEW q \in requests' PROVE SoundRequest(q)
  <2>1. r \in Request /\ SoundRequest(r)
    BY <1>1 DEF BookkeepingInv, TypeOK
  <2>2. CASE q \in requests
    BY <2>2 DEF BookkeepingInv
  <2>3. CASE q = [r EXCEPT !.ui = "gone"]
    BY <2>1, <2>3, SoundRequestMovesOn DEF Request
  <2> QED
    BY <2>2, <2>3 DEF Fails
<1>3. ASSUME NEW p \in Panels
      PROVE  ui'[p].ents = ui[p].ents /\ ui'[p].win = ui[p].win
  <2> DEFINE panel == [ui[r.from] EXCEPT !.busy = FALSE,
                         !.then = IF r.kind = "keep" THEN FALSE ELSE @]
  <2>1. ui'[p] = ui[p] \/ (p = r.from /\ ui'[p] = panel)
    BY <1>1, ShowPanels DEF Fails
  <2>2. ui[p] \in Panel
    BY <1>1 DEF TypeOK
  <2> QED
    BY <2>1, <2>2 DEF Panel
<1> QED
  BY <1>1, <1>2, <1>3, NothingRecorded DEF Fails

LEMMA RepliesBookkeeping ==
  ASSUME BookkeepingInv, NEW r \in requests, Replies(r)
  PROVE  BookkeepingInv'
<1>1. TypeOK /\ TypeOK' /\ SoundRequest(r)
  BY RepliesTypeOK DEF BookkeepingInv
<1>2. CASE OpenWindow(r)
  BY <1>2, OpenWindowBookkeeping
<1>3. CASE CommitDone(r) \/ KeepCommitDone(r)
  BY <1>1, <1>3, RecordCommitBookkeeping
     DEF CommitDone, KeepCommitDone, Waits, SoundRequest
<1>4. CASE ImportDone(r)
  BY <1>4, ImportDoneBookkeeping
<1>5. CASE KeepRollbackDone(r) \/ SaveDone(r)
  <2>1. Show(r, Idle) /\ requests' = requests \ {r} /\ committed' = {}
        /\ UNCHANGED <<changes, nextId, history>>
    BY <1>5 DEF KeepRollbackDone, SaveDone
  <2>2. \A p \in Panels : \/ ui'[p].ents = ui[p].ents /\ ui'[p].win = ui[p].win
                          \/ ui'[p].ents = {}
    BY <1>1, <2>1, ShowPanels, IdleHasNoEntries
  <2> QED
    BY <1>1, <2>1, <2>2, NothingRecorded DEF BookkeepingInv
<1>6. CASE Fails(r)
  BY <1>6, FailsBookkeeping
<1> QED
  BY <1>2, <1>3, <1>4, <1>5, <1>6 DEF Replies

LEMMA UiExpireBookkeeping ==
  ASSUME BookkeepingInv, NEW p \in Panels, UiExpire(p)
  PROVE  BookkeepingInv'
<1>1. TypeOK /\ TypeOK'
  BY UiExpireTypeOK DEF BookkeepingInv
<1>2. \A q \in Panels : ui'[q] = ui[q] \/ ui'[q].ents = {}
  BY <1>1, IdleHasNoEntries DEF UiExpire, TypeOK
<1> QED
  BY <1>1, <1>2, NothingRecorded DEF UiExpire, BookkeepingInv

LEMMA LeaveBookkeeping == BookkeepingInv /\ Leave => BookkeepingInv'
<1> SUFFICES ASSUME BookkeepingInv, Leave PROVE BookkeepingInv'
  OBVIOUS
<1>1. TypeOK /\ TypeOK'
  BY LeaveTypeOK DEF BookkeepingInv
<1>2. ASSUME NEW ps, NEW q \in Unmounted(ps) PROVE SoundRequest(q)
  <2>1. PICK r \in requests : q = IF r.from \in ps /\ r.ui = "live"
                                  THEN [r EXCEPT !.ui = "stale"] ELSE r
    BY DEF Unmounted
  <2>2. r \in Request /\ SoundRequest(r)
    BY <1>1 DEF BookkeepingInv, TypeOK
  <2>3. q.kind = r.kind /\ q.from = r.from /\ q.ents = r.ents /\ q.st = r.st
    BY <2>1, <2>2 DEF Request
  <2> QED
    BY <2>2, <2>3, SoundRequestMovesOn
<1>3. CASE LeavePage
  <2>1. \A p \in Panels : ui'[p] = ui[p] \/ ui'[p].ents = {}
    BY <1>3, IdleHasNoEntries DEF LeavePage
  <2> QED
    BY <1>1, <1>2, <1>3, <2>1, NothingRecorded DEF LeavePage
<1>4. ASSUME NEW forget \in BOOLEAN, SignOut(forget) PROVE BookkeepingInv'
  <2>1. \A p \in Panels : ui'[p].ents = {}
    BY <1>4, IdleHasNoEntries DEF SignOut
  <2>2. \A q \in requests' : SoundRequest(q)
    BY <1>2, <1>4 DEF SignOut
  <2> QED
    BY <1>1, <1>4, <2>1, <2>2, NothingRecorded DEF SignOut
<1>5. CASE Reload
  <2>1. \A p \in Panels : ui'[p].ents = {}
    BY <1>5, IdleHasNoEntries DEF Reload
  <2>2. ASSUME NEW q \in requests' PROVE SoundRequest(q)
    <3>1. PICK r \in requests : q = [r EXCEPT !.ui = "gone"]
      BY <1>5 DEF Reload
    <3>2. r \in Request /\ SoundRequest(r)
      BY <1>1 DEF BookkeepingInv, TypeOK
    <3>3. q.kind = r.kind /\ q.from = r.from /\ q.ents = r.ents /\ q.st = r.st
      BY <3>1, <3>2 DEF Request
    <3> QED
      BY <3>2, <3>3, SoundRequestMovesOn
  <2>3. Persisted(changes) \subseteq changes
        /\ Persisted(committed) \subseteq committed
    BY DEF Persisted
  <2> QED
    BY <1>1, <1>5, <2>1, <2>2, <2>3, NothingRecorded DEF Reload
<1> QED
  BY <1>3, <1>4, <1>5 DEF Leave

LEMMA NextBookkeeping == BookkeepingInv /\ [Next]_vars => BookkeepingInv'
<1> SUFFICES ASSUME BookkeepingInv, [Next]_vars PROVE BookkeepingInv'
  OBVIOUS
<1>1. CASE Queue
  BY <1>1, QueueBookkeeping
<1>2. CASE Click
  BY <1>2, ClickBookkeeping
<1>3. CASE \E r \in requests : Runs(r) \/ Replies(r)
  BY <1>3, RunsBookkeeping, RepliesBookkeeping
<1>4. CASE RouterExpire \/ Reboot
  BY <1>4, RouterBookkeeping
<1>5. CASE \E p \in Panels : UiExpire(p)
  BY <1>5, UiExpireBookkeeping
<1>6. CASE Leave
  BY <1>6, LeaveBookkeeping
<1>7. CASE UNCHANGED vars
  BY <1>7, NextTypeOK DEF vars, BookkeepingInv, NoEditLost,
     NeverPendingAndCommitted, RecordedWasApplied, SoundRequest, SoundPanel
<1> QED
  BY <1>1, <1>2, <1>3, <1>4, <1>5, <1>6, <1>7 DEF Next

(* The engine's bookkeeping invariant, whatever interleaves and fails.     *)
THEOREM BookkeepingCorrect == Spec => []BookkeepingInv
<1>1. Init => BookkeepingInv
  BY InitBookkeeping
<1>2. BookkeepingInv /\ [Next]_vars => BookkeepingInv'
  BY NextBookkeeping
<1> QED
  BY <1>1, <1>2, PTL DEF Spec

(* runCommit and handleKeep never drop an edit that was queued while their *)
(* request was in flight: every edit is queued, applied or taken back.     *)
THEOREM EditsAreNeverLost == Spec => []NoEditLost
<1>1. BookkeepingInv => NoEditLost
  BY DEF BookkeepingInv
<1> QED
  BY <1>1, BookkeepingCorrect, PTL

(* The pending and the unsaved list of the bar never share a change.       *)
THEOREM ListsAreDisjoint == Spec => []NeverPendingAndCommitted
<1>1. BookkeepingInv => NeverPendingAndCommitted
  BY DEF BookkeepingInv
<1> QED
  BY <1>1, BookkeepingCorrect, PTL

(* markCommitted only ever records changes that the router has applied.    *)
THEOREM RecordsAreTrue == Spec => []RecordedWasApplied
<1>1. BookkeepingInv => RecordedWasApplied
  BY DEF BookkeepingInv
<1> QED
  BY <1>1, BookkeepingCorrect, PTL

-----------------------------------------------------------------------------
(***************************************************************************)
(* The bar of the client, working alone on the router: what its one        *)
(* request, the countdown it shows and the router's timer have to do with  *)
(* each other, and what running, the disk and the lists hold meanwhile.    *)
(*                                                                         *)
(* Each theorem says which disturbances it withstands, the same ones for   *)
(* which model checking finds no counterexample. "Alone" means that the    *)
(* other panels are not used, that the tab is neither reloaded nor signed  *)
(* out, and that no reply is lost.                                         *)
(***************************************************************************)
Bar == ui["bar"]

(* A reply that will open the countdown. *)
Opens(r) == r.kind \in {"commit", "rollback"} /\ r.conf /\ r.st = "ok"

(* The bar has one request at most, and is busy while it has it. Only a    *)
(* Keep is asked for while a window is shown.                              *)
BarRequest(r) ==
  /\ r.from = "bar" /\ r.ui = "live" /\ Bar.busy
  /\ r.kind # "import"
  /\ r.kind = "rollback" => r.conf
  /\ r.kind \in {"keep", "save"} => ~r.conf
  /\ IF r.kind = "keep" THEN Bar.win \in {NoWindow, r.win}
                        ELSE Bar.win = NoWindow
  /\ r.kind = "keep" /\ r.st = "ok" => timer = Closed

(* An open timer is the one the bar shows, or the one its reply will show. *)
TimerIsKnown ==
  \/ timer = Closed
  \/ timer.win # NoWindow /\ timer.win = Bar.win
  \/ timer.win # NoWindow /\ \E r \in requests : Opens(r) /\ r.win = timer.win

WindowInv ==
  /\ TypeOK
  /\ ~done /\ \A p \in Panels \ {"bar"} : ui[p] = Idle
  /\ \A r, q \in requests : r = q
  /\ \A r \in requests : BarRequest(r)
  /\ TimerIsKnown

(* The configuration that is in effect for good. *)
Live == IF timer.win = NoWindow THEN running ELSE timer.restore

(* What the router takes back when the window ends unconfirmed.            *)
Tentative(action, ents) ==
  \/ /\ action = "commit"
     /\ running = timer.restore \cup ents
     /\ ents # {} /\ ents \cap timer.restore = {}
     /\ ents \cap reverted = {} /\ ents \subseteq changes \cup discarded
  \/ action = "rollback" /\ running = saved

(* What a request will do to the router, or has done to it. *)
SoundContent(r) ==
  /\ r.kind = "commit" =>
       /\ r.action = "commit"
       /\ r.ents # {} /\ r.ents \subseteq changes \cup discarded
       /\ r.st # "ok" => r.ents \cap Live = {}
  /\ r.kind = "rollback" => r.action = "rollback"
  /\ r \in CommitsFinal => r.ents \cap reverted = {}
  /\ r.kind = "keep" /\ Bar.win # NoWindow =>
       r.action = Bar.action /\ r.ents = Bar.ents
  /\ r.kind = "keep" /\ r.st = "sent" =>
       timer.win # NoWindow /\ timer.win = Bar.win

TentativeIsKnown ==
  \/ timer = Closed
  \/ timer.win = Bar.win /\ Tentative(Bar.action, Bar.ents)
  \/ \E r \in requests : Opens(r) /\ Tentative(r.action, r.ents)

ContentInv ==
  /\ \A e \in running \cup saved \cup timer.restore : e.id < nextId
  /\ saved \subseteq Live
  /\ changes \cap Live \subseteq OnTheirWay
  /\ reverted \cap queued \subseteq changes \cup discarded
  /\ \A r \in requests : SoundContent(r)
  /\ TentativeIsKnown

-----------------------------------------------------------------------------
(* What a step of the bar looks like when nobody else is there. *)

BarNext ==
  \/ Queue
  \/ \E alsoSave, safeApply \in BOOLEAN : ClickCommit(alsoSave, safeApply)
  \/ ClickKeep("bar")
  \/ ClickSave
  \/ ClickRollback
  \/ \E r \in requests : Runs(r) \/ Replies(r)
  \/ RouterExpire
  \/ Reboot
  \/ UiExpire("bar")

Alone == Disturbances \subseteq {"late_keep", "reboot", "mark_saved"}

LEMMA BarIsAlone ==
  ASSUME Alone, WindowInv, Next
  PROVE  BarNext
<1>1. \A p \in Panels : p # "bar" => ui[p].win = NoWindow
  BY DEF WindowInv, Idle
<1>2. ~ClickPowerSave /\ ~ClickPowerRollback
  BY DEF Alone, ClickPowerSave, ClickPowerRollback, OnPowerPage
<1>3. \A safeApply \in BOOLEAN : ~ClickImport(safeApply)
  BY DEF Alone, ClickImport, OnImportPage
<1>4. \A p \in Panels : ClickKeep(p) => p = "bar"
  BY <1>1 DEF ClickKeep
<1>5. \A p \in Panels : UiExpire(p) => p = "bar"
  BY <1>1 DEF UiExpire
<1>6. ~LeavePage
  BY DEF LeavePage, WindowInv
<1>7. ~Reload /\ \A forget \in BOOLEAN : ~SignOut(forget)
  BY DEF Alone, Reload, SignOut
<1>8. ~Leave
  BY <1>6, <1>7 DEF Leave
<1>9. Click => BarNext
  BY <1>2, <1>3, <1>4 DEF Click, BarNext
<1> QED
  BY <1>5, <1>8, <1>9 DEF Next, BarNext

LEMMA OnlyRequest ==
  ASSUME WindowInv, NEW r \in requests
  PROVE  requests = {r} /\ r \in Request /\ BarRequest(r)
BY DEF WindowInv, TypeOK

LEMMA BarIsAPanel == TypeOK => Bar \in Panel /\ "bar" \in Panels
BY DEF TypeOK, Bar, Panels

(* A click sends the one request, and changes nothing but the busy flag.   *)
LEMMA SendAlone ==
  ASSUME WindowInv, NEW r, Send("bar", r)
  PROVE  /\ requests = {} /\ requests' = {r}
         /\ Bar' = [Bar EXCEPT !.busy = TRUE]
         /\ \A p \in Panels \ {"bar"} : ui'[p] = ui[p]
         /\ UNCHANGED <<router, stores, done, history>>
<1>1. requests = {}
  BY DEF Send, WindowInv, BarRequest, Bar
<1>2. Bar' = [Bar EXCEPT !.busy = TRUE]
  BY DEF Send, Bar, WindowInv, TypeOK, Panels
<1> QED
  BY <1>1, <1>2 DEF Send, WindowInv, TypeOK

AnswerOf(r, st, w) == [r EXCEPT !.st = st, !.win = w]

(* The router's answer: the request moves on.                              *)
LEMMA AnswerAlone ==
  ASSUME WindowInv, NEW r \in requests, NEW st, NEW w, Answer(r, st, w)
  PROVE  requests' = {AnswerOf(r, st, w)}
<1>1. requests = {r} /\ r \in Request /\ BarRequest(r)
  BY OnlyRequest
<1> QED
  BY <1>1 DEF Answer, BarRequest, AnswerOf

LEMMA AnswerIs ==
  ASSUME WindowInv, NEW r \in requests, NEW st, NEW w
  PROVE  LET q == AnswerOf(r, st, w)
         IN  /\ q.from = r.from /\ q.kind = r.kind /\ q.action = r.action
             /\ q.ents = r.ents /\ q.conf = r.conf /\ q.ui = r.ui
             /\ q.st = st /\ q.win = w
<1>1. r \in Request
  BY OnlyRequest
<1> QED
  BY <1>1 DEF Request, AnswerOf

(* A reply: the bar shows something else, the other panels do not.         *)
LEMMA ShowAlone ==
  ASSUME WindowInv, NEW r \in requests, NEW panel, Show(r, panel)
  PROVE  /\ Bar' = panel
         /\ \A p \in Panels \ {"bar"} : ui'[p] = ui[p]
<1>1. r \in Request /\ BarRequest(r)
  BY OnlyRequest
<1> QED
  BY <1>1 DEF Show, BarRequest, Bar, WindowInv, TypeOK, Panels

-----------------------------------------------------------------------------
(* The window: WindowInv is inductive. *)

LEMMA InitWindow == Init => WindowInv
BY InitTypeOK DEF Init, WindowInv, TimerIsKnown

(* Nothing WindowInv speaks of changes. *)
LEMMA SameWindow ==
  ASSUME WindowInv, TypeOK', UNCHANGED <<timer, ui, done, requests>>
  PROVE  WindowInv'
BY DEF WindowInv, TimerIsKnown, BarRequest, Opens, Bar

LEMMA QueueWindow ==
  ASSUME WindowInv, Queue
  PROVE  WindowInv'
<1>1. TypeOK'
  BY QueueTypeOK DEF WindowInv
<1>2. UNCHANGED <<timer, ui, done, requests>>
  BY DEF Queue, AddAppend, AddCancel, Remove, Discard, DismissError,
     MarkAsSaved
<1> QED
  BY <1>1, <1>2, SameWindow

LEMMA SendWindow ==
  ASSUME WindowInv, TypeOK', NEW r, Send("bar", r),
         r.from = "bar", r.ui = "live", r.st = "sent",
         r.kind \in {"commit", "rollback", "save", "keep"},
         r.kind = "rollback" => r.conf,
         r.kind \in {"keep", "save"} => ~r.conf,
         IF r.kind = "keep" THEN Bar.win = r.win ELSE Bar.win = NoWindow
  PROVE  WindowInv'
<1>1. /\ requests = {} /\ requests' = {r}
      /\ Bar' = [Bar EXCEPT !.busy = TRUE]
      /\ \A p \in Panels \ {"bar"} : ui'[p] = ui[p]
      /\ UNCHANGED <<timer, done>>
  BY SendAlone
<1>2. Bar'.busy /\ Bar'.win = Bar.win
  BY <1>1, BarIsAPanel DEF WindowInv, Panel
<1>3. BarRequest(r)'
  BY <1>2 DEF BarRequest
<1>4. TimerIsKnown'
  BY <1>1, <1>2 DEF WindowInv, TimerIsKnown
<1> QED
  BY <1>1, <1>3, <1>4 DEF WindowInv

(* What each of the bar's clicks asks for. *)
LEMMA BarAsks ==
  ASSUME NEW kind
  PROVE  LET r == Ask("bar", kind)
         IN  /\ r.from = "bar" /\ r.kind = kind /\ r.action = Bar.action
             /\ r.ents = {} /\ ~r.conf /\ ~r.then /\ ~r.asked
             /\ r.win = NoWindow /\ r.st = "sent" /\ r.ui = "live"
BY DEF Ask, Bar

CommitAsk(alsoSave, safeApply) ==
  [Ask("bar", "commit") EXCEPT !.action = "commit", !.ents = changes,
                               !.conf = safeApply, !.then = alsoSave]

KeepAsk == [Ask("bar", "keep") EXCEPT
              !.ents = Bar.ents, !.then = Bar.then, !.asked = Bar.asked,
              !.win = Bar.win]

RollbackAsk == [Ask("bar", "rollback") EXCEPT !.action = "rollback",
                                              !.conf = TRUE]

LEMMA CommitAskIs ==
  ASSUME NEW alsoSave, NEW safeApply
  PROVE  LET r == CommitAsk(alsoSave, safeApply)
         IN  /\ r.from = "bar" /\ r.kind = "commit" /\ r.action = "commit"
             /\ r.ents = changes /\ r.conf = safeApply
             /\ r.st = "sent" /\ r.ui = "live"
BY DEF CommitAsk, Ask

LEMMA KeepAskIs ==
  /\ KeepAsk.from = "bar" /\ KeepAsk.kind = "keep"
  /\ KeepAsk.action = Bar.action /\ KeepAsk.ents = Bar.ents
  /\ KeepAsk.win = Bar.win /\ ~KeepAsk.conf
  /\ KeepAsk.st = "sent" /\ KeepAsk.ui = "live"
BY DEF KeepAsk, Ask, Bar

LEMMA RollbackAskIs ==
  /\ RollbackAsk.from = "bar" /\ RollbackAsk.kind = "rollback"
  /\ RollbackAsk.action = "rollback" /\ RollbackAsk.ents = {}
  /\ RollbackAsk.conf /\ RollbackAsk.st = "sent" /\ RollbackAsk.ui = "live"
BY DEF RollbackAsk, Ask

BarClick ==
  \/ \E alsoSave, safeApply \in BOOLEAN : ClickCommit(alsoSave, safeApply)
  \/ ClickKeep("bar")
  \/ ClickSave
  \/ ClickRollback

(* A click of the bar, by what it sends. *)
LEMMA BarSends ==
  ASSUME BarClick
  PROVE  \/ \E alsoSave, safeApply \in BOOLEAN :
              /\ Send("bar", CommitAsk(alsoSave, safeApply))
              /\ Bar.win = NoWindow /\ changes # {}
         \/ /\ Send("bar", KeepAsk)
            /\ Bar.win # NoWindow
            /\ "late_keep" \in Disturbances \/ timer.win = Bar.win
         \/ Send("bar", Ask("bar", "save")) /\ Bar.win = NoWindow
         \/ Send("bar", RollbackAsk) /\ Bar.win = NoWindow
BY DEF BarClick, ClickCommit, ClickKeep, ClickSave, ClickRollback, CommitView,
   UnsavedView, KeepView, Bar, CommitAsk, KeepAsk, RollbackAsk

LEMMA ClickWindow ==
  ASSUME WindowInv, BarClick
  PROVE  WindowInv'
<1>1. TypeOK'
  <2>1. Click
    BY DEF BarClick, Click, Panels
  <2> QED
    BY <2>1, ClickTypeOK DEF WindowInv
<1>2. ASSUME NEW alsoSave \in BOOLEAN, NEW safeApply \in BOOLEAN,
             Send("bar", CommitAsk(alsoSave, safeApply)), Bar.win = NoWindow
      PROVE  WindowInv'
  <2> DEFINE r == CommitAsk(alsoSave, safeApply)
  <2>1. r.from = "bar" /\ r.kind = "commit" /\ r.st = "sent" /\ r.ui = "live"
    BY CommitAskIs
  <2> HIDE DEF r
  <2> QED
    BY <1>1, <1>2, <2>1, SendWindow DEF r
<1>3. CASE Send("bar", KeepAsk) /\ Bar.win # NoWindow
  BY <1>1, <1>3, KeepAskIs, SendWindow
<1>4. CASE Send("bar", Ask("bar", "save")) /\ Bar.win = NoWindow
  <2>1. /\ Ask("bar", "save").from = "bar" /\ Ask("bar", "save").kind = "save"
        /\ Ask("bar", "save").st = "sent" /\ Ask("bar", "save").ui = "live"
        /\ ~Ask("bar", "save").conf
    BY BarAsks
  <2> QED
    BY <1>1, <1>4, <2>1, SendWindow
<1>5. CASE Send("bar", RollbackAsk) /\ Bar.win = NoWindow
  BY <1>1, <1>5, RollbackAskIs, SendWindow
<1> QED
  BY <1>2, <1>3, <1>4, <1>5, BarSends

(* While a request other than a Keep is under way, and while nothing is,   *)
(* an open timer can only be the one a reply is about to show.             *)
LEMMA TimerIsClosed ==
  ASSUME WindowInv, Bar.win = NoWindow, \A r \in requests : ~Opens(r)
  PROVE  timer = Closed
BY DEF WindowInv, TimerIsKnown

(* Opening a window: the timer starts, and the reply carries its identity. *)
LEMMA RunTimedAlone ==
  ASSUME WindowInv, NEW r \in requests, RunTimed(r), r.st = "sent",
         r.kind \in {"commit", "rollback"}
  PROVE  \E w \in Windows :
           /\ timer = Closed
           /\ timer' = [win |-> w, restore |-> running]
           /\ requests' = {AnswerOf(r, "ok", w)}
<1>1. requests = {r} /\ r \in Request /\ BarRequest(r)
  BY OnlyRequest
<1>2. timer = Closed
  BY <1>1, TimerIsClosed DEF BarRequest, Opens
<1>3. PICK w \in Windows \ WindowsInUse :
        /\ timer' \in {[win |-> w, restore |-> running]} \cup
             IF timer.win = NoWindow THEN {}
             ELSE {[win |-> w, restore |-> timer.restore]}
        /\ Answer(r, "ok", w)
  BY DEF RunTimed
<1>4. timer' = [win |-> w, restore |-> running]
  BY <1>2, <1>3 DEF Closed
<1>5. requests' = {AnswerOf(r, "ok", w)}
  BY <1>3, AnswerAlone
<1> QED
  BY <1>2, <1>4, <1>5

(* Any answer of the router, by what it does to the timer. *)
LEMMA AnswerWindow ==
  ASSUME WindowInv, TypeOK', UNCHANGED <<ui, done>>,
         NEW r \in requests, r.st = "sent", NEW st \in {"ok", "err"}, NEW w,
         requests' = {AnswerOf(r, st, w)},
         \/ timer' = Closed /\ w = r.win
         \/ timer' = timer /\ w = r.win /\ r.kind # "keep"
         \/ timer' = timer /\ w = r.win /\ st = "err"
         \/ timer' = Closed /\ r.kind # "keep"
         \/ /\ r.kind # "keep" /\ Opens(AnswerOf(r, st, w))
            /\ w # NoWindow /\ timer'.win = w
  PROVE  WindowInv'
<1> DEFINE q == AnswerOf(r, st, w)
<1>1. requests = {r} /\ r \in Request /\ BarRequest(r)
  BY OnlyRequest
<1>2. /\ q.from = r.from /\ q.kind = r.kind /\ q.conf = r.conf
      /\ q.ui = r.ui /\ q.st = st /\ q.win = w
  BY AnswerIs
<1> HIDE DEF q
<1>3. requests' = {q}
  BY DEF q
<1>4. Bar' = Bar
  BY DEF Bar
<1>5. BarRequest(q)'
  BY <1>1, <1>2, <1>4 DEF BarRequest
<1>6. TimerIsKnown'
  <2>1. CASE timer' = Closed
    BY <2>1 DEF TimerIsKnown
  <2>2. CASE timer' = timer
    BY <1>1, <1>4, <2>2 DEF TimerIsKnown, WindowInv, Opens
  <2>3. CASE Opens(q) /\ w # NoWindow /\ timer'.win = w
    BY <1>2, <1>3, <2>3 DEF TimerIsKnown
  <2> QED
    BY <2>1, <2>2, <2>3 DEF q
<1> QED
  BY <1>3, <1>5, <1>6 DEF WindowInv

LEMMA RunsWindow ==
  ASSUME WindowInv, NEW r \in requests, Runs(r)
  PROVE  WindowInv'
<1>1. TypeOK' /\ UNCHANGED <<ui, done>>
  BY RunsTypeOK DEF WindowInv, Runs, RouterCommit, RouterImport,
     RouterRollback, RouterKeep, RouterSave, RouterRefuse
<1>2. requests = {r} /\ r \in Request /\ BarRequest(r) /\ r.st = "sent"
  BY OnlyRequest DEF Runs, RouterCommit, RouterImport, RouterRollback,
     RouterKeep, RouterSave, RouterRefuse
<1>3. ASSUME RunTimed(r), r.kind \in {"commit", "rollback"}, r.conf
      PROVE  WindowInv'
  <2>1. PICK w \in Windows :
          /\ timer' = [win |-> w, restore |-> running]
          /\ requests' = {AnswerOf(r, "ok", w)}
    BY <1>2, <1>3, RunTimedAlone
  <2>2. w # NoWindow /\ timer'.win = w
    BY <2>1, WindowsAssumption
  <2>3. Opens(AnswerOf(r, "ok", w))
    BY <1>3, AnswerIs DEF Opens
  <2> QED
    BY <1>1, <1>2, <1>3, <2>1, <2>2, <2>3, AnswerWindow
<1>4. ASSUME RunUntimed(r), ~r.conf, r.kind = "commit"
      PROVE  WindowInv'
  <2>1. timer' = Closed
    BY <1>2, <1>4, TimerIsClosed DEF RunUntimed, BarRequest, Opens
  <2>2. requests' = {AnswerOf(r, "ok", NoWindow)}
    BY <1>4, AnswerAlone DEF RunUntimed
  <2> QED
    BY <1>1, <1>2, <1>4, <2>1, <2>2, AnswerWindow
<1>5. CASE RouterCommit(r)
  BY <1>3, <1>4, <1>5 DEF RouterCommit, RunConfirmable
<1>6. CASE RouterImport(r)
  BY <1>2, <1>6 DEF RouterImport, BarRequest
<1>7. CASE RouterRollback(r)
  BY <1>2, <1>3, <1>7 DEF RouterRollback, BarRequest
<1>8. CASE RouterKeep(r)
  <2>1. timer' = Closed
    BY <1>8 DEF RouterKeep
  <2>2. requests' = {AnswerOf(r, "ok", r.win)}
    BY <1>8, AnswerAlone DEF RouterKeep
  <2> QED
    BY <1>1, <1>2, <2>1, <2>2, AnswerWindow
<1>9. CASE RouterSave(r)
  <2>1. timer' = Closed
    BY <1>2, <1>9, TimerIsClosed DEF RouterSave, BarRequest, Opens
  <2>2. requests' = {AnswerOf(r, "ok", NoWindow)}
    BY <1>9, AnswerAlone DEF RouterSave
  <2> QED
    BY <1>1, <1>2, <1>9, <2>1, <2>2, AnswerWindow DEF RouterSave
<1>10. CASE RouterRefuse(r)
  BY <1>1, <1>2, <1>10, AnswerAlone, AnswerWindow DEF RouterRefuse
<1> QED
  BY <1>5, <1>6, <1>7, <1>8, <1>9, <1>10 DEF Runs

(* A handler that ends, or goes on with a save: no window is open then.    *)
LEMMA HandlerEnds ==
  ASSUME WindowInv, TypeOK', UNCHANGED <<router, done>>,
         \A p \in Panels \ {"bar"} : ui'[p] = ui[p],
         requests' = {}, timer = Closed
  PROVE  WindowInv'
BY DEF WindowInv, TimerIsKnown

LEMMA SaveAfterAlone ==
  ASSUME WindowInv, NEW r \in requests
  PROVE  /\ SaveAfter(r).from = "bar" /\ SaveAfter(r).kind = "save"
         /\ SaveAfter(r).ui = "live" /\ SaveAfter(r).st = "sent"
         /\ ~SaveAfter(r).conf /\ SaveAfter(r).ents = {}
<1>1. BarRequest(r)
  BY OnlyRequest
<1>2. Ask(r.from, "save").ui = "live"
  BY DEF Ask
<1> QED
  BY <1>1 DEF SaveAfter, Ask, BarRequest

LEMMA ProceedAlone ==
  ASSUME WindowInv, NEW r \in requests, ProceedToSave(r)
  PROVE  /\ \A p \in Panels \ {"bar"} : ui'[p] = ui[p]
         /\ Bar'.win = NoWindow
         /\ requests' = {} \/ (requests' = {SaveAfter(r)} /\ Bar'.busy)
<1>1. requests = {r}
  BY OnlyRequest
<1>2. CASE r.then
  <2>1. Show(r, [Idle EXCEPT !.busy = TRUE]) /\ requests' = {SaveAfter(r)}
    BY <1>1, <1>2 DEF ProceedToSave
  <2>2. /\ Bar' = [Idle EXCEPT !.busy = TRUE]
        /\ \A p \in Panels \ {"bar"} : ui'[p] = ui[p]
    BY <2>1, ShowAlone
  <2> QED
    BY <2>1, <2>2 DEF Idle
<1>3. CASE ~r.then
  <2>1. Show(r, Idle) /\ requests' = {}
    BY <1>1, <1>3 DEF ProceedToSave
  <2>2. Bar' = Idle /\ \A p \in Panels \ {"bar"} : ui'[p] = ui[p]
    BY <2>1, ShowAlone
  <2> QED
    BY <2>1, <2>2 DEF Idle
<1> QED
  BY <1>2, <1>3

(* When a handler that does not open a window goes on, none is open.       *)
LEMMA ClosedAtReply ==
  ASSUME WindowInv, NEW r \in requests, r.st = "ok", ~r.conf
  PROVE  timer = Closed
<1>1. requests = {r} /\ BarRequest(r)
  BY OnlyRequest
<1>2. CASE r.kind = "keep"
  BY <1>1, <1>2 DEF BarRequest
<1>3. CASE r.kind # "keep"
  BY <1>1, <1>3, TimerIsClosed DEF BarRequest, Opens
<1> QED
  BY <1>2, <1>3

LEMMA RepliesWindow ==
  ASSUME Alone, WindowInv, NEW r \in requests, Replies(r)
  PROVE  WindowInv'
<1>1. TypeOK'
  BY RepliesTypeOK DEF WindowInv
<1>2. requests = {r} /\ r \in Request /\ BarRequest(r)
  BY OnlyRequest
<1>3. CASE OpenWindow(r)
  <2> DEFINE panel == [busy |-> FALSE, win |-> r.win, action |-> r.action,
                       ents |-> r.ents, then |-> r.then, asked |-> r.then]
  <2>1. requests' = {} /\ Show(r, panel) /\ UNCHANGED <<router, done>>
    BY <1>2, <1>3 DEF OpenWindow
  <2>2. Bar' = panel /\ \A p \in Panels \ {"bar"} : ui'[p] = ui[p]
    BY <2>1, ShowAlone
  <2>3. TimerIsKnown'
    <3>1. Bar.win = NoWindow
      BY <1>2, <1>3 DEF OpenWindow, Waits, BarRequest
    <3> QED
      BY <1>2, <2>1, <2>2, <3>1 DEF WindowInv, TimerIsKnown
  <2> QED
    BY <1>1, <2>1, <2>2, <2>3 DEF WindowInv
<1>4. CASE CommitDone(r) \/ KeepCommitDone(r)
  <2>1. RecordCommit(r) /\ r.st = "ok" /\ ~r.conf
    BY <1>2, <1>4 DEF CommitDone, KeepCommitDone, Waits, BarRequest
  <2>2. timer = Closed
    BY <2>1, ClosedAtReply
  <2>3. /\ \A p \in Panels \ {"bar"} : ui'[p] = ui[p]
        /\ Bar'.win = NoWindow
        /\ requests' = {} \/ (requests' = {SaveAfter(r)} /\ Bar'.busy)
    BY <2>1, ProceedAlone DEF RecordCommit
  <2>4. UNCHANGED <<router, done>>
    BY <2>1 DEF RecordCommit
  <2>5. CASE requests' = {}
    BY <1>1, <2>2, <2>3, <2>4, <2>5, HandlerEnds
  <2>6. CASE requests' = {SaveAfter(r)} /\ Bar'.busy
    <3>1. PICK q : /\ q = SaveAfter(r) /\ requests' = {q}
                   /\ q.from = "bar" /\ q.kind = "save" /\ q.ui = "live"
                   /\ q.st = "sent" /\ ~q.conf
      BY <2>6, SaveAfterAlone
    <3>2. BarRequest(q)'
      BY <2>3, <2>6, <3>1 DEF BarRequest
    <3> QED
      BY <1>1, <2>2, <2>3, <2>4, <3>1, <3>2 DEF WindowInv, TimerIsKnown
  <2> QED
    BY <2>3, <2>5, <2>6
<1>5. CASE ImportDone(r)
  BY <1>2, <1>5 DEF ImportDone, Waits, BarRequest
<1>6. CASE KeepRollbackDone(r) \/ SaveDone(r)
  <2>1. /\ requests' = {} /\ Show(r, Idle) /\ r.st = "ok" /\ ~r.conf
        /\ UNCHANGED <<router, done>>
    BY <1>2, <1>6 DEF KeepRollbackDone, SaveDone, Waits, BarRequest, WindowInv,
       TypeOK
  <2> QED
    BY <1>1, <2>1, ClosedAtReply, ShowAlone, HandlerEnds
<1>7. CASE Fails(r)
  <2> DEFINE panel == [ui[r.from] EXCEPT !.busy = FALSE,
                         !.then = IF r.kind = "keep" THEN FALSE ELSE @]
  <2>1. r.st = "err" /\ requests' = {} /\ Show(r, panel)
        /\ UNCHANGED <<router, done>>
    BY <1>2, <1>7 DEF Fails, Alone
  <2>2. Bar' = panel /\ \A p \in Panels \ {"bar"} : ui'[p] = ui[p]
    BY <2>1, ShowAlone
  <2>3. ui[r.from] = Bar /\ Bar \in Panel
    BY <1>2, BarIsAPanel DEF BarRequest, Bar, WindowInv
  <2>4. Bar'.win = Bar.win
    BY <2>2, <2>3 DEF Panel
  <2>5. TimerIsKnown'
    BY <1>2, <2>1, <2>4 DEF WindowInv, TimerIsKnown, Opens
  <2> QED
    BY <1>1, <2>1, <2>2, <2>5 DEF WindowInv
<1> QED
  BY <1>3, <1>4, <1>5, <1>6, <1>7 DEF Replies

(* A request that was sent fails when the router restarts.                 *)
LEMMA RebootAlone ==
  ASSUME WindowInv, NEW r \in requests, Reboot
  PROVE  \/ requests' = {r} /\ r.st # "sent"
         \/ r.st = "sent" /\ requests' = {AnswerOf(r, "err", r.win)}
<1>1. requests = {r} /\ r \in Request /\ BarRequest(r)
  BY OnlyRequest
<1>2. {q \in requests : q.st # "sent" \/ q.ui # "gone"} = {r}
  BY <1>1 DEF BarRequest
<1>3. requests' = {IF r.st = "sent" THEN [r EXCEPT !.st = "err"] ELSE r}
  BY <1>2 DEF Reboot
<1>4. [r EXCEPT !.st = "err"] = AnswerOf(r, "err", r.win)
  BY <1>1 DEF Request, AnswerOf
<1> QED
  BY <1>3, <1>4

LEMMA RouterWindow ==
  ASSUME WindowInv, RouterExpire \/ Reboot
  PROVE  WindowInv'
<1>1. TypeOK' /\ UNCHANGED <<ui, done>> /\ timer' = Closed
  BY RouterTypeOK DEF WindowInv, RouterExpire, Reboot
<1>2. CASE requests' = requests
  BY <1>1, <1>2 DEF WindowInv, TimerIsKnown, BarRequest, Bar
<1>3. CASE requests' # requests
  <2>1. Reboot
    BY <1>3 DEF RouterExpire
  <2>2. CASE requests = {}
    <3>1. requests' = {}
      BY <2>1, <2>2 DEF Reboot
    <3> QED
      BY <1>3, <2>2, <3>1
  <2>3. CASE \E r \in requests : TRUE
    <3>1. PICK r \in requests : TRUE
      BY <2>3
    <3>2. requests = {r}
      BY OnlyRequest
    <3>3. r.st = "sent" /\ requests' = {AnswerOf(r, "err", r.win)}
      BY <1>3, <2>1, <3>2, RebootAlone
    <3> QED
      BY <1>1, <3>3, AnswerWindow
  <2> QED
    BY <2>2, <2>3
<1> QED
  BY <1>2, <1>3

(* A countdown only ends once the router's timer is closed.                *)
LEMMA ClosedAtExpiry ==
  ASSUME WindowInv, Bar.win # NoWindow, timer.win # Bar.win
  PROVE  timer = Closed
BY DEF WindowInv, TimerIsKnown, BarRequest, Opens

LEMMA UiExpireAlone ==
  ASSUME WindowInv, UiExpire("bar")
  PROVE  /\ timer = Closed
         /\ Bar'.win = NoWindow /\ Bar'.busy = Bar.busy
         /\ \A p \in Panels \ {"bar"} : ui'[p] = ui[p]
         /\ UNCHANGED <<router, stores, done, requests, history>>
<1>1. Bar' = [Idle EXCEPT !.busy = Bar.busy]
  BY BarIsAPanel DEF UiExpire, Bar, WindowInv, TypeOK
<1>2. Bar'.win = NoWindow /\ Bar'.busy = Bar.busy
  BY <1>1 DEF Idle
<1> QED
  BY <1>2, ClosedAtExpiry DEF UiExpire, Bar, WindowInv, TypeOK

LEMMA UiExpireWindow ==
  ASSUME WindowInv, UiExpire("bar")
  PROVE  WindowInv'
<1>1. TypeOK'
  BY UiExpireTypeOK, BarIsAPanel DEF WindowInv
<1>2. \A r \in requests : BarRequest(r)'
  BY UiExpireAlone DEF WindowInv, BarRequest
<1> QED
  BY <1>1, <1>2, UiExpireAlone DEF WindowInv, TimerIsKnown

LEMMA NextWindow ==
  ASSUME Alone, WindowInv, [Next]_vars
  PROVE  WindowInv'
<1>1. CASE UNCHANGED vars
  <2>1. TypeOK'
    BY <1>1, NextTypeOK DEF WindowInv
  <2> QED
    BY <1>1, <2>1, SameWindow DEF vars
<1>2. CASE BarNext
  <2>1. CASE Queue
    BY <2>1, QueueWindow
  <2>2. CASE BarClick
    BY <2>2, ClickWindow
  <2>3. CASE \E r \in requests : Runs(r) \/ Replies(r)
    BY <2>3, RunsWindow, RepliesWindow
  <2>4. CASE RouterExpire \/ Reboot
    BY <2>4, RouterWindow
  <2>5. CASE UiExpire("bar")
    BY <2>5, UiExpireWindow
  <2> QED
    BY <1>2, <2>1, <2>2, <2>3, <2>4, <2>5 DEF BarNext, BarClick
<1> QED
  BY <1>1, <1>2, BarIsAlone

(* The bar has one request at most, and knows of every open window: it     *)
(* shows it, or the reply that makes it show it is under way (runCommit,   *)
(* handleKeep, runRollback, the busy flag that disables their buttons).    *)
THEOREM WindowInvariant == Alone => (Spec => []WindowInv)
<1> SUFFICES ASSUME Alone PROVE Spec => []WindowInv
  OBVIOUS
<1>1. Init => WindowInv
  BY InitWindow
<1>2. WindowInv /\ [Next]_vars => WindowInv'
  BY NextWindow
<1> QED
  BY <1>1, <1>2, PTL DEF Spec

(* Only a save writes to the disk, and no window is open when it runs.     *)
LEMMA SavesAreFinal ==
  ASSUME Alone, WindowInv, [Next]_vars, saved' # saved
  PROVE  timer = Closed
<1>1. BarNext
  BY BarIsAlone DEF vars
<1>2. ~BarClick
  BY DEF BarClick, ClickCommit, ClickKeep, ClickSave, ClickRollback, Send
<1>3. ~Queue
  BY DEF Queue, AddAppend, AddCancel, Remove, Discard, DismissError,
     MarkAsSaved
<1>4. ~RouterExpire /\ ~Reboot /\ ~UiExpire("bar")
  BY DEF RouterExpire, Reboot, UiExpire
<1>5. PICK r \in requests : Runs(r) \/ Replies(r)
  BY <1>1, <1>2, <1>3, <1>4 DEF BarNext, BarClick
<1>6. ~Replies(r)
  BY DEF Replies, OpenWindow, CommitDone, KeepCommitDone, RecordCommit,
     ImportDone, KeepRollbackDone, SaveDone, Fails
<1>7. RouterSave(r)
  BY <1>5, <1>6 DEF Runs, RouterCommit, RouterImport, RouterRollback,
     RouterKeep, RouterRefuse
<1>8. requests = {r} /\ BarRequest(r)
  BY OnlyRequest
<1> QED
  BY <1>7, <1>8, TimerIsClosed DEF RouterSave, BarRequest, Opens

(* saveAfterSuccessfulCommit and handleStandaloneSave never write to disk  *)
(* what still waits for its confirmation, even if the router restarts and  *)
(* even if a Keep comes too late.                                          *)
THEOREM SavesAreNeverTentative == Alone => (Spec => SaveIsNeverTentative)
<1> SUFFICES ASSUME Alone PROVE Spec => SaveIsNeverTentative
  OBVIOUS
<1>1. WindowInv /\ [Next]_vars => [saved' # saved => timer = Closed]_vars
  BY SavesAreFinal
<1>2. Spec => []WindowInv
  BY WindowInvariant
<1> QED
  BY <1>1, <1>2, PTL DEF Spec, SaveIsNeverTentative

-----------------------------------------------------------------------------
(* The content: ContentInv is inductive on top of WindowInv and the        *)
(* bookkeeping, unless a Keep can be late.                                 *)

Punctual == Disturbances \subseteq {"reboot", "mark_saved"}

LEMMA PunctualIsAlone == Punctual => Alone
BY DEF Punctual, Alone

FinalCommit(r) == Final(r) /\ r.kind \in {"commit", "keep"} /\ r.action = "commit"

LEMMA NoneOnTheirWay ==
  /\ requests = {} => OnTheirWay = {}
  /\ requests' = {} => OnTheirWay' = {}
BY DEF OnTheirWay, CommitsFinal

LEMMA OneOnItsWay ==
  ASSUME NEW r
  PROVE  /\ requests = {r} => OnTheirWay = IF FinalCommit(r) THEN r.ents ELSE {}
         /\ requests' = {r} => OnTheirWay' = IF FinalCommit(r) THEN r.ents ELSE {}
         /\ requests = {r} => (r \in CommitsFinal <=> FinalCommit(r))
         /\ requests' = {r} => (r \in CommitsFinal' <=> FinalCommit(r))
<1>1. requests = {r} => CommitsFinal = IF FinalCommit(r) THEN {r} ELSE {}
  BY DEF CommitsFinal, FinalCommit
<1>2. requests' = {r} => CommitsFinal' = IF FinalCommit(r) THEN {r} ELSE {}
  BY DEF CommitsFinal, FinalCommit, Final
<1> QED
  BY <1>1, <1>2 DEF OnTheirWay

LEMMA ClosedIsLive ==
  /\ timer = Closed => Live = running
  /\ timer' = Closed => Live' = running'
BY DEF Live, Closed

LEMMA InitContent == Init => ContentInv
BY DEF Init, ContentInv, Closed, Live, TentativeIsKnown

(* Steps that change the queue only, and lose nothing from it. *)
LEMMA SameContent ==
  ASSUME ContentInv, BookkeepingInv, TypeOK',
         UNCHANGED <<router, ui, requests, reverted>>,
         nextId =< nextId',
         changes \cup discarded \subseteq changes' \cup discarded',
         queued' \subseteq queued \cup changes',
         \A e \in changes' \ changes : e.id = nextId
  PROVE  ContentInv'
<1>1. nextId \in Nat /\ nextId' \in Nat
  BY MaxEntriesAssumption DEF BookkeepingInv, TypeOK
<1>2. Live' = Live /\ OnTheirWay' = OnTheirWay /\ CommitsFinal' = CommitsFinal
      /\ Bar' = Bar
  BY DEF Live, OnTheirWay, CommitsFinal, Bar
<1>3. \A e \in running \cup saved \cup timer.restore : e \in Entry /\ e.id \in Nat
  BY MaxEntriesAssumption DEF BookkeepingInv, TypeOK, Timer, Entry, Ids
<1>4. \A e \in running' \cup saved' \cup timer'.restore : e.id < nextId'
  BY <1>1, <1>3 DEF ContentInv
<1>5. Live \subseteq running \cup timer.restore
  BY DEF Live
<1>6. \A e \in Live : e \notin changes' \ changes
  BY <1>1, <1>3, <1>5 DEF ContentInv
<1>7. changes' \cap Live' \subseteq OnTheirWay'
  BY <1>2, <1>6 DEF ContentInv
<1>8. \A r \in requests' : SoundContent(r)'
  <2> SUFFICES ASSUME NEW r \in requests PROVE SoundContent(r)'
    OBVIOUS
  <2>1. SoundContent(r)
    BY DEF ContentInv
  <2> QED
    BY <1>2, <2>1 DEF SoundContent
<1>9. TentativeIsKnown'
  BY <1>2 DEF ContentInv, TentativeIsKnown, Tentative
<1> QED
  BY <1>2, <1>4, <1>7, <1>8, <1>9 DEF ContentInv

LEMMA QueueContent ==
  ASSUME ContentInv, BookkeepingInv, Queue
  PROVE  ContentInv'
<1>1. TypeOK' /\ nextId \in Nat
  BY QueueTypeOK, MaxEntriesAssumption DEF BookkeepingInv, TypeOK
<1>2. CASE \E op \in UserOps : AddAppend(op)
  BY <1>1, <1>2, SameContent DEF AddAppend
<1>3. CASE \E op \in UserOps : AddCancel(op)
  BY <1>1, <1>3, SameContent DEF AddCancel
<1>4. CASE \E e \in changes : Remove(e)
  BY <1>1, <1>4, SameContent DEF Remove
<1>5. CASE Discard
  BY <1>1, <1>5, SameContent DEF Discard
<1>6. CASE DismissError
  BY <1>1, <1>6, SameContent DEF DismissError
<1>7. CASE MarkAsSaved
  BY <1>1, <1>7, SameContent DEF MarkAsSaved
<1> QED
  BY <1>2, <1>3, <1>4, <1>5, <1>6, <1>7 DEF Queue

(* Nothing is under way when a click sends; what it sends is sound. *)
LEMMA SendContent ==
  ASSUME ContentInv, WindowInv, NEW r, Send("bar", r), r.st = "sent",
         SoundContent(r)'
  PROVE  ContentInv'
<1>1. /\ requests = {} /\ requests' = {r}
      /\ Bar' = [Bar EXCEPT !.busy = TRUE]
      /\ UNCHANGED <<router, stores, history>>
  BY SendAlone
<1>2. Bar'.win = Bar.win /\ Bar'.action = Bar.action /\ Bar'.ents = Bar.ents
  BY <1>1, BarIsAPanel DEF WindowInv, Panel
<1>3. Live' = Live /\ OnTheirWay' = {} /\ OnTheirWay = {}
  BY <1>1, NoneOnTheirWay, OneOnItsWay DEF Live, FinalCommit, Final
<1>4. TentativeIsKnown'
  BY <1>1, <1>2 DEF ContentInv, TentativeIsKnown, Tentative
<1> QED
  BY <1>1, <1>3, <1>4 DEF ContentInv

LEMMA ClickContent ==
  ASSUME Punctual, ContentInv, WindowInv, BarClick
  PROVE  ContentInv'
<1>1. ASSUME NEW alsoSave \in BOOLEAN, NEW safeApply \in BOOLEAN,
             Send("bar", CommitAsk(alsoSave, safeApply)), changes # {}
      PROVE  ContentInv'
  <2>1. PICK r : r = CommitAsk(alsoSave, safeApply)
    OBVIOUS
  <2>2. r.kind = "commit" /\ r.action = "commit" /\ r.ents = changes /\ r.st = "sent"
    BY <2>1, CommitAskIs
  <2>3. Send("bar", r)
    BY <1>1, <2>1
  <2>4. requests = {} /\ requests' = {r} /\ UNCHANGED <<router, stores, history>>
    BY <2>3, SendAlone
  <2>5. r.ents \cap Live' = {}
    BY <2>2, <2>4, NoneOnTheirWay DEF ContentInv, Live
  <2>6. r \notin CommitsFinal'
    BY <2>2, <2>4 DEF CommitsFinal, Final
  <2>7. SoundContent(r)'
    BY <1>1, <2>2, <2>4, <2>5, <2>6 DEF SoundContent
  <2> QED
    BY <2>2, <2>3, <2>7, SendContent
<1>2. ASSUME Send("bar", KeepAsk), Bar.win # NoWindow, timer.win = Bar.win
      PROVE  ContentInv'
  <2>1. PICK r : r = KeepAsk
    OBVIOUS
  <2>2. /\ r.kind = "keep" /\ r.action = Bar.action /\ r.ents = Bar.ents
        /\ r.st = "sent"
    BY <2>1, KeepAskIs
  <2>3. Send("bar", r)
    BY <1>2, <2>1
  <2>4. /\ requests' = {r} /\ Bar' = [Bar EXCEPT !.busy = TRUE]
        /\ UNCHANGED <<router, stores, history>>
    BY <2>3, SendAlone
  <2>5. Bar'.win = Bar.win /\ Bar'.action = Bar.action /\ Bar'.ents = Bar.ents
    BY <2>4, BarIsAPanel DEF WindowInv, Panel
  <2>6. r \notin CommitsFinal'
    BY <2>2, <2>4 DEF CommitsFinal, Final
  <2>7. SoundContent(r)'
    BY <1>2, <2>2, <2>4, <2>5, <2>6 DEF SoundContent
  <2> QED
    BY <2>2, <2>3, <2>7, SendContent
<1>3. ASSUME Send("bar", Ask("bar", "save"))
      PROVE  ContentInv'
  <2>1. PICK r : r = Ask("bar", "save")
    OBVIOUS
  <2>2. r.kind = "save" /\ r.st = "sent"
    BY <2>1, BarAsks
  <2>3. r \notin CommitsFinal'
    BY <2>2 DEF CommitsFinal
  <2>4. SoundContent(r)'
    BY <2>2, <2>3 DEF SoundContent
  <2> QED
    BY <1>3, <2>1, <2>2, <2>4, SendContent
<1>4. ASSUME Send("bar", RollbackAsk)
      PROVE  ContentInv'
  <2>1. PICK r : r = RollbackAsk
    OBVIOUS
  <2>2. r.kind = "rollback" /\ r.action = "rollback" /\ r.st = "sent"
    BY <2>1, RollbackAskIs
  <2>3. r \notin CommitsFinal'
    BY <2>2 DEF CommitsFinal
  <2>4. SoundContent(r)'
    BY <2>2, <2>3 DEF SoundContent
  <2> QED
    BY <1>4, <2>1, <2>2, <2>4, SendContent
<1> QED
  BY <1>1, <1>2, <1>3, <1>4, BarSends DEF Punctual

(* Before a request other than a Keep has run, no window is open and       *)
(* nothing is on its way into the list.                                    *)
LEMMA BeforeItRuns ==
  ASSUME WindowInv, ContentInv, NEW r \in requests, r.st # "ok"
  PROVE  /\ requests = {r} /\ r \in Request /\ BarRequest(r) /\ SoundContent(r)
         /\ OnTheirWay = {} /\ changes \cap Live = {}
         /\ r.kind # "keep" => timer = Closed /\ Live = running
<1>1. requests = {r} /\ r \in Request /\ BarRequest(r) /\ SoundContent(r)
  BY OnlyRequest DEF ContentInv
<1>2. OnTheirWay = {}
  BY <1>1, OneOnItsWay DEF FinalCommit, Final
<1>3. changes \cap Live = {}
  BY <1>2 DEF ContentInv
<1>4. r.kind # "keep" => timer = Closed
  BY <1>1, TimerIsClosed DEF BarRequest, Opens
<1> QED
  BY <1>1, <1>2, <1>3, <1>4, ClosedIsLive

LEMMA RouterCommitContent ==
  ASSUME WindowInv, ContentInv, BookkeepingInv, NEW r \in requests,
         RouterCommit(r)
  PROVE  ContentInv'
<1>1. /\ r.kind = "commit" /\ r.st = "sent" /\ requests = {r} /\ BarRequest(r)
      /\ SoundContent(r) /\ changes \cap running = {}
      /\ timer = Closed /\ Live = running
  BY BeforeItRuns DEF RouterCommit
<1>2. \A e \in r.ents : e.id < nextId
  BY DEF BookkeepingInv, SoundRequest
<1>3. /\ running' = running \cup r.ents /\ reverted' = reverted \ r.ents
      /\ UNCHANGED <<saved, changes, nextId, ui, discarded, queued>>
  BY DEF RouterCommit
<1>4. saved \subseteq running /\ reverted \cap queued \subseteq changes \cup discarded
  BY <1>1 DEF ContentInv
<1>5. r.action = "commit" /\ r.ents # {} /\ r.ents \subseteq changes \cup discarded
      /\ r.ents \cap running = {}
  BY <1>1 DEF SoundContent
<1>6. CASE r.conf
  <2>1. PICK w \in Windows :
          /\ timer' = [win |-> w, restore |-> running]
          /\ requests' = {AnswerOf(r, "ok", w)}
    BY <1>1, <1>6, RunTimedAlone DEF RouterCommit, RunConfirmable
  <2>2. timer'.win # NoWindow /\ timer'.restore = running
    BY <2>1, WindowsAssumption
  <2>3. PICK q : /\ requests' = {q} /\ q.kind = "commit" /\ q.action = "commit"
                 /\ q.ents = r.ents /\ q.conf /\ q.st = "ok"
    BY <1>1, <1>5, <1>6, <2>1, AnswerIs
  <2>4. Live' = running
    BY <2>2 DEF Live
  <2>5. OnTheirWay' = {} /\ q \notin CommitsFinal'
    BY <2>3, OneOnItsWay DEF FinalCommit, Final
  <2>6. Tentative(q.action, q.ents)'
    BY <1>3, <1>5, <2>2, <2>3 DEF Tentative
  <2>7. TentativeIsKnown'
    BY <2>3, <2>6 DEF TentativeIsKnown, Opens
  <2>8. SoundContent(q)'
    BY <1>3, <1>5, <2>3, <2>5 DEF SoundContent
  <2>9. \A e \in running' \cup saved' \cup timer'.restore : e.id < nextId'
    BY <1>2, <1>3, <2>2 DEF ContentInv
  <2> QED
    BY <1>1, <1>3, <1>4, <2>3, <2>4, <2>5, <2>7, <2>8, <2>9 DEF ContentInv
<1>7. CASE ~r.conf
  <2>1. timer' = Closed /\ requests' = {AnswerOf(r, "ok", NoWindow)}
    BY <1>1, <1>7, AnswerAlone DEF RouterCommit, RunConfirmable, RunUntimed
  <2>2. PICK q : /\ requests' = {q} /\ q.kind = "commit" /\ q.action = "commit"
                 /\ q.ents = r.ents /\ ~q.conf /\ q.st = "ok" /\ q.ui = r.ui
    BY <1>1, <1>5, <1>7, <2>1, AnswerIs
  <2>3. Live' = running \cup r.ents
    BY <1>3, <2>1, ClosedIsLive
  <2>4. OnTheirWay' = r.ents
    BY <1>1, <2>2, OneOnItsWay DEF FinalCommit, Final, BarRequest
  <2>5. SoundContent(q)'
    BY <1>3, <1>5, <2>2 DEF SoundContent
  <2>6. \A e \in running' \cup saved' \cup timer'.restore : e.id < nextId'
    BY <1>1, <1>2, <1>3, <2>1 DEF ContentInv
  <2> QED
    BY <1>1, <1>3, <1>4, <2>1, <2>2, <2>3, <2>4, <2>5, <2>6
       DEF ContentInv, TentativeIsKnown
<1> QED
  BY <1>6, <1>7

LEMMA RouterRollbackContent ==
  ASSUME WindowInv, ContentInv, NEW r \in requests, RouterRollback(r)
  PROVE  ContentInv'
<1>1. /\ r.kind = "rollback" /\ r.st = "sent" /\ requests = {r} /\ BarRequest(r)
      /\ SoundContent(r) /\ changes \cap running = {}
      /\ timer = Closed /\ Live = running
  BY BeforeItRuns DEF RouterRollback
<1>2. running' = saved /\ UNCHANGED <<saved, stores, ui, history>>
  BY DEF RouterRollback
<1>3. PICK w \in Windows :
        /\ timer' = [win |-> w, restore |-> running]
        /\ requests' = {AnswerOf(r, "ok", w)}
  BY <1>1, RunTimedAlone DEF RouterRollback
<1>4. timer'.win # NoWindow /\ timer'.restore = running
  BY <1>3, WindowsAssumption
<1>5. PICK q : /\ requests' = {q} /\ q.kind = "rollback" /\ q.action = "rollback"
               /\ q.conf /\ q.st = "ok"
  BY <1>1, <1>3, AnswerIs DEF BarRequest, SoundContent
<1>6. Live' = running
  BY <1>4 DEF Live
<1>7. OnTheirWay' = {} /\ q \notin CommitsFinal'
  BY <1>5, OneOnItsWay DEF FinalCommit, Final
<1>8. TentativeIsKnown'
  BY <1>2, <1>5 DEF TentativeIsKnown, Tentative, Opens
<1>9. SoundContent(q)'
  BY <1>5, <1>7 DEF SoundContent
<1> QED
  BY <1>1, <1>2, <1>4, <1>5, <1>6, <1>7, <1>8, <1>9 DEF ContentInv

(* A Keep that is under way finds the window it was sent for. *)
LEMMA KeepFindsItsWindow ==
  ASSUME WindowInv, ContentInv, NEW r \in requests, r.kind = "keep",
         r.st = "sent"
  PROVE  /\ timer.win # NoWindow /\ Live = timer.restore
         /\ Tentative(r.action, r.ents)
<1>1. requests = {r} /\ SoundContent(r)
  BY OnlyRequest DEF ContentInv
<1>2. timer.win # NoWindow /\ timer.win = Bar.win
  BY <1>1 DEF SoundContent
<1>3. timer # Closed
  BY <1>2 DEF Closed
<1>4. Tentative(Bar.action, Bar.ents)
  BY <1>1, <1>3 DEF ContentInv, TentativeIsKnown, Opens
<1>5. r.action = Bar.action /\ r.ents = Bar.ents
  BY <1>1, <1>2 DEF SoundContent
<1> QED
  BY <1>2, <1>4, <1>5 DEF Live

LEMMA RouterKeepContent ==
  ASSUME WindowInv, ContentInv, BookkeepingInv, NEW r \in requests,
         RouterKeep(r)
  PROVE  ContentInv'
<1>1. /\ r.kind = "keep" /\ r.st = "sent" /\ requests = {r} /\ BarRequest(r)
      /\ SoundContent(r) /\ changes \cap Live = {}
  BY BeforeItRuns DEF RouterKeep
<1>2. timer' = Closed /\ UNCHANGED <<running, saved, stores, ui, history>>
  BY DEF RouterKeep
<1>3. requests' = {AnswerOf(r, "ok", r.win)}
  BY AnswerAlone DEF RouterKeep
<1>4. PICK q : /\ requests' = {q} /\ q.kind = "keep" /\ q.action = r.action
               /\ q.ents = r.ents /\ ~q.conf /\ q.st = "ok" /\ q.ui = "live"
  BY <1>1, <1>3, AnswerIs DEF BarRequest
<1>5. Live = timer.restore /\ Live' = running
  BY <1>1, <1>2, KeepFindsItsWindow, ClosedIsLive
<1>6. Bar' = Bar
  BY <1>2 DEF Bar
<1>7. \A e \in running' \cup saved' \cup timer'.restore : e.id < nextId'
  BY <1>2 DEF ContentInv, Closed
<1>8. TentativeIsKnown'
  BY <1>2 DEF TentativeIsKnown
<1>9. CASE r.action = "commit"
  <2>1. running = timer.restore \cup r.ents /\ r.ents \cap reverted = {}
    BY <1>1, <1>9, KeepFindsItsWindow DEF Tentative
  <2>2. OnTheirWay' = r.ents
    BY <1>4, <1>9, OneOnItsWay DEF FinalCommit, Final
  <2>3. SoundContent(q)'
    BY <1>1, <1>2, <1>4, <1>6, <2>1 DEF SoundContent
  <2> QED
    BY <1>1, <1>2, <1>4, <1>5, <1>7, <1>8, <2>1, <2>2, <2>3 DEF ContentInv
<1>10. CASE r.action # "commit"
  <2>1. running = saved
    BY <1>1, <1>10, KeepFindsItsWindow DEF Tentative
  <2>2. q \notin CommitsFinal'
    BY <1>4, <1>10 DEF CommitsFinal
  <2>3. SoundContent(q)'
    BY <1>1, <1>2, <1>4, <1>6, <2>2 DEF SoundContent
  <2> QED
    BY <1>1, <1>2, <1>4, <1>5, <1>7, <1>8, <2>1, <2>3 DEF ContentInv
<1> QED
  BY <1>9, <1>10

LEMMA RouterSaveContent ==
  ASSUME WindowInv, ContentInv, NEW r \in requests, RouterSave(r)
  PROVE  ContentInv'
<1>1. /\ r.kind = "save" /\ r.st = "sent" /\ requests = {r}
      /\ changes \cap running = {} /\ timer = Closed /\ Live = running
  BY BeforeItRuns DEF RouterSave
<1>2. saved' = running /\ UNCHANGED <<running, timer, stores, ui, history>>
  BY DEF RouterSave
<1>3. requests' = {AnswerOf(r, "ok", NoWindow)}
  BY AnswerAlone DEF RouterSave
<1>4. PICK q : requests' = {q} /\ q.kind = "save"
  BY <1>1, <1>3, AnswerIs
<1>5. q \notin CommitsFinal'
  BY <1>4 DEF CommitsFinal
<1>6. SoundContent(q)'
  BY <1>4, <1>5 DEF SoundContent
<1> QED
  BY <1>1, <1>2, <1>4, <1>6, ClosedIsLive DEF ContentInv, TentativeIsKnown

(* A request that was not run, refused or overtaken by a restart. *)
LEMMA NotRunContent ==
  ASSUME WindowInv, ContentInv, NEW r \in requests, r.st # "ok",
         requests' = {AnswerOf(r, "err", r.win)},
         UNCHANGED <<saved, stores, ui, history>>,
         \/ running' = running /\ timer' = timer
         \/ running' = saved /\ timer' = Closed
  PROVE  ContentInv'
<1>1. /\ requests = {r} /\ BarRequest(r) /\ SoundContent(r)
      /\ changes \cap Live = {}
  BY BeforeItRuns
<1>2. PICK q : /\ requests' = {q} /\ q.kind = r.kind /\ q.action = r.action
               /\ q.ents = r.ents /\ q.st = "err"
  BY AnswerIs
<1>3. Bar' = Bar
  BY DEF Bar
<1>4. saved' \subseteq Live' /\ Live' \subseteq Live
  <2>1. saved \subseteq Live
    BY DEF ContentInv
  <2>2. timer' = Closed => Live' = running'
    BY ClosedIsLive
  <2>3. running' = running /\ timer' = timer => Live' = Live
    BY DEF Live
  <2> QED
    BY <2>1, <2>2, <2>3
<1>5. q \notin CommitsFinal'
  BY <1>2 DEF CommitsFinal, Final
<1>6. SoundContent(q)'
  BY <1>1, <1>2, <1>3, <1>4, <1>5 DEF SoundContent
<1>7. TentativeIsKnown'
  <2>1. CASE timer' = Closed
    BY <2>1 DEF TentativeIsKnown
  <2>2. CASE running' = running /\ timer' = timer
    <3>1. \A s \in requests : ~Opens(s)
      BY <1>1 DEF Opens
    <3> QED
      BY <1>3, <2>2, <3>1 DEF ContentInv, TentativeIsKnown, Tentative
  <2> QED
    BY <2>1, <2>2
<1>8. \A e \in running' \cup saved' \cup timer'.restore : e.id < nextId'
  BY DEF ContentInv, Closed
<1> QED
  BY <1>1, <1>2, <1>4, <1>6, <1>7, <1>8 DEF ContentInv

LEMMA RunsContent ==
  ASSUME WindowInv, ContentInv, BookkeepingInv, NEW r \in requests, Runs(r)
  PROVE  ContentInv'
<1>1. CASE RouterImport(r)
  BY <1>1, OnlyRequest DEF RouterImport, BarRequest
<1>2. CASE RouterRefuse(r)
  BY <1>2, AnswerAlone, NotRunContent DEF RouterRefuse
<1> QED
  BY <1>1, <1>2, RouterCommitContent, RouterRollbackContent,
     RouterKeepContent, RouterSaveContent DEF Runs

(* A handler that changes no list, and what it leaves behind. *)
LEMMA HandlerContent ==
  ASSUME WindowInv, ContentInv, NEW r \in requests, r \notin CommitsFinal,
         requests' = {}, TentativeIsKnown',
         UNCHANGED <<router, changes, nextId, history>>
  PROVE  ContentInv'
<1>1. OnTheirWay = {} /\ OnTheirWay' = {}
  BY OnlyRequest, OneOnItsWay, NoneOnTheirWay
<1>2. Live' = Live
  BY DEF Live
<1> QED
  BY <1>1, <1>2 DEF ContentInv

LEMMA OpenWindowContent ==
  ASSUME WindowInv, ContentInv, NEW r \in requests, OpenWindow(r)
  PROVE  ContentInv'
<1> DEFINE panel == [busy |-> FALSE, win |-> r.win, action |-> r.action,
                     ents |-> r.ents, then |-> r.then, asked |-> r.then]
<1>1. requests = {r} /\ BarRequest(r) /\ Opens(r)
  BY OnlyRequest DEF OpenWindow, Waits, Opens, BarRequest
<1>2. Bar.win = NoWindow /\ r \notin CommitsFinal
  BY <1>1 DEF BarRequest, Opens, CommitsFinal, Final
<1>3. Show(r, panel) /\ UNCHANGED <<router, changes, nextId, history>>
      /\ requests' = {}
  BY <1>1 DEF OpenWindow
<1>4. Bar' = panel
  BY <1>3, ShowAlone
<1>5. Bar'.win = r.win /\ Bar'.action = r.action /\ Bar'.ents = r.ents
  BY <1>4
<1>6. TentativeIsKnown'
  <2>1. CASE timer = Closed
    BY <1>3, <2>1 DEF TentativeIsKnown
  <2>2. CASE timer # Closed
    <3>1. timer.win # NoWindow /\ timer.win = r.win
      BY <1>1, <1>2, <2>2 DEF WindowInv, TimerIsKnown
    <3>2. Tentative(r.action, r.ents)
      BY <1>1, <1>2, <2>2, <3>1 DEF ContentInv, TentativeIsKnown
    <3> QED
      BY <1>3, <1>5, <3>1, <3>2 DEF TentativeIsKnown, Tentative
  <2> QED
    BY <2>1, <2>2
<1> QED
  BY <1>2, <1>3, <1>6, HandlerContent

LEMMA RecordCommitContent ==
  ASSUME WindowInv, ContentInv, NEW r \in requests,
         RecordCommit(r), r.st = "ok", ~r.conf, r \in CommitsFinal
  PROVE  ContentInv'
<1>1. requests = {r} /\ SoundContent(r) /\ timer = Closed
  BY OnlyRequest, ClosedAtReply DEF ContentInv
<1>2. OnTheirWay = r.ents
  BY <1>1, OneOnItsWay
<1>3. /\ changes' = changes \ r.ents
      /\ UNCHANGED <<router, nextId, history>>
  BY DEF RecordCommit
<1>4. requests' = {} \/ requests' = {SaveAfter(r)}
  BY ProceedAlone DEF RecordCommit
<1>5. OnTheirWay' = {} /\ \A q \in requests' : q.kind = "save"
  <2>1. CASE requests' = {}
    BY <2>1, NoneOnTheirWay
  <2>2. CASE requests' = {SaveAfter(r)}
    <3>1. PICK q : q = SaveAfter(r)
      OBVIOUS
    <3>2. q.kind = "save" /\ requests' = {q}
      BY <2>2, <3>1, SaveAfterAlone
    <3> QED
      BY <3>2, OneOnItsWay DEF FinalCommit
  <2> QED
    BY <1>4, <2>1, <2>2
<1>6. \A q \in requests' : SoundContent(q)'
  BY <1>5 DEF SoundContent, CommitsFinal
<1>7. Live' = Live /\ changes' \cap Live = {}
  BY <1>2, <1>3 DEF ContentInv, Live
<1>8. reverted' \cap queued' \subseteq changes' \cup discarded'
  BY <1>1, <1>3 DEF ContentInv, SoundContent
<1>9. TentativeIsKnown'
  BY <1>1, <1>3 DEF TentativeIsKnown
<1> QED
  BY <1>3, <1>5, <1>6, <1>7, <1>8, <1>9 DEF ContentInv

LEMMA FailsAlone ==
  ASSUME Alone, WindowInv, NEW r \in requests, Fails(r)
  PROVE  /\ r.st = "err" /\ requests' = {}
         /\ Bar'.win = Bar.win /\ Bar'.action = Bar.action /\ Bar'.ents = Bar.ents
         /\ UNCHANGED <<router, stores, history>>
<1> DEFINE panel == [ui[r.from] EXCEPT !.busy = FALSE,
                       !.then = IF r.kind = "keep" THEN FALSE ELSE @]
<1>1. requests = {r} /\ BarRequest(r)
  BY OnlyRequest
<1>2. r.st = "err" /\ requests' = {} /\ Show(r, panel)
      /\ UNCHANGED <<router, stores, history>>
  BY <1>1 DEF Fails, Alone
<1>3. Bar' = panel
  BY <1>2, ShowAlone
<1>4. ui[r.from] = Bar /\ Bar \in Panel
  BY <1>1, BarIsAPanel DEF BarRequest, Bar, WindowInv
<1> QED
  BY <1>2, <1>3, <1>4 DEF Panel

LEMMA RepliesContent ==
  ASSUME Punctual, WindowInv, ContentInv, NEW r \in requests, Replies(r)
  PROVE  ContentInv'
<1>1. requests = {r} /\ BarRequest(r) /\ SoundContent(r)
  BY OnlyRequest DEF ContentInv
<1>2. CASE OpenWindow(r)
  BY <1>2, OpenWindowContent
<1>3. CASE CommitDone(r) \/ KeepCommitDone(r)
  <2>1. RecordCommit(r) /\ r.st = "ok" /\ ~r.conf /\ r \in CommitsFinal
    BY <1>1, <1>3 DEF CommitDone, KeepCommitDone, Waits, BarRequest,
       SoundContent, CommitsFinal, Final
  <2> QED
    BY <2>1, RecordCommitContent
<1>4. CASE ImportDone(r)
  BY <1>1, <1>4 DEF ImportDone, Waits, BarRequest
<1>5. CASE KeepRollbackDone(r) \/ SaveDone(r)
  <2>1. /\ requests' = {} /\ r.st = "ok" /\ ~r.conf /\ r \notin CommitsFinal
        /\ UNCHANGED <<router, changes, nextId, history>>
    BY <1>1, <1>5 DEF KeepRollbackDone, SaveDone, Waits, BarRequest,
       CommitsFinal
  <2>2. TentativeIsKnown'
    BY <2>1, ClosedAtReply DEF TentativeIsKnown
  <2> QED
    BY <2>1, <2>2, HandlerContent
<1>6. CASE Fails(r)
  <2>1. /\ r.st = "err" /\ requests' = {}
        /\ Bar'.win = Bar.win /\ Bar'.action = Bar.action /\ Bar'.ents = Bar.ents
        /\ UNCHANGED <<router, stores, history>>
    BY <1>6, FailsAlone, PunctualIsAlone
  <2>2. TentativeIsKnown'
    BY <1>1, <2>1 DEF ContentInv, TentativeIsKnown, Tentative, Opens
  <2>3. r \notin CommitsFinal
    BY <2>1 DEF CommitsFinal, Final
  <2> QED
    BY <2>1, <2>2, <2>3, HandlerContent
<1> QED
  BY <1>2, <1>3, <1>4, <1>5, <1>6 DEF Replies

(* While a window is open, nothing is on its way into the list. *)
LEMMA OpenMeansNothingFinal ==
  ASSUME WindowInv, timer.win # NoWindow
  PROVE  CommitsFinal = {}
<1>1. timer # Closed
  BY DEF Closed
<1>2. \A r \in requests : r \notin CommitsFinal
  BY <1>1, ClosedAtReply DEF CommitsFinal, Final
<1> QED
  BY <1>2 DEF CommitsFinal

LEMMA ExpireContent ==
  ASSUME Punctual, WindowInv, ContentInv, RouterExpire
  PROVE  ContentInv'
<1>1. /\ timer.win # NoWindow /\ running' = timer.restore /\ timer' = Closed
      /\ reverted' = reverted \cup (running \ timer.restore)
      /\ UNCHANGED <<saved, stores, ui, requests, discarded, queued>>
      /\ \A r \in requests : ~(r.kind = "keep" /\ r.st = "sent")
  BY DEF RouterExpire, Punctual
<1>2. timer # Closed /\ Live = timer.restore /\ Live' = timer.restore
  BY <1>1, ClosedIsLive DEF Closed, Live
<1>3. CommitsFinal = {} /\ CommitsFinal' = {}
  BY <1>1, OpenMeansNothingFinal DEF CommitsFinal
<1>4. OnTheirWay' = OnTheirWay
  BY <1>3 DEF OnTheirWay
<1>5. running \ timer.restore \subseteq changes \cup discarded
  <2>1. PICK action, ents : Tentative(action, ents)
    BY <1>2 DEF ContentInv, TentativeIsKnown
  <2> QED
    BY <1>2, <2>1 DEF Tentative, ContentInv
<1>6. Bar' = Bar
  BY <1>1 DEF Bar
<1>7. \A r \in requests : SoundContent(r)'
  BY <1>1, <1>2, <1>3, <1>6 DEF ContentInv, SoundContent
<1>8. TentativeIsKnown'
  BY <1>1 DEF TentativeIsKnown
<1>9. \A e \in running' \cup saved' \cup timer'.restore : e.id < nextId'
  BY <1>1 DEF ContentInv, Closed
<1> QED
  BY <1>1, <1>2, <1>4, <1>5, <1>7, <1>8, <1>9 DEF ContentInv

LEMMA RebootContent ==
  ASSUME WindowInv, ContentInv, Reboot
  PROVE  ContentInv'
<1>1. /\ running' = saved /\ timer' = Closed
      /\ UNCHANGED <<saved, stores, ui, history>>
  BY DEF Reboot
<1>2. CASE requests' = requests /\ \A r \in requests : r.st # "sent"
  <2>1. Live' = saved /\ saved \subseteq Live
    BY <1>1, ClosedIsLive DEF ContentInv
  <2>2. OnTheirWay' = OnTheirWay /\ CommitsFinal' = CommitsFinal /\ Bar' = Bar
    BY <1>1, <1>2 DEF OnTheirWay, CommitsFinal, Bar
  <2>3. \A r \in requests : SoundContent(r)'
    BY <1>1, <1>2, <2>1, <2>2 DEF ContentInv, SoundContent
  <2>4. \A e \in running' \cup saved' \cup timer'.restore : e.id < nextId'
    BY <1>1 DEF ContentInv, Closed
  <2> QED
    BY <1>1, <1>2, <2>1, <2>2, <2>3, <2>4 DEF ContentInv, TentativeIsKnown
<1>3. ASSUME NEW r \in requests, r.st = "sent" PROVE ContentInv'
  <2>1. requests' = {AnswerOf(r, "err", r.win)}
    BY <1>3, RebootAlone
  <2> QED
    BY <1>1, <1>3, <2>1, NotRunContent
<1>4. CASE \A r \in requests : r.st # "sent"
  <2>1. CASE requests = {}
    <3>1. requests' = {}
      BY <2>1 DEF Reboot
    <3> QED
      BY <1>2, <2>1, <3>1
  <2>2. CASE requests # {}
    <3>1. PICK r \in requests : TRUE
      BY <2>2
    <3>2. requests = {r} /\ requests' = {r}
      BY <1>4, <3>1, OnlyRequest, RebootAlone
    <3> QED
      BY <1>2, <1>4, <3>2
  <2> QED
    BY <2>1, <2>2
<1> QED
  BY <1>3, <1>4

LEMMA UiExpireContent ==
  ASSUME WindowInv, ContentInv, UiExpire("bar")
  PROVE  ContentInv'
<1>1. /\ timer = Closed /\ Bar'.win = NoWindow
      /\ UNCHANGED <<router, stores, requests, history>>
  BY UiExpireAlone
<1>2. Live' = Live /\ OnTheirWay' = OnTheirWay /\ CommitsFinal' = CommitsFinal
  BY <1>1 DEF Live, OnTheirWay, CommitsFinal
<1>3. ASSUME NEW r \in requests PROVE SoundContent(r)'
  <2>1. SoundContent(r)
    BY DEF ContentInv
  <2>2. timer.win = NoWindow
    BY <1>1 DEF Closed
  <2> QED
    BY <1>1, <1>2, <2>1, <2>2 DEF SoundContent
<1>4. TentativeIsKnown'
  BY <1>1 DEF TentativeIsKnown
<1> QED
  BY <1>1, <1>2, <1>3, <1>4 DEF ContentInv

LEMMA NextContent ==
  ASSUME Punctual, WindowInv, ContentInv, BookkeepingInv, [Next]_vars
  PROVE  ContentInv'
<1>1. CASE UNCHANGED vars
  <2>1. TypeOK' /\ nextId \in Nat
    BY <1>1, NextTypeOK, MaxEntriesAssumption DEF WindowInv, TypeOK
  <2> QED
    BY <1>1, <2>1, SameContent DEF vars
<1>2. CASE BarNext
  <2>1. CASE Queue
    BY <2>1, QueueContent
  <2>2. CASE BarClick
    BY <2>2, ClickContent
  <2>3. CASE \E r \in requests : Runs(r) \/ Replies(r)
    BY <2>3, RunsContent, RepliesContent
  <2>4. CASE RouterExpire \/ Reboot
    BY <2>4, ExpireContent, RebootContent
  <2>5. CASE UiExpire("bar")
    BY <2>5, UiExpireContent
  <2> QED
    BY <1>2, <2>1, <2>2, <2>3, <2>4, <2>5 DEF BarNext, BarClick
<1> QED
  BY <1>1, <1>2, BarIsAlone, PunctualIsAlone

(* What the router runs, has on disk and would go back to, together with   *)
(* the queue and the request of the bar, while no Keep comes too late.     *)
THEOREM ContentInvariant == Punctual => (Spec => [](WindowInv /\ ContentInv))
<1> SUFFICES ASSUME Punctual PROVE Spec => [](WindowInv /\ ContentInv)
  OBVIOUS
<1>1. Init => ContentInv
  BY InitContent
<1>2. WindowInv /\ BookkeepingInv /\ ContentInv /\ [Next]_vars => ContentInv'
  BY NextContent
<1>3. Spec => []WindowInv
  BY PunctualIsAlone, WindowInvariant
<1>4. Spec => []BookkeepingInv
  BY BookkeepingCorrect
<1> QED
  BY <1>1, <1>2, <1>3, <1>4, PTL DEF Spec

(* What VyOS takes back at the end of an unconfirmed window is in the      *)
(* queue again, or the user took it back: runCommit leaves the changes     *)
(* there until they are confirmed.                                         *)
THEOREM RevertedStaysPending == Punctual => (Spec => []RevertedIsPending)
<1> SUFFICES ASSUME Punctual PROVE Spec => []RevertedIsPending
  OBVIOUS
<1>1. ContentInv => RevertedIsPending
  BY DEF ContentInv, RevertedIsPending
<1> QED
  BY <1>1, ContentInvariant, PTL

-----------------------------------------------------------------------------
(***************************************************************************)
(* The bar, working alone, implements ConfigLedger: every step of the      *)
(* engine is a step of the ledger or leaves it as it is. What the ledger   *)
(* promises of its unsaved list is therefore true of the bar's, and in     *)
(* part it survives restarts of the router.                                *)
(***************************************************************************)

DraftNow == changes \ OnTheirWay

UnsavedNow == IF \E r \in requests : ClearsList(r) THEN {}
              ELSE committed \cup OnTheirWay

LEMMA Stutters ==
  ASSUME UNCHANGED <<DraftNow, Live, saved, UnsavedNow>>
  PROVE  UNCHANGED Ledger!ledger
BY DEF Ledger!ledger, DraftNow, Live, UnsavedNow

LEMMA Drafts ==
  ASSUME NEW e \in Entry, DraftNow' = DraftNow \cup {e},
         UNCHANGED <<Live, saved, UnsavedNow>>
  PROVE  Ledger!Next
BY DEF Ledger!Next, Ledger!Draft, DraftNow, Live, UnsavedNow

LEMMA TakesBack ==
  ASSUME DraftNow' \subseteq DraftNow,
         UNCHANGED <<Live, saved, UnsavedNow>>
  PROVE  Ledger!Next
BY DEF Ledger!Next, Ledger!TakeBack, DraftNow, Live, UnsavedNow

LEMMA Commits ==
  ASSUME Live \subseteq Live', Live' # Live, DraftNow' = DraftNow \ Live',
         UnsavedNow' = UnsavedNow \cup (Live' \ Live), UNCHANGED saved
  PROVE  Ledger!Next
<1>1. Ledger!Commit
  BY DEF Ledger!Commit, DraftNow, Live, UnsavedNow
<1> QED
  BY <1>1 DEF Ledger!Next

LEMMA Saves ==
  ASSUME saved' = Live, UnsavedNow' = {}, UNCHANGED <<DraftNow, Live>>
  PROVE  Ledger!Next
BY DEF Ledger!Next, Ledger!Save, DraftNow, Live, UnsavedNow

LEMMA RollsBack ==
  ASSUME Live' = saved, UnsavedNow' = {}, UNCHANGED <<DraftNow, saved>>
  PROVE  Ledger!Next
BY DEF Ledger!Next, Ledger!Rollback, DraftNow, Live, UnsavedNow

(* What the ledger sees of the requests of the bar. *)
LEMMA NoRequestSeen ==
  /\ requests = {} => DraftNow = changes /\ UnsavedNow = committed
  /\ requests' = {} => DraftNow' = changes' /\ UnsavedNow' = committed'
BY NoneOnTheirWay DEF DraftNow, UnsavedNow

LEMMA RequestSeen ==
  ASSUME NEW r
  PROVE  /\ requests = {r} =>
              /\ FinalCommit(r) =>
                   DraftNow = changes \ r.ents /\ UnsavedNow = committed \cup r.ents
              /\ ~FinalCommit(r) => DraftNow = changes
              /\ ClearsList(r) => UnsavedNow = {}
              /\ ~FinalCommit(r) /\ ~ClearsList(r) => UnsavedNow = committed
         /\ requests' = {r} =>
              /\ FinalCommit(r) =>
                   DraftNow' = changes' \ r.ents /\ UnsavedNow' = committed' \cup r.ents
              /\ ~FinalCommit(r) => DraftNow' = changes'
              /\ ClearsList(r) => UnsavedNow' = {}
              /\ ~FinalCommit(r) /\ ~ClearsList(r) => UnsavedNow' = committed'
<1>1. ~(FinalCommit(r) /\ ClearsList(r))
  BY DEF FinalCommit, ClearsList
<1>2. requests = {r} => OnTheirWay = IF FinalCommit(r) THEN r.ents ELSE {}
  BY OneOnItsWay
<1>3. requests' = {r} => OnTheirWay' = IF FinalCommit(r) THEN r.ents ELSE {}
  BY OneOnItsWay
<1>4. requests = {r} => ((\E q \in requests : ClearsList(q)) <=> ClearsList(r))
  OBVIOUS
<1>5. requests' = {r} => ((\E q \in requests' : ClearsList(q)) <=> ClearsList(r))
  OBVIOUS
<1>6. UnsavedNow' = IF \E q \in requests' : ClearsList(q) THEN {}
                    ELSE committed' \cup OnTheirWay'
  BY DEF UnsavedNow, ClearsList, Final
<1> QED
  BY <1>1, <1>2, <1>3, <1>4, <1>5, <1>6 DEF DraftNow, UnsavedNow

(* A request that was sent, refused, or opens a window: not seen at all.   *)
LEMMA Unseen ==
  ASSUME NEW r, r.st # "ok" \/ r.conf
  PROVE  ~FinalCommit(r) /\ ~ClearsList(r)
BY DEF FinalCommit, ClearsList, Final

LEMMA InitRefines == Init => Ledger!Init
BY NoneOnTheirWay DEF Init, Ledger!Init, Closed

-----------------------------------------------------------------------------
(* The steps of the engine, seen from the ledger. *)

AllInv == BookkeepingInv /\ WindowInv /\ ContentInv

LEMMA QueueRefines ==
  ASSUME AllInv, Queue, ~MarkAsSaved
  PROVE  [Ledger!Next]_(Ledger!ledger)
<1>1. UNCHANGED <<router, committed, requests>>
  BY DEF Queue, AddAppend, AddCancel, Remove, Discard, DismissError
<1>2. UNCHANGED <<Live, saved, UnsavedNow, OnTheirWay>>
  BY <1>1 DEF Live, UnsavedNow, OnTheirWay, CommitsFinal, ClearsList, Final
<1>3. ASSUME NEW op \in UserOps, AddAppend(op) PROVE Ledger!Next
  <2> DEFINE e == [id |-> nextId, op |-> op]
  <2>1. e \in Entry
    BY <1>3, UserOpsAssumption DEF AddAppend, Entry
  <2>2. \A r \in requests : \A f \in r.ents : f.id < nextId
    BY DEF AllInv, BookkeepingInv, SoundRequest
  <2>3. nextId \in Nat
    BY MaxEntriesAssumption DEF AllInv, BookkeepingInv, TypeOK
  <2>4. \A r \in requests : e \notin r.ents
    BY <2>2, <2>3
  <2>5. e \notin OnTheirWay
    BY <2>4 DEF OnTheirWay, CommitsFinal
  <2>6. DraftNow' = DraftNow \cup {e}
    BY <1>2, <1>3, <2>5 DEF DraftNow, AddAppend
  <2> QED
    BY <1>2, <2>1, <2>6, Drafts
<1>4. ASSUME changes' \subseteq changes PROVE Ledger!Next
  BY <1>2, <1>4, TakesBack DEF DraftNow
<1>5. CASE \E op \in UserOps : AddCancel(op)
  BY <1>4, <1>5 DEF AddCancel
<1>6. CASE \E e \in changes : Remove(e)
  BY <1>4, <1>6 DEF Remove
<1>7. CASE Discard \/ DismissError
  BY <1>4, <1>7 DEF Discard, DismissError
<1> QED
  BY <1>3, <1>5, <1>6, <1>7 DEF Queue

(* A click only sends: nothing has happened yet. *)
LEMMA ClickRefines ==
  ASSUME AllInv, BarClick
  PROVE  UNCHANGED Ledger!ledger
<1>1. PICK r : Send("bar", r) /\ r.st = "sent"
  <2>1. \A alsoSave, safeApply \in BOOLEAN : CommitAsk(alsoSave, safeApply).st = "sent"
    BY CommitAskIs
  <2>2. KeepAsk.st = "sent" /\ RollbackAsk.st = "sent"
        /\ Ask("bar", "save").st = "sent"
    BY KeepAskIs, RollbackAskIs, BarAsks
  <2> QED
    BY <2>1, <2>2, BarSends
<1>2. requests = {} /\ requests' = {r} /\ UNCHANGED <<router, stores>>
  BY <1>1, SendAlone DEF AllInv
<1>3. DraftNow' = DraftNow /\ UnsavedNow' = UnsavedNow
  BY <1>1, <1>2, NoRequestSeen, RequestSeen, Unseen
<1> QED
  BY <1>2, <1>3, Stutters DEF Live

(* A commit takes effect at once, or waits for its confirmation. *)
LEMMA RouterCommitRefines ==
  ASSUME AllInv, NEW r \in requests, RouterCommit(r)
  PROVE  [Ledger!Next]_(Ledger!ledger)
<1>1. /\ r.kind = "commit" /\ r.st = "sent" /\ requests = {r} /\ BarRequest(r)
      /\ SoundContent(r) /\ changes \cap running = {}
      /\ timer = Closed /\ Live = running
  BY BeforeItRuns DEF RouterCommit, AllInv
<1>2. running' = running \cup r.ents /\ UNCHANGED <<saved, stores>>
  BY DEF RouterCommit
<1>3. r.action = "commit" /\ r.ents # {} /\ r.ents \cap running = {}
  BY <1>1 DEF SoundContent
<1>4. DraftNow = changes /\ UnsavedNow = committed
  BY <1>1, RequestSeen, Unseen
<1>5. CASE r.conf
  <2>1. PICK w \in Windows :
          /\ timer' = [win |-> w, restore |-> running]
          /\ requests' = {AnswerOf(r, "ok", w)}
    BY <1>1, <1>5, RunTimedAlone DEF RouterCommit, RunConfirmable, AllInv
  <2>2. PICK q : requests' = {q} /\ q.conf
    BY <1>5, <2>1, AnswerIs DEF AllInv
  <2>3. DraftNow' = DraftNow /\ UnsavedNow' = UnsavedNow
    BY <1>2, <1>4, <2>2, RequestSeen, Unseen
  <2>4. Live' = Live
    BY <1>1, <2>1, WindowsAssumption DEF Live
  <2> QED
    BY <1>2, <2>3, <2>4, Stutters
<1>6. CASE ~r.conf
  <2>1. timer' = Closed /\ requests' = {AnswerOf(r, "ok", NoWindow)}
    BY <1>1, <1>6, AnswerAlone
       DEF RouterCommit, RunConfirmable, RunUntimed, AllInv
  <2>2. PICK q : /\ requests' = {q} /\ q.kind = "commit" /\ q.action = "commit"
                 /\ q.ents = r.ents /\ ~q.conf /\ q.st = "ok" /\ q.ui = "live"
    BY <1>1, <1>3, <1>6, <2>1, AnswerIs DEF AllInv, BarRequest
  <2>3. FinalCommit(q)
    BY <2>2 DEF FinalCommit, Final
  <2>4. DraftNow' = changes \ r.ents /\ UnsavedNow' = committed \cup r.ents
    BY <1>2, <2>2, <2>3, RequestSeen
  <2>5. Live' = running \cup r.ents
    BY <1>2, <2>1, ClosedIsLive
  <2> QED
    BY <1>1, <1>2, <1>3, <1>4, <2>4, <2>5, Commits
<1> QED
  BY <1>5, <1>6

LEMMA RouterRollbackRefines ==
  ASSUME AllInv, NEW r \in requests, RouterRollback(r)
  PROVE  UNCHANGED Ledger!ledger
<1>1. /\ r.kind = "rollback" /\ r.st = "sent" /\ requests = {r} /\ r.conf
      /\ timer = Closed /\ Live = running
  BY BeforeItRuns DEF RouterRollback, AllInv, BarRequest
<1>2. UNCHANGED <<saved, stores>>
  BY DEF RouterRollback
<1>3. PICK w \in Windows :
        /\ timer' = [win |-> w, restore |-> running]
        /\ requests' = {AnswerOf(r, "ok", w)}
  BY <1>1, RunTimedAlone DEF RouterRollback, AllInv
<1>4. PICK q : requests' = {q} /\ q.conf
  BY <1>1, <1>3, AnswerIs DEF AllInv
<1>5. DraftNow' = DraftNow /\ UnsavedNow' = UnsavedNow
  BY <1>1, <1>2, <1>4, RequestSeen, Unseen
<1>6. Live' = Live
  BY <1>1, <1>3, WindowsAssumption DEF Live
<1> QED
  BY <1>2, <1>5, <1>6, Stutters

(* A Keep makes final what was waiting: a commit, or a rollback. *)
LEMMA RouterKeepRefines ==
  ASSUME AllInv, NEW r \in requests, RouterKeep(r)
  PROVE  Ledger!Next
<1>1. /\ r.kind = "keep" /\ r.st = "sent" /\ requests = {r} /\ BarRequest(r)
      /\ changes \cap Live = {}
  BY BeforeItRuns DEF RouterKeep, AllInv
<1>2. timer' = Closed /\ UNCHANGED <<running, saved, stores>>
  BY DEF RouterKeep
<1>3. requests' = {AnswerOf(r, "ok", r.win)}
  BY AnswerAlone DEF RouterKeep, AllInv
<1>4. PICK q : /\ requests' = {q} /\ q.kind = "keep" /\ q.action = r.action
               /\ q.ents = r.ents /\ ~q.conf /\ q.st = "ok" /\ q.ui = "live"
  BY <1>1, <1>3, AnswerIs DEF BarRequest, AllInv
<1>5. Live = timer.restore /\ Live' = running /\ Tentative(r.action, r.ents)
  BY <1>1, <1>2, KeepFindsItsWindow, ClosedIsLive DEF AllInv
<1>6. DraftNow = changes /\ UnsavedNow = committed
  BY <1>1, RequestSeen, Unseen
<1>7. CASE r.action = "commit"
  <2>1. running = timer.restore \cup r.ents /\ r.ents # {}
        /\ r.ents \cap timer.restore = {}
    BY <1>5, <1>7 DEF Tentative
  <2>2. FinalCommit(q)
    BY <1>4, <1>7 DEF FinalCommit, Final
  <2>3. DraftNow' = changes \ r.ents /\ UnsavedNow' = committed \cup r.ents
    BY <1>2, <1>4, <2>2, RequestSeen
  <2> QED
    BY <1>1, <1>2, <1>5, <1>6, <2>1, <2>3, Commits
<1>8. CASE r.action = "rollback"
  <2>1. running = saved
    BY <1>5, <1>8 DEF Tentative
  <2>2. ClearsList(q) /\ ~FinalCommit(q)
    BY <1>4, <1>8 DEF ClearsList, FinalCommit, Final
  <2>3. DraftNow' = DraftNow /\ UnsavedNow' = {}
    BY <1>2, <1>4, <1>6, <2>2, RequestSeen
  <2> QED
    BY <1>2, <1>5, <2>1, <2>3, RollsBack
<1> QED
  BY <1>5, <1>7, <1>8 DEF Tentative

LEMMA RouterSaveRefines ==
  ASSUME AllInv, NEW r \in requests, RouterSave(r)
  PROVE  Ledger!Next
<1>1. /\ r.kind = "save" /\ r.st = "sent" /\ requests = {r} /\ BarRequest(r)
      /\ timer = Closed /\ Live = running
  BY BeforeItRuns DEF RouterSave, AllInv
<1>2. saved' = running /\ UNCHANGED <<running, timer, stores>>
  BY DEF RouterSave
<1>3. requests' = {AnswerOf(r, "ok", NoWindow)}
  BY AnswerAlone DEF RouterSave, AllInv
<1>4. PICK q : /\ requests' = {q} /\ q.kind = "save" /\ ~q.conf /\ q.st = "ok"
               /\ q.ui = "live"
  BY <1>1, <1>3, AnswerIs DEF BarRequest, AllInv
<1>5. ClearsList(q) /\ ~FinalCommit(q)
  BY <1>4 DEF ClearsList, FinalCommit, Final
<1>6. DraftNow' = DraftNow /\ UnsavedNow' = {}
  BY <1>1, <1>2, <1>4, <1>5, RequestSeen, Unseen
<1>7. Live' = Live
  BY <1>2 DEF Live
<1> QED
  BY <1>1, <1>2, <1>6, <1>7, Saves

LEMMA RouterRefuseRefines ==
  ASSUME AllInv, NEW r \in requests, RouterRefuse(r)
  PROVE  UNCHANGED Ledger!ledger
<1>1. requests = {r} /\ r.st = "sent" /\ UNCHANGED <<router, stores>>
  BY OnlyRequest DEF RouterRefuse, AllInv
<1>2. requests' = {AnswerOf(r, "err", r.win)}
  BY AnswerAlone DEF RouterRefuse, AllInv
<1>3. PICK q : requests' = {q} /\ q.st = "err"
  BY <1>2, AnswerIs DEF AllInv
<1>4. DraftNow' = DraftNow /\ UnsavedNow' = UnsavedNow
  BY <1>1, <1>3, RequestSeen, Unseen
<1> QED
  BY <1>1, <1>4, Stutters DEF Live

(* The bookkeeping after a final commit: what was on its way arrives. *)
LEMMA RecordCommitRefines ==
  ASSUME AllInv, NEW r \in requests, RecordCommit(r), FinalCommit(r)
  PROVE  UNCHANGED Ledger!ledger
<1>1. requests = {r}
  BY OnlyRequest DEF AllInv
<1>2. /\ changes' = changes \ r.ents /\ committed' = committed \cup r.ents
      /\ UNCHANGED router
  BY DEF RecordCommit
<1>3. DraftNow = changes \ r.ents /\ UnsavedNow = committed \cup r.ents
  BY <1>1, RequestSeen
<1>4. DraftNow' = changes' /\ UnsavedNow' = committed'
  <2>1. CASE requests' = {}
    BY <2>1, NoRequestSeen
  <2>2. CASE requests' = {SaveAfter(r)}
    <3>1. PICK q : q = SaveAfter(r)
      OBVIOUS
    <3>2. requests' = {q} /\ q.st = "sent"
      BY <2>2, <3>1, SaveAfterAlone DEF AllInv
    <3> QED
      BY <3>2, RequestSeen, Unseen
  <2> QED
    BY <2>1, <2>2, ProceedAlone DEF RecordCommit, AllInv
<1> QED
  BY <1>2, <1>3, <1>4, Stutters DEF Live

LEMMA RepliesRefine ==
  ASSUME Punctual, AllInv, NEW r \in requests, Replies(r)
  PROVE  UNCHANGED Ledger!ledger
<1>1. requests = {r} /\ BarRequest(r) /\ SoundContent(r)
  BY OnlyRequest DEF AllInv, ContentInv
<1>2. CASE OpenWindow(r)
  <2>1. requests' = {} /\ r.conf /\ UNCHANGED <<router, stores>>
    BY <1>1, <1>2 DEF OpenWindow
  <2>2. DraftNow' = DraftNow /\ UnsavedNow' = UnsavedNow
    BY <1>1, <2>1, NoRequestSeen, RequestSeen, Unseen
  <2> QED
    BY <2>1, <2>2, Stutters DEF Live
<1>3. CASE CommitDone(r) \/ KeepCommitDone(r)
  <2>1. RecordCommit(r) /\ FinalCommit(r)
    BY <1>1, <1>3 DEF CommitDone, KeepCommitDone, Waits, BarRequest,
       SoundContent, FinalCommit, Final
  <2> QED
    BY <2>1, RecordCommitRefines
<1>4. CASE ImportDone(r)
  BY <1>1, <1>4 DEF ImportDone, Waits, BarRequest
<1>5. CASE KeepRollbackDone(r) \/ SaveDone(r)
  <2>1. /\ requests' = {} /\ committed' = {} /\ UNCHANGED <<router, changes>>
        /\ ClearsList(r) /\ ~FinalCommit(r)
    BY <1>1, <1>5 DEF KeepRollbackDone, SaveDone, Waits, BarRequest,
       ClearsList, FinalCommit, Final
  <2>2. DraftNow' = DraftNow /\ UnsavedNow' = UnsavedNow
    BY <1>1, <2>1, NoRequestSeen, RequestSeen
  <2> QED
    BY <2>1, <2>2, Stutters DEF Live
<1>6. CASE Fails(r)
  <2>1. r.st = "err" /\ requests' = {} /\ UNCHANGED <<router, stores>>
    BY <1>6, FailsAlone, PunctualIsAlone DEF AllInv
  <2>2. DraftNow' = DraftNow /\ UnsavedNow' = UnsavedNow
    BY <1>1, <2>1, NoRequestSeen, RequestSeen, Unseen
  <2> QED
    BY <2>1, <2>2, Stutters DEF Live
<1> QED
  BY <1>2, <1>3, <1>4, <1>5, <1>6 DEF Replies

(* A window that ends unconfirmed had changed nothing for good. *)
LEMMA ExpiryRefines ==
  ASSUME AllInv, RouterExpire \/ UiExpire("bar")
  PROVE  UNCHANGED Ledger!ledger
<1>1. UNCHANGED <<saved, stores, requests>>
  BY DEF RouterExpire, UiExpire
<1>2. DraftNow' = DraftNow /\ UnsavedNow' = UnsavedNow
  BY <1>1 DEF DraftNow, UnsavedNow, OnTheirWay, CommitsFinal, ClearsList, Final
<1>3. CASE RouterExpire
  <2>1. Live = timer.restore /\ Live' = timer.restore
    BY <1>3, ClosedIsLive DEF RouterExpire, Live
  <2> QED
    BY <1>1, <1>2, <2>1, Stutters
<1>4. CASE UiExpire("bar")
  BY <1>1, <1>2, <1>4, Stutters DEF UiExpire, Live
<1> QED
  BY <1>3, <1>4

(* Every step but a restart and "Mark as saved" is one of the ledger's. *)
LEMMA NextRefines ==
  ASSUME Punctual, AllInv, [Next]_vars, ~Reboot, ~MarkAsSaved
  PROVE  [Ledger!Next]_(Ledger!ledger)
<1>1. CASE UNCHANGED vars
  <2>1. UNCHANGED <<DraftNow, Live, saved, UnsavedNow>>
    BY <1>1 DEF vars, DraftNow, Live, UnsavedNow, OnTheirWay, CommitsFinal,
       ClearsList, Final
  <2> QED
    BY <2>1, Stutters
<1>2. CASE BarNext
  <2>1. CASE Queue
    BY <2>1, QueueRefines
  <2>2. CASE BarClick
    BY <2>2, ClickRefines
  <2>3. ASSUME NEW r \in requests, Runs(r)
        PROVE  [Ledger!Next]_(Ledger!ledger)
    <3>1. ~RouterImport(r)
      BY OnlyRequest DEF RouterImport, BarRequest, AllInv
    <3> QED
      BY <2>3, <3>1, RouterCommitRefines, RouterRollbackRefines,
         RouterKeepRefines, RouterSaveRefines, RouterRefuseRefines DEF Runs
  <2>4. ASSUME NEW r \in requests, Replies(r)
        PROVE  [Ledger!Next]_(Ledger!ledger)
    BY <2>4, RepliesRefine
  <2>5. CASE RouterExpire \/ UiExpire("bar")
    BY <2>5, ExpiryRefines
  <2> QED
    BY <1>2, <2>1, <2>2, <2>3, <2>4, <2>5 DEF BarNext, BarClick
<1> QED
  BY <1>1, <1>2, BarIsAlone, PunctualIsAlone DEF AllInv

LEMMA AllInvariant == Punctual => (Spec => []AllInv)
<1> SUFFICES ASSUME Punctual PROVE Spec => []AllInv
  OBVIOUS
<1>1. Spec => []BookkeepingInv
  BY BookkeepingCorrect
<1>2. Spec => [](WindowInv /\ ContentInv)
  BY ContentInvariant
<1> QED
  BY <1>1, <1>2, PTL DEF AllInv

(* runCommit, handleKeep, handleStandaloneSave and runRollback implement   *)
(* the ledger: however the router's work, its timer, the replies and the   *)
(* user's clicks interleave, each takes effect at once, when it becomes    *)
(* final on the router.                                                    *)
THEOREM BarImplementsLedger == Disturbances = {} => (Spec => ImplementsLedger)
<1> SUFFICES ASSUME Disturbances = {} PROVE Spec => ImplementsLedger
  OBVIOUS
<1>1. Punctual /\ ~Reboot /\ ~MarkAsSaved
  BY DEF Punctual, Reboot, MarkAsSaved
<1>2. AllInv /\ [Next]_vars => [Ledger!Next]_(Ledger!ledger)
  BY <1>1, NextRefines
<1>3. Init => Ledger!Init
  BY InitRefines
<1>4. Spec => []AllInv
  BY <1>1, AllInvariant
<1> QED
  BY <1>2, <1>3, <1>4, PTL DEF Spec, ImplementsLedger, Ledger!Spec

-----------------------------------------------------------------------------
(* What follows from the ledger. *)

LedgerInv == saved \subseteq Live /\ UnsavedNow = Live \ saved

(* What the ledger promises: the unsaved list is what a restart would      *)
(* lose, and only it. Not inductive by itself: a commit must not list what *)
(* is on disk already.                                                     *)
LEMMA LedgerIsExact == Ledger!Spec => []LedgerInv
<1>1. Ledger!Init => LedgerInv
  BY DEF Ledger!Init, LedgerInv, Live, UnsavedNow
<1>2. LedgerInv /\ [Ledger!Next]_(Ledger!ledger) => LedgerInv'
  <2> SUFFICES ASSUME LedgerInv, [Ledger!Next]_(Ledger!ledger)
               PROVE  LedgerInv'
    OBVIOUS
  <2>1. CASE Ledger!Draft \/ Ledger!TakeBack \/ UNCHANGED Ledger!ledger
    BY <2>1 DEF Ledger!Draft, Ledger!TakeBack, Ledger!ledger, LedgerInv, Live,
       UnsavedNow
  <2>2. CASE Ledger!Commit
    BY <2>2 DEF Ledger!Commit, LedgerInv, Live, UnsavedNow
  <2>3. CASE Ledger!Save \/ Ledger!Rollback
    BY <2>3 DEF Ledger!Save, Ledger!Rollback, LedgerInv, Live, UnsavedNow
  <2> QED
    BY <2>1, <2>2, <2>3 DEF Ledger!Next
<1> QED
  BY <1>1, <1>2, PTL DEF Ledger!Spec

LEMMA QuietSeen ==
  ASSUME Quiet PROVE Live = running /\ UnsavedNow = committed
BY NoRequestSeen, ClosedIsLive DEF Quiet

(* "N changes committed but not saved": once nothing is under way, the     *)
(* unsaved list (useUnsavedCommitStore) is exactly what the router runs    *)
(* and does not have on disk.                                              *)
THEOREM TheListIsExact == Disturbances = {} => (Spec => []ListIsExact)
<1> SUFFICES ASSUME Disturbances = {} PROVE Spec => []ListIsExact
  OBVIOUS
<1>1. LedgerInv => ListIsExact
  BY QuietSeen DEF LedgerInv, ListIsExact
<1>2. Spec => Ledger!Spec
  BY BarImplementsLedger DEF ImplementsLedger
<1> QED
  BY <1>1, <1>2, LedgerIsExact, PTL

(* A restart keeps half of it: the list may show what the restart undid.   *)
CompleteInv == saved \subseteq Live /\ Live \ saved \subseteq UnsavedNow

LEMMA RebootCompletes ==
  ASSUME Reboot PROVE CompleteInv'
<1>1. Live' = saved' /\ saved' = saved
  BY ClosedIsLive DEF Reboot
<1> QED
  BY <1>1 DEF CompleteInv

LEMMA LedgerStepCompletes ==
  ASSUME CompleteInv, [Ledger!Next]_(Ledger!ledger)
  PROVE  CompleteInv'
<1>1. CASE Ledger!Draft \/ Ledger!TakeBack \/ UNCHANGED Ledger!ledger
  BY <1>1 DEF Ledger!Draft, Ledger!TakeBack, Ledger!ledger, CompleteInv, Live,
     UnsavedNow
<1>2. CASE Ledger!Commit
  BY <1>2 DEF Ledger!Commit, CompleteInv, Live, UnsavedNow
<1>3. CASE Ledger!Save \/ Ledger!Rollback
  BY <1>3 DEF Ledger!Save, Ledger!Rollback, CompleteInv, Live, UnsavedNow
<1> QED
  BY <1>1, <1>2, <1>3 DEF Ledger!Next

(* Nothing that a restart of the router would lose is missing from the     *)
(* unsaved list, also when the router has restarted before: markSaved      *)
(* empties the list only for what was written to disk.                     *)
THEOREM TheListIsComplete ==
  Disturbances \subseteq {"reboot"} => (Spec => []ListIsComplete)
<1> SUFFICES ASSUME Disturbances \subseteq {"reboot"}
             PROVE  Spec => []ListIsComplete
  OBVIOUS
<1>1. Punctual /\ ~MarkAsSaved
  BY DEF Punctual, MarkAsSaved
<1>2. Init => CompleteInv
  BY DEF Init, CompleteInv, Live, Closed
<1>3. AllInv /\ CompleteInv /\ [Next]_vars => CompleteInv'
  BY <1>1, RebootCompletes, NextRefines, LedgerStepCompletes
<1>4. Spec => []AllInv
  BY <1>1, AllInvariant
<1>5. CompleteInv => ListIsComplete
  BY QuietSeen DEF CompleteInv, ListIsComplete
<1> QED
  BY <1>2, <1>3, <1>4, <1>5, PTL DEF Spec
=============================================================================
