---------------------------- MODULE CommitEngine ----------------------------
(***************************************************************************)
(* The commit/save engine of the VyOS client.                              *)
(*                                                                         *)
(* Four panels of one browser tab send requests to one router: the bar at  *)
(* the bottom of every page (PendingChangesBar.tsx), the Save and Rollback *)
(* sections of the Power page (PowerPage.tsx) and the import panel         *)
(* (ImportConfigPanel.tsx). Each has a busy flag of its own, so their      *)
(* requests interleave. They share the list of queued changes, the list of *)
(* changes that are committed but not saved, and the router's single       *)
(* commit-confirm timer.                                                   *)
(*                                                                         *)
(* A configuration is the set of entries in effect in it. What an entry    *)
(* does to the configuration tree is left out: the properties below relate *)
(* the lists the user is shown with what the router runs and has on disk.  *)
(***************************************************************************)
EXTENDS PendingChanges, FiniteSets

CONSTANTS
  UserOps,        \* the operations the pages queue
  ImportOp,       \* the synthetic operation that stands for an imported file
  Windows,        \* identities of commit-confirm windows, reused once forgotten
  NoWindow,       \* no window is open
  MaxRequests,    \* bound on the requests under way at once
  Disturbances    \* what may disturb a panel that works alone: see below

ASSUME UserOpsAssumption ==
  /\ UserOps \subseteq ConfigOp
  /\ ImportOp \in ConfigOp /\ ImportOp.val = NoValue
ASSUME WindowsAssumption == NoWindow \notin Windows
ASSUME MaxRequestsAssumption == MaxRequests \in Nat

(***************************************************************************)
(* late_keep   a Keep may reach the router after its window has ended      *)
(* lost_reply  a request may fail at the browser though the router runs it *)
(* power       the Power page's sections are used                          *)
(* import      the import panel is used                                    *)
(* reload      the tab is reloaded                                         *)
(* sign_out    the session ends and the user signs in again                *)
(* reboot      the router restarts from its saved configuration            *)
(* mark_saved  the user dismisses the unsaved list by "Mark as saved"      *)
(***************************************************************************)
AllDisturbances == {"late_keep", "lost_reply", "power", "import", "reload",
                    "sign_out", "reboot", "mark_saved"}
ASSUME DisturbancesAssumption == Disturbances \subseteq AllDisturbances

Panels == {"bar", "saver", "roller", "importer"}
Kinds == {"commit", "keep", "save", "rollback", "import"}
Actions == {"commit", "rollback", "import"}

VARIABLES
  running,    \* the router's running configuration
  saved,      \* the router's /config/config.boot
  timer,      \* the router's commit-confirm timer and what it restores
  changes,    \* usePendingChangesStore.changes
  committed,  \* useUnsavedCommitStore.committedChanges
  nextId,     \* the next fresh entry id
  ui,         \* component state of each panel
  error,      \* the bar shows an error
  done,       \* the Power page shows "Rolled back" instead of its button
  requests,   \* requests under way
  applied,    \* history: entries the router has applied at some time
  discarded,  \* history: entries taken back by the user or by leaving
  cancelled,  \* history: entries an "Enable X" took back
  queued,     \* history: entries ever appended to the queue
  reverted    \* history: entries an ended window took out of running

router == <<running, saved, timer>>
stores == <<changes, committed, nextId>>
panels == <<ui, error, done>>
history == <<applied, discarded, cancelled, queued, reverted>>
vars == <<router, stores, panels, requests, history>>

Timer == [win : Windows \cup {NoWindow}, restore : SUBSET Entry]

(* busy, the confirm window the countdown runs for, what that window was   *)
(* opened by and for, saveAfterConfirm, and (history) whether the button   *)
(* that opened it was "Commit & Save". The last four are read only while a *)
(* window is shown, and reset here when it closes.                         *)
Panel == [busy : BOOLEAN, win : Windows \cup {NoWindow}, action : Actions,
          ents : SUBSET Entry, then : BOOLEAN, asked : BOOLEAN]

(* st is the router's side: not yet run, run, or refused. live is the      *)
(* browser's: the panel is mounted; stale: it is not, but its handler runs *)
(* on; gone: nobody waits for the reply.                                   *)
Request == [from : Panels, kind : Kinds, action : Actions,
            ents : SUBSET Entry, conf : BOOLEAN, then : BOOLEAN,
            asked : BOOLEAN, win : Windows \cup {NoWindow},
            st : {"sent", "ok", "err"}, ui : {"live", "stale", "gone"}]

(* The state stays in its type, with what the panels and requests carry.   *)
TypeOK ==
  /\ running \subseteq Entry
  /\ saved \subseteq Entry
  /\ timer \in Timer
  /\ changes \subseteq Entry
  /\ committed \subseteq Entry
  /\ nextId \in 1..(MaxEntries + 1)
  /\ ui \in [Panels -> Panel]
  /\ error \in BOOLEAN
  /\ done \in BOOLEAN
  /\ requests \subseteq Request
  /\ applied \subseteq Entry
  /\ discarded \subseteq Entry
  /\ cancelled \subseteq Entry
  /\ queued \subseteq Entry
  /\ reverted \subseteq Entry

Idle == [busy |-> FALSE, win |-> NoWindow, action |-> "commit",
         ents |-> {}, then |-> FALSE, asked |-> FALSE]

Closed == [win |-> NoWindow, restore |-> {}]

Init ==
  /\ running = {} /\ saved = {} /\ timer = Closed
  /\ changes = {} /\ committed = {} /\ nextId = 1
  /\ ui = [p \in Panels |-> Idle] /\ error = FALSE /\ done = FALSE
  /\ requests = {}
  /\ applied = {} /\ discarded = {} /\ cancelled = {} /\ queued = {}
  /\ reverted = {}

-----------------------------------------------------------------------------
(* Queueing, at any time and from any page. *)

(* A queued operation that is appended with a fresh id. *)
AddAppend(op) ==
  /\ ~IsRepeat(changes, op)
  /\ ~\E e \in changes : Cancels(changes, op, e)
  /\ nextId \in Ids
  /\ changes' = changes \cup {[id |-> nextId, op |-> op]}
  /\ queued' = queued \cup {[id |-> nextId, op |-> op]}
  /\ nextId' = nextId + 1
  /\ UNCHANGED <<router, committed, panels, requests, applied, discarded,
                 cancelled, reverted>>

(* A queued "Enable X" that takes the latest "Disable X" back instead. *)
AddCancel(op) ==
  /\ ~IsRepeat(changes, op)
  /\ \E e \in changes :
       /\ Cancels(changes, op, e)
       /\ changes' = changes \ {e}
       /\ discarded' = discarded \cup {e}
       /\ cancelled' = cancelled \cup {e}
  /\ UNCHANGED <<router, committed, nextId, panels, requests, applied,
                 queued, reverted>>

-----------------------------------------------------------------------------
(* What the bar shows decides which buttons there are. *)

KeepView == ui["bar"].win # NoWindow
ErrorView == ~KeepView /\ changes = {} /\ error
UnsavedView == ~KeepView /\ changes = {} /\ ~error /\ committed # {}
CommitView == ~KeepView /\ changes # {}

(* The list's small x, which stays enabled while a request is under way.   *)
Remove(e) ==
  /\ CommitView
  /\ e \in changes
  /\ changes' = changes \ {e}
  /\ discarded' = discarded \cup {e}
  /\ UNCHANGED <<router, committed, nextId, panels, requests, applied,
                 cancelled, queued, reverted>>

Discard ==
  /\ CommitView
  /\ ~ui["bar"].busy
  /\ changes' = {}
  /\ discarded' = discarded \cup changes
  /\ UNCHANGED <<router, committed, nextId, panels, requests, applied,
                 cancelled, queued, reverted>>

DismissError ==
  /\ ErrorView
  /\ error' = FALSE
  /\ UNCHANGED <<router, stores, ui, done, requests, history>>

MarkAsSaved ==
  /\ "mark_saved" \in Disturbances
  /\ UnsavedView
  /\ committed' = {}
  /\ UNCHANGED <<router, changes, nextId, panels, requests, history>>

-----------------------------------------------------------------------------
(* Sending: a handler runs up to its await. *)

Ask(p, kind) ==
  [from |-> p, kind |-> kind, action |-> ui[p].action, ents |-> {},
   conf |-> FALSE, then |-> FALSE, asked |-> FALSE, win |-> NoWindow,
   st |-> "sent", ui |-> "live"]

Send(p, r) ==
  /\ ~ui[p].busy
  /\ Cardinality(requests) < MaxRequests
  /\ requests' = requests \cup {r}
  /\ ui' = [ui EXCEPT ![p].busy = TRUE]
  /\ error' = IF p = "bar" THEN FALSE ELSE error
  /\ UNCHANGED <<router, stores, done, history>>

(* runCommit(alsoSave) with Safe apply on or off: the changes are captured *)
(* here, before the request.                                               *)
ClickCommit(alsoSave, safeApply) ==
  /\ CommitView
  /\ Send("bar", [Ask("bar", "commit") EXCEPT
                    !.action = "commit", !.ents = changes,
                    !.conf = safeApply, !.then = alsoSave])

(* Keep, on whichever panel shows an open window. *)
ClickKeep(p) ==
  /\ ui[p].win # NoWindow
  /\ "late_keep" \in Disturbances \/ timer.win = ui[p].win
  /\ Send(p, [Ask(p, "keep") EXCEPT
                !.ents = ui[p].ents, !.then = ui[p].then,
                !.asked = ui[p].asked, !.win = ui[p].win])

ClickSave == UnsavedView /\ Send("bar", Ask("bar", "save"))

ClickRollback ==
  /\ UnsavedView
  /\ Send("bar", [Ask("bar", "rollback") EXCEPT
                    !.action = "rollback", !.conf = TRUE])

(* The Power page and the page with the import panel are different routes, *)
(* so only one of them is mounted.                                         *)
OnPowerPage == "power" \in Disturbances /\ ui["importer"] = Idle
OnImportPage ==
  "import" \in Disturbances /\ ui["saver"] = Idle /\ ui["roller"] = Idle /\ ~done

ClickPowerSave ==
  /\ OnPowerPage
  /\ Send("saver", Ask("saver", "save"))

ClickPowerRollback ==
  /\ OnPowerPage
  /\ ui["roller"].win = NoWindow /\ ~done
  /\ Send("roller", [Ask("roller", "rollback") EXCEPT
                       !.action = "rollback", !.conf = TRUE])

(* The imported file is one entry, with an id of its own. *)
ClickImport(safeApply) ==
  /\ OnImportPage
  /\ ui["importer"].win = NoWindow /\ ~ui["importer"].busy
  /\ Cardinality(requests) < MaxRequests
  /\ nextId \in Ids
  /\ nextId' = nextId + 1
  /\ requests' = requests \cup
       {[Ask("importer", "import") EXCEPT
           !.action = "import", !.conf = safeApply,
           !.ents = {[id |-> nextId, op |-> ImportOp]}]}
  /\ ui' = [ui EXCEPT !["importer"].busy = TRUE]
  /\ UNCHANGED <<router, changes, committed, error, done, history>>

-----------------------------------------------------------------------------
(* The router. A request nobody waits for any more leaves no reply. *)

Answer(r, st, w) ==
  requests' = (requests \ {r}) \cup
    IF r.ui = "gone" THEN {} ELSE {[r EXCEPT !.st = st, !.win = w]}

WindowsInUse ==
  {timer.win} \cup {ui[p].win : p \in Panels} \cup {r.win : r \in requests}

(* A call with a confirm time starts the one timer of the router, or starts *)
(* it again; the router then goes back to the configuration before this     *)
(* call, or still to the one before the window it replaces.                 *)
RunTimed(r) ==
  \E w \in Windows \ WindowsInUse :
    /\ timer' \in {[win |-> w, restore |-> running]} \cup
         IF timer.win = NoWindow THEN {}
         ELSE {[win |-> w, restore |-> timer.restore]}
    /\ Answer(r, "ok", w)

RunUntimed(r) == UNCHANGED timer /\ Answer(r, "ok", NoWindow)

RunConfirmable(r) == IF r.conf THEN RunTimed(r) ELSE RunUntimed(r)

(* /configure: all operations of the batch, in one transaction. *)
RouterCommit(r) ==
  /\ r.kind = "commit" /\ r.st = "sent"
  /\ running' = running \cup r.ents
  /\ applied' = applied \cup r.ents
  /\ reverted' = reverted \ r.ents
  /\ RunConfirmable(r)
  /\ UNCHANGED <<saved, stores, panels, discarded, cancelled, queued>>

(* /config-file merge adds to the running configuration, load replaces it. *)
RouterImport(r) ==
  /\ r.kind = "import" /\ r.st = "sent"
  /\ running' \in {running \cup r.ents, r.ents}
  /\ applied' = applied \cup r.ents
  /\ reverted' = reverted \ r.ents
  /\ RunConfirmable(r)
  /\ UNCHANGED <<saved, stores, panels, discarded, cancelled, queued>>

(* /config-file load of config.boot, always with a confirm time. *)
RouterRollback(r) ==
  /\ r.kind = "rollback" /\ r.st = "sent"
  /\ running' = saved
  /\ RunTimed(r)
  /\ UNCHANGED <<saved, stores, panels, history>>

(* Confirms whichever window is open, and succeeds when none is. *)
RouterKeep(r) ==
  /\ r.kind = "keep" /\ r.st = "sent"
  /\ timer' = Closed
  /\ Answer(r, "ok", r.win)
  /\ UNCHANGED <<running, saved, stores, panels, history>>

RouterSave(r) ==
  /\ r.kind = "save" /\ r.st = "sent"
  /\ saved' = running
  /\ Answer(r, "ok", NoWindow)
  /\ UNCHANGED <<running, timer, stores, panels, history>>

(* The back end or the router refuses: bad input, rate limit, no route.    *)
RouterRefuse(r) ==
  /\ r.st = "sent"
  /\ Answer(r, "err", r.win)
  /\ UNCHANGED <<router, stores, panels, history>>

(* The window ends unconfirmed and the router reverts on its own. *)
RouterExpire ==
  /\ timer.win # NoWindow
  /\ \/ "late_keep" \in Disturbances
     \/ \A r \in requests : ~(r.kind = "keep" /\ r.st = "sent")
  /\ running' = timer.restore
  /\ timer' = Closed
  /\ reverted' = reverted \cup (running \ timer.restore)
  /\ UNCHANGED <<saved, stores, panels, requests, applied, discarded,
                 cancelled, queued>>

(* The router restarts: what was not saved is gone, and so is the timer.   *)
Reboot ==
  /\ "reboot" \in Disturbances
  /\ running' = saved
  /\ timer' = Closed
  /\ requests' = {IF r.st = "sent" THEN [r EXCEPT !.st = "err"] ELSE r :
                    r \in {q \in requests : q.st # "sent" \/ q.ui # "gone"}}
  /\ UNCHANGED <<saved, stores, panels, history>>

-----------------------------------------------------------------------------
(* Replies: the rest of a handler, after its await. A handler whose panel  *)
(* is gone still updates the stores, its component state goes nowhere.     *)

Waits(r, kind) == r.kind = kind /\ r.ui # "gone" /\ r.st = "ok"

Show(r, panel) ==
  ui' = IF r.ui = "live" THEN [ui EXCEPT ![r.from] = panel] ELSE ui

(* What saveAfterSuccessfulCommit sends; the panel stays busy. *)
SaveAfter(r) ==
  [Ask(r.from, "save") EXCEPT !.ui = r.ui]

(* Slips in the handling of a pendingConfirm reply: the changes leave the   *)
(* list already; "& Save" saves already; the early return skips finally.    *)
OpenWindowTooFinal(r) ==
  /\ \E kind \in {"commit", "rollback", "import"} : Waits(r, kind)
  /\ r.conf
  /\ requests' = requests \ {r}
  /\ changes' = changes \ r.ents
  /\ Show(r, [busy |-> FALSE, win |-> r.win, action |-> r.action,
              ents |-> r.ents, then |-> r.then, asked |-> r.then])
  /\ UNCHANGED <<router, committed, nextId, error, done, history>>

OpenWindowSavesFirst(r) ==
  /\ \E kind \in {"commit", "rollback", "import"} : Waits(r, kind)
  /\ r.conf
  /\ requests' = (requests \ {r}) \cup (IF r.then THEN {SaveAfter(r)} ELSE {})
  /\ Show(r, [busy |-> r.then, win |-> r.win, action |-> r.action,
              ents |-> r.ents, then |-> FALSE, asked |-> r.then])
  /\ UNCHANGED <<router, stores, error, done, history>>

OpenWindowStaysBusy(r) ==
  /\ \E kind \in {"commit", "rollback", "import"} : Waits(r, kind)
  /\ r.conf
  /\ requests' = requests \ {r}
  /\ Show(r, [busy |-> TRUE, win |-> r.win, action |-> r.action,
              ents |-> r.ents, then |-> r.then, asked |-> r.then])
  /\ UNCHANGED <<router, stores, error, done, history>>

(* The window is open at the router: the panel starts its countdown. *)
OpenWindow(r) ==
  /\ \E kind \in {"commit", "rollback", "import"} : Waits(r, kind)
  /\ r.conf
  /\ requests' = requests \ {r}
  /\ Show(r, [busy |-> FALSE, win |-> r.win, action |-> r.action,
              ents |-> r.ents, then |-> r.then, asked |-> r.then])
  /\ UNCHANGED <<router, stores, error, done, history>>

(* After the bookkeeping: "& Save" goes on with a save, or the panel is idle. *)
ProceedToSave(r) ==
  IF r.then
  THEN /\ requests' = (requests \ {r}) \cup {SaveAfter(r)}
       /\ Show(r, [Idle EXCEPT !.busy = TRUE])
  ELSE /\ requests' = requests \ {r}
       /\ Show(r, Idle)

(* Slips in that bookkeeping: the whole list is cleared; what was committed *)
(* stays pending; what is queued now is recorded instead of what was sent;  *)
(* operations are recorded instead of changes; nothing is recorded.         *)
Bookkeeping(r, pending, unsaved) ==
  /\ changes' = pending
  /\ committed' = unsaved
  /\ UNCHANGED nextId
  /\ ProceedToSave(r)
  /\ UNCHANGED <<router, error, done, history>>

RecordAndClear(r) == Bookkeeping(r, {}, committed \cup r.ents)
RecordAndKeep(r) == Bookkeeping(r, changes, committed \cup r.ents)
RecordWhatIsQueued(r) ==
  Bookkeeping(r, changes \ r.ents, committed \cup changes)
RecordOps(r) ==
  Bookkeeping(r, changes \ r.ents, committed \cup {e.op : e \in r.ents})
RecordNothing(r) == Bookkeeping(r, changes \ r.ents, committed)

(* The bookkeeping of a commit that is final: without a confirm window, or *)
(* kept. Only what was committed leaves the list of queued changes.        *)
RecordCommit(r) ==
  /\ changes' = changes \ r.ents
  /\ committed' = committed \cup r.ents
  /\ UNCHANGED nextId
  /\ ProceedToSave(r)
  /\ UNCHANGED <<router, error, done, history>>

CommitDone(r) == Waits(r, "commit") /\ ~r.conf /\ RecordCommit(r)

KeepCommitDone(r) ==
  Waits(r, "keep") /\ r.from = "bar" /\ r.action = "commit" /\ RecordCommit(r)

(* A slip: the import records what is queued instead of an entry of its own. *)
ImportDoneRecordsQueue(r) ==
  /\ \/ Waits(r, "import") /\ ~r.conf
     \/ Waits(r, "keep") /\ r.from = "importer"
  /\ committed' = committed \cup changes
  /\ requests' = requests \ {r}
  /\ Show(r, Idle)
  /\ UNCHANGED <<router, changes, nextId, error, done, history>>

(* An import without a confirm window, or a kept one. *)
ImportDone(r) ==
  /\ \/ Waits(r, "import") /\ ~r.conf
     \/ Waits(r, "keep") /\ r.from = "importer"
  /\ committed' = committed \cup r.ents
  /\ requests' = requests \ {r}
  /\ Show(r, Idle)
  /\ UNCHANGED <<router, changes, nextId, error, done, history>>

(* A slip: the kept rollback leaves the unsaved list alone. *)
KeepRollbackKeepsList(r) ==
  /\ Waits(r, "keep") /\ r.action = "rollback"
  /\ requests' = requests \ {r}
  /\ Show(r, Idle)
  /\ done' = (done \/ (r.from = "roller" /\ r.ui = "live"))
  /\ UNCHANGED <<router, stores, error, history>>

(* A kept rollback: running is what is on disk, nothing is unsaved. *)
KeepRollbackDone(r) ==
  /\ Waits(r, "keep") /\ r.action = "rollback"
  /\ committed' = {}
  /\ requests' = requests \ {r}
  /\ Show(r, Idle)
  /\ done' = (done \/ (r.from = "roller" /\ r.ui = "live"))
  /\ UNCHANGED <<router, changes, nextId, error, history>>

SaveDone(r) ==
  /\ Waits(r, "save")
  /\ committed' = {}
  /\ requests' = requests \ {r}
  /\ Show(r, Idle)
  /\ UNCHANGED <<router, changes, nextId, error, done, history>>

(* The catch and finally of every handler. A lost reply takes the same way *)
(* whatever the router did, and may leave the router still to run it.      *)
Fails(r) ==
  /\ r.ui # "gone"
  /\ r.st = "err" \/ "lost_reply" \in Disturbances
  /\ requests' = (requests \ {r}) \cup
       IF r.st = "sent" THEN {[r EXCEPT !.ui = "gone"]} ELSE {}
  /\ Show(r, [ui[r.from] EXCEPT
                !.busy = FALSE,
                !.then = IF r.kind = "keep" THEN FALSE ELSE @])
  /\ error' = (error \/ (r.from = "bar" /\ r.ui = "live"))
  /\ UNCHANGED <<router, stores, done, history>>

(* A slip: a countdown that ends while a request is under way is ignored.  *)
UiExpireWhenFree(p) ==
  /\ ui[p].win # NoWindow
  /\ timer.win # ui[p].win
  /\ ~ui[p].busy
  /\ ui' = [ui EXCEPT ![p] = Idle]
  /\ error' = (error \/ p = "bar")
  /\ UNCHANGED <<router, stores, done, requests, history>>

(* The countdown of a panel runs out. It is measured from the reply, with  *)
(* the seconds the back end rounded up, so not before the router's own.    *)
UiExpire(p) ==
  /\ ui[p].win # NoWindow
  /\ timer.win # ui[p].win
  /\ ui' = [ui EXCEPT ![p] = [Idle EXCEPT !.busy = ui[p].busy]]
  /\ error' = (error \/ p = "bar")
  /\ UNCHANGED <<router, stores, done, requests, history>>

-----------------------------------------------------------------------------
(* Leaving: panels unmount, and with a reload their handlers are gone. *)

Unmounted(ps) ==
  {IF r.from \in ps /\ r.ui = "live" THEN [r EXCEPT !.ui = "stale"] ELSE r :
     r \in requests}

LeavePage ==
  LET ps == Panels \ {"bar"} IN
  /\ done \/ \E p \in ps : ui[p] # Idle
  /\ ui' = [p \in Panels |-> IF p \in ps THEN Idle ELSE ui[p]]
  /\ done' = FALSE
  /\ requests' = Unmounted(ps)
  /\ UNCHANGED <<router, stores, error, history>>

(* The session ends: every panel unmounts. Signing out, or signing in as   *)
(* someone else, clears the queued changes; an expired session does not.   *)
SignOut(forget) ==
  /\ "sign_out" \in Disturbances
  /\ requests' = Unmounted(Panels)
  /\ ui' = [p \in Panels |-> Idle] /\ error' = FALSE /\ done' = FALSE
  /\ changes' = IF forget THEN {} ELSE changes
  /\ discarded' = discarded \cup (changes \ changes')
  /\ UNCHANGED <<router, committed, nextId, applied, cancelled, queued,
                 reverted>>

(* A reload brings back what the storages hold. *)
Reload ==
  /\ "reload" \in Disturbances
  /\ requests' = {[r EXCEPT !.ui = "gone"] : r \in {q \in requests : q.st = "sent"}}
  /\ ui' = [p \in Panels |-> Idle] /\ error' = FALSE /\ done' = FALSE
  /\ changes' = Persisted(changes)
  /\ committed' = Persisted(committed)
  /\ discarded' = discarded \cup (changes \ Persisted(changes))
  /\ UNCHANGED <<router, nextId, applied, cancelled, queued, reverted>>

-----------------------------------------------------------------------------
Queue ==
  \/ \E op \in UserOps : AddAppend(op) \/ AddCancel(op)
  \/ \E e \in changes : Remove(e)
  \/ Discard
  \/ DismissError
  \/ MarkAsSaved

Click ==
  \/ \E alsoSave, safeApply \in BOOLEAN : ClickCommit(alsoSave, safeApply)
  \/ \E p \in Panels : ClickKeep(p)
  \/ ClickSave
  \/ ClickRollback
  \/ ClickPowerSave
  \/ ClickPowerRollback
  \/ \E safeApply \in BOOLEAN : ClickImport(safeApply)

Runs(r) ==
  \/ RouterCommit(r)
  \/ RouterImport(r)
  \/ RouterRollback(r)
  \/ RouterKeep(r)
  \/ RouterSave(r)
  \/ RouterRefuse(r)

Replies(r) ==
  \/ OpenWindow(r)
  \/ CommitDone(r)
  \/ KeepCommitDone(r)
  \/ ImportDone(r)
  \/ KeepRollbackDone(r)
  \/ SaveDone(r)
  \/ Fails(r)

Leave ==
  \/ LeavePage
  \/ \E forget \in BOOLEAN : SignOut(forget)
  \/ Reload

Next ==
  \/ Queue
  \/ Click
  \/ \E r \in requests : Runs(r) \/ Replies(r)
  \/ RouterExpire
  \/ Reboot
  \/ \E p \in Panels : UiExpire(p)
  \/ Leave

Spec == Init /\ [][Next]_vars

(* Only what runs by itself is fair: the network and the router answer, or *)
(* a time limit does; the router's timer and the countdowns run out. The   *)
(* user need never click anything.                                         *)
RunsOf(p) == \E r \in requests : r.from = p /\ Runs(r)
RepliesTo(p) == \E r \in requests : r.from = p /\ Replies(r)

Fairness ==
  /\ \A p \in Panels : WF_vars(RunsOf(p)) /\ WF_vars(RepliesTo(p))
  /\ \A p \in Panels : WF_vars(UiExpire(p))
  /\ WF_vars(RouterExpire)

FairSpec == Spec /\ Fairness

-----------------------------------------------------------------------------
(* Properties. *)

(* Nothing is under way and nobody waits for a confirmation. *)
Quiet ==
  /\ requests = {} /\ timer = Closed
  /\ \A p \in Panels : ui[p].win = NoWindow

(* Every edit ever queued is still queued, was applied by the router, or   *)
(* was taken back: the bookkeeping after a commit (runCommit, handleKeep)  *)
(* never drops an edit queued while the request was in flight.             *)
NoEditLost == queued \subseteq changes \cup applied \cup discarded

(* No change is shown as pending and as committed at once.                 *)
NeverPendingAndCommitted == changes \cap committed = {}

(* Whatever the unsaved list shows, the router did run it at some time:    *)
(* the list records what was captured with the request, not what happened  *)
(* to be queued when the reply came.                                       *)
RecordedWasApplied == committed \subseteq applied

(* Why the three hold: what a handler will record has been applied when    *)
(* its reply is due, the ids of what it will record are used up, and what  *)
(* an import records was never in the queue.                               *)
SoundRequest(r) ==
  /\ r.kind = "keep" => r.ents \subseteq applied
  /\ r.kind \in {"commit", "import"} /\ r.st = "ok" => r.ents \subseteq applied
  /\ r.kind \in {"rollback", "save"} => r.ents = {}
  /\ r.kind = "import" \/ r.from = "importer" => r.ents \cap changes = {}
  /\ \A e \in r.ents : e.id < nextId

SoundPanel(p) ==
  /\ ui[p].win # NoWindow => ui[p].ents \subseteq applied
  /\ p = "importer" => ui[p].ents \cap changes = {}
  /\ \A e \in ui[p].ents : e.id < nextId

(* The invariant behind the bookkeeping: whatever a handler will record when *)
(* its reply arrives has been applied, and ids are never used twice.       *)
BookkeepingInv ==
  /\ TypeOK
  /\ \A r \in requests : SoundRequest(r)
  /\ \A p \in Panels : SoundPanel(p)
  /\ \A e \in changes \cup committed : e.id < nextId
  /\ NoEditLost
  /\ NeverPendingAndCommitted
  /\ RecordedWasApplied

(* "N changes committed but not saved": with nothing under way, the list   *)
(* is exactly what the router runs and does not have on disk.              *)
ListIsExact == Quiet => committed = running \ saved

(* The half of ListIsExact the list is for: nothing that would be lost by  *)
(* a reboot is missing from it.                                            *)
ListIsComplete == Quiet => running \ saved \subseteq committed

(* What VyOS reverted is still pending, unless the user took it back.      *)
RevertedIsPending == Quiet => reverted \cap queued \subseteq changes \cup discarded

(* "Enable X" takes a queued "Disable X" back before it is ever applied.   *)
CancelledNeverApplied == cancelled \cap applied = {}

(* A configuration that still waits for its confirmation is not written    *)
(* to disk, where the router's revert could not undo it.                   *)
SaveIsNeverTentative == [][saved' # saved => timer = Closed]_vars

(* When the bar says that VyOS reverted the commit, VyOS did.              *)
ExpiryNoticeIsTrue ==
  [][(ui["bar"].win # NoWindow /\ UiExpire("bar") /\ ui["bar"].action = "commit")
       => ui["bar"].ents \cap running = {}]_vars

(* "Commit & Save" with Safe apply on: the Keep that ends it also saves.   *)
CommitAndSaveSaves ==
  [][\A r \in requests : KeepCommitDone(r) /\ r.asked
       => \E q \in requests' : q.from = "bar" /\ q.kind = "save"]_vars

(* A panel that waits for an answer gets one.                              *)
BusyEnds == \A p \in Panels : ui[p].busy ~> ~ui[p].busy

(* Once VyOS's own window is over, Keep stops being offered.               *)
KeepIsWithdrawn ==
  \A p \in Panels :
    (ui[p].win # NoWindow /\ timer.win # ui[p].win) ~> (ui[p].win = NoWindow)
=============================================================================
