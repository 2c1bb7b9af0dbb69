---------------------------- MODULE ConfigLedger ----------------------------
(***************************************************************************)
(* What the commit/save engine promises the user, without requests,        *)
(* replies or confirm windows: edits are drafts until they are committed,  *)
(* a committed edit is live and listed as unsaved until it is saved, and   *)
(* a rollback goes back to what is on disk. Every step is atomic; what     *)
(* waits for a confirmation has not happened yet.                          *)
(***************************************************************************)
CONSTANT Edit

VARIABLES
  draft,    \* queued, not committed
  live,     \* in effect for good: not waiting for a confirmation
  disk,     \* in effect after a reboot
  unsaved   \* shown as "committed but not saved"

ledger == <<draft, live, disk, unsaved>>

Init == draft = {} /\ live = {} /\ disk = {} /\ unsaved = {}

Draft ==
  /\ \E e \in Edit : draft' = draft \cup {e}
  /\ UNCHANGED <<live, disk, unsaved>>

TakeBack ==
  /\ draft' \subseteq draft
  /\ UNCHANGED <<live, disk, unsaved>>

(* Edits are committed together or not at all, leave the drafts, and are   *)
(* unsaved from then on.                                                   *)
Commit ==
  /\ live \subseteq live' /\ live' # live
  /\ draft' = draft \ live'
  /\ unsaved' = unsaved \cup (live' \ live)
  /\ UNCHANGED disk

Save ==
  /\ disk' = live
  /\ unsaved' = {}
  /\ UNCHANGED <<draft, live>>

Rollback ==
  /\ live' = disk
  /\ unsaved' = {}
  /\ UNCHANGED <<draft, disk>>

Next == Draft \/ TakeBack \/ Commit \/ Save \/ Rollback

Spec == Init /\ [][Next]_ledger

(* The unsaved list is exactly what a reboot would lose. *)
UnsavedIsExact == unsaved = live \ disk
=============================================================================
