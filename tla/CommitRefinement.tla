-------------------------- MODULE CommitRefinement --------------------------
(***************************************************************************)
(* The bar, working alone on the router, implements ConfigLedger: although *)
(* a commit, a Keep, a save or a rollback takes effect on the router at    *)
(* one time and in the lists of the browser at a later one, the user may   *)
(* think of each as one atomic step, taken when it becomes final on the    *)
(* router.                                                                 *)
(***************************************************************************)
EXTENDS CommitEngine

(* Run by the router, the reply not yet handled, and no confirmation due.  *)
Final(r) ==
  /\ r.st = "ok" /\ r.ui # "gone"
  /\ ~r.conf

CommitsFinal ==
  {r \in requests : Final(r) /\ r.kind \in {"commit", "keep"}
                             /\ r.action = "commit"}

(* The entries whose bookkeeping is still on its way. *)
OnTheirWay == UNION {r.ents : r \in CommitsFinal}

ClearsList(r) ==
  Final(r) /\ (r.kind = "save" \/ (r.kind = "keep" /\ r.action = "rollback"))

Ledger == INSTANCE ConfigLedger WITH
  Edit <- Entry,
  draft <- changes \ OnTheirWay,
  live <- IF timer.win = NoWindow THEN running ELSE timer.restore,
  disk <- saved,
  unsaved <- IF \E r \in requests : ClearsList(r) THEN {}
             ELSE committed \cup OnTheirWay

(* The engine of the bar (runCommit, handleKeep, handleStandaloneSave,     *)
(* runRollback) is a correct implementation of the abstract ledger.        *)
ImplementsLedger == Ledger!Spec
=============================================================================
