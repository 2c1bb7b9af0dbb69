--------------------------- MODULE PendingChanges ---------------------------
(***************************************************************************)
(* The changeset store of the VyOS client (store/pendingChanges.ts): what  *)
(* its operations do to the list of queued set/delete operations.          *)
(*                                                                         *)
(* The store is an append-only list whose entries get a fresh id, and no   *)
(* operation ever reorders it, so the list is modelled as a set of entries *)
(* whose ids grow in the order they were queued: "the last entry" is the   *)
(* one with the largest id.                                                *)
(***************************************************************************)
EXTENDS Naturals

CONSTANTS
  Paths,          \* configuration paths the user edits
  Values,         \* values a set operation may carry
  NoValue,        \* the absent value: a valueless set, or a delete
  MaskedPaths,    \* paths whose values must never be written to storage
  MaxEntries      \* bound: ids are 1..MaxEntries

ASSUME PathsAssumption == MaskedPaths \subseteq Paths
ASSUME ValuesAssumption == NoValue \notin Values
ASSUME MaxEntriesAssumption == MaxEntries \in Nat \ {0}

Ids == 1..MaxEntries

(* One configuration operation (vyosApi.ts ConfigOp): what the pages queue  *)
(* and what POST /api/config/commit sends to /configure.                   *)
ConfigOp == [op : {"set", "delete", "comment"}, path : Paths, val : Values \cup {NoValue}]

Entry == [id : Ids, op : ConfigOp]

(* e is the most recently queued entry of the list q. *)
IsLatest(q, e) == e \in q /\ \A f \in q : f.id =< e.id

OnPath(q, path) == {e \in q : e.op.path = path}

(* A second click that queues exactly what the last entry already says.    *)
IsRepeat(q, op) == \E e \in q : IsLatest(q, e) /\ e.op = op

(* "Enable X" while the latest entry for that very path is "Disable X":    *)
(* the valueless set takes the valueless delete back.                      *)
Cancels(q, op, e) ==
  /\ op.op = "set" /\ op.val = NoValue
  /\ IsLatest(OnPath(q, op.path), e)
  /\ e.op.op = "delete" /\ e.op.val = NoValue

(* What a storage write keeps: a change that carries a value on a masked   *)
(* path never reaches sessionStorage or localStorage.                      *)
Persistable(e) == e.op.val = NoValue \/ e.op.path \notin MaskedPaths

Persisted(q) == {e \in q : Persistable(e)}
=============================================================================
