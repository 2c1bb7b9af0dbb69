------------------------------- MODULE ConfigTree -------------------------------
(***************************************************************************)
(* The configuration tree of VyOS as the pages of the client see it, the   *)
(* set and delete operations on it, and the queue of such operations that  *)
(* every page appends to (store/pendingChanges.ts).                        *)
(*                                                                         *)
(* A configuration is a set of nodes.  A node is a path and a value: a     *)
(* leaf carries its value, a flag or an empty tag node carries NoValue,    *)
(* and a multi-value leaf is several nodes with one path.                  *)
(*                                                                         *)
(* PendingChanges.tla models the same queue for the commit protocol, where *)
(* entries are removed one by one and reloaded; here only their order and  *)
(* what they do to the tree matter, so the queue is a sequence.            *)
(***************************************************************************)
EXTENDS Naturals, SequencesExt

CONSTANT NoValue     \* the absent value of a flag, a tag node or a delete

Node(path, val) == [path |-> path, val |-> val]

SetOp(path, val) == [op |-> "set", path |-> path, val |-> val]
SetNode(path) == SetOp(path, NoValue)
DeleteOp(path, val) == [op |-> "delete", path |-> path, val |-> val]
DeleteNode(path) == DeleteOp(path, NoValue)

(* The nodes at or below a path.                                           *)
Below(config, path) == {n \in config : IsPrefix(path, n.path)}

Exists(config, path) == Below(config, path) # {}

(* `set path` creates a node that is not there yet and leaves one that is  *)
(* as it is; `set path value` replaces the value of a leaf, or adds one    *)
(* more when the leaf is one of the multi-value leaves `lists`.            *)
AfterSet(config, op, lists) ==
  IF op.val = NoValue
  THEN IF Exists(config, op.path) THEN config ELSE config \cup {Node(op.path, NoValue)}
  ELSE {n \in config : n.path # op.path \/ op.path \in lists} \cup {Node(op.path, op.val)}

(* What is deleted leaves the node above it behind, empty or not.          *)
AfterDelete(config, op) ==
  LET gone == IF op.val = NoValue THEN Below(config, op.path) ELSE {Node(op.path, op.val)} \cap config
      above == Front(op.path)
  IN (config \ gone) \cup (IF gone # {} /\ above # <<>> /\ ~Exists(config \ gone, above) THEN {Node(above, NoValue)} ELSE {})

AfterOp(config, op, lists) ==
  IF op.op = "set" THEN AfterSet(config, op, lists) ELSE AfterDelete(config, op)

(* One /configure call runs its operations in order.                       *)
AfterOps(config, ops, lists) == FoldLeft(LAMBDA c, op : AfterOp(c, op, lists), config, ops)

-----------------------------------------------------------------------------
(* The queue.                                                              *)

(* The position of the most recently queued operation for exactly a path.  *)
LatestOn(queue, path) == SelectLastInSubSeq(queue, 1, Len(queue), LAMBDA op : op.path = path)

(* add(): a double click is ignored, and a valueless set takes back a      *)
(* valueless delete of the same path when that is the latest for the path. *)
Add(queue, op) ==
  LET latest == LatestOn(queue, op.path) IN
  CASE queue # <<>> /\ Last(queue) = op -> queue
    [] op = SetNode(op.path) /\ latest # 0 /\ queue[latest] = DeleteNode(op.path) -> RemoveAt(queue, latest)
    [] OTHER -> Append(queue, op)

AddAll(queue, ops) == FoldLeft(Add, queue, ops)

(* Whether the latest queued operation for a path is a set (a delete).     *)
HasPendingSet(queue, path) == LatestOn(queue, path) # 0 /\ queue[LatestOn(queue, path)].op = "set"
HasPendingDelete(queue, path) == LatestOn(queue, path) # 0 /\ queue[LatestOn(queue, path)].op = "delete"

(* What a subtree consists of: values, flags and nodes with nothing below. *)
LeavesBelow(config, path) == {n \in Below(config, path) : \A m \in Below(config, n.path) : m.path = n.path}

(* Replays a subtree under another path: one set per leaf, value and flag. *)
SubtreeToSetOps(config, from, to) ==
  FoldSet(LAMBDA n, ops : Append(ops, SetOp(to \o SubSeq(n.path, Len(from) + 1, Len(n.path)), n.val)),
          <<>>, LeavesBelow(config, from))
=============================================================================
