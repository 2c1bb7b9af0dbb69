--------------------------- MODULE MCCommitEngine ---------------------------
(* Small instances of CommitEngine. *)
EXTENDS CommitRefinement, TLC

CONSTANTS ssh, psk, v, none

(* Disabling and enabling a service again, and a secret with a value.      *)
MCPaths == {ssh, psk}
MCMasked == {psk}
MCImport == [op |-> "comment", path |-> ssh, val |-> none]
Disable == [op |-> "delete", path |-> ssh, val |-> none]
Enable == [op |-> "set", path |-> ssh, val |-> none]
SetSecret == [op |-> "set", path |-> psk, val |-> v]
SetPlain == [op |-> "set", path |-> ssh, val |-> v]
MCOps == {Disable, Enable}
MCSymmetry == Permutations(Windows)
MCOpsMasked == {SetSecret, SetPlain}
=============================================================================
