---------------------------- MODULE MCConfigPages ----------------------------
(* The components of ConfigPages.                                            *)
EXTENDS ConfigPages, ServiceForms, ManagementForms, VpnForms, BalancingForms, QosForms

MCPages == ServicePages \o ManagementPages \o VpnPages \o BalancingPages \o QosPages

(* The servers whose Enable button queues a node above the one the parser    *)
(* looks for.                                                                *)
MCKindPages == <<AccelPppServer("l2tp"), AccelPppServer("pptp")>>

(* In all components of MCPages the buttons queue the component's own node.  *)
ASSUME OwnGates == \A i \in DOMAIN MCPages : MCPages[i].use = "gated" => MCPages[i].gate = MCPages[i].at
=============================================================================
