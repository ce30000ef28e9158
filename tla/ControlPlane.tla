------------------------------ MODULE ControlPlane ------------------------------
(***************************************************************************)
(* The parts of the control plane around the secret store: who belongs to a  *)
(* project, the machines that may read it, the roles that decide what they   *)
(* may do, the approvals of changes, the tree its secrets are in, and the    *)
(* proxy that uses what it stores.                                           *)
(*                                                                         *)
(* No part writes a table that another reads here, and no property relates   *)
(* two of them, so interleaving their steps would show nothing more: a       *)
(* behaviour is one of a single part, while the others rest in one of their  *)
(* initial states.                                                          *)
(***************************************************************************)
EXTENDS Membership, MachineAuth, Approvals, SecretTree, ProviderProxy, StreamRedaction,
  AccessControl

VARIABLE part

controlPlaneVars ==
  <<part, membershipVars, machineVars, approvalVars, treeVars, proxyVars, redactionVars,
    accessVars>>

(* The people of the approvals are those of the project. *)
ASSUME PersonsArePeople == Persons = People

-----------------------------------------------------------------------------
ControlPlaneInit ==
  /\ part \in {"membership", "machines", "approvals", "tree", "proxy", "redaction", "access"}
  /\ MembershipInit
  /\ part = "membership" \/ (visibility = "specific" /\ \A u \in Users : ~IsMember(u))
  /\ MachineInit
  /\ part = "machines" \/ credentials[1].expires = Never
  /\ ApprovalsInit
  /\ \/ part = "approvals"
     \/ /\ policy.actions = CHOOSE s \in Scopes : TRUE
        /\ policy.steps = CHOOSE p \in Plans : TRUE
        /\ ~policy.prevent
        /\ holders = Users /\ versions = {}
  /\ TreeInit
  /\ ProxyInit
  /\ part = "proxy" \/ eligible
  /\ RedactionInit
  /\ AccessInit
  /\ \/ part = "access"
     \/ /\ existing = {}
        /\ written = <<ListFor({}, 0, CHOOSE l \in RoleLists \ {{}} : TRUE)>>

MembershipSteps ==
  /\ part = "membership" /\ MembershipNext
  /\ UNCHANGED <<part, machineVars, approvalVars, treeVars, proxyVars, redactionVars, accessVars>>

MachineSteps ==
  /\ part = "machines" /\ MachineNext
  /\ UNCHANGED <<part, membershipVars, approvalVars, treeVars, proxyVars, redactionVars, accessVars>>

ApprovalsSteps ==
  /\ part = "approvals" /\ ApprovalsNext
  /\ UNCHANGED <<part, membershipVars, machineVars, treeVars, proxyVars, redactionVars, accessVars>>

TreeSteps ==
  /\ part = "tree" /\ TreeNext
  /\ UNCHANGED <<part, membershipVars, machineVars, approvalVars, proxyVars, redactionVars, accessVars>>

ProxySteps ==
  /\ part = "proxy" /\ ProxyNext
  /\ UNCHANGED <<part, membershipVars, machineVars, approvalVars, treeVars, redactionVars, accessVars>>

RedactionSteps ==
  /\ part = "redaction" /\ RedactionNext
  /\ UNCHANGED <<part, membershipVars, machineVars, approvalVars, treeVars, proxyVars, accessVars>>

AccessSteps ==
  /\ part = "access" /\ AccessNext
  /\ UNCHANGED <<part, membershipVars, machineVars, approvalVars, treeVars, proxyVars, redactionVars>>

ControlPlaneNext ==
  MembershipSteps \/ MachineSteps \/ ApprovalsSteps \/ TreeSteps \/ ProxySteps \/ RedactionSteps
  \/ AccessSteps

ControlPlaneSpec == ControlPlaneInit /\ [][ControlPlaneNext]_controlPlaneVars

-----------------------------------------------------------------------------
(* The rows of every part hold what their columns hold, and what a request   *)
(* has read exists.                                                         *)
ControlPlaneTypeOK ==
  /\ MembershipTypeOK /\ MachineTypeOK /\ ApprovalsTypeOK
  /\ TreeTypeOK /\ ProxyTypeOK /\ RedactionTypeOK /\ AccessTypeOK

=============================================================================
