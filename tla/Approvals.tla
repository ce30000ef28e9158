------------------------------- MODULE Approvals -------------------------------
(***************************************************************************)
(* Changes of a secret that have to be approved: a policy with its steps,   *)
(* the requests made under it, the decisions on them, and the direct changes *)
(* that no policy stops.  There is one policy and one secret here: choosing  *)
(* among several policies is in Decisions.                                  *)
(*                                                                         *)
(* A decision locks the row of its request until its commit; the policy, the *)
(* roles and the secret are read without locks.  A call reads in its first   *)
(* step and commits in its second.                                          *)
(***************************************************************************)
EXTENDS Integers, Sequences, FiniteSets

CONSTANTS
  Reviews,   \* API requests that may be in progress at the same time
  Persons,   \* the members of the project
  Nobody,
  Plans,     \* what steps a policy may have
  Scopes,    \* what operations on the secret it may cover; {} when it is disabled
  MaxChanges,\* bound on the approval requests inserted
  MaxAsked   \* bound on the API requests made

Operations == {"create", "update", "delete"}
Step == [users: SUBSET Persons, role: BOOLEAN, need: Nat \ {0}]

ASSUME PersonsAssumption == Nobody \notin Persons
ASSUME PlansAssumption == Plans \subseteq Seq(Step)
ASSUME ScopesAssumption == Scopes \subseteq SUBSET Operations
ASSUME ChangesAssumption == MaxChanges \in Nat /\ MaxAsked \in Nat

VARIABLES
  policy,   \* the row of approval_policies
  holders,  \* who is assigned to the role that approves
  versions, \* the versions of the secret
  requests, \* approval_requests with their "approved" events
  reviews,  \* what each call in progress has read
  asked,    \* the number of calls made
  tally,    \* history: what each step that was passed needed; how often it was applied
  edited    \* history: requests that were pending when the policy was changed

approvalVars == <<policy, holders, versions, requests, reviews, asked, tally, edited>>

-----------------------------------------------------------------------------
Policy == [id: Nat, exists: BOOLEAN, actions: SUBSET Operations, steps: Seq(Step),
           prevent: BOOLEAN]
Change == [policy: Nat, operation: Operations, author: Persons,
           status: {"pending", "approved", "rejected", "cancelled"}, step: Nat,
           approvals: Seq([actor: Persons, step: Nat])]
Review == [op: {"none", "propose", "approve", "reject", "cancel", "direct", "delete policy"},
           request: Nat, actor: Persons \cup {Nobody}, operation: Operations, policy: Nat,
           step: Nat, steps: Seq(Step), latest: Nat]

NoReview == [op |-> "none", request |-> 0, actor |-> Nobody, operation |-> "create",
             policy |-> 0, step |-> 0, steps |-> <<>>, latest |-> 0]

IsPending(r) == requests[r].status = "pending"
Open == {r \in DOMAIN requests : IsPending(r)}

Latest == IF versions = {} THEN 0 ELSE CHOOSE v \in versions : \A w \in versions : w =< v

(* create wants no secret, update and delete want one *)
Possible(operation) == (operation = "create") <=> (versions = {})

(* get_matching_approval_policy *)
Covers(operation) == policy.exists /\ operation \in policy.actions

(* The events of a step, and who made them. *)
ApprovalsOf(change, step) ==
  {i \in DOMAIN change.approvals : change.approvals[i].step = step}
ApproversOf(change, step) == {change.approvals[i].actor : i \in ApprovalsOf(change, step)}

(* The row lock of act_on_approval_request. *)
Unlocked(r) == \A c \in Reviews : reviews[c].request # r

Looks(c, review) ==
  /\ asked' = asked + 1
  /\ reviews' = [reviews EXCEPT ![c] = review]
  /\ UNCHANGED <<policy, holders, versions, requests, tally, edited>>

Closes(c) ==
  /\ reviews' = [reviews EXCEPT ![c] = NoReview]
  /\ UNCHANGED <<holders, asked>>

-----------------------------------------------------------------------------
ApprovalsInit ==
  /\ \E plan \in Plans, actions \in Scopes, prevent \in BOOLEAN :
       policy = [id |-> 1, exists |-> TRUE, actions |-> actions, steps |-> plan,
                 prevent |-> prevent]
  /\ \E p \in Persons : holders = Persons \ {p}
  /\ versions \in {{}, {1}}
  /\ requests = <<>> /\ tally = <<>> /\ edited = {}
  /\ reviews = [c \in Reviews |-> NoReview]
  /\ asked = 0

(* create_approval_policy *)
CreatePolicy ==
  /\ ~policy.exists
  /\ \E plan \in Plans :
       policy' = [id |-> policy.id + 1, exists |-> TRUE, actions |-> Operations,
                  steps |-> plan, prevent |-> TRUE]
  /\ asked' = asked + 1
  /\ UNCHANGED <<holders, versions, requests, reviews, tally, edited>>

(* update_approval_policy: any field, also while requests are pending; the  *)
(* list of steps may even become empty.                                     *)
UpdatePolicy ==
  /\ policy.exists
  /\ policy' \in ({[policy EXCEPT !.steps = plan] : plan \in Plans \cup {<<>>}}
                    \cup {[policy EXCEPT !.actions = actions] : actions \in Scopes}
                    \cup {[policy EXCEPT !.prevent = ~policy.prevent]}) \ {policy}
  /\ edited' = edited \cup Open
  /\ asked' = asked + 1
  /\ UNCHANGED <<holders, versions, requests, reviews, tally>>

(* delete_approval_policy: no request is pending ...                        *)
DeletePolicy(c) ==
  /\ policy.exists /\ Open = {}
  /\ Looks(c, [NoReview EXCEPT !.op = "delete policy", !.policy = policy.id])

(* ... and the foreign key of the requests, pending or not, restricts it.   *)
CommitDeletePolicy(c) ==
  /\ reviews[c].op = "delete policy"
  /\ policy' = IF requests = <<>> /\ policy.id = reviews[c].policy
               THEN [policy EXCEPT !.exists = FALSE] ELSE policy
  /\ Closes(c)
  /\ UNCHANGED <<versions, requests, tally, edited>>

(* create_assignment, delete_assignment *)
AssignRole ==
  /\ \E p \in Persons : holders' = IF p \in holders THEN holders \ {p} ELSE holders \cup {p}
  /\ asked' = asked + 1
  /\ UNCHANGED <<policy, versions, requests, reviews, tally, edited>>

-----------------------------------------------------------------------------
(* A change of the secret that no policy covers. *)
ChangeDirectly(c) ==
  \E operation \in Operations :
    /\ ~Covers(operation) /\ Possible(operation)
    /\ Looks(c, [NoReview EXCEPT !.op = "direct", !.operation = operation, !.latest = Latest])

(* permanently_delete_secret, or the version after the latest that was      *)
(* read: none if there is such a row by now.                                *)
Applies(operation, latest) ==
  \/ operation = "delete" /\ versions' = {}
  \/ operation # "delete" /\ latest + 1 \notin versions /\ versions' = versions \cup {latest + 1}

Conflicts(q) == q.operation # "delete" /\ q.latest + 1 \in versions

CommitChangeDirectly(c) ==
  LET q == reviews[c]
  IN  /\ q.op = "direct"
      /\ Applies(q.operation, q.latest) \/ (Conflicts(q) /\ UNCHANGED versions)
      /\ Closes(c)
      /\ UNCHANGED <<policy, requests, tally, edited>>

(* create_approval_request *)
Propose(c) ==
  \E operation \in Operations, p \in Persons :
    /\ Covers(operation) /\ Possible(operation)
    /\ Looks(c, [NoReview EXCEPT !.op = "propose", !.actor = p, !.operation = operation,
                                 !.policy = policy.id])

CommitPropose(c) ==
  LET q == reviews[c]
  IN  /\ q.op = "propose" /\ Len(requests) < MaxChanges
      /\ \/ /\ policy.exists /\ policy.id = q.policy
            /\ requests' = Append(requests, [policy |-> q.policy, operation |-> q.operation,
                             author |-> q.actor, status |-> "pending", step |-> 0,
                             approvals |-> <<>>])
            /\ tally' = Append(tally, [needs |-> <<>>, applied |-> 0])
         \/ /\ ~policy.exists \/ policy.id # q.policy
            /\ UNCHANGED <<requests, tally>>
      /\ Closes(c)
      /\ UNCHANGED <<policy, versions, edited>>

-----------------------------------------------------------------------------
IsApprover(p, step) == p \in step.users \/ (step.role /\ p \in holders)

(* Mutant: an approver is not asked whether they approved this step before. *)
MayDecideAgain(r, p) ==
  LET request == requests[r]
  IN  /\ request.step < Len(policy.steps)
      /\ IsApprover(p, policy.steps[request.step + 1])
      /\ ~(policy.prevent /\ p = request.author)

(* Beyond the last step, after the list was shortened, there is an          *)
(* IndexError.                                                              *)
MayDecide(r, p) ==
  LET request == requests[r]
  IN  /\ request.step < Len(policy.steps)
      /\ IsApprover(p, policy.steps[request.step + 1])
      /\ ~(policy.prevent /\ p = request.author)
      /\ p \notin ApproversOf(request, request.step)

Approves(c, r) ==
  \E p \in Persons :
    /\ MayDecide(r, p)
    /\ Looks(c, [NoReview EXCEPT !.op = "approve", !.request = r, !.actor = p,
                                 !.operation = requests[r].operation, !.step = requests[r].step,
                                 !.steps = policy.steps, !.latest = Latest])

Rejects(c, r) ==
  /\ \E p \in Persons : MayDecide(r, p)
  /\ Looks(c, [NoReview EXCEPT !.op = "reject", !.request = r])

(* by the author or the owner *)
Cancels(c, r) == Looks(c, [NoReview EXCEPT !.op = "cancel", !.request = r])

(* Mutant: the row of the request is read without its lock. *)
DecideUnlocked(c) == \E r \in Open : Approves(c, r) \/ Rejects(c, r) \/ Cancels(c, r)

(* act_on_approval_request *)
Decide(c) ==
  \E r \in Open : Unlocked(r) /\ (Approves(c, r) \/ Rejects(c, r) \/ Cancels(c, r))

CommitRefusal(c) ==
  LET q == reviews[c]
  IN  /\ q.op \in {"reject", "cancel"}
      /\ requests' = [requests EXCEPT ![q.request].status =
                        IF q.op = "reject" THEN "rejected" ELSE "cancelled"]
      /\ Closes(c)
      /\ UNCHANGED <<policy, versions, tally, edited>>

(* Mutant: the approvals are counted before the new one is flushed. *)
EnoughBeforeFlush(q, change) ==
  Cardinality(ApprovalsOf(requests[q.request], q.step)) >= q.steps[q.step + 1].need

Enough(q, change) ==
  Cardinality(ApprovalsOf(change, q.step)) >= q.steps[q.step + 1].need

(* One approval more; with the last one that the step needs the request     *)
(* moves on, and after the last step the change is made: the operation that *)
(* was asked for, whatever there is by now.  When another has inserted the  *)
(* same version meanwhile, all of it is rolled back.                        *)
CommitApprove(c) ==
  LET q == reviews[c]
      r == q.request
      change == [requests[r] EXCEPT
                   !.approvals = Append(@, [actor |-> q.actor, step |-> q.step])]
      moved == [change EXCEPT !.step = q.step + 1]
      passed == [tally[r] EXCEPT !.needs = Append(@, q.steps[q.step + 1].need)]
      last == moved.step >= Len(q.steps)
  IN  /\ q.op = "approve"
      /\ \/ /\ ~Enough(q, change)
            /\ requests' = [requests EXCEPT ![r] = change]
            /\ UNCHANGED <<versions, tally>>
         \/ /\ Enough(q, change) /\ ~last
            /\ requests' = [requests EXCEPT ![r] = moved]
            /\ tally' = [tally EXCEPT ![r] = passed]
            /\ UNCHANGED versions
         \/ /\ Enough(q, change) /\ last /\ Applies(q.operation, q.latest)
            /\ requests' = [requests EXCEPT ![r] = [moved EXCEPT !.status = "approved"]]
            /\ tally' = [tally EXCEPT ![r] = [passed EXCEPT !.applied = @ + 1]]
         \/ /\ Enough(q, change) /\ last /\ Conflicts(q)
            /\ UNCHANGED <<requests, versions, tally>>
      /\ Closes(c)
      /\ UNCHANGED <<policy, edited>>

-----------------------------------------------------------------------------
ReviewCommits(c) ==
  \/ CommitDeletePolicy(c) \/ CommitChangeDirectly(c) \/ CommitPropose(c)
  \/ CommitRefusal(c) \/ CommitApprove(c)

ReviewBegins(c) ==
  /\ reviews[c].op = "none" /\ asked < MaxAsked
  /\ DeletePolicy(c) \/ ChangeDirectly(c) \/ Propose(c) \/ Decide(c)

PolicyChanges == asked < MaxAsked /\ (CreatePolicy \/ UpdatePolicy \/ AssignRole)

ApprovalsNext == PolicyChanges \/ \E c \in Reviews : ReviewBegins(c) \/ ReviewCommits(c)

ApprovalsSpec == ApprovalsInit /\ [][ApprovalsNext]_approvalVars

-----------------------------------------------------------------------------
(* Rows hold what their columns hold; calls name requests that exist.       *)
ApprovalsTypeOK ==
  /\ policy \in Policy
  /\ holders \subseteq Persons /\ versions \subseteq Nat \ {0}
  /\ requests \in Seq(Change)
  /\ reviews \in [Reviews -> Review]
  /\ \A c \in Reviews : reviews[c].request \in 0 .. Len(requests)
  /\ tally \in Seq([needs: Seq(Nat), applied: Nat]) /\ Len(tally) = Len(requests)
  /\ edited \subseteq DOMAIN requests /\ asked \in Nat

(* However decisions, cancellations and changes of the policy overlap, a    *)
(* change is made once and only for a request that ends approved: of a      *)
(* rejected or cancelled one nothing is applied, also not later             *)
(* (act_on_approval_request, _apply_request).                               *)
AppliedIfApproved ==
  \A r \in DOMAIN requests :
    tally[r].applied = IF requests[r].status = "approved" THEN 1 ELSE 0

(* Every step that a request has passed has the approvals it needed then,   *)
(* each of another person; the step it waits at has fewer than it needs, so *)
(* that no approval that completes a step leaves the request behind, unless *)
(* the policy was changed meanwhile or has been left without any step       *)
(* (act_on_approval_request).                                               *)
StepsAreCounted ==
  \A r \in DOMAIN requests :
    LET change == requests[r]
    IN  /\ Len(tally[r].needs) = change.step
        /\ \A s \in DOMAIN tally[r].needs :
             Cardinality(ApproversOf(change, s - 1)) >= tally[r].needs[s]
        /\ IsPending(r) /\ r \notin edited /\ policy.steps # <<>> =>
             /\ change.step < Len(policy.steps)
             /\ Cardinality(ApproversOf(change, change.step)) < policy.steps[change.step + 1].need

=============================================================================
