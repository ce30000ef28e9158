---------------------------- MODULE Approvals_proofs ----------------------------
(***************************************************************************)
(* For any people, policies and numbers of requests: what rows and reviews   *)
(* hold, that only an approved request is applied, and once, and that every   *)
(* step a request has passed had the approvals it needed.                     *)
(***************************************************************************)
EXTENDS Approvals, FiniteSetTheorems, SequenceTheorems, WellFoundedInduction, TLAPS

Tally == [needs: Seq(Nat), applied: Nat]

(* A decision in progress holds the row of its request: it is still pending,  *)
(* at the step that was read, without an approval of this person; the steps   *)
(* are those of the policy unless it was changed meanwhile.                   *)
ReviewOK(q, rows, plan, changed) ==
  /\ q.op \in {"approve", "reject", "cancel"} =>
       q.request \in DOMAIN rows /\ rows[q.request].status = "pending"
  /\ q.op \notin {"approve", "reject", "cancel"} => q.request = 0
  /\ q.op \in {"propose", "approve"} => q.actor \in Persons
  /\ q.op = "approve" => /\ q.step = rows[q.request].step
                         /\ q.step < Len(q.steps)
                         /\ q.actor \notin ApproversOf(rows[q.request], q.step)
                         /\ q.request \notin changed => q.steps = plan

ReviewsOK == \A c \in Reviews : ReviewOK(reviews[c], requests, policy.steps, edited)

RowsLocked ==
  \A c, d \in Reviews :
    c # d /\ reviews[c].request # 0 => reviews[c].request # reviews[d].request

(* No event is of a step that is still to come, and nobody has two at one.    *)
EventsOK(change) ==
  /\ \A i \in DOMAIN change.approvals : change.approvals[i].step =< change.step
  /\ \A i, j \in DOMAIN change.approvals :
       change.approvals[i] = change.approvals[j] => i = j

RequestCounted(change, t) ==
  /\ EventsOK(change)
  /\ Len(t.needs) = change.step
  /\ \A s \in DOMAIN t.needs : Cardinality(ApproversOf(change, s - 1)) >= t.needs[s]
  /\ t.applied = IF change.status = "approved" THEN 1 ELSE 0

Waits(change, plan) ==
  /\ change.step < Len(plan)
  /\ Cardinality(ApproversOf(change, change.step)) < plan[change.step + 1].need

AllCounted == \A r \in DOMAIN requests : RequestCounted(requests[r], tally[r])

AllWait ==
  \A r \in DOMAIN requests :
    requests[r].status = "pending" /\ r \notin edited /\ policy.steps # <<>> =>
      Waits(requests[r], policy.steps)

(* approval_requests.policy_id restricts the deletion of the policy.          *)
PolicyStays == policy.exists \/ requests = <<>>

VersionsBounded == \E b \in Nat : \A v \in versions : v =< b

ApprovalsInv ==
  /\ ApprovalsTypeOK /\ VersionsBounded /\ PolicyStays
  /\ ReviewsOK /\ RowsLocked /\ AllCounted /\ AllWait

-----------------------------------------------------------------------------
(* A nonempty set of naturals with a bound has a greatest element. *)
LEMMA MaximumExists ==
  ASSUME NEW T, T \subseteq Nat, T # {}, NEW b \in Nat, \A x \in T : x =< b
  PROVE  \E x \in T : \A y \in T : y =< x
<1> DEFINE R == OpToRel(<, Nat)
           U == {b - x : x \in T}
<1>1. IsWellFoundedOn(R, Nat)
  BY NatLessThanWellFounded
<1>2. \A x \in T : x \in Nat /\ b - x \in Nat
  OBVIOUS
<1>3. U \subseteq Nat /\ U # {}
  BY <1>2
<1>4. PICK u \in U : \A v \in U : ~ (<<v, u>> \in R)
  <2> HIDE DEF R, U
  <2> QED BY <1>1, <1>3, WFMin
<1>5. \A v \in U : ~(v < u)
  BY <1>3, <1>4 DEF OpToRel
<1>6. PICK x \in T : u = b - x
  OBVIOUS
<1>7. ASSUME NEW y \in T PROVE y =< x
  <2>1. b - y \in U /\ ~(b - y < b - x)
    BY <1>5, <1>6
  <2> QED BY <2>1, <1>2
<1> QED BY <1>7

(* The latest version of the secret is one of its rows, 0 when it has none. *)
LEMMA LatestType ==
  ASSUME ApprovalsTypeOK, VersionsBounded
  PROVE  Latest \in Nat
<1>1. versions \subseteq Nat
  BY DEF ApprovalsTypeOK
<1>2. CASE versions = {}
  BY <1>2 DEF Latest
<1>3. CASE versions # {}
  <2>1. PICK b \in Nat : \A v \in versions : v =< b
    BY DEF VersionsBounded
  <2>2. \E v \in versions : \A w \in versions : w =< v
    BY <1>1, <1>3, <2>1, MaximumExists
  <2> QED BY <1>1, <1>3, <2>2 DEF Latest
<1> QED BY <1>2, <1>3

(* Applying a change leaves the versions bounded. *)
LEMMA AppliesBounded ==
  ASSUME ApprovalsTypeOK, VersionsBounded, NEW operation, NEW latest \in Nat,
         Applies(operation, latest)
  PROVE  versions' \subseteq Nat \ {0} /\ VersionsBounded'
<1>1. PICK b \in Nat : \A v \in versions : v =< b
  BY DEF VersionsBounded
<1>2. versions \subseteq Nat \ {0} /\ latest + 1 \in Nat \ {0}
  BY DEF ApprovalsTypeOK
<1>3. b + latest + 1 \in Nat
  OBVIOUS
<1>4. versions' = {} \/ versions' = versions \cup {latest + 1}
  BY DEF Applies
<1>5. ASSUME NEW v \in versions' PROVE v =< b + latest + 1
  <2>1. v \in Nat /\ (v =< b \/ v = latest + 1)
    BY <1>1, <1>2, <1>4
  <2> QED BY <2>1
<1> QED BY <1>2, <1>3, <1>4, <1>5 DEF VersionsBounded

(* The approvals of a step are finitely many, and its approvers no more. *)
LEMMA ApprovalsFinite ==
  ASSUME NEW change \in Change, NEW s
  PROVE  /\ IsFiniteSet(ApprovalsOf(change, s)) /\ IsFiniteSet(ApproversOf(change, s))
         /\ Cardinality(ApprovalsOf(change, s)) \in Nat
         /\ Cardinality(ApproversOf(change, s)) \in Nat
         /\ Cardinality(ApproversOf(change, s)) =< Cardinality(ApprovalsOf(change, s))
<1> DEFINE A == ApprovalsOf(change, s)
           B == ApproversOf(change, s)
           f == [i \in A |-> change.approvals[i].actor]
<1>1. Len(change.approvals) \in Nat /\ DOMAIN change.approvals = 1 .. Len(change.approvals)
  BY DEF Change
<1>2. IsFiniteSet(1 .. Len(change.approvals)) /\ A \in SUBSET (1 .. Len(change.approvals))
  BY <1>1, FS_Interval DEF ApprovalsOf
<1>3. IsFiniteSet(A)
  BY <1>2, FS_Subset
<1>4. f \in Surjection(A, B)
  BY DEF Surjection, ApproversOf
<1>5. IsFiniteSet(B) /\ Cardinality(B) =< Cardinality(A)
  <2> HIDE DEF A, B, f
  <2> QED BY <1>3, <1>4, FS_Surjection
<1> QED BY <1>3, <1>5, FS_CardinalityType

(* When nobody has two at one step, they are as many. *)
LEMMA ApprovalsCount ==
  ASSUME NEW change \in Change, EventsOK(change), NEW s
  PROVE  Cardinality(ApproversOf(change, s)) = Cardinality(ApprovalsOf(change, s))
<1> DEFINE A == ApprovalsOf(change, s)
           B == ApproversOf(change, s)
           f == [i \in A |-> change.approvals[i].actor]
<1>1. IsFiniteSet(A)
  BY ApprovalsFinite
<1>2. f \in Surjection(A, B)
  BY DEF Surjection, ApproversOf
<1>3. ASSUME NEW i \in A, NEW j \in A, f[i] = f[j] PROVE i = j
  <2>1. /\ i \in DOMAIN change.approvals /\ j \in DOMAIN change.approvals
        /\ change.approvals[i].step = s /\ change.approvals[j].step = s
        /\ change.approvals[i].actor = change.approvals[j].actor
    BY <1>3 DEF ApprovalsOf
  <2>2. /\ change.approvals[i] \in [actor: Persons, step: Nat]
        /\ change.approvals[j] \in [actor: Persons, step: Nat]
    <3>1. change.approvals \in Seq([actor: Persons, step: Nat])
      BY DEF Change
    <3>2. i \in 1 .. Len(change.approvals) /\ j \in 1 .. Len(change.approvals)
      BY <2>1, <3>1
    <3> QED BY <3>1, <3>2, ElementOfSeq
  <2>3. change.approvals[i] = change.approvals[j]
    BY <2>1, <2>2
  <2> QED BY <2>1, <2>3 DEF EventsOK
<1>4. f \in Injection(A, B)
  BY <1>2, <1>3 DEF Injection, IsInjective, Surjection
<1> HIDE DEF A, B, f
<1>5. Cardinality(B) = Cardinality(A)
  BY <1>1, <1>2, <1>4, FS_Surjection
<1> QED BY <1>5 DEF A, B

(* One event more, of a person who has none at this step yet. *)
LEMMA EventAdded ==
  ASSUME NEW change \in Change, EventsOK(change),
         NEW p \in Persons, p \notin ApproversOf(change, change.step),
         NEW next, next = [change EXCEPT !.approvals =
                             Append(change.approvals, [actor |-> p, step |-> change.step])]
  PROVE  /\ next \in Change /\ EventsOK(next)
         /\ next.step = change.step /\ next.status = change.status
         /\ \A s \in Int : s # change.step => ApproversOf(next, s) = ApproversOf(change, s)
<1> DEFINE e == [actor |-> p, step |-> change.step]
           old == change.approvals
           new == next.approvals
<1>1. /\ old \in Seq([actor: Persons, step: Nat]) /\ e \in [actor: Persons, step: Nat]
      /\ change.step \in Nat
  BY DEF Change
<1>2. /\ next \in Change /\ next.step = change.step /\ next.status = change.status
      /\ new = Append(old, e)
  <2> DEFINE both == Append(old, e)
  <2>1. both \in Seq([actor: Persons, step: Nat])
    BY <1>1, AppendProperties
  <2>2. next = [change EXCEPT !.approvals = both]
    OBVIOUS
  <2> HIDE DEF both
  <2>3. /\ next \in Change /\ next.step = change.step /\ next.status = change.status
        /\ next.approvals = both
    BY <2>1, <2>2 DEF Change
  <2> QED BY <2>3 DEF both
<1>3. /\ new \in Seq([actor: Persons, step: Nat]) /\ Len(new) = Len(old) + 1
      /\ \A i \in 1 .. Len(old) : new[i] = old[i]
      /\ new[Len(old) + 1] = e
  BY <1>1, <1>2, AppendProperties
<1>4. /\ Len(old) \in Nat /\ DOMAIN old = 1 .. Len(old) /\ DOMAIN new = 1 .. (Len(old) + 1)
  BY <1>1, <1>3
<1>5. e.step = change.step /\ e.actor = p
  OBVIOUS
<1> HIDE DEF e
<1>6. \A i \in DOMAIN new : \/ i \in DOMAIN old /\ new[i] = old[i]
                            \/ i = Len(old) + 1 /\ new[i] = e
  BY <1>3, <1>4
<1>7. \A i \in DOMAIN old : old[i] # e
  <2> SUFFICES ASSUME NEW i \in DOMAIN old, old[i] = e PROVE FALSE
    OBVIOUS
  <2>1. i \in ApprovalsOf(change, change.step)
    BY <1>5 DEF ApprovalsOf
  <2>2. old[i].actor \in ApproversOf(change, change.step)
    BY <2>1 DEF ApproversOf
  <2> QED BY <1>5, <2>2
<1>8. EventsOK(next)
  <2>1. \A i \in DOMAIN new : new[i].step =< change.step
    BY <1>1, <1>5, <1>6 DEF EventsOK
  <2>2. ASSUME NEW i \in DOMAIN new, NEW j \in DOMAIN new, new[i] = new[j] PROVE i = j
    BY <1>6, <1>7, <2>2 DEF EventsOK
  <2> QED BY <1>2, <2>1, <2>2 DEF EventsOK
<1>9. ASSUME NEW s \in Int, s # change.step PROVE ApproversOf(next, s) = ApproversOf(change, s)
  <2>1. ApprovalsOf(next, s) = ApprovalsOf(change, s)
    BY <1>3, <1>4, <1>5, <1>6, <1>9 DEF ApprovalsOf
  <2>2. \A i \in ApprovalsOf(change, s) : new[i] = old[i]
    BY <1>3, <1>4 DEF ApprovalsOf
  <2> QED BY <2>1, <2>2 DEF ApproversOf
<1> QED BY <1>2, <1>8, <1>9

-----------------------------------------------------------------------------
LEMMA NoReviewIsReview ==
  /\ NoReview \in Review
  /\ NoReview.request = 0
  /\ \A rows, plan, changed : ReviewOK(NoReview, rows, plan, changed)
BY DEF NoReview, Review, Operations, ReviewOK

(* A call begins with a record of its type, on a row that no other holds. *)
LEMMA LooksKeeps ==
  ASSUME ApprovalsInv, NEW c \in Reviews, NEW review \in Review, Looks(c, review),
         review.request \in 0 .. Len(requests),
         ReviewOK(review, requests, policy.steps, edited),
         review.request # 0 => Unlocked(review.request)
  PROVE  ApprovalsInv'
<1>1. /\ reviews' = [reviews EXCEPT ![c] = review] /\ reviews \in [Reviews -> Review]
      /\ UNCHANGED <<policy, holders, versions, requests, tally, edited>>
      /\ asked' = asked + 1
  BY DEF Looks, ApprovalsInv, ApprovalsTypeOK
<1>2. reviews' \in [Reviews -> Review] /\ reviews'[c] = review
      /\ \A d \in Reviews \ {c} : reviews'[d] = reviews[d]
  BY <1>1
<1>3. \A d \in Reviews : reviews[d].request \in 0 .. Len(requests)
                         /\ ReviewOK(reviews[d], requests, policy.steps, edited)
  BY DEF ApprovalsInv, ApprovalsTypeOK, ReviewsOK
<1>4. \A d \in Reviews : reviews'[d].request \in 0 .. Len(requests')
                         /\ ReviewOK(reviews'[d], requests, policy.steps, edited)
  BY <1>1, <1>2, <1>3
<1>5. ApprovalsTypeOK'
  BY <1>1, <1>2, <1>4 DEF ApprovalsInv, ApprovalsTypeOK
<1>6. ReviewsOK'
  BY <1>1, <1>4 DEF ReviewsOK
<1>7. RowsLocked'
  BY <1>1, <1>2 DEF ApprovalsInv, RowsLocked, Unlocked
<1> QED BY <1>1, <1>5, <1>6, <1>7
        DEF ApprovalsInv, VersionsBounded, PolicyStays, AllCounted, AllWait

(* After a commit that leaves the rows of the requests alone. *)
LEMMA ClosesKeeps ==
  ASSUME ApprovalsInv, NEW c \in Reviews, Closes(c),
         policy' \in Policy, policy'.steps = policy.steps, PolicyStays',
         versions' \subseteq Nat \ {0}, VersionsBounded',
         UNCHANGED <<requests, tally, edited>>
  PROVE  ApprovalsInv'
<1>1. /\ reviews' = [reviews EXCEPT ![c] = NoReview] /\ reviews \in [Reviews -> Review]
      /\ UNCHANGED <<holders, asked>>
  BY DEF Closes, ApprovalsInv, ApprovalsTypeOK
<1>2. reviews' \in [Reviews -> Review] /\ reviews'[c] = NoReview
      /\ \A d \in Reviews \ {c} : reviews'[d] = reviews[d]
  BY <1>1, NoReviewIsReview
<1>3. \A d \in Reviews : reviews[d].request \in 0 .. Len(requests)
                         /\ ReviewOK(reviews[d], requests, policy.steps, edited)
  BY DEF ApprovalsInv, ApprovalsTypeOK, ReviewsOK
<1>4. Len(requests) \in Nat
  BY DEF ApprovalsInv, ApprovalsTypeOK
<1>5. \A d \in Reviews : reviews'[d].request \in 0 .. Len(requests')
                         /\ ReviewOK(reviews'[d], requests, policy.steps, edited)
  BY <1>2, <1>3, <1>4, NoReviewIsReview
<1>6. ApprovalsTypeOK'
  BY <1>1, <1>2, <1>5 DEF ApprovalsInv, ApprovalsTypeOK
<1>7. ReviewsOK'
  BY <1>5 DEF ReviewsOK
<1>8. RowsLocked'
  BY <1>2, NoReviewIsReview DEF ApprovalsInv, RowsLocked
<1>9. AllCounted' /\ AllWait'
  BY DEF ApprovalsInv, AllCounted, AllWait
<1> QED BY <1>6, <1>7, <1>8, <1>9 DEF ApprovalsInv

(* After a decision that replaces its row, whose lock it holds. *)
LEMMA RowReplaced ==
  ASSUME ApprovalsInv, NEW c \in Reviews, Closes(c), UNCHANGED <<policy, edited>>,
         versions' \subseteq Nat \ {0}, VersionsBounded',
         NEW r \in DOMAIN requests, reviews[c].request = r,
         NEW change \in Change, requests' = [requests EXCEPT ![r] = change],
         NEW t \in Tally, tally' = [tally EXCEPT ![r] = t],
         RequestCounted(change, t),
         change.status = "pending" /\ r \notin edited /\ policy.steps # <<>> =>
           Waits(change, policy.steps)
  PROVE  ApprovalsInv'
<1>1. /\ reviews' = [reviews EXCEPT ![c] = NoReview] /\ reviews \in [Reviews -> Review]
      /\ UNCHANGED <<holders, asked>>
  BY DEF Closes, ApprovalsInv, ApprovalsTypeOK
<1>2. reviews' \in [Reviews -> Review] /\ reviews'[c] = NoReview
      /\ \A d \in Reviews \ {c} : reviews'[d] = reviews[d]
  BY <1>1, NoReviewIsReview
<1>3. /\ requests \in Seq(Change) /\ tally \in Seq(Tally) /\ Len(tally) = Len(requests)
      /\ Len(requests) \in Nat /\ DOMAIN requests = 1 .. Len(requests)
      /\ DOMAIN tally = DOMAIN requests
  BY DEF ApprovalsInv, ApprovalsTypeOK, Tally
<1>4. /\ requests' \in Seq(Change) /\ Len(requests') = Len(requests)
      /\ DOMAIN requests' = DOMAIN requests
      /\ tally' \in Seq(Tally) /\ Len(tally') = Len(tally)
  BY <1>3
<1>5. /\ requests'[r] = change /\ tally'[r] = t
      /\ \A i \in DOMAIN requests \ {r} : requests'[i] = requests[i] /\ tally'[i] = tally[i]
  BY <1>3
<1>6. ASSUME NEW d \in Reviews
      PROVE  /\ reviews'[d].request \in 0 .. Len(requests')
             /\ ReviewOK(reviews'[d], requests', policy.steps, edited)
  <2>1. CASE d = c
    BY <1>2, <1>3, <1>4, <2>1, NoReviewIsReview
  <2>2. CASE d # c
    <3>1. /\ reviews'[d] = reviews[d] /\ reviews[d].request \in 0 .. Len(requests)
          /\ ReviewOK(reviews[d], requests, policy.steps, edited)
      BY <1>2, <2>2 DEF ApprovalsInv, ApprovalsTypeOK, ReviewsOK
    <3>2. reviews[d].request # r
      <4>1. r # 0
        BY <1>3
      <4> QED BY <2>2, <4>1 DEF ApprovalsInv, RowsLocked
    <3>3. CASE reviews[d].op \in {"approve", "reject", "cancel"}
      <4>1. /\ reviews[d].request \in DOMAIN requests
            /\ requests'[reviews[d].request] = requests[reviews[d].request]
        BY <1>5, <3>1, <3>2, <3>3 DEF ReviewOK
      <4> QED BY <1>4, <3>1, <4>1 DEF ReviewOK
    <3>4. CASE reviews[d].op \notin {"approve", "reject", "cancel"}
      BY <1>4, <3>1, <3>4 DEF ReviewOK
    <3> QED BY <3>3, <3>4
  <2> QED BY <2>1, <2>2
<1>7. ApprovalsTypeOK'
  BY <1>1, <1>2, <1>3, <1>4, <1>6 DEF ApprovalsInv, ApprovalsTypeOK, Tally
<1>8. ReviewsOK'
  BY <1>6 DEF ReviewsOK
<1>9. RowsLocked'
  BY <1>2, NoReviewIsReview DEF ApprovalsInv, RowsLocked
<1>10. AllCounted'
  BY <1>4, <1>5 DEF ApprovalsInv, AllCounted
<1>11. AllWait'
  BY <1>4, <1>5 DEF ApprovalsInv, AllWait
<1>12. PolicyStays'
  <2>1. requests # <<>>
    BY <1>3
  <2> QED BY <2>1 DEF ApprovalsInv, PolicyStays
<1> QED BY <1>7, <1>8, <1>9, <1>10, <1>11, <1>12 DEF ApprovalsInv

-----------------------------------------------------------------------------
LEMMA PolicyChangesKeep ==
  ASSUME ApprovalsInv, PolicyChanges
  PROVE  ApprovalsInv'
<1>0. /\ policy \in Policy /\ asked + 1 \in Nat
      /\ \A c \in Reviews : ReviewOK(reviews[c], requests, policy.steps, edited)
      /\ edited \subseteq DOMAIN requests
  BY DEF ApprovalsInv, ApprovalsTypeOK, ReviewsOK
<1>1. CASE CreatePolicy
  <2>1. /\ requests = <<>> /\ edited = {} /\ policy' \in Policy /\ policy'.exists
        /\ UNCHANGED <<holders, versions, requests, reviews, tally, edited>> /\ asked' = asked + 1
    <3>1. ~policy.exists
      BY <1>1 DEF CreatePolicy
    <3>2. PICK plan \in Plans :
            policy' = [id |-> policy.id + 1, exists |-> TRUE, actions |-> Operations,
                       steps |-> plan, prevent |-> TRUE]
      BY <1>1 DEF CreatePolicy
    <3>3. requests = <<>> /\ edited = {}
      BY <1>0, <3>1 DEF ApprovalsInv, PolicyStays
    <3> QED BY <1>0, <1>1, <3>2, <3>3, PlansAssumption DEF CreatePolicy, Policy
  <2>2. \A c \in Reviews : ReviewOK(reviews[c], requests, policy'.steps, edited)
    BY <1>0, <2>1 DEF ReviewOK
  <2>3. ApprovalsTypeOK'
    BY <1>0, <2>1 DEF ApprovalsInv, ApprovalsTypeOK
  <2>4. ReviewsOK'
    BY <2>1, <2>2 DEF ReviewsOK
  <2>5. AllCounted' /\ AllWait'
    BY <2>1 DEF AllCounted, AllWait
  <2> QED BY <2>1, <2>3, <2>4, <2>5 DEF ApprovalsInv, VersionsBounded, PolicyStays, RowsLocked
<1>2. CASE UpdatePolicy
  <2>1. /\ policy' \in Policy /\ policy'.exists
        /\ UNCHANGED <<holders, versions, requests, reviews, tally>> /\ asked' = asked + 1
        /\ edited' = edited \cup Open
    <3>0. policy.exists
      BY <1>2 DEF UpdatePolicy
    <3>1. ASSUME NEW plan \in Plans \cup {<<>>}, policy' = [policy EXCEPT !.steps = plan]
          PROVE  policy' \in Policy /\ policy'.exists
      <4>1. plan \in Seq(Step)
        BY PlansAssumption, EmptySeq
      <4> QED BY <1>0, <3>0, <3>1, <4>1 DEF Policy
    <3>2. ASSUME NEW actions \in Scopes, policy' = [policy EXCEPT !.actions = actions]
          PROVE  policy' \in Policy /\ policy'.exists
      BY <1>0, <3>0, <3>2, ScopesAssumption DEF Policy
    <3>3. ASSUME policy' = [policy EXCEPT !.prevent = ~policy.prevent]
          PROVE  policy' \in Policy /\ policy'.exists
      BY <1>0, <3>0, <3>3 DEF Policy
    <3>4. policy' \in {[policy EXCEPT !.steps = plan] : plan \in Plans \cup {<<>>}}
                        \cup {[policy EXCEPT !.actions = actions] : actions \in Scopes}
                        \cup {[policy EXCEPT !.prevent = ~policy.prevent]}
      BY <1>2 DEF UpdatePolicy
    <3>5. policy' \in Policy /\ policy'.exists
      BY <3>1, <3>2, <3>3, <3>4
    <3> QED BY <1>2, <3>5 DEF UpdatePolicy
  <2>2. Open \subseteq DOMAIN requests
        /\ \A r \in DOMAIN requests : requests[r].status = "pending" => r \in Open
    BY DEF Open, IsPending
  <2>3. \A c \in Reviews : ReviewOK(reviews[c], requests, policy'.steps, edited')
    BY <1>0, <2>1, <2>2 DEF ReviewOK
  <2>4. ApprovalsTypeOK'
    BY <1>0, <2>1, <2>2 DEF ApprovalsInv, ApprovalsTypeOK
  <2>5. ReviewsOK'
    BY <2>1, <2>3 DEF ReviewsOK
  <2>6. AllCounted' /\ AllWait'
    BY <2>1, <2>2 DEF ApprovalsInv, AllCounted, AllWait
  <2> QED BY <2>1, <2>4, <2>5, <2>6 DEF ApprovalsInv, VersionsBounded, PolicyStays, RowsLocked
<1>3. CASE AssignRole
  <2>1. /\ UNCHANGED <<policy, versions, requests, reviews, tally, edited>>
        /\ holders' \subseteq Persons /\ asked' \in Nat
    BY <1>0, <1>3 DEF AssignRole, ApprovalsInv, ApprovalsTypeOK
  <2> QED BY <2>1 DEF ApprovalsInv, ApprovalsTypeOK, VersionsBounded, PolicyStays, ReviewsOK,
                      RowsLocked, AllCounted, AllWait
<1> QED BY <1>1, <1>2, <1>3 DEF PolicyChanges

LEMMA DecideKeeps ==
  ASSUME ApprovalsInv, NEW c \in Reviews, Decide(c)
  PROVE  ApprovalsInv'
<1>1. PICK r \in Open : Unlocked(r) /\ (Approves(c, r) \/ Rejects(c, r) \/ Cancels(c, r))
  BY DEF Decide
<1>2. /\ r \in DOMAIN requests /\ requests[r].status = "pending" /\ requests[r] \in Change
      /\ r \in 1 .. Len(requests) /\ Len(requests) \in Nat /\ r \in Nat
  BY DEF Open, IsPending, ApprovalsInv, ApprovalsTypeOK
<1>3. CASE Approves(c, r)
  <2>1. PICK p \in Persons :
          /\ MayDecide(r, p)
          /\ Looks(c, [NoReview EXCEPT !.op = "approve", !.request = r, !.actor = p,
                         !.operation = requests[r].operation, !.step = requests[r].step,
                         !.steps = policy.steps, !.latest = Latest])
    BY <1>3 DEF Approves
  <2> DEFINE q == [NoReview EXCEPT !.op = "approve", !.request = r, !.actor = p,
                     !.operation = requests[r].operation, !.step = requests[r].step,
                     !.steps = policy.steps, !.latest = Latest]
  <2>2. Latest \in Nat
    BY LatestType DEF ApprovalsInv
  <2>3. policy.steps \in Seq(Step) /\ requests[r].step \in Nat /\ requests[r].operation \in Operations
    BY <1>2 DEF ApprovalsInv, ApprovalsTypeOK, Policy, Change
  <2>4. /\ q \in Review /\ q.op = "approve" /\ q.request = r /\ q.actor = p
        /\ q.step = requests[r].step /\ q.steps = policy.steps
    <3>1. r \in Nat
      BY <1>2
    <3> QED BY <2>2, <2>3, <3>1, NoReviewIsReview DEF Review, NoReview
  <2> HIDE DEF q
  <2>5. ReviewOK(q, requests, policy.steps, edited)
    BY <1>2, <2>1, <2>4 DEF ReviewOK, MayDecide
  <2>6. Looks(c, q)
    BY <2>1 DEF q
  <2> QED BY <1>1, <1>2, <2>4, <2>5, <2>6, LooksKeeps
<1>4. CASE Rejects(c, r) \/ Cancels(c, r)
  <2>1. PICK op \in {"reject", "cancel"} : Looks(c, [NoReview EXCEPT !.op = op, !.request = r])
    BY <1>4, Zenon DEF Rejects, Cancels
  <2> DEFINE q == [NoReview EXCEPT !.op = op, !.request = r]
  <2>2. q \in Review /\ q.op \in {"reject", "cancel"} /\ q.request = r
    <3>1. r \in Nat
      BY <1>2
    <3> QED BY <3>1, NoReviewIsReview DEF Review, NoReview
  <2> HIDE DEF q
  <2>3. ReviewOK(q, requests, policy.steps, edited)
    BY <1>2, <2>2 DEF ReviewOK
  <2>4. Looks(c, q)
    BY <2>1 DEF q
  <2> QED BY <1>1, <1>2, <2>2, <2>3, <2>4, LooksKeeps
<1> QED BY <1>1, <1>3, <1>4

LEMMA BeginsKeep ==
  ASSUME ApprovalsInv, NEW c \in Reviews, ReviewBegins(c)
  PROVE  ApprovalsInv'
<1>0. Len(requests) \in Nat /\ policy.id \in Nat /\ Latest \in Nat
  BY LatestType DEF ApprovalsInv, ApprovalsTypeOK, Policy
<1>1. ASSUME NEW q \in Review, q.request = 0, q.op \in {"delete policy", "direct", "propose"},
             q.op = "propose" => q.actor \in Persons, Looks(c, q)
      PROVE  ApprovalsInv'
  <2>1. ReviewOK(q, requests, policy.steps, edited)
    BY <1>1 DEF ReviewOK
  <2>2. 0 \in 0 .. Len(requests)
    BY <1>0
  <2>3. q.request \in 0 .. Len(requests) /\ (q.request # 0 => Unlocked(q.request))
    BY <1>1, <2>2, Zenon
  <2> QED BY <1>1, <2>1, <2>3, LooksKeeps
<1>2. CASE DeletePolicy(c)
  <2> DEFINE q == [NoReview EXCEPT !.op = "delete policy", !.policy = policy.id]
  <2>1. q \in Review /\ q.op = "delete policy" /\ q.request = 0
    BY <1>0, NoReviewIsReview DEF Review, NoReview
  <2> HIDE DEF q
  <2>2. Looks(c, q)
    BY <1>2 DEF DeletePolicy, q
  <2> QED BY <1>1, <2>1, <2>2
<1>3. CASE ChangeDirectly(c)
  <2>1. PICK operation \in Operations :
          Looks(c, [NoReview EXCEPT !.op = "direct", !.operation = operation, !.latest = Latest])
    BY <1>3 DEF ChangeDirectly
  <2> DEFINE q == [NoReview EXCEPT !.op = "direct", !.operation = operation, !.latest = Latest]
  <2>2. q \in Review /\ q.op = "direct" /\ q.request = 0
    BY <1>0, NoReviewIsReview DEF Review, NoReview
  <2> HIDE DEF q
  <2>3. Looks(c, q)
    BY <2>1 DEF q
  <2> QED BY <1>1, <2>2, <2>3
<1>4. CASE Propose(c)
  <2>1. PICK operation \in Operations, p \in Persons :
          Looks(c, [NoReview EXCEPT !.op = "propose", !.actor = p, !.operation = operation,
                                    !.policy = policy.id])
    BY <1>4 DEF Propose
  <2> DEFINE q == [NoReview EXCEPT !.op = "propose", !.actor = p, !.operation = operation,
                                   !.policy = policy.id]
  <2>2. q \in Review /\ q.op = "propose" /\ q.request = 0 /\ q.actor = p
    BY <1>0, NoReviewIsReview DEF Review, NoReview
  <2> HIDE DEF q
  <2>3. Looks(c, q)
    BY <2>1 DEF q
  <2> QED BY <1>1, <2>2, <2>3
<1> QED BY <1>2, <1>3, <1>4, DecideKeeps DEF ReviewBegins

-----------------------------------------------------------------------------
(* The foreign key: with a request the policy is not deleted. *)
LEMMA CommitDeleteKeeps ==
  ASSUME ApprovalsInv, NEW c \in Reviews, CommitDeletePolicy(c)
  PROVE  ApprovalsInv'
<1>1. /\ Closes(c) /\ UNCHANGED <<versions, requests, tally, edited>> /\ policy \in Policy
      /\ policy' = IF requests = <<>> /\ policy.id = reviews[c].policy
                   THEN [policy EXCEPT !.exists = FALSE] ELSE policy
  BY DEF CommitDeletePolicy, ApprovalsInv, ApprovalsTypeOK
<1>2. policy' \in Policy /\ policy'.steps = policy.steps
  BY <1>1 DEF Policy
<1>3. PolicyStays'
  BY <1>1 DEF ApprovalsInv, PolicyStays
<1>4. versions' \subseteq Nat \ {0} /\ VersionsBounded'
  BY <1>1 DEF ApprovalsInv, ApprovalsTypeOK, VersionsBounded
<1> QED BY <1>1, <1>2, <1>3, <1>4, ClosesKeeps

LEMMA CommitDirectKeeps ==
  ASSUME ApprovalsInv, NEW c \in Reviews, CommitChangeDirectly(c)
  PROVE  ApprovalsInv'
<1> DEFINE q == reviews[c]
<1>1. /\ Closes(c) /\ UNCHANGED <<policy, requests, tally, edited>>
      /\ Applies(q.operation, q.latest) \/ UNCHANGED versions
      /\ ApprovalsTypeOK /\ VersionsBounded
  BY DEF CommitChangeDirectly, ApprovalsInv
<1>2. q.latest \in Nat /\ policy \in Policy
  BY <1>1 DEF ApprovalsTypeOK, Review
<1>3. versions' \subseteq Nat \ {0} /\ VersionsBounded'
  <2>1. CASE Applies(q.operation, q.latest)
    BY <1>1, <1>2, <2>1, AppliesBounded
  <2>2. CASE UNCHANGED versions
    BY <1>1, <2>2 DEF ApprovalsTypeOK, VersionsBounded
  <2> QED BY <1>1, <2>1, <2>2
<1>4. PolicyStays'
  BY <1>1 DEF ApprovalsInv, PolicyStays
<1> QED BY <1>1, <1>2, <1>3, <1>4, ClosesKeeps

LEMMA NewRequest ==
  ASSUME NEW change \in Change, change.status = "pending", change.step = 0,
         change.approvals = <<>>
  PROVE  /\ RequestCounted(change, [needs |-> <<>>, applied |-> 0])
         /\ \A plan \in Seq(Step) : plan # <<>> => Waits(change, plan)
<1>1. EventsOK(change)
  BY DEF EventsOK
<1>2. \A s : ApproversOf(change, s) = {}
  BY DEF ApproversOf, ApprovalsOf
<1>3. ASSUME NEW plan \in Seq(Step), plan # <<>> PROVE Waits(change, plan)
  <2>1. 1 \in 1 .. Len(plan) /\ Len(plan) \in Nat
    <3>1. Len(plan) # 0 /\ Len(plan) \in Nat
      BY <1>3, EmptySeq
    <3> QED BY <3>1
  <2>2. plan[1] \in Step
    BY <2>1, ElementOfSeq
  <2>3. plan[1].need \in Nat \ {0}
    BY <2>2 DEF Step
  <2>4. Cardinality(ApproversOf(change, change.step)) = 0
    BY <1>2, FS_EmptySet
  <2>5. change.step < Len(plan) /\ 0 < plan[change.step + 1].need
    BY <2>1, <2>3
  <2> QED BY <2>4, <2>5 DEF Waits
<1> QED BY <1>1, <1>3 DEF RequestCounted

LEMMA CommitProposeKeeps ==
  ASSUME ApprovalsInv, NEW c \in Reviews, CommitPropose(c)
  PROVE  ApprovalsInv'
<1> DEFINE q == reviews[c]
           change == [policy |-> q.policy, operation |-> q.operation, author |-> q.actor,
                      status |-> "pending", step |-> 0, approvals |-> <<>>]
           t == [needs |-> <<>>, applied |-> 0]
<1>1. /\ Closes(c) /\ UNCHANGED <<policy, versions, edited>> /\ q.op = "propose"
      /\ \/ policy.exists /\ requests' = Append(requests, change) /\ tally' = Append(tally, t)
         \/ UNCHANGED <<requests, tally>>
  BY DEF CommitPropose
<1>2. /\ q \in Review /\ q.actor \in Persons /\ policy \in Policy
      /\ versions \subseteq Nat \ {0}
  BY <1>1 DEF ApprovalsInv, ApprovalsTypeOK, ReviewsOK, ReviewOK
<1>3. VersionsBounded'
  BY <1>1 DEF ApprovalsInv, VersionsBounded
<1>4. CASE UNCHANGED <<requests, tally>>
  <2>1. PolicyStays'
    BY <1>1, <1>4 DEF ApprovalsInv, PolicyStays
  <2> QED BY <1>1, <1>2, <1>3, <1>4, <2>1, ClosesKeeps
<1>5. CASE policy.exists /\ requests' = Append(requests, change) /\ tally' = Append(tally, t)
  <2>1. /\ change \in Change /\ change.status = "pending" /\ change.step = 0
        /\ change.approvals = <<>>
    <3>1. q.policy \in Nat /\ q.operation \in Operations
      BY <1>2 DEF Review
    <3> QED BY <1>2, <3>1, EmptySeq DEF Change
  <2>2. t \in Tally
    BY DEF Tally
  <2>3. RequestCounted(change, t) /\ \A plan \in Seq(Step) : plan # <<>> => Waits(change, plan)
    <3> HIDE DEF change
    <3> QED BY <2>1, NewRequest
  <2>4. /\ requests \in Seq(Change) /\ tally \in Seq(Tally) /\ Len(tally) = Len(requests)
        /\ Len(requests) \in Nat /\ DOMAIN requests = 1 .. Len(requests)
    BY DEF ApprovalsInv, ApprovalsTypeOK, Tally
  <2> HIDE DEF change, t
  <2>5. /\ requests' \in Seq(Change) /\ Len(requests') = Len(requests) + 1
        /\ \A i \in 1 .. Len(requests) : requests'[i] = requests[i]
        /\ requests'[Len(requests) + 1] = change
    BY <1>5, <2>1, <2>4, AppendProperties
  <2>6. /\ tally' \in Seq(Tally) /\ Len(tally') = Len(requests) + 1
        /\ \A i \in 1 .. Len(requests) : tally'[i] = tally[i]
        /\ tally'[Len(requests) + 1] = t
    BY <1>5, <2>2, <2>4, AppendProperties
  <2>7. DOMAIN requests' = 1 .. (Len(requests) + 1) /\ requests' # <<>>
    BY <2>4, <2>5
  <2>8. /\ reviews' = [reviews EXCEPT ![c] = NoReview] /\ reviews \in [Reviews -> Review]
        /\ UNCHANGED <<holders, asked>>
    BY <1>1 DEF Closes, ApprovalsInv, ApprovalsTypeOK
  <2>9. reviews' \in [Reviews -> Review] /\ reviews'[c] = NoReview
        /\ \A d \in Reviews \ {c} : reviews'[d] = reviews[d]
    BY <2>8, NoReviewIsReview
  <2>10. ASSUME NEW d \in Reviews
         PROVE  /\ reviews'[d].request \in 0 .. Len(requests')
                /\ ReviewOK(reviews'[d], requests', policy.steps, edited)
    <3>1. CASE d = c
      BY <2>4, <2>5, <2>9, <3>1, NoReviewIsReview
    <3>2. CASE d # c
      <4>1. /\ reviews'[d] = reviews[d] /\ reviews[d].request \in 0 .. Len(requests)
            /\ ReviewOK(reviews[d], requests, policy.steps, edited)
        BY <2>9, <3>2 DEF ApprovalsInv, ApprovalsTypeOK, ReviewsOK
      <4>2. CASE reviews[d].op \in {"approve", "reject", "cancel"}
        <5>1. /\ reviews[d].request \in DOMAIN requests
              /\ requests'[reviews[d].request] = requests[reviews[d].request]
          BY <2>4, <2>5, <4>1, <4>2 DEF ReviewOK
        <5>2. reviews[d].request \in DOMAIN requests' /\ reviews[d].request \in 0 .. Len(requests')
          BY <2>4, <2>5, <2>7, <5>1
        <5> QED BY <4>1, <5>1, <5>2 DEF ReviewOK
      <4>3. CASE reviews[d].op \notin {"approve", "reject", "cancel"}
        BY <2>4, <2>5, <4>1, <4>3 DEF ReviewOK
      <4> QED BY <4>2, <4>3
    <3> QED BY <3>1, <3>2
  <2>11. ApprovalsTypeOK'
    <3>1. edited' \subseteq DOMAIN requests'
      BY <1>1, <2>4, <2>7 DEF ApprovalsInv, ApprovalsTypeOK
    <3>2. \A d \in Reviews : reviews'[d].request \in 0 .. Len(requests')
      BY <2>10
    <3>3. tally' \in Seq(Tally) /\ Len(tally') = Len(requests')
      BY <2>5, <2>6
    <3> QED BY <1>1, <2>5, <2>8, <2>9, <3>1, <3>2, <3>3 DEF ApprovalsInv, ApprovalsTypeOK, Tally
  <2>12. ReviewsOK'
    BY <1>1, <2>10 DEF ReviewsOK
  <2>13. RowsLocked'
    BY <2>9, NoReviewIsReview DEF ApprovalsInv, RowsLocked
  <2>14. \A i \in DOMAIN requests' :
           \/ i \in DOMAIN requests /\ requests'[i] = requests[i] /\ tally'[i] = tally[i]
           \/ requests'[i] = change /\ tally'[i] = t
    BY <2>4, <2>5, <2>6, <2>7
  <2>15. AllCounted'
    BY <2>3, <2>14 DEF ApprovalsInv, AllCounted
  <2>16. AllWait'
    <3>1. policy.steps \in Seq(Step)
      BY <1>2 DEF Policy
    <3> QED BY <1>1, <2>3, <2>14, <3>1 DEF ApprovalsInv, AllWait
  <2>17. PolicyStays'
    BY <1>1, <1>5 DEF PolicyStays
  <2> QED BY <1>3, <2>11, <2>12, <2>13, <2>15, <2>16, <2>17 DEF ApprovalsInv
<1> QED BY <1>1, <1>4, <1>5

LEMMA RowFacts ==
  ASSUME ApprovalsInv, NEW r \in DOMAIN requests
  PROVE  /\ requests[r] \in Change /\ tally[r] \in Tally /\ r \in DOMAIN tally
         /\ RequestCounted(requests[r], tally[r])
         /\ tally = [tally EXCEPT ![r] = tally[r]]
<1>1. /\ requests \in Seq(Change) /\ tally \in Seq(Tally) /\ Len(tally) = Len(requests)
  BY DEF ApprovalsInv, ApprovalsTypeOK, Tally
<1>2. DOMAIN requests = 1 .. Len(requests) /\ DOMAIN tally = 1 .. Len(requests)
  BY <1>1
<1>3. requests[r] \in Change /\ tally[r] \in Tally
  BY <1>1, <1>2, ElementOfSeq
<1> QED BY <1>1, <1>2, <1>3 DEF ApprovalsInv, AllCounted

LEMMA CommitRefusalKeeps ==
  ASSUME ApprovalsInv, NEW c \in Reviews, CommitRefusal(c)
  PROVE  ApprovalsInv'
<1> DEFINE q == reviews[c]
           r == q.request
<1>1. /\ q.op \in {"reject", "cancel"} /\ Closes(c)
      /\ UNCHANGED <<policy, versions, tally, edited>>
  BY DEF CommitRefusal
<1>2. /\ r \in DOMAIN requests /\ requests[r].status = "pending" /\ requests[r] \in Change
      /\ tally[r] \in Tally /\ r \in DOMAIN tally
      /\ versions \subseteq Nat \ {0} /\ RequestCounted(requests[r], tally[r])
  <2>1. r \in DOMAIN requests /\ requests[r].status = "pending"
    BY <1>1 DEF ApprovalsInv, ReviewsOK, ReviewOK
  <2> QED BY <2>1, RowFacts DEF ApprovalsInv, ApprovalsTypeOK
<1>3. PICK status \in {"rejected", "cancelled"} :
        requests' = [requests EXCEPT ![r].status = status]
  BY DEF CommitRefusal
<1> DEFINE change == [requests[r] EXCEPT !.status = status]
<1>4. /\ change \in Change /\ change.status = status /\ change.step = requests[r].step
      /\ change.approvals = requests[r].approvals
  BY <1>2 DEF Change
<1>5. requests' = [requests EXCEPT ![r] = change] /\ tally' = [tally EXCEPT ![r] = tally[r]]
  <2>1. tally = [tally EXCEPT ![r] = tally[r]]
    BY <1>2, RowFacts
  <2> QED BY <1>1, <1>3, <2>1
<1> HIDE DEF change
<1>6. RequestCounted(change, tally[r])
  BY <1>2, <1>4 DEF RequestCounted, EventsOK, ApproversOf, ApprovalsOf
<1>7. VersionsBounded'
  BY <1>1 DEF ApprovalsInv, VersionsBounded
<1>8. change.status # "pending" /\ versions' \subseteq Nat \ {0}
  BY <1>1, <1>2, <1>4
<1> HIDE DEF r
<1>9. reviews[c].request = r
  BY DEF r
<1> QED BY <1>1, <1>2, <1>4, <1>5, <1>6, <1>7, <1>8, <1>9, RowReplaced

-----------------------------------------------------------------------------
(* One approval more, with which the step is not complete. *)
LEMMA StillWaits ==
  ASSUME NEW change \in Change, NEW t \in Tally, RequestCounted(change, t), change.status = "pending",
         NEW p \in Persons, p \notin ApproversOf(change, change.step),
         NEW next, next = [change EXCEPT !.approvals =
                             Append(change.approvals, [actor |-> p, step |-> change.step])],
         NEW plan, change.step < Len(plan), plan[change.step + 1].need \in Nat,
         ~(Cardinality(ApprovalsOf(next, change.step)) >= plan[change.step + 1].need)
  PROVE  next \in Change /\ RequestCounted(next, t) /\ Waits(next, plan)
<1>1. /\ next \in Change /\ EventsOK(next)
      /\ next.step = change.step /\ next.status = change.status
      /\ \A s \in Int : s # change.step => ApproversOf(next, s) = ApproversOf(change, s)
  BY EventAdded DEF RequestCounted
<1>2. t.needs \in Seq(Nat) /\ Len(t.needs) = change.step /\ change.step \in Nat
      /\ DOMAIN t.needs = 1 .. change.step
  BY DEF Tally, RequestCounted, Change
<1>3. ASSUME NEW s \in DOMAIN t.needs
      PROVE  Cardinality(ApproversOf(next, s - 1)) >= t.needs[s]
  <2>1. s - 1 \in Int /\ s - 1 # change.step
    BY <1>2
  <2>2. ApproversOf(next, s - 1) = ApproversOf(change, s - 1)
    BY <1>1, <2>1
  <2> QED BY <2>2 DEF RequestCounted
<1>4. RequestCounted(next, t)
  BY <1>1, <1>2, <1>3 DEF RequestCounted
<1>5. /\ Cardinality(ApproversOf(next, change.step)) =< Cardinality(ApprovalsOf(next, change.step))
      /\ Cardinality(ApproversOf(next, change.step)) \in Nat
      /\ Cardinality(ApprovalsOf(next, change.step)) \in Nat
  BY <1>1, ApprovalsFinite
<1>6. Waits(next, plan)
  BY <1>1, <1>5 DEF Waits
<1> QED BY <1>1, <1>4, <1>6

(* What the commit writes when a step is complete. *)
Completes(change, t, p, need, next, moved, passed) ==
  /\ next = [change EXCEPT !.approvals =
                Append(change.approvals, [actor |-> p, step |-> change.step])]
  /\ moved = [next EXCEPT !.step = change.step + 1]
  /\ passed = [t EXCEPT !.needs = Append(t.needs, need)]

(* The one that completes it: the step is counted, the next one has none. *)
LEMMA StepPassed ==
  ASSUME NEW change \in Change, NEW t \in Tally, RequestCounted(change, t), change.status = "pending",
         NEW p \in Persons, p \notin ApproversOf(change, change.step),
         NEW next, NEW need \in Nat, Cardinality(ApprovalsOf(next, change.step)) >= need,
         NEW moved, NEW passed, Completes(change, t, p, need, next, moved, passed)
  PROVE  /\ moved \in Change /\ moved.step = change.step + 1 /\ moved.status = "pending"
         /\ passed \in Tally /\ passed.applied = 0
         /\ EventsOK(moved) /\ Len(passed.needs) = moved.step
         /\ \A s \in DOMAIN passed.needs :
              Cardinality(ApproversOf(moved, s - 1)) >= passed.needs[s]
         /\ ApproversOf(moved, moved.step) = {}
<1>1. /\ next \in Change /\ EventsOK(next)
      /\ next.step = change.step /\ next.status = change.status
      /\ \A s \in Int : s # change.step => ApproversOf(next, s) = ApproversOf(change, s)
  BY EventAdded DEF RequestCounted, Completes
<1>2. t.needs \in Seq(Nat) /\ Len(t.needs) = change.step /\ change.step \in Nat
      /\ DOMAIN t.needs = 1 .. change.step /\ t.applied = 0
  BY DEF Tally, RequestCounted, Change
<1>3. /\ moved \in Change /\ moved.step = change.step + 1 /\ moved.status = "pending"
      /\ moved.approvals = next.approvals
  <2>1. change.step + 1 \in Nat
    BY <1>2
  <2> QED BY <1>1, <2>1 DEF Change, Completes
<1> DEFINE needs == Append(t.needs, need)
<1>4. /\ needs \in Seq(Nat) /\ Len(needs) = change.step + 1
      /\ \A i \in 1 .. change.step : needs[i] = t.needs[i]
      /\ needs[change.step + 1] = need
  BY <1>2, AppendProperties
<1>5. passed = [t EXCEPT !.needs = needs]
  BY DEF Completes
<1> HIDE DEF needs
<1>6. passed \in Tally /\ passed.applied = 0 /\ passed.needs = needs
  BY <1>2, <1>4, <1>5 DEF Tally
<1>7. \A i \in DOMAIN next.approvals : /\ next.approvals[i].step \in Nat
                                       /\ next.approvals[i].step =< change.step
  <2> SUFFICES ASSUME NEW i \in DOMAIN next.approvals
               PROVE  /\ next.approvals[i].step \in Nat
                      /\ next.approvals[i].step =< change.step
    OBVIOUS
  <2>1. next.approvals \in Seq([actor: Persons, step: Nat])
    BY <1>1 DEF Change
  <2>2. i \in 1 .. Len(next.approvals)
    BY <2>1
  <2>3. next.approvals[i] \in [actor: Persons, step: Nat]
    BY <2>1, <2>2, ElementOfSeq
  <2> QED BY <1>1, <2>3 DEF EventsOK
<1>8. EventsOK(moved)
  <2>1. ASSUME NEW i \in DOMAIN moved.approvals PROVE moved.approvals[i].step =< moved.step
    BY <1>2, <1>3, <1>7
  <2>2. \A i, j \in DOMAIN moved.approvals :
          moved.approvals[i] = moved.approvals[j] => i = j
    BY <1>1, <1>3 DEF EventsOK
  <2> QED BY <2>1, <2>2 DEF EventsOK
<1>9. \A s : ApproversOf(moved, s) = ApproversOf(next, s)
  BY <1>3 DEF ApproversOf, ApprovalsOf
<1>10. ApproversOf(moved, moved.step) = {}
  <2>1. ApprovalsOf(moved, moved.step) = {}
    BY <1>2, <1>3, <1>7 DEF ApprovalsOf
  <2> QED BY <2>1 DEF ApproversOf
<1>11. ASSUME NEW s \in DOMAIN needs PROVE Cardinality(ApproversOf(moved, s - 1)) >= needs[s]
  <2>1. s \in 1 .. (change.step + 1)
    BY <1>2, <1>4
  <2>2. CASE s = change.step + 1
    <3>1. s - 1 = change.step
      BY <1>2, <2>2
    <3>2. Cardinality(ApproversOf(next, change.step)) = Cardinality(ApprovalsOf(next, change.step))
      BY <1>1, ApprovalsCount
    <3> QED BY <1>4, <1>9, <2>2, <3>1, <3>2
  <2>3. CASE s # change.step + 1
    <3>1. s \in 1 .. change.step /\ s - 1 \in Int /\ s - 1 # change.step
      BY <1>2, <2>1, <2>3
    <3>2. ApproversOf(moved, s - 1) = ApproversOf(change, s - 1)
      BY <1>1, <1>9, <3>1
    <3>3. Cardinality(ApproversOf(change, s - 1)) >= t.needs[s]
      BY <1>2, <3>1 DEF RequestCounted
    <3> QED BY <1>4, <3>1, <3>2, <3>3
  <2> QED BY <2>2, <2>3
<1> QED BY <1>3, <1>4, <1>6, <1>8, <1>10, <1>11

LEMMA CommitApproveKeeps ==
  ASSUME ApprovalsInv, NEW c \in Reviews, CommitApprove(c)
  PROVE  ApprovalsInv'
<1> DEFINE q == reviews[c]
           r == q.request
           old == requests[r]
           need == q.steps[q.step + 1].need
           change == [requests[r] EXCEPT
                        !.approvals = Append(@, [actor |-> q.actor, step |-> q.step])]
           moved == [change EXCEPT !.step = q.step + 1]
           passed == [tally[r] EXCEPT !.needs = Append(@, need)]
<1>1. /\ q.op = "approve" /\ Closes(c) /\ UNCHANGED <<policy, edited>> /\ q \in Review
      /\ ReviewOK(q, requests, policy.steps, edited)
  BY DEF CommitApprove, ApprovalsInv, ApprovalsTypeOK, ReviewsOK
<1>2. /\ r \in DOMAIN requests /\ old.status = "pending" /\ q.actor \in Persons
      /\ q.step = old.step /\ q.step < Len(q.steps)
      /\ q.actor \notin ApproversOf(old, q.step)
      /\ r \notin edited => q.steps = policy.steps
  BY <1>1 DEF ReviewOK
<1>3. /\ old \in Change /\ tally[r] \in Tally /\ r \in DOMAIN tally
      /\ versions \subseteq Nat \ {0} /\ RequestCounted(old, tally[r])
  BY <1>2, RowFacts DEF ApprovalsInv, ApprovalsTypeOK
<1>4. need \in Nat /\ need # 0 /\ q.step \in Nat /\ q.latest \in Nat
  <2>1. q.steps \in Seq(Step) /\ q.step \in Nat /\ q.latest \in Nat
    BY <1>1 DEF Review
  <2>2. q.step + 1 \in 1 .. Len(q.steps)
    BY <1>2, <2>1
  <2>3. q.steps[q.step + 1] \in Step
    BY <2>1, <2>2, ElementOfSeq
  <2> QED BY <2>1, <2>3 DEF Step
<1>5. VersionsBounded
  BY DEF ApprovalsInv
<1>6. change = [old EXCEPT !.approvals =
                  Append(old.approvals, [actor |-> q.actor, step |-> old.step])]
  BY <1>2
<1>7. /\ moved = [change EXCEPT !.step = old.step + 1]
      /\ passed = [tally[r] EXCEPT !.needs = Append(tally[r].needs, need)]
  BY <1>2
<1>8. \/ /\ ~(Cardinality(ApprovalsOf(change, q.step)) >= need)
         /\ requests' = [requests EXCEPT ![r] = change]
         /\ UNCHANGED <<versions, tally>>
      \/ /\ Cardinality(ApprovalsOf(change, q.step)) >= need /\ ~(moved.step >= Len(q.steps))
         /\ requests' = [requests EXCEPT ![r] = moved]
         /\ tally' = [tally EXCEPT ![r] = passed]
         /\ UNCHANGED versions
      \/ /\ Cardinality(ApprovalsOf(change, q.step)) >= need /\ moved.step >= Len(q.steps)
         /\ Applies(q.operation, q.latest)
         /\ requests' = [requests EXCEPT ![r] = [moved EXCEPT !.status = "approved"]]
         /\ tally' = [tally EXCEPT ![r] = [passed EXCEPT !.applied = passed.applied + 1]]
      \/ UNCHANGED <<requests, versions, tally>>
  BY DEF CommitApprove, Enough
<1>9. reviews[c].request = r /\ reviews[c].step = q.step
  OBVIOUS
<1> HIDE DEF change, moved, passed, need, r
<1>10. CASE UNCHANGED <<requests, versions, tally>>
  <2>1. policy' \in Policy /\ policy'.steps = policy.steps /\ PolicyStays'
        /\ versions' \subseteq Nat \ {0} /\ VersionsBounded'
    BY <1>1, <1>3, <1>10 DEF ApprovalsInv, ApprovalsTypeOK, PolicyStays, VersionsBounded
  <2> QED BY <1>1, <1>10, <2>1, ClosesKeeps
<1>11. CASE /\ ~(Cardinality(ApprovalsOf(change, q.step)) >= need)
            /\ requests' = [requests EXCEPT ![r] = change]
            /\ UNCHANGED <<versions, tally>>
  <2>1. change \in Change /\ RequestCounted(change, tally[r]) /\ Waits(change, q.steps)
    BY <1>2, <1>3, <1>4, <1>6, <1>11, StillWaits DEF need
  <2>2. tally' = [tally EXCEPT ![r] = tally[r]]
    BY <1>2, <1>11, RowFacts
  <2>3. versions' \subseteq Nat \ {0} /\ VersionsBounded'
    BY <1>3, <1>5, <1>11 DEF VersionsBounded
  <2>4. r \notin edited => Waits(change, policy.steps)
    BY <1>2, <2>1
  <2> QED BY <1>1, <1>2, <1>3, <1>9, <1>11, <2>1, <2>2, <2>3, <2>4, RowReplaced
<1>12. ASSUME Cardinality(ApprovalsOf(change, q.step)) >= need
       PROVE  /\ moved \in Change /\ moved.step = old.step + 1 /\ moved.status = "pending"
              /\ passed \in Tally /\ passed.applied = 0
              /\ EventsOK(moved) /\ Len(passed.needs) = moved.step
              /\ \A s \in DOMAIN passed.needs :
                   Cardinality(ApproversOf(moved, s - 1)) >= passed.needs[s]
              /\ ApproversOf(moved, moved.step) = {}
  <2>1. q.step = old.step /\ q.actor \notin ApproversOf(old, old.step)
        /\ Cardinality(ApprovalsOf(change, old.step)) >= need
    BY <1>2, <1>12
  <2>2. /\ old \in Change /\ tally[r] \in Tally /\ RequestCounted(old, tally[r])
        /\ old.status = "pending" /\ q.actor \in Persons /\ need \in Nat
    BY <1>2, <1>3, <1>4
  <2> HIDE DEF old, q
  <2> DEFINE p == q.actor
             t == tally[r]
  <2>3. /\ p \in Persons /\ p \notin ApproversOf(old, old.step)
        /\ t \in Tally /\ RequestCounted(old, t)
        /\ Completes(old, t, p, need, change, moved, passed)
    BY <1>6, <1>7, <2>1, <2>2 DEF Completes
  <2> HIDE DEF p, t
  <2> QED BY <2>1, <2>2, <2>3, StepPassed
<1>13. CASE /\ Cardinality(ApprovalsOf(change, q.step)) >= need /\ ~(moved.step >= Len(q.steps))
            /\ requests' = [requests EXCEPT ![r] = moved]
            /\ tally' = [tally EXCEPT ![r] = passed]
            /\ UNCHANGED versions
  <2>1. /\ moved \in Change /\ moved.step = q.step + 1 /\ moved.status = "pending"
        /\ passed \in Tally /\ ApproversOf(moved, moved.step) = {}
        /\ RequestCounted(moved, passed)
    BY <1>2, <1>12, <1>13 DEF RequestCounted
  <2>2. Waits(moved, q.steps)
    <3>0. q.steps \in Seq(Step)
      BY <1>1 DEF Review
    <3>1. q.steps \in Seq(Step) /\ Len(q.steps) \in Nat
      BY <3>0
    <3>2. moved.step + 1 \in 1 .. Len(q.steps)
      BY <1>4, <1>13, <2>1, <3>1
    <3>3. q.steps[moved.step + 1] \in Step
      BY <3>1, <3>2, ElementOfSeq
    <3>4. q.steps[moved.step + 1].need \in Nat \ {0}
      BY <3>3 DEF Step
    <3>5. Cardinality(ApproversOf(moved, moved.step)) = 0
      BY <2>1, FS_EmptySet
    <3>6. moved.step < Len(q.steps) /\ 0 < q.steps[moved.step + 1].need
      BY <1>4, <2>1, <3>1, <3>2, <3>4
    <3> QED BY <3>5, <3>6 DEF Waits
  <2>3. versions' \subseteq Nat \ {0} /\ VersionsBounded'
    BY <1>3, <1>5, <1>13 DEF VersionsBounded
  <2>4. r \notin edited => Waits(moved, policy.steps)
    BY <1>2, <2>2
  <2> QED BY <1>1, <1>2, <1>9, <1>13, <2>1, <2>3, <2>4, RowReplaced
<1>14. CASE /\ Cardinality(ApprovalsOf(change, q.step)) >= need /\ moved.step >= Len(q.steps)
            /\ Applies(q.operation, q.latest)
            /\ requests' = [requests EXCEPT ![r] = [moved EXCEPT !.status = "approved"]]
            /\ tally' = [tally EXCEPT ![r] = [passed EXCEPT !.applied = passed.applied + 1]]
  <2> DEFINE done == [moved EXCEPT !.status = "approved"]
             t == [passed EXCEPT !.applied = passed.applied + 1]
  <2>1. /\ moved \in Change /\ passed \in Tally /\ passed.applied = 0
        /\ EventsOK(moved) /\ Len(passed.needs) = moved.step
        /\ \A s \in DOMAIN passed.needs :
             Cardinality(ApproversOf(moved, s - 1)) >= passed.needs[s]
    BY <1>12, <1>14
  <2>2. /\ done \in Change /\ done.status = "approved" /\ done.step = moved.step
        /\ done.approvals = moved.approvals
    BY <2>1 DEF Change
  <2>3. t \in Tally /\ t.applied = 1 /\ t.needs = passed.needs
    BY <2>1 DEF Tally
  <2>4. requests' = [requests EXCEPT ![r] = done] /\ tally' = [tally EXCEPT ![r] = t]
    BY <1>14
  <2> HIDE DEF done, t
  <2>5. RequestCounted(done, t)
    <3>1. EventsOK(done)
      BY <2>1, <2>2 DEF EventsOK
    <3>2. \A s : ApproversOf(done, s) = ApproversOf(moved, s)
      BY <2>2 DEF ApproversOf, ApprovalsOf
    <3> QED BY <2>1, <2>2, <2>3, <3>1, <3>2 DEF RequestCounted
  <2>6. versions' \subseteq Nat \ {0} /\ VersionsBounded'
    BY <1>4, <1>14, AppliesBounded DEF ApprovalsInv
  <2>7. done.status # "pending"
    BY <2>2
  <2> QED BY <1>1, <1>2, <1>9, <2>2, <2>3, <2>4, <2>5, <2>6, <2>7, RowReplaced
<1> QED BY <1>8, <1>10, <1>11, <1>13, <1>14

-----------------------------------------------------------------------------
LEMMA ApprovalsNextKeeps ==
  ASSUME ApprovalsInv, [ApprovalsNext]_approvalVars
  PROVE  ApprovalsInv'
<1>1. CASE UNCHANGED approvalVars
  BY <1>1 DEF approvalVars, ApprovalsInv, ApprovalsTypeOK, VersionsBounded, PolicyStays, ReviewsOK,
     RowsLocked, AllCounted, AllWait
<1>2. CASE PolicyChanges
  BY <1>2, PolicyChangesKeep
<1>3. ASSUME NEW c \in Reviews, ReviewBegins(c) PROVE ApprovalsInv'
  BY <1>3, BeginsKeep
<1>4. ASSUME NEW c \in Reviews, ReviewCommits(c) PROVE ApprovalsInv'
  BY <1>4, CommitDeleteKeeps, CommitDirectKeeps, CommitProposeKeeps, CommitRefusalKeeps,
     CommitApproveKeeps DEF ReviewCommits
<1> QED BY <1>1, <1>2, <1>3, <1>4 DEF ApprovalsNext

LEMMA ApprovalsInitInv == ApprovalsInit => ApprovalsInv
<1> SUFFICES ASSUME ApprovalsInit PROVE ApprovalsInv
  OBVIOUS
<1>1. PICK plan \in Plans, actions \in Scopes, prevent \in BOOLEAN :
        policy = [id |-> 1, exists |-> TRUE, actions |-> actions, steps |-> plan,
                  prevent |-> prevent]
  BY DEF ApprovalsInit
<1>2. policy \in Policy /\ policy.exists
  BY <1>1, PlansAssumption, ScopesAssumption DEF Policy
<1>3. /\ requests = <<>> /\ tally = <<>> /\ edited = {} /\ asked = 0
      /\ reviews = [c \in Reviews |-> NoReview] /\ versions \in {{}, {1}}
      /\ holders \subseteq Persons
  BY DEF ApprovalsInit
<1>4. VersionsBounded
  BY <1>3 DEF VersionsBounded
<1>5. ApprovalsTypeOK
  BY <1>2, <1>3, NoReviewIsReview DEF ApprovalsTypeOK
<1>6. ReviewsOK /\ RowsLocked
  BY <1>3, NoReviewIsReview DEF ReviewsOK, RowsLocked
<1>7. AllCounted /\ AllWait /\ PolicyStays
  BY <1>2, <1>3 DEF AllCounted, AllWait, PolicyStays
<1> QED BY <1>4, <1>5, <1>6, <1>7 DEF ApprovalsInv

LEMMA ApprovalsInvariant == ApprovalsSpec => []ApprovalsInv
BY ApprovalsInitInv, ApprovalsNextKeeps, PTL DEF ApprovalsSpec

(* Policies, requests, events and the calls in progress hold what their       *)
(* columns hold, and a decision names a request that exists.                  *)
THEOREM ApprovalsTypeCorrect == ApprovalsSpec => []ApprovalsTypeOK
<1>1. ApprovalsInv => ApprovalsTypeOK
  BY DEF ApprovalsInv
<1> QED BY <1>1, ApprovalsInvariant, PTL

(* The row lock of act_on_approval_request makes a decision atomic: a change  *)
(* is applied once, by the approval with which its request ends approved, and *)
(* never for a request that was rejected or cancelled.                        *)
THEOREM AppliedOnlyIfApproved == ApprovalsSpec => []AppliedIfApproved
<1>1. ApprovalsInv => AppliedIfApproved
  BY DEF ApprovalsInv, AllCounted, RequestCounted, AppliedIfApproved
<1> QED BY <1>1, ApprovalsInvariant, PTL

(* Every step that a request has passed had as many approvers, each another   *)
(* person, as it needed; the step it waits at has fewer, so that no request   *)
(* stays behind an approval that completes its step.                          *)
THEOREM StepsCounted == ApprovalsSpec => []StepsAreCounted
<1>1. ApprovalsInv => StepsAreCounted
  BY DEF ApprovalsInv, AllCounted, RequestCounted, AllWait, Waits, StepsAreCounted, IsPending
<1> QED BY <1>1, ApprovalsInvariant, PTL

=============================================================================
