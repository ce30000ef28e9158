----------------------------- MODULE MCControlPlane -----------------------------
(* Two requests at a time, two users besides the owner, two keys, two roles. *)
EXTENDS ControlPlane, TLC

CONSTANTS c1, c2, u1, u2, k1, k2, t1, t2, a1, r1, r2

TwoRequests == {c1, c2}
TwoUsers == {u1, u2}
Three == {u1, u2, Owner}

SomeOffers == {{}, {"team", "audit"}}
Manager == {"team", "tokens"}
SomeFounders == [Users -> {NotMember, Manager}] \ {[u \in Users |-> Manager]}

By(users, role, need) == [users |-> users, role |-> role, need |-> need]
SomePlans == {<<By({}, TRUE, 1)>>, <<By({}, TRUE, 1), By(Three, FALSE, 2)>>}
SomeScopes == {{"create", "update"}}

TwoRoles == {r1, r2}

TwoKeys == {k1, k2}
SomePlaces == {<<"env", "_">>, <<"env", "a">>, <<"env", "a", "b">>}
SomeLikes == {<<<<"env", p>>, <<"env", "a", "b">>>> : p \in {"_", "a"}}
SomeValues == {{}, {k1}, {k2}}

SomePaths == {<<>>, <<"a">>}
Allow(action, environment, path) ==
  [action |-> action, environment |-> environment, path |-> path, recursive |-> TRUE, effect |-> "allow"]
Deny(action, environment, path) ==
  [action |-> action, environment |-> environment, path |-> path, recursive |-> FALSE, effect |-> "deny"]
SomeLists ==
  {{}, {Allow("read", "env", <<>>)}, {Allow("*", Unset, Unset), Deny("read", "env", <<"a">>)}}

SplitSecret == <<0, 1, 0>>
Redaction == <<2, 1, 2>>

Symmetry ==
  Permutations(TwoRequests) \cup Permutations(TwoUsers) \cup Permutations(TwoRoles)
  \cup Permutations(TwoKeys)
=============================================================================
