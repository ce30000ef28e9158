---------------------------- MODULE MCSecretStore ----------------------------
(* Small instances of SecretStore for TLC. *)
EXTENDS SecretStore, TLC

CONSTANTS w1, w2, w3, v1, v2, noAge

TwoWorkers == {w1, w2}
ThreeWorkers == {w1, w2, w3}
OneKey == {1}
TwoKeys == {1, 2}
TwoValues == {v1, v2}
OneValue == {v1}

(* Keep one version, keep two, keep many, or archive old ones by age. *)
CountAndAge == {[versions |-> 1, age |-> noAge], [versions |-> 100, age |-> 0]}
KeepOne == {[versions |-> 1, age |-> noAge]}
KeepTwo == {[versions |-> 2, age |-> noAge]}
KeepMany == {[versions |-> 100, age |-> noAge]}

Symmetry == Permutations(Workers) \cup Permutations(Values)

=============================================================================
