------------------------------ MODULE MCCliAuth ------------------------------
(* Small instances of the CLI's device login. *)
EXTENDS CliAuth, TLC

CONSTANTS l1, l2, c1, c2, w1, w2

OneLogin == {l1}
TwoLogins == {l1, l2}
TwoClis == {c1, c2}
TwoBrowsers == {w1, w2}

(* Logins, processes and requests are told apart by nothing. *)
Symmetry == Permutations(Logins) \cup Permutations(Clis) \cup Permutations(Browsers)

=============================================================================
