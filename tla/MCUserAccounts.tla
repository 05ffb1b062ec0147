--------------------------- MODULE MCUserAccounts ---------------------------
(* Instances of UserAccounts for TLC. *)
EXTENDS UserAccounts, TLC

CONSTANTS u1, u2, u3, n1, n2, s1, s2, b1, b2

ThreeUsers == {u1, u2, u3}
TwoNames == {n1, n2}
TwoSessions == {s1, s2}
TwoBrowsers == {b1, b2}

(* Ids, names and session ids are only compared; safety runs only. *)
Symmetry == Permutations(Users) \cup Permutations(Names)
            \cup Permutations(Sessions) \cup Permutations(Browsers)
=============================================================================
