----------------------------- MODULE MCRecovery -----------------------------
(* The instances TLC checks: a few windows, two pieces of work, one file.      *)
EXTENDS Recovery, TLC

CONSTANTS w1, w2, w3, w4, a, b, file1

MCWindows == {w1, w2, w3, w4}
MCWork == {a, b}
MCPaths == {file1}

\* No action and no property tells windows, or pieces of work, apart.
Symmetric == Permutations(MCWindows) \cup Permutations(MCWork)
=============================================================================
