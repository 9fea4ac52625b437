------------------------------ MODULE MCEpochs ------------------------------
(* Epochs for TLC: a shares the document with a second owner, b; c comes and   *)
(* goes.                                                                      *)
EXTENDS Epochs

CONSTANTS a, b, c, root, genesis, edit

MCPeople == <<<<b, "owner">>>>
MCChanges == {<<c, "editor">>, <<b, "none">>}
MCAuthor == [i \in Items |-> IF i = edit THEN b ELSE a]
MCKind == [i \in Items |-> IF i = root THEN "log" ELSE "upd"]
=============================================================================
