--------------------------- MODULE MCLiveSession ---------------------------
(* LiveSession for TLC: editor 1 shares, editor 2 joins. *)
EXTENDS LiveSession

NoEdits == {}
JoinersFirst == {<<2, 0>>}

\* Two edits, an edit and a save, or two saves, and a merge on top; a resync
\* with the first and the last.
Mixed == {<<2, 1, 1>>, <<1, 2, 0>>, <<0, 3, 1>>}
\* Two edits and a save.
EditsAndSave == {<<2, 2, 0>>}
=============================================================================
