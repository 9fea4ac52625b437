---------------------------- MODULE MCSharedUndo ----------------------------
(* SharedUndo for TLC: two paragraphs of one character each, the first with a
   style of its own. *)
EXTENDS SharedUndo

TwoParagraphs == <<Atom(0, TRUE, 1), Atom(1, FALSE, 0), Atom(2, TRUE, 0), Atom(3, FALSE, 0)>>
=============================================================================
