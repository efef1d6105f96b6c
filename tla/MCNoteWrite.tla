---------------------------- MODULE MCNoteWrite ----------------------------
(* NoteWrite for TLC: clients are alike, and so are the watcher's workers. *)
EXTENDS NoteWrite, TLC

CONSTANTS c1, c2, w1, w2

Alike == Permutations({c1, c2}) \cup Permutations({w1, w2})
=============================================================================
