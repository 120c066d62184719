-------------------------- MODULE MCRestoreJournal --------------------------
(* Small instances of RestoreJournal for TLC. *)
EXTENDS RestoreJournal

CONSTANTS file, edit, tree

OneForced == {1}

TreeLike == {file, tree}
TreeOnly == {tree}
=============================================================================
