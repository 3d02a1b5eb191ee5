-------------------------- MODULE MCEphemeralWorktree --------------------------
(* Small instances of EphemeralWorktree for TLC. *)
EXTENDS EphemeralWorktree

CONSTANTS p1, p2, w1, w2

OnePrompt == {p1}
TwoPrompts == {p1, p2}
OneWindow == {w1}
TwoWindows == {w1, w2}

===============================================================================
