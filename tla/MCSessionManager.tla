---------------------------- MODULE MCSessionManager ----------------------------
(* Small instances of SessionManager for TLC. *)
EXTENDS SessionManager

CONSTANTS c1, c2, l1, l2

AllChats == {c1, c2, l1, l2}
AllLoops == {l1, l2}
ChatAndLoop == {c2, l1}
OneChat == {c1}
OtherChat == {c2}

===============================================================================
