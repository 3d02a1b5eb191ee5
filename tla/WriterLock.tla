------------------------------ MODULE WriterLock ------------------------------
(***************************************************************************)
(* What a writer lease of one worktree promises: at most one session of    *)
(* the machine may write there at a time, the right to write passes from   *)
(* one session to the next only through a moment in which nobody has it,   *)
(* and a session that gave it up (or whose extension host died) does not   *)
(* get it back under the same token.                                       *)
(***************************************************************************)
CONSTANT Attempts          \* acquisition attempts, each with its own token

VARIABLES holders,         \* the attempts that may write now
          granted          \* the attempts that ever got the right to write

lockVars == <<holders, granted>>

LockInit == holders = {} /\ granted = {}

Grant(a) ==
  /\ holders = {}
  /\ a \notin granted
  /\ holders' = {a}
  /\ granted' = granted \cup {a}

\* The session closes, or the process that owns it dies.
Vacate ==
  /\ holders # {}
  /\ holders' = {}
  /\ UNCHANGED granted

LockNext == (\E a \in Attempts : Grant(a)) \/ Vacate

LockSpec == LockInit /\ [][LockNext]_lockVars

===============================================================================
