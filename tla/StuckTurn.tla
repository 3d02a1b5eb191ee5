------------------------------- MODULE StuckTurn -------------------------------
(***************************************************************************)
(* The watchdog of a turn that does not end although its answer is         *)
(* complete: observeTurnWatchdog, recoverStuckTurn and clearTurnWatchdog   *)
(* of rpc/RpcSessionHost.ts, with the requests of rpc/RpcProcess.ts.       *)
(*                                                                         *)
(* OMP is external: it begins turns for prompts or by itself, writes to    *)
(* the host as they go on, and may never end one, nor heed an abort.       *)
(* The host handles one or more frames in a row before the code that       *)
(* awaits an answer goes on.                                               *)
(***************************************************************************)
EXTENDS Integers, Sequences

CONSTANTS MaxTurns,      \* bound on turns
          MaxPipe,       \* bound on frames under way to the host
          MaxRequests,   \* bound on requests of the recovery
          MaxRestarts    \* bound on restarts of the chat

ASSUME TurnAssumption ==
  /\ MaxTurns \in Nat /\ MaxPipe \in Nat /\ MaxRequests \in Nat /\ MaxRestarts \in Nat

VARIABLES
  alive, turn, phase, \* OMP: whether it runs, its last turn and how far that is
  inbox,              \* requests OMP has not read
  pipe,               \* frames the host has not handled
  more,               \* the data event has further frames
  streaming, answered, quiet, \* #streaming, #terminalAnswerPending, #turnWatchdog runs
  recovering,              \* what recoverStuckTurn awaits; "none" without #watchdogRecovering
  openId, requests,    \* the id of its open request, 0 without one; ids handed out
  outcome,            \* that request is settled: what its code will see
  status,             \* #onStatusChange
  restarts,
  sheltered, \* turns whose start the host saw with no recovery under way
  cut        \* of these, turns an abort of the recovery then ended before their answer

ompVars == <<alive, turn, phase, inbox>>
watchVars == <<streaming, answered, quiet, status>>
recoveryVars == <<recovering, openId, requests, outcome>>
turnVars == <<ompVars, pipe, more, watchVars, recoveryVars, restarts, sheltered, cut>>

Turns == 1..MaxTurns
RecoveryRequests == [is : {"get_state", "abort"}, id : 1..MaxRequests]
Recoverings == {"none", "before", "abort", "after"}
Answers == {"busy", "idle", "done", "rejected"}
Frames ==
  [is : {"start"}, turn : Turns] \cup [is : {"work", "answer", "end", "local"}]
    \cup [is : {"response"}, id : 1..MaxRequests, says : Answers]

TurnTypeOK ==
  /\ alive \in BOOLEAN /\ turn \in 0..MaxTurns /\ phase \in {"idle", "working", "answered"}
  /\ inbox \in Seq(RecoveryRequests) /\ pipe \in Seq(Frames)
  /\ more \in BOOLEAN /\ streaming \in BOOLEAN /\ answered \in BOOLEAN /\ quiet \in BOOLEAN
  /\ recovering \in Recoverings /\ openId \in 0..MaxRequests /\ requests \in 0..MaxRequests
  /\ outcome \in Answers \cup {"none"} /\ (recovering = "none" => openId = 0 /\ outcome = "none")
  /\ status \in {"idle", "running", "failed"} /\ restarts \in 0..MaxRestarts
  /\ sheltered \subseteq Turns /\ cut \subseteq Turns

TurnInit ==
  /\ alive = TRUE /\ turn = 0 /\ phase = "idle" /\ inbox = <<>> /\ pipe = <<>> /\ more = FALSE
  /\ streaming = FALSE /\ answered = FALSE /\ quiet = FALSE /\ status = "idle"
  /\ recovering = "none" /\ openId = 0 /\ requests = 0 /\ outcome = "none"
  /\ restarts = 0 /\ sheltered = {} /\ cut = {}

-----------------------------------------------------------------------------
(* OMP, external. *)

Emits(frames) ==
  Len(pipe) + Len(frames) <= MaxPipe /\ pipe' = pipe \o frames

hostVars == <<more, watchVars, recoveryVars, restarts, sheltered>>

\* A turn begins, after another or with a steer in its midst (agent_start, turn_start).
Begins ==
  /\ alive /\ turn < MaxTurns
  /\ turn' = turn + 1 /\ phase' = "working"
  /\ Emits(<<[is |-> "start", turn |-> turn']>>)
  /\ UNCHANGED <<alive, inbox, cut, hostVars>>

\* It goes on, its answer is complete, it ends; what it does after its answer, such as
\* an agent_end with isTerminal = false, looks like work.
Goes(on, to) ==
  /\ alive /\ phase \in {"working", "answered"}
  /\ <<on, to>> \in {<<"work", phase>>, <<"answer", "answered">>, <<"end", "idle">>}
  /\ phase' = to
  /\ Emits(<<[is |-> on]>>)
  /\ UNCHANGED <<alive, turn, inbox, cut, hostVars>>

\* A prompt that is a command of OMP's own ends without a turn (prompt_result).
Local ==
  /\ alive
  /\ Emits(<<[is |-> "local"]>>)
  /\ UNCHANGED <<ompVars, cut, hostVars>>

\* OMP reads a request, and may refuse it.  An abort ends the turn, with or without a
\* word, or does not.
ReadsRequest ==
  /\ alive /\ inbox # <<>>
  /\ inbox' = Tail(inbox)
  /\ LET r == Head(inbox)
         Response(says) == [is |-> "response", id |-> r.id, says |-> says]
     IN \/ /\ r.is = "get_state"
           /\ Emits(<<Response(IF phase = "idle" THEN "idle" ELSE "busy")>>)
           /\ UNCHANGED <<phase, cut>>
        \/ /\ r.is = "abort" /\ phase # "idle" /\ phase' = "idle"
           /\ cut' = cut \cup (IF phase = "working" THEN {turn} \cap sheltered ELSE {})
           /\ \/ Emits(<<Response("done")>>)
              \/ Emits(<<[is |-> "end"], Response("done")>>)
        \/ /\ Emits(<<Response(IF r.is = "abort" THEN "done" ELSE "rejected")>>)
           /\ UNCHANGED <<phase, cut>>
  /\ UNCHANGED <<alive, turn, hostVars>>

-----------------------------------------------------------------------------
(* Frames, in the order of receiveRpcFrame: the watchdog, then the status. *)

\* clearTurnWatchdog.
ClearTurnWatchdog == quiet' = FALSE /\ answered' = FALSE

\* Mutated form of Resets: a turn that begins leaves the watchdog alone.
ResetsAtEnd(frame) == frame.is \in {"end", "local"}
Resets(frame) == frame.is \in {"start", "end", "local"}

\* observeTurnWatchdog: any frame after the answer puts the 90 s off.
ObserveTurnWatchdog(frame) ==
  IF recovering # "none" THEN UNCHANGED <<quiet, answered>>
  ELSE IF Resets(frame) THEN ClearTurnWatchdog
  ELSE /\ answered' = (answered \/ frame.is = "answer")
       /\ quiet' = (quiet \/ (answered' /\ streaming))

HandleRpcFrame(frame) ==
  /\ streaming' = IF frame.is = "start" THEN TRUE
                  ELSE IF frame.is \in {"end", "local"} THEN FALSE ELSE streaming
  /\ status' = IF frame.is = "start" THEN "running"
               ELSE IF frame.is \in {"end", "local"} THEN "idle" ELSE status

\* RpcProcess.handleFrame settles the request the response is to; another one, late, is
\* nobody's.
Settles(frame) == frame.is = "response" /\ frame.id = openId

\* No abort of an earlier recovery is still to be read.
NoAbort == \A i \in DOMAIN inbox : inbox[i].is # "abort"

FrameArrives ==
  /\ alive /\ pipe # <<>> /\ (more \/ outcome = "none")
  /\ pipe' = Tail(pipe)
  /\ more' \in {FALSE, Len(pipe) > 1}
  /\ LET frame == Head(pipe)
     IN /\ IF Settles(frame) THEN openId' = 0 /\ outcome' = frame.says
           ELSE UNCHANGED <<openId, outcome>>
        /\ ObserveTurnWatchdog(frame)
        /\ HandleRpcFrame(frame)
        /\ sheltered' = sheltered \cup
             IF frame.is = "start" /\ recovering = "none" /\ NoAbort THEN {frame.turn} ELSE {}
  /\ UNCHANGED <<ompVars, recovering, requests, restarts, cut>>

-----------------------------------------------------------------------------
(* recoverStuckTurn. *)

Ask(request, next) ==
  /\ requests < MaxRequests
  /\ requests' = requests + 1 /\ openId' = requests'
  /\ inbox' = Append(inbox, [is |-> request, id |-> requests'])
  /\ recovering' = next /\ outcome' = "none"

\* The 90 s are over.
QuietFor90s ==
  /\ quiet /\ ~more /\ outcome = "none"
  /\ quiet' = FALSE
  /\ IF recovering = "none" /\ answered /\ streaming /\ alive
       THEN Ask("get_state", "before")
       ELSE UNCHANGED <<recoveryVars, inbox>>
  /\ UNCHANGED <<alive, turn, phase, pipe, more, streaming, answered, status, restarts,
                 sheltered, cut>>

\* The request, of 10 s, times out.
TimesOut ==
  /\ openId # 0 /\ ~more
  /\ openId' = 0 /\ outcome' = "rejected"
  /\ UNCHANGED <<ompVars, pipe, more, watchVars, recovering, requests, restarts, sheltered, cut>>

\* What it does next with the state, the abort's response or the state after it.  A
\* request to a process that is gone is rejected at once.
GoesOn ==
  /\ \/ recovering = "before" /\ outcome = "busy" /\ alive /\ Ask("abort", "abort")
     \/ /\ <<recovering, outcome>> \in {<<"before", "idle">>, <<"abort", "done">>} /\ alive
        /\ Ask("get_state", "after")
  /\ UNCHANGED <<streaming, answered, status>>

Over == recovering' = "none" /\ outcome' = "none" /\ openId' = 0 /\ UNCHANGED <<requests, inbox>>

Recovered ==
  /\ recovering = "after" /\ outcome = "idle"
  /\ Over
  /\ streaming' = FALSE /\ answered' = FALSE /\ status' = "idle"

NotRecovered ==
  /\ \/ outcome = "rejected"
     \/ recovering = "after" /\ outcome = "busy"
     \/ recovering # "after" /\ ~alive
  /\ Over
  /\ status' = "failed" /\ UNCHANGED <<streaming, answered>>

RecoverStuckTurn ==
  /\ outcome # "none" /\ ~more
  /\ GoesOn \/ Recovered \/ NotRecovered
  /\ UNCHANGED <<alive, turn, phase, pipe, more, quiet, restarts, sheltered, cut>>

-----------------------------------------------------------------------------
\* OMP exits, or is torn down: its open requests are rejected.
Exit ==
  /\ alive /\ ~more /\ outcome = "none"
  /\ alive' = FALSE /\ phase' = "idle" /\ inbox' = <<>> /\ pipe' = <<>>
  /\ status' = "failed"
  /\ openId' = 0 /\ outcome' = IF openId # 0 THEN "rejected" ELSE "none"
  /\ UNCHANGED <<turn, more, streaming, answered, quiet, recovering, requests, restarts, sheltered,
                 cut>>

\* restartRpc, once the teardown is through.
Restart ==
  /\ ~alive /\ recovering = "none" /\ restarts < MaxRestarts
  /\ restarts' = restarts + 1
  /\ alive' = TRUE /\ streaming' = FALSE /\ ClearTurnWatchdog /\ status' = "idle"
  /\ UNCHANGED <<turn, phase, inbox, pipe, more, recoveryVars, sheltered, cut>>

TurnNext ==
  \/ Begins \/ Local \/ ReadsRequest
  \/ \E on \in {"work", "answer", "end"}, to \in {"working", "answered", "idle"} : Goes(on, to)
  \/ FrameArrives \/ QuietFor90s \/ TimesOut \/ RecoverStuckTurn
  \/ Exit \/ Restart

TurnSpec == TurnInit /\ [][TurnNext]_turnVars

-----------------------------------------------------------------------------
\* The watchdog ends no turn that works, unless it began while a recovery was under
\* way or its start was not handled yet; and when all is still, a turn that has given
\* its answer and does not end is either not shown as running any more or reported as
\* failed, whatever turns, timeouts and exits the recovery met (CHANGELOG.md:64, "no
\* timeout for active tools or legitimate long turns").
TurnsWatched ==
  /\ cut = {}
  /\ alive /\ pipe = <<>> /\ inbox = <<>> /\ ~quiet /\ recovering = "none"
       /\ phase = "answered" /\ streaming
     => status = "failed"
===============================================================================
