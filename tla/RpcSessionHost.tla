---------------------------- MODULE RpcSessionHost ----------------------------
(***************************************************************************)
(* The life of the OMP runtimes behind one chat (rpc/RpcSessionHost.ts):   *)
(* startup, parity, failure, restart, reopening of the view and disposal,  *)
(* with the teardown barrier and the ownership of the startup prompt.      *)
(*                                                                         *)
(* The host is single threaded; every await of its code is a point where   *)
(* other handlers run, so each stretch between two awaits is one action.   *)
(* stage[p] is where the continuation of #startRpc that created runtime p  *)
(* stands; it keeps running when p is no longer the host's #rpc.  The chat *)
(* modelled is a Dzialki chat, the kind with every check of the startup.   *)
(***************************************************************************)
EXTENDS Integers, Sequences

CONSTANTS MaxViews,       \* bound on attachments of a webview
          MaxRestarts,    \* bound on restarts
          Resumed,        \* the chat is opened on an existing OMP session
          Prompted,       \* the chat is created with a startup prompt
          SlowPosts,      \* other events may come while a message to the
                          \* webview or a callback of the host is under way
          ReapFails,      \* terminating a process tree may fail
          EarlyFrames     \* OMP may send frames before its ready frame

ASSUME BoundsAssumption == MaxViews \in Nat /\ MaxRestarts \in Nat
ASSUME FlagsAssumption ==
  /\ Resumed \in BOOLEAN /\ Prompted \in BOOLEAN
  /\ SlowPosts \in BOOLEAN /\ ReapFails \in BOOLEAN /\ EarlyFrames \in BOOLEAN

\* Every call of #startRpc comes from a "ready" message or from a restart.
MaxRuntimes == MaxViews + MaxRestarts
Runtimes == 1..MaxRuntimes
NoRuntime == 0
\* OMP conversations: 0 is the one a resumed chat is opened on, p the fresh one
\* that runtime p begins.
Conversations == 0..MaxRuntimes
NoFile == -1

VARIABLES
  rpc,          \* #rpc
  stage,        \* stage[p]: where the startup of runtime p stands
  alive,        \* alive[p]: the process of p runs
  faulty,       \* runtimes whose RpcProcess failed and disposes itself
  conv,         \* conv[p]: the conversation p works on
  target,       \* target[p]: the runtime the startup prompt is meant for
  queue,        \* #teardownBarrier: runtimes to dispose, in order
  torn,         \* the number of teardowns it finished
  broken,       \* the next one failed: the barrier rejects for good
  starters,     \* #startRpc calls waiting for the barrier
  restart,      \* #restartPromise: where it stands and what it waits for
  restarts,
  view,         \* the webview: "none", "loading" or "ready" (#webviewReady)
  views,
  booting,      \* "ready" messages being answered with the bootstrap
  disposed,     \* dispose(): where it stands and what it waits for
  parityPassed, parityFailed,
  status,       \* onStatusChange
  sessionFile,  \* #sessionFile
  resume,       \* #resumeSessionFile
  ownership,    \* InitialPromptOwnership
  \* History, for the properties only.
  validated,    \* runtimes whose parity was validated
  uiHandled,    \* runtimes whose UI requests were carried out
  prompts,      \* runtimes that were sent the startup prompt
  late,         \* a turn of the last runtime was heard after its RpcProcess failed
  chat          \* the conversation this chat showed first

processVars == <<alive, faulty, conv>>
barrierVars == <<queue, torn, broken>>
restartVars == <<restart, restarts>>
viewVars == <<view, views, booting>>
parityVars == <<parityPassed, parityFailed>>
fileVars == <<sessionFile, resume>>
history == <<validated, uiHandled, prompts, late, chat>>
vars == <<rpc, stage, processVars, target, barrierVars, starters, restartVars, viewVars,
          disposed, parityVars, status, fileVars, ownership, history>>

\* Stages in which the continuation awaits a request to its runtime, and those
\* in which it awaits a message to the webview (or a callback).  In "spawning" it
\* awaits the ready frame, which nothing rejects when the runtime is disposed
\* first: it is "stuck" then.
RequestStages == {"starting", "switching", "state", "advisor", "history"}
PostStages == {"publishing", "announcing", "sending", "settling", "failing", "restoring"}
Stages == {"unused", "spawning", "stuck", "delivering", "reaping", "over"}
            \cup RequestStages \cup PostStages

\* A wait for the barrier is the number of teardowns that must be finished; a
\* runtime is queued at most twice.
Teardowns == 0..(2 * MaxRuntimes)

TypeOK ==
  /\ rpc \in Runtimes \cup {NoRuntime}
  /\ stage \in [Runtimes -> Stages]
  /\ alive \in [Runtimes -> BOOLEAN] /\ faulty \subseteq Runtimes
  /\ conv \in [Runtimes -> Conversations]
  /\ target \in [Runtimes -> Runtimes \cup {NoRuntime}]
  /\ queue \in Seq(Runtimes) /\ torn \in Teardowns /\ broken \in BOOLEAN
  /\ starters \subseteq [by : {"ready", "restart"}, after : Teardowns]
  /\ restart \in [at : {"none", "draining", "releasing", "probing", "posting",
                        "starting", "startup"},
                  after : Teardowns]
  /\ restarts \in 0..MaxRestarts
  /\ view \in {"none", "loading", "ready"} /\ views \in 0..MaxViews
  /\ booting \in 0..MaxViews
  /\ disposed \in [at : {"no", "draining", "done"}, after : Teardowns]
  /\ parityPassed \in BOOLEAN /\ parityFailed \in BOOLEAN
  /\ status \in {"starting", "idle", "running", "failed", "finished"}
  /\ sessionFile \in Conversations \cup {NoFile}
  /\ resume \in Conversations \cup {NoFile}
  /\ ownership \in {"none", "pending", "delivered", "restored"}
  /\ validated \subseteq Runtimes /\ uiHandled \subseteq Runtimes
  /\ prompts \subseteq Runtimes /\ late \in BOOLEAN
  /\ chat \in Conversations \cup {NoFile}

Init ==
  /\ rpc = NoRuntime
  /\ stage = [p \in Runtimes |-> "unused"]
  /\ alive = [p \in Runtimes |-> FALSE] /\ faulty = {}
  /\ conv = [p \in Runtimes |-> p]
  /\ target = [p \in Runtimes |-> NoRuntime]
  /\ queue = <<>> /\ torn = 0 /\ broken = FALSE
  /\ starters = {}
  /\ restart = [at |-> "none", after |-> 0] /\ restarts = 0
  /\ view = "none" /\ views = 0 /\ booting = 0
  /\ disposed = [at |-> "no", after |-> 0]
  /\ parityPassed = FALSE /\ parityFailed = FALSE
  /\ status = "starting"
  /\ sessionFile = NoFile
  /\ resume = IF Resumed THEN 0 ELSE NoFile
  /\ ownership = IF Prompted THEN "pending" ELSE "none"
  /\ validated = {} /\ uiHandled = {} /\ prompts = {} /\ late = FALSE
  /\ chat = IF Resumed THEN 0 ELSE NoFile

-------------------------------------------------------------------------------
(* Helpers                                                                 *)

Disposed == disposed.at # "no"

\* TeardownBarrier: wait() called now returns when all queued teardowns are
\* finished, and rejects when one of them fails.
Enqueued == torn + Len(queue)
Passes(after) == torn >= after
Rejects(after) == broken /\ ~Passes(after)

\* #queueTeardown of the current runtime, which stops being current.
DropRuntime ==
  /\ rpc' = NoRuntime
  /\ queue' = IF rpc = NoRuntime THEN queue ELSE Append(queue, rpc)

\* RpcProcess.dispose was called for p: its requests are rejected from then on.
Disposing(p) == p \in faulty \/ (queue # <<>> /\ p = Head(queue))
Answers(p) == alive[p] /\ ~Disposing(p)

\* Its other frames are still decoded, and the host handles those of the current
\* runtime, until the process is gone.
SendsFrames(p) == rpc = p /\ alive[p] /\ (stage[p] = "spawning" => EarlyFrames)

\* Mutated form of RestorePrompt: a prompt given to OMP is taken back, too.
RestoreAny == ownership' = IF ownership = "none" THEN "none" ELSE "restored"

\* #restoreInitialPrompt: the prompt goes back to the user if it is still
\* pending (the message and the settling that follow wait for nothing).
RestorePrompt == ownership' = IF ownership = "pending" THEN "restored" ELSE ownership

Goto(p, s) == stage' = [stage EXCEPT ![p] = s]

-------------------------------------------------------------------------------
(* The view                                                                *)

\* attachWebview / detachWebview.
Attach ==
  /\ ~Disposed /\ views < MaxViews
  /\ view' = "loading" /\ views' = views + 1
  /\ UNCHANGED <<rpc, stage, processVars, target, barrierVars, starters, restartVars,
                 booting, disposed, parityVars, status, fileVars, ownership, history>>

Detach ==
  /\ view # "none"
  /\ view' = "none"
  /\ UNCHANGED <<rpc, stage, processVars, target, barrierVars, starters, restartVars, views,
                 booting, disposed, parityVars, status, fileVars, ownership, history>>

\* The "ready" message: the bootstrap is posted first.
ViewReady ==
  /\ view = "loading" /\ ~Disposed
  /\ view' = "ready" /\ booting' = booting + 1
  /\ UNCHANGED <<rpc, stage, processVars, target, barrierVars, starters, restartVars, views,
                 disposed, parityVars, status, fileVars, ownership, history>>

\* Then a runtime is started when there is none (else the view is rehydrated).
Bootstrapped ==
  /\ booting > 0
  /\ booting' = booting - 1
  /\ starters' = IF rpc = NoRuntime
                   THEN starters \cup {[by |-> "ready", after |-> Enqueued]}
                   ELSE starters
  /\ UNCHANGED <<rpc, stage, processVars, target, barrierVars, restartVars, view, views,
                 disposed, parityVars, status, fileVars, ownership, history>>

-------------------------------------------------------------------------------
(* #startRpc                                                               *)

\* What the call leaves behind for the restart that awaits it.
RestartAfter(s, at, after) ==
  restart' = IF s.by = "restart" THEN [at |-> at, after |-> after] ELSE restart

\* A new runtime p for the call s.  The parity flags keep their values.
Create(s, p) ==
  /\ rpc' = p
  /\ Goto(p, "spawning")
  /\ alive' = [alive EXCEPT ![p] = TRUE]
  /\ status' = "starting" /\ late' = FALSE
  /\ RestartAfter(s, "startup", p)

FirstUnused(p) == stage[p] = "unused" /\ \A q \in 1..(p - 1) : stage[q] # "unused"

\* Mutated form of StartRpc: it does not look for a faster call.
StartRpcUnchecked(s) ==
  /\ Passes(s.after)
  /\ starters' = starters \ {s}
  /\ \E p \in Runtimes : FirstUnused(p) /\ Create(s, p)
  /\ UNCHANGED <<faulty, conv, target, barrierVars, restarts, viewVars, disposed, parityVars,
                 fileVars, ownership, validated, uiHandled, prompts, chat>>

\* The barrier lets the call through: it creates a runtime, unless the host was
\* disposed or another call was faster.
StartRpc(s) ==
  /\ Passes(s.after)
  /\ starters' = starters \ {s}
  /\ IF Disposed \/ rpc # NoRuntime
       THEN RestartAfter(s, "none", 0) /\ UNCHANGED <<rpc, stage, alive, status, late>>
       ELSE \E p \in Runtimes : FirstUnused(p) /\ Create(s, p)
  /\ UNCHANGED <<faulty, conv, target, barrierVars, restarts, viewVars, disposed, parityVars,
                 fileVars, ownership, validated, uiHandled, prompts, chat>>

\* The barrier rejects: the call fails, nothing starts.
StartRejected(s) ==
  /\ Rejects(s.after)
  /\ starters' = starters \ {s}
  /\ RestartAfter(s, "none", 0)
  /\ UNCHANGED <<rpc, stage, processVars, target, barrierVars, restarts, viewVars, disposed,
                 parityVars, status, fileVars, ownership, history>>

\* The continuation of a startup goes on to stage s; some stages are only
\* entered while p is the runtime of a host in use.
Continue(p, from, to) ==
  /\ stage[p] = from /\ Answers(p)
  /\ Goto(p, to)

Current(p) == rpc = p /\ ~Disposed
IfCurrent(p, to) == IF Current(p) THEN to ELSE "over"

\* The ready frame: the protocol is negotiated next.
FrameReady(p) ==
  /\ Continue(p, "spawning", "starting")
  /\ UNCHANGED <<rpc, processVars, target, barrierVars, starters, restartVars, viewVars,
                 disposed, parityVars, status, fileVars, ownership, history>>

\* rpc.start() resolved.
Started(p) ==
  /\ Continue(p, "starting",
              IfCurrent(p, IF resume # NoFile THEN "switching" ELSE "state"))
  /\ conv' = [conv EXCEPT ![p] = IF Current(p) /\ resume # NoFile THEN resume ELSE @]
  /\ UNCHANGED <<rpc, alive, faulty, target, barrierVars, starters, restartVars, viewVars,
                 disposed, parityVars, status, fileVars, ownership, history>>

\* switch_session, set_model and set_thinking_level answered.
Switched(p) ==
  /\ Continue(p, "switching", "state")
  /\ UNCHANGED <<rpc, processVars, target, barrierVars, starters, restartVars, viewVars,
                 disposed, parityVars, status, fileVars, ownership, history>>

\* get_state answered: the session file is known.
StateKnown(p) ==
  /\ sessionFile' = conv[p]
  /\ chat' = IF chat = NoFile THEN conv[p] ELSE chat

\* Parity holds; the check is not bound to #rpc.  The frames kept until now are
\* handled (#flushPreParityFrames), turns that began or ended among them.
ParityPasses(p) ==
  /\ Continue(p, "state", "advisor")
  /\ StateKnown(p)
  /\ parityPassed' = TRUE
  /\ status' \in {status, "running", "idle"}
  /\ validated' = validated \cup {p}
  /\ UNCHANGED <<rpc, processVars, target, barrierVars, starters, restartVars, viewVars,
                 disposed, parityFailed, resume, ownership, uiHandled, prompts, late>>

\* #blockParity: the chat fails and its current runtime is torn down.
BlockParity ==
  /\ parityFailed' = TRUE /\ parityPassed' = FALSE
  /\ status' = "failed"
  /\ RestorePrompt
  /\ DropRuntime

ParityFails(p) ==
  /\ Continue(p, "state", "over")
  /\ StateKnown(p)
  /\ BlockParity
  /\ UNCHANGED <<processVars, target, torn, broken, starters, restartVars, viewVars, disposed,
                 resume, validated, uiHandled, prompts, late>>

\* A frame of the runtime shows an ambient MCP mount, an unexpected approval, a
\* changed model lock, or bursts the pre-parity budget.
Block(p) ==
  /\ SendsFrames(p)
  /\ BlockParity
  /\ UNCHANGED <<stage, processVars, target, torn, broken, starters, restartVars, viewVars,
                 disposed, fileVars, history>>

\* The advisor of the session is the expected one.
AdvisorVerified(p) ==
  /\ Continue(p, "advisor", IfCurrent(p, "history"))
  /\ UNCHANGED <<rpc, processVars, target, barrierVars, starters, restartVars, viewVars,
                 disposed, parityVars, status, fileVars, ownership, history>>

\* Mutated form of AdvisorFails: the probe of a replaced runtime never settles.
AdvisorFailsIfCurrent(p) ==
  /\ stage[p] = "advisor" /\ Current(p)
  /\ Goto(p, "over")
  /\ BlockParity
  /\ UNCHANGED <<processVars, target, torn, broken, starters, restartVars, viewVars, disposed,
                 fileVars, history>>

\* The probe is rejected or shows another advisor.
AdvisorFails(p) ==
  /\ stage[p] = "advisor"
  /\ Goto(p, "over")
  /\ IF Current(p) THEN BlockParity
                   ELSE UNCHANGED <<rpc, queue, parityVars, status, ownership>>
  /\ UNCHANGED <<processVars, target, torn, broken, starters, restartVars, viewVars, disposed,
                 fileVars, history>>

\* Branch messages, commands and todos answered.
HistoryLoaded(p) ==
  /\ Continue(p, "history", IfCurrent(p, "publishing"))
  /\ UNCHANGED <<rpc, processVars, target, barrierVars, starters, restartVars, viewVars,
                 disposed, parityVars, status, fileVars, ownership, history>>

\* State, history and commands were posted; nothing is re-checked from here on.
Published(p) ==
  /\ stage[p] = "publishing"
  /\ status' = "idle"
  /\ Goto(p, "announcing")
  /\ UNCHANGED <<rpc, processVars, target, barrierVars, starters, restartVars, viewVars,
                 disposed, parityVars, fileVars, ownership, history>>

\* The webview knows the transport is ready: the resume pointer is used up, and
\* a chat that was not resumed takes its startup prompt to sendPrompt, which
\* refuses at once unless parity passed and a runtime is there.
Announced(p) ==
  /\ stage[p] = "announcing"
  /\ resume' = NoFile
  /\ IF resume # NoFile \/ ownership # "pending"
       THEN Goto(p, "over") /\ UNCHANGED <<ownership, target>>
       ELSE /\ ownership' = "delivered"
            /\ IF parityPassed /\ ~parityFailed /\ rpc # NoRuntime
                 THEN Goto(p, "delivering") /\ target' = [target EXCEPT ![p] = rpc]
                 ELSE Goto(p, "settling") /\ UNCHANGED target
  /\ UNCHANGED <<rpc, processVars, barrierVars, starters, restartVars, viewVars, disposed,
                 parityVars, status, sessionFile, history>>

\* Mutated form of Deliver: the prompt goes to whatever runtime is there by now.
DeliverUnchecked(p) ==
  /\ stage[p] = "delivering"
  /\ Goto(p, IF rpc # NoRuntime THEN "sending" ELSE "settling")
  /\ target' = [target EXCEPT ![p] = rpc]
  /\ UNCHANGED <<rpc, processVars, barrierVars, starters, restartVars, viewVars,
                 disposed, parityVars, status, fileVars, ownership, history>>

\* sendPrompt was held up by an advisor probe or by the first-prompt
\* reservation; it re-checks its runtime ...
Deliver(p) ==
  /\ stage[p] = "delivering"
  /\ Goto(p, IF rpc = target[p] /\ alive[rpc] /\ parityPassed THEN "sending"
             ELSE "settling")
  /\ UNCHANGED <<rpc, processVars, target, barrierVars, starters, restartVars, viewVars,
                 disposed, parityVars, status, fileVars, ownership, history>>

\* ... and, when the pending mark was posted, writes to it.
Send(p) ==
  /\ stage[p] = "sending"
  /\ prompts' = IF Answers(target[p]) THEN prompts \cup {target[p]} ELSE prompts
  /\ Goto(p, "settling")
  /\ UNCHANGED <<rpc, processVars, target, barrierVars, starters, restartVars, viewVars,
                 disposed, parityVars, status, fileVars, ownership, validated, uiHandled, late,
                 chat>>

\* settleInitialPrompt, after OMP took the draft or it went back to the user.
Settled(p) ==
  /\ stage[p] = "settling"
  /\ Goto(p, "over")
  /\ UNCHANGED <<rpc, processVars, target, barrierVars, starters, restartVars, viewVars,
                 disposed, parityVars, status, fileVars, ownership, history>>

\* The wait for the ready frame is rejected by a failure of RpcProcess (its
\* timeout is one) and by an exit, unless the runtime is being disposed by then.
ReadyRejected(p) ==
  stage[p] = "spawning" /\ (p \in faulty \/ ~(alive[p] \/ Disposing(p)))

\* A request of the startup is rejected: an error response, a timeout, the exit
\* or the disposal of p.  The catch ignores a runtime that was replaced.
RequestFails(p) ==
  /\ stage[p] \in RequestStages \ {"advisor"} \/ ReadyRejected(p)
  /\ IF Current(p) THEN Goto(p, "failing") /\ status' = "failed"
                   ELSE Goto(p, "over") /\ UNCHANGED status
  /\ UNCHANGED <<rpc, processVars, target, barrierVars, starters, restartVars, viewVars,
                 disposed, parityVars, fileVars, ownership, history>>

\* The failure was posted: the startup prompt goes back to the user ...
FailurePosted(p) ==
  /\ stage[p] = "failing"
  /\ RestorePrompt
  /\ Goto(p, "restoring")
  /\ UNCHANGED <<rpc, processVars, target, barrierVars, starters, restartVars, viewVars,
                 disposed, parityVars, status, fileVars, history>>

\* ... and when that is done #rpc is cleared, whatever it is by then.
FailureRestored(p) ==
  /\ stage[p] = "restoring"
  /\ rpc' = NoRuntime
  /\ queue' = Append(queue, p)
  /\ Goto(p, "reaping")
  /\ UNCHANGED <<processVars, target, torn, broken, starters, restartVars, viewVars, disposed,
                 parityVars, status, fileVars, ownership, history>>

\* The catch returns when its teardown is finished, or fails with it.
Reaped(p) ==
  /\ stage[p] = "reaping" /\ (broken \/ \A i \in DOMAIN queue : queue[i] # p)
  /\ Goto(p, "over")
  /\ UNCHANGED <<rpc, processVars, target, barrierVars, starters, restartVars, viewVars,
                 disposed, parityVars, status, fileVars, ownership, history>>

-------------------------------------------------------------------------------
(* Events of the runtime                                                   *)

\* The handler of an exit answers for the current runtime only.
ExitAs(p, statuses) ==
  /\ alive[p]
  /\ alive' = [alive EXCEPT ![p] = FALSE]
  /\ IF rpc = p
       THEN /\ rpc' = NoRuntime
            /\ RestorePrompt
            /\ IF parityFailed THEN UNCHANGED status
               ELSE \E s \in statuses : status' = s
       ELSE UNCHANGED <<rpc, ownership, status>>
  /\ UNCHANGED <<stage, faulty, conv, target, barrierVars, starters, restartVars, viewVars,
                 disposed, parityVars, fileVars, history>>
\* Mutated forms of Exit: the status is kept, or is one of the transport.
ExitUnnoticed(p) == ExitAs(p, {"failed", status})
ExitAsTransport(p) == ExitAs(p, {"failed", "exited"})

\* The process exits by itself or because its RpcProcess failed.
Exit(p) == ExitAs(p, {"failed", "finished"})

\* A frame breaks the protocol: RpcProcess reports it and disposes itself.  It may
\* do so again until the process is gone.
ProtocolError(p) ==
  /\ rpc = p /\ alive[p]
  /\ faulty' = faulty \cup {p}
  /\ parityFailed' = TRUE
  /\ status' = "failed"
  /\ RestorePrompt
  /\ UNCHANGED <<rpc, stage, alive, conv, target, barrierVars, starters, restartVars, viewVars,
                 disposed, parityPassed, fileVars, history>>

\* A turn begins, or ends: agent_end, or a prompt_result of a prompt without a turn.
\* #parityFailed is not looked at.
TurnFrame(p) ==
  /\ SendsFrames(p)
  /\ parityPassed
  /\ status' \in {"running", "idle"}
  /\ late' = (late \/ p \in faulty)
  /\ UNCHANGED <<rpc, stage, processVars, target, barrierVars, starters, restartVars, viewVars,
                 disposed, parityVars, fileVars, ownership, validated, uiHandled, prompts, chat>>

\* An extension UI request: carried out after parity, cancelled before it.
UiRequest(p) ==
  /\ SendsFrames(p)
  /\ parityPassed
  /\ uiHandled' = uiHandled \cup {p}
  /\ UNCHANGED <<rpc, stage, processVars, target, barrierVars, starters, restartVars, viewVars,
                 disposed, parityVars, status, fileVars, ownership, validated, prompts, late,
                 chat>>

\* The next teardown of the barrier: rpc.dispose() terminates the process or
\* fails, and after a failure no later teardown runs.
Teardown ==
  /\ queue # <<>> /\ ~broken
  /\ stage' = [stage EXCEPT ![Head(queue)] = IF @ = "spawning" THEN "stuck" ELSE @]
  /\ \/ /\ queue' = Tail(queue) /\ torn' = torn + 1
        /\ alive' = [alive EXCEPT ![Head(queue)] = FALSE]
        /\ UNCHANGED broken
     \/ ReapFails /\ alive[Head(queue)] /\ broken' = TRUE /\ UNCHANGED <<queue, torn, alive>>
  /\ UNCHANGED <<rpc, faulty, conv, target, starters, restartVars, viewVars, disposed,
                 parityVars, status, fileVars, ownership, history>>

-------------------------------------------------------------------------------
(* restart() and dispose()                                                 *)

Restart ==
  /\ ~Disposed /\ restart.at = "none" /\ restarts < MaxRestarts
  /\ restarts' = restarts + 1
  /\ resume' = sessionFile
  /\ DropRuntime
  /\ restart' = [at |-> "draining", after |-> torn + Len(queue')]
  /\ UNCHANGED <<stage, processVars, target, torn, broken, starters, viewVars, disposed,
                 parityVars, status, sessionFile, ownership, history>>

\* A restart counts teardowns in "draining" (restart.after); in "probing" and
\* "startup" restart.after is the runtime it waits for.
RestartTo(from, to, after) ==
  /\ restart.at = from
  /\ restart' = [at |-> to, after |-> after]

\* Mutated form of RestartDrained: a rejection leaves #restartPromise there.
RestartKept ==
  /\ Passes(restart.after) /\ RestartTo("draining", "releasing", 0)
  /\ UNCHANGED <<rpc, stage, processVars, target, barrierVars, starters, restarts, viewVars,
                 disposed, parityVars, status, fileVars, ownership, history>>

\* The barrier is through (or rejects, which ends the restart); then the first
\* prompt reservation is released.
RestartDrained ==
  /\ \/ Passes(restart.after) /\ RestartTo("draining", "releasing", 0)
     \/ Rejects(restart.after) /\ RestartTo("draining", "none", 0)
  /\ UNCHANGED <<rpc, stage, processVars, target, barrierVars, starters, restarts, viewVars,
                 disposed, parityVars, status, fileVars, ownership, history>>

\* The advisor probe in flight by then, if any, is awaited.
RestartReleased ==
  /\ \/ \E p \in Runtimes : stage[p] = "advisor" /\ RestartTo("releasing", "probing", p)
     \/ /\ \A p \in Runtimes : stage[p] # "advisor"
        /\ RestartTo("releasing", "probing", 0)
  /\ UNCHANGED <<rpc, stage, processVars, target, barrierVars, starters, restarts, viewVars,
                 disposed, parityVars, status, fileVars, ownership, history>>

\* Mutated form of RestartReset: the parity flags keep their values.
RestartStale ==
  /\ \A p \in Runtimes : restart.after = p => stage[p] # "advisor"
  /\ RestartTo("probing", "posting", 0)
  /\ status' = "starting"
  /\ UNCHANGED <<rpc, stage, processVars, target, barrierVars, starters, restarts, viewVars,
                 disposed, parityVars, fileVars, ownership, history>>

\* The flags are reset, without a look at what runs by now.
RestartReset ==
  /\ RestartTo("probing", "posting", 0)
  /\ \A p \in Runtimes : restart.after = p => stage[p] # "advisor"
  /\ parityPassed' = FALSE /\ parityFailed' = FALSE
  /\ status' = "starting"
  /\ UNCHANGED <<rpc, stage, processVars, target, barrierVars, starters, restarts, viewVars,
                 disposed, fileVars, ownership, history>>

\* The restart starts a runtime for a view that is ready.
RestartPosted ==
  /\ IF view = "ready" /\ ~Disposed
       THEN /\ RestartTo("posting", "starting", 0)
            /\ starters' = starters \cup {[by |-> "restart", after |-> Enqueued]}
       ELSE RestartTo("posting", "none", 0) /\ UNCHANGED starters
  /\ UNCHANGED <<rpc, stage, processVars, target, barrierVars, restarts, viewVars, disposed,
                 parityVars, status, fileVars, ownership, history>>

\* The promise of the restart settles with the startup it made.
RestartDone ==
  /\ RestartTo("startup", "none", 0)
  /\ stage[restart.after] = "over"
  /\ UNCHANGED <<rpc, stage, processVars, target, barrierVars, starters, restarts, viewVars,
                 disposed, parityVars, status, fileVars, ownership, history>>

\* dispose() drops the runtime, too, and waits for the barrier.
Dispose ==
  /\ ~Disposed
  /\ DropRuntime
  /\ disposed' = [at |-> "draining", after |-> torn + Len(queue')]
  /\ UNCHANGED <<stage, processVars, target, torn, broken, starters, restartVars, viewVars,
                 parityVars, status, fileVars, ownership, history>>

\* Mutated form of DisposeDone: it does not wait for the barrier.
DisposeAtOnce ==
  /\ disposed.at = "draining"
  /\ disposed' = [at |-> "done", after |-> 0]
  /\ UNCHANGED <<rpc, stage, processVars, target, barrierVars, starters, restartVars,
                 viewVars, parityVars, status, fileVars, ownership, history>>

\* dispose() resolves; the writer lease is released next.
DisposeDone ==
  /\ disposed.at = "draining"
  /\ Passes(disposed.after)
  /\ \A p \in Runtimes : stage[p] # "advisor"
  /\ disposed' = [at |-> "done", after |-> 0]
  /\ UNCHANGED <<rpc, stage, processVars, target, barrierVars, starters, restartVars,
                 viewVars, parityVars, status, fileVars, ownership, history>>

-------------------------------------------------------------------------------
\* Continuations of a barrier that resolved, and of a request to a process that
\* is gone or being disposed, run before any other event.
Microtask ==
  \/ \E s \in starters : StartRpc(s) \/ StartRejected(s)
  \/ RestartDrained
  \/ \E p \in Runtimes : ~Answers(p) /\ (RequestFails(p) \/ AdvisorFails(p))
NoMicrotask ==
  /\ \A p \in Runtimes : (stage[p] \in RequestStages => Answers(p)) /\ ~ReadyRejected(p)
  /\ \A s \in starters : ~Passes(s.after) /\ ~broken
  /\ restart.at = "draining" => ~Passes(restart.after) /\ ~broken

\* A message to the webview was delivered or a callback returned.
PostStep ==
  \/ Bootstrapped \/ RestartReleased \/ RestartReset \/ RestartPosted
  \/ \E p \in Runtimes : \/ Published(p) \/ Announced(p) \/ Send(p) \/ Settled(p)
                          \/ FailurePosted(p) \/ FailureRestored(p)
NoPost ==
  /\ booting = 0 /\ restart.at \notin {"releasing", "posting"}
  /\ restart.at = "probing" => \E p \in Runtimes : restart.after = p /\ stage[p] = "advisor"
  /\ \A p \in Runtimes : stage[p] \notin PostStages

\* Every request is answered, rejected or times out.
RequestSettles(p) ==
  \/ FrameReady(p) \/ Started(p) \/ Switched(p) \/ ParityPasses(p) \/ ParityFails(p)
  \/ AdvisorVerified(p) \/ AdvisorFails(p) \/ HistoryLoaded(p) \/ Deliver(p) \/ RequestFails(p)

HostStep ==
  \/ Teardown \/ DisposeDone \/ RestartDone
  \/ \E p \in Runtimes : RequestSettles(p) \/ Reaped(p)

RuntimeEvent(p) ==
  Block(p) \/ Exit(p) \/ ProtocolError(p) \/ TurnFrame(p) \/ UiRequest(p)

UserAct == Attach \/ Detach \/ ViewReady \/ Restart \/ Dispose

\* Nothing is under way: whether anything else happens is up to the user or to
\* the runtime.
Quiet ==
  /\ \A p \in Runtimes : stage[p] \in {"unused", "over", "stuck"}
  /\ restart.at # "none" => restart.at = "startup" /\ stage[restart.after] = "stuck"
  /\ starters = {} /\ booting = 0
  /\ queue = <<>> \/ broken
  /\ disposed.at # "draining" \/ broken

AtRest == Quiet /\ UNCHANGED vars

Progress ==
  \/ Microtask
  \/ NoMicrotask /\ PostStep
  \/ NoMicrotask /\ (SlowPosts \/ NoPost) /\ HostStep

Event == (\E p \in Runtimes : RuntimeEvent(p)) \/ UserAct

Next ==
  \/ Progress
  \/ NoMicrotask /\ (SlowPosts \/ NoPost) /\ Event
  \/ AtRest

Spec == Init /\ [][Next]_vars

\* The event loop runs what is ready to run, and requests have timeouts.  No event
\* takes that away, and a startup, a restart and a teardown have finitely many steps,
\* so one weak fairness for all of it is enough.
FairSpec == Spec /\ WF_vars(Progress)

-------------------------------------------------------------------------------
(* Properties                                                              *)

\* At most one OMP process of a chat runs at any time: a new runtime waits for
\* the teardown of all earlier ones (#startRpc behind the teardown barrier).
OneRuntime == \A p, q \in Runtimes : alive[p] /\ alive[q] => p = q

\* When dispose() resolves, and the writer lease is released for it, no OMP
\* process of the chat is left.
DisposedMeansReaped == disposed.at = "done" => \A p \in Runtimes : ~alive[p]

\* UI requests are only carried out for a runtime whose parity was validated,
\* whatever the flag was set for (receiveRpcFrame looks at #parityPassed only).
UiOnlyAfterParity == uiHandled \subseteq validated

\* The startup prompt is sent to at most one runtime, whose parity was validated,
\* and never to one after it went back to the user's composer
\* (InitialPromptOwnership, #sendPrompt).
PromptOnce ==
  /\ prompts \subseteq validated
  /\ \A p, q \in prompts : p = q
  /\ prompts # {} => ownership = "delivered"

\* A chat at rest that says it is ready or at work has a runtime that takes prompts.
\* Two exceptions: the teardown of an earlier one failed, which closes the barrier for
\* good; and a turn of the last runtime was heard after that runtime broke the protocol,
\* which takes back the "failed" of the breach (#receiveRpcFrame, #handleRpcFrame).
ReadyIsUsable ==
  status \in {"idle", "running"} /\ Quiet /\ ~Disposed /\ ~broken /\ ~late =>
    rpc # NoRuntime /\ Answers(rpc) /\ parityPassed /\ ~parityFailed

\* A chat that says it is ready works on the conversation it always showed.
KeepsConversation == status = "idle" /\ rpc # NoRuntime => conv[rpc] = chat

\* A restart of an open chat comes to its end, and with it the lock on further
\* restarts (restart() returns #restartPromise as long as it is there).
RestartEnds == restart.at # "none" ~> restart.at = "none" \/ Disposed

\* A disposal ends, unless a process tree cannot be reaped.
DisposeEnds == disposed.at = "draining" ~> disposed.at = "done" \/ broken

===============================================================================
