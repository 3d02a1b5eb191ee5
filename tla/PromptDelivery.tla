---------------------------- MODULE PromptDelivery ----------------------------
(***************************************************************************)
(* Prompts of a running chat on their way to OMP and back: sendPrompt and  *)
(* the response-start timeout of rpc/RpcSessionHost.ts, the drafts of      *)
(* rpc/promptLifecycle.ts, the table of requests of rpc/RpcProcess.ts, and *)
(* the decoder of FrameDecoder behind the pipe OMP writes to.              *)
(*                                                                         *)
(* The host is single threaded.  A piece of output is decoded and its      *)
(* frames are handled in one go; what awaits a response goes on after the  *)
(* whole piece.  The startup of a runtime after its negotiation is left to *)
(* RpcSessionHost, the reservation of the first prompt to                  *)
(* EphemeralWorktree: here the first prompt was acknowledged before.       *)
(***************************************************************************)
EXTENDS FrameDecoder, FiniteSets

CONSTANTS Prompts, Own,   \* prompts of the user; a turn OMP begins by itself
          Abort,          \* the abort command
          MaxOwn,         \* bound on turns of OMP's own
          MaxOdd,         \* bound on those and on lines that are no frames, together
          MaxPipe,        \* bound on lines OMP writes ahead of the host
          MaxSoiled,      \* bound on lines that are no frames
          MaxRestarted    \* bound on restarts

ASSUME DeliveryAssumption ==
  /\ Own \notin Prompts /\ Abort \notin Prompts
  /\ MaxOwn \in Nat /\ MaxPipe \in Nat /\ MaxSoiled \in Nat /\ MaxRestarted \in Nat

\* The frames that matter here.  "of" names the prompts a turn was for; the frame
\* of the code does not, and the host does not read it.
Answer(p, ok, invoked) ==
  [type |-> "response", id |-> p, ok |-> ok, invoked |-> invoked]
PromptResult(p) == [type |-> "prompt_result", id |-> p]
AgentStart == [type |-> "agent_start"]
Output == [type |-> "output"]
AgentEnd(turn) == [type |-> "agent_end", of |-> turn]
Turns == (SUBSET Prompts) \cup {{Own}}
TurnFrames ==
  {AgentStart, Output}
    \cup {Answer(p, ok, invoked) : p \in Prompts, ok \in BOOLEAN, invoked \in BOOLEAN}
    \cup {PromptResult(p) : p \in Prompts} \cup {AgentEnd(t) : t \in Turns}
PromptFrames == TurnFrames \cup {Negotiated}

\* The negotiation is answered by a frame of its own, and the output of OMP is as long
\* as a frame that has to be cut, of two chunks.
ASSUME FramesAssumption ==
  /\ PromptFrames \subseteq Frames /\ Negotiated \notin TurnFrames
  /\ MinChunked - MaxChunkBytes \in 1..MaxChunkBytes
  /\ MinChunked <= MaxReassembled /\ MaxChunks >= 2

VARIABLES
  \* OMP and the pipes, for the runtime the host has.
  running,    \* RpcProcess.running
  turn,       \* the prompts of the running turn, {} when OMP is idle
  silent,     \* the turn has given no output yet
  followUps,  \* prompts OMP has accepted for later turns
  cmds,       \* commands written to OMP and not read
  pipe,       \* lines OMP wrote that the decoder has not read
  decoder,    \* RpcProcess.#decoder
  pending,    \* RpcProcess.#pending: prompts that await a response
  \* The host.
  up,         \* #rpc is set and its parity passed
  failed,     \* #parityFailed
  stage,      \* stage[p]: where sendPrompt of p stands
  watched,    \* prompts whose sendPrompt arms and clears the timeout
  drafts,     \* #promptLifecycle, oldest first
  draining,   \* <<>>, or the drafts a restart holds in a local variable, in a tuple
  broken,     \* a teardown failed: every wait for the barrier is rejected
  stale,      \* prompts, and Abort, that go on with a runtime that is gone
  streaming,  \* #streaming
  armed,      \* #responseStartWatchdog
  aborting,   \* the timeout is about to send its abort
  \* Bounds and history.
  owns, soiled, restarts,
  restored,   \* restored[p]: how often p was given back to the composer
  finished,   \* prompts OMP has dealt with
  swept,      \* prompts whose draft went with the end of another turn
  dropped,    \* prompts whose draft went with a restart whose wait was rejected
  unread,     \* frames OMP wrote and the host has not handled
  inOrder     \* the host has handled frames in the order they were written

ompVars == <<turn, silent, followUps, cmds>>
wireVars == <<running, pipe, decoder>>
hostVars == <<up, failed, stage, watched, drafts, draining, stale, streaming, armed,
            aborting>>
countVars == <<owns, soiled, restarts, broken, dropped>>
proofVars == <<restored, finished, swept, unread, inOrder>>
deliveryVars == <<ompVars, wireVars, pending, hostVars, countVars, proofVars>>

Stages == {"unsent", "preparing", "announcing", "requested", "taken", "refused"}

DeliveryTypeOK ==
  /\ running \in BOOLEAN /\ turn \in Turns /\ silent \in BOOLEAN
  /\ followUps \in Seq(Prompts)
  /\ cmds \in Seq(Prompts \cup {Abort})
  /\ pipe \in Seq(Lines) /\ decoder \in Decoders /\ Len(decoder.assembly) <= 1
  /\ pending \subseteq {p \in Prompts : stage[p] = "requested"}
  /\ up \in BOOLEAN /\ failed \in BOOLEAN
  /\ stage \in [Prompts -> Stages] /\ watched \subseteq Prompts
  /\ drafts \in Seq(Prompts) /\ draining \in Seq(Seq(Prompts)) /\ Len(draining) <= 1
  /\ stale \subseteq Prompts \cup {Abort}
  /\ streaming \in BOOLEAN /\ armed \in BOOLEAN /\ aborting \in BOOLEAN
  /\ owns \in 0..MaxOwn /\ soiled \in 0..MaxSoiled /\ restarts \in 0..MaxRestarted
  /\ broken \in BOOLEAN /\ dropped \subseteq Prompts
  /\ restored \in [Prompts -> Nat]
  /\ finished \subseteq Prompts /\ swept \subseteq Prompts
  /\ unread \in Seq(PromptFrames) /\ inOrder \in BOOLEAN

DeliveryInit ==
  /\ running = TRUE /\ turn = {} /\ silent = FALSE /\ followUps = <<>> /\ cmds = <<>>
  /\ pipe = <<Whole(Negotiated)>> /\ decoder = BeginNegotiation(NewDecoder)
  /\ pending = {}
  /\ up = FALSE /\ failed = FALSE
  /\ stage = [p \in Prompts |-> "unsent"] /\ watched = {}
  /\ drafts = <<>> /\ draining = <<>> /\ stale = {}
  /\ streaming = FALSE /\ armed = FALSE /\ aborting = FALSE
  /\ owns = 0 /\ soiled = 0 /\ restarts = 0 /\ broken = FALSE /\ dropped = {}
  /\ restored = [p \in Prompts |-> 0] /\ finished = {} /\ swept = {}
  /\ unread = <<Negotiated>> /\ inOrder = TRUE

-----------------------------------------------------------------------------
(* PromptLifecycle. *)

\* fail: the draft is given back, unless it is gone already.
GiveBack(count, ds, p) ==
  IF p \in Range(ds) THEN [count EXCEPT ![p] = @ + 1] ELSE count

\* drain, and restoreDrafts of what it gave.
GiveBackAll(count, ps) == [p \in Prompts |-> IF p \in ps THEN count[p] + 1 ELSE count[p]]

\* complete: the drafts but those of ps, in their order.
Without(ds, ps) ==
  FoldLeft(LAMBDA kept, p : IF p \in ps THEN kept ELSE Append(kept, p), <<>>, ds)

\* agentEnded: the oldest draft goes, whichever prompt the turn was for.
AgentEnded(ds) == IF ds = <<>> THEN ds ELSE Tail(ds)

-----------------------------------------------------------------------------
(* OMP, external: it answers commands in order and runs one turn at a time.  *)
(* After a protocol failure it reads and writes on until it is terminated.    *)

\* OMP writes a frame on one line; its output is long and comes in two chunks.
ChunksOf(id, frame) ==
  <<Chunk(id, 0, 2, MinChunked, MaxChunkBytes, frame),
    Chunk(id, 1, 2, MinChunked, MinChunked - MaxChunkBytes, frame)>>
WriteLines(lines, frames) ==
  /\ Len(pipe) < MaxPipe
  /\ pipe' = pipe \o lines
  /\ unread' = unread \o frames
  /\ UNCHANGED <<running, decoder, inOrder>>
Write(frames) == WriteLines([i \in DOMAIN frames |-> Whole(frames[i])], frames)

\* A prompt command is refused, dealt with without a turn, or accepted.
OmpRefuse(p) ==
  /\ Write(<<Answer(p, FALSE, FALSE)>>)
  /\ UNCHANGED <<turn, silent, followUps, finished>>

OmpLocal(p) ==
  /\ Write(<<PromptResult(p), Answer(p, TRUE, FALSE)>>)
  /\ finished' = finished \cup {p}
  /\ UNCHANGED <<turn, silent, followUps>>

OmpAccept(p) ==
  \/ /\ turn = {}
     /\ turn' = {p} /\ silent' = TRUE
     /\ Write(<<Answer(p, TRUE, TRUE), AgentStart>>)
     /\ UNCHANGED <<followUps, finished>>
  \/ /\ turn # {}
     /\ Write(<<Answer(p, TRUE, TRUE)>>)
     /\ \/ followUps' = Append(followUps, p) /\ UNCHANGED turn
        \/ turn \subseteq Prompts /\ turn' = turn \cup {p} /\ UNCHANGED followUps
     /\ UNCHANGED <<silent, finished>>

\* A turn ends, by itself or by an abort, and the next one begins.
EndOfTurn ==
  /\ finished' = finished \cup (turn \cap Prompts)
  /\ IF followUps = <<>>
       THEN /\ turn' = {} /\ silent' = FALSE /\ UNCHANGED followUps
            /\ Write(<<AgentEnd(turn)>>)
       ELSE /\ turn' = {Head(followUps)} /\ silent' = TRUE /\ followUps' = Tail(followUps)
            /\ Write(<<AgentEnd(turn), AgentStart>>)

OmpReads ==
  /\ running /\ cmds # <<>>
  /\ cmds' = Tail(cmds)
  /\ \/ \E p \in Prompts : p = Head(cmds) /\ (OmpRefuse(p) \/ OmpLocal(p) \/ OmpAccept(p))
     \/ Head(cmds) = Abort /\ turn # {} /\ EndOfTurn
     \/ Head(cmds) = Abort /\ turn = {}
        /\ UNCHANGED <<turn, silent, followUps, wireVars, finished, unread, inOrder>>
  /\ UNCHANGED <<pending, hostVars, countVars, restored, swept>>

OmpOutput ==
  /\ running /\ turn # {} /\ silent
  /\ silent' = FALSE
  /\ \E id \in ChunkIds : WriteLines(ChunksOf(id, Output), <<Output>>)
  /\ UNCHANGED <<turn, followUps, cmds, pending, hostVars, countVars, restored, finished, swept>>

OmpEnds ==
  /\ running /\ turn # {}
  /\ EndOfTurn
  /\ UNCHANGED <<cmds, pending, hostVars, countVars, restored, swept>>

OmpBegins ==
  /\ running /\ turn = {} /\ owns < MaxOwn /\ owns + soiled < MaxOdd
  /\ owns' = owns + 1
  /\ turn' = {Own} /\ silent' = TRUE
  /\ Write(<<AgentStart>>)
  /\ UNCHANGED <<followUps, cmds, pending, hostVars, soiled, restarts, broken, dropped, restored,
                 finished, swept>>

\* Something prints into the output of OMP, even between two chunks, or a chunk is
\* out of its run or beyond a limit.
Strays == {Garbled} \cup
  {Chunk(id, 1, 2, MinChunked, MaxChunkBytes, Output) : id \in ChunkIds} \cup
  {Chunk(id, 0, 2, MaxReassembled + 1, MaxChunkBytes, Output) : id \in ChunkIds}
OmpSoils ==
  /\ running /\ soiled < MaxSoiled /\ owns + soiled < MaxOdd
  /\ soiled' = soiled + 1
  /\ \E i \in {Len(pipe), Len(pipe) + 1} \ {0}, stray \in Strays : pipe' = InsertAt(pipe, i, stray)
  /\ UNCHANGED <<running, decoder, ompVars, pending, hostVars, owns, restarts, broken,
                 dropped, proofVars>>

-----------------------------------------------------------------------------
(* Handling one piece of output. *)

\* What handling frames changes, as a record for the fold over a piece; settled
\* are the answers whose requests go on after it.
Handling ==
  [pending |-> pending, drafts |-> drafts, restored |-> restored, swept |-> swept,
   streaming |-> streaming, armed |-> armed, up |-> up, settled |-> <<>>]

\* RpcProcess.#handleFrame: an answer nobody waits for any more settles nothing.
Settle(h, f) ==
  IF f.type = "response" /\ f.id \in h.pending
    THEN [h EXCEPT !.pending = @ \ {f.id}, !.settled = Append(@, f)]
    ELSE h

\* Mutated form of Observed: only output clears the timeout.
ObservedOutput(f) == f.type \in {"output"}
\* ResponseStartWatchdog.observe: output, or the end of the turn.
Observed(f) == f.type \in {"output", "agent_end", "prompt_result"}

\* #handleRpcFrame.
HandleRpcFrame(h, f) ==
  CASE f = AgentStart -> [h EXCEPT !.streaming = TRUE]
    [] f.type = "agent_end" ->
         [h EXCEPT !.streaming = FALSE, !.drafts = AgentEnded(@),
            !.swept = @ \cup (Range(h.drafts) \ (Range(AgentEnded(h.drafts)) \cup f.of))]
    [] f.type = "prompt_result" ->
         [h EXCEPT !.streaming = FALSE, !.drafts = Without(@, {f.id})]
    [] f.type = "response" /\ ~f.ok ->
         [h EXCEPT !.restored = GiveBack(@, h.drafts, f.id), !.drafts = Without(@, {f.id})]
    [] OTHER -> h

\* The negotiation is the last of the startup this module follows.
HandleFrame(h0, f) ==
  LET h == Settle(h0, f)
      seen == [h EXCEPT !.armed = @ /\ ~Observed(f)]
  IN  IF f = Negotiated THEN [h0 EXCEPT !.up = TRUE]
      ELSE IF ~h.up THEN h
      ELSE HandleRpcFrame(seen, f)

\* sendPrompt after its response: the timeout is cleared when OMP dealt with the
\* prompt without a turn, or refused it; then its draft comes back.
GoOn(h, answer) ==
  LET cleared == IF answer.ok THEN ~answer.invoked ELSE answer.id \in watched
  IN  [h EXCEPT !.armed = @ /\ ~cleared,
         !.restored = IF answer.ok THEN @ ELSE GiveBack(@, h.drafts, answer.id),
         !.drafts = IF answer.ok THEN @ ELSE Without(@, {answer.id})]

\* The requests of ps are rejected, and each sendPrompt ends.
Reject(h, ps) ==
  [h EXCEPT !.pending = @ \ ps,
     !.armed = @ /\ ps \cap watched = {},
     !.restored = GiveBackAll(@, Range(h.drafts) \cap ps),
     !.drafts = Without(@, ps)]

Become(h) ==
  /\ pending' = h.pending /\ drafts' = h.drafts /\ restored' = h.restored
  /\ swept' = h.swept /\ streaming' = h.streaming /\ armed' = h.armed /\ up' = h.up

StageAfter(answers, refused) ==
  [p \in Prompts |->
     IF p \in refused THEN "refused"
     ELSE IF \E i \in DOMAIN answers : answers[i].id = p /\ answers[i].ok THEN "taken"
     ELSE IF \E i \in DOMAIN answers : answers[i].id = p THEN "refused"
     ELSE stage[p]]

\* A "data" event: push, the frames, then what awaited their answers.
Data ==
  /\ running
  /\ \E k \in 1..Len(pipe) :
       LET pushed == Push(decoder, SubSeq(pipe, 1, k))
           frames == pushed.frames
           handled == FoldLeft(HandleFrame, Handling, frames)
           after == FoldLeft(GoOn, handled, handled.settled)
       IN  /\ decoder' = IF Negotiated \in Range(frames) THEN EnableV2(pushed.decoder)
                        ELSE pushed.decoder
           /\ pipe' = SubSeq(pipe, pushed.read + 1, Len(pipe))
           /\ IF pushed.threw
                THEN \* #fail: the frames of the piece are gone, requests are rejected.
                     /\ failed' = TRUE
                     /\ Become(Reject(Handling, pending))
                     /\ stage' = StageAfter(<<>>, pending)
                     /\ unread' = <<>> /\ UNCHANGED inOrder
                ELSE /\ UNCHANGED failed
                     /\ Become(after)
                     /\ stage' = StageAfter(handled.settled, {})
                     /\ unread' = SubSeq(unread, Len(frames) + 1, Len(unread))
                     /\ inOrder' = (inOrder /\ (failed \/ IsPrefix(frames, unread)))
  /\ UNCHANGED <<running, ompVars, watched, draining, stale, aborting, countVars, finished>>

-----------------------------------------------------------------------------
(* sendPrompt. *)

\* The prompt is given back and never sent.
Refuse(p) ==
  /\ stage' = [stage EXCEPT ![p] = "refused"]
  /\ restored' = [restored EXCEPT ![p] = @ + 1]

\* A prompt of the view, up to the advisor probe and the reservation it awaits.
Submit(p) ==
  /\ stage[p] = "unsent"
  /\ IF up /\ ~failed /\ running
       THEN stage' = [stage EXCEPT ![p] = "preparing"] /\ UNCHANGED restored
       ELSE Refuse(p)
  /\ UNCHANGED <<ompVars, wireVars, pending, up, failed, watched, drafts, draining,
                 stale, streaming, armed, aborting, countVars, finished, swept, unread,
                 inOrder>>

\* The command is written: RpcProcess.request.  Its stdin is closed once it failed,
\* and then the request is rejected and its draft given back.
Request(p, h) ==
  IF running /\ ~failed /\ p \notin stale
    THEN /\ cmds' = Append(cmds, p)
         /\ Become([h EXCEPT !.pending = @ \cup {p}])
         /\ stage' = [stage EXCEPT ![p] = "requested"]
    ELSE /\ UNCHANGED cmds
         /\ Become(Reject(h, {p}))
         /\ stage' = [stage EXCEPT ![p] = "refused"]

\* After both: it must still be the same runtime.  A prompt sent while no turn runs
\* is watched, and its command waits for the message to the view.
Prepared(p) ==
  /\ stage[p] = "preparing"
  /\ IF ~(up /\ running) \/ p \in stale
       THEN /\ Refuse(p)
            /\ UNCHANGED <<cmds, pending, watched, drafts, swept, streaming, armed, up>>
     ELSE IF ~streaming
       THEN /\ stage' = [stage EXCEPT ![p] = "announcing"]
            /\ drafts' = Append(drafts, p)
            /\ watched' = watched \cup {p}
            /\ UNCHANGED <<cmds, pending, restored, swept, streaming, armed, up>>
     ELSE Request(p, [Handling EXCEPT !.drafts = Append(@, p)]) /\ UNCHANGED watched
  /\ UNCHANGED <<turn, silent, followUps, wireVars, failed, draining, stale, aborting, countVars,
                 finished, unread, inOrder>>

\* The promptPending message was posted: arm, then request.
Announced(p) ==
  /\ stage[p] = "announcing"
  /\ Request(p, [Handling EXCEPT !.armed = TRUE])
  /\ UNCHANGED <<turn, silent, followUps, wireVars, failed, watched, draining, stale, aborting,
                 countVars, finished, unread, inOrder>>

\* The request of p has waited 30 seconds.
TimesOut(p) ==
  /\ p \in pending
  /\ Become(Reject(Handling, {p}))
  /\ stage' = StageAfter(<<>>, {p})
  /\ UNCHANGED <<ompVars, wireVars, failed, watched, draining, stale, aborting,
                 countVars, finished, unread, inOrder>>

-----------------------------------------------------------------------------
(* The response-start timeout. *)

\* onTimeout.  Without a runtime the waiting state of the view is retired.
TimerFires ==
  /\ armed /\ ~aborting
  /\ armed' = FALSE
  /\ aborting' = (up /\ running)
  /\ UNCHANGED <<ompVars, wireVars, pending, up, failed, stage, watched, drafts, draining,
                 stale, streaming, countVars, proofVars>>

\* The abort follows the responseTimeout message; its answer changes nothing.
AbortSent ==
  /\ aborting
  /\ aborting' = FALSE /\ stale' = stale \ {Abort}
  /\ cmds' = IF running /\ ~failed /\ Abort \notin stale THEN Append(cmds, Abort) ELSE cmds
  /\ UNCHANGED <<turn, silent, followUps, wireVars, pending, up, failed, stage, watched, drafts,
                 draining, streaming, armed, countVars, proofVars>>

-----------------------------------------------------------------------------
(* The end of a runtime, and the next one. *)

\* The process is gone and with it what was in the pipes.  Whoever awaits something
\* else meanwhile goes on with a runtime that is no longer #rpc.
Gone ==
  /\ stale' = stale \cup {p \in Prompts : stage[p] \in {"preparing", "announcing"}}
                   \cup (IF aborting THEN {Abort} ELSE {})
  /\ running' = FALSE /\ pipe' = <<>> /\ cmds' = <<>> /\ unread' = <<>>
  /\ turn' = {} /\ silent' = FALSE /\ followUps' = <<>>
  /\ decoder' = [decoder EXCEPT !.assembly = <<>>]

\* "exit": pending requests are rejected, #rpc is cleared.  The timeout stays armed.
Exit ==
  /\ running
  /\ Gone
  /\ Become([Reject(Handling, pending) EXCEPT !.up = FALSE])
  /\ stage' = StageAfter(<<>>, pending)
  /\ UNCHANGED <<failed, watched, draining, aborting, countVars, finished, inOrder>>

\* #blockParity on a frame that shows another model, advisor or tool policy: the
\* drafts are drained before the teardown rejects their requests.
ParityBlocked ==
  /\ up /\ running
  /\ Gone
  /\ failed' = TRUE
  /\ Become([Handling EXCEPT !.up = FALSE, !.pending = {}, !.armed = FALSE, !.drafts = <<>>,
                !.restored = GiveBackAll(@, Range(drafts))])
  /\ stage' = StageAfter(<<>>, pending)
  /\ UNCHANGED <<watched, draining, aborting, countVars, finished, inOrder>>

\* Mutated form of Restart: the drafts are read but stay in the lifecycle.
RestartUndrained ==
  /\ draining = <<>> /\ restarts < MaxRestarted
  /\ restarts' = restarts + 1
  /\ draining' = <<drafts>>
  /\ Gone
  /\ Become([Reject(Handling, pending) EXCEPT !.up = FALSE])
  /\ stage' = StageAfter(<<>>, pending)
  /\ UNCHANGED <<failed, watched, aborting, owns, soiled, broken, dropped, finished, inOrder>>
\* restart() up to its wait for the teardown.
Restart ==
  /\ draining = <<>> /\ restarts < MaxRestarted
  /\ restarts' = restarts + 1
  /\ draining' = <<drafts>>
  /\ Gone
  /\ Become([Reject([Handling EXCEPT !.drafts = <<>>], pending) EXCEPT !.up = FALSE])
  /\ stage' = StageAfter(<<>>, pending)
  /\ UNCHANGED <<failed, watched, aborting, owns, soiled, broken, dropped, finished, inOrder>>

\* The wait is rejected, as a teardown failed, and the restart ends there: the drafts in
\* its local variable are gone, nothing is reset and no other runtime starts.
RestartFails ==
  /\ draining # <<>>
  /\ draining' = <<>>
  /\ broken' = TRUE
  /\ dropped' = dropped \cup Range(draining[1])
  /\ UNCHANGED <<ompVars, wireVars, pending, up, failed, stage, watched, drafts, stale,
                 streaming, armed, aborting, owns, soiled, restarts, proofVars>>

\* After it: the drafts come back and another runtime starts.
Restarted ==
  /\ draining # <<>> /\ ~broken
  /\ draining' = <<>>
  /\ restored' = GiveBackAll(restored, Range(draining[1]))
  /\ streaming' = FALSE /\ armed' = FALSE /\ failed' = FALSE
  /\ running' = TRUE /\ pipe' = <<Whole(Negotiated)>> /\ unread' = <<Negotiated>>
  /\ decoder' = BeginNegotiation(NewDecoder)
  /\ UNCHANGED <<ompVars, pending, up, stage, watched, drafts, stale, aborting, countVars,
                 finished, swept, inOrder>>

DeliveryNext ==
  \/ OmpReads \/ OmpOutput \/ OmpEnds \/ OmpBegins \/ OmpSoils
  \/ Data
  \/ \E p \in Prompts : Submit(p) \/ Prepared(p) \/ Announced(p) \/ TimesOut(p)
  \/ TimerFires \/ AbortSent
  \/ Exit \/ ParityBlocked \/ Restart \/ RestartFails \/ Restarted

DeliverySpec == DeliveryInit /\ [][DeliveryNext]_deliveryVars

-----------------------------------------------------------------------------
(* Properties. *)

InPlaces(p) ==
  (IF p \in Range(drafts) THEN 1 ELSE 0)
  + (IF draining # <<>> /\ p \in Range(draining[1]) THEN 1 ELSE 0)
  + restored[p]

\* A prompt OMP has not dealt with is kept in exactly one place, the drafts, a restart
\* that will give it back, or the composer, and no prompt goes back to the composer
\* twice, whichever of the refusal, the rejection of its request, the restart and the
\* parity check comes first (#sendPrompt, #handleRpcFrame, #restartRpc, #blockParity).
\* Two kinds of prompts are lost and excepted: those whose draft went with the end of
\* another turn, and those a restart had drained when its wait was rejected.
PromptKept ==
  \A p \in Prompts :
    /\ restored[p] <= 1
    /\ stage[p] \notin {"unsent", "preparing"} /\ p \notin finished \cup swept
         => InPlaces(p) = IF p \in dropped THEN 0 ELSE 1

\* The response-start timeout never runs against an OMP that has nothing to do,
\* where its abort would hit whatever comes next (ResponseStartWatchdog).
TimerHasWork ==
  armed /\ up /\ running /\ ~failed /\ pipe = <<>> =>
    turn # {} \/ followUps # <<>> \/ Range(cmds) \cap Prompts # {}

\* The host handles what OMP wrote, in order and without a gap, until something
\* that is no frame comes; output OMP wrote by the protocol never fails, however
\* the pipe cuts it and even when chunks follow the negotiation at once
\* (RpcFrameDecoder.push, RpcProcess.#handleFrame).
WireInOrder ==
  /\ inOrder
  /\ soiled = 0 /\ running /\ ~failed =>
       LET rest == Push(decoder, pipe) IN ~rest.threw /\ rest.frames = unread
===============================================================================
