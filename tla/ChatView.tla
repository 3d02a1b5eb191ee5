------------------------------- MODULE ChatView -------------------------------
(***************************************************************************)
(* A chat whose view comes and goes while OMP works: how                   *)
(* rpc/RpcSessionHost.ts brings a reopened view up to date                 *)
(* (#rehydrateWebview, #observeRpcFrame, #deliverRpcFrame) with the buffer *)
(* of ViewReplay, rpc/messageHistory.ts and the reducer of WebviewState.   *)
(* The runtime has started and passed parity; its end is RpcSessionHost's. *)
(*                                                                         *)
(* A piece of output is handled in one go, and what awaits an answer goes  *)
(* on after the whole piece.  A post reaches the view when it is made, as  *)
(* posts keep their order and the view only listens.                       *)
(***************************************************************************)
EXTENDS WebviewState, ViewReplay, FiniteSets

CONSTANTS Requests,    \* ids of requests to the user
          MaxMessages,
          MaxSaid,     \* bound on frames OMP writes by itself
          MaxLocal,    \* after so many of them it runs no more commands of its own
          MaxRevisions,\* bound on attachments and detachments
          MaxOut,      \* bound on frames OMP writes ahead of the host
          MaxActive    \* frames of a turn that are kept: 4096 and 8 MiB

ASSUME ViewAssumption ==
  {MaxMessages, MaxSaid, MaxLocal, MaxRevisions, MaxOut, MaxActive} \subseteq Nat

Revisions == 1..MaxRevisions

\* The frames and commands that matter here.  rev stands for the id of a request
\* of the host: every rehydration has requests of its own.
AgentStarts == [type |-> "agent_start"]
TurnStarts == [type |-> "turn_start"]
AgentEnds == [type |-> "agent_end"]
\* The prompt_result of a command of OMP's own: agentInvoked is false.
LocalResult == [type |-> "prompt_result"]
Message(m, phase) == [type |-> "message", message |-> m, phase |-> phase]
Asks(r) == [type |-> "extension_ui_request", method |-> "select", id |-> r]
Cancels(r) == [type |-> "extension_ui_request", method |-> "cancel", id |-> r]
State(isStreaming, rev) ==
  [type |-> "response", command |-> "get_state", isStreaming |-> isStreaming, rev |-> rev]
Messages(messages, rev) ==
  [type |-> "response", command |-> "get_messages", messages |-> messages, rev |-> rev]
MessagesPage(messages, rev) ==
  [type |-> "response", command |-> "get_messages_page", busy |-> FALSE,
   messages |-> messages, rev |-> rev]
SessionBusy(rev) ==
  [type |-> "response", command |-> "get_messages_page", busy |-> TRUE, rev |-> rev]
Command(type, rev) == [type |-> type, rev |-> rev]
UiResponse(r) == [type |-> "extension_ui_response", id |-> r]

VARIABLES
  log,       \* OMP: messages it has finished
  live,      \* the message it is streaming, or 0
  busy,      \* a turn runs
  hushed,    \* during which a prompt_result without an agent was written
  asked,     \* requests it has made and not settled
  made,      \* requests it has made
  out,       \* frames it wrote that the host has not handled
  in,        \* commands written to it
  following, \* the host: #streaming
  active,    \* #activeTurnFrames
  overflow,  \* #activeTurnOverflow
  replay,    \* #viewReplay
  revision,  \* #attachmentRevision
  page,      \* the webview: none, loading, listening, or ready (its message came)
  view,      \* its state
  jobs,      \* jobs[r]: where #rehydrateWebview of attachment r stands
  todo,      \* todo[r]: frames it still has to post one after the other
  said,      \* bound
  lost       \* messages no post will bring to this view, see the README

agentVars == <<log, live, busy, hushed, asked, made, said>>
chatVars == <<following, active, overflow>>
paneVars == <<revision, page, view, lost>>
viewVars == <<agentVars, out, in, chatVars, replay, paneVars, jobs, todo>>

Phases == {"none", "bootstrap", "state", "parity", "page", "messages", "replay", "done"}

ViewTypeOK ==
  /\ log \in Seq(1..MaxMessages) /\ live \in 0..MaxMessages
  /\ busy \in BOOLEAN /\ hushed \in BOOLEAN
  /\ asked \subseteq made /\ made \subseteq Requests /\ said \in 0..MaxSaid
  /\ Len(active) <= MaxActive /\ (overflow => active = <<>>)
  /\ following \in BOOLEAN /\ overflow \in BOOLEAN
  /\ replay.revision \in {0, revision}
  /\ \A i \in DOMAIN replay.requests : replay.requests[i].id \in Requests
  /\ revision \in 0..MaxRevisions /\ page \in {"none", "loading", "listening", "ready"}
  /\ view \in Views(1..MaxMessages, Requests)
  /\ view.live \in 0..Len(view.messages)
  /\ jobs \in [Revisions -> Phases]
  /\ \A r \in Revisions : todo[r] # <<>> => jobs[r] \in {"replay", "done"}
  /\ lost \subseteq 1..MaxMessages

ViewInit ==
  /\ log = <<>> /\ live = 0 /\ busy = FALSE /\ hushed = FALSE /\ asked = {} /\ made = {} /\ said = 0
  /\ out = <<>> /\ in = <<>>
  /\ following = FALSE /\ active = <<>> /\ overflow = FALSE /\ replay = NewReplay
  /\ revision = 0 /\ page = "none" /\ view = InitialView /\ lost = {}
  /\ jobs = [r \in Revisions |-> "none"] /\ todo = [r \in Revisions |-> <<>>]

-----------------------------------------------------------------------------
(* OMP, external. *)

Writes(frame) ==
  /\ Len(out) < MaxOut
  /\ out' = Append(out, frame)
  /\ UNCHANGED <<chatVars, replay, paneVars, jobs, todo>>
Says(frame) == Writes(frame) /\ said < MaxSaid /\ said' = said + 1

TurnBegins ==
  /\ ~busy
  /\ busy' = TRUE /\ hushed' = FALSE
  /\ Says(AgentStarts)
  /\ UNCHANGED <<log, live, asked, made, in>>

\* It goes on after a tool or a steer.  This tells the host and the view nothing new
\* unless such a result made them take the turn for over.
TurnGoesOn ==
  /\ hushed
  /\ Says(TurnStarts)
  /\ UNCHANGED <<log, live, busy, hushed, asked, made, in>>

MessageBegins ==
  /\ busy /\ live = 0 /\ Len(log) < MaxMessages
  /\ live' = Len(log) + 1
  /\ Says(Message(live', "start"))
  /\ UNCHANGED <<log, busy, hushed, asked, made, in>>

MessageEnds ==
  /\ live # 0
  /\ live' = 0 /\ log' = Append(log, live)
  /\ Says(Message(live, "end"))
  /\ UNCHANGED <<busy, hushed, asked, made, in>>

TurnEnds ==
  /\ busy /\ live = 0
  /\ busy' = FALSE /\ hushed' = FALSE
  /\ Says(AgentEnds)
  /\ UNCHANGED <<log, live, asked, made, in>>

\* A prompt that is a command of OMP's own is done, also one sent while a turn runs.
LocalCommand ==
  /\ said < MaxLocal
  /\ hushed' = busy
  /\ Says(LocalResult)
  /\ UNCHANGED <<log, live, busy, asked, made, in>>

RequestMade(r) ==
  /\ r \notin made
  /\ asked' = asked \cup {r} /\ made' = made \cup {r}
  /\ Says(Asks(r))
  /\ UNCHANGED <<log, live, busy, hushed, in>>

RequestCancelled(r) ==
  /\ r \in asked
  /\ asked' = asked \ {r}
  /\ Says(Cancels(r))
  /\ UNCHANGED <<log, live, busy, hushed, made, in>>

\* Commands are dealt with in order.
CommandRead ==
  /\ in # <<>>
  /\ in' = Tail(in)
  /\ LET c == Head(in)
     IN  \/ c.type = "get_state" /\ Writes(State(busy, c.rev)) /\ UNCHANGED asked
         \/ c.type = "get_messages" /\ Writes(Messages(log, c.rev)) /\ UNCHANGED asked
         \/ /\ c.type = "get_messages_page"
            /\ Writes(IF busy THEN SessionBusy(c.rev) ELSE MessagesPage(log, c.rev))
            /\ UNCHANGED asked
         \/ /\ c.type = "extension_ui_response"
            /\ asked' = asked \ {c.id}
            /\ UNCHANGED <<out, chatVars, replay, paneVars, jobs, todo>>
  /\ UNCHANGED <<log, live, busy, hushed, made, said>>

-----------------------------------------------------------------------------
(* Handling one piece of output. *)

\* #post: a webview that does not listen yet loses what is posted to it.
Posted(v, message) ==
  IF page \in {"listening", "ready"} THEN ReceiveHostMessage(v, message) ELSE v
Rpc(frame) == [type |-> "rpc", frame |-> frame]

\* What a piece changes, as a record for the folds over it.
Host ==
  [following |-> following, active |-> active, overflow |-> overflow, replay |-> replay,
   view |-> view, jobs |-> jobs, todo |-> todo, in |-> in, lost |-> lost]
Becomes(h) ==
  /\ following' = h.following /\ active' = h.active /\ overflow' = h.overflow
  /\ replay' = h.replay /\ view' = h.view /\ jobs' = h.jobs /\ todo' = h.todo
  /\ in' = h.in /\ lost' = h.lost

\* Mutated form of Remember: the limit of what is kept is not enforced.
RememberAll(h, f) == [h EXCEPT !.active = Append(@, f)]
\* #rememberActiveTurnFrame.
Remember(h, f) ==
  IF h.overflow THEN h
  ELSE IF Len(h.active) >= MaxActive THEN [h EXCEPT !.active = <<>>, !.overflow = TRUE]
  ELSE [h EXCEPT !.active = Append(@, f)]

Forget(h) == [h EXCEPT !.active = <<>>, !.overflow = FALSE]

\* The frames after which no turn is taken to run.
TurnOver == {AgentEnds, LocalResult}

\* Mutated form of Remembers: the frame that begins the turn is not one of it.
RemembersLate(h, f) == h.following
Remembers(h, f) == f = AgentStarts \/ h.following

\* #observeRpcFrame, while #streaming is what it was before the frame.
Observe(h0, f) ==
  LET h == [h0 EXCEPT !.replay = ObserveUiRequest(@, f)]
      begun == IF f = AgentStarts /\ ~h.following THEN Forget(h) ELSE h
      kept == IF Remembers(begun, f) THEN Remember(begun, f) ELSE begun
  IN  IF f \in TurnOver THEN Forget(kept) ELSE kept

\* #handleRpcFrame.
Follow(h, f) ==
  [h EXCEPT !.following = f \in {AgentStarts, TurnStarts} \/ (f \notin TurnOver /\ @)]

\* #deliverRpcFrame.
Deliver(h, f) ==
  IF Captures(h.replay, revision) THEN [h EXCEPT !.replay = Capture(@, f)]
  ELSE [h EXCEPT !.view = Posted(@, Rpc(f))]

ReceiveRpcFrame(h, f) == Deliver(Follow(Observe(h, f), f), f)

\* The request frames among frames.
RequestIds(frames) == {f.id : f \in {g \in Range(frames) : g.type = "extension_ui_request"}}

\* The end of a message that came after the history and goes with the frames
\* captured before it.
Dropped(h, messages) ==
  {m \in 1..MaxMessages :
     /\ Message(m, "end") \in Range(h.replay.frames) \ Range(h.active)
     /\ m \notin Range(messages)}

\* #rehydrateWebview with the history of attachment r: it is shown, then the frames
\* of the running turn and the open requests which are not among them.
HistoryBoundary(h, r, messages) ==
  [h EXCEPT !.lost = Dropped(h, messages),
     !.todo[r] = h.active \o
        Only(h.replay.requests,
             {f \in Range(h.replay.requests) : f.id \notin RequestIds(h.active)}),
     !.replay = ResetAtHistoryBoundary(@, r),
     !.view = Posted(@, Rpc(Messages(messages, r))),
     !.jobs[r] = "replay"]

\* What awaited the answer f, loadRpcMessageHistory included.
Answered(h, f) ==
  CASE f.command = "get_state" /\ f.rev # revision -> [h EXCEPT !.jobs[f.rev] = "done"]
    [] f.command = "get_state" /\ f.rev = revision ->
         [h EXCEPT !.view = Posted(@, Rpc(f)), !.jobs[f.rev] = "parity"]
    [] f.command = "get_messages_page" /\ f.busy ->
         [h EXCEPT !.in = Append(@, Command("get_messages", f.rev)), !.jobs[f.rev] = "messages"]
    [] OTHER ->
         IF f.rev # revision THEN [h EXCEPT !.jobs[f.rev] = "done"]
         ELSE HistoryBoundary(h, f.rev, f.messages)

DataEvent ==
  \E k \in 1..Len(out) :
    LET frames == SubSeq(out, 1, k)
        answers == Only(frames, {f \in Range(frames) : f.type = "response"})
    IN  /\ out' = SubSeq(out, k + 1, Len(out))
        /\ Becomes(FoldLeft(Answered, FoldLeft(ReceiveRpcFrame, Host, frames), answers))
        /\ UNCHANGED <<agentVars, revision, page>>

-----------------------------------------------------------------------------
(* Rehydration of attachment r, from one await to the next. *)

Job(h) == Becomes(h) /\ UNCHANGED <<agentVars, out, revision, page>>

\* The bootstrap message was posted.
Rehydrate(r) ==
  /\ jobs[r] = "bootstrap"
  /\ Job(IF r # revision THEN [Host EXCEPT !.jobs[r] = "done"]
            ELSE [Host EXCEPT !.replay = Begin(@, r), !.jobs[r] = "state",
                    !.in = Append(@, Command("get_state", r))])

\* The state was posted: so is the parity, then the history is asked for.
ParityPosted(r) ==
  /\ jobs[r] = "parity"
  /\ Job([Host EXCEPT !.jobs[r] = "page",
               !.view = IF r = revision THEN Posted(@, [type |-> "parity", ok |-> TRUE]) ELSE @,
               !.in = Append(@, Command("get_messages_page", r))])

FramePosted(r) ==
  /\ jobs[r] = "replay" /\ todo[r] # <<>>
  /\ Job(IF r # revision THEN [Host EXCEPT !.todo[r] = <<>>, !.jobs[r] = "done"]
            ELSE [Host EXCEPT !.todo[r] = Tail(@), !.view = Posted(@, Rpc(Head(todo[r])))])

\* Mutated form of Drains: what was captured meanwhile is not looked at.
DrainsNever(r) == FALSE
\* #drainRehydrationFrames.
Drains(r) == Drained(replay, r) # <<>>

DrainRehydration(r) ==
  /\ jobs[r] = "replay" /\ todo[r] = <<>> /\ r = revision /\ Drains(r)
  /\ Job([Host EXCEPT !.todo[r] = Drained(replay, r), !.replay = Drain(@, r)])

Rehydrated(r) ==
  /\ jobs[r] = "replay" /\ todo[r] = <<>> /\ ~(r = revision /\ Drains(r))
  /\ Job([Host EXCEPT !.jobs[r] = "done", !.replay = Finish(@, r),
               !.view = IF r # revision THEN @
                        ELSE Posted(@, [type |-> "transport", status |-> "ready"])])

-----------------------------------------------------------------------------
(* The view. *)

\* attachWebview and detachWebview.
Turned(to) ==
  /\ revision < MaxRevisions
  /\ revision' = revision + 1 /\ page' = to
  /\ view' = InitialView /\ lost' = {}
  /\ replay' = Cancel(replay)
  /\ UNCHANGED <<agentVars, out, in, chatVars, jobs, todo>>
\* The script of a new webview listens before its "ready" message arrives: at the
\* earliest at once, at the latest then.
AttachWebview == Turned("loading") \/ Turned("listening")
DetachWebview == page # "none" /\ Turned("none")

\* The "ready" message.
Ready ==
  /\ page \in {"loading", "listening"}
  /\ page' = "ready"
  /\ view' = ReceiveHostMessage(view, [type |-> "bootstrap"])
  /\ jobs' = [jobs EXCEPT ![revision] = "bootstrap"]
  /\ UNCHANGED <<agentVars, out, in, chatVars, replay, revision, lost, todo>>

\* The user answers a request; respondToRequest and extensionUiResponse.
Respond(r) ==
  /\ page = "ready" /\ r \in view.requests
  /\ view' = ReceiveHostMessage(view, [type |-> "removeRequest", id |-> r])
  /\ replay' = ResolveUiRequest(replay, r)
  /\ in' = Append(in, UiResponse(r))
  /\ UNCHANGED <<agentVars, out, chatVars, revision, page, lost, jobs, todo>>

ViewNext ==
  \/ TurnBegins \/ TurnGoesOn \/ MessageBegins \/ MessageEnds \/ TurnEnds \/ LocalCommand
  \/ \E r \in Requests : RequestMade(r) \/ RequestCancelled(r) \/ Respond(r)
  \/ CommandRead \/ DataEvent
  \/ \E r \in Revisions :
       Rehydrate(r) \/ ParityPosted(r) \/ FramePosted(r) \/ DrainRehydration(r) \/ Rehydrated(r)
  \/ AttachWebview \/ DetachWebview \/ Ready

ViewSpec == ViewInit /\ [][ViewNext]_viewVars

-----------------------------------------------------------------------------
(* Properties. *)

\* The view takes prompts and the host has handled all OMP wrote.
UpToDate == PromptReady(view) /\ out = <<>>

\* Every message once, where it came first.
Once(messages) ==
  FoldLeft(LAMBDA seen, m : IF m \in Range(seen) THEN seen ELSE Append(seen, m), <<>>, messages)

\* A view that takes prompts shows every message OMP has finished, in order,
\* whatever was said while the view was away or being brought up to date.
\* Messages whose end came in one piece with the history are the exception
\* (#rehydrateWebview, resetAtHistoryBoundary), see the README.
TranscriptComplete ==
  UpToDate =>
    LET Finished(messages) == Only(messages, (1..MaxMessages) \ (lost \cup {live}))
    IN  Finished(Once(view.messages)) = Finished(log)

\* It shows every request that is open and that the user has not answered, also one
\* of an earlier turn or one made while no view was there, and that a turn runs, so
\* that a prompt is sent as a steer or follow-up, unless the turn has outgrown what is
\* kept of it (RpcViewReplayBuffer.pendingUiRequests, #rememberActiveTurnFrame) or a
\* prompt_result without an agent fell into it: the host and the view take any such
\* result for the end of what runs (RpcSessionHost.ts:842, 1596; webviewState.ts:397).
WorkShown ==
  UpToDate =>
    /\ asked \ {r \in Requests : UiResponse(r) \in Range(in)} \subseteq view.requests
    /\ busy /\ ~overflow /\ ~hushed => view.streaming

===============================================================================
