----------------------------- MODULE WebviewState -----------------------------
(***************************************************************************)
(* What the chat's webview shows (rpc/webviewState.ts) and how frames of   *)
(* OMP and messages of the host change it.  Pure operators; ChatView uses  *)
(* them.  A message is a number, the requests are a set, since an answer   *)
(* or a cancellation removes every request with its id.  Tools, notices,   *)
(* subagents, widgets and the model shown are left out.                    *)
(***************************************************************************)
EXTENDS Integers, SequencesExt

\* live is #liveMessageKey: the place of the message that is being streamed, or 0.
InitialView == [messages |-> <<>>, live |-> 0, requests |-> {}, streaming |-> FALSE,
                transport |-> "starting", parity |-> "pending"]

Views(messages, requests) ==
  [messages : Seq(messages), live : Nat, requests : SUBSET requests, streaming : BOOLEAN,
   transport : {"starting", "ready", "exited", "failed"},
   parity : {"pending", "passed", "failed"}]

\* reduceMessage.  A start, and an update or end without one, opens a new message.
ReduceMessage(v, m, phase) ==
  LET opens == phase = "start" \/ v.live = 0
      messages == IF opens THEN Append(v.messages, m)
                  ELSE [v.messages EXCEPT ![v.live] = m]
  IN  [v EXCEPT !.messages = messages,
         !.live = IF phase = "end" THEN 0 ELSE IF opens THEN Len(messages) ELSE @]

\* reduceUiRequest, for requests that are shown.
ReduceUiRequest(v, f) ==
  IF f.method = "cancel" THEN [v EXCEPT !.requests = @ \ {f.id}]
  ELSE [v EXCEPT !.requests = @ \cup {f.id}]

\* reduceResponse.  A busy history page changes nothing, nor does a page itself.
ReduceResponse(v, f) ==
  CASE f.command = "get_state" -> [v EXCEPT !.streaming = f.isStreaming]
    [] f.command = "get_messages" -> [v EXCEPT !.messages = f.messages, !.live = 0]
    [] OTHER -> v

\* The last agent_end of a turn, and a prompt_result without an agent.
ReduceRpcFrame(v, f) ==
  CASE f.type \in {"agent_start", "turn_start"} -> [v EXCEPT !.streaming = TRUE]
    [] f.type \in {"agent_end", "prompt_result"} -> [v EXCEPT !.streaming = FALSE]
    [] f.type = "message" -> ReduceMessage(v, f.message, f.phase)
    [] f.type = "extension_ui_request" -> ReduceUiRequest(v, f)
    [] f.type = "response" -> ReduceResponse(v, f)

\* applyHostFrame.
ApplyHostFrame(v, f) ==
  CASE f.type = "bootstrap" -> [v EXCEPT !.parity = "pending"]
    [] f.type = "parity" -> [v EXCEPT !.parity = IF f.ok THEN "passed" ELSE "failed"]
    [] f.type = "transport" -> [v EXCEPT !.transport = f.status]

\* receiveHostMessage of rpc/webview.ts: frames of OMP come wrapped.
ReceiveHostMessage(v, f) ==
  CASE f.type = "rpc" -> ReduceRpcFrame(v, f.frame)
    [] f.type = "removeRequest" -> [v EXCEPT !.requests = @ \ {f.id}]
    [] OTHER -> ApplyHostFrame(v, f)

\* promptReady of rpc/webview.ts.
PromptReady(v) == v.transport = "ready" /\ v.parity = "passed"

===============================================================================
