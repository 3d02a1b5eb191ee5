------------------------------ MODULE ViewReplay ------------------------------
(***************************************************************************)
(* The buffer of frames that arrive while a reopened view is rehydrated    *)
(* and the requests that await the user (rpc/RpcViewReplayBuffer.ts).      *)
(* Pure operators on its state; ChatView uses them.                        *)
(***************************************************************************)
EXTENDS Integers, SequencesExt

\* revision 0 stands for undefined; requests is the Map, in its order.
NewReplay == [revision |-> 0, frames |-> <<>>, requests |-> <<>>]
Replays(revisions, frames) ==
  [revision : {0} \cup revisions, frames : Seq(frames), requests : Seq(frames)]

Begin(b, revision) == [b EXCEPT !.revision = revision, !.frames = <<>>]

Captures(b, revision) == b.revision # 0 /\ b.revision = revision
Capture(b, frame) == [b EXCEPT !.frames = Append(@, frame)]

ResetAtHistoryBoundary(b, revision) ==
  IF b.revision = revision THEN [b EXCEPT !.frames = <<>>] ELSE b

Drained(b, revision) == IF b.revision = revision THEN b.frames ELSE <<>>
Drain(b, revision) == ResetAtHistoryBoundary(b, revision)

\* Mutated form of Cancel: the requests go with the frames.
CancelAll(b) == NewReplay
Cancel(b) == [b EXCEPT !.revision = 0, !.frames = <<>>]
Finish(b, revision) == IF b.revision = revision THEN Cancel(b) ELSE b

\* The members of s that are in S, in their order.
Only(s, S) ==
  FoldLeft(LAMBDA kept, x : IF x \in S THEN Append(kept, x) ELSE kept, <<>>, s)

Without(requests, id) == Only(requests, {f \in Range(requests) : f.id # id})

\* A Map keeps the place of a key that is set again.
ObserveUiRequest(b, f) ==
  IF f.type # "extension_ui_request" THEN b
  ELSE IF f.method = "cancel" THEN [b EXCEPT !.requests = Without(@, f.id)]
  ELSE IF \E i \in DOMAIN b.requests : b.requests[i].id = f.id THEN b
  ELSE [b EXCEPT !.requests = Append(@, f)]

ResolveUiRequest(b, id) == [b EXCEPT !.requests = Without(@, id)]

===============================================================================
