---------------------------- MODULE SessionManager ----------------------------
(***************************************************************************)
(* The chats of one window (sessions/SessionManager.ts): the queue that    *)
(* creates them one by one, the cap on live ones with the suspension of an *)
(* idle chat, resuming and handing off, closing, the list of recent chats  *)
(* and the shutdown of the window.                                         *)
(*                                                                         *)
(* A chat is named by its id, which it keeps when it is closed and resumed *)
(* later; a request for a new chat names the id it will get.  panel[c] is  *)
(* where the chat's SessionPanel stands: it is in #sessions until it is    *)
(* removed, also while it is being closed.  All chats are RPC chats that   *)
(* may write; Loops are the chats of one Loop alias.                       *)
(*                                                                         *)
(* Abstracted: which chat is active and the status of each, which the user *)
(* and the runtimes change at any moment (so any live chat with a session  *)
(* file may be the one to suspend); what a launch takes (directory,        *)
(* launcher, lease), which is one outcome, ready or refused; a worktree's  *)
(* marker, EphemeralWorktree's subject; the 50 records of the recent list. *)
(***************************************************************************)
EXTENDS Naturals, Sequences, FiniteSets, Functions

CONSTANTS Chats,
          Loops,       \* those with the Loop alias
          Stored,      \* recent chats of an earlier window
          Fresh,       \* chats for which a worktree is made
          Stubborn,    \* chats whose disposal may be rejected
          QueueBound,  \* bound: requests that are made at a time
          Cap,         \* MAX_LIVE_RPC_SESSIONS
          Nobody

ASSUME ChatsAssumption ==
  /\ Loops \subseteq Chats /\ Stored \subseteq Chats
  /\ Fresh \subseteq Chats /\ Stubborn \subseteq Chats
  /\ Nobody \notin Chats
ASSUME FiniteAssumption == IsFiniteSet(Chats)
ASSUME BoundAssumption == Cap \in Nat \ {0} /\ QueueBound \in Nat

VARIABLES
  panel,      \* panel[c]: "none" when c is not in #sessions
  file,       \* its OMP session file is known
  unused,     \* #ephemeralWorktrees has it
  tree,       \* its worktree: "unmade", "present" or "removed"
  recent,     \* RecentSessionStore
  queue,      \* #creationQueue: requests not finished
  head,       \* where #createSession stands with the first of them
  victim,     \* the chat it suspends
  flights,    \* #resumeFlights
  handoff,    \* #loopHandoffs has a flight
  shutdown,   \* where shutdown() stands
  closing,    \* the chats that closeAll waits for
  kept        \* history: chats with conversations, not removed by the user

chatVars == <<file, unused, tree>>
queueVars == <<queue, head, victim, flights, handoff>>
endVars == <<shutdown, closing>>
vars == <<panel, chatVars, recent, queueVars, endVars, kept>>

Request == [by : {"command", "handoff", "resume"}, chat : Chats]

TypeOK ==
  /\ panel \in [Chats -> {"none", "open", "disposing", "failed", "cleaning", "releasing"}]
  /\ file \in [Chats -> BOOLEAN] /\ unused \in [Chats -> BOOLEAN]
  /\ tree \in [Chats -> {"unmade", "present", "removed"}]
  /\ recent \subseteq Chats /\ kept \subseteq Chats
  /\ queue \in Seq(Request)
  /\ head \in {"waiting", "suspending", "preparing"}
  /\ victim \in IF head = "suspending" THEN Chats ELSE {Nobody}
  /\ flights \subseteq Chats /\ handoff \in BOOLEAN
  /\ shutdown \in {"no", "queue", "closing", "done", "rejected"}
  /\ closing \subseteq Chats

Init ==
  /\ panel = [c \in Chats |-> "none"]
  /\ file = [c \in Chats |-> FALSE] /\ unused = [c \in Chats |-> FALSE]
  /\ tree = [c \in Chats |-> IF c \in Stored THEN "present" ELSE "unmade"]
  /\ recent = Stored
  /\ queue = <<>> /\ head = "waiting" /\ victim = Nobody
  /\ flights = {} /\ handoff = FALSE
  /\ shutdown = "no" /\ closing = {}
  /\ kept = Stored

-------------------------------------------------------------------------------
Live == {c \in Chats : panel[c] # "none"}

\* Chats with an OMP process, from their opening until the host is disposed.
Running == {c \in Chats : panel[c] \in {"open", "disposing", "failed"}}

Accepting == shutdown = "no"

\* #refresh, after whatever changed: all chats of #sessions with a session file
\* are recent ones, but for those in #ephemeralWorktrees.
Recorded == {c \in Chats : panel'[c] # "none" /\ file'[c] /\ ~unused'[c]}
Refresh == recent' = recent \cup Recorded

\* A chat that can be created: its id is not taken.
New(c) == tree[c] = "unmade" /\ \A i \in DOMAIN queue : queue[i].chat # c

Enqueue(by, c) ==
  /\ Len(queue) < QueueBound
  /\ queue' = Append(queue, [by |-> by, chat |-> c])

-------------------------------------------------------------------------------
(* Requests *)

\* newSession by a command or a first prompt.
NewSession(c) ==
  /\ Accepting /\ New(c)
  /\ Enqueue("command", c)
  /\ UNCHANGED <<panel, chatVars, recent, head, victim, flights, handoff, endVars,
                 kept>>

\* openSession of a chat that is in #sessions.
Reveal(c) ==
  /\ panel[c] # "none"
  /\ UNCHANGED <<panel, chatVars, queueVars, endVars, kept>>
  /\ Refresh

\* Mutated form of OpenSession: it does not join the flight of the same chat.
OpenSessionAgain(c) ==
  /\ panel[c] = "none" /\ c \in recent /\ Accepting
  /\ Enqueue("resume", c) /\ flights' = flights \cup {c}
  /\ UNCHANGED <<panel, chatVars, recent, head, victim, handoff, endVars, kept>>

\* openSession of a closed chat (a second call joins the flight of the first).
OpenSession(c) ==
  /\ panel[c] = "none" /\ c \in recent \ flights /\ Accepting
  /\ Enqueue("resume", c) /\ flights' = flights \cup {c}
  /\ UNCHANGED <<panel, chatVars, recent, head, victim, handoff, endVars, kept>>

\* #handoffToLoop: reveals the controller of the alias, or starts one unless a
\* flight is there to be joined.
Handoff(c) ==
  /\ c \in Loops
  /\ \/ Reveal(c)
     \/ /\ Live \cap Loops = {} /\ ~handoff /\ Accepting /\ New(c)
        /\ Enqueue("handoff", c) /\ handoff' = TRUE
        /\ UNCHANGED <<panel, chatVars, recent, head, victim, flights, endVars, kept>>

\* removeRecent.
RemoveRecent(c) ==
  /\ panel[c] = "none" /\ c \in recent
  /\ kept' = kept \ {c}
  /\ UNCHANGED <<panel, chatVars, queueVars, endVars>>
  /\ recent' = (recent \ {c}) \cup Recorded

-------------------------------------------------------------------------------
(* #createSession, for the first request of the queue *)

\* Mutated form of Finish: the chat to suspend is not forgotten.
FinishWithVictim ==
  LET r == Head(queue) IN
  /\ queue' = Tail(queue) /\ head' = "waiting" /\ UNCHANGED victim
  /\ flights' = IF r.by = "resume" THEN flights \ {r.chat} ELSE flights
  /\ handoff' = (handoff /\ r.by # "handoff")

\* The request ends and the next one begins.
Finish ==
  LET r == Head(queue) IN
  /\ queue' = Tail(queue) /\ head' = "waiting" /\ victim' = Nobody
  /\ flights' = IF r.by = "resume" THEN flights \ {r.chat} ELSE flights
  /\ handoff' = (handoff /\ r.by # "handoff")

Prepare ==
  head' = "preparing" /\ victim' = Nobody /\ UNCHANGED <<queue, flights, handoff>>

\* A Loop that is already there is revealed instead.
FindLoop ==
  /\ queue # <<>> /\ head = "waiting" /\ Head(queue).chat \in Loops
  /\ Finish
  /\ UNCHANGED <<panel, chatVars, endVars, kept>>
  /\ Live \cap Loops # {}
  /\ Refresh

\* Mutated form of NoLoop: only #handoffToLoop looks for a controller.
NoLoopLooked == queue # <<>> /\ head = "waiting"

NoLoop ==
  /\ queue # <<>> /\ head = "waiting"
  /\ Head(queue).chat \in Loops => Live \cap Loops = {}

\* #ensureRpcCapacity: there is room,
HasCapacity ==
  /\ NoLoop
  /\ Cardinality(Live) < Cap
  /\ Prepare
  /\ UNCHANGED <<panel, chatVars, recent, endVars, kept>>

\* Chats that may be suspended, if they are inactive and calm.  The code takes the
\* one not changed for longest.
Candidates == {c \in Live : file[c]}

\* SessionPanel.shutdown: a chat that is being closed goes on with that.
CloseAll(cs) ==
  panel' = [c \in Chats |-> IF c \in cs /\ panel[c] = "open" THEN "disposing" ELSE panel[c]]

\* or an idle chat is suspended,
Suspend ==
  /\ NoLoop
  /\ Cardinality(Live) >= Cap
  /\ \E c \in Candidates : victim' = c /\ CloseAll({c})
  /\ head' = "suspending"
  /\ UNCHANGED <<chatVars, recent, queue, flights, handoff, endVars, kept>>

\* or the request is refused: every live chat is active, busy or without a file.
Refuse ==
  /\ NoLoop
  /\ Cardinality(Live) >= Cap
  /\ Finish
  /\ UNCHANGED <<panel, chatVars, recent, endVars, kept>>

\* Mutated form of Suspended: the suspension is not awaited.
SuspendedAtOnce ==
  /\ head = "suspending"
  /\ Prepare
  /\ UNCHANGED <<panel, chatVars, recent, endVars, kept>>

\* The suspended chat is gone, and the request goes on without another look.
Suspended ==
  /\ head = "suspending" /\ panel[victim] = "none"
  /\ Prepare
  /\ UNCHANGED <<panel, chatVars, recent, endVars, kept>>

\* Its disposal was rejected, and so is the request.
SuspendFails ==
  /\ head = "suspending" /\ panel[victim] = "failed"
  /\ Finish
  /\ UNCHANGED <<panel, chatVars, recent, endVars, kept>>

\* The directory is there, the launch is planned and the lease taken: the chat
\* opens.
Push ==
  LET r == Head(queue)
      c == r.chat
      resumed == r.by = "resume" IN
  /\ head = "preparing" /\ (resumed => tree[c] = "present")
  /\ panel' = [panel EXCEPT ![c] = "open"]
  /\ file' = [file EXCEPT ![c] = resumed]
  /\ unused' = [unused EXCEPT ![c] = c \in Fresh /\ ~resumed]
  /\ tree' = [tree EXCEPT ![c] = "present"]
  /\ Finish
  /\ Refresh
  /\ UNCHANGED <<endVars, kept>>

\* Anything of that fails.  A resumed chat whose worktree is missing is no longer
\* a recent one.
PrepareFails ==
  LET r == Head(queue) IN
  /\ head = "preparing"
  /\ Finish
  /\ UNCHANGED <<panel, chatVars, endVars, kept>>
  /\ recent' = IF r.by = "resume" /\ tree[r.chat] # "present"
                 THEN (recent \ {r.chat}) \cup Recorded ELSE recent

-------------------------------------------------------------------------------
(* What the runtime of a chat reports *)

StatusChange(c) ==
  /\ panel[c] = "open"
  /\ UNCHANGED <<panel, chatVars, queueVars, endVars, kept>>
  /\ Refresh

Keep(c) == kept' = IF file'[c] /\ ~unused'[c] THEN kept \cup {c} ELSE kept

SessionFile(c) ==
  /\ panel[c] = "open" /\ ~file[c]
  /\ file' = [file EXCEPT ![c] = TRUE]
  /\ UNCHANGED <<panel, unused, tree, queueVars, endVars>>
  /\ Keep(c)
  /\ Refresh

\* Mutated form of Claim: the list is not brought up to date.
ClaimUnlisted(c) ==
  /\ panel[c] \in {"open", "disposing"} /\ unused[c]
  /\ unused' = [unused EXCEPT ![c] = FALSE]
  /\ UNCHANGED <<panel, file, tree, recent, queueVars, endVars>>
  /\ Keep(c)

\* The first prompt was accepted (#claimEphemeralWorktree), at the latest while
\* the host is being disposed.
Claim(c) ==
  /\ panel[c] \in {"open", "disposing"} /\ unused[c]
  /\ unused' = [unused EXCEPT ![c] = FALSE]
  /\ UNCHANGED <<panel, file, tree, queueVars, endVars>>
  /\ Keep(c)
  /\ Refresh

-------------------------------------------------------------------------------
(* Closing *)

Close(c) ==
  /\ panel[c] = "open"
  /\ CloseAll({c})
  /\ UNCHANGED <<chatVars, recent, queueVars, endVars, kept>>

\* The host is disposed and #remove begins: the chat leaves the maps.
Disposed(c) ==
  /\ panel[c] = "disposing"
  /\ panel' = [panel EXCEPT ![c] = IF unused[c] THEN "cleaning" ELSE "releasing"]
  /\ unused' = [unused EXCEPT ![c] = FALSE]
  /\ recent' = IF unused[c] THEN recent \ {c} ELSE recent
  /\ UNCHANGED <<file, tree, queueVars, endVars, kept>>

\* The disposal is rejected, for good: the chat stays in #sessions.
DisposeFails(c) ==
  /\ c \in Stubborn
  /\ panel[c] = "disposing"
  /\ panel' = [panel EXCEPT ![c] = "failed"]
  /\ UNCHANGED <<chatVars, recent, queueVars, endVars, kept>>

\* The worktree of an unused chat is cleaned up, which may be refused; the lease is
\* released and the chat leaves #sessions.
Removed(c) ==
  /\ panel[c] \in {"cleaning", "releasing"}
  /\ panel' = [panel EXCEPT ![c] = "none"]
  /\ \E result \in IF panel[c] = "cleaning" THEN {"present", "removed"} ELSE {tree[c]} :
       tree' = [tree EXCEPT ![c] = result]
  /\ file' = [file EXCEPT ![c] = FALSE]
  /\ UNCHANGED <<unused, queueVars, endVars, kept>>
  /\ Refresh

-------------------------------------------------------------------------------
(* shutdown() *)

Shutdown ==
  /\ shutdown = "no"
  /\ shutdown' = "queue"
  /\ UNCHANGED <<panel, chatVars, recent, queueVars, closing, kept>>

\* Mutated form of QueueDrained: what is still being created is not awaited.
QueueIgnored ==
  /\ shutdown = "queue"
  /\ shutdown' = "closing" /\ closing' = Live
  /\ CloseAll(Live)
  /\ UNCHANGED <<chatVars, recent, queueVars, kept>>

\* The last creation has ended: closeAll.
QueueDrained ==
  /\ shutdown = "queue" /\ queue = <<>>
  /\ shutdown' = "closing" /\ closing' = Live
  /\ CloseAll(Live)
  /\ UNCHANGED <<chatVars, recent, queueVars, kept>>

\* Mutated form of ClosedAll: a failed one is waited for.
ClosedAllGone ==
  /\ shutdown = "closing"
  /\ closing \cap Live = {} /\ shutdown' = "done"
  /\ UNCHANGED <<panel, chatVars, recent, queueVars, closing, kept>>

\* Promise.all: all of them are gone, or the first one failed.
ClosedAll ==
  /\ shutdown = "closing"
  /\ \/ closing \cap Live = {} /\ shutdown' = "done"
     \/ (\E c \in closing : panel[c] = "failed") /\ shutdown' = "rejected"
  /\ UNCHANGED <<panel, chatVars, recent, queueVars, closing, kept>>

-------------------------------------------------------------------------------
CreationStep ==
  FindLoop \/ HasCapacity \/ Suspend \/ Refuse \/ Suspended \/ SuspendFails
    \/ Push \/ PrepareFails

CloseStep(c) == Disposed(c) \/ DisposeFails(c) \/ Removed(c)

UserStep(c) ==
  NewSession(c) \/ Reveal(c) \/ OpenSession(c) \/ Handoff(c) \/ RemoveRecent(c) \/ Close(c)

RuntimeStep(c) == StatusChange(c) \/ SessionFile(c) \/ Claim(c)

\* Nothing follows a shutdown.
Over == shutdown \in {"done", "rejected"} /\ UNCHANGED vars

Next ==
  \/ CreationStep \/ Shutdown \/ QueueDrained \/ ClosedAll
  \/ \E c \in Chats : CloseStep(c) \/ UserStep(c) \/ RuntimeStep(c)
  \/ Over

Spec == Init /\ [][Next]_vars

\* What is awaited comes to an end: requests to OMP and child processes have
\* timeouts, and the dialogs of a creation are answered.
AwaitedStep ==
  CreationStep \/ QueueDrained \/ ClosedAll \/ \E c \in Chats : CloseStep(c)

FairSpec == Spec /\ WF_vars(AwaitedStep)

-------------------------------------------------------------------------------
(* Properties *)

\* At most Cap chats have a process, also while one makes room for another
\* (#ensureRpcCapacity, of which the code relies on the serial queue).
ProcessCap == Cardinality(Running) <= Cap

\* An alias has one Loop controller, whoever asks for it in whatever order: a
\* command, a handoff, or the resumption of an old one.
OneController == \A c, d \in Live \cap Loops : c = d

\* A chat is resumed once at a time and never while it is still in #sessions, so that
\* no two runtimes work on one session file; and exactly the requests that are not
\* finished can be joined, as one left behind would keep its chat or its Loop from ever
\* being opened again (#resumeFlights, #loopHandoffs).
ResumedOnce ==
  /\ \A i, j \in DOMAIN queue :
       queue[i].by = "resume" =>
         /\ panel[queue[i].chat] = "none"
         /\ queue[i].chat = queue[j].chat => i = j
  /\ flights = {r.chat : r \in {q \in Range(queue) : q.by = "resume"}}
  /\ handoff <=> \E r \in Range(queue) : r.by = "handoff"

\* A chat with a conversation can be resumed, closed or suspended as it may be,
\* until the user removes it: it is listed and its worktree is there.
KeptResumable == \A c \in kept : c \in recent /\ tree[c] = "present"

\* A shutdown that succeeds leaves no chat and no process, those included that
\* were still being created when it began.
ShutdownComplete ==
  shutdown = "done" => Live = {}

\* A closed chat in the list can be opened: its worktree is there.
RecentResumable == \A c \in recent : panel[c] = "none" => tree[c] = "present"

\* A shutdown comes to an end.
ShutdownEnds == shutdown = "queue" ~> shutdown \in {"done", "rejected"}

===============================================================================
