------------------------- MODULE SessionManagerProofs -------------------------
(***************************************************************************)
(* Proofs about the chats of a window, for any set of chats, any cap and   *)
(* any length of the queue.                                                *)
(*                                                                         *)
(* The argument: creations are finished one at a time in the order of the  *)
(* queue, and everything that a request found when it was made is still    *)
(* true when its turn comes.  The chat of a request is in no other request *)
(* and not in #sessions (QueueApart), since a request for the same chat    *)
(* joins the flight (FlightsQueued); so a request that reaches the panel   *)
(* neither overwrites a live chat nor makes a second one of it.  The room  *)
(* and the absence of a Loop that #createSession found before it awaits    *)
(* the launch persist, because only the head of the queue adds to          *)
(* #sessions (RoomKept, LoopAlone).  A conversation is kept apart from     *)
(* what a cleanup removes (KeptApart).  The shutdown lets the queue run    *)
(* out, and then the chats it has not told to close are gone               *)
(* (ShutdownWaits).                                                        *)
(***************************************************************************)
EXTENDS SessionManager, FiniteSetTheorems, TLAPS

\* Each request of the queue is for a chat of its own, which is not in #sessions: a
\* new one was never made, and a closed one was.  At most one is a handoff.
QueueApart ==
  /\ head # "waiting" => queue # <<>>
  /\ \A i \in DOMAIN queue :
       /\ panel[queue[i].chat] = "none"
       /\ queue[i].by = "resume" <=> tree[queue[i].chat] # "unmade"
  /\ \A i, j \in DOMAIN queue :
       queue[i].chat = queue[j].chat \/ (queue[i].by = "handoff" /\ queue[j].by = "handoff")
         => i = j

\* The joinable flights are those of the requests not finished.
FlightsQueued ==
  /\ \A c \in Chats :
       c \in flights <=> \E i \in DOMAIN queue : queue[i].by = "resume" /\ queue[i].chat = c
  /\ handoff <=> \E i \in DOMAIN queue : queue[i].by = "handoff"

\* No Loop lives while one is being created.
LoopAlone ==
  head # "waiting" /\ Head(queue).chat \in Loops => Live \cap Loops = {}

\* A request that looked for room has room, or will once its victim is gone.
RoomKept ==
  /\ Cardinality(Live) <= Cap
  /\ head = "preparing" => Cardinality(Live) < Cap
  /\ head = "suspending" => Cardinality(Live \ {victim}) < Cap

\* What is listed was made once, and a chat in #sessions is still there.  An unused
\* chat has no conversation, nor has one whose worktree is being cleaned up.
KeptApart ==
  /\ \A c \in Chats :
       /\ panel[c] # "none" => tree[c] = "present"
       /\ unused[c] => panel[c] \in {"open", "disposing", "failed"} /\ c \notin kept
       /\ panel[c] = "cleaning" => c \notin kept
       /\ c \in recent => tree[c] # "unmade"
  /\ KeptResumable

\* The shutdown waits for every chat that it did not find closed.
ShutdownWaits ==
  /\ shutdown \in {"closing", "done", "rejected"} => queue = <<>>
  /\ shutdown = "closing" => Live \subseteq closing
  /\ ShutdownComplete

\* The inductive invariant.
IInv ==
  /\ TypeOK /\ QueueApart /\ FlightsQueued /\ LoopAlone /\ OneController /\ RoomKept
  /\ KeptApart /\ ShutdownWaits

-------------------------------------------------------------------------------
(* Lemmas                                                                  *)

USE ChatsAssumption, BoundAssumption

\* The queue after its first request has ended.
LEMMA TailFacts ==
  ASSUME queue \in Seq(Request), queue # <<>>
  PROVE  /\ Tail(queue) \in Seq(Request)
         /\ 1 \in DOMAIN queue /\ Head(queue) = queue[1] /\ Head(queue) \in Request
         /\ \A i \in DOMAIN Tail(queue) :
              i + 1 \in DOMAIN queue /\ Tail(queue)[i] = queue[i + 1] /\ i + 1 # 1
         /\ \A i \in DOMAIN queue :
              i = 1 \/ (i - 1 \in DOMAIN Tail(queue) /\ Tail(queue)[i - 1] = queue[i])
         /\ \A i, j \in DOMAIN Tail(queue) : i + 1 = j + 1 => i = j
<1>1. /\ Len(queue) \in Nat \ {0} /\ DOMAIN queue = 1..Len(queue)
      /\ Tail(queue) \in Seq(Request) /\ Head(queue) = queue[1] /\ Head(queue) \in Request
      /\ DOMAIN Tail(queue) = 1..(Len(queue) - 1)
      /\ \A i \in 1..(Len(queue) - 1) : Tail(queue)[i] = queue[i + 1]
  OBVIOUS
<1>2. \A i \in 1..(Len(queue) - 1) : i + 1 \in 1..Len(queue) /\ i + 1 # 1
  BY <1>1
<1>3. \A i \in 1..Len(queue) : i = 1 \/ (i - 1 \in 1..(Len(queue) - 1) /\ (i - 1) + 1 = i)
  BY <1>1
<1>4. QED
  BY <1>1, <1>2, <1>3

\* The queue after a request has joined it.
LEMMA AppendFacts ==
  ASSUME queue \in Seq(Request), NEW e \in Request
  PROVE  /\ Append(queue, e) \in Seq(Request)
         /\ DOMAIN Append(queue, e) = DOMAIN queue \cup {Len(queue) + 1}
         /\ Len(queue) + 1 \notin DOMAIN queue
         /\ \A i \in DOMAIN queue : Append(queue, e)[i] = queue[i]
         /\ Append(queue, e)[Len(queue) + 1] = e
         /\ queue # <<>> => Head(Append(queue, e)) = Head(queue)
         /\ Append(queue, e) # <<>>
<1>1. /\ Len(queue) \in Nat /\ DOMAIN queue = 1..Len(queue)
      /\ Append(queue, e) \in Seq(Request) /\ Len(Append(queue, e)) = Len(queue) + 1
      /\ DOMAIN Append(queue, e) = 1..(Len(queue) + 1)
      /\ \A i \in 1..Len(queue) : Append(queue, e)[i] = queue[i]
      /\ Append(queue, e)[Len(queue) + 1] = e
  OBVIOUS
<1>2. queue # <<>> => Head(Append(queue, e)) = Head(queue)
  <2>1. queue # <<>> => 1 \in 1..Len(queue)
    BY <1>1
  <2>2. QED
    BY <1>1, <2>1
<1>3. QED
  BY <1>1, <1>2

\* The requests of the queue have the declared type.
LEMMA QueueTyped ==
  ASSUME queue \in Seq(Request)
  PROVE  /\ \A i \in DOMAIN queue : queue[i] \in Request /\ queue[i].chat \in Chats
         /\ queue # <<>> => Head(queue).chat \in Chats /\ Head(queue) \in Request
<1>1. \A i \in DOMAIN queue : queue[i] \in Request
  OBVIOUS
<1>2. queue # <<>> => Head(queue) \in Request
  OBVIOUS
<1>3. QED
  BY <1>1, <1>2 DEF Request

\* What the end of the first request leaves of the queue, when no chat but its own
\* changed between absent and present, made and unmade.
LEMMA FinishQueue ==
  ASSUME TypeOK, QueueApart, FlightsQueued, queue # <<>>, Finish,
         \A d \in Chats : d # Head(queue).chat =>
           /\ panel[d] = "none" => panel'[d] = "none"
           /\ tree'[d] = "unmade" <=> tree[d] = "unmade"
  PROVE  /\ queue' \in Seq(Request) /\ head' = "waiting" /\ victim' = Nobody
         /\ flights' \subseteq Chats /\ handoff' \in BOOLEAN
         /\ QueueApart' /\ FlightsQueued'
<1>1. queue' = Tail(queue) /\ head' = "waiting" /\ victim' = Nobody
  BY DEF Finish
<1>2. queue \in Seq(Request)
  BY DEF TypeOK
<1>3. flights' \subseteq Chats
  BY DEF TypeOK, Finish
<1>4. handoff' \in BOOLEAN
  BY DEF TypeOK, Finish
<1>5. \A i \in DOMAIN queue' : queue'[i].chat # Head(queue).chat /\ queue'[i].chat \in Chats
  BY <1>1, <1>2, TailFacts, QueueTyped DEF QueueApart
<1>6. QueueApart'
  <2>1. \A i \in DOMAIN queue' :
          /\ panel'[queue'[i].chat] = "none"
          /\ queue'[i].by = "resume" <=> tree'[queue'[i].chat] # "unmade"
    BY <1>1, <1>2, <1>5, TailFacts DEF QueueApart
  <2>2. \A i, j \in DOMAIN queue' :
          queue'[i].chat = queue'[j].chat \/ (queue'[i].by = "handoff" /\ queue'[j].by = "handoff")
            => i = j
    BY <1>1, <1>2, TailFacts DEF QueueApart
  <2>3. QED
    BY <1>1, <2>1, <2>2 DEF QueueApart
<1>7. FlightsQueued'
  <2>1. \A c \in Chats :
          c \in flights' <=> \E i \in DOMAIN queue' : queue'[i].by = "resume" /\ queue'[i].chat = c
    <3> SUFFICES ASSUME NEW c \in Chats
                 PROVE  c \in flights' <=>
                          \E i \in DOMAIN queue' : queue'[i].by = "resume" /\ queue'[i].chat = c
      OBVIOUS
    <3>1. CASE c = Head(queue).chat
      <4>1. c \notin flights'
        BY <1>2, <3>1, TailFacts DEF Finish, FlightsQueued, QueueApart
      <4>2. QED
        BY <1>5, <3>1, <4>1
    <3>2. CASE c # Head(queue).chat
      <4>1. c \in flights' <=> c \in flights
        BY <3>2 DEF Finish
      <4>2. (\E i \in DOMAIN queue' : queue'[i].by = "resume" /\ queue'[i].chat = c)
              <=> \E i \in DOMAIN queue : queue[i].by = "resume" /\ queue[i].chat = c
        <5>1. ASSUME NEW i \in DOMAIN queue', queue'[i].by = "resume", queue'[i].chat = c
              PROVE  \E j \in DOMAIN queue : queue[j].by = "resume" /\ queue[j].chat = c
          <6>1. i + 1 \in DOMAIN queue /\ queue'[i] = queue[i + 1]
            BY <1>1, <1>2, TailFacts
          <6>2. QED
            BY <5>1, <6>1
        <5>2. ASSUME NEW i \in DOMAIN queue, queue[i].by = "resume", queue[i].chat = c
              PROVE  \E j \in DOMAIN queue' : queue'[j].by = "resume" /\ queue'[j].chat = c
          <6>1. i # 1
            BY <1>2, <3>2, <5>2, TailFacts
          <6>2. i - 1 \in DOMAIN queue' /\ queue'[i - 1] = queue[i]
            BY <1>1, <1>2, <6>1, TailFacts
          <6>3. QED
            BY <5>2, <6>2
        <5>3. QED
          BY <5>1, <5>2
      <4>3. QED
        BY <4>1, <4>2 DEF FlightsQueued
    <3>3. QED
      BY <3>1, <3>2
  <2>2. handoff' <=> \E i \in DOMAIN queue' : queue'[i].by = "handoff"
    <3>1. CASE Head(queue).by = "handoff"
      <4>1. ASSUME NEW i \in DOMAIN queue' PROVE queue'[i].by # "handoff"
        BY <1>1, <1>2, <3>1, TailFacts DEF QueueApart
      <4>2. QED
        BY <3>1, <4>1 DEF Finish
    <3>2. CASE Head(queue).by # "handoff"
      <4>1. handoff' <=> handoff
        BY <3>2 DEF Finish
      <4>2. ASSUME NEW i \in DOMAIN queue', queue'[i].by = "handoff"
            PROVE  \E j \in DOMAIN queue : queue[j].by = "handoff"
        <5>1. i + 1 \in DOMAIN queue /\ queue'[i] = queue[i + 1]
          BY <1>1, <1>2, TailFacts
        <5>2. QED
          BY <4>2, <5>1
      <4>3. ASSUME NEW i \in DOMAIN queue, queue[i].by = "handoff"
            PROVE  \E j \in DOMAIN queue' : queue'[j].by = "handoff"
        <5>1. i # 1
          BY <1>2, <3>2, <4>3, TailFacts
        <5>2. i - 1 \in DOMAIN queue' /\ queue'[i - 1] = queue[i]
          BY <1>1, <1>2, <5>1, TailFacts
        <5>3. QED
          BY <4>3, <5>2
      <4>4. QED
        BY <4>1, <4>2, <4>3 DEF FlightsQueued
    <3>3. QED
      BY <3>1, <3>2
  <2>3. QED
    BY <2>1, <2>2 DEF FlightsQueued
<1>8. QED
  BY <1>1, <1>2, <1>3, <1>4, <1>6, <1>7, TailFacts

\* What a request for a chat that no other one is for does to the queue.
LEMMA EnqueueQueue ==
  ASSUME TypeOK, QueueApart, NEW by \in {"command", "handoff", "resume"}, NEW c \in Chats,
         Enqueue(by, c), UNCHANGED <<panel, tree, head>>,
         \A i \in DOMAIN queue : queue[i].chat # c,
         panel[c] = "none", by = "resume" <=> tree[c] # "unmade",
         by = "handoff" => \A i \in DOMAIN queue : queue[i].by # "handoff"
  PROVE  /\ queue' \in Seq(Request) /\ QueueApart'
         /\ \E k \in DOMAIN queue' : queue'[k].by = by /\ queue'[k].chat = c
                 /\ \A i \in DOMAIN queue' : i # k => i \in DOMAIN queue /\ queue'[i] = queue[i]
         /\ \A i \in DOMAIN queue : i \in DOMAIN queue' /\ queue'[i] = queue[i]
         /\ queue # <<>> => Head(queue') = Head(queue)
<1> DEFINE e == [by |-> by, chat |-> c]
           k == Len(queue) + 1
<1>1. e \in Request /\ e.by = by /\ e.chat = c /\ queue \in Seq(Request)
  BY DEF Request, TypeOK
<1>2. queue' = Append(queue, e)
  BY DEF Enqueue
<1>3. /\ queue' \in Seq(Request) /\ DOMAIN queue' = DOMAIN queue \cup {k} /\ k \notin DOMAIN queue
      /\ \A i \in DOMAIN queue : queue'[i] = queue[i]
      /\ queue'[k] = e
      /\ queue # <<>> => Head(queue') = Head(queue)
      /\ queue' # <<>>
  BY <1>1, <1>2, AppendFacts
<1> HIDE DEF e, k
<1>4. QueueApart'
  BY <1>1, <1>3 DEF QueueApart
<1>5. QED
  BY <1>1, <1>3, <1>4

\* The chats in #sessions are finitely many, and fewer of them need less room.
LEMMA RoomStays ==
  ASSUME RoomKept, Live' \subseteq Live,
         \/ head' = "waiting"
         \/ UNCHANGED <<head, victim>>
  PROVE  RoomKept'
<1>1. IsFiniteSet(Live)
  BY FiniteAssumption, FS_Subset DEF Live
<1>2. IsFiniteSet(Live') /\ Cardinality(Live') <= Cardinality(Live)
  BY <1>1, FS_Subset
<1>3. \A S \in SUBSET Chats : IsFiniteSet(S) /\ Cardinality(S) \in Nat
  BY FiniteAssumption, FS_Subset, FS_CardinalityType
<1>4. /\ Cardinality(Live) \in Nat /\ Cardinality(Live') \in Nat
      /\ Cardinality(Live \ {victim}) \in Nat /\ Cardinality(Live' \ {victim}) \in Nat
      /\ IsFiniteSet(Live \ {victim})
  BY <1>3 DEF Live
<1>5. Cardinality(Live' \ {victim}) <= Cardinality(Live \ {victim})
  <2>1. Live' \ {victim} \subseteq Live \ {victim}
    OBVIOUS
  <2>2. QED
    BY <1>4, <2>1, FS_Subset
<1>6. QED
  BY <1>2, <1>4, <1>5 DEF RoomKept

\* A chat that is told to close stays in #sessions.
LEMMA CloseAllFacts ==
  ASSUME TypeOK, NEW cs \in SUBSET Chats, CloseAll(cs)
  PROVE  /\ panel' \in [Chats -> {"none", "open", "disposing", "failed", "cleaning", "releasing"}]
         /\ \A d \in Chats :
              panel'[d] = panel[d] \/ (panel[d] = "open" /\ panel'[d] = "disposing")
         /\ Live' = Live
<1>1. panel' \in [Chats -> {"none", "open", "disposing", "failed", "cleaning", "releasing"}]
  BY DEF TypeOK, CloseAll
<1>2. \A d \in Chats :
        panel'[d] = panel[d] \/ (panel[d] = "open" /\ panel'[d] = "disposing")
  BY DEF TypeOK, CloseAll
<1>3. Live' = Live
  BY <1>2 DEF Live
<1>4. QED
  BY <1>1, <1>2, <1>3

\* The end of a request that opened no chat.
LEMMA NoChat ==
  ASSUME IInv, queue # <<>>, Finish, UNCHANGED <<panel, chatVars, endVars, kept>>,
         recent \subseteq recent' \cup (Chats \ kept),
         \A c \in recent' \ recent : tree[c] # "unmade"
  PROVE  /\ QueueApart' /\ FlightsQueued' /\ LoopAlone' /\ OneController' /\ RoomKept'
         /\ KeptApart' /\ ShutdownWaits'
<1>1. /\ QueueApart' /\ FlightsQueued' /\ head' = "waiting"
  BY FinishQueue DEF IInv, chatVars
<1>2. Live' = Live
  BY DEF Live
<1>3. RoomKept'
  BY <1>1, <1>2, RoomStays DEF IInv
<1>4. KeptApart'
  BY DEF IInv, KeptApart, KeptResumable, chatVars
<1>5. ShutdownWaits'
  BY <1>2 DEF IInv, ShutdownWaits, ShutdownComplete, endVars
<1>6. QED
  BY <1>1, <1>2, <1>3, <1>4, <1>5 DEF IInv, LoopAlone, OneController

\* Every step keeps the declared types.
LEMMA TypeStep == ASSUME TypeOK, QueueApart, FlightsQueued, [Next]_vars PROVE TypeOK'
<1> USE DEF TypeOK
<1>1. ASSUME FindLoop PROVE TypeOK'
  <2>1. queue # <<>> /\ Finish
    BY <1>1 DEF FindLoop, QueueApart
  <2>2. /\ queue' \in Seq(Request) /\ head' = "waiting" /\ victim' = Nobody
        /\ flights' \subseteq Chats /\ handoff' \in BOOLEAN
    BY <1>1, <2>1, FinishQueue DEF FindLoop, chatVars
  <2>3. recent' \subseteq Chats
    BY <1>1, <2>1, QueueTyped DEF FindLoop, Refresh, Recorded
  <2>4. UNCHANGED <<panel, chatVars, endVars, kept>>
    BY <1>1 DEF FindLoop
  <2>5. QED
    BY <2>2, <2>3, <2>4 DEF chatVars, endVars
<1>2. ASSUME HasCapacity PROVE TypeOK'
  BY <1>2 DEF HasCapacity, NoLoop, Prepare, chatVars, queueVars, endVars
<1>3. ASSUME Suspend PROVE TypeOK'
  <2>1. PICK c \in Chats : victim' = c /\ CloseAll({c})
    BY <1>3 DEF Suspend, Candidates, Live
  <2>2. panel' \in [Chats -> {"none", "open", "disposing", "failed", "cleaning", "releasing"}]
    BY <2>1, CloseAllFacts
  <2>3. /\ head' = "suspending"
        /\ UNCHANGED <<chatVars, recent, queue, flights, handoff, endVars, kept>>
    BY <1>3 DEF Suspend
  <2>4. QED
    BY <2>1, <2>2, <2>3 DEF chatVars, endVars
<1>4. ASSUME Refuse PROVE TypeOK'
  <2>1. queue # <<>> /\ Finish
    BY <1>4 DEF Refuse, NoLoop, QueueApart
  <2>2. /\ queue' \in Seq(Request) /\ head' = "waiting" /\ victim' = Nobody
        /\ flights' \subseteq Chats /\ handoff' \in BOOLEAN
    BY <1>4, <2>1, FinishQueue DEF Refuse, chatVars
  <2>3. recent' \subseteq Chats
    BY <1>4, <2>1, QueueTyped DEF Refuse, Refresh, Recorded
  <2>4. UNCHANGED <<panel, chatVars, endVars, kept>>
    BY <1>4 DEF Refuse
  <2>5. QED
    BY <2>2, <2>3, <2>4 DEF chatVars, endVars
<1>5. ASSUME Suspended PROVE TypeOK'
  BY <1>5 DEF Suspended, Prepare, chatVars, queueVars, endVars
<1>6. ASSUME SuspendFails PROVE TypeOK'
  <2>1. queue # <<>> /\ Finish
    BY <1>6 DEF SuspendFails, QueueApart
  <2>2. /\ queue' \in Seq(Request) /\ head' = "waiting" /\ victim' = Nobody
        /\ flights' \subseteq Chats /\ handoff' \in BOOLEAN
    BY <1>6, <2>1, FinishQueue DEF SuspendFails, chatVars
  <2>3. recent' \subseteq Chats
    BY <1>6, <2>1, QueueTyped DEF SuspendFails, Refresh, Recorded
  <2>4. UNCHANGED <<panel, chatVars, endVars, kept>>
    BY <1>6 DEF SuspendFails
  <2>5. QED
    BY <2>2, <2>3, <2>4 DEF chatVars, endVars
<1>7. ASSUME Push PROVE TypeOK'
  <2>1. queue # <<>> /\ Finish
    BY <1>7 DEF Push, QueueApart
  <2>2. Head(queue).chat \in Chats
    BY <2>1, QueueTyped
  <2>3. /\ panel' \in [Chats -> {"none", "open", "disposing", "failed", "cleaning", "releasing"}]
        /\ tree' \in [Chats -> {"unmade", "present", "removed"}]
    BY <1>7 DEF Push
  <2>4. file' \in [Chats -> BOOLEAN] /\ unused' \in [Chats -> BOOLEAN]
    BY <1>7 DEF Push
  <2>5. recent' \subseteq Chats
    BY <1>7 DEF Push, Refresh, Recorded
  <2>6. queue' \in Seq(Request) /\ head' = "waiting" /\ victim' = Nobody
    BY <2>1, TailFacts DEF Finish
  <2>7. flights' \subseteq Chats
    BY <2>1 DEF Finish
  <2>8. handoff' \in BOOLEAN
    BY <2>1 DEF Finish
  <2>9. UNCHANGED <<shutdown, closing, kept>>
    BY <1>7 DEF Push, endVars
  <2>10. QED
    BY <2>3, <2>4, <2>5, <2>6, <2>7, <2>8, <2>9
<1>8. ASSUME PrepareFails PROVE TypeOK'
  <2>1. queue # <<>> /\ Finish
    BY <1>8 DEF PrepareFails, QueueApart
  <2>2. /\ queue' \in Seq(Request) /\ head' = "waiting" /\ victim' = Nobody
        /\ flights' \subseteq Chats /\ handoff' \in BOOLEAN
    BY <1>8, <2>1, FinishQueue DEF PrepareFails, chatVars
  <2>3. recent' \subseteq Chats
    BY <1>8, <2>1, QueueTyped DEF PrepareFails, Refresh, Recorded
  <2>4. UNCHANGED <<panel, chatVars, endVars, kept>>
    BY <1>8 DEF PrepareFails
  <2>5. QED
    BY <2>2, <2>3, <2>4 DEF chatVars, endVars
<1>9. ASSUME Shutdown PROVE TypeOK'
  BY <1>9 DEF Shutdown, chatVars, queueVars, endVars
<1>10. ASSUME QueueDrained PROVE TypeOK'
  <2>1. panel' \in [Chats -> {"none", "open", "disposing", "failed", "cleaning", "releasing"}]
    BY <1>10, CloseAllFacts DEF QueueDrained, Live
  <2>2. closing' \subseteq Chats /\ shutdown' = "closing"
    BY <1>10 DEF QueueDrained, Live
  <2>3. UNCHANGED <<chatVars, recent, queueVars, kept>>
    BY <1>10 DEF QueueDrained
  <2>4. QED
    BY <2>1, <2>2, <2>3 DEF chatVars, queueVars
<1>11. ASSUME ClosedAll PROVE TypeOK'
  BY <1>11 DEF ClosedAll, chatVars, queueVars, endVars
<1>12. ASSUME NEW c \in Chats, Disposed(c) PROVE TypeOK'
  BY <1>12 DEF Disposed, chatVars, queueVars, endVars
<1>13. ASSUME NEW c \in Chats, DisposeFails(c) PROVE TypeOK'
  BY <1>13 DEF DisposeFails, chatVars, queueVars, endVars
<1>14. ASSUME NEW c \in Chats, Removed(c) PROVE TypeOK'
  BY <1>14 DEF Removed, chatVars, queueVars, endVars, Refresh, Recorded
<1>15. ASSUME NEW c \in Chats, NewSession(c) PROVE TypeOK'
  <2>1. queue' \in Seq(Request)
    BY <1>15, AppendFacts DEF NewSession, Enqueue, Request
  <2>2. QED
    BY <1>15, <2>1 DEF NewSession, chatVars, endVars
<1>16. ASSUME NEW c \in Chats, Reveal(c) PROVE TypeOK'
  BY <1>16 DEF Reveal, chatVars, queueVars, endVars, Refresh, Recorded
<1>17. ASSUME NEW c \in Chats, OpenSession(c) PROVE TypeOK'
  <2>1. queue' \in Seq(Request)
    BY <1>17, AppendFacts DEF OpenSession, Enqueue, Request
  <2>2. QED
    BY <1>17, <2>1 DEF OpenSession, chatVars, endVars
<1>18. ASSUME NEW c \in Chats, Handoff(c) PROVE TypeOK'
  <2>1. CASE Reveal(c)
    BY <2>1 DEF Reveal, Refresh, Recorded, chatVars, queueVars, endVars
  <2>2. CASE Enqueue("handoff", c) /\ handoff' = TRUE
             /\ UNCHANGED <<panel, chatVars, recent, head, victim, flights, endVars, kept>>
    <3>1. queue' \in Seq(Request)
      BY <2>2, AppendFacts DEF Enqueue, Request
    <3>2. handoff' \in BOOLEAN
      BY <2>2
    <3>3. QED
      BY <2>2, <3>1, <3>2 DEF chatVars, endVars
  <2>3. QED
    BY <1>18, <2>1, <2>2 DEF Handoff
<1>19. ASSUME NEW c \in Chats, RemoveRecent(c) PROVE TypeOK'
  BY <1>19 DEF RemoveRecent, chatVars, queueVars, endVars, Refresh, Recorded
<1>20. ASSUME NEW c \in Chats, Close(c) PROVE TypeOK'
  BY <1>20 DEF Close, CloseAll, chatVars, queueVars, endVars
<1>21. ASSUME NEW c \in Chats, StatusChange(c) PROVE TypeOK'
  BY <1>21 DEF StatusChange, chatVars, queueVars, endVars, Refresh, Recorded
<1>22. ASSUME NEW c \in Chats, SessionFile(c) PROVE TypeOK'
  BY <1>22 DEF SessionFile, Keep, chatVars, queueVars, endVars, Refresh, Recorded
<1>23. ASSUME NEW c \in Chats, Claim(c) PROVE TypeOK'
  BY <1>23 DEF Claim, Keep, chatVars, queueVars, endVars, Refresh, Recorded
<1>24. ASSUME UNCHANGED vars PROVE TypeOK'
  BY <1>24 DEF vars, chatVars, queueVars, endVars
<1>25. QED
  BY <1>1, <1>2, <1>3, <1>4, <1>5, <1>6, <1>7, <1>8, <1>9, <1>10, <1>11, <1>12, <1>13, <1>14,
     <1>15, <1>16, <1>17, <1>18, <1>19, <1>20, <1>21, <1>22, <1>23, <1>24 DEF Next,
     CreationStep, CloseStep, UserStep, RuntimeStep, Over

\* The invariant is inductive.
LEMMA IInvStep == ASSUME IInv, TypeOK', [Next]_vars PROVE IInv'
<1> USE DEF TypeOK, IInv
<1>1. ASSUME FindLoop PROVE IInv'
  <2>1. queue # <<>> /\ Finish /\ UNCHANGED <<panel, chatVars, endVars, kept>>
    BY <1>1 DEF FindLoop, QueueApart
  <2>2. /\ recent \subseteq recent' \cup (Chats \ kept)
        /\ \A c \in recent' \ recent : tree[c] # "unmade"
    BY <1>1, <2>1, QueueTyped DEF FindLoop, Refresh, Recorded, KeptApart, KeptResumable,
       chatVars
  <2>3. QED
    BY <2>1, <2>2, NoChat
<1>2. ASSUME HasCapacity PROVE IInv'
  <2>1. QueueApart'
    BY <1>2 DEF HasCapacity, NoLoop, Prepare, chatVars, queueVars, endVars, QueueApart
  <2>2. FlightsQueued'
    BY <1>2 DEF HasCapacity, NoLoop, Prepare, chatVars, queueVars, endVars, FlightsQueued
  <2>3. LoopAlone'
    BY <1>2 DEF HasCapacity, NoLoop, Prepare, chatVars, queueVars, endVars, LoopAlone, Live
  <2>4. OneController'
    BY <1>2 DEF HasCapacity, NoLoop, Prepare, chatVars, queueVars, endVars, OneController,
       LoopAlone, Live
  <2>5. KeptApart'
    BY <1>2 DEF HasCapacity, NoLoop, Prepare, chatVars, queueVars, endVars, KeptApart,
       KeptResumable
  <2>6. ShutdownWaits'
    BY <1>2 DEF HasCapacity, NoLoop, Prepare, chatVars, queueVars, endVars, ShutdownWaits,
       ShutdownComplete, Live
  <2>7. RoomKept'
    BY <1>2 DEF HasCapacity, NoLoop, Prepare, chatVars, queueVars, endVars, RoomKept, Live
  <2>8. QED
    BY <2>1, <2>2, <2>3, <2>4, <2>5, <2>6, <2>7
<1>3. ASSUME Suspend PROVE IInv'
  <2>0. PICK v \in Live : victim' = v /\ CloseAll({v}) /\ v \in Chats
    BY <1>3 DEF Suspend, Candidates, Live
  <2>9. /\ \A d \in Chats :
             panel'[d] = panel[d] \/ (panel[d] = "open" /\ panel'[d] = "disposing")
        /\ Live' = Live
    BY <2>0, CloseAllFacts
  <2>1. QueueApart'
    BY <1>3, <2>0, <2>9, QueueTyped DEF Suspend, NoLoop, QueueApart, chatVars, queueVars
  <2>2. FlightsQueued'
    BY <1>3 DEF Suspend, FlightsQueued, queueVars
  <2>3. LoopAlone' /\ OneController'
    BY <1>3, <2>0, <2>9 DEF Suspend, NoLoop, LoopAlone, OneController, queueVars
  <2>4. KeptApart'
    BY <1>3, <2>0, <2>9 DEF Suspend, KeptApart, KeptResumable, chatVars
  <2>5. ShutdownWaits'
    BY <1>3, <2>0, <2>9 DEF Suspend, ShutdownWaits, ShutdownComplete, queueVars, endVars, NoLoop
  <2>6. RoomKept'
    <3>1. IsFiniteSet(Live) /\ Cardinality(Live) \in Nat
      BY FiniteAssumption, FS_Subset, FS_CardinalityType DEF Live
    <3>2. Cardinality(Live \ {v}) = Cardinality(Live) - 1
      BY <2>0, <3>1, FS_RemoveElement
    <3>3. head' = "suspending" /\ victim' = v
      BY <1>3, <2>0 DEF Suspend
    <3>4. QED
      BY <2>9, <3>1, <3>2, <3>3 DEF RoomKept
  <2>7. QED
    BY <2>1, <2>2, <2>3, <2>4, <2>5, <2>6
<1>4. ASSUME Refuse PROVE IInv'
  <2>1. queue # <<>> /\ Finish /\ UNCHANGED <<panel, chatVars, endVars, kept>>
    BY <1>4 DEF Refuse, NoLoop, QueueApart
  <2>2. /\ recent \subseteq recent' \cup (Chats \ kept)
        /\ \A c \in recent' \ recent : tree[c] # "unmade"
    BY <1>4, <2>1, QueueTyped DEF Refuse, Refresh, Recorded, KeptApart, KeptResumable, chatVars
  <2>3. QED
    BY <2>1, <2>2, NoChat
<1>5. ASSUME Suspended PROVE IInv'
  <2>1. QueueApart'
    BY <1>5 DEF Suspended, Prepare, chatVars, queueVars, endVars, QueueApart
  <2>2. FlightsQueued'
    BY <1>5 DEF Suspended, Prepare, chatVars, queueVars, endVars, FlightsQueued
  <2>3. LoopAlone'
    BY <1>5 DEF Suspended, Prepare, chatVars, queueVars, endVars, LoopAlone, Live
  <2>4. OneController'
    BY <1>5 DEF Suspended, Prepare, chatVars, queueVars, endVars, OneController, LoopAlone, Live
  <2>5. KeptApart'
    BY <1>5 DEF Suspended, Prepare, chatVars, queueVars, endVars, KeptApart, KeptResumable
  <2>6. ShutdownWaits'
    BY <1>5 DEF Suspended, Prepare, chatVars, queueVars, endVars, ShutdownWaits,
       ShutdownComplete, Live
  <2>7. RoomKept'
    BY <1>5 DEF Suspended, Prepare, chatVars, queueVars, endVars, RoomKept, Live
  <2>8. QED
    BY <2>1, <2>2, <2>3, <2>4, <2>5, <2>6, <2>7
<1>6. ASSUME SuspendFails PROVE IInv'
  <2>1. queue # <<>> /\ Finish /\ UNCHANGED <<panel, chatVars, endVars, kept>>
    BY <1>6 DEF SuspendFails, QueueApart
  <2>2. /\ recent \subseteq recent' \cup (Chats \ kept)
        /\ \A c \in recent' \ recent : tree[c] # "unmade"
    BY <1>6, <2>1, QueueTyped DEF SuspendFails, Refresh, Recorded, KeptApart, KeptResumable,
       chatVars
  <2>3. QED
    BY <2>1, <2>2, NoChat
<1>7. ASSUME Push PROVE IInv'
  <2> DEFINE c == Head(queue).chat
  <2>1. queue # <<>> /\ head = "preparing" /\ Finish /\ c \in Chats
    BY <1>7, QueueTyped DEF Push, QueueApart
  <2>2. panel[c] = "none" /\ (Head(queue).by = "resume" <=> tree[c] # "unmade")
    BY <2>1, TailFacts DEF QueueApart
  <2>3. /\ panel' = [panel EXCEPT ![c] = "open"] /\ tree' = [tree EXCEPT ![c] = "present"]
        /\ UNCHANGED <<shutdown, closing, kept>>
    BY <1>7 DEF Push, endVars
  <2>4. QueueApart' /\ FlightsQueued' /\ head' = "waiting"
    BY <2>1, <2>2, <2>3, FinishQueue
  <2>5. Live' = Live \cup {c} /\ c \notin Live
    BY <2>1, <2>2, <2>3 DEF Live
  <2>6. LoopAlone' /\ OneController'
    BY <2>1, <2>4, <2>5 DEF LoopAlone, OneController
  <2>7. RoomKept'
    <3>1. IsFiniteSet(Live) /\ Cardinality(Live) \in Nat
      BY FiniteAssumption, FS_Subset, FS_CardinalityType DEF Live
    <3>2. Cardinality(Live') = Cardinality(Live) + 1
      BY <2>5, <3>1, FS_AddElement
    <3>3. QED
      BY <2>1, <2>4, <3>1, <3>2 DEF RoomKept
  <2>8. KeptApart'
    <3>1. unused'[c] => c \notin kept
      BY <1>7, <2>1, <2>2 DEF Push, KeptApart, KeptResumable
    <3>2. \A d \in Chats \ {c} :
            unused'[d] = unused[d] /\ panel'[d] = panel[d] /\ tree'[d] = tree[d]
      BY <1>7, <2>1 DEF Push
    <3>3. panel'[c] = "open" /\ tree'[c] = "present"
      BY <2>1, <2>3
    <3>4. recent \subseteq recent' /\ \A d \in recent' \ recent : panel'[d] # "none"
      BY <1>7 DEF Push, Refresh, Recorded
    <3>5. QED
      BY <2>3, <3>1, <3>2, <3>3, <3>4 DEF KeptApart, KeptResumable
  <2>9. ShutdownWaits'
    BY <2>1, <2>3 DEF ShutdownWaits, ShutdownComplete
  <2>10. QED
    BY <2>4, <2>6, <2>7, <2>8, <2>9
<1>8. ASSUME PrepareFails PROVE IInv'
  <2>1. queue # <<>> /\ Finish /\ UNCHANGED <<panel, chatVars, endVars, kept>>
    BY <1>8 DEF PrepareFails, QueueApart
  <2>2. /\ recent \subseteq recent' \cup (Chats \ kept)
        /\ \A c \in recent' \ recent : tree[c] # "unmade"
    BY <1>8, <2>1, QueueTyped DEF PrepareFails, Refresh, Recorded, KeptApart, KeptResumable,
       chatVars
  <2>3. QED
    BY <2>1, <2>2, NoChat
<1>9. ASSUME Shutdown PROVE IInv'
  <2>1. QueueApart'
    BY <1>9 DEF Shutdown, chatVars, queueVars, endVars, QueueApart
  <2>2. FlightsQueued'
    BY <1>9 DEF Shutdown, chatVars, queueVars, endVars, FlightsQueued
  <2>3. LoopAlone'
    BY <1>9 DEF Shutdown, chatVars, queueVars, endVars, LoopAlone, Live
  <2>4. OneController'
    BY <1>9 DEF Shutdown, chatVars, queueVars, endVars, OneController, LoopAlone, Live
  <2>5. KeptApart'
    BY <1>9 DEF Shutdown, chatVars, queueVars, endVars, KeptApart, KeptResumable
  <2>6. ShutdownWaits'
    BY <1>9 DEF Shutdown, chatVars, queueVars, endVars, ShutdownWaits, ShutdownComplete, Live
  <2>7. RoomKept'
    <3>1. Live' \subseteq Live
      BY <1>9 DEF Shutdown, Live
    <3>2. QED
      BY <1>9, <3>1, RoomStays DEF Shutdown, queueVars
  <2>8. QED
    BY <2>1, <2>2, <2>3, <2>4, <2>5, <2>6, <2>7
<1>10. ASSUME QueueDrained PROVE IInv'
  <2>9. /\ \A d \in Chats :
             panel'[d] = panel[d] \/ (panel[d] = "open" /\ panel'[d] = "disposing")
        /\ Live' = Live
    BY <1>10, CloseAllFacts DEF QueueDrained, Live
  <2>1. QueueApart'
    BY <1>10, <2>9, QueueTyped DEF QueueDrained, QueueApart, chatVars, queueVars
  <2>2. FlightsQueued'
    BY <1>10 DEF QueueDrained, FlightsQueued, queueVars
  <2>3. LoopAlone' /\ OneController'
    BY <1>10, <2>9 DEF QueueDrained, LoopAlone, OneController, queueVars
  <2>4. KeptApart'
    BY <1>10, <2>9 DEF QueueDrained, KeptApart, KeptResumable, chatVars
  <2>5. ShutdownWaits'
    BY <1>10, <2>9 DEF QueueDrained, ShutdownWaits, ShutdownComplete, queueVars, endVars
  <2>6. RoomKept'
    BY <1>10, <2>9, RoomStays DEF QueueDrained, queueVars
  <2>7. QED
    BY <2>1, <2>2, <2>3, <2>4, <2>5, <2>6
<1>11. ASSUME ClosedAll PROVE IInv'
  <2>1. QueueApart'
    BY <1>11 DEF ClosedAll, chatVars, queueVars, endVars, QueueApart
  <2>2. FlightsQueued'
    BY <1>11 DEF ClosedAll, chatVars, queueVars, endVars, FlightsQueued
  <2>3. LoopAlone'
    BY <1>11 DEF ClosedAll, chatVars, queueVars, endVars, LoopAlone, Live
  <2>4. OneController'
    BY <1>11 DEF ClosedAll, chatVars, queueVars, endVars, OneController, LoopAlone, Live
  <2>5. KeptApart'
    BY <1>11 DEF ClosedAll, chatVars, queueVars, endVars, KeptApart, KeptResumable
  <2>6. ShutdownWaits'
    BY <1>11 DEF ClosedAll, chatVars, queueVars, endVars, ShutdownWaits, ShutdownComplete, Live
  <2>7. RoomKept'
    <3>1. Live' \subseteq Live
      BY <1>11 DEF ClosedAll, Live
    <3>2. QED
      BY <1>11, <3>1, RoomStays DEF ClosedAll, queueVars
  <2>8. QED
    BY <2>1, <2>2, <2>3, <2>4, <2>5, <2>6, <2>7
<1>12. ASSUME NEW c \in Chats, Disposed(c) PROVE IInv'
  <2>1. QueueApart'
    BY <1>12 DEF Disposed, chatVars, queueVars, endVars, QueueApart
  <2>2. FlightsQueued'
    BY <1>12 DEF Disposed, chatVars, queueVars, endVars, FlightsQueued
  <2>3. LoopAlone'
    BY <1>12 DEF Disposed, chatVars, queueVars, endVars, LoopAlone, Live
  <2>4. OneController'
    BY <1>12 DEF Disposed, chatVars, queueVars, endVars, OneController, LoopAlone, Live
  <2>5. KeptApart'
    BY <1>12 DEF Disposed, chatVars, queueVars, endVars, KeptApart, KeptResumable
  <2>6. ShutdownWaits'
    BY <1>12 DEF Disposed, chatVars, queueVars, endVars, ShutdownWaits, ShutdownComplete, Live
  <2>7. RoomKept'
    <3>1. Live' \subseteq Live
      BY <1>12 DEF Disposed, Live
    <3>2. QED
      BY <1>12, <3>1, RoomStays DEF Disposed, queueVars
  <2>8. QED
    BY <2>1, <2>2, <2>3, <2>4, <2>5, <2>6, <2>7
<1>13. ASSUME NEW c \in Chats, DisposeFails(c) PROVE IInv'
  <2>1. QueueApart'
    BY <1>13 DEF DisposeFails, chatVars, queueVars, endVars, QueueApart
  <2>2. FlightsQueued'
    BY <1>13 DEF DisposeFails, chatVars, queueVars, endVars, FlightsQueued
  <2>3. LoopAlone'
    BY <1>13 DEF DisposeFails, chatVars, queueVars, endVars, LoopAlone, Live
  <2>4. OneController'
    BY <1>13 DEF DisposeFails, chatVars, queueVars, endVars, OneController, LoopAlone, Live
  <2>5. KeptApart'
    BY <1>13 DEF DisposeFails, chatVars, queueVars, endVars, KeptApart, KeptResumable
  <2>6. ShutdownWaits'
    BY <1>13 DEF DisposeFails, chatVars, queueVars, endVars, ShutdownWaits, ShutdownComplete,
       Live
  <2>7. RoomKept'
    <3>1. Live' \subseteq Live
      BY <1>13 DEF DisposeFails, Live
    <3>2. QED
      BY <1>13, <3>1, RoomStays DEF DisposeFails, queueVars
  <2>8. QED
    BY <2>1, <2>2, <2>3, <2>4, <2>5, <2>6, <2>7
<1>14. ASSUME NEW c \in Chats, Removed(c) PROVE IInv'
  <2>1. QueueApart'
    BY <1>14 DEF Removed, chatVars, queueVars, endVars, QueueApart
  <2>2. FlightsQueued'
    BY <1>14 DEF Removed, chatVars, queueVars, endVars, FlightsQueued
  <2>3. LoopAlone'
    BY <1>14 DEF Removed, chatVars, queueVars, endVars, LoopAlone, Live
  <2>4. OneController'
    BY <1>14 DEF Removed, chatVars, queueVars, endVars, OneController, LoopAlone, Live
  <2>5. KeptApart'
    BY <1>14 DEF Removed, chatVars, queueVars, endVars, KeptApart, KeptResumable, Refresh,
       Recorded
  <2>6. ShutdownWaits'
    BY <1>14 DEF Removed, chatVars, queueVars, endVars, ShutdownWaits, ShutdownComplete, Live
  <2>7. RoomKept'
    <3>1. Live' \subseteq Live
      BY <1>14 DEF Removed, Live
    <3>2. QED
      BY <1>14, <3>1, RoomStays DEF Removed, queueVars
  <2>8. QED
    BY <2>1, <2>2, <2>3, <2>4, <2>5, <2>6, <2>7
<1>15. ASSUME NEW c \in Chats, NewSession(c) PROVE IInv'
  <2>1. /\ Enqueue("command", c)
        /\ UNCHANGED <<panel, chatVars, head, victim, recent, endVars, kept>>
        /\ \A i \in DOMAIN queue : queue[i].chat # c
        /\ panel[c] = "none" /\ tree[c] = "unmade"
        /\ shutdown = "no"
    BY <1>15, QueueTyped DEF NewSession, New, Accepting, KeptApart, endVars
  <2>2. /\ queue' \in Seq(Request) /\ QueueApart'
        /\ \E k \in DOMAIN queue' : queue'[k].by = "command" /\ queue'[k].chat = c
                /\ \A i \in DOMAIN queue' : i # k => i \in DOMAIN queue /\ queue'[i] = queue[i]
        /\ \A i \in DOMAIN queue : i \in DOMAIN queue' /\ queue'[i] = queue[i]
        /\ queue # <<>> => Head(queue') = Head(queue)
    BY <1>15, <2>1, EnqueueQueue DEF chatVars
  <2>3. FlightsQueued'
    BY <1>15, <2>1, <2>2 DEF NewSession, FlightsQueued
  <2>4. LoopAlone' /\ OneController'
    BY <2>1, <2>2 DEF LoopAlone, OneController, Live, QueueApart
  <2>5. RoomKept'
    BY <2>1, RoomStays DEF Live
  <2>6. KeptApart'
    BY <2>1 DEF KeptApart, KeptResumable, chatVars
  <2>7. ShutdownWaits'
    BY <2>1 DEF ShutdownWaits, ShutdownComplete, Live, endVars
  <2>8. QED
    BY <2>2, <2>3, <2>4, <2>5, <2>6, <2>7
<1>16. ASSUME NEW c \in Chats, Reveal(c) PROVE IInv'
  <2>1. QueueApart'
    BY <1>16 DEF Reveal, chatVars, queueVars, endVars, QueueApart
  <2>2. FlightsQueued'
    BY <1>16 DEF Reveal, chatVars, queueVars, endVars, FlightsQueued
  <2>3. LoopAlone'
    BY <1>16 DEF Reveal, chatVars, queueVars, endVars, LoopAlone, Live
  <2>4. OneController'
    BY <1>16 DEF Reveal, chatVars, queueVars, endVars, OneController, LoopAlone, Live
  <2>5. KeptApart'
    BY <1>16 DEF Reveal, chatVars, queueVars, endVars, KeptApart, KeptResumable, Refresh,
       Recorded
  <2>6. ShutdownWaits'
    BY <1>16 DEF Reveal, chatVars, queueVars, endVars, ShutdownWaits, ShutdownComplete, Live
  <2>7. RoomKept'
    <3>1. Live' \subseteq Live
      BY <1>16 DEF Reveal, Live
    <3>2. QED
      BY <1>16, <3>1, RoomStays DEF Reveal, queueVars
  <2>8. QED
    BY <2>1, <2>2, <2>3, <2>4, <2>5, <2>6, <2>7
<1>17. ASSUME NEW c \in Chats, OpenSession(c) PROVE IInv'
  <2>1. /\ Enqueue("resume", c)
        /\ UNCHANGED <<panel, chatVars, head, victim, recent, endVars, kept>>
        /\ \A i \in DOMAIN queue : queue[i].chat # c
        /\ panel[c] = "none" /\ tree[c] # "unmade"
        /\ shutdown = "no"
    BY <1>17, QueueTyped DEF OpenSession, New, Accepting, KeptApart, endVars, FlightsQueued,
       QueueApart
  <2>2. /\ queue' \in Seq(Request) /\ QueueApart'
        /\ \E k \in DOMAIN queue' : queue'[k].by = "resume" /\ queue'[k].chat = c
                /\ \A i \in DOMAIN queue' : i # k => i \in DOMAIN queue /\ queue'[i] = queue[i]
        /\ \A i \in DOMAIN queue : i \in DOMAIN queue' /\ queue'[i] = queue[i]
        /\ queue # <<>> => Head(queue') = Head(queue)
    BY <1>17, <2>1, EnqueueQueue DEF chatVars
  <2>3. FlightsQueued'
    BY <1>17, <2>1, <2>2 DEF OpenSession, FlightsQueued
  <2>4. LoopAlone' /\ OneController'
    BY <2>1, <2>2 DEF LoopAlone, OneController, Live, QueueApart
  <2>5. RoomKept'
    BY <2>1, RoomStays DEF Live
  <2>6. KeptApart'
    BY <2>1 DEF KeptApart, KeptResumable, chatVars
  <2>7. ShutdownWaits'
    BY <2>1 DEF ShutdownWaits, ShutdownComplete, Live, endVars
  <2>8. QED
    BY <2>2, <2>3, <2>4, <2>5, <2>6, <2>7
<1>18. ASSUME NEW c \in Chats, Handoff(c) PROVE IInv'
  <2>1. CASE Reveal(c)
    <3>1. QueueApart' /\ FlightsQueued' /\ LoopAlone' /\ OneController' /\ ShutdownWaits'
      BY <2>1 DEF Reveal, QueueApart, FlightsQueued, LoopAlone, OneController, ShutdownWaits,
         ShutdownComplete, Live, chatVars, queueVars, endVars
    <3>2. KeptApart'
      BY <2>1 DEF Reveal, KeptApart, KeptResumable, Refresh, Recorded, chatVars
    <3>3. RoomKept'
      BY <2>1, RoomStays DEF Reveal, queueVars, Live
    <3>4. QED
      BY <3>1, <3>2, <3>3
  <2>2. CASE /\ Live \cap Loops = {} /\ ~handoff /\ Accepting /\ New(c)
             /\ Enqueue("handoff", c) /\ handoff' = TRUE
             /\ UNCHANGED <<panel, chatVars, recent, head, victim, flights, endVars, kept>>
    <3>1. /\ Enqueue("handoff", c)
          /\ UNCHANGED <<panel, chatVars, head, victim, recent, endVars, kept>>
          /\ \A i \in DOMAIN queue : queue[i].chat # c
          /\ panel[c] = "none" /\ tree[c] = "unmade"
          /\ shutdown = "no"
      BY <2>2, QueueTyped DEF New, Accepting, KeptApart, endVars
    <3>2. /\ queue' \in Seq(Request) /\ QueueApart'
          /\ \E k \in DOMAIN queue' : queue'[k].by = "handoff" /\ queue'[k].chat = c
                  /\ \A i \in DOMAIN queue' : i # k => i \in DOMAIN queue /\ queue'[i] = queue[i]
          /\ \A i \in DOMAIN queue : i \in DOMAIN queue' /\ queue'[i] = queue[i]
          /\ queue # <<>> => Head(queue') = Head(queue)
      BY <2>2, <3>1, EnqueueQueue DEF chatVars, FlightsQueued
    <3>3. FlightsQueued'
      BY <2>2, <3>1, <3>2 DEF FlightsQueued
    <3>4. LoopAlone' /\ OneController'
      BY <3>1, <3>2 DEF LoopAlone, OneController, Live, QueueApart
    <3>5. RoomKept'
      BY <3>1, RoomStays DEF Live
    <3>6. KeptApart'
      BY <3>1 DEF KeptApart, KeptResumable, chatVars
    <3>7. ShutdownWaits'
      BY <3>1 DEF ShutdownWaits, ShutdownComplete, Live, endVars
    <3>8. QED
      BY <3>2, <3>3, <3>4, <3>5, <3>6, <3>7
  <2>3. QED
    BY <1>18, <2>1, <2>2 DEF Handoff
<1>19. ASSUME NEW c \in Chats, RemoveRecent(c) PROVE IInv'
  <2>1. QueueApart'
    BY <1>19 DEF RemoveRecent, chatVars, queueVars, endVars, QueueApart
  <2>2. FlightsQueued'
    BY <1>19 DEF RemoveRecent, chatVars, queueVars, endVars, FlightsQueued
  <2>3. LoopAlone'
    BY <1>19 DEF RemoveRecent, chatVars, queueVars, endVars, LoopAlone, Live
  <2>4. OneController'
    BY <1>19 DEF RemoveRecent, chatVars, queueVars, endVars, OneController, LoopAlone, Live
  <2>5. KeptApart'
    BY <1>19 DEF RemoveRecent, chatVars, queueVars, endVars, KeptApart, KeptResumable,
       Refresh, Recorded
  <2>6. ShutdownWaits'
    BY <1>19 DEF RemoveRecent, chatVars, queueVars, endVars, ShutdownWaits, ShutdownComplete,
       Live
  <2>7. RoomKept'
    <3>1. Live' \subseteq Live
      BY <1>19 DEF RemoveRecent, Live
    <3>2. QED
      BY <1>19, <3>1, RoomStays DEF RemoveRecent, queueVars
  <2>8. QED
    BY <2>1, <2>2, <2>3, <2>4, <2>5, <2>6, <2>7
<1>20. ASSUME NEW c \in Chats, Close(c) PROVE IInv'
  <2>9. /\ \A d \in Chats :
             panel'[d] = panel[d] \/ (panel[d] = "open" /\ panel'[d] = "disposing")
        /\ Live' = Live
    BY <1>20, CloseAllFacts DEF Close
  <2>1. QueueApart'
    BY <1>20, <2>9, QueueTyped DEF Close, QueueApart, chatVars, queueVars
  <2>2. FlightsQueued'
    BY <1>20 DEF Close, FlightsQueued, queueVars
  <2>3. LoopAlone' /\ OneController'
    BY <1>20, <2>9 DEF Close, LoopAlone, OneController, queueVars
  <2>4. KeptApart'
    BY <1>20, <2>9 DEF Close, KeptApart, KeptResumable, chatVars
  <2>5. ShutdownWaits'
    BY <1>20, <2>9 DEF Close, ShutdownWaits, ShutdownComplete, queueVars, endVars
  <2>6. RoomKept'
    BY <1>20, <2>9, RoomStays DEF Close, queueVars
  <2>7. QED
    BY <2>1, <2>2, <2>3, <2>4, <2>5, <2>6
<1>21. ASSUME NEW c \in Chats, StatusChange(c) PROVE IInv'
  <2>1. QueueApart'
    BY <1>21 DEF StatusChange, chatVars, queueVars, endVars, QueueApart
  <2>2. FlightsQueued'
    BY <1>21 DEF StatusChange, chatVars, queueVars, endVars, FlightsQueued
  <2>3. LoopAlone'
    BY <1>21 DEF StatusChange, chatVars, queueVars, endVars, LoopAlone, Live
  <2>4. OneController'
    BY <1>21 DEF StatusChange, chatVars, queueVars, endVars, OneController, LoopAlone, Live
  <2>5. KeptApart'
    BY <1>21 DEF StatusChange, chatVars, queueVars, endVars, KeptApart, KeptResumable,
       Refresh, Recorded
  <2>6. ShutdownWaits'
    BY <1>21 DEF StatusChange, chatVars, queueVars, endVars, ShutdownWaits, ShutdownComplete,
       Live
  <2>7. RoomKept'
    <3>1. Live' \subseteq Live
      BY <1>21 DEF StatusChange, Live
    <3>2. QED
      BY <1>21, <3>1, RoomStays DEF StatusChange, queueVars
  <2>8. QED
    BY <2>1, <2>2, <2>3, <2>4, <2>5, <2>6, <2>7
<1>22. ASSUME NEW c \in Chats, SessionFile(c) PROVE IInv'
  <2>1. QueueApart'
    BY <1>22 DEF SessionFile, Keep, chatVars, queueVars, endVars, QueueApart
  <2>2. FlightsQueued'
    BY <1>22 DEF SessionFile, Keep, chatVars, queueVars, endVars, FlightsQueued
  <2>3. LoopAlone'
    BY <1>22 DEF SessionFile, Keep, chatVars, queueVars, endVars, LoopAlone, Live
  <2>4. OneController'
    BY <1>22 DEF SessionFile, Keep, chatVars, queueVars, endVars, OneController, LoopAlone, Live
  <2>5. KeptApart'
    BY <1>22 DEF SessionFile, Keep, chatVars, queueVars, endVars, KeptApart, KeptResumable,
       Refresh, Recorded
  <2>6. ShutdownWaits'
    BY <1>22 DEF SessionFile, Keep, chatVars, queueVars, endVars, ShutdownWaits,
       ShutdownComplete, Live
  <2>7. RoomKept'
    <3>1. Live' \subseteq Live
      BY <1>22 DEF SessionFile, Live
    <3>2. QED
      BY <1>22, <3>1, RoomStays DEF SessionFile, queueVars
  <2>8. QED
    BY <2>1, <2>2, <2>3, <2>4, <2>5, <2>6, <2>7
<1>23. ASSUME NEW c \in Chats, Claim(c) PROVE IInv'
  <2>1. QueueApart'
    BY <1>23 DEF Claim, Keep, chatVars, queueVars, endVars, QueueApart
  <2>2. FlightsQueued'
    BY <1>23 DEF Claim, Keep, chatVars, queueVars, endVars, FlightsQueued
  <2>3. LoopAlone'
    BY <1>23 DEF Claim, Keep, chatVars, queueVars, endVars, LoopAlone, Live
  <2>4. OneController'
    BY <1>23 DEF Claim, Keep, chatVars, queueVars, endVars, OneController, LoopAlone, Live
  <2>5. KeptApart'
    BY <1>23 DEF Claim, Keep, chatVars, queueVars, endVars, KeptApart, KeptResumable, Refresh,
       Recorded
  <2>6. ShutdownWaits'
    BY <1>23 DEF Claim, Keep, chatVars, queueVars, endVars, ShutdownWaits, ShutdownComplete,
       Live
  <2>7. RoomKept'
    <3>1. Live' \subseteq Live
      BY <1>23 DEF Claim, Live
    <3>2. QED
      BY <1>23, <3>1, RoomStays DEF Claim, queueVars
  <2>8. QED
    BY <2>1, <2>2, <2>3, <2>4, <2>5, <2>6, <2>7
<1>24. ASSUME UNCHANGED vars PROVE IInv'
  <2>1. QueueApart'
    BY <1>24 DEF vars, chatVars, queueVars, endVars, QueueApart
  <2>2. FlightsQueued'
    BY <1>24 DEF vars, chatVars, queueVars, endVars, FlightsQueued
  <2>3. LoopAlone'
    BY <1>24 DEF vars, chatVars, queueVars, endVars, LoopAlone, Live
  <2>4. OneController'
    BY <1>24 DEF vars, chatVars, queueVars, endVars, OneController, LoopAlone, Live
  <2>5. KeptApart'
    BY <1>24 DEF vars, chatVars, queueVars, endVars, KeptApart, KeptResumable
  <2>6. ShutdownWaits'
    BY <1>24 DEF vars, chatVars, queueVars, endVars, ShutdownWaits, ShutdownComplete, Live
  <2>7. RoomKept'
    BY <1>24, RoomStays DEF vars, queueVars, Live
  <2>8. QED
    BY <2>1, <2>2, <2>3, <2>4, <2>5, <2>6, <2>7
<1>25. QED
  BY <1>1, <1>2, <1>3, <1>4, <1>5, <1>6, <1>7, <1>8, <1>9, <1>10, <1>11, <1>12, <1>13, <1>14,
     <1>15, <1>16, <1>17, <1>18, <1>19, <1>20, <1>21, <1>22, <1>23, <1>24 DEF Next,
     CreationStep, CloseStep, UserStep, RuntimeStep, Over

\* In every reachable state the invariant holds.
LEMMA Invariance == Spec => []IInv
<1>1. Init => IInv
  <2> SUFFICES ASSUME Init PROVE IInv
    OBVIOUS
  <2>1. TypeOK
    <3>1. file \in [Chats -> BOOLEAN]
      BY Zenon DEF Init
    <3>2. unused \in [Chats -> BOOLEAN]
      BY Zenon DEF Init
    <3>3. handoff \in BOOLEAN
      BY Zenon DEF Init
    <3>4. queue \in Seq(Request)
      BY DEF Init
    <3>5. /\ panel \in [Chats -> {"none", "open", "disposing", "failed", "cleaning", "releasing"}]
          /\ tree \in [Chats -> {"unmade", "present", "removed"}]
      BY DEF Init
    <3>6. /\ recent \subseteq Chats /\ kept \subseteq Chats /\ flights = {} /\ closing = {}
          /\ head = "waiting" /\ victim = Nobody /\ shutdown = "no"
      BY DEF Init
    <3>7. QED
      BY <3>1, <3>2, <3>3, <3>4, <3>5, <3>6 DEF TypeOK
  <2>2. queue = <<>> /\ DOMAIN queue = {} /\ Live = {} /\ head = "waiting"
    BY DEF Init, Live
  <2>3. RoomKept
    BY <2>2, FS_EmptySet DEF RoomKept
  <2>4. KeptApart
    BY DEF Init, KeptApart, KeptResumable
  <2>5. QED
    BY <2>1, <2>2, <2>3, <2>4 DEF Init, IInv, QueueApart, FlightsQueued, LoopAlone,
       OneController,
       ShutdownWaits, ShutdownComplete
<1>2. IInv /\ [Next]_vars => IInv'
  BY IInvStep, TypeStep DEF IInv
<1>3. QED
  BY <1>1, <1>2, PTL DEF Spec

-------------------------------------------------------------------------------
(* Theorems                                                                *)

\* All states are well typed (every definition of SessionManager).
THEOREM TypeSafety == Spec => []TypeOK
  BY Invariance, PTL DEF IInv

\* Never more than Cap chats with a process, also while #ensureRpcCapacity suspends
\* one to make room.
THEOREM Capped == Spec => []ProcessCap
<1>1. IInv => ProcessCap
  <2> SUFFICES ASSUME IInv PROVE ProcessCap
    OBVIOUS
  <2>1. Running \subseteq Live /\ Live \subseteq Chats
    BY DEF Running, Live
  <2>2. IsFiniteSet(Live) /\ Cardinality(Live) \in Nat
    BY <2>1, FiniteAssumption, FS_Subset, FS_CardinalityType
  <2>3. Cardinality(Running) <= Cardinality(Live) /\ Cardinality(Running) \in Nat
    BY <2>1, <2>2, FS_Subset, FS_CardinalityType
  <2>4. QED
    BY <2>2, <2>3 DEF IInv, RoomKept, ProcessCap
<1>2. QED
  BY <1>1, Invariance, PTL

\* One Loop controller per alias (#handoffToLoop, #createSession).
THEOREM LoopControlled == Spec => []OneController
  BY Invariance, PTL DEF IInv

\* No chat is resumed twice or under a live runtime, and no flight is left behind that
\* nobody finishes (#resumeFlights, #loopHandoffs).
THEOREM FlightsFinish == Spec => []ResumedOnce
<1>1. IInv => ResumedOnce
  <2> SUFFICES ASSUME IInv PROVE ResumedOnce
    OBVIOUS
  <2>1. Range(queue) = {queue[i] : i \in DOMAIN queue}
    BY DEF Range
  <2>2. \A i \in DOMAIN queue : queue[i].chat \in Chats
    BY QueueTyped DEF IInv, TypeOK
  <2>3. flights = {r.chat : r \in {q \in Range(queue) : q.by = "resume"}}
    BY <2>1, <2>2 DEF IInv, TypeOK, FlightsQueued
  <2>4. handoff <=> \E r \in Range(queue) : r.by = "handoff"
    BY <2>1 DEF IInv, FlightsQueued
  <2>5. QED
    BY <2>3, <2>4 DEF IInv, QueueApart, ResumedOnce
<1>2. QED
  BY <1>1, Invariance, PTL

\* A chat with a conversation stays listed and its worktree stays (#refresh, #remove,
\* #claimEphemeralWorktree), until the user removes it.
THEOREM ConversationsKept == Spec => []KeptResumable
  BY Invariance, PTL DEF IInv, KeptApart

\* A shutdown that resolves leaves nothing running (shutdown waits for the queue of
\* creations before closeAll).
THEOREM ShutDownClean == Spec => []ShutdownComplete
  BY Invariance, PTL DEF IInv, ShutdownWaits

====
